----------------------------- MODULE RunService -----------------------------
(***************************************************************************)
(* The life of runs through the API: handleCreateRun, handleStopRun and     *)
(* handleRunEvents (internal/api/run_handler.go) over the run store         *)
(* (RunStore) and the SSE broker (EventBroker), with the ActiveRuns gauge   *)
(* and the run counters.  Each request is a goroutine of its own, and a     *)
(* step is what it does between two points where another one can run.       *)
(* No code of the repository publishes an event, so channels stay empty.    *)
(***************************************************************************)
EXTENDS Integers, Sequences, FiniteSets

CONSTANTS RunID,       \* the ids clients supply or id.New() draws
          Creator,     \* POST /workflows/{id}/runs requests
          Stopper,     \* DELETE /runs/{id} requests
          Subscriber,  \* GET /runs/{id}/events requests
          None

ASSUME ServiceAssumption ==
    /\ IsFiniteSet(Creator)
    /\ IsFiniteSet(Stopper)
    /\ None \notin RunID

VARIABLES
    status, ended, reason, visited,     \* the store
    subs, chan, topic, reader,          \* the broker and the SSE handlers
    creator, createID,                  \* create handlers and their run ids
    stopper, stopID,                    \* stop handlers and their path ids
    request,                            \* the run each SSE handler has looked up
    activeRuns,                         \* the ActiveRuns gauge
    runsStopped                         \* RunsCompletedTotal{status="stopped"}

Store == INSTANCE RunStore

Broker == INSTANCE EventBroker WITH
    Run <- RunID, Publisher <- {}, Capacity <- 256, MaxEvents <- [p \in {} |-> 0],
    queue <- [s \in Subscriber |-> <<>>], received <- [s \in Subscriber |-> <<>>],
    dropped <- [s \in Subscriber |-> {}],
    sent <- <<>>, sending <- <<>>, pending <- <<>>

storeVars == <<status, ended, reason, visited>>
brokerVars == <<subs, chan, topic, reader>>
createVars == <<creator, createID>>
stopVars == <<stopper, stopID>>
metricVars == <<activeRuns, runsStopped>>
vars == <<storeVars, brokerVars, createVars, stopVars, request, metricVars>>

Terminal == Store!Terminal

CreatorPC == {"idle", "called", "created", "accepted", "rejected", "conflict"}
StopperPC == {"idle", "called", "found", "open", "won", "counted", "stopped",
              "refused"}

TypeOK ==
    /\ Store!TypeOK
    /\ subs \in [RunID -> SUBSET Subscriber]
    /\ chan \in [Subscriber -> {"none", "open", "closed"}]
    /\ topic \in [Subscriber -> RunID \cup {None}]
    /\ reader \in [Subscriber -> Broker!ReaderPC]
    /\ creator \in [Creator -> CreatorPC]
    /\ createID \in [Creator -> RunID \cup {None}]
    /\ stopper \in [Stopper -> StopperPC]
    /\ stopID \in [Stopper -> RunID \cup {None}]
    /\ request \in [Subscriber -> RunID \cup {None}]
    /\ activeRuns \in Int
    /\ runsStopped \in Nat

Init ==
    /\ Store!Init
    /\ Broker!Init
    /\ creator = [c \in Creator |-> "idle"]
    /\ createID = [c \in Creator |-> None]
    /\ stopper = [d \in Stopper |-> "idle"]
    /\ stopID = [d \in Stopper |-> None]
    /\ request = [s \in Subscriber |-> None]
    /\ activeRuns = 0
    /\ runsStopped = 0

-----------------------------------------------------------------------------
(* POST /api/v1/workflows/{id}/runs                                         *)

CallCreate(c) ==
    /\ creator[c] = "idle"
    /\ creator' = [creator EXCEPT ![c] = "called"]
    /\ \E i \in RunID : createID' = [createID EXCEPT ![c] = i]
    /\ UNCHANGED <<storeVars, brokerVars, stopVars, request, metricVars>>

\* The dataset does not fit the schema: the run is stored rejected, 422.
\* Neither the gauge nor a counter moves.
CreateRejected(c) ==
    /\ creator[c] = "called"
    /\ Store!Create(createID[c], "rejected", TRUE)
    /\ creator' = [creator EXCEPT ![c] = "rejected"]
    /\ UNCHANGED <<brokerVars, createID, stopVars, request, metricVars>>

CreateStarting(c) ==
    /\ creator[c] = "called"
    /\ Store!Create(createID[c], "starting", FALSE)
    /\ creator' = [creator EXCEPT ![c] = "created"]
    /\ UNCHANGED <<brokerVars, createID, stopVars, request, metricVars>>

\* The id is taken, 409.
CreateConflict(c) ==
    /\ creator[c] = "called"
    /\ ~Store!CanCreate(createID[c])
    /\ creator' = [creator EXCEPT ![c] = "conflict"]
    /\ UNCHANGED <<storeVars, brokerVars, createID, stopVars, request, metricVars>>

\* K6JobName, the started counter and the gauge follow outside the store's
\* lock: the run can already be stopped.  202.
CountStarted(c) ==
    /\ creator[c] = "created"
    /\ activeRuns' = activeRuns + 1
    /\ creator' = [creator EXCEPT ![c] = "accepted"]
    /\ UNCHANGED <<storeVars, brokerVars, createID, stopVars, request, runsStopped>>

-----------------------------------------------------------------------------
(* DELETE /api/v1/runs/{run_id}                                             *)

CallStop(d) ==
    /\ stopper[d] = "idle"
    /\ stopper' = [stopper EXCEPT ![d] = "called"]
    /\ \E i \in RunID : stopID' = [stopID EXCEPT ![d] = i]
    /\ UNCHANGED <<storeVars, brokerVars, createVars, request, metricVars>>

\* Store.Get: the run's pointer, or 404.
LookUp(d) ==
    /\ stopper[d] = "called"
    /\ stopper' = [stopper EXCEPT ![d] =
          IF Store!Exists(stopID[d]) THEN "found" ELSE "refused"]
    /\ UNCHANGED <<storeVars, brokerVars, createVars, stopID, request, metricVars>>

\* rn.Status is read through the pointer without the lock; 409 when terminal.
CheckTerminal(d) ==
    /\ stopper[d] = "found"
    /\ stopper' = [stopper EXCEPT ![d] =
          IF status[stopID[d]] \in Terminal THEN "refused" ELSE "open"]
    /\ UNCHANGED <<storeVars, brokerVars, createVars, stopID, request, metricVars>>

\* Mutant: the status is assigned through the pointer, not by UpdateStatus.
MarkStopped_Direct(d) ==
    /\ stopper[d] = "open"
    /\ status' = [status EXCEPT ![stopID[d]] = "stopped"]
    /\ stopper' = [stopper EXCEPT ![d] = "won"]
    /\ UNCHANGED <<ended, reason, visited, brokerVars, createVars, stopID,
                   request, metricVars>>

\* UpdateStatus checks again under the lock.
MarkStopped(d) ==
    /\ stopper[d] = "open"
    /\ Store!UpdateStatus(stopID[d], "stopped")
    /\ stopper' = [stopper EXCEPT ![d] = "won"]
    /\ UNCHANGED <<brokerVars, createVars, stopID, request, metricVars>>

\* Mutant: the error of UpdateStatus is ignored.
MarkRefused_Ignored(d) ==
    /\ stopper[d] = "open"
    /\ ~Store!CanUpdate(stopID[d], "stopped")
    /\ stopper' = [stopper EXCEPT ![d] = "won"]
    /\ UNCHANGED <<storeVars, brokerVars, createVars, stopID, request, metricVars>>

MarkRefused(d) ==
    /\ stopper[d] = "open"
    /\ ~Store!CanUpdate(stopID[d], "stopped")
    /\ stopper' = [stopper EXCEPT ![d] = "refused"]
    /\ UNCHANGED <<storeVars, brokerVars, createVars, stopID, request, metricVars>>

\* PruneRunLabels, then the gauge and the completed counter.
CountStopped(d) ==
    /\ stopper[d] = "won"
    /\ activeRuns' = activeRuns - 1
    /\ runsStopped' = runsStopped + 1
    /\ stopper' = [stopper EXCEPT ![d] = "counted"]
    /\ UNCHANGED <<storeVars, brokerVars, createVars, stopID, request>>

\* Mutant: the streams are left open.
CloseStreams_Skipped(d) ==
    /\ stopper[d] = "counted"
    /\ stopper' = [stopper EXCEPT ![d] = "stopped"]
    /\ UNCHANGED <<storeVars, brokerVars, createVars, stopID, request, metricVars>>

\* Broker.CloseRun, 204.
CloseStreams(d) ==
    /\ stopper[d] = "counted"
    /\ Broker!CloseRun(stopID[d])
    /\ stopper' = [stopper EXCEPT ![d] = "stopped"]
    /\ UNCHANGED <<storeVars, createVars, stopID, request, metricVars>>

-----------------------------------------------------------------------------
(* GET /api/v1/runs/{run_id}/events                                         *)

\* The run must exist; its status is not looked at.
CallEvents(s) ==
    /\ request[s] = None
    /\ \E i \in RunID :
        /\ Store!Exists(i)
        /\ request' = [request EXCEPT ![s] = i]
    /\ UNCHANGED <<storeVars, brokerVars, createVars, stopVars, metricVars>>

\* The headers are flushed before the handler subscribes.
Stream(s) ==
    /\ request[s] # None
    /\ Broker!Subscribe(s, request[s])
    /\ UNCHANGED <<storeVars, createVars, stopVars, request, metricVars>>

\* The channel is closed: the handler's loop ends.
SeeClosed(s) ==
    /\ Broker!SeeClose(s)
    /\ UNCHANGED <<storeVars, createVars, stopVars, request, metricVars>>

HangUp(s) ==
    /\ Broker!Disconnect(s)
    /\ UNCHANGED <<storeVars, createVars, stopVars, request, metricVars>>

Leave(s) ==
    /\ Broker!Unsubscribe(s)
    /\ UNCHANGED <<storeVars, createVars, stopVars, request, metricVars>>

-----------------------------------------------------------------------------
CreateStep(c) ==
    \/ CallCreate(c)
    \/ CreateRejected(c)
    \/ CreateStarting(c)
    \/ CreateConflict(c)
    \/ CountStarted(c)

StopStep(d) ==
    \/ CallStop(d)
    \/ LookUp(d)
    \/ CheckTerminal(d)
    \/ MarkStopped(d)
    \/ MarkRefused(d)
    \/ CountStopped(d)
    \/ CloseStreams(d)

EventsStep(s) ==
    \/ CallEvents(s)
    \/ Stream(s)
    \/ SeeClosed(s)
    \/ HangUp(s)
    \/ Leave(s)

\* Every request has been answered: the bound on requests is used up.
Quiet ==
    /\ \A c \in Creator : creator[c] \in {"accepted", "rejected", "conflict"}
    /\ \A d \in Stopper : stopper[d] \in {"stopped", "refused"}
    /\ \A s \in Subscriber : reader[s] \in {"idle", "gone"}
    /\ UNCHANGED vars

Next ==
    \/ \E c \in Creator : CreateStep(c)
    \/ \E d \in Stopper : StopStep(d)
    \/ \E s \in Subscriber : EventsStep(s)
    \/ Quiet

Spec == Init /\ [][Next]_vars

-----------------------------------------------------------------------------
NotCountedYet == {c \in Creator : creator[c] = "created"}
NotUncountedYet == {d \in Stopper : stopper[d] = "won"}

ActiveRunIDs == {i \in RunID : Store!Exists(i) /\ status[i] \notin Terminal}

\* When no handler is between its change of the store and its change of the
\* gauge, ActiveRuns is the number of runs that are not terminal and the
\* counter is the number that were stopped, however many DELETE requests of
\* the same run and POST requests of the same id raced (run_handler.go:183, 304).
GaugeExact ==
    NotCountedYet = {} /\ NotUncountedYet = {} =>
        /\ activeRuns = Cardinality(ActiveRunIDs)
        /\ runsStopped = Cardinality({i \in RunID : status[i] = "stopped"})

\* One DELETE of a run wins; the unlocked check of its status does not matter.
OneStopWins ==
    \A d, e \in Stopper :
        /\ stopper[d] \in {"won", "counted", "stopped"}
        /\ stopper[e] \in {"won", "counted", "stopped"}
        /\ stopID[d] = stopID[e]
        => d = e

\* Once a DELETE was answered 204 the streams registered before its CloseRun
\* are cut off: their channels are closed and out of the table.
StopCutsStreams ==
    [][\A d \in Stopper : stopper[d] = "counted" /\ stopper'[d] = "stopped" =>
        /\ subs'[stopID[d]] = {}
        /\ \A s \in Subscriber :
              reader[s] = "streaming" /\ topic[s] = stopID[d] =>
                  chan'[s] = "closed"]_vars

\* The handlers change statuses, reasons and end times by operations of the
\* store only, although they hold pointers into it.
StoreSpec == Store!Spec

-----------------------------------------------------------------------------
(* The inductive invariant behind the safety properties.                    *)

Maker(c) == creator[c] \in {"created", "accepted", "rejected"}
Winner(d) == stopper[d] \in {"won", "counted", "stopped"}

\* Every run was made by one POST and, if stopped, stopped by one DELETE.
RunsHaveOwners ==
    /\ \A c \in Creator : creator[c] # "idle" => createID[c] \in RunID
    /\ \A d \in Stopper : stopper[d] # "idle" => stopID[d] \in RunID
    /\ \A c \in Creator :
        /\ creator[c] \in {"created", "accepted"} =>
              status[createID[c]] \in {"starting", "stopped"}
        /\ creator[c] = "rejected" => status[createID[c]] = "rejected"
    /\ \A c, e \in Creator :
        Maker(c) /\ Maker(e) /\ createID[c] = createID[e] => c = e
    /\ \A i \in RunID : Store!Exists(i) =>
        \E c \in Creator : Maker(c) /\ createID[c] = i
    /\ \A i \in RunID : status[i] \in {"absent", "starting", "stopped", "rejected"}
    /\ \A d \in Stopper : Winner(d) => status[stopID[d]] = "stopped"
    /\ \A i \in RunID : status[i] = "stopped" =>
        \E d \in Stopper : Winner(d) /\ stopID[d] = i

\* The gauge and the counter hold what the handlers have added and removed.
CountedBy == {c \in Creator : creator[c] = "accepted"}
UncountedBy == {d \in Stopper : stopper[d] \in {"counted", "stopped"}}

GaugeAccounting ==
    /\ activeRuns = Cardinality(CountedBy) - Cardinality(UncountedBy)
    /\ runsStopped = Cardinality(UncountedBy)

\* A stream that is read is in the broker's table for its run until CloseRun has
\* closed its channel.
StreamsListed ==
    \A s \in Subscriber : reader[s] = "streaming" =>
        /\ topic[s] \in RunID
        /\ chan[s] = "closed" \/ s \in subs[topic[s]]

ServiceInv ==
    TypeOK /\ RunsHaveOwners /\ OneStopWins /\ GaugeAccounting /\ StreamsListed
=============================================================================
