------------------------------ MODULE RunStore ------------------------------
(***************************************************************************)
(* The run store and its state machine (internal/run/store.go,              *)
(* internal/run/statemachine.go).  Every operation is one critical section  *)
(* of Store.mu.  Next is the most general client: any sequence of the       *)
(* store's exported operations, for any number of callers.                  *)
(***************************************************************************)
EXTENDS Integers, FiniteSets

CONSTANT RunID

VARIABLES
    status,    \* Run.Status, "absent" when the store has no such run
    ended,     \* Run.EndedAt is set
    reason,    \* Run.Reason is set
    visited    \* history: the statuses this run has had

vars == <<status, ended, reason, visited>>

Statuses == {"starting", "validating", "running", "completing", "completed",
             "stopped", "failed", "rejected"}

Terminal == {"completed", "stopped", "failed", "rejected"}

\* The table of legal transitions; a terminal status has no entry.
Transitions == [from \in Statuses |->
    CASE from = "starting" -> {"validating", "stopped", "failed"}
      [] from = "validating" -> {"running", "rejected", "stopped", "failed"}
      [] from = "running" -> {"completing", "stopped", "failed"}
      [] from = "completing" -> {"completed", "failed"}
      [] OTHER -> {}]

\* Transition(from, to) returns no error.
Legal(from, to) == to \in Transitions[from]

Exists(i) == status[i] # "absent"

TypeOK ==
    /\ status \in [RunID -> Statuses \cup {"absent"}]
    /\ ended \in [RunID -> BOOLEAN]
    /\ reason \in [RunID -> BOOLEAN]
    /\ visited \in [RunID -> SUBSET Statuses]

Init ==
    /\ status = [i \in RunID |-> "absent"]
    /\ ended = [i \in RunID |-> FALSE]
    /\ reason = [i \in RunID |-> FALSE]
    /\ visited = [i \in RunID |-> {}]

-----------------------------------------------------------------------------
\* Create refuses an id that is taken.  The caller builds the run: in status s,
\* with a reason when hasReason.
CanCreate(i) == ~Exists(i)

Create(i, s, hasReason) ==
    /\ CanCreate(i)
    /\ status' = [status EXCEPT ![i] = s]
    /\ ended' = [ended EXCEPT ![i] = FALSE]
    /\ reason' = [reason EXCEPT ![i] = hasReason]
    /\ visited' = [visited EXCEPT ![i] = {s}]

CanUpdate(i, s) == Exists(i) /\ Legal(status[i], s)

UpdateStatus(i, s) ==
    /\ CanUpdate(i, s)
    /\ status' = [status EXCEPT ![i] = s]
    /\ ended' = [ended EXCEPT ![i] = @ \/ s \in Terminal]
    /\ visited' = [visited EXCEPT ![i] = @ \cup {s}]
    /\ UNCHANGED reason

UpdateReason(i) ==
    /\ Exists(i)
    /\ reason' = [reason EXCEPT ![i] = TRUE]
    /\ UNCHANGED <<status, ended, visited>>

Delete(i) ==
    /\ Exists(i)
    /\ status' = [status EXCEPT ![i] = "absent"]
    /\ ended' = [ended EXCEPT ![i] = FALSE]
    /\ reason' = [reason EXCEPT ![i] = FALSE]
    /\ visited' = [visited EXCEPT ![i] = {}]

CountByStatus(s) == Cardinality({i \in RunID : status[i] = s})

\* handleCreateRun builds runs that are starting, or rejected with a reason.
Next ==
    \E i \in RunID :
        \/ Create(i, "starting", FALSE)
        \/ Create(i, "rejected", TRUE)
        \/ \E s \in Statuses : UpdateStatus(i, s)
        \/ UpdateReason(i)
        \/ Delete(i)

Spec == Init /\ [][Next]_vars

-----------------------------------------------------------------------------
\* No call brings a run out of a terminal status, short of deleting the run.
TerminalFinal ==
    [][\A i \in RunID : status[i] \in Terminal =>
        status'[i] \in {status[i], "absent"}]_vars

\* "completed" means that the run went through every phase: its data was
\* validated, k6 executed iterations, and its stats were flushed.
CompletedRanThrough ==
    \A i \in RunID : status[i] = "completed" =>
        {"starting", "validating", "running", "completing"} \subseteq visited[i]

\* "rejected" means that no k6 ever ran (api-contract.md:20), whether the
\* handshake rejected it at its creation or its validation did later.
RejectedNeverRan ==
    \A i \in RunID : status[i] = "rejected" =>
        visited[i] \cap {"running", "completing"} = {}

\* The end of a run is stamped when, and only when, UpdateStatus ended it.
EndedIffTerminal ==
    \A i \in RunID : ended[i] <=> status[i] \in Terminal /\ visited[i] # {status[i]}

\* Why a status is reached only along the table's paths.
PathInv ==
    \A i \in RunID :
        /\ status[i] = "absent" <=> visited[i] = {}
        /\ Exists(i) => status[i] \in visited[i]
        /\ status[i] = "starting" => visited[i] = {"starting"}
        /\ status[i] = "validating" => visited[i] = {"starting", "validating"}
        /\ status[i] = "running" =>
              visited[i] = {"starting", "validating", "running"}
        /\ status[i] = "completing" =>
              visited[i] = {"starting", "validating", "running", "completing"}

StoreInv ==
    TypeOK /\ PathInv /\ CompletedRanThrough /\ RejectedNeverRan /\ EndedIffTerminal
=============================================================================
