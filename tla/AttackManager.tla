---------------------------- MODULE AttackManager ----------------------------
(***************************************************************************)
(* The vegeta attack manager (internal/attacker/attacker.go), the HTTP      *)
(* handlers that drive it (internal/api/attack_handler.go) and the process  *)
(* shutdown that stops it (cmd/zeus/main.go).                               *)
(*                                                                          *)
(* Every POST /attacks request is a member of Attack and owns at most one   *)
(* attack object, the goroutine that runs it and the handler that launched  *)
(* it.  Every DELETE /attacks/{id} request is a member of Stopper.  A step  *)
(* is what a goroutine does between two points where another one can run:   *)
(* a critical section of Manager.mu is one step.                            *)
(***************************************************************************)
EXTENDS Integers, FiniteSets

CONSTANTS Attack,    \* the POST requests, and the *Attack each may create
          ID,        \* the ids clients supply or id.New() draws
          Stopper,   \* the DELETE requests
          Main,      \* the main goroutine, the caller of StopAll
          None,
          Seconds,      \* what a request may ask for as its duration_s
          Second,       \* time.Second in ticks of the model
          MaxDuration   \* the largest time.Duration in ticks

Caller == Stopper \cup {Main}

ASSUME ConstantsAssumption ==
    /\ IsFiniteSet(Attack)
    /\ Main \notin Stopper
    /\ None \notin Attack
    /\ None \notin ID
    /\ Seconds \subseteq Int
    /\ {Second, MaxDuration} \subseteq Nat

VARIABLES
    attacks,         \* Manager.attacks: which object an id names
    cfgID,           \* AttackConfig.ID of each object
    seconds,         \* AttackConfig.DurationS of each object
    status,          \* Attack.Status
    result,          \* Attack.Result is set
    ctx,             \* the attack's context: live, or why it was cancelled first
    stopch,          \* vegeta's stop channel is closed
    handler,         \* the goroutine of each POST request
    worker,          \* the goroutine each Launch starts, with vegeta's phase
    activeAttacks,   \* the ActiveAttacks gauge
    attacksStarted,  \* the AttacksStartedTotal counter
    pc,              \* where each caller of Stop is
    wanted,          \* the id in each DELETE request's path
    target,          \* the object a caller's Stop is halting
    claims,          \* history: the objects each caller's Stop marked stopped
    todo,            \* StopAll's ids still to stop
    snapshot         \* history: the running attacks when StopAll took its ids

registryVars == <<attacks, cfgID, seconds>>
verdictVars == <<status, result>>
vegetaVars == <<ctx, stopch>>
gaugeVars == <<activeAttacks, attacksStarted>>
stopVars == <<pc, wanted, target, claims, todo, snapshot>>
vars == <<registryVars, verdictVars, vegetaVars, handler, worker, gaugeVars,
          stopVars>>

Statuses == {"none", "running", "stopped", "completed"}
HandlerPC == {"idle", "accepted", "rejected", "launched", "counted", "done"}
WorkerPC == {"none", "ready", "pacing", "draining", "drained", "finalized",
             "exited"}
CtxCause == {"live", "timeout", "gone", "returned", "cancelled"}
StopperPC == {"idle", "called", "halt", "cancel", "ok", "refused"}
MainPC == {"serving", "draining", "stopping", "halt", "cancel", "exited"}

TypeOK ==
    /\ attacks \in [ID -> Attack \cup {None}]
    /\ cfgID \in [Attack -> ID \cup {None}]
    /\ seconds \in [Attack -> Seconds \cup {0}]
    /\ status \in [Attack -> Statuses]
    /\ result \in [Attack -> BOOLEAN]
    /\ ctx \in [Attack -> CtxCause]
    /\ stopch \in [Attack -> BOOLEAN]
    /\ handler \in [Attack -> HandlerPC]
    /\ worker \in [Attack -> WorkerPC]
    /\ activeAttacks \in Int
    /\ attacksStarted \in Nat
    /\ pc \in [Caller -> StopperPC \cup MainPC]
    /\ wanted \in [Stopper -> ID \cup {None}]
    /\ target \in [Caller -> Attack \cup {None}]
    /\ claims \in [Caller -> SUBSET Attack]
    /\ todo \in SUBSET ID
    /\ snapshot \in SUBSET Attack

Init ==
    /\ attacks = [i \in ID |-> None]
    /\ cfgID = [a \in Attack |-> None]
    /\ seconds = [a \in Attack |-> 0]
    /\ status = [a \in Attack |-> "none"]
    /\ result = [a \in Attack |-> FALSE]
    /\ ctx = [a \in Attack |-> "live"]
    /\ stopch = [a \in Attack |-> FALSE]
    /\ handler = [a \in Attack |-> "idle"]
    /\ worker = [a \in Attack |-> "none"]
    /\ activeAttacks = 0
    /\ attacksStarted = 0
    /\ pc = [c \in Caller |-> IF c = Main THEN "serving" ELSE "idle"]
    /\ wanted = [s \in Stopper |-> None]
    /\ target = [c \in Caller |-> None]
    /\ claims = [c \in Caller |-> {}]
    /\ todo = {}
    /\ snapshot = {}

\* When main returns the process is gone and no goroutine takes a step.
Up == pc[Main] # "exited"

\* A context is cancelled once: the first cause is the one ctx.Err() reports.
CancelCtx(a, cause) ==
    ctx' = IF ctx[a] = "live" THEN [ctx EXCEPT ![a] = cause] ELSE ctx

\* Arithmetic on a signed integer whose largest value is MaxDuration.
Wrap(ticks) ==
    LET values == 2 * (MaxDuration + 1)
    IN  ((ticks + MaxDuration + 1) % values) - (MaxDuration + 1)

\* AttackConfig.Duration.  Validate has no upper bound on duration_s, so the
\* product can wrap; and vegeta takes what is not positive for no limit.
Duration(a) == Wrap(seconds[a] * Second)
Endless(a) == Duration(a) <= 0

\* What Launch gives the context: negative if this, or the duration, wraps.
CtxTimeout(a) == Wrap(Duration(a) + 5 * Second)

-----------------------------------------------------------------------------
(* POST /api/v1/attacks: handleCreateAttack and Launch.                     *)

\* The server accepts the request; its body gives the duration, and names the id
\* or has a fresh one drawn.
AcceptCreate(a) ==
    /\ pc[Main] = "serving"
    /\ handler[a] = "idle"
    /\ \E i \in ID : cfgID' = [cfgID EXCEPT ![a] = i]
    /\ \E n \in Seconds : seconds' = [seconds EXCEPT ![a] = n]
    /\ handler' = [handler EXCEPT ![a] = "accepted"]
    /\ UNCHANGED <<attacks, verdictVars, vegetaVars, worker, gaugeVars, stopVars>>

\* Bad JSON, an unknown run_ref or an invalid configuration: 400.
RejectCreate(a) ==
    /\ Up
    /\ handler[a] = "accepted"
    /\ handler' = [handler EXCEPT ![a] = "rejected"]
    /\ CancelCtx(a, "returned")
    /\ UNCHANGED <<registryVars, verdictVars, stopch, worker, gaugeVars, stopVars>>

\* The map entry is written whatever the id named before, and the goroutine
\* is started.  Between the insertion and the go statement Stop can already
\* find the attack: that is the worker's "ready" phase.  Validate asks for a
\* positive duration_s; a context whose timeout is not positive ends at once.
Launch(a) ==
    /\ Up
    /\ handler[a] = "accepted"
    /\ seconds[a] > 0
    /\ IF CtxTimeout(a) > 0 THEN UNCHANGED ctx ELSE CancelCtx(a, "timeout")
    /\ attacks' = [attacks EXCEPT ![cfgID[a]] = a]
    /\ status' = [status EXCEPT ![a] = "running"]
    /\ worker' = [worker EXCEPT ![a] = "ready"]
    /\ handler' = [handler EXCEPT ![a] = "launched"]
    /\ UNCHANGED <<cfgID, seconds, result, stopch, gaugeVars, stopVars>>

\* The handler counts the attack only after Launch has returned.
CountLaunched(a) ==
    /\ Up
    /\ handler[a] = "launched"
    /\ attacksStarted' = attacksStarted + 1
    /\ activeAttacks' = activeAttacks + 1
    /\ handler' = [handler EXCEPT ![a] = "counted"]
    /\ UNCHANGED <<registryVars, verdictVars, vegetaVars, worker, stopVars>>

\* 202, and the handler returns: net/http cancels r.Context(), the parent of
\* the attack's context.
Respond(a) ==
    /\ Up
    /\ handler[a] = "counted"
    /\ handler' = [handler EXCEPT ![a] = "done"]
    /\ CancelCtx(a, "returned")
    /\ UNCHANGED <<registryVars, verdictVars, stopch, worker, gaugeVars, stopVars>>

\* The client closes its connection while the handler runs.
ClientGone(a) ==
    /\ Up
    /\ handler[a] \in {"accepted", "launched", "counted"}
    /\ ctx[a] = "live"
    /\ CancelCtx(a, "gone")
    /\ UNCHANGED <<registryVars, verdictVars, stopch, handler, worker, gaugeVars,
                   stopVars>>

-----------------------------------------------------------------------------
(* The launch goroutine, and the vegeta attacker it waits for.              *)

\* atk.Attack starts the pacing loop.
StartAttack(a) ==
    /\ Up
    /\ worker[a] = "ready"
    /\ worker' = [worker EXCEPT ![a] = "pacing"]
    /\ UNCHANGED <<registryVars, verdictVars, vegetaVars, handler, gaugeVars,
                   stopVars>>

\* Mutant: Launch passes no duration on, and vegeta runs until it is stopped.
EndPacing_NoDuration(a) ==
    /\ Up
    /\ worker[a] = "pacing" /\ stopch[a]
    /\ worker' = [worker EXCEPT ![a] = "draining"]
    /\ UNCHANGED <<registryVars, verdictVars, vegetaVars, handler, gaugeVars,
                   stopVars>>

\* vegeta stops pacing when the duration is over, or when it sees stopch closed.
EndPacing(a) ==
    /\ Up
    /\ worker[a] = "pacing"
    /\ Endless(a) => stopch[a]
    /\ worker' = [worker EXCEPT ![a] = "draining"]
    /\ UNCHANGED <<registryVars, verdictVars, vegetaVars, handler, gaugeVars,
                   stopVars>>

\* The targeter returns an error: vegeta stops itself.
TargeterError(a) ==
    /\ Up
    /\ worker[a] = "pacing"
    /\ stopch' = [stopch EXCEPT ![a] = TRUE]
    /\ worker' = [worker EXCEPT ![a] = "draining"]
    /\ UNCHANGED <<registryVars, verdictVars, ctx, handler, gaugeVars, stopVars>>

\* duration + 5s after Launch.  That is after the pacing is over, and only the
\* draining of slow responses can still be running; but an endless attack, whose
\* context may have up to 5s, loses it while it is paced.
Timeout(a) ==
    /\ Up
    /\ \/ worker[a] \in {"draining", "drained"}
       \/ worker[a] \in {"ready", "pacing"} /\ Endless(a)
    /\ ctx[a] = "live"
    /\ CancelCtx(a, "timeout")
    /\ UNCHANGED <<registryVars, verdictVars, stopch, handler, worker, gaugeVars,
                   stopVars>>

\* The in-flight responses are in, the results channel is closed and
\* metrics.Close() returns.
Drain(a) ==
    /\ Up
    /\ worker[a] = "draining"
    /\ worker' = [worker EXCEPT ![a] = "drained"]
    /\ UNCHANGED <<registryVars, verdictVars, vegetaVars, handler, gaugeVars,
                   stopVars>>

\* Mutant: classifies by the context alone, over what Stop decided.
Verdict_Overrules(a) == IF ctx[a] # "live" THEN "stopped" ELSE "completed"

\* What the goroutine makes of a status Stop has not touched.
Verdict(a) ==
    IF status[a] # "running" THEN status[a]
    ELSE IF ctx[a] # "live" THEN "stopped" ELSE "completed"

\* Mutant: returns early when Stop has already set the status.
Finalize_SkipsStopped(a) ==
    /\ Up
    /\ worker[a] = "drained"
    /\ result' = [result EXCEPT ![a] = status[a] = "running"]
    /\ status' = [status EXCEPT ![a] = Verdict(a)]
    /\ worker' = [worker EXCEPT ![a] = "finalized"]
    /\ UNCHANGED <<registryVars, vegetaVars, handler, gaugeVars, stopVars>>

Finalize(a) ==
    /\ Up
    /\ worker[a] = "drained"
    /\ result' = [result EXCEPT ![a] = TRUE]
    /\ status' = [status EXCEPT ![a] = Verdict(a)]
    /\ worker' = [worker EXCEPT ![a] = "finalized"]
    /\ UNCHANGED <<registryVars, vegetaVars, handler, gaugeVars, stopVars>>

\* onComplete decrements the gauge; the deferred cancel() runs.
Complete(a) ==
    /\ Up
    /\ worker[a] = "finalized"
    /\ activeAttacks' = activeAttacks - 1
    /\ CancelCtx(a, "cancelled")
    /\ worker' = [worker EXCEPT ![a] = "exited"]
    /\ UNCHANGED <<registryVars, verdictVars, stopch, handler, attacksStarted,
                   stopVars>>

-----------------------------------------------------------------------------
(* Manager.Stop, called by handleStopAttack and by StopAll.                 *)

Stoppable(i) == attacks[i] # None /\ status[attacks[i]] = "running"

\* The critical section of Stop when the id names a running attack.
ClaimStop(c, i) ==
    /\ Stoppable(i)
    /\ status' = [status EXCEPT ![attacks[i]] = "stopped"]
    /\ target' = [target EXCEPT ![c] = attacks[i]]
    /\ claims' = [claims EXCEPT ![c] = @ \cup {attacks[i]}]
    /\ pc' = [pc EXCEPT ![c] = "halt"]

\* atk.Stop(), outside the lock.
HaltVegeta(c) ==
    /\ Up
    /\ pc[c] = "halt"
    /\ stopch' = [stopch EXCEPT ![target[c]] = TRUE]
    /\ pc' = [pc EXCEPT ![c] = "cancel"]
    /\ UNCHANGED <<registryVars, verdictVars, ctx, handler, worker, gaugeVars,
                   wanted, target, claims, todo, snapshot>>

\* cancel(), and Stop returns nil.
CancelAttack(c) ==
    /\ Up
    /\ pc[c] = "cancel"
    /\ CancelCtx(target[c], "cancelled")
    /\ pc' = [pc EXCEPT ![c] = IF c = Main THEN "stopping" ELSE "ok"]
    /\ UNCHANGED <<registryVars, verdictVars, stopch, handler, worker, gaugeVars,
                   wanted, target, claims, todo, snapshot>>

AcceptStop(s) ==
    /\ pc[Main] = "serving"
    /\ pc[s] = "idle"
    /\ \E i \in ID : wanted' = [wanted EXCEPT ![s] = i]
    /\ pc' = [pc EXCEPT ![s] = "called"]
    /\ UNCHANGED <<registryVars, verdictVars, vegetaVars, handler, worker,
                   gaugeVars, target, claims, todo, snapshot>>

\* Mutant: handleStopAttack decrements the gauge as well as onComplete.
HandleStop_Dec(s) ==
    /\ Up
    /\ pc[s] = "called"
    /\ ClaimStop(s, wanted[s])
    /\ activeAttacks' = activeAttacks - 1
    /\ UNCHANGED <<registryVars, result, vegetaVars, handler, worker,
                   attacksStarted, wanted, todo, snapshot>>

HandleStop(s) ==
    /\ Up
    /\ pc[s] = "called"
    /\ ClaimStop(s, wanted[s])
    /\ UNCHANGED <<registryVars, result, vegetaVars, handler, worker, gaugeVars,
                   wanted, todo, snapshot>>

\* Unknown id, or an attack that is no longer running: 404.
RefuseStop(s) ==
    /\ Up
    /\ pc[s] = "called"
    /\ ~Stoppable(wanted[s])
    /\ pc' = [pc EXCEPT ![s] = "refused"]
    /\ UNCHANGED <<registryVars, verdictVars, vegetaVars, handler, worker,
                   gaugeVars, wanted, target, claims, todo, snapshot>>

-----------------------------------------------------------------------------
(* Shutdown: main after SIGINT or SIGTERM.                                  *)

Signal ==
    /\ pc[Main] = "serving"
    /\ pc' = [pc EXCEPT ![Main] = "draining"]
    /\ UNCHANGED <<registryVars, verdictVars, vegetaVars, handler, worker,
                   gaugeVars, wanted, target, claims, todo, snapshot>>

\* httpServer.Shutdown returns when the handlers are done or after 10s, which
\* can happen at any time here; then StopAll reads the running ids under RLock.
StopAllSnapshot ==
    /\ pc[Main] = "draining"
    /\ todo' = {i \in ID : Stoppable(i)}
    /\ snapshot' = {a \in Attack : status[a] = "running"}
    /\ pc' = [pc EXCEPT ![Main] = "stopping"]
    /\ UNCHANGED <<registryVars, verdictVars, vegetaVars, handler, worker,
                   gaugeVars, wanted, target, claims>>

StopAllClaim ==
    /\ pc[Main] = "stopping"
    /\ \E i \in todo :
        /\ ClaimStop(Main, i)
        /\ todo' = todo \ {i}
    /\ UNCHANGED <<registryVars, result, vegetaVars, handler, worker, gaugeVars,
                   wanted, snapshot>>

\* Mutant: the first error ends the loop.
StopAllSkip_GivesUp ==
    /\ pc[Main] = "stopping"
    /\ \E i \in todo : ~Stoppable(i)
    /\ todo' = {}
    /\ UNCHANGED <<registryVars, verdictVars, vegetaVars, handler, worker,
                   gaugeVars, pc, wanted, target, claims, snapshot>>

\* Mutant: an id that could not be stopped is tried again.
StopAllSkip_Retries ==
    /\ pc[Main] = "stopping"
    /\ \E i \in todo : ~Stoppable(i)
    /\ UNCHANGED vars

\* Stop returns an error, which StopAll drops.
StopAllSkip ==
    /\ pc[Main] = "stopping"
    /\ \E i \in todo :
        /\ ~Stoppable(i)
        /\ todo' = todo \ {i}
    /\ UNCHANGED <<registryVars, verdictVars, vegetaVars, handler, worker,
                   gaugeVars, pc, wanted, target, claims, snapshot>>

\* StopAll returns and so does main, without waiting for the goroutines.
Exit ==
    /\ pc[Main] = "stopping"
    /\ todo = {}
    /\ pc' = [pc EXCEPT ![Main] = "exited"]
    /\ UNCHANGED <<registryVars, verdictVars, vegetaVars, handler, worker,
                   gaugeVars, wanted, target, claims, todo, snapshot>>

Terminated == ~Up /\ UNCHANGED vars

-----------------------------------------------------------------------------
CreateStep(a) ==
    \/ AcceptCreate(a)
    \/ RejectCreate(a)
    \/ Launch(a)
    \/ CountLaunched(a)
    \/ Respond(a)
    \/ ClientGone(a)

WorkerStep(a) ==
    \/ StartAttack(a)
    \/ EndPacing(a)
    \/ TargeterError(a)
    \/ Timeout(a)
    \/ Drain(a)
    \/ Finalize(a)
    \/ Complete(a)

StopperStep(s) ==
    \/ AcceptStop(s)
    \/ HandleStop(s)
    \/ RefuseStop(s)

HaltStep(c) ==
    \/ HaltVegeta(c)
    \/ CancelAttack(c)

MainStep ==
    \/ Signal
    \/ StopAllSnapshot
    \/ StopAllClaim
    \/ StopAllSkip
    \/ Exit

Next ==
    \/ \E a \in Attack : CreateStep(a)
    \/ \E a \in Attack : WorkerStep(a)
    \/ \E s \in Stopper : StopperStep(s)
    \/ \E c \in Caller : HaltStep(c)
    \/ MainStep
    \/ Terminated

Spec == Init /\ [][Next]_vars

\* The Go scheduler runs every goroutine that can run; a request's body is
\* bounded by ReadTimeout, an attack's pacing by its duration if it has one
\* (EndPacing is not enabled for an endless attack nobody stops) and its draining
\* by vegeta's per-request timeout, Shutdown by its 10s context.  Nothing
\* obliges a client to send a request, to hang up, or an operator to signal.
Fairness ==
    /\ \A a \in Attack :
        /\ WF_vars(Launch(a) \/ RejectCreate(a))
        /\ WF_vars(CountLaunched(a))
        /\ WF_vars(Respond(a))
        /\ WF_vars(StartAttack(a))
        /\ WF_vars(EndPacing(a))
        /\ WF_vars(Drain(a))
        /\ WF_vars(Finalize(a))
        /\ WF_vars(Complete(a))
    /\ \A s \in Stopper : WF_vars(HandleStop(s) \/ RefuseStop(s))
    /\ \A c \in Caller : WF_vars(HaltVegeta(c)) /\ WF_vars(CancelAttack(c))
    /\ WF_vars(StopAllSnapshot)
    /\ WF_vars(StopAllClaim \/ StopAllSkip)
    /\ WF_vars(Exit)

FairSpec == Spec /\ Fairness

-----------------------------------------------------------------------------
(* Safety.                                                                  *)

Launched == {a \in Attack : worker[a] # "none"}
Counted == {a \in Attack : handler[a] \in {"counted", "done"}}
Exited == {a \in Attack : worker[a] = "exited"}

Finished(a) == worker[a] \in {"finalized", "exited"}

\* The ActiveAttacks gauge is what the increments of the create handlers and
\* the decrements of the onComplete hooks make it: each launched attack is
\* added once by its handler and removed once by its goroutine, however it
\* ends, and by nobody else (the comment at attack_handler.go:57-59).
GaugeAccounting ==
    activeAttacks = Cardinality(Counted) - Cardinality(Exited)

\* Whenever no create handler is between Launch and its increment, the gauge
\* is the number of launch goroutines that have not finished: it neither
\* drifts nor goes below zero, whoever stopped, timed out or finished.
GaugeExact ==
    (\A a \in Attack : handler[a] # "launched") =>
        activeAttacks = Cardinality(Launched \ Exited)

\* Of the callers that try to stop one attack, DELETE requests and StopAll,
\* at most one succeeds; the others are told it is not running.
OneStopWins ==
    \A c, d \in Caller : c # d => claims[c] \cap claims[d] = {}

\* An attack that Stop claimed stays "stopped", also when its goroutine
\* finalizes it afterwards (attacker.go:189-191).
StopIsFinal ==
    \A c \in Caller : \A a \in claims[c] : status[a] = "stopped"

\* A result is there exactly when the launch goroutine is past finalizing; it
\* comes with a final verdict, and "completed" is never said without it.
FinishedMeansVerdict ==
    \A a \in Attack :
        /\ Finished(a) <=> result[a]
        /\ result[a] => status[a] \in {"stopped", "completed"}
        /\ status[a] = "completed" => result[a]

\* When main returns, every attack that was running when StopAll looked is
\* no longer running, unless a later POST took its id in the registry.
ShutdownStopsRegistered ==
    ~Up => \A a \in snapshot :
        status[a] # "running" \/ attacks[cfgID[a]] # a

\* An attack leaves "running" once and its verdict never changes; a result
\* that is set stays set.
VerdictFinal ==
    [][\A a \in Attack :
        /\ status[a] \in {"stopped", "completed"} => status'[a] = status[a]
        /\ result[a] => result'[a]]_vars

-----------------------------------------------------------------------------
(* The inductive invariant behind the safety properties.                    *)

\* A handler, its goroutine and the status of its attack move together, and
\* what the registry names has been launched.
PhasesAgree ==
    /\ \A a \in Attack :
        /\ handler[a] # "idle" => cfgID[a] \in ID
        /\ worker[a] = "none" <=> handler[a] \in {"idle", "accepted", "rejected"}
        /\ worker[a] = "none" <=> status[a] = "none"
    /\ \A i \in ID : attacks[i] # None => worker[attacks[i]] # "none"

\* A caller acts on what its earlier steps found.
CallersKnow ==
    /\ \A s \in Stopper : pc[s] = "called" => wanted[s] \in ID
    /\ \A c \in Caller : pc[c] \in {"halt", "cancel"} => target[c] \in Attack
    /\ \A c \in Caller : pc[c] = "called" => c \in Stopper
    /\ pc[Main] \in MainPC

\* What StopAll still has to do for the attacks it saw running.
StopAllPending ==
    /\ pc[Main] = "exited" => todo = {}
    /\ \A a \in snapshot :
        /\ pc[Main] \notin {"serving", "draining"}
        /\ status[a] # "none"
        /\ status[a] = "running" /\ attacks[cfgID[a]] = a => cfgID[a] \in todo

IInv ==
    /\ TypeOK
    /\ PhasesAgree
    /\ CallersKnow
    /\ StopAllPending
    /\ GaugeAccounting
    /\ OneStopWins
    /\ StopIsFinal
    /\ FinishedMeansVerdict

-----------------------------------------------------------------------------
(* Liveness, under FairSpec.  The process may always be told to exit.       *)

\* The values of duration_s that a time.Duration can hold.
Fitting == {n \in Seconds : n * Second <= MaxDuration}

Over(a) == worker[a] = "exited" \/ ~Up

\* A launched attack whose duration_s fits a time.Duration finishes and gives its
\* gauge entry back; so does one that a Stop has claimed, whatever its duration.
\* Without one, an attack whose duration wrapped below zero (attacker.go:78) is
\* paced until its targeter fails, which nothing forces.
LaunchedFinishes ==
    /\ \A a \in Attack :
        (status[a] = "running" /\ seconds[a] \in Fitting) ~> Over(a)
    /\ \A a \in Attack : (\E c \in Caller : a \in claims[c]) ~> Over(a)

\* A successful Stop is answered and the attack it claimed is finalized.
StopConverges ==
    \A s \in Stopper :
        (pc[s] = "halt") ~>
            ((pc[s] = "ok" /\ \A a \in claims[s] : result[a]) \/ ~Up)

\* A signalled process exits, whatever handlers and attacks are in flight.
ShutdownEnds == (pc[Main] = "draining") ~> ~Up

-----------------------------------------------------------------------------
(* What the code says of itself and does not do: checked to fail.           *)

\* attacker.go:189-191 tells a cancelled context (timeout, parent cancel) from
\* natural completion: an attack that nobody stopped, that did not time out,
\* whose client stayed and whose targeter did not fail is "completed".
NaturalCompletion ==
    \A a \in Attack :
        ( /\ Finished(a)
          /\ ~stopch[a]
          /\ \A c \in Caller : a \notin claims[c]
          /\ ctx[a] \notin {"timeout", "gone"} )
        => status[a] = "completed"

-----------------------------------------------------------------------------
(* The manager implements the life cycle of an attack.                      *)

Lifecycle == INSTANCE AttackLifecycle WITH
    verdict <- status,
    reported <- result,
    notified <- [a \in Attack |-> worker[a] = "exited"]

LifecycleSpec == Lifecycle!Spec
=============================================================================
