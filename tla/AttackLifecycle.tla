--------------------------- MODULE AttackLifecycle ---------------------------
(***************************************************************************)
(* What attacker.Manager promises of an attack, whatever goroutines do it:  *)
(* it runs, it is halted or it finishes, it reports one result, and its     *)
(* owner is notified exactly once, after the result is there               *)
(* (internal/attacker/attacker.go:147-150, 189-191, 217-219).               *)
(***************************************************************************)
CONSTANT Attack

VARIABLES verdict, reported, notified

vars == <<verdict, reported, notified>>

Init ==
    /\ verdict = [a \in Attack |-> "none"]
    /\ reported = [a \in Attack |-> FALSE]
    /\ notified = [a \in Attack |-> FALSE]

Begin(a) ==
    /\ verdict[a] = "none"
    /\ verdict' = [verdict EXCEPT ![a] = "running"]
    /\ UNCHANGED <<reported, notified>>

\* A successful Stop: at most once, and only before the result.
Halt(a) ==
    /\ verdict[a] = "running"
    /\ ~reported[a]
    /\ verdict' = [verdict EXCEPT ![a] = "stopped"]
    /\ UNCHANGED <<reported, notified>>

\* The result and a final verdict appear together; a halt stands.
Finish(a) ==
    /\ verdict[a] \in {"running", "stopped"}
    /\ ~reported[a]
    /\ \E v \in {"stopped", "completed"} :
        /\ verdict[a] = "stopped" => v = "stopped"
        /\ verdict' = [verdict EXCEPT ![a] = v]
    /\ reported' = [reported EXCEPT ![a] = TRUE]
    /\ UNCHANGED notified

\* onComplete.
Notify(a) ==
    /\ reported[a]
    /\ ~notified[a]
    /\ notified' = [notified EXCEPT ![a] = TRUE]
    /\ UNCHANGED <<verdict, reported>>

Next == \E a \in Attack : Begin(a) \/ Halt(a) \/ Finish(a) \/ Notify(a)

Spec == Init /\ [][Next]_vars
=============================================================================
