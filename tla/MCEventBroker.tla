---------------------------- MODULE MCEventBroker ----------------------------
(* A small instance of EventBroker for TLC. *)
EXTENDS EventBroker

CONSTANTS p1, p2

\* p1 sends two events, so that they can change places, and p2 one between them.
TwoAndOne == [p \in Publisher |-> IF p = p1 THEN 2 ELSE 1]
=============================================================================
