------------------------- MODULE AttackManagerProofs -------------------------
(***************************************************************************)
(* Proofs about AttackManager and AttackReaders, for any finite set of POST *)
(* requests, any ids and any set of DELETE requests and readers: the        *)
(* inductive invariants IInv and ReadersInv, the safety properties they     *)
(* give, and the refinement of AttackLifecycle.                             *)
(***************************************************************************)
EXTENDS AttackReaders, FiniteSetTheorems, TLAPS

LEMMA TypePreserved ==
    ASSUME TypeOK, CallersKnow, [Next]_vars
    PROVE  TypeOK'
<1> USE ConstantsAssumption DEF TypeOK, Statuses, HandlerPC, WorkerPC, CtxCause,
        StopperPC, MainPC, Caller
<1>1. ASSUME NEW a \in Attack, CreateStep(a) PROVE TypeOK'
  <2> USE DEF registryVars, verdictVars, vegetaVars, gaugeVars, stopVars, CancelCtx
  <2>1. CASE AcceptCreate(a) BY <2>1 DEF AcceptCreate
  <2>2. CASE RejectCreate(a) BY <2>2 DEF RejectCreate
  <2>3. CASE Launch(a) BY <2>3 DEF Launch
  <2>4. CASE CountLaunched(a) BY <2>4 DEF CountLaunched
  <2>5. CASE Respond(a) BY <2>5 DEF Respond
  <2>6. CASE ClientGone(a) BY <2>6 DEF ClientGone
  <2> QED BY <1>1, <2>1, <2>2, <2>3, <2>4, <2>5, <2>6 DEF CreateStep
<1>2. ASSUME NEW a \in Attack, WorkerStep(a) PROVE TypeOK'
  <2> USE DEF registryVars, verdictVars, vegetaVars, gaugeVars, stopVars, CancelCtx
  <2>1. CASE StartAttack(a) BY <2>1 DEF StartAttack
  <2>2. CASE EndPacing(a) BY <2>2 DEF EndPacing
  <2>3. CASE TargeterError(a) BY <2>3 DEF TargeterError
  <2>4. CASE Timeout(a) BY <2>4 DEF Timeout
  <2>5. CASE Drain(a) BY <2>5 DEF Drain
  <2>6. CASE Finalize(a) BY <2>6 DEF Finalize, Verdict
  <2>7. CASE Complete(a) BY <2>7 DEF Complete
  <2> QED BY <1>2, <2>1, <2>2, <2>3, <2>4, <2>5, <2>6, <2>7 DEF WorkerStep
<1>3. ASSUME NEW s \in Stopper, StopperStep(s) PROVE TypeOK'
  <2> USE DEF registryVars, verdictVars, vegetaVars, gaugeVars
  <2>1. CASE AcceptStop(s) BY <2>1 DEF AcceptStop
  <2>2. CASE HandleStop(s)
    <3>1. wanted[s] \in ID BY <2>2 DEF HandleStop, CallersKnow
    <3>2. attacks[wanted[s]] \in Attack
      BY <2>2, <3>1 DEF HandleStop, ClaimStop, Stoppable
    <3> QED BY <2>2, <3>2 DEF HandleStop, ClaimStop
  <2>3. CASE RefuseStop(s) BY <2>3 DEF RefuseStop
  <2> QED BY <1>3, <2>1, <2>2, <2>3 DEF StopperStep
<1>4. ASSUME NEW c \in Caller, HaltStep(c) PROVE TypeOK'
  <2> USE DEF registryVars, verdictVars, vegetaVars, gaugeVars, CancelCtx
  <2>1. CASE HaltVegeta(c) BY <2>1 DEF HaltVegeta
  <2>2. CASE CancelAttack(c) BY <2>2 DEF CancelAttack
  <2> QED BY <1>4, <2>1, <2>2 DEF HaltStep
<1>5. ASSUME MainStep PROVE TypeOK'
  <2> USE DEF registryVars, verdictVars, vegetaVars, gaugeVars
  <2>1. CASE Signal BY <2>1 DEF Signal
  <2>2. CASE StopAllSnapshot BY <2>2 DEF StopAllSnapshot
  <2>3. CASE StopAllClaim
    <3>1. PICK i \in todo : ClaimStop(Main, i) /\ todo' = todo \ {i}
      BY <2>3 DEF StopAllClaim
    <3>2. attacks[i] \in Attack BY <3>1 DEF ClaimStop, Stoppable
    <3> QED BY <2>3, <3>1, <3>2 DEF StopAllClaim, ClaimStop
  <2>4. CASE StopAllSkip BY <2>4 DEF StopAllSkip
  <2>5. CASE Exit BY <2>5 DEF Exit
  <2> QED BY <1>5, <2>1, <2>2, <2>3, <2>4, <2>5 DEF MainStep
<1>6. CASE UNCHANGED vars
  BY <1>6 DEF vars, registryVars, verdictVars, vegetaVars, gaugeVars, stopVars
<1> QED BY <1>1, <1>2, <1>3, <1>4, <1>5, <1>6 DEF Next, Terminated

\* A handler, its goroutine and its attack's status stay in step.
LEMMA PhasesPreserved ==
    ASSUME IInv, TypeOK', [Next]_vars
    PROVE  PhasesAgree'
<1> USE ConstantsAssumption DEF IInv, TypeOK, PhasesAgree, registryVars, verdictVars, vegetaVars, gaugeVars, stopVars
<1>1. ASSUME NEW a \in Attack, CreateStep(a) PROVE PhasesAgree'
  <2>1. CASE AcceptCreate(a) BY <2>1 DEF AcceptCreate
  <2>2. CASE RejectCreate(a) BY <2>2 DEF RejectCreate
  <2>3. CASE Launch(a) BY <2>3 DEF Launch
  <2>4. CASE CountLaunched(a) BY <2>4 DEF CountLaunched
  <2>5. CASE Respond(a) BY <2>5 DEF Respond
  <2>6. CASE ClientGone(a) BY <2>6 DEF ClientGone
  <2> QED BY <1>1, <2>1, <2>2, <2>3, <2>4, <2>5, <2>6 DEF CreateStep
<1>2. ASSUME NEW a \in Attack, WorkerStep(a) PROVE PhasesAgree'
  <2>1. CASE StartAttack(a) BY <2>1 DEF StartAttack
  <2>2. CASE EndPacing(a) BY <2>2 DEF EndPacing
  <2>3. CASE TargeterError(a) BY <2>3 DEF TargeterError
  <2>4. CASE Timeout(a) BY <2>4 DEF Timeout
  <2>5. CASE Drain(a) BY <2>5 DEF Drain
  <2>6. CASE Finalize(a) BY <2>6 DEF Finalize, Verdict
  <2>7. CASE Complete(a) BY <2>7 DEF Complete
  <2> QED BY <1>2, <2>1, <2>2, <2>3, <2>4, <2>5, <2>6, <2>7 DEF WorkerStep
<1>3. ASSUME NEW s \in Stopper, StopperStep(s) PROVE PhasesAgree'
  <2>1. CASE AcceptStop(s) BY <2>1 DEF AcceptStop
  <2>2. CASE HandleStop(s) BY <2>2 DEF HandleStop, ClaimStop, Stoppable
  <2>3. CASE RefuseStop(s) BY <2>3 DEF RefuseStop
  <2> QED BY <1>3, <2>1, <2>2, <2>3 DEF StopperStep
<1>4. ASSUME NEW c \in Caller, HaltStep(c) PROVE PhasesAgree'
  <2>1. CASE HaltVegeta(c) BY <2>1 DEF HaltVegeta
  <2>2. CASE CancelAttack(c) BY <2>2 DEF CancelAttack
  <2> QED BY <1>4, <2>1, <2>2 DEF HaltStep
<1>5. ASSUME MainStep PROVE PhasesAgree'
  <2>1. CASE Signal BY <2>1 DEF Signal
  <2>2. CASE StopAllSnapshot BY <2>2 DEF StopAllSnapshot
  <2>3. CASE StopAllClaim BY <2>3 DEF StopAllClaim, ClaimStop, Stoppable
  <2>4. CASE StopAllSkip BY <2>4 DEF StopAllSkip
  <2>5. CASE Exit BY <2>5 DEF Exit
  <2> QED BY <1>5, <2>1, <2>2, <2>3, <2>4, <2>5 DEF MainStep
<1>6. CASE UNCHANGED vars BY <1>6 DEF vars, stopVars
<1> QED BY <1>1, <1>2, <1>3, <1>4, <1>5, <1>6 DEF Next, Terminated

\* A caller of Stop acts on an object and an id it has really found.
LEMMA CallersPreserved ==
    ASSUME IInv, TypeOK', [Next]_vars
    PROVE  CallersKnow'
<1> USE ConstantsAssumption DEF IInv, TypeOK, CallersKnow, StopperPC, MainPC, Caller, registryVars, verdictVars, vegetaVars, gaugeVars, stopVars
<1>1. ASSUME NEW a \in Attack, CreateStep(a) PROVE CallersKnow'
  <2>1. CASE AcceptCreate(a) BY <2>1 DEF AcceptCreate
  <2>2. CASE RejectCreate(a) BY <2>2 DEF RejectCreate
  <2>3. CASE Launch(a) BY <2>3 DEF Launch
  <2>4. CASE CountLaunched(a) BY <2>4 DEF CountLaunched
  <2>5. CASE Respond(a) BY <2>5 DEF Respond
  <2>6. CASE ClientGone(a) BY <2>6 DEF ClientGone
  <2> QED BY <1>1, <2>1, <2>2, <2>3, <2>4, <2>5, <2>6 DEF CreateStep
<1>2. ASSUME NEW a \in Attack, WorkerStep(a) PROVE CallersKnow'
  <2>1. CASE StartAttack(a) BY <2>1 DEF StartAttack
  <2>2. CASE EndPacing(a) BY <2>2 DEF EndPacing
  <2>3. CASE TargeterError(a) BY <2>3 DEF TargeterError
  <2>4. CASE Timeout(a) BY <2>4 DEF Timeout
  <2>5. CASE Drain(a) BY <2>5 DEF Drain
  <2>6. CASE Finalize(a) BY <2>6 DEF Finalize, Verdict
  <2>7. CASE Complete(a) BY <2>7 DEF Complete
  <2> QED BY <1>2, <2>1, <2>2, <2>3, <2>4, <2>5, <2>6, <2>7 DEF WorkerStep
<1>3. ASSUME NEW s \in Stopper, StopperStep(s) PROVE CallersKnow'
  <2>1. CASE AcceptStop(s) BY <2>1 DEF AcceptStop
  <2>2. CASE HandleStop(s) BY <2>2 DEF HandleStop, ClaimStop, Stoppable
  <2>3. CASE RefuseStop(s) BY <2>3 DEF RefuseStop
  <2> QED BY <1>3, <2>1, <2>2, <2>3 DEF StopperStep
<1>4. ASSUME NEW c \in Caller, HaltStep(c) PROVE CallersKnow'
  <2>1. CASE HaltVegeta(c) BY <2>1 DEF HaltVegeta
  <2>2. CASE CancelAttack(c) BY <2>2 DEF CancelAttack
  <2> QED BY <1>4, <2>1, <2>2 DEF HaltStep
<1>5. ASSUME MainStep PROVE CallersKnow'
  <2>1. CASE Signal BY <2>1 DEF Signal
  <2>2. CASE StopAllSnapshot BY <2>2 DEF StopAllSnapshot
  <2>3. CASE StopAllClaim BY <2>3 DEF StopAllClaim, ClaimStop, Stoppable
  <2>4. CASE StopAllSkip BY <2>4 DEF StopAllSkip
  <2>5. CASE Exit BY <2>5 DEF Exit
  <2> QED BY <1>5, <2>1, <2>2, <2>3, <2>4, <2>5 DEF MainStep
<1>6. CASE UNCHANGED vars BY <1>6 DEF vars, stopVars
<1> QED BY <1>1, <1>2, <1>3, <1>4, <1>5, <1>6 DEF Next, Terminated

\* StopAll's list names every attack it saw that is still running and registered.
LEMMA PendingPreserved ==
    ASSUME IInv, TypeOK', [Next]_vars
    PROVE  StopAllPending'
<1> USE ConstantsAssumption DEF IInv, TypeOK, CallersKnow, MainPC, Caller, PhasesAgree, StopAllPending, registryVars, verdictVars, vegetaVars, gaugeVars, stopVars
<1>1. ASSUME NEW a \in Attack, CreateStep(a) PROVE StopAllPending'
  <2>1. CASE AcceptCreate(a) BY <2>1 DEF AcceptCreate
  <2>2. CASE RejectCreate(a) BY <2>2 DEF RejectCreate
  <2>3. CASE Launch(a) BY <2>3 DEF Launch
  <2>4. CASE CountLaunched(a) BY <2>4 DEF CountLaunched
  <2>5. CASE Respond(a) BY <2>5 DEF Respond
  <2>6. CASE ClientGone(a) BY <2>6 DEF ClientGone
  <2> QED BY <1>1, <2>1, <2>2, <2>3, <2>4, <2>5, <2>6 DEF CreateStep
<1>2. ASSUME NEW a \in Attack, WorkerStep(a) PROVE StopAllPending'
  <2>1. CASE StartAttack(a) BY <2>1 DEF StartAttack
  <2>2. CASE EndPacing(a) BY <2>2 DEF EndPacing
  <2>3. CASE TargeterError(a) BY <2>3 DEF TargeterError
  <2>4. CASE Timeout(a) BY <2>4 DEF Timeout
  <2>5. CASE Drain(a) BY <2>5 DEF Drain
  <2>6. CASE Finalize(a) BY <2>6 DEF Finalize, Verdict
  <2>7. CASE Complete(a) BY <2>7 DEF Complete
  <2> QED BY <1>2, <2>1, <2>2, <2>3, <2>4, <2>5, <2>6, <2>7 DEF WorkerStep
<1>3. ASSUME NEW s \in Stopper, StopperStep(s) PROVE StopAllPending'
  <2>1. CASE AcceptStop(s) BY <2>1 DEF AcceptStop
  <2>2. CASE HandleStop(s) BY <2>2 DEF HandleStop, ClaimStop, Stoppable
  <2>3. CASE RefuseStop(s) BY <2>3 DEF RefuseStop
  <2> QED BY <1>3, <2>1, <2>2, <2>3 DEF StopperStep
<1>4. ASSUME NEW c \in Caller, HaltStep(c) PROVE StopAllPending'
  <2>1. CASE HaltVegeta(c) BY <2>1 DEF HaltVegeta
  <2>2. CASE CancelAttack(c) BY <2>2 DEF CancelAttack
  <2> QED BY <1>4, <2>1, <2>2 DEF HaltStep
<1>5. ASSUME MainStep PROVE StopAllPending'
  <2>1. CASE Signal BY <2>1 DEF Signal
  <2>2. CASE StopAllSnapshot BY <2>2 DEF StopAllSnapshot, Stoppable
  <2>3. CASE StopAllClaim BY <2>3 DEF StopAllClaim, ClaimStop, Stoppable
  <2>4. CASE StopAllSkip BY <2>4 DEF StopAllSkip, Stoppable
  <2>5. CASE Exit BY <2>5 DEF Exit
  <2> QED BY <1>5, <2>1, <2>2, <2>3, <2>4, <2>5 DEF MainStep
<1>6. CASE UNCHANGED vars BY <1>6 DEF vars, stopVars
<1> QED BY <1>1, <1>2, <1>3, <1>4, <1>5, <1>6 DEF Next, Terminated

\* At most one Stop claims an attack, and a claimed attack stays stopped.
LEMMA ClaimsPreserved ==
    ASSUME IInv, TypeOK', [Next]_vars
    PROVE  (OneStopWins /\ StopIsFinal)'
<1> USE ConstantsAssumption DEF IInv, TypeOK, PhasesAgree, CallersKnow, OneStopWins, StopIsFinal, Caller, registryVars, verdictVars, vegetaVars, gaugeVars, stopVars
<1>1. ASSUME NEW a \in Attack, CreateStep(a) PROVE (OneStopWins /\ StopIsFinal)'
  <2>1. CASE AcceptCreate(a) BY <2>1 DEF AcceptCreate
  <2>2. CASE RejectCreate(a) BY <2>2 DEF RejectCreate
  <2>3. CASE Launch(a) BY <2>3 DEF Launch
  <2>4. CASE CountLaunched(a) BY <2>4 DEF CountLaunched
  <2>5. CASE Respond(a) BY <2>5 DEF Respond
  <2>6. CASE ClientGone(a) BY <2>6 DEF ClientGone
  <2> QED BY <1>1, <2>1, <2>2, <2>3, <2>4, <2>5, <2>6 DEF CreateStep
<1>2. ASSUME NEW a \in Attack, WorkerStep(a) PROVE (OneStopWins /\ StopIsFinal)'
  <2>1. CASE StartAttack(a) BY <2>1 DEF StartAttack
  <2>2. CASE EndPacing(a) BY <2>2 DEF EndPacing
  <2>3. CASE TargeterError(a) BY <2>3 DEF TargeterError
  <2>4. CASE Timeout(a) BY <2>4 DEF Timeout
  <2>5. CASE Drain(a) BY <2>5 DEF Drain
  <2>6. CASE Finalize(a) BY <2>6 DEF Finalize, Verdict
  <2>7. CASE Complete(a) BY <2>7 DEF Complete
  <2> QED BY <1>2, <2>1, <2>2, <2>3, <2>4, <2>5, <2>6, <2>7 DEF WorkerStep
<1>3. ASSUME NEW s \in Stopper, StopperStep(s) PROVE (OneStopWins /\ StopIsFinal)'
  <2>1. CASE AcceptStop(s) BY <2>1 DEF AcceptStop
  <2>2. CASE HandleStop(s) BY <2>2 DEF HandleStop, ClaimStop, Stoppable
  <2>3. CASE RefuseStop(s) BY <2>3 DEF RefuseStop
  <2> QED BY <1>3, <2>1, <2>2, <2>3 DEF StopperStep
<1>4. ASSUME NEW c \in Caller, HaltStep(c) PROVE (OneStopWins /\ StopIsFinal)'
  <2>1. CASE HaltVegeta(c) BY <2>1 DEF HaltVegeta
  <2>2. CASE CancelAttack(c) BY <2>2 DEF CancelAttack
  <2> QED BY <1>4, <2>1, <2>2 DEF HaltStep
<1>5. ASSUME MainStep PROVE (OneStopWins /\ StopIsFinal)'
  <2>1. CASE Signal BY <2>1 DEF Signal
  <2>2. CASE StopAllSnapshot BY <2>2 DEF StopAllSnapshot
  <2>3. CASE StopAllClaim BY <2>3 DEF StopAllClaim, ClaimStop, Stoppable
  <2>4. CASE StopAllSkip BY <2>4 DEF StopAllSkip
  <2>5. CASE Exit BY <2>5 DEF Exit
  <2> QED BY <1>5, <2>1, <2>2, <2>3, <2>4, <2>5 DEF MainStep
<1>6. CASE UNCHANGED vars BY <1>6 DEF vars, stopVars
<1> QED BY <1>1, <1>2, <1>3, <1>4, <1>5, <1>6 DEF Next, Terminated

\* The result and the final verdict appear when the goroutine finalizes.
LEMMA FinishedPreserved ==
    ASSUME IInv, TypeOK', [Next]_vars
    PROVE  FinishedMeansVerdict'
<1> USE ConstantsAssumption DEF IInv, TypeOK, Statuses, PhasesAgree, FinishedMeansVerdict, Finished, registryVars, verdictVars, vegetaVars, gaugeVars, stopVars
<1>1. ASSUME NEW a \in Attack, CreateStep(a) PROVE FinishedMeansVerdict'
  <2>1. CASE AcceptCreate(a) BY <2>1 DEF AcceptCreate
  <2>2. CASE RejectCreate(a) BY <2>2 DEF RejectCreate
  <2>3. CASE Launch(a) BY <2>3 DEF Launch
  <2>4. CASE CountLaunched(a) BY <2>4 DEF CountLaunched
  <2>5. CASE Respond(a) BY <2>5 DEF Respond
  <2>6. CASE ClientGone(a) BY <2>6 DEF ClientGone
  <2> QED BY <1>1, <2>1, <2>2, <2>3, <2>4, <2>5, <2>6 DEF CreateStep
<1>2. ASSUME NEW a \in Attack, WorkerStep(a) PROVE FinishedMeansVerdict'
  <2>1. CASE StartAttack(a) BY <2>1 DEF StartAttack
  <2>2. CASE EndPacing(a) BY <2>2 DEF EndPacing
  <2>3. CASE TargeterError(a) BY <2>3 DEF TargeterError
  <2>4. CASE Timeout(a) BY <2>4 DEF Timeout
  <2>5. CASE Drain(a) BY <2>5 DEF Drain
  <2>6. CASE Finalize(a) BY <2>6 DEF Finalize, Verdict
  <2>7. CASE Complete(a) BY <2>7 DEF Complete
  <2> QED BY <1>2, <2>1, <2>2, <2>3, <2>4, <2>5, <2>6, <2>7 DEF WorkerStep
<1>3. ASSUME NEW s \in Stopper, StopperStep(s) PROVE FinishedMeansVerdict'
  <2>1. CASE AcceptStop(s) BY <2>1 DEF AcceptStop
  <2>2. CASE HandleStop(s) BY <2>2 DEF HandleStop, ClaimStop, Stoppable
  <2>3. CASE RefuseStop(s) BY <2>3 DEF RefuseStop
  <2> QED BY <1>3, <2>1, <2>2, <2>3 DEF StopperStep
<1>4. ASSUME NEW c \in Caller, HaltStep(c) PROVE FinishedMeansVerdict'
  <2>1. CASE HaltVegeta(c) BY <2>1 DEF HaltVegeta
  <2>2. CASE CancelAttack(c) BY <2>2 DEF CancelAttack
  <2> QED BY <1>4, <2>1, <2>2 DEF HaltStep
<1>5. ASSUME MainStep PROVE FinishedMeansVerdict'
  <2>1. CASE Signal BY <2>1 DEF Signal
  <2>2. CASE StopAllSnapshot BY <2>2 DEF StopAllSnapshot
  <2>3. CASE StopAllClaim BY <2>3 DEF StopAllClaim, ClaimStop, Stoppable
  <2>4. CASE StopAllSkip BY <2>4 DEF StopAllSkip
  <2>5. CASE Exit BY <2>5 DEF Exit
  <2> QED BY <1>5, <2>1, <2>2, <2>3, <2>4, <2>5 DEF MainStep
<1>6. CASE UNCHANGED vars BY <1>6 DEF vars, stopVars
<1> QED BY <1>1, <1>2, <1>3, <1>4, <1>5, <1>6 DEF Next, Terminated

LEMMA CountsFinite ==
    ASSUME TypeOK
    PROVE  /\ IsFiniteSet(Launched) /\ IsFiniteSet(Counted) /\ IsFiniteSet(Exited)
           /\ Cardinality(Counted) \in Nat /\ Cardinality(Exited) \in Nat
<1>1. /\ Launched \in SUBSET Attack
      /\ Counted \in SUBSET Attack
      /\ Exited \in SUBSET Attack
  BY DEF Launched, Counted, Exited
<1> QED BY <1>1, ConstantsAssumption, FS_Subset, FS_CardinalityType

\* Only the handler's increment and the goroutine's onComplete move the gauge,
\* each when its own set gains the attack.
LEMMA GaugePreserved ==
    ASSUME IInv, [Next]_vars
    PROVE  GaugeAccounting'
<1> DEFINE Unmoved == UNCHANGED <<Counted, Exited, activeAttacks>>
<1> USE ConstantsAssumption DEF IInv, registryVars, verdictVars, vegetaVars,
        gaugeVars, stopVars
<1>1. ASSUME NEW a \in Attack, CountLaunched(a) PROVE GaugeAccounting'
  <2>1. /\ Counted' = Counted \cup {a}
        /\ a \notin Counted
        /\ Exited' = Exited
        /\ activeAttacks' = activeAttacks + 1
    BY <1>1 DEF CountLaunched, TypeOK, Counted, Exited
  <2>2. Cardinality(Counted') = Cardinality(Counted) + 1
    BY <2>1, CountsFinite, FS_AddElement
  <2>3. Cardinality(Exited') = Cardinality(Exited) BY <2>1
  <2> QED BY <2>1, <2>2, <2>3, CountsFinite DEF GaugeAccounting
<1>2. ASSUME NEW a \in Attack, Complete(a) PROVE GaugeAccounting'
  <2>1. /\ Exited' = Exited \cup {a}
        /\ a \notin Exited
        /\ Counted' = Counted
        /\ activeAttacks' = activeAttacks - 1
    BY <1>2 DEF Complete, TypeOK, Counted, Exited
  <2>2. Cardinality(Exited') = Cardinality(Exited) + 1
    BY <2>1, CountsFinite, FS_AddElement
  <2>3. Cardinality(Counted') = Cardinality(Counted) BY <2>1
  <2> QED BY <2>1, <2>2, <2>3, CountsFinite DEF GaugeAccounting
<1>3. ASSUME NEW a \in Attack, CreateStep(a), ~CountLaunched(a) PROVE Unmoved
  <2> USE DEF TypeOK, Counted, Exited
  <2>1. CASE AcceptCreate(a) BY <2>1 DEF AcceptCreate
  <2>2. CASE RejectCreate(a) BY <2>2 DEF RejectCreate
  <2>3. CASE Launch(a) BY <2>3 DEF Launch, PhasesAgree
  <2>4. CASE Respond(a) BY <2>4 DEF Respond
  <2>5. CASE ClientGone(a) BY <2>5 DEF ClientGone
  <2> QED BY <1>3, <2>1, <2>2, <2>3, <2>4, <2>5 DEF CreateStep
<1>4. ASSUME NEW a \in Attack, WorkerStep(a), ~Complete(a) PROVE Unmoved
  <2> USE DEF TypeOK, Counted, Exited
  <2>1. CASE StartAttack(a) BY <2>1 DEF StartAttack
  <2>2. CASE EndPacing(a) BY <2>2 DEF EndPacing
  <2>3. CASE TargeterError(a) BY <2>3 DEF TargeterError
  <2>4. CASE Timeout(a) BY <2>4 DEF Timeout
  <2>5. CASE Drain(a) BY <2>5 DEF Drain
  <2>6. CASE Finalize(a) BY <2>6 DEF Finalize
  <2> QED BY <1>4, <2>1, <2>2, <2>3, <2>4, <2>5, <2>6 DEF WorkerStep
<1>5. ASSUME NEW s \in Stopper, StopperStep(s) PROVE Unmoved
  BY <1>5 DEF StopperStep, AcceptStop, HandleStop, RefuseStop, Counted, Exited
<1>6. ASSUME NEW c \in Caller, HaltStep(c) PROVE Unmoved
  BY <1>6 DEF HaltStep, HaltVegeta, CancelAttack, Counted, Exited
<1>7. ASSUME MainStep PROVE Unmoved
  BY <1>7 DEF MainStep, Signal, StopAllSnapshot, StopAllClaim, StopAllSkip, Exit,
       Counted, Exited
<1>8. ASSUME UNCHANGED vars PROVE Unmoved BY <1>8 DEF vars, Counted, Exited
<1>9. ASSUME Unmoved PROVE GaugeAccounting' BY <1>9 DEF GaugeAccounting
<1> QED
  BY <1>1, <1>2, <1>3, <1>4, <1>5, <1>6, <1>7, <1>8, <1>9 DEF Next, Terminated

LEMMA InitInvariant == Init => IInv
<1> SUFFICES ASSUME Init PROVE IInv OBVIOUS
<1> USE ConstantsAssumption DEF Init
<1>1. TypeOK
  BY DEF TypeOK, Statuses, HandlerPC, WorkerPC, CtxCause, StopperPC, MainPC, Caller
<1>2. PhasesAgree BY DEF PhasesAgree
<1>3. CallersKnow BY DEF CallersKnow, MainPC, Caller
<1>4. StopAllPending BY DEF StopAllPending, Caller
<1>5. GaugeAccounting
  <2>1. Counted = {} /\ Exited = {} BY DEF Counted, Exited
  <2> QED BY <2>1, FS_EmptySet DEF GaugeAccounting
<1>6. OneStopWins /\ StopIsFinal BY DEF OneStopWins, StopIsFinal
<1>7. FinishedMeansVerdict BY DEF FinishedMeansVerdict, Finished
<1> QED BY <1>1, <1>2, <1>3, <1>4, <1>5, <1>6, <1>7 DEF IInv

LEMMA StepInvariant == IInv /\ [Next]_vars => IInv'
<1> SUFFICES ASSUME IInv, [Next]_vars PROVE IInv' OBVIOUS
<1>1. TypeOK' BY TypePreserved DEF IInv
<1> QED
  BY <1>1, PhasesPreserved, CallersPreserved, PendingPreserved, ClaimsPreserved,
     FinishedPreserved, GaugePreserved DEF IInv

-----------------------------------------------------------------------------
\* The inductive invariant holds in every reachable state of the manager: for
\* any number of concurrent creates, stops and a shutdown.
THEOREM Invariance == Spec => []IInv
BY InitInvariant, StepInvariant, PTL DEF Spec

\* Every variable keeps its type, for any constants.
THEOREM TypeCorrect == Spec => []TypeOK
BY Invariance, PTL DEF IInv

\* Whenever no create handler is between Launch and its increment, the gauge
\* counts the launch goroutines that have not finished.
THEOREM GaugeCorrect == Spec => []GaugeExact
<1>1. IInv => GaugeExact
  <2> SUFFICES ASSUME IInv, \A a \in Attack : handler[a] # "launched"
               PROVE  activeAttacks = Cardinality(Launched \ Exited)
    BY DEF GaugeExact
  <2>1. Counted = Launched
    BY DEF Counted, Launched, IInv, TypeOK, HandlerPC, PhasesAgree
  <2>2. Exited \subseteq Launched BY DEF Exited, Launched
  <2>3. Cardinality(Launched \ Exited) = Cardinality(Launched) - Cardinality(Exited)
    <3>1. Launched \cap Exited = Exited BY <2>2
    <3> QED BY <3>1, CountsFinite, FS_Difference DEF IInv
  <2> QED BY <2>1, <2>3 DEF IInv, GaugeAccounting
<1> QED BY <1>1, Invariance, PTL

\* However many DELETE requests and StopAll race, at most one of them stops an
\* attack, and the goroutine that finalizes it later leaves it stopped.
THEOREM OneStopWinsCorrect == Spec => [](OneStopWins /\ StopIsFinal)
BY Invariance, PTL DEF IInv

\* After StopAll no attack it saw running still runs, save one whose id was
\* taken over by another POST.
THEOREM ShutdownCorrect == Spec => []ShutdownStopsRegistered
<1>1. IInv => ShutdownStopsRegistered
  BY DEF IInv, ShutdownStopsRegistered, StopAllPending, Up
<1> QED BY <1>1, Invariance, PTL

-----------------------------------------------------------------------------
\* A step of the manager is a step of the abstract life cycle of one attack, or
\* leaves verdict, report and notification alone.
LEMMA StepRefines ==
    ASSUME IInv, [Next]_vars
    PROVE  [Lifecycle!Next]_(Lifecycle!vars)
<1> USE ConstantsAssumption DEF IInv, TypeOK, Statuses, registryVars, verdictVars,
        vegetaVars, gaugeVars, stopVars
<1> DEFINE Unseen == UNCHANGED <<status, result, worker>>
           Same == UNCHANGED Lifecycle!vars
<1>1. ASSUME NEW a \in Attack, Launch(a) PROVE Lifecycle!Begin(a)
  BY <1>1 DEF Launch, Lifecycle!Begin, PhasesAgree
<1>2. ASSUME NEW c \in Caller, NEW i \in ID, ClaimStop(c, i),
             UNCHANGED <<result, worker>>
      PROVE  Lifecycle!Halt(attacks[i])
  BY <1>2 DEF ClaimStop, Stoppable, Lifecycle!Halt, FinishedMeansVerdict
<1>3. ASSUME NEW a \in Attack, Finalize(a) PROVE Lifecycle!Finish(a)
  <2>1. ~result[a] /\ status[a] \in {"running", "stopped"}
    BY <1>3 DEF Finalize, FinishedMeansVerdict, Finished, PhasesAgree
  <2>2. [x \in Attack |-> worker'[x] = "exited"]
        = [x \in Attack |-> worker[x] = "exited"]
    BY <1>3 DEF Finalize
  <2> QED BY <1>3, <2>1, <2>2 DEF Finalize, Verdict, Lifecycle!Finish
<1>4. ASSUME NEW a \in Attack, Complete(a) PROVE Lifecycle!Notify(a)
  <2>1. [x \in Attack |-> worker'[x] = "exited"]
        = [[x \in Attack |-> worker[x] = "exited"] EXCEPT ![a] = TRUE]
    BY <1>4 DEF Complete
  <2> QED BY <1>4, <2>1
       DEF Complete, Lifecycle!Notify, FinishedMeansVerdict, Finished
<1>5. ASSUME NEW a \in Attack, WorkerStep(a), ~Finalize(a), ~Complete(a) PROVE Same
  <2>1. UNCHANGED <<status, result>>
    BY <1>5 DEF WorkerStep, StartAttack, EndPacing, TargeterError, Timeout, Drain
  <2>2. [x \in Attack |-> worker'[x] = "exited"]
        = [x \in Attack |-> worker[x] = "exited"]
    BY <1>5 DEF WorkerStep, StartAttack, EndPacing, TargeterError, Timeout, Drain
  <2> QED BY <2>1, <2>2 DEF Lifecycle!vars
<1>6. ASSUME Unseen PROVE Same BY <1>6 DEF Lifecycle!vars
<1>7. ASSUME NEW a \in Attack, CreateStep(a), ~Launch(a) PROVE Unseen
  BY <1>7 DEF CreateStep, AcceptCreate, RejectCreate, CountLaunched, Respond,
       ClientGone
<1>8. ASSUME NEW s \in Stopper, StopperStep(s)
      PROVE  Unseen \/ \E a \in Attack : Lifecycle!Halt(a)
  <2>1. CASE HandleStop(s)
    <3>1. wanted[s] \in ID BY <2>1 DEF HandleStop, CallersKnow
    <3>2. attacks[wanted[s]] \in Attack
      BY <2>1, <3>1 DEF HandleStop, ClaimStop, Stoppable
    <3> QED BY <2>1, <3>1, <3>2, <1>2 DEF HandleStop, Caller
  <2>2. CASE AcceptStop(s) \/ RefuseStop(s) BY <2>2 DEF AcceptStop, RefuseStop
  <2> QED BY <1>8, <2>1, <2>2 DEF StopperStep
<1>9. ASSUME NEW c \in Caller, HaltStep(c) PROVE Unseen
  BY <1>9 DEF HaltStep, HaltVegeta, CancelAttack
<1>10. ASSUME MainStep PROVE Unseen \/ \E a \in Attack : Lifecycle!Halt(a)
  <2>1. CASE StopAllClaim
    <3>1. PICK i \in todo : ClaimStop(Main, i) BY <2>1 DEF StopAllClaim
    <3>2. attacks[i] \in Attack BY <3>1 DEF ClaimStop, Stoppable
    <3> QED BY <2>1, <3>1, <3>2, <1>2 DEF StopAllClaim, Caller
  <2>2. CASE Signal \/ StopAllSnapshot \/ StopAllSkip \/ Exit
    BY <2>2 DEF Signal, StopAllSnapshot, StopAllSkip, Exit
  <2> QED BY <1>10, <2>1, <2>2 DEF MainStep
<1>11. ASSUME UNCHANGED vars PROVE Unseen BY <1>11 DEF vars
<1> QED
  BY <1>1, <1>3, <1>4, <1>5, <1>6, <1>7, <1>8, <1>9, <1>10, <1>11
  DEF Next, Terminated, Lifecycle!Next, CreateStep, WorkerStep

\* The manager implements the life cycle: begun once, halted or finished, one
\* result with the final verdict, then one notification.
THEOREM Refinement == Spec => LifecycleSpec
<1>1. Init => Lifecycle!Init
  BY DEF Init, Lifecycle!Init
<1> QED BY <1>1, StepRefines, Invariance, PTL DEF Spec, Lifecycle!Spec, LifecycleSpec

\* What a step of the manager does to an attack's status and result.
LEMMA StepKeepsVerdicts ==
    ASSUME IInv, [Next]_vars, NEW a \in Attack
    PROVE  /\ status[a] \in FinalStatus => status'[a] = status[a]
           /\ status[a] # "none" => status'[a] # "none"
           /\ status[a] # "none" /\ status'[a] = "running" => status[a] = "running"
           /\ result[a] => result'[a]
<1> USE DEF FinalStatus
<1>1. [Lifecycle!Next]_(Lifecycle!vars) BY StepRefines
<1>2. CASE UNCHANGED Lifecycle!vars BY <1>2 DEF Lifecycle!vars
<1>3. ASSUME NEW x \in Attack,
             Lifecycle!Begin(x) \/ Lifecycle!Halt(x) \/ Lifecycle!Finish(x)
               \/ Lifecycle!Notify(x)
      PROVE  /\ status[a] \in FinalStatus => status'[a] = status[a]
             /\ status[a] # "none" => status'[a] # "none"
             /\ status[a] # "none" /\ status'[a] = "running" => status[a] = "running"
             /\ result[a] => result'[a]
  BY <1>3 DEF IInv, TypeOK, Statuses, Lifecycle!Begin, Lifecycle!Halt,
       Lifecycle!Finish, Lifecycle!Notify
<1> QED BY <1>1, <1>2, <1>3 DEF Lifecycle!Next

\* A verdict is final and a result, once there, stays.
THEOREM VerdictFinality == Spec => VerdictFinal
<1>1. IInv /\ [Next]_vars =>
        [\A a \in Attack :
            /\ status[a] \in {"stopped", "completed"} => status'[a] = status[a]
            /\ result[a] => result'[a]]_vars
  BY StepKeepsVerdicts DEF FinalStatus
<1> QED BY <1>1, Invariance, PTL DEF Spec, VerdictFinal

-----------------------------------------------------------------------------
(* The readers.                                                             *)

\* The manager's steps leave what a reader knows true.
LEMMA ManagerKeepsReaders ==
    ASSUME IInv, ReadersInv, [Next]_vars, UNCHANGED readerVars
    PROVE  ReadersInv'
<1> USE DEF ReadersInv, readerVars
<1>1. ReaderTypeOK' /\ CompletedHasResult' /\ FinalFilterExact'
  BY DEF ReaderTypeOK, CompletedHasResult, FinalFilterExact
<1>2. ASSUME NEW r \in Reader PROVE Knows(r)'
  <2>1. Knows(r) OBVIOUS
  <2>2. /\ Held(r)' = Held(r) /\ Held(r) \subseteq Attack
        /\ kept[r] \subseteq Attack /\ began[r] \subseteq Attack
        /\ \A w : Loaded(r, w)' <=> Loaded(r, w)
        /\ \A w : Loaded(r, w) => obj[r] \in Held(r)
    BY DEF ReaderTypeOK, Held, Loaded
  <2>3. PhaseAgrees(r)' BY <2>1, <2>2 DEF Knows, PhaseAgrees
  <2>4. WordsKnow(r)' BY <2>1, <2>2, StepKeepsVerdicts DEF Knows, WordsKnow
  <2>5. ResultLast(r)' BY <2>1, <2>2 DEF Knows, ResultLast
  <2>6. KeptStays(r)' BY <2>1, <2>2, StepKeepsVerdicts DEF Knows, KeptStays
  <2>7. CountProgress(r)'
    BY <2>1, <2>2, StepKeepsVerdicts DEF Knows, CountProgress, Running, WordsKnow
  <2> QED BY <2>3, <2>4, <2>5, <2>6, <2>7 DEF Knows
<1> QED BY <1>1, <1>2

\* Get and List: the reader holds launched attacks and has read none.
LEMMA TakeKnows ==
    ASSUME IInv, ReadersInv, NEW r \in Reader, phase[r] = "idle", UNCHANGED vars,
           NEW objects \in SUBSET Attack, \A a \in objects : status[a] # "none",
           NEW f \in {"any", "running"} \cup FinalStatus,
           NEW counting \in BOOLEAN, counting => f = "running",
           Take(r, objects, f, counting)
    PROVE  ReaderTypeOK' /\ Knows(r)'
<1> USE DEF ReadersInv, ReaderTypeOK, Take
<1>1. ReaderTypeOK' BY DEF FinalStatus, Running
<1>2. kept[r] = {} /\ obj[r] = None /\ answer[r] = {} /\ left[r] = {}
  BY DEF Knows, PhaseAgrees, Held
<1>3. /\ Held(r)' = objects
      /\ \A w : ~Loaded(r, w)'
      /\ Running' = Running
      /\ status' = status
  BY <1>2 DEF Held, Loaded, Running, vars, verdictVars
<1>4. \A a \in objects : status[a] \in FinalStatus \/ a \in Running
  BY DEF IInv, TypeOK, Statuses, FinalStatus, Running
<1>5. PhaseAgrees(r)' BY <1>2 DEF PhaseAgrees
<1>6. WordsKnow(r)' BY <1>3 DEF WordsKnow
<1>7. ResultLast(r)' /\ KeptStays(r)'
  BY <1>2, <1>3 DEF ResultLast, KeptStays, FinalStatus
<1>8. CountProgress(r)' BY <1>2, <1>3, <1>4 DEF CountProgress, FinalStatus
<1> QED BY <1>1, <1>5, <1>6, <1>7, <1>8 DEF Knows

\* A reader's step keeps what it knows, action by action.
LEMMA StepKnows ==
    ASSUME IInv, ReadersInv, NEW r \in Reader, ReaderStep(r), UNCHANGED vars
    PROVE  ReaderTypeOK' /\ Knows(r)'
<1> USE ConstantsAssumption DEF ReadersInv
<1>1. /\ status' = status /\ result' = result /\ Running' = Running
  BY DEF vars, verdictVars, Running
<1>2. /\ Knows(r) /\ Held(r) \subseteq Attack /\ kept[r] \subseteq Attack
      /\ \A w : Loaded(r, w) => obj[r] \in Attack
      /\ status \in [Attack -> Statuses]
      /\ \A a \in Attack : status[a] = "completed" => result[a]
  BY DEF ReaderTypeOK, Held, Loaded, IInv, TypeOK, FinishedMeansVerdict
<1>3. \A a \in Registered : a \in Attack /\ status[a] # "none"
  BY DEF Registered, IInv, TypeOK, PhasesAgree
<1>4. CASE GetAttack(r)
  <2>1. PICK i \in ID : attacks[i] # None /\ Take(r, {attacks[i]}, "any", FALSE)
    BY <1>4 DEF GetAttack
  <2> QED BY <1>4, <1>3, <2>1, TakeKnows DEF GetAttack, Registered
<1>5. CASE GetUnknown(r)
  BY <1>5, <1>1, <1>2
  DEF GetUnknown, ReaderTypeOK, Knows, PhaseAgrees, WordsKnow, ResultLast,
      KeptStays, CountProgress, Held, Loaded, FinalStatus
<1>6. CASE ListAttacks(r)
  <2>1. PICK f \in {"any", "running"} \cup FinalStatus : Take(r, Registered, f, FALSE)
    BY <1>6 DEF ListAttacks
  <2> QED BY <1>6, <1>3, <2>1, TakeKnows DEF ListAttacks
<1>7. CASE CountActive(r)
  BY <1>7, <1>3, TakeKnows DEF CountActive
<1>8. CASE NextAttack(r)
  <2> USE <1>8 DEF NextAttack
  <2>1. PICK a \in listing[r] : /\ obj' = [obj EXCEPT ![r] = a]
                                /\ listing' = [listing EXCEPT ![r] = @ \ {a}]
    OBVIOUS
  <2>2. ReaderTypeOK' BY <2>1 DEF ReaderTypeOK, StatusWords
  <2>3. /\ a \in Attack /\ Held(r)' = Held(r) /\ a \in Held(r)
        /\ \A w \in StatusWords : ~Loaded(r, w)'
        /\ phase[r] = "encode" => ~Loaded(r, "result")'
    BY <2>1, <1>2 DEF ReaderTypeOK, Held, Loaded, StatusWords
  <2>4. PhaseAgrees(r)' BY <2>1, <2>3 DEF PhaseAgrees, ReaderTypeOK
  <2>5. WordsKnow(r)' /\ ResultLast(r)' /\ KeptStays(r)' /\ CountProgress(r)'
    BY <1>1, <1>2, <2>3 DEF Knows, WordsKnow, ResultLast, KeptStays, CountProgress
  <2> QED BY <2>2, <2>4, <2>5 DEF Knows
<1>9. CASE Load(r)
  <2> USE <1>9 DEF Load
  <2>1. PICK w \in left[r] :
          /\ InTurn(r, w)
          /\ view' = [view EXCEPT ![r][w] =
                          IF w = "result" THEN result[obj[r]] ELSE status[obj[r]]]
          /\ left' = [left EXCEPT ![r] = @ \ {w}]
    OBVIOUS
  <2>2. /\ obj[r] \in Attack /\ w \in {"ptr", "len", "result"}
        /\ \A x : Loaded(r, x)' <=> Loaded(r, x) \/ x = w
        /\ obj[r] \in Held(r) /\ Held(r)' = Held(r)
        /\ \A x \in {"ptr", "len", "result"} : x # w => view'[r][x] = view[r][x]
    BY <2>1, <1>2 DEF ReaderTypeOK, Held, Loaded, Knows, PhaseAgrees
  <2>3. /\ w = "result" => view'[r].result = result[obj[r]]
        /\ w # "result" => view'[r][w] = status[obj[r]]
    BY <2>1, <2>2 DEF ReaderTypeOK
  <2>4. ReaderTypeOK'
    <3>1. /\ status[obj[r]] \in Statuses /\ result[obj[r]] \in BOOLEAN
          /\ view[r] \in [ptr : Statuses, len : Statuses, result : BOOLEAN]
      BY <2>2 DEF ReaderTypeOK, IInv, TypeOK
    <3>2. view'[r] = [view[r] EXCEPT ![w] =
                         IF w = "result" THEN result[obj[r]] ELSE status[obj[r]]]
      BY <2>1 DEF ReaderTypeOK
    <3>3. view'[r] \in [ptr : Statuses, len : Statuses, result : BOOLEAN]
      BY <3>1, <3>2, <2>2
    <3> QED BY <2>1, <3>3 DEF ReaderTypeOK
  <2>5. PhaseAgrees(r)' BY <1>2, <2>2 DEF Knows, PhaseAgrees
  <2>6. WordsKnow(r)'
    BY <1>1, <1>2, <2>2, <2>3 DEF Knows, WordsKnow, StatusWords
  <2>7. ResultLast(r)'
    <3> SUFFICES ASSUME ~reorders, phase[r] = "encode",
                        w = "result" \/ Loaded(r, "result")
                 PROVE  /\ left'[r] = {}
                        /\ view'[r].ptr = "completed" => view'[r].result
      BY <2>2 DEF ResultLast
    <3>1. w = "result" /\ left[r] = {"result"}
      BY <2>1, <1>2 DEF Knows, ResultLast, InTurn
    <3>2. Loaded(r, "ptr") /\ view'[r].ptr = view[r].ptr
      BY <3>1, <2>2 DEF Loaded, ReaderTypeOK
    <3> QED
      BY <3>1, <3>2, <1>2, <2>1, <2>2, <2>3
      DEF Knows, WordsKnow, StatusWords, FinalStatus, ReaderTypeOK
  <2>8. KeptStays(r)'
    BY <1>1, <1>2, <2>2, <2>3 DEF Knows, KeptStays, StatusWords
  <2>9. CountProgress(r)'
    <3> SUFFICES ASSUME counts[r], w \in StatusWords, view'[r][w] = "running"
                 PROVE  obj[r] \in began[r]
      BY <1>1, <1>2, <2>2, <2>3 DEF Knows, CountProgress, StatusWords
    <3> QED BY <1>2, <2>2, <2>3 DEF Knows, CountProgress, StatusWords, FinalStatus
  <2> QED BY <2>4, <2>5, <2>6, <2>7, <2>8, <2>9 DEF Knows
<1>10. CASE Filter(r)
  <2> USE <1>10 DEF Filter
  <2>1. /\ obj[r] \in Attack /\ obj[r] \in Held(r)
        /\ \A w \in StatusWords : Loaded(r, w)
        /\ \A w : ~Loaded(r, w)'
    BY DEF ReaderTypeOK, Held, Loaded
  <2>2. ReaderTypeOK'
    BY <2>1 DEF ReaderTypeOK, Blank, Statuses
  <2>3. /\ Held(r)' \subseteq Held(r)
        /\ Held(r) \subseteq Held(r)' \cup {obj[r]}
        /\ kept[r] \subseteq kept'[r]
        /\ kept'[r] \subseteq kept[r] \cup {obj[r]}
        /\ obj[r] \in kept'[r] <=> Passes(r) \/ obj[r] \in kept[r]
        /\ kept'[r] \subseteq Held(r)'
    BY <2>1 DEF Held, ReaderTypeOK
  <2>4. PhaseAgrees(r)' /\ ResultLast(r)'
    BY <2>1 DEF PhaseAgrees, ResultLast
  <2>5. WordsKnow(r)' BY <1>1, <1>2, <2>1, <2>3 DEF Knows, WordsKnow
  <2>6. KeptStays(r)'
    <3>1. wants[r] \in FinalStatus /\ Passes(r) => status[obj[r]] = wants[r]
      BY <1>2, <2>1 DEF Knows, WordsKnow, Passes, Text, StatusWords, FinalStatus
    <3> QED BY <1>1, <1>2, <2>3, <3>1 DEF Knows, KeptStays
  <2>7. CountProgress(r)'
    <3>1. obj[r] \in Running => view[r].ptr = "running" /\ view[r].len = "running"
      BY <1>2, <2>1 DEF Knows, WordsKnow, StatusWords, Running, ReaderTypeOK,
                        Statuses, FinalStatus
    <3>2. counts[r] /\ Passes(r) => obj[r] \in began[r]
      BY <1>2, <2>1 DEF Knows, CountProgress, Passes, Text, StatusWords
    <3>3. counts[r] /\ obj[r] \in Running => Passes(r)
      BY <1>2, <3>1 DEF Knows, CountProgress, Passes, Text
    <3> QED BY <1>1, <1>2, <2>1, <2>3, <3>2, <3>3 DEF Knows, CountProgress
  <2> QED BY <2>2, <2>4, <2>5, <2>6, <2>7 DEF Knows
<1>11. CASE Encode(r)
  <2> USE <1>11 DEF Encode
  <2>1. /\ Held(r) = kept[r] /\ Held(r)' = kept[r]
        /\ \A w : ~Loaded(r, w)'
    BY DEF Held, Loaded, ReaderTypeOK
  <2>2. ReaderTypeOK' BY DEF ReaderTypeOK
  <2>3. PhaseAgrees(r)' /\ ResultLast(r)'
    BY <1>2, <2>1 DEF Knows, PhaseAgrees, ResultLast, ReaderTypeOK
  <2>4. WordsKnow(r)' /\ KeptStays(r)'
    BY <1>1, <1>2, <2>1 DEF Knows, WordsKnow, KeptStays
  <2>5. CountProgress(r)'
    BY <1>1, <1>2, <2>1 DEF Knows, CountProgress, ReaderTypeOK
  <2> QED BY <2>2, <2>3, <2>4, <2>5 DEF Knows
<1>12. CASE Write(r)
  <2> USE <1>12 DEF Write
  <2>1. /\ obj[r] \in Attack /\ Held(r)' \subseteq Held(r)
        /\ kept'[r] = kept[r]
        /\ \A w : ~Loaded(r, w)'
    BY DEF Held, Loaded, ReaderTypeOK
  <2>2. ReaderTypeOK'
    <3>1. <<obj[r], Text(view[r]), view[r].result>>
            \in Attack \X (Statuses \cup {"torn"}) \X BOOLEAN
      BY <2>1 DEF ReaderTypeOK, Text
    <3> QED BY <3>1 DEF ReaderTypeOK, Blank, Statuses
  <2>3. PhaseAgrees(r)' /\ ResultLast(r)'
    BY <2>1 DEF PhaseAgrees, ResultLast
  <2>4. WordsKnow(r)' /\ KeptStays(r)' /\ CountProgress(r)'
    BY <1>1, <1>2, <2>1 DEF Knows, WordsKnow, KeptStays, CountProgress
  <2> QED BY <2>2, <2>3, <2>4 DEF Knows
<1>13. CASE Answer(r)
  BY <1>13, <1>1, <1>2
  DEF Answer, ReaderTypeOK, Knows, PhaseAgrees, WordsKnow, ResultLast,
      KeptStays, CountProgress, Held, Loaded
<1> QED BY <1>4, <1>5, <1>6, <1>7, <1>8, <1>9, <1>10, <1>11, <1>12, <1>13 DEF ReaderStep

\* A reader's step is nobody else's.
LEMMA OthersKnow ==
    ASSUME ReadersInv, NEW r \in Reader, ReaderStep(r), UNCHANGED vars,
           NEW q \in Reader, q # r
    PROVE  Knows(q)'
<1>1. /\ UNCHANGED <<reorders, status>>
      /\ phase'[q] = phase[q] /\ wants'[q] = wants[q] /\ counts'[q] = counts[q]
      /\ listing'[q] = listing[q] /\ kept'[q] = kept[q] /\ obj'[q] = obj[q]
      /\ left'[q] = left[q] /\ view'[q] = view[q] /\ answer'[q] = answer[q]
      /\ began'[q] = began[q]
  BY DEF ReaderStep, GetAttack, GetUnknown, ListAttacks, CountActive, Take,
         NextAttack, Load, Filter, Encode, Write, Answer, ReadersInv,
         ReaderTypeOK, vars, verdictVars
<1> QED
  BY <1>1 DEF ReadersInv, Knows, PhaseAgrees, WordsKnow, ResultLast, KeptStays,
              CountProgress, Held, Loaded, Running

\* What is written into a response holds of it.
LEMMA AnswersKept ==
    ASSUME ReadersInv, NEW r \in Reader, ReaderStep(r), UNCHANGED vars
    PROVE  CompletedHasResult' /\ FinalFilterExact'
<1> USE DEF ReadersInv
<1>1. CASE Write(r)
  <2> DEFINE e == <<obj[r], Text(view[r]), view[r].result>>
  <2>1. /\ UNCHANGED <<reorders, wants>>
        /\ answer' = [answer EXCEPT ![r] = @ \cup {e}]
        /\ \A w : w \in StatusWords \cup {"result"} => Loaded(r, w)
        /\ obj[r] \in Held(r) /\ phase[r] = "encode"
    BY <1>1 DEF Write, Loaded, Held
  <2>2. ~reorders /\ e[2] = "completed" => e[3]
    BY <2>1 DEF Knows, ResultLast, Text
  <2>3. wants[r] \in FinalStatus => e[2] = wants[r]
    BY <2>1 DEF Knows, KeptStays, Text, StatusWords
  <2> HIDE DEF e
  <2>4. CompletedHasResult' BY <2>1, <2>2 DEF CompletedHasResult, ReaderTypeOK
  <2>5. FinalFilterExact' BY <2>1, <2>3 DEF FinalFilterExact, ReaderTypeOK
  <2> QED BY <2>4, <2>5
<1>2. CASE ~Write(r)
  <2>1. UNCHANGED <<reorders, answer>>
    BY <1>2 DEF ReaderStep, GetAttack, GetUnknown, ListAttacks, CountActive, Take,
                NextAttack, Load, Filter, Encode, Answer
  <2>2. \A q \in Reader : wants'[q] = wants[q] \/ answer[q] = {}
    BY <1>2 DEF ReaderStep, GetAttack, GetUnknown, ListAttacks, CountActive, Take,
                NextAttack, Load, Filter, Encode, Answer, Knows, PhaseAgrees,
                ReaderTypeOK
  <2> QED BY <2>1, <2>2 DEF CompletedHasResult, FinalFilterExact
<1> QED BY <1>1, <1>2

\* What the readers know is invariant, for any number of readers and attacks.
THEOREM ReadersInvariance == ReadersSpec => [](IInv /\ ReadersInv)
<1>1. ReadersInit => IInv /\ ReadersInv
  <2> SUFFICES ASSUME ReadersInit PROVE IInv /\ ReadersInv OBVIOUS
  <2>1. IInv BY InitInvariant DEF ReadersInit
  <2>2. ReadersInv
    BY DEF ReadersInit, ReaderInit, ReadersInv, ReaderTypeOK, Knows, PhaseAgrees,
           WordsKnow, ResultLast, KeptStays, CountProgress, CompletedHasResult,
           FinalFilterExact, Held, Loaded, FinalStatus, Statuses, Blank
  <2> QED BY <2>1, <2>2
<1>2. IInv /\ ReadersInv /\ [ReadersNext]_allVars => (IInv /\ ReadersInv)'
  <2> SUFFICES ASSUME IInv, ReadersInv, [ReadersNext]_allVars
               PROVE  IInv' /\ ReadersInv'
    OBVIOUS
  <2>1. CASE [Next]_vars /\ UNCHANGED readerVars
    BY <2>1, StepInvariant, ManagerKeepsReaders
  <2>2. ASSUME NEW r \in Reader, ReaderStep(r), UNCHANGED vars
        PROVE  IInv' /\ ReadersInv'
    <3>1. IInv' BY <2>2, StepInvariant
    <3>2. \A q \in Reader : Knows(q)' BY <2>2, StepKnows, OthersKnow
    <3> QED BY <2>2, <3>1, <3>2, StepKnows, AnswersKept DEF ReadersInv
  <2> QED BY <2>1, <2>2 DEF ReadersNext, allVars
<1> QED BY <1>1, <1>2, PTL DEF ReadersSpec

\* A response that calls an attack completed has its result, unless the machine
\* reorders loads.
THEOREM AnswersCorrect == ReadersSpec => []CompletedHasResult
BY ReadersInvariance, PTL DEF ReadersInv

\* The list for a final status says that status of all it shows, on any machine.
THEOREM FilterCorrect == ReadersSpec => []FinalFilterExact
BY ReadersInvariance, PTL DEF ReadersInv

\* The count of active attacks lies between those that ran throughout and those
\* that ran when the list was taken.
THEOREM CountCorrect == ReadersSpec => []ActiveCountBetween
<1>1. ReadersInv => ActiveCountBetween
  BY DEF ReadersInv, Knows, CountProgress, ActiveCountBetween
<1> QED BY <1>1, ReadersInvariance, PTL
=============================================================================
