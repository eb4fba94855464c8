-------------------------- MODULE RunServiceProofs --------------------------
(***************************************************************************)
(* Proofs about RunStore, for any run ids and any sequence of the store's    *)
(* operations, and about RunService, for any run ids and any finite sets of *)
(* create and stop requests: the paths of the state machine, one winner per *)
(* run, the exact gauge, the handlers' use of the store, and the end of     *)
(* the streams of a stopped run.                                            *)
(***************************************************************************)
EXTENDS RunService, FiniteSetTheorems, TLAPS

-----------------------------------------------------------------------------
(* The run store.                                                           *)

\* The transition table, one status at a time.
LEMMA LegalMoves ==
    ASSUME NEW from \in Store!Statuses, NEW to \in Store!Statuses,
           Store!Legal(from, to)
    PROVE  \/ from = "starting" /\ to \in {"validating", "stopped", "failed"}
           \/ from = "validating" /\ to \in {"running", "rejected", "stopped", "failed"}
           \/ from = "running" /\ to \in {"completing", "stopped", "failed"}
           \/ from = "completing" /\ to \in {"completed", "failed"}
BY DEF Store!Legal, Store!Transitions, Store!Statuses

\* What the invariant says of one run.
PathOf(st, en, vs) ==
    /\ st \in Store!Statuses \cup {"absent"}
    /\ en \in BOOLEAN
    /\ vs \subseteq Store!Statuses
    /\ st = "absent" <=> vs = {}
    /\ st # "absent" => st \in vs
    /\ st = "starting" => vs = {"starting"}
    /\ st = "validating" => vs = {"starting", "validating"}
    /\ st = "running" => vs = {"starting", "validating", "running"}
    /\ st = "completing" => vs = {"starting", "validating", "running", "completing"}
    /\ st = "completed" => {"starting", "validating", "running", "completing"} \subseteq vs
    /\ st = "rejected" => vs \cap {"running", "completing"} = {}
    /\ en <=> st \in Store!Terminal /\ vs # {st}

LEMMA StoreInvByRun ==
    Store!StoreInv <=>
        /\ Store!TypeOK
        /\ \A i \in RunID : PathOf(status[i], ended[i], visited[i])
BY DEF Store!StoreInv, Store!TypeOK, Store!PathInv, Store!CompletedRanThrough,
   Store!RejectedNeverRan, Store!EndedIffTerminal, PathOf, Store!Exists

\* A legal move keeps a run on the table's paths.
LEMMA MoveKeepsPath ==
    ASSUME NEW st \in Store!Statuses, NEW en, NEW vs, PathOf(st, en, vs),
           NEW to \in Store!Statuses, Store!Legal(st, to)
    PROVE  PathOf(to, en \/ to \in Store!Terminal, vs \cup {to})
<1> USE LegalMoves DEF PathOf, Store!Statuses, Store!Terminal
<1>1. CASE st = "starting" BY <1>1
<1>2. CASE st = "validating" BY <1>2
<1>3. CASE st = "running" BY <1>3
<1>4. CASE st = "completing" BY <1>4
<1> QED BY <1>1, <1>2, <1>3, <1>4

LEMMA StoreInvPreserved ==
    ASSUME Store!StoreInv, [Store!Next]_(Store!vars)
    PROVE  Store!StoreInv'
<1> DEFINE Path(i) == PathOf(status[i], ended[i], visited[i])
<1>1. Store!TypeOK /\ \A i \in RunID : Path(i) BY StoreInvByRun
<1>2. ASSUME NEW i \in RunID, NEW s \in {"starting", "rejected"}, NEW b \in BOOLEAN,
             Store!Create(i, s, b)
      PROVE  Store!TypeOK' /\ \A j \in RunID : Path(j)'
  <2>1. PathOf(s, FALSE, {s}) BY DEF PathOf, Store!Statuses, Store!Terminal
  <2> QED BY <1>1, <1>2, <2>1 DEF Store!Create, Store!TypeOK, Store!Statuses
<1>3. ASSUME NEW i \in RunID, NEW s \in Store!Statuses, Store!UpdateStatus(i, s)
      PROVE  Store!TypeOK' /\ \A j \in RunID : Path(j)'
  <2>1. status[i] \in Store!Statuses /\ Store!Legal(status[i], s)
    BY <1>1, <1>3 DEF Store!TypeOK, Store!UpdateStatus, Store!CanUpdate, Store!Exists
  <2>2. PathOf(s, ended[i] \/ s \in Store!Terminal, visited[i] \cup {s})
    BY <1>1, <2>1, MoveKeepsPath
  <2>3. /\ status' = [status EXCEPT ![i] = s]
        /\ ended' = [ended EXCEPT ![i] = ended[i] \/ s \in Store!Terminal]
        /\ visited' = [visited EXCEPT ![i] = visited[i] \cup {s}]
        /\ reason' = reason
    BY <1>3 DEF Store!UpdateStatus
  <2>4. Store!TypeOK' BY <1>1, <2>3 DEF Store!TypeOK
  <2>5. ASSUME NEW j \in RunID PROVE Path(j)'
    <3>1. CASE j = i
      <4>1. /\ status'[j] = s
            /\ ended'[j] = (ended[i] \/ s \in Store!Terminal)
            /\ visited'[j] = visited[i] \cup {s}
        BY <1>1, <2>3, <3>1 DEF Store!TypeOK
      <4> QED BY <2>2, <4>1
    <3>2. CASE j # i
      <4>1. UNCHANGED <<status[j], ended[j], visited[j]>>
        BY <1>1, <2>3, <3>2 DEF Store!TypeOK
      <4> QED BY <1>1, <4>1
    <3> QED BY <3>1, <3>2
  <2> QED BY <2>4, <2>5
<1>4. ASSUME NEW i \in RunID, Store!UpdateReason(i)
      PROVE  Store!TypeOK' /\ \A j \in RunID : Path(j)'
  BY <1>1, <1>4 DEF Store!UpdateReason, Store!TypeOK
<1>5. ASSUME NEW i \in RunID, Store!Delete(i)
      PROVE  Store!TypeOK' /\ \A j \in RunID : Path(j)'
  <2>1. PathOf("absent", FALSE, {}) BY DEF PathOf, Store!Statuses, Store!Terminal
  <2> QED BY <1>1, <1>5, <2>1 DEF Store!Delete, Store!TypeOK
<1>6. CASE UNCHANGED Store!vars
  BY <1>1, <1>6 DEF Store!vars, Store!TypeOK, Store!StoreInv, Store!PathInv,
     Store!CompletedRanThrough, Store!RejectedNeverRan, Store!EndedIffTerminal,
     Store!Exists
<1>7. Store!StoreInv' <=> Store!TypeOK' /\ \A i \in RunID : Path(i)'
  BY DEF Store!StoreInv, Store!TypeOK, Store!PathInv, Store!CompletedRanThrough,
     Store!RejectedNeverRan, Store!EndedIffTerminal, PathOf, Store!Exists
<1> QED
  <2> HIDE DEF Path
  <2> QED BY <1>2, <1>3, <1>4, <1>5, <1>6, <1>7 DEF Store!Next

\* The run store keeps every run on the paths of its table.
THEOREM StoreInvariance == Store!Spec => []Store!StoreInv
<1>1. Store!Init => Store!StoreInv
  BY DEF Store!Init, Store!StoreInv, Store!TypeOK, Store!PathInv,
     Store!CompletedRanThrough, Store!RejectedNeverRan, Store!EndedIffTerminal,
     Store!Terminal, Store!Exists
<1> QED BY <1>1, StoreInvPreserved, PTL DEF Store!Spec

\* A completed run went through every phase and a rejected one never ran,
\* whatever calls were made and refused.
THEOREM PathsCorrect ==
    Store!Spec => [](Store!CompletedRanThrough /\ Store!RejectedNeverRan)
BY StoreInvariance, PTL DEF Store!StoreInv

\* No operation but Delete takes a run out of a terminal status.
THEOREM TerminalIsFinal == Store!Spec => Store!TerminalFinal
<1>1. Store!StoreInv /\ [Store!Next]_(Store!vars) =>
        [\A i \in RunID : status[i] \in Store!Terminal =>
            status'[i] \in {status[i], "absent"}]_(Store!vars)
  <2> SUFFICES ASSUME Store!StoreInv, Store!Next, NEW i \in RunID,
                      status[i] \in Store!Terminal
               PROVE  status'[i] \in {status[i], "absent"}
    BY DEF Store!vars
  <2> USE DEF Store!StoreInv, Store!TypeOK, Store!Statuses, Store!Terminal,
          Store!Exists
  <2>1. ASSUME NEW j \in RunID, NEW s, NEW b, Store!Create(j, s, b)
        PROVE  status'[i] = status[i]
    BY <2>1 DEF Store!Create, Store!CanCreate
  <2>2. ASSUME NEW j \in RunID, NEW s \in Store!Statuses, Store!UpdateStatus(j, s)
        PROVE  status'[i] = status[i]
    BY <2>2 DEF Store!UpdateStatus, Store!CanUpdate, Store!Legal, Store!Transitions
  <2>3. ASSUME NEW j \in RunID, Store!UpdateReason(j) PROVE status'[i] = status[i]
    BY <2>3 DEF Store!UpdateReason
  <2>4. ASSUME NEW j \in RunID, Store!Delete(j)
        PROVE  status'[i] \in {status[i], "absent"}
    BY <2>4 DEF Store!Delete
  <2> QED BY <2>1, <2>2, <2>3, <2>4 DEF Store!Next
<1> QED BY <1>1, StoreInvariance, PTL DEF Store!Spec, Store!TerminalFinal

-----------------------------------------------------------------------------
(* The handlers.                                                            *)

LEMMA ServiceTypePreserved ==
    ASSUME ServiceInv, [Next]_vars
    PROVE  TypeOK'
<1> USE ServiceAssumption DEF ServiceInv, TypeOK, Store!TypeOK, Store!Statuses,
        CreatorPC, StopperPC, Broker!ReaderPC, storeVars, brokerVars, createVars,
        stopVars, metricVars, RunsHaveOwners
<1>1. ASSUME NEW c \in Creator, CreateStep(c) PROVE TypeOK'
  <2>1. CASE CallCreate(c) BY <2>1 DEF CallCreate
  <2>2. CASE CreateRejected(c) BY <2>2 DEF CreateRejected, Store!Create
  <2>3. CASE CreateStarting(c) BY <2>3 DEF CreateStarting, Store!Create
  <2>4. CASE CreateConflict(c) BY <2>4 DEF CreateConflict
  <2>5. CASE CountStarted(c) BY <2>5 DEF CountStarted
  <2> QED BY <1>1, <2>1, <2>2, <2>3, <2>4, <2>5 DEF CreateStep
<1>2. ASSUME NEW d \in Stopper, StopStep(d) PROVE TypeOK'
  <2>1. CASE CallStop(d) BY <2>1 DEF CallStop
  <2>2. CASE LookUp(d) BY <2>2 DEF LookUp
  <2>3. CASE CheckTerminal(d) BY <2>3 DEF CheckTerminal
  <2>4. CASE MarkStopped(d) BY <2>4 DEF MarkStopped, Store!UpdateStatus
  <2>5. CASE MarkRefused(d) BY <2>5 DEF MarkRefused
  <2>6. CASE CountStopped(d) BY <2>6 DEF CountStopped
  <2>7. CASE CloseStreams(d) BY <2>7 DEF CloseStreams, Broker!CloseRun,
    Broker!readerVars
  <2> QED BY <1>2, <2>1, <2>2, <2>3, <2>4, <2>5, <2>6, <2>7 DEF StopStep
<1>3. ASSUME NEW s \in Subscriber, EventsStep(s) PROVE TypeOK'
  <2>1. CASE CallEvents(s) BY <2>1 DEF CallEvents
  <2>2. CASE Stream(s) BY <2>2 DEF Stream, Broker!Subscribe
  <2>3. CASE SeeClosed(s) BY <2>3 DEF SeeClosed, Broker!SeeClose
  <2>4. CASE HangUp(s) BY <2>4 DEF HangUp, Broker!Disconnect
  <2>5. CASE Leave(s) BY <2>5 DEF Leave, Broker!Unsubscribe
  <2> QED BY <1>3, <2>1, <2>2, <2>3, <2>4, <2>5 DEF EventsStep
<1>4. CASE UNCHANGED vars BY <1>4 DEF vars
<1> QED BY <1>1, <1>2, <1>3, <1>4 DEF Next, Quiet

\* Create refuses a taken id and UpdateStatus a stopped run, so every run has
\* one maker and at most one stopper.
LEMMA OwnersPreserved ==
    ASSUME ServiceInv, TypeOK', [Next]_vars
    PROVE  (RunsHaveOwners /\ OneStopWins)'
<1> USE ServiceAssumption DEF ServiceInv, RunsHaveOwners, OneStopWins, Maker, Winner,
        Store!Exists, storeVars, createVars, stopVars
<1> DEFINE Goal == RunsHaveOwners /\ OneStopWins
<1>1. ASSUME NEW c \in Creator, CreateStep(c) PROVE Goal'
  <2> USE DEF TypeOK, Store!TypeOK
  <2>1. CASE CallCreate(c) BY <2>1 DEF CallCreate
  <2>2. CASE CreateRejected(c)
    BY <2>2 DEF CreateRejected, Store!Create, Store!CanCreate
  <2>3. CASE CreateStarting(c)
    BY <2>3 DEF CreateStarting, Store!Create, Store!CanCreate
  <2>4. CASE CreateConflict(c) BY <2>4 DEF CreateConflict
  <2>5. CASE CountStarted(c) BY <2>5 DEF CountStarted
  <2> QED BY <1>1, <2>1, <2>2, <2>3, <2>4, <2>5 DEF CreateStep
<1>2. ASSUME NEW d \in Stopper, StopStep(d) PROVE Goal'
  <2> USE DEF TypeOK, Store!TypeOK
  <2>1. CASE CallStop(d) BY <2>1 DEF CallStop
  <2>2. CASE LookUp(d) BY <2>2 DEF LookUp
  <2>3. CASE CheckTerminal(d) BY <2>3 DEF CheckTerminal
  <2>4. CASE MarkStopped(d)
    <3>1. stopID[d] \in RunID /\ status[stopID[d]] = "starting"
      BY <2>4 DEF MarkStopped, Store!UpdateStatus, Store!CanUpdate, Store!Legal,
         Store!Transitions, Store!Statuses
    <3> QED BY <2>4, <3>1 DEF MarkStopped, Store!UpdateStatus
  <2>5. CASE MarkRefused(d) BY <2>5 DEF MarkRefused
  <2>6. CASE CountStopped(d) BY <2>6 DEF CountStopped
  <2>7. CASE CloseStreams(d) BY <2>7 DEF CloseStreams
  <2> QED BY <1>2, <2>1, <2>2, <2>3, <2>4, <2>5, <2>6, <2>7 DEF StopStep
<1>3. ASSUME NEW s \in Subscriber, EventsStep(s) PROVE Goal'
  BY <1>3 DEF EventsStep, CallEvents, Stream, SeeClosed, HangUp, Leave
<1>4. CASE UNCHANGED vars BY <1>4 DEF vars
<1> QED BY <1>1, <1>2, <1>3, <1>4 DEF Next, Quiet

LEMMA ServiceCountsFinite ==
    /\ IsFiniteSet(CountedBy) /\ IsFiniteSet(UncountedBy)
    /\ Cardinality(CountedBy) \in Nat /\ Cardinality(UncountedBy) \in Nat
<1>1. CountedBy \in SUBSET Creator /\ UncountedBy \in SUBSET Stopper
  BY DEF CountedBy, UncountedBy
<1> QED BY <1>1, ServiceAssumption, FS_Subset, FS_CardinalityType

LEMMA ServiceGaugePreserved ==
    ASSUME ServiceInv, [Next]_vars
    PROVE  GaugeAccounting'
<1> DEFINE Unmoved == UNCHANGED <<CountedBy, UncountedBy, activeRuns, runsStopped>>
<1> USE DEF ServiceInv, TypeOK
<1>1. ASSUME NEW c \in Creator, CountStarted(c) PROVE GaugeAccounting'
  <2>1. /\ CountedBy' = CountedBy \cup {c}
        /\ c \notin CountedBy
        /\ UncountedBy' = UncountedBy
        /\ activeRuns' = activeRuns + 1
        /\ runsStopped' = runsStopped
    BY <1>1 DEF CountStarted, CountedBy, UncountedBy, stopVars
  <2>2. Cardinality(CountedBy') = Cardinality(CountedBy) + 1
    BY <2>1, ServiceCountsFinite, FS_AddElement
  <2> QED BY <2>1, <2>2, ServiceCountsFinite DEF GaugeAccounting
<1>2. ASSUME NEW d \in Stopper, CountStopped(d) PROVE GaugeAccounting'
  <2>1. /\ UncountedBy' = UncountedBy \cup {d}
        /\ d \notin UncountedBy
        /\ CountedBy' = CountedBy
        /\ activeRuns' = activeRuns - 1
        /\ runsStopped' = runsStopped + 1
    BY <1>2 DEF CountStopped, CountedBy, UncountedBy, createVars
  <2>2. Cardinality(UncountedBy') = Cardinality(UncountedBy) + 1
    BY <2>1, ServiceCountsFinite, FS_AddElement
  <2> QED BY <2>1, <2>2, ServiceCountsFinite DEF GaugeAccounting
<1>3. ASSUME NEW c \in Creator, CreateStep(c), ~CountStarted(c) PROVE Unmoved
  <2> USE DEF CountedBy, UncountedBy, stopVars, metricVars
  <2>1. CASE CallCreate(c) BY <2>1 DEF CallCreate
  <2>2. CASE CreateRejected(c) BY <2>2 DEF CreateRejected
  <2>3. CASE CreateStarting(c) BY <2>3 DEF CreateStarting
  <2>4. CASE CreateConflict(c) BY <2>4 DEF CreateConflict
  <2> QED BY <1>3, <2>1, <2>2, <2>3, <2>4 DEF CreateStep
<1>4. ASSUME NEW d \in Stopper, StopStep(d), ~CountStopped(d) PROVE Unmoved
  <2> USE DEF CountedBy, UncountedBy, createVars, metricVars
  <2>1. CASE CallStop(d) BY <2>1 DEF CallStop
  <2>2. CASE LookUp(d) BY <2>2 DEF LookUp
  <2>3. CASE CheckTerminal(d) BY <2>3 DEF CheckTerminal
  <2>4. CASE MarkStopped(d) BY <2>4 DEF MarkStopped
  <2>5. CASE MarkRefused(d) BY <2>5 DEF MarkRefused
  <2>6. CASE CloseStreams(d) BY <2>6 DEF CloseStreams
  <2> QED BY <1>4, <2>1, <2>2, <2>3, <2>4, <2>5, <2>6 DEF StopStep
<1>5. ASSUME NEW s \in Subscriber, EventsStep(s) PROVE Unmoved
  BY <1>5 DEF EventsStep, CallEvents, Stream, SeeClosed, HangUp, Leave, CountedBy,
     UncountedBy, createVars, stopVars, metricVars
<1>6. ASSUME UNCHANGED vars PROVE Unmoved
  BY <1>6 DEF vars, CountedBy, UncountedBy, createVars, stopVars, metricVars
<1>7. ASSUME Unmoved PROVE GaugeAccounting' BY <1>7 DEF GaugeAccounting
<1> QED BY <1>1, <1>2, <1>3, <1>4, <1>5, <1>6, <1>7 DEF Next, Quiet

\* Only CloseRun and the reader itself take a stream out of the table.
LEMMA StreamsPreserved ==
    ASSUME ServiceInv, [Next]_vars
    PROVE  StreamsListed'
<1> USE DEF ServiceInv, TypeOK, StreamsListed
<1>1. ASSUME UNCHANGED brokerVars PROVE StreamsListed' BY <1>1 DEF brokerVars
<1>2. ASSUME NEW c \in Creator, CreateStep(c) PROVE StreamsListed'
  <2>1. UNCHANGED brokerVars
    BY <1>2 DEF CreateStep, CallCreate, CreateRejected, CreateStarting,
       CreateConflict, CountStarted
  <2> QED BY <1>1, <2>1
<1>3. ASSUME NEW d \in Stopper, StopStep(d) PROVE StreamsListed'
  <2>1. CASE CloseStreams(d)
    <3>1. stopID[d] \in RunID BY <2>1 DEF CloseStreams, RunsHaveOwners
    <3>2. /\ chan' = [s \in Subscriber |->
                        IF s \in subs[stopID[d]] THEN "closed" ELSE chan[s]]
          /\ subs' = [subs EXCEPT ![stopID[d]] = {}]
          /\ UNCHANGED <<topic, reader>>
      BY <2>1 DEF CloseStreams, Broker!CloseRun, Broker!readerVars
    <3> QED BY <3>1, <3>2
  <2>2. CASE ~CloseStreams(d)
    <3>1. UNCHANGED brokerVars
      BY <1>3, <2>2 DEF StopStep, CallStop, LookUp, CheckTerminal, MarkStopped,
         MarkRefused, CountStopped
    <3> QED BY <1>1, <3>1
  <2> QED BY <2>1, <2>2
<1>4. ASSUME NEW s \in Subscriber, EventsStep(s) PROVE StreamsListed'
  <2>1. CASE CallEvents(s) BY <1>1, <2>1 DEF CallEvents
  <2>2. CASE Stream(s) BY <2>2 DEF Stream, Broker!Subscribe
  <2>3. CASE SeeClosed(s) BY <2>3 DEF SeeClosed, Broker!SeeClose
  <2>4. CASE HangUp(s) BY <2>4 DEF HangUp, Broker!Disconnect
  <2>5. CASE Leave(s) BY <2>5 DEF Leave, Broker!Unsubscribe
  <2> QED BY <1>4, <2>1, <2>2, <2>3, <2>4, <2>5 DEF EventsStep
<1>5. CASE UNCHANGED vars BY <1>1, <1>5 DEF vars
<1> QED BY <1>2, <1>3, <1>4, <1>5 DEF Next, Quiet

-----------------------------------------------------------------------------
\* Every run has the POST that made it and the DELETE that stopped it, and the
\* gauge is what the handlers have added and removed.
THEOREM ServiceInvariance == Spec => []ServiceInv
<1>1. Init => ServiceInv
  <2> SUFFICES ASSUME Init PROVE ServiceInv OBVIOUS
  <2> USE DEF Init, Store!Init, Broker!Init
  <2>1. TypeOK BY DEF TypeOK, Store!TypeOK, CreatorPC, StopperPC, Broker!ReaderPC
  <2>2. RunsHaveOwners /\ OneStopWins
    BY DEF RunsHaveOwners, OneStopWins, Maker, Winner, Store!Exists
  <2>3. GaugeAccounting
    <3>1. CountedBy = {} /\ UncountedBy = {} BY DEF CountedBy, UncountedBy
    <3> QED BY <3>1, FS_EmptySet DEF GaugeAccounting
  <2>4. StreamsListed BY DEF StreamsListed
  <2> QED BY <2>1, <2>2, <2>3, <2>4 DEF ServiceInv
<1>2. ServiceInv /\ [Next]_vars => ServiceInv'
  BY ServiceTypePreserved, OwnersPreserved, ServiceGaugePreserved, StreamsPreserved
     DEF ServiceInv
<1> QED BY <1>1, <1>2, PTL DEF Spec

\* However many DELETE requests of one run race past the unlocked check, one
\* of them stops it.
THEOREM OneStopWinsCorrect == Spec => []OneStopWins
BY ServiceInvariance, PTL DEF ServiceInv

LEMMA CountByMap ==
    ASSUME NEW S, NEW T, IsFiniteSet(S), NEW f, 
           \A x \in S : f[x] \in T,
           \A x, y \in S : f[x] = f[y] => x = y,
           \A t \in T : \E x \in S : f[x] = t
    PROVE  IsFiniteSet(T) /\ Cardinality(T) = Cardinality(S)
<1> DEFINE g == [x \in S |-> f[x]]
<1>1. g \in Bijection(S, T)
  BY DEF Bijection, Injection, Surjection, IsInjective
<1>2. ExistsBijection(S, T) BY <1>1 DEF ExistsBijection
<1> QED BY <1>2, FS_Bijection

\* With no handler between its change of the store and its change of the
\* gauge, the gauge is the number of runs that are not terminal.
THEOREM GaugeCorrect == Spec => []GaugeExact
<1>1. ASSUME ServiceInv, NotCountedYet = {}, NotUncountedYet = {}
      PROVE  /\ activeRuns = Cardinality(ActiveRunIDs)
             /\ runsStopped = Cardinality({i \in RunID : status[i] = "stopped"})
  <2> DEFINE Started == {i \in RunID : status[i] \in {"starting", "stopped"}}
             Stopped == {i \in RunID : status[i] = "stopped"}
  <2>1. IsFiniteSet(Started) /\ Cardinality(Started) = Cardinality(CountedBy)
    <3>1. \A c \in CountedBy : createID[c] \in Started
      BY <1>1 DEF ServiceInv, RunsHaveOwners, CountedBy
    <3>2. \A c, e \in CountedBy : createID[c] = createID[e] => c = e
      BY <1>1 DEF ServiceInv, RunsHaveOwners, CountedBy, Maker
    <3>3. \A i \in Started : \E c \in CountedBy : createID[c] = i
      BY <1>1 DEF ServiceInv, RunsHaveOwners, CountedBy, Maker, NotCountedYet,
         Store!Exists
    <3> HIDE DEF Started
    <3> QED BY <3>1, <3>2, <3>3, ServiceCountsFinite, CountByMap
  <2>2. IsFiniteSet(Stopped) /\ Cardinality(Stopped) = Cardinality(UncountedBy)
    <3>1. \A d \in UncountedBy : stopID[d] \in Stopped
      BY <1>1 DEF ServiceInv, RunsHaveOwners, UncountedBy, Winner
    <3>2. \A d, e \in UncountedBy : stopID[d] = stopID[e] => d = e
      BY <1>1 DEF ServiceInv, OneStopWins, UncountedBy
    <3>3. \A i \in Stopped : \E d \in UncountedBy : stopID[d] = i
      BY <1>1 DEF ServiceInv, RunsHaveOwners, UncountedBy, Winner, NotUncountedYet
    <3> HIDE DEF Stopped
    <3> QED BY <3>1, <3>2, <3>3, ServiceCountsFinite, CountByMap
  <2>3. ActiveRunIDs = Started \ Stopped
    BY <1>1 DEF ServiceInv, RunsHaveOwners, ActiveRunIDs, Terminal, Store!Terminal,
       Store!Exists
  <2>4. Started \cap Stopped = Stopped OBVIOUS
  <2>5. Cardinality(ActiveRunIDs) = Cardinality(Started) - Cardinality(Stopped)
    <3> HIDE DEF Started, Stopped
    <3>1. Cardinality(Started \ Stopped)
          = Cardinality(Started) - Cardinality(Started \cap Stopped)
      BY <2>1, FS_Difference
    <3> QED BY <2>3, <2>4, <3>1
  <2> HIDE DEF Started
  <2> QED BY <1>1, <2>1, <2>2, <2>5, ServiceCountsFinite
       DEF ServiceInv, GaugeAccounting
<1>2. ServiceInv => GaugeExact BY <1>1 DEF GaugeExact
<1> QED BY <1>2, ServiceInvariance, PTL

-----------------------------------------------------------------------------
\* The handlers drive runs only through legal operations of the store: what is
\* proved of RunStore holds of the runs of the service.
THEOREM UsesStore == Spec => StoreSpec
<1>1. Init => Store!Init BY DEF Init
<1>2. ServiceInv /\ [Next]_vars => [Store!Next]_(Store!vars)
  <2> SUFFICES ASSUME ServiceInv, [Next]_vars PROVE [Store!Next]_(Store!vars)
    OBVIOUS
  <2> DEFINE Same == UNCHANGED storeVars
  <2>1. ASSUME NEW c \in Creator, CreateStep(c) PROVE Same \/ Store!Next
    BY <2>1 DEF CreateStep, CallCreate, CreateRejected, CreateStarting,
       CreateConflict, CountStarted, Store!Next, ServiceInv, RunsHaveOwners
  <2>2. ASSUME NEW d \in Stopper, StopStep(d) PROVE Same \/ Store!Next
    <3>1. CASE MarkStopped(d)
      BY <3>1 DEF MarkStopped, Store!Next, Store!Statuses, ServiceInv, RunsHaveOwners
    <3> QED BY <2>2, <3>1 DEF StopStep, CallStop, LookUp, CheckTerminal,
         MarkRefused, CountStopped, CloseStreams
  <2>3. ASSUME NEW s \in Subscriber, EventsStep(s) PROVE Same
    BY <2>3 DEF EventsStep, CallEvents, Stream, SeeClosed, HangUp, Leave
  <2>4. ASSUME UNCHANGED vars PROVE Same BY <2>4 DEF vars
  <2>5. ASSUME Same PROVE UNCHANGED Store!vars BY <2>5 DEF storeVars, Store!vars
  <2> QED BY <2>1, <2>2, <2>3, <2>4, <2>5 DEF Next, Quiet
<1> QED BY <1>1, <1>2, ServiceInvariance, PTL DEF Spec, StoreSpec, Store!Spec

\* So no handler brings a run out of a terminal status.
THEOREM StoppedIsFinal == Spec => Store!TerminalFinal
BY UsesStore, TerminalIsFinal, PTL DEF StoreSpec

\* The answer to a DELETE comes after every stream its CloseRun found has been
\* cut off, however streams begin and end meanwhile.
THEOREM StopCorrect == Spec => StopCutsStreams
<1>1. ASSUME ServiceInv, Next, NEW d \in Stopper,
             stopper[d] = "counted", stopper'[d] = "stopped"
      PROVE  /\ subs'[stopID[d]] = {}
             /\ \A s \in Subscriber :
                   reader[s] = "streaming" /\ topic[s] = stopID[d] =>
                       chan'[s] = "closed"
  <2>1. CloseStreams(d)
    <3>1. ASSUME NEW c \in Creator, CreateStep(c) PROVE FALSE
      BY <1>1, <3>1 DEF CreateStep, CallCreate, CreateRejected, CreateStarting,
         CreateConflict, CountStarted, stopVars
    <3>2. ASSUME NEW e \in Stopper, StopStep(e) PROVE CloseStreams(d)
      BY <1>1, <3>2 DEF StopStep, CallStop, LookUp, CheckTerminal, MarkStopped,
         MarkRefused, CountStopped, CloseStreams, ServiceInv, TypeOK
    <3>3. ASSUME NEW s \in Subscriber, EventsStep(s) PROVE FALSE
      BY <1>1, <3>3 DEF EventsStep, CallEvents, Stream, SeeClosed, HangUp, Leave,
         stopVars
    <3>4. ~Quiet BY <1>1 DEF Quiet, vars, stopVars
    <3> QED BY <1>1, <3>1, <3>2, <3>3, <3>4 DEF Next
  <2>2. stopID[d] \in RunID BY <1>1 DEF ServiceInv, RunsHaveOwners
  <2>3. /\ chan' = [s \in Subscriber |->
                      IF s \in subs[stopID[d]] THEN "closed" ELSE chan[s]]
        /\ subs' = [subs EXCEPT ![stopID[d]] = {}]
    BY <2>1 DEF CloseStreams, Broker!CloseRun
  <2> QED BY <1>1, <2>2, <2>3 DEF ServiceInv, TypeOK, StreamsListed
<1>2. ServiceInv /\ [Next]_vars =>
        [\A d \in Stopper : stopper[d] = "counted" /\ stopper'[d] = "stopped" =>
            /\ subs'[stopID[d]] = {}
            /\ \A s \in Subscriber :
                  reader[s] = "streaming" /\ topic[s] = stopID[d] =>
                      chan'[s] = "closed"]_vars
  BY <1>1
<1> QED BY <1>2, ServiceInvariance, PTL DEF Spec, StopCutsStreams
=============================================================================
