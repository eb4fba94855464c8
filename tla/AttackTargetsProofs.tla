------------------------- MODULE AttackTargetsProofs -------------------------
(***************************************************************************)
(* Proofs about AttackTargets, for any runs, any number of vegeta workers   *)
(* and of requests: each request carries what it should exactly once, dedup *)
(* keys are not reused, an attack of a run names the run's label, and a      *)
(* receiver reads back the label and the trace.                             *)
(***************************************************************************)
EXTENDS AttackTargets, SequenceTheorems, WellFoundedInduction, TLAPS

\* The orders in which a map can be ranged over are sequences of its entries.
LEMMA OrdersAreSequences ==
    ASSUME NEW S, NEW s \in Orders(S)
    PROVE  s \in Seq(S)
<1>1. PICK n \in 0 .. 2 : s \in [1 .. n -> S] BY DEF Orders
<1> QED BY <1>1, SeqDef

LEMMA BaggageIsSequence == ClientBaggage \subseteq Seq(Entry)
<1> SUFFICES ASSUME NEW b \in ClientBaggage PROVE b \in Seq(Entry)
  OBVIOUS
<1>1. CASE b = << >> BY <1>1
<1>2. ASSUME NEW key \in {"vendor", TraceKey, LabelKey},
             b = <<(<<key, "theirs">>)>>
      PROVE  b \in Seq(Entry)
  <2>1. <<key, "theirs">> \in Entry BY DEF Entry
  <2> QED BY <1>2, <2>1
<1> QED BY <1>1, <1>2 DEF ClientBaggage

LEMMA TypePreserved ==
    ASSUME TypeOK, WorkersOwn, RunLinked, [Next]_vars
    PROVE  TypeOK'
<1> USE TargetsAssumption DEF TypeOK, targetVars, Absent
<1>1. ASSUME NEW r \in Run, CreateRun(r) PROVE TypeOK'
  BY <1>1 DEF CreateRun, ResolveWorkflowLabel, Text
<1>2. CASE Decode BY <1>2 DEF Decode, Config, Text
<1>3. CASE LinkRun
  <2>1. CASE UNCHANGED cfg BY <1>3, <2>1 DEF LinkRun
  <2>2. CASE cfg.runRef # Absent /\ runs[cfg.runRef] # None /\ cfg' = Inherited(cfg)
    <3>1. runs[cfg.runRef] \in
              [label : Text, trace : Text \cup {Absent}, accepted : BOOLEAN]
      BY <2>2
    <3> QED BY <1>3, <2>2, <3>1 DEF LinkRun, Inherited
  <2> QED BY <1>3, <2>1, <2>2 DEF LinkRun
<1>4. CASE LaunchAttack
  <2>1. cfg.baggage \in Seq(Entry) BY BaggageIsSequence
  <2> QED BY <1>4, <2>1 DEF LaunchAttack, Request
<1>5. CASE RejectAttack BY <1>5 DEF RejectAttack
<1>6. ASSUME NEW w \in Worker, CopyBase(w) PROVE TypeOK'
  BY <1>6 DEF CopyBase
<1>7. ASSUME NEW w \in Worker, Transform(w) PROVE TypeOK'
  <2>1. Bypassed(headers[holds[w]], Key) \in Request
    <3>1. OwnBaggage \in Seq(Entry)
      <4>1. <<"dedup", "key">> \in Entry BY DEF Entry
      <4> QED BY <4>1, BaggageIsSequence DEF OwnBaggage
    <3> QED BY <3>1 DEF Bypassed, Key, Request
  <2> QED BY <1>7, <2>1 DEF Transform
<1>8. ASSUME NEW w \in Worker, TargeterError(w) PROVE TypeOK'
  BY <1>8 DEF TargeterError
<1>9. ASSUME NEW w \in Worker, Inject(w) PROVE TypeOK'
  <2>1. PICK s \in Orders(Entries(cfg)) :
          headers' = [headers EXCEPT ![holds[w]] =
                          [baggage |-> @.baggage \o s, keys |-> @.keys]]
    BY <1>9 DEF Inject
  <2>2. s \in Seq(Entry)
    <3>1. Entries(cfg) \subseteq Entry
      BY DEF Entries, Entry
    <3> QED BY <3>1, OrdersAreSequences, SeqDef
  <2>3. headers[holds[w]].baggage \o s \in Seq(Entry)
    BY <2>2 DEF Request
  <2>4. headers' \in [Worker \cup {None} -> Request]
    BY <2>1, <2>3 DEF Request
  <2>5. sent' \in Seq(Request)
    <3>1. headers'[holds[w]] \in Request BY <2>4
    <3> QED BY <1>9, <3>1 DEF Inject
  <2> QED BY <1>9, <2>4, <2>5 DEF Inject
<1>10. CASE UNCHANGED vars BY <1>10 DEF vars
<1> QED BY <1>1, <1>2, <1>3, <1>4, <1>5, <1>6, <1>7, <1>8, <1>9, <1>10 DEF Next

\* The base header is written by LaunchAttack alone.
LEMMA OwnPreserved ==
    ASSUME IInv, TypeOK', [Next]_vars
    PROVE  WorkersOwn'
<1> USE TargetsAssumption DEF IInv, TypeOK, WorkersOwn, targetVars
<1>1. ASSUME NEW r \in Run, CreateRun(r) PROVE WorkersOwn'
  BY <1>1 DEF CreateRun, OwnBaggage
<1>2. CASE Decode BY <1>2 DEF Decode
<1>3. CASE LinkRun BY <1>3 DEF LinkRun
<1>4. CASE LaunchAttack BY <1>4 DEF LaunchAttack, Blank
<1>5. CASE RejectAttack BY <1>5 DEF RejectAttack
<1>6. ASSUME NEW w \in Worker, CopyBase(w) PROVE WorkersOwn'
  BY <1>6 DEF CopyBase, OwnBaggage
<1>7. ASSUME NEW w \in Worker, wpc[w] \in {"copied", "bypassed"}, cfg' = cfg
      PROVE  /\ stage = "launched" /\ holds[w] = w
             /\ OwnBaggage' = OwnBaggage
  BY <1>7 DEF OwnBaggage
<1>8. ASSUME NEW w \in Worker, Transform(w) PROVE WorkersOwn'
  <2>1. /\ UNCHANGED <<stage, cfg, sent>> /\ drawn' = drawn + 1
        /\ cfg.strategy # "none" /\ wpc[w] = "copied"
    BY <1>8 DEF Transform
  <2>2. stage = "launched" /\ holds[w] = w /\ OwnBaggage' = OwnBaggage
    BY <1>7, <2>1
  <2>3. /\ headers'[w] = Bypassed(headers[None], Key)
        /\ holds' = holds
        /\ \A x \in (Worker \cup {None}) \ {w} : headers'[x] = headers[x]
    BY <1>8, <2>1, <2>2 DEF Transform
  <2>4. /\ headers'[w].baggage = OwnBaggage
        /\ headers'[w].keys = {drawn'}
    BY <2>1, <2>2, <2>3 DEF Bypassed, OwnBaggage, Key
  <2>5. drawn' \in 1 .. drawn' /\ 1 .. drawn \subseteq 1 .. drawn' BY <2>1
  <2>6. wpc'[w] = "bypassed" /\ \A v \in Worker \ {w} : wpc'[v] = wpc[v]
    BY <1>8 DEF Transform
  <2>7. \A v \in Worker :
          wpc'[v] = "copied" => holds'[v] = v /\ headers'[v] = headers'[None]
    BY <2>3, <2>6
  <2>8. \A v \in Worker :
          wpc'[v] = "bypassed" =>
            /\ holds'[v] = v /\ cfg'.strategy # "none"
            /\ headers'[v].baggage = OwnBaggage'
            /\ \E k \in 1 .. drawn' : headers'[v].keys = {k}
    BY <2>1, <2>2, <2>3, <2>4, <2>5, <2>6
  <2> QED BY <2>1, <2>2, <2>3, <2>7, <2>8
<1>9. ASSUME NEW w \in Worker, TargeterError(w) \/ Inject(w) PROVE WorkersOwn'
  <2>1. /\ UNCHANGED <<stage, cfg, drawn, holds>>
        /\ wpc[w] \in {"copied", "bypassed"}
        /\ wpc'[w] \in {"idle", "failed"}
        /\ \A v \in Worker \ {w} : wpc'[v] = wpc[v]
    BY <1>9 DEF TargeterError, Inject
  <2>2. stage = "launched" /\ holds[w] = w /\ OwnBaggage' = OwnBaggage
    BY <1>7, <2>1
  <2>3. \A x \in (Worker \cup {None}) \ {w} : headers'[x] = headers[x]
    BY <1>9, <2>2 DEF TargeterError, Inject
  <2>4. \A v \in Worker :
          wpc'[v] = "copied" => holds'[v] = v /\ headers'[v] = headers'[None]
    BY <2>1, <2>3
  <2>5. ASSUME NEW v \in Worker, wpc'[v] = "bypassed"
        PROVE  /\ holds'[v] = v /\ cfg'.strategy # "none"
               /\ headers'[v].baggage = OwnBaggage'
               /\ \E k \in 1 .. drawn' : headers'[v].keys = {k}
    <3>1. v # w /\ wpc[v] = "bypassed" /\ headers'[v] = headers[v]
      BY <2>1, <2>3, <2>5
    <3>2. /\ holds[v] = v /\ cfg.strategy # "none"
          /\ headers[v].baggage = OwnBaggage
          /\ \E k \in 1 .. drawn : headers[v].keys = {k}
      BY <3>1 DEF WorkersOwn
    <3> HIDE DEF IInv, TypeOK, WorkersOwn
    <3> QED BY <2>1, <2>2, <3>1, <3>2
  <2> QED BY <2>1, <2>2, <2>3, <2>4, <2>5
<1>10. CASE UNCHANGED vars BY <1>10 DEF vars, OwnBaggage
<1> QED BY <1>1, <1>2, <1>3, <1>4, <1>5, <1>6, <1>7, <1>8, <1>9, <1>10 DEF Next

\* A key is drawn once and goes from the worker that drew it into one request.
LEMMA KeysPreserved ==
    ASSUME IInv, TypeOK', WorkersOwn', [Next]_vars
    PROVE  KeysApart' /\ KeysFresh'
<1> USE TargetsAssumption DEF IInv, TypeOK, targetVars
<1>1. ASSUME UNCHANGED <<sent, headers, drawn>>,
             cfg'.strategy = cfg.strategy \/ sent = << >>,
             \A w \in Worker : wpc'[w] = "bypassed" => wpc[w] = "bypassed"
      PROVE  KeysApart' /\ KeysFresh'
  BY <1>1 DEF KeysApart, KeysFresh
<1>2. ASSUME NEW r \in Run, CreateRun(r) PROVE KeysApart' /\ KeysFresh'
  BY <1>1, <1>2 DEF CreateRun
<1>3. CASE Decode \/ LinkRun \/ RejectAttack
  BY <1>1, <1>3 DEF Decode, LinkRun, RejectAttack, WorkersOwn
<1>4. CASE LaunchAttack
  BY <1>4 DEF LaunchAttack, WorkersOwn, KeysApart, KeysFresh
<1>5. ASSUME NEW w \in Worker, CopyBase(w) PROVE KeysApart' /\ KeysFresh'
  BY <1>5 DEF CopyBase, KeysApart, KeysFresh
<1>6. ASSUME NEW w \in Worker, Transform(w) PROVE KeysApart' /\ KeysFresh'
  <2>1. /\ headers'[w].keys = {drawn + 1}
        /\ \A v \in Worker \ {w} : headers'[v] = headers[v] /\ wpc'[v] = wpc[v]
        /\ UNCHANGED <<sent, cfg>> /\ drawn' = drawn + 1
    BY <1>6 DEF Transform, Bypassed, Key
  <2>2. \A v \in Worker : wpc[v] = "bypassed" => headers[v].keys \subseteq 1 .. drawn
    BY DEF WorkersOwn
  <2>3. drawn + 1 \notin 1 .. drawn /\ 1 .. drawn \subseteq 1 .. drawn' BY <2>1
  <2> QED BY <2>1, <2>2, <2>3 DEF KeysApart, KeysFresh
<1>7. ASSUME NEW w \in Worker, TargeterError(w) PROVE KeysApart' /\ KeysFresh'
  BY <1>1, <1>7 DEF TargeterError
<1>8. ASSUME NEW w \in Worker, Inject(w) PROVE KeysApart' /\ KeysFresh'
  <2>1. /\ sent' = Append(sent, headers'[w]) /\ headers'[w].keys = headers[w].keys
        /\ \A v \in Worker \ {w} : headers'[v] = headers[v] /\ wpc'[v] = wpc[v]
        /\ wpc'[w] = "idle" /\ UNCHANGED <<cfg, drawn>>
    <3>1. holds[w] = w BY <1>8 DEF Inject, WorkersOwn
    <3> QED BY <1>8, <3>1 DEF Inject
  <2>2. /\ headers[w].keys \subseteq 1 .. drawn
        /\ headers[w].keys = {} <=> cfg.strategy = "none"
        /\ \A i \in DOMAIN sent : headers[w].keys \cap sent[i].keys = {}
        /\ \A v \in Worker \ {w} :
             wpc[v] = "bypassed" => headers[w].keys \cap headers[v].keys = {}
    <3>1. CASE cfg.strategy = "none"
      <4>1. wpc[w] = "copied" BY <1>8, <3>1 DEF Inject
      <4>2. stage = "launched" BY <4>1 DEF WorkersOwn
      <4>3. headers[w].keys = {} BY <4>1, <4>2 DEF WorkersOwn
      <4> QED BY <3>1, <4>3
    <3>2. CASE cfg.strategy # "none"
      <4>1. wpc[w] = "bypassed" BY <1>8, <3>2 DEF Inject
      <4>2. PICK k \in 1 .. drawn : headers[w].keys = {k} BY <4>1 DEF WorkersOwn
      <4> QED BY <3>2, <4>1, <4>2 DEF KeysApart
    <3> QED BY <3>1, <3>2
  <2>3. /\ DOMAIN sent' = DOMAIN sent \cup {Len(sent) + 1}
        /\ sent'[Len(sent) + 1] = headers'[w]
        /\ \A i \in DOMAIN sent : sent'[i] = sent[i]
        /\ Len(sent) + 1 \notin DOMAIN sent
    BY <2>1
  <2>4. KeysApart'
    <3>1. \A i \in DOMAIN sent' : sent'[i].keys \subseteq 1 .. drawn'
      BY <2>1, <2>2, <2>3 DEF KeysApart
    <3>2. ASSUME NEW v \in Worker, wpc'[v] = "bypassed"
          PROVE  /\ \A i \in DOMAIN sent' : headers'[v].keys \cap sent'[i].keys = {}
                 /\ \A u \in Worker \ {v} :
                      wpc'[u] = "bypassed" => headers'[v].keys \cap headers'[u].keys = {}
      BY <2>1, <2>2, <2>3, <3>2 DEF KeysApart
    <3> QED BY <3>1, <3>2 DEF KeysApart
  <2>5. KeysFresh' BY <2>1, <2>2, <2>3 DEF KeysFresh
  <2> QED BY <2>4, <2>5
<1>9. CASE UNCHANGED vars BY <1>1, <1>9 DEF vars
<1> QED BY <1>2, <1>3, <1>4, <1>5, <1>6, <1>7, <1>8, <1>9 DEF Next

\* A worker adds the configuration's entries to baggage nobody else has touched.
LEMMA BaggagePreserved ==
    ASSUME IInv, TypeOK', [Next]_vars
    PROVE  BaggageExact'
<1> USE TargetsAssumption DEF IInv, TypeOK, targetVars
<1>1. CASE sent' = << >> BY <1>1 DEF BaggageExact
<1>2. ASSUME UNCHANGED <<sent, cfg>> PROVE BaggageExact'
  BY <1>2 DEF BaggageExact, OwnBaggage
<1>3. ASSUME NEW w \in Worker, Inject(w) PROVE BaggageExact'
  <2>1. PICK s \in Orders(Entries(cfg)) :
          headers' = [headers EXCEPT ![holds[w]] =
                          [baggage |-> @.baggage \o s, keys |-> @.keys]]
    BY <1>3 DEF Inject
  <2>2. headers[w].baggage = OwnBaggage /\ holds[w] = w
    BY <1>3 DEF Inject, WorkersOwn, OwnBaggage
  <2>3. headers'[w].baggage = OwnBaggage \o s BY <2>1, <2>2 DEF Request
  <2>4. cfg' = cfg /\ OwnBaggage' = OwnBaggage BY <1>3 DEF Inject, OwnBaggage
  <2>5. /\ DOMAIN sent' = DOMAIN sent \cup {Len(sent) + 1}
        /\ sent'[Len(sent) + 1] = headers'[w]
        /\ \A i \in DOMAIN sent : sent'[i] = sent[i]
    BY <1>3, <2>2 DEF Inject
  <2>6. \A i \in DOMAIN sent :
          \E t \in Orders(Entries(cfg)) : sent[i].baggage = OwnBaggage \o t
    BY DEF BaggageExact
  <2>7. ASSUME NEW i \in DOMAIN sent'
        PROVE  \E t \in Orders(Entries(cfg)) : sent'[i].baggage = OwnBaggage \o t
    <3>1. CASE i \in DOMAIN sent BY <2>5, <2>6, <3>1
    <3>2. CASE i = Len(sent) + 1 BY <2>3, <2>5, <3>2
    <3> QED BY <2>5, <3>1, <3>2
  <2> QED BY <2>4, <2>7 DEF BaggageExact
<1> QED
  BY <1>1, <1>2, <1>3
  DEF Next, vars, CreateRun, Decode, LinkRun, LaunchAttack, RejectAttack, CopyBase,
      Transform, TargeterError, WorkersOwn

\* A run is there before an attack is linked to it and stays as it is.
LEMMA RunsPreserved ==
    ASSUME IInv, TypeOK', [Next]_vars
    PROVE  RunLinked' /\ RunsTraced'
<1> USE TargetsAssumption DEF IInv, TypeOK, RunLinked, RunsTraced
<1>1. ASSUME NEW r \in Run, CreateRun(r) PROVE RunLinked' /\ RunsTraced'
  BY <1>1 DEF CreateRun, Text
<1>2. CASE LinkRun
  <2>1. CASE cfg.runRef = Absent \/ runs[cfg.runRef] = None
    BY <1>2, <2>1 DEF LinkRun
  <2>2. CASE cfg.runRef # Absent /\ runs[cfg.runRef] # None /\ cfg' = Inherited(cfg)
    <3>1. runs[cfg.runRef] \in
              [label : Text, trace : Text \cup {Absent}, accepted : BOOLEAN]
      BY <2>2
    <3>2. /\ cfg'.runRef = cfg.runRef
          /\ cfg'.trace = IF cfg.trace = Absent THEN runs[cfg.runRef].trace ELSE cfg.trace
          /\ cfg'.label = IF cfg.label = Absent THEN runs[cfg.runRef].label ELSE cfg.label
      BY <2>2 DEF Inherited
    <3> QED BY <1>2, <2>2, <3>1, <3>2 DEF LinkRun
  <2> QED BY <1>2, <2>1, <2>2 DEF LinkRun
<1>3. CASE Decode \/ LaunchAttack \/ RejectAttack
  BY <1>3 DEF Decode, LaunchAttack, RejectAttack
<1>4. ASSUME UNCHANGED <<runs, stage, cfg>> PROVE RunLinked' /\ RunsTraced'
  BY <1>4
<1> QED
  BY <1>1, <1>2, <1>3, <1>4
  DEF Next, vars, CopyBase, Transform, TargeterError, Inject

\* Validate looks at the label and the trace after they have been inherited, and
\* nothing changes them once the attack is launched.
LEMMA ValidPreserved ==
    ASSUME IInv, [Next]_vars
    PROVE  LaunchedValid'
<1> USE DEF IInv, TypeOK, LaunchedValid
<1>1. CASE LaunchAttack BY <1>1 DEF LaunchAttack, Valid
<1>2. CASE LinkRun \/ Decode \/ RejectAttack
  BY <1>2 DEF LinkRun, Decode, RejectAttack
<1>3. CASE UNCHANGED <<stage, cfg>> BY <1>3
<1> QED
  BY <1>1, <1>2, <1>3
  DEF Next, vars, CreateRun, CopyBase, Transform, TargeterError, Inject

\* The invariant holds for any constants.
THEOREM TargetsInvariance == Spec => []IInv
<1>1. Init => IInv
  <2> SUFFICES ASSUME Init PROVE IInv OBVIOUS
  <2> USE TargetsAssumption DEF Init, NoConfig, Blank
  <2>1. TypeOK
    BY DEF TypeOK, Request, ClientBaggage
  <2>2. WorkersOwn /\ KeysApart /\ RunLinked /\ RunsTraced
    BY DEF WorkersOwn, KeysApart, RunLinked, RunsTraced
  <2>3. BaggageExact /\ KeysFresh /\ LaunchedValid
    BY DEF BaggageExact, KeysFresh, LaunchedValid
  <2> QED BY <2>1, <2>2, <2>3 DEF IInv
<1>2. IInv /\ [Next]_vars => IInv'
  <2> SUFFICES ASSUME IInv, [Next]_vars PROVE IInv' OBVIOUS
  <2>1. TypeOK' BY TypePreserved DEF IInv
  <2>2. WorkersOwn' BY <2>1, OwnPreserved
  <2> QED BY <2>1, <2>2, KeysPreserved, BaggagePreserved, RunsPreserved, ValidPreserved
       DEF IInv
<1> QED BY <1>1, <1>2, PTL DEF Spec

\* However many workers make requests from the one base header, each request
\* carries its own baggage and each configured entry exactly once.
THEOREM BaggageCorrect == Spec => []BaggageExact
BY TargetsInvariance, PTL DEF IInv

\* No two requests of an attack share a dedup key.
THEOREM KeysCorrect == Spec => []KeysFresh
BY TargetsInvariance, PTL DEF IInv

\* A launched attack of a run carries a label, and a trace if the run has one.
THEOREM CorrelationCorrect == Spec => []RunCorrelated
<1>1. IInv => RunCorrelated BY DEF IInv, RunLinked, RunCorrelated
<1> QED BY <1>1, TargetsInvariance, PTL

-----------------------------------------------------------------------------
(* What a receiver makes of a request.                                      *)

\* A set of numbers has a least one.
LEMMA LeastNat ==
    ASSUME NEW T \in SUBSET Nat, T # {}
    PROVE  \E x \in T : \A y \in T : x <= y
<1>1. PICK x \in T : \A y \in T : ~(<<y, x>> \in OpToRel(<, Nat))
  BY NatLessThanWellFounded, WFMin
<1>2. \A y \in T : ~(y < x) BY <1>1 DEF OpToRel
<1> QED BY <1>2

\* Extract returns the value of the first entry that has the key.
LEMMA ExtractFirst ==
    ASSUME NEW b \in Seq(Entry), NEW key, NEW i \in DOMAIN b, b[i][1] = key,
           \A j \in DOMAIN b : b[j][1] = key => i <= j
    PROVE  Extract(key, b) = IF b[i][2] \in Unsafe THEN "garbled" ELSE b[i][2]
<1> DEFINE at == {j \in DOMAIN b : b[j][1] = key}
           first == CHOOSE j \in at : \A k \in at : j <= k
<1>1. i \in at /\ at \subseteq Nat /\ \A k \in at : i <= k OBVIOUS
<1> HIDE DEF at
<1>2. first \in at /\ \A k \in at : first <= k BY <1>1
<1>3. first = i BY <1>1, <1>2
<1>4. at # {} BY <1>1
<1> QED BY <1>3, <1>4 DEF Extract, at

LEMMA ExtractNothing ==
    ASSUME NEW b, NEW key, \A j \in DOMAIN b : b[j][1] # key
    PROVE  Extract(key, b) = Absent
<1> DEFINE at == {j \in DOMAIN b : b[j][1] = key}
<1>1. at = {} OBVIOUS
<1> QED BY <1>1 DEF Extract

\* When all entries with the key have one value, the receiver reads that one.
LEMMA ExtractOnly ==
    ASSUME NEW b \in Seq(Entry), NEW key, NEW v, v \notin Unsafe,
           \E i \in DOMAIN b : b[i][1] = key,
           \A i \in DOMAIN b : b[i][1] = key => b[i][2] = v
    PROVE  Extract(key, b) = v
<1> DEFINE at == {j \in DOMAIN b : b[j][1] = key}
<1>0. at \in SUBSET Nat /\ at # {} OBVIOUS
<1> HIDE DEF at
<1>1. PICK i \in at : \A k \in at : i <= k BY <1>0, LeastNat
<1> USE DEF at
<1>2. Extract(key, b) = IF b[i][2] \in Unsafe THEN "garbled" ELSE b[i][2]
  BY <1>1, ExtractFirst
<1> QED BY <1>1, <1>2

\* An attack's own baggage is at most one entry, whose value is not empty.
LEMMA OwnBaggageShape ==
    ASSUME TypeOK
    PROVE  \/ OwnBaggage = << >>
           \/ \E x \in Entry :
                /\ x[2] # Absent
                /\ OwnBaggage \in Seq(Entry) /\ Len(OwnBaggage) = 1 /\ OwnBaggage[1] = x
<1>1. <<"dedup", "key">> \in Entry BY DEF Entry
<1>2. \A key \in {"vendor", TraceKey, LabelKey} : <<key, "theirs">> \in Entry
  BY DEF Entry
<1>3. cfg.baggage \in ClientBaggage BY DEF TypeOK
<1>4. CASE cfg.baggage = << >> BY <1>1, <1>4 DEF OwnBaggage, Absent
<1>6. ASSUME NEW x \in Entry
      PROVE  <<x>> \in Seq(Entry) /\ Len(<<x>>) = 1 /\ <<x>>[1] = x
  OBVIOUS
<1>5. ASSUME NEW key \in {"vendor", TraceKey, LabelKey},
             cfg.baggage = <<(<<key, "theirs">>)>>
      PROVE  \E x \in Entry : x[2] # Absent /\ OwnBaggage = <<x>>
  BY <1>1, <1>2, <1>5 DEF OwnBaggage, Absent
<1> QED BY <1>3, <1>4, <1>5, <1>6 DEF ClientBaggage

LEMMA ConcatAt ==
    ASSUME NEW S, NEW s \in Seq(S), NEW t \in Seq(S)
    PROVE  /\ s \o t \in Seq(S) /\ DOMAIN (s \o t) = 1 .. Len(s) + Len(t)
           /\ \A i \in 1 .. Len(s) : (s \o t)[i] = s[i]
           /\ \A i \in 1 .. Len(t) : (s \o t)[Len(s) + i] = t[i]
OBVIOUS

\* What follows an entry is read only when the entry has another key.
LEMMA ReadAfterOwn ==
    ASSUME NEW own \in Seq(Entry), Len(own) = 1, NEW x \in Entry, own[1] = x,
           NEW s \in Seq(Entry), NEW key
    PROVE  Extract(key, own \o s) =
               IF x[1] = key THEN Extract(key, own) ELSE Extract(key, s)
<1> DEFINE b == own \o s
<1>0. /\ b \in Seq(Entry) /\ DOMAIN b = 1 .. Len(own) + Len(s)
      /\ \A i \in 1 .. Len(own) : b[i] = own[i]
      /\ \A i \in 1 .. Len(s) : b[Len(own) + i] = s[i]
  BY ConcatAt
<1> HIDE DEF b
<1>1. Len(s) \in Nat /\ DOMAIN s = 1 .. Len(s) /\ DOMAIN own = {1}
  OBVIOUS
<1>2. /\ DOMAIN b = 1 .. Len(s) + 1 /\ b[1] = x
      /\ \A j \in 1 .. Len(s) : b[j + 1] = s[j]
      /\ \A j \in DOMAIN b : j # 1 => j - 1 \in 1 .. Len(s) /\ b[j] = s[j - 1]
      /\ DOMAIN s = 1 .. Len(s) /\ Len(s) \in Nat
  <2>1. /\ DOMAIN b = 1 .. 1 + Len(s) /\ b[1] = x
        /\ \A j \in 1 .. Len(s) : b[1 + j] = s[j]
    BY <1>0, <1>1
  <2>2. ASSUME NEW j \in DOMAIN b, j # 1 PROVE j - 1 \in 1 .. Len(s) /\ b[j] = s[j - 1]
    <3>1. j - 1 \in 1 .. Len(s) /\ 1 + (j - 1) = j BY <1>1, <2>1, <2>2
    <3>2. b[1 + (j - 1)] = s[j - 1] BY <2>1, <3>1
    <3> QED BY <3>1, <3>2
  <2> QED BY <1>1, <2>1, <2>2
<1>6. b \in Seq(Entry) BY <1>0
<1>3. CASE x[1] = key
  <2>1. Extract(key, b) = IF x[2] \in Unsafe THEN "garbled" ELSE x[2]
    <3>1. 1 \in DOMAIN b /\ b[1][1] = key /\ \A j \in DOMAIN b : 1 <= j
      BY <1>2, <1>3
    <3>2. Extract(key, b) = IF b[1][2] \in Unsafe THEN "garbled" ELSE b[1][2]
      BY <1>6, <3>1, ExtractFirst
    <3> QED BY <1>2, <3>2
  <2>2. Extract(key, own) = IF x[2] \in Unsafe THEN "garbled" ELSE x[2]
    <3>1. 1 \in DOMAIN own /\ own[1][1] = key /\ \A j \in DOMAIN own : 1 <= j
      BY <1>1, <1>3
    <3>2. Extract(key, own) = IF own[1][2] \in Unsafe THEN "garbled" ELSE own[1][2]
      BY <3>1, ExtractFirst
    <3> QED BY <3>2
  <2> QED BY <1>3, <2>1, <2>2 DEF b
<1>4. CASE x[1] # key /\ \E j \in DOMAIN s : s[j][1] = key
  <2> DEFINE at == {j \in DOMAIN s : s[j][1] = key}
  <2>1. at \in SUBSET Nat /\ at # {} BY <1>2, <1>4
  <2> HIDE DEF at
  <2>2. PICK i \in at : \A k \in at : i <= k BY <2>1, LeastNat
  <2>3. /\ i \in DOMAIN s /\ i \in Nat /\ s[i][1] = key
        /\ \A k \in DOMAIN s : s[k][1] = key => i <= k
    BY <2>1, <2>2 DEF at
  <2> DEFINE next == i + 1
  <2>4. Extract(key, s) = IF s[i][2] \in Unsafe THEN "garbled" ELSE s[i][2]
    BY <2>3, ExtractFirst
  <2>5. next \in DOMAIN b /\ b[next] = s[i] BY <1>2, <2>3
  <2>6. \A k \in DOMAIN b : b[k][1] = key => next <= k
    <3>1. ASSUME NEW k \in DOMAIN b, b[k][1] = key PROVE i <= k - 1 /\ k \in Nat
      BY <1>2, <1>4, <2>3, <3>1
    <3> QED BY <2>3, <3>1
  <2> HIDE DEF next
  <2>7. Extract(key, b) = IF b[next][2] \in Unsafe THEN "garbled" ELSE b[next][2]
    <3>1. b[next][1] = key BY <2>3, <2>5
    <3> QED BY <1>6, <2>5, <2>6, <3>1, ExtractFirst
  <2> QED BY <1>4, <2>4, <2>5, <2>7 DEF b
<1>5. CASE x[1] # key /\ \A j \in DOMAIN s : s[j][1] # key
  <2>1. \A k \in DOMAIN b : b[k][1] # key BY <1>2, <1>5
  <2>2. Extract(key, s) = Absent /\ Extract(key, b) = Absent
    BY <1>5, <2>1, ExtractNothing
  <2> QED BY <1>5, <2>2 DEF b
<1> QED BY <1>3, <1>4, <1>5

\* In what is added there is one entry for each key that has a value.
LEMMA ReadAdded ==
    ASSUME IInv, NEW i \in DOMAIN sent, NEW s \in Orders(Entries(cfg)),
           NEW e \in {<<TraceKey, cfg.trace>>, <<LabelKey, cfg.label>>}
    PROVE  s \in Seq(Entry) /\ Extract(e[1], s) = e[2]
<1>1. e[2] \notin Unsafe BY DEF IInv, TypeOK, WorkersOwn, LaunchedValid
<1>2. Entries(cfg) \subseteq Entry
  BY TargetsAssumption DEF Entries, Entry, IInv, TypeOK
<1>3. /\ s \in Seq(Entries(cfg))
      /\ \A x \in Entries(cfg) : \E j \in DOMAIN s : s[j] = x
  BY OrdersAreSequences DEF Orders
<1>4. s \in Seq(Entry) BY <1>2, <1>3
<1>5. \A j \in DOMAIN s : s[j] \in Entries(cfg) BY <1>3
<1>6. \A j \in DOMAIN s : s[j][1] = e[1] => s[j][2] = e[2] /\ e[2] # Absent
  BY <1>5 DEF Entries, TraceKey, LabelKey
<1>7. CASE e[2] = Absent BY <1>4, <1>6, <1>7, ExtractNothing
<1>8. CASE e[2] # Absent
  <2>1. e \in Entries(cfg) BY <1>8 DEF Entries
  <2> QED BY <1>1, <1>3, <1>4, <1>6, <2>1, ExtractOnly
<1> QED BY <1>4, <1>7, <1>8

\* Whoever gets a request reads the attack's label and trace from it, unless the
\* client's own baggage names one, which then comes first.
THEOREM ReceiversRead == Spec => []ReceiverReads
<1>1. IInv => ReceiverReads
  <2> SUFFICES ASSUME IInv, NEW i \in DOMAIN sent,
                      NEW e \in {<<TraceKey, cfg.trace>>, <<LabelKey, cfg.label>>}
               PROVE  Extract(e[1], sent[i].baggage) =
                        IF Extract(e[1], OwnBaggage) # Absent
                        THEN Extract(e[1], OwnBaggage) ELSE e[2]
    BY DEF ReceiverReads
  <2>1. PICK s \in Orders(Entries(cfg)) : sent[i].baggage = OwnBaggage \o s
    BY DEF IInv, BaggageExact
  <2>2. s \in Seq(Entry) /\ Extract(e[1], s) = e[2] BY ReadAdded
  <2>3. CASE OwnBaggage = << >>
    <3>1. sent[i].baggage = s BY <2>1, <2>2, <2>3
    <3>2. Extract(e[1], OwnBaggage) = Absent BY <2>3, ExtractNothing
    <3> QED BY <2>2, <3>1, <3>2
  <2>4. ASSUME NEW x \in Entry, x[2] # Absent, OwnBaggage \in Seq(Entry),
               Len(OwnBaggage) = 1, OwnBaggage[1] = x
        PROVE  Extract(e[1], sent[i].baggage) =
                 IF Extract(e[1], OwnBaggage) # Absent
                 THEN Extract(e[1], OwnBaggage) ELSE e[2]
    <3>1. DOMAIN OwnBaggage = {1} /\ \A j \in DOMAIN OwnBaggage : 1 <= j
      BY <2>4
    <3>2. Extract(e[1], OwnBaggage \o s) =
            IF x[1] = e[1] THEN Extract(e[1], OwnBaggage) ELSE Extract(e[1], s)
      BY <2>2, <2>4, ReadAfterOwn
    <3>3. CASE x[1] = e[1]
      <4>1. 1 \in DOMAIN OwnBaggage /\ OwnBaggage[1][1] = e[1]
        BY <2>4, <3>1, <3>3
      <4>2. Extract(e[1], OwnBaggage) =
              IF OwnBaggage[1][2] \in Unsafe THEN "garbled" ELSE OwnBaggage[1][2]
        BY <2>4, <3>1, <4>1, ExtractFirst
      <4>3. Extract(e[1], OwnBaggage) # Absent BY <2>4, <4>2 DEF Absent
      <4> QED BY <2>1, <3>2, <3>3, <4>3
    <3>4. CASE x[1] # e[1]
      <4>1. Extract(e[1], OwnBaggage) = Absent BY <2>4, <3>1, <3>4, ExtractNothing
      <4> QED BY <2>1, <2>2, <3>2, <3>4, <4>1
    <3> QED BY <3>3, <3>4
  <2> QED BY <2>3, <2>4, OwnBaggageShape DEF IInv
<1> QED BY <1>1, TargetsInvariance, PTL
=============================================================================
