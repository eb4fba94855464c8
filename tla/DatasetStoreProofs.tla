------------------------- MODULE DatasetStoreProofs -------------------------
(***************************************************************************)
(* Proofs about DatasetStore, for any schema, any number of uploads and     *)
(* handshakes, and uploads of any length.                                   *)
(***************************************************************************)
EXTENDS DatasetStore, FiniteSetTheorems, TLAPS

\* What an upload adds is a sequence of rows, and there is one at least.
LEMMA NewRowsType ==
    ASSUME NEW u \in Uploader, batch[u] \in Batch
    PROVE  /\ batch[u].pool \in Pool
           /\ batch[u].size \in Nat \ {0}
           /\ NewRows(u) \in Seq(Row)
           /\ Len(NewRows(u)) = batch[u].size
<1>1. /\ batch[u].pool \in Pool
      /\ batch[u].size \in 1..MaxBatch
      /\ batch[u].full \in BOOLEAN
  BY DEF Batch
<1>2. batch[u].size \in Nat \ {0}
  BY <1>1, DatasetAssumption
<1>3. [by |-> u, full |-> batch[u].full] \in Row
  BY <1>1 DEF Row
<1>4. NewRows(u) \in [1..batch[u].size -> Row]
  BY <1>3 DEF NewRows
<1> QED
  BY <1>1, <1>2, <1>4

\* Appending leaves the rows that are there in their places.
LEMMA AppendKeeps ==
    ASSUME NEW s \in Seq(Row), NEW t \in Seq(Row)
    PROVE  /\ s \o t \in Seq(Row)
           /\ Len(s \o t) = Len(s) + Len(t)
           /\ s # <<>> => s \o t # <<>> /\ (s \o t)[1] = s[1]
<1>1. s # <<>> => Len(s) >= 1
  OBVIOUS
<1> QED
  BY <1>1

LEMMA TypeStep ==
    ASSUME TypeOK, StatsExact, [Next]_vars
    PROVE  TypeOK'
<1> USE DEF TypeOK
<1>1. ASSUME StoreStep
      PROVE  TypeOK'
  BY <1>1 DEF StoreStep, Register, Expire, Delete, dataVars, uploadVars, checkVars
<1>2. ASSUME NEW u \in Uploader, UploadStep(u)
      PROVE  TypeOK'
  <2> USE DEF checkVars, dataVars, MoveTo, NextLine, UploadPC
  <2>1. CASE BeginUpload(u)
    BY <2>1 DEF BeginUpload
  <2>2. CASE ReadBatch(u)
    BY <2>2, DatasetAssumption DEF ReadBatch
  <2>3. CASE SkipLine(u)
    BY <2>3, DatasetAssumption DEF SkipLine
  <2>4. CASE ReadGarbage(u)
    BY <2>4 DEF ReadGarbage
  <2>5. CASE LockStore(u)
    BY <2>5 DEF LockStore
  <2>6. CASE CreatePool(u)
    <3>1. batch[u].pool \in Pool
      BY <2>6, NewRowsType DEF CreatePool, StatsExact, Adding
    <3> QED
      BY <2>6, <3>1 DEF CreatePool
  <2>7. CASE AppendRows(u)
    <3>1. batch[u] \in Batch
      BY <2>7 DEF AppendRows, StatsExact, Adding
    <3>2. rows[batch[u].pool] \o NewRows(u) \in Seq(Row)
      BY <3>1, NewRowsType, AppendKeeps
    <3> QED
      BY <2>7, <3>2 DEF AppendRows
  <2>8. CASE CountRows(u)
    <3>1. batch[u] \in Batch
      BY <2>8 DEF CountRows, StatsExact, Adding
    <3>2. batch[u].pool \in Pool /\ batch[u].size \in Nat
      BY <3>1, NewRowsType
    <3>3. Len(rows[batch[u].pool]) \in Nat
      BY <3>2
    <3>4. accepted[u][batch[u].pool] + batch[u].size \in Nat
      BY <3>2
    <3> QED
      BY <2>8, <3>2, <3>3, <3>4 DEF CountRows
  <2>9. CASE EndUpload(u)
    BY <2>9 DEF EndUpload
  <2> QED
    BY <1>2, <2>1, <2>2, <2>3, <2>4, <2>5, <2>6, <2>7, <2>8, <2>9
    DEF UploadStep, AddRowsStep
<1>3. ASSUME NEW v \in Validator, CheckStep(v)
      PROVE  TypeOK'
  <2> USE DEF uploadVars, dataVars, CheckPC
  <2>1. CASE BeginCheck(v)
    <3>1. CASE entry = "live"
      <4>1. {p \in Pool : rows[p] # <<>>} \in SUBSET Pool
        OBVIOUS
      <4>2. {p \in Pool : Satisfied(p)} \in SUBSET Pool
        OBVIOUS
      <4> DEFINE f == {p \in Pool : rows[p] # <<>>}
                 b == {p \in Pool : Satisfied(p)}
      <4>3. /\ check' = [check EXCEPT ![v] = "choosing"]
            /\ todo' = [todo EXCEPT ![v] = Pool]
            /\ filled' = [filled EXCEPT ![v] = f]
            /\ before' = [before EXCEPT ![v] = b]
            /\ UNCHANGED <<entry, dataVars, crashed, uploadVars, looking, missing>>
        BY <2>1, <3>1 DEF BeginCheck
      <4> HIDE DEF f, b
      <4> QED
        BY <4>1, <4>2, <4>3 DEF f, b
    <3>2. CASE entry # "live"
      BY <2>1, <3>2 DEF BeginCheck
    <3> QED
      BY <3>1, <3>2
  <2>2. ASSUME NEW p \in Pool, LookUp(v, p)
        PROVE  TypeOK'
    <3>1. todo[v] \ {p} \in SUBSET Pool /\ missing[v] \cup {p} \in SUBSET Pool
      OBVIOUS
    <3>2. CASE p \in known
      BY <2>2, <3>1, <3>2 DEF LookUp
    <3>3. CASE p \notin known
      BY <2>2, <3>1, <3>3 DEF LookUp
    <3> QED
      BY <3>2, <3>3
  <2>3. CASE RaceForMap(v)
    BY <2>3 DEF RaceForMap, checkVars
  <2>4. CASE CheckFields(v)
    BY <2>4 DEF CheckFields, Fail, StatsExact
  <2>5. CASE TearSlice(v)
    BY <2>5 DEF TearSlice
  <2>6. CASE CheckSize(v)
    BY <2>6 DEF CheckSize, Fail, StatsExact
  <2>7. CASE EndCheck(v)
    BY <2>7 DEF EndCheck
  <2> QED
    BY <1>3, <2>1, <2>2, <2>3, <2>4, <2>5, <2>6, <2>7 DEF CheckStep
<1>4. CASE UNCHANGED vars
  BY <1>4 DEF vars, dataVars, uploadVars, checkVars
<1> QED
  BY <1>1, <1>2, <1>3, <1>4 DEF Next

\* A step of the upload u that is inside AddRows, or of none.
LEMMA StatsStep ==
    ASSUME TypeOK, TypeOK', StatsExact, [Next]_vars
    PROVE  StatsExact'
<1> USE DEF TypeOK, Adding, Unlocked
<1>1. ASSUME StoreStep
      PROVE  StatsExact'
  BY <1>1 DEF StatsExact, StoreStep, Register, Expire, Delete, dataVars, uploadVars,
     checkVars
<1>2. ASSUME NEW u \in Uploader, UploadStep(u)
      PROVE  StatsExact'
  <2> USE DEF checkVars, dataVars, MoveTo, NextLine
  <2>1. CASE BeginUpload(u)
    BY <2>1 DEF BeginUpload, StatsExact
  <2>2. CASE ReadBatch(u)
    BY <2>2 DEF ReadBatch, StatsExact
  <2>3. CASE SkipLine(u)
    BY <2>3 DEF SkipLine, StatsExact
  <2>4. CASE ReadGarbage(u)
    BY <2>4 DEF ReadGarbage, StatsExact
  <2>5. CASE LockStore(u)
    BY <2>5 DEF LockStore, StatsExact
  <2>6. CASE CreatePool(u)
    BY <2>6 DEF CreatePool, StatsExact
  <2>7. CASE AppendRows(u)
    <3> DEFINE p == batch[u].pool
    <3>1. batch[u] \in Batch /\ p \in known
      BY <2>7 DEF AppendRows, StatsExact
    <3>2. /\ p \in Pool
          /\ rows[p] \in Seq(Row)
          /\ rows'[p] = rows[p] \o NewRows(u)
          /\ Len(rows'[p]) >= Len(rows[p])
      BY <2>7, <3>1, NewRowsType, AppendKeeps DEF AppendRows
    <3>3. \A q \in Pool : q # p => rows'[q] = rows[q]
      BY <2>7 DEF AppendRows
    <3>4. /\ \A q \in Pool : rows'[q] # <<>> => q \in known'
          /\ \A q \in Pool : rowCount'[q] <= Len(rows'[q])
      BY <2>7, <3>1, <3>2, <3>3 DEF AppendRows, StatsExact
    <3>5. \A w \in Uploader : Adding(w)' => w = u
      BY <2>7 DEF AppendRows, StatsExact
    <3> QED
      BY <2>7, <3>1, <3>2, <3>3, <3>4, <3>5 DEF AppendRows, StatsExact
  <2>8. CASE CountRows(u)
    <3> DEFINE p == batch[u].pool
    <3>1. batch[u] \in Batch /\ p \in known
      BY <2>8 DEF CountRows, StatsExact
    <3>2. p \in Pool
      BY <3>1, NewRowsType
    <3>3. rowCount'[p] = Len(rows[p]) /\ \A q \in Pool : q # p => rowCount'[q] = rowCount[q]
      BY <2>8, <3>2 DEF CountRows
    <3>4. \A q \in Pool : rowCount'[q] = Len(rows'[q])
      BY <2>8, <3>3 DEF CountRows, StatsExact
    <3> QED
      BY <2>8, <3>4 DEF CountRows, StatsExact
  <2>9. CASE EndUpload(u)
    BY <2>9 DEF EndUpload, StatsExact
  <2> QED
    BY <1>2, <2>1, <2>2, <2>3, <2>4, <2>5, <2>6, <2>7, <2>8, <2>9
    DEF UploadStep, AddRowsStep
<1>3. ASSUME NEW v \in Validator, CheckStep(v)
      PROVE  StatsExact'
  <2>1. UNCHANGED <<entry, known, rows, rowCount, upload, batch>>
    BY <1>3 DEF CheckStep, BeginCheck, LookUp, RaceForMap, CheckFields, TearSlice,
       CheckSize, EndCheck, uploadVars, dataVars, checkVars
  <2>2. \A w \in Validator :
            check'[w] \in {"fields", "size", "panicked"} => looking'[w] \in known
    <3>1. ASSUME NEW p \in Pool, LookUp(v, p)
          PROVE  \A w \in Validator :
                    check'[w] \in {"fields", "size", "panicked"} => looking'[w] \in known
      <4>1. CASE p \in known
        <5>1. /\ \A w \in Validator : w # v =>
                    check'[w] = check[w] /\ looking'[w] = looking[w]
              /\ looking'[v] = p
          BY <3>1, <4>1 DEF LookUp
        <5> QED
          BY <4>1, <5>1 DEF StatsExact
      <4>2. CASE p \notin known
        BY <3>1, <4>2 DEF LookUp, StatsExact
      <4> QED
        BY <4>1, <4>2
    <3>2. CASE BeginCheck(v) \/ RaceForMap(v) \/ EndCheck(v)
      BY <3>2 DEF BeginCheck, RaceForMap, EndCheck, StatsExact, checkVars
    <3>3. CASE CheckFields(v) \/ TearSlice(v)
      <4>1. /\ \A w \in Validator : w # v => check'[w] = check[w]
            /\ looking' = looking /\ check[v] = "fields"
        BY <3>3 DEF CheckFields, TearSlice
      <4> QED
        BY <4>1 DEF StatsExact
    <3>4. CASE CheckSize(v)
      <4>1. \A w \in Validator : w # v => check'[w] = check[w] /\ looking'[w] = looking[w]
        BY <3>4 DEF CheckSize
      <4>2. check'[v] = "choosing"
        BY <3>4 DEF CheckSize
      <4> QED
        BY <4>1, <4>2 DEF StatsExact
    <3> QED
      BY <1>3, <3>1, <3>2, <3>3, <3>4 DEF CheckStep
  <2>3. \A w \in Validator : check'[w] = "done" => todo'[w] = {}
    <3>1. CASE \E p \in Pool : LookUp(v, p)
      BY <3>1 DEF LookUp, StatsExact
    <3>2. CASE BeginCheck(v) \/ RaceForMap(v) \/ EndCheck(v)
      BY <3>2 DEF BeginCheck, RaceForMap, EndCheck, StatsExact, checkVars
    <3>3. CASE CheckFields(v) \/ TearSlice(v) \/ CheckSize(v)
      BY <3>3 DEF CheckFields, TearSlice, CheckSize, StatsExact
    <3> QED
      BY <1>3, <3>1, <3>2, <3>3 DEF CheckStep
  <2> QED
    BY <2>1, <2>2, <2>3 DEF StatsExact
<1>4. CASE UNCHANGED vars
  BY <1>4 DEF vars, dataVars, uploadVars, checkVars, StatsExact
<1> QED
  BY <1>1, <1>2, <1>3, <1>4 DEF Next

\* What is uploaded comes after what is there, and nothing is taken away.
LEMMA DataGrows ==
    ASSUME TypeOK, StatsExact, [Next]_vars, NEW p \in Pool
    PROVE  /\ p \in known => p \in known'
           /\ rowCount[p] <= rowCount'[p]
           /\ rows[p] # <<>> => rows'[p] # <<>> /\ rows'[p][1] = rows[p][1]
<1> USE DEF TypeOK
<1>1. CASE UNCHANGED dataVars
  BY <1>1 DEF dataVars
<1>2. ASSUME NEW u \in Uploader, CreatePool(u)
      PROVE  UNCHANGED <<rows, rowCount>> /\ known \subseteq known'
  BY <1>2 DEF CreatePool
<1>3. ASSUME NEW u \in Uploader, AppendRows(u)
      PROVE  /\ UNCHANGED <<known, rowCount>>
             /\ rows[p] # <<>> => rows'[p] # <<>> /\ rows'[p][1] = rows[p][1]
  <2>1. batch[u] \in Batch
    BY <1>3 DEF AppendRows, StatsExact, Adding
  <2>2. rows'[p] = IF p = batch[u].pool THEN rows[p] \o NewRows(u) ELSE rows[p]
    BY <1>3 DEF AppendRows
  <2>3. UNCHANGED <<known, rowCount>>
    BY <1>3 DEF AppendRows
  <2>4. rows[p] \in Seq(Row)
    OBVIOUS
  <2> QED
    BY <2>1, <2>2, <2>3, <2>4, NewRowsType, AppendKeeps
<1>4. ASSUME NEW u \in Uploader, CountRows(u)
      PROVE  UNCHANGED <<known, rows>> /\ rowCount[p] <= rowCount'[p]
  BY <1>4 DEF CountRows, StatsExact
<1>5. \/ UNCHANGED dataVars
      \/ \E u \in Uploader : CreatePool(u) \/ AppendRows(u) \/ CountRows(u)
  <2>1. StoreStep => UNCHANGED dataVars
    BY DEF StoreStep, Register, Expire, Delete
  <2>2. ASSUME NEW u \in Uploader, UploadStep(u)
        PROVE  UNCHANGED dataVars \/ CreatePool(u) \/ AppendRows(u) \/ CountRows(u)
    BY <2>2 DEF UploadStep, AddRowsStep, BeginUpload, ReadBatch, SkipLine, ReadGarbage,
       LockStore, EndUpload
  <2>3. ASSUME NEW v \in Validator, CheckStep(v)
        PROVE  UNCHANGED dataVars
    BY <2>3 DEF CheckStep, BeginCheck, LookUp, RaceForMap, CheckFields, TearSlice,
       CheckSize, EndCheck
  <2>4. UNCHANGED vars => UNCHANGED dataVars
    BY DEF vars, dataVars
  <2> QED
    BY <2>1, <2>2, <2>3, <2>4 DEF Next
<1>6. rowCount[p] \in Nat
  OBVIOUS
<1> QED
  BY <1>1, <1>2, <1>3, <1>4, <1>5, <1>6

\* So a pool that the schema asks a row of stays in order.
LEMMA SatisfiedStays ==
    ASSUME TypeOK, TypeOK', StatsExact, [Next]_vars, NEW p \in Solid, Satisfied(p)
    PROVE  Satisfied(p)'
<1>1. p \in Pool /\ MinSize[p] \in Nat /\ MinSize[p] > 0
  BY DatasetAssumption DEF Solid
<1>2. rowCount[p] \in Nat /\ rowCount'[p] \in Nat /\ rows[p] \in Seq(Row)
  BY <1>1 DEF TypeOK
<1>3. rowCount[p] <= Len(rows[p])
  BY <1>1 DEF StatsExact
<1>4. rows[p] # <<>>
  BY <1>1, <1>2, <1>3 DEF Satisfied
<1> QED
  BY <1>1, <1>2, <1>4, DataGrows DEF Satisfied

\* What FoundInOrder says of one handshake.
Found(v) ==
    /\ \A p \in (Required \cap filled[v] \cap Solid) \ (todo[v] \cup missing[v]) :
        \/ Satisfied(p)
        \/ p = looking[v] /\ check[v] = "fields"
        \/ p = looking[v] /\ check[v] = "size" /\ rows[p][1].full
    /\ \A p \in filled[v] : rows[p] # <<>>
    /\ \A p \in before[v] \cap Solid : Satisfied(p) /\ p \in filled[v]
    /\ missing[v] \cap before[v] \cap Solid = {}
    /\ check[v] = "idle" => missing[v] = {}

\* A handshake that does not move keeps what it has found.
LEMMA StillFound ==
    ASSUME TypeOK, TypeOK', StatsExact, [Next]_vars, NEW v \in Validator, Found(v),
           check'[v] = check[v], todo'[v] = todo[v], looking'[v] = looking[v],
           missing'[v] = missing[v], filled'[v] = filled[v], before'[v] = before[v]
    PROVE  Found(v)'
<1>1. \A p \in Solid : Satisfied(p) => Satisfied(p)'
  BY SatisfiedStays
<1>2. \A p \in Pool : rows[p] # <<>> => rows'[p] # <<>> /\ rows'[p][1] = rows[p][1]
  BY DataGrows
<1>3. filled[v] \subseteq Pool /\ Solid \subseteq Pool /\ Solid' = Solid
  BY DEF TypeOK, Solid
<1>4. \A p \in filled'[v] : rows'[p] # <<>>
  BY <1>2, <1>3 DEF Found
<1>5. \A p \in (Required \cap filled'[v] \cap Solid) \ (todo'[v] \cup missing'[v]) :
        \/ Satisfied(p)'
        \/ p = looking'[v] /\ check'[v] = "fields"
        \/ p = looking'[v] /\ check'[v] = "size" /\ rows'[p][1].full
  BY <1>1, <1>2, <1>3 DEF Found
<1> QED
  BY <1>1, <1>3, <1>4, <1>5 DEF Found

\* A step of the handshake itself.
LEMMA FoundStep ==
    ASSUME TypeOK, StatsExact, NEW v \in Validator, CheckStep(v), Found(v)
    PROVE  Found(v)'
<1> USE DEF TypeOK
<1>1. CASE BeginCheck(v)
  <2>1. CASE entry = "live"
    <3>1. /\ check'[v] = "choosing" /\ todo'[v] = Pool /\ missing'[v] = {}
          /\ filled'[v] = {p \in Pool : rows[p] # <<>>}
          /\ before'[v] = {p \in Pool : Satisfied(p)}
          /\ UNCHANGED dataVars
      BY <1>1, <2>1 DEF BeginCheck, Found
    <3>2. \A p \in Pool : Satisfied(p)' <=> Satisfied(p)
      BY <3>1 DEF Satisfied, dataVars
    <3>3. \A p \in before'[v] \cap Solid : rows[p] # <<>>
      <4> SUFFICES ASSUME NEW p \in Pool, Satisfied(p), p \in Solid
                   PROVE  rows[p] # <<>>
        BY <3>1
      <4>1. /\ MinSize[p] \in Nat /\ MinSize[p] > 0 /\ rowCount[p] \in Nat
            /\ rowCount[p] >= MinSize[p] /\ rowCount[p] <= Len(rows[p])
        BY DatasetAssumption DEF Solid, Satisfied, StatsExact
      <4> QED
        BY <4>1
    <3>4. Solid' = Solid /\ Solid \subseteq Pool
      BY DEF Solid
    <3> QED
      BY <3>1, <3>2, <3>3, <3>4 DEF Found, dataVars
  <2>2. CASE entry # "live"
    <3>1. /\ check'[v] = "refused" /\ check[v] = "idle" /\ looking' = looking
          /\ UNCHANGED <<todo, filled, before, missing, dataVars>>
      BY <1>1, <2>2 DEF BeginCheck
    <3> QED
      BY <3>1 DEF Found, Satisfied, dataVars, Solid
  <2> QED
    BY <2>1, <2>2
<1>2. ASSUME NEW p \in Pool, LookUp(v, p)
      PROVE  Found(v)'
  <2>1. /\ check[v] = "choosing" /\ todo'[v] = todo[v] \ {p}
        /\ UNCHANGED <<dataVars, filled, before>>
    BY <1>2 DEF LookUp
  <2>2. CASE p \in known
    <3>1. check'[v] = "fields" /\ looking'[v] = p /\ missing' = missing
      BY <1>2, <2>2 DEF LookUp
    <3> QED
      BY <2>1, <3>1 DEF Found, Satisfied, dataVars, Solid
  <2>3. CASE p \notin known
    <3>1. check' = check /\ looking' = looking /\ missing'[v] \subseteq missing[v] \cup {p}
          /\ missing[v] \subseteq missing'[v]
      BY <1>2, <2>3 DEF LookUp
    <3>2. p \notin filled[v] /\ ~Satisfied(p)
      BY <2>3 DEF Found, StatsExact, Satisfied
    <3> QED
      BY <2>1, <3>1, <3>2 DEF Found, Satisfied, dataVars, Solid
  <2> QED
    BY <2>2, <2>3
<1>3. CASE RaceForMap(v)
  BY <1>3 DEF RaceForMap, Found, Satisfied, dataVars, checkVars, Solid
<1>4. CASE CheckFields(v)
  <2> DEFINE p == looking[v]
  <2>1. /\ check[v] = "fields" /\ check'[v] = "size" /\ p \in Pool
        /\ UNCHANGED <<dataVars, todo, looking, filled, before>>
    BY <1>4 DEF CheckFields, StatsExact
  <2>2. missing'[v] = IF rows[p] # <<>> /\ ~rows[p][1].full
                     THEN missing[v] \cup {p} ELSE missing[v]
    BY <1>4 DEF CheckFields, Fail
  <2>3. rows[p] # <<>> /\ ~rows[p][1].full => ~Satisfied(p)
    BY DEF Satisfied
  <2> QED
    BY <2>1, <2>2, <2>3 DEF Found, Satisfied, dataVars, Solid
<1>5. CASE TearSlice(v)
  BY <1>5 DEF TearSlice, Found, Satisfied, dataVars, Solid
<1>6. CASE CheckSize(v)
  <2> DEFINE p == looking[v]
  <2>1. /\ check[v] = "size" /\ check'[v] = "choosing" /\ p \in known
        /\ UNCHANGED <<dataVars, todo, filled, before>>
    BY <1>6 DEF CheckSize, StatsExact
  <2>2. missing'[v] = IF rowCount[p] < MinSize[p] THEN missing[v] \cup {p} ELSE missing[v]
    BY <1>6 DEF CheckSize, Fail
  <2>3. rowCount[p] \in Nat /\ MinSize[p] \in Nat
    BY <2>1, DatasetAssumption
  <2>4. rowCount[p] < MinSize[p] => ~Satisfied(p)
    BY <2>3 DEF Satisfied
  <2>5. ~(rowCount[p] < MinSize[p]) /\ rows[p][1].full => Satisfied(p)
    BY <2>1, <2>3 DEF Satisfied
  <2>6. \A q : Satisfied(q)' <=> Satisfied(q)
    BY <2>1 DEF Satisfied, dataVars
  <2> QED
    BY <2>1, <2>2, <2>4, <2>5, <2>6 DEF Found, dataVars, Solid
<1>7. CASE EndCheck(v)
  BY <1>7 DEF EndCheck, Found, Satisfied, dataVars, Solid
<1> QED
  BY <1>1, <1>2, <1>3, <1>4, <1>5, <1>6, <1>7 DEF CheckStep

LEMMA FoundByHandshake == FoundInOrder <=> \A v \in Validator : Found(v)
BY DEF FoundInOrder, Found

\* Of the rows of a pool those of the upload that appends grow by its line.
LEMMA OwnRowsGrow ==
    ASSUME TypeOK, NEW u \in Uploader, batch[u] \in Batch, AppendRows(u),
           NEW w \in Uploader, NEW p \in Pool, IsFiniteSet(OwnRows(w, p))
    PROVE  /\ IsFiniteSet(OwnRows(w, p)')
           /\ Cardinality(OwnRows(w, p)') =
                Cardinality(OwnRows(w, p)) +
                    IF w = u /\ p = batch[u].pool THEN batch[u].size ELSE 0
<1> DEFINE s == rows[p]
           t == NewRows(u)
           n == Len(rows[p])
           k == batch[u].size
           new == n + 1 .. n + k
<1>1. batch[u].pool \in Pool /\ k \in Nat \ {0} /\ t \in Seq(Row) /\ Len(t) = k
  BY NewRowsType
<1>2. s \in Seq(Row) /\ n \in Nat /\ DOMAIN s = 1 .. n
  BY DEF TypeOK
<1>3. Cardinality(OwnRows(w, p)) \in Nat
  BY FS_CardinalityType
<1>4. rows' = [rows EXCEPT ![batch[u].pool] = @ \o t] /\ rows \in [Pool -> Seq(Row)]
  BY DEF AppendRows, TypeOK
<1>5. CASE p # batch[u].pool
  <2>1. rows'[p] = rows[p] BY <1>4, <1>5
  <2>2. OwnRows(w, p)' = OwnRows(w, p) BY <2>1 DEF OwnRows
  <2> QED BY <1>3, <1>5, <2>2
<1>6. CASE p = batch[u].pool
  <2>1. rows'[p] = s \o t BY <1>1, <1>4, <1>6
  <2>2. DOMAIN rows'[p] = 1 .. n + k BY <1>1, <1>2, <2>1
  <2>3. \A i \in 1 .. n : rows'[p][i] = rows[p][i] BY <1>1, <1>2, <2>1
  <2>4. \A i \in 1 .. k : t[i].by = u BY DEF NewRows
  <2>5. ASSUME NEW i \in new PROVE rows'[p][i].by = u
    <3>1. i - n \in 1 .. k /\ i \in 1 .. n + k /\ i > n BY <1>1, <1>2
    <3>2. rows'[p][i] = t[i - n] BY <1>1, <1>2, <2>1, <3>1
    <3> QED BY <2>4, <3>1, <3>2
  <2>6. 1 .. n + k = (1 .. n) \cup new /\ (1 .. n) \cap new = {} BY <1>1, <1>2
  <2> HIDE DEF new
  <2>7. CASE w # u
    <3>1. OwnRows(w, p)' = OwnRows(w, p)
      BY <1>2, <2>2, <2>3, <2>5, <2>6, <2>7 DEF OwnRows
    <3> QED BY <1>3, <2>7, <3>1
  <2>8. CASE w = u
    <3>1. OwnRows(w, p)' = OwnRows(w, p) \cup new /\ OwnRows(w, p) \cap new = {}
      BY <1>2, <2>2, <2>3, <2>5, <2>6, <2>8 DEF OwnRows
    <3>2. IsFiniteSet(new) /\ Cardinality(new) = k
      <4>1. n + 1 \in Int /\ n + k \in Int BY <1>1, <1>2
      <4>2. /\ IsFiniteSet(n + 1 .. n + k)
            /\ Cardinality(n + 1 .. n + k) =
                 IF n + 1 > n + k THEN 0 ELSE (n + k) - (n + 1) + 1
        BY <4>1, FS_Interval
      <4> QED BY <1>1, <1>2, <4>2 DEF new
    <3>3. OwnRows(w, p) \cap new = {} => Cardinality(OwnRows(w, p) \cap new) = 0
      BY FS_EmptySet
    <3>4. /\ IsFiniteSet(OwnRows(w, p) \cup new)
          /\ Cardinality(OwnRows(w, p) \cup new) =
                Cardinality(OwnRows(w, p)) + k - Cardinality(OwnRows(w, p) \cap new)
      BY <3>2, FS_Union
    <3> QED BY <1>1, <1>3, <1>6, <2>8, <3>1, <3>3, <3>4
  <2> QED BY <2>7, <2>8
<1> QED BY <1>5, <1>6

\* The rows an upload can own are among finitely many.
LEMMA OwnRowsFinite ==
    ASSUME TypeOK, NEW u \in Uploader, NEW p \in Pool
    PROVE  IsFiniteSet(OwnRows(u, p)) /\ Cardinality(OwnRows(u, p)) \in Nat
<1>1. OwnRows(u, p) \subseteq 1 .. Len(rows[p]) /\ Len(rows[p]) \in Nat
  BY DEF OwnRows, TypeOK
<1>2. IsFiniteSet(1 .. Len(rows[p])) BY <1>1, FS_Interval
<1>3. IsFiniteSet(OwnRows(u, p)) BY <1>1, <1>2, FS_Subset
<1> QED BY <1>3, FS_CardinalityType

\* Only AppendRows changes the rows; only CountRows leaves "counting", and it
\* counts what was appended.
LEMMA CountedStep ==
    ASSUME TypeOK, StatsExact, Counted, [Next]_vars
    PROVE  Counted'
<1> USE DEF TypeOK
<1>1. ASSUME UNCHANGED <<rows, accepted, batch>>,
             \A w \in Uploader : upload'[w] = "counting" <=> upload[w] = "counting"
      PROVE  Counted'
  BY <1>1 DEF Counted, OwnRows
<1>2. CASE StoreStep
  BY <1>1, <1>2 DEF StoreStep, Register, Expire, Delete, dataVars, uploadVars
<1>3. ASSUME NEW v \in Validator, CheckStep(v) PROVE Counted'
  <2>1. UNCHANGED <<dataVars, uploadVars>>
    BY <1>3 DEF CheckStep, BeginCheck, LookUp, RaceForMap, CheckFields, TearSlice,
       CheckSize, EndCheck, checkVars
  <2> QED BY <1>1, <2>1 DEF dataVars, uploadVars
<1>4. ASSUME NEW u \in Uploader, UploadStep(u) PROVE Counted'
  <2>1. CASE BeginUpload(u) \/ SkipLine(u) \/ ReadGarbage(u) \/ CreatePool(u) \/ EndUpload(u)
    <3>1. UNCHANGED <<rows, accepted, batch>>
      BY <2>1 DEF BeginUpload, SkipLine, ReadGarbage, CreatePool, EndUpload, dataVars
    <3>2. \A w \in Uploader : upload'[w] = "counting" <=> upload[w] = "counting"
      BY <2>1 DEF BeginUpload, SkipLine, ReadGarbage, CreatePool, EndUpload, MoveTo
    <3> QED BY <1>1, <3>1, <3>2
  <2>2. CASE ReadBatch(u) \/ LockStore(u)
    <3>1. /\ UNCHANGED <<rows, accepted>>
          /\ upload[u] # "counting" /\ upload'[u] # "counting"
          /\ \A w \in Uploader : w # u => upload'[w] = upload[w] /\ batch'[w] = batch[w]
      BY <2>2 DEF ReadBatch, LockStore, MoveTo, NextLine, dataVars
    <3> QED BY <3>1 DEF Counted, OwnRows
  <2>3. CASE AppendRows(u)
    <3>1. /\ batch[u] \in Batch /\ batch' = batch /\ accepted' = accepted
          /\ upload[u] # "counting" /\ upload'[u] = "counting"
          /\ \A w \in Uploader : w # u => upload'[w] = upload[w]
      BY <2>3 DEF AppendRows, MoveTo, StatsExact, Adding
    <3>2. batch[u].size \in Nat BY <3>1, NewRowsType
    <3> SUFFICES ASSUME NEW w \in Uploader, NEW p \in Pool
                 PROVE  Cardinality(OwnRows(w, p)') =
                          accepted'[w][p] + IF upload'[w] = "counting" /\ p = batch'[w].pool
                                            THEN batch'[w].size ELSE 0
      BY DEF Counted
    <3>3. Cardinality(OwnRows(w, p)') =
            Cardinality(OwnRows(w, p)) +
                IF w = u /\ p = batch[u].pool THEN batch[u].size ELSE 0
      BY <2>3, <3>1, OwnRowsFinite, OwnRowsGrow
    <3>4. Cardinality(OwnRows(w, p)) =
            accepted[w][p] + IF upload[w] = "counting" /\ p = batch[w].pool
                             THEN batch[w].size ELSE 0
      BY DEF Counted
    <3>5. Cardinality(OwnRows(w, p)) \in Nat /\ accepted[w][p] \in Nat
      BY OwnRowsFinite
    <3>6. CASE w = u BY <3>1, <3>2, <3>3, <3>4, <3>5, <3>6
    <3>7. CASE w # u BY <3>1, <3>3, <3>4, <3>5, <3>7
    <3> QED BY <3>6, <3>7
  <2>4. CASE CountRows(u)
    <3>1. /\ batch[u] \in Batch /\ rows' = rows
          /\ upload[u] = "counting" /\ upload'[u] = "reading"
          /\ accepted' = [accepted EXCEPT ![u][batch[u].pool] = @ + batch[u].size]
          /\ \A w \in Uploader : w # u => upload'[w] = upload[w] /\ batch'[w] = batch[w]
      BY <2>4 DEF CountRows, MoveTo, NextLine, StatsExact, Adding
    <3>2. batch[u].size \in Nat /\ batch[u].pool \in Pool BY <3>1, NewRowsType
    <3>3. \A w \in Uploader : \A p \in Pool :
            accepted'[w][p] = IF w = u /\ p = batch[u].pool
                              THEN accepted[w][p] + batch[u].size ELSE accepted[w][p]
      BY <3>1, <3>2
    <3>4. \A w \in Uploader : \A p \in Pool : accepted[w][p] \in Nat OBVIOUS
    <3> SUFFICES ASSUME NEW w \in Uploader, NEW p \in Pool
                 PROVE  Cardinality(OwnRows(w, p)') =
                          accepted'[w][p] + IF upload'[w] = "counting" /\ p = batch'[w].pool
                                            THEN batch'[w].size ELSE 0
      BY DEF Counted
    <3>5. Cardinality(OwnRows(w, p)) =
            accepted[w][p] + IF upload[w] = "counting" /\ p = batch[w].pool
                             THEN batch[w].size ELSE 0
      BY DEF Counted
    <3>6. OwnRows(w, p)' = OwnRows(w, p) BY <3>1 DEF OwnRows
    <3>7. CASE w = u
      <4>1. /\ upload'[w] # "counting" /\ upload[w] = "counting"
            /\ accepted[w][p] \in Nat
        BY <3>1, <3>4, <3>7
      <4>2. CASE p = batch[u].pool
        <5>1. accepted'[w][p] = accepted[w][p] + batch[u].size
          BY <3>3, <3>7, <4>2
        <5>2. Cardinality(OwnRows(w, p)) = accepted[w][p] + batch[u].size
          BY <3>5, <3>7, <4>1, <4>2
        <5> QED BY <3>2, <3>6, <4>1, <5>1, <5>2
      <4>3. CASE p # batch[u].pool
        <5>1. accepted'[w][p] = accepted[w][p]
          BY <3>3, <3>7, <4>3
        <5>2. Cardinality(OwnRows(w, p)) = accepted[w][p]
          BY <3>5, <3>7, <4>1, <4>3
        <5> QED BY <3>6, <4>1, <5>1, <5>2
      <4> QED BY <4>2, <4>3
    <3>8. CASE w # u BY <3>1, <3>3, <3>5, <3>6, <3>8
    <3> QED BY <3>7, <3>8
  <2> QED BY <1>4, <2>1, <2>2, <2>3, <2>4 DEF UploadStep, AddRowsStep
<1>5. CASE UNCHANGED vars
  BY <1>1, <1>5 DEF vars, dataVars, uploadVars
<1> QED BY <1>2, <1>3, <1>4, <1>5 DEF Next

LEMMA InvPreserved ==
    ASSUME DatasetInv, [Next]_vars
    PROVE  DatasetInv'
<1>1. TypeOK /\ StatsExact /\ \A v \in Validator : Found(v)
  BY FoundByHandshake DEF DatasetInv
<1>2. TypeOK'
  BY <1>1, TypeStep
<1>3. StatsExact'
  BY <1>1, <1>2, StatsStep
<1>4. ASSUME NEW v \in Validator
      PROVE  Found(v)'
  <2> DEFINE Still == /\ check'[v] = check[v] /\ todo'[v] = todo[v]
                      /\ looking'[v] = looking[v] /\ missing'[v] = missing[v]
                      /\ filled'[v] = filled[v] /\ before'[v] = before[v]
  <2>1. CASE UNCHANGED checkVars
    <3>1. Still
      BY <2>1 DEF checkVars
    <3> QED
      BY <1>1, <1>2, <1>4, <3>1, StillFound
  <2>2. ASSUME NEW w \in Validator, w # v, CheckStep(w)
        PROVE  Found(v)'
    <3>1. Still
      BY <1>1, <2>2 DEF TypeOK, CheckStep, BeginCheck, LookUp, RaceForMap, CheckFields,
         TearSlice, CheckSize, EndCheck, Fail, checkVars
    <3> QED
      BY <1>1, <1>2, <1>4, <3>1, StillFound
  <2>3. CASE CheckStep(v)
    BY <1>1, <1>4, <2>3, FoundStep
  <2>4. UNCHANGED checkVars \/ \E w \in Validator : CheckStep(w)
    <3>1. StoreStep => UNCHANGED checkVars
      BY DEF StoreStep, Register, Expire, Delete
    <3>2. \A u \in Uploader : UploadStep(u) => UNCHANGED checkVars
      BY DEF UploadStep, AddRowsStep, BeginUpload, ReadBatch, SkipLine, ReadGarbage,
         LockStore, CreatePool, AppendRows, CountRows, EndUpload
    <3>3. UNCHANGED vars => UNCHANGED checkVars
      BY DEF vars
    <3> QED
      BY <3>1, <3>2, <3>3 DEF Next
  <2> QED
    BY <2>1, <2>2, <2>3, <2>4
<1>5. FoundInOrder'
  BY <1>4 DEF FoundInOrder, Found
<1>6. Counted'
  BY <1>1, CountedStep DEF DatasetInv
<1> QED
  BY <1>2, <1>3, <1>5, <1>6 DEF DatasetInv

\* The invariant of uploads and handshakes holds, however the writes of AddRows
\* and the unlocked reads of ValidateDataset interleave.
THEOREM DatasetInvariance == Spec => []DatasetInv
<1>1. Init => DatasetInv
  <2> SUFFICES ASSUME Init
               PROVE  DatasetInv
    OBVIOUS
  <2>1. TypeOK
    <3>1. rows \in [Pool -> Seq(Row)] /\ rowCount \in [Pool -> Nat]
      BY DEF Init
    <3>2. accepted \in [Uploader -> [Pool -> Nat]] /\ lines \in [Uploader -> 0..MaxLines]
      BY DatasetAssumption DEF Init
    <3>3. /\ upload \in [Uploader -> UploadPC] /\ batch \in [Uploader -> Batch \cup {None}]
          /\ entry \in {"none", "live", "expired", "deleted"} /\ known \in SUBSET Pool
          /\ crashed \in BOOLEAN
      BY DEF Init, UploadPC
    <3>4. /\ check \in [Validator -> CheckPC] /\ todo \in [Validator -> SUBSET Pool]
          /\ looking \in [Validator -> Pool \cup {None}]
          /\ missing \in [Validator -> SUBSET Pool] /\ filled \in [Validator -> SUBSET Pool]
          /\ before \in [Validator -> SUBSET Pool]
      BY DEF Init, CheckPC
    <3> QED
      BY <3>1, <3>2, <3>3, <3>4 DEF TypeOK
  <2>2. StatsExact
    BY DEF Init, StatsExact, Unlocked, Adding
  <2>3. FoundInOrder
    BY DEF Init, FoundInOrder
  <2>4. Counted
    <3>1. \A u \in Uploader : \A p \in Pool : OwnRows(u, p) = {}
      BY DEF Init, OwnRows
    <3> QED
      <4>1. \A u \in Uploader : \A p \in Pool : Cardinality(OwnRows(u, p)) = 0
        BY <3>1, FS_EmptySet
      <4>2. \A u \in Uploader : \A p \in Pool :
              accepted[u][p] = 0 /\ upload[u] # "counting"
        BY DEF Init
      <4> QED
        BY <4>1, <4>2 DEF Counted
  <2> QED
    BY <2>1, <2>2, <2>3, <2>4 DEF DatasetInv
<1>2. DatasetInv /\ [Next]_vars => DatasetInv'
  BY InvPreserved
<1> QED
  BY <1>1, <1>2, PTL DEF Spec

\* The handshake's verdict can be relied on for the pools that were not empty
\* when it began.
THEOREM VerdictCorrect == Spec => []VerdictSound
<1>1. DatasetInv => VerdictSound
  <2>1. DatasetInv => \A v \in Validator : check[v] = "done" => todo[v] = {}
    BY DEF DatasetInv, StatsExact
  <2> QED
    BY <2>1 DEF DatasetInv, FoundInOrder, VerdictSound
<1> QED
  BY <1>1, DatasetInvariance, PTL

\* A pool that was in order when the handshake began is never named missing.
THEOREM RejectionsCorrect == Spec => []NoFalseReject
<1>1. DatasetInv => NoFalseReject
  BY DEF DatasetInv, FoundInOrder, NoFalseReject
<1> QED
  BY <1>1, DatasetInvariance, PTL

\* The counts an upload is answered are those of its own rows.
THEOREM CountsCorrect == Spec => []UploadExact
<1>1. DatasetInv => UploadExact
  BY DEF DatasetInv, TypeOK, Counted, UploadExact
<1> QED
  BY <1>1, DatasetInvariance, PTL

\* No upload spoils a pool that was in order.
THEOREM ValidPreserved == Spec => ValidStays
<1>1. DatasetInv /\ DatasetInv' /\ [Next]_vars
      => [\A p \in Solid : Satisfied(p) => Satisfied(p)']_vars
  BY SatisfiedStays DEF DatasetInv
<1> QED
  BY <1>1, DatasetInvariance, PTL DEF Spec, ValidStays

\* A deleted dataset gets no more rows, because Delete takes AddRows' lock.
THEOREM DeleteCorrect == Spec => DeleteIsFinal
<1>1. DatasetInv /\ [Next]_vars => [entry = "deleted" => UNCHANGED dataVars]_vars
  <2> SUFFICES ASSUME DatasetInv, Next, entry = "deleted"
               PROVE  UNCHANGED dataVars
    OBVIOUS
  <2>1. \A u \in Uploader : ~Adding(u)
    BY DEF DatasetInv, StatsExact, Unlocked
  <2>2. StoreStep => UNCHANGED dataVars
    BY DEF StoreStep, Register, Expire, Delete
  <2>3. \A u \in Uploader : UploadStep(u) => UNCHANGED dataVars
    BY <2>1 DEF Adding, UploadStep, AddRowsStep, BeginUpload, ReadBatch, SkipLine,
       ReadGarbage, LockStore, CreatePool, AppendRows, CountRows, EndUpload
  <2>4. \A v \in Validator : CheckStep(v) => UNCHANGED dataVars
    BY DEF CheckStep, BeginCheck, LookUp, RaceForMap, CheckFields, TearSlice,
       CheckSize, EndCheck
  <2> QED
    BY <2>2, <2>3, <2>4 DEF Next
<1> QED
  BY <1>1, DatasetInvariance, PTL DEF Spec, DeleteIsFinal
=============================================================================
