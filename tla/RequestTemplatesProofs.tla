------------------------- MODULE RequestTemplatesProofs -------------------------
(***************************************************************************)
(* Proofs about RequestTemplates, for any virtual users, pools, rows and    *)
(* request nodes.  The core is that the patches of a variant can be applied *)
(* again and again to a parsed node that they have written into: what a set *)
(* of patches leaves behind differs from the parsed one only where its next *)
(* use writes first.                                                        *)
(***************************************************************************)
EXTENDS RequestTemplates, SequenceTheorems, WellFoundedInduction, TLAPS

\* A set of numbers has a least one, in place of induction.
LEMMA LeastNat ==
    ASSUME NEW T \in SUBSET Nat, T # {}
    PROVE  \E x \in T : \A y \in T : x <= y
<1>1. PICK x \in T : \A y \in T : ~(<<y, x>> \in OpToRel(<, Nat))
  BY NatLessThanWellFounded, WFMin
<1>2. \A y \in T : ~(y < x) BY <1>1 DEF OpToRel
<1> QED BY <1>2

-----------------------------------------------------------------------------
(* Applying the patches of one variant.                                     *)

Names == {"path", "baggage", "body"}

\* The patches that variant i of node n applies.
SetOf(n, i) == IF i = 0 THEN << >> ELSE n.variants[i].set

LEMMA PatchKinds ==
    ASSUME NEW p \in Patch
    PROVE  \/ /\ p.key = "field" /\ p.field \in Names /\ p.template \in Template
           \/ /\ p.key = "pool" /\ p.of \in Collection
              /\ p.object \in [Column -> Plain]
              /\ \A k \in Column, x \in Plain :
                    LET q == [p EXCEPT !.object[k] = x]
                    IN  /\ q \in Patch /\ q.key = "pool" /\ q.of = p.of
                        /\ q.object = [p.object EXCEPT ![k] = x]
           \/ /\ p.key = "column" /\ p.of \in Collection
              /\ p.column \in Column /\ p.value \in Plain
<1>1. CASE p \in [key : {"pool"}, of : Collection, object : [Column -> Plain]]
  <2> SUFFICES ASSUME NEW k \in Column, NEW x \in Plain
               PROVE  LET q == [p EXCEPT !.object[k] = x]
                      IN  /\ q \in Patch /\ q.key = "pool" /\ q.of = p.of
                          /\ q.object = [p.object EXCEPT ![k] = x]
    BY <1>1
  <2> DEFINE q == [p EXCEPT !.object[k] = x]
  <2>1. [p.object EXCEPT ![k] = x] \in [Column -> Plain] BY <1>1
  <2>2. /\ q \in [key : {"pool"}, of : Collection, object : [Column -> Plain]]
        /\ q.key = "pool" /\ q.of = p.of
        /\ q.object = [p.object EXCEPT ![k] = x]
    BY <1>1, <2>1
  <2> QED BY <2>2 DEF Patch
<1> QED BY <1>1 DEF Patch, Names

WorkingType ==
    [fields : Fields, set : Seq(Patch), owner : [Collection -> Nat],
     overrides : [Collection -> [Column -> Plain]]]

\* After n patches: the last one that replaced the overrides of pool c owns them.
Owned(w, first, n) ==
    \A c \in Collection :
        /\ w.owner[c] \in 0..n
        /\ w.owner[c] # 0 =>
              /\ first[w.owner[c]].key = "pool" /\ first[w.owner[c]].of = c
              /\ \A m \in (w.owner[c] + 1)..n : ~(first[m].key = "pool" /\ first[m].of = c)

Working(w, first, n) ==
    w \in WorkingType /\ Reusable(w.set, first) /\ Owned(w, first, n)

\* Two uses of the set, after n patches: they differ at most where both will be
\* overwritten.
Agree(w, x, first, n) ==
    /\ w.fields = x.fields
    /\ w.owner = x.owner
    /\ \A c \in Collection, k \in Column :
          w.overrides[c][k] = x.overrides[c][k] \/ Rewritten(first, n, c, k)

\* The patch at place j, as it was parsed and as a use finds it.
LEMMA PatchAt ==
    ASSUME NEW first \in Seq(Patch), NEW n \in Nat, n < Len(first),
           NEW w, Working(w, first, n)
    PROVE  /\ n + 1 \in DOMAIN first /\ n + 1 \in DOMAIN w.set
           /\ first[n + 1] \in Patch /\ w.set[n + 1] \in Patch
           /\ w.set[n + 1].key = first[n + 1].key
           /\ first[n + 1].key # "pool" => w.set[n + 1] = first[n + 1]
           /\ first[n + 1].key = "pool" => w.set[n + 1].of = first[n + 1].of
<1>1. n + 1 \in DOMAIN first /\ first[n + 1] \in Patch OBVIOUS
<1>2. w.set \in Seq(Patch) BY DEF Working, WorkingType
<1>3. n + 1 \in DOMAIN w.set BY <1>1 DEF Working, Reusable
<1>4. w.set[n + 1] \in Patch BY <1>2, <1>3
<1> QED BY <1>1, <1>3, <1>4 DEF Working, Reusable

LEMMA OwnedLater ==
    ASSUME NEW first, NEW n \in Nat, NEW w, w.owner \in [Collection -> Nat],
           Owned(w, first, n), first[n + 1].key # "pool"
    PROVE  Owned(w, first, n + 1)
<1> SUFFICES ASSUME NEW c \in Collection
             PROVE  /\ w.owner[c] \in 0..(n + 1)
                    /\ w.owner[c] # 0 =>
                          /\ first[w.owner[c]].key = "pool" /\ first[w.owner[c]].of = c
                          /\ \A m \in (w.owner[c] + 1)..(n + 1) :
                                ~(first[m].key = "pool" /\ first[m].of = c)
  BY DEF Owned
<1>1. w.owner[c] \in 0..n BY DEF Owned
<1>2. w.owner[c] \in 0..(n + 1) BY <1>1
<1>3. \A m \in (w.owner[c] + 1)..(n + 1) : m = n + 1 \/ m \in (w.owner[c] + 1)..n
  BY <1>1
<1> QED BY <1>2, <1>3 DEF Owned

\* Each kind of patch p, as a change of the working copy from w to y.
SetsField(w, y, p) ==
    /\ y.fields = [w.fields EXCEPT ![p.field] = p.template]
    /\ y.owner = w.owner /\ y.overrides = w.overrides

SetsPool(w, y, p, j) ==
    /\ p.of \in Collection
    /\ y.fields = w.fields
    /\ y.owner = [w.owner EXCEPT ![p.of] = j]
    /\ y.overrides = [w.overrides EXCEPT ![p.of] = w.set[j].object]

SetsColumn(w, y, p) ==
    /\ p.of \in Collection /\ p.column \in Column
    /\ y.fields = w.fields /\ y.owner = w.owner
    /\ y.overrides = [w.overrides EXCEPT ![p.of][p.column] = p.value]

LEMMA FieldPatch ==
    ASSUME NEW first \in Seq(Patch), NEW n \in Nat, n < Len(first),
           NEW w, Working(w, first, n), first[n + 1].key = "field"
    PROVE  /\ Working(ApplyPatch(w, n + 1), first, n + 1)
           /\ SetsField(w, ApplyPatch(w, n + 1), first[n + 1])
<1> DEFINE p == first[n + 1]
           y == [w EXCEPT !.fields[p.field] = p.template]
<1>1. w.set[n + 1] = p /\ p \in Patch /\ p.key = "field" BY PatchAt
<1>2. p.field \in Names /\ p.template \in Template BY <1>1, PatchKinds
<1>3. ApplyPatch(w, n + 1) = y BY <1>1 DEF ApplyPatch
<1>4. w \in WorkingType BY DEF Working
<1> HIDE DEF p
<1>5. [w.fields EXCEPT ![p.field] = p.template] \in Fields
  BY <1>2, <1>4 DEF WorkingType, Fields, Names
<1>6. /\ y \in WorkingType
      /\ y.fields = [w.fields EXCEPT ![p.field] = p.template]
      /\ y.set = w.set /\ y.owner = w.owner /\ y.overrides = w.overrides
  BY <1>4, <1>5 DEF WorkingType
<1> HIDE DEF y
<1>7. Owned(w, first, n + 1) BY <1>1, <1>4, OwnedLater DEF Working, WorkingType, p
<1>8. Owned(y, first, n + 1) BY <1>6, <1>7 DEF Owned
<1>9. Working(y, first, n + 1) BY <1>6, <1>8 DEF Working
<1> QED BY <1>3, <1>6, <1>9 DEF p, SetsField

LEMMA PoolPatch ==
    ASSUME NEW first \in Seq(Patch), NEW n \in Nat, n < Len(first),
           NEW w, Working(w, first, n), first[n + 1].key = "pool"
    PROVE  /\ Working(ApplyPatch(w, n + 1), first, n + 1)
           /\ SetsPool(w, ApplyPatch(w, n + 1), first[n + 1], n + 1)
<1> DEFINE j == n + 1
           p == w.set[j]
           y == [w EXCEPT !.overrides[p.of] = p.object, !.owner[p.of] = j]
<1>1. /\ j \in DOMAIN first /\ p \in Patch /\ p.key = "pool" /\ p.of = first[j].of
  BY PatchAt
<1>2. p.of \in Collection /\ p.object \in [Column -> Plain] BY <1>1, PatchKinds
<1>3. ApplyPatch(w, j) = y BY <1>1 DEF ApplyPatch
<1>4. w \in WorkingType BY DEF Working
<1>5. j \in Nat OBVIOUS
<1> HIDE DEF p, j
<1>6. /\ [w.overrides EXCEPT ![p.of] = p.object] \in [Collection -> [Column -> Plain]]
      /\ [w.owner EXCEPT ![p.of] = j] \in [Collection -> Nat]
  BY <1>2, <1>4, <1>5 DEF WorkingType
<1>7. /\ y \in WorkingType
      /\ y.fields = w.fields /\ y.set = w.set
      /\ y.owner = [w.owner EXCEPT ![p.of] = j]
      /\ y.overrides = [w.overrides EXCEPT ![p.of] = p.object]
  BY <1>4, <1>6 DEF WorkingType
<1> HIDE DEF y
<1>8. Owned(y, first, j)
  <2> SUFFICES ASSUME NEW c \in Collection
               PROVE  /\ y.owner[c] \in 0..j
                      /\ y.owner[c] # 0 =>
                            /\ first[y.owner[c]].key = "pool"
                            /\ first[y.owner[c]].of = c
                            /\ \A m \in (y.owner[c] + 1)..j :
                                  ~(first[m].key = "pool" /\ first[m].of = c)
    BY DEF Owned
  <2>1. CASE c = p.of
    <3>1. y.owner[c] = j BY <1>4, <1>7, <2>1 DEF WorkingType
    <3>2. (j + 1)..j = {} /\ j \in 0..j BY <1>5
    <3> QED BY <1>1, <2>1, <3>1, <3>2 DEF j
  <2>2. CASE c # p.of
    <3>1. y.owner[c] = w.owner[c] BY <1>4, <1>7, <2>2 DEF WorkingType
    <3>2. w.owner[c] \in 0..n BY DEF Working, Owned
    <3>3. w.owner[c] \in 0..j BY <3>2 DEF j
    <3>4. \A m \in (w.owner[c] + 1)..j : m = j \/ m \in (w.owner[c] + 1)..n
      BY <3>2 DEF j
    <3>5. first[j].of # c BY <1>1, <2>2
    <3> QED BY <3>1, <3>3, <3>4, <3>5 DEF Working, Owned
  <2> QED BY <2>1, <2>2
<1>9. Working(y, first, j) BY <1>7, <1>8 DEF Working
<1> QED BY <1>1, <1>2, <1>3, <1>7, <1>9 DEF p, j, SetsPool

LEMMA ColumnPatch ==
    ASSUME NEW first \in Seq(Patch), NEW n \in Nat, n < Len(first),
           NEW w, Working(w, first, n), first[n + 1].key = "column"
    PROVE  /\ Working(ApplyPatch(w, n + 1), first, n + 1)
           /\ SetsColumn(w, ApplyPatch(w, n + 1), first[n + 1])
<1> DEFINE j == n + 1
           p == first[j]
           o == w.owner[p.of]
           set == IF o = 0 THEN w.set
                  ELSE [w.set EXCEPT ![o].object[p.column] = p.value]
           y == [w EXCEPT !.overrides[p.of][p.column] = p.value, !.set = set]
<1>1. w.set[j] = p /\ p \in Patch /\ p.key = "column" /\ j \in DOMAIN first
  BY PatchAt
<1>2. p.of \in Collection /\ p.column \in Column /\ p.value \in Plain
  BY <1>1, PatchKinds
<1>3. ApplyPatch(w, j) = y BY <1>1 DEF ApplyPatch
<1>4. w \in WorkingType /\ w.set \in Seq(Patch) /\ DOMAIN w.set = DOMAIN first
  BY DEF Working, WorkingType, Reusable
<1>5. Owned(w, first, n) /\ Reusable(w.set, first) BY DEF Working
<1>6. o \in 0..n /\ n \in Nat BY <1>2, <1>5 DEF Owned
<1> HIDE DEF p
<1>7. [w.overrides EXCEPT ![p.of][p.column] = p.value]
        \in [Collection -> [Column -> Plain]]
  BY <1>2, <1>4 DEF WorkingType
<1>8. set \in Seq(Patch) /\ Reusable(set, first)
  <2>1. CASE o = 0 BY <1>4, <1>5, <2>1
  <2>2. CASE o # 0
    <3> DEFINE new == [w.set[o] EXCEPT !.object[p.column] = p.value]
    <3>1. o \in 1..n /\ o < j BY <1>6, <2>2
    <3>2. o \in DOMAIN first /\ o \in DOMAIN w.set BY <1>4, <3>1
    <3>3. /\ first[o].key = "pool" /\ first[o].of = p.of
          /\ \A m \in (o + 1)..n : ~(first[m].key = "pool" /\ first[m].of = p.of)
      BY <1>2, <1>5, <2>2 DEF Owned
    <3>4. w.set[o] \in Patch /\ w.set[o].key = "pool" /\ w.set[o].of = p.of
      BY <1>4, <1>5, <3>2, <3>3 DEF Reusable
    <3>5. /\ new \in Patch /\ new.key = "pool" /\ new.of = p.of
          /\ new.object = [w.set[o].object EXCEPT ![p.column] = p.value]
          /\ w.set[o].object \in [Column -> Plain]
      BY <1>2, <3>4, PatchKinds
    <3>6. set = [w.set EXCEPT ![o] = new] BY <2>2
    <3> HIDE DEF new, set, o
    <3>7. /\ set \in Seq(Patch) /\ DOMAIN set = DOMAIN first
          /\ \A m \in DOMAIN first : set[m] = IF m = o THEN new ELSE w.set[m]
      BY <1>4, <3>2, <3>5, <3>6
    <3>8. Rewritten(first, o, p.of, p.column)
      <4>1. (o + 1)..(j - 1) = (o + 1)..n BY <1>6
      <4> HIDE DEF j
      <4>2. j \in DOMAIN first /\ j > o /\ first[j].key = "column"
            /\ first[j].of = p.of /\ first[j].column = p.column
        BY <1>1, <3>1 DEF p
      <4> QED BY <3>3, <4>1, <4>2 DEF Rewritten
    <3>9. Reusable(set, first)
      <4> SUFFICES ASSUME NEW m \in DOMAIN first
                   PROVE  IF first[m].key = "pool"
                          THEN /\ set[m].key = "pool" /\ set[m].of = first[m].of
                               /\ \A k \in Column :
                                     \/ set[m].object[k] = first[m].object[k]
                                     \/ Rewritten(first, m, first[m].of, k)
                          ELSE set[m] = first[m]
        BY <3>7 DEF Reusable
      <4>1. CASE m # o BY <1>5, <3>7, <4>1 DEF Reusable
      <4>2. CASE m = o
        <5>1. set[m] = new BY <3>7, <4>2
        <5>2. \A k \in Column : k # p.column => new.object[k] = w.set[o].object[k]
          BY <3>5
        <5>3. \A k \in Column :
                \/ new.object[k] = first[o].object[k]
                \/ Rewritten(first, o, first[o].of, k)
          BY <1>5, <3>2, <3>3, <3>8, <5>2 DEF Reusable
        <5> QED BY <3>3, <3>5, <4>2, <5>1, <5>3
      <4> QED BY <4>1, <4>2
    <3> QED BY <3>7, <3>9
  <2> QED BY <2>1, <2>2
<1> HIDE DEF set, o
<1>9. /\ y \in WorkingType
      /\ y.fields = w.fields /\ y.set = set /\ y.owner = w.owner
      /\ y.overrides = [w.overrides EXCEPT ![p.of][p.column] = p.value]
  BY <1>4, <1>7, <1>8 DEF WorkingType
<1> HIDE DEF y
<1>10. Owned(w, first, j) BY <1>1, <1>4, <1>5, OwnedLater DEF WorkingType, p
<1>11. Owned(y, first, j) BY <1>9, <1>10 DEF Owned
<1>12. Working(y, first, j) BY <1>8, <1>9, <1>11 DEF Working
<1> QED BY <1>2, <1>3, <1>9, <1>12 DEF p, SetsColumn

\* What will be rewritten after the n-th patch will be so after the next one,
\* unless that one writes it.
LEMMA RewrittenLater ==
    ASSUME NEW first, NEW n \in Nat, NEW c, NEW k, Rewritten(first, n, c, k),
           DOMAIN first \subseteq Nat,
           first[n + 1].key = "pool" => first[n + 1].of # c,
           ~(/\ first[n + 1].key = "column" /\ first[n + 1].of = c
             /\ first[n + 1].column = k)
    PROVE  Rewritten(first, n + 1, c, k)
<1>1. PICK q \in DOMAIN first :
        /\ q > n
        /\ first[q].key = "column" /\ first[q].of = c /\ first[q].column = k
        /\ \A m \in (n + 1)..(q - 1) : ~(first[m].key = "pool" /\ first[m].of = c)
  BY DEF Rewritten
<1>2. q \in Nat /\ q # n + 1 BY <1>1
<1>3. q > n + 1 BY <1>1, <1>2
<1>4. \A m \in ((n + 1) + 1)..(q - 1) : m \in (n + 1)..(q - 1) BY <1>2
<1> QED BY <1>1, <1>3, <1>4 DEF Rewritten

\* Two uses of the same patches go on agreeing.
LEMMA PatchesAgree ==
    ASSUME NEW first \in Seq(Patch), NEW n \in Nat, n < Len(first),
           NEW w, Working(w, first, n), NEW x, Working(x, first, n),
           Agree(w, x, first, n)
    PROVE  /\ Working(ApplyPatch(w, n + 1), first, n + 1)
           /\ Working(ApplyPatch(x, n + 1), first, n + 1)
           /\ Agree(ApplyPatch(w, n + 1), ApplyPatch(x, n + 1), first, n + 1)
<1> DEFINE j == n + 1
           p == first[j]
           y == ApplyPatch(w, j)
           z == ApplyPatch(x, j)
           Same(a, b, m, c, k) == a.overrides[c][k] = b.overrides[c][k]
                                     \/ Rewritten(first, m, c, k)
<1>1. p \in Patch BY PatchAt
<1>2. p.key \in {"field", "pool", "column"} BY <1>1, PatchKinds
<1>3. DOMAIN first \subseteq Nat OBVIOUS
<1>4. \A c \in Collection, k \in Column : Same(w, x, n, c, k) BY DEF Agree
<1>5. w \in WorkingType /\ x \in WorkingType BY DEF Working
<1>6. w.fields = x.fields /\ w.owner = x.owner BY DEF Agree
<1>7. CASE p.key = "field"
  <2>1. Working(y, first, j) /\ SetsField(w, y, p) BY <1>7, FieldPatch
  <2>2. Working(z, first, j) /\ SetsField(x, z, p) BY <1>7, FieldPatch
  <2> HIDE DEF y, z
  <2> USE DEF SetsField
  <2>3. ASSUME NEW c \in Collection, NEW k \in Column PROVE Same(y, z, j, c, k)
    <3>1. Rewritten(first, n, c, k) => Rewritten(first, j, c, k)
      BY <1>3, <1>7, RewrittenLater
    <3> QED BY <1>4, <2>1, <2>2, <3>1
  <2>4. y.fields = z.fields /\ y.owner = z.owner BY <1>6, <2>1, <2>2
  <2>5. Agree(y, z, first, j) BY <2>3, <2>4 DEF Agree
  <2> QED BY <2>1, <2>2, <2>5 DEF y, z
<1>8. CASE p.key = "pool"
  <2>a. Working(y, first, j) /\ SetsPool(w, y, p, j) BY <1>8, PoolPatch
  <2>1. Working(z, first, j) /\ SetsPool(x, z, p, j) BY <1>8, PoolPatch
  <2> HIDE DEF y, z
  <2> USE DEF SetsPool
  <2>2. j \in DOMAIN first BY PatchAt
  <2>3. \A k \in Column :
          /\ w.set[j].object[k] = p.object[k] \/ Rewritten(first, j, p.of, k)
          /\ x.set[j].object[k] = p.object[k] \/ Rewritten(first, j, p.of, k)
    BY <1>8, <2>2 DEF Working, Reusable
  <2>4. ASSUME NEW c \in Collection, NEW k \in Column PROVE Same(y, z, j, c, k)
    <3>1. CASE c = p.of
      <4>1. /\ y.overrides[c] = w.set[j].object
            /\ z.overrides[c] = x.set[j].object
        BY <1>5, <2>a, <2>1, <3>1 DEF WorkingType
      <4> QED BY <2>3, <3>1, <4>1
    <3>2. CASE c # p.of
      <4>1. y.overrides[c] = w.overrides[c] /\ z.overrides[c] = x.overrides[c]
        BY <1>5, <2>a, <2>1, <3>2 DEF WorkingType
      <4>2. Rewritten(first, n, c, k) => Rewritten(first, j, c, k)
        BY <1>3, <1>8, <3>2, RewrittenLater
      <4> QED BY <1>4, <4>1, <4>2
    <3> QED BY <3>1, <3>2
  <2>5. y.fields = z.fields /\ y.owner = z.owner BY <1>6, <2>a, <2>1
  <2>6. Agree(y, z, first, j) BY <2>4, <2>5 DEF Agree
  <2> QED BY <2>a, <2>1, <2>6 DEF y, z
<1>9. CASE p.key = "column"
  <2>a. Working(y, first, j) /\ SetsColumn(w, y, p) BY <1>9, ColumnPatch
  <2>1. Working(z, first, j) /\ SetsColumn(x, z, p) BY <1>9, ColumnPatch
  <2> HIDE DEF y, z
  <2> USE DEF SetsColumn
  <2>2. ASSUME NEW c \in Collection, NEW k \in Column PROVE Same(y, z, j, c, k)
    <3>1. CASE c = p.of /\ k = p.column
      <4>1. y.overrides[c][k] = p.value /\ z.overrides[c][k] = p.value
        BY <1>5, <2>a, <2>1, <3>1 DEF WorkingType
      <4> QED BY <4>1
    <3>2. CASE ~(c = p.of /\ k = p.column)
      <4>1. /\ y.overrides[c][k] = w.overrides[c][k]
            /\ z.overrides[c][k] = x.overrides[c][k]
        BY <1>5, <2>a, <2>1, <3>2 DEF WorkingType
      <4>2. Rewritten(first, n, c, k) => Rewritten(first, j, c, k)
        BY <1>3, <1>9, <3>2, RewrittenLater
      <4> QED BY <1>4, <4>1, <4>2
    <3> QED BY <3>1, <3>2
  <2>3. y.fields = z.fields /\ y.owner = z.owner BY <1>6, <2>a, <2>1
  <2>4. Agree(y, z, first, j) BY <2>2, <2>3 DEF Agree
  <2> QED BY <2>a, <2>1, <2>4 DEF y, z
<1> QED BY <1>2, <1>7, <1>8, <1>9

\* Applying a set of patches is what its definition says: one after the other.
LEMMA PatchedSteps ==
    ASSUME NEW n, NEW i, SetOf(n, i) \in Seq(Patch)
    PROVE  LET set == SetOf(n, i) IN
           \E after :
               /\ after = [j \in 0..Len(set) |->
                              IF j = 0 THEN Unpatched(n, set)
                              ELSE ApplyPatch(after[j - 1], j)]
               /\ Patched(n, i) = after[Len(set)]
<1> DEFINE set == SetOf(n, i)
           Steps(after, l) ==
              after = [j \in 0..l |-> IF j = 0 THEN Unpatched(n, set)
                                      ELSE ApplyPatch(after[j - 1], j)]
           T == {l \in Nat : ~ \E after : Steps(after, l)}
<1>1. ASSUME NEW l \in Nat, NEW before, l > 0, Steps(before, l - 1)
      PROVE  \E after : Steps(after, l)
  <2> DEFINE after == [j \in 0..l |-> IF j = l THEN ApplyPatch(before[l - 1], l)
                                      ELSE before[j]]
  <2>1. \A j \in 0..(l - 1) : after[j] = before[j] BY <1>1
  <2>2. after[l] = ApplyPatch(after[l - 1], l) BY <1>1, <2>1
  <2>3. \A j \in 0..(l - 1) :
          before[j] = IF j = 0 THEN Unpatched(n, set) ELSE ApplyPatch(before[j - 1], j)
    BY <1>1
  <2> HIDE DEF set
  <2>4. ASSUME NEW j \in 0..l
        PROVE after[j] = IF j = 0 THEN Unpatched(n, set) ELSE ApplyPatch(after[j - 1], j)
    <3>1. CASE j = l BY <1>1, <2>2, <3>1
    <3>2. CASE j # l /\ j = 0
      <4>1. j \in 0..(l - 1) BY <1>1, <3>2
      <4> QED BY <2>1, <2>3, <3>2, <4>1
    <3>3. CASE j # l /\ j # 0
      <4>1. j \in 0..(l - 1) /\ j - 1 \in 0..(l - 1) BY <1>1, <3>3
      <4> QED BY <2>1, <2>3, <3>3, <4>1
    <3> QED BY <3>1, <3>2, <3>3
  <2>5. after = [j \in 0..l |-> after[j]] OBVIOUS
  <2> HIDE DEF after
  <2>6. Steps(after, l) BY <2>4, <2>5
  <2> QED BY <2>6
<1> HIDE DEF set
<1>2. \E after : Steps(after, 0)
  <2>1. Steps([j \in 0..0 |-> Unpatched(n, set)], 0) OBVIOUS
  <2> QED BY <2>1
<1> HIDE DEF Steps
<1>3. T = {}
  <2> SUFFICES ASSUME T # {} PROVE FALSE OBVIOUS
  <2>1. T \in SUBSET Nat OBVIOUS
  <2> HIDE DEF T
  <2>2. PICK l \in T : \A m \in T : l <= m BY <2>1, LeastNat
  <2>3. l \in Nat /\ ~ \E after : Steps(after, l) BY <2>2 DEF T
  <2>4. l # 0 BY <1>2, <2>3
  <2>5. l - 1 \in Nat /\ l > 0 /\ ~(l <= l - 1) BY <2>3, <2>4
  <2>6. l - 1 \notin T BY <2>2, <2>5
  <2>7. PICK after : Steps(after, l - 1) BY <2>5, <2>6 DEF T
  <2> QED BY <1>1, <2>3, <2>5, <2>7
<1>4. Len(set) \in Nat BY DEF set
<1>5. \E after : Steps(after, Len(set)) BY <1>3, <1>4
<1> DEFINE chosen == CHOOSE after : Steps(after, Len(set))
<1>6. Steps(chosen, Len(set)) BY <1>5
<1>7. Patched(n, i) = chosen[Len(set)] BY DEF Patched, Steps, set, SetOf
<1> HIDE DEF chosen
<1> QED BY <1>6, <1>7 DEF Steps, set

\* Before the first patch.
LEMMA UnpatchedAgree ==
    ASSUME NEW a, NEW b, a.fields \in Fields, b.fields = a.fields,
           NEW first \in Seq(Patch), NEW set \in Seq(Patch), Reusable(set, first)
    PROVE  /\ Working(Unpatched(b, set), first, 0)
           /\ Agree(Unpatched(a, first), Unpatched(b, set), first, 0)
<1>1. [c \in Collection |-> [k \in Column |-> Undefined]]
        \in [Collection -> [Column -> Plain]]
  BY DEF Plain
<1>2. Unpatched(b, set) \in WorkingType BY <1>1 DEF Unpatched, WorkingType
<1>3. Owned(Unpatched(b, set), first, 0) BY DEF Owned, Unpatched
<1>4. Unpatched(b, set).set = set BY DEF Unpatched
<1>5. Agree(Unpatched(a, first), Unpatched(b, set), first, 0) BY DEF Agree, Unpatched
<1> QED BY <1>2, <1>3, <1>4, <1>5 DEF Working

LEMMA ReusableItself ==
    ASSUME NEW first \in Seq(Patch)
    PROVE  Reusable(first, first)
BY DEF Reusable

\* A set of patches that was used makes of a request what it made of the first,
\* and can be used again.
LEMMA PatchedAgree ==
    ASSUME NEW a, NEW b, NEW i, a.fields \in Fields, b.fields = a.fields,
           SetOf(a, i) \in Seq(Patch), SetOf(b, i) \in Seq(Patch),
           Reusable(SetOf(b, i), SetOf(a, i))
    PROVE  /\ Patched(b, i) \in WorkingType
           /\ Reusable(Patched(b, i).set, SetOf(a, i))
           /\ Patched(b, i).fields = Patched(a, i).fields
           /\ Patched(b, i).overrides = Patched(a, i).overrides
<1> DEFINE first == SetOf(a, i)
           set == SetOf(b, i)
           l == Len(first)
<1>1. first \in Seq(Patch) /\ set \in Seq(Patch) /\ Reusable(set, first) OBVIOUS
<1>2. l \in Nat /\ Len(set) = l BY <1>1 DEF Reusable
<1>3. PICK w : /\ w = [j \in 0..l |-> IF j = 0 THEN Unpatched(a, first)
                                      ELSE ApplyPatch(w[j - 1], j)]
               /\ Patched(a, i) = w[l]
  BY PatchedSteps
<1>4. PICK x : /\ x = [j \in 0..Len(set) |-> IF j = 0 THEN Unpatched(b, set)
                                             ELSE ApplyPatch(x[j - 1], j)]
               /\ Patched(b, i) = x[Len(set)]
  BY PatchedSteps
<1> HIDE DEF first, set, l
<1> DEFINE Fine(j) == /\ Working(w[j], first, j) /\ Working(x[j], first, j)
                      /\ Agree(w[j], x[j], first, j)
           T == {j \in 0..l : ~Fine(j)}
<1>5. Fine(0)
  <2>1. w[0] = Unpatched(a, first) /\ x[0] = Unpatched(b, set)
    BY <1>2, <1>3, <1>4
  <2>2. Working(w[0], first, 0) BY <1>1, <2>1, ReusableItself, UnpatchedAgree
  <2>3. Working(x[0], first, 0) /\ Agree(w[0], x[0], first, 0)
    BY <1>1, <2>1, UnpatchedAgree
  <2> QED BY <2>2, <2>3
<1>6. ASSUME NEW j \in Nat, j < l, Fine(j)
      PROVE  Fine(j + 1)
  <2>1. w[j + 1] = ApplyPatch(w[j], j + 1) /\ x[j + 1] = ApplyPatch(x[j], j + 1)
    <3>1. j + 1 \in 0..l /\ j + 1 # 0 /\ (j + 1) - 1 = j BY <1>2, <1>6
    <3> QED BY <1>2, <1>3, <1>4, <3>1
  <2>2. j < Len(first) BY <1>6 DEF l
  <2> QED BY <1>1, <1>6, <2>1, <2>2, PatchesAgree
<1> HIDE DEF Fine
<1>7. T = {}
  <2> SUFFICES ASSUME T # {} PROVE FALSE OBVIOUS
  <2>1. T \in SUBSET Nat OBVIOUS
  <2> HIDE DEF T
  <2>2. PICK j \in T : \A m \in T : j <= m BY <2>1, LeastNat
  <2>3. j \in 0..l /\ ~Fine(j) BY <2>2 DEF T
  <2>4. j # 0 BY <1>5, <2>3
  <2>5. j - 1 \in 0..l /\ j - 1 < l /\ ~(j <= j - 1) /\ (j - 1) + 1 = j
    BY <1>2, <2>3, <2>4
  <2>6. j - 1 \notin T BY <2>2, <2>5
  <2>7. Fine(j - 1) BY <2>5, <2>6 DEF T
  <2> QED BY <1>6, <2>3, <2>5, <2>7
<1>8. Fine(l) BY <1>2, <1>7
<1>9. \A c \in Collection, k \in Column : ~Rewritten(first, l, c, k)
  <2>1. DOMAIN first = 1..l BY <1>1 DEF l
  <2> QED BY <1>2, <2>1 DEF Rewritten
<1>10. w[l] \in WorkingType /\ x[l] \in WorkingType /\ Reusable(x[l].set, first)
  BY <1>8 DEF Fine, Working
<1>11. /\ w[l].fields = x[l].fields
       /\ \A c \in Collection, k \in Column : w[l].overrides[c][k] = x[l].overrides[c][k]
  BY <1>8, <1>9 DEF Fine, Agree
<1>12. w[l].overrides = x[l].overrides
  <2>1. /\ w[l].overrides \in [Collection -> [Column -> Plain]]
        /\ x[l].overrides \in [Collection -> [Column -> Plain]]
    BY <1>10 DEF WorkingType
  <2>2. \A c \in Collection : w[l].overrides[c] = x[l].overrides[c]
    BY <1>11, <2>1
  <2> QED BY <2>1, <2>2
<1> QED BY <1>2, <1>3, <1>4, <1>10, <1>11, <1>12 DEF first

-----------------------------------------------------------------------------
(* Variants, values and baggage.                                            *)

LEMMA PickInRange ==
    ASSUME NEW variants \in Seq(Variant), NEW twice
    PROVE  PickVariant(variants, twice) \in {0} \cup DOMAIN variants
<1> DEFINE reached == {i \in DOMAIN variants : twice <= 2 * Upto(variants, i)}
<1>1. DOMAIN variants = 1..Len(variants) /\ Len(variants) \in Nat OBVIOUS
<1>2. reached \in SUBSET Nat /\ reached \subseteq DOMAIN variants BY <1>1
<1>3. PickVariant(variants, twice) =
        IF Len(variants) = 0 \/ Upto(variants, Len(variants)) = 0 THEN 0
        ELSE IF reached = {} THEN Len(variants) ELSE Min(reached)
  BY DEF PickVariant
<1> HIDE DEF reached
<1>4. CASE reached # {}
  <2>1. PICK x \in reached : \A y \in reached : x <= y BY <1>2, <1>4, LeastNat
  <2>2. Min(reached) \in reached BY <2>1 DEF Min
  <2> QED BY <1>2, <1>3, <2>2
<1>5. CASE reached = {} BY <1>1, <1>3, <1>5
<1> QED BY <1>4, <1>5

\* The first part of a value tells what it is.
LEMMA PlainValues ==
    ASSUME NEW t \in Plain
    PROVE  t[1] \in {"text", "undefined"} /\ t \in Values
<1>1. CASE t = Undefined BY <1>1 DEF Undefined, Values, Template, Plain
<1>2. CASE \E x \in Texts : t = Text(x) BY <1>2 DEF Text, Values, Template, Plain
<1> QED BY <1>1, <1>2 DEF Plain

LEMMA TemplateValues ==
    ASSUME NEW t \in Template
    PROVE  /\ IsData(t) => t[2] \in Collection /\ t[3] \in Column
           /\ ~IsData(t) => t \in Plain
<1>1. CASE t \in Plain
  <2>1. ~IsData(t) BY <1>1, PlainValues DEF IsData
  <2> QED BY <1>1, <2>1
<1>2. CASE \E c \in Collection, k \in Column : t = Data(c, k)
  <2>1. PICK c \in Collection, k \in Column : t = Data(c, k) BY <1>2
  <2>2. t[1] = "data" /\ t[2] = c /\ t[3] = k BY <2>1 DEF Data
  <2> QED BY <2>2 DEF IsData
<1> QED BY <1>1, <1>2 DEF Template

LEMMA CellValues ==
    ASSUME NEW c, NEW k, NEW row
    PROVE  /\ Cell(c, k, row)[1] = "cell" /\ Cell(c, k, row)[2] = c
           /\ Cell(c, k, row)[4] = row
BY DEF Cell

LEMMA NoValueIsTrace ==
    ASSUME NEW t \in Values
    PROVE  t[1] # "meta-trace-id"
<1>1. CASE t \in Plain BY <1>1, PlainValues
<1>2. CASE \E c \in Collection, k \in Column : t = Data(c, k) BY <1>2 DEF Data
<1>3. CASE \E c \in Collection, k \in Column, row \in Row : t = Cell(c, k, row)
  BY <1>3 DEF Cell
<1> QED BY <1>1, <1>2, <1>3 DEF Values, Template

\* What becomes of a template.
LEMMA EvaluateResult ==
    ASSUME NEW w \in WorkingType, NEW data, NEW draw \in [Position -> Row],
           NEW f \in Position
    PROVE  LET t == w.fields[Field[f]]
               value == Evaluate(w, data, draw, f)
           IN  \/ ~IsData(t) /\ value = t /\ value \in Plain
               \/ /\ IsData(t) /\ Overridden(w, t)
                  /\ value = w.overrides[t[2]][t[3]] /\ value \in Plain
               \/ IsData(t) /\ ~Overridden(w, t) /\ value = Undefined
               \/ /\ IsData(t) /\ ~Overridden(w, t)
                  /\ t[2] \in Collection /\ t[3] \in Column
                  /\ Cached(w, t[2], draw, f) \in Row
                  /\ value = Cell(t[2], t[3], Cached(w, t[2], draw, f))
<1> DEFINE t == w.fields[Field[f]]
           value == Evaluate(w, data, draw, f)
<1>1. t \in Template
  <2>1. Field[f] \in {"path", "baggage", "body"} BY DEF Field, Position
  <2> QED BY <2>1 DEF WorkingType, Fields
<1>2. CASE ~IsData(t) BY <1>1, <1>2, TemplateValues DEF Evaluate
<1>3. CASE IsData(t) /\ Overridden(w, t)
  <2>1. t[2] \in Collection /\ t[3] \in Column BY <1>1, <1>3, TemplateValues
  <2>2. w.overrides[t[2]][t[3]] \in Plain BY <2>1 DEF WorkingType
  <2>3. value = w.overrides[t[2]][t[3]] BY <1>3 DEF Evaluate
  <2> QED BY <1>3, <2>2, <2>3
<1>4. CASE IsData(t) /\ ~Overridden(w, t)
  <2>1. t[2] \in Collection /\ t[3] \in Column BY <1>1, <1>4, TemplateValues
  <2> DEFINE needing == {g \in Position : Needs(w, g, t[2])}
  <2>2. f \in needing BY <1>4 DEF Needs
  <2>3. Position \subseteq Nat BY DEF Position, Field
  <2> HIDE DEF t
  <2>4. needing \in SUBSET Nat /\ needing # {} BY <2>2, <2>3
  <2>5. PICK g \in needing : \A h \in needing : g <= h BY <2>4, LeastNat
  <2>6. \E g1 \in Position :
          Needs(w, g1, t[2]) /\ \A h \in Position : Needs(w, h, t[2]) => g1 <= h
    BY <2>5
  <2>7. Cached(w, t[2], draw, f) \in Row BY <2>6 DEF Cached
  <2>8. value = IF data[t[2]] = {} THEN Undefined
                ELSE Cell(t[2], t[3], Cached(w, t[2], draw, f))
    BY <1>4 DEF Evaluate, t
  <2> HIDE DEF value
  <2>9. CASE data[t[2]] = {} BY <1>4, <2>8, <2>9 DEF t, value
  <2>10. CASE data[t[2]] # {} BY <1>4, <2>1, <2>7, <2>8, <2>10 DEF t, value
  <2> QED BY <2>9, <2>10
<1> QED BY <1>2, <1>3, <1>4

\* The header of a request names this trace, in one entry.
NamesTrace(b, trace) ==
    \E e \in DOMAIN b :
        /\ b[e] = <<"meta-trace-id", trace>>
        /\ \A d \in DOMAIN b : b[d][1] = "meta-trace-id" => d = e

LEMMA BaggageOf ==
    ASSUME NEW existing \in Values, NEW trace \in Trace, parsed.label \in Plain
    PROVE  /\ WithTracing(existing, trace)
                  \in Seq(Values \cup {<<"meta-trace-id", t>> : t \in Trace}
                                \cup {<<"atropos.workflow", t>> : t \in Plain})
           /\ NamesTrace(WithTracing(existing, trace), trace)
<1> DEFINE first == <<"meta-trace-id", trace>>
           second == <<"atropos.workflow", parsed.label>>
           All == Values \cup {<<"meta-trace-id", t>> : t \in Trace}
                         \cup {<<"atropos.workflow", t>> : t \in Plain}
           tail == Entries(trace)
           b == WithTracing(existing, trace)
<1>1. /\ first \in All /\ second \in All /\ existing \in All
      /\ first[1] = "meta-trace-id"
      /\ second[1] # "meta-trace-id" /\ existing[1] # "meta-trace-id"
  BY NoValueIsTrace
<1>2. b = (IF existing = Undefined THEN << >> ELSE <<existing>>) \o tail
  BY DEF WithTracing
<1>3. tail = <<first>> \o (IF parsed.label = Undefined THEN << >> ELSE <<second>>)
  BY DEF Entries
<1>4. first = <<"meta-trace-id", trace>> OBVIOUS
<1> HIDE DEF first, second, All, b, tail
<1>5. tail = <<first>> \/ tail = <<first, second>>
  <2>1. <<first>> \in Seq(All) /\ <<second>> \in Seq(All) BY <1>1
  <2>2. CASE parsed.label = Undefined BY <1>3, <2>1, <2>2
  <2>3. CASE parsed.label # Undefined
    <3>1. tail = <<first>> \o <<second>> BY <1>3, <2>3
    <3>2. tail \in Seq(All) /\ Len(tail) = 2 /\ tail[1] = first /\ tail[2] = second
      BY <2>1, <3>1, ConcatProperties
    <3>3. <<first, second>> \in Seq(All) BY <1>1
    <3> QED BY <3>2, <3>3
  <2> QED BY <2>2, <2>3
<1>6. tail \in Seq(All)
  <2>1. <<first>> \in Seq(All) BY <1>1
  <2>2. <<first, second>> \in Seq(All) BY <1>1
  <2> QED BY <1>5, <2>1, <2>2
<1>7. CASE existing = Undefined
  <2>1. b = tail BY <1>2, <1>6, <1>7
  <2>2. NamesTrace(b, trace)
    <3>1. 1 \in DOMAIN b /\ b[1] = first BY <1>5, <2>1
    <3>2. \A d \in DOMAIN b : d = 1 \/ b[d] = second BY <1>5, <2>1
    <3> QED BY <1>1, <1>4, <3>1, <3>2 DEF NamesTrace
  <2> QED BY <1>6, <2>1, <2>2 DEF b, All
<1>8. CASE existing # Undefined
  <2>1. b = <<existing>> \o tail /\ <<existing>> \in Seq(All) BY <1>1, <1>2, <1>8
  <2>2. b = <<existing, first>> \/ b = <<existing, first, second>>
    <3>1. CASE tail = <<first>>
      <4>1. /\ b \in Seq(All) /\ Len(b) = 2 /\ b[1] = existing /\ b[2] = first
        BY <1>6, <2>1, <3>1, ConcatProperties
      <4>2. <<existing, first>> \in Seq(All) BY <1>1
      <4> QED BY <4>1, <4>2
    <3>2. CASE tail = <<first, second>>
      <4>1. /\ b \in Seq(All) /\ Len(b) = 3
            /\ b[1] = existing /\ b[2] = first /\ b[3] = second
        BY <1>6, <2>1, <3>2, ConcatProperties
      <4>2. <<existing, first, second>> \in Seq(All) BY <1>1
      <4> QED BY <4>1, <4>2
    <3> QED BY <1>5, <3>1, <3>2
  <2>3. b \in Seq(All) BY <1>1, <1>6, <2>1, ConcatProperties
  <2>4. NamesTrace(b, trace)
    <3>1. 2 \in DOMAIN b /\ b[2] = first BY <2>2
    <3>2. \A d \in DOMAIN b : d = 2 \/ b[d] = existing \/ b[d] = second BY <2>2
    <3> QED BY <1>1, <1>4, <3>1, <3>2 DEF NamesTrace
  <2> QED BY <2>3, <2>4 DEF b, All
<1> QED BY <1>7, <1>8

-----------------------------------------------------------------------------
(* The steps.                                                               *)

LEMMA NodeParts ==
    ASSUME NEW n \in RequestNode
    PROVE  /\ n.label \in Plain /\ n.fields \in Fields /\ n.variants \in Seq(Variant)
           /\ \A i \in DOMAIN n.variants :
                 n.variants[i].set \in Seq(Patch) /\ n.variants[i].weight \in Nat
<1>1. n.label \in Plain /\ n.fields \in Fields /\ n.variants \in Seq(Variant)
  BY DEF RequestNode
<1>2. \A i \in DOMAIN n.variants : n.variants[i] \in Variant BY <1>1
<1> QED BY <1>1, <1>2 DEF Variant

\* A runtime that has patched its node makes the request of the parsed node.
LEMMA PatchedLikeParsed ==
    ASSUME TemplatesInv, NEW v \in VU, NEW i \in {0} \cup DOMAIN parsed.variants
    PROVE  /\ Patched(node[v], i) \in WorkingType
           /\ Reusable(Patched(node[v], i).set, SetOf(parsed, i))
           /\ Patched(node[v], i).fields = Patched(parsed, i).fields
           /\ Patched(node[v], i).overrides = Patched(parsed, i).overrides
<1>1. parsed \in RequestNode /\ node[v] \in RequestNode
  BY NodesAssumption DEF TemplatesInv, TypeOK
<1>2. /\ node[v].fields = parsed.fields
      /\ DOMAIN node[v].variants = DOMAIN parsed.variants
      /\ \A j \in DOMAIN parsed.variants :
            Reusable(node[v].variants[j].set, parsed.variants[j].set)
  BY DEF TemplatesInv, NodesReusable
<1>3. /\ parsed.fields \in Fields
      /\ SetOf(parsed, i) \in Seq(Patch) /\ SetOf(node[v], i) \in Seq(Patch)
      /\ Reusable(SetOf(node[v], i), SetOf(parsed, i))
  <2>1. CASE i = 0
    <3>1. << >> \in Seq(Patch) OBVIOUS
    <3> QED BY <1>1, <2>1, <3>1, NodeParts, ReusableItself DEF SetOf
  <2>2. CASE i # 0 BY <1>1, <1>2, <2>2, NodeParts DEF SetOf
  <2> QED BY <2>1, <2>2
<1> QED BY <1>2, <1>3, PatchedAgree

\* What a request leaves behind is the parsed node up to what will be rewritten.
LEMMA LeftBehindReusable ==
    ASSUME NEW n \in RequestNode, NEW i \in {0} \cup DOMAIN n.variants, NEW w \in WorkingType
    PROVE  LET m == LeftBehind(n, i, w) IN
           /\ m \in RequestNode
           /\ m.label = n.label /\ m.fields = n.fields
           /\ DOMAIN m.variants = DOMAIN n.variants
           /\ \A j \in DOMAIN n.variants :
                 /\ m.variants[j].weight = n.variants[j].weight
                 /\ m.variants[j].set = IF j = i THEN w.set ELSE n.variants[j].set
<1> DEFINE m == LeftBehind(n, i, w)
<1>1. DOMAIN n.variants = 1..Len(n.variants) /\ Len(n.variants) \in Nat
  BY NodeParts
<1>2. CASE i = 0 BY <1>1, <1>2 DEF LeftBehind
<1>3. CASE i # 0
  <2> DEFINE new == [n.variants[i] EXCEPT !.set = w.set]
             all == [n.variants EXCEPT ![i] = new]
  <2>1. n.variants[i] \in Variant /\ n.variants \in Seq(Variant) BY <1>3, NodeParts
  <2>2. w.set \in Seq(Patch) BY DEF WorkingType
  <2>3. new \in Variant /\ new.set = w.set /\ new.weight = n.variants[i].weight
    BY <2>1, <2>2 DEF Variant
  <2>4. m = [n EXCEPT !.variants = all] BY <1>3 DEF LeftBehind
  <2> HIDE DEF new, m
  <2>5. /\ all \in Seq(Variant) /\ DOMAIN all = DOMAIN n.variants
        /\ \A j \in DOMAIN n.variants : all[j] = IF j = i THEN new ELSE n.variants[j]
    BY <1>3, <2>1, <2>3
  <2> HIDE DEF all
  <2>6. /\ m \in RequestNode
        /\ m.label = n.label /\ m.fields = n.fields /\ m.variants = all
    BY <2>4, <2>5 DEF RequestNode
  <2> QED BY <2>3, <2>5, <2>6 DEF m
<1> QED BY <1>2, <1>3

\* The three properties, of one request.
OneRow(q) ==
    \A f, g \in Position :
        LET x == q.values[f]
            y == q.values[g]
        IN  x[1] = "cell" /\ y[1] = "cell" /\ x[2] = y[2] => x[4] = y[4]

Independent(q) ==
    LET first == Patched(parsed, q.pick)
    IN  \A f \in Position : q.values[f] \in MadeOf(first, first.fields[Field[f]])

Traced(q) == NamesTrace(q.baggage, setup.trace)

\* The values of a request come from the parsed node and from one row per pool.
LEMMA ValuesOf ==
    ASSUME NEW first, NEW w \in WorkingType, NEW data, NEW draw \in [Position -> Row],
           w.fields = first.fields, w.overrides = first.overrides,
           NEW q, q.values = [f \in Position |-> Evaluate(w, data, draw, f)]
    PROVE  /\ q.values \in [Position -> Values]
           /\ OneRow(q)
           /\ \A f \in Position : q.values[f] \in MadeOf(first, first.fields[Field[f]])
<1> DEFINE T(f) == w.fields[Field[f]]
<1>1. \A f \in Position :
        \/ ~IsData(T(f)) /\ q.values[f] = T(f) /\ q.values[f] \in Plain
        \/ /\ IsData(T(f)) /\ Overridden(w, T(f))
           /\ q.values[f] = w.overrides[T(f)[2]][T(f)[3]] /\ q.values[f] \in Plain
        \/ IsData(T(f)) /\ ~Overridden(w, T(f)) /\ q.values[f] = Undefined
        \/ /\ IsData(T(f)) /\ ~Overridden(w, T(f))
           /\ T(f)[2] \in Collection /\ T(f)[3] \in Column
           /\ Cached(w, T(f)[2], draw, f) \in Row
           /\ q.values[f] = Cell(T(f)[2], T(f)[3], Cached(w, T(f)[2], draw, f))
  <2> SUFFICES ASSUME NEW f \in Position
               PROVE  \/ ~IsData(T(f)) /\ q.values[f] = T(f) /\ q.values[f] \in Plain
                      \/ /\ IsData(T(f)) /\ Overridden(w, T(f))
                         /\ q.values[f] = w.overrides[T(f)[2]][T(f)[3]]
                         /\ q.values[f] \in Plain
                      \/ /\ IsData(T(f)) /\ ~Overridden(w, T(f))
                         /\ q.values[f] = Undefined
                      \/ /\ IsData(T(f)) /\ ~Overridden(w, T(f))
                         /\ T(f)[2] \in Collection /\ T(f)[3] \in Column
                         /\ Cached(w, T(f)[2], draw, f) \in Row
                         /\ q.values[f]
                              = Cell(T(f)[2], T(f)[3], Cached(w, T(f)[2], draw, f))
    OBVIOUS
  <2>1. q.values[f] = Evaluate(w, data, draw, f) OBVIOUS
  <2> QED BY <2>1, EvaluateResult
<1>2. Undefined \in Plain BY DEF Plain
<1>3. \A f \in Position :
        \/ q.values[f] \in Plain
        \/ \E c \in Collection, k \in Column, row \in Row : q.values[f] = Cell(c, k, row)
  BY <1>1, <1>2
<1>4. \A f \in Position : q.values[f] \in Values BY <1>3, PlainValues DEF Values
<1>5. q.values \in [Position -> Values] BY <1>4
<1>6. OneRow(q)
  <2> SUFFICES ASSUME NEW f \in Position, NEW g \in Position,
                      q.values[f][1] = "cell", q.values[g][1] = "cell",
                      q.values[f][2] = q.values[g][2]
               PROVE  q.values[f][4] = q.values[g][4]
    BY DEF OneRow
  <2>1. q.values[f] \notin Plain /\ q.values[g] \notin Plain BY PlainValues
  <2>2. /\ q.values[f] = Cell(T(f)[2], T(f)[3], Cached(w, T(f)[2], draw, f))
        /\ q.values[g] = Cell(T(g)[2], T(g)[3], Cached(w, T(g)[2], draw, g))
    BY <1>1, <1>2, <2>1
  <2>3. T(f)[2] = T(g)[2] BY <2>2, CellValues
  <2>4. Cached(w, T(f)[2], draw, f) = Cached(w, T(g)[2], draw, g)
    BY <2>3 DEF Cached
  <2> HIDE DEF T
  <2> QED BY <2>2, <2>4, CellValues
<1>7. \A f \in Position : T(f) = first.fields[Field[f]] OBVIOUS
<1>8. \A f \in Position : q.values[f] \in MadeOf(w, T(f)) BY <1>1 DEF MadeOf
<1>9. \A t : MadeOf(w, t) = MadeOf(first, t) BY DEF MadeOf, Overridden
<1> HIDE DEF T
<1>10. \A f \in Position : q.values[f] \in MadeOf(first, first.fields[Field[f]])
  BY <1>7, <1>8, <1>9
<1> QED BY <1>5, <1>6, <1>10

\* A request of the run, and what it leaves behind.
LEMMA PrepareRequest ==
    ASSUME TemplatesInv, NEW v \in VU, Prepare(v)
    PROVE  \E q \in Request :
               /\ sent' = Append(sent, q) /\ Len(sent) < MaxSent
               /\ UNCHANGED <<parsed, own, setup>>
               /\ node' \in [VU -> RequestNode] /\ NodesReusable'
               /\ OneRow(q) /\ Independent(q) /\ Traced(q)
<1>1. PICK twice \in Draws(parsed.variants), draw \in [Position -> Row] :
        LET i == PickVariant(node[v].variants, twice)
            working == Patched(node[v], i)
            resolved == [f \in Position |-> Evaluate(working, setup.data, draw, f)]
        IN  /\ node' = [node EXCEPT ![v] = LeftBehind(@, i, working)]
            /\ sent' = Append(sent, [vu |-> v, pick |-> i, values |-> resolved,
                                     baggage |-> WithTracing(resolved[2], RunTrace(v))])
  BY DEF Prepare
<1> DEFINE i == PickVariant(node[v].variants, twice)
           w == Patched(node[v], i)
           resolved == [f \in Position |-> Evaluate(w, setup.data, draw, f)]
           b == WithTracing(resolved[2], RunTrace(v))
           q == [vu |-> v, pick |-> i, values |-> resolved, baggage |-> b]
<1>2. /\ parsed \in RequestNode /\ node \in [VU -> RequestNode] /\ NodesReusable
      /\ setup # None /\ setup.trace \in Trace
  BY NodesAssumption DEF TemplatesInv, TypeOK, Prepare
<1>3. node[v] \in RequestNode /\ DOMAIN node[v].variants = DOMAIN parsed.variants
  BY <1>2 DEF NodesReusable
<1>4. i \in {0} \cup DOMAIN parsed.variants BY <1>3, NodeParts, PickInRange
<1>5. /\ node' = [node EXCEPT ![v] = LeftBehind(@, i, w)]
      /\ sent' = Append(sent, q)
  BY <1>1
<1> HIDE DEF i
<1>6. /\ w \in WorkingType /\ Reusable(w.set, SetOf(parsed, i))
      /\ w.fields = Patched(parsed, i).fields
      /\ w.overrides = Patched(parsed, i).overrides
  BY <1>4, PatchedLikeParsed
<1> HIDE DEF w
<1>7. q.values = resolved /\ q.pick = i /\ q.baggage = b /\ q.vu = v OBVIOUS
<1> HIDE DEF q
<1>8. q.values \in [Position -> Values] /\ OneRow(q) /\ Independent(q)
  <2> DEFINE first == Patched(parsed, i)
  <2>1. w.fields = first.fields /\ w.overrides = first.overrides BY <1>6
  <2> HIDE DEF first
  <2>2. /\ q.values \in [Position -> Values] /\ OneRow(q)
        /\ \A f \in Position : q.values[f] \in MadeOf(first, first.fields[Field[f]])
    BY <1>6, <1>7, <2>1, ValuesOf
  <2> QED BY <1>7, <2>2 DEF Independent, first
<1>9. 2 \in Position BY DEF Position, Field
<1> HIDE DEF resolved
<1>10. resolved[2] \in Values BY <1>7, <1>8, <1>9
<1>11. parsed.label \in Plain BY <1>2, NodeParts
<1>12. /\ b \in Seq(Values \cup {<<"meta-trace-id", t>> : t \in Trace}
                           \cup {<<"atropos.workflow", t>> : t \in Plain})
       /\ Traced(q)
  <2>1. RunTrace(v) = setup.trace BY DEF RunTrace
  <2> QED BY <1>2, <1>7, <1>10, <1>11, <2>1, BaggageOf DEF Traced
<1>13. i \in Nat
  <2>1. DOMAIN parsed.variants \subseteq Nat BY <1>2, NodeParts
  <2> QED BY <1>4, <2>1
<1> HIDE DEF b
<1>14. q \in Request
  <2> USE DEF q
  <2> QED BY <1>7, <1>8, <1>12, <1>13 DEF Request
<1>15. UNCHANGED <<parsed, own, setup>> /\ Len(sent) < MaxSent BY DEF Prepare
<1> DEFINE m == LeftBehind(node[v], i, w)
<1>16. /\ m \in RequestNode
       /\ m.label = node[v].label /\ m.fields = node[v].fields
       /\ DOMAIN m.variants = DOMAIN node[v].variants
       /\ \A j \in DOMAIN node[v].variants :
             /\ m.variants[j].weight = node[v].variants[j].weight
             /\ m.variants[j].set = IF j = i THEN w.set ELSE node[v].variants[j].set
  BY <1>3, <1>4, <1>6, LeftBehindReusable
<1>17. node' = [node EXCEPT ![v] = m] BY <1>5
<1> HIDE DEF m
<1>18. node' \in [VU -> RequestNode] BY <1>2, <1>16, <1>17
<1>19. ASSUME NEW u \in VU
       PROVE  /\ node'[u].label = parsed.label
              /\ node'[u].fields = parsed.fields
              /\ DOMAIN node'[u].variants = DOMAIN parsed.variants
              /\ \A j \in DOMAIN parsed.variants :
                    /\ node'[u].variants[j].weight = parsed.variants[j].weight
                    /\ Reusable(node'[u].variants[j].set, parsed.variants[j].set)
  <2>1. CASE u # v
    <3>1. node'[u] = node[u] BY <1>2, <1>17, <2>1
    <3> QED BY <1>2, <3>1 DEF NodesReusable
  <2>2. CASE u = v
    <3>1. node'[u] = m BY <1>2, <1>17, <2>2
    <3>2. \A j \in DOMAIN parsed.variants : j = i => Reusable(w.set, parsed.variants[j].set)
      <4> SUFFICES ASSUME NEW j \in DOMAIN parsed.variants, j = i
                   PROVE  Reusable(w.set, parsed.variants[j].set)
        OBVIOUS
      <4>1. i # 0 BY <1>2, NodeParts
      <4> QED BY <1>6, <4>1 DEF SetOf
    <3>3. /\ node[v].label = parsed.label /\ node[v].fields = parsed.fields
          /\ DOMAIN node[v].variants = DOMAIN parsed.variants
          /\ \A j \in DOMAIN parsed.variants :
                /\ node[v].variants[j].weight = parsed.variants[j].weight
                /\ Reusable(node[v].variants[j].set, parsed.variants[j].set)
      BY <1>2 DEF NodesReusable
    <3> QED BY <1>16, <3>1, <3>2, <3>3
  <2> QED BY <2>1, <2>2
<1>20. NodesReusable' BY <1>15, <1>19 DEF NodesReusable
<1> QED BY <1>5, <1>8, <1>12, <1>14, <1>15, <1>18, <1>20

\* The invariant: a parsed node that requests have used still makes the same
\* requests, because whatever they wrote into it is written again first.
THEOREM TemplatesInvariance == Spec => []TemplatesInv
<1>1. Init => TemplatesInv
  <2> SUFFICES ASSUME Init PROVE TemplatesInv OBVIOUS
  <2>1. parsed \in RequestNode /\ MaxSent \in Nat BY NodesAssumption DEF Init
  <2>2. NodesReusable
    <3>1. \A i \in DOMAIN parsed.variants : Reusable(parsed.variants[i].set, parsed.variants[i].set)
      BY <2>1, NodeParts, ReusableItself
    <3> QED BY <3>1 DEF Init, NodesReusable
  <2> QED BY <2>1, <2>2 DEF Init, TemplatesInv, TypeOK
<1>2. TemplatesInv /\ [Next]_vars => TemplatesInv'
  <2> SUFFICES ASSUME TemplatesInv, [Next]_vars PROVE TemplatesInv' OBVIOUS
  <2>1. ASSUME NEW v \in VU, Setup(v) PROVE TemplatesInv'
    <3>1. setup'.trace \in Trace /\ setup'.data \in [Collection -> SUBSET Row]
      BY <2>1 DEF Setup, TemplatesInv, TypeOK
    <3>2. sent' = << >> BY <2>1 DEF Setup, TemplatesInv
    <3>3. UNCHANGED <<parsed, node, own, sent>> BY <2>1 DEF Setup
    <3>4. NodesReusable' BY <3>3 DEF NodesReusable, TemplatesInv
    <3>5. TypeOK' BY <3>1, <3>3 DEF TypeOK, TemplatesInv
    <3> QED BY <3>2, <3>4, <3>5 DEF TemplatesInv
  <2>2. ASSUME NEW v \in VU, Prepare(v) PROVE TemplatesInv'
    <3>1. PICK q \in Request :
            /\ sent' = Append(sent, q) /\ Len(sent) < MaxSent
            /\ UNCHANGED <<parsed, own, setup>>
            /\ node' \in [VU -> RequestNode] /\ NodesReusable'
      BY <2>2, PrepareRequest
    <3>2. setup # None BY <2>2 DEF Prepare
    <3>3. sent' \in Seq(Request) /\ Len(sent') <= MaxSent
      <4>1. sent \in Seq(Request) BY DEF TemplatesInv, TypeOK
      <4>2. sent' \in Seq(Request) /\ Len(sent') = Len(sent) + 1 BY <3>1, <4>1
      <4>3. Len(sent) \in Nat /\ MaxSent \in Nat BY <4>1, NodesAssumption
      <4> QED BY <3>1, <4>2, <4>3
    <3>4. TypeOK' BY <3>1, <3>3 DEF TypeOK, TemplatesInv
    <3> QED BY <3>1, <3>2, <3>4 DEF TemplatesInv
  <2>3. CASE UNCHANGED vars
    BY <2>3 DEF vars, TemplatesInv, TypeOK, NodesReusable
  <2> QED BY <2>1, <2>2, <2>3 DEF Next
<1> QED BY <1>1, <1>2, PTL DEF Spec

\* What every request of the run has: what a sent request has, it keeps.
LEMMA EveryRequest ==
    ASSUME NEW s \in Seq(Request), NEW q \in Request
    PROVE  /\ DOMAIN Append(s, q) = DOMAIN s \cup {Len(s) + 1}
           /\ Append(s, q)[Len(s) + 1] = q
           /\ \A n \in DOMAIN s : Append(s, q)[n] = s[n] /\ n # Len(s) + 1
OBVIOUS

\* A request shows one row of each pool, whatever its variant overrides.
THEOREM RowsCorrect == Spec => []OneRowPerRequest
<1>1. Init => OneRowPerRequest BY DEF Init, OneRowPerRequest
<1>2. TemplatesInv /\ OneRowPerRequest /\ [Next]_vars => OneRowPerRequest'
  <2> SUFFICES ASSUME TemplatesInv, OneRowPerRequest, [Next]_vars
               PROVE  OneRowPerRequest'
    OBVIOUS
  <2>1. ASSUME NEW v \in VU, Prepare(v) PROVE OneRowPerRequest'
    <3>1. PICK q \in Request : sent' = Append(sent, q) /\ OneRow(q)
      BY <2>1, PrepareRequest
    <3>2. \A n \in DOMAIN sent : OneRow(sent[n]) BY DEF OneRowPerRequest, OneRow
    <3>3. sent \in Seq(Request) BY DEF TemplatesInv, TypeOK
    <3>4. \A n \in DOMAIN sent' : OneRow(sent'[n]) BY <3>1, <3>2, <3>3, EveryRequest
    <3> QED BY <3>4 DEF OneRowPerRequest, OneRow
  <2>2. CASE UNCHANGED sent BY <2>2 DEF OneRowPerRequest
  <2> QED BY <2>1, <2>2 DEF Next, Setup, vars
<1> QED BY <1>1, <1>2, TemplatesInvariance, PTL DEF Spec

\* Requests are independent although they patch the node they share: each is what
\* its variant makes of the node as it was parsed.
THEOREM RequestsCorrect == Spec => []RequestsIndependent
<1>1. Init => RequestsIndependent BY DEF Init, RequestsIndependent
<1>2. TemplatesInv /\ RequestsIndependent /\ [Next]_vars => RequestsIndependent'
  <2> SUFFICES ASSUME TemplatesInv, RequestsIndependent, [Next]_vars
               PROVE  RequestsIndependent'
    OBVIOUS
  <2>1. ASSUME NEW v \in VU, Prepare(v) PROVE RequestsIndependent'
    <3>1. PICK q \in Request :
            sent' = Append(sent, q) /\ parsed' = parsed /\ Independent(q)
      BY <2>1, PrepareRequest
    <3>2. \A n \in DOMAIN sent : Independent(sent[n])
      BY DEF RequestsIndependent, Independent
    <3>3. sent \in Seq(Request) BY DEF TemplatesInv, TypeOK
    <3>4. \A n \in DOMAIN sent' : Independent(sent'[n])
      BY <3>1, <3>2, <3>3, EveryRequest
    <3> QED BY <3>1, <3>4 DEF RequestsIndependent, Independent
  <2>2. CASE UNCHANGED <<sent, parsed>> BY <2>2 DEF RequestsIndependent
  <2> QED BY <2>1, <2>2 DEF Next, Setup, vars
<1> QED BY <1>1, <1>2, TemplatesInvariance, PTL DEF Spec

\* All requests of a run name the one trace that setup() settled, in one entry
\* of their baggage.
THEOREM TracesCorrect == Spec => []OneTracePerRun
<1>1. Init => OneTracePerRun BY DEF Init, OneTracePerRun
<1>2. TemplatesInv /\ OneTracePerRun /\ [Next]_vars => OneTracePerRun'
  <2> SUFFICES ASSUME TemplatesInv, OneTracePerRun, [Next]_vars
               PROVE  OneTracePerRun'
    OBVIOUS
  <2>1. ASSUME NEW v \in VU, Prepare(v) PROVE OneTracePerRun'
    <3>1. PICK q \in Request :
            sent' = Append(sent, q) /\ setup' = setup /\ Traced(q)
      BY <2>1, PrepareRequest
    <3>2. \A n \in DOMAIN sent : Traced(sent[n]) BY DEF OneTracePerRun, Traced, NamesTrace
    <3>3. sent \in Seq(Request) BY DEF TemplatesInv, TypeOK
    <3>4. \A n \in DOMAIN sent' : Traced(sent'[n]) BY <3>1, <3>2, <3>3, EveryRequest
    <3> QED BY <3>1, <3>4 DEF OneTracePerRun, Traced, NamesTrace
  <2>2. ASSUME NEW v \in VU, Setup(v) PROVE OneTracePerRun'
    <3>1. sent' = << >> BY <2>2 DEF Setup, TemplatesInv
    <3> QED BY <3>1 DEF OneTracePerRun
  <2>3. CASE UNCHANGED vars BY <2>3 DEF vars, OneTracePerRun
  <2> QED BY <2>1, <2>2, <2>3 DEF Next
<1> QED BY <1>1, <1>2, TemplatesInvariance, PTL DEF Spec
=============================================================================
