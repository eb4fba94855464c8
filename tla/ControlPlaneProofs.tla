------------------------- MODULE ControlPlaneProofs -------------------------
(***************************************************************************)
(* Proofs about ControlPlane, for any number of requests, ids and names:    *)
(* the name index is exact, concurrent POSTs lose no name, and a DELETE     *)
(* spares the active runs it could see.                                     *)
(***************************************************************************)
EXTENDS ControlPlane, TLAPS

-----------------------------------------------------------------------------
(* The store's two writing operations, whoever calls them.                  *)

\* Register takes an id and a name that are both free, so the inverse grows.
LEMMA RegisterKeepsIndex ==
    ASSUME Store!TypeOK, IndexMatches,
           NEW i \in WorkflowID, NEW n \in Name, Store!Register(i, n)
    PROVE  Store!TypeOK' /\ IndexMatches'
BY PlaneAssumption DEF Store!TypeOK, IndexMatches, Store!IndexMatches,
   Store!Register, Store!CanRegister, Store!Exists

\* Delete takes the name out by the workflow's own name, which is its only id.
LEMMA DeleteKeepsIndex ==
    ASSUME Store!TypeOK, IndexMatches, NEW i \in WorkflowID, Store!Delete(i)
    PROVE  Store!TypeOK' /\ IndexMatches'
<1> USE PlaneAssumption DEF Store!TypeOK, IndexMatches, Store!IndexMatches,
        Store!Delete, Store!Exists
<1>1. workflows[i] \in Name /\ nameIndex[workflows[i]] = i OBVIOUS
<1>2. Store!TypeOK' BY <1>1
<1>3. ASSUME NEW j \in WorkflowID, NEW n \in Name
      PROVE  (nameIndex[n] = j <=> workflows[j] = n)'
  <2>1. CASE j = i BY <1>1, <2>1
  <2>2. CASE j # i BY <1>1, <2>2
  <2> QED BY <2>1, <2>2
<1> QED BY <1>2, <1>3

\* The id an overwriting POST has found is an id.
LEMMA GetByNameType ==
    ASSUME Store!TypeOK, NEW n \in Name
    PROVE  Store!GetByName(n) \in WorkflowID \cup {None}
BY DEF Store!TypeOK, Store!GetByName

-----------------------------------------------------------------------------
(* Each kind of request preserves the inductive invariant.                  *)

Inv == TypeOK /\ IndexMatches /\ CheckedTerminal /\ Requests

LEMMA PostPreserves ==
    ASSUME Inv, NEW p \in Poster, PostStep(p)
    PROVE  Inv'
<1> USE PlaneAssumption DEF Inv, TypeOK, CheckedTerminal, Requests,
        PosterPC, startVars, removeVars, workflowVars
<1>1. CASE BeginPost(p)
  <2>1. (TypeOK /\ Requests)' BY <1>1, GetByNameType DEF BeginPost, Store!TypeOK
  <2>2. IndexMatches' BY <1>1 DEF BeginPost, IndexMatches, Store!IndexMatches
  <2>3. CheckedTerminal' BY <1>1 DEF BeginPost
  <2> QED BY <2>1, <2>2, <2>3
<1>2. CASE DropOld(p)
  <2>1. Store!TypeOK' /\ IndexMatches'
    <3>1. CASE Store!Delete(oldID[p]) BY <1>2, <3>1, DeleteKeepsIndex DEF DropOld
    <3>2. CASE UNCHANGED workflowVars
      BY <3>2 DEF Store!TypeOK, IndexMatches, Store!IndexMatches
    <3> QED BY <1>2, <3>1, <3>2 DEF DropOld
  <2> QED BY <1>2, <2>1 DEF DropOld
<1>3. CASE RegisterNew(p)
  <2>1. Store!TypeOK' /\ IndexMatches'
    BY <1>3, RegisterKeepsIndex DEF RegisterNew
  <2> QED BY <1>3, <2>1 DEF RegisterNew
<1>4. CASE RegisterConflict(p)
  BY <1>4 DEF RegisterConflict, IndexMatches, Store!IndexMatches, Store!TypeOK
<1> QED BY <1>1, <1>2, <1>3, <1>4 DEF PostStep

LEMMA DatasetPreserves ==
    ASSUME Inv, NEW x \in DatasetID, DatasetStep(x)
    PROVE  Inv'
BY DEF DatasetStep, CreateDataset, Expire, Inv, PlaneInv, TypeOK, CheckedTerminal,
   Requests, workflowVars, postVars, startVars, removeVars, IndexMatches,
   Store!IndexMatches, Store!TypeOK

LEMMA StartPreserves ==
    ASSUME Inv, NEW c \in Starter, StartStep(c)
    PROVE  Inv'
<1> USE DEF Inv, TypeOK, Requests, StarterPC, Terminal, workflowVars,
        postVars, removeVars
<1>1. (Requests /\ IndexMatches)' /\ Store!TypeOK'
  BY DEF StartStep, BeginStart, RegisterInline, IngestInline, Validate, CreateRun,
     StopRun, startVars, IndexMatches, Store!IndexMatches, Store!TypeOK
<1>2. TypeOK' /\ CheckedTerminal'
  <2> USE <1>1 DEF CheckedTerminal
  <2>1. CASE BeginStart(c) BY <2>1 DEF BeginStart
  <2>2. CASE RegisterInline(c) BY <2>2 DEF RegisterInline
  <2>3. CASE IngestInline(c) BY <2>3 DEF IngestInline
  <2>4. CASE Validate(c) BY <2>4 DEF Validate
  <2>5. CASE CreateRun(c) BY <2>5 DEF CreateRun
  <2>6. CASE StopRun(c) BY <2>6 DEF StopRun, startVars
  <2> QED BY <2>1, <2>2, <2>3, <2>4, <2>5, <2>6 DEF StartStep
<1> QED BY <1>1, <1>2

LEMMA RemovePreserves ==
    ASSUME Inv, NEW d \in Remover, RemoveStep(d)
    PROVE  Inv'
<1> USE DEF Inv, TypeOK, CheckedTerminal, Requests, RemoverPC,
        workflowVars, postVars, startVars, Passed
<1>1. CASE ListRuns(d)
  BY <1>1 DEF ListRuns, IndexMatches, Store!IndexMatches, Store!TypeOK
<1>2. ASSUME NEW c \in Starter, CheckRun(d, c) PROVE Inv'
  BY <1>2 DEF CheckRun, IndexMatches, Store!IndexMatches, Store!TypeOK
<1>3. CASE RemoveWorkflow(d)
  <2>1. Store!TypeOK' /\ IndexMatches'
    BY <1>3, DeleteKeepsIndex DEF RemoveWorkflow
  <2> QED BY <1>3, <2>1 DEF RemoveWorkflow
<1>4. CASE RemoveDataset(d)
  BY <1>4 DEF RemoveDataset, IndexMatches, Store!IndexMatches, Store!TypeOK
<1>5. CASE RemoveNothing(d)
  BY <1>5 DEF RemoveNothing, IndexMatches, Store!IndexMatches, Store!TypeOK
<1> QED BY <1>1, <1>2, <1>3, <1>4, <1>5 DEF RemoveStep

LEMMA InvPreserved ==
    ASSUME Inv, [Next]_vars
    PROVE  Inv'
<1>1. CASE UNCHANGED vars
  BY <1>1 DEF vars, Inv, TypeOK, CheckedTerminal, Requests, workflowVars,
     postVars, startVars, removeVars, IndexMatches, Store!IndexMatches, Store!TypeOK
<1> QED BY <1>1, PostPreserves, DatasetPreserves, StartPreserves, RemovePreserves
     DEF Next

-----------------------------------------------------------------------------
(* Names and the POSTs that own them.                                       *)

\* Only a POST and a DELETE of a workflow touch the workflow store.
LEMMA StoreSteps ==
    ASSUME [Next]_vars
    PROVE  \/ \E p \in Poster : PostStep(p)
           \/ \E d \in Remover : RemoveWorkflow(d)
           \/ UNCHANGED <<workflowVars, postVars>>
BY DEF Next, DatasetStep, CreateDataset, Expire, StartStep, BeginStart,
   RegisterInline, IngestInline, Validate, CreateRun, StopRun, RemoveStep, ListRuns,
   CheckRun, RemoveDataset, RemoveNothing, vars

\* Once registered, a POST stays so: what it registered is its for good.
LEMMA RegisteredStays ==
    ASSUME Inv, [Next]_vars, NEW p \in Poster, poster[p] = "registered"
    PROVE  UNCHANGED <<poster[p], postID[p], postName[p]>>
<1> USE DEF Inv, TypeOK
<1>1. ASSUME NEW q \in Poster, PostStep(q)
      PROVE  UNCHANGED <<poster[p], postID[p], postName[p]>>
  BY <1>1 DEF PostStep, BeginPost, DropOld, RegisterNew, RegisterConflict
<1>2. CASE UNCHANGED postVars BY <1>2 DEF postVars
<1> QED BY <1>1, <1>2, StoreSteps DEF RemoveWorkflow

\* A POST that will drop a workflow got it by its own name, from the index.
LEMMA OwnedPreserved ==
    ASSUME Inv, NamesOwned, [Next]_vars
    PROVE  NamesOwned'
<1> USE PlaneAssumption DEF Inv, TypeOK, Requests, Store!TypeOK
<1>1. Inv' BY InvPreserved
<1>2. ASSUME NEW p \in Poster, PostStep(p) PROVE NamesOwned'
  <2>1. CASE BeginPost(p)
    <3>1. ASSUME NEW i \in WorkflowID, NEW n \in Name, Registered(i, n)
          PROVE  \E q \in Poster :
                    poster'[q] = "registered" /\ postID'[q] = i /\ postName'[q] = n
      BY <3>1, RegisteredStays DEF Registered
    <3>2. ASSUME poster'[p] = "found" PROVE Registered(oldID[p], postName[p])'
      <4>1. /\ oldID'[p] \in WorkflowID /\ postName'[p] \in Name
            /\ oldID'[p] = Store!GetByName(postName'[p])
        BY <2>1, <3>2, <1>1, GetByNameType DEF BeginPost
      <4>2. workflows[oldID'[p]] = postName'[p]
        BY <4>1 DEF Store!GetByName, IndexMatches, Store!IndexMatches
      <4>3. Registered(oldID'[p], postName'[p]) BY <4>1, <4>2 DEF NamesOwned
      <4>4. \E q \in Poster : /\ poster'[q] = "registered" /\ postID'[q] = oldID'[p]
                              /\ postName'[q] = postName'[p]
        <5> HIDE DEF Inv, TypeOK, Requests, Store!TypeOK
        <5> QED BY <3>1, <4>1, <4>3
      <4> QED BY <4>4 DEF Registered
    <3>3. ASSUME NEW q \in Poster \ {p}, poster'[q] = "found"
          PROVE  Registered(oldID[q], postName[q])'
      <4>1. UNCHANGED <<poster[q], oldID[q], postName[q]>> /\ poster[q] = "found"
        BY <2>1, <3>3 DEF BeginPost
      <4>2. Registered(oldID[q], postName[q]) BY <4>1 DEF NamesOwned
      <4> QED BY <3>1, <4>1, <4>2 DEF Registered
    <3>4. ASSUME NEW i \in WorkflowID, workflows'[i] # None
          PROVE  Registered(i, workflows[i])'
      <4>1. workflows'[i] = workflows[i] /\ workflows[i] \in Name
        BY <2>1, <3>4 DEF BeginPost, workflowVars
      <4>2. Registered(i, workflows[i]) BY <3>4, <4>1 DEF NamesOwned
      <4> QED BY <3>1, <4>1, <4>2 DEF Registered
    <3> QED BY <3>2, <3>3, <3>4 DEF NamesOwned
  <2>2. CASE DropOld(p) \/ RegisterNew(p) \/ RegisterConflict(p)
    <3>1. /\ UNCHANGED <<postID, postName, oldID>>
          /\ \A q \in Poster : poster'[q] \in {"found", "registered"} =>
                poster[q] = poster'[q] \/ poster'[q] = "registered"
          /\ \A q \in Poster : poster[q] = "registered" => poster'[q] = "registered"
      BY <2>2 DEF DropOld, RegisterNew, RegisterConflict
    <3>2. ASSUME NEW i \in WorkflowID, workflows'[i] # None
          PROVE  \/ workflows[i] # None /\ workflows'[i] = workflows[i]
                 \/ /\ poster'[p] = "registered" /\ postID[p] = i
                    /\ workflows'[i] = postName[p]
      BY <2>2, <3>2 DEF DropOld, RegisterNew, RegisterConflict, workflowVars,
         Store!Delete, Store!Register
    <3> QED BY <3>1, <3>2 DEF NamesOwned, Registered
  <2> QED BY <1>2, <2>1, <2>2 DEF PostStep
<1>3. ASSUME NEW d \in Remover, RemoveWorkflow(d) PROVE NamesOwned'
  BY <1>3 DEF RemoveWorkflow, Store!Delete, postVars, NamesOwned, Registered
<1>4. CASE UNCHANGED <<workflowVars, postVars>>
  BY <1>4 DEF workflowVars, postVars, NamesOwned, Registered
<1> QED BY <1>2, <1>3, <1>4, StoreSteps

\* Ids and names are taken once and a DELETE is for good, so what a behaviour has
\* at its end it had all along.
LEMMA UndisturbedBackwards ==
    ASSUME Inv, [Next]_vars, Undisturbed'
    PROVE  Undisturbed
<1> USE PlaneAssumption DEF Inv, TypeOK, Requests, Undisturbed
<1>1. ASSUME NEW p \in Poster, NEW q \in Poster, postID[p] = postID[q]
      PROVE  postName[p] = postName[q]
  <2>1. CASE poster[p] = "idle" BY <1>1, <2>1
  <2>2. CASE poster[p] # "idle"
    <3>1. poster[q] # "idle" BY <1>1, <2>2
    <3>2. ASSUME NEW r \in Poster, poster[r] # "idle"
          PROVE  UNCHANGED <<postID[r], postName[r]>>
      <4>1. ASSUME NEW x \in Poster, PostStep(x)
            PROVE  UNCHANGED <<postID[r], postName[r]>>
        BY <3>2, <4>1 DEF PostStep, BeginPost, DropOld, RegisterNew, RegisterConflict
      <4>2. CASE UNCHANGED postVars BY <4>2 DEF postVars
      <4> QED BY <4>1, <4>2, StoreSteps DEF RemoveWorkflow
    <3> QED BY <1>1, <2>2, <3>1, <3>2
  <2> QED BY <2>1, <2>2
<1>2. ASSUME NEW d \in Remover, remover[d] = "removed"
      PROVE  UNCHANGED <<remover[d], wanted[d]>>
  BY <1>2 DEF Next, PostStep, BeginPost, DropOld, RegisterNew, RegisterConflict,
     DatasetStep, CreateDataset, Expire, StartStep, BeginStart, RegisterInline,
     IngestInline, Validate, CreateRun, StopRun, RemoveStep, ListRuns, CheckRun,
     RemoveWorkflow, RemoveDataset, RemoveNothing, Passed, removeVars, vars
<1> QED BY <1>1, <1>2

\* What an undisturbed POST drops has the name that it will register.
LEMMA DropsOwnName ==
    ASSUME Inv, NamesOwned, Undisturbed, NEW p \in Poster, poster[p] = "found",
           Store!Exists(oldID[p])
    PROVE  workflows[oldID[p]] = postName[p]
BY DEF Inv, TypeOK, Store!TypeOK, Requests, NamesOwned, Registered, Undisturbed,
   Store!Exists

\* A POST is refused only when its name is there: under its own id, which nobody
\* asks for under another name, or under another one.
LEMMA ConflictHasName ==
    ASSUME Inv, NamesOwned, Undisturbed, NEW p \in Poster, poster[p] = "ready",
           ~Store!CanRegister(postID[p], postName[p])
    PROVE  Store!GetByName(postName[p]) # None
<1> USE PlaneAssumption DEF Inv, TypeOK, Store!TypeOK, Requests, IndexMatches,
        Store!IndexMatches, Store!GetByName, Store!Exists
<1>1. CASE Store!Exists(postID[p])
  <2>1. workflows[postID[p]] = postName[p] BY <1>1 DEF NamesOwned, Registered, Undisturbed
  <2> QED BY <2>1
<1>2. CASE nameIndex[postName[p]] # None BY <1>2
<1> QED BY <1>1, <1>2 DEF Store!CanRegister

\* A name leaves the index only for a POST that will register it again, or that
\* another POST prevents by having registered it.
LEMMA KeptPreserved ==
    ASSUME Inv, NamesOwned, NameKept, [Next]_vars
    PROVE  NameKept'
<1> SUFFICES ASSUME Undisturbed', NEW p \in Poster, poster'[p] = "registered"
             PROVE  \/ Store!GetByName(postName[p])' # None
                    \/ \E q \in Poster : poster'[q] = "ready" /\ postName'[q] = postName'[p]
  BY DEF NameKept
<1> USE PlaneAssumption DEF Inv, TypeOK, Store!TypeOK, Requests
<1>1. Undisturbed BY UndisturbedBackwards
<1>2. Inv' BY InvPreserved
<1>3. poster[p] = "registered" =>
        \/ Store!GetByName(postName[p]) # None
        \/ \E q \in Poster : poster[q] = "ready" /\ postName[q] = postName[p]
  BY <1>1 DEF NameKept
<1>4. ASSUME NEW q \in Poster, BeginPost(q) PROVE NameKept'
  <2>1. UNCHANGED workflowVars /\ poster[q] = "idle" BY <1>4 DEF BeginPost
  <2>2. \A r \in Poster \ {q} : UNCHANGED <<poster[r], postName[r]>>
    BY <1>4 DEF BeginPost
  <2>3. poster'[q] \in {"ready", "found"} BY <1>4 DEF BeginPost
  <2> QED BY <1>1, <2>1, <2>2, <2>3 DEF NameKept, Store!GetByName, Store!Exists,
           workflowVars
<1>5. ASSUME NEW q \in Poster, DropOld(q) PROVE NameKept'
  <2>1. /\ UNCHANGED <<postID, postName>> /\ poster[q] = "found" /\ poster'[q] = "ready"
        /\ \A r \in Poster \ {q} : poster'[r] = poster[r]
    BY <1>5 DEF DropOld
  <2>2. \A n \in Name \ {postName[q]} :
            Store!GetByName(n) # None => /\ nameIndex'[n] = nameIndex[n]
                                         /\ workflows'[nameIndex[n]] # None
                                         /\ nameIndex'[n] # None
    <3>1. CASE Store!Delete(oldID[q])
      <4>1. workflows[oldID[q]] = postName[q]
        BY <1>1, <2>1, <3>1, DropsOwnName DEF Store!Delete
      <4> QED BY <2>1, <3>1, <4>1 DEF Store!Delete, Store!GetByName, Store!Exists,
               IndexMatches, Store!IndexMatches
    <3>2. CASE UNCHANGED workflowVars
      BY <3>2 DEF workflowVars, Store!GetByName, Store!Exists
    <3> QED BY <1>5, <3>1, <3>2 DEF DropOld
  <2> QED BY <1>1, <2>1, <2>2 DEF NameKept, Store!GetByName, Store!Exists
<1>6. ASSUME NEW q \in Poster, RegisterNew(q) PROVE NameKept'
  <2>1. /\ UNCHANGED <<postID, postName>> /\ poster[q] = "ready"
        /\ poster'[q] = "registered"
        /\ \A r \in Poster \ {q} : poster'[r] = poster[r]
    BY <1>6 DEF RegisterNew
  <2>2. /\ nameIndex'[postName[q]] = postID[q] /\ workflows'[postID[q]] = postName[q]
        /\ \A n \in Name \ {postName[q]} : nameIndex'[n] = nameIndex[n]
        /\ \A i \in WorkflowID \ {postID[q]} : workflows'[i] = workflows[i]
    BY <1>6, <2>1 DEF RegisterNew, Store!Register
  <2> QED BY <1>1, <2>1, <2>2 DEF NameKept, Store!GetByName, Store!Exists
<1>7. ASSUME NEW q \in Poster, RegisterConflict(q) PROVE NameKept'
  <2>1. /\ UNCHANGED <<workflowVars, postID, postName>> /\ poster[q] = "ready"
        /\ \A r \in Poster \ {q} : poster'[r] = poster[r]
        /\ poster'[q] = "conflict"
    BY <1>7 DEF RegisterConflict
  <2>2. Store!GetByName(postName[q]) # None
    BY <1>1, <1>7, ConflictHasName DEF RegisterConflict
  <2> QED BY <1>1, <2>1, <2>2 DEF NameKept, Store!GetByName, Store!Exists, workflowVars
<1>8. ASSUME NEW d \in Remover, RemoveWorkflow(d) PROVE FALSE
  BY <1>8 DEF RemoveWorkflow, Undisturbed
<1>9. CASE UNCHANGED <<workflowVars, postVars>>
  BY <1>3, <1>9 DEF workflowVars, postVars, Store!GetByName, Store!Exists
<1> QED BY <1>4, <1>5, <1>6, <1>7, <1>8, <1>9, StoreSteps DEF PostStep, NameKept

-----------------------------------------------------------------------------
\* What the run checks as PlaneInv holds for every number of requests: types, the
\* index, what a DELETE looked at, what each handler knows, and whose names are whose.
THEOREM PlaneInvariance == Spec => []PlaneInv
<1>1. Init => PlaneInv
  BY PlaneAssumption DEF Init, PlaneInv, TypeOK, CheckedTerminal, Requests, NamesOwned,
     NameKept, Store!Init, Store!TypeOK, IndexMatches, Store!IndexMatches, PosterPC,
     StarterPC, RemoverPC, Terminal
<1>2. PlaneInv /\ [Next]_vars => PlaneInv'
  BY InvPreserved, OwnedPreserved, KeptPreserved DEF PlaneInv, Inv
<1> QED BY <1>1, <1>2, PTL DEF Spec

LEMMA InvInvariance == Spec => []Inv
<1>1. PlaneInv => Inv BY DEF PlaneInv, Inv
<1> QED BY <1>1, PlaneInvariance, PTL

\* POSTs that overwrite each other's workflows may all be refused or take turns, but
\* between them they do not lose a name that one of them registered.
THEOREM NamesSurvive == Spec => []NameSurvives
<1>1. PlaneInv => NameSurvives
  BY DEF PlaneInv, NameSurvives, NameKept, Answered
<1> QED BY <1>1, PlaneInvariance, PTL

\* No two workflows share a name, and the index neither keeps a name too long
\* nor loses one, however POSTs that overwrite and DELETEs interleave.
THEOREM IndexCorrect == Spec => []IndexMatches
<1>1. Inv => IndexMatches BY DEF Inv
<1> QED BY <1>1, InvInvariance, PTL

\* The DELETE handlers' unlocked check is good for every run in their list.
THEOREM GuardCorrect == Spec => GuardSparesSeen
<1>1. Inv /\ [Next]_vars =>
        [\A d \in Remover : Removing(d) => \A c \in seen[d] : status[c] \in Terminal]_vars
  <2> SUFFICES ASSUME Inv, Next, NEW d \in Remover, Removing(d), NEW c \in seen[d]
               PROVE  status[c] \in Terminal
    OBVIOUS
  <2>1. Passed(d)
    BY DEF Next, PostStep, BeginPost, DropOld, RegisterNew, RegisterConflict,
       DatasetStep, CreateDataset, Expire, StartStep, BeginStart, RegisterInline,
       IngestInline, Validate, CreateRun, StopRun, RemoveStep, ListRuns, CheckRun,
       RemoveWorkflow, RemoveDataset, RemoveNothing, removeVars, Removing, Inv,
       TypeOK
  <2> QED BY <2>1 DEF Passed, Inv, CheckedTerminal
<1> QED BY <1>1, InvInvariance, PTL DEF Spec, GuardSparesSeen
=============================================================================
