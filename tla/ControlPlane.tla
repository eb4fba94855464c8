---------------------------- MODULE ControlPlane ----------------------------
(***************************************************************************)
(* The handlers that keep workflows, datasets and runs consistent with each *)
(* other (internal/api/workflow_handler.go, dataset_handler.go and the      *)
(* first half of handleCreateRun in run_handler.go).  Each of the three     *)
(* stores has a lock of its own and no handler holds one between two calls: *)
(* every call of a store is a step.                                         *)
(*                                                                          *)
(* A member of Poster is a POST /workflows request, of Starter a POST       *)
(* /workflows/{id}/runs request and the run it makes, of Remover a DELETE   *)
(* request for a workflow or a dataset.                                     *)
(***************************************************************************)
EXTENDS FiniteSets

CONSTANTS WorkflowID, Name, DatasetID, Poster, Starter, Remover, None

ASSUME PlaneAssumption ==
    /\ None \notin WorkflowID /\ None \notin Name /\ None \notin DatasetID
    /\ WorkflowID \cap DatasetID = {}

VARIABLES
    workflows, nameIndex,         \* the workflow store
    datasets,                     \* whether the dataset store has each dataset
    status,                       \* the status of each starter's run
    poster, postID, postName,     \* POST /workflows and what its body asks for
    overwrite, oldID,             \* ... its flag, and the workflow it replaces
    starter, runWorkflow,         \* POST runs, the workflow in its path
    runDataset, strict,           \* ... its dataset, and whether a schema holds
    remover, wanted,              \* DELETE and the id in its path
    unchecked,                    \* the runs its loop has still to look at
    seen                          \* history: the runs it listed

workflowVars == <<workflows, nameIndex>>
postVars == <<poster, postID, postName, overwrite, oldID>>
startVars == <<starter, runWorkflow, runDataset, strict>>
removeVars == <<remover, wanted, unchecked, seen>>
vars == <<workflowVars, datasets, status, postVars, startVars, removeVars>>

Store == INSTANCE WorkflowStore

PosterPC == {"idle", "found", "ready", "registered", "conflict"}
StarterPC == {"idle", "found", "inlined", "bound", "valid", "invalid",
              "accepted", "rejected", "refused"}
RemoverPC == {"idle", "checking", "removed", "refused"}
Terminal == {"stopped", "rejected"}

TypeOK ==
    /\ Store!TypeOK
    /\ datasets \in [DatasetID -> {"none", "live", "gone"}]
    /\ status \in [Starter -> {"none", "starting"} \cup Terminal]
    /\ poster \in [Poster -> PosterPC]
    /\ postID \in [Poster -> WorkflowID \cup {None}]
    /\ postName \in [Poster -> Name \cup {None}]
    /\ overwrite \in [Poster -> BOOLEAN]
    /\ oldID \in [Poster -> WorkflowID \cup {None}]
    /\ starter \in [Starter -> StarterPC]
    /\ runWorkflow \in [Starter -> WorkflowID \cup {None}]
    /\ runDataset \in [Starter -> DatasetID \cup {None}]
    /\ strict \in [Starter -> BOOLEAN]
    /\ remover \in [Remover -> RemoverPC]
    /\ wanted \in [Remover -> WorkflowID \cup DatasetID \cup {None}]
    /\ unchecked \in [Remover -> SUBSET Starter]
    /\ seen \in [Remover -> SUBSET Starter]

Init ==
    /\ Store!Init
    /\ datasets = [x \in DatasetID |-> "none"]
    /\ status = [c \in Starter |-> "none"]
    /\ poster = [p \in Poster |-> "idle"]
    /\ postID = [p \in Poster |-> None]
    /\ postName = [p \in Poster |-> None]
    /\ overwrite = [p \in Poster |-> FALSE]
    /\ oldID = [p \in Poster |-> None]
    /\ starter = [c \in Starter |-> "idle"]
    /\ runWorkflow = [c \in Starter |-> None]
    /\ runDataset = [c \in Starter |-> None]
    /\ strict = [c \in Starter |-> FALSE]
    /\ remover = [d \in Remover |-> "idle"]
    /\ wanted = [d \in Remover |-> None]
    /\ unchecked = [d \in Remover |-> {}]
    /\ seen = [d \in Remover |-> {}]

-----------------------------------------------------------------------------
(* POST /api/v1/workflows                                                   *)

\* A valid document, whose id is the client's or a fresh one.  With overwrite,
\* the id that its name has now is looked up.
BeginPost(p) ==
    /\ poster[p] = "idle"
    /\ \E i \in WorkflowID, n \in Name, o \in BOOLEAN :
        /\ postID' = [postID EXCEPT ![p] = i]
        /\ postName' = [postName EXCEPT ![p] = n]
        /\ overwrite' = [overwrite EXCEPT ![p] = o]
        /\ oldID' = [oldID EXCEPT ![p] = IF o THEN Store!GetByName(n) ELSE None]
    /\ poster' = [poster EXCEPT ![p] = IF oldID'[p] = None THEN "ready" ELSE "found"]
    /\ UNCHANGED <<workflowVars, datasets, status, startVars, removeVars>>

\* The old workflow is deleted, if it is still there.  Runs are not looked at.
DropOld(p) ==
    /\ poster[p] = "found"
    /\ \/ Store!Delete(oldID[p])
       \/ ~Store!Exists(oldID[p]) /\ UNCHANGED workflowVars
    /\ poster' = [poster EXCEPT ![p] = "ready"]
    /\ UNCHANGED <<datasets, status, postID, postName, overwrite, oldID, startVars,
                   removeVars>>

\* 201
RegisterNew(p) ==
    /\ poster[p] = "ready"
    /\ Store!Register(postID[p], postName[p])
    /\ poster' = [poster EXCEPT ![p] = "registered"]
    /\ UNCHANGED <<datasets, status, postID, postName, overwrite, oldID, startVars,
                   removeVars>>

\* 409; what DropOld deleted is not put back.
RegisterConflict(p) ==
    /\ poster[p] = "ready"
    /\ ~Store!CanRegister(postID[p], postName[p])
    /\ poster' = [poster EXCEPT ![p] = "conflict"]
    /\ UNCHANGED <<workflowVars, datasets, status, postID, postName, overwrite,
                   oldID, startVars, removeVars>>

-----------------------------------------------------------------------------
(* POST /api/v1/datasets, and the cache's expiry                            *)

CreateDataset(x) ==
    /\ datasets[x] = "none"
    /\ datasets' = [datasets EXCEPT ![x] = "live"]
    /\ UNCHANGED <<workflowVars, status, postVars, startVars, removeVars>>

\* The TTL is over: Get finds nothing, whoever uses the dataset.
Expire(x) ==
    /\ datasets[x] = "live"
    /\ datasets' = [datasets EXCEPT ![x] = "gone"]
    /\ UNCHANGED <<workflowVars, status, postVars, startVars, removeVars>>

-----------------------------------------------------------------------------
(* POST /api/v1/workflows/{id}/runs                                         *)

\* The workflow is read once; it may be one with a DataSchema.
BeginStart(c) ==
    /\ starter[c] = "idle"
    /\ \E i \in WorkflowID, x \in DatasetID \cup {None}, b \in BOOLEAN :
        /\ runWorkflow' = [runWorkflow EXCEPT ![c] = i]
        /\ runDataset' = [runDataset EXCEPT ![c] = x]
        /\ strict' = [strict EXCEPT ![c] = b]
        /\ starter' = [starter EXCEPT ![c] =
              IF Store!Exists(i) THEN "found" ELSE "refused"]
    /\ UNCHANGED <<workflowVars, datasets, status, postVars, removeVars>>

\* dataset_inline, which excludes dataset_id: a dataset with a TTL of an hour.
RegisterInline(c) ==
    /\ starter[c] = "found"
    /\ runDataset[c] = None
    /\ \E x \in DatasetID :
        /\ datasets[x] = "none"
        /\ datasets' = [datasets EXCEPT ![x] = "live"]
        /\ runDataset' = [runDataset EXCEPT ![c] = x]
    /\ starter' = [starter EXCEPT ![c] = "inlined"]
    /\ UNCHANGED <<workflowVars, status, postVars, runWorkflow, strict, removeVars>>

\* AddRows for every pool: a bad pool (400) or a dataset that is gone (500)
\* ends the request and leaves the dataset behind.
IngestInline(c) ==
    /\ starter[c] = "inlined"
    /\ \E s \in {"bound", "refused"} :
        /\ s = "bound" => datasets[runDataset[c]] = "live"
        /\ starter' = [starter EXCEPT ![c] = s]
    /\ UNCHANGED <<workflowVars, datasets, status, postVars, runWorkflow, runDataset,
                   strict, removeVars>>

\* The handshake: only a workflow with a schema has its dataset looked at.
Validate(c) ==
    /\ starter[c] \in {"found", "bound"}
    /\ \E s \in {"valid", "invalid", "refused"} :
        /\ s = "refused" <=> /\ strict[c]
                             /\ runDataset[c] # None
                             /\ datasets[runDataset[c]] # "live"
        /\ s = "invalid" => strict[c] /\ runDataset[c] # None
        /\ starter' = [starter EXCEPT ![c] = s]
    /\ UNCHANGED <<workflowVars, datasets, status, postVars, runWorkflow, runDataset,
                   strict, removeVars>>

\* Runs.Create, in status starting or rejected (RunStore, RunService).
CreateRun(c) ==
    /\ starter[c] \in {"valid", "invalid"}
    /\ status' = [status EXCEPT ![c] =
          IF starter[c] = "valid" THEN "starting" ELSE "rejected"]
    /\ starter' = [starter EXCEPT ![c] =
          IF starter[c] = "valid" THEN "accepted" ELSE "rejected"]
    /\ UNCHANGED <<workflowVars, datasets, postVars, runWorkflow, runDataset, strict,
                   removeVars>>

\* DELETE /runs/{run_id}: UpdateStatus.
StopRun(c) ==
    /\ status[c] = "starting"
    /\ status' = [status EXCEPT ![c] = "stopped"]
    /\ UNCHANGED <<workflowVars, datasets, postVars, startVars, removeVars>>

-----------------------------------------------------------------------------
(* DELETE /api/v1/workflows/{id} and DELETE /api/v1/datasets/{id}           *)

\* The run uses the workflow, or the dataset, x.
Bound(c, x) == status[c] # "none" /\ x \in {runWorkflow[c], runDataset[c]}

\* Runs.List
ListRuns(d) ==
    /\ remover[d] = "idle"
    /\ \E x \in WorkflowID \cup DatasetID :
        /\ wanted' = [wanted EXCEPT ![d] = x]
        /\ seen' = [seen EXCEPT ![d] = {c \in Starter : Bound(c, x)}]
    /\ unchecked' = [unchecked EXCEPT ![d] = seen'[d]]
    /\ remover' = [remover EXCEPT ![d] = "checking"]
    /\ UNCHANGED <<workflowVars, datasets, status, postVars, startVars>>

\* Mutant: only a run that has been rejected holds the loop up.
CheckRun_WrongStatus(d, c) ==
    /\ remover[d] = "checking"
    /\ c \in unchecked[d]
    /\ unchecked' = [unchecked EXCEPT ![d] = @ \ {c}]
    /\ remover' = [remover EXCEPT ![d] =
          IF status[c] # "rejected" THEN "checking" ELSE "refused"]
    /\ UNCHANGED <<workflowVars, datasets, status, postVars, startVars, wanted, seen>>

\* The status is read through the pointer, without a lock.  409 when active.
CheckRun(d, c) ==
    /\ remover[d] = "checking"
    /\ c \in unchecked[d]
    /\ unchecked' = [unchecked EXCEPT ![d] = @ \ {c}]
    /\ remover' = [remover EXCEPT ![d] =
          IF status[c] \in Terminal THEN "checking" ELSE "refused"]
    /\ UNCHANGED <<workflowVars, datasets, status, postVars, startVars, wanted, seen>>

Passed(d) == remover[d] = "checking" /\ unchecked[d] = {}

\* 204
RemoveWorkflow(d) ==
    /\ Passed(d)
    /\ wanted[d] \in WorkflowID
    /\ Store!Delete(wanted[d])
    /\ remover' = [remover EXCEPT ![d] = "removed"]
    /\ UNCHANGED <<datasets, status, postVars, startVars, wanted, unchecked, seen>>

RemoveDataset(d) ==
    /\ Passed(d)
    /\ wanted[d] \in DatasetID
    /\ datasets[wanted[d]] = "live"
    /\ datasets' = [datasets EXCEPT ![wanted[d]] = "gone"]
    /\ remover' = [remover EXCEPT ![d] = "removed"]
    /\ UNCHANGED <<workflowVars, status, postVars, startVars, wanted, unchecked, seen>>

\* 404
RemoveNothing(d) ==
    /\ Passed(d)
    /\ \/ wanted[d] \in WorkflowID /\ ~Store!Exists(wanted[d])
       \/ wanted[d] \in DatasetID /\ datasets[wanted[d]] # "live"
    /\ remover' = [remover EXCEPT ![d] = "refused"]
    /\ UNCHANGED <<workflowVars, datasets, status, postVars, startVars, wanted,
                   unchecked, seen>>

-----------------------------------------------------------------------------
PostStep(p) ==
    \/ BeginPost(p)
    \/ DropOld(p)
    \/ RegisterNew(p)
    \/ RegisterConflict(p)

DatasetStep(x) == CreateDataset(x) \/ Expire(x)

StartStep(c) ==
    \/ BeginStart(c)
    \/ RegisterInline(c)
    \/ IngestInline(c)
    \/ Validate(c)
    \/ CreateRun(c)
    \/ StopRun(c)

RemoveStep(d) ==
    \/ ListRuns(d)
    \/ \E c \in Starter : CheckRun(d, c)
    \/ RemoveWorkflow(d)
    \/ RemoveDataset(d)
    \/ RemoveNothing(d)

Next ==
    \/ \E p \in Poster : PostStep(p)
    \/ \E x \in DatasetID : DatasetStep(x)
    \/ \E c \in Starter : StartStep(c)
    \/ \E d \in Remover : RemoveStep(d)

Spec == Init /\ [][Next]_vars

-----------------------------------------------------------------------------
(* Safety.                                                                  *)

IndexMatches == Store!IndexMatches

Removing(d) == remover[d] = "checking" /\ remover'[d] = "removed"

\* A DELETE removes nothing that is used by an active run which its handler
\* could see: the statuses it read one by one, without a lock, still hold.
GuardSparesSeen ==
    [][\A d \in Remover : Removing(d) =>
        \A c \in seen[d] : status[c] \in Terminal]_vars

Answered(p) == poster[p] \in {"registered", "conflict"}

\* No DELETE took a workflow, and no id was asked for under two names.
Undisturbed ==
    /\ \A p, q \in Poster : postID[p] = postID[q] => postName[p] = postName[q]
    /\ \A d \in Remover : remover[d] = "removed" => wanted[d] \notin WorkflowID

\* Concurrent overwriting POSTs do not lose a name: when all are answered and one
\* of them registered it, it is registered, unless a DELETE came or one
\* id was asked for under two names.
NameSurvives ==
    (\A p \in Poster : poster[p] = "idle" \/ Answered(p)) /\ Undisturbed
    => \A p \in Poster : poster[p] = "registered" =>
            Store!GetByName(postName[p]) # None

\* The inductive invariant behind GuardSparesSeen: what a DELETE has looked at
\* was terminal, and stays so.
CheckedTerminal ==
    /\ \A d \in Remover : remover[d] = "checking" =>
        \A c \in seen[d] \ unchecked[d] : status[c] \in Terminal
    /\ \A c \in Starter : status[c] # "none" <=> starter[c] \in {"accepted", "rejected"}

\* What a handler knows of its request in the phases where it uses it.
Requests ==
    /\ \A p \in Poster : poster[p] = "found" => oldID[p] \in WorkflowID
    /\ \A p \in Poster :
            IF poster[p] = "idle" THEN postID[p] = None /\ postName[p] = None
            ELSE postID[p] \in WorkflowID /\ postName[p] \in Name
    /\ \A d \in Remover : remover[d] # "idle" => wanted[d] \in WorkflowID \cup DatasetID

Registered(i, n) ==
    \E p \in Poster : poster[p] = "registered" /\ postID[p] = i /\ postName[p] = n

\* Behind NameSurvives: a POST put every workflow there, and the one that another
\* POST will drop had the name that this other POST asks for.
NamesOwned ==
    /\ \A i \in WorkflowID : workflows[i] # None => Registered(i, workflows[i])
    /\ \A p \in Poster : poster[p] = "found" => Registered(oldID[p], postName[p])

\* A name that was registered and dropped is being registered again.
NameKept ==
    Undisturbed => \A p \in Poster : poster[p] = "registered" =>
        \/ Store!GetByName(postName[p]) # None
        \/ \E q \in Poster : poster[q] = "ready" /\ postName[q] = postName[p]

PlaneInv ==
    TypeOK /\ IndexMatches /\ CheckedTerminal /\ Requests /\ NamesOwned /\ NameKept
=============================================================================
