---------------------------- MODULE WorkflowStore ----------------------------
(***************************************************************************)
(* The workflow store (internal/workflow/store.go): a table of workflows by *)
(* id and an index of ids by name.  Every operation is one critical section *)
(* of Store.mu; clients may choose the id of a workflow.  Of a workflow     *)
(* only the name is kept.                                                   *)
(***************************************************************************)
CONSTANTS WorkflowID, Name, None

VARIABLES
    workflows,    \* Store.workflows: the name of the workflow an id has
    nameIndex     \* Store.nameIndex

vars == <<workflows, nameIndex>>

TypeOK ==
    /\ workflows \in [WorkflowID -> Name \cup {None}]
    /\ nameIndex \in [Name -> WorkflowID \cup {None}]

Init ==
    /\ workflows = [i \in WorkflowID |-> None]
    /\ nameIndex = [n \in Name |-> None]

Exists(i) == workflows[i] # None

\* GetByName goes through the index, and looks whether the id is still there.
GetByName(n) ==
    IF nameIndex[n] # None /\ Exists(nameIndex[n]) THEN nameIndex[n] ELSE None

\* Mutant: the name is not looked up.
CanRegister_AnyName(i, n) == ~Exists(i)

CanRegister(i, n) == ~Exists(i) /\ nameIndex[n] \in {None, i}

Register(i, n) ==
    /\ CanRegister(i, n)
    /\ workflows' = [workflows EXCEPT ![i] = n]
    /\ nameIndex' = [nameIndex EXCEPT ![n] = i]

\* Mutant: the index keeps the name.
Delete_KeepsName(i) ==
    /\ Exists(i)
    /\ workflows' = [workflows EXCEPT ![i] = None]
    /\ UNCHANGED nameIndex

Delete(i) ==
    /\ Exists(i)
    /\ nameIndex' = [nameIndex EXCEPT ![workflows[i]] = None]
    /\ workflows' = [workflows EXCEPT ![i] = None]

Next ==
    \E i \in WorkflowID :
        \/ Delete(i)
        \/ \E n \in Name : Register(i, n)

Spec == Init /\ [][Next]_vars

-----------------------------------------------------------------------------
\* The table and the index are inverses of each other: no two workflows share a
\* name, no name is left behind when its workflow goes, and none is lost.
IndexMatches ==
    \A i \in WorkflowID : \A n \in Name : nameIndex[n] = i <=> workflows[i] = n
=============================================================================
