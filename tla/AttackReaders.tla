---------------------------- MODULE AttackReaders ----------------------------
(***************************************************************************)
(* The requests that only look at attacks: GET /attacks/{id} and its stats, *)
(* GET /attacks with or without ?status=, and the count of active attacks   *)
(* in GET /status and /metrics/summary.  They take the *Attack pointers     *)
(* under Manager.mu (Get, List) and read Status and Result after releasing  *)
(* it, while Stop and the launch goroutine write them under the lock.       *)
(*                                                                          *)
(* The reads race, so the model takes them apart.  Status is a Go string,   *)
(* two words, loaded in either order; a writer can come in between.  The    *)
(* fields are loaded in the order the handlers and the JSON encoder name    *)
(* them, Status before Result; nothing in the build fixes the machine, and  *)
(* one that reorders loads (arm64) may load them in any order.              *)
(***************************************************************************)
EXTENDS AttackManager

CONSTANT Reader    \* the requests that read attacks

VARIABLES
    reorders,      \* the machine may load Result before Status
    phase,         \* where each reader is
    wants,         \* the status it filters on, or "any"
    counts,        \* it is countActiveAttacks: the filter is all it does
    listing,       \* the objects still to be read in this pass
    kept,          \* the objects the filter let through
    obj,           \* the object being read
    left,          \* the words of it still to be loaded
    view,          \* the words loaded
    answer,        \* what the response says: <<object, status, has a result>>
    began          \* history: the listed attacks that ran when it was taken

readerVars == <<reorders, phase, wants, counts, listing, kept, obj, left, view,
                answer, began>>
allVars == <<vars, readerVars>>

StatusWords == {"ptr", "len"}
FinalStatus == {"stopped", "completed"}
Blank == [ptr |-> "none", len |-> "none", result |-> FALSE]

ReaderTypeOK ==
    /\ reorders \in BOOLEAN
    /\ phase \in [Reader -> {"idle", "filter", "encode", "answered", "notfound"}]
    /\ wants \in [Reader -> {"any", "running"} \cup FinalStatus]
    /\ counts \in [Reader -> BOOLEAN]
    /\ listing \in [Reader -> SUBSET Attack]
    /\ kept \in [Reader -> SUBSET Attack]
    /\ obj \in [Reader -> Attack \cup {None}]
    /\ left \in [Reader -> SUBSET {"ptr", "len", "result"}]
    /\ view \in [Reader -> [ptr : Statuses, len : Statuses, result : BOOLEAN]]
    /\ answer \in [Reader -> SUBSET (Attack \X (Statuses \cup {"torn"}) \X BOOLEAN)]
    /\ began \in [Reader -> SUBSET Attack]

ReaderInit ==
    /\ reorders \in BOOLEAN
    /\ phase = [r \in Reader |-> "idle"]
    /\ wants = [r \in Reader |-> "any"]
    /\ counts = [r \in Reader |-> FALSE]
    /\ listing = [r \in Reader |-> {}]
    /\ kept = [r \in Reader |-> {}]
    /\ obj = [r \in Reader |-> None]
    /\ left = [r \in Reader |-> {}]
    /\ view = [r \in Reader |-> Blank]
    /\ answer = [r \in Reader |-> {}]
    /\ began = [r \in Reader |-> {}]

-----------------------------------------------------------------------------
(* The critical sections: Manager.Get and Manager.List.                     *)

Registered == {attacks[i] : i \in ID} \ {None}
Running == {a \in Attack : status[a] = "running"}

\* The reader holds the pointers in objects; f is the status it selects.
Take(r, objects, f, counting) ==
    /\ phase' = [phase EXCEPT ![r] = IF f = "any" THEN "encode" ELSE "filter"]
    /\ wants' = [wants EXCEPT ![r] = f]
    /\ counts' = [counts EXCEPT ![r] = counting]
    /\ listing' = [listing EXCEPT ![r] = objects]
    /\ began' = [began EXCEPT ![r] = objects \cap Running]
    /\ UNCHANGED <<reorders, kept, obj, left, view, answer>>

\* handleGetAttack and handleAttackStats.
GetAttack(r) ==
    /\ phase[r] = "idle"
    /\ \E i \in ID :
        /\ attacks[i] # None
        /\ Take(r, {attacks[i]}, "any", FALSE)

GetUnknown(r) ==
    /\ phase[r] = "idle"
    /\ \E i \in ID : attacks[i] = None
    /\ phase' = [phase EXCEPT ![r] = "notfound"]
    /\ UNCHANGED <<reorders, wants, counts, listing, kept, obj, left, view,
                   answer, began>>

\* handleListAttacks.  Its other filters compare fields nobody writes.
ListAttacks(r) ==
    /\ phase[r] = "idle"
    /\ \E f \in {"any", "running"} \cup FinalStatus :
        Take(r, Registered, f, FALSE)

\* computeSummary, for GET /status and GET /metrics/summary.
CountActive(r) ==
    /\ phase[r] = "idle"
    /\ Take(r, Registered, "running", TRUE)

-----------------------------------------------------------------------------
(* The reads, without the lock.                                             *)

\* The loop, or the encoder, comes to the next attack.
NextAttack(r) ==
    /\ phase[r] \in {"filter", "encode"}
    /\ obj[r] = None
    /\ \E a \in listing[r] :
        /\ obj' = [obj EXCEPT ![r] = a]
        /\ listing' = [listing EXCEPT ![r] = @ \ {a}]
    /\ left' = [left EXCEPT ![r] = IF phase[r] = "filter" THEN StatusWords
                                   ELSE StatusWords \cup {"result"}]
    /\ UNCHANGED <<reorders, phase, wants, counts, kept, view, answer, began>>

\* Mutant: the response takes Result before it takes Status.
InTurn_ResultFirst(r, w) ==
    w # "result" => "result" \notin left[r]

\* Result comes after both words of Status, unless the machine reorders.
InTurn(r, w) ==
    w = "result" => left[r] = {"result"} \/ reorders

Load(r) ==
    /\ \E w \in left[r] :
        /\ InTurn(r, w)
        /\ view' = [view EXCEPT ![r][w] =
                        IF w = "result" THEN result[obj[r]] ELSE status[obj[r]]]
        /\ left' = [left EXCEPT ![r] = @ \ {w}]
    /\ UNCHANGED <<reorders, phase, wants, counts, listing, kept, obj, answer,
                   began>>

\* "running" and "stopped" have seven letters, "completed" nine: the words of
\* a pointer and of another status' length make a text of no status.
Text(v) ==
    IF (v.ptr = "completed") = (v.len = "completed") THEN v.ptr ELSE "torn"

\* Mutant: a status that is no longer running passes any filter on a final one.
Passes_AnyFinal(r) ==
    Text(view[r]) = wants[r] \/ {Text(view[r]), wants[r]} \subseteq FinalStatus

\* Mutant: whatever is not completed counts as running.
Passes_NotCompleted(r) ==
    IF wants[r] = "running" THEN Text(view[r]) # "completed"
    ELSE Text(view[r]) = wants[r]

Passes(r) == Text(view[r]) = wants[r]

\* The filter of handleListAttacks, the test of countActiveAttacks.
Filter(r) ==
    /\ phase[r] = "filter"
    /\ obj[r] # None
    /\ left[r] = {}
    /\ kept' = [kept EXCEPT ![r] = IF Passes(r) THEN @ \cup {obj[r]} ELSE @]
    /\ obj' = [obj EXCEPT ![r] = None]
    /\ view' = [view EXCEPT ![r] = Blank]
    /\ UNCHANGED <<reorders, phase, wants, counts, listing, left, answer, began>>

\* The filtered slice goes to the encoder, which reads every attack again.
Encode(r) ==
    /\ phase[r] = "filter"
    /\ obj[r] = None
    /\ listing[r] = {}
    /\ phase' = [phase EXCEPT ![r] = IF counts[r] THEN "answered" ELSE "encode"]
    /\ listing' = [listing EXCEPT ![r] = IF counts[r] THEN {} ELSE kept[r]]
    /\ UNCHANGED <<reorders, wants, counts, kept, obj, left, view, answer, began>>

Write(r) ==
    /\ phase[r] = "encode"
    /\ obj[r] # None
    /\ left[r] = {}
    /\ answer' = [answer EXCEPT ![r] =
                     @ \cup {<<obj[r], Text(view[r]), view[r].result>>}]
    /\ obj' = [obj EXCEPT ![r] = None]
    /\ view' = [view EXCEPT ![r] = Blank]
    /\ UNCHANGED <<reorders, phase, wants, counts, listing, kept, left, began>>

Answer(r) ==
    /\ phase[r] = "encode"
    /\ obj[r] = None
    /\ listing[r] = {}
    /\ phase' = [phase EXCEPT ![r] = "answered"]
    /\ UNCHANGED <<reorders, wants, counts, listing, kept, obj, left, view,
                   answer, began>>

-----------------------------------------------------------------------------
ReaderStep(r) ==
    \/ GetAttack(r)
    \/ GetUnknown(r)
    \/ ListAttacks(r)
    \/ CountActive(r)
    \/ NextAttack(r)
    \/ Load(r)
    \/ Filter(r)
    \/ Encode(r)
    \/ Write(r)
    \/ Answer(r)

ReadersInit == Init /\ ReaderInit

ReadersNext ==
    \/ Next /\ UNCHANGED readerVars
    \/ Up /\ (\E r \in Reader : ReaderStep(r)) /\ UNCHANGED vars

ReadersSpec == ReadersInit /\ [][ReadersNext]_allVars

-----------------------------------------------------------------------------
(* Safety.                                                                  *)

\* A response that calls an attack completed carries its result: the launch
\* goroutine stores Result before Status, and the readers load Status first
\* (attack_handler.go:182-187, the field order of attacker.go:128-131).  It is
\* the load order that makes it so, hence not on a machine that reorders.
CompletedHasResult ==
    ~reorders =>
        \A r \in Reader : \A e \in answer[r] : e[2] = "completed" => e[3]

\* The list for a final status says that status of every attack it shows,
\* though it reads each twice: a final status never changes and the two words
\* of a read that passed the filter agree (attack_handler.go:97-106).  The same
\* is not so of ?status=running, which can show an attack that has finished.
FinalFilterExact ==
    \A r \in Reader :
        wants[r] \in FinalStatus => \A e \in answer[r] : e[2] = wants[r]

\* The active attacks of a summary are counted one by one, at different times:
\* the count has every attack that ran from List to the end, and none that did
\* not run at List (health_handler.go:91-99).
ActiveCountBetween ==
    \A r \in Reader :
        phase[r] = "answered" /\ counts[r] =>
            /\ began[r] \cap Running \subseteq kept[r]
            /\ kept[r] \subseteq began[r]

-----------------------------------------------------------------------------
(* The inductive invariant behind the safety properties.                    *)

Loaded(r, w) == obj[r] # None /\ w \notin left[r]
Held(r) == listing[r] \cup kept[r] \cup ({obj[r]} \ {None})

\* A reader without an answer to give holds nothing; what is loaded is held.
PhaseAgrees(r) ==
    /\ phase[r] \in {"idle", "notfound"} =>
        /\ Held(r) = {} /\ answer[r] = {} /\ began[r] = {}
        /\ wants[r] = "any" /\ ~counts[r]
    /\ left[r] # {} => obj[r] # None

\* A word loaded is the status of its object then: a final one still is.
WordsKnow(r) ==
    /\ \A a \in Held(r) \cup began[r] : status[a] # "none"
    /\ \A w \in StatusWords :
        Loaded(r, w) =>
            /\ view[r][w] # "none"
            /\ view[r][w] \in FinalStatus => status[obj[r]] = view[r][w]

\* Without reordering the result is the last word loaded.
ResultLast(r) ==
    ~reorders /\ phase[r] = "encode" /\ Loaded(r, "result") =>
        /\ left[r] = {}
        /\ view[r].ptr = "completed" => view[r].result

\* What a filter on a final status let through still has that status.
KeptStays(r) ==
    wants[r] \in FinalStatus =>
        /\ \A a \in kept[r] : status[a] = wants[r]
        /\ phase[r] # "filter" =>
            /\ \A a \in Held(r) : status[a] = wants[r]
            /\ \A w \in StatusWords : Loaded(r, w) => view[r][w] = wants[r]

\* The objects of a count that are not counted yet: those that did not run at
\* List have finished, and those that run now did run at List.
CountProgress(r) ==
    counts[r] =>
        /\ wants[r] = "running"
        /\ phase[r] \in {"filter", "answered"}
        /\ kept[r] \subseteq began[r]
        /\ began[r] \cap Running \subseteq Held(r)
        /\ phase[r] = "answered" => Held(r) = kept[r]
        /\ \A a \in Held(r) \ began[r] : status[a] \in FinalStatus
        /\ \A w \in StatusWords :
            Loaded(r, w) /\ view[r][w] = "running" => obj[r] \in began[r]

\* What a reader knows of the attacks it holds.
Knows(r) ==
    /\ PhaseAgrees(r)
    /\ WordsKnow(r)
    /\ ResultLast(r)
    /\ KeptStays(r)
    /\ CountProgress(r)

ReadersInv ==
    /\ ReaderTypeOK
    /\ \A r \in Reader : Knows(r)
    /\ CompletedHasResult
    /\ FinalFilterExact
=============================================================================
