---------------------------- MODULE DatasetStore ----------------------------
(***************************************************************************)
(* One dataset of the store (internal/dataset/store.go), the uploads that   *)
(* fill it (ingest.go) and the handshake that looks whether it satisfies    *)
(* the schema of a workflow (validate.go, run_handler.go:124-131).          *)
(*                                                                          *)
(* AddRows changes the dataset under Store.mu, one memory write per step.   *)
(* ValidateDataset reads it through the pointer Get returned and takes no   *)
(* lock: its reads fall between those writes.  A dataset that is deleted or *)
(* expires stays readable for whoever holds the pointer.                    *)
(*                                                                          *)
(* Of a row only its upload is kept and whether it has the fields the       *)
(* schema asks for.                                                         *)
(***************************************************************************)
EXTENDS Integers, Sequences, FiniteSets

CONSTANTS Pool,          \* the pools the schema names
          Required,      \* those that are not optional
          MinSize,       \* PoolSchema.MinSize
          Uploader,      \* POST /datasets/{id}/upload requests
          Validator,     \* POST runs requests that use the dataset
          MaxLines,      \* bound: lines of an upload that can be decoded
          MaxBatch,      \* bound: rows in a line
          None

ASSUME DatasetAssumption ==
    /\ Required \subseteq Pool
    /\ MinSize \in [Pool -> Nat]
    /\ MaxLines \in Nat /\ MaxBatch \in Nat \ {0}
    /\ None \notin Pool

VARIABLES
    entry,      \* what the cache says of the dataset
    known,      \* the keys of Dataset.Pools
    rows,       \* Pool.Rows
    rowCount,   \* Pool.Stats.RowCount
    crashed,    \* the runtime has stopped the process: a map race is fatal
    upload,     \* where each upload stands
    batch,      \* the line its loop is at
    lines,      \* lines it has decoded
    accepted,   \* IngestResult.PoolCounts
    check,      \* where each handshake stands
    todo,       \* the pools of the schema its loop has still to visit
    looking,    \* the pool it visits
    missing,    \* the pools ValidationResult.Missing names
    filled,     \* history: the pools that had rows when it began
    before      \* history: the pools that were in order when it began

dataVars == <<known, rows, rowCount>>
uploadVars == <<upload, batch, lines, accepted>>
checkVars == <<check, todo, looking, missing, filled, before>>
vars == <<entry, dataVars, crashed, uploadVars, checkVars>>

Row == [by : Uploader, full : BOOLEAN]
Batch == [pool : Pool, size : 1..MaxBatch, full : BOOLEAN]
UploadPC == {"idle", "refused", "reading", "waiting", "creating", "appending",
             "counting", "spinning", "answered"}
CheckPC == {"idle", "refused", "choosing", "fields", "size", "panicked", "done"}

TypeOK ==
    /\ entry \in {"none", "live", "expired", "deleted"}
    /\ known \in SUBSET Pool
    /\ rows \in [Pool -> Seq(Row)]
    /\ rowCount \in [Pool -> Nat]
    /\ crashed \in BOOLEAN
    /\ upload \in [Uploader -> UploadPC]
    /\ batch \in [Uploader -> Batch \cup {None}]
    /\ lines \in [Uploader -> 0..MaxLines]
    /\ accepted \in [Uploader -> [Pool -> Nat]]
    /\ check \in [Validator -> CheckPC]
    /\ todo \in [Validator -> SUBSET Pool]
    /\ looking \in [Validator -> Pool \cup {None}]
    /\ missing \in [Validator -> SUBSET Pool]
    /\ filled \in [Validator -> SUBSET Pool]
    /\ before \in [Validator -> SUBSET Pool]

Init ==
    /\ entry = "none"
    /\ known = {}
    /\ rows = [p \in Pool |-> <<>>]
    /\ rowCount = [p \in Pool |-> 0]
    /\ crashed = FALSE
    /\ upload = [u \in Uploader |-> "idle"]
    /\ batch = [u \in Uploader |-> None]
    /\ lines = [u \in Uploader |-> 0]
    /\ accepted = [u \in Uploader |-> [p \in Pool |-> 0]]
    /\ check = [v \in Validator |-> "idle"]
    /\ todo = [v \in Validator |-> {}]
    /\ looking = [v \in Validator |-> None]
    /\ missing = [v \in Validator |-> {}]
    /\ filled = [v \in Validator |-> {}]
    /\ before = [v \in Validator |-> {}]

\* Store.mu is held by the upload that is inside AddRows.
Adding(u) == upload[u] \in {"creating", "appending", "counting"}
Unlocked == \A u \in Uploader : ~Adding(u)

\* The map is being written, and whoever reads it now stops the process.
MapBusy == \E u \in Uploader : upload[u] = "creating"

\* What the schema asks of a pool; rowCount never runs ahead of the rows.
Satisfied(p) ==
    /\ p \in known
    /\ rowCount[p] >= MinSize[p]
    /\ rows[p] # <<>> => rows[p][1].full

-----------------------------------------------------------------------------
(* POST and DELETE /api/v1/datasets, and the cache's expiry.                *)

Register ==
    /\ entry = "none"
    /\ Unlocked
    /\ entry' = "live"
    /\ UNCHANGED <<dataVars, crashed, uploadVars, checkVars>>

\* The clock takes no lock.
Expire ==
    /\ entry = "live"
    /\ entry' = "expired"
    /\ UNCHANGED <<dataVars, crashed, uploadVars, checkVars>>

Delete ==
    /\ entry = "live"
    /\ Unlocked
    /\ entry' = "deleted"
    /\ UNCHANGED <<dataVars, crashed, uploadVars, checkVars>>

-----------------------------------------------------------------------------
(* POST /api/v1/datasets/{id}/upload: IngestNDJSON                          *)

MoveTo(u, pc) == upload' = [upload EXCEPT ![u] = pc]

NextLine(u) == MoveTo(u, "reading") /\ batch' = [batch EXCEPT ![u] = None]

BeginUpload(u) ==
    /\ upload[u] = "idle"
    /\ MoveTo(u, IF entry = "live" THEN "reading" ELSE "refused")
    /\ UNCHANGED <<entry, dataVars, crashed, batch, lines, accepted, checkVars>>

\* A line with a pool and rows.
ReadBatch(u) ==
    /\ upload[u] = "reading"
    /\ lines[u] < MaxLines
    /\ lines' = [lines EXCEPT ![u] = @ + 1]
    /\ \E b \in Batch : batch' = [batch EXCEPT ![u] = b]
    /\ MoveTo(u, "waiting")
    /\ UNCHANGED <<entry, dataVars, crashed, accepted, checkVars>>

\* A line without rows, or JSON of another shape.
SkipLine(u) ==
    /\ upload[u] = "reading"
    /\ lines[u] < MaxLines
    /\ lines' = [lines EXCEPT ![u] = @ + 1]
    /\ UNCHANGED <<entry, dataVars, crashed, upload, batch, accepted, checkVars>>

\* Not JSON, or cut off by the client: the decoder keeps its error and its place,
\* so More() is true and Decode fails with it for ever after.  The loop only
\* adds to IngestResult.Errors, which is left out.
ReadGarbage(u) ==
    /\ upload[u] = "reading"
    /\ MoveTo(u, "spinning")
    /\ UNCHANGED <<entry, dataVars, crashed, batch, lines, accepted, checkVars>>

\* AddRows: lock, and look the dataset and the pool up.
LockStore(u) ==
    /\ upload[u] = "waiting"
    /\ Unlocked
    /\ \/ /\ entry = "live"
          /\ MoveTo(u, IF batch[u].pool \in known THEN "appending" ELSE "creating")
          /\ UNCHANGED batch
       \/ /\ entry # "live"
          /\ NextLine(u)
    /\ UNCHANGED <<entry, dataVars, crashed, lines, accepted, checkVars>>

\* d.Pools[poolName] = pool
CreatePool(u) ==
    /\ upload[u] = "creating"
    /\ known' = known \cup {batch[u].pool}
    /\ MoveTo(u, "appending")
    /\ UNCHANGED <<entry, rows, rowCount, crashed, batch, lines, accepted, checkVars>>

NewRows(u) == [i \in 1..batch[u].size |-> [by |-> u, full |-> batch[u].full]]

AppendRows(u) ==
    /\ upload[u] = "appending"
    /\ rows' = [rows EXCEPT ![batch[u].pool] = @ \o NewRows(u)]
    /\ MoveTo(u, "counting")
    /\ UNCHANGED <<entry, known, rowCount, crashed, batch, lines, accepted, checkVars>>

\* Mutant: the pool's count is taken for what the upload has added.
CountRows_Total(u) ==
    /\ upload[u] = "counting"
    /\ LET p == batch[u].pool
       IN /\ rowCount' = [rowCount EXCEPT ![p] = Len(rows[p])]
          /\ accepted' = [accepted EXCEPT ![u][p] = Len(rows[p])]
    /\ NextLine(u)
    /\ UNCHANGED <<entry, known, rows, crashed, lines, checkVars>>

\* Mutant: the statistics are left to somebody else.
CountRows_Stale(u) ==
    /\ upload[u] = "counting"
    /\ accepted' = [accepted EXCEPT ![u][batch[u].pool] = @ + batch[u].size]
    /\ NextLine(u)
    /\ UNCHANGED <<entry, dataVars, crashed, lines, checkVars>>

\* The statistics, the end of AddRows, and the upload's own counts.
CountRows(u) ==
    /\ upload[u] = "counting"
    /\ LET p == batch[u].pool
       IN /\ rowCount' = [rowCount EXCEPT ![p] = Len(rows[p])]
          /\ accepted' = [accepted EXCEPT ![u][p] = @ + batch[u].size]
    /\ NextLine(u)
    /\ UNCHANGED <<entry, known, rows, crashed, lines, checkVars>>

\* The end of the body: 200 with the counts.
EndUpload(u) ==
    /\ upload[u] = "reading"
    /\ MoveTo(u, "answered")
    /\ UNCHANGED <<entry, dataVars, crashed, batch, lines, accepted, checkVars>>

-----------------------------------------------------------------------------
(* POST /api/v1/workflows/{id}/runs: ValidateDataset                        *)

BeginCheck(v) ==
    /\ check[v] = "idle"
    /\ \/ /\ entry = "live"
          /\ check' = [check EXCEPT ![v] = "choosing"]
          /\ todo' = [todo EXCEPT ![v] = Pool]
          /\ filled' = [filled EXCEPT ![v] = {p \in Pool : rows[p] # <<>>}]
          /\ before' = [before EXCEPT ![v] = {p \in Pool : Satisfied(p)}]
       \/ /\ entry # "live"
          /\ check' = [check EXCEPT ![v] = "refused"]
          /\ UNCHANGED <<todo, filled, before>>
    /\ UNCHANGED <<entry, dataVars, crashed, uploadVars, looking, missing>>

\* ds.Pools[name]: the range over a map has no order.
LookUp(v, p) ==
    /\ check[v] = "choosing"
    /\ p \in todo[v]
    /\ ~MapBusy
    /\ todo' = [todo EXCEPT ![v] = @ \ {p}]
    /\ \/ /\ p \in known
          /\ check' = [check EXCEPT ![v] = "fields"]
          /\ looking' = [looking EXCEPT ![v] = p]
          /\ UNCHANGED missing
       \/ /\ p \notin known
          /\ missing' = [missing EXCEPT ![v] = IF p \in Required THEN @ \cup {p} ELSE @]
          /\ UNCHANGED <<check, looking>>
    /\ UNCHANGED <<entry, dataVars, crashed, uploadVars, filled, before>>

\* The same read while AddRows writes the map.
RaceForMap(v) ==
    /\ check[v] = "choosing"
    /\ todo[v] # {}
    /\ MapBusy
    /\ crashed' = TRUE
    /\ UNCHANGED <<entry, dataVars, uploadVars, checkVars>>

Fail(v, failed) ==
    missing' = [missing EXCEPT ![v] = IF failed THEN @ \cup {looking[v]} ELSE @]

\* Mutant: every row must have the fields.
CheckFields_EveryRow(v) ==
    /\ check[v] = "fields"
    /\ Fail(v, \E i \in DOMAIN rows[looking[v]] : ~rows[looking[v]][i].full)
    /\ check' = [check EXCEPT ![v] = "size"]
    /\ UNCHANGED <<entry, dataVars, crashed, uploadVars, todo, looking, filled, before>>

\* The first row stands for all.
CheckFields(v) ==
    /\ check[v] = "fields"
    /\ Fail(v, rows[looking[v]] # <<>> /\ ~rows[looking[v]][1].full)
    /\ check' = [check EXCEPT ![v] = "size"]
    /\ UNCHANGED <<entry, dataVars, crashed, uploadVars, todo, looking, filled, before>>

\* The slice is three words: the new length with the nil pointer of an empty pool
\* panics, and net/http ends the request.
TearSlice(v) ==
    /\ check[v] = "fields"
    /\ rows[looking[v]] = <<>>
    /\ \E u \in Uploader : upload[u] = "appending" /\ batch[u].pool = looking[v]
    /\ check' = [check EXCEPT ![v] = "panicked"]
    /\ UNCHANGED <<entry, dataVars, crashed, uploadVars, todo, looking, missing, filled,
                   before>>

\* Mutant: one row short is let through.
CheckSize_OffByOne(v) ==
    /\ check[v] = "size"
    /\ Fail(v, rowCount[looking[v]] + 1 < MinSize[looking[v]])
    /\ check' = [check EXCEPT ![v] = "choosing"]
    /\ looking' = [looking EXCEPT ![v] = None]
    /\ UNCHANGED <<entry, dataVars, crashed, uploadVars, todo, filled, before>>

CheckSize(v) ==
    /\ check[v] = "size"
    /\ Fail(v, rowCount[looking[v]] < MinSize[looking[v]])
    /\ check' = [check EXCEPT ![v] = "choosing"]
    /\ looking' = [looking EXCEPT ![v] = None]
    /\ UNCHANGED <<entry, dataVars, crashed, uploadVars, todo, filled, before>>

\* The run is created: rejected if something is missing, else starting.
EndCheck(v) ==
    /\ check[v] = "choosing"
    /\ todo[v] = {}
    /\ check' = [check EXCEPT ![v] = "done"]
    /\ UNCHANGED <<entry, dataVars, crashed, uploadVars, todo, looking, missing, filled,
                   before>>

-----------------------------------------------------------------------------
StoreStep == Register \/ Expire \/ Delete

AddRowsStep(u) == LockStore(u) \/ CreatePool(u) \/ AppendRows(u) \/ CountRows(u)

UploadStep(u) ==
    \/ BeginUpload(u)
    \/ ReadBatch(u)
    \/ SkipLine(u)
    \/ ReadGarbage(u)
    \/ AddRowsStep(u)
    \/ EndUpload(u)

CheckStep(v) ==
    \/ BeginCheck(v)
    \/ \E p \in Pool : LookUp(v, p)
    \/ RaceForMap(v)
    \/ CheckFields(v)
    \/ TearSlice(v)
    \/ CheckSize(v)
    \/ EndCheck(v)

Next ==
    /\ ~crashed
    /\ \/ StoreStep
       \/ \E u \in Uploader : UploadStep(u)
       \/ \E v \in Validator : CheckStep(v)

Spec == Init /\ [][Next]_vars

\* An upload that has begun goes on while the process lives; sync.RWMutex lets
\* every waiting writer in.
UploadFairness ==
    \A u \in Uploader :
        /\ WF_vars(~crashed /\ upload[u] # "idle" /\ UploadStep(u))
        /\ SF_vars(~crashed /\ LockStore(u))

FairSpec == Spec /\ UploadFairness

-----------------------------------------------------------------------------
\* The pools a growing dataset cannot lose: the schema asks them for a row.
Solid == {p \in Pool : MinSize[p] > 0}

\* Between two calls of AddRows the statistics are those of the rows; within one
\* they lag behind, and one upload at a time is inside.
StatsExact ==
    /\ \A p \in Pool : rows[p] # <<>> => p \in known
    /\ \A p \in Pool : rowCount[p] <= Len(rows[p])
    /\ Unlocked => \A p \in Pool : rowCount[p] = Len(rows[p])
    /\ \A u \in Uploader : upload[u] = "waiting" \/ Adding(u) => batch[u] \in Batch
    /\ \A u \in Uploader : upload[u] \in {"appending", "counting"} => batch[u].pool \in known
    /\ \A u \in Uploader : Adding(u) => \A p \in Pool :
            rowCount[p] = Len(rows[p]) \/ p = batch[u].pool
    /\ \A u, w \in Uploader : Adding(u) /\ Adding(w) => u = w
    /\ \A v \in Validator : check[v] \in {"fields", "size", "panicked"} => looking[v] \in known
    /\ \A v \in Validator : check[v] = "done" => todo[v] = {}
    /\ entry = "deleted" => Unlocked

\* What a handshake has found in order is in order, whatever was uploaded since.
FoundInOrder ==
    \A v \in Validator :
        /\ \A p \in (Required \cap filled[v] \cap Solid) \ (todo[v] \cup missing[v]) :
            \/ Satisfied(p)
            \/ p = looking[v] /\ check[v] = "fields"
            \/ p = looking[v] /\ check[v] = "size" /\ rows[p][1].full
        /\ \A p \in filled[v] : rows[p] # <<>>
        /\ \A p \in before[v] \cap Solid : Satisfied(p) /\ p \in filled[v]
        /\ missing[v] \cap before[v] \cap Solid = {}
        /\ check[v] = "idle" => missing[v] = {}

OwnRows(u, p) == {i \in DOMAIN rows[p] : rows[p][i].by = u}

\* What an upload has put into a pool it has counted, save the line it is at.
Counted ==
    \A u \in Uploader : \A p \in Pool :
        LET uncounted == IF upload[u] = "counting" /\ p = batch[u].pool
                         THEN batch[u].size ELSE 0
        IN Cardinality(OwnRows(u, p)) = accepted[u][p] + uncounted

DatasetInv == TypeOK /\ StatsExact /\ FoundInOrder /\ Counted

\* The count that an upload answers for a pool is the number of its own rows in
\* it, although uploads interleave and the dataset may go at any line.
UploadExact ==
    \A u \in Uploader : \A p \in Pool : upload[u] # "counting" =>
        accepted[u][p] = Cardinality(OwnRows(u, p))

\* A run whose handshake found nothing missing has the required pools that were
\* not empty when it began in order from then on, although the handshake reads
\* without a lock while uploads go on.
VerdictSound ==
    \A v \in Validator : check[v] = "done" /\ missing[v] = {} =>
        \A p \in Required \cap filled[v] \cap Solid : Satisfied(p)

\* No pool is named missing that was in order when the handshake began.
NoFalseReject ==
    \A v \in Validator : missing[v] \cap before[v] \cap Solid = {}

\* Uploads never spoil what was in order.
ValidStays == [][\A p \in Solid : Satisfied(p) => Satisfied(p)']_vars

\* A dataset that was deleted gets no more rows: the upload's next line fails.
DeleteIsFinal == [][entry = "deleted" => UNCHANGED dataVars]_vars

-----------------------------------------------------------------------------
(* What the code says of itself and does not do: checked to fail.           *)

\* ingest.go:25 "Decode errors are recorded but do not abort the ingest
\* (lenient mode)": an upload ends, whatever its lines are.
UploadEnds ==
    \A u \in Uploader : (upload[u] = "reading") ~> (upload[u] = "answered" \/ crashed)
=============================================================================
