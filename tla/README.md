# A TLA+ model of Zeus

Zeus is the execution plane of a load-testing laboratory: a Go service that launches
Vegeta attacks, keeps workflows, datasets and runs for k6 load generators, streams run
events, and exports metrics; and a set of k6 scripts that walk a workflow tree. This
directory holds TLA+ modules that model the service's stateful parts, configurations
that check them with TLC, and proofs for TLAPS. Paths below are relative to the
repository; `attacker.go` stands for `internal/attacker/attacker.go`, and so on.

The service is a handful of in-memory stores, each with a mutex of its own, and HTTP
handlers that call them. Nothing is persisted and nothing is retried. What is hard is
that no handler holds a lock across two calls, that several of them read shared structs
through pointers with no lock at all, and that an attack lives on in a goroutine after
its request was answered.

## 1. Inventory

| Component | Source | State | Operations | Hard behaviour |
|---|---|---|---|---|
| Attack manager | attacker.go | `attacks` map, per attack status, result, context, vegeta's stop channel | Launch and its goroutine, Stop, StopAll, Get, List | Stop, StopAll, timeout, parent cancellation and natural end race for one verdict; ids can be reused |
| Attack handlers | attack_handler.go | ActiveAttacks, AttacksStartedTotal | POST, DELETE, GET | the gauge moves outside the manager's lock; the request's context is the attack's parent |
| Process | cmd/zeus/main.go | the server, the signal | shutdown, StopAll, exit | handlers and attacks in flight when main returns |
| Run store | run/store.go, statemachine.go | runs by id: status, reason, end time | Create, UpdateStatus, UpdateReason, Delete | status only along the transition table |
| Run handlers | run_handler.go | ActiveRuns, RunsCompletedTotal | POST run, DELETE run, GET events | check and act on a status read without a lock; gauge outside the lock |
| SSE broker | sse/broker.go | channels registered per run | Subscribe, unsubscribe, Publish, CloseRun | a send on a closed channel panics; slow readers; publishers share a read lock |
| Workflow store | workflow/store.go | workflows by id, index of names | Register, Delete, GetByName | two maps that must agree |
| Workflow handlers | workflow_handler.go | none of their own | POST with overwrite, DELETE with a guard | look up, delete and register are three calls; the guard looks at the run store first |
| Attack configuration and targeter | attacker.go, attack_handler.go, dedup/*.go, trace/context.go | the base target of an attack, its headers | Validate, the link to a run, a target for each request | vegeta's workers call one targeter at once; a label inherited from a run is checked late |
| Dataset store and ingest | dataset/store.go, ingest.go | a cache with TTLs; pools, rows, statistics | Register, Delete, AddRows, Sample, IngestNDJSON | deletion and expiry in the middle of an upload |
| Dataset validation | dataset/validate.go | none | ValidateDataset | reads pools without the lock while uploads append |
| Dataset handlers | dataset_handler.go | none | POST, upload, DELETE, GET, sample | as for workflows |
| Metrics, snapshots, summary | stats/*.go | Prometheus series, snapshot map | only the gauges above are written | none besides the gauges |
| Workflow validation | workflow/validate.go | none | ValidateWorkflow, ValidateSchema | node counting |
| k6 engine | k6/scripts/lib/engine.js, runner.js | the scopes of one iteration | setup, iterations, a walker per node type | which scope an extract ends in, what a failure stops, loops that must end |
| k6 requests and templates | engine.js (prepareRequest), template.js, tracing.js, zeus.js | the parsed flow in each virtual user's runtime | variants, patches, overrides, rows, baggage | requests share the parsed node; one row per pool and request; one trace for runtimes that draw their own |
| Server, health, ids | api/server.go, health_handler.go, id | none | routing, probes, counts | counts of statuses that change while they are read |
| gen-dataset | cmd/gen-dataset/main.go | none | synthetic users | check digits, chunks |

How they interact: the run handlers call the workflow store, the dataset store, the run
store, the broker and the metrics, in this order and one at a time. The DELETE handlers
of workflows and datasets call the run store first. The attack handlers call the manager
and the metrics; the manager calls back (`onComplete`) when an attack ends. main calls
the server's Shutdown and then StopAll. There is no run driver in the repository: no code
publishes an event, and no handler moves a run to validating, running or completing.

What makes the components correct, in one line each:

- attacks: one stop wins, a verdict is given once and with its result, the gauge is the
  number of unfinished attacks, every attack ends, shutdown stops what is registered;
- readers of attacks: "completed" comes with its result, a list for a final status shows
  no other, a count lies between two true ones, although nothing is locked;
- targets: each request of an attack carries its own baggage, then trace and label once,
  readable by a receiver, and a dedup key no other request has; an attack of a run does
  not go without the run's label;
- broker: never panics, never leaks, never blocks a publisher, keeps each publisher's
  order, and ends the streams it closes;
- runs: a status is reached only along the table, one create and one stop of an id win,
  the gauge agrees with the store, the streams of a stopped run are cut;
- workflows: table and name index are inverses, overwriting loses no name, a DELETE
  spares what it saw in use;
- datasets: an upload is accounted for row by row, a verdict of the handshake stays
  true, a deleted dataset gets no rows;
- engine: branches and iterations do not see each other's extracts, whatever came earlier
  is seen, a failure stops everything up to the nearest parallel and nothing beyond, and
  every iteration ends;
- requests: references to a pool are to one row, nothing of one request reaches another,
  every request of a run names one trace.

## 2. Modules

| Module | Models | Composition |
|---|---|---|
| AttackLifecycle | what the manager promises of an attack (abstract) | |
| AttackManager | manager, attack handlers, shutdown | implements AttackLifecycle |
| AttackReaders | the handlers that read attacks without the lock | extends AttackManager |
| AttackTargets | an attack's configuration and the targeter | |
| EventBroker | broker, publishers and the loop of GET events | |
| RunStore | run store and state machine, most general client | |
| RunService | run handlers, gauge and counter | instances RunStore and EventBroker |
| WorkflowStore | workflow store, most general client | |
| ControlPlane | workflow and dataset handlers, first half of POST run | instances WorkflowStore |
| DatasetStore | a dataset, its uploads and the handshakes that read it | |
| WorkflowEngine | the walk of one virtual user through a flow | |
| RequestTemplates | a request made of a parsed node, for several virtual users | |
| DatasetTools | pure functions: sampling, synthetic users | extended by MCDatasetStore |
| WorkflowSchema | the count of nodes that admits a flow (recursive operators, no theorems) | instanced by MCWorkflowEngine |
| MC... | small instances for TLC: symmetry sets and constants | extends the module it is named for |
| ...Proofs | theorems and their proofs | extends the module it is named for; AttackManagerProofs also has those of AttackReaders, RunServiceProofs those of RunStore |

A definition named `X_Something` right before `X` is a mutated form of `X`: a plausible
bug in the code that X models, used to see that a property notices it.

### AttackManager

A member of `Attack` is one POST request with the object, the goroutine and the handler
it owns; `Stopper` is a DELETE request; `Main` is the main goroutine. A step is what one
goroutine does between two points at which another can run, and a critical section of
`Manager.mu` is one step. `handler` follows handleCreateAttack (accepted, launched,
counted, done), `worker` the goroutine of Launch with vegeta's phases (ready, pacing,
draining, drained, finalized, exited), `pc` the callers of Stop. `ctx` keeps why an
attack's context was cancelled first: its timeout, a client that left, the handler that
returned, or CancelAttack. net/http cancels the request's context when the handler has
answered, and the attack's context is derived from it; that is part of `Respond`.
Vegeta itself is external and is given no context: it paces until its duration is over,
its stop channel is closed or its targeter fails, and then drains. A context that ends
matters to the verdict only, and through it to nothing vegeta does.

`seconds` is the duration_s of a request, which Validate bounds below only. `Duration` and
`CtxTimeout` compute as the code does, in integers that wrap (`Wrap`; `Second` and
`MaxDuration` stand for time.Second and the largest int64). A duration that wraps to zero
or less is no limit to vegeta (`Endless`): EndPacing then needs the stop channel closed. A
context timeout that is not positive has expired when `Launch` returns.

`AttackLifecycle` is what a user of the manager can rely on: an attack begins, may be
halted before its result is there, finishes once with a final verdict that respects the
halt, and then notifies its owner once. The refinement maps verdict to the status,
reported to the presence of the result and notified to the exit of the goroutine.

### AttackReaders

A `Reader` is a GET request for one attack, its statistics, the list or the summary. It
takes pointers under the read lock (`Take`) and then loads from the objects with none:
Status as two words, the pointer and the length of a Go string, and Result, while the
manager's actions go on between any two loads. The words of "running" and "stopped" have
the same length, so only a mix with "completed" makes a torn text. The order of loads is
that of the source on a machine that keeps it and any order on one that does not
(`reorders`, chosen at the start). A list with a status filter reads each attack for the
filter (`Filter`) and again for the encoder (`Write`).

### AttackTargets

Runs carry a label and a trace; an attack decodes its configuration, may inherit both from
a run (`LinkRun`), is validated and launched, and then each `Worker` of vegeta copies the
base target (`CopyBase`), passes it through the dedup bypass (`Transform`) and adds the
baggage entries in the order a Go map yields them (`Inject`). Header maps are places that
workers hold by reference, so that a map shared by mistake is shared in the model.

### EventBroker

`subs`, `chan` and `queue` are the broker's table and the channels; `reader` is the
handler of GET events; `sending` and `pending` are a publisher inside Publish, which
holds the read lock while it tries the channels one by one. Subscribe, unsubscribe and
CloseRun take the write lock, so they wait until no publisher is inside. Histories record
what a reader got and what a full channel cost it. The order of a run's slice of channels
is left out.

### RunStore and RunService

RunStore is the state machine under any sequence of calls. RunService has the three run
handlers step by step: the stop handler looks the run up, checks its status through the
pointer, updates it under the lock (or is refused there), decrements the gauge, closes
the streams. No code publishes, so the broker is instanced with no publishers and empty
queues. ControlPlane has the part of POST run before Create.

### WorkflowStore and ControlPlane

A workflow is its name. `BeginPost` looks up the id that the name has, if the request
overwrites; `DropOld` deletes it; `RegisterNew` or `RegisterConflict` answers. `ListRuns`
and `CheckRun` are the guard of DELETE: a snapshot of the runs and then one unlocked read
of a status at a time. A run here is a POST run request (`Starter`) with the workflow and
the dataset it names; `strict` says that the workflow has a schema, which alone makes
the handshake look at the dataset. A dataset is live or gone (deleted or expired).

### DatasetStore

One dataset; datasets share nothing but the lock. AddRows is four steps under the lock,
one per memory write that an unlocked reader can see: the map entry (`CreatePool`), the
rows, the count. ValidateDataset is one step per unlocked read. Reading the map while it
is written stops the process (the Go runtime checks for it): `RaceForMap` sets `crashed`
and nothing happens afterwards. Reading the slice of an empty pool while it is written
can panic the request: `TearSlice`. A row keeps its upload and whether it has the
schema's fields; only the first row's fields are looked at, as in the code. An upload's
line is a batch, a line that is skipped, or one the decoder cannot get past; the decoder
of encoding/json is external and modelled by what IngestNDJSON sees of it. The inline
datasets of POST run use the same AddRows and are in ControlPlane.

### WorkflowEngine and WorkflowSchema

engine.js is recursive: walkNode calls the walker of a node's type, which calls walkNode
for its children. The model keeps the calls as a stack of frames. A frame is a walker that
has been called and has not returned, with its loop counter, the result of its last child
and the scope it created; `Call` pushes the frame of a child, `Return` pops one, hands
its result to the caller and writes its entries into the caller's scope (`Bind`: under the
node's id, or one by one). `optional` and `if` are transparent: `HandOver` replaces their
frame by their child's. A parallel walks its branches in turn, each in a new scope, and
merges them when all are done; one whose children are all requests sends them in one batch
(`WalkBatch`). `Throw` is an error nobody catches: k6 ends the iteration.

A response passes or fails (only when the node expects a status) and its extracts are
found or not; a truthy extract remembers the number of the request it came from, which
is what Isolation speaks of. Everything isTruthy calls falsy is one value. Conditions and
count templates are single `{{steps.*}}` paths. Delays, variants, headers, bodies and
data rows are left out here: no branch of the walk depends on them. RequestTemplates has
them.

### RequestTemplates and DatasetTools

`node` is the request node in each virtual user's runtime and `parsed` is what the file
said. `Prepare` is prepareRequest: the variant, its patches in order, the overrides, the
templates with the row cache, the baggage. A patch is of a field, of the overrides of a whole
pool or of one column of them. Body and headers are copies, but an object that a variant's
`set` holds is put into the overrides by reference (`owner` remembers from which patch), and
a later patch of the same set then writes into the parsed flow: the node does change, and
RequestsIndependent says that no request can tell. A virtual user draws a trace id of its own when its runtime
is initialised; `Setup` hands one of them to all.

DatasetTools has functions of their arguments, among them the random numbers. The
assumptions of MCDatasetStore check that Sample's partial shuffle yields every ordered
selection for exactly one sequence of draws, that the limit of a sample is what the handler
says, and that luhnCard passes Luhn's test for all seeds (a card depends on the seed modulo
ten, so users ten apart share one).

WorkflowSchema is ValidateSchema's count. MCWorkflowEngine builds a family of flows and
walks those that pass it; the assumption CountsNodes compares the count with a reference.

## 3. What TLC checks

| Run | Instance | Checks |
|---|---|---|
| attacks | 2 attacks of 1 second, 2 ids, 1 DELETE, main; at most one attack loses its context to a client that leaves or to its timeout | the inductive invariant, gauge, verdicts, shutdown |
| attack_liveness | 1 attack of 1, 5 or 9 seconds, 2 DELETEs, main | the manager implements AttackLifecycle; attacks that fit a time.Duration or are stopped finish, stops converge, the process exits |
| attack_natural | 1 attack, no DELETE | finding 1 |
| attack_readers | 1 attack of 1 or 9 seconds, 2 ids, 1 DELETE, main, 1 reader | what an unlocked response says |
| attack_targets | 1 run, 1 attack, 2 workers, 3 requests | baggage, keys, correlation, what receivers read |
| broker | 1 run, 2 readers, 2 publishers with 2 events and 1, capacity 1 | all broker properties, with and without fair readers |
| run_service | 2 ids, 2 POSTs, 3 DELETEs, 2 streams | gauge, owners, streams, and use of the store within its specification |
| control_plane | 3 POSTs, 2 ids, 2 names, 1 dataset, 1 run, 1 DELETE | index, names, guard |
| dataset_store | 2 uploads of 2 lines, 2 pools, 1 handshake | accounting, verdicts; the assumptions about DatasetTools |
| dataset_upload | 1 upload, 1 handshake | finding 2 |
| engine | 2 iterations through each of about 120 flows | isolation, visibility, failures, wait policies, termination |
| request_templates | 2 virtual users, 3 requests of a node with 3 variants | rows, independence, trace |

Why the bounds are enough. The races of the manager are between at most three parties
about one object (two callers of Stop and the goroutine, or two launches and a stop of
one id); the runs have these. With Second 2 and MaxDuration 15, a duration_s of 1 fits; with
5 only the context's timeout overflows; with 9 the duration itself does. An overflow
concerns one attack at a time, so the runs with one attack have it; the theorems hold for
any durations. A reader and the writers of an object meet on one attack;
the order of several attacks in a list does not matter to any property, as each answer is
about one object, and the theorems hold for any number. Three requests by two workers let
each meet a base header the other has used, and its own second request. Random ids do not
collide in the models. The broker's conflicts are between a publisher, a reader
and CloseRun on a channel; two of each also give the order of two publishers and a second
reader to be unaffected. A channel of one event overflows on the second; the capacity is
a constant and the theorems hold for any. Two overwriting POSTs and a third make every
pair of lookups, deletes and registrations meet; two ids are needed for a name to move
and two names for an id to be asked for twice. Two uploads and a handshake are the
parties of every race in a dataset; the pool that needs two rows makes the verdict depend
on both uploads, the one that needs none has no guarantee, as in the code. The flows are
the patterns of docs/workflow-dsl-v2.md and every composite of two small children, after a
login and before a last request, or as a branch of a parallel: every walker is thus the
caller, the callee and the sibling of a composite. Two iterations show what one leaves to
the next; loops of two are enough to read what the first wrote. The request node has a
variant of weight zero, one that overrides a column and one that overrides a pool with an
object and then patches it; three requests let each variant be followed by any other.
MaxRequests is a bound that no behaviour reaches; MaxCount and MaxNodes stand for numbers of the documents.

Deadlock is checked except in AttackTargets, ControlPlane, DatasetStore, WorkflowEngine
and RequestTemplates: there, every request being made or answered, or the last iteration,
is the end, and a crashed process stops too. In the others either something can
always happen or a step of that name (`Quiet`) says that all is done.

Fairness. `Fairness` of AttackManager says that a goroutine that can take
its next step takes it in the end: the Go scheduler runs every runnable goroutine.
Requests, disconnects, targeter errors, timeouts and signals are never forced. EndPacing
is fair: a duration that fits passes, and vegeta sees a closed stop channel. For an endless
attack it is enabled only once the channel is closed, so fairness assumes nothing of it
before. The broker's publishers are fair while
inside Publish; its readers are not, so that PublishNeverBlocks says something, and
CloseEndsStreams has the fairness of readers as its hypothesis. Strong fairness is
assumed only for a wait on a mutex (unsubscribe, AddRows): sync.RWMutex does not starve a
waiting writer. Uploads, once begun, go on reading. In the engine one JavaScript thread
takes every step, and k6 ends a request that gets no answer by its timeout.

## 4. What is proved

Every invariant and every action property that a run checks, and every refinement, is also
a theorem, for every value of the constants. What is left to TLC alone is at the end of
this section.

Assumptions are named, in the module that declares the constants, and TLC evaluates them on
the instances: None is not a value, finite sets where something is counted, Capacity
positive, MinSize natural, Seconds integers, Second and MaxDuration natural, ids of
workflows and datasets disjoint, bounds natural, the empty text no text a client sends. `VertexAssumption` is what a flow is: a set of nodes closed
under children, any of which may be absent or of an unknown type (`Documents`), in which the
model's mark of an extract names no node, no extract and no step of a path (`NamesApart`).
`NodesAssumption` gives the request nodes their type; a set of patches may be any sequence.

- AttackManagerProofs: `IInv` is inductive. Beside types it says that the phases of
  handler, goroutine and status agree, what a caller of Stop knows, what StopAll has
  still to do for each attack it saw running, and that the gauge is the number of
  counted attacks minus the exited ones; the gauge property alone is not inductive, as it
  says nothing while a handler is between Launch and its increment. From it: GaugeCorrect,
  OneStopWinsCorrect, ShutdownCorrect, VerdictFinality, and Refinement, step by step.
  For the readers, `Knows` records what the loads so far say of the object (`WordsKnow`,
  `ResultLast`, `KeptStays`); with IInv, that a result is stored before its status is
  final, and StepKeepsVerdicts, that a final status stays, it is inductive. It gives
  AnswersCorrect, FilterCorrect and CountCorrect; the second on any machine, because a
  filter that passed a final status has read a word that only it has.
- AttackTargetsProofs: `IInv` says that a worker's header map is its own from CopyBase to
  Inject (`WorkersOwn`), that keys in hand are apart from those sent (`KeysApart`), what a
  linked attack knows of its run, and that a launched configuration passed Validate
  (`LaunchedValid`). BaggageCorrect, KeysCorrect and CorrelationCorrect follow for any
  number of workers and requests. For ReceiversRead, the first entry of a kind in a header
  is the client's or, as Inject adds one of each, the attack's.
- EventBrokerProofs: `BrokerInv` adds to NoPanic and NoLeak where a reader can be while
  it is registered. A publisher's pending channels are registered while it holds the
  read lock, and what is registered is open; that is why no send meets a closed channel.
  Its conjunct `Numbered` compares what has reached a channel with the publisher's counter,
  strictly while the channel is still to be tried; appending then keeps the order
  (OrderCorrect).
- RunServiceProofs: of the store, `StoreInv` fixes the set of statuses a run has visited for
  each status. Of the service, `ServiceInv` gives every run the POST that made it and every
  stopped run the DELETE that stopped it, from which the gauge follows by counting, and says
  that a stream which is read is listed or already closed (`StreamsListed`): without it
  StopCorrect fails, as CloseRun closes only what is listed. UsesStore is the refinement,
  step by step, with the status a stop writes through the store's lock; StoppedIsFinal is
  carried over by it.
- ControlPlaneProofs: table and index are inverse, and what a DELETE has checked was
  terminal and stays so. NameSurvives is not inductive: a name may be in nobody's table while a POST is between dropping and
  registering. `NameKept` names that POST, and `NamesOwned` says that what it dropped had the
  name it asks for.
- DatasetStoreProofs: data only grows (`DataGrows`), hence a pool with at least one row
  demanded of it stays in order (`SatisfiedStays`); what a handshake has found
  (`FoundInOrder`) then survives every upload, in both directions (VerdictCorrect,
  RejectionsCorrect). `StatsExact` says how far the statistics may lag inside AddRows.
  `Counted` says how far an upload's count may lag behind its rows: by the batch between the
  two writes and no more (CountsCorrect).
- WorkflowEngineProofs, first part: the stack is a sequence of frames below which only
  composites without a failure wait. EngineInv is not inductive: `IInv` adds that a walker
  without children has seen no failure (`LeafFresh`), so that only a sequence, a repeat or
  the root can be on top when a failure has reached it. `PushOK`, `ReplaceOK` and `PopOK` are
  the facts about sequences; a call, a hand-over and a return each rest on one of them. From
  it EngineCorrect and FailureEndsIteration.
- WorkflowEngineProofs, second part: `WalkInv` links each frame to the one above it. What
  its children left is in its scope (`KeepsFirst`), and whatever a path can reach there is
  an extract of a request sent after the walker began and before the frame above did
  (`Confined`). `Closed` and `From` say "whatever a path can reach" without recursion: some
  set of values has the scope in it and is closed under fields. A parallel that waits has an
  empty scope, so `Chain` and `Reach` give IsolationCorrect; KeepsFirst gives EarlierCorrect
  and BranchesCorrect.
- RequestTemplatesProofs: a set of patches may write into the parsed node it comes from.
  `NodesReusable` says that a used set differs from the parsed one only in columns that a
  later patch of the set writes again before the object is replaced (`Rewritten`).
  PatchesAgree compares two uses patch by patch: they have the same owners and fields, and
  overrides that are the same or will be rewritten; after the last patch nothing is left to
  be rewritten (PatchedAgree). That gives TemplatesInvariance, RequestsCorrect and, with the
  row cache, RowsCorrect. TracesCorrect rests on setup() having run before any request, and
  on BaggageOf: an entry of the flow's own or its label, if there is one, is no trace.

Definitions that go on step by step, such as the patches of a set or the fields of a path,
are bounded recursive functions. No induction rule is used on them: `LeastNat`, from the
library's well-foundedness of the natural numbers, gives the first step at which a claim
fails, and the step before it refutes that (DescendSteps, PatchedSteps, PatchedAgree, Chain).

The inductive invariants hold of the instances of section 3 too: IInv of AttackManager,
BrokerInv, PlaneInv and DatasetInv are checked by their runs; ReadersInv, IInv of
AttackTargets, ServiceInv and TemplatesInv pass when they are added to theirs. WalkInv speaks
of all sets of values that contain a scope, which TLC cannot enumerate.

Some properties are proved for all instances and need no run of their own: VerdictFinality,
TerminalIsFinal and the paths of the run store, ClosedChannelsFinal, ValidPreserved,
DeleteCorrect, and the invariants of AttackReaders, AttackTargets, RunService,
WorkflowEngine's scopes and RequestTemplates.

Model-checked only: all liveness (LaunchedFinishes, StopConverges, ShutdownEnds,
PublishNeverBlocks, CloseEndsStreams, IterationEnds and the two findings), as fairness and
ENABLED are beyond the prover; and the pure functions of DatasetTools and WorkflowSchema,
which are checked over bounded inputs.

## 5. Findings

1. *attack_natural.* The goroutine tells natural completion from cancellation by
   `ctx.Err()` (attacker.go:192), but the attack's context descends from the request's,
   which ends when 202 has been sent. An attack that simply runs out is "stopped".
2. *dataset_upload.* "Decode errors are recorded but do not abort the ingest"
   (ingest.go:25): a syntax error or a cut-off line leaves json.Decoder where it is,
   More() stays true, and the loop records the same error for ever.

Also reachable in the models, without a run of their own:

- Launch overwrites the entry of an id still running (attacker.go:171): "StopAll cancels
  all running attacks" (attacker.go:258) then misses the older one, and main returns over
  it; ShutdownStopsRegistered is what does hold;
- "Iteration 1 runs with `{{steps.page.next_cursor}}` unresolved"
  (docs/workflow-dsl-v2.md:218), but walkRepeat evaluates `while` before the first
  iteration too (engine.js:441), where the extract of the loop's own child is undefined
  and so falsy: the documented cursor loop reads no page;
- a response can carry a torn status; an attack listed for `?status=running` may be shown
  as stopped, as the encoder reads it again (attack_handler.go:107, 119);
- the label of a run is not checked when the run is made (run_handler.go:171): a workflow
  named with a comma or a blank makes every attack of its runs fail with 400;
- a stream that subscribes after CloseRun of its stopped run waits for ever, since
  handleRunEvents does not look at the status (run_handler.go:350); "SSE subscribers are
  closed" (run_handler.go:278) holds of the streams StopCutsStreams speaks of;
- "handleDeleteWorkflow removes a workflow if no active runs reference it"
  (workflow_handler.go:139), but a run created after the handler listed the runs is not
  seen; GuardSparesSeen is what does hold. Datasets have the same gap;
- countNodes (workflow/validate.go:33-37) does not look at the then and else of an if, so
  "It caps total nodes at maxNodes" (validate.go:41) does not hold behind an if; it counts
  variants as nodes too;
- a parallel whose `wait` is "any" or n_of_m walks all its branches and keeps the extracts
  of all (engine.js:354-358), where docs/workflow-dsl-v2.md:103-104 has it "return as soon
  as any one child completes" with the results of the others "discarded", or "after K
  children have completed". ParallelWaits says what both agree on, that a parallel does not
  return before its policy is satisfied unless no branch is left, and that the default
  loses nothing; an engine that returned early once its policy was satisfied would keep it
  as well;
- a sequence that fails still leaves its extracts; a count template that does not resolve
  throws;
- a duration_s from 9223372037 to 18446744073 is answered 202, but wraps to a negative
  duration (attacker.go:78): "the context outlives the natural completion" (attacker.go:157-158)
  fails, as it has expired at once, and vegeta, for which such a duration is no limit,
  paces until the attack is stopped; its verdict is "stopped" whatever happens. From
  9223372032 on the 5 seconds added for the context overflow already: the attack ends when
  it should and is recorded "stopped". LaunchedFinishes speaks of durations that fit;
- a handshake that finds a pool empty skips the field check, and if an upload fills the
  pool before the size check it passes with rows that lack the fields; VerdictSound
  excludes pools that were empty at the start for this reason;
- `RaceForMap`: reading `Dataset.Pools` without the lock (validate.go:20,
  dataset_handler.go:172) while an upload adds a pool ends the process;
- the ActiveRuns gauge can be seen at -1 when a DELETE overtakes the increment of its
  run's POST (run_handler.go:183), and ActiveAttacks likewise;
- an overwriting POST that deletes the old workflow and then fails to register loses it
  (workflow_handler.go:64-71), and it does not look at active runs;
- an inline dataset stays behind when one of its pools is bad (run_handler.go:109);
- a row is drawn once per request (template.js:192-196) and an override lasts for one
  request, where docs/workflow-dsl-v2.md:385 says "one draw per iteration" and :251 "the
  iteration's data scope"; the condition of an if and the count of a repeat draw rows of
  their own;
- an override of a `data.` key is sent as it is written: templates in it are not resolved
  (template.js:49), while those of the other patches are.

Met while reading, outside the models:

- "Above that, zeus rejects with 413" (docs/api-contract.md:495), but readJSON cuts the
  body at the same 1 MiB (server.go:124), so a larger inline dataset is a 400;
- "`ttl_s` of 0 means permanent" (docs/api-contract.md:247), but 0 is replaced by 24 hours
  (dataset_handler.go:42-45);
- the meta-trace-id of k6 "is registered with zeus" (tracing.js:7), but engine.js:525 draws
  one that nobody sends to zeus, and the run's own is not read.

## 6. Not modelled, and the plan

Left out as data or formatting: tuning options of attacks, vegeta's metrics, JSON shapes,
sizes in bytes, list and get handlers of workflows, runs and datasets, the liveness and
readiness probes, routing, manifests, interpolation of templates into longer texts, the
length of delays. The four counts of runs in a summary are taken one after the other; no
code moves a run between those statuses, so nothing can go wrong there yet. Metric series
other than the two gauges and the stopped counter are written by nobody; the snapshot store
has no writer. zeus.js retries reads only, and no script imports it. The attack that POST writes
into its own 202 (attack_handler.go:77) is read without the lock as well; it is not among
the readers. A patch that puts a whole body or headers object of a variant's `set` in place
is a field patch here: its later patches write into that object too, and what
RequestsIndependent says of pools is not checked of it. How long http.Server.Shutdown waits
for open streams is not modelled, since there is no clock: the model lets it return at any
time.

Order of the work, most important first. Done: the attack manager with its readers and its
targets, the broker, the run store and the run handlers, the control plane, the dataset
store, the workflow engine and its requests, with proofs of all their safety properties.
To do:

1. An abstract specification of a node's result (what a tree computes of given responses),
   and the walker shown to compute it.
2. An abstract specification of what a stream delivers (for each publisher a subsequence of
   its events, cut off once), implemented by the broker.
3. An abstract dataset (rows added atomically), implemented by DatasetStore for those who
   read under the lock.
