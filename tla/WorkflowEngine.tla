--------------------------- MODULE WorkflowEngine ---------------------------
(***************************************************************************)
(* The workflow engine of a virtual user (k6/scripts/lib/engine.js): one    *)
(* iteration walks the node tree of a flow.  The recursion of walkNode is a *)
(* stack of frames, one per walker that has been called and has not         *)
(* returned; optional and if hand over to the chosen child and leave no     *)
(* frame.  A frame owns the scope that its walker creates.                  *)
(*                                                                         *)
(* A value that a request extracts or a scope binds is a function from      *)
(* names to values.  The function with no name stands for everything        *)
(* isTruthy calls falsy, and a truthy extract is [by |-> n], n the request  *)
(* it came from.  Delays, variants, headers and data rows are left out:     *)
(* they do not decide which node runs next.                                 *)
(***************************************************************************)
EXTENDS Naturals, Sequences, SequencesExt

CONSTANTS
    Flow,             \* the root nodes of the flows
    Vertex,           \* all nodes of the flows
    Path,             \* the {{steps.*}} paths a template may use
    None,             \* the id of a node without one, a child that is absent
    MaxIterations,    \* bound: iterations of the virtual user
    MaxRequests,      \* bound: requests sent in all
    MaxCount          \* bound: the largest integer of a count template

ASSUME EngineAssumption == {MaxIterations, MaxRequests, MaxCount} \subseteq Nat

\* The mark of an extract, "by", is the name of no node and of no extract.
NamesApart ==
    /\ \A n \in Vertex : n.id # "by" /\ "by" \notin n.extract
    /\ \A path \in Path : path # <<>> /\ path \in Seq(ToSet(path) \ {"by"})

\* The documents: what their nodes have below them are nodes, or absent.
Documents ==
    /\ Flow \subseteq Vertex
    /\ \A n \in Vertex :
          /\ n.children \in Seq(Vertex)
          /\ {n.child, n.then, n.else} \subseteq Vertex \cup {None}

ASSUME VertexAssumption == NamesApart /\ Documents

VARIABLES
    flow,         \* root of the flow that is run
    phase,        \* "setup", "running", or "aborted" when setup() threw
    stack,        \* frames of the walk; empty between iterations
    iteration,    \* iterations begun
    requests,     \* requests sent so far
    broken        \* history: a failure has nothing but sequences, repeats and
                  \* the root above it

vars == <<flow, phase, stack, iteration, requests, broken>>

Composite == {"run", "sequence", "parallel", "repeat"}

Empty == [x \in {} |-> x]

\* A walker that has just been called with node n.
Frame(n) ==
    [node |-> n,
     i |-> 0,                     \* children or iterations begun
     limit |-> None,              \* iterations of a repeat, once known
     ok |-> TRUE,                 \* what the last child returned
     passed |-> 0,                \* children that returned TRUE
     entries |-> Empty,           \* scope: the walker's, or its branch's
     merged |-> Empty,            \* entries of the branches that have ended
     began |-> requests,          \* history: requests before the call
     branchBegan |-> requests]    \* history: requests before the branch

RunNode == [type |-> "run", id |-> None, children |-> <<flow>>]

Top == stack[Len(stack)]
Node == Top.node
Walking(type) == stack # <<>> /\ Node.type = type

Init ==
    /\ flow \in Flow
    /\ phase = "setup"
    /\ stack = <<>>
    /\ iteration = 0
    /\ requests = 0
    /\ broken = FALSE

-----------------------------------------------------------------------------
\* Scopes: resolve goes up to the first one that has the root of the path and
\* stays there.  The result is a set of one value, or of none when undefined.
Field(values, name) == {v[name] : v \in {u \in values : name \in DOMAIN u}}

Holders(name) == {k \in 1..Len(stack) : name \in DOMAIN stack[k].entries}

\* What lies at the end of the path below these entries.
Descend(entries, path) ==
    LET at[k \in 0..Len(path)] ==
            IF k = 0 THEN {entries} ELSE Field(at[k - 1], path[k])
    IN  at[Len(path)]

Resolve(path) ==
    IF Holders(Head(path)) = {}
    THEN {}
    ELSE Descend(stack[Max(Holders(Head(path)))].entries, path)

Truthy(path) == \E v \in Resolve(path) : DOMAIN v # {}

\* merge: what comes in replaces what is there.
Merge(incoming, entries) ==
    [name \in DOMAIN incoming \cup DOMAIN entries |->
        IF name \in DOMAIN incoming THEN incoming[name] ELSE entries[name]]

\* What a walker leaves in its caller's scope: its entries under the node's id,
\* or one by one when it has none.
Bind(id, entries) == IF id = None THEN entries ELSE [name \in {id} |-> entries]

\* What the n-th request leaves: its extracts, when it has an id.
Extract(node, n, found) ==
    IF node.id = None \/ node.extract = {}
    THEN Empty
    ELSE Bind(node.id,
              [key \in node.extract |-> IF found THEN [by |-> n] ELSE Empty])

-----------------------------------------------------------------------------
\* Calls and returns.

\* The walker on top, now in the state frame, calls the walker of child.  To walk
\* a child that is not there is an error, which ends the iteration.
Call(frame, child) ==
    /\ stack' = IF child = None THEN <<>>
                ELSE Append([stack EXCEPT ![Len(stack)] = frame], Frame(child))
    /\ UNCHANGED <<flow, phase, iteration, requests, broken>>

\* An optional or an if returns what the walker of child will return.
HandOver(child) ==
    /\ stack' = IF child = None THEN <<>>
                ELSE [stack EXCEPT ![Len(stack)] = Frame(child)]
    /\ UNCHANGED <<flow, phase, iteration, requests, broken>>

InParallel == \E k \in 1..(Len(stack) - 1) : stack[k].node.type = "parallel"

\* The walker on top returns ok, having left writes in its caller's scope.
Return(ok, writes) ==
    /\ LET caller == stack[Len(stack) - 1]
       IN  stack' = [Front(stack) EXCEPT ![Len(stack) - 1] =
                        [caller EXCEPT !.entries = Merge(writes, @),
                                       !.ok = ok,
                                       !.passed = IF ok THEN @ + 1 ELSE @]]
    /\ broken' = (broken \/ (~ok /\ ~InParallel))
    /\ UNCHANGED <<flow, phase, iteration>>

\* An error that no walker catches ends the iteration.
Throw ==
    /\ stack' = <<>>
    /\ UNCHANGED <<flow, phase, iteration, requests, broken>>

-----------------------------------------------------------------------------
\* The life of a virtual user.

\* setup() has a dataset, from the file or from the dataset endpoint.
Setup ==
    /\ phase = "setup"
    /\ phase' = "running"
    /\ UNCHANGED <<flow, stack, iteration, requests, broken>>

\* The endpoint does not answer 200, or there is no dataset: k6 gives up.
SetupThrows ==
    /\ phase = "setup"
    /\ phase' = "aborted"
    /\ UNCHANGED <<flow, stack, iteration, requests, broken>>

\* run() walks the root with a root scope of its own.
BeginIteration ==
    /\ phase = "running"
    /\ stack = <<>>
    /\ iteration < MaxIterations
    /\ iteration' = iteration + 1
    /\ stack' = <<[Frame(RunNode) EXCEPT !.i = 1], Frame(flow)>>
    /\ broken' = FALSE
    /\ UNCHANGED <<flow, phase, requests>>

\* What the root returns is nobody's business.
EndIteration ==
    /\ Walking("run")
    /\ stack' = <<>>
    /\ UNCHANGED <<flow, phase, iteration, requests, broken>>

UnknownType ==
    /\ stack # <<>>
    /\ Node.type \notin Composite \cup {"delay", "optional", "request", "if"}
    /\ Throw

-----------------------------------------------------------------------------
\* Leaves.

WalkDelay == Walking("delay") /\ Return(TRUE, Empty) /\ UNCHANGED requests

\* Preparing and sending n requests, whatever their variants and templates.
Send(n) == requests' = requests + n /\ requests' \in requests..MaxRequests

\* A response is checked only when the node expects something of it; what it
\* carries for an extract is up to the server.
WalkRequest ==
    /\ Walking("request")
    /\ Send(1)
    /\ \E ok, found \in BOOLEAN :
          /\ ok \/ Node.expect
          /\ Return(ok, Extract(Node, requests', found))

-----------------------------------------------------------------------------
\* Transparent nodes: shouldFire draws, a condition is a template.

FireOptional == Walking("optional") /\ HandOver(Node.child)
SkipOptional == Walking("optional") /\ Return(TRUE, Empty) /\ UNCHANGED requests

TakeThen == Walking("if") /\ Truthy(Node.condition) /\ HandOver(Node.then)

TakeElse ==
    /\ Walking("if")
    /\ ~Truthy(Node.condition)
    /\ Node.else # None
    /\ HandOver(Node.else)

TakeNeither ==
    /\ Walking("if")
    /\ ~Truthy(Node.condition)
    /\ Node.else = None
    /\ Return(TRUE, Empty)
    /\ UNCHANGED requests

-----------------------------------------------------------------------------
\* Sequence.

\* Mutant: the result of a child is not looked at.
NextChild_Regardless ==
    /\ Walking("sequence")
    /\ Top.i < Len(Node.children)
    /\ Call([Top EXCEPT !.i = @ + 1], Node.children[Top.i + 1])

NextChild ==
    /\ Walking("sequence")
    /\ Top.ok
    /\ Top.i < Len(Node.children)
    /\ Call([Top EXCEPT !.i = @ + 1], Node.children[Top.i + 1])

\* Mutant: a sequence that was cut short returns TRUE.
EndSequence_Passes ==
    /\ Walking("sequence")
    /\ ~Top.ok \/ Top.i = Len(Node.children)
    /\ Return(TRUE, Bind(Node.id, Top.entries))
    /\ UNCHANGED requests

\* Cut short or not, the entries go to the caller.
EndSequence ==
    /\ Walking("sequence")
    /\ ~Top.ok \/ Top.i = Len(Node.children)
    /\ Return(Top.ok, Bind(Node.id, Top.entries))
    /\ UNCHANGED requests

-----------------------------------------------------------------------------
\* Parallel.  The branches run one after the other in scopes of their own, or,
\* when all are requests, in one http.batch.

IsBatch(node) ==
    /\ Len(node.children) > 1
    /\ \A j \in DOMAIN node.children : node.children[j].type = "request"

CheckWaitPolicy(wait, passed, total) ==
    LET counted == wait.policy = "n_of_m" /\ wait.n > 0
    IN  \/ wait.policy = "any" /\ passed > 0
        \/ counted /\ passed >= wait.n
        \/ wait.policy # "any" /\ ~counted /\ passed = total

SkipParallel ==
    /\ Walking("parallel")
    /\ Node.children = <<>>
    /\ Return(TRUE, Empty)
    /\ UNCHANGED requests

\* Mutant: the branches share one scope.
NextBranch_SharedScope ==
    /\ Walking("parallel")
    /\ ~IsBatch(Node)
    /\ Top.i < Len(Node.children)
    /\ Call([Top EXCEPT !.i = @ + 1, !.branchBegan = requests],
            Node.children[Top.i + 1])

NextBranch ==
    /\ Walking("parallel")
    /\ ~IsBatch(Node)
    /\ Top.i < Len(Node.children)
    /\ Call([Top EXCEPT !.i = @ + 1,
                        !.merged = Merge(Top.entries, @),
                        !.entries = Empty,
                        !.branchBegan = requests],
            Node.children[Top.i + 1])

\* Mutant: the first branch that fails ends the parallel, as it does a sequence.
EndParallel_FailsFast ==
    /\ Walking("parallel")
    /\ ~IsBatch(Node) /\ Node.children # <<>>
    /\ Top.i = Len(Node.children) \/ ~Top.ok
    /\ Return(CheckWaitPolicy(Node.wait, Top.passed, Len(Node.children)),
              Bind(Node.id, Merge(Top.entries, Top.merged)))
    /\ UNCHANGED requests

EndParallel ==
    /\ Walking("parallel")
    /\ ~IsBatch(Node) /\ Node.children # <<>>
    /\ Top.i = Len(Node.children)
    /\ Return(CheckWaitPolicy(Node.wait, Top.passed, Len(Node.children)),
              Bind(Node.id, Merge(Top.entries, Top.merged)))
    /\ UNCHANGED requests

\* What the branches of a batch leave, of those with the same id the last.
BatchEntries(branches, n, found) ==
    LET left(j) == Extract(branches[j], n + j, j \in found)
        named == {j \in DOMAIN branches : left(j) # Empty}
        last(id) == Max({j \in named : branches[j].id = id})
    IN  [id \in {branches[j].id : j \in named} |-> left(last(id))[id]]

\* All requests are prepared and sent before the first response is looked at.
WalkBatch ==
    /\ Walking("parallel")
    /\ IsBatch(Node)
    /\ Send(Len(Node.children))
    /\ \E passed, found \in SUBSET DOMAIN Node.children :
          /\ \A j \in DOMAIN Node.children \ passed : Node.children[j].expect
          /\ Return(CheckWaitPolicy(Node.wait, Cardinality(passed),
                                    Len(Node.children)),
                    Bind(Node.id, BatchEntries(Node.children, requests, found)))

-----------------------------------------------------------------------------
\* Repeat.  All iterations share the loop's scope.

SetLimit(n) ==
    /\ stack' = [stack EXCEPT ![Len(stack)] = [Top EXCEPT !.limit = n]]
    /\ UNCHANGED <<flow, phase, iteration, requests, broken>>

\* A literal count, or the cap of a while loop.
BeginRepeat ==
    /\ Walking("repeat")
    /\ Top.limit = None
    /\ Node.mode \in {"count", "while"}
    /\ SetLimit(Node.max)

\* What evalInt can make of a template, short of throwing.  The only integer that
\* isTruthy calls falsy is 0; the value of a truthy extract is the server's.
EvalInt(path) ==
    {n \in 0..MaxCount : Resolve(path) # {} /\ (Truthy(path) \/ n = 0)}

\* A count template is evaluated once; what is no integer makes evalInt throw.
BeginCounted ==
    /\ Walking("repeat")
    /\ Top.limit = None
    /\ Node.mode = "count_template"
    /\ \/ Throw
       \/ \E n \in EvalInt(Node.expr) : SetLimit(n)

\* repeat without any of the three.
RepeatThrows ==
    /\ Walking("repeat")
    /\ Node.mode \notin {"count", "while", "count_template"}
    /\ Throw

\* Mutant: max caps nothing when there is a while.
GoesOn_Uncapped ==
    /\ Top.ok
    /\ Top.i < Top.limit \/ Node.mode = "while"
    /\ Node.mode = "while" => Truthy(Node.expr)

GoesOn ==
    /\ Top.ok
    /\ Top.i < Top.limit
    /\ Node.mode = "while" => Truthy(Node.expr)

\* Mutant: every iteration has a scope of its own.
Iterate_Forgets ==
    /\ Walking("repeat")
    /\ Top.limit # None
    /\ GoesOn
    /\ Call([Top EXCEPT !.i = @ + 1, !.entries = Empty], Node.child)

Iterate ==
    /\ Walking("repeat")
    /\ Top.limit # None
    /\ GoesOn
    /\ Call([Top EXCEPT !.i = @ + 1], Node.child)

EndRepeat ==
    /\ Walking("repeat")
    /\ Top.limit # None
    /\ ~GoesOn
    /\ Return(Top.ok, Bind(Node.id, Top.entries))
    /\ UNCHANGED requests

-----------------------------------------------------------------------------
WalkStep ==
    \/ WalkRequest \/ WalkDelay
    \/ FireOptional \/ SkipOptional
    \/ TakeThen \/ TakeElse \/ TakeNeither
    \/ NextChild \/ EndSequence
    \/ SkipParallel \/ NextBranch \/ EndParallel \/ WalkBatch
    \/ BeginRepeat \/ BeginCounted \/ RepeatThrows \/ Iterate \/ EndRepeat
    \/ UnknownType
    \/ EndIteration

Next == Setup \/ SetupThrows \/ BeginIteration \/ WalkStep

Spec == Init /\ [][Next]_vars

\* The walk is one JavaScript thread, and every request has an end: k6 answers
\* one that takes too long with a timeout.
FairSpec == Spec /\ WF_vars(WalkStep)

-----------------------------------------------------------------------------
\* What each frame is, and what a failure leaves on the stack: only a parallel
\* goes on after a child failed, so the frame a lone failure reached fails too.
EngineInv ==
    /\ flow \in Flow
    /\ phase \in {"setup", "running", "aborted"}
    /\ iteration \in 0..MaxIterations
    /\ requests \in 0..MaxRequests
    /\ broken \in BOOLEAN
    /\ stack # <<>> => phase = "running" /\ stack[1].node = RunNode
    /\ \A k \in 1..Len(stack) :
          /\ stack[k].began <= stack[k].branchBegan
          /\ stack[k].branchBegan <= requests
          /\ stack[k].ok \in BOOLEAN
    /\ \A k \in 1..(Len(stack) - 1) :
          /\ stack[k].node.type \in Composite
          /\ stack[k].i > 0
          /\ stack[k].node.type \in {"sequence", "repeat"} => stack[k].ok
          /\ stack[k].branchBegan <= stack[k + 1].began
    /\ broken /\ stack # <<>> =>
          /\ ~Top.ok
          /\ \A k \in 1..Len(stack) : stack[k].node.type # "parallel"

\* No template reads what it must not: an extract of an earlier iteration, or of
\* another branch of a parallel that is still running (createScope, childScope).
Isolated(v) ==
    "by" \in DOMAIN v =>
        /\ v.by > stack[1].began
        /\ \A k \in 1..(Len(stack) - 1) :
              stack[k].node.type = "parallel" =>
                 v.by \notin (stack[k].began + 1)..stack[k].branchBegan

Isolation ==
    stack # <<>> => \A path \in Path : \A v \in Resolve(path) : Isolated(v)

\* The walker of this node leaves an entry under the node's id.
Binds(node) ==
    /\ node.id # None
    /\ \/ node.type \in {"sequence", "repeat"}
       \/ node.type = "parallel" /\ node.children # <<>>
       \/ node.type = "request" /\ node.extract # {}

\* The children of frame k that have returned.
Returned(k) == 1..(IF k = Len(stack) THEN stack[k].i ELSE stack[k].i - 1)

\* What a child left stays: later siblings of a sequence see it, so do later
\* iterations of a repeat, and a parallel keeps it for the time its branches end.
EarlierVisible ==
    \A k \in 1..Len(stack) :
       LET frame == stack[k]
           node == frame.node
           Kept(child) ==
              Binds(child) => child.id \in DOMAIN Merge(frame.entries, frame.merged)
       IN  /\ node.type \in {"sequence", "parallel"} =>
                 \A j \in Returned(k) : Kept(node.children[j])
           /\ node.type = "repeat" /\ Returned(k) # {} => Kept(node.child)

\* A failure that no parallel can absorb ends the iteration: whatever sequences,
\* repeats, optionals and ifs lie in between, no further request is sent.
NoRequestAfterFailure ==
    [][broken /\ broken' => requests' = requests]_vars

\* A parallel returns only when its wait policy is satisfied, or no branch is
\* left that could satisfy it; so the default, which waits for every branch,
\* walks them all whichever failed, and leaves what each of them extracted
\* (docs/workflow-dsl-v2.md:89, 102, 106).  Nothing is said of what "any" and
\* n_of_m do once they are satisfied: there the documents let the parallel
\* return early, and this engine does not.
WaitKept ==
    LET after == stack'[Len(stack')].entries
        kept == IF Node.id = None THEN after ELSE after[Node.id]
    IN  /\ \/ CheckWaitPolicy(Node.wait, Top.passed, Len(Node.children))
           \/ Top.i = Len(Node.children)
        /\ Node.wait.policy = "all" =>
              \A j \in DOMAIN Node.children :
                 Binds(Node.children[j]) => Node.children[j].id \in DOMAIN kept

ParallelWaits ==
    [][Walking("parallel") /\ ~IsBatch(Node) /\ Node.children # <<>>
          /\ Len(stack') + 1 = Len(stack)
       => WaitKept]_vars

\* Every iteration ends: a while that stays true is cut off by its cap.
IterationEnds == stack # <<>> ~> stack = <<>>
=============================================================================
