-------------------------- MODULE RequestTemplates --------------------------
(***************************************************************************)
(* How the k6 engine makes a request out of a node of its flow:             *)
(* prepareRequest (k6/scripts/lib/engine.js), the template resolver         *)
(* (template.js) and the baggage (tracing.js), for the virtual users of a   *)
(* run.  Every virtual user has a JavaScript runtime of its own, in which   *)
(* the flow was parsed once; all its requests read, and partly share, that  *)
(* parsed node.                                                             *)
(*                                                                          *)
(* A template is a text or a reference to a column of a data pool.  The     *)
(* random numbers are choices; of a request the model has the path, the     *)
(* body and the baggage header, the three places a template can be in.      *)
(* References to steps.* are the subject of WorkflowEngine.                 *)
(***************************************************************************)
EXTENDS Naturals, SequencesExt

CONSTANTS VU,          \* virtual users; k6 runs setup() in the runtime of one
          Collection,  \* data pools
          Column,      \* columns of their rows
          Row,         \* rows
          Trace,       \* what generateMetaTraceID draws
          Texts,       \* the texts of a flow
          Nodes,       \* request nodes a flow may have, as parsed
          MaxSent,     \* bound: requests of the run
          None

Text(t) == <<"text", t>>
Data(c, k) == <<"data", c, k>>
Cell(c, k, row) == <<"cell", c, k, row>>
Undefined == <<"undefined">>

\* The order in which resolveDeep meets the templates.
Field == <<"path", "baggage", "body">>
Position == DOMAIN Field

\* The documents.  A text or nothing overrides a column of a pool; a patch is of
\* a field of the request, of the overrides of a whole pool, or of one column.
Plain == {Undefined} \cup {Text(t) : t \in Texts}
Template == Plain \cup {Data(c, k) : c \in Collection, k \in Column}
Fields == [{"path", "baggage", "body"} -> Template]
Patch ==
    [key : {"field"}, field : {"path", "baggage", "body"}, template : Template]
        \cup [key : {"pool"}, of : Collection, object : [Column -> Plain]]
        \cup [key : {"column"}, of : Collection, column : Column, value : Plain]
Variant == [weight : Nat, set : Seq(Patch)]
RequestNode == [label : Plain, fields : Fields, variants : Seq(Variant)]

ASSUME NodesAssumption == Nodes \subseteq RequestNode /\ MaxSent \in Nat

VARIABLES
    parsed,     \* the flow's request node
    node,       \* the request node in each virtual user's runtime
    own,        \* the metaTraceID each runtime drew when it was initialised
    setup,      \* what setup() handed to every virtual user, or None
    sent        \* history: the requests sent

vars == <<parsed, node, own, setup, sent>>

Values == Template \cup {Cell(c, k, row) : c \in Collection, k \in Column, row \in Row}

Request ==
    [vu : VU, pick : Nat, values : [Position -> Values], baggage : Seq(Values \cup
        {<<"meta-trace-id", t>> : t \in Trace} \cup
        {<<"atropos.workflow", t>> : t \in Plain})]

TypeOK ==
    /\ parsed \in Nodes
    /\ node \in [VU -> RequestNode]
    /\ own \in [VU -> Trace]
    /\ \/ setup = None
       \/ setup.trace \in Trace /\ setup.data \in [Collection -> SUBSET Row]
    /\ sent \in Seq(Request) /\ Len(sent) <= MaxSent

Init ==
    /\ parsed \in Nodes
    /\ node = [v \in VU |-> parsed]
    /\ own \in [VU -> Trace]
    /\ setup = None
    /\ sent = << >>

-----------------------------------------------------------------------------
(* Variants *)

Upto(variants, i) == MapThenSumSet(LAMBDA j : variants[j].weight, 1..i)

\* The subtraction loop; 0 is "no variant".  twice is 2 * r, so that the model
\* has a random number between any two sums.
PickVariant(variants, twice) ==
    LET reached == {i \in DOMAIN variants : twice <= 2 * Upto(variants, i)}
    IN  IF Len(variants) = 0 \/ Upto(variants, Len(variants)) = 0 THEN 0
        ELSE IF reached = {} THEN Len(variants)
        ELSE Min(reached)

Draws(variants) == {0} \cup 1..(2 * Upto(variants, Len(variants)) - 1)

\* A patch of a variant's set: the object that overrides a pool belongs to the
\* variant (owner is its place in the set), so that a later patch of a column
\* is written into the parsed flow too.
ApplyPatch(working, j) ==
    LET p == working.set[j] IN
    CASE p.key = "field" -> [working EXCEPT !.fields[p.field] = p.template]
      [] p.key = "pool" ->
            [working EXCEPT !.overrides[p.of] = p.object, !.owner[p.of] = j]
      [] p.key = "column" ->
            [working EXCEPT
                !.overrides[p.of][p.column] = p.value,
                !.set = IF working.owner[p.of] = 0 THEN @
                        ELSE [@ EXCEPT ![working.owner[p.of]].object[p.column] = p.value]]

Unpatched(n, set) ==
    [fields |-> n.fields, set |-> set, owner |-> [c \in Collection |-> 0],
     overrides |-> [c \in Collection |-> [k \in Column |-> Undefined]]]

Patched(n, i) ==
    LET set == IF i = 0 THEN << >> ELSE n.variants[i].set
        after[j \in 0..Len(set)] ==
            IF j = 0 THEN Unpatched(n, set) ELSE ApplyPatch(after[j - 1], j)
    IN  after[Len(set)]

\* Mutant: headers are patched in place.
LeftBehind_HeadersShared(n, i, working) ==
    IF i = 0 THEN n
    ELSE [n EXCEPT !.variants[i].set = working.set,
                   !.fields["baggage"] = working.fields["baggage"]]

\* The node a request leaves behind: body and headers were copied, the values of
\* the variant's set were not.
LeftBehind(n, i, working) ==
    IF i = 0 THEN n ELSE [n EXCEPT !.variants[i].set = working.set]

-----------------------------------------------------------------------------
(* Templates *)

IsData(t) == t[1] = "data"
Overridden(working, t) == working.overrides[t[2]][t[3]] # Undefined

\* Whether the template of field f has a row of pool c drawn or looked up.
Needs(working, f, c) ==
    LET t == working.fields[Field[f]]
    IN  IsData(t) /\ t[2] = c /\ ~Overridden(working, t)

\* Mutant: no cache.
Cached_PerField(working, c, draw, f) == draw[f]

\* _dataCache: the row drawn for the first field that needs the pool.
Cached(working, c, draw, f) ==
    draw[CHOOSE g \in Position :
            Needs(working, g, c) /\ \A h \in Position : Needs(working, h, c) => g <= h]

Evaluate(working, data, draw, f) ==
    LET t == working.fields[Field[f]] IN
    IF ~IsData(t) THEN t
    ELSE IF Overridden(working, t) THEN working.overrides[t[2]][t[3]]
    ELSE IF data[t[2]] = {} THEN Undefined
    ELSE Cell(t[2], t[3], Cached(working, t[2], draw, f))

\* A draw is one random row per field, of the pool the field refers to.
Fits(working, data, draw) ==
    \A f \in Position, c \in Collection :
        Needs(working, f, c) /\ data[c] # {} => draw[f] \in data[c]

-----------------------------------------------------------------------------
(* Baggage *)

\* A flow without a name gives no label.
Entries(trace) ==
    << <<"meta-trace-id", trace>> >> \o
        (IF parsed.label = Undefined THEN << >>
         ELSE << <<"atropos.workflow", parsed.label>> >>)

\* An entry of the node's own comes first; an undefined header counts as none.
WithTracing(existing, trace) ==
    (IF existing = Undefined THEN << >> ELSE <<existing>>) \o Entries(trace)

\* Mutant: the identifier of the runtime, not that of the run.
RunTrace_Own(v) == own[v]

\* ctx.traceID in the runtime of v.
RunTrace(v) == setup.trace

-----------------------------------------------------------------------------
(* Steps *)

\* setup() runs once, in one runtime; without an answer or a dataset it throws
\* and k6 ends the run.  What it returns is copied to every virtual user.
Setup(v) ==
    /\ setup = None
    /\ \E data \in [Collection -> SUBSET Row] :
        setup' = [trace |-> own[v], data |-> data]
    /\ UNCHANGED <<parsed, node, own, sent>>

\* prepareRequest, and the request goes out.
Prepare(v) ==
    /\ setup # None
    /\ Len(sent) < MaxSent
    /\ \E twice \in Draws(parsed.variants), draw \in [Position -> Row] :
        LET i == PickVariant(node[v].variants, twice)
            working == Patched(node[v], i)
            resolved == [f \in Position |-> Evaluate(working, setup.data, draw, f)]
        IN  /\ Fits(working, setup.data, draw)
            /\ node' = [node EXCEPT ![v] = LeftBehind(@, i, working)]
            /\ sent' = Append(sent, [vu |-> v, pick |-> i, values |-> resolved,
                                     baggage |-> WithTracing(resolved[2], RunTrace(v))])
    /\ UNCHANGED <<parsed, own, setup>>

Next == \E v \in VU : Setup(v) \/ Prepare(v)
Spec == Init /\ [][Next]_vars

-----------------------------------------------------------------------------
(* Properties *)

\* References to one pool in one request are to one row of it: the id in the
\* path and the name in the body are those of the same user (template.js:17-20),
\* whatever the variant overrides.  Rows differ between requests.
OneRowPerRequest ==
    \A n \in DOMAIN sent : \A f, g \in Position :
        LET x == sent[n].values[f]
            y == sent[n].values[g]
        IN  x[1] = "cell" /\ y[1] = "cell" /\ x[2] = y[2] => x[4] = y[4]

\* What a template can become in a request of the working copy.
MadeOf(working, t) ==
    IF ~IsData(t) THEN {t}
    ELSE IF Overridden(working, t) THEN {working.overrides[t[2]][t[3]]}
    ELSE {Undefined} \cup {Cell(t[2], t[3], row) : row \in Row}

\* Requests do not see each other although they share the parsed node: each is
\* one that its variant would have made of the node as it was parsed, with texts
\* and overrides of no other variant and of no earlier request.
RequestsIndependent ==
    \A n \in DOMAIN sent :
        LET first == Patched(parsed, sent[n].pick)
        IN  \A f \in Position :
                sent[n].values[f] \in MadeOf(first, first.fields[Field[f]])

\* All requests of a run, of whatever virtual user, name the trace that setup()
\* settled, and name it once, whatever baggage the node has of its own.
OneTracePerRun ==
    \A n \in DOMAIN sent :
        LET b == sent[n].baggage
        IN  \E e \in DOMAIN b :
                /\ b[e] = <<"meta-trace-id", setup.trace>>
                /\ \A d \in DOMAIN b : b[d][1] = "meta-trace-id" => d = e
-----------------------------------------------------------------------------
(* The inductive invariant behind RequestsIndependent.                      *)

\* After its n-th patch the set patches column k of pool c again, before it
\* replaces the overrides of c.
Rewritten(set, n, c, k) ==
    \E q \in DOMAIN set :
        /\ q > n
        /\ set[q].key = "column" /\ set[q].of = c /\ set[q].column = k
        /\ \A m \in (n + 1)..(q - 1) : ~(set[m].key = "pool" /\ set[m].of = c)

\* A set that requests have used differs from the parsed one, first, only where
\* every later use writes the same value again.
Reusable(set, first) ==
    /\ DOMAIN set = DOMAIN first
    /\ \A j \in DOMAIN first :
        IF first[j].key = "pool"
        THEN /\ set[j].key = "pool" /\ set[j].of = first[j].of
             /\ \A k \in Column :
                   \/ set[j].object[k] = first[j].object[k]
                   \/ Rewritten(first, j, first[j].of, k)
        ELSE set[j] = first[j]

NodesReusable ==
    \A v \in VU :
        /\ node[v].label = parsed.label
        /\ node[v].fields = parsed.fields
        /\ DOMAIN node[v].variants = DOMAIN parsed.variants
        /\ \A i \in DOMAIN parsed.variants :
            /\ node[v].variants[i].weight = parsed.variants[i].weight
            /\ Reusable(node[v].variants[i].set, parsed.variants[i].set)

TemplatesInv ==
    /\ TypeOK
    /\ setup = None => sent = << >>
    /\ NodesReusable
=============================================================================
