-------------------------- MODULE MCWorkflowEngine --------------------------
(* Small flows for TLC: those of the DSL document, and every composite of two *)
(* small children inside a sequence.                                          *)
EXTENDS WorkflowEngine

CONSTANTS MaxNodes, MaxVariants

Schema == INSTANCE WorkflowSchema

A == [type |-> "none", id |-> None, children |-> <<>>, child |-> None,
      then |-> None, else |-> None, condition |-> <<>>, expr |-> <<>>,
      mode |-> "none", max |-> 0, wait |-> [policy |-> "all", n |-> 0],
      expect |-> FALSE, extract |-> {}, variants |-> 0]

Delay == [A EXCEPT !.type = "delay"]
Bogus == [A EXCEPT !.type = "bogus"]

\* A request that expects 200 and extracts a key, and one that does neither.
Get(id) ==
    [A EXCEPT !.type = "request", !.id = id, !.expect = TRUE, !.extract = {"k"}]
Ping == [A EXCEPT !.type = "request", !.variants = 2]

Chain(id, children) ==
    [A EXCEPT !.type = "sequence", !.id = id, !.children = children]
Par(id, policy, n, children) ==
    [A EXCEPT !.type = "parallel", !.id = id, !.children = children,
              !.wait = [policy |-> policy, n |-> n]]
Opt(child) == [A EXCEPT !.type = "optional", !.child = child]
If(path, then, else) ==
    [A EXCEPT !.type = "if", !.condition = path, !.then = then, !.else = else]
Rep(id, mode, path, max, child) ==
    [A EXCEPT !.type = "repeat", !.id = id, !.mode = mode, !.expr = path,
              !.max = max, !.child = child]

Paths == {<<x, "k">> : x \in {"a", "b"}}
             \cup {<<x, y, "k">> : x \in {"s", "p"}, y \in {"a", "b"}}

-----------------------------------------------------------------------------
\* Parallel chains, a fan-out that is batched, cursors, branches, counts.
Documented == {
    Chain("s", <<Get("a"),
                Par("p", "all", 0, <<Chain("s", <<Get("b"), Ping>>), Get("a")>>),
                Ping>>),
    Chain(None, <<Get("a"),
                 Rep("s", "while", <<"a", "k">>, 2, Get("a")),
                 If(<<"s", "a", "k">>, Get("b"), None)>>),
    Chain(None, <<Rep(None, "while", <<"a", "k">>, 2, Get("a")), Ping>>),
    Chain("s", <<Get("a"), If(<<"a", "k">>, Ping, Get("b")),
                Rep("p", "count", <<>>, 2, Get("a"))>>),
    Chain(None, <<Get("a"),
                 Rep(None, "count_template", <<"a", "k">>, 0,
                     Chain(None, <<Get("b"), Opt(Get("a"))>>))>>),
    Chain(None, <<Par(None, "n_of_m", 1, <<Get("a"), Get("b"), Ping>>),
                 Rep(None, "none", <<>>, 0, Ping)>>),
    Chain(None, <<Par("p", "all", 0, <<Get("a"), Get("a")>>), Ping, Opt(None)>>)}

Leaves == {Get("a"), Get("b"), Delay}

Small ==
    UNION {{Chain("s", <<x, y>>),
            Par("p", "any", 0, <<Opt(x), y>>),
            Par(None, "all", 0, <<x, y>>),
            Par(None, "n_of_m", 1, <<Chain(None, <<x, y>>), x>>),
            If(<<"b", "k">>, x, y),
            Rep(None, "while", <<"a", "k">>, 2, Chain(None, <<x, y>>))} :
               x, y \in Leaves}
      \cup {Bogus, Chain("s", <<>>), Par("p", "all", 0, <<>>)}

\* A login, one composite, and a request that may read from both.
Wrapped ==
    {Chain(None, <<Get("a"), x, Ping>>) : x \in Small}
       \cup {Par("p", "any", 0, <<x, Get("b")>>) : x \in Small}

\* Long flows: a sequence too long for the cap, and one behind an if.
Long ==
    LET many == [j \in 1..MaxNodes |-> Ping]
    IN  {Chain(None, many), If(<<"a", "k">>, Chain(None, many), None)}

Registered == {f \in Documented \cup Wrapped \cup Long : Schema!ValidateSchema(f)}

\* The nodes of a flow.
RECURSIVE Nodes(_)
Nodes(f) ==
    IF f = None
    THEN {}
    ELSE {f} \cup UNION {Nodes(f.children[j]) : j \in DOMAIN f.children}
             \cup Nodes(f.child) \cup Nodes(f.then) \cup Nodes(f.else)

AllNodes == UNION {Nodes(f) : f \in Registered}

-----------------------------------------------------------------------------
\* CountNodes against Size: it counts every node and every variant of a flow
\* whose ifs are not looked into.
HasBranches(f) == f.type = "if" \/ \E j \in DOMAIN f.children : f.children[j].type = "if"

RECURSIVE Variants(_)
Variants(f) ==
    IF f = None
    THEN 0
    ELSE f.variants
           + Schema!Sum([j \in DOMAIN f.children |-> Variants(f.children[j])])
           + Variants(f.child)

ASSUME CountsNodes ==
    \A f \in Small : ~HasBranches(f) =>
       Schema!CountNodes(f) = Schema!Size(f) + Variants(f)
=============================================================================
