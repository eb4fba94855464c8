--------------------------- MODULE WorkflowSchema ---------------------------
(***************************************************************************)
(* The structural validation of a workflow document                         *)
(* (internal/workflow/validate.go) before it is registered.  Documents are  *)
(* well-formed JSON of the types the decoder expects.                       *)
(***************************************************************************)
EXTENDS Integers, Sequences, SequencesExt

CONSTANTS
    None,             \* a child or branch that is absent
    MaxNodes,         \* maxNodes
    MaxVariants       \* maxVariants

Sum(sizes) == FoldLeft(LAMBDA a, b : a + b, 0, sizes)

\* countNodes: a node, its variants, its children and its child.  The struct it
\* decodes into has no field for the branches of an if.
RECURSIVE CountNodes(_)
CountNodes(node) ==
    IF node = None
    THEN 0
    ELSE 1 + node.variants
           + Sum([j \in DOMAIN node.children |-> CountNodes(node.children[j])])
           + CountNodes(node.child)

\* A node with too many variants is an error wherever countNodes meets it.
RECURSIVE VariantsFit(_)
VariantsFit(node) ==
    node # None =>
       /\ node.variants <= MaxVariants
       /\ \A j \in DOMAIN node.children : VariantsFit(node.children[j])
       /\ VariantsFit(node.child)

ValidateSchema(root) == VariantsFit(root) /\ CountNodes(root) <= MaxNodes

\* The size of a document: every node that the engine can walk.
RECURSIVE Size(_)
Size(node) ==
    IF node = None
    THEN 0
    ELSE 1 + Sum([j \in DOMAIN node.children |-> Size(node.children[j])])
           + Size(node.child) + Size(node.then) + Size(node.else)
=============================================================================
