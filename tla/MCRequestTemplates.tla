-------------------------- MODULE MCRequestTemplates --------------------------
(* Small request nodes for RequestTemplates. *)
EXTENDS RequestTemplates, TLC

PatchField(f, t) == [key |-> "field", field |-> f, template |-> t]
PatchColumn(c, k, v) == [key |-> "column", of |-> c, column |-> k, value |-> Text(v)]
PatchPool(c, f) == [key |-> "pool", of |-> c, object |-> f]

\* A user's id in the path and name in the body; the second and the third
\* variant override the name, the third by an object it then completes.
Shop ==
    [label |-> Text("shop"),
     fields |-> [path |-> Data("users", "id"), baggage |-> Text("vendor=a"),
                 body |-> Data("users", "name")],
     variants |->
        << [weight |-> 0, set |-> <<PatchField("path", Text("/home")),
                                    PatchField("baggage", Text("vendor=b"))>>],
           [weight |-> 2, set |-> <<PatchColumn("users", "name", "eve"),
                                    PatchField("baggage", Data("products", "id"))>>],
           [weight |-> 1, set |-> <<PatchPool("users",
                                        [id |-> Undefined, name |-> Text("bob")]),
                                    PatchColumn("users", "id", "7")>>] >>]

\* Weights that are all zero: the variants are never used.  No name, no label.
Idle == [Shop EXCEPT !.label = Undefined,
                     !.variants = << [@[1] EXCEPT !.weight = 0] >>,
                     !.fields["baggage"] = Undefined]
TwoNodes == {Shop, Idle}

Symmetry == Permutations(VU) \cup Permutations(Trace)
=============================================================================
