---------------------------- MODULE MCIngestion ----------------------------
(***************************************************************************)
(* Ingestion of every JSON tree of up to MaxNodes nodes under limits       *)
(* around its size.                                                        *)
(***************************************************************************)
EXTENDS Ingestion

CONSTANT MaxNodes

Parents(k) == {f \in [2..k -> 1..k] : \A c \in 2..k : f[c] < c}

Trees ==
    {t \in UNION {[size : {k}, parent : Parents(k), type : [1..k -> NodeTypes]] : k \in 1..MaxNodes} :
        IsTree(t)}

Lim(b, d, n, o, a, c) ==
    [max_bytes |-> b, max_depth |-> d, max_node_count |-> n, max_object_size |-> o,
     max_array_size |-> a, max_chain_length |-> c]

Good == [schema |-> TRUE, floats |-> FALSE, typed |-> TRUE]

Bad == [schema |-> FALSE, floats |-> TRUE, typed |-> FALSE]

\* Objects are good envelopes, other nodes cannot be one.
ByType(t) == [n \in Nodes(t) |-> IF t.type[n] = "object" THEN Good ELSE Bad]

Text(b, c, es) == [bytes |-> b, canonical |-> c, envelopes |-> es]

\* Every tree under every combination of structural limits.
StructureInit ==
    /\ tree \in Trees
    /\ limits \in {Lim(1, d, n, o, a, c) : d \in 0..2, n \in {0, 1, 3, MaxNodes}, o \in 0..2,
                                            a \in 1..2, c \in 1..2}
    /\ input = Text(1, "ok", ByType(tree))
    /\ chain \in BOOLEAN

\* The checks around the walk: two arrays and an object of envelopes.
Flat(k, ty) ==
    [size |-> k, parent |-> [c \in 2..k |-> 1],
     type |-> [n \in 1..k |-> IF n = 1 THEN ty ELSE "object"]]

PipelineInit ==
    /\ tree \in {Flat(1, "object"), Flat(1, "array"), Flat(2, "array"), Flat(3, "array")}
    /\ limits = Lim(1, 9, 9, 9, 9, 9)
    /\ \E b \in 0..2, c \in {"ok", "malformed", "noncanonical"}, es \in [Nodes(tree) -> Envelope] :
          /\ \A n \in Nodes(tree) : es[n].schema => tree.type[n] = "object"
          /\ input = Text(b, c, es)
    /\ chain \in BOOLEAN

MCInit == (StructureInit \/ PipelineInit) /\ Init

MCSpec == MCInit /\ [][Next]_vars /\ WF_vars(Next)

=============================================================================
