--------------------------- MODULE MCClosureWalk ---------------------------
(***************************************************************************)
(* The walk on small indexes.  Indexes are arbitrary graphs, cyclic ones   *)
(* included, as in the unit test cycle_over_depends_on_is_detected.        *)
(***************************************************************************)
EXTENDS ClosureWalk, SequencesExt

MCHash == {"r", "a", "b"}
MCKind == {"model.v0", "pack.v0", "note.v0"}
MCLayeredKinds == {"model.v0", "pack.v0"}

MaxMembers == 2

Typed(g, s) == [member_kind |-> "typed_receipt_dependency", event_hash |-> g, target_schema |-> s]
Untyped(g) == [member_kind |-> "depended_on_receipt", event_hash |-> g, target_schema |-> "model.v0"]
Other == [member_kind |-> "other_member", event_hash |-> "r", target_schema |-> "model.v0"]

ModelNode(s) == [payload_kind |-> "model.v0", support_set |-> s, verify_status |-> "Valid"]

\* Every graph of three verified models with at most two members a node, each
\* edge resolving or naming the wrong schema.
GraphIndexes ==
    LET members == {Typed(g, s) : g \in MCHash, s \in {"model.v0", "pack.v0"}}
    IN  [MCHash -> {ModelNode(s) : s \in BoundedSeq(members, MaxMembers)}]

\* Every index over two hashes: nodes absent, failed or of a kind that is not
\* layered, and members of every kind.
StatusIndexes ==
    LET members == {Typed(g, s) : g \in {"r", "a"}, s \in {"model.v0", "note.v0"}}
                   \union {Untyped("a"), Other}
        nodes == [payload_kind : {"model.v0", "note.v0"},
                  support_set : BoundedSeq(members, MaxMembers),
                  verify_status : {"Valid", "Invalid"}]
    IN  UNION {[D -> nodes] : D \in SUBSET {"r", "a"}}

MCInit ==
    /\ index \in GraphIndexes \union StatusIndexes
    /\ root = "r"
    /\ WalkInit

MCSpec == MCInit /\ [][WalkNext]_walkVars /\ WF_walkVars(WalkNext)

\* `walk` returns on every index, cyclic ones included.
WalkTerminates == <>WalkDone

=============================================================================
