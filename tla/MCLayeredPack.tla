--------------------------- MODULE MCLayeredPack ---------------------------
(***************************************************************************)
(* Layered packs of up to two members and two or three supplied receipts.  *)
(***************************************************************************)
EXTENDS LayeredPack, SequencesExt

CONSTANTS MaxMembers, MaxSupplied

MCHash == {"a", "b"}
MCKind == {"provider.v0", "model.v0", "note.v0"}
MCLayeredKinds == {"provider.v0", "model.v0"}

Typed(h, k) == [member_kind |-> "typed_receipt_dependency", event_hash |-> h, target_schema |-> k]

Members ==
    {Typed("a", "provider.v0"), Typed("b", "provider.v0"), Typed("a", "note.v0"),
     [Typed("a", "provider.v0") EXCEPT !.member_kind = "depended_on_receipt"],
     [Typed("a", "provider.v0") EXCEPT !.member_kind = "other_member"]}

Roots ==
    {r \in [verifies : BOOLEAN, payload : BOOLEAN, payload_kind : {"model.v0", "note.v0"},
            support_set : BoundedSeq(Members, MaxMembers) \union {Malformed}] :
        r.verifies => r.payload}

Supplies ==
    {s \in [verifies : BOOLEAN, event_hash : {"a", NoHash}, payload_kind : {"provider.v0", "note.v0"}] :
        s.verifies => s.event_hash # NoHash}
    \union {[verifies |-> TRUE, event_hash |-> "b", payload_kind |-> "provider.v0"]}

PackOf(j, f, r, s) == [json |-> j, format_ok |-> f, root_canonical |-> r, receipts |-> s]

AnyRoot == [verifies |-> TRUE, payload |-> TRUE, payload_kind |-> "model.v0", support_set |-> <<>>]

Packs ==
    {PackOf(TRUE, TRUE, r, s) : r \in Roots, s \in BoundedSeq(Supplies, MaxSupplied)}
    \union {PackOf(j, f, AnyRoot, <<>>) : j \in BOOLEAN, f \in BOOLEAN}

MCInit ==
    /\ pack \in {p \in Packs : IsPack(p)}
    /\ Init

MCSpec == MCInit /\ [][Next]_vars /\ WF_vars(Next)

=============================================================================
