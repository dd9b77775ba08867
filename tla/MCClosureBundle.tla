-------------------------- MODULE MCClosureBundle --------------------------
(***************************************************************************)
(* The closure bundle verifier on small bundles: a root "r" and two        *)
(* dependencies "a" and "b".                                               *)
(***************************************************************************)
EXTENDS ClosureLayers, SequencesExt

CONSTANTS MaxReceipts   \* supplied receipts in a bundle

MCHash == {"r", "a", "b"}
MCKind == {"pack.v0", "model.v0", "note.v0", ""}
MCLayeredKinds == {"pack.v0", "model.v0"}
MCLayeredPackKinds == {"model.v0"}
MCDigest == {"d1", "d2"}
MCPackKind == "pack.v0"

Typed(g, s) == [member_kind |-> "typed_receipt_dependency", event_hash |-> g, target_schema |-> s]
Untyped(g) == [member_kind |-> "depended_on_receipt", event_hash |-> g, target_schema |-> ""]
Other == [member_kind |-> "other_member", event_hash |-> "r", target_schema |-> ""]
To(g) == Typed(g, "model.v0")

Rcpt(h, k, s, v) ==
    [json |-> TRUE, event_hash |-> h, payload_kind |-> k, support_set |-> s,
     closure_manifest_digest |-> NoDigest, verifies |-> v]

NotJson == [Rcpt(NoHash, "", <<>>, FALSE) EXCEPT !.json = FALSE]

RootReceipt(s, d) == [Rcpt("r", "pack.v0", s, TRUE) EXCEPT !.closure_manifest_digest = d]

ManifestOf(list) ==
    [object |-> TRUE, manifest_digest |-> "d1", recomputed |-> "d1", root_event_hash |-> Absent,
     dependency_count |-> Len(list), receipt_closure |-> list]

BundleOf(r, m, rs) ==
    [json |-> TRUE, format_ok |-> TRUE, root_canonical |-> r, manifest |-> m, receipts |-> rs]

\* Every manifest over a fixed graph r -> a; its root_event_hash is the root's,
\* another receipt's, or none.
ManifestBundles ==
    LET lists == {Absent, <<>>, <<"a">>, <<"a", "a">>, <<"a", "b">>, <<"a", NotAString>>, <<"b">>}
        manifests == [object : BOOLEAN, manifest_digest : {"d1", "d2", NoDigest},
                      recomputed : {"d1", NoDigest}, root_event_hash : {"r", "b", Absent},
                      dependency_count : {Absent, 0, 1, 2}, receipt_closure : lists]
    IN  {BundleOf(RootReceipt(<<To("a")>>, d), m, <<Rcpt("a", "model.v0", <<>>, TRUE)>>) :
            d \in {"d1", "d2", NoDigest}, m \in manifests}

RootSupports == {<<>>, <<To("a")>>, <<To("a"), To("b")>>, <<To("b"), To("a")>>,
                 <<To("a"), To("a")>>, <<Untyped("a")>>, <<Other, To("a")>>, Malformed}

Roots ==
    {RootReceipt(s, "d1") : s \in RootSupports}
    \union {[RootReceipt(s, "d1") EXCEPT !.verifies = FALSE] :
               s \in {<<To("a")>>, <<To("r")>>, <<Typed("r", "pack.v0")>>}}
    \union {[RootReceipt(<<To("a")>>, "d1") EXCEPT !.payload_kind = "model.v0"],
            [RootReceipt(<<To("a")>>, "d1") EXCEPT !.event_hash = NoHash, !.verifies = FALSE],
            NotJson}

\* Receipts that verify, fail, are of another kind, or cannot be read.
Pool ==
    {Rcpt("a", "model.v0", s, TRUE) :
        s \in {<<>>, <<To("b")>>, <<To("b"), To("b")>>, <<Typed("b", "pack.v0")>>, <<Untyped("b")>>, Malformed}}
    \union {Rcpt("a", "model.v0", s, FALSE) : s \in {<<>>, <<Typed("r", "pack.v0")>>}}
    \union {Rcpt("b", "model.v0", s, TRUE) : s \in {<<>>, <<To("a")>>, <<Typed("r", "pack.v0")>>}}
    \union {Rcpt("b", "note.v0", <<>>, TRUE), Rcpt("r", "pack.v0", <<>>, FALSE),
            Rcpt(NoHash, "model.v0", <<>>, FALSE), NotJson}

GraphBundles ==
    {BundleOf(r, ManifestOf(list), rs) :
        r \in Roots, list \in {<<>>, <<"a">>, <<"a", "b">>}, rs \in BoundedSeq(Pool, MaxReceipts)}

BadBundles ==
    {[BundleOf(RootReceipt(<<>>, "d1"), ManifestOf(<<>>), <<>>) EXCEPT !.json = j, !.format_ok = f] :
        j \in BOOLEAN, f \in BOOLEAN}

MCInit ==
    /\ bundle \in {b \in ManifestBundles \union GraphBundles \union BadBundles : ContentAddressed(b)}
    /\ Init

MCSpec == MCInit /\ [][Next]_vars /\ WF_vars(Next)

=============================================================================
