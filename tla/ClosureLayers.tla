--------------------------- MODULE ClosureLayers ---------------------------
(***************************************************************************)
(* A closure bundle beside the layered packs inside it.  The rules of a    *)
(* dependency edge are written twice: walk and classify_edge of            *)
(* closure_bundle.rs apply them to every receipt of a closure, walk_edge   *)
(* of layered_pack.rs to the root of one pack.  The copies differ in the   *)
(* kinds they admit, in how they read a support set and in which of two    *)
(* receipts with one hash they take; this module says where they agree.    *)
(***************************************************************************)
EXTENDS ClosureBundle

CONSTANTS LayeredPackKinds   \* LAYERED_KINDS of layered_pack.rs: provider.v0 and model.v0

ASSUME LayeredPackKindsAssumption == "" \notin LayeredPackKinds

\* Only the definitions about packs are used, none about a run of that verifier.
L == INSTANCE LayeredPack WITH LayeredKinds <- LayeredPackKinds,
                               pack <- bundle, supplied <- bundle.receipts

\* What layered_pack.rs reads of a supplied receipt of the bundle.
SupplyOf(r) ==
    [verifies |-> r.verifies, event_hash |-> r.event_hash, payload_kind |-> r.payload_kind]

\* The layered pack of receipt r with the receipts of the bundle as its supply.
\* A kind is read from the payload, so a receipt that has one has a payload.
PackOf(r) ==
    [json |-> TRUE, format_ok |-> TRUE,
     root_canonical |-> [verifies |-> r.verifies, payload |-> r.payload_kind # "",
                         payload_kind |-> r.payload_kind, support_set |-> r.support_set],
     receipts |-> [i \in 1..Len(bundle.receipts) |-> SupplyOf(bundle.receipts[i])]]

\* Whoever takes a committed receipt of a layered kind out of a VALID closure
\* bundle, and asks verify_layered_pack about it with the same supply, hears
\* VALID.  Two receipts need care: one whose support set does not deserialize,
\* which only the pack verifier refuses, and one that fails beside a copy that
\* verifies, where the pack verifier takes the first and the bundle the last.
PartsAreLayeredPacks ==
    status = "Valid" =>
        \A i \in 1..Len(bundle.receipts) :
            LET r == bundle.receipts[i] IN
            /\ r.event_hash \in Committed(bundle.manifest)
            /\ r.payload_kind \in LayeredPackKinds
            /\ r.support_set # Malformed
            /\ ~L!Shadowed(PackOf(r))
            => L!LayeredAcceptable(PackOf(r))

=============================================================================
