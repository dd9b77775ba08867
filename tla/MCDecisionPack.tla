--------------------------- MODULE MCDecisionPack ---------------------------
(***************************************************************************)
(* Decision packs of up to two members and three supplied receipts over    *)
(* two hashes.                                                             *)
(***************************************************************************)
EXTENDS DecisionPack, SequencesExt

CONSTANTS MaxMembers, MaxSupplied

MCHash == {"a", "b"}

Members ==
    {[member_kind |-> k, event_hash |-> h, well_formed |-> TRUE] : k \in ReceiptKinds, h \in MCHash}
    \union {[member_kind |-> k, event_hash |-> "a", well_formed |-> w] :
               k \in AssumptionKinds, w \in BOOLEAN}

Supplies == {s \in [verifies : BOOLEAN, event_hash : MCHash \union {NoHash}] :
                s.verifies => s.event_hash # NoHash}

PackOf(j, f, d, s) == [json |-> j, format_ok |-> f, decision |-> d, depended_on |-> s]

Decisions == [verifies : BOOLEAN, admitted : BOOLEAN, support_set : BoundedSeq(Members, MaxMembers)]

Packs ==
    {PackOf(TRUE, TRUE, d, s) : d \in Decisions, s \in BoundedSeq(Supplies, MaxSupplied)}
    \union {PackOf(j, f, [verifies |-> TRUE, admitted |-> TRUE, support_set |-> <<>>], <<>>) :
               j \in BOOLEAN, f \in BOOLEAN}

MCInit == pack \in Packs /\ Init

MCSpec == MCInit /\ [][Next]_vars /\ WF_vars(Next)

=============================================================================
