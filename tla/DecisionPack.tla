---------------------------- MODULE DecisionPack ----------------------------
(***************************************************************************)
(* verify_decision_pack of decision_pack.rs: a decision receipt and the    *)
(* receipts its support set commits.  Every supplied receipt is verified   *)
(* once and sorted into verified_hashes and failed_hashes; then the        *)
(* support set is walked member by member.                                 *)
(***************************************************************************)
EXTENDS Naturals, Sequences

CONSTANTS
    Hash,    \* event_hash values
    NoHash   \* no readable event_hash

ASSUME NoHashAssumption == NoHash \notin Hash

VARIABLES
    pack,             \* the input
    phase,
    position,         \* supplied receipts, then members, already treated
    verified_hashes,
    failed_hashes,
    member_checks,
    errors,           \* kinds of the errors collected
    status

vars == <<pack, phase, position, verified_hashes, failed_hashes, member_checks, errors, status>>

----------------------------------------------------------------------------
(* Data *)

ReceiptKinds == {"depended_on_receipt", "typed_receipt_dependency"}

AssumptionKinds == {"evidence_digest", "cited_link", "selector_value"}

\* well_formed: the digest is 64 hex digits, the link is not empty.
Member == [member_kind : ReceiptKinds \union AssumptionKinds, event_hash : Hash, well_formed : BOOLEAN]

\* admitted: the payload is there, is of kind decision.v0 and deserializes.
Decision == [verifies : BOOLEAN, admitted : BOOLEAN, support_set : Seq(Member)]

Supply == [verifies : BOOLEAN, event_hash : Hash \union {NoHash}]

DecisionPackInput == [json : BOOLEAN, format_ok : BOOLEAN, decision : Decision,
                      depended_on : Seq(Supply)]

MemberStatus == {"verified", "committed", "missing", "failed"}

\* A receipt that verifies states the hash it verified.
IsPack(p) ==
    /\ p \in DecisionPackInput
    /\ \A n \in 1..Len(p.depended_on) :
          p.depended_on[n].verifies => p.depended_on[n].event_hash \in Hash

----------------------------------------------------------------------------
(* The verifier *)

Init ==
    /\ IsPack(pack)
    /\ phase = "parse"
    /\ position = 0
    /\ verified_hashes = {}
    /\ failed_hashes = {}
    /\ member_checks = <<>>
    /\ errors = {}
    /\ status = "pending"

ParsePack ==
    /\ phase = "parse"
    /\ \/ /\ ~(pack.json /\ pack.format_ok)
          /\ errors' = {"pack"}
          /\ status' = "Invalid"
          /\ phase' = "done"
       \/ /\ pack.json /\ pack.format_ok
          /\ phase' = "decision"
          /\ UNCHANGED <<errors, status>>
    /\ UNCHANGED <<pack, position, verified_hashes, failed_hashes, member_checks>>

\* A mutant: the early return forgets the errors of the envelope.
VerifyDecisionForgets ==
    /\ phase = "decision"
    /\ \/ /\ ~pack.decision.admitted
          /\ errors' = {"payload"}
          /\ status' = "Invalid"
          /\ phase' = "done"
       \/ /\ pack.decision.admitted
          /\ errors' = {e \in {"envelope"} : ~pack.decision.verifies}
          /\ phase' = "supplied"
          /\ UNCHANGED status
    /\ UNCHANGED <<pack, position, verified_hashes, failed_hashes, member_checks>>

\* The decision envelope is verified; a payload that is not admitted returns
\* early with the errors of the envelope.
VerifyDecision ==
    /\ phase = "decision"
    /\ LET envelope == {e \in {"envelope"} : ~pack.decision.verifies} IN
       \/ /\ ~pack.decision.admitted
          /\ errors' = envelope \union {"payload"}
          /\ status' = "Invalid"
          /\ phase' = "done"
       \/ /\ pack.decision.admitted
          /\ errors' = envelope
          /\ phase' = "supplied"
          /\ UNCHANGED status
    /\ UNCHANGED <<pack, position, verified_hashes, failed_hashes, member_checks>>

\* A mutant: a receipt that states no hash is skipped without an error.
VerifySuppliedSilent ==
    /\ phase = "supplied"
    /\ position < Len(pack.depended_on)
    /\ LET s == pack.depended_on[position + 1] IN
       \/ /\ s.verifies
          /\ verified_hashes' = verified_hashes \union {s.event_hash}
          /\ UNCHANGED failed_hashes
       \/ /\ ~s.verifies
          /\ failed_hashes' = failed_hashes \union ({s.event_hash} \ {NoHash})
          /\ UNCHANGED verified_hashes
    /\ position' = position + 1
    /\ UNCHANGED <<pack, phase, member_checks, errors, status>>

VerifySupplied ==
    /\ phase = "supplied"
    /\ position < Len(pack.depended_on)
    /\ LET s == pack.depended_on[position + 1] IN
       \/ /\ s.verifies
          /\ verified_hashes' = verified_hashes \union {s.event_hash}
          /\ UNCHANGED <<failed_hashes, errors>>
       \/ /\ ~s.verifies /\ s.event_hash # NoHash
          /\ failed_hashes' = failed_hashes \union {s.event_hash}
          /\ UNCHANGED <<verified_hashes, errors>>
       \/ /\ ~s.verifies /\ s.event_hash = NoHash
          /\ errors' = errors \union {"unreadable"}
          /\ UNCHANGED <<verified_hashes, failed_hashes>>
    /\ position' = position + 1
    /\ UNCHANGED <<pack, phase, member_checks, status>>

StartWalk ==
    /\ phase = "supplied"
    /\ position = Len(pack.depended_on)
    /\ phase' = "members"
    /\ position' = 0
    /\ UNCHANGED <<pack, verified_hashes, failed_hashes, member_checks, errors, status>>

\* A mutant: one failing copy outweighs a verified one.
walk_member_pessimist(m) ==
    IF m.member_kind \in ReceiptKinds
    THEN IF m.event_hash \in failed_hashes THEN "failed"
         ELSE IF m.event_hash \in verified_hashes THEN "verified"
         ELSE "missing"
    ELSE IF m.member_kind = "selector_value" \/ m.well_formed THEN "committed" ELSE "failed"

\* A receipt that verifies prevails over one of the same hash that does not.
walk_member(m) ==
    IF m.member_kind \in ReceiptKinds
    THEN IF m.event_hash \in verified_hashes THEN "verified"
         ELSE IF m.event_hash \in failed_hashes THEN "failed"
         ELSE "missing"
    ELSE IF m.member_kind = "selector_value" \/ m.well_formed THEN "committed" ELSE "failed"

\* A mutant: only a missing member is an error.
WalkMemberMissingOnly ==
    /\ phase = "members"
    /\ position < Len(pack.decision.support_set)
    /\ LET found == walk_member(pack.decision.support_set[position + 1]) IN
       /\ member_checks' = Append(member_checks, found)
       /\ errors' = errors \union {e \in {"member"} : found = "missing"}
    /\ position' = position + 1
    /\ UNCHANGED <<pack, phase, verified_hashes, failed_hashes, status>>

WalkMember ==
    /\ phase = "members"
    /\ position < Len(pack.decision.support_set)
    /\ LET found == walk_member(pack.decision.support_set[position + 1]) IN
       /\ member_checks' = Append(member_checks, found)
       /\ errors' = errors \union {e \in {"member"} : found \in {"missing", "failed"}}
    /\ position' = position + 1
    /\ UNCHANGED <<pack, phase, verified_hashes, failed_hashes, status>>

AllMembersHold ==
    \A n \in 1..Len(member_checks) : member_checks[n] \in {"verified", "committed"}

Conclude ==
    /\ phase = "members"
    /\ position = Len(pack.decision.support_set)
    /\ status' = IF pack.decision.verifies /\ errors = {} /\ AllMembersHold
                 THEN "Valid" ELSE "Invalid"
    /\ phase' = "done"
    /\ UNCHANGED <<pack, position, verified_hashes, failed_hashes, member_checks, errors>>

Next ==
    \/ ParsePack
    \/ VerifyDecision
    \/ VerifySupplied
    \/ StartWalk
    \/ WalkMember
    \/ Conclude

Spec == Init /\ [][Next]_vars

FairSpec == Spec /\ WF_vars(Next)

----------------------------------------------------------------------------
(* What the verifier decides *)

Stating(p, h) == {n \in 1..Len(p.depended_on) : p.depended_on[n].event_hash = h}

\* A member holds in pack p: by replay, or as a committed assumption.
Replayed(p, h) == \E n \in Stating(p, h) : p.depended_on[n].verifies

Holds(p, m) ==
    IF m.member_kind \in ReceiptKinds
    THEN Replayed(p, m.event_hash)
    ELSE m.member_kind # "selector_value" => m.well_formed

DecisionAcceptable(p) ==
    /\ p.json /\ p.format_ok
    /\ p.decision.verifies /\ p.decision.admitted
    /\ Stating(p, NoHash) = {}
    /\ \A n \in 1..Len(p.decision.support_set) : Holds(p, p.decision.support_set[n])

V == INSTANCE Verdict WITH Acceptable <- DecisionAcceptable, input <- pack, verdict <- status

----------------------------------------------------------------------------
(* Properties *)

\* Every variable keeps its type.
TypeOK ==
    /\ IsPack(pack)
    /\ phase \in {"parse", "decision", "supplied", "members", "done"}
    /\ position \in Nat
    /\ verified_hashes \subseteq Hash
    /\ failed_hashes \subseteq Hash
    /\ member_checks \in Seq(MemberStatus)
    /\ errors \subseteq {"pack", "envelope", "payload", "unreadable", "member"}
    /\ status \in {"pending", "Valid", "Invalid"}

\* A decision pack is VALID exactly when its decision verifies and every member
\* of the support set still holds; the verdict is given once and always given.
DecidesDecision == V!Spec

\* Once the walk is over there is one check per member in committed order, and
\* it tells apart a receipt that is supplied and verifies, one of which only
\* failing copies are supplied, and one not supplied, whatever the order and
\* number of the copies.
ChecksTellTheSupply ==
    phase = "done" /\ pack.json /\ pack.format_ok /\ pack.decision.admitted =>
        /\ Len(member_checks) = Len(pack.decision.support_set)
        /\ \A n \in 1..Len(member_checks) :
              LET m == pack.decision.support_set[n] IN
              m.member_kind \in ReceiptKinds =>
                  /\ member_checks[n] = "verified" <=> Replayed(pack, m.event_hash)
                  /\ member_checks[n] = "missing" <=> Stating(pack, m.event_hash) = {}

\* What there is to report of a pack: after a pack that cannot be read, or a
\* payload that is not admitted, nothing further is looked at.
Causes(p) ==
    IF ~(p.json /\ p.format_ok) THEN {"pack"}
    ELSE {e \in {"envelope"} : ~p.decision.verifies}
         \union (IF ~p.decision.admitted THEN {"payload"}
                 ELSE {e \in {"unreadable"} : Stating(p, NoHash) # {}}
                      \union {e \in {"member"} :
                                \E n \in 1..Len(p.decision.support_set) :
                                   ~Holds(p, p.decision.support_set[n])})

\* The list of errors, which the envelope, the payload, the supplied receipts
\* and the members share, tells exactly the causes there are, early returns
\* included: no phase drops or masks what an earlier one found, no member that
\* is OUT goes unreported, and no error comes without its cause.
ErrorsTellTheirCauses == phase = "done" => errors = Causes(pack)

----------------------------------------------------------------------------
(* A claim of the documentation the code does not keep *)

Referenced(p) ==
    {p.decision.support_set[n].event_hash : n \in
        {k \in 1..Len(p.decision.support_set) : p.decision.support_set[k].member_kind \in ReceiptKinds}}

OnlyReferenced(p) ==
    [p EXCEPT !.depended_on = SelectSeq(@, LAMBDA s : s.event_hash \in Referenced(p))]

\* decision_pack.rs: "Supplied receipts that no member references are ignored".
UnreferencedIgnored ==
    phase = "done" => (status = "Valid" <=> DecisionAcceptable(OnlyReferenced(pack)))

----------------------------------------------------------------------------
(* The inductive invariant *)

\* The part of the supply that was verified.
Treated == IF phase = "members" \/ phase = "done" THEN 1..Len(pack.depended_on) ELSE 1..position

HashesOf(S) == {pack.depended_on[n].event_hash : n \in S}

SupplyInv ==
    phase \in {"supplied", "members"} =>
        /\ phase = "supplied" => position <= Len(pack.depended_on)
        /\ verified_hashes = HashesOf({n \in Treated : pack.depended_on[n].verifies})
        /\ failed_hashes = HashesOf({n \in Treated : ~pack.depended_on[n].verifies}) \ {NoHash}

EarlyInv ==
    /\ phase \in {"parse", "decision"} =>
          position = 0 /\ verified_hashes = {} /\ failed_hashes = {} /\ errors = {}
    /\ phase # "parse" /\ phase # "done" => pack.json /\ pack.format_ok
    /\ phase \in {"supplied", "members"} => pack.decision.admitted
    /\ phase \in {"parse", "decision", "supplied"} => member_checks = <<>>
    /\ phase # "done" => status = "pending"

MembersInv ==
    phase = "members" =>
        /\ position = Len(member_checks)
        /\ position <= Len(pack.decision.support_set)
        /\ \A n \in 1..position : member_checks[n] = walk_member(pack.decision.support_set[n])

ErrorsInv ==
    phase \in {"supplied", "members"} =>
        /\ "envelope" \in errors <=> ~pack.decision.verifies
        /\ "unreadable" \in errors <=>
              \E n \in Treated : pack.depended_on[n].event_hash = NoHash
        /\ "member" \in errors <=>
              \E n \in 1..Len(member_checks) : member_checks[n] \in {"missing", "failed"}
        /\ "pack" \notin errors /\ "payload" \notin errors

\* The answer, once given.
VerdictRight == phase = "done" => (status = "Valid" <=> DecisionAcceptable(pack))

DecisionInv ==
    /\ TypeOK
    /\ EarlyInv
    /\ SupplyInv
    /\ MembersInv
    /\ ErrorsInv
    /\ VerdictRight
    /\ ChecksTellTheSupply
    /\ ErrorsTellTheirCauses

=============================================================================
