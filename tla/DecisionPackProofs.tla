------------------------- MODULE DecisionPackProofs -------------------------
(***************************************************************************)
(* Proofs about decision packs: the verdict, and what the member checks    *)
(* say of the supplied receipts, for every set of hashes, every support    *)
(* set and any number of supplied receipts in any order.                   *)
(***************************************************************************)
EXTENDS DecisionPack, TLAPS

\* The parts of a pack are well typed.
LEMMA PackParts ==
    ASSUME IsPack(pack)
    PROVE  /\ pack.json \in BOOLEAN
           /\ pack.format_ok \in BOOLEAN
           /\ pack.decision.verifies \in BOOLEAN
           /\ pack.decision.admitted \in BOOLEAN
           /\ pack.decision.support_set \in Seq(Member)
           /\ pack.depended_on \in Seq(Supply)
           /\ Len(pack.decision.support_set) \in Nat
           /\ Len(pack.depended_on) \in Nat
BY DEF IsPack, DecisionPackInput, Decision

LEMMA SuppliedType ==
    ASSUME IsPack(pack), NEW n \in 1..Len(pack.depended_on)
    PROVE  /\ pack.depended_on[n] \in Supply
           /\ pack.depended_on[n].verifies \in BOOLEAN
           /\ pack.depended_on[n].event_hash \in Hash \union {NoHash}
           /\ pack.depended_on[n].verifies => pack.depended_on[n].event_hash \in Hash
<1>1. pack.depended_on[n] \in Supply
  BY PackParts
<1> QED BY <1>1 DEF Supply, IsPack

LEMMA MemberType ==
    ASSUME IsPack(pack), NEW n \in 1..Len(pack.decision.support_set)
    PROVE  /\ pack.decision.support_set[n] \in Member
           /\ pack.decision.support_set[n].event_hash \in Hash
           /\ pack.decision.support_set[n].event_hash # NoHash
           /\ pack.decision.support_set[n].well_formed \in BOOLEAN
<1>1. pack.decision.support_set[n] \in Member
  BY PackParts
<1> QED BY <1>1, NoHashAssumption DEF Member

----------------------------------------------------------------------------
(* What walk_member says once the whole supply was verified *)

\* A receipt-backed member is "verified" when a receipt that verifies states its
\* hash and "missing" when none states it; "verified" and "committed" are the
\* findings of the members that hold.
LEMMA WalkMemberTells ==
    ASSUME IsPack(pack),
           verified_hashes = HashesOf({n \in 1..Len(pack.depended_on) : pack.depended_on[n].verifies}),
           failed_hashes =
              HashesOf({n \in 1..Len(pack.depended_on) : ~pack.depended_on[n].verifies}) \ {NoHash},
           NEW n \in 1..Len(pack.decision.support_set)
    PROVE  LET m == pack.decision.support_set[n] IN
           /\ m.member_kind \in ReceiptKinds =>
                 /\ walk_member(m) = "verified" <=> Replayed(pack, m.event_hash)
                 /\ walk_member(m) = "missing" <=> Stating(pack, m.event_hash) = {}
           /\ walk_member(m) \in {"verified", "committed"} <=> Holds(pack, m)
           /\ walk_member(m) \in {"missing", "failed"} <=> ~Holds(pack, m)
<1> DEFINE m == pack.decision.support_set[n]
<1>1. m.event_hash # NoHash
  BY MemberType
<1>2. m.event_hash \in verified_hashes <=> Replayed(pack, m.event_hash)
  BY DEF HashesOf, Replayed, Stating
<1>3. m.event_hash \in failed_hashes <=>
         \E j \in Stating(pack, m.event_hash) : ~pack.depended_on[j].verifies
  BY <1>1 DEF HashesOf, Stating
<1>4. Stating(pack, m.event_hash) = {} <=>
         m.event_hash \notin verified_hashes /\ m.event_hash \notin failed_hashes
  BY <1>2, <1>3 DEF Replayed
<1>5. CASE m.member_kind \in ReceiptKinds
  BY <1>2, <1>4, <1>5 DEF walk_member, Holds
<1>6. CASE m.member_kind \notin ReceiptKinds
  BY <1>6 DEF walk_member, Holds
<1> QED BY <1>5, <1>6

LEMMA WalkMemberType == ASSUME NEW m PROVE walk_member(m) \in MemberStatus
BY DEF walk_member, MemberStatus

----------------------------------------------------------------------------
(* The invariant *)

LEMMA DecisionInvInit == Init => DecisionInv
BY DEF Init, DecisionInv, TypeOK, EarlyInv, SupplyInv, MembersInv, ErrorsInv, VerdictRight,
       ChecksTellTheSupply, ErrorsTellTheirCauses

\* An early return is INVALID of an input that is not acceptable.
LEMMA EarlyReturns ==
    ASSUME DecisionInv, ParsePack \/ VerifyDecision
    PROVE  DecisionInv'
<1> USE DEF DecisionInv
<1>1. TypeOK'
  <2>1. IsPack(pack') /\ member_checks' \in Seq(MemberStatus) /\ position' \in Nat
    BY DEF TypeOK, ParsePack, VerifyDecision
  <2> QED BY <2>1 DEF TypeOK, ParsePack, VerifyDecision
<1>2. EarlyInv'
  BY DEF TypeOK, EarlyInv, ParsePack, VerifyDecision
<1>3. SupplyInv' /\ MembersInv'
  <2>1. phase' = "supplied" => Treated' = {}
    BY DEF EarlyInv, Treated, ParsePack, VerifyDecision
  <2>2. CASE phase' = "supplied"
    <3>1. /\ verified_hashes' = {} /\ failed_hashes' = {} /\ position' = 0 /\ pack' = pack
      BY <2>2 DEF EarlyInv, ParsePack, VerifyDecision
    <3>2. Len(pack.depended_on) \in Nat
      BY PackParts DEF TypeOK
    <3> QED BY <2>1, <2>2, <3>1, <3>2 DEF SupplyInv, MembersInv, HashesOf
  <2>3. CASE phase' # "supplied"
    BY <2>3 DEF SupplyInv, MembersInv, ParsePack, VerifyDecision
  <2> QED BY <2>2, <2>3
<1>4. ErrorsInv'
  <2>1. CASE phase' = "supplied"
    <3>1. /\ member_checks' = <<>> /\ pack' = pack /\ Treated' = {}
          /\ errors' = {e \in {"envelope"} : ~pack.decision.verifies}
      BY <2>1 DEF EarlyInv, Treated, ParsePack, VerifyDecision
    <3> QED BY <2>1, <3>1 DEF ErrorsInv
  <2>2. CASE phase' # "supplied"
    BY <2>2 DEF ErrorsInv, ParsePack, VerifyDecision
  <2> QED BY <2>1, <2>2
<1>5. VerdictRight'
  BY DEF VerdictRight, DecisionAcceptable, ParsePack, VerifyDecision
<1>6. ChecksTellTheSupply'
  BY DEF ChecksTellTheSupply, ParsePack, VerifyDecision
<1>7. ErrorsTellTheirCauses'
  <2>1. CASE ParsePack
    BY <2>1 DEF ErrorsTellTheirCauses, Causes, ParsePack
  <2>2. CASE VerifyDecision
    <3>1. pack' = pack /\ pack.json /\ pack.format_ok
      BY <2>2 DEF EarlyInv, VerifyDecision
    <3> QED BY <2>2, <3>1 DEF ErrorsTellTheirCauses, Causes, VerifyDecision
  <2> QED BY <2>1, <2>2
<1> QED BY <1>1, <1>2, <1>3, <1>4, <1>5, <1>6, <1>7

\* Verifying one more supplied receipt adds its hash on the right side.
LEMMA SuppliedStep ==
    ASSUME DecisionInv, VerifySupplied
    PROVE  DecisionInv'
<1> USE DEF DecisionInv
<1> DEFINE s == pack.depended_on[position + 1]
<1>0. /\ IsPack(pack) /\ position \in Nat /\ Len(pack.depended_on) \in Nat
      /\ position + 1 \in 1..Len(pack.depended_on)
      /\ pack' = pack /\ phase = "supplied" /\ phase' = "supplied" /\ position' = position + 1
      /\ UNCHANGED <<member_checks, status>>
  BY PackParts DEF TypeOK, VerifySupplied
<1>1. /\ s.verifies \in BOOLEAN
      /\ s.event_hash \in Hash \union {NoHash}
      /\ s.verifies => s.event_hash \in Hash
  BY <1>0, SuppliedType
<1>2. /\ Treated = 1..position
      /\ Treated' = (1..position) \union {position + 1}
  BY <1>0 DEF Treated
<1>3. TypeOK'
  <2>1. verified_hashes' \subseteq Hash /\ failed_hashes' \subseteq Hash
    BY <1>0, <1>1 DEF TypeOK, VerifySupplied
  <2>2. errors' \subseteq {"pack", "envelope", "payload", "unreadable", "member"}
    BY DEF TypeOK, VerifySupplied
  <2> QED BY <1>0, <2>1, <2>2 DEF TypeOK
<1>4. EarlyInv'
  BY <1>0 DEF EarlyInv, VerifySupplied
<1>5. SupplyInv'
  <2>1. /\ verified_hashes = HashesOf({n \in 1..position : pack.depended_on[n].verifies})
        /\ failed_hashes = HashesOf({n \in 1..position : ~pack.depended_on[n].verifies}) \ {NoHash}
    BY <1>0, <1>2 DEF SupplyInv
  <2>2. verified_hashes' = verified_hashes \union {h \in {s.event_hash} : s.verifies}
    BY <1>1 DEF VerifySupplied
  <2>3. failed_hashes' = failed_hashes \union ({h \in {s.event_hash} : ~s.verifies} \ {NoHash})
    BY <1>1 DEF VerifySupplied
  <2>4. verified_hashes' = HashesOf({n \in Treated' : pack.depended_on[n].verifies})
    BY <1>2, <2>1, <2>2 DEF HashesOf
  <2>5. failed_hashes' = HashesOf({n \in Treated' : ~pack.depended_on[n].verifies}) \ {NoHash}
    BY <1>2, <2>1, <2>3 DEF HashesOf
  <2>6. /\ HashesOf({n \in Treated : pack.depended_on[n].verifies})'
              = HashesOf({n \in Treated' : pack.depended_on[n].verifies})
        /\ HashesOf({n \in Treated : ~pack.depended_on[n].verifies})'
              = HashesOf({n \in Treated' : ~pack.depended_on[n].verifies})
    BY <1>0, Zenon DEF HashesOf
  <2>7. position' <= Len(pack'.depended_on)
    BY <1>0
  <2> QED BY <1>0, <2>4, <2>5, <2>6, <2>7 DEF SupplyInv
<1>6. ErrorsInv'
  <2>1. errors' = errors \union {e \in {"unreadable"} : s.event_hash = NoHash}
    BY <1>1, NoHashAssumption DEF VerifySupplied
  <2>2. (\E n \in Treated' : pack.depended_on[n].event_hash = NoHash) <=>
           (\E n \in Treated : pack.depended_on[n].event_hash = NoHash) \/ s.event_hash = NoHash
    BY <1>2
  <2> QED BY <1>0, <2>1, <2>2 DEF ErrorsInv
<1>7. MembersInv' /\ VerdictRight' /\ ChecksTellTheSupply' /\ ErrorsTellTheirCauses'
  BY <1>0 DEF MembersInv, VerdictRight, ChecksTellTheSupply, ErrorsTellTheirCauses
<1> QED BY <1>3, <1>4, <1>5, <1>6, <1>7

\* Once every supplied receipt is verified the tables are complete.
LEMMA StartWalkStep ==
    ASSUME DecisionInv, StartWalk
    PROVE  DecisionInv'
<1> USE DEF DecisionInv
<1>0. /\ position = Len(pack.depended_on) /\ phase = "supplied" /\ phase' = "members"
      /\ position' = 0 /\ Treated' = Treated
      /\ UNCHANGED <<pack, verified_hashes, failed_hashes, member_checks, errors, status>>
  BY DEF StartWalk, Treated
<1>1. member_checks = <<>> /\ Len(pack.decision.support_set) \in Nat
  BY <1>0, PackParts DEF EarlyInv, TypeOK
<1>2. TypeOK' /\ EarlyInv'
  BY <1>0 DEF TypeOK, EarlyInv
<1>3. SupplyInv'
  <2>1. /\ HashesOf({n \in Treated : pack.depended_on[n].verifies})'
              = HashesOf({n \in Treated : pack.depended_on[n].verifies})
        /\ HashesOf({n \in Treated : ~pack.depended_on[n].verifies})'
              = HashesOf({n \in Treated : ~pack.depended_on[n].verifies})
    BY <1>0, Zenon DEF HashesOf
  <2> QED BY <1>0, <2>1 DEF SupplyInv
<1>4. MembersInv' /\ ErrorsInv'
  BY <1>0, <1>1 DEF MembersInv, ErrorsInv
<1>5. VerdictRight' /\ ChecksTellTheSupply' /\ ErrorsTellTheirCauses'
  BY <1>0 DEF VerdictRight, ChecksTellTheSupply, ErrorsTellTheirCauses
<1> QED BY <1>2, <1>3, <1>4, <1>5

\* One more member is walked, against the same tables.
LEMMA MemberStep ==
    ASSUME DecisionInv, WalkMember
    PROVE  DecisionInv'
<1> USE DEF DecisionInv
<1> DEFINE found == walk_member(pack.decision.support_set[position + 1])
<1>0. /\ IsPack(pack) /\ position \in Nat /\ position = Len(member_checks)
      /\ position + 1 <= Len(pack.decision.support_set)
      /\ Len(pack.decision.support_set) \in Nat
      /\ phase = "members" /\ phase' = "members" /\ position' = position + 1
      /\ member_checks \in Seq(MemberStatus)
      /\ member_checks' = Append(member_checks, found)
      /\ errors' = errors \union {e \in {"member"} : found \in {"missing", "failed"}}
      /\ Treated' = Treated
      /\ UNCHANGED <<pack, verified_hashes, failed_hashes, status>>
  BY PackParts DEF TypeOK, MembersInv, WalkMember, Treated
<1>1. found \in MemberStatus
  BY WalkMemberType
<1>2. /\ Len(member_checks') = position + 1
      /\ member_checks'[position + 1] = found
      /\ \A n \in 1..position : member_checks'[n] = member_checks[n]
  BY <1>0, <1>1
<1>3. TypeOK'
  <2>1. member_checks' \in Seq(MemberStatus) /\ position' \in Nat
    BY <1>0, <1>1
  <2>2. errors' \subseteq {"pack", "envelope", "payload", "unreadable", "member"}
    BY <1>0 DEF TypeOK
  <2> QED BY <1>0, <2>1, <2>2 DEF TypeOK
<1>4. EarlyInv'
  BY <1>0 DEF EarlyInv
<1>5. SupplyInv'
  <2>1. /\ HashesOf({n \in Treated : pack.depended_on[n].verifies})'
              = HashesOf({n \in Treated : pack.depended_on[n].verifies})
        /\ HashesOf({n \in Treated : ~pack.depended_on[n].verifies})'
              = HashesOf({n \in Treated : ~pack.depended_on[n].verifies})
    BY <1>0, Zenon DEF HashesOf
  <2> QED BY <1>0, <2>1 DEF SupplyInv
<1>6. MembersInv'
  <2>1. \A n \in 1..position' : member_checks'[n] = walk_member(pack.decision.support_set[n])
    BY <1>0, <1>2 DEF MembersInv
  <2>2. \A n \in 1..position' : member_checks'[n] = walk_member(pack.decision.support_set[n])'
    BY <1>0, <2>1 DEF walk_member
  <2> QED BY <1>0, <1>2, <2>2 DEF MembersInv
<1>7. ErrorsInv'
  <2>1. (\E n \in 1..Len(member_checks') : member_checks'[n] \in {"missing", "failed"}) <=>
           \/ \E n \in 1..Len(member_checks) : member_checks[n] \in {"missing", "failed"}
           \/ found \in {"missing", "failed"}
    BY <1>0, <1>2
  <2>2. "member" \in errors' <=> "member" \in errors \/ found \in {"missing", "failed"}
    BY <1>0
  <2>3. \A e : e # "member" => (e \in errors' <=> e \in errors)
    BY <1>0
  <2> QED BY <1>0, <2>1, <2>2, <2>3 DEF ErrorsInv
<1>8. VerdictRight' /\ ChecksTellTheSupply' /\ ErrorsTellTheirCauses'
  BY <1>0 DEF VerdictRight, ChecksTellTheSupply, ErrorsTellTheirCauses
<1> QED BY <1>3, <1>4, <1>5, <1>6, <1>7, <1>8

\* The conclusion is the declarative verdict, and the checks tell the supply.
LEMMA ConcludeStep ==
    ASSUME DecisionInv, Conclude
    PROVE  DecisionInv'
<1> USE DEF DecisionInv
<1> DEFINE Support == pack.decision.support_set
<1>0. /\ IsPack(pack) /\ phase = "members" /\ phase' = "done"
      /\ Len(member_checks) = Len(Support) /\ Len(Support) \in Nat
      /\ pack.json /\ pack.format_ok /\ pack.decision.admitted
      /\ UNCHANGED <<pack, position, verified_hashes, failed_hashes, member_checks, errors>>
  BY PackParts DEF TypeOK, EarlyInv, MembersInv, Conclude
<1>1. /\ verified_hashes = HashesOf({n \in 1..Len(pack.depended_on) : pack.depended_on[n].verifies})
      /\ failed_hashes =
            HashesOf({n \in 1..Len(pack.depended_on) : ~pack.depended_on[n].verifies}) \ {NoHash}
  BY <1>0 DEF SupplyInv, Treated
<1>2. ASSUME NEW n \in 1..Len(Support)
      PROVE  /\ member_checks[n] = walk_member(Support[n])
             /\ Support[n].member_kind \in ReceiptKinds =>
                   /\ member_checks[n] = "verified" <=> Replayed(pack, Support[n].event_hash)
                   /\ member_checks[n] = "missing" <=> Stating(pack, Support[n].event_hash) = {}
             /\ member_checks[n] \in {"verified", "committed"} <=> Holds(pack, Support[n])
             /\ member_checks[n] \in {"missing", "failed"} <=> ~Holds(pack, Support[n])
  <2>1. member_checks[n] = walk_member(Support[n])
    BY <1>0, <1>2 DEF MembersInv, Conclude
  <2> QED BY <1>0, <1>1, <2>1, WalkMemberTells
<1>3. AllMembersHold <=> \A n \in 1..Len(Support) : Holds(pack, Support[n])
  BY <1>0, <1>2 DEF AllMembersHold
<1>4. /\ "envelope" \in errors <=> ~pack.decision.verifies
      /\ "unreadable" \in errors <=> Stating(pack, NoHash) # {}
      /\ "member" \in errors <=>
            \E n \in 1..Len(member_checks) : member_checks[n] \in {"missing", "failed"}
      /\ errors \subseteq {"envelope", "unreadable", "member"}
  BY <1>0 DEF TypeOK, ErrorsInv, Treated, Stating
<1>5. "member" \in errors <=> ~AllMembersHold
  BY <1>0, <1>2, <1>3, <1>4
<1>6. pack.decision.verifies /\ errors = {} /\ AllMembersHold <=> DecisionAcceptable(pack)
  BY <1>0, <1>3, <1>4, <1>5 DEF DecisionAcceptable
<1>7. TypeOK' /\ EarlyInv' /\ SupplyInv' /\ MembersInv' /\ ErrorsInv'
  BY <1>0 DEF TypeOK, EarlyInv, SupplyInv, MembersInv, ErrorsInv, Conclude
<1>8. VerdictRight'
  BY <1>0, <1>6 DEF VerdictRight, Conclude
<1>9. ChecksTellTheSupply'
  BY <1>0, <1>2 DEF ChecksTellTheSupply
<1>10. ErrorsTellTheirCauses'
  <2>1. "member" \in errors <=> \E n \in 1..Len(Support) : ~Holds(pack, Support[n])
    BY <1>3, <1>5
  <2>2. errors = Causes(pack)
    BY <1>0, <1>4, <2>1 DEF Causes
  <2> QED BY <1>0, <2>2 DEF ErrorsTellTheirCauses
<1> QED BY <1>7, <1>8, <1>9, <1>10

LEMMA DecisionInvStutter == DecisionInv /\ UNCHANGED vars => DecisionInv'
<1> SUFFICES ASSUME DecisionInv, UNCHANGED vars PROVE DecisionInv'
  OBVIOUS
<1> USE DEF DecisionInv, vars
<1>1. TypeOK' /\ EarlyInv' /\ VerdictRight' /\ ChecksTellTheSupply' /\ ErrorsTellTheirCauses'
  BY DEF TypeOK, EarlyInv, VerdictRight, ChecksTellTheSupply, ErrorsTellTheirCauses
<1>2. Treated' = Treated
  BY DEF Treated
<1>3. SupplyInv'
  <2>1. /\ HashesOf({n \in Treated : pack.depended_on[n].verifies})'
              = HashesOf({n \in Treated : pack.depended_on[n].verifies})
        /\ HashesOf({n \in Treated : ~pack.depended_on[n].verifies})'
              = HashesOf({n \in Treated : ~pack.depended_on[n].verifies})
    BY <1>2, Zenon DEF HashesOf
  <2> QED BY <2>1 DEF SupplyInv
<1>4. MembersInv'
  BY DEF MembersInv, walk_member
<1>5. ErrorsInv'
  BY <1>2 DEF ErrorsInv
<1> QED BY <1>1, <1>3, <1>4, <1>5

\* Every reachable state satisfies the invariant.
THEOREM DecisionInvariant == Spec => []DecisionInv
<1>1. DecisionInv /\ [Next]_vars => DecisionInv'
  BY EarlyReturns, SuppliedStep, StartWalkStep, MemberStep, ConcludeStep, DecisionInvStutter DEF Next
<1> QED BY <1>1, DecisionInvInit, PTL DEF Spec

----------------------------------------------------------------------------
(* The theorems *)

\* Once the walk is over there is one check per member, and it tells apart a
\* receipt that is supplied and verifies, one of which only failing copies are
\* supplied, and one not supplied, whatever the order and number of the copies
\* (verify_decision_pack, walk_member).
THEOREM DecisionChecksTellTheSupply == Spec => []ChecksTellTheSupply
<1>1. DecisionInv => ChecksTellTheSupply
  BY DEF DecisionInv
<1> QED BY <1>1, DecisionInvariant, PTL

\* The errors reported are exactly the causes there are in the pack, on every
\* early return and at the end: none is dropped, masked or without a cause
\* (verify_decision_pack).
THEOREM DecisionErrorsTellCauses == Spec => []ErrorsTellTheirCauses
<1>1. DecisionInv => ErrorsTellTheirCauses
  BY DEF DecisionInv
<1> QED BY <1>1, DecisionInvariant, PTL

\* The answer, when given, is VALID exactly for the acceptable packs
\* (verify_decision_pack).
THEOREM DecisionVerdict == Spec => []VerdictRight
<1>1. DecisionInv => VerdictRight
  BY DEF DecisionInv
<1> QED BY <1>1, DecisionInvariant, PTL

\* The safety part of DecidesDecision: no verdict is given at the start, and every
\* step is the one decision of Verdict or leaves input and verdict alone.
THEOREM DecisionRefinesVerdict == Spec => V!Init /\ [][V!Decide]_(V!verdictVars)
<1>1. Init => V!Init
  BY DEF Init, V!Init
<1>2. ASSUME DecisionInv, DecisionInv', [Next]_vars
      PROVE  [V!Decide]_(V!verdictVars)
  <2>1. pack' = pack
    BY <1>2 DEF Next, vars, ParsePack, VerifyDecision, VerifySupplied, StartWalk, WalkMember, Conclude
  <2>2. CASE status' = status
    BY <2>1, <2>2 DEF V!verdictVars
  <2>3. CASE status' # status
    <3>1. phase # "done" /\ phase' = "done" /\ status' \in {"Valid", "Invalid"}
      BY <1>2, <2>3 DEF Next, vars, ParsePack, VerifyDecision, VerifySupplied, StartWalk,
                        WalkMember, Conclude
    <3>2. status = "pending"
      BY <1>2, <3>1 DEF DecisionInv, EarlyInv
    <3>3. status' = "Valid" <=> DecisionAcceptable(pack)
      BY <1>2, <2>1, <3>1 DEF DecisionInv, VerdictRight
    <3> QED BY <2>1, <3>1, <3>2, <3>3 DEF V!Decide
  <2> QED BY <2>2, <2>3
<1> QED BY <1>1, <1>2, DecisionInvariant, PTL DEF Spec

=============================================================================
