------------------------- MODULE LayeredPackProofs -------------------------
(***************************************************************************)
(* Proofs about layered packs: the verdict, for every support set of the   *)
(* root and any number of supplied receipts in any order, copies that fail *)
(* among them.                                                             *)
(***************************************************************************)
EXTENDS LayeredPack, WellFoundedInduction, TLAPS

\* The parts of a pack are well typed.
LEMMA PackParts ==
    ASSUME IsPack(pack)
    PROVE  /\ pack.json \in BOOLEAN
           /\ pack.format_ok \in BOOLEAN
           /\ pack.root_canonical.verifies \in BOOLEAN
           /\ pack.receipts \in Seq(Supply)
           /\ Len(pack.receipts) \in Nat
           /\ Admitted(pack.root_canonical) =>
                 /\ pack.root_canonical.support_set \in Seq(Member)
                 /\ Len(pack.root_canonical.support_set) \in Nat
BY DEF IsPack, LayeredPackInput, Root, Admitted

LEMMA SuppliedType ==
    ASSUME IsPack(pack), NEW i \in 1..Len(pack.receipts)
    PROVE  /\ pack.receipts[i] \in Supply
           /\ pack.receipts[i].verifies \in BOOLEAN
           /\ pack.receipts[i].event_hash \in Hash \union {NoHash}
<1>1. pack.receipts[i] \in Supply
  BY PackParts
<1> QED BY <1>1 DEF Supply

LEMMA MemberType ==
    ASSUME IsPack(pack), Admitted(pack.root_canonical),
           NEW n \in 1..Len(pack.root_canonical.support_set)
    PROVE  /\ pack.root_canonical.support_set[n] \in Member
           /\ pack.root_canonical.support_set[n].event_hash \in Hash
           /\ pack.root_canonical.support_set[n].event_hash # NoHash
           /\ pack.root_canonical.support_set[n].member_kind \in MemberKinds
<1>1. pack.root_canonical.support_set[n] \in Member
  BY PackParts
<1> QED BY <1>1, NoHashAssumption DEF Member

----------------------------------------------------------------------------
(* What the index says of the supply *)

\* Once every supplied receipt is treated, the receipt found in the index for a hash
\* is the first that states it in the supply, and none is found when none states it.
LEMMA FoundIsFirst ==
    ASSUME IsPack(pack), supplied \in Seq(Supply), SupplyInv, phase = "edges",
           NEW h \in Hash
    PROVE  /\ (\E k \in 1..Len(supplied) : supplied[k].event_hash = h) <=> FirstStating(pack, h) # {}
           /\ \A i \in FirstStating(pack, h) : supplied[Found(h)] = pack.receipts[i]
<1>1. /\ Len(pack.receipts) \in Nat /\ Len(supplied) \in Nat
      /\ Treated = Len(pack.receipts)
      /\ h # NoHash
  BY PackParts, NoHashAssumption DEF Treated
<1>2. PICK at \in [1..Len(supplied) -> 1..Len(pack.receipts)] :
         /\ \A k \in 1..Len(supplied) : supplied[k] = pack.receipts[at[k]]
         /\ \A k, l \in 1..Len(supplied) : k < l => at[k] < at[l]
         /\ \A i \in 1..Len(pack.receipts) :
               pack.receipts[i].event_hash # NoHash => \E k \in 1..Len(supplied) : at[k] = i
  BY <1>1 DEF SupplyInv, IndexOf
<1> DEFINE First(k) == /\ k \in 1..Len(supplied)
                       /\ supplied[k].event_hash = h
                       /\ \A j \in 1..(k - 1) : supplied[j].event_hash # h
<1>3. ASSUME NEW k, First(k) PROVE at[k] \in FirstStating(pack, h)
  <2>1. k \in 1..Len(supplied) /\ at[k] \in 1..Len(pack.receipts)
        /\ pack.receipts[at[k]].event_hash = h
    BY <1>2, <1>3
  <2>2. ASSUME NEW j \in 1..(at[k] - 1), pack.receipts[j].event_hash = h PROVE FALSE
    <3>1. j \in 1..Len(pack.receipts) /\ j < at[k]
      BY <1>1, <2>1
    <3>2. PICK l \in 1..Len(supplied) : at[l] = j
      BY <1>1, <1>2, <2>2, <3>1
    <3>3. l < k
      BY <1>1, <1>2, <2>1, <3>1, <3>2
    <3>4. supplied[l].event_hash = h
      BY <1>2, <2>2, <3>2
    <3> QED BY <1>1, <1>3, <3>3, <3>4
  <2> QED BY <2>1, <2>2 DEF FirstStating
<1>4. ASSUME NEW i \in FirstStating(pack, h)
      PROVE  \E k \in 1..Len(supplied) : at[k] = i /\ First(k)
  <2>1. i \in 1..Len(pack.receipts) /\ pack.receipts[i].event_hash = h
        /\ \A j \in 1..(i - 1) : pack.receipts[j].event_hash # h
    BY DEF FirstStating
  <2>2. PICK k \in 1..Len(supplied) : at[k] = i
    BY <1>1, <1>2, <2>1
  <2>3. ASSUME NEW j \in 1..(k - 1) PROVE supplied[j].event_hash # h
    <3>1. j \in 1..Len(supplied) /\ j < k
      BY <1>1
    <3>2. at[j] \in 1..(i - 1) /\ supplied[j] = pack.receipts[at[j]]
      BY <1>1, <1>2, <2>1, <2>2, <3>1
    <3> QED BY <2>1, <3>2
  <2> QED BY <1>2, <2>1, <2>2, <2>3
<1>5. ASSUME NEW i \in FirstStating(pack, h), NEW j \in FirstStating(pack, h) PROVE i = j
  BY <1>1 DEF FirstStating
<1>6. (\E k \in 1..Len(supplied) : supplied[k].event_hash = h) => \E f : First(f)
  <2>1. ASSUME NEW k \in 1..Len(supplied), supplied[k].event_hash = h PROVE \E f : First(f)
    <3>1. PICK f \in 1..k : /\ supplied[f].event_hash = supplied[k].event_hash
                            /\ \A j \in 1..(f - 1) : supplied[j].event_hash # supplied[k].event_hash
      BY DEF SupplyInv, IndexOf
    <3>2. f \in 1..Len(supplied)
      BY <1>1
    <3>3. First(f)
      BY <2>1, <3>1, <3>2
    <3> QED BY <3>3
  <2> QED BY <2>1
<1>7. (\E k \in 1..Len(supplied) : supplied[k].event_hash = h) <=> FirstStating(pack, h) # {}
  <2>1. ASSUME FirstStating(pack, h) # {} PROVE \E k \in 1..Len(supplied) : supplied[k].event_hash = h
    BY <1>4, <2>1
  <2>2. ASSUME \E k \in 1..Len(supplied) : supplied[k].event_hash = h PROVE FirstStating(pack, h) # {}
    BY <1>3, <1>6, <2>2
  <2> QED BY <2>1, <2>2
<1>8. ASSUME NEW i \in FirstStating(pack, h) PROVE supplied[Found(h)] = pack.receipts[i]
  <2>1. \E k \in 1..Len(supplied) : First(k)
    BY <1>4
  <2>2. Found(h) = CHOOSE k \in 1..Len(supplied) :
            supplied[k].event_hash = h /\ \A j \in 1..(k - 1) : supplied[j].event_hash # h
    BY DEF Found
  <2>3. First(Found(h))
    BY <2>1, <2>2
  <2>4. at[Found(h)] = i
    BY <1>3, <1>5, <2>3
  <2> QED BY <1>2, <2>3, <2>4
<1> QED BY <1>7, <1>8

\* An edge is resolved exactly when it holds.
LEMMA WalkEdgeTells ==
    ASSUME IsPack(pack), Admitted(pack.root_canonical), supplied \in Seq(Supply), SupplyInv,
           phase = "edges", NEW n \in 1..Len(pack.root_canonical.support_set),
           pack.root_canonical.support_set[n].member_kind # "other_member"
    PROVE  walk_edge(pack.root_canonical.support_set[n]) = "Resolved"
               <=> EdgeHolds(pack, pack.root_canonical.support_set[n])
<1> DEFINE m == pack.root_canonical.support_set[n]
<1>1. m.event_hash \in Hash /\ m.member_kind \in {"typed_receipt_dependency", "depended_on_receipt"}
  BY MemberType DEF MemberKinds
<1> SUFFICES walk_edge(m) = "Resolved" <=> EdgeHolds(pack, m)
  OBVIOUS
<1> HIDE DEF m
<1>2. CASE m.member_kind = "depended_on_receipt"
  BY <1>2 DEF walk_edge, EdgeHolds
<1>3. CASE m.member_kind = "typed_receipt_dependency"
  <2>1. CASE FirstStating(pack, m.event_hash) = {}
    BY <1>1, <1>3, <2>1, FoundIsFirst DEF walk_edge, EdgeHolds
  <2>2. CASE FirstStating(pack, m.event_hash) # {}
    <3>1. PICK i \in FirstStating(pack, m.event_hash) : TRUE
      BY <2>2
    <3>2. \A j \in FirstStating(pack, m.event_hash) : j = i
      BY PackParts DEF FirstStating
    <3>3. walk_edge(m) = StatusOf(pack.receipts[i], m)
      BY <1>1, <1>3, <2>2, <3>1, FoundIsFirst DEF walk_edge
    <3>4. EdgeHolds(pack, m) <=>
             pack.receipts[i].verifies /\ pack.receipts[i].payload_kind = m.target_schema
      BY <1>3, <3>1, <3>2 DEF EdgeHolds
    <3> QED BY <3>3, <3>4 DEF StatusOf
  <2> QED BY <2>1, <2>2
<1> QED BY <1>1, <1>2, <1>3

LEMMA WalkEdgeType == ASSUME NEW m PROVE walk_edge(m) \in EdgeStatus
BY DEF walk_edge, StatusOf, EdgeStatus

----------------------------------------------------------------------------
(* The invariant *)

LEMMA LayeredInvInit == Init => LayeredInv
BY DEF Init, LayeredInv, TypeOK, EarlyInv, SupplyInv, EdgesInv, VerdictRight

\* An early return is INVALID of an input that is not acceptable.
LEMMA EarlyReturns ==
    ASSUME LayeredInv, ParsePack \/ VerifyRoot
    PROVE  LayeredInv'
<1>0. /\ IsPack(pack) /\ pack' = pack /\ UNCHANGED <<position, supplied, edge_checks>>
      /\ phase \in {"parse", "root"} /\ phase' \in {"root", "supplied", "done"}
      /\ errors = {} /\ position = 0 /\ supplied = <<>> /\ edge_checks = <<>>
  BY DEF LayeredInv, TypeOK, EarlyInv, ParsePack, VerifyRoot
<1>1. TypeOK'
  BY <1>0 DEF LayeredInv, TypeOK, ParsePack, VerifyRoot
<1>2. EarlyInv'
  BY <1>0 DEF LayeredInv, EarlyInv, ParsePack, VerifyRoot, Admitted
<1>3. SupplyInv'
  <2> SUFFICES ASSUME phase' = "supplied" PROVE SupplyInv'
    BY <1>0 DEF SupplyInv
  <2>1. Treated' = 0 /\ Len(pack.receipts) \in Nat /\ supplied' = <<>>
    BY <1>0, PackParts DEF Treated
  <2>2. IndexOf(pack, 0, <<>>)
    <3>1. [k \in {} |-> 0] \in [{} -> {}] /\ 1..Len(<<>>) = {} /\ 1..0 = {}
      OBVIOUS
    <3> QED BY <3>1 DEF IndexOf
  <2> QED BY <1>0, <2>1, <2>2 DEF SupplyInv
<1>4. EdgesInv'
  BY <1>0 DEF EdgesInv
<1>5. VerdictRight'
  BY <1>0 DEF VerdictRight, LayeredAcceptable, ParsePack, VerifyRoot
<1> QED BY <1>1, <1>2, <1>3, <1>4, <1>5 DEF LayeredInv

\* Indexing one more receipt appends it when it states a hash.
LEMMA IndexStep ==
    ASSUME LayeredInv, index_supplied
    PROVE  LayeredInv'
<1> DEFINE s == pack.receipts[position + 1]
<1>0. /\ IsPack(pack) /\ pack' = pack /\ phase = "supplied" /\ phase' = "supplied"
      /\ position \in Nat /\ position' = position + 1 /\ position + 1 \in 1..Len(pack.receipts)
      /\ Len(pack.receipts) \in Nat
      /\ UNCHANGED <<edge_checks, errors, status>>
      /\ supplied \in Seq({r \in Supply : r.event_hash # NoHash})
      /\ supplied' = IF s.event_hash = NoHash THEN supplied ELSE Append(supplied, s)
  BY PackParts DEF LayeredInv, TypeOK, index_supplied
<1>1. s \in Supply
  BY <1>0, SuppliedType
<1>2. TypeOK'
  <2>1. supplied' \in Seq({r \in Supply : r.event_hash # NoHash})
    BY <1>0, <1>1
  <2> QED BY <1>0, <2>1 DEF LayeredInv, TypeOK
<1>3. EarlyInv'
  BY <1>0 DEF LayeredInv, EarlyInv
<1>4. SupplyInv'
  <2>1. Treated = position /\ Treated' = position + 1 /\ Len(supplied) \in Nat
    BY <1>0 DEF Treated
  <2>2. PICK at \in [1..Len(supplied) -> 1..position] :
           /\ \A k \in 1..Len(supplied) : supplied[k] = pack.receipts[at[k]]
           /\ \A k, l \in 1..Len(supplied) : k < l => at[k] < at[l]
           /\ \A i \in 1..position :
                 pack.receipts[i].event_hash # NoHash => \E k \in 1..Len(supplied) : at[k] = i
    BY <1>0, <2>1 DEF LayeredInv, SupplyInv, IndexOf
  <2>3. \A k \in 1..Len(supplied) : \E f \in 1..k :
           /\ supplied[f].event_hash = supplied[k].event_hash
           /\ \A j \in 1..(f - 1) : supplied[j].event_hash # supplied[k].event_hash
    BY <1>0 DEF LayeredInv, SupplyInv, IndexOf
  <2>4. CASE s.event_hash = NoHash
    <3>1. supplied' = supplied
      BY <1>0, <2>4
    <3>2. at \in [1..Len(supplied) -> 1..(position + 1)]
      BY <1>0, <2>2
    <3>3. \A i \in 1..(position + 1) :
             pack.receipts[i].event_hash # NoHash => \E k \in 1..Len(supplied) : at[k] = i
      BY <1>0, <2>2, <2>4
    <3>4. IndexOf(pack, position + 1, supplied)
      BY <2>2, <2>3, <3>2, <3>3 DEF IndexOf
    <3> QED BY <1>0, <2>1, <3>1, <3>4 DEF SupplyInv
  <2>5. CASE s.event_hash # NoHash
    <3> DEFINE top == Len(supplied) + 1
               now == [k \in 1..top |-> IF k = top THEN position + 1 ELSE at[k]]
    <3>1. /\ Len(supplied') = top
          /\ supplied'[top] = s
          /\ \A k \in 1..Len(supplied) : supplied'[k] = supplied[k]
      BY <1>0, <1>1, <2>5
    <3>2. /\ now \in [1..top -> 1..(position + 1)]
          /\ now[top] = position + 1
          /\ \A k \in 1..Len(supplied) : now[k] = at[k] /\ at[k] \in 1..position
      <4>1. \A k \in 1..Len(supplied) : at[k] \in 1..position
        BY <2>2
      <4>2. ASSUME NEW k \in 1..top
            PROVE  (IF k = top THEN position + 1 ELSE at[k]) \in 1..(position + 1)
        <5>1. CASE k = top
          BY <1>0, <5>1
        <5>2. CASE k # top
          <6>1. k \in 1..Len(supplied)
            BY <2>1, <5>2
          <6>2. at[k] \in 1..position
            BY <4>1, <6>1
          <6> QED BY <1>0, <5>2, <6>2
        <5> QED BY <5>1, <5>2
      <4>3. top \in 1..top /\ \A k \in 1..Len(supplied) : k \in 1..top /\ k # top
        BY <2>1
      <4> HIDE DEF top
      <4> QED BY <4>1, <4>2, <4>3
    <3>3. \A k \in 1..top : k # top => k \in 1..Len(supplied)
      BY <2>1
    <3> HIDE DEF now
    <3>4. \A k \in 1..top : supplied'[k] = pack.receipts[now[k]]
      BY <2>2, <3>1, <3>2, <3>3
    <3>5. \A k, l \in 1..top : k < l => now[k] < now[l]
      BY <1>0, <2>1, <2>2, <3>2, <3>3
    <3>6. ASSUME NEW i \in 1..(position + 1), pack.receipts[i].event_hash # NoHash
          PROVE  \E k \in 1..top : now[k] = i
      <4>1. CASE i = position + 1
        BY <2>1, <3>2, <4>1
      <4>2. CASE i # position + 1
        <5>1. i \in 1..position
          BY <1>0, <4>2
        <5>2. PICK k \in 1..Len(supplied) : at[k] = i
          BY <2>2, <3>6, <5>1
        <5> QED BY <2>1, <3>2, <5>2
      <4> QED BY <4>1, <4>2
    <3>7. ASSUME NEW k \in 1..top
          PROVE  \E f \in 1..k : /\ supplied'[f].event_hash = supplied'[k].event_hash
                                 /\ \A j \in 1..(f - 1) : supplied'[j].event_hash # supplied'[k].event_hash
      <4>1. CASE k # top
        <5>1. k \in 1..Len(supplied)
          BY <3>3, <4>1
        <5>2. PICK f \in 1..k : /\ supplied[f].event_hash = supplied[k].event_hash
                                /\ \A j \in 1..(f - 1) : supplied[j].event_hash # supplied[k].event_hash
          BY <2>3, <5>1
        <5>3. f \in 1..Len(supplied) /\ \A j \in 1..(f - 1) : j \in 1..Len(supplied)
          BY <2>1, <5>1
        <5> QED BY <3>1, <5>1, <5>2, <5>3
      <4>2. CASE k = top /\ \E l \in 1..Len(supplied) : supplied[l].event_hash = s.event_hash
        <5>1. PICK l \in 1..Len(supplied) : supplied[l].event_hash = s.event_hash
          BY <4>2
        <5>2. PICK f \in 1..l : /\ supplied[f].event_hash = supplied[l].event_hash
                                /\ \A j \in 1..(f - 1) : supplied[j].event_hash # supplied[l].event_hash
          BY <2>3
        <5>3. f \in 1..Len(supplied) /\ f \in 1..k /\ \A j \in 1..(f - 1) : j \in 1..Len(supplied)
          BY <2>1, <4>2
        <5> QED BY <3>1, <4>2, <5>1, <5>2, <5>3
      <4>3. CASE k = top /\ \A l \in 1..Len(supplied) : supplied[l].event_hash # s.event_hash
        <5>1. k \in 1..k /\ \A j \in 1..(k - 1) : j \in 1..Len(supplied)
          BY <2>1, <4>3
        <5> QED BY <3>1, <4>3, <5>1
      <4> QED BY <4>1, <4>2, <4>3
    <3>8. IndexOf(pack, position + 1, supplied')
      <4> HIDE DEF top
      <4> QED BY <3>1, <3>2, <3>4, <3>5, <3>6, <3>7 DEF IndexOf
    <3> QED BY <1>0, <2>1, <3>8 DEF SupplyInv
  <2> QED BY <2>4, <2>5
<1>5. EdgesInv' /\ VerdictRight'
  BY <1>0 DEF EdgesInv, VerdictRight
<1> QED BY <1>2, <1>3, <1>4, <1>5 DEF LayeredInv

\* Once every supplied receipt is treated the index is complete.
LEMMA StartWalkStep ==
    ASSUME LayeredInv, StartWalk
    PROVE  LayeredInv'
<1>0. /\ IsPack(pack) /\ phase = "supplied" /\ phase' = "edges"
      /\ position = Len(pack.receipts) /\ position' = 0 /\ Treated' = Treated
      /\ Admitted(pack.root_canonical) /\ edge_checks = <<>>
      /\ errors = {e \in {"envelope"} : ~pack.root_canonical.verifies}
      /\ UNCHANGED <<pack, supplied, edge_checks, errors, status>>
  BY DEF LayeredInv, TypeOK, EarlyInv, StartWalk, Treated
<1>1. TypeOK' /\ EarlyInv'
  BY <1>0 DEF LayeredInv, TypeOK, EarlyInv
<1>2. SupplyInv' /\ VerdictRight'
  BY <1>0 DEF LayeredInv, SupplyInv, VerdictRight
<1>3. EdgesInv'
  <2>1. Len(pack.root_canonical.support_set) \in Nat /\ Len(edge_checks') = 0
    BY <1>0, PackParts
  <2>2. AllEdgesResolved'
    BY <2>1 DEF AllEdgesResolved
  <2> QED BY <1>0, <2>1, <2>2 DEF EdgesInv
<1> QED BY <1>1, <1>2, <1>3 DEF LayeredInv

\* One more edge is walked, against the same index.
LEMMA EdgeStep ==
    ASSUME LayeredInv, WalkEdge
    PROVE  LayeredInv'
<1> DEFINE Support == pack.root_canonical.support_set
           m == Support[position + 1]
           check == [event_hash |-> m.event_hash, status |-> walk_edge(m)]
<1>0. /\ IsPack(pack) /\ Admitted(pack.root_canonical)
      /\ phase = "edges" /\ phase' = "edges" /\ Treated' = Treated
      /\ position \in Nat /\ position' = position + 1 /\ position + 1 \in 1..Len(Support)
      /\ Len(Support) \in Nat
      /\ UNCHANGED <<pack, supplied, status>>
      /\ supplied \in Seq(Supply) /\ SupplyInv /\ edge_checks \in Seq(EdgeCheck)
      /\ errors \subseteq {"pack", "envelope", "payload", "edge"}
  <2>1. /\ IsPack(pack) /\ Admitted(pack.root_canonical) /\ position \in Nat /\ SupplyInv
        /\ edge_checks \in Seq(EdgeCheck) /\ errors \subseteq {"pack", "envelope", "payload", "edge"}
        /\ supplied \in Seq({r \in Supply : r.event_hash # NoHash})
    BY DEF LayeredInv, TypeOK, EarlyInv, WalkEdge
  <2>2. supplied \in Seq(Supply)
    BY <2>1
  <2>3. Len(Support) \in Nat
    BY <2>1, PackParts
  <2> QED BY <2>1, <2>2, <2>3 DEF WalkEdge, Treated
<1>1. m.event_hash \in Hash /\ m.member_kind \in MemberKinds
  BY <1>0, MemberType
<1>2. m.member_kind # "other_member" => (walk_edge(m) = "Resolved" <=> EdgeHolds(pack, m))
  BY <1>0, WalkEdgeTells
<1>3. \/ /\ m.member_kind = "other_member"
         /\ edge_checks' = edge_checks /\ errors' = errors
      \/ /\ m.member_kind # "other_member"
         /\ edge_checks' = Append(edge_checks, check)
         /\ errors' = errors \union {e \in {"edge"} : walk_edge(m) # "Resolved"}
  BY DEF WalkEdge
<1>4. check \in EdgeCheck
  BY <1>1, WalkEdgeType DEF EdgeCheck
<1> HIDE DEF m
<1>5. TypeOK'
  <2>1. edge_checks' \in Seq(EdgeCheck)
    BY <1>0, <1>3, <1>4
  <2>2. errors' \subseteq {"pack", "envelope", "payload", "edge"}
    BY <1>0, <1>3
  <2> QED BY <1>0, <2>1, <2>2 DEF LayeredInv, TypeOK
<1>6. EarlyInv'
  BY <1>0 DEF LayeredInv, EarlyInv
<1>7. SupplyInv' /\ VerdictRight'
  BY <1>0 DEF LayeredInv, SupplyInv, VerdictRight
<1>8. EdgesInv'
  <2>1. /\ errors \subseteq {"envelope", "edge"}
        /\ "envelope" \in errors <=> ~pack.root_canonical.verifies
        /\ "edge" \in errors <=> \E n \in 1..position : ~EdgeHolds(pack, Support[n])
        /\ AllEdgesResolved <=> "edge" \notin errors
    BY <1>0 DEF LayeredInv, EdgesInv
  <2>2. (\E n \in 1..(position + 1) : ~EdgeHolds(pack, Support[n])) <=>
           (\E n \in 1..position : ~EdgeHolds(pack, Support[n])) \/ ~EdgeHolds(pack, m)
    BY <1>0 DEF m
  <2>3. CASE m.member_kind = "other_member"
    <3>1. EdgeHolds(pack, m)
      BY <2>3 DEF EdgeHolds
    <3>2. edge_checks' = edge_checks /\ errors' = errors
      BY <1>3, <2>3
    <3>3. AllEdgesResolved' = AllEdgesResolved
      BY <3>2 DEF AllEdgesResolved
    <3> QED BY <1>0, <2>1, <2>2, <3>1, <3>2, <3>3 DEF EdgesInv
  <2>4. CASE m.member_kind # "other_member"
    <3>1. /\ edge_checks' = Append(edge_checks, check)
          /\ errors' = errors \union {e \in {"edge"} : walk_edge(m) # "Resolved"}
          /\ walk_edge(m) = "Resolved" <=> EdgeHolds(pack, m)
      BY <1>2, <1>3, <2>4
    <3>2. AllEdgesResolved' <=> AllEdgesResolved /\ walk_edge(m) = "Resolved"
      <4>1. /\ Len(edge_checks') = Len(edge_checks) + 1 /\ Len(edge_checks) \in Nat
            /\ edge_checks'[Len(edge_checks) + 1] = check
            /\ \A n \in 1..Len(edge_checks) : edge_checks'[n] = edge_checks[n]
        BY <1>0, <1>4, <3>1
      <4>2. check.status = walk_edge(m)
        OBVIOUS
      <4> HIDE DEF check
      <4> QED BY <4>1, <4>2 DEF AllEdgesResolved
    <3>3. /\ errors' \subseteq {"envelope", "edge"}
          /\ "envelope" \in errors' <=> ~pack.root_canonical.verifies
          /\ "edge" \in errors' <=> \E n \in 1..(position + 1) : ~EdgeHolds(pack, Support[n])
          /\ AllEdgesResolved' <=> "edge" \notin errors'
      BY <2>1, <2>2, <3>1, <3>2
    <3> QED BY <1>0, <3>3 DEF EdgesInv
  <2> QED BY <2>3, <2>4
<1> QED BY <1>5, <1>6, <1>7, <1>8 DEF LayeredInv

\* The conclusion is the declarative verdict.
LEMMA ConcludeStep ==
    ASSUME LayeredInv, Conclude
    PROVE  LayeredInv'
<1>0. /\ phase = "edges" /\ phase' = "done" /\ position = Len(pack.root_canonical.support_set)
      /\ pack.json /\ pack.format_ok /\ Admitted(pack.root_canonical) /\ IsPack(pack)
      /\ UNCHANGED <<pack, position, supplied, edge_checks, errors>>
  BY DEF LayeredInv, TypeOK, EarlyInv, Conclude
<1>1. pack.root_canonical.verifies /\ errors = {} /\ AllEdgesResolved <=> LayeredAcceptable(pack)
  <2>1. /\ errors \subseteq {"envelope", "edge"}
        /\ "envelope" \in errors <=> ~pack.root_canonical.verifies
        /\ "edge" \in errors <=> \E n \in 1..position : ~EdgeHolds(pack, pack.root_canonical.support_set[n])
        /\ AllEdgesResolved <=> "edge" \notin errors
    BY <1>0 DEF LayeredInv, EdgesInv
  <2> QED BY <1>0, <2>1 DEF LayeredAcceptable
<1>2. status' \in {"Valid", "Invalid"} /\ (status' = "Valid" <=> LayeredAcceptable(pack))
  BY <1>1 DEF Conclude
<1>3. TypeOK'
  BY <1>0, <1>2 DEF LayeredInv, TypeOK
<1>4. EarlyInv' /\ SupplyInv' /\ EdgesInv'
  BY <1>0 DEF EarlyInv, SupplyInv, EdgesInv
<1>5. VerdictRight'
  BY <1>0, <1>2 DEF VerdictRight
<1> QED BY <1>3, <1>4, <1>5 DEF LayeredInv

LEMMA LayeredInvStutter == LayeredInv /\ UNCHANGED vars => LayeredInv'
<1> SUFFICES ASSUME LayeredInv, UNCHANGED vars PROVE LayeredInv'
  OBVIOUS
<1> USE DEF LayeredInv, vars
<1>1. Treated' = Treated /\ AllEdgesResolved' = AllEdgesResolved
  BY DEF Treated, AllEdgesResolved
<1>2. TypeOK' /\ EarlyInv' /\ VerdictRight'
  BY DEF TypeOK, EarlyInv, VerdictRight
<1>3. SupplyInv' /\ EdgesInv'
  BY <1>1 DEF SupplyInv, EdgesInv
<1> QED BY <1>2, <1>3

\* Every reachable state satisfies the invariant.
THEOREM LayeredInvariant == Spec => []LayeredInv
<1>1. LayeredInv /\ [Next]_vars => LayeredInv'
  BY EarlyReturns, IndexStep, StartWalkStep, EdgeStep, ConcludeStep, LayeredInvStutter DEF Next
<1> QED BY <1>1, LayeredInvInit, PTL DEF Spec

----------------------------------------------------------------------------
(* The theorems *)

\* The answer, when given, is VALID exactly for the acceptable packs
\* (verify_layered_pack).
THEOREM LayeredVerdict == Spec => []VerdictRight
<1>1. LayeredInv => VerdictRight
  BY DEF LayeredInv
<1> QED BY <1>1, LayeredInvariant, PTL

\* Every typed edge of an accepted root leads to a supplied receipt that verifies
\* and is of the committed kind, whatever else was supplied with it (walk_edge).
THEOREM LayeredResolvedMeansReplayed == Spec => []ResolvedMeansReplayed
<1>1. ASSUME LayeredInv PROVE ResolvedMeansReplayed
  <2> SUFFICES ASSUME status = "Valid", NEW n \in 1..Len(pack.root_canonical.support_set),
                      pack.root_canonical.support_set[n].member_kind = "typed_receipt_dependency"
               PROVE  \E i \in 1..Len(pack.receipts) :
                         /\ pack.receipts[i].verifies
                         /\ pack.receipts[i].event_hash = pack.root_canonical.support_set[n].event_hash
                         /\ pack.receipts[i].payload_kind = pack.root_canonical.support_set[n].target_schema
    BY DEF ResolvedMeansReplayed
  <2>1. LayeredAcceptable(pack)
    BY <1>1 DEF LayeredInv, EarlyInv, VerdictRight
  <2>2. EdgeHolds(pack, pack.root_canonical.support_set[n])
    BY <2>1 DEF LayeredAcceptable
  <2> QED BY <2>2 DEF EdgeHolds, FirstStating
<1> QED BY <1>1, LayeredInvariant, PTL

----------------------------------------------------------------------------
(* The order of the supplied receipts *)

\* A set of natural numbers has a least element.
LEMMA LeastElement ==
    ASSUME NEW S, S \subseteq Nat, S # {}
    PROVE  \E x \in S : \A y \in S : x <= y
<1> DEFINE less == OpToRel(<, Nat)
<1>1. IsWellFoundedOn(less, Nat)
  BY NatLessThanWellFounded
<1>2. \A x, y \in Nat : x < y => <<x, y>> \in less
  BY DEF OpToRel
<1> HIDE DEF less
<1>3. PICK x \in S : \A y \in S : ~(<<y, x>> \in less)
  BY WFMin, <1>1
<1>4. \A y \in S : ~(y < x)
  BY <1>2, <1>3
<1> QED BY <1>3, <1>4

\* A supplied receipt of p is what edge m commits.
Supplies(p, m) ==
    \E i \in 1..Len(p.receipts) :
        /\ p.receipts[i].event_hash = m.event_hash
        /\ p.receipts[i].verifies
        /\ p.receipts[i].payload_kind = m.target_schema

\* Every supplied receipt of p is one of q.
SuppliedIn(p, q) ==
    \A i \in 1..Len(p.receipts) : \E k \in 1..Len(q.receipts) : p.receipts[i] = q.receipts[k]

LEMMA SuppliesKept ==
    ASSUME NEW p, NEW q, NEW m, SuppliedIn(p, q), Supplies(p, m)
    PROVE  Supplies(q, m)
<1>1. PICK i \in 1..Len(p.receipts) :
         /\ p.receipts[i].event_hash = m.event_hash
         /\ p.receipts[i].verifies
         /\ p.receipts[i].payload_kind = m.target_schema
  BY DEF Supplies
<1>2. PICK k \in 1..Len(q.receipts) : p.receipts[i] = q.receipts[k]
  BY DEF SuppliedIn
<1> QED BY <1>1, <1>2 DEF Supplies

\* When no failing receipt states the hash of one that verifies, an edge holds as
\* soon as any receipt is what it commits.
LEMMA UnshadowedEdge ==
    ASSUME NEW p, IsPack(p), ~Shadowed(p), NEW m, m.event_hash \in Hash
    PROVE  EdgeHolds(p, m) <=>
              (m.member_kind # "other_member" =>
                  m.member_kind = "typed_receipt_dependency" /\ Supplies(p, m))
<1>1. Len(p.receipts) \in Nat /\ \A i \in 1..Len(p.receipts) : p.receipts[i].verifies \in BOOLEAN
  <2>1. p.receipts \in Seq(Supply)
    BY DEF IsPack, LayeredPackInput
  <2>2. \A i \in 1..Len(p.receipts) : p.receipts[i] \in Supply
    BY <2>1
  <2> QED BY <2>1, <2>2 DEF Supply
<1>2. ASSUME NEW i \in 1..Len(p.receipts), p.receipts[i].event_hash = m.event_hash,
             p.receipts[i].verifies, p.receipts[i].payload_kind = m.target_schema
      PROVE  \E f \in FirstStating(p, m.event_hash) :
                p.receipts[f].verifies /\ p.receipts[f].payload_kind = m.target_schema
  <2> DEFINE S == {j \in 1..Len(p.receipts) : p.receipts[j].event_hash = m.event_hash}
  <2>1. S \subseteq Nat /\ S # {}
    BY <1>1, <1>2
  <2>2. PICK f \in S : \A j \in S : f <= j
    BY <2>1, LeastElement
  <2>3. f \in FirstStating(p, m.event_hash)
    <3>1. \A j \in 1..(f - 1) : j \in 1..Len(p.receipts) /\ ~(f <= j)
      BY <1>1, <2>2
    <3> QED BY <2>2, <3>1 DEF FirstStating
  <2>4. p.receipts[f].verifies
    BY <1>1, <1>2, <2>2, NoHashAssumption DEF Shadowed
  <2>5. p.receipts[f] = p.receipts[i]
    BY <1>2, <2>2, <2>4 DEF IsPack
  <2> QED BY <1>2, <2>3, <2>4, <2>5
<1> QED BY <1>2 DEF EdgeHolds, FirstStating, Supplies

\* The pack with its supplied receipts backwards.
LEMMA BackwardsPack ==
    ASSUME NEW p, IsPack(p), ~Shadowed(p), NEW q, q = [p EXCEPT !.receipts = Backwards(p.receipts)]
    PROVE  /\ IsPack(q) /\ ~Shadowed(q)
           /\ q.json = p.json /\ q.format_ok = p.format_ok /\ q.root_canonical = p.root_canonical
           /\ SuppliedIn(q, p) /\ SuppliedIn(p, q)
<1> DEFINE len == Len(p.receipts)
<1>1. p \in LayeredPackInput /\ p.receipts \in Seq(Supply) /\ len \in Nat
  BY DEF IsPack, LayeredPackInput
<1>2. /\ q.json = p.json /\ q.format_ok = p.format_ok /\ q.root_canonical = p.root_canonical
      /\ q.receipts = Backwards(p.receipts)
  BY <1>1 DEF LayeredPackInput
<1>3. \A i \in 1..len : len + 1 - i \in 1..len /\ len + 1 - (len + 1 - i) = i
  BY <1>1
<1>4. /\ Backwards(p.receipts) \in Seq(Supply)
      /\ Len(Backwards(p.receipts)) = len
      /\ \A i \in 1..len : Backwards(p.receipts)[i] = p.receipts[len + 1 - i]
  <2>1. \A i \in 1..len : p.receipts[i] \in Supply
    BY <1>1
  <2>2. [i \in 1..len |-> p.receipts[len + 1 - i]] \in Seq(Supply)
    BY <1>1, <1>3, <2>1
  <2> QED BY <1>1, <2>2 DEF Backwards
<1>5. Len(q.receipts) = len
  BY <1>2, <1>4
<1>6. ASSUME NEW i \in 1..len
      PROVE  /\ \E k \in 1..len : q.receipts[i] = p.receipts[k]
             /\ \E k \in 1..len : p.receipts[i] = q.receipts[k]
  <2> DEFINE k == len + 1 - i
  <2>1. k \in 1..len /\ q.receipts[i] = p.receipts[k] /\ q.receipts[k] = p.receipts[i]
    BY <1>2, <1>3, <1>4
  <2> QED BY <2>1
<1>7. q \in LayeredPackInput
  BY <1>1, <1>4 DEF LayeredPackInput
<1> HIDE DEF len
<1>8. IsPack(q)
  <2>1. ASSUME NEW i \in 1..len, q.receipts[i].verifies PROVE q.receipts[i].event_hash # NoHash
    <3>1. PICK k \in 1..len : q.receipts[i] = p.receipts[k]
      BY <1>6
    <3> QED BY <2>1, <3>1 DEF IsPack, len
  <2>2. ASSUME NEW i \in 1..len, NEW j \in 1..len, q.receipts[i].verifies, q.receipts[j].verifies,
               q.receipts[i].event_hash = q.receipts[j].event_hash
        PROVE  q.receipts[i] = q.receipts[j]
    <3>1. PICK k \in 1..len : q.receipts[i] = p.receipts[k]
      BY <1>6
    <3>2. PICK l \in 1..len : q.receipts[j] = p.receipts[l]
      BY <1>6
    <3> QED BY <2>2, <3>1, <3>2 DEF IsPack, len
  <2>3. q.root_canonical.verifies => q.root_canonical.payload
    BY <1>2 DEF IsPack
  <2> QED BY <1>5, <1>7, <2>1, <2>2, <2>3 DEF IsPack
<1>9. ASSUME NEW i \in 1..len, NEW j \in 1..len, q.receipts[i].event_hash = q.receipts[j].event_hash,
             q.receipts[i].event_hash # NoHash, q.receipts[i].verifies, ~q.receipts[j].verifies
      PROVE  FALSE
  <2>1. PICK k \in 1..len : q.receipts[i] = p.receipts[k]
    BY <1>6
  <2>2. PICK l \in 1..len : q.receipts[j] = p.receipts[l]
    BY <1>6
  <2> QED BY <1>9, <2>1, <2>2 DEF Shadowed, len
<1>10. ~Shadowed(q)
  BY <1>5, <1>9 DEF Shadowed
<1>11. SuppliedIn(q, p) /\ SuppliedIn(p, q)
  BY <1>5, <1>6 DEF SuppliedIn, len
<1> QED BY <1>2, <1>8, <1>10, <1>11

\* The order of the supplied receipts decides nothing, unless a failing receipt
\* states the hash of one that verifies: then the first of them counts
\* (walk_edge takes the first receipt of the index that states the hash).
THEOREM LayeredOrderMattersOnlyForShadows == Spec => []OrderMattersOnlyForShadows
<1>1. ASSUME LayeredInv PROVE OrderMattersOnlyForShadows
  <2> SUFFICES ASSUME phase = "done", ~Shadowed(pack), NEW q,
                      q = [pack EXCEPT !.receipts = Backwards(@)]
               PROVE  status = "Valid" <=> LayeredAcceptable(q)
    BY DEF OrderMattersOnlyForShadows
  <2>1. IsPack(pack) /\ (status = "Valid" <=> LayeredAcceptable(pack))
    BY <1>1 DEF LayeredInv, TypeOK, VerdictRight
  <2>2. /\ IsPack(q) /\ ~Shadowed(q)
        /\ q.json = pack.json /\ q.format_ok = pack.format_ok /\ q.root_canonical = pack.root_canonical
        /\ SuppliedIn(q, pack) /\ SuppliedIn(pack, q)
    BY <2>1, BackwardsPack
  <2>3. ASSUME Admitted(pack.root_canonical), NEW n \in 1..Len(pack.root_canonical.support_set)
        PROVE  EdgeHolds(pack, pack.root_canonical.support_set[n])
                  <=> EdgeHolds(q, pack.root_canonical.support_set[n])
    <3> DEFINE m == pack.root_canonical.support_set[n]
    <3>1. m.event_hash \in Hash
      BY <2>1, <2>3, MemberType
    <3> SUFFICES EdgeHolds(pack, m) <=> EdgeHolds(q, m)
      OBVIOUS
    <3> HIDE DEF m
    <3>2. Supplies(pack, m) <=> Supplies(q, m)
      BY <2>2, SuppliesKept
    <3>3. EdgeHolds(pack, m) <=>
             (m.member_kind # "other_member" =>
                 m.member_kind = "typed_receipt_dependency" /\ Supplies(pack, m))
      BY <2>1, <3>1, UnshadowedEdge
    <3>4. EdgeHolds(q, m) <=>
             (m.member_kind # "other_member" =>
                 m.member_kind = "typed_receipt_dependency" /\ Supplies(q, m))
      BY <2>2, <3>1, UnshadowedEdge
    <3> QED BY <3>2, <3>3, <3>4
  <2>4. LayeredAcceptable(pack) <=> LayeredAcceptable(q)
    BY <2>2, <2>3 DEF LayeredAcceptable
  <2> QED BY <2>1, <2>4
<1> QED BY <1>1, LayeredInvariant, PTL

----------------------------------------------------------------------------
(* The refinement *)

\* The safety part of DecidesLayered: no verdict is given at the start, and every
\* step is the one decision of Verdict or leaves input and verdict alone.
THEOREM LayeredRefinesVerdict == Spec => V!Init /\ [][V!Decide]_(V!verdictVars)
<1>1. Init => V!Init
  BY DEF Init, V!Init
<1>2. ASSUME LayeredInv, LayeredInv', [Next]_vars
      PROVE  [V!Decide]_(V!verdictVars)
  <2>1. pack' = pack
    BY <1>2 DEF Next, vars, ParsePack, VerifyRoot, index_supplied, StartWalk, WalkEdge, Conclude
  <2>2. CASE status' = status
    BY <2>1, <2>2 DEF V!verdictVars
  <2>3. CASE status' # status
    <3>1. phase # "done" /\ phase' = "done" /\ status' \in {"Valid", "Invalid"}
      BY <1>2, <2>3 DEF Next, vars, ParsePack, VerifyRoot, index_supplied, StartWalk, WalkEdge,
                        Conclude
    <3>2. status = "pending"
      BY <1>2, <3>1 DEF LayeredInv, EarlyInv
    <3>3. status' = "Valid" <=> LayeredAcceptable(pack)
      BY <1>2, <2>1, <3>1 DEF LayeredInv, VerdictRight
    <3> QED BY <2>1, <3>1, <3>2, <3>3 DEF V!Decide
  <2> QED BY <2>2, <2>3
<1> QED BY <1>1, <1>2, LayeredInvariant, PTL DEF Spec

=============================================================================
