---------------------------- MODULE ClosureProofs ----------------------------
(***************************************************************************)
(* Proofs about closures.  The walk computes the least closure of the root *)
(* of any index, checks every edge of it once and decides whether it holds *)
(* a cycle; the bundle verifier answers VALID exactly when the committed   *)
(* closure is that closure, resolved at every edge, and explains an answer *)
(* that is not VALID.                                                      *)
(***************************************************************************)
EXTENDS ClosureLayers, FiniteSetTheorems, WellFoundedInduction, TLAPS

----------------------------------------------------------------------------
(* The data *)

\* The support set of an indexed node is a sequence of members.
LEMMA MembersType ==
    ASSUME NEW idx, IsIndex(idx), NEW h \in Hash
    PROVE  Members(idx, h) \in Seq(Member)
<1>1. CASE h \in DOMAIN idx
  BY <1>1 DEF IsIndex, Node, Members
<1>2. CASE h \notin DOMAIN idx
  BY <1>2 DEF Members
<1> QED BY <1>1, <1>2

\* The edge check of a member, and its status, have their types.
LEMMA CheckOfType ==
    ASSUME NEW idx, NEW m \in Member
    PROVE  CheckOf(idx, m) \in EdgeCheck
BY DEF CheckOf, EdgeCheck, EdgeStatus, Member, classify_edge

\* An edge that resolves leads to a known hash.
LEMMA ResolvedEdgeIsTyped ==
    ASSUME NEW idx, NEW h, NEW g, ResolvedEdge(idx, h, g)
    PROVE  TypedEdge(idx, h, g)
BY DEF ResolvedEdge, TypedEdge

\* A resolved edge leads to an indexed receipt that verifies.
LEMMA ResolvedTarget ==
    ASSUME NEW idx, NEW h, NEW g, ResolvedEdge(idx, h, g)
    PROVE  g \in DOMAIN idx /\ idx[g].verify_status = "Valid"
BY DEF ResolvedEdge, classify_edge

\* Moving the innermost loop on changes the `next` of the last frame only.
LEMMA AdvancedFrames ==
    ASSUME WalkTypeOK, InLoop
    PROVE  /\ Len(stack) \in Nat \ {0}
           /\ Advanced \in Seq(Frame)
           /\ Len(Advanced) = Len(stack)
           /\ \A i \in 1..Len(stack) : Advanced[i].node = stack[i].node
           /\ \A i \in 1..Len(stack) : i # Len(stack) => Advanced[i] = stack[i]
           /\ Advanced[Len(stack)].next = Top.next + 1
           /\ Top \in Frame
           /\ Top = stack[Len(stack)]
           /\ CurrentMember \in Member
           /\ CurrentMember = Members(index, Top.node)[Top.next]
           /\ Top.next \in 1..Len(Members(index, Top.node))
<1>1. Len(stack) \in Nat \ {0} /\ stack \in Seq(Frame)
  BY DEF WalkTypeOK, InLoop
<1>2. Top \in Frame /\ Top = stack[Len(stack)]
  BY <1>1 DEF Top
<1>3. Members(index, Top.node) \in Seq(Member)
  BY <1>2, MembersType DEF WalkTypeOK, Frame
<1>4. Top.next \in 1..Len(Members(index, Top.node))
  BY <1>2, <1>3 DEF InLoop, Frame
<1>5. CurrentMember \in Member
  BY <1>3, <1>4 DEF CurrentMember
<1>6. Advanced \in Seq(Frame) /\ Len(Advanced) = Len(stack)
  BY <1>1, <1>2 DEF Advanced, Frame
<1>7. \A i \in 1..Len(stack) : i # Len(stack) => Advanced[i] = stack[i]
  BY <1>1 DEF Advanced
<1>8. Advanced[Len(stack)].node = stack[Len(stack)].node /\ Advanced[Len(stack)].next = Top.next + 1
  BY <1>1, <1>2 DEF Advanced, Frame
<1> QED BY <1>1, <1>2, <1>4, <1>5, <1>6, <1>7, <1>8 DEF CurrentMember

----------------------------------------------------------------------------
(* Types and the nesting of calls *)

\* A step of the innermost loop that makes no call leaves these facts.
LEMMA AdvanceStack ==
    ASSUME WalkTypeOK, StackInv, InLoop,
           stack' = Advanced, UNCHANGED <<index, root, reachable, on_stack>>
    PROVE  StackInv'
<1>1. /\ Len(stack) \in Nat \ {0}
      /\ Len(stack') = Len(stack)
      /\ \A i \in 1..Len(stack) : stack'[i].node = stack[i].node
  BY AdvancedFrames
<1>2. \A i \in 1..Len(stack') : stack'[i].next <= Len(Members(index', stack'[i].node)) + 1
  <2> SUFFICES ASSUME NEW i \in 1..Len(stack)
               PROVE  Advanced[i].next <= Len(Members(index, Advanced[i].node)) + 1
    BY <1>1
  <2>1. CASE i = Len(stack)
    <3>1. Members(index, Top.node) \in Seq(Member)
      BY MembersType, AdvancedFrames DEF WalkTypeOK, Frame
    <3> QED BY <2>1, <3>1, AdvancedFrames
  <2>2. CASE i # Len(stack)
    BY <2>2, AdvancedFrames DEF StackInv
  <2> QED BY <2>1, <2>2
<1>3. \A i \in 1..Len(stack') :
         i < Len(stack') => ResolvedEdge(index', stack'[i].node, stack'[i + 1].node)
  <2> SUFFICES ASSUME NEW i \in 1..Len(stack), i < Len(stack)
               PROVE  ResolvedEdge(index, stack'[i].node, stack'[i + 1].node)
    BY <1>1
  <2>1. stack'[i].node = stack[i].node /\ stack'[i + 1].node = stack[i + 1].node
    BY <1>1
  <2> QED BY <2>1 DEF StackInv
<1>4. \A i \in 1..Len(stack') : stack'[i].node \in on_stack'
  BY <1>1 DEF StackInv
<1>5. \A h \in on_stack' : \E i \in 1..Len(stack') : stack'[i].node = h
  BY <1>1 DEF StackInv
<1>6. \A i, j \in 1..Len(stack') : stack'[i].node = stack'[j].node => i = j
  BY <1>1 DEF StackInv
<1>7. on_stack' \subseteq reachable'
  BY DEF StackInv
<1> QED BY <1>2, <1>3, <1>4, <1>5, <1>6, <1>7 DEF StackInv

\* A prefix of a sequence of frames.
LEMMA PrefixFrames ==
    ASSUME NEW s \in Seq(Frame), NEW n \in Nat, n <= Len(s)
    PROVE  /\ SubSeq(s, 1, n) \in Seq(Frame)
           /\ Len(SubSeq(s, 1, n)) = n
           /\ \A i \in 1..n : SubSeq(s, 1, n)[i] = s[i]
<1>1. SubSeq(s, 1, n) \in Seq(Frame)
  OBVIOUS
<1>2. Len(SubSeq(s, 1, n)) = n
  OBVIOUS
<1>3. \A i \in 1..n : SubSeq(s, 1, n)[i] = s[i]
  OBVIOUS
<1> QED BY <1>1, <1>2, <1>3

\* Returning drops the last frame.
LEMMA PoppedFrames ==
    ASSUME WalkTypeOK, stack # <<>>
    PROVE  LET popped == SubSeq(stack, 1, Len(stack) - 1) IN
           /\ Len(stack) \in Nat \ {0}
           /\ popped \in Seq(Frame)
           /\ Len(popped) = Len(stack) - 1
           /\ \A i \in 1..(Len(stack) - 1) : popped[i] = stack[i]
<1>1. stack \in Seq(Frame) /\ Len(stack) \in Nat \ {0}
  BY DEF WalkTypeOK
<1>2. Len(stack) - 1 \in Nat /\ Len(stack) - 1 <= Len(stack)
  BY <1>1
<1> QED BY <1>1, <1>2, PrefixFrames, Zenon

\* WalkTypeOK and StackInv are preserved together.
LEMMA StackStep ==
    ASSUME WalkTypeOK, StackInv, StartInv, [WalkNext]_walkVars
    PROVE  WalkTypeOK' /\ StackInv'
<1>1. CASE Start
  <2>1. stack' \in Seq(Frame) /\ Len(stack') = 1 /\ stack'[1] = Call(root)
    BY <1>1 DEF Start, Call, Frame, WalkTypeOK
  <2>2. WalkTypeOK'
    BY <1>1, <2>1 DEF Start, WalkTypeOK
  <2>3. Len(Members(index, root)) \in Nat
    BY MembersType DEF WalkTypeOK
  <2>4. StackInv'
    BY <1>1, <2>1, <2>3 DEF Start, StackInv, Call
  <2> QED BY <2>2, <2>4
<1>2. CASE CycleEdge \/ RevisitEdge \/ RejectEdge \/ UntypedEdge \/ SkipMember
  <2>1. InLoop /\ stack' = Advanced /\ UNCHANGED <<index, root, reachable, on_stack>>
    BY <1>2 DEF CycleEdge, RevisitEdge, RejectEdge, UntypedEdge, SkipMember
  <2>2. edge_checks' \in Seq(EdgeCheck) /\ cycle_detected' \in BOOLEAN
    <3>1. CheckOf(index, CurrentMember) \in EdgeCheck
      BY <2>1, AdvancedFrames, CheckOfType
    <3>2. \/ edge_checks' = Append(edge_checks, CheckOf(index, CurrentMember))
          \/ edge_checks' = edge_checks
      BY <1>2 DEF CycleEdge, RevisitEdge, RejectEdge, UntypedEdge, SkipMember, Record
    <3>3. edge_checks' \in Seq(EdgeCheck)
      BY <3>1, <3>2 DEF WalkTypeOK
    <3>4. cycle_detected' = TRUE \/ cycle_detected' = cycle_detected
      BY <1>2 DEF CycleEdge, RevisitEdge, RejectEdge, UntypedEdge, SkipMember
    <3>5. cycle_detected' \in BOOLEAN
      BY <3>4, Zenon DEF WalkTypeOK
    <3> QED BY <3>3, <3>5
  <2>3. WalkTypeOK'
    BY <2>1, <2>2, AdvancedFrames DEF WalkTypeOK
  <2> QED BY <2>1, <2>3, AdvanceStack
<1>3. CASE DescendEdge
  <2> DEFINE m == CurrentMember
  <2>1. /\ InLoop
        /\ IsTyped(m)
        /\ m.event_hash \notin on_stack
        /\ m.event_hash \notin reachable
        /\ Record(m)
        /\ stack' = Append(Advanced, Call(m.event_hash))
        /\ reachable' = reachable \union {m.event_hash}
        /\ on_stack' = on_stack \union {m.event_hash}
        /\ UNCHANGED <<index, root, cycle_detected>>
    BY <1>3 DEF DescendEdge
  <2>2. m \in Member /\ m.event_hash \in Hash
    BY <2>1, AdvancedFrames DEF Member
  <2>3. Call(m.event_hash) \in Frame
    BY <2>2 DEF Call, Frame
  <2>4. /\ stack' \in Seq(Frame)
        /\ Len(stack') = Len(stack) + 1
        /\ stack'[Len(stack')] = Call(m.event_hash)
        /\ \A i \in 1..Len(stack) : stack'[i] = Advanced[i]
    BY <2>1, <2>3, AdvancedFrames
  <2>5. WalkTypeOK'
    BY <2>1, <2>2, <2>4, CheckOfType DEF WalkTypeOK, Record
  <2> HIDE DEF m
  <2>6. /\ \A i \in 1..Len(stack') : stack'[i].node \in on_stack'
        /\ \A i, j \in 1..Len(stack') : stack'[i].node = stack'[j].node => i = j
    <3>1. \A i \in 1..Len(stack) : stack'[i].node = stack[i].node /\ stack[i].node \in on_stack
      BY <2>1, <2>4, AdvancedFrames DEF StackInv
    <3>2. stack'[Len(stack')].node = m.event_hash
      BY <2>4 DEF Call
    <3>3. \A i \in 1..Len(stack') : i \in 1..Len(stack) \/ i = Len(stack')
      BY <2>1, <2>4, AdvancedFrames
    <3>4. \A i, j \in 1..Len(stack) : stack[i].node = stack[j].node => i = j
      BY DEF StackInv
    <3> QED BY <2>1, <3>1, <3>2, <3>3, <3>4
  <2>7. \A h \in on_stack' : \E i \in 1..Len(stack') : stack'[i].node = h
    <3> SUFFICES ASSUME NEW h \in on_stack'
                 PROVE  \E i \in 1..Len(stack') : stack'[i].node = h
      OBVIOUS
    <3>1. CASE h = m.event_hash
      <4>1. stack'[Len(stack')].node = h /\ Len(stack') \in 1..Len(stack')
        BY <3>1, <2>1, <2>4, AdvancedFrames DEF Call
      <4> QED BY <4>1
    <3>2. CASE h \in on_stack
      <4>1. PICK i \in 1..Len(stack) : stack[i].node = h
        BY <3>2 DEF StackInv
      <4> QED BY <2>1, <2>4, <4>1, AdvancedFrames
    <3> QED BY <2>1, <3>1, <3>2
  <2>8. \A i \in 1..Len(stack') : stack'[i].next <= Len(Members(index', stack'[i].node)) + 1
    <3> SUFFICES ASSUME NEW i \in 1..Len(stack')
                 PROVE  stack'[i].next <= Len(Members(index, stack'[i].node)) + 1
      BY <2>1
    <3>1. CASE i = Len(stack')
      <4>1. Len(Members(index, m.event_hash)) \in Nat
        BY <2>2, MembersType DEF WalkTypeOK
      <4> QED BY <3>1, <2>4, <4>1 DEF Call
    <3>2. CASE i = Len(stack)
      <4>1. Members(index, Top.node) \in Seq(Member)
        BY <2>1, AdvancedFrames, MembersType DEF WalkTypeOK, Frame
      <4> QED BY <3>2, <2>1, <2>4, <4>1, AdvancedFrames
    <3>3. CASE i < Len(stack)
      BY <3>3, <2>1, <2>4, AdvancedFrames DEF StackInv
    <3> QED BY <3>1, <3>2, <3>3, <2>1, <2>4, AdvancedFrames
  <2>9. ResolvedEdge(index, Top.node, m.event_hash)
    BY <1>3, <2>1, AdvancedFrames DEF DescendEdge, ResolvedEdge, m
  <2>10. \A i \in 1..Len(stack') :
            i < Len(stack') => ResolvedEdge(index', stack'[i].node, stack'[i + 1].node)
    <3> SUFFICES ASSUME NEW i \in 1..Len(stack'), i < Len(stack')
                 PROVE  ResolvedEdge(index, stack'[i].node, stack'[i + 1].node)
      BY <2>1
    <3>1. CASE i = Len(stack)
      BY <3>1, <2>1, <2>4, <2>9, AdvancedFrames DEF Call
    <3>2. CASE i < Len(stack)
      <4>1. stack'[i].node = stack[i].node /\ stack'[i+1].node = stack[i+1].node
        BY <3>2, <2>1, <2>4, AdvancedFrames
      <4> QED BY <3>2, <4>1 DEF StackInv
    <3> QED BY <3>1, <3>2, <2>1, <2>4, AdvancedFrames
  <2>11. on_stack' \subseteq reachable'
    BY <2>1 DEF StackInv
  <2> QED BY <2>5, <2>6, <2>7, <2>8, <2>10, <2>11 DEF StackInv
<1>4. CASE Return
  <2>1. /\ stack' = SubSeq(stack, 1, Len(stack) - 1)
        /\ on_stack' = on_stack \ {Top.node}
        /\ stack # <<>>
        /\ UNCHANGED <<index, root, reachable, edge_checks, cycle_detected>>
    BY <1>4 DEF Return
  <2>2. /\ Len(stack) \in Nat \ {0}
        /\ stack' \in Seq(Frame)
        /\ Len(stack') = Len(stack) - 1
        /\ \A i \in 1..Len(stack') : stack'[i] = stack[i]
    BY <2>1, PoppedFrames
  <2>3. WalkTypeOK'
    BY <2>1, <2>2 DEF WalkTypeOK
  <2>4. \A i \in 1..Len(stack') : i \in 1..Len(stack) /\ i # Len(stack)
    BY <2>2
  <2>5. \A i \in 1..Len(stack') : stack'[i].node \in on_stack'
    <3> SUFFICES ASSUME NEW i \in 1..Len(stack')
                 PROVE  stack[i].node \in on_stack \ {stack[Len(stack)].node}
      BY <2>1, <2>2 DEF Top
    <3>1. i \in 1..Len(stack) /\ i # Len(stack) /\ Len(stack) \in 1..Len(stack)
      BY <2>2, <2>4
    <3> QED BY <3>1 DEF StackInv
  <2>6. \A h \in on_stack' : \E i \in 1..Len(stack') : stack'[i].node = h
    <3> SUFFICES ASSUME NEW h \in on_stack'
                 PROVE  \E i \in 1..Len(stack') : stack'[i].node = h
      OBVIOUS
    <3>1. PICK i \in 1..Len(stack) : stack[i].node = h
      BY <2>1 DEF StackInv
    <3>2. i # Len(stack)
      BY <2>1, <3>1 DEF Top
    <3>3. i \in 1..Len(stack')
      BY <2>2, <3>2
    <3> QED BY <2>2, <3>1, <3>3
  <2>7. \A i, j \in 1..Len(stack') : stack'[i].node = stack'[j].node => i = j
    BY <2>2, <2>4 DEF StackInv
  <2>8. \A i \in 1..Len(stack') : stack'[i].next <= Len(Members(index', stack'[i].node)) + 1
    BY <2>1, <2>2, <2>4 DEF StackInv
  <2>9. \A i \in 1..Len(stack') :
           i < Len(stack') => ResolvedEdge(index', stack'[i].node, stack'[i + 1].node)
    <3> SUFFICES ASSUME NEW i \in 1..Len(stack'), i < Len(stack')
                 PROVE  ResolvedEdge(index, stack'[i].node, stack'[i + 1].node)
      BY <2>1
    <3>1. stack'[i] = stack[i] /\ stack'[i + 1] = stack[i + 1] /\ i < Len(stack)
      BY <2>2
    <3> QED BY <2>4, <3>1 DEF StackInv
  <2>10. on_stack' \subseteq reachable'
    BY <2>1 DEF StackInv
  <2> QED BY <2>3, <2>5, <2>6, <2>7, <2>8, <2>9, <2>10 DEF StackInv
<1>5. CASE UNCHANGED walkVars
  BY <1>5 DEF walkVars, WalkTypeOK, StackInv
<1> QED BY <1>1, <1>2, <1>3, <1>4, <1>5 DEF WalkNext, WalkStep

----------------------------------------------------------------------------
(* What the loops have passed *)

\* The four shapes of a step.
LEMMA StepShapes ==
    ASSUME WalkTypeOK, StackInv, StartInv, WalkNext
    PROVE  \/ Start
           \/ /\ CycleEdge \/ RevisitEdge \/ RejectEdge \/ UntypedEdge \/ SkipMember
              /\ InLoop
              /\ stack' = Advanced
              /\ UNCHANGED <<index, root, reachable, on_stack>>
           \/ DescendEdge
           \/ Return
BY DEF WalkNext, WalkStep, CycleEdge, RevisitEdge, RejectEdge, UntypedEdge, SkipMember

\* What a call adds to the stack.
LEMMA DescendFrames ==
    ASSUME WalkTypeOK, DescendEdge
    PROVE  LET g == CurrentMember.event_hash IN
           /\ InLoop
           /\ IsTyped(CurrentMember)
           /\ classify_edge(index, CurrentMember) = "Resolved"
           /\ g \in Hash
           /\ g \notin reachable
           /\ g \notin on_stack
           /\ reachable' = reachable \union {g}
           /\ on_stack' = on_stack \union {g}
           /\ Len(stack') = Len(stack) + 1
           /\ \A i \in 1..Len(stack) : stack'[i] = Advanced[i]
           /\ stack'[Len(stack) + 1].node = g
           /\ stack'[Len(stack) + 1].next = 1
           /\ edge_checks' = Append(edge_checks, CheckOf(index, CurrentMember))
           /\ UNCHANGED <<index, root, cycle_detected>>
<1> DEFINE g == CurrentMember.event_hash
<1>1. /\ InLoop
      /\ IsTyped(CurrentMember)
      /\ classify_edge(index, CurrentMember) = "Resolved"
      /\ g \notin reachable
      /\ g \notin on_stack
      /\ reachable' = reachable \union {g}
      /\ on_stack' = on_stack \union {g}
      /\ stack' = Append(Advanced, Call(g))
      /\ edge_checks' = Append(edge_checks, CheckOf(index, CurrentMember))
      /\ UNCHANGED <<index, root, cycle_detected>>
  BY DEF DescendEdge, Record
<1>2. g \in Hash
  BY <1>1, AdvancedFrames DEF Member
<1>3. Call(g) \in Frame /\ Call(g).node = g /\ Call(g).next = 1
  BY <1>2 DEF Call, Frame
<1>4. /\ Len(stack') = Len(stack) + 1
      /\ \A i \in 1..Len(stack) : stack'[i] = Advanced[i]
      /\ stack'[Len(stack) + 1] = Call(g)
  <2> HIDE DEF g
  <2> QED BY <1>1, <1>3, AdvancedFrames
<1> QED BY <1>1, <1>2, <1>3, <1>4

\* A step passes at most the member the innermost loop is at.
LEMMA PassedStep ==
    ASSUME WalkTypeOK, StackInv, StartInv, WalkNext,
           NEW h \in Hash, NEW k \in 1..Len(Members(index, h)), Passed(h, k)'
    PROVE  Passed(h, k) \/ (InLoop /\ h = Top.node /\ k = Top.next)
<1>0. k \in Nat \ {0} /\ Len(Members(index, h)) \in Nat
  BY MembersType DEF WalkTypeOK
<1>1. CASE Start
  <2>1. stack'[1].next = 1 /\ stack'[1].node = root /\ Len(stack') = 1 /\ reachable' = {root}
    BY <1>1 DEF Start, Call
  <2>2. h = root
    BY <2>1 DEF Passed
  <2>3. k < 1
    BY <2>1, <2>2 DEF Passed
  <2> QED BY <2>3, <1>0
<1>2. CASE InLoop /\ stack' = Advanced /\ UNCHANGED <<index, root, reachable, on_stack>>
  <2> SUFFICES ASSUME h # Top.node \/ k # Top.next
               PROVE  Passed(h, k)
    BY <1>2
  <2>1. h \in reachable
    BY <1>2 DEF Passed
  <2>2. ASSUME NEW i \in 1..Len(stack), stack[i].node = h
        PROVE  k < stack[i].next
    <3>1. k < Advanced[i].next
      BY <1>2, <2>2, AdvancedFrames DEF Passed
    <3>2. CASE i = Len(stack)
      BY <1>0, <1>2, <3>1, <3>2, <2>2, AdvancedFrames
    <3>3. CASE i # Len(stack)
      BY <1>2, <3>1, <3>3, AdvancedFrames
    <3> QED BY <3>2, <3>3
  <2> QED BY <2>1, <2>2 DEF Passed
<1>3. CASE DescendEdge
  <2> SUFFICES ASSUME h # Top.node \/ k # Top.next
               PROVE  Passed(h, k)
    BY <1>3 DEF DescendEdge
  <2> DEFINE g == CurrentMember.event_hash
  <2>0. /\ InLoop
        /\ Len(stack) \in Nat
        /\ reachable' = reachable \union {g}
        /\ Len(stack') = Len(stack) + 1
        /\ \A i \in 1..Len(stack) : stack'[i] = Advanced[i]
        /\ stack'[Len(stack) + 1].node = g
        /\ stack'[Len(stack) + 1].next = 1
    BY <1>3, DescendFrames, AdvancedFrames
  <2> HIDE DEF g
  <2>1. h # g
    <3>1. Len(stack) + 1 \in 1..Len(stack')
      BY <2>0
    <3>2. h = g => k < 1
      BY <2>0, <3>1 DEF Passed
    <3> QED BY <1>0, <3>2
  <2>2. h \in reachable
    BY <2>0, <2>1 DEF Passed
  <2>3. ASSUME NEW i \in 1..Len(stack), stack[i].node = h
        PROVE  k < stack[i].next
    <3>0. i \in 1..Len(stack') /\ stack'[i] = Advanced[i] /\ Advanced[i].node = h
      BY <2>0, <2>3, AdvancedFrames
    <3>1. k < Advanced[i].next
      BY <3>0 DEF Passed
    <3>2. CASE i = Len(stack)
      BY <1>0, <2>0, <3>1, <3>2, <2>3, AdvancedFrames
    <3>3. CASE i # Len(stack)
      BY <2>0, <3>1, <3>3, AdvancedFrames
    <3> QED BY <3>2, <3>3
  <2> QED BY <2>2, <2>3 DEF Passed
<1>4. CASE Return
  <2>1. /\ Top.next > Len(Members(index, Top.node))
        /\ Len(stack) \in Nat \ {0}
        /\ Len(stack') = Len(stack) - 1
        /\ \A i \in 1..(Len(stack) - 1) : stack'[i] = stack[i]
        /\ reachable' = reachable
    BY <1>4, PoppedFrames DEF Return
  <2>2. ASSUME NEW i \in 1..Len(stack), stack[i].node = h
        PROVE  k < stack[i].next
    <3>1. CASE i = Len(stack)
      <4>1. stack[i] \in Frame
        BY DEF WalkTypeOK
      <4> QED BY <1>0, <2>1, <2>2, <3>1, <4>1 DEF Top, Frame
    <3>2. CASE i # Len(stack)
      <4>1. i \in 1..Len(stack') /\ stack'[i] = stack[i]
        BY <2>1, <3>2
      <4> QED BY <2>2, <4>1 DEF Passed
    <3> QED BY <3>1, <3>2
  <2> QED BY <2>1, <2>2 DEF Passed
<1> QED BY <1>1, <1>2, <1>3, <1>4, StepShapes

\* Nothing reached is forgotten, and the index and the root stay.
LEMMA ReachableGrows ==
    ASSUME WalkTypeOK, WalkNext
    PROVE  reachable \subseteq reachable' /\ index' = index /\ root' = root
BY DEF WalkNext, WalkStep, Start, CycleEdge, DescendEdge, RevisitEdge, RejectEdge,
       UntypedEdge, SkipMember, Return

LEMMA PassedReachableStep ==
    ASSUME WalkTypeOK, StackInv, StartInv, PassedReachable, WalkNext
    PROVE  PassedReachable'
<1>1. index' = index /\ reachable \subseteq reachable'
  BY ReachableGrows
<1> SUFFICES ASSUME NEW h \in Hash, NEW k \in 1..Len(Members(index, h)),
                    Passed(h, k)', Resolves(h, k)
             PROVE  Members(index, h)[k].event_hash \in reachable'
  BY <1>1 DEF PassedReachable, Resolves
<1>2. CASE Passed(h, k)
  BY <1>1, <1>2 DEF PassedReachable
<1>3. CASE InLoop /\ h = Top.node /\ k = Top.next
  <2>1. Members(index, h)[k] = CurrentMember
    BY <1>3 DEF CurrentMember
  <2>2. IsTyped(CurrentMember) /\ classify_edge(index, CurrentMember) = "Resolved"
    BY <2>1 DEF Resolves
  <2>3. CASE Start
    BY <2>3, <1>3 DEF Start, InLoop, StartInv
  <2>4. CASE CycleEdge \/ RevisitEdge
    BY <2>1, <2>4 DEF CycleEdge, RevisitEdge, StackInv
  <2>5. CASE DescendEdge
    BY <2>1, <2>5 DEF DescendEdge
  <2>6. CASE RejectEdge \/ UntypedEdge \/ SkipMember
    BY <2>2, <2>6 DEF RejectEdge, UntypedEdge, SkipMember, IsTyped
  <2>7. CASE Return
    BY <1>3, <2>7, AdvancedFrames DEF Return, InLoop, WalkTypeOK
  <2> QED BY <2>3, <2>4, <2>5, <2>6, <2>7 DEF WalkNext, WalkStep
<1> QED BY <1>2, <1>3, PassedStep

LEMMA PassedCheckedStep ==
    ASSUME WalkTypeOK, StackInv, StartInv, PassedChecked, WalkNext
    PROVE  PassedChecked'
<1>1. index' = index
  BY ReachableGrows
<1>2. \/ edge_checks' = edge_checks
      \/ InLoop /\ edge_checks' = Append(edge_checks, CheckOf(index, CurrentMember))
  BY DEF WalkNext, WalkStep, Start, CycleEdge, DescendEdge, RevisitEdge, RejectEdge,
         UntypedEdge, SkipMember, Return, Record
<1>3. /\ Len(edge_checks) \in Nat
      /\ Len(edge_checks') \in Nat
      /\ Len(edge_checks) <= Len(edge_checks')
      /\ \A j \in 1..Len(edge_checks) : edge_checks'[j] = edge_checks[j]
  <2>1. edge_checks \in Seq(EdgeCheck)
    BY DEF WalkTypeOK
  <2>2. CASE edge_checks' = edge_checks
    BY <2>1, <2>2
  <2>3. CASE InLoop /\ edge_checks' = Append(edge_checks, CheckOf(index, CurrentMember))
    <3>1. CheckOf(index, CurrentMember) \in EdgeCheck
      BY <2>3, AdvancedFrames, CheckOfType
    <3> QED BY <2>1, <2>3, <3>1
  <2> QED BY <1>2, <2>2, <2>3
<1> SUFFICES ASSUME NEW h \in Hash, NEW k \in 1..Len(Members(index, h)),
                    Passed(h, k)', IsDependency(Members(index, h)[k])
             PROVE  \E j \in 1..Len(edge_checks') :
                       edge_checks'[j] = CheckOf(index, Members(index, h)[k])
  BY <1>1 DEF PassedChecked
<1>4. CASE Passed(h, k)
  <2>1. PICK j \in 1..Len(edge_checks) : edge_checks[j] = CheckOf(index, Members(index, h)[k])
    BY <1>4 DEF PassedChecked
  <2>2. j \in 1..Len(edge_checks') /\ edge_checks'[j] = edge_checks[j]
    BY <1>3
  <2> QED BY <2>1, <2>2
<1>5. CASE InLoop /\ h = Top.node /\ k = Top.next
  <2>1. Members(index, h)[k] = CurrentMember
    BY <1>5 DEF CurrentMember
  <2>2. edge_checks' = Append(edge_checks, CheckOf(index, CurrentMember))
    <3>1. CASE Start
      BY <3>1, <1>5 DEF Start, InLoop, StartInv
    <3>2. CASE CycleEdge \/ DescendEdge \/ RevisitEdge \/ RejectEdge \/ UntypedEdge
      BY <3>2 DEF CycleEdge, DescendEdge, RevisitEdge, RejectEdge, UntypedEdge, Record
    <3>3. CASE SkipMember
      BY <2>1, <3>3 DEF SkipMember, IsDependency
    <3>4. CASE Return
      BY <1>5, <3>4, AdvancedFrames DEF Return, InLoop, WalkTypeOK
    <3> QED BY <3>1, <3>2, <3>3, <3>4 DEF WalkNext, WalkStep
  <2>3. edge_checks \in Seq(EdgeCheck) /\ CheckOf(index, CurrentMember) \in EdgeCheck
    BY <1>5, AdvancedFrames, CheckOfType DEF WalkTypeOK
  <2>4. /\ Len(edge_checks') \in 1..Len(edge_checks')
        /\ edge_checks'[Len(edge_checks')] = CheckOf(index, CurrentMember)
    BY <2>2, <2>3
  <2> QED BY <2>1, <2>4
<1> QED BY <1>4, <1>5, PassedStep

\* What the loops have passed stays passed, and so is the member a step is at.
LEMMA PassedGrows ==
    ASSUME WalkTypeOK, StackInv, StartInv, WalkNext,
           NEW h \in Hash, NEW k \in 1..Len(Members(index, h)),
           Passed(h, k) \/ (InLoop /\ h = Top.node /\ k = Top.next)
    PROVE  Passed(h, k)'
<1>0. k \in Nat \ {0} /\ Len(Members(index, h)) \in Nat
  BY MembersType DEF WalkTypeOK
<1>1. CASE Start
  BY <1>1 DEF Start, Passed, InLoop, StartInv
<1>2. ASSUME InLoop, h = Top.node, k = Top.next
      PROVE  /\ h \in reachable
             /\ \A i \in 1..Len(stack) : stack[i].node = h => i = Len(stack)
  <2>1. Len(stack) \in 1..Len(stack) /\ stack[Len(stack)].node = h
    BY <1>2, AdvancedFrames
  <2> QED BY <2>1 DEF StackInv
<1>3. ASSUME InLoop, NEW i \in 1..Len(stack), stack[i].node = h
      PROVE  h \in reachable /\ k < Advanced[i].next
  <2>1. Len(stack) \in Nat \ {0} /\ stack[i] \in Frame /\ Top = stack[Len(stack)]
    BY <1>3, AdvancedFrames DEF WalkTypeOK
  <2>2. CASE i = Len(stack)
    BY <1>0, <1>2, <1>3, <2>1, <2>2, AdvancedFrames DEF Passed, Frame
  <2>3. CASE i # Len(stack)
    BY <1>2, <1>3, <2>3, AdvancedFrames DEF Passed
  <2> QED BY <2>2, <2>3
<1>4. CASE InLoop /\ stack' = Advanced /\ UNCHANGED <<index, root, reachable, on_stack>>
  <2>1. h \in reachable
    BY <1>2, <1>4 DEF Passed
  <2>2. \A i \in 1..Len(stack') : stack'[i].node = h => k < stack'[i].next
    BY <1>3, <1>4, AdvancedFrames
  <2> QED BY <1>4, <2>1, <2>2 DEF Passed
<1>5. CASE DescendEdge
  <2> DEFINE g == CurrentMember.event_hash
  <2>0. /\ InLoop
        /\ Len(stack) \in Nat
        /\ reachable' = reachable \union {g}
        /\ g \notin reachable
        /\ Len(stack') = Len(stack) + 1
        /\ \A i \in 1..Len(stack) : stack'[i] = Advanced[i]
        /\ stack'[Len(stack) + 1].node = g
    BY <1>5, DescendFrames, AdvancedFrames DEF DescendEdge
  <2> HIDE DEF g
  <2>1. h \in reachable
    BY <1>2, <2>0 DEF Passed
  <2>2. ASSUME NEW i \in 1..Len(stack'), stack'[i].node = h
        PROVE  k < stack'[i].next
    <3>1. i \in 1..Len(stack)
      BY <2>0, <2>1, <2>2
    <3>2. stack[i].node = h /\ stack'[i] = Advanced[i]
      BY <2>0, <2>2, <3>1, AdvancedFrames
    <3> QED BY <1>3, <2>0, <3>1, <3>2
  <2> QED BY <2>0, <2>1, <2>2 DEF Passed
<1>6. CASE Return
  <2>1. /\ ~InLoop
        /\ Len(stack) \in Nat \ {0}
        /\ Len(stack') = Len(stack) - 1
        /\ \A i \in 1..(Len(stack) - 1) : stack'[i] = stack[i]
        /\ reachable' = reachable
    <3>1. Top \in Frame
      BY <1>6, PoppedFrames DEF Return, WalkTypeOK, Top
    <3>2. Top.node \in Hash /\ Top.next \in Nat
      BY <3>1 DEF Frame
    <3>3. Len(Members(index, Top.node)) \in Nat
      BY <3>2, MembersType DEF WalkTypeOK
    <3> QED BY <1>6, <3>2, <3>3, PoppedFrames DEF Return, InLoop
  <2>2. Passed(h, k)
    BY <2>1
  <2> QED BY <2>1, <2>2 DEF Passed
<1> QED BY <1>1, <1>4, <1>5, <1>6, StepShapes

\* A member is passed and a dependency, or it is not counted.
LEMMA PassedMembersAre ==
    ASSUME WalkTypeOK
    PROVE  \A p : p \in PassedMembers <=>
              \E h \in Hash : \E k \in 1..Len(Members(index, h)) :
                 p = <<h, k>> /\ IsDependency(Members(index, h)[k]) /\ Passed(h, k)
<1>1. \A h : \A k : Passed(h, k) => h \in reachable /\ h \in Hash
  BY DEF Passed, WalkTypeOK
<1>2. ASSUME NEW p \in PassedMembers
      PROVE  \E h \in Hash : \E k \in 1..Len(Members(index, h)) :
                 p = <<h, k>> /\ IsDependency(Members(index, h)[k]) /\ Passed(h, k)
  <2>1. PICK h \in reachable :
           p \in {h} \X {k \in 1..Len(Members(index, h)) : IsDependency(Members(index, h)[k])}
    BY DEF PassedMembers, DependencyMembers
  <2> QED BY <1>1, <2>1 DEF PassedMembers
<1>3. ASSUME NEW h \in Hash, NEW k \in 1..Len(Members(index, h)),
             IsDependency(Members(index, h)[k]), Passed(h, k)
      PROVE  <<h, k>> \in PassedMembers
  BY <1>1, <1>3 DEF PassedMembers, DependencyMembers
<1> QED BY <1>2, <1>3

\* A step passes at most the member it is at.
LEMMA PassedMembersStep ==
    ASSUME WalkTypeOK, StackInv, StartInv, WalkNext
    PROVE  PassedMembers' =
              IF InLoop /\ IsDependency(CurrentMember)
              THEN PassedMembers \union {<<Top.node, Top.next>>} ELSE PassedMembers
<1>1. index' = index
  BY ReachableGrows
<1>2. WalkTypeOK'
  BY StackStep
<1>3. \A p : p \in PassedMembers' <=>
          \E h \in Hash : \E k \in 1..Len(Members(index, h)) :
             p = <<h, k>> /\ IsDependency(Members(index, h)[k]) /\ Passed(h, k)'
  <2>1. (WalkTypeOK => \A p : p \in PassedMembers <=>
          \E h \in Hash : \E k \in 1..Len(Members(index, h)) :
             p = <<h, k>> /\ IsDependency(Members(index, h)[k]) /\ Passed(h, k))'
    BY PassedMembersAre, PTL
  <2> QED BY <1>1, <1>2, <2>1
<1>4. \A h \in Hash : \A k \in 1..Len(Members(index, h)) :
         Passed(h, k)' <=> Passed(h, k) \/ (InLoop /\ h = Top.node /\ k = Top.next)
  BY PassedStep, PassedGrows
<1>5. InLoop => /\ Top.node \in Hash /\ Top.next \in 1..Len(Members(index, Top.node))
                /\ CurrentMember = Members(index, Top.node)[Top.next]
  BY AdvancedFrames DEF Frame
<1>6. \A p : p \in PassedMembers' <=>
         p \in PassedMembers \/ (InLoop /\ IsDependency(CurrentMember) /\ p = <<Top.node, Top.next>>)
  BY <1>3, <1>4, <1>5, PassedMembersAre
<1> QED BY <1>6

LEMMA PassedCountedStep ==
    ASSUME WalkTypeOK, StackInv, StartInv, PassedCounted, WalkNext
    PROVE  PassedCounted'
<1>1. index' = index
  BY ReachableGrows
<1>2. edge_checks \in Seq(EdgeCheck) /\ Len(edge_checks) \in Nat
  BY DEF WalkTypeOK
<1>3. edge_checks' = IF InLoop /\ IsDependency(CurrentMember)
                     THEN Append(edge_checks, CheckOf(index, CurrentMember)) ELSE edge_checks
  <2>1. CASE Start
    BY <2>1 DEF Start, InLoop, StartInv
  <2>2. CASE CycleEdge \/ DescendEdge \/ RevisitEdge \/ RejectEdge \/ UntypedEdge
    BY <2>2 DEF CycleEdge, DescendEdge, RevisitEdge, RejectEdge, UntypedEdge, Record,
                IsTyped, IsDependency
  <2>3. CASE SkipMember
    BY <2>3 DEF SkipMember, IsDependency
  <2>4. CASE Return
    <3>1. ~InLoop
      BY <2>4, AdvancedFrames DEF Return, InLoop, WalkTypeOK
    <3> QED BY <2>4, <3>1 DEF Return
  <2> QED BY <2>1, <2>2, <2>3, <2>4 DEF WalkNext, WalkStep
<1> SUFFICES ASSUME NEW c \in EdgeCheck
             PROVE  /\ IsFiniteSet(RecordedAs(PassedMembers, c))'
                    /\ (Cardinality(ChecksEqual(c)) = Cardinality(RecordedAs(PassedMembers, c)))'
  BY DEF PassedCounted
<1>4. IsFiniteSet(ChecksEqual(c))
  <2>1. IsFiniteSet(1..Len(edge_checks))
    BY <1>2, FS_Interval
  <2>2. ChecksEqual(c) \in SUBSET (1..Len(edge_checks))
    BY DEF ChecksEqual
  <2> QED BY <2>1, <2>2, FS_Subset
<1>5. /\ IsFiniteSet(RecordedAs(PassedMembers, c))
      /\ Cardinality(ChecksEqual(c)) = Cardinality(RecordedAs(PassedMembers, c))
  BY DEF PassedCounted
<1> DEFINE new == <<Top.node, Top.next>>
<1>6. CASE InLoop /\ IsDependency(CurrentMember) /\ CheckOf(index, CurrentMember) = c
  <2>1. new \notin RecordedAs(PassedMembers, c)
    <3>1. Len(stack) \in 1..Len(stack) /\ stack[Len(stack)] = Top
      BY <1>6, AdvancedFrames
    <3>2. Top.next \in Nat
      BY <1>6, AdvancedFrames DEF Frame
    <3>3. ~Passed(Top.node, Top.next)
      BY <3>1, <3>2 DEF Passed
    <3> QED BY <3>3, PassedMembersAre DEF RecordedAs
  <2>2. RecordedAs(PassedMembers, c)' = RecordedAs(PassedMembers, c) \union {new}
    <3>1. PassedMembers' = PassedMembers \union {new}
      BY <1>6, PassedMembersStep
    <3>2. CheckOf(index, Members(index, new[1])[new[2]]) = c
      BY <1>6, AdvancedFrames
    <3> HIDE DEF new
    <3> QED BY <1>1, <3>1, <3>2 DEF RecordedAs
  <2>3. ChecksEqual(c)' = ChecksEqual(c) \union {Len(edge_checks) + 1}
    BY <1>2, <1>3, <1>6 DEF ChecksEqual
  <2>4. Len(edge_checks) + 1 \notin ChecksEqual(c)
    BY <1>2 DEF ChecksEqual
  <2>5. /\ IsFiniteSet(RecordedAs(PassedMembers, c) \union {new})
        /\ Cardinality(RecordedAs(PassedMembers, c) \union {new})
              = Cardinality(RecordedAs(PassedMembers, c)) + 1
    BY <1>5, <2>1, FS_AddElement
  <2>6. Cardinality(ChecksEqual(c) \union {Len(edge_checks) + 1}) = Cardinality(ChecksEqual(c)) + 1
    BY <1>4, <2>4, FS_AddElement
  <2> HIDE DEF new
  <2> QED BY <1>5, <2>2, <2>3, <2>5, <2>6, Zenon
<1>7. CASE ~(InLoop /\ IsDependency(CurrentMember) /\ CheckOf(index, CurrentMember) = c)
  <2>1. RecordedAs(PassedMembers, c)' = RecordedAs(PassedMembers, c)
    <3>1. CASE InLoop /\ IsDependency(CurrentMember)
      <4>1. PassedMembers' = PassedMembers \union {new}
        BY <3>1, PassedMembersStep
      <4>2. CheckOf(index, Members(index, new[1])[new[2]]) # c
        BY <1>7, <3>1, AdvancedFrames
      <4> HIDE DEF new
      <4> QED BY <1>1, <4>1, <4>2 DEF RecordedAs
    <3>2. CASE ~(InLoop /\ IsDependency(CurrentMember))
      <4>1. PassedMembers' = PassedMembers
        BY <3>2, PassedMembersStep
      <4> QED BY <1>1, <4>1 DEF RecordedAs
    <3> QED BY <3>1, <3>2
  <2>2. ChecksEqual(c)' = ChecksEqual(c)
    <3>1. CASE InLoop /\ IsDependency(CurrentMember)
      <4>1. CheckOf(index, CurrentMember) # c /\ CheckOf(index, CurrentMember) \in EdgeCheck
        BY <1>7, <3>1, AdvancedFrames, CheckOfType
      <4> QED BY <1>2, <1>3, <3>1, <4>1 DEF ChecksEqual
    <3>2. CASE ~(InLoop /\ IsDependency(CurrentMember))
      BY <1>3, <3>2 DEF ChecksEqual
    <3> QED BY <3>1, <3>2
  <2> QED BY <1>5, <2>1, <2>2
<1> QED BY <1>6, <1>7

\* The edge of the member the innermost loop is at.
LEMMA CurrentEdge ==
    ASSUME WalkTypeOK, InLoop, IsTyped(CurrentMember)
    PROVE  /\ TypedEdge(index, Top.node, CurrentMember.event_hash)
           /\ classify_edge(index, CurrentMember) = "Resolved" =>
                 ResolvedEdge(index, Top.node, CurrentMember.event_hash)
           /\ Top.node \in Hash
           /\ CurrentMember.event_hash \in Hash
<1>1. CurrentMember = Members(index, Top.node)[Top.next] /\ Top.next \in 1..Len(Members(index, Top.node))
  BY AdvancedFrames
<1>2. Top.node \in Hash /\ CurrentMember.event_hash \in Hash
  BY AdvancedFrames DEF Frame, Member
<1> QED BY <1>1, <1>2 DEF TypedEdge, ResolvedEdge

LEMMA ReachableMinimalStep ==
    ASSUME WalkTypeOK, StackInv, StartInv, ReachableMinimal, WalkNext
    PROVE  ReachableMinimal'
<1>1. index' = index /\ root' = root
  BY ReachableGrows
<1> SUFFICES ASSUME NEW S \in SUBSET Hash, root \in S, Closed(index, S)
             PROVE  reachable' \subseteq S
  BY <1>1 DEF ReachableMinimal
<1>2. reachable \subseteq S
  BY DEF ReachableMinimal
<1>3. CASE Start
  BY <1>3 DEF Start
<1>4. CASE DescendEdge
  <2>1. /\ InLoop
        /\ ResolvedEdge(index, Top.node, CurrentMember.event_hash)
        /\ CurrentMember.event_hash \in Hash
        /\ reachable' = reachable \union {CurrentMember.event_hash}
    BY <1>4, CurrentEdge, DescendFrames
  <2>2. Top.node \in reachable
    BY <2>1, AdvancedFrames DEF StackInv
  <2> QED BY <1>2, <2>1, <2>2 DEF Closed
<1>5. CASE reachable' = reachable
  BY <1>2, <1>5
<1> QED BY <1>3, <1>4, <1>5 DEF WalkNext, WalkStep, CycleEdge, RevisitEdge, RejectEdge,
           UntypedEdge, SkipMember, Return

LEMMA NoFalseCycleStep ==
    ASSUME WalkTypeOK, StackInv, StartInv, NoFalseCycle, WalkNext
    PROVE  NoFalseCycle'
<1>1. index' = index /\ reachable \subseteq reachable'
  BY ReachableGrows
<1>2. CASE cycle_detected
  BY <1>1, <1>2 DEF NoFalseCycle
<1>3. CASE CycleEdge
  <2> DEFINE g == CurrentMember.event_hash
  <2>1. InLoop /\ g \in on_stack /\ TypedEdge(index, Top.node, g)
    BY <1>3, CurrentEdge DEF CycleEdge
  <2>2. Len(stack) \in Nat \ {0} /\ Top = stack[Len(stack)]
    BY <2>1, AdvancedFrames
  <2>3. PICK p \in 1..Len(stack) : stack[p].node = g
    BY <2>1 DEF StackInv
  <2> DEFINE S == {stack[j].node : j \in p..Len(stack)}
  <2>4. S \in SUBSET reachable
    BY <2>2, <2>3 DEF StackInv
  <2>5. g \in S
    BY <2>2, <2>3
  <2>6. ASSUME NEW h \in S
        PROVE  \E x \in S : TypedEdge(index, h, x)
    <3>1. PICK j \in p..Len(stack) : h = stack[j].node
      BY <2>6
    <3>2. CASE j = Len(stack)
      BY <2>1, <2>2, <2>5, <3>1, <3>2
    <3>3. CASE j < Len(stack)
      <4>1. j \in 1..Len(stack) /\ j + 1 \in p..Len(stack)
        BY <2>2, <2>3, <3>3
      <4>2. TypedEdge(index, stack[j].node, stack[j + 1].node)
        BY <3>3, <4>1, ResolvedEdgeIsTyped DEF StackInv
      <4> QED BY <3>1, <4>1, <4>2
    <3> QED BY <2>2, <2>3, <3>2, <3>3
  <2> HIDE DEF S
  <2>7. CyclicSet(index, S)
    BY <2>5, <2>6 DEF CyclicSet
  <2> QED BY <1>1, <2>4, <2>7 DEF NoFalseCycle
<1>4. CASE cycle_detected' = cycle_detected
  BY <1>1, <1>4 DEF NoFalseCycle
<1> QED BY <1>2, <1>3, <1>4 DEF WalkNext, WalkStep, Start, DescendEdge, RevisitEdge,
           RejectEdge, UntypedEdge, SkipMember, Return

----------------------------------------------------------------------------
(* Finished nodes hold no cycle *)

\* The second part of PassedFinished, for one frame.
FrameFinished(i) ==
    \A k \in 1..Len(Members(index, stack[i].node)) :
        k < stack[i].next /\ Resolves(stack[i].node, k) =>
            LET g == Members(index, stack[i].node)[k].event_hash IN
            g \in Finished \/ (i < Len(stack) /\ g = stack[i + 1].node)

\* When a node returns, its resolved targets are all finished.
LEMMA ReturnedFinished ==
    ASSUME WalkTypeOK, StackInv, PassedFinished, ~cycle_detected, Return,
           NEW g \in Hash, ResolvedEdge(index, Top.node, g)
    PROVE  g \in Finished
<1>1. /\ Top.next > Len(Members(index, Top.node))
      /\ Len(stack) \in Nat \ {0}
      /\ Top = stack[Len(stack)]
      /\ Top \in Frame
  BY PoppedFrames DEF Return, Top, WalkTypeOK
<1>2. PICK k \in 1..Len(Members(index, Top.node)) :
         Members(index, Top.node)[k].event_hash = g /\ Resolves(Top.node, k)
  BY DEF ResolvedEdge, Resolves
<1>3. k < Top.next
  <2>1. Len(Members(index, Top.node)) \in Nat
    BY <1>1, MembersType DEF WalkTypeOK, Frame
  <2> QED BY <1>1, <2>1 DEF Frame
<1>4. Len(stack) \in 1..Len(stack) /\ ~(Len(stack) < Len(stack))
  BY <1>1
<1> QED BY <1>1, <1>2, <1>3, <1>4 DEF PassedFinished

LEMMA PassedFinishedStep ==
    ASSUME WalkTypeOK, StackInv, StartInv, PassedFinished, WalkNext
    PROVE  PassedFinished'
<1>0. index' = index
  BY ReachableGrows
<1> SUFFICES ASSUME ~cycle_detected'
             PROVE  /\ \A h \in Finished' : \A g \in Hash : ResolvedEdge(index, h, g) => g \in Finished'
                    /\ \A i \in 1..Len(stack') : FrameFinished(i)'
  BY <1>0 DEF PassedFinished, FrameFinished
<1>1. CASE Start
  <2>1. Finished' = {} /\ Len(stack') = 1 /\ stack'[1].next = 1 /\ stack'[1].node = root
    BY <1>1 DEF Start, Finished, Call
  <2>2. \A k \in 1..Len(Members(index, root)) : ~(k < 1)
    BY MembersType DEF WalkTypeOK
  <2> QED BY <1>0, <2>1, <2>2 DEF FrameFinished
<1>2. CASE /\ CycleEdge \/ RevisitEdge \/ RejectEdge \/ UntypedEdge \/ SkipMember
           /\ InLoop
           /\ stack' = Advanced
           /\ UNCHANGED <<index, root, reachable, on_stack>>
  <2>1. RevisitEdge \/ RejectEdge \/ UntypedEdge \/ SkipMember
    BY <1>2 DEF CycleEdge
  <2>2. ~cycle_detected
    BY <2>1 DEF RevisitEdge, RejectEdge, UntypedEdge, SkipMember
  <2>3. Finished' = Finished
    BY <1>2 DEF Finished
  <2>4. /\ Len(stack') = Len(stack)
        /\ Len(stack) \in Nat \ {0}
        /\ \A i \in 1..Len(stack) : stack'[i].node = stack[i].node
        /\ \A i \in 1..Len(stack) : i # Len(stack) => stack'[i] = stack[i]
        /\ stack'[Len(stack)].next = Top.next + 1
        /\ Top = stack[Len(stack)]
        /\ Top.next \in Nat
    BY <1>2, AdvancedFrames DEF Frame
  <2>5. ASSUME NEW i \in 1..Len(stack)
        PROVE  FrameFinished(i)'
    <3> SUFFICES ASSUME NEW k \in 1..Len(Members(index, stack[i].node)),
                        k < stack'[i].next, Resolves(stack[i].node, k)
                 PROVE  LET g == Members(index, stack[i].node)[k].event_hash IN
                        g \in Finished \/ (i < Len(stack) /\ g = stack[i + 1].node)
      <4>1. i < Len(stack) => stack'[i + 1].node = stack[i + 1].node
        BY <2>4
      <4> QED BY <1>0, <2>3, <2>4, <4>1 DEF FrameFinished, Resolves
    <3>1. CASE k < stack[i].next
      BY <2>2, <3>1 DEF PassedFinished
    <3>2. CASE ~(k < stack[i].next)
      <4>1. i = Len(stack) /\ k = Top.next
        BY <2>4, <3>2
      <4>2. Members(index, stack[i].node)[k] = CurrentMember
        BY <2>4, <4>1 DEF CurrentMember
      <4>3. RevisitEdge
        BY <2>1, <4>2 DEF RejectEdge, UntypedEdge, SkipMember, Resolves, IsTyped
      <4> QED BY <4>2, <4>3 DEF RevisitEdge, Finished
    <3> QED BY <3>1, <3>2
  <2>6. \A h \in Finished' : \A g \in Hash : ResolvedEdge(index, h, g) => g \in Finished'
    BY <2>2, <2>3 DEF PassedFinished
  <2> QED BY <2>4, <2>5, <2>6
<1>3. CASE DescendEdge
  <2> DEFINE t == CurrentMember.event_hash
  <2>1. /\ InLoop
        /\ t \notin reachable
        /\ t \notin on_stack
        /\ reachable' = reachable \union {t}
        /\ on_stack' = on_stack \union {t}
        /\ Len(stack') = Len(stack) + 1
        /\ \A i \in 1..Len(stack) : stack'[i] = Advanced[i]
        /\ stack'[Len(stack) + 1].node = t
        /\ stack'[Len(stack) + 1].next = 1
        /\ t \in Hash
        /\ ~cycle_detected
    BY <1>3, DescendFrames
  <2>2. Finished' = Finished
    BY <2>1 DEF Finished
  <2>3. /\ Len(stack) \in Nat \ {0}
        /\ \A i \in 1..Len(stack) : stack'[i].node = stack[i].node
        /\ \A i \in 1..Len(stack) : i # Len(stack) => stack'[i] = stack[i]
        /\ stack'[Len(stack)].next = Top.next + 1
        /\ Top = stack[Len(stack)]
        /\ Top.next \in Nat
    BY <2>1, AdvancedFrames DEF Frame
  <2> HIDE DEF t
  <2>4. ASSUME NEW i \in 1..Len(stack)
        PROVE  FrameFinished(i)'
    <3> SUFFICES ASSUME NEW k \in 1..Len(Members(index, stack[i].node)),
                        k < stack'[i].next, Resolves(stack[i].node, k)
                 PROVE  LET g == Members(index, stack[i].node)[k].event_hash IN
                        g \in Finished \/ g = stack'[i + 1].node
      <4>1. i < Len(stack')
        BY <2>1, <2>3
      <4> QED BY <1>0, <2>2, <2>3, <4>1 DEF FrameFinished, Resolves
    <3>1. CASE k < stack[i].next
      <4>1. LET g == Members(index, stack[i].node)[k].event_hash IN
            g \in Finished \/ (i < Len(stack) /\ g = stack[i + 1].node)
        BY <2>1, <3>1 DEF PassedFinished
      <4>2. i < Len(stack) => stack'[i + 1].node = stack[i + 1].node
        BY <2>3
      <4> QED BY <4>1, <4>2
    <3>2. CASE ~(k < stack[i].next)
      <4>1. i = Len(stack) /\ k = Top.next
        BY <2>3, <3>2
      <4>2. Members(index, stack[i].node)[k] = CurrentMember
        BY <2>3, <4>1 DEF CurrentMember
      <4> QED BY <2>1, <4>1, <4>2 DEF t
    <3> QED BY <3>1, <3>2
  <2>5. ASSUME NEW i \in 1..Len(stack'), i = Len(stack) + 1
        PROVE  FrameFinished(i)'
    <3>1. \A k \in 1..Len(Members(index, t)) : ~(k < 1)
      BY <2>1, MembersType DEF WalkTypeOK
    <3> QED BY <1>0, <2>1, <2>5, <3>1 DEF FrameFinished
  <2>6. \A i \in 1..Len(stack') : i \in 1..Len(stack) \/ i = Len(stack) + 1
    BY <2>1, <2>3
  <2>7. \A h \in Finished' : \A g \in Hash : ResolvedEdge(index, h, g) => g \in Finished'
    BY <2>1, <2>2 DEF PassedFinished
  <2> QED BY <2>4, <2>5, <2>6, <2>7
<1>4. CASE Return
  <2>1. /\ ~cycle_detected
        /\ on_stack' = on_stack \ {Top.node}
        /\ reachable' = reachable
        /\ Len(stack) \in Nat \ {0}
        /\ Len(stack') = Len(stack) - 1
        /\ \A i \in 1..(Len(stack) - 1) : stack'[i] = stack[i]
        /\ Top = stack[Len(stack)]
    BY <1>4, PoppedFrames DEF Return, Top
  <2>2. Finished' = Finished \union {Top.node}
    <3>1. Top.node \in reachable
      BY <2>1 DEF StackInv
    <3> QED BY <2>1, <3>1 DEF Finished
  <2>3. \A h \in Finished' : \A g \in Hash : ResolvedEdge(index, h, g) => g \in Finished'
    BY <1>4, <2>1, <2>2, ReturnedFinished DEF PassedFinished
  <2>4. ASSUME NEW i \in 1..Len(stack')
        PROVE  FrameFinished(i)'
    <3>0. i \in 1..Len(stack) /\ i < Len(stack) /\ stack'[i] = stack[i]
      BY <2>1
    <3> SUFFICES ASSUME NEW k \in 1..Len(Members(index, stack[i].node)),
                        k < stack[i].next, Resolves(stack[i].node, k)
                 PROVE  LET g == Members(index, stack[i].node)[k].event_hash IN
                        g \in Finished' \/ (i < Len(stack') /\ g = stack'[i + 1].node)
      BY <1>0, <3>0 DEF FrameFinished, Resolves
    <3>1. LET g == Members(index, stack[i].node)[k].event_hash IN
          g \in Finished \/ g = stack[i + 1].node
      BY <2>1, <3>0 DEF PassedFinished
    <3>2. CASE i + 1 = Len(stack)
      BY <2>1, <2>2, <3>1, <3>2
    <3>3. CASE i + 1 # Len(stack)
      <4>1. i < Len(stack') /\ stack'[i + 1] = stack[i + 1]
        BY <2>1, <3>0, <3>3
      <4> QED BY <2>2, <3>1, <4>1
    <3> QED BY <3>2, <3>3
  <2> QED BY <2>3, <2>4
<1> QED BY <1>1, <1>2, <1>3, <1>4, StepShapes

LEMMA FinishedAcyclicStep ==
    ASSUME WalkTypeOK, StackInv, StartInv, PassedFinished, FinishedAcyclic, WalkNext
    PROVE  FinishedAcyclic'
<1>0. index' = index
  BY ReachableGrows
<1>1. CASE cycle_detected'
  BY <1>1 DEF FinishedAcyclic
<1>2. CASE ~cycle_detected' /\ Finished' = Finished /\ ~cycle_detected
  BY <1>0, <1>2 DEF FinishedAcyclic
<1>3. CASE ~cycle_detected' /\ Return
  <2>1. ~cycle_detected /\ on_stack' = on_stack \ {Top.node} /\ reachable' = reachable
    BY <1>3 DEF Return
  <2>2. Top.node \in reachable /\ Top.node \in on_stack /\ Top.node \in Hash
    <3>1. Len(stack) \in 1..Len(stack)
      BY <1>3, PoppedFrames DEF Return
    <3> QED BY <3>1 DEF Top, StackInv, WalkTypeOK, Frame
  <2>3. Finished' = Finished \union {Top.node} /\ Top.node \notin Finished
    BY <2>1, <2>2 DEF Finished
  <2>4. \A h \in Finished : \A g \in Hash : ResolvedEdge(index, h, g) => g \in Finished
    BY <2>1 DEF PassedFinished
  <2>5. \A g \in Hash : ResolvedEdge(index, Top.node, g) => g \in Finished
    BY <1>3, <2>1, ReturnedFinished
  <2> SUFFICES ASSUME NEW S \in SUBSET Finished', ResolvedCyclicSet(index, S)
               PROVE  FALSE
    BY <1>0 DEF FinishedAcyclic
  <2>6. S \subseteq Hash
    BY <2>1 DEF Finished, WalkTypeOK
  <2>7. \A h \in S : \E g \in S \ {Top.node} : ResolvedEdge(index, h, g)
    BY <2>3, <2>4, <2>5, <2>6 DEF ResolvedCyclicSet
  <2>8. ResolvedCyclicSet(index, S \ {Top.node})
    BY <2>7 DEF ResolvedCyclicSet
  <2> QED BY <2>1, <2>3, <2>8 DEF FinishedAcyclic
<1>4. \/ cycle_detected'
      \/ ~cycle_detected' /\ Return
      \/ ~cycle_detected' /\ Finished' = Finished /\ ~cycle_detected
  <2>1. CASE Start
    BY <2>1 DEF Start, Finished, StartInv
  <2>2. CASE CycleEdge
    BY <2>2 DEF CycleEdge
  <2>3. CASE RevisitEdge \/ RejectEdge \/ UntypedEdge \/ SkipMember
    BY <2>3 DEF RevisitEdge, RejectEdge, UntypedEdge, SkipMember, Finished
  <2>4. CASE DescendEdge
    BY <2>4, DescendFrames DEF Finished
  <2>5. CASE Return
    BY <2>5
  <2> QED BY <2>1, <2>2, <2>3, <2>4, <2>5 DEF WalkNext, WalkStep
<1> QED BY <1>1, <1>2, <1>3, <1>4

----------------------------------------------------------------------------
(* The theorems *)

LEMMA StartInvStep ==
    ASSUME WalkTypeOK, StackInv, StartInv, WalkNext
    PROVE  StartInv'
<1>1. CASE Start
  BY <1>1 DEF Start, StartInv
<1>2. CASE WalkStep
  <2>1. stack # <<>>
    BY <1>2 DEF WalkStep, CycleEdge, DescendEdge, RevisitEdge, RejectEdge, UntypedEdge,
                SkipMember, Return, InLoop
  <2>2. root \in reachable
    BY <2>1 DEF StartInv
  <2> QED BY <2>2, ReachableGrows DEF StartInv
<1> QED BY <1>1, <1>2 DEF WalkNext

\* WalkInv holds before the outermost call.
LEMMA WalkInvInit == WalkInit => WalkInv
<1> SUFFICES ASSUME WalkInit PROVE WalkInv
  OBVIOUS
<1>1. Len(stack) = 0 /\ 1..Len(stack) = {}
  BY DEF WalkInit
<1>2. WalkTypeOK
  <2>1. stack \in Seq(Frame) /\ edge_checks \in Seq(EdgeCheck)
    BY DEF WalkInit
  <2>2. cycle_detected \in BOOLEAN
    BY Zenon DEF WalkInit
  <2> QED BY <2>1, <2>2 DEF WalkInit, WalkTypeOK
<1>3. StackInv /\ StartInv
  BY <1>1 DEF WalkInit, StackInv, StartInv
<1>4. PassedReachable /\ ReachableMinimal /\ PassedChecked
  BY DEF WalkInit, PassedReachable, ReachableMinimal, PassedChecked, Passed
<1>8. PassedCounted
  <2> SUFFICES ASSUME NEW c \in EdgeCheck
               PROVE  RecordedAs(PassedMembers, c) = {} /\ ChecksEqual(c) = {}
    BY FS_EmptySet DEF PassedCounted
  <2>1. DependencyMembers(reachable) = {}
    BY DEF WalkInit, DependencyMembers
  <2> QED BY <2>1 DEF WalkInit, RecordedAs, PassedMembers, ChecksEqual
<1>5. PassedFinished
  BY <1>1 DEF WalkInit, PassedFinished, Finished
<1>6. FinishedAcyclic
  BY DEF WalkInit, FinishedAcyclic, Finished, ResolvedCyclicSet
<1>7. NoFalseCycle
  BY DEF WalkInit, NoFalseCycle
<1> QED BY <1>2, <1>3, <1>4, <1>5, <1>6, <1>7, <1>8 DEF WalkInv

\* Every step of the walk preserves WalkInv.
LEMMA WalkInvStep == WalkInv /\ [WalkNext]_walkVars => WalkInv'
<1>1. ASSUME WalkInv, WalkNext PROVE WalkInv'
  BY <1>1, StackStep, StartInvStep, PassedReachableStep, ReachableMinimalStep,
     PassedCheckedStep, PassedCountedStep, PassedFinishedStep, FinishedAcyclicStep, NoFalseCycleStep
     DEF WalkInv
<1>2. ASSUME WalkInv, UNCHANGED walkVars PROVE WalkInv'
  <2> USE <1>2 DEF walkVars, WalkInv
  <2>1. WalkTypeOK'
    BY DEF WalkTypeOK
  <2>2. StackInv' /\ StartInv'
    BY DEF StackInv, StartInv
  <2>3. PassedReachable'
    BY DEF PassedReachable, Passed, Resolves
  <2>4. ReachableMinimal'
    BY DEF ReachableMinimal
  <2>5. PassedChecked'
    BY DEF PassedChecked, Passed
  <2>9. PassedCounted'
    <3>1. PassedMembers' = PassedMembers
      BY DEF PassedMembers, DependencyMembers, Passed
    <3>2. \A c : RecordedAs(PassedMembers, c)' = RecordedAs(PassedMembers, c)
      BY <3>1 DEF RecordedAs
    <3>3. \A c : ChecksEqual(c)' = ChecksEqual(c)
      BY DEF ChecksEqual
    <3> QED BY <3>2, <3>3 DEF PassedCounted
  <2>6. PassedFinished'
    BY DEF PassedFinished, Finished, Resolves
  <2>7. FinishedAcyclic'
    BY DEF FinishedAcyclic, Finished
  <2>8. NoFalseCycle'
    BY DEF NoFalseCycle
  <2> QED BY <2>1, <2>2, <2>3, <2>4, <2>5, <2>6, <2>7, <2>8, <2>9
<1> QED BY <1>1, <1>2

\* On every index, the walk keeps its types and WalkInv, the nesting of its
\* calls and the meaning of what its loops have passed.
THEOREM WalkInvariant == WalkSpec => []WalkInv
BY WalkInvInit, WalkInvStep, PTL DEF WalkSpec

\* What WalkInv says once the outermost call has returned.
LEMMA WalkInvResults ==
    WalkInv =>
        /\ ReachableIsLeastClosure
        /\ NoCycleMissed
        /\ NoFalseCycle
        /\ EveryEdgeChecked
        /\ OneCheckPerMember
<1> SUFFICES ASSUME WalkInv
             PROVE  /\ ReachableIsLeastClosure
                    /\ NoCycleMissed
                    /\ NoFalseCycle
                    /\ EveryEdgeChecked
                    /\ OneCheckPerMember
  OBVIOUS
<1>1. NoFalseCycle
  BY DEF WalkInv
<1>2. ASSUME WalkDone
      PROVE  /\ Len(stack) = 0
             /\ 1..Len(stack) = {}
             /\ on_stack = {}
             /\ Finished = reachable
             /\ root \in reachable
             /\ reachable \subseteq Hash
  <2>1. Len(stack) = 0 /\ 1..Len(stack) = {}
    BY <1>2 DEF WalkDone
  <2>2. on_stack = {}
    BY <2>1 DEF WalkInv, StackInv
  <2> QED BY <1>2, <2>1, <2>2 DEF WalkDone, WalkInv, Finished, StartInv, WalkTypeOK
<1>3. ASSUME WalkDone, NEW h \in reachable, NEW k
      PROVE  Passed(h, k)
  BY <1>2, <1>3 DEF Passed
<1>4. ReachableIsLeastClosure
  <2> SUFFICES ASSUME WalkDone
               PROVE  /\ root \in reachable
                      /\ Closed(index, reachable)
                      /\ ReachableMinimal
    BY DEF ReachableIsLeastClosure, ReachableMinimal
  <2>1. Closed(index, reachable)
    <3> SUFFICES ASSUME NEW h \in reachable, NEW g \in Hash, ResolvedEdge(index, h, g)
                 PROVE  g \in reachable
      BY DEF Closed
    <3>1. PICK k \in 1..Len(Members(index, h)) :
             Members(index, h)[k].event_hash = g /\ Resolves(h, k)
      BY DEF ResolvedEdge, Resolves
    <3>2. Passed(h, k) /\ h \in Hash
      BY <1>2, <1>3
    <3> QED BY <3>1, <3>2 DEF WalkInv, PassedReachable
  <2> QED BY <1>2, <2>1 DEF WalkInv
<1>5. NoCycleMissed
  BY <1>2 DEF NoCycleMissed, WalkInv, FinishedAcyclic
<1>6. EveryEdgeChecked
  <2> SUFFICES ASSUME WalkDone, NEW h \in reachable, NEW k \in 1..Len(Members(index, h)),
                      IsDependency(Members(index, h)[k])
               PROVE  \E j \in 1..Len(edge_checks) :
                         edge_checks[j] = CheckOf(index, Members(index, h)[k])
    BY DEF EveryEdgeChecked
  <2>1. Passed(h, k) /\ h \in Hash
    BY <1>2, <1>3
  <2> QED BY <2>1 DEF WalkInv, PassedChecked
<1>7. OneCheckPerMember
  <2> SUFFICES ASSUME WalkDone, NEW c \in EdgeCheck
               PROVE  Cardinality(ChecksEqual(c)) =
                         Cardinality(RecordedAs(DependencyMembers(reachable), c))
    BY DEF OneCheckPerMember
  <2>1. PassedMembers = DependencyMembers(reachable)
    <3>1. \A p \in DependencyMembers(reachable) : p[1] \in reachable
      BY DEF DependencyMembers
    <3> QED BY <1>3, <3>1 DEF PassedMembers
  <2> QED BY <2>1 DEF WalkInv, PassedCounted
<1> QED BY <1>1, <1>4, <1>5, <1>6, <1>7

\* When the walk returns, reachable is the least closure of the root, on every
\* index: the completeness check of the bundle compares the right set.
THEOREM WalkComputesLeastClosure == WalkSpec => []ReachableIsLeastClosure
BY WalkInvariant, WalkInvResults, PTL

\* The walk misses no cycle of resolved edges.
THEOREM WalkDecidesCycles == WalkSpec => []NoCycleMissed
BY WalkInvariant, WalkInvResults, PTL

\* The walk reports no cycle where the typed edges form none.
THEOREM WalkFlagsNoFalseCycle == WalkSpec => []NoFalseCycle
BY WalkInvariant, WalkInvResults, PTL

\* When the walk returns, every dependency member of the closure was checked.
THEOREM WalkChecksEveryEdge == WalkSpec => []EveryEdgeChecked
BY WalkInvariant, WalkInvResults, PTL

\* When the walk returns, every dependency member of the closure was reported once,
\* however many paths led to its receipt.
THEOREM WalkReportsOnce == WalkSpec => []OneCheckPerMember
BY WalkInvariant, WalkInvResults, PTL

----------------------------------------------------------------------------
(* Depth and termination *)

\* The receipts a walk can reach are finitely many.
LEMMA ReachedBounded ==
    WalkInv =>
        /\ IsFiniteSet(DOMAIN index \union {root})
        /\ reachable \subseteq DOMAIN index \union {root}
        /\ IsFiniteSet(Unreached)
        /\ Cardinality(Unreached) \in Nat
<1> SUFFICES ASSUME WalkInv
             PROVE  /\ IsFiniteSet(DOMAIN index \union {root})
                    /\ reachable \subseteq DOMAIN index \union {root}
                    /\ IsFiniteSet(Unreached)
                    /\ Cardinality(Unreached) \in Nat
  OBVIOUS
<1> DEFINE T == DOMAIN index \union {root}
<1>1. IsFiniteSet(T)
  BY FS_AddElement DEF WalkInv, WalkTypeOK, IsIndex
<1>2. T \subseteq Hash /\ root \in T
  BY DEF WalkInv, WalkTypeOK, IsIndex
<1>3. Closed(index, T)
  BY ResolvedTarget DEF Closed
<1>4. reachable \subseteq T
  BY <1>2, <1>3 DEF WalkInv, ReachableMinimal
<1>5. IsFiniteSet(Unreached) /\ Cardinality(Unreached) \in Nat
  BY <1>1, FS_Subset, FS_CardinalityType DEF Unreached
<1> QED BY <1>1, <1>4, <1>5

\* The numbers from 1 to n are n.
LEMMA IntervalSize ==
    ASSUME NEW n \in Nat
    PROVE  IsFiniteSet(1..n) /\ Cardinality(1..n) = n
<1>1. 1 \in Int /\ n \in Int
  OBVIOUS
<1>2. IsFiniteSet(1..n) /\ Cardinality(1..n) = IF 1 > n THEN 0 ELSE n - 1 + 1
  BY <1>1, FS_Interval, Zenon
<1>3. (IF 1 > n THEN 0 ELSE n - 1 + 1) = n
  OBVIOUS
<1> QED BY <1>2, <1>3

\* Active calls have nodes of their own, so there are at most as many as receipts.
LEMMA DepthBound == WalkInv => DepthIsBounded
<1> SUFFICES ASSUME WalkInv
             PROVE  DepthIsBounded
  OBVIOUS
<1> DEFINE T == DOMAIN index \union {root}
           D == 1..Len(stack)
           f == [i \in D |-> stack[i].node]
<1>1. Len(stack) \in Nat
  BY DEF WalkInv, WalkTypeOK
<1>2. IsFiniteSet(D) /\ Cardinality(D) = Len(stack)
  BY <1>1, IntervalSize
<1>3. f \in [D -> T]
  BY ReachedBounded DEF WalkInv, StackInv
<1>4. f \in Injection(D, T)
  BY <1>3 DEF WalkInv, StackInv, Injection, IsInjective
<1>5. IsFiniteSet(T)
  BY ReachedBounded
<1>6. Cardinality(D) <= Cardinality(T)
  <2> HIDE DEF D, T, f
  <2> QED BY <1>2, <1>4, <1>5, FS_Injection
<1> QED BY <1>2, <1>6 DEF DepthIsBounded

\* What is left of a walk is a triple of natural numbers.
LEMMA LeftType == WalkInv => Left \in Nat \X Nat \X Nat
<1> SUFFICES ASSUME WalkInv
             PROVE  Left \in Nat \X Nat \X Nat
  OBVIOUS
<1>1. Cardinality(Unreached) \in Nat
  BY ReachedBounded
<1>2. Len(stack) \in Nat
  BY DEF WalkInv, WalkTypeOK
<1>3. LoopLeft \in Nat
  <2>1. CASE stack = <<>>
    BY <2>1 DEF LoopLeft
  <2>2. CASE stack # <<>>
    <3>1. Len(stack) \in 1..Len(stack) /\ Top = stack[Len(stack)] /\ Top \in Frame
      BY <2>2 DEF WalkInv, WalkTypeOK, Top
    <3>2. Len(Members(index, Top.node)) \in Nat /\ Top.next \in Nat
      BY <3>1, MembersType DEF WalkInv, WalkTypeOK, Frame
    <3>3. Top.next <= Len(Members(index, Top.node)) + 1
      BY <3>1 DEF WalkInv, StackInv
    <3> QED BY <2>2, <3>2, <3>3 DEF LoopLeft
  <2> QED BY <2>1, <2>2
<1> QED BY <1>1, <1>2, <1>3 DEF Left

\* The same facts of the state a step leads to.
LEMMA NextLeft ==
    WalkInv' => (reachable \subseteq DOMAIN index \union {root} /\ Left \in Nat \X Nat \X Nat)'
<1>1. WalkInv => reachable \subseteq DOMAIN index \union {root} /\ Left \in Nat \X Nat \X Nat
  BY ReachedBounded, LeftType
<1> QED BY <1>1, PTL

\* Reaching a receipt leaves fewer to reach.
LEMMA UnreachedShrinks ==
    ASSUME WalkInv, WalkInv', UNCHANGED <<index, root>>,
           NEW g, g \notin reachable, reachable' = reachable \union {g}
    PROVE  Cardinality(Unreached') < Cardinality(Unreached)
<1>1. g \in Unreached
  <2>1. reachable' \subseteq DOMAIN index' \union {root'}
    BY NextLeft
  <2> QED BY <2>1 DEF Unreached
<1>2. Unreached' = Unreached \ {g}
  BY DEF Unreached
<1>3. Cardinality(Unreached') = Cardinality(Unreached) - 1 /\ Cardinality(Unreached) \in Nat
  BY <1>1, <1>2, ReachedBounded, FS_RemoveElement
<1> QED BY <1>3

LEMMA DescentStep ==
    ASSUME WalkInv, WalkInv', WalkNext
    PROVE  Before(Left', Left)
<1>1. Left \in Nat \X Nat \X Nat /\ Left' \in Nat \X Nat \X Nat
  BY LeftType, NextLeft
<1>2. WalkTypeOK /\ StackInv /\ StartInv
  BY DEF WalkInv
<1>3. CASE Start
  <2>1. Cardinality(Unreached') < Cardinality(Unreached)
    BY <1>3, UnreachedShrinks DEF Start
  <2> QED BY <1>1, <2>1 DEF Before, Left
<1>4. CASE /\ InLoop
           /\ stack' = Advanced
           /\ UNCHANGED <<index, root, reachable, on_stack>>
  <2>1. Unreached' = Unreached
    BY <1>4 DEF Unreached
  <2>2. Len(stack) \in Nat \ {0} /\ Len(stack') = Len(stack)
    BY <1>2, <1>4, AdvancedFrames
  <2>3. Top'.node = Top.node /\ Top'.next = Top.next + 1
    BY <1>2, <1>4, <2>2, AdvancedFrames DEF Top
  <2>4. Top.next \in Nat /\ Len(Members(index, Top.node)) \in Nat
    BY <1>2, <1>4, AdvancedFrames, MembersType DEF WalkTypeOK, Frame
  <2>5. LoopLeft' = LoopLeft - 1 /\ LoopLeft \in Int
    BY <1>4, <2>2, <2>3, <2>4 DEF LoopLeft
  <2> QED BY <1>1, <2>1, <2>2, <2>5 DEF Before, Left
<1>5. CASE DescendEdge
  <2>1. /\ CurrentMember.event_hash \notin reachable
        /\ reachable' = reachable \union {CurrentMember.event_hash}
        /\ UNCHANGED <<index, root>>
    BY <1>2, <1>5, DescendFrames
  <2>2. Cardinality(Unreached') < Cardinality(Unreached)
    BY <2>1, UnreachedShrinks
  <2> QED BY <1>1, <2>2 DEF Before, Left
<1>6. CASE Return
  <2>1. Unreached' = Unreached
    BY <1>6 DEF Return, Unreached
  <2>2. Len(stack) \in Nat /\ Len(stack') = Len(stack) - 1
    BY <1>2, <1>6, PoppedFrames DEF Return
  <2> QED BY <1>1, <2>1, <2>2 DEF Before, Left
<1> QED BY <1>2, <1>3, <1>4, <1>5, <1>6, StepShapes

\* A set of numbers that is not empty has a least one.
LEMMA LeastNumber ==
    ASSUME NEW T \in SUBSET Nat, T # {}
    PROVE  \E x \in T : \A y \in T : x <= y
<1> DEFINE less == OpToRel(<, Nat)
<1>1. IsWellFoundedOn(less, Nat)
  BY NatLessThanWellFounded
<1>2. \A a, b \in Nat : a < b => <<a, b>> \in less
  BY DEF OpToRel
<1> HIDE DEF less
<1>3. PICK x \in T : \A y \in T : ~(<<y, x>> \in less)
  BY WFMin, <1>1
<1>4. \A y \in T : ~(y < x)
  BY <1>2, <1>3
<1> QED BY <1>4

\* A set of triples that is not empty has one that no other comes before.
LEMMA LeastTriple ==
    ASSUME NEW T \in SUBSET (Nat \X Nat \X Nat), T # {}
    PROVE  \E t \in T : \A u \in T : ~Before(u, t)
<1> DEFINE A == {t[1] : t \in T}
<1>1. PICK a \in A : \A y \in A : a <= y
  <2>1. A \in SUBSET Nat /\ A # {}
    OBVIOUS
  <2> HIDE DEF A
  <2> QED BY <2>1, LeastNumber
<1> DEFINE B == {t[2] : t \in {u \in T : u[1] = a}}
<1>2. PICK b \in B : \A y \in B : b <= y
  <2>1. B \in SUBSET Nat /\ B # {}
    OBVIOUS
  <2> HIDE DEF B
  <2> QED BY <2>1, LeastNumber
<1> DEFINE C == {t[3] : t \in {u \in T : u[1] = a /\ u[2] = b}}
<1>3. PICK c \in C : \A y \in C : c <= y
  <2>1. C \in SUBSET Nat /\ C # {}
    OBVIOUS
  <2> HIDE DEF C
  <2> QED BY <2>1, LeastNumber
<1>4. PICK t \in T : t[1] = a /\ t[2] = b /\ t[3] = c
  OBVIOUS
<1>5. ASSUME NEW u \in T, Before(u, t)
      PROVE  FALSE
  <2>1. u \in Nat \X Nat \X Nat /\ a \in Nat /\ b \in Nat /\ c \in Nat
    BY <1>4
  <2>2. a <= u[1]
    BY <1>1
  <2>3. u[1] = a => b <= u[2]
    BY <1>2
  <2>4. u[1] = a /\ u[2] = b => c <= u[3]
    BY <1>3
  <2> HIDE DEF A, B, C
  <2> QED BY <1>4, <1>5, <2>1, <2>2, <2>3, <2>4 DEF Before
<1> QED BY <1>5

\* The order the walk descends in has no endless descent, so what EveryStepDescends
\* says of single steps says of the walk that it ends.
THEOREM NoEndlessDescent ==
    \A f \in [Nat -> Nat \X Nat \X Nat] : ~\A n \in Nat : Before(f[n + 1], f[n])
<1> SUFFICES ASSUME NEW f \in [Nat -> Nat \X Nat \X Nat],
                    \A n \in Nat : Before(f[n + 1], f[n])
             PROVE  FALSE
  OBVIOUS
<1> DEFINE T == {f[n] : n \in Nat}
<1>1. T \in SUBSET (Nat \X Nat \X Nat) /\ T # {}
  BY 0 \in Nat
<1>2. PICK t \in T : \A u \in T : ~Before(u, t)
  <2> HIDE DEF T
  <2> QED BY <1>1, LeastTriple
<1>3. PICK n \in Nat : t = f[n]
  OBVIOUS
<1>4. n + 1 \in Nat /\ f[n + 1] \in T
  OBVIOUS
<1> QED BY <1>2, <1>3, <1>4

\* The recursion of the walk is never deeper than there are receipts, on every
\* index.
THEOREM WalkDepthIsBounded == WalkSpec => []DepthIsBounded
BY WalkInvariant, DepthBound, PTL

\* Every step of the walk brings its end nearer in a well-founded order, on every
\* index, the cyclic ones included: the walk ends.
THEOREM WalkDescends == WalkSpec => EveryStepDescends
<1>1. WalkInv /\ WalkInv' /\ [WalkNext]_walkVars => [Before(Left', Left)]_walkVars
  BY DescentStep
<1> QED BY <1>1, WalkInvariant, PTL DEF WalkSpec, EveryStepDescends

----------------------------------------------------------------------------
(* The bundle verifier: the index *)

\* Indexing a receipt keeps the index well typed.
LEMMA InsertNodeType ==
    ASSUME NEW idx, IsIndex(idx), NEW r \in Receipt
    PROVE  IsIndex(insert_node(idx, r))
<1>1. CASE r.event_hash = NoHash
  BY <1>1 DEF insert_node
<1>2. CASE r.event_hash # NoHash
  <2>1. ReadNode(r) \in Node
    <3>1. r.support_set # Malformed => r.support_set \in Seq(Member)
      BY DEF Receipt
    <3>2. <<>> \in Seq(Member)
      OBVIOUS
    <3> QED BY <3>1, <3>2 DEF ReadNode, Node, Receipt
  <2>2. r.event_hash \in Hash
    BY <1>2 DEF Receipt
  <2>3. IsFiniteSet(DOMAIN idx \union {r.event_hash})
    BY FS_AddElement DEF IsIndex
  <2> QED BY <1>2, <2>1, <2>2, <2>3 DEF insert_node, IsIndex
<1> QED BY <1>1, <1>2

\* The strings of a well-typed bundle are receipts.
LEMMA BundleType ==
    ASSUME bundle \in ClosureBundleInput
    PROVE  /\ bundle.root_canonical \in Receipt
           /\ bundle.receipts \in Seq(Receipt)
           /\ bundle.manifest \in Manifest
BY DEF ClosureBundleInput

\* Once the walk is done without a bad edge, every dependency of the closure
\* resolved.
LEMMA ResolvedClosure ==
    ASSUME WalkInv, WalkDone,
           \A j \in 1..Len(edge_checks) : edge_checks[j].status = "Resolved",
           NEW h \in reachable, NEW k \in 1..Len(Members(index, h)),
           IsDependency(Members(index, h)[k])
    PROVE  IsTyped(Members(index, h)[k]) /\ classify_edge(index, Members(index, h)[k]) = "Resolved"
<1> DEFINE m == Members(index, h)[k]
<1>1. PICK j \in 1..Len(edge_checks) : edge_checks[j] = CheckOf(index, m)
  BY WalkInvResults DEF EveryEdgeChecked
<1>2. CheckOf(index, m).status = "Resolved"
  BY <1>1
<1> QED BY <1>2 DEF CheckOf

\* Where every dependency resolved, typed edges are resolved edges.
LEMMA TypedIsResolved ==
    ASSUME NEW h,
           \A k \in 1..Len(Members(index, h)) :
              IsDependency(Members(index, h)[k]) =>
                 classify_edge(index, Members(index, h)[k]) = "Resolved",
           NEW g, TypedEdge(index, h, g)
    PROVE  ResolvedEdge(index, h, g)
BY DEF TypedEdge, ResolvedEdge, IsTyped, IsDependency

\* The last check gives VALID only to a closed, resolved and acyclic bundle.
LEMMA ValidStep ==
    ASSUME BundleInv, CheckCompleteness
    PROVE  ValidMeansClosed'
<1> SUFFICES ASSUME status' = "Valid"
             PROVE  ValidMeansClosed'
  BY DEF ValidMeansClosed
<1>1. /\ phase = "complete"
      /\ bundle.root_canonical.verifies
      /\ manifest_digest_ok
      /\ Committed(bundle.manifest) = Dependencies
      /\ ~cycle_detected
      /\ errors = {}
      /\ UNCHANGED <<bundle, walkVars>>
  BY DEF CheckCompleteness
<1>2. /\ RootHashReadable
      /\ WalkDone
      /\ \A j \in 1..Len(edge_checks) : edge_checks[j].status = "Resolved"
      /\ WalkInv
      /\ bundle.root_canonical.payload_kind = PackKind
      /\ ManifestSound(bundle.manifest, bundle.root_canonical.closure_manifest_digest)
  BY <1>1 DEF BundleInv, WalkCollected, RootChecked, ManifestChecked
<1>3. Committed(bundle.manifest) = reachable \ {root}
  BY <1>1, <1>2 DEF Dependencies
<1>4. ReachableIsLeastClosure /\ NoCycleMissed
  BY <1>2, WalkInvResults
<1>5. \A h \in reachable : \A k \in 1..Len(Members(index, h)) :
         LET m == Members(index, h)[k] IN
         IsDependency(m) => IsTyped(m) /\ classify_edge(index, m) = "Resolved"
  BY <1>2, ResolvedClosure
<1>6. \A S \in SUBSET reachable : ~CyclicSet(index, S)
  <2> SUFFICES ASSUME NEW S \in SUBSET reachable, CyclicSet(index, S)
               PROVE  FALSE
    OBVIOUS
  <2>1. ASSUME NEW h \in S, NEW g \in S, TypedEdge(index, h, g)
        PROVE  ResolvedEdge(index, h, g)
    BY <1>5, <2>1, TypedIsResolved
  <2>2. ResolvedCyclicSet(index, S)
    BY <2>1 DEF CyclicSet, ResolvedCyclicSet
  <2> QED BY <1>1, <1>2, <1>4, <2>2 DEF NoCycleMissed
<1>7. UNCHANGED <<bundle, index, root, stack, reachable>>
  BY <1>1 DEF walkVars
<1> QED BY <1>1, <1>2, <1>3, <1>4, <1>5, <1>6, <1>7
        DEF ValidMeansClosed, ReachableIsLeastClosure, WalkDone

----------------------------------------------------------------------------
(* The invariant *)

LEMMA BundleInvInit == Init => BundleInv
<1> SUFFICES ASSUME Init PROVE BundleInv
  OBVIOUS
<1>1. WalkInit
  <2>1. IsIndex(index)
    BY FS_EmptySet DEF Init, IsIndex
  <2>2. root \in Hash
    BY HashAssumption DEF Init
  <2> QED BY <2>1, <2>2 DEF Init, WalkInit
<1>2. WalkInv
  BY <1>1, WalkInvInit
<1>3. TypeOK
  <2>1. Len(bundle.receipts) \in Nat
    BY BundleType DEF Init
  <2>2. manifest_digest_ok \in BOOLEAN /\ closure_complete \in BOOLEAN
    BY Zenon DEF Init
  <2> QED BY <1>2, <2>1, <2>2 DEF Init, TypeOK, WalkInv
<1> QED BY <1>1, <1>2, <1>3
        DEF Init, BundleInv, WalkUntouched, RootChecked, ManifestChecked, WalkCollected,
            ValidMeansClosed

\* A step that leaves the walk alone, or starts it afresh on an index.
LEMMA WalkInitGivesInv == WalkInit' => WalkInv'
BY WalkInvInit, PTL

\* Every step keeps the types and the invariant of the walk.
LEMMA TypeStep ==
    ASSUME BundleInv, [Next]_vars
    PROVE  TypeOK' /\ WalkInv'
<1> USE DEF BundleInv
<1>0. /\ bundle \in ClosureBundleInput
      /\ position \in 0..Len(bundle.receipts)
      /\ manifest_digest_ok \in BOOLEAN
      /\ closure_complete \in BOOLEAN
      /\ Len(bundle.receipts) \in Nat
  BY BundleType DEF TypeOK
<1>1. CASE IndexRoot
  <2>1. WalkInit
    BY <1>1 DEF IndexRoot, WalkUntouched
  <2>2. IsIndex(index')
    BY <1>0, <1>1, <2>1, BundleType, InsertNodeType DEF IndexRoot, WalkInit
  <2>3. WalkInit'
    BY <1>1, <2>1, <2>2 DEF IndexRoot, WalkInit
  <2>4. WalkInv'
    BY <2>3, WalkInitGivesInv
  <2> QED BY <1>0, <1>1, <2>4 DEF IndexRoot, TypeOK, WalkInv
<1>2. CASE IndexReceipt
  <2>1. WalkInit
    BY <1>2 DEF IndexReceipt, WalkUntouched
  <2>2. IsIndex(index')
    <3>1. position + 1 \in 1..Len(bundle.receipts)
      BY <1>0, <1>2 DEF IndexReceipt
    <3>2. bundle.receipts[position + 1] \in Receipt
      BY <1>0, <3>1, BundleType
    <3>3. IsIndex(insert_node(index, bundle.receipts[position + 1]))
      BY <2>1, <3>2, InsertNodeType DEF WalkInit
    <3> QED BY <1>2, <2>1, <3>3 DEF IndexReceipt, WalkInit
  <2>3. WalkInit'
    BY <1>2, <2>1, <2>2 DEF IndexReceipt, WalkInit
  <2>4. WalkInv'
    BY <2>3, WalkInitGivesInv
  <2>5. position' \in 0..Len(bundle'.receipts)
    BY <1>0, <1>2 DEF IndexReceipt
  <2> QED BY <1>0, <1>2, <2>4, <2>5 DEF IndexReceipt, TypeOK, WalkInv
<1>3. CASE StartWalk
  <2>1. [WalkNext]_walkVars
    BY <1>3 DEF StartWalk, WalkNext
  <2>2. WalkInv'
    BY <2>1, WalkInvStep
  <2> QED BY <1>0, <1>3, <2>2 DEF StartWalk, TypeOK, WalkInv
<1>4. CASE Walk
  <2>1. WalkInv'
    BY <1>4, WalkInvStep DEF Walk, WalkNext
  <2> QED BY <1>0, <1>4, <2>1 DEF Walk, TypeOK, WalkInv, bundleVars
<1>5. ASSUME UNCHANGED walkVars PROVE WalkInv'
  BY <1>5, WalkInvStep
<1>6. CASE ParseBundle \/ VerifyRoot \/ CollectWalk
  <2>1. /\ UNCHANGED <<bundle, position, manifest_digest_ok, closure_complete, walkVars>>
        /\ phase' \in {"root", "manifest", "complete", "done"}
        /\ status' = status \/ status' = "Invalid"
    BY <1>6 DEF ParseBundle, VerifyRoot, CollectWalk, ReturnInvalid
  <2> QED BY <1>0, <1>5, <2>1 DEF TypeOK, WalkInv
<1>7. CASE check_manifest_digest
  <2>1. UNCHANGED <<bundle, position, closure_complete, status, walkVars>> /\ phase' = "index_root"
    BY <1>7 DEF check_manifest_digest
  <2>2. manifest_digest_ok' \in BOOLEAN
    BY <1>7, Zenon DEF check_manifest_digest
  <2> QED BY <1>0, <1>5, <2>1, <2>2 DEF TypeOK, WalkInv
<1>8. CASE CheckCompleteness
  <2>1. /\ UNCHANGED <<bundle, position, manifest_digest_ok, walkVars>>
        /\ phase' = "done"
        /\ status' \in {"Valid", "Invalid"}
    BY <1>8 DEF CheckCompleteness
  <2>2. closure_complete' \in BOOLEAN
    BY <1>8, Zenon DEF CheckCompleteness
  <2> QED BY <1>0, <1>5, <2>1, <2>2 DEF TypeOK, WalkInv
<1>9. CASE UNCHANGED vars
  BY <1>0, <1>5, <1>9 DEF vars, bundleVars, TypeOK, WalkInv
<1> QED BY <1>1, <1>2, <1>3, <1>4, <1>6, <1>7, <1>8, <1>9 DEF Next

\* The checks passed so far are kept by every step.
LEMMA ChecksStep ==
    ASSUME BundleInv, Next
    PROVE  /\ WalkUntouched'
           /\ (phase = "walk" => RootHashReadable /\ reachable # {})'
           /\ RootChecked'
           /\ ManifestChecked'
           /\ WalkCollected'
           /\ (phase # "done" => status = "pending")'
<1> USE DEF BundleInv
<1>1. CASE ParseBundle
  BY <1>1 DEF ParseBundle, ReturnInvalid, WalkUntouched, WalkInit, RootChecked, ManifestChecked,
              WalkCollected, walkVars
<1>2. CASE VerifyRoot
  BY <1>2 DEF VerifyRoot, ReturnInvalid, WalkUntouched, WalkInit, RootChecked, ManifestChecked,
              WalkCollected, walkVars
<1>3. CASE check_manifest_digest
  <2>1. ManifestChecked'
    <3>1. manifest_digest_ok' =>
             ManifestErrors(bundle.manifest, bundle.root_canonical.closure_manifest_digest) = {}
      BY <1>3 DEF check_manifest_digest
    <3>2. bundle' = bundle
      BY <1>3 DEF check_manifest_digest
    <3> QED BY <3>1, <3>2
            DEF ManifestChecked, ManifestErrors, ManifestSound, DigestDrift, RootDigestDrift,
                CountDrift
  <2>2. WalkUntouched' /\ RootChecked' /\ WalkCollected'
    BY <1>3 DEF check_manifest_digest, WalkUntouched, WalkInit, RootChecked, WalkCollected, walkVars
  <2>3. phase' = "index_root" /\ status' = "pending"
    BY <1>3 DEF check_manifest_digest
  <2> QED BY <2>1, <2>2, <2>3
<1>4. CASE IndexRoot \/ IndexReceipt
  <2>1. WalkInit
    BY <1>4 DEF IndexRoot, IndexReceipt, WalkUntouched
  <2>2. IsIndex(index')
    BY TypeStep DEF TypeOK, WalkTypeOK
  <2>3. WalkInit'
    BY <1>4, <2>1, <2>2 DEF IndexRoot, IndexReceipt, WalkInit
  <2>4. /\ UNCHANGED <<bundle, manifest_digest_ok, status>>
        /\ phase' = "index"
        /\ errors' = {} => errors = {}
        /\ phase \in {"index_root", "index"}
    BY <1>4 DEF IndexRoot, IndexReceipt
  <2> QED BY <2>3, <2>4 DEF WalkUntouched, RootChecked, ManifestChecked, WalkCollected
<1>5. CASE StartWalk
  <2>1. UNCHANGED <<bundle, manifest_digest_ok, status>> /\ phase = "index"
    BY <1>5 DEF StartWalk
  <2>2. \/ phase' = "walk" /\ RootHashReadable /\ reachable' # {} /\ errors' = errors
        \/ phase' = "complete" /\ errors' # {}
    BY <1>5 DEF StartWalk, Start
  <2> QED BY <2>1, <2>2
          DEF WalkUntouched, RootChecked, ManifestChecked, WalkCollected, RootHashReadable
<1>6. CASE Walk
  <2>1. UNCHANGED bundleVars /\ phase = "walk" /\ reachable' # {}
    BY <1>6, ReachableGrows DEF Walk, WalkNext, WalkInv
  <2> QED BY <2>1
          DEF bundleVars, WalkUntouched, RootChecked, ManifestChecked, WalkCollected,
              RootHashReadable
<1>7. CASE CollectWalk
  <2>1. /\ phase = "walk" /\ phase' = "complete"
        /\ stack = <<>>
        /\ UNCHANGED <<bundle, manifest_digest_ok, status, walkVars>>
        /\ errors' = {} =>
              /\ errors = {}
              /\ ~cycle_detected
              /\ \A j \in 1..Len(edge_checks) : edge_checks[j].status = "Resolved"
    BY <1>7 DEF CollectWalk
  <2> QED BY <2>1
          DEF WalkUntouched, RootChecked, ManifestChecked, WalkCollected, WalkDone,
              RootHashReadable, walkVars
<1>8. CASE CheckCompleteness
  BY <1>8 DEF CheckCompleteness, WalkUntouched, RootChecked, ManifestChecked, WalkCollected
<1> QED BY <1>1, <1>2, <1>3, <1>4, <1>5, <1>6, <1>7, <1>8 DEF Next

LEMMA ValidMeansClosedStep ==
    ASSUME BundleInv, Next
    PROVE  ValidMeansClosed'
<1>1. CASE CheckCompleteness
  BY <1>1, ValidStep
<1>2. CASE ~CheckCompleteness
  <2>1. phase # "done" /\ (status' = status \/ status' = "Invalid")
    BY <1>2 DEF Next, ParseBundle, VerifyRoot, check_manifest_digest, IndexRoot, IndexReceipt,
                StartWalk, Walk, CollectWalk, ReturnInvalid, bundleVars
  <2>2. status' # "Valid"
    BY <2>1 DEF BundleInv
  <2> QED BY <2>2 DEF ValidMeansClosed
<1> QED BY <1>1, <1>2

LEMMA BundleInvStep == BundleInv /\ [Next]_vars => BundleInv'
<1>1. ASSUME BundleInv, Next PROVE BundleInv'
  BY <1>1, TypeStep, ChecksStep, ValidMeansClosedStep DEF BundleInv
<1>2. ASSUME BundleInv, UNCHANGED vars PROVE BundleInv'
  <2> USE <1>2 DEF vars, bundleVars, walkVars, BundleInv
  <2>1. TypeOK' /\ WalkInv'
    BY TypeStep
  <2>2. WalkUntouched' /\ RootChecked' /\ ManifestChecked'
    BY DEF WalkUntouched, WalkInit, RootChecked, ManifestChecked
  <2>3. WalkCollected' /\ (phase = "walk" => RootHashReadable /\ reachable # {})'
    BY DEF WalkCollected, WalkDone, RootHashReadable
  <2>4. ValidMeansClosed'
    BY DEF ValidMeansClosed, ReachableIsLeastClosure, WalkDone
  <2> QED BY <2>1, <2>2, <2>3, <2>4
<1> QED BY <1>1, <1>2

\* Every variable of the closure bundle verifier keeps its type, on bundles of
\* any size.
THEOREM BundleTypes == Spec => []TypeOK
<1>1. BundleInv => TypeOK
  BY DEF BundleInv
<1> QED BY <1>1, BundleInvInit, BundleInvStep, PTL DEF Spec

\* VALID is a proof that the committed closure is the least closure of the
\* root, every dependency in it resolved and none circular, whatever the bundle.
THEOREM ValidBundlesAreClosed == Spec => []ValidMeansClosed
<1>1. BundleInv => ValidMeansClosed
  BY DEF BundleInv
<1> QED BY <1>1, BundleInvInit, BundleInvStep, PTL DEF Spec

----------------------------------------------------------------------------
(* The index *)

\* The strings of a bundle are the root and then the receipts.
LEMMA StringsOf ==
    ASSUME NEW b \in ClosureBundleInput
    PROVE  /\ Len(b.receipts) \in Nat
           /\ Strings(b) \in Seq(Receipt)
           /\ Len(Strings(b)) = 1 + Len(b.receipts)
           /\ Strings(b)[1] = b.root_canonical
           /\ \A i \in 1..Len(b.receipts) : Strings(b)[i + 1] = b.receipts[i]
           /\ \A i \in 1..Len(Strings(b)) : Strings(b)[i] \in Supplied(b)
<1>1. b.root_canonical \in Receipt /\ b.receipts \in Seq(Receipt)
  BY DEF ClosureBundleInput
<1>2. Len(b.receipts) \in Nat
  BY <1>1
<1>3. Strings(b) \in Seq(Receipt) /\ Len(Strings(b)) = 1 + Len(b.receipts)
  BY <1>1 DEF Strings
<1>4. Strings(b)[1] = b.root_canonical
  BY <1>1 DEF Strings
<1>5. \A i \in 1..Len(b.receipts) : Strings(b)[i + 1] = b.receipts[i]
  BY <1>1, <1>2 DEF Strings
<1>6. \A i \in 1..Len(Strings(b)) : Strings(b)[i] \in Supplied(b)
  <2> TAKE i \in 1..Len(Strings(b))
  <2>1. CASE i = 1
    BY <1>4, <2>1 DEF Supplied
  <2>2. CASE i # 1
    <3>1. i - 1 \in 1..Len(b.receipts) /\ (i - 1) + 1 = i
      BY <1>2, <1>3, <2>2
    <3>2. Strings(b)[i] = b.receipts[i - 1]
      BY <1>5, <3>1
    <3> QED BY <3>1, <3>2 DEF Supplied
  <2> QED BY <2>1, <2>2
<1> QED BY <1>2, <1>3, <1>4, <1>5, <1>6

LEMMA NothingIndexed == ASSUME NEW b PROVE IndexAfter(b, 0) = <<>>
<1>1. \A g \in Hash : Stating(b, 0, g) = {}
  BY DEF Stating
<1>2. DOMAIN IndexAfter(b, 0) = {}
  BY <1>1 DEF IndexAfter
<1> QED BY <1>1, <1>2 DEF IndexAfter

\* The last of a set of positions, when it is known.
LEMMA LastIs ==
    ASSUME NEW n \in Nat, NEW S \in SUBSET (1..n), NEW l \in S, \A j \in S : j <= l
    PROVE  LastPosition(S) = l
<1>1. LastPosition(S) \in S /\ \A j \in S : j <= LastPosition(S)
  BY DEF LastPosition
<1>2. \A j \in S : j \in Nat
  OBVIOUS
<1>3. LastPosition(S) <= l /\ l <= LastPosition(S)
  BY <1>1
<1>4. LastPosition(S) \in Nat /\ l \in Nat
  BY <1>1, <1>2
<1> QED BY <1>3, <1>4

\* Inserting the next string, when it is JSON, gives the index of one more.
LEMMA IndexAfterStep ==
    ASSUME NEW b \in ClosureBundleInput, NEW n \in 0..Len(b.receipts)
    PROVE  LET r == Strings(b)[n + 1] IN
           IndexAfter(b, n + 1) =
              IF r.json THEN insert_node(IndexAfter(b, n), r) ELSE IndexAfter(b, n)
<1> DEFINE r == Strings(b)[n + 1]
<1>1. n \in Nat /\ r \in Receipt
  BY StringsOf
<1>2. ASSUME NEW h \in Hash, ~(r.json /\ r.event_hash = h)
      PROVE  Stating(b, n + 1, h) = Stating(b, n, h)
  BY <1>1, <1>2 DEF Stating
<1>3. ASSUME NEW h \in Hash, r.json, r.event_hash = h
      PROVE  Stating(b, n + 1, h) # {} /\ LastPosition(Stating(b, n + 1, h)) = n + 1
  <2>1. n + 1 \in Stating(b, n + 1, h) /\ Stating(b, n + 1, h) \subseteq 1..(n + 1)
    BY <1>1, <1>3 DEF Stating
  <2>2. \A j \in Stating(b, n + 1, h) : j <= n + 1
    BY <1>1, <2>1
  <2>3. n + 1 \in Nat
    BY <1>1
  <2> QED BY <2>1, <2>2, <2>3, LastIs
<1>4. CASE ~(r.json /\ r.event_hash \in Hash)
  <2>1. \A h \in Hash : Stating(b, n + 1, h) = Stating(b, n, h)
    BY <1>2, <1>4
  <2>2. IndexAfter(b, n + 1) = IndexAfter(b, n)
    BY <2>1 DEF IndexAfter
  <2>3. r.json => r.event_hash = NoHash
    BY <1>1, <1>4 DEF Receipt
  <2> QED BY <2>2, <2>3 DEF insert_node
<1>5. CASE r.json /\ r.event_hash \in Hash
  <2> DEFINE new == IndexAfter(b, n + 1)
             old == IndexAfter(b, n)
             ins == insert_node(old, r)
  <2>1. r.event_hash # NoHash
    BY <1>5, SentinelAssumption
  <2>2. DOMAIN new = DOMAIN old \union {r.event_hash}
    BY <1>2, <1>3, <1>5 DEF IndexAfter
  <2>3. ins = [h \in DOMAIN old \union {r.event_hash} |->
                  IF h = r.event_hash THEN ReadNode(r) ELSE old[h]]
    BY <2>1 DEF insert_node
  <2>4. new = [h \in DOMAIN new |-> new[h]]
    BY DEF IndexAfter
  <2>5. ASSUME NEW h \in DOMAIN new PROVE new[h] = ins[h]
    <3>1. h \in Hash
      BY <2>5 DEF IndexAfter
    <3>2. CASE h = r.event_hash
      <4>1. new[h] = ReadNode(Strings(b)[LastPosition(Stating(b, n + 1, h))])
        BY <2>5 DEF IndexAfter
      <4> QED BY <1>3, <1>5, <2>2, <2>3, <3>1, <3>2, <4>1
    <3>3. CASE h # r.event_hash
      <4>1. h \in DOMAIN old /\ Stating(b, n + 1, h) = Stating(b, n, h)
        BY <1>2, <2>2, <2>5, <3>1, <3>3
      <4>2. new[h] = old[h]
        BY <2>5, <4>1 DEF IndexAfter
      <4> QED BY <2>2, <2>3, <3>3, <4>1, <4>2
    <3> QED BY <3>2, <3>3
  <2> HIDE DEF new, old, ins
  <2>6. new = ins
    BY <2>2, <2>3, <2>4, <2>5
  <2> QED BY <1>5, <2>6 DEF new, old, ins
<1> QED BY <1>4, <1>5

----------------------------------------------------------------------------
(* Cycles *)

\* A typed edge of an indexed receipt is one of its typed targets.
LEMMA EdgeIsTarget ==
    ASSUME NEW idx, NEW h \in DOMAIN idx, NEW r, idx[h] = ReadNode(r),
           NEW g, TypedEdge(idx, h, g)
    PROVE  g \in TypedTargets(r)
<1>1. Members(idx, h) = ReadNode(r).support_set
  BY DEF Members
<1>2. PICK k \in 1..Len(Members(idx, h)) :
        IsTyped(Members(idx, h)[k]) /\ Members(idx, h)[k].event_hash = g
  BY DEF TypedEdge
<1>3. CASE r.support_set = Malformed
  <2>1. Members(idx, h) = <<>>
    BY <1>1, <1>3 DEF ReadNode
  <2> QED BY <1>2, <2>1
<1>4. CASE r.support_set # Malformed
  <2>1. Members(idx, h) = r.support_set
    BY <1>1, <1>4 DEF ReadNode
  <2> QED BY <1>2, <1>4, <2>1 DEF TypedTargets
<1> QED BY <1>3, <1>4

\* Receipts that verify form no cycle of the index.
LEMMA VerifiedAcyclic ==
    ASSUME ContentAddressed(bundle), IndexInv, NEW S, CyclicSet(index, S),
           \A h \in S : h \in DOMAIN index /\ index[h].verify_status = "Valid"
    PROVE  FALSE
<1> DEFINE verified == {r \in Supplied(bundle) : r.verifies}
           R == {r \in verified : r.event_hash \in S /\ index[r.event_hash] = ReadNode(r)}
<1>1. ASSUME NEW h \in S
      PROVE  \E r \in R : r.event_hash = h
  <2>1. PICK r \in Supplied(bundle) : r.event_hash = h /\ index[h] = ReadNode(r)
    BY <1>1 DEF IndexInv
  <2>2. ReadNode(r).verify_status = "Valid"
    BY <1>1, <2>1
  <2>3. r.verifies
    BY <2>2 DEF ReadNode
  <2> QED BY <1>1, <2>1, <2>3
<1>2. R # {} /\ R \in SUBSET verified
  BY <1>1 DEF CyclicSet
<1>3. PICK r \in R : \A s \in R : s.event_hash \notin TypedTargets(r)
  <2> HIDE DEF R
  <2> QED BY <1>2 DEF ContentAddressed
<1>4. PICK g \in S : TypedEdge(index, r.event_hash, g)
  BY DEF CyclicSet
<1>5. g \in TypedTargets(r)
  BY <1>4, EdgeIsTarget
<1> QED BY <1>1, <1>3, <1>5

\* A typed edge back into an active call leads to the root, which does not verify.
LEMMA CycleIsAtRoot ==
    ASSUME BundleInv, VerdictInv, phase = "walk", InLoop, IsTyped(CurrentMember),
           CurrentMember.event_hash \in on_stack
    PROVE  CheckOf(index, CurrentMember) = [event_hash |-> root, status |-> "Failed"]
<1> DEFINE g == CurrentMember.event_hash
           valid(h) == h \in DOMAIN index /\ index[h].verify_status = "Valid"
<1>1. WalkTypeOK /\ StackInv /\ IndexInv /\ ContentAddressed(bundle)
  BY DEF BundleInv, WalkInv, VerdictInv
<1>2. PICK o \in 1..Len(stack) : stack[o].node = g
  BY <1>1 DEF StackInv
<1>3. Len(stack) \in Nat \ {0} /\ Top = stack[Len(stack)]
  BY <1>1, AdvancedFrames
<1>4. ASSUME NEW i \in 1..Len(stack), i # 1
      PROVE  valid(stack[i].node)
  <2>1. i - 1 \in 1..Len(stack) /\ i - 1 < Len(stack) /\ (i - 1) + 1 = i
    BY <1>3, <1>4
  <2>2. ResolvedEdge(index, stack[i - 1].node, stack[i].node)
    BY <1>1, <2>1 DEF StackInv
  <2> QED BY <2>2, ResolvedTarget
<1>5. ~valid(g)
  <2> SUFFICES ASSUME valid(g) PROVE FALSE
    OBVIOUS
  <2> DEFINE S == {stack[i].node : i \in o..Len(stack)}
  <2>1. \A h \in S : valid(h)
    <3> TAKE h \in S
    <3>1. PICK i \in o..Len(stack) : h = stack[i].node
      OBVIOUS
    <3>2. i \in 1..Len(stack) /\ (i = 1 => i = o)
      BY <1>3
    <3> QED BY <1>2, <1>4, <3>1, <3>2
  <2>2. ASSUME NEW i \in o..Len(stack)
        PROVE  \E t \in S : TypedEdge(index, stack[i].node, t)
    <3>1. CASE i = Len(stack)
      <4>1. TypedEdge(index, Top.node, g)
        BY <1>1, CurrentEdge
      <4>2. g \in S
        BY <1>2, <1>3
      <4> QED BY <1>3, <3>1, <4>1, <4>2
    <3>2. CASE i # Len(stack)
      <4>1. i \in 1..Len(stack) /\ i < Len(stack) /\ i + 1 \in o..Len(stack)
        BY <1>3, <3>2
      <4>2. ResolvedEdge(index, stack[i].node, stack[i + 1].node)
        BY <1>1, <4>1 DEF StackInv
      <4>3. TypedEdge(index, stack[i].node, stack[i + 1].node)
        BY <4>2, ResolvedEdgeIsTyped
      <4> QED BY <4>1, <4>3
    <3> QED BY <3>1, <3>2
  <2>3. S # {}
    <3>1. o \in o..Len(stack)
      BY <1>3
    <3> QED BY <3>1
  <2>4. CyclicSet(index, S)
    BY <2>2, <2>3 DEF CyclicSet
  <2> HIDE DEF S
  <2> QED BY <1>1, <2>1, <2>4, VerifiedAcyclic
<1>6. g = root
  <2>1. o = 1
    BY <1>2, <1>4, <1>5
  <2>2. stack[1].node = root
    BY <1>3 DEF VerdictInv, RootCall
  <2> QED BY <1>2, <2>1, <2>2
<1>7. root \in DOMAIN index
  <2>1. /\ RootHashReadable
        /\ root = bundle.root_canonical.event_hash
        /\ bundle.root_canonical.json
        /\ index = FinalIndex(bundle)
        /\ bundle \in ClosureBundleInput
    BY DEF BundleInv, TypeOK, VerdictInv, RootCall, PhaseInv, IndexInv
  <2>2. 1 \in Stating(bundle, 1 + Len(bundle.receipts), root)
    BY <2>1, StringsOf DEF Stating
  <2> QED BY <2>1, <2>2 DEF FinalIndex, IndexAfter, RootHashReadable
<1>8. classify_edge(index, CurrentMember) = "Failed"
  BY <1>5, <1>6, <1>7 DEF classify_edge
<1> QED BY <1>6, <1>8 DEF CheckOf

----------------------------------------------------------------------------
(* The invariant of the verdict, part by part *)

LEMMA VerdictInvInit == Init => VerdictInv
<1> SUFFICES ASSUME Init PROVE VerdictInv
  OBVIOUS
<1>1. PhaseInv /\ IndexInv /\ RootCall /\ CleanInv
  BY DEF Init, PhaseInv, IndexInv, RootCall, RootHashReadable, CleanInv
<1>2. CycleNeverDecides /\ ErrorsExplainStatus /\ AcceptableIsClean
  BY DEF Init, CycleNeverDecides, ErrorsExplainStatus, AcceptableIsClean
<1> QED BY <1>1, <1>2 DEF Init, VerdictInv

\* The bundle is never written.
LEMMA BundleFixed == [Next]_vars => bundle' = bundle
BY DEF Next, vars, bundleVars, ParseBundle, VerifyRoot, check_manifest_digest, IndexRoot,
       IndexReceipt, StartWalk, Walk, CollectWalk, CheckCompleteness, ReturnInvalid

LEMMA PhaseStep ==
    ASSUME BundleInv, PhaseInv, Next
    PROVE  PhaseInv'
<1> USE DEF PhaseInv
<1>1. CASE ParseBundle \/ VerifyRoot \/ check_manifest_digest
  BY <1>1 DEF ParseBundle, VerifyRoot, check_manifest_digest, ReturnInvalid, walkVars
<1>2. CASE IndexRoot \/ IndexReceipt \/ CheckCompleteness
  BY <1>2 DEF IndexRoot, IndexReceipt, CheckCompleteness
<1>3. CASE StartWalk \/ Walk \/ CollectWalk
  BY <1>3 DEF StartWalk, Walk, CollectWalk, bundleVars
<1> QED BY <1>1, <1>2, <1>3 DEF Next

LEMMA IndexStep ==
    ASSUME BundleInv, PhaseInv, IndexInv, Next
    PROVE  IndexInv'
<1>1. bundle \in ClosureBundleInput /\ bundle' = bundle
  BY BundleFixed DEF BundleInv, TypeOK
<1>2. CASE IndexRoot
  <2>1. /\ index = IndexAfter(bundle, 0)
        /\ Strings(bundle)[0 + 1] = bundle.root_canonical
        /\ bundle.root_canonical.json
        /\ 0 \in 0..Len(bundle.receipts)
    BY <1>1, <1>2, NothingIndexed, StringsOf DEF IndexRoot, PhaseInv
  <2>2. IndexAfter(bundle, 0 + 1) = insert_node(index, bundle.root_canonical)
    BY <1>1, <2>1, IndexAfterStep
  <2>3. index' = IndexAfter(bundle, position' + 1) /\ phase' = "index"
    BY <1>2, <2>2 DEF IndexRoot, PhaseInv
  <2>4. \A h \in DOMAIN index' : \E r \in Supplied(bundle) : r.event_hash = h /\ index'[h] = ReadNode(r)
    <3>1. index' = insert_node(<<>>, bundle.root_canonical) /\ bundle.root_canonical \in Supplied(bundle)
      BY <1>2 DEF IndexRoot, PhaseInv, Supplied
    <3> QED BY <3>1 DEF insert_node
  <2> QED BY <1>1, <2>3, <2>4 DEF IndexInv
<1>3. CASE IndexReceipt
  <2> DEFINE r == bundle.receipts[position + 1]
  <2>1. /\ position + 1 \in 0..Len(bundle.receipts)
        /\ position + 1 \in 1..Len(bundle.receipts)
        /\ phase = "index"
        /\ phase' = "index"
        /\ position' = position + 1
        /\ index' = IF r.json THEN insert_node(index, r) ELSE index
    BY <1>1, <1>3, StringsOf DEF IndexReceipt, BundleInv, TypeOK
  <2>2. Strings(bundle)[(position + 1) + 1] = r /\ r \in Supplied(bundle)
    BY <1>1, <2>1, StringsOf DEF Supplied
  <2>3. index' = IndexAfter(bundle, position' + 1)
    BY <1>1, <2>1, <2>2, IndexAfterStep DEF IndexInv
  <2>4. \A h \in DOMAIN index' : \E s \in Supplied(bundle) : s.event_hash = h /\ index'[h] = ReadNode(s)
    BY <2>1, <2>2 DEF IndexInv, insert_node
  <2> QED BY <1>1, <2>1, <2>3, <2>4 DEF IndexInv
<1>4. CASE StartWalk
  <2>1. position + 1 = 1 + Len(bundle.receipts) /\ index' = index /\ phase = "index"
        /\ phase' \in {"walk", "complete"}
    BY <1>1, <1>4, StringsOf DEF StartWalk, Start, walkVars
  <2> QED BY <1>1, <2>1 DEF IndexInv, FinalIndex
<1>5. CASE Walk \/ CollectWalk \/ CheckCompleteness
  <2>1. index' = index /\ (phase' \in {"walk", "complete"} => phase \in {"walk", "complete"})
        /\ phase' # "index"
    BY <1>5, ReachableGrows
       DEF Walk, CollectWalk, CheckCompleteness, WalkNext, walkVars, bundleVars, BundleInv, WalkInv
  <2> QED BY <1>1, <2>1 DEF IndexInv
<1>6. CASE ParseBundle \/ VerifyRoot \/ check_manifest_digest
  <2>1. index' = index /\ phase' \notin {"index", "walk", "complete"}
    BY <1>6 DEF ParseBundle, VerifyRoot, check_manifest_digest, ReturnInvalid, walkVars
  <2> QED BY <1>1, <2>1 DEF IndexInv
<1> QED BY <1>2, <1>3, <1>4, <1>5, <1>6 DEF Next

LEMMA RootCallStep ==
    ASSUME BundleInv, RootCall, Next
    PROVE  RootCall'
<1>0. WalkTypeOK /\ StackInv /\ StartInv /\ bundle' = bundle
  BY BundleFixed DEF BundleInv, WalkInv
<1>1. CASE StartWalk
  BY <1>0, <1>1 DEF StartWalk, Start, Call, RootCall, RootHashReadable, walkVars
<1>2. CASE Walk
  <2>1. WalkNext /\ phase = "walk" /\ phase' = "walk" /\ stack # <<>>
    BY <1>2 DEF Walk, WalkNext, bundleVars, WalkStep, CycleEdge, DescendEdge, RevisitEdge,
                RejectEdge, UntypedEdge, SkipMember, Return, InLoop
  <2>2. root' = root
    BY <1>0, <2>1, ReachableGrows
  <2>3. ASSUME stack' # <<>> PROVE stack'[1].node = stack[1].node
    <3>1. CASE Start
      BY <1>0, <2>1, <3>1 DEF Start, StartInv
    <3>2. CASE InLoop /\ stack' = Advanced
      BY <1>0, <3>2, AdvancedFrames
    <3>3. CASE DescendEdge
      <4>1. stack'[1] = Advanced[1] /\ Advanced[1].node = stack[1].node
        BY <1>0, <3>3, DescendFrames, AdvancedFrames
      <4> QED BY <4>1
    <3>4. CASE Return
      <4>1. stack' = SubSeq(stack, 1, Len(stack) - 1)
        BY <3>4 DEF Return
      <4>2. 1 \in 1..(Len(stack) - 1)
        BY <1>0, <2>1, <2>3, <4>1, PoppedFrames
      <4> QED BY <1>0, <2>1, <4>1, <4>2, PoppedFrames
    <3> QED BY <1>0, <2>1, <3>1, <3>2, <3>3, <3>4, StepShapes
  <2> QED BY <1>0, <2>1, <2>2, <2>3 DEF RootCall, RootHashReadable
<1>3. CASE ~StartWalk /\ ~Walk
  <2>1. UNCHANGED <<stack, root>> /\ stack = <<>>
    BY <1>3 DEF Next, ParseBundle, VerifyRoot, check_manifest_digest, IndexRoot, IndexReceipt,
                CollectWalk, CheckCompleteness, ReturnInvalid, walkVars, RootCall
  <2> QED BY <1>0, <2>1 DEF RootCall, RootHashReadable
<1> QED BY <1>1, <1>2, <1>3

LEMMA CleanStep ==
    ASSUME BundleInv, PhaseInv, CleanInv, Next
    PROVE  CleanInv'
<1>0. Len(bundle.receipts) \in Nat /\ position \in 0..Len(bundle.receipts)
  BY StringsOf DEF BundleInv, TypeOK
<1>1. CASE ParseBundle \/ VerifyRoot
  BY <1>1 DEF ParseBundle, VerifyRoot, ReturnInvalid, CleanInv
<1>2. CASE check_manifest_digest
  <2>1. errors' = {} => manifest_digest_ok'
    BY <1>2 DEF check_manifest_digest
  <2> QED BY <1>2, <2>1 DEF check_manifest_digest, CleanInv
<1>3. CASE IndexRoot
  BY <1>0, <1>3 DEF IndexRoot, CleanInv, PhaseInv
<1>4. CASE IndexReceipt
  <2>1. /\ phase = "index" /\ position' = position + 1
        /\ UNCHANGED <<bundle, manifest_digest_ok>>
        /\ errors' = {} => errors = {} /\ bundle.receipts[position + 1].json
    BY <1>4 DEF IndexReceipt
  <2>2. \A i \in 1..(position + 1) : i \in 1..position \/ i = position + 1
    BY <1>0
  <2> QED BY <2>1, <2>2 DEF CleanInv
<1>5. CASE StartWalk \/ Walk \/ CollectWalk
  <2>1. /\ UNCHANGED <<bundle, position, manifest_digest_ok>>
        /\ phase \in {"index", "walk"}
        /\ errors' = {} => errors = {}
    BY <1>5 DEF StartWalk, Walk, CollectWalk, bundleVars
  <2> QED BY <2>1 DEF CleanInv
<1>6. CASE CheckCompleteness
  BY <1>6 DEF CheckCompleteness, CleanInv
<1> QED BY <1>1, <1>2, <1>3, <1>4, <1>5, <1>6 DEF Next

\* Recorded checks stay recorded.
LEMMA ChecksKept ==
    ASSUME WalkTypeOK, WalkStep, NEW c, \E j \in 1..Len(edge_checks) : edge_checks[j] = c
    PROVE  \E j \in 1..Len(edge_checks') : edge_checks'[j] = c
<1>1. PICK j \in 1..Len(edge_checks) : edge_checks[j] = c
  OBVIOUS
<1>2. edge_checks \in Seq(EdgeCheck)
  BY DEF WalkTypeOK
<1>3. CASE edge_checks' = edge_checks
  BY <1>1, <1>3
<1>4. CASE \E e : edge_checks' = Append(edge_checks, e)
  BY <1>1, <1>2, <1>4
<1> QED BY <1>3, <1>4 DEF WalkStep, CycleEdge, DescendEdge, RevisitEdge, RejectEdge, UntypedEdge,
                         SkipMember, Return, Record

LEMMA CycleStep ==
    ASSUME BundleInv, VerdictInv, Next
    PROVE  CycleNeverDecides'
<1>1. CASE Walk /\ CycleEdge
  <2>1. CheckOf(index, CurrentMember) = [event_hash |-> root, status |-> "Failed"]
    BY <1>1, CycleIsAtRoot DEF Walk, CycleEdge
  <2>2. edge_checks' = Append(edge_checks, CheckOf(index, CurrentMember)) /\ root' = root
        /\ edge_checks \in Seq(EdgeCheck)
    BY <1>1 DEF CycleEdge, Record, BundleInv, WalkInv, WalkTypeOK
  <2>3. Len(edge_checks) + 1 \in 1..Len(edge_checks')
        /\ edge_checks'[Len(edge_checks) + 1] = CheckOf(index, CurrentMember)
    BY <2>2
  <2> QED BY <2>1, <2>2, <2>3 DEF CycleNeverDecides
<1>2. CASE Walk /\ ~CycleEdge
  <2>1. cycle_detected' = cycle_detected /\ root' = root /\ WalkStep
    BY <1>2 DEF Walk, WalkStep, DescendEdge, RevisitEdge, RejectEdge, UntypedEdge, SkipMember, Return
  <2>2. WalkTypeOK /\ CycleNeverDecides
    BY DEF BundleInv, WalkInv, VerdictInv
  <2>3. cycle_detected => \E j \in 1..Len(edge_checks') :
            edge_checks'[j] = [event_hash |-> root, status |-> "Failed"]
    BY <2>1, <2>2, ChecksKept DEF CycleNeverDecides
  <2> QED BY <2>1, <2>3 DEF CycleNeverDecides
<1>3. CASE ~Walk
  <2>1. UNCHANGED <<root, edge_checks, cycle_detected>>
    BY <1>3 DEF Next, ParseBundle, VerifyRoot, check_manifest_digest, IndexRoot, IndexReceipt,
                StartWalk, Start, CollectWalk, CheckCompleteness, ReturnInvalid, walkVars
  <2> QED BY <2>1 DEF CycleNeverDecides, VerdictInv
<1> QED BY <1>1, <1>2, <1>3

LEMMA ErrorsStep ==
    ASSUME BundleInv, VerdictInv, Next
    PROVE  ErrorsExplainStatus'
<1>1. CASE CheckCompleteness
  <2>1. errors' = {} => errors = {} /\ closure_complete'
    BY <1>1 DEF CheckCompleteness
  <2>2. errors = {} => /\ bundle.root_canonical.verifies
                       /\ manifest_digest_ok
                       /\ ~cycle_detected
    BY <1>1 DEF CheckCompleteness, BundleInv, RootChecked, WalkCollected, VerdictInv, CleanInv
  <2>3. status' = "Valid" => errors' = {}
    BY <1>1 DEF CheckCompleteness
  <2>4. errors' = {} => status' = "Valid"
    BY <1>1, <2>1, <2>2 DEF CheckCompleteness
  <2> QED BY <2>3, <2>4 DEF ErrorsExplainStatus
<1>2. CASE ~CheckCompleteness
  <2>1. phase' # "done" \/ (status' = "Invalid" /\ errors' # {})
    BY <1>2 DEF Next, ParseBundle, VerifyRoot, check_manifest_digest, IndexRoot, IndexReceipt,
                StartWalk, Walk, CollectWalk, ReturnInvalid, bundleVars
  <2> QED BY <2>1 DEF ErrorsExplainStatus
<1> QED BY <1>1, <1>2

----------------------------------------------------------------------------
(* The verdict *)

\* When the walk is done, what it reached is the least closure of the root.
LEMMA ReachedIsClosure ==
    ASSUME WalkInv, WalkDone
    PROVE  reachable = LeastClosure(index, root)
<1>1. reachable \in SUBSET Hash /\ ReachableIsLeastClosure
  BY WalkInvResults DEF WalkInv, WalkTypeOK
<1>2. reachable \subseteq LeastClosure(index, root)
  BY <1>1 DEF ReachableIsLeastClosure, LeastClosure
<1>3. LeastClosure(index, root) \subseteq reachable
  BY <1>1 DEF ReachableIsLeastClosure, LeastClosure
<1> QED BY <1>2, <1>3

\* Every recorded check is that of a dependency of a reached receipt.
LEMMA ChecksAreMembers ==
    ASSUME WalkInv, NEW j \in 1..Len(edge_checks)
    PROVE  \E h \in reachable : \E k \in 1..Len(Members(index, h)) :
              /\ IsDependency(Members(index, h)[k])
              /\ CheckOf(index, Members(index, h)[k]) = edge_checks[j]
<1> DEFINE c == edge_checks[j]
<1>1. edge_checks \in Seq(EdgeCheck) /\ PassedCounted
  BY DEF WalkInv, WalkTypeOK
<1>2. c \in EdgeCheck /\ Len(edge_checks) \in Nat
  BY <1>1
<1>3. IsFiniteSet(ChecksEqual(c)) /\ j \in ChecksEqual(c)
  <2>1. IsFiniteSet(1..Len(edge_checks)) /\ ChecksEqual(c) \subseteq 1..Len(edge_checks)
    BY <1>2, FS_Interval DEF ChecksEqual
  <2> QED BY <2>1, FS_Subset DEF ChecksEqual
<1>4. Cardinality(ChecksEqual(c)) # 0
  BY <1>3, FS_EmptySet
<1>5. RecordedAs(PassedMembers, c) # {}
  BY <1>1, <1>2, <1>4, FS_EmptySet DEF PassedCounted
<1>6. PICK p \in PassedMembers : CheckOf(index, Members(index, p[1])[p[2]]) = c
  BY <1>5 DEF RecordedAs
<1>7. p \in DependencyMembers(reachable)
  BY <1>6 DEF PassedMembers
<1>8. PICK h \in reachable : p \in {h} \X {k \in 1..Len(Members(index, h)) : IsDependency(Members(index, h)[k])}
  BY <1>7 DEF DependencyMembers
<1> QED BY <1>6, <1>8

\* The walk of a bundle that deserves VALID finds no fault.
LEMMA AcceptableWalk ==
    ASSUME BundleInv, VerdictInv, WalkDone, RootHashReadable, index = FinalIndex(bundle),
           ClosureAcceptable(bundle)
    PROVE  /\ \A j \in 1..Len(edge_checks) : edge_checks[j].status = "Resolved"
           /\ ~cycle_detected
           /\ Committed(bundle.manifest) = reachable \ {root}
<1>1. WalkInv /\ root = bundle.root_canonical.event_hash
  BY DEF BundleInv, VerdictInv, RootCall
<1>2. reachable = LeastClosure(FinalIndex(bundle), bundle.root_canonical.event_hash)
  BY <1>1, ReachedIsClosure
<1>3. ASSUME NEW j \in 1..Len(edge_checks)
      PROVE  edge_checks[j].status = "Resolved"
  BY <1>1, <1>2, ChecksAreMembers DEF ClosureAcceptable
<1>4. ~cycle_detected
  <2>1. NoFalseCycle
    BY <1>1 DEF WalkInv
  <2> QED BY <1>2, <2>1 DEF NoFalseCycle, ClosureAcceptable
<1> QED BY <1>1, <1>2, <1>3, <1>4 DEF ClosureAcceptable

\* The root of a bundle that deserves VALID is JSON and states a hash.
LEMMA AcceptableRoot ==
    ASSUME ContentAddressed(bundle), ClosureAcceptable(bundle)
    PROVE  /\ bundle.root_canonical.json
           /\ RootHashReadable
BY DEF ContentAddressed, ClosureAcceptable, Supplied, RootHashReadable

LEMMA AcceptableStep ==
    ASSUME BundleInv, VerdictInv, Next
    PROVE  AcceptableIsClean'
<1> SUFFICES ASSUME ClosureAcceptable(bundle)
             PROVE  /\ errors' = {}
                    /\ status' # "Invalid"
                    /\ phase' \in {"index_root", "index", "walk", "complete"} => manifest_digest_ok'
  BY BundleFixed DEF AcceptableIsClean
<1>0. /\ errors = {}
      /\ status # "Invalid"
      /\ phase \in {"index_root", "index", "walk", "complete"} => manifest_digest_ok
      /\ ContentAddressed(bundle)
  BY DEF VerdictInv, AcceptableIsClean
<1>1. CASE ParseBundle
  BY <1>0, <1>1 DEF ParseBundle, ReturnInvalid, ClosureAcceptable
<1>2. CASE VerifyRoot
  BY <1>0, <1>2, AcceptableRoot DEF VerifyRoot, ReturnInvalid, ClosureAcceptable
<1>3. CASE check_manifest_digest
  <2>1. ManifestSound(bundle.manifest, bundle.root_canonical.closure_manifest_digest)
    BY DEF ClosureAcceptable
  <2>2. /\ ~DigestDrift(bundle.manifest)
        /\ ~RootDigestDrift(bundle.manifest, bundle.root_canonical.closure_manifest_digest)
        /\ ~CountDrift(bundle.manifest)
        /\ bundle.manifest.object
    BY <2>1 DEF ManifestSound, DigestDrift, RootDigestDrift, CountDrift
  <2>3. ManifestErrors(bundle.manifest, bundle.root_canonical.closure_manifest_digest) = {}
    BY <2>2 DEF ManifestErrors
  <2> QED BY <1>0, <1>3, <2>3 DEF check_manifest_digest
<1>4. CASE IndexRoot
  BY <1>0, <1>4 DEF IndexRoot
<1>5. CASE IndexReceipt
  <2>1. position + 1 \in 1..Len(bundle.receipts)
    BY <1>5, StringsOf DEF IndexReceipt, BundleInv, TypeOK
  <2>2. bundle.receipts[position + 1].json
    BY <2>1 DEF ClosureAcceptable
  <2> QED BY <1>0, <1>5, <2>2 DEF IndexReceipt
<1>6. CASE StartWalk
  BY <1>0, <1>6, AcceptableRoot DEF StartWalk
<1>7. CASE Walk
  BY <1>0, <1>7 DEF Walk, bundleVars
<1>8. CASE CollectWalk
  <2>1. WalkDone /\ RootHashReadable /\ index = FinalIndex(bundle)
    BY <1>8 DEF CollectWalk, WalkDone, BundleInv, VerdictInv, IndexInv
  <2>2. /\ ~cycle_detected
        /\ \A j \in 1..Len(edge_checks) : edge_checks[j].status = "Resolved"
    BY <2>1, AcceptableWalk
  <2> QED BY <1>0, <1>8, <2>2 DEF CollectWalk
<1>9. CASE CheckCompleteness
  <2>1. phase = "complete" /\ errors = {} /\ manifest_digest_ok
    BY <1>0, <1>9 DEF CheckCompleteness
  <2>2. WalkDone /\ RootHashReadable /\ ~cycle_detected /\ index = FinalIndex(bundle)
    BY <2>1 DEF BundleInv, WalkCollected, VerdictInv, IndexInv
  <2>3. Committed(bundle.manifest) = Dependencies
    BY <2>2, AcceptableWalk DEF Dependencies
  <2>4. bundle.root_canonical.verifies
    BY DEF ClosureAcceptable
  <2> QED BY <1>9, <2>1, <2>2, <2>3, <2>4 DEF CheckCompleteness
<1> QED BY <1>1, <1>2, <1>3, <1>4, <1>5, <1>6, <1>7, <1>8, <1>9 DEF Next

\* The last check gives VALID only to a bundle that deserves it.
LEMMA ValidIsAcceptable ==
    ASSUME BundleInv, VerdictInv, CheckCompleteness, status' = "Valid"
    PROVE  ClosureAcceptable(bundle)
<1>1. phase = "complete" /\ errors = {} /\ UNCHANGED <<bundle, walkVars>>
  BY DEF CheckCompleteness
<1>2. ValidMeansClosed'
  BY ValidStep
<1>3. /\ WalkInv /\ WalkDone /\ RootHashReadable
      /\ index = FinalIndex(bundle)
      /\ root = bundle.root_canonical.event_hash
      /\ bundle.json /\ bundle.format_ok
      /\ \A i \in 1..Len(bundle.receipts) : bundle.receipts[i].json
  BY <1>1 DEF BundleInv, WalkCollected, VerdictInv, IndexInv, RootCall, PhaseInv, CleanInv
<1>4. reachable = LeastClosure(FinalIndex(bundle), bundle.root_canonical.event_hash)
  BY <1>3, ReachedIsClosure
<1>5. /\ bundle.root_canonical.verifies
      /\ bundle.root_canonical.payload_kind = PackKind
      /\ ManifestSound(bundle.manifest, bundle.root_canonical.closure_manifest_digest)
      /\ Committed(bundle.manifest) = reachable \ {root}
      /\ \A h \in reachable : \A k \in 1..Len(Members(index, h)) :
            LET m == Members(index, h)[k] IN
            IsDependency(m) => IsTyped(m) /\ classify_edge(index, m) = "Resolved"
      /\ \A S \in SUBSET reachable : ~CyclicSet(index, S)
  BY <1>1, <1>2 DEF ValidMeansClosed, walkVars
<1>6. \A h \in reachable : \A k \in 1..Len(Members(index, h)) :
         LET m == Members(index, h)[k] IN
         IsDependency(m) => CheckOf(index, m).status = "Resolved"
  BY <1>5 DEF CheckOf
<1> QED BY <1>3, <1>4, <1>5, <1>6 DEF ClosureAcceptable

LEMMA AnswerStep ==
    ASSUME BundleInv, VerdictInv, Next
    PROVE  /\ (phase = "done" => status # "pending")'
           /\ (status = "Valid" => ClosureAcceptable(bundle))'
<1>1. CASE CheckCompleteness
  <2>1. status' \in {"Valid", "Invalid"} /\ bundle' = bundle
    BY <1>1 DEF CheckCompleteness
  <2> QED BY <1>1, <2>1, ValidIsAcceptable
<1>2. CASE ~CheckCompleteness
  <2>1. /\ phase # "done"
        /\ \/ phase' # "done" /\ status' = status
           \/ phase' = "done" /\ status' = "Invalid"
    BY <1>2 DEF Next, ParseBundle, VerifyRoot, check_manifest_digest, IndexRoot, IndexReceipt,
                StartWalk, Walk, CollectWalk, ReturnInvalid, bundleVars
  <2>2. status = "pending"
    BY <2>1 DEF BundleInv
  <2> QED BY <2>1, <2>2
<1> QED BY <1>1, <1>2

LEMMA VerdictInvStep == BundleInv /\ VerdictInv /\ [Next]_vars => VerdictInv'
<1>1. ASSUME BundleInv, VerdictInv, Next PROVE VerdictInv'
  <2>1. PhaseInv' /\ IndexInv' /\ RootCall' /\ CleanInv'
    BY <1>1, PhaseStep, IndexStep, RootCallStep, CleanStep DEF VerdictInv
  <2>2. CycleNeverDecides' /\ ErrorsExplainStatus' /\ AcceptableIsClean'
    BY <1>1, CycleStep, ErrorsStep, AcceptableStep
  <2>3. ContentAddressed(bundle)'
    BY <1>1, BundleFixed DEF VerdictInv
  <2> QED BY <1>1, <2>1, <2>2, <2>3, AnswerStep DEF VerdictInv
<1>2. ASSUME VerdictInv, UNCHANGED vars PROVE VerdictInv'
  <2> USE <1>2 DEF vars, bundleVars, walkVars, VerdictInv
  <2>1. PhaseInv' /\ IndexInv' /\ RootCall' /\ CleanInv'
    BY DEF PhaseInv, IndexInv, RootCall, RootHashReadable, CleanInv
  <2>2. CycleNeverDecides' /\ ErrorsExplainStatus' /\ AcceptableIsClean'
    BY DEF CycleNeverDecides, ErrorsExplainStatus, AcceptableIsClean
  <2> QED BY <2>1, <2>2
<1> QED BY <1>1, <1>2

LEMMA BundleInvariants == Spec => [](BundleInv /\ VerdictInv)
BY BundleInvInit, BundleInvStep, VerdictInvInit, VerdictInvStep, PTL DEF Spec

\* The walk runs on the index of all the strings, the last of each hash.
THEOREM BundleWalksFinalIndex == Spec => []WalksFinalIndex
<1>1. VerdictInv => WalksFinalIndex
  BY DEF VerdictInv, IndexInv, WalksFinalIndex
<1> QED BY <1>1, BundleInvariants, PTL

\* A cycle is met only through a root that does not verify: among receipts that
\* verify the event_hash law leaves none.
THEOREM BundleCycleNeverDecides == Spec => []CycleNeverDecides
<1>1. VerdictInv => CycleNeverDecides
  BY DEF VerdictInv
<1> QED BY <1>1, BundleInvariants, PTL

\* The answer is VALID exactly when no error is reported.
THEOREM BundleErrorsExplainStatus == Spec => []ErrorsExplainStatus
<1>1. VerdictInv => ErrorsExplainStatus
  BY DEF VerdictInv
<1> QED BY <1>1, BundleInvariants, PTL

\* VALID exactly on the bundles whose indexed closure is the committed one,
\* resolved at every edge and acyclic.
LEMMA DoneVerdict ==
    ASSUME BundleInv, VerdictInv, phase = "done"
    PROVE  /\ status \in {"Valid", "Invalid"}
           /\ status = "Valid" <=> ClosureAcceptable(bundle)
<1>1. status \in {"Valid", "Invalid"}
  BY DEF BundleInv, TypeOK, VerdictInv
<1> QED BY <1>1 DEF VerdictInv, AcceptableIsClean

\* The safety part of DecidesClosure: nothing is answered at the start, and
\* every step is the one decision of Verdict or leaves bundle and answer alone.
THEOREM BundleRefinesVerdict == Spec => V!Init /\ [][V!Decide]_(V!verdictVars)
<1>1. Init => V!Init
  BY DEF Init, V!Init
<1>2. ASSUME BundleInv, BundleInv', VerdictInv', [Next]_vars
      PROVE  [V!Decide]_(V!verdictVars)
  <2>1. bundle' = bundle
    BY <1>2, BundleFixed
  <2>2. CASE status' = status
    BY <2>1, <2>2 DEF V!verdictVars
  <2>3. CASE status' # status
    <3>1. phase # "done" /\ phase' = "done"
      BY <1>2, <2>3 DEF Next, vars, bundleVars, ParseBundle, VerifyRoot, check_manifest_digest,
           IndexRoot, IndexReceipt, StartWalk, Walk, CollectWalk, CheckCompleteness, ReturnInvalid
    <3>2. status = "pending"
      BY <1>2, <3>1 DEF BundleInv
    <3>3. status' \in {"Valid", "Invalid"} /\ (status' = "Valid" <=> ClosureAcceptable(bundle'))
      BY <1>2, <2>1, <3>1 DEF BundleInv, TypeOK, VerdictInv, AcceptableIsClean
    <3> QED BY <2>1, <3>2, <3>3 DEF V!Decide
  <2> QED BY <2>2, <2>3
<1> QED BY <1>1, <1>2, BundleInvariants, PTL DEF Spec

----------------------------------------------------------------------------
(* The order of the supplied receipts *)

\* What the reversed list of receipts holds.
LEMMA ReorderedStrings ==
    ASSUME NEW b \in ClosureBundleInput
    PROVE  /\ Reordered(b) \in ClosureBundleInput
           /\ Len(Reordered(b).receipts) = Len(b.receipts)
           /\ Reordered(b).root_canonical = b.root_canonical
           /\ Strings(Reordered(b))[1] = Strings(b)[1]
           /\ \A i \in 1..Len(b.receipts) :
                 Strings(Reordered(b))[i + 1] = Strings(b)[(Len(b.receipts) + 1 - i) + 1]
<1> DEFINE n == Len(b.receipts)
           c == Reordered(b)
<1>1. b.receipts \in Seq(Receipt) /\ n \in Nat /\ b.root_canonical \in Receipt
  BY DEF ClosureBundleInput
<1>2. /\ Backwards(b.receipts) \in Seq(Receipt)
      /\ Len(Backwards(b.receipts)) = n
      /\ \A i \in 1..n : Backwards(b.receipts)[i] = b.receipts[n + 1 - i]
  BY <1>1 DEF Backwards
<1>3. /\ c \in ClosureBundleInput
      /\ c.receipts = Backwards(b.receipts)
      /\ c.root_canonical = b.root_canonical
  BY <1>2 DEF Reordered, ClosureBundleInput
<1>4. Strings(c)[1] = Strings(b)[1]
  BY <1>3, StringsOf
<1>5. ASSUME NEW i \in 1..n
      PROVE  Strings(c)[i + 1] = Strings(b)[(n + 1 - i) + 1]
  <2>1. n + 1 - i \in 1..n
    BY <1>1
  <2>2. Strings(b)[(n + 1 - i) + 1] = b.receipts[n + 1 - i]
    BY <2>1, StringsOf
  <2>3. Strings(c)[i + 1] = c.receipts[i]
    BY <1>2, <1>3, StringsOf
  <2> QED BY <1>2, <1>3, <2>2, <2>3
<1> QED BY <1>2, <1>3, <1>4, <1>5

LEMMA LastOfOne == ASSUME NEW i \in Nat PROVE LastPosition({i}) = i
<1>1. i <= i
  OBVIOUS
<1> QED BY <1>1 DEF LastPosition

\* Where the hashes differ, each is stated by one string, in either order.
LEMMA ReorderedIndex ==
    ASSUME NEW b \in ClosureBundleInput, DistinctReceipts(b)
    PROVE  FinalIndex(Reordered(b)) = FinalIndex(b)
<1> DEFINE c == Reordered(b)
           N == 1 + Len(b.receipts)
           p(i) == IF i = 1 THEN 1 ELSE (N + 2) - i
<1>1. /\ N \in Nat
      /\ c \in ClosureBundleInput
      /\ 1 + Len(c.receipts) = N
      /\ Len(Strings(b)) = N
  BY StringsOf, ReorderedStrings
<1>2. ASSUME NEW i \in 1..N
      PROVE  p(i) \in 1..N /\ p(p(i)) = i /\ Strings(c)[i] = Strings(b)[p(i)]
  <2>1. p(i) \in 1..N /\ p(p(i)) = i
    BY <1>1
  <2>2. CASE i = 1
    BY <2>2, ReorderedStrings
  <2>3. CASE i # 1
    <3>1. i - 1 \in 1..Len(b.receipts) /\ (i - 1) + 1 = i
          /\ (Len(b.receipts) + 1 - (i - 1)) + 1 = p(i)
      BY <2>3, StringsOf
    <3>2. Strings(c)[(i - 1) + 1] = Strings(b)[(Len(b.receipts) + 1 - (i - 1)) + 1]
      BY <3>1, ReorderedStrings
    <3>3. Strings(c)[i] = Strings(b)[p(i)]
      BY <3>1, <3>2
    <3> QED BY <2>1, <3>3
  <2> QED BY <2>1, <2>2, <2>3
<1> HIDE DEF p, c
<1>3. ASSUME NEW h \in Hash, NEW i \in Stating(b, N, h)
      PROVE  /\ LastPosition(Stating(b, N, h)) = i
             /\ LastPosition(Stating(c, N, h)) = p(i)
             /\ Strings(c)[p(i)] = Strings(b)[i]
             /\ p(i) \in Stating(c, N, h)
  <2>1. i \in 1..N /\ Strings(b)[i].json /\ Strings(b)[i].event_hash = h /\ h # NoHash
    BY SentinelAssumption DEF Stating
  <2>2. ASSUME NEW j \in Stating(b, N, h) PROVE j = i
    BY <1>1, <2>1 DEF Stating, DistinctReceipts
  <2>3. Strings(c)[p(i)] = Strings(b)[i] /\ p(i) \in 1..N
    BY <1>2, <2>1
  <2>4. p(i) \in Stating(c, N, h)
    BY <2>1, <2>3 DEF Stating
  <2>5. ASSUME NEW j \in Stating(c, N, h) PROVE j = p(i)
    <3>1. j \in 1..N /\ p(j) \in Stating(b, N, h)
      BY <1>2 DEF Stating
    <3> QED BY <1>2, <2>2, <3>1
  <2>6. Stating(b, N, h) = {i} /\ Stating(c, N, h) = {p(i)}
    BY <2>2, <2>4, <2>5
  <2>7. LastPosition({i}) = i /\ LastPosition({p(i)}) = p(i)
    BY <1>1, <2>1, <2>3, LastOfOne
  <2> QED BY <2>3, <2>4, <2>6, <2>7
<1>4. ASSUME NEW h \in Hash
      PROVE  Stating(c, N, h) # {} <=> Stating(b, N, h) # {}
  <2>1. ASSUME NEW j \in Stating(c, N, h) PROVE p(j) \in Stating(b, N, h)
    BY <1>2 DEF Stating
  <2> QED BY <1>3, <2>1
<1>5. DOMAIN IndexAfter(c, N) = DOMAIN IndexAfter(b, N)
  BY <1>4 DEF IndexAfter
<1>6. ASSUME NEW h \in DOMAIN IndexAfter(b, N)
      PROVE  IndexAfter(c, N)[h] = IndexAfter(b, N)[h]
  <2>1. h \in Hash /\ Stating(b, N, h) # {}
    BY <1>6 DEF IndexAfter
  <2>2. PICK i \in Stating(b, N, h) : TRUE
    BY <2>1
  <2>3. IndexAfter(b, N)[h] = ReadNode(Strings(b)[i])
    BY <1>3, <1>6, <2>1, <2>2 DEF IndexAfter
  <2>4. IndexAfter(c, N)[h] = ReadNode(Strings(c)[p(i)])
    BY <1>3, <1>5, <1>6, <2>1, <2>2 DEF IndexAfter
  <2> QED BY <1>3, <2>1, <2>2, <2>3, <2>4
<1>7. IndexAfter(c, N) = IndexAfter(b, N)
  <2>1. /\ IndexAfter(c, N) = [h \in DOMAIN IndexAfter(c, N) |-> IndexAfter(c, N)[h]]
        /\ IndexAfter(b, N) = [h \in DOMAIN IndexAfter(b, N) |-> IndexAfter(b, N)[h]]
    BY DEF IndexAfter
  <2> QED BY <1>5, <1>6, <2>1
<1> QED BY <1>1, <1>7 DEF FinalIndex, c

LEMMA ReorderedAcceptable ==
    ASSUME NEW b \in ClosureBundleInput, DistinctReceipts(b)
    PROVE  ClosureAcceptable(Reordered(b)) <=> ClosureAcceptable(b)
<1> DEFINE c == Reordered(b)
           n == Len(b.receipts)
<1>1. /\ c.json = b.json
      /\ c.format_ok = b.format_ok
      /\ c.root_canonical = b.root_canonical
      /\ c.manifest = b.manifest
  BY DEF Reordered, ClosureBundleInput
<1>2. FinalIndex(c) = FinalIndex(b)
  BY ReorderedIndex
<1>3. (\A i \in 1..Len(c.receipts) : c.receipts[i].json)
         <=> (\A i \in 1..Len(b.receipts) : b.receipts[i].json)
  <2>1. n \in Nat /\ Len(c.receipts) = n /\ c.receipts = Backwards(b.receipts)
    BY StringsOf, ReorderedStrings DEF Reordered, ClosureBundleInput
  <2>2. \A i \in 1..n : n + 1 - i \in 1..n /\ n + 1 - (n + 1 - i) = i
    BY <2>1
  <2>3. \A i \in 1..n : c.receipts[i] = b.receipts[n + 1 - i]
    BY <2>1 DEF Backwards
  <2> HIDE DEF c
  <2>4. ASSUME \A i \in 1..n : b.receipts[i].json, NEW i \in 1..n
        PROVE  c.receipts[i].json
    BY <2>2, <2>3, <2>4
  <2>5. ASSUME \A i \in 1..n : c.receipts[i].json, NEW i \in 1..n
        PROVE  b.receipts[i].json
    <3>1. n + 1 - i \in 1..n /\ c.receipts[n + 1 - i] = b.receipts[n + 1 - (n + 1 - i)]
      BY <2>2, <2>3
    <3> QED BY <2>2, <2>5, <3>1
  <2> QED BY <2>1, <2>4, <2>5
<1> HIDE DEF c
<1> QED BY <1>1, <1>2, <1>3 DEF ClosureAcceptable, c

\* Where no two strings state the same hash, the order of the supplied receipts
\* does not change the verdict.
THEOREM BundleOrderIrrelevant == Spec => []OrderIrrelevantWhenDistinct
<1>1. BundleInv /\ VerdictInv => OrderIrrelevantWhenDistinct
  BY DoneVerdict, ReorderedAcceptable DEF OrderIrrelevantWhenDistinct, BundleInv, TypeOK
<1> QED BY <1>1, BundleInvariants, PTL

----------------------------------------------------------------------------
(* The layered packs inside a closure bundle *)

\* What the least closure holds but the root was reached over a resolved edge.
LEMMA ReachedValid ==
    ASSUME IsIndex(index), root \in Hash,
           \A S \in SUBSET Hash : root \in S /\ Closed(index, S) => reachable \subseteq S,
           NEW h \in reachable, h # root
    PROVE  h \in DOMAIN index /\ index[h].verify_status = "Valid"
<1> DEFINE S == {root} \union {g \in DOMAIN index : index[g].verify_status = "Valid"}
<1>1. S \in SUBSET Hash /\ root \in S
  BY DEF IsIndex
<1>2. Closed(index, S)
  BY ResolvedTarget DEF Closed
<1> QED BY <1>1, <1>2

\* An edge from the least closure back to the root closes a cycle: whoever is
\* reached from the root reaches the root through that edge.
LEMMA BackEdgeIsCycle ==
    ASSUME root \in reachable, reachable \in SUBSET Hash, Closed(index, reachable),
           \A S \in SUBSET Hash : root \in S /\ Closed(index, S) => reachable \subseteq S,
           NEW h \in reachable, ResolvedEdge(index, h, root)
    PROVE  \E S \in SUBSET reachable : CyclicSet(index, S)
<1> DEFINE Avoiding == {T \in SUBSET reachable : Closed(index, T) /\ h \notin T}
           U == reachable \ UNION Avoiding
<1>1. h \in U
  OBVIOUS
<1>2. root \in U
  <2> SUFFICES ASSUME NEW T \in Avoiding, root \in T
               PROVE  FALSE
    OBVIOUS
  <2>1. reachable \subseteq T
    OBVIOUS
  <2> QED BY <2>1
<1>3. ASSUME NEW x \in U
      PROVE  \E g \in U : TypedEdge(index, x, g)
  <2>1. CASE x = h
    BY <1>2, <2>1, ResolvedEdgeIsTyped
  <2>2. CASE x # h
    <3> SUFFICES ASSUME \A g \in U : ~TypedEdge(index, x, g)
                 PROVE  FALSE
      OBVIOUS
    <3> DEFINE T == {x} \union UNION Avoiding
    <3>1. ASSUME NEW y \in T, NEW g \in Hash, ResolvedEdge(index, y, g)
          PROVE  g \in T
      <4>1. CASE y = x
        <5>1. g \in reachable
          BY <3>1, <4>1 DEF Closed
        <5>2. g \notin U
          BY <3>1, <4>1, ResolvedEdgeIsTyped
        <5> QED BY <5>1, <5>2
      <4>2. CASE y # x
        <5>1. PICK A \in Avoiding : y \in A
          BY <4>2
        <5>2. g \in A
          BY <3>1, <5>1 DEF Closed
        <5> QED BY <5>2
      <4> QED BY <4>1, <4>2
    <3>2. Closed(index, T)
      BY <3>1 DEF Closed
    <3>3. T \in Avoiding
      BY <2>2, <3>2
    <3> QED BY <3>3
  <2> QED BY <2>1, <2>2
<1> HIDE DEF U
<1>4. CyclicSet(index, U)
  BY <1>1, <1>3 DEF CyclicSet
<1>5. U \in SUBSET reachable
  BY DEF U
<1> QED BY <1>4, <1>5

\* A node of a VALID bundle other than the root is that of a supplied receipt
\* that verifies, and of every supplied receipt that states its hash and verifies.
LEMMA NodeOfReceipt ==
    ASSUME BundleInv, VerdictInv, RootHashReadable,
           NEW g \in DOMAIN index, g # root, index[g].verify_status = "Valid"
    PROVE  \E l \in 1..Len(bundle.receipts) :
              /\ bundle.receipts[l].event_hash = g
              /\ bundle.receipts[l].verifies
              /\ index[g] = ReadNode(bundle.receipts[l])
              /\ \A i \in 1..Len(bundle.receipts) :
                    /\ bundle.receipts[i].event_hash = g
                    /\ bundle.receipts[i].verifies
                    => bundle.receipts[i] = bundle.receipts[l]
<1>1. PICK r \in Supplied(bundle) : r.event_hash = g /\ index[g] = ReadNode(r)
  BY DEF VerdictInv, IndexInv
<1>2. r # bundle.root_canonical
  BY <1>1 DEF VerdictInv, RootCall
<1>3. PICK l \in 1..Len(bundle.receipts) : r = bundle.receipts[l]
  BY <1>2 DEF Supplied
<1>4. r.verifies
  BY <1>1 DEF ReadNode
<1>5. \A i \in 1..Len(bundle.receipts) : bundle.receipts[i] \in Supplied(bundle)
  BY DEF Supplied
<1>6. \A i \in 1..Len(bundle.receipts) :
         bundle.receipts[i].event_hash = g /\ bundle.receipts[i].verifies
            => bundle.receipts[i] = r
  BY <1>1, <1>4, <1>5 DEF VerdictInv, ContentAddressed
<1> QED BY <1>1, <1>3, <1>4, <1>6

\* A hash that some supplied receipt states is stated a first time.
LEMMA FirstStated ==
    ASSUME NEW p, NEW l \in 1..Len(p.receipts), Len(p.receipts) \in Nat
    PROVE  \E i \in L!FirstStating(p, p.receipts[l].event_hash) : TRUE
<1> DEFINE T == {i \in 1..Len(p.receipts) : p.receipts[i].event_hash = p.receipts[l].event_hash}
<1>1. T \in SUBSET Nat /\ T # {}
  OBVIOUS
<1>2. PICK i \in T : \A j \in T : i <= j
  <2> HIDE DEF T
  <2> QED BY <1>1, LeastNumber
<1>3. \A j \in 1..(i - 1) : j \in 1..Len(p.receipts) /\ ~(i <= j)
  OBVIOUS
<1>4. i \in L!FirstStating(p, p.receipts[l].event_hash)
  BY <1>2, <1>3 DEF L!FirstStating
<1> QED BY <1>4

\* The edges of a committed receipt hold in its layered pack.
LEMMA PartHolds ==
    ASSUME BundleInv, VerdictInv, status = "Valid",
           NEW i \in 1..Len(bundle.receipts),
           bundle.receipts[i].event_hash \in Committed(bundle.manifest),
           bundle.receipts[i].payload_kind \in LayeredPackKinds,
           bundle.receipts[i].support_set # Malformed,
           ~L!Shadowed(PackOf(bundle.receipts[i]))
    PROVE  L!LayeredAcceptable(PackOf(bundle.receipts[i]))
<1> DEFINE r == bundle.receipts[i]
           h == r.event_hash
           p == PackOf(r)
           N == Len(bundle.receipts)
<1>1. /\ Committed(bundle.manifest) = reachable \ {root}
      /\ \A x \in reachable : \A k \in 1..Len(Members(index, x)) :
            LET m == Members(index, x)[k] IN
            IsDependency(m) => IsTyped(m) /\ classify_edge(index, m) = "Resolved"
      /\ \A S \in SUBSET reachable : ~CyclicSet(index, S)
  BY DEF BundleInv, ValidMeansClosed
<1>2. h \in reachable /\ h # root /\ h \in Hash
  BY <1>1 DEF BundleInv, WalkInv, WalkTypeOK
<1>3. /\ IsIndex(index)
      /\ root \in reachable /\ reachable \in SUBSET Hash /\ Closed(index, reachable)
      /\ \A S \in SUBSET Hash : root \in S /\ Closed(index, S) => reachable \subseteq S
  <2>1. phase # "walk"
    BY DEF BundleInv
  <2>2. WalkDone
    BY <1>2, <2>1 DEF VerdictInv, RootCall, WalkDone
  <2>3. ReachableIsLeastClosure
    BY WalkInvResults DEF BundleInv
  <2> QED BY <2>2, <2>3 DEF ReachableIsLeastClosure, BundleInv, WalkInv, WalkTypeOK
<1>4. RootHashReadable
  <2>1. bundle.root_canonical.verifies /\ bundle.root_canonical \in Supplied(bundle)
    BY DEF BundleInv, ValidMeansClosed, Supplied
  <2> QED BY <2>1 DEF VerdictInv, ContentAddressed, RootHashReadable
<1>5. N \in Nat /\ r \in Receipt /\ root \in Hash
  BY StringsOf DEF BundleInv, TypeOK, ClosureBundleInput, WalkTypeOK
<1>6. /\ p.json /\ p.format_ok
      /\ p.root_canonical.verifies = r.verifies
      /\ p.root_canonical.payload_kind = r.payload_kind
      /\ p.root_canonical.support_set = r.support_set
      /\ p.root_canonical.payload = (r.payload_kind # "")
      /\ Len(p.receipts) = N
      /\ \A j \in 1..N : /\ p.receipts[j].event_hash = bundle.receipts[j].event_hash
                         /\ p.receipts[j].payload_kind = bundle.receipts[j].payload_kind
                         /\ p.receipts[j].verifies = bundle.receipts[j].verifies
  <2>1. p.receipts = [j \in 1..N |-> SupplyOf(bundle.receipts[j])]
    BY DEF PackOf
  <2>2. Len(p.receipts) = N
    <3> HIDE DEF p, N
    <3> QED BY <1>5, <2>1
  <2>3. \A j \in 1..N : p.receipts[j] = SupplyOf(bundle.receipts[j])
    <3> HIDE DEF p, N
    <3> QED BY <2>1
  <2>4. /\ p.json /\ p.format_ok
        /\ p.root_canonical.verifies = r.verifies
        /\ p.root_canonical.payload_kind = r.payload_kind
        /\ p.root_canonical.support_set = r.support_set
        /\ p.root_canonical.payload = (r.payload_kind # "")
    BY DEF PackOf
  <2> HIDE DEF p
  <2>5. \A j \in 1..N : /\ p.receipts[j].event_hash = bundle.receipts[j].event_hash
                        /\ p.receipts[j].payload_kind = bundle.receipts[j].payload_kind
                        /\ p.receipts[j].verifies = bundle.receipts[j].verifies
    <3>1. ASSUME NEW x
          PROVE  /\ SupplyOf(x).event_hash = x.event_hash
                 /\ SupplyOf(x).payload_kind = x.payload_kind
                 /\ SupplyOf(x).verifies = x.verifies
      BY DEF SupplyOf
    <3> QED BY <2>3, <3>1, Zenon
  <2> QED BY <2>2, <2>4, <2>5, Zenon
<1>0. ~L!Shadowed(p)
  OBVIOUS
<1> HIDE DEF p
<1>7. ASSUME NEW j \in 1..N, NEW l \in 1..N, bundle.receipts[l].verifies,
             bundle.receipts[j].event_hash = bundle.receipts[l].event_hash,
             bundle.receipts[l].event_hash \in Hash
      PROVE  bundle.receipts[j].verifies
  <2>1. /\ p.receipts[l].event_hash = p.receipts[j].event_hash
        /\ p.receipts[l].event_hash # NoHash
        /\ p.receipts[l].verifies
    BY <1>6, <1>7, SentinelAssumption
  <2>2. p.receipts[j].verifies
    BY <1>0, <1>6, <2>1 DEF L!Shadowed
  <2> QED BY <1>6, <2>2
<1>8. PICK l \in 1..N :
         /\ bundle.receipts[l].event_hash = h
         /\ bundle.receipts[l].verifies
         /\ index[h] = ReadNode(bundle.receipts[l])
         /\ \A j \in 1..N : bundle.receipts[j].event_hash = h /\ bundle.receipts[j].verifies
               => bundle.receipts[j] = bundle.receipts[l]
  BY <1>2, <1>3, <1>4, <1>5, ReachedValid, NodeOfReceipt
<1>9. r.verifies /\ index[h] = ReadNode(r)
  BY <1>2, <1>7, <1>8
<1>10. Members(index, h) = r.support_set
  BY <1>2, <1>3, <1>5, <1>9, ReachedValid DEF Members, ReadNode
<1>11. ASSUME NEW k \in 1..Len(r.support_set)
       PROVE  L!EdgeHolds(p, r.support_set[k])
  <2> DEFINE m == r.support_set[k]
             g == m.event_hash
  <2>1. m \in Member
    BY <1>5, <1>10, <1>2, <1>3, MembersType
  <2>2. CASE m.member_kind = "other_member"
    BY <2>2 DEF L!EdgeHolds
  <2>3. CASE m.member_kind # "other_member"
    <3>1. IsDependency(m)
      BY <2>1, <2>3 DEF IsDependency, Member, MemberKinds
    <3>2. IsTyped(m) /\ classify_edge(index, m) = "Resolved"
      BY <1>1, <1>2, <1>10, <3>1
    <3>3. /\ g \in DOMAIN index
          /\ index[g].verify_status = "Valid"
          /\ index[g].payload_kind = m.target_schema
      BY <3>2 DEF classify_edge
    <3>4. ResolvedEdge(index, h, g)
      BY <1>10, <3>2 DEF ResolvedEdge
    <3>5. g # root
      BY <1>1, <1>2, <1>3, <3>4, BackEdgeIsCycle
    <3>6. PICK o \in 1..N :
             /\ bundle.receipts[o].event_hash = g
             /\ bundle.receipts[o].verifies
             /\ index[g] = ReadNode(bundle.receipts[o])
             /\ \A j \in 1..N : bundle.receipts[j].event_hash = g /\ bundle.receipts[j].verifies
                   => bundle.receipts[j] = bundle.receipts[o]
      BY <1>4, <3>3, <3>5, NodeOfReceipt
    <3>7. PICK f \in L!FirstStating(p, g) : TRUE
      <4>1. o \in 1..Len(p.receipts) /\ Len(p.receipts) \in Nat /\ p.receipts[o].event_hash = g
        BY <1>5, <1>6, <3>6
      <4> QED BY <4>1, FirstStated
    <3>8. f \in 1..N /\ bundle.receipts[f].event_hash = g
      BY <1>6, <3>7 DEF L!FirstStating
    <3>9. bundle.receipts[f].verifies
      BY <1>7, <2>1, <3>6, <3>8 DEF Member
    <3>10. bundle.receipts[f].payload_kind = m.target_schema
      BY <3>3, <3>6, <3>8, <3>9 DEF ReadNode
    <3> QED BY <1>6, <3>2, <3>7, <3>8, <3>9, <3>10 DEF L!EdgeHolds, IsTyped
  <2> QED BY <2>2, <2>3
<1>12. L!Admitted(p.root_canonical)
  BY <1>6, LayeredPackKindsAssumption DEF L!Admitted
<1> QED BY <1>6, <1>9, <1>11, <1>12 DEF L!LayeredAcceptable, p

\* A committed receipt of a layered kind, taken out of a VALID closure bundle of
\* any size with the same supply, is a layered pack that verifies: the two copies
\* of the edge rules agree wherever both speak.
THEOREM BundlePartsAreLayeredPacks == Spec => []PartsAreLayeredPacks
<1>1. BundleInv /\ VerdictInv => PartsAreLayeredPacks
  BY PartHolds DEF PartsAreLayeredPacks
<1> QED BY <1>1, BundleInvariants, PTL

=============================================================================
