---------------------------- MODULE ClosureWalk ----------------------------
(***************************************************************************)
(* The transitive walk over typed depends_on edges of closure_bundle.rs.   *)
(*                                                                         *)
(* `walk` is a recursive depth-first search over the index of receipts.    *)
(* The call stack is the variable `stack`: one frame per active call, with *)
(* the node of the call and the position of the next support member of its *)
(* `for` loop.  The mutable arguments (reachable, on_stack, edge_checks,   *)
(* cycle_detected) are variables of their own.                             *)
(***************************************************************************)
EXTENDS Naturals, Sequences, FiniteSets

CONSTANTS
    Hash,          \* event_hash values
    Kind,          \* payload_kind / target_schema values, "" included
    LayeredKinds   \* the layered-family kinds admitted in a closure bundle

VARIABLES
    index,           \* receipts by event_hash
    root,            \* the event_hash walk is called with
    stack,           \* active calls of walk, innermost last
    reachable,
    on_stack,
    edge_checks,
    cycle_detected

walkVars == <<index, root, stack, reachable, on_stack, edge_checks, cycle_detected>>

----------------------------------------------------------------------------
(* Data *)

MemberKinds == {"typed_receipt_dependency", "depended_on_receipt", "other_member"}

Member == [member_kind : MemberKinds, event_hash : Hash, target_schema : Kind]

Node == [payload_kind : Kind, support_set : Seq(Member), verify_status : {"Valid", "Invalid"}]

EdgeStatus == {"Resolved", "Missing", "Failed", "SchemaMismatch", "UntypedEdge"}

EdgeCheck == [event_hash : Hash, status : EdgeStatus]

Frame == [node : Hash, next : Nat \ {0}]

IsIndex(idx) ==
    /\ DOMAIN idx \subseteq Hash
    /\ IsFiniteSet(DOMAIN idx)
    /\ \A h \in DOMAIN idx : idx[h] \in Node

\* The support set a call iterates over; a hash that is not indexed has none.
Members(idx, h) == IF h \in DOMAIN idx THEN idx[h].support_set ELSE <<>>

IsTyped(m) == m.member_kind = "typed_receipt_dependency"

IsDependency(m) == m.member_kind \in {"typed_receipt_dependency", "depended_on_receipt"}

\* A mutant: the target is not verified.
classify_edge_unverified(idx, m) ==
    IF m.event_hash \notin DOMAIN idx THEN "Missing"
    ELSE IF idx[m.event_hash].payload_kind # m.target_schema
            \/ idx[m.event_hash].payload_kind \notin LayeredKinds
         THEN "SchemaMismatch"
         ELSE "Resolved"

\* A mutant: the kind of the target is not compared with the edge's.
classify_edge_any_schema(idx, m) ==
    IF m.event_hash \notin DOMAIN idx THEN "Missing"
    ELSE IF idx[m.event_hash].verify_status # "Valid" THEN "Failed"
    ELSE IF idx[m.event_hash].payload_kind \notin LayeredKinds THEN "SchemaMismatch"
    ELSE "Resolved"

classify_edge(idx, m) ==
    IF m.event_hash \notin DOMAIN idx THEN "Missing"
    ELSE LET n == idx[m.event_hash] IN
         IF n.verify_status # "Valid" THEN "Failed"
         ELSE IF n.payload_kind # m.target_schema \/ n.payload_kind \notin LayeredKinds
              THEN "SchemaMismatch"
              ELSE "Resolved"

\* The EdgeCheck recorded for a dependency member.
CheckOf(idx, m) ==
    [event_hash |-> m.event_hash,
     status |-> IF IsTyped(m) THEN classify_edge(idx, m) ELSE "UntypedEdge"]

----------------------------------------------------------------------------
(* The walk *)

WalkInit ==
    /\ IsIndex(index)
    /\ root \in Hash
    /\ stack = <<>>
    /\ reachable = {}
    /\ on_stack = {}
    /\ edge_checks = <<>>
    /\ cycle_detected = FALSE

Top == stack[Len(stack)]

Call(h) == [node |-> h, next |-> 1]

\* The frame stack with the innermost loop moved past its current member.
Advanced == [stack EXCEPT ![Len(stack)].next = @ + 1]

CurrentMember == Members(index, Top.node)[Top.next]

InLoop == stack # <<>> /\ Top.next <= Len(Members(index, Top.node))

\* The outermost call: reachable is empty, so the early return is not taken.
Start ==
    /\ reachable = {}
    /\ stack' = <<Call(root)>>
    /\ reachable' = {root}
    /\ on_stack' = {root}
    /\ UNCHANGED <<index, root, edge_checks, cycle_detected>>

Record(m) == edge_checks' = Append(edge_checks, CheckOf(index, m))

\* A mutant: only an edge of a receipt to itself is a cycle.
CycleEdgeSelfOnly ==
    /\ InLoop
    /\ LET m == CurrentMember IN
       /\ IsTyped(m)
       /\ m.event_hash \in on_stack
       /\ Record(m)
       /\ cycle_detected' = (cycle_detected \/ m.event_hash = Top.node)
    /\ stack' = Advanced
    /\ UNCHANGED <<index, root, reachable, on_stack>>

\* A typed edge back into an active call, whatever its status.
CycleEdge ==
    /\ InLoop
    /\ LET m == CurrentMember IN
       /\ IsTyped(m)
       /\ m.event_hash \in on_stack
       /\ Record(m)
    /\ cycle_detected' = TRUE
    /\ stack' = Advanced
    /\ UNCHANGED <<index, root, reachable, on_stack>>

\* A mutant: the status is recorded but not tested before the call.
DescendAnyEdge ==
    /\ InLoop
    /\ LET m == CurrentMember IN
       /\ IsTyped(m)
       /\ m.event_hash \notin on_stack
       /\ m.event_hash \notin reachable
       /\ Record(m)
       /\ stack' = Append(Advanced, Call(m.event_hash))
       /\ reachable' = reachable \union {m.event_hash}
       /\ on_stack' = on_stack \union {m.event_hash}
    /\ UNCHANGED <<index, root, cycle_detected>>

\* A mutant: a receipt is marked only when its call returns.
DescendUnmarked ==
    /\ InLoop
    /\ LET m == CurrentMember IN
       /\ IsTyped(m)
       /\ m.event_hash \notin on_stack
       /\ classify_edge(index, m) = "Resolved"
       /\ m.event_hash \notin reachable
       /\ Record(m)
       /\ stack' = Append(Advanced, Call(m.event_hash))
    /\ UNCHANGED <<index, root, reachable, on_stack, cycle_detected>>

\* A resolved edge to a receipt not seen before: walk calls itself.
DescendEdge ==
    /\ InLoop
    /\ LET m == CurrentMember IN
       /\ IsTyped(m)
       /\ m.event_hash \notin on_stack
       /\ classify_edge(index, m) = "Resolved"
       /\ m.event_hash \notin reachable
       /\ Record(m)
       /\ stack' = Append(Advanced, Call(m.event_hash))
       /\ reachable' = reachable \union {m.event_hash}
       /\ on_stack' = on_stack \union {m.event_hash}
    /\ UNCHANGED <<index, root, cycle_detected>>

\* A mutant: no early return, a finished receipt is walked again.
RevisitReenters ==
    /\ InLoop
    /\ LET m == CurrentMember IN
       /\ IsTyped(m)
       /\ m.event_hash \notin on_stack
       /\ classify_edge(index, m) = "Resolved"
       /\ m.event_hash \in reachable
       /\ Record(m)
       /\ stack' = Append(Advanced, Call(m.event_hash))
       /\ on_stack' = on_stack \union {m.event_hash}
    /\ UNCHANGED <<index, root, reachable, cycle_detected>>

\* A resolved edge to a finished receipt: the nested call returns at once.
RevisitEdge ==
    /\ InLoop
    /\ LET m == CurrentMember IN
       /\ IsTyped(m)
       /\ m.event_hash \notin on_stack
       /\ classify_edge(index, m) = "Resolved"
       /\ m.event_hash \in reachable
       /\ Record(m)
    /\ stack' = Advanced
    /\ UNCHANGED <<index, root, reachable, on_stack, cycle_detected>>

\* A mutant: an edge that does not resolve leaves no trace.
RejectUnrecorded ==
    /\ InLoop
    /\ IsTyped(CurrentMember)
    /\ CurrentMember.event_hash \notin on_stack
    /\ classify_edge(index, CurrentMember) # "Resolved"
    /\ stack' = Advanced
    /\ UNCHANGED <<index, root, reachable, on_stack, edge_checks, cycle_detected>>

\* A typed edge that does not resolve is recorded and not followed.
RejectEdge ==
    /\ InLoop
    /\ LET m == CurrentMember IN
       /\ IsTyped(m)
       /\ m.event_hash \notin on_stack
       /\ classify_edge(index, m) # "Resolved"
       /\ Record(m)
    /\ stack' = Advanced
    /\ UNCHANGED <<index, root, reachable, on_stack, cycle_detected>>

UntypedEdge ==
    /\ InLoop
    /\ LET m == CurrentMember IN
       /\ m.member_kind = "depended_on_receipt"
       /\ Record(m)
    /\ stack' = Advanced
    /\ UNCHANGED <<index, root, reachable, on_stack, cycle_detected>>

\* A mutant: the loop does not move past a skipped member.
SkipWithoutAdvance ==
    /\ InLoop
    /\ CurrentMember.member_kind = "other_member"
    /\ UNCHANGED walkVars

\* Cited links, evidence digests and selector values are skipped.
SkipMember ==
    /\ InLoop
    /\ CurrentMember.member_kind = "other_member"
    /\ stack' = Advanced
    /\ UNCHANGED <<index, root, reachable, on_stack, edge_checks, cycle_detected>>

\* A mutant: the node stays on_stack, so two paths look like a cycle.
ReturnKeepsOnStack ==
    /\ stack # <<>>
    /\ Top.next > Len(Members(index, Top.node))
    /\ stack' = SubSeq(stack, 1, Len(stack) - 1)
    /\ UNCHANGED <<index, root, reachable, on_stack, edge_checks, cycle_detected>>

\* The loop is over: the node leaves on_stack and the call returns.
Return ==
    /\ stack # <<>>
    /\ Top.next > Len(Members(index, Top.node))
    /\ on_stack' = on_stack \ {Top.node}
    /\ stack' = SubSeq(stack, 1, Len(stack) - 1)
    /\ UNCHANGED <<index, root, reachable, edge_checks, cycle_detected>>

WalkStep ==
    \/ CycleEdge
    \/ DescendEdge
    \/ RevisitEdge
    \/ RejectEdge
    \/ UntypedEdge
    \/ SkipMember
    \/ Return

WalkNext == Start \/ WalkStep

WalkSpec == WalkInit /\ [][WalkNext]_walkVars

WalkDone == reachable # {} /\ stack = <<>>

----------------------------------------------------------------------------
(* The graph the walk explores *)

\* Member k of node h is a typed edge to g, with whatever status.
TypedEdge(idx, h, g) ==
    \E k \in 1..Len(Members(idx, h)) :
        IsTyped(Members(idx, h)[k]) /\ Members(idx, h)[k].event_hash = g

ResolvedEdge(idx, h, g) ==
    \E k \in 1..Len(Members(idx, h)) :
        LET m == Members(idx, h)[k] IN
        IsTyped(m) /\ m.event_hash = g /\ classify_edge(idx, m) = "Resolved"

\* S is closed under resolved edges.
Closed(idx, S) == \A h \in S, g \in Hash : ResolvedEdge(idx, h, g) => g \in S

\* Every node of the non-empty set S has a typed edge into S: a finite graph
\* holds such a set if and only if it holds a cycle.
CyclicSet(idx, S) == S # {} /\ \A h \in S : \E g \in S : TypedEdge(idx, h, g)

ResolvedCyclicSet(idx, S) == S # {} /\ \A h \in S : \E g \in S : ResolvedEdge(idx, h, g)

----------------------------------------------------------------------------
(* Properties *)

\* Every variable of the walk keeps its type.
WalkTypeOK ==
    /\ IsIndex(index)
    /\ root \in Hash
    /\ stack \in Seq(Frame)
    /\ reachable \subseteq Hash
    /\ on_stack \subseteq Hash
    /\ edge_checks \in Seq(EdgeCheck)
    /\ cycle_detected \in BOOLEAN

\* When `walk` returns, reachable is the least set of receipts that holds the
\* root and is closed under resolved edges: no dependency is skipped because it
\* was met through several paths or a cycle, and none is added that no chain of
\* resolved edges leads to.
ReachableIsLeastClosure ==
    WalkDone =>
        /\ root \in reachable
        /\ Closed(index, reachable)
        /\ \A S \in SUBSET Hash : root \in S /\ Closed(index, S) => reachable \subseteq S

\* When `walk` returns without cycle_detected, the resolved edges among the
\* reachable receipts form no cycle.
NoCycleMissed ==
    WalkDone /\ ~cycle_detected =>
        \A S \in SUBSET reachable : ~ResolvedCyclicSet(index, S)

\* cycle_detected is set only when typed edges among receipts already reached
\* form a cycle: a diamond (two paths to one receipt) is never mistaken for one.
NoFalseCycle ==
    cycle_detected => \E S \in SUBSET reachable : CyclicSet(index, S)

\* When `walk` returns, every dependency member of every reachable receipt has
\* its EdgeCheck, however often its receipt was met.
EveryEdgeChecked ==
    WalkDone =>
        \A h \in reachable : \A k \in 1..Len(Members(index, h)) :
            LET m == Members(index, h)[k] IN
            IsDependency(m) => \E j \in 1..Len(edge_checks) : edge_checks[j] = CheckOf(index, m)

\* The dependency members of the receipts in S, each a receipt and a position.
DependencyMembers(S) ==
    UNION {{h} \X {k \in 1..Len(Members(index, h)) : IsDependency(Members(index, h)[k])} : h \in S}

\* Those of P that are recorded as the check c.
RecordedAs(P, c) == {p \in P : CheckOf(index, Members(index, p[1])[p[2]]) = c}

ChecksEqual(c) == {j \in 1..Len(edge_checks) : edge_checks[j] = c}

\* When `walk` returns, edge_checks holds exactly one EdgeCheck per dependency
\* member of the reachable receipts: none is left out, none is reported that is
\* not one, and a receipt met through several paths is not reported twice
\* ("Records one EdgeCheck per dependency member").
OneCheckPerMember ==
    WalkDone =>
        \A c \in EdgeCheck :
            Cardinality(ChecksEqual(c)) = Cardinality(RecordedAs(DependencyMembers(reachable), c))

\* However the receipts depend on each other, the recursion of `walk` is never
\* deeper than there are receipts: a call in progress is not made a second time,
\* whether its receipt is met over a cycle or over a second path.
DepthIsBounded == Len(stack) <= Cardinality(DOMAIN index \union {root})

Unreached == (DOMAIN index \union {root}) \ reachable

\* The steps the innermost loop still has before it, its end included.
LoopLeft == IF stack = <<>> THEN 0 ELSE Len(Members(index, Top.node)) + 2 - Top.next

\* What is left of the walk, the most significant part first.
Left == <<Cardinality(Unreached), Len(stack), LoopLeft>>

\* The lexicographic order of triples of natural numbers, which is well-founded.
Before(a, b) ==
    /\ a \in Nat \X Nat \X Nat
    /\ b \in Nat \X Nat \X Nat
    /\ \/ a[1] < b[1]
       \/ a[1] = b[1] /\ a[2] < b[2]
       \/ a[1] = b[1] /\ a[2] = b[2] /\ a[3] < b[3]

\* Every step brings the end of the walk nearer, on cyclic graphs too: it reaches
\* a receipt that was not reached, or ends a call without reaching any, or moves
\* the innermost loop on.  So no walk takes infinitely many steps, whatever the
\* scheduling ("if reachable.contains(node_hash) return" is what ends it).
EveryStepDescends == [][Before(Left', Left)]_walkVars

----------------------------------------------------------------------------
(* The inductive invariant behind the properties *)

\* The calls are nested: on_stack holds the nodes of the active calls, no node
\* is active twice, and each call was made by the one below it for the member
\* that one has just passed.
StackInv ==
    /\ \A i \in 1..Len(stack) : stack[i].node \in on_stack
    /\ \A h \in on_stack : \E i \in 1..Len(stack) : stack[i].node = h
    /\ \A i, j \in 1..Len(stack) : stack[i].node = stack[j].node => i = j
    /\ on_stack \subseteq reachable
    /\ \A i \in 1..Len(stack) : stack[i].next <= Len(Members(index, stack[i].node)) + 1
    /\ \A i \in 1..Len(stack) :
          i < Len(stack) => ResolvedEdge(index, stack[i].node, stack[i + 1].node)

\* Before the outermost call nothing is recorded; after it the root is reached.
StartInv ==
    /\ reachable # {} => root \in reachable
    /\ reachable = {} => stack = <<>> /\ ~cycle_detected

\* The loop of node h has passed member k.
Passed(h, k) ==
    /\ h \in reachable
    /\ \A i \in 1..Len(stack) : stack[i].node = h => k < stack[i].next

Resolves(h, k) ==
    IsTyped(Members(index, h)[k]) /\ classify_edge(index, Members(index, h)[k]) = "Resolved"

\* The target of every resolved member a loop has passed is reachable.
PassedReachable ==
    \A h \in Hash : \A k \in 1..Len(Members(index, h)) :
        Passed(h, k) /\ Resolves(h, k) => Members(index, h)[k].event_hash \in reachable

ReachableMinimal ==
    \A S \in SUBSET Hash : root \in S /\ Closed(index, S) => reachable \subseteq S

PassedChecked ==
    \A h \in Hash : \A k \in 1..Len(Members(index, h)) :
        Passed(h, k) /\ IsDependency(Members(index, h)[k]) =>
            \E j \in 1..Len(edge_checks) : edge_checks[j] = CheckOf(index, Members(index, h)[k])

\* Each dependency member a loop has passed was recorded once.
PassedMembers == {p \in DependencyMembers(reachable) : Passed(p[1], p[2])}

PassedCounted ==
    \A c \in EdgeCheck :
        /\ IsFiniteSet(RecordedAs(PassedMembers, c))
        /\ Cardinality(ChecksEqual(c)) = Cardinality(RecordedAs(PassedMembers, c))

Finished == reachable \ on_stack

\* While no cycle was met, the resolved targets of a finished node are finished,
\* and those an active call has passed are finished or the call above it.
PassedFinished ==
    ~cycle_detected =>
        /\ \A h \in Finished : \A g \in Hash : ResolvedEdge(index, h, g) => g \in Finished
        /\ \A i \in 1..Len(stack) : \A k \in 1..Len(Members(index, stack[i].node)) :
              k < stack[i].next /\ Resolves(stack[i].node, k) =>
                LET g == Members(index, stack[i].node)[k].event_hash IN
                g \in Finished \/ (i < Len(stack) /\ g = stack[i + 1].node)

\* While no cycle was met, the finished nodes hold none.
FinishedAcyclic ==
    ~cycle_detected => \A S \in SUBSET Finished : ~ResolvedCyclicSet(index, S)

\* The calls of `walk` stay nested, and what the loops have passed is reached,
\* checked and, while no cycle was met, finished without one: the facts that
\* make the results of the walk right when it returns.
WalkInv ==
    /\ WalkTypeOK
    /\ StackInv
    /\ StartInv
    /\ PassedReachable
    /\ ReachableMinimal
    /\ PassedChecked
    /\ PassedCounted
    /\ PassedFinished
    /\ FinishedAcyclic
    /\ NoFalseCycle

=============================================================================
