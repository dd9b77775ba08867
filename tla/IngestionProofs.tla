-------------------------- MODULE IngestionProofs --------------------------
(***************************************************************************)
(* Proofs about ingestion: what the structural limits bound, that the walk *)
(* over a JSON value accepts exactly the values within them, and what the  *)
(* checks around it accept, for every value and every limits.              *)
(***************************************************************************)
EXTENDS Ingestion, SequenceTheorems, FiniteSetTheorems, WellFoundedInduction, TLAPS

\* A call of walk keeps the bounds: it ends the walk, or it passed the checks of
\* the depth and of the count.
LEMMA VisitKeeps ==
    ASSUME limits \in VerifierLimits, limits' = limits, node_count \in Nat,
           node_count <= limits.max_node_count,
           NEW n, NEW S, NEW calls \in Seq(S), Visit(n, calls)
    PROVE  BoundInv'
<1>1. limits.max_node_count \in Nat /\ limits.max_depth \in Nat /\ Len(calls) \in Nat
  BY DEF VerifierLimits
<1>2. CASE stack' = <<>>
  <2>1. stack' \in Seq({stack'[k] : k \in 1..Len(stack')}) /\ Len(stack') = 0
    BY <1>2
  <2>2. /\ node_count' \in Nat /\ node_count' <= limits.max_node_count + 1
        /\ violation' = "none" => node_count' <= limits.max_node_count
    BY <1>1 DEF Visit
  <2> QED BY <1>1, <1>2, <2>1, <2>2 DEF BoundInv, WorkIsBounded
<1>3. CASE stack' # <<>>
  <2> DEFINE frame == [node |-> n, pending |-> Children(tree, n)]
  <2>1. /\ Len(calls) <= limits.max_depth
        /\ node_count' = node_count + 1
        /\ violation' = "none" /\ node_count + 1 <= limits.max_node_count
        /\ stack' = Append(calls, frame)
    BY <1>1, <1>3 DEF Visit
  <2> HIDE DEF frame
  <2>2. stack' \in Seq(S \union {frame}) /\ Len(stack') = Len(calls) + 1
    BY <2>1
  <2>3. stack' \in Seq({stack'[k] : k \in 1..Len(stack')})
    BY <2>2
  <2> QED BY <1>1, <2>1, <2>2, <2>3 DEF BoundInv, WorkIsBounded
<1> QED BY <1>2, <1>3

LEMMA StartKeeps == ASSUME BoundInv, StartCheck PROVE BoundInv'
<1>1. /\ limits \in VerifierLimits /\ limits' = limits /\ node_count \in Nat
      /\ node_count <= limits.max_node_count /\ Visit(1, <<>>) /\ <<>> \in Seq({})
  BY DEF BoundInv, StartCheck
<1> QED BY <1>1, VisitKeeps

LEMMA VisitChildKeeps == ASSUME BoundInv, VisitChild PROVE BoundInv'
<1> DEFINE c == NextChild(Top)
           calls == [stack EXCEPT ![Len(stack)].pending = @ \ {c}]
<1>1. /\ limits \in VerifierLimits /\ limits' = limits /\ node_count \in Nat
      /\ node_count <= limits.max_node_count /\ Visit(c, calls)
  BY DEF BoundInv, VisitChild
<1> DEFINE frame == [Top EXCEPT !.pending = @ \ {c}]
           S == {stack[n] : n \in 1..Len(stack)} \union {frame}
<1>2. stack \in Seq(S) /\ Len(stack) \in 1..Len(stack) /\ frame \in S
  BY DEF BoundInv, VisitChild
<1>3. calls = [stack EXCEPT ![Len(stack)] = frame]
  BY DEF Top
<1> HIDE DEF frame, S, c, calls
<1>4. calls \in Seq(S)
  BY <1>2, <1>3, ExceptSeq
<1> QED BY <1>1, <1>4, VisitKeeps

LEMMA ReturnKeeps == ASSUME BoundInv, ReturnFromWalk PROVE BoundInv'
<1> DEFINE len == Len(stack) - 1
<1>1. stack # <<>> /\ len \in Nat /\ stack' = SubSeq(stack, 1, len)
      /\ UNCHANGED <<limits, node_count, violation>>
  BY DEF BoundInv, ReturnFromWalk
<1> DEFINE S == {stack[n] : n \in 1..Len(stack)}
<1>2. Len(stack') = len /\ stack' \in Seq(S)
  <2>1. 1 \in Int /\ len \in Int /\ \A i \in 1..len : stack[i] \in S
    BY <1>1 DEF BoundInv
  <2> HIDE DEF S, len
  <2>2. len = IF 1 <= len THEN len - 1 + 1 ELSE 0
    BY <1>1
  <2> QED BY <1>1, <2>1, <2>2, SubSeqProperties
<1>3. stack' \in Seq({stack'[n] : n \in 1..Len(stack')})
  BY <1>2
<1>4. WorkIsBounded'
  <2>1. /\ limits.max_depth \in Nat /\ Len(stack) <= limits.max_depth + 1
        /\ node_count <= limits.max_node_count + 1
    BY DEF BoundInv, VerifierLimits, WorkIsBounded
  <2>2. Len(stack') <= Len(stack) /\ Len(stack') \in Nat /\ Len(stack) \in Nat
    BY <1>1, <1>2 DEF BoundInv
  <2> QED BY <1>1, <2>1, <2>2 DEF WorkIsBounded
<1> QED BY <1>1, <1>3, <1>4 DEF BoundInv

LEMMA BoundStutter == BoundInv /\ UNCHANGED limitVars => BoundInv'
BY DEF BoundInv, WorkIsBounded, limitVars

\* What the limits are for (limits.rs, walk): however large and deep the value, at
\* most max_node_count nodes and one more are visited, and at most max_depth + 1
\* calls are active at once.
THEOREM IngestionWorkIsBounded == Spec => []WorkIsBounded
<1>1. Init => BoundInv
  BY DEF Init, LimitsInit, BoundInv, WorkIsBounded, VerifierLimits
<1>2. BoundInv /\ [Next]_vars => BoundInv'
  <2> SUFFICES ASSUME BoundInv, [Next]_vars PROVE BoundInv'
    OBVIOUS
  <2>1. CASE CheckStructure
    BY <2>1, StartKeeps DEF CheckStructure
  <2>2. CASE WalkStructure
    BY <2>2, VisitChildKeeps, ReturnKeeps DEF WalkStructure, CheckStep
  <2>3. CASE UNCHANGED limitVars
    BY <2>3, BoundStutter
  <2> QED
    BY <2>1, <2>2, <2>3
    DEF Next, vars, CheckBytes, Admit, AfterStructure, IngestEnvelope, IngestElement, ReturnChain
<1>3. BoundInv => WorkIsBounded
  BY DEF BoundInv
<1> QED BY <1>1, <1>2, <1>3, PTL DEF Spec

----------------------------------------------------------------------------
(* Trees *)

LEMMA LeastNumber ==
    ASSUME NEW S, S \subseteq Nat, S # {}
    PROVE  \E x \in S : \A y \in S : x <= y
<1> DEFINE less == OpToRel(<, Nat)
<1>1. IsWellFoundedOn(less, Nat)
  BY NatLessThanWellFounded
<1>2. \A x, y \in Nat : x < y => <<x, y>> \in less
  BY DEF OpToRel
<1> HIDE DEF less
<1>3. PICK x \in S : \A y \in S : ~(<<y, x>> \in less)
  BY WFMin, <1>1
<1>4. \A y \in S : ~(y < x)
  BY <1>2, <1>3
<1> QED BY <1>3, <1>4

\* The nodes of a tree; every node but the root has its parent before it.
LEMMA TreeNodes ==
    ASSUME NEW t, IsTree(t)
    PROVE  /\ 1 \in Nodes(t)
           /\ Nodes(t) \subseteq Nat \ {0}
           /\ IsFiniteSet(Nodes(t))
           /\ \A c \in Nodes(t) \ {1} : t.parent[c] \in Nodes(t) /\ t.parent[c] < c
           /\ \A n, c \in Nodes(t) : c \in Children(t, n) <=> c # 1 /\ t.parent[c] = n
           /\ \A n : Children(t, n) \subseteq Nodes(t) /\ IsFiniteSet(Children(t, n))
<1>1. t.size \in Nat \ {0} /\ Nodes(t) = 1..t.size
  BY DEF IsTree, Nodes
<1>2. IsFiniteSet(Nodes(t))
  BY <1>1, FS_Interval
<1>3. \A n : Children(t, n) \subseteq Nodes(t) /\ IsFiniteSet(Children(t, n))
  BY <1>2, FS_Subset DEF Children
<1>4. \A c \in Nodes(t) \ {1} : t.parent[c] \in Nodes(t) /\ t.parent[c] < c
  <2> TAKE c \in Nodes(t) \ {1}
  <2>1. c \in 2..t.size
    BY <1>1
  <2> QED BY <2>1 DEF IsTree
<1>5. \A n, c \in Nodes(t) : c \in Children(t, n) <=> c # 1 /\ t.parent[c] = n
  BY DEF Children
<1>6. 1 \in Nodes(t) /\ Nodes(t) \subseteq Nat \ {0}
  BY <1>1
<1> QED BY <1>2, <1>3, <1>4, <1>5, <1>6

\* The path to a node holds it and the parents of its nodes, and nothing else.
LEMMA PathOf ==
    ASSUME NEW t, IsTree(t), NEW n \in Nodes(t)
    PROVE  /\ n \in Path(t, n)
           /\ Path(t, n) \subseteq Nodes(t)
           /\ UpClosed(t, Path(t, n))
           /\ IsFiniteSet(Path(t, n))
           /\ \A S \in SUBSET Nodes(t) : n \in S /\ UpClosed(t, S) => Path(t, n) \subseteq S
<1>1. n \in Path(t, n) /\ Path(t, n) \subseteq Nodes(t)
  BY DEF Path
<1>2. UpClosed(t, Path(t, n))
  BY TreeNodes DEF Path, UpClosed
<1>3. IsFiniteSet(Path(t, n))
  BY <1>1, TreeNodes, FS_Subset
<1>4. \A S \in SUBSET Nodes(t) : n \in S /\ UpClosed(t, S) => Path(t, n) \subseteq S
  BY DEF Path
<1> QED BY <1>1, <1>2, <1>3, <1>4

\* Every path begins at the root.
LEMMA PathFromRoot ==
    ASSUME NEW t, IsTree(t), NEW n \in Nodes(t)
    PROVE  1 \in Path(t, n)
<1>1. Path(t, n) \subseteq Nat /\ Path(t, n) # {}
  BY PathOf, TreeNodes
<1>2. PICK m \in Path(t, n) : \A k \in Path(t, n) : m <= k
  BY <1>1, LeastNumber
<1>3. ASSUME m # 1 PROVE FALSE
  <2>1. m \in Nodes(t) \ {1} /\ t.parent[m] \in Path(t, n)
    BY <1>3, PathOf DEF UpClosed
  <2>2. t.parent[m] < m /\ t.parent[m] \in Nat /\ m \in Nat
    BY <2>1, TreeNodes
  <2> QED BY <1>2, <2>1, <2>2
<1> QED BY <1>2, <1>3

LEMMA PathOfRoot ==
    ASSUME NEW t, IsTree(t)
    PROVE  Path(t, 1) = {1}
<1>1. UpClosed(t, {1}) /\ 1 \in Nodes(t) /\ {1} \in SUBSET Nodes(t)
  BY TreeNodes DEF UpClosed
<1> QED BY <1>1, PathOf

\* No node of a path comes after its end.
LEMMA PathBefore ==
    ASSUME NEW t, IsTree(t), NEW n \in Nodes(t), NEW m \in Path(t, n)
    PROVE  m \in Nodes(t) /\ m <= n
<1> DEFINE S == {k \in Nodes(t) : k <= n}
<1>1. UpClosed(t, S)
  BY TreeNodes DEF UpClosed
<1>2. n \in S /\ S \in SUBSET Nodes(t)
  BY TreeNodes
<1> QED BY <1>1, <1>2, PathOf

\* The path to a child is the path to its parent and the child.
LEMMA PathToChild ==
    ASSUME NEW t, IsTree(t), NEW p \in Nodes(t), NEW c \in Children(t, p)
    PROVE  /\ Path(t, c) = Path(t, p) \union {c}
           /\ p < c
           /\ Cardinality(Path(t, c)) = Cardinality(Path(t, p)) + 1
<1>1. c \in Nodes(t) \ {1} /\ t.parent[c] = p /\ p < c
  BY TreeNodes DEF Children
<1>2. UpClosed(t, Path(t, p) \union {c})
  BY <1>1, PathOf DEF UpClosed
<1>3. Path(t, c) \subseteq Path(t, p) \union {c}
  BY <1>1, <1>2, PathOf
<1>4. p \in Path(t, c)
  BY <1>1, PathOf DEF UpClosed
<1>5. Path(t, p) \subseteq Path(t, c)
  BY <1>1, <1>4, PathOf
<1>6. Path(t, c) = Path(t, p) \union {c}
  BY <1>1, <1>3, <1>5, PathOf
<1>7. c \notin Path(t, p)
  <2>1. ~(c <= p)
    BY <1>1, TreeNodes
  <2> QED BY <2>1, PathBefore
<1>8. Cardinality(Path(t, p) \union {c}) = Cardinality(Path(t, p)) + 1
  BY <1>7, PathOf, FS_AddElement
<1> QED BY <1>1, <1>6, <1>8

\* A path that goes through a node goes on to one of its children or ends there.
LEMMA PathGoesOn ==
    ASSUME NEW t, IsTree(t), NEW n \in Nodes(t), NEW c \in Path(t, n), n # c
    PROVE  \E d \in Children(t, c) : d \in Path(t, n)
<1> SUFFICES ASSUME \A d \in Children(t, c) : d \notin Path(t, n) PROVE FALSE
  OBVIOUS
<1> DEFINE S == Path(t, n) \ {c}
<1>1. UpClosed(t, S)
  <2> SUFFICES ASSUME NEW m \in S \ {1} PROVE t.parent[m] \in S
    BY DEF UpClosed
  <2>1. m \in Nodes(t) /\ t.parent[m] \in Path(t, n)
    BY PathOf DEF UpClosed
  <2>2. t.parent[m] # c
    BY <2>1, PathOf, TreeNodes
  <2> QED BY <2>1, <2>2
<1> QED BY <1>1, PathOf

LEMMA WholeTree ==
    ASSUME NEW t, IsTree(t)
    PROVE  /\ Subtree(t, 1) = Nodes(t)
           /\ Cardinality(Path(t, 1)) = 1
           /\ Cardinality(Nodes(t)) = t.size
<1>1. Subtree(t, 1) = Nodes(t)
  BY PathFromRoot DEF Subtree
<1>2. Cardinality(Path(t, 1)) = 1
  BY PathOfRoot, FS_Singleton
<1>3. Cardinality(1..t.size) = t.size
  <2>1. 1 \in Int /\ t.size \in Int /\ ~(1 > t.size) /\ (t.size - 1) + 1 = t.size
    BY DEF IsTree
  <2>2. Cardinality(1..t.size) = IF 1 > t.size THEN 0 ELSE t.size - 1 + 1
    BY <2>1, FS_Interval
  <2> QED BY <2>1, <2>2
<1> QED BY <1>1, <1>2, <1>3 DEF Nodes

\* Paths have a length, and every node has children to count.
LEMMA TreeCounts ==
    ASSUME NEW t, IsTree(t), NEW n \in Nodes(t)
    PROVE  /\ Cardinality(Path(t, n)) \in Nat \ {0}
           /\ Cardinality(Children(t, n)) \in Nat
<1>1. Cardinality(Path(t, n)) \in Nat /\ Cardinality(Path(t, n)) # 0
  BY PathOf, FS_CardinalityType, FS_EmptySet
<1>2. Cardinality(Children(t, n)) \in Nat
  BY TreeNodes, FS_CardinalityType
<1> QED BY <1>1, <1>2

----------------------------------------------------------------------------
(* The walk *)

\* The children pending in a list of calls.
PendingIn(calls) == UNION {calls[i].pending : i \in 1..Len(calls)}

\* Before the call for node n, made under the given calls: seen is what was visited,
\* and the call opens n's children and nothing else.
Ready(n, calls, seen) ==
    LET open == PendingIn(calls) \union Children(tree, n) IN
    /\ n \in Nodes(tree) \ seen
    /\ seen \subseteq Nodes(tree)
    /\ calls \in Seq(Frame(tree))
    /\ Cardinality(Path(tree, n)) = Len(calls) + 1
    /\ node_count = Cardinality(seen)
    /\ \A v \in seen : NodeWithin(tree, 1, v, limits)
    /\ \A m \in Nodes(tree) : Path(tree, m) \intersect open = {} <=> m \in seen \union {n}
    /\ \A i \in 1..Len(calls) :
          /\ calls[i].pending \subseteq Children(tree, calls[i].node)
          /\ calls[i].node \in seen
          /\ Cardinality(Path(tree, calls[i].node)) = i
          /\ calls[i].node < n
          /\ \A j \in 1..(i - 1) : calls[j].node < calls[i].node

LEMMA PushedFrame ==
    ASSUME NEW calls \in Seq(Frame(tree)), NEW n \in Nodes(tree), IsTree(tree)
    PROVE  LET pushed == Append(calls, [node |-> n, pending |-> Children(tree, n)]) IN
           /\ pushed \in Seq(Frame(tree))
           /\ Len(pushed) = Len(calls) + 1
           /\ Len(calls) \in Nat
           /\ \A i \in 1..Len(calls) : pushed[i] = calls[i]
           /\ pushed[Len(calls) + 1].node = n
           /\ pushed[Len(calls) + 1].pending = Children(tree, n)
           /\ PendingIn(pushed) = PendingIn(calls) \union Children(tree, n)
<1> DEFINE frame == [node |-> n, pending |-> Children(tree, n)]
           pushed == Append(calls, frame)
<1>1. frame \in Frame(tree) /\ frame.node = n /\ frame.pending = Children(tree, n)
  BY TreeNodes DEF Frame
<1> HIDE DEF frame
<1>2. /\ pushed \in Seq(Frame(tree))
      /\ Len(pushed) = Len(calls) + 1
      /\ Len(calls) \in Nat
      /\ \A i \in 1..Len(calls) : pushed[i] = calls[i]
      /\ pushed[Len(calls) + 1] = frame
  BY <1>1
<1>3. PendingIn(pushed) = PendingIn(calls) \union Children(tree, n)
  <2> HIDE DEF pushed
  <2>1. ASSUME NEW x \in PendingIn(pushed) PROVE x \in PendingIn(calls) \union Children(tree, n)
    <3>1. PICK i \in 1..Len(pushed) : x \in pushed[i].pending
      BY <2>1 DEF PendingIn
    <3>2. i \in 1..Len(calls) \/ i = Len(calls) + 1
      BY <1>2, <3>1
    <3> QED BY <1>1, <1>2, <3>1, <3>2 DEF PendingIn
  <2>2. ASSUME NEW x \in PendingIn(calls) PROVE x \in PendingIn(pushed)
    <3>1. PICK i \in 1..Len(calls) : x \in calls[i].pending
      BY <2>2 DEF PendingIn
    <3>2. i \in 1..Len(pushed)
      BY <1>2, <3>1
    <3> QED BY <1>2, <3>1, <3>2 DEF PendingIn
  <2>3. ASSUME NEW x \in Children(tree, n) PROVE x \in PendingIn(pushed)
    <3>1. Len(calls) + 1 \in 1..Len(pushed)
      BY <1>2
    <3> QED BY <1>1, <1>2, <2>3, <3>1 DEF PendingIn
  <2> QED BY <2>1, <2>2, <2>3
<1> QED BY <1>1, <1>2, <1>3 DEF frame

\* The size check of a call meets no limit exactly when the node's size is within.
LEMMA SizeChecked ==
    ASSUME IsTree(tree), limits \in VerifierLimits, NEW n \in Nodes(tree)
    PROVE  SizeViolation(n) = "none" <=>
              /\ tree.type[n] = "object" => Cardinality(Children(tree, n)) <= limits.max_object_size
              /\ tree.type[n] = "array" => Cardinality(Children(tree, n)) <= limits.max_array_size
<1>1. /\ Cardinality(Children(tree, n)) \in Nat
      /\ limits.max_object_size \in Nat /\ limits.max_array_size \in Nat
  BY TreeCounts DEF VerifierLimits
<1> QED BY <1>1 DEF SizeViolation

\* A call keeps the invariant: it visits one more node, or meets a limit the
\* value breaks.
LEMMA VisitChecks ==
    ASSUME IsTree(tree), limits \in VerifierLimits, UNCHANGED <<tree, limits>>,
           node_count \in Nat, NEW n, NEW calls, NEW seen, Ready(n, calls, seen), Visit(n, calls)
    PROVE  CheckInv' /\ (node_count' > 0 \/ violation' # "none")
<1>1. /\ n \in Nodes(tree) /\ n \notin seen /\ seen \subseteq Nodes(tree)
      /\ calls \in Seq(Frame(tree)) /\ Len(calls) \in Nat
      /\ limits.max_depth \in Nat /\ limits.max_node_count \in Nat
      /\ Cardinality(Path(tree, n)) - Cardinality(Path(tree, 1)) = Len(calls)
      /\ Subtree(tree, 1) = Nodes(tree)
      /\ IsFiniteSet(Nodes(tree))
  <2>1. Len(calls) \in Nat /\ Cardinality(Path(tree, n)) = Len(calls) + 1
    BY DEF Ready
  <2>2. Cardinality(Path(tree, n)) - Cardinality(Path(tree, 1)) = Len(calls)
    BY <2>1, WholeTree
  <2> QED BY <2>1, <2>2, WholeTree, TreeNodes DEF Ready, VerifierLimits
<1>2. /\ Cardinality(seen \union {n}) = node_count + 1
      /\ seen \union {n} \subseteq Nodes(tree)
      /\ Cardinality(seen \union {n}) <= Cardinality(Nodes(tree))
      /\ Cardinality(Nodes(tree)) \in Nat
  <2>1. IsFiniteSet(seen) /\ seen \union {n} \in SUBSET Nodes(tree)
    BY <1>1, FS_Subset
  <2>2. Cardinality(seen \union {n}) = Cardinality(seen) + 1
    BY <1>1, <2>1, FS_AddElement
  <2>3. Cardinality(seen \union {n}) <= Cardinality(Nodes(tree)) /\ Cardinality(Nodes(tree)) \in Nat
    BY <1>1, <2>1, FS_Subset, FS_CardinalityType
  <2> QED BY <2>1, <2>2, <2>3 DEF Ready
<1>3. ASSUME stack' = <<>>, violation' # "none", node_count' \in Nat, ~Within(tree, 1, limits)
      PROVE  CheckInv'
  <2>1. <<>> \in Seq(Frame(tree))
    OBVIOUS
  <2> QED BY <1>3, <2>1 DEF CheckInv, CallsInv, VisitedInv
<1>4. CASE Len(calls) > limits.max_depth
  <2>1. violation' = "depth" /\ stack' = <<>> /\ node_count' = node_count
    BY <1>1, <1>4 DEF Visit
  <2>2. ~NodeWithin(tree, 1, n, limits)
    BY <1>1, <1>4 DEF NodeWithin
  <2> QED BY <1>1, <1>3, <2>1, <2>2 DEF Within
<1>5. CASE Len(calls) <= limits.max_depth
  <2>1. /\ node_count' = node_count + 1
        /\ violation' = IF node_count + 1 > limits.max_node_count THEN "node_count" ELSE SizeViolation(n)
        /\ stack' = IF violation' = "none"
                    THEN Append(calls, [node |-> n, pending |-> Children(tree, n)]) ELSE <<>>
    BY <1>1, <1>5 DEF Visit
  <2>2. CASE node_count + 1 > limits.max_node_count
    <3>1. ~Within(tree, 1, limits)
      BY <1>1, <1>2, <2>2 DEF Within
    <3> QED BY <1>3, <2>1, <2>2, <3>1
  <2>3. CASE node_count + 1 <= limits.max_node_count /\ SizeViolation(n) # "none"
    <3>1. ~NodeWithin(tree, 1, n, limits)
      BY <1>1, <2>3, SizeChecked DEF NodeWithin
    <3>2. violation' = SizeViolation(n)
      BY <1>1, <2>1, <2>3
    <3> QED BY <1>1, <1>3, <2>1, <2>3, <3>1, <3>2 DEF Within
  <2>4. CASE node_count + 1 <= limits.max_node_count /\ SizeViolation(n) = "none"
    <3>1. violation' = "none" /\ stack' = Append(calls, [node |-> n, pending |-> Children(tree, n)])
      BY <1>1, <2>1, <2>4
    <3>2. /\ stack' \in Seq(Frame(tree))
          /\ Len(stack') = Len(calls) + 1
          /\ \A i \in 1..Len(calls) : stack'[i] = calls[i]
          /\ stack'[Len(calls) + 1].node = n
          /\ stack'[Len(calls) + 1].pending = Children(tree, n)
          /\ PendingIn(stack') = PendingIn(calls) \union Children(tree, n)
      BY <1>1, <3>1, PushedFrame
    <3>3. Visited' = seen \union {n}
      <4>1. Pending' = PendingIn(calls) \union Children(tree, n)
        BY <3>2 DEF Pending, PendingIn
      <4> QED BY <1>2, <4>1 DEF Visited, Ready
    <3>4. NodeWithin(tree, 1, n, limits)
      BY <1>1, <1>5, <2>4, SizeChecked DEF NodeWithin
    <3>5. VisitedInv'
      BY <1>2, <2>1, <3>3, <3>4 DEF VisitedInv, Ready
    <3>6. CallsInv'
      <4> SUFFICES ASSUME NEW i \in 1..Len(stack')
                   PROVE  /\ stack'[i].pending \subseteq Children(tree, stack'[i].node)
                          /\ stack'[i].node \in Visited'
                          /\ Cardinality(Path(tree, stack'[i].node)) = i
                          /\ \A j \in 1..(i - 1) : stack'[j].node < stack'[i].node
        BY DEF CallsInv
      <4>1. CASE i \in 1..Len(calls)
        <5>1. \A j \in 1..(i - 1) : j \in 1..Len(calls)
          BY <1>1, <4>1
        <5> QED BY <3>2, <3>3, <4>1, <5>1 DEF Ready
      <4>2. CASE i = Len(calls) + 1
        <5>1. \A j \in 1..(i - 1) : j \in 1..Len(calls)
          BY <1>1, <4>2
        <5> QED BY <3>2, <3>3, <4>2, <5>1 DEF Ready
      <4> QED BY <1>1, <3>2, <4>1, <4>2
    <3> QED BY <1>1, <2>1, <2>4, <3>1, <3>2, <3>5, <3>6 DEF CheckInv
  <2> QED BY <1>1, <2>2, <2>3, <2>4
<1>6. node_count' > 0 \/ violation' # "none"
  BY <1>1 DEF Visit
<1> QED BY <1>1, <1>4, <1>5, <1>6

LEMMA StartChecks ==
    ASSUME CheckInv, StartCheck
    PROVE  CheckInv' /\ (node_count' > 0 \/ violation' # "none")
<1>1. IsTree(tree) /\ limits \in VerifierLimits /\ node_count = 0
  BY DEF CheckInv, StartCheck
<1>2. 1 \in Nodes(tree) /\ PendingIn(<<>>) = {} /\ <<>> \in Seq(Frame(tree)) /\ Len(<<>>) = 0
  BY <1>1, TreeNodes DEF PendingIn
<1>3. \A m \in Nodes(tree) : Path(tree, m) \intersect Children(tree, 1) = {} <=> m = 1
  <2> TAKE m \in Nodes(tree)
  <2>1. CASE m = 1
    BY <1>1, <2>1, PathOfRoot DEF Children
  <2>2. CASE m # 1
    BY <1>1, <2>2, PathFromRoot, PathGoesOn
  <2> QED BY <2>1, <2>2
<1>4. Cardinality(Path(tree, 1)) = 1 /\ Cardinality({}) = 0
  BY <1>1, WholeTree, FS_EmptySet
<1>5. Ready(1, <<>>, {})
  BY <1>1, <1>2, <1>3, <1>4 DEF Ready
<1>6. Visit(1, <<>>) /\ UNCHANGED <<tree, limits>> /\ node_count \in Nat
  BY <1>1 DEF StartCheck
<1> QED BY <1>1, <1>5, <1>6, VisitChecks

\* The child a call visits next is one of its pending ones.
LEMMA NextChildPending ==
    ASSUME IsTree(tree), NEW f \in Frame(tree), f.pending # {}
    PROVE  NextChild(f) \in f.pending
<1>1. f.pending \subseteq Nat
  BY TreeNodes DEF Frame
<1>2. \E c \in f.pending : \A d \in f.pending : c <= d
  BY <1>1, LeastNumber
<1> QED BY <1>2 DEF NextChild

\* Taking a child from the innermost call's pending ones takes it from all.
LEMMA ChildTaken ==
    ASSUME CheckInv, stack # <<>>, NEW c \in Top.pending,
           NEW calls, calls = [stack EXCEPT ![Len(stack)].pending = @ \ {c}]
    PROVE  /\ Len(stack) \in Nat \ {0} /\ Len(calls) = Len(stack)
           /\ calls \in Seq(Frame(tree))
           /\ \A i \in 1..Len(stack) : calls[i].node = stack[i].node
           /\ \A i \in 1..Len(stack) : calls[i].pending \subseteq stack[i].pending
           /\ c \in Children(tree, Top.node) /\ c \in Pending
           /\ PendingIn(calls) = Pending \ {c}
<1> DEFINE len == Len(stack)
<1>1. IsTree(tree) /\ stack \in Seq(Frame(tree)) /\ len \in Nat \ {0} /\ len \in 1..len
  BY DEF CheckInv
<1>2. Top \in Frame(tree) /\ Top = stack[len]
  BY <1>1 DEF Top
<1> DEFINE frame == [Top EXCEPT !.pending = @ \ {c}]
<1>3. /\ frame \in Frame(tree) /\ frame.node = Top.node /\ frame.pending = Top.pending \ {c}
      /\ calls = [stack EXCEPT ![len] = frame]
  BY <1>2 DEF Frame
<1> HIDE DEF frame
<1>4. /\ calls \in Seq(Frame(tree)) /\ Len(calls) = len
      /\ \A i \in 1..len : calls[i] = IF i = len THEN frame ELSE stack[i]
  <2> DEFINE S == Frame(tree)
  <2>1. stack \in Seq(S) /\ len \in 1..Len(stack) /\ frame \in S
    BY <1>1, <1>3
  <2> HIDE DEF S, len
  <2>2. [stack EXCEPT ![len] = frame] \in Seq(S)
    BY <2>1, ExceptSeq
  <2>3. /\ Len([stack EXCEPT ![len] = frame]) = Len(stack)
        /\ \A i \in 1..Len(stack) :
              [stack EXCEPT ![len] = frame][i] = IF i = len THEN frame ELSE stack[i]
    BY <2>1
  <2> QED BY <1>3, <2>2, <2>3 DEF S, len
<1>5. /\ \A i \in 1..len : calls[i].node = stack[i].node
      /\ \A i \in 1..len : calls[i].pending \subseteq stack[i].pending
  BY <1>2, <1>3, <1>4
<1>6. c \in Children(tree, Top.node) /\ c \in Pending
  BY <1>1, <1>2 DEF CheckInv, CallsInv, Pending
<1>7. ASSUME NEW i \in 1..len, i # len PROVE c \notin stack[i].pending
  <2>1. stack[i].node < Top.node
    BY <1>1, <1>2, <1>7 DEF CheckInv, CallsInv
  <2>2. stack[i].node \in Nat /\ Top.node \in Nat
    <3>1. stack[i] \in Frame(tree)
      BY <1>1
    <3>2. stack[i].node \in Nodes(tree) /\ Top.node \in Nodes(tree)
      BY <1>2, <3>1 DEF Frame
    <3> QED BY <1>1, <3>2, TreeNodes
  <2>3. stack[i].pending \subseteq Children(tree, stack[i].node)
    BY DEF CheckInv, CallsInv
  <2> QED BY <1>6, <2>1, <2>2, <2>3 DEF Children
<1>8. \A i \in 1..len : calls[i].pending = stack[i].pending \ {c}
  BY <1>2, <1>3, <1>4, <1>7
<1>9. PendingIn(calls) = Pending \ {c}
  BY <1>4, <1>8 DEF PendingIn, Pending
<1> QED BY <1>1, <1>4, <1>5, <1>6, <1>9

LEMMA VisitChildChecks ==
    ASSUME CheckInv, VisitChild
    PROVE  CheckInv' /\ (node_count' > 0 \/ violation' # "none")
<1> DEFINE c == NextChild(Top)
           calls == [stack EXCEPT ![Len(stack)].pending = @ \ {c}]
<1>1. /\ IsTree(tree) /\ limits \in VerifierLimits /\ stack # <<>> /\ node_count \in Nat
      /\ violation = "none" /\ node_count > 0
      /\ Visit(c, calls) /\ UNCHANGED <<tree, limits>>
  BY DEF CheckInv, VisitChild
<1>2. c \in Top.pending
  <2>1. Top \in Frame(tree)
    BY <1>1 DEF CheckInv, Top
  <2> QED BY <1>1, <2>1, NextChildPending DEF VisitChild
<1> HIDE DEF c
<1>3. /\ Len(stack) \in Nat \ {0} /\ Len(calls) = Len(stack)
      /\ calls \in Seq(Frame(tree))
      /\ \A i \in 1..Len(stack) : calls[i].node = stack[i].node
      /\ \A i \in 1..Len(stack) : calls[i].pending \subseteq stack[i].pending
      /\ c \in Children(tree, Top.node) /\ c \in Pending
      /\ PendingIn(calls) = Pending \ {c}
  BY <1>1, <1>2, ChildTaken
<1> HIDE DEF calls
<1> DEFINE p == Top.node
<1>4. /\ p = stack[Len(stack)].node /\ Len(stack) \in 1..Len(stack)
      /\ p \in Nodes(tree) /\ p \in Visited /\ Cardinality(Path(tree, p)) = Len(stack)
  <2>1. Len(stack) \in 1..Len(stack) /\ p = stack[Len(stack)].node
    BY <1>3 DEF Top
  <2> QED BY <2>1 DEF CheckInv, CallsInv, Visited
<1> HIDE DEF p
<1>5. /\ c \in Children(tree, p)
      /\ c \in Nodes(tree) /\ p < c
      /\ Path(tree, c) = Path(tree, p) \union {c}
      /\ Cardinality(Path(tree, c)) = Len(calls) + 1
  <2>1. c \in Children(tree, p)
    BY <1>3 DEF p
  <2> QED BY <1>1, <1>3, <1>4, <2>1, PathToChild, TreeNodes
<1>6. c \notin Visited /\ Visited \subseteq Nodes(tree)
  BY <1>3, <1>5 DEF Visited
<1>7. ASSUME NEW m \in Nodes(tree)
      PROVE  Path(tree, m) \intersect (PendingIn(calls) \union Children(tree, c)) = {}
                <=> m \in Visited \union {c}
  <2>1. ASSUME m \in Visited, NEW d \in Path(tree, m), d \in Children(tree, c) PROVE FALSE
    <3>1. c \in Path(tree, m)
      BY <1>1, <2>1, PathOf DEF UpClosed, Children
    <3> QED BY <1>3, <2>1, <3>1 DEF Visited
  <2>2. ASSUME NEW d \in Path(tree, c), d \in Children(tree, c) PROVE FALSE
    <3>1. d <= c /\ c < d /\ d \in Nodes(tree)
      BY <1>1, <1>5, <2>2, PathBefore, PathToChild
    <3> QED BY <1>1, <1>5, <3>1, TreeNodes
  <2>3. Path(tree, c) \intersect (Pending \ {c}) = {}
    BY <1>4, <1>5 DEF Visited
  <2>4. ASSUME Path(tree, m) \intersect (PendingIn(calls) \union Children(tree, c)) = {},
               m # c
        PROVE  m \in Visited
    <3>1. c \notin Path(tree, m)
      BY <1>1, <2>4, PathGoesOn
    <3> QED BY <1>3, <2>4, <3>1 DEF Visited
  <2>5. m \in Visited => Path(tree, m) \intersect PendingIn(calls) = {}
    BY <1>3 DEF Visited
  <2> QED BY <1>3, <2>1, <2>2, <2>3, <2>4, <2>5
<1>8. ASSUME NEW i \in 1..Len(calls)
      PROVE  /\ calls[i].pending \subseteq Children(tree, calls[i].node)
             /\ calls[i].node \in Visited
             /\ Cardinality(Path(tree, calls[i].node)) = i
             /\ calls[i].node < c
             /\ \A j \in 1..(i - 1) : calls[j].node < calls[i].node
  <2>1. /\ stack[i].pending \subseteq Children(tree, stack[i].node)
        /\ stack[i].node \in Visited
        /\ Cardinality(Path(tree, stack[i].node)) = i
        /\ \A j \in 1..(i - 1) : stack[j].node < stack[i].node
    BY <1>3 DEF CheckInv, CallsInv
  <2>2. \A j \in 1..(i - 1) : j \in 1..Len(stack)
    BY <1>3
  <2>3. stack[i].node <= p
    <3>1. i = Len(stack) \/ i \in 1..(Len(stack) - 1)
      BY <1>3
    <3>2. i \in 1..(Len(stack) - 1) => stack[i].node < p
      BY <1>4 DEF CheckInv, CallsInv
    <3> QED BY <1>1, <1>4, <1>6, <2>1, <3>1, <3>2, TreeNodes
  <2>4. stack[i].node < c
    <3>1. stack[i].node \in Nat /\ p \in Nat /\ c \in Nat
      BY <1>1, <1>4, <1>5, <1>6, <2>1, TreeNodes
    <3> QED BY <1>5, <2>3, <3>1
  <2> QED BY <1>3, <2>1, <2>2, <2>4
<1>9. Ready(c, calls, Visited)
  <2>1. node_count = Cardinality(Visited) /\ \A n \in Visited : NodeWithin(tree, 1, n, limits)
    BY <1>1 DEF CheckInv, VisitedInv
  <2> QED BY <1>3, <1>5, <1>6, <1>7, <1>8, <2>1 DEF Ready
<1> QED BY <1>1, <1>9, VisitChecks

\* The innermost call returns when nothing is pending in it.
LEMMA ReturnChecks ==
    ASSUME CheckInv, ReturnFromWalk
    PROVE  CheckInv' /\ (node_count' > 0 \/ violation' # "none")
<1> DEFINE len == Len(stack) - 1
<1>1. /\ stack # <<>> /\ len \in Nat /\ Len(stack) = len + 1 /\ stack' = SubSeq(stack, 1, len)
      /\ stack \in Seq(Frame(tree)) /\ stack[len + 1].pending = {}
      /\ UNCHANGED <<tree, limits, node_count, violation>>
      /\ violation = "none" /\ node_count > 0 /\ node_count \in Nat
  BY DEF CheckInv, ReturnFromWalk, Top
<1>2. /\ Len(stack') = len /\ stack' \in Seq(Frame(tree))
      /\ \A i \in 1..len : stack'[i] = stack[i]
  <2>1. 1 \in Int /\ len \in Int /\ \A i \in 1..len : stack[i] \in Frame(tree)
    BY <1>1
  <2> HIDE DEF len
  <2>2. len = IF 1 <= len THEN len - 1 + 1 ELSE 0
    BY <1>1
  <2>3. Len(stack') = len /\ stack' \in Seq(Frame(tree))
    BY <1>1, <2>1, <2>2, SubSeqProperties
  <2>4. \A i \in 1..len : stack'[i] = stack[i]
    BY <1>1
  <2> QED BY <2>3, <2>4
<1> HIDE DEF len
<1>3. Pending' = Pending
  <2>1. \A i \in 1..len : i \in 1..Len(stack)
    BY <1>1
  <2>2. \A i \in 1..Len(stack) : i = len + 1 \/ i \in 1..len
    BY <1>1
  <2> QED BY <1>1, <1>2, <2>1, <2>2 DEF Pending
<1>4. Visited' = Visited
  BY <1>1, <1>3 DEF Visited
<1>5. CallsInv'
  <2>1. \A i \in 1..len : i \in 1..Len(stack) /\ \A j \in 1..(i - 1) : j \in 1..len
    BY <1>1
  <2> QED BY <1>1, <1>2, <1>4, <2>1 DEF CheckInv, CallsInv
<1>6. VisitedInv'
  BY <1>1, <1>4 DEF CheckInv, VisitedInv
<1> QED BY <1>1, <1>2, <1>5, <1>6 DEF CheckInv

LEMMA CheckStutter == CheckInv /\ UNCHANGED limitVars => CheckInv'
BY DEF CheckInv, CallsInv, VisitedInv, Visited, Pending, limitVars

\* When the walk is over, nothing is pending and every node was visited.
LEMMA WalkDecides == CheckInv => AcceptsExactlyWithin
<1> SUFFICES ASSUME CheckInv, CheckDone, violation = "none"
             PROVE  Within(tree, 1, limits) /\ node_count = tree.size
  BY DEF AcceptsExactlyWithin, CheckInv
<1>1. IsTree(tree) /\ stack = <<>> /\ node_count > 0
  BY DEF CheckInv, CheckDone
<1>2. Visited = Nodes(tree)
  BY <1>1 DEF Visited, Pending
<1> QED BY <1>1, <1>2, WholeTree DEF CheckInv, VisitedInv, Within

----------------------------------------------------------------------------
(* The elements of a chain *)

LEMMA Ranks ==
    ASSUME IsTree(tree)
    PROVE  /\ Elements \subseteq Nat
           /\ IsFiniteSet(Elements)
           /\ Cardinality(Elements) \in Nat
           /\ \A n \in Elements : Rank(n) \in Nat
           /\ \A m, n \in Elements : m < n => Rank(m) < Rank(n)
<1>1. Elements \subseteq Nat /\ IsFiniteSet(Elements) /\ Cardinality(Elements) \in Nat
  BY TreeNodes, FS_CardinalityType DEF Elements
<1>2. ASSUME NEW n
      PROVE  IsFiniteSet({m \in Elements : m < n}) /\ Cardinality({m \in Elements : m < n}) \in Nat
  BY <1>1, FS_Subset, FS_CardinalityType
<1>3. ASSUME NEW m \in Elements, NEW n \in Elements, m < n PROVE Rank(m) < Rank(n)
  <2> DEFINE A == {k \in Elements : k < m}
             B == {k \in Elements : k < n}
  <2>1. m \in Int /\ n \in Int /\ \A k \in Elements : k \in Int
    BY <1>1
  <2>2. m \notin A
    BY <2>1
  <2>3. \A k \in Elements : k < m => k < n
    BY <1>3, <2>1
  <2>4. A \union {m} \subseteq B
    BY <1>3, <2>3
  <2>5. Rank(m) = Cardinality(A) /\ Rank(n) = Cardinality(B)
    BY DEF Rank
  <2>6. IsFiniteSet(A) /\ IsFiniteSet(B) /\ Cardinality(A) \in Nat /\ Cardinality(B) \in Nat
    BY <1>2
  <2> HIDE DEF A, B
  <2>7. Cardinality(A \union {m}) = Cardinality(A) + 1
    BY <2>2, <2>6, FS_AddElement
  <2>8. Cardinality(A \union {m}) <= Cardinality(B)
    BY <2>4, <2>6, FS_Subset
  <2> QED BY <2>5, <2>6, <2>7, <2>8
<1> QED BY <1>1, <1>2, <1>3 DEF Rank

\* The element read next is the first one not ingested yet: none is passed over
\* and none is read twice.
LEMMA NextElement ==
    ASSUME IsTree(tree), chain, element \in Nat, element = Cardinality(Ingested),
           element < Cardinality(Elements)
    PROVE  /\ Current \in Elements \ Ingested
           /\ \A n \in Elements : Rank(n) = element <=> n = Current
<1>1. Ingested \subseteq Elements /\ Elements \ Ingested # {}
  <2>1. Ingested \subseteq Elements
    BY DEF Ingested
  <2>2. Ingested # Elements
    BY Ranks
  <2> QED BY <2>1, <2>2
<1>2. PICK n \in Elements \ Ingested : \A m \in Elements \ Ingested : n <= m
  BY <1>1, Ranks, LeastNumber
<1>3. \A m \in Elements : m \in Ingested <=> Rank(m) < element
  BY DEF Ingested
<1>4. ASSUME NEW m \in Elements PROVE m < n <=> m \in Ingested
  <2>1. m \in Nat /\ n \in Nat /\ Rank(m) \in Nat /\ Rank(n) \in Nat
    BY <1>2, Ranks
  <2>2. m < n => m \in Ingested
    BY <1>2, <2>1
  <2>3. m \in Ingested => ~(n < m) /\ m # n
    BY <1>2, <1>3, <2>1, Ranks
  <2> QED BY <2>1, <2>2, <2>3
<1>5. Rank(n) = element
  <2>1. {m \in Elements : m < n} = Ingested
    BY <1>1, <1>4
  <2> QED BY <2>1 DEF Rank
<1>6. \A m \in Elements : Rank(m) = element => m = n
  <2> SUFFICES ASSUME NEW m \in Elements, Rank(m) = element PROVE m = n
    OBVIOUS
  <2>1. ~(m < n) /\ ~(n < m) /\ m \in Nat /\ n \in Nat
    BY <1>2, <1>5, Ranks
  <2> QED BY <2>1
<1>7. Current = CHOOSE m \in Elements : Rank(m) = element
  BY DEF Current, Rank
<1>8. Current = n
  <2>1. \E m \in Elements : Rank(m) = element
    BY <1>2, <1>5
  <2>2. Current \in Elements /\ Rank(Current) = element
    BY <1>7, <2>1
  <2> QED BY <1>6, <2>2
<1> QED BY <1>2, <1>5, <1>6, <1>8

\* Ingesting it adds it to the ingested ones.
LEMMA OneMoreIngested ==
    ASSUME IsTree(tree), chain, UNCHANGED <<tree, chain>>,
           element \in Nat, element = Cardinality(Ingested),
           element < Cardinality(Elements), element' = element + 1
    PROVE  /\ Ingested' = Ingested \union {Current}
           /\ element' = Cardinality(Ingested')
<1>1. \A n \in Elements : Rank(n) < element + 1 <=> Rank(n) < element \/ Rank(n) = element
  BY Ranks
<1>2. Elements' = Elements /\ Ingested' = {n \in Elements : Rank(n) < element + 1}
  BY DEF Elements, Ingested, Rank
<1>3. Ingested' = Ingested \union {Current}
  BY <1>1, <1>2, NextElement DEF Ingested
<1>4. IsFiniteSet(Ingested)
  BY Ranks, FS_Subset DEF Ingested
<1> QED BY <1>3, <1>4, NextElement, FS_AddElement

\* Nothing is ingested at first.
LEMMA NoneIngested == ASSUME IsTree(tree), element = 0 PROVE Ingested = {} /\ element = Cardinality(Ingested)
BY Ranks, FS_EmptySet DEF Ingested

LEMMA AllIngested ==
    ASSUME IsTree(tree), element = Cardinality(Elements), element = Cardinality(Ingested)
    PROVE  Ingested = Elements
<1>1. Ingested \subseteq Elements
  BY DEF Ingested
<1> QED BY <1>1, Ranks, FS_Subset

----------------------------------------------------------------------------
(* The pipeline *)

\* What a call is asked about never changes.
LEMMA CallFixed == [Next]_vars => TheCall' = TheCall
<1> SUFFICES ASSUME [Next]_vars PROVE UNCHANGED <<tree, limits, input, chain>>
  BY DEF TheCall
<1>1. UNCHANGED limitVars => UNCHANGED <<tree, limits>>
  BY DEF limitVars
<1>2. CheckStructure \/ WalkStructure => UNCHANGED <<tree, limits, input, chain>>
  BY DEF CheckStructure, StartCheck, WalkStructure, CheckStep, VisitChild, ReturnFromWalk
<1> QED
  BY <1>1, <1>2
  DEF Next, vars, CheckBytes, Admit, AfterStructure, IngestEnvelope, IngestElement, ReturnChain

\* What the checks of an envelope find.
LEMMA EnvelopeChecked ==
    ASSUME IsInput(input, tree), NEW n \in Nodes(tree)
    PROVE  LET found == EnvelopeError(input.envelopes[n]) IN
           /\ found = "none" <=> PassesChecks(input.envelopes[n])
           /\ found # "ok" /\ found # "pending"
<1>1. input.envelopes[n] \in Envelope
  BY DEF IsInput
<1> QED BY <1>1 DEF EnvelopeError, PassesChecks, Envelope

\* The invariant apart from the outcome, in a step that leaves the walk alone.
LEMMA SamePipeline ==
    ASSUME PipelineInv, UNCHANGED <<limitVars, input, chain>>
    PROVE  CheckInv' /\ IsInput(input, tree)' /\ (chain \in BOOLEAN)' /\ TheCall' = TheCall
BY CheckStutter DEF PipelineInv, limitVars, TheCall

\* A call returns from the checks with what it deserves.
LEMMA Returned ==
    ASSUME PipelineInv, UNCHANGED <<limitVars, input, chain, element>>,
           NEW o, Return(o), o # "pending", o = "ok" <=> InputAcceptable(TheCall)
    PROVE  PipelineInv'
<1>1. CheckInv' /\ IsInput(input, tree)' /\ (chain \in BOOLEAN)' /\ TheCall' = TheCall
  BY SamePipeline
<1>2. phase' = "done" /\ outcome' = o /\ element' = element /\ element \in Nat
  BY DEF Return, PipelineInv, ElementsInv
<1> QED BY <1>1, <1>2 DEF PipelineInv, StageInv, ElementsInv, OutcomeInv

LEMMA CheckBytesKeeps == ASSUME PipelineInv, CheckBytes PROVE PipelineInv'
<1>1. input.bytes \in Nat /\ limits.max_bytes \in Nat
  BY DEF PipelineInv, IsInput, CheckInv, VerifierLimits
<1>2. CASE input.bytes > limits.max_bytes
  <2>1. ~InputAcceptable(TheCall)
    BY <1>1, <1>2 DEF InputAcceptable, ChainAcceptable, EnvelopeAcceptable, TheCall
  <2> QED BY <1>1, <1>2, <2>1, Returned DEF CheckBytes
<1>3. CASE input.bytes <= limits.max_bytes
  <2>1. CheckInv' /\ IsInput(input, tree)' /\ (chain \in BOOLEAN)'
    BY SamePipeline DEF CheckBytes
  <2> QED BY <1>1, <1>3, <2>1 DEF CheckBytes, PipelineInv, StageInv, ElementsInv, OutcomeInv, limitVars
<1> QED BY <1>1, <1>2, <1>3

LEMMA AdmitKeeps == ASSUME PipelineInv, Admit PROVE PipelineInv'
<1>1. CASE input.canonical # "ok"
  <2>1. ~InputAcceptable(TheCall) /\ input.canonical # "pending"
    BY <1>1 DEF InputAcceptable, TheCall, PipelineInv, IsInput
  <2> QED BY <1>1, <2>1, Returned DEF Admit
<1>2. CASE input.canonical = "ok"
  <2>1. CheckInv' /\ IsInput(input, tree)' /\ (chain \in BOOLEAN)'
    BY SamePipeline DEF Admit
  <2> QED BY <1>2, <2>1 DEF Admit, PipelineInv, StageInv, ElementsInv, OutcomeInv, limitVars
<1> QED BY <1>1, <1>2

LEMMA CheckStructureKeeps == ASSUME PipelineInv, CheckStructure PROVE PipelineInv'
<1>1. CheckInv' /\ (node_count' > 0 \/ violation' # "none")
  BY StartChecks DEF PipelineInv, CheckStructure
<1>2. /\ UNCHANGED <<tree, limits, input, chain, element, outcome>>
      /\ phase = "structure" /\ phase' = "walk"
  BY DEF CheckStructure, StartCheck
<1> QED BY <1>1, <1>2 DEF PipelineInv, IsInput, StageInv, ElementsInv, OutcomeInv

LEMMA WalkStructureKeeps == ASSUME PipelineInv, WalkStructure PROVE PipelineInv'
<1>1. CheckInv' /\ (node_count' > 0 \/ violation' # "none")
  BY VisitChildChecks, ReturnChecks DEF PipelineInv, WalkStructure, CheckStep
<1>2. /\ UNCHANGED <<tree, limits, input, chain, element, outcome>>
      /\ phase = "walk" /\ phase' = "walk"
  BY DEF WalkStructure, CheckStep, VisitChild, ReturnFromWalk
<1> QED BY <1>1, <1>2 DEF PipelineInv, IsInput, StageInv, ElementsInv, OutcomeInv

LEMMA AfterStructureKeeps == ASSUME PipelineInv, AfterStructure PROVE PipelineInv'
<1>1. /\ IsTree(tree) /\ limits \in VerifierLimits /\ phase = "walk" /\ CheckDone
      /\ input.canonical = "ok" /\ input.bytes <= limits.max_bytes
      /\ UNCHANGED <<limitVars, input, chain, element>>
      /\ element = 0 /\ outcome = "pending"
      /\ chain \in BOOLEAN
  BY DEF PipelineInv, CheckInv, StageInv, ElementsInv, OutcomeInv, AfterStructure
<1>2. violation = "none" <=> Within(tree, 1, limits)
  BY <1>1, WalkDecides DEF PipelineInv, AcceptsExactlyWithin
<1>3. Elements = Children(tree, 1) /\ Cardinality(Elements) \in Nat /\ limits.max_chain_length \in Nat
  BY <1>1, Ranks DEF Elements, VerifierLimits
<1>4. /\ Within(tree, 1, limits) /\ chain =>
            (InputAcceptable(TheCall) <=>
                /\ tree.type[1] = "array"
                /\ Cardinality(Elements) <= limits.max_chain_length
                /\ \A n \in Elements : PassesChecks(input.envelopes[n]))
      /\ ~Within(tree, 1, limits) => ~InputAcceptable(TheCall)
  BY <1>1, <1>3 DEF InputAcceptable, ChainAcceptable, EnvelopeAcceptable, TheCall
<1>5. CASE violation # "none"
  BY <1>1, <1>2, <1>4, <1>5, Returned DEF AfterStructure
<1>6. CASE violation = "none" /\ chain /\ tree.type[1] # "array"
  BY <1>1, <1>2, <1>4, <1>6, Returned DEF AfterStructure
<1>7. CASE violation = "none" /\ chain /\ tree.type[1] = "array" /\ Elements = {}
  <2>1. Cardinality(Elements) <= limits.max_chain_length
    BY <1>3, <1>7, FS_EmptySet
  <2>2. InputAcceptable(TheCall)
    BY <1>2, <1>4, <1>7, <2>1
  <2>3. Return("ok")
    BY <1>7 DEF AfterStructure
  <2> QED BY <1>1, <2>2, <2>3, Returned
<1>8. CASE violation = "none" /\ chain /\ tree.type[1] = "array" /\ Elements # {}
           /\ Cardinality(Elements) > limits.max_chain_length
  BY <1>1, <1>2, <1>3, <1>4, <1>8, Returned DEF AfterStructure
<1>9. CASE violation = "none"
           /\ (chain => tree.type[1] = "array" /\ Cardinality(Elements) <= limits.max_chain_length)
           /\ phase' = "elements" /\ outcome' = outcome
  <2>1. CheckInv' /\ IsInput(input, tree)' /\ (chain \in BOOLEAN)'
    BY <1>1, SamePipeline
  <2>2. Elements' = Elements /\ Ingested' = {} /\ UNCHANGED <<tree, limits, input, chain, element>>
    BY <1>1, NoneIngested DEF Elements, Ingested, Rank, limitVars
  <2>3. element' = Cardinality(Ingested')
    BY <1>1, <2>2, FS_EmptySet
  <2> QED BY <1>1, <1>2, <1>9, <2>1, <2>2, <2>3 DEF PipelineInv, StageInv, ElementsInv, OutcomeInv
<1> QED BY <1>1, <1>3, <1>5, <1>6, <1>7, <1>8, <1>9 DEF AfterStructure

LEMMA IngestEnvelopeKeeps == ASSUME PipelineInv, IngestEnvelope PROVE PipelineInv'
<1>1. /\ ~chain /\ Current = 1 /\ 1 \in Nodes(tree) /\ IsInput(input, tree)
      /\ input.canonical = "ok" /\ input.bytes <= limits.max_bytes /\ Within(tree, 1, limits)
      /\ UNCHANGED <<limitVars, input, chain, element>>
  BY TreeNodes DEF PipelineInv, CheckInv, StageInv, IngestEnvelope, Current
<1>2. InputAcceptable(TheCall) <=> PassesChecks(input.envelopes[1])
  BY <1>1 DEF InputAcceptable, EnvelopeAcceptable, TheCall
<1> DEFINE found == EnvelopeError(input.envelopes[1])
           o == IF found = "none" THEN "ok" ELSE found
<1>3. Return(o)
  BY <1>1 DEF IngestEnvelope
<1>4. o # "pending" /\ (o = "ok" <=> InputAcceptable(TheCall))
  BY <1>1, <1>2, EnvelopeChecked
<1> QED BY <1>1, <1>3, <1>4, Returned

\* During the elements of a chain, the call deserves "ok" when every element
\* passes its checks.
LEMMA ChainDeserves ==
    ASSUME PipelineInv, phase = "elements", chain
    PROVE  /\ IsTree(tree) /\ IsInput(input, tree) /\ Elements \subseteq Nodes(tree)
           /\ InputAcceptable(TheCall) <=> \A n \in Elements : PassesChecks(input.envelopes[n])
           /\ element \in Nat /\ element = Cardinality(Ingested)
           /\ \A n \in Ingested : PassesChecks(input.envelopes[n])
<1>1. /\ IsTree(tree) /\ IsInput(input, tree) /\ Elements = Children(tree, 1)
      /\ Elements \subseteq Nodes(tree)
      /\ element \in Nat /\ element = Cardinality(Ingested)
      /\ \A n \in Ingested : PassesChecks(input.envelopes[n])
  BY TreeNodes DEF PipelineInv, CheckInv, ElementsInv, Elements
<1>2. /\ input.canonical = "ok" /\ input.bytes <= limits.max_bytes /\ Within(tree, 1, limits)
      /\ tree.type[1] = "array" /\ Cardinality(Elements) <= limits.max_chain_length
  BY DEF PipelineInv, StageInv
<1>3. InputAcceptable(TheCall) <=> \A n \in Elements : PassesChecks(input.envelopes[n])
  BY <1>1, <1>2 DEF InputAcceptable, ChainAcceptable, TheCall
<1> QED BY <1>1, <1>3

LEMMA IngestElementKeeps == ASSUME PipelineInv, IngestElement PROVE PipelineInv'
<1> DEFINE found == EnvelopeError(input.envelopes[Current])
<1>1. /\ chain /\ phase = "elements" /\ element < Cardinality(Elements)
      /\ UNCHANGED <<limitVars, input, chain>>
      /\ IsTree(tree) /\ IsInput(input, tree) /\ Elements \subseteq Nodes(tree)
      /\ InputAcceptable(TheCall) <=> \A n \in Elements : PassesChecks(input.envelopes[n])
      /\ element \in Nat /\ element = Cardinality(Ingested)
      /\ \A n \in Ingested : PassesChecks(input.envelopes[n])
  BY ChainDeserves DEF IngestElement
<1>2. Current \in Elements \ Ingested /\ Current \in Nodes(tree)
  BY <1>1, NextElement
<1>3. /\ found = "none" <=> PassesChecks(input.envelopes[Current])
      /\ found # "ok" /\ found # "pending"
  BY <1>1, <1>2, EnvelopeChecked
<1>4. CASE found # "none"
  <2>1. ~InputAcceptable(TheCall)
    BY <1>1, <1>2, <1>3, <1>4
  <2>2. Return(found) /\ element' = element
    BY <1>4 DEF IngestElement
  <2> QED BY <1>1, <1>3, <2>1, <2>2, Returned
<1>5. CASE found = "none"
  <2>1. element' = element + 1 /\ UNCHANGED <<phase, outcome>>
    BY <1>5 DEF IngestElement
  <2>2. UNCHANGED <<tree, limits, input, chain>>
    BY <1>1 DEF limitVars
  <2>3. Ingested' = Ingested \union {Current} /\ element' = Cardinality(Ingested')
    BY <1>1, <2>1, <2>2, OneMoreIngested
  <2>4. \A n \in Ingested' : PassesChecks(input.envelopes[n])'
    BY <1>1, <1>3, <1>5, <2>2, <2>3 DEF PassesChecks
  <2>5. CheckInv' /\ IsInput(input, tree)' /\ (chain \in BOOLEAN)' /\ TheCall' = TheCall
    BY <1>1, SamePipeline
  <2>6. Elements' = Elements /\ (element \in Nat)'
    BY <1>1, <2>1, <2>2 DEF Elements
  <2>7. StageInv'
    BY <1>1, <2>1, <2>2, <2>6 DEF PipelineInv, StageInv
  <2>8. ElementsInv'
    BY <1>1, <2>1, <2>3, <2>4, <2>6 DEF ElementsInv
  <2> QED BY <1>1, <2>1, <2>5, <2>7, <2>8 DEF PipelineInv, OutcomeInv
<1> QED BY <1>4, <1>5

LEMMA ReturnChainKeeps == ASSUME PipelineInv, ReturnChain PROVE PipelineInv'
<1>1. /\ Ingested = Elements
      /\ UNCHANGED <<limitVars, input, chain, element>> /\ Return("ok")
  BY ChainDeserves, AllIngested DEF ReturnChain
<1>2. InputAcceptable(TheCall)
  BY <1>1, ChainDeserves DEF ReturnChain
<1> QED BY <1>1, <1>2, Returned

LEMMA PipelineStutter == PipelineInv /\ UNCHANGED vars => PipelineInv'
<1> SUFFICES ASSUME PipelineInv, UNCHANGED vars PROVE PipelineInv'
  OBVIOUS
<1>1. /\ CheckInv' /\ IsInput(input, tree)' /\ (chain \in BOOLEAN)' /\ TheCall' = TheCall
  BY SamePipeline DEF vars
<1>2. UNCHANGED <<tree, limits, node_count, violation, input, chain, phase, element, outcome>>
  BY DEF vars, limitVars
<1>3. Elements' = Elements /\ Ingested' = Ingested
  BY <1>2 DEF Elements, Ingested, Rank
<1>4. StageInv' /\ ElementsInv'
  BY <1>2, <1>3 DEF PipelineInv, StageInv, ElementsInv, PassesChecks
<1> QED BY <1>1, <1>2, <1>4 DEF PipelineInv, OutcomeInv

LEMMA PipelineInvariant == Spec => []PipelineInv
<1>1. Init => PipelineInv
  <2> SUFFICES ASSUME Init PROVE PipelineInv
    OBVIOUS
  <2>1. <<>> \in Seq(Frame(tree)) /\ Len(<<>>) = 0
    OBVIOUS
  <2>2. CheckInv
    BY <2>1 DEF Init, LimitsInit, CheckInv, CallsInv, VisitedInv, VerifierLimits
  <2> QED BY <2>2 DEF Init, LimitsInit, PipelineInv, StageInv, ElementsInv, OutcomeInv
<1>2. PipelineInv /\ [Next]_vars => PipelineInv'
  BY CheckBytesKeeps, AdmitKeeps, CheckStructureKeeps, WalkStructureKeeps, AfterStructureKeeps,
     IngestEnvelopeKeeps, IngestElementKeeps, ReturnChainKeeps, PipelineStutter DEF Next
<1> QED BY <1>1, <1>2, PTL DEF Spec

\* Each stage is reached past the checks in front of it.
LEMMA WorkStaysEarned ==
    ASSUME PipelineInv, WorkIsEarned, [Next]_vars
    PROVE  WorkIsEarned'
<1>1. UNCHANGED <<tree, limits, input, chain>>
  BY CallFixed DEF TheCall
<1>2. Elements' = Elements
  BY <1>1 DEF Elements
<1>3. /\ phase \notin {"bytes", "done"} => input.bytes <= limits.max_bytes
      /\ phase \notin {"bytes", "admit", "done"} => input.canonical = "ok"
      /\ phase \in {"bytes", "admit", "structure"} => node_count = 0 /\ violation = "none"
      /\ phase = "elements" => Within(tree, 1, limits)
      /\ phase = "elements" /\ chain =>
            tree.type[1] = "array" /\ Cardinality(Elements) <= limits.max_chain_length
      /\ phase # "elements" /\ phase # "done" => element = 0
      /\ phase # "done" => outcome = "pending"
  BY DEF PipelineInv, StageInv, ElementsInv, OutcomeInv
<1>4. CASE CheckBytes \/ Admit
  <2>1. /\ UNCHANGED <<node_count, violation, element>>
        /\ node_count = 0 /\ violation = "none" /\ element = 0
    BY <1>3, <1>4 DEF CheckBytes, Admit, limitVars
  <2>2. outcome' \in {"malformed", "noncanonical"} => input.bytes <= limits.max_bytes
    BY <1>3, <1>4 DEF CheckBytes, Admit, Return
  <2>3. outcome' \notin {"schema", "floats", "typed"}
    BY <1>3, <1>4 DEF PipelineInv, IsInput, CheckBytes, Admit, Return
  <2> QED BY <1>1, <2>1, <2>2, <2>3 DEF WorkIsEarned
<1>5. CASE CheckStructure \/ WalkStructure
  <2>1. outcome' = "pending" /\ element' = 0 /\ phase \in {"structure", "walk"}
    BY <1>3, <1>5 DEF CheckStructure, WalkStructure
  <2> QED BY <1>1, <1>3, <2>1 DEF WorkIsEarned
<1>6. CASE AfterStructure
  <2>1. element' = 0 /\ phase = "walk"
    BY <1>3, <1>6 DEF AfterStructure
  <2>2. outcome' \in {"limits", "not_array", "ok", "chain_length", "pending"}
    BY <1>3, <1>6 DEF AfterStructure, Return
  <2> QED BY <1>1, <1>3, <2>1, <2>2 DEF WorkIsEarned
<1>7. CASE IngestEnvelope \/ IngestElement \/ ReturnChain
  <2>1. phase = "elements"
    BY <1>7 DEF IngestEnvelope, IngestElement, ReturnChain
  <2> QED BY <1>1, <1>2, <1>3, <2>1 DEF WorkIsEarned
<1>8. CASE UNCHANGED vars
  BY <1>1, <1>2, <1>8 DEF WorkIsEarned, vars, limitVars
<1> QED BY <1>4, <1>5, <1>6, <1>7, <1>8 DEF Next

\* The order of the checks (ingest_envelope_with_limits, ingest_chain_with_limits):
\* for every text and every limits, canonical admission is only tried on a text
\* within the byte limit, only a canonical one is walked, and nothing is read as
\* an envelope before the value and the chain's length are within the limits.
THEOREM IngestionWorkIsEarned == Spec => []WorkIsEarned
<1>1. Init => WorkIsEarned
  BY DEF Init, LimitsInit, WorkIsEarned
<1> QED BY <1>1, WorkStaysEarned, PipelineInvariant, PTL DEF Spec

\* limits.rs, check_structure: for every JSON value and every limits, the walk
\* returns no violation exactly when the value's depth, its number of nodes and the
\* size of each of its objects and arrays are within the limits, and every node has
\* then been counted once.
THEOREM WalkAcceptsExactlyWithin == Spec => []AcceptsExactlyWithin
<1>1. PipelineInv => AcceptsExactlyWithin
  BY WalkDecides DEF PipelineInv
<1> QED BY <1>1, PipelineInvariant, PTL

\* A value within the limits has only elements within them.
LEMMA ElementWithin ==
    ASSUME NEW t, IsTree(t), NEW l \in VerifierLimits, Within(t, 1, l), NEW n \in Nodes(t)
    PROVE  Within(t, n, l)
<1>1. /\ Subtree(t, n) \subseteq Nodes(t) /\ Subtree(t, 1) = Nodes(t)
      /\ Cardinality(Path(t, 1)) = 1 /\ IsFiniteSet(Nodes(t))
      /\ l.max_node_count \in Nat /\ l.max_depth \in Nat
  BY WholeTree, TreeNodes DEF Subtree, VerifierLimits
<1>2. Cardinality(Subtree(t, n)) <= l.max_node_count
  <2>1. /\ Cardinality(Subtree(t, n)) \in Nat /\ Cardinality(Nodes(t)) \in Nat
        /\ Cardinality(Subtree(t, n)) <= Cardinality(Nodes(t))
    BY <1>1, FS_Subset, FS_CardinalityType
  <2> QED BY <1>1, <2>1 DEF Within
<1>3. ASSUME NEW m \in Subtree(t, n) PROVE NodeWithin(t, n, m, l)
  <2>1. m \in Nodes(t) /\ NodeWithin(t, 1, m, l)
    BY <1>1, <1>3 DEF Within
  <2>2. Cardinality(Path(t, m)) \in Nat \ {0} /\ Cardinality(Path(t, n)) \in Nat \ {0}
    BY <2>1, TreeCounts
  <2>3. Cardinality(Path(t, m)) - Cardinality(Path(t, n)) <= l.max_depth
    BY <1>1, <2>1, <2>2 DEF NodeWithin
  <2> QED BY <2>1, <2>3 DEF NodeWithin
<1> QED BY <1>2, <1>3 DEF Within

\* ingestion.rs, ingest_chain_with_limits: every element of an ingested chain would
\* be ingested on its own under the same limits, for every chain and every limits.
THEOREM IngestionElementsStandAlone == Spec => []ElementsStandAlone
<1>1. ASSUME PipelineInv PROVE ElementsStandAlone
  <2> SUFFICES ASSUME phase = "done", chain, outcome = "ok",
                      NEW n \in Elements, NEW bytes \in 0..input.bytes
               PROVE  EnvelopeAcceptable(TheCall, n, bytes)
    BY DEF ElementsStandAlone
  <2>1. ChainAcceptable(TheCall)
    BY <1>1 DEF PipelineInv, OutcomeInv, InputAcceptable, TheCall
  <2>2. /\ input.bytes <= limits.max_bytes /\ Within(tree, 1, limits)
        /\ PassesChecks(input.envelopes[n])
    BY <2>1 DEF ChainAcceptable, TheCall, Elements
  <2>3. bytes <= limits.max_bytes
    <3>1. bytes \in Nat /\ bytes <= input.bytes /\ input.bytes \in Nat /\ limits.max_bytes \in Nat
      BY <1>1 DEF PipelineInv, IsInput, CheckInv, VerifierLimits
    <3> QED BY <2>2, <3>1
  <2>4. Within(tree, n, limits)
    <3>1. IsTree(tree) /\ limits \in VerifierLimits /\ n \in Nodes(tree)
      BY <1>1, TreeNodes DEF PipelineInv, CheckInv, Elements
    <3> QED BY <2>2, <3>1, ElementWithin
  <2> QED BY <2>2, <2>3, <2>4 DEF EnvelopeAcceptable, TheCall
<1> QED BY <1>1, PipelineInvariant, PTL

\* The safety part of DecidesIngestion: nothing is answered at the start, and every
\* step is the one decision of Verdict, "Valid" exactly for the bytes that deserve
\* it, or leaves the call and the answer alone.
THEOREM IngestionRefinesVerdict == Spec => V!Init /\ [][V!Decide]_(V!verdictVars)
<1>1. Init => V!Init
  BY DEF Init, V!Init, Answer
<1>2. ASSUME PipelineInv, PipelineInv', [Next]_vars
      PROVE  [V!Decide]_(V!verdictVars)
  <2>1. TheCall' = TheCall
    BY <1>2, CallFixed
  <2>2. CASE Answer' = Answer
    BY <2>1, <2>2 DEF V!verdictVars
  <2>3. CASE Answer' # Answer
    <3>1. phase = "done" => UNCHANGED <<phase, outcome>>
      BY <1>2 DEF Next, vars, CheckBytes, Admit, CheckStructure, WalkStructure, AfterStructure,
                  IngestEnvelope, IngestElement, ReturnChain
    <3>2. phase # "done" /\ phase' = "done"
      BY <2>3, <3>1 DEF Answer
    <3>3. /\ Answer = "pending" /\ Answer' \in {"Valid", "Invalid"}
          /\ Answer' = "Valid" <=> InputAcceptable(TheCall')
      BY <1>2, <3>2 DEF Answer, PipelineInv, OutcomeInv
    <3> QED BY <2>1, <3>3 DEF V!Decide
  <2> QED BY <2>2, <2>3
<1> QED BY <1>1, <1>2, PipelineInvariant, PTL DEF Spec

=============================================================================
