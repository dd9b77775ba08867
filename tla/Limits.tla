------------------------------- MODULE Limits -------------------------------
(***************************************************************************)
(* check_structure of limits.rs: the recursive walk over a parsed JSON     *)
(* value that enforces the structural limits.  The call stack is the       *)
(* variable `stack`; the depth argument of a call is its place in it.      *)
(*                                                                         *)
(* A JSON value is a tree over 1..size with root 1; `parent` gives each    *)
(* other node its parent, and children are visited in increasing order.    *)
(***************************************************************************)
EXTENDS Naturals, Sequences, FiniteSets

VARIABLES
    tree,        \* the parsed value
    limits,      \* VerifierLimits
    stack,       \* active calls of walk, outermost first
    node_count,
    violation    \* the LimitViolation returned, or "none"

limitVars == <<tree, limits, stack, node_count, violation>>

----------------------------------------------------------------------------
(* Data *)

NodeTypes == {"object", "array", "scalar"}

Violations == {"depth", "node_count", "object", "array"}

VerifierLimits == [max_bytes : Nat, max_depth : Nat, max_node_count : Nat, max_object_size : Nat,
                   max_array_size : Nat, max_chain_length : Nat]

Nodes(t) == 1..t.size

Children(t, n) == {c \in Nodes(t) \ {1} : t.parent[c] = n}

IsTree(t) ==
    /\ t.size \in Nat \ {0}
    /\ t.parent \in [2..t.size -> Nodes(t)]
    /\ \A c \in 2..t.size : t.parent[c] < c
    /\ t.type \in [Nodes(t) -> NodeTypes]
    /\ \A n \in Nodes(t) : t.type[n] = "scalar" => Children(t, n) = {}

\* A call of walk: its node and the children it has not visited yet.
Frame(t) == [node : Nodes(t), pending : SUBSET Nodes(t)]

----------------------------------------------------------------------------
(* The walk *)

LimitsInit ==
    /\ IsTree(tree)
    /\ limits \in VerifierLimits
    /\ stack = <<>>
    /\ node_count = 0
    /\ violation = "none"

\* The size limit of a container is checked before its children are visited.
SizeViolation(n) ==
    LET size == Cardinality(Children(tree, n)) IN
    IF tree.type[n] = "object" /\ size > limits.max_object_size THEN "object"
    ELSE IF tree.type[n] = "array" /\ size > limits.max_array_size THEN "array"
    ELSE "none"

\* A mutant: the depth limit is one less.
VisitShallow(n, calls) ==
    \/ /\ Len(calls) >= limits.max_depth
       /\ violation' = "depth"
       /\ stack' = <<>>
       /\ UNCHANGED node_count
    \/ /\ Len(calls) < limits.max_depth
       /\ node_count' = node_count + 1
       /\ violation' = IF node_count + 1 > limits.max_node_count THEN "node_count"
                       ELSE SizeViolation(n)
       /\ stack' = IF violation' = "none"
                   THEN Append(calls, [node |-> n, pending |-> Children(tree, n)])
                   ELSE <<>>

\* A mutant: the nodes are counted and the count is not compared.
VisitUncounted(n, calls) ==
    \/ /\ Len(calls) > limits.max_depth
       /\ violation' = "depth"
       /\ stack' = <<>>
       /\ UNCHANGED node_count
    \/ /\ Len(calls) <= limits.max_depth
       /\ node_count' = node_count + 1
       /\ violation' = SizeViolation(n)
       /\ stack' = IF violation' = "none"
                   THEN Append(calls, [node |-> n, pending |-> Children(tree, n)])
                   ELSE <<>>

\* A call for node n at depth Len(calls): depth, node count, size, then the
\* children; a violation unwinds every call.
Visit(n, calls) ==
    \/ /\ Len(calls) > limits.max_depth
       /\ violation' = "depth"
       /\ stack' = <<>>
       /\ UNCHANGED node_count
    \/ /\ Len(calls) <= limits.max_depth
       /\ node_count' = node_count + 1
       /\ violation' = IF node_count + 1 > limits.max_node_count THEN "node_count"
                       ELSE SizeViolation(n)
       /\ stack' = IF violation' = "none"
                   THEN Append(calls, [node |-> n, pending |-> Children(tree, n)])
                   ELSE <<>>

StartCheck ==
    /\ node_count = 0 /\ violation = "none"
    /\ Visit(1, <<>>)
    /\ UNCHANGED <<tree, limits>>

Top == stack[Len(stack)]

NextChild(f) == CHOOSE c \in f.pending : \A d \in f.pending : c <= d

VisitChild ==
    /\ stack # <<>>
    /\ Top.pending # {}
    /\ LET c == NextChild(Top) IN
       Visit(c, [stack EXCEPT ![Len(stack)].pending = @ \ {c}])
    /\ UNCHANGED <<tree, limits>>

ReturnFromWalk ==
    /\ stack # <<>>
    /\ Top.pending = {}
    /\ stack' = SubSeq(stack, 1, Len(stack) - 1)
    /\ UNCHANGED <<tree, limits, node_count, violation>>

CheckStep == VisitChild \/ ReturnFromWalk

\* The recursive call of the root has returned, or been unwound.
CheckDone == (node_count > 0 \/ violation # "none") /\ stack = <<>>

----------------------------------------------------------------------------
(* The limits, as a property of the value *)

\* S holds the parent of each of its nodes.
UpClosed(t, S) == \A c \in S \ {1} : t.parent[c] \in S

\* The nodes from the root to n: the least such set that holds n.
Path(t, n) == {m \in Nodes(t) : \A S \in SUBSET Nodes(t) : n \in S /\ UpClosed(t, S) => m \in S}

Subtree(t, r) == {n \in Nodes(t) : r \in Path(t, n)}

\* Node n is within the limits of depth and size, r being at depth 0.
NodeWithin(t, r, n, l) ==
    /\ Cardinality(Path(t, n)) - Cardinality(Path(t, r)) <= l.max_depth
    /\ t.type[n] = "object" => Cardinality(Children(t, n)) <= l.max_object_size
    /\ t.type[n] = "array" => Cardinality(Children(t, n)) <= l.max_array_size

\* The subtree of r is within the limits.
Within(t, r, l) ==
    /\ Cardinality(Subtree(t, r)) <= l.max_node_count
    /\ \A n \in Subtree(t, r) : NodeWithin(t, r, n, l)

----------------------------------------------------------------------------
(* Properties *)

\* The walk accepts exactly the values within all the limits, and has then
\* counted every node once.
AcceptsExactlyWithin ==
    CheckDone =>
        /\ violation = "none" <=> Within(tree, 1, limits)
        /\ violation = "none" => node_count = tree.size

\* What the limits are for: however large the value, at most max_node_count
\* nodes and one more are visited, and at most max_depth + 1 calls are active.
WorkIsBounded ==
    /\ node_count <= limits.max_node_count + 1
    /\ Len(stack) <= limits.max_depth + 1

----------------------------------------------------------------------------
(* The invariant of the walk *)

\* A call is only made while no limit was met: the count is then within it, and
\* each active call passed the check of the depth.
BoundInv ==
    /\ limits \in VerifierLimits
    /\ node_count \in Nat
    /\ stack \in Seq({stack[n] : n \in 1..Len(stack)})
    /\ violation # "none" => stack = <<>>
    /\ violation = "none" => node_count <= limits.max_node_count
    /\ WorkIsBounded

----------------------------------------------------------------------------
(* The inductive invariant behind AcceptsExactlyWithin *)

\* The children the active calls still have to visit.
Pending == UNION {stack[i].pending : i \in 1..Len(stack)}

\* The nodes visited: those neither pending nor below a pending one.
Visited == {n \in Nodes(tree) : Path(tree, n) \intersect Pending = {}}

\* The active calls are the path from the root to the innermost one.
CallsInv ==
    \A i \in 1..Len(stack) :
        /\ stack[i].pending \subseteq Children(tree, stack[i].node)
        /\ stack[i].node \in Visited
        /\ Cardinality(Path(tree, stack[i].node)) = i
        /\ \A j \in 1..(i - 1) : stack[j].node < stack[i].node

\* While no limit is met, each node visited was counted once and is within.
VisitedInv ==
    violation = "none" /\ node_count > 0 =>
        /\ node_count = Cardinality(Visited)
        /\ \A n \in Visited : NodeWithin(tree, 1, n, limits)

CheckInv ==
    /\ IsTree(tree)
    /\ limits \in VerifierLimits
    /\ stack \in Seq(Frame(tree))
    /\ node_count = 0 \/ violation # "none" => stack = <<>>
    /\ node_count \in Nat
    /\ violation = "none" => node_count <= limits.max_node_count
    /\ CallsInv
    /\ VisitedInv
    /\ violation # "none" => ~Within(tree, 1, limits)

=============================================================================
