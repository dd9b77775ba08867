---------------------------- MODULE LayeredPack ----------------------------
(***************************************************************************)
(* verify_layered_pack of layered_pack.rs: a layered root receipt and the  *)
(* receipts its direct typed edges depend on.  The supplied receipts are   *)
(* kept in a list, in order, and an edge takes the first one that states   *)
(* its hash.                                                               *)
(***************************************************************************)
EXTENDS Naturals, Sequences

CONSTANTS
    Hash,          \* event_hash values
    Kind,          \* payload_kind / target_schema values, "" included
    LayeredKinds,  \* provider.v0 and model.v0
    NoHash,        \* no readable event_hash
    Malformed      \* a support_set that does not deserialize

ASSUME NoHashAssumption == NoHash \notin Hash

VARIABLES
    pack,          \* the input
    phase,
    position,      \* supplied receipts, then members, already treated
    supplied,      \* receipts indexed, in order
    edge_checks,
    errors,        \* kinds of the errors collected
    status

vars == <<pack, phase, position, supplied, edge_checks, errors, status>>

----------------------------------------------------------------------------
(* Data *)

MemberKinds == {"typed_receipt_dependency", "depended_on_receipt", "other_member"}

Member == [member_kind : MemberKinds, event_hash : Hash, target_schema : Kind]

\* payload: the envelope is JSON and has one.
Root == [verifies : BOOLEAN, payload : BOOLEAN, payload_kind : Kind,
         support_set : Seq(Member) \union {Malformed}]

\* hash is NoHash when the string is not JSON or states no event_hash.
Supply == [verifies : BOOLEAN, event_hash : Hash \union {NoHash}, payload_kind : Kind]

LayeredPackInput == [json : BOOLEAN, format_ok : BOOLEAN, root_canonical : Root,
                     receipts : Seq(Supply)]

EdgeStatus == {"Resolved", "Missing", "Failed", "SchemaMismatch", "UntypedEdge"}

EdgeCheck == [event_hash : Hash, status : EdgeStatus]

\* A receipt that verifies states the hash it verified and has a payload; two
\* receipts that verify and state one hash are the same receipt.
IsPack(p) ==
    /\ p \in LayeredPackInput
    /\ p.root_canonical.verifies => p.root_canonical.payload
    /\ \A i \in 1..Len(p.receipts) : p.receipts[i].verifies => p.receipts[i].event_hash # NoHash
    /\ \A i, j \in 1..Len(p.receipts) :
          /\ p.receipts[i].verifies /\ p.receipts[j].verifies
          /\ p.receipts[i].event_hash = p.receipts[j].event_hash
          => p.receipts[i] = p.receipts[j]

----------------------------------------------------------------------------
(* The verifier *)

Init ==
    /\ IsPack(pack)
    /\ phase = "parse"
    /\ position = 0
    /\ supplied = <<>>
    /\ edge_checks = <<>>
    /\ errors = {}
    /\ status = "pending"

ParsePack ==
    /\ phase = "parse"
    /\ \/ /\ ~(pack.json /\ pack.format_ok)
          /\ errors' = {"pack"}
          /\ status' = "Invalid"
          /\ phase' = "done"
       \/ /\ pack.json /\ pack.format_ok
          /\ phase' = "root"
          /\ UNCHANGED <<errors, status>>
    /\ UNCHANGED <<pack, position, supplied, edge_checks>>

\* extract_layered_payload admits the root.
Admitted(r) == r.payload /\ r.payload_kind \in LayeredKinds /\ r.support_set # Malformed

\* The root is verified; one that is not admitted returns early.
VerifyRoot ==
    /\ phase = "root"
    /\ LET r == pack.root_canonical
           envelope == {e \in {"envelope"} : ~r.verifies}
       IN  \/ /\ ~Admitted(r)
              /\ errors' = envelope \union {"payload"}
              /\ status' = "Invalid"
              /\ phase' = "done"
           \/ /\ Admitted(r)
              /\ errors' = envelope
              /\ phase' = "supplied"
              /\ UNCHANGED status
    /\ UNCHANGED <<pack, position, supplied, edge_checks>>

\* A receipt without a readable hash is dropped without a word.
index_supplied ==
    /\ phase = "supplied"
    /\ position < Len(pack.receipts)
    /\ LET s == pack.receipts[position + 1] IN
       supplied' = IF s.event_hash = NoHash THEN supplied ELSE Append(supplied, s)
    /\ position' = position + 1
    /\ UNCHANGED <<pack, phase, edge_checks, errors, status>>

\* A mutant: the last receipt is not indexed.
StartWalkEarly ==
    /\ phase = "supplied"
    /\ position + 1 >= Len(pack.receipts)
    /\ phase' = "edges"
    /\ position' = 0
    /\ UNCHANGED <<pack, supplied, edge_checks, errors, status>>

StartWalk ==
    /\ phase = "supplied"
    /\ position = Len(pack.receipts)
    /\ phase' = "edges"
    /\ position' = 0
    /\ UNCHANGED <<pack, supplied, edge_checks, errors, status>>

\* A mutant: the kind of the receipt is not compared with the edge's.
StatusOfAnyKind(s, m) == IF s.verifies THEN "Resolved" ELSE "Failed"

\* The status of a typed edge for the receipt found.
StatusOf(s, m) ==
    IF ~s.verifies THEN "Failed"
    ELSE IF s.payload_kind # m.target_schema THEN "SchemaMismatch"
    ELSE "Resolved"

\* The first supplied receipt that states the hash of the edge.
Found(h) ==
    CHOOSE i \in 1..Len(supplied) :
        /\ supplied[i].event_hash = h
        /\ \A j \in 1..(i - 1) : supplied[j].event_hash # h

walk_edge(m) ==
    IF m.member_kind = "depended_on_receipt" THEN "UntypedEdge"
    ELSE IF \E i \in 1..Len(supplied) : supplied[i].event_hash = m.event_hash
         THEN StatusOf(supplied[Found(m.event_hash)], m)
         ELSE "Missing"

WalkEdge ==
    /\ phase = "edges"
    /\ position < Len(pack.root_canonical.support_set)
    /\ LET m == pack.root_canonical.support_set[position + 1] IN
       \/ /\ m.member_kind = "other_member"
          /\ UNCHANGED <<edge_checks, errors>>
       \/ /\ m.member_kind # "other_member"
          /\ edge_checks' = Append(edge_checks, [event_hash |-> m.event_hash, status |-> walk_edge(m)])
          /\ errors' = errors \union {e \in {"edge"} : walk_edge(m) # "Resolved"}
    /\ position' = position + 1
    /\ UNCHANGED <<pack, phase, supplied, status>>

AllEdgesResolved == \A n \in 1..Len(edge_checks) : edge_checks[n].status = "Resolved"

Conclude ==
    /\ phase = "edges"
    /\ position = Len(pack.root_canonical.support_set)
    /\ status' = IF pack.root_canonical.verifies /\ errors = {} /\ AllEdgesResolved
                 THEN "Valid" ELSE "Invalid"
    /\ phase' = "done"
    /\ UNCHANGED <<pack, position, supplied, edge_checks, errors>>

Next ==
    \/ ParsePack
    \/ VerifyRoot
    \/ index_supplied
    \/ StartWalk
    \/ WalkEdge
    \/ Conclude

Spec == Init /\ [][Next]_vars

FairSpec == Spec /\ WF_vars(Next)

----------------------------------------------------------------------------
(* What the verifier decides *)

\* The positions at which hash h is first stated in pack p.
FirstStating(p, h) ==
    {i \in 1..Len(p.receipts) :
        /\ p.receipts[i].event_hash = h
        /\ \A j \in 1..(i - 1) : p.receipts[j].event_hash # h}

EdgeHolds(p, m) ==
    m.member_kind # "other_member" =>
        /\ m.member_kind = "typed_receipt_dependency"
        /\ \E i \in FirstStating(p, m.event_hash) :
              p.receipts[i].verifies /\ p.receipts[i].payload_kind = m.target_schema

LayeredAcceptable(p) ==
    LET r == p.root_canonical IN
    /\ p.json /\ p.format_ok
    /\ r.verifies /\ Admitted(r)
    /\ \A n \in 1..Len(r.support_set) : EdgeHolds(p, r.support_set[n])

V == INSTANCE Verdict WITH Acceptable <- LayeredAcceptable, input <- pack, verdict <- status

----------------------------------------------------------------------------
(* Properties *)

\* Every variable keeps its type.
TypeOK ==
    /\ IsPack(pack)
    /\ phase \in {"parse", "root", "supplied", "edges", "done"}
    /\ position \in Nat
    /\ supplied \in Seq({s \in Supply : s.event_hash # NoHash})
    /\ edge_checks \in Seq(EdgeCheck)
    /\ errors \subseteq {"pack", "envelope", "payload", "edge"}
    /\ status \in {"pending", "Valid", "Invalid"}

\* A layered pack is VALID exactly when its root verifies, is of a layered kind
\* and has only typed edges, each to a supplied receipt that verifies and is of
\* the committed kind; the verdict is given once and always given.
DecidesLayered == V!Spec

Backwards(s) == [i \in 1..Len(s) |-> s[Len(s) + 1 - i]]

\* A failing receipt that states the hash of a verifying one, supplied with it.
Shadowed(p) ==
    \E i, j \in 1..Len(p.receipts) :
        /\ p.receipts[i].event_hash = p.receipts[j].event_hash
        /\ p.receipts[i].event_hash # NoHash
        /\ p.receipts[i].verifies /\ ~p.receipts[j].verifies

\* The order of the supplied receipts changes the verdict only when a failing
\* receipt states the hash of one that verifies.
OrderMattersOnlyForShadows ==
    phase = "done" /\ ~Shadowed(pack) =>
        (status = "Valid" <=> LayeredAcceptable([pack EXCEPT !.receipts = Backwards(@)]))

\* In a pack that is accepted, every typed edge of the root leads to a receipt
\* that verifies, whatever else was supplied: a receipt that fails or cannot be
\* read never stands in for it.
ResolvedMeansReplayed ==
    status = "Valid" =>
        \A n \in 1..Len(pack.root_canonical.support_set) :
            LET m == pack.root_canonical.support_set[n] IN
            m.member_kind = "typed_receipt_dependency" =>
                \E i \in 1..Len(pack.receipts) :
                    /\ pack.receipts[i].verifies
                    /\ pack.receipts[i].event_hash = m.event_hash
                    /\ pack.receipts[i].payload_kind = m.target_schema

----------------------------------------------------------------------------
(* A claim of the documentation the code does not keep *)

\* layered_pack.rs, LAYERED_KINDS: "Layered-family payload kinds admitted as a
\* pack root or dependency".
DependencyKindAdmitted ==
    status = "Valid" =>
        \A n \in 1..Len(pack.root_canonical.support_set) :
            LET m == pack.root_canonical.support_set[n] IN
            m.member_kind = "typed_receipt_dependency" => m.target_schema \in LayeredKinds

----------------------------------------------------------------------------
(* The invariant of the walk *)

\* What the early returns leave behind.
EarlyInv ==
    /\ phase \in {"parse", "root"} => errors = {} /\ position = 0 /\ supplied = <<>>
    /\ phase \in {"parse", "root", "supplied"} => edge_checks = <<>>
    /\ phase \in {"root", "supplied", "edges"} => pack.json /\ pack.format_ok
    /\ phase \in {"supplied", "edges"} => Admitted(pack.root_canonical)
    /\ phase = "supplied" => errors = {e \in {"envelope"} : ~pack.root_canonical.verifies}
    /\ phase # "done" => status = "pending"

\* How many of the supplied receipts are treated.
Treated == IF phase = "supplied" THEN position ELSE Len(pack.receipts)

\* List is the first n receipts of p but those that state no hash, in their order
\* (at says where each was), and a hash that is stated is stated a first time.
IndexOf(p, n, list) ==
    /\ \E at \in [1..Len(list) -> 1..n] :
          /\ \A k \in 1..Len(list) : list[k] = p.receipts[at[k]]
          /\ \A k, l \in 1..Len(list) : k < l => at[k] < at[l]
          /\ \A i \in 1..n :
                p.receipts[i].event_hash # NoHash => \E k \in 1..Len(list) : at[k] = i
    /\ \A k \in 1..Len(list) : \E f \in 1..k :
          /\ list[f].event_hash = list[k].event_hash
          /\ \A j \in 1..(f - 1) : list[j].event_hash # list[k].event_hash

SupplyInv ==
    phase \in {"supplied", "edges"} =>
        Treated <= Len(pack.receipts) /\ IndexOf(pack, Treated, supplied)

\* The errors and the checks tell whether the edges walked hold.
EdgesInv ==
    phase = "edges" =>
        LET r == pack.root_canonical IN
        /\ position <= Len(r.support_set)
        /\ errors \subseteq {"envelope", "edge"}
        /\ "envelope" \in errors <=> ~r.verifies
        /\ "edge" \in errors <=> \E n \in 1..position : ~EdgeHolds(pack, r.support_set[n])
        /\ AllEdgesResolved <=> "edge" \notin errors

\* The answer is that of the declarative definition.
VerdictRight ==
    phase = "done" =>
        /\ status \in {"Valid", "Invalid"}
        /\ status = "Valid" <=> LayeredAcceptable(pack)

LayeredInv == TypeOK /\ EarlyInv /\ SupplyInv /\ EdgesInv /\ VerdictRight

=============================================================================
