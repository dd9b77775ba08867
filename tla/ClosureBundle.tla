--------------------------- MODULE ClosureBundle ---------------------------
(***************************************************************************)
(* verify_closure_bundle of closure_bundle.rs: a root pack receipt, a      *)
(* manifest that commits its transitive closure, and the receipts of that  *)
(* closure.  The phases are those of the function, in its order; phase 4   *)
(* is the walk of ClosureWalk.                                             *)
(*                                                                         *)
(* A receipt is what the function reads of one supplied string: whether it *)
(* is JSON, its stated event_hash, its kind, its support set, its closure  *)
(* digest, and the verdict of verify_receipt on its bytes.                 *)
(***************************************************************************)
EXTENDS ClosureWalk, FiniteSets

CONSTANTS
    Digest,       \* closure manifest digests
    PackKind,     \* "pack.v0"
    NoHash,       \* no readable event_hash
    NoDigest,     \* no readable digest
    NotAString,   \* an element of receipt_closure that is not a string
    Absent,       \* a manifest field that is missing or of another type
    Malformed     \* a support_set that does not deserialize

ASSUME HashAssumption == Hash # {}

ASSUME SentinelAssumption ==
    NoHash \notin Hash /\ NotAString \notin Hash /\ NoDigest \notin Digest

VARIABLES
    bundle,             \* the input
    phase,              \* where verify_closure_bundle is
    position,           \* supplied receipts indexed so far
    errors,             \* kinds of the errors collected
    manifest_digest_ok,
    closure_complete,
    status

bundleVars == <<bundle, phase, position, errors, manifest_digest_ok, closure_complete, status>>

vars == <<bundleVars, walkVars>>

----------------------------------------------------------------------------
(* Data *)

Receipt == [json : BOOLEAN, event_hash : Hash \union {NoHash}, payload_kind : Kind,
            support_set : Seq(Member) \union {Malformed},
            closure_manifest_digest : Digest \union {NoDigest}, verifies : BOOLEAN]

Manifest == [object : BOOLEAN, manifest_digest : Digest \union {NoDigest},
             recomputed : Digest \union {NoDigest},
             root_event_hash : Hash \union {Absent},
             dependency_count : Nat \union {Absent},
             receipt_closure : Seq(Hash \union {NotAString}) \union {Absent}]

ClosureBundleInput == [json : BOOLEAN, format_ok : BOOLEAN, root_canonical : Receipt,
                       manifest : Manifest, receipts : Seq(Receipt)]

Supplied(b) == {b.root_canonical} \union {b.receipts[i] : i \in 1..Len(b.receipts)}

TypedTargets(r) ==
    IF r.support_set = Malformed THEN {}
    ELSE {r.support_set[k].event_hash : k \in {j \in 1..Len(r.support_set) : IsTyped(r.support_set[j])}}

\* What the event_hash law gives of receipts that verify: the hash commits the
\* canonical bytes, so two of them with one hash are the same receipt, and a
\* receipt cannot name a hash that is computed from its own.  Nor can a manifest
\* name the root that commits its digest.
ContentAddressed(b) ==
    LET verified == {r \in Supplied(b) : r.verifies} IN
    /\ \A r \in verified : r.json /\ r.event_hash \in Hash
    /\ \A r, s \in verified : r.event_hash = s.event_hash => r = s
    /\ \A S \in SUBSET verified :
          S # {} => \E r \in S : \A s \in S : s.event_hash \notin TypedTargets(r)
    /\ b.root_canonical.verifies
       /\ b.root_canonical.closure_manifest_digest # NoDigest
       /\ b.root_canonical.closure_manifest_digest = b.manifest.recomputed =>
            b.manifest.root_event_hash # b.root_canonical.event_hash

----------------------------------------------------------------------------
(* The verifier *)

Init ==
    /\ bundle \in ClosureBundleInput
    /\ ContentAddressed(bundle)
    /\ phase = "parse"
    /\ position = 0
    /\ errors = {}
    /\ manifest_digest_ok = FALSE
    /\ closure_complete = FALSE
    /\ status = "pending"
    /\ index = <<>>
    /\ root = IF bundle.root_canonical.event_hash \in Hash
              THEN bundle.root_canonical.event_hash
              ELSE CHOOSE h \in Hash : TRUE     \* never read
    /\ stack = <<>>
    /\ reachable = {}
    /\ on_stack = {}
    /\ edge_checks = <<>>
    /\ cycle_detected = FALSE

\* The early return `invalid(error)`.
ReturnInvalid(error) ==
    /\ phase' = "done"
    /\ status' = "Invalid"
    /\ errors' = {error}
    /\ UNCHANGED <<bundle, position, manifest_digest_ok, closure_complete, walkVars>>

RootHashReadable == bundle.root_canonical.event_hash \in Hash

ParseBundle ==
    /\ phase = "parse"
    /\ \/ /\ ~bundle.json
          /\ ReturnInvalid("malformed_bundle")
       \/ /\ bundle.json
          /\ ~bundle.format_ok
          /\ ReturnInvalid("unsupported_format")
       \/ /\ bundle.json
          /\ bundle.format_ok
          /\ phase' = "root"
          /\ UNCHANGED <<bundle, position, errors, manifest_digest_ok, closure_complete, status, walkVars>>

\* A mutant: a root that does not verify leaves no error.
VerifyRootSilent ==
    /\ phase = "root"
    /\ LET r == bundle.root_canonical IN
       \/ /\ ~r.json
          /\ ReturnInvalid("malformed_root")
       \/ /\ r.json
          /\ errors' = errors \union {e \in {"root_kind"} : r.payload_kind # PackKind}
          /\ phase' = "manifest"
          /\ UNCHANGED <<bundle, position, manifest_digest_ok, closure_complete, status, walkVars>>

\* 1. The root envelope must verify and be a pack receipt.
VerifyRoot ==
    /\ phase = "root"
    /\ LET r == bundle.root_canonical IN
       \/ /\ ~r.json
          /\ ReturnInvalid("malformed_root")
       \/ /\ r.json
          /\ errors' = errors \union {e \in {"root_envelope"} : ~r.verifies}
                              \union {e \in {"root_kind"} : r.payload_kind # PackKind}
          /\ phase' = "manifest"
          /\ UNCHANGED <<bundle, position, manifest_digest_ok, closure_complete, status, walkVars>>

DigestDrift(m) == m.recomputed = NoDigest \/ m.manifest_digest # m.recomputed

\* A mutant: any digest the root states is taken.
RootDigestPresent(m, committed) == committed = NoDigest

RootDigestDrift(m, committed) ==
    \/ committed = NoDigest
    \/ m.recomputed # NoDigest /\ m.recomputed # committed

\* dependency_count is compared only when both fields are readable.
CountDrift(m) ==
    /\ m.dependency_count # Absent
    /\ m.receipt_closure # Absent
    /\ m.dependency_count # Len(m.receipt_closure)

ManifestErrors(m, committed) ==
    IF ~m.object THEN {"manifest_not_object"}
    ELSE {e \in {"manifest_digest"} : DigestDrift(m)}
         \union {e \in {"root_manifest_digest"} : RootDigestDrift(m, committed)}
         \union {e \in {"dependency_count"} : CountDrift(m)}

\* 2. The manifest must commit itself and be committed by the root.
check_manifest_digest ==
    /\ phase = "manifest"
    /\ LET found == ManifestErrors(bundle.manifest, bundle.root_canonical.closure_manifest_digest) IN
       /\ errors' = errors \union found
       /\ manifest_digest_ok' = (found = {})
    /\ phase' = "index_root"
    /\ UNCHANGED <<bundle, position, closure_complete, status, walkVars>>

\* A malformed support set is read as an empty one.
ReadNode(r) ==
    [payload_kind |-> r.payload_kind,
     support_set |-> IF r.support_set = Malformed THEN <<>> ELSE r.support_set,
     verify_status |-> IF r.verifies THEN "Valid" ELSE "Invalid"]

\* BTreeMap::insert: a later receipt replaces an earlier one with its hash.
insert_node(idx, r) ==
    IF r.event_hash = NoHash THEN idx
    ELSE [h \in DOMAIN idx \union {r.event_hash} |->
            IF h = r.event_hash THEN ReadNode(r) ELSE idx[h]]

\* 3. The index holds the root and then every supplied receipt, in order.
IndexRoot ==
    /\ phase = "index_root"
    /\ index' = insert_node(index, bundle.root_canonical)
    /\ phase' = "index"
    /\ UNCHANGED <<bundle, position, errors, manifest_digest_ok, closure_complete, status>>
    /\ UNCHANGED <<root, stack, reachable, on_stack, edge_checks, cycle_detected>>

IndexReceipt ==
    /\ phase = "index"
    /\ position < Len(bundle.receipts)
    /\ LET r == bundle.receipts[position + 1] IN
       /\ index' = IF r.json THEN insert_node(index, r) ELSE index
       /\ errors' = errors \union {e \in {"receipt_not_json"} : ~r.json}
    /\ position' = position + 1
    /\ UNCHANGED <<bundle, phase, manifest_digest_ok, closure_complete, status>>
    /\ UNCHANGED <<root, stack, reachable, on_stack, edge_checks, cycle_detected>>

\* A mutant: the walk starts one receipt early.
StartWalkEarly ==
    /\ phase = "index"
    /\ position >= Len(bundle.receipts) - 1
    /\ RootHashReadable
    /\ Start
    /\ phase' = "walk"
    /\ UNCHANGED <<bundle, position, errors, manifest_digest_ok, closure_complete, status>>

\* 4. The walk from the root; without a readable root hash there is none.
StartWalk ==
    /\ phase = "index"
    /\ position = Len(bundle.receipts)
    /\ \/ /\ RootHashReadable
          /\ Start
          /\ phase' = "walk"
          /\ UNCHANGED <<bundle, position, errors, manifest_digest_ok, closure_complete, status>>
       \/ /\ ~RootHashReadable
          /\ errors' = errors \union {"root_hash_unreadable"}
          /\ phase' = "complete"
          /\ UNCHANGED <<bundle, position, manifest_digest_ok, closure_complete, status, walkVars>>

Walk ==
    /\ phase = "walk"
    /\ WalkStep
    /\ UNCHANGED bundleVars

\* The walk's findings become errors.
CollectWalk ==
    /\ phase = "walk"
    /\ stack = <<>>
    /\ errors' = errors
         \union {e \in {"edge"} : \E j \in 1..Len(edge_checks) : edge_checks[j].status # "Resolved"}
         \union {e \in {"cycle"} : cycle_detected}
    /\ phase' = "complete"
    /\ UNCHANGED <<bundle, position, manifest_digest_ok, closure_complete, status, walkVars>>

\* The strings of receipt_closure; none when the field cannot be read.
Committed(m) ==
    IF ~m.object \/ m.receipt_closure = Absent THEN {}
    ELSE {m.receipt_closure[i] : i \in 1..Len(m.receipt_closure)} \ {NotAString}

Dependencies == IF RootHashReadable THEN reachable \ {root} ELSE reachable

\* A mutant: a committed set that is too small is accepted.
CheckCommittedReached ==
    /\ phase = "complete"
    /\ LET complete == Committed(bundle.manifest) \subseteq Dependencies
           found == errors \union {e \in {"incomplete"} : ~complete}
       IN  /\ closure_complete' = complete
           /\ errors' = found
           /\ status' = IF found = {} /\ manifest_digest_ok THEN "Valid" ELSE "Invalid"
    /\ phase' = "done"
    /\ UNCHANGED <<bundle, position, manifest_digest_ok, walkVars>>

\* 5. Closure completeness, and the status.
CheckCompleteness ==
    /\ phase = "complete"
    /\ LET complete == Committed(bundle.manifest) = Dependencies
           found == errors \union {e \in {"incomplete"} : ~complete}
       IN  /\ closure_complete' = complete
           /\ errors' = found
           /\ status' = IF /\ bundle.root_canonical.verifies
                           /\ manifest_digest_ok
                           /\ complete
                           /\ ~cycle_detected
                           /\ found = {}
                        THEN "Valid" ELSE "Invalid"
    /\ phase' = "done"
    /\ UNCHANGED <<bundle, position, manifest_digest_ok, walkVars>>

Next ==
    \/ ParseBundle
    \/ VerifyRoot
    \/ check_manifest_digest
    \/ IndexRoot
    \/ IndexReceipt
    \/ StartWalk
    \/ Walk
    \/ CollectWalk
    \/ CheckCompleteness

Spec == Init /\ [][Next]_vars

FairSpec == Spec /\ WF_vars(Next)

----------------------------------------------------------------------------
(* What the verifier decides, without the walk *)

\* The strings of a bundle in the order they are indexed.
Strings(b) == <<b.root_canonical>> \o b.receipts

\* Those of the first n that state the hash h.
Stating(b, n, h) == {i \in 1..n : Strings(b)[i].json /\ Strings(b)[i].event_hash = h}

LastPosition(S) == CHOOSE i \in S : \A j \in S : j <= i

\* The index of the first n strings: for each hash the last that states it.
IndexAfter(b, n) ==
    [h \in {g \in Hash : Stating(b, n, g) # {}} |-> ReadNode(Strings(b)[LastPosition(Stating(b, n, h))])]

\* The index once every receipt is inserted, the root coming first.
FinalIndex(b) == IndexAfter(b, 1 + Len(b.receipts))

LeastClosure(idx, r) ==
    {h \in Hash : \A S \in SUBSET Hash : r \in S /\ Closed(idx, S) => h \in S}

ManifestSound(m, committed) ==
    /\ m.object
    /\ m.recomputed # NoDigest
    /\ m.manifest_digest = m.recomputed
    /\ committed = m.recomputed
    /\ m.dependency_count # Absent /\ m.receipt_closure # Absent =>
          m.dependency_count = Len(m.receipt_closure)

\* The bundles that deserve VALID: the closure of the root is committed, whole,
\* verified and without a cycle.
ClosureAcceptable(b) ==
    LET r == b.root_canonical
        idx == FinalIndex(b)
        closure == LeastClosure(idx, r.event_hash)
    IN  /\ b.json /\ b.format_ok
        /\ r.verifies /\ r.payload_kind = PackKind
        /\ ManifestSound(b.manifest, r.closure_manifest_digest)
        /\ \A i \in 1..Len(b.receipts) : b.receipts[i].json
        /\ \A h \in closure : \A k \in 1..Len(Members(idx, h)) :
              LET m == Members(idx, h)[k] IN
              IsDependency(m) => CheckOf(idx, m).status = "Resolved"
        /\ \A S \in SUBSET closure : ~CyclicSet(idx, S)
        /\ Committed(b.manifest) = closure \ {r.event_hash}

V == INSTANCE Verdict WITH Acceptable <- ClosureAcceptable, input <- bundle, verdict <- status

----------------------------------------------------------------------------
(* Properties *)

\* Every variable of the bundle verifier keeps its type.
TypeOK ==
    /\ bundle \in ClosureBundleInput
    /\ phase \in {"parse", "root", "manifest", "index_root", "index", "walk", "complete", "done"}
    /\ position \in 0..Len(bundle.receipts)
    /\ manifest_digest_ok \in BOOLEAN
    /\ closure_complete \in BOOLEAN
    /\ status \in {"pending", "Valid", "Invalid"}
    /\ WalkTypeOK

\* verify_closure_bundle answers VALID on a bundle whose indexed closure is the
\* committed one, resolved at every edge and acyclic, and INVALID on any other;
\* it answers once and always answers.
DecidesClosure == V!Spec

\* The walk runs on the index of all the receipts, each inserted once and in
\* order, and leaves it alone.
WalksFinalIndex == phase = "complete" => index = FinalIndex(bundle)

\* VALID is never reported of a bundle unless its root verifies as a pack, the
\* committed closure is the set the walk reached, that set is the least one
\* closed under dependencies, every dependency in it names a supplied receipt
\* that verifies, and its dependencies form no cycle.
ValidMeansClosed ==
    status = "Valid" =>
        /\ bundle.root_canonical.verifies
        /\ bundle.root_canonical.payload_kind = PackKind
        /\ ManifestSound(bundle.manifest, bundle.root_canonical.closure_manifest_digest)
        /\ Committed(bundle.manifest) = reachable \ {root}
        /\ ReachableIsLeastClosure
        /\ \A h \in reachable : \A k \in 1..Len(Members(index, h)) :
              LET m == Members(index, h)[k] IN
              IsDependency(m) => IsTyped(m) /\ classify_edge(index, m) = "Resolved"
        /\ \A S \in SUBSET reachable : ~CyclicSet(index, S)

\* Receipts that verify cannot depend on each other in a circle, so the walk
\* meets a cycle only through a root that does not verify, and the cycle error
\* never comes without a failed edge (closure_bundle_tests.rs: a real cycle is
\* "unconstructable").
CycleNeverDecides ==
    cycle_detected =>
        \E j \in 1..Len(edge_checks) :
            edge_checks[j] = [event_hash |-> root, status |-> "Failed"]

\* The errors explain the status: "Collected error messages (empty when valid)".
ErrorsExplainStatus ==
    phase = "done" => (status = "Valid" <=> errors = {})

\* No hash is stated by two of the strings of the bundle.
DistinctReceipts(b) ==
    LET all == Strings(b) IN
    \A i, j \in 1..Len(all) :
        all[i].event_hash = all[j].event_hash /\ all[i].event_hash # NoHash => i = j

Backwards(s) == [i \in 1..Len(s) |-> s[Len(s) + 1 - i]]

Reordered(b) == [b EXCEPT !.receipts = Backwards(@)]

\* The verdict on a bundle whose receipts have different hashes does not depend
\* on the order they are supplied in.
OrderIrrelevantWhenDistinct ==
    phase = "done" /\ DistinctReceipts(bundle) =>
        (status = "Valid" <=> ClosureAcceptable(Reordered(bundle)))

----------------------------------------------------------------------------
(* Claims of the documentation the code does not keep *)

\* closure_bundle_tests.rs: "Transport order of supplied receipts must not
\* change the verdict."
TransportOrderIrrelevant ==
    phase = "done" => (status = "Valid" <=> ClosureAcceptable(Reordered(bundle)))

\* closure_bundle.rs: "the manifest's root_event_hash must equal the root
\* envelope's event_hash".  A manifest without the field names no root, which
\* the type of the field allows (Option<String>); one that names another
\* receipt is the "root mismatch" of the sentence.
ManifestNamesRoot ==
    status = "Valid" =>
        bundle.manifest.root_event_hash \in {Absent, bundle.root_canonical.event_hash}

\* closure_bundle.rs: "dependency_count must equal receipt_closure.len()".
DependencyCountCommitted ==
    status = "Valid" =>
        /\ bundle.manifest.dependency_count # Absent
        /\ bundle.manifest.receipt_closure # Absent
        /\ bundle.manifest.dependency_count = Len(bundle.manifest.receipt_closure)

\* closure_bundle.rs: "Fail-closed: any malformed input ... yields INVALID"; here
\* of a support set in a receipt of the accepted closure.
MalformedInputRejected ==
    status = "Valid" =>
        \A r \in Supplied(bundle) : r.event_hash \in reachable => r.support_set # Malformed

\* closure_bundle.rs: "the set reachable from the root must equal
\* receipt_closure exactly", the root being the root envelope of the bundle.
CommittedClosureIsTheRoots ==
    status = "Valid" =>
        LET own == [FinalIndex(bundle) EXCEPT ![root] = ReadNode(bundle.root_canonical)]
        IN  Committed(bundle.manifest) = LeastClosure(own, root) \ {root}

----------------------------------------------------------------------------
(* The inductive invariant behind ValidMeansClosed *)

\* Until the walk starts its variables are untouched.
WalkUntouched ==
    phase \in {"parse", "root", "manifest", "index_root", "index"} => WalkInit

\* Past the root check, no error means the root is a pack that verifies.
RootChecked ==
    phase \in {"manifest", "index_root", "index", "walk", "complete"} /\ errors = {} =>
        bundle.root_canonical.verifies /\ bundle.root_canonical.payload_kind = PackKind

ManifestChecked ==
    manifest_digest_ok =>
        ManifestSound(bundle.manifest, bundle.root_canonical.closure_manifest_digest)

\* Past the walk, no error means it ran to its end over resolved edges.
WalkCollected ==
    phase = "complete" /\ errors = {} =>
        /\ RootHashReadable
        /\ WalkDone
        /\ ~cycle_detected
        /\ \A j \in 1..Len(edge_checks) : edge_checks[j].status = "Resolved"

\* Before VALID is given: the checks passed so far are those that left no error.
BundleInv ==
    /\ TypeOK
    /\ WalkInv
    /\ WalkUntouched
    /\ phase = "walk" => RootHashReadable /\ reachable # {}
    /\ RootChecked
    /\ ManifestChecked
    /\ WalkCollected
    /\ phase # "done" => status = "pending"
    /\ ValidMeansClosed

----------------------------------------------------------------------------
(* The inductive invariant behind the verdict *)

\* What the phases before have read.
PhaseInv ==
    /\ phase \notin {"parse", "done"} => bundle.json /\ bundle.format_ok
    /\ phase \notin {"parse", "root", "done"} => bundle.root_canonical.json
    /\ phase \in {"parse", "root", "manifest", "index_root"} => index = <<>> /\ position = 0
    /\ phase \in {"walk", "complete"} => position = Len(bundle.receipts)

\* The index holds the strings read so far, each node being one of them.
IndexInv ==
    /\ \A h \in DOMAIN index : \E r \in Supplied(bundle) :
          r.event_hash = h /\ index[h] = ReadNode(r)
    /\ phase = "index" => index = IndexAfter(bundle, position + 1)
    /\ phase \in {"walk", "complete"} => index = FinalIndex(bundle)

\* The outermost call is the one for the root, and it is active in the walk only.
RootCall ==
    /\ RootHashReadable => root = bundle.root_canonical.event_hash
    /\ stack # <<>> => phase = "walk" /\ stack[1].node = root

\* Past each check, no error means that it held.
CleanInv ==
    errors = {} =>
        /\ phase \in {"index_root", "index", "walk", "complete"} => manifest_digest_ok
        /\ phase \in {"index", "walk", "complete"} =>
              \A i \in 1..position : bundle.receipts[i].json

\* A bundle that deserves VALID meets no error on the way.
AcceptableIsClean ==
    ClosureAcceptable(bundle) =>
        /\ errors = {}
        /\ status # "Invalid"
        /\ phase \in {"index_root", "index", "walk", "complete"} => manifest_digest_ok

\* No check passed so far can be taken back: what VALID or INVALID will say of
\* the bundle is what its strings, indexed, say of it.
VerdictInv ==
    /\ ContentAddressed(bundle)
    /\ PhaseInv
    /\ IndexInv
    /\ RootCall
    /\ CleanInv
    /\ CycleNeverDecides
    /\ ErrorsExplainStatus
    /\ AcceptableIsClean
    /\ phase = "done" => status # "pending"
    /\ status = "Valid" => ClosureAcceptable(bundle)

=============================================================================
