# A verification development of `vertrule-verifier`

`vertrule-verifier` decides whether receipts are genuine: single receipt
envelopes, hash-linked chains, signed receipts, and four kinds of packs that
carry several receipts. It is a library of functions from bytes to a verdict,
a command-line program (`vr-verify`) and a WASM wrapper, with two programs that
produce what it verifies. This directory models it in TLA+, checks the models with TLC on small instances, and proves the
results that matter most with TLAPS for every instance.

The recurring question is the same for every verifier: *does the verdict the
code reaches, step by step, with its early returns, error lists and flags, equal
the verdict a declarative definition of the format gives?* `Verdict.tla` states
it once; each verifier is shown to implement it. The producers raise the opposite
question: is what they leave on the disk, after edits, stops and restarts, what
they say it is?

## 1. Inventory of the system

Paths are under `src/src/`, those of the producers under `src/examples/`.

| Component | Source | State it keeps | Operations |
|---|---|---|---|
| Closure walk | `closure_bundle.rs` (`walk`, `classify_edge`) | `reachable`, `on_stack`, `edge_checks`, `cycle_detected`, the call stack | recursive descent over typed edges |
| Closure bundle | `closure_bundle.rs` | `index`, `errors`, `manifest_digest_ok`, the sets compared at the end | parse, verify root, check manifest, build index, walk, compare, conclude |
| Chain | `chain.rs`, `verify.rs` | five flags, error list, `seen_hashes` | ingest, per-envelope loop, head, three uniformity passes, pairwise loop, result |
| Signed receipt and trust | `verify.rs`, `signature.rs`, `trust.rs` | the caller's `AuthoritySet` and `TrustPolicy`; the result of the call | `add_key`, `revoke`, verify envelope, verify signature, evaluate trust |
| Decision pack | `decision_pack.rs` | `verified_hashes`, `failed_hashes`, `member_checks`, `errors` | parse, verify decision, verify each supplied receipt, walk members |
| Layered pack | `layered_pack.rs` | `supplied`, `edge_checks`, `errors` | parse, verify root, index supplied receipts, walk edges |
| Execution bundle | `bundle.rs`, `identity.rs` | `sidecar_checks`, `errors` | parse, verify envelope, compare two sidecars |
| External receipt, projection | `rbh.rs` | none beyond the first error | version, digest-law profile, event hash, decode-step schema; five projection fields |
| Ingestion and limits | `ingestion.rs`, `limits.rs` | `node_count`, the walk's stack | size, canonical form, structure, chain length, per-envelope checks |
| Command line | `bin/vr_verify.rs` | parsed flags | dispatch, flags, files, verify, emit, exit |
| Envelope, canonical form, schema profile | `envelope.rs`, `canon.rs`, `canonical_identity.rs`, `schema_profile.rs` | the errors and the hash flag of a result | the checks of one envelope, used by all the others |
| Results and errors | `result.rs`, `error.rs` | the result record | constructors, `add_error`, serialisation |
| MRI payload profile | `mri_profile.rs` | none | two validators of payloads, called by no verifier |
| WASM | `wasm.rs`, `public/wasm` | none | call a verifier, render the result, two fallbacks |
| Ceremony | `generate_constitutional_artifact.rs` | thirteen files; the envelopes of the run | read sources, build, sign, link, write, verify what was written |
| Test vectors | `generate_test_vectors.rs` | one or two files for each vector | build each vector, write it |

**Interaction.** Everything is a synchronous call. Each pack verifier calls
`verify_receipt` for the envelopes it carries, which ingests (limits, canonical
form, profile) and then checks version, algorithms and event hash. `verify.rs`
composes ingestion with `chain.rs`, `signature.rs` and `trust.rs`. The closure
and layered verifiers share `EdgeCheck`. The program, like each function of the
browser, calls exactly one verifier. The ceremony calls the verifiers on the
files it wrote; the generator calls none, and the tests read its files.

**What is hard.** The library has no threads, no I/O, no clock and no
persistence, so crashes, lost messages and races do not arise in a verifier. They
do in the ceremony, which reads files others edit and writes a set of files one
by one. What arises:

- *a recursion over an arbitrary graph* given by its input, with diamonds,
  cycles, unresolved edges, and nodes that name themselves;
- *tables keyed by a hash a receipt states of itself*, filled from untrusted
  input before, or whether or not, the receipt verifies: which copy wins?
- *verdicts computed twice*, as flags and as an error list, at many places;
- *partial failure read as a default*: `unwrap_or_default`, a skipped
  comparison, a discarded `Result`;
- *order of checks*: what a failure vouches for, and how much work precedes it;
- *limits and boundaries* of counters carried through a recursion;
- *sequences of calls* on an authority set that is edited between them;
- *a set of files written without a rename*: a stop between two writes, or in one,
  leaves a torn file or a mixture of two runs;
- *expectations about the first error*: a test vector that breaks two rules fails
  for the wrong reason.

`PROJECT.json` lists each of these at its line (`hazards`) with the properties
that would catch it.

## 2. Modules

| Module | Models | Notes |
|---|---|---|
| `Verdict` | the abstract specification: an input, one decision, VALID exactly for acceptable inputs, eventually | instantiated with a refinement mapping by each verifier |
| `ClosureWalk` | `walk` as a stack machine | a component module, reused by `ClosureBundle` |
| `ClosureBundle` | `verify_closure_bundle` | EXTENDS `ClosureWalk`; its action `Walk` is the walk's step |
| `ClosureLayers` | nothing of its own: a closure bundle beside the layered packs inside it (`PartsAreLayeredPacks`) | EXTENDS `ClosureBundle`; instantiates `LayeredPack` for its rules |
| `Chain` | `verify_receipt_chain` | |
| `ChainHead` | what the last hash of a chain commits (`HeadCommitsChain`) | EXTENDS `Chain`; `OtherChains` are the chains it is compared with |
| `SignedReceipt` | `verify_signed_receipt_with_trust`, `AuthoritySet` | a reactive system: caller actions and call steps |
| `DecisionPack`, `LayeredPack`, `ExecutionBundle` | the three other packs | |
| `ExternalReceipt` | `verify_external_receipt`, `verify_projection_source` | |
| `Limits`, `Ingestion` | the structural walk, and the two ingestion pipelines around it | `Ingestion` EXTENDS `Limits` |
| `Envelope` | the checks of one envelope, member by member: profile, floats, deserialization, version, algorithms, hash; what a member may be, by the types of `vertrule-schemas` | no state |
| `Receipt` | `verify_receipt`: the checks in order, the errors and the flag they leave | EXTENDS `Envelope` |
| `MriProfile` | the two validators of MRI payloads, floats by their bits | |
| `CommandLine` | `main` of `vr-verify` | instantiates `Receipt`, `ExecutionBundle` and `ExternalReceipt`, whose steps are its steps; the other verifiers are outcomes; `Argument` is the set of strings an argument may be |
| `FrontEnds` | the program, the functions of `wasm.rs` and direct calls | EXTENDS `CommandLine`; the composition that is run |
| `ArtifactFiles` | files that are created and written, a program that stops and is restarted | |
| `Ceremony` | `generate_constitutional_artifact.rs` | EXTENDS `ArtifactFiles`; verifies its chain by the rules of `Chain` |
| `TestVectors` | `generate_test_vectors.rs`: one definition for each `gen_` function, and the program | EXTENDS `ArtifactFiles`, `Envelope`; takes the verdicts from the modules of the verifiers |
| `Producers` | the two producers | EXTENDS `Ceremony` |
| `ClosureProofs`, `ChainProofs`, `SignedReceiptProofs`, `DecisionPackProofs`, `LayeredPackProofs`, `IngestionProofs`, `ProducersProofs`, `FrontEndsProofs` | theorems | each EXTENDS the module it is about; `ClosureProofs` covers `ClosureWalk`, `ClosureBundle` and `ClosureLayers`, `ProducersProofs` both producers |
| `MC*` | instances for TLC | each states the inputs it enumerates |

### How the models correspond to the code

- One action is one step of the function between two points where an early
  return, a loop iteration or a call ends it; `phase` is the program counter.
  Loop indices are the variables `position`, `i`, `element`, `cursor`.
- The Rust stack of a recursion is a sequence of frames (`stack` in `ClosureWalk`
  and `Limits`); a frame remembers the next member or the children not yet
  visited. `walk`'s branches are the actions `CycleEdge`, `DescendEdge`,
  `RevisitEdge`, `RejectEdge`, `UntypedEdge`, `SkipMember` and `Return`. In the
  code a revisit is a call that returns at once; the model takes both in a step.
- A receipt is a record of what the code reads of it: the `event_hash` it states
  (or none that can be read), its `payload_kind`, its `support_set` and whether
  `verify_receipt` accepts it. `verify_receipt` accepts only content that hashes to
  the stated hash, so two receipts that verify and state one hash are the same
  receipt, and no chain of hash references among receipts that verify leads back
  to where it began; the input predicates `ContentAddressed`, `CollisionFree` and
  `IsPack` say what of this each verifier's inputs satisfy. Receipts that do not
  verify are unconstrained: they may state any hash.
- Cryptography is symbolic: a signature is a record of its signer and of what it
  signs; `KeyIdOf` is an arbitrary function, not injective (the code compares a
  96-bit prefix).
- An envelope is, in `Envelope`, a function from the members it has to pairs of a
  JSON kind and a value, so that unknown members, missing members and members of
  the wrong kind are cases of one definition. In the pack models it is only
  whether `verify_receipt` accepts it. `WireForm` is the kind of JSON value the
  external schemas crate serializes a logical time as: the hash of an envelope is
  recomputed from that form, so a member in the other form cannot match.
- `Deserializes` is what the types of `vertrule-schemas` admit, as the tests of this
  repository tell (`lib_tests.rs:70`, `rbh_tests.rs:110`, `:209`,
  `test_vector_validation.rs:176`): a `SchemaVersion` is 1, and an
  `event_hash_profile` is one of the two of a closed enum, or `null`. Anything else is
  refused there, as `MalformedJson` with every flag clear. Behind it neither
  `verify_envelope_version` (`envelope.rs`, `rbh.rs`) nor the check of the version of a
  chain can fail: they are modelled, and `version_ok` is TRUE of every envelope the
  other modules take. In `ExternalReceipt` such an envelope is one that
  does not parse, in the models of packs one that `verify_receipt` does not accept.
- The floats of `MriProfile` have `Exponent` and `Mantissa` bits and the layout of
  IEEE 754; 8 and 23 are those of `f32`. `from_bits` computes their value, in units
  that make it an integer; the property compares words instead.
- In `Ceremony` the content of a file stands for its digest; a file is absent, torn
  (`<<>>`) or whole (`<<content>>`). `Edit`, `Stop` and `Restart` are the
  environment: an edit of a source, an I/O error or a kill at any step, another run.
- A test vector carries the call it is given to and the outcome it states.
  `TellsTruth` asks the acceptance predicates of the other modules, which their
  own runs show the verifiers to decide, and for `verify_chain` the first error of
  `check_chain_detail`.
- Error lists are sets of error kinds, or counts, wherever their order is not
  read. Wording, roles and detail strings are left out.
- Definitions ending in a mutation (`CycleEdgeSelfOnly`, `StartWalkEarly`, ...)
  stand before the definition they vary and are used by no specification: each
  is a plausible mistake that one of the properties must detect.

## 3. What the runs check

Passing runs:

| Run | Instance | Shows |
|---|---|---|
| `MCClosureWalk` | every graph of three receipts with two members each; every index over two hashes with absent, failed and foreign receipts and all member kinds | `ReachableIsLeastClosure`, `NoCycleMissed`, `NoFalseCycle`, `OneCheckPerMember`, `DepthIsBounded`, `EveryStepDescends`, `WalkTerminates` |
| `MCClosureBundle` | every manifest over one graph, naming its root, another receipt or none as its root; 12 roots with up to two supplied receipts from a pool of 15, including unreadable, failing and duplicate ones | `ValidMeansClosed`, `CycleNeverDecides`, `ErrorsExplainStatus`, `OrderIrrelevantWhenDistinct`, `PartsAreLayeredPacks`, `DecidesClosure` |
| `MCChain` | chains of up to three envelopes varying links, hashes, times, digests and per-envelope failures | `FlagsMatchRules`, `DuplicateNeverDecides`, `HeadCommitsChain`, `DecidesChain` |
| `MCSignedReceipt` | three keys, two sharing a key_id, three epochs; any interleaving of edits, policies and calls | `ValidMeansAuthorised`, `ValidSignatureIsConsistent`, `RevocationIsFinal` |
| `MCDecisionPack` | up to two members of every kind, three supplied receipts | `ChecksTellTheSupply`, `ErrorsTellTheirCauses`, `DecidesDecision` |
| `MCLayeredPack` | up to two members, three supplied receipts | `OrderMattersOnlyForShadows`, `DecidesLayered` |
| `MCIngestion` | every JSON tree of up to four nodes under limits below, at and above its size; every outcome of the other checks | `AcceptsExactlyWithin`, `WorkIsBounded`, `WorkIsEarned`, `ElementsStandAlone`, `DecidesIngestion` |
| `MCFrontEnds` | every command with up to four flag arguments, and of two in worlds where at most one other thing goes wrong; every function of the browser; envelopes that differ from a good one in up to two members, `event_hash_profile` among them; every pair of sidecars and declarations over two digests; external receipts and projections with each field right, wrong, no string or missing; payloads with floats of six bits, the cosine taking every word | `ExitTellsOutput`, `HashFlagIsEarned`, `PayloadVerdict`, `ChecksExplainErrors`, `ProjectionErrorsVouchForSource`, `DecidesCaller` |
| `MCProducers` | the ceremony over three crates whose sources start whole, with one edit to another or a broken text at any time, a stop at any step and a second run; the generator with all its files, a stop and a second run | `DoneMeansCoherent`, `ChainIsOneRun`, `VectorsTellTruth`, `UndisturbedRunSucceeds` |

The type invariants of `ClosureBundle`, `Chain`, `SignedReceipt` and `CommandLine` are
not run: they are theorems (section 4). The properties `Decides...` are the abstract specification `Verdict!Spec` under a refinement mapping: the verdict
is given once, is VALID exactly for acceptable inputs, and is given eventually.

Some statements are theorems that no run repeats, because a property that is run says
more: `EveryEdgeChecked` follows from `OneCheckPerMember`, which counts the
checks of each member; `WalksFinalIndex` and `ResolvedMeansReplayed` are steps to
`DecidesClosure` and `DecidesLayered`.

**Why the bounds are enough to be interesting.** Three hashes give self-loops,
two- and three-cycles, diamonds, chains and disconnected receipts; two members a
receipt give branching and repeated edges; two supplied receipts give duplicates
and replacement of the root. Three envelopes give a pair after a pair, so a
violation can lie between, before or after good links. Three epochs put a policy
before, inside and at the (exclusive) end of a key's interval. Four JSON nodes
give depth three and arrays of objects, and each limit is taken below and at the
size of the tree. Three supplied receipts give good, failing and again good
copies of one hash. Two members of an envelope at once give a failure that hides
another: a wrong hash behind a wrong algorithm, a right hash behind a version that
is refused, a bad type that is no string. Three exponent and two mantissa bits have zeros, subnormals, both sides
of 1.0, infinities and NaNs, and every word of the cosine is taken. Three crates
give a first, a middle and a last envelope; one edit falls before, between and
after the two reads of a manifest and the read of the policy; two runs give every
mixture of an old and a new file. The ceremony was also run, outside the
configurations kept here, over all six crates without edits (4,204 states) and over
three with two edits (1.5 million states), with the same result.

**Fairness.** Every verifier is a function that has been called: its thread
executes until it returns, so weak fairness of its next-state relation
(`WF_vars(Next)`) is what the code guarantees. In `SignedReceipt` the caller is
under no obligation to call, revoke or edit, and only the steps of a call in
progress (`CallStep`) are fair. In `Producers` the steps of the ceremony
(`RunCeremony`) are fair, for a program that is started goes on until it ends or is
killed; edits, stops and restarts are not, and `UndisturbedRunSucceeds` promises
success only of a run without a fault: a kill, a failed call, or a manifest that
lacks its fields. No strong fairness is used.

**Deadlock.** A verifier stops when it has returned, so the runs of single calls
do not check deadlock; that they end *in the state they should* is the liveness
part of `Verdict`. `MCProducers` stops when the last run has ended.
`MCSignedReceipt` checks deadlock.

### Where the code and its documentation disagree

The acceptance predicates (`ClosureAcceptable`, `DecisionAcceptable`,
`LayeredAcceptable`, `BundleAcceptable`, `ProjectionAcceptable`) say exactly what
the code accepts, and the `Decides...` properties check that. Where a doc, comment
or test says something else, the module ends with a property that states the
claim. Three of them are runs of the project, which must find the violation:

| Run | The documentation says | The code |
|---|---|---|
| `MCClosureManifestRoot` (`ManifestNamesRoot`) | the manifest's `root_event_hash` must equal the root's (`closure_bundle.rs:14`) | never reads it: the run accepts a manifest that names another receipt (one that names none, as in the repository's own bundles, is no counterexample) |
| `MCClosureRootsClosure` (`CommittedClosureIsTheRoots`) | the set reachable from the root must equal the list (`closure_bundle.rs:19`) | a supplied receipt stating the root's hash, which need not verify, replaces the root before the walk |
| `MCWireForm` (`CeremonyVerifiesItself`) | the ceremony "self-verifies every artifact" (`generate_constitutional_artifact.rs:4`); the canonical wire form of a logical time is a decimal string (`generate_test_vectors.rs:75`) | the ceremony hashes the number (`:428`), and the verifier the wire form: the first receipt fails |

`wire` is either form in `Ceremony`, because the crate that serializes an envelope is
not in this repository; the other properties of the ceremony are about the form it
assumes. The files kept in the repository disagree too: `examples/sample_receipt.json`
and `examples/sample_chain.json` hash the number, the vectors in `test-vectors/raw`
the string.

The others have a configuration with which TLC shows the counterexample, and are
no part of the runs. `MCClosureClaims` lists three of them and `MCFrontEndsClaims`
six: TLC stops at the first it violates, and shows the one wanted when only that
one is left in the file.

| Claim | Configuration | The documentation says | The code |
|---|---|---|---|
| `DependencyCountCommitted` | `MCClosureClaims` | `dependency_count` must equal the length of the list (`closure_bundle.rs:22`) | skips the check when either cannot be read |
| `MalformedInputRejected` | `MCClosureClaims` | any malformed input yields INVALID (`closure_bundle.rs:108`) | reads a malformed `support_set` as empty |
| `TransportOrderIrrelevant` | `MCClosureClaims` | transport order must not change the verdict (`closure_bundle_tests.rs:214`) | the last receipt stating a hash wins |
| `TrustAlwaysReported` | `MCSignedTrustReported` | trust validation is present when an authority set is provided (`result.rs:37`) | absent when the signature fails |
| `DependencyKindAdmitted` | `MCLayeredDependencyKind` | layered kinds are admitted as root *or dependency* (`layered_pack.rs:47`) | the kind of a dependency is only compared with the edge |
| `UnreferencedIgnored` | `MCDecisionUnreferenced` | unreferenced receipts are ignored (`decision_pack.rs:31`) | one without a readable hash is an error |
| `CarriedSidecarsMatch` | `MCFrontEndsClaims` | VALID only when all sidecar digests match (`bundle.rs:69`) | an undeclared sidecar is not compared; one that cannot be hashed has the digest `""` |
| `BoundFieldsEqualSource` | `MCFrontEndsClaims` | a bound field equals the cited value (`rbh.rs:223`) | absent and non-string values compare as `""` |
| `SourceIsDecodeStep` | `MCFrontEndsClaims` | the cited envelope is a decode step (`rbh.rs:249`) | any other envelope passes |
| `TrustMembersOptional` | `MCFrontEndsClaims` | either member of a trust file may be omitted (`vr_verify.rs:299`) | `authority_set` is required |
| `ResultReachesCaller` | `MCFrontEndsClaims` | the result still reaches the caller when it cannot be canonicalized (`wasm.rs:25`) | an error replaces it |
| `SuccessMeansPrinted` | `MCFrontEndsClaims` | the result goes to stdout (`README.md:92`) | a short result is buffered and lost with the newline whose write is ignored; the program exits 0 |
| `VectorsNameTheirError` | `MCVectorErrors` | the vector `invalid_version` expects `UnsupportedVersion` (`generate_test_vectors.rs:424`) | refuses it where it is deserialized, with `MalformedJson` (`ingestion.rs:65`); the tests look for the word version in the message (`test_vector_validation.rs:189`) |

## 4. What is proved

All theorems hold for every value of the constants: every set of hashes and
kinds, every graph, every length of chain, every authority set, every set of
sources. Every invariant of a passing run is one of them, and so is the safety part of
each of their refinements.

- **`ClosureProofs`, the walk.** `WalkInvariant` proves the inductive invariant
  `WalkInv`; from it follow `WalkComputesLeastClosure`, `WalkDecidesCycles`,
  `WalkFlagsNoFalseCycle`, `WalkChecksEveryEdge`, `WalkReportsOnce` and
  `WalkDepthIsBounded`. None of the six is inductive. The invariant is that
  of depth-first search: the nodes on the stack are exactly `on_stack`, each frame's
  node points at the next by the edge last taken (`StackInv`); every edge a frame
  has *passed* leads to a reached node and was checked (`PassedReachable`,
  `PassedChecked`), every reached node lies in each closed set containing the
  root (`ReachableMinimal`); and, until a cycle is flagged, passed edges lead only
  to nodes that have *returned* or to the frame above (`PassedFinished`), and the returned
  nodes contain no cyclic set (`FinishedAcyclic`). A cycle is defined without
  paths, as a non-empty set each of whose members has an edge into it, which
  needs no induction over paths.
- **`ClosureProofs`, the end of the walk.** `WalkDescends` proves `EveryStepDescends`: each
  step makes `Left` smaller, the triple of the receipts not reached, the depth of
  the stack and the members the innermost loop has left, in lexicographic order. A
  descent reaches a receipt (`reachable.contains` is why), a return shortens the
  stack, every other step moves the loop on. `NoEndlessDescent` proves that the
  order has no endless descent. Together they say that no walk, over any index,
  cyclic or not, takes infinitely many steps; that it then goes on to its end is
  the fairness half, `WalkTerminates`. `DepthIsBounded` is the bound on the stack
  of the Rust recursion: no node is active twice (`StackInv`), so the positions of
  the stack inject into the receipts.
- **`ClosureProofs`, the pipeline.** `BundleTypes`, `ValidBundlesAreClosed`,
  `BundleWalksFinalIndex`, `BundleCycleNeverDecides`, `BundleErrorsExplainStatus`,
  `BundleOrderIrrelevant` and `BundleRefinesVerdict` (the safety part of
  `DecidesClosure`). The
  invariant `BundleInv` carries `WalkInv` through the pipeline (the walk's
  lemmas are used, not repeated) and records, for each phase already left, what it
  established unless there is an error: root, manifest, walk. From `WalkInv` and
  a clean error list the committed set is the least closure and is acyclic, so a
  VALID bundle is acceptable. The converse, that an acceptable bundle never collects
  an error, is `VerdictInv`: it adds that the index is, after each insertion, that
  of the receipts inserted so far (`IndexInv`), and that no check already passed
  can be taken back (`PhaseInv`, `CleanInv`, `AcceptableIsClean`). That a cycle
  needs a root that does not verify uses content addressing, the premise
  `ContentAddressed` on the bundle: in an index of verified receipts a non-empty cyclic set
  would be a cycle of hash references.
- **`ClosureProofs`, two verifiers.** `BundlePartsAreLayeredPacks` relates the two
  copies of the edge rules: a committed receipt of a layered kind, taken out of a
  VALID closure bundle with the same supply, is a pack `verify_layered_pack`
  accepts. A committed receipt is a node of the walk, so each of its edges was
  checked and resolved in the index; the index holds the last receipt of each hash
  and the root of the bundle, the pack verifier finds the first and has no such
  root. An edge to the root of the bundle would close a cycle, which a VALID
  bundle has not; and first and last agree on what an edge reads of them unless one fails
  where another verifies (`Shadowed`), the one case the property leaves out besides a support
  set that does not deserialize. In both the two verifiers really differ.
- **`ChainProofs`.** `ChainTypes`, `ChainFlagsMatchRules`, `ChainVerdict`,
  `ChainRefinesVerdict` (the safety part of `DecidesChain`: each step is the one
  decision of `Verdict` or a stutter), `ChainDuplicateNeverDecides` and
  `ChainHeadCommits`. The
  invariant `ChainInv` says of each flag what it has established of the prefix
  already checked; the step from neighbours to all pairs (times increase,
  nothing repeats) is carried by the invariant rather than by induction over data.
  `DuplicateInv` adds that a duplicate reported is one: two envelopes with one hash
  that match their hashes have the same content, hence the same time, which
  contradicts increasing times. `ChainHeadCommits` is about two chains of any
  lengths: were they different, there would be a least distance from the common
  head at which they part, and the link from its neighbour commits that envelope.
- **`SignedReceiptProofs`.** `SignedTypes`, `SignedVerdict`,
  `SignatureConsistent` and `RevokedForEver`. `SignedInv` records what each phase
  of a call has established of the envelope and the bundle; the authority set and
  policy cannot change during a call.
- **`DecisionPackProofs`.** `DecisionChecksTellTheSupply`, `DecisionErrorsTellCauses`,
  `DecisionVerdict` and `DecisionRefinesVerdict` (the safety part of
  `DecidesDecision`). None of them is inductive: `DecisionInv` says that the two
  tables hold exactly the hashes of the supplied receipts treated so far
  (`SupplyInv`), that each check is what `walk_member` says of its member against
  the complete tables (`MembersInv`), and of each kind of error what it stands for
  (`ErrorsInv`). `WalkMemberTells` then reads the tables back as statements about
  the supply.
- **`LayeredPackProofs`.** `LayeredVerdict`, `LayeredResolvedMeansReplayed`,
  `LayeredOrderMattersOnlyForShadows` and `LayeredRefinesVerdict` (the safety part
  of `DecidesLayered`). `LayeredInv` says that the index holds, for each hash the
  supplied receipts treated so far state, the first that states it (`SupplyInv`,
  against `IndexOf`), and that each edge taken was judged by that index
  (`EdgesInv`). That a first receipt exists is the least-element principle of
  the library's theorems on well-founded orders, not an induction. The theorem on
  order compares the declarative definition on the supply and on its reverse.
- **`IngestionProofs`.** `IngestionWorkIsBounded`, `IngestionWorkIsEarned`, `WalkAcceptsExactlyWithin`,
  `IngestionElementsStandAlone` and `IngestionRefinesVerdict` (the safety part of
  `DecidesIngestion`). `WorkIsBounded` alone is not
  inductive: `BoundInv` adds the types of the walk's state, that a walk that met a limit has no
  call left, and that one that has not is within the limit of nodes. That the walk
  refuses nothing it should accept needs `CheckInv`: the active calls are the path
  from the root to the innermost of them (`CallsInv`), and the nodes counted are exactly
  those neither pending nor below a pending one (`VisitedInv`), so that a walk with no call left
  has counted each node once. A path is the least set that holds a node and the
  parents of its members, which again needs no induction. `PipelineInv`
  carries this through both pipelines, and says of the elements of a chain
  already passed that each would be ingested alone. `WorkIsEarned`, that each check comes
  after the limits that bound its work, is kept by each step because of what `PipelineInv` says
  of the checks already passed.
- **`ProducersProofs`, the ceremony.** `CeremonyCoherent`, `CeremonyChains` and
  `CeremonyFailsByFaults`, of `CeremonySpec`: any contents of the sources, any number of
  edits and runs, a stop at any step. `DoneMeansCoherent` is not inductive: the
  verification at the end reads each file by itself, so that they belong together
  has to come from how they were written. `CeremonyInv` says, of a run that goes on, that
  the envelopes in memory are those of the crates already done, linked and under
  one policy (`ProgressInv`, `LinkInv`), that their files hold them, whatever the
  others hold (`FilesInv`), and what the step at hand has written of the next
  (`HandInv`). Each write keeps it because no two files of the set have one path
  (`Paths`), and the envelopes of a complete run are a chain by the definition in
  `Chain` (`BuiltChain`). `OnlyFaultsFail` is the safety half of
  `UndisturbedRunSucceeds`.
- **`ProducersProofs`, the test vectors.** `VectorsTrue` proves `VectorsTellTruth`. Its
  invariant, `VectorsInv` (`VectorsInvariant`), says that the files before the one
  at hand are whole and that every file is torn or holds its own vector; each
  write keeps it because no two vectors have one path. What remains is about the
  vectors and not about the run: each of them is accepted, or rejected with the error it
  names, by the rules of the verifiers; `invalid_version` is rejected as malformed by
  nothing but its version, not with the error it names (section 3). For each `gen_` function a lemma says that its
  files are *fair*: truthful, at paths of their own in the order of `main`.
  `FairJoin` adds them up over the concatenation in `main`. Truthfulness comes
  from the definitions of the envelope (`ReceiptErrors` of what
  `build_envelope` builds is empty, and after one mutation exactly the error of
  that rule), of the chain (the first error of the pairwise loop) and of the packs
  (`LayeredDecided`, `DecisionDecided`, `ClosureDecided`: each member of each support set, the index
  built of the supply, and the least closure of the root). A hash is there
  the pair of its law and its content, so two are equal exactly when their contents are.
- **`FrontEndsProofs`.** `FrontEndsTypeCorrect`, `ProgramExitTellsOutput`,
  `ReceiptHashFlagIsEarned`, `BundleChecksExplainErrors`,
  `ProjectionErrorsTellOfSource`, `PayloadVerdictIsOfWords` and
  `FrontEndsRefineVerdict` (the safety part of `DecidesCaller`), of the program, the
  functions of the browser and direct calls together. `FrontInv` holds an
  invariant of each verifier that is run step by step (`ReceiptInv`, `ExecutionInv`,
  `ExternalInv`, `MriInv`: what the checks passed have established, and which
  errors and flags that leaves), that the limits and the trust file are those the
  flags parsed so far give (`ArgumentsInv`), that the verifier runs on the file the
  caller named (`CallInv`), that nothing is printed before it has returned
  (`BeforeInv`), and that its outcome is VALID exactly when that file deserves it
  (`ResultInv`). The theorem on payloads compares what a float decodes to with what its
  bits are: a word is split into sign, exponent and fraction, and two words without
  signs are compared by cases on the exponents (both zero, one zero, equal,
  apart), for every format with at least two bits of exponent and one of fraction.
  That powers of two are positive numbers is taken from the library's theorem on
  the number of subsets of a finite set (`FS_SUBSET`).

Assumptions on constants are only those the modules name: hashes are a
non-empty set, the values standing for "none", "unreadable", "empty" and "absent"
differ from each other and from hashes, digests, texts and keys, epochs are natural numbers, a
key has a key_id, a float has at least two bits of exponent and one of fraction, an argument
that is parsed gives a natural number, the default limits are positive, there are one
to six crates (the code lists six; an instance takes the first of them), the empty
text is no layered kind (`LayeredPackKindsAssumption`), and `Absent` is none of the
texts, digests and lists the test vectors state (`AbsentAssumption`).
Collision-freedom and content addressing are conditions on inputs (`CollisionFree`,
`ContentAddressed`), never assumptions: a theorem uses them only where the statement
or the set of inputs does.

**Only model-checked.** The liveness parts (`WalkTerminates`,
`UndisturbedRunSucceeds`, and the fairness half of each `Decides...`) are out of reach of the proof system. Of `WalkTerminates` the
half that is safety, that no walk goes on for ever, is proved
(`EveryStepDescends`, `NoEndlessDescent`), and so is that of
`UndisturbedRunSucceeds`, that nothing but a fault makes a run fail
(`CeremonyFailsByFaults`). Every other property of a passing run is a theorem. The
claims of section 3 that the code does not keep are refuted by TLC.

## 5. What is not modelled, and why

- Hashing, JCS canonicalisation, Ed25519: by what they guarantee, as above.
- `result.rs` and `error.rs`: only the parts a property reads; serialisation, digest
  and wording are not.
- `wasm.rs`: `digest_hex` and `verifier_version`, which decide nothing.
- The value of a digest: `identity.rs` and `canonical_identity.rs` are wrappers of
  hash functions, which are symbolic here.
- In the ceremony, the walk over the source files of a crate: it is one read of one
  content, so that an edit in the middle of the walk is not told from one before it.
- The tests, as programs. `gen_invalid_signature` corrupts a signature over another
  payload than that of `valid_signed`, with which the tests read it; the model keeps
  both, and either alone makes the vector fail.
- `vertrule-schemas`, `serde_json`, `vr-jcs`: external, modelled from their use.

## 6. Plan

Written, in the order of importance: closure walk, closure bundle, chain, signed
receipt; then the other packs, external receipts, ingestion; then the envelope and
the receipt, the front ends that compose the verifiers with the program and the
browser, and the producers.

Possible extensions:

1. The use of `Receipt` in the pack models, in place of the premise `verifies`, so that
   the theorems on packs rest on those on a receipt.
2. A relation between the accepted sets of a chain of one envelope and of a receipt, as
   `ClosureLayers` states one between packs.
