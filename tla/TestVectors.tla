---------------------------- MODULE TestVectors ----------------------------
(***************************************************************************)
(* examples/generate_test_vectors.rs: the test vectors, each with what the *)
(* verifiers are to say of it, and the program that writes them.           *)
(*                                                                         *)
(* A vector is an envelope, or some of them, as Envelope describes them,   *)
(* with the hashes computed: <<"blake3", content>> is the digest of a      *)
(* content, and BLAKE3 tells contents apart.  The verdicts are those the   *)
(* modules of the verifiers define, and their runs establish.              *)
(***************************************************************************)
EXTENDS ArtifactFiles, Envelope, Functions

CONSTANT Absent   \* no value

----------------------------------------------------------------------------
(* Helpers *)

canon_hash(value) == <<"blake3", value>>

placeholder_hex_64(seed) == <<"string", <<"hex", seed>>>>

Without(e, name) == Restrict(e, DOMAIN e \ {name})

With(e, name, value) ==
    [x \in DOMAIN e \union {name} |-> IF x = name THEN value ELSE e[x]]

get_hash(e) == e["event_hash"][2]

NoParent == <<"none">>

Commit(body) == With(body, "event_hash", <<"string", canon_hash(body)>>)

\* The schema_digest is the same in all.
build_envelope_with_digests(payload, logical_time, parent, type, context, policy) ==
    LET body == [envelope_version |-> <<"integer", "1">>,
                 receipt_type |-> <<"string", type>>,
                 context_digest |-> context,
                 schema_digest |-> placeholder_hex_64("bb"),
                 policy_digest |-> policy,
                 logical_time |-> <<"string", logical_time>>,
                 payload |-> <<"object", payload>>]
    IN  Commit(IF parent = NoParent THEN body ELSE With(body, "parent_id", <<"string", parent>>))

build_envelope(payload, logical_time, parent, type) ==
    build_envelope_with_digests(payload, logical_time, parent, type,
                                placeholder_hex_64("aa"), placeholder_hex_64("cc"))

\* What a vector is given to, and what is to come of it: "pass", "fail" or, when
\* the vector says so, the error.
Vector(name, call, expected, data) ==
    [name |-> name, call |-> call, expected |-> expected, data |-> data]

\* The files the program writes for a vector, by directory.
write_vector(v) == <<<<"test-vectors", v>>>>

\* A mutant: there is one directory for both.
write_raw_flat(v) == <<<<"test-vectors", v>>>>

write_raw(v) == <<<<"raw", v>>>>

\* One hex digit of the hash is changed.
Flip(hash) == <<"flipped", hash>>

Tampered(e) == With(e, "event_hash", <<"string", Flip(get_hash(e))>>)

----------------------------------------------------------------------------
(* The valid vectors *)

Payload(action, value) == [action |-> action, value |-> value]

Single(payload) == build_envelope(payload, 1000, NoParent, "governance")

Both(v) == write_vector(v) \o write_raw(v)

gen_valid_single_envelope ==
    Both(Vector("valid_single_envelope", "receipt", "pass", Single(Payload("create", 42))))

gen_valid_chain_3 ==
    LET env_0 == build_envelope(Payload("initialize", 0), 100, NoParent, "governance")
        env_1 == build_envelope(Payload("update_policy", 2), 200, get_hash(env_0), "governance")
        env_2 == build_envelope(Payload("seal_epoch", 1), 300, get_hash(env_1), "governance")
    IN  Both(Vector("valid_chain_3", "chain", "pass", <<env_0, env_1, env_2>>))

\* The signing key, and the first half of its digest.
SigningKey == "seed_42"
key_id(key) == canon_hash(key)

\* The signature covers the digest of the envelope without its hash.
Sign(e) ==
    [alg |-> "Ed25519", schema_version |-> "0.2", digest_basis |-> "BLAKE3+JCS",
     key_id |-> key_id(SigningKey), public_key |-> SigningKey,
     signature |-> [by |-> SigningKey, content |-> Without(e, "event_hash"),
                    timestamp |-> "2026-02-23T12:00:00Z"],
     timestamp |-> "2026-02-23T12:00:00Z"]

SignedEnvelope == Single(Payload("signed_change", 1))

Signed(e, bundle) == [envelope |-> e, sig |-> bundle]

gen_valid_signed ==
    LET envelope == Vector("valid_signed", "receipt", "pass", SignedEnvelope)
        bundle == Vector("valid_sig", "signed", "pass", Signed(SignedEnvelope, Sign(SignedEnvelope)))
    IN  write_vector(envelope) \o write_vector(bundle) \o write_raw(envelope) \o write_raw(bundle)

gen_valid_with_algorithms ==
    LET body == With(With(Without(Single(Payload("create_with_algorithms", 99)), "event_hash"),
                          "digest_algorithm", <<"string", "BLAKE3">>),
                     "canonicalization", <<"string", "JCS">>)
        e == Commit(With(body, "logical_time", <<"string", 2000>>))
    IN  Both(Vector("valid_with_algorithms", "receipt", "pass", e))

----------------------------------------------------------------------------
(* The invalid vectors *)

gen_invalid_event_hash ==
    write_vector(Vector("invalid_event_hash", "receipt", "EventHashMismatch",
                        Tampered(Single(Payload("create", 42)))))

\* The parts of most chain vectors.
Step(n) == [step |-> n]

Opening(time) == build_envelope(Step(0), time, NoParent, "event")

gen_invalid_chain_broken_link ==
    LET env_1 == build_envelope(Step(1), 200, <<"hex", "ff">>, "event") IN
    write_vector(Vector("invalid_chain_broken_link", "verify_chain", "ChainLinkageBroken",
                        <<Opening(100), env_1>>))

gen_invalid_chain_time_regression ==
    LET env_1 == build_envelope(Step(1), 400, get_hash(Opening(500)), "event") IN
    write_vector(Vector("invalid_chain_time_regression", "verify_chain",
                        "LogicalTimeNotMonotonic", <<Opening(500), env_1>>))

\* The error it expects is not the one that is reported: see VectorsNameTheirError.
gen_invalid_version ==
    Both(Vector("invalid_version", "receipt", "UnsupportedVersion",
                With(Single(Payload("create", 1)), "envelope_version", <<"integer", "99">>)))

gen_invalid_unknown_field ==
    Both(Vector("invalid_unknown_field", "receipt", "UnknownField",
                With(Single(Payload("test", 0)), "bogus_field", <<"integer", "42">>)))

gen_invalid_missing_required ==
    Both(Vector("invalid_missing_required", "receipt", "MissingRequiredField",
                Without(Single(Payload("test", 0)), "event_hash")))

gen_invalid_unknown_receipt_type ==
    Both(Vector("invalid_unknown_receipt_type", "receipt", "UnknownReceiptType",
                With(Single(Payload("test", 0)), "receipt_type", <<"string", "Quantum">>)))

\* A mutant: the hash of the second envelope is left as it is.
gen_invalid_duplicate_hash_unforced ==
    LET env_0 == build_envelope(Payload("duplicate", 0), 100, NoParent, "event")
        env_1 == build_envelope(Payload("duplicate", 0), 200, get_hash(env_0), "event")
    IN  write_vector(Vector("invalid_duplicate_hash", "verify_chain", "DuplicateEventHash",
                            <<env_0, env_1>>))

gen_invalid_duplicate_hash ==
    LET env_0 == build_envelope(Payload("duplicate", 0), 100, NoParent, "event")
        env_1 == build_envelope(Payload("duplicate", 0), 200, get_hash(env_0), "event")
    IN  write_vector(Vector("invalid_duplicate_hash", "verify_chain", "DuplicateEventHash",
                            <<env_0, With(env_1, "event_hash", env_0["event_hash"])>>))

Next200(context, policy) ==
    build_envelope_with_digests(Step(1), 200, get_hash(Opening(100)), "event", context, policy)

gen_invalid_context_inconsistent ==
    write_vector(Vector("invalid_context_inconsistent", "verify_chain", "ContextInconsistent",
                        <<Opening(100), Next200(placeholder_hex_64("dd"), placeholder_hex_64("cc"))>>))

gen_invalid_policy_inconsistent ==
    write_vector(Vector("invalid_policy_inconsistent", "verify_chain", "PolicyInconsistent",
                        <<Opening(100), Next200(placeholder_hex_64("aa"), placeholder_hex_64("dd"))>>))

gen_invalid_bit_flip ==
    write_vector(Vector("invalid_bit_flip", "receipt", "EventHashMismatch",
                        Tampered(Single(Payload("create", 42)))))

gen_invalid_wrong_digest_algorithm ==
    write_vector(Vector("invalid_wrong_digest_algorithm", "receipt", "DigestAlgorithmMismatch",
                        With(Single(Payload("create", 1)), "digest_algorithm",
                             <<"string", "SHA256">>)))

gen_invalid_wrong_canonicalization ==
    write_vector(Vector("invalid_wrong_canonicalization", "receipt", "CanonicalizationMismatch",
                        With(Single(Payload("create", 1)), "canonicalization",
                             <<"string", "CBOR">>)))

gen_invalid_schema_inconsistent ==
    LET env_1 == Next200(placeholder_hex_64("aa"), placeholder_hex_64("cc")) IN
    write_vector(Vector("invalid_schema_inconsistent", "verify_chain", "SchemaInconsistent",
                        <<Opening(100), With(env_1, "schema_digest", placeholder_hex_64("dd"))>>))

\* The signature is over another envelope than SignedEnvelope, with which it is
\* read, and it is corrupted.  The fixture beside it states no data.
gen_invalid_signature ==
    LET e == Single([action |-> "signed_change"])
        corrupted == [Sign(e) EXCEPT !.signature.by = "nobody"]
        v == Vector("invalid_signature", "signed", "SignatureInvalid",
                    Signed(SignedEnvelope, corrupted))
    IN  write_vector(v) \o write_raw([v EXCEPT !.name = "invalid_sig"])

----------------------------------------------------------------------------
(* Packs *)

Typed(hash, schema) ==
    [member_kind |-> "typed_receipt_dependency", event_hash |-> hash, target_schema |-> schema,
     well_formed |-> TRUE]

Committed(kind) ==
    [member_kind |-> kind, event_hash |-> Absent, target_schema |-> "", well_formed |-> TRUE]

Receipt(kind, support_set, digest, time) ==
    build_envelope([payload_kind |-> kind, support_set |-> support_set,
                    closure_manifest_digest |-> digest],
                   time, NoParent, "event")

Provider == Receipt("provider.v0", <<Committed("evidence_digest")>>, Absent, 1000)

build_layered_model(provider_hash, target_schema) ==
    Receipt("model.v0", <<Typed(provider_hash, target_schema)>>, Absent, 1001)

Model == build_layered_model(get_hash(Provider), "provider.v0")

Pack(format, root, supplied) == [format |-> format, root |-> root, supplied |-> supplied]

gen_layered_pack ==
    LET pack(root) == Pack("vr-layered-pack/v1", root, <<Provider>>)
        model_bad == build_layered_model(get_hash(Provider), "model.v0")
    IN  write_raw(Vector("valid_layered_pack", "layered", "pass", pack(Model)))
        \o write_raw(Vector("invalid_layered_pack", "layered", "fail", pack(model_bad)))

Prior == Receipt("prior", <<>>, Absent, 1000)

Decision ==
    Receipt("decision.v0",
            <<Committed("cited_link"),
              [Committed("depended_on_receipt") EXCEPT !.event_hash = get_hash(Prior)],
              Committed("evidence_digest"),
              Committed("selector_value")>>,
            Absent, 1001)

gen_decision_pack ==
    LET pack(supplied) == Pack("vr-decision-pack/v1", Decision, supplied) IN
    write_raw(Vector("valid_decision_pack", "decision", "pass", pack(<<Prior>>)))
    \o write_raw(Vector("invalid_decision_pack", "decision", "fail", pack(<<>>)))

\* The closure is committed by the manifest, and the manifest by the root.
ManifestBody ==
    [receipt_closure |-> <<get_hash(Model), get_hash(Provider)>>, dependency_count |-> 2]

ClosureRoot ==
    Receipt("pack.v0", <<Typed(get_hash(Model), "model.v0")>>, canon_hash(ManifestBody), 1002)

gen_closure_bundle ==
    LET bundle(supplied) == Pack("vr-layered-bundle/v1", ClosureRoot, supplied) IN
    write_raw(Vector("valid_closure_bundle", "closure", "pass", bundle(<<Model, Provider>>)))
    \o write_raw(Vector("invalid_closure_bundle", "closure", "fail", bundle(<<Model>>)))

gen_external_receipt ==
    LET e == Single(Payload("write", 0)) IN
    write_raw(Vector("valid_external_receipt", "external", "pass", e))
    \o write_raw(Vector("invalid_external_receipt", "external", "fail", Tampered(e)))

\* Both are for the key that signed SignedEnvelope.
gen_trust_configs ==
    LET entry == [public_key |-> SigningKey, valid_from |-> 0, valid_until |-> Absent] IN
    write_raw(Vector("trust_accept", "trust", "pass", [k \in {key_id(SigningKey)} |-> entry]))
    \o write_raw(Vector("trust_deny", "trust", "fail", <<>>))

trust_policy == [current_epoch |-> 1, enforce_epoch |-> TRUE, enforce_revocation |-> TRUE]

----------------------------------------------------------------------------
(* The verdicts *)

\* An envelope as the checks of Envelope read it.
AsMembers(e) ==
    [name \in DOMAIN e |->
        CASE name = "event_hash" ->
                <<"string", IF get_hash(e) = canon_hash(Without(e, name))
                            THEN "of_document" ELSE "other">>
          [] name \in {"context_digest", "schema_digest", "policy_digest", "parent_id"} ->
                <<"string", "digest">>
          [] name \in {"logical_time", "payload"} -> <<e[name][1], "some">>
          [] OTHER -> e[name]]

\* The errors verify_receipt reports.
ReceiptErrors(e) ==
    LET fields == AsMembers(e)
        found == validate_envelope_schema(fields)
    IN  IF found # "none" THEN {found}
        ELSE IF ~(reject_structural_floats(fields) /\ Deserializes(fields)) THEN {"MalformedJson"}
        ELSE {x \in {"UnsupportedVersion"} : ~verify_envelope_version(fields)}
             \union {x \in {"DigestAlgorithmMismatch"} : ~Declares(fields, "digest_algorithm", "BLAKE3")}
             \union {x \in {"CanonicalizationMismatch"} : ~Declares(fields, "canonicalization", "JCS")}
             \union {x \in {"EventHashMismatch"} : ~verify_event_hash(fields)}

Verifies(e) == ReceiptErrors(e) = {}

ParentOf(e) == IF Has(e, "parent_id") THEN e["parent_id"][2] ELSE NoParent

\* verify_chain: the first error check_chain_detail finds.
verify_chain(c) ==
    LET deviates(name) == \E n \in 2..Len(c) : c[n][name] # c[1][name]
        error_at(n) ==
            IF \E m \in 1..(n - 1) : get_hash(c[m]) = get_hash(c[n]) THEN "DuplicateEventHash"
            ELSE IF ParentOf(c[n]) # get_hash(c[n - 1]) THEN "ChainLinkageBroken"
            ELSE IF c[n]["logical_time"][2] <= c[n - 1]["logical_time"][2]
                 THEN "LogicalTimeNotMonotonic"
            ELSE "none"
        failing == {n \in 2..Len(c) : error_at(n) # "none"}
    IN  IF c # <<>> /\ ParentOf(c[1]) # NoParent THEN "ChainLinkageBroken"
        ELSE IF deviates("context_digest") THEN "ContextInconsistent"
        ELSE IF deviates("policy_digest") THEN "PolicyInconsistent"
        ELSE IF deviates("schema_digest") THEN "SchemaInconsistent"
        ELSE IF failing = {} THEN "none"
        ELSE error_at(CHOOSE n \in failing : \A m \in failing : n <= m)

\* The verifiers' modules, for what they accept; their state is not used here.
S(authority) == INSTANCE SignedReceipt WITH
    PublicKey <- {SigningKey}, KeyIdOf <- key_id, KeyId <- {}, Content <- {}, Timestamp <- {},
    BadKey <- Absent, BadSignature <- Absent, EmptyKey <- Absent, NoBound <- Absent, Epoch <- {},
    keys <- authority, revocations <- {}, policy <- trust_policy,
    args <- Absent, phase <- Absent, result <- Absent

L == INSTANCE LayeredPack WITH
    Hash <- {}, Kind <- {}, LayeredKinds <- {"provider.v0", "model.v0"},
    NoHash <- Absent, Malformed <- Absent,
    pack <- Absent, phase <- Absent, position <- Absent, supplied <- Absent,
    edge_checks <- Absent, errors <- Absent, status <- Absent

D == INSTANCE DecisionPack WITH
    Hash <- {}, NoHash <- Absent,
    pack <- Absent, phase <- Absent, position <- Absent, verified_hashes <- Absent,
    failed_hashes <- Absent, member_checks <- Absent, errors <- Absent, status <- Absent

C == INSTANCE ClosureBundle WITH
    Hash <- {get_hash(Provider), get_hash(Model), get_hash(ClosureRoot)},
    Kind <- {}, LayeredKinds <- {"provider.v0", "model.v0", "pack.v0"}, Digest <- {},
    PackKind <- "pack.v0", NoHash <- Absent, NoDigest <- Absent, NotAString <- Absent,
    Malformed <- Absent,
    index <- Absent, root <- Absent, stack <- Absent, reachable <- Absent, on_stack <- Absent,
    edge_checks <- Absent, cycle_detected <- Absent, bundle <- Absent, phase <- Absent,
    position <- Absent, errors <- Absent, manifest_digest_ok <- Absent,
    closure_complete <- Absent, status <- Absent

E == INSTANCE ExternalReceipt WITH
    Text <- {}, EventType <- "event", OtherType <- "governance", DecodeStep2 <- "",
    DecodeStep1 <- "", EmptyText <- "", NotText <- Absent,
    request <- Absent, phase <- Absent, field <- Absent, error <- Absent, status <- Absent

AsSigned(data) ==
    [envelope |-> [ingests |-> TRUE, version_ok |-> TRUE, algorithms_ok |-> TRUE,
                   content |-> Without(data.envelope, "event_hash"),
                   event_hash |-> get_hash(data.envelope)[2]],
     sig |-> With(With(data.sig, "parses", TRUE), "metadata_ok", TRUE)]

\* A receipt as the verifiers of packs read it.
AsSupplied(e) ==
    LET payload == e["payload"][2] IN
    [json |-> TRUE, verifies |-> Verifies(e), payload |-> TRUE, event_hash |-> get_hash(e),
     admitted |-> payload.payload_kind = "decision.v0",
     payload_kind |-> payload.payload_kind, support_set |-> payload.support_set,
     closure_manifest_digest |-> payload.closure_manifest_digest]

AsPack(p) ==
    LET root == AsSupplied(p.root)
        supplied == [n \in DOMAIN p.supplied |-> AsSupplied(p.supplied[n])]
    IN  [json |-> TRUE, format_ok |-> TRUE, root_canonical |-> root, receipts |-> supplied,
         decision |-> root, depended_on |-> supplied,
         manifest |-> [object |-> TRUE, root_event_hash |-> Absent,
                       manifest_digest |-> canon_hash(ManifestBody),
                       recomputed |-> canon_hash(ManifestBody),
                       receipt_closure |-> ManifestBody.receipt_closure,
                       dependency_count |-> ManifestBody.dependency_count]]

AsRequest(e) ==
    [call |-> "external",
     envelope |-> [parses |-> TRUE, version_ok |-> TRUE, commits |-> TRUE,
                   receipt_type |-> e["receipt_type"][2], event_hash_profile |-> "none",
                   computed_by |-> IF Verifies(e) THEN "envelope_minus" ELSE "none",
                   payload_schema |-> Absent]]

\* Whether the verifier a vector is given to accepts it.
Accepted(v) ==
    CASE v.call = "receipt" -> Verifies(v.data)
      [] v.call = "chain" -> verify_chain(v.data) = "none" /\ \A n \in DOMAIN v.data : Verifies(v.data[n])
      [] v.call = "verify_chain" -> verify_chain(v.data) = "none"
      [] v.call = "signed" -> Verifies(v.data.envelope) /\ S(<<>>)!SignedAcceptable(AsSigned(v.data))
      [] v.call = "trust" -> S(v.data)!SignerAuthorised(AsSigned(Signed(SignedEnvelope, Sign(SignedEnvelope))))
      [] v.call = "layered" -> L!LayeredAcceptable(AsPack(v.data))
      [] v.call = "decision" -> D!DecisionAcceptable(AsPack(v.data))
      [] v.call = "closure" -> C!ClosureAcceptable(AsPack(v.data))
      [] v.call = "external" -> E!RequestAcceptable(AsRequest(v.data))

\* A wrong version is refused as malformed where the envelope is deserialized; it
\* is the only thing that is malformed.
RefusedForItsVersion(e) ==
    /\ ReceiptErrors(e) = {"MalformedJson"}
    /\ Deserializes([AsMembers(e) EXCEPT !["envelope_version"] = <<"integer", "1">>])

\* Whether the rule a vector breaks is the one that is reported: by the error it
\* expects or, for a version, as the validation of the vectors reads the report.
Reported(v) ==
    CASE v.call = "receipt" ->
            \/ v.expected \in ReceiptErrors(v.data)
            \/ v.expected = "UnsupportedVersion" /\ RefusedForItsVersion(v.data)
      [] v.call = "verify_chain" -> v.expected = verify_chain(v.data)
      [] OTHER -> ~Accepted(v)

TellsTruth(v) == IF v.expected = "pass" THEN Accepted(v) ELSE ~Accepted(v) /\ Reported(v)

----------------------------------------------------------------------------
(* The program *)

\* In the order of main.
Vectors ==
    gen_valid_single_envelope \o gen_valid_chain_3 \o gen_valid_signed
    \o gen_valid_with_algorithms
    \o gen_invalid_event_hash \o gen_invalid_chain_broken_link
    \o gen_invalid_chain_time_regression \o gen_invalid_version \o gen_invalid_unknown_field
    \o gen_invalid_missing_required \o gen_invalid_unknown_receipt_type
    \o gen_invalid_duplicate_hash \o gen_invalid_context_inconsistent
    \o gen_invalid_policy_inconsistent \o gen_invalid_bit_flip \o gen_invalid_signature
    \o gen_invalid_wrong_digest_algorithm \o gen_invalid_wrong_canonicalization
    \o gen_invalid_schema_inconsistent
    \o gen_layered_pack \o gen_decision_pack \o gen_closure_bundle
    \o gen_external_receipt \o gen_trust_configs

PathOf(n) == <<Vectors[n][1], Vectors[n][2].name>>

VectorsInit == FilesInit /\ step = <<"create", 1>>

\* File n is created, then written; the program ends after the last.
CreateVector(n) ==
    /\ Create(PathOf(n))
    /\ GoOn(<<"write", n>>)

WriteVector(n) ==
    /\ WriteAll(PathOf(n), n)
    /\ step' = <<"create", n + 1>>
    /\ exit' = IF n = Len(Vectors) THEN "written" ELSE "running"
    /\ UNCHANGED <<fault, runs>>

VectorsStep ==
    /\ Running
    /\ \/ step[1] = "create" /\ CreateVector(step[2])
       \/ step[1] = "write" /\ WriteVector(step[2])

VectorsNext ==
    \/ VectorsStep
    \/ Stop
    \/ Restart(<<"create", 1>>)

----------------------------------------------------------------------------
(* Properties *)

\* Every test vector that is whole on the disk tells the truth: a verifier that
\* obeys the declarative rules of the modules of this project accepts it if it
\* says "pass", rejects it if it says "fail" or names a pack invalid, and rejects it
\* for the rule it is to break, whatever else is wrong with it: with the error it
\* expects or, for a wrong version, as malformed by nothing but its version.  A run
\* that ends leaves each of them whole, no two under one name.
VectorsTellTruth ==
    /\ \A path \in DOMAIN disk : Whole(path) => TellsTruth(Vectors[disk[path][1]][2])
    /\ exit = "written" => \A n \in 1..Len(Vectors) : disk[PathOf(n)] = <<n>>

----------------------------------------------------------------------------
(* A claim of the vectors the verifier does not keep *)

\* An invalid receipt names, as its "expected_error", an error verify_receipt
\* reports of it.
VectorsNameTheirError ==
    \A path \in DOMAIN disk :
        Whole(path) =>
            LET v == Vectors[disk[path][1]][2] IN
            v.call = "receipt" /\ v.expected # "pass" => v.expected \in ReceiptErrors(v.data)

----------------------------------------------------------------------------
(* The inductive invariant behind VectorsTellTruth *)

Written(n) == PathOf(n) \in DOMAIN disk /\ disk[PathOf(n)] = <<n>>

\* A file there is is torn or holds its own vector, and those before the one at
\* hand are whole; all of them, at the end.
VectorsInv ==
    /\ DOMAIN disk \subseteq {PathOf(n) : n \in 1..Len(Vectors)}
    /\ \A n \in 1..Len(Vectors) : PathOf(n) \in DOMAIN disk => disk[PathOf(n)] \in {<<>>, <<n>>}
    /\ \/ /\ exit # "written"
          /\ step[1] \in {"create", "write"}
          /\ step[2] \in 1..Len(Vectors)
          /\ \A m \in 1..(step[2] - 1) : Written(m)
       \/ exit = "written" /\ \A m \in 1..Len(Vectors) : Written(m)

=============================================================================
