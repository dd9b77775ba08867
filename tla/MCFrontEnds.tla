---------------------------- MODULE MCFrontEnds ----------------------------
(***************************************************************************)
(* The program on command lines of up to four flag arguments, for inputs   *)
(* of several sizes, and of two in worlds where at most one other thing is *)
(* not as it should be; the functions of the browser in such worlds, and   *)
(* of the library.  Envelopes differ from a good one in at most two        *)
(* members.  Execution bundles are over two digests.  All external         *)
(* receipts with one event_hash are verified, and the projections of those *)
(* that verify.  The floats of payloads have six bits, and the cosine      *)
(* takes every value.                                                      *)
(***************************************************************************)
EXTENDS FrontEnds, SequencesExt

CONSTANT HashText   \* the event_hash of a receipt

MCValue(a) == CASE a = "1" -> 1 [] a = "2" -> 2 [] OTHER -> 0

LimitTokens == {"--max-bytes", "--max-chain-length", "0", "1", "2"}

TrustTokens == {"--trust", "--max-bytes", "file"}

CommandLines(n) ==
    {<<>>, <<"receipt">>, <<"signed", "file">>, <<"unknown", "file">>}
    \union {<<c, "file">> \o s : c \in {"receipt", "chain"}, s \in BoundedSeq(LimitTokens, n)}
    \union {<<"signed", "file", "file">> \o s : s \in BoundedSeq(TrustTokens, n)}
    \union {<<c, "file">> \o s : c \in PackCommands \union {"external"},
                                 s \in BoundedSeq({"file"}, 1)}

MCArgument ==
    Commands \union LimitTokens \union TrustTokens
    \union {"file", "unknown", "text", "bytes", "value", "projection", "payload"}

Good == [readable |-> TRUE, signature_readable |-> TRUE, valid |-> TRUE, trusted |-> TRUE,
         bytes |-> 1, elements |-> 1, trust_config |-> "full",
         canonicalizes |-> TRUE, stdout_open |-> TRUE, short |-> FALSE,
         error_serializes |-> TRUE, error_canonicalizes |-> TRUE]

\* Inputs of several sizes, and trusted keys or not.
SizeWorlds ==
    {[Good EXCEPT !.bytes = b, !.elements = e] : b \in 1..3, e \in 0..3}
    \union {[Good EXCEPT !.trusted = FALSE]}

Worlds ==
    SizeWorlds
    \union {[Good EXCEPT ![f] = FALSE] : f \in {"readable", "signature_readable", "valid",
                                                 "canonicalizes", "stdout_open"}}
    \union {[Good EXCEPT !.short = TRUE, !.stdout_open = o, !.valid = v] : o, v \in BOOLEAN}
    \union {[Good EXCEPT !.trust_config = t] :
               t \in {"no_trust_policy", "no_authority_set", "unreadable"}}

BrowserWorlds ==
    {[w EXCEPT !.error_serializes = s, !.error_canonicalizes = c, !.canonicalizes = k] :
        w \in Worlds, s, c, k \in BOOLEAN}

OutputWorlds == {w \in Worlds : w.bytes = 1 /\ w.elements = 1 /\ w.trust_config = "full"}

----------------------------------------------------------------------------
(* Envelopes and payloads *)

GoodEnvelope ==
    [envelope_version |-> <<"integer", "1">>, receipt_type |-> <<"string", "event">>,
     context_digest |-> <<"string", "digest">>, schema_digest |-> <<"string", "digest">>,
     policy_digest |-> <<"string", "digest">>, logical_time |-> <<"string", "7">>,
     event_hash |-> <<"string", "of_envelope">>, payload |-> <<"object", "some">>]

\* The members an envelope may have, or not have, instead of those of a good one.
Variants ==
    [envelope_version |-> {<<"integer", "2">>, <<"float", "1.5">>, <<"string", "1">>},
     receipt_type |-> {<<"string", "mri">>, <<"string", "other">>, <<"null", "null">>},
     context_digest |-> {<<"string", "garbage">>, <<"integer", "1">>},
     logical_time |-> {<<"integer", "7">>, <<"float", "1e21">>, <<"string", "garbage">>},
     event_hash |-> {<<"string", "of_document">>, <<"string", "other">>, <<"string", "garbage">>},
     payload |-> {<<"null", "null">>, <<"float", "0.5">>},
     parent_id |-> {<<"string", "digest">>, <<"string", "garbage">>, <<"null", "null">>},
     boundary_origin |-> {<<"string", "engine">>, <<"string", "other">>, <<"integer", "1">>,
                          <<"null", "null">>},
     digest_algorithm |-> {<<"string", "BLAKE3">>, <<"string", "SHA256">>, <<"null", "null">>},
     canonicalization |-> {<<"string", "JCS">>, <<"string", "CBOR">>},
     event_hash_profile |-> {<<"string", "constitutional_envelope_v1">>,
                             <<"string", "runtime_port_event_preimage_v1">>,
                             <<"string", "garbage">>, <<"null", "null">>},
     comment |-> {<<"string", "new">>}]

Missing == <<"missing", "missing">>

\* Members are set one after the other.
SetMember(e, name, value) ==
    LET names == IF value = Missing THEN DOMAIN e \ {name} ELSE DOMAIN e \union {name}
    IN [n \in names |-> IF n = name THEN value ELSE e[n]]

Changed(e) ==
    UNION {{SetMember(e, name, value) : value \in Variants[name] \union {Missing}} :
              name \in DOMAIN Variants}

Envelopes == UNION {Changed(e) : e \in Changed(GoodEnvelope)}

ReceiptText(bytes, admission, object, fields) ==
    [bytes |-> bytes, admission |-> admission, object |-> object, fields |-> fields]

GoodText == ReceiptText(1, "ok", TRUE, GoodEnvelope)

ReceiptTexts ==
    {ReceiptText(1, "ok", TRUE, e) : e \in Envelopes}
    \union {ReceiptText(b, a, o, GoodEnvelope) :
               b \in 1..3, a \in {"ok", "malformed", "noncanonical", "limits"}, o \in BOOLEAN}

Lengths == {NoField, 0, 2}

Batch(l, v) == [kind |-> "batch", batch_len |-> l, vector |-> v]

AnyPayload ==
    Batch(NoField, [n \in {"q_per_example", "e_per_example", "h_per_example", "c_per_example",
                          "degenerate_mask"} |-> NoField])

Coupling(ok, layers, v, c) ==
    [kind |-> "gradient_coupling", schema_ok |-> ok, num_layers |-> layers, vector |-> v,
     profile_cosine |-> c]

\* Infinity, and a vector of one 1.0 for each field.
Infinity == (2^Exponent - 1) * 2^Mantissa

OneLayer == [f \in {"grad_q_norms", "grad_lm_norms", "coupling_ratios"} |-> <<M!OneWord>>]

Payloads ==
    {Batch(l, v) : l \in Lengths,
        v \in [{"q_per_example", "e_per_example", "h_per_example", "c_per_example",
                "degenerate_mask"} -> Lengths]}
    \union {Coupling(ok, n, v, 0) : ok \in BOOLEAN, n \in 0..2,
               v \in [DOMAIN OneLayer -> BoundedSeq({0, Infinity}, 2)]}
    \union {Coupling(TRUE, 1, OneLayer, c) : c \in M!Word}

----------------------------------------------------------------------------
(* Execution bundles, receipts and projections *)

AnyBundle == CHOOSE b \in B!ExecutionBundleInput : B!BundleAcceptable(b)

MCText == {EventType, OtherType, DecodeStep1, DecodeStep2, HashText}

Receipts ==
    [parses : BOOLEAN, version_ok : {TRUE}, commits : BOOLEAN,
     receipt_type : {EventType, OtherType},
     event_hash_profile : {"constitutional_envelope_v1", "runtime_port_event_preimage_v1", "none"},
     computed_by : E!EventHashLaws,
     event_hash : {HashText},
     payload_schema : {DecodeStep1, DecodeStep2, HashText, EmptyText, NotText, Absent}]

BoundValues == [source_receipt_type : {EventType, OtherType, NotText, Absent},
                source_schema_version : {DecodeStep2, EmptyText, NotText, Absent},
                source_event_hash : {HashText, DecodeStep1, NotText, Absent},
                projection_law_id : {NotText, Absent},
                omitted_evidence_classes : {NotText, Absent}]

Projections == [parses : BOOLEAN, value : BoundValues]

Bare == [parses |-> TRUE, value |-> [name \in E!ProjectionField |-> Absent]]

Requests(call) == {[call |-> call, envelope |-> e, projection |-> Bare] : e \in Receipts}

AnyRequest ==
    CHOOSE r \in Requests("external") :
        E!RequestAcceptable(r) /\ r.envelope.receipt_type = OtherType

\* The projections are crossed with the receipts that parse and commit.
ProjectionRequests ==
    Requests("projection") \union
    {[call |-> "projection", envelope |-> e, projection |-> p] :
        e \in {r \in Receipts : r.parses /\ r.commits
                                /\ r.event_hash_profile # "runtime_port_event_preimage_v1"
                                /\ r.computed_by # "runtime_port"},
        p \in Projections}

----------------------------------------------------------------------------
(* The instance *)

\* The inputs of the verifiers a call does not reach do not matter.
Elsewhere(reached) ==
    /\ IF "receipt" \in reached THEN TRUE ELSE receipt = [GoodText EXCEPT !.bytes = world.bytes]
    /\ IF "bundle" \in reached THEN TRUE ELSE bundle = AnyBundle
    /\ IF "request" \in reached THEN TRUE ELSE request = AnyRequest
    /\ IF "payload" \in reached THEN TRUE ELSE payload = AnyPayload

MCInit ==
    /\ \/ /\ frontend = "program"
          /\ \/ args \in CommandLines(4) /\ world \in SizeWorlds
             \/ args \in CommandLines(2) /\ world \in Worlds
          /\ Elsewhere({})
       \/ /\ frontend = "browser"
          /\ args \in BrowserCalls /\ world \in BrowserWorlds
          /\ Elsewhere({})
       \/ /\ frontend = "program"
          /\ args = <<"receipt", "file">> /\ world = Good
          /\ receipt \in ReceiptTexts /\ Elsewhere({"receipt"})
       \/ /\ frontend \in {"program", "browser"}
          /\ args = verify_bundle_json /\ world \in OutputWorlds
          /\ bundle \in B!ExecutionBundleInput /\ Elsewhere({"bundle"})
       \/ /\ frontend = "program"
          /\ args = <<"external", "file">> /\ world \in OutputWorlds
          /\ request \in Requests("external") /\ Elsewhere({"request"})
       \/ /\ frontend = "library"
          /\ args = <<"projection", "bytes">> /\ world = Good
          /\ request \in ProjectionRequests /\ Elsewhere({"request"})
       \/ /\ frontend = "library"
          /\ args = <<"payload", "value">> /\ world = Good
          /\ payload \in Payloads /\ Elsewhere({"payload"})
    /\ FrontInit

MCSpec == MCInit /\ [][FrontNext]_frontVars /\ WF_frontVars(FrontNext)

=============================================================================
