-------------------------- MODULE ExternalReceipt --------------------------
(***************************************************************************)
(* verify_external_receipt and verify_projection_source of rbh.rs: the     *)
(* structural verification of a receipt at the host boundary, and of a     *)
(* projection that cites one.  The first failing check ends the call; its  *)
(* error is all the caller learns.                                         *)
(***************************************************************************)
EXTENDS Naturals, Sequences

CONSTANTS
    Text,        \* the non-empty strings a source field may hold
    EventType,   \* the receipt_type of a multi-law receipt
    OtherType,   \* a receipt_type with a single law
    DecodeStep2, \* vr.operator_stream.decode_step@0.2
    DecodeStep1, \* a decode-step schema of another version
    EmptyText,   \* the empty string
    NotText,     \* a JSON value that is not a string
    Absent       \* no such field

VARIABLES
    request,  \* the input
    phase,    \* the check to make next
    field,    \* projection fields already looked at
    error,    \* the error returned, "none" before
    status

vars == <<request, phase, field, error, status>>

----------------------------------------------------------------------------
(* Data *)

Json == Text \union {EmptyText, NotText, Absent}

EventHashLaws == {"envelope_minus", "runtime_port", "payload_only"}

\* computed_by is the law under which the declared event_hash is the right one;
\* commits is FALSE when the envelope cannot be canonicalized.  Another version or
\* profile does not parse (SchemaVersion, EventHashProfileId), so that the check
\* of the version cannot fail.
ReceiptEnvelope ==
    [parses : BOOLEAN, version_ok : {TRUE}, commits : BOOLEAN,
     receipt_type : {EventType, OtherType},
     event_hash_profile : {"constitutional_envelope_v1", "runtime_port_event_preimage_v1", "none"},
     computed_by : EventHashLaws,
     event_hash : Text,
     payload_schema : Json]

PROJECTION_SOURCE_FIELDS ==
    <<"source_receipt_type", "source_schema_version", "source_event_hash",
      "projection_law_id", "omitted_evidence_classes">>

ProjectionField ==
    {"source_receipt_type", "source_schema_version", "source_event_hash",
     "projection_law_id", "omitted_evidence_classes"}

Projection == [parses : BOOLEAN, value : [ProjectionField -> Json]]

Request == [call : {"external", "projection"}, envelope : ReceiptEnvelope, projection : Projection]

Errors ==
    {"ParseError", "UnsupportedVersion", "EventHashMismatch", "EventHashLawAmbiguous",
     "ProfileNotEnvelopeVerifiable", "CommitmentError", "NonCanonicalDecodeStep",
     "ProjectionMissingSourceBinding", "ProjectionSourceMismatch"}

----------------------------------------------------------------------------
(* The verifier *)

Init ==
    /\ request \in Request
    /\ phase = "parse"
    /\ field = 0
    /\ error = "none"
    /\ status = "pending"

Fail(e) ==
    /\ error' = e
    /\ status' = "Invalid"
    /\ phase' = "done"
    /\ UNCHANGED <<request, field>>

GoTo(next) ==
    /\ phase' = next
    /\ UNCHANGED <<request, error, status>>

ParseReceipt ==
    /\ phase = "parse"
    /\ \/ ~request.envelope.parses /\ Fail("ParseError")
       \/ request.envelope.parses /\ GoTo("version") /\ UNCHANGED field

verify_envelope_version ==
    /\ phase = "version"
    /\ \/ ~request.envelope.version_ok /\ Fail("UnsupportedVersion")
       \/ request.envelope.version_ok /\ GoTo("event_hash") /\ UNCHANGED field

is_multi_law(receipt_type) == receipt_type = EventType

\* A mutant: the law is inferred when no profile is declared.
resolve_profile_inferred(e) ==
    IF e.event_hash_profile = "runtime_port_event_preimage_v1" THEN "runtime_port"
    ELSE "envelope_minus"

\* The law is the declared profile's; only a single-law type may leave it out.
resolve_profile(e) ==
    CASE e.event_hash_profile = "constitutional_envelope_v1" -> "envelope_minus"
      [] e.event_hash_profile = "runtime_port_event_preimage_v1" -> "runtime_port"
      [] e.event_hash_profile = "none" /\ is_multi_law(e.receipt_type) -> "ambiguous"
      [] e.event_hash_profile = "none" /\ ~is_multi_law(e.receipt_type) -> "envelope_minus"

verify_event_hash ==
    /\ phase = "event_hash"
    /\ LET law == resolve_profile(request.envelope) IN
       \/ law = "ambiguous" /\ Fail("EventHashLawAmbiguous")
       \/ law = "runtime_port" /\ Fail("ProfileNotEnvelopeVerifiable")
       \/ /\ law = "envelope_minus"
          /\ \/ ~request.envelope.commits /\ Fail("CommitmentError")
             \/ /\ request.envelope.commits
                /\ request.envelope.computed_by # "envelope_minus"
                /\ Fail("EventHashMismatch")
             \/ /\ request.envelope.commits
                /\ request.envelope.computed_by = "envelope_minus"
                /\ GoTo("decode_step") /\ UNCHANGED field

\* Only a payload that claims the decode-step schema is looked at.  On success
\* the call returns, or goes on to the projection.
verify_decode_step_schema ==
    /\ phase = "decode_step"
    /\ \/ request.envelope.payload_schema = DecodeStep1 /\ Fail("NonCanonicalDecodeStep")
       \/ /\ request.envelope.payload_schema # DecodeStep1
          /\ \/ /\ request.call = "external"
                /\ phase' = "done"
                /\ status' = "Valid"
                /\ UNCHANGED <<request, field, error>>
             \/ request.call = "projection" /\ GoTo("projection") /\ UNCHANGED field

ParseProjection ==
    /\ phase = "projection"
    /\ \/ ~request.projection.parses /\ Fail("ParseError")
       \/ request.projection.parses /\ GoTo("fields") /\ UNCHANGED field

\* All five fields are looked for before any is compared.
RequireField ==
    /\ phase = "fields"
    /\ field < Len(PROJECTION_SOURCE_FIELDS)
    /\ LET name == PROJECTION_SOURCE_FIELDS[field + 1] IN
       \/ /\ request.projection.value[name] = Absent
          /\ Fail("ProjectionMissingSourceBinding")
       \/ /\ request.projection.value[name] # Absent
          /\ field' = field + 1
          /\ UNCHANGED <<request, phase, error, status>>

StartBinding ==
    /\ phase = "fields"
    /\ field = Len(PROJECTION_SOURCE_FIELDS)
    /\ GoTo("binding")
    /\ field' = 0

\* What is not a string compares as the empty string.
AsText(json) == IF json \in Text THEN json ELSE EmptyText

\* A mutant: the event_hash is not compared.
CitedUnhashed(e) == <<e.receipt_type, e.payload_schema>>

\* The value of the cited envelope each of the first three fields is bound to.
Cited(e) == <<e.receipt_type, e.payload_schema, e.event_hash>>

assert_projection_bind ==
    /\ phase = "binding"
    /\ field < Len(Cited(request.envelope))
    /\ LET actual == request.projection.value[PROJECTION_SOURCE_FIELDS[field + 1]]
           expected == Cited(request.envelope)[field + 1]
       IN
       \/ AsText(actual) # AsText(expected) /\ Fail("ProjectionSourceMismatch")
       \/ /\ AsText(actual) = AsText(expected)
          /\ field' = field + 1
          /\ UNCHANGED <<request, phase, error, status>>

ReturnMetadata ==
    /\ phase = "binding"
    /\ field = Len(Cited(request.envelope))
    /\ phase' = "done"
    /\ status' = "Valid"
    /\ UNCHANGED <<request, field, error>>

Next ==
    \/ ParseReceipt
    \/ verify_envelope_version
    \/ verify_event_hash
    \/ verify_decode_step_schema
    \/ ParseProjection
    \/ RequireField
    \/ StartBinding
    \/ assert_projection_bind
    \/ ReturnMetadata

Spec == Init /\ [][Next]_vars

----------------------------------------------------------------------------
(* What the verifier decides *)

\* A receipt is accepted under the one law that can be recomputed from it.
SourceAcceptable(e) ==
    /\ e.parses /\ e.version_ok /\ e.commits
    /\ e.computed_by = "envelope_minus"
    /\ \/ e.event_hash_profile = "constitutional_envelope_v1"
       \/ e.event_hash_profile = "none" /\ e.receipt_type # EventType
    /\ e.payload_schema # DecodeStep1

ProjectionAcceptable(p, e) ==
    /\ p.parses
    /\ \A name \in ProjectionField : p.value[name] # Absent
    /\ p.value["source_receipt_type"] = e.receipt_type
    /\ p.value["source_event_hash"] = e.event_hash
    /\ AsText(p.value["source_schema_version"]) = AsText(e.payload_schema)

RequestAcceptable(r) ==
    /\ SourceAcceptable(r.envelope)
    /\ r.call = "projection" => ProjectionAcceptable(r.projection, r.envelope)

----------------------------------------------------------------------------
(* Properties *)

\* Every variable keeps its type.
TypeOK ==
    /\ request \in Request
    /\ phase \in {"parse", "version", "event_hash", "decode_step", "projection",
                 "fields", "binding", "done"}
    /\ field \in 0..Len(PROJECTION_SOURCE_FIELDS)
    /\ error \in Errors \union {"none"}
    /\ status \in {"pending", "Valid", "Invalid"}

\* A projection is never judged before its source: whatever is wrong with the
\* projection, an error about it tells the caller that the receipt it cites was
\* verified, and a mismatch that no field was missing.
ProjectionErrorsVouchForSource ==
    /\ error \in {"ProjectionMissingSourceBinding", "ProjectionSourceMismatch"} =>
          SourceAcceptable(request.envelope)
    /\ error = "ProjectionSourceMismatch" =>
          \A name \in ProjectionField : request.projection.value[name] # Absent

----------------------------------------------------------------------------
(* Claims of the documentation the code does not keep *)

\* rbh.rs, assert_projection_bind: "a projection's source-bound field equals the
\* cited envelope value".
BoundFieldsEqualSource ==
    status = "Valid" /\ request.call = "projection" =>
        request.projection.value["source_schema_version"] = request.envelope.payload_schema

\* rbh.rs, verify_projection_source: it verifies a projection "against the
\* canonical decode-step envelope it cites".
SourceIsDecodeStep ==
    status = "Valid" /\ request.call = "projection" =>
        request.envelope.payload_schema = DecodeStep2

----------------------------------------------------------------------------
(* The inductive invariant behind the verdict *)

\* What the phases before have found of the receipt.
SourceInv ==
    /\ phase \notin {"parse", "done"} => request.envelope.parses
    /\ phase \notin {"parse", "version", "done"} => request.envelope.version_ok
    /\ phase \notin {"parse", "version", "event_hash", "done"} =>
          /\ request.envelope.commits
          /\ request.envelope.computed_by = "envelope_minus"
          /\ resolve_profile(request.envelope) = "envelope_minus"
    /\ phase \in {"projection", "fields", "binding"} =>
          SourceAcceptable(request.envelope) /\ request.call = "projection"

\* Field n of a projection equals the value of the source it is bound to.
IsBound(n) ==
    AsText(request.projection.value[PROJECTION_SOURCE_FIELDS[n]])
        = AsText(Cited(request.envelope)[n])

\* And of the projection: the fields looked at are there, and then bound.
ProjectionInv ==
    /\ phase \in {"fields", "binding"} => request.projection.parses
    /\ phase = "fields" =>
          \A n \in 1..field : request.projection.value[PROJECTION_SOURCE_FIELDS[n]] # Absent
    /\ phase = "binding" =>
          /\ \A name \in ProjectionField : request.projection.value[name] # Absent
          /\ field <= Len(Cited(request.envelope))
          /\ \A n \in 1..field : IsBound(n)

ExternalInv ==
    /\ TypeOK
    /\ SourceInv
    /\ ProjectionInv
    /\ phase \notin {"fields", "binding", "done"} => field = 0
    /\ status = "pending" <=> phase # "done"
    /\ phase # "done" => error = "none"
    /\ phase = "done" => (status = "Valid" <=> RequestAcceptable(request))
    /\ ProjectionErrorsVouchForSource

=============================================================================
