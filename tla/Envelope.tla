------------------------------ MODULE Envelope ------------------------------
(***************************************************************************)
(* One receipt envelope: the schema profile (schema_profile.rs), the typed *)
(* deserialization (ingestion.rs), version, algorithms and event hash      *)
(* (envelope.rs).  A JSON value is a pair <<kind, content>>, and an        *)
(* envelope a function from the names of its members.                      *)
(*                                                                         *)
(* The types ReceiptEnvelope, SchemaVersion and EventHashProfileId are of  *)
(* vertrule-schemas: what they deserialize from is what the tests of this  *)
(* repository say (lib_tests.rs, rbh_tests.rs, test_vector_validation.rs). *)
(***************************************************************************)
EXTENDS Naturals, Sequences

\* The kind of JSON value vertrule-schemas serializes a logical time as.
CONSTANT WireForm

----------------------------------------------------------------------------
(* Data *)

REQUIRED_ENVELOPE_FIELDS ==
    {"envelope_version", "receipt_type", "context_digest", "schema_digest", "policy_digest",
     "logical_time", "event_hash", "payload"}

OPTIONAL_ENVELOPE_FIELDS ==
    {"parent_id", "boundary_origin", "digest_algorithm", "canonicalization",
     "event_hash_profile"}

KNOWN_RECEIPT_TYPES ==
    {"event", "llm", "mri", "governance", "adapter", "projection", "training", "operation",
     "finalization", "abort"}

KNOWN_BOUNDARY_ORIGINS ==
    {"engine", "adapter", "numeric", "governance", "model", "training"}

STRUCTURAL_INTEGER_FIELDS == {"envelope_version", "logical_time"}

\* A "float" is a number that is no 64-bit integer.
JsonKinds == {"integer", "float", "string", "null", "object"}

----------------------------------------------------------------------------
(* The checks on an envelope, fields being its members *)

Has(fields, name) == name \in DOMAIN fields

AsStr(fields, name, values) ==
    Has(fields, name) /\ fields[name][1] = "string" => fields[name][2] \in values

KnownFields == REQUIRED_ENVELOPE_FIELDS \union OPTIONAL_ENVELOPE_FIELDS

\* The error, or "none".  A type or an origin that is no string is let through.
validate_envelope_schema(fields) ==
    IF ~(DOMAIN fields \subseteq KnownFields) THEN "UnknownField"
    ELSE IF ~(REQUIRED_ENVELOPE_FIELDS \subseteq DOMAIN fields) THEN "MissingRequiredField"
    ELSE IF ~AsStr(fields, "receipt_type", KNOWN_RECEIPT_TYPES) THEN "UnknownReceiptType"
    ELSE IF ~AsStr(fields, "boundary_origin", KNOWN_BOUNDARY_ORIGINS)
         THEN "UnknownBoundaryOrigin"
    ELSE "none"

\* TRUE unless there is one.
reject_structural_floats(fields) ==
    \A name \in STRUCTURAL_INTEGER_FIELDS : Has(fields, name) => fields[name][1] # "float"

\* What serde accepts for a field: a logical time is a number or a decimal
\* string, the payload is any value.
KindsOf(name) ==
    CASE name = "envelope_version" -> {"integer"}
      [] name = "logical_time" -> {"integer", "string"}
      [] name = "payload" -> JsonKinds
      [] name \in OPTIONAL_ENVELOPE_FIELDS -> {"string", "null"}
      [] OTHER -> {"string"}

\* The profiles of the closed enum EventHashProfileId.
EventHashProfileIds == {"constitutional_envelope_v1", "runtime_port_event_preimage_v1"}

\* A mutant: a profile is any string, to be looked up by whoever dispatches on it.
DeserializesAnyProfile(fields) ==
    /\ \A name \in DOMAIN fields :
          /\ fields[name][1] \in KindsOf(name)
          /\ fields[name] = <<"string", "garbage">> =>
                name \in {"payload", "digest_algorithm", "canonicalization", "event_hash_profile"}
    /\ fields["envelope_version"] = <<"integer", "1">>

\* Content "garbage" is a string that is no digest, no number, no known name.  A
\* SchemaVersion is validated as it is constructed, and an unknown profile is no
\* EventHashProfileId.
Deserializes(fields) ==
    /\ \A name \in DOMAIN fields :
          /\ fields[name][1] \in KindsOf(name)
          /\ fields[name] = <<"string", "garbage">> =>
                name \in {"payload", "digest_algorithm", "canonicalization"}
    /\ fields["envelope_version"] = <<"integer", "1">>
    /\ AsStr(fields, "event_hash_profile", EventHashProfileIds)

\* No deserialized envelope fails it: SchemaVersion has admitted it.
verify_envelope_version(fields) == fields["envelope_version"] = <<"integer", "1">>

\* A null member deserializes as none at all.
Declares(fields, name, expected) ==
    Has(fields, name) /\ fields[name][1] = "string" => fields[name][2] = expected

verify_algorithms(fields) ==
    /\ Declares(fields, "digest_algorithm", "BLAKE3")
    /\ Declares(fields, "canonicalization", "JCS")

\* The typed envelope serializes as the members it was read from.
RoundTrips(fields) ==
    /\ fields["logical_time"][1] = WireForm
    /\ \A name \in DOMAIN fields : fields[name][1] = "null" => name = "payload"

\* The declared hash is the one of the members as they stand ("of_document"),
\* the one of the typed envelope serialized again ("of_envelope"), or another,
\* which stands also for an envelope that cannot be canonicalized.
verify_event_hash(fields) ==
    \/ fields["event_hash"][2] = "of_envelope"
    \/ fields["event_hash"][2] = "of_document" /\ RoundTrips(fields)

\* What the governance profile says of one member.
GovernedMember(name, member) ==
    LET null == member[1] = "null"
        a_string(values) == member[1] = "string" /\ member[2] \in values
        a_text == member[1] = "string" /\ member[2] # "garbage"
    IN  CASE name = "envelope_version" -> member = <<"integer", "1">>
          [] name = "receipt_type" -> a_string(KNOWN_RECEIPT_TYPES)
          [] name = "logical_time" -> member[1] = "integer" \/ a_text
          [] name = "payload" -> TRUE
          [] name = "parent_id" -> null \/ a_text
          [] name = "boundary_origin" -> null \/ a_string(KNOWN_BOUNDARY_ORIGINS)
          [] name = "digest_algorithm" -> null \/ a_string({"BLAKE3"})
          [] name = "canonicalization" -> null \/ a_string({"JCS"})
          [] name = "event_hash_profile" -> null \/ a_string(EventHashProfileIds)
          [] OTHER -> a_text

\* The governance profile: exactly the fields of the profile, each as it says.
Governed(fields) ==
    /\ REQUIRED_ENVELOPE_FIELDS \subseteq DOMAIN fields
    /\ DOMAIN fields \subseteq KnownFields
    /\ \A name \in DOMAIN fields : GovernedMember(name, fields[name])

=============================================================================
