------------------------------ MODULE Receipt ------------------------------
(***************************************************************************)
(* verify_receipt of verify.rs on one envelope: admission, the schema      *)
(* profile, structural floats, typed deserialization (which refuses any    *)
(* version but 1, and profiles it does not know), and then version,        *)
(* algorithms and event hash, which are all made and whose errors are      *)
(* collected.  The checks are those of Envelope.                           *)
(*                                                                         *)
(* The structural limits are those of Limits; here a text is within them   *)
(* or not.                                                                 *)
(***************************************************************************)
EXTENDS Envelope

VARIABLES
    receipt,      \* the text and the envelope in it
    max_bytes,    \* of the VerifierLimits of the call
    receipt_phase,
    receipt_errors,
    all_hashes_match,
    receipt_status

receiptVars ==
    <<receipt, max_bytes, receipt_phase, receipt_errors, all_hashes_match, receipt_status>>

----------------------------------------------------------------------------
(* Data *)

\* admission: the outcome of canonical admission, and of the structural limits.
\* fields: the members of the envelope, if it is an object.
IsReceiptText(r) ==
    /\ r.bytes \in Nat
    /\ r.admission \in {"ok", "malformed", "noncanonical", "limits"}
    /\ r.object \in BOOLEAN
    /\ \A name \in DOMAIN r.fields : r.fields[name] \in JsonKinds \X STRING

----------------------------------------------------------------------------
(* The verifier *)

ReceiptInit ==
    /\ IsReceiptText(receipt)
    /\ max_bytes \in Nat
    /\ receipt_phase = "admit"
    /\ receipt_errors = {}
    /\ all_hashes_match = TRUE
    /\ receipt_status = "pending"

\* VerificationResult::invalid: every flag is cleared.
RefuseReceipt(e) ==
    /\ receipt_errors' = {e}
    /\ all_hashes_match' = FALSE
    /\ receipt_status' = "Invalid"
    /\ receipt_phase' = "done"

ToPhase(p) ==
    /\ receipt_phase' = p
    /\ UNCHANGED <<receipt_errors, all_hashes_match, receipt_status>>

AdmitReceipt ==
    /\ receipt_phase = "admit"
    /\ UNCHANGED <<receipt, max_bytes>>
    /\ \/ receipt.bytes > max_bytes /\ RefuseReceipt("bytes")
       \/ /\ receipt.bytes <= max_bytes /\ receipt.admission # "ok"
          /\ RefuseReceipt(receipt.admission)
       \/ receipt.bytes <= max_bytes /\ receipt.admission = "ok" /\ ToPhase("schema")

ValidateSchema ==
    /\ receipt_phase = "schema"
    /\ UNCHANGED <<receipt, max_bytes>>
    /\ LET found == validate_envelope_schema(receipt.fields) IN
       \/ ~receipt.object /\ RefuseReceipt("MalformedJson")
       \/ receipt.object /\ found # "none" /\ RefuseReceipt(found)
       \/ receipt.object /\ found = "none" /\ ToPhase("deserialize")

\* A mutant: the profile is trusted to have checked the types.
DeserializeLenient ==
    /\ receipt_phase = "deserialize"
    /\ UNCHANGED <<receipt, max_bytes>>
    /\ \/ /\ ~reject_structural_floats(receipt.fields)
          /\ RefuseReceipt("FloatInStructuralField")
       \/ reject_structural_floats(receipt.fields) /\ ToPhase("version")

Deserialize ==
    /\ receipt_phase = "deserialize"
    /\ UNCHANGED <<receipt, max_bytes>>
    /\ \/ /\ ~reject_structural_floats(receipt.fields)
          /\ RefuseReceipt("FloatInStructuralField")
       \/ /\ reject_structural_floats(receipt.fields) /\ ~Deserializes(receipt.fields)
          /\ RefuseReceipt("MalformedJson")
       \/ /\ reject_structural_floats(receipt.fields) /\ Deserializes(receipt.fields)
          /\ ToPhase("version")

\* add_error, and the next check.
Collect(ok, e, next) ==
    /\ receipt_errors' = IF ok THEN receipt_errors ELSE receipt_errors \union {e}
    /\ receipt_phase' = next

VerifyVersion ==
    /\ receipt_phase = "version"
    /\ UNCHANGED <<receipt, max_bytes>>
    /\ Collect(verify_envelope_version(receipt.fields), "UnsupportedVersion", "algorithms")
    /\ UNCHANGED <<all_hashes_match, receipt_status>>

VerifyAlgorithms ==
    /\ receipt_phase = "algorithms"
    /\ UNCHANGED <<receipt, max_bytes>>
    /\ Collect(verify_algorithms(receipt.fields), "AlgorithmMismatch", "event_hash")
    /\ UNCHANGED <<all_hashes_match, receipt_status>>

\* A mutant: the hash is recomputed only while nothing else is wrong.
VerifyEventHashLast ==
    /\ receipt_phase = "event_hash"
    /\ UNCHANGED <<receipt, max_bytes>>
    /\ LET ok == receipt_errors # {} \/ verify_event_hash(receipt.fields) IN
       /\ Collect(ok, "EventHashMismatch", "done")
       /\ all_hashes_match' = ok
       /\ receipt_status' = IF receipt_errors' = {} THEN "Valid" ELSE "Invalid"

VerifyEventHash ==
    /\ receipt_phase = "event_hash"
    /\ UNCHANGED <<receipt, max_bytes>>
    /\ LET ok == verify_event_hash(receipt.fields) IN
       /\ Collect(ok, "EventHashMismatch", "done")
       /\ all_hashes_match' = ok
       /\ receipt_status' = IF receipt_errors' = {} THEN "Valid" ELSE "Invalid"

ReceiptNext ==
    \/ AdmitReceipt
    \/ ValidateSchema
    \/ Deserialize
    \/ VerifyVersion
    \/ VerifyAlgorithms
    \/ VerifyEventHash

Spec == ReceiptInit /\ [][ReceiptNext]_receiptVars

----------------------------------------------------------------------------
(* What the verifier decides *)

ReceiptAcceptable(r, bound) ==
    /\ r.bytes <= bound
    /\ r.admission = "ok"
    /\ r.object
    /\ Governed(r.fields)
    /\ verify_event_hash(r.fields)

----------------------------------------------------------------------------
(* Properties *)

\* Every variable keeps its type.
TypeOK ==
    /\ IsReceiptText(receipt)
    /\ receipt_phase \in {"admit", "schema", "deserialize", "version", "algorithms",
                         "event_hash", "done"}
    /\ all_hashes_match \in BOOLEAN
    /\ receipt_status \in {"pending", "Valid", "Invalid"}

\* The flag all_hashes_match of a result is earned: it is set exactly when the
\* envelope was ingested and its event_hash recomputed and found right, also
\* when the algorithms it declares are wrong, so that a caller who reads the
\* flags and not the status is not misled.  An envelope with another version or
\* an unknown profile is not ingested: its flag is clear, however right its hash.
HashFlagIsEarned ==
    receipt_phase = "done" =>
        (all_hashes_match <=>
            /\ receipt.bytes <= max_bytes /\ receipt.admission = "ok" /\ receipt.object
            /\ validate_envelope_schema(receipt.fields) = "none"
            /\ reject_structural_floats(receipt.fields) /\ Deserializes(receipt.fields)
            /\ verify_event_hash(receipt.fields))

----------------------------------------------------------------------------
(* The inductive invariant behind the flag and the verdict *)

\* The checks in front of the verification.
Admitted == receipt.bytes <= max_bytes /\ receipt.admission = "ok"

Profiled == receipt.object /\ validate_envelope_schema(receipt.fields) = "none"

Typed == reject_structural_floats(receipt.fields) /\ Deserializes(receipt.fields)

\* A check was passed once its phase is over.
PassedInv ==
    /\ receipt_phase \notin {"admit", "done"} => Admitted
    /\ receipt_phase \notin {"admit", "schema", "done"} => Profiled
    /\ receipt_phase \notin {"admit", "schema", "deserialize", "done"} => Typed

\* The errors collected are those of the checks made.
CollectedInv ==
    /\ receipt_phase \notin {"algorithms", "event_hash", "done"} => receipt_errors = {}
    /\ receipt_phase = "algorithms" =>
          (receipt_errors = {} <=> verify_envelope_version(receipt.fields))
    /\ receipt_phase = "event_hash" =>
          (receipt_errors = {} <=> /\ verify_envelope_version(receipt.fields)
                                   /\ verify_algorithms(receipt.fields))

ReceiptInv ==
    /\ TypeOK
    /\ max_bytes \in Nat
    /\ PassedInv
    /\ CollectedInv
    /\ receipt_status = "pending" <=> receipt_phase # "done"
    /\ receipt_phase = "done" => (receipt_status = "Valid" <=> ReceiptAcceptable(receipt, max_bytes))
    /\ HashFlagIsEarned

=============================================================================
