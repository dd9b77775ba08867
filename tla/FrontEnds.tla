----------------------------- MODULE FrontEnds -----------------------------
(***************************************************************************)
(* The three ways into the verifiers: the program, the functions of the    *)
(* browser (wasm.rs), which return the result as a text, and a direct call *)
(* of the library, which returns the result itself.                        *)
(***************************************************************************)
EXTENDS CommandLine

\* See MriProfile.
CONSTANTS Exponent, Mantissa, NoField

ASSUME FormatAssumption ==
    /\ WireForm \in {"integer", "string"}
    /\ Exponent \in Nat \ {0, 1} /\ Mantissa \in Nat \ {0} /\ NoField \notin Nat

VARIABLES frontend, payload, mri_check, mri_status

M == INSTANCE MriProfile

payloadVars == <<payload, mri_check, mri_status>>

frontVars == <<vars, frontend, payloadVars>>

----------------------------------------------------------------------------
(* Data *)

FrontEnd == {"program", "browser", "library"}

\* The functions of the browser; layered packs, external receipts and trust
\* have none.
verify_receipt_json == <<"receipt", "text">>
verify_chain_json == <<"chain", "text">>
verify_signed_receipt_json == <<"signed", "text", "text">>
verify_bundle_json == <<"bundle", "text">>
verify_decision_pack_json == <<"decision", "text">>
verify_closure_bundle_json == <<"closure", "text">>

BrowserCalls ==
    {verify_receipt_json, verify_chain_json, verify_signed_receipt_json,
     verify_bundle_json, verify_decision_pack_json, verify_closure_bundle_json}

\* What no other front end calls: verify_projection_source, and the validators of
\* MRI payloads.
LibraryCalls == {<<"projection", "bytes">>, <<"payload", "value">>}

\* Whether the text of an error can be serialized, and canonicalized.
IsBrowserWorld(w) ==
    w.error_serializes \in BOOLEAN /\ w.error_canonicalizes \in BOOLEAN

----------------------------------------------------------------------------
(* The front ends *)

FrontInit ==
    /\ IsBrowserWorld(world)
    /\ frontend \in FrontEnd
    /\ frontend = "browser" => args \in BrowserCalls
    /\ frontend = "library" => args \in LibraryCalls
    /\ Init
    /\ M!MriInit

RunProgram ==
    /\ frontend = "program"
    /\ Next
    /\ UNCHANGED <<frontend, payloadVars>>

\* The argument is the input; no limits and no trust can be given.
Call ==
    /\ frontend # "program"
    /\ phase = "arguments"
    /\ phase' = "verify"
    /\ UNCHANGED <<inputVars, cursor, limits, trust, result, output, exit, verifierVars, frontend, payloadVars>>

RunCalled ==
    /\ frontend # "program"
    /\ args[1] # "payload"
    /\ RunVerifier
    /\ UNCHANGED <<frontend, payloadVars>>

ValidatePayload ==
    /\ phase = "verify"
    /\ args[1] = "payload"
    /\ \/ M!MriNext /\ UNCHANGED <<phase, result>>
       \/ mri_status # "pending" /\ Return(mri_status) /\ UNCHANGED payloadVars
    /\ UNCHANGED <<inputVars, cursor, limits, trust, output, exit, verifierVars, frontend>>

\* Each text of error_json has the status INVALID.
error_json(w) ==
    IF w.error_serializes /\ w.error_canonicalizes THEN "ErrorText" ELSE "StaticText"

\* A mutant: a result that cannot be canonicalized is returned uncanonicalized.
result_to_json_plain(w, r) == r

\* A result that cannot be canonicalized is replaced by an error.
result_to_json(w, r) == IF w.canonicalizes THEN r ELSE error_json(w)

ReturnText ==
    /\ frontend = "browser"
    /\ phase = "emit"
    /\ output' = result_to_json(world, result)
    /\ Exit("returned")
    /\ UNCHANGED <<inputVars, cursor, limits, trust, result, verifierVars, frontend, payloadVars>>

ReturnResult ==
    /\ frontend = "library"
    /\ phase = "emit"
    /\ output' = result
    /\ Exit("returned")
    /\ UNCHANGED <<inputVars, cursor, limits, trust, result, verifierVars, frontend, payloadVars>>

FrontNext ==
    \/ RunProgram
    \/ Call
    \/ RunCalled
    \/ ValidatePayload
    \/ ReturnText
    \/ ReturnResult

FrontSpec == FrontInit /\ [][FrontNext]_frontVars

FairSpec == FrontSpec /\ WF_frontVars(FrontNext)

----------------------------------------------------------------------------
(* What a caller is told *)

request_of_caller ==
    [frontend |-> frontend, args |-> args, world |-> world, receipt |-> receipt,
     bundle |-> bundle, request |-> request, payload |-> payload]

\* The exit code of the program, the text or the result of a call.
Told ==
    CASE exit = "running" -> "pending"
      [] exit = "0" -> "Valid"
      [] exit = "returned" /\ output = "Valid" -> "Valid"
      [] OTHER -> "Invalid"

CallAcceptable(c) ==
    CASE c.frontend = "program" -> ProgramAcceptable(c)
      [] c.frontend = "browser" ->
            /\ InputAcceptable(c, DefaultBytes)
            /\ c.args[1] \in {"chain", "signed"} => c.world.bytes <= DefaultBytes
            /\ c.args[1] = "chain" => c.world.elements <= DefaultChainLength
            /\ c.world.canonicalizes
      [] c.frontend = "library" ->
            IF c.args[1] = "payload" THEN M!PayloadAcceptable(c.payload)
            ELSE InputAcceptable(c, DefaultBytes)

V == INSTANCE Verdict WITH
        Acceptable <- CallAcceptable, input <- request_of_caller, verdict <- Told

----------------------------------------------------------------------------
(* Properties *)

\* The caller is told VALID, by exit code 0, by the text or by the result,
\* exactly when the arguments are well formed, each file they name can be read,
\* the input is acceptable to the verifier they choose, it obeys every flag, and
\* the result could be rendered: for a receipt, that it obeys the governance
\* profile and states the hash of its content; for an execution bundle, that its envelope
\* verifies and no declared sidecar disagrees; for an external receipt, that it
\* verifies under a law its profile declares or its type leaves no choice of; for
\* a projection, that it is bound to such a receipt; for a payload, that it has its
\* shape.  The caller is told once and always told.
DecidesCaller == V!Spec

\* The checks and the errors of the result of an execution bundle tell the same
\* story, also when the envelope itself fails (see ExecutionBundle).
ChecksExplainErrors == B!ChecksExplainErrors

\* The flag all_hashes_match is set exactly when the hash was found right, also when
\* something else is wrong (see Receipt).
HashFlagIsEarned == R!HashFlagIsEarned

\* A payload is validated exactly when the words of its floats are right (see
\* MriProfile).
PayloadVerdict == M!PayloadVerdict

\* A projection is never judged before its source (see ExternalReceipt).
ProjectionErrorsVouchForSource == E!ProjectionErrorsVouchForSource

----------------------------------------------------------------------------
(* Claims of the documentation the code does not keep *)

\* bundle.rs: VALID only when the envelope verifies "AND all sidecar digests
\* match" (see ExecutionBundle).
CarriedSidecarsMatch == B!CarriedSidecarsMatch

\* rbh.rs: "a projection's source-bound field equals the cited envelope value"
\* (see ExternalReceipt).
BoundFieldsEqualSource == E!BoundFieldsEqualSource

\* rbh.rs: a projection is verified "against the canonical decode-step envelope
\* it cites" (see ExternalReceipt).
SourceIsDecodeStep == E!SourceIsDecodeStep

\* wasm.rs, result_to_json: "Falls back to serde_json::to_string if
\* canonicalization fails, preserving fail-closed semantics (the result still
\* reaches the caller)".
ResultReachesCaller ==
    frontend = "browser" /\ exit = "returned" => output = result

----------------------------------------------------------------------------
(* The inductive invariant behind what a caller is told *)

\* The verifier runs for a call that was made as it should be: for the program,
\* with the flags of its arguments, its files read; else with no flags.
CallInv ==
    /\ frontend \in FrontEnd
    /\ frontend = "browser" => args \in BrowserCalls
    /\ frontend = "library" => args \in LibraryCalls
    /\ frontend = "program" /\ phase \in {"verify", "emit"} =>
          WellFormed(args) /\ FilesLoad(request_of_caller) /\ FlagsTaken(Len(args))
    /\ frontend # "program" =>
          /\ phase \in {"arguments", "verify", "emit", "exited"}
          /\ trust = Omitted
          /\ limits = [max_bytes |-> Omitted, max_chain_length |-> Omitted]

\* The verifiers have not begun, and there is nothing to tell yet.
BeforeInv ==
    /\ phase \in {"arguments", "flags"} => receipt_phase = "admit"
    /\ phase \in {"arguments", "flags", "verify"} => result = "none"
    /\ phase # "exited" => exit = "running" /\ output = "none"
    /\ phase = "exited" => exit # "running"

\* What the verifier that was called should answer.
Deserved ==
    IF args[1] = "payload" THEN M!PayloadAcceptable(payload)
    ELSE /\ InputAcceptable(request_of_caller, Given(limits.max_bytes, DefaultBytes))
         /\ WithinLimits
         /\ trust # Omitted => world.trusted

ResultInv ==
    phase = "emit" => result \in {"Valid", "Invalid"} /\ (result = "Valid" <=> Deserved)

FrontInv ==
    /\ TypeOK
    /\ IsBrowserWorld(world)
    /\ ArgumentsInv
    /\ CallInv
    /\ BeforeInv
    /\ ResultInv
    /\ R!ReceiptInv
    /\ B!ExecutionInv
    /\ E!ExternalInv
    /\ M!MriInv
    /\ ExitTellsOutput

=============================================================================
