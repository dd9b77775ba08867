--------------------------- MODULE SignedReceipt ---------------------------
(***************************************************************************)
(* verify_signed_receipt and verify_signed_receipt_with_trust of verify.rs *)
(* with the authority set of trust.rs and the signature bundle of          *)
(* signature.rs.                                                           *)
(*                                                                         *)
(* A caller owns the authority set and the policy: it adds and revokes     *)
(* keys, changes the policy, and makes one call after another.  A call     *)
(* borrows the set, so nothing changes it while the call runs.             *)
(*                                                                         *)
(* An envelope's content is what its event_hash and its receipt digest     *)
(* both commit (all its fields but event_hash); BLAKE3 tells contents      *)
(* apart, so a content stands for its own digest.                          *)
(***************************************************************************)
EXTENDS Naturals

CONSTANTS
    PublicKey,
    KeyId,         \* 24 hex digits
    KeyIdOf(_),    \* the key_id derived from a public key
    Content,       \* contents of envelopes, and their digests
    Timestamp,     \* timestamps a signature binds
    BadKey,        \* a public_key_b64 that does not decode to a key
    BadSignature,  \* a signature_b64 that does not decode
    EmptyKey,      \* the empty public_key_b64 of an authority entry
    NoBound,       \* valid_until_epoch: None
    Absent,        \* a part of the result that is None
    Epoch          \* epochs, a set of naturals

ASSUME EpochAssumption == Epoch \subseteq Nat

ASSUME KeyIdAssumption == \A pk \in PublicKey : KeyIdOf(pk) \in KeyId

ASSUME SentinelAssumption ==
    /\ BadKey \notin PublicKey /\ EmptyKey \notin PublicKey /\ BadKey # EmptyKey
    /\ NoBound \notin Nat

VARIABLES
    keys,          \* AuthoritySet.keys
    revocations,   \* AuthoritySet.revocations, their key ids
    policy,        \* TrustPolicy
    args,          \* arguments of the call
    phase,         \* where the call is
    result         \* VerificationResult

vars == <<keys, revocations, policy, args, phase, result>>

----------------------------------------------------------------------------
(* Data *)

AuthorityKey == [public_key : PublicKey \union {EmptyKey}, valid_from : Epoch,
                 valid_until : Epoch \union {NoBound}]

IsKeyMap(ks) ==
    /\ DOMAIN ks \subseteq KeyId
    /\ \A k \in DOMAIN ks : ks[k] \in AuthorityKey

TrustPolicy == [current_epoch : Epoch, enforce_epoch : BOOLEAN, enforce_revocation : BOOLEAN]

TrustStatus == {"trusted", "untrusted", "revoked", "wrong_epoch"}

\* Ingestion refuses any version but the supported one (SchemaVersion), so the
\* check of it that follows cannot fail.
Envelope == [ingests : BOOLEAN, version_ok : {TRUE}, algorithms_ok : BOOLEAN,
             content : Content, event_hash : Content]

\* Who made a signature, over which receipt digest and timestamp.
Signature == [by : PublicKey, content : Content, timestamp : Timestamp]

ASSUME BadSignatureAssumption == BadSignature \notin Signature

SignatureBundle == [parses : BOOLEAN, metadata_ok : BOOLEAN, key_id : KeyId,
                    public_key : PublicKey \union {BadKey},
                    signature : Signature \union {BadSignature}, timestamp : Timestamp]

Arguments == [envelope : Envelope, sig : SignatureBundle, with_trust : BOOLEAN]

SignatureValidation == [valid : BOOLEAN, key_id_consistent : BOOLEAN]

VerificationResult == [status : {"Valid", "Invalid"}, all_hashes_match : BOOLEAN,
                       signature_validation : SignatureValidation \union {Absent},
                       trust_validation : TrustStatus \union {Absent}]

valid_single == [status |-> "Valid", all_hashes_match |-> TRUE,
                 signature_validation |-> Absent, trust_validation |-> Absent]

invalid == [status |-> "Invalid", all_hashes_match |-> FALSE,
            signature_validation |-> Absent, trust_validation |-> Absent]

----------------------------------------------------------------------------
(* The checks *)

KeyIdMatches(pk, k) == KeyIdOf(pk) = k

check_key_id_consistency(b) ==
    b.public_key # BadKey /\ KeyIdMatches(b.public_key, b.key_id)

\* Ed25519 over the receipt digest and the timestamp (ed25519_dalek).
Ed25519Verifies(env, b) ==
    /\ b.signature # BadSignature
    /\ b.signature.by = b.public_key
    /\ b.signature.content = env.content
    /\ b.signature.timestamp = b.timestamp

\* A mutant: the key_id is not compared with the key.
verify_signature_any_key_id(env, b) ==
    /\ b.metadata_ok
    /\ b.public_key # BadKey
    /\ Ed25519Verifies(env, b)

verify_signature(env, b) ==
    /\ b.metadata_ok
    /\ b.public_key # BadKey
    /\ KeyIdMatches(b.public_key, b.key_id)
    /\ Ed25519Verifies(env, b)

\* A mutant: the last epoch is inclusive.
WithinEpochInclusive(e, now) ==
    /\ now >= e.valid_from
    /\ e.valid_until # NoBound => now <= e.valid_until

WithinEpoch(e, now) ==
    /\ now >= e.valid_from
    /\ e.valid_until # NoBound => now < e.valid_until

\* Revocation first, then membership, the claimed key, and the epoch.
evaluate_trust(k, claimed) ==
    IF policy.enforce_revocation /\ k \in revocations THEN "revoked"
    ELSE IF k \notin DOMAIN keys THEN "untrusted"
    ELSE IF keys[k].public_key # EmptyKey /\ claimed # keys[k].public_key THEN "untrusted"
    ELSE IF policy.enforce_epoch /\ ~WithinEpoch(keys[k], policy.current_epoch) THEN "wrong_epoch"
    ELSE "trusted"

----------------------------------------------------------------------------
(* The caller *)

Init ==
    /\ IsKeyMap(keys)
    /\ revocations \in SUBSET KeyId
    /\ policy \in TrustPolicy
    /\ args \in Arguments
    /\ phase = "idle"
    /\ result = invalid

Between == phase \in {"idle", "returned"}

\* A mutant: a key that is added again is no longer revoked.
add_key_reinstates(k, e) ==
    /\ Between
    /\ keys' = [j \in DOMAIN keys \union {k} |-> IF j = k THEN e ELSE keys[j]]
    /\ revocations' = revocations \ {k}
    /\ phase' = "idle"
    /\ UNCHANGED <<policy, args, result>>

\* Insert a key, replacing any previous entry; a revocation stays.
add_key(k, e) ==
    /\ Between
    /\ keys' = [j \in DOMAIN keys \union {k} |-> IF j = k THEN e ELSE keys[j]]
    /\ phase' = "idle"
    /\ UNCHANGED <<revocations, policy, args, result>>

revoke(k) ==
    /\ Between
    /\ revocations' = revocations \union {k}
    /\ phase' = "idle"
    /\ UNCHANGED <<keys, policy, args, result>>

SetPolicy(p) ==
    /\ Between
    /\ policy' = p
    /\ phase' = "idle"
    /\ UNCHANGED <<keys, revocations, args, result>>

Call(a) ==
    /\ Between
    /\ args' = a
    /\ phase' = "ingest"
    /\ result' = valid_single
    /\ UNCHANGED <<keys, revocations, policy>>

----------------------------------------------------------------------------
(* The call *)

Ingest ==
    /\ phase = "ingest"
    /\ \/ /\ ~args.envelope.ingests
          /\ result' = invalid
          /\ phase' = "returned"
       \/ /\ args.envelope.ingests
          /\ phase' = "envelope"
          /\ UNCHANGED result
    /\ UNCHANGED <<keys, revocations, policy, args>>

verify_single_envelope ==
    /\ phase = "envelope"
    /\ LET e == args.envelope
           hash_ok == e.event_hash = e.content
       IN  result' = [result EXCEPT
                        !.status = IF e.version_ok /\ e.algorithms_ok /\ hash_ok THEN @ ELSE "Invalid",
                        !.all_hashes_match = hash_ok]
    /\ phase' = "signature"
    /\ UNCHANGED <<keys, revocations, policy, args>>

\* The bundle is handed on to the trust evaluation only if its signature
\* verifies.
verify_signature_bundle ==
    /\ phase = "signature"
    /\ LET b == args.sig
           consistent == b.parses /\ check_key_id_consistency(b)
       IN  \/ /\ b.parses /\ verify_signature(args.envelope, b)
              /\ result' = [result EXCEPT
                    !.signature_validation = [valid |-> TRUE, key_id_consistent |-> consistent]]
              /\ phase' = IF args.with_trust THEN "trust" ELSE "returned"
           \/ /\ ~(b.parses /\ verify_signature(args.envelope, b))
              /\ result' = [result EXCEPT
                    !.status = "Invalid",
                    !.signature_validation = [valid |-> FALSE, key_id_consistent |-> consistent]]
              /\ phase' = "returned"
    /\ UNCHANGED <<keys, revocations, policy, args>>

EvaluateTrust ==
    /\ phase = "trust"
    /\ LET trust == evaluate_trust(args.sig.key_id, args.sig.public_key)
       IN  result' = [result EXCEPT !.status = IF trust = "trusted" THEN @ ELSE "Invalid",
                                    !.trust_validation = trust]
    /\ phase' = "returned"
    /\ UNCHANGED <<keys, revocations, policy, args>>

CallStep ==
    \/ Ingest
    \/ verify_single_envelope
    \/ verify_signature_bundle
    \/ EvaluateTrust

Next ==
    \/ \E k \in KeyId, e \in AuthorityKey : add_key(k, e)
    \/ \E k \in KeyId : revoke(k)
    \/ \E p \in TrustPolicy : SetPolicy(p)
    \/ \E a \in Arguments : Call(a)
    \/ CallStep

Spec == Init /\ [][Next]_vars

----------------------------------------------------------------------------
(* What a caller may rely on *)

\* The envelope is intact, and its content and the timestamp are signed by a
\* key that has the declared key_id.
SignedAcceptable(a) ==
    /\ a.envelope.ingests /\ a.envelope.version_ok /\ a.envelope.algorithms_ok
    /\ a.envelope.event_hash = a.envelope.content
    /\ a.sig.parses /\ a.sig.metadata_ok
    /\ a.sig.public_key # BadKey
    /\ \E pk \in PublicKey :
          /\ a.sig.public_key = pk
          /\ KeyIdOf(pk) = a.sig.key_id
          /\ a.sig.signature = [by |-> pk, content |-> a.envelope.content,
                                timestamp |-> a.sig.timestamp]

\* The authority set vouches for the signer itself, today.
SignerAuthorised(a) ==
    /\ a.sig.key_id \in DOMAIN keys
    /\ policy.enforce_revocation => a.sig.key_id \notin revocations
    /\ keys[a.sig.key_id].public_key \in {a.sig.signature.by, EmptyKey}
    /\ policy.enforce_epoch =>
          LET e == keys[a.sig.key_id] IN
          /\ e.valid_from <= policy.current_epoch
          /\ e.valid_until = NoBound \/ policy.current_epoch + 1 <= e.valid_until

----------------------------------------------------------------------------
(* Properties *)

\* Every variable keeps its type.
TypeOK ==
    /\ IsKeyMap(keys)
    /\ revocations \subseteq KeyId
    /\ policy \in TrustPolicy
    /\ args \in Arguments
    /\ phase \in {"idle", "ingest", "envelope", "signature", "trust", "returned"}
    /\ result \in VerificationResult

\* A signed receipt is answered VALID exactly when its envelope is intact, its
\* signature is the declared key's over this very content and timestamp and,
\* where trust is asked for, the authority set vouches for the signer: a key_id
\* cannot be paired with another public key than the entry's.
ValidMeansAuthorised ==
    phase = "returned" =>
        (result.status = "Valid" <=>
            SignedAcceptable(args) /\ (args.with_trust => SignerAuthorised(args)))

\* A receipt verified with trust under a policy that enforces revocation.
AcceptedFrom(k) ==
    /\ phase = "returned" /\ result.status = "Valid"
    /\ args.with_trust /\ policy.enforce_revocation
    /\ args.sig.key_id = k

\* Revocation is final: once a key is revoked no receipt it signed is accepted
\* again under an enforcing policy, whatever keys are added or replaced later.
RevocationIsFinal ==
    \A k \in KeyId : [](k \in revocations => []~AcceptedFrom(k))

\* The two paths that check the key_id agree: a signature reported valid is
\* never reported inconsistent with its key.
ValidSignatureIsConsistent ==
    result.signature_validation # Absent /\ result.signature_validation.valid =>
        result.signature_validation.key_id_consistent

----------------------------------------------------------------------------
(* A claim of the documentation the code does not keep *)

\* result.rs: trust_validation is "present when authority set provided"; the
\* comment in verify.rs asks only for "a successfully parsed bundle".
TrustAlwaysReported ==
    phase = "returned" /\ args.with_trust /\ args.envelope.ingests /\ args.sig.parses =>
        result.trust_validation # Absent

----------------------------------------------------------------------------
(* The inductive invariant *)

\* What the result says in the middle of a call.
CallInv ==
    /\ phase = "ingest" => result = valid_single
    /\ phase = "envelope" => args.envelope.ingests /\ result = valid_single
    /\ phase \in {"signature", "trust"} =>
          /\ args.envelope.ingests
          /\ result.status = "Valid" <=>
                /\ args.envelope.version_ok /\ args.envelope.algorithms_ok
                /\ args.envelope.event_hash = args.envelope.content
    /\ phase = "trust" =>
          args.with_trust /\ args.sig.parses /\ verify_signature(args.envelope, args.sig)

SignedInv ==
    /\ TypeOK
    /\ CallInv
    /\ ValidMeansAuthorised
    /\ ValidSignatureIsConsistent

=============================================================================
