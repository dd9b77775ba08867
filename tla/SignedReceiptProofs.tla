------------------------ MODULE SignedReceiptProofs ------------------------
(***************************************************************************)
(* Proofs about signed receipts and the authority set: the verdict, and    *)
(* that revocation is final, for every set of keys, contents and epochs.   *)
(***************************************************************************)
EXTENDS SignedReceipt, TLAPS

LEMMA TrustType == ASSUME NEW k, NEW c PROVE evaluate_trust(k, c) \in TrustStatus
BY DEF evaluate_trust, TrustStatus

LEMMA SignedInvInit == Init => SignedInv
<1> SUFFICES ASSUME Init PROVE SignedInv
  OBVIOUS
<1>1. invalid \in VerificationResult
  BY DEF invalid, VerificationResult
<1>2. TypeOK
  BY <1>1 DEF Init, TypeOK
<1>3. CallInv /\ ValidMeansAuthorised
  BY DEF Init, CallInv, ValidMeansAuthorised
<1>4. result.signature_validation = Absent
  BY DEF Init, invalid
<1> QED BY <1>2, <1>3, <1>4 DEF SignedInv, ValidSignatureIsConsistent

\* The two readings of a signature that verifies: the code's order of checks,
\* and a signer known by its key_id.
LEMMA AcceptableMeansVerified ==
    ASSUME NEW a \in Arguments
    PROVE  SignedAcceptable(a) <=>
              /\ a.envelope.ingests /\ a.envelope.version_ok /\ a.envelope.algorithms_ok
              /\ a.envelope.event_hash = a.envelope.content
              /\ a.sig.parses /\ verify_signature(a.envelope, a.sig)
<1> DEFINE b == a.sig
           signer == [by |-> b.public_key, content |-> a.envelope.content, timestamp |-> b.timestamp]
<1>1. /\ b.public_key \in PublicKey \union {BadKey}
      /\ b.signature \in Signature \union {BadSignature}
      /\ b.timestamp \in Timestamp /\ a.envelope.content \in Content
  BY DEF Arguments, SignatureBundle, Envelope
<1>2. Ed25519Verifies(a.envelope, b) /\ b.public_key \in PublicKey <=>
         b.public_key \in PublicKey /\ b.signature = signer
  <2>1. ASSUME b.public_key \in PublicKey, b.signature = signer
        PROVE  Ed25519Verifies(a.envelope, b)
    <3>1. signer \in Signature
      BY <1>1, <2>1 DEF Signature
    <3> QED BY <2>1, <3>1, BadSignatureAssumption DEF Ed25519Verifies
  <2>2. ASSUME Ed25519Verifies(a.envelope, b), b.public_key \in PublicKey
        PROVE  b.signature = signer
    <3>1. b.signature \in Signature
      BY <1>1, <2>2 DEF Ed25519Verifies
    <3> QED BY <2>2, <3>1 DEF Ed25519Verifies, Signature
  <2> QED BY <2>1, <2>2
<1>3. b.public_key # BadKey <=> b.public_key \in PublicKey
  BY <1>1, SentinelAssumption
<1> HIDE DEF b, signer
<1>4. SignedAcceptable(a) <=>
         /\ a.envelope.ingests /\ a.envelope.version_ok /\ a.envelope.algorithms_ok
         /\ a.envelope.event_hash = a.envelope.content
         /\ b.parses /\ b.metadata_ok /\ b.public_key # BadKey
         /\ b.public_key \in PublicKey /\ KeyIdOf(b.public_key) = b.key_id
         /\ b.signature = signer
  BY DEF SignedAcceptable, b, signer
<1>5. verify_signature(a.envelope, b) <=>
         /\ b.metadata_ok /\ b.public_key # BadKey
         /\ KeyIdOf(b.public_key) = b.key_id /\ Ed25519Verifies(a.envelope, b)
  BY DEF verify_signature, KeyIdMatches
<1> QED BY <1>2, <1>3, <1>4, <1>5 DEF b

\* A key the authority set vouches for is the one evaluate_trust calls trusted.
LEMMA TrustedMeansAuthorised ==
    ASSUME TypeOK, verify_signature(args.envelope, args.sig)
    PROVE  evaluate_trust(args.sig.key_id, args.sig.public_key) = "trusted" <=> SignerAuthorised(args)
<1> DEFINE k == args.sig.key_id
           claimed == args.sig.public_key
<1>1. claimed = args.sig.signature.by
  BY DEF verify_signature, Ed25519Verifies
<1>2. policy.current_epoch \in Nat
  BY EpochAssumption DEF TypeOK, TrustPolicy
<1>3. ASSUME k \in DOMAIN keys
      PROVE  WithinEpoch(keys[k], policy.current_epoch) <=>
                /\ keys[k].valid_from <= policy.current_epoch
                /\ keys[k].valid_until = NoBound \/ policy.current_epoch + 1 <= keys[k].valid_until
  <2>1. keys[k].valid_from \in Nat /\ keys[k].valid_until \in Nat \union {NoBound}
    BY <1>3, EpochAssumption DEF TypeOK, IsKeyMap, AuthorityKey
  <2> QED BY <1>2, <2>1 DEF WithinEpoch
<1> QED BY <1>1, <1>3 DEF evaluate_trust, SignerAuthorised

\* The caller's operations end what was known of the last call.
CallerStep ==
    \/ \E k \in KeyId, e \in AuthorityKey : add_key(k, e)
    \/ \E k \in KeyId : revoke(k)
    \/ \E p \in TrustPolicy : SetPolicy(p)
    \/ \E a \in Arguments : Call(a)

LEMMA CallerPreserves == SignedInv /\ CallerStep => SignedInv'
<1> SUFFICES ASSUME SignedInv, CallerStep PROVE SignedInv'
  OBVIOUS
<1>1. ASSUME NEW k \in KeyId, NEW e \in AuthorityKey, add_key(k, e)
      PROVE  SignedInv'
  <2>1. IsKeyMap(keys')
    BY <1>1 DEF SignedInv, TypeOK, add_key, IsKeyMap
  <2> QED BY <1>1, <2>1 DEF SignedInv, TypeOK, add_key, CallInv, ValidMeansAuthorised,
                            ValidSignatureIsConsistent
<1>2. ASSUME NEW k \in KeyId, revoke(k)
      PROVE  SignedInv'
  BY <1>2 DEF SignedInv, TypeOK, revoke, CallInv, ValidMeansAuthorised, ValidSignatureIsConsistent
<1>3. ASSUME NEW p \in TrustPolicy, SetPolicy(p)
      PROVE  SignedInv'
  BY <1>3 DEF SignedInv, TypeOK, SetPolicy, CallInv, ValidMeansAuthorised,
              ValidSignatureIsConsistent
<1>4. ASSUME NEW a \in Arguments, Call(a)
      PROVE  SignedInv'
  <2>1. valid_single \in VerificationResult
    BY DEF valid_single, VerificationResult
  <2>2. TypeOK'
    BY <1>4, <2>1 DEF SignedInv, TypeOK, Call
  <2>3. CallInv' /\ ValidMeansAuthorised'
    BY <1>4 DEF Call, CallInv, ValidMeansAuthorised
  <2>4. ValidSignatureIsConsistent'
    BY <1>4 DEF Call, valid_single, ValidSignatureIsConsistent
  <2> QED BY <2>2, <2>3, <2>4 DEF SignedInv
<1> QED BY <1>1, <1>2, <1>3, <1>4 DEF CallerStep

LEMMA CallPreserves == SignedInv /\ CallStep => SignedInv'
<1> SUFFICES ASSUME SignedInv, CallStep PROVE SignedInv'
  OBVIOUS
<1>1. /\ TypeOK /\ CallInv /\ ValidSignatureIsConsistent
      /\ args \in Arguments /\ result \in VerificationResult
  BY DEF SignedInv, TypeOK
<1>2. CASE Ingest
  <2>1. invalid \in VerificationResult
    BY DEF invalid, VerificationResult
  <2>2. TypeOK'
    BY <1>1, <1>2, <2>1 DEF TypeOK, Ingest
  <2>3. CallInv'
    BY <1>1, <1>2 DEF Ingest, CallInv
  <2>4. ValidMeansAuthorised'
    BY <1>1, <1>2 DEF Ingest, invalid, ValidMeansAuthorised, SignedAcceptable
  <2>5. ValidSignatureIsConsistent'
    BY <1>1, <1>2 DEF Ingest, invalid, ValidSignatureIsConsistent
  <2> QED BY <2>2, <2>3, <2>4, <2>5 DEF SignedInv
<1>3. CASE verify_single_envelope
  <2>1. result = valid_single /\ args.envelope.ingests
    BY <1>1, <1>3 DEF verify_single_envelope, CallInv
  <2>2. result' = [valid_single EXCEPT
                     !.status = IF /\ args.envelope.version_ok /\ args.envelope.algorithms_ok
                                   /\ args.envelope.event_hash = args.envelope.content
                                THEN "Valid" ELSE "Invalid",
                     !.all_hashes_match = (args.envelope.event_hash = args.envelope.content)]
    BY <1>3, <2>1 DEF verify_single_envelope, valid_single
  <2>3. TypeOK'
    BY <1>1, <1>3, <2>2 DEF verify_single_envelope, TypeOK, valid_single, VerificationResult
  <2>4. CallInv' /\ ValidMeansAuthorised'
    BY <1>3, <2>1, <2>2 DEF verify_single_envelope, valid_single, CallInv, ValidMeansAuthorised
  <2>5. ValidSignatureIsConsistent'
    BY <2>2 DEF valid_single, ValidSignatureIsConsistent
  <2> QED BY <2>3, <2>4, <2>5 DEF SignedInv
<1>4. CASE verify_signature_bundle
  <2> DEFINE b == args.sig
             consistent == b.parses /\ check_key_id_consistency(b)
             accepted == b.parses /\ verify_signature(args.envelope, b)
  <2>1. SignedAcceptable(args) <=> result.status = "Valid" /\ accepted
    BY <1>1, <1>4, AcceptableMeansVerified DEF verify_signature_bundle, CallInv
  <2>2. accepted => consistent
    BY DEF verify_signature, check_key_id_consistency
  <2>3. consistent \in BOOLEAN
    <3>1. b.parses \in BOOLEAN
      BY <1>1 DEF Arguments, SignatureBundle
    <3> QED BY <3>1 DEF check_key_id_consistency
  <2>4. CASE accepted
    <3>1. /\ result' = [result EXCEPT !.signature_validation =
                            [valid |-> TRUE, key_id_consistent |-> consistent]]
          /\ phase' = IF args.with_trust THEN "trust" ELSE "returned"
          /\ UNCHANGED <<keys, revocations, policy, args>>
      BY <1>4, <2>4 DEF verify_signature_bundle
    <3> HIDE DEF consistent, accepted
    <3>2. TypeOK'
      BY <1>1, <2>3, <3>1 DEF TypeOK, VerificationResult, SignatureValidation
    <3>3. result'.status = result.status
      BY <1>1, <3>1 DEF VerificationResult
    <3>4. CallInv'
      BY <1>1, <1>4, <2>4, <3>1, <3>3 DEF CallInv, verify_signature_bundle, accepted
    <3>5. ValidMeansAuthorised'
      BY <2>1, <2>4, <3>1, <3>3 DEF ValidMeansAuthorised, SignedAcceptable
    <3>6. ValidSignatureIsConsistent'
      BY <1>1, <2>2, <2>4, <3>1 DEF ValidSignatureIsConsistent, VerificationResult
    <3> QED BY <3>2, <3>4, <3>5, <3>6 DEF SignedInv
  <2>5. CASE ~accepted
    <3>1. /\ result' = [result EXCEPT !.status = "Invalid", !.signature_validation =
                            [valid |-> FALSE, key_id_consistent |-> consistent]]
          /\ phase' = "returned"
          /\ UNCHANGED <<keys, revocations, policy, args>>
      BY <1>4, <2>5 DEF verify_signature_bundle
    <3> HIDE DEF consistent, accepted
    <3>2. TypeOK'
      BY <1>1, <2>3, <3>1 DEF TypeOK, VerificationResult, SignatureValidation
    <3>3. result'.status = "Invalid"
      BY <1>1, <3>1 DEF VerificationResult
    <3>4. CallInv'
      BY <3>1 DEF CallInv
    <3>5. ValidMeansAuthorised'
      BY <2>1, <2>5, <3>1, <3>3 DEF ValidMeansAuthorised, SignedAcceptable
    <3>6. ValidSignatureIsConsistent'
      BY <1>1, <3>1 DEF ValidSignatureIsConsistent, VerificationResult
    <3> QED BY <3>2, <3>4, <3>5, <3>6 DEF SignedInv
  <2> QED BY <2>4, <2>5
<1>5. CASE EvaluateTrust
  <2> DEFINE trust == evaluate_trust(args.sig.key_id, args.sig.public_key)
  <2>1. trust \in TrustStatus /\ (trust = "trusted" <=> SignerAuthorised(args))
    BY <1>1, <1>5, TrustType, TrustedMeansAuthorised DEF EvaluateTrust, CallInv
  <2>2. /\ result' = [result EXCEPT !.status = IF trust = "trusted" THEN @ ELSE "Invalid",
                                    !.trust_validation = trust]
        /\ phase = "trust" /\ phase' = "returned"
        /\ UNCHANGED <<keys, revocations, policy, args>>
    BY <1>5 DEF EvaluateTrust
  <2> HIDE DEF trust
  <2>3. TypeOK'
    BY <1>1, <2>1, <2>2 DEF TypeOK, VerificationResult
  <2>4. SignedAcceptable(args) <=> result.status = "Valid"
    BY <1>1, <2>2, AcceptableMeansVerified DEF CallInv
  <2>5. result'.status = IF trust = "trusted" THEN result.status ELSE "Invalid"
    BY <1>1, <2>2 DEF VerificationResult
  <2>6. ValidMeansAuthorised'
    BY <1>1, <2>1, <2>2, <2>4, <2>5
       DEF CallInv, ValidMeansAuthorised, SignedAcceptable, SignerAuthorised
  <2>7. CallInv' /\ ValidSignatureIsConsistent'
    BY <1>1, <2>2 DEF CallInv, ValidSignatureIsConsistent, VerificationResult
  <2> QED BY <2>3, <2>6, <2>7 DEF SignedInv
<1> QED BY <1>2, <1>3, <1>4, <1>5 DEF CallStep

LEMMA SignedInvStep == SignedInv /\ [Next]_vars => SignedInv'
<1>1. SignedInv /\ UNCHANGED vars => SignedInv'
  BY DEF SignedInv, vars, TypeOK, CallInv, ValidMeansAuthorised, ValidSignatureIsConsistent,
         SignedAcceptable, SignerAuthorised
<1> QED BY <1>1, CallerPreserves, CallPreserves DEF Next, CallerStep

\* Every variable keeps its type, for every set of keys and every call.
THEOREM SignedTypes == Spec => []TypeOK
<1>1. SignedInv => TypeOK
  BY DEF SignedInv
<1> QED BY <1>1, SignedInvInit, SignedInvStep, PTL DEF Spec

\* A signed receipt is answered VALID exactly when it is signed as declared and
\* the authority set vouches for the signer.
THEOREM SignedVerdict == Spec => []ValidMeansAuthorised
<1>1. SignedInv => ValidMeansAuthorised
  BY DEF SignedInv
<1> QED BY <1>1, SignedInvInit, SignedInvStep, PTL DEF Spec

\* A signature reported valid has the key_id of its key.
THEOREM SignatureConsistent == Spec => []ValidSignatureIsConsistent
<1>1. SignedInv => ValidSignatureIsConsistent
  BY DEF SignedInv
<1> QED BY <1>1, SignedInvInit, SignedInvStep, PTL DEF Spec

\* A revoked key is never accepted again under an enforcing policy: no step
\* takes a key out of the revocations, and no verdict forgets them.
THEOREM RevokedForEver == Spec => RevocationIsFinal
<1> SUFFICES ASSUME NEW k \in KeyId
             PROVE  Spec => [](k \in revocations => []~AcceptedFrom(k))
  BY DEF RevocationIsFinal
<1>1. k \in revocations /\ [Next]_vars => (k \in revocations)'
  BY DEF Next, vars, add_key, revoke, SetPolicy, Call, CallStep, Ingest, verify_single_envelope,
         verify_signature_bundle, EvaluateTrust
<1>2. SignedInv /\ k \in revocations => ~AcceptedFrom(k)
  BY DEF SignedInv, ValidMeansAuthorised, SignerAuthorised, AcceptedFrom
<1> QED BY <1>1, <1>2, SignedInvInit, SignedInvStep, PTL DEF Spec

=============================================================================
