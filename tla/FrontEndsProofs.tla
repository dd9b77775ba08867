-------------------------- MODULE FrontEndsProofs --------------------------
(***************************************************************************)
(* Proofs about what a caller is told, by the program, the browser or the  *)
(* library: for any arguments, files and inputs, of any size.              *)
(***************************************************************************)
EXTENDS FrontEnds, FunctionTheorems, SequenceTheorems, FiniteSetTheorems,
        WellFoundedInduction, TLAPS

----------------------------------------------------------------------------
(* Receipts *)

\* The types the members of an envelope are read as.
LEMMA Kinds ==
    /\ R!KindsOf("envelope_version") = {"integer"}
    /\ R!KindsOf("logical_time") = {"integer", "string"}
    /\ R!KindsOf("payload") = R!JsonKinds
    /\ \A name \in R!OPTIONAL_ENVELOPE_FIELDS : R!KindsOf(name) = {"string", "null"}
    /\ \A name \in {"receipt_type", "context_digest", "schema_digest", "policy_digest", "event_hash"} :
          R!KindsOf(name) = {"string"}
BY DEF R!KindsOf, R!OPTIONAL_ENVELOPE_FIELDS

\* What the verifier asks of one member: of its kind, of its content, and of the
\* members with a closed set of contents.
MemberRead(name, m) ==
    /\ m[1] \in R!KindsOf(name)
    /\ m = <<"string", "garbage">> => name \in {"payload", "digest_algorithm", "canonicalization"}

MemberKnown(name, m) ==
    /\ m[1] = "string" =>
          /\ name = "receipt_type" => m[2] \in R!KNOWN_RECEIPT_TYPES
          /\ name = "boundary_origin" => m[2] \in R!KNOWN_BOUNDARY_ORIGINS
          /\ name = "event_hash_profile" => m[2] \in R!EventHashProfileIds
          /\ name = "digest_algorithm" => m[2] = "BLAKE3"
          /\ name = "canonicalization" => m[2] = "JCS"
    /\ name = "envelope_version" => m = <<"integer", "1">>

\* That is what the governance profile says of it.
LEMMA GovernedMemberMeans ==
    ASSUME NEW name \in R!KnownFields, NEW m \in R!JsonKinds \X STRING
    PROVE  R!GovernedMember(name, m) <=> MemberRead(name, m) /\ MemberKnown(name, m)
<1> DEFINE kind == m[1]
           content == m[2]
<1>1. m = <<kind, content>> /\ kind \in R!JsonKinds /\ content \in STRING
  OBVIOUS
<1>2. \A a, c : m = <<a, c>> <=> kind = a /\ content = c
  BY <1>1
<1> HIDE DEF kind, content
<1>3. m[1] = kind /\ m[2] = content
  BY DEF kind, content
<1>4. CASE name \in {"envelope_version", "logical_time", "payload"}
  <2>1. CASE name = "envelope_version"
    BY <1>2, <1>3, <2>1, Kinds DEF R!GovernedMember, MemberRead, MemberKnown
  <2>2. CASE name = "logical_time"
    BY <1>2, <1>3, <2>2, Kinds DEF R!GovernedMember, MemberRead, MemberKnown
  <2>3. CASE name = "payload"
    BY <1>1, <1>3, <2>3, Kinds DEF R!GovernedMember, MemberRead, MemberKnown
  <2> QED BY <1>4, <2>1, <2>2, <2>3
<1>5. CASE name = "receipt_type"
  <2>1. "garbage" \notin R!KNOWN_RECEIPT_TYPES
    BY DEF R!KNOWN_RECEIPT_TYPES
  <2>2. R!GovernedMember(name, m) <=> kind = "string" /\ content \in R!KNOWN_RECEIPT_TYPES
    BY <1>3, <1>5 DEF R!GovernedMember
  <2>3. MemberRead(name, m) <=> kind = "string" /\ content # "garbage"
    BY <1>2, <1>3, <1>5, Kinds DEF MemberRead
  <2>4. MemberKnown(name, m) <=> (kind = "string" => content \in R!KNOWN_RECEIPT_TYPES)
    BY <1>3, <1>5 DEF MemberKnown
  <2> QED BY <2>1, <2>2, <2>3, <2>4
<1>6. CASE name \in R!OPTIONAL_ENVELOPE_FIELDS
  <2>1. R!KindsOf(name) = {"string", "null"}
    BY <1>6, Kinds
  <2>2. /\ "garbage" \notin R!KNOWN_BOUNDARY_ORIGINS
        /\ "garbage" \notin R!EventHashProfileIds
    BY DEF R!KNOWN_BOUNDARY_ORIGINS, R!EventHashProfileIds
  <2>3. MemberRead(name, m) <=>
           /\ kind \in {"string", "null"}
           /\ kind = "string" /\ content = "garbage" => name \in {"digest_algorithm", "canonicalization"}
    BY <1>2, <1>3, <1>6, <2>1 DEF MemberRead, R!OPTIONAL_ENVELOPE_FIELDS
  <2>4. CASE name = "parent_id"
    BY <1>3, <2>3, <2>4 DEF R!GovernedMember, MemberKnown
  <2>5. CASE name = "boundary_origin"
    BY <1>3, <2>2, <2>3, <2>5 DEF R!GovernedMember, MemberKnown
  <2>6. CASE name = "event_hash_profile"
    BY <1>3, <2>2, <2>3, <2>6 DEF R!GovernedMember, MemberKnown
  <2>7. CASE name = "digest_algorithm"
    BY <1>3, <2>3, <2>7 DEF R!GovernedMember, MemberKnown
  <2>8. CASE name = "canonicalization"
    BY <1>3, <2>3, <2>8 DEF R!GovernedMember, MemberKnown
  <2> QED BY <1>6, <2>4, <2>5, <2>6, <2>7, <2>8 DEF R!OPTIONAL_ENVELOPE_FIELDS
<1>7. CASE name \in {"context_digest", "schema_digest", "policy_digest", "event_hash"}
  BY <1>2, <1>3, <1>7, Kinds DEF R!GovernedMember, MemberRead, MemberKnown
<1> QED BY <1>4, <1>5, <1>6, <1>7 DEF R!KnownFields, R!REQUIRED_ENVELOPE_FIELDS

\* The governance profile is the schema profile, the typed deserialization, the
\* version and the algorithms.
LEMMA GovernedMeans ==
    ASSUME NEW r, R!IsReceiptText(r)
    PROVE  R!Governed(r.fields) <=>
              /\ R!validate_envelope_schema(r.fields) = "none"
              /\ R!reject_structural_floats(r.fields)
              /\ R!Deserializes(r.fields)
              /\ R!verify_envelope_version(r.fields)
              /\ R!verify_algorithms(r.fields)
<1> DEFINE f == r.fields
<1>1. \A name \in DOMAIN f : f[name] \in R!JsonKinds \X STRING
  BY DEF R!IsReceiptText
<1> HIDE DEF f
<1>2. R!validate_envelope_schema(f) = "none" <=>
         /\ DOMAIN f \subseteq R!KnownFields
         /\ R!REQUIRED_ENVELOPE_FIELDS \subseteq DOMAIN f
         /\ R!AsStr(f, "receipt_type", R!KNOWN_RECEIPT_TYPES)
         /\ R!AsStr(f, "boundary_origin", R!KNOWN_BOUNDARY_ORIGINS)
  BY DEF R!validate_envelope_schema
<1> SUFFICES ASSUME DOMAIN f \subseteq R!KnownFields, R!REQUIRED_ENVELOPE_FIELDS \subseteq DOMAIN f
             PROVE  (\A name \in DOMAIN f : R!GovernedMember(name, f[name])) <=>
                      /\ R!AsStr(f, "receipt_type", R!KNOWN_RECEIPT_TYPES)
                      /\ R!AsStr(f, "boundary_origin", R!KNOWN_BOUNDARY_ORIGINS)
                      /\ R!reject_structural_floats(f)
                      /\ R!Deserializes(f)
                      /\ R!verify_envelope_version(f)
                      /\ R!verify_algorithms(f)
  BY <1>2 DEF R!Governed, f
<1>3. \A name \in DOMAIN f :
         R!GovernedMember(name, f[name]) <=> MemberRead(name, f[name]) /\ MemberKnown(name, f[name])
  BY <1>1, GovernedMemberMeans
<1>4. "envelope_version" \in DOMAIN f /\ "receipt_type" \in DOMAIN f
  BY DEF R!REQUIRED_ENVELOPE_FIELDS
<1>5. (\A name \in DOMAIN f : MemberKnown(name, f[name])) <=>
         /\ R!AsStr(f, "receipt_type", R!KNOWN_RECEIPT_TYPES)
         /\ R!AsStr(f, "boundary_origin", R!KNOWN_BOUNDARY_ORIGINS)
         /\ R!AsStr(f, "event_hash_profile", R!EventHashProfileIds)
         /\ R!verify_algorithms(f)
         /\ f["envelope_version"] = <<"integer", "1">>
  BY <1>4 DEF MemberKnown, R!AsStr, R!Has, R!verify_algorithms, R!Declares
<1>6. R!Deserializes(f) <=>
         /\ \A name \in DOMAIN f : MemberRead(name, f[name])
         /\ f["envelope_version"] = <<"integer", "1">>
         /\ R!AsStr(f, "event_hash_profile", R!EventHashProfileIds)
  BY DEF R!Deserializes, MemberRead
<1>7. R!Deserializes(f) => R!reject_structural_floats(f)
  <2>1. \A name \in DOMAIN f \intersect {"envelope_version", "logical_time"} : "float" \notin R!KindsOf(name)
    BY Kinds
  <2> QED BY <2>1 DEF R!Deserializes, R!reject_structural_floats, R!STRUCTURAL_INTEGER_FIELDS, R!Has
<1> QED BY <1>3, <1>5, <1>6, <1>7 DEF R!verify_envelope_version

LEMMA AcceptableReceipt ==
    ASSUME R!TypeOK
    PROVE  R!ReceiptAcceptable(receipt, Given(limits.max_bytes, DefaultBytes)) <=>
              /\ R!Admitted /\ R!Profiled /\ R!Typed
              /\ R!verify_envelope_version(receipt.fields)
              /\ R!verify_algorithms(receipt.fields)
              /\ R!verify_event_hash(receipt.fields)
<1>1. R!IsReceiptText(receipt)
  BY DEF R!TypeOK
<1> QED BY <1>1, GovernedMeans DEF R!ReceiptAcceptable, R!Admitted, R!Profiled, R!Typed

LEMMA ReceiptStep == ASSUME R!ReceiptInv, R!ReceiptNext PROVE R!ReceiptInv'
<1> DEFINE bound == Given(limits.max_bytes, DefaultBytes)
           v == R!verify_envelope_version(receipt.fields)
           a == R!verify_algorithms(receipt.fields)
           h == R!verify_event_hash(receipt.fields)
           accepted == R!ReceiptAcceptable(receipt, bound)
<1>1. UNCHANGED <<receipt, bound>> /\ bound \in Nat /\ R!IsReceiptText(receipt)
  BY DEF R!ReceiptNext, R!AdmitReceipt, R!ValidateSchema, R!Deserialize, R!VerifyVersion,
         R!VerifyAlgorithms, R!VerifyEventHash, R!ReceiptInv, R!TypeOK
<1>2. /\ R!Admitted' = R!Admitted /\ R!Profiled' = R!Profiled /\ R!Typed' = R!Typed
      /\ v' = v /\ a' = a /\ h' = h /\ accepted' = accepted
      /\ R!IsReceiptText(receipt)'
  BY <1>1 DEF R!Admitted, R!Profiled, R!Typed
<1>3. accepted <=> R!Admitted /\ R!Profiled /\ R!Typed /\ v /\ a /\ h
  BY AcceptableReceipt DEF R!ReceiptInv
<1>4. R!HashFlagIsEarned' <=>
         (receipt_phase' = "done" =>
            (all_hashes_match' <=> R!Admitted /\ R!Profiled /\ R!Typed /\ h))
  BY <1>1 DEF R!HashFlagIsEarned, R!Admitted, R!Profiled, R!Typed
<1>5. receipt.bytes \in Nat
  BY <1>1 DEF R!IsReceiptText
<1>6. CASE R!AdmitReceipt
  <2>1. CASE R!RefuseReceipt("bytes") \/ R!RefuseReceipt(receipt.admission)
    <3>1. ~R!Admitted
      BY <1>1, <1>5, <1>6, <2>1 DEF R!AdmitReceipt, R!Admitted, R!RefuseReceipt, R!ToPhase
    <3> QED BY <1>1, <1>2, <1>3, <1>4, <2>1, <3>1
            DEF R!RefuseReceipt, R!ReceiptInv, R!TypeOK, R!PassedInv, R!CollectedInv
  <2>2. CASE R!Admitted /\ R!ToPhase("schema")
    BY <1>1, <1>2, <1>4, <1>6, <2>2
    DEF R!AdmitReceipt, R!ToPhase, R!ReceiptInv, R!TypeOK, R!PassedInv, R!CollectedInv
  <2> QED BY <1>6, <2>1, <2>2 DEF R!AdmitReceipt, R!Admitted
<1>7. CASE R!ValidateSchema
  <2> DEFINE found == R!validate_envelope_schema(receipt.fields)
  <2>1. CASE R!RefuseReceipt("MalformedJson") \/ R!RefuseReceipt(found)
    <3>1. ~R!Profiled
      BY <1>7, <2>1 DEF R!ValidateSchema, R!Profiled, R!RefuseReceipt, R!ToPhase
    <3> QED BY <1>1, <1>2, <1>3, <1>4, <2>1, <3>1
            DEF R!RefuseReceipt, R!ReceiptInv, R!TypeOK, R!PassedInv, R!CollectedInv
  <2>2. CASE R!Profiled /\ R!ToPhase("deserialize")
    BY <1>1, <1>2, <1>4, <1>7, <2>2
    DEF R!ValidateSchema, R!ToPhase, R!ReceiptInv, R!TypeOK, R!PassedInv, R!CollectedInv
  <2> QED BY <1>7, <2>1, <2>2 DEF R!ValidateSchema, R!Profiled
<1>8. CASE R!Deserialize
  <2>1. CASE R!RefuseReceipt("FloatInStructuralField") \/ R!RefuseReceipt("MalformedJson")
    <3>1. ~R!Typed
      BY <1>8, <2>1 DEF R!Deserialize, R!Typed, R!RefuseReceipt, R!ToPhase
    <3> QED BY <1>1, <1>2, <1>3, <1>4, <2>1, <3>1
            DEF R!RefuseReceipt, R!ReceiptInv, R!TypeOK, R!PassedInv, R!CollectedInv
  <2>2. CASE R!Typed /\ R!ToPhase("version")
    BY <1>1, <1>2, <1>4, <1>8, <2>2
    DEF R!Deserialize, R!ToPhase, R!ReceiptInv, R!TypeOK, R!PassedInv, R!CollectedInv
  <2> QED BY <1>8, <2>1, <2>2 DEF R!Deserialize, R!Typed
<1>9. CASE R!VerifyVersion
  BY <1>1, <1>2, <1>4, <1>9
  DEF R!VerifyVersion, R!Collect, R!ReceiptInv, R!TypeOK, R!PassedInv, R!CollectedInv
<1>10. CASE R!VerifyAlgorithms
  BY <1>1, <1>2, <1>4, <1>10
  DEF R!VerifyAlgorithms, R!Collect, R!ReceiptInv, R!TypeOK, R!PassedInv, R!CollectedInv
<1>11. CASE R!VerifyEventHash
  <2>1. R!Admitted /\ R!Profiled /\ R!Typed /\ (receipt_errors = {} <=> v /\ a)
    BY <1>11 DEF R!VerifyEventHash, R!ReceiptInv, R!PassedInv, R!CollectedInv
  <2>2. /\ receipt_phase' = "done" /\ (all_hashes_match' <=> h) /\ all_hashes_match' \in BOOLEAN
        /\ receipt_status' \in {"Valid", "Invalid"}
        /\ receipt_status' = "Valid" <=> receipt_errors = {} /\ h
    BY <1>11 DEF R!VerifyEventHash, R!Collect, R!verify_event_hash
  <2> QED BY <1>1, <1>2, <1>3, <1>4, <2>1, <2>2
          DEF R!ReceiptInv, R!TypeOK, R!PassedInv, R!CollectedInv
<1> QED BY <1>6, <1>7, <1>8, <1>9, <1>10, <1>11 DEF R!ReceiptNext

\* The invariant depends on the bound only once it was compared.
LEMMA ReceiptKept ==
    ASSUME R!ReceiptInv, UNCHANGED receiptVars, limits' \in LimitArgs,
           receipt_phase = "admit" \/ UNCHANGED limits
    PROVE  R!ReceiptInv'
<1>1. CASE UNCHANGED limits
  BY <1>1 DEF R!ReceiptInv, R!TypeOK, R!PassedInv, R!CollectedInv, R!HashFlagIsEarned,
              R!Admitted, R!Profiled, R!Typed, receiptVars
<1>2. CASE receipt_phase = "admit"
  <2>1. Given(limits.max_bytes, DefaultBytes)' \in Nat
    BY DefaultsAssumption DEF Given, LimitArgs
  <2> QED BY <1>2, <2>1 DEF R!ReceiptInv, R!TypeOK, R!PassedInv, R!CollectedInv,
                            R!HashFlagIsEarned, receiptVars
<1> QED BY <1>1, <1>2

----------------------------------------------------------------------------
(* Execution bundles *)

LEMMA SidecarNames ==
    /\ Len(B!BundleSidecars) = 2
    /\ \A n \in 1..2 : B!BundleSidecars[n] \in B!SidecarName
    /\ \A name \in B!SidecarName : \E n \in 1..2 : B!BundleSidecars[n] = name
    /\ \A m, n \in 1..2 : B!BundleSidecars[m] = B!BundleSidecars[n] => m = n
BY DEF B!BundleSidecars, B!SidecarName

\* A sidecar compared agrees with what is declared of it when its check matches.
LEMMA CheckAgrees ==
    ASSUME NEW b \in B!ExecutionBundleInput, NEW name \in B!SidecarName, B!Compared(b, name)
    PROVE  LET check == B!check_sidecar(name, b.declared[name], b.sidecar[name]) IN
           /\ check \in B!SidecarDigestCheck
           /\ check.name = name
           /\ check.matches <=> B!Agrees(b, name)
<1>1. /\ b.sidecar[name] \in Digest \union {Unhashable}
      /\ b.declared[name] \in Digest \union {EmptyText}
  BY DEF B!ExecutionBundleInput, B!Compared
<1>2. Unhashable \notin Digest
  BY DigestAssumption
<1>3. B!digest_canonical_value(b.sidecar[name]) \in Digest \union {EmptyText}
  BY <1>1 DEF B!digest_canonical_value
<1>4. (B!digest_canonical_value(b.sidecar[name]) = b.declared[name]) <=> B!Agrees(b, name)
  BY <1>1, <1>2 DEF B!digest_canonical_value, B!Agrees
<1> QED BY <1>1, <1>3, <1>4 DEF B!check_sidecar, B!SidecarDigestCheck

\* Once all sidecars were compared, the errors are the reasons to refuse.
LEMMA AllCompared ==
    ASSUME B!ExecutionInv, bundle_phase = "sidecars", position = 2
    PROVE  /\ B!ComparedSoFar = {name \in B!SidecarName : B!Compared(bundle, name)}
           /\ B!BundleAcceptable(bundle) <=>
                bundle.envelope_verifies /\ \A name \in B!ComparedSoFar : B!CheckOf(name).matches
<1>1. B!ComparedSoFar = {name \in B!SidecarName : B!Compared(bundle, name)}
  BY SidecarNames DEF B!ComparedSoFar
<1>2. bundle \in B!ExecutionBundleInput /\ bundle.json /\ bundle.format_ok
  BY DEF B!ExecutionInv, B!TypeOK
<1>3. \A name \in B!ComparedSoFar : B!CheckOf(name).matches <=> B!Agrees(bundle, name)
  BY <1>1, <1>2, CheckAgrees DEF B!CheckOf
<1>4. ASSUME NEW name \in B!SidecarName
      PROVE  (bundle.sidecar[name] = Absent \/ bundle.declared[name] = Undeclared
                \/ B!Agrees(bundle, name))
             <=> (name \in B!ComparedSoFar => B!CheckOf(name).matches)
  BY <1>1, <1>3 DEF B!Compared
<1> QED BY <1>1, <1>2, <1>4 DEF B!BundleAcceptable

LEMMA CheckSidecarKeeps == ASSUME B!ExecutionInv, B!CheckSidecar PROVE B!ExecutionInv'
<1> DEFINE name == B!BundleSidecars[position + 1]
           check == B!CheckOf(name)
<1>1. /\ bundle \in B!ExecutionBundleInput /\ position \in 0..1 /\ position' = position + 1
      /\ bundle_phase = "sidecars" /\ UNCHANGED <<bundle, bundle_phase, bundle_status>>
      /\ name \in B!SidecarName
      /\ sidecar_checks \in Seq(B!SidecarDigestCheck) /\ Len(sidecar_checks) \in Nat
      /\ B!ChecksInv /\ B!ErrorsInv
  BY SidecarNames DEF B!CheckSidecar, B!ExecutionInv, B!TypeOK
<1>2. \A other : B!Compared(bundle, other)' = B!Compared(bundle, other) /\ B!CheckOf(other)' = B!CheckOf(other)
  BY <1>1 DEF B!Compared, B!CheckOf
<1>3. name \notin B!ComparedSoFar
  <2>1. \A n \in 1..position : B!BundleSidecars[n] # name
    BY <1>1, SidecarNames
  <2> QED BY <2>1 DEF B!ComparedSoFar
<1>4. B!ComparedSoFar' = B!ComparedSoFar \union {other \in {name} : B!Compared(bundle, other)}
  <2>1. 1..(position + 1) = 1..position \union {position + 1}
    BY <1>1
  <2> QED BY <1>1, <1>2, <2>1 DEF B!ComparedSoFar
<1> HIDE DEF name
<1>5. CASE ~B!Compared(bundle, name)
  <2>1. UNCHANGED <<sidecar_checks, errors>> /\ B!ComparedSoFar' = B!ComparedSoFar
    BY <1>4, <1>5 DEF B!CheckSidecar, name
  <2>2. B!ChecksInv' /\ B!ErrorsInv'
    BY <1>1, <1>2, <2>1 DEF B!ChecksInv, B!ErrorsInv
  <2> QED BY <1>1, <2>1, <2>2, SidecarNames DEF B!ExecutionInv, B!TypeOK, B!ChecksExplainErrors
<1>6. CASE B!Compared(bundle, name)
  <2> DEFINE len == Len(sidecar_checks)
  <2>1. /\ sidecar_checks' = Append(sidecar_checks, check)
        /\ errors' = errors \union {e \in {name} : ~check.matches}
    BY <1>6 DEF B!CheckSidecar, B!CheckOf, name
  <2>2. check \in B!SidecarDigestCheck /\ check.name = name
    BY <1>1, <1>6, CheckAgrees DEF B!CheckOf
  <2>3. /\ sidecar_checks' \in Seq(B!SidecarDigestCheck)
        /\ Len(sidecar_checks') = len + 1
        /\ \A n \in 1..len : sidecar_checks'[n] = sidecar_checks[n]
        /\ sidecar_checks'[len + 1] = check
    BY <1>1, <2>1, <2>2
  <2>4. B!ComparedSoFar' = B!ComparedSoFar \union {name}
    BY <1>4, <1>6
  <2> HIDE DEF check
  <2>5. \A n \in 1..(len + 1) : n \in 1..len \/ n = len + 1
    BY <1>1
  <2>6. B!ChecksInv'
    <3>1. \A n \in 1..Len(sidecar_checks') :
             /\ sidecar_checks'[n].name \in B!ComparedSoFar'
             /\ sidecar_checks'[n] = B!CheckOf(sidecar_checks'[n].name)
      BY <1>1, <2>2, <2>3, <2>4, <2>5 DEF B!ChecksInv, check
    <3>2. ASSUME NEW other \in B!ComparedSoFar'
          PROVE  \E n \in 1..Len(sidecar_checks') : sidecar_checks'[n].name = other
      <4>1. CASE other = name
        <5>1. len + 1 \in 1..Len(sidecar_checks')
          BY <1>1, <2>3
        <5> QED BY <2>2, <2>3, <4>1, <5>1
      <4>2. CASE other \in B!ComparedSoFar
        <5>1. PICK n \in 1..len : sidecar_checks[n].name = other
          BY <1>1, <4>2 DEF B!ChecksInv
        <5>2. n \in 1..Len(sidecar_checks')
          BY <1>1, <2>3
        <5> QED BY <2>3, <5>1, <5>2
      <4> QED BY <2>4, <4>1, <4>2
    <3>3. ASSUME NEW m \in 1..Len(sidecar_checks'), NEW n \in 1..Len(sidecar_checks'),
                 sidecar_checks'[m].name = sidecar_checks'[n].name
          PROVE  m = n
      <4>1. \A k \in 1..len : sidecar_checks[k].name # name
        BY <1>1, <1>3 DEF B!ChecksInv
      <4> QED BY <1>1, <2>2, <2>3, <2>5, <3>3, <4>1 DEF B!ChecksInv
    <3>4. \A other : B!CheckOf(other)' = B!CheckOf(other)
      BY <1>2
    <3> QED BY <3>1, <3>2, <3>3, <3>4 DEF B!ChecksInv
  <2>7. B!ErrorsInv'
    BY <1>1, <1>2, <2>1, <2>4 DEF B!ErrorsInv, check
  <2>8. errors' \subseteq {"bundle", "envelope"} \union B!SidecarName
    BY <1>1, <2>1 DEF B!ExecutionInv, B!TypeOK
  <2> QED BY <1>1, <2>3, <2>6, <2>7, <2>8, SidecarNames
          DEF B!ExecutionInv, B!TypeOK, B!ChecksExplainErrors
<1> QED BY <1>5, <1>6

LEMMA ConcludeKeeps == ASSUME B!ExecutionInv, B!Conclude PROVE B!ExecutionInv'
<1>1. /\ bundle_phase = "sidecars" /\ position = 2 /\ bundle_phase' = "done"
      /\ UNCHANGED <<bundle, position, sidecar_checks, errors>>
      /\ B!ChecksInv /\ B!ErrorsInv /\ bundle.json /\ bundle.format_ok
      /\ bundle_status' \in {"Valid", "Invalid"}
  BY SidecarNames DEF B!Conclude, B!ExecutionInv
<1>2. (errors = {}) <=>
         bundle.envelope_verifies /\ \A name \in B!ComparedSoFar : B!CheckOf(name).matches
  BY <1>1 DEF B!ErrorsInv
<1>3. (\A n \in 1..Len(sidecar_checks) : sidecar_checks[n].matches)
         <=> \A name \in B!ComparedSoFar : B!CheckOf(name).matches
  BY <1>1 DEF B!ChecksInv
<1>4. bundle_status' = "Valid" <=> B!BundleAcceptable(bundle)
  BY <1>1, <1>2, <1>3, AllCompared DEF B!Conclude
<1>5. ASSUME NEW name \in B!SidecarName
      PROVE  /\ B!Compared(bundle, name) =>
                   \E n \in 1..Len(sidecar_checks) : sidecar_checks[n].name = name
             /\ name \in errors <=>
                   \E n \in 1..Len(sidecar_checks) :
                       sidecar_checks[n].name = name /\ ~sidecar_checks[n].matches
  <2>1. B!Compared(bundle, name) <=> name \in B!ComparedSoFar
    BY <1>1, AllCompared
  <2>2. name \in errors <=> name \in B!ComparedSoFar /\ ~B!CheckOf(name).matches
    BY <1>1 DEF B!ErrorsInv, B!SidecarName
  <2> QED BY <1>1, <2>1, <2>2 DEF B!ChecksInv
<1>6. B!ChecksExplainErrors'
  BY <1>1, <1>5 DEF B!ChecksExplainErrors, B!ChecksInv, B!Compared
<1> QED BY <1>1, <1>4, <1>6 DEF B!ExecutionInv, B!TypeOK

LEMMA BundleStep == ASSUME B!ExecutionInv, B!Next PROVE B!ExecutionInv'
<1>1. CASE B!ParseBundle
  <2>1. (bundle_phase' = "done") => ~B!BundleAcceptable(bundle)
    BY <1>1 DEF B!ParseBundle, B!BundleAcceptable
  <2>2. UNCHANGED <<bundle, position, sidecar_checks>> /\ bundle_phase = "parse"
    BY <1>1 DEF B!ParseBundle
  <2> QED BY <1>1, <2>1, <2>2 DEF B!ParseBundle, B!ExecutionInv, B!TypeOK, B!ChecksExplainErrors
<1>2. CASE B!VerifyEnvelope
  <2>1. /\ bundle_phase = "envelope" /\ bundle_phase' = "sidecars" /\ position = 0
        /\ sidecar_checks = <<>> /\ Len(<<>>) = 0
        /\ UNCHANGED <<bundle, position, sidecar_checks, bundle_status>>
        /\ errors' = {e \in {"envelope"} : ~bundle.envelope_verifies}
    BY <1>2 DEF B!VerifyEnvelope, B!ExecutionInv
  <2>2. B!ComparedSoFar' = {}
    BY <2>1 DEF B!ComparedSoFar
  <2>3. B!ChecksInv' /\ B!ErrorsInv'
    BY <2>1, <2>2 DEF B!ChecksInv, B!ErrorsInv
  <2> QED BY <2>1, <2>3 DEF B!ExecutionInv, B!TypeOK, B!ChecksExplainErrors
<1> QED BY <1>1, <1>2, CheckSidecarKeeps, ConcludeKeeps DEF B!Next

LEMMA BundleKept == B!ExecutionInv /\ UNCHANGED bundleVars => B!ExecutionInv'
BY DEF B!ExecutionInv, B!TypeOK, B!ChecksInv, B!ErrorsInv, B!ComparedSoFar, B!CheckOf,
       B!ChecksExplainErrors, B!Compared, bundleVars

----------------------------------------------------------------------------
(* External receipts and projections *)

\* The law of a receipt is the one of its profile, or the only one of its type.
LEMMA LawOf ==
    ASSUME NEW e \in E!ReceiptEnvelope
    PROVE  /\ E!resolve_profile(e) = "envelope_minus" <=>
                 \/ e.event_hash_profile = "constitutional_envelope_v1"
                 \/ e.event_hash_profile = "none" /\ e.receipt_type # EventType
           /\ E!resolve_profile(e) \in {"envelope_minus", "runtime_port", "ambiguous"}
BY DEF E!ReceiptEnvelope, E!resolve_profile, E!is_multi_law

LEMMA RequestFixed == E!Next => UNCHANGED request
BY DEF E!Next, E!ParseReceipt, E!verify_envelope_version, E!verify_event_hash,
       E!verify_decode_step_schema, E!ParseProjection, E!RequireField, E!StartBinding,
       E!assert_projection_bind, E!ReturnMetadata, E!Fail, E!GoTo

\* The fields of a projection and what the first three are bound to.
LEMMA BoundFields ==
    /\ Len(E!PROJECTION_SOURCE_FIELDS) = 5
    /\ \A n \in 1..5 : E!PROJECTION_SOURCE_FIELDS[n] \in E!ProjectionField
    /\ \A name \in E!ProjectionField : \E n \in 1..5 : E!PROJECTION_SOURCE_FIELDS[n] = name
    /\ E!PROJECTION_SOURCE_FIELDS[1] = "source_receipt_type"
    /\ E!PROJECTION_SOURCE_FIELDS[2] = "source_schema_version"
    /\ E!PROJECTION_SOURCE_FIELDS[3] = "source_event_hash"
    /\ \A e : /\ Len(E!Cited(e)) = 3
              /\ E!Cited(e)[1] = e.receipt_type
              /\ E!Cited(e)[2] = e.payload_schema
              /\ E!Cited(e)[3] = e.event_hash
BY DEF E!PROJECTION_SOURCE_FIELDS, E!ProjectionField, E!Cited

\* Comparing as texts compares with a text.
LEMMA TextsCompare ==
    ASSUME NEW json \in E!Json, NEW text \in Text
    PROVE  E!AsText(json) = E!AsText(text) <=> json = text
BY TextAssumption DEF E!AsText, E!Json

\* A projection is acceptable when it parses, holds every field and is bound.
LEMMA AllBound ==
    ASSUME request \in E!Request
    PROVE  E!ProjectionAcceptable(request.projection, request.envelope) <=>
              /\ request.projection.parses
              /\ \A name \in E!ProjectionField : request.projection.value[name] # Absent
              /\ \A n \in 1..3 : E!IsBound(n)
<1> DEFINE p == request.projection
           e == request.envelope
<1>1. /\ \A name \in E!ProjectionField : p.value[name] \in E!Json
      /\ e.receipt_type \in Text /\ e.event_hash \in Text
  BY TextAssumption DEF E!Request, E!Projection, E!ReceiptEnvelope
<1>2. (\A n \in 1..3 : E!IsBound(n)) <=> E!IsBound(1) /\ E!IsBound(2) /\ E!IsBound(3)
  <2>1. 1..3 = {1, 2, 3}
    OBVIOUS
  <2> QED BY <2>1
<1>3. /\ E!IsBound(1) <=> p.value["source_receipt_type"] = e.receipt_type
      /\ E!IsBound(2) <=> E!AsText(p.value["source_schema_version"]) = E!AsText(e.payload_schema)
      /\ E!IsBound(3) <=> p.value["source_event_hash"] = e.event_hash
  <2>1. {"source_receipt_type", "source_schema_version", "source_event_hash"} \subseteq E!ProjectionField
    BY DEF E!ProjectionField
  <2> QED BY <1>1, <2>1, BoundFields, TextsCompare DEF E!IsBound
<1> QED BY <1>2, <1>3 DEF E!ProjectionAcceptable

\* A failed check ends the call: the request does not deserve to be accepted, and
\* an error about the projection is one of a verified source.
LEMMA Failed ==
    ASSUME E!ExternalInv, NEW e \in E!Errors, E!Fail(e), ~E!RequestAcceptable(request),
           e \in {"ProjectionMissingSourceBinding", "ProjectionSourceMismatch"} =>
              E!SourceAcceptable(request.envelope),
           e = "ProjectionSourceMismatch" =>
              \A name \in E!ProjectionField : request.projection.value[name] # Absent
    PROVE  E!ExternalInv'
BY DEF E!Fail, E!ExternalInv, E!TypeOK, E!SourceInv, E!ProjectionInv,
       E!ProjectionErrorsVouchForSource

LEMMA SourceStep ==
    ASSUME E!ExternalInv,
           E!ParseReceipt \/ E!verify_envelope_version \/ E!verify_event_hash
              \/ E!verify_decode_step_schema
    PROVE  E!ExternalInv'
<1>1. request \in E!Request /\ request.envelope \in E!ReceiptEnvelope /\ field = 0
  BY DEF E!ExternalInv, E!TypeOK, E!Request, E!ParseReceipt, E!verify_envelope_version,
         E!verify_event_hash, E!verify_decode_step_schema
<1>2. ~E!SourceAcceptable(request.envelope) => ~E!RequestAcceptable(request)
  BY DEF E!RequestAcceptable
<1>3. CASE E!ParseReceipt
  <2>1. CASE ~request.envelope.parses /\ E!Fail("ParseError")
    BY <1>2, <2>1, Failed DEF E!SourceAcceptable, E!Errors
  <2>2. CASE request.envelope.parses /\ E!GoTo("version") /\ UNCHANGED field
    BY <1>1, <1>3, <2>2 DEF E!ParseReceipt, E!GoTo, E!ExternalInv, E!TypeOK, E!SourceInv,
                            E!ProjectionInv, E!ProjectionErrorsVouchForSource
  <2> QED BY <1>3, <2>1, <2>2 DEF E!ParseReceipt
<1>4. CASE E!verify_envelope_version
  <2>1. CASE ~request.envelope.version_ok /\ E!Fail("UnsupportedVersion")
    BY <1>2, <2>1, Failed DEF E!SourceAcceptable, E!Errors
  <2>2. CASE request.envelope.version_ok /\ E!GoTo("event_hash") /\ UNCHANGED field
    BY <1>1, <1>4, <2>2 DEF E!verify_envelope_version, E!GoTo, E!ExternalInv, E!TypeOK, E!SourceInv,
                            E!ProjectionInv, E!ProjectionErrorsVouchForSource
  <2> QED BY <1>4, <2>1, <2>2 DEF E!verify_envelope_version
<1>5. CASE E!verify_event_hash
  <2> DEFINE law == E!resolve_profile(request.envelope)
  <2>1. law \in {"envelope_minus", "runtime_port", "ambiguous"}
    BY <1>1, LawOf
  <2>2. law # "envelope_minus" => ~E!SourceAcceptable(request.envelope)
    BY <1>1, LawOf DEF E!SourceAcceptable
  <2>3. CASE law = "ambiguous" /\ E!Fail("EventHashLawAmbiguous")
    BY <1>2, <2>2, <2>3, Failed DEF E!Errors
  <2>4. CASE law = "runtime_port" /\ E!Fail("ProfileNotEnvelopeVerifiable")
    BY <1>2, <2>2, <2>4, Failed DEF E!Errors
  <2>5. CASE ~request.envelope.commits /\ E!Fail("CommitmentError")
    BY <1>2, <2>5, Failed DEF E!SourceAcceptable, E!Errors
  <2>6. CASE request.envelope.computed_by # "envelope_minus" /\ E!Fail("EventHashMismatch")
    BY <1>2, <2>6, Failed DEF E!SourceAcceptable, E!Errors
  <2>7. CASE /\ law = "envelope_minus" /\ request.envelope.commits
             /\ request.envelope.computed_by = "envelope_minus"
             /\ E!GoTo("decode_step") /\ UNCHANGED field
    BY <1>1, <1>5, <2>7 DEF E!verify_event_hash, E!GoTo, E!ExternalInv, E!TypeOK, E!SourceInv,
                            E!ProjectionInv, E!ProjectionErrorsVouchForSource
  <2> QED BY <1>5, <2>3, <2>4, <2>5, <2>6, <2>7 DEF E!verify_event_hash
<1>6. CASE E!verify_decode_step_schema
  <2>1. (request.envelope.payload_schema # DecodeStep1) <=> E!SourceAcceptable(request.envelope)
    BY <1>1, <1>6, LawOf DEF E!verify_decode_step_schema, E!ExternalInv, E!SourceInv, E!SourceAcceptable
  <2>2. CASE request.envelope.payload_schema = DecodeStep1 /\ E!Fail("NonCanonicalDecodeStep")
    BY <1>2, <2>1, <2>2, Failed DEF E!Errors
  <2>3. CASE /\ request.envelope.payload_schema # DecodeStep1 /\ request.call = "external"
             /\ external_phase' = "done" /\ external_status' = "Valid"
             /\ UNCHANGED <<request, field, error>>
    <3>1. E!RequestAcceptable(request)
      BY <2>1, <2>3 DEF E!RequestAcceptable
    <3> QED BY <1>1, <2>3, <3>1 DEF E!ExternalInv, E!TypeOK, E!SourceInv, E!ProjectionInv,
                                    E!ProjectionErrorsVouchForSource
  <2>4. CASE /\ request.envelope.payload_schema # DecodeStep1 /\ request.call = "projection"
             /\ E!GoTo("projection") /\ UNCHANGED field
    BY <1>1, <1>6, <2>1, <2>4
    DEF E!verify_decode_step_schema, E!GoTo, E!ExternalInv, E!TypeOK, E!SourceInv,
        E!ProjectionInv, E!ProjectionErrorsVouchForSource
  <2> QED BY <1>6, <2>2, <2>3, <2>4 DEF E!verify_decode_step_schema
<1> QED BY <1>3, <1>4, <1>5, <1>6

LEMMA ProjectionStep ==
    ASSUME E!ExternalInv,
           E!ParseProjection \/ E!RequireField \/ E!StartBinding \/ E!assert_projection_bind
              \/ E!ReturnMetadata
    PROVE  E!ExternalInv'
<1>1. /\ request \in E!Request /\ E!SourceAcceptable(request.envelope)
      /\ request.call = "projection" /\ field \in 0..5
      /\ external_phase # "done" /\ error = "none" /\ external_status = "pending"
  BY BoundFields
  DEF E!ExternalInv, E!TypeOK, E!SourceInv, E!ParseProjection, E!RequireField, E!StartBinding,
      E!assert_projection_bind, E!ReturnMetadata
<1>2. E!RequestAcceptable(request) <=>
         /\ request.projection.parses
         /\ \A name \in E!ProjectionField : request.projection.value[name] # Absent
         /\ \A n \in 1..3 : E!IsBound(n)
  BY <1>1, AllBound DEF E!RequestAcceptable
<1>3. CASE E!ParseProjection
  <2>1. CASE ~request.projection.parses /\ E!Fail("ParseError")
    BY <1>2, <2>1, Failed DEF E!Errors
  <2>2. CASE request.projection.parses /\ E!GoTo("fields") /\ UNCHANGED field
    BY <1>1, <1>3, <2>2 DEF E!ParseProjection, E!GoTo, E!ExternalInv, E!TypeOK, E!SourceInv,
                            E!ProjectionInv, E!ProjectionErrorsVouchForSource
  <2> QED BY <1>3, <2>1, <2>2 DEF E!ParseProjection
<1>4. CASE E!RequireField
  <2> DEFINE name == E!PROJECTION_SOURCE_FIELDS[field + 1]
  <2>1. field < 5 /\ external_phase = "fields" /\ name \in E!ProjectionField
    BY <1>1, <1>4, BoundFields DEF E!RequireField
  <2>2. CASE request.projection.value[name] = Absent /\ E!Fail("ProjectionMissingSourceBinding")
    BY <1>1, <1>2, <2>1, <2>2, Failed DEF E!Errors
  <2>3. CASE /\ request.projection.value[name] # Absent
             /\ field' = field + 1 /\ UNCHANGED <<request, external_phase, error, external_status>>
    <3>1. \A n \in 1..(field + 1) : n \in 1..field \/ n = field + 1
      BY <1>1
    <3>2. \A n \in 1..(field + 1) :
             request.projection.value[E!PROJECTION_SOURCE_FIELDS[n]] # Absent
      BY <2>1, <2>3, <3>1 DEF E!ExternalInv, E!ProjectionInv
    <3> QED BY <1>1, <2>1, <2>3, <3>2, BoundFields
            DEF E!ExternalInv, E!TypeOK, E!SourceInv, E!ProjectionInv,
                E!ProjectionErrorsVouchForSource
  <2> QED BY <1>4, <2>2, <2>3 DEF E!RequireField
<1>5. CASE E!StartBinding
  <2>1. /\ external_phase = "fields" /\ external_phase' = "binding" /\ field = 5 /\ field' = 0
        /\ UNCHANGED <<request, error, external_status>>
    BY <1>5, BoundFields DEF E!StartBinding, E!GoTo
  <2>2. \A name \in E!ProjectionField : request.projection.value[name] # Absent
    BY <2>1, BoundFields DEF E!ExternalInv, E!ProjectionInv
  <2> QED BY <1>1, <2>1, <2>2, BoundFields
          DEF E!ExternalInv, E!TypeOK, E!SourceInv, E!ProjectionInv,
              E!ProjectionErrorsVouchForSource
<1>6. CASE E!assert_projection_bind
  <2>1. /\ external_phase = "binding" /\ field \in 0..2
        /\ \A name \in E!ProjectionField : request.projection.value[name] # Absent
        /\ \A n \in 1..field : E!IsBound(n)
    BY <1>1, <1>6, BoundFields DEF E!assert_projection_bind, E!ExternalInv, E!ProjectionInv
  <2>2. CASE ~E!IsBound(field + 1) /\ E!Fail("ProjectionSourceMismatch")
    BY <1>1, <1>2, <2>1, <2>2, Failed DEF E!Errors
  <2>3. CASE /\ E!IsBound(field + 1) /\ field' = field + 1
             /\ UNCHANGED <<request, external_phase, error, external_status>>
    <3>1. \A n \in 1..(field + 1) : n \in 1..field \/ n = field + 1
      BY <1>1
    <3>2. \A n \in 1..(field + 1) : E!IsBound(n)
      BY <2>1, <2>3, <3>1
    <3>3. \A n : E!IsBound(n)' = E!IsBound(n)
      BY <2>3 DEF E!IsBound
    <3> QED BY <1>1, <2>1, <2>3, <3>2, <3>3, BoundFields
            DEF E!ExternalInv, E!TypeOK, E!SourceInv, E!ProjectionInv,
                E!ProjectionErrorsVouchForSource
  <2> QED BY <1>6, <2>2, <2>3 DEF E!assert_projection_bind, E!IsBound
<1>7. CASE E!ReturnMetadata
  <2>1. /\ external_phase = "binding" /\ field = 3
        /\ external_phase' = "done" /\ external_status' = "Valid"
        /\ UNCHANGED <<request, field, error>>
    BY <1>7, BoundFields DEF E!ReturnMetadata
  <2>2. E!RequestAcceptable(request)
    BY <1>2, <2>1 DEF E!ExternalInv, E!ProjectionInv
  <2> QED BY <1>1, <2>1, <2>2, BoundFields
          DEF E!ExternalInv, E!TypeOK, E!SourceInv, E!ProjectionInv,
              E!ProjectionErrorsVouchForSource
<1> QED BY <1>3, <1>4, <1>5, <1>6, <1>7

LEMMA ExternalStep == ASSUME E!ExternalInv, E!Next PROVE E!ExternalInv'
BY SourceStep, ProjectionStep DEF E!Next

LEMMA ExternalKept == E!ExternalInv /\ UNCHANGED externalVars => E!ExternalInv'
BY DEF E!ExternalInv, E!TypeOK, E!SourceInv, E!ProjectionInv, E!IsBound,
       E!ProjectionErrorsVouchForSource, externalVars

----------------------------------------------------------------------------
(* Numbers *)

\* A set of numbers has a least one.
LEMMA LeastNumber ==
    ASSUME NEW S, S \subseteq Nat, S # {}
    PROVE  \E x \in S : \A y \in S : x <= y
<1> DEFINE less == OpToRel(<, Nat)
<1>1. IsWellFoundedOn(less, Nat)
  BY NatLessThanWellFounded
<1>2. \A x, y \in Nat : x < y => <<x, y>> \in less
  BY DEF OpToRel
<1> HIDE DEF less
<1>3. PICK x \in S : \A y \in S : ~(<<y, x>> \in less)
  BY WFMin, <1>1
<1>4. \A y \in S : ~(y < x)
  BY <1>2, <1>3
<1> QED BY <1>3, <1>4

\* The subsets of n numbers are 2^n, and one number more doubles them.
LEMMA SubsetCount ==
    ASSUME NEW n \in Nat
    PROVE  /\ IsFiniteSet(SUBSET (1..n))
           /\ Cardinality(SUBSET (1..n)) = 2^n
           /\ 2^n \in Nat \ {0}
<1>1. IsFiniteSet(1..n) /\ Cardinality(1..n) = n
  <2>1. 1 \in Int /\ n \in Int /\ (IF 1 > n THEN 0 ELSE n - 1 + 1) = n
    OBVIOUS
  <2> QED BY <2>1, FS_Interval
<1>2. IsFiniteSet(SUBSET (1..n)) /\ Cardinality(SUBSET (1..n)) = 2^n
  BY <1>1, FS_SUBSET
<1>3. SUBSET (1..n) # {}
  OBVIOUS
<1>4. 2^n \in Nat /\ 2^n # 0
  BY <1>2, <1>3, FS_CardinalityType, FS_EmptySet
<1> QED BY <1>2, <1>4

LEMMA PowerDoubles ==
    ASSUME NEW n \in Nat
    PROVE  2^(n + 1) = 2 * 2^n
<1> DEFINE A == SUBSET (1..n)
           With(Z) == Z \union {n + 1}
           C == {With(Z) : Z \in A}
           f == [Z \in A |-> With(Z)]
<1>1. SUBSET (1..(n + 1)) = A \union C
  <2>1. 1..(n + 1) = 1..n \union {n + 1}
    OBVIOUS
  <2>2. ASSUME NEW Z \in SUBSET (1..(n + 1)) PROVE Z \in A \union C
    <3>1. CASE n + 1 \in Z
      <4>1. Z \ {n + 1} \in A /\ Z = With(Z \ {n + 1})
        BY <2>1, <3>1
      <4> QED BY <4>1
    <3>2. CASE n + 1 \notin Z
      BY <2>1, <3>2
    <3> QED BY <3>1, <3>2
  <2>3. A \union C \subseteq SUBSET (1..(n + 1))
    BY <2>1
  <2> QED BY <2>2, <2>3
<1>2. n + 1 \notin 1..n
  OBVIOUS
<1>3. A \intersect C = {}
  BY <1>2
<1>4. ExistsBijection(A, C)
  <2>1. f \in [A -> C]
    OBVIOUS
  <2>2. ASSUME NEW Z \in A, NEW D \in A, f[Z] = f[D] PROVE Z = D
    <3>1. With(Z) = With(D) /\ n + 1 \notin Z /\ n + 1 \notin D
      BY <1>2, <2>2
    <3> QED BY <3>1
  <2>3. \A c \in C : \E Z \in A : f[Z] = c
    OBVIOUS
  <2>4. f \in Bijection(A, C)
    BY <2>1, <2>2, <2>3 DEF Bijection, Injection, Surjection, IsInjective
  <2> QED BY <2>4 DEF ExistsBijection
<1>5. IsFiniteSet(A) /\ Cardinality(A) = 2^n /\ 2^n \in Nat
  BY SubsetCount
<1>6. IsFiniteSet(C) /\ Cardinality(C) = 2^n
  BY <1>4, <1>5, FS_Bijection
<1> HIDE DEF A, C
<1>7. Cardinality(A \union C) = 2^n + 2^n - 0
  BY <1>3, <1>5, <1>6, FS_Union, FS_EmptySet
<1>8. n + 1 \in Nat
  OBVIOUS
<1>9. Cardinality(SUBSET (1..(n + 1))) = 2^(n + 1)
  BY <1>8, SubsetCount
<1>10. \A p \in Nat : p + p - 0 = 2 * p
  OBVIOUS
<1>11. 2^n + 2^n - 0 = 2 * 2^n
  BY <1>5, <1>10
<1>12. 2^(n + 1) = Cardinality(A \union C)
  BY <1>1, <1>9
<1> QED BY <1>7, <1>11, <1>12, Zenon

LEMMA PowerSum ==
    ASSUME NEW a \in Nat, NEW b \in Nat
    PROVE  2^(a + b) = 2^a * 2^b
<1> DEFINE Wrong == {k \in Nat : 2^(a + k) # 2^a * 2^k}
<1> SUFFICES ASSUME Wrong # {} PROVE FALSE
  OBVIOUS
<1>1. PICK k \in Wrong : \A j \in Wrong : k <= j
  BY LeastNumber
<1>2. 2^a \in Nat
  BY SubsetCount
<1>3. k # 0
  <2>1. 2^0 = 1 /\ a + 0 = a
    OBVIOUS
  <2>2. \A p \in Nat : p * 1 = p
    OBVIOUS
  <2>3. 2^(a + 0) = 2^a * 2^0
    BY <1>2, <2>1, <2>2, Zenon
  <2> QED BY <1>1, <2>3, Zenon
<1>4. k - 1 \in Nat /\ k - 1 \notin Wrong
  BY <1>1, <1>3
<1>5. 2^(a + (k - 1)) = 2^a * 2^(k - 1)
  BY <1>4
<1>6. 2^k = 2 * 2^(k - 1)
  <2>1. (k - 1) + 1 = k
    BY <1>4
  <2> QED BY <1>4, <2>1, PowerDoubles
<1>7. 2^(a + k) = 2 * 2^(a + (k - 1))
  <2>1. (a + (k - 1)) + 1 = a + k /\ a + (k - 1) \in Nat
    BY <1>4
  <2> QED BY <2>1, PowerDoubles
<1>8. 2^(k - 1) \in Nat
  BY <1>4, SubsetCount
<1>9. \A x, y \in Nat : 2 * (x * y) = x * (2 * y)
  OBVIOUS
<1> QED BY <1>1, <1>2, <1>5, <1>6, <1>7, <1>8, <1>9

LEMMA PowerGrows ==
    ASSUME NEW a \in Nat, NEW b \in Nat, a <= b
    PROVE  2^a <= 2^b
<1>1. b - a \in Nat /\ a + (b - a) = b
  OBVIOUS
<1>2. 2^b = 2^a * 2^(b - a)
  BY <1>1, PowerSum
<1>3. 2^a \in Nat \ {0} /\ 2^(b - a) \in Nat \ {0}
  BY <1>1, SubsetCount
<1>4. \A x, y \in Nat \ {0} : x <= x * y
  OBVIOUS
<1> QED BY <1>2, <1>3, <1>4

LEMMA DivMod ==
    ASSUME NEW w \in Nat, NEW m \in Nat \ {0}
    PROVE  w = m * (w \div m) + (w % m) /\ w \div m \in Nat /\ w % m \in 0..(m - 1)
OBVIOUS

LEMMA ModUnique ==
    ASSUME NEW m \in Nat \ {0}, NEW t \in Nat, NEW v \in 0..(m - 1), NEW w \in Nat, w = m * t + v
    PROVE  w % m = v /\ w \div m = t
<1>1. w = m * (w \div m) + (w % m) /\ w \div m \in Nat /\ w % m \in 0..(m - 1)
  BY DivMod
<1> DEFINE a == w \div m
           b == w % m
<1> HIDE DEF a, b
<1>2. m * a + b = m * t + v /\ a \in Nat /\ b \in 0..(m - 1)
  BY <1>1 DEF a, b
<1>3. \A x, y \in Nat : x < y => m * x + m <= m * y
  OBVIOUS
<1>4. m * a \in Nat /\ m * t \in Nat
  BY <1>2
<1>5. ~(a < t)
  BY <1>2, <1>3, <1>4
<1>6. ~(t < a)
  BY <1>2, <1>3, <1>4
<1>7. a = t
  BY <1>2, <1>5, <1>6
<1> QED BY <1>2, <1>4, <1>7 DEF a, b

----------------------------------------------------------------------------
(* Words *)

\* A word is a sign, an exponent and a fraction.
LEMMA WordParts ==
    ASSUME NEW w \in M!Word
    PROVE  /\ 2^Mantissa \in Nat \ {0} /\ M!Bias \in Nat \ {0}
           /\ 2^(Exponent - 1) = M!Bias + 1
           /\ 2^Exponent = 2 * M!Bias + 2
           /\ M!SignBit = 2^Exponent * 2^Mantissa
           /\ M!SignBit \in Nat \ {0}
           /\ M!Biased(w) \in 0..(2^Exponent - 1)
           /\ M!Fraction(w) \in 0..(2^Mantissa - 1)
           /\ M!Unsigned(w) = 2^Mantissa * M!Biased(w) + M!Fraction(w)
<1> DEFINE m == 2^Mantissa
           h == 2^(Exponent - 2)
           x == 2^Exponent
           q == w \div m
<1>1. m \in Nat \ {0} /\ h \in Nat \ {0} /\ x \in Nat \ {0}
  <2>1. Mantissa \in Nat /\ Exponent - 2 \in Nat /\ Exponent \in Nat
    BY FormatAssumption
  <2> QED BY <2>1, SubsetCount
<1>2. 2^(Exponent - 1) = 2 * h
  <2>1. Exponent - 2 \in Nat /\ (Exponent - 2) + 1 = Exponent - 1
    BY FormatAssumption
  <2> QED BY <2>1, PowerDoubles
<1>3. x = 2 * 2^(Exponent - 1)
  <2>1. Exponent - 1 \in Nat /\ (Exponent - 1) + 1 = Exponent
    BY FormatAssumption
  <2> QED BY <2>1, PowerDoubles
<1>4. M!SignBit = x * m
  BY FormatAssumption, PowerSum DEF M!SignBit
<1>5. w \in Nat
  <2>1. 1 + Exponent + Mantissa \in Nat
    BY FormatAssumption
  <2>2. 2^(1 + Exponent + Mantissa) \in Nat
    BY <2>1, SubsetCount
  <2> QED BY <2>2 DEF M!Word
<1>6. M!Biased(w) = q % x /\ M!Fraction(w) = w % m /\ M!Unsigned(w) = w % M!SignBit
  BY DEF M!Biased, M!Fraction, M!Unsigned
<1>7. M!Bias = 2 * h - 1
  BY <1>2 DEF M!Bias
<1> HIDE DEF m, h, x
<1>8. w = m * q + (w % m) /\ q \in Nat /\ w % m \in 0..(m - 1)
  BY <1>1, <1>5, DivMod
<1> HIDE DEF q
<1> DEFINE s == q \div x
           b == q % x
           r == w % m
<1>9. q = x * s + b /\ s \in Nat /\ b \in 0..(x - 1)
  BY <1>1, <1>8, DivMod
<1> HIDE DEF s, b, r
<1>10. x * m \in Nat \ {0} /\ m * b + r \in 0..(x * m - 1) /\ w = (x * m) * s + (m * b + r)
  <2>1. r \in 0..(m - 1) /\ w = m * q + r
    BY <1>8 DEF r
  <2>2. \A c, d \in Nat : c < d => m * c + m <= m * d
    BY <1>1
  <2>3. m * b + m <= m * x /\ m * x = x * m
    BY <1>1, <1>9, <2>2
  <2>4. m * b \in Nat /\ x * m \in Nat
    BY <1>1, <1>9
  <2>5. m * q = (x * m) * s + m * b
    BY <1>1, <1>9
  <2>6. (x * m) * s \in Nat
    BY <1>9, <2>4
  <2> QED BY <1>1, <2>1, <2>3, <2>4, <2>5, <2>6
<1>11. w % (x * m) = m * b + r
  BY <1>5, <1>9, <1>10, ModUnique
<1>12. 2 * h - 1 \in Nat \ {0} /\ 2 * h = (2 * h - 1) + 1 /\ 2 * (2 * h) = 2 * (2 * h - 1) + 2
  BY <1>1
<1>13. M!Biased(w) = b /\ M!Fraction(w) = r
  BY <1>6 DEF b, r
<1>14. r \in 0..(m - 1)
  BY <1>8 DEF r
<1>15. M!Unsigned(w) = m * b + r
  BY <1>4, <1>6, <1>11
<1> QED BY <1>1, <1>2, <1>3, <1>4, <1>7, <1>9, <1>10, <1>12, <1>13, <1>14, <1>15 DEF m, x


\* The words of infinity and of the NaNs come after all others.
LEMMA FiniteWords ==
    ASSUME NEW w \in M!Word
    PROVE  M!is_finite(w) <=> M!Unsigned(w) < (2^Exponent - 1) * 2^Mantissa
<1> DEFINE m == 2^Mantissa
           x == 2^Exponent
           b == M!Biased(w)
           r == M!Fraction(w)
           u == M!Unsigned(w)
<1>1. /\ m \in Nat \ {0} /\ x \in Nat \ {0} /\ b \in 0..(x - 1) /\ r \in 0..(m - 1)
      /\ u = m * b + r
  BY WordParts
<1>2. M!is_finite(w) <=> b # x - 1
  BY DEF M!is_finite
<1> HIDE DEF m, x, b, r, u
<1>3. b # x - 1 <=> u < (x - 1) * m
  <2>1. CASE b = x - 1
    <3>1. m * b = (x - 1) * m /\ m * b \in Nat
      BY <1>1, <2>1
    <3> QED BY <1>1, <2>1, <3>1
  <2>2. CASE b # x - 1
    <3>1. b + 1 <= x - 1 /\ b + 1 \in Nat /\ x - 1 \in Nat
      BY <1>1, <2>2
    <3>2. \A c, d \in Nat : c <= d => m * c <= d * m
      BY <1>1
    <3>3. m * (b + 1) <= (x - 1) * m
      BY <3>1, <3>2
    <3>4. m * (b + 1) = m * b + m /\ m * b \in Nat /\ (x - 1) * m \in Nat
      BY <1>1
    <3> QED BY <1>1, <2>2, <3>3, <3>4
  <2> QED BY <2>1, <2>2
<1> QED BY <1>2, <1>3 DEF m, x, u

\* The word of 1.0 is a word of exponent Bias and fraction 0.
LEMMA OneIs ==
    /\ M!OneWord = 2^Mantissa * M!Bias
    /\ M!One = 2^Mantissa * 2^(M!Bias - 1)
<1> DEFINE m == 2^Mantissa
           x == 2^Exponent
           c == M!Bias
           o == M!OneWord
<1>1. 0 \in M!Word
  <2>1. 1 + Exponent + Mantissa \in Nat
    BY FormatAssumption
  <2>2. 2^(1 + Exponent + Mantissa) \in Nat \ {0}
    BY <2>1, SubsetCount
  <2>3. \A p \in Nat \ {0} : 0 \in 0..(p - 1)
    OBVIOUS
  <2> QED BY <2>2, <2>3, Zenon DEF M!Word
<1>2. /\ m \in Nat \ {0} /\ x \in Nat \ {0} /\ c \in Nat \ {0} /\ x = 2 * c + 2
      /\ M!SignBit = x * m
  BY <1>1, WordParts
<1>3. o = c * m
  BY DEF M!OneWord
<1>4. /\ M!Biased(o) = (o \div m) % x /\ M!Fraction(o) = o % m
      /\ M!from_bits(o) = IF o >= x * m THEN -M!Magnitude(o) ELSE M!Magnitude(o)
      /\ M!Magnitude(o) = IF M!Biased(o) = 0 THEN M!Fraction(o)
                          ELSE (m + M!Fraction(o)) * 2^(M!Biased(o) - 1)
      /\ M!One = M!from_bits(o)
  BY <1>2 DEF M!Biased, M!Fraction, M!from_bits, M!Magnitude, M!One
<1> HIDE DEF m, x, c, o
<1>5. o \in Nat /\ o = m * c + 0 /\ 0 \in 0..(m - 1)
  BY <1>2, <1>3
<1>6. o % m = 0 /\ o \div m = c
  BY <1>2, <1>5, ModUnique
<1>7. c % x = c
  BY <1>2
<1>8. ~(o >= x * m)
  <2>1. \A d, e \in Nat : d < e => d * m < e * m
    BY <1>2
  <2>2. c < x
    BY <1>2
  <2>3. c * m < x * m
    BY <1>2, <2>1, <2>2
  <2>4. x * m \in Nat
    BY <1>2
  <2> QED BY <1>3, <1>5, <2>3, <2>4
<1>9. M!Biased(o) = c /\ M!Fraction(o) = 0 /\ m + 0 = m
  BY <1>2, <1>4, <1>6, <1>7
<1>10. c # 0
  BY <1>2
<1>11. M!Magnitude(o) = m * 2^(c - 1)
  BY <1>4, <1>9, <1>10, Zenon
<1>12. M!One = M!Magnitude(o)
  BY <1>4, <1>8, Zenon
<1>13. o = m * c
  BY <1>2, <1>3
<1> QED BY <1>11, <1>12, <1>13, Zenon DEF m, c, o

\* The absolute values are in the order of the words without their signs.
LEMMA OneBounds ==
    ASSUME NEW w \in M!Word
    PROVE  /\ M!Magnitude(w) \in Nat /\ M!One \in Nat
           /\ M!Magnitude(w) <= M!One <=> M!Unsigned(w) <= M!OneWord
<1> DEFINE m == 2^Mantissa
           c == M!Bias
           b == M!Biased(w)
           r == M!Fraction(w)
           u == M!Unsigned(w)
           p == 2^(c - 1)
           g == M!Magnitude(w)
           e == 2^(b - 1)
<1>1. /\ m \in Nat \ {0} /\ c \in Nat \ {0} /\ b \in Nat /\ r \in 0..(m - 1)
      /\ u = m * b + r
  BY WordParts
<1>2. M!OneWord = m * c /\ M!One = m * p
  BY OneIs
<1>3. g = IF b = 0 THEN r ELSE (m + r) * e
  BY DEF M!Magnitude
<1> HIDE DEF m, c, b, r, u, g
<1>4. p \in Nat \ {0}
  <2>1. c - 1 \in Nat
    BY <1>1
  <2> QED BY <2>1, SubsetCount
<1>5. ASSUME b # 0 PROVE e \in Nat \ {0} /\ 2^b = 2 * e
  <2>1. b - 1 \in Nat /\ (b - 1) + 1 = b
    BY <1>1, <1>5
  <2> QED BY <2>1, SubsetCount, PowerDoubles
<1>6. \A i, j \in Nat : i <= j => m * i <= m * j
  BY <1>1
<1>7. m * p \in Nat /\ m * c \in Nat /\ m * b \in Nat /\ m * p >= m
  BY <1>1, <1>4
<1>8. CASE b = 0
  <2>1. m * c >= m /\ m * b = 0
    BY <1>1, <1>8
  <2> QED BY <1>1, <1>2, <1>3, <1>7, <1>8, <2>1 DEF u, g
<1>9. CASE b # 0 /\ b < c
  <2>1. 2^b <= p /\ 2^b = 2 * e
    <3>1. b \in Nat /\ c - 1 \in Nat /\ b <= c - 1
      BY <1>1, <1>9
    <3> QED BY <1>5, <1>9, <3>1, PowerGrows
  <2>2. m * (2 * e) <= m * p
    BY <1>4, <1>5, <1>6, <1>9, <2>1
  <2>3. (m + r) * e <= m * (2 * e) /\ (m + r) * e \in Nat
    <3>1. \A i, j \in Nat : i <= 2 * j => i * e <= j * (2 * e)
      BY <1>5, <1>9
    <3> QED BY <1>1, <1>5, <1>9, <3>1
  <2>4. m * (b + 1) <= m * c /\ m * (b + 1) = m * b + m
    <3>1. b + 1 <= c /\ b + 1 \in Nat
      BY <1>1, <1>9
    <3> QED BY <1>1, <1>6, <3>1
  <2>5. m * (2 * e) \in Nat
    BY <1>1, <1>5, <1>9
  <2>6. u <= m * c
    BY <1>1, <1>7, <2>4
  <2>7. g <= m * p /\ g \in Nat
    BY <1>3, <1>7, <1>9, <2>2, <2>3, <2>5
  <2> QED BY <1>2, <1>7, <2>6, <2>7 DEF u, g
<1>10. CASE b = c
  <2>1. e = p /\ b # 0
    BY <1>1, <1>10
  <2>2. (m + r) * p = m * p + r * p /\ r * p \in Nat /\ r * p >= r
    BY <1>1, <1>4
  <2>3. r = 0 => r * p = 0
    BY <1>4
  <2>4. g = m * p + r * p
    BY <1>3, <2>1, <2>2
  <2>5. u = m * c + r
    BY <1>1, <1>10
  <2> QED BY <1>1, <1>2, <1>7, <2>2, <2>3, <2>4, <2>5 DEF u, g
<1>11. CASE b > c
  <2>1. 2 * p <= e
    <3>1. c \in Nat /\ b - 1 \in Nat /\ c <= b - 1 /\ c - 1 \in Nat /\ (c - 1) + 1 = c
      BY <1>1, <1>11
    <3>2. 2^c = 2 * p
      BY <3>1, PowerDoubles
    <3>3. 2^c <= e
      BY <3>1, PowerGrows
    <3> QED BY <3>2, <3>3
  <2>2. e \in Nat /\ b # 0
    BY <1>1, <1>5, <1>11
  <2>3. m * (2 * p) <= m * e /\ m * e \in Nat
    BY <1>1, <1>4, <1>6, <2>1, <2>2
  <2>4. (m + r) * e = m * e + r * e /\ r * e \in Nat
    BY <1>1, <2>2
  <2>5. m * (2 * p) = m * p + m * p
    BY <1>1, <1>4
  <2>6. m * (c + 1) <= m * b /\ m * (c + 1) = m * c + m
    <3>1. c + 1 <= b /\ c + 1 \in Nat
      BY <1>1, <1>11
    <3> QED BY <1>1, <1>6, <3>1
  <2>7. g \in Nat /\ g > m * p
    BY <1>1, <1>3, <1>7, <2>2, <2>3, <2>4, <2>5
  <2>8. u > m * c
    BY <1>1, <1>7, <2>6
  <2> QED BY <1>1, <1>2, <1>7, <2>7, <2>8 DEF u, g
<1> QED BY <1>1, <1>8, <1>9, <1>10, <1>11

\* Comparing the values of a finite word with -1.0 and 1.0 is comparing the words.
LEMMA CosineWords ==
    ASSUME NEW w \in M!Word
    PROVE  /\ M!is_finite(w) /\ M!cosine_in_range(w) <=> M!Unsigned(w) <= M!OneWord
<1> DEFINE g == M!Magnitude(w)
           o == M!One
           v == M!from_bits(w)
<1>1. g \in Nat /\ o \in Nat /\ (g <= o <=> M!Unsigned(w) <= M!OneWord)
  BY OneBounds
<1>2. v = g \/ v = -g
  BY DEF M!from_bits
<1>3. M!cosine_in_range(w) <=> -o <= v /\ v <= o
  BY DEF M!cosine_in_range
<1>4. M!cosine_in_range(w) <=> M!Unsigned(w) <= M!OneWord
  <2> HIDE DEF g, o, v
  <2> QED BY <1>1, <1>2, <1>3
<1>5. M!Unsigned(w) <= M!OneWord => M!Unsigned(w) < (2^Exponent - 1) * 2^Mantissa
  <2> DEFINE m == 2^Mantissa
             c == M!Bias
             u == M!Unsigned(w)
  <2>1. m \in Nat \ {0} /\ c \in Nat \ {0} /\ 2^Exponent = 2 * c + 2 /\ u \in Int
    <3>1. /\ m \in Nat \ {0} /\ c \in Nat \ {0} /\ 2^Exponent = 2 * c + 2
          /\ M!Biased(w) \in Int /\ M!Fraction(w) \in Int
          /\ u = m * M!Biased(w) + M!Fraction(w)
      BY WordParts
    <3> HIDE DEF m, c, u
    <3> QED BY <3>1
  <2>2. M!OneWord = m * c
    BY OneIs
  <2> HIDE DEF m, c, u
  <2>3. m * c < (2 * c + 2 - 1) * m /\ m * c \in Int /\ (2 * c + 2 - 1) * m \in Int
    <3>1. (2 * c + 2 - 1) * m = m * c + m * c + m /\ m * c \in Nat
      BY <2>1
    <3> QED BY <2>1, <3>1
  <2>4. u <= m * c => u < (2 * c + 2 - 1) * m
    BY <2>1, <2>3
  <2> QED BY <2>1, <2>2, <2>4 DEF m, u
<1> QED BY <1>4, <1>5, FiniteWords


----------------------------------------------------------------------------
(* Payloads of MRI receipts *)

\* All of two sequences of checks.
LEMMA AllOfTwo ==
    ASSUME NEW s \in Seq(BOOLEAN), NEW t \in Seq(BOOLEAN)
    PROVE  /\ s \o t \in Seq(BOOLEAN)
           /\ Len(s \o t) = Len(s) + Len(t)
           /\ (\A n \in 1..Len(s \o t) : (s \o t)[n])
                 <=> (\A n \in 1..Len(s) : s[n]) /\ (\A n \in 1..Len(t) : t[n])
<1>1. s \o t \in Seq(BOOLEAN) /\ Len(s \o t) = Len(s) + Len(t)
  OBVIOUS
<1>2. \A n \in 1..Len(s) : (s \o t)[n] = s[n] /\ n \in 1..Len(s \o t)
  OBVIOUS
<1>3. \A n \in 1..Len(t) : (s \o t)[Len(s) + n] = t[n] /\ Len(s) + n \in 1..Len(s \o t)
  OBVIOUS
<1>4. \A n \in 1..Len(s \o t) : n \in 1..Len(s) \/ \E k \in 1..Len(t) : n = Len(s) + k
  <2> SUFFICES ASSUME NEW n \in 1..Len(s \o t), n \notin 1..Len(s)
               PROVE  \E k \in 1..Len(t) : n = Len(s) + k
    OBVIOUS
  <2>1. n - Len(s) \in 1..Len(t) /\ n = Len(s) + (n - Len(s))
    BY <1>1
  <2> QED BY <2>1
<1>5. ASSUME \A n \in 1..Len(s \o t) : (s \o t)[n]
      PROVE  (\A n \in 1..Len(s) : s[n]) /\ (\A n \in 1..Len(t) : t[n])
  BY <1>2, <1>3, <1>5
<1>6. ASSUME \A n \in 1..Len(s) : s[n], \A n \in 1..Len(t) : t[n], NEW n \in 1..Len(s \o t)
      PROVE  (s \o t)[n]
  BY <1>2, <1>3, <1>4, <1>6
<1> QED BY <1>1, <1>5, <1>6

LEMMA BatchMeans ==
    ASSUME NEW p, M!IsMriBatchPayload(p), p.kind = "batch"
    PROVE  /\ M!Checks(p) \in Seq(BOOLEAN)
           /\ (\A n \in 1..Len(M!Checks(p)) : M!Checks(p)[n]) <=> M!PayloadAcceptable(p)
<1> DEFINE k == Len(M!MriBatchFields)
           v(n) == p.vector[M!MriBatchFields[n]]
           b == p.batch_len
           lengths == {v(n) : n \in 1..k} \ {NoField}
<1>1. k \in Nat
  BY DEF M!MriBatchFields
<1>2. M!Checks(p) = [n \in 1..k |-> M!check_vector_field(b, v(n))]
  BY DEF M!Checks
<1>3. \A n \in 1..k : M!check_vector_field(b, v(n)) <=> (v(n) # NoField => b # NoField /\ v(n) = b)
  BY DEF M!check_vector_field
<1>4. \A n \in 1..k : M!check_vector_field(b, v(n)) \in BOOLEAN
  BY DEF M!check_vector_field
<1>5. M!PayloadAcceptable(p) <=> (lengths # {} => b # NoField /\ lengths = {b})
  BY DEF M!PayloadAcceptable, M!BatchAcceptable
<1> HIDE DEF k, v, b
<1>6. M!Checks(p) \in Seq(BOOLEAN) /\ Len(M!Checks(p)) = k
  BY <1>1, <1>2, <1>4
<1>7. (\A n \in 1..k : M!Checks(p)[n])
         <=> \A n \in 1..k : v(n) # NoField => b # NoField /\ v(n) = b
  BY <1>2, <1>3
<1>8. (lengths # {} => b # NoField /\ lengths = {b})
         <=> \A n \in 1..k : v(n) # NoField => b # NoField /\ v(n) = b
  BY Zenon
<1> QED BY <1>5, <1>6, <1>7, <1>8

LEMMA GradientMeans ==
    ASSUME NEW p, M!IsGradientCouplingPayload(p), p.kind # "batch"
    PROVE  /\ M!Checks(p) \in Seq(BOOLEAN)
           /\ (\A n \in 1..Len(M!Checks(p)) : M!Checks(p)[n]) <=> M!PayloadAcceptable(p)
<1> DEFINE k == Len(M!GradientFields)
           v(n) == p.vector[M!GradientFields[n]]
           s1 == <<p.schema_ok, p.num_layers # 0>>
           s2 == [n \in 1..k |-> M!check_fixed_vector(p.num_layers, v(n))]
           s3 == [n \in 1..k |-> M!check_all_finite(v(n))]
           s4 == <<M!is_finite(p.profile_cosine),
                   M!is_finite(p.profile_cosine) /\ M!cosine_in_range(p.profile_cosine)>>
           All(s) == \A n \in 1..Len(s) : s[n]
           Bounded(w) == M!Unsigned(w) < (2^Exponent - 1) * 2^Mantissa
<1>1. M!Checks(p) = s1 \o s2 \o s3 \o s4
  BY DEF M!Checks
<1>2. k \in Nat
  BY DEF M!GradientFields
<1>3. /\ p.schema_ok \in BOOLEAN /\ p.num_layers \in Nat /\ p.profile_cosine \in M!Word
      /\ \A n \in 1..k : v(n) \in Seq(M!Word)
  BY DEF M!IsGradientCouplingPayload
<1>4. \A n \in 1..k : M!check_fixed_vector(p.num_layers, v(n)) <=> DOMAIN v(n) = 1..p.num_layers
  <2> SUFFICES ASSUME NEW n \in 1..k
               PROVE  M!check_fixed_vector(p.num_layers, v(n)) <=> DOMAIN v(n) = 1..p.num_layers
    OBVIOUS
  <2> HIDE DEF k, v
  <2>1. v(n) \in Seq(M!Word) /\ p.num_layers \in Nat
    BY <1>3
  <2>2. Len(v(n)) \in Nat /\ DOMAIN v(n) = 1..Len(v(n))
    BY <2>1
  <2>3. \A i, j \in Nat : 1..i = 1..j => i = j
    <3> SUFFICES ASSUME NEW i \in Nat, NEW j \in Nat, 1..i = 1..j PROVE i = j
      OBVIOUS
    <3>1. i \in 1..i \/ i = 0
      OBVIOUS
    <3>2. j \in 1..j \/ j = 0
      OBVIOUS
    <3> QED BY <3>1, <3>2
  <2>4. M!check_fixed_vector(p.num_layers, v(n)) <=> Len(v(n)) = p.num_layers
    BY DEF M!check_fixed_vector
  <2> QED BY <2>1, <2>2, <2>3, <2>4
<1>5. \A n \in 1..k :
         M!check_all_finite(v(n)) <=> \A layer \in 1..Len(v(n)) : Bounded(v(n)[layer])
  <2> SUFFICES ASSUME NEW n \in 1..k
               PROVE  M!check_all_finite(v(n))
                         <=> \A layer \in 1..Len(v(n)) : Bounded(v(n)[layer])
    OBVIOUS
  <2> HIDE DEF k, v
  <2>1. \A layer \in 1..Len(v(n)) : v(n)[layer] \in M!Word
    BY <1>3
  <2>2. \A layer \in 1..Len(v(n)) : M!is_finite(v(n)[layer]) <=> Bounded(v(n)[layer])
    BY <2>1, FiniteWords
  <2> HIDE DEF Bounded
  <2> QED BY <2>2 DEF M!check_all_finite
<1>6. \A n \in 1..k : v(n) \in Seq(M!Word) /\ (Len(v(n)) = p.num_layers <=> DOMAIN v(n) = 1..p.num_layers)
  BY <1>3, <1>4 DEF M!check_fixed_vector
<1>7. M!is_finite(p.profile_cosine) /\ M!cosine_in_range(p.profile_cosine)
         <=> M!Unsigned(p.profile_cosine) <= M!OneWord
  BY <1>3, CosineWords
<1>8. M!PayloadAcceptable(p) <=>
         /\ p.schema_ok
         /\ p.num_layers > 0
         /\ \A n \in 1..k : /\ DOMAIN v(n) = 1..p.num_layers
                            /\ \A layer \in 1..p.num_layers : Bounded(v(n)[layer])
         /\ M!Unsigned(p.profile_cosine) <= M!OneWord
  BY DEF M!PayloadAcceptable, M!GradientAcceptable
<1>9. s1 \in Seq(BOOLEAN) /\ s4 \in Seq(BOOLEAN)
  <2>1. \A w : M!is_finite(w) \in BOOLEAN
    BY DEF M!is_finite
  <2>2. \A w : M!cosine_in_range(w) \in BOOLEAN
    BY DEF M!cosine_in_range
  <2> QED BY <1>3, <2>1, <2>2
<1>10. /\ All(s1) <=> p.schema_ok /\ p.num_layers # 0
       /\ All(s4) <=> M!Unsigned(p.profile_cosine) <= M!OneWord
  <2>1. Len(s1) = 2 /\ s1[1] = p.schema_ok /\ s1[2] = (p.num_layers # 0)
    OBVIOUS
  <2>2. Len(s4) = 2 /\ s4[1] = M!is_finite(p.profile_cosine)
        /\ s4[2] = (M!is_finite(p.profile_cosine) /\ M!cosine_in_range(p.profile_cosine))
    OBVIOUS
  <2>3. 1..2 = {1, 2}
    OBVIOUS
  <2> HIDE DEF s1, s4
  <2> QED BY <1>7, <2>1, <2>2, <2>3
<1> HIDE DEF k, v
<1>11. s2 \in Seq(BOOLEAN) /\ Len(s2) = k
  BY <1>2 DEF M!check_fixed_vector
<1>12. s3 \in Seq(BOOLEAN) /\ Len(s3) = k
  BY <1>2 DEF M!check_all_finite
<1>13. All(s2) <=> \A n \in 1..k : M!check_fixed_vector(p.num_layers, v(n))
  BY <1>11
<1>14. All(s3) <=> \A n \in 1..k : M!check_all_finite(v(n))
  BY <1>12
<1> HIDE DEF s1, s2, s3, s4
<1>15. s1 \o s2 \in Seq(BOOLEAN) /\ (All(s1 \o s2) <=> All(s1) /\ All(s2))
  BY <1>9, <1>11, AllOfTwo
<1>16. s1 \o s2 \o s3 \in Seq(BOOLEAN) /\ (All(s1 \o s2 \o s3) <=> All(s1 \o s2) /\ All(s3))
  BY <1>12, <1>15, AllOfTwo
<1>17. /\ s1 \o s2 \o s3 \o s4 \in Seq(BOOLEAN)
       /\ All(s1 \o s2 \o s3 \o s4) <=> All(s1 \o s2 \o s3) /\ All(s4)
  BY <1>9, <1>16, AllOfTwo
<1> HIDE DEF Bounded
<1>18. All(s2) /\ All(s3) <=>
          \A n \in 1..k : /\ DOMAIN v(n) = 1..p.num_layers
                          /\ \A layer \in 1..p.num_layers : Bounded(v(n)[layer])
  BY <1>4, <1>5, <1>6, <1>13, <1>14
<1>19. p.num_layers # 0 <=> p.num_layers > 0
  BY <1>3
<1>20. All(M!Checks(p)) <=> M!PayloadAcceptable(p)
  <2> HIDE DEF All
  <2> QED BY <1>1, <1>8, <1>10, <1>15, <1>16, <1>17, <1>18, <1>19
<1> QED BY <1>1, <1>17, <1>20

\* The checks are those of an acceptable payload.
LEMMA PayloadMeans ==
    ASSUME M!MriInv
    PROVE  /\ M!Checks(payload) \in Seq(BOOLEAN)
           /\ (\A n \in 1..Len(M!Checks(payload)) : M!Checks(payload)[n])
                 <=> M!PayloadAcceptable(payload)
<1>1. CASE payload.kind = "batch" /\ M!IsMriBatchPayload(payload)
  BY <1>1, BatchMeans
<1>2. CASE payload.kind = "gradient_coupling" /\ M!IsGradientCouplingPayload(payload)
  <2>1. payload.kind # "batch"
    BY <1>2
  <2> QED BY <1>2, <2>1, GradientMeans
<1> QED BY <1>1, <1>2 DEF M!MriInv

LEMMA MriVerdict == M!MriInv => M!PayloadVerdict
<1> SUFFICES ASSUME M!MriInv PROVE M!PayloadVerdict
  OBVIOUS
<1> DEFINE c == M!Checks(payload)
<1>1. c \in Seq(BOOLEAN) /\ ((\A n \in 1..Len(c) : c[n]) <=> M!PayloadAcceptable(payload))
  BY PayloadMeans
<1>2. /\ mri_check \in 1..(Len(c) + 1)
      /\ \A n \in 1..(mri_check - 1) : c[n]
      /\ mri_status \in {"pending", "Valid", "Invalid"}
      /\ mri_status = "Valid" => mri_check = Len(c) + 1
      /\ mri_status = "Invalid" => mri_check <= Len(c) /\ ~c[mri_check]
  BY DEF M!MriInv
<1> HIDE DEF c
<1>3. CASE mri_status = "Valid"
  <2>1. Len(c) \in Nat
    BY <1>1
  <2>2. mri_check - 1 = Len(c)
    BY <1>2, <1>3, <2>1
  <2> QED BY <1>1, <1>2, <1>3, <2>2 DEF M!PayloadVerdict
<1>4. CASE mri_status = "Invalid"
  <2>1. mri_check \in 1..Len(c)
    BY <1>1, <1>2, <1>4
  <2> QED BY <1>1, <1>2, <1>4, <2>1 DEF M!PayloadVerdict
<1> QED BY <1>2, <1>3, <1>4 DEF M!PayloadVerdict

LEMMA MriStep == ASSUME M!MriInv, M!MriNext PROVE M!MriInv' /\ UNCHANGED payload
<1> DEFINE c == M!Checks(payload)
<1>1. c \in Seq(BOOLEAN)
  BY PayloadMeans
<1>2. UNCHANGED payload /\ mri_status = "pending"
  BY DEF M!MriNext, M!PassCheck, M!FailCheck, M!ReturnOk
<1>3. c' = c
  BY <1>2 DEF M!Checks
<1>4. \/ /\ mri_check <= Len(c) /\ c[mri_check]
         /\ mri_check' = mri_check + 1 /\ UNCHANGED mri_status
      \/ /\ mri_check <= Len(c) /\ ~c[mri_check]
         /\ mri_status' = "Invalid" /\ UNCHANGED mri_check
      \/ mri_check > Len(c) /\ mri_status' = "Valid" /\ UNCHANGED mri_check
  BY DEF M!MriNext, M!PassCheck, M!FailCheck, M!ReturnOk
<1>5. /\ mri_check \in 1..(Len(c) + 1)
      /\ \A n \in 1..(mri_check - 1) : c[n]
  BY DEF M!MriInv
<1>6. \/ payload'.kind = "batch" /\ M!IsMriBatchPayload(payload')
      \/ payload'.kind = "gradient_coupling" /\ M!IsGradientCouplingPayload(payload')
  BY <1>2 DEF M!MriInv
<1>7. M!MriInv' <=>
      /\ \/ payload'.kind = "batch" /\ M!IsMriBatchPayload(payload')
         \/ payload'.kind = "gradient_coupling" /\ M!IsGradientCouplingPayload(payload')
      /\ mri_check' \in 1..(Len(c)' + 1)
      /\ \A n \in 1..(mri_check' - 1) : c'[n]
      /\ mri_status' \in {"pending", "Valid", "Invalid"}
      /\ mri_status' = "Valid" => mri_check' = Len(c)' + 1
      /\ mri_status' = "Invalid" => mri_check' <= Len(c)' /\ ~c'[mri_check']
  BY DEF M!MriInv
<1> HIDE DEF c
<1>8. Len(c) \in Nat
  BY <1>1
<1>9. CASE /\ mri_check <= Len(c) /\ c[mri_check]
           /\ mri_check' = mri_check + 1 /\ UNCHANGED mri_status
  <2>1. \A n \in 1..(mri_check' - 1) : n \in 1..(mri_check - 1) \/ n = mri_check
    BY <1>5, <1>8, <1>9
  <2> QED BY <1>2, <1>3, <1>5, <1>6, <1>7, <1>8, <1>9, <2>1
<1>10. CASE /\ mri_check <= Len(c) /\ ~c[mri_check]
            /\ mri_status' = "Invalid" /\ UNCHANGED mri_check
  BY <1>2, <1>3, <1>5, <1>6, <1>7, <1>8, <1>10
<1>11. CASE mri_check > Len(c) /\ mri_status' = "Valid" /\ UNCHANGED mri_check
  BY <1>2, <1>3, <1>5, <1>6, <1>7, <1>8, <1>11
<1> QED BY <1>2, <1>4, <1>9, <1>10, <1>11

LEMMA MriKept == M!MriInv /\ UNCHANGED payloadVars => M!MriInv'
BY DEF M!MriInv, M!Checks, payloadVars

----------------------------------------------------------------------------
(* Arguments *)

\* A flag takes two arguments: the places of the flags are every other argument.
LEMMA PlacesGrow ==
    ASSUME NEW a, NEW k \in Nat, k >= 1 + Operands(a[1]), (k - Operands(a[1])) % 2 = 1
    PROVE  /\ FlagPlaces(a, k + 2) = FlagPlaces(a, k) \union {k + 1}
           /\ FlagPlaces(a, k) \subseteq 1..k
<1> DEFINE o == Operands(a[1])
<1>1. o \in {1, 2} /\ k >= 1 + o /\ (k - o) % 2 = 1
  BY DEF Operands
<1>2. \A j : FlagPlaces(a, j) = {n \in (2 + o)..j : (n - o) % 2 = 0}
  BY DEF FlagPlaces
<1> HIDE DEF o
<1>3. \A n \in (2 + o)..(k + 2) : (n - o) % 2 = 0 <=> (n \in (2 + o)..k /\ (n - o) % 2 = 0) \/ n = k + 1
  BY <1>1
<1>4. k + 1 \in (2 + o)..(k + 2)
  BY <1>1
<1>5. \A n \in (2 + o)..k : n \in (2 + o)..(k + 2) /\ n \in 1..k
  BY <1>1
<1> QED BY <1>2, <1>3, <1>4, <1>5

\* The flag that is taken next is now the last of its name, and no other changes.
LEMMA LastGrows ==
    ASSUME NEW a, NEW k \in Nat, k >= 1 + Operands(a[1]), (k - Operands(a[1])) % 2 = 1
    PROVE  /\ LastAmong(a, a[k + 1], k + 2) = a[k + 2]
           /\ \A flag : flag # a[k + 1] => LastAmong(a, flag, k + 2) = LastAmong(a, flag, k)
<1>1. /\ FlagPlaces(a, k + 2) = FlagPlaces(a, k) \union {k + 1}
      /\ FlagPlaces(a, k) \subseteq 1..k
  BY PlacesGrow
<1>2. LastAmong(a, a[k + 1], k + 2) = a[k + 2]
  <2> DEFINE S == FlagAt(a, a[k + 1], k + 2)
             last == CHOOSE n \in S : \A m \in S : m <= n
  <2>1. k + 1 \in S /\ S \subseteq 1..(k + 1)
    BY <1>1 DEF FlagAt
  <2> HIDE DEF S
  <2>2. \A m \in S : m <= k + 1
    BY <2>1
  <2>3. last \in S /\ \A m \in S : m <= last
    BY <2>1, <2>2
  <2>5. LastAmong(a, a[k + 1], k + 2) = a[last + 1]
    BY <2>1 DEF LastAmong, S
  <2> HIDE DEF last
  <2>4. last = k + 1
    BY <2>1, <2>2, <2>3
  <2>6. last + 1 = k + 2
    BY <2>4
  <2> QED BY <2>5, <2>6
<1>3. ASSUME NEW flag, flag # a[k + 1]
      PROVE  LastAmong(a, flag, k + 2) = LastAmong(a, flag, k)
  <2>1. FlagAt(a, flag, k + 2) = FlagAt(a, flag, k)
    BY <1>1, <1>3 DEF FlagAt
  <2> DEFINE Picked(S) == LET last == CHOOSE n \in S : \A m \in S : m <= n
                          IN IF S = {} THEN Omitted ELSE a[last + 1]
  <2>2. /\ LastAmong(a, flag, k + 2) = Picked(FlagAt(a, flag, k + 2))
        /\ LastAmong(a, flag, k) = Picked(FlagAt(a, flag, k))
    BY Zenon DEF LastAmong
  <2> HIDE DEF Picked
  <2> QED BY <2>1, <2>2
<1> QED BY <1>2, <1>3

\* Before the first flag none was given.
LEMMA NoFlagYet ==
    ASSUME NEW a
    PROVE  /\ FlagsWellFormed(a, 1 + Operands(a[1]))
           /\ \A flag : LastAmong(a, flag, 1 + Operands(a[1])) = Omitted
<1>1. FlagPlaces(a, 1 + Operands(a[1])) = {}
  <2>1. Operands(a[1]) \in Nat
    BY DEF Operands
  <2>2. \A n \in Int : ~(2 + Operands(a[1]) <= n /\ n <= 1 + Operands(a[1]))
    BY <2>1
  <2> QED BY <2>1, <2>2 DEF FlagPlaces
<1> QED BY <1>1 DEF FlagsWellFormed, LastAmong, FlagAt

\* The argument of a flag is an argument.
LEMMA LastIsArgument ==
    ASSUME NEW a \in Seq(Argument), WellFormed(a), NEW flag, FlagAt(a, flag, Len(a)) # {}
    PROVE  LastGiven(a, flag) \in Argument
<1> DEFINE S == FlagAt(a, flag, Len(a))
           o == Operands(a[1])
           Back == {Len(a) - n : n \in S}
           last == CHOOSE n \in S : \A m \in S : m <= n
<1>1. Len(a) \in Nat /\ o \in {1, 2} /\ (Len(a) - o) % 2 = 1
  <2>1. o \in {1, 2}
    BY DEF Operands
  <2>2. (Len(a) - o) % 2 = 1
    BY DEF WellFormed
  <2> QED BY <2>1, <2>2
<1>2. S \subseteq {n \in (2 + o)..Len(a) : (n - o) % 2 = 0} /\ S # {}
  BY DEF FlagAt, FlagPlaces
<1>3. LastGiven(a, flag) = a[last + 1]
  BY <1>2, Zenon DEF LastGiven, LastAmong
<1> HIDE DEF S, o
<1>4. last \in S
  <2>1. Back \subseteq Nat /\ Back # {}
    <3>1. \A n \in S : n \in Int /\ n <= Len(a)
      BY <1>1, <1>2
    <3>2. \A n \in S : Len(a) - n \in Nat
      BY <1>1, <3>1
    <3>3. Back # {}
      BY <1>2
    <3> QED BY <3>2, <3>3
  <2>2. PICK b \in Back : \A c \in Back : b <= c
    BY <2>1, LeastNumber
  <2>3. PICK n \in S : b = Len(a) - n
    OBVIOUS
  <2>4. \A m \in S : Len(a) - n <= Len(a) - m
    BY <2>2, <2>3
  <2>5. \A m \in S : m <= n
    BY <1>1, <1>2, <2>4
  <2> QED BY <2>5
<1> HIDE DEF last
<1>5. last + 1 \in 1..Len(a)
  BY <1>1, <1>2, <1>4
<1> QED BY <1>3, <1>5

\* Arguments that are well formed are of a call the program makes.
LEMMA WellFormedIsCallable ==
    ASSUME NEW a \in Seq(Argument), WellFormed(a)
    PROVE  Callable(a)
<1>1. Len(a) \in Nat /\ Len(a) >= 2 /\ a[1] \in Commands /\ Len(a) >= 1 + Operands(a[1])
  BY DEF WellFormed
<1>2. ASSUME a[1] \in PackCommands \union {"external"} PROVE Len(a) = 2
  <2>1. Operands(a[1]) = 1 /\ AllowedFlags(a[1]) = {}
    BY <1>2 DEF Operands, AllowedFlags, PackCommands
  <2>2. (Len(a) - 1) % 2 = 1
    BY <2>1 DEF WellFormed
  <2>3. 3 \notin FlagPlaces(a, Len(a))
    BY <2>1 DEF WellFormed, FlagsWellFormed
  <2>4. ~(Len(a) >= 3)
    BY <1>1, <2>1, <2>3 DEF FlagPlaces
  <2>5. \A l \in Nat : l >= 2 /\ ~(l >= 3) => l = 2
    OBVIOUS
  <2> QED BY <1>1, <2>4, <2>5, Zenon
<1> QED BY <1>1, <1>2 DEF Callable

\* Only a signed receipt is called with a trust configuration.
LEMMA TrustIsForSigned ==
    ASSUME NEW a, WellFormed(a), a[1] # "signed"
    PROVE  LastGiven(a, "--trust") = Omitted
<1>1. "--trust" \notin AllowedFlags(a[1])
  BY DEF AllowedFlags
<1>2. FlagAt(a, "--trust", Len(a)) = {}
  BY <1>1 DEF FlagAt, WellFormed, FlagsWellFormed
<1> QED BY <1>2 DEF LastGiven, LastAmong

\* The limits the flags give are the bounds on the input.
LEMMA BoundsAreLimits ==
    ASSUME args \in Seq(Argument), WellFormed(args), FlagsTaken(Len(args))
    PROVE  /\ trust = LastGiven(args, "--trust")
           /\ Given(limits.max_bytes, DefaultBytes) = Bound(args, "--max-bytes", DefaultBytes)
           /\ Given(limits.max_chain_length, DefaultChainLength)
                 = Bound(args, "--max-chain-length", DefaultChainLength)
<1>1. ASSUME NEW flag, NEW d
      PROVE  Given(NumberOf(LastGiven(args, flag)), d) = Bound(args, flag, d)
  <2>1. CASE LastGiven(args, flag) = Omitted
    BY <2>1 DEF Given, NumberOf, Bound
  <2>2. CASE LastGiven(args, flag) # Omitted
    <3>1. FlagAt(args, flag, Len(args)) # {}
      BY <2>2 DEF LastGiven, LastAmong
    <3>2. Value(LastGiven(args, flag)) # Omitted
      BY <3>1, LastIsArgument, ValueAssumption, OmittedAssumption
    <3> QED BY <2>2, <3>2 DEF Given, NumberOf, Bound
  <2> QED BY <2>1, <2>2
<1>2. /\ limits.max_bytes = NumberOf(LastGiven(args, "--max-bytes"))
      /\ limits.max_chain_length = NumberOf(LastGiven(args, "--max-chain-length"))
      /\ trust = LastGiven(args, "--trust")
  BY DEF FlagsTaken, LastGiven
<1> QED BY <1>1, <1>2

(* Steps *)

\* What a caller asks.
Asked == <<frontend, args, world, receipt, bundle, request, payload>>

LEMMA AskedStays == FrontNext => UNCHANGED Asked
<1>1. R!ReceiptNext => UNCHANGED receipt
  BY DEF R!ReceiptNext, R!AdmitReceipt, R!ValidateSchema, R!Deserialize, R!VerifyVersion,
         R!VerifyAlgorithms, R!VerifyEventHash
<1>2. B!Next => UNCHANGED bundle
  BY DEF B!Next, B!ParseBundle, B!VerifyEnvelope, B!CheckSidecar, B!Conclude
<1>3. M!MriNext => UNCHANGED payload
  BY DEF M!MriNext, M!PassCheck, M!FailCheck, M!ReturnOk
<1>4. Dispatch \/ ParseFlag \/ ReadFiles \/ EmitResult => UNCHANGED <<args, world, receipt, bundle, request>>
  BY DEF Dispatch, ParseFlag, ReadFiles, EmitResult, inputVars, verifierVars, receiptVars,
         bundleVars, externalVars
<1>5. RunVerifier => UNCHANGED <<args, world, receipt, bundle, request>>
  BY <1>1, <1>2, RequestFixed
     DEF RunVerifier, Verify, VerifyReceipt, VerifyBundle, VerifyExternal, inputVars,
         verifierVars, receiptVars, bundleVars, externalVars
<1>6. RunProgram => UNCHANGED Asked
  BY <1>4, <1>5 DEF RunProgram, Next, payloadVars, Asked
<1>7. RunCalled => UNCHANGED Asked
  BY <1>5 DEF RunCalled, payloadVars, Asked
<1>8. Call \/ ReturnText \/ ReturnResult => UNCHANGED Asked
  BY DEF Call, ReturnText, ReturnResult, inputVars, verifierVars, receiptVars, bundleVars,
         externalVars, payloadVars, Asked
<1>9. ValidatePayload => UNCHANGED Asked
  BY <1>3 DEF ValidatePayload, inputVars, verifierVars, receiptVars, bundleVars,
         externalVars, payloadVars, Asked
<1> QED BY <1>6, <1>7, <1>8, <1>9 DEF FrontNext

\* The meaning of what is asked depends on nothing else.
LEMMA AskedMeans ==
    ASSUME UNCHANGED Asked
    PROVE  /\ UNCHANGED <<frontend, args, world, receipt, bundle, request, payload, request_of_caller>>
           /\ WellFormed(args') <=> WellFormed(args)
           /\ FilesLoad(request_of_caller)' <=> FilesLoad(request_of_caller)
           /\ CallAcceptable(request_of_caller)' <=> CallAcceptable(request_of_caller)
<1>1. UNCHANGED <<frontend, args, world, receipt, bundle, request, payload>>
  BY DEF Asked
<1>2. UNCHANGED request_of_caller
  BY <1>1 DEF request_of_caller
<1> QED BY <1>1, <1>2

LEMMA DeservedStays ==
    ASSUME UNCHANGED Asked, UNCHANGED <<limits, trust>>
    PROVE  /\ Deserved' <=> Deserved
           /\ \A k : FlagsTaken(k)' <=> FlagsTaken(k)
<1>1. /\ UNCHANGED <<args, world, payload, request_of_caller, limits, trust>>
  BY AskedMeans
<1>2. WithinLimits' <=> WithinLimits
  BY <1>1 DEF WithinLimits
<1> QED BY <1>1, <1>2 DEF Deserved, FlagsTaken

\* The verifiers do not depend on who calls them, nor on the bound on the bytes
\* before it is compared.
LEMMA VerifiersKept ==
    ASSUME FrontInv, UNCHANGED verifierVars, limits' \in LimitArgs,
           receipt_phase = "admit" \/ UNCHANGED limits
    PROVE  /\ R!ReceiptInv' /\ B!ExecutionInv' /\ E!ExternalInv'
           /\ R!TypeOK' /\ B!TypeOK' /\ E!TypeOK'
<1>1. R!ReceiptInv'
  BY ReceiptKept DEF FrontInv, verifierVars
<1>2. B!ExecutionInv' /\ E!ExternalInv'
  BY BundleKept, ExternalKept DEF FrontInv, verifierVars
<1> QED BY <1>1, <1>2 DEF R!ReceiptInv, B!ExecutionInv, E!ExternalInv

LEMMA DispatchKeeps ==
    ASSUME FrontInv, Dispatch, UNCHANGED Asked, UNCHANGED payloadVars, frontend = "program"
    PROVE  FrontInv'
<1>1. /\ phase = "arguments"
      /\ UNCHANGED <<limits, trust, result, output, verifierVars>>
  BY DEF Dispatch
<1>2. UNCHANGED <<frontend, args, world>>
  BY AskedMeans
<1>3. R!ReceiptInv' /\ B!ExecutionInv' /\ E!ExternalInv' /\ R!TypeOK' /\ B!TypeOK' /\ E!TypeOK'
  BY <1>1, VerifiersKept DEF FrontInv, TypeOK
<1>4. M!MriInv'
  BY MriKept DEF FrontInv
<1>5. /\ args \in Seq(Argument) /\ trust = Omitted
      /\ limits = [max_bytes |-> Omitted, max_chain_length |-> Omitted]
      /\ receipt_phase = "admit" /\ result = "none" /\ output = "none" /\ exit = "running"
      /\ limits \in LimitArgs /\ cursor \in 0..Len(args)
  BY <1>1 DEF FrontInv, TypeOK, ArgumentsInv, BeforeInv
<1>6. receipt_phase' = receipt_phase
  BY <1>1 DEF verifierVars, receiptVars
<1>7. CASE exit' = "2" /\ phase' = "exited" /\ UNCHANGED cursor
  <2>1. TypeOK'
    BY <1>1, <1>2, <1>3, <1>5, <1>7 DEF FrontInv, TypeOK
  <2>2. ArgumentsInv' /\ CallInv' /\ BeforeInv' /\ ResultInv' /\ ExitTellsOutput'
    BY <1>1, <1>2, <1>5, <1>7
       DEF FrontInv, ArgumentsInv, CallInv, BeforeInv, ResultInv, ExitTellsOutput
  <2> QED BY <1>2, <1>3, <1>4, <2>1, <2>2 DEF FrontInv
<1>8. CASE /\ Callable(args) /\ cursor' = 1 + Operands(args[1])
           /\ phase' = "flags" /\ UNCHANGED exit
  <2>1. Operands(args[1]) \in {1, 2} /\ Len(args) \in Nat /\ Len(args) >= 1 + Operands(args[1])
    BY <1>5, <1>8 DEF Callable, Operands
  <2>2. cursor' \in 0..Len(args) /\ cursor' \in (1 + Operands(args[1]))..Len(args)
    BY <1>8, <2>1
  <2>3. (cursor' - Operands(args[1])) % 2 = 1
    BY <1>8, <2>1
  <2>4. FlagsWellFormed(args, cursor') /\ FlagsTaken(cursor)'
    <3>1. \A flag : LastAmong(args, flag, cursor') = Omitted
      BY <1>8, NoFlagYet
    <3>2. /\ trust' = LastAmong(args', "--trust", cursor')
          /\ limits' = [max_bytes |-> NumberOf(LastAmong(args', "--max-bytes", cursor')),
                        max_chain_length |->
                           NumberOf(LastAmong(args', "--max-chain-length", cursor'))]
      BY <1>1, <1>2, <1>5, <3>1 DEF NumberOf
    <3> QED BY <1>8, <3>2, NoFlagYet DEF FlagsTaken
  <2>5. TypeOK'
    BY <1>1, <1>2, <1>3, <1>5, <1>8, <2>2 DEF FrontInv, TypeOK
  <2>6. ArgumentsInv'
    BY <1>2, <1>5, <1>8, <2>2, <2>3, <2>4 DEF ArgumentsInv
  <2>7. CallInv' /\ BeforeInv' /\ ResultInv' /\ ExitTellsOutput'
    BY <1>1, <1>2, <1>5, <1>6, <1>8
       DEF FrontInv, CallInv, BeforeInv, ResultInv, ExitTellsOutput
  <2> QED BY <1>2, <1>3, <1>4, <2>5, <2>6, <2>7 DEF FrontInv
<1> QED BY <1>7, <1>8 DEF Dispatch, Exit

\* A flag that is taken is well formed, and its argument is in the limits or the trust.
LEMMA TakenFlag ==
    ASSUME FrontInv, phase = "flags", cursor < Len(args),
           args[cursor + 1] \in AllowedFlags(args[1]), cursor + 2 <= Len(args),
           args[cursor + 1] # "--trust" => Value(args[cursor + 2]) > 0
    PROVE  /\ cursor + 2 \in (1 + Operands(args[1]))..Len(args)
           /\ ((cursor + 2) - Operands(args[1])) % 2 = 1
           /\ FlagsWellFormed(args, cursor + 2)
           /\ args[cursor + 2] \in Argument
           /\ LastAmong(args, args[cursor + 1], cursor + 2) = args[cursor + 2]
           /\ \A flag : flag # args[cursor + 1] =>
                 LastAmong(args, flag, cursor + 2) = LastAmong(args, flag, cursor)
<1> DEFINE o == Operands(args[1])
<1>1. /\ cursor \in (1 + o)..Len(args) /\ (cursor - o) % 2 = 1 /\ FlagsWellFormed(args, cursor)
      /\ args \in Seq(Argument) /\ o \in {1, 2}
  BY DEF FrontInv, ArgumentsInv, Operands
<1>2. cursor \in Nat /\ cursor >= 1 + o /\ (cursor - o) % 2 = 1 /\ Len(args) \in Nat
  <2> HIDE DEF o
  <2> QED BY <1>1
<1>3. /\ FlagPlaces(args, cursor + 2) = FlagPlaces(args, cursor) \union {cursor + 1}
      /\ LastAmong(args, args[cursor + 1], cursor + 2) = args[cursor + 2]
      /\ \A flag : flag # args[cursor + 1] =>
            LastAmong(args, flag, cursor + 2) = LastAmong(args, flag, cursor)
  BY <1>2, PlacesGrow, LastGrows
<1>4. FlagsWellFormed(args, cursor + 2)
  <2>1. cursor + 1 + 1 = cursor + 2
    BY <1>2
  <2> QED BY <1>1, <1>3, <2>1 DEF FlagsWellFormed
<1>5. cursor + 2 \in (1 + o)..Len(args) /\ ((cursor + 2) - o) % 2 = 1 /\ cursor + 2 \in 1..Len(args)
  <2> HIDE DEF o
  <2> QED BY <1>1, <1>2
<1> QED BY <1>1, <1>3, <1>4, <1>5

\* Arguments with a flag that is not taken are not well formed.
LEMMA RefusedFlag ==
    ASSUME FrontInv, phase = "flags", cursor < Len(args),
           ~(/\ args[cursor + 1] \in AllowedFlags(args[1])
             /\ cursor + 2 <= Len(args)
             /\ args[cursor + 1] # "--trust" => Value(args[cursor + 2]) > 0)
    PROVE  ~WellFormed(args)
<1> DEFINE o == Operands(args[1])
<1>1. /\ cursor \in (1 + o)..Len(args) /\ (cursor - o) % 2 = 1
      /\ args \in Seq(Argument) /\ o \in {1, 2}
  BY DEF FrontInv, ArgumentsInv, Operands
<1> HIDE DEF o
<1>2. cursor \in Nat /\ Len(args) \in Nat /\ cursor + 1 + 1 = cursor + 2
  BY <1>1
<1>3. ASSUME WellFormed(args) PROVE FALSE
  <2>1. (Len(args) - o) % 2 = 1 /\ FlagsWellFormed(args, Len(args))
    BY <1>3 DEF WellFormed, o
  <2>2. cursor + 2 <= Len(args)
    BY <1>1, <1>2, <2>1
  <2>3. cursor + 1 \in (2 + o)..Len(args) /\ ((cursor + 1) - o) % 2 = 0
    BY <1>1, <1>2, <2>2
  <2>4. cursor + 1 \in FlagPlaces(args, Len(args))
    <3>1. \A n \in (2 + o)..Len(args) : (n - o) % 2 = 0 => n \in FlagPlaces(args, Len(args))
      BY DEF FlagPlaces, o
    <3> DEFINE n == cursor + 1
    <3>2. n \in (2 + o)..Len(args) /\ (n - o) % 2 = 0
      BY <2>3
    <3> HIDE DEF n
    <3>3. n \in FlagPlaces(args, Len(args))
      BY <3>1, <3>2
    <3> QED BY <3>3 DEF n
  <2> QED BY <1>2, <2>1, <2>2, <2>4 DEF FlagsWellFormed
<1> QED BY <1>3

LEMMA ParseFlagKeeps ==
    ASSUME FrontInv, ParseFlag, UNCHANGED Asked, UNCHANGED payloadVars, frontend = "program"
    PROVE  FrontInv'
<1> DEFINE flag == args[cursor + 1]
           raw == args[cursor + 2]
           taken == /\ flag \in AllowedFlags(args[1])
                    /\ cursor + 2 <= Len(args)
                    /\ flag # "--trust" => Value(raw) > 0
<1>1. /\ phase = "flags" /\ cursor < Len(args)
      /\ UNCHANGED <<result, output, verifierVars>>
      /\ \/ /\ ~taken /\ exit' = "2" /\ phase' = "exited"
            /\ UNCHANGED <<cursor, limits, trust>>
         \/ /\ taken /\ flag = "--trust" /\ trust' = raw /\ cursor' = cursor + 2
            /\ UNCHANGED <<phase, limits, exit>>
         \/ /\ taken /\ flag # "--trust" /\ cursor' = cursor + 2
            /\ limits' = IF flag = "--max-bytes"
                         THEN [limits EXCEPT !.max_bytes = Value(raw)]
                         ELSE [limits EXCEPT !.max_chain_length = Value(raw)]
            /\ UNCHANGED <<phase, trust, exit>>
  BY DEF ParseFlag, Exit
<1>2. UNCHANGED <<frontend, args, world>>
  BY AskedMeans
<1>3. /\ args \in Seq(Argument) /\ Callable(args) /\ limits \in LimitArgs
      /\ receipt_phase = "admit" /\ result = "none" /\ output = "none" /\ exit = "running"
      /\ FlagsTaken(cursor)
  BY <1>1 DEF FrontInv, TypeOK, ArgumentsInv, BeforeInv
<1>4. receipt_phase' = receipt_phase
  BY <1>1 DEF verifierVars, receiptVars
<1>5. M!MriInv'
  BY MriKept DEF FrontInv
<1>6. ASSUME limits' \in LimitArgs
      PROVE  R!ReceiptInv' /\ B!ExecutionInv' /\ E!ExternalInv' /\ R!TypeOK' /\ B!TypeOK' /\ E!TypeOK'
  BY <1>1, <1>3, <1>6, VerifiersKept
<1>7. CASE /\ ~taken /\ exit' = "2" /\ phase' = "exited"
           /\ UNCHANGED <<cursor, limits, trust>>
  <2>1. TypeOK'
    BY <1>1, <1>2, <1>3, <1>6, <1>7 DEF FrontInv, TypeOK
  <2>2. ArgumentsInv' /\ CallInv' /\ BeforeInv' /\ ResultInv' /\ ExitTellsOutput'
    BY <1>1, <1>2, <1>3, <1>7
       DEF FrontInv, ArgumentsInv, CallInv, BeforeInv, ResultInv, ExitTellsOutput
  <2> QED BY <1>2, <1>3, <1>5, <1>6, <1>7, <2>1, <2>2 DEF FrontInv
<1>8. CASE taken /\ cursor' = cursor + 2 /\ UNCHANGED <<phase, exit>>
  <2>1. /\ cursor' \in (1 + Operands(args[1]))..Len(args)
        /\ (cursor' - Operands(args[1])) % 2 = 1
        /\ FlagsWellFormed(args, cursor')
        /\ raw \in Argument
        /\ LastAmong(args, flag, cursor') = raw
        /\ \A f : f # flag => LastAmong(args, f, cursor') = LastAmong(args, f, cursor)
    <3>1. taken /\ cursor' = cursor + 2
      BY <1>8
    <3>2. /\ cursor + 2 \in (1 + Operands(args[1]))..Len(args)
          /\ ((cursor + 2) - Operands(args[1])) % 2 = 1
          /\ FlagsWellFormed(args, cursor + 2)
          /\ raw \in Argument
          /\ LastAmong(args, flag, cursor + 2) = raw
          /\ \A f : f # flag => LastAmong(args, f, cursor + 2) = LastAmong(args, f, cursor)
      BY <1>1, <3>1, TakenFlag
    <3> HIDE DEF flag, raw, taken
    <3>3. cursor' \in (1 + Operands(args[1]))..Len(args) /\ (cursor' - Operands(args[1])) % 2 = 1
      BY <3>1, <3>2
    <3>4. FlagsWellFormed(args, cursor')
      BY <3>1, <3>2, Zenon
    <3>5. LastAmong(args, flag, cursor') = raw
      BY <3>1, <3>2, Zenon
    <3>6. \A f : f # flag => LastAmong(args, f, cursor') = LastAmong(args, f, cursor)
      BY <3>1, <3>2, Zenon
    <3> QED BY <3>2, <3>3, <3>4, <3>5, <3>6
  <2>2. raw # Omitted /\ Value(raw) \in Nat
    BY <2>1, OmittedAssumption, ValueAssumption
  <2>3. /\ trust = LastAmong(args, "--trust", cursor)
        /\ limits = [max_bytes |-> NumberOf(LastAmong(args, "--max-bytes", cursor)),
                     max_chain_length |-> NumberOf(LastAmong(args, "--max-chain-length", cursor))]
    BY <1>3 DEF FlagsTaken
  <2>4. flag \in {"--trust", "--max-bytes", "--max-chain-length"}
    BY <1>8 DEF AllowedFlags
  <2> DEFINE t == LastAmong(args, "--trust", cursor')
             b == LastAmong(args, "--max-bytes", cursor')
             l == LastAmong(args, "--max-chain-length", cursor')
  <2>5. /\ trust' = t
        /\ limits' = [max_bytes |-> NumberOf(b), max_chain_length |-> NumberOf(l)]
        /\ limits' \in LimitArgs
    <3>1. CASE flag = "--trust"
      <4>1. trust' = raw /\ limits' = limits
        BY <1>1, <1>8, <3>1
      <4> HIDE DEF flag, raw
      <4> QED BY <1>3, <2>1, <2>3, <3>1, <4>1
    <3>2. CASE flag = "--max-bytes"
      <4>1. trust' = trust /\ limits' = [limits EXCEPT !.max_bytes = Value(raw)]
        BY <1>1, <1>8, <3>2
      <4>2. NumberOf(raw) = Value(raw)
        BY <2>2 DEF NumberOf
      <4> HIDE DEF flag, raw
      <4>3. t = LastAmong(args, "--trust", cursor) /\ b = raw
            /\ l = LastAmong(args, "--max-chain-length", cursor)
        BY <2>1, <3>2
      <4> QED BY <1>3, <2>2, <2>3, <4>1, <4>2, <4>3 DEF LimitArgs
    <3>3. CASE flag = "--max-chain-length"
      <4>1. trust' = trust /\ limits' = [limits EXCEPT !.max_chain_length = Value(raw)]
        BY <1>1, <1>8, <3>3
      <4>2. NumberOf(raw) = Value(raw)
        BY <2>2 DEF NumberOf
      <4> HIDE DEF flag, raw
      <4>3. t = LastAmong(args, "--trust", cursor) /\ l = raw
            /\ b = LastAmong(args, "--max-bytes", cursor)
        BY <2>1, <3>3
      <4> QED BY <1>3, <2>2, <2>3, <4>1, <4>2, <4>3 DEF LimitArgs
    <3> QED BY <2>4, <3>1, <3>2, <3>3
  <2>6. FlagsTaken(cursor)'
    BY <1>2, <2>5 DEF FlagsTaken
  <2>7. ArgumentsInv'
    BY <1>1, <1>2, <1>3, <1>8, <2>1, <2>6 DEF ArgumentsInv
  <2>8. TypeOK'
    <3>1. cursor' \in 0..Len(args)
      <4>1. Operands(args[1]) \in Nat
        BY DEF Operands
      <4> QED BY <2>1, <4>1
    <3>2. trust' # Omitted => \E n \in 1..Len(args) : trust' = args[n]
      <4>1. CASE trust' = trust
        BY <4>1 DEF FrontInv, TypeOK
      <4>2. CASE trust' = raw
        <5>1. cursor + 2 \in 1..Len(args)
          BY <1>3, <1>8, <3>1 DEF FrontInv, TypeOK
        <5> QED BY <4>2, <5>1
      <4> QED BY <1>1, <1>8, <4>1, <4>2
    <3> QED BY <1>1, <1>2, <1>3, <1>6, <1>8, <2>5, <3>1, <3>2 DEF FrontInv, TypeOK
  <2>9. CallInv' /\ BeforeInv' /\ ResultInv' /\ ExitTellsOutput'
    BY <1>1, <1>2, <1>3, <1>4, <1>8
       DEF FrontInv, CallInv, BeforeInv, ResultInv, ExitTellsOutput
  <2> QED BY <1>2, <1>5, <1>6, <2>5, <2>7, <2>8, <2>9 DEF FrontInv
<1> QED BY <1>1, <1>7, <1>8

\* Arguments that are all parsed are well formed, and the files are read as they ask.
LEMMA ArgumentsParsed ==
    ASSUME FrontInv, phase = "flags", cursor = Len(args)
    PROVE  /\ WellFormed(args) /\ FlagsTaken(Len(args))
           /\ FilesLoad(request_of_caller) <=>
                 /\ world.readable
                 /\ args[1] = "signed" => world.signature_readable
                 /\ trust # Omitted => world.trust_config \in {"full", "no_trust_policy"}
<1>1. /\ args \in Seq(Argument) /\ Callable(args)
      /\ (Len(args) - Operands(args[1])) % 2 = 1
      /\ FlagsWellFormed(args, Len(args)) /\ FlagsTaken(Len(args))
  BY DEF FrontInv, ArgumentsInv
<1>2. WellFormed(args)
  BY <1>1 DEF WellFormed, Callable
<1>3. trust = LastGiven(args, "--trust")
  BY <1>1, <1>2, BoundsAreLimits
<1> QED BY <1>1, <1>2, <1>3 DEF FilesLoad, request_of_caller

LEMMA ReadFilesKeeps ==
    ASSUME FrontInv, ReadFiles, UNCHANGED Asked, UNCHANGED payloadVars, frontend = "program"
    PROVE  FrontInv'
<1>1. /\ phase = "flags" /\ cursor = Len(args)
      /\ UNCHANGED <<cursor, limits, trust, result, output, verifierVars>>
      /\ \/ exit' = "2" /\ phase' = "exited"
         \/ /\ FilesLoad(request_of_caller)
            /\ phase' = "verify" /\ UNCHANGED exit
  BY ArgumentsParsed DEF ReadFiles, Exit
<1>2. UNCHANGED <<frontend, args, world, request_of_caller>>
  BY AskedMeans
<1>3. R!ReceiptInv' /\ B!ExecutionInv' /\ E!ExternalInv' /\ R!TypeOK' /\ B!TypeOK' /\ E!TypeOK'
  BY <1>1, VerifiersKept DEF FrontInv, TypeOK
<1>4. M!MriInv'
  BY MriKept DEF FrontInv
<1>5. /\ result = "none" /\ output = "none" /\ exit = "running"
      /\ WellFormed(args) /\ FlagsTaken(Len(args))
  BY <1>1, ArgumentsParsed DEF FrontInv, BeforeInv
<1>6. FlagsTaken(Len(args))' /\ WellFormed(args)'
      /\ (FilesLoad(request_of_caller) => FilesLoad(request_of_caller)')
  BY <1>1, <1>2, <1>5 DEF FlagsTaken
<1>7. TypeOK'
  BY <1>1, <1>2, <1>3 DEF FrontInv, TypeOK
<1>8. ArgumentsInv' /\ CallInv' /\ BeforeInv' /\ ResultInv' /\ ExitTellsOutput'
  BY <1>1, <1>2, <1>5, <1>6
     DEF FrontInv, ArgumentsInv, CallInv, BeforeInv, ResultInv, ExitTellsOutput
<1> QED BY <1>2, <1>3, <1>4, <1>7, <1>8 DEF FrontInv

LEMMA CallKeeps ==
    ASSUME FrontInv, Call, UNCHANGED Asked
    PROVE  FrontInv'
<1>1. /\ phase = "arguments" /\ phase' = "verify" /\ frontend # "program"
      /\ UNCHANGED <<cursor, limits, trust, result, output, exit, verifierVars, payloadVars>>
  BY DEF Call
<1>2. UNCHANGED <<frontend, args, world>>
  BY AskedMeans
<1>3. R!ReceiptInv' /\ B!ExecutionInv' /\ E!ExternalInv' /\ R!TypeOK' /\ B!TypeOK' /\ E!TypeOK'
  BY <1>1, VerifiersKept DEF FrontInv, TypeOK
<1>4. M!MriInv'
  BY <1>1, MriKept DEF FrontInv
<1>5. TypeOK'
  BY <1>1, <1>2, <1>3 DEF FrontInv, TypeOK
<1>6. ArgumentsInv' /\ CallInv' /\ BeforeInv' /\ ResultInv' /\ ExitTellsOutput'
  BY <1>1, <1>2
     DEF FrontInv, ArgumentsInv, CallInv, BeforeInv, ResultInv, ExitTellsOutput
<1> QED BY <1>2, <1>3, <1>4, <1>5, <1>6 DEF FrontInv

\* Only a signed receipt is verified with a trust configuration.
LEMMA NoTrust ==
    ASSUME FrontInv, phase \in {"verify", "emit"}, args[1] # "signed"
    PROVE  trust = Omitted
<1>1. CASE frontend = "program"
  <2>1. WellFormed(args) /\ FlagsTaken(Len(args)) /\ args \in Seq(Argument)
    BY <1>1 DEF FrontInv, CallInv, ArgumentsInv
  <2> QED BY <2>1, BoundsAreLimits, TrustIsForSigned
<1>2. CASE frontend # "program"
  BY <1>2 DEF FrontInv, CallInv
<1> QED BY <1>1, <1>2

\* What a verifier answers is what the call deserves.
LEMMA VerifiersAnswer ==
    ASSUME FrontInv, phase = "verify", args[1] # "payload"
    PROVE  /\ args[1] \notin {"receipt", "bundle", "external", "projection"} =>
                 (Deserved <=> world.valid /\ WithinLimits /\ (trust # Omitted => world.trusted))
           /\ args[1] = "receipt" /\ receipt_status # "pending" =>
                 receipt_status \in {"Valid", "Invalid"} /\ (receipt_status = "Valid" <=> Deserved)
           /\ args[1] = "bundle" /\ bundle_status # "pending" =>
                 bundle_status \in {"Valid", "Invalid"} /\ (bundle_status = "Valid" <=> Deserved)
           /\ args[1] \in {"external", "projection"} /\ external_status # "pending" =>
                 external_status \in {"Valid", "Invalid"} /\ (external_status = "Valid" <=> Deserved)
<1> DEFINE b == Given(limits.max_bytes, DefaultBytes)
<1>1. /\ Deserved <=> /\ InputAcceptable(request_of_caller, b) /\ WithinLimits
                      /\ trust # Omitted => world.trusted
      /\ args[1] # "signed" => trust = Omitted
      /\ args[1] \notin {"chain", "signed"} => WithinLimits
  BY NoTrust DEF Deserved, WithinLimits
<1>2. InputAcceptable(request_of_caller, b) <=>
         CASE args[1] = "receipt" -> R!ReceiptAcceptable(receipt, b)
           [] args[1] = "bundle" -> B!BundleAcceptable(bundle)
           [] args[1] \in {"external", "projection"} -> E!RequestAcceptable(request)
           [] OTHER -> world.valid
  BY DEF InputAcceptable, request_of_caller
<1>3. receipt_status # "pending" =>
         receipt_status \in {"Valid", "Invalid"} /\ (receipt_status = "Valid" <=> R!ReceiptAcceptable(receipt, b))
  BY DEF FrontInv, R!ReceiptInv, R!TypeOK
<1>4. bundle_status # "pending" =>
         bundle_status \in {"Valid", "Invalid"} /\ (bundle_status = "Valid" <=> B!BundleAcceptable(bundle))
  BY DEF FrontInv, B!ExecutionInv, B!TypeOK
<1>5. external_status # "pending" =>
         external_status \in {"Valid", "Invalid"} /\ (external_status = "Valid" <=> E!RequestAcceptable(request))
  BY DEF FrontInv, E!ExternalInv, E!TypeOK
<1> HIDE DEF b
<1>6. CASE args[1] \notin {"receipt", "bundle", "external", "projection"}
  BY <1>1, <1>2, <1>6
<1>7. CASE args[1] = "receipt"
  BY <1>1, <1>2, <1>3, <1>7
<1>8. CASE args[1] = "bundle"
  BY <1>1, <1>2, <1>4, <1>8
<1>9. CASE args[1] \in {"external", "projection"}
  BY <1>1, <1>2, <1>5, <1>9
<1> QED BY <1>6, <1>7, <1>8, <1>9

\* A step of a verification keeps the invariant when its result is the one deserved.
LEMMA AnswerKeeps ==
    ASSUME FrontInv, UNCHANGED Asked, phase = "verify",
           UNCHANGED <<cursor, limits, trust, output, exit>>,
           R!ReceiptInv', B!ExecutionInv', E!ExternalInv', M!MriInv',
           \/ UNCHANGED <<phase, result>>
           \/ \E v \in {"Valid", "Invalid"} : Return(v) /\ (v = "Valid" <=> Deserved)
    PROVE  FrontInv'
<1>1. UNCHANGED <<frontend, args, world>>
  BY AskedMeans
<1>2. /\ FilesLoad(request_of_caller)' <=> FilesLoad(request_of_caller)
      /\ WellFormed(args)' <=> WellFormed(args)
      /\ Deserved' <=> Deserved
      /\ FlagsTaken(Len(args))' <=> FlagsTaken(Len(args))
  <2>1. FlagsTaken(Len(args))' <=> FlagsTaken(Len(args))
    BY <1>1 DEF FlagsTaken
  <2> QED BY <2>1, AskedMeans, DeservedStays
<1>3. /\ result = "none" /\ output = "none" /\ exit = "running"
  BY DEF FrontInv, BeforeInv
<1>4. \/ phase' = "verify" /\ result' = "none"
      \/ /\ phase' = "emit" /\ result' \in {"Valid", "Invalid"}
         /\ result' = "Valid" <=> Deserved
  BY <1>3 DEF Return
<1>5. TypeOK'
  BY <1>1, <1>3, <1>4
     DEF FrontInv, TypeOK, R!ReceiptInv, B!ExecutionInv, E!ExternalInv
<1>6. ArgumentsInv' /\ BeforeInv' /\ ExitTellsOutput'
  BY <1>1, <1>3, <1>4 DEF FrontInv, ArgumentsInv, BeforeInv, ExitTellsOutput
<1>7. CallInv' /\ ResultInv'
  BY <1>1, <1>2, <1>4 DEF FrontInv, CallInv, ResultInv
<1> QED BY <1>1, <1>5, <1>6, <1>7 DEF FrontInv

LEMMA RunVerifierKeeps ==
    ASSUME FrontInv, RunVerifier, UNCHANGED Asked, UNCHANGED payloadVars, args[1] # "payload"
    PROVE  FrontInv'
<1>1. /\ phase = "verify"
      /\ UNCHANGED <<cursor, limits, trust, output, exit>>
  BY DEF RunVerifier, Verify, VerifyReceipt, VerifyBundle, VerifyExternal
<1>2. M!MriInv' /\ limits \in LimitArgs
  BY MriKept DEF FrontInv, TypeOK
<1>3. R!ReceiptInv /\ B!ExecutionInv /\ E!ExternalInv
  BY DEF FrontInv
<1>4. CASE Verify
  <2>1. R!ReceiptInv' /\ B!ExecutionInv' /\ E!ExternalInv'
    BY <1>1, <1>2, <1>4, VerifiersKept DEF Verify
  <2>2. \E v \in {"Valid", "Invalid"} : Return(v) /\ (v = "Valid" <=> Deserved)
    BY <1>1, <1>4, VerifiersAnswer DEF Verify
  <2> QED BY <1>1, <1>2, <2>1, <2>2, AnswerKeeps
<1>5. CASE VerifyReceipt
  <2>1. R!ReceiptInv'
    BY <1>1, <1>2, <1>3, <1>5, ReceiptStep, ReceiptKept DEF VerifyReceipt
  <2>2. B!ExecutionInv' /\ E!ExternalInv'
    BY <1>3, <1>5, BundleKept, ExternalKept DEF VerifyReceipt
  <2>3. \/ UNCHANGED <<phase, result>>
        \/ \E v \in {"Valid", "Invalid"} : Return(v) /\ (v = "Valid" <=> Deserved)
    BY <1>1, <1>5, VerifiersAnswer DEF VerifyReceipt
  <2> QED BY <1>1, <1>2, <2>1, <2>2, <2>3, AnswerKeeps
<1>6. CASE VerifyBundle
  <2>1. R!ReceiptInv'
    BY <1>1, <1>2, <1>3, <1>6, ReceiptKept DEF VerifyBundle
  <2>2. B!ExecutionInv' /\ E!ExternalInv'
    BY <1>3, <1>6, BundleStep, BundleKept, ExternalKept DEF VerifyBundle
  <2>3. \/ UNCHANGED <<phase, result>>
        \/ \E v \in {"Valid", "Invalid"} : Return(v) /\ (v = "Valid" <=> Deserved)
    BY <1>1, <1>6, VerifiersAnswer DEF VerifyBundle
  <2> QED BY <1>1, <1>2, <2>1, <2>2, <2>3, AnswerKeeps
<1>7. CASE VerifyExternal
  <2>1. R!ReceiptInv'
    BY <1>1, <1>2, <1>3, <1>7, ReceiptKept DEF VerifyExternal
  <2>2. B!ExecutionInv' /\ E!ExternalInv'
    BY <1>3, <1>7, BundleKept, ExternalStep, ExternalKept DEF VerifyExternal
  <2>3. \/ UNCHANGED <<phase, result>>
        \/ \E v \in {"Valid", "Invalid"} : Return(v) /\ (v = "Valid" <=> Deserved)
    BY <1>1, <1>7, VerifiersAnswer DEF VerifyExternal
  <2> QED BY <1>1, <1>2, <2>1, <2>2, <2>3, AnswerKeeps
<1> QED BY <1>4, <1>5, <1>6, <1>7 DEF RunVerifier

LEMMA ValidatePayloadKeeps ==
    ASSUME FrontInv, ValidatePayload, UNCHANGED Asked
    PROVE  FrontInv'
<1>1. /\ phase = "verify" /\ args[1] = "payload"
      /\ UNCHANGED <<cursor, limits, trust, output, exit, verifierVars>>
      /\ \/ M!MriNext /\ UNCHANGED <<phase, result>>
         \/ mri_status # "pending" /\ Return(mri_status) /\ UNCHANGED payloadVars
  BY DEF ValidatePayload
<1>2. R!ReceiptInv' /\ B!ExecutionInv' /\ E!ExternalInv'
  BY <1>1, VerifiersKept DEF FrontInv, TypeOK
<1>3. M!MriInv'
  BY <1>1, MriStep, MriKept DEF FrontInv
<1>4. /\ mri_status \in {"pending", "Valid", "Invalid"}
      /\ mri_status # "pending" => (mri_status = "Valid" <=> M!PayloadAcceptable(payload))
  BY MriVerdict DEF FrontInv, M!MriInv, M!PayloadVerdict
<1>5. Deserved <=> M!PayloadAcceptable(payload)
  BY <1>1 DEF Deserved
<1>6. \/ UNCHANGED <<phase, result>>
      \/ \E v \in {"Valid", "Invalid"} : Return(v) /\ (v = "Valid" <=> Deserved)
  BY <1>1, <1>4, <1>5
<1> QED BY <1>1, <1>2, <1>3, <1>6, AnswerKeeps

\* What is told last is what the call deserves, if it could be rendered.
LEMMA ProgramTells ==
    ASSUME FrontInv, phase = "emit", frontend = "program"
    PROVE  CallAcceptable(request_of_caller) <=> result = "Valid" /\ Written
<1>1. /\ args \in Seq(Argument) /\ WellFormed(args) /\ FlagsTaken(Len(args))
      /\ FilesLoad(request_of_caller)
      /\ result = "Valid" <=> Deserved
      /\ args[1] # "payload"
  <2>1. /\ args \in Seq(Argument) /\ WellFormed(args) /\ FlagsTaken(Len(args))
        /\ FilesLoad(request_of_caller)
        /\ result = "Valid" <=> Deserved
    BY DEF FrontInv, ArgumentsInv, CallInv, ResultInv
  <2>2. args[1] \in Commands
    BY <2>1 DEF WellFormed
  <2> QED BY <2>1, <2>2 DEF Commands, PackCommands
<1>2. /\ trust = LastGiven(args, "--trust")
      /\ Given(limits.max_bytes, DefaultBytes) = Bound(args, "--max-bytes", DefaultBytes)
      /\ Given(limits.max_chain_length, DefaultChainLength)
            = Bound(args, "--max-chain-length", DefaultChainLength)
  BY <1>1, BoundsAreLimits
<1>3. Deserved <=>
         /\ InputAcceptable(request_of_caller, Bound(args, "--max-bytes", DefaultBytes))
         /\ FlagsObeyed(request_of_caller)
  BY <1>1, <1>2 DEF Deserved, WithinLimits, FlagsObeyed, request_of_caller
<1>4. CallAcceptable(request_of_caller) <=> ProgramAcceptable(request_of_caller)
  BY DEF CallAcceptable, request_of_caller
<1>5. ProgramAcceptable(request_of_caller) <=>
         /\ WellFormed(args) /\ FilesLoad(request_of_caller)
         /\ InputAcceptable(request_of_caller, Bound(args, "--max-bytes", DefaultBytes))
         /\ FlagsObeyed(request_of_caller)
         /\ Written
  BY DEF ProgramAcceptable, Written, request_of_caller
<1> QED BY <1>1, <1>3, <1>4, <1>5

LEMMA CallTells ==
    ASSUME FrontInv, phase = "emit", frontend # "program"
    PROVE  CallAcceptable(request_of_caller) <=>
              result = "Valid" /\ (frontend = "browser" => world.canonicalizes)
<1>1. /\ trust = Omitted /\ limits = [max_bytes |-> Omitted, max_chain_length |-> Omitted]
      /\ result = "Valid" <=> Deserved
      /\ \/ frontend = "browser" /\ args \in BrowserCalls
         \/ frontend = "library" /\ args \in LibraryCalls
  BY DEF FrontInv, CallInv, ResultInv, FrontEnd
<1>2. /\ Given(limits.max_bytes, DefaultBytes) = DefaultBytes
      /\ Given(limits.max_chain_length, DefaultChainLength) = DefaultChainLength
  BY <1>1 DEF Given
<1>3. CASE frontend = "browser"
  <2>1. args[1] # "payload"
    BY <1>1, <1>3
       DEF BrowserCalls, verify_receipt_json, verify_chain_json, verify_signed_receipt_json,
           verify_bundle_json, verify_decision_pack_json, verify_closure_bundle_json
  <2>2. CallAcceptable(request_of_caller) <=>
           /\ InputAcceptable(request_of_caller, DefaultBytes)
           /\ args[1] \in {"chain", "signed"} => world.bytes <= DefaultBytes
           /\ args[1] = "chain" => world.elements <= DefaultChainLength
           /\ world.canonicalizes
    BY <1>3 DEF CallAcceptable, request_of_caller
  <2> QED BY <1>1, <1>2, <1>3, <2>1, <2>2 DEF Deserved, WithinLimits
<1>4. CASE frontend = "library"
  <2>1. args[1] \in {"projection", "payload"}
    BY <1>1, <1>4 DEF LibraryCalls
  <2>2. CallAcceptable(request_of_caller) <=>
           IF args[1] = "payload" THEN M!PayloadAcceptable(payload)
           ELSE InputAcceptable(request_of_caller, DefaultBytes)
    BY <1>4 DEF CallAcceptable, request_of_caller
  <2> QED BY <1>1, <1>2, <1>4, <2>1, <2>2 DEF Deserved, WithinLimits
<1> QED BY <1>1, <1>3, <1>4

\* The last step of a call keeps the invariant.
LEMMA TellingKeeps ==
    ASSUME FrontInv, UNCHANGED Asked, phase = "emit", phase' = "exited",
           UNCHANGED <<cursor, limits, trust, result, verifierVars, payloadVars>>,
           exit' \in {"0", "1", "2", "returned"}, ExitTellsOutput'
    PROVE  FrontInv'
<1>1. UNCHANGED <<frontend, args, world>>
  BY AskedMeans
<1>2. R!ReceiptInv' /\ B!ExecutionInv' /\ E!ExternalInv' /\ R!TypeOK' /\ B!TypeOK' /\ E!TypeOK'
  BY VerifiersKept DEF FrontInv, TypeOK
<1>3. M!MriInv'
  BY MriKept DEF FrontInv
<1>4. TypeOK'
  BY <1>1, <1>2 DEF FrontInv, TypeOK
<1>5. ArgumentsInv' /\ CallInv' /\ BeforeInv' /\ ResultInv'
  BY <1>1 DEF FrontInv, ArgumentsInv, CallInv, BeforeInv, ResultInv
<1> QED BY <1>1, <1>2, <1>3, <1>4, <1>5 DEF FrontInv

LEMMA EmitResultKeeps ==
    ASSUME FrontInv, EmitResult, UNCHANGED Asked, UNCHANGED payloadVars
    PROVE  FrontInv'
<1>1. /\ phase = "emit" /\ phase' = "exited"
      /\ UNCHANGED <<cursor, limits, trust, result, verifierVars>>
      /\ \/ result = "Invalid" /\ exit' = "1" /\ UNCHANGED output
         \/ exit' = "2" /\ UNCHANGED output
         \/ /\ Written
            /\ output' = IF world.stdout_open THEN result ELSE output
            /\ exit' = IF result = "Valid" THEN "0" ELSE "1"
  BY DEF EmitResult, Exit
<1>2. UNCHANGED world
  BY AskedMeans
<1>3. output = "none" /\ result \in {"Valid", "Invalid"}
  BY <1>1 DEF FrontInv, BeforeInv, ResultInv
<1>4. exit' \in {"0", "1", "2", "returned"} /\ ExitTellsOutput'
  BY <1>1, <1>2, <1>3 DEF ExitTellsOutput, Written
<1> QED BY <1>1, <1>4, TellingKeeps

LEMMA ReturnKeeps ==
    ASSUME FrontInv, ReturnText \/ ReturnResult, UNCHANGED Asked
    PROVE  FrontInv'
<1>1. /\ phase = "emit" /\ phase' = "exited" /\ exit' = "returned"
      /\ UNCHANGED <<cursor, limits, trust, result, verifierVars, payloadVars>>
  BY DEF ReturnText, ReturnResult, Exit
<1>2. ExitTellsOutput'
  BY <1>1 DEF ExitTellsOutput
<1> QED BY <1>1, <1>2, TellingKeeps

----------------------------------------------------------------------------
(* The inductive invariant *)

LEMMA FrontInitInv == FrontInit => FrontInv
<1> SUFFICES ASSUME FrontInit PROVE FrontInv
  OBVIOUS
<1>1. /\ args \in Seq(Argument) /\ IsWorld(world) /\ phase = "arguments" /\ cursor = 0
      /\ limits = [max_bytes |-> Omitted, max_chain_length |-> Omitted]
      /\ trust = Omitted /\ result = "none" /\ output = "none" /\ exit = "running"
      /\ R!ReceiptInit /\ B!Init /\ E!Init /\ M!MriInit
  BY DEF FrontInit, Init
<1>2. R!ReceiptInv /\ R!TypeOK /\ receipt_phase = "admit"
  <2>1. Given(limits.max_bytes, DefaultBytes) \in Nat
    BY <1>1, DefaultsAssumption DEF Given
  <2> QED BY <1>1, <2>1
          DEF R!ReceiptInit, R!ReceiptInv, R!TypeOK, R!PassedInv, R!CollectedInv,
              R!HashFlagIsEarned
<1>3. B!ExecutionInv /\ B!TypeOK
  BY <1>1 DEF B!Init, B!ExecutionInv, B!TypeOK, B!ChecksExplainErrors, B!BundleSidecars
<1>4. E!ExternalInv /\ E!TypeOK
  BY <1>1, BoundFields
     DEF E!Init, E!ExternalInv, E!TypeOK, E!SourceInv, E!ProjectionInv,
         E!ProjectionErrorsVouchForSource
<1>5. M!MriInv
  <2>1. Len(M!Checks(payload)) \in Nat
    BY <1>1, BatchMeans, GradientMeans DEF M!MriInit
  <2> QED BY <1>1, <2>1 DEF M!MriInit, M!MriInv
<1>6. TypeOK
  <2>1. Len(args) \in Nat
    BY <1>1
  <2> QED BY <1>1, <1>2, <1>3, <1>4, <2>1 DEF TypeOK, LimitArgs
<1>7. ArgumentsInv /\ CallInv /\ BeforeInv /\ ResultInv /\ ExitTellsOutput /\ IsBrowserWorld(world)
  BY <1>1, <1>2
     DEF FrontInit, ArgumentsInv, CallInv, BeforeInv, ResultInv, ExitTellsOutput
<1> QED BY <1>2, <1>3, <1>4, <1>5, <1>6, <1>7 DEF FrontInv

LEMMA FrontStepInv == FrontInv /\ [FrontNext]_frontVars => FrontInv'
<1> SUFFICES ASSUME FrontInv, [FrontNext]_frontVars PROVE FrontInv'
  OBVIOUS
<1>1. CASE FrontNext
  <2>1. UNCHANGED Asked
    BY <1>1, AskedStays
  <2>2. CASE RunProgram
    <3>1. frontend = "program" /\ UNCHANGED payloadVars /\ Next
      BY <2>2 DEF RunProgram
    <3>2. phase = "verify" => args[1] # "payload"
      <4>1. phase = "verify" => args[1] \in Commands
        BY <3>1 DEF FrontInv, CallInv, WellFormed
      <4> QED BY <4>1 DEF Commands, PackCommands
    <3>3. RunVerifier => phase = "verify"
      BY DEF RunVerifier, Verify, VerifyReceipt, VerifyBundle, VerifyExternal
    <3> QED BY <2>1, <3>1, <3>2, <3>3, DispatchKeeps, ParseFlagKeeps, ReadFilesKeeps,
               RunVerifierKeeps, EmitResultKeeps DEF Next
  <2>3. CASE RunCalled
    BY <2>1, <2>3, RunVerifierKeeps DEF RunCalled
  <2> QED BY <1>1, <2>1, <2>2, <2>3, CallKeeps, ValidatePayloadKeeps, ReturnKeeps DEF FrontNext
<1>2. CASE UNCHANGED frontVars
  <2>1. /\ UNCHANGED <<args, world, phase, cursor, limits, trust, result, output, exit>>
        /\ UNCHANGED <<verifierVars, frontend, payloadVars>>
    BY <1>2 DEF frontVars, vars
  <2>2. UNCHANGED Asked
    BY <2>1 DEF Asked, verifierVars, receiptVars, bundleVars, externalVars, payloadVars
  <2>3. R!ReceiptInv' /\ B!ExecutionInv' /\ E!ExternalInv' /\ R!TypeOK' /\ B!TypeOK' /\ E!TypeOK'
    BY <2>1, VerifiersKept DEF FrontInv, TypeOK
  <2>4. M!MriInv'
    BY <2>1, MriKept DEF FrontInv
  <2>5. TypeOK' /\ IsBrowserWorld(world)'
    BY <2>1, <2>3 DEF FrontInv, TypeOK
  <2>6. ArgumentsInv' /\ CallInv' /\ ResultInv'
    BY <2>1, <2>2, AskedMeans, DeservedStays DEF FrontInv, ArgumentsInv, CallInv, ResultInv, FlagsTaken
  <2>7. BeforeInv' /\ ExitTellsOutput'
    BY <2>1 DEF FrontInv, BeforeInv, ExitTellsOutput, verifierVars, receiptVars
  <2> QED BY <2>3, <2>4, <2>5, <2>6, <2>7 DEF FrontInv
<1> QED BY <1>1, <1>2

LEMMA FrontInvHolds == FrontSpec => []FrontInv
BY FrontInitInv, FrontStepInv, PTL DEF FrontSpec

----------------------------------------------------------------------------
(* The results *)

\* Every variable of the program and of the verifiers of receipts, execution
\* bundles and external receipts keeps its type, however they are called.
THEOREM FrontEndsTypeCorrect == FrontSpec => []TypeOK
<1>1. FrontInv => TypeOK
  BY DEF FrontInv
<1> QED BY <1>1, FrontInvHolds, PTL

\* The exit code of vr-verify and its stdout agree, whatever the arguments and the
\* files are and wherever stdout goes (emit_result).
THEOREM ProgramExitTellsOutput == FrontSpec => []ExitTellsOutput
<1>1. FrontInv => ExitTellsOutput
  BY DEF FrontInv
<1> QED BY <1>1, FrontInvHolds, PTL

\* verify_receipt sets all_hashes_match exactly when the event_hash was found
\* right, for every limit on the bytes a flag can give.
THEOREM ReceiptHashFlagIsEarned == FrontSpec => []HashFlagIsEarned
<1>1. FrontInv => HashFlagIsEarned
  BY DEF FrontInv, R!ReceiptInv, HashFlagIsEarned
<1> QED BY <1>1, FrontInvHolds, PTL

\* The checks and the errors verify_bundle returns tell the same story, whatever
\* is declared and carried.
THEOREM BundleChecksExplainErrors == FrontSpec => []ChecksExplainErrors
<1>1. FrontInv => ChecksExplainErrors
  BY DEF FrontInv, B!ExecutionInv, ChecksExplainErrors
<1> QED BY <1>1, FrontInvHolds, PTL

\* An error of verify_projection_source about the projection tells that the
\* receipt it cites was verified.
THEOREM ProjectionErrorsTellOfSource == FrontSpec => []ProjectionErrorsVouchForSource
<1>1. FrontInv => ProjectionErrorsVouchForSource
  BY DEF FrontInv, E!ExternalInv, ProjectionErrorsVouchForSource
<1> QED BY <1>1, FrontInvHolds, PTL

\* The validators of MRI payloads decide by the words of the floats: for every
\* float format with two bits of exponent and one of fraction or more, that of
\* f32 included, comparing the decoded cosine with -1.0 and 1.0 accepts the words
\* that, without their sign, are not above that of 1.0.
THEOREM PayloadVerdictIsOfWords == FrontSpec => []PayloadVerdict
<1>1. FrontInv => PayloadVerdict
  BY MriVerdict DEF FrontInv, PayloadVerdict
<1> QED BY <1>1, FrontInvHolds, PTL

\* A step that ends the call tells the caller whether it is acceptable; before
\* that the caller is told nothing and the question stays the same.
LEMMA StepDecides == FrontInv /\ [FrontNext]_frontVars => [V!Decide]_(V!verdictVars)
<1> SUFFICES ASSUME FrontInv, [FrontNext]_frontVars
             PROVE  V!Decide \/ UNCHANGED <<request_of_caller, Told>>
  BY DEF V!verdictVars
<1>1. ASSUME UNCHANGED request_of_caller, phase # "exited",
             exit' \in {"0", "1", "2", "returned"},
             (exit' = "0" \/ (exit' = "returned" /\ output' = "Valid"))
                <=> CallAcceptable(request_of_caller)
      PROVE  V!Decide
  <2>1. exit = "running"
    BY <1>1 DEF FrontInv, BeforeInv
  <2>2. Told = "pending" /\ Told' \in {"Valid", "Invalid"}
    BY <1>1, <2>1 DEF Told
  <2>3. Told' = "Valid" <=> exit' = "0" \/ (exit' = "returned" /\ output' = "Valid")
    BY <1>1 DEF Told
  <2> QED BY <1>1, <2>2, <2>3 DEF V!Decide
<1>2. ASSUME UNCHANGED request_of_caller, UNCHANGED exit, UNCHANGED output
      PROVE  UNCHANGED <<request_of_caller, Told>>
  BY <1>2 DEF Told
<1>3. CASE UNCHANGED frontVars
  BY <1>2, <1>3 DEF frontVars, vars, verifierVars, receiptVars, bundleVars, externalVars,
                    payloadVars, request_of_caller
<1>4. CASE FrontNext
  <2>1. UNCHANGED request_of_caller
    BY <1>4, AskedStays, AskedMeans
  <2>2. CASE RunProgram
    <3>1. frontend = "program" /\ Next
      BY <2>2 DEF RunProgram
    <3>2. CallAcceptable(request_of_caller) => WellFormed(args) /\ FilesLoad(request_of_caller)
      BY <3>1 DEF CallAcceptable, ProgramAcceptable, request_of_caller
    <3>3. CASE Dispatch
      <4>1. CASE ~Callable(args) /\ exit' = "2"
        <5>1. ~WellFormed(args)
          BY <4>1, WellFormedIsCallable DEF FrontInv, ArgumentsInv
        <5> QED BY <1>1, <2>1, <3>2, <3>3, <4>1, <5>1 DEF Dispatch
      <4> QED BY <1>2, <2>1, <3>3, <4>1 DEF Dispatch, Exit
    <3>4. CASE ParseFlag
      <4>1. \/ exit' = "2" /\ ~WellFormed(args)
            \/ UNCHANGED exit
        BY <3>4, RefusedFlag DEF ParseFlag, Exit
      <4>2. UNCHANGED output /\ phase # "exited"
        BY <3>4 DEF ParseFlag
      <4> QED BY <1>1, <1>2, <2>1, <3>2, <4>1, <4>2
    <3>5. CASE ReadFiles
      <4>1. \/ exit' = "2" /\ ~FilesLoad(request_of_caller)
            \/ UNCHANGED exit
        BY <3>5, ArgumentsParsed DEF ReadFiles, Exit
      <4>2. UNCHANGED output /\ phase # "exited"
        BY <3>5 DEF ReadFiles
      <4> QED BY <1>1, <1>2, <2>1, <3>2, <4>1, <4>2
    <3>6. CASE RunVerifier
      <4>1. UNCHANGED <<output, exit>>
        BY <3>6 DEF RunVerifier, Verify, VerifyReceipt, VerifyBundle, VerifyExternal
      <4> QED BY <1>2, <2>1, <4>1
    <3>7. CASE EmitResult
      <4>1. phase = "emit" /\ result \in {"Valid", "Invalid"}
        BY <3>7 DEF EmitResult, FrontInv, ResultInv
      <4>2. /\ exit' \in {"0", "1", "2"}
            /\ exit' = "0" <=> result = "Valid" /\ Written
        BY <3>7, <4>1 DEF EmitResult, Exit
      <4>3. (exit' = "0" \/ (exit' = "returned" /\ output' = "Valid"))
               <=> CallAcceptable(request_of_caller)
        BY <3>1, <4>1, <4>2, ProgramTells
      <4>4. exit' \in {"0", "1", "2", "returned"} /\ phase # "exited"
        BY <4>1, <4>2
      <4> QED BY <1>1, <2>1, <4>3, <4>4
    <3> QED BY <3>1, <3>3, <3>4, <3>5, <3>6, <3>7 DEF Next
  <2>3. CASE Call \/ RunCalled \/ ValidatePayload
    <3>1. UNCHANGED <<output, exit>>
      BY <2>3 DEF Call, RunCalled, ValidatePayload, RunVerifier, Verify, VerifyReceipt,
                  VerifyBundle, VerifyExternal
    <3> QED BY <1>2, <2>1, <3>1
  <2>4. CASE ReturnText
    <3>1. /\ phase = "emit" /\ frontend = "browser" /\ exit' = "returned"
          /\ output' = result_to_json(world, result)
      BY <2>4 DEF ReturnText, Exit
    <3>2. output' = "Valid" <=> result = "Valid" /\ world.canonicalizes
      BY <3>1 DEF result_to_json, error_json
    <3> QED BY <1>1, <2>1, <3>1, <3>2, CallTells
  <2>5. CASE ReturnResult
    <3>1. /\ phase = "emit" /\ frontend = "library" /\ exit' = "returned" /\ output' = result
      BY <2>5 DEF ReturnResult, Exit
    <3> QED BY <1>1, <2>1, <3>1, CallTells
  <2> QED BY <1>4, <2>2, <2>3, <2>4, <2>5 DEF FrontNext
<1> QED BY <1>3, <1>4

\* Each front end refines Verdict: the caller is told VALID exactly when the call
\* is acceptable, is told once, and is never told anything else.
THEOREM FrontEndsRefineVerdict == FrontSpec => V!Init /\ [][V!Decide]_(V!verdictVars)
<1>1. FrontInit => V!Init
  BY DEF FrontInit, Init, V!Init, Told
<1> QED BY <1>1, StepDecides, FrontInvHolds, PTL DEF FrontSpec

=============================================================================
