---------------------------- MODULE ChainProofs ----------------------------
(***************************************************************************)
(* Proofs that the chain verifier answers VALID exactly on the chains the  *)
(* rules of chain.rs admit, and that each flag it returns stands for its   *)
(* rules, for chains of any length.                                        *)
(***************************************************************************)
EXTENDS ChainHead, WellFoundedInduction, TLAPS

\* The envelopes of a well-typed chain.
LEMMA EnvelopeType ==
    ASSUME TypeOK, NEW n \in 1..Len(envelopes)
    PROVE  /\ Len(envelopes) \in Nat
           /\ envelopes[n] \in ReceiptEnvelope
           /\ envelopes[n].event_hash \in Hash
           /\ envelopes[n].logical_time \in Nat
           /\ envelopes[n].version_ok \in BOOLEAN
           /\ envelopes[n].algorithms_ok \in BOOLEAN
<1>1. Len(envelopes) \in Nat /\ envelopes[n] \in ReceiptEnvelope
  BY DEF TypeOK
<1> HIDE DEF TypeOK
<1>2. envelopes[n].event_hash \in Hash /\ envelopes[n].logical_time \in Nat
  BY <1>1 DEF ReceiptEnvelope
<1>3. envelopes[n].version_ok \in BOOLEAN
  BY <1>1 DEF ReceiptEnvelope
<1>4. envelopes[n].algorithms_ok \in BOOLEAN
  BY <1>1 DEF ReceiptEnvelope
<1> QED BY <1>1, <1>2, <1>3, <1>4

LEMMA LengthType ==
    ASSUME TypeOK
    PROVE  /\ Len(envelopes) \in Nat
           /\ envelopes # <<>> => 1 \in 1..Len(envelopes)
BY DEF TypeOK

\* A field is uniform if and only if no envelope deviates from the first.
LEMMA UniformIffNoneDeviates ==
    ASSUME TypeOK, envelopes # <<>>, NEW field(_)
    PROVE  Deviating(field) = {} <=> Uniform(envelopes, field)
<1>1. Len(envelopes) \in Nat /\ 1 \in 1..Len(envelopes)
  BY LengthType
<1>2. ASSUME Deviating(field) = {}
      PROVE  Uniform(envelopes, field)
  <2>1. \A n \in 1..Len(envelopes) : field(envelopes[n]) = field(envelopes[1])
    BY <1>1, <1>2 DEF Deviating
  <2> QED BY <2>1 DEF Uniform
<1>3. ASSUME Uniform(envelopes, field)
      PROVE  Deviating(field) = {}
  BY <1>1, <1>3 DEF Deviating, Uniform
<1> QED BY <1>2, <1>3

----------------------------------------------------------------------------
(* Types *)

\* The errors each step can add are errors.
LEMMA ErrorTypes ==
    ASSUME TypeOK
    PROVE  /\ \A n \in Nat : EnvelopeErrors(n) \subseteq Error /\ PairErrors(n) \subseteq Error
           /\ \A S \in SUBSET Nat, k \in ErrorKinds : {Err(k, n) : n \in S} \subseteq Error
BY DEF EnvelopeErrors, PairErrors, Err, Error, ErrorKinds

\* Adding errors keeps the types of errors and status.
LEMMA AddErrorsType ==
    ASSUME TypeOK, NEW new \in SUBSET Error, AddErrors(new)
    PROVE  /\ errors' \subseteq Error
           /\ status' \in {"Valid", "Invalid"}
           /\ status' = "Valid" <=> status = "Valid" /\ new = {}
BY DEF TypeOK, AddErrors

\* Every variable of the chain verifier keeps its type.
LEMMA TypeStep ==
    ASSUME TypeOK, RunningInv, [Next]_vars
    PROVE  TypeOK'
<1>0. Len(envelopes) \in Nat /\ i \in Nat \ {0}
  BY DEF TypeOK
<1>1. CASE Ingest
  <2>1. Err("ingest", 0) \in Error
    BY DEF Err, Error, ErrorKinds
  <2>2. errors' \subseteq Error /\ status' \in {"Valid", "Invalid"}
    BY <1>1, <2>1, AddErrorsType DEF Ingest, TypeOK
  <2> QED BY <1>1, <2>2 DEF Ingest, TypeOK, flags
<1>2. CASE check_per_envelope
  <2>1. errors' \subseteq Error /\ status' \in {"Valid", "Invalid"}
    BY <1>0, <1>2, ErrorTypes, AddErrorsType DEF check_per_envelope
  <2>2. all_hashes_match' \in BOOLEAN
    BY <1>2, Zenon DEF check_per_envelope
  <2>3. i' \in Nat \ {0}
    BY <1>0, <1>2 DEF check_per_envelope
  <2> QED BY <1>2, <2>1, <2>2, <2>3 DEF check_per_envelope, TypeOK, flags
<1>3. CASE CheckFirst
  <2>1. {Err("linkage", 1) : x \in {y \in {1} : envelopes[1].parent_id # NoParent}} \subseteq Error
    BY DEF Err, Error, ErrorKinds
  <2>2. errors' \subseteq Error /\ status' \in {"Valid", "Invalid"}
    BY <1>3, <2>1, AddErrorsType DEF CheckFirst
  <2>3. linkage_ok' \in BOOLEAN
    BY <1>3, Zenon DEF CheckFirst
  <2> QED BY <1>3, <2>2, <2>3 DEF CheckFirst, TypeOK
<1>4. CASE CheckContext
  <2>1. {Err("context", n) : n \in Deviating(ContextOf)} \subseteq Error
    <3>1. Deviating(ContextOf) \in SUBSET Nat
      BY <1>0 DEF Deviating
    <3>2. "context" \in ErrorKinds
      BY DEF ErrorKinds
    <3> QED BY <3>1, <3>2, ErrorTypes
  <2>2. errors' \subseteq Error /\ status' \in {"Valid", "Invalid"}
    BY <1>4, <2>1, AddErrorsType DEF CheckContext
  <2>3. context_uniform' \in BOOLEAN
    BY <1>4, Zenon DEF CheckContext
  <2> QED BY <1>4, <2>2, <2>3 DEF CheckContext, TypeOK
<1>5. CASE CheckPolicy
  <2>1. {Err("policy", n) : n \in Deviating(PolicyOf)} \subseteq Error
    <3>1. Deviating(PolicyOf) \in SUBSET Nat
      BY <1>0 DEF Deviating
    <3>2. "policy" \in ErrorKinds
      BY DEF ErrorKinds
    <3> QED BY <3>1, <3>2, ErrorTypes
  <2>2. errors' \subseteq Error /\ status' \in {"Valid", "Invalid"}
    BY <1>5, <2>1, AddErrorsType DEF CheckPolicy
  <2>3. policy_stable' \in BOOLEAN
    BY <1>5, Zenon DEF CheckPolicy
  <2> QED BY <1>5, <2>2, <2>3 DEF CheckPolicy, TypeOK
<1>6. CASE CheckSchema
  <2>1. {Err("schema", n) : n \in Deviating(SchemaOf)} \subseteq Error
    <3>1. Deviating(SchemaOf) \in SUBSET Nat
      BY <1>0 DEF Deviating
    <3>2. "schema" \in ErrorKinds
      BY DEF ErrorKinds
    <3> QED BY <3>1, <3>2, ErrorTypes
  <2>2. errors' \subseteq Error /\ status' \in {"Valid", "Invalid"}
    BY <1>6, <2>1, AddErrorsType DEF CheckSchema
  <2>3. schema_uniform' \in BOOLEAN
    BY <1>6, Zenon DEF CheckSchema
  <2>4. envelopes[1].event_hash \in Hash
    BY <1>6, LengthType, EnvelopeType DEF CheckSchema, RunningInv, Running
  <2> QED BY <1>6, <2>2, <2>3, <2>4 DEF CheckSchema, TypeOK
<1>7. CASE CheckPair
  <2>1. errors' \subseteq Error /\ status' \in {"Valid", "Invalid"}
    BY <1>0, <1>7, ErrorTypes, AddErrorsType DEF CheckPair
  <2>2. linkage_ok' \in BOOLEAN /\ ordering_ok' \in BOOLEAN
    BY <1>7, Zenon DEF CheckPair
  <2>3. i' \in Nat \ {0}
    BY <1>0, <1>7 DEF CheckPair
  <2>4. envelopes[i].event_hash \in Hash
    BY <1>0, <1>7, EnvelopeType DEF CheckPair
  <2> QED BY <1>7, <2>1, <2>2, <2>3, <2>4 DEF CheckPair, TypeOK
<1>8. CASE Finish
  BY <1>8 DEF Finish, TypeOK, flags
<1>9. CASE UNCHANGED vars
  BY <1>9 DEF vars, flags, TypeOK
<1> QED BY <1>1, <1>2, <1>3, <1>4, <1>5, <1>6, <1>7, <1>8, <1>9 DEF Next

----------------------------------------------------------------------------
(* One lemma for each action: it keeps the parts of ChainInv it can disturb *)

Parts ==
    AtStart /\ RunningInv /\ HashFlag /\ LinkageFlag /\ OrderingFlag /\ UniformFlags /\ StatusInv

\* What is left to show once the checks are over.
Results == FlagsMatchRules /\ VerdictMatchesRules

LEMMA IngestStep ==
    ASSUME TypeOK, Parts, Ingest
    PROVE  Parts' /\ Results'
<1>1. /\ phase = "ingest" /\ i = 1 /\ all_hashes_match
      /\ linkage_ok /\ ordering_ok /\ context_uniform /\ policy_stable /\ schema_uniform
      /\ status = "Valid"
      /\ UNCHANGED <<ingested, envelopes, i, all_hashes_match, flags>>
  BY DEF Parts, AtStart, Ingest
<1>2. CASE ~ingested
  <2>1. phase' = "done" /\ status' = "Invalid"
    BY <1>2 DEF Ingest, AddErrors
  <2> QED BY <1>1, <1>2, <2>1
          DEF Parts, AtStart, RunningInv, HashFlag, LinkageFlag, OrderingFlag, UniformFlags,
              StatusInv, Running, Results, FlagsMatchRules, VerdictMatchesRules
<1>3. CASE ingested /\ envelopes = <<>>
  <2>1. phase' = "done" /\ status' = "Valid"
    BY <1>1, <1>3 DEF Ingest
  <2>2. 1..Len(envelopes) = {} /\ 2..Len(envelopes) = {}
    BY <1>3
  <2>3. Parts'
    BY <2>1 DEF Parts, AtStart, RunningInv, HashFlag, LinkageFlag, OrderingFlag, UniformFlags,
                StatusInv, Running
  <2>4. /\ HashesMatch(envelopes) /\ EnvelopesSupported(envelopes)
        /\ HeadHasNoParent(envelopes) /\ ParentsLinked(envelopes)
        /\ TimesIncrease(envelopes) /\ NoDuplicates(envelopes)
        /\ Uniform(envelopes, ContextOf) /\ Uniform(envelopes, PolicyOf)
        /\ Uniform(envelopes, SchemaOf)
    BY <1>3, <2>2 DEF HashesMatch, EnvelopesSupported, HeadHasNoParent, ParentsLinked,
                      TimesIncrease, NoDuplicates, Uniform
  <2>5. Results'
    BY <1>1, <1>3, <2>1, <2>4
       DEF Results, FlagsMatchRules, VerdictMatchesRules, ChainAcceptable, flags
  <2> QED BY <2>3, <2>5
<1>4. CASE ingested /\ envelopes # <<>>
  <2>1. phase' = "envelopes" /\ status' = "Valid"
    BY <1>1, <1>4 DEF Ingest
  <2>2. Len(envelopes) \in Nat /\ 1..0 = {}
    BY LengthType
  <2>3. Checked' = {}
    BY <1>1, <2>1, <2>2 DEF Checked
  <2>4. RunningInv'
    BY <1>1, <1>4, <2>1, <2>2 DEF RunningInv
  <2>5. HashFlag' /\ StatusInv'
    BY <1>1, <2>1, <2>3 DEF HashFlag, StatusInv, flags
  <2>6. AtStart' /\ LinkageFlag' /\ OrderingFlag' /\ UniformFlags' /\ Results'
    BY <1>1, <2>1 DEF AtStart, LinkageFlag, OrderingFlag, UniformFlags, Results,
                      FlagsMatchRules, VerdictMatchesRules, flags
  <2> QED BY <2>4, <2>5, <2>6 DEF Parts
<1> QED BY <1>2, <1>3, <1>4, LengthType DEF Ingest

\* The status falls exactly when the step finds an error.
LEMMA EnvelopeStep ==
    ASSUME TypeOK, Parts, check_per_envelope
    PROVE  Parts' /\ Results'
<1>1. /\ phase = "envelopes" /\ phase' = "envelopes"
      /\ i \in 1..Len(envelopes)
      /\ i' = i + 1
      /\ Len(envelopes) \in Nat
      /\ UNCHANGED <<ingested, envelopes, flags>>
  BY LengthType DEF check_per_envelope, TypeOK
<1>2. Checked' = Checked \union {i} /\ Checked = 1..(i - 1)
  BY <1>1 DEF Checked
<1>3. status' = "Valid" <=>
         /\ status = "Valid"
         /\ envelopes[i].version_ok
         /\ envelopes[i].algorithms_ok
         /\ envelopes[i].recomputed = envelopes[i].event_hash
  <2>1. EnvelopeErrors(i) = {} <=>
           /\ envelopes[i].version_ok
           /\ envelopes[i].algorithms_ok
           /\ envelopes[i].recomputed = envelopes[i].event_hash
    BY DEF EnvelopeErrors
  <2>2. EnvelopeErrors(i) \in SUBSET Error
    BY <1>1, ErrorTypes
  <2> QED BY <2>1, <2>2, AddErrorsType DEF check_per_envelope
<1>4. all_hashes_match' <=> all_hashes_match /\ envelopes[i].recomputed = envelopes[i].event_hash
  BY Zenon DEF check_per_envelope
<1>5. HashFlag'
  BY <1>1, <1>2, <1>4 DEF Parts, HashFlag, Running
<1>6. StatusInv'
  BY <1>1, <1>2, <1>3, <1>4 DEF Parts, StatusInv, Running, flags
<1>7. RunningInv'
  BY <1>1 DEF Parts, RunningInv, Running
<1>8. AtStart' /\ LinkageFlag' /\ OrderingFlag' /\ UniformFlags' /\ Results'
  BY <1>1 DEF Parts, AtStart, LinkageFlag, OrderingFlag, UniformFlags, Running, Results,
              FlagsMatchRules, VerdictMatchesRules, flags
<1> QED BY <1>5, <1>6, <1>7, <1>8 DEF Parts

LEMMA FirstStep ==
    ASSUME TypeOK, Parts, CheckFirst
    PROVE  Parts' /\ Results'
<1>1. /\ phase = "envelopes" /\ phase' = "context"
      /\ i = Len(envelopes) + 1
      /\ Len(envelopes) \in Nat
      /\ envelopes # <<>> /\ ingested
      /\ UNCHANGED <<ingested, envelopes, i, all_hashes_match>>
      /\ UNCHANGED <<ordering_ok, context_uniform, policy_stable, schema_uniform>>
      /\ linkage_ok /\ ordering_ok /\ context_uniform /\ policy_stable /\ schema_uniform
  BY LengthType
     DEF CheckFirst, TypeOK, Parts, RunningInv, Running, LinkageFlag, OrderingFlag, UniformFlags
<1>2. Checked' = Checked
  BY <1>1 DEF Checked
<1>3. linkage_ok' <=> HeadHasNoParent(envelopes)
  BY <1>1 DEF CheckFirst, HeadHasNoParent
<1>4. status' = "Valid" <=> status = "Valid" /\ HeadHasNoParent(envelopes)
  <2> DEFINE new == {Err("linkage", 1) : x \in {y \in {1} : envelopes[1].parent_id # NoParent}}
  <2>1. new = {} <=> HeadHasNoParent(envelopes)
    BY <1>1 DEF HeadHasNoParent
  <2>2. new \in SUBSET Error
    BY DEF Err, Error, ErrorKinds
  <2> HIDE DEF new
  <2>3. AddErrors(new)
    BY DEF CheckFirst, new
  <2> QED BY <2>1, <2>2, <2>3, AddErrorsType
<1>5. StatusInv'
  BY <1>1, <1>2, <1>3, <1>4 DEF Parts, StatusInv, Running
<1>6. RunningInv' /\ HashFlag'
  BY <1>1, <1>2 DEF Parts, RunningInv, HashFlag, Running
<1>7. LinkageFlag'
  BY <1>1, <1>3 DEF LinkageFlag
<1>8. AtStart' /\ OrderingFlag' /\ UniformFlags' /\ Results'
  BY <1>1 DEF AtStart, OrderingFlag, UniformFlags, Running, Results, FlagsMatchRules,
              VerdictMatchesRules
<1> QED BY <1>5, <1>6, <1>7, <1>8 DEF Parts

\* Recording the deviations of one field.
LEMMA DeviationStatus ==
    ASSUME TypeOK, envelopes # <<>>, NEW field(_), NEW k \in ErrorKinds,
           AddErrors({Err(k, n) : n \in Deviating(field)})
    PROVE  status' = "Valid" <=> status = "Valid" /\ Uniform(envelopes, field)
<1>1. Deviating(field) \in SUBSET Nat
  BY DEF Deviating
<1>2. {Err(k, n) : n \in Deviating(field)} \in SUBSET Error
  BY <1>1, ErrorTypes
<1>3. {Err(k, n) : n \in Deviating(field)} = {} <=> Deviating(field) = {}
  OBVIOUS
<1> QED BY <1>2, <1>3, AddErrorsType, UniformIffNoneDeviates

LEMMA ContextStep ==
    ASSUME TypeOK, Parts, CheckContext
    PROVE  Parts' /\ Results'
<1>1. /\ phase = "context" /\ phase' = "policy"
      /\ envelopes # <<>> /\ ingested
      /\ UNCHANGED <<ingested, envelopes, i, all_hashes_match>>
      /\ UNCHANGED <<linkage_ok, ordering_ok, policy_stable, schema_uniform>>
      /\ context_uniform /\ ordering_ok
  BY DEF CheckContext, Parts, RunningInv, Running, UniformFlags, OrderingFlag
<1>2. Checked' = Checked
  BY <1>1 DEF Checked
<1>3. context_uniform' <=> Uniform(envelopes, ContextOf)
  BY <1>1, UniformIffNoneDeviates DEF CheckContext
<1>4. status' = "Valid" <=> status = "Valid" /\ Uniform(envelopes, ContextOf)
  <2>1. AddErrors({Err("context", n) : n \in Deviating(ContextOf)})
    BY DEF CheckContext
  <2>2. "context" \in ErrorKinds
    BY DEF ErrorKinds
  <2> QED BY <1>1, <2>1, <2>2, DeviationStatus
<1>5. StatusInv'
  BY <1>1, <1>2, <1>3, <1>4 DEF Parts, StatusInv, Running
<1>6. RunningInv' /\ HashFlag'
  BY <1>1, <1>2 DEF Parts, RunningInv, HashFlag, Running
<1>7. UniformFlags'
  <2>1. Uniform(envelopes, ContextOf)' <=> Uniform(envelopes, ContextOf)
    BY <1>1
  <2>2. Uniform(envelopes, PolicyOf)' <=> Uniform(envelopes, PolicyOf)
    BY <1>1
  <2> QED BY <1>1, <1>3, <2>1, <2>2 DEF Parts, UniformFlags
<1>8. AtStart' /\ LinkageFlag' /\ OrderingFlag' /\ Results'
  BY <1>1 DEF Parts, AtStart, LinkageFlag, OrderingFlag, Running, Results, FlagsMatchRules,
              VerdictMatchesRules
<1> QED BY <1>5, <1>6, <1>7, <1>8 DEF Parts

LEMMA PolicyStep ==
    ASSUME TypeOK, Parts, CheckPolicy
    PROVE  Parts' /\ Results'
<1>1. /\ phase = "policy" /\ phase' = "schema"
      /\ envelopes # <<>> /\ ingested
      /\ UNCHANGED <<ingested, envelopes, i, all_hashes_match>>
      /\ UNCHANGED <<linkage_ok, ordering_ok, context_uniform, schema_uniform>>
      /\ policy_stable /\ ordering_ok
  BY DEF CheckPolicy, Parts, RunningInv, Running, UniformFlags, OrderingFlag
<1>2. Checked' = Checked
  BY <1>1 DEF Checked
<1>3. policy_stable' <=> Uniform(envelopes, PolicyOf)
  BY <1>1, UniformIffNoneDeviates DEF CheckPolicy
<1>4. status' = "Valid" <=> status = "Valid" /\ Uniform(envelopes, PolicyOf)
  <2>1. AddErrors({Err("policy", n) : n \in Deviating(PolicyOf)})
    BY DEF CheckPolicy
  <2>2. "policy" \in ErrorKinds
    BY DEF ErrorKinds
  <2> QED BY <1>1, <2>1, <2>2, DeviationStatus
<1>5. StatusInv'
  BY <1>1, <1>2, <1>3, <1>4 DEF Parts, StatusInv, Running
<1>6. RunningInv' /\ HashFlag'
  BY <1>1, <1>2 DEF Parts, RunningInv, HashFlag, Running
<1>7. UniformFlags'
  <2>1. Uniform(envelopes, ContextOf)' <=> Uniform(envelopes, ContextOf)
    BY <1>1
  <2>2. Uniform(envelopes, PolicyOf)' <=> Uniform(envelopes, PolicyOf)
    BY <1>1
  <2> QED BY <1>1, <1>3, <2>1, <2>2 DEF Parts, UniformFlags
<1>8. AtStart' /\ LinkageFlag' /\ OrderingFlag' /\ Results'
  BY <1>1 DEF Parts, AtStart, LinkageFlag, OrderingFlag, Running, Results, FlagsMatchRules,
              VerdictMatchesRules
<1> QED BY <1>5, <1>6, <1>7, <1>8 DEF Parts

LEMMA SchemaStep ==
    ASSUME TypeOK, Parts, CheckSchema
    PROVE  Parts' /\ Results'
<1>1. /\ phase = "schema" /\ phase' = "pairs" /\ i' = 2
      /\ envelopes # <<>> /\ ingested
      /\ seen_hashes' = {envelopes[1].event_hash}
      /\ UNCHANGED <<ingested, envelopes, all_hashes_match>>
      /\ UNCHANGED <<linkage_ok, ordering_ok, context_uniform, policy_stable>>
      /\ schema_uniform /\ ordering_ok
  BY DEF CheckSchema, Parts, RunningInv, Running, UniformFlags, OrderingFlag
<1>2. Checked' = Checked
  BY <1>1 DEF Checked
<1>3. schema_uniform' <=> Uniform(envelopes, SchemaOf)
  BY <1>1, UniformIffNoneDeviates DEF CheckSchema
<1>4. status' = "Valid" <=> status = "Valid" /\ Uniform(envelopes, SchemaOf)
  <2>1. AddErrors({Err("schema", n) : n \in Deviating(SchemaOf)})
    BY DEF CheckSchema
  <2>2. "schema" \in ErrorKinds
    BY DEF ErrorKinds
  <2> QED BY <1>1, <2>1, <2>2, DeviationStatus
<1>5. Paired' = {1}
  BY <1>1 DEF Paired
<1>6. RunningInv'
  <2>1. Len(envelopes) \in Nat /\ 1 \in 1..Len(envelopes)
    BY <1>1, LengthType
  <2> QED BY <1>1, <1>5, <2>1 DEF RunningInv
<1>7. LinkageFlag' /\ OrderingFlag'
  BY <1>1, <1>5 DEF Parts, LinkageFlag, OrderingFlag
<1>8. StatusInv' /\ HashFlag'
  BY <1>1, <1>2, <1>3, <1>4 DEF Parts, StatusInv, HashFlag, Running
<1>9. UniformFlags'
  <2>1. Uniform(envelopes, ContextOf)' <=> Uniform(envelopes, ContextOf)
    BY <1>1
  <2>2. Uniform(envelopes, PolicyOf)' <=> Uniform(envelopes, PolicyOf)
    BY <1>1
  <2>3. Uniform(envelopes, SchemaOf)' <=> Uniform(envelopes, SchemaOf)
    BY <1>1
  <2> QED BY <1>1, <1>3, <2>1, <2>2, <2>3 DEF Parts, UniformFlags
<1>10. AtStart' /\ Results'
  BY <1>1 DEF AtStart, Results, FlagsMatchRules, VerdictMatchesRules
<1> QED BY <1>6, <1>7, <1>8, <1>9, <1>10 DEF Parts

\* One iteration of the pair loop: the new envelope is linked to the one before
\* it, later than all before it and unlike all before it.
LEMMA PairStep ==
    ASSUME TypeOK, Parts, CheckPair
    PROVE  Parts' /\ Results'
<1>1. /\ phase = "pairs" /\ phase' = "pairs"
      /\ i \in 2..Len(envelopes)
      /\ i' = i + 1
      /\ Len(envelopes) \in Nat
      /\ envelopes # <<>> /\ ingested
      /\ UNCHANGED <<ingested, envelopes, all_hashes_match>>
      /\ UNCHANGED <<context_uniform, policy_stable, schema_uniform>>
      /\ seen_hashes = {envelopes[n].event_hash : n \in Paired}
      /\ seen_hashes' = seen_hashes \union {envelopes[i].event_hash}
  BY LengthType DEF CheckPair, TypeOK, Parts, RunningInv, Running
<1>2. Paired = 1..(i - 1) /\ Paired' = Paired \union {i} /\ i \notin Paired
  BY <1>1 DEF Paired
<1>3. Checked' = Checked
  BY <1>1 DEF Checked
<1>4. linkage_ok' <=> linkage_ok /\ ~Duplicated(i) /\ ~Unlinked(i)
  BY Zenon DEF CheckPair
<1>5. ordering_ok' <=> ordering_ok /\ ~NotLater(i)
  BY Zenon DEF CheckPair
<1>6. status' = "Valid" <=>
         status = "Valid" /\ ~Duplicated(i) /\ ~Unlinked(i) /\ ~NotLater(i)
  <2>1. PairErrors(i) = {} <=> ~Duplicated(i) /\ ~Unlinked(i) /\ ~NotLater(i)
    BY DEF PairErrors
  <2>2. PairErrors(i) \in SUBSET Error
    BY <1>1, ErrorTypes
  <2> QED BY <2>1, <2>2, AddErrorsType DEF CheckPair
<1>7. RunningInv'
  <2>1. seen_hashes' = {envelopes[n].event_hash : n \in Paired'}
    BY <1>1, <1>2
  <2>2. i' \in 2..(Len(envelopes) + 1)
    BY <1>1
  <2> QED BY <1>1, <2>1, <2>2 DEF RunningInv
<1>8. StatusInv' /\ HashFlag'
  BY <1>1, <1>3, <1>4, <1>5, <1>6 DEF Parts, StatusInv, HashFlag, Running
<1>9. LinkageFlag'
  <2>1. Duplicated(i) <=> \E n \in Paired : envelopes[n].event_hash = envelopes[i].event_hash
    BY <1>1 DEF Duplicated
  <2>2. (\A m, n \in Paired' : envelopes[m].event_hash = envelopes[n].event_hash => m = n) <=>
           /\ \A m, n \in Paired : envelopes[m].event_hash = envelopes[n].event_hash => m = n
           /\ ~Duplicated(i)
    <3> DEFINE Same(m, n) == envelopes[m].event_hash = envelopes[n].event_hash
    <3>1. /\ i \in Paired' /\ i \notin Paired
          /\ \A n : n \in Paired' <=> n \in Paired \/ n = i
      BY <1>2
    <3>2. /\ \A n : Same(n, i) => Same(i, n)
          /\ Duplicated(i) <=> \E n \in Paired : Same(n, i)
      BY <2>1
    <3> HIDE DEF Same
    <3>3. (\A m, n \in Paired' : Same(m, n) => m = n) <=>
             (\A m, n \in Paired : Same(m, n) => m = n) /\ ~(\E n \in Paired : Same(n, i))
      <4>1. ASSUME \A m, n \in Paired' : Same(m, n) => m = n
            PROVE  (\A m, n \in Paired : Same(m, n) => m = n) /\ ~(\E n \in Paired : Same(n, i))
        BY <3>1, <4>1
      <4>2. ASSUME \A m, n \in Paired : Same(m, n) => m = n,
                   ~(\E n \in Paired : Same(n, i)),
                   NEW m \in Paired', NEW n \in Paired', Same(m, n)
            PROVE  m = n
        <5>1. Same(i, n) /\ m = i => Same(n, i)
          BY DEF Same
        <5> QED BY <3>1, <4>2, <5>1
      <4> QED BY <4>1, <4>2
    <3> QED BY <3>2, <3>3 DEF Same
  <2>3. (\A n \in Paired' : n # 1 => envelopes[n].parent_id = envelopes[n - 1].event_hash) <=>
           /\ \A n \in Paired : n # 1 => envelopes[n].parent_id = envelopes[n - 1].event_hash
           /\ ~Unlinked(i)
    BY <1>1, <1>2 DEF Unlinked
  <2>4. linkage_ok <=>
          /\ HeadHasNoParent(envelopes)
          /\ \A n \in Paired : n # 1 => envelopes[n].parent_id = envelopes[n - 1].event_hash
          /\ \A m, n \in Paired : envelopes[m].event_hash = envelopes[n].event_hash => m = n
    BY <1>1 DEF Parts, LinkageFlag
  <2>5. HeadHasNoParent(envelopes)' <=> HeadHasNoParent(envelopes)
    BY <1>1
  <2> QED BY <1>1, <1>4, <2>2, <2>3, <2>4, <2>5 DEF LinkageFlag
<1>10. OrderingFlag'
  <2>1. \A n \in Paired' : envelopes[n].logical_time \in Nat /\ n \in Nat
    BY <1>1, <1>2, EnvelopeType
  <2>2. i - 1 \in Paired /\ \A n \in Paired : n < i /\ (n = i - 1 \/ n < i - 1)
    BY <1>1, <1>2
  <2>3. ~NotLater(i) <=> envelopes[i - 1].logical_time < envelopes[i].logical_time
    <3>1. envelopes[i - 1].logical_time \in Nat /\ envelopes[i].logical_time \in Nat
      BY <1>2, <2>1, <2>2
    <3> QED BY <3>1 DEF NotLater
  <2>4. ordering_ok <=>
          \A m, n \in Paired : m < n => envelopes[m].logical_time < envelopes[n].logical_time
    BY <1>1 DEF Parts, OrderingFlag
  <2>5. ASSUME ordering_ok, ~NotLater(i), NEW m \in Paired', NEW n \in Paired', m < n
        PROVE  envelopes[m].logical_time < envelopes[n].logical_time
    <3>1. CASE n \in Paired
      <4>1. m \in Paired
        BY <1>1, <1>2, <2>5, <3>1
      <4> QED BY <2>4, <2>5, <3>1, <4>1
    <3>2. CASE n = i
      <4>1. m \in Paired
        BY <1>1, <1>2, <2>5, <3>2
      <4>2. envelopes[i - 1].logical_time < envelopes[i].logical_time
        BY <2>5, <2>3
      <4>3. m = i - 1 \/ envelopes[m].logical_time < envelopes[i - 1].logical_time
        BY <2>2, <2>4, <2>5, <4>1
      <4> QED BY <1>2, <2>1, <2>2, <3>2, <4>2, <4>3
    <3> QED BY <1>2, <3>1, <3>2
  <2>6. ASSUME \A m, n \in Paired' : m < n => envelopes[m].logical_time < envelopes[n].logical_time
        PROVE  ordering_ok /\ ~NotLater(i)
    <3>1. ordering_ok
      BY <1>2, <2>4, <2>6
    <3>2. envelopes[i - 1].logical_time < envelopes[i].logical_time
      BY <1>1, <1>2, <2>2, <2>6
    <3> QED BY <2>3, <3>1, <3>2
  <2>7. ordering_ok' <=>
          \A m, n \in Paired' : m < n => envelopes[m].logical_time < envelopes[n].logical_time
    BY <1>5, <2>5, <2>6
  <2> QED BY <1>1, <2>7 DEF OrderingFlag
<1>11. UniformFlags'
  <2>1. Uniform(envelopes, ContextOf)' <=> Uniform(envelopes, ContextOf)
    BY <1>1
  <2>2. Uniform(envelopes, PolicyOf)' <=> Uniform(envelopes, PolicyOf)
    BY <1>1
  <2>3. Uniform(envelopes, SchemaOf)' <=> Uniform(envelopes, SchemaOf)
    BY <1>1
  <2> QED BY <1>1, <2>1, <2>2, <2>3 DEF Parts, UniformFlags
<1>12. AtStart' /\ Results'
  BY <1>1 DEF AtStart, Results, FlagsMatchRules, VerdictMatchesRules
<1> QED BY <1>7, <1>8, <1>9, <1>10, <1>11, <1>12 DEF Parts

\* When both loops are over, the flags and the status speak of the whole chain.
LEMMA FinishStep ==
    ASSUME TypeOK, Parts, Finish
    PROVE  Parts' /\ Results'
<1>1. /\ phase = "pairs" /\ phase' = "done"
      /\ i = Len(envelopes) + 1
      /\ Len(envelopes) \in Nat
      /\ envelopes # <<>> /\ ingested
      /\ UNCHANGED <<ingested, envelopes, all_hashes_match, flags, status>>
  BY LengthType DEF Finish, TypeOK, Parts, RunningInv, Running
<1>2. Checked = 1..Len(envelopes) /\ Paired = 1..Len(envelopes)
  BY <1>1 DEF Checked, Paired
<1>3. all_hashes_match <=> HashesMatch(envelopes)
  BY <1>1, <1>2 DEF Parts, HashFlag, Running, HashesMatch
<1>4. linkage_ok <=> HeadHasNoParent(envelopes) /\ ParentsLinked(envelopes) /\ NoDuplicates(envelopes)
  <2>1. ParentsLinked(envelopes) <=>
          \A n \in Paired : n # 1 => envelopes[n].parent_id = envelopes[n - 1].event_hash
    BY <1>1, <1>2 DEF ParentsLinked
  <2>2. NoDuplicates(envelopes) <=>
          \A m, n \in Paired : envelopes[m].event_hash = envelopes[n].event_hash => m = n
    BY <1>2 DEF NoDuplicates
  <2> QED BY <1>1, <2>1, <2>2 DEF Parts, LinkageFlag
<1>5. ordering_ok <=> TimesIncrease(envelopes)
  BY <1>1, <1>2 DEF Parts, OrderingFlag, TimesIncrease
<1>6. /\ context_uniform <=> Uniform(envelopes, ContextOf)
      /\ policy_stable <=> Uniform(envelopes, PolicyOf)
      /\ schema_uniform <=> Uniform(envelopes, SchemaOf)
  BY <1>1 DEF Parts, UniformFlags
<1>7. FlagsMatchRules'
  <2>1. HashesMatch(envelopes)' <=> HashesMatch(envelopes)
    BY <1>1
  <2>2. /\ HeadHasNoParent(envelopes)' <=> HeadHasNoParent(envelopes)
        /\ ParentsLinked(envelopes)' <=> ParentsLinked(envelopes)
        /\ NoDuplicates(envelopes)' <=> NoDuplicates(envelopes)
    BY <1>1
  <2>3. TimesIncrease(envelopes)' <=> TimesIncrease(envelopes)
    BY <1>1
  <2>4. /\ Uniform(envelopes, ContextOf)' <=> Uniform(envelopes, ContextOf)
        /\ Uniform(envelopes, PolicyOf)' <=> Uniform(envelopes, PolicyOf)
        /\ Uniform(envelopes, SchemaOf)' <=> Uniform(envelopes, SchemaOf)
    BY <1>1
  <2>5. all_hashes_match' = all_hashes_match /\ flags' = flags
    BY <1>1
  <2>6. all_hashes_match' <=> HashesMatch(envelopes)'
    BY <1>3, <2>1, <2>5
  <2>7. linkage_ok' <=> /\ HeadHasNoParent(envelopes)'
                        /\ ParentsLinked(envelopes)'
                        /\ NoDuplicates(envelopes)'
    BY <1>4, <2>2, <2>5 DEF flags
  <2>8. ordering_ok' <=> TimesIncrease(envelopes)'
    BY <1>5, <2>3, <2>5 DEF flags
  <2>9. /\ context_uniform' <=> Uniform(envelopes, ContextOf)'
        /\ policy_stable' <=> Uniform(envelopes, PolicyOf)'
        /\ schema_uniform' <=> Uniform(envelopes, SchemaOf)'
    BY <1>6, <2>4, <2>5 DEF flags
  <2> QED BY <2>6, <2>7, <2>8, <2>9 DEF FlagsMatchRules
<1>8. VerdictMatchesRules'
  <2>1. status = "Valid" <=> ChainAcceptable(envelopes)
    BY <1>1, <1>2, <1>3, <1>4, <1>5, <1>6
       DEF Parts, StatusInv, Running, ChainAcceptable, EnvelopesSupported
  <2>2. ChainAcceptable(envelopes)' <=> ChainAcceptable(envelopes)
    BY <1>1
  <2> QED BY <1>1, <2>1, <2>2 DEF VerdictMatchesRules
<1>9. Parts'
  BY <1>1 DEF Parts, AtStart, RunningInv, HashFlag, LinkageFlag, OrderingFlag, UniformFlags,
              StatusInv, Running
<1> QED BY <1>7, <1>8, <1>9 DEF Results

----------------------------------------------------------------------------
(* The theorems *)

LEMMA ChainInvInit == Init => ChainInv
<1> SUFFICES ASSUME Init PROVE ChainInv
  OBVIOUS
<1>1. TypeOK
  <2>1. all_hashes_match \in BOOLEAN /\ linkage_ok \in BOOLEAN /\ ordering_ok \in BOOLEAN
    BY Zenon DEF Init
  <2>2. context_uniform \in BOOLEAN /\ policy_stable \in BOOLEAN /\ schema_uniform \in BOOLEAN
    BY Zenon DEF Init
  <2> QED BY <2>1, <2>2 DEF Init, TypeOK
<1> QED BY <1>1
        DEF Init, ChainInv, AtStart, RunningInv, HashFlag, LinkageFlag, OrderingFlag,
            UniformFlags, StatusInv, Running, FlagsMatchRules, VerdictMatchesRules

LEMMA ChainInvStep == ChainInv /\ [Next]_vars => ChainInv'
<1> SUFFICES ASSUME ChainInv, [Next]_vars PROVE ChainInv'
  OBVIOUS
<1>1. TypeOK /\ Parts /\ Results
  BY DEF ChainInv, Parts, Results
<1>2. TypeOK'
  BY <1>1, TypeStep DEF Parts
<1>3. Parts' /\ Results'
  <2>1. CASE UNCHANGED vars
    <3> USE <1>1, <2>1 DEF vars, flags
    <3>1. AtStart' /\ RunningInv' /\ HashFlag' /\ StatusInv'
      BY DEF Parts, AtStart, RunningInv, HashFlag, StatusInv, Running, Checked, Paired
    <3>2. LinkageFlag' /\ OrderingFlag' /\ UniformFlags'
      BY DEF Parts, LinkageFlag, OrderingFlag, UniformFlags, Running, Paired
    <3>3. Results'
      BY DEF Results, FlagsMatchRules, VerdictMatchesRules
    <3> QED BY <3>1, <3>2, <3>3 DEF Parts
  <2>2. CASE Next
    BY <1>1, <2>2, IngestStep, EnvelopeStep, FirstStep, ContextStep, PolicyStep, SchemaStep,
       PairStep, FinishStep DEF Next
  <2> QED BY <2>1, <2>2
<1> QED BY <1>2, <1>3 DEF ChainInv, Parts, Results

\* Every variable of the chain verifier keeps its type, for chains of any length.
THEOREM ChainTypes == Spec => []TypeOK
<1>1. ChainInv => TypeOK
  BY DEF ChainInv
<1> QED BY <1>1, ChainInvInit, ChainInvStep, PTL DEF Spec

\* Each flag of the result stands exactly for its rules, for chains of any
\* length: comparing neighbours and a growing set is enough to order and tell
\* apart all the envelopes.
THEOREM ChainFlagsMatchRules == Spec => []FlagsMatchRules
<1>1. ChainInv => FlagsMatchRules
  BY DEF ChainInv
<1> QED BY <1>1, ChainInvInit, ChainInvStep, PTL DEF Spec

\* The returned status is Valid exactly for the chains the rules admit.
THEOREM ChainVerdict == Spec => []VerdictMatchesRules
<1>1. ChainInv => VerdictMatchesRules
  BY DEF ChainInv
<1> QED BY <1>1, ChainInvInit, ChainInvStep, PTL DEF Spec

\* The safety part of DecidesChain: nothing is answered at the start, and every step
\* is the one decision of Verdict or leaves the input and the answer alone.
THEOREM ChainRefinesVerdict == Spec => V!Init /\ [][V!Decide]_(V!verdictVars)
<1>1. Init => V!Init
  BY DEF Init, V!Init, Answer
<1>2. ASSUME ChainInv, ChainInv', [Next]_vars
      PROVE  [V!Decide]_(V!verdictVars)
  <2> USE DEF Next, vars, flags, Ingest, check_per_envelope, CheckFirst, CheckContext, CheckPolicy,
              CheckSchema, CheckPair, Finish
  <2>1. UNCHANGED <<ingested, envelopes>>
    BY <1>2
  <2>2. CASE phase = "done" \/ phase' # "done"
    <3>1. Answer' = Answer
      BY <1>2, <2>2 DEF Answer
    <3> QED BY <2>1, <3>1 DEF V!verdictVars
  <2>3. CASE phase # "done" /\ phase' = "done"
    <3>1. Answer = "pending" /\ Answer' = status' /\ status' \in {"Valid", "Invalid"}
      BY <1>2, <2>3 DEF Answer, ChainInv, TypeOK
    <3>2. status' = "Valid" <=> InputAcceptable(<<ingested, envelopes>>)
      BY <1>2, <2>1, <2>3 DEF ChainInv, VerdictMatchesRules, InputAcceptable
    <3> QED BY <2>1, <3>1, <3>2 DEF V!Decide
  <2> QED BY <2>2, <2>3
<1>3. Spec => []ChainInv
  BY ChainInvInit, ChainInvStep, PTL DEF Spec
<1> QED BY <1>1, <1>2, <1>3, PTL DEF Spec

----------------------------------------------------------------------------
(* What a hash commits *)

\* Two envelopes of one content differ at most in their hashes.
LEMMA ContentIs ==
    ASSUME NEW e \in ReceiptEnvelope, NEW f \in ReceiptEnvelope, Content(e) = Content(f)
    PROVE  /\ e.parent_id = f.parent_id
           /\ e.logical_time = f.logical_time
           /\ e.event_hash = f.event_hash /\ e.recomputed = f.recomputed => e = f
<1> DEFINE fields == {"parent_id", "event_hash", "recomputed", "logical_time", "context_digest",
                      "policy_digest", "schema_digest", "version_ok", "algorithms_ok"}
<1>1. /\ DOMAIN e = fields /\ DOMAIN f = fields
      /\ e = [x \in fields |-> e[x]] /\ f = [x \in fields |-> f[x]]
  BY DEF ReceiptEnvelope
<1>2. ASSUME NEW x \in fields \ {"event_hash", "recomputed"}
      PROVE  e[x] = f[x]
  <2>1. Content(e)[x] = e[x] /\ Content(f)[x] = f[x]
    BY <1>1, <1>2 DEF Content
  <2> QED BY <2>1
<1>3. e.parent_id = f.parent_id /\ e.logical_time = f.logical_time
  BY <1>2
<1>4. ASSUME e.event_hash = f.event_hash, e.recomputed = f.recomputed
      PROVE  e = f
  <2>1. \A x \in fields : e[x] = f[x]
    BY <1>2, <1>4
  <2> QED BY <1>1, <2>1
<1> QED BY <1>3, <1>4

\* Where the hashes match, one hash is stated by one envelope only.
LEMMA HashCommits ==
    ASSUME NEW es, CollisionFree(es), NEW e \in es, NEW f \in es,
           e \in ReceiptEnvelope, f \in ReceiptEnvelope,
           e.recomputed = e.event_hash, f.recomputed = f.event_hash,
           e.event_hash = f.event_hash
    PROVE  e = f
<1>1. Content(e) = Content(f)
  BY DEF CollisionFree
<1> QED BY <1>1, ContentIs

----------------------------------------------------------------------------
(* Duplicates *)

LEMMA DuplicateInvInit == Init => DuplicateInv
BY DEF Init, DuplicateInv, DuplicatesAreReal

\* The errors a step adds are duplicates only in the pair loop.
LEMMA DuplicateInvStep == ChainInv /\ DuplicateInv /\ [Next]_vars => DuplicateInv'
<1> SUFFICES ASSUME ChainInv, DuplicateInv, [Next]_vars PROVE DuplicateInv'
  OBVIOUS
<1>1. UNCHANGED <<ingested, envelopes>>
  BY DEF Next, vars, flags, Ingest, check_per_envelope, CheckFirst, CheckContext, CheckPolicy,
         CheckSchema, CheckPair, Finish
<1>2. CASE CheckPair
  <2>1. /\ i \in 2..Len(envelopes) /\ Len(envelopes) \in Nat /\ ingested
        /\ seen_hashes = {envelopes[n].event_hash : n \in 1..(i - 1)}
    BY <1>2, LengthType DEF CheckPair, ChainInv, TypeOK, RunningInv, Running, Paired
  <2>2. ASSUME NEW e \in errors', e.kind = "duplicate", e \notin errors
        PROVE  \E m, n \in 1..Len(envelopes) :
                  m # n /\ envelopes[m].event_hash = envelopes[n].event_hash
    <3>1. e \in PairErrors(i)
      BY <1>2, <2>2 DEF CheckPair, AddErrors
    <3>2. Duplicated(i)
      BY <2>2, <3>1 DEF PairErrors, Err
    <3>3. PICK n \in 1..(i - 1) : envelopes[n].event_hash = envelopes[i].event_hash
      BY <2>1, <3>2 DEF Duplicated
    <3>4. n \in 1..Len(envelopes) /\ i \in 1..Len(envelopes) /\ n # i
      BY <2>1
    <3> QED BY <3>3, <3>4
  <2> QED BY <1>1, <2>1, <2>2 DEF DuplicateInv, DuplicatesAreReal
<1>3. CASE ~CheckPair
  <2>1. \A e \in errors' : e \in errors \/ e.kind # "duplicate"
    BY <1>3 DEF Next, vars, flags, Ingest, check_per_envelope, CheckFirst, CheckContext,
                CheckPolicy, CheckSchema, Finish, AddErrors, EnvelopeErrors, Err
  <2> QED BY <1>1, <2>1 DEF DuplicateInv, DuplicatesAreReal
<1> QED BY <1>2, <1>3

LEMMA ChainInvariants == Spec => [](ChainInv /\ DuplicateInv)
BY ChainInvInit, ChainInvStep, DuplicateInvInit, DuplicateInvStep, PTL DEF Spec

\* Rule 7 alone never decides: two envelopes of one hash are one content, so
\* they also break the order of the times.
THEOREM ChainDuplicateNeverDecides == Spec => []DuplicateNeverDecides
<1>1. ASSUME ChainInv, DuplicateInv
      PROVE  DuplicateNeverDecides
  <2> SUFFICES ASSUME phase = "done", all_hashes_match, ordering_ok,
                      NEW x \in errors, x.kind = "duplicate"
               PROVE  FALSE
    BY DEF DuplicateNeverDecides
  <2>1. PICK m, n \in 1..Len(envelopes) :
           m # n /\ envelopes[m].event_hash = envelopes[n].event_hash
    BY <1>1 DEF DuplicateInv, DuplicatesAreReal
  <2>2. HashesMatch(envelopes) /\ TimesIncrease(envelopes)
    BY <1>1 DEF DuplicateInv, DuplicatesAreReal, ChainInv, FlagsMatchRules
  <2>3. /\ envelopes[m] \in Elements(envelopes) /\ envelopes[n] \in Elements(envelopes)
        /\ envelopes[m] \in ReceiptEnvelope /\ envelopes[n] \in ReceiptEnvelope
        /\ envelopes[m].logical_time \in Nat
        /\ m \in Nat /\ n \in Nat
    BY <1>1, EnvelopeType DEF Elements, ChainInv
  <2>4. envelopes[m] = envelopes[n]
    BY <1>1, <2>1, <2>2, <2>3, HashCommits DEF DuplicateInv, HashesMatch
  <2>5. m < n \/ n < m
    BY <2>1, <2>3
  <2> QED BY <2>2, <2>3, <2>4, <2>5 DEF TimesIncrease
<1> QED BY <1>1, ChainInvariants, PTL

----------------------------------------------------------------------------
(* The head *)

LEMMA LeastNumber ==
    ASSUME NEW S, S \subseteq Nat, S # {}
    PROVE  \E x \in S : \A y \in S : x <= y
<1> DEFINE less == OpToRel(<, Nat)
<1>1. IsWellFoundedOn(less, Nat)
  BY NatLessThanWellFounded
<1>2. \A x, y \in Nat : x < y => <<x, y>> \in less
  BY DEF OpToRel
<1> HIDE DEF less
<1>3. PICK x \in S : \A y \in S : ~(<<y, x>> \in less)
  BY WFMin, <1>1
<1>4. \A y \in S : ~(y < x)
  BY <1>2, <1>3
<1> QED BY <1>3, <1>4

LEMMA ElementType ==
    ASSUME NEW c \in Seq(ReceiptEnvelope), NEW n \in 1..Len(c)
    PROVE  c[n] \in ReceiptEnvelope /\ c[n].event_hash \in Hash /\ c[n] \in Elements(c)
<1>1. c[n] \in ReceiptEnvelope
  OBVIOUS
<1>2. c[n].event_hash \in Hash
  BY <1>1 DEF ReceiptEnvelope
<1> QED BY <1>1, <1>2 DEF Elements

\* Going backwards from a common last hash, two valid chains never part.
LEMMA ChainsAgree ==
    ASSUME NEW c \in Seq(ReceiptEnvelope), NEW d \in Seq(ReceiptEnvelope),
           ChainAcceptable(c), ChainAcceptable(d),
           CollisionFree(Elements(c) \union Elements(d)),
           c[Len(c)].event_hash = d[Len(d)].event_hash,
           NEW k \in Nat, k < Len(c), k < Len(d)
    PROVE  c[Len(c) - k] = d[Len(d) - k]
<1> DEFINE apart == {j \in Nat : j < Len(c) /\ j < Len(d) /\ c[Len(c) - j] # d[Len(d) - j]}
<1>0. Len(c) \in Nat /\ Len(d) \in Nat
  OBVIOUS
<1>1. ASSUME NEW j \in Nat, j < Len(c), j < Len(d),
             c[Len(c) - j].event_hash = d[Len(d) - j].event_hash
      PROVE  c[Len(c) - j] = d[Len(d) - j]
  <2>1. Len(c) - j \in 1..Len(c) /\ Len(d) - j \in 1..Len(d)
    BY <1>0, <1>1
  <2>2. /\ c[Len(c) - j] \in ReceiptEnvelope /\ c[Len(c) - j] \in Elements(c)
        /\ d[Len(d) - j] \in ReceiptEnvelope /\ d[Len(d) - j] \in Elements(d)
    BY <2>1, ElementType
  <2>3. /\ c[Len(c) - j].recomputed = c[Len(c) - j].event_hash
        /\ d[Len(d) - j].recomputed = d[Len(d) - j].event_hash
    BY <2>1 DEF ChainAcceptable, HashesMatch
  <2> QED BY <1>1, <2>2, <2>3, HashCommits
<1>2. ASSUME apart # {}
      PROVE  FALSE
  <2>1. PICK j \in apart : \A l \in apart : j <= l
    BY <1>2, LeastNumber
  <2>2. CASE j = 0
    <3>1. Len(c) - 0 = Len(c) /\ Len(d) - 0 = Len(d)
      BY <1>0
    <3> QED BY <1>1, <2>1, <2>2, <3>1
  <2>3. CASE j # 0
    <3>1. /\ j - 1 \in Nat /\ j - 1 < Len(c) /\ j - 1 < Len(d) /\ ~(j <= j - 1)
          /\ Len(c) - (j - 1) \in 2..Len(c) /\ (Len(c) - (j - 1)) - 1 = Len(c) - j
          /\ Len(d) - (j - 1) \in 2..Len(d) /\ (Len(d) - (j - 1)) - 1 = Len(d) - j
      BY <1>0, <2>1, <2>3
    <3>2. c[Len(c) - (j - 1)] = d[Len(d) - (j - 1)]
      BY <2>1, <3>1
    <3>3. /\ c[Len(c) - (j - 1)].parent_id = c[Len(c) - j].event_hash
          /\ d[Len(d) - (j - 1)].parent_id = d[Len(d) - j].event_hash
      BY <3>1 DEF ChainAcceptable, ParentsLinked
    <3> QED BY <1>1, <2>1, <3>2, <3>3
  <2> QED BY <2>2, <2>3
<1> QED BY <1>2

\* Nor can one be longer: the first envelope of the shorter one has no parent.
LEMMA NotLonger ==
    ASSUME NEW c \in Seq(ReceiptEnvelope), NEW d \in Seq(ReceiptEnvelope), c # <<>>, d # <<>>,
           ChainAcceptable(c), ChainAcceptable(d),
           CollisionFree(Elements(c) \union Elements(d)),
           c[Len(c)].event_hash = d[Len(d)].event_hash
    PROVE  Len(d) <= Len(c)
<1> SUFFICES ASSUME Len(c) < Len(d) PROVE FALSE
  OBVIOUS
<1>1. /\ Len(c) - 1 \in Nat /\ Len(c) - 1 < Len(c) /\ Len(c) - 1 < Len(d)
      /\ Len(c) - (Len(c) - 1) = 1
      /\ Len(d) - (Len(c) - 1) \in 2..Len(d)
      /\ (Len(d) - (Len(c) - 1)) - 1 \in 1..Len(d)
  OBVIOUS
<1>2. c[1] = d[Len(d) - (Len(c) - 1)]
  BY <1>1, ChainsAgree
<1>3. c[1].parent_id = NoParent
  BY DEF ChainAcceptable, HeadHasNoParent
<1>4. d[Len(d) - (Len(c) - 1)].parent_id = d[(Len(d) - (Len(c) - 1)) - 1].event_hash
  BY <1>1 DEF ChainAcceptable, ParentsLinked
<1>5. d[(Len(d) - (Len(c) - 1)) - 1].event_hash \in Hash
  BY <1>1, ElementType
<1> QED BY <1>2, <1>3, <1>4, <1>5, NoParentAssumption

\* Two valid chains of one head are one chain.
LEMMA SameHeadSameChain ==
    ASSUME NEW c \in Seq(ReceiptEnvelope), NEW d \in Seq(ReceiptEnvelope), c # <<>>, d # <<>>,
           ChainAcceptable(c), ChainAcceptable(d),
           CollisionFree(Elements(c) \union Elements(d)),
           c[Len(c)].event_hash = d[Len(d)].event_hash
    PROVE  c = d
<1>1. Elements(d) \union Elements(c) = Elements(c) \union Elements(d)
  OBVIOUS
<1>2. Len(c) = Len(d)
  <2>1. Len(d) <= Len(c)
    BY NotLonger
  <2>2. Len(c) <= Len(d)
    BY <1>1, NotLonger
  <2> QED BY <2>1, <2>2
<1>3. ASSUME NEW n \in 1..Len(c) PROVE c[n] = d[n]
  <2>1. Len(c) - n \in Nat /\ Len(c) - n < Len(c) /\ Len(c) - (Len(c) - n) = n
    OBVIOUS
  <2> QED BY <1>2, <2>1, ChainsAgree
<1> QED BY <1>2, <1>3

\* The last hash of a valid chain commits all of it, whichever chains it is
\* compared with.
THEOREM ChainHeadCommits == Spec => []HeadCommitsChain
<1>1. ASSUME ChainInv PROVE HeadCommitsChain
  <2> SUFFICES ASSUME phase = "done", status = "Valid", envelopes # <<>>,
                      NEW c \in OtherChains, c # <<>>, ChainAcceptable(c),
                      c[Len(c)].event_hash = envelopes[Len(envelopes)].event_hash,
                      CollisionFree(Elements(c) \union Elements(envelopes))
               PROVE  c = envelopes
    BY DEF HeadCommitsChain
  <2>1. ChainAcceptable(envelopes) /\ envelopes \in Seq(ReceiptEnvelope)
    BY <1>1 DEF ChainInv, TypeOK, VerdictMatchesRules
  <2> QED BY <2>1, OtherChainsAssumption, SameHeadSameChain
<1> QED BY <1>1, ChainInvariants, PTL

=============================================================================
