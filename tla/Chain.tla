------------------------------- MODULE Chain -------------------------------
(***************************************************************************)
(* verify_receipt_chain of verify.rs with check_chain_detail of chain.rs:  *)
(* the envelopes are checked one by one, then the chain rules are checked  *)
(* over all of them; every violation is collected.                         *)
(*                                                                         *)
(* An envelope carries the fields the checks read.  `recomputed` is the    *)
(* hash compute_event_hash returns for it (vertrule_schemas, external).    *)
(* Positions are counted from 1.                                           *)
(***************************************************************************)
EXTENDS Naturals, Sequences

CONSTANTS
    Hash,       \* event hashes
    NoParent,   \* parent_id is None
    Context, Policy, Schema   \* digests

ASSUME NoParentAssumption == NoParent \notin Hash

VARIABLES
    ingested,     \* whether ingest_chain accepts the input bytes
    envelopes,    \* the envelopes it yields
    phase,
    i,            \* position of the running loop
    seen_hashes,
    errors,       \* kind and position of each error
    all_hashes_match,
    linkage_ok, ordering_ok, context_uniform, policy_stable, schema_uniform,
    status        \* status of the result being assembled

flags == <<linkage_ok, ordering_ok, context_uniform, policy_stable, schema_uniform>>

vars == <<ingested, envelopes, phase, i, seen_hashes, errors, all_hashes_match, flags, status>>

----------------------------------------------------------------------------
(* Data *)

\* The version is checked of envelopes that only exist with the supported one:
\* SchemaVersion is validated as it is constructed.
ReceiptEnvelope ==
    [parent_id : Hash \union {NoParent}, event_hash : Hash, recomputed : Hash,
     logical_time : Nat, context_digest : Context, policy_digest : Policy,
     schema_digest : Schema, version_ok : {TRUE}, algorithms_ok : BOOLEAN]

ErrorKinds == {"ingest", "version", "algorithms", "event_hash", "linkage", "context",
               "policy", "schema", "duplicate", "time"}

Error == [kind : ErrorKinds, index : Nat]

Err(k, n) == [kind |-> k, index |-> n]

\* The part of an envelope its event_hash commits: everything else.
Content(e) == [f \in DOMAIN e \ {"event_hash", "recomputed"} |-> e[f]]

\* The hash tells different contents apart, and gives one content one hash.
CollisionFree(es) ==
    \A e, f \in es : e.recomputed = f.recomputed <=> Content(e) = Content(f)

Elements(s) == {s[n] : n \in 1..Len(s)}

----------------------------------------------------------------------------
(* The verifier *)

Init ==
    /\ ingested \in BOOLEAN
    /\ envelopes \in Seq(ReceiptEnvelope)
    /\ CollisionFree(Elements(envelopes))
    /\ phase = "ingest"
    /\ i = 1
    /\ seen_hashes = {}
    /\ errors = {}
    /\ all_hashes_match = TRUE
    /\ linkage_ok = TRUE
    /\ ordering_ok = TRUE
    /\ context_uniform = TRUE
    /\ policy_stable = TRUE
    /\ schema_uniform = TRUE
    /\ status = "Valid"

\* add_error for each error of a set.
AddErrors(new) ==
    /\ errors' = errors \union new
    /\ status' = IF new = {} THEN status ELSE "Invalid"

\* Ingestion fails closed; an empty chain is valid at once.
Ingest ==
    /\ phase = "ingest"
    /\ \/ /\ ~ingested
          /\ AddErrors({Err("ingest", 0)})
          /\ phase' = "done"
       \/ /\ ingested
          /\ envelopes = <<>>
          /\ phase' = "done"
          /\ UNCHANGED <<errors, status>>
       \/ /\ ingested
          /\ envelopes # <<>>
          /\ phase' = "envelopes"
          /\ UNCHANGED <<errors, status>>
    /\ UNCHANGED <<ingested, envelopes, i, seen_hashes, all_hashes_match, flags>>

EnvelopeErrors(n) ==
    LET e == envelopes[n] IN
    {Err(k, n) : k \in {x \in {"version"} : ~e.version_ok}
                       \union {x \in {"algorithms"} : ~e.algorithms_ok}
                       \union {x \in {"event_hash"} : e.recomputed # e.event_hash}}

\* A mutant: a hash mismatch is an error but does not clear the flag.
check_per_envelope_unflagged ==
    /\ phase = "envelopes"
    /\ i <= Len(envelopes)
    /\ AddErrors(EnvelopeErrors(i))
    /\ i' = i + 1
    /\ UNCHANGED <<ingested, envelopes, phase, seen_hashes, all_hashes_match, flags>>

\* One iteration of check_per_envelope.
check_per_envelope ==
    /\ phase = "envelopes"
    /\ i <= Len(envelopes)
    /\ AddErrors(EnvelopeErrors(i))
    /\ all_hashes_match' = (all_hashes_match /\ envelopes[i].recomputed = envelopes[i].event_hash)
    /\ i' = i + 1
    /\ UNCHANGED <<ingested, envelopes, phase, seen_hashes, flags>>

\* A mutant: a first envelope with a parent clears the flag without an error.
CheckFirstSilent ==
    /\ phase = "envelopes"
    /\ i > Len(envelopes)
    /\ linkage_ok' = (envelopes[1].parent_id = NoParent)
    /\ phase' = "context"
    /\ UNCHANGED <<ingested, envelopes, i, seen_hashes, errors, all_hashes_match, status>>
    /\ UNCHANGED <<ordering_ok, context_uniform, policy_stable, schema_uniform>>

\* check_chain_detail starts: the first envelope must have no parent.
CheckFirst ==
    /\ phase = "envelopes"
    /\ i > Len(envelopes)
    /\ AddErrors({Err("linkage", 1) : x \in {y \in {1} : envelopes[1].parent_id # NoParent}})
    /\ linkage_ok' = (envelopes[1].parent_id = NoParent)
    /\ phase' = "context"
    /\ UNCHANGED <<ingested, envelopes, i, seen_hashes, all_hashes_match>>
    /\ UNCHANGED <<ordering_ok, context_uniform, policy_stable, schema_uniform>>

\* Positions whose field differs from that of the first envelope.
Deviating(field(_)) ==
    {n \in 2..Len(envelopes) : field(envelopes[n]) # field(envelopes[1])}

ContextOf(e) == e.context_digest
PolicyOf(e) == e.policy_digest
SchemaOf(e) == e.schema_digest

CheckContext ==
    /\ phase = "context"
    /\ AddErrors({Err("context", n) : n \in Deviating(ContextOf)})
    /\ context_uniform' = (Deviating(ContextOf) = {})
    /\ phase' = "policy"
    /\ UNCHANGED <<ingested, envelopes, i, seen_hashes, all_hashes_match>>
    /\ UNCHANGED <<linkage_ok, ordering_ok, policy_stable, schema_uniform>>

CheckPolicy ==
    /\ phase = "policy"
    /\ AddErrors({Err("policy", n) : n \in Deviating(PolicyOf)})
    /\ policy_stable' = (Deviating(PolicyOf) = {})
    /\ phase' = "schema"
    /\ UNCHANGED <<ingested, envelopes, i, seen_hashes, all_hashes_match>>
    /\ UNCHANGED <<linkage_ok, ordering_ok, context_uniform, schema_uniform>>

\* The last uniformity check; then the pair loop starts at the second envelope
\* with the first one's hash seen.
CheckSchema ==
    /\ phase = "schema"
    /\ AddErrors({Err("schema", n) : n \in Deviating(SchemaOf)})
    /\ schema_uniform' = (Deviating(SchemaOf) = {})
    /\ phase' = "pairs"
    /\ i' = 2
    /\ seen_hashes' = {envelopes[1].event_hash}
    /\ UNCHANGED <<ingested, envelopes, all_hashes_match>>
    /\ UNCHANGED <<linkage_ok, ordering_ok, context_uniform, policy_stable>>

Duplicated(n) == envelopes[n].event_hash \in seen_hashes
Unlinked(n) == envelopes[n].parent_id # envelopes[n - 1].event_hash
\* A mutant: equal times are in order.
Earlier(n) == envelopes[n].logical_time < envelopes[n - 1].logical_time

NotLater(n) == envelopes[n].logical_time <= envelopes[n - 1].logical_time

\* A mutant: the link to the envelope before is not an error.
PairErrorsUnlinked(n) ==
    {Err(k, n) : k \in {x \in {"duplicate"} : Duplicated(n)}
                       \union {x \in {"time"} : NotLater(n)}}

PairErrors(n) ==
    {Err(k, n) : k \in {x \in {"duplicate"} : Duplicated(n)}
                       \union {x \in {"linkage"} : Unlinked(n)}
                       \union {x \in {"time"} : NotLater(n)}}

\* One iteration of the pair loop.
CheckPair ==
    /\ phase = "pairs"
    /\ i <= Len(envelopes)
    /\ AddErrors(PairErrors(i))
    /\ linkage_ok' = (linkage_ok /\ ~Duplicated(i) /\ ~Unlinked(i))
    /\ ordering_ok' = (ordering_ok /\ ~NotLater(i))
    /\ seen_hashes' = seen_hashes \union {envelopes[i].event_hash}
    /\ i' = i + 1
    /\ UNCHANGED <<ingested, envelopes, phase, all_hashes_match>>
    /\ UNCHANGED <<context_uniform, policy_stable, schema_uniform>>

\* The loop is over: the result is returned.
Finish ==
    /\ phase = "pairs"
    /\ i > Len(envelopes)
    /\ phase' = "done"
    /\ UNCHANGED <<ingested, envelopes, i, seen_hashes, errors, all_hashes_match, flags, status>>

Next ==
    \/ Ingest
    \/ check_per_envelope
    \/ CheckFirst
    \/ CheckContext
    \/ CheckPolicy
    \/ CheckSchema
    \/ CheckPair
    \/ Finish

Spec == Init /\ [][Next]_vars

FairSpec == Spec /\ WF_vars(Next)

----------------------------------------------------------------------------
(* The rules of a valid chain, as the documentation of chain.rs lists them *)

HeadHasNoParent(c) == c # <<>> => c[1].parent_id = NoParent
ParentsLinked(c) == \A n \in 2..Len(c) : c[n].parent_id = c[n - 1].event_hash
TimesIncrease(c) == \A m, n \in 1..Len(c) : m < n => c[m].logical_time < c[n].logical_time
NoDuplicates(c) == \A m, n \in 1..Len(c) : c[m].event_hash = c[n].event_hash => m = n
Uniform(c, field(_)) == \A m, n \in 1..Len(c) : field(c[m]) = field(c[n])
HashesMatch(c) == \A n \in 1..Len(c) : c[n].recomputed = c[n].event_hash
EnvelopesSupported(c) == \A n \in 1..Len(c) : c[n].version_ok /\ c[n].algorithms_ok

ChainAcceptable(c) ==
    /\ EnvelopesSupported(c)
    /\ HashesMatch(c)
    /\ HeadHasNoParent(c)
    /\ ParentsLinked(c)
    /\ TimesIncrease(c)
    /\ Uniform(c, ContextOf)
    /\ Uniform(c, PolicyOf)
    /\ Uniform(c, SchemaOf)
    /\ NoDuplicates(c)

InputAcceptable(in) == in[1] /\ ChainAcceptable(in[2])

\* The answer is the status of the result once it is returned.
Answer == IF phase = "done" THEN status ELSE "pending"

V == INSTANCE Verdict WITH Acceptable <- InputAcceptable,
                           input <- <<ingested, envelopes>>, verdict <- Answer

----------------------------------------------------------------------------
(* Properties *)

\* Every variable of the chain verifier keeps its type.
TypeOK ==
    /\ ingested \in BOOLEAN
    /\ envelopes \in Seq(ReceiptEnvelope)
    /\ phase \in {"ingest", "envelopes", "context", "policy", "schema", "pairs", "done"}
    /\ i \in Nat \ {0}
    /\ seen_hashes \subseteq Hash
    /\ errors \subseteq Error
    /\ all_hashes_match \in BOOLEAN
    /\ linkage_ok \in BOOLEAN
    /\ ordering_ok \in BOOLEAN
    /\ context_uniform \in BOOLEAN
    /\ policy_stable \in BOOLEAN
    /\ schema_uniform \in BOOLEAN
    /\ status \in {"Valid", "Invalid"}

\* The chain is answered VALID exactly when the seven rules of chain.rs hold of
\* it and every envelope verifies; rules 3 and 7 hold of every pair although the
\* code compares neighbours and a growing set.
DecidesChain == V!Spec

\* Each flag of the result stands for its rules and for no other: a caller that
\* reads digest_validation or a consistency field reads the truth about it.
FlagsMatchRules ==
    phase = "done" /\ ingested =>
        /\ all_hashes_match <=> HashesMatch(envelopes)
        /\ linkage_ok <=> /\ HeadHasNoParent(envelopes)
                          /\ ParentsLinked(envelopes)
                          /\ NoDuplicates(envelopes)
        /\ ordering_ok <=> TimesIncrease(envelopes)
        /\ context_uniform <=> Uniform(envelopes, ContextOf)
        /\ policy_stable <=> Uniform(envelopes, PolicyOf)
        /\ schema_uniform <=> Uniform(envelopes, SchemaOf)

\* In a chain whose hashes match and whose times increase no hash can repeat, so
\* a duplicate never comes without another violation: the duplicate rule alone
\* never decides.
DuplicateNeverDecides ==
    phase = "done" /\ all_hashes_match /\ ordering_ok =>
        \A e \in errors : e.kind # "duplicate"

----------------------------------------------------------------------------
(* The inductive invariant behind FlagsMatchRules and the verdict *)

\* The envelopes the first loop has checked.
Checked == IF phase = "envelopes" THEN 1..(i - 1) ELSE 1..Len(envelopes)

\* The envelopes whose pair the second loop has checked.
Paired == IF phase = "pairs" THEN 1..(i - 1) ELSE 1..Len(envelopes)

AtStart ==
    phase = "ingest" =>
        /\ i = 1 /\ all_hashes_match
        /\ linkage_ok /\ ordering_ok /\ context_uniform /\ policy_stable /\ schema_uniform
        /\ status = "Valid"

Running == phase \in {"envelopes", "context", "policy", "schema", "pairs"}

RunningInv ==
    Running =>
        /\ ingested
        /\ envelopes # <<>>
        /\ phase = "envelopes" => i <= Len(envelopes) + 1
        /\ phase = "pairs" => /\ i \in 2..(Len(envelopes) + 1)
                              /\ seen_hashes = {envelopes[n].event_hash : n \in Paired}

HashFlag == Running => (all_hashes_match <=> \A n \in Checked : envelopes[n].recomputed = envelopes[n].event_hash)

LinkageFlag ==
    /\ phase = "envelopes" => linkage_ok
    /\ phase \in {"context", "policy", "schema"} => (linkage_ok <=> HeadHasNoParent(envelopes))
    /\ phase = "pairs" =>
          (linkage_ok <=>
             /\ HeadHasNoParent(envelopes)
             /\ \A n \in Paired : n # 1 => envelopes[n].parent_id = envelopes[n - 1].event_hash
             /\ \A m, n \in Paired : envelopes[m].event_hash = envelopes[n].event_hash => m = n)

OrderingFlag ==
    /\ Running /\ phase # "pairs" => ordering_ok
    /\ phase = "pairs" =>
          (ordering_ok <=> \A m, n \in Paired : m < n => envelopes[m].logical_time < envelopes[n].logical_time)

UniformFlags ==
    /\ phase \in {"envelopes", "context"} => context_uniform
    /\ phase \in {"policy", "schema", "pairs"} => (context_uniform <=> Uniform(envelopes, ContextOf))
    /\ phase \in {"envelopes", "context", "policy"} => policy_stable
    /\ phase \in {"schema", "pairs"} => (policy_stable <=> Uniform(envelopes, PolicyOf))
    /\ phase \in {"envelopes", "context", "policy", "schema"} => schema_uniform
    /\ phase = "pairs" => (schema_uniform <=> Uniform(envelopes, SchemaOf))

\* The status is Valid while no check has failed.
StatusInv ==
    Running =>
        (status = "Valid" <=>
            /\ \A n \in Checked : envelopes[n].version_ok /\ envelopes[n].algorithms_ok
            /\ all_hashes_match
            /\ linkage_ok /\ ordering_ok
            /\ context_uniform /\ policy_stable /\ schema_uniform)

\* The verdict once the result is returned.
VerdictMatchesRules ==
    phase = "done" => (status = "Valid" <=> ingested /\ ChainAcceptable(envelopes))

\* A duplicate is reported of two envelopes that state one hash.
DuplicatesAreReal ==
    \A e \in errors : e.kind = "duplicate" =>
        ingested /\ \E m, n \in 1..Len(envelopes) :
            m # n /\ envelopes[m].event_hash = envelopes[n].event_hash

\* While the chain is checked, each flag stands for its rules over the part of
\* the chain already passed, and the status for all of them.
ChainInv ==
    /\ TypeOK
    /\ AtStart
    /\ RunningInv
    /\ HashFlag
    /\ LinkageFlag
    /\ OrderingFlag
    /\ UniformFlags
    /\ StatusInv
    /\ FlagsMatchRules
    /\ VerdictMatchesRules

\* The chain is that of the start, and its duplicates are its own.
DuplicateInv ==
    /\ CollisionFree(Elements(envelopes))
    /\ DuplicatesAreReal

=============================================================================
