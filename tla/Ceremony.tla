------------------------------ MODULE Ceremony ------------------------------
(***************************************************************************)
(* examples/generate_constitutional_artifact.rs: one signed receipt for    *)
(* each constitutional crate, linked into a chain, written to files and    *)
(* then verified from the files.  The sources it reads may be edited at    *)
(* any time, the program may stop at any step, and it is run again over    *)
(* what it left.                                                           *)
(*                                                                         *)
(* The content of a file stands for its digest, and the content of an      *)
(* envelope for its hash (BLAKE3 tells contents apart).                    *)
(***************************************************************************)
EXTENDS ArtifactFiles

CONSTANTS
    CrateCount,  \* how many of the crates there are
    Text,        \* contents of the files that are read
    Complete,    \* those in which a manifest states version and determinism
    Absent,      \* no value
    MaxEdits     \* edits of the sources

ASSUME CrateCountAssumption == CrateCount \in 1..6

VARIABLES
    wire,           \* the kind of JSON value the library serializes a logical time as
    sources,        \* contents of the files that are read
    edits,
    crate,          \* position of the crate at hand
    reading,        \* what was read of it so far
    policy_digest,  \* read once
    envelope,       \* at hand
    parent_hash,
    envelopes       \* those already written

memory == <<crate, reading, policy_digest, envelope, parent_hash, envelopes>>

worldVars == <<wire, sources, edits>>

ceremonyVars == <<fileVars, worldVars, memory>>

----------------------------------------------------------------------------
(* Data *)

Crate(name, logical_time) == [name |-> name, logical_time |-> logical_time]

CONSTITUTIONAL_CRATES ==
    SubSeq(<<Crate("vertrule-schemas", 0), Crate("vr-jcs", 1000), Crate("vr-time", 1001),
             Crate("vr-receipt", 2000), Crate("vr-rbh", 3000), Crate("vertrule-verifier", 4000)>>,
           1, CrateCount)

Names == {CONSTITUTIONAL_CRATES[n].name : n \in 1..Len(CONSTITUTIONAL_CRATES)}

\* The files read for each crate, in this order: the manifest twice, once for its
\* fields and once for its digest.
Reads == <<"manifest", "source", "manifest", "known_nd">>

PolicyFile == <<"vertrule-schemas", "policy">>

SourceFile == (Names \X {Reads[n] : n \in 1..Len(Reads)}) \union {PolicyFile}

Name == CONSTITUTIONAL_CRATES[crate].name

EnvPath(name) == <<name, "json">>
SigPath(name) == <<name, "sig">>
ChainPath == <<"chain", "json">>

----------------------------------------------------------------------------
(* The program *)

Forget ==
    /\ crate = 1 /\ reading = <<>> /\ policy_digest = Absent /\ envelope = Absent
    /\ parent_hash = Absent /\ envelopes = <<>>

CeremonyInit ==
    /\ FilesInit
    /\ step = "policy"
    /\ wire \in {"integer", "string"}
    /\ sources \in [SourceFile -> Complete]
    /\ edits = 0
    /\ Forget

\* Someone edits a source.
Edit ==
    /\ edits < MaxEdits
    /\ \E f \in SourceFile, t \in Text : sources' = [sources EXCEPT ![f] = t]
    /\ edits' = edits + 1
    /\ UNCHANGED <<fileVars, wire, memory>>

\* The toolchain and the policy file.
ReadPolicy ==
    /\ Running /\ step = "policy"
    /\ policy_digest' = sources[PolicyFile]
    /\ GoOn("read")
    /\ UNCHANGED <<disk, worldVars, crate, reading, envelope, parent_hash, envelopes>>

\* A manifest without the two fields is an error; its digest can still be taken.
extract_field_from_section(text) == text \in Complete

ReadSource ==
    /\ Running /\ step = "read"
    /\ Len(reading) < Len(Reads)
    /\ LET text == sources[<<Name, Reads[Len(reading) + 1]>>] IN
       \/ /\ reading = <<>> /\ ~extract_field_from_section(text)
          /\ Fail(TRUE)
          /\ UNCHANGED memory
       \/ /\ reading = <<>> => extract_field_from_section(text)
          /\ reading' = Append(reading, text)
          /\ GoOn("read")
          /\ UNCHANGED <<disk, crate, policy_digest, envelope, parent_hash, envelopes>>
    /\ UNCHANGED worldVars

compute_context_digest(policy) == <<"constitutional-ceremony-v0", policy>>

\* event_hash and signature commit everything but event_hash.
Envelope(policy) ==
    LET body == [crate_name |-> Name,
                 logical_time |-> CONSTITUTIONAL_CRATES[crate].logical_time,
                 context_digest |-> compute_context_digest(policy),
                 policy_digest |-> policy,
                 parent_id |-> parent_hash,
                 payload |-> [crate_version |-> reading[1], source_digest |-> reading[2],
                              governance_manifest_digest |-> reading[3],
                              known_nondeterminism_digest |-> reading[4]]]
    IN  [body |-> body, event_hash |-> body]

\* A mutant: the policy file is read anew for each crate.
BuildEnvelopeRereading ==
    /\ Running /\ step = "read"
    /\ Len(reading) = Len(Reads)
    /\ envelope' = Envelope(sources[PolicyFile])
    /\ GoOn("create_envelope")
    /\ UNCHANGED <<disk, worldVars, crate, reading, policy_digest, parent_hash, envelopes>>

BuildEnvelope ==
    /\ Running /\ step = "read"
    /\ Len(reading) = Len(Reads)
    /\ envelope' = Envelope(policy_digest)
    /\ GoOn("create_envelope")
    /\ UNCHANGED <<disk, worldVars, crate, reading, policy_digest, parent_hash, envelopes>>

\* A mutant: the content is signed as if there were no parent.
sign_envelope_detached(e) ==
    [content |-> [e.body EXCEPT !.parent_id = Absent], timestamp |-> "ceremony-v0"]

sign_envelope(e) == [content |-> e.body, timestamp |-> "ceremony-v0"]

\* write_canonical, in two steps: the file is emptied, then written.
WriteCanonical(create, write, path, content, next) ==
    /\ Running
    /\ \/ step = create /\ Create(path) /\ GoOn(write)
       \/ step = write /\ WriteAll(path, content) /\ GoOn(next)
    /\ UNCHANGED <<worldVars, memory>>

\* A mutant: a file of an earlier run is kept.
WriteEnvelopeOnce ==
    \/ /\ Running /\ step = "create_envelope"
       /\ Whole(EnvPath(Name)) /\ Whole(SigPath(Name))
       /\ GoOn("link")
       /\ UNCHANGED <<disk, worldVars, memory>>
    \/ /\ step = "create_envelope" => ~(Whole(EnvPath(Name)) /\ Whole(SigPath(Name)))
       /\ WriteCanonical("create_envelope", "write_envelope", EnvPath(Name), envelope, "create_sig")

WriteEnvelope ==
    WriteCanonical("create_envelope", "write_envelope", EnvPath(Name), envelope, "create_sig")

WriteSignature ==
    WriteCanonical("create_sig", "write_sig", SigPath(Name), sign_envelope(envelope), "link")

\* The end of the loop's body.
LinkEnvelope ==
    /\ Running /\ step = "link"
    /\ parent_hash' = envelope.event_hash
    /\ envelopes' = Append(envelopes, envelope)
    /\ envelope' = Absent
    /\ reading' = <<>>
    /\ IF crate < Len(CONSTITUTIONAL_CRATES)
       THEN crate' = crate + 1 /\ GoOn("read")
       ELSE crate' = 1 /\ GoOn("create_chain")
    /\ UNCHANGED <<disk, worldVars, policy_digest>>

WriteChain == WriteCanonical("create_chain", "write_chain", ChainPath, envelopes, "verify")

----------------------------------------------------------------------------
(* Self-verification, from the files *)

\* The hash the library computes: of the envelope serialized in its own form.
Recomputed(e) == IF wire = "integer" THEN e.body ELSE Absent

\* verify_signed_receipt on the two files of a crate.
verify_signed_receipt(name) ==
    /\ Whole(EnvPath(name)) /\ Whole(SigPath(name))
    /\ LET e == disk[EnvPath(name)][1]
           s == disk[SigPath(name)][1]
       IN  e.event_hash = Recomputed(e) /\ s.content = Recomputed(e)

VerifyReceipt ==
    /\ Running /\ step = "verify"
    /\ crate <= Len(CONSTITUTIONAL_CRATES)
    /\ \/ /\ ~verify_signed_receipt(Name)
          /\ Fail(FALSE)
          /\ UNCHANGED memory
       \/ /\ verify_signed_receipt(Name)
          /\ crate' = crate + 1
          /\ GoOn("verify")
          /\ UNCHANGED <<disk, reading, policy_digest, envelope, parent_hash, envelopes>>
    /\ UNCHANGED worldVars

\* An envelope as the chain verifier reads it.
ChainElement(e) ==
    [parent_id |-> e.body.parent_id, event_hash |-> e.event_hash,
     recomputed |-> Recomputed(e), logical_time |-> e.body.logical_time,
     context_digest |-> e.body.context_digest, policy_digest |-> e.body.policy_digest,
     schema_digest |-> "GovernanceReceipt.schema.json",
     version_ok |-> TRUE, algorithms_ok |-> TRUE]

ChainElements == [n \in DOMAIN disk[ChainPath][1] |-> ChainElement(disk[ChainPath][1][n])]

\* What the chain verifier decides; its state is not used here.
C == INSTANCE Chain WITH
        Hash <- {}, NoParent <- Absent, Context <- {}, Policy <- {}, Schema <- {},
        ingested <- Absent, envelopes <- Absent, phase <- Absent, i <- Absent,
        seen_hashes <- Absent, errors <- Absent, all_hashes_match <- Absent,
        linkage_ok <- Absent, ordering_ok <- Absent, context_uniform <- Absent,
        policy_stable <- Absent, schema_uniform <- Absent, status <- Absent

\* verify_receipt_chain; its flags hold in a valid chain.
VerifyChain ==
    /\ Running /\ step = "verify"
    /\ crate > Len(CONSTITUTIONAL_CRATES)
    /\ \/ /\ Whole(ChainPath) /\ C!ChainAcceptable(ChainElements)
          /\ exit' = "done"
          /\ UNCHANGED <<disk, step, fault, runs>>
       \/ /\ ~(Whole(ChainPath) /\ C!ChainAcceptable(ChainElements))
          /\ Fail(FALSE)
    /\ UNCHANGED <<worldVars, memory>>

CeremonyStep ==
    \/ ReadPolicy
    \/ ReadSource
    \/ BuildEnvelope
    \/ WriteEnvelope
    \/ WriteSignature
    \/ LinkEnvelope
    \/ WriteChain
    \/ VerifyReceipt
    \/ VerifyChain

StopCeremony == Stop /\ UNCHANGED <<worldVars, memory>>

RestartCeremony ==
    /\ Restart("policy")
    /\ crate' = 1 /\ reading' = <<>> /\ policy_digest' = Absent /\ envelope' = Absent
    /\ parent_hash' = Absent /\ envelopes' = <<>>
    /\ UNCHANGED worldVars

CeremonyNext ==
    \/ CeremonyStep
    \/ StopCeremony
    \/ RestartCeremony
    \/ Edit

CeremonySpec == CeremonyInit /\ [][CeremonyNext]_ceremonyVars

----------------------------------------------------------------------------
(* Properties *)

\* "All artifacts generated and verified": when the program says so, whatever was
\* edited and whatever earlier runs left, the files are those of one chain.  The
\* program checks the files of each crate and the chain, but never that they
\* belong together: element n of the chain is the envelope in the file of crate n,
\* and the signature beside it is over that envelope.
DoneMeansCoherent ==
    exit = "done" =>
        /\ Whole(ChainPath)
        /\ Len(disk[ChainPath][1]) = Len(CONSTITUTIONAL_CRATES)
        /\ \A n \in 1..Len(CONSTITUTIONAL_CRATES) :
              LET e == disk[ChainPath][1][n]
                  name == CONSTITUTIONAL_CRATES[n].name
              IN  /\ e.body.crate_name = name
                  /\ disk[EnvPath(name)] = <<e>>
                  /\ disk[SigPath(name)] = <<sign_envelope(e)>>

\* At any moment, in the middle of a run too and after a run that stopped, a chain
\* file that is whole is a chain by the rules of chain.rs: one context and one
\* policy even if the policy file was edited in between.
ChainIsOneRun ==
    wire = "integer" /\ Whole(ChainPath) => C!ChainAcceptable(ChainElements)

\* A run that is left alone ends, and ends well: no edit during the run and
\* nothing an earlier run left makes its own verification fail.
UndisturbedRunSucceeds ==
    Running /\ wire = "integer" ~> exit = "done" \/ fault

----------------------------------------------------------------------------
(* A claim of the documentation the code does not keep *)

\* The header: "self-verifies every artifact".  The ceremony hashes a logical time
\* as a number; generate_test_vectors.rs: "Canonical wire form is a decimal
\* string".  With that form, only a fault makes the ceremony fail.
CeremonyVerifiesItself == wire = "string" /\ exit = "failed" => fault

----------------------------------------------------------------------------
(* The invariant of the ceremony *)

Holds(path, content) == path \in DOMAIN disk /\ disk[path] = <<content>>

\* Envelope e is one the run at hand builds for crate n.
BuiltFor(e, n) ==
    /\ e.event_hash = e.body
    /\ e.body.crate_name = CONSTITUTIONAL_CRATES[n].name
    /\ e.body.logical_time = CONSTITUTIONAL_CRATES[n].logical_time
    /\ e.body.policy_digest = policy_digest
    /\ e.body.context_digest = compute_context_digest(policy_digest)

\* How far the run is.
ProgressInv ==
    /\ step \in {"policy", "read", "create_envelope", "write_envelope", "create_sig",
                 "write_sig", "link", "create_chain", "write_chain", "verify"}
    /\ envelopes \in Seq({envelopes[n] : n \in 1..Len(envelopes)})
    /\ step = "policy" => envelopes = <<>>
    /\ IF step \in {"create_chain", "write_chain", "verify"}
       THEN Len(envelopes) = CrateCount /\ crate \in 1..(CrateCount + 1)
       ELSE crate \in 1..CrateCount /\ Len(envelopes) = crate - 1

\* The envelopes already written are linked.
LinkInv ==
    /\ \A n \in 1..Len(envelopes) : BuiltFor(envelopes[n], n)
    /\ \A n \in 1..Len(envelopes) :
          envelopes[n].body.parent_id = IF n = 1 THEN Absent ELSE envelopes[n - 1].event_hash
    /\ parent_hash = IF envelopes = <<>> THEN Absent ELSE envelopes[Len(envelopes)].event_hash

\* Their files are on the disk, whatever else is.
FilesInv ==
    \A n \in 1..Len(envelopes) :
        /\ Holds(EnvPath(CONSTITUTIONAL_CRATES[n].name), envelopes[n])
        /\ Holds(SigPath(CONSTITUTIONAL_CRATES[n].name), sign_envelope(envelopes[n]))

\* The envelope at hand.
HandInv ==
    /\ step \in {"create_envelope", "write_envelope", "create_sig", "write_sig", "link"} =>
          BuiltFor(envelope, crate) /\ envelope.body.parent_id = parent_hash
    /\ step \in {"create_sig", "write_sig", "link"} => Holds(EnvPath(Name), envelope)
    /\ step = "link" => Holds(SigPath(Name), sign_envelope(envelope))
    /\ step = "verify" => Holds(ChainPath, envelopes)

\* The safety half of UndisturbedRunSucceeds: with the wire form the ceremony
\* assumes, it fails by a fault only, never by its own verification.
OnlyFaultsFail == wire = "integer" /\ exit = "failed" => fault

CeremonyInv ==
    /\ Running => ProgressInv /\ LinkInv /\ FilesInv /\ HandInv
    /\ DoneMeansCoherent
    /\ ChainIsOneRun
    /\ OnlyFaultsFail


=============================================================================
