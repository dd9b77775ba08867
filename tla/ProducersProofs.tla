--------------------------- MODULE ProducersProofs ---------------------------
(***************************************************************************)
(* Proofs about the two programs.  The ceremony: what it says it verified  *)
(* is one set of files, a chain file that is whole is a chain, and its own *)
(* verification never fails, for any sources, any number of edits and      *)
(* runs, and a stop at any step.  The generator: every test vector says of *)
(* itself what the verifiers' rules say of it, and the files it leaves     *)
(* are those.                                                              *)
(***************************************************************************)
EXTENDS Producers, TLAPS

----------------------------------------------------------------------------
(* The crates and the files *)

\* The crates have different names, none of them that of the chain, and
\* increasing times.
LEMMA Crates ==
    /\ Len(CONSTITUTIONAL_CRATES) = CrateCount
    /\ CrateCount \in Nat \ {0}
    /\ \A n \in 1..CrateCount :
          /\ CONSTITUTIONAL_CRATES[n].name # "chain"
          /\ CONSTITUTIONAL_CRATES[n].logical_time \in Nat
    /\ \A m, n \in 1..CrateCount :
          /\ CONSTITUTIONAL_CRATES[m].name = CONSTITUTIONAL_CRATES[n].name => m = n
          /\ m < n => CONSTITUTIONAL_CRATES[m].logical_time < CONSTITUTIONAL_CRATES[n].logical_time
<1> DEFINE all == <<Crate("vertrule-schemas", 0), Crate("vr-jcs", 1000), Crate("vr-time", 1001),
                    Crate("vr-receipt", 2000), Crate("vr-rbh", 3000), Crate("vertrule-verifier", 4000)>>
<1>1. CrateCount \in 1..6
  BY CrateCountAssumption
<1>2. Len(CONSTITUTIONAL_CRATES) = CrateCount
      /\ \A n \in 1..CrateCount : CONSTITUTIONAL_CRATES[n] = all[n]
  BY <1>1 DEF CONSTITUTIONAL_CRATES
<1>3. \A n \in 1..6 : all[n].name # "chain" /\ all[n].logical_time \in Nat
  BY DEF Crate
<1>4. \A m, n \in 1..6 : all[m].name = all[n].name => m = n
  BY DEF Crate
<1>5. \A m, n \in 1..6 : m < n => all[m].logical_time < all[n].logical_time
  BY DEF Crate
<1>6. CrateCount \in Nat \ {0} /\ \A n \in 1..CrateCount : n \in 1..6
  BY <1>1
<1> HIDE DEF all
<1>7. \A n \in 1..CrateCount : CONSTITUTIONAL_CRATES[n].name # "chain"
                               /\ CONSTITUTIONAL_CRATES[n].logical_time \in Nat
  BY <1>2, <1>3, <1>6
<1>8. ASSUME NEW m \in 1..CrateCount, NEW n \in 1..CrateCount
      PROVE  /\ CONSTITUTIONAL_CRATES[m].name = CONSTITUTIONAL_CRATES[n].name => m = n
             /\ m < n => CONSTITUTIONAL_CRATES[m].logical_time < CONSTITUTIONAL_CRATES[n].logical_time
  <2>1. m \in 1..6 /\ n \in 1..6
    BY <1>6
  <2>2. CONSTITUTIONAL_CRATES[m] = all[m] /\ CONSTITUTIONAL_CRATES[n] = all[n]
    BY <1>2
  <2> QED BY <2>1, <2>2, <1>4, <1>5
<1> QED BY <1>2, <1>6, <1>7, <1>8

\* The files are different.
LEMMA Paths ==
    ASSUME NEW m \in 1..CrateCount, NEW n \in 1..CrateCount
    PROVE  LET a == CONSTITUTIONAL_CRATES[m].name
               b == CONSTITUTIONAL_CRATES[n].name
           IN  /\ EnvPath(a) # SigPath(b)
               /\ EnvPath(a) # ChainPath /\ SigPath(a) # ChainPath
               /\ m # n => EnvPath(a) # EnvPath(b) /\ SigPath(a) # SigPath(b)
BY Crates DEF EnvPath, SigPath, ChainPath

\* A file that is written holds what was written, and the others what they held.
LEMMA PutKeeps ==
    ASSUME NEW path, NEW new, Put(path, new)
    PROVE  /\ DOMAIN disk' = {path} \union DOMAIN disk
           /\ disk'[path] = new
           /\ \A q \in DOMAIN disk : q # path => disk'[q] = disk[q]
           /\ \A q, c : q # path /\ Holds(q, c) => Holds(q, c)'
           /\ \A c : new = <<c>> => Holds(path, c)'
BY DEF Put, Holds

\* A chain file that is not written stays a chain, or stays torn.
LEMMA ChainFileKept ==
    ASSUME ChainIsOneRun, wire' = wire,
           ChainPath \in DOMAIN disk' =>
              ChainPath \in DOMAIN disk /\ disk'[ChainPath] = disk[ChainPath]
    PROVE  ChainIsOneRun'
<1> SUFFICES ASSUME wire = "integer", Whole(ChainPath)'
             PROVE  C!ChainAcceptable(ChainElements)'
  BY DEF ChainIsOneRun
<1>1. Whole(ChainPath) /\ disk'[ChainPath] = disk[ChainPath]
  BY DEF Whole
<1>2. C!ChainAcceptable(ChainElements)
  BY <1>1 DEF ChainIsOneRun
<1>3. ChainElements' = ChainElements
  BY <1>1 DEF ChainElements, ChainElement, Recomputed
<1> QED BY <1>2, <1>3 DEF C!ChainAcceptable, C!EnvelopesSupported, C!HashesMatch,
    C!HeadHasNoParent, C!ParentsLinked, C!TimesIncrease, C!Uniform, C!NoDuplicates,
    C!ContextOf, C!PolicyOf, C!SchemaOf

\* The envelopes of a complete run are a chain.
LEMMA BuiltChain ==
    ASSUME ProgressInv, LinkInv, wire = "integer", Len(envelopes) = CrateCount
    PROVE  C!ChainAcceptable([n \in DOMAIN envelopes |-> ChainElement(envelopes[n])])
<1> DEFINE c == [n \in DOMAIN envelopes |-> ChainElement(envelopes[n])]
<1>1. DOMAIN envelopes = 1..CrateCount
  BY DEF ProgressInv
<1>2. /\ DOMAIN c = 1..CrateCount
      /\ Len(c) = CrateCount
      /\ c # <<>>
  BY <1>1, Crates
<1>3. ASSUME NEW n \in 1..CrateCount
      PROVE  /\ c[n].recomputed = c[n].event_hash
             /\ c[n].event_hash = envelopes[n].event_hash
             /\ c[n].event_hash = envelopes[n].body
             /\ c[n].version_ok /\ c[n].algorithms_ok
             /\ c[n].logical_time = CONSTITUTIONAL_CRATES[n].logical_time
             /\ envelopes[n].body.logical_time = CONSTITUTIONAL_CRATES[n].logical_time
             /\ c[n].context_digest = compute_context_digest(policy_digest)
             /\ c[n].policy_digest = policy_digest
             /\ c[n].schema_digest = "GovernanceReceipt.schema.json"
             /\ c[n].parent_id = IF n = 1 THEN Absent ELSE envelopes[n - 1].event_hash
  BY <1>1 DEF LinkInv, BuiltFor, ChainElement, Recomputed
<1> HIDE DEF c
<1>4. C!EnvelopesSupported(c) /\ C!HashesMatch(c)
  BY <1>2, <1>3 DEF C!EnvelopesSupported, C!HashesMatch
<1>5. C!HeadHasNoParent(c) /\ C!ParentsLinked(c)
  <2>1. C!HeadHasNoParent(c)
    BY <1>2, <1>3, Crates DEF C!HeadHasNoParent
  <2>2. ASSUME NEW n \in 2..CrateCount PROVE c[n].parent_id = c[n - 1].event_hash
    BY <1>3, Crates
  <2> QED BY <1>2, <2>1, <2>2 DEF C!ParentsLinked
<1>6. C!TimesIncrease(c)
  BY <1>2, <1>3, Crates DEF C!TimesIncrease
<1>7. C!Uniform(c, C!ContextOf) /\ C!Uniform(c, C!PolicyOf) /\ C!Uniform(c, C!SchemaOf)
  BY <1>2, <1>3 DEF C!Uniform, C!ContextOf, C!PolicyOf, C!SchemaOf
<1>8. C!NoDuplicates(c)
  <2> SUFFICES ASSUME NEW m \in 1..CrateCount, NEW n \in 1..CrateCount,
                      c[m].event_hash = c[n].event_hash
               PROVE  m = n
    BY <1>2 DEF C!NoDuplicates
  <2>1. CONSTITUTIONAL_CRATES[m].logical_time = CONSTITUTIONAL_CRATES[n].logical_time
    BY <1>3
  <2>2. ~(m < n) /\ ~(n < m)
    BY <2>1, Crates
  <2> QED BY <2>2, Crates
<1> QED BY <1>4, <1>5, <1>6, <1>7, <1>8 DEF C!ChainAcceptable, c

\* A chain file that holds the envelopes of a complete run is a chain.
LEMMA WrittenChain ==
    ASSUME ProgressInv, LinkInv, Len(envelopes) = CrateCount,
           Holds(ChainPath, envelopes)
    PROVE  ChainIsOneRun
<1>1. ChainElements = [n \in DOMAIN envelopes |-> ChainElement(envelopes[n])]
  BY DEF Holds, ChainElements
<1> QED BY <1>1, BuiltChain DEF ChainIsOneRun

----------------------------------------------------------------------------
(* The invariant holds at first and after every step *)

LEMMA InitKeeps == CeremonyInit => CeremonyInv
<1> SUFFICES ASSUME CeremonyInit PROVE CeremonyInv
  OBVIOUS
<1>1. exit = "running" /\ step = "policy" /\ envelopes = <<>> /\ crate = 1
      /\ parent_hash = Absent /\ disk = <<>> /\ Len(envelopes) = 0
  BY DEF CeremonyInit, FilesInit, Forget
<1>2. ProgressInv
  BY <1>1, Crates DEF ProgressInv
<1>3. LinkInv /\ FilesInv /\ HandInv
  BY <1>1 DEF LinkInv, FilesInv, HandInv
<1>4. DoneMeansCoherent /\ OnlyFaultsFail
  BY <1>1 DEF DoneMeansCoherent, OnlyFaultsFail
<1>5. ChainIsOneRun
  BY <1>1 DEF ChainIsOneRun, Whole
<1> QED BY <1>2, <1>3, <1>4, <1>5 DEF CeremonyInv

\* What a run keeps that goes on.
LEMMA StillRunning ==
    ASSUME exit' = "running"
    PROVE  DoneMeansCoherent' /\ OnlyFaultsFail'
BY DEF DoneMeansCoherent, OnlyFaultsFail

\* A step of the run that touches neither the files nor what was built.
LEMMA ReadKeeps ==
    ASSUME CeremonyInv, Running, exit' = exit, UNCHANGED <<disk, wire, crate, parent_hash, envelopes>>,
           \/ step = "policy" /\ step' = "read"
           \/ step = "read" /\ step' = "read" /\ policy_digest' = policy_digest
    PROVE  CeremonyInv'
<1>1. ProgressInv /\ LinkInv /\ FilesInv
  BY DEF CeremonyInv
<1>2. ProgressInv'
  BY <1>1 DEF ProgressInv
<1>3. LinkInv'
  <2>1. CASE step = "policy"
    BY <1>1, <2>1 DEF LinkInv, ProgressInv
  <2>2. CASE step = "read"
    BY <1>1, <2>2 DEF LinkInv, BuiltFor
  <2> QED BY <2>1, <2>2
<1>4. FilesInv' /\ HandInv'
  BY <1>1 DEF FilesInv, HandInv, Holds
<1>5. ChainIsOneRun'
  BY ChainFileKept DEF CeremonyInv
<1> QED BY <1>2, <1>3, <1>4, <1>5, StillRunning DEF CeremonyInv, Running

LEMMA BuildKeeps ==
    ASSUME CeremonyInv, BuildEnvelope
    PROVE  CeremonyInv'
<1>1. ProgressInv /\ LinkInv /\ FilesInv /\ Running /\ step = "read" /\ step' = "create_envelope"
      /\ exit' = "running"
  BY DEF CeremonyInv, BuildEnvelope, GoOn, Running
<1>2. UNCHANGED <<disk, wire, crate, policy_digest, parent_hash, envelopes>>
  BY DEF BuildEnvelope, worldVars
<1>3. ProgressInv' /\ LinkInv' /\ FilesInv'
  <2>1. ProgressInv'
    BY <1>1, <1>2 DEF ProgressInv
  <2>2. LinkInv'
    BY <1>1, <1>2 DEF LinkInv, BuiltFor
  <2>3. FilesInv'
    BY <1>1, <1>2 DEF FilesInv, Holds
  <2> QED BY <2>1, <2>2, <2>3
<1>4. HandInv'
  BY <1>1, <1>2 DEF HandInv, BuildEnvelope, Envelope, BuiltFor, Name
<1>5. ChainIsOneRun'
  BY <1>2, ChainFileKept DEF CeremonyInv
<1> QED BY <1>1, <1>3, <1>4, <1>5, StillRunning DEF CeremonyInv

\* What writing a file of the crate at hand keeps: the files of the crates before.
LEMMA CrateFileKeeps ==
    ASSUME CeremonyInv, Running, step \in {"create_envelope", "write_envelope", "create_sig", "write_sig"},
           step' \in {"create_envelope", "write_envelope", "create_sig", "write_sig", "link"},
           exit' = exit, UNCHANGED <<worldVars, memory>>,
           NEW path \in {EnvPath(Name), SigPath(Name)}, NEW new, Put(path, new),
           HandInv'
    PROVE  CeremonyInv'
<1>1. ProgressInv /\ LinkInv /\ FilesInv /\ crate \in 1..CrateCount /\ Len(envelopes) = crate - 1
  BY DEF CeremonyInv, ProgressInv
<1>2. UNCHANGED <<wire, crate, policy_digest, parent_hash, envelopes>>
  BY DEF worldVars, memory
<1>3. ProgressInv' /\ LinkInv'
  BY <1>1, <1>2 DEF ProgressInv, LinkInv, BuiltFor
<1>4. FilesInv'
  <2> SUFFICES ASSUME NEW n \in 1..Len(envelopes)
               PROVE  /\ Holds(EnvPath(CONSTITUTIONAL_CRATES[n].name), envelopes[n])'
                      /\ Holds(SigPath(CONSTITUTIONAL_CRATES[n].name), sign_envelope(envelopes[n]))'
    BY <1>2 DEF FilesInv
  <2>1. n \in 1..CrateCount /\ n # crate
    BY <1>1, Crates
  <2>2. EnvPath(CONSTITUTIONAL_CRATES[n].name) # path /\ SigPath(CONSTITUTIONAL_CRATES[n].name) # path
    BY <1>1, <2>1, Paths DEF Name
  <2> QED BY <1>1, <1>2, <2>2, PutKeeps DEF FilesInv
<1>5. path # ChainPath
  BY <1>1, Paths DEF Name
<1>6. ChainIsOneRun'
  BY <1>2, <1>5, PutKeeps, ChainFileKept DEF CeremonyInv
<1> QED BY <1>3, <1>4, <1>6, StillRunning DEF CeremonyInv, Running

LEMMA WriteEnvelopeKeeps ==
    ASSUME CeremonyInv, WriteEnvelope
    PROVE  CeremonyInv'
<1>1. Running /\ exit' = exit /\ UNCHANGED <<worldVars, memory>>
  BY DEF WriteEnvelope, WriteCanonical, GoOn
<1>2. UNCHANGED <<policy_digest, parent_hash, envelope, crate>>
  BY <1>1 DEF memory
<1>3. HandInv
  BY <1>1 DEF CeremonyInv
<1>4. CASE step = "create_envelope" /\ Put(EnvPath(Name), <<>>) /\ step' = "write_envelope"
  <2>1. HandInv'
    BY <1>2, <1>3, <1>4 DEF HandInv, BuiltFor
  <2> QED BY <1>1, <1>4, <2>1, CrateFileKeeps
<1>5. CASE step = "write_envelope" /\ Put(EnvPath(Name), <<envelope>>) /\ step' = "create_sig"
  <2>1. Holds(EnvPath(Name), envelope)'
    BY <1>2, <1>5, PutKeeps DEF Name, EnvPath
  <2>2. HandInv'
    BY <1>2, <1>3, <1>5, <2>1 DEF HandInv, BuiltFor
  <2> QED BY <1>1, <1>5, <2>2, CrateFileKeeps
<1> QED BY <1>4, <1>5 DEF WriteEnvelope, WriteCanonical, GoOn, Create, WriteAll

LEMMA WriteSignatureKeeps ==
    ASSUME CeremonyInv, WriteSignature
    PROVE  CeremonyInv'
<1>1. Running /\ exit' = exit /\ UNCHANGED <<worldVars, memory>>
  BY DEF WriteSignature, WriteCanonical, GoOn
<1>2. UNCHANGED <<policy_digest, parent_hash, envelope, crate>>
  BY <1>1 DEF memory
<1>3. HandInv /\ ProgressInv
  BY <1>1 DEF CeremonyInv
<1>4. CASE step = "create_sig" /\ Put(SigPath(Name), <<>>) /\ step' = "write_sig"
  <2>1. EnvPath(Name) # SigPath(Name)
    BY <1>3, <1>4, Paths DEF Name, ProgressInv
  <2>2. Holds(EnvPath(Name), envelope)'
    BY <1>2, <1>3, <1>4, <2>1, PutKeeps DEF HandInv, Name, EnvPath
  <2>3. HandInv'
    BY <1>2, <1>3, <1>4, <2>2 DEF HandInv, BuiltFor
  <2> QED BY <1>1, <1>4, <2>3, CrateFileKeeps
<1>5. CASE step = "write_sig" /\ Put(SigPath(Name), <<sign_envelope(envelope)>>) /\ step' = "link"
  <2>1. EnvPath(Name) # SigPath(Name)
    BY <1>3, <1>5, Paths DEF Name, ProgressInv
  <2>2. Holds(EnvPath(Name), envelope)'
    BY <1>2, <1>3, <1>5, <2>1, PutKeeps DEF HandInv, Name, EnvPath
  <2>3. Holds(SigPath(Name), sign_envelope(envelope))'
    BY <1>2, <1>5, PutKeeps DEF Name, SigPath, sign_envelope
  <2>4. HandInv'
    BY <1>2, <1>3, <1>5, <2>2, <2>3 DEF HandInv, BuiltFor
  <2> QED BY <1>1, <1>5, <2>4, CrateFileKeeps
<1> QED BY <1>4, <1>5 DEF WriteSignature, WriteCanonical, GoOn, Create, WriteAll

\* The envelope at hand becomes the last of those written, with its files.
LEMMA LinkKeeps ==
    ASSUME CeremonyInv, LinkEnvelope
    PROVE  CeremonyInv'
<1>1. /\ ProgressInv /\ LinkInv /\ FilesInv /\ HandInv /\ ChainIsOneRun
      /\ Running /\ step = "link" /\ exit' = "running"
  BY DEF CeremonyInv, LinkEnvelope, GoOn, Running
<1>2. UNCHANGED <<disk, wire, policy_digest>>
  BY DEF LinkEnvelope, worldVars
<1>3. /\ crate \in 1..CrateCount /\ Len(envelopes) = crate - 1
      /\ envelopes \in Seq({envelopes[n] : n \in 1..Len(envelopes)})
  BY <1>1 DEF ProgressInv
<1> DEFINE S == {envelopes[n] : n \in 1..Len(envelopes)} \union {envelope}
<1>4. /\ envelopes \in Seq(S) /\ envelope \in S /\ envelopes' = Append(envelopes, envelope)
  BY <1>3 DEF LinkEnvelope
<1> HIDE DEF S
<1>5. /\ envelopes' \in Seq(S)
      /\ Len(envelopes') = crate
      /\ envelopes'[crate] = envelope
      /\ \A n \in 1..(crate - 1) : envelopes'[n] = envelopes[n]
      /\ envelopes' # <<>>
  BY <1>3, <1>4, Crates
<1>6. envelopes' \in Seq({envelopes'[n] : n \in 1..Len(envelopes')})
  BY <1>5
<1>7. ProgressInv'
  <2>1. CASE crate < CrateCount
    <3>1. crate' = crate + 1 /\ step' = "read"
      BY <2>1, Crates DEF LinkEnvelope, GoOn
    <3> QED BY <1>3, <1>5, <1>6, <2>1, <3>1, Crates DEF ProgressInv
  <2>2. CASE crate = CrateCount
    <3>1. crate' = 1 /\ step' = "create_chain"
      BY <2>2, Crates DEF LinkEnvelope, GoOn
    <3> QED BY <1>5, <1>6, <2>2, <3>1, Crates DEF ProgressInv
  <2> QED BY <1>3, <2>1, <2>2, Crates
<1>8. LinkInv'
  <2>1. ASSUME NEW n \in 1..crate
        PROVE  /\ BuiltFor(envelopes[n], n)'
               /\ envelopes'[n].body.parent_id = IF n = 1 THEN Absent ELSE envelopes'[n - 1].event_hash
    <3>1. CASE n = crate
      <4>1. BuiltFor(envelope, crate) /\ envelope.body.parent_id = parent_hash
        BY <1>1 DEF HandInv
      <4>2. parent_hash = IF n = 1 THEN Absent ELSE envelopes'[n - 1].event_hash
        BY <1>1, <1>3, <1>5, <3>1 DEF LinkInv
      <4> QED BY <1>2, <1>5, <3>1, <4>1, <4>2 DEF BuiltFor
    <3>2. CASE n # crate
      <4>1. /\ n \in 1..Len(envelopes)
            /\ envelopes'[n] = envelopes[n]
            /\ n # 1 => envelopes'[n - 1] = envelopes[n - 1]
        BY <1>3, <1>5, <3>2
      <4>2. BuiltFor(envelopes[n], n)'
        BY <1>1, <1>2, <4>1 DEF LinkInv, BuiltFor
      <4> QED BY <1>1, <4>1, <4>2 DEF LinkInv
    <3> QED BY <3>1, <3>2
  <2>2. parent_hash' = envelopes'[Len(envelopes')].event_hash
    BY <1>5 DEF LinkEnvelope
  <2> QED BY <1>5, <2>1, <2>2 DEF LinkInv
<1>9. FilesInv'
  <2> SUFFICES ASSUME NEW n \in 1..crate
               PROVE  /\ Holds(EnvPath(CONSTITUTIONAL_CRATES[n].name), envelopes[n])'
                      /\ Holds(SigPath(CONSTITUTIONAL_CRATES[n].name), sign_envelope(envelopes[n]))'
    BY <1>5 DEF FilesInv
  <2>1. CASE n = crate
    BY <1>1, <1>2, <1>5, <2>1 DEF HandInv, Name, Holds
  <2>2. CASE n # crate
    <3>1. n \in 1..Len(envelopes) /\ envelopes'[n] = envelopes[n]
      BY <1>3, <1>5, <2>2
    <3> QED BY <1>1, <1>2, <3>1 DEF FilesInv, Holds
  <2> QED BY <2>1, <2>2
<1>10. HandInv'
  <2>1. step' \in {"read", "create_chain"}
    BY DEF LinkEnvelope, GoOn
  <2> QED BY <2>1 DEF HandInv
<1>11. ChainIsOneRun'
  BY <1>1, <1>2, ChainFileKept
<1> QED BY <1>1, <1>7, <1>8, <1>9, <1>10, <1>11, StillRunning DEF CeremonyInv

\* Writing the chain.
LEMMA WriteChainKeeps ==
    ASSUME CeremonyInv, WriteChain
    PROVE  CeremonyInv'
<1>1. Running /\ exit' = exit /\ UNCHANGED <<wire, policy_digest, parent_hash, envelopes, crate>>
  BY DEF WriteChain, WriteCanonical, GoOn, worldVars, memory
<1>2. /\ ProgressInv /\ LinkInv /\ FilesInv
      /\ step \in {"create_chain", "write_chain"}
      /\ step' \in {"write_chain", "verify"}
  BY <1>1 DEF CeremonyInv, WriteChain, WriteCanonical, GoOn
<1>3. Len(envelopes) = CrateCount
  BY <1>2 DEF ProgressInv
<1>4. ProgressInv' /\ LinkInv'
  <2>1. ProgressInv'
    BY <1>1, <1>2 DEF ProgressInv
  <2>2. LinkInv'
    BY <1>1, <1>2 DEF LinkInv, BuiltFor
  <2> QED BY <2>1, <2>2
<1>5. ASSUME NEW new, Put(ChainPath, new)
      PROVE  FilesInv'
  <2>1. ASSUME NEW n \in 1..CrateCount
        PROVE  /\ EnvPath(CONSTITUTIONAL_CRATES[n].name) # ChainPath
               /\ SigPath(CONSTITUTIONAL_CRATES[n].name) # ChainPath
    BY Paths
  <2>2. ASSUME NEW n \in 1..Len(envelopes)
        PROVE  /\ Holds(EnvPath(CONSTITUTIONAL_CRATES[n].name), envelopes[n])'
               /\ Holds(SigPath(CONSTITUTIONAL_CRATES[n].name), sign_envelope(envelopes[n]))'
    BY <1>1, <1>2, <1>3, <1>5, <2>1, PutKeeps DEF FilesInv
  <2> QED BY <1>1, <2>2 DEF FilesInv
<1>6. CASE step = "create_chain" /\ Put(ChainPath, <<>>) /\ step' = "write_chain"
  <2>1. HandInv'
    BY <1>6 DEF HandInv
  <2>2. ChainIsOneRun'
    BY <1>6, PutKeeps DEF ChainIsOneRun, Whole
  <2> QED BY <1>1, <1>4, <1>5, <1>6, <2>1, <2>2, StillRunning DEF CeremonyInv, Running
<1>7. CASE step = "write_chain" /\ Put(ChainPath, <<envelopes>>) /\ step' = "verify"
  <2>1. Holds(ChainPath, envelopes)'
    BY <1>1, <1>7, PutKeeps DEF ChainPath
  <2>2. HandInv'
    BY <1>7, <2>1 DEF HandInv
  <2>3. (ProgressInv /\ LinkInv /\ Len(envelopes) = CrateCount /\ Holds(ChainPath, envelopes)
            => ChainIsOneRun)'
    BY WrittenChain, PTL
  <2>4. ChainIsOneRun'
    BY <1>1, <1>3, <1>4, <2>1, <2>3
  <2> QED BY <1>1, <1>4, <1>5, <1>7, <2>2, <2>4, StillRunning DEF CeremonyInv, Running
<1> QED BY <1>6, <1>7 DEF WriteChain, WriteCanonical, GoOn, Create, WriteAll

\* The receipts of a complete run verify, one after the other.
LEMMA VerifyReceiptKeeps ==
    ASSUME CeremonyInv, VerifyReceipt
    PROVE  CeremonyInv'
<1>1. /\ ProgressInv /\ LinkInv /\ FilesInv /\ HandInv /\ ChainIsOneRun
      /\ Running /\ step = "verify" /\ crate \in 1..CrateCount /\ Len(envelopes) = CrateCount
  BY Crates DEF CeremonyInv, VerifyReceipt, ProgressInv
<1>2. UNCHANGED <<disk, wire, envelopes, policy_digest, parent_hash>>
  BY DEF VerifyReceipt, Fail, worldVars, memory
<1>3. ChainIsOneRun'
  BY <1>1, <1>2, ChainFileKept
<1>4. CASE ~verify_signed_receipt(Name) /\ Fail(FALSE)
  <2>1. wire # "integer"
    <3>1. SUFFICES ASSUME wire = "integer" PROVE verify_signed_receipt(Name)
      BY <1>4
    <3>2. /\ Holds(EnvPath(Name), envelopes[crate])
          /\ Holds(SigPath(Name), sign_envelope(envelopes[crate]))
          /\ envelopes[crate].event_hash = envelopes[crate].body
      BY <1>1 DEF FilesInv, LinkInv, BuiltFor, Name
    <3> QED BY <3>1, <3>2 DEF verify_signed_receipt, Holds, Whole, Recomputed, sign_envelope
  <2> QED BY <1>2, <1>3, <1>4, <2>1
        DEF CeremonyInv, Fail, Running, DoneMeansCoherent, OnlyFaultsFail
<1>5. CASE crate' = crate + 1 /\ GoOn("verify")
  <2>1. ProgressInv'
    BY <1>1, <1>2, <1>5, Crates DEF ProgressInv, GoOn
  <2>2. LinkInv' /\ FilesInv' /\ HandInv'
    <3>1. LinkInv'
      BY <1>1, <1>2 DEF LinkInv, BuiltFor
    <3>2. FilesInv'
      BY <1>1, <1>2 DEF FilesInv, Holds
    <3>3. HandInv'
      BY <1>1, <1>2, <1>5 DEF HandInv, Holds, GoOn
    <3> QED BY <3>1, <3>2, <3>3
  <2> QED BY <1>1, <1>3, <1>5, <2>1, <2>2, StillRunning DEF CeremonyInv, Running, GoOn
<1> QED BY <1>4, <1>5 DEF VerifyReceipt

\* The chain verifies, and then the files are those of the run.
LEMMA VerifyChainKeeps ==
    ASSUME CeremonyInv, VerifyChain
    PROVE  CeremonyInv'
<1>1. /\ ProgressInv /\ LinkInv /\ FilesInv /\ HandInv /\ ChainIsOneRun
      /\ Running /\ step = "verify" /\ Len(envelopes) = CrateCount
  BY DEF CeremonyInv, VerifyChain, ProgressInv
<1>2. UNCHANGED <<disk, wire>>
  BY DEF VerifyChain, Fail, worldVars
<1>3. Holds(ChainPath, envelopes)
  BY <1>1 DEF HandInv
<1>4. ChainIsOneRun'
  BY <1>1, <1>2, ChainFileKept
<1>5. CASE exit' = "done"
  <2>1. ASSUME NEW n \in 1..CrateCount
        PROVE  LET e == envelopes[n]
                   name == CONSTITUTIONAL_CRATES[n].name
               IN  /\ e.body.crate_name = name
                   /\ disk[EnvPath(name)] = <<e>>
                   /\ disk[SigPath(name)] = <<sign_envelope(e)>>
    BY <1>1 DEF FilesInv, LinkInv, BuiltFor, Holds
  <2>2. DoneMeansCoherent'
    <3>1. Whole(ChainPath)' /\ disk'[ChainPath][1] = envelopes
      BY <1>2, <1>3 DEF Holds, Whole
    <3> QED BY <1>1, <1>2, <2>1, <3>1, Crates DEF DoneMeansCoherent
  <2> QED BY <1>4, <1>5, <2>2 DEF CeremonyInv, Running, OnlyFaultsFail
<1>6. CASE ~(Whole(ChainPath) /\ C!ChainAcceptable(ChainElements)) /\ Fail(FALSE)
  <2>1. wire # "integer"
    BY <1>1, <1>3, <1>6 DEF ChainIsOneRun, Holds, Whole
  <2> QED BY <1>2, <1>4, <1>6, <2>1
        DEF CeremonyInv, Fail, Running, DoneMeansCoherent, OnlyFaultsFail
<1> QED BY <1>5, <1>6 DEF VerifyChain

\* A run that fails by a fault leaves its files.
LEMMA FaultKeeps ==
    ASSUME CeremonyInv, Fail(TRUE), wire' = wire
    PROVE  CeremonyInv'
<1>1. ChainIsOneRun'
  BY ChainFileKept DEF CeremonyInv, Fail
<1> QED BY <1>1 DEF CeremonyInv, Fail, Running, DoneMeansCoherent, OnlyFaultsFail

\* A run starts with nothing of its own.
LEMMA RestartKeeps ==
    ASSUME CeremonyInv, RestartCeremony
    PROVE  CeremonyInv'
<1>1. /\ UNCHANGED <<disk, wire>> /\ exit' = "running" /\ step' = "policy" /\ envelopes' = <<>>
      /\ crate' = 1 /\ parent_hash' = Absent
  BY DEF RestartCeremony, Restart, worldVars
<1>2. ProgressInv'
  BY <1>1, Crates DEF ProgressInv
<1>3. LinkInv' /\ FilesInv' /\ HandInv'
  BY <1>1 DEF LinkInv, FilesInv, HandInv
<1>4. ChainIsOneRun'
  BY <1>1, ChainFileKept DEF CeremonyInv
<1> QED BY <1>1, <1>2, <1>3, <1>4, StillRunning DEF CeremonyInv

\* Nothing of it is about the sources.
LEMMA EditKeeps ==
    ASSUME CeremonyInv, UNCHANGED <<fileVars, wire, memory>>
    PROVE  CeremonyInv'
<1>1. UNCHANGED <<disk, step, exit, fault, wire, crate, policy_digest, envelope, parent_hash, envelopes>>
  BY DEF fileVars, memory
<1>2. Running => ProgressInv' /\ LinkInv' /\ FilesInv' /\ HandInv'
  <2> SUFFICES ASSUME Running PROVE ProgressInv' /\ LinkInv' /\ FilesInv' /\ HandInv'
    OBVIOUS
  <2>1. ProgressInv'
    BY <1>1 DEF CeremonyInv, ProgressInv
  <2>2. LinkInv'
    BY <1>1 DEF CeremonyInv, LinkInv, BuiltFor
  <2>3. FilesInv'
    BY <1>1 DEF CeremonyInv, FilesInv, Holds
  <2>4. HandInv'
    BY <1>1 DEF CeremonyInv, HandInv, Holds, BuiltFor, Name
  <2> QED BY <2>1, <2>2, <2>3, <2>4
<1>3. ChainIsOneRun'
  BY <1>1, ChainFileKept DEF CeremonyInv
<1>4. DoneMeansCoherent' /\ OnlyFaultsFail'
  BY <1>1 DEF CeremonyInv, DoneMeansCoherent, OnlyFaultsFail, Whole
<1> QED BY <1>1, <1>2, <1>3, <1>4 DEF CeremonyInv, Running

LEMMA NextKeeps == CeremonyInv /\ [CeremonyNext]_ceremonyVars => CeremonyInv'
<1> SUFFICES ASSUME CeremonyInv, [CeremonyNext]_ceremonyVars PROVE CeremonyInv'
  OBVIOUS
<1>1. CASE ReadPolicy
  BY <1>1, ReadKeeps DEF ReadPolicy, GoOn, worldVars
<1>2. CASE ReadSource
  <2>1. CASE Fail(TRUE)
    BY <1>2, <2>1, FaultKeeps DEF ReadSource, worldVars
  <2>2. CASE GoOn("read") /\ UNCHANGED <<disk, crate, policy_digest, envelope, parent_hash, envelopes>>
    BY <1>2, <2>2, ReadKeeps DEF ReadSource, GoOn, worldVars
  <2> QED BY <1>2, <2>1, <2>2 DEF ReadSource
<1>3. CASE BuildEnvelope
  BY <1>3, BuildKeeps
<1>4. CASE WriteEnvelope
  BY <1>4, WriteEnvelopeKeeps
<1>5. CASE WriteSignature
  BY <1>5, WriteSignatureKeeps
<1>6. CASE LinkEnvelope
  BY <1>6, LinkKeeps
<1>7. CASE WriteChain
  BY <1>7, WriteChainKeeps
<1>8. CASE VerifyReceipt
  BY <1>8, VerifyReceiptKeeps
<1>9. CASE VerifyChain
  BY <1>9, VerifyChainKeeps
<1>10. CASE StopCeremony
  BY <1>10, FaultKeeps DEF StopCeremony, Stop, worldVars
<1>11. CASE RestartCeremony
  BY <1>11, RestartKeeps
<1>12. CASE Edit
  BY <1>12, EditKeeps DEF Edit
<1>13. CASE UNCHANGED ceremonyVars
  BY <1>13, EditKeeps DEF ceremonyVars, worldVars
<1> QED
  BY <1>1, <1>2, <1>3, <1>4, <1>5, <1>6, <1>7, <1>8, <1>9, <1>10, <1>11, <1>12, <1>13
  DEF CeremonyNext, CeremonyStep

----------------------------------------------------------------------------
(* Theorems about the ceremony *)

\* While a run goes on, the files of the crates it is done with are those of the
\* envelopes it has in memory, and these are linked, whatever earlier runs left on
\* the disk; a run that ended leaves a coherent disk.
THEOREM CeremonyInvariant == CeremonySpec => []CeremonyInv
BY InitKeeps, NextKeeps, PTL DEF CeremonySpec

\* "All artifacts generated and verified" means the files are those of one chain:
\* element n of the chain is the envelope in the file of crate n, under its
\* signature, though main never compares the files with one another.
THEOREM CeremonyCoherent == CeremonySpec => []DoneMeansCoherent
<1>1. CeremonyInv => DoneMeansCoherent
  BY DEF CeremonyInv
<1> QED BY <1>1, CeremonyInvariant, PTL

\* A chain file that is whole is a chain by the rules of chain.rs at any moment,
\* after a stop and over a policy file edited during the run too.
THEOREM CeremonyChains == CeremonySpec => []ChainIsOneRun
<1>1. CeremonyInv => ChainIsOneRun
  BY DEF CeremonyInv
<1> QED BY <1>1, CeremonyInvariant, PTL

\* The self-verification of the ceremony never rejects what the ceremony wrote, in
\* the wire form it assumes: a run fails only by a fault.
THEOREM CeremonyFailsByFaults == CeremonySpec => []OnlyFaultsFail
<1>1. CeremonyInv => OnlyFaultsFail
  BY DEF CeremonyInv
<1> QED BY <1>1, CeremonyInvariant, PTL

----------------------------------------------------------------------------
(* The envelopes of the test vectors *)

\* The event_hash an envelope states is that of the rest of it.
Computed(e) == T!get_hash(e) = T!canon_hash(T!Without(e, "event_hash"))

\* What an envelope holds that was built.
IsBuilt(e, payload, logical_time, parent, type, context, policy) ==
    /\ DOMAIN e = T!REQUIRED_ENVELOPE_FIELDS \union {x \in {"parent_id"} : parent # T!NoParent}
    /\ e["envelope_version"] = <<"integer", "1">>
    /\ e["receipt_type"] = <<"string", type>>
    /\ e["context_digest"] = context
    /\ e["schema_digest"] = T!placeholder_hex_64("bb")
    /\ e["policy_digest"] = policy
    /\ e["logical_time"] = <<"string", logical_time>>
    /\ e["payload"] = <<"object", payload>>
    /\ parent # T!NoParent => e["parent_id"] = <<"string", parent>>
    /\ Computed(e)

\* Commit states the hash of a body, and changes nothing else of it.
LEMMA Commits ==
    ASSUME NEW S, "event_hash" \notin S, NEW body, body = [x \in S |-> body[x]]
    PROVE  /\ DOMAIN T!Commit(body) = S \union {"event_hash"}
           /\ \A x \in S : T!Commit(body)[x] = body[x]
           /\ Computed(T!Commit(body))
<1> DEFINE e == T!Commit(body)
<1>1. e = [x \in S
      \union {"event_hash"} |-> IF x = "event_hash" THEN <<"string", T!canon_hash(body)>> ELSE body[x]]
  BY DEF T!Commit, T!With
<1> HIDE DEF e
<1>2. T!Without(e, "event_hash") = [x \in S |-> e[x]]
  BY <1>1 DEF T!Without, T!Restrict
<1>3. T!Without(e, "event_hash") = body
  BY <1>1, <1>2
<1> QED BY <1>1, <1>3 DEF Computed, e, T!get_hash

\* What build_envelope_with_digests builds.
LEMMA Builds ==
    ASSUME NEW payload, NEW logical_time, NEW parent, NEW type, NEW context, NEW policy
    PROVE  IsBuilt(T!build_envelope_with_digests(payload, logical_time, parent, type, context, policy),
                   payload, logical_time, parent, type, context, policy)
<1> DEFINE body == [envelope_version |-> <<"integer", "1">>,
                 receipt_type |-> <<"string", type>>,
                 context_digest |-> context,
                 schema_digest |-> T!placeholder_hex_64("bb"),
                 policy_digest |-> policy,
                 logical_time |-> <<"string", logical_time>>,
                 payload |-> <<"object", payload>>]
           whole == IF parent = T!NoParent THEN body ELSE T!With(body, "parent_id", <<"string", parent>>)
           S == (T!REQUIRED_ENVELOPE_FIELDS \ {"event_hash"})
           \union {x \in {"parent_id"} : parent # T!NoParent}
<1>1. T!build_envelope_with_digests(payload, logical_time, parent, type, context, policy) = T!Commit(whole)
  BY DEF T!build_envelope_with_digests
<1>2. DOMAIN body = T!REQUIRED_ENVELOPE_FIELDS \ {"event_hash"}
  BY DEF T!REQUIRED_ENVELOPE_FIELDS
<1>3. whole = [x \in S |-> IF x = "parent_id" THEN <<"string", parent>> ELSE body[x]]
  <2>1. body = [x \in DOMAIN body |-> body[x]]
    OBVIOUS
  <2>2. "parent_id" \notin DOMAIN body
    BY <1>2 DEF T!REQUIRED_ENVELOPE_FIELDS
  <2> HIDE DEF body
  <2> QED BY <1>2, <2>1, <2>2 DEF T!With
<1>4. "event_hash" \notin S
  OBVIOUS
<1>5. DOMAIN T!Commit(whole) = S \union {"event_hash"}
      /\ (\A x \in S : T!Commit(whole)[x] = whole[x])
      /\ Computed(T!Commit(whole))
  <2> HIDE DEF S
  <2>1. whole = [x \in S |-> whole[x]]
    BY <1>3
  <2> HIDE DEF whole
  <2> QED BY <2>1, <1>4, Commits
<1>6. S \union {"event_hash"} = T!REQUIRED_ENVELOPE_FIELDS
      \union {x \in {"parent_id"} : parent # T!NoParent}
  BY DEF T!REQUIRED_ENVELOPE_FIELDS
<1>7. \A x \in S : T!Commit(whole)[x] = IF x = "parent_id" THEN <<"string", parent>> ELSE body[x]
  <2> HIDE DEF S, body
  <2> QED BY <1>3, <1>5
<1>8. {"envelope_version", "receipt_type", "context_digest", "schema_digest", "policy_digest",
       "logical_time", "payload"} \subseteq S /\ (parent # T!NoParent => "parent_id" \in S)
  BY DEF T!REQUIRED_ENVELOPE_FIELDS
<1> HIDE DEF S, whole
<1> QED BY <1>1, <1>5, <1>6, <1>7, <1>8 DEF IsBuilt

\* The members of an envelope are those of the profile, each of its kind.
Shaped(e) ==
    /\ T!REQUIRED_ENVELOPE_FIELDS \subseteq DOMAIN e
    /\ DOMAIN e \subseteq T!REQUIRED_ENVELOPE_FIELDS
       \union {"parent_id", "digest_algorithm", "canonicalization"}
    /\ e["envelope_version"][1] = "integer"
    /\ \E type \in T!KNOWN_RECEIPT_TYPES : e["receipt_type"] = <<"string", type>>
    /\ e["logical_time"][1] = "string"
    /\ e["payload"][1] = "object"
    /\ \A name \in {"digest_algorithm", "canonicalization"} \intersect DOMAIN e : e[name][1] = "string"

\* The members of such an envelope as the checks of Envelope read them.
LEMMA ShapedMembers ==
    ASSUME NEW e, Shaped(e)
    PROVE  LET fields == T!AsMembers(e) IN
           /\ DOMAIN fields = DOMAIN e
           /\ fields["envelope_version"] = e["envelope_version"]
           /\ fields["receipt_type"] = e["receipt_type"]
           /\ fields["logical_time"] = <<"string", "some">>
           /\ fields["payload"] = <<"object", "some">>
           /\ \A name \in {"context_digest", "schema_digest", "policy_digest"} :
                 fields[name] = <<"string", "digest">>
           /\ "parent_id" \in DOMAIN e => fields["parent_id"] = <<"string", "digest">>
           /\ fields["event_hash"] = <<"string", IF Computed(e) THEN "of_document" ELSE "other">>
           /\ \A name \in {"digest_algorithm", "canonicalization"} \intersect DOMAIN e :
                 fields[name] = e[name]
BY DEF Shaped, T!AsMembers, Computed, T!REQUIRED_ENVELOPE_FIELDS

\* But for the version, the members of such an envelope are deserialized.
Readable(fields) ==
    /\ "event_hash_profile" \notin DOMAIN fields
    /\ \A name \in DOMAIN fields :
          /\ fields[name][1] \in T!KindsOf(name)
          /\ fields[name] = <<"string", "garbage">> =>
                name \in {"payload", "digest_algorithm", "canonicalization"}

LEMMA ReadableMeans ==
    ASSUME NEW fields, Readable(fields)
    PROVE  T!Deserializes(fields) <=> fields["envelope_version"] = <<"integer", "1">>
BY DEF Readable, T!Deserializes, T!AsStr, T!Has

LEMMA ShapedReadable == ASSUME NEW e, Shaped(e) PROVE Readable(T!AsMembers(e))
<1> DEFINE fields == T!AsMembers(e)
<1>1. /\ DOMAIN fields = DOMAIN e
      /\ fields["envelope_version"] = e["envelope_version"]
      /\ fields["receipt_type"] = e["receipt_type"]
      /\ fields["logical_time"] = <<"string", "some">>
      /\ fields["payload"] = <<"object", "some">>
      /\ \A name \in {"context_digest", "schema_digest", "policy_digest"} :
            fields[name] = <<"string", "digest">>
      /\ "parent_id" \in DOMAIN e => fields["parent_id"] = <<"string", "digest">>
      /\ fields["event_hash"] = <<"string", IF Computed(e) THEN "of_document" ELSE "other">>
      /\ \A name \in {"digest_algorithm", "canonicalization"} \intersect DOMAIN e :
            fields[name] = e[name]
  BY ShapedMembers
<1> HIDE DEF fields
<1> SUFFICES ASSUME NEW name \in DOMAIN fields
             PROVE  /\ fields[name][1] \in T!KindsOf(name)
                    /\ fields[name] = <<"string", "garbage">> =>
                          name \in {"payload", "digest_algorithm", "canonicalization"}
  BY <1>1 DEF Readable, Shaped, T!REQUIRED_ENVELOPE_FIELDS, fields
<1>2. name \in T!REQUIRED_ENVELOPE_FIELDS \union {"parent_id", "digest_algorithm", "canonicalization"}
  BY <1>1 DEF Shaped
<1>3. fields[name][1] \in T!KindsOf(name)
  BY <1>1, <1>2 DEF Shaped, T!KindsOf, T!OPTIONAL_ENVELOPE_FIELDS, T!REQUIRED_ENVELOPE_FIELDS, T!JsonKinds
<1>4. fields["receipt_type"] # <<"string", "garbage">>
  BY <1>1 DEF Shaped, T!KNOWN_RECEIPT_TYPES
<1>5. fields["envelope_version"] # <<"string", "garbage">>
  BY <1>1 DEF Shaped
<1>6. fields[name] = <<"string", "garbage">> =>
                          name \in {"payload", "digest_algorithm", "canonicalization"}
  BY <1>1, <1>2, <1>4, <1>5 DEF T!REQUIRED_ENVELOPE_FIELDS
<1> QED BY <1>3, <1>6 DEF fields

\* What verify_receipt reports of such an envelope.
LEMMA ShapedErrors ==
    ASSUME NEW e, Shaped(e)
    PROVE  T!ReceiptErrors(e) =
               IF e["envelope_version"] # <<"integer", "1">> THEN {"MalformedJson"}
               ELSE {x \in {"DigestAlgorithmMismatch"} :
                        T!Has(e, "digest_algorithm") /\ e["digest_algorithm"][2] # "BLAKE3"}
                    \union {x \in {"CanonicalizationMismatch"} :
                               T!Has(e, "canonicalization") /\ e["canonicalization"][2] # "JCS"}
                    \union {x \in {"EventHashMismatch"} : ~Computed(e)}
<1> DEFINE fields == T!AsMembers(e)
<1>1. /\ DOMAIN fields = DOMAIN e
      /\ fields["envelope_version"] = e["envelope_version"]
      /\ fields["receipt_type"] = e["receipt_type"]
      /\ fields["logical_time"] = <<"string", "some">>
      /\ fields["payload"] = <<"object", "some">>
      /\ \A name \in {"context_digest", "schema_digest", "policy_digest"} :
            fields[name] = <<"string", "digest">>
      /\ "parent_id" \in DOMAIN e => fields["parent_id"] = <<"string", "digest">>
      /\ fields["event_hash"] = <<"string", IF Computed(e) THEN "of_document" ELSE "other">>
      /\ \A name \in {"digest_algorithm", "canonicalization"} \intersect DOMAIN e :
            fields[name] = e[name]
  BY ShapedMembers
<1> HIDE DEF fields
<1>2. T!validate_envelope_schema(fields) = "none"
  BY <1>1 DEF Shaped, T!validate_envelope_schema, T!KnownFields, T!OPTIONAL_ENVELOPE_FIELDS, T!AsStr, T!Has,
              T!REQUIRED_ENVELOPE_FIELDS
<1>3. T!reject_structural_floats(fields)
  BY <1>1 DEF Shaped, T!reject_structural_floats, T!STRUCTURAL_INTEGER_FIELDS, T!Has
<1>4. T!Deserializes(fields) <=> e["envelope_version"] = <<"integer", "1">>
  BY <1>1, ShapedReadable, ReadableMeans DEF fields
<1>5. T!verify_envelope_version(fields) <=> e["envelope_version"] = <<"integer", "1">>
  BY <1>1 DEF T!verify_envelope_version
<1>6. /\ ~T!Declares(fields, "digest_algorithm", "BLAKE3")
         <=> T!Has(e, "digest_algorithm") /\ e["digest_algorithm"][2] # "BLAKE3"
      /\ ~T!Declares(fields, "canonicalization", "JCS")
         <=> T!Has(e, "canonicalization") /\ e["canonicalization"][2] # "JCS"
  BY <1>1 DEF T!Declares, T!Has, Shaped
<1>7. T!verify_event_hash(fields) <=> Computed(e)
  <2>1. T!RoundTrips(fields)
    <3> SUFFICES ASSUME NEW name \in DOMAIN fields PROVE fields[name][1] # "null"
      BY <1>1 DEF T!RoundTrips
    <3>1. name \in T!REQUIRED_ENVELOPE_FIELDS
          \union {"parent_id", "digest_algorithm", "canonicalization"}
      BY <1>1 DEF Shaped
    <3> QED BY <3>1, <1>1 DEF Shaped, T!REQUIRED_ENVELOPE_FIELDS
  <2> QED BY <1>1, <2>1 DEF T!verify_event_hash
<1> QED BY <1>2, <1>3, <1>4, <1>5, <1>6, <1>7 DEF T!ReceiptErrors, fields

\* What is built has that shape, and declares no algorithm.
LEMMA BuiltShaped ==
    ASSUME NEW e, NEW payload, NEW time, NEW parent, NEW type \in T!KNOWN_RECEIPT_TYPES,
           NEW context, NEW policy, IsBuilt(e, payload, time, parent, type, context, policy)
    PROVE  Shaped(e) /\ ~T!Has(e, "digest_algorithm") /\ ~T!Has(e, "canonicalization")
BY DEF IsBuilt, Shaped, T!Has, T!REQUIRED_ENVELOPE_FIELDS

\* A receipt that is built verifies.
LEMMA BuiltVerifies ==
    ASSUME NEW e, NEW payload, NEW time, NEW parent,
           NEW type \in T!KNOWN_RECEIPT_TYPES, NEW context, NEW policy,
           IsBuilt(e, payload, time, parent, type, context, policy)
    PROVE  T!Verifies(e)
<1>1. Shaped(e) /\ ~T!Has(e, "digest_algorithm") /\ ~T!Has(e, "canonicalization")
  BY BuiltShaped
<1>2. e["envelope_version"] = <<"integer", "1">> /\ Computed(e)
  BY DEF IsBuilt
<1>3. T!ReceiptErrors(e) = {}
  BY <1>1, <1>2, ShapedErrors
<1> QED BY <1>3 DEF T!Verifies

\* Most vectors of one envelope hold one like this.
LEMMA SingleBuilt ==
    ASSUME NEW payload
    PROVE  IsBuilt(T!Single(payload), payload, 1000, T!NoParent, "governance",
                   T!placeholder_hex_64("aa"), T!placeholder_hex_64("cc"))
BY Builds DEF T!Single, T!build_envelope

\* An envelope built with the digests of most vectors.
LEMMA EventBuilt ==
    ASSUME NEW payload, NEW time, NEW parent, NEW type
    PROVE  IsBuilt(T!build_envelope(payload, time, parent, type), payload, time, parent, type,
                   T!placeholder_hex_64("aa"), T!placeholder_hex_64("cc"))
BY Builds DEF T!build_envelope

----------------------------------------------------------------------------
(* The vectors of one envelope *)

\* A vector that expects a receipt that verifies to pass is right.
LEMMA PassReceipt ==
    ASSUME NEW name, NEW e, T!Verifies(e)
    PROVE  T!TellsTruth(T!Vector(name, "receipt", "pass", e))
BY DEF T!TellsTruth, T!Vector, T!Accepted

\* A vector that expects an error verify_receipt reports is right.
LEMMA FailReceipt ==
    ASSUME NEW name, NEW e, NEW x, x # "pass", x \in T!ReceiptErrors(e)
    PROVE  T!TellsTruth(T!Vector(name, "receipt", x, e))
BY DEF T!TellsTruth, T!Vector, T!Accepted, T!Verifies, T!Reported

\* The receipt of most vectors verifies.
LEMMA SingleVerifies ==
    ASSUME NEW payload
    PROVE  T!Verifies(T!Single(payload)) /\ Shaped(T!Single(payload))
<1>1. "governance" \in T!KNOWN_RECEIPT_TYPES
  BY DEF T!KNOWN_RECEIPT_TYPES
<1> QED BY <1>1, SingleBuilt, BuiltVerifies, BuiltShaped

\* So does the one that declares its algorithms: it is hashed again.
LEMMA WithAlgorithms ==
    LET body == T!With(T!With(T!Without(T!Single(T!Payload("create_with_algorithms", 99)), "event_hash"),
                   "digest_algorithm", <<"string", "BLAKE3">>),
              "canonicalization", <<"string", "JCS">>)
        e == T!Commit(T!With(body, "logical_time", <<"string", 2000>>))
    IN  T!Verifies(e)
<1> DEFINE p == T!Payload("create_with_algorithms", 99)
           bare == T!Without(T!Single(p), "event_hash")
           d == T!With(bare, "digest_algorithm", <<"string", "BLAKE3">>)
           body == T!With(d, "canonicalization", <<"string", "JCS">>)
           last == T!With(body, "logical_time", <<"string", 2000>>)
           e == T!Commit(last)
           S == (T!REQUIRED_ENVELOPE_FIELDS \ {"event_hash"})
           \union {"digest_algorithm", "canonicalization"}
<1> HIDE DEF p
<1>1. IsBuilt(T!Single(p), p, 1000, T!NoParent, "governance",
              T!placeholder_hex_64("aa"), T!placeholder_hex_64("cc"))
  BY SingleBuilt
<1>2. DOMAIN bare = T!REQUIRED_ENVELOPE_FIELDS \ {"event_hash"}
      /\ \A x \in T!REQUIRED_ENVELOPE_FIELDS \ {"event_hash"} : bare[x] = T!Single(p)[x]
  BY <1>1 DEF T!With, T!Without, T!Restrict, IsBuilt
<1> HIDE DEF bare
<1>3. DOMAIN d = DOMAIN bare \union {"digest_algorithm"}
      /\ d["digest_algorithm"] = <<"string", "BLAKE3">>
      /\ \A x \in DOMAIN bare \ {"digest_algorithm"} : d[x] = bare[x]
  BY DEF T!With, T!Without, T!Restrict
<1> HIDE DEF d
<1>4. DOMAIN body = DOMAIN d \union {"canonicalization"}
      /\ body["canonicalization"] = <<"string", "JCS">>
      /\ \A x \in DOMAIN d \ {"canonicalization"} : body[x] = d[x]
  BY DEF T!With, T!Without, T!Restrict
<1> HIDE DEF body
<1>5. /\ DOMAIN last = DOMAIN body \union {"logical_time"} /\ last["logical_time"] = <<"string", 2000>>
      /\ \A x \in DOMAIN body \ {"logical_time"} : last[x] = body[x]
      /\ last = [x \in DOMAIN last |-> last[x]]
  BY DEF T!With, T!Without, T!Restrict
<1> HIDE DEF last
<1>6. DOMAIN last = S
  BY <1>2, <1>3, <1>4, <1>5 DEF T!REQUIRED_ENVELOPE_FIELDS
<1>7. /\ DOMAIN e = S \union {"event_hash"}
      /\ \A x \in S : e[x] = last[x]
      /\ Computed(e)
  <2>1. "event_hash" \notin S
    OBVIOUS
  <2>2. last = [x \in S |-> last[x]]
    BY <1>5, <1>6
  <2> HIDE DEF S
  <2> QED BY <2>1, <2>2, Commits
<1> HIDE DEF e
<1>8. \A x \in T!REQUIRED_ENVELOPE_FIELDS \ {"event_hash", "logical_time"} : e[x] = T!Single(p)[x]
  BY <1>2, <1>3, <1>4, <1>5, <1>6, <1>7 DEF T!REQUIRED_ENVELOPE_FIELDS
<1>9. /\ e["logical_time"] = <<"string", 2000>>
      /\ e["digest_algorithm"] = <<"string", "BLAKE3">>
      /\ e["canonicalization"] = <<"string", "JCS">>
  BY <1>2, <1>3, <1>4, <1>5, <1>6, <1>7 DEF T!REQUIRED_ENVELOPE_FIELDS
<1>10. DOMAIN e = T!REQUIRED_ENVELOPE_FIELDS \union {"digest_algorithm", "canonicalization"}
  BY <1>7 DEF T!REQUIRED_ENVELOPE_FIELDS
<1>11. e["envelope_version"] = <<"integer", "1">> /\ e["receipt_type"] = <<"string", "governance">>
       /\ e["payload"][1] = "object"
  BY <1>1, <1>8 DEF IsBuilt, T!REQUIRED_ENVELOPE_FIELDS
<1>12. Shaped(e)
  BY <1>9, <1>10, <1>11 DEF Shaped, T!KNOWN_RECEIPT_TYPES
<1>13. T!ReceiptErrors(e) = {}
  BY <1>12, <1>7, <1>9, <1>11, ShapedErrors
<1> QED BY <1>13 DEF T!Verifies, e, last, body, d, bare, p

\* A receipt whose hash is changed fails for that alone.
LEMMA TamperedFails ==
    ASSUME NEW payload
    PROVE  T!ReceiptErrors(T!Tampered(T!Single(payload))) = {"EventHashMismatch"}
<1> DEFINE e == T!Single(payload)
           t == T!Tampered(e)
<1>1. IsBuilt(e, payload, 1000, T!NoParent, "governance",
              T!placeholder_hex_64("aa"), T!placeholder_hex_64("cc"))
  BY SingleBuilt
<1> HIDE DEF e
<1>2. DOMAIN t = DOMAIN e /\ t["event_hash"] = <<"string", T!Flip(T!get_hash(e))>>
      /\ \A x \in DOMAIN e \ {"event_hash"} : t[x] = e[x]
  BY <1>1 DEF T!With, T!Without, T!Restrict, T!Tampered, IsBuilt, T!REQUIRED_ENVELOPE_FIELDS
<1> HIDE DEF t
<1>3. ~Computed(t)
  <2>1. T!get_hash(t) = <<"flipped", T!get_hash(e)>>
    BY <1>2 DEF T!get_hash, T!Flip
  <2> QED BY <2>1 DEF Computed, T!canon_hash
<1>4. Shaped(t) /\ t["envelope_version"] = <<"integer", "1">>
  BY <1>1, <1>2 DEF Shaped, IsBuilt, T!REQUIRED_ENVELOPE_FIELDS, T!KNOWN_RECEIPT_TYPES
<1>5. DOMAIN t = T!REQUIRED_ENVELOPE_FIELDS
  BY <1>1, <1>2 DEF IsBuilt
<1>6. ~T!Has(t, "digest_algorithm") /\ ~T!Has(t, "canonicalization")
  BY <1>5 DEF T!Has, T!REQUIRED_ENVELOPE_FIELDS
<1> QED BY <1>3, <1>4, <1>6, ShapedErrors DEF t, e

\* A receipt with one member changed, added or dropped fails for that, though its
\* hash does not hold either.
LEMMA ChangedFails ==
    ASSUME NEW payload
    PROVE  LET e == T!Single(payload) IN
           /\ T!RefusedForItsVersion(T!With(e, "envelope_version", <<"integer", "99">>))
           /\ "UnknownField" \in T!ReceiptErrors(T!With(e, "bogus_field", <<"integer", "42">>))
           /\ "MissingRequiredField" \in T!ReceiptErrors(T!Without(e, "event_hash"))
           /\ "UnknownReceiptType" \in T!ReceiptErrors(T!With(e, "receipt_type", <<"string", "Quantum">>))
           /\ "DigestAlgorithmMismatch" \in
                  T!ReceiptErrors(T!With(e, "digest_algorithm", <<"string", "SHA256">>))
           /\ "CanonicalizationMismatch" \in
                  T!ReceiptErrors(T!With(e, "canonicalization", <<"string", "CBOR">>))
<1> DEFINE e == T!Single(payload)
<1>1. IsBuilt(e, payload, 1000, T!NoParent, "governance",
              T!placeholder_hex_64("aa"), T!placeholder_hex_64("cc"))
  BY SingleBuilt
<1>2. DOMAIN e = T!REQUIRED_ENVELOPE_FIELDS
  BY <1>1 DEF IsBuilt
<1>3. Shaped(e)
  BY SingleVerifies
<1> HIDE DEF e
<1>4. T!RefusedForItsVersion(T!With(e, "envelope_version", <<"integer", "99">>))
  <2> DEFINE t == T!With(e, "envelope_version", <<"integer", "99">>)
             fields == T!AsMembers(t)
             repaired == [fields EXCEPT !["envelope_version"] = <<"integer", "1">>]
  <2>1. DOMAIN t = DOMAIN e /\ t["envelope_version"] = <<"integer", "99">>
        /\ \A x \in DOMAIN e \ {"envelope_version"} : t[x] = e[x]
    BY <1>2 DEF T!With, T!Without, T!Restrict, T!REQUIRED_ENVELOPE_FIELDS
  <2> HIDE DEF t
  <2>2. Shaped(t)
    BY <1>2, <1>3, <2>1 DEF Shaped, T!REQUIRED_ENVELOPE_FIELDS
  <2>3. T!ReceiptErrors(t) = {"MalformedJson"}
    BY <2>1, <2>2, ShapedErrors
  <2>4. Readable(fields) /\ "envelope_version" \in DOMAIN fields
    BY <1>2, <2>1, <2>2, ShapedReadable DEF T!AsMembers, T!REQUIRED_ENVELOPE_FIELDS
  <2>5. fields = [x \in DOMAIN fields |-> fields[x]]
    BY DEF T!AsMembers
  <2> HIDE DEF fields
  <2>6. DOMAIN repaired = DOMAIN fields /\ repaired["envelope_version"] = <<"integer", "1">>
        /\ \A x \in DOMAIN fields \ {"envelope_version"} : repaired[x] = fields[x]
    BY <2>4, <2>5
  <2> HIDE DEF repaired
  <2>7. T!KindsOf("envelope_version") = {"integer"}
    BY DEF T!KindsOf, T!OPTIONAL_ENVELOPE_FIELDS
  <2>8. Readable(repaired)
    <3>1. repaired["envelope_version"][1] = "integer"
      BY <2>6
    <3>2. repaired["envelope_version"] # <<"string", "garbage">>
      BY <3>1
    <3>3. repaired["envelope_version"][1] \in T!KindsOf("envelope_version")
      BY <2>7, <3>1
    <3> QED BY <2>4, <2>6, <3>2, <3>3 DEF Readable
  <2>9. T!Deserializes(repaired)
    BY <2>6, <2>8, ReadableMeans
  <2> QED BY <2>3, <2>9 DEF T!RefusedForItsVersion, t, fields, repaired
<1>5. "UnknownField" \in T!ReceiptErrors(T!With(e, "bogus_field", <<"integer", "42">>))
  <2> DEFINE t == T!With(e, "bogus_field", <<"integer", "42">>)
  <2>1. "bogus_field" \in DOMAIN T!AsMembers(t)
    BY DEF T!With, T!Without, T!Restrict, T!AsMembers
  <2>2. T!validate_envelope_schema(T!AsMembers(t)) = "UnknownField"
    BY <2>1 DEF T!validate_envelope_schema, T!KnownFields, T!REQUIRED_ENVELOPE_FIELDS, T!OPTIONAL_ENVELOPE_FIELDS
  <2> HIDE DEF t
  <2>3. "UnknownField" \in T!ReceiptErrors(t)
    BY <2>2 DEF T!ReceiptErrors
  <2> QED BY <2>3 DEF t
<1>6. "MissingRequiredField" \in T!ReceiptErrors(T!Without(e, "event_hash"))
  <2> DEFINE t == T!Without(e, "event_hash")
  <2>1. DOMAIN T!AsMembers(t) = T!REQUIRED_ENVELOPE_FIELDS \ {"event_hash"}
    BY <1>2 DEF T!With, T!Without, T!Restrict, T!AsMembers
  <2>2. T!validate_envelope_schema(T!AsMembers(t)) = "MissingRequiredField"
    BY <2>1 DEF T!validate_envelope_schema, T!KnownFields, T!REQUIRED_ENVELOPE_FIELDS
  <2> HIDE DEF t
  <2>3. "MissingRequiredField" \in T!ReceiptErrors(t)
    BY <2>2 DEF T!ReceiptErrors
  <2> QED BY <2>3 DEF t
<1>7. "UnknownReceiptType" \in T!ReceiptErrors(T!With(e, "receipt_type", <<"string", "Quantum">>))
  <2> DEFINE t == T!With(e, "receipt_type", <<"string", "Quantum">>)
  <2>1. DOMAIN t = T!REQUIRED_ENVELOPE_FIELDS /\ t["receipt_type"] = <<"string", "Quantum">>
    BY <1>2 DEF T!With, T!Without, T!Restrict, T!REQUIRED_ENVELOPE_FIELDS
  <2> HIDE DEF t
  <2>2. DOMAIN T!AsMembers(t) = T!REQUIRED_ENVELOPE_FIELDS
        /\ T!AsMembers(t)["receipt_type"] = <<"string", "Quantum">>
    BY <2>1 DEF T!AsMembers, T!REQUIRED_ENVELOPE_FIELDS
  <2>3. T!validate_envelope_schema(T!AsMembers(t)) = "UnknownReceiptType"
    BY <2>2 DEF T!validate_envelope_schema, T!KnownFields, T!AsStr, T!Has, T!KNOWN_RECEIPT_TYPES, T!REQUIRED_ENVELOPE_FIELDS
  <2>4. "UnknownReceiptType" \in T!ReceiptErrors(t)
    BY <2>3 DEF T!ReceiptErrors
  <2> QED BY <2>4 DEF t
<1>8. "DigestAlgorithmMismatch" \in T!ReceiptErrors(T!With(e, "digest_algorithm", <<"string", "SHA256">>))
  <2> DEFINE t == T!With(e, "digest_algorithm", <<"string", "SHA256">>)
  <2>1. DOMAIN t = DOMAIN e \union {"digest_algorithm"}
        /\ t["digest_algorithm"] = <<"string", "SHA256">>
        /\ \A x \in DOMAIN e \ {"digest_algorithm"} : t[x] = e[x]
    BY DEF T!With, T!Without, T!Restrict
  <2> HIDE DEF t
  <2>2. Shaped(t)
    BY <1>2, <1>3, <2>1 DEF Shaped, T!REQUIRED_ENVELOPE_FIELDS
  <2>3. T!Has(t, "digest_algorithm") /\ t["digest_algorithm"][2] # "BLAKE3"
    BY <2>1 DEF T!Has
  <2>4. t["envelope_version"] = <<"integer", "1">>
    BY <1>1, <1>2, <2>1 DEF IsBuilt, T!REQUIRED_ENVELOPE_FIELDS
  <2> QED BY <2>2, <2>3, <2>4, ShapedErrors DEF t
<1>9. "CanonicalizationMismatch" \in T!ReceiptErrors(T!With(e, "canonicalization", <<"string", "CBOR">>))
  <2> DEFINE t == T!With(e, "canonicalization", <<"string", "CBOR">>)
  <2>1. DOMAIN t = DOMAIN e \union {"canonicalization"} /\ t["canonicalization"] = <<"string", "CBOR">>
        /\ \A x \in DOMAIN e \ {"canonicalization"} : t[x] = e[x]
    BY DEF T!With, T!Without, T!Restrict
  <2> HIDE DEF t
  <2>2. Shaped(t)
    BY <1>2, <1>3, <2>1 DEF Shaped, T!REQUIRED_ENVELOPE_FIELDS
  <2>3. T!Has(t, "canonicalization") /\ t["canonicalization"][2] # "JCS"
    BY <2>1 DEF T!Has
  <2>4. t["envelope_version"] = <<"integer", "1">>
    BY <1>1, <1>2, <2>1 DEF IsBuilt, T!REQUIRED_ENVELOPE_FIELDS
  <2> QED BY <2>2, <2>3, <2>4, ShapedErrors DEF t
<1> QED BY <1>4, <1>5, <1>6, <1>7, <1>8, <1>9 DEF e

----------------------------------------------------------------------------
(* Chains *)

\* A computed hash is a digest of the content, so it is none of the other values.
LEMMA HashIsDigest ==
    ASSUME NEW e, Computed(e)
    PROVE  T!get_hash(e) = <<"blake3", T!Without(e, "event_hash")>> /\ T!get_hash(e) # T!NoParent
           /\ T!get_hash(e) # <<"hex", "ff">>
BY DEF Computed, T!canon_hash, T!NoParent

\* Envelopes that differ in a member have different hashes.
LEMMA HashesDiffer ==
    ASSUME NEW e, NEW f, Computed(e), Computed(f),
           NEW x \in (DOMAIN e \intersect DOMAIN f) \ {"event_hash"}, e[x] # f[x]
    PROVE  T!get_hash(e) # T!get_hash(f)
<1>1. T!Without(e, "event_hash")[x] # T!Without(f, "event_hash")[x]
  BY DEF T!Without, T!Restrict
<1> QED BY <1>1 DEF Computed, T!canon_hash

\* verify_chain of two envelopes, the first of which opens the chain.
LEMMA PairChain ==
    ASSUME NEW a, NEW b, T!ParentOf(a) = T!NoParent
    PROVE  T!verify_chain(<<a, b>>) =
               IF b["context_digest"] # a["context_digest"] THEN "ContextInconsistent"
               ELSE IF b["policy_digest"] # a["policy_digest"] THEN "PolicyInconsistent"
               ELSE IF b["schema_digest"] # a["schema_digest"] THEN "SchemaInconsistent"
               ELSE IF T!get_hash(a) = T!get_hash(b) THEN "DuplicateEventHash"
               ELSE IF T!ParentOf(b) # T!get_hash(a) THEN "ChainLinkageBroken"
               ELSE IF b["logical_time"][2] <= a["logical_time"][2] THEN "LogicalTimeNotMonotonic"
               ELSE "none"
<1> DEFINE c == <<a, b>>
           deviates(name) == \E n \in 2..Len(c) : c[n][name] # c[1][name]
           error_at(n) ==
            IF \E m \in 1..(n - 1) : T!get_hash(c[m]) = T!get_hash(c[n]) THEN "DuplicateEventHash"
            ELSE IF T!ParentOf(c[n]) # T!get_hash(c[n - 1]) THEN "ChainLinkageBroken"
            ELSE IF c[n]["logical_time"][2] <= c[n - 1]["logical_time"][2]
                 THEN "LogicalTimeNotMonotonic"
            ELSE "none"
           failing == {n \in 2..Len(c) : error_at(n) # "none"}
<1>1. Len(c) = 2 /\ c[1] = a /\ c[2] = b /\ c # <<>>
  OBVIOUS
<1>2. T!verify_chain(c) =
        IF deviates("context_digest") THEN "ContextInconsistent"
        ELSE IF deviates("policy_digest") THEN "PolicyInconsistent"
        ELSE IF deviates("schema_digest") THEN "SchemaInconsistent"
        ELSE IF failing = {} THEN "none"
        ELSE error_at(CHOOSE n \in failing : \A m \in failing : n <= m)
  <2>1. ~(c # <<>> /\ T!ParentOf(c[1]) # T!NoParent)
    BY <1>1
  <2> HIDE DEF c
  <2> QED BY <2>1 DEF T!verify_chain
<1> HIDE DEF c
<1>3. 2..Len(c) = {2} /\ 1..(2 - 1) = {1} /\ 2 - 1 = 1
  BY <1>1
<1>4. deviates("context_digest") <=> b["context_digest"] # a["context_digest"]
  BY <1>1, <1>3
<1>5. deviates("policy_digest") <=> b["policy_digest"] # a["policy_digest"]
  BY <1>1, <1>3
<1>6. deviates("schema_digest") <=> b["schema_digest"] # a["schema_digest"]
  BY <1>1, <1>3
<1>7. error_at(2) = IF T!get_hash(a) = T!get_hash(b) THEN "DuplicateEventHash"
               ELSE IF T!ParentOf(b) # T!get_hash(a) THEN "ChainLinkageBroken"
               ELSE IF b["logical_time"][2] <= a["logical_time"][2] THEN "LogicalTimeNotMonotonic"
               ELSE "none"
  BY <1>1, <1>3
<1>8. failing = {n \in {2} : error_at(n) # "none"}
  BY <1>3
<1> HIDE DEF deviates, error_at, failing
<1>9. CASE error_at(2) = "none"
  BY <1>2, <1>4, <1>5, <1>6, <1>7, <1>8, <1>9 DEF c
<1>10. CASE error_at(2) # "none"
  <2>1. failing = {2}
    BY <1>8, <1>10
  <2>2. (CHOOSE n \in failing : \A m \in failing : n <= m) = 2
    BY <2>1
  <2> QED BY <1>2, <1>4, <1>5, <1>6, <1>7, <2>1, <2>2 DEF c
<1> QED BY <1>9, <1>10

\* The envelope that opens most chain vectors.
LEMMA OpeningBuilt ==
    ASSUME NEW time
    PROVE  /\ IsBuilt(T!Opening(time), T!Step(0), time, T!NoParent, "event",
                      T!placeholder_hex_64("aa"), T!placeholder_hex_64("cc"))
           /\ T!ParentOf(T!Opening(time)) = T!NoParent
           /\ T!get_hash(T!Opening(time)) # T!NoParent
<1>1. IsBuilt(T!Opening(time), T!Step(0), time, T!NoParent, "event",
                      T!placeholder_hex_64("aa"), T!placeholder_hex_64("cc"))
  BY EventBuilt DEF T!Opening
<1>2. T!ParentOf(T!Opening(time)) = T!NoParent
  BY <1>1 DEF IsBuilt, T!ParentOf, T!Has, T!REQUIRED_ENVELOPE_FIELDS
<1> QED BY <1>1, <1>2, HashIsDigest DEF IsBuilt

\* The parent of a built envelope is the one it was given.
LEMMA BuiltParent ==
    ASSUME NEW e, NEW payload, NEW time, NEW parent, NEW type, NEW context, NEW policy,
           IsBuilt(e, payload, time, parent, type, context, policy)
    PROVE  T!ParentOf(e) = parent
BY DEF IsBuilt, T!ParentOf, T!Has, T!REQUIRED_ENVELOPE_FIELDS

\* A chain vector that expects the error verify_chain reports is right.
LEMMA FailChain ==
    ASSUME NEW name, NEW c, NEW x, x \notin {"none", "pass"}, T!verify_chain(c) = x
    PROVE  T!TellsTruth(T!Vector(name, "verify_chain", x, c))
BY DEF T!TellsTruth, T!Vector, T!Accepted, T!Reported

\* The parent of the second envelope is no hash.
LEMMA BrokenLink ==
    T!verify_chain(<<T!Opening(100), T!build_envelope(T!Step(1), 200, <<"hex", "ff">>, "event")>>)
        = "ChainLinkageBroken"
<1> DEFINE a == T!Opening(100)
           b == T!build_envelope(T!Step(1), 200, <<"hex", "ff">>, "event")
<1>1. IsBuilt(a, T!Step(0), 100, T!NoParent, "event",
              T!placeholder_hex_64("aa"), T!placeholder_hex_64("cc"))
      /\ T!ParentOf(a) = T!NoParent
  BY OpeningBuilt
<1>2. IsBuilt(b, T!Step(1), 200, <<"hex", "ff">>, "event",
              T!placeholder_hex_64("aa"), T!placeholder_hex_64("cc"))
  BY EventBuilt
<1> HIDE DEF a, b
<1>3. T!ParentOf(b) = <<"hex", "ff">>
  BY <1>2, BuiltParent
<1>4. T!ParentOf(b) # T!get_hash(a)
  BY <1>1, <1>3, HashIsDigest DEF IsBuilt
<1>5. T!get_hash(a) # T!get_hash(b)
  <2>1. a["logical_time"] # b["logical_time"]
    BY <1>1, <1>2 DEF IsBuilt
  <2>2. "logical_time" \in (DOMAIN a \intersect DOMAIN b) \ {"event_hash"}
    BY <1>1, <1>2 DEF IsBuilt, T!REQUIRED_ENVELOPE_FIELDS
  <2>3. Computed(a) /\ Computed(b)
    BY <1>1, <1>2 DEF IsBuilt
  <2> QED BY <2>1, <2>2, <2>3, HashesDiffer
<1>6. T!verify_chain(<<a, b>>) = "ChainLinkageBroken"
  BY <1>1, <1>2, <1>4, <1>5, PairChain DEF IsBuilt
<1> QED BY <1>6 DEF a, b

\* The second envelope is earlier than the first.
LEMMA TimeRegression ==
    T!verify_chain(<<T!Opening(500), T!build_envelope(T!Step(1), 400, T!get_hash(T!Opening(500)), "event")>>)
        = "LogicalTimeNotMonotonic"
<1> DEFINE a == T!Opening(500)
           b == T!build_envelope(T!Step(1), 400, T!get_hash(a), "event")
<1>1. IsBuilt(a, T!Step(0), 500, T!NoParent, "event",
              T!placeholder_hex_64("aa"), T!placeholder_hex_64("cc"))
      /\ T!ParentOf(a) = T!NoParent
  BY OpeningBuilt
<1>2. IsBuilt(b, T!Step(1), 400, T!get_hash(a), "event",
              T!placeholder_hex_64("aa"), T!placeholder_hex_64("cc"))
  BY EventBuilt
<1> HIDE DEF a, b
<1>3. T!ParentOf(b) = T!get_hash(a)
  BY <1>2, BuiltParent
<1>4. T!get_hash(a) # T!get_hash(b)
  <2>1. a["logical_time"] # b["logical_time"]
    BY <1>1, <1>2 DEF IsBuilt
  <2>2. "logical_time" \in (DOMAIN a \intersect DOMAIN b) \ {"event_hash"}
    BY <1>1, <1>2 DEF IsBuilt, T!REQUIRED_ENVELOPE_FIELDS
  <2>3. Computed(a) /\ Computed(b)
    BY <1>1, <1>2 DEF IsBuilt
  <2> QED BY <2>1, <2>2, <2>3, HashesDiffer
<1>5. a["logical_time"][2] = 500 /\ b["logical_time"][2] = 400
  BY <1>1, <1>2 DEF IsBuilt
<1>6. /\ b["context_digest"] = a["context_digest"] /\ b["policy_digest"] = a["policy_digest"]
      /\ b["schema_digest"] = a["schema_digest"]
  BY <1>1, <1>2 DEF IsBuilt
<1>7. T!verify_chain(<<a, b>>) = "LogicalTimeNotMonotonic"
  BY <1>1, <1>3, <1>4, <1>5, <1>6, PairChain
<1> QED BY <1>7 DEF a, b

\* The second envelope states the hash of the first.
LEMMA DuplicateHash ==
    LET env_0 == T!build_envelope(T!Payload("duplicate", 0), 100, T!NoParent, "event")
        env_1 == T!build_envelope(T!Payload("duplicate", 0), 200, T!get_hash(env_0), "event")
    IN  T!verify_chain(<<env_0, T!With(env_1, "event_hash", env_0["event_hash"])>>) = "DuplicateEventHash"
<1> DEFINE p == T!Payload("duplicate", 0)
           a == T!build_envelope(p, 100, T!NoParent, "event")
           d == T!build_envelope(p, 200, T!get_hash(a), "event")
           b == T!With(d, "event_hash", a["event_hash"])
<1>1. IsBuilt(a, p, 100, T!NoParent, "event", T!placeholder_hex_64("aa"), T!placeholder_hex_64("cc"))
  BY EventBuilt
<1>2. IsBuilt(d, p, 200, T!get_hash(a), "event", T!placeholder_hex_64("aa"), T!placeholder_hex_64("cc"))
  BY EventBuilt
<1> HIDE DEF a, d, p
<1>3. T!ParentOf(a) = T!NoParent
  BY <1>1, BuiltParent
<1>4. T!get_hash(a) = T!get_hash(b)
  BY DEF T!With, T!get_hash
<1>5. \A x \in T!REQUIRED_ENVELOPE_FIELDS \ {"event_hash"} : b[x] = d[x]
  BY <1>2 DEF T!With, IsBuilt
<1>6. /\ b["context_digest"] = a["context_digest"] /\ b["policy_digest"] = a["policy_digest"]
      /\ b["schema_digest"] = a["schema_digest"]
  BY <1>1, <1>2, <1>5 DEF IsBuilt, T!REQUIRED_ENVELOPE_FIELDS
<1> HIDE DEF b
<1>7. T!verify_chain(<<a, b>>) = "DuplicateEventHash"
  BY <1>3, <1>4, <1>6, PairChain
<1> QED BY <1>7 DEF a, b, d, p

\* The second envelope has another context, policy or schema than the first.
LEMMA Inconsistent ==
    /\ T!verify_chain(<<T!Opening(100), T!Next200(T!placeholder_hex_64("dd"), T!placeholder_hex_64("cc"))>>)
           = "ContextInconsistent"
    /\ T!verify_chain(<<T!Opening(100), T!Next200(T!placeholder_hex_64("aa"), T!placeholder_hex_64("dd"))>>)
           = "PolicyInconsistent"
    /\ T!verify_chain(<<T!Opening(100), T!With(T!Next200(T!placeholder_hex_64("aa"), T!placeholder_hex_64("cc")),
                                         "schema_digest", T!placeholder_hex_64("dd"))>>)
           = "SchemaInconsistent"
<1> DEFINE a == T!Opening(100)
           b(context, policy) == T!Next200(context, policy)
           other == T!With(b(T!placeholder_hex_64("aa"), T!placeholder_hex_64("cc")), "schema_digest", T!placeholder_hex_64("dd"))
<1>1. IsBuilt(a, T!Step(0), 100, T!NoParent, "event",
              T!placeholder_hex_64("aa"), T!placeholder_hex_64("cc"))
      /\ T!ParentOf(a) = T!NoParent
  BY OpeningBuilt
<1>2. ASSUME NEW context, NEW policy
      PROVE  IsBuilt(b(context, policy), T!Step(1), 200, T!get_hash(a), "event", context, policy)
  BY Builds DEF T!Next200
<1>3. T!placeholder_hex_64("dd") # T!placeholder_hex_64("aa")
      /\ T!placeholder_hex_64("dd") # T!placeholder_hex_64("cc")
      /\ T!placeholder_hex_64("dd") # T!placeholder_hex_64("bb")
  BY DEF T!placeholder_hex_64
<1> HIDE DEF a, b
<1>4. T!verify_chain(<<a, b(T!placeholder_hex_64("dd"), T!placeholder_hex_64("cc"))>>) = "ContextInconsistent"
  <2> DEFINE f == b(T!placeholder_hex_64("dd"), T!placeholder_hex_64("cc"))
  <2>1. f["context_digest"] # a["context_digest"]
    BY <1>1, <1>2, <1>3 DEF IsBuilt
  <2> QED BY <1>1, <2>1, PairChain
<1>5. T!verify_chain(<<a, b(T!placeholder_hex_64("aa"), T!placeholder_hex_64("dd"))>>) = "PolicyInconsistent"
  <2> DEFINE f == b(T!placeholder_hex_64("aa"), T!placeholder_hex_64("dd"))
  <2>1. f["context_digest"] = a["context_digest"] /\ f["policy_digest"] # a["policy_digest"]
    BY <1>1, <1>2, <1>3 DEF IsBuilt
  <2> QED BY <1>1, <2>1, PairChain
<1>6. T!verify_chain(<<a, other>>) = "SchemaInconsistent"
  <2> DEFINE f == b(T!placeholder_hex_64("aa"), T!placeholder_hex_64("cc"))
  <2>1. IsBuilt(f, T!Step(1), 200, T!get_hash(a), "event",
                T!placeholder_hex_64("aa"), T!placeholder_hex_64("cc"))
    BY <1>2
  <2>2. other["schema_digest"] = T!placeholder_hex_64("dd")
        /\ other["context_digest"] = f["context_digest"]
        /\ other["policy_digest"] = f["policy_digest"]
    BY <2>1 DEF T!With, IsBuilt, T!REQUIRED_ENVELOPE_FIELDS
  <2> HIDE DEF f, other
  <2>3. /\ other["context_digest"] = a["context_digest"] /\ other["policy_digest"] = a["policy_digest"]
        /\ other["schema_digest"] # a["schema_digest"]
    BY <1>1, <1>3, <2>1, <2>2 DEF IsBuilt
  <2> QED BY <1>1, <2>3, PairChain
<1> QED BY <1>4, <1>5, <1>6 DEF a, b, other

\* The chain of three holds.
LEMMA ValidChain ==
    LET env_0 == T!build_envelope(T!Payload("initialize", 0), 100, T!NoParent, "governance")
        env_1 == T!build_envelope(T!Payload("update_policy", 2), 200, T!get_hash(env_0), "governance")
        env_2 == T!build_envelope(T!Payload("seal_epoch", 1), 300, T!get_hash(env_1), "governance")
        c == <<env_0, env_1, env_2>>
    IN  T!verify_chain(c) = "none" /\ \A n \in DOMAIN c : T!Verifies(c[n])
<1> DEFINE p0 == T!Payload("initialize", 0)
           p1 == T!Payload("update_policy", 2)
           p2 == T!Payload("seal_epoch", 1)
           e0 == T!build_envelope(p0, 100, T!NoParent, "governance")
           e1 == T!build_envelope(p1, 200, T!get_hash(e0), "governance")
           e2 == T!build_envelope(p2, 300, T!get_hash(e1), "governance")
           c == <<e0, e1, e2>>
<1>1. IsBuilt(e0, p0, 100, T!NoParent, "governance",
              T!placeholder_hex_64("aa"), T!placeholder_hex_64("cc"))
  BY EventBuilt
<1>2. IsBuilt(e1, p1, 200, T!get_hash(e0), "governance",
              T!placeholder_hex_64("aa"), T!placeholder_hex_64("cc"))
  BY EventBuilt
<1>3. IsBuilt(e2, p2, 300, T!get_hash(e1), "governance",
              T!placeholder_hex_64("aa"), T!placeholder_hex_64("cc"))
  BY EventBuilt
<1> HIDE DEF e0, e1, e2, p0, p1, p2
<1>4. T!ParentOf(e0) = T!NoParent /\ T!ParentOf(e1) = T!get_hash(e0) /\ T!ParentOf(e2) = T!get_hash(e1)
  BY <1>1, <1>2, <1>3, BuiltParent
<1>5. e0["logical_time"] = <<"string", 100>> /\ e1["logical_time"] = <<"string", 200>>
      /\ e2["logical_time"] = <<"string", 300>>
  BY <1>1, <1>2, <1>3 DEF IsBuilt
<1>6. \A name \in {"context_digest", "policy_digest", "schema_digest"} :
         e1[name] = e0[name] /\ e2[name] = e0[name]
  BY <1>1, <1>2, <1>3 DEF IsBuilt
<1>7. T!get_hash(e0) # T!get_hash(e1) /\ T!get_hash(e0) # T!get_hash(e2)
      /\ T!get_hash(e1) # T!get_hash(e2)
  <2>1. Computed(e0) /\ Computed(e1) /\ Computed(e2)
    BY <1>1, <1>2, <1>3 DEF IsBuilt
  <2>2. "logical_time" \in (DOMAIN e0 \intersect DOMAIN e1 \intersect DOMAIN e2) \ {"event_hash"}
    BY <1>1, <1>2, <1>3 DEF IsBuilt, T!REQUIRED_ENVELOPE_FIELDS
  <2> QED BY <1>5, <2>1, <2>2, HashesDiffer
<1>8. Len(c) = 3 /\ c[1] = e0 /\ c[2] = e1 /\ c[3] = e2 /\ DOMAIN c = 1..3
  OBVIOUS
<1> HIDE DEF c
<1>9. T!verify_chain(c) = "none"
  <2>1. ~(c # <<>> /\ T!ParentOf(c[1]) # T!NoParent)
    BY <1>4, <1>8
  <2>2. \A name \in {"context_digest", "policy_digest", "schema_digest"} :
           ~\E n \in 2..Len(c) : c[n][name] # c[1][name]
    BY <1>6, <1>8
  <2>3. \A n \in 2..Len(c) :
           /\ \A m \in 1..(n - 1) : T!get_hash(c[m]) # T!get_hash(c[n])
           /\ T!ParentOf(c[n]) = T!get_hash(c[n - 1])
           /\ ~(c[n]["logical_time"][2] <= c[n - 1]["logical_time"][2])
    <3> SUFFICES ASSUME NEW n \in {2, 3}
                 PROVE  /\ \A m \in 1..(n - 1) : T!get_hash(c[m]) # T!get_hash(c[n])
                        /\ T!ParentOf(c[n]) = T!get_hash(c[n - 1])
                        /\ ~(c[n]["logical_time"][2] <= c[n - 1]["logical_time"][2])
      BY <1>8
    <3>1. CASE n = 2
      BY <3>1, <1>4, <1>5, <1>7, <1>8
    <3>2. CASE n = 3
      BY <3>2, <1>4, <1>5, <1>7, <1>8
    <3> QED BY <3>1, <3>2
  <2> DEFINE deviates(name) == \E n \in 2..Len(c) : c[n][name] # c[1][name]
             error_at(n) ==
                IF \E m \in 1..(n - 1) : T!get_hash(c[m]) = T!get_hash(c[n]) THEN "DuplicateEventHash"
                ELSE IF T!ParentOf(c[n]) # T!get_hash(c[n - 1]) THEN "ChainLinkageBroken"
                ELSE IF c[n]["logical_time"][2] <= c[n - 1]["logical_time"][2]
                     THEN "LogicalTimeNotMonotonic"
                ELSE "none"
             failing == {n \in 2..Len(c) : error_at(n) # "none"}
  <2>4. T!verify_chain(c) =
          IF deviates("context_digest") THEN "ContextInconsistent"
          ELSE IF deviates("policy_digest") THEN "PolicyInconsistent"
          ELSE IF deviates("schema_digest") THEN "SchemaInconsistent"
          ELSE IF failing = {} THEN "none"
          ELSE error_at(CHOOSE n \in failing : \A m \in failing : n <= m)
    BY <2>1 DEF T!verify_chain
  <2>5. ~deviates("context_digest") /\ ~deviates("policy_digest") /\ ~deviates("schema_digest")
    BY <2>2
  <2>6. failing = {}
    BY <2>3
  <2> HIDE DEF deviates, failing
  <2> QED BY <2>4, <2>5, <2>6
<1>10. \A n \in DOMAIN c : T!Verifies(c[n])
  <2>1. "governance" \in T!KNOWN_RECEIPT_TYPES
    BY DEF T!KNOWN_RECEIPT_TYPES
  <2>2. T!Verifies(e0) /\ T!Verifies(e1) /\ T!Verifies(e2)
    BY <1>1, <1>2, <1>3, <2>1, BuiltVerifies
  <2> QED BY <2>2, <1>8
<1> QED BY <1>9, <1>10 DEF c, e0, e1, e2, p0, p1, p2

----------------------------------------------------------------------------
(* Signatures and trust *)

\* The signed envelope is accepted under its signature.
LEMMA SignedAccepted ==
    T!Verifies(T!SignedEnvelope)
    /\ T!S(<<>>)!SignedAcceptable(T!AsSigned(T!Signed(T!SignedEnvelope, T!Sign(T!SignedEnvelope))))
<1> DEFINE e == T!SignedEnvelope
           a == T!AsSigned(T!Signed(e, T!Sign(e)))
<1>1. T!Verifies(e)
  BY SingleVerifies DEF T!SignedEnvelope
<1>2. Computed(e)
  BY SingleBuilt DEF T!SignedEnvelope, IsBuilt
<1>3. T!get_hash(e)[2] = T!Without(e, "event_hash")
  BY <1>2, HashIsDigest
<1> HIDE DEF e
<1>4. a.envelope = [ingests |-> TRUE, version_ok |-> TRUE, algorithms_ok |-> TRUE,
                    content |-> T!Without(e, "event_hash"), event_hash |-> T!Without(e, "event_hash")]
  BY <1>3 DEF T!AsSigned, T!Signed
<1>5. /\ a.sig.parses /\ a.sig.metadata_ok
      /\ a.sig.public_key = T!SigningKey /\ a.sig.key_id = T!key_id(T!SigningKey)
      /\ a.sig.signature = [by |-> T!SigningKey, content |-> T!Without(e, "event_hash"),
                            timestamp |-> "2026-02-23T12:00:00Z"]
      /\ a.sig.timestamp = "2026-02-23T12:00:00Z"
  BY DEF T!AsSigned, T!Signed, T!Sign, T!With
<1>6. T!SigningKey # Absent
  BY AbsentAssumption
<1> HIDE DEF a
<1>7. T!S(<<>>)!SignedAcceptable(a)
  BY <1>4, <1>5, <1>6 DEF T!S!SignedAcceptable
<1> QED BY <1>1, <1>7 DEF a, e

\* It is rejected under the corrupted one.
LEMMA CorruptedRejected ==
    LET e == T!Single([action |-> "signed_change"])
        corrupted == [T!Sign(e) EXCEPT !.signature.by = "nobody"]
    IN  ~T!S(<<>>)!SignedAcceptable(T!AsSigned(T!Signed(T!SignedEnvelope, corrupted)))
<1> DEFINE e == T!Single([action |-> "signed_change"])
           corrupted == [T!Sign(e) EXCEPT !.signature.by = "nobody"]
           a == T!AsSigned(T!Signed(T!SignedEnvelope, corrupted))
<1> HIDE DEF e
<1>1. corrupted.signature.by = "nobody"
      /\ DOMAIN corrupted = {"alg", "schema_version", "digest_basis", "key_id", "public_key",
                             "signature", "timestamp"}
  BY DEF T!Sign
<1> HIDE DEF corrupted
<1>2. a.sig.signature.by = "nobody"
  BY <1>1 DEF T!AsSigned, T!Signed, T!With
<1> HIDE DEF a
<1>3. ~T!S(<<>>)!SignedAcceptable(a)
  BY <1>2 DEF T!S!SignedAcceptable, T!SigningKey
<1> QED BY <1>3 DEF a, corrupted, e

\* The key that signed it is authorised by the first trust configuration and not by
\* the empty one.
LEMMA TrustDecided ==
    LET entry == [public_key |-> T!SigningKey, valid_from |-> 0, valid_until |-> Absent]
        known == [k \in {T!key_id(T!SigningKey)} |-> entry]
        a == T!AsSigned(T!Signed(T!SignedEnvelope, T!Sign(T!SignedEnvelope)))
    IN  T!S(known)!SignerAuthorised(a) /\ ~T!S(<<>>)!SignerAuthorised(a)
<1> DEFINE entry == [public_key |-> T!SigningKey, valid_from |-> 0, valid_until |-> Absent]
           known == [k \in {T!key_id(T!SigningKey)} |-> entry]
           a == T!AsSigned(T!Signed(T!SignedEnvelope, T!Sign(T!SignedEnvelope)))
<1>1. a.sig.key_id = T!key_id(T!SigningKey) /\ a.sig.signature.by = T!SigningKey
  BY DEF T!AsSigned, T!Signed, T!Sign, T!With
<1> HIDE DEF a
<1>2. DOMAIN known = {T!key_id(T!SigningKey)} /\ known[T!key_id(T!SigningKey)] = entry
  OBVIOUS
<1>3. entry.public_key = T!SigningKey /\ entry.valid_from = 0 /\ entry.valid_until = Absent
  OBVIOUS
<1> HIDE DEF known, entry
<1>4. T!trust_policy.current_epoch = 1
  BY DEF T!trust_policy
<1>5. T!S(known)!SignerAuthorised(a)
  BY <1>1, <1>2, <1>3, <1>4 DEF T!S!SignerAuthorised
<1>6. ~T!S(<<>>)!SignerAuthorised(a)
  BY DEF T!S!SignerAuthorised
<1> QED BY <1>5, <1>6 DEF known, entry, a

\* The external receipt is accepted, and rejected when its hash is changed.
LEMMA ExternalDecided ==
    ASSUME NEW payload
    PROVE  LET e == T!Single(payload) IN
           T!E!RequestAcceptable(T!AsRequest(e)) /\ ~T!E!RequestAcceptable(T!AsRequest(T!Tampered(e)))
<1> DEFINE e == T!Single(payload)
           t == T!Tampered(e)
<1>1. T!Verifies(e) /\ ~T!Verifies(t)
  BY SingleVerifies, TamperedFails DEF T!Verifies
<1>2. e["receipt_type"][2] = "governance"
  BY SingleBuilt DEF IsBuilt
<1>3. Absent # ""
  BY AbsentAssumption
<1> HIDE DEF e, t
<1>4. T!E!RequestAcceptable(T!AsRequest(e))
  BY <1>1, <1>2, <1>3 DEF T!E!RequestAcceptable, T!E!SourceAcceptable, T!AsRequest
<1>5. ~T!E!RequestAcceptable(T!AsRequest(t))
  BY <1>1 DEF T!E!RequestAcceptable, T!E!SourceAcceptable, T!AsRequest
<1> QED BY <1>4, <1>5 DEF e, t

----------------------------------------------------------------------------
(* Packs *)

\* The receipts of the packs.
LEMMA ReceiptBuilt ==
    ASSUME NEW kind, NEW support_set, NEW digest, NEW time,
           NEW e, e = T!Receipt(kind, support_set, digest, time)
    PROVE  /\ T!Verifies(e) /\ Computed(e)
           /\ "logical_time" \in DOMAIN e /\ e["logical_time"] = <<"string", time>>
           /\ e["payload"][2].support_set = support_set
           /\ T!AsSupplied(e).json /\ T!AsSupplied(e).verifies /\ T!AsSupplied(e).payload
           /\ T!AsSupplied(e).event_hash = T!get_hash(e)
           /\ T!AsSupplied(e).admitted <=> kind = "decision.v0"
           /\ T!AsSupplied(e).payload_kind = kind
           /\ T!AsSupplied(e).support_set = support_set
           /\ T!AsSupplied(e).closure_manifest_digest = digest
<1> DEFINE p == [payload_kind |-> kind, support_set |-> support_set, closure_manifest_digest |-> digest]
<1>1. IsBuilt(e, p, time, T!NoParent, "event", T!placeholder_hex_64("aa"), T!placeholder_hex_64("cc"))
  BY EventBuilt DEF T!Receipt
<1>2. "event" \in T!KNOWN_RECEIPT_TYPES
  BY DEF T!KNOWN_RECEIPT_TYPES
<1> HIDE DEF p
<1>3. T!Verifies(e)
  BY <1>1, <1>2, BuiltVerifies
<1>4. /\ Computed(e) /\ "logical_time" \in DOMAIN e /\ e["logical_time"] = <<"string", time>>
      /\ e["payload"][2] = p
  BY <1>1 DEF IsBuilt, T!REQUIRED_ENVELOPE_FIELDS
<1>5. p.payload_kind = kind /\ p.support_set = support_set /\ p.closure_manifest_digest = digest
  BY DEF p
<1>6. /\ T!AsSupplied(e).json /\ T!AsSupplied(e).verifies /\ T!AsSupplied(e).payload
      /\ T!AsSupplied(e).event_hash = T!get_hash(e)
      /\ T!AsSupplied(e).payload_kind = kind
      /\ T!AsSupplied(e).support_set = support_set
      /\ T!AsSupplied(e).closure_manifest_digest = digest
  BY <1>3, <1>4, <1>5 DEF T!AsSupplied
<1>7. T!AsSupplied(e).admitted <=> kind = "decision.v0"
  BY <1>4, <1>5 DEF T!AsSupplied
<1> QED BY <1>3, <1>4, <1>5, <1>6, <1>7

\* The provider of the packs.
LEMMA ProviderBuilt ==
    /\ Computed(T!Provider) /\ "logical_time" \in DOMAIN T!Provider
    /\ T!Provider["logical_time"] = <<"string", 1000>>
    /\ T!Provider["payload"][2].support_set = <<T!Committed("evidence_digest")>>
    /\ T!AsSupplied(T!Provider).json /\ T!AsSupplied(T!Provider).verifies
    /\ T!AsSupplied(T!Provider).event_hash = T!get_hash(T!Provider)
    /\ T!AsSupplied(T!Provider).payload_kind = "provider.v0"
    /\ T!AsSupplied(T!Provider).support_set = <<T!Committed("evidence_digest")>>
<1> DEFINE support == <<T!Committed("evidence_digest")>>
<1>1. T!Provider = T!Receipt("provider.v0", support, Absent, 1000)
  BY DEF T!Provider
<1> HIDE DEF support
<1>2. QED BY <1>1, ReceiptBuilt DEF support

\* The model of the packs, naming the provider under one schema or another.
LEMMA ModelBuilt ==
    ASSUME NEW schema, NEW e, e = T!build_layered_model(T!get_hash(T!Provider), schema)
    PROVE  /\ Computed(e) /\ "logical_time" \in DOMAIN e
           /\ e["logical_time"] = <<"string", 1001>>
           /\ e["payload"][2].support_set = <<T!Typed(T!get_hash(T!Provider), schema)>>
           /\ T!AsSupplied(e).json /\ T!AsSupplied(e).verifies /\ T!AsSupplied(e).payload
           /\ T!AsSupplied(e).event_hash = T!get_hash(e)
           /\ T!AsSupplied(e).payload_kind = "model.v0"
           /\ T!AsSupplied(e).support_set = <<T!Typed(T!get_hash(T!Provider), schema)>>
<1> DEFINE support == <<T!Typed(T!get_hash(T!Provider), schema)>>
<1>1. e = T!Receipt("model.v0", support, Absent, 1001)
  BY DEF T!build_layered_model
<1> HIDE DEF support
<1>2. QED BY <1>1, ReceiptBuilt DEF support

\* The layered pack is accepted if the edge of the model names the schema of the
\* provider, and only then.
LEMMA LayeredDecided ==
    LET pack(root) == T!Pack("vr-layered-pack/v1", root, <<T!Provider>>)
        model_bad == T!build_layered_model(T!get_hash(T!Provider), "model.v0")
    IN  T!L!LayeredAcceptable(T!AsPack(pack(T!Model)))
    /\ ~T!L!LayeredAcceptable(T!AsPack(pack(model_bad)))
<1> DEFINE pack(root) == T!Pack("vr-layered-pack/v1", root, <<T!Provider>>)
           m(schema) == T!build_layered_model(T!get_hash(T!Provider), schema)
           edges(schema) == <<T!Typed(T!get_hash(T!Provider), schema)>>
<1>1. ASSUME NEW schema
      PROVE  /\ T!AsSupplied(m(schema)).verifies /\ T!AsSupplied(m(schema)).payload
             /\ T!AsSupplied(m(schema)).payload_kind = "model.v0"
             /\ T!AsSupplied(m(schema)).support_set = edges(schema)
             /\ m(schema)["payload"][2].support_set = edges(schema)
  BY ModelBuilt
<1>2. T!AsSupplied(T!Provider).verifies /\ T!AsSupplied(T!Provider).event_hash = T!get_hash(T!Provider)
      /\ T!AsSupplied(T!Provider).payload_kind = "provider.v0"
  BY ProviderBuilt
<1>3. edges("provider.v0") # Absent /\ edges("model.v0") # Absent
  <2> HIDE DEF edges
  <2> QED BY <1>1, AbsentAssumption DEF T!Model
<1> HIDE DEF m
<1>4. ASSUME NEW schema, edges(schema) # Absent
      PROVE  T!L!LayeredAcceptable(T!AsPack(pack(m(schema)))) <=> schema = "provider.v0"
  <2> DEFINE p == T!AsPack(pack(m(schema)))
  <2>1. /\ p.json /\ p.format_ok /\ p.root_canonical = T!AsSupplied(m(schema))
        /\ p.receipts = [n \in DOMAIN <<T!Provider>> |-> T!AsSupplied(<<T!Provider>>[n])]
    BY DEF T!AsPack, T!Pack
  <2>2. Len(p.receipts) = 1 /\ p.receipts[1] = T!AsSupplied(T!Provider)
    BY <2>1
  <2> HIDE DEF p
  <2>3. T!L!FirstStating(p, T!get_hash(T!Provider)) = {1}
    BY <2>2, <1>2 DEF T!L!FirstStating
  <2>4. Len(edges(schema)) = 1 /\ edges(schema)[1] = T!Typed(T!get_hash(T!Provider), schema)
    OBVIOUS
  <2> HIDE DEF edges
  <2>5. T!L!EdgeHolds(p, edges(schema)[1]) <=> schema = "provider.v0"
    BY <2>2, <2>3, <2>4, <1>2 DEF T!L!EdgeHolds, T!Typed
  <2>6. p.root_canonical.verifies /\ p.root_canonical.support_set = edges(schema)
        /\ T!L!Admitted(p.root_canonical)
    BY <2>1, <1>1, <1>4 DEF T!L!Admitted
  <2>7. (\A n \in 1..Len(edges(schema)) : T!L!EdgeHolds(p, edges(schema)[n])) <=> schema = "provider.v0"
    BY <2>4, <2>5
  <2>8. T!L!LayeredAcceptable(p) <=> schema = "provider.v0"
    BY <2>1, <2>6, <2>7 DEF T!L!LayeredAcceptable
  <2> QED BY <2>8 DEF p
<1>5. T!L!LayeredAcceptable(T!AsPack(pack(m("provider.v0"))))
      /\ ~T!L!LayeredAcceptable(T!AsPack(pack(m("model.v0"))))
  BY <1>3, <1>4
<1> QED BY <1>5 DEF m, T!Model

\* The decision pack is accepted with the receipt it depends on and rejected without.
LEMMA DecisionDecided ==
    LET pack(supplied) == T!Pack("vr-decision-pack/v1", T!Decision, supplied) IN
    T!D!DecisionAcceptable(T!AsPack(pack(<<T!Prior>>))) /\ ~T!D!DecisionAcceptable(T!AsPack(pack(<<>>)))
<1> DEFINE support == <<T!Committed("cited_link"),
              [T!Committed("depended_on_receipt") EXCEPT !.event_hash = T!get_hash(T!Prior)],
              T!Committed("evidence_digest"),
              T!Committed("selector_value")>>
           p == T!AsPack(T!Pack("vr-decision-pack/v1", T!Decision, <<T!Prior>>))
           q == T!AsPack(T!Pack("vr-decision-pack/v1", T!Decision, <<>>))
<1>1. T!AsSupplied(T!Decision).verifies /\ T!AsSupplied(T!Decision).admitted
      /\ T!AsSupplied(T!Decision).support_set = support
  <2>1. T!Decision = T!Receipt("decision.v0", support, Absent, 1001)
    BY DEF T!Decision
  <2> HIDE DEF support
  <2> QED BY <2>1, ReceiptBuilt
<1>2. T!AsSupplied(T!Prior).verifies /\ T!AsSupplied(T!Prior).event_hash = T!get_hash(T!Prior)
  <2> DEFINE none == <<>>
  <2>1. T!Prior = T!Receipt("prior", none, Absent, 1000)
    BY DEF T!Prior
  <2> HIDE DEF none
  <2> QED BY <2>1, ReceiptBuilt
<1>3. T!get_hash(T!Prior) # Absent
  BY AbsentAssumption
<1>4. /\ p.json /\ p.format_ok /\ p.decision = T!AsSupplied(T!Decision)
      /\ p.depended_on = [n \in DOMAIN <<T!Prior>> |-> T!AsSupplied(<<T!Prior>>[n])]
  BY DEF T!AsPack, T!Pack
<1>5. /\ q.decision = T!AsSupplied(T!Decision)
      /\ q.depended_on = [n \in DOMAIN <<>> |-> T!AsSupplied(<<>>[n])]
  BY DEF T!AsPack, T!Pack
<1> HIDE DEF p, q
<1>6. Len(p.depended_on) = 1 /\ p.depended_on[1] = T!AsSupplied(T!Prior)
  BY <1>4
<1>7. Len(q.depended_on) = 0
  BY <1>5
<1>8. /\ Len(support) = 4
      /\ support[2].member_kind = "depended_on_receipt" /\ support[2].event_hash = T!get_hash(T!Prior)
      /\ \A n \in {1, 3, 4} : support[n].well_formed
                              /\ support[n].member_kind \in {"cited_link", "evidence_digest", "selector_value"}
  <2>1. /\ Len(support) = 4 /\ support[1] = T!Committed("cited_link")
        /\ support[2] = [T!Committed("depended_on_receipt") EXCEPT !.event_hash = T!get_hash(T!Prior)]
        /\ support[3] = T!Committed("evidence_digest") /\ support[4] = T!Committed("selector_value")
    OBVIOUS
  <2> HIDE DEF support
  <2>2. support[2].member_kind = "depended_on_receipt" /\ support[2].event_hash = T!get_hash(T!Prior)
    BY <2>1 DEF T!Committed
  <2>3. /\ support[1].member_kind = "cited_link" /\ support[1].well_formed
        /\ support[3].member_kind = "evidence_digest" /\ support[3].well_formed
        /\ support[4].member_kind = "selector_value" /\ support[4].well_formed
    <3>1. ASSUME NEW kind PROVE T!Committed(kind).member_kind = kind /\ T!Committed(kind).well_formed
      BY DEF T!Committed
    <3> QED BY <2>1, <3>1
  <2> QED BY <2>1, <2>2, <2>3
<1> HIDE DEF support
<1>9. T!D!Stating(p, T!get_hash(T!Prior)) = {1} /\ T!D!Stating(p, Absent) = {}
  BY <1>2, <1>3, <1>6 DEF T!D!Stating
<1>10. T!D!Holds(p, support[2])
  BY <1>2, <1>6, <1>8, <1>9 DEF T!D!Holds, T!D!Replayed, T!D!ReceiptKinds
<1>11. \A n \in {1, 3, 4} : T!D!Holds(p, support[n])
  BY <1>8 DEF T!D!Holds, T!D!ReceiptKinds
<1>12. \A n \in 1..Len(support) : T!D!Holds(p, support[n])
  BY <1>8, <1>10, <1>11
<1>13. T!D!DecisionAcceptable(p)
  BY <1>1, <1>4, <1>9, <1>12 DEF T!D!DecisionAcceptable
<1>14. ~T!D!Holds(q, support[2])
  BY <1>7, <1>8 DEF T!D!Holds, T!D!Replayed, T!D!Stating, T!D!ReceiptKinds
<1>15. ~T!D!DecisionAcceptable(q)
  <2>1. q.decision.support_set = support /\ 2 \in 1..Len(support)
    BY <1>1, <1>5, <1>8
  <2> QED BY <2>1, <1>14 DEF T!D!DecisionAcceptable
<1> QED BY <1>13, <1>15 DEF p, q

\* The root of the closure bundle.
LEMMA RootBuilt ==
    /\ Computed(T!ClosureRoot) /\ "logical_time" \in DOMAIN T!ClosureRoot
    /\ T!ClosureRoot["logical_time"] = <<"string", 1002>>
    /\ T!ClosureRoot["payload"][2].support_set = <<T!Typed(T!get_hash(T!Model), "model.v0")>>
    /\ T!AsSupplied(T!ClosureRoot).json /\ T!AsSupplied(T!ClosureRoot).verifies
    /\ T!AsSupplied(T!ClosureRoot).event_hash = T!get_hash(T!ClosureRoot)
    /\ T!AsSupplied(T!ClosureRoot).payload_kind = "pack.v0"
    /\ T!AsSupplied(T!ClosureRoot).support_set = <<T!Typed(T!get_hash(T!Model), "model.v0")>>
    /\ T!AsSupplied(T!ClosureRoot).closure_manifest_digest = T!canon_hash(T!ManifestBody)
<1> DEFINE support == <<T!Typed(T!get_hash(T!Model), "model.v0")>>
<1>1. T!ClosureRoot = T!Receipt("pack.v0", support, T!canon_hash(T!ManifestBody), 1002)
  BY DEF T!ClosureRoot
<1> HIDE DEF support
<1>2. QED BY <1>1, ReceiptBuilt DEF support

\* The receipts of the closure bundle have different hashes.
LEMMA HashesOfBundle ==
    /\ T!get_hash(T!Provider) # T!get_hash(T!Model)
       /\ T!get_hash(T!Provider) # T!get_hash(T!ClosureRoot)
    /\ T!get_hash(T!Model) # T!get_hash(T!ClosureRoot)
<1>1. Computed(T!Model) /\ "logical_time" \in DOMAIN T!Model
      /\ T!Model["logical_time"] = <<"string", 1001>>
  BY ModelBuilt DEF T!Model
<1> QED BY <1>1, ProviderBuilt, RootBuilt, HashesDiffer

\* The elements of a concatenation.
LEMMA Concats ==
    ASSUME NEW U, NEW u \in Seq(U), NEW t \in Seq(U)
    PROVE  /\ u \o t \in Seq(U)
           /\ Len(u \o t) = Len(u) + Len(t)
           /\ \A i \in 1..Len(u) : (u \o t)[i] = u[i]
           /\ \A i \in 1..Len(t) : (u \o t)[Len(u) + i] = t[i]
OBVIOUS
\* The strings of a bundle of two receipts, the root coming first.
LEMMA Prepended ==
    ASSUME NEW x, NEW y, NEW z
    PROVE  LET s == <<x>> \o <<y, z>> IN s[1] = x /\ s[2] = y /\ s[3] = z
<1> DEFINE u == <<x>>
           t == <<y, z>>
           S == {x, y, z}
<1>1. u \in Seq(S) /\ t \in Seq(S) /\ Len(u) = 1 /\ Len(t) = 2 /\ u[1] = x /\ t[1] = y /\ t[2] = z
  OBVIOUS
<1> HIDE DEF u, t, S
<1>3. /\ \A i \in 1..Len(u) : (u \o t)[i] = u[i]
      /\ \A i \in 1..Len(t) : (u \o t)[Len(u) + i] = t[i]
  BY <1>1, Concats
<1>2. (u \o t)[1] = x /\ (u \o t)[1 + 1] = y /\ (u \o t)[1 + 2] = z
  <2>1. 1 \in 1..Len(u) /\ 1 \in 1..Len(t) /\ 2 \in 1..Len(t)
    BY <1>1
  <2>2. (u \o t)[1] = u[1] /\ (u \o t)[Len(u) + 1] = t[1] /\ (u \o t)[Len(u) + 2] = t[2]
    BY <2>1, <1>3
  <2> QED BY <2>2, <1>1
<1> QED BY <1>2 DEF u, t

\* The strings of a bundle of one.
LEMMA PrependedOne ==
    ASSUME NEW x, NEW y
    PROVE  LET s == <<x>> \o <<y>> IN s[1] = x /\ s[2] = y
OBVIOUS

\* The last of one position.
LEMMA LastOfOne == \A k \in Nat : T!C!LastPosition({k}) = k
BY DEF T!C!LastPosition

\* The index of a bundle of the root, the model and, if it is supplied, the provider.
LEMMA BundleIndexed ==
    ASSUME NEW b,
           b.root_canonical = T!AsSupplied(T!ClosureRoot),
           b.receipts = <<T!AsSupplied(T!Model), T!AsSupplied(T!Provider)>>
           \/ b.receipts = <<T!AsSupplied(T!Model)>>
    PROVE  LET hp == T!get_hash(T!Provider)
               hm == T!get_hash(T!Model)
               hr == T!get_hash(T!ClosureRoot)
               idx == T!C!FinalIndex(b)
           IN  /\ DOMAIN idx = IF Len(b.receipts) = 2 THEN {hr, hm, hp} ELSE {hr, hm}
               /\ idx[hr] = T!C!ReadNode(T!AsSupplied(T!ClosureRoot))
               /\ idx[hm] = T!C!ReadNode(T!AsSupplied(T!Model))
               /\ Len(b.receipts) = 2 => idx[hp] = T!C!ReadNode(T!AsSupplied(T!Provider))
<1> DEFINE hp == T!get_hash(T!Provider)
           hm == T!get_hash(T!Model)
           hr == T!get_hash(T!ClosureRoot)
           s == T!C!Strings(b)
<1>1. hp # hm /\ hp # hr /\ hm # hr
  BY HashesOfBundle
<1>2. T!AsSupplied(T!ClosureRoot).event_hash = hr /\ T!AsSupplied(T!ClosureRoot).json
  BY RootBuilt
<1>3. T!AsSupplied(T!Model).event_hash = hm /\ T!AsSupplied(T!Model).json
  BY ModelBuilt DEF T!Model
<1>4. T!AsSupplied(T!Provider).event_hash = hp /\ T!AsSupplied(T!Provider).json
  BY ProviderBuilt
<1> HIDE DEF hp, hm, hr
<1>5. CASE b.receipts = <<T!AsSupplied(T!Model), T!AsSupplied(T!Provider)>>
  <2>2. /\ Len(b.receipts) = 2 /\ s[1] = T!AsSupplied(T!ClosureRoot)
        /\ s[2] = T!AsSupplied(T!Model) /\ s[3] = T!AsSupplied(T!Provider)
    BY <1>5, Prepended DEF T!C!Strings
  <2> HIDE DEF s
  <2>3. T!C!Stating(b, 3, hr) = {1} /\ T!C!Stating(b, 3, hm) = {2} /\ T!C!Stating(b, 3, hp) = {3}
    BY <2>2, <1>1, <1>2, <1>3, <1>4 DEF T!C!Stating, s
  <2>4. T!C!LastPosition({1}) = 1 /\ T!C!LastPosition({2}) = 2 /\ T!C!LastPosition({3}) = 3
    BY LastOfOne
  <2>5. T!C!FinalIndex(b) = T!C!IndexAfter(b, 3)
    BY <2>2 DEF T!C!FinalIndex
  <2>6. DOMAIN T!C!IndexAfter(b, 3) = {hr, hm, hp}
    BY <2>3 DEF T!C!IndexAfter, hp, hm, hr
  <2>7. \A h \in {hr, hm, hp} : T!C!IndexAfter(b, 3)[h]
           = T!C!ReadNode(s[T!C!LastPosition(T!C!Stating(b, 3, h))])
    BY <2>3 DEF T!C!IndexAfter, hp, hm, hr, s
  <2> QED BY <2>2, <2>3, <2>4, <2>5, <2>6, <2>7 DEF hp, hm, hr
<1>6. CASE b.receipts = <<T!AsSupplied(T!Model)>>
  <2>2. Len(b.receipts) = 1 /\ s[1] = T!AsSupplied(T!ClosureRoot) /\ s[2] = T!AsSupplied(T!Model)
    BY <1>6, PrependedOne DEF T!C!Strings
  <2> HIDE DEF s
  <2>3. T!C!Stating(b, 2, hr) = {1} /\ T!C!Stating(b, 2, hm) = {2} /\ T!C!Stating(b, 2, hp) = {}
    BY <2>2, <1>1, <1>2, <1>3 DEF T!C!Stating, s
  <2>4. T!C!LastPosition({1}) = 1 /\ T!C!LastPosition({2}) = 2
    BY LastOfOne
  <2>5. T!C!FinalIndex(b) = T!C!IndexAfter(b, 2)
    BY <2>2 DEF T!C!FinalIndex
  <2>6. DOMAIN T!C!IndexAfter(b, 2) = {hr, hm}
    BY <2>3 DEF T!C!IndexAfter, hp, hm, hr
  <2>7. \A h \in {hr, hm} : T!C!IndexAfter(b, 2)[h]
           = T!C!ReadNode(s[T!C!LastPosition(T!C!Stating(b, 2, h))])
    BY <2>3 DEF T!C!IndexAfter, hp, hm, hr, s
  <2> QED BY <2>2, <2>3, <2>4, <2>5, <2>6, <2>7 DEF hp, hm, hr
<1> QED BY <1>5, <1>6

\* The node of a receipt that verifies.
LEMMA NodeRead ==
    ASSUME NEW r, r.verifies, r.support_set # Absent
    PROVE  /\ T!C!ReadNode(r).payload_kind = r.payload_kind
           /\ T!C!ReadNode(r).support_set = r.support_set
           /\ T!C!ReadNode(r).verify_status = "Valid"
BY DEF T!C!ReadNode

\* A receipt whose support set is one typed member has one edge.
LEMMA OneTyped ==
    ASSUME NEW idx, NEW h, NEW target, NEW schema, T!C!Members(idx, h) = <<T!Typed(target, schema)>>
    PROVE  /\ Len(T!C!Members(idx, h)) = 1
           /\ \A k \in 1..Len(T!C!Members(idx, h)) : T!C!Members(idx, h)[k] = T!Typed(target, schema)
           /\ \A g : T!C!TypedEdge(idx, h, g) <=> g = target
           /\ \A g : T!C!ResolvedEdge(idx, h, g)
                     <=> g = target /\ T!C!classify_edge(idx, T!Typed(target, schema)) = "Resolved"
<1> DEFINE m == T!Typed(target, schema)
<1>1. T!C!IsTyped(m) /\ m.event_hash = target
  BY DEF T!C!IsTyped, T!Typed
<1> HIDE DEF m
<1>2. Len(T!C!Members(idx, h)) = 1 /\ T!C!Members(idx, h)[1] = m
  BY DEF m
<1>3. \A k \in 1..Len(T!C!Members(idx, h)) : T!C!Members(idx, h)[k] = m
  BY <1>2
<1>4. 1 \in 1..Len(T!C!Members(idx, h))
  BY <1>2
<1> HIDE DEF m
<1>5. \A g : T!C!TypedEdge(idx, h, g) <=> g = target
  BY <1>1, <1>2, <1>3, <1>4 DEF T!C!TypedEdge
<1>6. \A g : T!C!ResolvedEdge(idx, h, g) <=> g = target /\ T!C!classify_edge(idx, m) = "Resolved"
  BY <1>1, <1>2, <1>3, <1>4 DEF T!C!ResolvedEdge
<1> QED BY <1>2, <1>3, <1>5, <1>6 DEF m

\* The receipts of a pack of one or two.
LEMMA Each ==
    ASSUME NEW x, NEW y
    PROVE  /\ [n \in DOMAIN <<x, y>> |-> T!AsSupplied(<<x, y>>[n])] = <<T!AsSupplied(x), T!AsSupplied(y)>>
           /\ [n \in DOMAIN <<x>> |-> T!AsSupplied(<<x>>[n])] = <<T!AsSupplied(x)>>
<1> DEFINE f == [n \in DOMAIN <<x, y>> |-> T!AsSupplied(<<x, y>>[n])]
           g == [n \in DOMAIN <<x>> |-> T!AsSupplied(<<x>>[n])]
<1>1. f = [n \in 1..2 |-> IF n = 1 THEN T!AsSupplied(x) ELSE T!AsSupplied(y)]
  OBVIOUS
<1>2. g = [n \in 1..1 |-> T!AsSupplied(x)]
  OBVIOUS
<1> QED BY <1>1, <1>2

\* The closure bundle is accepted with both receipts it commits: the closure of the
\* root is the two of them, each resolved, and has no cycle.  Without the provider
\* the edge of the model, which is in the closure, is missing.
LEMMA ClosureDecided ==
    LET bundle(supplied) == T!Pack("vr-layered-bundle/v1", T!ClosureRoot, supplied) IN
    T!C!ClosureAcceptable(T!AsPack(bundle(<<T!Model, T!Provider>>)))
    /\ ~T!C!ClosureAcceptable(T!AsPack(bundle(<<T!Model>>)))
<1> DEFINE hp == T!get_hash(T!Provider)
           hm == T!get_hash(T!Model)
           hr == T!get_hash(T!ClosureRoot)
           b == T!AsPack(T!Pack("vr-layered-bundle/v1", T!ClosureRoot, <<T!Model, T!Provider>>))
           c == T!AsPack(T!Pack("vr-layered-bundle/v1", T!ClosureRoot, <<T!Model>>))
           R == T!AsSupplied(T!ClosureRoot)
           M == T!AsSupplied(T!Model)
           P == T!AsSupplied(T!Provider)
           rs == <<T!Typed(hm, "model.v0")>>
           ms == <<T!Typed(hp, "provider.v0")>>
           ps == <<T!Committed("evidence_digest")>>
<1>1. hp # hm /\ hp # hr /\ hm # hr
  BY HashesOfBundle
<1>2. /\ R.json /\ R.verifies /\ R.event_hash = hr /\ R.payload_kind = "pack.v0"
      /\ R.closure_manifest_digest = T!canon_hash(T!ManifestBody)
      /\ R.support_set = rs
  BY RootBuilt
<1>3. /\ M.json /\ M.verifies /\ M.event_hash = hm /\ M.payload_kind = "model.v0"
      /\ M.support_set = ms
  BY ModelBuilt DEF T!Model
<1>4. /\ P.json /\ P.verifies /\ P.event_hash = hp /\ P.payload_kind = "provider.v0"
      /\ P.support_set = ps
  BY ProviderBuilt
<1>5. rs # Absent /\ ms # Absent /\ ps # Absent
  <2>1. T!ClosureRoot["payload"][2].support_set = rs /\ T!Model["payload"][2].support_set = ms
        /\ T!Provider["payload"][2].support_set = ps
    <3>1. T!ClosureRoot["payload"][2].support_set = rs
      BY RootBuilt
    <3>2. T!Model["payload"][2].support_set = ms
      BY ModelBuilt DEF T!Model
    <3>3. T!Provider["payload"][2].support_set = ps
      BY ProviderBuilt
    <3> QED BY <3>1, <3>2, <3>3
  <2> HIDE DEF rs, ms, ps
  <2> QED BY <2>1, AbsentAssumption
<1>6. /\ b.json /\ b.format_ok /\ b.root_canonical = R
      /\ b.receipts = [n \in DOMAIN <<T!Model, T!Provider>> |-> T!AsSupplied(<<T!Model, T!Provider>>[n])]
      /\ b.manifest.object /\ b.manifest.manifest_digest = T!canon_hash(T!ManifestBody)
      /\ b.manifest.recomputed = T!canon_hash(T!ManifestBody)
      /\ b.manifest.receipt_closure = T!ManifestBody.receipt_closure
      /\ b.manifest.dependency_count = 2
  BY DEF T!AsPack, T!Pack, T!ManifestBody
<1>7. /\ c.root_canonical = R
      /\ c.receipts = [n \in DOMAIN <<T!Model>> |-> T!AsSupplied(<<T!Model>>[n])]
  BY DEF T!AsPack, T!Pack
<1>8. b.receipts = <<M, P>> /\ c.receipts = <<M>>
  <2> HIDE DEF b, c
  <2> QED BY <1>6, <1>7, Each
<1>9. T!ManifestBody.receipt_closure = <<hm, hp>>
  BY DEF T!ManifestBody
<1> DEFINE cl == T!ManifestBody.receipt_closure
<1>10. Len(cl) = 2 /\ cl[1] = hm /\ cl[2] = hp
  BY <1>9
<1>11. cl # Absent /\ hm # Absent /\ hp # Absent /\ T!canon_hash(T!ManifestBody) # Absent
  BY AbsentAssumption
<1>12. /\ Len(b.receipts) = 2 /\ b.receipts[1] = M /\ b.receipts[2] = P
       /\ Len(c.receipts) = 1
  <2> HIDE DEF M, P, b, c
  <2> QED BY <1>8
<1> HIDE DEF b, c
<1> DEFINE idx == T!C!FinalIndex(b)
           jdx == T!C!FinalIndex(c)
<1>13. /\ DOMAIN idx = {hr, hm, hp} /\ idx[hr] = T!C!ReadNode(R) /\ idx[hm] = T!C!ReadNode(M)
       /\ idx[hp] = T!C!ReadNode(P)
  <2>1. b.root_canonical = T!AsSupplied(T!ClosureRoot)
        /\ b.receipts = <<T!AsSupplied(T!Model), T!AsSupplied(T!Provider)>>
    BY <1>6, <1>8
  <2> HIDE DEF R, M, P, rs, ms, ps, cl
  <2> QED BY <2>1, <1>12, BundleIndexed DEF R, M, P
<1>14. DOMAIN jdx = {hr, hm} /\ jdx[hr] = T!C!ReadNode(R) /\ jdx[hm] = T!C!ReadNode(M)
  <2>1. c.root_canonical = T!AsSupplied(T!ClosureRoot) /\ c.receipts = <<T!AsSupplied(T!Model)>>
    BY <1>7, <1>8
  <2> HIDE DEF R, M, P, rs, ms, ps, cl
  <2> QED BY <2>1, <1>12, BundleIndexed DEF R, M
<1> HIDE DEF idx, jdx, R, M, P, rs, ms, ps, cl, hp, hm, hr
<1>15. /\ T!C!ReadNode(R).payload_kind = "pack.v0" /\ T!C!ReadNode(R).support_set = rs
       /\ T!C!ReadNode(M).payload_kind = "model.v0" /\ T!C!ReadNode(M).support_set = ms
       /\ T!C!ReadNode(P).payload_kind = "provider.v0" /\ T!C!ReadNode(P).support_set = ps
       /\ T!C!ReadNode(M).verify_status = "Valid" /\ T!C!ReadNode(P).verify_status = "Valid"
  BY <1>2, <1>3, <1>4, <1>5, NodeRead
<1>16. /\ T!C!Members(idx, hr) = rs /\ T!C!Members(idx, hm) = ms /\ T!C!Members(idx, hp) = ps
       /\ T!C!Members(jdx, hr) = rs /\ T!C!Members(jdx, hm) = ms
  BY <1>13, <1>14, <1>15 DEF T!C!Members
<1>17. /\ T!C!classify_edge(idx, T!Typed(hm, "model.v0")) = "Resolved"
       /\ T!C!classify_edge(idx, T!Typed(hp, "provider.v0")) = "Resolved"
       /\ T!C!classify_edge(jdx, T!Typed(hm, "model.v0")) = "Resolved"
       /\ T!C!classify_edge(jdx, T!Typed(hp, "provider.v0")) = "Missing"
  BY <1>1, <1>13, <1>14, <1>15 DEF T!C!classify_edge, T!Typed
<1>18. /\ \A k \in 1..Len(T!C!Members(idx, hr)) : T!C!Members(idx, hr)[k] = T!Typed(hm, "model.v0")
       /\ \A g : T!C!TypedEdge(idx, hr, g) <=> g = hm
       /\ \A g : T!C!ResolvedEdge(idx, hr, g) <=> g = hm
  BY <1>16, <1>17, OneTyped DEF rs
<1>19. /\ \A k \in 1..Len(T!C!Members(idx, hm)) : T!C!Members(idx, hm)[k] = T!Typed(hp, "provider.v0")
       /\ \A g : T!C!TypedEdge(idx, hm, g) <=> g = hp
       /\ \A g : T!C!ResolvedEdge(idx, hm, g) <=> g = hp
  BY <1>16, <1>17, OneTyped DEF ms
<1>20. /\ \A k \in 1..Len(T!C!Members(idx, hp)) : T!C!Members(idx, hp)[k] = T!Committed("evidence_digest")
       /\ \A g : ~T!C!TypedEdge(idx, hp, g)
  <2>1. Len(ps) = 1 /\ ps[1] = T!Committed("evidence_digest")
    BY DEF ps
  <2>2. ~T!C!IsTyped(T!Committed("evidence_digest"))
    BY DEF T!C!IsTyped, T!Committed
  <2> QED BY <2>1, <2>2, <1>16 DEF T!C!TypedEdge
<1>21. /\ \A g : T!C!ResolvedEdge(jdx, hr, g) <=> g = hm
       /\ Len(T!C!Members(jdx, hm)) = 1
       /\ \A k \in 1..Len(T!C!Members(jdx, hm)) : T!C!Members(jdx, hm)[k] = T!Typed(hp, "provider.v0")
  <2>1. \A g : T!C!ResolvedEdge(jdx, hr, g) <=> g = hm
    BY <1>16, <1>17, OneTyped DEF rs
  <2>2. /\ Len(T!C!Members(jdx, hm)) = 1
        /\ \A k \in 1..Len(T!C!Members(jdx, hm)) : T!C!Members(jdx, hm)[k] = T!Typed(hp, "provider.v0")
    BY <1>16, OneTyped DEF ms
  <2> QED BY <2>1, <2>2
<1>22. T!C!LeastClosure(idx, hr) = {hp, hm, hr}
  BY <1>18, <1>19 DEF T!C!LeastClosure, T!C!Closed, hp, hm, hr
<1>23. hm \in T!C!LeastClosure(jdx, hr)
  BY <1>21 DEF T!C!LeastClosure, T!C!Closed, hp, hm, hr
<1>24. T!C!ClosureAcceptable(b)
  <2>1. R.payload_kind = "pack.v0" /\ R.verifies
    BY <1>2
  <2>2. T!C!ManifestSound(b.manifest, R.closure_manifest_digest)
    BY <1>2, <1>6, <1>10, <1>11 DEF T!C!ManifestSound, cl
  <2>3. \A i \in 1..Len(b.receipts) : b.receipts[i].json
    BY <1>3, <1>4, <1>12
  <2>4. \A h \in {hp, hm, hr} : \A k \in 1..Len(T!C!Members(idx, h)) :
           T!C!IsDependency(T!C!Members(idx, h)[k])
              => T!C!CheckOf(idx, T!C!Members(idx, h)[k]).status = "Resolved"
    <3>1. /\ T!C!CheckOf(idx, T!Typed(hm, "model.v0")).status = "Resolved"
          /\ T!C!CheckOf(idx, T!Typed(hp, "provider.v0")).status = "Resolved"
      BY <1>17 DEF T!C!CheckOf, T!C!IsTyped, T!Typed
    <3>2. ~T!C!IsDependency(T!Committed("evidence_digest"))
      BY DEF T!C!IsDependency, T!Committed
    <3> QED BY <3>1, <3>2, <1>18, <1>19, <1>20
  <2>5. \A S1 \in SUBSET {hp, hm, hr} : ~T!C!CyclicSet(idx, S1)
    BY <1>18, <1>19, <1>20 DEF T!C!CyclicSet
  <2>6. T!C!Committed(b.manifest) = {hp, hm, hr} \ {hr}
    <3>1. T!C!Committed(b.manifest) = {cl[i] : i \in 1..Len(cl)} \ {Absent}
      BY <1>6, <1>11 DEF T!C!Committed, cl
    <3>2. {cl[i] : i \in 1..Len(cl)} = {hm, hp}
      BY <1>10
    <3> QED BY <3>1, <3>2, <1>1, <1>11
  <2> DEFINE closure == T!C!LeastClosure(idx, R.event_hash)
  <2>7. closure = {hp, hm, hr} /\ R.event_hash = hr
    BY <1>2, <1>22
  <2> HIDE DEF closure
  <2>8. \A h \in closure : \A k \in 1..Len(T!C!Members(idx, h)) :
           T!C!IsDependency(T!C!Members(idx, h)[k])
              => T!C!CheckOf(idx, T!C!Members(idx, h)[k]).status = "Resolved"
    BY <2>4, <2>7
  <2>9. \A S1 \in SUBSET closure : ~T!C!CyclicSet(idx, S1)
    BY <2>5, <2>7
  <2>10. T!C!Committed(b.manifest) = closure \ {R.event_hash}
    BY <2>6, <2>7
  <2>11. b.json /\ b.format_ok /\ b.root_canonical = R
    BY <1>6
  <2> QED BY <2>1, <2>2, <2>3, <2>8, <2>9, <2>10, <2>11 DEF T!C!ClosureAcceptable, idx, closure
<1>25. ~T!C!ClosureAcceptable(c)
  <2>1. T!C!IsDependency(T!Typed(hp, "provider.v0"))
        /\ T!C!CheckOf(jdx, T!Typed(hp, "provider.v0")).status = "Missing"
    BY <1>17 DEF T!C!CheckOf, T!C!IsTyped, T!C!IsDependency, T!Typed
  <2>2. 1 \in 1..Len(T!C!Members(jdx, hm)) /\ T!C!Members(jdx, hm)[1] = T!Typed(hp, "provider.v0")
    BY <1>21
  <2>3. c.root_canonical.event_hash = hr
    BY <1>2, <1>7
  <2> QED BY <1>23, <2>1, <2>2, <2>3 DEF T!C!ClosureAcceptable, jdx
<1> QED BY <1>24, <1>25 DEF b, c

----------------------------------------------------------------------------
(* The vectors, each truthful and at a path of its own *)

\* The vectors in the order they are written, by name.
Order ==
    [valid_single_envelope |-> 1, valid_chain_3 |-> 2, valid_signed |-> 3, valid_sig |-> 4,
     valid_with_algorithms |-> 5, invalid_event_hash |-> 6, invalid_chain_broken_link |-> 7,
     invalid_chain_time_regression |-> 8, invalid_version |-> 9, invalid_unknown_field |-> 10,
     invalid_missing_required |-> 11, invalid_unknown_receipt_type |-> 12,
     invalid_duplicate_hash |-> 13, invalid_context_inconsistent |-> 14,
     invalid_policy_inconsistent |-> 15, invalid_bit_flip |-> 16, invalid_signature |-> 17,
     invalid_sig |-> 18, invalid_wrong_digest_algorithm |-> 19,
     invalid_wrong_canonicalization |-> 20, invalid_schema_inconsistent |-> 21,
     valid_layered_pack |-> 22, invalid_layered_pack |-> 23, valid_decision_pack |-> 24,
     invalid_decision_pack |-> 25, valid_closure_bundle |-> 26, invalid_closure_bundle |-> 27,
     valid_external_receipt |-> 28, invalid_external_receipt |-> 29, trust_accept |-> 30,
     trust_deny |-> 31]

\* Files of truthful vectors, from the i-th name to the j-th, no two of one path.
Fair(files, i, j) ==
    /\ \E U : files \in Seq(U)
    /\ files # <<>>
    /\ \A n \in 1..Len(files) : T!TellsTruth(files[n][2]) /\ Order[files[n][2].name] \in i..j
    /\ \A m, n \in 1..Len(files) :
          files[m][1] = files[n][1] /\ files[m][2].name = files[n][2].name => m = n

\* One file.
LEMMA FairOne ==
    ASSUME NEW dir, NEW v, T!TellsTruth(v), NEW k \in Nat, Order[v.name] = k
    PROVE  Fair(<<<<dir, v>>>>, k, k)
<1> DEFINE file == <<dir, v>>
           s == <<file>>
<1>1. file[2] = v
  OBVIOUS
<1> HIDE DEF file
<1>2. s \in Seq({file}) /\ Len(s) = 1 /\ s[1] = file /\ s # <<>>
  OBVIOUS
<1> HIDE DEF s
<1>3. Fair(s, k, k)
  BY <1>1, <1>2 DEF Fair
<1> QED BY <1>3 DEF s, file

\* The two files of a vector that is written to both directories.
LEMMA FairBoth ==
    ASSUME NEW v, T!TellsTruth(v), NEW k \in Nat, Order[v.name] = k
    PROVE  Fair(T!Both(v), k, k)
<1> DEFINE a == <<"test-vectors", v>>
           b == <<"raw", v>>
           s == <<a>> \o <<b>>
<1>1. a[1] # b[1] /\ a[2] = v /\ b[2] = v
  OBVIOUS
<1> HIDE DEF a, b
<1>2. s \in Seq({a, b}) /\ Len(s) = 2 /\ s[1] = a /\ s[2] = b /\ s # <<>>
  OBVIOUS
<1> HIDE DEF s
<1>3. Fair(s, k, k)
  BY <1>1, <1>2 DEF Fair
<1> QED BY <1>3 DEF s, a, b, T!Both, T!write_vector, T!write_raw

\* The files of one function of main and then of others, whose names come later.
LEMMA FairJoin ==
    ASSUME NEW s, NEW t, NEW i \in Nat, NEW j \in Nat, NEW k \in Nat, NEW l \in Nat,
           i <= j, j < k, k <= l, Fair(s, i, j), Fair(t, k, l)
    PROVE  Fair(s \o t, i, l)
<1>1. PICK U, W : s \in Seq(U) /\ t \in Seq(W)
  BY DEF Fair
<1> DEFINE V == U \union W
           u == s \o t
<1>2. s \in Seq(V) /\ t \in Seq(V)
  BY <1>1
<1>3. /\ u \in Seq(V) /\ Len(u) = Len(s) + Len(t)
      /\ \A n \in 1..Len(s) : u[n] = s[n]
      /\ \A n \in 1..Len(t) : u[Len(s) + n] = t[n]
  <2> HIDE DEF V
  <2> QED BY <1>2, Concats
<1>4. Len(s) \in Nat /\ Len(t) \in Nat /\ Len(s) > 0
  BY <1>2 DEF Fair
<1> HIDE DEF u, V
<1>5. u # <<>>
  BY <1>3, <1>4
<1>6. ASSUME NEW n \in 1..Len(u)
      PROVE  \/ n \in 1..Len(s) /\ u[n] = s[n]
             \/ n - Len(s) \in 1..Len(t) /\ u[n] = t[n - Len(s)]
  <2>1. CASE n <= Len(s)
    BY <1>3, <1>4, <2>1
  <2>2. CASE n > Len(s)
    <3>1. n - Len(s) \in 1..Len(t) /\ n = Len(s) + (n - Len(s))
      BY <1>3, <1>4, <2>2
    <3> QED BY <1>3, <3>1
  <2> QED BY <1>3, <1>4, <2>1, <2>2
<1>7. /\ \A n \in 1..Len(s) : T!TellsTruth(s[n][2]) /\ Order[s[n][2].name] \in i..j
      /\ \A n \in 1..Len(t) : T!TellsTruth(t[n][2]) /\ Order[t[n][2].name] \in k..l
  BY DEF Fair
<1>8. \A n \in 1..Len(u) : T!TellsTruth(u[n][2]) /\ Order[u[n][2].name] \in i..l
  <2> SUFFICES ASSUME NEW n \in 1..Len(u)
               PROVE  T!TellsTruth(u[n][2]) /\ Order[u[n][2].name] \in i..l
    OBVIOUS
  <2>1. CASE n \in 1..Len(s) /\ u[n] = s[n]
    <3>1. T!TellsTruth(s[n][2]) /\ Order[s[n][2].name] \in i..j
      BY <1>7, <2>1
    <3> QED BY <2>1, <3>1
  <2>2. CASE n - Len(s) \in 1..Len(t) /\ u[n] = t[n - Len(s)]
    <3>1. T!TellsTruth(t[n - Len(s)][2]) /\ Order[t[n - Len(s)][2].name] \in k..l
      BY <1>7, <2>2
    <3> QED BY <2>2, <3>1
  <2> QED BY <1>6, <2>1, <2>2
<1>9. ASSUME NEW m \in 1..Len(u), NEW n \in 1..Len(u),
             u[m][1] = u[n][1], u[m][2].name = u[n][2].name
      PROVE  m = n
  <2>1. CASE m \in 1..Len(s) /\ u[m] = s[m] /\ n \in 1..Len(s) /\ u[n] = s[n]
    BY <1>9, <2>1 DEF Fair
  <2>2. CASE /\ m - Len(s) \in 1..Len(t) /\ u[m] = t[m - Len(s)]
             /\ n - Len(s) \in 1..Len(t) /\ u[n] = t[n - Len(s)]
    <3>1. m - Len(s) = n - Len(s)
      BY <1>9, <2>2 DEF Fair
    <3> QED BY <3>1, <1>4
  <2>3. ASSUME NEW a \in 1..Len(s), NEW b \in 1..Len(t) PROVE s[a][2].name # t[b][2].name
    <3>1. Order[s[a][2].name] \in i..j /\ Order[t[b][2].name] \in k..l
      BY <1>7
    <3> DEFINE p == Order[s[a][2].name]
               q == Order[t[b][2].name]
    <3>2. p \in i..j /\ q \in k..l
      BY <3>1
    <3> HIDE DEF p, q
    <3>3. p # q
      BY <3>2
    <3> QED BY <3>3 DEF p, q
  <2> QED BY <1>6, <1>9, <2>1, <2>2, <2>3
<1> QED BY <1>3, <1>5, <1>8, <1>9 DEF Fair, u

\* The files of two vectors that are written to both directories in turn.
LEMMA FairFour ==
    ASSUME NEW v, NEW w, T!TellsTruth(v), T!TellsTruth(w), NEW k \in Nat,
           Order[v.name] = k, Order[w.name] = k + 1
    PROVE  Fair(T!write_vector(v) \o T!write_vector(w) \o T!write_raw(v) \o T!write_raw(w), k, k + 1)
<1> DEFINE a == <<"test-vectors", v>>
           b == <<"test-vectors", w>>
           c == <<"raw", v>>
           d == <<"raw", w>>
           s == <<a>> \o <<b>> \o <<c>> \o <<d>>
<1>1. /\ a[1] = "test-vectors" /\ b[1] = "test-vectors" /\ c[1] = "raw" /\ d[1] = "raw"
      /\ a[2] = v /\ b[2] = w /\ c[2] = v /\ d[2] = w
  OBVIOUS
<1> HIDE DEF a, b, c, d
<1>2. s \in Seq({a, b, c, d})
  OBVIOUS
<1>3. /\ Len(s) = 4 /\ s # <<>>
      /\ s[1] = a /\ s[2] = b /\ s[3] = c /\ s[4] = d
  OBVIOUS
<1> HIDE DEF s
<1>4. v.name # w.name
  OBVIOUS
<1>5. \A n \in 1..4 : n = 1 \/ n = 2 \/ n = 3 \/ n = 4
  OBVIOUS
<1>6. k \in k..(k + 1) /\ k + 1 \in k..(k + 1)
  OBVIOUS
<1>7. \A n \in 1..Len(s) : T!TellsTruth(s[n][2]) /\ Order[s[n][2].name] \in k..(k + 1)
  BY <1>1, <1>3, <1>5, <1>6
<1>8. \A m, n \in 1..Len(s) : s[m][1] = s[n][1] /\ s[m][2].name = s[n][2].name => m = n
  BY <1>1, <1>3, <1>4, <1>5
<1>9. Fair(s, k, k + 1)
  BY <1>2, <1>3, <1>7, <1>8 DEF Fair
<1> QED BY <1>9 DEF s, a, b, c, d, T!write_vector, T!write_raw

\* The place of each name.
LEMMA Ordered ==
    /\ Order["valid_single_envelope"] = 1
    /\ Order["valid_chain_3"] = 2
    /\ Order["valid_signed"] = 3
    /\ Order["valid_sig"] = 4
    /\ Order["valid_with_algorithms"] = 5
    /\ Order["invalid_event_hash"] = 6
    /\ Order["invalid_chain_broken_link"] = 7
    /\ Order["invalid_chain_time_regression"] = 8
    /\ Order["invalid_version"] = 9
    /\ Order["invalid_unknown_field"] = 10
    /\ Order["invalid_missing_required"] = 11
    /\ Order["invalid_unknown_receipt_type"] = 12
    /\ Order["invalid_duplicate_hash"] = 13
    /\ Order["invalid_context_inconsistent"] = 14
    /\ Order["invalid_policy_inconsistent"] = 15
    /\ Order["invalid_bit_flip"] = 16
    /\ Order["invalid_signature"] = 17
    /\ Order["invalid_sig"] = 18
    /\ Order["invalid_wrong_digest_algorithm"] = 19
    /\ Order["invalid_wrong_canonicalization"] = 20
    /\ Order["invalid_schema_inconsistent"] = 21
    /\ Order["valid_layered_pack"] = 22
    /\ Order["invalid_layered_pack"] = 23
    /\ Order["valid_decision_pack"] = 24
    /\ Order["invalid_decision_pack"] = 25
    /\ Order["valid_closure_bundle"] = 26
    /\ Order["invalid_closure_bundle"] = 27
    /\ Order["valid_external_receipt"] = 28
    /\ Order["invalid_external_receipt"] = 29
    /\ Order["trust_accept"] = 30
    /\ Order["trust_deny"] = 31
BY DEF Order

\* The files of one vector.
LEMMA FairVector ==
    ASSUME NEW name, NEW call, NEW expected, NEW data, NEW k \in Nat, Order[name] = k,
           T!TellsTruth(T!Vector(name, call, expected, data))
    PROVE  /\ Fair(T!Both(T!Vector(name, call, expected, data)), k, k)
           /\ Fair(T!write_vector(T!Vector(name, call, expected, data)), k, k)
           /\ Fair(T!write_raw(T!Vector(name, call, expected, data)), k, k)
<1> DEFINE v == T!Vector(name, call, expected, data)
<1>1. v.name = name
  BY DEF T!Vector
<1> HIDE DEF v
<1>2. Fair(T!Both(v), k, k)
  BY <1>1, FairBoth DEF v
<1>3. Fair(T!write_vector(v), k, k) /\ Fair(T!write_raw(v), k, k)
  BY <1>1, FairOne DEF v, T!write_vector, T!write_raw
<1> QED BY <1>2, <1>3 DEF v

\* The vectors of one envelope, and the chain that holds.
LEMMA FairEnvelopes ==
    /\ Fair(T!gen_valid_single_envelope, 1, 1)
    /\ Fair(T!gen_valid_chain_3, 2, 2)
    /\ Fair(T!gen_valid_with_algorithms, 5, 5)
    /\ Fair(T!gen_invalid_event_hash, 6, 6)
    /\ Fair(T!gen_invalid_version, 9, 9)
    /\ Fair(T!gen_invalid_unknown_field, 10, 10)
    /\ Fair(T!gen_invalid_missing_required, 11, 11)
    /\ Fair(T!gen_invalid_unknown_receipt_type, 12, 12)
    /\ Fair(T!gen_invalid_bit_flip, 16, 16)
    /\ Fair(T!gen_invalid_wrong_digest_algorithm, 19, 19)
    /\ Fair(T!gen_invalid_wrong_canonicalization, 20, 20)
<1>1. Fair(T!gen_valid_single_envelope, 1, 1)
  BY PassReceipt, SingleVerifies, FairVector, Ordered DEF T!gen_valid_single_envelope
<1>2. Fair(T!gen_valid_chain_3, 2, 2)
  <2> DEFINE e0 == T!build_envelope(T!Payload("initialize", 0), 100, T!NoParent, "governance")
             e1 == T!build_envelope(T!Payload("update_policy", 2), 200, T!get_hash(e0), "governance")
             e2 == T!build_envelope(T!Payload("seal_epoch", 1), 300, T!get_hash(e1), "governance")
             c == <<e0, e1, e2>>
  <2>1. T!verify_chain(c) = "none" /\ \A n \in DOMAIN c : T!Verifies(c[n])
    BY ValidChain
  <2>2. T!gen_valid_chain_3 = T!Both(T!Vector("valid_chain_3", "chain", "pass", c))
    BY DEF T!gen_valid_chain_3
  <2> HIDE DEF c
  <2>3. T!TellsTruth(T!Vector("valid_chain_3", "chain", "pass", c))
    BY <2>1 DEF T!TellsTruth, T!Vector, T!Accepted
  <2> QED BY <2>2, <2>3, FairVector, Ordered
<1>3. Fair(T!gen_valid_with_algorithms, 5, 5)
  <2> DEFINE body == T!With(T!With(T!Without(T!Single(T!Payload("create_with_algorithms", 99)), "event_hash"),
                          "digest_algorithm", <<"string", "BLAKE3">>),
                     "canonicalization", <<"string", "JCS">>)
             e == T!Commit(T!With(body, "logical_time", <<"string", 2000>>))
  <2>1. T!Verifies(e)
    BY WithAlgorithms
  <2>2. T!gen_valid_with_algorithms = T!Both(T!Vector("valid_with_algorithms", "receipt", "pass", e))
    BY DEF T!gen_valid_with_algorithms
  <2> HIDE DEF e
  <2> QED BY <2>1, <2>2, PassReceipt, FairVector, Ordered
<1>4. Fair(T!gen_invalid_event_hash, 6, 6)
  <2> DEFINE e == T!Tampered(T!Single(T!Payload("create", 42)))
  <2>1. "EventHashMismatch" \in T!ReceiptErrors(e)
    BY TamperedFails
  <2>2. T!gen_invalid_event_hash =
           T!write_vector(T!Vector("invalid_event_hash", "receipt", "EventHashMismatch", e))
    BY DEF T!gen_invalid_event_hash
  <2> HIDE DEF e
  <2> QED BY <2>1, <2>2, FailReceipt, FairVector, Ordered
<1>5. Fair(T!gen_invalid_version, 9, 9)
  <2> DEFINE e == T!With(T!Single(T!Payload("create", 1)), "envelope_version", <<"integer", "99">>)
             v == T!Vector("invalid_version", "receipt", "UnsupportedVersion", e)
  <2>1. T!RefusedForItsVersion(e)
    BY ChangedFails
  <2>2. T!gen_invalid_version = T!Both(v)
    BY DEF T!gen_invalid_version
  <2> HIDE DEF e
  <2>3. T!TellsTruth(v)
    BY <2>1 DEF T!TellsTruth, T!Vector, T!Accepted, T!Verifies, T!Reported, T!RefusedForItsVersion
  <2> QED BY <2>2, <2>3, FairVector, Ordered
<1>6. Fair(T!gen_invalid_unknown_field, 10, 10)
  <2> DEFINE e == T!With(T!Single(T!Payload("test", 0)), "bogus_field", <<"integer", "42">>)
  <2>1. "UnknownField" \in T!ReceiptErrors(e)
    BY ChangedFails
  <2>2. T!gen_invalid_unknown_field =
           T!Both(T!Vector("invalid_unknown_field", "receipt", "UnknownField", e))
    BY DEF T!gen_invalid_unknown_field
  <2> HIDE DEF e
  <2> QED BY <2>1, <2>2, FailReceipt, FairVector, Ordered
<1>7. Fair(T!gen_invalid_missing_required, 11, 11)
  <2> DEFINE e == T!Without(T!Single(T!Payload("test", 0)), "event_hash")
  <2>1. "MissingRequiredField" \in T!ReceiptErrors(e)
    BY ChangedFails
  <2>2. T!gen_invalid_missing_required =
           T!Both(T!Vector("invalid_missing_required", "receipt", "MissingRequiredField", e))
    BY DEF T!gen_invalid_missing_required
  <2> HIDE DEF e
  <2> QED BY <2>1, <2>2, FailReceipt, FairVector, Ordered
<1>8. Fair(T!gen_invalid_unknown_receipt_type, 12, 12)
  <2> DEFINE e == T!With(T!Single(T!Payload("test", 0)), "receipt_type", <<"string", "Quantum">>)
  <2>1. "UnknownReceiptType" \in T!ReceiptErrors(e)
    BY ChangedFails
  <2>2. T!gen_invalid_unknown_receipt_type =
           T!Both(T!Vector("invalid_unknown_receipt_type", "receipt", "UnknownReceiptType", e))
    BY DEF T!gen_invalid_unknown_receipt_type
  <2> HIDE DEF e
  <2> QED BY <2>1, <2>2, FailReceipt, FairVector, Ordered
<1>9. Fair(T!gen_invalid_bit_flip, 16, 16)
  <2> DEFINE e == T!Tampered(T!Single(T!Payload("create", 42)))
  <2>1. "EventHashMismatch" \in T!ReceiptErrors(e)
    BY TamperedFails
  <2>2. T!gen_invalid_bit_flip =
           T!write_vector(T!Vector("invalid_bit_flip", "receipt", "EventHashMismatch", e))
    BY DEF T!gen_invalid_bit_flip
  <2> HIDE DEF e
  <2> QED BY <2>1, <2>2, FailReceipt, FairVector, Ordered
<1>10. Fair(T!gen_invalid_wrong_digest_algorithm, 19, 19)
  <2> DEFINE e == T!With(T!Single(T!Payload("create", 1)), "digest_algorithm", <<"string", "SHA256">>)
  <2>1. "DigestAlgorithmMismatch" \in T!ReceiptErrors(e)
    BY ChangedFails
  <2>2. T!gen_invalid_wrong_digest_algorithm =
           T!write_vector(T!Vector("invalid_wrong_digest_algorithm", "receipt", "DigestAlgorithmMismatch", e))
    BY DEF T!gen_invalid_wrong_digest_algorithm
  <2> HIDE DEF e
  <2> QED BY <2>1, <2>2, FailReceipt, FairVector, Ordered
<1>11. Fair(T!gen_invalid_wrong_canonicalization, 20, 20)
  <2> DEFINE e == T!With(T!Single(T!Payload("create", 1)), "canonicalization", <<"string", "CBOR">>)
  <2>1. "CanonicalizationMismatch" \in T!ReceiptErrors(e)
    BY ChangedFails
  <2>2. T!gen_invalid_wrong_canonicalization =
           T!write_vector(T!Vector("invalid_wrong_canonicalization", "receipt", "CanonicalizationMismatch", e))
    BY DEF T!gen_invalid_wrong_canonicalization
  <2> HIDE DEF e
  <2> QED BY <2>1, <2>2, FailReceipt, FairVector, Ordered
<1> QED BY <1>1, <1>2, <1>3, <1>4, <1>5, <1>6, <1>7, <1>8, <1>9, <1>10, <1>11

\* The vectors of a chain that does not hold.
LEMMA FairChains ==
    /\ Fair(T!gen_invalid_chain_broken_link, 7, 7)
    /\ Fair(T!gen_invalid_chain_time_regression, 8, 8)
    /\ Fair(T!gen_invalid_duplicate_hash, 13, 13)
    /\ Fair(T!gen_invalid_context_inconsistent, 14, 14)
    /\ Fair(T!gen_invalid_policy_inconsistent, 15, 15)
    /\ Fair(T!gen_invalid_schema_inconsistent, 21, 21)
<1>1. Fair(T!gen_invalid_chain_broken_link, 7, 7)
  <2> DEFINE c == <<T!Opening(100), T!build_envelope(T!Step(1), 200, <<"hex", "ff">>, "event")>>
  <2>1. T!verify_chain(c) = "ChainLinkageBroken"
    BY BrokenLink
  <2>2. T!gen_invalid_chain_broken_link =
           T!write_vector(T!Vector("invalid_chain_broken_link", "verify_chain", "ChainLinkageBroken", c))
    BY DEF T!gen_invalid_chain_broken_link
  <2> HIDE DEF c
  <2> QED BY <2>1, <2>2, FailChain, FairVector, Ordered
<1>2. Fair(T!gen_invalid_chain_time_regression, 8, 8)
  <2> DEFINE c == <<T!Opening(500), T!build_envelope(T!Step(1), 400, T!get_hash(T!Opening(500)), "event")>>
  <2>1. T!verify_chain(c) = "LogicalTimeNotMonotonic"
    BY TimeRegression
  <2>2. T!gen_invalid_chain_time_regression =
           T!write_vector(T!Vector("invalid_chain_time_regression", "verify_chain", "LogicalTimeNotMonotonic", c))
    BY DEF T!gen_invalid_chain_time_regression
  <2> HIDE DEF c
  <2> QED BY <2>1, <2>2, FailChain, FairVector, Ordered
<1>3. Fair(T!gen_invalid_duplicate_hash, 13, 13)
  <2> DEFINE env_0 == T!build_envelope(T!Payload("duplicate", 0), 100, T!NoParent, "event")
             env_1 == T!build_envelope(T!Payload("duplicate", 0), 200, T!get_hash(env_0), "event")
             c == <<env_0, T!With(env_1, "event_hash", env_0["event_hash"])>>
  <2>1. T!verify_chain(c) = "DuplicateEventHash"
    BY DuplicateHash
  <2>2. T!gen_invalid_duplicate_hash =
           T!write_vector(T!Vector("invalid_duplicate_hash", "verify_chain", "DuplicateEventHash", c))
    BY DEF T!gen_invalid_duplicate_hash
  <2> HIDE DEF c
  <2> QED BY <2>1, <2>2, FailChain, FairVector, Ordered
<1>4. Fair(T!gen_invalid_context_inconsistent, 14, 14)
  <2> DEFINE c == <<T!Opening(100), T!Next200(T!placeholder_hex_64("dd"), T!placeholder_hex_64("cc"))>>
  <2>1. T!verify_chain(c) = "ContextInconsistent"
    BY Inconsistent
  <2>2. T!gen_invalid_context_inconsistent =
           T!write_vector(T!Vector("invalid_context_inconsistent", "verify_chain", "ContextInconsistent", c))
    BY DEF T!gen_invalid_context_inconsistent
  <2> HIDE DEF c
  <2> QED BY <2>1, <2>2, FailChain, FairVector, Ordered
<1>5. Fair(T!gen_invalid_policy_inconsistent, 15, 15)
  <2> DEFINE c == <<T!Opening(100), T!Next200(T!placeholder_hex_64("aa"), T!placeholder_hex_64("dd"))>>
  <2>1. T!verify_chain(c) = "PolicyInconsistent"
    BY Inconsistent
  <2>2. T!gen_invalid_policy_inconsistent =
           T!write_vector(T!Vector("invalid_policy_inconsistent", "verify_chain", "PolicyInconsistent", c))
    BY DEF T!gen_invalid_policy_inconsistent
  <2> HIDE DEF c
  <2> QED BY <2>1, <2>2, FailChain, FairVector, Ordered
<1>6. Fair(T!gen_invalid_schema_inconsistent, 21, 21)
  <2> DEFINE c == <<T!Opening(100), T!With(T!Next200(T!placeholder_hex_64("aa"), T!placeholder_hex_64("cc")),
                                    "schema_digest", T!placeholder_hex_64("dd"))>>
  <2>1. T!verify_chain(c) = "SchemaInconsistent"
    BY Inconsistent
  <2>2. T!gen_invalid_schema_inconsistent =
           T!write_vector(T!Vector("invalid_schema_inconsistent", "verify_chain", "SchemaInconsistent", c))
    BY DEF T!gen_invalid_schema_inconsistent
  <2> HIDE DEF c
  <2> QED BY <2>1, <2>2, FailChain, FairVector, Ordered
<1> QED BY <1>1, <1>2, <1>3, <1>4, <1>5, <1>6

\* The signed vectors.
LEMMA FairSigned ==
    Fair(T!gen_valid_signed, 3, 4) /\ Fair(T!gen_invalid_signature, 17, 18)
<1>1. Fair(T!gen_valid_signed, 3, 4)
  <2> DEFINE data == T!Signed(T!SignedEnvelope, T!Sign(T!SignedEnvelope))
             v == T!Vector("valid_signed", "receipt", "pass", T!SignedEnvelope)
             w == T!Vector("valid_sig", "signed", "pass", data)
  <2>1. T!TellsTruth(v)
    BY SignedAccepted, PassReceipt
  <2>2. T!Verifies(data.envelope) /\ T!S(<<>>)!SignedAcceptable(T!AsSigned(data))
    BY SignedAccepted DEF T!Signed
  <2>3. T!gen_valid_signed =
           T!write_vector(v) \o T!write_vector(w) \o T!write_raw(v) \o T!write_raw(w)
    BY DEF T!gen_valid_signed
  <2> HIDE DEF data
  <2>4. T!TellsTruth(w)
    BY <2>2 DEF T!TellsTruth, T!Vector, T!Accepted
  <2>5. v.name = "valid_signed" /\ w.name = "valid_sig"
    BY DEF T!Vector
  <2> HIDE DEF v, w
  <2>6. Order[v.name] = 3 /\ Order[w.name] = 3 + 1
    BY <2>5, Ordered
  <2>7. Fair(T!write_vector(v) \o T!write_vector(w) \o T!write_raw(v) \o T!write_raw(w), 3, 3 + 1)
    BY <2>1, <2>4, <2>6, FairFour
  <2> QED BY <2>3, <2>7
<1>2. Fair(T!gen_invalid_signature, 17, 18)
  <2> DEFINE e == T!Single([action |-> "signed_change"])
             corrupted == [T!Sign(e) EXCEPT !.signature.by = "nobody"]
             data == T!Signed(T!SignedEnvelope, corrupted)
             v == T!Vector("invalid_signature", "signed", "SignatureInvalid", data)
             w == T!Vector("invalid_sig", "signed", "SignatureInvalid", data)
             a == T!write_vector(v)
             b == T!write_raw(w)
  <2>1. ~T!S(<<>>)!SignedAcceptable(T!AsSigned(data))
    BY CorruptedRejected
  <2> HIDE DEF data
  <2>2. T!TellsTruth(v) /\ T!TellsTruth(w)
    BY <2>1 DEF T!TellsTruth, T!Vector, T!Accepted, T!Reported
  <2>3. Fair(a, 17, 17) /\ Fair(b, 18, 18)
    BY <2>2, FairVector, Ordered
  <2>4. [v EXCEPT !.name = "invalid_sig"] = w
    BY DEF T!Vector
  <2>5. T!gen_invalid_signature = a \o b
    BY <2>4 DEF T!gen_invalid_signature, data
  <2> HIDE DEF a, b
  <2> QED BY <2>3, <2>5, FairJoin
<1> QED BY <1>1, <1>2

\* The packs, the external receipts and the trust configurations.
LEMMA FairPacks ==
    /\ Fair(T!gen_layered_pack, 22, 23) /\ Fair(T!gen_decision_pack, 24, 25)
    /\ Fair(T!gen_closure_bundle, 26, 27) /\ Fair(T!gen_external_receipt, 28, 29)
    /\ Fair(T!gen_trust_configs, 30, 31)
<1>1. Fair(T!gen_layered_pack, 22, 23)
  <2> DEFINE x == T!Pack("vr-layered-pack/v1", T!Model, <<T!Provider>>)
             y == T!Pack("vr-layered-pack/v1", T!build_layered_model(T!get_hash(T!Provider), "model.v0"), <<T!Provider>>)
             v == T!Vector("valid_layered_pack", "layered", "pass", x)
             w == T!Vector("invalid_layered_pack", "layered", "fail", y)
             a == T!write_raw(v)
             b == T!write_raw(w)
  <2>1. T!L!LayeredAcceptable(T!AsPack(x)) /\ ~T!L!LayeredAcceptable(T!AsPack(y))
    BY LayeredDecided
  <2>2. T!gen_layered_pack = a \o b
    BY DEF T!gen_layered_pack
  <2> HIDE DEF x, y
  <2>3. T!TellsTruth(v) /\ T!TellsTruth(w)
    BY <2>1 DEF T!TellsTruth, T!Vector, T!Accepted, T!Reported
  <2>4. Fair(a, 22, 22) /\ Fair(b, 23, 23)
    BY <2>3, FairVector, Ordered
  <2> HIDE DEF a, b
  <2> QED BY <2>2, <2>4, FairJoin
<1>2. Fair(T!gen_decision_pack, 24, 25)
  <2> DEFINE x == T!Pack("vr-decision-pack/v1", T!Decision, <<T!Prior>>)
             y == T!Pack("vr-decision-pack/v1", T!Decision, <<>>)
             v == T!Vector("valid_decision_pack", "decision", "pass", x)
             w == T!Vector("invalid_decision_pack", "decision", "fail", y)
             a == T!write_raw(v)
             b == T!write_raw(w)
  <2>1. T!D!DecisionAcceptable(T!AsPack(x)) /\ ~T!D!DecisionAcceptable(T!AsPack(y))
    BY DecisionDecided
  <2>2. T!gen_decision_pack = a \o b
    BY DEF T!gen_decision_pack
  <2> HIDE DEF x, y
  <2>3. T!TellsTruth(v) /\ T!TellsTruth(w)
    BY <2>1 DEF T!TellsTruth, T!Vector, T!Accepted, T!Reported
  <2>4. Fair(a, 24, 24) /\ Fair(b, 25, 25)
    BY <2>3, FairVector, Ordered
  <2> HIDE DEF a, b
  <2> QED BY <2>2, <2>4, FairJoin
<1>3. Fair(T!gen_closure_bundle, 26, 27)
  <2> DEFINE x == T!Pack("vr-layered-bundle/v1", T!ClosureRoot, <<T!Model, T!Provider>>)
             y == T!Pack("vr-layered-bundle/v1", T!ClosureRoot, <<T!Model>>)
             v == T!Vector("valid_closure_bundle", "closure", "pass", x)
             w == T!Vector("invalid_closure_bundle", "closure", "fail", y)
             a == T!write_raw(v)
             b == T!write_raw(w)
  <2>1. T!C!ClosureAcceptable(T!AsPack(x)) /\ ~T!C!ClosureAcceptable(T!AsPack(y))
    BY ClosureDecided
  <2>2. T!gen_closure_bundle = a \o b
    BY DEF T!gen_closure_bundle
  <2> HIDE DEF x, y
  <2>3. T!TellsTruth(v) /\ T!TellsTruth(w)
    BY <2>1 DEF T!TellsTruth, T!Vector, T!Accepted, T!Reported
  <2>4. Fair(a, 26, 26) /\ Fair(b, 27, 27)
    BY <2>3, FairVector, Ordered
  <2> HIDE DEF a, b
  <2> QED BY <2>2, <2>4, FairJoin
<1>4. Fair(T!gen_external_receipt, 28, 29)
  <2> DEFINE x == T!Single(T!Payload("write", 0))
             y == T!Tampered(T!Single(T!Payload("write", 0)))
             v == T!Vector("valid_external_receipt", "external", "pass", x)
             w == T!Vector("invalid_external_receipt", "external", "fail", y)
             a == T!write_raw(v)
             b == T!write_raw(w)
  <2>1. T!E!RequestAcceptable(T!AsRequest(x)) /\ ~T!E!RequestAcceptable(T!AsRequest(y))
    BY ExternalDecided
  <2>2. T!gen_external_receipt = a \o b
    BY DEF T!gen_external_receipt
  <2> HIDE DEF x, y
  <2>3. T!TellsTruth(v) /\ T!TellsTruth(w)
    BY <2>1 DEF T!TellsTruth, T!Vector, T!Accepted, T!Reported
  <2>4. Fair(a, 28, 28) /\ Fair(b, 29, 29)
    BY <2>3, FairVector, Ordered
  <2> HIDE DEF a, b
  <2> QED BY <2>2, <2>4, FairJoin
<1>5. Fair(T!gen_trust_configs, 30, 31)
  <2> DEFINE entry == [public_key |-> T!SigningKey, valid_from |-> 0, valid_until |-> Absent]
             x == [k \in {T!key_id(T!SigningKey)} |-> entry]
             y == <<>>
             v == T!Vector("trust_accept", "trust", "pass", x)
             w == T!Vector("trust_deny", "trust", "fail", y)
             a == T!write_raw(v)
             b == T!write_raw(w)
  <2>1. T!S(x)!SignerAuthorised(T!AsSigned(T!Signed(T!SignedEnvelope, T!Sign(T!SignedEnvelope))))
        /\ ~T!S(y)!SignerAuthorised(T!AsSigned(T!Signed(T!SignedEnvelope, T!Sign(T!SignedEnvelope))))
    BY TrustDecided
  <2>2. T!gen_trust_configs = a \o b
    BY DEF T!gen_trust_configs
  <2> HIDE DEF x, y
  <2>3. T!TellsTruth(v) /\ T!TellsTruth(w)
    BY <2>1 DEF T!TellsTruth, T!Vector, T!Accepted, T!Reported
  <2>4. Fair(a, 30, 30) /\ Fair(b, 31, 31)
    BY <2>3, FairVector, Ordered
  <2> HIDE DEF a, b
  <2> QED BY <2>2, <2>4, FairJoin
<1> QED BY <1>1, <1>2, <1>3, <1>4, <1>5

\* The files main writes are of truthful vectors, no two of one path.
LEMMA FairVectors ==
    Fair(T!Vectors, 1, 31)
<1> DEFINE s2 == T!gen_valid_single_envelope \o T!gen_valid_chain_3
           s3 == s2 \o T!gen_valid_signed
           s4 == s3 \o T!gen_valid_with_algorithms
           s5 == s4 \o T!gen_invalid_event_hash
           s6 == s5 \o T!gen_invalid_chain_broken_link
           s7 == s6 \o T!gen_invalid_chain_time_regression
           s8 == s7 \o T!gen_invalid_version
           s9 == s8 \o T!gen_invalid_unknown_field
           s10 == s9 \o T!gen_invalid_missing_required
           s11 == s10 \o T!gen_invalid_unknown_receipt_type
           s12 == s11 \o T!gen_invalid_duplicate_hash
           s13 == s12 \o T!gen_invalid_context_inconsistent
           s14 == s13 \o T!gen_invalid_policy_inconsistent
           s15 == s14 \o T!gen_invalid_bit_flip
           s16 == s15 \o T!gen_invalid_signature
           s17 == s16 \o T!gen_invalid_wrong_digest_algorithm
           s18 == s17 \o T!gen_invalid_wrong_canonicalization
           s19 == s18 \o T!gen_invalid_schema_inconsistent
           s20 == s19 \o T!gen_layered_pack
           s21 == s20 \o T!gen_decision_pack
           s22 == s21 \o T!gen_closure_bundle
           s23 == s22 \o T!gen_external_receipt
           s24 == s23 \o T!gen_trust_configs
<1>1. T!Vectors = s24
  BY DEF T!Vectors
<1> HIDE DEF s2, s3, s4, s5, s6, s7, s8, s9, s10, s11, s12, s13,
             s14, s15, s16, s17, s18, s19, s20, s21, s22, s23, s24
<1>2. Fair(s2, 1, 2)
  BY FairEnvelopes, FairJoin DEF s2
<1>3. Fair(s3, 1, 4)
  BY <1>2, FairSigned, FairJoin DEF s3
<1>4. Fair(s4, 1, 5)
  BY <1>3, FairEnvelopes, FairJoin DEF s4
<1>5. Fair(s5, 1, 6)
  BY <1>4, FairEnvelopes, FairJoin DEF s5
<1>6. Fair(s6, 1, 7)
  BY <1>5, FairChains, FairJoin DEF s6
<1>7. Fair(s7, 1, 8)
  BY <1>6, FairChains, FairJoin DEF s7
<1>8. Fair(s8, 1, 9)
  BY <1>7, FairEnvelopes, FairJoin DEF s8
<1>9. Fair(s9, 1, 10)
  BY <1>8, FairEnvelopes, FairJoin DEF s9
<1>10. Fair(s10, 1, 11)
  BY <1>9, FairEnvelopes, FairJoin DEF s10
<1>11. Fair(s11, 1, 12)
  BY <1>10, FairEnvelopes, FairJoin DEF s11
<1>12. Fair(s12, 1, 13)
  BY <1>11, FairChains, FairJoin DEF s12
<1>13. Fair(s13, 1, 14)
  BY <1>12, FairChains, FairJoin DEF s13
<1>14. Fair(s14, 1, 15)
  BY <1>13, FairChains, FairJoin DEF s14
<1>15. Fair(s15, 1, 16)
  BY <1>14, FairEnvelopes, FairJoin DEF s15
<1>16. Fair(s16, 1, 18)
  BY <1>15, FairSigned, FairJoin DEF s16
<1>17. Fair(s17, 1, 19)
  BY <1>16, FairEnvelopes, FairJoin DEF s17
<1>18. Fair(s18, 1, 20)
  BY <1>17, FairEnvelopes, FairJoin DEF s18
<1>19. Fair(s19, 1, 21)
  BY <1>18, FairChains, FairJoin DEF s19
<1>20. Fair(s20, 1, 23)
  BY <1>19, FairPacks, FairJoin DEF s20
<1>21. Fair(s21, 1, 25)
  BY <1>20, FairPacks, FairJoin DEF s21
<1>22. Fair(s22, 1, 27)
  BY <1>21, FairPacks, FairJoin DEF s22
<1>23. Fair(s23, 1, 29)
  BY <1>22, FairPacks, FairJoin DEF s23
<1>24. Fair(s24, 1, 31)
  BY <1>23, FairPacks, FairJoin DEF s24
<1> QED BY <1>1, <1>24

----------------------------------------------------------------------------
(* The program that writes the test vectors *)

\* Every vector is truthful and has a path of its own.
LEMMA VectorsTruthful ==
    /\ Len(T!Vectors) \in Nat \ {0}
    /\ \A n \in 1..Len(T!Vectors) : T!TellsTruth(T!Vectors[n][2])
    /\ \A m, n \in 1..Len(T!Vectors) : T!PathOf(m) = T!PathOf(n) => m = n
<1>1. Len(T!Vectors) \in Nat \ {0}
  BY FairVectors DEF Fair
<1>2. \A n \in 1..Len(T!Vectors) : T!TellsTruth(T!Vectors[n][2])
  BY FairVectors DEF Fair
<1>3. ASSUME NEW m \in 1..Len(T!Vectors), NEW n \in 1..Len(T!Vectors), T!PathOf(m) = T!PathOf(n)
      PROVE  m = n
  <2>1. T!Vectors[m][1] = T!Vectors[n][1] /\ T!Vectors[m][2].name = T!Vectors[n][2].name
    BY <1>3 DEF T!PathOf
  <2> QED BY <2>1, FairVectors DEF Fair
<1> QED BY <1>1, <1>2, <1>3

\* Nothing is written before the first file.
LEMMA VectorsStart == T!VectorsInit => T!VectorsInv
BY VectorsTruthful DEF T!VectorsInit, T!VectorsInv, T!FilesInit, T!Written

\* A step of the program, which is not over.
LEMMA VectorsGoOn ==
    ASSUME T!VectorsInv, T!VectorsStep
    PROVE  T!VectorsInv'
<1> DEFINE N == Len(T!Vectors)
<1>1. N \in Nat \ {0} /\ \A m, n \in 1..N : T!PathOf(m) = T!PathOf(n) => m = n
  BY VectorsTruthful
<1> HIDE DEF N
<1>2. /\ DOMAIN disk \subseteq {T!PathOf(n) : n \in 1..N}
      /\ \A n \in 1..N : T!PathOf(n) \in DOMAIN disk => disk[T!PathOf(n)] \in {<<>>, <<n>>}
  BY DEF T!VectorsInv, N
<1>3. /\ step[1] \in {"create", "write"} /\ step[2] \in 1..N
      /\ \A m \in 1..(step[2] - 1) : T!Written(m)
  BY DEF T!VectorsInv, T!VectorsStep, T!Running, N
<1>4. CASE T!CreateVector(step[2])
  <2>1. /\ disk' = [p \in DOMAIN disk \union {T!PathOf(step[2])} |->
                       IF p = T!PathOf(step[2]) THEN <<>> ELSE disk[p]]
        /\ step' = <<"write", step[2]>> /\ exit' = exit
    BY <1>4 DEF T!CreateVector, T!Create, T!Put, T!GoOn
  <2>2. step'[1] = "write" /\ step'[2] = step[2]
    BY <2>1
  <2>3. exit' # "written"
    BY <2>1 DEF T!VectorsStep, T!Running
  <2>4. DOMAIN disk' \subseteq {T!PathOf(n) : n \in 1..N}
    BY <1>2, <1>3, <2>1
  <2>5. \A n \in 1..N : T!PathOf(n) \in DOMAIN disk' => disk'[T!PathOf(n)] \in {<<>>, <<n>>}
    BY <1>2, <2>1
  <2>6. \A m \in 1..(step[2] - 1) : T!Written(m)'
    BY <1>1, <1>3, <2>1 DEF T!Written
  <2> QED BY <1>3, <2>2, <2>3, <2>4, <2>5, <2>6 DEF T!VectorsInv, N
<1>5. CASE T!WriteVector(step[2])
  <2>1. /\ disk' = [p \in DOMAIN disk \union {T!PathOf(step[2])} |->
                       IF p = T!PathOf(step[2]) THEN <<step[2]>> ELSE disk[p]]
        /\ step' = <<"create", step[2] + 1>>
        /\ exit' = IF step[2] = N THEN "written" ELSE "running"
    BY <1>5 DEF T!WriteVector, T!WriteAll, T!Put, N
  <2>2. step'[1] = "create" /\ step'[2] = step[2] + 1
    BY <2>1
  <2>3. DOMAIN disk' \subseteq {T!PathOf(n) : n \in 1..N}
    BY <1>2, <1>3, <2>1
  <2>4. \A n \in 1..N : T!PathOf(n) \in DOMAIN disk' => disk'[T!PathOf(n)] \in {<<>>, <<n>>}
    BY <1>1, <1>2, <1>3, <2>1
  <2>5. \A m \in 1..step[2] : T!Written(m)'
    <3> SUFFICES ASSUME NEW m \in 1..step[2]
                 PROVE  T!Written(m)'
      OBVIOUS
    <3>1. CASE m = step[2]
      BY <2>1, <3>1 DEF T!Written
    <3>2. CASE m # step[2]
      <4>1. m \in 1..(step[2] - 1) /\ m \in 1..N
        BY <1>1, <1>3, <3>2
      <4>2. T!PathOf(m) # T!PathOf(step[2]) /\ T!Written(m)
        BY <1>1, <1>3, <3>2, <4>1
      <4> QED BY <2>1, <4>2 DEF T!Written
    <3> QED BY <3>1, <3>2
  <2>6. CASE step[2] = N
    BY <2>1, <2>3, <2>4, <2>5, <2>6 DEF T!VectorsInv, N
  <2>7. CASE step[2] # N
    <3>1. step'[2] \in 1..N /\ step'[2] - 1 = step[2]
      BY <1>1, <1>3, <2>2, <2>7
    <3>2. exit' # "written"
      BY <2>1, <2>7
    <3> QED BY <2>2, <2>3, <2>4, <2>5, <3>1, <3>2 DEF T!VectorsInv, N
  <2> QED BY <2>6, <2>7
<1> QED BY <1>4, <1>5 DEF T!VectorsStep

\* The program stops, or is started again over what is there.
LEMMA VectorsRestart ==
    ASSUME T!VectorsInv, T!Stop \/ T!Restart(<<"create", 1>>)
    PROVE  T!VectorsInv'
<1>1. disk' = disk
  BY DEF T!Stop, T!Fail, T!Restart
<1>2. \A m : T!Written(m) => T!Written(m)'
  BY <1>1 DEF T!Written
<1>3. CASE T!Stop
  <2>1. exit # "written" /\ exit' # "written" /\ step' = step
    BY <1>3 DEF T!Stop, T!Running, T!Fail
  <2> QED BY <1>1, <1>2, <2>1 DEF T!VectorsInv
<1>4. CASE T!Restart(<<"create", 1>>)
  <2>1. exit' # "written" /\ step'[1] = "create" /\ step'[2] = 1
    BY <1>4 DEF T!Restart
  <2>2. 1..(1 - 1) = {} /\ 1 \in 1..Len(T!Vectors)
    BY VectorsTruthful
  <2> QED BY <1>1, <2>1, <2>2 DEF T!VectorsInv
<1> QED BY <1>3, <1>4

----------------------------------------------------------------------------
(* Theorems about the generator *)

\* While the program that writes the test vectors goes on, the files before the
\* one at hand are whole, and every file there is torn or holds its own vector,
\* after any number of stops and runs.
THEOREM VectorsInvariant == ProducersSpec => [](producer = "vectors" => T!VectorsInv)
<1> DEFINE Inv == producer = "vectors" => T!VectorsInv
<1>1. ProducersInit => Inv
  BY VectorsStart DEF ProducersInit
<1>2. Inv /\ [ProducersNext]_producerVars => Inv'
  <2> SUFFICES ASSUME Inv, [ProducersNext]_producerVars, producer' = "vectors"
               PROVE  T!VectorsInv'
    OBVIOUS
  <2>1. CASE RunCeremony \/ Disturb
    BY <2>1 DEF RunCeremony, Disturb
  <2>2. CASE RunVectors
    BY <2>2, VectorsGoOn, VectorsRestart DEF RunVectors, T!VectorsNext
  <2>3. CASE UNCHANGED producerVars
    <3>1. producer' = producer /\ disk' = disk /\ step' = step /\ exit' = exit
      BY <2>3 DEF producerVars, ceremonyVars, fileVars
    <3>2. \A m : T!Written(m)' = T!Written(m)
      BY <3>1 DEF T!Written
    <3> QED BY <3>1, <3>2 DEF T!VectorsInv
  <2> QED BY <2>1, <2>2, <2>3 DEF ProducersNext
<1> QED BY <1>1, <1>2, PTL DEF ProducersSpec

\* A test vector that is whole on the disk is accepted by the verifier it is for,
\* or rejected with the error it names, as it says; a run that ends leaves all of
\* them, each at a path of its own.
THEOREM VectorsTrue == ProducersSpec => []VectorsTellTruth
<1>1. (producer = "vectors" => T!VectorsInv) => VectorsTellTruth
  <2> SUFFICES ASSUME T!VectorsInv PROVE T!VectorsTellTruth
    BY DEF VectorsTellTruth
  <2>1. ASSUME NEW path \in DOMAIN disk, T!Whole(path)
        PROVE  T!TellsTruth(T!Vectors[disk[path][1]][2])
    <3>1. PICK n \in 1..Len(T!Vectors) : path = T!PathOf(n)
      BY DEF T!VectorsInv
    <3>2. disk[path] = <<n>>
      BY <2>1, <3>1 DEF T!VectorsInv, T!Whole
    <3>3. disk[path][1] = n
      BY <3>2
    <3> QED BY <3>3, VectorsTruthful
  <2>2. exit = "written" => \A n \in 1..Len(T!Vectors) : disk[T!PathOf(n)] = <<n>>
    BY DEF T!VectorsInv, T!Written
  <2> QED BY <2>1, <2>2 DEF T!VectorsTellTruth
<1> QED BY <1>1, VectorsInvariant, PTL

=============================================================================
