----------------------------- MODULE Producers -----------------------------
(***************************************************************************)
(* The two programs that write what the verifiers read: the ceremony and   *)
(* the generator of the test vectors.  One of them is run, more than once, *)
(* and each starts with no file of its own.                                *)
(***************************************************************************)
EXTENDS Ceremony

VARIABLE producer

T == INSTANCE TestVectors WITH WireForm <- "string"

\* Absent, the value of what is not there, is none of those that are: the texts,
\* the digests, the support sets and the closure the test vectors state.
ASSUME AbsentAssumption ==
    /\ Absent # "" /\ Absent # T!SigningKey
    /\ Absent # T!canon_hash(T!ManifestBody) /\ Absent # T!ManifestBody.receipt_closure
    /\ \A e \in {T!Prior, T!Provider, T!Model} : Absent # T!get_hash(e)
    /\ \A e \in {T!Provider, T!Model, T!ClosureRoot,
                  T!build_layered_model(T!get_hash(T!Provider), "model.v0")} :
          Absent # e["payload"][2].support_set

producerVars == <<ceremonyVars, producer>>

ProducersInit ==
    /\ producer \in {"ceremony", "vectors"}
    /\ IF producer = "ceremony" THEN CeremonyInit
       ELSE /\ T!VectorsInit
            /\ wire = "string" /\ sources = <<>> /\ edits = 0 /\ Forget

RunCeremony == producer = "ceremony" /\ CeremonyStep /\ UNCHANGED producer

\* The disk fails the ceremony, or someone stops it, edits or starts again.
Disturb ==
    /\ producer = "ceremony"
    /\ StopCeremony \/ RestartCeremony \/ Edit
    /\ UNCHANGED producer

RunVectors ==
    /\ producer = "vectors"
    /\ T!VectorsNext
    /\ UNCHANGED <<worldVars, memory, producer>>

ProducersNext ==
    \/ RunCeremony
    \/ Disturb
    \/ RunVectors

\* A program that is started goes on until it ends or is killed.
ProducersSpec == ProducersInit /\ [][ProducersNext]_producerVars /\ WF_producerVars(RunCeremony)

\* See TestVectors.
VectorsTellTruth == producer = "vectors" => T!VectorsTellTruth

VectorsNameTheirError == producer = "vectors" => T!VectorsNameTheirError

=============================================================================
