---------------------------- MODULE MCProducers ----------------------------
(***************************************************************************)
(* The ceremony over three crates, each of whose files is in one of two    *)
(* states, or broken, with one edit and two runs; the generator of the     *)
(* test vectors with all its files and two runs.                           *)
(***************************************************************************)
EXTENDS Producers

MCInit ==
    /\ sources \in {<<>>, [f \in SourceFile |-> "first"]}
    /\ ProducersInit

MCSpec == MCInit /\ [][ProducersNext]_producerVars /\ WF_producerVars(RunCeremony)

=============================================================================
