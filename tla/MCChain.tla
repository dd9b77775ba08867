------------------------------ MODULE MCChain ------------------------------
(***************************************************************************)
(* The chain verifier on short chains.  Three families vary the linkage,   *)
(* the uniform digests, and the per-envelope checks.                       *)
(***************************************************************************)
EXTENDS ChainHead, SequencesExt

CONSTANTS MaxChain, MaxTime

MCHash == {"h1", "h2", "h3", "h4"}
TwoDigests == {"d1", "d2"}

Env(p, h, r, t) ==
    [parent_id |-> p, event_hash |-> h, recomputed |-> r, logical_time |-> t,
     context_digest |-> "d1", policy_digest |-> "d1", schema_digest |-> "d1",
     version_ok |-> TRUE, algorithms_ok |-> TRUE]

Stated == {"h1", "h2", "h3"}

\* Links, hashes and times in any combination; every hash matches.
LinkChains ==
    BoundedSeq({Env(p, h, h, t) : p \in {NoParent, "h1", "h2"}, h \in Stated, t \in 1..MaxTime}, MaxChain)

\* Two envelopes whose stated hash may not be the recomputed one.
HashChains ==
    BoundedSeq({Env(p, h, r, t) : p \in {NoParent, "h1"}, h \in {"h1", "h2"},
                                  r \in {"h1", "h2", "h4"}, t \in 1..MaxTime}, 2)

\* Three linked envelopes that may deviate in any digest, two that may also
\* declare another algorithm.
Linked(n) == Env(IF n = 1 THEN NoParent ELSE IF n = 2 THEN "h1" ELSE "h2",
                 IF n = 1 THEN "h1" ELSE IF n = 2 THEN "h2" ELSE "h3",
                 IF n = 1 THEN "h1" ELSE IF n = 2 THEN "h2" ELSE "h3", n)

Deviations(e, algorithms) ==
    {[e EXCEPT !.context_digest = c, !.policy_digest = p, !.schema_digest = s,
               !.algorithms_ok = a] :
        c \in TwoDigests, p \in TwoDigests, s \in TwoDigests, a \in algorithms}

UniformChains ==
    {<<e, f, g>> : e \in Deviations(Linked(1), {TRUE}), f \in Deviations(Linked(2), {TRUE}),
                   g \in Deviations(Linked(3), {TRUE})}
    \union {<<e, f>> : e \in Deviations(Linked(1), BOOLEAN), f \in Deviations(Linked(2), BOOLEAN)}

Inputs == LinkChains \union HashChains \union UniformChains

MCInit ==
    /\ envelopes \in {c \in Inputs : CollisionFree(Elements(c))}
    /\ ingested \in BOOLEAN
    /\ ~ingested => envelopes = <<>>
    /\ Init

MCSpec == MCInit /\ [][Next]_vars /\ WF_vars(Next)

\* Chains of up to three envelopes, whatever their links.
MCOtherChains ==
    {c \in BoundedSeq({Env(p, h, h, t) : p \in {NoParent, "h1", "h2", "h3"}, h \in Stated, t \in 1..3}, 3) :
        ParentsLinked(c) /\ TimesIncrease(c)}

=============================================================================
