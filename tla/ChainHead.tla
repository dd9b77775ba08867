----------------------------- MODULE ChainHead -----------------------------
(***************************************************************************)
(* What the last event_hash of a chain commits.  A holder of that one hash *)
(* compares the chain it is shown with others that end in it.              *)
(***************************************************************************)
EXTENDS Chain

CONSTANT OtherChains   \* the chains to compare with

ASSUME OtherChainsAssumption == OtherChains \subseteq Seq(ReceiptEnvelope)

\* The hash of the last envelope commits the whole chain: two chains that verify
\* and end in the same event_hash are the same, link by link, so neither an
\* earlier envelope nor the beginning of a chain can be exchanged.
HeadCommitsChain ==
    phase = "done" /\ status = "Valid" /\ envelopes # <<>> =>
        \A c \in OtherChains :
            /\ c # <<>>
            /\ ChainAcceptable(c)
            /\ c[Len(c)].event_hash = envelopes[Len(envelopes)].event_hash
            /\ CollisionFree(Elements(c) \union Elements(envelopes))
            => c = envelopes

=============================================================================
