-------------------------- MODULE MCSignedReceipt --------------------------
(***************************************************************************)
(* Signed receipts on three public keys, two of which share a key_id (a    *)
(* key_id is a 96-bit prefix, so nothing but the authority entry tells     *)
(* their holders apart).                                                   *)
(***************************************************************************)
EXTENDS SignedReceipt

MCPublicKey == {"p1", "p2", "p3"}
MCKeyId == {"k1", "k2"}
MCKeyIdOf(pk) == IF pk = "p3" THEN "k2" ELSE "k1"
MCContent == {"c1", "c2"}
MCTimestamp == {"t1", "t2"}
MCEpoch == 0..2

\* Entries open for ever or in epoch 1 only.
Entries ==
    {[public_key |-> pk, valid_from |-> 0, valid_until |-> NoBound] : pk \in {"p1", "p2", EmptyKey}}
    \union {[public_key |-> pk, valid_from |-> 1, valid_until |-> 2] : pk \in {"p1", EmptyKey}}

Policies ==
    [current_epoch : Epoch, enforce_epoch : BOOLEAN, enforce_revocation : BOOLEAN]
      \ [current_epoch : {0, 2}, enforce_epoch : {FALSE}, enforce_revocation : BOOLEAN]

GoodEnvelope ==
    [ingests |-> TRUE, version_ok |-> TRUE, algorithms_ok |-> TRUE, content |-> "c1", event_hash |-> "c1"]

Sig(pk, c, t) == [by |-> pk, content |-> c, timestamp |-> t]

Bundle(k, pk, s) ==
    [parses |-> TRUE, metadata_ok |-> TRUE, key_id |-> k, public_key |-> pk,
     signature |-> s, timestamp |-> "t1"]

GoodBundle == Bundle("k1", "p1", Sig("p1", "c1", "t1"))

Args(e, b, t) == [envelope |-> e, sig |-> b, with_trust |-> t]

\* Every pairing of key_id, public key and signer.
Pairings ==
    {Bundle(k, pk, Sig(by, "c1", "t1")) :
        k \in KeyId, pk \in PublicKey \union {BadKey}, by \in {"p1", "p2"}}

\* What may be wrong with a bundle or an envelope.
BadBundles ==
    {[GoodBundle EXCEPT !.parses = FALSE], [GoodBundle EXCEPT !.metadata_ok = FALSE],
     [GoodBundle EXCEPT !.signature = BadSignature], [GoodBundle EXCEPT !.timestamp = "t2"],
     [GoodBundle EXCEPT !.signature.content = "c2"]}

BadEnvelopes ==
    {[GoodEnvelope EXCEPT !.ingests = i, !.algorithms_ok = a, !.event_hash = h] :
        i \in BOOLEAN, a \in BOOLEAN, h \in Content}

Calls ==
    {Args(GoodEnvelope, b, TRUE) : b \in Pairings}
    \union {Args(GoodEnvelope, b, t) : b \in BadBundles, t \in BOOLEAN}
    \union {Args(e, GoodBundle, t) : e \in BadEnvelopes, t \in BOOLEAN}

\* The set starts as AuthoritySet::new leaves it.
MCInit ==
    /\ keys = [k \in {} |-> k]
    /\ revocations = {}
    /\ policy = [current_epoch |-> 1, enforce_epoch |-> TRUE, enforce_revocation |-> TRUE]
    /\ args = Args(GoodEnvelope, GoodBundle, TRUE)
    /\ Init

MCNext ==
    \/ \E e \in Entries : add_key("k1", e)
    \/ \E k \in KeyId : revoke(k)
    \/ \E p \in Policies : SetPolicy(p)
    \/ \E a \in Calls : Call(a)
    \/ CallStep

MCSpec == MCInit /\ [][MCNext]_vars

=============================================================================
