----------------------------- MODULE Ingestion -----------------------------
(***************************************************************************)
(* ingest_envelope_with_limits and ingest_chain_with_limits of             *)
(* ingestion.rs: the checks in front of every verifier, in their order,    *)
(* with the structural walk of Limits.  The first failure is returned.     *)
(*                                                                         *)
(* A JSON text is its length, what canonical admission says of it, and its *)
(* tree; an envelope is a node with the outcomes of the checks on it.      *)
(***************************************************************************)
EXTENDS Limits

VARIABLES
    input,      \* the bytes
    chain,      \* whether ingest_chain is called, or ingest_envelope
    phase,
    element,    \* elements of a chain already ingested
    outcome     \* "pending", "ok", or the error

vars == <<limitVars, input, chain, phase, element, outcome>>

----------------------------------------------------------------------------
(* Data *)

\* schema: validate_envelope_schema.  floats: a float in a structural field.
\* typed: the envelope deserializes.
Envelope == [schema : BOOLEAN, floats : BOOLEAN, typed : BOOLEAN]

\* canonical: admit_canonical_bytes.  envelopes: what the checks would say of
\* each node read as an envelope.
IsInput(in, t) ==
    /\ in.bytes \in Nat
    /\ in.canonical \in {"ok", "malformed", "noncanonical"}
    /\ in.envelopes \in [Nodes(t) -> Envelope]
    /\ \A n \in Nodes(t) : in.envelopes[n].schema => t.type[n] = "object"

Errors == {"bytes", "malformed", "noncanonical", "limits", "not_array", "chain_length",
           "schema", "floats", "typed"}

----------------------------------------------------------------------------
(* The pipeline *)

Init ==
    /\ LimitsInit
    /\ IsInput(input, tree)
    /\ chain \in BOOLEAN
    /\ phase = "bytes"
    /\ element = 0
    /\ outcome = "pending"

Return(o) ==
    /\ outcome' = o
    /\ phase' = "done"

\* A mutant: the text is admitted before its size is compared.
CheckBytesLate ==
    /\ phase = "bytes"
    /\ \/ /\ input.canonical # "ok"
          /\ Return(input.canonical)
       \/ /\ input.canonical = "ok"
          /\ input.bytes > limits.max_bytes
          /\ Return("bytes")
       \/ /\ input.canonical = "ok"
          /\ input.bytes <= limits.max_bytes
          /\ phase' = "admit"
          /\ UNCHANGED outcome
    /\ UNCHANGED <<limitVars, input, chain, element>>

CheckBytes ==
    /\ phase = "bytes"
    /\ \/ /\ input.bytes > limits.max_bytes
          /\ Return("bytes")
       \/ /\ input.bytes <= limits.max_bytes
          /\ phase' = "admit"
          /\ UNCHANGED outcome
    /\ UNCHANGED <<limitVars, input, chain, element>>

\* admit_canonical_bytes, then the parse, which cannot fail any more.
Admit ==
    /\ phase = "admit"
    /\ \/ /\ input.canonical # "ok"
          /\ Return(input.canonical)
       \/ /\ input.canonical = "ok"
          /\ phase' = "structure"
          /\ UNCHANGED outcome
    /\ UNCHANGED <<limitVars, input, chain, element>>

CheckStructure ==
    /\ phase = "structure"
    /\ StartCheck
    /\ phase' = "walk"
    /\ UNCHANGED <<input, chain, element, outcome>>

WalkStructure ==
    /\ phase = "walk"
    /\ CheckStep
    /\ UNCHANGED <<input, chain, phase, element, outcome>>

\* The elements of a chain, in order.
Elements == Children(tree, 1)

\* A mutant: a chain of exactly the maximal length is refused.
AfterStructureShort ==
    /\ phase = "walk"
    /\ CheckDone
    /\ IF violation # "none" THEN Return("limits")
       ELSE IF chain /\ tree.type[1] # "array" THEN Return("not_array")
       ELSE IF chain /\ Elements = {} THEN Return("ok")
       ELSE IF chain /\ Cardinality(Elements) >= limits.max_chain_length THEN Return("chain_length")
       ELSE phase' = "elements" /\ UNCHANGED outcome
    /\ UNCHANGED <<limitVars, input, chain, element>>

\* The structural limits are met or not; a chain must then be an array, is
\* accepted at once when empty, and must not be too long.
AfterStructure ==
    /\ phase = "walk"
    /\ CheckDone
    /\ IF violation # "none" THEN Return("limits")
       ELSE IF chain /\ tree.type[1] # "array" THEN Return("not_array")
       ELSE IF chain /\ Elements = {} THEN Return("ok")
       ELSE IF chain /\ Cardinality(Elements) > limits.max_chain_length THEN Return("chain_length")
       ELSE phase' = "elements" /\ UNCHANGED outcome
    /\ UNCHANGED <<limitVars, input, chain, element>>

\* The node read next as an envelope: the root, or the next element.
Current ==
    IF chain THEN CHOOSE n \in Elements : Cardinality({m \in Elements : m < n}) = element
    ELSE 1

\* Schema profile, structural floats, typed deserialization.
EnvelopeError(e) ==
    IF ~e.schema THEN "schema"
    ELSE IF e.floats THEN "floats"
    ELSE IF ~e.typed THEN "typed"
    ELSE "none"

IngestEnvelope ==
    /\ phase = "elements"
    /\ ~chain
    /\ LET found == EnvelopeError(input.envelopes[Current]) IN
       Return(IF found = "none" THEN "ok" ELSE found)
    /\ UNCHANGED <<limitVars, input, chain, element>>

\* A mutant: the elements of a chain are not searched for floats.
IngestElementFloats ==
    /\ phase = "elements"
    /\ chain
    /\ element < Cardinality(Elements)
    /\ LET e == input.envelopes[Current] IN
       \/ /\ ~(e.schema /\ e.typed)
          /\ Return("typed")
          /\ UNCHANGED element
       \/ /\ e.schema /\ e.typed
          /\ element' = element + 1
          /\ UNCHANGED <<phase, outcome>>
    /\ UNCHANGED <<limitVars, input, chain>>

IngestElement ==
    /\ phase = "elements"
    /\ chain
    /\ element < Cardinality(Elements)
    /\ LET found == EnvelopeError(input.envelopes[Current]) IN
       \/ /\ found # "none"
          /\ Return(found)
          /\ UNCHANGED element
       \/ /\ found = "none"
          /\ element' = element + 1
          /\ UNCHANGED <<phase, outcome>>
    /\ UNCHANGED <<limitVars, input, chain>>

ReturnChain ==
    /\ phase = "elements"
    /\ chain
    /\ element = Cardinality(Elements)
    /\ Return("ok")
    /\ UNCHANGED <<limitVars, input, chain, element>>

Next ==
    \/ CheckBytes
    \/ Admit
    \/ CheckStructure
    \/ WalkStructure
    \/ AfterStructure
    \/ IngestEnvelope
    \/ IngestElement
    \/ ReturnChain

Spec == Init /\ [][Next]_vars

FairSpec == Spec /\ WF_vars(Next)

----------------------------------------------------------------------------
(* What ingestion decides *)

\* All that a call of ingestion depends on.
TheCall == [text |-> input, tree |-> tree, limits |-> limits, chain |-> chain]

PassesChecks(e) == e.schema /\ ~e.floats /\ e.typed

\* Node n of a call's value, its text that many bytes long, is an envelope.
EnvelopeAcceptable(in, n, bytes) ==
    /\ bytes <= in.limits.max_bytes
    /\ Within(in.tree, n, in.limits)
    /\ PassesChecks(in.text.envelopes[n])

ChainAcceptable(in) ==
    LET elements == Children(in.tree, 1) IN
    /\ in.text.bytes <= in.limits.max_bytes
    /\ Within(in.tree, 1, in.limits)
    /\ in.tree.type[1] = "array"
    /\ Cardinality(elements) <= in.limits.max_chain_length
    /\ \A n \in elements : PassesChecks(in.text.envelopes[n])

InputAcceptable(in) ==
    /\ in.text.canonical = "ok"
    /\ IF in.chain THEN ChainAcceptable(in) ELSE EnvelopeAcceptable(in, 1, in.text.bytes)

Answer ==
    IF phase # "done" THEN "pending" ELSE IF outcome = "ok" THEN "Valid" ELSE "Invalid"

V == INSTANCE Verdict WITH Acceptable <- InputAcceptable, input <- TheCall,
                           verdict <- Answer

----------------------------------------------------------------------------
(* Properties *)

\* Every variable keeps its type.
TypeOK ==
    /\ IsTree(tree)
    /\ limits \in VerifierLimits
    /\ stack \in Seq(Frame(tree))
    /\ node_count \in 0..tree.size
    /\ violation \in Violations \union {"none"}
    /\ IsInput(input, tree)
    /\ chain \in BOOLEAN
    /\ phase \in {"bytes", "admit", "structure", "walk", "elements", "done"}
    /\ element \in 0..tree.size
    /\ outcome \in Errors \union {"pending", "ok"}

\* Bytes are ingested exactly when they are canonical, within the limits, and
\* each envelope passes its checks; an answer is always given.
DecidesIngestion == V!Spec

\* Every envelope of a chain that is ingested would be ingested on its own under
\* the same limits, its text being part of the chain's: the chain is no way
\* around a limit on single receipts.
ElementsStandAlone ==
    phase = "done" /\ chain /\ outcome = "ok" =>
        \A n \in Elements : \A bytes \in 0..input.bytes : EnvelopeAcceptable(TheCall, n, bytes)

\* The checks come in the order that bounds the work: only a text within the
\* byte limit is searched for its canonical form, only a canonical one is walked,
\* and no node is read as an envelope before the whole value, and the length of
\* the chain, are found to be within the limits.
WorkIsEarned ==
    /\ outcome \in {"malformed", "noncanonical"} => input.bytes <= limits.max_bytes
    /\ node_count > 0 \/ violation # "none" =>
          input.bytes <= limits.max_bytes /\ input.canonical = "ok"
    /\ element > 0 \/ outcome \in {"schema", "floats", "typed"} =>
          /\ Within(tree, 1, limits)
          /\ chain => tree.type[1] = "array" /\ Cardinality(Elements) <= limits.max_chain_length

----------------------------------------------------------------------------
(* The inductive invariant behind the verdict *)

\* The number of elements before n.
Rank(n) == Cardinality({m \in Elements : m < n})

\* The elements of the chain that were ingested.
Ingested == {n \in Elements : Rank(n) < element}

\* What the phases before have checked.
StageInv ==
    /\ phase \notin {"bytes", "done"} => input.bytes <= limits.max_bytes
    /\ phase \notin {"bytes", "admit", "done"} => input.canonical = "ok"
    /\ phase \in {"bytes", "admit", "structure"} => node_count = 0 /\ violation = "none"
    /\ phase = "walk" => node_count > 0 \/ violation # "none"
    /\ phase = "elements" => Within(tree, 1, limits)
    /\ phase = "elements" /\ chain =>
          tree.type[1] = "array" /\ Cardinality(Elements) <= limits.max_chain_length

\* The elements are ingested in order, each once, and none is passed over.
ElementsInv ==
    /\ element \in Nat
    /\ phase # "elements" => element = 0 \/ phase = "done"
    /\ phase = "elements" =>
          /\ element = Cardinality(Ingested)
          /\ \A n \in Ingested : PassesChecks(input.envelopes[n])

\* The outcome is "ok" exactly when the call deserves it.
OutcomeInv ==
    /\ phase # "done" => outcome = "pending"
    /\ phase = "done" => outcome # "pending" /\ (outcome = "ok" <=> InputAcceptable(TheCall))

PipelineInv ==
    /\ CheckInv
    /\ IsInput(input, tree)
    /\ chain \in BOOLEAN
    /\ StageInv
    /\ ElementsInv
    /\ OutcomeInv

=============================================================================
