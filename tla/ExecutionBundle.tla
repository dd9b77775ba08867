-------------------------- MODULE ExecutionBundle --------------------------
(***************************************************************************)
(* verify_bundle of bundle.rs: a canonical receipt envelope and the        *)
(* optional sidecar artifacts whose digests its payload declares.  The     *)
(* envelope is verified, then the sidecars are rehashed one after another. *)
(***************************************************************************)
EXTENDS Naturals, Sequences

CONSTANTS
    Digest,      \* hex digests of canonicalized sidecars, never the empty string
    EmptyText,   \* the empty string
    Undeclared,  \* the payload has no such field, or it is not a string
    Unhashable,  \* a sidecar value the canonicalizer refuses
    Absent       \* the bundle carries no such sidecar

VARIABLES
    bundle,          \* the input
    phase,
    position,        \* sidecars already treated
    sidecar_checks,  \* one record for each sidecar compared
    errors,          \* kinds of the errors collected
    status

vars == <<bundle, phase, position, sidecar_checks, errors, status>>

----------------------------------------------------------------------------
(* Data *)

BundleSidecars == <<"layer_trace", "selection_policy">>

SidecarName == {"layer_trace", "selection_policy"}

\* The payload of an envelope that is not JSON declares nothing.
ExecutionBundleInput ==
    [json : BOOLEAN, format_ok : BOOLEAN,
     envelope_verifies : BOOLEAN,
     declared : [SidecarName -> Digest \union {EmptyText, Undeclared}],
     sidecar : [SidecarName -> Digest \union {Unhashable, Absent}]]

SidecarDigestCheck ==
    [name : SidecarName, expected : Digest \union {EmptyText},
     computed : Digest \union {EmptyText}, matches : BOOLEAN]

----------------------------------------------------------------------------
(* The verifier *)

Init ==
    /\ bundle \in ExecutionBundleInput
    /\ phase = "parse"
    /\ position = 0
    /\ sidecar_checks = <<>>
    /\ errors = {}
    /\ status = "pending"

ParseBundle ==
    /\ phase = "parse"
    /\ \/ /\ ~(bundle.json /\ bundle.format_ok)
          /\ errors' = {"bundle"}
          /\ status' = "Invalid"
          /\ phase' = "done"
       \/ /\ bundle.json /\ bundle.format_ok
          /\ phase' = "envelope"
          /\ UNCHANGED <<errors, status>>
    /\ UNCHANGED <<bundle, position, sidecar_checks>>

VerifyEnvelope ==
    /\ phase = "envelope"
    /\ errors' = errors \union {e \in {"envelope"} : ~bundle.envelope_verifies}
    /\ phase' = "sidecars"
    /\ UNCHANGED <<bundle, position, sidecar_checks, status>>

\* A failed canonicalization leaves the empty string as the computed digest.
digest_canonical_value(value) == IF value = Unhashable THEN EmptyText ELSE value

check_sidecar(name, expected, value) ==
    [name |-> name, expected |-> expected, computed |-> digest_canonical_value(value),
     matches |-> digest_canonical_value(value) = expected]

Compared(b, name) == b.sidecar[name] # Absent /\ b.declared[name] # Undeclared

\* A mutant: a mismatch is reported only while nothing else is wrong.
CheckSidecarFirstError ==
    /\ phase = "sidecars"
    /\ position < Len(BundleSidecars)
    /\ LET name == BundleSidecars[position + 1]
           check == check_sidecar(name, bundle.declared[name], bundle.sidecar[name])
       IN
       \/ /\ Compared(bundle, name)
          /\ sidecar_checks' = Append(sidecar_checks, check)
          /\ errors' = errors \union {e \in {name} : ~check.matches /\ errors = {}}
       \/ /\ ~Compared(bundle, name)
          /\ UNCHANGED <<sidecar_checks, errors>>
    /\ position' = position + 1
    /\ UNCHANGED <<bundle, phase, status>>

CheckSidecar ==
    /\ phase = "sidecars"
    /\ position < Len(BundleSidecars)
    /\ LET name == BundleSidecars[position + 1]
           check == check_sidecar(name, bundle.declared[name], bundle.sidecar[name])
       IN
       \/ /\ Compared(bundle, name)
          /\ sidecar_checks' = Append(sidecar_checks, check)
          /\ errors' = errors \union {e \in {name} : ~check.matches}
       \/ /\ ~Compared(bundle, name)
          /\ UNCHANGED <<sidecar_checks, errors>>
    /\ position' = position + 1
    /\ UNCHANGED <<bundle, phase, status>>

\* A mutant: the last comparison decides.
ConcludeLastCheck ==
    /\ phase = "sidecars"
    /\ position = Len(BundleSidecars)
    /\ status' = IF /\ bundle.envelope_verifies
                    /\ sidecar_checks = <<>> \/ sidecar_checks[Len(sidecar_checks)].matches
                 THEN "Valid" ELSE "Invalid"
    /\ phase' = "done"
    /\ UNCHANGED <<bundle, position, sidecar_checks, errors>>

Conclude ==
    /\ phase = "sidecars"
    /\ position = Len(BundleSidecars)
    /\ status' = IF /\ bundle.envelope_verifies
                    /\ errors = {}
                    /\ \A n \in 1..Len(sidecar_checks) : sidecar_checks[n].matches
                 THEN "Valid" ELSE "Invalid"
    /\ phase' = "done"
    /\ UNCHANGED <<bundle, position, sidecar_checks, errors>>

Next ==
    \/ ParseBundle
    \/ VerifyEnvelope
    \/ CheckSidecar
    \/ Conclude

Spec == Init /\ [][Next]_vars

----------------------------------------------------------------------------
(* What the verifier decides *)

Agrees(b, name) ==
    \/ b.sidecar[name] \in Digest /\ b.declared[name] = b.sidecar[name]
    \/ b.sidecar[name] = Unhashable /\ b.declared[name] = EmptyText

BundleAcceptable(b) ==
    /\ b.json /\ b.format_ok
    /\ b.envelope_verifies
    /\ \A name \in SidecarName :
          b.sidecar[name] = Absent \/ b.declared[name] = Undeclared \/ Agrees(b, name)

----------------------------------------------------------------------------
(* Properties *)

\* Every variable keeps its type.
TypeOK ==
    /\ bundle \in ExecutionBundleInput
    /\ phase \in {"parse", "envelope", "sidecars", "done"}
    /\ position \in 0..Len(BundleSidecars)
    /\ sidecar_checks \in Seq(SidecarDigestCheck)
    /\ errors \subseteq {"bundle", "envelope"} \union SidecarName
    /\ status \in {"pending", "Valid", "Invalid"}

\* The checks and the errors of a result tell the same story, also when the
\* envelope itself fails: each sidecar compared is in exactly one check, and a
\* mismatch is in the errors exactly when its check says so.
ChecksExplainErrors ==
    phase = "done" /\ bundle.json /\ bundle.format_ok =>
        /\ \A name \in SidecarName :
              /\ Compared(bundle, name) =>
                    \E n \in 1..Len(sidecar_checks) : sidecar_checks[n].name = name
              /\ name \in errors <=>
                    \E n \in 1..Len(sidecar_checks) :
                        sidecar_checks[n].name = name /\ ~sidecar_checks[n].matches
        /\ \A m, n \in 1..Len(sidecar_checks) :
              sidecar_checks[m].name = sidecar_checks[n].name => m = n

----------------------------------------------------------------------------
(* A claim of the documentation the code does not keep *)

\* bundle.rs: VALID only when the envelope verifies "AND all sidecar digests
\* match": the digest of each sidecar carried is the one its envelope declares.
CarriedSidecarsMatch ==
    status = "Valid" =>
        \A name \in SidecarName :
            bundle.sidecar[name] # Absent => bundle.declared[name] = bundle.sidecar[name]

----------------------------------------------------------------------------
(* The inductive invariant behind the checks and the verdict *)

\* The sidecars compared so far.
ComparedSoFar ==
    {name \in SidecarName :
        Compared(bundle, name) /\ \E n \in 1..position : BundleSidecars[n] = name}

\* The check of a sidecar.
CheckOf(name) == check_sidecar(name, bundle.declared[name], bundle.sidecar[name])

\* Each of them has one check and no other sidecar has any.
ChecksInv ==
    /\ \A n \in 1..Len(sidecar_checks) :
          /\ sidecar_checks[n].name \in ComparedSoFar
          /\ sidecar_checks[n] = CheckOf(sidecar_checks[n].name)
    /\ \A name \in ComparedSoFar : \E n \in 1..Len(sidecar_checks) : sidecar_checks[n].name = name
    /\ \A m, n \in 1..Len(sidecar_checks) : sidecar_checks[m].name = sidecar_checks[n].name => m = n

\* The errors are the envelope's and those of the sidecars that do not match.
ErrorsInv ==
    errors = {e \in {"envelope"} : ~bundle.envelope_verifies}
             \union {name \in ComparedSoFar : ~CheckOf(name).matches}

ExecutionInv ==
    /\ TypeOK
    /\ phase \in {"parse", "envelope"} => position = 0 /\ sidecar_checks = <<>> /\ errors = {}
    /\ phase \in {"envelope", "sidecars"} => bundle.json /\ bundle.format_ok
    /\ phase = "sidecars" => ChecksInv /\ ErrorsInv
    /\ status = "pending" <=> phase # "done"
    /\ phase = "done" => (status = "Valid" <=> BundleAcceptable(bundle))
    /\ ChecksExplainErrors

=============================================================================
