------------------------------ MODULE Verdict ------------------------------
(***************************************************************************)
(* What every entry point of the verifier promises: it looks at one input, *)
(* and says VALID exactly on the acceptable ones.  The answer is given     *)
(* once, never withdrawn, and always given.                                *)
(***************************************************************************)
CONSTANT Acceptable(_)   \* the inputs that deserve VALID

VARIABLES input, verdict

verdictVars == <<input, verdict>>

Init == verdict = "pending"

Decide ==
    /\ verdict = "pending"
    /\ verdict' \in {"Valid", "Invalid"}
    /\ verdict' = "Valid" <=> Acceptable(input)
    /\ UNCHANGED input

Answered == verdict # "pending"

Spec == Init /\ [][Decide]_verdictVars /\ <>Answered

=============================================================================
