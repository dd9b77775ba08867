----------------------------- MODULE MriProfile -----------------------------
(***************************************************************************)
(* validate_mri_batch_payload and validate_gradient_coupling_payload of    *)
(* mri_profile.rs, which a caller of the library applies to the payload of *)
(* an MRI receipt.  The first check that fails ends the call.              *)
(*                                                                         *)
(* A float is the word of its bits: a sign, Exponent bits of exponent and  *)
(* Mantissa bits of fraction, as in IEEE 754 (there 8 and 23).             *)
(***************************************************************************)
EXTENDS Integers, Sequences

CONSTANTS Exponent, Mantissa, NoField

VARIABLES payload, mri_check, mri_status

mriVars == <<payload, mri_check, mri_status>>

----------------------------------------------------------------------------
(* Floats *)

Word == 0..(2^(1 + Exponent + Mantissa) - 1)

SignBit == 2^(Exponent + Mantissa)

Biased(w) == (w \div 2^Mantissa) % 2^Exponent

Fraction(w) == w % 2^Mantissa

Bias == 2^(Exponent - 1) - 1

is_finite(w) == Biased(w) # 2^Exponent - 1

\* The absolute value of a finite word in units of the smallest positive one; the
\* words with biased exponents 0 and 1 have the same unit.
Magnitude(w) ==
    IF Biased(w) = 0 THEN Fraction(w)
    ELSE (2^Mantissa + Fraction(w)) * 2^(Biased(w) - 1)

from_bits(w) == IF w >= SignBit THEN -Magnitude(w) ELSE Magnitude(w)

\* The word and the value of 1.0.
OneWord == Bias * 2^Mantissa

One == from_bits(OneWord)

----------------------------------------------------------------------------
(* Data *)

MriBatchFields ==
    <<"q_per_example", "e_per_example", "h_per_example", "c_per_example", "degenerate_mask">>

GradientFields == <<"grad_q_norms", "grad_lm_norms", "coupling_ratios">>

\* Of a batch payload only the lengths are read.
IsMriBatchPayload(p) ==
    /\ p.batch_len \in Nat \union {NoField}
    /\ \A n \in 1..Len(MriBatchFields) : p.vector[MriBatchFields[n]] \in Nat \union {NoField}

IsGradientCouplingPayload(p) ==
    /\ p.schema_ok \in BOOLEAN
    /\ p.num_layers \in Nat
    /\ \A n \in 1..Len(GradientFields) : p.vector[GradientFields[n]] \in Seq(Word)
    /\ p.profile_cosine \in Word

----------------------------------------------------------------------------
(* The checks *)

\* A vector needs a batch_len, and to be that long.
check_vector_field(batch_len, length) ==
    length # NoField => batch_len # NoField /\ length = batch_len

check_fixed_vector(expected, field) == Len(field) = expected

check_all_finite(field) == \A n \in 1..Len(field) : is_finite(field[n])

\* A mutant: the words are compared, not the values.
cosine_in_range_words(w) == w <= OneWord

\* (-1.0..=1.0).contains
cosine_in_range(w) == -One <= from_bits(w) /\ from_bits(w) <= One

\* The checks of a payload in their order; the cosine is decoded and compared only
\* after it was found finite.
Checks(p) ==
    IF p.kind = "batch"
    THEN [n \in 1..Len(MriBatchFields) |->
             check_vector_field(p.batch_len, p.vector[MriBatchFields[n]])]
    ELSE <<p.schema_ok, p.num_layers # 0>>
         \o [n \in 1..Len(GradientFields) |->
                check_fixed_vector(p.num_layers, p.vector[GradientFields[n]])]
         \o [n \in 1..Len(GradientFields) |-> check_all_finite(p.vector[GradientFields[n]])]
         \o <<is_finite(p.profile_cosine),
              is_finite(p.profile_cosine) /\ cosine_in_range(p.profile_cosine)>>

----------------------------------------------------------------------------
(* The validators *)

MriInit ==
    /\ \/ payload.kind = "batch" /\ IsMriBatchPayload(payload)
       \/ payload.kind = "gradient_coupling" /\ IsGradientCouplingPayload(payload)
    /\ mri_check = 1
    /\ mri_status = "pending"

PassCheck ==
    /\ mri_status = "pending"
    /\ mri_check <= Len(Checks(payload))
    /\ Checks(payload)[mri_check]
    /\ mri_check' = mri_check + 1
    /\ UNCHANGED <<payload, mri_status>>

FailCheck ==
    /\ mri_status = "pending"
    /\ mri_check <= Len(Checks(payload))
    /\ ~Checks(payload)[mri_check]
    /\ mri_status' = "Invalid"
    /\ UNCHANGED <<payload, mri_check>>

ReturnOk ==
    /\ mri_check > Len(Checks(payload))
    /\ mri_status = "pending"
    /\ mri_status' = "Valid"
    /\ UNCHANGED <<payload, mri_check>>

MriNext == PassCheck \/ FailCheck \/ ReturnOk

Spec == MriInit /\ [][MriNext]_mriVars

----------------------------------------------------------------------------
(* What the validators decide, from the words alone *)

Unsigned(w) == w % SignBit

\* The vectors present are all as long as batch_len says.
BatchAcceptable(p) ==
    LET lengths == {p.vector[MriBatchFields[n]] : n \in 1..Len(MriBatchFields)} \ {NoField}
    IN lengths # {} => p.batch_len # NoField /\ lengths = {p.batch_len}

\* At least one layer; in each vector one finite word for each layer; and the
\* cosine's word without its sign no greater than the word of 1.0.
GradientAcceptable(p) ==
    /\ p.schema_ok
    /\ p.num_layers > 0
    /\ \A n \in 1..Len(GradientFields) :
          /\ DOMAIN p.vector[GradientFields[n]] = 1..p.num_layers
          /\ \A layer \in 1..p.num_layers :
                Unsigned(p.vector[GradientFields[n]][layer]) < (2^Exponent - 1) * 2^Mantissa
    /\ Unsigned(p.profile_cosine) <= OneWord

PayloadAcceptable(p) ==
    IF p.kind = "batch" THEN BatchAcceptable(p) ELSE GradientAcceptable(p)

----------------------------------------------------------------------------
(* Properties *)

\* A payload is validated exactly when its shape is right and its floats are
\* finite and in range, as read off the words of their bits: for the cosine, that
\* the comparison of values with 1.0 and -1.0 admits both zeros, every subnormal
\* and both bounds, and no NaN, however the word would compare as an integer.
PayloadVerdict ==
    mri_status # "pending" => (mri_status = "Valid" <=> PayloadAcceptable(payload))

----------------------------------------------------------------------------
(* The inductive invariant behind the verdict *)

\* The checks before the next one were passed; a payload is refused by one that
\* fails and validated when none is left.
MriInv ==
    /\ \/ payload.kind = "batch" /\ IsMriBatchPayload(payload)
       \/ payload.kind = "gradient_coupling" /\ IsGradientCouplingPayload(payload)
    /\ mri_check \in 1..(Len(Checks(payload)) + 1)
    /\ \A n \in 1..(mri_check - 1) : Checks(payload)[n]
    /\ mri_status \in {"pending", "Valid", "Invalid"}
    /\ mri_status = "Valid" => mri_check = Len(Checks(payload)) + 1
    /\ mri_status = "Invalid" => mri_check <= Len(Checks(payload)) /\ ~Checks(payload)[mri_check]

=============================================================================
