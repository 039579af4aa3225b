----------------------------- MODULE Scheduling -----------------------------
(***************************************************************************)
(* The retry delay of src/scheduling.rs: exponential backoff in saturating *)
(* signed arithmetic, and the jitter applied to it.  Pure operators.       *)
(***************************************************************************)
EXTENDS Integers

CONSTANTS
    WordBits,   \* width of the signed machine integer (i64 in the code)
    JitterDen   \* jitter fractions are multiples of 1/JitterDen

ASSUME WordAssumption == WordBits \in Nat /\ WordBits >= 2
ASSUME JitterAssumption == JitterDen \in Nat \ {0}

\* Powers of two are positive and double; the provers have no theory of
\* exponentiation.
ASSUME PowerAssumption ==
    \A n \in 0..WordBits : 2^n \in Nat \ {0} /\ (n > 0 => 2^n = 2 * 2^(n - 1))

\* i64::MAX.
IntMax == 2^(WordBits - 1) - 1

Least(x, y) == IF x <= y THEN x ELSE y
Greatest(x, y) == IF x >= y THEN x ELSE y

\* A product that drops its high bits instead of saturating.
SaturatingMul_Wraps(x, y) == (x * y) % (IntMax + 1)

\* i64::saturating_mul on non-negative operands.
SaturatingMul(x, y) == Least(x * y, IntMax)

\* Multiplier without the positivity filter: the sign bit leaks through.
Multiplier_SignBit(exponent) ==
    IF exponent < WordBits - 1 THEN 2^exponent
    ELSE IF exponent = WordBits - 1 THEN -(2^exponent) ELSE IntMax

\* 1i64.checked_shl(exponent), kept when positive, else i64::MAX: a shift by
\* WordBits-1 lands on the sign bit and one by WordBits or more is refused.
Multiplier(exponent) ==
    IF exponent < WordBits - 1 THEN 2^exponent ELSE IntMax

\* retry_delay: the wait before the attempt after attempt number `attempt`.
RetryDelay(base, maximum, attempt) ==
    IF base = 0
    THEN 0
    ELSE Least(SaturatingMul(base, Multiplier(Greatest(attempt - 1, 0))), maximum)

\* Rounding a non-negative quotient half away from zero, as f64::round does.
Rounded(num, den) == (2 * num + den) \div (2 * den)

\* apply_jitter: the delays that some uniform draw can produce.  Without jitter
\* or delay the draw is not consulted.
Jittered(delay, jitter) ==
    IF jitter = 0 \/ delay = 0
    THEN {delay}
    ELSE Rounded((JitterDen - jitter) * delay, JitterDen) .. delay
=============================================================================
