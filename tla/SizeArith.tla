----------------------------- MODULE SizeArith ------------------------------
(***************************************************************************)
(* The arithmetic of size_t: the wrapping tests of macros.h and the        *)
(* rounding to powers of two of math.c, for any width.                     *)
(***************************************************************************)
EXTENDS Integers

CONSTANTS
    SizeMax,    \* SIZE_MAX
    Powers      \* the powers of two that a size_t holds

ASSUME SizeAssumption ==
    /\ SizeMax \in Nat /\ SizeMax > 1
    /\ 1 \in Powers
    /\ \A p \in Powers :
         /\ p \in 1 .. SizeMax
         /\ 2 * p \in Powers \/ 2 * p = SizeMax + 1
    /\ \A p, q \in Powers : p < q => 2 * p <= q
    /\ \A x \in 1 .. SizeMax : \E p \in Powers : p <= x /\ x < 2 * p

Size == 0 .. SizeMax

\* What is left of a natural number in a size_t.
Wrap(x) == x % (SizeMax + 1)

\* W_UINT_IS_ADD_WRAPPING, W_UINT_IS_MUL_WRAPPING.
IsAddWrapping(x, y) == x > SizeMax - y
IsMulWrapping(x, y) == x # 0 /\ y # 0 /\ x > SizeMax \div y

\* W_ROUND_DOWN_POW2: 1 << W_ILOG2(x).
RoundDownPow2(x) ==
    IF x = 0 THEN 0 ELSE CHOOSE p \in Powers : p <= x /\ x < 2 * p

\* W_ROUND_UP_POW2, for a rounding that does not wrap.
RoundUpPow2(x) == IF x < 2 THEN x ELSE 2 * RoundDownPow2(x - 1)

\* W_IS_ROUND_UP_POW2_WRAPPING.
IsRoundUpPow2Wrapping(x) ==
    x \notin Powers /\ RoundDownPow2(x) > SizeMax \div 2

\* w_size_round_up_pow2(): 1 is shifted by the number of bits of x - 1.  For 0,
\* and where the rounding wraps, that is the width of the type, which the
\* language leaves undefined: processors shift by nothing or all of it out.
w_size_round_up_pow2(x) ==
    IF x = 0 \/ IsRoundUpPow2Wrapping(x) THEN {0, 1} ELSE {RoundUpPow2(x)}

=============================================================================
