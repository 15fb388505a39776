------------------------------- MODULE Scores -------------------------------
(***************************************************************************)
(* Sorted-set scores and their order-preserving encoding.                  *)
(*                                                                         *)
(* A score is the bit pattern of a float: a sign bit above a magnitude.    *)
(* Magnitudes of finite and infinite floats are ordered like the numbers   *)
(* they stand for, so a magnitude is its own value here; a pattern with    *)
(* the sign bit is its negation.  Zero has two patterns.  ZADD refuses the *)
(* patterns that are no number, so none is left out.                       *)
(***************************************************************************)
EXTENDS Integers

CONSTANT SignBit         \* 1 << 63

ASSUME SignBitAssumption == SignBit \in Nat \ {0}

Scores == 0 .. 2 * SignBit - 1

\* The number a score stands for; the comparisons of f64 compare these.
Number(score) == IF score >= SignBit THEN SignBit - score ELSE score

\* encode_score: negative patterns are complemented, the others get the sign
\* bit; the result is compared as an unsigned big-endian integer.
encode_score(score) ==
    IF score >= SignBit THEN 2 * SignBit - 1 - score ELSE score + SignBit

\* Fault: negative codes get the sign bit back but are not complemented.
decode_score_flip(code) == (code + SignBit) % (2 * SignBit)

decode_score(code) ==
    IF code >= SignBit THEN code - SignBit ELSE 2 * SignBit - 1 - code

-----------------------------------------------------------------------------
(* The codec loses nothing, and the order of codes is the order of numbers,  *)
(* except that it tells the two zeros apart.                                 *)
CodecOrders(s, t) ==
    /\ decode_score(encode_score(s)) = s
    /\ Number(s) < Number(t) => encode_score(s) < encode_score(t)
    /\ encode_score(s) < encode_score(t) => Number(s) <= Number(t)
    /\ encode_score(s) = encode_score(t) => s = t
=============================================================================
