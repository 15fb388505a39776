------------------------------- MODULE Ranges -------------------------------
(***************************************************************************)
(* The rank arithmetic ZRANGE and LRANGE share.                            *)
(***************************************************************************)
EXTENDS Integers

NoRange == <<>>

\* Fault: the upper rank is taken as exclusive.
normalize_range_exclusive(start, stop, len) ==
    LET lo0 == IF start < 0 THEN start + len ELSE start
        hi0 == IF stop < 0 THEN stop + len ELSE stop
        lo == IF lo0 < 0 THEN 0 ELSE lo0
        hi == IF hi0 > len THEN len ELSE hi0
    IN  IF len <= 0 \/ lo >= hi THEN NoRange ELSE <<lo, hi - 1>>

\* normalize_range: negative ranks count from the end, both ends are clamped.
normalize_range(start, stop, len) ==
    LET lo0 == IF start < 0 THEN start + len ELSE start
        hi0 == IF stop < 0 THEN stop + len ELSE stop
        lo == IF lo0 < 0 THEN 0 ELSE lo0
        hi == IF hi0 > len - 1 THEN len - 1 ELSE hi0
    IN  IF len <= 0 \/ lo > hi THEN NoRange ELSE <<lo, hi>>

-----------------------------------------------------------------------------
\* The offset a Redis rank denotes in a collection of len elements.
Offset(rank, len) == IF rank < 0 THEN len + rank ELSE rank

(* For every start, stop and len the normalised range holds exactly the      *)
(* elements between the two ranks, both included; NoRange means there are    *)
(* none.                                                                     *)
SelectsInclusive(start, stop, len) ==
    LET range == normalize_range(start, stop, len)
        wanted(o) == 0 <= o /\ o < len /\ Offset(start, len) <= o /\ o <= Offset(stop, len)
    IN  IF range = NoRange
        THEN \A o \in 0 .. len - 1 : ~wanted(o)
        ELSE /\ \A o \in 0 .. len - 1 : wanted(o) <=> (range[1] <= o /\ o <= range[2])
             /\ 0 <= range[1] /\ range[1] <= range[2] /\ range[2] < len
=============================================================================
