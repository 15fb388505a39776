----------------------------- MODULE StoreList -----------------------------
(***************************************************************************)
(* Lists: one subkey per element whose field is its index, the bounds      *)
(* [head, tail) in the metadata.                                           *)
(***************************************************************************)
EXTENDS StoreBase, Ranges

\* What the handlers of LPUSH, RPUSH, LPOP and RPOP hand on; a negative count
\* is refused.
push_args == NonEmptySeq(Values)
pop_args == [count : Nat]

\* Fault: a left push overwrites the head.
push_on_head(k, m, values, left) ==
    LET n == Len(values)
        at(i) == IF left THEN m.head - i + 1 ELSE m.tail + i - 1
    IN  Write(Puts(IF left THEN [m EXCEPT !.head = m.head - n]
                           ELSE [m EXCEPT !.tail = m.tail + n],
                   {Sub(k, m.ver, at(i), values[i]) : i \in 1..n}, {}, {}))

\* The body of push: each value in turn takes the next index at its end.
push(k, m, values, left) ==
    LET n == Len(values)
        at(i) == IF left THEN m.head - i ELSE m.tail + i - 1
    IN  Write(Puts(IF left THEN [m EXCEPT !.head = m.head - n]
                           ELSE [m EXCEPT !.tail = m.tail + n],
                   {Sub(k, m.ver, at(i), values[i]) : i \in 1..n}, {}, {}))

\* The body of pop: up to count elements leave one end; an element record that
\* is missing is a corruption error, and nothing is written.
pop(k, m, count, left) ==
    LET len == m.tail - m.head
        n == IF count < len THEN count ELSE len
        popped == IF left THEN m.head .. m.head + n - 1 ELSE m.tail - n .. m.tail - 1
        rest == IF left THEN [m EXCEPT !.head = m.head + n]
                        ELSE [m EXCEPT !.tail = m.tail - n]
        batch == Dels({r \in scan(k, m.ver) : r.field \in popped}, {})
    IN  IF popped = {} \/ \E i \in popped : ~has(k, m.ver, i) THEN NoWrite
        ELSE IF n = len THEN WriteLast(batch)
        ELSE Write([batch EXCEPT !.mput = rest])

\* What push returns.
push_reply(m, values) == m.tail - m.head + Len(values)

\* Fault: a right pop returns its elements from left to right.
pop_reply_forward(k, m, count, left) ==
    LET len == m.tail - m.head
        n == IF count < len THEN count ELSE len
        at(i) == IF left THEN m.head + i - 1 ELSE m.tail - n + i - 1
    IN  [i \in 1..n |-> {r.val : r \in {r \in scan(k, m.ver) : r.field = at(i)}}]

\* What pop returns: the element records in the order they were taken, each as
\* a set, an empty one being the corruption error.
pop_reply(k, m, count, left) ==
    LET len == m.tail - m.head
        n == IF count < len THEN count ELSE len
        at(i) == IF left THEN m.head + i - 1 ELSE m.tail - i
    IN  [i \in 1..n |-> {r.val : r \in {r \in scan(k, m.ver) : r.field = at(i)}}]

-----------------------------------------------------------------------------
(* The reads. *)

llen(k) == IF Holds(k, "list") THEN metas[k].tail - metas[k].head ELSE 0

\* The value at an index, as a set: empty is the corruption error.
element(k, i) == {r.val : r \in {r \in scan(k, metas[k].ver) : r.field = i}}

\* lrange: one element lookup per offset of the normalised range.
lrange(k, start, stop) ==
    LET range == normalize_range(start, stop, llen(k))
    IN  IF range = NoRange THEN <<>>
        ELSE [o \in 1 .. range[2] - range[1] + 1 |->
                 element(k, metas[k].head + range[1] + o - 1)]

-----------------------------------------------------------------------------
(* Between commands the elements of a list sit at exactly the indexes        *)
(* head .. tail - 1, one value each, so LRANGE 0 -1 never meets a missing    *)
(* element and LLEN is its length; no list is empty.                         *)
ListDense(k) ==
    Holds(k, "list") =>
        /\ llen(k) > 0
        /\ {r.field : r \in scan(k, metas[k].ver)} = metas[k].head .. metas[k].tail - 1
        /\ Len(lrange(k, 0, -1)) = llen(k)
        /\ \A i \in 1 .. llen(k) : Cardinality(lrange(k, 0, -1)[i]) = 1
=============================================================================
