----------------------------- MODULE StoreHash -----------------------------
(***************************************************************************)
(* Hashes: one subkey per field holding its value, the field count in the  *)
(* metadata.                                                               *)
(***************************************************************************)
EXTENDS StoreBase

\* What the handlers of HSET, HMSET and HDEL hand on.
hset_args == NonEmptySeq([field : Fields, val : Values])
hdel_args == NonEmptySeq(Fields)

\* Fault: every pair counts as a new field.
hset_recounting(k, m, pairs) ==
    Write(Puts([m EXCEPT !.cnt = m.cnt + Len(pairs)],
               {Sub(k, m.ver, pairs[i].field, pairs[i].val) : i \in DOMAIN pairs}, {}, {}))

\* The body of hset.  A field counts as new for every pair that names it and
\* does not find it on disk; of several pairs for one field the last is stored.
hset(k, m, pairs) ==
    LET created == {i \in DOMAIN pairs : ~has(k, m.ver, pairs[i].field)}
        final == {i \in DOMAIN pairs : \A j \in DOMAIN pairs :
                      j > i => pairs[j].field # pairs[i].field}
    IN  Write(Puts([m EXCEPT !.cnt = m.cnt + Cardinality(created)],
                   {Sub(k, m.ver, pairs[i].field, pairs[i].val) : i \in final}, {}, {}))

\* The body of hdel, which counts a field once for every time it is named.
hdel(k, m, fields) ==
    LET removed == {i \in DOMAIN fields : has(k, m.ver, fields[i])}
    IN  Shrink(m, Cardinality(removed),
               Dels({r \in scan(k, m.ver) : \E i \in removed : fields[i] = r.field}, {}))

\* What hset and hdel return: the pairs that found no field, the names that
\* found one.
hset_reply(k, m, pairs) == Cardinality({i \in DOMAIN pairs : ~has(k, m.ver, pairs[i].field)})
hdel_reply(k, m, fields) == Cardinality({i \in DOMAIN fields : has(k, m.ver, fields[i])})

\* The reads.
hgetall(k) ==
    IF Holds(k, "hash")
    THEN {<<r.field, r.val>> : r \in scan(k, metas[k].ver)} ELSE {}

hlen(k) == IF Holds(k, "hash") THEN metas[k].cnt ELSE 0

hexists(k, f) == Holds(k, "hash") /\ has(k, metas[k].ver, f)

-----------------------------------------------------------------------------
(* Between commands HLEN is the number of fields HGETALL returns and HEXISTS *)
(* finds, and a hash that exists has at least one field.                     *)
HashAgrees(k) ==
    /\ hlen(k) = Cardinality(hgetall(k))
    /\ hlen(k) = Cardinality({f \in Fields : hexists(k, f)})
    /\ Holds(k, "hash") => hlen(k) > 0
=============================================================================
