------------------------------ MODULE StoreSet ------------------------------
(***************************************************************************)
(* Sets: one subkey with an empty value per member, the member count in    *)
(* the metadata.                                                           *)
(***************************************************************************)
EXTENDS StoreBase

\* What the handlers of SADD and SREM hand on.
sadd_args == NonEmptySeq(Fields)
srem_args == NonEmptySeq(Fields)

\* Fault: a member repeated in the call is counted again.
sadd_recounting(k, m, members) ==
    LET added == {i \in DOMAIN members : ~has(k, m.ver, members[i])}
    IN  IF added = {} THEN NoWrite
        ELSE Write(Puts([m EXCEPT !.cnt = m.cnt + Cardinality(added)],
                        {Sub(k, m.ver, members[i], NoVal) : i \in added}, {}, {}))

\* sadd skips a member it has seen in the call, and writes only if one is new.
sadd(k, m, members) ==
    LET added == {x \in {members[i] : i \in DOMAIN members} : ~has(k, m.ver, x)}
    IN  IF added = {} THEN NoWrite
        ELSE Write(Puts([m EXCEPT !.cnt = m.cnt + Cardinality(added)],
                        {Sub(k, m.ver, x, NoVal) : x \in added}, {}, {}))

srem(k, m, members) ==
    LET removed == {x \in {members[i] : i \in DOMAIN members} : has(k, m.ver, x)}
    IN  Shrink(m, Cardinality(removed),
               Dels({r \in scan(k, m.ver) : r.field \in removed}, {}))

\* What sadd and srem return.
sadd_reply(k, m, members) ==
    Cardinality({x \in {members[i] : i \in DOMAIN members} : ~has(k, m.ver, x)})
srem_reply(k, m, members) ==
    Cardinality({x \in {members[i] : i \in DOMAIN members} : has(k, m.ver, x)})

\* The reads.
smembers(k) ==
    IF Holds(k, "set") THEN {r.field : r \in scan(k, metas[k].ver)} ELSE {}

scard(k) == IF Holds(k, "set") THEN metas[k].cnt ELSE 0

sismember(k, x) == Holds(k, "set") /\ has(k, metas[k].ver, x)

-----------------------------------------------------------------------------
(* Between commands SCARD is the number of members SMEMBERS returns, the     *)
(* members are exactly those SISMEMBER accepts, and no set is empty.         *)
SetAgrees(k) ==
    /\ scard(k) = Cardinality(smembers(k))
    /\ smembers(k) = {x \in Fields : sismember(k, x)}
    /\ Holds(k, "set") => scard(k) > 0
=============================================================================
