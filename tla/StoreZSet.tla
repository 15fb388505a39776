----------------------------- MODULE StoreZSet -----------------------------
(***************************************************************************)
(* Sorted sets: a member subkey holding the encoded score, and a score-index *)
(* record ordered by encoded score and member; the member count in the     *)
(* metadata.                                                               *)
(***************************************************************************)
EXTENDS StoreBase, Ranges, Scores

\* What the handlers of ZADD and ZREM hand on; a score that is not a number is
\* refused.
zadd_args == NonEmptySeq([score : Scores, member : Fields])
zrem_args == NonEmptySeq(Fields)

\* engine.get on a member subkey, as the set of the records it finds.
Stored(k, ver, member) == {r \in scan(k, ver) : r.field = member}

\* decode_stored_score fails on the record of a member: it was written for
\* another type. The command ends with a corruption error and writes nothing.
undecodable(k, ver, members) ==
    \E r \in scan(k, ver) : r.field \in members /\ r.val \notin Scores

\* Fault: of several pairs for one member the first counts.
effective_first(pairs) ==
    {pairs[i] : i \in {i \in DOMAIN pairs :
        \A j \in DOMAIN pairs : j < i => pairs[j].member # pairs[i].member}}

\* Of several pairs for one member in a call the last counts.
effective(pairs) ==
    {pairs[i] : i \in {i \in DOMAIN pairs :
        \A j \in DOMAIN pairs : j > i => pairs[j].member # pairs[i].member}}

\* Fault: the old index record is left behind.
stale_index_none(k, ver, moved) == {}

\* The index records of the members that change their score.
stale_index(k, ver, moved) ==
    {Idx(k, ver, r.val, r.field) : r \in UNION {Stored(k, ver, p.member) : p \in moved}}

\* old_score == score, a comparison of floats, to which the two zeros are equal.
same_score(code, score) == Number(decode_score(code)) = Number(score)

\* The body of zadd.  A member that already has the score is left alone; one
\* that has another score loses the index record of its old score.
zadd(k, m, pairs) ==
    LET old(p) == Stored(k, m.ver, p.member)
        added == {p \in effective(pairs) : old(p) = {}}
        moved == {p \in effective(pairs) : \E r \in old(p) : ~same_score(r.val, p.score)}
        put == added \cup moved
    IN  IF undecodable(k, m.ver, {p.member : p \in effective(pairs)}) \/ put = {} THEN NoWrite
        ELSE Write(Puts([m EXCEPT !.cnt = m.cnt + Cardinality(added)],
                        {Sub(k, m.ver, p.member, encode_score(p.score)) : p \in put},
                        {Idx(k, m.ver, encode_score(p.score), p.member) : p \in put},
                        stale_index(k, m.ver, moved)))

\* The body of zrem: both records of a member go.
zrem(k, m, members) ==
    LET removed == {x \in {members[i] : i \in DOMAIN members} : has(k, m.ver, x)}
        recs == {r \in scan(k, m.ver) : r.field \in removed}
    IN  IF undecodable(k, m.ver, removed) THEN NoWrite
        ELSE Shrink(m, Cardinality(removed),
                    Dels(recs, {Idx(k, m.ver, r.val, r.field) : r \in recs}))

\* What zadd and zrem return: the members that are new, those removed.
zadd_reply(k, m, pairs) == Cardinality({p \in effective(pairs) : Stored(k, m.ver, p.member) = {}})
zrem_reply(k, m, members) ==
    Cardinality({x \in {members[i] : i \in DOMAIN members} : has(k, m.ver, x)})

-----------------------------------------------------------------------------
(* The reads. *)

zcard(k) == IF Holds(k, "zset") THEN metas[k].cnt ELSE 0

\* zscore by member, as the set of its scores (at most one).
zscore(k, x) ==
    IF Holds(k, "zset")
    THEN {decode_score(r.val) : r \in Stored(k, metas[k].ver, x)} ELSE {}

\* The key order of score-index records.
Before(r, s) == r.score < s.score \/ (r.score = s.score /\ r.member < s.member)

\* zrange: the index records whose rank is in the normalised range, which is
\* computed from the member count.
zrange(k, start, stop) ==
    LET recs == scan_index(k, metas[k].ver)
        rank(r) == Cardinality({s \in recs : Before(s, r)})
        range == normalize_range(start, stop, metas[k].cnt)
    IN  IF ~Holds(k, "zset") \/ range = NoRange THEN {}
        ELSE {<<r.member, decode_score(r.score)>> :
                 r \in {r \in recs : range[1] <= rank(r) /\ rank(r) <= range[2]}}

\* zrange_by_score with the two exclusive flags: the scan stops at the first
\* record beyond the upper bound.
zrange_by_score(k, min, minExclusive, max, maxExclusive) ==
    LET recs == scan_index(k, metas[k].ver)
        number(r) == Number(decode_score(r.score))
        beyond(r) == number(r) > Number(max) \/ (maxExclusive /\ number(r) = Number(max))
        below(r) == number(r) < Number(min) \/ (minExclusive /\ number(r) = Number(min))
        scanned == {r \in recs : \A s \in recs : s = r \/ Before(s, r) => ~beyond(s)}
    IN  IF ~Holds(k, "zset") THEN {}
        ELSE {<<r.member, decode_score(r.score)>> : r \in {r \in scanned : ~below(r)}}

-----------------------------------------------------------------------------
(* Between commands the two encodings of a sorted set tell the same story:   *)
(* ZRANGE 0 -1 returns every member once with the score ZSCORE gives, ZCARD  *)
(* counts them, and no sorted set is empty.                                  *)
ZSetAgrees(k) ==
    /\ zrange(k, 0, -1) = UNION {{<<x, s>> : s \in zscore(k, x)} : x \in Fields}
    /\ zcard(k) = Cardinality(zrange(k, 0, -1))
    /\ zcard(k) = Cardinality({x \in Fields : zscore(k, x) # {}})
    /\ Holds(k, "zset") => zcard(k) > 0

(* ZRANGE by rank splits a sorted set by score: the members of the first     *)
(* ranks have the lowest numbers.                                            *)
RankAgrees(k) ==
    \A i \in 0 .. zcard(k) - 1 :
        LET first == zrange(k, 0, i)
            rest == zrange(k, i + 1, -1)
        IN  /\ Cardinality(first) = i + 1
            /\ \A p \in first, q \in rest : Number(p[2]) <= Number(q[2])

(* ZRANGEBYSCORE returns exactly the members whose ZSCORE lies between the   *)
(* bounds as a number, whichever zero was stored and whichever is asked for. *)
ScoreRangeExact(k) ==
    Holds(k, "zset") =>
        \A min, max \in Scores : \A minExclusive, maxExclusive \in BOOLEAN :
            LET inside(n) ==
                    /\ IF minExclusive THEN n > Number(min) ELSE n >= Number(min)
                    /\ IF maxExclusive THEN n < Number(max) ELSE n <= Number(max)
            IN  zrange_by_score(k, min, minExclusive, max, maxExclusive)
                    = UNION {{<<x, s>> : s \in {s \in zscore(k, x) : inside(Number(s))}} :
                                x \in Fields}
=============================================================================
