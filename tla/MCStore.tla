------------------------------ MODULE MCStore ------------------------------
(***************************************************************************)
(* Small instances of Store: the arguments clients pass in each run.       *)
(***************************************************************************)
EXTENDS Store, TLC

None == [op \in Ops |-> {}]
Call == {<<>>}
Pair(f, v) == [field |-> f, val |-> v]
Scored(x, s) == [score |-> s, member |-> x]
One(S) == {<<x>> : x \in S}
Two(S) == {<<x, y>> : x, y \in S}
SetTo(ttls) == {[val |-> v, ttl |-> d] : v \in Values, d \in ttls}
Expire(ttls) == {[ttl |-> d] : d \in ttls}
Count(S) == {[count |-> n] : n \in S}

Generic == [None EXCEPT !["read"] = Call, !["del"] = Call]

\* Two values, if the instance has two.
First == CHOOSE v \in Values : TRUE
Second == CHOOSE v \in Values : v = First => Values = {First}

HashPairs == {Pair(f, v) : f \in Fields, v \in Values}
ZSetPairs(scores) == {Scored(x, s) : x \in Fields, s \in scores}

\* Every type on one key, so that commands meet the wrong type: members
\* repeated in one call, a sorted-set member given two scores in one call,
\* deadlines in the past, pushes and pops of one and two values.
MixedArgs == [Generic EXCEPT
    !["set"] = {[val |-> First, ttl |-> d] : d \in {0, 1}}, !["flush"] = Call, !["expire"] = Expire({-1, 1}),
    !["hset"] = {<<Pair(1, First), Pair(2, Second)>>, <<Pair(2, First)>>}, !["hdel"] = One(Fields),
    !["sadd"] = Two(Fields), !["srem"] = One(Fields),
    !["zadd"] = {s \in Two(ZSetPairs({0, SignBit + 1})) : s[1].score < s[2].score}, !["zrem"] = One(Fields),
    !["lpush"] = {<<First, Second>>}, !["rpush"] = {<<First>>},
    !["lpop"] = Count({1}), !["rpop"] = Count({2})]

\* A sorted set whose members move between all scores, both zeros and negative
\* ones among them, two in one call, and a string over it.
ZSetArgs == [None EXCEPT
    !["set"] = SetTo({0}), !["del"] = Call, !["zrem"] = One(Fields) \cup {<<1, 2, 1>>},
    !["zadd"] = One(ZSetPairs(Scores))
        \cup {s \in Two(ZSetPairs(Scores)) : s[1].score > s[2].score}]

\* Two keys at once: composites with and without an index, strings, deadlines
\* before the epoch and FLUSH.
TwoKeyArgs == [Generic EXCEPT
    !["set"] = SetTo({0}), !["flush"] = Call, !["expire"] = Expire({-2, 1}),
    !["hset"] = One(HashPairs), !["zadd"] = One({Scored(x, 0) : x \in Fields}),
    !["zrem"] = One(Fields)]

\* A hash and a sorted set that come and go, and strings over them.
FaultArgs == [TwoKeyArgs EXCEPT !["expire"] = Expire({1}), !["hdel"] = One(Fields)]

\* Only commands whose write is one batch; the scores are -0.0 and the one
\* above 0.0.
OneBatchArgs == [None EXCEPT !["del"] = Call,
    !["flush"] = Call, !["expire"] = Expire({1}), !["hset"] = {<<Pair(1, First)>>},
    !["zadd"] = One(ZSetPairs({1, SignBit})), !["rpush"] = {<<First>>}]

\* Commands that draw a version, replace, keep or remove what has one.
VersionArgs == [None EXCEPT
    !["set"] = SetTo({0}), !["hset"] = One(HashPairs), !["expire"] = Expire({1}),
    !["flush"] = Call]

\* One field named twice in a call.
HashRepeat == [None EXCEPT !["hset"] = {<<p, p>> : p \in HashPairs}]

HashOnly == [None EXCEPT !["hset"] = One(HashPairs)]
HashDel == [HashOnly EXCEPT !["del"] = Call]
ReadSet == [None EXCEPT !["read"] = Call, !["set"] = SetTo({0, 1})]
PushPop == [None EXCEPT !["rpush"] = One(Values), !["lpop"] = Count({1})]

Sym == Permutations(Keys) \cup Permutations(Values) \cup Permutations(Threads)
=============================================================================
