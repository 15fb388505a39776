------------------------------- MODULE Redis -------------------------------
(***************************************************************************)
(* What the store promises its clients: a map from keys to typed values,   *)
(* each command one atomic change of it.  No versions, no records, no      *)
(* version map, no compaction, no restart.                                 *)
(*                                                                         *)
(* A value is a type, its content and a deadline (0 for none).  The content *)
(* of a hash is a set of <<field, value>>, of a sorted set of              *)
(* <<member, number>>, of a set the members, of a list the sequence of its  *)
(* elements.  A value past its deadline may be dropped at any moment; a    *)
(* command that began before the deadline may still work on it.            *)
(***************************************************************************)
EXTENDS Scores, FiniteSets, Sequences, SequencesExt

CONSTANTS Keys, Values, Args, Absent

VARIABLES db, time

EmptyContent(type) == IF type = "list" THEN <<>> ELSE {}

\* The fields or members of a content of pairs.
Members(c) == {p[1] : p \in c}

\* The pairs of a call: of several for one field or member the last counts.
FieldPairs(a) ==
    {<<a[i].field, a[i].val>> : i \in
        {i \in DOMAIN a : \A j \in DOMAIN a : a[j].field = a[i].field => j <= i}}

MemberPairs(a) ==
    {<<a[i].member, Number(a[i].score)>> : i \in
        {i \in DOMAIN a : \A j \in DOMAIN a : a[j].member = a[i].member => j <= i}}

\* New pairs replace what their fields or members had.
Bind(c, new) == {p \in c : p[1] \notin Members(new)} \cup new

TypeOfOp(op) ==
    CASE op \in {"hset", "hdel"} -> "hash"
      [] op \in {"sadd", "srem"} -> "set"
      [] op \in {"zadd", "zrem"} -> "zset"
      [] op \in {"lpush", "rpush", "lpop", "rpop"} -> "list"

Least(a, b) == IF a < b THEN a ELSE b

\* The content after a command on a content of its type.
Apply(op, c, a) ==
    CASE op = "hset" -> Bind(c, FieldPairs(a))
      [] op = "zadd" -> Bind(c, MemberPairs(a))
      [] op = "sadd" -> c \cup ToSet(a)
      [] op \in {"hdel", "zrem"} -> {p \in c : p[1] \notin ToSet(a)}
      [] op = "srem" -> c \ ToSet(a)
      [] op = "lpush" -> Reverse(a) \o c
      [] op = "rpush" -> c \o a
      [] op = "lpop" -> SubSeq(c, Least(a.count, Len(c)) + 1, Len(c))
      [] op = "rpop" -> SubSeq(c, 1, Len(c) - Least(a.count, Len(c)))

\* What the client is told about a command on a content of its type: how many
\* fields or members are new or were removed, the new length, the elements.
Answer(op, c, a) ==
    CASE op = "hset" -> Cardinality({a[i].field : i \in DOMAIN a} \ Members(c))
      [] op = "zadd" -> Cardinality({a[i].member : i \in DOMAIN a} \ Members(c))
      [] op = "sadd" -> Cardinality(ToSet(a) \ c)
      [] op \in {"hdel", "zrem"} -> Cardinality(ToSet(a) \cap Members(c))
      [] op = "srem" -> Cardinality(ToSet(a) \cap c)
      [] op \in {"lpush", "rpush"} -> Len(c) + Len(a)
      [] op = "lpop" -> SubSeq(c, 1, Least(a.count, Len(c)))
      [] op = "rpop" -> SubSeq(Reverse(c), 1, Least(a.count, Len(c)))

Becomes(k, v) == db' = [db EXCEPT ![k] = v] /\ UNCHANGED time

Set(k) ==
    \E a \in Args["set"] :
        /\ db'[k] # Absent
        /\ Becomes(k, [type |-> "string", content |-> a.val, exp |-> db'[k].exp])
        /\ (a.ttl = 0) <=> (db'[k].exp = 0)

Del(k) == Args["del"] # {} /\ db[k] # Absent /\ Becomes(k, Absent)

ExpireAt(k) ==
    /\ Args["expire"] # {}
    /\ db[k] # Absent /\ db'[k] # Absent
    /\ Becomes(k, [db[k] EXCEPT !.exp = db'[k].exp])
    /\ db'[k].exp > 0

\* A creator works on a missing key too; a key left empty is gone.
Update(k, op) ==
    \E a \in Args[op] :
        LET type == TypeOfOp(op)
            old == IF db[k] = Absent
                   THEN [type |-> type, content |-> EmptyContent(type), exp |-> 0]
                   ELSE db[k]
            new == Apply(op, old.content, a)
        IN  /\ old.type = type
            /\ Becomes(k, IF new = EmptyContent(type) THEN Absent
                          ELSE [old EXCEPT !.content = new])

Reap(k) ==
    /\ db[k] # Absent
    /\ db[k].exp # 0 /\ time >= db[k].exp
    /\ Becomes(k, Absent)

FlushAll == Args["flush"] # {} /\ db' = [k \in Keys |-> Absent] /\ UNCHANGED time

TimePasses == time' >= time /\ UNCHANGED db

Updates == {"hset", "hdel", "sadd", "srem", "zadd", "zrem", "lpush", "rpush",
            "lpop", "rpop"}

Init == db = [k \in Keys |-> Absent] /\ time = 1

Next ==
    \/ \E k \in Keys :
          \/ Set(k) \/ Del(k) \/ ExpireAt(k) \/ Reap(k)
          \/ \E op \in Updates : Update(k, op)
    \/ FlushAll
    \/ TimePasses

Spec == Init /\ [][Next]_<<db, time>>
=============================================================================
