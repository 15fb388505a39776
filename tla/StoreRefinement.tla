-------------------------- MODULE StoreRefinement --------------------------
(***************************************************************************)
(* The store implements Redis when commands on one key do not overlap: each *)
(* command takes effect at one of its steps, and nothing else (garbage     *)
(* collection, restarts, lazy expiry of live keys) is visible.             *)
(***************************************************************************)
EXTENDS Store

\* The value that metadata m and the subkey records recs encode.
Content(m, recs) ==
    CASE m.type = "string" -> m.val
      [] m.type = "hash" -> {<<r.field, r.val>> : r \in recs}
      [] m.type = "zset" -> {<<r.field, Number(decode_score(r.val))>> : r \in recs}
      [] m.type = "set" -> {r.field : r \in recs}
      [] m.type = "list" ->
            [i \in 1 .. m.tail - m.head |->
                (CHOOSE r \in recs : r.field = m.head + i - 1).val]

\* The value of a key that has none.
Nothing == [type |-> "none", content |-> NoVal, exp |-> 0]

(* SET takes effect when it drops the map entry: from then on the old        *)
(* structure may be collected.  A command that takes the last member takes   *)
(* effect with its batch; until logical_delete the metadata has no records.  *)
Value(k) ==
    IF Overwriting(k)
    THEN LET t == CHOOSE u \in Threads : Key(u) = k
         IN [type |-> "string", content |-> cmd[t].args.val, exp |-> cmd[t].exp]
    ELSE IF \/ metas[k] = NoMeta
            \/ metas[k].type # "string" /\ scan(k, metas[k].ver) = {}
    THEN Nothing
    ELSE [type |-> metas[k].type, content |-> Content(metas[k], scan(k, metas[k].ver)),
          exp |-> metas[k].exp]

Database == [k \in Keys |-> Value(k)]

Abstract == INSTANCE Redis WITH
    db <- Database,
    time <- now,
    Absent <- Nothing

\* What a command tells its client, from its metadata copy and the engine.
Reply(op, k, m, a) ==
    CASE op = "hset" -> hset_reply(k, m, a)
      [] op = "hdel" -> hdel_reply(k, m, a)
      [] op = "sadd" -> sadd_reply(k, m, a)
      [] op = "srem" -> srem_reply(k, m, a)
      [] op = "zadd" -> zadd_reply(k, m, a)
      [] op = "zrem" -> zrem_reply(k, m, a)
      [] op \in {"lpush", "rpush"} -> push_reply(m, a)
      [] op = "lpop" -> pop_reply(k, m, a.count, TRUE)
      [] op = "rpop" -> pop_reply(k, m, a.count, FALSE)

(* A command on a composite key tells its client what the abstract command   *)
(* would: counts are computed from records and metadata read one by one, and *)
(* popped elements come back in the order they left.                         *)
RepliesMatch ==
    \A t \in Threads : pc[t] = "exec" =>
        LET k == Key(t)
            op == cmd[t].op
            type == type_for(op)
            content == IF Value(k) = Nothing THEN Abstract!EmptyContent(type) ELSE Value(k).content
            answer == Abstract!Answer(op, content, cmd[t].args)
        IN  Reply(op, k, mem[t], cmd[t].args)
                = IF op \in {"lpop", "rpop"} THEN [i \in DOMAIN answer |-> {answer[i]}] ELSE answer

(* Every behaviour of the store is a behaviour of the abstract key map.      *)
ImplementsRedis == Abstract!Spec
=============================================================================
