------------------------------- MODULE Store -------------------------------
(***************************************************************************)
(* The store: every command of every type over the shared engine and the   *)
(* shared version map.                                                     *)
(***************************************************************************)
EXTENDS StoreHash, StoreSet, StoreZSet, StoreList

\* What each operation takes from the client.
ASSUME ArgsAssumption ==
    /\ DOMAIN Args = Ops
    /\ Args["set"] \subseteq set_args /\ Args["expire"] \subseteq expire_args
    /\ Args["hset"] \subseteq hset_args /\ Args["hdel"] \subseteq hdel_args
    /\ Args["sadd"] \subseteq sadd_args /\ Args["srem"] \subseteq srem_args
    /\ Args["zadd"] \subseteq zadd_args /\ Args["zrem"] \subseteq zrem_args
    /\ Args["lpush"] \subseteq push_args /\ Args["rpush"] \subseteq push_args
    /\ Args["lpop"] \subseteq pop_args /\ Args["rpop"] \subseteq pop_args

\* The body of a composite command, from its metadata copy and the engine.
Plan(op, k, m, a) ==
    CASE op = "hset" -> hset(k, m, a)
      [] op = "hdel" -> hdel(k, m, a)
      [] op = "sadd" -> sadd(k, m, a)
      [] op = "srem" -> srem(k, m, a)
      [] op = "zadd" -> zadd(k, m, a)
      [] op = "zrem" -> zrem(k, m, a)
      [] op = "lpush" -> push(k, m, a, TRUE)
      [] op = "rpush" -> push(k, m, a, FALSE)
      [] op = "lpop" -> pop(k, m, a.count, TRUE)
      [] op = "rpop" -> pop(k, m, a.count, FALSE)

\* The reads of the body and the batch it builds.
Exec(t) ==
    LET plan == Plan(cmd[t].op, Key(t), mem[t], cmd[t].args) IN
    /\ pc[t] = "exec"
    /\ IF plan.to = "idle"
       THEN Finish(t)
       ELSE /\ Goto(t, plan.to)
            /\ mem' = [mem EXCEPT ![t] = NoMeta]
            /\ wb' = [wb EXCEPT ![t] = plan.batch]
            /\ UNCHANGED cmd
    /\ UNCHANGED <<disk, versions, clock, now, boot, todo>>

Start(t) ==
    \E op \in Ops : \E k \in Keys \cup {NoKey} : \E a \in Args[op] : Begin(t, op, k, a)

Step(t) ==
    \/ LoadMissing(t) \/ LoadExpired(t) \/ LoadFound(t)
    \/ DeleteMeta(t) \/ ForgetVersion(t)
    \/ Overwrite(t) \/ Alloc(t) \/ Register(t) \/ PutMeta(t)
    \/ Exec(t) \/ Commit(t)
    \/ FlushMeta(t) \/ FlushSub(t) \/ FlushIdx(t) \/ FlushWrite(t) \/ FlushClear(t)

Boot == install_gc \/ (\E k \in Keys : RebuildKey(k)) \/ Serve

Next ==
    \/ \E t \in Threads : Start(t) \/ Step(t) \/ WriteFails(t)
    \/ CompactionDrop \/ compact
    \/ Restart \/ Boot
    \/ Tick

Spec == Init /\ [][Next]_vars

-----------------------------------------------------------------------------
(* The version map and the compaction filter. *)

\* The entry a key should have in the version map.
CurrentVersion(k) ==
    IF metas[k] # NoMeta /\ metas[k].type \in Composite THEN metas[k].ver ELSE 0

(* The version map is the map of user_key to current structure version: for  *)
(* every key no command is working on, its entry is the version of the       *)
(* persisted composite, and there is no entry for a string or a missing key. *)
(* It has to survive restarts, which rebuild it from metadata.               *)
VersionMapExact ==
    boot = "serving" => \A k \in Keys : Quiet(k) => versions[k] = CurrentVersion(k)

\* A record the metadata of its key refers to.
Owned(r) ==
    /\ metas[r.key] # NoMeta
    /\ metas[r.key].type \in Composite
    /\ metas[r.key].ver = r.ver

(* Whenever a compaction may run, the filter keeps every record some metadata *)
(* refers to, in the middle of commands too; the one exception is a key a    *)
(* SET is about to overwrite.                                                *)
LiveRecordsKept ==
    GcActive =>
        /\ \A r \in subs : Owned(r) /\ ~Overwriting(r.key) => should_keep(r)
        /\ \A r \in index : Owned(r) /\ ~Overwriting(r.key) => should_keep(r)

(* A record the filter would drop is never wanted again while the process    *)
(* lives, so it does not matter when the drop decided by should_keep takes   *)
(* effect.                                                                   *)
GarbageStays ==
    [][GcActive /\ GcActive' =>
          /\ \A r \in subs \cap subs' : ~should_keep(r) => ~should_keep(r)'
          /\ \A r \in index \cap index' : ~should_keep(r) => ~should_keep(r)']_vars

(* After COMPACT no record of a deleted, replaced or rebuilt structure is     *)
(* left, except for keys a command is working on.                            *)
CompactReclaims ==
    [][compact =>
          /\ \A r \in subs' : Quiet(r.key) => Owned(r)
          /\ \A r \in index' : Quiet(r.key) => Owned(r)
          /\ dbsize = 0 /\ (\A k \in Keys : Quiet(k)) => raw_subkey_count' = 0]_vars

(* The records of a deleted or replaced structure never become part of a key *)
(* again: a rebuilt key has a version no old record carries.                 *)
NoResurrection ==
    [][/\ \A r \in subs \cap subs' : ~Owned(r) => ~Owned(r)'
       /\ \A r \in index \cap index' : ~Owned(r) => ~Owned(r)']_vars

(* A version a thread has drawn and not yet written is its alone, however    *)
(* commands overlap: no record, no metadata and no other thread carries it.  *)
FreshVersion ==
    \A t \in Threads : pc[t] \in {"register", "put"} /\ cmd[t].op # "expire" =>
        /\ \A r \in subs : r.ver # mem[t].ver
        /\ \A r \in index : r.ver # mem[t].ver
        /\ \A k \in Keys : metas[k] # NoMeta => metas[k].ver # mem[t].ver
        /\ \A u \in Threads \ {t} : mem[u] # NoMeta => mem[u].ver # mem[t].ver

-----------------------------------------------------------------------------
(* What the commands promise. *)

(* A key disappears only because its deadline has passed, DEL or FLUSH asked  *)
(* for it, or the command took its last member: the check load_live_meta or  *)
(* the member count made is still true when logical_delete acts on it.       *)
DeletionsJustified ==
    [][\A k \in Keys : metas[k] # NoMeta /\ metas'[k] = NoMeta =>
          \/ Expired(metas[k])
          \/ \E t \in Threads : pc[t] = "flushWrite"
          \/ \E t \in Threads :
                /\ Key(t) = k /\ pc[t] = "delete"
                /\ \/ cmd[t].op = "del"
                   \/ cmd[t].op \in Removers /\ scan(k, metas[k].ver) = {}]_vars

\* P holds of every key between commands.
BetweenCommands(P(_)) ==
    boot = "serving" => \A k \in Keys : Quiet(k) => P(k)

(* Between commands HLEN, HGETALL and HEXISTS tell the same story of a hash:  *)
(* the persisted count is kept apart from the fields it counts.              *)
HashReadsAgree == BetweenCommands(HashAgrees)

(* Between commands SCARD, SMEMBERS and SISMEMBER agree, whatever members     *)
(* SADD and SREM named twice.                                                *)
SetReadsAgree == BetweenCommands(SetAgrees)

(* Between commands the member records and the score index hold the same      *)
(* pairs and ZCARD their number, however members moved between scores.       *)
ZSetReadsAgree == BetweenCommands(ZSetAgrees)

(* Between commands ZRANGE by rank splits a sorted set by score, and every    *)
(* rank ZCARD promises has its member.                                       *)
ZSetRanksAgree == BetweenCommands(RankAgrees)

(* Between commands ZRANGEBYSCORE, which trusts the byte order of the index   *)
(* and stops early, finds exactly the members between its bounds.            *)
ScoreRangesExact == BetweenCommands(ScoreRangeExact)

(* Between commands a list has an element at every index between its bounds   *)
(* and none outside, so no LRANGE or pop meets a corruption error.           *)
ListReadsAgree == BetweenCommands(ListDense)
=============================================================================
