----------------------------- MODULE StoreBase -----------------------------
(***************************************************************************)
(* The state of the data node's storage layer and the steps every command  *)
(* is made of.                                                             *)
(*                                                                         *)
(* The engine (RocksDB behind GeneralEngine) persists three families of    *)
(* records: one metadata record per key, subkey records that carry the     *)
(* owner key and the structure version, and score-index records of sorted  *)
(* sets.  The only in-memory state of the store is the version map the     *)
(* compaction filter consults.  Deleting a key removes its metadata record *)
(* and its map entry; the subkeys become garbage for the filter.           *)
(*                                                                         *)
(* Commands run on worker threads that share one Store with no lock, so a  *)
(* command is a sequence of atomic steps: each engine read, each engine    *)
(* write (an atomic batch) and each access to the version map.             *)
(***************************************************************************)
EXTENDS Integers, FiniteSets, Sequences

CONSTANTS
    Keys,        \* user keys
    Fields,      \* hash fields, set members, sorted-set members
    Values,      \* string values, field values, list elements
    Threads,     \* worker threads, each running one command at a time
    Args,        \* the arguments a client may pass: [Ops -> SUBSET argument]
    Faults,      \* what the environment may do, a subset of FaultKinds
    MaxVersion,  \* bound: no creating command starts once the clock is here
    MaxIndex,    \* bound: no push starts on a list that reaches this index
    MaxCount,    \* bound: no creating command starts on a key that counts more
    MaxNow,      \* bound: the wall clock does not tick past this value
    NoMeta,      \* no metadata record
    NoKey,       \* the key of a command that has none
    NoVal        \* the empty value of a set member, the payload of a composite

(***************************************************************************)
(* overlap         two commands on the same key may overlap in time        *)
(* crash           the process may stop between two steps of a command     *)
(* bootCompaction  RocksDB may compact while the version map is rebuilt    *)
(* writeError      an engine write may fail and return an error            *)
(* clockBack       the wall clock may have stepped back across a restart   *)
(*                                                                         *)
(* Nothing in the code excludes any of them; a run names the ones it       *)
(* allows.                                                                 *)
(***************************************************************************)
FaultKinds == {"overlap", "crash", "bootCompaction", "writeError", "clockBack"}

\* The commands that build a missing composite key, and the type each works on.
Creators == {"hset", "sadd", "zadd", "lpush", "rpush"}
Removers == {"hdel", "srem", "zrem", "lpop", "rpop"}
Ops == Creators \cup Removers \cup {"read", "set", "del", "expire", "flush"}

type_for(op) ==
    CASE op \in {"hset", "hdel"} -> "hash"
      [] op \in {"sadd", "srem"} -> "set"
      [] op \in {"zadd", "zrem"} -> "zset"
      [] OTHER -> "list"

Composite == {"hash", "set", "zset", "list"}

ASSUME BaseAssumption ==
    /\ Faults \subseteq FaultKinds
    /\ MaxVersion \in Nat /\ MaxNow \in Nat /\ MaxIndex \in Nat /\ MaxCount \in Nat
    /\ NoKey \notin Keys

\* Keys are byte strings of bounded length: a bulk string has a maximal size.
ASSUME KeysAssumption == IsFiniteSet(Keys)

\* Fields are byte strings; integers stand for them in their byte order, which
\* for the fixed-width list indexes is the numeric order.
ASSUME FieldsAssumption == Fields \subseteq Int

-----------------------------------------------------------------------------
(* Records.  The payload of Meta is the union of the type-specific ones:     *)
(* val of a string, cnt of a hash, set or sorted set, [head, tail) of a list. *)
(* LIST_INITIAL_INDEX, the middle of the u64 space, is 0 here.               *)

Metas == [type : Composite \cup {"string"}, ver : Nat \ {0}, exp : Nat, cnt : Nat,
          head : Int, tail : Int, val : Values \cup {NoVal}]

\* A field value, a list element, a set member's empty value or a score.
SubVals == Values \cup {NoVal} \cup Int

SubRecs == [key : Keys, ver : Nat, field : Int,
            val : SubVals]

IdxRecs == [key : Keys, ver : Nat, score : SubVals, member : Int]

ASSUME NoMetaAssumption == NoMeta \notin Metas

Meta(type, ver, exp, val) ==
    [type |-> type, ver |-> ver, exp |-> exp, cnt |-> 0, head |-> 0,
     tail |-> 0, val |-> val]

Sub(k, ver, field, val) == [key |-> k, ver |-> ver, field |-> field, val |-> val]

Idx(k, ver, score, member) ==
    [key |-> k, ver |-> ver, score |-> score, member |-> member]

(* A WriteBatch: the metadata put for the command's key (or NoMeta), the keys *)
(* whose metadata is deleted, and the records put and deleted in each family. *)
Batches == [mput : Metas \cup {NoMeta}, mdel : SUBSET Keys,
            puts : SUBSET SubRecs, dels : SUBSET SubRecs,
            iputs : SUBSET IdxRecs, idels : SUBSET IdxRecs]

NoBatch == [mput |-> NoMeta, mdel |-> {}, puts |-> {}, dels |-> {},
            iputs |-> {}, idels |-> {}]

Puts(m, puts, iputs, idels) ==
    [mput |-> m, mdel |-> {}, puts |-> puts, dels |-> {}, iputs |-> iputs,
     idels |-> idels]

Dels(dels, idels) ==
    [mput |-> NoMeta, mdel |-> {}, puts |-> {}, dels |-> dels, iputs |-> {},
     idels |-> idels]

(* What the body of a composite command decides: the batch, and whether it is *)
(* written, written and followed by logical_delete, or not written at all.    *)
Write(b) == [to |-> "commit", batch |-> b]
WriteLast(b) == [to |-> "empty", batch |-> b]
NoWrite == [to |-> "idle", batch |-> NoBatch]

\* What the handlers of SET, EXPIRE and PEXPIRE hand on: SET with EX or PX has a
\* positive ttl, here 0 for none; EXPIRE takes any integer.
set_args == [val : Values, ttl : Nat]
expire_args == [ttl : Int]

\* The handlers of commands with a list of arguments never pass an empty one.
NonEmptySeq(S) == Seq(S) \ {<<>>}

NoCmd == [op |-> "none", key |-> NoKey, args |-> <<>>, exp |-> 0]

-----------------------------------------------------------------------------
VARIABLES
    metas,     \* persisted: metadata record of each key, or NoMeta
    subs,      \* persisted: the subkey records
    index,     \* persisted: the score-index records
    versions,  \* VersionMap: structure version of each key, 0 for no entry
    clock,     \* VERSION_CLOCK
    now,       \* the wall clock, the unit of both now_ms and now_micros
    boot,      \* "open", "rebuild" or "serving"
    todo,      \* the keys whose metadata the rebuild scan has still to visit
    pc,        \* the next step of each thread
    cmd,       \* the command each thread runs
    mem,       \* the thread's local copy of the metadata record
    wb         \* the thread's write batch

disk == <<metas, subs, index>>
local == <<pc, cmd, mem, wb>>
vars == <<metas, subs, index, versions, clock, now, boot, todo, pc, cmd, mem, wb>>

Key(t) == cmd[t].key

Pcs == {"idle", "peek", "load", "expire", "expired", "delete", "forget",
        "overwrite", "alloc", "register", "exec", "commit", "put", "empty",
        "flushMeta", "flushSub", "flushIdx", "flushWrite", "flushClear"}

DiskTypeOK ==
    /\ metas \in [Keys -> Metas \cup {NoMeta}]
    /\ subs \subseteq SubRecs
    /\ index \subseteq IdxRecs

MapTypeOK ==
    /\ versions \in [Keys -> Nat]
    /\ clock \in Nat
    /\ now \in Nat
    /\ boot \in {"open", "rebuild", "serving"}
    /\ todo \subseteq Keys

ThreadsTypeOK ==
    /\ pc \in [Threads -> Pcs]
    /\ DOMAIN cmd = Threads
    /\ \A t \in Threads :
          /\ cmd[t].op \in Ops \cup {"none"}
          /\ cmd[t].op \in Ops => cmd[t].args \in Args[cmd[t].op]
          /\ cmd[t].key \in Keys \cup {NoKey}
          /\ cmd[t].exp \in Nat
    /\ mem \in [Threads -> Metas \cup {NoMeta}]
    /\ wb \in [Threads -> Batches]

(* Every record on disk, every entry of the version map and every local of a *)
(* thread is one the code's types allow; deadlines are unsigned milliseconds. *)
TypeOK == DiskTypeOK /\ MapTypeOK /\ ThreadsTypeOK

-----------------------------------------------------------------------------
(* The engine. *)

SameSub(r, s) == r.key = s.key /\ r.ver = s.ver /\ r.field = s.field

\* RocksEngine::write: one batch, applied atomically.
write(k, b) ==
    /\ metas' = [x \in Keys |-> IF x \in b.mdel THEN NoMeta
                                ELSE IF x = k /\ b.mput # NoMeta THEN b.mput
                                ELSE metas[x]]
    /\ subs' = {r \in subs : \A d \in b.dels \cup b.puts : ~SameSub(r, d)}
                    \cup b.puts
    /\ index' = (index \ b.idels) \cup b.iputs

\* engine.get on a subkey.
has(k, ver, field) ==
    \E r \in subs : r.key = k /\ r.ver = ver /\ r.field = field

\* scan_prefix(subkey_prefix(key, version)).
scan(k, ver) == {r \in subs : r.key = k /\ r.ver = ver}

\* scan_prefix(zscore_prefix(key, version)).
scan_index(k, ver) == {r \in index : r.key = k /\ r.ver = ver}

\* DBSIZE and RAWCOUNT.
dbsize == Cardinality({k \in Keys : metas[k] # NoMeta})
raw_subkey_count == Cardinality(subs) + Cardinality(index)

\* Fault: the version is not compared.
should_keep_owner(r) == versions[r.key] # 0

\* VersionMap::should_keep on a versioned record; an absent entry is 0, which
\* next_version never returns.
should_keep(r) == versions[r.key] # 0 /\ versions[r.key] = r.ver

\* Whether the compaction filter has a predicate and RocksDB may run it.
GcActive ==
    \/ boot = "serving"
    \/ boot = "rebuild" /\ "bootCompaction" \in Faults

-----------------------------------------------------------------------------
(* Control of one thread. *)

Goto(t, next) == pc' = [pc EXCEPT ![t] = next]

\* The command returns to the client and its locals go out of scope.
Finish(t) ==
    /\ pc' = [pc EXCEPT ![t] = "idle"]
    /\ cmd' = [cmd EXCEPT ![t] = NoCmd]
    /\ mem' = [mem EXCEPT ![t] = NoMeta]
    /\ wb' = [wb EXCEPT ![t] = NoBatch]

Continue(t, next) ==
    IF next = "idle" THEN Finish(t)
                     ELSE Goto(t, next) /\ UNCHANGED <<cmd, mem, wb>>

Running(t) == pc[t] # "idle"

\* No command on key k, and no flush, is under way.
Quiet(k) == \A t \in Threads : Key(t) # k /\ cmd[t].op # "flush"

\* A SET on k has dropped the map entry and not yet replaced the metadata.
Overwriting(k) ==
    \E t \in Threads : Key(t) = k /\ cmd[t].op = "set" /\ pc[t] \in {"alloc", "put"}

Expired(m) == m.exp # 0 /\ now >= m.exp

\* What load_typed finds for a read.
Holds(k, type) ==
    metas[k] # NoMeta /\ ~Expired(metas[k]) /\ metas[k].type = type

-----------------------------------------------------------------------------
(* Starting a command. *)

\* Fault: a deadline before the epoch is not clamped.
Deadline_unclamped(ttl) == now + ttl

\* expire_generic: a deadline in the past is clamped to 1, 0 meaning none.
Deadline(ttl) == IF now + ttl < 1 THEN 1 ELSE now + ttl

ExpiryOf(op, args) ==
    CASE op = "set" -> IF args.ttl = 0 THEN 0 ELSE now + args.ttl
      [] op = "expire" -> Deadline(args.ttl)
      [] OTHER -> 0

FirstPc(op) ==
    CASE op = "set" -> "overwrite"
      [] op = "flush" -> "flushMeta"
      [] op \in {"lpop", "rpop"} -> "peek"
      [] OTHER -> "load"

\* Without the overlap fault, commands on one key run one after the other.
Admits(op, k) ==
    \/ "overlap" \in Faults
    \/ IF op = "flush" THEN \A u \in Threads : ~Running(u) ELSE Quiet(k)

\* The bounds on what a client asks for.
InBounds(op, k) ==
    /\ op \in Creators \cup {"set"} => clock < MaxVersion
    /\ op \in Creators =>
          \A m \in {metas[k]} \cup UNION {{mem[u], wb[u].mput} : u \in Threads} :
              m # NoMeta => m.cnt <= MaxCount
    /\ op \in {"lpush", "rpush"} /\ metas[k] # NoMeta =>
          -MaxIndex < metas[k].head /\ metas[k].tail < MaxIndex

Begin(t, op, k, args) ==
    /\ boot = "serving"
    /\ ~Running(t)
    /\ (k = NoKey) <=> (op = "flush")
    /\ Admits(op, k)
    /\ InBounds(op, k)
    /\ Goto(t, FirstPc(op))
    /\ cmd' = [cmd EXCEPT ![t] = [op |-> op, key |-> k, args |-> args,
                                  exp |-> ExpiryOf(op, args)]]
    /\ UNCHANGED <<disk, versions, clock, now, boot, todo, mem, wb>>

-----------------------------------------------------------------------------
(* load_live_meta and load_typed. *)

\* Where the command goes when the key is missing: a creator builds it.
MissingPc(op) == IF op \in Creators THEN "alloc" ELSE "idle"

\* Where it goes with live metadata; a WrongType error ends the command.
\* LPOP and RPOP first ask llen whether the list has elements.
FoundPc(t, m) ==
    LET op == cmd[t].op IN
    CASE op = "read" -> "idle"
      [] op = "del" -> "delete"
      [] op = "expire" -> "put"
      [] OTHER -> IF m.type # type_for(op) THEN "idle"
                  ELSE IF pc[t] # "peek" THEN "exec"
                  ELSE IF m.tail > m.head THEN "load" ELSE "idle"

LoadMissing(t) ==
    /\ pc[t] \in {"peek", "load"}
    /\ metas[Key(t)] = NoMeta
    /\ Continue(t, MissingPc(cmd[t].op))
    /\ UNCHANGED <<disk, versions, clock, now, boot, todo>>

LoadExpired(t) ==
    /\ pc[t] \in {"peek", "load"}
    /\ metas[Key(t)] # NoMeta
    /\ Expired(metas[Key(t)])
    /\ Goto(t, "expire")
    /\ UNCHANGED <<disk, versions, clock, now, boot, todo, cmd, mem, wb>>

\* expire_at changes the deadline of the copy it loaded.
LoadFound(t) ==
    LET m == metas[Key(t)]
        next == FoundPc(t, m)
    IN
    /\ pc[t] \in {"peek", "load"}
    /\ m # NoMeta
    /\ ~Expired(m)
    /\ IF next = "idle"
       THEN Finish(t)
       ELSE /\ Goto(t, next)
            /\ mem' = [mem EXCEPT ![t] =
                  IF cmd[t].op = "expire" THEN [m EXCEPT !.exp = cmd[t].exp]
                  ELSE IF next = "exec" THEN m ELSE NoMeta]
            /\ UNCHANGED <<cmd, wb>>
    /\ UNCHANGED <<disk, versions, clock, now, boot, todo>>

(* logical_delete: the metadata record goes first, then the map entry.  It is *)
(* called by lazy expiry, by DEL and by a command that took the last member.  *)

DeleteMeta(t) ==
    /\ pc[t] \in {"expire", "delete"}
    /\ write(Key(t), [NoBatch EXCEPT !.mdel = {Key(t)}])
    /\ Goto(t, IF pc[t] = "expire" THEN "expired" ELSE "forget")
    /\ UNCHANGED <<versions, clock, now, boot, todo, cmd, mem, wb>>

ForgetVersion(t) ==
    /\ pc[t] \in {"expired", "forget"}
    /\ versions' = [versions EXCEPT ![Key(t)] = 0]
    /\ Continue(t, IF pc[t] = "expired" THEN MissingPc(cmd[t].op) ELSE "idle")
    /\ UNCHANGED <<disk, clock, now, boot, todo>>

-----------------------------------------------------------------------------
(* SET, and the creation of a composite key. *)

\* set drops the version-map entry of whatever the key held, before anything.
Overwrite(t) ==
    /\ pc[t] = "overwrite"
    /\ versions' = [versions EXCEPT ![Key(t)] = 0]
    /\ Goto(t, "alloc")
    /\ UNCHANGED <<disk, clock, now, boot, todo, cmd, mem, wb>>

\* Faults: the counter restarts at 0 with the process; the counter is not
\* advanced past the clock.
next_version_unseeded == clock + 1
next_version_repeating == IF clock > now THEN clock ELSE now

\* The value next_version returns when nothing comes between its load and its
\* compare-and-swap; StoreRaces takes the loop apart.
next_version == IF clock + 1 > now THEN clock + 1 ELSE now

\* The thread has drawn version v.
Drawn(t, v) ==
    /\ pc[t] = "alloc"
    /\ clock' = v
    /\ mem' = [mem EXCEPT ![t] =
          IF cmd[t].op = "set"
          THEN Meta("string", v, cmd[t].exp, cmd[t].args.val)
          ELSE Meta(type_for(cmd[t].op), v, 0, NoVal)]
    /\ Goto(t, IF cmd[t].op = "set" THEN "put" ELSE "register")
    /\ UNCHANGED <<disk, versions, now, boot, todo, cmd, wb>>

Alloc(t) == Drawn(t, next_version)

\* Fault: the version of a new composite is not registered.
Register_nothing(t) ==
    /\ pc[t] = "register"
    /\ Goto(t, "exec")
    /\ UNCHANGED <<disk, versions, clock, now, boot, todo, cmd, mem, wb>>

\* new_composite_meta publishes the version before any record is written.
Register(t) ==
    /\ pc[t] = "register"
    /\ versions' = [versions EXCEPT ![Key(t)] = mem[t].ver]
    /\ Goto(t, "exec")
    /\ UNCHANGED <<disk, clock, now, boot, todo, cmd, mem, wb>>

\* put_meta, the last step of set and expire_at.
PutMeta(t) ==
    /\ pc[t] = "put"
    /\ write(Key(t), [NoBatch EXCEPT !.mput = mem[t]])
    /\ Finish(t)
    /\ UNCHANGED <<versions, clock, now, boot, todo>>

\* The batch of a composite command; "empty" is the batch that takes the last
\* member, which logical_delete follows.
Commit(t) ==
    /\ pc[t] \in {"commit", "empty"}
    /\ write(Key(t), wb[t])
    /\ IF pc[t] = "empty"
       THEN /\ Goto(t, "delete")
            /\ mem' = [mem EXCEPT ![t] = NoMeta]
            /\ wb' = [wb EXCEPT ![t] = NoBatch]
            /\ UNCHANGED cmd
       ELSE Finish(t)
    /\ UNCHANGED <<versions, clock, now, boot, todo>>

\* Fault: the key is dropped with one member left.
Shrink_early(m, n, b) ==
    CASE n = 0 -> NoWrite
      [] n > 0 /\ m.cnt - n <= 1 -> WriteLast(b)
      [] OTHER -> Write([b EXCEPT !.mput = [m EXCEPT !.cnt = m.cnt - n]])

\* The tail of hdel, srem and zrem: n members leave a collection of m.cnt.
Shrink(m, n, b) ==
    LET left == IF n > m.cnt THEN 0 ELSE m.cnt - n IN
    CASE n = 0 -> NoWrite
      [] n > 0 /\ left = 0 -> WriteLast(b)
      [] OTHER -> Write([b EXCEPT !.mput = [m EXCEPT !.cnt = left]])

-----------------------------------------------------------------------------
(* flush_all: one scan per record family, one batch, then the map. *)

FlushMeta(t) ==
    /\ pc[t] = "flushMeta"
    /\ wb' = [wb EXCEPT ![t].mdel = {k \in Keys : metas[k] # NoMeta}]
    /\ Goto(t, "flushSub")
    /\ UNCHANGED <<disk, versions, clock, now, boot, todo, cmd, mem>>

\* Fault: the subkeys are deleted by a write of their own.
FlushSub_eager(t) ==
    /\ pc[t] = "flushSub"
    /\ subs' = {}
    /\ Goto(t, "flushIdx")
    /\ UNCHANGED <<metas, index, versions, clock, now, boot, todo, cmd, mem, wb>>

FlushSub(t) ==
    /\ pc[t] = "flushSub"
    /\ wb' = [wb EXCEPT ![t].dels = subs]
    /\ Goto(t, "flushIdx")
    /\ UNCHANGED <<disk, versions, clock, now, boot, todo, cmd, mem>>

FlushIdx(t) ==
    /\ pc[t] = "flushIdx"
    /\ wb' = [wb EXCEPT ![t].idels = index]
    /\ Goto(t, "flushWrite")
    /\ UNCHANGED <<disk, versions, clock, now, boot, todo, cmd, mem>>

FlushWrite(t) ==
    /\ pc[t] = "flushWrite"
    /\ write(NoKey, wb[t])
    /\ wb' = [wb EXCEPT ![t] = NoBatch]
    /\ Goto(t, "flushClear")
    /\ UNCHANGED <<versions, clock, now, boot, todo, cmd, mem>>

FlushClear(t) ==
    /\ pc[t] = "flushClear"
    /\ versions' = [k \in Keys |-> 0]
    /\ Finish(t)
    /\ UNCHANGED <<disk, clock, now, boot, todo>>

-----------------------------------------------------------------------------
(* Compaction, failures and restarts. *)

\* A background compaction drops one record the filter does not keep.  The
\* filter decides before the drop is visible; GarbageStays is why one step
\* for both is enough.
CompactionDrop ==
    /\ GcActive
    /\ \/ \E r \in subs : ~should_keep(r) /\ subs' = subs \ {r} /\ UNCHANGED index
       \/ \E r \in index : ~should_keep(r) /\ index' = index \ {r} /\ UNCHANGED subs
    /\ UNCHANGED <<metas, versions, clock, now, boot, todo, local>>

\* COMPACT: compact_range over everything, so the filter sees every record.
compact ==
    /\ boot = "serving"
    /\ subs' = {r \in subs : should_keep(r)}
    /\ index' = {r \in index : should_keep(r)}
    /\ UNCHANGED <<metas, versions, clock, now, boot, todo, local>>

\* engine.write returns an error: the command ends, nothing was written.
WriteFails(t) ==
    /\ "writeError" \in Faults
    /\ pc[t] \in {"expire", "delete", "put", "commit", "empty", "flushWrite"}
    /\ Finish(t)
    /\ UNCHANGED <<disk, versions, clock, now, boot, todo>>

Tick ==
    /\ now < MaxNow
    /\ now' = now + 1
    /\ UNCHANGED <<disk, versions, clock, boot, todo, local>>

\* The wall clock a restarted process reads.  Unless it was stepped back it is
\* past every version handed out, a restart taking more than a microsecond.
RestartClock(n) ==
    \/ n = IF clock + 1 > now THEN clock + 1 ELSE now
    \/ "clockBack" \in Faults /\ n \in 1..now

\* The process stops and starts again: memory is lost, VERSION_CLOCK is 0.
Restart ==
    /\ "crash" \in Faults \/ \A t \in Threads : ~Running(t)
    /\ boot = "serving" \/ "crash" \in Faults
    /\ clock < MaxVersion
    /\ RestartClock(now')
    /\ clock' = 0
    /\ versions' = [k \in Keys |-> 0]
    /\ boot' = "open"
    /\ todo' = {}
    /\ pc' = [t \in Threads |-> "idle"]
    /\ cmd' = [t \in Threads |-> NoCmd]
    /\ mem' = [t \in Threads |-> NoMeta]
    /\ wb' = [t \in Threads |-> NoBatch]
    /\ UNCHANGED disk

\* with_engine installs the predicate over the still empty map ...
install_gc ==
    /\ boot = "open"
    /\ boot' = "rebuild"
    /\ todo' = {k \in Keys : metas[k] # NoMeta}
    /\ UNCHANGED <<disk, versions, clock, now, local>>

\* Faults: only hashes are registered; every record is, whatever its type.
RebuildKey_hashes(k) ==
    /\ boot = "rebuild"
    /\ k \in todo
    /\ versions' = IF metas[k].type = "hash"
                   THEN [versions EXCEPT ![k] = metas[k].ver] ELSE versions
    /\ todo' = todo \ {k}
    /\ UNCHANGED <<disk, clock, now, boot, local>>

RebuildKey_all(k) ==
    /\ boot = "rebuild"
    /\ k \in todo
    /\ versions' = [versions EXCEPT ![k] = metas[k].ver]
    /\ todo' = todo \ {k}
    /\ UNCHANGED <<disk, clock, now, boot, local>>

\* ... and rebuild_version_map then visits the metadata records.
RebuildKey(k) ==
    /\ boot = "rebuild"
    /\ k \in todo
    /\ versions' = IF metas[k].type \in Composite
                   THEN [versions EXCEPT ![k] = metas[k].ver] ELSE versions
    /\ todo' = todo \ {k}
    /\ UNCHANGED <<disk, clock, now, boot, local>>

Serve ==
    /\ boot = "rebuild"
    /\ todo = {}
    /\ boot' = "serving"
    /\ UNCHANGED <<disk, versions, clock, now, todo, local>>

Init ==
    /\ metas = [k \in Keys |-> NoMeta]
    /\ subs = {}
    /\ index = {}
    /\ versions = [k \in Keys |-> 0]
    /\ clock = 0
    /\ now = 1
    /\ boot = "open"
    /\ todo = {}
    /\ pc = [t \in Threads |-> "idle"]
    /\ cmd = [t \in Threads |-> NoCmd]
    /\ mem = [t \in Threads |-> NoMeta]
    /\ wb = [t \in Threads |-> NoBatch]
=============================================================================
