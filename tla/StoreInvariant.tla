--------------------------- MODULE StoreInvariant ---------------------------
(***************************************************************************)
(* The inductive invariants the proofs about the store rest on.            *)
(***************************************************************************)
EXTENDS Store

FlushPcs == {"flushMeta", "flushSub", "flushIdx", "flushWrite", "flushClear"}

(* Where a thread can be with which command, and what its locals hold there. *)
Control(t) ==
    LET op == cmd[t].op IN
    /\ (pc[t] = "idle") <=> (op = "none")
    /\ pc[t] = "idle" => mem[t] = NoMeta /\ wb[t] = NoBatch
    /\ (pc[t] \in FlushPcs) <=> (op = "flush")
    /\ (cmd[t].key = NoKey) <=> (op \in {"none", "flush"})
    /\ op = "set" => pc[t] \in {"overwrite", "alloc", "put"}
    /\ pc[t] = "overwrite" => op = "set"
    /\ pc[t] = "peek" => op \in {"lpop", "rpop"}
    /\ pc[t] \in {"load", "expire", "expired"} =>
          op \in Creators \cup Removers \cup {"read", "del", "expire"}
    /\ pc[t] = "alloc" => op \in Creators \cup {"set"}
    /\ pc[t] = "register" => op \in Creators /\ mem[t] \in Metas
    /\ pc[t] = "exec" => op \in Creators \cup Removers /\ mem[t] \in Metas
    /\ pc[t] = "put" => op \in {"set", "expire"} /\ mem[t] \in Metas
    /\ pc[t] \in {"register", "exec"} => mem[t].type = type_for(op)
    /\ pc[t] = "put" /\ op = "set" => mem[t].type = "string"
    /\ pc[t] = "commit" =>
          /\ op \in Creators \cup Removers
          /\ wb[t].mput \in Metas /\ wb[t].mput.type = type_for(op)
          /\ wb[t].mdel = {}
    /\ pc[t] = "empty" => op \in Removers /\ wb[t].mput = NoMeta /\ wb[t].mdel = {}
    /\ pc[t] \in {"delete", "forget"} => op \in Removers \cup {"del"}
    /\ pc[t] \in {"flushMeta", "flushSub", "flushIdx", "flushWrite"} =>
          wb[t].mput = NoMeta

ControlOK == \A t \in Threads : Control(t)

TypeInv == TypeOK /\ ControlOK

(* Commands run only while the store serves, and the rebuild scan only meets *)
(* metadata that is still there.                                             *)
Booting ==
    /\ boot # "serving" => \A t \in Threads : ~Running(t)
    /\ boot # "rebuild" => todo = {}
    /\ \A k \in todo : metas[k] # NoMeta

-----------------------------------------------------------------------------
(* Without the overlap fault a thread has its key to itself, and a flush the  *)
(* whole store.                                                              *)
Exclusive ==
    \A t, u \in Threads : t # u /\ Running(t) /\ Running(u) =>
        Key(t) # Key(u) /\ cmd[t].op # "flush"

\* The map has the entry of the composite key k is, if it is one.
Tracked(k) ==
    metas[k] # NoMeta /\ metas[k].type \in Composite => versions[k] = metas[k].ver

(* What the thread working on a key knows of the metadata and the map.       *)
Claim(t) ==
    LET k == Key(t) IN
    /\ pc[t] \in {"expired", "forget"} => metas[k] = NoMeta
    /\ pc[t] \in {"alloc", "register"} /\ cmd[t].op # "set" => metas[k] = NoMeta
    /\ pc[t] = "exec" => versions[k] = mem[t].ver
    /\ pc[t] = "commit" => versions[k] = wb[t].mput.ver
    /\ pc[t] = "put" /\ mem[t].type \in Composite => versions[k] = mem[t].ver
    /\ pc[t] \in {"flushSub", "flushIdx", "flushWrite"} =>
          \A x \in Keys : metas[x] # NoMeta => x \in wb[t].mdel
    /\ pc[t] = "flushClear" => \A x \in Keys : metas[x] = NoMeta

(* While the map is rebuilt, the keys already visited are tracked.           *)
BootMap ==
    boot = "rebuild" => \A k \in Keys : k \notin todo => Tracked(k)

GcInv ==
    /\ TypeInv
    /\ Booting
    /\ Exclusive
    /\ BootMap
    /\ boot = "serving" => \A k \in Keys : Overwriting(k) \/ Tracked(k)
    /\ \A t \in Threads : Claim(t)

-----------------------------------------------------------------------------
(* Where structure versions are.  Every one of them was drawn from           *)
(* next_version, on disk, in a batch under construction or in a metadata copy. *)

\* The versions the write of batch b brings to disk.
BatchVersions(b) ==
    {r.ver : r \in b.puts \cup b.iputs} \cup {m.ver : m \in {b.mput} \ {NoMeta}}

DiskVersions ==
    {r.ver : r \in subs \cup index}
        \cup {m.ver : m \in {metas[k] : k \in Keys} \ {NoMeta}}

\* The versions on disk or on the way there.
Carried == DiskVersions \cup UNION {BatchVersions(wb[t]) : t \in Threads}

\* The version of a thread's metadata copy.
Held(t) == {m.ver : m \in {mem[t]} \ {NoMeta}}

\* The thread has drawn a version and neither registered nor written it.
Drawing(t) == pc[t] \in {"register", "put"} /\ cmd[t].op # "expire"

(* The next version is past every version there is, and one just drawn is    *)
(* nowhere but with its thread.                                              *)
VersionInv ==
    /\ \A v \in Carried : v < next_version
    /\ \A t \in Threads : \A v \in Held(t) : v < next_version
    /\ \A t \in Threads : Drawing(t) =>
          mem[t].ver \notin Carried /\ \A u \in Threads \ {t} : mem[t].ver \notin Held(u)

-----------------------------------------------------------------------------
(* What the one thread on a key knows of the structure it works on.          *)

\* The metadata on disk is of the structure m describes.
Holding(k, m) == metas[k] # NoMeta /\ metas[k].ver = m.ver /\ metas[k].type = m.type

NoRecords(k, ver) == \A r \in subs \cup index : ~(r.key = k /\ r.ver = ver)

\* m describes the structure on disk, or one that has no trace there yet.
Anchor(k, m) == Holding(k, m) \/ (metas[k] = NoMeta /\ NoRecords(k, m.ver))

Anchored(t) ==
    LET k == Key(t) IN
    /\ pc[t] \in {"expired", "forget"} => metas[k] = NoMeta
    /\ pc[t] \in {"alloc", "register"} /\ cmd[t].op # "set" => metas[k] = NoMeta
    /\ pc[t] = "exec" => Anchor(k, mem[t])
    /\ pc[t] = "exec" /\ cmd[t].op \in Removers => Holding(k, mem[t])
    /\ pc[t] = "commit" => Anchor(k, wb[t].mput)
    /\ pc[t] = "put" /\ cmd[t].op = "expire" => Holding(k, mem[t])
    /\ pc[t] \in {"commit", "empty"} => \A r \in wb[t].puts \cup wb[t].iputs : r.key = k

SerialInv ==
    /\ TypeInv
    /\ Booting
    /\ VersionInv
    /\ Exclusive
    /\ \A t \in Threads : Anchored(t)

-----------------------------------------------------------------------------
(* When the map's entry of a key is the right one.                           *)

Exact(k) == versions[k] = CurrentVersion(k)

\* What a thread knows of the entry of its key, beyond Claim.
Settled(t) ==
    LET k == Key(t) IN
    /\ pc[t] \in {"peek", "load"} => Exact(k)
    /\ pc[t] = "put" /\ cmd[t].op = "expire" => Exact(k)
    /\ pc[t] \in {"alloc", "put"} /\ cmd[t].op = "set" => versions[k] = 0

\* The rebuild fills the empty map key by key.
BootExact ==
    /\ boot = "open" => \A k \in Keys : versions[k] = 0
    /\ boot = "rebuild" =>
          \A k \in Keys : IF k \in todo THEN versions[k] = 0 ELSE Exact(k)

MapInv ==
    /\ GcInv
    /\ SerialInv
    /\ BootExact
    /\ VersionMapExact
    /\ \A t \in Threads : Settled(t)
-----------------------------------------------------------------------------
(* What a structure has on disk.                                             *)

\* No call names a hash field twice; hset and hdel count such a field twice.
NoRepeats ==
    /\ \A a \in Args["hset"] : \A i, j \in DOMAIN a : a[i].field = a[j].field => i = j
    /\ \A a \in Args["hdel"] : \A i, j \in DOMAIN a : a[i] = a[j] => i = j

\* The count of a structure of this type can be trusted.
Counted(type) == type \in Composite /\ (type = "hash" => NoRepeats)

(* The subkey records S and the index records I are those of a structure     *)
(* with metadata m: one record per member, or per index between the bounds.  *)
Fits(S, I, m) ==
    /\ IsFiniteSet(S)
    /\ \A r, s \in S : r.field = s.field => r = s
    /\ IF m.type = "list"
       THEN m.head <= m.tail /\ {r.field : r \in S} = m.head .. m.tail - 1
       ELSE m.cnt = Cardinality(S) /\ \A r \in S : r.field \in Fields
    /\ m.type = "zset" =>
          /\ \A r \in S : r.val \in Scores
          /\ I = {Idx(r.key, r.ver, r.val, r.field) : r \in S}

\* A structure that is left on disk is not empty.
Full(S, I, m) == Counted(m.type) => Fits(S, I, m) /\ S # {}

\* The records S and the index records I once batch b is written.
SubsAfter(S, b) == {r \in S : \A d \in b.dels \cup b.puts : ~SameSub(r, d)} \cup b.puts
IndexAfter(I, b) == (I \ b.idels) \cup b.iputs

\* The last member of k is gone and its metadata not yet.
Emptied(k) ==
    \E t \in Threads : Key(t) = k /\ cmd[t].op \in Removers /\ pc[t] = "delete"

(* What metadata says of a structure is what is on disk, unless a command is *)
(* about to replace or delete the metadata.                                  *)
Whole(k) ==
    \/ metas[k] = NoMeta
    \/ Full(scan(k, metas[k].ver), scan_index(k, metas[k].ver), metas[k])
    \/ Overwriting(k)
    \/ Emptied(k)

\* The batch names records of the thread's own structure only.
OwnBatch(k, b) ==
    /\ \A r \in b.puts \cup b.iputs \cup b.dels \cup b.idels : r.key = k
    /\ \A r \in b.puts \cup b.iputs : r.ver = b.mput.ver

(* What a thread knows of the records of its key.                            *)
Knows(t) ==
    LET k == Key(t)
        op == cmd[t].op
        b == wb[t]
    IN
    /\ pc[t] = "expire" /\ metas[k] # NoMeta => Expired(metas[k])
    /\ pc[t] = "register" => mem[t].cnt = 0 /\ mem[t].head = 0 /\ mem[t].tail = 0
    /\ pc[t] = "exec" /\ Counted(mem[t].type) =>
          Fits(scan(k, mem[t].ver), scan_index(k, mem[t].ver), mem[t])
    /\ pc[t] = "put" /\ op = "expire" =>
          /\ mem[t].cnt = metas[k].cnt
          /\ mem[t].head = metas[k].head /\ mem[t].tail = metas[k].tail
    /\ pc[t] \in {"commit", "empty"} => OwnBatch(k, b)
    /\ pc[t] = "commit" =>
          Full(SubsAfter(scan(k, b.mput.ver), b), IndexAfter(scan_index(k, b.mput.ver), b), b.mput)
    /\ pc[t] = "empty" =>
          /\ metas[k] # NoMeta /\ b.puts = {} /\ b.iputs = {}
          /\ Counted(type_for(op)) => SubsAfter(scan(k, metas[k].ver), b) = {}
    /\ pc[t] = "delete" /\ op \in Removers /\ metas[k] # NoMeta /\ Counted(type_for(op)) =>
          scan(k, metas[k].ver) = {}

ContentInv ==
    /\ MapInv
    /\ \A k \in Keys : Whole(k)
    /\ \A t \in Threads : Knows(t)
-----------------------------------------------------------------------------
(* What a thread has read and decided is still what its key holds.           *)

\* The metadata a body of op started from: that on disk, or a fresh one.
Origin(k, op, ver) == IF metas[k] # NoMeta THEN metas[k] ELSE Meta(type_for(op), ver, 0, NoVal)

Remembers(t) ==
    LET k == Key(t)
        op == cmd[t].op
        m == Origin(k, op, wb[t].mput.ver)
    IN
    /\ op = "set" => ((cmd[t].args.ttl = 0) <=> (cmd[t].exp = 0))
    /\ op = "expire" => cmd[t].exp > 0
    /\ pc[t] = "register" => mem[t] = Meta(type_for(op), mem[t].ver, 0, NoVal)
    /\ pc[t] = "exec" => mem[t] = Origin(k, op, mem[t].ver)
    /\ pc[t] \in {"commit", "empty"} =>
          /\ m.type = type_for(op)
          /\ Plan(op, k, m, cmd[t].args) = [to |-> pc[t], batch |-> wb[t]]
    /\ pc[t] = "put" /\ op = "set" =>
          mem[t] = Meta("string", mem[t].ver, cmd[t].exp, cmd[t].args.val)
    /\ pc[t] = "put" /\ op = "expire" => mem[t] = [metas[k] EXCEPT !.exp = cmd[t].exp]
    /\ pc[t] = "delete" /\ op \in Removers /\ metas[k] # NoMeta => metas[k].type = type_for(op)

EffectInv ==
    /\ ContentInv
    /\ \A t \in Threads : Remembers(t)

-----------------------------------------------------------------------------
(* The engine holds finitely many records and one per subkey, and so does    *)
(* every batch on its way there.                                             *)

OneRecord(S) == \A r, s \in S : SameSub(r, s) => r = s

Distinct(S, I) == IsFiniteSet(S) /\ IsFiniteSet(I) /\ OneRecord(S)

RecordsInv ==
    /\ Distinct(subs, index)
    /\ \A t \in Threads : Distinct(wb[t].puts, wb[t].iputs)
=============================================================================
