----------------------------- MODULE MapProofs ------------------------------
(***************************************************************************)
(* Structure versions never repeat: unless the wall clock steps back       *)
(* across a restart, a version drawn from next_version is on no record, in *)
(* no batch and with no other thread, however commands overlap, fail and   *)
(* crash.  What the compaction filter condemns stays condemned, and with   *)
(* commands serialised per key no record of an old structure comes back.   *)
(*                                                                         *)
(* With commands on one key run one after the other, no compaction during  *)
(* the rebuild and no failing write, the filter keeps every record some    *)
(* metadata refers to, across crashes, restarts and clock steps.  When the *)
(* clock never steps back the map is exact: between commands the entry of a*)
(* key is the version of the composite its metadata describes, and there is*)
(* none for a string or a missing key; so COMPACT reclaims every record of *)
(* a structure that is gone.                                               *)
(***************************************************************************)
EXTENDS StoreProofs

NoClockBack == "clockBack" \notin Faults

(* What the write of a batch brings to disk.                                 *)
LEMMA WriteVersions ==
    ASSUME NEW k, NEW b, write(k, b)
    PROVE  DiskVersions' \subseteq DiskVersions \cup BatchVersions(b)
<1> SUFFICES ASSUME NEW v \in DiskVersions' PROVE v \in DiskVersions \cup BatchVersions(b)
  OBVIOUS
<1>1. ASSUME NEW r \in subs' \cup index', v = r.ver
      PROVE  v \in DiskVersions \cup BatchVersions(b)
  <2>1. r \in subs \cup index \/ r \in b.puts \cup b.iputs
    BY <1>1 DEF write
  <2> QED
    BY <1>1, <2>1 DEF DiskVersions, BatchVersions
<1>2. ASSUME NEW x \in Keys, metas'[x] # NoMeta, v = metas'[x].ver
      PROVE  v \in DiskVersions \cup BatchVersions(b)
  <2>1. (metas'[x] = b.mput /\ b.mput # NoMeta) \/ metas'[x] = metas[x]
    BY <1>2 DEF write
  <2> QED
    BY <1>2, <2>1 DEF DiskVersions, BatchVersions
<1> QED
  BY <1>1, <1>2 DEF DiskVersions

(* The step of a thread that draws no version: what reaches the disk comes   *)
(* from its batch and its copy, what reaches its batch from its copy, and    *)
(* what reaches its copy from the disk.                                      *)
LEMMA VersionStep ==
    ASSUME VersionInv, NEW t \in Threads, UNCHANGED <<clock, now>>,
           DiskVersions' \subseteq DiskVersions \cup BatchVersions(wb[t]) \cup Held(t),
           BatchVersions(wb'[t]) \subseteq BatchVersions(wb[t]) \cup Held(t),
           Held(t)' \subseteq Held(t) \cup DiskVersions,
           \A u \in Threads \ {t} :
              pc'[u] = pc[u] /\ cmd'[u] = cmd[u] /\ mem'[u] = mem[u] /\ wb'[u] = wb[u],
           ~Drawing(t)'
    PROVE  VersionInv'
<1>0. next_version' = next_version
  BY DEF next_version
<1>1. Carried' \subseteq Carried \cup Held(t)
  BY DEF Carried
<1>2. \A v \in Carried' : v < next_version'
  BY <1>0, <1>1 DEF VersionInv
<1>3. ASSUME NEW u \in Threads \ {t} PROVE Held(u)' = Held(u)
  BY <1>3 DEF Held
<1>4. DiskVersions \subseteq Carried
  BY DEF Carried
<1>5. \A u \in Threads : \A v \in Held(u)' : v < next_version'
  BY <1>0, <1>3, <1>4 DEF VersionInv
<1>6. ASSUME NEW u \in Threads, Drawing(u)'
      PROVE  mem'[u].ver \notin Carried' /\ \A w \in Threads \ {u} : mem'[u].ver \notin Held(w)'
  <2>1. u # t /\ Drawing(u) /\ mem'[u] = mem[u]
    BY <1>6 DEF Drawing
  <2>2. mem[u].ver \notin Carried /\ \A w \in Threads \ {u} : mem[u].ver \notin Held(w)
    BY <2>1 DEF VersionInv
  <2> QED
    BY <1>1, <1>3, <1>4, <2>1, <2>2
<1> QED
  BY <1>2, <1>5, <1>6 DEF VersionInv

(* An empty batch and the batches of logical_delete and put_meta.            *)
LEMMA SmallBatches ==
    /\ BatchVersions(NoBatch) = {}
    /\ \A S : BatchVersions([NoBatch EXCEPT !.mdel = S]) = {}
    /\ \A m : BatchVersions([NoBatch EXCEPT !.mput = m]) = {x.ver : x \in {m} \ {NoMeta}}
  BY DEF BatchVersions, NoBatch

(* Ending a command drops what the thread holds.                             *)
LEMMA FinishVersions ==
    ASSUME TypeInv, VersionInv, NEW t \in Threads, Finish(t), UNCHANGED <<clock, now>>,
           DiskVersions' \subseteq DiskVersions \cup BatchVersions(wb[t]) \cup Held(t)
    PROVE  VersionInv'
<1>1. /\ \A u \in Threads \ {t} :
            pc'[u] = pc[u] /\ cmd'[u] = cmd[u] /\ mem'[u] = mem[u] /\ wb'[u] = wb[u]
      /\ pc'[t] = "idle" /\ mem'[t] = NoMeta /\ wb'[t] = NoBatch
  BY DEF Finish, TypeInv, TypeOK, ThreadsTypeOK
<1>2. BatchVersions(wb'[t]) = {}
  BY <1>1, SmallBatches
<1>3. Held(t)' = {} /\ ~Drawing(t)'
  BY <1>1 DEF Held, Drawing
<1> QED
  BY <1>1, <1>2, <1>3, VersionStep

(* So does moving on with the same or fewer versions.                        *)
LEMMA MoveVersions ==
    ASSUME TypeInv, VersionInv, NEW t \in Threads, NEW next, Goto(t, next),
           next \in {"register", "put"} => cmd[t].op = "expire",
           UNCHANGED <<clock, now, cmd>>,
           NEW m, mem' = [mem EXCEPT ![t] = m], NEW b, wb' = [wb EXCEPT ![t] = b],
           DiskVersions' \subseteq DiskVersions \cup BatchVersions(wb[t]),
           BatchVersions(b) \subseteq BatchVersions(wb[t]) \cup Held(t),
           m # NoMeta => m.ver \in Held(t) \cup DiskVersions
    PROVE  VersionInv'
<1>1. /\ \A u \in Threads \ {t} :
            pc'[u] = pc[u] /\ cmd'[u] = cmd[u] /\ mem'[u] = mem[u] /\ wb'[u] = wb[u]
      /\ pc'[t] = next /\ cmd'[t] = cmd[t] /\ mem'[t] = m /\ wb'[t] = b
  BY DEF Goto, TypeInv, TypeOK, ThreadsTypeOK
<1>2. Held(t)' \subseteq Held(t) \cup DiskVersions
  BY <1>1 DEF Held
<1>3. ~Drawing(t)'
  BY <1>1 DEF Drawing
<1> QED
  BY <1>1, <1>2, <1>3, VersionStep

(* Moving on with nothing but a new step and perhaps a write.                *)
LEMMA GotoVersions ==
    ASSUME TypeInv, VersionInv, NEW t \in Threads, NEW next, Goto(t, next),
           next \notin {"register", "put"}, UNCHANGED <<clock, now, cmd, mem, wb>>,
           DiskVersions' \subseteq DiskVersions
    PROVE  VersionInv'
<1>1. mem' = [mem EXCEPT ![t] = mem[t]] /\ wb' = [wb EXCEPT ![t] = wb[t]]
  BY DEF TypeInv, TypeOK, ThreadsTypeOK
<1>2. mem[t] # NoMeta => mem[t].ver \in Held(t)
  BY DEF Held
<1> QED
  BY <1>1, <1>2, MoveVersions

-----------------------------------------------------------------------------
(* load_live_meta and load_typed: a copy has the version of its record.      *)
LEMMA LoadVersions ==
    ASSUME TypeInv, VersionInv, NEW t \in Threads,
           LoadMissing(t) \/ LoadExpired(t) \/ LoadFound(t)
    PROVE  VersionInv'
<1>0. /\ UNCHANGED <<clock, now>> /\ DiskVersions' = DiskVersions
      /\ ThreadsTypeOK /\ DiskTypeOK /\ Control(t) /\ pc[t] \in {"peek", "load"}
  BY DEF LoadMissing, LoadExpired, LoadFound, DiskVersions, disk, TypeInv, TypeOK, ControlOK
<1>1. CASE Finish(t)
  BY <1>0, <1>1, FinishVersions
<1>2. CASE LoadMissing(t) /\ ~Finish(t)
  <2>1. Goto(t, "alloc") /\ UNCHANGED <<cmd, mem, wb>>
    BY <1>2 DEF LoadMissing, Continue, MissingPc
  <2> QED
    BY <1>0, <2>1, GotoVersions
<1>3. CASE LoadExpired(t)
  <2>1. Goto(t, "expire") /\ UNCHANGED <<cmd, mem, wb>>
    BY <1>3 DEF LoadExpired
  <2> QED
    BY <1>0, <2>1, GotoVersions
<1>4. CASE LoadFound(t) /\ ~Finish(t)
  <2> DEFINE m == metas[Key(t)]
             next == FoundPc(t, m)
             copy == IF cmd[t].op = "expire" THEN [m EXCEPT !.exp = cmd[t].exp]
                     ELSE IF next = "exec" THEN m ELSE NoMeta
  <2>1. /\ Goto(t, next) /\ UNCHANGED <<cmd, wb>> /\ mem' = [mem EXCEPT ![t] = copy]
        /\ m # NoMeta
    BY <1>4 DEF LoadFound
  <2>2. Key(t) \in Keys
    BY <1>0 DEF Control, Key, ThreadsTypeOK, Creators, Removers
  <2>3. m \in Metas
    BY <1>0, <2>1, <2>2 DEF DiskTypeOK
  <2>4. m.ver \in DiskVersions
    BY <2>1, <2>2 DEF DiskVersions
  <2>5. copy # NoMeta => copy.ver \in DiskVersions
    BY <2>3, <2>4 DEF Metas
  <2>6. next \in {"register", "put"} => cmd[t].op = "expire"
    BY DEF FoundPc
  <2>7. wb' = [wb EXCEPT ![t] = wb[t]]
    BY <1>0, <2>1 DEF ThreadsTypeOK
  <2> HIDE DEF copy, next, m
  <2> QED
    BY <1>0, <2>1, <2>5, <2>6, <2>7, MoveVersions
<1> QED
  BY <1>1, <1>2, <1>3, <1>4

(* logical_delete, Overwrite and Register bring no version to disk.          *)
LEMMA ForgetVersions ==
    ASSUME TypeInv, VersionInv, NEW t \in Threads,
           DeleteMeta(t) \/ ForgetVersion(t) \/ Overwrite(t) \/ Register(t)
    PROVE  VersionInv'
<1>1. CASE DeleteMeta(t)
  <2>1. PICK next \in {"expired", "forget"} : Goto(t, next)
    BY <1>1 DEF DeleteMeta
  <2>2. DiskVersions' \subseteq DiskVersions
    BY <1>1, WriteVersions, SmallBatches DEF DeleteMeta
  <2> QED
    BY <1>1, <2>1, <2>2, GotoVersions DEF DeleteMeta
<1>2. CASE ForgetVersion(t) \/ Overwrite(t) \/ Register(t)
  <2>1. DiskVersions' = DiskVersions /\ UNCHANGED <<clock, now>>
    BY <1>2 DEF ForgetVersion, Overwrite, Register, DiskVersions, disk
  <2>2. CASE Finish(t)
    BY <2>1, <2>2, FinishVersions
  <2>3. CASE ~Finish(t)
    <3>1. PICK next \in {"alloc", "exec"} : Goto(t, next) /\ UNCHANGED <<cmd, mem, wb>>
      BY <1>2, <2>3 DEF ForgetVersion, Overwrite, Register, Continue, MissingPc
    <3> QED
      BY <2>1, <3>1, GotoVersions
  <2> QED
    BY <2>2, <2>3
<1> QED
  BY <1>1, <1>2

(* Versions are numbers.                                                     *)
LEMMA VersionsTyped ==
    ASSUME TypeInv
    PROVE  (\A v \in Carried : v \in Nat) /\ (\A t \in Threads : \A v \in Held(t) : v \in Nat)
<1>1. DiskVersions \subseteq Nat
  BY DEF TypeInv, TypeOK, DiskTypeOK, SubRecs, IdxRecs, Metas, DiskVersions
<1>2. \A u \in Threads : BatchVersions(wb[u]) \subseteq Nat
  BY DEF TypeInv, TypeOK, ThreadsTypeOK, Batches, SubRecs, IdxRecs, Metas, BatchVersions
<1>3. \A t \in Threads : \A v \in Held(t) : v \in Nat
  BY DEF TypeInv, TypeOK, ThreadsTypeOK, Held, Metas
<1> QED
  BY <1>1, <1>2, <1>3 DEF Carried

(* next_version: what it returns is past everything, and the next value is   *)
(* past that.                                                                *)
LEMMA AllocVersions ==
    ASSUME TypeInv, VersionInv, NEW t \in Threads, Alloc(t)
    PROVE  VersionInv'
<1> DEFINE n == next_version
<1>0. MapTypeOK /\ ThreadsTypeOK
  BY DEF TypeInv, TypeOK
<1>1. n \in Nat /\ next_version' = n + 1
  BY <1>0 DEF Alloc, Drawn, MapTypeOK, next_version
<1>2. /\ \A u \in Threads \ {t} :
            pc'[u] = pc[u] /\ cmd'[u] = cmd[u] /\ mem'[u] = mem[u]
      /\ wb' = wb /\ mem'[t].ver = n
  BY <1>0 DEF Alloc, Drawn, Goto, ThreadsTypeOK, Meta
<1>3. Carried' = Carried
  BY <1>2 DEF Alloc, Drawn, Carried, DiskVersions, disk
<1>4. Held(t)' \subseteq {n} /\ \A u \in Threads \ {t} : Held(u)' = Held(u)
  BY <1>2 DEF Held
<1>5. (\A v \in Carried : v \in Nat) /\ (\A u \in Threads : \A v \in Held(u) : v \in Nat)
  BY VersionsTyped
<1> HIDE DEF n
<1>7. (\A v \in Carried : v < n) /\ (\A u \in Threads : \A v \in Held(u) : v < n)
  BY DEF VersionInv, n
<1>8. \A v \in Carried' : v < next_version'
  BY <1>1, <1>3, <1>5, <1>7
<1>9. \A u \in Threads : \A v \in Held(u)' : v < next_version'
  BY <1>1, <1>4, <1>5, <1>7
<1>10. ASSUME NEW u \in Threads, Drawing(u)'
       PROVE  mem'[u].ver \notin Carried' /\ \A w \in Threads \ {u} : mem'[u].ver \notin Held(w)'
  <2>1. CASE u = t
    BY <1>1, <1>2, <1>3, <1>4, <1>7, <2>1
  <2>2. CASE u # t
    <3>1. Drawing(u) /\ mem'[u] = mem[u]
      BY <1>2, <1>10, <2>2 DEF Drawing
    <3>2. mem[u].ver \notin Carried /\ \A w \in Threads \ {u} : mem[u].ver \notin Held(w)
      BY <3>1 DEF VersionInv
    <3>3. mem[u].ver # n
      <4>1. pc[u] \in {"register", "put"} /\ Control(u)
        BY <3>1 DEF Drawing, TypeInv, ControlOK
      <4>2. mem[u] \in Metas
        BY <4>1 DEF Control
      <4>3. mem[u].ver \in Held(u)
        BY <4>2, NoMetaAssumption DEF Held
      <4> QED
        BY <1>1, <1>5, <1>7, <4>3
    <3> QED
      BY <1>3, <1>4, <3>1, <3>2, <3>3
  <2> QED
    BY <2>1, <2>2
<1> QED
  BY <1>8, <1>9, <1>10 DEF VersionInv

(* put_meta and the batch of a composite command.                            *)
LEMMA CommitVersions ==
    ASSUME TypeInv, VersionInv, NEW t \in Threads, PutMeta(t) \/ Commit(t)
    PROVE  VersionInv'
<1>1. CASE PutMeta(t)
  <2>1. DiskVersions' \subseteq DiskVersions \cup Held(t)
    BY <1>1, WriteVersions, SmallBatches DEF PutMeta, Held
  <2> QED
    BY <1>1, <2>1, FinishVersions DEF PutMeta
<1>2. CASE Commit(t)
  <2>1. DiskVersions' \subseteq DiskVersions \cup BatchVersions(wb[t])
    BY <1>2, WriteVersions DEF Commit
  <2>2. CASE Finish(t)
    BY <1>2, <2>1, <2>2, FinishVersions DEF Commit
  <2>3. CASE ~Finish(t)
    <3>1. /\ Goto(t, "delete") /\ UNCHANGED <<cmd, clock, now>>
          /\ mem' = [mem EXCEPT ![t] = NoMeta] /\ wb' = [wb EXCEPT ![t] = NoBatch]
      BY <1>2, <2>3 DEF Commit
    <3> QED
      BY <2>1, <3>1, SmallBatches, MoveVersions
  <2> QED
    BY <2>2, <2>3
<1> QED
  BY <1>1, <1>2

(* The body of a composite command builds its batch under its own version.   *)
LEMMA ExecVersions ==
    ASSUME TypeInv, VersionInv, NEW t \in Threads, Exec(t)
    PROVE  VersionInv'
<1>0. /\ ThreadsTypeOK /\ DiskTypeOK /\ Control(t) /\ pc[t] = "exec"
      /\ UNCHANGED <<clock, now>> /\ DiskVersions' = DiskVersions
  BY DEF Exec, TypeInv, TypeOK, ControlOK, DiskVersions, disk
<1> DEFINE op == cmd[t].op
           plan == Plan(op, Key(t), mem[t], cmd[t].args)
<1>1. /\ op \in Creators \cup Removers /\ mem[t] \in Metas /\ cmd[t].args \in Args[op]
      /\ Key(t) \in Keys
  BY <1>0 DEF Control, ThreadsTypeOK, Ops, Key, Creators, Removers
<1>2. GoodPlan(plan, Key(t), mem[t], op)
  BY <1>0, <1>1, PlanGood DEF DiskTypeOK
<1>3. CASE plan.to = "idle"
  BY <1>0, <1>3, FinishVersions DEF Exec
<1>4. CASE plan.to # "idle"
  <2>1. /\ Goto(t, plan.to) /\ UNCHANGED cmd
        /\ mem' = [mem EXCEPT ![t] = NoMeta] /\ wb' = [wb EXCEPT ![t] = plan.batch]
    BY <1>4 DEF Exec
  <2> HIDE DEF plan
  <2>2. mem[t].ver \in Held(t)
    BY <1>1, NoMetaAssumption DEF Held
  <2>3. BatchVersions(plan.batch) \subseteq Held(t)
    BY <1>2, <1>4, <2>2 DEF GoodPlan, OwnRecords, BatchVersions
  <2>4. plan.to \in {"commit", "empty"}
    BY <1>2, <1>4 DEF GoodPlan
  <2> QED
    BY <1>0, <2>1, <2>3, <2>4, MoveVersions
<1> QED
  BY <1>3, <1>4

(* flush_all puts nothing.                                                   *)
LEMMA FlushVersions ==
    ASSUME TypeInv, VersionInv, NEW t \in Threads,
           FlushMeta(t) \/ FlushSub(t) \/ FlushIdx(t) \/ FlushWrite(t) \/ FlushClear(t)
    PROVE  VersionInv'
<1>0. ThreadsTypeOK /\ wb[t] \in Batches
  BY DEF TypeInv, TypeOK, ThreadsTypeOK
<1>1. CASE FlushMeta(t) \/ FlushSub(t) \/ FlushIdx(t)
  <2>1. DiskVersions' = DiskVersions /\ UNCHANGED <<clock, now, cmd>>
    BY <1>1 DEF FlushMeta, FlushSub, FlushIdx, DiskVersions, disk
  <2>2. PICK next \in {"flushSub", "flushIdx", "flushWrite"} : Goto(t, next)
    BY <1>1 DEF FlushMeta, FlushSub, FlushIdx
  <2>3. PICK b : /\ wb' = [wb EXCEPT ![t] = b]
                 /\ b.puts = wb[t].puts /\ b.iputs = wb[t].iputs /\ b.mput = wb[t].mput
    <3>1. CASE FlushMeta(t)
      <4> DEFINE b == [wb[t] EXCEPT !.mdel = {k \in Keys : metas[k] # NoMeta}]
      <4>1. wb' = [wb EXCEPT ![t] = b]
        BY <3>1 DEF FlushMeta
      <4>2. b.puts = wb[t].puts /\ b.iputs = wb[t].iputs /\ b.mput = wb[t].mput
        BY <1>0 DEF Batches
      <4> QED
        BY <4>1, <4>2
    <3>2. CASE FlushSub(t)
      <4> DEFINE b == [wb[t] EXCEPT !.dels = subs]
      <4>1. wb' = [wb EXCEPT ![t] = b]
        BY <3>2 DEF FlushSub
      <4>2. b.puts = wb[t].puts /\ b.iputs = wb[t].iputs /\ b.mput = wb[t].mput
        BY <1>0 DEF Batches
      <4> QED
        BY <4>1, <4>2
    <3>3. CASE FlushIdx(t)
      <4> DEFINE b == [wb[t] EXCEPT !.idels = index]
      <4>1. wb' = [wb EXCEPT ![t] = b]
        BY <3>3 DEF FlushIdx
      <4>2. b.puts = wb[t].puts /\ b.iputs = wb[t].iputs /\ b.mput = wb[t].mput
        BY <1>0 DEF Batches
      <4> QED
        BY <4>1, <4>2
    <3> QED
      BY <1>1, <3>1, <3>2, <3>3
  <2>4. BatchVersions(b) = BatchVersions(wb[t])
    BY <2>3 DEF BatchVersions
  <2>5. mem' = [mem EXCEPT ![t] = mem[t]] /\ (mem[t] # NoMeta => mem[t].ver \in Held(t))
    BY <1>0, <1>1 DEF FlushMeta, FlushSub, FlushIdx, ThreadsTypeOK, Held
  <2> QED
    BY <2>1, <2>2, <2>3, <2>4, <2>5, MoveVersions
<1>2. CASE FlushWrite(t)
  <2>1. DiskVersions' \subseteq DiskVersions \cup BatchVersions(wb[t])
    BY <1>2, WriteVersions DEF FlushWrite
  <2>2. mem' = [mem EXCEPT ![t] = mem[t]] /\ (mem[t] # NoMeta => mem[t].ver \in Held(t))
    BY <1>0, <1>2 DEF FlushWrite, ThreadsTypeOK, Held
  <2> QED
    BY <1>2, <2>1, <2>2, SmallBatches, MoveVersions DEF FlushWrite
<1>3. CASE FlushClear(t)
  <2>1. DiskVersions' = DiskVersions
    BY <1>3 DEF FlushClear, DiskVersions, disk
  <2> QED
    BY <1>3, <2>1, FinishVersions DEF FlushClear
<1> QED
  BY <1>1, <1>2, <1>3

-----------------------------------------------------------------------------
(* Starting a command changes no version.                                    *)
LEMMA StartVersions ==
    ASSUME TypeInv, VersionInv, NEW t \in Threads, Start(t)
    PROVE  VersionInv'
<1>1. PICK op \in Ops, k \in Keys \cup {NoKey} : \E a \in Args[op] : Begin(t, op, k, a)
  BY DEF Start
<1>2. PICK a \in Args[op] : Begin(t, op, k, a)
  BY <1>1
<1>3. /\ UNCHANGED <<clock, now, mem, wb>> /\ DiskVersions' = DiskVersions
      /\ pc'[t] = FirstPc(op)
      /\ \A u \in Threads \ {t} : pc'[u] = pc[u] /\ cmd'[u] = cmd[u]
  BY <1>2 DEF Begin, Goto, DiskVersions, disk, TypeInv, TypeOK, ThreadsTypeOK
<1>4. Held(t)' = Held(t) /\ ~Drawing(t)'
  BY <1>3 DEF Held, Drawing, FirstPc
<1> QED
  BY <1>3, <1>4, VersionStep

(* Neither do compactions, the clock and the rebuild: they only lose records *)
(* and move the next version up.  A restart loses the counter, and the wall  *)
(* clock takes its place.                                                    *)
LEMMA EnvironmentVersions ==
    ASSUME NoClockBack, TypeInv, VersionInv,
           CompactionDrop \/ compact \/ Tick \/ UNCHANGED vars \/ Restart \/ Boot
    PROVE  VersionInv'
<1>0. /\ \A v \in Carried : v \in Nat
      /\ \A t \in Threads : \A v \in Held(t) : v \in Nat
      /\ next_version \in Nat \ {0} /\ MapTypeOK
  BY VersionsTyped, NextVersionType DEF TypeInv, TypeOK
<1>1. DiskVersions' \subseteq DiskVersions
  <2>1. CASE CompactionDrop \/ compact
    BY <2>1 DEF CompactionDrop, compact, DiskVersions
  <2>2. CASE Tick \/ UNCHANGED vars \/ Restart \/ Boot
    BY <2>2 DEF Tick, vars, Restart, Boot, install_gc, RebuildKey, Serve, DiskVersions, disk
  <2> QED
    BY <2>1, <2>2
<1>2. next_version' \in Nat /\ next_version' >= next_version
  <2>1. CASE Restart
    <3>1. clock' = 0 /\ now' = next_version
      BY <2>1 DEF Restart, RestartClock, NoClockBack, next_version
    <3>2. next_version' = IF clock' + 1 > now' THEN clock' + 1 ELSE now'
      BY DEF next_version
    <3> QED
      BY <1>0, <3>1, <3>2
  <2>2. CASE ~Restart
    <3>1. clock' = clock /\ (now' = now \/ now' = now + 1)
      BY <2>2 DEF CompactionDrop, compact, Tick, vars, Boot, install_gc, RebuildKey, Serve
    <3>2. clock \in Nat /\ now \in Nat
      BY <1>0 DEF MapTypeOK
    <3>3. CASE now' = now
      BY <1>0, <3>1, <3>3 DEF next_version
    <3>4. CASE now' = now + 1
      BY <3>1, <3>2, <3>4 DEF next_version
    <3> QED
      BY <3>1, <3>3, <3>4
  <2> QED
    BY <2>1, <2>2
<1>3. CASE Restart
  <2>1. \A t \in Threads : mem'[t] = NoMeta /\ wb'[t] = NoBatch /\ pc'[t] = "idle"
    BY <1>3 DEF Restart
  <2>2. Carried' \subseteq Carried
    BY <1>1, <2>1, SmallBatches DEF Carried
  <2>3. \A t \in Threads : Held(t)' = {} /\ ~Drawing(t)'
    BY <2>1 DEF Held, Drawing
  <2> QED
    BY <1>0, <1>2, <2>2, <2>3 DEF VersionInv
<1>4. CASE ~Restart
  <2>1. UNCHANGED <<pc, cmd, mem, wb>>
    BY <1>4 DEF CompactionDrop, compact, Tick, vars, Boot, install_gc, RebuildKey, Serve, local
  <2>2. Carried' \subseteq Carried
    BY <1>1, <2>1 DEF Carried
  <2>3. \A t \in Threads : Held(t)' = Held(t) /\ Drawing(t)' = Drawing(t)
    BY <2>1 DEF Held, Drawing
  <2>4. (\A v \in Carried' : v < next_version')
        /\ (\A t \in Threads : \A v \in Held(t)' : v < next_version')
    BY <1>0, <1>2, <2>2, <2>3 DEF VersionInv
  <2>5. \A t \in Threads : Drawing(t)' =>
           mem'[t].ver \notin Carried' /\ \A u \in Threads \ {t} : mem'[t].ver \notin Held(u)'
    BY <2>1, <2>2, <2>3 DEF VersionInv
  <2> QED
    BY <2>4, <2>5 DEF VersionInv
<1> QED
  BY <1>3, <1>4

LEMMA InitVersions == Init => VersionInv
<1> SUFFICES ASSUME Init PROVE VersionInv
  OBVIOUS
<1>1. DiskVersions = {} /\ \A t \in Threads : BatchVersions(wb[t]) = {}
  BY SmallBatches DEF Init, DiskVersions
<1>2. Carried = {}
  BY <1>1 DEF Carried
<1>3. \A t \in Threads : Held(t) = {} /\ ~Drawing(t)
  BY DEF Init, Held, Drawing
<1> QED
  BY <1>2, <1>3 DEF VersionInv

LEMMA NextVersions == NoClockBack /\ TypeInv /\ VersionInv /\ [Next]_vars => VersionInv'
<1> SUFFICES ASSUME NoClockBack, TypeInv, VersionInv, [Next]_vars PROVE VersionInv'
  OBVIOUS
<1>1. ASSUME NEW t \in Threads, Start(t) PROVE VersionInv'
  BY <1>1, StartVersions
<1>2. ASSUME NEW t \in Threads, Step(t) PROVE VersionInv'
  BY <1>2, LoadVersions, ForgetVersions, AllocVersions, CommitVersions, ExecVersions,
     FlushVersions DEF Step
<1>3. ASSUME NEW t \in Threads, WriteFails(t) PROVE VersionInv'
  <2>1. DiskVersions' = DiskVersions /\ Finish(t) /\ UNCHANGED <<clock, now>>
    BY <1>3 DEF WriteFails, DiskVersions, disk
  <2> QED
    BY <2>1, FinishVersions
<1> QED
  BY <1>1, <1>2, <1>3, EnvironmentVersions DEF Next

(* What is unknown to disk, batches and other threads is what FreshVersion   *)
(* names.                                                                    *)
LEMMA VersionInvFresh == TypeInv /\ VersionInv => FreshVersion
<1> SUFFICES ASSUME TypeInv, VersionInv, NEW t \in Threads, Drawing(t)
             PROVE  /\ \A r \in subs : r.ver # mem[t].ver
                    /\ \A r \in index : r.ver # mem[t].ver
                    /\ \A k \in Keys : metas[k] # NoMeta => metas[k].ver # mem[t].ver
                    /\ \A u \in Threads \ {t} : mem[u] # NoMeta => mem[u].ver # mem[t].ver
  BY DEF FreshVersion, Drawing
<1>1. mem[t].ver \notin DiskVersions /\ \A u \in Threads \ {t} : mem[t].ver \notin Held(u)
  BY DEF VersionInv, Carried
<1> QED
  BY <1>1 DEF DiskVersions, Held

(* The invariants this module adds to type correctness, along a behaviour.   *)
LEMMA VersionsAlong == NoClockBack => (Spec => [](TypeInv /\ Booting /\ VersionInv))
<1> SUFFICES ASSUME NoClockBack PROVE Spec => [](TypeInv /\ Booting /\ VersionInv)
  OBVIOUS
<1>1. Init => TypeInv /\ Booting /\ VersionInv
  BY InitType, InitVersions DEF Init, Booting, Running
<1>2. TypeInv /\ Booting /\ VersionInv /\ [Next]_vars => (TypeInv /\ Booting /\ VersionInv)'
  BY NextType, NextBooting, NextVersions
<1> QED
  BY <1>1, <1>2, PTL DEF Spec

(* A version next_version has handed out and its thread has not written is   *)
(* on no record, in no metadata and with no other thread, for any number of  *)
(* threads, whatever overlaps, crashes or fails, unless the wall clock steps *)
(* back across a restart.                                                    *)
THEOREM VersionsAreFresh == NoClockBack => (Spec => []FreshVersion)
<1> SUFFICES ASSUME NoClockBack PROVE Spec => []FreshVersion
  OBVIOUS
<1>1. Spec => [](TypeInv /\ Booting /\ VersionInv)
  BY VersionsAlong
<1>2. TypeInv /\ Booting /\ VersionInv => FreshVersion
  BY VersionInvFresh
<1> QED
  BY <1>1, <1>2, PTL

-----------------------------------------------------------------------------
(* While the store serves, a map entry is only dropped or set to a version   *)
(* that its thread has just drawn.                                           *)
LEMMA MapEntryStep ==
    ASSUME TypeInv, [Next]_vars, boot = "serving", boot' = "serving", NEW k \in Keys
    PROVE  \/ versions'[k] \in {versions[k], 0}
           \/ \E t \in Threads : Drawing(t) /\ versions'[k] = mem[t].ver
<1>0. MapTypeOK /\ ControlOK
  BY DEF TypeInv, TypeOK
<1>1. ASSUME NEW t \in Threads, Start(t) \/ WriteFails(t) PROVE versions'[k] = versions[k]
  BY <1>1 DEF Start, Begin, WriteFails
<1>2. ASSUME NEW t \in Threads, Step(t), ~Register(t) PROVE versions'[k] \in {versions[k], 0}
  <2>1. CASE ForgetVersion(t) \/ Overwrite(t) \/ FlushClear(t)
    BY <1>0, <2>1 DEF ForgetVersion, Overwrite, FlushClear, MapTypeOK
  <2>2. CASE ~(ForgetVersion(t) \/ Overwrite(t) \/ FlushClear(t))
    BY <1>2, <2>2 DEF Step, LoadMissing, LoadExpired, LoadFound, DeleteMeta, Alloc, Drawn, PutMeta,
       Exec, Commit, FlushMeta, FlushSub, FlushIdx, FlushWrite
  <2> QED
    BY <2>1, <2>2
<1>3. ASSUME NEW t \in Threads, Register(t), versions'[k] # versions[k]
      PROVE  Drawing(t) /\ versions'[k] = mem[t].ver
  <2>1. pc[t] = "register" /\ versions'[k] = mem[t].ver
    BY <1>0, <1>3 DEF Register, MapTypeOK
  <2> QED
    BY <1>0, <2>1 DEF ControlOK, Control, Drawing, Creators
<1>4. CASE CompactionDrop \/ compact \/ Tick \/ UNCHANGED vars \/ Restart \/ Boot
  BY <1>4 DEF CompactionDrop, compact, Tick, vars, Restart, Boot, install_gc, RebuildKey, Serve
<1> QED
  BY <1>1, <1>2, <1>3, <1>4 DEF Next

(* What the compaction filter has condemned is garbage for the rest of the   *)
(* process's life, also when commands on one key overlap: the time between   *)
(* the filter's decision and the drop does not matter.  Compactions during   *)
(* the rebuild and a clock that steps back are excluded.                     *)
THEOREM CondemnedStays ==
    NoClockBack /\ "bootCompaction" \notin Faults => (Spec => GarbageStays)
<1> SUFFICES ASSUME NoClockBack, "bootCompaction" \notin Faults PROVE Spec => GarbageStays
  OBVIOUS
<1> DEFINE Inv == TypeInv /\ Booting /\ VersionInv
           Stays == GcActive /\ GcActive' =>
                      /\ \A r \in subs \cap subs' : ~should_keep(r) => ~should_keep(r)'
                      /\ \A r \in index \cap index' : ~should_keep(r) => ~should_keep(r)'
<1>1. Spec => []Inv
  BY VersionsAlong
<1>2. Inv /\ [Next]_vars => [Stays]_vars
  <2> SUFFICES ASSUME Inv, [Next]_vars, GcActive, GcActive' PROVE Stays
    OBVIOUS
  <2>1. boot = "serving" /\ boot' = "serving"
    BY DEF GcActive
  <2>2. FreshVersion
    BY VersionInvFresh
  <2>3. ASSUME NEW r \in subs \cup index, ~should_keep(r) PROVE ~should_keep(r)'
    <3>1. r.key \in Keys
      BY DEF TypeInv, TypeOK, DiskTypeOK, SubRecs, IdxRecs
    <3>2. \A t \in Threads : Drawing(t) => r.ver # mem[t].ver
      BY <2>2 DEF FreshVersion, Drawing
    <3> QED
      BY <2>1, <2>3, <3>1, <3>2, MapEntryStep DEF should_keep
  <2> QED
    BY <2>3
<1> QED
  BY <1>1, <1>2, PTL DEF Spec, GarbageStays
-----------------------------------------------------------------------------
(* The records of a deleted or replaced structure never come back: with      *)
(* commands on one key run one after the other, a command writes metadata    *)
(* only of the structure on disk or of one that has no record there yet.     *)
(* Crashes, failing writes and compactions at any time are allowed.          *)

OneAtATime == "overlap" \notin Faults /\ NoClockBack

(* A running thread has a key of the store, unless it flushes.               *)
LEMMA RunningKey ==
    ASSUME TypeInv, Booting, NEW t \in Threads, Running(t)
    PROVE  /\ cmd[t].op # "flush" => Key(t) \in Keys
           /\ boot = "serving" /\ todo = {}
  BY DEF TypeInv, TypeOK, ThreadsTypeOK, ControlOK, Control, Booting, Running, Key

(* A step of one thread that touches metadata and records of its own key     *)
(* only preserves what the other threads know of theirs.                     *)
LEMMA OwnStep ==
    ASSUME SerialInv, TypeInv', Booting', VersionInv', NEW t \in Threads, Running(t),
           cmd[t].op # "flush", NEW k \in Keys, k = Key(t),
           \A u \in Threads \ {t} :
              pc'[u] = pc[u] /\ cmd'[u] = cmd[u] /\ mem'[u] = mem[u] /\ wb'[u] = wb[u],
           cmd'[t] = cmd[t] \/ pc'[t] = "idle",
           \A x \in Keys \ {k} : metas'[x] = metas[x],
           \A r \in subs' \cup index' : r.key # k => r \in subs \cup index,
           Anchored(t)'
    PROVE  SerialInv'
<1>1. Exclusive'
  BY DEF SerialInv, Exclusive, Running, Key
<1>2. ASSUME NEW u \in Threads PROVE Anchored(u)'
  <2>1. CASE u # t /\ Running(u)
    <3>1. cmd[u].op # "flush" /\ Key(u) # k /\ Key(u) \in Keys /\ Anchored(u)
      BY <2>1, RunningKey DEF SerialInv, Exclusive
    <3>2. Key(u)' = Key(u) /\ metas'[Key(u)] = metas[Key(u)]
      BY <2>1, <3>1 DEF Key
    <3>3. \A ver : NoRecords(Key(u), ver) => NoRecords(Key(u), ver)'
      BY <3>1, <3>2 DEF NoRecords
    <3>4. \A m : Holding(Key(u), m) => Holding(Key(u), m)'
      BY <3>2 DEF Holding
    <3>5. \A m : Anchor(Key(u), m) => Anchor(Key(u), m)'
      BY <3>2, <3>3, <3>4 DEF Anchor
    <3>6. pc'[u] = pc[u] /\ cmd'[u] = cmd[u] /\ mem'[u] = mem[u] /\ wb'[u] = wb[u]
      BY <2>1
    <3> QED
      BY <3>1, <3>2, <3>4, <3>5, <3>6 DEF Anchored
  <2>2. CASE u # t /\ ~Running(u)
    BY <2>2 DEF Anchored, Running
  <2> QED
    BY <2>1, <2>2
<1> QED
  BY <1>1, <1>2 DEF SerialInv

(* Ending a command, after a write of the own key or none at all.            *)
LEMMA FinishSerial ==
    ASSUME SerialInv, TypeInv', Booting', VersionInv', NEW t \in Threads, Running(t),
           cmd[t].op # "flush", Finish(t),
           \A x \in Keys \ {Key(t)} : metas'[x] = metas[x],
           \A r \in subs' \cup index' : r.key # Key(t) => r \in subs \cup index
    PROVE  SerialInv'
<1>1. /\ \A u \in Threads \ {t} :
            pc'[u] = pc[u] /\ cmd'[u] = cmd[u] /\ mem'[u] = mem[u] /\ wb'[u] = wb[u]
      /\ pc'[t] = "idle"
  BY DEF Finish, SerialInv, TypeInv, TypeOK, ThreadsTypeOK
<1>2. Anchored(t)'
  BY <1>1 DEF Anchored
<1>3. PICK k \in Keys : k = Key(t)
  BY RunningKey DEF SerialInv
<1> QED
  BY <1>1, <1>2, <1>3, OwnStep

-----------------------------------------------------------------------------
(* load_live_meta and load_typed.                                            *)
LEMMA LoadSerial ==
    ASSUME SerialInv, TypeInv', Booting', VersionInv', NEW t \in Threads,
           LoadMissing(t) \/ LoadExpired(t) \/ LoadFound(t)
    PROVE  SerialInv'
<1>0. /\ TypeInv /\ Booting /\ ThreadsTypeOK /\ Control(t) /\ DiskTypeOK
      /\ pc[t] \in {"peek", "load"} /\ Running(t)
      /\ UNCHANGED <<metas, subs, index>>
  BY DEF SerialInv, TypeInv, TypeOK, ControlOK, LoadMissing, LoadExpired, LoadFound, disk, Running
<1>a. cmd[t].op # "flush" /\ Key(t) \in Keys
  BY <1>0, RunningKey DEF Control, Creators, Removers
<1>1. PICK k \in Keys : k = Key(t)
  BY <1>a
<1>2. CASE Finish(t)
  BY <1>0, <1>a, <1>2, FinishSerial
<1>3. CASE ~Finish(t)
  <2>1. /\ \A u \in Threads \ {t} :
              pc'[u] = pc[u] /\ cmd'[u] = cmd[u] /\ mem'[u] = mem[u] /\ wb'[u] = wb[u]
        /\ cmd'[t] = cmd[t] /\ Key(t)' = k
    BY <1>0, <1>1, <1>3
    DEF LoadMissing, LoadExpired, LoadFound, Continue, Goto, ThreadsTypeOK, Key
  <2>2. Anchored(t)'
    <3>1. CASE LoadMissing(t)
      <4>1. pc'[t] = "alloc" /\ metas'[k] = NoMeta
        BY <1>0, <1>1, <1>3, <3>1 DEF LoadMissing, MissingPc, Continue, Goto, ThreadsTypeOK
      <4> QED
        BY <2>1, <4>1 DEF Anchored
    <3>2. CASE LoadExpired(t)
      <4>1. pc'[t] = "expire"
        BY <1>0, <3>2 DEF LoadExpired, Goto, ThreadsTypeOK
      <4> QED
        BY <4>1 DEF Anchored
    <3>3. CASE LoadFound(t)
      <4> DEFINE m == metas[k]
                 next == FoundPc(t, m)
      <4>1. /\ pc'[t] = next /\ next # "idle" /\ m # NoMeta
            /\ mem'[t] = IF cmd[t].op = "expire" THEN [m EXCEPT !.exp = cmd[t].exp]
                         ELSE IF next = "exec" THEN m ELSE NoMeta
        BY <1>0, <1>1, <1>3, <3>3 DEF LoadFound, Goto, ThreadsTypeOK
      <4>2. m \in Metas
        BY <1>0, <4>1 DEF DiskTypeOK
      <4>3. /\ next \in {"delete", "put", "load", "exec"}
            /\ next = "exec" => cmd[t].op # "expire"
        BY <1>0, <4>1 DEF FoundPc, Control, FlushPcs, Creators, Removers
      <4>4. cmd[t].op = "expire" => mem'[t].ver = m.ver /\ mem'[t].type = m.type
        BY <4>1, <4>2 DEF Metas
      <4>5. metas'[k] = m
        BY <1>0
      <4> HIDE DEF m, next
      <4>6. next = "exec" => Holding(k, mem[t])'
        BY <4>1, <4>3, <4>5 DEF Holding
      <4>7. cmd[t].op = "expire" => Holding(k, mem[t])'
        BY <4>1, <4>4, <4>5 DEF Holding
      <4> QED
        BY <2>1, <4>1, <4>3, <4>6, <4>7 DEF Anchored, Anchor
    <3> QED
      BY <3>1, <3>2, <3>3
  <2> QED
    BY <1>0, <1>a, <1>1, <2>1, <2>2, OwnStep
<1> QED
  BY <1>2, <1>3

(* logical_delete.                                                           *)
LEMMA DeleteSerial ==
    ASSUME SerialInv, TypeInv', Booting', VersionInv', NEW t \in Threads,
           DeleteMeta(t) \/ ForgetVersion(t)
    PROVE  SerialInv'
<1>0. /\ TypeInv /\ Booting /\ ThreadsTypeOK /\ Control(t) /\ DiskTypeOK
      /\ pc[t] \in {"expire", "delete", "expired", "forget"} /\ Running(t)
  BY DEF SerialInv, TypeInv, TypeOK, ControlOK, DeleteMeta, ForgetVersion, Running
<1>a. cmd[t].op # "flush" /\ Key(t) \in Keys
  BY <1>0, RunningKey DEF Control, Creators, Removers
<1>1. PICK k \in Keys : k = Key(t)
  BY <1>a
<1>2. \A x \in Keys \ {k} : metas'[x] = metas[x]
  BY <1>0, <1>1 DEF DeleteMeta, ForgetVersion, write, NoBatch, DiskTypeOK, disk
<1>3. subs' = subs /\ index' = index
  BY DEF DeleteMeta, ForgetVersion, write, NoBatch, disk
<1>4. metas'[k] = NoMeta
  <2>1. CASE DeleteMeta(t)
    BY <1>1, <2>1 DEF DeleteMeta, write, NoBatch
  <2>2. CASE ForgetVersion(t)
    BY <1>1, <2>2 DEF ForgetVersion, disk, SerialInv, Anchored
  <2> QED
    BY <2>1, <2>2
<1>5. CASE Finish(t)
  BY <1>0, <1>a, <1>1, <1>2, <1>3, <1>5, FinishSerial
<1>6. CASE ~Finish(t)
  <2>1. /\ \A u \in Threads \ {t} :
              pc'[u] = pc[u] /\ cmd'[u] = cmd[u] /\ mem'[u] = mem[u] /\ wb'[u] = wb[u]
        /\ cmd'[t] = cmd[t] /\ Key(t)' = k
        /\ pc'[t] \in {"expired", "forget", "alloc"}
    BY <1>0, <1>1, <1>6
    DEF DeleteMeta, ForgetVersion, Continue, MissingPc, Goto, ThreadsTypeOK, Key
  <2>2. Anchored(t)'
    BY <1>4, <2>1 DEF Anchored
  <2> QED
    BY <1>0, <1>a, <1>1, <1>2, <1>3, <2>1, <2>2, OwnStep
<1> QED
  BY <1>5, <1>6

(* SET's first step, and the creation of a composite key: the version it     *)
(* registers is on no record.                                                *)
LEMMA CreateSerial ==
    ASSUME SerialInv, TypeInv', Booting', VersionInv', NEW t \in Threads,
           Overwrite(t) \/ Alloc(t) \/ Register(t)
    PROVE  SerialInv'
<1>0. /\ TypeInv /\ Booting /\ ThreadsTypeOK /\ Control(t) /\ Anchored(t)
      /\ pc[t] \in {"overwrite", "alloc", "register"} /\ Running(t)
      /\ UNCHANGED <<metas, subs, index, cmd>>
  BY DEF SerialInv, TypeInv, TypeOK, ControlOK, Overwrite, Alloc, Drawn, Register, disk, Running
<1>a. cmd[t].op # "flush" /\ Key(t) \in Keys
  BY <1>0, RunningKey DEF Control, Creators, Removers
<1>1. PICK k \in Keys : k = Key(t)
  BY <1>a
<1>2. /\ \A u \in Threads \ {t} :
            pc'[u] = pc[u] /\ cmd'[u] = cmd[u] /\ mem'[u] = mem[u] /\ wb'[u] = wb[u]
      /\ cmd'[t] = cmd[t] /\ Key(t)' = k
  BY <1>0, <1>1 DEF Overwrite, Alloc, Drawn, Register, Goto, ThreadsTypeOK, Key
<1>3. Anchored(t)'
  <2>1. CASE Overwrite(t)
    <3>1. pc'[t] = "alloc" /\ cmd[t].op = "set"
      BY <1>0, <2>1 DEF Overwrite, Goto, ThreadsTypeOK, Control
    <3> QED
      BY <1>2, <3>1 DEF Anchored
  <2>2. CASE Alloc(t)
    <3>1. pc[t] = "alloc" /\ pc'[t] = IF cmd[t].op = "set" THEN "put" ELSE "register"
      BY <1>0, <2>2 DEF Alloc, Drawn, Goto, ThreadsTypeOK
    <3>2. cmd[t].op # "set" => metas'[k] = NoMeta
      BY <1>0, <1>1, <3>1 DEF Anchored
    <3>3. cmd[t].op # "expire"
      BY <1>0, <3>1 DEF Control, Creators
    <3> QED
      BY <1>2, <3>1, <3>2, <3>3 DEF Anchored
  <2>3. CASE Register(t)
    <3>1. pc[t] = "register" /\ pc'[t] = "exec" /\ mem'[t] = mem[t] /\ cmd[t].op \in Creators
      BY <1>0, <2>3 DEF Register, Goto, ThreadsTypeOK, Control
    <3>2. cmd[t].op \notin Removers \cup {"set", "expire"}
      BY <3>1 DEF Creators, Removers
    <3>3. FreshVersion
      BY <1>0, VersionInvFresh DEF SerialInv
    <3>4. NoRecords(k, mem[t].ver)'
      BY <1>0, <3>1, <3>2, <3>3 DEF FreshVersion, NoRecords
    <3>5. metas'[k] = NoMeta
      BY <1>0, <1>1, <3>1, <3>2 DEF Anchored
    <3>6. Anchor(k, mem[t])'
      BY <3>4, <3>5 DEF Anchor
    <3> QED
      BY <1>2, <3>1, <3>2, <3>6 DEF Anchored
  <2> QED
    BY <2>1, <2>2, <2>3
<1> QED
  BY <1>0, <1>a, <1>1, <1>2, <1>3, OwnStep

(* The body of a composite command.                                          *)
LEMMA ExecSerial ==
    ASSUME SerialInv, TypeInv', Booting', VersionInv', NEW t \in Threads, Exec(t)
    PROVE  SerialInv'
<1>0. /\ TypeInv /\ Booting /\ ThreadsTypeOK /\ Control(t) /\ DiskTypeOK /\ Anchored(t)
      /\ pc[t] = "exec" /\ Running(t)
      /\ UNCHANGED <<metas, subs, index>>
  BY DEF SerialInv, TypeInv, TypeOK, ControlOK, Exec, Running, disk
<1>a. cmd[t].op # "flush" /\ Key(t) \in Keys
  BY <1>0, RunningKey DEF Control, Creators, Removers
<1>1. PICK k \in Keys : k = Key(t)
  BY <1>a
<1> DEFINE op == cmd[t].op
           plan == Plan(op, Key(t), mem[t], cmd[t].args)
<1>2. op \in Creators \cup Removers /\ mem[t] \in Metas /\ cmd[t].args \in Args[op]
  BY <1>0 DEF Control, ThreadsTypeOK, Ops
<1>3. GoodPlan(plan, Key(t), mem[t], op)
  BY <1>0, <1>a, <1>2, PlanGood DEF DiskTypeOK
<1>4. CASE plan.to = "idle"
  BY <1>0, <1>a, <1>4, FinishSerial DEF Exec
<1>5. CASE plan.to # "idle"
  <2>1. /\ Goto(t, plan.to) /\ UNCHANGED cmd
        /\ mem' = [mem EXCEPT ![t] = NoMeta] /\ wb' = [wb EXCEPT ![t] = plan.batch]
    BY <1>5 DEF Exec
  <2> HIDE DEF plan
  <2>2. /\ \A u \in Threads \ {t} :
              pc'[u] = pc[u] /\ cmd'[u] = cmd[u] /\ mem'[u] = mem[u] /\ wb'[u] = wb[u]
        /\ cmd'[t] = cmd[t] /\ Key(t)' = k /\ pc'[t] = plan.to /\ wb'[t] = plan.batch
    BY <1>0, <1>1, <2>1 DEF Goto, ThreadsTypeOK, Key
  <2>3. plan.to \in {"commit", "empty"} /\ \A r \in plan.batch.puts \cup plan.batch.iputs : r.key = k
    BY <1>1, <1>3, <1>5 DEF GoodPlan, OwnRecords
  <2>4. plan.to = "commit" => Anchor(k, wb[t].mput)'
    <3>1. Anchor(k, mem[t])
      BY <1>0, <1>1 DEF Anchored
    <3>2. plan.to = "commit" =>
             plan.batch.mput.ver = mem[t].ver /\ plan.batch.mput.type = mem[t].type
      BY <1>3 DEF GoodPlan
    <3> QED
      BY <1>0, <2>2, <3>1, <3>2 DEF Anchor, Holding, NoRecords
  <2>5. Anchored(t)'
    BY <2>2, <2>3, <2>4 DEF Anchored
  <2> QED
    BY <1>0, <1>a, <1>1, <2>2, <2>5, OwnStep
<1> QED
  BY <1>4, <1>5

(* What the write of a batch for key k does to records of other keys.        *)
LEMMA WriteRecords ==
    ASSUME NEW k, NEW b, write(k, b), \A r \in b.puts \cup b.iputs : r.key = k
    PROVE  \A r \in subs' \cup index' : r.key # k => r \in subs \cup index
  BY DEF write

(* What it does to metadata, when it deletes none.                           *)
LEMMA WriteMeta ==
    ASSUME NEW k \in Keys, NEW b, b.mdel = {}, write(k, b)
    PROVE  /\ \A x \in Keys \ {k} : metas'[x] = metas[x]
           /\ metas'[k] = IF b.mput # NoMeta THEN b.mput ELSE metas[k]
  BY DEF write

(* put_meta and the batch of a composite command.                            *)
LEMMA CommitSerial ==
    ASSUME SerialInv, TypeInv', Booting', VersionInv', NEW t \in Threads,
           PutMeta(t) \/ Commit(t)
    PROVE  SerialInv'
<1>0. /\ TypeInv /\ Booting /\ ThreadsTypeOK /\ Control(t) /\ Anchored(t)
      /\ pc[t] \in {"put", "commit", "empty"} /\ Running(t)
  BY DEF SerialInv, TypeInv, TypeOK, ControlOK, PutMeta, Commit, Running
<1>a. cmd[t].op # "flush" /\ Key(t) \in Keys
  BY <1>0, RunningKey DEF Control, Creators, Removers
<1>1. PICK k \in Keys : k = Key(t)
  BY <1>a
<1>2. CASE PutMeta(t)
  <2> DEFINE b == [NoBatch EXCEPT !.mput = mem[t]]
  <2>1. b.mdel = {} /\ b.puts = {} /\ b.iputs = {} /\ write(k, b)
    BY <1>1, <1>2 DEF PutMeta, NoBatch
  <2> HIDE DEF b
  <2>2. /\ \A x \in Keys \ {k} : metas'[x] = metas[x]
        /\ \A r \in subs' \cup index' : r.key # k => r \in subs \cup index
    BY <2>1, WriteMeta, WriteRecords
  <2> QED
    BY <1>0, <1>a, <1>1, <1>2, <2>2, FinishSerial DEF PutMeta
<1>3. CASE Commit(t)
  <2>1. wb[t].mdel = {} /\ write(k, wb[t]) /\ \A r \in wb[t].puts \cup wb[t].iputs : r.key = k
    BY <1>0, <1>1, <1>3 DEF Commit, Control, Anchored
  <2>2. /\ \A x \in Keys \ {k} : metas'[x] = metas[x]
        /\ \A r \in subs' \cup index' : r.key # k => r \in subs \cup index
    BY <2>1, WriteMeta, WriteRecords
  <2>3. CASE Finish(t)
    BY <1>0, <1>a, <1>1, <2>2, <2>3, FinishSerial
  <2>4. CASE ~Finish(t)
    <3>1. /\ \A u \in Threads \ {t} :
                pc'[u] = pc[u] /\ cmd'[u] = cmd[u] /\ mem'[u] = mem[u] /\ wb'[u] = wb[u]
          /\ cmd'[t] = cmd[t] /\ pc'[t] = "delete"
      BY <1>0, <1>3, <2>4 DEF Commit, Goto, ThreadsTypeOK
    <3>2. Anchored(t)'
      BY <3>1 DEF Anchored
    <3> QED
      BY <1>0, <1>a, <1>1, <2>2, <3>1, <3>2, OwnStep
  <2> QED
    BY <2>3, <2>4
<1> QED
  BY <1>2, <1>3

(* A flush has the store to itself.                                          *)
LEMMA FlushSerial ==
    ASSUME SerialInv, TypeInv', Booting', VersionInv', NEW t \in Threads,
           FlushMeta(t) \/ FlushSub(t) \/ FlushIdx(t) \/ FlushWrite(t) \/ FlushClear(t)
    PROVE  SerialInv'
<1>0. /\ ThreadsTypeOK /\ Control(t) /\ pc[t] \in FlushPcs /\ Running(t)
  BY DEF SerialInv, TypeInv, TypeOK, ControlOK, FlushPcs, Running,
     FlushMeta, FlushSub, FlushIdx, FlushWrite, FlushClear
<1>1. cmd[t].op = "flush"
  BY <1>0 DEF Control
<1>2. /\ \A u \in Threads \ {t} : pc'[u] = pc[u]
      /\ pc'[t] \in FlushPcs \cup {"idle"}
  BY <1>0 DEF FlushMeta, FlushSub, FlushIdx, FlushWrite, FlushClear, Goto, Finish,
     ThreadsTypeOK, FlushPcs
<1>3. \A u \in Threads \ {t} : pc'[u] = "idle"
  BY <1>0, <1>1, <1>2 DEF SerialInv, Exclusive, Running
<1>4. Exclusive'
  BY <1>3 DEF Exclusive, Running
<1>5. \A u \in Threads : Anchored(u)'
  BY <1>2, <1>3 DEF Anchored, FlushPcs
<1> QED
  BY <1>4, <1>5 DEF SerialInv

-----------------------------------------------------------------------------
(* A command is admitted only on a key nobody works on, a flush only alone.  *)
LEMMA StartSerial ==
    ASSUME OneAtATime, SerialInv, TypeInv', Booting', VersionInv', NEW t \in Threads, Start(t)
    PROVE  SerialInv'
<1>1. PICK op \in Ops, k \in Keys \cup {NoKey} : \E a \in Args[op] : Begin(t, op, k, a)
  BY DEF Start
<1>2. PICK a \in Args[op] : Begin(t, op, k, a)
  BY <1>1
<1>3. ThreadsTypeOK
  BY DEF SerialInv, TypeInv, TypeOK
<1>4. /\ UNCHANGED <<metas, subs, index>>
      /\ pc'[t] = FirstPc(op) /\ cmd'[t].op = op /\ Key(t)' = k
      /\ (k = NoKey) <=> (op = "flush")
      /\ IF op = "flush" THEN \A u \in Threads : ~Running(u) ELSE Quiet(k)
  BY <1>2, <1>3 DEF Begin, Goto, ThreadsTypeOK, disk, Key, Admits, OneAtATime
<1>5. \A u \in Threads \ {t} :
         pc'[u] = pc[u] /\ cmd'[u] = cmd[u] /\ mem'[u] = mem[u] /\ wb'[u] = wb[u]
  BY <1>2, <1>3 DEF Begin, Goto, ThreadsTypeOK
<1>6. Exclusive'
  BY <1>4, <1>5 DEF SerialInv, Exclusive, Running, Quiet, Key
<1>7. Anchored(t)'
  BY <1>4 DEF Anchored, FirstPc
<1>8. ASSUME NEW u \in Threads \ {t} PROVE Anchored(u)'
  BY <1>4, <1>5 DEF SerialInv, Anchored, Anchor, Holding, NoRecords, Key
<1> QED
  BY <1>6, <1>7, <1>8 DEF SerialInv

(* A failing write ends the command with everything as it was.               *)
LEMMA FailSerial ==
    ASSUME SerialInv, TypeInv', Booting', VersionInv', NEW t \in Threads, WriteFails(t)
    PROVE  SerialInv'
<1>0. ThreadsTypeOK /\ Finish(t) /\ UNCHANGED <<metas, subs, index>> /\ Running(t)
  BY DEF SerialInv, TypeInv, TypeOK, WriteFails, disk, Running
<1>1. CASE cmd[t].op # "flush"
  BY <1>0, <1>1, FinishSerial
<1>2. CASE cmd[t].op = "flush"
  <2>1. \A u \in Threads : pc'[u] = "idle"
    BY <1>0, <1>2 DEF SerialInv, Exclusive, Running, Finish, ThreadsTypeOK
  <2> QED
    BY <2>1 DEF SerialInv, Exclusive, Anchored, Running
<1> QED
  BY <1>1, <1>2

(* Compactions only lose records; a restart and the rebuild find no thread   *)
(* at work.                                                                  *)
LEMMA EnvironmentSerial ==
    ASSUME SerialInv, TypeInv', Booting', VersionInv',
           CompactionDrop \/ compact \/ Tick \/ UNCHANGED vars \/ Restart \/ Boot
    PROVE  SerialInv'
<1>1. CASE CompactionDrop \/ compact \/ Tick \/ UNCHANGED vars
  <2>1. UNCHANGED <<metas, pc, cmd, mem, wb>> /\ subs' \subseteq subs /\ index' \subseteq index
    BY <1>1 DEF CompactionDrop, compact, Tick, vars, disk, local
  <2>2. Exclusive'
    BY <2>1 DEF SerialInv, Exclusive, Running, Key
  <2>3. ASSUME NEW t \in Threads PROVE Anchored(t)'
    <3>1. \A k, ver : NoRecords(k, ver) => NoRecords(k, ver)'
      BY <2>1 DEF NoRecords
    <3>2. \A k, m : Anchor(k, m) => Anchor(k, m)'
      BY <2>1, <3>1 DEF Anchor, Holding
    <3>3. Anchored(t) /\ Key(t)' = Key(t)
      BY <2>1 DEF SerialInv, Key
    <3> QED
      BY <2>1, <3>2, <3>3 DEF Anchored, Holding
  <2> QED
    BY <2>2, <2>3 DEF SerialInv
<1>2. CASE Restart \/ Boot
  <2>1. \A t \in Threads : pc'[t] = "idle"
    BY <1>2 DEF Restart, Boot, install_gc, RebuildKey, Serve, local, SerialInv, Booting, Running
  <2> QED
    BY <2>1 DEF SerialInv, Exclusive, Anchored, Running
<1> QED
  BY <1>1, <1>2

LEMMA InitSerial == Init => SerialInv
<1> SUFFICES ASSUME Init PROVE SerialInv
  OBVIOUS
<1>1. boot = "open" /\ todo = {} /\ \A t \in Threads : pc[t] = "idle"
  BY DEF Init
<1>2. TypeInv /\ VersionInv
  BY InitType, InitVersions
<1> QED
  BY <1>1, <1>2 DEF SerialInv, Booting, Exclusive, Anchored, Running

LEMMA NextSerial == OneAtATime /\ SerialInv /\ [Next]_vars => SerialInv'
<1> SUFFICES ASSUME OneAtATime, SerialInv, [Next]_vars PROVE SerialInv'
  OBVIOUS
<1>0. TypeInv' /\ Booting' /\ VersionInv'
  BY NextType, NextBooting, NextVersions DEF SerialInv, OneAtATime
<1>1. ASSUME NEW t \in Threads, Start(t) PROVE SerialInv'
  BY <1>0, <1>1, StartSerial
<1>2. ASSUME NEW t \in Threads, Step(t) PROVE SerialInv'
  BY <1>0, <1>2, LoadSerial, DeleteSerial, CreateSerial, CommitSerial, ExecSerial,
     FlushSerial DEF Step
<1>3. ASSUME NEW t \in Threads, WriteFails(t) PROVE SerialInv'
  BY <1>0, <1>3, FailSerial
<1> QED
  BY <1>0, <1>1, <1>2, <1>3, EnvironmentSerial DEF Next

-----------------------------------------------------------------------------
(* Metadata is deleted, replaced by a string's, or written for the structure *)
(* on disk or for one without records.                                       *)
LEMMA MetaStep ==
    ASSUME SerialInv, [Next]_vars, NEW k \in Keys
    PROVE  \/ metas'[k] \in {metas[k], NoMeta}
           \/ metas'[k].type = "string"
           \/ Anchor(k, metas'[k])
<1>0. ThreadsTypeOK /\ ControlOK
  BY DEF SerialInv, TypeInv, TypeOK
<1>1. ASSUME NEW t \in Threads, Start(t) \/ WriteFails(t) PROVE metas'[k] = metas[k]
  BY <1>1 DEF Start, Begin, WriteFails, disk
<1>2. ASSUME NEW t \in Threads, DeleteMeta(t) PROVE metas'[k] \in {metas[k], NoMeta}
  BY <1>2 DEF DeleteMeta, write, NoBatch
<1>3. ASSUME NEW t \in Threads, FlushWrite(t) PROVE metas'[k] \in {metas[k], NoMeta}
  BY <1>3, BaseAssumption DEF FlushWrite, write
<1>4. ASSUME NEW t \in Threads, PutMeta(t), metas'[k] # metas[k]
      PROVE  metas'[k].type = "string" \/ Anchor(k, metas'[k])
  <2>1. /\ k = Key(t) /\ metas'[k] = mem[t] /\ pc[t] = "put"
    BY <1>4 DEF PutMeta, write, NoBatch
  <2>2. CASE cmd[t].op = "set"
    BY <1>0, <2>1, <2>2 DEF ControlOK, Control
  <2>3. CASE cmd[t].op = "expire"
    BY <2>1, <2>3 DEF SerialInv, Anchored, Anchor
  <2> QED
    BY <1>0, <2>1, <2>2, <2>3 DEF ControlOK, Control
<1>5. ASSUME NEW t \in Threads, Commit(t), metas'[k] # metas[k]
      PROVE  Anchor(k, metas'[k])
  <2>1. pc[t] \in {"commit", "empty"} /\ write(Key(t), wb[t]) /\ Control(t) /\ Anchored(t)
    BY <1>0, <1>5 DEF Commit, ControlOK, SerialInv
  <2>2. wb[t].mdel = {}
    BY <2>1 DEF Control
  <2>3. k = Key(t) /\ metas'[k] = wb[t].mput /\ wb[t].mput # NoMeta
    BY <1>5, <2>1, <2>2 DEF write
  <2>4. pc[t] = "commit"
    BY <2>1, <2>3 DEF Control
  <2> QED
    BY <2>1, <2>3, <2>4 DEF Anchored
<1>6. ASSUME NEW t \in Threads, Step(t),
             ~(DeleteMeta(t) \/ FlushWrite(t) \/ PutMeta(t) \/ Commit(t))
      PROVE  metas'[k] = metas[k]
  BY <1>6 DEF Step, LoadMissing, LoadExpired, LoadFound, ForgetVersion, Overwrite, Alloc, Drawn,
     Register, Exec, FlushMeta, FlushSub, FlushIdx, FlushClear, disk
<1>7. CASE CompactionDrop \/ compact \/ Tick \/ UNCHANGED vars \/ Restart \/ Boot
  BY <1>7 DEF CompactionDrop, compact, Tick, vars, Restart, Boot, install_gc, RebuildKey,
     Serve, disk
<1> QED
  BY <1>1, <1>2, <1>3, <1>4, <1>5, <1>6, <1>7 DEF Next

(* A record the metadata of its key does not refer to is never referred to   *)
(* again: DEL, expiry, SET and FLUSH drop structures for good although their *)
(* records stay on disk, through crashes, failing writes and rebuilds, for   *)
(* any number of keys and threads.                                           *)
THEOREM DroppedStaysDropped == OneAtATime => (Spec => NoResurrection)
<1> SUFFICES ASSUME OneAtATime PROVE Spec => NoResurrection
  OBVIOUS
<1> DEFINE Dropped == /\ \A r \in subs \cap subs' : ~Owned(r) => ~Owned(r)'
                      /\ \A r \in index \cap index' : ~Owned(r) => ~Owned(r)'
<1>1. Init => SerialInv
  BY InitSerial
<1>2. SerialInv /\ [Next]_vars => SerialInv'
  BY NextSerial
<1>3. SerialInv /\ [Next]_vars => [Dropped]_vars
  <2> SUFFICES ASSUME SerialInv, [Next]_vars,
                      NEW r \in subs \cup index, Owned(r)'
               PROVE  Owned(r)
    OBVIOUS
  <2>1. r.key \in Keys
    BY DEF SerialInv, TypeInv, TypeOK, DiskTypeOK, SubRecs, IdxRecs
  <2>2. /\ metas'[r.key] # NoMeta /\ metas'[r.key].type \in Composite
        /\ metas'[r.key].ver = r.ver
    BY DEF Owned
  <2>3. CASE metas'[r.key] = metas[r.key]
    BY <2>2, <2>3 DEF Owned
  <2>4. CASE Anchor(r.key, metas'[r.key])
    BY <2>2, <2>4 DEF Anchor, Holding, NoRecords, Owned
  <2> QED
    BY <2>1, <2>2, <2>3, <2>4, MetaStep DEF Composite
<1> QED
  BY <1>1, <1>2, <1>3, PTL DEF Spec, NoResurrection

-----------------------------------------------------------------------------
(* The version map and the compaction filter. *)

Serialised ==
    "overlap" \notin Faults /\ "bootCompaction" \notin Faults /\ "writeError" \notin Faults

(* A running thread has a key of the store, unless it flushes.               *)
LEMMA KeyOfRunning ==
    ASSUME GcInv, NEW t \in Threads, Running(t)
    PROVE  /\ cmd[t].op # "flush" => Key(t) \in Keys
           /\ cmd[t].op = "flush" => Key(t) = NoKey
           /\ boot = "serving" /\ todo = {}
  BY DEF GcInv, TypeInv, TypeOK, ThreadsTypeOK, ControlOK, Control, Booting, Running, Key

(* Only the thread that has the key can be overwriting it.                   *)
LEMMA NotOverwriting ==
    ASSUME GcInv, NEW t \in Threads, Running(t), cmd[t].op # "flush",
           ~(cmd[t].op = "set" /\ pc[t] \in {"alloc", "put"})
    PROVE  Tracked(Key(t))
<1>1. Key(t) \in Keys /\ boot = "serving"
  BY KeyOfRunning
<1>2. ~Overwriting(Key(t))
  BY <1>1 DEF GcInv, Overwriting, Exclusive, Running
<1> QED
  BY <1>1, <1>2 DEF GcInv

(* A step of one thread on its own key preserves the invariant when it       *)
(* preserves what the thread claims of that key.                             *)
LEMMA OwnKeyStep ==
    ASSUME GcInv, TypeInv', Booting', NEW t \in Threads, Running(t),
           cmd[t].op # "flush", NEW k \in Keys, k = Key(t),
           \A u \in Threads \ {t} :
              pc'[u] = pc[u] /\ cmd'[u] = cmd[u] /\ mem'[u] = mem[u] /\ wb'[u] = wb[u],
           cmd'[t] = cmd[t] \/ pc'[t] = "idle",
           \A x \in Keys \ {k} : metas'[x] = metas[x] /\ versions'[x] = versions[x],
           UNCHANGED <<boot, todo>>,
           Claim(t)', Tracked(k)' \/ Overwriting(k)'
    PROVE  GcInv'
<1>0. Key(t) \in Keys /\ boot = "serving" /\ boot' = "serving"
  BY KeyOfRunning
<1>1. Exclusive'
  BY DEF GcInv, Exclusive, Running, Key
<1>2. BootMap'
  BY <1>0 DEF BootMap
<1>3. ASSUME NEW x \in Keys PROVE Overwriting(x)' \/ Tracked(x)'
  <2>1. CASE x = k
    BY <2>1
  <2>2. CASE x # k
    <3>1. Tracked(x) => Tracked(x)'
      BY <2>2 DEF Tracked
    <3>2. Overwriting(x) => Overwriting(x)'
      BY <2>2 DEF Overwriting, Key
    <3> QED
      BY <1>0, <3>1, <3>2 DEF GcInv
  <2> QED
    BY <2>1, <2>2
<1>4. ASSUME NEW u \in Threads PROVE Claim(u)'
  <2>1. CASE u # t /\ Running(u)
    <3>1. cmd[u].op # "flush" /\ Key(u) # Key(t) /\ Key(u) \in Keys /\ Claim(u)
      BY <2>1, KeyOfRunning DEF GcInv, Exclusive
    <3>2. pc[u] \notin FlushPcs
      BY <3>1 DEF GcInv, TypeInv, ControlOK, Control
    <3> QED
      BY <2>1, <3>1, <3>2 DEF Claim, Key, FlushPcs
  <2>2. CASE u # t /\ ~Running(u)
    BY <2>2 DEF Claim, Running
  <2> QED
    BY <2>1, <2>2
<1> QED
  BY <1>0, <1>1, <1>2, <1>3, <1>4 DEF GcInv

(* A step of a flush, which has the store to itself.                         *)
LEMMA FlushStep ==
    ASSUME GcInv, TypeInv', Booting', NEW t \in Threads, Running(t),
           cmd[t].op = "flush",
           \A u \in Threads \ {t} : pc'[u] = pc[u],
           UNCHANGED <<boot, todo>>,
           Claim(t)', \A x \in Keys : Tracked(x)'
    PROVE  GcInv'
<1>0. boot' = "serving"
  BY KeyOfRunning
<1>1. \A u \in Threads \ {t} : pc'[u] = "idle"
  BY DEF GcInv, Exclusive, Running
<1>2. Exclusive'
  BY <1>1 DEF Exclusive, Running
<1>3. BootMap'
  BY <1>0 DEF BootMap
<1>4. \A u \in Threads : Claim(u)'
  BY <1>1 DEF Claim
<1> QED
  BY <1>0, <1>2, <1>3, <1>4 DEF GcInv

-----------------------------------------------------------------------------
(* What the write of a batch does to the metadata.                           *)
LEMMA WriteMetas ==
    ASSUME NEW k \in Keys, NEW b, b.mdel = {}, write(k, b), metas \in [Keys -> Metas \cup {NoMeta}]
    PROVE  /\ \A x \in Keys \ {k} : metas'[x] = metas[x]
           /\ metas'[k] = IF b.mput # NoMeta THEN b.mput ELSE metas[k]
  BY DEF write

(* Finishing changes the locals of one thread only.                          *)
LEMMA FinishFrame ==
    ASSUME TypeInv, NEW t \in Threads, Finish(t)
    PROVE  /\ \A u \in Threads \ {t} :
                 pc'[u] = pc[u] /\ cmd'[u] = cmd[u] /\ mem'[u] = mem[u] /\ wb'[u] = wb[u]
           /\ pc'[t] = "idle" /\ Claim(t)'
  BY DEF Finish, Claim, TypeInv, TypeOK, ThreadsTypeOK

(* The steps of load_live_meta and load_typed.                               *)
LEMMA LoadGc ==
    ASSUME GcInv, TypeInv', Booting', NEW t \in Threads,
           LoadMissing(t) \/ LoadExpired(t) \/ LoadFound(t)
    PROVE  GcInv'
<1>0. /\ TypeInv /\ ThreadsTypeOK /\ Control(t) /\ DiskTypeOK
      /\ pc[t] \in {"peek", "load"} /\ Running(t)
      /\ UNCHANGED <<metas, versions, boot, todo>>
  BY DEF GcInv, TypeInv, TypeOK, ControlOK, LoadMissing, LoadExpired, LoadFound, disk, Running
<1>a. cmd[t].op # "flush" /\ Key(t) \in Keys
  BY <1>0, KeyOfRunning DEF Control, Creators, Removers
<1>1. PICK k \in Keys : k = Key(t)
  BY <1>a
<1>2. Tracked(k)
  BY <1>0, <1>a, <1>1, NotOverwriting
<1>3. Tracked(k)'
  BY <1>0, <1>2 DEF Tracked
<1>4. CASE Finish(t)
  BY <1>0, <1>a, <1>1, <1>3, <1>4, FinishFrame, OwnKeyStep
<1>5. CASE ~Finish(t)
  <2>1. /\ \A u \in Threads \ {t} :
              pc'[u] = pc[u] /\ cmd'[u] = cmd[u] /\ mem'[u] = mem[u] /\ wb'[u] = wb[u]
        /\ cmd'[t] = cmd[t]
    BY <1>0, <1>5
    DEF LoadMissing, LoadExpired, LoadFound, Continue, Goto, ThreadsTypeOK
  <2>2. Claim(t)'
    <3>1. CASE LoadMissing(t)
      <4>1. pc'[t] = "alloc" /\ metas'[k] = NoMeta /\ Key(t)' = k
        BY <1>0, <1>1, <1>5, <2>1, <3>1
        DEF LoadMissing, MissingPc, Continue, Goto, ThreadsTypeOK, Key
      <4> QED
        BY <4>1 DEF Claim
    <3>2. CASE LoadExpired(t)
      <4>1. pc'[t] = "expire"
        BY <1>0, <3>2 DEF LoadExpired, Goto, ThreadsTypeOK
      <4> QED
        BY <4>1 DEF Claim
    <3>3. CASE LoadFound(t)
      <4> DEFINE m == metas[k]
                 next == FoundPc(t, m)
      <4>1. /\ pc'[t] = next /\ next # "idle" /\ Key(t)' = k
            /\ mem'[t] = IF cmd[t].op = "expire" THEN [m EXCEPT !.exp = cmd[t].exp]
                         ELSE IF next = "exec" THEN m ELSE NoMeta
        BY <1>0, <1>1, <1>5, <2>1, <3>3 DEF LoadFound, Goto, ThreadsTypeOK, Key
      <4>2. m \in Metas
        BY <1>0, <1>a, <1>1, <3>3 DEF LoadFound, DiskTypeOK
      <4>3. /\ next \in {"delete", "put", "load", "exec"}
            /\ next = "put" => cmd[t].op = "expire"
            /\ next = "exec" => cmd[t].op # "expire" /\ m.type = type_for(cmd[t].op)
        BY <1>0, <4>1 DEF FoundPc, Control, FlushPcs, Creators, Removers
      <4>4. m.type \in Composite => versions'[k] = m.ver
        BY <1>0, <1>2, <4>2, NoMetaAssumption DEF Tracked
      <4>5. type_for(cmd[t].op) \in Composite
        BY DEF type_for, Composite
      <4>6. cmd[t].op = "expire" => mem'[t].ver = m.ver /\ mem'[t].type = m.type
        BY <4>1, <4>2 DEF Metas
      <4> HIDE DEF m, next
      <4> QED
        BY <4>1, <4>3, <4>4, <4>5, <4>6 DEF Claim
    <3> QED
      BY <3>1, <3>2, <3>3
  <2> QED
    BY <1>0, <1>a, <1>1, <1>3, <2>1, <2>2, OwnKeyStep
<1> QED
  BY <1>4, <1>5

(* logical_delete.                                                           *)
LEMMA DeleteGc ==
    ASSUME GcInv, TypeInv', Booting', NEW t \in Threads,
           DeleteMeta(t) \/ ForgetVersion(t)
    PROVE  GcInv'
<1>0. /\ TypeInv /\ ThreadsTypeOK /\ Control(t) /\ DiskTypeOK /\ MapTypeOK
      /\ pc[t] \in {"expire", "delete", "expired", "forget"} /\ Running(t)
      /\ UNCHANGED <<boot, todo>>
  BY DEF GcInv, TypeInv, TypeOK, ControlOK, DeleteMeta, ForgetVersion, Running
<1>a. cmd[t].op # "flush" /\ Key(t) \in Keys
  BY <1>0, KeyOfRunning DEF Control, Creators, Removers
<1>1. PICK k \in Keys : k = Key(t)
  BY <1>a
<1>2. \A x \in Keys \ {k} : metas'[x] = metas[x] /\ versions'[x] = versions[x]
  BY <1>0, <1>a, <1>1
  DEF DeleteMeta, ForgetVersion, write, NoBatch, DiskTypeOK, MapTypeOK, disk
<1>3. metas'[k] = NoMeta
  <2>1. CASE DeleteMeta(t)
    BY <1>a, <1>1, <2>1 DEF DeleteMeta, write, NoBatch
  <2>2. CASE ForgetVersion(t)
    BY <1>1, <2>2 DEF ForgetVersion, disk, GcInv, Claim
  <2> QED
    BY <2>1, <2>2
<1>4. Tracked(k)'
  BY <1>3 DEF Tracked
<1>5. CASE Finish(t)
  BY <1>0, <1>a, <1>1, <1>2, <1>4, <1>5, FinishFrame, OwnKeyStep
<1>6. CASE ~Finish(t)
  <2>1. /\ \A u \in Threads \ {t} :
              pc'[u] = pc[u] /\ cmd'[u] = cmd[u] /\ mem'[u] = mem[u] /\ wb'[u] = wb[u]
        /\ cmd'[t] = cmd[t] /\ Key(t)' = k
        /\ pc'[t] \in {"expired", "forget", "alloc"}
    BY <1>0, <1>1, <1>6
    DEF DeleteMeta, ForgetVersion, Continue, MissingPc, Goto, ThreadsTypeOK, Key
  <2>2. Claim(t)'
    BY <1>3, <2>1 DEF Claim
  <2> QED
    BY <1>0, <1>a, <1>1, <1>2, <1>4, <2>1, <2>2, OwnKeyStep
<1> QED
  BY <1>5, <1>6

(* SET's first step, and the creation of a composite key.                    *)
LEMMA CreateGc ==
    ASSUME GcInv, TypeInv', Booting', NEW t \in Threads,
           Overwrite(t) \/ Alloc(t) \/ Register(t)
    PROVE  GcInv'
<1>0. /\ ThreadsTypeOK /\ Control(t) /\ Control(t)' /\ DiskTypeOK /\ MapTypeOK
      /\ pc[t] \in {"overwrite", "alloc", "register"} /\ Running(t)
      /\ UNCHANGED <<metas, boot, todo, cmd>>
  BY DEF GcInv, TypeInv, TypeOK, ControlOK, Overwrite, Alloc, Drawn, Register, disk, Running
<1>a. cmd[t].op # "flush" /\ Key(t) \in Keys
  BY <1>0, KeyOfRunning DEF Control, Creators, Removers
<1>1. PICK k \in Keys : k = Key(t)
  BY <1>a
<1>2. /\ \A u \in Threads \ {t} :
            pc'[u] = pc[u] /\ cmd'[u] = cmd[u] /\ mem'[u] = mem[u] /\ wb'[u] = wb[u]
      /\ cmd'[t] = cmd[t] /\ Key(t)' = k
  BY <1>0, <1>1 DEF Overwrite, Alloc, Drawn, Register, Goto, ThreadsTypeOK, Key
<1>3. \A x \in Keys \ {k} : metas'[x] = metas[x] /\ versions'[x] = versions[x]
  BY <1>0, <1>1 DEF Overwrite, Alloc, Drawn, Register, MapTypeOK
<1>4. CASE Overwrite(t)
  <2>1. pc'[t] = "alloc" /\ cmd'[t].op = "set"
    BY <1>0, <1>4 DEF Overwrite, Goto, ThreadsTypeOK, Control
  <2>2. Claim(t)' /\ Overwriting(k)'
    BY <1>2, <2>1 DEF Claim, Overwriting
  <2> QED
    BY <1>0, <1>a, <1>1, <1>2, <1>3, <2>2, OwnKeyStep
<1>5. CASE Alloc(t)
  <2>1. pc[t] = "alloc" /\ UNCHANGED versions
        /\ pc'[t] = IF cmd[t].op = "set" THEN "put" ELSE "register"
    BY <1>0, <1>5 DEF Alloc, Drawn, Goto, ThreadsTypeOK
  <2>2. CASE cmd[t].op = "set"
    <3>1. mem'[t].type = "string"
      BY <1>0, <1>2, <2>1, <2>2 DEF Control
    <3>2. Claim(t)' /\ Overwriting(k)'
      BY <1>2, <2>1, <2>2, <3>1 DEF Claim, Overwriting, Composite
    <3> QED
      BY <1>0, <1>a, <1>1, <1>2, <1>3, <3>2, OwnKeyStep
  <2>3. CASE cmd[t].op # "set"
    <3>1. metas'[k] = NoMeta
      BY <1>0, <1>1, <2>1, <2>3 DEF GcInv, Claim
    <3>2. Claim(t)' /\ Tracked(k)'
      BY <1>2, <2>1, <2>3, <3>1 DEF Claim, Tracked
    <3> QED
      BY <1>0, <1>a, <1>1, <1>2, <1>3, <3>2, OwnKeyStep
  <2> QED
    BY <2>2, <2>3
<1>6. CASE Register(t)
  <2>1. /\ pc[t] = "register" /\ pc'[t] = "exec" /\ mem'[t] = mem[t]
        /\ versions'[k] = mem[t].ver
    BY <1>0, <1>1, <1>6 DEF Register, Goto, ThreadsTypeOK, MapTypeOK
  <2>2. metas'[k] = NoMeta
    BY <1>0, <1>1, <2>1 DEF GcInv, Claim, Control, Creators
  <2>3. Claim(t)' /\ Tracked(k)'
    BY <1>2, <2>1, <2>2 DEF Claim, Tracked
  <2> QED
    BY <1>0, <1>a, <1>1, <1>2, <1>3, <2>3, OwnKeyStep
<1> QED
  BY <1>4, <1>5, <1>6

(* put_meta and the batch of a composite command.                            *)
LEMMA CommitGc ==
    ASSUME GcInv, TypeInv', Booting', NEW t \in Threads, PutMeta(t) \/ Commit(t)
    PROVE  GcInv'
<1>0. /\ TypeInv /\ ThreadsTypeOK /\ Control(t) /\ DiskTypeOK /\ MapTypeOK /\ Claim(t)
      /\ pc[t] \in {"put", "commit", "empty"} /\ Running(t)
      /\ UNCHANGED <<versions, boot, todo>>
  BY DEF GcInv, TypeInv, TypeOK, ControlOK, PutMeta, Commit, Running
<1>a. cmd[t].op # "flush" /\ Key(t) \in Keys
  BY <1>0, KeyOfRunning DEF Control, Creators, Removers
<1>1. PICK k \in Keys : k = Key(t)
  BY <1>a
<1>2. CASE PutMeta(t)
  <2> DEFINE b == [NoBatch EXCEPT !.mput = mem[t]]
  <2>1. b.mdel = {} /\ b.mput = mem[t] /\ write(k, b)
    BY <1>1, <1>2 DEF PutMeta, NoBatch
  <2> HIDE DEF b
  <2>2. pc[t] = "put" /\ mem[t] \in Metas
    BY <1>0, <1>2 DEF PutMeta, Control
  <2>3. metas'[k] = mem[t] /\ \A x \in Keys \ {k} : metas'[x] = metas[x]
    BY <1>0, <2>1, <2>2, WriteMetas, NoMetaAssumption DEF DiskTypeOK
  <2>4. Tracked(k)'
    BY <1>0, <1>1, <2>2, <2>3 DEF Tracked, Claim
  <2> QED
    BY <1>0, <1>a, <1>1, <1>2, <2>3, <2>4, FinishFrame, OwnKeyStep DEF PutMeta
<1>3. CASE Commit(t)
  <2>1. wb[t].mdel = {} /\ write(k, wb[t])
    BY <1>0, <1>1, <1>3 DEF Commit, Control
  <2>2. /\ metas'[k] = IF wb[t].mput # NoMeta THEN wb[t].mput ELSE metas[k]
        /\ \A x \in Keys \ {k} : metas'[x] = metas[x]
    BY <1>0, <2>1, WriteMetas DEF DiskTypeOK
  <2>3. CASE pc[t] = "commit"
    <3>1. metas'[k] = wb[t].mput /\ versions[k] = wb[t].mput.ver
      BY <1>0, <1>1, <2>2, <2>3, NoMetaAssumption DEF Control, Claim
    <3>2. Tracked(k)'
      BY <1>0, <3>1 DEF Tracked
    <3>3. Finish(t)
      BY <1>3, <2>3 DEF Commit
    <3> QED
      BY <1>0, <1>a, <1>1, <2>2, <3>2, <3>3, FinishFrame, OwnKeyStep
  <2>4. CASE pc[t] = "empty"
    <3>1. metas'[k] = metas[k]
      BY <1>0, <2>2, <2>4 DEF Control
    <3>2. Tracked(k)
      BY <1>0, <1>a, <1>1, <2>4, NotOverwriting
    <3>3. Tracked(k)'
      BY <1>0, <3>1, <3>2 DEF Tracked
    <3>4. /\ \A u \in Threads \ {t} :
                pc'[u] = pc[u] /\ cmd'[u] = cmd[u] /\ mem'[u] = mem[u] /\ wb'[u] = wb[u]
          /\ cmd'[t] = cmd[t] /\ pc'[t] = "delete"
      BY <1>0, <1>3, <2>4 DEF Commit, Goto, ThreadsTypeOK
    <3>5. Claim(t)'
      BY <3>4 DEF Claim
    <3> QED
      BY <1>0, <1>a, <1>1, <2>2, <3>3, <3>4, <3>5, OwnKeyStep
  <2> QED
    BY <1>3, <2>3, <2>4 DEF Commit
<1> QED
  BY <1>2, <1>3

(* The body of a composite command.                                          *)
LEMMA ExecGc ==
    ASSUME GcInv, TypeInv', Booting', NEW t \in Threads, Exec(t)
    PROVE  GcInv'
<1>0. /\ TypeInv /\ ThreadsTypeOK /\ Control(t) /\ DiskTypeOK /\ Claim(t)
      /\ pc[t] = "exec" /\ Running(t)
      /\ UNCHANGED <<metas, versions, boot, todo>>
  BY DEF GcInv, TypeInv, TypeOK, ControlOK, Exec, Running, disk
<1>a. cmd[t].op # "flush" /\ Key(t) \in Keys
  BY <1>0, KeyOfRunning DEF Control, Creators, Removers
<1>1. PICK k \in Keys : k = Key(t)
  BY <1>a
<1>2. Tracked(k)
  BY <1>0, <1>a, <1>1, NotOverwriting
<1>3. Tracked(k)'
  BY <1>0, <1>2 DEF Tracked
<1> DEFINE op == cmd[t].op
           plan == Plan(op, Key(t), mem[t], cmd[t].args)
<1>4. op \in Creators \cup Removers /\ mem[t] \in Metas /\ cmd[t].args \in Args[op]
  BY <1>0 DEF Control, ThreadsTypeOK, Ops
<1>5. GoodPlan(plan, Key(t), mem[t], op)
  BY <1>0, <1>a, <1>4, PlanGood DEF DiskTypeOK
<1>6. CASE plan.to = "idle"
  BY <1>0, <1>a, <1>1, <1>3, <1>6, FinishFrame, OwnKeyStep DEF Exec
<1>7. CASE plan.to # "idle"
  <2>1. /\ Goto(t, plan.to) /\ UNCHANGED cmd
        /\ mem' = [mem EXCEPT ![t] = NoMeta] /\ wb' = [wb EXCEPT ![t] = plan.batch]
    BY <1>7 DEF Exec
  <2> HIDE DEF plan
  <2>2. /\ \A u \in Threads \ {t} :
              pc'[u] = pc[u] /\ cmd'[u] = cmd[u] /\ mem'[u] = mem[u] /\ wb'[u] = wb[u]
        /\ cmd'[t] = cmd[t] /\ Key(t)' = k /\ pc'[t] = plan.to /\ wb'[t] = plan.batch
    BY <1>0, <1>1, <2>1 DEF Goto, ThreadsTypeOK, Key
  <2>3. versions'[k] = mem[t].ver
    BY <1>0, <1>1 DEF Claim
  <2>4. Claim(t)'
    BY <1>5, <1>7, <2>2, <2>3 DEF GoodPlan, Claim
  <2> QED
    BY <1>0, <1>a, <1>1, <1>3, <2>2, <2>4, OwnKeyStep
<1> QED
  BY <1>6, <1>7

(* flush_all: the batch deletes the metadata of every key there is.          *)
LEMMA FlushGc ==
    ASSUME GcInv, TypeInv', Booting', NEW t \in Threads,
           FlushMeta(t) \/ FlushSub(t) \/ FlushIdx(t) \/ FlushWrite(t) \/ FlushClear(t)
    PROVE  GcInv'
<1>0. /\ TypeInv /\ ThreadsTypeOK /\ Control(t) /\ DiskTypeOK /\ MapTypeOK /\ Claim(t)
      /\ pc[t] \in FlushPcs /\ Running(t)
      /\ UNCHANGED <<boot, todo>>
  BY DEF GcInv, TypeInv, TypeOK, ControlOK, FlushPcs, Running,
     FlushMeta, FlushSub, FlushIdx, FlushWrite, FlushClear
<1>1. cmd[t].op = "flush" /\ boot = "serving"
  BY <1>0, KeyOfRunning DEF Control
<1>2. \A u \in Threads \ {t} : pc'[u] = pc[u]
  BY <1>0 DEF FlushMeta, FlushSub, FlushIdx, FlushWrite, FlushClear, Goto, Finish,
     ThreadsTypeOK
<1>3. \A x \in Keys : Tracked(x)
  <2>1. \A x \in Keys : ~Overwriting(x)
    BY <1>0, <1>1 DEF GcInv, Exclusive, Overwriting, Running
  <2> QED
    BY <1>1, <2>1 DEF GcInv
<1>4. ASSUME UNCHANGED <<metas, versions>> PROVE \A x \in Keys : Tracked(x)'
  BY <1>3, <1>4 DEF Tracked
<1>5. ASSUME \A x \in Keys : metas'[x] = NoMeta PROVE \A x \in Keys : Tracked(x)'
  BY <1>5 DEF Tracked
<1>6. CASE FlushMeta(t)
  <2>1. wb'[t].mdel = {k \in Keys : metas[k] # NoMeta} /\ pc'[t] = "flushSub"
        /\ UNCHANGED <<metas, versions>>
    BY <1>0, <1>6 DEF FlushMeta, Goto, ThreadsTypeOK, Batches, disk
  <2>2. Claim(t)'
    BY <2>1 DEF Claim
  <2> QED
    BY <1>0, <1>1, <1>2, <1>4, <2>1, <2>2, FlushStep
<1>7. CASE FlushSub(t) \/ FlushIdx(t)
  <2>1. /\ wb'[t].mdel = wb[t].mdel /\ pc'[t] \in {"flushIdx", "flushWrite"}
        /\ pc[t] \in {"flushSub", "flushIdx"} /\ UNCHANGED <<metas, versions>>
    BY <1>0, <1>7 DEF FlushSub, FlushIdx, Goto, ThreadsTypeOK, Batches, disk
  <2>2. Claim(t)'
    BY <1>0, <2>1 DEF Claim
  <2> QED
    BY <1>0, <1>1, <1>2, <1>4, <2>1, <2>2, FlushStep
<1>8. CASE FlushWrite(t)
  <2>1. pc[t] = "flushWrite" /\ pc'[t] = "flushClear" /\ write(NoKey, wb[t])
    BY <1>0, <1>8 DEF FlushWrite, Goto, ThreadsTypeOK
  <2>2. \A x \in Keys : metas'[x] = NoMeta
    BY <1>0, <2>1, BaseAssumption DEF Claim, write
  <2>3. Claim(t)'
    BY <2>1, <2>2 DEF Claim
  <2> QED
    BY <1>0, <1>1, <1>2, <1>5, <2>2, <2>3, FlushStep
<1>9. CASE FlushClear(t)
  <2>1. \A x \in Keys : metas'[x] = NoMeta
    BY <1>0, <1>9 DEF FlushClear, Claim, disk
  <2> QED
    BY <1>0, <1>1, <1>2, <1>5, <1>9, <2>1, FinishFrame, FlushStep DEF FlushClear
<1> QED
  BY <1>6, <1>7, <1>8, <1>9

-----------------------------------------------------------------------------
(* A command is admitted only on a key nobody works on, a flush only alone.  *)
LEMMA StartGc ==
    ASSUME Serialised, GcInv, TypeInv', Booting', NEW t \in Threads, Start(t)
    PROVE  GcInv'
<1>1. PICK op \in Ops : \E k \in Keys \cup {NoKey} : \E a \in Args[op] : Begin(t, op, k, a)
  BY DEF Start
<1>2. PICK k \in Keys \cup {NoKey} : \E a \in Args[op] : Begin(t, op, k, a)
  BY <1>1
<1>3. PICK a \in Args[op] : Begin(t, op, k, a)
  BY <1>2
<1>4. ThreadsTypeOK /\ ControlOK
  BY DEF GcInv, TypeInv, TypeOK
<1>5. /\ pc[t] = "idle" /\ boot = "serving" /\ boot' = "serving"
      /\ UNCHANGED <<metas, versions>>
      /\ pc'[t] = FirstPc(op) /\ cmd'[t].op = op /\ Key(t)' = k
      /\ (k = NoKey) <=> (op = "flush")
      /\ IF op = "flush" THEN \A u \in Threads : ~Running(u) ELSE Quiet(k)
  BY <1>3, <1>4 DEF Begin, Running, Goto, ThreadsTypeOK, disk, Key, Admits, Serialised
<1>6. \A u \in Threads \ {t} :
         pc'[u] = pc[u] /\ cmd'[u] = cmd[u] /\ mem'[u] = mem[u] /\ wb'[u] = wb[u]
  BY <1>3, <1>4 DEF Begin, Goto, ThreadsTypeOK
<1>7. Exclusive'
  BY <1>5, <1>6 DEF GcInv, Exclusive, Running, Quiet, Key
<1>8. BootMap'
  BY <1>5 DEF BootMap
<1>9. ASSUME NEW x \in Keys PROVE Overwriting(x)' \/ Tracked(x)'
  <2>1. Overwriting(x) => Overwriting(x)'
    BY <1>5, <1>6 DEF Overwriting, Key
  <2>2. Tracked(x) => Tracked(x)'
    BY <1>5 DEF Tracked
  <2> QED
    BY <1>5, <2>1, <2>2 DEF GcInv
<1>10. Claim(t)'
  BY <1>5 DEF Claim, FirstPc
<1>11. ASSUME NEW u \in Threads \ {t} PROVE Claim(u)'
  BY <1>5, <1>6 DEF GcInv, Claim, Key
<1> QED
  BY <1>7, <1>8, <1>9, <1>10, <1>11 DEF GcInv

(* Compactions and the clock do not touch what the invariant is about; a      *)
(* restart empties the memory and the rebuild restores the map.              *)
LEMMA EnvironmentGc ==
    ASSUME GcInv, TypeInv', Booting',
           CompactionDrop \/ compact \/ Tick \/ UNCHANGED vars \/ Restart \/ Boot
    PROVE  GcInv'
<1>0. TypeInv /\ Booting /\ MapTypeOK
  BY DEF GcInv, TypeInv, TypeOK
<1>1. CASE CompactionDrop \/ compact \/ Tick \/ UNCHANGED vars
  <2>1. UNCHANGED <<metas, versions, boot, todo, pc, cmd, mem, wb>>
    BY <1>1 DEF CompactionDrop, compact, Tick, vars, disk, local
  <2>2. Exclusive' /\ BootMap'
    BY <2>1 DEF GcInv, Exclusive, BootMap, Tracked, Running, Key
  <2>3. \A t \in Threads : Claim(t)'
    BY <2>1 DEF GcInv, Claim, Key
  <2>4. ASSUME NEW x \in Keys, boot' = "serving" PROVE Overwriting(x)' \/ Tracked(x)'
    BY <2>1, <2>4 DEF GcInv, Overwriting, Tracked, Key
  <2> QED
    BY <2>2, <2>3, <2>4 DEF GcInv
<1>2. CASE Restart
  <2>1. boot' = "open" /\ \A t \in Threads : pc'[t] = "idle"
    BY <1>2 DEF Restart
  <2> QED
    BY <2>1 DEF GcInv, Exclusive, BootMap, Claim, Running
<1>3. CASE Boot
  <2>1. /\ boot # "serving" /\ UNCHANGED <<metas, pc, cmd, mem, wb>>
        /\ \A t \in Threads : pc'[t] = "idle"
    BY <1>0, <1>3 DEF Boot, install_gc, RebuildKey, Serve, disk, local, Booting, Running
  <2>2. Exclusive' /\ \A t \in Threads : Claim(t)'
    BY <2>1 DEF Exclusive, Claim, Running
  <2>3. CASE install_gc
    BY <2>2, <2>3 DEF install_gc, disk, GcInv, BootMap, Tracked
  <2>4. ASSUME NEW k \in Keys, RebuildKey(k) PROVE GcInv'
    <3>1. boot' = "rebuild" /\ boot = "rebuild" /\ todo' = todo \ {k}
      BY <2>4 DEF RebuildKey
    <3>2. Tracked(k)'
      BY <1>0, <2>4 DEF RebuildKey, Tracked, disk, MapTypeOK
    <3>3. \A x \in Keys \ {k} : metas'[x] = metas[x] /\ versions'[x] = versions[x]
      BY <1>0, <2>4 DEF RebuildKey, disk, MapTypeOK
    <3>4. BootMap'
      BY <3>1, <3>2, <3>3 DEF GcInv, BootMap, Tracked
    <3> QED
      BY <2>2, <3>1, <3>4 DEF GcInv
  <2>5. CASE Serve
    BY <2>2, <2>5 DEF Serve, disk, GcInv, BootMap, Tracked
  <2> QED
    BY <1>3, <2>3, <2>4, <2>5 DEF Boot
<1> QED
  BY <1>1, <1>2, <1>3

LEMMA InitGc == Init => GcInv
<1> SUFFICES ASSUME Init PROVE GcInv
  OBVIOUS
<1>1. boot = "open" /\ todo = {} /\ \A t \in Threads : pc[t] = "idle"
  BY DEF Init
<1>2. TypeInv
  BY InitType
<1> QED
  BY <1>1, <1>2 DEF GcInv, Booting, Exclusive, BootMap, Claim, Running

LEMMA NextGc == Serialised /\ GcInv /\ [Next]_vars => GcInv'
<1> SUFFICES ASSUME Serialised, GcInv, [Next]_vars PROVE GcInv'
  OBVIOUS
<1>0. TypeInv' /\ Booting'
  BY NextType, NextBooting DEF GcInv
<1>1. ASSUME NEW t \in Threads, Start(t) PROVE GcInv'
  BY <1>0, <1>1, StartGc
<1>2. ASSUME NEW t \in Threads, Step(t) PROVE GcInv'
  BY <1>0, <1>2, LoadGc, DeleteGc, CreateGc, CommitGc, ExecGc, FlushGc DEF Step
<1>3. ASSUME NEW t \in Threads, WriteFails(t) PROVE GcInv'
  BY <1>3 DEF WriteFails, Serialised
<1> QED
  BY <1>0, <1>1, <1>2, <1>3, EnvironmentGc DEF Next

(* Tracked keys are exactly what should_keep needs.                          *)
LEMMA GcInvKeeps == Serialised /\ GcInv => LiveRecordsKept
<1> SUFFICES ASSUME Serialised, GcInv, GcActive PROVE LiveRecordsKept
  BY DEF LiveRecordsKept
<1>1. boot = "serving"
  BY DEF GcActive, Serialised
<1>2. ASSUME NEW r, r.key \in Keys, Owned(r), ~Overwriting(r.key) PROVE should_keep(r)
  <2>1. Tracked(r.key)
    BY <1>1, <1>2 DEF GcInv
  <2>2. metas[r.key].ver \in Nat \ {0}
    BY <1>2 DEF Owned, GcInv, TypeInv, TypeOK, DiskTypeOK, Metas
  <2> QED
    BY <1>2, <2>1, <2>2 DEF Tracked, Owned, should_keep
<1>3. (\A r \in subs : r.key \in Keys) /\ (\A r \in index : r.key \in Keys)
  BY DEF GcInv, TypeInv, TypeOK, DiskTypeOK, SubRecs, IdxRecs
<1> QED
  BY <1>2, <1>3 DEF LiveRecordsKept

(* With commands serialised per key and no failing write, VersionMap's       *)
(* should_keep never condemns a record its key's metadata refers to, for any *)
(* number of keys, threads, crashes and restarts, and whatever the wall      *)
(* clock does.                                                               *)
THEOREM CompactionKeepsLiveRecords == Serialised => (Spec => []LiveRecordsKept)
<1> SUFFICES ASSUME Serialised PROVE Spec => []LiveRecordsKept
  OBVIOUS
<1>1. Init => GcInv
  BY InitGc
<1>2. GcInv /\ [Next]_vars => GcInv'
  BY NextGc
<1>3. GcInv => LiveRecordsKept
  BY GcInvKeeps
<1> QED
  BY <1>1, <1>2, <1>3, PTL DEF Spec
-----------------------------------------------------------------------------
(* The map is exact. *)

(* A creating command that finds no record of its version always writes:     *)
(* the version it registered is the version of the metadata it commits.      *)
LEMMA CreatorsWrite ==
    ASSUME NEW op \in Creators, NEW k \in Keys, NEW m \in Metas, NEW a \in Args[op],
           NoRecords(k, m.ver)
    PROVE  Plan(op, k, m, a).to = "commit"
<1>0. scan(k, m.ver) = {} /\ \A f : ~has(k, m.ver, f)
  BY DEF NoRecords, scan, has
<1>1. CASE op = "hset"
  BY <1>1 DEF Plan, hset, Write
<1>2. CASE op \in {"lpush", "rpush"}
  BY <1>2 DEF Plan, push, Write
<1>3. CASE op = "sadd"
  <2>1. a \in Seq(Fields) /\ a # <<>>
    BY <1>3, ArgsAssumption DEF sadd_args, NonEmptySeq
  <2>2. 1 \in DOMAIN a
    BY <2>1
  <2>3. a[1] \in {x \in {a[i] : i \in DOMAIN a} : ~has(k, m.ver, x)}
    BY <1>0, <2>2
  <2>4. Plan(op, k, m, a) = sadd(k, m, a)
    BY <1>3 DEF Plan
  <2> QED
    BY <2>3, <2>4 DEF sadd, Write
<1>4. CASE op = "zadd"
  <2>1. a \in Seq([score : Scores, member : Fields]) /\ a # <<>>
    BY <1>4, ArgsAssumption DEF zadd_args, NonEmptySeq
  <2>2. Len(a) \in DOMAIN a /\ DOMAIN a = 1 .. Len(a) /\ Len(a) \in Nat
    BY <2>1
  <2>3. a[Len(a)] \in effective(a)
    BY <2>2 DEF effective
  <2> DEFINE old(p) == Stored(k, m.ver, p.member)
             added == {p \in effective(a) : old(p) = {}}
             moved == {p \in effective(a) : \E r \in old(p) : ~same_score(r.val, p.score)}
  <2>4. a[Len(a)] \in added
    BY <1>0, <2>3 DEF Stored
  <2>5. ~undecodable(k, m.ver, {p.member : p \in effective(a)})
    BY <1>0 DEF undecodable
  <2>6. added \cup moved # {}
    BY <2>4
  <2>7. Plan(op, k, m, a) = zadd(k, m, a)
    BY <1>4 DEF Plan
  <2> QED
    BY <2>5, <2>6, <2>7 DEF zadd, Write
<1> QED
  BY <1>1, <1>2, <1>3, <1>4 DEF Creators

(* A step of one thread that touches metadata and map of its own key only    *)
(* keeps the map exact when the thread leaves its own entry exact.           *)
LEMMA OwnMap ==
    ASSUME MapInv, GcInv', SerialInv', NEW t \in Threads, Running(t),
           cmd[t].op # "flush", NEW k \in Keys, k = Key(t),
           \A u \in Threads \ {t} : pc'[u] = pc[u] /\ cmd'[u] = cmd[u],
           cmd'[t] = cmd[t] \/ (pc'[t] = "idle" /\ Exact(k)'),
           \A x \in Keys \ {k} : metas'[x] = metas[x] /\ versions'[x] = versions[x],
           UNCHANGED boot,
           Settled(t)'
    PROVE  MapInv'
<1>0. boot = "serving" /\ boot' = "serving" /\ TypeInv /\ Booting
  BY RunningKey DEF MapInv, SerialInv
<1>1. BootExact'
  BY <1>0 DEF BootExact
<1>2. \A x \in Keys \ {k} : Exact(x) => Exact(x)'
  BY DEF Exact, CurrentVersion
<1>3. VersionMapExact'
  <2> SUFFICES ASSUME NEW x \in Keys, Quiet(x)' PROVE Exact(x)'
    BY DEF VersionMapExact, Exact
  <2>1. CASE x = k
    BY <2>1 DEF Quiet, Key
  <2>2. CASE x # k
    <3>1. Quiet(x)
      BY <2>2 DEF Quiet, Key
    <3> QED
      BY <1>0, <1>2, <2>2, <3>1 DEF MapInv, VersionMapExact, Exact
  <2> QED
    BY <2>1, <2>2
<1>4. ASSUME NEW u \in Threads PROVE Settled(u)'
  <2>1. CASE u # t /\ Running(u)
    <3>1. Key(u) # k /\ Key(u) \in Keys /\ Settled(u)
      BY <1>0, <2>1, RunningKey DEF MapInv, SerialInv, Exclusive
    <3>2. Key(u)' = Key(u) /\ pc'[u] = pc[u] /\ cmd'[u] = cmd[u]
      BY <2>1 DEF Key
    <3>3. (Exact(Key(u)) => Exact(Key(u))') /\ versions'[Key(u)] = versions[Key(u)]
      BY <1>2, <3>1, <3>2 DEF Exact, CurrentVersion
    <3> QED
      BY <3>1, <3>2, <3>3 DEF Settled
  <2>2. CASE u # t /\ ~Running(u)
    BY <2>2 DEF Settled, Running
  <2> QED
    BY <2>1, <2>2
<1> QED
  BY <1>1, <1>3, <1>4 DEF MapInv

(* What is known of a thread at work, for any of its steps.                  *)
LEMMA AtWork ==
    ASSUME MapInv, NEW t \in Threads, Running(t), cmd[t].op # "flush"
    PROVE  /\ TypeInv /\ ThreadsTypeOK /\ DiskTypeOK /\ MapTypeOK /\ Control(t)
           /\ Claim(t) /\ Anchored(t) /\ Settled(t) /\ Key(t) \in Keys
  BY RunningKey DEF MapInv, GcInv, SerialInv, TypeInv, TypeOK, ControlOK

(* The frame of a command that ends.                                         *)
LEMMA FinishMap ==
    ASSUME MapInv, GcInv', SerialInv', NEW t \in Threads, Running(t), cmd[t].op # "flush",
           Finish(t), UNCHANGED boot,
           \A x \in Keys \ {Key(t)} : metas'[x] = metas[x] /\ versions'[x] = versions[x],
           NEW k \in Keys, k = Key(t), Exact(k)'
    PROVE  MapInv'
<1>1. ThreadsTypeOK
  BY AtWork
<1>2. (\A u \in Threads \ {t} : pc'[u] = pc[u] /\ cmd'[u] = cmd[u]) /\ pc'[t] = "idle"
  BY <1>1 DEF Finish, ThreadsTypeOK
<1>3. Settled(t)'
  BY <1>2 DEF Settled
<1> QED
  BY <1>2, <1>3, OwnMap

(* The copy of a composite's metadata that the map's entry matches.          *)
LEMMA HoldingExact ==
    ASSUME NEW k, NEW m, m.type \in Composite, versions[k] = m.ver, Holding(k, m)
    PROVE  Exact(k)
  BY DEF Exact, CurrentVersion, Holding

-----------------------------------------------------------------------------
(* load_live_meta and load_typed change neither the map nor the metadata.    *)
LEMMA LoadMap ==
    ASSUME MapInv, GcInv', SerialInv', NEW t \in Threads,
           LoadMissing(t) \/ LoadExpired(t) \/ LoadFound(t)
    PROVE  MapInv'
<1>0. pc[t] \in {"peek", "load"} /\ Running(t) /\ UNCHANGED <<metas, versions, boot>>
  BY DEF LoadMissing, LoadExpired, LoadFound, disk, Running
<1>1. Control(t)
  BY DEF MapInv, GcInv, TypeInv, ControlOK
<1>2. cmd[t].op \notin {"flush", "set"}
  BY <1>0, <1>1 DEF Control, Creators, Removers
<1>3. Settled(t) /\ ThreadsTypeOK /\ Key(t) \in Keys
  BY <1>0, <1>2, AtWork
<1>4. PICK k \in Keys : k = Key(t)
  BY <1>3
<1>5. Exact(k)'
  BY <1>0, <1>3, <1>4 DEF Settled, Exact, CurrentVersion
<1>6. CASE Finish(t)
  BY <1>0, <1>2, <1>4, <1>5, <1>6, FinishMap
<1>7. CASE ~Finish(t)
  <2>1. /\ \A u \in Threads \ {t} : pc'[u] = pc[u] /\ cmd'[u] = cmd[u]
        /\ cmd'[t] = cmd[t] /\ Key(t)' = k
    BY <1>3, <1>4, <1>7
    DEF LoadMissing, LoadExpired, LoadFound, Continue, Goto, ThreadsTypeOK, Key
  <2>2. Settled(t)'
    BY <1>2, <1>5, <2>1 DEF Settled
  <2> QED
    BY <1>0, <1>2, <1>4, <2>1, <2>2, OwnMap
<1> QED
  BY <1>6, <1>7

(* logical_delete leaves neither metadata nor an entry.                      *)
LEMMA DeleteMap ==
    ASSUME MapInv, GcInv', SerialInv', NEW t \in Threads, DeleteMeta(t) \/ ForgetVersion(t)
    PROVE  MapInv'
<1>0. /\ pc[t] \in {"expire", "delete", "expired", "forget"} /\ Running(t)
      /\ UNCHANGED boot
  BY DEF DeleteMeta, ForgetVersion, Running
<1>1. Control(t)
  BY DEF MapInv, GcInv, TypeInv, ControlOK
<1>2. cmd[t].op \notin {"flush", "set"}
  BY <1>0, <1>1 DEF Control, Creators, Removers
<1>3. Anchored(t) /\ ThreadsTypeOK /\ DiskTypeOK /\ MapTypeOK /\ Key(t) \in Keys
  BY <1>0, <1>2, AtWork
<1>4. PICK k \in Keys : k = Key(t)
  BY <1>3
<1>5. \A x \in Keys \ {k} : metas'[x] = metas[x] /\ versions'[x] = versions[x]
  BY <1>3, <1>4 DEF DeleteMeta, ForgetVersion, write, NoBatch, disk, MapTypeOK
<1>6. CASE Finish(t)
  <2>1. ForgetVersion(t)
    BY <1>3, <1>6 DEF DeleteMeta, Goto, Finish, ThreadsTypeOK
  <2>2. metas'[k] = NoMeta /\ versions'[k] = 0
    BY <1>3, <1>4, <2>1 DEF ForgetVersion, Anchored, MapTypeOK, disk
  <2>3. Exact(k)'
    BY <2>2 DEF Exact, CurrentVersion
  <2> QED
    BY <1>0, <1>2, <1>4, <1>5, <1>6, <2>3, FinishMap
<1>7. CASE ~Finish(t)
  <2>1. /\ \A u \in Threads \ {t} : pc'[u] = pc[u] /\ cmd'[u] = cmd[u]
        /\ cmd'[t] = cmd[t] /\ pc'[t] \in {"expired", "forget", "alloc"}
    BY <1>3, <1>7 DEF DeleteMeta, ForgetVersion, Continue, MissingPc, Goto, ThreadsTypeOK
  <2>2. Settled(t)'
    BY <1>2, <2>1 DEF Settled
  <2> QED
    BY <1>0, <1>2, <1>4, <1>5, <2>1, <2>2, OwnMap
<1> QED
  BY <1>6, <1>7

(* SET drops the entry first; a creating command registers a new one.        *)
LEMMA CreateMap ==
    ASSUME MapInv, GcInv', SerialInv', NEW t \in Threads,
           Overwrite(t) \/ Alloc(t) \/ Register(t)
    PROVE  MapInv'
<1>0. /\ pc[t] \in {"overwrite", "alloc", "register"} /\ Running(t)
      /\ UNCHANGED <<metas, boot, cmd>>
  BY DEF Overwrite, Alloc, Drawn, Register, disk, Running
<1>1. Control(t)
  BY DEF MapInv, GcInv, TypeInv, ControlOK
<1>2. cmd[t].op # "flush"
  BY <1>0, <1>1 DEF Control, Creators, Removers
<1>3. Settled(t) /\ ThreadsTypeOK /\ MapTypeOK /\ Key(t) \in Keys
  BY <1>0, <1>2, AtWork
<1>4. PICK k \in Keys : k = Key(t)
  BY <1>3
<1>5. /\ \A u \in Threads \ {t} : pc'[u] = pc[u] /\ cmd'[u] = cmd[u]
      /\ cmd'[t] = cmd[t] /\ Key(t)' = k
      /\ \A x \in Keys \ {k} : metas'[x] = metas[x] /\ versions'[x] = versions[x]
  BY <1>0, <1>3, <1>4 DEF Overwrite, Alloc, Drawn, Register, Goto, ThreadsTypeOK, MapTypeOK, Key
<1>6. Settled(t)'
  <2>1. CASE Overwrite(t)
    <3>1. pc'[t] = "alloc" /\ versions'[k] = 0 /\ cmd[t].op = "set"
      BY <1>1, <1>3, <1>4, <2>1 DEF Overwrite, Goto, ThreadsTypeOK, MapTypeOK, Control
    <3> QED
      BY <1>5, <3>1 DEF Settled
  <2>2. CASE Alloc(t)
    <3>1. /\ pc[t] = "alloc" /\ versions' = versions
          /\ pc'[t] = IF cmd[t].op = "set" THEN "put" ELSE "register"
      BY <1>3, <2>2 DEF Alloc, Drawn, Goto, ThreadsTypeOK
    <3> QED
      BY <1>3, <1>4, <1>5, <3>1 DEF Settled
  <2>3. CASE Register(t)
    <3>1. pc'[t] = "exec"
      BY <1>3, <2>3 DEF Register, Goto, ThreadsTypeOK
    <3> QED
      BY <3>1 DEF Settled
  <2> QED
    BY <2>1, <2>2, <2>3
<1> QED
  BY <1>0, <1>2, <1>4, <1>5, <1>6, OwnMap

(* put_meta and the batch of a composite command: the entry was put in place *)
(* before the metadata.                                                      *)
LEMMA CommitMap ==
    ASSUME MapInv, GcInv', SerialInv', NEW t \in Threads, PutMeta(t) \/ Commit(t)
    PROVE  MapInv'
<1>0. /\ pc[t] \in {"put", "commit", "empty"} /\ Running(t)
      /\ UNCHANGED <<versions, boot>>
  BY DEF PutMeta, Commit, Running
<1>1. Control(t)
  BY DEF MapInv, GcInv, TypeInv, ControlOK
<1>2. cmd[t].op # "flush"
  BY <1>0, <1>1 DEF Control, Creators, Removers
<1>3. /\ Settled(t) /\ Claim(t) /\ Anchored(t) /\ ThreadsTypeOK /\ Key(t) \in Keys
  BY <1>0, <1>2, AtWork
<1>4. PICK k \in Keys : k = Key(t)
  BY <1>3
<1>5. CASE PutMeta(t)
  <2> DEFINE b == [NoBatch EXCEPT !.mput = mem[t]]
  <2>1. b.mdel = {} /\ b.mput = mem[t] /\ write(k, b) /\ pc[t] = "put"
    BY <1>4, <1>5 DEF PutMeta, NoBatch
  <2> HIDE DEF b
  <2>2. mem[t] \in Metas /\ mem[t] # NoMeta
    BY <1>1, <2>1, NoMetaAssumption DEF Control
  <2>3. metas'[k] = mem[t] /\ \A x \in Keys \ {k} : metas'[x] = metas[x]
    BY <2>1, <2>2, WriteMeta
  <2>4. Exact(k)'
    <3>1. CASE cmd[t].op = "set"
      <4>1. mem[t].type = "string" /\ versions'[k] = 0
        BY <1>0, <1>1, <1>3, <1>4, <2>1, <3>1 DEF Control, Settled
      <4> QED
        BY <2>3, <4>1 DEF Exact, CurrentVersion, Composite
    <3>2. CASE cmd[t].op = "expire"
      <4>1. Exact(k) /\ Holding(k, mem[t])
        BY <1>3, <1>4, <2>1, <3>2 DEF Settled, Anchored
      <4> QED
        BY <1>0, <2>2, <2>3, <4>1 DEF Exact, CurrentVersion, Holding
    <3> QED
      BY <1>1, <2>1, <3>1, <3>2 DEF Control
  <2> QED
    BY <1>0, <1>2, <1>4, <1>5, <2>3, <2>4, FinishMap DEF PutMeta
<1>6. CASE Commit(t)
  <2>1. wb[t].mdel = {} /\ write(k, wb[t])
    BY <1>0, <1>1, <1>4, <1>6 DEF Commit, Control
  <2>2. /\ metas'[k] = IF wb[t].mput # NoMeta THEN wb[t].mput ELSE metas[k]
        /\ \A x \in Keys \ {k} : metas'[x] = metas[x]
    BY <2>1, WriteMeta
  <2>3. CASE pc[t] = "commit"
    <3>1. wb[t].mput \in Metas /\ wb[t].mput.type = type_for(cmd[t].op)
      BY <1>1, <2>3 DEF Control
    <3>2. type_for(cmd[t].op) \in Composite
      BY DEF type_for, Composite
    <3>3. metas'[k] = wb[t].mput /\ versions'[k] = wb[t].mput.ver /\ metas'[k] # NoMeta
      BY <1>0, <1>3, <1>4, <2>2, <2>3, <3>1, NoMetaAssumption DEF Claim
    <3>4. Exact(k)'
      BY <3>1, <3>2, <3>3 DEF Exact, CurrentVersion
    <3>5. Finish(t)
      BY <1>6, <2>3 DEF Commit
    <3> QED
      BY <1>0, <1>2, <1>4, <2>2, <3>4, <3>5, FinishMap
  <2>4. CASE pc[t] = "empty"
    <3>1. /\ \A u \in Threads \ {t} : pc'[u] = pc[u] /\ cmd'[u] = cmd[u]
          /\ cmd'[t] = cmd[t] /\ pc'[t] = "delete"
      BY <1>3, <1>6, <2>4 DEF Commit, Goto, ThreadsTypeOK
    <3>2. Settled(t)'
      BY <3>1 DEF Settled
    <3> QED
      BY <1>0, <1>2, <1>4, <2>2, <3>1, <3>2, OwnMap
  <2> QED
    BY <1>6, <2>3, <2>4 DEF Commit
<1> QED
  BY <1>5, <1>6

(* The body of a composite command: one that writes nothing has found the    *)
(* structure it works on.                                                    *)
LEMMA ExecMap ==
    ASSUME MapInv, GcInv', SerialInv', NEW t \in Threads, Exec(t)
    PROVE  MapInv'
<1>0. pc[t] = "exec" /\ Running(t) /\ UNCHANGED <<metas, versions, boot>>
  BY DEF Exec, disk, Running
<1>1. Control(t)
  BY DEF MapInv, GcInv, TypeInv, ControlOK
<1>2. cmd[t].op # "flush"
  BY <1>0, <1>1 DEF Control, Creators, Removers
<1>3. /\ Claim(t) /\ Anchored(t) /\ ThreadsTypeOK /\ DiskTypeOK /\ Key(t) \in Keys
  BY <1>0, <1>2, AtWork
<1>4. PICK k \in Keys : k = Key(t)
  BY <1>3
<1> DEFINE op == cmd[t].op
           plan == Plan(op, Key(t), mem[t], cmd[t].args)
<1>5. op \in Creators \cup Removers /\ mem[t] \in Metas /\ cmd[t].args \in Args[op]
  BY <1>0, <1>1, <1>3 DEF Control, ThreadsTypeOK, Ops
<1>6. GoodPlan(plan, Key(t), mem[t], op)
  BY <1>3, <1>5, PlanGood DEF DiskTypeOK
<1>7. CASE plan.to = "idle"
  <2>1. Holding(k, mem[t])
    <3>1. CASE op \in Removers
      BY <1>0, <1>3, <1>4, <3>1 DEF Anchored
    <3>2. CASE op \in Creators
      <4>1. ~NoRecords(Key(t), mem[t].ver)
        <5> HIDE DEF op
        <5> QED
          BY <1>3, <1>5, <1>7, <3>2, CreatorsWrite
      <4> QED
        BY <1>0, <1>3, <1>4, <4>1 DEF Anchored, Anchor
    <3> QED
      BY <1>5, <3>1, <3>2
  <2>2. mem[t].type \in Composite /\ versions[k] = mem[t].ver
    BY <1>0, <1>1, <1>3, <1>4 DEF Control, Claim, type_for, Composite
  <2>3. Exact(k)
    BY <2>1, <2>2, HoldingExact
  <2>4. Exact(k)'
    BY <1>0, <2>3 DEF Exact, CurrentVersion
  <2>5. Finish(t)
    BY <1>7 DEF Exec
  <2> QED
    BY <1>0, <1>2, <1>4, <2>4, <2>5, FinishMap
<1>8. CASE plan.to # "idle"
  <2>1. Goto(t, plan.to) /\ UNCHANGED cmd
    BY <1>8 DEF Exec
  <2>2. plan.to \in {"commit", "empty"}
    BY <1>6, <1>8 DEF GoodPlan
  <2> HIDE DEF plan
  <2>3. /\ \A u \in Threads \ {t} : pc'[u] = pc[u] /\ cmd'[u] = cmd[u]
        /\ cmd'[t] = cmd[t] /\ pc'[t] \in {"commit", "empty"}
    BY <1>3, <2>1, <2>2 DEF Goto, ThreadsTypeOK
  <2>4. Settled(t)'
    BY <2>3 DEF Settled
  <2> QED
    BY <1>0, <1>2, <1>4, <2>3, <2>4, OwnMap
<1> QED
  BY <1>7, <1>8

(* flush_all empties metadata and map; until then no key is quiet.           *)
LEMMA FlushMap ==
    ASSUME MapInv, GcInv', SerialInv', NEW t \in Threads,
           FlushMeta(t) \/ FlushSub(t) \/ FlushIdx(t) \/ FlushWrite(t) \/ FlushClear(t)
    PROVE  MapInv'
<1>0. /\ ThreadsTypeOK /\ Control(t) /\ Claim(t) /\ pc[t] \in FlushPcs /\ Running(t)
      /\ TypeInv /\ Booting /\ UNCHANGED boot
  BY DEF MapInv, GcInv, TypeInv, TypeOK, ControlOK, FlushPcs, Running,
     FlushMeta, FlushSub, FlushIdx, FlushWrite, FlushClear
<1>1. cmd[t].op = "flush" /\ boot' = "serving"
  BY <1>0, RunningKey DEF Control
<1>2. /\ \A u \in Threads \ {t} : pc'[u] = pc[u]
      /\ pc'[t] \in FlushPcs \cup {"idle"}
  BY <1>0 DEF FlushMeta, FlushSub, FlushIdx, FlushWrite, FlushClear, Goto, Finish,
     ThreadsTypeOK, FlushPcs
<1>3. \A u \in Threads \ {t} : pc'[u] = "idle"
  BY <1>0, <1>1, <1>2 DEF MapInv, SerialInv, Exclusive, Running
<1>4. \A u \in Threads : Settled(u)'
  BY <1>2, <1>3 DEF Settled, FlushPcs
<1>5. BootExact'
  BY <1>1 DEF BootExact
<1>6. VersionMapExact'
  <2>1. CASE FlushClear(t)
    <3>1. \A x \in Keys : metas'[x] = NoMeta /\ versions'[x] = 0
      BY <1>0, <2>1 DEF FlushClear, Claim, disk
    <3> QED
      BY <3>1 DEF VersionMapExact, CurrentVersion
  <2>2. CASE ~FlushClear(t)
    <3>1. cmd' = cmd
      BY <2>2 DEF FlushMeta, FlushSub, FlushIdx, FlushWrite
    <3> QED
      BY <1>1, <3>1 DEF VersionMapExact, Quiet
  <2> QED
    BY <2>1, <2>2
<1> QED
  BY <1>4, <1>5, <1>6 DEF MapInv

-----------------------------------------------------------------------------
(* A command starts on a key whose entry is exact.                           *)
LEMMA StartMap ==
    ASSUME Serialised, MapInv, GcInv', SerialInv', NEW t \in Threads, Start(t)
    PROVE  MapInv'
<1>1. PICK op \in Ops, k \in Keys \cup {NoKey} : \E a \in Args[op] : Begin(t, op, k, a)
  BY DEF Start
<1>2. PICK a \in Args[op] : Begin(t, op, k, a)
  BY <1>1
<1>3. ThreadsTypeOK /\ Control(t)
  BY DEF MapInv, GcInv, TypeInv, TypeOK, ControlOK
<1>4. /\ pc[t] = "idle" /\ boot = "serving" /\ boot' = "serving"
      /\ UNCHANGED <<metas, versions>>
      /\ pc'[t] = FirstPc(op) /\ cmd'[t].op = op /\ Key(t)' = k
      /\ (k = NoKey) <=> (op = "flush")
      /\ IF op = "flush" THEN \A u \in Threads : ~Running(u) ELSE Quiet(k)
  BY <1>2, <1>3 DEF Begin, Running, Goto, ThreadsTypeOK, disk, Key, Admits, Serialised
<1>5. \A u \in Threads \ {t} : pc'[u] = pc[u] /\ cmd'[u] = cmd[u]
  BY <1>2, <1>3 DEF Begin, Goto, ThreadsTypeOK
<1>6. \A x \in Keys : Exact(x)' = Exact(x)
  BY <1>4 DEF Exact, CurrentVersion
<1>7. VersionMapExact'
  <2> SUFFICES ASSUME NEW x \in Keys, Quiet(x)' PROVE Exact(x)'
    BY DEF VersionMapExact, Exact
  <2>1. Key(t) = NoKey /\ cmd[t].op = "none"
    BY <1>3, <1>4 DEF Control, Key
  <2>2. Quiet(x)
    BY <1>5, <2>1, BaseAssumption DEF Quiet, Key
  <2> QED
    BY <1>4, <1>6, <2>2 DEF MapInv, VersionMapExact, Exact
<1>8. Settled(t)'
  <2>1. CASE pc'[t] \in {"peek", "load"}
    <3>1. op # "flush"
      BY <1>4, <2>1 DEF FirstPc
    <3>2. k \in Keys /\ Exact(k)
      BY <1>4, <3>1 DEF MapInv, VersionMapExact, Exact
    <3> QED
      BY <1>4, <1>6, <2>1, <3>2 DEF Settled
  <2>2. CASE pc'[t] \in {"overwrite", "flushMeta"}
    BY <2>2 DEF Settled
  <2> QED
    BY <1>4, <2>1, <2>2 DEF FirstPc
<1>9. ASSUME NEW u \in Threads \ {t} PROVE Settled(u)'
  BY <1>4, <1>5 DEF MapInv, Settled, Exact, CurrentVersion, Key
<1>10. BootExact'
  BY <1>4 DEF BootExact
<1> QED
  BY <1>7, <1>8, <1>9, <1>10 DEF MapInv

(* Compactions and the clock touch neither side; a restart empties the map   *)
(* and the rebuild fills it from the metadata.                               *)
LEMMA EnvironmentMap ==
    ASSUME MapInv, GcInv', SerialInv',
           CompactionDrop \/ compact \/ Tick \/ UNCHANGED vars \/ Restart \/ Boot
    PROVE  MapInv'
<1>0. TypeInv /\ Booting /\ MapTypeOK
  BY DEF MapInv, GcInv, TypeInv, TypeOK
<1>1. CASE CompactionDrop \/ compact \/ Tick \/ UNCHANGED vars
  <2>1. UNCHANGED <<metas, versions, boot, todo, pc, cmd>>
    BY <1>1 DEF CompactionDrop, compact, Tick, vars, disk, local
  <2>2. BootExact'
    BY <2>1 DEF MapInv, BootExact, Exact, CurrentVersion
  <2>3. VersionMapExact'
    BY <2>1 DEF MapInv, VersionMapExact, CurrentVersion, Quiet, Key
  <2>4. \A t \in Threads : Settled(t)'
    BY <2>1 DEF MapInv, Settled, Exact, CurrentVersion, Key
  <2> QED
    BY <2>2, <2>3, <2>4 DEF MapInv
<1>2. CASE Restart
  <2>1. boot' = "open" /\ (\A t \in Threads : pc'[t] = "idle") /\ \A k \in Keys : versions'[k] = 0
    BY <1>2 DEF Restart
  <2> QED
    BY <2>1 DEF MapInv, BootExact, VersionMapExact, Settled
<1>3. CASE Boot
  <2>1. /\ boot # "serving" /\ UNCHANGED metas /\ \A t \in Threads : pc'[t] = "idle"
    BY <1>0, <1>3 DEF Boot, install_gc, RebuildKey, Serve, disk, local, Booting, Running
  <2>2. \A t \in Threads : Settled(t)'
    BY <2>1 DEF Settled
  <2>3. CASE install_gc
    BY <2>2, <2>3 DEF install_gc, disk, MapInv, BootExact, VersionMapExact, Exact, CurrentVersion
  <2>4. ASSUME NEW k \in Keys, RebuildKey(k) PROVE MapInv'
    <3>1. /\ boot' = "rebuild" /\ boot = "rebuild" /\ todo' = todo \ {k} /\ k \in todo
          /\ metas[k] # NoMeta
      BY <1>0, <2>4 DEF RebuildKey, Booting
    <3>2. \A x \in Keys \ {k} : versions'[x] = versions[x]
      BY <1>0, <2>4 DEF RebuildKey, MapTypeOK
    <3>3. versions[k] = 0
      BY <3>1 DEF MapInv, BootExact
    <3>4. Exact(k)'
      BY <1>0, <2>1, <2>4, <3>1, <3>3 DEF RebuildKey, Exact, CurrentVersion, MapTypeOK
    <3>5. BootExact'
      BY <2>1, <3>1, <3>2, <3>4 DEF MapInv, BootExact, Exact, CurrentVersion
    <3> QED
      BY <2>2, <3>1, <3>5 DEF MapInv, VersionMapExact
  <2>5. CASE Serve
    <3>1. boot = "rebuild" /\ todo = {} /\ boot' = "serving" /\ UNCHANGED versions
      BY <2>5 DEF Serve
    <3>2. \A k \in Keys : Exact(k)
      BY <3>1 DEF MapInv, BootExact
    <3> QED
      BY <2>1, <2>2, <3>1, <3>2 DEF MapInv, BootExact, VersionMapExact, Exact, CurrentVersion
  <2> QED
    BY <1>3, <2>3, <2>4, <2>5 DEF Boot
<1> QED
  BY <1>1, <1>2, <1>3

LEMMA InitMap == Init => MapInv
<1> SUFFICES ASSUME Init PROVE MapInv
  OBVIOUS
<1>1. boot = "open" /\ (\A t \in Threads : pc[t] = "idle") /\ \A k \in Keys : versions[k] = 0
  BY DEF Init
<1>2. GcInv /\ SerialInv
  BY InitGc, InitSerial
<1> QED
  BY <1>1, <1>2 DEF MapInv, BootExact, VersionMapExact, Settled

LEMMA NextMap == Serialised /\ NoClockBack /\ MapInv /\ [Next]_vars => MapInv'
<1> SUFFICES ASSUME Serialised, NoClockBack, MapInv, [Next]_vars PROVE MapInv'
  OBVIOUS
<1>0. GcInv' /\ SerialInv'
  BY NextGc, NextSerial DEF MapInv, Serialised, OneAtATime
<1>1. ASSUME NEW t \in Threads, Start(t) PROVE MapInv'
  BY <1>0, <1>1, StartMap
<1>2. ASSUME NEW t \in Threads, Step(t) PROVE MapInv'
  BY <1>0, <1>2, LoadMap, DeleteMap, CreateMap, CommitMap, ExecMap, FlushMap DEF Step
<1>3. ASSUME NEW t \in Threads, WriteFails(t) PROVE MapInv'
  BY <1>3 DEF WriteFails, Serialised
<1> QED
  BY <1>0, <1>1, <1>2, <1>3, EnvironmentMap DEF Next

(* Between the commands on a key, the version map maps it to the version of  *)
(* its composite on disk and has no entry for a string or a missing key,     *)
(* through crashes and rebuilds, for any number of keys and threads, with    *)
(* commands serialised per key, no failing write and no clock that steps     *)
(* back.                                                                     *)
THEOREM MapIsExact == Serialised /\ NoClockBack => (Spec => []VersionMapExact)
<1> SUFFICES ASSUME Serialised, NoClockBack PROVE Spec => []VersionMapExact
  OBVIOUS
<1>1. Init => MapInv
  BY InitMap
<1>2. MapInv /\ [Next]_vars => MapInv'
  BY NextMap
<1>3. MapInv => VersionMapExact
  BY DEF MapInv
<1> QED
  BY <1>1, <1>2, <1>3, PTL DEF Spec

(* No thread runs while the map is rebuilt, so nothing but the rebuild       *)
(* touches the map and the metadata then, whatever the faults.               *)
LEMMA NextBootExact == TypeInv /\ Booting /\ BootExact /\ [Next]_vars => BootExact'
<1> SUFFICES ASSUME TypeInv, Booting, BootExact, [Next]_vars PROVE BootExact'
  OBVIOUS
<1>0. MapTypeOK
  BY DEF TypeInv, TypeOK
<1>1. ASSUME NEW t \in Threads, Start(t) \/ Step(t) \/ WriteFails(t) PROVE BootExact'
  <2>1. boot = "serving"
    <3>1. CASE Start(t)
      BY <3>1 DEF Start, Begin
    <3>2. CASE Step(t) \/ WriteFails(t)
      BY <3>2 DEF Booting, Running, Step, LoadMissing, LoadExpired, LoadFound, DeleteMeta,
         ForgetVersion, Overwrite, Alloc, Drawn, Register, PutMeta, Exec, Commit, FlushMeta,
         FlushSub, FlushIdx, FlushWrite, FlushClear, WriteFails
    <3> QED BY <1>1, <3>1, <3>2
  <2>2. UNCHANGED boot
    BY <1>1 DEF Start, Begin, Step, LoadMissing, LoadExpired, LoadFound, DeleteMeta,
       ForgetVersion, Overwrite, Alloc, Drawn, Register, PutMeta, Exec, Commit, FlushMeta,
       FlushSub, FlushIdx, FlushWrite, FlushClear, WriteFails
  <2> QED BY <2>1, <2>2 DEF BootExact
<1>2. CASE CompactionDrop \/ compact \/ Tick \/ UNCHANGED vars
  <2>1. UNCHANGED <<metas, versions, boot, todo>>
    BY <1>2 DEF CompactionDrop, compact, Tick, vars, disk
  <2> QED BY <2>1 DEF BootExact, Exact, CurrentVersion
<1>3. CASE Restart
  BY <1>3 DEF Restart, BootExact
<1>4. CASE install_gc
  BY <1>4 DEF install_gc, disk, BootExact, Exact, CurrentVersion
<1>5. ASSUME NEW k \in Keys, RebuildKey(k) PROVE BootExact'
  <2>1. boot = "rebuild" /\ boot' = "rebuild" /\ todo' = todo \ {k} /\ k \in todo /\ UNCHANGED metas
    BY <1>5 DEF RebuildKey, disk
  <2>2. metas[k] # NoMeta /\ versions[k] = 0
    BY <2>1 DEF Booting, BootExact
  <2>3. \A x \in Keys \ {k} : versions'[x] = versions[x]
    BY <1>0, <1>5 DEF RebuildKey, MapTypeOK
  <2>4. Exact(k)'
    BY <1>0, <1>5, <2>1, <2>2 DEF RebuildKey, Exact, CurrentVersion, MapTypeOK
  <2> QED BY <2>1, <2>3, <2>4 DEF BootExact, Exact, CurrentVersion
<1>6. CASE Serve
  BY <1>6 DEF Serve, BootExact
<1> QED
  BY <1>1, <1>2, <1>3, <1>4, <1>5, <1>6 DEF Next, Boot

(* A process that begins to serve has an exact version map, whatever earlier *)
(* processes left on disk through overlapping commands, failed writes, stops *)
(* at any step, also during a rebuild, compactions in the rebuild and wall   *)
(* clocks that stepped back: what a race does to the map ends with a restart. *)
THEOREM RebuildIsExact ==
    Spec => [][Serve => \A k \in Keys : versions'[k] = CurrentVersion(k)']_vars
<1> DEFINE Inv == TypeInv /\ Booting /\ BootExact
<1>1. Init => Inv
  BY InitType DEF Init, Booting, BootExact, Running
<1>2. Inv /\ [Next]_vars => Inv'
  BY NextType, NextBooting, NextBootExact
<1>3. Inv /\ Serve => \A k \in Keys : versions'[k] = CurrentVersion(k)'
  BY DEF Serve, disk, BootExact, Exact, CurrentVersion
<1>4. Inv /\ [Next]_vars => [Serve => \A k \in Keys : versions'[k] = CurrentVersion(k)']_vars
  BY <1>3
<1> QED
  <2> HIDE DEF Inv
  <2> QED BY <1>1, <1>2, <1>4, PTL DEF Spec

(* COMPACT leaves only records their key's metadata refers to, but for keys  *)
(* at work, and none at all when every key is gone.                          *)
THEOREM CompactionReclaims == Serialised /\ NoClockBack => (Spec => CompactReclaims)
<1> SUFFICES ASSUME Serialised, NoClockBack PROVE Spec => CompactReclaims
  OBVIOUS
<1> DEFINE Reclaims ==
      compact =>
          /\ \A r \in subs' : Quiet(r.key) => Owned(r)
          /\ \A r \in index' : Quiet(r.key) => Owned(r)
          /\ dbsize = 0 /\ (\A k \in Keys : Quiet(k)) => raw_subkey_count' = 0
<1>1. Init => MapInv
  BY InitMap
<1>2. MapInv /\ [Next]_vars => MapInv'
  BY NextMap
<1>3. MapInv /\ [Next]_vars => [Reclaims]_vars
  <2> SUFFICES ASSUME MapInv, compact PROVE Reclaims
    OBVIOUS
  <2>1. boot = "serving" /\ subs' \subseteq subs /\ index' \subseteq index
        /\ \A r \in subs' \cup index' : should_keep(r)
    BY DEF compact
  <2>2. ASSUME NEW r \in subs' \cup index', Quiet(r.key) PROVE Owned(r)
    <3>1. r.key \in Keys
      BY <2>1 DEF MapInv, GcInv, TypeInv, TypeOK, DiskTypeOK, SubRecs, IdxRecs
    <3>2. versions[r.key] = CurrentVersion(r.key)
      BY <2>1, <2>2, <3>1 DEF MapInv, VersionMapExact
    <3>3. versions[r.key] # 0 /\ versions[r.key] = r.ver
      BY <2>1, <2>2 DEF should_keep
    <3> QED
      BY <3>2, <3>3 DEF CurrentVersion, Owned
  <2>3. ASSUME dbsize = 0, \A k \in Keys : Quiet(k) PROVE raw_subkey_count' = 0
    <3> DEFINE present == {k \in Keys : metas[k] # NoMeta}
    <3>1. IsFiniteSet(present)
      BY KeysAssumption, FS_Subset
    <3>2. present = {}
      BY <2>3, <3>1, FS_EmptySet DEF dbsize
    <3>3. \A r \in subs' \cup index' : r.key \in Keys /\ Owned(r)
      BY <2>1, <2>2, <2>3 DEF MapInv, GcInv, TypeInv, TypeOK, DiskTypeOK, SubRecs, IdxRecs
    <3>4. subs' = {} /\ index' = {}
      BY <3>2, <3>3 DEF Owned
    <3> QED
      BY <3>4, FS_EmptySet DEF raw_subkey_count
  <2> QED
    BY <2>2, <2>3
<1> QED
  BY <1>1, <1>2, <1>3, PTL DEF Spec, CompactReclaims
=============================================================================
