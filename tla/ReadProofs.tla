----------------------------- MODULE ReadProofs -----------------------------
(***************************************************************************)
(* What metadata says of a structure is what is on disk: between commands  *)
(* counts, list bounds, member records and score index agree.  So the reads*)
(* of every type agree with each other: counts, members, elements, ranks   *)
(* and score ranges; and a key disappears only when it should.             *)
(***************************************************************************)
EXTENDS MapProofs

\* A process that may stop anywhere runs no command that writes twice.
CleanStops ==
    "crash" \in Faults => \A op \in Removers \cup {"set"} : Args[op] = {}

-----------------------------------------------------------------------------
(* A batch changes the records of its own key only, to what SubsAfter and    *)
(* IndexAfter say.                                                           *)
LEMMA WriteScans ==
    ASSUME NEW k, NEW b, write(k, b),
           \A r \in b.puts \cup b.iputs \cup b.dels \cup b.idels : r.key = k
    PROVE  \A x, v : x # k =>
              scan(x, v)' = scan(x, v) /\ scan_index(x, v)' = scan_index(x, v)
  BY DEF write, scan, scan_index, SameSub

LEMMA WriteOwn ==
    ASSUME NEW k, NEW v, NEW b, write(k, b),
           \A r \in b.puts \cup b.iputs : r.key = k /\ r.ver = v
    PROVE  /\ scan(k, v)' = SubsAfter(scan(k, v), b)
           /\ scan_index(k, v)' = IndexAfter(scan_index(k, v), b)
  BY DEF write, scan, scan_index, SubsAfter, IndexAfter

(* What is known of a thread at work, for any of its steps.                  *)
LEMMA AtContent ==
    ASSUME ContentInv, NEW t \in Threads, Running(t), cmd[t].op # "flush"
    PROVE  /\ MapInv /\ ThreadsTypeOK /\ DiskTypeOK /\ MapTypeOK /\ Control(t)
           /\ Claim(t) /\ Anchored(t) /\ Knows(t) /\ Key(t) \in Keys /\ Whole(Key(t))
  BY AtWork DEF ContentInv

(* A step of one thread that touches metadata and records of its own key     *)
(* only.                                                                     *)
LEMMA OwnContent ==
    ASSUME ContentInv, MapInv', NEW t \in Threads, Running(t),
           cmd[t].op # "flush", NEW k \in Keys, k = Key(t),
           \A u \in Threads \ {t} :
              pc'[u] = pc[u] /\ cmd'[u] = cmd[u] /\ mem'[u] = mem[u] /\ wb'[u] = wb[u],
           \A x \in Keys \ {k} : metas'[x] = metas[x],
           \A x, v : x # k => scan(x, v)' = scan(x, v) /\ scan_index(x, v)' = scan_index(x, v),
           UNCHANGED now, Whole(k)', Knows(t)'
    PROVE  ContentInv'
<1>0. TypeInv /\ Booting /\ Exclusive
  BY DEF ContentInv, MapInv, SerialInv
<1>1. ASSUME NEW x \in Keys \ {k} PROVE Whole(x)'
  <2>1. Overwriting(x) => Overwriting(x)'
    BY DEF Overwriting, Key
  <2>2. Emptied(x) => Emptied(x)'
    BY DEF Emptied, Key
  <2>3. Whole(x) /\ metas'[x] = metas[x]
    BY DEF ContentInv
  <2>4. \A v : scan(x, v)' = scan(x, v) /\ scan_index(x, v)' = scan_index(x, v)
    OBVIOUS
  <2> QED
    BY <2>1, <2>2, <2>3, <2>4 DEF Whole
<1>2. ASSUME NEW u \in Threads \ {t} PROVE Knows(u)'
  <2>1. CASE Running(u)
    <3>1. Key(u) # k /\ Key(u) \in Keys /\ Knows(u)
      BY <1>0, <2>1, RunningKey DEF ContentInv, Exclusive
    <3>2. PICK x \in Keys : x = Key(u) /\ x # k
      BY <3>1
    <3>3. /\ Key(u)' = x /\ metas'[x] = metas[x]
          /\ pc'[u] = pc[u] /\ cmd'[u] = cmd[u] /\ mem'[u] = mem[u] /\ wb'[u] = wb[u]
      BY <3>2 DEF Key
    <3>4. \A v : scan(x, v)' = scan(x, v) /\ scan_index(x, v)' = scan_index(x, v)
      BY <3>2
    <3> QED
      BY <3>1, <3>2, <3>3, <3>4 DEF Knows, Expired
  <2>2. CASE ~Running(u)
    BY <2>2 DEF Knows, Running
  <2> QED
    BY <2>1, <2>2
<1> QED
  BY <1>1, <1>2 DEF ContentInv

(* The records of a structure that is neither being replaced nor emptied.    *)
LEMMA WholeOfOwn ==
    ASSUME ContentInv, NEW t \in Threads, Running(t), cmd[t].op # "flush",
           NEW k \in Keys, k = Key(t),
           ~(cmd[t].op = "set" /\ pc[t] \in {"alloc", "put"}),
           ~(cmd[t].op \in Removers /\ pc[t] = "delete")
    PROVE  \/ metas[k] = NoMeta
           \/ Full(scan(k, metas[k].ver), scan_index(k, metas[k].ver), metas[k])
<1>1. Exclusive /\ Whole(k) /\ \A u \in Threads : Control(u)
  BY DEF ContentInv, MapInv, SerialInv, TypeInv, ControlOK
<1>2. \A u \in Threads : Key(u) = k => u = t
  BY <1>1, BaseAssumption DEF Exclusive, Control, Running, Key
<1> QED
  BY <1>1, <1>2 DEF Whole, Overwriting, Emptied

LEMMA SameRecords ==
    ASSUME UNCHANGED <<subs, index>>
    PROVE  \A x, v : scan(x, v)' = scan(x, v) /\ scan_index(x, v)' = scan_index(x, v)
  BY DEF scan, scan_index

(* The frame of a command that ends.                                         *)
LEMMA FinishContent ==
    ASSUME ContentInv, MapInv', NEW t \in Threads, Running(t), cmd[t].op # "flush",
           NEW k \in Keys, k = Key(t), Finish(t), UNCHANGED now,
           \A x \in Keys \ {k} : metas'[x] = metas[x],
           \A x, v : x # k => scan(x, v)' = scan(x, v) /\ scan_index(x, v)' = scan_index(x, v),
           Whole(k)'
    PROVE  ContentInv'
<1>1. ThreadsTypeOK
  BY AtContent
<1>2. /\ \A u \in Threads \ {t} :
            pc'[u] = pc[u] /\ cmd'[u] = cmd[u] /\ mem'[u] = mem[u] /\ wb'[u] = wb[u]
      /\ pc'[t] = "idle"
  BY <1>1 DEF Finish, ThreadsTypeOK
<1>3. Knows(t)'
  BY <1>2 DEF Knows
<1> QED
  BY <1>2, <1>3, OwnContent

-----------------------------------------------------------------------------
(* load_live_meta and load_typed read metadata that says what is on disk.    *)
LEMMA LoadContent ==
    ASSUME ContentInv, MapInv', NEW t \in Threads,
           LoadMissing(t) \/ LoadExpired(t) \/ LoadFound(t)
    PROVE  ContentInv'
<1>0. /\ pc[t] \in {"peek", "load"} /\ Running(t)
      /\ UNCHANGED <<metas, subs, index, now>>
  BY DEF LoadMissing, LoadExpired, LoadFound, disk, Running
<1>1. Control(t)
  BY DEF ContentInv, MapInv, GcInv, TypeInv, ControlOK
<1>2. cmd[t].op \notin {"flush", "set"}
  BY <1>0, <1>1 DEF Control, Creators, Removers
<1>3. ThreadsTypeOK /\ DiskTypeOK /\ Key(t) \in Keys
  BY <1>0, <1>2, AtContent
<1>4. PICK k \in Keys : k = Key(t)
  BY <1>3
<1>5. \/ metas[k] = NoMeta
      \/ Full(scan(k, metas[k].ver), scan_index(k, metas[k].ver), metas[k])
  BY <1>0, <1>2, <1>4, WholeOfOwn
<1>6. \A x, v : scan(x, v)' = scan(x, v) /\ scan_index(x, v)' = scan_index(x, v)
  BY <1>0, SameRecords
<1>7. Whole(k)'
  BY <1>0, <1>5, <1>6 DEF Whole
<1>8. CASE Finish(t)
  BY <1>0, <1>2, <1>4, <1>6, <1>7, <1>8, FinishContent
<1>9. CASE ~Finish(t)
  <2>1. /\ \A u \in Threads \ {t} :
              pc'[u] = pc[u] /\ cmd'[u] = cmd[u] /\ mem'[u] = mem[u] /\ wb'[u] = wb[u]
        /\ cmd'[t] = cmd[t] /\ Key(t)' = k
    BY <1>3, <1>4, <1>9
    DEF LoadMissing, LoadExpired, LoadFound, Continue, Goto, ThreadsTypeOK, Key
  <2>2. Knows(t)'
    <3>1. CASE LoadMissing(t)
      <4>1. pc'[t] = "alloc"
        BY <1>3, <1>9, <3>1 DEF LoadMissing, Continue, MissingPc, Goto, ThreadsTypeOK
      <4> QED
        BY <4>1 DEF Knows
    <3>2. CASE LoadExpired(t)
      <4>1. pc'[t] = "expire" /\ Expired(metas[k]) /\ metas'[k] = metas[k] /\ now' = now
        BY <1>0, <1>3, <1>4, <3>2 DEF LoadExpired, Goto, ThreadsTypeOK
      <4> QED
        BY <2>1, <4>1 DEF Knows, Expired
    <3>3. CASE LoadFound(t)
      <4> DEFINE m == metas[k]
                 next == FoundPc(t, m)
      <4>1. /\ m # NoMeta /\ next # "idle" /\ pc'[t] = next
            /\ mem'[t] = IF cmd[t].op = "expire" THEN [m EXCEPT !.exp = cmd[t].exp]
                         ELSE IF next = "exec" THEN m ELSE NoMeta
        BY <1>3, <1>4, <1>9, <3>3 DEF LoadFound, Goto, ThreadsTypeOK
      <4>2. m \in Metas
        BY <1>3, <4>1 DEF DiskTypeOK
      <4>3. /\ next \in {"delete", "put", "load", "exec"}
            /\ next = "delete" => cmd[t].op = "del"
            /\ (next = "put") <=> (cmd[t].op = "expire")
        <5>0. next # "idle"
          BY <4>1
        <5>1. CASE cmd[t].op = "read"
          BY <5>0, <5>1 DEF FoundPc
        <5>2. CASE cmd[t].op = "del"
          <6>1. next = "delete"
            BY <5>2 DEF FoundPc
          <6> QED
            BY <5>2, <6>1
        <5>3. CASE cmd[t].op = "expire"
          <6>1. next = "put"
            BY <5>3 DEF FoundPc
          <6> QED
            BY <5>3, <6>1
        <5>4. CASE cmd[t].op \notin {"read", "del", "expire"}
          <6>1. next \in {"load", "exec"}
            BY <5>0, <5>4 DEF FoundPc
          <6> HIDE DEF next
          <6> QED
            BY <5>4, <6>1
        <5> QED
          BY <5>1, <5>2, <5>3, <5>4
      <4>4. CASE next = "delete"
        BY <2>1, <4>1, <4>3, <4>4 DEF Knows, Removers
      <4>5. CASE next = "put"
        <5>1. mem'[t].cnt = m.cnt /\ mem'[t].head = m.head /\ mem'[t].tail = m.tail
          BY <4>1, <4>2, <4>3, <4>5 DEF Metas
        <5> QED
          BY <1>0, <2>1, <4>1, <4>5, <5>1 DEF Knows
      <4>6. CASE next = "load"
        BY <4>1, <4>6 DEF Knows
      <4>7. CASE next = "exec"
        <5>1. mem'[t] = m
          BY <4>1, <4>3, <4>7
        <5>2. Counted(m.type) => Fits(scan(k, m.ver), scan_index(k, m.ver), m)
          BY <1>5, <4>1 DEF Full
        <5>3. Counted(m.type) => Fits(scan(k, m.ver)', scan_index(k, m.ver)', m)
          BY <1>0, <1>6, <5>2
        <5> HIDE DEF m, next
        <5> QED
          BY <1>6, <2>1, <4>1, <4>7, <5>1, <5>2 DEF Knows
      <4> QED
        BY <4>3, <4>4, <4>5, <4>6, <4>7
    <3> QED
      BY <3>1, <3>2, <3>3
  <2> QED
    BY <1>0, <1>2, <1>4, <1>6, <1>7, <2>1, <2>2, OwnContent
<1> QED
  BY <1>8, <1>9

(* logical_delete leaves no metadata.                                        *)
LEMMA DeleteContent ==
    ASSUME ContentInv, MapInv', NEW t \in Threads, DeleteMeta(t) \/ ForgetVersion(t)
    PROVE  ContentInv'
<1>0. /\ pc[t] \in {"expire", "delete", "expired", "forget"} /\ Running(t) /\ UNCHANGED now
  BY DEF DeleteMeta, ForgetVersion, Running
<1>1. Control(t)
  BY DEF ContentInv, MapInv, GcInv, TypeInv, ControlOK
<1>2. cmd[t].op \notin {"flush", "set"}
  BY <1>0, <1>1 DEF Control, Creators, Removers
<1>3. Anchored(t) /\ ThreadsTypeOK /\ DiskTypeOK /\ Key(t) \in Keys
  BY <1>0, <1>2, AtContent
<1>4. PICK k \in Keys : k = Key(t)
  BY <1>3
<1>5. /\ \A x \in Keys \ {k} : metas'[x] = metas[x]
      /\ metas'[k] = NoMeta /\ UNCHANGED <<subs, index>>
  <2>1. CASE DeleteMeta(t)
    <3> DEFINE b == [NoBatch EXCEPT !.mdel = {k}]
    <3>1. /\ b.mdel = {k} /\ b.mput = NoMeta /\ b.puts = {} /\ b.dels = {}
          /\ b.iputs = {} /\ b.idels = {} /\ write(k, b)
      BY <1>4, <2>1 DEF DeleteMeta, NoBatch
    <3> HIDE DEF b
    <3> QED
      BY <3>1 DEF write
  <2>2. CASE ForgetVersion(t)
    BY <1>3, <1>4, <2>2 DEF ForgetVersion, Anchored, disk
  <2> QED
    BY <2>1, <2>2
<1>6. \A x, v : scan(x, v)' = scan(x, v) /\ scan_index(x, v)' = scan_index(x, v)
  BY <1>5, SameRecords
<1>7. Whole(k)'
  BY <1>5 DEF Whole
<1>8. CASE Finish(t)
  BY <1>0, <1>2, <1>4, <1>5, <1>6, <1>7, <1>8, FinishContent
<1>9. CASE ~Finish(t)
  <2>1. /\ \A u \in Threads \ {t} :
              pc'[u] = pc[u] /\ cmd'[u] = cmd[u] /\ mem'[u] = mem[u] /\ wb'[u] = wb[u]
        /\ pc'[t] \in {"expired", "forget", "alloc"}
    BY <1>3, <1>9 DEF DeleteMeta, ForgetVersion, Continue, MissingPc, Goto, ThreadsTypeOK
  <2>2. Knows(t)'
    BY <2>1 DEF Knows
  <2> QED
    BY <1>0, <1>2, <1>4, <1>5, <1>6, <1>7, <2>1, <2>2, OwnContent
<1> QED
  BY <1>8, <1>9

(* SET is about to replace the metadata; a creating command starts from an   *)
(* empty structure.                                                          *)
LEMMA CreateContent ==
    ASSUME ContentInv, MapInv', NEW t \in Threads, Overwrite(t) \/ Alloc(t) \/ Register(t)
    PROVE  ContentInv'
<1>0. /\ pc[t] \in {"overwrite", "alloc", "register"} /\ Running(t)
      /\ UNCHANGED <<metas, subs, index, now, cmd, wb>>
  BY DEF Overwrite, Alloc, Drawn, Register, disk, Running
<1>1. Control(t)
  BY DEF ContentInv, MapInv, GcInv, TypeInv, ControlOK
<1>2. cmd[t].op # "flush"
  BY <1>0, <1>1 DEF Control, Creators, Removers
<1>3. Anchored(t) /\ Knows(t) /\ ThreadsTypeOK /\ Key(t) \in Keys
  BY <1>0, <1>2, AtContent
<1>4. PICK k \in Keys : k = Key(t)
  BY <1>3
<1>5. /\ \A u \in Threads \ {t} :
            pc'[u] = pc[u] /\ cmd'[u] = cmd[u] /\ mem'[u] = mem[u] /\ wb'[u] = wb[u]
      /\ cmd'[t] = cmd[t] /\ Key(t)' = k
  BY <1>0, <1>3, <1>4 DEF Overwrite, Alloc, Drawn, Register, Goto, ThreadsTypeOK, Key
<1>6. \A x, v : scan(x, v)' = scan(x, v) /\ scan_index(x, v)' = scan_index(x, v)
  BY <1>0, SameRecords
<1>7. Whole(k)' /\ Knows(t)'
  <2>1. CASE cmd[t].op = "set"
    <3>1. pc'[t] \in {"alloc", "put"}
      BY <1>1, <1>3, <2>1 DEF Overwrite, Alloc, Drawn, Register, Goto, ThreadsTypeOK, Control, Creators
    <3>2. Overwriting(k)'
      BY <1>5, <2>1, <3>1 DEF Overwriting
    <3> QED
      BY <1>5, <2>1, <3>1, <3>2 DEF Whole, Knows
  <2>2. CASE cmd[t].op # "set" /\ pc[t] = "alloc"
    <3>1. metas[k] = NoMeta
      BY <1>3, <1>4, <2>2 DEF Anchored
    <3>2. pc'[t] = "register" /\ mem'[t] = Meta(type_for(cmd[t].op), next_version, 0, NoVal)
      BY <1>3, <2>2 DEF Overwrite, Alloc, Drawn, Register, Goto, ThreadsTypeOK
    <3>3. mem'[t].cnt = 0 /\ mem'[t].head = 0 /\ mem'[t].tail = 0
      BY <3>2 DEF Meta
    <3> QED
      BY <1>0, <3>1, <3>2, <3>3 DEF Whole, Knows
  <2>3. CASE cmd[t].op # "set" /\ pc[t] = "register"
    <3>1. metas[k] = NoMeta /\ mem[t].cnt = 0 /\ mem[t].head = 0 /\ mem[t].tail = 0
      BY <1>3, <1>4, <2>3 DEF Anchored, Knows
    <3>2. pc'[t] = "exec" /\ mem'[t] = mem[t]
      BY <1>3, <2>3 DEF Overwrite, Alloc, Drawn, Register, Goto, ThreadsTypeOK
    <3>3. Anchored(t)'
      BY DEF MapInv, SerialInv
    <3>4. metas'[k] = NoMeta /\ NoRecords(k, mem[t].ver)
      BY <1>0, <1>5, <3>1, <3>2, <3>3 DEF Anchored, Anchor, Holding, NoRecords
    <3>5. scan(k, mem[t].ver) = {} /\ scan_index(k, mem[t].ver) = {}
      BY <3>4 DEF NoRecords, scan, scan_index
    <3>6. Fits({}, {}, mem[t])
      <4>1. {r.field : r \in {}} = {} /\ {Idx(r.key, r.ver, r.val, r.field) : r \in {}} = {}
        OBVIOUS
      <4>2. IsFiniteSet({}) /\ Cardinality({}) = 0 /\ 0 .. 0 - 1 = {}
        BY FS_EmptySet
      <4> QED
        BY <3>1, <4>1, <4>2 DEF Fits
    <3> QED
      BY <1>5, <1>6, <3>2, <3>4, <3>5, <3>6 DEF Whole, Knows
  <2> QED
    BY <1>0, <1>1, <2>1, <2>2, <2>3 DEF Control
<1> QED
  BY <1>0, <1>2, <1>4, <1>5, <1>6, <1>7, OwnContent

(* The body of a composite command builds a batch that keeps the structure.  *)
LEMMA ExecContent ==
    ASSUME ContentInv, MapInv', NEW t \in Threads, Exec(t)
    PROVE  ContentInv'
<1>0. pc[t] = "exec" /\ Running(t) /\ UNCHANGED <<metas, subs, index, now>>
  BY DEF Exec, disk, Running
<1>1. Control(t)
  BY DEF ContentInv, MapInv, GcInv, TypeInv, ControlOK
<1>2. cmd[t].op \notin {"flush", "set"}
  BY <1>0, <1>1 DEF Control, Creators, Removers
<1>3. /\ Anchored(t) /\ Knows(t) /\ ThreadsTypeOK /\ DiskTypeOK /\ Key(t) \in Keys
  BY <1>0, <1>2, AtContent
<1>4. PICK k \in Keys : k = Key(t)
  BY <1>3
<1> DEFINE op == cmd[t].op
           m == mem[t]
           plan == Plan(op, k, m, cmd[t].args)
<1>5. op \in Creators \cup Removers /\ m \in Metas /\ cmd[t].args \in Args[op] /\ m.type = type_for(op)
  BY <1>0, <1>1, <1>3 DEF Control, ThreadsTypeOK, Ops
<1>6. \A x, v : scan(x, v)' = scan(x, v) /\ scan_index(x, v)' = scan_index(x, v)
  BY <1>0, SameRecords
<1>7. Whole(k)'
  <2>1. \/ metas[k] = NoMeta
        \/ Full(scan(k, metas[k].ver), scan_index(k, metas[k].ver), metas[k])
    BY <1>0, <1>2, <1>4, WholeOfOwn
  <2> QED
    BY <1>0, <1>6, <2>1 DEF Whole
<1>8. CASE plan.to = "idle"
  <2>1. Finish(t)
    BY <1>4, <1>8 DEF Exec
  <2> QED
    BY <1>0, <1>2, <1>4, <1>6, <1>7, <2>1, FinishContent
<1>9. CASE plan.to # "idle"
  <2>1. Goto(t, plan.to) /\ UNCHANGED cmd /\ mem' = [mem EXCEPT ![t] = NoMeta]
        /\ wb' = [wb EXCEPT ![t] = plan.batch]
    BY <1>4, <1>9 DEF Exec
  <2> DEFINE b == plan.batch
  <2>2. /\ plan.to \in {"commit", "empty"}
        /\ \A r \in b.puts \cup b.iputs : r.key = k /\ r.ver = m.ver
        /\ plan.to = "commit" => b.mput \in Metas /\ b.mput.ver = m.ver /\ b.mput.type = m.type
        /\ plan.to = "empty" => op \in Removers
    <3>1. GoodPlan(plan, k, m, op)
      BY <1>3, <1>5, PlanGood DEF DiskTypeOK
    <3> HIDE DEF plan
    <3> QED
      BY <1>9, <3>1 DEF GoodPlan, OwnRecords
  <2>3. /\ \A r \in b.dels \cup b.idels : r.key = k
        /\ plan.to = "empty" => b.puts = {} /\ b.iputs = {}
    <3> HIDE DEF op, m
    <3> QED
      BY <1>5, PlanOwns
  <2>4. Counted(m.type) => BodyKeeps(plan, k, m)
    <3> SUFFICES ASSUME Counted(m.type) PROVE BodyKeeps(plan, k, m)
      OBVIOUS
    <3>1. Describes(k, m)
      BY <1>0, <1>3, <1>4, <1>5 DEF Knows, Describes, DiskTypeOK
    <3> HIDE DEF op, m
    <3> QED
      BY <1>5, <3>1, PlanKeeps
  <2>5. plan.to = "empty" => Holding(k, m)
    BY <1>0, <1>3, <1>4, <2>2 DEF Anchored
  <2> HIDE DEF plan
  <2>6. /\ \A u \in Threads \ {t} :
              pc'[u] = pc[u] /\ cmd'[u] = cmd[u] /\ mem'[u] = mem[u] /\ wb'[u] = wb[u]
        /\ cmd'[t] = cmd[t] /\ Key(t)' = k /\ pc'[t] = plan.to /\ wb'[t] = b
    BY <1>3, <1>4, <2>1 DEF Goto, ThreadsTypeOK, Key
  <2>7. Knows(t)'
    <3>1. CASE plan.to = "commit"
      <4>1. OwnBatch(k, b)
        BY <2>2, <2>3, <3>1 DEF OwnBatch
      <4>2. Full(SubsAfter(scan(k, m.ver), b), IndexAfter(scan_index(k, m.ver), b), b.mput)
        BY <2>2, <2>4, <3>1 DEF Full, BodyKeeps
      <4>3. pc'[t] = "commit" /\ wb'[t] = b /\ b.mput.ver = m.ver
        BY <2>2, <2>6, <3>1
      <4> HIDE DEF b, m, op
      <4> QED
        BY <1>6, <2>6, <4>1, <4>2, <4>3 DEF Knows
    <3>2. CASE plan.to = "empty"
      <4>1. metas'[k] # NoMeta /\ metas'[k].ver = m.ver
        BY <1>0, <2>5, <3>2 DEF Holding
      <4>2. Counted(type_for(op)) => SubsAfter(scan(k, m.ver), b) = {}
        BY <1>5, <2>4, <3>2 DEF BodyKeeps
      <4>3. pc'[t] = "empty" /\ wb'[t] = b /\ cmd'[t].op = op
        BY <2>6, <3>2
      <4>4. OwnBatch(k, b) /\ b.puts = {} /\ b.iputs = {}
        BY <2>2, <2>3, <3>2 DEF OwnBatch
      <4> HIDE DEF b, m, op
      <4> QED
        BY <1>6, <2>6, <4>1, <4>2, <4>3, <4>4 DEF Knows
    <3> QED
      BY <2>2, <3>1, <3>2
  <2> QED
    BY <1>0, <1>2, <1>4, <1>6, <1>7, <2>6, <2>7, OwnContent
<1> QED
  BY <1>8, <1>9

(* put_meta and the batch of a composite command.                            *)
LEMMA CommitContent ==
    ASSUME ContentInv, MapInv', NEW t \in Threads, PutMeta(t) \/ Commit(t)
    PROVE  ContentInv'
<1>0. /\ pc[t] \in {"put", "commit", "empty"} /\ Running(t) /\ UNCHANGED now
  BY DEF PutMeta, Commit, Running
<1>1. Control(t)
  BY DEF ContentInv, MapInv, GcInv, TypeInv, ControlOK
<1>2. cmd[t].op # "flush"
  BY <1>0, <1>1 DEF Control, Creators, Removers
<1>3. /\ Anchored(t) /\ Knows(t) /\ ThreadsTypeOK /\ Key(t) \in Keys
  BY <1>0, <1>2, AtContent
<1>4. PICK k \in Keys : k = Key(t)
  BY <1>3
<1>5. CASE PutMeta(t)
  <2> DEFINE b == [NoBatch EXCEPT !.mput = mem[t]]
  <2>1. /\ b.mdel = {} /\ b.mput = mem[t] /\ write(k, b) /\ pc[t] = "put"
        /\ b.puts = {} /\ b.dels = {} /\ b.iputs = {} /\ b.idels = {}
    BY <1>4, <1>5 DEF PutMeta, NoBatch
  <2> HIDE DEF b
  <2>2. mem[t] \in Metas /\ mem[t] # NoMeta
    BY <1>1, <2>1, NoMetaAssumption DEF Control
  <2>3. metas'[k] = mem[t] /\ \A x \in Keys \ {k} : metas'[x] = metas[x]
    BY <2>1, <2>2, WriteMeta
  <2>4. \A x, v : scan(x, v)' = scan(x, v) /\ scan_index(x, v)' = scan_index(x, v)
    BY <2>1 DEF write, scan, scan_index
  <2>5. Full(scan(k, mem[t].ver), scan_index(k, mem[t].ver), mem[t])
    <3>1. CASE cmd[t].op = "set"
      BY <1>1, <2>1, <3>1 DEF Control, Full, Counted, Composite
    <3>2. CASE cmd[t].op = "expire"
      <4>1. /\ metas[k] # NoMeta /\ metas[k].ver = mem[t].ver /\ metas[k].type = mem[t].type
            /\ mem[t].cnt = metas[k].cnt
            /\ mem[t].head = metas[k].head /\ mem[t].tail = metas[k].tail
        BY <1>3, <1>4, <2>1, <3>2 DEF Anchored, Holding, Knows
      <4>2. Full(scan(k, metas[k].ver), scan_index(k, metas[k].ver), metas[k])
        BY <1>0, <1>2, <1>4, <2>1, <3>2, <4>1, WholeOfOwn DEF Removers
      <4> DEFINE S == scan(k, mem[t].ver)
                 I == scan_index(k, mem[t].ver)
      <4>3. Full(S, I, metas[k])
        BY <4>1, <4>2
      <4> HIDE DEF S, I
      <4>4. Full(S, I, mem[t])
        BY <4>1, <4>3 DEF Full, Fits
      <4> QED
        BY <4>4 DEF S, I
    <3> QED
      BY <1>1, <2>1, <3>1, <3>2 DEF Control
  <2>6. Whole(k)'
    BY <2>3, <2>4, <2>5 DEF Whole
  <2> QED
    BY <1>0, <1>2, <1>4, <1>5, <2>3, <2>4, <2>6, FinishContent DEF PutMeta
<1>6. CASE Commit(t)
  <2>0. PICK b : b = wb[t]
    OBVIOUS
  <2>1. /\ b.mdel = {} /\ write(k, b)
        /\ \A r \in b.puts \cup b.iputs \cup b.dels \cup b.idels : r.key = k
        /\ \A r \in b.puts \cup b.iputs : r.ver = b.mput.ver
    BY <1>0, <1>1, <1>3, <1>4, <1>6, <2>0 DEF Commit, Control, Knows, OwnBatch
  <2>2. /\ metas'[k] = IF b.mput # NoMeta THEN b.mput ELSE metas[k]
        /\ \A x \in Keys \ {k} : metas'[x] = metas[x]
    BY <2>1, WriteMeta
  <2>3. \A x, v : x # k =>
           scan(x, v)' = scan(x, v) /\ scan_index(x, v)' = scan_index(x, v)
    BY <2>1, WriteScans
  <2>4. CASE pc[t] = "commit"
    <3>1. b.mput \in Metas /\ b.mput # NoMeta
      BY <1>1, <2>0, <2>4, NoMetaAssumption DEF Control
    <3>2. PICK v : v = b.mput.ver
      OBVIOUS
    <3>3. Full(SubsAfter(scan(k, v), b), IndexAfter(scan_index(k, v), b), b.mput)
      BY <1>3, <1>4, <2>0, <2>4, <3>2 DEF Knows
    <3>4. /\ scan(k, v)' = SubsAfter(scan(k, v), b)
          /\ scan_index(k, v)' = IndexAfter(scan_index(k, v), b)
      BY <2>1, <3>2, WriteOwn
    <3>5. Full(scan(k, v)', scan_index(k, v)', b.mput)
      BY <3>3, <3>4
    <3>6. metas'[k] = b.mput /\ metas'[k].ver = v
      BY <2>2, <3>1, <3>2
    <3>7. Whole(k)'
      BY <3>5, <3>6 DEF Whole
    <3>8. Finish(t)
      BY <1>6, <2>4 DEF Commit
    <3> QED
      BY <1>0, <1>2, <1>4, <2>2, <2>3, <3>7, <3>8, FinishContent
  <2>5. CASE pc[t] = "empty"
    <3>1. /\ b.mput = NoMeta /\ b.puts = {} /\ b.iputs = {} /\ cmd[t].op \in Removers
          /\ Counted(type_for(cmd[t].op)) => SubsAfter(scan(k, metas[k].ver), b) = {}
      BY <1>1, <1>3, <1>4, <2>0, <2>5 DEF Control, Knows
    <3>2. /\ \A u \in Threads \ {t} :
                pc'[u] = pc[u] /\ cmd'[u] = cmd[u] /\ mem'[u] = mem[u] /\ wb'[u] = wb[u]
          /\ cmd'[t] = cmd[t] /\ pc'[t] = "delete" /\ Key(t)' = k
      BY <1>3, <1>4, <1>6, <2>5 DEF Commit, Goto, ThreadsTypeOK, Key
    <3>3. PICK v : v = metas[k].ver
      OBVIOUS
    <3>4. scan(k, v)' = SubsAfter(scan(k, v), b)
      BY <2>1, <3>1, WriteOwn
    <3>5. metas'[k] = metas[k]
      BY <2>2, <3>1
    <3>6. Knows(t)'
      BY <3>1, <3>2, <3>3, <3>4, <3>5 DEF Knows
    <3>7. Whole(k)'
      BY <3>1, <3>2 DEF Whole, Emptied
    <3> QED
      BY <1>0, <1>2, <1>4, <2>2, <2>3, <3>2, <3>6, <3>7, OwnContent
  <2> QED
    BY <1>6, <2>4, <2>5 DEF Commit
<1> QED
  BY <1>5, <1>6

(* flush_all has the store to itself and leaves no metadata.                 *)
LEMMA FlushContent ==
    ASSUME ContentInv, MapInv', NEW t \in Threads,
           FlushMeta(t) \/ FlushSub(t) \/ FlushIdx(t) \/ FlushWrite(t) \/ FlushClear(t)
    PROVE  ContentInv'
<1>0. /\ ThreadsTypeOK /\ Control(t) /\ Claim(t) /\ pc[t] \in FlushPcs /\ Running(t)
  BY DEF ContentInv, MapInv, GcInv, TypeInv, TypeOK, ControlOK, FlushPcs, Running,
     FlushMeta, FlushSub, FlushIdx, FlushWrite, FlushClear
<1>1. cmd[t].op = "flush"
  BY <1>0 DEF Control
<1>2. /\ \A u \in Threads \ {t} : pc'[u] = pc[u]
      /\ pc'[t] \in FlushPcs \cup {"idle"}
  BY <1>0 DEF FlushMeta, FlushSub, FlushIdx, FlushWrite, FlushClear, Goto, Finish,
     ThreadsTypeOK, FlushPcs
<1>3. \A u \in Threads \ {t} : pc[u] = "idle"
  BY <1>0, <1>1 DEF ContentInv, MapInv, SerialInv, Exclusive, Running
<1>4. \A u \in Threads : Knows(u)'
  BY <1>2, <1>3 DEF Knows, FlushPcs
<1>5. CASE FlushMeta(t) \/ FlushSub(t) \/ FlushIdx(t)
  <2>1. UNCHANGED <<metas, subs, index>>
    BY <1>5 DEF FlushMeta, FlushSub, FlushIdx, disk
  <2>2. \A x, v : scan(x, v)' = scan(x, v) /\ scan_index(x, v)' = scan_index(x, v)
    BY <2>1, SameRecords
  <2>3. ASSUME NEW x \in Keys PROVE Whole(x)'
    <3>1. ~Overwriting(x) /\ ~Emptied(x)
      BY <1>0, <1>3 DEF Overwriting, Emptied, FlushPcs
    <3> QED
      BY <2>1, <2>2, <3>1 DEF ContentInv, Whole
  <2> QED
    BY <1>4, <2>3 DEF ContentInv
<1>6. CASE FlushWrite(t) \/ FlushClear(t)
  <2>1. \A x \in Keys : metas'[x] = NoMeta
    BY <1>0, <1>6, BaseAssumption DEF FlushWrite, FlushClear, write, disk, Claim
  <2> QED
    BY <1>4, <2>1 DEF ContentInv, Whole
<1> QED
  BY <1>5, <1>6

-----------------------------------------------------------------------------
(* A command starts on a key whose records are whole.                        *)
LEMMA StartContent ==
    ASSUME ContentInv, MapInv', NEW t \in Threads, Start(t)
    PROVE  ContentInv'
<1>1. PICK op \in Ops, k \in Keys \cup {NoKey} : \E a \in Args[op] : Begin(t, op, k, a)
  BY DEF Start
<1>2. PICK a \in Args[op] : Begin(t, op, k, a)
  BY <1>1
<1>3. ThreadsTypeOK /\ Control(t)
  BY DEF ContentInv, MapInv, GcInv, TypeInv, TypeOK, ControlOK
<1>4. /\ pc[t] = "idle" /\ UNCHANGED <<metas, subs, index, now, mem, wb>>
      /\ pc'[t] = FirstPc(op)
      /\ \A u \in Threads \ {t} : pc'[u] = pc[u] /\ cmd'[u] = cmd[u]
  BY <1>2, <1>3 DEF Begin, Running, Goto, ThreadsTypeOK, disk
<1>5. \A x, v : scan(x, v)' = scan(x, v) /\ scan_index(x, v)' = scan_index(x, v)
  BY <1>4, SameRecords
<1>6. pc'[t] \in {"overwrite", "flushMeta", "peek", "load"}
  BY <1>4 DEF FirstPc
<1>7. ASSUME NEW x \in Keys PROVE Whole(x)'
  <2>1. Overwriting(x) => Overwriting(x)'
    <3> SUFFICES ASSUME NEW u \in Threads,
                        Key(u) = x /\ cmd[u].op = "set" /\ pc[u] \in {"alloc", "put"}
                 PROVE  Overwriting(x)'
      BY DEF Overwriting
    <3>1. u # t /\ Key(u)' = Key(u)
      BY <1>4 DEF Key
    <3> QED
      BY <1>4, <3>1 DEF Overwriting
  <2>2. Emptied(x) => Emptied(x)'
    <3> SUFFICES ASSUME NEW u \in Threads,
                        Key(u) = x /\ cmd[u].op \in Removers /\ pc[u] = "delete"
                 PROVE  Emptied(x)'
      BY DEF Emptied
    <3>1. u # t /\ Key(u)' = Key(u)
      BY <1>4 DEF Key
    <3> QED
      BY <1>4, <3>1 DEF Emptied
  <2> QED
    BY <1>4, <1>5, <2>1, <2>2 DEF ContentInv, Whole
<1>8. Knows(t)'
  BY <1>6 DEF Knows
<1>9. ASSUME NEW u \in Threads \ {t} PROVE Knows(u)'
  <2>1. Key(u)' = Key(u) /\ pc'[u] = pc[u] /\ cmd'[u] = cmd[u] /\ Knows(u)
    BY <1>4 DEF Key, ContentInv
  <2> QED
    BY <1>4, <1>5, <2>1 DEF Knows, Expired
<1> QED
  BY <1>7, <1>8, <1>9 DEF ContentInv

(* A compaction keeps the records the map's entry of their key names, and    *)
(* adds none.                                                                *)
LEMMA CompactionKeeps ==
    ASSUME CompactionDrop \/ compact
    PROVE  /\ \A x, v : scan(x, v)' \subseteq scan(x, v)
           /\ \A x, v : v # 0 /\ versions[x] = v =>
                 scan(x, v)' = scan(x, v) /\ scan_index(x, v)' = scan_index(x, v)
<1>1. subs' \subseteq subs /\ index' \subseteq index
  BY DEF CompactionDrop, compact
<1>2. \A r \in subs \ subs' : ~should_keep(r)
  BY DEF CompactionDrop, compact
<1>3. \A r \in index \ index' : ~should_keep(r)
  BY DEF CompactionDrop, compact
<1> QED
  BY <1>1, <1>2, <1>3 DEF scan, scan_index, should_keep

(* Every record a thread or a live key counts on survives a compaction.      *)
LEMMA CompactionContent ==
    ASSUME Serialised, ContentInv, MapInv', CompactionDrop \/ compact
    PROVE  ContentInv'
<1>0. /\ UNCHANGED <<metas, versions, now, pc, cmd, mem, wb>> /\ boot = "serving"
  BY DEF CompactionDrop, compact, local, GcActive, Serialised
<1>1. TypeInv /\ DiskTypeOK /\ ThreadsTypeOK /\ Booting
  BY DEF ContentInv, MapInv, GcInv, TypeInv, TypeOK
<1>2. \A x, v : v # 0 /\ versions[x] = v =>
         scan(x, v)' = scan(x, v) /\ scan_index(x, v)' = scan_index(x, v)
  BY CompactionKeeps
<1>3. ASSUME NEW x \in Keys PROVE Whole(x)'
  <2>1. CASE metas[x] = NoMeta \/ ~Counted(metas[x].type)
    BY <1>0, <2>1 DEF Whole, Full
  <2>2. CASE Overwriting(x)
    BY <1>0, <2>2 DEF Whole, Overwriting, Key
  <2>3. CASE metas[x] # NoMeta /\ Counted(metas[x].type) /\ ~Overwriting(x)
    <3>1. metas[x].ver # 0 /\ versions[x] = metas[x].ver
      BY <1>0, <1>1, <2>3 DEF ContentInv, MapInv, GcInv, Tracked, Counted, DiskTypeOK, Metas
    <3>2. PICK v : v = metas[x].ver
      OBVIOUS
    <3>3. scan(x, v)' = scan(x, v) /\ scan_index(x, v)' = scan_index(x, v)
      BY <1>2, <3>1, <3>2
    <3>4. Emptied(x) => Emptied(x)'
      BY <1>0 DEF Emptied, Key
    <3> QED
      BY <1>0, <2>3, <3>2, <3>3, <3>4 DEF ContentInv, Whole
  <2> QED
    BY <2>1, <2>2, <2>3
<1>4. ASSUME NEW t \in Threads PROVE Knows(t)'
  <2>0. Control(t) /\ Claim(t) /\ Knows(t)
    BY DEF ContentInv, MapInv, GcInv, TypeInv, ControlOK
  <2>1. PICK k : k = Key(t)
    OBVIOUS
  <2>2. Key(t)' = k
    BY <1>0, <2>1 DEF Key
  <2>3. CASE pc[t] = "exec"
    <3>1. PICK v : v = mem[t].ver
      OBVIOUS
    <3>2. v # 0 /\ versions[k] = v
      BY <2>0, <2>1, <2>3, <3>1 DEF Control, Claim, Metas
    <3>3. scan(k, v)' = scan(k, v) /\ scan_index(k, v)' = scan_index(k, v)
      BY <1>2, <3>2
    <3> QED
      BY <1>0, <2>0, <2>1, <2>2, <2>3, <3>1, <3>3 DEF Knows
  <2>4. CASE pc[t] = "commit"
    <3>1. PICK v : v = wb[t].mput.ver
      OBVIOUS
    <3>2. v # 0 /\ versions[k] = v
      BY <2>0, <2>1, <2>4, <3>1 DEF Control, Claim, Metas
    <3>3. scan(k, v)' = scan(k, v) /\ scan_index(k, v)' = scan_index(k, v)
      BY <1>2, <3>2
    <3> QED
      BY <1>0, <2>0, <2>1, <2>2, <2>4, <3>1, <3>3 DEF Knows
  <2>5. CASE pc[t] \in {"empty", "delete"}
    <3>1. PICK v : v = metas[k].ver
      OBVIOUS
    <3>2. scan(k, v)' \subseteq scan(k, v)
      BY CompactionKeeps
    <3>3. wb[t].puts = {} /\ SubsAfter(scan(k, v), wb[t]) = {} => SubsAfter(scan(k, v)', wb[t]) = {}
      BY <3>2 DEF SubsAfter
    <3> QED
      BY <1>0, <2>0, <2>1, <2>2, <2>5, <3>1, <3>2, <3>3 DEF Knows
  <2>6. CASE pc[t] \notin {"exec", "commit", "empty", "delete"}
    BY <1>0, <2>0, <2>1, <2>2, <2>6 DEF Knows, Expired
  <2> QED
    BY <2>3, <2>4, <2>5, <2>6
<1> QED
  BY <1>3, <1>4 DEF ContentInv

(* The clock only makes deadlines pass; a restart loses no structure.        *)
LEMMA EnvironmentContent ==
    ASSUME CleanStops, ContentInv, MapInv', Tick \/ UNCHANGED vars \/ Restart \/ Boot
    PROVE  ContentInv'
<1>0. /\ TypeInv /\ DiskTypeOK /\ MapTypeOK /\ ThreadsTypeOK /\ Booting
      /\ UNCHANGED <<metas, subs, index>>
  BY DEF ContentInv, MapInv, GcInv, TypeInv, TypeOK, Tick, vars, Restart, Boot, install_gc,
     RebuildKey, Serve, disk
<1>1. \A x, v : scan(x, v)' = scan(x, v) /\ scan_index(x, v)' = scan_index(x, v)
  BY <1>0, SameRecords
<1>2. CASE Tick \/ UNCHANGED vars
  <2>1. UNCHANGED <<pc, cmd, mem, wb>> /\ now' >= now /\ now \in Nat /\ now' \in Nat
    BY <1>0, <1>2 DEF Tick, vars, local, MapTypeOK
  <2>2. ASSUME NEW x \in Keys PROVE Whole(x)'
    BY <1>0, <1>1, <2>1 DEF ContentInv, Whole, Overwriting, Emptied, Key
  <2>3. ASSUME NEW t \in Threads PROVE Knows(t)'
    <3>1. PICK k : k = Key(t)
      OBVIOUS
    <3>2. Knows(t) /\ Key(t)' = k
      BY <2>1, <3>1 DEF ContentInv, Key
    <3>3. pc[t] = "expire" => k \in Keys
      <4>1. Control(t)
        BY <1>0 DEF TypeInv, ControlOK
      <4> QED
        BY <1>0, <3>1, <4>1, RunningKey DEF Control, Running, Creators, Removers
    <3>4. pc[t] = "expire" /\ metas[k] # NoMeta /\ Expired(metas[k]) => Expired(metas[k])'
      <4>1. k \in Keys /\ metas[k] # NoMeta => metas[k].exp \in Nat
        BY <1>0 DEF DiskTypeOK, Metas
      <4> QED
        BY <1>0, <2>1, <3>3, <4>1 DEF Expired
    <3> QED
      BY <1>0, <1>1, <2>1, <3>1, <3>2, <3>4 DEF Knows
  <2> QED
    BY <2>2, <2>3 DEF ContentInv
<1>3. CASE Restart \/ Boot
  <2>1. \A t \in Threads : pc'[t] = "idle"
    BY <1>0, <1>3 DEF Restart, Boot, install_gc, RebuildKey, Serve, local, Booting, Running
  <2>2. \A x : ~Overwriting(x) /\ ~Emptied(x)
    <3>1. CASE \A t \in Threads : ~Running(t)
      BY <3>1 DEF Overwriting, Emptied, Running
    <3>2. CASE "crash" \in Faults
      <4>1. \A t \in Threads : cmd[t].op \notin Removers \cup {"set"}
        BY <1>0, <3>2 DEF CleanStops, ThreadsTypeOK, Ops
      <4> QED
        BY <4>1 DEF Overwriting, Emptied
    <3> QED
      BY <1>0, <1>3, <3>1, <3>2 DEF Restart, Boot, install_gc, RebuildKey, Serve, Booting
  <2>3. ASSUME NEW x \in Keys PROVE Whole(x)'
    BY <1>0, <1>1, <2>2 DEF ContentInv, Whole
  <2>4. \A t \in Threads : Knows(t)'
    BY <2>1 DEF Knows
  <2> QED
    BY <2>3, <2>4 DEF ContentInv
<1> QED
  BY <1>2, <1>3

LEMMA InitContent == Init => ContentInv
<1> SUFFICES ASSUME Init PROVE ContentInv
  OBVIOUS
<1>1. (\A k \in Keys : metas[k] = NoMeta) /\ \A t \in Threads : pc[t] = "idle"
  BY DEF Init
<1>2. MapInv
  BY InitMap
<1> QED
  BY <1>1, <1>2 DEF ContentInv, Whole, Knows

LEMMA NextContent ==
    Serialised /\ NoClockBack /\ CleanStops /\ ContentInv /\ [Next]_vars => ContentInv'
<1> SUFFICES ASSUME Serialised, NoClockBack, CleanStops, ContentInv, [Next]_vars
             PROVE  ContentInv'
  OBVIOUS
<1>0. MapInv'
  BY NextMap DEF ContentInv
<1>1. ASSUME NEW t \in Threads, Start(t) PROVE ContentInv'
  BY <1>0, <1>1, StartContent
<1>2. ASSUME NEW t \in Threads, Step(t) PROVE ContentInv'
  BY <1>0, <1>2, LoadContent, DeleteContent, CreateContent, CommitContent, ExecContent,
     FlushContent DEF Step
<1>3. ASSUME NEW t \in Threads, WriteFails(t) PROVE ContentInv'
  BY <1>3 DEF WriteFails, Serialised
<1> QED
  BY <1>0, <1>1, <1>2, <1>3, CompactionContent, EnvironmentContent DEF Next

-----------------------------------------------------------------------------
(* Reads. *)

(* Where no command is at work a structure is what its metadata says.        *)
LEMMA QuietFits ==
    ASSUME ContentInv, NEW k \in Keys, Quiet(k), NEW type, Holds(k, type), Counted(type),
           NEW m, m = metas[k], NEW S, S = scan(k, m.ver), NEW I, I = scan_index(k, m.ver)
    PROVE  /\ m \in Metas /\ m.type = type /\ Fits(S, I, m) /\ S # {}
           /\ S \subseteq SubRecs /\ I \subseteq IdxRecs
           /\ \A r \in S \cup I : r.key = k /\ r.ver = m.ver
<1>1. m # NoMeta /\ m.type = type
  BY DEF Holds
<1>2. DiskTypeOK
  BY DEF ContentInv, MapInv, GcInv, TypeInv, TypeOK
<1>3. ~Overwriting(k) /\ ~Emptied(k) /\ Whole(k)
  BY DEF Quiet, Overwriting, Emptied, ContentInv
<1> QED
  BY <1>1, <1>2, <1>3 DEF Whole, Full, DiskTypeOK, scan, scan_index

(* The count of a hash, a set or a sorted set.                               *)
LEMMA QuietCount ==
    ASSUME NEW S, NEW I, NEW m, Fits(S, I, m), S # {}, m.type # "list"
    PROVE  /\ IsFiniteSet(S) /\ OnePer(S) /\ m.cnt = Cardinality(S)
           /\ m.cnt \in Nat /\ m.cnt > 0
           /\ FieldsOf(S) \subseteq Fields
           /\ Cardinality(FieldsOf(S)) = Cardinality(S)
<1>1. IsFiniteSet(S) /\ OnePer(S) /\ m.cnt = Cardinality(S) /\ FieldsOf(S) \subseteq Fields
  BY DEF Fits, OnePer, FieldsOf
<1>2. Cardinality(S) \in Nat /\ Cardinality(S) # 0
  BY <1>1, FS_EmptySet, FS_CardinalityType
<1> QED
  BY <1>1, <1>2, FieldCount

-----------------------------------------------------------------------------
LEMMA SetsAgree ==
    ASSUME ContentInv, NEW k \in Keys, Quiet(k)
    PROVE  SetAgrees(k)
<1>1. CASE ~Holds(k, "set")
  BY <1>1, FS_EmptySet DEF SetAgrees, scard, smembers, sismember
<1>2. CASE Holds(k, "set")
  <2> DEFINE m == metas[k]
             S == scan(k, m.ver)
             I == scan_index(k, m.ver)
  <2>1. Counted("set")
    BY DEF Counted, Composite
  <2>2. m.type = "set" /\ Fits(S, I, m) /\ S # {}
    BY <1>2, <2>1, QuietFits
  <2>3. smembers(k) = FieldsOf(S) /\ scard(k) = m.cnt
    BY <1>2 DEF smembers, scard, FieldsOf
  <2>4. \A x : sismember(k, x) <=> x \in FieldsOf(S)
    BY <1>2, HasField DEF sismember
  <2> HIDE DEF S, I, m
  <2>5. /\ m.cnt = Cardinality(FieldsOf(S)) /\ m.cnt > 0 /\ FieldsOf(S) \subseteq Fields
    BY <2>2, QuietCount
  <2> QED
    BY <2>3, <2>4, <2>5 DEF SetAgrees
<1> QED
  BY <1>1, <1>2

LEMMA HashesAgree ==
    ASSUME NoRepeats, ContentInv, NEW k \in Keys, Quiet(k)
    PROVE  HashAgrees(k)
<1>1. CASE ~Holds(k, "hash")
  BY <1>1, FS_EmptySet DEF HashAgrees, hlen, hgetall, hexists
<1>2. CASE Holds(k, "hash")
  <2> DEFINE m == metas[k]
             S == scan(k, m.ver)
             I == scan_index(k, m.ver)
             g(r) == <<r.field, r.val>>
             T == {g(r) : r \in S}
             f == [r \in S |-> g(r)]
  <2>1. Counted("hash")
    BY DEF Counted, Composite
  <2>2. m.type = "hash" /\ Fits(S, I, m) /\ S # {}
    BY <1>2, <2>1, QuietFits
  <2>3. hgetall(k) = T /\ hlen(k) = m.cnt
    BY <1>2 DEF hgetall, hlen
  <2>4. \A x : hexists(k, x) <=> x \in FieldsOf(S)
    BY <1>2, HasField DEF hexists
  <2> HIDE DEF S, I, m
  <2>5. /\ IsFiniteSet(S) /\ OnePer(S) /\ m.cnt = Cardinality(S)
        /\ m.cnt = Cardinality(FieldsOf(S)) /\ m.cnt > 0 /\ FieldsOf(S) \subseteq Fields
    BY <2>2, QuietCount
  <2>6. \A r, s \in S : g(r) = g(s) => r = s
    BY <2>5 DEF OnePer
  <2> HIDE DEF g
  <2>7. Cardinality(T) = Cardinality(S)
    <3>1. f \in [S -> T] /\ (\A y \in T : \E x \in S : f[x] = y) /\ \A x, y \in S : f[x] = f[y] => x = y
      BY <2>6
    <3> HIDE DEF f, T
    <3>2. IsFiniteSet(S)
      BY <2>5
    <3>3. f \in [S -> T]
      BY <3>1
    <3>4. \A y \in T : \E x \in S : f[x] = y
      BY <3>1
    <3>5. \A x, y \in S : f[x] = f[y] => x = y
      BY <3>1
    <3> QED
      BY ONLY <3>2, <3>3, <3>4, <3>5, Counting
  <2>8. {x \in Fields : hexists(k, x)} = FieldsOf(S)
    BY <2>4, <2>5
  <2> QED
    BY <2>3, <2>5, <2>7, <2>8 DEF HashAgrees
<1> QED
  BY <1>1, <1>2

LEMMA ListsAgree ==
    ASSUME ContentInv, NEW k \in Keys, Quiet(k)
    PROVE  ListDense(k)
<1> SUFFICES ASSUME Holds(k, "list") PROVE ListDense(k)
  BY DEF ListDense
<1> DEFINE m == metas[k]
           S == scan(k, m.ver)
           I == scan_index(k, m.ver)
           n == m.tail - m.head
<1>1. Counted("list")
  BY DEF Counted, Composite
<1>2. m \in Metas /\ m.type = "list" /\ Fits(S, I, m) /\ S # {}
  BY <1>1, QuietFits
<1>3. m.head \in Int /\ m.tail \in Int
  BY <1>2 DEF Metas
<1>4. FieldsOf(S) = m.head .. m.tail - 1 /\ m.head <= m.tail /\ OnePer(S)
  BY <1>2 DEF Fits, FieldsOf, OnePer
<1>5. llen(k) = n
  BY DEF llen
<1>6. \A i : element(k, i) = {r.val : r \in {r \in S : r.field = i}}
  BY DEF element
<1> HIDE DEF S, I
<1>7. n \in Nat /\ n > 0
  <2>1. FieldsOf(S) # {}
    BY <1>2 DEF FieldsOf
  <2> HIDE DEF m
  <2> QED
    BY <1>3, <1>4, <2>1
<1>8. normalize_range(0, -1, n) = <<0, n - 1>>
  <2> HIDE DEF n
  <2> QED
    BY <1>7 DEF normalize_range
<1>9. lrange(k, 0, -1) = [o \in 1 .. n |-> element(k, m.head + o - 1)]
  <2> HIDE DEF m, n
  <2>1. lrange(k, 0, -1) = [o \in 1 .. n - 1 - 0 + 1 |-> element(k, metas[k].head + 0 + o - 1)]
    BY <1>5, <1>7, <1>8 DEF lrange, NoRange
  <2>2. n - 1 - 0 + 1 = n /\ \A o \in 1 .. n : m.head + 0 + o - 1 = m.head + o - 1
    BY <1>3, <1>7
  <2> QED
    BY <2>1, <2>2 DEF m
<1>10. ASSUME NEW i \in 1 .. n PROVE Cardinality(element(k, m.head + i - 1)) = 1
  <2> HIDE DEF m
  <2>1. m.head + i - 1 \in FieldsOf(S)
    BY <1>3, <1>4, <1>7
  <2>2. PICK r \in S : r.field = m.head + i - 1
    BY <2>1 DEF FieldsOf
  <2>3. element(k, m.head + i - 1) = {r.val}
    BY <1>4, <1>6, <2>2 DEF OnePer
  <2> QED
    BY <2>3, FS_Singleton
<1>11. {r.field : r \in scan(k, metas[k].ver)} = metas[k].head .. metas[k].tail - 1
  BY <1>4 DEF FieldsOf, S
<1>12. Len(lrange(k, 0, -1)) = n /\ \A i \in 1 .. n : Cardinality(lrange(k, 0, -1)[i]) = 1
  <2> HIDE DEF n, m
  <2> QED
    BY <1>7, <1>9, <1>10
<1> HIDE DEF n
<1> QED
  BY <1>5, <1>7, <1>11, <1>12 DEF ListDense

-----------------------------------------------------------------------------
(* Ranks and codes.                                                          *)

(* For every pair of ranks and every length normalize_range selects exactly  *)
(* the elements between the two ranks, both included, and stays in bounds.   *)
LEMMA RangeSelects ==
    ASSUME NEW i \in Int, NEW j \in Int, NEW n \in Nat
    PROVE  SelectsInclusive(i, j, n)
<1> DEFINE lo0 == IF i < 0 THEN i + n ELSE i
           hi0 == IF j < 0 THEN j + n ELSE j
           lo == IF lo0 < 0 THEN 0 ELSE lo0
           hi == IF hi0 > n - 1 THEN n - 1 ELSE hi0
<1>1. normalize_range(i, j, n) = IF n <= 0 \/ lo > hi THEN <<>> ELSE <<lo, hi>>
  BY DEF normalize_range, NoRange
<1>2. CASE n <= 0 \/ lo > hi
  <2>1. \A o \in 0 .. n - 1 : ~(Offset(i, n) <= o /\ o <= Offset(j, n))
    BY <1>2 DEF Offset
  <2> QED
    BY <1>1, <1>2, <2>1 DEF SelectsInclusive, NoRange
<1>3. CASE ~(n <= 0 \/ lo > hi)
  <2>1. 0 <= lo /\ lo <= hi /\ hi < n
    BY <1>3
  <2>2. \A o \in 0 .. n - 1 :
           (Offset(i, n) <= o /\ o <= Offset(j, n)) <=> (lo <= o /\ o <= hi)
    BY <1>3 DEF Offset
  <2>3. normalize_range(i, j, n) = <<lo, hi>> /\ <<lo, hi>> # <<>>
    BY <1>1, <1>3
  <2> HIDE DEF lo, hi
  <2> QED
    BY <2>1, <2>2, <2>3 DEF SelectsInclusive, NoRange
<1> QED
  BY <1>2, <1>3

(* ZRANGE and LRANGE select the inclusive rank range Redis documents for any  *)
(* two ranks, negative or past the end, at any length, the empty collection   *)
(* included.                                                                 *)
THEOREM RangesCorrect ==
    \A i, j \in Int : \A n \in Nat : SelectsInclusive(i, j, n)
  BY RangeSelects

(* encode_score can be inverted and preserves the numeric order of any two   *)
(* scores, which the early break of zrange_by_score relies on.               *)
THEOREM CodecCorrect == \A s, t \in Scores : CodecOrders(s, t)
<1> SUFFICES ASSUME NEW s \in Scores, NEW t \in Scores
             PROVE  CodecOrders(s, t)
  OBVIOUS
<1>1. /\ SignBit \in Int /\ SignBit > 0
      /\ s \in Int /\ 0 <= s /\ s < 2 * SignBit
      /\ t \in Int /\ 0 <= t /\ t < 2 * SignBit
  BY SignBitAssumption DEF Scores
<1>2. decode_score(encode_score(s)) = s
  BY <1>1 DEF decode_score, encode_score
<1>3. Number(s) < Number(t) => encode_score(s) < encode_score(t)
  BY <1>1 DEF Number, encode_score
<1>4. encode_score(s) < encode_score(t) => Number(s) <= Number(t)
  BY <1>1 DEF Number, encode_score
<1>5. encode_score(s) = encode_score(t) => s = t
  BY <1>1 DEF encode_score
<1> QED
  BY <1>2, <1>3, <1>4, <1>5 DEF CodecOrders

-----------------------------------------------------------------------------
(* The score index.                                                          *)

(* Codes are ordered like the numbers they stand for.                        *)
LEMMA CodeOrder ==
    ASSUME NEW c \in Scores, NEW d \in Scores, c <= d
    PROVE  Number(decode_score(c)) <= Number(decode_score(d))
<1>1. /\ SignBit \in Int /\ SignBit > 0
      /\ c \in Int /\ 0 <= c /\ c < 2 * SignBit
      /\ d \in Int /\ 0 <= d /\ d < 2 * SignBit
  BY SignBitAssumption DEF Scores
<1> QED
  BY <1>1 DEF Number, decode_score

(* An index whose records have integer scores and one record per member.     *)
Ordered(I) ==
    /\ IsFiniteSet(I)
    /\ \A r \in I : r.score \in Scores /\ r.member \in Int
    /\ \A r, s \in I : r.member = s.member => r = s

Below(I, r) == {s \in I : Before(s, r)}

LEMMA BeforeTotal ==
    ASSUME NEW I, Ordered(I)
    PROVE  /\ \A r \in I : ~Before(r, r)
           /\ \A r, s \in I : r = s \/ Before(r, s) \/ Before(s, r)
           /\ \A r, s, x \in I : Before(r, s) /\ Before(s, x) => Before(r, x)
<1>1. \A r \in I : r.score \in Int /\ r.member \in Int
  BY SignBitAssumption DEF Ordered, Scores
<1>2. \A r, s \in I : r.member = s.member => r = s
  BY DEF Ordered
<1> QED
  BY <1>1, <1>2 DEF Before

(* The rank of a record is the number of those before it: different records  *)
(* have different ranks, in the order of the records, below their number.    *)
LEMMA Ranks ==
    ASSUME NEW I, Ordered(I)
    PROVE  /\ Cardinality(I) \in Nat
           /\ \A r \in I : Cardinality(Below(I, r)) \in 0 .. Cardinality(I) - 1
           /\ \A r, s \in I : Before(r, s) => Cardinality(Below(I, r)) < Cardinality(Below(I, s))
<1>0. IsFiniteSet(I) /\ Cardinality(I) \in Nat
  BY FS_CardinalityType DEF Ordered
<1>1. ASSUME NEW r \in I PROVE Cardinality(Below(I, r)) \in 0 .. Cardinality(I) - 1
  <2> DEFINE B == Below(I, r)
  <2>1. B \in SUBSET I /\ r \notin B
    BY BeforeTotal DEF Below
  <2> HIDE DEF B
  <2>2. IsFiniteSet(B) /\ Cardinality(B) <= Cardinality(I) /\ Cardinality(B) # Cardinality(I)
    BY <1>0, <2>1, FS_Subset
  <2>3. Cardinality(B) \in Nat
    BY <2>2, FS_CardinalityType
  <2> QED
    BY <1>0, <2>2, <2>3 DEF B
<1>2. ASSUME NEW r \in I, NEW s \in I, Before(r, s)
      PROVE  Cardinality(Below(I, r)) < Cardinality(Below(I, s))
  <2> DEFINE B == Below(I, r)
             C == Below(I, s)
  <2>1. B \in SUBSET C /\ r \in C /\ r \notin B /\ C \in SUBSET I
    BY <1>2, BeforeTotal DEF Below
  <2> HIDE DEF B, C
  <2>2. IsFiniteSet(C)
    BY <1>0, <2>1, FS_Subset
  <2>3. IsFiniteSet(B) /\ Cardinality(B) <= Cardinality(C) /\ Cardinality(B) # Cardinality(C)
    BY <2>1, <2>2, FS_Subset
  <2>4. Cardinality(B) \in Nat /\ Cardinality(C) \in Nat
    BY <2>2, <2>3, FS_CardinalityType
  <2> QED
    BY <2>3, <2>4 DEF B, C
<1> QED
  BY <1>0, <1>1, <1>2

(* So the ranks are 0, 1, 2 and so on without a gap, and as many records     *)
(* have a rank up to i as there are numbers up to i.                         *)
LEMMA RanksDense ==
    ASSUME NEW I, Ordered(I), NEW i \in 0 .. Cardinality(I) - 1
    PROVE  Cardinality({r \in I : Cardinality(Below(I, r)) <= i}) = i + 1
<1> DEFINE n == Cardinality(I)
           rank == [r \in I |-> Cardinality(Below(I, r))]
           F == {r \in I : Cardinality(Below(I, r)) <= i}
           f == [r \in F |-> rank[r]]
<1>0. IsFiniteSet(I) /\ n \in Nat
  BY Ranks DEF Ordered
<1>1. rank \in [I -> 0 .. n - 1] /\ \A r \in I : rank[r] = Cardinality(Below(I, r))
  BY Ranks
<1>2. \A r, s \in I : rank[r] = rank[s] => r = s
  <2> SUFFICES ASSUME NEW r \in I, NEW s \in I, rank[r] = rank[s], r # s PROVE FALSE
    OBVIOUS
  <2>1. Before(r, s) \/ Before(s, r)
    BY BeforeTotal
  <2>2. rank[r] < rank[s] \/ rank[s] < rank[r]
    BY <1>1, <2>1, Ranks
  <2> HIDE DEF rank, n
  <2>3. rank[r] \in Int /\ rank[s] \in Int
    BY <1>0, <1>1
  <2> QED
    BY <2>2, <2>3
<1>3. IsFiniteSet(0 .. n - 1) /\ Cardinality(0 .. n - 1) = n
  BY <1>0, FS_Interval
<1> HIDE DEF rank
<1>4. rank \in Injection(I, 0 .. n - 1)
  BY <1>1, <1>2 DEF Injection, IsInjective
<1>5. rank \in Surjection(I, 0 .. n - 1)
  <2> HIDE DEF n
  <2>1. Cardinality(I) = Cardinality(0 .. n - 1)
    BY <1>3 DEF n
  <2> QED
    BY <1>3, <1>4, <2>1, FS_Injection
<1>6. \A y \in 0 .. n - 1 : \E r \in I : rank[r] = y
  BY <1>5 DEF Surjection
<1>7. f \in [F -> 0 .. i]
  BY <1>0, <1>1
<1>8. \A y \in 0 .. i : \E r \in F : f[r] = y
  <2> SUFFICES ASSUME NEW y \in 0 .. i PROVE \E r \in F : f[r] = y
    OBVIOUS
  <2>1. y \in 0 .. n - 1
    BY <1>0
  <2>2. PICK r \in I : rank[r] = y
    BY <1>6, <2>1
  <2>3. r \in F
    BY <1>1, <2>2
  <2> QED
    BY <2>2, <2>3
<1>9. \A r, s \in F : f[r] = f[s] => r = s
  BY <1>2
<1>10. IsFiniteSet(F)
  BY <1>0, FS_Subset
<1> HIDE DEF F, f, n
<1>11. Cardinality(0 .. i) = Cardinality(F)
  BY <1>7, <1>8, <1>9, <1>10, Counting
<1>12. Cardinality(0 .. i) = i + 1
  BY FS_Interval
<1> QED
  BY <1>11, <1>12 DEF F

(* What ZRANGE returns for a set of index records.                           *)
Entries(F) == {<<r.member, decode_score(r.score)>> : r \in F}

LEMMA EntryCount ==
    ASSUME NEW I, Ordered(I), NEW F \in SUBSET I
    PROVE  Cardinality(Entries(F)) = Cardinality(F)
<1> DEFINE g(r) == <<r.member, decode_score(r.score)>>
           f == [r \in F |-> g(r)]
           T == {g(r) : r \in F}
<1>1. IsFiniteSet(F)
  BY FS_Subset DEF Ordered
<1>2. \A r, s \in F : g(r) = g(s) => r = s
  BY DEF Ordered
<1>3. Entries(F) = T
  BY DEF Entries
<1> HIDE DEF g
<1>4. f \in [F -> T] /\ (\A y \in T : \E x \in F : f[x] = y) /\ \A x, y \in F : f[x] = f[y] => x = y
  BY <1>2
<1> HIDE DEF f, T
<1> QED
  BY <1>1, <1>3, <1>4, Counting

(* The two encodings of a sorted set hold the same pairs.                    *)
LEMMA QuietIndex ==
    ASSUME ContentInv, NEW k \in Keys, Quiet(k), Holds(k, "zset"),
           NEW m, m = metas[k], NEW I, I = scan_index(k, m.ver)
    PROVE  /\ Ordered(I) /\ Cardinality(I) = m.cnt /\ m.cnt \in Nat /\ m.cnt > 0
           /\ zcard(k) = m.cnt
           /\ \A r \in I : r.member \in Fields
           /\ \A x, s : s \in zscore(k, x) <=>
                 \E r \in I : r.member = x /\ decode_score(r.score) = s
<1> DEFINE S == scan(k, m.ver)
           g(r) == Idx(r.key, r.ver, r.val, r.field)
           f == [r \in S |-> g(r)]
<1>1. Counted("zset")
  BY DEF Counted, Composite
<1>2. m.type = "zset" /\ Fits(S, I, m) /\ S # {}
  BY <1>1, QuietFits
<1>3. zcard(k) = m.cnt
  BY DEF zcard
<1>4. \A x : zscore(k, x) = {decode_score(r.val) : r \in {r \in S : r.field = x}}
  BY DEF zscore, Stored
<1> HIDE DEF S
<1>5. /\ IsFiniteSet(S) /\ OnePer(S) /\ m.cnt = Cardinality(S) /\ m.cnt \in Nat /\ m.cnt > 0
      /\ FieldsOf(S) \subseteq Fields
  BY <1>2, QuietCount
<1>6. /\ I = {g(r) : r \in S} /\ \A r \in S : r.val \in Scores /\ r.field \in Fields
  BY <1>2 DEF Fits
<1>7. \A r \in S : g(r).member = r.field /\ g(r).score = r.val
  BY DEF Idx
<1>8. \A r, s \in S : g(r) = g(s) => r = s
  BY <1>5, <1>7 DEF OnePer
<1> HIDE DEF g
<1>9. f \in [S -> I] /\ (\A y \in I : \E r \in S : f[r] = y) /\ \A r, s \in S : f[r] = f[s] => r = s
  BY <1>6, <1>8
<1>10. IsFiniteSet(I) /\ Cardinality(I) = Cardinality(S)
  <2> HIDE DEF f
  <2> QED
    BY <1>5, <1>9, Counting
<1>11. Ordered(I) /\ \A r \in I : r.member \in Fields
  <2>1. \A y \in I : \E r \in S : y = g(r) /\ y.member = r.field /\ y.score = r.val
    BY <1>6, <1>7
  <2>2. \A y \in I : y.score \in Scores /\ y.member \in Fields /\ y.member \in Int
    BY <1>6, <2>1, FieldsAssumption
  <2>3. ASSUME NEW y \in I, NEW z \in I, y.member = z.member PROVE y = z
    <3>1. PICK r \in S : y = g(r) /\ y.member = r.field
      BY <2>1
    <3>2. PICK s \in S : z = g(s) /\ z.member = s.field
      BY <2>1
    <3> QED
      BY <1>5, <2>3, <3>1, <3>2 DEF OnePer
  <2> QED
    BY <1>10, <2>2, <2>3 DEF Ordered
<1>12. ASSUME NEW x, NEW s
       PROVE  s \in zscore(k, x) <=> \E r \in I : r.member = x /\ decode_score(r.score) = s
  BY <1>4, <1>6, <1>7
<1> QED
  BY <1>3, <1>5, <1>10, <1>11, <1>12

(* What ZRANGE makes of three ranges of ranks.                               *)
LEMMA ZrangeSelects ==
    ASSUME ContentInv, NEW k \in Keys, Quiet(k), Holds(k, "zset"),
           NEW m, m = metas[k], NEW I, I = scan_index(k, m.ver)
    PROVE  /\ zrange(k, 0, -1) = Entries(I)
           /\ \A i \in 0 .. m.cnt - 1 :
                 /\ zrange(k, 0, i) = Entries({r \in I : Cardinality(Below(I, r)) <= i})
                 /\ zrange(k, i + 1, -1) \subseteq Entries({r \in I : Cardinality(Below(I, r)) > i})
<1> DEFINE n == m.cnt
           at(lo, hi) == {r \in I : lo <= Cardinality(Below(I, r)) /\ Cardinality(Below(I, r)) <= hi}
<1>1. Ordered(I) /\ Cardinality(I) = n /\ n \in Nat /\ n > 0
  BY QuietIndex
<1>2. \A r \in I : Cardinality(Below(I, r)) \in 0 .. n - 1
  BY <1>1, Ranks
<1>3. ASSUME NEW i, NEW j, NEW lo \in Int, NEW hi \in Int, normalize_range(i, j, n) = <<lo, hi>>
      PROVE  zrange(k, i, j) = Entries(at(lo, hi))
  <2>1. <<lo, hi>> # NoRange
    BY DEF NoRange
  <2> QED
    BY <1>3, <2>1 DEF zrange, Entries, Below
<1>4. ASSUME NEW i, NEW j, normalize_range(i, j, n) = NoRange
      PROVE  zrange(k, i, j) = {}
  BY <1>4 DEF zrange
<1> HIDE DEF n
<1>5. zrange(k, 0, -1) = Entries(I)
  <2>1. normalize_range(0, -1, n) = <<0, n - 1>>
    BY <1>1 DEF normalize_range
  <2>2. at(0, n - 1) = I
    BY <1>1, <1>2
  <2>3. 0 \in Int /\ n - 1 \in Int
    BY <1>1
  <2> HIDE DEF at
  <2>4. zrange(k, 0, -1) = Entries(at(0, n - 1))
    BY <1>3, <2>1, <2>3
  <2> QED
    BY <2>2, <2>4
<1>6. ASSUME NEW i \in 0 .. n - 1
      PROVE  zrange(k, 0, i) = Entries({r \in I : Cardinality(Below(I, r)) <= i})
  <2>1. normalize_range(0, i, n) = <<0, i>> /\ i \in Int
    BY <1>1 DEF normalize_range
  <2>2. at(0, i) = {r \in I : Cardinality(Below(I, r)) <= i}
    BY <1>1, <1>2
  <2> HIDE DEF at
  <2>3. zrange(k, 0, i) = Entries(at(0, i))
    BY <1>3, <2>1
  <2> QED
    BY <2>2, <2>3
<1>7. ASSUME NEW i \in 0 .. n - 1
      PROVE  zrange(k, i + 1, -1) \subseteq Entries({r \in I : Cardinality(Below(I, r)) > i})
  <2>1. CASE i = n - 1
    <3>1. normalize_range(i + 1, -1, n) = NoRange
      BY <1>1, <2>1 DEF normalize_range
    <3> QED
      BY <1>4, <3>1
  <2>2. CASE i < n - 1
    <3>1. normalize_range(i + 1, -1, n) = <<i + 1, n - 1>> /\ i + 1 \in Int /\ n - 1 \in Int
      BY <1>1, <2>2 DEF normalize_range
    <3>2. at(i + 1, n - 1) \subseteq {r \in I : Cardinality(Below(I, r)) > i}
      BY <1>1, <1>2
    <3> HIDE DEF at
    <3>3. zrange(k, i + 1, -1) = Entries(at(i + 1, n - 1))
      BY <1>3, <3>1
    <3> QED
      BY <3>2, <3>3 DEF Entries
  <2> QED
    BY <1>1, <2>1, <2>2
<1> QED
  BY <1>5, <1>6, <1>7 DEF n

LEMMA ZSetsAgree ==
    ASSUME ContentInv, NEW k \in Keys, Quiet(k)
    PROVE  ZSetAgrees(k)
<1> DEFINE Pairs == UNION {{<<x, s>> : s \in zscore(k, x)} : x \in Fields}
           Scored == {x \in Fields : zscore(k, x) # {}}
<1>1. CASE ~Holds(k, "zset")
  <2>1. zrange(k, 0, -1) = {} /\ zcard(k) = 0 /\ \A x : zscore(k, x) = {}
    BY <1>1 DEF zrange, zcard, zscore
  <2>2. Pairs = {} /\ Scored = {}
    BY <2>1
  <2> QED
    BY <1>1, <2>1, <2>2, FS_EmptySet DEF ZSetAgrees
<1>2. CASE Holds(k, "zset")
  <2> DEFINE m == metas[k]
             I == scan_index(k, m.ver)
             f == [r \in I |-> r.member]
  <2>1. /\ Ordered(I) /\ Cardinality(I) = m.cnt /\ m.cnt > 0 /\ zcard(k) = m.cnt
        /\ \A r \in I : r.member \in Fields
        /\ \A x, s : s \in zscore(k, x) <=>
              \E r \in I : r.member = x /\ decode_score(r.score) = s
    BY <1>2, QuietIndex
  <2>2. zrange(k, 0, -1) = Entries(I)
    BY <1>2, ZrangeSelects
  <2> HIDE DEF I, m
  <2>3. Cardinality(Entries(I)) = Cardinality(I)
    BY <2>1, EntryCount
  <2>4. Entries(I) = Pairs
    <3>1. \A r \in I : <<r.member, decode_score(r.score)>> \in Pairs
      BY <2>1
    <3>2. ASSUME NEW p \in Pairs PROVE p \in Entries(I)
      <4>1. PICK x \in Fields : \E s \in zscore(k, x) : p = <<x, s>>
        OBVIOUS
      <4>2. PICK s \in zscore(k, x) : p = <<x, s>>
        BY <4>1
      <4>3. PICK r \in I : r.member = x /\ decode_score(r.score) = s
        BY <2>1
      <4> QED
        BY <4>2, <4>3 DEF Entries
    <3> HIDE DEF Pairs
    <3> QED
      BY <3>1, <3>2 DEF Entries
  <2>5. Cardinality(Scored) = Cardinality(I)
    <3>1. f \in [I -> Scored]
      BY <2>1
    <3>2. \A x \in Scored : \E r \in I : f[r] = x
      BY <2>1
    <3>3. (\A r, s \in I : f[r] = f[s] => r = s) /\ IsFiniteSet(I)
      BY <2>1 DEF Ordered
    <3> HIDE DEF f, Scored
    <3> QED
      BY <3>1, <3>2, <3>3, Counting
  <2> QED
    BY <2>1, <2>2, <2>3, <2>4, <2>5 DEF ZSetAgrees
<1> QED
  BY <1>1, <1>2

LEMMA RanksAgree ==
    ASSUME ContentInv, NEW k \in Keys, Quiet(k)
    PROVE  RankAgrees(k)
<1>1. CASE ~Holds(k, "zset")
  <2>1. zcard(k) = 0
    BY <1>1 DEF zcard
  <2> QED
    BY <2>1 DEF RankAgrees
<1>2. CASE Holds(k, "zset")
  <2> DEFINE m == metas[k]
             I == scan_index(k, m.ver)
  <2>1. Ordered(I) /\ Cardinality(I) = m.cnt /\ m.cnt \in Nat /\ zcard(k) = m.cnt
    BY <1>2, QuietIndex
  <2>2. \A i \in 0 .. m.cnt - 1 :
           /\ zrange(k, 0, i) = Entries({r \in I : Cardinality(Below(I, r)) <= i})
           /\ zrange(k, i + 1, -1) \subseteq Entries({r \in I : Cardinality(Below(I, r)) > i})
    BY <1>2, ZrangeSelects
  <2> HIDE DEF m, I
  <2> SUFFICES ASSUME NEW i \in 0 .. m.cnt - 1
               PROVE  /\ Cardinality(zrange(k, 0, i)) = i + 1
                      /\ \A p \in zrange(k, 0, i), q \in zrange(k, i + 1, -1) :
                            Number(p[2]) <= Number(q[2])
    BY <2>1 DEF RankAgrees
  <2> DEFINE F == {r \in I : Cardinality(Below(I, r)) <= i}
             G == {r \in I : Cardinality(Below(I, r)) > i}
  <2>3. Cardinality(F) = i + 1
    BY <2>1, RanksDense
  <2>4. Cardinality(Entries(F)) = Cardinality(F)
    <3>1. F \in SUBSET I
      OBVIOUS
    <3> HIDE DEF F
    <3> QED
      BY <2>1, <3>1, EntryCount
  <2>5. ASSUME NEW r \in F, NEW s \in G
        PROVE  Number(decode_score(r.score)) <= Number(decode_score(s.score))
    <3>1. r \in I /\ s \in I
      OBVIOUS
    <3>2. Cardinality(Below(I, r)) \in Int /\ Cardinality(Below(I, s)) \in Int
      BY <2>1, <3>1, Ranks
    <3>3. Cardinality(Below(I, r)) < Cardinality(Below(I, s))
      BY <3>2
    <3>4. Before(r, s)
      <4>1. r # s /\ ~Before(s, r)
        BY <2>1, <3>1, <3>2, <3>3, Ranks
      <4> QED
        BY <2>1, <3>1, <4>1, BeforeTotal
    <3>5. r.score \in Scores /\ s.score \in Scores
      BY <2>1, <3>1 DEF Ordered
    <3>6. r.score <= s.score
      BY <3>4, <3>5, SignBitAssumption DEF Before, Scores
    <3> QED
      BY <3>5, <3>6, CodeOrder
  <2>6. \A p \in Entries(F), q \in Entries(G) : Number(p[2]) <= Number(q[2])
    <3> HIDE DEF F, G
    <3> QED
      BY <2>5 DEF Entries
  <2>7. zrange(k, 0, i) = Entries(F) /\ zrange(k, i + 1, -1) \subseteq Entries(G)
    BY <2>2
  <2> HIDE DEF F, G
  <2> QED
    BY <2>3, <2>4, <2>6, <2>7
<1> QED
  BY <1>1, <1>2

LEMMA ScoreRangesAgree ==
    ASSUME ContentInv, NEW k \in Keys, Quiet(k)
    PROVE  ScoreRangeExact(k)
<1> SUFFICES ASSUME Holds(k, "zset"), NEW min \in Scores, NEW max \in Scores,
                    NEW minEx \in BOOLEAN, NEW maxEx \in BOOLEAN
             PROVE  LET inside(n) ==
                            /\ IF minEx THEN n > Number(min) ELSE n >= Number(min)
                            /\ IF maxEx THEN n < Number(max) ELSE n <= Number(max)
                    IN  zrange_by_score(k, min, minEx, max, maxEx)
                            = UNION {{<<x, s>> : s \in {s \in zscore(k, x) : inside(Number(s))}} :
                                        x \in Fields}
  BY DEF ScoreRangeExact
<1> DEFINE inside(n) == /\ IF minEx THEN n > Number(min) ELSE n >= Number(min)
                        /\ IF maxEx THEN n < Number(max) ELSE n <= Number(max)
           Pairs == UNION {{<<x, s>> : s \in {s \in zscore(k, x) : inside(Number(s))}} :
                              x \in Fields}
           m == metas[k]
           I == scan_index(k, m.ver)
           number(r) == Number(decode_score(r.score))
           beyond(r) == number(r) > Number(max) \/ (maxEx /\ number(r) = Number(max))
           below(r) == number(r) < Number(min) \/ (minEx /\ number(r) = Number(min))
           scanned == {r \in I : \A s \in I : s = r \/ Before(s, r) => ~beyond(s)}
           found == {r \in scanned : ~below(r)}
<1>1. /\ Ordered(I)
      /\ \A r \in I : r.member \in Fields
      /\ \A x, s : s \in zscore(k, x) <=>
            \E r \in I : r.member = x /\ decode_score(r.score) = s
  BY QuietIndex
<1>2. zrange_by_score(k, min, minEx, max, maxEx) = Entries(found)
  BY DEF zrange_by_score, Entries
<1> HIDE DEF m, I
<1>3. \A r \in I : r.score \in Scores /\ number(r) \in Int
  BY <1>1, SignBitAssumption DEF Ordered, Scores, Number, decode_score
<1>4. Number(min) \in Int /\ Number(max) \in Int
  BY SignBitAssumption DEF Scores, Number
<1>5. \A r, s \in I : Before(s, r) => number(s) <= number(r)
  <2> SUFFICES ASSUME NEW r \in I, NEW s \in I, Before(s, r) PROVE number(s) <= number(r)
    OBVIOUS
  <2>1. s.score <= r.score
    BY <1>3, SignBitAssumption DEF Before, Scores
  <2> QED
    BY <1>3, <2>1, CodeOrder
<1> HIDE DEF number
<1>6. \A r, s \in I : Before(s, r) /\ beyond(s) => beyond(r)
  BY <1>3, <1>4, <1>5
<1>7. found = {r \in I : ~beyond(r) /\ ~below(r)}
  <2> HIDE DEF beyond, below
  <2> QED
    BY <1>6
<1>8. \A r \in I : ~beyond(r) /\ ~below(r) <=> inside(number(r))
  BY <1>3, <1>4
<1> HIDE DEF inside, beyond, below
<1>9. found = {r \in I : inside(Number(decode_score(r.score)))}
  BY <1>7, <1>8 DEF number
<1> HIDE DEF found
<1>10. Entries(found) = Pairs
  <2>1. ASSUME NEW r \in found PROVE <<r.member, decode_score(r.score)>> \in Pairs
    <3>1. /\ r.member \in Fields /\ decode_score(r.score) \in zscore(k, r.member)
          /\ inside(Number(decode_score(r.score)))
      BY <1>1, <1>9
    <3> QED
      BY <3>1
  <2>2. ASSUME NEW p \in Pairs PROVE p \in Entries(found)
    <3>1. PICK x \in Fields : \E s \in zscore(k, x) : inside(Number(s)) /\ p = <<x, s>>
      OBVIOUS
    <3>2. PICK s \in zscore(k, x) : inside(Number(s)) /\ p = <<x, s>>
      BY <3>1
    <3>3. PICK r \in I : r.member = x /\ decode_score(r.score) = s
      BY <1>1
    <3>4. r \in found
      BY <1>9, <3>2, <3>3
    <3> QED
      BY <3>2, <3>3, <3>4 DEF Entries
  <2> HIDE DEF Pairs
  <2> QED
    BY <2>1, <2>2 DEF Entries
<1> QED
  BY <1>2, <1>10 DEF inside

-----------------------------------------------------------------------------
(* Deletions.                                                                *)

Justified ==
    \A k \in Keys : metas[k] # NoMeta /\ metas'[k] = NoMeta =>
        \/ Expired(metas[k])
        \/ \E t \in Threads : pc[t] = "flushWrite"
        \/ \E t \in Threads :
              /\ Key(t) = k /\ pc[t] = "delete"
              /\ \/ cmd[t].op = "del"
                 \/ cmd[t].op \in Removers /\ scan(k, metas[k].ver) = {}

(* logical_delete acts on a check that still holds, and nothing else but a   *)
(* flush deletes metadata.                                                   *)
LEMMA StepJustified ==
    ASSUME Serialised, NoRepeats, ContentInv, Next
    PROVE  Justified
<1> SUFFICES ASSUME NEW k \in Keys, metas[k] # NoMeta, metas'[k] = NoMeta
             PROVE  \/ Expired(metas[k])
                    \/ \E t \in Threads : pc[t] = "flushWrite"
                    \/ \E t \in Threads :
                          /\ Key(t) = k /\ pc[t] = "delete"
                          /\ \/ cmd[t].op = "del"
                             \/ cmd[t].op \in Removers /\ scan(k, metas[k].ver) = {}
  BY DEF Justified
<1>1. PICK t \in Threads : DeleteMeta(t) \/ FlushWrite(t) \/ PutMeta(t) \/ Commit(t)
  BY DEF Next, Start, Begin, Step, LoadMissing, LoadExpired, LoadFound, ForgetVersion, Overwrite,
     Alloc, Drawn, Register, Exec, FlushMeta, FlushSub, FlushIdx, FlushClear, WriteFails,
     CompactionDrop, compact, Restart, Boot, install_gc, RebuildKey, Serve, Tick, disk
<1>2. CASE FlushWrite(t)
  BY <1>2 DEF FlushWrite
<1>3. CASE DeleteMeta(t)
  <2>1. pc[t] \in {"expire", "delete"} /\ Running(t)
    BY <1>3 DEF DeleteMeta, Running
  <2>2. Control(t) /\ Knows(t)
    BY DEF ContentInv, MapInv, GcInv, TypeInv, ControlOK
  <2>3. Key(t) = k
    <3> DEFINE b == [NoBatch EXCEPT !.mdel = {Key(t)}]
    <3>1. b.mdel = {Key(t)} /\ b.mput = NoMeta /\ write(Key(t), b)
      BY <1>3 DEF DeleteMeta, NoBatch
    <3> HIDE DEF b
    <3> QED
      BY <3>1 DEF write
  <2>4. CASE pc[t] = "expire"
    BY <2>2, <2>3, <2>4 DEF Knows
  <2>5. CASE pc[t] = "delete"
    <3>1. cmd[t].op \in Removers \cup {"del"}
      BY <2>2, <2>5 DEF Control
    <3>2. Counted(type_for(cmd[t].op))
      BY DEF Counted, type_for, Composite
    <3> QED
      BY <2>2, <2>3, <2>5, <3>1, <3>2 DEF Knows
  <2> QED
    BY <2>1, <2>4, <2>5
<1>4. CASE PutMeta(t) \/ Commit(t)
  <2>1. Control(t) /\ pc[t] \in {"put", "commit", "empty"} /\ Running(t)
    BY <1>4 DEF PutMeta, Commit, ContentInv, MapInv, GcInv, TypeInv, ControlOK, Running
  <2>2. Key(t) \in Keys
    <3>1. cmd[t].op # "flush"
      BY <2>1 DEF Control, Creators, Removers
    <3> QED
      BY <2>1, <3>1, AtContent
  <2>3. PICK b : /\ write(Key(t), b) /\ b.mdel = {}
                 /\ b.mput \in Metas \/ b.mput = NoMeta
    <3>1. CASE PutMeta(t)
      <4> DEFINE b == [NoBatch EXCEPT !.mput = mem[t]]
      <4>1. b.mdel = {} /\ b.mput = mem[t] /\ write(Key(t), b) /\ mem[t] \in Metas
        BY <2>1, <3>1 DEF PutMeta, NoBatch, Control
      <4> HIDE DEF b
      <4> QED
        BY <4>1
    <3>2. CASE Commit(t)
      BY <2>1, <3>2 DEF Commit, Control
    <3> QED
      BY <1>4, <3>1, <3>2
  <2>4. /\ \A x \in Keys \ {Key(t)} : metas'[x] = metas[x]
        /\ metas'[Key(t)] = IF b.mput # NoMeta THEN b.mput ELSE metas[Key(t)]
    BY <2>2, <2>3, WriteMeta
  <2> QED
    BY <2>4
<1> QED
  BY <1>1, <1>2, <1>3, <1>4

-----------------------------------------------------------------------------
(* Theorems, for any number of keys, fields, values and threads, with        *)
(* commands serialised per key, no failing write and no clock that steps     *)
(* back; the process may stop at any moment when no command that writes      *)
(* twice is in use, and between commands otherwise.                          *)

(* What metadata says of every structure is what is on disk, in every        *)
(* reachable state.                                                          *)
THEOREM ContentHolds == Serialised /\ NoClockBack /\ CleanStops => (Spec => []ContentInv)
<1> SUFFICES ASSUME Serialised, NoClockBack, CleanStops PROVE Spec => []ContentInv
  OBVIOUS
<1>1. Init => ContentInv
  BY InitContent
<1>2. ContentInv /\ [Next]_vars => ContentInv'
  BY NextContent
<1> QED
  BY <1>1, <1>2, PTL DEF Spec

(* Between commands SCARD counts the members SMEMBERS returns and SISMEMBER  *)
(* accepts, and no set is empty, whatever members sadd and srem named twice. *)
THEOREM SetsReadTheSame ==
    Serialised /\ NoClockBack /\ CleanStops => (Spec => []SetReadsAgree)
<1> SUFFICES ASSUME Serialised, NoClockBack, CleanStops PROVE Spec => []SetReadsAgree
  OBVIOUS
<1>1. Spec => []ContentInv
  BY ContentHolds
<1>2. ContentInv => SetReadsAgree
  BY SetsAgree DEF SetReadsAgree, BetweenCommands
<1> QED
  BY <1>1, <1>2, PTL

(* Between commands HLEN, HGETALL and HEXISTS agree on every hash, when no   *)
(* call of hset or hdel names a field twice.                                 *)
THEOREM HashesReadTheSame ==
    Serialised /\ NoClockBack /\ CleanStops /\ NoRepeats => (Spec => []HashReadsAgree)
<1> SUFFICES ASSUME Serialised, NoClockBack, CleanStops, NoRepeats PROVE Spec => []HashReadsAgree
  OBVIOUS
<1>1. Spec => []ContentInv
  BY ContentHolds
<1>2. ContentInv => HashReadsAgree
  BY HashesAgree DEF HashReadsAgree, BetweenCommands
<1> QED
  BY <1>1, <1>2, PTL

(* Between commands a list has one element at every index between its bounds *)
(* and none outside, so LRANGE and a pop never meet a corruption error.      *)
THEOREM ListsReadTheSame ==
    Serialised /\ NoClockBack /\ CleanStops => (Spec => []ListReadsAgree)
<1> SUFFICES ASSUME Serialised, NoClockBack, CleanStops PROVE Spec => []ListReadsAgree
  OBVIOUS
<1>1. Spec => []ContentInv
  BY ContentHolds
<1>2. ContentInv => ListReadsAgree
  BY ListsAgree DEF ListReadsAgree, BetweenCommands
<1> QED
  BY <1>1, <1>2, PTL

(* Between commands the member records and the score index of a sorted set   *)
(* hold the same pairs, and ZCARD their number.                              *)
THEOREM ZSetsReadTheSame ==
    Serialised /\ NoClockBack /\ CleanStops => (Spec => []ZSetReadsAgree)
<1> SUFFICES ASSUME Serialised, NoClockBack, CleanStops PROVE Spec => []ZSetReadsAgree
  OBVIOUS
<1>1. Spec => []ContentInv
  BY ContentHolds
<1>2. ContentInv => ZSetReadsAgree
  BY ZSetsAgree DEF ZSetReadsAgree, BetweenCommands
<1> QED
  BY <1>1, <1>2, PTL

(* Between commands every rank below ZCARD has its member, and ZRANGE by     *)
(* rank splits a sorted set by score.                                        *)
THEOREM RanksSplitByScore ==
    Serialised /\ NoClockBack /\ CleanStops => (Spec => []ZSetRanksAgree)
<1> SUFFICES ASSUME Serialised, NoClockBack, CleanStops PROVE Spec => []ZSetRanksAgree
  OBVIOUS
<1>1. Spec => []ContentInv
  BY ContentHolds
<1>2. ContentInv => ZSetRanksAgree
  BY RanksAgree DEF ZSetRanksAgree, BetweenCommands
<1> QED
  BY <1>1, <1>2, PTL

(* Between commands ZRANGEBYSCORE, which stops at the first index record     *)
(* past its upper bound, finds exactly the members between its bounds.       *)
THEOREM ScoreRangesFindAll ==
    Serialised /\ NoClockBack /\ CleanStops => (Spec => []ScoreRangesExact)
<1> SUFFICES ASSUME Serialised, NoClockBack, CleanStops PROVE Spec => []ScoreRangesExact
  OBVIOUS
<1>1. Spec => []ContentInv
  BY ContentHolds
<1>2. ContentInv => ScoreRangesExact
  BY ScoreRangesAgree DEF ScoreRangesExact, BetweenCommands
<1> QED
  BY <1>1, <1>2, PTL

(* A key disappears only because its deadline has passed, DEL or FLUSH asked *)
(* for it, or a command took its last member.                                *)
THEOREM DeletionsAreJustified ==
    Serialised /\ NoClockBack /\ CleanStops /\ NoRepeats => (Spec => DeletionsJustified)
<1> SUFFICES ASSUME Serialised, NoClockBack, CleanStops, NoRepeats PROVE Spec => DeletionsJustified
  OBVIOUS
<1>1. Spec => []ContentInv
  BY ContentHolds
<1>2. ContentInv /\ [Next]_vars => [Justified]_vars
  BY StepJustified
<1>3. DeletionsJustified <=> [][Justified]_vars
  BY DEF DeletionsJustified, Justified
<1> QED
  BY <1>1, <1>2, <1>3, PTL DEF Spec
=============================================================================
