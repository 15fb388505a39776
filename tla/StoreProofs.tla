---------------------------- MODULE StoreProofs -----------------------------
(***************************************************************************)
(* What the body of every composite command hands to the engine: a batch   *)
(* that keeps the version and the type of the key, and records that are    *)
(* what the metadata it writes says.  Then type correctness of the store   *)
(* for every choice of the constants.                                      *)
(***************************************************************************)
EXTENDS StoreInvariant, FiniteSetTheorems, TLAPS

\* The records batch b puts belong to version ver of key k.
OwnRecords(b, k, ver) == \A r \in b.puts \cup b.iputs : r.key = k /\ r.ver = ver

(* A body writes the metadata it loaded under the same version and type, or  *)
(* writes no metadata and asks for logical_delete, or writes nothing; it     *)
(* never deletes metadata itself, and puts records of its structure only.    *)
GoodPlan(p, k, m, op) ==
    /\ p.to \in {"idle", "commit", "empty"}
    /\ p.batch \in Batches
    /\ p.batch.mdel = {}
    /\ OwnRecords(p.batch, k, m.ver)
    /\ p.to = "commit" =>
          p.batch.mput \in Metas /\ p.batch.mput.ver = m.ver /\ p.batch.mput.type = m.type
    /\ p.to = "empty" => p.batch.mput = NoMeta /\ op \in Removers

-----------------------------------------------------------------------------
(* The elements of a sequence are finitely many, and so are the positions    *)
(* and the elements a body picks; their numbers are naturals.                *)
LEMMA SeqFinite ==
    ASSUME NEW S, NEW s \in Seq(S)
    PROVE  /\ \A P \in SUBSET DOMAIN s : Cardinality(P) \in Nat
           /\ \A P \in SUBSET {s[i] : i \in DOMAIN s} : Cardinality(P) \in Nat
<1> DEFINE R == {s[i] : i \in DOMAIN s}
<1>1. DOMAIN s = 1 .. Len(s) /\ Len(s) \in Nat
  OBVIOUS
<1>2. IsFiniteSet(DOMAIN s)
  BY <1>1, FS_Interval
<1>3. s \in Surjection(DOMAIN s, R)
  BY DEF Surjection
<1>4. IsFiniteSet(R)
  BY <1>2, <1>3, FS_Surjection
<1> HIDE DEF R
<1>5. \A P \in SUBSET DOMAIN s : Cardinality(P) \in Nat
  BY <1>2, FS_Subset, FS_CardinalityType
<1>6. \A P \in SUBSET R : Cardinality(P) \in Nat
  BY <1>4, FS_Subset, FS_CardinalityType
<1> QED
  BY <1>5, <1>6 DEF R

(* What is in a sequence over S is in S.                                     *)
LEMMA SeqElement ==
    ASSUME NEW S, NEW s \in Seq(S), NEW i \in DOMAIN s
    PROVE  s[i] \in S
  OBVIOUS

(* The tail hdel, srem and zrem share keeps version and type.                *)
LEMMA ShrinkGood ==
    ASSUME NEW m \in Metas, NEW n \in Nat, NEW b \in Batches, NEW op \in Removers,
           NEW k, b.mdel = {}, b.mput = NoMeta, b.puts = {}, b.iputs = {}
    PROVE  GoodPlan(Shrink(m, n, b), k, m, op)
<1> DEFINE left == IF n > m.cnt THEN 0 ELSE m.cnt - n
           mm == [m EXCEPT !.cnt = left]
           bb == [b EXCEPT !.mput = mm]
<1>1. left \in Nat
  BY DEF Metas
<1>2. mm \in Metas /\ mm.ver = m.ver /\ mm.type = m.type
  BY <1>1 DEF Metas
<1>3. bb \in Batches /\ bb.mdel = {} /\ bb.mput = mm /\ bb.puts = {} /\ bb.iputs = {}
  BY <1>2 DEF Batches
<1>4. NoBatch \in Batches /\ NoBatch.mdel = {} /\ OwnRecords(NoBatch, k, m.ver)
  BY DEF Batches, NoBatch, OwnRecords
<1>a. OwnRecords(b, k, m.ver) /\ OwnRecords(bb, k, m.ver)
  BY <1>3 DEF OwnRecords
<1>5. CASE n = 0
  BY <1>4, <1>5 DEF Shrink, GoodPlan, NoWrite
<1>6. CASE n > 0 /\ left = 0
  BY <1>a, <1>6 DEF Shrink, GoodPlan, WriteLast
<1>7. CASE n > 0 /\ left # 0
  BY <1>2, <1>3, <1>a, <1>7 DEF Shrink, GoodPlan, Write
<1> QED
  BY <1>5, <1>6, <1>7

-----------------------------------------------------------------------------
(* The bodies, one lemma each.                                               *)

(* The batches the bodies build are batches, and delete no metadata.         *)
LEMMA BatchTyped ==
    /\ NoBatch \in Batches /\ NoBatch.mdel = {} /\ NoBatch.mput = NoMeta
    /\ NoBatch.puts = {} /\ NoBatch.iputs = {}
  BY DEF Batches, NoBatch

LEMMA PutsTyped ==
    ASSUME NEW mm \in Metas, NEW p \in SUBSET SubRecs,
           NEW x \in SUBSET IdxRecs, NEW y \in SUBSET IdxRecs,
           NEW b, b = Puts(mm, p, x, y)
    PROVE  b \in Batches /\ b.mdel = {} /\ b.mput = mm /\ b.puts = p /\ b.iputs = x
  BY DEF Batches, Puts

LEMMA DelsTyped ==
    ASSUME NEW d \in SUBSET SubRecs, NEW y \in SUBSET IdxRecs, NEW b, b = Dels(d, y)
    PROVE  b \in Batches /\ b.mdel = {} /\ b.mput = NoMeta /\ b.puts = {} /\ b.iputs = {}
  BY DEF Batches, Dels

LEMMA MetaCount ==
    ASSUME NEW m \in Metas, NEW n \in Nat
    PROVE  LET mm == [m EXCEPT !.cnt = m.cnt + n]
           IN  mm \in Metas /\ mm.ver = m.ver /\ mm.type = m.type
  BY DEF Metas

(* hset writes the fields it was given and the count under the loaded version. *)
LEMMA HsetGood ==
    ASSUME NEW k \in Keys, NEW m \in Metas, NEW a \in hset_args
    PROVE  GoodPlan(hset(k, m, a), k, m, "hset")
<1> DEFINE created == {i \in DOMAIN a : ~has(k, m.ver, a[i].field)}
           final == {i \in DOMAIN a : \A j \in DOMAIN a :
                         j > i => a[j].field # a[i].field}
           puts == {Sub(k, m.ver, a[i].field, a[i].val) : i \in final}
           mm == [m EXCEPT !.cnt = m.cnt + Cardinality(created)]
           b == Puts(mm, puts, {}, {})
<1>1. a \in Seq([field : Fields, val : Values])
  BY DEF hset_args, NonEmptySeq
<1>2. Cardinality(created) \in Nat
  BY <1>1, SeqFinite
<1>3. mm \in Metas /\ mm.ver = m.ver /\ mm.type = m.type
  BY <1>2, MetaCount
<1>4. \A i \in DOMAIN a : a[i].field \in Int /\ a[i].val \in SubVals
  <2> DEFINE Pair == [field : Fields, val : Values]
  <2>0. a \in Seq(Pair)
    BY <1>1
  <2> HIDE DEF Pair
  <2>1. \A i \in DOMAIN a : a[i] \in Pair
    BY <2>0, SeqElement
  <2> USE DEF Pair
  <2> QED
    BY <2>1, FieldsAssumption DEF SubVals
<1>5. puts \in SUBSET SubRecs
  BY <1>4 DEF SubRecs, Sub, Metas
<1>6. b \in Batches /\ b.mdel = {} /\ b.mput = mm /\ b.puts = puts /\ b.iputs = {}
  <2>1. b = Puts(mm, puts, {}, {}) /\ {} \in SUBSET IdxRecs
    OBVIOUS
  <2> HIDE DEF mm, puts, b
  <2> QED
    BY <1>3, <1>5, <2>1, PutsTyped
<1>7. hset(k, m, a) = [to |-> "commit", batch |-> b]
  BY DEF hset, Write
<1>8. \A r \in puts : r.key = k /\ r.ver = m.ver
  BY DEF Sub
<1> HIDE DEF b, mm, puts
<1> QED
  BY <1>3, <1>6, <1>7, <1>8 DEF GoodPlan, OwnRecords

(* hdel deletes records of the loaded version only.                          *)
LEMMA HdelGood ==
    ASSUME NEW k \in Keys, NEW m \in Metas, NEW a \in hdel_args, subs \subseteq SubRecs
    PROVE  GoodPlan(hdel(k, m, a), k, m, "hdel")
<1> DEFINE removed == {i \in DOMAIN a : has(k, m.ver, a[i])}
           dels == {r \in scan(k, m.ver) : \E i \in removed : a[i] = r.field}
           b == Dels(dels, {})
<1>1. Cardinality(removed) \in Nat
  BY SeqFinite DEF hdel_args, NonEmptySeq
<1>2. b \in Batches /\ b.mdel = {} /\ b.mput = NoMeta /\ b.puts = {} /\ b.iputs = {}
  BY DelsTyped DEF scan
<1>3. hdel(k, m, a) = Shrink(m, Cardinality(removed), b)
  BY DEF hdel
<1> HIDE DEF removed, b
<1> QED
  BY <1>1, <1>2, <1>3, ShrinkGood DEF Removers

(* sadd writes the members it adds and the count under the loaded version.   *)
LEMMA SaddGood ==
    ASSUME NEW k \in Keys, NEW m \in Metas, NEW a \in sadd_args
    PROVE  GoodPlan(sadd(k, m, a), k, m, "sadd")
<1> DEFINE added == {x \in {a[i] : i \in DOMAIN a} : ~has(k, m.ver, x)}
           puts == {Sub(k, m.ver, x, NoVal) : x \in added}
           mm == [m EXCEPT !.cnt = m.cnt + Cardinality(added)]
           b == Puts(mm, puts, {}, {})
<1>1. a \in Seq(Fields)
  BY DEF sadd_args, NonEmptySeq
<1>2. Cardinality(added) \in Nat
  BY <1>1, SeqFinite
<1>3. mm \in Metas /\ mm.ver = m.ver /\ mm.type = m.type
  BY <1>2, MetaCount
<1>4. puts \in SUBSET SubRecs
  <2>0. \A i \in DOMAIN a : a[i] \in Fields
    BY <1>1
  <2>1. \A x \in added : x \in Int
    BY <2>0, FieldsAssumption
  <2> HIDE DEF added
  <2> QED
    BY <2>1 DEF SubRecs, Sub, Metas, SubVals
<1>5. b \in Batches /\ b.mdel = {} /\ b.mput = mm /\ b.puts = puts /\ b.iputs = {}
  <2>1. b = Puts(mm, puts, {}, {}) /\ {} \in SUBSET IdxRecs
    OBVIOUS
  <2> HIDE DEF mm, puts, b
  <2> QED
    BY <1>3, <1>4, <2>1, PutsTyped
<1>a. \A r \in puts : r.key = k /\ r.ver = m.ver
  BY DEF Sub
<1>6. sadd(k, m, a) = IF added = {} THEN NoWrite ELSE [to |-> "commit", batch |-> b]
  BY DEF sadd, Write
<1> HIDE DEF b, mm, puts, added
<1>7. CASE added = {}
  BY <1>6, <1>7, BatchTyped DEF GoodPlan, NoWrite, OwnRecords
<1>8. CASE added # {}
  BY <1>3, <1>5, <1>a, <1>6, <1>8 DEF GoodPlan, OwnRecords
<1> QED
  BY <1>7, <1>8

(* srem deletes records of the loaded version only.                          *)
LEMMA SremGood ==
    ASSUME NEW k \in Keys, NEW m \in Metas, NEW a \in srem_args, subs \subseteq SubRecs
    PROVE  GoodPlan(srem(k, m, a), k, m, "srem")
<1> DEFINE removed == {x \in {a[i] : i \in DOMAIN a} : has(k, m.ver, x)}
           dels == {r \in scan(k, m.ver) : r.field \in removed}
           b == Dels(dels, {})
<1>1. Cardinality(removed) \in Nat
  BY SeqFinite DEF srem_args, NonEmptySeq
<1>2. b \in Batches /\ b.mdel = {} /\ b.mput = NoMeta /\ b.puts = {} /\ b.iputs = {}
  BY DelsTyped DEF scan
<1>3. srem(k, m, a) = Shrink(m, Cardinality(removed), b)
  BY DEF srem
<1> HIDE DEF removed, b
<1> QED
  BY <1>1, <1>2, <1>3, ShrinkGood DEF Removers

(* zrem deletes records of the loaded version only, in both families.        *)
LEMMA ZremGood ==
    ASSUME NEW k \in Keys, NEW m \in Metas, NEW a \in zrem_args, subs \subseteq SubRecs
    PROVE  GoodPlan(zrem(k, m, a), k, m, "zrem")
<1> DEFINE removed == {x \in {a[i] : i \in DOMAIN a} : has(k, m.ver, x)}
           recs == {r \in scan(k, m.ver) : r.field \in removed}
           idels == {Idx(k, m.ver, r.val, r.field) : r \in recs}
           b == Dels(recs, idels)
<1>1. Cardinality(removed) \in Nat
  BY SeqFinite DEF zrem_args, NonEmptySeq
<1>2. recs \in SUBSET SubRecs
  BY DEF scan
<1>3. idels \in SUBSET IdxRecs
  <2> HIDE DEF recs
  <2> QED
    BY <1>2 DEF SubRecs, IdxRecs, Idx, Metas
<1>4. b \in Batches /\ b.mdel = {} /\ b.mput = NoMeta /\ b.puts = {} /\ b.iputs = {}
  <2> HIDE DEF recs, idels
  <2> QED
    BY <1>2, <1>3, DelsTyped
<1>5. zrem(k, m, a) \in {NoWrite, Shrink(m, Cardinality(removed), b)}
  BY DEF zrem
<1> HIDE DEF removed, b
<1>6. CASE zrem(k, m, a) = NoWrite
  BY <1>6, BatchTyped DEF GoodPlan, NoWrite, OwnRecords
<1>7. CASE zrem(k, m, a) = Shrink(m, Cardinality(removed), b)
  BY <1>1, <1>4, <1>7, ShrinkGood DEF Removers
<1> QED
  BY <1>5, <1>6, <1>7

(* An encoded score is an integer.                                           *)
LEMMA CodeTyped == \A s \in Scores : encode_score(s) \in Int
  BY SignBitAssumption DEF Scores, encode_score

(* zadd writes both records of the members it adds or moves, and the count,   *)
(* under the loaded version.                                                 *)
LEMMA ZaddGood ==
    ASSUME NEW k \in Keys, NEW m \in Metas, NEW a \in zadd_args, subs \subseteq SubRecs
    PROVE  GoodPlan(zadd(k, m, a), k, m, "zadd")
<1> DEFINE Pair == [score : Scores, member : Fields]
           old(p) == Stored(k, m.ver, p.member)
           added == {p \in effective(a) : old(p) = {}}
           moved == {p \in effective(a) : \E r \in old(p) : ~same_score(r.val, p.score)}
           put == added \cup moved
           puts == {Sub(k, m.ver, p.member, encode_score(p.score)) : p \in put}
           iputs == {Idx(k, m.ver, encode_score(p.score), p.member) : p \in put}
           idels == stale_index(k, m.ver, moved)
           mm == [m EXCEPT !.cnt = m.cnt + Cardinality(added)]
           b == Puts(mm, puts, iputs, idels)
<1>1. a \in Seq(Pair)
  BY DEF zadd_args, NonEmptySeq
<1>2. effective(a) \subseteq {a[i] : i \in DOMAIN a}
  BY DEF effective
<1>3. Cardinality(added) \in Nat
  <2> HIDE DEF Pair, old
  <2> QED
    BY <1>1, <1>2, SeqFinite
<1>4. mm \in Metas /\ mm.ver = m.ver /\ mm.type = m.type
  <2> HIDE DEF added
  <2> QED
    BY <1>3, MetaCount
<1>5. put \subseteq Pair
  <2> HIDE DEF Pair, old
  <2> QED
    BY <1>1, <1>2, SeqElement
<1>6. puts \in SUBSET SubRecs /\ iputs \in SUBSET IdxRecs
  <2> HIDE DEF put
  <2>1. \A p \in put : p.member \in Int /\ encode_score(p.score) \in SubVals
    <3>1. \A p \in put : p.member \in Fields /\ p.score \in Scores
      BY <1>5
    <3>2. \A p \in put : encode_score(p.score) \in Int
      BY <3>1, CodeTyped
    <3> QED
      BY <3>1, <3>2, FieldsAssumption DEF SubVals
  <2> QED
    BY <2>1 DEF SubRecs, IdxRecs, Sub, Idx, Metas
<1>7. idels \in SUBSET IdxRecs
  <2> DEFINE recs == UNION {Stored(k, m.ver, p.member) : p \in moved}
  <2>1. recs \subseteq SubRecs
    BY DEF Stored, scan
  <2>2. idels = {Idx(k, m.ver, r.val, r.field) : r \in recs}
    BY DEF stale_index
  <2> HIDE DEF recs, idels
  <2> QED
    BY <2>1, <2>2 DEF SubRecs, IdxRecs, Idx, Metas
<1>8. b \in Batches /\ b.mdel = {} /\ b.mput = mm /\ b.puts = puts /\ b.iputs = iputs
  <2> HIDE DEF mm, puts, iputs, idels
  <2> QED
    BY <1>4, <1>6, <1>7, PutsTyped
<1>9. zadd(k, m, a) \in {NoWrite, [to |-> "commit", batch |-> b]}
  BY DEF zadd, Write
<1>a. \A r \in puts \cup iputs : r.key = k /\ r.ver = m.ver
  <2> HIDE DEF put
  <2> QED
    BY DEF Sub, Idx
<1> HIDE DEF b, mm, put, puts, iputs, added
<1>10. CASE zadd(k, m, a) = NoWrite
  BY <1>10, BatchTyped DEF GoodPlan, NoWrite, OwnRecords
<1>11. CASE zadd(k, m, a) = [to |-> "commit", batch |-> b]
  BY <1>4, <1>8, <1>a, <1>11 DEF GoodPlan, OwnRecords
<1> QED
  BY <1>9, <1>10, <1>11

(* push writes elements and the moved end under the loaded version.          *)
LEMMA PushGood ==
    ASSUME NEW k \in Keys, NEW m \in Metas, NEW a \in push_args,
           NEW left \in BOOLEAN, NEW op
    PROVE  GoodPlan(push(k, m, a, left), k, m, op)
<1> DEFINE n == Len(a)
           at(i) == IF left THEN m.head - i ELSE m.tail + i - 1
           puts == {Sub(k, m.ver, at(i), a[i]) : i \in 1..n}
           mm == IF left THEN [m EXCEPT !.head = m.head - n]
                         ELSE [m EXCEPT !.tail = m.tail + n]
           b == Puts(mm, puts, {}, {})
<1>1. a \in Seq(Values) /\ n \in Nat /\ DOMAIN a = 1..n
  BY DEF push_args, NonEmptySeq
<1>2. mm \in Metas /\ mm.ver = m.ver /\ mm.type = m.type
  <2> HIDE DEF n
  <2> QED
    BY <1>1 DEF Metas
<1>3. \A i \in 1..n : at(i) \in Int /\ a[i] \in SubVals
  <2>1. \A i \in 1..n : a[i] \in Values
    BY <1>1, SeqElement
  <2> HIDE DEF n
  <2> QED
    BY <1>1, <2>1 DEF Metas, SubVals
<1>4. puts \in SUBSET SubRecs
  <2> HIDE DEF at, n
  <2> QED
    BY <1>3 DEF SubRecs, Sub, Metas
<1>5. b \in Batches /\ b.mdel = {} /\ b.mput = mm /\ b.puts = puts /\ b.iputs = {}
  <2>1. b = Puts(mm, puts, {}, {}) /\ {} \in SUBSET IdxRecs
    OBVIOUS
  <2>2. mm \in Metas
    BY <1>2
  <2> HIDE DEF mm, puts, b
  <2> QED
    BY <1>4, <2>1, <2>2, PutsTyped
<1>6. push(k, m, a, left) = [to |-> "commit", batch |-> b]
  BY DEF push, Write
<1>7. \A r \in puts : r.key = k /\ r.ver = m.ver
  BY DEF Sub
<1> HIDE DEF b, mm, puts
<1> QED
  BY <1>2, <1>5, <1>6, <1>7 DEF GoodPlan, OwnRecords

(* pop deletes elements of the loaded version and moves one end.             *)
LEMMA PopGood ==
    ASSUME NEW k \in Keys, NEW m \in Metas, NEW count \in Nat,
           NEW left \in BOOLEAN, NEW op \in Removers, subs \subseteq SubRecs
    PROVE  GoodPlan(pop(k, m, count, left), k, m, op)
<1> DEFINE len == m.tail - m.head
           n == IF count < len THEN count ELSE len
           popped == IF left THEN m.head .. m.head + n - 1 ELSE m.tail - n .. m.tail - 1
           rest == IF left THEN [m EXCEPT !.head = m.head + n]
                           ELSE [m EXCEPT !.tail = m.tail - n]
           b == Dels({r \in scan(k, m.ver) : r.field \in popped}, {})
           bb == [b EXCEPT !.mput = rest]
           torn == \E i \in popped : ~has(k, m.ver, i)
<1>1. rest \in Metas /\ rest.ver = m.ver /\ rest.type = m.type
  <2>1. m.head \in Int /\ m.tail \in Int /\ n \in Int
    BY DEF Metas
  <2> HIDE DEF n
  <2> QED
    BY <2>1 DEF Metas
<1>2. b \in Batches /\ b.mdel = {} /\ b.mput = NoMeta /\ b.puts = {} /\ b.iputs = {}
  <2> HIDE DEF popped
  <2> QED
    BY DelsTyped DEF scan
<1>3. bb \in Batches /\ bb.mdel = {} /\ bb.mput = rest /\ bb.puts = {} /\ bb.iputs = {}
  <2> HIDE DEF b, rest
  <2> QED
    BY <1>1, <1>2 DEF Batches
<1>4. pop(k, m, count, left) \in
         {NoWrite, [to |-> "empty", batch |-> b], [to |-> "commit", batch |-> bb]}
  <2> DEFINE p == IF popped = {} \/ torn THEN NoWrite
                  ELSE IF n = len THEN [to |-> "empty", batch |-> b]
                  ELSE [to |-> "commit", batch |-> bb]
  <2>1. pop(k, m, count, left) = p
    BY DEF pop, Write, WriteLast
  <2> HIDE DEF popped, torn, n, len, b, bb
  <2>2. p \in {NoWrite, [to |-> "empty", batch |-> b], [to |-> "commit", batch |-> bb]}
    OBVIOUS
  <2> QED
    BY <2>1, <2>2
<1> HIDE DEF b, bb, rest
<1>5. GoodPlan(NoWrite, k, m, op)
  BY BatchTyped DEF GoodPlan, NoWrite, OwnRecords
<1>6. GoodPlan([to |-> "empty", batch |-> b], k, m, op)
  BY <1>2 DEF GoodPlan, OwnRecords
<1>7. GoodPlan([to |-> "commit", batch |-> bb], k, m, op)
  BY <1>1, <1>3 DEF GoodPlan, OwnRecords
<1> QED
  BY <1>4, <1>5, <1>6, <1>7

-----------------------------------------------------------------------------
(* Every body, whatever the operation and its arguments.                     *)
LEMMA PlanGood ==
    ASSUME NEW op \in Creators \cup Removers, NEW k \in Keys, NEW m \in Metas,
           NEW a \in Args[op], subs \subseteq SubRecs
    PROVE  GoodPlan(Plan(op, k, m, a), k, m, op)
<1>1. CASE op = "hset"
  BY <1>1, HsetGood, ArgsAssumption DEF Plan
<1>2. CASE op = "hdel"
  BY <1>2, HdelGood, ArgsAssumption DEF Plan
<1>3. CASE op = "sadd"
  BY <1>3, SaddGood, ArgsAssumption DEF Plan
<1>4. CASE op = "srem"
  BY <1>4, SremGood, ArgsAssumption DEF Plan
<1>5. CASE op = "zadd"
  BY <1>5, ZaddGood, ArgsAssumption DEF Plan
<1>6. CASE op = "zrem"
  BY <1>6, ZremGood, ArgsAssumption DEF Plan
<1>7. CASE op = "lpush"
  BY <1>7, PushGood, ArgsAssumption DEF Plan
<1>8. CASE op = "rpush"
  BY <1>8, PushGood, ArgsAssumption DEF Plan
<1>9. CASE op = "lpop"
  BY <1>9, PopGood, ArgsAssumption DEF Plan, Removers, pop_args
<1>10. CASE op = "rpop"
  BY <1>10, PopGood, ArgsAssumption DEF Plan, Removers, pop_args
<1> QED
  BY <1>1, <1>2, <1>3, <1>4, <1>5, <1>6, <1>7, <1>8, <1>9, <1>10 DEF Creators, Removers

-----------------------------------------------------------------------------
(* Counting the records of a structure.                                      *)

FieldsOf(S) == {r.field : r \in S}

OnePer(S) == \A r, s \in S : r.field = s.field => r = s

(* A one-to-one correspondence keeps finiteness and number.                  *)
LEMMA Counting ==
    ASSUME NEW S, NEW T, IsFiniteSet(S), NEW f, f \in [S -> T],
           \A y \in T : \E x \in S : f[x] = y,
           \A x, y \in S : f[x] = f[y] => x = y
    PROVE  IsFiniteSet(T) /\ Cardinality(T) = Cardinality(S)
<1>1. f \in Surjection(S, T)
  BY DEF Surjection
<1>2. f \in Injection(S, T)
  BY DEF Injection, IsInjective
<1>3. ExistsBijection(S, T)
  BY <1>1, <1>2, Zenon DEF ExistsBijection, Bijection
<1> QED
  BY <1>3, FS_Bijection

(* Records with different fields are as many as their fields.                *)
LEMMA FieldCount ==
    ASSUME NEW S, IsFiniteSet(S), OnePer(S)
    PROVE  IsFiniteSet(FieldsOf(S)) /\ Cardinality(FieldsOf(S)) = Cardinality(S)
<1> DEFINE f == [r \in S |-> r.field]
<1>1. f \in [S -> FieldsOf(S)]
  BY DEF FieldsOf
<1>2. \A y \in FieldsOf(S) : \E x \in S : f[x] = y
  BY DEF FieldsOf
<1>3. \A x, y \in S : f[x] = f[y] => x = y
  BY DEF OnePer
<1> HIDE DEF f
<1> QED
  BY <1>1, <1>2, <1>3, Counting

(* The image of a finite set under a function.                               *)
LEMMA ImageFinite ==
    ASSUME NEW S, NEW T, IsFiniteSet(S), NEW f, f \in [S -> T],
           \A y \in T : \E x \in S : f[x] = y
    PROVE  IsFiniteSet(T)
<1>1. f \in Surjection(S, T)
  BY DEF Surjection
<1> QED
  BY <1>1, FS_Surjection

(* The elements of a sequence are finitely many.                             *)
LEMMA SeqImage ==
    ASSUME NEW S, NEW s \in Seq(S)
    PROVE  IsFiniteSet({s[i] : i \in DOMAIN s})
<1> DEFINE T == {s[i] : i \in DOMAIN s}
<1>1. DOMAIN s = 1 .. Len(s) /\ Len(s) \in Nat
  OBVIOUS
<1>2. IsFiniteSet(DOMAIN s)
  BY <1>1, FS_Interval
<1>3. s \in [DOMAIN s -> T] /\ \A y \in T : \E i \in DOMAIN s : s[i] = y
  OBVIOUS
<1> HIDE DEF T
<1>4. IsFiniteSet(T)
  BY <1>2, <1>3, ImageFinite
<1> QED
  BY <1>4 DEF T

(* engine.get finds a field iff the scan has it.                             *)
LEMMA HasField == \A k, v, f : has(k, v, f) <=> f \in FieldsOf(scan(k, v))
  BY DEF has, scan, FieldsOf

(* A batch that puts records of the structure S: they replace the records of *)
(* the same field, and the others stay.                                      *)
LEMMA PutsFit ==
    ASSUME NEW S, NEW b, IsFiniteSet(S), IsFiniteSet(b.puts),
           OnePer(S), OnePer(b.puts), b.dels = {},
           \A r, s \in S \cup b.puts : r.key = s.key /\ r.ver = s.ver
    PROVE  LET R == SubsAfter(S, b) IN
           /\ R = {r \in S : r.field \notin FieldsOf(b.puts)} \cup b.puts
           /\ IsFiniteSet(R) /\ OnePer(R)
           /\ FieldsOf(R) = FieldsOf(S) \cup FieldsOf(b.puts)
           /\ Cardinality(R) = Cardinality(S) + Cardinality(FieldsOf(b.puts) \ FieldsOf(S))
<1> DEFINE P == b.puts
           kept == {r \in S : r.field \notin FieldsOf(P)}
           R == SubsAfter(S, b)
           F == FieldsOf(S)
           N == FieldsOf(P) \ FieldsOf(S)
<1>1. R = kept \cup P
  BY DEF SubsAfter, SameSub, FieldsOf
<1>2. IsFiniteSet(kept)
  BY FS_Subset
<1>3. IsFiniteSet(R)
  BY <1>1, <1>2, FS_Union
<1>4. OnePer(R)
  BY <1>1 DEF OnePer, FieldsOf
<1>5. FieldsOf(R) = FieldsOf(S) \cup FieldsOf(P)
  BY <1>1 DEF FieldsOf
<1>6. Cardinality(R) = Cardinality(S) + Cardinality(N)
  <2>1. IsFiniteSet(F) /\ Cardinality(F) = Cardinality(S) /\ IsFiniteSet(FieldsOf(P))
    BY FieldCount
  <2>2. Cardinality(R) = Cardinality(FieldsOf(R))
    BY <1>3, <1>4, FieldCount
  <2>3. FieldsOf(R) = F \cup N /\ F \cap N = {}
    BY <1>5
  <2>4. IsFiniteSet(N) /\ Cardinality(N) \in Nat /\ Cardinality(F) \in Nat
    BY <2>1, FS_Difference, FS_CardinalityType
  <2> HIDE DEF F, N
  <2>5. Cardinality(F \cup N) = Cardinality(F) + Cardinality(N) - Cardinality({})
    BY <2>1, <2>3, <2>4, FS_Union
  <2>6. Cardinality({}) = 0
    BY FS_EmptySet
  <2> QED
    BY <2>1, <2>2, <2>3, <2>4, <2>5, <2>6
<1> QED
  BY <1>1, <1>3, <1>4, <1>5, <1>6

(* A batch that deletes records of the structure S and puts none.            *)
LEMMA DelsFit ==
    ASSUME NEW S, NEW b, IsFiniteSet(S), OnePer(S), b.puts = {}, b.dels \subseteq S,
           \A r, s \in S : r.key = s.key /\ r.ver = s.ver
    PROVE  LET R == SubsAfter(S, b) IN
           /\ R = S \ b.dels
           /\ IsFiniteSet(R) /\ OnePer(R)
           /\ Cardinality(R) = Cardinality(S) - Cardinality(b.dels)
           /\ Cardinality(b.dels) = Cardinality(FieldsOf(b.dels))
           /\ Cardinality(b.dels) \in Nat /\ Cardinality(S) \in Nat /\ Cardinality(R) \in Nat
<1> DEFINE D == b.dels
           R == SubsAfter(S, b)
<1>1. R = S \ D
  BY DEF SubsAfter, SameSub, OnePer
<1>2. IsFiniteSet(D) /\ OnePer(D)
  BY FS_Subset DEF OnePer
<1>3. OnePer(S \ D) /\ IsFiniteSet(S \ D)
  <2>1. OnePer(S \ D)
    BY DEF OnePer
  <2> QED
    BY <2>1, FS_Difference
<1>4. Cardinality(S \ D) = Cardinality(S) - Cardinality(S \cap D) /\ S \cap D = D
  BY FS_Difference
<1>5. Cardinality(D) = Cardinality(FieldsOf(D))
  BY <1>2, FieldCount
<1> HIDE DEF R, D
<1> QED
  BY <1>1, <1>2, <1>3, <1>4, <1>5, FS_CardinalityType DEF D, R

-----------------------------------------------------------------------------
(* Batches and bodies.                                                       *)

(* A batch that is written leaves the structure its metadata describes, and  *)
(* one that takes the last member leaves none.                               *)
BodyKeeps(p, k, m) ==
    LET S == SubsAfter(scan(k, m.ver), p.batch)
        I == IndexAfter(scan_index(k, m.ver), p.batch)
    IN  /\ p.to = "commit" => Fits(S, I, p.batch.mput) /\ S # {}
        /\ p.to = "empty" => S = {}

(* The structure metadata copy m describes is the one on disk.               *)
Describes(k, m) ==
    /\ m \in Metas /\ Fits(scan(k, m.ver), scan_index(k, m.ver), m)
    /\ subs \subseteq SubRecs /\ index \subseteq IdxRecs

LEMMA ScanOwn ==
    ASSUME NEW k, NEW v
    PROVE  /\ \A r \in scan(k, v) : r \in subs /\ r.key = k /\ r.ver = v
           /\ \A r \in scan_index(k, v) : r \in index /\ r.key = k /\ r.ver = v
  BY DEF scan, scan_index

(* The structures that count their members: the count follows the fields.    *)
LEMMA PutsKeep ==
    ASSUME NEW k \in Keys, NEW m, Describes(k, m), m.type \in {"hash", "set"},
           NEW P, IsFiniteSet(P), OnePer(P), P # {},
           \A r \in P : r.key = k /\ r.ver = m.ver /\ r.field \in Fields,
           NEW n \in Nat, n = Cardinality(FieldsOf(P) \ FieldsOf(scan(k, m.ver)))
    PROVE  BodyKeeps(Write(Puts([m EXCEPT !.cnt = m.cnt + n], P, {}, {})), k, m)
<1> DEFINE S == scan(k, m.ver)
           mm == [m EXCEPT !.cnt = m.cnt + n]
           b == Puts(mm, P, {}, {})
           R == SubsAfter(S, b)
<1>1. b.puts = P /\ b.dels = {} /\ b.mput = mm
  BY DEF Puts
<1>2. mm.cnt = m.cnt + n /\ mm.type = m.type
  BY DEF Describes, Metas
<1>3. /\ IsFiniteSet(S) /\ OnePer(S) /\ m.cnt = Cardinality(S)
      /\ \A r \in S : r.field \in Fields
  BY DEF Describes, Fits, OnePer
<1>4. \A r \in S \cup P : r.key = k /\ r.ver = m.ver
  BY ScanOwn
<1>5. Write(b).to = "commit" /\ Write(b).batch = b
  BY DEF Write
<1> HIDE DEF S, mm, b
<1>6. /\ R = {r \in S : r.field \notin FieldsOf(P)} \cup P
      /\ IsFiniteSet(R) /\ OnePer(R)
      /\ Cardinality(R) = Cardinality(S) + Cardinality(FieldsOf(P) \ FieldsOf(S))
  <2>1. /\ IsFiniteSet(b.puts) /\ OnePer(b.puts) /\ b.dels = {}
        /\ \A r, s \in S \cup b.puts : r.key = s.key /\ r.ver = s.ver
    BY <1>1, <1>4
  <2>2. LET RR == SubsAfter(S, b) IN
        /\ RR = {r \in S : r.field \notin FieldsOf(b.puts)} \cup b.puts
        /\ IsFiniteSet(RR) /\ OnePer(RR)
        /\ FieldsOf(RR) = FieldsOf(S) \cup FieldsOf(b.puts)
        /\ Cardinality(RR) = Cardinality(S) + Cardinality(FieldsOf(b.puts) \ FieldsOf(S))
    BY <1>3, <2>1, PutsFit
  <2> QED
    BY <1>1, <2>2
<1>7. mm.cnt = Cardinality(R)
  BY <1>2, <1>3, <1>6 DEF S
<1>8. \A r \in R : r.field \in Fields
  BY <1>3, <1>6
<1>9. R # {}
  BY <1>6
<1> HIDE DEF R
<1>10. Fits(R, IndexAfter(scan_index(k, m.ver), b), mm)
  BY <1>2, <1>6, <1>7, <1>8 DEF Fits, OnePer
<1> QED
  BY <1>1, <1>5, <1>9, <1>10 DEF BodyKeeps, R, S, b, mm

(* The tail hdel, srem and zrem share.                                       *)
LEMMA ShrinkKeeps ==
    ASSUME NEW k \in Keys, NEW m, Describes(k, m), m.type \in {"hash", "set", "zset"},
           NEW D \in SUBSET scan(k, m.ver), NEW X,
           m.type = "zset" => X = {Idx(r.key, r.ver, r.val, r.field) : r \in D}
    PROVE  BodyKeeps(Shrink(m, Cardinality(D), Dels(D, X)), k, m)
<1> DEFINE S == scan(k, m.ver)
           I == scan_index(k, m.ver)
           n == Cardinality(D)
           left == IF n > m.cnt THEN 0 ELSE m.cnt - n
           b == Dels(D, X)
           bb == [b EXCEPT !.mput = [m EXCEPT !.cnt = left]]
           R == S \ D
<1>1. /\ IsFiniteSet(S) /\ OnePer(S) /\ m.cnt = Cardinality(S)
      /\ \A r \in S : r.field \in Fields
  BY DEF Describes, Fits, OnePer
<1>2. \A r, s \in S : r.key = s.key /\ r.ver = s.ver
  BY ScanOwn
<1>3. b.puts = {} /\ b.dels = D /\ b.iputs = {} /\ b.idels = X
  BY DEF Dels
<1>4. bb.puts = {} /\ bb.dels = D /\ bb.iputs = {} /\ bb.idels = X /\ bb.mput = [m EXCEPT !.cnt = left]
  BY DEF Dels
<1>5. /\ SubsAfter(S, b) = R /\ IsFiniteSet(R) /\ OnePer(R)
      /\ Cardinality(R) = Cardinality(S) - Cardinality(D)
      /\ Cardinality(D) \in Nat /\ Cardinality(S) \in Nat /\ Cardinality(R) \in Nat
  <2> HIDE DEF S, b
  <2>1. b.dels \subseteq S
    BY <1>3 DEF S
  <2>2. LET RR == SubsAfter(S, b) IN
        /\ RR = S \ b.dels
        /\ IsFiniteSet(RR) /\ OnePer(RR)
        /\ Cardinality(RR) = Cardinality(S) - Cardinality(b.dels)
        /\ Cardinality(b.dels) = Cardinality(FieldsOf(b.dels))
        /\ Cardinality(b.dels) \in Nat /\ Cardinality(S) \in Nat /\ Cardinality(RR) \in Nat
    BY <1>1, <1>2, <1>3, <2>1, DelsFit
  <2> QED
    BY <1>3, <2>2
<1>6. SubsAfter(S, bb) = R
  BY <1>3, <1>4, <1>5 DEF SubsAfter
<1>7. left = Cardinality(R)
  BY <1>1, <1>5
<1>8. CASE n = 0
  BY <1>8 DEF Shrink, NoWrite, BodyKeeps
<1>9. CASE n > 0 /\ left = 0
  <2>1. Shrink(m, n, b).to = "empty" /\ Shrink(m, n, b).batch = b
    BY <1>9 DEF Shrink, WriteLast
  <2>2. R = {}
    BY <1>5, <1>7, <1>9, FS_EmptySet
  <2> HIDE DEF b, n, R
  <2> QED
    BY <1>5, <2>1, <2>2 DEF BodyKeeps, b, n
<1>10. CASE n > 0 /\ left # 0
  <2>1. Shrink(m, n, b).to = "commit" /\ Shrink(m, n, b).batch = bb
    BY <1>10 DEF Shrink, Write
  <2>2. R # {}
    BY <1>5, <1>7, <1>10, FS_EmptySet
  <2>3. \A r \in R : r.field \in Fields
    BY <1>1
  <2>4. [m EXCEPT !.cnt = left].cnt = left /\ [m EXCEPT !.cnt = left].type = m.type
    BY DEF Describes, Metas
  <2>5. m.type = "zset" =>
           /\ \A r \in R : r.val \in Scores
           /\ IndexAfter(I, bb) = {Idx(r.key, r.ver, r.val, r.field) : r \in R}
    <3> SUFFICES ASSUME m.type = "zset"
                 PROVE  /\ \A r \in R : r.val \in Scores
                        /\ IndexAfter(I, bb) = {Idx(r.key, r.ver, r.val, r.field) : r \in R}
      OBVIOUS
    <3>1. /\ \A r \in S : r.val \in Scores
          /\ I = {Idx(r.key, r.ver, r.val, r.field) : r \in S}
      BY DEF Describes, Fits
    <3>2. X = {Idx(r.key, r.ver, r.val, r.field) : r \in D} /\ IndexAfter(I, bb) = I \ X
      BY <1>4 DEF IndexAfter
    <3>3. \A r, s \in S : Idx(r.key, r.ver, r.val, r.field) = Idx(s.key, s.ver, s.val, s.field) => r = s
      BY <1>1 DEF OnePer, Idx
    <3> HIDE DEF S, I, bb
    <3>4. D \subseteq S
      BY DEF S
    <3> DEFINE g(r) == Idx(r.key, r.ver, r.val, r.field)
    <3>5. \A r, s \in S : g(r) = g(s) => r = s
      BY <3>3
    <3>6. I = {g(r) : r \in S} /\ X = {g(r) : r \in D}
      BY <3>1, <3>2
    <3> HIDE DEF g
    <3>7. I \ X = {g(r) : r \in S \ D}
      BY <3>4, <3>5, <3>6
    <3> QED
      BY <3>1, <3>2, <3>7 DEF g
  <2> HIDE DEF b, n, R, bb, I, S, left
  <2>6. Fits(R, IndexAfter(I, bb), bb.mput)
    BY <1>4, <1>5, <1>7, <2>3, <2>4, <2>5 DEF Fits, OnePer
  <2> QED
    BY <1>6, <2>1, <2>2, <2>6 DEF BodyKeeps, b, n, I, S
<1> QED
  BY <1>5, <1>8, <1>9, <1>10

(* sadd counts every member it adds once.                                    *)
LEMMA SaddKeeps ==
    ASSUME NEW k \in Keys, NEW m, Describes(k, m), m.type = "set", NEW a \in sadd_args
    PROVE  BodyKeeps(sadd(k, m, a), k, m)
<1> DEFINE A == {x \in {a[i] : i \in DOMAIN a} : ~has(k, m.ver, x)}
           P == {Sub(k, m.ver, x, NoVal) : x \in A}
           F == FieldsOf(scan(k, m.ver))
<1>1. a \in Seq(Fields)
  BY DEF sadd_args, NonEmptySeq
<1>2. A \subseteq {a[i] : i \in DOMAIN a} /\ A \cap F = {}
  BY HasField
<1>3. IsFiniteSet(A) /\ A \subseteq Fields
  <2>1. IsFiniteSet({a[i] : i \in DOMAIN a})
    BY <1>1, SeqImage
  <2>2. \A i \in DOMAIN a : a[i] \in Fields
    BY <1>1, SeqElement
  <2> QED
    BY <1>2, <2>1, <2>2, FS_Subset
<1> HIDE DEF A
<1>4. /\ OnePer(P) /\ FieldsOf(P) = A
      /\ \A r \in P : r.key = k /\ r.ver = m.ver /\ r.field \in Fields
  <2>1. \A x \in A : Sub(k, m.ver, x, NoVal).field = x
    BY DEF Sub
  <2>2. OnePer(P)
    BY <2>1 DEF OnePer
  <2>3. FieldsOf(P) = A
    BY <2>1 DEF FieldsOf
  <2>4. \A r \in P : r.key = k /\ r.ver = m.ver
    BY DEF Sub
  <2> QED
    BY <1>3, <2>2, <2>3, <2>4 DEF FieldsOf
<1>5. IsFiniteSet(P)
  <2> DEFINE f == [x \in A |-> Sub(k, m.ver, x, NoVal)]
  <2>1. f \in [A -> P] /\ \A y \in P : \E x \in A : f[x] = y
    OBVIOUS
  <2> HIDE DEF f, P
  <2> QED
    BY <1>3, <2>1, ImageFinite
<1>6. FieldsOf(P) \ F = A /\ Cardinality(A) \in Nat
  BY <1>2, <1>3, <1>4, FS_CardinalityType
<1>7. CASE A = {}
  BY <1>7 DEF sadd, A, NoWrite, BodyKeeps
<1>8. CASE A # {}
  <2>1. P # {}
    BY <1>8
  <2>2. sadd(k, m, a) = Write(Puts([m EXCEPT !.cnt = m.cnt + Cardinality(A)], P, {}, {}))
    BY <1>8 DEF sadd, A
  <2> HIDE DEF P
  <2> QED
    BY <1>4, <1>5, <1>6, <2>1, <2>2, PutsKeep
<1> QED
  BY <1>7, <1>8

(* srem takes away the count of the members it removes.                      *)
LEMMA SremKeeps ==
    ASSUME NEW k \in Keys, NEW m, Describes(k, m), m.type = "set", NEW a \in srem_args
    PROVE  BodyKeeps(srem(k, m, a), k, m)
<1> DEFINE A == {x \in {a[i] : i \in DOMAIN a} : has(k, m.ver, x)}
           D == {r \in scan(k, m.ver) : r.field \in A}
<1>1. FieldsOf(D) = A
  BY HasField DEF FieldsOf
<1>2. Cardinality(D) = Cardinality(A)
  <2> HIDE DEF A
  <2>1. IsFiniteSet(D) /\ OnePer(D)
    BY FS_Subset DEF Describes, Fits, OnePer
  <2> HIDE DEF D
  <2> QED
    BY <1>1, <2>1, FieldCount
<1>3. srem(k, m, a) = Shrink(m, Cardinality(A), Dels(D, {}))
  BY DEF srem
<1>4. D \in SUBSET scan(k, m.ver)
  OBVIOUS
<1> HIDE DEF A, D
<1> QED
  BY <1>2, <1>3, <1>4, ShrinkKeeps

(* hset counts the fields that are new, if no field is named twice.          *)
LEMMA HsetKeeps ==
    ASSUME NoRepeats, NEW k \in Keys, NEW m, Describes(k, m), m.type = "hash",
           NEW a \in hset_args, a \in Args["hset"]
    PROVE  BodyKeeps(hset(k, m, a), k, m)
<1> DEFINE created == {i \in DOMAIN a : ~has(k, m.ver, a[i].field)}
           final == {i \in DOMAIN a : \A j \in DOMAIN a : j > i => a[j].field # a[i].field}
           P == {Sub(k, m.ver, a[i].field, a[i].val) : i \in final}
           F == FieldsOf(scan(k, m.ver))
           Pair == [field : Fields, val : Values]
<1>1. a \in Seq(Pair) /\ a # <<>>
  BY DEF hset_args, NonEmptySeq
<1>2. DOMAIN a = 1 .. Len(a) /\ Len(a) \in Nat /\ Len(a) # 0
  <2> HIDE DEF Pair
  <2> QED
    BY <1>1
<1>3. \A i, j \in DOMAIN a : a[i].field = a[j].field => i = j
  BY DEF NoRepeats
<1>4. final = DOMAIN a
  BY <1>2, <1>3
<1>5. \A i \in DOMAIN a : a[i].field \in Fields
  <2> HIDE DEF Pair
  <2>1. \A i \in DOMAIN a : a[i] \in Pair
    BY <1>1, SeqElement
  <2> QED
    BY <2>1 DEF Pair
<1>6. IsFiniteSet(DOMAIN a)
  BY <1>2, FS_Interval
<1>7. P = {Sub(k, m.ver, a[i].field, a[i].val) : i \in DOMAIN a}
  BY <1>4
<1> HIDE DEF final, P
<1>8. /\ OnePer(P) /\ P # {} /\ FieldsOf(P) = {a[i].field : i \in DOMAIN a}
      /\ \A r \in P : r.key = k /\ r.ver = m.ver /\ r.field \in Fields
  <2> DEFINE g(i) == Sub(k, m.ver, a[i].field, a[i].val)
  <2>1. P = {g(i) : i \in DOMAIN a}
    BY <1>7
  <2>2. \A i : g(i).field = a[i].field /\ g(i).key = k /\ g(i).ver = m.ver
    BY DEF Sub
  <2> HIDE DEF g
  <2>3. OnePer(P)
    BY <1>3, <2>1, <2>2 DEF OnePer
  <2>4. FieldsOf(P) = {a[i].field : i \in DOMAIN a}
    BY <2>1, <2>2 DEF FieldsOf
  <2>5. \A r \in P : r.key = k /\ r.ver = m.ver /\ r.field \in Fields
    BY <1>5, <2>1, <2>2
  <2>6. g(1) \in P
    BY <1>2, <2>1
  <2> QED
    BY <2>3, <2>4, <2>5, <2>6
<1>9. IsFiniteSet(P)
  <2> DEFINE f == [i \in DOMAIN a |-> Sub(k, m.ver, a[i].field, a[i].val)]
  <2>1. f \in [DOMAIN a -> P] /\ \A y \in P : \E x \in DOMAIN a : f[x] = y
    BY <1>7
  <2> HIDE DEF f
  <2> QED
    BY <1>6, <2>1, ImageFinite
<1>10. Cardinality(created) = Cardinality(FieldsOf(P) \ F) /\ Cardinality(created) \in Nat
  <2> DEFINE T == FieldsOf(P) \ F
             f == [i \in created |-> a[i].field]
  <2>1. IsFiniteSet(created)
    BY <1>6, FS_Subset
  <2>2. f \in [created -> T]
    BY <1>8, HasField
  <2>3. \A y \in T : \E x \in created : f[x] = y
    BY <1>8, HasField
  <2>4. \A x, y \in created : f[x] = f[y] => x = y
    BY <1>3
  <2> HIDE DEF f, T, created
  <2>5. Cardinality(T) = Cardinality(created)
    BY <2>1, <2>2, <2>3, <2>4, Counting
  <2> QED
    BY <2>1, <2>5, FS_CardinalityType DEF T
<1>11. hset(k, m, a) = Write(Puts([m EXCEPT !.cnt = m.cnt + Cardinality(created)], P, {}, {}))
  BY DEF hset, P, final
<1> HIDE DEF created, F
<1> QED
  BY <1>8, <1>9, <1>10, <1>11, PutsKeep DEF F

(* hdel takes away the count of the fields it removes, if none is named      *)
(* twice.                                                                    *)
LEMMA HdelKeeps ==
    ASSUME NoRepeats, NEW k \in Keys, NEW m, Describes(k, m), m.type = "hash",
           NEW a \in hdel_args, a \in Args["hdel"]
    PROVE  BodyKeeps(hdel(k, m, a), k, m)
<1> DEFINE removed == {i \in DOMAIN a : has(k, m.ver, a[i])}
           D == {r \in scan(k, m.ver) : \E i \in removed : a[i] = r.field}
<1>1. a \in Seq(Fields)
  BY DEF hdel_args, NonEmptySeq
<1>2. IsFiniteSet(removed)
  <2>1. DOMAIN a = 1 .. Len(a) /\ Len(a) \in Nat
    BY <1>1
  <2>2. IsFiniteSet(DOMAIN a)
    BY <2>1, FS_Interval
  <2> QED
    BY <2>2, FS_Subset
<1>3. \A i, j \in DOMAIN a : a[i] = a[j] => i = j
  BY DEF NoRepeats
<1>4. FieldsOf(D) = {a[i] : i \in removed}
  BY HasField DEF FieldsOf
<1>5. Cardinality(FieldsOf(D)) = Cardinality(removed)
  <2> DEFINE f == [i \in removed |-> a[i]]
  <2>1. /\ f \in [removed -> FieldsOf(D)]
        /\ \A y \in FieldsOf(D) : \E x \in removed : f[x] = y
        /\ \A x, y \in removed : f[x] = f[y] => x = y
    BY <1>3, <1>4
  <2> HIDE DEF f, removed, D
  <2> QED
    BY <1>2, <2>1, Counting
<1>6. Cardinality(D) = Cardinality(removed)
  <2> HIDE DEF removed
  <2>1. IsFiniteSet(D) /\ OnePer(D)
    BY FS_Subset DEF Describes, Fits, OnePer
  <2> HIDE DEF D
  <2> QED
    BY <1>5, <2>1, FieldCount
<1>7. hdel(k, m, a) = Shrink(m, Cardinality(removed), Dels(D, {}))
  BY DEF hdel
<1>8. D \in SUBSET scan(k, m.ver)
  OBVIOUS
<1> HIDE DEF removed, D
<1> QED
  BY <1>6, <1>7, <1>8, ShrinkKeeps

(* zrem takes both records of a member away, and its count.                  *)
LEMMA ZremKeeps ==
    ASSUME NEW k \in Keys, NEW m, Describes(k, m), m.type = "zset", NEW a \in zrem_args
    PROVE  BodyKeeps(zrem(k, m, a), k, m)
<1> DEFINE A == {x \in {a[i] : i \in DOMAIN a} : has(k, m.ver, x)}
           D == {r \in scan(k, m.ver) : r.field \in A}
           X == {Idx(k, m.ver, r.val, r.field) : r \in D}
<1>1. FieldsOf(D) = A
  BY HasField DEF FieldsOf
<1>2. Cardinality(D) = Cardinality(A)
  <2> HIDE DEF A
  <2>1. IsFiniteSet(D) /\ OnePer(D)
    BY FS_Subset DEF Describes, Fits, OnePer
  <2> HIDE DEF D
  <2> QED
    BY <1>1, <2>1, FieldCount
<1>3. zrem(k, m, a) \in {NoWrite, Shrink(m, Cardinality(A), Dels(D, X))}
  BY DEF zrem
<1>4. D \in SUBSET scan(k, m.ver)
  OBVIOUS
<1>5. X = {Idx(r.key, r.ver, r.val, r.field) : r \in D}
  <2>1. \A r \in D : r.key = k /\ r.ver = m.ver
    BY ScanOwn
  <2> HIDE DEF D
  <2> QED
    BY <2>1
<1> HIDE DEF A, D, X
<1>6. CASE zrem(k, m, a) = NoWrite
  BY <1>6 DEF NoWrite, BodyKeeps
<1>7. CASE zrem(k, m, a) = Shrink(m, Cardinality(A), Dels(D, X))
  BY <1>2, <1>4, <1>5, <1>7, ShrinkKeeps
<1> QED
  BY <1>3, <1>6, <1>7

(* Of the pairs of one call, one counts for each member.                     *)
LEMMA EffectivePairs ==
    ASSUME NEW a \in zadd_args
    PROVE  /\ IsFiniteSet(effective(a))
           /\ \A p \in effective(a) : p.score \in Scores /\ p.member \in Fields
           /\ \A p, q \in effective(a) : p.member = q.member => p = q
<1> DEFINE Pair == [score : Scores, member : Fields]
<1>1. a \in Seq(Pair)
  BY DEF zadd_args, NonEmptySeq
<1> HIDE DEF Pair
<1>2. IsFiniteSet({a[i] : i \in DOMAIN a}) /\ \A i \in DOMAIN a : a[i] \in Pair
  BY <1>1, SeqImage, SeqElement
<1>3. effective(a) \subseteq {a[i] : i \in DOMAIN a}
  BY DEF effective
<1>4. DOMAIN a = 1 .. Len(a) /\ Len(a) \in Nat
  BY <1>1
<1>5. \A p, q \in effective(a) : p.member = q.member => p = q
  BY <1>4 DEF effective
<1>6. \A p \in effective(a) : p \in Pair
  BY <1>2, <1>3
<1> QED
  BY <1>2, <1>3, <1>5, <1>6, FS_Subset DEF Pair

(* zadd moves the index record of every member it moves, adds one for every  *)
(* member it adds, and counts those.                                         *)
LEMMA ZaddKeeps ==
    ASSUME NEW k \in Keys, NEW m, Describes(k, m), m.type = "zset", NEW a \in zadd_args
    PROVE  BodyKeeps(zadd(k, m, a), k, m)
<1> DEFINE v == m.ver
           S == scan(k, v)
           I == scan_index(k, v)
           E == effective(a)
           old(p) == Stored(k, v, p.member)
           added == {p \in E : old(p) = {}}
           moved == {p \in E : \E r \in old(p) : ~same_score(r.val, p.score)}
           put == added \cup moved
           sub(p) == Sub(k, v, p.member, encode_score(p.score))
           idx(p) == Idx(k, v, encode_score(p.score), p.member)
           g(r) == Idx(r.key, r.ver, r.val, r.field)
           P == {sub(p) : p \in put}
           Q == {idx(p) : p \in put}
           X == stale_index(k, v, moved)
           n == Cardinality(added)
           mm == [m EXCEPT !.cnt = m.cnt + n]
           b == Puts(mm, P, Q, X)
           R == SubsAfter(S, b)
           J == IndexAfter(I, b)
<1>1. /\ IsFiniteSet(S) /\ OnePer(S) /\ m.cnt = Cardinality(S)
      /\ \A r \in S : r.field \in Fields /\ r.val \in Scores
      /\ I = {g(r) : r \in S}
  BY DEF Describes, Fits, OnePer
<1>2. \A r \in S : r.key = k /\ r.ver = v
  BY ScanOwn
<1>3. /\ IsFiniteSet(E)
      /\ \A p \in E : p.score \in Scores /\ p.member \in Fields
      /\ \A p, q \in E : p.member = q.member => p = q
  BY EffectivePairs
<1>4. /\ \A p \in added : p \in E /\ p.member \notin FieldsOf(S)
      /\ \A p \in moved : p \in E /\ p.member \in FieldsOf(S)
  BY DEF Stored, FieldsOf
<1>5. X = {g(r) : r \in {r \in S : \E p \in moved : r.field = p.member}}
  <2> DEFINE U == UNION {Stored(k, v, p.member) : p \in moved}
  <2>1. U = {r \in S : \E p \in moved : r.field = p.member}
    <3> HIDE DEF moved
    <3> QED
      BY DEF Stored
  <2>2. X = {Idx(k, v, r.val, r.field) : r \in U}
    BY DEF stale_index
  <2>3. \A r \in U : Idx(k, v, r.val, r.field) = g(r)
    BY <1>2, <2>1
  <2> HIDE DEF U, X, g, moved
  <2> QED
    BY <2>1, <2>2, <2>3
<1>6. b.puts = P /\ b.dels = {} /\ b.mput = mm /\ b.iputs = Q /\ b.idels = X
  BY DEF Puts
<1>7. zadd(k, m, a) = NoWrite \/ (put # {} /\ zadd(k, m, a) = Write(b))
  BY DEF zadd
<1>8. mm.cnt = m.cnt + n /\ mm.type = "zset"
  BY DEF Describes, Metas
<1>9. \A p : sub(p).field = p.member /\ sub(p).key = k /\ sub(p).ver = v
             /\ sub(p).val = encode_score(p.score)
  BY DEF Sub
<1>10. \A p : g(sub(p)) = idx(p)
  BY DEF Sub, Idx
<1>11. \A r, s : g(r) = g(s) => r.field = s.field
  BY DEF Idx
<1>12. \A p \in E : encode_score(p.score) \in Scores
  BY <1>3, SignBitAssumption DEF encode_score, Scores
<1> HIDE DEF sub, idx, g, S, I, E, X, v, mm, b
<1>13. IsFiniteSet(added) /\ IsFiniteSet(put)
  <2>1. added \subseteq E /\ put \subseteq E
    BY <1>4
  <2> HIDE DEF added, put
  <2> QED
    BY <1>3, <2>1, FS_Subset
<1>14. /\ OnePer(P) /\ FieldsOf(P) = {p.member : p \in put}
       /\ \A r \in P : r.key = k /\ r.ver = v /\ r.field \in Fields /\ r.val \in Scores
  <2>1. \A p \in put : p \in E
    BY <1>4
  <2> HIDE DEF put
  <2>2. OnePer(P)
    BY <1>3, <1>9, <2>1 DEF OnePer
  <2>3. FieldsOf(P) = {p.member : p \in put}
    BY <1>9 DEF FieldsOf
  <2>4. \A r \in P : r.key = k /\ r.ver = v /\ r.field \in Fields /\ r.val \in Scores
    BY <1>3, <1>9, <1>12, <2>1
  <2> QED
    BY <2>2, <2>3, <2>4
<1>15. IsFiniteSet(P)
  <2> DEFINE f == [p \in put |-> sub(p)]
  <2>1. f \in [put -> P] /\ \A y \in P : \E x \in put : f[x] = y
    OBVIOUS
  <2> HIDE DEF f, put, P
  <2> QED
    BY <1>13, <2>1, ImageFinite
<1>16. Cardinality(FieldsOf(P) \ FieldsOf(S)) = n /\ n \in Nat
  <2> DEFINE T == FieldsOf(P) \ FieldsOf(S)
             f == [p \in added |-> p.member]
  <2> HIDE DEF moved
  <2>1. T = {p.member : p \in added}
    BY <1>4, <1>14
  <2> HIDE DEF T, added, P
  <2>2. f \in [added -> T] /\ \A y \in T : \E x \in added : f[x] = y
    BY <2>1
  <2>3. \A x, y \in added : f[x] = f[y] => x = y
    BY <1>3, <1>4
  <2> HIDE DEF f
  <2>4. Cardinality(T) = Cardinality(added)
    BY <1>13, <2>2, <2>3, Counting
  <2> QED
    BY <1>13, <2>4, FS_CardinalityType DEF T
<1>17. /\ R = {r \in S : r.field \notin FieldsOf(P)} \cup P
       /\ IsFiniteSet(R) /\ OnePer(R)
       /\ Cardinality(R) = Cardinality(S) + Cardinality(FieldsOf(P) \ FieldsOf(S))
  <2> HIDE DEF P
  <2>1. /\ IsFiniteSet(b.puts) /\ OnePer(b.puts) /\ b.dels = {}
        /\ \A r, s \in S \cup b.puts : r.key = s.key /\ r.ver = s.ver
    BY <1>2, <1>6, <1>14, <1>15
  <2>2. LET RR == SubsAfter(S, b) IN
        /\ RR = {r \in S : r.field \notin FieldsOf(b.puts)} \cup b.puts
        /\ IsFiniteSet(RR) /\ OnePer(RR)
        /\ FieldsOf(RR) = FieldsOf(S) \cup FieldsOf(b.puts)
        /\ Cardinality(RR) = Cardinality(S) + Cardinality(FieldsOf(b.puts) \ FieldsOf(S))
    BY <1>1, <2>1, PutsFit
  <2> QED
    BY <1>6, <2>2
<1>18. mm.cnt = Cardinality(R)
  BY <1>1, <1>8, <1>16, <1>17
<1>19. \A r \in R : r.field \in Fields /\ r.val \in Scores
  <2> HIDE DEF P, R
  <2> QED
    BY <1>1, <1>14, <1>17
<1>20. J = {g(r) : r \in R}
  <2>1. J = (I \ X) \cup Q
    BY <1>6 DEF IndexAfter
  <2>2. Q = {g(r) : r \in P}
    <3> HIDE DEF put
    <3> QED
      BY <1>10
  <2>3. \A r \in S : r.field \in FieldsOf(P) <=> \E p \in moved : r.field = p.member
    <3>1. \A r \in S : r.field \in FieldsOf(S)
      BY DEF FieldsOf
    <3> HIDE DEF P, moved, added
    <3> QED
      BY <1>4, <1>14, <3>1
  <2>4. I \ X = {g(r) : r \in {r \in S : r.field \notin FieldsOf(P)}}
    <3> HIDE DEF P, moved
    <3> QED
      BY <1>1, <1>5, <1>11, <2>3 DEF OnePer
  <2> HIDE DEF P, Q, R, J
  <2> QED
    BY <1>17, <2>1, <2>2, <2>4
<1>21. ASSUME put # {} PROVE R # {}
  <2> HIDE DEF put
  <2>1. P # {}
    BY <1>21
  <2> QED
    BY <1>17, <2>1
<1>22. Fits(R, J, mm)
  <2> HIDE DEF R, J
  <2> QED
    BY <1>8, <1>17, <1>18, <1>19, <1>20 DEF Fits, OnePer, g
<1>23. CASE zadd(k, m, a) = NoWrite
  BY <1>23 DEF NoWrite, BodyKeeps
<1>24. CASE put # {} /\ zadd(k, m, a) = Write(b)
  <2>1. Write(b).to = "commit" /\ Write(b).batch = b
    BY DEF Write
  <2> HIDE DEF put
  <2> QED
    BY <1>6, <1>21, <1>22, <1>24, <2>1 DEF BodyKeeps, S, I, v
<1> QED
  BY <1>7, <1>23, <1>24

(* push fills the indexes next to the bound it moves.                        *)
LEMMA PushKeeps ==
    ASSUME NEW k \in Keys, NEW m, Describes(k, m), m.type = "list", NEW a \in push_args,
           NEW left \in BOOLEAN
    PROVE  BodyKeeps(push(k, m, a, left), k, m)
<1> DEFINE v == m.ver
           S == scan(k, v)
           n == Len(a)
           at(i) == IF left THEN m.head - i ELSE m.tail + i - 1
           sub(i) == Sub(k, v, at(i), a[i])
           P == {sub(i) : i \in 1..n}
           mm == IF left THEN [m EXCEPT !.head = m.head - n] ELSE [m EXCEPT !.tail = m.tail + n]
           b == Puts(mm, P, {}, {})
           R == SubsAfter(S, b)
<1>1. a \in Seq(Values) /\ a # <<>>
  BY DEF push_args, NonEmptySeq
<1>2. n \in Nat /\ n > 0
  BY <1>1
<1>3. /\ m.head \in Int /\ m.tail \in Int /\ m.head <= m.tail
      /\ IsFiniteSet(S) /\ OnePer(S) /\ FieldsOf(S) = m.head .. m.tail - 1
  BY DEF Describes, Fits, OnePer, FieldsOf, Metas
<1>4. b.puts = P /\ b.dels = {} /\ b.mput = mm
  BY DEF Puts
<1> HIDE DEF n
<1>5. /\ mm.type = "list"
      /\ mm.head = IF left THEN m.head - n ELSE m.head
      /\ mm.tail = IF left THEN m.tail ELSE m.tail + n
  BY <1>2 DEF Describes, Metas
<1>6. \A i : sub(i).field = at(i) /\ sub(i).key = k /\ sub(i).ver = v
  BY DEF Sub
<1>7. \A i, j \in 1..n : at(i) = at(j) => i = j
  BY <1>2, <1>3
<1>8. {at(i) : i \in 1..n} = IF left THEN m.head - n .. m.head - 1 ELSE m.tail .. m.tail + n - 1
  <2>1. CASE left
    <3>1. \A i \in 1..n : at(i) = m.head - i
      BY <2>1
    <3>2. \A x \in m.head - n .. m.head - 1 : m.head - x \in 1..n /\ at(m.head - x) = x
      BY <1>2, <1>3, <2>1
    <3>3. \A i \in 1..n : at(i) \in m.head - n .. m.head - 1
      BY <1>2, <1>3, <3>1
    <3> HIDE DEF at
    <3> QED
      BY <2>1, <3>2, <3>3
  <2>2. CASE ~left
    <3>1. \A x \in m.tail .. m.tail + n - 1 : x - m.tail + 1 \in 1..n /\ at(x - m.tail + 1) = x
      BY <1>2, <1>3, <2>2
    <3>2. \A i \in 1..n : at(i) \in m.tail .. m.tail + n - 1
      BY <1>2, <1>3, <2>2
    <3> HIDE DEF at
    <3> QED
      BY <2>2, <3>1, <3>2
  <2> QED
    BY <2>1, <2>2
<1> HIDE DEF sub, at, S, mm, b
<1>9. /\ OnePer(P) /\ FieldsOf(P) = {at(i) : i \in 1..n} /\ P # {}
      /\ \A r \in P : r.key = k /\ r.ver = v
  <2>1. sub(1) \in P
    BY <1>2
  <2>2. OnePer(P)
    BY <1>6, <1>7 DEF OnePer
  <2>3. FieldsOf(P) = {at(i) : i \in 1..n}
    BY <1>6 DEF FieldsOf
  <2> QED
    BY <1>6, <2>1, <2>2, <2>3
<1>10. IsFiniteSet(P)
  <2> DEFINE N == 1..n
             f == [i \in N |-> sub(i)]
  <2>1. f \in [N -> P] /\ \A y \in P : \E x \in N : f[x] = y
    OBVIOUS
  <2>2. IsFiniteSet(N)
    BY <1>2, FS_Interval
  <2> HIDE DEF f, P, N
  <2> QED
    BY <2>1, <2>2, ImageFinite
<1> HIDE DEF P
<1>11. /\ IsFiniteSet(R) /\ OnePer(R) /\ P \subseteq R
       /\ FieldsOf(R) = FieldsOf(S) \cup FieldsOf(P)
  <2>1. /\ IsFiniteSet(b.puts) /\ OnePer(b.puts) /\ b.dels = {}
        /\ \A r, s \in S \cup b.puts : r.key = s.key /\ r.ver = s.ver
    BY <1>4, <1>9, <1>10, ScanOwn DEF S
  <2>2. LET RR == SubsAfter(S, b) IN
        /\ RR = {r \in S : r.field \notin FieldsOf(b.puts)} \cup b.puts
        /\ IsFiniteSet(RR) /\ OnePer(RR)
        /\ FieldsOf(RR) = FieldsOf(S) \cup FieldsOf(b.puts)
        /\ Cardinality(RR) = Cardinality(S) + Cardinality(FieldsOf(b.puts) \ FieldsOf(S))
    BY <1>3, <2>1, PutsFit
  <2> QED
    BY <1>4, <2>2
<1>12. mm.head <= mm.tail /\ FieldsOf(R) = mm.head .. mm.tail - 1
  <2>1. CASE left
    <3>1. FieldsOf(R) = (m.head .. m.tail - 1) \cup (m.head - n .. m.head - 1)
      BY <1>3, <1>8, <1>9, <1>11, <2>1
    <3> HIDE DEF R
    <3>2. FieldsOf(R) = m.head - n .. m.tail - 1
      BY <1>2, <1>3, <3>1
    <3> QED
      BY <1>2, <1>3, <1>5, <2>1, <3>2
  <2>2. CASE ~left
    <3>1. FieldsOf(R) = (m.head .. m.tail - 1) \cup (m.tail .. m.tail + n - 1)
      BY <1>3, <1>8, <1>9, <1>11, <2>2
    <3> HIDE DEF R
    <3>2. FieldsOf(R) = m.head .. m.tail + n - 1
      BY <1>2, <1>3, <3>1
    <3> QED
      BY <1>2, <1>3, <1>5, <2>2, <3>2
  <2> QED
    BY <2>1, <2>2
<1> HIDE DEF R
<1>13. Fits(R, IndexAfter(scan_index(k, v), b), mm)
  BY <1>5, <1>11, <1>12 DEF Fits, OnePer, FieldsOf
<1>14. push(k, m, a, left) = Write(b)
  BY DEF push, b, mm, P, sub, at, n
<1>15. Write(b).to = "commit" /\ Write(b).batch = b
  BY DEF Write
<1> QED
  BY <1>4, <1>9, <1>11, <1>13, <1>14, <1>15 DEF BodyKeeps, R, S

(* pop empties the indexes next to the bound it moves.                       *)
LEMMA PopKeeps ==
    ASSUME NEW k \in Keys, NEW m, Describes(k, m), m.type = "list", NEW count \in Nat,
           NEW left \in BOOLEAN
    PROVE  BodyKeeps(pop(k, m, count, left), k, m)
<1> DEFINE v == m.ver
           S == scan(k, v)
           len == m.tail - m.head
           n == IF count < len THEN count ELSE len
           popped == IF left THEN m.head .. m.head + n - 1 ELSE m.tail - n .. m.tail - 1
           rest == IF left THEN [m EXCEPT !.head = m.head + n]
                           ELSE [m EXCEPT !.tail = m.tail - n]
           D == {r \in S : r.field \in popped}
           b == Dels(D, {})
           bb == [b EXCEPT !.mput = rest]
           R == S \ D
<1>1. /\ m.head \in Int /\ m.tail \in Int /\ m.head <= m.tail
      /\ IsFiniteSet(S) /\ OnePer(S) /\ FieldsOf(S) = m.head .. m.tail - 1
  BY DEF Describes, Fits, OnePer, FieldsOf, Metas
<1>2. n \in Nat /\ n <= len /\ len \in Nat
  BY <1>1
<1>3. \A r, s \in S : r.key = s.key /\ r.ver = s.ver
  BY ScanOwn
<1>4. b.puts = {} /\ b.dels = D
  BY DEF Dels
<1>5. bb.puts = {} /\ bb.dels = D /\ bb.mput = rest
  BY DEF Dels
<1> HIDE DEF n
<1>6. /\ rest.type = "list"
      /\ rest.head = IF left THEN m.head + n ELSE m.head
      /\ rest.tail = IF left THEN m.tail ELSE m.tail - n
  BY <1>2 DEF Describes, Metas
<1>7. pop(k, m, count, left) \in
         {NoWrite, Write(bb)} \cup (IF n = len THEN {WriteLast(b)} ELSE {})
      /\ (n = len => pop(k, m, count, left) # Write(bb))
  <2> DEFINE torn == \E i \in popped : ~has(k, v, i)
             p == IF popped = {} \/ torn THEN NoWrite
                  ELSE IF n = len THEN WriteLast(b) ELSE Write(bb)
  <2>1. pop(k, m, count, left) = p
    BY DEF pop, n
  <2>2. NoWrite.to = "idle" /\ Write(bb).to = "commit" /\ WriteLast(b).to = "empty"
    BY DEF NoWrite, Write, WriteLast
  <2> HIDE DEF popped, torn, len, b, bb
  <2> QED
    BY <2>1, <2>2
<1>8. /\ SubsAfter(S, b) = R /\ IsFiniteSet(R) /\ OnePer(R)
  <2> HIDE DEF S, b
  <2>1. b.dels \subseteq S
    BY <1>4
  <2>2. LET RR == SubsAfter(S, b) IN
        /\ RR = S \ b.dels
        /\ IsFiniteSet(RR) /\ OnePer(RR)
        /\ Cardinality(RR) = Cardinality(S) - Cardinality(b.dels)
        /\ Cardinality(b.dels) = Cardinality(FieldsOf(b.dels))
        /\ Cardinality(b.dels) \in Nat /\ Cardinality(S) \in Nat /\ Cardinality(RR) \in Nat
    BY <1>1, <1>3, <1>4, <2>1, DelsFit
  <2> QED
    BY <1>4, <2>2
<1>9. SubsAfter(S, bb) = R
  BY <1>4, <1>5, <1>8 DEF SubsAfter
<1>10. FieldsOf(R) = FieldsOf(S) \ popped
  BY DEF FieldsOf
<1>11. CASE pop(k, m, count, left) = NoWrite
  BY <1>11 DEF NoWrite, BodyKeeps
<1>12. CASE n = len /\ pop(k, m, count, left) = WriteLast(b)
  <2>1. FieldsOf(R) = {}
    BY <1>1, <1>2, <1>10, <1>12
  <2>2. R = {}
    BY <2>1 DEF FieldsOf
  <2>3. WriteLast(b).to = "empty" /\ WriteLast(b).batch = b
    BY DEF WriteLast
  <2> HIDE DEF b, R, S
  <2> QED
    BY <1>8, <1>12, <2>2, <2>3 DEF BodyKeeps, S
<1>13. CASE n # len /\ pop(k, m, count, left) = Write(bb)
  <2>1. rest.head < rest.tail /\ FieldsOf(R) = rest.head .. rest.tail - 1
    <3> HIDE DEF rest, R, S
    <3> QED
      BY <1>1, <1>2, <1>6, <1>10, <1>13
  <2>2. rest.head \in Int /\ rest.tail \in Int
    BY <1>1, <1>2, <1>6
  <2>3. Write(bb).to = "commit" /\ Write(bb).batch = bb
    BY DEF Write
  <2> HIDE DEF rest, R, S, b, bb
  <2>4. rest.head \in FieldsOf(R)
    BY <2>1, <2>2
  <2>5. R # {}
    BY <2>4 DEF FieldsOf
  <2>6. Fits(R, IndexAfter(scan_index(k, v), bb), rest)
    BY <1>6, <1>8, <2>1, <2>2 DEF Fits, OnePer, FieldsOf
  <2> QED
    BY <1>5, <1>9, <1>13, <2>3, <2>5, <2>6 DEF BodyKeeps, S
<1> HIDE DEF b, bb, len
<1> QED
  BY <1>7, <1>11, <1>12, <1>13

(* Every body of a structure whose count can be trusted.                     *)
LEMMA PlanKeeps ==
    ASSUME NEW op \in Creators \cup Removers, NEW k \in Keys, NEW m, Describes(k, m),
           m.type = type_for(op), Counted(m.type), NEW a \in Args[op]
    PROVE  BodyKeeps(Plan(op, k, m, a), k, m)
<1>1. CASE op = "hset"
  BY <1>1, HsetKeeps, ArgsAssumption DEF Plan, type_for, Counted
<1>2. CASE op = "hdel"
  BY <1>2, HdelKeeps, ArgsAssumption DEF Plan, type_for, Counted
<1>3. CASE op = "sadd"
  BY <1>3, SaddKeeps, ArgsAssumption DEF Plan, type_for
<1>4. CASE op = "srem"
  BY <1>4, SremKeeps, ArgsAssumption DEF Plan, type_for
<1>5. CASE op = "zadd"
  BY <1>5, ZaddKeeps, ArgsAssumption DEF Plan, type_for
<1>6. CASE op = "zrem"
  BY <1>6, ZremKeeps, ArgsAssumption DEF Plan, type_for
<1>7. CASE op = "lpush"
  BY <1>7, PushKeeps, ArgsAssumption DEF Plan, type_for
<1>8. CASE op = "rpush"
  BY <1>8, PushKeeps, ArgsAssumption DEF Plan, type_for
<1>9. CASE op = "lpop"
  BY <1>9, PopKeeps, ArgsAssumption DEF Plan, type_for, pop_args
<1>10. CASE op = "rpop"
  BY <1>10, PopKeeps, ArgsAssumption DEF Plan, type_for, pop_args
<1> QED
  BY <1>1, <1>2, <1>3, <1>4, <1>5, <1>6, <1>7, <1>8, <1>9, <1>10 DEF Creators, Removers

(* A body deletes records of its own key only, and puts none when it takes   *)
(* the last member.                                                          *)
LEMMA PlanOwns ==
    ASSUME NEW op \in Creators \cup Removers, NEW k \in Keys, NEW m \in Metas, NEW a \in Args[op],
           NEW p, p = Plan(op, k, m, a)
    PROVE  /\ \A r \in p.batch.dels \cup p.batch.idels : r.key = k
           /\ p.to = "empty" => p.batch.puts = {} /\ p.batch.iputs = {}
<1>0. \A r \in scan(k, m.ver) : r.key = k
  BY ScanOwn
<1>1. ASSUME NEW mm, NEW P, NEW Q, NEW X, \A r \in X : r.key = k, p = Write(Puts(mm, P, Q, X))
      PROVE  /\ \A r \in p.batch.dels \cup p.batch.idels : r.key = k
             /\ p.to = "empty" => p.batch.puts = {} /\ p.batch.iputs = {}
  BY <1>1 DEF Write, Puts
<1>2. ASSUME NEW n, NEW D, NEW X, \A r \in D \cup X : r.key = k, p = Shrink(m, n, Dels(D, X))
      PROVE  /\ \A r \in p.batch.dels \cup p.batch.idels : r.key = k
             /\ p.to = "empty" => p.batch.puts = {} /\ p.batch.iputs = {}
  <2> DEFINE left == IF n > m.cnt THEN 0 ELSE m.cnt - n
             mm == [m EXCEPT !.cnt = left]
  <2>0. p = CASE n = 0 -> NoWrite
              [] n > 0 /\ left = 0 -> WriteLast(Dels(D, X))
              [] OTHER -> Write([Dels(D, X) EXCEPT !.mput = mm])
    BY <1>2 DEF Shrink
  <2> HIDE DEF left, mm
  <2>1. p \in {NoWrite, WriteLast(Dels(D, X)), Write([Dels(D, X) EXCEPT !.mput = mm])}
    BY <2>0
  <2>2. /\ p.batch.dels \cup p.batch.idels \subseteq D \cup X
        /\ p.batch.puts = {} /\ p.batch.iputs = {}
    <3>1. CASE p = NoWrite
      BY <3>1 DEF NoWrite, NoBatch
    <3>2. CASE p = WriteLast(Dels(D, X))
      BY <3>2 DEF WriteLast, Dels
    <3>3. CASE p = Write([Dels(D, X) EXCEPT !.mput = mm])
      BY <3>3 DEF Write, Dels
    <3> QED
      BY <2>1, <3>1, <3>2, <3>3
  <2> QED
    BY <1>2, <2>2
<1>3. p = NoWrite => /\ \A r \in p.batch.dels \cup p.batch.idels : r.key = k
                     /\ p.to = "empty" => p.batch.puts = {} /\ p.batch.iputs = {}
  BY DEF NoWrite, NoBatch
<1>4. CASE op = "hset"
  <2>1. \E mm, P : p = Write(Puts(mm, P, {}, {}))
    BY <1>4, Zenon DEF Plan, hset
  <2> QED
    BY <1>1, <2>1
<1>5. CASE op = "hdel"
  <2>1. \E n : \E D \in SUBSET scan(k, m.ver) : p = Shrink(m, n, Dels(D, {}))
    BY <1>5 DEF Plan, hdel
  <2> QED
    BY <1>0, <1>2, <2>1
<1>6. CASE op = "sadd"
  <2>1. p = NoWrite \/ \E mm, P : p = Write(Puts(mm, P, {}, {}))
    BY <1>6 DEF Plan, sadd
  <2> QED
    BY <1>1, <1>3, <2>1
<1>7. CASE op = "srem"
  <2>1. \E n : \E D \in SUBSET scan(k, m.ver) : p = Shrink(m, n, Dels(D, {}))
    BY <1>7 DEF Plan, srem
  <2> QED
    BY <1>0, <1>2, <2>1
<1>8. CASE op = "zadd"
  <2>1. p = NoWrite \/ \E mm, P, Q, moved : p = Write(Puts(mm, P, Q, stale_index(k, m.ver, moved)))
    BY <1>8 DEF Plan, zadd
  <2>2. \A moved : \A r \in stale_index(k, m.ver, moved) : r.key = k
    BY DEF stale_index, Idx
  <2> QED
    BY <1>1, <1>3, <2>1, <2>2
<1>9. CASE op = "zrem"
  <2>1. \/ p = NoWrite
        \/ \E n : \E D \in SUBSET scan(k, m.ver) :
              p = Shrink(m, n, Dels(D, {Idx(k, m.ver, r.val, r.field) : r \in D}))
    BY <1>9 DEF Plan, zrem
  <2>2. \A D : \A r \in {Idx(k, m.ver, x.val, x.field) : x \in D} : r.key = k
    BY DEF Idx
  <2> QED
    BY <1>0, <1>2, <1>3, <2>1, <2>2
<1>10. CASE op \in {"lpush", "rpush"}
  <2>1. \E mm, P : p = Write(Puts(mm, P, {}, {}))
    BY <1>10 DEF Plan, push
  <2> QED
    BY <1>1, <2>1
<1>11. CASE op \in {"lpop", "rpop"}
  <2>1. \E mm : \E D \in SUBSET scan(k, m.ver) :
           p \in {NoWrite, WriteLast(Dels(D, {})), Write([Dels(D, {}) EXCEPT !.mput = mm])}
    BY <1>11 DEF Plan, pop
  <2> QED
    BY <1>0, <2>1 DEF NoWrite, NoBatch, WriteLast, Write, Dels
<1> QED
  BY <1>4, <1>5, <1>6, <1>7, <1>8, <1>9, <1>10, <1>11 DEF Creators, Removers

-----------------------------------------------------------------------------
(* Type correctness. *)

(* The part of the type invariant that is about threads.                     *)
ThreadsOK == ThreadsTypeOK /\ ControlOK

(* A batch of the right type leaves the engine well typed.                   *)
LEMMA WriteTyped ==
    ASSUME DiskTypeOK, NEW k, NEW b \in Batches, write(k, b)
    PROVE  DiskTypeOK'
<1>1. metas' \in [Keys -> Metas \cup {NoMeta}]
  BY DEF write, DiskTypeOK, Batches
<1>2. subs' \subseteq SubRecs
  BY DEF write, DiskTypeOK, Batches
<1>3. index' \subseteq IdxRecs
  BY DEF write, DiskTypeOK, Batches
<1> QED
  BY <1>1, <1>2, <1>3 DEF DiskTypeOK

(* Ending a command leaves the thread idle with empty locals.                *)
LEMMA FinishOK ==
    ASSUME ThreadsOK, NEW t \in Threads, Finish(t)
    PROVE  ThreadsOK'
<1>1. ThreadsTypeOK'
  <2>1. NoBatch \in Batches
    BY BatchTyped
  <2> QED
    BY <2>1 DEF ThreadsOK, ThreadsTypeOK, Finish, NoCmd, Pcs, Ops, Creators, Removers
<1>2. ASSUME NEW u \in Threads PROVE Control(u)'
  <2>1. CASE u = t
    BY <2>1 DEF ThreadsOK, ThreadsTypeOK, Finish, Control, NoCmd, Creators, Removers, FlushPcs
  <2>2. CASE u # t
    BY <2>2 DEF ThreadsOK, ThreadsTypeOK, ControlOK, Finish, Control
  <2> QED
    BY <2>1, <2>2
<1> QED
  BY <1>1, <1>2 DEF ThreadsOK, ControlOK

(* Moving on without touching the locals keeps the threads well formed when  *)
(* the moving thread is.                                                     *)
LEMMA GotoOK ==
    ASSUME ThreadsOK, NEW t \in Threads, NEW next \in Pcs, Goto(t, next),
           UNCHANGED <<cmd, mem, wb>>, Control(t)'
    PROVE  ThreadsOK'
<1>1. ThreadsTypeOK'
  BY DEF ThreadsOK, ThreadsTypeOK, Goto
<1>2. ASSUME NEW u \in Threads, u # t PROVE Control(u)'
  BY <1>2 DEF ThreadsOK, ThreadsTypeOK, ControlOK, Goto, Control
<1> QED
  BY <1>1, <1>2 DEF ThreadsOK, ControlOK

(* The same when the moving thread also changes its metadata copy or batch.  *)
LEMMA MoveOK ==
    ASSUME ThreadsOK, NEW t \in Threads, NEW next \in Pcs, Goto(t, next),
           UNCHANGED cmd,
           NEW mm \in Metas \cup {NoMeta}, mem' = [mem EXCEPT ![t] = mm],
           NEW b \in Batches, wb' = [wb EXCEPT ![t] = b], Control(t)'
    PROVE  ThreadsOK'
<1>1. ThreadsTypeOK'
  BY DEF ThreadsOK, ThreadsTypeOK, Goto
<1>2. ASSUME NEW u \in Threads, u # t PROVE Control(u)'
  BY <1>2 DEF ThreadsOK, ThreadsTypeOK, ControlOK, Goto, Control
<1> QED
  BY <1>1, <1>2 DEF ThreadsOK, ControlOK

-----------------------------------------------------------------------------
(* The invariant holds at the start.                                         *)
LEMMA InitType == Init => TypeInv
<1> SUFFICES ASSUME Init PROVE TypeInv
  OBVIOUS
<1>1. DiskTypeOK /\ MapTypeOK
  BY DEF Init, DiskTypeOK, MapTypeOK
<1>2. ThreadsTypeOK
  BY BatchTyped DEF Init, ThreadsTypeOK, NoCmd, Pcs, Ops, Creators, Removers
<1>3. ControlOK
  BY DEF Init, ControlOK, Control, NoCmd, Creators, Removers, FlushPcs
<1> QED
  BY <1>1, <1>2, <1>3 DEF TypeInv, TypeOK

(* A command starts at the first step of its operation.                      *)
LEMMA BeginType ==
    ASSUME TypeInv, NEW t \in Threads, NEW op \in Ops, NEW k \in Keys \cup {NoKey},
           NEW a \in Args[op], Begin(t, op, k, a)
    PROVE  TypeInv'
<1>1. DiskTypeOK' /\ MapTypeOK'
  BY DEF TypeInv, TypeOK, DiskTypeOK, MapTypeOK, Begin, disk
<1>2. ExpiryOf(op, a) \in Nat
  <2>1. now \in Nat
    BY DEF TypeInv, TypeOK, MapTypeOK
  <2>2. CASE op = "set"
    <3>1. a.ttl \in Nat
      BY <2>2, ArgsAssumption DEF set_args
    <3> QED
      BY <2>1, <2>2, <3>1 DEF ExpiryOf
  <2>3. CASE op = "expire"
    <3>1. a.ttl \in Int
      BY <2>3, ArgsAssumption DEF expire_args
    <3> QED
      BY <2>1, <2>3, <3>1 DEF ExpiryOf, Deadline
  <2> QED
    BY <2>2, <2>3 DEF ExpiryOf
<1>3. FirstPc(op) \in {"overwrite", "flushMeta", "peek", "load"}
  BY DEF FirstPc
<1>4. ThreadsTypeOK'
  BY <1>2, <1>3 DEF TypeInv, TypeOK, ThreadsTypeOK, Begin, Goto, Pcs
<1>5. ASSUME NEW u \in Threads PROVE Control(u)'
  <2>1. CASE u # t
    BY <2>1 DEF TypeInv, TypeOK, ThreadsTypeOK, ControlOK, Control, Begin, Goto
  <2>2. CASE u = t
    <3>1. /\ pc'[t] = FirstPc(op)
          /\ cmd'[t].op = op /\ cmd'[t].key = k
          /\ wb'[t] = wb[t] /\ pc[t] = "idle"
      BY DEF TypeInv, TypeOK, ThreadsTypeOK, Begin, Goto, Running
    <3>2. (k = NoKey) <=> (op = "flush")
      BY DEF Begin
    <3>3. wb[t].mput = NoMeta
      BY <3>1 DEF TypeInv, ControlOK, Control, NoBatch
    <3> QED
      BY <2>2, <3>1, <3>2, <3>3
      DEF Control, FirstPc, FlushPcs, Ops, Creators, Removers
  <2> QED
    BY <2>1, <2>2
<1> QED
  BY <1>1, <1>4, <1>5 DEF TypeInv, TypeOK, ControlOK

-----------------------------------------------------------------------------
(* The steps of load_live_meta and load_typed.                               *)
LEMMA LoadType ==
    ASSUME TypeInv, NEW t \in Threads,
           LoadMissing(t) \/ LoadExpired(t) \/ LoadFound(t)
    PROVE  TypeInv'
<1>0. ThreadsOK /\ ThreadsTypeOK /\ Control(t) /\ pc[t] \in {"peek", "load"}
  BY DEF TypeInv, TypeOK, ThreadsOK, ControlOK, LoadMissing, LoadExpired, LoadFound
<1>1. DiskTypeOK' /\ MapTypeOK'
  BY DEF TypeInv, TypeOK, DiskTypeOK, MapTypeOK, LoadMissing, LoadExpired, LoadFound, disk
<1>2. Key(t) \in Keys
  BY <1>0 DEF ThreadsTypeOK, Control, Key, Creators, Removers
<1>3. CASE LoadMissing(t)
  <2>1. CASE Finish(t)
    BY <1>0, <1>1, <2>1, FinishOK DEF ThreadsOK, TypeInv, TypeOK
  <2>2. CASE ~Finish(t)
    <3>1. cmd[t].op \in Creators /\ Goto(t, "alloc") /\ UNCHANGED <<cmd, mem, wb>>
      BY <1>3, <2>2 DEF LoadMissing, MissingPc, Continue
    <3>2. Control(t)'
      BY <1>0, <3>1 DEF Control, Goto, ThreadsTypeOK, FlushPcs, Creators, Removers
    <3> QED
      BY <1>0, <1>1, <3>1, <3>2, GotoOK DEF ThreadsOK, TypeInv, TypeOK, Pcs
  <2> QED
    BY <2>1, <2>2
<1>4. CASE LoadExpired(t)
  <2>1. Goto(t, "expire") /\ UNCHANGED <<cmd, mem, wb>>
    BY <1>4 DEF LoadExpired
  <2>2. Control(t)'
    BY <1>0, <2>1 DEF Control, Goto, ThreadsTypeOK, FlushPcs, Creators, Removers
  <2> QED
    BY <1>0, <1>1, <2>1, <2>2, GotoOK DEF ThreadsOK, TypeInv, TypeOK, Pcs
<1>5. CASE LoadFound(t)
  <2> DEFINE m == metas[Key(t)]
             next == FoundPc(t, m)
             mm == IF cmd[t].op = "expire" THEN [m EXCEPT !.exp = cmd[t].exp]
                   ELSE IF next = "exec" THEN m ELSE NoMeta
  <2>1. m \in Metas
    BY <1>2, <1>5 DEF LoadFound, TypeInv, TypeOK, DiskTypeOK
  <2>2. CASE next = "idle"
    BY <1>0, <1>1, <1>5, <2>2, FinishOK DEF LoadFound, ThreadsOK, TypeInv, TypeOK
  <2>3. CASE next # "idle"
    <3>1. /\ Goto(t, next)
          /\ mem' = [mem EXCEPT ![t] = mm]
          /\ UNCHANGED cmd /\ wb' = [wb EXCEPT ![t] = wb[t]] /\ wb[t] \in Batches
      BY <1>0, <1>5, <2>3 DEF LoadFound, ThreadsTypeOK
    <3>2. mm \in Metas \cup {NoMeta} /\ (cmd[t].op = "expire" => mm \in Metas)
      BY <1>0, <2>1 DEF ThreadsTypeOK, Metas
    <3>3. /\ next \in {"delete", "put", "load", "exec"}
          /\ next = "delete" => cmd[t].op = "del"
          /\ next = "put" => cmd[t].op = "expire"
          /\ next = "load" => cmd[t].op \in {"lpop", "rpop"}
          /\ next = "exec" =>
                /\ cmd[t].op \in Creators \cup Removers
                /\ m.type = type_for(cmd[t].op) /\ mm = m
      BY <1>0, <2>3 DEF FoundPc, Control, FlushPcs, Creators, Removers
    <3>4. pc'[t] = next /\ mem'[t] = mm /\ cmd'[t] = cmd[t] /\ wb'[t] = wb[t]
      BY <1>0, <3>1 DEF Goto, ThreadsTypeOK
    <3> HIDE DEF m, next, mm
    <3>5. Control(t)'
      BY <1>0, <2>1, <3>2, <3>3, <3>4 DEF Control, FlushPcs, Creators, Removers
    <3>6. ThreadsOK'
      BY <1>0, <3>1, <3>2, <3>3, <3>5, MoveOK DEF Pcs
    <3> QED
      BY <1>1, <3>6 DEF ThreadsOK, TypeInv, TypeOK
  <2> QED
    BY <2>2, <2>3
<1> QED
  BY <1>3, <1>4, <1>5

(* logical_delete.                                                           *)
LEMMA DeleteType ==
    ASSUME TypeInv, NEW t \in Threads, DeleteMeta(t) \/ ForgetVersion(t)
    PROVE  TypeInv'
<1>0. /\ ThreadsOK /\ ThreadsTypeOK /\ Control(t) /\ DiskTypeOK /\ MapTypeOK
      /\ pc[t] \in {"expire", "delete", "expired", "forget"}
  BY DEF TypeInv, TypeOK, ThreadsOK, ControlOK, DeleteMeta, ForgetVersion
<1>1. Key(t) \in Keys
  BY <1>0 DEF ThreadsTypeOK, Control, Key, Creators, Removers
<1>2. CASE DeleteMeta(t)
  <2>1. [NoBatch EXCEPT !.mdel = {Key(t)}] \in Batches
    BY <1>1, BatchTyped DEF Batches
  <2>2. DiskTypeOK' /\ MapTypeOK'
    BY <1>0, <1>2, <2>1, WriteTyped DEF DeleteMeta, MapTypeOK
  <2>3. CASE pc[t] = "expire"
    <3>1. Goto(t, "expired") /\ UNCHANGED <<cmd, mem, wb>>
      BY <1>2, <2>3 DEF DeleteMeta
    <3>2. Control(t)'
      BY <1>0, <2>3, <3>1 DEF Control, Goto, ThreadsTypeOK, FlushPcs, Creators, Removers
    <3> QED
      BY <1>0, <2>2, <3>1, <3>2, GotoOK DEF ThreadsOK, TypeInv, TypeOK, Pcs
  <2>4. CASE pc[t] = "delete"
    <3>1. Goto(t, "forget") /\ UNCHANGED <<cmd, mem, wb>>
      BY <1>2, <2>4 DEF DeleteMeta
    <3>2. Control(t)'
      BY <1>0, <2>4, <3>1 DEF Control, Goto, ThreadsTypeOK, FlushPcs, Creators, Removers
    <3> QED
      BY <1>0, <2>2, <3>1, <3>2, GotoOK DEF ThreadsOK, TypeInv, TypeOK, Pcs
  <2> QED
    BY <1>2, <2>3, <2>4 DEF DeleteMeta
<1>3. CASE ForgetVersion(t)
  <2>1. DiskTypeOK' /\ MapTypeOK'
    BY <1>0, <1>3 DEF ForgetVersion, DiskTypeOK, MapTypeOK, disk
  <2>2. CASE Finish(t)
    BY <1>0, <2>1, <2>2, FinishOK DEF ThreadsOK, TypeInv, TypeOK
  <2>3. CASE ~Finish(t)
    <3>1. /\ cmd[t].op \in Creators /\ pc[t] = "expired"
          /\ Goto(t, "alloc") /\ UNCHANGED <<cmd, mem, wb>>
      BY <1>3, <2>3 DEF ForgetVersion, MissingPc, Continue
    <3>2. Control(t)'
      BY <1>0, <3>1 DEF Control, Goto, ThreadsTypeOK, FlushPcs, Creators, Removers
    <3> QED
      BY <1>0, <2>1, <3>1, <3>2, GotoOK DEF ThreadsOK, TypeInv, TypeOK, Pcs
  <2> QED
    BY <2>2, <2>3
<1> QED
  BY <1>2, <1>3

(* next_version returns a positive number, the new value of the clock.       *)
LEMMA NextVersionType ==
    ASSUME MapTypeOK
    PROVE  next_version \in Nat \ {0}
  BY DEF MapTypeOK, next_version

(* SET's first step, and the creation of a composite key.                    *)
LEMMA CreateType ==
    ASSUME TypeInv, NEW t \in Threads, Overwrite(t) \/ Alloc(t) \/ Register(t)
    PROVE  TypeInv'
<1>0. /\ ThreadsOK /\ ThreadsTypeOK /\ Control(t) /\ DiskTypeOK /\ MapTypeOK
  BY DEF TypeInv, TypeOK, ThreadsOK, ControlOK
<1>1. CASE Overwrite(t)
  <2>1. DiskTypeOK' /\ MapTypeOK'
    BY <1>0, <1>1 DEF Overwrite, DiskTypeOK, MapTypeOK, disk
  <2>2. pc[t] = "overwrite" /\ Goto(t, "alloc") /\ UNCHANGED <<cmd, mem, wb>>
    BY <1>1 DEF Overwrite
  <2>3. cmd[t].op = "set"
    BY <1>0, <2>2 DEF Control
  <2>4. Control(t)'
    BY <1>0, <2>2, <2>3 DEF Control, Goto, ThreadsTypeOK, FlushPcs, Creators, Removers
  <2> QED
    BY <1>0, <2>1, <2>2, <2>4, GotoOK DEF ThreadsOK, TypeInv, TypeOK, Pcs
<1>2. CASE Alloc(t)
  <2> DEFINE op == cmd[t].op
             mm == IF op = "set"
                   THEN Meta("string", next_version, cmd[t].exp, cmd[t].args.val)
                   ELSE Meta(type_for(op), next_version, 0, NoVal)
             next == IF op = "set" THEN "put" ELSE "register"
  <2>1. next_version \in Nat \ {0}
    BY <1>0, NextVersionType
  <2>2. DiskTypeOK' /\ MapTypeOK'
    BY <1>0, <1>2, <2>1 DEF Alloc, Drawn, DiskTypeOK, MapTypeOK, disk
  <2>3. pc[t] = "alloc" /\ Goto(t, next) /\ UNCHANGED <<cmd, wb>>
        /\ mem' = [mem EXCEPT ![t] = mm] /\ wb' = [wb EXCEPT ![t] = wb[t]]
        /\ wb[t] \in Batches
    BY <1>0, <1>2 DEF Alloc, Drawn, ThreadsTypeOK
  <2>4. op \in Creators \cup {"set"}
    BY <1>0, <2>3 DEF Control
  <2>5. mm \in Metas /\ mm.type = IF op = "set" THEN "string" ELSE type_for(op)
    <3>1. op = "set" => cmd[t].args.val \in Values
      BY <1>0, ArgsAssumption DEF ThreadsTypeOK, Ops, set_args
    <3>2. cmd[t].exp \in Nat /\ type_for(op) \in Composite
      BY <1>0 DEF ThreadsTypeOK, type_for, Composite
    <3> QED
      BY <2>1, <3>1, <3>2 DEF Metas, Meta
  <2>6. pc'[t] = next /\ mem'[t] = mm /\ cmd'[t] = cmd[t] /\ wb'[t] = wb[t]
    BY <1>0, <2>3 DEF Goto, ThreadsTypeOK
  <2> HIDE DEF mm
  <2>7. Control(t)'
    BY <1>0, <2>3, <2>4, <2>5, <2>6 DEF Control, FlushPcs, Creators, Removers
  <2>8. ThreadsOK'
    BY <1>0, <2>3, <2>5, <2>7, MoveOK DEF Pcs
  <2> QED
    BY <2>2, <2>8 DEF ThreadsOK, TypeInv, TypeOK
<1>3. CASE Register(t)
  <2>1. pc[t] = "register" /\ Goto(t, "exec") /\ UNCHANGED <<cmd, mem, wb>>
    BY <1>3 DEF Register
  <2>2. mem[t] \in Metas
    BY <1>0, <2>1 DEF Control
  <2>3. DiskTypeOK' /\ MapTypeOK'
    BY <1>0, <1>3, <2>2 DEF Register, DiskTypeOK, MapTypeOK, disk, Metas
  <2>4. Control(t)'
    BY <1>0, <2>1 DEF Control, Goto, ThreadsTypeOK, FlushPcs, Creators, Removers
  <2> QED
    BY <1>0, <2>1, <2>3, <2>4, GotoOK DEF ThreadsOK, TypeInv, TypeOK, Pcs
<1> QED
  BY <1>1, <1>2, <1>3

(* put_meta and the batch of a composite command.                            *)
LEMMA CommitType ==
    ASSUME TypeInv, NEW t \in Threads, PutMeta(t) \/ Commit(t)
    PROVE  TypeInv'
<1>0. /\ ThreadsOK /\ ThreadsTypeOK /\ Control(t) /\ DiskTypeOK /\ MapTypeOK
  BY DEF TypeInv, TypeOK, ThreadsOK, ControlOK
<1>1. CASE PutMeta(t)
  <2>1. [NoBatch EXCEPT !.mput = mem[t]] \in Batches
    BY <1>0, BatchTyped DEF Batches, ThreadsTypeOK
  <2>2. DiskTypeOK' /\ MapTypeOK'
    BY <1>0, <1>1, <2>1, WriteTyped DEF PutMeta, MapTypeOK
  <2> QED
    BY <1>0, <1>1, <2>2, FinishOK DEF PutMeta, ThreadsOK, TypeInv, TypeOK
<1>2. CASE Commit(t)
  <2>1. wb[t] \in Batches
    BY <1>0 DEF ThreadsTypeOK
  <2>2. DiskTypeOK' /\ MapTypeOK'
    BY <1>0, <1>2, <2>1, WriteTyped DEF Commit, MapTypeOK
  <2>3. CASE pc[t] = "empty"
    <3>1. /\ Goto(t, "delete") /\ UNCHANGED cmd
          /\ mem' = [mem EXCEPT ![t] = NoMeta] /\ wb' = [wb EXCEPT ![t] = NoBatch]
      BY <1>2, <2>3 DEF Commit
    <3>2. Control(t)'
      BY <1>0, <2>3, <3>1 DEF Control, Goto, ThreadsTypeOK, FlushPcs, Creators, Removers
    <3>3. ThreadsOK'
      BY <1>0, <3>1, <3>2, BatchTyped, MoveOK DEF Pcs
    <3> QED
      BY <2>2, <3>3 DEF ThreadsOK, TypeInv, TypeOK
  <2>4. CASE pc[t] # "empty"
    BY <1>0, <1>2, <2>2, <2>4, FinishOK DEF Commit, ThreadsOK, TypeInv, TypeOK
  <2> QED
    BY <2>3, <2>4
<1> QED
  BY <1>1, <1>2

(* The body of a composite command.                                          *)
LEMMA ExecType ==
    ASSUME TypeInv, NEW t \in Threads, Exec(t)
    PROVE  TypeInv'
<1> DEFINE op == cmd[t].op
           plan == Plan(op, Key(t), mem[t], cmd[t].args)
<1>0. /\ ThreadsOK /\ ThreadsTypeOK /\ Control(t) /\ DiskTypeOK /\ MapTypeOK
      /\ pc[t] = "exec"
  BY DEF TypeInv, TypeOK, ThreadsOK, ControlOK, Exec
<1>1. DiskTypeOK' /\ MapTypeOK'
  BY <1>0 DEF Exec, DiskTypeOK, MapTypeOK, disk
<1>2. op \in Creators \cup Removers /\ mem[t] \in Metas /\ mem[t].type = type_for(op)
  BY <1>0 DEF Control
<1>3. Key(t) \in Keys /\ cmd[t].args \in Args[op]
  BY <1>0, <1>2 DEF Control, Key, ThreadsTypeOK, Ops, Creators, Removers
<1>4. GoodPlan(plan, Key(t), mem[t], op)
  BY <1>0, <1>2, <1>3, PlanGood DEF DiskTypeOK
<1>5. CASE plan.to = "idle"
  BY <1>0, <1>1, <1>5, FinishOK DEF Exec, ThreadsOK, TypeInv, TypeOK
<1>6. CASE plan.to # "idle"
  <2>1. /\ Goto(t, plan.to) /\ UNCHANGED cmd
        /\ mem' = [mem EXCEPT ![t] = NoMeta] /\ wb' = [wb EXCEPT ![t] = plan.batch]
    BY <1>6 DEF Exec
  <2> HIDE DEF plan
  <2>2. pc'[t] = plan.to /\ cmd'[t] = cmd[t] /\ wb'[t] = plan.batch
    BY <1>0, <2>1 DEF Goto, ThreadsTypeOK
  <2>3. Control(t)'
    BY <1>0, <1>2, <1>4, <1>6, <2>2 DEF GoodPlan, Control, FlushPcs, Creators, Removers
  <2>4. ThreadsOK'
    BY <1>0, <1>4, <1>6, <2>1, <2>3, MoveOK DEF GoodPlan, Pcs
  <2> QED
    BY <1>1, <2>4 DEF ThreadsOK, TypeInv, TypeOK
<1> QED
  BY <1>5, <1>6

(* flush_all.                                                                *)
LEMMA FlushType ==
    ASSUME TypeInv, NEW t \in Threads,
           FlushMeta(t) \/ FlushSub(t) \/ FlushIdx(t) \/ FlushWrite(t) \/ FlushClear(t)
    PROVE  TypeInv'
<1>0. /\ ThreadsOK /\ ThreadsTypeOK /\ Control(t) /\ DiskTypeOK /\ MapTypeOK
      /\ wb[t] \in Batches /\ mem[t] \in Metas \cup {NoMeta}
      /\ mem = [mem EXCEPT ![t] = mem[t]]
  BY DEF TypeInv, TypeOK, ThreadsOK, ThreadsTypeOK, ControlOK
<1>1. ASSUME NEW next \in FlushPcs, NEW b \in Batches, b.mput = NoMeta,
             cmd[t].op = "flush", Goto(t, next), UNCHANGED <<cmd, mem>>,
             wb' = [wb EXCEPT ![t] = b]
      PROVE  ThreadsOK'
  <2>1. Control(t)'
    BY <1>0, <1>1 DEF Control, Goto, ThreadsTypeOK, FlushPcs, Creators, Removers
  <2>2. next \in Pcs /\ mem' = [mem EXCEPT ![t] = mem[t]]
    BY <1>0, <1>1 DEF FlushPcs, Pcs
  <2> QED
    BY <1>0, <1>1, <2>1, <2>2, MoveOK
<1>2. CASE FlushMeta(t)
  <2> DEFINE b == [wb[t] EXCEPT !.mdel = {k \in Keys : metas[k] # NoMeta}]
  <2>1. b \in Batches /\ b.mput = wb[t].mput /\ wb' = [wb EXCEPT ![t] = b]
    BY <1>0, <1>2 DEF FlushMeta, Batches
  <2>2. /\ Goto(t, "flushSub") /\ UNCHANGED <<cmd, mem>>
        /\ wb[t].mput = NoMeta /\ cmd[t].op = "flush"
    BY <1>0, <1>2 DEF FlushMeta, Control, FlushPcs
  <2> HIDE DEF b
  <2>3. ThreadsOK'
    BY <1>1, <2>1, <2>2 DEF FlushPcs
  <2> QED
    BY <1>0, <1>2, <2>3
    DEF FlushMeta, ThreadsOK, TypeInv, TypeOK, DiskTypeOK, MapTypeOK, disk
<1>3. CASE FlushSub(t)
  <2> DEFINE b == [wb[t] EXCEPT !.dels = subs]
  <2>1. b \in Batches /\ b.mput = wb[t].mput /\ wb' = [wb EXCEPT ![t] = b]
    BY <1>0, <1>3 DEF FlushSub, Batches, DiskTypeOK
  <2>2. /\ Goto(t, "flushIdx") /\ UNCHANGED <<cmd, mem>>
        /\ wb[t].mput = NoMeta /\ cmd[t].op = "flush"
    BY <1>0, <1>3 DEF FlushSub, Control, FlushPcs
  <2> HIDE DEF b
  <2>3. ThreadsOK'
    BY <1>1, <2>1, <2>2 DEF FlushPcs
  <2> QED
    BY <1>0, <1>3, <2>3
    DEF FlushSub, ThreadsOK, TypeInv, TypeOK, DiskTypeOK, MapTypeOK, disk
<1>4. CASE FlushIdx(t)
  <2> DEFINE b == [wb[t] EXCEPT !.idels = index]
  <2>1. b \in Batches /\ b.mput = wb[t].mput /\ wb' = [wb EXCEPT ![t] = b]
    BY <1>0, <1>4 DEF FlushIdx, Batches, DiskTypeOK
  <2>2. /\ Goto(t, "flushWrite") /\ UNCHANGED <<cmd, mem>>
        /\ wb[t].mput = NoMeta /\ cmd[t].op = "flush"
    BY <1>0, <1>4 DEF FlushIdx, Control, FlushPcs
  <2> HIDE DEF b
  <2>3. ThreadsOK'
    BY <1>1, <2>1, <2>2 DEF FlushPcs
  <2> QED
    BY <1>0, <1>4, <2>3
    DEF FlushIdx, ThreadsOK, TypeInv, TypeOK, DiskTypeOK, MapTypeOK, disk
<1>5. CASE FlushWrite(t)
  <2>1. DiskTypeOK' /\ MapTypeOK'
    BY <1>0, <1>5, WriteTyped DEF FlushWrite, MapTypeOK
  <2>2. /\ Goto(t, "flushClear") /\ UNCHANGED <<cmd, mem>>
        /\ wb' = [wb EXCEPT ![t] = NoBatch] /\ cmd[t].op = "flush"
    BY <1>0, <1>5 DEF FlushWrite, Control, FlushPcs
  <2>3. ThreadsOK'
    BY <1>1, <2>2, BatchTyped DEF FlushPcs
  <2> QED
    BY <2>1, <2>3 DEF ThreadsOK, TypeInv, TypeOK
<1>6. CASE FlushClear(t)
  <2>1. DiskTypeOK' /\ MapTypeOK'
    BY <1>0, <1>6 DEF FlushClear, DiskTypeOK, MapTypeOK, disk
  <2> QED
    BY <1>0, <1>6, <2>1, FinishOK DEF FlushClear, ThreadsOK, TypeInv, TypeOK
<1> QED
  BY <1>2, <1>3, <1>4, <1>5, <1>6

-----------------------------------------------------------------------------
(* Compaction, failures, restarts and the rebuild.                           *)
LEMMA EnvironmentType ==
    ASSUME TypeInv, Booting,
           CompactionDrop \/ compact \/ Restart \/ Boot \/ Tick
    PROVE  TypeInv'
<1>0. ThreadsTypeOK /\ ControlOK /\ DiskTypeOK /\ MapTypeOK
  BY DEF TypeInv, TypeOK
<1>1. ASSUME UNCHANGED local PROVE ThreadsTypeOK' /\ ControlOK'
  BY <1>0, <1>1 DEF ThreadsTypeOK, ControlOK, Control, local
<1>2. CASE CompactionDrop
  BY <1>0, <1>1, <1>2 DEF CompactionDrop, TypeInv, TypeOK, DiskTypeOK, MapTypeOK
<1>3. CASE compact
  BY <1>0, <1>1, <1>3 DEF compact, TypeInv, TypeOK, DiskTypeOK, MapTypeOK
<1>4. CASE Restart
  <2>1. DiskTypeOK' /\ MapTypeOK'
    BY <1>0, <1>4 DEF Restart, RestartClock, DiskTypeOK, MapTypeOK, disk
  <2>2. ThreadsTypeOK'
    BY <1>4, BatchTyped DEF Restart, ThreadsTypeOK, NoCmd, Pcs, Ops, Creators, Removers
  <2>3. ControlOK'
    BY <1>4 DEF Restart, ControlOK, Control, NoCmd, Creators, Removers, FlushPcs
  <2> QED
    BY <2>1, <2>2, <2>3 DEF TypeInv, TypeOK
<1>5. CASE install_gc \/ Serve
  BY <1>0, <1>1, <1>5
  DEF install_gc, Serve, disk, TypeInv, TypeOK, DiskTypeOK, MapTypeOK
<1>6. ASSUME NEW k \in Keys, RebuildKey(k) PROVE TypeInv'
  <2>1. metas[k].ver \in Nat
    BY <1>0, <1>6 DEF Booting, DiskTypeOK, Metas, RebuildKey
  <2> QED
    BY <1>0, <1>1, <1>6, <2>1
    DEF RebuildKey, disk, TypeInv, TypeOK, DiskTypeOK, MapTypeOK
<1>7. CASE Tick
  BY <1>0, <1>1, <1>7 DEF Tick, disk, TypeInv, TypeOK, DiskTypeOK, MapTypeOK
<1> QED
  BY <1>2, <1>3, <1>4, <1>5, <1>6, <1>7 DEF Boot

LEMMA NextType == TypeInv /\ Booting /\ [Next]_vars => TypeInv'
<1> SUFFICES ASSUME TypeInv, Booting, [Next]_vars PROVE TypeInv'
  OBVIOUS
<1>1. ASSUME NEW t \in Threads, Start(t) PROVE TypeInv'
  BY <1>1, BeginType DEF Start
<1>2. ASSUME NEW t \in Threads, Step(t) PROVE TypeInv'
  BY <1>2, LoadType, DeleteType, CreateType, CommitType, ExecType, FlushType DEF Step
<1>3. ASSUME NEW t \in Threads, WriteFails(t) PROVE TypeInv'
  BY <1>3, FinishOK
  DEF WriteFails, ThreadsOK, TypeInv, TypeOK, DiskTypeOK, MapTypeOK, disk
<1>4. CASE UNCHANGED vars
  BY <1>4 DEF vars, TypeInv, TypeOK, DiskTypeOK, MapTypeOK, ThreadsTypeOK, ControlOK, Control
<1> QED
  BY <1>1, <1>2, <1>3, <1>4, EnvironmentType DEF Next

(* The store serves only after the rebuild, and only then do commands run.   *)
LEMMA NextBooting == TypeInv /\ Booting /\ [Next]_vars => Booting'
<1> SUFFICES ASSUME TypeInv, Booting, [Next]_vars PROVE Booting'
  OBVIOUS
<1>0. pc \in [Threads -> Pcs]
  BY DEF TypeInv, TypeOK, ThreadsTypeOK
<1>1. ASSUME boot = "serving", UNCHANGED <<boot, todo>> PROVE Booting'
  BY <1>1 DEF Booting
<1>2. ASSUME NEW t \in Threads, Start(t) PROVE Booting'
  BY <1>1, <1>2 DEF Start, Begin
<1>3. ASSUME NEW t \in Threads, Step(t) \/ WriteFails(t) PROVE Booting'
  <2>1. Running(t)
    BY <1>3 DEF Step, Running, LoadMissing, LoadExpired, LoadFound, DeleteMeta,
       ForgetVersion, Overwrite, Alloc, Drawn, Register, PutMeta, Exec, Commit, FlushMeta,
       FlushSub, FlushIdx, FlushWrite, FlushClear, WriteFails
  <2>2. UNCHANGED <<boot, todo>>
    BY <1>3 DEF Step, LoadMissing, LoadExpired, LoadFound, DeleteMeta,
       ForgetVersion, Overwrite, Alloc, Drawn, Register, PutMeta, Exec, Commit, FlushMeta,
       FlushSub, FlushIdx, FlushWrite, FlushClear, WriteFails
  <2> QED
    BY <1>1, <2>1, <2>2 DEF Booting
<1>4. CASE CompactionDrop \/ compact \/ Tick \/ UNCHANGED vars
  BY <1>4 DEF CompactionDrop, compact, Tick, vars, disk, local, Booting, Running
<1>5. CASE Restart
  BY <1>5 DEF Restart, Booting, Running
<1>6. CASE Boot
  BY <1>6 DEF Boot, install_gc, RebuildKey, Serve, disk, local, Booting, Running
<1> QED
  BY <1>2, <1>3, <1>4, <1>5, <1>6 DEF Next

(* Every reachable state of the store is well typed, for every set of keys,  *)
(* threads, arguments and faults: no count turns negative, every deadline    *)
(* and version stored is a natural number, no record of a version 0 exists.  *)
THEOREM TypeCorrect == Spec => []TypeOK
<1>1. TypeInv => TypeOK
  BY DEF TypeInv
<1>2. Init => Booting
  BY DEF Init, Booting, Running
<1> QED
  BY InitType, NextType, NextBooting, <1>1, <1>2, PTL DEF Spec
=============================================================================
