-------------------------- MODULE RefinementProofs --------------------------
(***************************************************************************)
(* The store implements the atomic key map, and every command tells its    *)
(* client what the abstract command would.                                 *)
(***************************************************************************)
EXTENDS ReadProofs, StoreRefinement, SequenceTheorems, WellFoundedInduction

-----------------------------------------------------------------------------
(* The value of a key. *)

\* The thread is the SET that is replacing k.
Replacing(t, k) == Key(t) = k /\ cmd[t].op = "set" /\ pc[t] \in {"alloc", "put"}

\* The value a SET stores, and the value that is on disk.
SetValue(c) == [type |-> "string", content |-> c.args.val, exp |-> c.exp]

DiskValue(m, S) ==
    IF m = NoMeta \/ (m.type # "string" /\ S = {}) THEN Nothing
    ELSE [type |-> m.type, content |-> Content(m, S), exp |-> m.exp]

(* A key has the value its SET stores, or the one on disk.                   *)
LEMMA ValueFacts ==
    ContentInv =>
        \A k \in Keys :
            /\ \A t \in Threads : Replacing(t, k) => Value(k) = SetValue(cmd[t])
            /\ (\A t \in Threads : ~Replacing(t, k)) =>
                  Value(k) = DiskValue(metas[k], scan(k, metas[k].ver))
<1> SUFFICES ASSUME ContentInv, NEW k \in Keys
             PROVE  /\ \A t \in Threads : Replacing(t, k) => Value(k) = SetValue(cmd[t])
                    /\ (\A t \in Threads : ~Replacing(t, k)) =>
                          Value(k) = DiskValue(metas[k], scan(k, metas[k].ver))
  OBVIOUS
<1>1. Overwriting(k) <=> \E t \in Threads : Replacing(t, k)
  BY DEF Overwriting, Replacing
<1>2. ASSUME NEW t \in Threads, Replacing(t, k) PROVE Value(k) = SetValue(cmd[t])
  <2> DEFINE w == CHOOSE u \in Threads : Key(u) = k
  <2>1. w \in Threads /\ Key(w) = k
    BY <1>2 DEF Replacing
  <2>2. \A u \in Threads : Key(u) = k => Running(u)
    BY BaseAssumption DEF ContentInv, MapInv, GcInv, TypeInv, ControlOK, Control, Running, Key
  <2>3. w = t
    BY <1>2, <2>1, <2>2 DEF Replacing, ContentInv, MapInv, GcInv, Exclusive
  <2>4. Value(k) = SetValue(cmd[w])
    BY <1>1, <1>2 DEF Value, SetValue
  <2> QED
    BY <2>3, <2>4
<1>3. ASSUME \A t \in Threads : ~Replacing(t, k)
      PROVE  Value(k) = DiskValue(metas[k], scan(k, metas[k].ver))
  <2>1. ~Overwriting(k)
    BY <1>1, <1>3
  <2> QED
    BY <2>1 DEF Value, DiskValue
<1> QED
  BY <1>2, <1>3

(* The same in the next state.                                               *)
LEMMA ValueFactsNext ==
    ContentInv' =>
        \A k \in Keys :
            /\ \A t \in Threads : Replacing(t, k)' => Value(k)' = SetValue(cmd'[t])
            /\ (\A t \in Threads : ~Replacing(t, k)') =>
                  Value(k)' = DiskValue(metas'[k], scan(k, metas[k].ver)')
<1> DEFINE F == \A k \in Keys :
            /\ \A t \in Threads : Replacing(t, k) => Value(k) = SetValue(cmd[t])
            /\ (\A t \in Threads : ~Replacing(t, k)) =>
                  Value(k) = DiskValue(metas[k], scan(k, metas[k].ver))
<1>1. ContentInv => F
  BY ValueFacts
<1> HIDE DEF F
<1>2. ContentInv' => F'
  BY <1>1, PTL
<1> USE DEF F
<1> QED
  BY <1>2 DEF SetValue, DiskValue, Content

(* A key keeps its value while its metadata, the records they own and the    *)
(* SET replacing it stay as they are.                                        *)
LEMMA SameValue ==
    ASSUME ContentInv, ContentInv', NEW k \in Keys, metas'[k] = metas[k],
           metas[k] # NoMeta /\ (\A t \in Threads : ~Replacing(t, k)) =>
               scan(k, metas[k].ver)' = scan(k, metas[k].ver),
           \A t \in Threads : Replacing(t, k)' <=> Replacing(t, k),
           \A t \in Threads : Replacing(t, k) => cmd'[t] = cmd[t]
    PROVE  Value(k)' = Value(k)
<1>1. CASE \E t \in Threads : Replacing(t, k)
  <2>1. PICK t \in Threads : Replacing(t, k)
    BY <1>1
  <2>2. Value(k) = SetValue(cmd[t]) /\ Value(k)' = SetValue(cmd'[t])
    BY <2>1, ValueFacts, ValueFactsNext
  <2> QED
    BY <2>1, <2>2
<1>2. CASE \A t \in Threads : ~Replacing(t, k)
  <2>1. /\ Value(k) = DiskValue(metas[k], scan(k, metas[k].ver))
        /\ Value(k)' = DiskValue(metas'[k], scan(k, metas[k].ver)')
    BY <1>2, ValueFacts, ValueFactsNext
  <2>2. CASE metas[k] = NoMeta
    BY <2>1, <2>2 DEF DiskValue
  <2>3. CASE metas[k] # NoMeta
    BY <1>2, <2>1, <2>3
  <2> QED
    BY <2>2, <2>3
<1> QED
  BY <1>1, <1>2

(* A step that changes no value changes nothing a client sees.               *)
LEMMA SameDatabase ==
    ASSUME \A k \in Keys : Value(k)' = Value(k)
    PROVE  Database' = Database
  BY DEF Database

(* A step of a command on k changes at most the value of k.                  *)
LEMMA OneValue ==
    ASSUME ContentInv, ContentInv', NEW t \in Threads, NEW k \in Keys, k = Key(t),
           \A u \in Threads \ {t} : pc'[u] = pc[u] /\ cmd'[u] = cmd[u],
           cmd'[t].key \in {k, NoKey},
           \A x \in Keys \ {k} : metas'[x] = metas[x],
           \A x, v : x # k => scan(x, v)' = scan(x, v)
    PROVE  Database' = [Database EXCEPT ![k] = Value(k)']
<1>1. ASSUME NEW x \in Keys \ {k} PROVE Value(x)' = Value(x)
  <2>1. metas'[x] = metas[x]
    OBVIOUS
  <2>2. scan(x, metas[x].ver)' = scan(x, metas[x].ver)
    <3>1. scan(x, metas[x].ver)' = {r \in subs' : r.key = x /\ r.ver = metas[x].ver}
      BY <2>1 DEF scan
    <3>2. \A v : {r \in subs' : r.key = x /\ r.ver = v} = scan(x, v)
      BY DEF scan
    <3> QED
      BY <3>1, <3>2
  <2>3. \A u \in Threads : /\ Replacing(u, x)' <=> Replacing(u, x)
                           /\ Replacing(u, x) => cmd'[u] = cmd[u]
    BY BaseAssumption DEF Replacing, Key
  <2> QED
    BY <2>1, <2>2, <2>3, SameValue
<1> QED
  BY <1>1 DEF Database

-----------------------------------------------------------------------------
(* What the write of a body does to the content. *)

LEMMA AfterPuts ==
    ASSUME NEW S, NEW b, b.dels = {},
           \A r, s \in S \cup b.puts : r.key = s.key /\ r.ver = s.ver
    PROVE  SubsAfter(S, b) = {r \in S : r.field \notin FieldsOf(b.puts)} \cup b.puts
  BY DEF SubsAfter, SameSub, FieldsOf

LEMMA AfterDels ==
    ASSUME NEW S, NEW b, b.puts = {}, b.dels \subseteq S, OnePer(S)
    PROVE  SubsAfter(S, b) = S \ b.dels
  BY DEF SubsAfter, SameSub, OnePer

LEMMA SameCardinality == \A S : Abstract!Cardinality(S) = Cardinality(S)
  BY DEF Cardinality, Abstract!Cardinality

LEMMA SameNumber == \A s : Abstract!Number(s) = Number(s)
  BY DEF Number, Abstract!Number

\* The batch of a removing body.
LEMMA ShrinkBatch ==
    ASSUME NEW m, NEW n, NEW D, NEW X, NEW p, p = Shrink(m, n, Dels(D, X)), p.to # "idle"
    PROVE  p.batch.puts = {} /\ p.batch.dels = D
<1>1. \A mm : [Dels(D, X) EXCEPT !.mput = mm].puts = {} /\ [Dels(D, X) EXCEPT !.mput = mm].dels = D
  BY DEF Dels
<1>2. Dels(D, X).puts = {} /\ Dels(D, X).dels = D
  BY DEF Dels
<1> QED
  BY <1>1, <1>2 DEF Shrink, Write, WriteLast, NoWrite

LEMMA SaddEffect ==
    ASSUME NEW k \in Keys, NEW m, Describes(k, m), m.type = "set", NEW a \in sadd_args,
           NEW p, p = sadd(k, m, a), p.to # "idle"
    PROVE  Content(m, SubsAfter(scan(k, m.ver), p.batch))
               = Abstract!Apply("sadd", Content(m, scan(k, m.ver)), a)
<1> DEFINE v == m.ver
           S == scan(k, v)
           A == {a[i] : i \in DOMAIN a}
           added == {x \in A : ~has(k, v, x)}
           P == {Sub(k, v, x, NoVal) : x \in added}
           b == p.batch
           R == SubsAfter(S, b)
<1>1. b.puts = P /\ b.dels = {}
  BY DEF sadd, Write, NoWrite, Puts
<1>2. \A r \in S : r.key = k /\ r.ver = v
  BY ScanOwn
<1>3. \A r \in P : r.key = k /\ r.ver = v
  BY DEF Sub
<1>4. FieldsOf(P) = added
  <2>1. \A x : Sub(k, v, x, NoVal).field = x
    BY DEF Sub
  <2> HIDE DEF added
  <2> QED
    BY <2>1 DEF FieldsOf
<1>5. added = A \ FieldsOf(S)
  BY HasField
<1> HIDE DEF P, S, A, added, b
<1>6. R = {r \in S : r.field \notin FieldsOf(P)} \cup P
  BY <1>1, <1>2, <1>3, AfterPuts
<1>7. FieldsOf(R) = FieldsOf(S) \cup A
  <2>1. FieldsOf(R) = {x \in FieldsOf(S) : x \notin FieldsOf(P)} \cup FieldsOf(P)
    BY <1>6 DEF FieldsOf
  <2> QED
    BY <1>4, <1>5, <2>1
<1>8. Content(m, R) = FieldsOf(R) /\ Content(m, S) = FieldsOf(S)
  BY DEF Content, FieldsOf
<1>9. Abstract!Apply("sadd", Content(m, S), a) = Content(m, S) \cup A
  BY DEF Abstract!Apply, Abstract!ToSet, A
<1> QED
  BY <1>7, <1>8, <1>9 DEF S, b

LEMMA SremEffect ==
    ASSUME NEW k \in Keys, NEW m, Describes(k, m), m.type = "set", NEW a \in srem_args,
           NEW p, p = srem(k, m, a), p.to # "idle"
    PROVE  Content(m, SubsAfter(scan(k, m.ver), p.batch))
               = Abstract!Apply("srem", Content(m, scan(k, m.ver)), a)
<1> DEFINE v == m.ver
           S == scan(k, v)
           A == {a[i] : i \in DOMAIN a}
           removed == {x \in A : has(k, v, x)}
           D == {r \in S : r.field \in removed}
           b == p.batch
           R == SubsAfter(S, b)
<1>1. b.puts = {} /\ b.dels = D
  <2>1. p = Shrink(m, Cardinality(removed), Dels(D, {}))
    BY DEF srem
  <2> HIDE DEF removed, D
  <2> QED
    BY <2>1, ShrinkBatch
<1>2. OnePer(S)
  BY DEF Describes, Fits, OnePer
<1>3. removed = A \cap FieldsOf(S)
  BY HasField
<1> HIDE DEF S, A, removed, b
<1>4. R = S \ D
  BY <1>1, <1>2, AfterDels
<1>5. FieldsOf(R) = FieldsOf(S) \ A
  BY <1>2, <1>3, <1>4 DEF FieldsOf, OnePer
<1>6. Content(m, R) = FieldsOf(R) /\ Content(m, S) = FieldsOf(S)
  BY DEF Content, FieldsOf
<1>7. Abstract!Apply("srem", Content(m, S), a) = Content(m, S) \ A
  BY DEF Abstract!Apply, Abstract!ToSet, A
<1> QED
  BY <1>5, <1>6, <1>7 DEF S, b

(* Of several pairs for one field the last is stored, and the others leave   *)
(* no trace.                                                                 *)
LEMMA HsetEffect ==
    ASSUME NEW k \in Keys, NEW m, Describes(k, m), m.type = "hash", NEW a \in hset_args,
           NEW p, p = hset(k, m, a)
    PROVE  Content(m, SubsAfter(scan(k, m.ver), p.batch))
               = Abstract!Apply("hset", Content(m, scan(k, m.ver)), a)
<1> DEFINE v == m.ver
           S == scan(k, v)
           final == {i \in DOMAIN a : \A j \in DOMAIN a : j > i => a[j].field # a[i].field}
           sub(i) == Sub(k, v, a[i].field, a[i].val)
           P == {sub(i) : i \in final}
           N == {<<a[i].field, a[i].val>> : i \in final}
           C == Content(m, S)
           b == p.batch
           R == SubsAfter(S, b)
<1>1. b.puts = P /\ b.dels = {}
  BY DEF hset, Write, Puts
<1>2. \A r \in S : r.key = k /\ r.ver = v
  BY ScanOwn
<1>3. \A i : /\ sub(i).key = k /\ sub(i).ver = v
             /\ sub(i).field = a[i].field /\ sub(i).val = a[i].val
  BY DEF Sub
<1>4. Abstract!FieldPairs(a) = N
  <2>1. DOMAIN a \subseteq Nat
    BY DEF hset_args, NonEmptySeq
  <2>2. final = {i \in DOMAIN a : \A j \in DOMAIN a : a[j].field = a[i].field => j <= i}
    BY <2>1
  <2> HIDE DEF final
  <2> QED
    BY <2>2 DEF Abstract!FieldPairs
<1> HIDE DEF S, sub, final, b
<1>5. R = {r \in S : r.field \notin FieldsOf(P)} \cup P
  <2>1. \A r \in P : r.key = k /\ r.ver = v
    BY <1>3
  <2> HIDE DEF P
  <2> QED
    BY <1>1, <1>2, <2>1, AfterPuts
<1>6. Abstract!Members(N) = FieldsOf(P)
  <2>1. FieldsOf(P) = {a[i].field : i \in final}
    BY <1>3 DEF FieldsOf
  <2>2. Abstract!Members(N) = {a[i].field : i \in final}
    <3>1. \A q \in N : \E i \in final : q[1] = a[i].field
      OBVIOUS
    <3>2. ASSUME NEW i \in final PROVE \E q \in N : q[1] = a[i].field
      <4>1. <<a[i].field, a[i].val>> \in N
        BY <3>2
      <4> QED
        BY <4>1
    <3> HIDE DEF N
    <3> QED
      BY <3>1, <3>2 DEF Abstract!Members
  <2> QED
    BY <2>1, <2>2
<1>7. C = {<<r.field, r.val>> : r \in S} /\ Content(m, R) = {<<r.field, r.val>> : r \in R}
  BY DEF Content
<1>8. {<<r.field, r.val>> : r \in P} = N
  BY <1>3
<1> HIDE DEF P, N, R, C
<1>9. Content(m, R) = {q \in C : q[1] \notin FieldsOf(P)} \cup N
  <2> DEFINE T == {r \in S : r.field \notin FieldsOf(P)}
  <2>1. Content(m, R) = {<<r.field, r.val>> : r \in T} \cup N
    BY <1>5, <1>7, <1>8
  <2>2. {<<r.field, r.val>> : r \in T} = {q \in C : q[1] \notin FieldsOf(P)}
    BY <1>7
  <2> QED
    BY <2>1, <2>2
<1>10. Abstract!Apply("hset", C, a) = {q \in C : q[1] \notin Abstract!Members(N)} \cup N
  <2>1. Abstract!Apply("hset", C, a) = Abstract!Bind(C, N)
    BY <1>4 DEF Abstract!Apply
  <2> QED
    BY <2>1 DEF Abstract!Bind
<1> QED
  BY <1>6, <1>9, <1>10 DEF S, b, R, C

LEMMA HdelEffect ==
    ASSUME NEW k \in Keys, NEW m, Describes(k, m), m.type = "hash", NEW a \in hdel_args,
           NEW p, p = hdel(k, m, a), p.to # "idle"
    PROVE  Content(m, SubsAfter(scan(k, m.ver), p.batch))
               = Abstract!Apply("hdel", Content(m, scan(k, m.ver)), a)
<1> DEFINE v == m.ver
           S == scan(k, v)
           A == {a[i] : i \in DOMAIN a}
           removed == {i \in DOMAIN a : has(k, v, a[i])}
           D == {r \in S : \E i \in removed : a[i] = r.field}
           b == p.batch
           R == SubsAfter(S, b)
<1>1. b.puts = {} /\ b.dels = D
  <2>1. p = Shrink(m, Cardinality(removed), Dels(D, {}))
    BY DEF hdel
  <2> HIDE DEF removed, D
  <2> QED
    BY <2>1, ShrinkBatch
<1>2. OnePer(S)
  BY DEF Describes, Fits, OnePer
<1>3. D = {r \in S : r.field \in A}
  <2>1. \A r \in S : has(k, v, r.field)
    BY HasField DEF FieldsOf
  <2> HIDE DEF S
  <2> QED
    BY <2>1
<1> HIDE DEF S, A, D, b
<1>4. R = S \ D
  BY <1>1, <1>2, <1>3, AfterDels
<1>5. Content(m, R) = {<<r.field, r.val>> : r \in R} /\ Content(m, S) = {<<r.field, r.val>> : r \in S}
  BY DEF Content
<1>6. Abstract!Apply("hdel", Content(m, S), a) = {q \in Content(m, S) : q[1] \notin A}
  BY DEF Abstract!Apply, Abstract!ToSet, A
<1>7. {<<r.field, r.val>> : r \in R} = {q \in {<<r.field, r.val>> : r \in S} : q[1] \notin A}
  BY <1>3, <1>4
<1> QED
  BY <1>5, <1>6, <1>7 DEF S, b

(* A member that already has the number it is given keeps its record, even   *)
(* when the two zeros differ: the abstract content is the same.              *)
LEMMA ZaddEffect ==
    ASSUME NEW k \in Keys, NEW m, Describes(k, m), m.type = "zset", NEW a \in zadd_args,
           NEW p, p = zadd(k, m, a), p.to # "idle"
    PROVE  Content(m, SubsAfter(scan(k, m.ver), p.batch))
               = Abstract!Apply("zadd", Content(m, scan(k, m.ver)), a)
<1> DEFINE v == m.ver
           S == scan(k, v)
           E == effective(a)
           old(e) == Stored(k, v, e.member)
           added == {e \in E : old(e) = {}}
           moved == {e \in E : \E r \in old(e) : ~same_score(r.val, e.score)}
           put == added \cup moved
           sub(e) == Sub(k, v, e.member, encode_score(e.score))
           P == {sub(e) : e \in put}
           num(r) == Number(decode_score(r.val))
           N == {<<e.member, Number(e.score)>> : e \in E}
           C == Content(m, S)
           b == p.batch
           R == SubsAfter(S, b)
<1>1. b.puts = P /\ b.dels = {}
  BY DEF zadd, Write, NoWrite, Puts
<1>2. \A r \in S : r.key = k /\ r.ver = v
  BY ScanOwn
<1>3. /\ \A e \in E : e.score \in Scores
      /\ \A e, f \in E : e.member = f.member => e = f
  BY EffectivePairs
<1>4. \A e \in E : decode_score(encode_score(e.score)) = e.score
  BY <1>3, CodecCorrect DEF CodecOrders
<1>5. \A e : /\ sub(e).key = k /\ sub(e).ver = v
             /\ sub(e).field = e.member /\ sub(e).val = encode_score(e.score)
  BY DEF Sub
<1>6. OnePer(S)
  BY DEF Describes, Fits, OnePer
<1>7. \A e \in E : e \notin put =>
          \E r \in S : r.field = e.member /\ num(r) = Number(e.score)
  BY DEF Stored, same_score
<1>8. \A e \in put : e \in E
  OBVIOUS
<1>9. Abstract!MemberPairs(a) = N
  <2> DEFINE last == {i \in DOMAIN a : \A j \in DOMAIN a : j > i => a[j].member # a[i].member}
  <2>1. DOMAIN a \subseteq Nat
    BY DEF zadd_args, NonEmptySeq
  <2>2. last = {i \in DOMAIN a : \A j \in DOMAIN a : a[j].member = a[i].member => j <= i}
    BY <2>1
  <2>3. E = {a[i] : i \in last}
    BY DEF effective
  <2> HIDE DEF last, E
  <2>4. Abstract!MemberPairs(a) = {<<a[i].member, Number(a[i].score)>> : i \in last}
    BY <2>2, SameNumber DEF Abstract!MemberPairs
  <2> QED
    BY <2>3, <2>4
<1> HIDE DEF S, E, sub, put, b, num
<1>10. R = {r \in S : r.field \notin FieldsOf(P)} \cup P
  <2>1. \A r \in P : r.key = k /\ r.ver = v
    BY <1>5
  <2> HIDE DEF P
  <2> QED
    BY <1>1, <1>2, <2>1, AfterPuts
<1>11. \A x : x \in FieldsOf(P) <=> \E e \in put : e.member = x
  BY <1>5 DEF FieldsOf
<1>12. \A x : x \in Abstract!Members(N) <=> \E e \in E : e.member = x
  <2>1. \A q \in N : \E e \in E : q[1] = e.member
    OBVIOUS
  <2>2. ASSUME NEW e \in E PROVE \E q \in N : q[1] = e.member
    <3>1. <<e.member, Number(e.score)>> \in N
      BY <2>2
    <3> QED
      BY <3>1
  <2> HIDE DEF N
  <2> QED
    BY <2>1, <2>2 DEF Abstract!Members
<1>13. C = {<<r.field, num(r)>> : r \in S} /\ Content(m, R) = {<<r.field, num(r)>> : r \in R}
  BY DEF Content, num
<1>14. \A r \in P : \E e \in put : r.field = e.member /\ num(r) = Number(e.score)
  BY <1>4, <1>5, <1>8 DEF num
<1>15. \A e \in put : \E r \in P : r.field = e.member /\ num(r) = Number(e.score)
  BY <1>4, <1>5, <1>8 DEF num
<1> DEFINE K == {q \in C : q[1] \notin Abstract!Members(N)}
<1>16. \A r \in R : <<r.field, num(r)>> \in K \cup N
  <2> SUFFICES ASSUME NEW r \in R PROVE <<r.field, num(r)>> \in K \cup N
    OBVIOUS
  <2>1. CASE r \in P
    <3>1. PICK e \in put : r.field = e.member /\ num(r) = Number(e.score)
      BY <1>14, <2>1
    <3> QED
      BY <1>8, <3>1
  <2>2. CASE r \in S /\ r.field \notin FieldsOf(P)
    <3>1. <<r.field, num(r)>> \in C
      BY <1>13, <2>2
    <3>2. CASE \E e \in E : e.member = r.field
      <4>1. PICK e \in E : e.member = r.field
        BY <3>2
      <4>2. e \notin put
        BY <1>11, <2>2, <4>1
      <4>3. PICK s \in S : s.field = e.member /\ num(s) = Number(e.score)
        BY <1>7, <4>2
      <4>4. s = r
        BY <1>6, <2>2, <4>1, <4>3 DEF OnePer
      <4> QED
        BY <4>1, <4>3, <4>4
    <3>3. CASE ~\E e \in E : e.member = r.field
      <4>1. r.field \notin Abstract!Members(N)
        BY <1>12, <3>3
      <4> HIDE DEF C, N
      <4> QED
        BY <3>1, <4>1
    <3> QED
      BY <3>2, <3>3
  <2> QED
    BY <1>10, <2>1, <2>2
<1>17. \A q \in N : \E r \in R : q = <<r.field, num(r)>>
  <2> SUFFICES ASSUME NEW e \in E PROVE \E r \in R : r.field = e.member /\ num(r) = Number(e.score)
    OBVIOUS
  <2>1. CASE e \in put
    BY <1>10, <1>15, <2>1
  <2>2. CASE e \notin put
    <3>1. PICK r \in S : r.field = e.member /\ num(r) = Number(e.score)
      BY <1>7, <2>2
    <3>2. r.field \notin FieldsOf(P)
      BY <1>3, <1>8, <1>11, <2>2, <3>1
    <3> QED
      BY <1>10, <3>1, <3>2
  <2> QED
    BY <2>1, <2>2
<1>18. \A q \in K : \E r \in R : q = <<r.field, num(r)>>
  <2> SUFFICES ASSUME NEW q \in K PROVE \E r \in R : q = <<r.field, num(r)>>
    OBVIOUS
  <2> HIDE DEF C, N
  <2>1. PICK r \in S : q = <<r.field, num(r)>>
    BY <1>13
  <2>2. r.field \notin Abstract!Members(N)
    BY <2>1
  <2>3. r.field \notin FieldsOf(P)
    BY <1>8, <1>11, <1>12, <2>2
  <2> QED
    BY <1>10, <2>1, <2>3
<1> HIDE DEF C, N, R, K
<1>19. Content(m, R) = K \cup N
  BY <1>13, <1>16, <1>17, <1>18
<1>20. Abstract!Apply("zadd", C, a) = Abstract!Bind(C, N)
  BY <1>9 DEF Abstract!Apply
<1>21. Abstract!Bind(C, N) = K \cup N
  BY DEF Abstract!Bind, K
<1> QED
  BY <1>19, <1>20, <1>21 DEF S, b, R, C

LEMMA ZremEffect ==
    ASSUME NEW k \in Keys, NEW m, Describes(k, m), m.type = "zset", NEW a \in zrem_args,
           NEW p, p = zrem(k, m, a), p.to # "idle"
    PROVE  Content(m, SubsAfter(scan(k, m.ver), p.batch))
               = Abstract!Apply("zrem", Content(m, scan(k, m.ver)), a)
<1> DEFINE v == m.ver
           S == scan(k, v)
           A == {a[i] : i \in DOMAIN a}
           removed == {x \in A : has(k, v, x)}
           D == {r \in S : r.field \in removed}
           X == {Idx(k, v, r.val, r.field) : r \in D}
           num(r) == Number(decode_score(r.val))
           b == p.batch
           R == SubsAfter(S, b)
<1>1. b.puts = {} /\ b.dels = D
  <2>1. p = Shrink(m, Cardinality(removed), Dels(D, X))
    BY DEF zrem, NoWrite
  <2> HIDE DEF removed, D, X
  <2> QED
    BY <2>1, ShrinkBatch
<1>2. OnePer(S)
  BY DEF Describes, Fits, OnePer
<1>3. D = {r \in S : r.field \in A}
  <2>1. \A r \in S : has(k, v, r.field)
    BY HasField DEF FieldsOf
  <2> HIDE DEF S
  <2> QED
    BY <2>1
<1> HIDE DEF S, A, D, b, num
<1>4. R = S \ D
  BY <1>1, <1>2, <1>3, AfterDels
<1>5. Content(m, R) = {<<r.field, num(r)>> : r \in R} /\ Content(m, S) = {<<r.field, num(r)>> : r \in S}
  BY DEF Content, num
<1>6. Abstract!Apply("zrem", Content(m, S), a) = {q \in Content(m, S) : q[1] \notin A}
  BY DEF Abstract!Apply, Abstract!ToSet, A
<1>7. {<<r.field, num(r)>> : r \in R} = {q \in {<<r.field, num(r)>> : r \in S} : q[1] \notin A}
  BY <1>3, <1>4
<1> QED
  BY <1>5, <1>6, <1>7 DEF S, b

-----------------------------------------------------------------------------
(* Lists: the content is a sequence, one element per index. *)

LEMMA FunctionSeq ==
    ASSUME NEW S, NEW n \in Nat, NEW f \in [1 .. n -> S]
    PROVE  f \in Seq(S) /\ Len(f) = n
  OBVIOUS

\* The value of the record at index f.
At(S, f) == (CHOOSE r \in S : r.field = f).val

LEMMA AtRecord ==
    ASSUME NEW S, OnePer(S), NEW r \in S
    PROVE  At(S, r.field) = r.val
<1> DEFINE s == CHOOSE x \in S : x.field = r.field
<1>1. s \in S /\ s.field = r.field
  OBVIOUS
<1> HIDE DEF s
<1>2. s = r
  BY <1>1 DEF OnePer
<1> QED
  BY <1>2 DEF At, s

(* A list that fits its records is a sequence of their values.               *)
LEMMA ListContent ==
    ASSUME NEW S, NEW I, NEW m \in Metas, m.type = "list", Fits(S, I, m),
           \A r \in S : r.val \in SubVals
    PROVE  LET c == Content(m, S) IN
           /\ c \in Seq(SubVals) /\ Len(c) = m.tail - m.head /\ Len(c) \in Nat
           /\ \A i \in 1 .. Len(c) : c[i] = At(S, m.head + i - 1)
           /\ c = <<>> <=> S = {}
<1> DEFINE n == m.tail - m.head
           c == [i \in 1 .. n |-> At(S, m.head + i - 1)]
<1>1. Content(m, S) = c
  BY DEF Content, At
<1>2. n \in Nat /\ m.head \in Int /\ m.tail \in Int
  BY DEF Fits, Metas
<1>3. OnePer(S) /\ FieldsOf(S) = m.head .. m.tail - 1
  BY DEF Fits, OnePer, FieldsOf
<1>4. ASSUME NEW i \in 1 .. n PROVE At(S, m.head + i - 1) \in SubVals
  <2>1. m.head + i - 1 \in FieldsOf(S)
    BY <1>2, <1>3
  <2>2. PICK r \in S : r.field = m.head + i - 1
    BY <2>1 DEF FieldsOf
  <2>3. At(S, m.head + i - 1) = r.val
    BY <1>3, <2>2, AtRecord
  <2> QED
    BY <2>3
<1>5. c \in [1 .. n -> SubVals]
  BY <1>4
<1>6. c \in Seq(SubVals) /\ Len(c) = n
  <2> HIDE DEF c, n
  <2> QED
    BY <1>2, <1>5, FunctionSeq
<1>7. \A i \in 1 .. n : c[i] = At(S, m.head + i - 1)
  OBVIOUS
<1>8. S = {} <=> n = 0
  BY <1>2, <1>3 DEF FieldsOf
<1> HIDE DEF c
<1>9. c = <<>> <=> n = 0
  BY <1>6
<1> QED
  BY <1>1, <1>2, <1>6, <1>7, <1>8, <1>9

(* push on the left puts the last of its values first.                       *)
LEMMA PushLeftEffect ==
    ASSUME NEW k \in Keys, NEW m, Describes(k, m), m.type = "list", NEW a \in push_args,
           NEW p, p = push(k, m, a, TRUE)
    PROVE  Content(p.batch.mput, SubsAfter(scan(k, m.ver), p.batch))
               = Abstract!Apply("lpush", Content(m, scan(k, m.ver)), a)
<1> DEFINE v == m.ver
           S == scan(k, v)
           I == scan_index(k, v)
           n == Len(a)
           sub(i) == Sub(k, v, m.head - i, a[i])
           P == {sub(i) : i \in 1 .. n}
           mm == [m EXCEPT !.head = m.head - n]
           b == p.batch
           R == SubsAfter(S, b)
           J == IndexAfter(I, b)
           c == Content(m, S)
           d == Content(mm, R)
           e == Abstract!Reverse(a)
<1>1. b.puts = P /\ b.dels = {} /\ b.mput = mm /\ p.to = "commit"
  BY DEF push, Write, Puts
<1>2. \A r \in S : r.key = k /\ r.ver = v
  BY ScanOwn
<1>3. \A i : /\ sub(i).key = k /\ sub(i).ver = v
             /\ sub(i).field = m.head - i /\ sub(i).val = a[i]
  BY DEF Sub
<1>4. a \in Seq(Values) /\ n \in Nat
  BY DEF push_args, NonEmptySeq
<1>5. m \in Metas /\ Fits(S, I, m) /\ \A r \in S : r.val \in SubVals
  BY DEF Describes, scan, SubRecs
<1>6. Fits(R, J, mm)
  <2>1. BodyKeeps(p, k, m)
    BY PushKeeps
  <2> QED
    BY <1>1, <2>1 DEF BodyKeeps
<1>7. /\ mm \in Metas /\ mm.head = m.head - n /\ mm.tail = m.tail /\ mm.type = "list"
      /\ m.head \in Int /\ m.tail \in Int /\ m.head <= m.tail
  BY <1>4, <1>5 DEF Metas, Fits
<1>8. OnePer(S) /\ OnePer(R)
  BY <1>5, <1>6 DEF Fits, OnePer
<1>9. FieldsOf(S) = m.head .. m.tail - 1
  BY <1>5 DEF Fits, FieldsOf
<1> HIDE DEF S, I, sub, b, mm, J, n
<1>10. R = {r \in S : r.field \notin FieldsOf(P)} \cup P
  <2>1. \A r \in P : r.key = k /\ r.ver = v
    BY <1>3
  <2> HIDE DEF P
  <2> QED
    BY <1>1, <1>2, <2>1, AfterPuts
<1>11. S \subseteq R
  <2>1. \A r \in S : r.field \in m.head .. m.tail - 1
    BY <1>9 DEF FieldsOf
  <2>2. \A f \in FieldsOf(P) : f < m.head
    BY <1>3, <1>4, <1>7 DEF FieldsOf
  <2> HIDE DEF P
  <2> QED
    BY <1>7, <1>10, <2>1, <2>2
<1>12. \A r \in P : r.val \in SubVals
  BY <1>3, <1>4 DEF SubVals, n
<1>13. \A r \in R : r.val \in SubVals
  BY <1>5, <1>10, <1>12
<1>14. /\ c \in Seq(SubVals) /\ Len(c) = m.tail - m.head /\ Len(c) \in Nat
       /\ \A i \in 1 .. Len(c) : c[i] = At(S, m.head + i - 1)
  BY <1>5, ListContent
<1> HIDE DEF R
<1>15. /\ d \in Seq(SubVals) /\ Len(d) = m.tail - m.head + n
       /\ \A i \in 1 .. Len(d) : d[i] = At(R, m.head - n + i - 1)
  BY <1>4, <1>6, <1>7, <1>13, ListContent
<1>16. e \in Seq(SubVals) /\ Len(e) = n /\ \A i \in 1 .. n : e[i] = a[n - i + 1]
  <2> DEFINE g == [i \in 1 .. n |-> a[n - i + 1]]
  <2>1. e = g
    BY DEF Abstract!Reverse, n
  <2>2. g \in [1 .. n -> SubVals]
    BY <1>4 DEF SubVals, n
  <2>3. g \in Seq(SubVals) /\ Len(g) = n
    BY <1>4, <2>2, FunctionSeq
  <2> QED
    BY <2>1, <2>3
<1> HIDE DEF c, d, e
<1>17. /\ e \o c \in Seq(SubVals) /\ Len(e \o c) = n + Len(c)
       /\ \A i \in 1 .. n + Len(c) : (e \o c)[i] = IF i <= n THEN e[i] ELSE c[i - n]
  BY <1>14, <1>16, ConcatProperties
<1>18. ASSUME NEW i \in 1 .. Len(d) PROVE d[i] = (e \o c)[i]
  <2>1. d[i] = At(R, m.head - n + i - 1)
    BY <1>15
  <2>2. CASE i <= n
    <3> DEFINE r == sub(n - i + 1)
    <3>1. r \in P
      BY <1>4, <2>2
    <3>2. r.field = m.head - n + i - 1 /\ r.val = a[n - i + 1]
      BY <1>3, <1>4, <1>7
    <3>3. At(R, m.head - n + i - 1) = a[n - i + 1]
      <4>1. r \in R
        BY <1>10, <3>1
      <4> HIDE DEF r
      <4> QED
        BY <1>8, <3>2, <4>1, AtRecord
    <3> QED
      BY <1>4, <1>14, <1>16, <1>17, <2>1, <2>2, <3>3
  <2>3. CASE i > n
    <3>0. PICK h, u : h = m.head /\ u = m.tail
      OBVIOUS
    <3>a. h \in Int /\ u \in Int /\ i \in Int /\ i <= u - h + n
      BY <1>4, <1>7, <1>15, <3>0
    <3>b. h - n + i - 1 \in h .. u - 1
      BY <1>4, <2>3, <3>a
    <3>1. m.head - n + i - 1 \in FieldsOf(S)
      BY <1>9, <3>0, <3>b
    <3>2. PICK r \in S : r.field = m.head - n + i - 1
      BY <3>1 DEF FieldsOf
    <3>3. At(R, m.head - n + i - 1) = r.val /\ At(S, m.head - n + i - 1) = r.val
      BY <1>8, <1>11, <3>2, AtRecord
    <3>4. i - n \in 1 .. Len(c) /\ m.head + (i - n) - 1 = m.head - n + i - 1
      BY <1>4, <1>7, <1>14, <1>15, <2>3
    <3>5. c[i - n] = r.val
      BY <1>14, <3>3, <3>4
    <3>6. (e \o c)[i] = c[i - n]
      BY <1>4, <1>14, <1>15, <1>17, <2>3
    <3> QED
      BY <2>1, <3>3, <3>5, <3>6
  <2>4. i <= n \/ i > n
    BY <1>4, <1>7, <1>15
  <2> QED
    BY <2>2, <2>3, <2>4
<1>19. d = e \o c
  <2>1. Len(d) = Len(e \o c)
    BY <1>4, <1>14, <1>15, <1>17
  <2> QED
    BY <1>15, <1>17, <1>18, <2>1, SeqEqual
<1>20. Abstract!Apply("lpush", c, a) = e \o c
  BY DEF Abstract!Apply, e
<1> QED
  BY <1>1, <1>19, <1>20 DEF S, b, R, c, d

(* push on the right appends its values.                                     *)
LEMMA PushRightEffect ==
    ASSUME NEW k \in Keys, NEW m, Describes(k, m), m.type = "list", NEW a \in push_args,
           NEW p, p = push(k, m, a, FALSE)
    PROVE  Content(p.batch.mput, SubsAfter(scan(k, m.ver), p.batch))
               = Abstract!Apply("rpush", Content(m, scan(k, m.ver)), a)
<1> DEFINE v == m.ver
           S == scan(k, v)
           I == scan_index(k, v)
           n == Len(a)
           sub(i) == Sub(k, v, m.tail + i - 1, a[i])
           P == {sub(i) : i \in 1 .. n}
           mm == [m EXCEPT !.tail = m.tail + n]
           b == p.batch
           R == SubsAfter(S, b)
           J == IndexAfter(I, b)
           c == Content(m, S)
           d == Content(mm, R)
<1>1. b.puts = P /\ b.dels = {} /\ b.mput = mm /\ p.to = "commit"
  BY DEF push, Write, Puts
<1>2. \A r \in S : r.key = k /\ r.ver = v
  BY ScanOwn
<1>3. \A i : /\ sub(i).key = k /\ sub(i).ver = v
             /\ sub(i).field = m.tail + i - 1 /\ sub(i).val = a[i]
  BY DEF Sub
<1>4. a \in Seq(Values) /\ n \in Nat
  BY DEF push_args, NonEmptySeq
<1>5. m \in Metas /\ Fits(S, I, m) /\ \A r \in S : r.val \in SubVals
  BY DEF Describes, scan, SubRecs
<1>6. Fits(R, J, mm)
  <2>1. BodyKeeps(p, k, m)
    BY PushKeeps
  <2> QED
    BY <1>1, <2>1 DEF BodyKeeps
<1>7. /\ mm \in Metas /\ mm.head = m.head /\ mm.tail = m.tail + n /\ mm.type = "list"
      /\ m.head \in Int /\ m.tail \in Int /\ m.head <= m.tail
  BY <1>4, <1>5 DEF Metas, Fits
<1>8. OnePer(S) /\ OnePer(R)
  BY <1>5, <1>6 DEF Fits, OnePer
<1>9. FieldsOf(S) = m.head .. m.tail - 1
  BY <1>5 DEF Fits, FieldsOf
<1> HIDE DEF S, I, sub, b, mm, J, n
<1>10. R = {r \in S : r.field \notin FieldsOf(P)} \cup P
  <2>1. \A r \in P : r.key = k /\ r.ver = v
    BY <1>3
  <2> HIDE DEF P
  <2> QED
    BY <1>1, <1>2, <2>1, AfterPuts
<1>11. S \subseteq R
  <2>1. \A r \in S : r.field \in m.head .. m.tail - 1
    BY <1>9 DEF FieldsOf
  <2>2. \A f \in FieldsOf(P) : f >= m.tail
    BY <1>3, <1>4, <1>7 DEF FieldsOf
  <2> HIDE DEF P
  <2> QED
    BY <1>7, <1>10, <2>1, <2>2
<1>12. \A r \in P : r.val \in SubVals
  BY <1>3, <1>4 DEF SubVals, n
<1>13. \A r \in R : r.val \in SubVals
  BY <1>5, <1>10, <1>12
<1>14. /\ c \in Seq(SubVals) /\ Len(c) = m.tail - m.head /\ Len(c) \in Nat
       /\ \A i \in 1 .. Len(c) : c[i] = At(S, m.head + i - 1)
  BY <1>5, ListContent
<1> HIDE DEF R
<1>15. /\ d \in Seq(SubVals) /\ Len(d) = m.tail - m.head + n
       /\ \A i \in 1 .. Len(d) : d[i] = At(R, m.head + i - 1)
  BY <1>4, <1>6, <1>7, <1>13, ListContent
<1>16. a \in Seq(SubVals)
  BY <1>4 DEF SubVals
<1> HIDE DEF c, d
<1>17. /\ c \o a \in Seq(SubVals) /\ Len(c \o a) = Len(c) + n
       /\ \A i \in 1 .. Len(c) + n : (c \o a)[i] = IF i <= Len(c) THEN c[i] ELSE a[i - Len(c)]
  BY <1>14, <1>16, ConcatProperties DEF n
<1>18. ASSUME NEW i \in 1 .. Len(d) PROVE d[i] = (c \o a)[i]
  <2> DEFINE len == m.tail - m.head
  <2>1. d[i] = At(R, m.head + i - 1)
    BY <1>15
  <2>2. CASE i > len
    <3> DEFINE r == sub(i - len)
    <3>1. r \in P
      <4>1. i - len \in 1 .. n
        BY <1>4, <1>7, <1>15, <2>2
      <4> QED
        BY <4>1
    <3>2. r.field = m.head + i - 1 /\ r.val = a[i - len]
      BY <1>3, <1>4, <1>7
    <3>3. At(R, m.head + i - 1) = a[i - len]
      <4>1. r \in R
        BY <1>10, <3>1
      <4> HIDE DEF r
      <4> QED
        BY <1>8, <3>2, <4>1, AtRecord
    <3>4. (c \o a)[i] = a[i - len]
      BY <1>4, <1>7, <1>14, <1>15, <1>17, <2>2
    <3> QED
      BY <2>1, <3>3, <3>4
  <2>3. CASE i <= len
    <3>1. m.head + i - 1 \in FieldsOf(S)
      BY <1>4, <1>7, <1>9, <1>15, <2>3
    <3>2. PICK r \in S : r.field = m.head + i - 1
      BY <3>1 DEF FieldsOf
    <3>3. At(R, m.head + i - 1) = r.val /\ At(S, m.head + i - 1) = r.val
      BY <1>8, <1>11, <3>2, AtRecord
    <3>4. i \in 1 .. Len(c)
      BY <1>4, <1>7, <1>14, <1>15, <2>3
    <3>5. c[i] = r.val
      BY <1>14, <3>3, <3>4
    <3>6. (c \o a)[i] = c[i]
      BY <1>4, <1>14, <1>15, <1>17, <2>3
    <3> QED
      BY <2>1, <3>3, <3>5, <3>6
  <2>4. i <= len \/ i > len
    BY <1>4, <1>7, <1>15
  <2> QED
    BY <2>2, <2>3, <2>4
<1>19. d = c \o a
  <2>1. Len(d) = Len(c \o a)
    BY <1>4, <1>14, <1>15, <1>17
  <2> QED
    BY <1>15, <1>17, <1>18, <2>1, SeqEqual
<1>20. Abstract!Apply("rpush", c, a) = c \o a
  BY DEF Abstract!Apply
<1> QED
  BY <1>1, <1>19, <1>20 DEF S, b, R, c, d

(* pop takes the elements next to one end and leaves the others in place.    *)
LEMMA PopEffect ==
    ASSUME NEW k \in Keys, NEW m, Describes(k, m), m.type = "list", NEW a \in pop_args,
           NEW left \in BOOLEAN, NEW p, p = pop(k, m, a.count, left), p.to # "idle"
    PROVE  LET S == scan(k, m.ver)
               new == Abstract!Apply(IF left THEN "lpop" ELSE "rpop", Content(m, S), a)
           IN  /\ p.to = "commit" => Content(p.batch.mput, SubsAfter(S, p.batch)) = new
               /\ p.to = "empty" => new = <<>>
<1> DEFINE v == m.ver
           S == scan(k, v)
           I == scan_index(k, v)
           len == m.tail - m.head
           n == IF a.count < len THEN a.count ELSE len
           popped == IF left THEN m.head .. m.head + n - 1 ELSE m.tail - n .. m.tail - 1
           rest == IF left THEN [m EXCEPT !.head = m.head + n] ELSE [m EXCEPT !.tail = m.tail - n]
           D == {r \in S : r.field \in popped}
           b == p.batch
           R == SubsAfter(S, b)
           J == IndexAfter(I, b)
           c == Content(m, S)
           lo == IF left THEN n ELSE 0
           new == Abstract!Apply(IF left THEN "lpop" ELSE "rpop", c, a)
<1>1. a.count \in Nat
  BY DEF pop_args
<1>2. m \in Metas /\ Fits(S, I, m) /\ \A r \in S : r.val \in SubVals
  BY DEF Describes, scan, SubRecs
<1>3. m.head \in Int /\ m.tail \in Int /\ len \in Nat /\ n \in 0 .. len
  BY <1>1, <1>2 DEF Metas, Fits
<1>4. OnePer(S) /\ FieldsOf(S) = m.head .. m.tail - 1
  BY <1>2 DEF Fits, OnePer, FieldsOf
<1>5. /\ b.puts = {} /\ b.dels = D
      /\ p.to = "commit" => b.mput = rest
      /\ p.to = "empty" => n = len
  <2> DEFINE B == Dels(D, {})
  <2>1. B.puts = {} /\ B.dels = D
    BY DEF Dels
  <2>2. LET BB == [B EXCEPT !.mput = rest] IN BB.puts = {} /\ BB.dels = D /\ BB.mput = rest
    BY DEF Dels
  <2>3. p = (IF popped = {} \/ \E i \in popped : ~has(k, v, i) THEN NoWrite
             ELSE IF n = len THEN WriteLast(B) ELSE Write([B EXCEPT !.mput = rest]))
    BY DEF pop
  <2> HIDE DEF B, rest, n, popped, D, len
  <2> QED
    BY <2>1, <2>2, <2>3 DEF NoWrite, WriteLast, Write
<1>6. /\ c \in Seq(SubVals) /\ Len(c) = len
      /\ \A i \in 1 .. Len(c) : c[i] = At(S, m.head + i - 1)
  <2> HIDE DEF S, I
  <2> QED
    BY <1>2, ListContent
<1>7. new = SubSeq(c, lo + 1, lo + (len - n))
  <2>1. Abstract!Least(a.count, Len(c)) = n
    BY <1>6 DEF Abstract!Least
  <2> HIDE DEF n, c, len
  <2>2. CASE left
    <3>1. new = SubSeq(c, n + 1, len)
      BY <1>6, <2>1, <2>2 DEF Abstract!Apply
    <3> QED
      BY <1>3, <2>2, <3>1
  <2>3. CASE ~left
    <3>1. new = SubSeq(c, 1, len - n)
      BY <1>6, <2>1, <2>3 DEF Abstract!Apply
    <3> QED
      BY <1>3, <2>3, <3>1
  <2> QED
    BY <2>2, <2>3
<1>8. /\ lo \in Int /\ lo + (len - n) \in Int
      /\ \A i \in lo + 1 .. lo + (len - n) : c[i] \in SubVals
  <2>1. lo \in Nat /\ lo + (len - n) <= len
    BY <1>3
  <2> HIDE DEF lo, n, len, c
  <2> QED
    BY <1>3, <1>6, <2>1
<1>9. ASSUME p.to = "commit" PROVE Content(b.mput, R) = new
  <2> DEFINE d == Content(rest, R)
             q == len - n
  <2>1. BodyKeeps(p, k, m)
    BY PopKeeps, <1>1
  <2>2. Fits(R, J, rest)
    BY <1>5, <1>9, <2>1 DEF BodyKeeps
  <2>3. /\ rest \in Metas /\ rest.type = "list"
        /\ rest.head = m.head + lo /\ rest.tail - rest.head = q
    <3>1. \A x \in Int : LET l == [m EXCEPT !.head = x] IN
              l \in Metas /\ l.type = "list" /\ l.head = x /\ l.tail = m.tail
      BY <1>2 DEF Metas
    <3>2. \A x \in Int : LET l == [m EXCEPT !.tail = x] IN
              l \in Metas /\ l.type = "list" /\ l.tail = x /\ l.head = m.head
      BY <1>2 DEF Metas
    <3>3. n \in Int /\ m.head + n \in Int /\ m.tail - n \in Int
      BY <1>3
    <3> HIDE DEF n
    <3>4. CASE left
      BY <1>3, <3>1, <3>3, <3>4
    <3>5. CASE ~left
      BY <1>3, <3>2, <3>3, <3>5
    <3> QED
      BY <3>4, <3>5
  <2> HIDE DEF S, I, b, J, rest, n, len
  <2>4. R = S \ D
    BY <1>4, <1>5, AfterDels
  <2>5. OnePer(R) /\ \A r \in R : r \in S /\ r.val \in SubVals
    BY <1>2, <1>4, <2>4 DEF OnePer
  <2> HIDE DEF R, D
  <2>6. /\ d \in Seq(SubVals) /\ Len(d) = q
        /\ \A i \in 1 .. Len(d) : d[i] = At(R, m.head + lo + i - 1)
    BY <2>2, <2>3, <2>5, ListContent
  <2>7. FieldsOf(R) = m.head + lo .. m.head + lo + q - 1
    <3>1. FieldsOf(R) = rest.head .. rest.tail - 1
      BY <2>2, <2>3 DEF Fits, FieldsOf
    <3>2. rest.head \in Int /\ rest.tail \in Int
      BY <2>3 DEF Metas
    <3>3. PICK h, u, x : h = rest.head /\ u = rest.tail /\ x = m.head + lo
      OBVIOUS
    <3>4. h \in Int /\ u \in Int /\ q \in Int /\ x = h /\ u - h = q
      BY <1>3, <2>3, <3>2, <3>3 DEF n, len
    <3>5. h .. u - 1 = x .. x + q - 1
      <4> HIDE DEF q
      <4> QED BY <3>4
    <3> QED
      BY <3>1, <3>3, <3>5
  <2>8. /\ new \in Seq(SubVals) /\ Len(new) = q
        /\ \A i \in 1 .. q : new[i] = c[lo + i]
    <3>1. /\ SubSeq(c, lo + 1, lo + q) \in Seq(SubVals)
          /\ Len(SubSeq(c, lo + 1, lo + q)) =
                IF lo + 1 <= lo + q THEN (lo + q) - (lo + 1) + 1 ELSE 0
          /\ \A i \in 1 .. (lo + q) - (lo + 1) + 1 :
                SubSeq(c, lo + 1, lo + q)[i] = c[(lo + 1) + i - 1]
      <4> HIDE DEF lo, c
      <4> QED
        BY <1>3, <1>8, SubSeqProperties
    <3>2. q \in Nat /\ lo \in Int
      BY <1>3, <1>8
    <3>3. (lo + q) - (lo + 1) + 1 = q /\ (lo + 1 <= lo + q <=> q # 0)
      BY <3>2
    <3>4. \A i \in 1 .. q : (lo + 1) + i - 1 = lo + i
      BY <3>2
    <3> HIDE DEF lo, c, q, new
    <3> QED
      BY <1>7, <3>1, <3>2, <3>3, <3>4 DEF q
  <2>9. ASSUME NEW i \in 1 .. q PROVE d[i] = new[i]
    <3>0. q \in Nat /\ lo \in Nat /\ lo + q <= len
      BY <1>3
    <3> HIDE DEF lo, q, d, c, new
    <3>1. m.head + lo + i - 1 \in FieldsOf(R)
      BY <1>3, <2>7, <3>0
    <3>2. PICK r \in R : r.field = m.head + lo + i - 1
      BY <3>1 DEF FieldsOf
    <3>3. At(R, m.head + lo + i - 1) = r.val /\ At(S, m.head + lo + i - 1) = r.val
      BY <1>4, <2>5, <3>2, AtRecord
    <3>4. lo + i \in 1 .. len /\ m.head + (lo + i) - 1 = m.head + lo + i - 1
      BY <1>3, <3>0
    <3>5. c[lo + i] = At(S, m.head + lo + i - 1)
      BY <1>6, <3>4
    <3> QED
      BY <2>6, <2>8, <3>3, <3>5
  <2> HIDE DEF d, new, q
  <2>10. d = new
    BY <2>6, <2>8, <2>9, SeqEqual
  <2> QED
    BY <1>5, <1>9, <2>10 DEF d
<1>10. ASSUME p.to = "empty" PROVE new = <<>>
  <2>1. lo + (len - n) < lo + 1
    BY <1>3, <1>5, <1>10
  <2> HIDE DEF lo, len, n, c, new
  <2>2. lo + 1 \in Int /\ lo + (len - n) \in Int
    BY <1>8
  <2> QED
    BY <1>7, <2>1, <2>2, SubSeqEmpty
<1> QED
  BY <1>9, <1>10

-----------------------------------------------------------------------------
(* All bodies together. *)

LEMMA EmptyIff ==
    ASSUME NEW S, NEW I, NEW m \in Metas, m.type \in Composite, Fits(S, I, m), S \subseteq SubRecs
    PROVE  Content(m, S) = Abstract!EmptyContent(m.type) <=> S = {}
<1>1. CASE m.type = "list"
  <2>1. \A r \in S : r.val \in SubVals
    BY DEF SubRecs
  <2>2. Content(m, S) = <<>> <=> S = {}
    BY <1>1, <2>1, ListContent
  <2> QED
    BY <1>1, <2>2 DEF Abstract!EmptyContent
<1>2. CASE m.type = "set"
  BY <1>2 DEF Content, Abstract!EmptyContent
<1>3. CASE m.type = "hash"
  BY <1>3 DEF Content, Abstract!EmptyContent
<1>4. CASE m.type = "zset"
  BY <1>4 DEF Content, Abstract!EmptyContent
<1> QED
  BY <1>1, <1>2, <1>3, <1>4 DEF Composite

(* A body leaves the deadline alone.                                         *)
LEMMA PlanDeadline ==
    ASSUME NEW op \in Creators \cup Removers, NEW k, NEW m \in Metas, NEW a,
           NEW p, p = Plan(op, k, m, a), p.to = "commit"
    PROVE  p.batch.mput.exp = m.exp
<1>1. \A x : [m EXCEPT !.cnt = x].exp = m.exp
  BY DEF Metas
<1>2. \A x : [m EXCEPT !.head = x].exp = m.exp /\ [m EXCEPT !.tail = x].exp = m.exp
  BY DEF Metas
<1>3. \A mm, P, X, Y : Puts(mm, P, X, Y).mput = mm
  BY DEF Puts
<1>4. \A D, X, mm : [Dels(D, X) EXCEPT !.mput = mm].mput = mm
  BY DEF Dels
<1>5. \A b : Write(b).batch = b /\ WriteLast(b).to # "commit" /\ NoWrite.to # "commit"
  BY DEF Write, WriteLast, NoWrite
<1>6. ASSUME NEW n, NEW D, NEW X, p = Shrink(m, n, Dels(D, X)) PROVE p.batch.mput.exp = m.exp
  <2> DEFINE left == IF n > m.cnt THEN 0 ELSE m.cnt - n
  <2>1. \/ p = NoWrite
        \/ p = WriteLast(Dels(D, X))
        \/ p = Write([Dels(D, X) EXCEPT !.mput = [m EXCEPT !.cnt = left]])
    BY <1>6 DEF Shrink
  <2> HIDE DEF left
  <2>2. p = Write([Dels(D, X) EXCEPT !.mput = [m EXCEPT !.cnt = left]])
    BY <1>5, <2>1
  <2>3. p.batch = [Dels(D, X) EXCEPT !.mput = [m EXCEPT !.cnt = left]]
    BY <1>5, <2>2
  <2>4. p.batch.mput = [m EXCEPT !.cnt = left]
    BY <1>4, <2>3
  <2> QED
    BY <1>1, <2>4
<1>a. ASSUME NEW mm, mm.exp = m.exp, NEW P, NEW X, NEW Y,
             p = NoWrite \/ p = Write(Puts(mm, P, X, Y))
      PROVE  p.batch.mput.exp = m.exp
  <2>1. p.batch = Puts(mm, P, X, Y)
    BY <1>a, <1>5
  <2> QED
    BY <1>a, <1>3, <2>1
<1>7. CASE op = "hset"
  <2> DEFINE x == m.cnt + Cardinality({i \in DOMAIN a : ~has(k, m.ver, a[i].field)})
             P == {Sub(k, m.ver, a[i].field, a[i].val) :
                       i \in {i \in DOMAIN a : \A j \in DOMAIN a : j > i => a[j].field # a[i].field}}
  <2>1. p = Write(Puts([m EXCEPT !.cnt = x], P, {}, {}))
    BY <1>7 DEF Plan, hset
  <2> DEFINE mm == [m EXCEPT !.cnt = x]
  <2>2. mm.exp = m.exp
    BY <1>1
  <2> HIDE DEF mm, P
  <2> QED
    BY <1>a, <2>1, <2>2 DEF mm
<1>8. CASE op = "sadd"
  <2> DEFINE new == {x \in {a[i] : i \in DOMAIN a} : ~has(k, m.ver, x)}
             x == m.cnt + Cardinality(new)
             P == {Sub(k, m.ver, y, NoVal) : y \in new}
  <2>1. p = NoWrite \/ p = Write(Puts([m EXCEPT !.cnt = x], P, {}, {}))
    BY <1>8 DEF Plan, sadd
  <2> DEFINE mm == [m EXCEPT !.cnt = x]
  <2>2. mm.exp = m.exp
    BY <1>1
  <2> HIDE DEF mm, P
  <2> QED
    BY <1>a, <2>1, <2>2 DEF mm
<1>9. CASE op = "zadd"
  <2> DEFINE new == {q \in effective(a) : Stored(k, m.ver, q.member) = {}}
             moved == {q \in effective(a) :
                           \E r \in Stored(k, m.ver, q.member) : ~same_score(r.val, q.score)}
             x == m.cnt + Cardinality(new)
             P == {Sub(k, m.ver, q.member, encode_score(q.score)) : q \in new \cup moved}
             X == {Idx(k, m.ver, encode_score(q.score), q.member) : q \in new \cup moved}
             Y == stale_index(k, m.ver, moved)
  <2>1. p = NoWrite \/ p = Write(Puts([m EXCEPT !.cnt = x], P, X, Y))
    BY <1>9 DEF Plan, zadd
  <2> DEFINE mm == [m EXCEPT !.cnt = x]
  <2>2. mm.exp = m.exp
    BY <1>1
  <2> HIDE DEF mm, P, X, Y
  <2> QED
    BY <1>a, <2>1, <2>2 DEF mm
<1>10. CASE op = "hdel"
  BY <1>6, <1>10 DEF Plan, hdel
<1>11. CASE op = "srem"
  BY <1>6, <1>11 DEF Plan, srem
<1>12. CASE op = "zrem"
  BY <1>5, <1>6, <1>12 DEF Plan, zrem
<1>13. CASE op \in {"lpush", "rpush"}
  <2>1. PICK left \in BOOLEAN : p = push(k, m, a, left)
    BY <1>13 DEF Plan
  <2> DEFINE mm == IF left THEN [m EXCEPT !.head = m.head - Len(a)]
                           ELSE [m EXCEPT !.tail = m.tail + Len(a)]
             P == {Sub(k, m.ver, IF left THEN m.head - i ELSE m.tail + i - 1, a[i]) :
                       i \in 1 .. Len(a)}
  <2>2. p = Write(Puts(mm, P, {}, {}))
    BY <2>1 DEF push
  <2>3. mm.exp = m.exp
    BY <1>2
  <2> HIDE DEF mm, P
  <2> QED
    BY <1>a, <2>2, <2>3
<1>14. CASE op \in {"lpop", "rpop"}
  <2>1. PICK left \in BOOLEAN : p = pop(k, m, a.count, left)
    BY <1>14 DEF Plan
  <2> DEFINE len == m.tail - m.head
             n == IF a.count < len THEN a.count ELSE len
             popped == IF left THEN m.head .. m.head + n - 1 ELSE m.tail - n .. m.tail - 1
             rest == IF left THEN [m EXCEPT !.head = m.head + n]
                             ELSE [m EXCEPT !.tail = m.tail - n]
             D == {r \in scan(k, m.ver) : r.field \in popped}
  <2>2. \/ p = NoWrite \/ p = WriteLast(Dels(D, {}))
        \/ p = Write([Dels(D, {}) EXCEPT !.mput = rest])
    BY <2>1 DEF pop
  <2>3. rest.exp = m.exp
    BY <1>2
  <2> HIDE DEF rest, D
  <2>4. p.batch = [Dels(D, {}) EXCEPT !.mput = rest]
    BY <1>5, <2>2
  <2>5. p.batch.mput = rest
    BY <1>4, <2>4
  <2> QED
    BY <2>3, <2>5
<1> QED
  BY <1>7, <1>8, <1>9, <1>10, <1>11, <1>12, <1>13, <1>14 DEF Creators, Removers

(* The write a body plans does to the content what the abstract command      *)
(* does.                                                                     *)
LEMMA PlanEffect ==
    ASSUME NoRepeats, NEW op \in Creators \cup Removers, NEW k \in Keys, NEW m, Describes(k, m),
           m.type = type_for(op), NEW a \in Args[op], NEW p, p = Plan(op, k, m, a)
    PROVE  LET S == scan(k, m.ver)
               R == SubsAfter(S, p.batch)
               new == Abstract!Apply(op, Content(m, S), a)
           IN  /\ p.to = "commit" =>
                     /\ Content(p.batch.mput, R) = new /\ new # Abstract!EmptyContent(m.type)
                     /\ R # {}
                     /\ p.batch.mput.type = m.type /\ p.batch.mput.exp = m.exp
               /\ p.to = "empty" => new = Abstract!EmptyContent(m.type) /\ R = {}
<1> DEFINE S == scan(k, m.ver)
           I == scan_index(k, m.ver)
           R == SubsAfter(S, p.batch)
           J == IndexAfter(I, p.batch)
           mm == p.batch.mput
           new == Abstract!Apply(op, Content(m, S), a)
<1>1. m \in Metas /\ m.type \in Composite /\ Counted(m.type) /\ subs \subseteq SubRecs
  BY DEF Describes, Counted, Composite, type_for
<1>2. GoodPlan(p, k, m, op)
  BY <1>1, PlanGood
<1>3. BodyKeeps(p, k, m)
  BY <1>1, PlanKeeps
<1>4. p.to \in {"idle", "commit", "empty"} /\ p.batch \in Batches
  BY <1>2 DEF GoodPlan
<1>5. p.to = "commit" => mm \in Metas /\ mm.type = m.type /\ mm.exp = m.exp
  BY <1>1, <1>2, PlanDeadline DEF GoodPlan
<1>6. /\ p.to = "commit" => Fits(R, J, mm) /\ R # {}
      /\ p.to = "empty" => R = {}
  BY <1>3 DEF BodyKeeps
<1>7. R \subseteq SubRecs
  BY <1>1, <1>4 DEF SubsAfter, scan, Batches
<1> HIDE DEF R, J, S, I
<1>8. ASSUME op \in {"hset", "hdel", "sadd", "srem", "zadd", "zrem"}, p.to # "idle"
      PROVE  Content(m, R) = new
  <2>1. CASE op = "hset"
    <3>1. p = hset(k, m, a) /\ a \in hset_args /\ m.type = "hash"
      BY <2>1, ArgsAssumption DEF Plan, type_for
    <3> QED
      BY <2>1, <3>1, HsetEffect DEF S, R
  <2>2. CASE op = "hdel"
    <3>1. p = hdel(k, m, a) /\ a \in hdel_args /\ m.type = "hash"
      BY <2>2, ArgsAssumption DEF Plan, type_for
    <3> QED
      BY <1>8, <2>2, <3>1, HdelEffect DEF S, R
  <2>3. CASE op = "sadd"
    <3>1. p = sadd(k, m, a) /\ a \in sadd_args /\ m.type = "set"
      BY <2>3, ArgsAssumption DEF Plan, type_for
    <3> QED
      BY <1>8, <2>3, <3>1, SaddEffect DEF S, R
  <2>4. CASE op = "srem"
    <3>1. p = srem(k, m, a) /\ a \in srem_args /\ m.type = "set"
      BY <2>4, ArgsAssumption DEF Plan, type_for
    <3> QED
      BY <1>8, <2>4, <3>1, SremEffect DEF S, R
  <2>5. CASE op = "zadd"
    <3>1. p = zadd(k, m, a) /\ a \in zadd_args /\ m.type = "zset"
      BY <2>5, ArgsAssumption DEF Plan, type_for
    <3> QED
      BY <1>8, <2>5, <3>1, ZaddEffect DEF S, R
  <2>6. CASE op = "zrem"
    <3>1. p = zrem(k, m, a) /\ a \in zrem_args /\ m.type = "zset"
      BY <2>6, ArgsAssumption DEF Plan, type_for
    <3> QED
      BY <1>8, <2>6, <3>1, ZremEffect DEF S, R
  <2> QED
    BY <1>8, <2>1, <2>2, <2>3, <2>4, <2>5, <2>6
<1>9. ASSUME op \in {"hset", "hdel", "sadd", "srem", "zadd", "zrem"}
      PROVE  /\ p.to = "commit" => Content(mm, R) = new
             /\ p.to = "empty" => new = Abstract!EmptyContent(m.type)
  <2>1. m.type \in {"hash", "set", "zset"}
    BY <1>9 DEF type_for
  <2>2. CASE p.to = "commit"
    <3>1. Content(mm, R) = Content(m, R)
      BY <1>5, <2>1, <2>2 DEF Content
    <3> QED
      BY <1>8, <1>9, <2>2, <3>1
  <2>3. CASE p.to = "empty"
    <3>1. Content(m, R) = {}
      BY <1>6, <2>1, <2>3 DEF Content
    <3> QED
      BY <1>8, <1>9, <2>1, <2>3, <3>1 DEF Abstract!EmptyContent
  <2> QED
    BY <2>2, <2>3
<1>10. ASSUME op \in {"lpush", "rpush"}
       PROVE  p.to = "commit" /\ Content(mm, R) = new
  <2>1. a \in push_args /\ m.type = "list"
    BY <1>10, ArgsAssumption DEF type_for
  <2>2. CASE op = "lpush"
    <3>1. p = push(k, m, a, TRUE)
      BY <2>2 DEF Plan
    <3>2. p.to = "commit"
      BY <3>1 DEF push, Write
    <3> QED
      BY <2>1, <2>2, <3>1, <3>2, PushLeftEffect DEF S, R
  <2>3. CASE op = "rpush"
    <3>1. p = push(k, m, a, FALSE)
      BY <2>3 DEF Plan
    <3>2. p.to = "commit"
      BY <3>1 DEF push, Write
    <3> QED
      BY <2>1, <2>3, <3>1, <3>2, PushRightEffect DEF S, R
  <2> QED
    BY <1>10, <2>2, <2>3
<1>11. ASSUME op \in {"lpop", "rpop"}
       PROVE  /\ p.to = "commit" => Content(mm, R) = new
              /\ p.to = "empty" => new = Abstract!EmptyContent(m.type)
  <2>1. a \in pop_args /\ m.type = "list"
    BY <1>11, ArgsAssumption DEF type_for
  <2>2. PICK left \in BOOLEAN :
            p = pop(k, m, a.count, left) /\ op = IF left THEN "lpop" ELSE "rpop"
    BY <1>11 DEF Plan
  <2>3. p.to # "idle" =>
            /\ p.to = "commit" => Content(mm, R) = new
            /\ p.to = "empty" => new = <<>>
    BY <2>1, <2>2, PopEffect DEF S, R
  <2> QED
    BY <2>1, <2>3 DEF Abstract!EmptyContent
<1>12. p.to = "commit" => Content(mm, R) # Abstract!EmptyContent(m.type)
  BY <1>1, <1>5, <1>6, <1>7, EmptyIff
<1> HIDE DEF new, mm
<1>13. p.to = "commit" => Content(mm, R) = new
  BY <1>9, <1>10, <1>11 DEF Creators, Removers
<1>14. p.to = "empty" => new = Abstract!EmptyContent(m.type)
  BY <1>9, <1>10, <1>11 DEF Creators, Removers
<1> QED
  BY <1>5, <1>6, <1>12, <1>13, <1>14 DEF R, S, new, mm

-----------------------------------------------------------------------------
(* What a thread has read and decided stays true. *)

(* A body depends on the records of its structure only.                      *)
LEMMA PlanSame ==
    ASSUME NEW op \in Creators \cup Removers, NEW k, NEW m, NEW a,
           scan(k, m.ver)' = scan(k, m.ver)
    PROVE  Plan(op, k, m, a)' = Plan(op, k, m, a)
<1>1. \A f : has(k, m.ver, f)' <=> has(k, m.ver, f)
  BY DEF has, scan
<1>2. \A x : Stored(k, m.ver, x)' = Stored(k, m.ver, x)
  BY DEF Stored
<1>3. \A M : undecodable(k, m.ver, M)' <=> undecodable(k, m.ver, M)
  BY DEF undecodable
<1>4. \A M : stale_index(k, m.ver, M)' = stale_index(k, m.ver, M)
  BY <1>2 DEF stale_index
<1>5. CASE op = "hset"
  <2>1. {i \in DOMAIN a : ~has(k, m.ver, a[i].field)}' = {i \in DOMAIN a : ~has(k, m.ver, a[i].field)}
    BY <1>1
  <2>2. hset(k, m, a)' = hset(k, m, a)
    BY <2>1 DEF hset, Write, Puts, Sub
  <2> QED
    BY <1>5, <2>2 DEF Plan
<1>6. CASE op = "hdel"
  <2>1. {i \in DOMAIN a : has(k, m.ver, a[i])}' = {i \in DOMAIN a : has(k, m.ver, a[i])}
    BY <1>1
  <2>2. hdel(k, m, a)' = hdel(k, m, a)
    BY <2>1 DEF hdel, Shrink, Write, WriteLast, NoWrite, NoBatch, Dels
  <2> QED
    BY <1>6, <2>2 DEF Plan
<1>7. CASE op = "sadd"
  <2>1. {x \in {a[i] : i \in DOMAIN a} : ~has(k, m.ver, x)}' =
            {x \in {a[i] : i \in DOMAIN a} : ~has(k, m.ver, x)}
    BY <1>1
  <2>2. sadd(k, m, a)' = sadd(k, m, a)
    BY <2>1 DEF sadd, Write, NoWrite, NoBatch, Puts, Sub
  <2> QED
    BY <1>7, <2>2 DEF Plan
<1>8. CASE op \in {"srem", "zrem"}
  <2>1. {x \in {a[i] : i \in DOMAIN a} : has(k, m.ver, x)}' =
            {x \in {a[i] : i \in DOMAIN a} : has(k, m.ver, x)}
    BY <1>1
  <2>2. CASE op = "srem"
    <3>1. srem(k, m, a)' = srem(k, m, a)
      BY <2>1 DEF srem, Shrink, Write, WriteLast, NoWrite, NoBatch, Dels
    <3> QED
      BY <2>2, <3>1 DEF Plan
  <2>3. CASE op = "zrem"
    <3> DEFINE out == {x \in {a[i] : i \in DOMAIN a} : has(k, m.ver, x)}
               recs == {r \in scan(k, m.ver) : r.field \in out}
               X == {Idx(k, m.ver, r.val, r.field) : r \in recs}
    <3>0. out' = out /\ recs' = recs /\ X' = X
      BY <2>1 DEF Idx
    <3>2. /\ zrem(k, m, a) = IF undecodable(k, m.ver, out) THEN NoWrite
                             ELSE Shrink(m, Cardinality(out), Dels(recs, X))
          /\ zrem(k, m, a)' = IF undecodable(k, m.ver, out)' THEN NoWrite
                              ELSE Shrink(m, Cardinality(out'), Dels(recs', X'))
      BY DEF zrem, Shrink, Write, WriteLast, NoWrite, NoBatch, Dels
    <3>3. undecodable(k, m.ver, out)' <=> undecodable(k, m.ver, out)
      BY <3>0, <1>3 DEF undecodable
    <3> HIDE DEF out, recs, X
    <3>1. zrem(k, m, a)' = zrem(k, m, a)
      BY <3>0, <3>2, <3>3
    <3> QED
      BY <2>3, <3>1 DEF Plan
  <2> QED
    BY <1>8, <2>2, <2>3
<1>9. CASE op = "zadd"
  <2> DEFINE put(p) == \E r \in Stored(k, m.ver, p.member) : ~same_score(r.val, p.score)
  <2>1. {p \in effective(a) : Stored(k, m.ver, p.member) = {}}' =
            {p \in effective(a) : Stored(k, m.ver, p.member) = {}}
    BY <1>2
  <2>2. {p \in effective(a) : put(p)}' = {p \in effective(a) : put(p)}
    BY <1>2
  <2>3. zadd(k, m, a)' = zadd(k, m, a)
    BY <1>3, <1>4, <2>1, <2>2 DEF zadd, Write, NoWrite, NoBatch, Puts, Sub, Idx
  <2> QED
    BY <1>9, <2>3 DEF Plan
<1>10. CASE op \in {"lpush", "rpush"}
  <2>1. \A left : push(k, m, a, left)' = push(k, m, a, left)
    BY DEF push, Write, Puts, Sub
  <2> QED
    BY <1>10, <2>1 DEF Plan
<1>11. CASE op \in {"lpop", "rpop"}
  <2>1. \A left : pop(k, m, a.count, left)' = pop(k, m, a.count, left)
    BY <1>1 DEF pop, Write, WriteLast, NoWrite, NoBatch, Dels
  <2> QED
    BY <1>11, <2>1 DEF Plan
<1> QED
  BY <1>5, <1>6, <1>7, <1>8, <1>9, <1>10, <1>11 DEF Creators, Removers

(* A thread whose locals, metadata and records stay as they are remembers.   *)
LEMMA Remembered ==
    ASSUME NEW t \in Threads, Remembers(t), Control(t), NEW k, k = Key(t),
           pc'[t] = pc[t], cmd'[t] = cmd[t], mem'[t] = mem[t], wb'[t] = wb[t],
           cmd[t].op \notin {"none", "flush"} => metas'[k] = metas[k],
           NEW m, m = Origin(k, cmd[t].op, wb[t].mput.ver),
           pc[t] \in {"commit", "empty"} => scan(k, m.ver)' = scan(k, m.ver)
    PROVE  Remembers(t)'
<1>0. PICK op, a : op = cmd[t].op /\ a = cmd[t].args
  OBVIOUS
<1>1. Key(t)' = k /\ cmd'[t].op = op /\ cmd'[t].args = a /\ cmd'[t].exp = cmd[t].exp
  BY <1>0 DEF Key
<1>2. CASE op \in {"none", "flush"}
  BY <1>0, <1>1, <1>2 DEF Remembers, Control, FlushPcs, Creators, Removers
<1>3. CASE op \notin {"none", "flush"}
  <2>1. \A v : Origin(k, op, v)' = Origin(k, op, v)
    BY <1>0, <1>3 DEF Origin
  <2>2. ASSUME pc[t] \in {"commit", "empty"}
        PROVE  /\ m.type = type_for(op)
               /\ Plan(op, k, m, a) = [to |-> pc[t], batch |-> wb[t]]
               /\ Plan(op, k, m, a)' = Plan(op, k, m, a)
               /\ m = Origin(k, op, wb[t].mput.ver)'
    <3>1. op \in Creators \cup Removers
      BY <1>0, <2>2 DEF Control
    <3>2. Plan(op, k, m, a)' = Plan(op, k, m, a)
      BY <2>2, <3>1, PlanSame
    <3> QED
      BY <1>0, <2>1, <2>2, <3>2 DEF Remembers
  <2>3. pc[t] \in {"commit", "empty"} =>
           Plan(op, k, Origin(k, op, wb[t].mput.ver), a)' = [to |-> pc[t], batch |-> wb[t]]
    BY <2>2 
  <2>4. pc[t] = "exec" => mem'[t] = Origin(k, op, mem[t].ver)'
    BY <1>0, <2>1 DEF Remembers
  <2> QED
    BY <1>0, <1>1, <1>3, <2>2, <2>3, <2>4 DEF Remembers
<1> QED
  BY <1>2, <1>3

(* A step of one thread that touches metadata and records of its own key     *)
(* only.                                                                     *)
LEMMA OwnEffect ==
    ASSUME EffectInv, ContentInv', NEW t \in Threads, Running(t),
           cmd[t].op # "flush", NEW k \in Keys, k = Key(t),
           \A u \in Threads \ {t} :
              pc'[u] = pc[u] /\ cmd'[u] = cmd[u] /\ mem'[u] = mem[u] /\ wb'[u] = wb[u],
           \A x \in Keys \ {k} : metas'[x] = metas[x],
           \A x, v : x # k => scan(x, v)' = scan(x, v),
           Remembers(t)'
    PROVE  EffectInv'
<1>0. TypeInv /\ Booting /\ Exclusive /\ ControlOK
  BY DEF EffectInv, ContentInv, MapInv, SerialInv, TypeInv
<1>1. ASSUME NEW u \in Threads \ {t} PROVE Remembers(u)'
  <2>1. PICK x, m : x = Key(u) /\ m = Origin(x, cmd[u].op, wb[u].mput.ver)
    OBVIOUS
  <2>2. Remembers(u) /\ Control(u)
    BY <1>0 DEF EffectInv, ControlOK
  <2>3. cmd[u].op \notin {"none", "flush"} => x \in Keys \ {k}
    BY <1>0, <2>1, <2>2, RunningKey DEF Exclusive, Control, Running
  <2>4. pc[u] \in {"commit", "empty"} => scan(x, m.ver)' = scan(x, m.ver)
    BY <2>2, <2>3 DEF Control, Creators, Removers
  <2> QED
    BY <2>1, <2>2, <2>3, <2>4, Remembered
<1> QED
  BY <1>1 DEF EffectInv

(* Between its steps on metadata copies and batches a thread has little to   *)
(* remember.                                                                 *)
LEMMA LittleToRemember ==
    ASSUME NEW t \in Threads, Remembers(t), cmd'[t] = cmd[t],
           pc'[t] \notin {"register", "exec", "commit", "empty", "put"},
           pc'[t] = "delete" => cmd[t].op \notin Removers
    PROVE  Remembers(t)'
  BY DEF Remembers

LEMMA IdleRemembers ==
    ASSUME NEW t \in Threads,
           pc'[t] \notin {"register", "exec", "commit", "empty", "put", "delete"},
           cmd'[t].op \notin {"set", "expire"}
    PROVE  Remembers(t)'
  BY DEF Remembers

LEMMA FinishEffect ==
    ASSUME EffectInv, ContentInv', NEW t \in Threads, Running(t), cmd[t].op # "flush",
           NEW k \in Keys, k = Key(t), Finish(t),
           \A x \in Keys \ {k} : metas'[x] = metas[x],
           \A x, v : x # k => scan(x, v)' = scan(x, v)
    PROVE  EffectInv'
<1>1. ThreadsTypeOK
  BY AtContent DEF EffectInv
<1>2. /\ \A u \in Threads \ {t} :
            pc'[u] = pc[u] /\ cmd'[u] = cmd[u] /\ mem'[u] = mem[u] /\ wb'[u] = wb[u]
      /\ pc'[t] = "idle" /\ cmd'[t].op = "none"
  BY <1>1 DEF Finish, ThreadsTypeOK, NoCmd
<1>3. Remembers(t)'
  BY <1>2, IdleRemembers
<1> QED
  BY <1>2, <1>3, OwnEffect

(* load_live_meta and load_typed.                                            *)
LEMMA LoadEffect ==
    ASSUME EffectInv, ContentInv', NEW t \in Threads,
           LoadMissing(t) \/ LoadExpired(t) \/ LoadFound(t)
    PROVE  EffectInv'
<1>0. /\ pc[t] \in {"peek", "load"} /\ Running(t) /\ UNCHANGED <<metas, subs, index>>
      /\ ContentInv /\ Remembers(t)
  BY DEF LoadMissing, LoadExpired, LoadFound, disk, Running, EffectInv
<1>1. Control(t)
  BY <1>0 DEF ContentInv, MapInv, GcInv, TypeInv, ControlOK
<1>2. cmd[t].op \notin {"flush", "set"}
  BY <1>0, <1>1 DEF Control, Creators, Removers
<1>3. ThreadsTypeOK /\ DiskTypeOK /\ Key(t) \in Keys
  BY <1>0, <1>2, AtContent
<1>4. PICK k \in Keys : k = Key(t)
  BY <1>3
<1>5. \A x, v : scan(x, v)' = scan(x, v)
  BY <1>0, SameRecords
<1>6. CASE Finish(t)
  BY <1>0, <1>2, <1>4, <1>5, <1>6, FinishEffect
<1>7. CASE ~Finish(t)
  <2>1. /\ \A u \in Threads \ {t} :
              pc'[u] = pc[u] /\ cmd'[u] = cmd[u] /\ mem'[u] = mem[u] /\ wb'[u] = wb[u]
        /\ cmd'[t] = cmd[t] /\ Key(t)' = k
    BY <1>3, <1>4, <1>7
    DEF LoadMissing, LoadExpired, LoadFound, Continue, Goto, ThreadsTypeOK, Key
  <2>2. Remembers(t)'
    <3>1. CASE LoadMissing(t) \/ LoadExpired(t)
      <4>1. pc'[t] \in {"alloc", "expire"}
        BY <1>3, <1>7, <3>1
        DEF LoadMissing, LoadExpired, Continue, MissingPc, Goto, ThreadsTypeOK
      <4> QED
        BY <1>0, <2>1, <4>1, LittleToRemember
    <3>2. CASE LoadFound(t)
      <4> DEFINE m == metas[k]
                 next == FoundPc(t, m)
      <4>1. /\ m # NoMeta /\ next # "idle" /\ pc'[t] = next
            /\ mem'[t] = IF cmd[t].op = "expire" THEN [m EXCEPT !.exp = cmd[t].exp]
                         ELSE IF next = "exec" THEN m ELSE NoMeta
        BY <1>3, <1>4, <1>7, <3>2 DEF LoadFound, Goto, ThreadsTypeOK
      <4>2. \/ next = "delete" /\ cmd[t].op \notin Removers
            \/ next = "load"
            \/ cmd[t].op = "expire" /\ next = "put"
            \/ cmd[t].op # "expire" /\ next = "exec"
        <5>1. CASE cmd[t].op = "read"
          BY <4>1, <5>1 DEF FoundPc
        <5>2. CASE cmd[t].op = "del"
          BY <5>2 DEF FoundPc, Removers
        <5>3. CASE cmd[t].op = "expire"
          BY <5>3 DEF FoundPc
        <5>4. CASE cmd[t].op \notin {"read", "del", "expire"}
          <6>1. next \in {"load", "exec"}
            BY <4>1, <5>4 DEF FoundPc
          <6> HIDE DEF next
          <6> QED
            BY <5>4, <6>1
        <5> QED
          BY <5>1, <5>2, <5>3, <5>4
      <4> HIDE DEF next
      <4>3. CASE (next = "delete" /\ cmd[t].op \notin Removers) \/ next = "load"
        BY <1>0, <2>1, <4>1, <4>3, LittleToRemember
      <4>4. CASE cmd[t].op = "expire" /\ next = "put"
        <5>1. pc'[t] = "put" /\ mem'[t] = [metas'[k] EXCEPT !.exp = cmd'[t].exp]
          BY <1>0, <2>1, <4>1, <4>4
        <5> QED
          BY <1>0, <2>1, <4>4, <5>1 DEF Remembers
      <4>5. CASE cmd[t].op # "expire" /\ next = "exec"
        <5>1. pc'[t] = "exec" /\ mem'[t] = metas'[k] /\ metas'[k] # NoMeta
          BY <1>0, <4>1, <4>5
        <5>2. \A op, v : Origin(k, op, v)' = metas'[k]
          BY <5>1 DEF Origin
        <5> QED
          BY <1>0, <1>2, <2>1, <4>5, <5>1, <5>2 DEF Remembers
      <4> QED
        BY <4>2, <4>3, <4>4, <4>5
    <3> QED
      BY <3>1, <3>2
  <2> QED
    BY <1>0, <1>2, <1>4, <1>5, <2>1, <2>2, OwnEffect
<1> QED
  BY <1>6, <1>7

(* logical_delete.                                                           *)
LEMMA DeleteEffect ==
    ASSUME EffectInv, ContentInv', NEW t \in Threads, DeleteMeta(t) \/ ForgetVersion(t)
    PROVE  EffectInv'
<1>0. /\ pc[t] \in {"expire", "delete", "expired", "forget"} /\ Running(t)
      /\ ContentInv /\ Remembers(t)
  BY DEF DeleteMeta, ForgetVersion, Running, EffectInv
<1>1. Control(t)
  BY <1>0 DEF ContentInv, MapInv, GcInv, TypeInv, ControlOK
<1>2. cmd[t].op # "flush"
  BY <1>0, <1>1 DEF Control, Creators, Removers
<1>3. ThreadsTypeOK /\ Key(t) \in Keys
  BY <1>0, <1>2, AtContent
<1>4. PICK k \in Keys : k = Key(t)
  BY <1>3
<1>5. (\A x \in Keys \ {k} : metas'[x] = metas[x]) /\ UNCHANGED <<subs, index>>
  <2>1. CASE DeleteMeta(t)
    <3> DEFINE b == [NoBatch EXCEPT !.mdel = {k}]
    <3>1. /\ b.mdel = {k} /\ b.mput = NoMeta /\ b.puts = {} /\ b.dels = {}
          /\ b.iputs = {} /\ b.idels = {} /\ write(k, b)
      BY <1>4, <2>1 DEF DeleteMeta, NoBatch
    <3> HIDE DEF b
    <3> QED
      BY <3>1 DEF write
  <2>2. CASE ForgetVersion(t)
    BY <2>2 DEF ForgetVersion, disk
  <2> QED
    BY <2>1, <2>2
<1>6. \A x, v : scan(x, v)' = scan(x, v)
  BY <1>5, SameRecords
<1>7. CASE Finish(t)
  BY <1>0, <1>2, <1>4, <1>5, <1>6, <1>7, FinishEffect
<1>8. CASE ~Finish(t)
  <2>1. /\ \A u \in Threads \ {t} :
              pc'[u] = pc[u] /\ cmd'[u] = cmd[u] /\ mem'[u] = mem[u] /\ wb'[u] = wb[u]
        /\ cmd'[t] = cmd[t] /\ pc'[t] \in {"expired", "forget", "alloc"}
    BY <1>3, <1>8 DEF DeleteMeta, ForgetVersion, Continue, MissingPc, Goto, ThreadsTypeOK
  <2>2. Remembers(t)'
    BY <1>0, <2>1, LittleToRemember
  <2> QED
    BY <1>0, <1>2, <1>4, <1>5, <1>6, <2>1, <2>2, OwnEffect
<1> QED
  BY <1>7, <1>8

(* SET, and the creation of a composite key.                                 *)
LEMMA CreateEffect ==
    ASSUME EffectInv, ContentInv', NEW t \in Threads, Overwrite(t) \/ Alloc(t) \/ Register(t)
    PROVE  EffectInv'
<1>0. /\ pc[t] \in {"overwrite", "alloc", "register"} /\ Running(t)
      /\ UNCHANGED <<metas, subs, index, now, cmd, wb>> /\ ContentInv /\ Remembers(t)
  BY DEF Overwrite, Alloc, Drawn, Register, disk, Running, EffectInv
<1>1. Control(t)
  BY <1>0 DEF ContentInv, MapInv, GcInv, TypeInv, ControlOK
<1>2. cmd[t].op # "flush"
  BY <1>0, <1>1 DEF Control, Creators, Removers
<1>3. Anchored(t) /\ ThreadsTypeOK /\ Key(t) \in Keys
  BY <1>0, <1>2, AtContent
<1>4. PICK k \in Keys : k = Key(t)
  BY <1>3
<1>5. /\ \A u \in Threads \ {t} :
            pc'[u] = pc[u] /\ cmd'[u] = cmd[u] /\ mem'[u] = mem[u] /\ wb'[u] = wb[u]
      /\ cmd'[t] = cmd[t] /\ Key(t)' = k
  BY <1>0, <1>3, <1>4 DEF Overwrite, Alloc, Drawn, Register, Goto, ThreadsTypeOK, Key
<1>6. \A x, v : scan(x, v)' = scan(x, v)
  BY <1>0, SameRecords
<1>7. Remembers(t)'
  <2>1. CASE pc[t] = "overwrite"
    <3>1. pc'[t] = "alloc"
      BY <1>3, <2>1 DEF Overwrite, Alloc, Drawn, Register, Goto, ThreadsTypeOK
    <3> QED
      BY <1>0, <1>5, <3>1, LittleToRemember
  <2>2. CASE pc[t] = "alloc" /\ cmd[t].op = "set"
    <3>1. /\ pc'[t] = "put"
          /\ mem'[t] = Meta("string", next_version, cmd[t].exp, cmd[t].args.val)
      BY <1>3, <2>2 DEF Overwrite, Alloc, Drawn, Register, Goto, ThreadsTypeOK
    <3>2. mem'[t].ver = next_version
      BY <3>1 DEF Meta
    <3> QED
      BY <1>0, <1>5, <2>2, <3>1, <3>2 DEF Remembers, Meta
  <2>3. CASE pc[t] = "alloc" /\ cmd[t].op # "set"
    <3>1. /\ pc'[t] = "register"
          /\ mem'[t] = Meta(type_for(cmd[t].op), next_version, 0, NoVal)
      BY <1>3, <2>3 DEF Overwrite, Alloc, Drawn, Register, Goto, ThreadsTypeOK
    <3>2. mem'[t].ver = next_version
      BY <3>1 DEF Meta
    <3> QED
      BY <1>0, <1>5, <2>3, <3>1, <3>2 DEF Remembers, Meta
  <2>4. CASE pc[t] = "register"
    <3>1. pc'[t] = "exec" /\ mem'[t] = mem[t] /\ metas[k] = NoMeta /\ cmd[t].op # "set"
      BY <1>1, <1>3, <1>4, <2>4
      DEF Overwrite, Alloc, Drawn, Register, Goto, ThreadsTypeOK, Anchored, Control, Creators
    <3>2. \A op, v : Origin(k, op, v)' = Meta(type_for(op), v, 0, NoVal)
      BY <1>0, <3>1 DEF Origin
    <3>3. mem'[t] = Meta(type_for(cmd[t].op), mem[t].ver, 0, NoVal)
      BY <1>0, <2>4, <3>1 DEF Remembers
    <3> QED
      BY <1>0, <1>5, <3>1, <3>2, <3>3 DEF Remembers
  <2> QED
    BY <1>0, <2>1, <2>2, <2>3, <2>4
<1> QED
  BY <1>0, <1>2, <1>4, <1>5, <1>6, <1>7, OwnEffect

(* A body hands on a batch and what follows it.                              *)
LEMMA PlanForm ==
    ASSUME NEW op \in Creators \cup Removers, NEW k, NEW m, NEW a, NEW p, p = Plan(op, k, m, a)
    PROVE  p = [to |-> p.to, batch |-> p.batch]
<1>1. \A b : /\ Write(b) = [to |-> Write(b).to, batch |-> Write(b).batch]
             /\ WriteLast(b) = [to |-> WriteLast(b).to, batch |-> WriteLast(b).batch]
             /\ NoWrite = [to |-> NoWrite.to, batch |-> NoWrite.batch]
  BY DEF Write, WriteLast, NoWrite
<1>2. \A n, b : \E c : Shrink(m, n, b) \in {NoWrite, Write(c), WriteLast(c)}
  BY Zenon DEF Shrink
<1>3. CASE op = "hset"
  <2>1. \E b : p = Write(b)
    BY <1>3, Zenon DEF Plan, hset
  <2> QED
    BY <1>1, <2>1
<1>4. CASE op = "sadd"
  <2>1. \E b : p = Write(b) \/ p = NoWrite
    BY <1>4, Zenon DEF Plan, sadd
  <2> QED
    BY <1>1, <2>1
<1>5. CASE op = "zadd"
  <2>1. \E b : p = Write(b) \/ p = NoWrite
    BY <1>5, Zenon DEF Plan, zadd
  <2> QED
    BY <1>1, <2>1
<1>6. CASE op = "hdel"
  <2>1. \E n, b : p = Shrink(m, n, b)
    BY <1>6, Zenon DEF Plan, hdel
  <2> QED
    BY <1>1, <1>2, <2>1
<1>7. CASE op = "srem"
  <2>1. \E n, b : p = Shrink(m, n, b)
    BY <1>7, Zenon DEF Plan, srem
  <2> QED
    BY <1>1, <1>2, <2>1
<1>8. CASE op = "zrem"
  <2>1. p = NoWrite \/ \E n, b : p = Shrink(m, n, b)
    BY <1>8, Zenon DEF Plan, zrem
  <2> QED
    BY <1>1, <1>2, <2>1
<1>9. CASE op \in {"lpush", "rpush"}
  <2>1. \A left : \E b : push(k, m, a, left) = Write(b)
    BY Zenon DEF push
  <2>2. \E left : p = push(k, m, a, left)
    BY <1>9 DEF Plan
  <2> QED
    BY <1>1, <2>1, <2>2
<1>10. CASE op \in {"lpop", "rpop"}
  <2>1. \A left : \E b : pop(k, m, a.count, left) \in {NoWrite, Write(b), WriteLast(b)}
    BY DEF pop
  <2>2. \E left : p = pop(k, m, a.count, left)
    BY <1>10 DEF Plan
  <2> QED
    BY <1>1, <2>1, <2>2
<1> QED
  BY <1>3, <1>4, <1>5, <1>6, <1>7, <1>8, <1>9, <1>10 DEF Creators, Removers

(* The body decides from the metadata its thread loaded or made.             *)
LEMMA ExecEffect ==
    ASSUME EffectInv, ContentInv', NEW t \in Threads, Exec(t)
    PROVE  EffectInv'
<1>0. /\ pc[t] = "exec" /\ Running(t) /\ UNCHANGED <<metas, subs, index>>
      /\ ContentInv /\ Remembers(t)
  BY DEF Exec, disk, Running, EffectInv
<1>1. Control(t)
  BY <1>0 DEF ContentInv, MapInv, GcInv, TypeInv, ControlOK
<1>2. cmd[t].op \notin {"flush", "set", "expire"}
  BY <1>0, <1>1 DEF Control, Creators, Removers
<1>3. Anchored(t) /\ ThreadsTypeOK /\ DiskTypeOK /\ Key(t) \in Keys
  BY <1>0, <1>2, AtContent
<1>4. PICK k, op, m, a, plan :
         /\ k = Key(t) /\ op = cmd[t].op /\ m = mem[t] /\ a = cmd[t].args
         /\ plan = Plan(op, k, m, a) /\ k \in Keys
  BY <1>3
<1>5. op \in Creators \cup Removers /\ m \in Metas /\ a \in Args[op] /\ m.type = type_for(op)
  BY <1>0, <1>1, <1>3, <1>4 DEF Control, ThreadsTypeOK, Ops
<1>6. \A x, v : scan(x, v)' = scan(x, v)
  BY <1>0, SameRecords
<1>7. CASE plan.to = "idle"
  <2>1. Finish(t)
    BY <1>4, <1>7 DEF Exec
  <2> QED
    BY <1>0, <1>2, <1>4, <1>6, <2>1, FinishEffect
<1>8. CASE plan.to # "idle"
  <2>1. Goto(t, plan.to) /\ UNCHANGED cmd /\ mem' = [mem EXCEPT ![t] = NoMeta]
        /\ wb' = [wb EXCEPT ![t] = plan.batch]
    BY <1>4, <1>8 DEF Exec
  <2>2. /\ \A u \in Threads \ {t} :
              pc'[u] = pc[u] /\ cmd'[u] = cmd[u] /\ mem'[u] = mem[u] /\ wb'[u] = wb[u]
        /\ cmd'[t] = cmd[t] /\ Key(t)' = k /\ pc'[t] = plan.to /\ wb'[t] = plan.batch
    BY <1>3, <1>4, <2>1 DEF Goto, ThreadsTypeOK, Key
  <2>3. GoodPlan(plan, k, m, op)
    BY <1>3, <1>4, <1>5, PlanGood DEF DiskTypeOK
  <2>4. /\ plan.to \in {"commit", "empty"}
        /\ plan.to = "commit" => plan.batch.mput.ver = m.ver
        /\ plan.to = "empty" => op \in Removers
    BY <1>8, <2>3 DEF GoodPlan
  <2>5. m = Origin(k, op, m.ver)
    BY <1>0, <1>4 DEF Remembers
  <2>6. Origin(k, op, plan.batch.mput.ver)' = m
    <3>1. CASE metas[k] # NoMeta
      BY <1>0, <2>5, <3>1 DEF Origin
    <3>2. CASE metas[k] = NoMeta
      <4>1. op \notin Removers
        BY <1>0, <1>3, <1>4, <3>2 DEF Anchored, Holding
      <4>2. plan.batch.mput.ver = m.ver
        BY <2>4, <4>1
      <4> QED
        BY <1>0, <2>5, <3>2, <4>2 DEF Origin
    <3> QED
      BY <3>1, <3>2
  <2>7. Plan(op, k, m, a)' = [to |-> plan.to, batch |-> plan.batch]
    BY <1>4, <1>5, <1>6, PlanSame, PlanForm
  <2>8. Plan(op, k, Origin(k, op, plan.batch.mput.ver), a)' = [to |-> plan.to, batch |-> plan.batch]
    BY <2>6, <2>7
  <2>9. /\ pc'[t] \in {"commit", "empty"}
        /\ cmd'[t].op = op /\ cmd'[t].args = a /\ wb'[t] = plan.batch
    BY <1>4, <2>2, <2>4
  <2>10. Remembers(t)'
    <3> HIDE DEF Origin
    <3> QED
      BY <1>2, <1>4, <1>5, <2>2, <2>6, <2>8, <2>9 DEF Remembers
  <2> QED
    BY <1>0, <1>2, <1>4, <1>6, <2>2, <2>10, OwnEffect
<1> QED
  BY <1>7, <1>8

(* put_meta and the batch of a composite command.                            *)
LEMMA CommitEffect ==
    ASSUME EffectInv, ContentInv', NEW t \in Threads, PutMeta(t) \/ Commit(t)
    PROVE  EffectInv'
<1>0. /\ pc[t] \in {"put", "commit", "empty"} /\ Running(t) /\ ContentInv /\ Remembers(t)
  BY DEF PutMeta, Commit, Running, EffectInv
<1>1. Control(t)
  BY <1>0 DEF ContentInv, MapInv, GcInv, TypeInv, ControlOK
<1>2. cmd[t].op # "flush"
  BY <1>0, <1>1 DEF Control, Creators, Removers
<1>3. Knows(t) /\ ThreadsTypeOK /\ Key(t) \in Keys
  BY <1>0, <1>2, AtContent
<1>4. PICK k \in Keys : k = Key(t)
  BY <1>3
<1>5. PICK b : write(k, b) /\ b.mdel = {}
                /\ \A r \in b.puts \cup b.iputs \cup b.dels \cup b.idels : r.key = k
  <2>1. CASE PutMeta(t)
    <3> DEFINE c == [NoBatch EXCEPT !.mput = mem[t]]
    <3>1. /\ write(k, c) /\ c.mdel = {}
          /\ c.puts = {} /\ c.dels = {} /\ c.iputs = {} /\ c.idels = {}
      BY <1>4, <2>1 DEF PutMeta, NoBatch
    <3> HIDE DEF c
    <3> QED
      BY <3>1
  <2>2. CASE Commit(t)
    BY <1>1, <1>3, <1>4, <2>2 DEF Commit, Control, Knows, OwnBatch
  <2> QED
    BY <2>1, <2>2
<1>6. \A x \in Keys \ {k} : metas'[x] = metas[x]
  BY <1>5, WriteMeta
<1>7. \A x, v : x # k => scan(x, v)' = scan(x, v)
  BY <1>5, WriteScans
<1>8. CASE Finish(t)
  BY <1>0, <1>2, <1>4, <1>6, <1>7, <1>8, FinishEffect
<1>9. CASE ~Finish(t)
  <2>1. /\ \A u \in Threads \ {t} :
              pc'[u] = pc[u] /\ cmd'[u] = cmd[u] /\ mem'[u] = mem[u] /\ wb'[u] = wb[u]
        /\ cmd'[t] = cmd[t] /\ pc'[t] = "delete" /\ Key(t)' = k
        /\ Commit(t) /\ pc[t] = "empty"
    BY <1>3, <1>4, <1>9 DEF PutMeta, Commit, Goto, ThreadsTypeOK, Key
  <2>2. metas[k] # NoMeta /\ wb[t].mput = NoMeta /\ wb[t].mdel = {}
    BY <1>1, <1>3, <1>4, <2>1 DEF Knows, Control
  <2>3. metas[k].type = type_for(cmd[t].op)
    BY <1>0, <1>4, <2>1, <2>2 DEF Remembers, Origin
  <2>4. metas'[k] = metas[k]
    BY <1>4, <2>1, <2>2 DEF Commit, write
  <2>5. Remembers(t)'
    BY <1>0, <2>1, <2>3, <2>4 DEF Remembers
  <2> QED
    BY <1>0, <1>2, <1>4, <1>6, <1>7, <2>1, <2>5, OwnEffect
<1> QED
  BY <1>8, <1>9

(* flush_all runs alone.                                                     *)
LEMMA FlushEffect ==
    ASSUME EffectInv, ContentInv', NEW t \in Threads,
           FlushMeta(t) \/ FlushSub(t) \/ FlushIdx(t) \/ FlushWrite(t) \/ FlushClear(t)
    PROVE  EffectInv'
<1>0. ThreadsTypeOK /\ ControlOK /\ Exclusive /\ pc[t] \in FlushPcs /\ Running(t)
  BY DEF EffectInv, ContentInv, MapInv, SerialInv, TypeInv, TypeOK, FlushPcs, Running,
     FlushMeta, FlushSub, FlushIdx, FlushWrite, FlushClear
<1>1. cmd[t].op = "flush"
  BY <1>0 DEF ControlOK, Control
<1>2. \A u \in Threads \ {t} : pc[u] = "idle" /\ cmd[u].op = "none"
  BY <1>0, <1>1 DEF Exclusive, Running, ControlOK, Control
<1>3. /\ \A u \in Threads \ {t} : pc'[u] = pc[u] /\ cmd'[u] = cmd[u]
      /\ pc'[t] \in FlushPcs \cup {"idle"} /\ cmd'[t].op \in {"flush", "none"}
  BY <1>0, <1>1 DEF FlushMeta, FlushSub, FlushIdx, FlushWrite, FlushClear, Goto, Finish,
     ThreadsTypeOK, FlushPcs, NoCmd
<1>4. \A u \in Threads : Remembers(u)'
  BY <1>2, <1>3, IdleRemembers DEF FlushPcs
<1> QED
  BY <1>4 DEF EffectInv

-----------------------------------------------------------------------------
(* A command fixes its deadline when it starts.                              *)
LEMMA StartEffect ==
    ASSUME EffectInv, ContentInv', NEW t \in Threads, Start(t)
    PROVE  EffectInv'
<1>1. PICK op \in Ops, k \in Keys \cup {NoKey} : \E a \in Args[op] : Begin(t, op, k, a)
  BY DEF Start
<1>2. PICK a \in Args[op] : Begin(t, op, k, a)
  BY <1>1
<1>3. ThreadsTypeOK /\ ControlOK /\ MapTypeOK
  BY DEF EffectInv, ContentInv, MapInv, GcInv, TypeInv, TypeOK
<1>4. /\ UNCHANGED <<metas, subs, index, mem, wb>>
      /\ pc'[t] = FirstPc(op)
      /\ cmd'[t] = [op |-> op, key |-> k, args |-> a, exp |-> ExpiryOf(op, a)]
      /\ \A u \in Threads \ {t} : pc'[u] = pc[u] /\ cmd'[u] = cmd[u]
  BY <1>2, <1>3 DEF Begin, Goto, ThreadsTypeOK, disk
<1>5. \A x, v : scan(x, v)' = scan(x, v)
  BY <1>4, SameRecords
<1>6. pc'[t] \in {"overwrite", "flushMeta", "peek", "load"}
  BY <1>4 DEF FirstPc
<1>7. cmd'[t].op = op /\ cmd'[t].args = a /\ cmd'[t].exp = ExpiryOf(op, a)
  BY <1>4
<1>8. op = "set" => (a.ttl = 0 <=> ExpiryOf(op, a) = 0)
  <2> SUFFICES ASSUME op = "set" PROVE a.ttl = 0 <=> ExpiryOf(op, a) = 0
    OBVIOUS
  <2>1. a.ttl \in Nat /\ now \in Nat
    BY <1>3, ArgsAssumption DEF set_args, MapTypeOK
  <2>2. ExpiryOf(op, a) = IF a.ttl = 0 THEN 0 ELSE now + a.ttl
    BY DEF ExpiryOf
  <2> QED
    BY <2>1, <2>2
<1>9. op = "expire" => ExpiryOf(op, a) > 0
  <2> SUFFICES ASSUME op = "expire" PROVE ExpiryOf(op, a) > 0
    OBVIOUS
  <2>1. a.ttl \in Int /\ now \in Nat
    BY <1>3, ArgsAssumption DEF expire_args, MapTypeOK
  <2>2. ExpiryOf(op, a) = IF now + a.ttl < 1 THEN 1 ELSE now + a.ttl
    BY DEF ExpiryOf, Deadline
  <2> QED
    BY <2>1, <2>2
<1>10. Remembers(t)'
  <2> HIDE DEF ExpiryOf
  <2> QED
    BY <1>6, <1>7, <1>8, <1>9 DEF Remembers
<1>11. ASSUME NEW u \in Threads \ {t} PROVE Remembers(u)'
  <2>1. PICK x, m : x = Key(u) /\ m = Origin(x, cmd[u].op, wb[u].mput.ver)
    OBVIOUS
  <2> QED
    BY <1>3, <1>4, <1>5, <2>1, Remembered DEF EffectInv, ControlOK
<1> QED
  BY <1>10, <1>11 DEF EffectInv

(* A compaction keeps the records a pending batch was made from.             *)
LEMMA CompactionEffect ==
    ASSUME Serialised, EffectInv, ContentInv', CompactionDrop \/ compact
    PROVE  EffectInv'
<1>0. /\ UNCHANGED <<metas, versions, pc, cmd, mem, wb>> /\ boot = "serving"
  BY DEF CompactionDrop, compact, local, GcActive, Serialised
<1>1. GcInv /\ ControlOK /\ DiskTypeOK /\ ContentInv
  BY DEF EffectInv, ContentInv, MapInv, GcInv, TypeInv, TypeOK
<1>2. \A x, v : v # 0 /\ versions[x] = v => scan(x, v)' = scan(x, v)
  BY CompactionKeeps
<1>3. ASSUME NEW t \in Threads PROVE Remembers(t)'
  <2>1. PICK k, m : k = Key(t) /\ m = Origin(k, cmd[t].op, wb[t].mput.ver)
    OBVIOUS
  <2>2. Remembers(t) /\ Control(t) /\ Claim(t)
    BY <1>1 DEF EffectInv, ControlOK, GcInv
  <2>3. ASSUME pc[t] \in {"commit", "empty"} PROVE m.ver # 0 /\ versions[k] = m.ver
    <3>1. Running(t) /\ cmd[t].op \notin {"flush", "set"}
      BY <2>2, <2>3 DEF Running, Control, Creators, Removers
    <3>2. k \in Keys /\ Anchored(t) /\ Knows(t)
      BY <1>1, <2>1, <3>1, AtContent
    <3>3. CASE pc[t] = "commit"
      <4>1. wb[t].mput \in Metas /\ versions[k] = wb[t].mput.ver /\ Anchor(k, wb[t].mput)
        BY <2>1, <2>2, <3>2, <3>3 DEF Control, Claim, Anchored
      <4>2. wb[t].mput.ver # 0
        BY <4>1 DEF Metas
      <4>3. m.ver = wb[t].mput.ver
        BY <2>1, <4>1 DEF Origin, Anchor, Holding, Meta
      <4> QED
        BY <4>1, <4>2, <4>3
    <3>4. CASE pc[t] = "empty"
      <4>1. metas[k] # NoMeta
        BY <2>1, <3>2, <3>4 DEF Knows
      <4>2. m = metas[k] /\ m \in Metas
        BY <1>1, <2>1, <3>2, <4>1 DEF Origin, DiskTypeOK
      <4>3. m.type \in Composite
        BY <2>1, <2>2, <3>4 DEF Remembers, type_for, Composite
      <4>4. ~Overwriting(k)
        <5>1. \A u \in Threads : Key(u) = k => u = t
          BY <1>1, <2>1, <3>1, <3>2, BaseAssumption
          DEF GcInv, Exclusive, ControlOK, Control, Running, Key
        <5> QED
          BY <3>1, <5>1 DEF Overwriting
      <4> QED
        BY <1>0, <1>1, <3>2, <4>1, <4>2, <4>3, <4>4 DEF GcInv, Tracked, Metas
    <3> QED
      BY <2>3, <3>3, <3>4
  <2>4. pc[t] \in {"commit", "empty"} => scan(k, m.ver)' = scan(k, m.ver)
    BY <1>2, <2>3
  <2> QED
    BY <1>0, <2>1, <2>2, <2>4, Remembered
<1> QED
  BY <1>3 DEF EffectInv

(* The clock, restarts and the opening of the store.                         *)
LEMMA EnvironmentEffect ==
    ASSUME EffectInv, ContentInv', Tick \/ UNCHANGED vars \/ Restart \/ Boot
    PROVE  EffectInv'
<1>0. ControlOK /\ Booting /\ UNCHANGED <<metas, subs, index>>
  BY DEF EffectInv, ContentInv, MapInv, GcInv, TypeInv, Tick, vars, Restart, Boot, install_gc,
     RebuildKey, Serve, disk
<1>1. \A x, v : scan(x, v)' = scan(x, v)
  BY <1>0, SameRecords
<1>2. CASE Tick \/ UNCHANGED vars \/ Boot
  <2>1. UNCHANGED <<pc, cmd, mem, wb>>
    BY <1>2 DEF Tick, vars, Boot, install_gc, RebuildKey, Serve, local
  <2>2. ASSUME NEW t \in Threads PROVE Remembers(t)'
    <3>1. PICK k, m : k = Key(t) /\ m = Origin(k, cmd[t].op, wb[t].mput.ver)
      OBVIOUS
    <3> QED
      BY <1>0, <1>1, <2>1, <3>1, Remembered DEF EffectInv, ControlOK
  <2> QED
    BY <2>2 DEF EffectInv
<1>3. CASE Restart
  <2>1. \A t \in Threads : pc'[t] = "idle" /\ cmd'[t].op = "none"
    BY <1>3 DEF Restart, NoCmd
  <2>2. \A t \in Threads : Remembers(t)'
    BY <2>1, IdleRemembers
  <2> QED
    BY <2>2 DEF EffectInv
<1> QED
  BY <1>2, <1>3

LEMMA InitEffect == Init => EffectInv
<1> SUFFICES ASSUME Init PROVE EffectInv
  OBVIOUS
<1>1. \A t \in Threads : pc[t] = "idle" /\ cmd[t].op = "none"
  BY DEF Init, NoCmd
<1> QED
  BY <1>1, InitContent DEF EffectInv, Remembers

LEMMA NextEffect ==
    Serialised /\ NoClockBack /\ CleanStops /\ EffectInv /\ [Next]_vars => EffectInv'
<1> SUFFICES ASSUME Serialised, NoClockBack, CleanStops, EffectInv, [Next]_vars
             PROVE  EffectInv'
  OBVIOUS
<1>0. ContentInv'
  BY NextContent DEF EffectInv
<1>1. ASSUME NEW t \in Threads, Start(t) PROVE EffectInv'
  BY <1>0, <1>1, StartEffect
<1>2. ASSUME NEW t \in Threads, Step(t) PROVE EffectInv'
  BY <1>0, <1>2, LoadEffect, DeleteEffect, CreateEffect, CommitEffect, ExecEffect,
     FlushEffect DEF Step
<1>3. ASSUME NEW t \in Threads, WriteFails(t) PROVE EffectInv'
  BY <1>3 DEF WriteFails, Serialised
<1> QED
  BY <1>0, <1>1, <1>2, <1>3, CompactionEffect, EnvironmentEffect DEF Next

-----------------------------------------------------------------------------
(* What a command tells its client. *)

LEMMA Largest ==
    ASSUME NEW n \in Nat, NEW T, T \subseteq 1 .. n, T # {}
    PROVE  \E i \in T : \A j \in T : j <= i
<1> DEFINE U == {n - i : i \in T}
<1>1. U \subseteq Nat /\ U # {}
  <2>1. \A i \in T : n - i \in Nat /\ n - i \in U
    OBVIOUS
  <2> QED
    BY <2>1
<1> HIDE DEF U
<1>2. PICK x \in U : \A y \in U : <<y, x>> \notin OpToRel(<, Nat)
  BY <1>1, NatLessThanWellFounded, WFMin
<1>3. \A y \in U : ~(y < x)
  BY <1>1, <1>2 DEF OpToRel
<1>4. PICK i \in T : x = n - i
  BY DEF U
<1>5. ASSUME NEW j \in T PROVE j <= i
  <2>1. n - j \in U
    BY DEF U
  <2>2. ~(n - j < n - i)
    BY <1>3, <1>4, <2>1
  <2>3. i \in Int /\ j \in Int
    OBVIOUS
  <2> QED
    BY <2>2, <2>3
<1> QED
  BY <1>5

(* The members of a content of pairs are the fields of its records.          *)
LEMMA ContentMembers ==
    ASSUME NEW m, NEW S, m.type \in {"hash", "zset"}
    PROVE  Abstract!Members(Content(m, S)) = FieldsOf(S)
<1>1. CASE m.type = "hash"
  <2> DEFINE C == {<<r.field, r.val>> : r \in S}
  <2>1. Content(m, S) = C
    BY <1>1 DEF Content
  <2>2. \A q \in C : \E r \in S : q[1] = r.field
    OBVIOUS
  <2>3. ASSUME NEW r \in S PROVE \E q \in C : q[1] = r.field
    <3>1. <<r.field, r.val>> \in C
      BY <2>3
    <3> QED
      BY <3>1
  <2> HIDE DEF C
  <2> QED
    BY <2>1, <2>2, <2>3 DEF Abstract!Members, FieldsOf
<1>2. CASE m.type = "zset"
  <2> DEFINE num(r) == Number(decode_score(r.val))
             C == {<<r.field, num(r)>> : r \in S}
  <2>1. Content(m, S) = C
    BY <1>2 DEF Content
  <2> HIDE DEF num
  <2>2. \A q \in C : \E r \in S : q[1] = r.field
    OBVIOUS
  <2>3. ASSUME NEW r \in S PROVE \E q \in C : q[1] = r.field
    <3>1. <<r.field, num(r)>> \in C
      BY <2>3
    <3> QED
      BY <3>1
  <2> HIDE DEF C
  <2> QED
    BY <2>1, <2>2, <2>3 DEF Abstract!Members, FieldsOf
<1> QED
  BY <1>1, <1>2

(* The commands on sets, and zrem, count different members.                  *)
LEMMA MemberReplies ==
    ASSUME NEW k, NEW m, NEW op \in {"sadd", "srem", "zrem"}, m.type = type_for(op), NEW a
    PROVE  Reply(op, k, m, a) = Abstract!Answer(op, Content(m, scan(k, m.ver)), a)
<1> DEFINE S == scan(k, m.ver)
           A == {a[i] : i \in DOMAIN a}
           in == {x \in A : has(k, m.ver, x)}
           out == {x \in A : ~has(k, m.ver, x)}
<1>1. in = A \cap FieldsOf(S) /\ out = A \ FieldsOf(S)
  BY HasField
<1>2. Abstract!ToSet(a) = A
  BY DEF Abstract!ToSet
<1>3. CASE op = "sadd"
  <2>1. Content(m, S) = FieldsOf(S)
    BY <1>3 DEF Content, FieldsOf, type_for
  <2>2. Reply(op, k, m, a) = Cardinality(out)
    BY <1>3 DEF Reply, sadd_reply
  <2> HIDE DEF S, A, out
  <2>3. Abstract!Answer(op, Content(m, S), a) = Cardinality(A \ FieldsOf(S))
    BY <1>2, <1>3, <2>1, SameCardinality DEF Abstract!Answer
  <2> QED
    BY <1>1, <2>2, <2>3 DEF S
<1>4. CASE op = "srem"
  <2>1. Content(m, S) = FieldsOf(S)
    BY <1>4 DEF Content, FieldsOf, type_for
  <2>2. Reply(op, k, m, a) = Cardinality(in)
    BY <1>4 DEF Reply, srem_reply
  <2> HIDE DEF S, A, in
  <2>3. Abstract!Answer(op, Content(m, S), a) = Cardinality(A \cap FieldsOf(S))
    BY <1>2, <1>4, <2>1, SameCardinality DEF Abstract!Answer
  <2> QED
    BY <1>1, <2>2, <2>3 DEF S
<1>5. CASE op = "zrem"
  <2>1. Abstract!Members(Content(m, S)) = FieldsOf(S)
    BY <1>5, ContentMembers DEF type_for
  <2>2. Reply(op, k, m, a) = Cardinality(in)
    BY <1>5 DEF Reply, zrem_reply
  <2> HIDE DEF S, A, in
  <2>3. Abstract!Answer(op, Content(m, S), a) = Cardinality(A \cap FieldsOf(S))
    BY <1>2, <1>5, <2>1, SameCardinality DEF Abstract!Answer
  <2> QED
    BY <1>1, <2>2, <2>3 DEF S
<1> QED
  BY <1>3, <1>4, <1>5

(* hset and hdel count positions: as many as fields, when none is repeated.  *)
LEMMA HashReplies ==
    ASSUME NoRepeats, NEW k, NEW m, NEW op \in {"hset", "hdel"}, m.type = "hash", NEW a \in Args[op]
    PROVE  Reply(op, k, m, a) = Abstract!Answer(op, Content(m, scan(k, m.ver)), a)
<1> DEFINE S == scan(k, m.ver)
<1>0. Abstract!Members(Content(m, S)) = FieldsOf(S)
  BY ContentMembers
<1>1. CASE op = "hset"
  <2> DEFINE P == {i \in DOMAIN a : ~has(k, m.ver, a[i].field)}
             A == {a[i].field : i \in DOMAIN a}
             f == [i \in P |-> a[i].field]
             T == A \ FieldsOf(S)
  <2>1. a \in Seq([field : Fields, val : Values])
    BY <1>1, ArgsAssumption DEF hset_args, NonEmptySeq
  <2>2. IsFiniteSet(P)
    <3>1. DOMAIN a = 1 .. Len(a) /\ Len(a) \in Nat
      BY <2>1
    <3>2. P \subseteq DOMAIN a /\ IsFiniteSet(DOMAIN a)
      BY <3>1, FS_Interval
    <3> HIDE DEF P
    <3> QED
      BY <3>2, FS_Subset
  <2>3. f \in [P -> T] /\ \A y \in T : \E x \in P : f[x] = y
    BY HasField
  <2>4. \A x, y \in P : f[x] = f[y] => x = y
    BY <1>1 DEF NoRepeats
  <2>5. Reply(op, k, m, a) = Cardinality(P)
    BY <1>1 DEF Reply, hset_reply
  <2> HIDE DEF S, P, f
  <2>6. Abstract!Answer(op, Content(m, S), a) = Cardinality(T)
    BY <1>0, <1>1, SameCardinality DEF Abstract!Answer
  <2> HIDE DEF T
  <2>7. Cardinality(T) = Cardinality(P)
    BY <2>2, <2>3, <2>4, Counting
  <2> QED
    BY <2>5, <2>6, <2>7 DEF S
<1>2. CASE op = "hdel"
  <2> DEFINE P == {i \in DOMAIN a : has(k, m.ver, a[i])}
             A == {a[i] : i \in DOMAIN a}
             f == [i \in P |-> a[i]]
             T == A \cap FieldsOf(S)
  <2>1. a \in Seq(Fields)
    BY <1>2, ArgsAssumption DEF hdel_args, NonEmptySeq
  <2>2. IsFiniteSet(P)
    <3>1. DOMAIN a = 1 .. Len(a) /\ Len(a) \in Nat
      BY <2>1
    <3>2. P \subseteq DOMAIN a /\ IsFiniteSet(DOMAIN a)
      BY <3>1, FS_Interval
    <3> HIDE DEF P
    <3> QED
      BY <3>2, FS_Subset
  <2>3. f \in [P -> T] /\ \A y \in T : \E x \in P : f[x] = y
    BY HasField
  <2>4. \A x, y \in P : f[x] = f[y] => x = y
    BY <1>2 DEF NoRepeats
  <2>5. Reply(op, k, m, a) = Cardinality(P)
    BY <1>2 DEF Reply, hdel_reply
  <2> HIDE DEF S, P, f
  <2>6. Abstract!Answer(op, Content(m, S), a) = Cardinality(T)
    BY <1>0, <1>2, SameCardinality DEF Abstract!Answer, Abstract!ToSet
  <2> HIDE DEF T
  <2>7. Cardinality(T) = Cardinality(P)
    BY <2>2, <2>3, <2>4, Counting
  <2> QED
    BY <2>5, <2>6, <2>7 DEF S
<1> QED
  BY <1>1, <1>2

(* zadd counts the members it adds: one pair per member counts.              *)
LEMMA ZaddReply ==
    ASSUME NEW k, NEW m, m.type = "zset", NEW a \in zadd_args
    PROVE  Reply("zadd", k, m, a) = Abstract!Answer("zadd", Content(m, scan(k, m.ver)), a)
<1> DEFINE S == scan(k, m.ver)
           P == {p \in effective(a) : Stored(k, m.ver, p.member) = {}}
           A == {a[i].member : i \in DOMAIN a}
           f == [p \in P |-> p.member]
           T == A \ FieldsOf(S)
<1>1. /\ IsFiniteSet(effective(a))
      /\ \A p, q \in effective(a) : p.member = q.member => p = q
  BY EffectivePairs
<1>2. IsFiniteSet(P)
  <2>1. P \subseteq effective(a)
    OBVIOUS
  <2> HIDE DEF P
  <2> QED
    BY <1>1, <2>1, FS_Subset
<1>3. \A x : Stored(k, m.ver, x) = {} <=> x \notin FieldsOf(S)
  BY DEF Stored, FieldsOf
<1>4. A = {p.member : p \in effective(a)}
  <2>1. ASSUME NEW i \in DOMAIN a PROVE \E p \in effective(a) : p.member = a[i].member
    <3>1. DOMAIN a = 1 .. Len(a) /\ Len(a) \in Nat
      BY DEF zadd_args, NonEmptySeq
    <3> DEFINE J == {j \in DOMAIN a : a[j].member = a[i].member}
    <3>2. J \subseteq 1 .. Len(a) /\ J # {}
      BY <2>1, <3>1
    <3> HIDE DEF J
    <3>3. PICK j \in J : \A l \in J : l <= j
      BY <3>1, <3>2, Largest
    <3> USE DEF J
    <3>4. j \in DOMAIN a /\ a[j].member = a[i].member
      BY <3>3
    <3>5. \A l \in DOMAIN a : l > j => a[l].member # a[j].member
      BY <3>1, <3>3, <3>4
    <3>6. a[j] \in effective(a)
      BY <3>4, <3>5 DEF effective
    <3> QED
      BY <3>4, <3>6
  <2>2. \A p \in effective(a) : \E i \in DOMAIN a : p = a[i]
    BY DEF effective
  <2> QED
    BY <2>1, <2>2
<1>5. f \in [P -> T] /\ \A y \in T : \E x \in P : f[x] = y
  BY <1>3, <1>4
<1>6. \A x, y \in P : f[x] = f[y] => x = y
  BY <1>1
<1>7. Reply("zadd", k, m, a) = Cardinality(P)
  BY DEF Reply, zadd_reply
<1>8. Abstract!Members(Content(m, S)) = FieldsOf(S)
  BY ContentMembers
<1> HIDE DEF S, P, f
<1>9. Abstract!Answer("zadd", Content(m, S), a) = Cardinality(T)
  BY <1>8, SameCardinality DEF Abstract!Answer
<1> HIDE DEF T
<1>10. Cardinality(T) = Cardinality(P)
  BY <1>2, <1>5, <1>6, Counting
<1> QED
  BY <1>7, <1>9, <1>10 DEF S

(* The pushes tell the new length.                                           *)
LEMMA PushReply ==
    ASSUME NEW k, NEW m, Describes(k, m), NEW op \in {"lpush", "rpush"}, m.type = "list", NEW a
    PROVE  Reply(op, k, m, a) = Abstract!Answer(op, Content(m, scan(k, m.ver)), a)
<1>1. \A r \in scan(k, m.ver) : r.val \in SubVals
  BY DEF Describes, scan, SubRecs
<1>2. Len(Content(m, scan(k, m.ver))) = m.tail - m.head
  BY <1>1, ListContent DEF Describes
<1>3. Reply(op, k, m, a) = m.tail - m.head + Len(a)
  BY DEF Reply, push_reply
<1>4. Abstract!Answer(op, Content(m, scan(k, m.ver)), a) = Len(Content(m, scan(k, m.ver))) + Len(a)
  BY DEF Abstract!Answer
<1> QED
  BY <1>2, <1>3, <1>4

(* The pops tell the elements in the order they left.                        *)
LEMMA PopReply ==
    ASSUME NEW k, NEW m, Describes(k, m), NEW op \in {"lpop", "rpop"}, m.type = "list",
           NEW a \in pop_args
    PROVE  LET answer == Abstract!Answer(op, Content(m, scan(k, m.ver)), a)
           IN  Reply(op, k, m, a) = [i \in DOMAIN answer |-> {answer[i]}]
<1> DEFINE S == scan(k, m.ver)
           c == Content(m, S)
           len == m.tail - m.head
           n == IF a.count < len THEN a.count ELSE len
           d == IF op = "lpop" THEN c ELSE Abstract!Reverse(c)
           at(i) == IF op = "lpop" THEN m.head + i - 1 ELSE m.tail - i
           answer == Abstract!Answer(op, c, a)
<1>1. \A r \in S : r.val \in SubVals
  BY DEF Describes, scan, SubRecs
<1>2. /\ m \in Metas /\ m.head \in Int /\ m.tail \in Int /\ a.count \in Nat
      /\ Fits(S, scan_index(k, m.ver), m)
  BY DEF Describes, Metas, pop_args
<1>3. OnePer(S) /\ FieldsOf(S) = m.head .. m.tail - 1 /\ m.head <= m.tail
  BY <1>2 DEF Fits, OnePer, FieldsOf
<1>4. /\ c \in Seq(SubVals) /\ Len(c) = len /\ len \in Nat
      /\ \A i \in 1 .. len : c[i] = At(S, m.head + i - 1)
  <2> HIDE DEF S
  <2> QED
    BY <1>1, <1>2, ListContent
<1>5. n \in Nat /\ n <= len
  BY <1>2, <1>4
<1>6. Reply(op, k, m, a) = [i \in 1 .. n |-> {r.val : r \in {r \in S : r.field = at(i)}}]
  BY DEF Reply, pop_reply
<1>7. ASSUME NEW i \in 1 .. n
      PROVE  {r.val : r \in {r \in S : r.field = at(i)}} = {At(S, at(i))}
  <2>1. at(i) \in FieldsOf(S)
    <3>1. i \in Int /\ 1 <= i /\ i <= len
      <4>1. len \in Nat
        BY <1>4
      <4> HIDE DEF n, len
      <4> QED
        BY <1>5, <1>7, <4>1
    <3>2. m.head + i - 1 \in m.head .. m.tail - 1 /\ m.tail - i \in m.head .. m.tail - 1
      BY <1>2, <3>1
    <3> QED
      BY <1>3, <3>2
  <2> HIDE DEF at, S
  <2>2. PICK r \in S : r.field = at(i)
    BY <2>1 DEF FieldsOf
  <2>3. At(S, at(i)) = r.val
    BY <1>3, <2>2, AtRecord
  <2>4. {x \in S : x.field = at(i)} = {r}
    BY <1>3, <2>2 DEF OnePer
  <2> QED
    BY <2>3, <2>4
<1>8. /\ d \in Seq(SubVals) /\ Len(d) = len
      /\ \A i \in 1 .. n : d[i] = At(S, at(i))
  <2>1. CASE op = "lpop"
    BY <1>4, <1>5, <2>1
  <2>2. CASE op = "rpop"
    <3> HIDE DEF c, S
    <3>1. /\ Abstract!Reverse(c) \in Seq(SubVals) /\ Len(Abstract!Reverse(c)) = len
          /\ \A i \in 1 .. len : Abstract!Reverse(c)[i] = c[len - i + 1]
      BY <1>4 DEF Abstract!Reverse
    <3>2. ASSUME NEW i \in 1 .. n PROVE d[i] = At(S, at(i))
      <4>1. len - i + 1 \in 1 .. len /\ i \in 1 .. len
        BY <1>4, <1>5
      <4>2. c[len - i + 1] = At(S, m.head + (len - i + 1) - 1)
        BY <1>4, <4>1
      <4>3. m.head + (len - i + 1) - 1 = m.tail - i
        BY <1>2
      <4> QED
        BY <2>2, <3>1, <4>1, <4>2, <4>3
    <3> QED
      BY <2>2, <3>1, <3>2
  <2> QED
    BY <2>1, <2>2
<1>9. answer = SubSeq(d, 1, n)
  <2>1. Abstract!Least(a.count, Len(c)) = n
    BY <1>4 DEF Abstract!Least
  <2> HIDE DEF n, c, S
  <2> QED
    BY <2>1 DEF Abstract!Answer
<1> HIDE DEF d, at, c, S, answer
<1>10. DOMAIN answer = 1 .. n /\ \A i \in 1 .. n : answer[i] = d[i]
  <2> HIDE DEF n, len
  <2> QED
    BY <1>4, <1>5, <1>8, <1>9
<1>11. \A i \in 1 .. n : {answer[i]} = {r.val : r \in {r \in S : r.field = at(i)}}
  BY <1>7, <1>8, <1>10
<1> HIDE DEF n
<1>12. Reply(op, k, m, a) = [i \in DOMAIN answer |-> {answer[i]}]
  BY <1>6, <1>10, <1>11
<1> QED
  BY <1>12 DEF answer, c, S

LEMMA ReplyMatches ==
    ASSUME NoRepeats, NEW op \in Creators \cup Removers, NEW k \in Keys, NEW m, Describes(k, m),
           m.type = type_for(op), NEW a \in Args[op]
    PROVE  LET answer == Abstract!Answer(op, Content(m, scan(k, m.ver)), a)
           IN  Reply(op, k, m, a)
                   = IF op \in {"lpop", "rpop"} THEN [i \in DOMAIN answer |-> {answer[i]}] ELSE answer
<1>1. CASE op \in {"sadd", "srem", "zrem"}
  BY <1>1, MemberReplies
<1>2. CASE op \in {"hset", "hdel"}
  BY <1>2, HashReplies DEF type_for
<1>3. CASE op = "zadd"
  BY <1>3, ZaddReply, ArgsAssumption DEF type_for
<1>4. CASE op \in {"lpush", "rpush"}
  BY <1>4, PushReply DEF type_for
<1>5. CASE op \in {"lpop", "rpop"}
  <2>1. a \in pop_args /\ m.type = "list"
    BY <1>5, ArgsAssumption DEF type_for
  <2> QED
    BY <1>5, <2>1, PopReply
<1> QED
  BY <1>1, <1>2, <1>3, <1>4, <1>5 DEF Creators, Removers

(* The thread on a key is the only one, and nobody replaces the key under a  *)
(* command that is not a SET.                                                *)
LEMMA OnlyThread ==
    ASSUME ContentInv, NEW t \in Threads, Running(t), cmd[t].op # "flush",
           NEW k \in Keys, k = Key(t)
    PROVE  /\ \A u \in Threads : Key(u) = k => u = t
           /\ cmd[t].op # "set" => \A u \in Threads : ~Replacing(u, k)
<1>1. Exclusive /\ \A u \in Threads : Control(u)
  BY DEF ContentInv, MapInv, SerialInv, TypeInv, ControlOK
<1>2. \A u \in Threads : Key(u) = k => u = t
  BY <1>1, BaseAssumption DEF Exclusive, Control, Running, Key
<1> QED
  BY <1>2 DEF Replacing

(* A body works on the content the abstract command works on, and that       *)
(* content is all there is of the structure.                                 *)
LEMMA BodyContent ==
    ASSUME EffectInv, NoRepeats, NEW t \in Threads, NEW k \in Keys, k = Key(t),
           NEW op, op = cmd[t].op, op \in Creators \cup Removers, Running(t), NEW m,
           \/ metas[k] # NoMeta /\ m = metas[k]
           \/ metas[k] = NoMeta /\ m = Meta(type_for(op), m.ver, 0, NoVal) /\ NoRecords(k, m.ver),
           m \in Metas, m.type = type_for(op), ~(op \in Removers /\ pc[t] = "delete")
    PROVE  /\ Describes(k, m)
           /\ Value(k) = DiskValue(metas[k], scan(k, metas[k].ver))
           /\ metas[k] = NoMeta => scan(k, m.ver) = {} /\ Value(k) = Nothing
           /\ metas[k] # NoMeta =>
                 /\ scan(k, m.ver) # {}
                 /\ Value(k) = [type |-> m.type, content |-> Content(m, scan(k, m.ver)), exp |-> m.exp]
           /\ Content(m, scan(k, m.ver)) =
                 IF Value(k) = Nothing THEN Abstract!EmptyContent(m.type) ELSE Value(k).content
<1> DEFINE S == scan(k, m.ver)
           I == scan_index(k, m.ver)
<1>0. ContentInv /\ op \notin {"set", "flush"} /\ m.type \in Composite
  BY DEF EffectInv, Creators, Removers, type_for, Composite
<1>1. DiskTypeOK
  BY <1>0 DEF ContentInv, MapInv, GcInv, TypeInv, TypeOK
<1>2. Counted(m.type)
  BY <1>0 DEF Counted
<1>3. Value(k) = DiskValue(metas[k], scan(k, metas[k].ver))
  BY <1>0, OnlyThread, ValueFacts
<1>4. CASE metas[k] # NoMeta
  <2>1. m = metas[k]
    BY <1>4
  <2>2. Full(scan(k, metas[k].ver), scan_index(k, metas[k].ver), metas[k])
    BY <1>0, <1>4, WholeOfOwn
  <2>3. Fits(S, I, m) /\ S # {}
    BY <1>2, <2>1, <2>2 DEF Full
  <2>4. Describes(k, m)
    BY <1>1, <2>3 DEF Describes, DiskTypeOK
  <2>5. Value(k) = [type |-> m.type, content |-> Content(m, S), exp |-> m.exp]
    BY <1>3, <1>4, <2>1, <2>3 DEF DiskValue
  <2> HIDE DEF S
  <2>6. Value(k).type = m.type /\ Value(k).content = Content(m, S)
    BY <2>5
  <2>7. Value(k) # Nothing
    BY <1>0, <2>6 DEF Nothing, Composite
  <2> QED
    BY <1>3, <1>4, <2>3, <2>4, <2>5, <2>6, <2>7 DEF S
<1>5. CASE metas[k] = NoMeta
  <2>1. S = {} /\ I = {}
    BY <1>5 DEF NoRecords, scan, scan_index
  <2>2. m.cnt = 0 /\ m.head = 0 /\ m.tail = 0
    BY <1>5 DEF Meta
  <2>3. Fits({}, {}, m)
    <3>1. {r.field : r \in {}} = {} /\ {Idx(r.key, r.ver, r.val, r.field) : r \in {}} = {}
      OBVIOUS
    <3>2. IsFiniteSet({}) /\ Cardinality({}) = 0 /\ 0 .. 0 - 1 = {}
      BY FS_EmptySet
    <3> QED
      BY <2>2, <3>1, <3>2 DEF Fits
  <2>4. Describes(k, m)
    BY <1>1, <2>1, <2>3 DEF Describes, DiskTypeOK
  <2>5. Value(k) = Nothing
    BY <1>3, <1>5 DEF DiskValue
  <2>6. Content(m, S) = Abstract!EmptyContent(m.type)
    BY <1>0, <2>1, <2>3, EmptyIff
  <2> QED
    BY <1>3, <1>5, <2>1, <2>4, <2>5, <2>6
<1> QED
  BY <1>4, <1>5

LEMMA EffectReplies == EffectInv /\ NoRepeats => RepliesMatch
<1> SUFFICES ASSUME EffectInv, NoRepeats, NEW t \in Threads, pc[t] = "exec"
             PROVE  LET k == Key(t)
                        op == cmd[t].op
                        type == type_for(op)
                        content == IF Value(k) = Nothing THEN Abstract!EmptyContent(type)
                                   ELSE Value(k).content
                        answer == Abstract!Answer(op, content, cmd[t].args)
                    IN  Reply(op, k, mem[t], cmd[t].args)
                            = IF op \in {"lpop", "rpop"} THEN [i \in DOMAIN answer |-> {answer[i]}]
                              ELSE answer
  BY DEF RepliesMatch
<1>1. Running(t) /\ ContentInv /\ Control(t) /\ Remembers(t)
  BY DEF Running, EffectInv, ContentInv, MapInv, GcInv, TypeInv, ControlOK
<1>2. cmd[t].op \in Creators \cup Removers
  BY <1>1 DEF Control
<1>3. cmd[t].op # "flush"
  BY <1>2 DEF Creators, Removers
<1>4. Key(t) \in Keys /\ Anchored(t) /\ ThreadsTypeOK
  BY <1>1, <1>3, AtContent
<1>5. PICK k, op, m, a : k = Key(t) /\ op = cmd[t].op /\ m = mem[t] /\ a = cmd[t].args
  OBVIOUS
<1>6. m \in Metas /\ m.type = type_for(op) /\ k \in Keys /\ op \in Creators \cup Removers /\ a \in Args[op]
  BY <1>1, <1>2, <1>4, <1>5 DEF Control, ThreadsTypeOK, Ops
<1>7. m = Origin(k, op, m.ver) /\ Anchor(k, m)
  BY <1>1, <1>4, <1>5 DEF Remembers, Anchored
<1>8. \/ metas[k] # NoMeta /\ m = metas[k]
      \/ metas[k] = NoMeta /\ m = Meta(type_for(op), m.ver, 0, NoVal) /\ NoRecords(k, m.ver)
  BY <1>7 DEF Origin, Anchor, Holding
<1>9. /\ Describes(k, m)
      /\ Content(m, scan(k, m.ver)) =
            IF Value(k) = Nothing THEN Abstract!EmptyContent(m.type) ELSE Value(k).content
  BY <1>1, <1>5, <1>6, <1>8, BodyContent
<1>10. LET answer == Abstract!Answer(op, Content(m, scan(k, m.ver)), a)
       IN  Reply(op, k, m, a)
               = IF op \in {"lpop", "rpop"} THEN [i \in DOMAIN answer |-> {answer[i]}] ELSE answer
  BY <1>6, <1>9, ReplyMatches
<1> QED
  BY <1>5, <1>6, <1>9, <1>10

(* EffectInv holds along every behaviour.                                    *)
LEMMA EffectHolds == Serialised /\ NoClockBack /\ CleanStops => (Spec => []EffectInv)
<1> SUFFICES ASSUME Serialised, NoClockBack, CleanStops PROVE Spec => []EffectInv
  OBVIOUS
<1>1. Init => EffectInv
  BY InitEffect
<1>2. EffectInv /\ [Next]_vars => EffectInv'
  BY NextEffect
<1> QED
  BY <1>1, <1>2, PTL DEF Spec

(* RepliesMatch for every set of keys, fields, values, arguments and threads: *)
(* a command on a composite key tells its client what the atomic command     *)
(* would (new fields, removed members, lengths, popped elements in order),   *)
(* when commands on one key do not overlap, a stop is clean and no hash      *)
(* command names a field twice.                                              *)
THEOREM RepliesAreRight ==
    Serialised /\ NoClockBack /\ CleanStops /\ NoRepeats => (Spec => []RepliesMatch)
<1> SUFFICES ASSUME Serialised, NoClockBack, CleanStops, NoRepeats PROVE Spec => []RepliesMatch
  OBVIOUS
<1>1. EffectInv => RepliesMatch
  BY EffectReplies
<1> QED
  BY <1>1, EffectHolds, PTL

-----------------------------------------------------------------------------
(* Every step of the store is a step of the key map, or changes nothing a    *)
(* client sees. *)

\* A step of the abstract specification.
AbstractStep == [Abstract!Next]_<<Database, now>>

LEMMA Unseen ==
    ASSUME \A k \in Keys : Value(k)' = Value(k), UNCHANGED now
    PROVE  AbstractStep
<1>1. Database' = Database
  BY SameDatabase
<1> QED
  BY <1>1 DEF AbstractStep

(* A step that leaves the disk alone and neither starts nor ends the         *)
(* replacing phase of a SET.                                                 *)
LEMMA QuietStep ==
    ASSUME ContentInv, ContentInv', UNCHANGED <<metas, subs, now>>,
           \A t \in Threads : \A k \in Keys :
              /\ Replacing(t, k)' <=> Replacing(t, k)
              /\ Replacing(t, k) => cmd'[t] = cmd[t]
    PROVE  AbstractStep
<1>1. ASSUME NEW k \in Keys PROVE Value(k)' = Value(k)
  <2>1. metas'[k] = metas[k]
    OBVIOUS
  <2>2. scan(k, metas[k].ver)' = scan(k, metas[k].ver)
    BY DEF scan
  <2> QED
    BY <2>1, <2>2, SameValue
<1> QED
  BY <1>1, Unseen

(* Loading, forgetting a map entry, drawing and registering a version, the   *)
(* body's reads, and the scans and the last step of FLUSH.                   *)
LEMMA ThreadUnseen ==
    ASSUME EffectInv, ContentInv', NEW t \in Threads,
           \/ LoadMissing(t) \/ LoadExpired(t) \/ LoadFound(t) \/ ForgetVersion(t)
           \/ Alloc(t) \/ Register(t) \/ Exec(t)
           \/ FlushMeta(t) \/ FlushSub(t) \/ FlushIdx(t) \/ FlushClear(t)
    PROVE  AbstractStep
<1>0. ContentInv /\ ThreadsTypeOK /\ Control(t)
  BY DEF EffectInv, ContentInv, MapInv, GcInv, TypeInv, TypeOK, ControlOK
<1>1. UNCHANGED <<metas, subs, now>>
  BY DEF LoadMissing, LoadExpired, LoadFound, ForgetVersion, Alloc, Drawn, Register, Exec,
     FlushMeta, FlushSub, FlushIdx, FlushClear, disk
<1>2. \A u \in Threads \ {t} : pc'[u] = pc[u] /\ cmd'[u] = cmd[u]
  BY <1>0 DEF LoadMissing, LoadExpired, LoadFound, ForgetVersion, Alloc, Drawn, Register, Exec,
     FlushMeta, FlushSub, FlushIdx, FlushClear, Continue, Goto, Finish, ThreadsTypeOK
<1>3. CASE cmd[t].op = "set"
  <2>1. Alloc(t)
    BY <1>0, <1>3 DEF LoadMissing, LoadExpired, LoadFound, ForgetVersion, Register, Exec,
       FlushMeta, FlushSub, FlushIdx, FlushClear, Control
  <2>2. pc[t] = "alloc" /\ pc'[t] = "put" /\ cmd'[t] = cmd[t]
    BY <1>0, <1>3, <2>1 DEF Alloc, Drawn, Goto, ThreadsTypeOK
  <2>3. \A u \in Threads : \A k \in Keys :
           /\ Replacing(u, k)' <=> Replacing(u, k)
           /\ Replacing(u, k) => cmd'[u] = cmd[u]
    BY <1>2, <1>3, <2>2 DEF Replacing, Key
  <2> QED
    BY <1>0, <1>1, <2>3, QuietStep
<1>4. CASE cmd[t].op # "set"
  <2>1. cmd'[t].op # "set"
    <3>1. cmd'[t] = cmd[t] \/ cmd'[t] = NoCmd
      BY <1>0 DEF LoadMissing, LoadExpired, LoadFound, ForgetVersion, Alloc, Drawn, Register, Exec,
         FlushMeta, FlushSub, FlushIdx, FlushClear, Continue, Goto, Finish, ThreadsTypeOK
    <3> QED
      BY <1>4, <3>1 DEF NoCmd
  <2>2. \A u \in Threads : \A k \in Keys :
           /\ Replacing(u, k)' <=> Replacing(u, k)
           /\ Replacing(u, k) => cmd'[u] = cmd[u]
    BY <1>2, <1>4, <2>1 DEF Replacing, Key
  <2> QED
    BY <1>0, <1>1, <2>2, QuietStep
<1> QED
  BY <1>3, <1>4

LEMMA StartUnseen ==
    ASSUME EffectInv, ContentInv', NEW t \in Threads, Start(t)
    PROVE  AbstractStep
<1>0. ContentInv /\ ThreadsTypeOK
  BY DEF EffectInv, ContentInv, MapInv, GcInv, TypeInv, TypeOK
<1>1. PICK op \in Ops, k \in Keys \cup {NoKey} : \E a \in Args[op] : Begin(t, op, k, a)
  BY DEF Start
<1>2. PICK a \in Args[op] : Begin(t, op, k, a)
  BY <1>1
<1>3. /\ UNCHANGED <<metas, subs, now>> /\ pc[t] = "idle" /\ pc'[t] = FirstPc(op)
      /\ \A u \in Threads \ {t} : pc'[u] = pc[u] /\ cmd'[u] = cmd[u]
  BY <1>0, <1>2 DEF Begin, Running, Goto, ThreadsTypeOK, disk
<1>4. pc'[t] \in {"overwrite", "flushMeta", "peek", "load"}
  BY <1>3 DEF FirstPc
<1>5. \A u \in Threads : \A x \in Keys :
         /\ Replacing(u, x)' <=> Replacing(u, x)
         /\ Replacing(u, x) => cmd'[u] = cmd[u]
  BY <1>3, <1>4 DEF Replacing, Key
<1> QED
  BY <1>0, <1>3, <1>5, QuietStep

(* Collecting garbage is invisible.                                          *)
LEMMA CompactionUnseen ==
    ASSUME Serialised, EffectInv, ContentInv', CompactionDrop \/ compact
    PROVE  AbstractStep
<1>0. /\ UNCHANGED <<metas, versions, now, pc, cmd>> /\ boot = "serving"
  BY DEF CompactionDrop, compact, local, GcActive, Serialised
<1>1. GcInv /\ DiskTypeOK /\ ContentInv
  BY DEF EffectInv, ContentInv, MapInv, GcInv, TypeInv, TypeOK
<1>2. /\ \A x, v : v # 0 /\ versions[x] = v => scan(x, v)' = scan(x, v)
      /\ \A x, v : scan(x, v)' \subseteq scan(x, v)
  BY CompactionKeeps
<1>3. ASSUME NEW k \in Keys PROVE Value(k)' = Value(k)
  <2>1. \A t \in Threads : /\ Replacing(t, k)' <=> Replacing(t, k)
                           /\ cmd'[t] = cmd[t]
    BY <1>0 DEF Replacing, Key
  <2>2. CASE metas[k] # NoMeta /\ metas[k].type = "string" /\ \A t \in Threads : ~Replacing(t, k)
    <3>1. /\ Value(k) = DiskValue(metas[k], scan(k, metas[k].ver))
          /\ Value(k)' = DiskValue(metas'[k], scan(k, metas[k].ver)')
      BY <1>1, <2>1, <2>2, ValueFacts, ValueFactsNext
    <3> QED
      BY <1>0, <2>2, <3>1 DEF DiskValue, Content
  <2>3. CASE ~(metas[k] # NoMeta /\ metas[k].type = "string" /\ \A t \in Threads : ~Replacing(t, k))
    <3>1. ASSUME metas[k] # NoMeta, \A t \in Threads : ~Replacing(t, k)
          PROVE  scan(k, metas[k].ver)' = scan(k, metas[k].ver)
      <4>1. metas[k] \in Metas /\ metas[k].type # "string" /\ ~Overwriting(k)
        BY <1>1, <2>3, <3>1 DEF DiskTypeOK, Overwriting, Replacing
      <4>2. metas[k].type \in Composite /\ metas[k].ver # 0
        BY <4>1 DEF Metas
      <4>3. PICK v : v = metas[k].ver
        OBVIOUS
      <4>4. v # 0 /\ versions[k] = v
        BY <1>0, <1>1, <3>1, <4>1, <4>2, <4>3 DEF GcInv, Tracked
      <4>5. scan(k, v)' = scan(k, v)
        BY <1>2, <4>4
      <4> QED
        BY <1>0, <4>3, <4>5 DEF scan
    <3> QED
      BY <1>0, <1>1, <2>1, <3>1, SameValue
  <2> QED
    BY <2>2, <2>3
<1> QED
  BY <1>0, <1>3, Unseen

(* The clock and a restart only let time pass.                               *)
LEMMA TimeStep ==
    ASSUME NoClockBack, CleanStops, EffectInv, ContentInv', Tick \/ UNCHANGED vars \/ Restart \/ Boot
    PROVE  AbstractStep
<1>0. /\ ContentInv /\ ThreadsTypeOK /\ MapTypeOK /\ Booting
      /\ UNCHANGED <<metas, subs>>
  BY DEF EffectInv, ContentInv, MapInv, GcInv, TypeInv, TypeOK, Tick, vars, Restart, Boot,
     install_gc, RebuildKey, Serve, disk
<1>1. \A t \in Threads : \A k \in Keys :
         /\ Replacing(t, k)' <=> Replacing(t, k)
         /\ Replacing(t, k) => cmd'[t] = cmd[t]
  <2>1. CASE Tick \/ UNCHANGED vars \/ Boot
    BY <2>1 DEF Tick, vars, Boot, install_gc, RebuildKey, Serve, local, Replacing, Key
  <2>2. CASE Restart
    <3>1. \A t \in Threads : pc'[t] = "idle"
      BY <2>2 DEF Restart
    <3>2. \A t \in Threads : ~Running(t) \/ cmd[t].op # "set"
      <4>1. CASE "crash" \in Faults
        BY <1>0, <4>1 DEF CleanStops, ThreadsTypeOK, Ops
      <4> QED
        BY <2>2, <4>1 DEF Restart
    <3> QED
      BY <3>1, <3>2 DEF Replacing, Running
  <2> QED
    BY <2>1, <2>2
<1>2. \A k \in Keys : Value(k)' = Value(k)
  <2> TAKE k \in Keys
  <2>1. metas'[k] = metas[k] /\ scan(k, metas[k].ver)' = scan(k, metas[k].ver)
    BY <1>0 DEF scan
  <2> QED
    BY <1>0, <1>1, <2>1, SameValue
<1>3. Database' = Database
  BY <1>2, SameDatabase
<1>4. now' >= now
  BY <1>0 DEF Tick, vars, Restart, RestartClock, NoClockBack, Boot, install_gc, RebuildKey, Serve,
     MapTypeOK
<1>5. Abstract!TimePasses
  BY <1>3, <1>4 DEF Abstract!TimePasses
<1> QED
  BY <1>5 DEF AbstractStep, Abstract!Next

LEMMA DatabaseAt ==
    ASSUME NEW k \in Keys, NEW v, Database' = [Database EXCEPT ![k] = v]
    PROVE  Database[k] = Value(k) /\ Database'[k] = v
  BY DEF Database

(* A step of the abstract specification on one key.                          *)
LEMMA KeyStep ==
    ASSUME NEW k \in Keys,
           \/ Abstract!Set(k) \/ Abstract!Del(k) \/ Abstract!ExpireAt(k) \/ Abstract!Reap(k)
           \/ \E op \in Abstract!Updates : Abstract!Update(k, op)
    PROVE  AbstractStep
  BY DEF AbstractStep, Abstract!Next

(* SET takes effect when it drops the map entry.                             *)
LEMMA OverwriteSets ==
    ASSUME EffectInv, ContentInv', NEW t \in Threads, Overwrite(t)
    PROVE  AbstractStep
<1>0. /\ ContentInv /\ Remembers(t) /\ pc[t] = "overwrite" /\ Running(t)
      /\ UNCHANGED <<metas, subs, index, now, cmd>>
  BY DEF EffectInv, Overwrite, Running, disk
<1>1. Control(t)
  BY <1>0 DEF ContentInv, MapInv, GcInv, TypeInv, ControlOK
<1>2. cmd[t].op = "set"
  BY <1>0, <1>1 DEF Control
<1>3. ThreadsTypeOK /\ Key(t) \in Keys
  BY <1>0, <1>2, AtContent
<1>4. PICK k, a : k = Key(t) /\ a = cmd[t].args /\ k \in Keys
  BY <1>3
<1>5. /\ pc'[t] = "alloc" /\ cmd'[t] = cmd[t] /\ Key(t)' = k
      /\ \A u \in Threads \ {t} : pc'[u] = pc[u] /\ cmd'[u] = cmd[u]
  BY <1>0, <1>3, <1>4 DEF Overwrite, Goto, ThreadsTypeOK, Key
<1>6. Replacing(t, k)'
  BY <1>2, <1>5 DEF Replacing
<1>7. Value(k)' = [type |-> "string", content |-> a.val, exp |-> cmd[t].exp]
  BY <1>4, <1>5, <1>6, ValueFactsNext DEF SetValue
<1>8. Database' = [Database EXCEPT ![k] = Value(k)']
  <2>1. cmd'[t].key \in {k, NoKey}
    BY <1>4, <1>5 DEF Key
  <2>2. \A x, v : scan(x, v)' = scan(x, v)
    BY <1>0, SameRecords
  <2> QED
    BY <1>0, <1>4, <1>5, <2>1, <2>2, OneValue
<1>9. a \in Args["set"] /\ (a.ttl = 0 <=> cmd[t].exp = 0)
  BY <1>0, <1>2, <1>3, <1>4 DEF ThreadsTypeOK, Ops, Remembers
<1>10. PICK v : v = [type |-> "string", content |-> a.val, exp |-> cmd[t].exp]
  OBVIOUS
<1>11. Database' = [Database EXCEPT ![k] = v] /\ Database'[k] = v
  BY <1>4, <1>7, <1>8, <1>10, DatabaseAt
<1>12. /\ v # Nothing /\ v.exp = cmd[t].exp
       /\ v = [type |-> "string", content |-> a.val, exp |-> v.exp]
  BY <1>10 DEF Nothing
<1>13. Abstract!Set(k)
  <2>1. Abstract!Becomes(k, [type |-> "string", content |-> a.val, exp |-> Database'[k].exp])
    BY <1>0, <1>11, <1>12 DEF Abstract!Becomes
  <2>2. (a.ttl = 0) <=> (Database'[k].exp = 0)
    BY <1>9, <1>11, <1>12
  <2>3. Database'[k] # Nothing
    BY <1>11, <1>12
  <2> QED
    BY <1>9, <2>1, <2>2, <2>3 DEF Abstract!Set
<1> QED
  BY <1>4, <1>13, KeyStep

(* Putting the metadata of SET is the end of a replacement already seen; the *)
(* put of EXPIRE changes the deadline.                                       *)
LEMMA PutSets ==
    ASSUME EffectInv, ContentInv', NEW t \in Threads, PutMeta(t)
    PROVE  AbstractStep
<1>0. /\ ContentInv /\ Remembers(t) /\ pc[t] = "put" /\ Running(t) /\ UNCHANGED now
  BY DEF EffectInv, PutMeta, Running
<1>1. Control(t)
  BY <1>0 DEF ContentInv, MapInv, GcInv, TypeInv, ControlOK
<1>2. cmd[t].op \in {"set", "expire"} /\ mem[t] \in Metas
  BY <1>0, <1>1 DEF Control
<1>3. ThreadsTypeOK /\ Key(t) \in Keys /\ Anchored(t)
  BY <1>0, <1>2, AtContent
<1>4. PICK k, m : k = Key(t) /\ m = mem[t] /\ k \in Keys
  BY <1>3
<1> DEFINE b == [NoBatch EXCEPT !.mput = m]
<1>5. /\ b.mdel = {} /\ b.mput = m /\ write(k, b)
      /\ b.puts = {} /\ b.dels = {} /\ b.iputs = {} /\ b.idels = {}
  BY <1>4 DEF PutMeta, NoBatch
<1> HIDE DEF b
<1>6. m \in Metas /\ m # NoMeta
  BY <1>2, <1>4, NoMetaAssumption
<1>7. metas'[k] = m /\ \A x \in Keys \ {k} : metas'[x] = metas[x]
  BY <1>4, <1>5, <1>6, WriteMeta
<1>8. \A x, v : scan(x, v)' = scan(x, v)
  BY <1>5 DEF write, scan
<1>9. /\ pc'[t] = "idle" /\ cmd'[t] = NoCmd
      /\ \A u \in Threads \ {t} : pc'[u] = pc[u] /\ cmd'[u] = cmd[u]
  BY <1>3 DEF PutMeta, Finish, ThreadsTypeOK
<1>10. Database' = [Database EXCEPT ![k] = Value(k)']
  <2>1. cmd'[t].key \in {k, NoKey}
    BY <1>9 DEF NoCmd
  <2> QED
    BY <1>0, <1>4, <1>7, <1>8, <1>9, <2>1, OneValue
<1>11. \A u \in Threads : ~Replacing(u, k)'
  <2>1. \A u \in Threads : Key(u) = k => u = t
    BY <1>0, <1>2, <1>4, OnlyThread
  <2> QED
    BY <1>9, <2>1 DEF Replacing, Key
<1>12. Value(k)' = DiskValue(m, scan(k, m.ver))
  <2>1. Value(k)' = DiskValue(metas'[k], scan(k, metas[k].ver)')
    BY <1>4, <1>11, ValueFactsNext
  <2>2. scan(k, metas[k].ver)' = scan(k, m.ver)
    <3>1. scan(k, metas[k].ver)' = {r \in subs' : r.key = k /\ r.ver = m.ver}
      BY <1>7 DEF scan
    <3>2. \A v : {r \in subs' : r.key = k /\ r.ver = v} = scan(k, v)
      BY <1>8 DEF scan
    <3> QED
      BY <3>1, <3>2
  <2> QED
    BY <1>7, <2>1, <2>2
<1>13. CASE cmd[t].op = "set"
  <2>1. m = Meta("string", m.ver, cmd[t].exp, cmd[t].args.val)
    BY <1>0, <1>4, <1>13 DEF Remembers
  <2>2. m.type = "string" /\ m.val = cmd[t].args.val /\ m.exp = cmd[t].exp
    BY <2>1 DEF Meta
  <2>3. Value(k)' = SetValue(cmd[t])
    BY <1>6, <1>12, <2>2 DEF DiskValue, Content, SetValue
  <2>4. Value(k) = SetValue(cmd[t])
    BY <1>0, <1>4, <1>13, ValueFacts DEF Replacing
  <2>5. Database' = Database
    BY <1>4, <1>10, <2>3, <2>4 DEF Database
  <2> QED
    BY <1>0, <2>5 DEF AbstractStep
<1>14. CASE cmd[t].op = "expire"
  <2>1. m = [metas[k] EXCEPT !.exp = cmd[t].exp] /\ cmd[t].exp > 0 /\ metas[k] # NoMeta
    BY <1>0, <1>3, <1>4, <1>14 DEF Remembers, Anchored, Holding
  <2>2. metas[k] \in Metas
    BY <1>0, <1>4, <2>1 DEF ContentInv, MapInv, GcInv, TypeInv, TypeOK, DiskTypeOK
  <2>3. /\ m.type = metas[k].type /\ m.ver = metas[k].ver /\ m.exp = cmd[t].exp
        /\ m.val = metas[k].val /\ m.head = metas[k].head /\ m.tail = metas[k].tail
    BY <2>1, <2>2 DEF Metas
  <2>4. Value(k) = DiskValue(metas[k], scan(k, m.ver))
    BY <1>0, <1>4, <1>14, <2>3, OnlyThread, ValueFacts
  <2> DEFINE S == scan(k, m.ver)
  <2>5. Content(m, S) = Content(metas[k], S)
    BY <2>3 DEF Content
  <2> HIDE DEF S
  <2>6. CASE m.type # "string" /\ S = {}
    <3>1. Value(k)' = Value(k)
      BY <1>12, <2>1, <2>3, <2>4, <2>6 DEF DiskValue, S
    <3>2. Database' = Database
      BY <1>4, <1>10, <3>1 DEF Database
    <3> QED
      BY <1>0, <3>2 DEF AbstractStep
  <2>7. CASE ~(m.type # "string" /\ S = {})
    <3>1. PICK old, new :
             /\ old = [type |-> m.type, content |-> Content(m, S), exp |-> metas[k].exp]
             /\ new = [type |-> m.type, content |-> Content(m, S), exp |-> cmd[t].exp]
      OBVIOUS
    <3>2. Value(k) = old /\ Value(k)' = new
      BY <1>6, <1>12, <2>1, <2>3, <2>4, <2>5, <2>7, <3>1 DEF DiskValue, S
    <3>3. old # Nothing /\ new # Nothing
      <4>1. m.type # "none"
        BY <1>6 DEF Metas, Composite
      <4> QED
        BY <3>1, <4>1 DEF Nothing
    <3>4. new = [old EXCEPT !.exp = new.exp] /\ new.exp = cmd[t].exp
      BY <3>1
    <3>5. Database[k] = old /\ Database'[k] = new /\ Database' = [Database EXCEPT ![k] = new]
      BY <1>4, <1>10, <3>2, DatabaseAt
    <3>6. Args["expire"] # {}
      BY <1>3, <1>14 DEF ThreadsTypeOK, Ops
    <3>7. Abstract!ExpireAt(k)
      <4>1. Abstract!Becomes(k, [Database[k] EXCEPT !.exp = Database'[k].exp])
        BY <1>0, <3>4, <3>5 DEF Abstract!Becomes
      <4> QED
        BY <2>1, <3>3, <3>4, <3>5, <3>6, <4>1 DEF Abstract!ExpireAt
    <3> QED
      BY <1>4, <3>7, KeyStep
  <2> QED
    BY <2>6, <2>7
<1> QED
  BY <1>2, <1>13, <1>14

(* logical_delete drops an expired value, the value DEL names, or the        *)
(* metadata of a structure whose last member is already gone.                *)
LEMMA DeleteDrops ==
    ASSUME EffectInv, ContentInv', NoRepeats, NEW t \in Threads, DeleteMeta(t)
    PROVE  AbstractStep
<1>0. /\ ContentInv /\ Remembers(t) /\ pc[t] \in {"expire", "delete"} /\ Running(t)
      /\ UNCHANGED now /\ cmd' = cmd
  BY DEF EffectInv, DeleteMeta, Running
<1>1. Control(t)
  BY <1>0 DEF ContentInv, MapInv, GcInv, TypeInv, ControlOK
<1>2. cmd[t].op \notin {"flush", "set"} /\ (pc[t] = "delete" => cmd[t].op \in Removers \cup {"del"})
  BY <1>0, <1>1 DEF Control, Creators, Removers
<1>3. ThreadsTypeOK /\ DiskTypeOK /\ Key(t) \in Keys /\ Knows(t)
  BY <1>0, <1>2, AtContent
<1>4. PICK k, m : k = Key(t) /\ m = metas[k] /\ k \in Keys
  BY <1>3
<1> DEFINE b == [NoBatch EXCEPT !.mdel = {k}]
<1>5. /\ b.mdel = {k} /\ b.mput = NoMeta /\ b.puts = {} /\ b.dels = {}
      /\ b.iputs = {} /\ b.idels = {} /\ write(k, b)
  BY <1>4 DEF DeleteMeta, NoBatch
<1> HIDE DEF b
<1>6. metas'[k] = NoMeta /\ (\A x \in Keys \ {k} : metas'[x] = metas[x])
  BY <1>4, <1>5 DEF write
<1>7. \A x, v : scan(x, v)' = scan(x, v)
  BY <1>5 DEF write, scan
<1>8. \A u \in Threads \ {t} : pc'[u] = pc[u] /\ cmd'[u] = cmd[u]
  BY <1>0, <1>3 DEF DeleteMeta, Goto, ThreadsTypeOK
<1>9. Database' = [Database EXCEPT ![k] = Value(k)']
  <2>1. cmd'[t].key \in {k, NoKey}
    BY <1>0, <1>4 DEF Key
  <2> QED
    BY <1>0, <1>4, <1>6, <1>7, <1>8, <2>1, OneValue
<1>10. \A u \in Threads : ~Replacing(u, k) /\ ~Replacing(u, k)'
  <2>1. \A u \in Threads : Key(u) = k => u = t
    BY <1>0, <1>2, <1>4, OnlyThread
  <2> QED
    BY <1>0, <1>2, <2>1 DEF Replacing, Key
<1>11. Value(k)' = Nothing
  BY <1>4, <1>6, <1>10, ValueFactsNext DEF DiskValue
<1>12. Value(k) = DiskValue(m, scan(k, m.ver))
  BY <1>0, <1>4, <1>10, ValueFacts
<1>13. /\ Database' = [Database EXCEPT ![k] = Nothing]
       /\ Database[k] = Value(k) /\ Database'[k] = Nothing
  BY <1>4, <1>9, <1>11, DatabaseAt
<1>14. Abstract!Becomes(k, Nothing)
  BY <1>0, <1>13 DEF Abstract!Becomes
<1>15. CASE Value(k) = Nothing
  <2>1. Database' = Database
    BY <1>4, <1>13, <1>15 DEF Database
  <2> QED
    BY <1>0, <2>1 DEF AbstractStep
<1>16. CASE Value(k) # Nothing /\ pc[t] = "expire"
  <2>1. m # NoMeta /\ Value(k) = [type |-> m.type, content |-> Content(m, scan(k, m.ver)), exp |-> m.exp]
    BY <1>12, <1>16 DEF DiskValue
  <2>2. Expired(m)
    BY <1>3, <1>4, <1>16, <2>1 DEF Knows
  <2>3. Value(k).exp = m.exp
    BY <2>1
  <2>4. Abstract!Reap(k)
    BY <1>13, <1>14, <1>16, <2>2, <2>3 DEF Abstract!Reap, Expired
  <2> QED
    BY <1>4, <2>4, KeyStep
<1>17. CASE Value(k) # Nothing /\ pc[t] = "delete" /\ cmd[t].op = "del"
  <2>1. Args["del"] # {}
    BY <1>3, <1>17 DEF ThreadsTypeOK, Ops
  <2>2. Abstract!Del(k)
    BY <1>13, <1>14, <1>17, <2>1 DEF Abstract!Del
  <2> QED
    BY <1>4, <2>2, KeyStep
<1>18. CASE Value(k) # Nothing /\ pc[t] = "delete" /\ cmd[t].op \in Removers
  <2>1. m # NoMeta
    BY <1>12, <1>18 DEF DiskValue
  <2>2. m.type = type_for(cmd[t].op)
    BY <1>0, <1>4, <1>18, <2>1 DEF Remembers
  <2>3. m.type \in Composite /\ m.type # "string"
    BY <2>2 DEF type_for, Composite
  <2>4. scan(k, m.ver) = {}
    BY <1>3, <1>4, <1>18, <2>1, <2>2, <2>3 DEF Knows, Counted
  <2> QED
    BY <1>12, <1>18, <2>3, <2>4 DEF DiskValue
<1> QED
  BY <1>0, <1>2, <1>15, <1>16, <1>17, <1>18

(* The value of k goes from content c to the content new, which is v.        *)
Rewrites(k, type, exp, c, new, v) ==
    /\ \/ Value(k) = Nothing /\ c = Abstract!EmptyContent(type) /\ exp = 0
       \/ Value(k) = [type |-> type, content |-> c, exp |-> exp]
    /\ v = IF new = Abstract!EmptyContent(type) THEN Nothing
           ELSE [type |-> type, content |-> new, exp |-> exp]
    /\ Database' = [Database EXCEPT ![k] = v]
    /\ UNCHANGED now

(* An update of the key map: the command applied to the content there is.    *)
LEMMA UpdateStep ==
    ASSUME NEW k \in Keys, NEW op \in Creators \cup Removers, NEW a \in Args[op],
           NEW exp, NEW c, NEW v, Rewrites(k, type_for(op), exp, c, Abstract!Apply(op, c, a), v)
    PROVE  AbstractStep
<1>0. PICK type, new : /\ type = type_for(op) /\ new = Abstract!Apply(op, c, a)
                       /\ Rewrites(k, type, exp, c, new, v)
  OBVIOUS
<1>1. op \in Abstract!Updates /\ Abstract!TypeOfOp(op) = type
  <2>1. op \in Abstract!Updates
    BY DEF Abstract!Updates, Creators, Removers
  <2>2. \/ op \in {"hset", "hdel"} \/ op \in {"sadd", "srem"} \/ op \in {"zadd", "zrem"}
        \/ op \in {"lpush", "rpush", "lpop", "rpop"}
    BY DEF Creators, Removers
  <2> QED
    BY <1>0, <2>1, <2>2 DEF Abstract!TypeOfOp, type_for
<1>2. Database[k] = Value(k)
  BY <1>0, DatabaseAt DEF Rewrites
<1>3. type # "none"
  BY <1>0 DEF type_for
<1>4. PICK old : old = IF Database[k] = Nothing
                       THEN [type |-> type, content |-> Abstract!EmptyContent(type), exp |-> 0]
                       ELSE Database[k]
  OBVIOUS
<1>5. old = [type |-> type, content |-> c, exp |-> exp]
  <2>1. [type |-> type, content |-> c, exp |-> exp] # Nothing
    BY <1>3 DEF Nothing
  <2> QED
    BY <1>0, <1>2, <1>4, <2>1 DEF Rewrites
<1>6. old.type = type /\ old.content = c /\ [old EXCEPT !.content = new] = [type |-> type, content |-> new, exp |-> exp]
  BY <1>5
<1>7. Abstract!Becomes(k, IF new = Abstract!EmptyContent(type) THEN Nothing
                          ELSE [old EXCEPT !.content = new])
  BY <1>0, <1>6 DEF Abstract!Becomes, Rewrites
<1>8. Abstract!Update(k, op)
  BY <1>0, <1>1, <1>4, <1>6, <1>7, Zenon DEF Abstract!Update
<1> QED
  BY <1>1, <1>8, KeyStep

(* A command on a composite key takes effect with its batch.                 *)
LEMMA CommitUpdates ==
    ASSUME EffectInv, ContentInv', NoRepeats, NEW t \in Threads, Commit(t)
    PROVE  AbstractStep
<1>0. /\ ContentInv /\ Remembers(t) /\ pc[t] \in {"commit", "empty"} /\ Running(t)
      /\ UNCHANGED now
  BY DEF EffectInv, Commit, Running
<1>1. Control(t)
  BY <1>0 DEF ContentInv, MapInv, GcInv, TypeInv, ControlOK
<1>2. cmd[t].op \in Creators \cup Removers /\ wb[t].mdel = {}
  BY <1>0, <1>1 DEF Control
<1>3. cmd[t].op \notin {"flush", "set"}
  BY <1>2 DEF Creators, Removers
<1>4. ThreadsTypeOK /\ DiskTypeOK /\ Key(t) \in Keys /\ Anchored(t) /\ Knows(t)
  BY <1>0, <1>3, AtContent
<1>5. PICK k, op, a, b, m : /\ k = Key(t) /\ op = cmd[t].op /\ a = cmd[t].args /\ b = wb[t]
                            /\ m = Origin(k, op, b.mput.ver)
  OBVIOUS
<1>6. k \in Keys /\ op \in Creators \cup Removers /\ a \in Args[op] /\ b.mdel = {} /\ write(k, b)
  BY <1>2, <1>4, <1>5 DEF ThreadsTypeOK, Ops, Commit
<1>7. m.type = type_for(op) /\ Plan(op, k, m, a) = [to |-> pc[t], batch |-> b]
  BY <1>0, <1>5 DEF Remembers
<1>8. /\ \A r \in b.puts \cup b.iputs \cup b.dels \cup b.idels : r.key = k
      /\ \A r \in b.puts \cup b.iputs : r.ver = b.mput.ver
      /\ pc[t] = "empty" => metas[k] # NoMeta /\ b.puts = {} /\ b.iputs = {} /\ b.mput = NoMeta
      /\ pc[t] = "commit" => b.mput \in Metas /\ Anchor(k, b.mput)
  BY <1>0, <1>1, <1>4, <1>5 DEF Knows, OwnBatch, Anchored, Control
<1>9. /\ m \in Metas
      /\ \/ metas[k] # NoMeta /\ m = metas[k]
         \/ metas[k] = NoMeta /\ m = Meta(type_for(op), m.ver, 0, NoVal) /\ NoRecords(k, m.ver)
      /\ pc[t] = "commit" => m.ver = b.mput.ver
  <2>1. CASE metas[k] # NoMeta
    BY <1>4, <1>5, <1>6, <1>8, <2>1 DEF Origin, Anchor, Holding, DiskTypeOK
  <2>2. CASE metas[k] = NoMeta
    <3>1. pc[t] = "commit" /\ b.mput \in Metas /\ NoRecords(k, b.mput.ver)
      BY <1>0, <1>8, <2>2 DEF Anchor, Holding
    <3>2. m = Meta(type_for(op), b.mput.ver, 0, NoVal)
      BY <1>5, <2>2 DEF Origin
    <3>3. m.ver = b.mput.ver /\ b.mput.ver \in Nat \ {0} /\ type_for(op) \in Composite
      BY <3>1, <3>2 DEF Meta, Metas, type_for, Composite
    <3>4. m \in Metas
      BY <3>2, <3>3 DEF Meta, Metas
    <3> QED
      BY <2>2, <3>1, <3>2, <3>3, <3>4
  <2> QED
    BY <2>1, <2>2
<1>10. ~(op \in Removers /\ pc[t] = "delete")
  BY <1>0
<1>11. PICK S, R, c, new :
          /\ S = scan(k, m.ver) /\ R = SubsAfter(S, b)
          /\ c = Content(m, S) /\ new = Abstract!Apply(op, c, a)
  OBVIOUS
<1>12. /\ Describes(k, m)
       /\ metas[k] = NoMeta => S = {} /\ Value(k) = Nothing
       /\ metas[k] # NoMeta => Value(k) = [type |-> m.type, content |-> c, exp |-> m.exp]
       /\ c = IF Value(k) = Nothing THEN Abstract!EmptyContent(m.type) ELSE Value(k).content
  BY <1>0, <1>5, <1>6, <1>7, <1>9, <1>10, <1>11, BodyContent
<1>13. /\ pc[t] = "commit" =>
             /\ Content(b.mput, R) = new /\ new # Abstract!EmptyContent(m.type) /\ R # {}
             /\ b.mput.type = m.type /\ b.mput.exp = m.exp
       /\ pc[t] = "empty" => new = Abstract!EmptyContent(m.type) /\ R = {}
  <2>1. PICK p : p = [to |-> pc[t], batch |-> b]
    OBVIOUS
  <2>2. p.to = pc[t] /\ p.batch = b /\ p = Plan(op, k, m, a)
    BY <1>7, <2>1
  <2> QED
    <3>1. k \in Keys /\ op \in Creators \cup Removers /\ a \in Args[op] /\ m.type = type_for(op)
          /\ Describes(k, m)
      BY <1>6, <1>7, <1>12
    <3>2. LET T == scan(k, m.ver)
              Q == SubsAfter(T, p.batch)
              n == Abstract!Apply(op, Content(m, T), a)
          IN  /\ p.to = "commit" =>
                    /\ Content(p.batch.mput, Q) = n /\ n # Abstract!EmptyContent(m.type) /\ Q # {}
                    /\ p.batch.mput.type = m.type /\ p.batch.mput.exp = m.exp
              /\ p.to = "empty" => n = Abstract!EmptyContent(m.type) /\ Q = {}
      BY <2>2, <3>1, PlanEffect
    <3> QED
      BY <1>11, <2>2, <3>2
<1>14. /\ (\A x \in Keys \ {k} : metas'[x] = metas[x])
       /\ pc[t] = "commit" => metas'[k] = b.mput
       /\ pc[t] = "empty" => metas'[k] = m
  BY <1>6, <1>8, <1>9, WriteMeta, NoMetaAssumption
<1>15. \A x, v : x # k => scan(x, v)' = scan(x, v)
  BY <1>6, <1>8, WriteScans
<1>16. scan(k, metas[k].ver)' = R
  <2>1. PICK v : v = m.ver
    OBVIOUS
  <2>2. metas'[k].ver = v
    BY <1>0, <1>9, <1>14, <2>1
  <2>3. \A r \in b.puts \cup b.iputs : r.key = k /\ r.ver = v
    BY <1>0, <1>8, <1>9, <2>1
  <2>4. scan(k, v)' = SubsAfter(scan(k, v), b)
    BY <1>6, <2>3, WriteOwn
  <2> QED
    BY <1>11, <2>1, <2>2, <2>4 DEF scan
<1>17. /\ \A u \in Threads \ {t} : pc'[u] = pc[u] /\ cmd'[u] = cmd[u]
       /\ (cmd'[t] = cmd[t] /\ pc'[t] = "delete") \/ cmd'[t] = NoCmd
  BY <1>0, <1>4 DEF Commit, Goto, Finish, ThreadsTypeOK
<1>18. Database' = [Database EXCEPT ![k] = Value(k)']
  <2>1. cmd'[t].key \in {k, NoKey}
    BY <1>5, <1>17 DEF NoCmd, Key
  <2> QED
    BY <1>0, <1>5, <1>6, <1>14, <1>15, <1>17, <2>1, OneValue
<1>19. Value(k)' = DiskValue(metas'[k], R)
  <2>1. \A u \in Threads : Key(u) = k => u = t
    BY <1>0, <1>3, <1>5, <1>6, OnlyThread
  <2>2. \A u \in Threads : ~Replacing(u, k)'
    BY <1>3, <1>17, <2>1 DEF Replacing, Key, NoCmd
  <2> QED
    BY <1>6, <1>16, <2>2, ValueFactsNext
<1>20. m.type # "string" /\ m # NoMeta
  BY <1>7, <1>9, NoMetaAssumption DEF type_for
<1>21. Value(k)' = IF new = Abstract!EmptyContent(m.type) THEN Nothing
                   ELSE [type |-> m.type, content |-> new, exp |-> m.exp]
  <2>1. CASE pc[t] = "commit"
    BY <1>8, <1>13, <1>14, <1>19, <2>1, NoMetaAssumption DEF DiskValue
  <2>2. CASE pc[t] = "empty"
    BY <1>13, <1>14, <1>19, <1>20, <2>2 DEF DiskValue
  <2> QED
    BY <1>0, <2>1, <2>2
<1>22. \/ Value(k) = Nothing /\ c = Abstract!EmptyContent(m.type) /\ m.exp = 0
       \/ Value(k) = [type |-> m.type, content |-> c, exp |-> m.exp]
  <2>1. CASE metas[k] = NoMeta
    BY <1>9, <1>12, <2>1 DEF Meta
  <2>2. CASE metas[k] # NoMeta
    BY <1>12, <2>2
  <2> QED
    BY <2>1, <2>2
<1>23. PICK v, type, exp : /\ type = m.type /\ exp = m.exp
                           /\ v = IF new = Abstract!EmptyContent(type) THEN Nothing
                                  ELSE [type |-> type, content |-> new, exp |-> exp]
  OBVIOUS
<1>24. Database' = [Database EXCEPT ![k] = v]
  BY <1>18, <1>21, <1>23
<1> QED
  <2>1. k \in Keys /\ op \in Creators \cup Removers /\ a \in Args[op]
    BY <1>6
  <2>2. type = type_for(op) /\ new = Abstract!Apply(op, c, a)
    BY <1>7, <1>11, <1>23
  <2>3. Rewrites(k, type, exp, c, new, v)
    BY <1>0, <1>22, <1>23, <1>24 DEF Rewrites
  <2>4. Rewrites(k, type_for(op), exp, c, Abstract!Apply(op, c, a), v)
    BY <2>2, <2>3
  <2> QED
    BY ONLY <2>1, <2>4, UpdateStep

(* FLUSH takes effect with its batch.                                        *)
LEMMA FlushWrites ==
    ASSUME EffectInv, ContentInv', NEW t \in Threads, FlushWrite(t)
    PROVE  AbstractStep
<1>0. /\ ContentInv /\ ThreadsTypeOK /\ ControlOK /\ Exclusive /\ Running(t) /\ Claim(t)
      /\ pc[t] = "flushWrite" /\ UNCHANGED <<now, cmd>> /\ write(NoKey, wb[t])
  BY DEF EffectInv, ContentInv, MapInv, GcInv, SerialInv, TypeInv, TypeOK, FlushWrite, Running
<1>1. cmd[t].op = "flush" /\ wb[t].mput = NoMeta
  BY <1>0 DEF ControlOK, Control, FlushPcs
<1>2. \A k \in Keys : metas'[k] = NoMeta
  BY <1>0, <1>1 DEF Claim, write
<1>3. \A u \in Threads : cmd'[u].op # "set"
  BY <1>0, <1>1 DEF Exclusive, ControlOK, Control, Running
<1>4. ASSUME NEW k \in Keys PROVE Value(k)' = Nothing
  <2>1. \A u \in Threads : ~Replacing(u, k)'
    BY <1>3 DEF Replacing
  <2> QED
    BY <1>2, <2>1, ValueFactsNext DEF DiskValue
<1>5. Database' = [k \in Keys |-> Nothing]
  BY <1>4 DEF Database
<1>6. Args["flush"] # {}
  BY <1>0, <1>1 DEF ThreadsTypeOK, Ops
<1>7. Abstract!FlushAll
  BY <1>0, <1>5, <1>6 DEF Abstract!FlushAll
<1> QED
  BY <1>7 DEF AbstractStep, Abstract!Next

(* Every step of the store is one of the key map, or changes nothing there.  *)
LEMMA NextSimulates ==
    Serialised /\ NoClockBack /\ CleanStops /\ NoRepeats /\ EffectInv /\ [Next]_vars
        => AbstractStep
<1> SUFFICES ASSUME Serialised, NoClockBack, CleanStops, NoRepeats, EffectInv, [Next]_vars
             PROVE  AbstractStep
  OBVIOUS
<1>0. ContentInv'
  BY NextContent DEF EffectInv
<1>1. ASSUME NEW t \in Threads, Start(t) PROVE AbstractStep
  BY <1>0, <1>1, StartUnseen
<1>2. ASSUME NEW t \in Threads, Step(t) PROVE AbstractStep
  BY <1>0, <1>2, ThreadUnseen, DeleteDrops, OverwriteSets, PutSets, CommitUpdates,
     FlushWrites DEF Step
<1>3. ASSUME NEW t \in Threads, WriteFails(t) PROVE AbstractStep
  BY <1>3 DEF WriteFails, Serialised
<1> QED
  BY <1>0, <1>1, <1>2, <1>3, CompactionUnseen, TimeStep DEF Next

LEMMA InitSimulates == Init => Abstract!Init
<1> SUFFICES ASSUME Init PROVE Abstract!Init
  OBVIOUS
<1>1. ContentInv
  BY InitContent
<1>2. (\A k \in Keys : metas[k] = NoMeta) /\ (\A t \in Threads : cmd[t].op = "none") /\ now = 1
  BY DEF Init, NoCmd
<1>3. ASSUME NEW k \in Keys PROVE Value(k) = Nothing
  <2>1. \A t \in Threads : ~Replacing(t, k)
    BY <1>2 DEF Replacing
  <2> QED
    BY <1>1, <1>2, <2>1, ValueFacts DEF DiskValue
<1>4. Database = [k \in Keys |-> Nothing]
  BY <1>3 DEF Database
<1> QED
  BY <1>2, <1>4 DEF Abstract!Init

(* ImplementsRedis for every set of keys, fields, values, arguments and      *)
(* threads: the store implements the atomic key map of Redis, with versions, *)
(* records, the version map, lazy expiry, garbage collection and restarts    *)
(* all invisible, when commands on one key do not overlap, a stop is clean   *)
(* and no hash command names a field twice.                                  *)
THEOREM StoreImplementsRedis ==
    Serialised /\ NoClockBack /\ CleanStops /\ NoRepeats => (Spec => ImplementsRedis)
<1> SUFFICES ASSUME Serialised, NoClockBack, CleanStops, NoRepeats PROVE Spec => ImplementsRedis
  OBVIOUS
<1>1. Init => Abstract!Init
  BY InitSimulates
<1>2. EffectInv /\ [Next]_vars => [Abstract!Next]_<<Database, now>>
  BY NextSimulates DEF AbstractStep
<1>3. Spec => []EffectInv
  BY EffectHolds
<1> QED
  BY <1>1, <1>2, <1>3, PTL DEF Spec, ImplementsRedis, Abstract!Spec
=============================================================================
