-------------------------- MODULE InductionProofs ---------------------------
(***************************************************************************)
(* Induction in first-order form, for sets of naturals, and the functions  *)
(* a recursive definition stands for: what the proofs about byte           *)
(* encodings, the request decoder and the startup share.                   *)
(***************************************************************************)
EXTENDS Integers, Sequences, SequencesExt, SequenceTheorems, WellFoundedInduction, TLAPS

\* A set of naturals that is not empty has a smallest member.
LEMMA Smallest ==
    ASSUME NEW T, T \subseteq Nat, T # {}
    PROVE  \E i \in T : \A j \in T : i <= j
<1>1. PICK x \in T : \A y \in T : <<y, x>> \notin OpToRel(<, Nat)
  BY NatLessThanWellFounded, WFMin
<1>2. \A y \in T : ~(y < x)
  BY <1>1 DEF OpToRel
<1> QED BY <1>2

\* A set that has 0, and n + 1 with every n, has every natural number.
LEMMA InductiveSet ==
    ASSUME NEW T, 0 \in T, \A n \in Nat : n \in T => n + 1 \in T
    PROVE  \A n \in Nat : n \in T
<1> DEFINE U == {n \in Nat : n \notin T}
<1> SUFFICES ASSUME U # {} PROVE FALSE
  OBVIOUS
<1>1. PICK x \in U : \A y \in U : x <= y
  BY Smallest
<1>2. x \in Nat /\ x \notin T /\ x # 0
  OBVIOUS
<1>3. x - 1 \in Nat /\ x - 1 \notin U
  BY <1>1, <1>2
<1>4. x - 1 \in T
  BY <1>3
<1> QED BY <1>2, <1>3, <1>4

\* f counts from a with the step function.
Iterates(f, S, a, step) ==
    f \in [Nat -> S] /\ f[0] = a /\ \A n \in Nat : f[n + 1] = step[n][f[n]]

\* Counting from any value with any step function defines a function.
LEMMA RecursiveFunction ==
    ASSUME NEW S, NEW a \in S, NEW step \in [Nat -> [S -> S]]
    PROVE  \E f : Iterates(f, S, a, step)
<1> DEFINE Good(f, n) == /\ f \in [0..n -> S] /\ f[0] = a
                         /\ \A i \in 0..n - 1 : f[i + 1] = step[i][f[i]]
           T == {n \in Nat : \E f \in [0..n -> S] : Good(f, n)}
<1>1. 0 \in T
  <2>1. Good([i \in 0..0 |-> a], 0)
    OBVIOUS
  <2> QED BY <2>1
<1>2. ASSUME NEW n \in Nat, n \in T PROVE n + 1 \in T
  <2>1. PICK f \in [0..n -> S] : Good(f, n)
    BY <1>2
  <2> DEFINE g == [i \in 0..n + 1 |-> IF i <= n THEN f[i] ELSE step[n][f[n]]]
  <2>2. f[n] \in S /\ step[n][f[n]] \in S
    BY <2>1
  <2>3. g \in [0..n + 1 -> S]
    BY <2>1, <2>2
  <2>4. g[0] = a
    BY <2>1
  <2>5. ASSUME NEW i \in 0..n + 1 - 1 PROVE g[i + 1] = step[i][g[i]]
    <3>1. CASE i = n
      BY <3>1
    <3>2. CASE i # n
      <4>1. i \in 0..n - 1 /\ i + 1 <= n /\ i <= n
        BY <3>2
      <4>2. g[i + 1] = f[i + 1] /\ g[i] = f[i]
        BY <4>1
      <4> QED BY <4>1, <4>2, <2>1
    <3> QED BY <3>1, <3>2
  <2> HIDE DEF g
  <2>6. Good(g, n + 1)
    BY <2>3, <2>4, <2>5
  <2>7. n + 1 \in Nat
    OBVIOUS
  <2> HIDE DEF Good
  <2> QED BY <2>3, <2>6, <2>7
<1>3. \A n \in Nat : \E f \in [0..n -> S] : Good(f, n)
  <2> HIDE DEF T
  <2>1. \A n \in Nat : n \in T
    BY <1>1, <1>2, InductiveSet
  <2> QED BY <2>1 DEF T
<1> DEFINE at(n) == CHOOSE f \in [0..n -> S] : Good(f, n)
<1>4. \A n \in Nat : Good(at(n), n)
  BY <1>3
<1>5. ASSUME NEW n \in Nat, NEW f, NEW g, NEW k \in Nat, k <= n, Good(f, n), Good(g, k)
      PROVE  \A i \in Nat : i <= k => f[i] = g[i]
  <2> DEFINE V == {i \in Nat : i <= k => f[i] = g[i]}
  <2>1. 0 \in V
    BY <1>5
  <2>2. ASSUME NEW i \in Nat, i \in V PROVE i + 1 \in V
    <3>1. CASE i + 1 <= k
      <4>1. i \in 0..k - 1 /\ i \in 0..n - 1 /\ f[i] = g[i]
        BY <3>1, <2>2, <1>5
      <4>2. f[i + 1] = g[i + 1]
        BY <4>1, <1>5
      <4> QED BY <4>2
    <3>2. CASE ~(i + 1 <= k)
      BY <3>2
    <3> QED BY <3>1, <3>2
  <2> HIDE DEF V
  <2>3. \A i \in Nat : i \in V
    BY <2>1, <2>2, InductiveSet
  <2> QED BY <2>3 DEF V
<1> DEFINE h == [n \in Nat |-> at(n)[n]]
<1> HIDE DEF at
<1>6. h \in [Nat -> S]
  BY <1>4
<1>7. h[0] = a
  BY <1>4
<1>8. ASSUME NEW n \in Nat PROVE h[n + 1] = step[n][h[n]]
  <2>1. Good(at(n + 1), n + 1) /\ Good(at(n), n)
    BY <1>4
  <2>2. at(n + 1)[n] = at(n)[n]
    <3> HIDE DEF Good
    <3> QED BY <2>1, <1>5
  <2>3. n \in 0..(n + 1) - 1
    OBVIOUS
  <2>4. at(n + 1)[n + 1] = step[n][at(n + 1)[n]]
    BY <2>1, <2>3
  <2> QED BY <2>2, <2>4
<1> QED BY <1>6, <1>7, <1>8 DEF Iterates

\* Induction up to a bound.
LEMMA UpTo ==
    ASSUME NEW n \in Nat, NEW T, 0 \in T, \A i \in 1..n : i - 1 \in T => i \in T
    PROVE  \A i \in 0..n : i \in T
<1> DEFINE U == {i \in Nat : i <= n => i \in T}
<1>1. 0 \in U
  OBVIOUS
<1>2. ASSUME NEW i \in Nat, i \in U PROVE i + 1 \in U
  <2> SUFFICES ASSUME i + 1 <= n PROVE i + 1 \in T
    OBVIOUS
  <2>1. i \in T
    BY <1>2
  <2>2. i + 1 \in 1..n /\ (i + 1) - 1 = i
    OBVIOUS
  <2> QED BY <2>1, <2>2
<1> HIDE DEF U
<1>3. \A i \in Nat : i \in U
  BY <1>1, <1>2, InductiveSet
<1> QED BY <1>3 DEF U

\* f counts from a to n with the step function.
Runs(f, S, a, n, step) ==
    f \in [0..n -> S] /\ f[0] = a /\ \A i \in 1..n : f[i] = step[i][f[i - 1]]

\* A recursive definition up to a bound defines a function.
LEMMA BoundedRecursion ==
    ASSUME NEW S, NEW a \in S, NEW n \in Nat, NEW step \in [1..n -> [S -> S]]
    PROVE  \E f : Runs(f, S, a, n, step)
<1> DEFINE next == [m \in Nat |-> [p \in S |-> IF m + 1 \in 1..n THEN step[m + 1][p] ELSE p]]
<1>1. next \in [Nat -> [S -> S]]
  OBVIOUS
<1>2. PICK f : f \in [Nat -> S] /\ f[0] = a /\ \A m \in Nat : f[m + 1] = next[m][f[m]]
  <2> HIDE DEF next
  <2>1. \E f : Iterates(f, S, a, next)
    BY <1>1, RecursiveFunction
  <2> QED BY <2>1 DEF Iterates
<1>3. ASSUME NEW i \in 1..n PROVE f[i] = step[i][f[i - 1]]
  <2>1. i - 1 \in Nat /\ (i - 1) + 1 = i
    OBVIOUS
  <2>2. PICK m : m = i - 1
    OBVIOUS
  <2>3. m \in Nat /\ m + 1 = i /\ f[m] \in S
    BY <1>2, <2>1, <2>2
  <2>4. f[m + 1] = next[m][f[m]]
    BY <1>2, <2>3
  <2>5. next[m][f[m]] = step[m + 1][f[m]]
    BY <2>3
  <2> QED BY <2>2, <2>3, <2>4, <2>5
<1>4. PICK g : g = [i \in 0..n |-> f[i]]
  OBVIOUS
<1>5. g \in [0..n -> S] /\ g[0] = a
  BY <1>2, <1>4
<1>6. ASSUME NEW i \in 1..n PROVE g[i] = step[i][g[i - 1]]
  <2>1. i \in 0..n /\ i - 1 \in 0..n
    OBVIOUS
  <2>2. g[i] = f[i] /\ g[i - 1] = f[i - 1]
    BY <1>4, <2>1
  <2> QED BY <1>3, <2>2
<1> QED BY <1>5, <1>6 DEF Runs

-----------------------------------------------------------------------------
(* Short pieces of sequences. *)

LEMMA OneByte ==
    ASSUME NEW S, NEW s \in Seq(S), NEW a \in 1..Len(s), NEW b \in a + 1..Len(s) + 1, NEW x \in S
    PROVE  SubSeq(s, a, b - 1) = <<x>> <=> b = a + 1 /\ s[a] = x
<1>1. Len(s) \in Nat /\ a \in Int /\ b - 1 \in Int /\ \A i \in a..b - 1 : s[i] \in S
  OBVIOUS
<1> DEFINE u == SubSeq(s, a, b - 1)
           v == <<x>>
<1>2. /\ u \in Seq(S) /\ Len(u) = b - a
      /\ \A i \in 1..b - 1 - a + 1 : u[i] = s[a + i - 1]
  BY <1>1, SubSeqProperties
<1>3. v \in Seq(S) /\ Len(v) = 1 /\ v[1] = x
  OBVIOUS
<1> HIDE DEF u, v
<1>4. u[1] = s[a]
  <2>1. 1 \in 1..b - 1 - a + 1 /\ a + 1 - 1 = a
    OBVIOUS
  <2>2. u[1] = s[a + 1 - 1]
    BY <1>2, <2>1
  <2> QED BY <2>1, <2>2
<1>5. ASSUME b = a + 1, s[a] = x PROVE u = v
  <2>1. Len(u) = Len(v)
    BY <1>1, <1>2, <1>3, <1>5
  <2>2. \A i \in 1..Len(u) : u[i] = v[i]
    BY <1>2, <1>3, <1>4, <1>5, <2>1
  <2> QED BY <1>2, <1>3, <2>1, <2>2, SeqEqual
<1>6. ASSUME u = v PROVE b = a + 1 /\ s[a] = x
  <2>1. b - a = 1
    BY <1>2, <1>3, <1>6
  <2>2. b = a + 1
    BY <2>1
  <2> QED BY <2>2, <1>3, <1>4, <1>6
<1> QED BY <1>5, <1>6 DEF u, v

LEMMA TwoBytes ==
    ASSUME NEW S, NEW s \in Seq(S), NEW x \in S, NEW y \in S, Len(s) > 1
    PROVE  SubSeq(s, 1, 2) = <<x, y>> <=> s[1] = x /\ s[2] = y
<1> DEFINE u == SubSeq(s, 1, 2)
           v == <<x, y>>
<1>1. Len(s) \in Nat /\ \A i \in 1..2 : s[i] \in S
  OBVIOUS
<1>2. /\ u \in Seq(S) /\ Len(u) = 2
      /\ \A i \in 1..2 - 1 + 1 : u[i] = s[1 + i - 1]
  BY <1>1, SubSeqProperties
<1>3. v \in Seq(S) /\ Len(v) = 2 /\ v[1] = x /\ v[2] = y
  OBVIOUS
<1> HIDE DEF u, v
<1>4. u[1] = s[1] /\ u[2] = s[2]
  BY <1>2
<1>5. ASSUME s[1] = x, s[2] = y PROVE u = v
  <2>2. \A i \in 1..Len(u) : u[i] = v[i]
    BY <1>2, <1>3, <1>4, <1>5
  <2> QED BY <1>2, <1>3, <2>2, SeqEqual
<1> QED BY <1>3, <1>4, <1>5 DEF u, v

\* A prefix agrees at every position it has.
LEMMA PrefixIff ==
    ASSUME NEW S, NEW s \in Seq(S), NEW t \in Seq(S)
    PROVE  IsPrefix(s, t) <=> Len(s) <= Len(t) /\ \A i \in 1..Len(s) : s[i] = t[i]
<1>1. SubSeq(s, 1, Len(s)) = s /\ Len(s) \in Nat /\ Len(t) \in Nat
  BY SubSeqFull
<1> SUFFICES ASSUME Len(s) <= Len(t)
             PROVE  s = SubSeq(t, 1, Len(s)) <=> \A i \in 1..Len(s) : s[i] = t[i]
  BY <1>1 DEF IsPrefix
<1>2. \A i \in 1..Len(s) : t[i] \in S
  BY <1>1
<1> DEFINE u == SubSeq(t, 1, Len(s))
<1>3. /\ u \in Seq(S) /\ Len(u) = Len(s)
      /\ \A i \in 1..Len(s) - 1 + 1 : u[i] = t[1 + i - 1]
  BY <1>1, <1>2, SubSeqProperties
<1>4. \A i \in 1..Len(s) : u[i] = t[i]
  <2> SUFFICES ASSUME NEW i \in 1..Len(s) PROVE u[i] = t[i]
    OBVIOUS
  <2>1. i \in 1..Len(s) - 1 + 1 /\ 1 + i - 1 = i
    BY <1>1
  <2>2. u[i] = t[1 + i - 1]
    BY <1>3, <2>1
  <2> QED BY <2>1, <2>2
<1> HIDE DEF u
<1>5. s = u <=> \A i \in 1..Len(s) : s[i] = t[i]
  <2>1. ASSUME \A i \in 1..Len(s) : s[i] = t[i] PROVE s = u
    BY <1>3, <1>4, <2>1, SeqEqual
  <2> QED BY <1>4, <2>1
<1> QED BY <1>5 DEF u

\* What a concatenation has at each position.
LEMMA ConcatHas ==
    ASSUME NEW S, NEW a \in Seq(S), NEW x \in Seq(S)
    PROVE  /\ a \o x \in Seq(S) /\ Len(a \o x) = Len(a) + Len(x)
           /\ Len(a) \in Nat /\ Len(x) \in Nat
           /\ \A i \in 1..Len(a) : (a \o x)[i] = a[i]
           /\ \A i \in 1..Len(x) : (a \o x)[Len(a) + i] = x[i]
<1>1. /\ a \o x \in Seq(S) /\ Len(a \o x) = Len(a) + Len(x)
      /\ \A i \in 1 .. Len(a) + Len(x) :
            (a \o x)[i] = IF i <= Len(a) THEN a[i] ELSE x[i - Len(a)]
  BY ConcatProperties
<1>2. Len(a) \in Nat /\ Len(x) \in Nat
  OBVIOUS
<1>3. PICK s, n, m : s = a \o x /\ n = Len(a) /\ m = Len(x)
  OBVIOUS
<1>4. \A i \in 1 .. n + m : s[i] = IF i <= n THEN a[i] ELSE x[i - n]
  BY <1>1, <1>3
<1>5. ASSUME NEW i \in 1..n PROVE s[i] = a[i]
  BY <1>2, <1>3, <1>4
<1>6. ASSUME NEW i \in 1..m PROVE s[n + i] = x[i]
  <2>1. n + i \in 1 .. n + m /\ ~(n + i <= n) /\ (n + i) - n = i
    BY <1>2, <1>3
  <2> QED BY <1>4, <2>1
<1> QED BY <1>1, <1>2, <1>3, <1>5, <1>6

\* A piece is what the sequence has at its positions.
LEMMA PieceIs ==
    ASSUME NEW S, NEW s \in Seq(S), NEW b \in Seq(S), NEW n \in Nat, n + Len(b) <= Len(s),
           \A i \in 1..Len(b) : s[n + i] = b[i]
    PROVE  SubSeq(s, n + 1, n + Len(b)) = b
<1>0. PICK l, e, f : l = Len(b) /\ e = n + 1 /\ f = n + l
  OBVIOUS
<1>1. l \in Nat /\ e \in Int /\ f \in Int /\ Len(s) \in Nat
  BY <1>0
<1>2. \A i \in e..f : s[i] \in S
  BY <1>0, <1>1
<1>3. PICK u : u = SubSeq(s, e, f)
  OBVIOUS
<1>4. /\ u \in Seq(S) /\ Len(u) = IF e <= f THEN f - e + 1 ELSE 0
      /\ \A i \in 1 .. f - e + 1 : u[i] = s[e + i - 1]
  BY <1>1, <1>2, <1>3, SubSeqProperties
<1>5. Len(u) = l
  BY <1>0, <1>1, <1>4
<1>6. ASSUME NEW i \in 1..l PROVE u[i] = b[i]
  <2>1. i \in 1 .. f - e + 1 /\ e + i - 1 = n + i
    BY <1>0, <1>1
  <2>2. u[i] = s[e + i - 1]
    BY <1>4, <2>1
  <2>3. s[n + i] = b[i]
    BY <1>0
  <2> QED BY <2>1, <2>2, <2>3
<1>7. u = b
  <2>1. Len(u) = Len(b) /\ \A i \in 1..Len(u) : u[i] = b[i]
    BY <1>0, <1>5, <1>6
  <2> QED BY <1>4, <2>1, SeqEqual
<1> QED BY <1>0, <1>3, <1>7

LEMMA TailOf ==
    ASSUME NEW S, NEW a \in Seq(S), NEW c \in Seq(S)
    PROVE  SubSeq(a \o c, Len(a) + 1, Len(a \o c)) = c
<1>1. PICK s : s = a \o c
  OBVIOUS
<1>2. /\ s \in Seq(S) /\ Len(s) = Len(a) + Len(c) /\ Len(a) \in Nat /\ Len(c) \in Nat
      /\ \A i \in 1..Len(c) : s[Len(a) + i] = c[i]
  BY <1>1, ConcatHas
<1>3. Len(a) + Len(c) <= Len(s)
  BY <1>2
<1>4. SubSeq(s, Len(a) + 1, Len(a) + Len(c)) = c
  BY <1>2, <1>3, PieceIs
<1> QED BY <1>1, <1>2, <1>4

LEMMA Assoc ==
    ASSUME NEW S, NEW a \in Seq(S), NEW b \in Seq(S), NEW c \in Seq(S)
    PROVE  (a \o b) \o c = a \o (b \o c)
  BY ConcatAssociative

LEMMA PrefixSplit ==
    ASSUME NEW S, NEW a \in Seq(S), NEW b \in Seq(S), IsPrefix(a, b)
    PROVE  \E y \in Seq(S) : b = a \o y
<1>1. Len(a) <= Len(b) /\ \A j \in 1..Len(a) : a[j] = b[j]
  BY PrefixIff
<1>2. PICK n, m, y : n = Len(a) /\ m = Len(b) /\ y = SubSeq(b, n + 1, m)
  OBVIOUS
<1>3. n \in Nat /\ m \in Nat /\ n <= m
  BY <1>1, <1>2
<1>4. \A i \in n + 1 .. m : b[i] \in S
  BY <1>2, <1>3
<1>5. PICK e : e = n + 1
  OBVIOUS
<1>6. /\ y \in Seq(S) /\ Len(y) = IF e <= m THEN m - e + 1 ELSE 0
      /\ \A i \in 1 .. m - e + 1 : y[i] = b[e + i - 1]
  <2>1. e \in Int /\ m \in Int /\ \A i \in e..m : b[i] \in S
    BY <1>3, <1>4, <1>5
  <2>2. y = SubSeq(b, e, m)
    BY <1>2, <1>5
  <2> QED BY <2>1, <2>2, SubSeqProperties
<1>7. Len(y) = m - n
  BY <1>3, <1>5, <1>6
<1>8. /\ a \o y \in Seq(S) /\ Len(a \o y) = Len(a) + Len(y)
      /\ \A i \in 1..Len(a) : (a \o y)[i] = a[i]
      /\ \A i \in 1..Len(y) : (a \o y)[Len(a) + i] = y[i]
  BY <1>6, ConcatHas
<1>9. PICK c : c = a \o y
  OBVIOUS
<1>10. Len(c) = m
  BY <1>2, <1>3, <1>7, <1>8, <1>9
<1>11. ASSUME NEW i \in 1..m PROVE b[i] = c[i]
  <2>1. CASE i <= n
    BY <2>1, <1>1, <1>2, <1>3, <1>8, <1>9
  <2>2. CASE i > n
    <3>1. PICK j : j = i - n
      OBVIOUS
    <3>2. j \in 1 .. m - n /\ n + j = i /\ j \in 1 .. m - e + 1 /\ e + j - 1 = i
      BY <2>2, <3>1, <1>3, <1>5
    <3>3. y[j] = b[i]
      BY <3>2, <1>6
    <3>4. c[n + j] = y[j]
      BY <3>2, <1>2, <1>7, <1>8, <1>9
    <3> QED BY <3>2, <3>3, <3>4
  <2> QED BY <2>1, <2>2, <1>3
<1>12. b = c
  <2>1. Len(b) = Len(c) /\ c \in Seq(S) /\ \A i \in 1..Len(b) : b[i] = c[i]
    BY <1>2, <1>8, <1>9, <1>10, <1>11
  <2> QED BY <2>1, SeqEqual
<1> QED BY <1>6, <1>9, <1>12

LEMMA PrefixItself ==
    ASSUME NEW S, NEW a \in Seq(S), NEW x \in Seq(S)
    PROVE  IsPrefix(a, a \o x)
<1>1. PICK c : c = a \o x
  OBVIOUS
<1>2. /\ c \in Seq(S) /\ Len(c) = Len(a) + Len(x) /\ Len(a) \in Nat /\ Len(x) \in Nat
      /\ \A i \in 1..Len(a) : c[i] = a[i]
  BY <1>1, ConcatHas
<1>3. Len(a) <= Len(c) /\ \A i \in 1..Len(a) : a[i] = c[i]
  BY <1>2
<1>4. IsPrefix(a, c)
  BY <1>2, <1>3, PrefixIff
<1> QED BY <1>1, <1>4
=============================================================================
