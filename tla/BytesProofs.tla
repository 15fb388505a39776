---------------------------- MODULE BytesProofs ----------------------------
(***************************************************************************)
(* Proofs about the byte layout of the engine's records.                   *)
(***************************************************************************)
EXTENDS StoreBytes, StoreProofs, InductionProofs

Byte == 0 .. Base - 1

-----------------------------------------------------------------------------
(* Powers of the base. *)

LEMMA PowerStep ==
    /\ Power[0] = 1
    /\ \A n \in Nat : Power[n + 1] = Base * Power[n]
<1> DEFINE step == [n \in Nat |-> [p \in Nat |-> Base * p]]
<1>1. step \in [Nat -> [Nat -> Nat]]
  BY WidthsAssumption
<1>2. PICK f : f \in [Nat -> Nat] /\ f[0] = 1 /\ \A n \in Nat : f[n + 1] = step[n][f[n]]
  <2> HIDE DEF step
  <2>1. PICK S, a : S = Nat /\ a = 1
    OBVIOUS
  <2>2. a \in S /\ step \in [Nat -> [S -> S]]
    BY <1>1, <2>1
  <2>3. \E f : Iterates(f, S, a, step)
    BY <2>2, RecursiveFunction
  <2> QED BY <2>1, <2>3 DEF Iterates
<1>3. ASSUME NEW n \in Nat PROVE f[n] = IF n = 0 THEN 1 ELSE Base * f[n - 1]
  <2>1. CASE n = 0
    BY <2>1, <1>2
  <2>2. CASE n # 0
    <3>1. n - 1 \in Nat /\ (n - 1) + 1 = n
      BY <2>2
    <3>2. f[(n - 1) + 1] = step[n - 1][f[n - 1]]
      BY <3>1, <1>2
    <3>3. f[n - 1] \in Nat
      BY <3>1, <1>2
    <3> QED BY <2>2, <3>1, <3>2, <3>3
  <2> QED BY <2>1, <2>2
<1>4. f = [n \in Nat |-> IF n = 0 THEN 1 ELSE Base * f[n - 1]]
  BY <1>2, <1>3
<1>5. Power = [n \in Nat |-> IF n = 0 THEN 1 ELSE Base * Power[n - 1]]
  BY <1>4 DEF Power
<1> HIDE DEF step
<1>6. ASSUME NEW n \in Nat PROVE Power[n + 1] = Base * Power[n]
  <2>1. n + 1 \in Nat /\ n + 1 # 0 /\ (n + 1) - 1 = n
    OBVIOUS
  <2> QED BY <1>5, <2>1
<1> QED BY <1>5, <1>6

LEMMA PowerType == \A n \in Nat : Power[n] \in Nat \ {0}
<1> DEFINE T == {n \in Nat : Power[n] \in Nat \ {0}}
<1>1. 0 \in T
  BY PowerStep
<1>2. ASSUME NEW n \in Nat, n \in T PROVE n + 1 \in T
  <2>1. PICK p : p = Power[n]
    OBVIOUS
  <2>2. p \in Nat /\ p # 0 /\ Power[n + 1] = Base * p
    BY <1>2, <2>1, PowerStep
  <2>3. Base * p \in Nat /\ Base * p # 0
    BY <2>2, WidthsAssumption
  <2> QED BY <2>2, <2>3
<1> HIDE DEF T
<1>3. \A n \in Nat : n \in T
  BY <1>1, <1>2, InductiveSet
<1> QED BY <1>3 DEF T

LEMMA PowerDown == \A n \in Nat \ {0} : Power[n] = Base * Power[n - 1]
<1> SUFFICES ASSUME NEW n \in Nat, n # 0 PROVE Power[n] = Base * Power[n - 1]
  OBVIOUS
<1>1. n - 1 \in Nat /\ (n - 1) + 1 = n
  OBVIOUS
<1> QED BY <1>1, PowerStep

-----------------------------------------------------------------------------
(* Division with remainder. *)

LEMMA Division ==
    ASSUME NEW n \in Nat, NEW b \in Nat \ {0}
    PROVE  /\ n \div b \in Nat /\ n % b \in 0 .. b - 1
           /\ n = b * (n \div b) + (n % b)
  OBVIOUS

LEMMA DivisionUnique ==
    ASSUME NEW n \in Nat, NEW b \in Nat \ {0}, NEW q \in Nat, NEW r \in 0 .. b - 1,
           n = b * q + r
    PROVE  n \div b = q /\ n % b = r
<1>1. PICK p, s : p = n \div b /\ s = n % b
  OBVIOUS
<1>2. p \in Nat /\ s \in 0 .. b - 1 /\ n = b * p + s
  BY <1>1, Division
<1>3. b * (p - q) = r - s
  BY <1>2
<1>4. p - q = 0
  <2>1. CASE p - q >= 1
    <3>1. b * (p - q) >= b
      BY <2>1, <1>2
    <3> QED BY <3>1, <1>3, <1>2
  <2>2. CASE p - q <= -1
    <3>1. b * (p - q) <= -b
      BY <2>2, <1>2
    <3> QED BY <3>1, <1>3, <1>2
  <2> QED BY <2>1, <2>2, <1>2
<1>5. p = q /\ r = s
  BY <1>2, <1>3, <1>4
<1> QED BY <1>1, <1>5

LEMMA DivisionTwice ==
    ASSUME NEW n \in Nat, NEW b \in Nat \ {0}, NEW c \in Nat \ {0}
    PROVE  (n \div b) \div c = n \div (c * b)
<1>1. PICK q, r : q = n \div b /\ r = n % b
  OBVIOUS
<1>2. PICK p, s : p = q \div c /\ s = q % c
  OBVIOUS
<1>3. q \in Nat /\ r \in 0 .. b - 1 /\ n = b * q + r
  BY <1>1, Division
<1>4. p \in Nat /\ s \in 0 .. c - 1 /\ q = c * p + s
  BY <1>2, <1>3, Division
<1>5. n = (c * b) * p + (b * s + r)
  BY <1>3, <1>4
<1>6. b * s + r \in 0 .. (c * b) - 1
  <2>1. b * s >= 0
    BY <1>4
  <2>2. s <= c - 1
    BY <1>4
  <2>3. b * s <= b * (c - 1)
    BY <2>2, <1>4
  <2>4. b * (c - 1) = c * b - b
    OBVIOUS
  <2> QED BY <2>1, <2>3, <2>4, <1>3, <1>4
<1>7. c * b \in Nat \ {0}
  OBVIOUS
<1>8. n \div (c * b) = p
  <2>1. PICK d, u : d = c * b /\ u = b * s + r
    OBVIOUS
  <2>2. d \in Nat \ {0} /\ u \in 0 .. d - 1 /\ n = d * p + u
    BY <2>1, <1>5, <1>6, <1>7
  <2>3. n \div d = p
    BY <2>2, <1>4, DivisionUnique
  <2> QED BY <2>1, <2>3
<1> QED BY <1>8, <1>1, <1>2

-----------------------------------------------------------------------------
(* Big-endian numbers. *)

Word(width) == 0 .. Power[width] - 1

LEMMA BytesType ==
    ASSUME NEW n \in Nat, NEW w \in Nat
    PROVE  /\ to_be_bytes(n, w) \in Seq(Byte) /\ Len(to_be_bytes(n, w)) = w
           /\ \A i \in 1..w : to_be_bytes(n, w)[i] = (n \div Power[w - i]) % Base
<1>1. ASSUME NEW i \in 1..w PROVE (n \div Power[w - i]) % Base \in Byte
  <2>1. PICK p : p = Power[w - i]
    OBVIOUS
  <2>2. w - i \in Nat
    OBVIOUS
  <2>3. p \in Nat \ {0}
    BY <2>1, <2>2, PowerType
  <2>4. PICK q : q = n \div p
    OBVIOUS
  <2>5. q \in Nat
    BY <2>3, <2>4, Division
  <2>6. q % Base \in 0 .. Base - 1
    BY <2>5, WidthsAssumption, Division
  <2> QED BY <2>1, <2>4, <2>6 DEF Byte
<1>2. to_be_bytes(n, w) \in [1..w -> Byte]
  BY <1>1 DEF to_be_bytes
<1>3. to_be_bytes(n, w) \in Seq(Byte)
  BY <1>2
<1>4. Len(to_be_bytes(n, w)) = w
  BY <1>2, <1>3
<1> QED BY <1>3, <1>4 DEF to_be_bytes

\* The value of the first i bytes.
PartialValues(bytes, v) ==
    /\ v \in [0 .. Len(bytes) -> Nat] /\ v[0] = 0
    /\ \A i \in 0 .. Len(bytes) - 1 : v[i + 1] = v[i] * Base + bytes[i + 1]

LEMMA OneMoreByte ==
    ASSUME NEW x \in Nat, NEW y \in Nat
    PROVE  x * Base + y \in Nat
<1>1. x * Base \in Nat
  BY WidthsAssumption
<1> QED BY <1>1

LEMMA ReadValue ==
    ASSUME NEW bytes \in Seq(Byte)
    PROVE  \E v : PartialValues(bytes, v) /\ from_be_bytes(bytes) = v[Len(bytes)]
<1> DEFINE len == Len(bytes)
<1>b. PICK byte : byte = [n \in Nat |-> IF n + 1 \in 1..len THEN bytes[n + 1] ELSE 0]
  OBVIOUS
<1> DEFINE step == [n \in Nat |-> [p \in Nat |-> p * Base + byte[n]]]
<1>0. len \in Nat /\ Base \in Nat /\ \A i \in 1..len : bytes[i] \in Nat
  BY WidthsAssumption DEF Byte
<1>1. step \in [Nat -> [Nat -> Nat]]
  <2>1. \A n \in Nat : byte[n] \in Nat
    BY <1>0, <1>b
  <2>2. \A n \in Nat : \A p \in Nat : p * Base + byte[n] \in Nat
    BY <2>1, OneMoreByte
  <2> QED BY <2>2
<1>2. PICK f : f \in [Nat -> Nat] /\ f[0] = 0 /\ \A n \in Nat : f[n + 1] = step[n][f[n]]
  <2> HIDE DEF step
  <2>1. PICK S, a : S = Nat /\ a = 0
    OBVIOUS
  <2>2. a \in S /\ step \in [Nat -> [S -> S]]
    BY <1>1, <2>1
  <2>3. \E f : Iterates(f, S, a, step)
    BY <2>2, RecursiveFunction
  <2> QED BY <2>1, <2>3 DEF Iterates
<1> DEFINE g == [i \in 0..len |-> f[i]]
<1>3. ASSUME NEW i \in 0..len PROVE g[i] = IF i = 0 THEN 0 ELSE g[i - 1] * Base + bytes[i]
  <2>1. CASE i = 0
    BY <2>1, <1>2, <1>0
  <2>2. CASE i # 0
    <3>1. i - 1 \in Nat /\ (i - 1) + 1 = i /\ i - 1 \in 0..len /\ i \in 1..len /\ i \in Nat
      BY <2>2, <1>0
    <3>2. f[(i - 1) + 1] = step[i - 1][f[i - 1]]
      BY <3>1, <1>2
    <3>3. f[i - 1] \in Nat
      BY <3>1, <1>2
    <3>4. step[i - 1][f[i - 1]] = f[i - 1] * Base + byte[i - 1]
      BY <3>1, <3>3
    <3>5. byte[i - 1] = bytes[i]
      BY <3>1, <1>b
    <3> HIDE DEF step
    <3>6. g[i] = f[i] /\ g[i - 1] = f[i - 1]
      BY <3>1
    <3> QED BY <2>2, <3>1, <3>2, <3>4, <3>5, <3>6
  <2> QED BY <2>1, <2>2
<1> HIDE DEF step
<1>4. g = [i \in 0 .. Len(bytes) |-> IF i = 0 THEN 0 ELSE g[i - 1] * Base + bytes[i]]
  <2>1. \A i \in 0 .. len : g[i] = IF i = 0 THEN 0 ELSE g[i - 1] * Base + bytes[i]
    BY <1>3
  <2>2. g = [i \in 0 .. len |-> g[i]]
    OBVIOUS
  <2> HIDE DEF g
  <2> QED BY <2>1, <2>2
<1> HIDE DEF g
<1> DEFINE value[i \in 0 .. Len(bytes)] == IF i = 0 THEN 0 ELSE value[i - 1] * Base + bytes[i]
<1>5. value = [i \in 0 .. Len(bytes) |-> IF i = 0 THEN 0 ELSE value[i - 1] * Base + bytes[i]]
  BY <1>4
<1>6. from_be_bytes(bytes) = value[Len(bytes)]
  BY DEF from_be_bytes
<1> HIDE DEF value
<1>7. value[0] = 0 /\ \A i \in 0 .. len - 1 : value[i + 1] = value[i] * Base + bytes[i + 1]
  <2>1. value[0] = 0
    BY <1>5, <1>0
  <2>2. ASSUME NEW i \in 0 .. len - 1 PROVE value[i + 1] = value[i] * Base + bytes[i + 1]
    <3>1. i + 1 \in 0 .. len /\ i + 1 # 0 /\ (i + 1) - 1 = i
      BY <1>0
    <3> QED BY <1>5, <3>1
  <2> QED BY <2>1, <2>2
<1>8. \A i \in 0..len : value[i] \in Nat
  <2> DEFINE T == {i \in Nat : i <= len => value[i] \in Nat}
  <2>1. 0 \in T
    BY <1>7
  <2>2. ASSUME NEW i \in Nat, i \in T PROVE i + 1 \in T
    <3> SUFFICES ASSUME i + 1 <= len PROVE value[i + 1] \in Nat
      OBVIOUS
    <3>1. i \in 0 .. len - 1 /\ i + 1 \in 1..len
      BY <1>0
    <3>2. value[i] \in Nat /\ bytes[i + 1] \in Nat
      BY <3>1, <2>2, <1>0
    <3>3. value[i + 1] = value[i] * Base + bytes[i + 1]
      BY <3>1, <1>7
    <3>4. PICK x, y : x = value[i] /\ y = bytes[i + 1]
      OBVIOUS
    <3>5. x * Base + y \in Nat
      BY <3>2, <3>4, OneMoreByte
    <3> QED BY <3>3, <3>4, <3>5
  <2> HIDE DEF T
  <2>3. \A i \in Nat : i \in T
    BY <2>1, <2>2, InductiveSet
  <2> QED BY <2>3, <1>0 DEF T
<1>9. value \in [0 .. Len(bytes) -> Nat]
  <2>1. \E d : value = [i \in 0 .. Len(bytes) |-> d[i]]
    <3>1. PICK d : d = [i \in 0 .. Len(bytes) |-> IF i = 0 THEN 0 ELSE value[i - 1] * Base + bytes[i]]
      OBVIOUS
    <3>2. value = [i \in 0 .. Len(bytes) |-> d[i]]
      BY <3>1, <1>5
    <3> QED BY <3>2
  <2> QED BY <2>1, <1>8
<1> QED BY <1>6, <1>7, <1>9 DEF PartialValues

\* The number the first j + 1 of w bytes stand for.
LEMMA TopStep ==
    ASSUME NEW w \in Nat, NEW n \in Nat, NEW j \in 0 .. w - 1
    PROVE  /\ n \div Power[w - j] \in Nat /\ n \div Power[w - (j + 1)] \in Nat
           /\ n \div Power[w - (j + 1)] =
                 (n \div Power[w - j]) * Base + to_be_bytes(n, w)[j + 1]
<1>1. PICK p : p = Power[w - (j + 1)]
  OBVIOUS
<1>2. w - (j + 1) \in Nat /\ (w - (j + 1)) + 1 = w - j /\ j + 1 \in 1..w
  OBVIOUS
<1>3. p \in Nat \ {0} /\ Power[w - j] = Base * p
  <2>1. p \in Nat \ {0}
    BY <1>1, <1>2, PowerType
  <2>2. Power[(w - (j + 1)) + 1] = Base * Power[w - (j + 1)]
    BY <1>2, PowerStep
  <2> QED BY <1>1, <1>2, <2>1, <2>2
<1>4. PICK q : q = n \div p
  OBVIOUS
<1>5. q \in Nat /\ Base \in Nat \ {0}
  BY <1>3, <1>4, Division, WidthsAssumption
<1>6. q \div Base = n \div (Base * p)
  BY <1>3, <1>4, <1>5, DivisionTwice
<1>7. q \div Base \in Nat /\ q = Base * (q \div Base) + (q % Base)
  BY <1>5, Division
<1>8. to_be_bytes(n, w)[j + 1] = q % Base
  BY <1>1, <1>2, <1>4, BytesType
<1>9. Base * (q \div Base) = (q \div Base) * Base
  BY <1>5, <1>7
<1> QED BY <1>1, <1>3, <1>4, <1>5, <1>6, <1>7, <1>8, <1>9

LEMMA TopZero ==
    ASSUME NEW w \in Nat, NEW n \in Word(w)
    PROVE  n \in Nat /\ n \div Power[w] = 0
<1>1. PICK p : p = Power[w]
  OBVIOUS
<1>2. p \in Nat \ {0}
  BY <1>1, PowerType
<1>3. n \in Nat /\ n \in 0 .. p - 1
  BY <1>1, <1>2 DEF Word
<1>4. n = p * 0 + n
  BY <1>2, <1>3
<1>5. n \div p = 0
  BY <1>2, <1>3, <1>4, DivisionUnique
<1> QED BY <1>1, <1>3, <1>5

\* A number that fits its width is read back from its bytes.
LEMMA NumberReadsBack ==
    ASSUME NEW w \in Nat, NEW n \in Word(w)
    PROVE  from_be_bytes(to_be_bytes(n, w)) = n
<1>0. PICK b : b = to_be_bytes(n, w)
  OBVIOUS
<1>1. n \in Nat /\ n \div Power[w] = 0
  BY TopZero
<1>2. b \in Seq(Byte) /\ Len(b) = w
  BY <1>0, <1>1, BytesType
<1>3. PICK v : PartialValues(b, v) /\ from_be_bytes(b) = v[Len(b)]
  BY <1>2, ReadValue
<1>4. v[0] = 0 /\ \A i \in 0 .. w - 1 : v[i + 1] = v[i] * Base + b[i + 1]
  BY <1>2, <1>3 DEF PartialValues
<1> DEFINE T == {j \in Nat : j <= w => v[j] = n \div Power[w - j]}
<1>5. 0 \in T
  BY <1>1, <1>4
<1>6. ASSUME NEW j \in Nat, j \in T PROVE j + 1 \in T
  <2> SUFFICES ASSUME j + 1 <= w PROVE v[j + 1] = n \div Power[w - (j + 1)]
    OBVIOUS
  <2>1. j \in 0 .. w - 1
    OBVIOUS
  <2>2. v[j] = n \div Power[w - j] /\ v[j + 1] = v[j] * Base + b[j + 1]
    BY <1>4, <1>6, <2>1
  <2>3. n \div Power[w - (j + 1)] = (n \div Power[w - j]) * Base + to_be_bytes(n, w)[j + 1]
    BY <1>1, <2>1, TopStep
  <2> QED BY <1>0, <2>2, <2>3
<1> HIDE DEF T
<1>7. w \in T
  BY <1>5, <1>6, InductiveSet
<1>8. v[w] = n \div Power[0]
  <2>1. w - w = 0
    OBVIOUS
  <2> QED BY <1>7, <2>1 DEF T
<1>9. n \div 1 = n
  <2>1. n = 1 * n + 0
    BY <1>1
  <2> QED BY <1>1
<1> QED BY <1>0, <1>2, <1>3, <1>8, <1>9, PowerStep

LEMMA NumberInjective ==
    ASSUME NEW w \in Nat, NEW m \in Word(w), NEW n \in Word(w),
           to_be_bytes(m, w) = to_be_bytes(n, w)
    PROVE  m = n
<1>1. from_be_bytes(to_be_bytes(m, w)) = m
  BY NumberReadsBack
<1>2. from_be_bytes(to_be_bytes(n, w)) = n
  BY NumberReadsBack
<1> QED BY <1>1, <1>2

\* The first byte in which two numbers differ decides their order.
LEMMA FirstByteDecides ==
    ASSUME NEW w \in Nat, NEW m \in Word(w), NEW n \in Word(w), NEW i \in 1..w,
           \A j \in 1 .. i - 1 : to_be_bytes(m, w)[j] = to_be_bytes(n, w)[j],
           to_be_bytes(m, w)[i] < to_be_bytes(n, w)[i]
    PROVE  m < n
<1>0. PICK a, b : a = to_be_bytes(m, w) /\ b = to_be_bytes(n, w)
  OBVIOUS
<1>1. m \in Nat /\ n \in Nat /\ m \div Power[w] = 0 /\ n \div Power[w] = 0
  BY TopZero
<1> DEFINE T == {j \in Nat : j <= i - 1 => m \div Power[w - j] = n \div Power[w - j]}
<1>2. 0 \in T
  BY <1>1
<1>3. ASSUME NEW j \in Nat, j \in T PROVE j + 1 \in T
  <2> SUFFICES ASSUME j + 1 <= i - 1
               PROVE  m \div Power[w - (j + 1)] = n \div Power[w - (j + 1)]
    OBVIOUS
  <2>1. j \in 0 .. w - 1 /\ j + 1 \in 1 .. i - 1
    OBVIOUS
  <2>2. m \div Power[w - j] = n \div Power[w - j] /\ a[j + 1] = b[j + 1]
    BY <1>0, <1>3, <2>1
  <2>3. m \div Power[w - (j + 1)] = (m \div Power[w - j]) * Base + a[j + 1]
    BY <1>0, <1>1, <2>1, TopStep
  <2>4. n \div Power[w - (j + 1)] = (n \div Power[w - j]) * Base + b[j + 1]
    BY <1>0, <1>1, <2>1, TopStep
  <2> QED BY <2>2, <2>3, <2>4
<1> HIDE DEF T
<1>4. i - 1 \in T
  BY <1>2, <1>3, InductiveSet
<1>5. PICK j : j = i - 1
  OBVIOUS
<1>6. j \in 0 .. w - 1 /\ j + 1 = i
  BY <1>5
<1>7. m \div Power[w - j] = n \div Power[w - j]
  BY <1>4, <1>5 DEF T
<1>8. /\ m \div Power[w - j] \in Nat /\ m \div Power[w - (j + 1)] \in Nat
      /\ m \div Power[w - (j + 1)] = (m \div Power[w - j]) * Base + a[j + 1]
  BY <1>0, <1>1, <1>6, TopStep
<1>9. /\ n \div Power[w - (j + 1)] \in Nat
      /\ n \div Power[w - (j + 1)] = (n \div Power[w - j]) * Base + b[j + 1]
  BY <1>0, <1>1, <1>6, TopStep
<1>10. PICK p, x, y, c : /\ p = Power[w - (j + 1)] /\ x = m \div p /\ y = n \div p
                         /\ c = (m \div Power[w - j]) * Base
  OBVIOUS
<1>11. a[i] \in Int /\ b[i] \in Int /\ a[i] < b[i]
  <2>1. a \in Seq(Byte) /\ Len(a) = w /\ b \in Seq(Byte) /\ Len(b) = w
    BY <1>0, <1>1, BytesType
  <2>2. a[i] \in Byte /\ b[i] \in Byte
    BY <2>1
  <2>3. Byte \subseteq Int
    BY WidthsAssumption DEF Byte
  <2> QED BY <2>2, <2>3, <1>0
<1>12. x = c + a[i] /\ y = c + b[i] /\ x \in Nat /\ y \in Nat
  BY <1>6, <1>7, <1>8, <1>9, <1>10
<1>13. x < y
  <2>1. c \in Int
    <3>1. PICK d : d = m \div Power[w - j]
      OBVIOUS
    <3>2. d \in Nat /\ Base \in Nat
      BY <3>1, <1>8, WidthsAssumption
    <3>3. d * Base \in Int
      BY <3>2
    <3> QED BY <1>10, <3>1, <3>3
  <2> QED BY <2>1, <1>11, <1>12
<1>14. p \in Nat \ {0}
  BY <1>6, <1>10, PowerType
<1>15. m < p * (x + 1) /\ p * y <= n
  <2>1. PICK r, s : r = m % p /\ s = n % p
    OBVIOUS
  <2>2. r \in 0 .. p - 1 /\ m = p * x + r /\ s \in 0 .. p - 1 /\ n = p * y + s
    BY <1>1, <1>10, <1>14, <2>1, Division
  <2>3. p * (x + 1) = p * x + p
    BY <1>12, <1>14
  <2>4. p * x \in Int /\ p * y \in Int
    BY <1>12, <1>14
  <2> QED BY <2>2, <2>3, <2>4, <1>14
<1>16. p * (x + 1) <= p * y
  <2>1. x + 1 <= y
    BY <1>12, <1>13
  <2> QED BY <2>1, <1>12, <1>14
<1> QED BY <1>1, <1>12, <1>14, <1>15, <1>16

-----------------------------------------------------------------------------
(* The byte order of the engine. *)

\* Two byte strings part at position i.
Part(a, b, i) ==
    /\ i \in 1 .. Len(a) /\ i <= Len(b)
    /\ \A j \in 1 .. i - 1 : a[j] = b[j]
    /\ a[i] # b[i]

LEMMA PrefixAgrees ==
    ASSUME NEW S, NEW a \in Seq(S), NEW b \in Seq(S), NEW i \in 1 .. Len(a), i <= Len(b)
    PROVE  SubSeq(a, 1, i - 1) = SubSeq(b, 1, i - 1) <=> \A j \in 1 .. i - 1 : a[j] = b[j]
<1>0. PICK n : n = i - 1
  OBVIOUS
<1>1. Len(a) \in Nat /\ Len(b) \in Nat /\ n \in Nat /\ n <= Len(a) /\ n <= Len(b)
  BY <1>0
<1>2. \A j \in 1..n : a[j] \in S /\ b[j] \in S
  BY <1>1
<1>3. PICK u, v : u = SubSeq(a, 1, n) /\ v = SubSeq(b, 1, n)
  OBVIOUS
<1>4. u \in Seq(S) /\ Len(u) = n /\ \A j \in 1..n : u[j] = a[j]
  BY <1>1, <1>2, <1>3
<1>5. v \in Seq(S) /\ Len(v) = n /\ \A j \in 1..n : v[j] = b[j]
  BY <1>1, <1>2, <1>3
<1>6. u = v <=> \A j \in 1..n : a[j] = b[j]
  <2>1. ASSUME \A j \in 1..n : a[j] = b[j] PROVE u = v
    <3>1. \A j \in 1..Len(u) : u[j] = v[j]
      BY <1>4, <1>5, <2>1
    <3> QED BY <1>4, <1>5, <3>1, SeqEqual
  <2> QED BY <1>4, <1>5, <2>1
<1> QED BY <1>0, <1>3, <1>6

LEMMA LexIff ==
    ASSUME NEW a \in Seq(Byte), NEW b \in Seq(Byte)
    PROVE  LexBefore(a, b) <=>
              \/ IsPrefix(a, b) /\ a # b
              \/ \E i \in 1 .. Len(a) : Part(a, b, i) /\ a[i] < b[i]
<1>1. ASSUME NEW i \in 1 .. Len(a), i <= Len(b)
      PROVE  a[i] < b[i] => a[i] # b[i]
  <2>1. PICK x, y : x = a[i] /\ y = b[i]
    OBVIOUS
  <2>2. x \in Byte /\ y \in Byte
    BY <1>1, <2>1
  <2>3. x < y => x # y
    BY <2>2, WidthsAssumption DEF Byte
  <2> QED BY <2>1, <2>3
<1>2. ASSUME NEW i \in 1 .. Len(a), i <= Len(b)
      PROVE  SubSeq(a, 1, i - 1) = SubSeq(b, 1, i - 1) <=> \A j \in 1 .. i - 1 : a[j] = b[j]
  BY <1>2, PrefixAgrees
<1>3. ASSUME NEW i \in 1 .. Len(a)
      PROVE  (i <= Len(b) /\ a[i] < b[i] /\ SubSeq(a, 1, i - 1) = SubSeq(b, 1, i - 1))
                <=> (Part(a, b, i) /\ a[i] < b[i])
  BY <1>1, <1>2 DEF Part
<1> QED BY <1>3 DEF LexBefore, IsStrictPrefix

LEMMA FirstPart ==
    ASSUME NEW a \in Seq(Byte), NEW b \in Seq(Byte), ~IsPrefix(a, b), ~IsPrefix(b, a)
    PROVE  \E i \in 1 .. Len(a) : Part(a, b, i)
<1> DEFINE D == {i \in 1 .. Len(a) : i <= Len(b) /\ a[i] # b[i]}
<1>0. Len(a) \in Nat /\ Len(b) \in Nat
  OBVIOUS
<1>1. IsPrefix(a, b) <=> Len(a) <= Len(b) /\ \A i \in 1..Len(a) : a[i] = b[i]
  BY PrefixIff
<1>2. IsPrefix(b, a) <=> Len(b) <= Len(a) /\ \A i \in 1..Len(b) : b[i] = a[i]
  BY PrefixIff
<1>3. D # {}
  <2>1. CASE Len(a) <= Len(b)
    BY <2>1, <1>0, <1>1
  <2>2. CASE Len(b) <= Len(a)
    BY <2>2, <1>0, <1>2
  <2> QED BY <2>1, <2>2, <1>0
<1>4. D \subseteq Nat
  BY <1>0
<1>5. PICK i \in D : \A j \in D : i <= j
  BY <1>3, <1>4, Smallest
<1>6. i \in 1 .. Len(a) /\ i <= Len(b) /\ a[i] # b[i]
  OBVIOUS
<1>7. ASSUME NEW j \in 1 .. i - 1 PROVE a[j] = b[j]
  <2>1. j \in 1 .. Len(a) /\ j <= Len(b) /\ ~(i <= j)
    BY <1>0, <1>6
  <2>2. j \notin D
    BY <1>5, <2>1
  <2> QED BY <2>1, <2>2
<1> QED BY <1>6, <1>7 DEF Part

LEMMA PartUnique ==
    ASSUME NEW a \in Seq(Byte), NEW b \in Seq(Byte), NEW i, Part(a, b, i), NEW j, Part(a, b, j)
    PROVE  i = j
<1>1. i \in Nat /\ j \in Nat /\ i >= 1 /\ j >= 1
  BY DEF Part
<1>2. ~(i < j)
  <2> SUFFICES ASSUME i < j PROVE FALSE
    OBVIOUS
  <2>1. i \in 1 .. j - 1
    BY <1>1
  <2> QED BY <2>1 DEF Part
<1>3. ~(j < i)
  <2> SUFFICES ASSUME j < i PROVE FALSE
    OBVIOUS
  <2>1. j \in 1 .. i - 1
    BY <1>1
  <2> QED BY <2>1 DEF Part
<1> QED BY <1>1, <1>2, <1>3

LEMMA PartSym ==
    ASSUME NEW a \in Seq(Byte), NEW b \in Seq(Byte), NEW i, Part(a, b, i)
    PROVE  Part(b, a, i)
<1>1. Len(a) \in Nat /\ Len(b) \in Nat
  OBVIOUS
<1> QED BY <1>1 DEF Part

\* A prefix and the string it begins do not part.
LEMMA PrefixNoPart ==
    ASSUME NEW a \in Seq(Byte), NEW b \in Seq(Byte), IsPrefix(a, b), NEW i
    PROVE  ~Part(a, b, i) /\ ~Part(b, a, i)
<1>1. Len(a) <= Len(b) /\ \A j \in 1..Len(a) : a[j] = b[j]
  BY PrefixIff
<1>2. Len(a) \in Nat /\ Len(b) \in Nat
  OBVIOUS
<1> QED BY <1>1, <1>2 DEF Part

\* A scan of the byte order finds the keys that have the prefix.
LEMMA ScanFinds ==
    ASSUME NEW keys, keys \subseteq Seq(Byte), NEW p \in Seq(Byte)
    PROVE  scan_prefix(keys, p) = {key \in keys : IsPrefix(p, key)}
<1>0. Byte \subseteq Int
  BY WidthsAssumption DEF Byte
<1>1. ASSUME NEW key \in keys, key \in scan_prefix(keys, p) PROVE IsPrefix(p, key)
  <2>1. key \in Seq(Byte)
    OBVIOUS
  <2>2. ~LexBefore(key, key)
    <3>1. \A i \in 1 .. Len(key) : ~Part(key, key, i)
      BY DEF Part
    <3> QED BY <2>1, <3>1, LexIff
  <2> QED BY <1>1, <2>2 DEF scan_prefix
<1>2. ASSUME NEW key \in keys, IsPrefix(p, key) PROVE key \in scan_prefix(keys, p)
  <2>1. key \in Seq(Byte)
    OBVIOUS
  <2>2. Len(p) <= Len(key) /\ \A j \in 1..Len(p) : p[j] = key[j]
    BY <1>2, <2>1, PrefixIff
  <2>3. Len(p) \in Nat /\ Len(key) \in Nat
    BY <2>1
  <2>4. ~LexBefore(key, p)
    <3>1. \A i \in 1 .. Len(key) : ~Part(key, p, i)
      BY <1>2, <2>1, PrefixNoPart
    <3>2. IsPrefix(key, p) => key = p
      <4> SUFFICES ASSUME IsPrefix(key, p) PROVE key = p
        OBVIOUS
      <4>1. Len(key) <= Len(p)
        BY <2>1, PrefixIff
      <4>2. Len(key) = Len(p) /\ \A i \in 1..Len(p) : p[i] = key[i]
        BY <4>1, <2>2, <2>3
      <4> QED BY <4>2, <2>1, SeqEqual
    <3> QED BY <2>1, <3>1, <3>2, LexIff
  <2>5. ASSUME NEW other \in keys, ~LexBefore(other, p), ~LexBefore(key, other), ~IsPrefix(p, other)
        PROVE  FALSE
    <3>1. other \in Seq(Byte)
      OBVIOUS
    <3>2. ~IsPrefix(other, p)
      <4> SUFFICES ASSUME IsPrefix(other, p) PROVE FALSE
        OBVIOUS
      <4>1. other = p
        BY <2>5, <3>1, LexIff
      <4>2. IsPrefix(p, p)
        BY <2>3, PrefixIff
      <4> QED BY <2>5, <4>1, <4>2
    <3>3. PICK i \in 1 .. Len(other) : Part(other, p, i)
      BY <2>5, <3>1, <3>2, FirstPart
    <3>4. i \in 1..Len(p) /\ i <= Len(key)
      BY <3>3, <2>2, <2>3, <3>1 DEF Part
    <3>5. other[i] \in Byte /\ p[i] \in Byte
      BY <3>1, <3>3, <3>4
    <3>6. ~(other[i] < p[i])
      BY <2>5, <3>1, <3>3, LexIff
    <3>7. p[i] < other[i] /\ p[i] = key[i]
      <4>1. other[i] # p[i]
        BY <3>3 DEF Part
      <4>2. PICK x, y : x = other[i] /\ y = p[i]
        OBVIOUS
      <4>3. x \in Int /\ y \in Int /\ x # y /\ ~(x < y)
        BY <4>1, <4>2, <3>5, <3>6, <1>0
      <4>4. y < x
        BY <4>3
      <4> QED BY <4>2, <4>4, <3>4, <2>2
    <3>8. Part(key, other, i)
      <4>1. i \in 1 .. Len(key) /\ i <= Len(other)
        BY <3>3, <3>4, <2>3
      <4>2. key[i] # other[i]
        BY <3>3, <3>7 DEF Part
      <4>3. ASSUME NEW j \in 1 .. i - 1 PROVE key[j] = other[j]
        <5>1. j \in 1..Len(p)
          BY <3>4, <2>3
        <5> QED BY <5>1, <2>2, <3>3, <4>3 DEF Part
      <4> QED BY <4>1, <4>2, <4>3 DEF Part
    <3>9. LexBefore(key, other)
      BY <2>1, <3>1, <3>4, <3>7, <3>8, LexIff, <2>3
    <3> QED BY <3>9, <2>5
  <2> QED BY <2>4, <2>5 DEF scan_prefix
<1>3. scan_prefix(keys, p) \subseteq keys
  BY DEF scan_prefix
<1> QED BY <1>1, <1>2, <1>3

LEMMA LexAtPart ==
    ASSUME NEW a \in Seq(Byte), NEW b \in Seq(Byte), NEW i, Part(a, b, i)
    PROVE  LexBefore(a, b) <=> a[i] < b[i]
<1>1. ~IsPrefix(a, b)
  BY PrefixNoPart
<1>2. i \in 1 .. Len(a)
  BY DEF Part
<1>3. \A j \in 1 .. Len(a) : Part(a, b, j) => j = i
  BY PartUnique
<1>4. LexBefore(a, b) <=> \/ IsPrefix(a, b) /\ a # b
                          \/ \E j \in 1 .. Len(a) : Part(a, b, j) /\ a[j] < b[j]
  BY LexIff
<1> QED BY <1>1, <1>2, <1>3, <1>4

LEMMA SameLength ==
    ASSUME NEW a \in Seq(Byte), NEW b \in Seq(Byte), Len(a) = Len(b)
    PROVE  IsPrefix(a, b) <=> a = b
<1>1. IsPrefix(a, b) <=> Len(a) <= Len(b) /\ \A i \in 1..Len(a) : a[i] = b[i]
  BY PrefixIff
<1>2. Len(a) \in Nat
  OBVIOUS
<1>3. ASSUME \A i \in 1..Len(a) : a[i] = b[i] PROVE a = b
  BY <1>3, SeqEqual
<1> QED BY <1>1, <1>2, <1>3

\* The byte order of numbers of one width is their order.
LEMMA LexNumbers ==
    ASSUME NEW w \in Nat, NEW m \in Word(w), NEW n \in Word(w)
    PROVE  LexBefore(to_be_bytes(m, w), to_be_bytes(n, w)) <=> m < n
<1>0. PICK a, b : a = to_be_bytes(m, w) /\ b = to_be_bytes(n, w)
  OBVIOUS
<1>1. m \in Nat /\ n \in Nat
  BY TopZero
<1>2. a \in Seq(Byte) /\ b \in Seq(Byte) /\ Len(a) = w /\ Len(b) = w
  BY <1>0, <1>1, BytesType
<1>3. CASE m = n
  <2>1. a = b
    BY <1>0, <1>3
  <2>2. \A i \in 1..Len(a) : ~Part(a, a, i)
    BY DEF Part
  <2>3. ~LexBefore(a, a)
    BY <1>2, <2>2, LexIff
  <2> QED BY <1>0, <1>1, <1>3, <2>1, <2>3
<1>4. CASE m # n
  <2>1. a # b
    BY <1>0, <1>4, NumberInjective
  <2>2. ~IsPrefix(a, b) /\ ~IsPrefix(b, a)
    BY <1>2, <2>1, SameLength
  <2>3. PICK i \in 1..Len(a) : Part(a, b, i)
    BY <1>2, <2>2, FirstPart
  <2>4. LexBefore(a, b) <=> a[i] < b[i]
    BY <1>2, <2>3, LexAtPart
  <2>5. /\ i \in 1..w /\ a[i] # b[i]
        /\ \A j \in 1 .. i - 1 : a[j] = b[j]
        /\ \A j \in 1 .. i - 1 : b[j] = a[j]
    BY <1>2, <2>3 DEF Part
  <2>6. a[i] < b[i] => m < n
    BY <1>0, <2>5, FirstByteDecides
  <2>7. b[i] < a[i] => n < m
    BY <1>0, <2>5, FirstByteDecides
  <2>8. a[i] < b[i] \/ b[i] < a[i]
    <3>1. PICK x, y : x = a[i] /\ y = b[i]
      OBVIOUS
    <3>2. x \in Byte /\ y \in Byte /\ x # y
      BY <1>2, <2>5, <3>1
    <3>3. x < y \/ y < x
      BY <3>2, WidthsAssumption DEF Byte
    <3> QED BY <3>1, <3>3
  <2>9. (m < n \/ n < m) /\ ~(m < n /\ n < m)
    BY <1>1, <1>4
  <2> QED BY <1>0, <2>4, <2>6, <2>7, <2>8, <2>9
<1> QED BY <1>3, <1>4

LEMMA ConcatAt ==
    ASSUME NEW a \in Seq(Byte), NEW x \in Seq(Byte)
    PROVE  /\ a \o x \in Seq(Byte) /\ Len(a \o x) = Len(a) + Len(x)
           /\ Len(a) \in Nat /\ Len(x) \in Nat
           /\ \A i \in 1..Len(a) : (a \o x)[i] = a[i]
           /\ \A i \in 1..Len(x) : (a \o x)[Len(a) + i] = x[i]
  BY ConcatHas

LEMMA PrefixConcat ==
    ASSUME NEW a \in Seq(Byte), NEW b \in Seq(Byte), Len(a) = Len(b),
           NEW x \in Seq(Byte), NEW y \in Seq(Byte)
    PROVE  IsPrefix(a \o x, b \o y) <=> a = b /\ IsPrefix(x, y)
<1>0. PICK s, t, n : s = a \o x /\ t = b \o y /\ n = Len(a)
  OBVIOUS
<1>1. /\ s \in Seq(Byte) /\ Len(s) = n + Len(x) /\ n \in Nat /\ Len(x) \in Nat
      /\ \A i \in 1..n : s[i] = a[i]
      /\ \A i \in 1..Len(x) : s[n + i] = x[i]
  BY <1>0, ConcatAt
<1>2. /\ t \in Seq(Byte) /\ Len(t) = n + Len(y) /\ Len(y) \in Nat
      /\ \A i \in 1..n : t[i] = b[i]
      /\ \A i \in 1..Len(y) : t[n + i] = y[i]
  BY <1>0, ConcatAt
<1>a. s \in Seq(Byte) /\ t \in Seq(Byte)
  BY <1>1, <1>2
<1>3. IsPrefix(s, t) <=> Len(s) <= Len(t) /\ \A i \in 1..Len(s) : s[i] = t[i]
  BY <1>a, PrefixIff
<1>4. IsPrefix(x, y) <=> Len(x) <= Len(y) /\ \A i \in 1..Len(x) : x[i] = y[i]
  BY PrefixIff
<1>5. ASSUME IsPrefix(s, t) PROVE a = b /\ IsPrefix(x, y)
  <2>1. Len(x) <= Len(y) /\ \A i \in 1..Len(s) : s[i] = t[i]
    BY <1>1, <1>2, <1>3, <1>5
  <2>2. ASSUME NEW i \in 1..n PROVE a[i] = b[i]
    <3>1. i \in 1..Len(s)
      BY <1>1
    <3> QED BY <3>1, <2>1, <1>1, <1>2
  <2>3. ASSUME NEW i \in 1..Len(x) PROVE x[i] = y[i]
    <3>1. n + i \in 1..Len(s) /\ i \in 1..Len(y)
      BY <1>1, <1>2, <2>1
    <3> QED BY <3>1, <2>1, <1>1, <1>2
  <2>4. a = b
    BY <1>0, <2>2, SeqEqual
  <2> QED BY <2>1, <2>3, <2>4, <1>4
<1>6. ASSUME a = b, IsPrefix(x, y) PROVE IsPrefix(s, t)
  <2>1. Len(s) <= Len(t)
    BY <1>1, <1>2, <1>4, <1>6
  <2>2. ASSUME NEW i \in 1..Len(s) PROVE s[i] = t[i]
    <3>1. CASE i <= n
      BY <3>1, <1>1, <1>2, <1>6
    <3>2. CASE i > n
      <4>1. i - n \in 1..Len(x) /\ i - n \in 1..Len(y) /\ n + (i - n) = i
        BY <3>2, <1>1, <1>2, <1>4, <1>6
      <4>2. s[n + (i - n)] = x[i - n] /\ t[n + (i - n)] = y[i - n] /\ x[i - n] = y[i - n]
        BY <4>1, <1>1, <1>2, <1>4, <1>6
      <4> QED BY <4>1, <4>2
    <3> QED BY <3>1, <3>2, <1>1
  <2> QED BY <2>1, <2>2, <1>3
<1> QED BY <1>0, <1>5, <1>6

\* Strings that begin with parts of one length compare part by part.
LEMMA LexPair ==
    ASSUME NEW a \in Seq(Byte), NEW b \in Seq(Byte), Len(a) = Len(b),
           NEW x \in Seq(Byte), NEW y \in Seq(Byte)
    PROVE  LexBefore(a \o x, b \o y) <=> LexBefore(a, b) \/ (a = b /\ LexBefore(x, y))
<1>0. PICK s, t, n : s = a \o x /\ t = b \o y /\ n = Len(a)
  OBVIOUS
<1>1. /\ s \in Seq(Byte) /\ Len(s) = n + Len(x) /\ n \in Nat /\ Len(x) \in Nat
      /\ \A i \in 1..n : s[i] = a[i]
      /\ \A i \in 1..Len(x) : s[n + i] = x[i]
  BY <1>0, ConcatAt
<1>2. /\ t \in Seq(Byte) /\ Len(t) = n + Len(y) /\ Len(y) \in Nat
      /\ \A i \in 1..n : t[i] = b[i]
      /\ \A i \in 1..Len(y) : t[n + i] = y[i]
  BY <1>0, ConcatAt
<1>3. ASSUME a # b PROVE LexBefore(s, t) <=> LexBefore(a, b)
  <2>1. ~IsPrefix(a, b) /\ ~IsPrefix(b, a)
    BY <1>3, SameLength
  <2>2. PICK i \in 1..Len(a) : Part(a, b, i)
    BY <2>1, FirstPart
  <2>3. Part(s, t, i)
    <3>1. i \in 1..n /\ i \in 1..Len(s) /\ i <= Len(t)
      BY <1>0, <1>1, <1>2
    <3>2. s[i] # t[i]
      BY <2>2, <3>1, <1>1, <1>2 DEF Part
    <3>3. ASSUME NEW j \in 1 .. i - 1 PROVE s[j] = t[j]
      <4>1. j \in 1..n
        BY <1>1, <3>1
      <4> QED BY <4>1, <2>2, <1>1, <1>2 DEF Part
    <3> QED BY <3>1, <3>2, <3>3 DEF Part
  <2>4. s[i] = a[i] /\ t[i] = b[i]
    BY <1>0, <1>1, <1>2
  <2>5. LexBefore(a, b) <=> a[i] < b[i]
    BY <2>2, LexAtPart
  <2>6. LexBefore(s, t) <=> s[i] < t[i]
    BY <1>1, <1>2, <2>3, LexAtPart
  <2> QED BY <2>4, <2>5, <2>6
<1>4. ASSUME a = b PROVE ~LexBefore(a, b) /\ (LexBefore(s, t) <=> LexBefore(x, y))
  <2>1. ~LexBefore(a, b)
    <3>1. \A i \in 1..Len(a) : ~Part(a, a, i)
      BY DEF Part
    <3> QED BY <1>4, <3>1, LexIff
  <2>2. (IsPrefix(s, t) <=> IsPrefix(x, y)) /\ (IsPrefix(t, s) <=> IsPrefix(y, x))
    BY <1>0, <1>4, PrefixConcat
  <2>3. CASE IsPrefix(x, y)
    <3>1. \A i \in 1..Len(x) : ~Part(x, y, i)
      BY <2>3, PrefixNoPart
    <3>2. \A i \in 1..Len(s) : ~Part(s, t, i)
      BY <1>1, <1>2, <2>2, <2>3, PrefixNoPart
    <3>3. s = t <=> x = y
      <4>1. ASSUME s = t PROVE x = y
        <5>1. Len(x) = Len(y)
          BY <1>1, <1>2, <4>1
        <5> QED BY <5>1, <2>3, SameLength
      <4> QED BY <4>1, <1>0, <1>4
    <3>4. LexBefore(x, y) <=> x # y
      BY <2>3, <3>1, LexIff
    <3>5. LexBefore(s, t) <=> s # t
      BY <1>1, <1>2, <2>2, <2>3, <3>2, LexIff
    <3> QED BY <2>1, <3>3, <3>4, <3>5
  <2>4. CASE ~IsPrefix(x, y) /\ IsPrefix(y, x)
    <3>1. \A i \in 1..Len(x) : ~Part(x, y, i)
      BY <2>4, PrefixNoPart
    <3>2. \A i \in 1..Len(s) : ~Part(s, t, i)
      BY <1>1, <1>2, <2>2, <2>4, PrefixNoPart
    <3>3. ~LexBefore(x, y)
      BY <2>4, <3>1, LexIff
    <3>4. ~LexBefore(s, t)
      BY <1>1, <1>2, <2>2, <2>4, <3>2, LexIff
    <3> QED BY <2>1, <3>3, <3>4
  <2>5. CASE ~IsPrefix(x, y) /\ ~IsPrefix(y, x)
    <3>1. PICK i \in 1..Len(x) : Part(x, y, i)
      BY <2>5, FirstPart
    <3>2. i \in 1..Len(y) /\ x[i] # y[i] /\ \A j \in 1 .. i - 1 : x[j] = y[j]
      BY <3>1, <1>1, <1>2 DEF Part
    <3>3. n + i \in 1..Len(s) /\ n + i <= Len(t) /\ s[n + i] = x[i] /\ t[n + i] = y[i]
      BY <3>1, <3>2, <1>1, <1>2
    <3>4. ASSUME NEW j \in 1 .. n + i - 1 PROVE s[j] = t[j]
      <4>1. CASE j <= n
        BY <4>1, <1>1, <1>2, <1>4
      <4>2. CASE j > n
        <5>1. j - n \in 1 .. i - 1 /\ j - n \in 1..Len(x) /\ j - n \in 1..Len(y) /\ n + (j - n) = j
          BY <4>2, <3>1, <3>2, <1>1, <1>2
        <5>2. s[n + (j - n)] = x[j - n] /\ t[n + (j - n)] = y[j - n] /\ x[j - n] = y[j - n]
          BY <5>1, <3>2, <1>1, <1>2
        <5> QED BY <5>1, <5>2
      <4> QED BY <4>1, <4>2, <1>1
    <3>5. Part(s, t, n + i)
      <4>1. PICK h : h = n + i
        OBVIOUS
      <4>2. h \in 1..Len(s) /\ h <= Len(t) /\ s[h] # t[h] /\ \A j \in 1 .. h - 1 : s[j] = t[j]
        <5>1. s[h] = x[i] /\ t[h] = y[i] /\ h \in 1..Len(s) /\ h <= Len(t)
          BY <4>1, <3>3
        <5>2. s[h] # t[h]
          BY <5>1, <3>2
        <5>3. \A j \in 1 .. h - 1 : s[j] = t[j]
          <6>1. h - 1 = n + i - 1
            BY <4>1, <1>1, <3>1
          <6>2. \A j \in 1 .. n + i - 1 : s[j] = t[j]
            BY <3>4
          <6> QED BY <6>1, <6>2, Zenon
        <5> QED BY <5>1, <5>2, <5>3
      <4> QED BY <4>1, <4>2 DEF Part
    <3>6. LexBefore(x, y) <=> x[i] < y[i]
      BY <3>1, LexAtPart
    <3>7. LexBefore(s, t) <=> s[n + i] < t[n + i]
      BY <1>1, <1>2, <3>5, LexAtPart
    <3> QED BY <2>1, <3>3, <3>6, <3>7
  <2> QED BY <2>3, <2>4, <2>5
<1> QED BY <1>0, <1>3, <1>4

-----------------------------------------------------------------------------
(* Pieces of records. *)

LEMMA SliceMid ==
    ASSUME NEW S, NEW a \in Seq(S), NEW b \in Seq(S), NEW c \in Seq(S)
    PROVE  Slice((a \o b) \o c, Len(a) + 1, Len(b)) = b
<1>1. PICK d, s : d = a \o b /\ s = d \o c
  OBVIOUS
<1>2. /\ d \in Seq(S) /\ Len(d) = Len(a) + Len(b) /\ Len(a) \in Nat /\ Len(b) \in Nat
      /\ \A i \in 1..Len(b) : d[Len(a) + i] = b[i]
  BY <1>1, ConcatHas
<1>3. /\ s \in Seq(S) /\ Len(s) = Len(d) + Len(c) /\ Len(c) \in Nat
      /\ \A i \in 1..Len(d) : s[i] = d[i]
  BY <1>1, <1>2, ConcatHas
<1>4. Len(a) + Len(b) <= Len(s)
  BY <1>2, <1>3
<1>5. ASSUME NEW i \in 1..Len(b) PROVE s[Len(a) + i] = b[i]
  <2>1. Len(a) + i \in 1..Len(d)
    BY <1>2
  <2> QED BY <2>1, <1>2, <1>3
<1>6. SubSeq(s, Len(a) + 1, Len(a) + Len(b)) = b
  BY <1>2, <1>3, <1>4, <1>5, PieceIs
<1>7. Len(a) + 1 + Len(b) - 1 = Len(a) + Len(b)
  BY <1>2
<1> QED BY <1>1, <1>6, <1>7 DEF Slice

LEMMA TagType == META_PREFIX \in Byte /\ SUBKEY_PREFIX \in Byte /\ ZSCORE_PREFIX \in Byte
  BY WidthsAssumption DEF META_PREFIX, SUBKEY_PREFIX, ZSCORE_PREFIX, Byte

\* The key, the version and the rest of a versioned record.
Owner(u, v) == u \in Seq(Byte) /\ Len(u) \in Word(LenBytes) /\ v \in Word(WordBytes)

LEMMA VersionedType ==
    ASSUME NEW t \in Byte, NEW u, NEW v, Owner(u, v)
    PROVE  /\ versioned_prefix(t, u, v) \in Seq(Byte)
           /\ Len(versioned_prefix(t, u, v)) = 1 + LenBytes + Len(u) + WordBytes
           /\ versioned_prefix(t, u, v)[1] = t
<1>1. PICK L, V, X : L = to_be_bytes(Len(u), LenBytes) /\ V = to_be_bytes(v, WordBytes) /\ X = <<t>>
  OBVIOUS
<1>2. Len(u) \in Nat /\ v \in Nat /\ LenBytes \in Nat /\ WordBytes \in Nat /\ u \in Seq(Byte)
  BY TopZero, WidthsAssumption DEF Owner
<1>3. L \in Seq(Byte) /\ Len(L) = LenBytes /\ V \in Seq(Byte) /\ Len(V) = WordBytes
  BY <1>1, <1>2, BytesType
<1>4. X \in Seq(Byte) /\ Len(X) = 1 /\ X[1] = t
  BY <1>1
<1>5. PICK A, B, C : A = X \o L /\ B = A \o u /\ C = B \o V
  OBVIOUS
<1>6. A \in Seq(Byte) /\ Len(A) = 1 + LenBytes /\ A[1] = t
  <2>1. /\ X \o L \in Seq(Byte) /\ Len(X \o L) = Len(X) + Len(L)
        /\ \A i \in 1..Len(X) : (X \o L)[i] = X[i]
    BY <1>3, <1>4, ConcatAt
  <2> QED BY <2>1, <1>3, <1>4, <1>5
<1>7. B \in Seq(Byte) /\ Len(B) = 1 + LenBytes + Len(u) /\ B[1] = t
  <2>1. /\ A \o u \in Seq(Byte) /\ Len(A \o u) = Len(A) + Len(u)
        /\ \A i \in 1..Len(A) : (A \o u)[i] = A[i]
    BY <1>2, <1>6, ConcatAt
  <2>2. 1 \in 1..Len(A)
    BY <1>6, <1>2
  <2> QED BY <2>1, <2>2, <1>5, <1>6
<1>8. C \in Seq(Byte) /\ Len(C) = 1 + LenBytes + Len(u) + WordBytes /\ C[1] = t
  <2>1. /\ B \o V \in Seq(Byte) /\ Len(B \o V) = Len(B) + Len(V)
        /\ \A i \in 1..Len(B) : (B \o V)[i] = B[i]
    BY <1>3, <1>7, ConcatAt
  <2>2. 1 \in 1..Len(B)
    BY <1>7, <1>2
  <2> QED BY <2>1, <2>2, <1>3, <1>5, <1>7
<1> QED BY <1>1, <1>5, <1>8 DEF versioned_prefix

LEMMA ParsesBack ==
    ASSUME NEW t \in Byte, NEW u, NEW v, Owner(u, v), NEW rest \in Seq(Byte)
    PROVE  parse_versioned(versioned_prefix(t, u, v) \o rest, t) = <<u, v, rest>>
<1>1. PICK L, V, X : L = to_be_bytes(Len(u), LenBytes) /\ V = to_be_bytes(v, WordBytes) /\ X = <<t>>
  OBVIOUS
<1>2. Len(u) \in Nat /\ v \in Nat /\ LenBytes \in Nat /\ WordBytes \in Nat /\ u \in Seq(Byte)
  BY TopZero, WidthsAssumption DEF Owner
<1>3. L \in Seq(Byte) /\ Len(L) = LenBytes /\ V \in Seq(Byte) /\ Len(V) = WordBytes
  BY <1>1, <1>2, BytesType
<1>4. X \in Seq(Byte) /\ Len(X) = 1
  BY <1>1
<1>5. PICK A, B, C, R : A = X \o L /\ B = A \o u /\ C = B \o V /\ R = C \o rest
  OBVIOUS
<1>6. A \in Seq(Byte) /\ Len(A) = 1 + LenBytes
  <2>1. X \o L \in Seq(Byte) /\ Len(X \o L) = Len(X) + Len(L)
    BY <1>3, <1>4, ConcatAt
  <2> QED BY <2>1, <1>3, <1>4, <1>5
<1>7. B \in Seq(Byte) /\ Len(B) = 1 + LenBytes + Len(u)
  <2>1. A \o u \in Seq(Byte) /\ Len(A \o u) = Len(A) + Len(u)
    BY <1>2, <1>6, ConcatAt
  <2> QED BY <2>1, <1>5, <1>6
<1>8. C \in Seq(Byte) /\ C = versioned_prefix(t, u, v) /\ C[1] = t
      /\ Len(C) = 1 + LenBytes + Len(u) + WordBytes
  <2>1. C = versioned_prefix(t, u, v)
    BY <1>1, <1>5 DEF versioned_prefix
  <2> QED BY <2>1, VersionedType
<1>9. R \in Seq(Byte) /\ Len(R) = Len(C) + Len(rest) /\ Len(rest) \in Nat /\ R[1] = t /\ R # <<>>
  <2>1. /\ C \o rest \in Seq(Byte) /\ Len(C \o rest) = Len(C) + Len(rest) /\ Len(rest) \in Nat
        /\ \A i \in 1..Len(C) : (C \o rest)[i] = C[i]
    BY <1>8, ConcatAt
  <2>2. 1 \in 1..Len(C) /\ Len(C) + Len(rest) # 0
    BY <1>8, <1>2, <2>1
  <2> QED BY <2>1, <2>2, <1>5, <1>8
<1>10. V \o rest \in Seq(Byte) /\ u \o (V \o rest) \in Seq(Byte)
  BY <1>2, <1>3, ConcatAt
<1>11. R = B \o (V \o rest)
  <2>1. B \in Seq(Byte) /\ V \in Seq(Byte)
    BY <1>3, <1>7
  <2>2. (B \o V) \o rest = B \o (V \o rest)
    BY <2>1, Assoc
  <2> QED BY <1>5, <2>2
<1>12. R = A \o (u \o (V \o rest))
  <2>1. PICK z : z = V \o rest
    OBVIOUS
  <2>2. z \in Seq(Byte)
    BY <1>10, <2>1
  <2>3. (A \o u) \o z = A \o (u \o z)
    BY <1>2, <1>6, <2>2, Assoc
  <2> QED BY <1>5, <1>11, <2>1, <2>3
<1>13. Slice(R, 2, LenBytes) = L
  <2>1. Slice((X \o L) \o (u \o (V \o rest)), Len(X) + 1, Len(L)) = L
    BY <1>3, <1>4, <1>10, SliceMid
  <2>2. Len(X) + 1 = 2
    BY <1>4
  <2> QED BY <2>1, <2>2, <1>3, <1>5, <1>12
<1>14. Slice(R, 2 + LenBytes, Len(u)) = u
  <2>1. Slice((A \o u) \o (V \o rest), Len(A) + 1, Len(u)) = u
    BY <1>2, <1>6, <1>10, SliceMid
  <2>2. Len(A) + 1 = 2 + LenBytes
    BY <1>2, <1>6
  <2> QED BY <2>1, <2>2, <1>5, <1>11
<1>15. Slice(R, 2 + LenBytes + Len(u), WordBytes) = V
  <2>1. Slice((B \o V) \o rest, Len(B) + 1, Len(V)) = V
    BY <1>3, <1>7, SliceMid
  <2>2. Len(B) + 1 = 2 + LenBytes + Len(u)
    BY <1>2, <1>7
  <2> QED BY <2>1, <2>2, <1>3, <1>5
<1>16. SubSeq(R, 2 + LenBytes + Len(u) + WordBytes, Len(R)) = rest
  <2>1. SubSeq(C \o rest, Len(C) + 1, Len(C \o rest)) = rest
    BY <1>8, TailOf
  <2>2. Len(C) + 1 = 2 + LenBytes + Len(u) + WordBytes
    BY <1>2, <1>8
  <2> QED BY <2>1, <2>2, <1>5
<1>17. from_be_bytes(L) = Len(u) /\ from_be_bytes(V) = v
  BY <1>1, <1>2, NumberReadsBack DEF Owner
<1>18. /\ ~(Len(R) < 1 + LenBytes + WordBytes)
       /\ ~(Len(R) < (2 + LenBytes + Len(u) + WordBytes) - 1)
  BY <1>2, <1>8, <1>9
<1>19. parse_versioned(R, t) = <<u, v, rest>>
  <2>1. from_be_bytes(Slice(R, 2, LenBytes)) = Len(u)
    BY <1>13, <1>17
  <2>2. from_be_bytes(Slice(R, 2 + LenBytes + Len(u), WordBytes)) = v
    BY <1>15, <1>17
  <2> QED BY <1>9, <1>14, <1>16, <1>18, <2>1, <2>2, Zenon DEF parse_versioned
<1> QED BY <1>5, <1>8, <1>19

LEMMA SliceFirst ==
    ASSUME NEW S, NEW b \in Seq(S), NEW c \in Seq(S)
    PROVE  Slice(b \o c, 1, Len(b)) = b
<1>1. PICK s, n : s = b \o c /\ n = 0
  OBVIOUS
<1>2. /\ s \in Seq(S) /\ Len(s) = Len(b) + Len(c) /\ Len(b) \in Nat /\ Len(c) \in Nat
      /\ \A i \in 1..Len(b) : s[i] = b[i]
  BY <1>1, ConcatHas
<1>3. n \in Nat /\ n + Len(b) <= Len(s)
  BY <1>1, <1>2
<1>4. \A i \in 1..Len(b) : s[n + i] = b[i]
  BY <1>1, <1>2
<1>5. SubSeq(s, n + 1, n + Len(b)) = b
  BY <1>2, <1>3, <1>4, PieceIs
<1>6. n + 1 = 1 /\ n + Len(b) = 1 + Len(b) - 1
  BY <1>1, <1>2
<1> QED BY <1>1, <1>5, <1>6 DEF Slice

-----------------------------------------------------------------------------
(* Metadata values. *)

LEMMA MetaParses ==
    ASSUME NEW S, Byte \subseteq S, NEW tag \in S, NEW v \in Word(WordBytes),
           NEW e \in Word(WordBytes), NEW payload \in Seq(S)
    PROVE  meta_decode(meta_encode(tag, v, e, payload))
              = <<[tag |-> tag, version |-> v, expire |-> e, payload |-> payload]>>
<1>1. PICK X, V, E : X = <<tag>> /\ V = to_be_bytes(v, WordBytes) /\ E = to_be_bytes(e, WordBytes)
  OBVIOUS
<1>2. WordBytes \in Nat /\ WordBytes # 0 /\ v \in Nat /\ e \in Nat
  BY TopZero, WidthsAssumption
<1>3. X \in Seq(S) /\ Len(X) = 1 /\ X[1] = tag
  BY <1>1
<1>4. V \in Seq(Byte) /\ Len(V) = WordBytes /\ E \in Seq(Byte) /\ Len(E) = WordBytes
  BY <1>1, <1>2, BytesType
<1>5. V \in Seq(S) /\ E \in Seq(S)
  BY <1>4
<1>6. PICK A, B, R : A = X \o V /\ B = A \o E /\ R = B \o payload
  OBVIOUS
<1>7. A \in Seq(S) /\ Len(A) = 1 + WordBytes /\ A[1] = tag
  <2>1. /\ X \o V \in Seq(S) /\ Len(X \o V) = Len(X) + Len(V)
        /\ \A i \in 1..Len(X) : (X \o V)[i] = X[i]
    BY <1>3, <1>5, ConcatHas
  <2> QED BY <2>1, <1>3, <1>4, <1>6
<1>8. B \in Seq(S) /\ Len(B) = 1 + 2 * WordBytes /\ B[1] = tag
  <2>1. /\ A \o E \in Seq(S) /\ Len(A \o E) = Len(A) + Len(E)
        /\ \A i \in 1..Len(A) : (A \o E)[i] = A[i]
    BY <1>5, <1>7, ConcatHas
  <2>2. 1 \in 1..Len(A) /\ Len(A) + Len(E) = 1 + 2 * WordBytes
    BY <1>2, <1>4, <1>7
  <2> QED BY <2>1, <2>2, <1>6, <1>7
<1>9. R \in Seq(S) /\ Len(R) = 1 + 2 * WordBytes + Len(payload) /\ Len(payload) \in Nat /\ R[1] = tag
  <2>1. /\ B \o payload \in Seq(S) /\ Len(B \o payload) = Len(B) + Len(payload)
        /\ Len(payload) \in Nat
        /\ \A i \in 1..Len(B) : (B \o payload)[i] = B[i]
    BY <1>8, ConcatHas
  <2>2. 1 \in 1..Len(B)
    BY <1>2, <1>8
  <2> QED BY <2>1, <2>2, <1>6, <1>8
<1>10. Slice(R, 2, WordBytes) = V
  <2>1. E \o payload \in Seq(S)
    BY <1>5, ConcatHas
  <2>2. (A \o E) \o payload = A \o (E \o payload)
    <3>1. A \in Seq(S) /\ E \in Seq(S)
      BY <1>5, <1>7
    <3> QED BY <3>1, Assoc
  <2>3. Slice((X \o V) \o (E \o payload), Len(X) + 1, Len(V)) = V
    BY <1>3, <1>5, <2>1, SliceMid
  <2>4. Len(X) + 1 = 2
    BY <1>3
  <2> QED BY <2>2, <2>3, <2>4, <1>4, <1>6
<1>11. Slice(R, 2 + WordBytes, WordBytes) = E
  <2>1. Slice((A \o E) \o payload, Len(A) + 1, Len(E)) = E
    BY <1>5, <1>7, SliceMid
  <2>2. Len(A) + 1 = 2 + WordBytes
    BY <1>2, <1>7
  <2> QED BY <2>1, <2>2, <1>4, <1>6
<1>12. SubSeq(R, META_HEADER_LEN + 1, Len(R)) = payload
  <2>1. SubSeq(B \o payload, Len(B) + 1, Len(B \o payload)) = payload
    BY <1>8, TailOf
  <2> QED BY <2>1, <1>6, <1>8 DEF META_HEADER_LEN
<1>13. from_be_bytes(V) = v /\ from_be_bytes(E) = e
  BY <1>1, <1>2, NumberReadsBack
<1>14. ~(Len(R) < META_HEADER_LEN)
  BY <1>2, <1>9 DEF META_HEADER_LEN
<1>15. R = meta_encode(tag, v, e, payload)
  BY <1>1, <1>6 DEF meta_encode
<1>16. meta_decode(R) = <<[tag |-> tag, version |-> v, expire |-> e, payload |-> payload]>>
  BY <1>9, <1>10, <1>11, <1>12, <1>13, <1>14, Zenon DEF meta_decode
<1> QED BY <1>15, <1>16

LEMMA CountReadsBack ==
    ASSUME NEW meta, meta.tag \in {Tags.hash, Tags.set, Tags.zset}, NEW n \in Word(LenBytes),
           meta.payload = set_field_count(n)
    PROVE  field_count(meta) = n
<1>1. PICK b : b = to_be_bytes(n, LenBytes)
  OBVIOUS
<1>2. LenBytes \in Nat /\ n \in Nat
  BY TopZero, WidthsAssumption
<1>3. b \in Seq(Byte) /\ Len(b) = LenBytes
  BY <1>1, <1>2, BytesType
<1>4. SubSeq(b, 1, Len(b)) = b
  BY <1>3, SubSeqFull
<1>5. 1 + LenBytes - 1 = LenBytes /\ LenBytes >= LenBytes
  BY <1>2
<1>6. Slice(b, 1, LenBytes) = b
  BY <1>3, <1>4, <1>5 DEF Slice
<1>7. from_be_bytes(b) = n
  BY <1>1, <1>2, NumberReadsBack
<1> QED BY <1>1, <1>3, <1>5, <1>6, <1>7 DEF field_count, set_field_count

LEMMA BoundsReadBack ==
    ASSUME NEW meta, meta.tag = Tags.list, NEW head \in Word(WordBytes), NEW tail \in Word(WordBytes),
           meta.payload = set_list_bounds(head, tail)
    PROVE  list_bounds(meta) = <<head, tail>>
<1>1. PICK H, T, P : H = to_be_bytes(head, WordBytes) /\ T = to_be_bytes(tail, WordBytes) /\ P = H \o T
  OBVIOUS
<1>2. WordBytes \in Nat /\ head \in Nat /\ tail \in Nat
  BY TopZero, WidthsAssumption
<1>3. H \in Seq(Byte) /\ Len(H) = WordBytes /\ T \in Seq(Byte) /\ Len(T) = WordBytes
  BY <1>1, <1>2, BytesType
<1>4. Len(P) = WordBytes + WordBytes
  <2>1. Len(H \o T) = Len(H) + Len(T)
    BY <1>3, ConcatAt
  <2> QED BY <2>1, <1>1, <1>3
<1>5. Slice(P, 1, WordBytes) = H
  BY <1>1, <1>3, SliceFirst
<1>6. Slice(P, WordBytes + 1, WordBytes) = T
  <2>1. SubSeq(H \o T, Len(H) + 1, Len(H \o T)) = T
    BY <1>3, TailOf
  <2>2. WordBytes + WordBytes = WordBytes + 1 + WordBytes - 1
    BY <1>2
  <2> QED BY <2>1, <2>2, <1>1, <1>3, <1>4 DEF Slice
<1>7. from_be_bytes(H) = head /\ from_be_bytes(T) = tail
  BY <1>1, <1>2, NumberReadsBack
<1>8. ~(Len(P) < 2 * WordBytes)
  BY <1>2, <1>4
<1>9. meta.payload = P
  BY <1>1 DEF set_list_bounds
<1> QED BY <1>5, <1>6, <1>7, <1>8, <1>9 DEF list_bounds

-----------------------------------------------------------------------------
(* The numbers of every record fit the machine words the code keeps them in: *)
(* versions, deadlines, scores and indexes u64, counts u32.                  *)
MetaFits(m) ==
    /\ m.ver \in Word(WordBytes) /\ m.exp \in Word(WordBytes) /\ m.cnt \in Word(LenBytes)
    /\ LIST_INITIAL_INDEX + m.head \in Word(WordBytes)
    /\ LIST_INITIAL_INDEX + m.tail \in Word(WordBytes)

SubFits(r) == r.ver \in Word(WordBytes) /\ LIST_INITIAL_INDEX + r.field \in Word(WordBytes)

IdxFits(r) ==
    /\ r.ver \in Word(WordBytes) /\ r.score \in Word(WordBytes)
    /\ LIST_INITIAL_INDEX + r.member \in Word(WordBytes)

WordsFit ==
    /\ \A k \in Keys : metas[k] # NoMeta => MetaFits(metas[k])
    /\ \A r \in subs : SubFits(r)
    /\ \A r \in index : IdxFits(r)

LEMMA MetaBack ==
    ASSUME NEW m \in Metas, MetaFits(m)
    PROVE  LET read == meta_decode(MetaBytes(m)) IN
           /\ read # Malformed
           /\ <<read[1].tag, read[1].version, read[1].expire>> = <<Tags[m.type], m.ver, m.exp>>
           /\ m.type = "string" => read[1].payload = <<m.val>>
           /\ m.type \in {"hash", "set", "zset"} => field_count(read[1]) = m.cnt
           /\ m.type = "list" =>
                 list_bounds(read[1]) = <<LIST_INITIAL_INDEX + m.head, LIST_INITIAL_INDEX + m.tail>>
<1> DEFINE payload == CASE m.type = "string" -> <<m.val>>
                        [] m.type = "list" -> set_list_bounds(LIST_INITIAL_INDEX + m.head,
                                                              LIST_INITIAL_INDEX + m.tail)
                        [] OTHER -> set_field_count(m.cnt)
           S == Byte \cup {Tags[m.type], m.val}
           rec == [tag |-> Tags[m.type], version |-> m.ver, expire |-> m.exp, payload |-> payload]
<1>1. m.type \in {"string", "hash", "set", "zset", "list"}
  BY DEF Metas, Composite
<1>2. WordBytes \in Nat /\ LenBytes \in Nat
  BY WidthsAssumption
<1>3. m.type = "string" => payload = <<m.val>>
  BY Zenon
<1>4. m.type = "list" => payload = set_list_bounds(LIST_INITIAL_INDEX + m.head, LIST_INITIAL_INDEX + m.tail)
  <2>1. "list" # "string"
    OBVIOUS
  <2> QED BY <2>1
<1>5. m.type \in {"hash", "set", "zset"} => payload = set_field_count(m.cnt)
  OBVIOUS
<1>6. payload \in Seq(S)
  <2>1. CASE m.type = "string"
    <3>1. m.val \in S
      OBVIOUS
    <3> HIDE DEF S, payload
    <3>2. <<m.val>> \in Seq(S)
      BY <3>1
    <3> QED BY <2>1, <1>3, <3>2
  <2>2. CASE m.type = "list"
    <3>1. PICK h, t : h = LIST_INITIAL_INDEX + m.head /\ t = LIST_INITIAL_INDEX + m.tail
      OBVIOUS
    <3>2. h \in Nat /\ t \in Nat
      BY <1>2, <3>1, TopZero DEF MetaFits
    <3>3. to_be_bytes(h, WordBytes) \in Seq(Byte) /\ to_be_bytes(t, WordBytes) \in Seq(Byte)
      BY <1>2, <3>2, BytesType
    <3>4. to_be_bytes(h, WordBytes) \o to_be_bytes(t, WordBytes) \in Seq(Byte)
      BY <3>3, ConcatAt
    <3>5. payload \in Seq(Byte)
      BY <2>2, <1>4, <3>1, <3>4 DEF set_list_bounds
    <3> HIDE DEF payload
    <3> QED BY <3>5
  <2>3. CASE m.type \in {"hash", "set", "zset"}
    <3>1. m.cnt \in Nat
      BY <1>2, TopZero DEF MetaFits
    <3>2. payload \in Seq(Byte)
      BY <1>2, <1>5, <2>3, <3>1, BytesType DEF set_field_count
    <3> HIDE DEF payload
    <3> QED BY <3>2
  <2> QED BY <1>1, <2>1, <2>2, <2>3
<1>7. MetaBytes(m) = meta_encode(Tags[m.type], m.ver, m.exp, payload)
  BY DEF MetaBytes
<1> HIDE DEF payload
<1>8. meta_decode(MetaBytes(m)) = <<rec>>
  <2>1. Byte \subseteq S /\ Tags[m.type] \in S
    OBVIOUS
  <2>2. m.ver \in Word(WordBytes) /\ m.exp \in Word(WordBytes)
    BY DEF MetaFits
  <2> HIDE DEF S
  <2> QED BY <1>6, <1>7, <2>1, <2>2, MetaParses
<1>9. rec.tag = Tags[m.type] /\ rec.version = m.ver /\ rec.expire = m.exp /\ rec.payload = payload
  OBVIOUS
<1> HIDE DEF rec
<1>10. ASSUME m.type \in {"hash", "set", "zset"} PROVE field_count(rec) = m.cnt
  <2>1. rec.tag \in {Tags.hash, Tags.set, Tags.zset}
    BY <1>9, <1>10 DEF Tags
  <2>2. m.cnt \in Word(LenBytes)
    BY DEF MetaFits
  <2>3. rec.payload = set_field_count(m.cnt)
    BY <1>5, <1>9, <1>10
  <2> QED BY <2>1, <2>2, <2>3, CountReadsBack
<1>11. ASSUME m.type = "list"
       PROVE  list_bounds(rec) = <<LIST_INITIAL_INDEX + m.head, LIST_INITIAL_INDEX + m.tail>>
  <2>1. PICK h, t : h = LIST_INITIAL_INDEX + m.head /\ t = LIST_INITIAL_INDEX + m.tail
    OBVIOUS
  <2>2. h \in Word(WordBytes) /\ t \in Word(WordBytes)
    BY <2>1 DEF MetaFits
  <2>3. rec.tag = Tags.list /\ rec.payload = set_list_bounds(h, t)
    BY <1>4, <1>9, <1>11, <2>1
  <2>4. list_bounds(rec) = <<h, t>>
    BY <2>2, <2>3, BoundsReadBack
  <2> QED BY <2>1, <2>4
<1>12. <<rec>> # <<>> /\ <<rec>>[1] = rec
  OBVIOUS
<1> QED BY <1>3, <1>8, <1>9, <1>10, <1>11, <1>12, Zenon DEF Malformed

(* What a command or the rebuild reads back from a metadata value is what    *)
(* meta_encode was given, in every reachable state in which the numbers fit. *)
THEOREM MetadataReadsBack == Spec => [](WordsFit => MetaReadsBack)
<1>1. TypeOK => (WordsFit => MetaReadsBack)
  <2> SUFFICES ASSUME TypeOK, WordsFit, NEW k \in Keys, metas[k] # NoMeta
               PROVE  LET m == metas[k]
                          read == meta_decode(MetaBytes(m))
                      IN  /\ read # Malformed
                          /\ <<read[1].tag, read[1].version, read[1].expire>>
                                = <<Tags[m.type], m.ver, m.exp>>
                          /\ m.type = "string" => read[1].payload = <<m.val>>
                          /\ m.type \in {"hash", "set", "zset"} => field_count(read[1]) = m.cnt
                          /\ m.type = "list" =>
                                list_bounds(read[1]) =
                                    <<LIST_INITIAL_INDEX + m.head, LIST_INITIAL_INDEX + m.tail>>
    BY Zenon DEF MetaReadsBack
  <2>1. metas[k] \in Metas
    BY DEF TypeOK, DiskTypeOK
  <2>2. MetaFits(metas[k])
    BY DEF WordsFit
  <2> QED BY <2>1, <2>2, MetaBack
<1> QED BY <1>1, TypeCorrect, PTL

-----------------------------------------------------------------------------
(* The bytes of the records. *)

LEMMA NameOwner ==
    ASSUME NEW name \in Namings, NEW k \in Keys, NEW v \in Word(WordBytes)
    PROVE  Owner(name[k], v) /\ name[k] \in Seq(Byte)
<1>1. name[k] \in RawKeys
  BY DEF Namings
<1>2. name[k] \in Seq(Byte) /\ Len(name[k]) < Power[LenBytes]
  BY <1>1, RawKeysAssumption DEF Byte
<1>3. PICK n, p : n = Len(name[k]) /\ p = Power[LenBytes]
  OBVIOUS
<1>4. n \in Nat /\ p \in Nat /\ n < p
  BY <1>2, <1>3, PowerType, WidthsAssumption
<1>5. n \in 0 .. p - 1
  BY <1>4
<1> QED BY <1>2, <1>3, <1>5 DEF Owner, Word

LEMMA NameInjective ==
    ASSUME NEW name \in Namings, NEW k \in Keys, NEW l \in Keys, name[k] = name[l]
    PROVE  k = l
  BY DEF Namings

LEMMA FieldBytes ==
    ASSUME NEW f, LIST_INITIAL_INDEX + f \in Word(WordBytes)
    PROVE  field_bytes(f) \in Seq(Byte) /\ Len(field_bytes(f)) = WordBytes
<1>1. PICK n : n = LIST_INITIAL_INDEX + f
  OBVIOUS
<1>2. WordBytes \in Nat
  BY WidthsAssumption
<1>3. n \in Nat
  BY <1>1, <1>2, TopZero
<1>4. to_be_bytes(n, WordBytes) \in Seq(Byte) /\ Len(to_be_bytes(n, WordBytes)) = WordBytes
  BY <1>2, <1>3, BytesType
<1> QED BY <1>1, <1>4 DEF field_bytes, list_index_field

\* What follows the version in an index record.
suffix_bytes(r) == to_be_bytes(r.score, WordBytes) \o field_bytes(r.member)

LEMMA SuffixBytes ==
    ASSUME NEW r, IdxFits(r)
    PROVE  suffix_bytes(r) \in Seq(Byte)
<1>1. WordBytes \in Nat
  BY WidthsAssumption
<1>2. r.score \in Nat
  BY <1>1, TopZero DEF IdxFits
<1>3. to_be_bytes(r.score, WordBytes) \in Seq(Byte)
  BY <1>1, <1>2, BytesType
<1>4. field_bytes(r.member) \in Seq(Byte)
  BY FieldBytes DEF IdxFits
<1> QED BY <1>3, <1>4, ConcatAt DEF suffix_bytes

LEMMA SubForm ==
    ASSUME NEW name \in Namings, NEW r, r.key \in Keys, SubFits(r)
    PROVE  /\ SubBytes(name, r) = versioned_prefix(SUBKEY_PREFIX, name[r.key], r.ver) \o field_bytes(r.field)
           /\ Owner(name[r.key], r.ver) /\ field_bytes(r.field) \in Seq(Byte)
<1>1. Owner(name[r.key], r.ver)
  BY NameOwner DEF SubFits
<1>2. field_bytes(r.field) \in Seq(Byte)
  BY FieldBytes DEF SubFits
<1> QED BY <1>1, <1>2 DEF SubBytes, subkey, subkey_prefix

LEMMA IdxForm ==
    ASSUME NEW name \in Namings, NEW r, r.key \in Keys, IdxFits(r)
    PROVE  /\ IdxBytes(name, r) = versioned_prefix(ZSCORE_PREFIX, name[r.key], r.ver) \o suffix_bytes(r)
           /\ Owner(name[r.key], r.ver) /\ suffix_bytes(r) \in Seq(Byte)
<1>1. Owner(name[r.key], r.ver)
  BY NameOwner DEF IdxFits
<1>2. suffix_bytes(r) \in Seq(Byte)
  BY SuffixBytes
<1>3. PICK p, s, f : /\ p = versioned_prefix(ZSCORE_PREFIX, name[r.key], r.ver)
                     /\ s = to_be_bytes(r.score, WordBytes) /\ f = field_bytes(r.member)
  OBVIOUS
<1>4. p \in Seq(Byte)
  BY <1>1, <1>3, TagType, VersionedType
<1>5. s \in Seq(Byte)
  <2>1. WordBytes \in Nat
    BY WidthsAssumption
  <2>2. r.score \in Nat
    BY <2>1, TopZero DEF IdxFits
  <2> QED BY <2>1, <2>2, <1>3, BytesType
<1>6. f \in Seq(Byte)
  BY <1>3, FieldBytes DEF IdxFits
<1>7. (p \o s) \o f = p \o (s \o f)
  BY <1>4, <1>5, <1>6, Assoc
<1>8. IdxBytes(name, r) = (p \o s) \o f
  BY <1>3 DEF IdxBytes, zscore_key, zscore_prefix
<1> QED BY <1>1, <1>2, <1>3, <1>7, <1>8 DEF suffix_bytes

LEMMA MetaForm ==
    ASSUME NEW name \in Namings, NEW k \in Keys
    PROVE  /\ meta_key(name[k]) \in Seq(Byte) /\ meta_key(name[k]) # <<>>
           /\ meta_key(name[k])[1] = META_PREFIX
           /\ meta_key(name[k]) = <<META_PREFIX>> \o name[k] /\ name[k] \in Seq(Byte)
<1>1. name[k] \in Seq(Byte)
  <2>1. name[k] \in RawKeys
    BY DEF Namings
  <2> QED BY <2>1, RawKeysAssumption DEF Byte
<1>2. PICK X, u : X = <<META_PREFIX>> /\ u = name[k]
  OBVIOUS
<1>3. X \in Seq(Byte) /\ Len(X) = 1 /\ X[1] = META_PREFIX
  BY <1>2, TagType
<1>4. /\ X \o u \in Seq(Byte) /\ Len(X \o u) = Len(X) + Len(u) /\ Len(u) \in Nat
      /\ \A i \in 1..Len(X) : (X \o u)[i] = X[i]
  BY <1>1, <1>2, <1>3, ConcatAt
<1>5. X \o u # <<>>
  BY <1>3, <1>4
<1> QED BY <1>1, <1>2, <1>3, <1>4, <1>5 DEF meta_key

\* A versioned record and its tag, as the filter sees them.
LEMMA RecordForm ==
    ASSUME NEW t \in Byte, NEW u, NEW v, Owner(u, v), NEW rest \in Seq(Byte)
    PROVE  LET raw == versioned_prefix(t, u, v) \o rest IN
           raw \in Seq(Byte) /\ raw # <<>> /\ raw[1] = t /\ Len(raw) \in Nat
<1>1. PICK p : p = versioned_prefix(t, u, v)
  OBVIOUS
<1>2. p \in Seq(Byte) /\ Len(p) = 1 + LenBytes + Len(u) + WordBytes /\ p[1] = t
  BY <1>1, VersionedType
<1>3. LenBytes \in Nat /\ WordBytes \in Nat /\ Len(u) \in Nat
  BY TopZero, WidthsAssumption DEF Owner
<1>4. /\ p \o rest \in Seq(Byte) /\ Len(p \o rest) = Len(p) + Len(rest) /\ Len(rest) \in Nat
      /\ \A i \in 1..Len(p) : (p \o rest)[i] = p[i]
  BY <1>2, ConcatAt
<1>5. 1 \in 1..Len(p) /\ Len(p) + Len(rest) # 0
  BY <1>2, <1>3, <1>4
<1>6. p \o rest # <<>>
  BY <1>4, <1>5
<1> QED BY <1>1, <1>2, <1>4, <1>5, <1>6

\* The filter reads the owner and the version of a versioned record.
LEMMA OwnerReadsBack ==
    ASSUME NEW t \in {SUBKEY_PREFIX, ZSCORE_PREFIX}, NEW u, NEW v, Owner(u, v), NEW rest \in Seq(Byte)
    PROVE  parse_owner_version(versioned_prefix(t, u, v) \o rest) = <<u, v>>
<1>1. PICK raw : raw = versioned_prefix(t, u, v) \o rest
  OBVIOUS
<1>2. t \in Byte
  BY TagType
<1>3. raw # <<>> /\ raw[1] = t
  BY <1>1, <1>2, RecordForm
<1>4. parse_versioned(raw, t) = <<u, v, rest>>
  BY <1>1, <1>2, ParsesBack
<1>5. PICK parsed : parsed = parse_versioned(raw, t)
  OBVIOUS
<1>6. parsed # Malformed /\ parsed[1] = u /\ parsed[2] = v
  BY <1>4, <1>5 DEF Malformed
<1>7. parse_owner_version(raw) = <<parsed[1], parsed[2]>>
  BY <1>3, <1>5, <1>6, Zenon DEF parse_owner_version
<1> QED BY <1>1, <1>6, <1>7

LEMMA KeepsByOwner ==
    ASSUME NEW name \in Namings, NEW k \in Keys, NEW v, NEW raw,
           parse_owner_version(raw) = <<name[k], v>>
    PROVE  should_keep_bytes(name, raw) <=> versions[k] # 0 /\ versions[k] = v
<1>1. PICK parsed : parsed = parse_owner_version(raw)
  OBVIOUS
<1>2. parsed # Malformed /\ parsed[1] = name[k] /\ parsed[2] = v
  BY <1>1 DEF Malformed
<1>3. (\E l \in Keys : name[l] = parsed[1] /\ versions[l] # 0 /\ versions[l] = parsed[2])
         <=> versions[k] # 0 /\ versions[k] = v
  BY <1>2, NameInjective
<1> QED BY <1>1, <1>2, <1>3, Zenon DEF should_keep_bytes

LEMMA FilterReads == TypeOK /\ WordsFit => FilterReadsOwner
<1> SUFFICES ASSUME TypeOK, WordsFit, NEW name \in Namings
             PROVE  /\ \A r \in subs : should_keep_bytes(name, SubBytes(name, r)) <=> should_keep(r)
                    /\ \A r \in index : should_keep_bytes(name, IdxBytes(name, r)) <=> should_keep(r)
                    /\ \A k \in Keys : should_keep_bytes(name, meta_key(name[k]))
  BY DEF FilterReadsOwner
<1>1. ASSUME NEW r \in subs PROVE should_keep_bytes(name, SubBytes(name, r)) <=> should_keep(r)
  <2>1. r.key \in Keys /\ SubFits(r)
    BY DEF TypeOK, DiskTypeOK, SubRecs, WordsFit
  <2>2. /\ SubBytes(name, r) = versioned_prefix(SUBKEY_PREFIX, name[r.key], r.ver) \o field_bytes(r.field)
        /\ Owner(name[r.key], r.ver) /\ field_bytes(r.field) \in Seq(Byte)
    BY <2>1, SubForm
  <2>3. parse_owner_version(SubBytes(name, r)) = <<name[r.key], r.ver>>
    BY <2>2, OwnerReadsBack
  <2> QED BY <2>1, <2>3, KeepsByOwner DEF should_keep
<1>2. ASSUME NEW r \in index PROVE should_keep_bytes(name, IdxBytes(name, r)) <=> should_keep(r)
  <2>1. r.key \in Keys /\ IdxFits(r)
    BY DEF TypeOK, DiskTypeOK, IdxRecs, WordsFit
  <2>2. /\ IdxBytes(name, r) = versioned_prefix(ZSCORE_PREFIX, name[r.key], r.ver) \o suffix_bytes(r)
        /\ Owner(name[r.key], r.ver) /\ suffix_bytes(r) \in Seq(Byte)
    BY <2>1, IdxForm
  <2>3. parse_owner_version(IdxBytes(name, r)) = <<name[r.key], r.ver>>
    BY <2>2, OwnerReadsBack
  <2> QED BY <2>1, <2>3, KeepsByOwner DEF should_keep
<1>3. ASSUME NEW k \in Keys PROVE should_keep_bytes(name, meta_key(name[k]))
  <2>1. PICK raw : raw = meta_key(name[k])
    OBVIOUS
  <2>2. raw # <<>> /\ raw[1] = META_PREFIX
    BY <2>1, MetaForm
  <2>3. raw[1] \notin {SUBKEY_PREFIX, ZSCORE_PREFIX}
    BY <2>2 DEF META_PREFIX, SUBKEY_PREFIX, ZSCORE_PREFIX
  <2>4. parse_owner_version(raw) = Malformed
    BY <2>2, <2>3 DEF parse_owner_version
  <2> QED BY <2>1, <2>4 DEF should_keep_bytes
<1> QED BY <1>1, <1>2, <1>3

(* The compaction filter, which sees only bytes, decides about every record  *)
(* by its true owner and version, however the user keys look.                *)
THEOREM FilterReadsTheOwner == Spec => [](WordsFit => FilterReadsOwner)
  BY FilterReads, TypeCorrect, PTL

-----------------------------------------------------------------------------
(* One record per subkey. *)

LEMMA DistinctSubsets ==
    ASSUME NEW S, NEW I, Distinct(S, I), NEW T, T \subseteq S, NEW J, J \subseteq I
    PROVE  Distinct(T, J)
<1>1. IsFiniteSet(T) /\ IsFiniteSet(J)
  BY FS_Subset DEF Distinct
<1> QED BY <1>1 DEF Distinct, OneRecord

LEMMA DistinctNone == Distinct({}, {}) /\ Distinct(NoBatch.puts, NoBatch.iputs)
<1>1. Distinct({}, {})
  BY FS_EmptySet DEF Distinct, OneRecord
<1>2. NoBatch.puts = {} /\ NoBatch.iputs = {}
  BY DEF NoBatch
<1> QED BY <1>1, <1>2

LEMMA WriteDistinct ==
    ASSUME NEW k, NEW b, write(k, b), Distinct(subs, index), Distinct(b.puts, b.iputs)
    PROVE  Distinct(subs', index')
<1> DEFINE kept == {r \in subs : \A d \in b.dels \cup b.puts : ~SameSub(r, d)}
<1>1. subs' = kept \cup b.puts /\ index' = (index \ b.idels) \cup b.iputs
  BY DEF write
<1>2. IsFiniteSet(kept) /\ IsFiniteSet(index \ b.idels)
  BY FS_Subset DEF Distinct
<1>3. IsFiniteSet(kept \cup b.puts) /\ IsFiniteSet((index \ b.idels) \cup b.iputs)
  <2> HIDE DEF kept
  <2> QED BY <1>2, FS_Union DEF Distinct
<1>4. OneRecord(kept \cup b.puts)
  BY DEF Distinct, OneRecord, SameSub
<1> HIDE DEF kept
<1> QED BY <1>1, <1>3, <1>4 DEF Distinct

LEMMA BatchDistinct ==
    ASSUME NEW A, IsFiniteSet(A), NEW P, NEW f \in [A -> P], \A r \in P : \E i \in A : f[i] = r,
           OnePer(P)
    PROVE  IsFiniteSet(P) /\ OneRecord(P)
<1>1. IsFiniteSet(P)
  BY ImageFinite
<1> QED BY <1>1 DEF OnePer, OneRecord, SameSub

LEMMA WriteOf ==
    ASSUME NEW m, NEW P, NEW Q, NEW X, NEW p, p = Write(Puts(m, P, Q, X))
    PROVE  p.batch.puts = P /\ p.batch.iputs = Q
  BY DEF Write, Puts

LEMMA HsetDistinct ==
    ASSUME NEW k, NEW m, NEW a \in hset_args, NEW p, p = hset(k, m, a)
    PROVE  Distinct(p.batch.puts, p.batch.iputs)
<1> DEFINE final == {i \in DOMAIN a : \A j \in DOMAIN a : j > i => a[j].field # a[i].field}
           g(i) == Sub(k, m.ver, a[i].field, a[i].val)
           P == {g(i) : i \in final}
           Pair == [field : Fields, val : Values]
<1>1. a \in Seq(Pair)
  BY DEF hset_args, NonEmptySeq
<1>2. DOMAIN a = 1 .. Len(a) /\ Len(a) \in Nat
  <2> HIDE DEF Pair
  <2> QED BY <1>1
<1>3. IsFiniteSet(final)
  <2>1. IsFiniteSet(DOMAIN a)
    BY <1>2, FS_Interval
  <2> QED BY <2>1, FS_Subset
<1>4. \A i, j \in final : a[i].field = a[j].field => i = j
  BY <1>2
<1>5. \A i : g(i).field = a[i].field
  BY DEF Sub
<1>6. \E mm : p = Write(Puts(mm, P, {}, {}))
  BY Zenon DEF hset
<1> HIDE DEF final, g
<1>7. OnePer(P)
  BY <1>4, <1>5 DEF OnePer
<1>8. [i \in final |-> g(i)] \in [final -> P] /\ \A r \in P : \E i \in final : [j \in final |-> g(j)][i] = r
  OBVIOUS
<1> HIDE DEF P
<1>9. IsFiniteSet(P) /\ OneRecord(P)
  <2>1. PICK f \in [final -> P] : \A r \in P : \E i \in final : f[i] = r
    BY <1>8
  <2> QED BY <1>3, <1>7, <2>1, BatchDistinct
<1>10. p.batch.puts = P /\ p.batch.iputs = {}
  BY <1>6, WriteOf
<1> QED BY <1>9, <1>10, FS_EmptySet DEF Distinct

LEMMA SaddDistinct ==
    ASSUME NEW k, NEW m, NEW a \in sadd_args, NEW p, p = sadd(k, m, a)
    PROVE  Distinct(p.batch.puts, p.batch.iputs)
<1> DEFINE all == {a[i] : i \in DOMAIN a}
           added == {x \in all : ~has(k, m.ver, x)}
           g(x) == Sub(k, m.ver, x, NoVal)
           P == {g(x) : x \in added}
<1>1. a \in Seq(Fields)
  BY DEF sadd_args, NonEmptySeq
<1>2. IsFiniteSet(added)
  <2>1. IsFiniteSet(all)
    BY <1>1, SeqImage
  <2>2. added \subseteq all
    OBVIOUS
  <2> HIDE DEF all, added
  <2> QED BY <2>1, <2>2, FS_Subset
<1>3. p = NoWrite \/ \E mm : p = Write(Puts(mm, P, {}, {}))
  BY Zenon DEF sadd
<1>4. \A x : g(x).field = x
  BY DEF Sub
<1> HIDE DEF added, g, all
<1>5. OnePer(P)
  BY <1>4 DEF OnePer
<1>6. [i \in added |-> g(i)] \in [added -> P] /\ \A r \in P : \E i \in added : [j \in added |-> g(j)][i] = r
  OBVIOUS
<1> HIDE DEF P
<1>7. IsFiniteSet(P) /\ OneRecord(P)
  <2>1. PICK f \in [added -> P] : \A r \in P : \E i \in added : f[i] = r
    BY <1>6
  <2> QED BY <1>2, <1>5, <2>1, BatchDistinct
<1>8. CASE p = NoWrite
  BY <1>8, DistinctNone DEF NoWrite
<1>9. CASE \E mm : p = Write(Puts(mm, P, {}, {}))
  <2>1. p.batch.puts = P /\ p.batch.iputs = {}
    BY <1>9, WriteOf
  <2> QED BY <1>7, <2>1, FS_EmptySet DEF Distinct
<1> QED BY <1>3, <1>8, <1>9

LEMMA ZaddDistinct ==
    ASSUME NEW k, NEW m, NEW a \in zadd_args, NEW p, p = zadd(k, m, a)
    PROVE  Distinct(p.batch.puts, p.batch.iputs)
<1> DEFINE E == effective(a)
           sub(q) == Sub(k, m.ver, q.member, encode_score(q.score))
           idx(q) == Idx(k, m.ver, encode_score(q.score), q.member)
<1>1. IsFiniteSet(E) /\ \A x, y \in E : x.member = y.member => x = y
  BY EffectivePairs
<1>2. p = NoWrite \/ \E mm, X : \E put \in SUBSET E :
                        p = Write(Puts(mm, {sub(q) : q \in put}, {idx(q) : q \in put}, X))
  <2> DEFINE old(q) == Stored(k, m.ver, q.member)
             added == {q \in E : old(q) = {}}
             moved == {q \in E : \E r \in old(q) : ~same_score(r.val, q.score)}
             put == added \cup moved
             mm == [m EXCEPT !.cnt = m.cnt + Cardinality(added)]
             X == stale_index(k, m.ver, moved)
  <2>1. p = IF undecodable(k, m.ver, {q.member : q \in E}) \/ put = {} THEN NoWrite
            ELSE Write(Puts(mm, {sub(q) : q \in put}, {idx(q) : q \in put}, X))
    BY Zenon DEF zadd
  <2>2. put \in SUBSET E
    OBVIOUS
  <2> HIDE DEF E, sub, idx, put, mm, X
  <2> QED BY <2>1, <2>2, Zenon
<1>3. \A q : sub(q).field = q.member
  BY DEF Sub
<1> HIDE DEF sub, idx, E
<1>4. CASE p = NoWrite
  BY <1>4, DistinctNone DEF NoWrite
<1>5. CASE \E mm, X : \E put \in SUBSET E :
              p = Write(Puts(mm, {sub(q) : q \in put}, {idx(q) : q \in put}, X))
  <2>1. PICK mm, X : \E put \in SUBSET E :
              p = Write(Puts(mm, {sub(q) : q \in put}, {idx(q) : q \in put}, X))
    BY <1>5
  <2>2. PICK put \in SUBSET E :
              p = Write(Puts(mm, {sub(q) : q \in put}, {idx(q) : q \in put}, X))
    BY <2>1
  <2> DEFINE P == {sub(q) : q \in put}
             Q == {idx(q) : q \in put}
  <2>3. IsFiniteSet(put)
    BY <1>1, FS_Subset
  <2>4. OnePer(P)
    BY <1>1, <1>3 DEF OnePer
  <2>5. [i \in put |-> sub(i)] \in [put -> P] /\ \A r \in P : \E i \in put : [j \in put |-> sub(j)][i] = r
    OBVIOUS
  <2>6. [i \in put |-> idx(i)] \in [put -> Q] /\ \A r \in Q : \E i \in put : [j \in put |-> idx(j)][i] = r
    OBVIOUS
  <2>7. p = Write(Puts(mm, P, Q, X))
    BY <2>2
  <2> HIDE DEF P, Q
  <2>8. IsFiniteSet(P) /\ OneRecord(P)
    <3>1. PICK f \in [put -> P] : \A r \in P : \E i \in put : f[i] = r
      BY <2>5
    <3> QED BY <2>3, <2>4, <3>1, BatchDistinct
  <2>9. IsFiniteSet(Q)
    <3>1. PICK f \in [put -> Q] : \A r \in Q : \E i \in put : f[i] = r
      BY <2>6
    <3> QED BY <2>3, <3>1, ImageFinite
  <2>10. p.batch.puts = P /\ p.batch.iputs = Q
    BY <2>7, WriteOf
  <2> QED BY <2>8, <2>9, <2>10 DEF Distinct
<1> QED BY <1>2, <1>4, <1>5

LEMMA PushDistinct ==
    ASSUME NEW k, NEW m \in Metas, NEW a \in push_args, NEW left \in BOOLEAN,
           NEW p, p = push(k, m, a, left)
    PROVE  Distinct(p.batch.puts, p.batch.iputs)
<1> DEFINE n == Len(a)
           at(i) == IF left THEN m.head - i ELSE m.tail + i - 1
           g(i) == Sub(k, m.ver, at(i), a[i])
           N == 1..n
           P == {g(i) : i \in N}
<1>1. n \in Nat /\ m.head \in Int /\ m.tail \in Int
  <2>1. a \in Seq(Values)
    BY DEF push_args, NonEmptySeq
  <2> QED BY <2>1 DEF Metas
<1>2. IsFiniteSet(N)
  BY <1>1, FS_Interval
<1>3. \A i, j \in N : at(i) = at(j) => i = j
  BY <1>1
<1>4. \A i : g(i).field = at(i)
  BY DEF Sub
<1>5. \E mm : p = Write(Puts(mm, P, {}, {}))
  BY Zenon DEF push
<1> HIDE DEF at, g, N
<1>6. OnePer(P)
  BY <1>3, <1>4 DEF OnePer
<1>7. [i \in N |-> g(i)] \in [N -> P] /\ \A r \in P : \E i \in N : [j \in N |-> g(j)][i] = r
  OBVIOUS
<1> HIDE DEF P
<1>8. IsFiniteSet(P) /\ OneRecord(P)
  <2>1. PICK f \in [N -> P] : \A r \in P : \E i \in N : f[i] = r
    BY <1>7
  <2> QED BY <1>2, <1>6, <2>1, BatchDistinct
<1>9. p.batch.puts = P /\ p.batch.iputs = {}
  BY <1>5, WriteOf
<1> QED BY <1>8, <1>9, FS_EmptySet DEF Distinct

LEMMA RemoverDistinct ==
    ASSUME NEW op \in Removers, NEW k, NEW m, NEW a, NEW p, p = Plan(op, k, m, a)
    PROVE  Distinct(p.batch.puts, p.batch.iputs)
<1>1. ASSUME NEW D, NEW X, NEW mm,
             \/ p = NoWrite \/ p = WriteLast(Dels(D, X))
             \/ p = Write([Dels(D, X) EXCEPT !.mput = mm])
      PROVE  Distinct(p.batch.puts, p.batch.iputs)
  <2>1. p.batch.puts = {} /\ p.batch.iputs = {}
    BY <1>1 DEF NoWrite, NoBatch, WriteLast, Write, Dels
  <2> QED BY <2>1, DistinctNone
<1>2. ASSUME NEW n, NEW D, NEW X, p = Shrink(m, n, Dels(D, X))
      PROVE  Distinct(p.batch.puts, p.batch.iputs)
  <2> DEFINE left == IF n > m.cnt THEN 0 ELSE m.cnt - n
             mm == [m EXCEPT !.cnt = left]
  <2>1. p = CASE n = 0 -> NoWrite
              [] n > 0 /\ left = 0 -> WriteLast(Dels(D, X))
              [] OTHER -> Write([Dels(D, X) EXCEPT !.mput = mm])
    BY <1>2 DEF Shrink
  <2> HIDE DEF left, mm
  <2>2. PICK l : l = mm
    OBVIOUS
  <2>3. \/ p = NoWrite \/ p = WriteLast(Dels(D, X))
        \/ p = Write([Dels(D, X) EXCEPT !.mput = l])
    BY <2>1, <2>2
  <2> QED BY <1>1, <2>3
<1>3. p = NoWrite => Distinct(p.batch.puts, p.batch.iputs)
  BY DistinctNone DEF NoWrite
<1>4. CASE op = "hdel"
  <2>1. \E n, D : p = Shrink(m, n, Dels(D, {}))
    BY <1>4 DEF Plan, hdel
  <2> QED BY <1>2, <2>1
<1>5. CASE op = "srem"
  <2>1. \E n, D : p = Shrink(m, n, Dels(D, {}))
    BY <1>5 DEF Plan, srem
  <2> QED BY <1>2, <2>1
<1>6. CASE op = "zrem"
  <2>1. p = NoWrite \/ \E n, D, X : p = Shrink(m, n, Dels(D, X))
    BY <1>6 DEF Plan, zrem
  <2> QED BY <1>2, <1>3, <2>1
<1>7. CASE op \in {"lpop", "rpop"}
  <2>1. PICK mm, D : \/ p = NoWrite \/ p = WriteLast(Dels(D, {}))
                     \/ p = Write([Dels(D, {}) EXCEPT !.mput = mm])
    BY <1>7 DEF Plan, pop
  <2> QED BY <1>1, <2>1
<1> QED BY <1>4, <1>5, <1>6, <1>7 DEF Removers

LEMMA PlanDistinct ==
    ASSUME NEW op \in Creators \cup Removers, NEW k, NEW m \in Metas, NEW a \in Args[op],
           NEW p, p = Plan(op, k, m, a)
    PROVE  Distinct(p.batch.puts, p.batch.iputs)
<1>1. CASE op = "hset"
  BY <1>1, HsetDistinct, ArgsAssumption DEF Plan
<1>2. CASE op = "sadd"
  BY <1>2, SaddDistinct, ArgsAssumption DEF Plan
<1>3. CASE op = "zadd"
  BY <1>3, ZaddDistinct, ArgsAssumption DEF Plan
<1>4. CASE op = "lpush"
  BY <1>4, PushDistinct, ArgsAssumption DEF Plan
<1>5. CASE op = "rpush"
  BY <1>5, PushDistinct, ArgsAssumption DEF Plan
<1>6. CASE op \in Removers
  BY <1>6, RemoverDistinct
<1> QED BY <1>1, <1>2, <1>3, <1>4, <1>5, <1>6 DEF Creators

(* The steps keep one record per subkey. *)
LEMMA NextRecords == TypeInv /\ RecordsInv /\ [Next]_vars => RecordsInv'
<1> SUFFICES ASSUME TypeInv, RecordsInv, [Next]_vars PROVE RecordsInv'
  OBVIOUS
<1>0. /\ Distinct(subs, index) /\ \A t \in Threads : Distinct(wb[t].puts, wb[t].iputs)
      /\ wb \in [Threads -> Batches]
  BY DEF RecordsInv, TypeInv, TypeOK, ThreadsTypeOK
<1>1. ASSUME NEW t \in Threads, NEW b, Distinct(b.puts, b.iputs), wb' = [wb EXCEPT ![t] = b]
      PROVE  \A u \in Threads : Distinct(wb'[u].puts, wb'[u].iputs)
  <2>1. \A u \in Threads : wb'[u] = IF u = t THEN b ELSE wb[u]
    BY <1>0, <1>1
  <2> QED BY <1>0, <1>1, <2>1
<1>2. ASSUME NEW t \in Threads, Finish(t)
      PROVE  \A u \in Threads : Distinct(wb'[u].puts, wb'[u].iputs)
  BY <1>1, <1>2, DistinctNone DEF Finish
<1>3. wb' = wb => \A u \in Threads : Distinct(wb'[u].puts, wb'[u].iputs)
  BY <1>0
<1>4. UNCHANGED <<subs, index>> => Distinct(subs', index')
  BY <1>0
<1>5. ASSUME NEW t \in Threads, Start(t) PROVE RecordsInv'
  <2>1. UNCHANGED <<subs, index, wb>>
    BY <1>5 DEF Start, Begin, disk
  <2> QED BY <1>3, <1>4, <2>1 DEF RecordsInv
<1>6. ASSUME NEW t \in Threads, LoadMissing(t) \/ LoadExpired(t) \/ LoadFound(t) \/ ForgetVersion(t)
      PROVE  RecordsInv'
  <2>1. UNCHANGED <<subs, index>> /\ (Finish(t) \/ UNCHANGED wb)
    BY <1>6 DEF LoadMissing, LoadExpired, LoadFound, ForgetVersion, Continue, disk
  <2> QED BY <1>2, <1>3, <1>4, <2>1 DEF RecordsInv
<1>7. ASSUME NEW t \in Threads, DeleteMeta(t) \/ PutMeta(t) PROVE RecordsInv'
  <2>1. \E b : write(Key(t), b) /\ b.puts = {} /\ b.iputs = {}
    <3>1. CASE DeleteMeta(t)
      <4> DEFINE b == [NoBatch EXCEPT !.mdel = {Key(t)}]
      <4>1. write(Key(t), b) /\ b.puts = {} /\ b.iputs = {}
        BY <3>1 DEF DeleteMeta, NoBatch
      <4> QED BY <4>1
    <3>2. CASE PutMeta(t)
      <4> DEFINE b == [NoBatch EXCEPT !.mput = mem[t]]
      <4>1. write(Key(t), b) /\ b.puts = {} /\ b.iputs = {}
        BY <3>2 DEF PutMeta, NoBatch
      <4> QED BY <4>1
    <3> QED BY <1>7, <3>1, <3>2
  <2>2. PICK b : write(Key(t), b) /\ b.puts = {} /\ b.iputs = {}
    BY <2>1
  <2>3. Distinct(b.puts, b.iputs)
    BY <2>2, DistinctNone
  <2>4. Distinct(subs', index')
    BY <1>0, <2>2, <2>3, WriteDistinct
  <2>5. Finish(t) \/ UNCHANGED wb
    BY <1>7 DEF DeleteMeta, PutMeta
  <2> QED BY <1>2, <1>3, <2>4, <2>5 DEF RecordsInv
<1>8. ASSUME NEW t \in Threads, Overwrite(t) \/ Alloc(t) \/ Register(t) PROVE RecordsInv'
  <2>1. UNCHANGED <<subs, index, wb>>
    BY <1>8 DEF Overwrite, Alloc, Drawn, Register, disk
  <2> QED BY <1>3, <1>4, <2>1 DEF RecordsInv
<1>9. ASSUME NEW t \in Threads, Exec(t) PROVE RecordsInv'
  <2>1. UNCHANGED <<subs, index>>
    BY <1>9 DEF Exec, disk
  <2>2. PICK p : p = Plan(cmd[t].op, Key(t), mem[t], cmd[t].args)
    OBVIOUS
  <2>3. Finish(t) \/ wb' = [wb EXCEPT ![t] = p.batch]
    BY <1>9, <2>2, Zenon DEF Exec
  <2>4. /\ cmd[t].op \in Creators \cup Removers /\ mem[t] \in Metas
        /\ cmd[t].args \in Args[cmd[t].op]
    BY <1>9 DEF Exec, TypeInv, TypeOK, ControlOK, Control, ThreadsTypeOK, Ops
  <2>5. Distinct(p.batch.puts, p.batch.iputs)
    BY <2>2, <2>4, PlanDistinct
  <2> QED BY <1>1, <1>2, <1>4, <2>1, <2>3, <2>5 DEF RecordsInv
<1>10. ASSUME NEW t \in Threads, Commit(t) \/ FlushWrite(t) PROVE RecordsInv'
  <2>1. \E k : write(k, wb[t])
    BY <1>10 DEF Commit, FlushWrite
  <2>2. Distinct(subs', index')
    BY <1>0, <2>1, WriteDistinct
  <2>3. Finish(t) \/ wb' = [wb EXCEPT ![t] = NoBatch]
    BY <1>10 DEF Commit, FlushWrite
  <2> QED BY <1>1, <1>2, <2>2, <2>3, DistinctNone DEF RecordsInv
<1>11. ASSUME NEW t \in Threads, FlushMeta(t) \/ FlushSub(t) \/ FlushIdx(t) PROVE RecordsInv'
  <2>1. UNCHANGED <<subs, index>>
    BY <1>11 DEF FlushMeta, FlushSub, FlushIdx, disk
  <2>2. \A u \in Threads : wb'[u].puts = wb[u].puts /\ wb'[u].iputs = wb[u].iputs
    BY <1>0, <1>11 DEF FlushMeta, FlushSub, FlushIdx, Batches
  <2> QED BY <1>0, <1>4, <2>1, <2>2 DEF RecordsInv
<1>12. ASSUME NEW t \in Threads, FlushClear(t) \/ WriteFails(t) PROVE RecordsInv'
  <2>1. UNCHANGED <<subs, index>> /\ Finish(t)
    BY <1>12 DEF FlushClear, WriteFails, disk
  <2> QED BY <1>2, <1>4, <2>1 DEF RecordsInv
<1>13. CASE CompactionDrop \/ compact
  <2>1. subs' \subseteq subs /\ index' \subseteq index /\ UNCHANGED wb
    BY <1>13 DEF CompactionDrop, compact, local
  <2>2. Distinct(subs', index')
    BY <1>0, <2>1, DistinctSubsets
  <2> QED BY <1>3, <2>1, <2>2 DEF RecordsInv
<1>14. CASE Restart
  <2>1. UNCHANGED <<subs, index>> /\ wb' = [t \in Threads |-> NoBatch]
    BY <1>14 DEF Restart, disk
  <2> QED BY <1>4, <2>1, DistinctNone DEF RecordsInv
<1>15. CASE Boot \/ Tick \/ UNCHANGED vars
  <2>1. UNCHANGED <<subs, index, wb>>
    BY <1>15 DEF Boot, install_gc, RebuildKey, Serve, Tick, vars, disk, local
  <2> QED BY <1>3, <1>4, <2>1 DEF RecordsInv
<1> QED
  BY <1>5, <1>6, <1>7, <1>8, <1>9, <1>10, <1>11, <1>12, <1>13, <1>14, <1>15 DEF Next, Step

LEMMA InitRecords == Init => RecordsInv
<1> SUFFICES ASSUME Init PROVE RecordsInv
  OBVIOUS
<1>1. subs = {} /\ index = {} /\ wb = [t \in Threads |-> NoBatch]
  BY DEF Init
<1> QED BY <1>1, DistinctNone DEF RecordsInv

LEMMA RecordsAlong == Spec => [](TypeOK /\ RecordsInv)
<1>1. TypeInv => TypeOK
  BY DEF TypeInv
<1>2. Init => Booting
  BY DEF Init, Booting, Running
<1> QED
  BY InitType, NextType, NextBooting, InitRecords, NextRecords, <1>1, <1>2, PTL DEF Spec

-----------------------------------------------------------------------------
(* Scans. *)

\* Only records of the same tag, key and version have a versioned prefix.
LEMMA PrefixOfRecord ==
    ASSUME NEW t \in Byte, NEW u, NEW v, Owner(u, v),
           NEW s \in Byte, NEW w, NEW z, Owner(w, z), NEW x \in Seq(Byte)
    PROVE  IsPrefix(versioned_prefix(t, u, v), versioned_prefix(s, w, z) \o x)
              <=> t = s /\ u = w /\ v = z
<1>1. PICK p, q : p = versioned_prefix(t, u, v) /\ q = versioned_prefix(s, w, z) \o x
  OBVIOUS
<1>2. p \in Seq(Byte)
  BY <1>1, VersionedType
<1>3. q \in Seq(Byte) /\ q[1] = s
  BY <1>1, RecordForm
<1>4. ASSUME IsPrefix(p, q) PROVE t = s /\ u = w /\ v = z
  <2>1. PICK y \in Seq(Byte) : q = p \o y
    BY <1>2, <1>3, <1>4, PrefixSplit
  <2>2. q[1] = t
    <3>1. (versioned_prefix(t, u, v) \o y)[1] = t
      BY RecordForm
    <3> QED BY <1>1, <2>1, <3>1
  <2>3. parse_versioned(q, t) = <<u, v, y>>
    BY <1>1, <2>1, ParsesBack
  <2>4. parse_versioned(q, s) = <<w, z, x>>
    BY <1>1, ParsesBack
  <2> QED BY <1>3, <2>2, <2>3, <2>4
<1>5. ASSUME t = s, u = w, v = z PROVE IsPrefix(p, q)
  <2>1. q = p \o x
    BY <1>1, <1>5
  <2> QED BY <1>2, <2>1, PrefixItself
<1> QED BY <1>1, <1>4, <1>5

\* The first byte of a record is its tag.
LEMMA TagDecides ==
    ASSUME NEW t \in Byte, NEW q \in Seq(Byte), q # <<>>
    PROVE  IsPrefix(<<t>>, q) <=> q[1] = t
<1>1. PICK X : X = <<t>>
  OBVIOUS
<1>2. X \in Seq(Byte) /\ Len(X) = 1 /\ X[1] = t
  BY <1>1
<1>3. Len(q) \in Nat /\ Len(q) # 0
  BY EmptySeq
<1>4. IsPrefix(X, q) <=> Len(X) <= Len(q) /\ \A i \in 1..Len(X) : X[i] = q[i]
  <2>1. X \in Seq(Byte) /\ q \in Seq(Byte)
    BY <1>2
  <2> QED BY <2>1, PrefixIff
<1>5. IsPrefix(X, q) <=> X[1] = q[1]
  BY <1>2, <1>3, <1>4
<1> QED BY <1>1, <1>2, <1>5

\* What a versioned prefix starts with.
LEMMA PrefixTag ==
    ASSUME NEW t \in Byte, NEW u, NEW v, Owner(u, v), NEW q \in Seq(Byte),
           IsPrefix(versioned_prefix(t, u, v), q)
    PROVE  q[1] = t
<1>1. PICK p : p = versioned_prefix(t, u, v)
  OBVIOUS
<1>2. p \in Seq(Byte)
  BY <1>1, VersionedType
<1>3. PICK y \in Seq(Byte) : q = p \o y
  BY <1>1, <1>2, PrefixSplit
<1> QED BY <1>1, <1>3, RecordForm

LEMMA SubScanned ==
    ASSUME TypeOK, WordsFit, NEW name \in Namings, NEW r \in subs
    PROVE  /\ SubBytes(name, r) \in Seq(Byte) /\ SubBytes(name, r) # <<>>
           /\ SubBytes(name, r)[1] = SUBKEY_PREFIX
           /\ \A t \in Byte : \A k \in Keys : \A v \in Word(WordBytes) :
                 IsPrefix(versioned_prefix(t, name[k], v), SubBytes(name, r))
                    <=> t = SUBKEY_PREFIX /\ r.key = k /\ r.ver = v
<1>1. r.key \in Keys /\ SubFits(r)
  BY DEF TypeOK, DiskTypeOK, SubRecs, WordsFit
<1>2. PICK q, x : q = SubBytes(name, r) /\ x = field_bytes(r.field)
  OBVIOUS
<1>3. /\ q = versioned_prefix(SUBKEY_PREFIX, name[r.key], r.ver) \o x
      /\ Owner(name[r.key], r.ver) /\ x \in Seq(Byte)
  BY <1>1, <1>2, SubForm
<1>4. q \in Seq(Byte) /\ q # <<>> /\ q[1] = SUBKEY_PREFIX
  BY <1>3, TagType, RecordForm
<1>5. ASSUME NEW t \in Byte, NEW k \in Keys, NEW v \in Word(WordBytes)
      PROVE  IsPrefix(versioned_prefix(t, name[k], v), q) <=> t = SUBKEY_PREFIX /\ r.key = k /\ r.ver = v
  <2>1. Owner(name[k], v)
    BY NameOwner
  <2>2. IsPrefix(versioned_prefix(t, name[k], v), q)
           <=> t = SUBKEY_PREFIX /\ name[k] = name[r.key] /\ v = r.ver
    BY <1>3, <2>1, TagType, PrefixOfRecord
  <2> QED BY <1>1, <2>2, NameInjective
<1> QED BY <1>2, <1>4, <1>5

LEMMA IdxScanned ==
    ASSUME TypeOK, WordsFit, NEW name \in Namings, NEW r \in index
    PROVE  /\ IdxBytes(name, r) \in Seq(Byte) /\ IdxBytes(name, r) # <<>>
           /\ IdxBytes(name, r)[1] = ZSCORE_PREFIX
           /\ \A t \in Byte : \A k \in Keys : \A v \in Word(WordBytes) :
                 IsPrefix(versioned_prefix(t, name[k], v), IdxBytes(name, r))
                    <=> t = ZSCORE_PREFIX /\ r.key = k /\ r.ver = v
<1>1. r.key \in Keys /\ IdxFits(r)
  BY DEF TypeOK, DiskTypeOK, IdxRecs, WordsFit
<1>2. PICK q, x : q = IdxBytes(name, r) /\ x = suffix_bytes(r)
  OBVIOUS
<1>3. /\ q = versioned_prefix(ZSCORE_PREFIX, name[r.key], r.ver) \o x
      /\ Owner(name[r.key], r.ver) /\ x \in Seq(Byte)
  BY <1>1, <1>2, IdxForm
<1>4. q \in Seq(Byte) /\ q # <<>> /\ q[1] = ZSCORE_PREFIX
  BY <1>3, TagType, RecordForm
<1>5. ASSUME NEW t \in Byte, NEW k \in Keys, NEW v \in Word(WordBytes)
      PROVE  IsPrefix(versioned_prefix(t, name[k], v), q) <=> t = ZSCORE_PREFIX /\ r.key = k /\ r.ver = v
  <2>1. Owner(name[k], v)
    BY NameOwner
  <2>2. IsPrefix(versioned_prefix(t, name[k], v), q)
           <=> t = ZSCORE_PREFIX /\ name[k] = name[r.key] /\ v = r.ver
    BY <1>3, <2>1, TagType, PrefixOfRecord
  <2> QED BY <1>1, <2>2, NameInjective
<1> QED BY <1>2, <1>4, <1>5

LEMMA MetaScanned ==
    ASSUME NEW name \in Namings, NEW k \in Keys
    PROVE  /\ meta_key(name[k]) \in Seq(Byte) /\ meta_key(name[k]) # <<>>
           /\ meta_key(name[k])[1] = META_PREFIX
           /\ \A t \in Byte : \A l \in Keys : \A v \in Word(WordBytes) :
                 t # META_PREFIX => ~IsPrefix(versioned_prefix(t, name[l], v), meta_key(name[k]))
<1>1. /\ meta_key(name[k]) \in Seq(Byte) /\ meta_key(name[k]) # <<>>
      /\ meta_key(name[k])[1] = META_PREFIX
  BY MetaForm
<1>2. ASSUME NEW t \in Byte, NEW l \in Keys, NEW v \in Word(WordBytes), t # META_PREFIX,
             IsPrefix(versioned_prefix(t, name[l], v), meta_key(name[k]))
      PROVE  FALSE
  <2>1. Owner(name[l], v)
    BY NameOwner
  <2>2. meta_key(name[k])[1] = t
    BY <1>1, <1>2, <2>1, PrefixTag
  <2> QED BY <1>1, <1>2, <2>2
<1> QED BY <1>1, <1>2

LEMMA TagsDiffer ==
    META_PREFIX # SUBKEY_PREFIX /\ META_PREFIX # ZSCORE_PREFIX /\ SUBKEY_PREFIX # ZSCORE_PREFIX
  BY DEF META_PREFIX, SUBKEY_PREFIX, ZSCORE_PREFIX

MetaKeys(name) == {meta_key(name[k]) : k \in {k \in Keys : metas[k] # NoMeta}}
SubKeys(name) == {SubBytes(name, r) : r \in subs}
IdxKeys(name) == {IdxBytes(name, r) : r \in index}

\* Every key of the engine is of one of the three kinds.
LEMMA EngineSplit ==
    ASSUME TypeOK, WordsFit, NEW name \in Namings
    PROVE  /\ EngineKeys(name) = MetaKeys(name) \cup SubKeys(name) \cup IdxKeys(name)
           /\ EngineKeys(name) \subseteq Seq(Byte)
           /\ \A q \in EngineKeys(name) : q # <<>>
           /\ \A q \in MetaKeys(name) : q[1] = META_PREFIX
           /\ \A q \in SubKeys(name) : q[1] = SUBKEY_PREFIX
           /\ \A q \in IdxKeys(name) : q[1] = ZSCORE_PREFIX
<1>1. EngineKeys(name) = MetaKeys(name) \cup SubKeys(name) \cup IdxKeys(name)
  BY DEF EngineKeys, MetaKeys, SubKeys, IdxKeys
<1>2. ASSUME NEW q \in MetaKeys(name) PROVE q \in Seq(Byte) /\ q # <<>> /\ q[1] = META_PREFIX
  <2>1. PICK k \in Keys : q = meta_key(name[k])
    BY DEF MetaKeys
  <2> QED BY <2>1, MetaScanned
<1>3. ASSUME NEW q \in SubKeys(name) PROVE q \in Seq(Byte) /\ q # <<>> /\ q[1] = SUBKEY_PREFIX
  <2>1. PICK r \in subs : q = SubBytes(name, r)
    BY DEF SubKeys
  <2> QED BY <2>1, SubScanned
<1>4. ASSUME NEW q \in IdxKeys(name) PROVE q \in Seq(Byte) /\ q # <<>> /\ q[1] = ZSCORE_PREFIX
  <2>1. PICK r \in index : q = IdxBytes(name, r)
    BY DEF IdxKeys
  <2> QED BY <2>1, IdxScanned
<1> QED BY <1>1, <1>2, <1>3, <1>4

\* A scan of one tag finds all the keys of its kind.
LEMMA TagScans ==
    ASSUME TypeOK, WordsFit, NEW name \in Namings
    PROVE  /\ scan_prefix(EngineKeys(name), <<META_PREFIX>>) = MetaKeys(name)
           /\ scan_prefix(EngineKeys(name), <<SUBKEY_PREFIX>>) = SubKeys(name)
           /\ scan_prefix(EngineKeys(name), <<ZSCORE_PREFIX>>) = IdxKeys(name)
<1>1. PICK keys, M, S, I : keys = EngineKeys(name) /\ M = MetaKeys(name) /\ S = SubKeys(name) /\ I = IdxKeys(name)
  OBVIOUS
<1>2. /\ keys = M \cup S \cup I /\ keys \subseteq Seq(Byte)
      /\ \A q \in keys : q # <<>>
      /\ \A q \in M : q[1] = META_PREFIX
      /\ \A q \in S : q[1] = SUBKEY_PREFIX
      /\ \A q \in I : q[1] = ZSCORE_PREFIX
  BY <1>1, EngineSplit
<1>3. ASSUME NEW t \in Byte PROVE scan_prefix(keys, <<t>>) = {q \in keys : q[1] = t}
  <2>1. <<t>> \in Seq(Byte)
    OBVIOUS
  <2>2. PICK p : p = <<t>>
    OBVIOUS
  <2>3. scan_prefix(keys, p) = {q \in keys : IsPrefix(p, q)}
    <3>1. keys \subseteq Seq(Byte) /\ p \in Seq(Byte)
      BY <1>2, <2>1, <2>2
    <3> QED BY <3>1, ScanFinds
  <2>4. \A q \in keys : IsPrefix(p, q) <=> q[1] = t
    BY <1>2, <2>2, TagDecides
  <2> QED BY <2>2, <2>3, <2>4
<1>4. /\ {q \in keys : q[1] = META_PREFIX} = M
      /\ {q \in keys : q[1] = SUBKEY_PREFIX} = S
      /\ {q \in keys : q[1] = ZSCORE_PREFIX} = I
  BY <1>2, TagsDiffer
<1> QED BY <1>1, <1>3, <1>4, TagType

\* A scan of a versioned prefix finds the records of one structure.
LEMMA OwnerScans ==
    ASSUME TypeOK, WordsFit, NEW name \in Namings, NEW k \in Keys, NEW v \in Word(WordBytes)
    PROVE  /\ scan_prefix(EngineKeys(name), subkey_prefix(name[k], v))
                 = {SubBytes(name, r) : r \in scan(k, v)}
           /\ scan_prefix(EngineKeys(name), zscore_prefix(name[k], v))
                 = {IdxBytes(name, r) : r \in scan_index(k, v)}
<1>1. PICK keys, M, S, I : keys = EngineKeys(name) /\ M = MetaKeys(name) /\ S = SubKeys(name) /\ I = IdxKeys(name)
  OBVIOUS
<1>2. keys = M \cup S \cup I /\ keys \subseteq Seq(Byte)
  BY <1>1, EngineSplit
<1>3. ASSUME NEW t \in Byte
      PROVE  scan_prefix(keys, versioned_prefix(t, name[k], v))
                = {q \in keys : IsPrefix(versioned_prefix(t, name[k], v), q)}
  <2>1. Owner(name[k], v)
    BY NameOwner
  <2>2. versioned_prefix(t, name[k], v) \in Seq(Byte)
    BY <2>1, VersionedType
  <2> QED BY <1>2, <2>2, ScanFinds
<1>4. PICK a, b : /\ a = versioned_prefix(SUBKEY_PREFIX, name[k], v)
                  /\ b = versioned_prefix(ZSCORE_PREFIX, name[k], v)
  OBVIOUS
<1>5. \A q \in M : ~IsPrefix(a, q) /\ ~IsPrefix(b, q)
  BY <1>1, <1>4, MetaScanned, TagType, TagsDiffer DEF MetaKeys
<1>6. ASSUME NEW r \in subs
      PROVE  /\ IsPrefix(a, SubBytes(name, r)) <=> r.key = k /\ r.ver = v
             /\ ~IsPrefix(b, SubBytes(name, r))
  BY <1>4, SubScanned, TagType, TagsDiffer
<1>7. ASSUME NEW r \in index
      PROVE  /\ IsPrefix(b, IdxBytes(name, r)) <=> r.key = k /\ r.ver = v
             /\ ~IsPrefix(a, IdxBytes(name, r))
  BY <1>4, IdxScanned, TagType, TagsDiffer
<1>8. {q \in keys : IsPrefix(a, q)} = {SubBytes(name, r) : r \in scan(k, v)}
  BY <1>1, <1>2, <1>5, <1>6, <1>7 DEF SubKeys, IdxKeys, scan
<1>9. {q \in keys : IsPrefix(b, q)} = {IdxBytes(name, r) : r \in scan_index(k, v)}
  BY <1>1, <1>2, <1>5, <1>6, <1>7 DEF SubKeys, IdxKeys, scan_index
<1> QED BY <1>1, <1>3, <1>4, <1>8, <1>9, TagType DEF subkey_prefix, zscore_prefix

\* The suffix of an index record gives its score and its member back.
LEMMA SuffixReadsBack ==
    ASSUME TypeOK, WordsFit, NEW name \in Namings, NEW k \in Keys, NEW v, NEW r \in scan_index(k, v)
    PROVE  split_score_suffix(SubSeq(IdxBytes(name, r), Len(zscore_prefix(name[k], v)) + 1,
                                     Len(IdxBytes(name, r))))
              = <<r.score, field_bytes(r.member)>>
<1>1. r \in index /\ r.key = k /\ r.ver = v
  BY DEF scan_index
<1>2. r.key \in Keys /\ IdxFits(r)
  BY <1>1 DEF TypeOK, DiskTypeOK, IdxRecs, WordsFit
<1>3. PICK p, x, q : /\ p = versioned_prefix(ZSCORE_PREFIX, name[k], v)
                     /\ x = suffix_bytes(r) /\ q = IdxBytes(name, r)
  OBVIOUS
<1>4. q = p \o x /\ Owner(name[k], v) /\ x \in Seq(Byte)
  BY <1>1, <1>2, <1>3, IdxForm
<1>5. p \in Seq(Byte)
  BY <1>3, <1>4, TagType, VersionedType
<1>6. SubSeq(p \o x, Len(p) + 1, Len(p \o x)) = x
  BY <1>4, <1>5, TailOf
<1>7. PICK s, f, n : s = to_be_bytes(r.score, WordBytes) /\ f = field_bytes(r.member) /\ n = r.score
  OBVIOUS
<1>8. WordBytes \in Nat /\ n \in Word(WordBytes)
  BY <1>2, <1>7, WidthsAssumption DEF IdxFits
<1>9. s \in Seq(Byte) /\ Len(s) = WordBytes /\ from_be_bytes(s) = n
  <2>1. n \in Nat
    BY <1>8, TopZero
  <2>2. s \in Seq(Byte) /\ Len(s) = WordBytes
    BY <1>7, <1>8, <2>1, BytesType
  <2>3. from_be_bytes(s) = n
    BY <1>7, <1>8, NumberReadsBack
  <2> QED BY <2>2, <2>3
<1>10. f \in Seq(Byte)
  BY <1>2, <1>7, FieldBytes DEF IdxFits
<1>11. x = s \o f
  BY <1>3, <1>7 DEF suffix_bytes
<1>12. Slice(s \o f, 1, Len(s)) = s
  BY <1>9, <1>10, SliceFirst
<1>13. SubSeq(s \o f, Len(s) + 1, Len(s \o f)) = f
  BY <1>9, <1>10, TailOf
<1>14. ~(Len(x) < WordBytes)
  <2>1. Len(s \o f) = Len(s) + Len(f) /\ Len(f) \in Nat
    BY <1>9, <1>10, ConcatAt
  <2> QED BY <2>1, <1>8, <1>9, <1>11
<1>15. split_score_suffix(x) = <<from_be_bytes(Slice(x, 1, WordBytes)), SubSeq(x, WordBytes + 1, Len(x))>>
  BY <1>14 DEF split_score_suffix
<1>16. split_score_suffix(x) = <<n, f>>
  BY <1>9, <1>11, <1>12, <1>13, <1>15
<1> QED BY <1>3, <1>4, <1>6, <1>7, <1>16 DEF zscore_prefix

LEMMA FieldInjective ==
    ASSUME NEW f \in Int, NEW g \in Int,
           LIST_INITIAL_INDEX + f \in Word(WordBytes), LIST_INITIAL_INDEX + g \in Word(WordBytes)
    PROVE  /\ field_bytes(f) = field_bytes(g) => f = g
           /\ LexBefore(field_bytes(f), field_bytes(g)) <=> f < g
<1>1. PICK c, m, n : c = LIST_INITIAL_INDEX /\ m = c + f /\ n = c + g
  OBVIOUS
<1>2. WordBytes \in Nat /\ m \in Word(WordBytes) /\ n \in Word(WordBytes)
  BY <1>1, WidthsAssumption
<1>3. c \in Int
  <2>1. Power[WordBytes] \in Nat
    BY <1>2, PowerType
  <2> QED BY <1>1, <2>1 DEF LIST_INITIAL_INDEX
<1>4. field_bytes(f) = to_be_bytes(m, WordBytes) /\ field_bytes(g) = to_be_bytes(n, WordBytes)
  BY <1>1 DEF field_bytes, list_index_field
<1>5. to_be_bytes(m, WordBytes) = to_be_bytes(n, WordBytes) => m = n
  BY <1>2, NumberInjective
<1>6. LexBefore(to_be_bytes(m, WordBytes), to_be_bytes(n, WordBytes)) <=> m < n
  BY <1>2, LexNumbers
<1>7. (m = n => f = g) /\ (m < n <=> f < g)
  BY <1>1, <1>3
<1> QED BY <1>4, <1>5, <1>6, <1>7

LEMMA LexNotItself ==
    ASSUME NEW a \in Seq(Byte)
    PROVE  ~LexBefore(a, a)
<1>1. \A i \in 1..Len(a) : ~Part(a, a, i)
  BY DEF Part
<1> QED BY <1>1, LexIff

\* The byte order of index records is the order of scores, then of members.
LEMMA IndexOrder ==
    ASSUME TypeOK, WordsFit, NEW name \in Namings, NEW k \in Keys, NEW v,
           NEW r \in scan_index(k, v), NEW s \in scan_index(k, v)
    PROVE  Before(r, s) <=> LexBefore(IdxBytes(name, r), IdxBytes(name, s))
<1>1. r \in index /\ r.key = k /\ r.ver = v /\ s \in index /\ s.key = k /\ s.ver = v
  BY DEF scan_index
<1>2. r.key \in Keys /\ IdxFits(r) /\ s.key \in Keys /\ IdxFits(s) /\ r.member \in Int /\ s.member \in Int
  BY <1>1 DEF TypeOK, DiskTypeOK, IdxRecs, WordsFit
<1>3. PICK p, x, y : /\ p = versioned_prefix(ZSCORE_PREFIX, name[k], v)
                     /\ x = suffix_bytes(r) /\ y = suffix_bytes(s)
  OBVIOUS
<1>4. IdxBytes(name, r) = p \o x /\ Owner(name[k], v) /\ x \in Seq(Byte)
  BY <1>1, <1>2, <1>3, IdxForm
<1>5. IdxBytes(name, s) = p \o y /\ y \in Seq(Byte)
  BY <1>1, <1>2, <1>3, IdxForm
<1>6. p \in Seq(Byte)
  BY <1>3, <1>4, TagType, VersionedType
<1>7. LexBefore(p \o x, p \o y) <=> LexBefore(x, y)
  BY <1>4, <1>5, <1>6, LexPair, LexNotItself
<1>8. PICK m, n, a, b, f, g : /\ m = r.score /\ n = s.score
                              /\ a = to_be_bytes(m, WordBytes) /\ b = to_be_bytes(n, WordBytes)
                              /\ f = field_bytes(r.member) /\ g = field_bytes(s.member)
  OBVIOUS
<1>9. WordBytes \in Nat /\ m \in Word(WordBytes) /\ n \in Word(WordBytes)
  BY <1>2, <1>8, WidthsAssumption DEF IdxFits
<1>10. m \in Nat /\ n \in Nat
  BY <1>9, TopZero
<1>11. a \in Seq(Byte) /\ b \in Seq(Byte) /\ Len(a) = Len(b)
  BY <1>8, <1>9, <1>10, BytesType
<1>12. f \in Seq(Byte) /\ g \in Seq(Byte)
  <2>1. /\ LIST_INITIAL_INDEX + r.member \in Word(WordBytes)
        /\ LIST_INITIAL_INDEX + s.member \in Word(WordBytes)
    BY <1>2 DEF IdxFits
  <2>2. field_bytes(r.member) \in Seq(Byte) /\ field_bytes(s.member) \in Seq(Byte)
    BY ONLY <2>1, FieldBytes
  <2> QED BY <1>8, <2>2
<1>13. x = a \o f /\ y = b \o g
  BY <1>3, <1>8 DEF suffix_bytes
<1>14. LexBefore(a \o f, b \o g) <=> LexBefore(a, b) \/ (a = b /\ LexBefore(f, g))
  BY <1>11, <1>12, LexPair
<1>15. (LexBefore(a, b) <=> m < n) /\ (a = b <=> m = n)
  BY <1>8, <1>9, LexNumbers, NumberInjective
<1>16. LexBefore(f, g) <=> r.member < s.member
  BY <1>2, <1>8, FieldInjective DEF IdxFits
<1> QED BY <1>4, <1>5, <1>7, <1>8, <1>13, <1>14, <1>15, <1>16 DEF Before

-----------------------------------------------------------------------------
(* The sizes the scans count. *)

LEMMA MetaKeyCount ==
    ASSUME NEW name \in Namings
    PROVE  Cardinality(MetaKeys(name)) = dbsize
<1>1. PICK S, T : S = {k \in Keys : metas[k] # NoMeta} /\ T = MetaKeys(name)
  OBVIOUS
<1>2. PICK f : f = [k \in S |-> meta_key(name[k])]
  OBVIOUS
<1>3. IsFiniteSet(S)
  BY <1>1, KeysAssumption, FS_Subset
<1>4. f \in [S -> T] /\ \A y \in T : \E k \in S : f[k] = y
  BY <1>1, <1>2 DEF MetaKeys
<1>5. ASSUME NEW k \in S, NEW l \in S, f[k] = f[l] PROVE k = l
  <2>1. k \in Keys /\ l \in Keys
    BY <1>1
  <2>2. PICK X : X = <<META_PREFIX>>
    OBVIOUS
  <2>3. X \in Seq(Byte)
    BY <2>2, TagType
  <2>4. name[k] \in Seq(Byte) /\ meta_key(name[k]) = X \o name[k]
    BY <2>1, <2>2, MetaForm
  <2>5. name[l] \in Seq(Byte) /\ meta_key(name[l]) = X \o name[l]
    BY <2>1, <2>2, MetaForm
  <2>6. SubSeq(X \o name[k], Len(X) + 1, Len(X \o name[k])) = name[k]
    BY <2>3, <2>4, TailOf
  <2>7. SubSeq(X \o name[l], Len(X) + 1, Len(X \o name[l])) = name[l]
    BY <2>3, <2>5, TailOf
  <2>8. X \o name[k] = X \o name[l]
    BY <1>2, <1>5, <2>4, <2>5
  <2>9. name[k] = name[l]
    BY <2>6, <2>7, <2>8
  <2> QED BY <2>1, <2>9, NameInjective
<1>6. Cardinality(T) = Cardinality(S)
  BY <1>3, <1>4, <1>5, Counting
<1> QED BY <1>1, <1>6 DEF dbsize

LEMMA SubKeyCount ==
    ASSUME TypeOK, WordsFit, RecordsInv, NEW name \in Namings
    PROVE  Cardinality(SubKeys(name)) = Cardinality(subs)
<1>1. PICK T, f : T = SubKeys(name) /\ f = [r \in subs |-> SubBytes(name, r)]
  OBVIOUS
<1>2. IsFiniteSet(subs) /\ OneRecord(subs)
  BY DEF RecordsInv, Distinct
<1>3. f \in [subs -> T] /\ \A y \in T : \E r \in subs : f[r] = y
  BY <1>1 DEF SubKeys
<1>4. ASSUME NEW r \in subs, NEW s \in subs, f[r] = f[s] PROVE r = s
  <2>1. r.key \in Keys /\ SubFits(r) /\ s.key \in Keys /\ SubFits(s) /\ r.field \in Int /\ s.field \in Int
    BY DEF TypeOK, DiskTypeOK, SubRecs, WordsFit
  <2>2. SubBytes(name, r) = SubBytes(name, s)
    BY <1>1, <1>4
  <2>3. /\ SubBytes(name, r) = versioned_prefix(SUBKEY_PREFIX, name[r.key], r.ver) \o field_bytes(r.field)
        /\ Owner(name[r.key], r.ver) /\ field_bytes(r.field) \in Seq(Byte)
    BY <2>1, SubForm
  <2>4. /\ SubBytes(name, s) = versioned_prefix(SUBKEY_PREFIX, name[s.key], s.ver) \o field_bytes(s.field)
        /\ Owner(name[s.key], s.ver) /\ field_bytes(s.field) \in Seq(Byte)
    BY <2>1, SubForm
  <2>5. parse_versioned(SubBytes(name, r), SUBKEY_PREFIX) = <<name[r.key], r.ver, field_bytes(r.field)>>
    BY <2>3, TagType, ParsesBack
  <2>6. parse_versioned(SubBytes(name, s), SUBKEY_PREFIX) = <<name[s.key], s.ver, field_bytes(s.field)>>
    BY <2>4, TagType, ParsesBack
  <2>7. name[r.key] = name[s.key] /\ r.ver = s.ver /\ field_bytes(r.field) = field_bytes(s.field)
    BY <2>2, <2>5, <2>6
  <2>8. r.key = s.key
    BY <2>1, <2>7, NameInjective
  <2>9. r.field = s.field
    BY <2>1, <2>7, FieldInjective DEF SubFits
  <2> QED BY <1>2, <2>7, <2>8, <2>9 DEF OneRecord, SameSub
<1>5. Cardinality(T) = Cardinality(subs)
  BY <1>2, <1>3, <1>4, Counting
<1> QED BY <1>1, <1>5

LEMMA IdxKeyCount ==
    ASSUME TypeOK, WordsFit, RecordsInv, NEW name \in Namings
    PROVE  Cardinality(IdxKeys(name)) = Cardinality(index)
<1>1. PICK T, f : T = IdxKeys(name) /\ f = [r \in index |-> IdxBytes(name, r)]
  OBVIOUS
<1>2. IsFiniteSet(index)
  BY DEF RecordsInv, Distinct
<1>3. f \in [index -> T] /\ \A y \in T : \E r \in index : f[r] = y
  BY <1>1 DEF IdxKeys
<1>4. ASSUME NEW r \in index, NEW s \in index, f[r] = f[s] PROVE r = s
  <2>1. /\ r.key \in Keys /\ IdxFits(r) /\ s.key \in Keys /\ IdxFits(s)
        /\ r.member \in Int /\ s.member \in Int /\ r \in IdxRecs /\ s \in IdxRecs
    BY DEF TypeOK, DiskTypeOK, IdxRecs, WordsFit
  <2>2. IdxBytes(name, r) = IdxBytes(name, s)
    BY <1>1, <1>4
  <2>3. r.ver \in Word(WordBytes)
    BY <2>1 DEF IdxFits
  <2>4. PICK p : p = versioned_prefix(ZSCORE_PREFIX, name[r.key], r.ver)
    OBVIOUS
  <2>5. IsPrefix(p, IdxBytes(name, r))
    BY <2>1, <2>3, <2>4, TagType, IdxScanned
  <2>6. s.key = r.key /\ s.ver = r.ver
    BY <2>1, <2>2, <2>3, <2>4, <2>5, TagType, IdxScanned
  <2>7. r \in scan_index(r.key, r.ver) /\ s \in scan_index(r.key, r.ver)
    BY <2>6 DEF scan_index
  <2>8. PICK n : n = Len(zscore_prefix(name[r.key], r.ver)) + 1
    OBVIOUS
  <2>9. split_score_suffix(SubSeq(IdxBytes(name, r), n, Len(IdxBytes(name, r))))
           = <<r.score, field_bytes(r.member)>>
    BY <2>1, <2>7, <2>8, SuffixReadsBack
  <2>10. split_score_suffix(SubSeq(IdxBytes(name, s), n, Len(IdxBytes(name, s))))
           = <<s.score, field_bytes(s.member)>>
    BY <2>1, <2>7, <2>8, SuffixReadsBack
  <2>11. r.score = s.score /\ field_bytes(r.member) = field_bytes(s.member)
    BY <2>2, <2>9, <2>10
  <2>12. r.member = s.member
    BY <2>1, <2>11, FieldInjective DEF IdxFits
  <2> QED BY <2>1, <2>6, <2>11, <2>12 DEF IdxRecs
<1>5. Cardinality(T) = Cardinality(index)
  BY <1>2, <1>3, <1>4, Counting
<1> QED BY <1>1, <1>5

LEMMA VersionsFit ==
    ASSUME WordsFit, NEW v \in UsedVersions
    PROVE  v \in Word(WordBytes)
  BY DEF WordsFit, UsedVersions, SubFits, IdxFits

LEMMA ScansAre == TypeOK /\ RecordsInv /\ WordsFit => ScansExact
<1> SUFFICES ASSUME TypeOK, RecordsInv, WordsFit, NEW name \in Namings
             PROVE
        LET raw == EngineKeys(name) IN
        /\ \A k \in Keys : \A ver \in UsedVersions :
              /\ scan_prefix(raw, subkey_prefix(name[k], ver))
                    = {SubBytes(name, r) : r \in scan(k, ver)}
              /\ scan_prefix(raw, zscore_prefix(name[k], ver))
                    = {IdxBytes(name, r) : r \in scan_index(k, ver)}
              /\ \A r \in scan_index(k, ver) :
                    LET suffix == SubSeq(IdxBytes(name, r), Len(zscore_prefix(name[k], ver)) + 1,
                                         Len(IdxBytes(name, r)))
                    IN  split_score_suffix(suffix) = <<r.score, field_bytes(r.member)>>
              /\ \A r, s \in scan_index(k, ver) :
                    Before(r, s) <=> LexBefore(IdxBytes(name, r), IdxBytes(name, s))
        /\ Cardinality(scan_prefix(raw, <<META_PREFIX>>)) = dbsize
        /\ Cardinality(scan_prefix(raw, <<SUBKEY_PREFIX>>))
              + Cardinality(scan_prefix(raw, <<ZSCORE_PREFIX>>)) = raw_subkey_count
  BY Zenon DEF ScansExact
<1>1. ASSUME NEW k \in Keys, NEW ver \in UsedVersions
      PROVE  /\ scan_prefix(EngineKeys(name), subkey_prefix(name[k], ver))
                   = {SubBytes(name, r) : r \in scan(k, ver)}
             /\ scan_prefix(EngineKeys(name), zscore_prefix(name[k], ver))
                   = {IdxBytes(name, r) : r \in scan_index(k, ver)}
  BY VersionsFit, OwnerScans
<1>2. ASSUME NEW k \in Keys, NEW ver \in UsedVersions, NEW r \in scan_index(k, ver)
      PROVE  split_score_suffix(SubSeq(IdxBytes(name, r), Len(zscore_prefix(name[k], ver)) + 1,
                                       Len(IdxBytes(name, r))))
                = <<r.score, field_bytes(r.member)>>
  BY SuffixReadsBack
<1>3. ASSUME NEW k \in Keys, NEW ver \in UsedVersions,
             NEW r \in scan_index(k, ver), NEW s \in scan_index(k, ver)
      PROVE  Before(r, s) <=> LexBefore(IdxBytes(name, r), IdxBytes(name, s))
  BY IndexOrder
<1>4. Cardinality(scan_prefix(EngineKeys(name), <<META_PREFIX>>)) = dbsize
  BY TagScans, MetaKeyCount
<1>5. Cardinality(scan_prefix(EngineKeys(name), <<SUBKEY_PREFIX>>))
         + Cardinality(scan_prefix(EngineKeys(name), <<ZSCORE_PREFIX>>)) = raw_subkey_count
  BY TagScans, SubKeyCount, IdxKeyCount DEF raw_subkey_count
<1> QED BY <1>1, <1>2, <1>3, <1>4, <1>5, Zenon

(* A prefix scan of the engine's bytes finds the records of one structure    *)
(* and no others, an index scan has the order of the scores, and the counts  *)
(* of DBSIZE and RAWCOUNT are those of the records, for every set of user    *)
(* keys and every state whose numbers fit their machine words.               *)
THEOREM ScansAreExact == Spec => [](WordsFit => ScansExact)
  BY ScansAre, RecordsAlong, PTL
=============================================================================
