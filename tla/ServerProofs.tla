---------------------------- MODULE ServerProofs ----------------------------
(***************************************************************************)
(* The drain answers what it ran, and every client is answered as its      *)
(* requests ask, for any number of clients, any requests and any           *)
(* fragmentation.                                                          *)
(***************************************************************************)
EXTENDS Server, InductionProofs, FiniteSetTheorems

\* The replies to commands in a sequence of replies, and among those of c.
Answers(s) == {i \in DOMAIN s : s[i].form # "error"}
Answered(c) == Answers(replies[c])

\* A command of c has run and its reply is still to be handed to the network.
Pending(c) == task[c] = "sending" /\ action[c].reply.form # "error"

\* Every command that ran has its reply, one at most being still under way.
Accounted(c) ==
    client[c] # "gone" => done[c] = Cardinality(Answered(c)) + IF Pending(c) THEN 1 ELSE 0

DrainInv ==
    /\ client \in [Conns -> {"away", "connected", "gone"}]
    /\ task \in [Conns -> {"none", "reading", "sending", "ended"}]
    /\ done \in [Conns -> Nat]
    /\ DOMAIN action = Conns /\ DOMAIN replies = Conns
    /\ \A c \in Conns : \E S : replies[c] \in Seq(S)
    /\ phase = "stopped" => \A c \in Conns : task[c] \in {"none", "ended"}
    /\ \A c \in Conns : Accounted(c)

(* Handing a reply to the network adds one answer, unless it is an error.    *)
LEMMA AppendAnswer ==
    ASSUME NEW S, NEW s \in Seq(S), NEW r
    PROVE  /\ Append(s, r) \in Seq(S \cup {r})
           /\ Cardinality(Answers(s)) \in Nat
           /\ Cardinality(Answers(Append(s, r))) =
                 Cardinality(Answers(s)) + IF r.form # "error" THEN 1 ELSE 0
<1> DEFINE before == Answers(s)
           app == Append(s, r)
           after == Answers(app)
<1>1. s \in Seq(S \cup {r}) /\ Len(s) \in Nat /\ DOMAIN s = 1 .. Len(s)
  OBVIOUS
<1>2. /\ app \in Seq(S \cup {r}) /\ DOMAIN app = 1 .. Len(s) + 1
      /\ \A i \in 1 .. Len(s) : app[i] = s[i]
      /\ app[Len(s) + 1] = r
  BY <1>1
<1>3. IsFiniteSet(before)
  <2>1. IsFiniteSet(1 .. Len(s)) /\ before \subseteq 1 .. Len(s)
    BY <1>1, FS_Interval DEF Answers
  <2> QED
    BY <2>1, FS_Subset
<1>4. Cardinality(before) \in Nat
  BY <1>3, FS_CardinalityType
<1>5. CASE r.form = "error"
  <2>1. after = before
    BY <1>1, <1>2, <1>5 DEF Answers
  <2> QED
    BY <1>2, <1>4, <1>5, <2>1
<1>6. CASE r.form # "error"
  <2>1. after = before \cup {Len(s) + 1}
    BY <1>1, <1>2, <1>6 DEF Answers
  <2>2. Len(s) + 1 \notin before
    BY <1>1 DEF Answers
  <2>3. Cardinality(after) = Cardinality(before) + 1
    BY <1>3, <2>1, <2>2, FS_AddElement
  <2> QED
    BY <1>2, <1>4, <1>6, <2>3
<1> QED
  BY <1>5, <1>6

(* Only a protocol error is answered by an error frame of the connection.    *)
LEMMA DispatchForm ==
    ASSUME NEW args, NEW v
    PROVE  dispatch(args, v).reply.form # "error"
  BY DEF dispatch, Action, encode, hello_reply

(* Nobody is waiting for a reply before the first request.                   *)
LEMMA InitDrain == Init => DrainInv
<1> SUFFICES ASSUME Init PROVE DrainInv
  OBVIOUS
<1>1. \A c \in Conns : replies[c] = <<>> /\ done[c] = 0 /\ task[c] = "none"
  BY DEF Init
<1>2. ASSUME NEW c \in Conns PROVE Accounted(c)
  <2>1. Answered(c) = {}
    BY <1>1 DEF Answered, Answers
  <2>2. Cardinality(Answered(c)) = 0
    BY <2>1, FS_EmptySet
  <2> QED
    BY <1>1, <2>2 DEF Accounted, Pending
<1>3. \A c \in Conns : replies[c] \in Seq({})
  <2>1. <<>> \in Seq({})
    OBVIOUS
  <2> QED
    BY <1>1, <2>1
<1> QED
  BY <1>2, <1>3 DEF Init, DrainInv

(* A step that leaves the replies, the counts and whatever is under way as   *)
(* they are, and moves no connection out of its end.                         *)
LEMMA Undisturbed ==
    ASSUME DrainInv, UNCHANGED <<replies, done, action>>,
           client' \in [Conns -> {"away", "connected", "gone"}],
           task' \in [Conns -> {"none", "reading", "sending", "ended"}],
           \A c \in Conns : client[c] = "gone" => client'[c] = "gone",
           \A c \in Conns : (task[c] = "sending") <=> (task'[c] = "sending"),
           phase' = "stopped" => \A c \in Conns : task'[c] \in {"none", "ended"}
    PROVE  DrainInv'
<1>1. ASSUME NEW c \in Conns PROVE Accounted(c)'
  <2>1. Answered(c)' = Answered(c) /\ Pending(c)' = Pending(c) /\ Accounted(c)
    BY DEF Answered, Pending, DrainInv
  <2> QED
    BY <2>1 DEF Accounted
<1> QED
  BY <1>1 DEF DrainInv

(* A step of one connection that changes what is under way or answered.      *)
LEMMA OneConnection ==
    ASSUME DrainInv, NEW c \in Conns, UNCHANGED <<phase, client>>,
           phase # "stopped",
           task' \in [Conns -> {"none", "reading", "sending", "ended"}],
           done' \in [Conns -> Nat],
           DOMAIN action' = Conns, DOMAIN replies' = Conns,
           \A d \in Conns \ {c} :
               /\ task'[d] = task[d] /\ done'[d] = done[d]
               /\ action'[d] = action[d] /\ replies'[d] = replies[d],
           \E S : replies'[c] \in Seq(S),
           Accounted(c)'
    PROVE  DrainInv'
<1>1. ASSUME NEW d \in Conns \ {c} PROVE Accounted(d)' /\ \E S : replies'[d] \in Seq(S)
  <2>1. Answered(d)' = Answered(d) /\ Pending(d)' = Pending(d) /\ Accounted(d)
    BY DEF Answered, Pending, DrainInv
  <2>2. \E S : replies[d] \in Seq(S)
    BY DEF DrainInv
  <2> QED
    BY <2>1, <2>2 DEF Accounted
<1> QED
  BY <1>1 DEF DrainInv

(* A reply that has been built is sent, or its client is gone: the drain     *)
(* does not interrupt a connection that is sending.                          *)
LEMMA NextDrain == DrainInv /\ [Next]_vars => DrainInv'
<1> SUFFICES ASSUME DrainInv, [Next]_vars PROVE DrainInv'
  OBVIOUS
<1> USE DEF clientVars
<1>1. CASE UNCHANGED vars
  BY <1>1, Undisturbed DEF vars, DrainInv
<1>2. CASE serve
  BY <1>2, Undisturbed DEF serve, StopAccepting, Drained, Accept, DrainInv
<1>3. CASE Shutdown
  BY <1>3, Undisturbed DEF Shutdown, DrainInv
<1>4. ASSUME NEW c \in Conns, Leave(c) \/ ClientClosed(c) PROVE DrainInv'
  BY <1>4, Undisturbed DEF Leave, ClientClosed, Reading, DrainInv
<1>5. ASSUME NEW c \in Conns, Network(c) \/ Connect(c) \/ Read(c) \/ Hangup(c) PROVE DrainInv'
  BY <1>5, Undisturbed DEF Network, Deliver, EndOfStream, Connect, Read, Hangup, DrainInv
<1>6. ASSUME NEW c \in Conns, NextItem(c) PROVE DrainInv'
  <2>1. PICK item : SkipEmpty(c, item) \/ Dispatch(c, item) \/ ProtocolError(c, item)
    BY <1>6 DEF NextItem
  <2>2. phase # "stopped" /\ task[c] = "reading" /\ ~Pending(c)
    BY <1>6 DEF NextItem, Reading, Pending
  <2>3. CASE SkipEmpty(c, item)
    BY <2>3, Undisturbed DEF SkipEmpty, DrainInv
  <2>4. CASE Dispatch(c, item)
    <3>1. /\ action'[c] = dispatch(item.args, version[c]) /\ task'[c] = "sending"
          /\ done'[c] = done[c] + 1 /\ replies' = replies /\ client' = client
      BY <2>4 DEF Dispatch, DrainInv
    <3>2. Pending(c)' /\ Answered(c)' = Answered(c) /\ Accounted(c)
      BY <3>1, DispatchForm DEF Pending, Answered, DrainInv
    <3>3. Cardinality(Answered(c)) \in Nat
      BY AppendAnswer DEF Answered, DrainInv
    <3>4. Accounted(c)'
      BY <2>2, <3>1, <3>2, <3>3 DEF Accounted
    <3>5. /\ UNCHANGED <<phase, client>> /\ DOMAIN action' = Conns /\ DOMAIN replies' = Conns
          /\ task' \in [Conns -> {"none", "reading", "sending", "ended"}]
          /\ done' \in [Conns -> Nat]
          /\ \E S : replies'[c] \in Seq(S)
      BY <2>4, <3>1 DEF Dispatch, DrainInv
    <3>6. \A d \in Conns \ {c} :
              /\ task'[d] = task[d] /\ done'[d] = done[d]
              /\ action'[d] = action[d] /\ replies'[d] = replies[d]
      BY <2>4 DEF Dispatch, DrainInv
    <3> QED
      BY <2>2, <3>4, <3>5, <3>6, OneConnection
  <2>5. CASE ProtocolError(c, item)
    <3>1. /\ action'[c].reply.form = "error" /\ replies' = replies
          /\ done' = done /\ client' = client
      BY <2>5 DEF ProtocolError, protocol_error, Action, encode, DrainInv
    <3>2. ~Pending(c)' /\ Answered(c)' = Answered(c) /\ Accounted(c)
      BY <3>1 DEF Pending, Answered, DrainInv
    <3>3. Accounted(c)'
      BY <2>2, <3>1, <3>2 DEF Accounted
    <3> QED
      BY <2>2, <2>5, <3>3, OneConnection DEF ProtocolError, DrainInv
  <2> QED
    BY <2>1, <2>3, <2>4, <2>5
<1>7. ASSUME NEW c \in Conns, Send(c) PROVE DrainInv'
  <2>1. PICK S : replies[c] \in Seq(S)
    BY DEF DrainInv
  <2>2. /\ replies'[c] = Append(replies[c], action[c].reply) /\ task[c] = "sending"
        /\ task'[c] # "sending" /\ done' = done /\ client' = client /\ phase # "stopped"
    BY <1>7 DEF Send, DrainInv
  <2>3. /\ replies'[c] \in Seq(S \cup {action[c].reply})
        /\ Cardinality(Answered(c)) \in Nat
        /\ Cardinality(Answered(c)') =
              Cardinality(Answered(c)) + IF action[c].reply.form # "error" THEN 1 ELSE 0
    <3> DEFINE s == replies[c]
               r == action[c].reply
    <3>1. /\ Append(s, r) \in Seq(S \cup {r})
          /\ Cardinality(Answers(s)) \in Nat
          /\ Cardinality(Answers(Append(s, r))) =
                Cardinality(Answers(s)) + IF r.form # "error" THEN 1 ELSE 0
      BY <2>1, AppendAnswer
    <3>2. Answered(c)' = Answers(Append(s, r)) /\ Answered(c) = Answers(s)
      BY <2>2 DEF Answered, Answers
    <3> QED
      BY <2>2, <3>1, <3>2
  <2>4. Accounted(c) /\ (Pending(c) <=> action[c].reply.form # "error") /\ ~Pending(c)'
    BY <2>2 DEF Pending, DrainInv
  <2>5. Accounted(c)'
    BY <2>2, <2>3, <2>4 DEF Accounted
  <2> QED
    BY <1>7, <2>2, <2>3, <2>5, OneConnection DEF Send, DrainInv
<1>8. ASSUME NEW c \in Conns, SendFails(c) PROVE DrainInv'
  <2>1. Accounted(c)' /\ phase # "stopped"
    BY <1>8 DEF SendFails, Accounted, DrainInv
  <2> QED
    BY <1>8, <2>1, OneConnection DEF SendFails, DrainInv
<1> QED
  BY <1>1, <1>2, <1>3, <1>4, <1>5, <1>6, <1>7, <1>8 DEF Next, handle_connection

(* A server that has stopped has answered every command it ran, whatever     *)
(* clients sent, however it arrived and whenever the signal came.            *)
THEOREM DrainAnswers == Spec => []RunsAreAnswered
<1>1. DrainInv => RunsAreAnswered
  <2> SUFFICES ASSUME DrainInv, phase = "stopped", NEW c \in Conns, client[c] # "gone"
               PROVE  done[c] = Cardinality(Answered(c))
    BY DEF RunsAreAnswered, Answered, Answers
  <2>1. ~Pending(c) /\ Accounted(c)
    BY DEF Pending, DrainInv
  <2>2. Cardinality(Answered(c)) \in Nat
    BY AppendAnswer DEF Answered, DrainInv
  <2> QED
    BY <2>1, <2>2 DEF Accounted
<1> QED
  BY <1>1, InitDrain, NextDrain, PTL DEF Spec

-----------------------------------------------------------------------------
(* Lines: bytes that follow do not change a line that has arrived.           *)

\* The line end at i, and the first one from a position on.
CrlfAt(s, i) == s[i] = "CR" /\ s[i + 1] = "LF"
EndsAt(s, from, i) ==
    /\ i \in from .. Len(s) - 1 /\ CrlfAt(s, i)
    /\ \A j \in from .. i - 1 : ~CrlfAt(s, j)

Line(s, from, i) == Parsed(SubSeq(s, from, i - 1), i + 2)

LEMMA PieceStays ==
    ASSUME NEW S, NEW a \in Seq(S), NEW x \in Seq(S), NEW m \in Nat \ {0}, NEW n \in Int, n <= Len(a)
    PROVE  SubSeq(a \o x, m, n) = SubSeq(a, m, n)
<1>1. PICK b : b = a \o x
  OBVIOUS
<1>2. /\ b \in Seq(S) /\ Len(b) = Len(a) + Len(x) /\ Len(a) \in Nat /\ Len(x) \in Nat
      /\ \A i \in 1..Len(a) : b[i] = a[i]
  BY <1>1, ConcatHas
<1>3. \A i \in m..n : i \in 1..Len(a) /\ b[i] = a[i]
  BY <1>2
<1>4. \A i \in m..n : a[i] \in S /\ b[i] \in S
  BY <1>2, <1>3
<1>5. PICK u, v : u = SubSeq(a, m, n) /\ v = SubSeq(b, m, n)
  OBVIOUS
<1>6. /\ u \in Seq(S) /\ Len(u) = IF m <= n THEN n - m + 1 ELSE 0
      /\ \A i \in 1 .. n - m + 1 : u[i] = a[m + i - 1]
  BY <1>4, <1>5, SubSeqProperties
<1>7. /\ v \in Seq(S) /\ Len(v) = IF m <= n THEN n - m + 1 ELSE 0
      /\ \A i \in 1 .. n - m + 1 : v[i] = b[m + i - 1]
  BY <1>4, <1>5, SubSeqProperties
<1>8. ASSUME NEW i \in 1..Len(u) PROVE u[i] = v[i]
  <2>1. m <= n /\ Len(u) = n - m + 1
    BY <1>6
  <2>2. i \in 1 .. n - m + 1 /\ m + i - 1 \in m..n
    BY <2>1
  <2> QED BY <1>3, <1>6, <1>7, <2>2
<1>9. u = v
  <2>1. u \in Seq(S) /\ v \in Seq(S) /\ Len(u) = Len(v) /\ \A i \in 1..Len(u) : u[i] = v[i]
    BY <1>6, <1>7, <1>8
  <2> QED BY <2>1, SeqEqual
<1> QED BY <1>1, <1>5, <1>9

LEMMA LineFound ==
    ASSUME NEW S, NEW s \in Seq(S), NEW from \in Nat, NEW i, EndsAt(s, from, i)
    PROVE  read_line(s, from) = Line(s, from, i)
<1>1. PICK ends : ends = {j \in from .. Len(s) - 1 : <<s[j], s[j + 1]>> = Crlf}
  OBVIOUS
<1>2. \A j : j \in ends <=> j \in from .. Len(s) - 1 /\ CrlfAt(s, j)
  BY <1>1 DEF Crlf, CrlfAt
<1>3. i \in ends
  BY <1>2 DEF EndsAt
<1>4. Len(s) \in Nat /\ i \in Int
  BY DEF EndsAt
<1>5. ASSUME NEW j \in ends PROVE j \in Int /\ i <= j
  <2>1. j \in from .. Len(s) - 1 /\ CrlfAt(s, j)
    BY <1>2
  <2>2. j \notin from .. i - 1
    BY <2>1 DEF EndsAt
  <2> QED BY <1>4, <2>1, <2>2
<1>6. Min(ends) = i
  <2>1. \A k \in ends : (\A j \in ends : k <= j) => k = i
    BY <1>3, <1>4, <1>5
  <2> QED BY <2>1, <1>3, <1>5 DEF Min
<1>7. read_line(s, from) = Parsed(SubSeq(s, from, Min(ends) - 1), Min(ends) + 2)
  BY <1>1, <1>3, Zenon DEF read_line
<1> QED BY <1>6, <1>7 DEF Line

LEMMA NoLine ==
    ASSUME NEW S, NEW s \in Seq(S), NEW from \in Nat, \A i : ~EndsAt(s, from, i)
    PROVE  read_line(s, from) = More /\ \A j \in from .. Len(s) - 1 : ~CrlfAt(s, j)
<1>1. PICK ends : ends = {j \in from .. Len(s) - 1 : <<s[j], s[j + 1]>> = Crlf}
  OBVIOUS
<1>2. \A j : j \in ends <=> j \in from .. Len(s) - 1 /\ CrlfAt(s, j)
  BY <1>1 DEF Crlf, CrlfAt
<1>3. Len(s) \in Nat
  OBVIOUS
<1>4. ends = {}
  <2> SUFFICES ASSUME ends # {} PROVE FALSE
    OBVIOUS
  <2>1. ends \subseteq Nat
    BY <1>2, <1>3
  <2>2. PICK i \in ends : \A j \in ends : i <= j
    BY <2>1, Smallest
  <2>3. i \in from .. Len(s) - 1 /\ CrlfAt(s, i) /\ i \in Nat
    BY <1>2, <2>1
  <2>4. ASSUME NEW j \in from .. i - 1 PROVE ~CrlfAt(s, j)
    <3>1. j \in from .. Len(s) - 1 /\ ~(i <= j)
      BY <1>3, <2>3
    <3> QED BY <1>2, <2>2, <3>1
  <2>5. EndsAt(s, from, i)
    BY <2>3, <2>4 DEF EndsAt
  <2> QED BY <2>5
<1>5. read_line(s, from) = More
  BY <1>1, <1>4, Zenon DEF read_line
<1> QED BY <1>2, <1>4, <1>5

LEMMA EndStays ==
    ASSUME NEW S, NEW a \in Seq(S), NEW x \in Seq(S), NEW from \in Nat \ {0}, NEW i
    PROVE  (EndsAt(a, from, i) <=> EndsAt(a \o x, from, i) /\ i < Len(a))
<1>1. PICK b : b = a \o x
  OBVIOUS
<1>2. /\ b \in Seq(S) /\ Len(b) = Len(a) + Len(x) /\ Len(a) \in Nat /\ Len(x) \in Nat
      /\ \A j \in 1..Len(a) : b[j] = a[j]
  BY <1>1, ConcatHas
<1>3. \A j \in from .. Len(a) - 1 : j \in 1..Len(a) /\ j + 1 \in 1..Len(a)
  BY <1>2
<1>4. \A j \in from .. Len(a) - 1 : CrlfAt(b, j) <=> CrlfAt(a, j)
  BY <1>2, <1>3 DEF CrlfAt
<1>5. ASSUME EndsAt(a, from, i) PROVE EndsAt(b, from, i) /\ i < Len(a)
  <2>1. i \in from .. Len(b) - 1 /\ i < Len(a) /\ i \in from .. Len(a) - 1
    BY <1>2, <1>5 DEF EndsAt
  <2>2. \A j \in from .. i - 1 : j \in from .. Len(a) - 1
    BY <1>2, <2>1
  <2> QED BY <1>4, <1>5, <2>1, <2>2 DEF EndsAt
<1>6. ASSUME EndsAt(b, from, i), i < Len(a) PROVE EndsAt(a, from, i)
  <2>1. i \in from .. Len(a) - 1
    BY <1>2, <1>6 DEF EndsAt
  <2>2. \A j \in from .. i - 1 : j \in from .. Len(a) - 1
    BY <1>2, <2>1
  <2> QED BY <1>4, <1>6, <2>1, <2>2 DEF EndsAt
<1> QED BY <1>1, <1>5, <1>6

\* A line that has arrived is read as it is, whatever follows.
LEMMA LineStays ==
    ASSUME NEW S, NEW a \in Seq(S), NEW x \in Seq(S), NEW from \in Nat \ {0},
           read_line(a, from).st # "more"
    PROVE  /\ read_line(a \o x, from) = read_line(a, from)
           /\ \E i : EndsAt(a, from, i) /\ read_line(a, from) = Line(a, from, i)
<1>1. PICK i : EndsAt(a, from, i)
  BY NoLine DEF More
<1>2. read_line(a, from) = Line(a, from, i)
  BY <1>1, LineFound
<1>3. a \o x \in Seq(S)
  BY ConcatHas
<1>4. EndsAt(a \o x, from, i)
  BY <1>1, EndStays
<1>5. read_line(a \o x, from) = Line(a \o x, from, i)
  BY <1>3, <1>4, LineFound
<1>6. i - 1 \in Int /\ i - 1 <= Len(a)
  BY <1>1 DEF EndsAt
<1>7. SubSeq(a \o x, from, i - 1) = SubSeq(a, from, i - 1)
  BY <1>6, PieceStays
<1> QED BY <1>1, <1>2, <1>5, <1>7 DEF Line

-----------------------------------------------------------------------------
(* Integers. *)

LEMMA DigitType ==
    ASSUME NEW b \in Digits
    PROVE  DigitValue(b) \in Nat
<1>1. \E n \in 0..9 : DigitAt[n + 1] = b
  BY DEF Digits
<1>2. DigitValue(b) \in 0..9
  BY <1>1 DEF DigitValue
<1> QED BY <1>2

LEMMA NumberType ==
    ASSUME NEW S, NEW line \in Seq(S), is_i64(line)
    PROVE  parse_i64(line) \in Int
<1> DEFINE digits == Unsigned(line)
<1>2. digits \in Seq(S) /\ \A i \in DOMAIN digits : digits[i] \in Digits
  <2>1. line # <<>> => Tail(line) \in Seq(S)
    OBVIOUS
  <2>2. digits \in Seq(S)
    BY <2>1 DEF Unsigned
  <2> QED BY <2>2 DEF is_i64
<1> HIDE DEF digits
<1>3. PICK len, d : len = Len(digits) /\ d = [i \in 1..len |-> DigitValue(digits[i])]
  OBVIOUS
<1>4. len \in Nat /\ d \in [1..len -> Nat]
  BY <1>2, <1>3, DigitType
<1>5. PICK step : step = [i \in 1..len |-> [p \in Nat |-> 10 * p + d[i]]]
  OBVIOUS
<1>6. step \in [1..len -> [Nat -> Nat]]
  <2>1. \A i \in 1..len : \A p \in Nat : 10 * p + d[i] \in Nat
    BY <1>4
  <2> QED BY <1>5, <2>1
<1>7. PICK f \in [0..len -> Nat] : f[0] = 0 /\ \A i \in 1..len : f[i] = step[i][f[i - 1]]
  <2>1. 0 \in Nat /\ len \in Nat
    BY <1>4
  <2>2. \E f : Runs(f, Nat, 0, len, step)
    BY <1>6, <2>1, BoundedRecursion
  <2> QED BY <2>2 DEF Runs
<1>8. ASSUME NEW i \in 0..len
      PROVE  f[i] = IF i = 0 THEN 0 ELSE 10 * f[i - 1] + DigitValue(digits[i])
  <2>1. CASE i = 0
    BY <2>1, <1>7
  <2>2. CASE i # 0
    <3>1. i \in 1..len /\ i - 1 \in 0..len
      BY <2>2, <1>4
    <3>2. f[i - 1] \in Nat
      BY <3>1, <1>7
    <3>3. step[i][f[i - 1]] = 10 * f[i - 1] + d[i]
      BY <3>1, <3>2, <1>5
    <3>4. f[i] = step[i][f[i - 1]] /\ d[i] = DigitValue(digits[i])
      BY <3>1, <1>3, <1>7
    <3> QED BY <2>2, <3>3, <3>4
  <2> QED BY <2>1, <2>2
<1>9. f = [i \in 0 .. Len(digits) |-> IF i = 0 THEN 0 ELSE 10 * f[i - 1] + DigitValue(digits[i])]
  <2>1. f = [i \in 0..len |-> f[i]]
    OBVIOUS
  <2> QED BY <1>3, <1>8, <2>1
<1> DEFINE value[i \in 0 .. Len(digits)] == IF i = 0 THEN 0 ELSE 10 * value[i - 1] + DigitValue(digits[i])
<1>10. value = [i \in 0 .. Len(digits) |-> IF i = 0 THEN 0 ELSE 10 * value[i - 1] + DigitValue(digits[i])]
  BY <1>9
<1>11. parse_i64(line) = IF Head(line) = "-" THEN -value[Len(digits)] ELSE value[Len(digits)]
  BY DEF parse_i64, digits
<1> HIDE DEF value
<1>12. value[0] = 0 /\ \A i \in 1..len : value[i] = 10 * value[i - 1] + d[i]
  <2>1. 0 \in 0..Len(digits) /\ \A i \in 1..len : i \in 0..Len(digits) /\ i # 0 /\ d[i] = DigitValue(digits[i])
    BY <1>3, <1>4
  <2> QED BY <1>10, <2>1
<1> DEFINE T == {i \in 0..len : value[i] \in Nat}
<1>13. 0 \in T
  BY <1>4, <1>12
<1>14. ASSUME NEW i \in 1..len, i - 1 \in T PROVE i \in T
  <2>1. PICK p, q : p = value[i - 1] /\ q = d[i]
    OBVIOUS
  <2>2. p \in Nat /\ q \in Nat
    BY <1>4, <1>14, <2>1
  <2>3. 10 * p + q \in Nat
    BY <2>2
  <2>4. value[i] = 10 * p + q
    BY <1>12, <2>1
  <2> QED BY <2>3, <2>4, <1>4
<1>15. len \in T
  <2> HIDE DEF T
  <2>1. \A i \in 0..len : i \in T
    BY <1>4, <1>13, <1>14, UpTo
  <2> QED BY <1>4, <2>1
<1>16. PICK n : n = value[Len(digits)]
  OBVIOUS
<1>17. n \in Nat
  BY <1>3, <1>15, <1>16
<1>18. parse_i64(line) = IF Head(line) = "-" THEN -n ELSE n
  BY <1>11, <1>16
<1> QED BY <1>17, <1>18

-----------------------------------------------------------------------------
(* Arrays of bulk strings. *)

\* Where the loop of parse_multibulk can be.
Turns == {acc \in Results : acc.st = "parsed" => acc.next >= 1}

\* The body of parse_argument, with the header line and what it says.
Turn(input, acc, hdr, len, end) ==
    IF acc.st # "parsed" THEN acc
    ELSE IF acc.next > Len(input) THEN More
    ELSE IF input[acc.next] # "$" THEN Error
    ELSE IF hdr.st = "more" THEN More
    ELSE IF ~is_i64(hdr.args) \/ len < 0 \/ len > MaxBulkLen THEN Error
    ELSE IF Len(input) < end + 1 THEN More
    ELSE IF SubSeq(input, end, end + 1) # Crlf THEN Error
    ELSE Parsed(Append(acc.args, SubSeq(input, hdr.next, end - 1)), end + 2)

LEMMA TurnIs ==
    ASSUME NEW input, NEW acc \in Turns, NEW hdr, hdr = read_line(input, acc.next + 1)
    PROVE  parse_argument(input)[acc]
              = Turn(input, acc, hdr, parse_i64(hdr.args), hdr.next + parse_i64(hdr.args))
<1>1. acc \in Results
  BY DEF Turns
<1> QED BY <1>1 DEF parse_argument, Turn

LEMMA ResultTypes ==
    /\ More \in Turns /\ Error \in Turns /\ More.st = "more" /\ Error.st = "error"
    /\ \A args \in Seq(Seq(STRING)) : \A n \in Nat \ {0} :
          Parsed(args, n) \in Turns /\ Parsed(args, n).st = "parsed"
             /\ Parsed(args, n).args = args /\ Parsed(args, n).next = n
<1>1. <<>> \in Seq(Seq(STRING))
  OBVIOUS
<1> QED BY <1>1 DEF More, Error, Parsed, Turns, Results

LEMMA PieceType ==
    ASSUME NEW S, NEW a \in Seq(S), NEW m \in Nat \ {0}, NEW n \in Int, n <= Len(a)
    PROVE  SubSeq(a, m, n) \in Seq(S) /\ Len(SubSeq(a, m, n)) = IF m <= n THEN n - m + 1 ELSE 0
<1>1. \A i \in m..n : a[i] \in S
  OBVIOUS
<1> QED BY <1>1, SubSeqProperties

\* What the header line of an argument is.
LEMMA HeaderIs ==
    ASSUME NEW S, NEW a \in Seq(S), NEW from \in Nat \ {0}, NEW hdr, hdr = read_line(a, from),
           hdr.st # "more"
    PROVE  /\ hdr.args \in Seq(S) /\ hdr.next \in Nat /\ hdr.next >= from + 2 /\ hdr.next <= Len(a) + 1
           /\ hdr.st = "parsed"
<1>1. <<>> \in Seq(S)
  OBVIOUS
<1>2. PICK i : EndsAt(a, from, i) /\ read_line(a, from) = Line(a, from, i)
  BY <1>1, LineStays
<1>3. i \in from .. Len(a) - 1 /\ Len(a) \in Nat
  BY <1>2 DEF EndsAt
<1>4. SubSeq(a, from, i - 1) \in Seq(S)
  BY <1>3, PieceType
<1>5. hdr.args = SubSeq(a, from, i - 1) /\ hdr.next = i + 2 /\ hdr.st = "parsed"
  <2>1. PICK u, n : u = SubSeq(a, from, i - 1) /\ n = i + 2
    OBVIOUS
  <2>2. hdr = Parsed(u, n)
    BY <1>2, <2>1 DEF Line
  <2>3. hdr.args = u /\ hdr.next = n /\ hdr.st = "parsed"
    BY <2>2 DEF Parsed
  <2> QED BY <2>1, <2>3
<1> QED BY <1>3, <1>4, <1>5

\* A turn of the loop: types, and bytes that follow change only a turn that
\* could not be completed.
LEMMA TurnStays ==
    ASSUME NEW a \in Seq(STRING), NEW x \in Seq(STRING), NEW acc \in Turns
    PROVE  /\ parse_argument(a)[acc] \in Turns
           /\ parse_argument(a)[acc].st = "parsed" =>
                 acc.st = "parsed" /\ parse_argument(a)[acc].next <= Len(a) + 1
           /\ acc.st # "parsed" => parse_argument(a)[acc] = acc
           /\ parse_argument(a)[acc].st # "more" => parse_argument(a \o x)[acc] = parse_argument(a)[acc]
<1>1. PICK b, from, p, args : b = a \o x /\ from = acc.next + 1 /\ p = acc.next /\ args = acc.args
  OBVIOUS
<1>2. p \in Nat /\ from \in Nat \ {0} /\ args \in Seq(Seq(STRING)) /\ (acc.st = "parsed" => p >= 1)
  BY <1>1 DEF Turns, Results
<1>3. /\ b \in Seq(STRING) /\ Len(b) = Len(a) + Len(x) /\ Len(a) \in Nat /\ Len(x) \in Nat
      /\ \A i \in 1..Len(a) : b[i] = a[i]
  BY <1>1, ConcatHas
<1>4. PICK hdr, hdr2 : hdr = read_line(a, from) /\ hdr2 = read_line(b, from)
  OBVIOUS
<1>5. PICK len, end, len2, end2 : /\ len = parse_i64(hdr.args) /\ end = hdr.next + len
                                  /\ len2 = parse_i64(hdr2.args) /\ end2 = hdr2.next + len2
  OBVIOUS
<1>6. PICK R, R2 : R = parse_argument(a)[acc] /\ R2 = parse_argument(b)[acc]
  OBVIOUS
<1>7. R = Turn(a, acc, hdr, len, end)
  BY <1>1, <1>4, <1>5, <1>6, TurnIs
<1>8. R2 = Turn(b, acc, hdr2, len2, end2)
  BY <1>1, <1>4, <1>5, <1>6, TurnIs
<1> HIDE <1>1
<1> DEFINE Goal == /\ R \in Turns
                   /\ R.st = "parsed" => acc.st = "parsed" /\ R.next <= Len(a) + 1
                   /\ acc.st # "parsed" => R = acc
                   /\ R.st # "more" => R2 = R
<1> SUFFICES Goal
  BY <1>1, <1>6
<1>a. CASE acc.st # "parsed"
  <2>1. R = acc /\ R2 = acc
    BY <1>a, <1>7, <1>8 DEF Turn
  <2> QED BY <1>a, <2>1
<1>b. CASE acc.st = "parsed" /\ p > Len(a)
  <2>1. R = More
    BY <1>1, <1>b, <1>7 DEF Turn
  <2> QED BY <1>b, <2>1, ResultTypes
<1>c. CASE acc.st = "parsed" /\ ~(p > Len(a)) /\ a[p] # "$"
  <2>1. R = Error
    BY <1>1, <1>c, <1>7 DEF Turn
  <2>2. ~(p > Len(b)) /\ b[p] = a[p]
    BY <1>c, <1>2, <1>3
  <2>3. R2 = Error
    BY <1>1, <1>c, <1>8, <2>2 DEF Turn
  <2> QED BY <1>c, <2>1, <2>3, ResultTypes
<1>d. CASE acc.st = "parsed" /\ ~(p > Len(a)) /\ a[p] = "$" /\ hdr.st = "more"
  <2>1. R = More
    BY <1>1, <1>d, <1>7 DEF Turn
  <2> QED BY <1>d, <2>1, ResultTypes
<1>e. ASSUME acc.st = "parsed", ~(p > Len(a)), a[p] = "$", hdr.st # "more" PROVE Goal
  <2>1. ~(p > Len(b)) /\ b[p] = a[p]
    BY <1>e, <1>2, <1>3
  <2>2. hdr2 = hdr
    BY <1>1, <1>2, <1>4, <1>e, LineStays
  <2>3. /\ hdr.args \in Seq(STRING) /\ hdr.next \in Nat /\ hdr.next >= from + 2 /\ hdr.next <= Len(a) + 1
        /\ hdr.st = "parsed"
    BY <1>2, <1>4, <1>e, HeaderIs
  <2>4. len2 = len /\ end2 = end
    BY <1>5, <2>2
  <2>5. CASE ~is_i64(hdr.args) \/ len < 0 \/ len > MaxBulkLen
    <3>1. R = Error
      BY <1>1, <1>e, <1>7, <2>5 DEF Turn
    <3>2. R2 = Error
      BY <1>1, <1>e, <1>8, <2>1, <2>2, <2>4, <2>5 DEF Turn
    <3> QED BY <1>e, <3>1, <3>2, ResultTypes
  <2>6. ASSUME is_i64(hdr.args), ~(len < 0), ~(len > MaxBulkLen) PROVE Goal
    <3>1. len \in Nat
      <4>1. len \in Int
        BY <1>5, <2>3, <2>6, NumberType
      <4> QED BY <4>1, <2>6
    <3>2. PICK q : q = hdr.next
      OBVIOUS
    <3>3. q \in Nat /\ q >= from + 2 /\ end = q + len /\ end \in Nat
      BY <1>5, <2>3, <3>1, <3>2
    <3>4. CASE Len(a) < end + 1
      <4>1. R = More
        BY <1>1, <1>e, <1>7, <2>6, <3>4 DEF Turn
      <4> QED BY <1>e, <4>1, ResultTypes
    <3>5. ASSUME ~(Len(a) < end + 1) PROVE Goal
      <4>1. ~(Len(b) < end + 1) /\ end + 1 <= Len(a) /\ end \in Nat \ {0} /\ end + 1 \in Int /\ end - 1 \in Int
             /\ end - 1 <= Len(a) /\ q \in Nat \ {0}
        <5>1. PICK n, m : n = Len(a) /\ m = Len(b)
          OBVIOUS
        <5>2. n \in Nat /\ m \in Nat /\ n <= m /\ ~(n < end + 1)
          BY <1>3, <3>5, <5>1
        <5>3. end \in Nat /\ q \in Nat /\ q >= 1 /\ end >= 1
          BY <1>2, <3>1, <3>3
        <5> QED BY <5>1, <5>2, <5>3
      <4>2. SubSeq(b, end, end + 1) = SubSeq(a, end, end + 1)
        BY <1>1, <4>1, PieceStays
      <4>3. SubSeq(b, q, end - 1) = SubSeq(a, q, end - 1)
        BY <1>1, <4>1, PieceStays
      <4>4. CASE SubSeq(a, end, end + 1) # Crlf
        <5>1. R = Error
          BY <1>1, <1>e, <1>7, <2>6, <3>5, <4>4 DEF Turn
        <5>2. R2 = Error
          BY <1>1, <1>e, <1>8, <2>1, <2>2, <2>4, <2>6, <4>1, <4>2, <4>4 DEF Turn
        <5> QED BY <1>e, <5>1, <5>2, ResultTypes
      <4>5. CASE SubSeq(a, end, end + 1) = Crlf
        <5>1. PICK y : y = Append(args, SubSeq(a, q, end - 1))
          OBVIOUS
        <5>2. R = Parsed(y, end + 2)
          BY <1>1, <1>e, <1>7, <2>6, <3>2, <3>5, <4>5, <5>1 DEF Turn
        <5>3. R2 = Parsed(y, end + 2)
          BY <1>1, <1>e, <1>8, <2>1, <2>2, <2>4, <2>6, <3>2, <4>1, <4>2, <4>3, <4>5, <5>1 DEF Turn
        <5>4. SubSeq(a, q, end - 1) \in Seq(STRING)
          BY <4>1, PieceType
        <5>5. y \in Seq(Seq(STRING))
          BY <1>2, <5>1, <5>4
        <5>6. end + 2 \in Nat \ {0} /\ end + 2 <= Len(a) + 1
          BY <1>3, <4>1
        <5> QED BY <1>e, <5>2, <5>3, <5>5, <5>6, ResultTypes
      <4> QED BY <4>4, <4>5
    <3> QED BY <3>4, <3>5
  <2> QED BY <2>5, <2>6
<1> QED BY <1>a, <1>b, <1>c, <1>d, <1>e

\* The loop of parse_multibulk: n turns from a start.
Loop(input, start, n) ==
    LET loop[i \in 0..n] == IF i = 0 THEN start ELSE parse_argument(input)[loop[i - 1]]
    IN  loop[n]

LEMMA TurnType ==
    ASSUME NEW a \in Seq(STRING), NEW acc \in Turns
    PROVE  parse_argument(a)[acc] \in Turns
<1>1. <<>> \in Seq(STRING)
  OBVIOUS
<1> QED BY <1>1, TurnStays

\* f is what the loop has after each turn.
Looped(f, a, start, n) ==
    /\ f \in [0..n -> Turns] /\ f[0] = start /\ Loop(a, start, n) = f[n]
    /\ \A i \in 1..n : f[i] = parse_argument(a)[f[i - 1]]

LEMMA LoopIs ==
    ASSUME NEW a \in Seq(STRING), NEW start \in Turns, NEW n \in Nat
    PROVE  \E f : Looped(f, a, start, n)
<1>1. PICK step : step = [i \in 1..n |-> [acc \in Turns |-> parse_argument(a)[acc]]]
  OBVIOUS
<1>2. step \in [1..n -> [Turns -> Turns]]
  BY <1>1, TurnType
<1>3. PICK f \in [0..n -> Turns] : f[0] = start /\ \A i \in 1..n : f[i] = step[i][f[i - 1]]
  <2>1. \E f : Runs(f, Turns, start, n, step)
    BY <1>2, BoundedRecursion
  <2> QED BY <2>1 DEF Runs
<1>4. ASSUME NEW i \in 1..n PROVE f[i] = parse_argument(a)[f[i - 1]]
  <2>1. i - 1 \in 0..n
    OBVIOUS
  <2>2. f[i - 1] \in Turns
    BY <1>3, <2>1
  <2>3. step[i][f[i - 1]] = parse_argument(a)[f[i - 1]]
    BY <1>1, <2>2
  <2> QED BY <1>3, <2>3
<1>5. f = [i \in 0..n |-> IF i = 0 THEN start ELSE parse_argument(a)[f[i - 1]]]
  <2>1. \A i \in 0..n : f[i] = IF i = 0 THEN start ELSE parse_argument(a)[f[i - 1]]
    BY <1>3, <1>4
  <2>2. f = [i \in 0..n |-> f[i]]
    BY <1>3
  <2> QED BY <2>1, <2>2
<1> DEFINE loop[i \in 0..n] == IF i = 0 THEN start ELSE parse_argument(a)[loop[i - 1]]
<1>6. loop = [i \in 0..n |-> IF i = 0 THEN start ELSE parse_argument(a)[loop[i - 1]]]
  BY <1>5
<1>7. Loop(a, start, n) = loop[n]
  BY DEF Loop
<1> HIDE DEF loop
<1>8. loop[0] = start /\ \A i \in 1..n : loop[i] = parse_argument(a)[loop[i - 1]]
  <2>1. 0 \in 0..n /\ \A i \in 1..n : i \in 0..n /\ i # 0
    OBVIOUS
  <2> QED BY <1>6, <2>1
<1> DEFINE T == {i \in 0..n : loop[i] = f[i]}
<1>9. 0 \in T
  BY <1>3, <1>8
<1>10. ASSUME NEW i \in 1..n, i - 1 \in T PROVE i \in T
  BY <1>4, <1>8, <1>10
<1>11. n \in T
  <2> HIDE DEF T
  <2>1. \A i \in 0..n : i \in T
    BY <1>9, <1>10, UpTo
  <2> QED BY <2>1
<1> QED BY <1>3, <1>4, <1>7, <1>11 DEF Looped

LEMMA LoopStays ==
    ASSUME NEW a \in Seq(STRING), NEW x \in Seq(STRING), NEW n \in Nat,
           NEW start \in Turns, start.next <= Len(a) + 1
    PROVE  /\ Loop(a, start, n) \in Turns
           /\ Loop(a, start, n).st = "parsed" => Loop(a, start, n).next <= Len(a) + 1
           /\ Loop(a, start, n).st # "more" => Loop(a \o x, start, n) = Loop(a, start, n)
<1>1. PICK b : b = a \o x
  OBVIOUS
<1>2. b \in Seq(STRING)
  BY <1>1, ConcatHas
<1>3. PICK f : Looped(f, a, start, n)
  BY LoopIs
<1>4. PICK g : Looped(g, b, start, n)
  BY <1>2, LoopIs
<1> DEFINE T == {i \in 0..n : /\ f[i].st = "parsed" => f[i].next <= Len(a) + 1
                              /\ f[i].st # "more" => g[i] = f[i]}
<1>5. 0 \in T
  BY <1>3, <1>4 DEF Looped
<1>6. ASSUME NEW i \in 1..n, i - 1 \in T PROVE i \in T
  <2>1. PICK u, v, p, q : u = f[i - 1] /\ v = f[i] /\ p = g[i - 1] /\ q = g[i]
    OBVIOUS
  <2>2. u \in Turns /\ v = parse_argument(a)[u] /\ q = parse_argument(b)[p] /\ (u.st # "more" => p = u)
    BY <1>3, <1>4, <1>6, <2>1 DEF Looped
  <2>3. /\ v.st = "parsed" => u.st = "parsed" /\ v.next <= Len(a) + 1
        /\ u.st # "parsed" => v = u
        /\ v.st # "more" => parse_argument(b)[u] = v
    BY <1>1, <2>2, TurnStays
  <2>4. v.st # "more" => u.st # "more"
    BY <2>3
  <2>5. v.st # "more" => q = v
    BY <2>2, <2>3, <2>4
  <2> QED BY <2>1, <2>3, <2>5
<1>7. n \in T
  <2> HIDE DEF T
  <2>1. \A i \in 0..n : i \in T
    BY <1>5, <1>6, UpTo
  <2> QED BY <2>1
<1> QED BY <1>1, <1>3, <1>4, <1>7 DEF Looped

\* A parse that has an answer keeps it when more bytes follow.
Settled(input, longer, parse(_)) ==
    parse(input).st # "more" =>
        /\ parse(longer) = parse(input)
        /\ parse(input).st = "parsed" => parse(input).next \in Nat /\ parse(input).next <= Len(input) + 1
        /\ parse(input).st = "parsed" \/ parse(input).st = "error"

\* parse_multibulk with the header line and its number.
Multi(input, hdr, count) ==
    IF hdr.st = "more" THEN More
    ELSE IF ~is_i64(hdr.args) THEN Error
    ELSE IF count <= 0 THEN Parsed(<<>>, hdr.next)
    ELSE IF count > MaxArrayLen THEN Error
    ELSE Loop(input, Parsed(<<>>, hdr.next), count)

LEMMA MultiIs ==
    ASSUME NEW input, NEW hdr, hdr = read_line(input, 2)
    PROVE  parse_multibulk(input) = Multi(input, hdr, parse_i64(hdr.args))
  BY DEF parse_multibulk, Multi, Loop

LEMMA MultibulkStays ==
    ASSUME NEW a \in Seq(STRING), NEW x \in Seq(STRING)
    PROVE  Settled(a, a \o x, parse_multibulk)
<1>1. PICK b, hdr, hdr2, R, R2 : /\ b = a \o x /\ hdr = read_line(a, 2) /\ hdr2 = read_line(b, 2)
                                 /\ R = parse_multibulk(a) /\ R2 = parse_multibulk(b)
  OBVIOUS
<1>2. PICK count, count2 : count = parse_i64(hdr.args) /\ count2 = parse_i64(hdr2.args)
  OBVIOUS
<1>3. R = Multi(a, hdr, count) /\ R2 = Multi(b, hdr2, count2)
  BY <1>1, <1>2, MultiIs
<1>4. b \in Seq(STRING) /\ Len(a) \in Nat
  BY <1>1, ConcatHas
<1> SUFFICES ASSUME R.st # "more"
             PROVE  /\ R2 = R
                    /\ R.st = "parsed" => R.next \in Nat /\ R.next <= Len(a) + 1
                    /\ R.st = "parsed" \/ R.st = "error"
  BY <1>1 DEF Settled
<1>5. hdr.st # "more"
  BY <1>3, ResultTypes DEF Multi
<1>6. hdr2 = hdr /\ count2 = count
  BY <1>1, <1>2, <1>5, LineStays
<1>7. hdr.args \in Seq(STRING) /\ hdr.next \in Nat \ {0} /\ hdr.next <= Len(a) + 1
  <2>1. /\ hdr.args \in Seq(STRING) /\ hdr.next \in Nat /\ hdr.next >= 2 + 2 /\ hdr.next <= Len(a) + 1
    BY <1>1, <1>5, HeaderIs
  <2> QED BY <2>1
<1>8. PICK start : start = Parsed(<<>>, hdr.next)
  OBVIOUS
<1>9. start \in Turns /\ start.st = "parsed" /\ start.next = hdr.next
  <2>1. <<>> \in Seq(Seq(STRING))
    OBVIOUS
  <2> QED BY <1>7, <1>8, <2>1, ResultTypes
<1>10. CASE ~is_i64(hdr.args)
  <2>1. R = Error /\ R2 = Error
    BY <1>3, <1>5, <1>6, <1>10 DEF Multi
  <2> QED BY <2>1, ResultTypes
<1>11. CASE is_i64(hdr.args) /\ count <= 0
  <2>1. R = start /\ R2 = start
    BY <1>3, <1>5, <1>6, <1>8, <1>11 DEF Multi
  <2> QED BY <1>7, <1>9, <2>1
<1>12. CASE is_i64(hdr.args) /\ ~(count <= 0) /\ count > MaxArrayLen
  <2>1. R = Error /\ R2 = Error
    BY <1>3, <1>5, <1>6, <1>12 DEF Multi
  <2> QED BY <2>1, ResultTypes
<1>13. CASE is_i64(hdr.args) /\ ~(count <= 0) /\ ~(count > MaxArrayLen)
  <2>1. count \in Nat
    <3>1. count \in Int
      BY <1>2, <1>7, <1>13, NumberType
    <3> QED BY <3>1, <1>13
  <2>2. R = Loop(a, start, count) /\ R2 = Loop(b, start, count)
    BY <1>3, <1>5, <1>6, <1>8, <1>13 DEF Multi
  <2>3. /\ R \in Turns
        /\ R.st = "parsed" => R.next <= Len(a) + 1
        /\ R.st # "more" => R2 = R
    BY <1>1, <1>7, <1>9, <2>1, <2>2, LoopStays
  <2>4. R.next \in Nat /\ (R.st = "more" \/ R.st = "parsed" \/ R.st = "error")
    BY <2>3 DEF Turns, Results
  <2> QED BY <2>3, <2>4
<1> QED BY <1>10, <1>11, <1>12, <1>13

-----------------------------------------------------------------------------
(* Requests: bytes that follow do not change what has been decoded.          *)

\* An inline line of exactly the limit, cut between its CR and its LF.
Cut(a, b) == Len(a) = MaxInlineLen + 1 /\ EndsAt(b, 1, Len(a))

LEMMA InlineStays ==
    ASSUME NEW a \in Seq(STRING), NEW x \in Seq(STRING)
    PROVE  Settled(a, a \o x, parse_inline) \/ (parse_inline(a) = Error /\ Cut(a, a \o x))
<1>0. PICK b, R, R2 : b = a \o x /\ R = parse_inline(a) /\ R2 = parse_inline(b)
  OBVIOUS
<1> SUFFICES ASSUME R.st # "more", ~(R = Error /\ Cut(a, b))
             PROVE  /\ R2 = R
                    /\ R.st = "parsed" => R.next \in Nat /\ R.next <= Len(a) + 1
                    /\ R.st = "parsed" \/ R.st = "error"
  BY <1>0 DEF Settled
<1>1. PICK l, l2 : /\ b = a \o x /\ R = parse_inline(a) /\ R2 = parse_inline(b)
                   /\ l = read_line(a, 1) /\ l2 = read_line(b, 1)
  BY <1>0
<1>2. PICK split, split2 : split = split_inline(l.args) /\ split2 = split_inline(l2.args)
  OBVIOUS
<1>3. /\ R = IF l.st = "more"
             THEN IF Len(a) > MaxInlineLen THEN Error ELSE More
             ELSE IF Len(l.args) > MaxInlineLen \/ split.st = "error" THEN Error
             ELSE Parsed(split.args, l.next)
      /\ R2 = IF l2.st = "more"
              THEN IF Len(b) > MaxInlineLen THEN Error ELSE More
              ELSE IF Len(l2.args) > MaxInlineLen \/ split2.st = "error" THEN Error
              ELSE Parsed(split2.args, l2.next)
  BY <1>1, <1>2 DEF parse_inline
<1>4. /\ b \in Seq(STRING) /\ Len(b) = Len(a) + Len(x) /\ Len(a) \in Nat /\ Len(x) \in Nat
  BY <1>1, ConcatHas
<1>5. MaxInlineLen \in Nat
  BY LimitsAssumption
<1>6. CASE l.st # "more"
  <2>1. l2 = l /\ split2 = split
    BY <1>1, <1>2, <1>6, LineStays
  <2>2. PICK i : EndsAt(a, 1, i) /\ l = Line(a, 1, i)
    BY <1>1, <1>6, LineStays
  <2>3. l.next = i + 2 /\ i \in 1 .. Len(a) - 1
    BY <2>2 DEF EndsAt, Line, Parsed
  <2>4. l.next \in Nat /\ l.next <= Len(a) + 1
    BY <1>4, <2>3
  <2>5. R2 = R /\ (R = Error \/ R = Parsed(split.args, l.next))
    BY <1>3, <1>6, <2>1
  <2> QED BY <2>4, <2>5 DEF Error, Parsed
<1>7. CASE l.st = "more"
  <2>1. Len(a) > MaxInlineLen /\ R = Error
    BY <1>3, <1>7 DEF More
  <2>2. CASE l2.st = "more"
    <3>1. Len(b) > MaxInlineLen
      BY <1>4, <1>5, <2>1
    <3>2. R2 = Error
      BY <1>3, <2>2, <3>1
    <3> QED BY <2>1, <3>2 DEF Error
  <2>3. CASE l2.st # "more"
    <3>1. PICK i : EndsAt(b, 1, i) /\ l2 = Line(b, 1, i)
      <4>0. PICK from : from = 1 /\ from \in Nat
        OBVIOUS
      <4>1. PICK i : EndsAt(b, 1, i)
        <5>1. read_line(b, from) # More
          BY <1>1, <2>3, <4>0 DEF More
        <5>2. \E i : EndsAt(b, from, i)
          BY <1>4, <4>0, <5>1, NoLine
        <5> QED BY <4>0, <5>2
      <4>2. read_line(b, 1) = Line(b, 1, i)
        BY <1>4, <4>1, LineFound
      <4> QED BY <1>1, <4>1, <4>2
    <3>2. i \in 1 .. Len(b) - 1
      BY <3>1 DEF EndsAt
    <3>3. ~(i < Len(a))
      <4> SUFFICES ASSUME i < Len(a) PROVE FALSE
        OBVIOUS
      <4>1. EndsAt(a, 1, i)
        BY <1>1, <3>1, EndStays
      <4>2. l = Line(a, 1, i)
        BY <1>1, <4>1, LineFound
      <4> QED BY <1>7, <4>2 DEF Line, Parsed
    <3>4. Len(l2.args) = i - 1
      <4>1. l2.args = SubSeq(b, 1, i - 1)
        BY <3>1 DEF Line, Parsed
      <4>2. 1 \in Int /\ i - 1 \in Int /\ \A j \in 1..i - 1 : b[j] \in STRING
        BY <1>4, <3>2
      <4>3. Len(SubSeq(b, 1, i - 1)) = IF 1 <= i - 1 THEN i - 1 - 1 + 1 ELSE 0
        BY <4>2, SubSeqProperties
      <4> QED BY <3>2, <4>1, <4>3
    <3>5. CASE i - 1 > MaxInlineLen
      <4>1. R2 = Error
        BY <1>3, <2>3, <3>4, <3>5
      <4> QED BY <2>1, <4>1 DEF Error
    <3>6. CASE ~(i - 1 > MaxInlineLen)
      <4>1. i = Len(a) /\ Len(a) = MaxInlineLen + 1
        BY <1>4, <1>5, <2>1, <3>2, <3>3, <3>6
      <4> QED BY <2>1, <3>1, <4>1 DEF Cut
    <3> QED BY <3>5, <3>6
  <2> QED BY <2>2, <2>3
<1> QED BY <1>6, <1>7

\* The hypothesis of the theorem: no client sends an inline line of exactly the limit.
OffLimit(r) == ~r.bad /\ r.wire[1] # "*" => Len(r.wire) # MaxInlineLen + 2
NoLimitLine == \A s \in Streams, c \in Conns : \A i \in DOMAIN s[c] : OffLimit(s[c][i])

\* What decode_command has made of the buffer stays; the exception is an inline
\* line of exactly the limit.
LEMMA DecodeStays ==
    ASSUME NEW a \in Seq(STRING), NEW x \in Seq(STRING)
    PROVE  \/ Settled(a, a \o x, decode_command)
           \/ a # <<>> /\ a[1] # "*" /\ decode_command(a).st = "error" /\ Cut(a, a \o x)
<1>1. PICK b : b = a \o x
  OBVIOUS
<1>2. /\ b \in Seq(STRING) /\ Len(b) = Len(a) + Len(x) /\ Len(a) \in Nat /\ Len(x) \in Nat
      /\ \A i \in 1..Len(a) : b[i] = a[i]
  BY <1>1, ConcatHas
<1>3. CASE a = <<>>
  BY <1>3 DEF Settled, decode_command, More
<1>4. CASE a # <<>>
  <2>1. b # <<>> /\ b[1] = a[1]
    <3>1. Len(a) >= 1
      BY <1>4
    <3>2. Len(b) >= 1 /\ 1 \in 1..Len(a)
      BY <1>2, <3>1
    <3> QED BY <1>2, <3>2
  <2>2. CASE a[1] = "*"
    <3>1. decode_command(a) = parse_multibulk(a) /\ decode_command(b) = parse_multibulk(b)
      BY <1>4, <2>1, <2>2 DEF decode_command
    <3>2. Settled(a, b, parse_multibulk)
      BY <1>1, MultibulkStays
    <3> QED BY <1>1, <3>1, <3>2 DEF Settled
  <2>3. CASE a[1] # "*"
    <3>1. decode_command(a) = parse_inline(a) /\ decode_command(b) = parse_inline(b)
      BY <1>4, <2>1, <2>3 DEF decode_command
    <3>2. Settled(a, b, parse_inline) \/ (parse_inline(a) = Error /\ Cut(a, b))
      BY <1>1, InlineStays
    <3> QED BY <1>1, <1>4, <2>3, <3>1, <3>2 DEF Settled, Error
  <2> QED BY <2>2, <2>3
<1> QED BY <1>3, <1>4

\* The bytes of a good request, all of them and what follows, are that request.
LEMMA GoodWhole ==
    ASSUME NEW r \in Requests, Sound(r), ~r.bad, NEW y \in Seq(STRING)
    PROVE  decode_command(r.wire \o y) = Parsed(r.means, Len(r.wire) + 1)
<1>1. r.wire \in Seq(STRING) /\ decode_command(r.wire) = Parsed(r.means, Len(r.wire) + 1)
  BY DEF Requests, Sound
<1>2. decode_command(r.wire).st = "parsed"
  BY <1>1 DEF Parsed
<1>3. Settled(r.wire, r.wire \o y, decode_command)
  BY <1>1, <1>2, DecodeStays
<1> QED BY <1>1, <1>2, <1>3 DEF Settled

\* A part of them waits for the rest.
LEMMA GoodPart ==
    ASSUME NEW r \in Requests, Sound(r), OffLimit(r), ~r.bad,
           NEW p \in Seq(STRING), NEW q \in Seq(STRING), p \o q = r.wire, q # <<>>
    PROVE  decode_command(p).st = "more"
<1> SUFFICES ASSUME decode_command(p).st # "more" PROVE FALSE
  OBVIOUS
<1>1. PICK w, size : w = r.wire /\ size = Len(w)
  OBVIOUS
<1>2. w \in Seq(STRING) /\ decode_command(w) = Parsed(r.means, size + 1) /\ (w[1] # "*" => size # MaxInlineLen + 2)
  <2>1. w \in Seq(STRING) /\ decode_command(w) = Parsed(r.means, size + 1)
    BY <1>1 DEF Requests, Sound
  <2>2. w[1] # "*" => size # MaxInlineLen + 2
    BY <1>1, Zenon DEF OffLimit
  <2> QED BY <2>1, <2>2
<1>3. /\ size = Len(p) + Len(q) /\ Len(p) \in Nat /\ Len(q) \in Nat
      /\ \A i \in 1..Len(p) : w[i] = p[i]
  <2>1. p \in Seq(STRING) /\ q \in Seq(STRING) /\ w = p \o q
    BY <1>1
  <2> QED BY ONLY <1>1, <2>1, ConcatHas
<1>4. Len(q) # 0
  OBVIOUS
<1>5. decode_command(w).next = size + 1 /\ decode_command(w).st = "parsed"
  BY <1>2 DEF Parsed
<1>6. CASE Settled(p, w, decode_command)
  <2>1. decode_command(w) = decode_command(p) /\ decode_command(p).next <= Len(p) + 1
    BY <1>5, <1>6 DEF Settled
  <2>2. size + 1 <= Len(p) + 1
    BY <1>5, <2>1
  <2> QED BY <1>3, <1>4, <2>2
<1>7. CASE p # <<>> /\ p[1] # "*" /\ Cut(p, w)
  <2>1. Len(p) = MaxInlineLen + 1 /\ EndsAt(w, 1, Len(p))
    BY <1>7 DEF Cut
  <2>2. w # <<>> /\ w[1] # "*"
    <3>1. Len(p) >= 1 /\ size >= 1
      BY <1>3, <1>7
    <3>2. w[1] = p[1]
      BY <1>3, <3>1
    <3> QED BY <1>1, <1>7, <3>1, <3>2
  <2>3. decode_command(w) = parse_inline(w)
    BY <2>2 DEF decode_command
  <2>4. PICK l : l = read_line(w, 1)
    OBVIOUS
  <2>5. l = Line(w, 1, Len(p))
    BY <1>2, <2>1, <2>4, LineFound
  <2>6. l.st = "parsed" /\ l.next = Len(p) + 2
    BY <2>5 DEF Line, Parsed
  <2>7. parse_inline(w) = Error \/ \E args : parse_inline(w) = Parsed(args, l.next)
    BY <2>4, <2>6 DEF parse_inline
  <2>8. decode_command(w).next = l.next
    BY <1>5, <2>3, <2>7 DEF Error, Parsed
  <2>9. size + 1 = Len(p) + 2
    BY <1>5, <2>6, <2>8
  <2>10. size = MaxInlineLen + 2
    BY <1>1, <1>2, <2>1, <2>9, LimitsAssumption
  <2> QED BY <1>2, <2>2, <2>10
<1> QED BY <1>1, <1>6, <1>7, DecodeStays

\* Malformed bytes never pass for a request, and are refused at their end at the
\* latest.
LEMMA BadPart ==
    ASSUME NEW r \in Requests, Sound(r), r.bad,
           NEW p \in Seq(STRING), NEW q \in Seq(STRING), p \o q = r.wire
    PROVE  decode_command(p).st # "parsed"
<1> SUFFICES ASSUME decode_command(p).st = "parsed" PROVE FALSE
  OBVIOUS
<1>1. decode_command(r.wire).st = "error"
  BY DEF Sound
<1>2. Settled(p, p \o q, decode_command)
  BY DecodeStays
<1> QED BY <1>1, <1>2 DEF Settled

LEMMA BadWhole ==
    ASSUME NEW r \in Requests, Sound(r), r.bad, NEW y \in Seq(STRING)
    PROVE  decode_command(r.wire \o y).st = "error"
<1>1. PICK w, b : w = r.wire /\ b = w \o y
  OBVIOUS
<1>2. w \in Seq(STRING) /\ decode_command(w).st = "error" /\ w[Len(w)] # "CR"
  BY <1>1 DEF Requests, Sound
<1>3. CASE Settled(w, b, decode_command)
  BY <1>1, <1>2, <1>3 DEF Settled
<1>4. CASE w # <<>> /\ Cut(w, b)
  <2>1. b[Len(w)] = "CR"
    BY <1>4 DEF Cut, EndsAt, CrlfAt
  <2>2. Len(w) \in 1..Len(w) /\ \A i \in 1..Len(w) : b[i] = w[i]
    BY <1>1, <1>2, <1>4, ConcatHas
  <2> QED BY <1>2, <2>1, <2>2
<1> QED BY <1>1, <1>2, <1>3, <1>4, DecodeStays

-----------------------------------------------------------------------------
(* Streams: the bytes and the replies of the first k requests.               *)

LEMMA Cancel ==
    ASSUME NEW S, NEW a \in Seq(S), NEW c \in Seq(S), NEW d \in Seq(S), a \o c = a \o d
    PROVE  c = d
<1>1. SubSeq(a \o c, Len(a) + 1, Len(a \o c)) = c
  BY TailOf
<1>2. SubSeq(a \o d, Len(a) + 1, Len(a \o d)) = d
  BY TailOf
<1> QED BY <1>1, <1>2

\* The buffer b and what is to come are the next bytes w and what follows them.
Overlap(b, rest, w, z) == b \o rest = w \o z
PartOf(b, w) == \E q \in Seq(STRING) : q # <<>> /\ b \o q = w
Beyond(b, rest, w, z) == \E y \in Seq(STRING) : b = w \o y /\ y \o rest = z

\* The buffer has a part of them.
LEMMA FrontPart ==
    ASSUME NEW b \in Seq(STRING), NEW rest \in Seq(STRING), NEW w \in Seq(STRING), NEW z \in Seq(STRING),
           Overlap(b, rest, w, z), Len(b) < Len(w)
    PROVE  PartOf(b, w)
<1>0. PICK u : u = b \o rest
  OBVIOUS
<1>1. Len(b) \in Nat /\ \A i \in 1..Len(b) : u[i] = b[i]
  BY <1>0, ConcatHas
<1>2. Len(w) \in Nat /\ \A i \in 1..Len(w) : u[i] = w[i]
  <2>1. u = w \o z
    BY <1>0 DEF Overlap
  <2> QED BY <2>1, ConcatHas
<1>3. Len(b) <= Len(w) /\ \A i \in 1..Len(b) : b[i] = w[i]
  BY <1>1, <1>2
<1>4. IsPrefix(b, w)
  <2>1. w \in Seq(STRING) /\ b \in Seq(STRING)
    OBVIOUS
  <2> QED BY ONLY <1>3, <2>1, PrefixIff
<1>5. PICK q \in Seq(STRING) : w = b \o q
  <2>1. b \in Seq(STRING) /\ w \in Seq(STRING)
    OBVIOUS
  <2> QED BY ONLY <1>4, <2>1, PrefixSplit
<1>6. Len(w) = Len(b) + Len(q)
  <2>1. b \in Seq(STRING) /\ q \in Seq(STRING)
    BY <1>5
  <2> QED BY ONLY <1>5, <2>1, ConcatHas
<1>7. q # <<>>
  BY <1>1, <1>6
<1> QED BY <1>5, <1>7 DEF PartOf

\* It has them all, and some of what follows.
LEMMA FrontWhole ==
    ASSUME NEW b \in Seq(STRING), NEW rest \in Seq(STRING), NEW w \in Seq(STRING), NEW z \in Seq(STRING),
           Overlap(b, rest, w, z), ~(Len(b) < Len(w))
    PROVE  Beyond(b, rest, w, z)
<1>0. PICK u : u = b \o rest
  OBVIOUS
<1>1. Len(b) \in Nat /\ \A i \in 1..Len(b) : u[i] = b[i]
  BY <1>0, ConcatHas
<1>2. Len(w) \in Nat /\ \A i \in 1..Len(w) : u[i] = w[i]
  <2>1. u = w \o z
    BY <1>0 DEF Overlap
  <2> QED BY <2>1, ConcatHas
<1>3. Len(w) <= Len(b) /\ \A i \in 1..Len(w) : w[i] = b[i]
  BY <1>1, <1>2
<1>4. IsPrefix(w, b)
  <2>1. w \in Seq(STRING) /\ b \in Seq(STRING)
    OBVIOUS
  <2> QED BY ONLY <1>3, <2>1, PrefixIff
<1>5. PICK y \in Seq(STRING) : b = w \o y
  <2>1. w \in Seq(STRING) /\ b \in Seq(STRING)
    OBVIOUS
  <2> QED BY ONLY <1>4, <2>1, PrefixSplit
<1>6. (w \o y) \o rest = w \o (y \o rest)
  <2>1. w \in Seq(STRING) /\ y \in Seq(STRING) /\ rest \in Seq(STRING)
    BY <1>5
  <2> QED BY ONLY <2>1, Assoc
<1>7. PICK c : c = y \o rest
  OBVIOUS
<1>8. c \in Seq(STRING) /\ w \o c = w \o z
  <2>1. c \in Seq(STRING)
    BY <1>5, <1>7, ConcatHas
  <2> QED BY <1>5, <1>6, <1>7, <2>1 DEF Overlap
<1>9. c = z
  BY <1>8, Cancel
<1> QED BY <1>5, <1>7, <1>9 DEF Beyond

\* g[k] is the bytes of the first k requests of s.
Sends(g, s) ==
    /\ g \in [0..Len(s) -> Seq(STRING)] /\ g[0] = <<>> /\ Bytes(s) = g[Len(s)]
    /\ \A i \in 1..Len(s) : g[i] = g[i - 1] \o s[i].wire

LEMMA BytesAre ==
    ASSUME NEW s \in Seq(Requests)
    PROVE  \E g : Sends(g, s)
<1>1. PICK n : n = Len(s) /\ n \in Nat
  OBVIOUS
<1>2. \A i \in 1..n : s[i].wire \in Seq(STRING)
  <2>1. \A i \in 1..n : s[i] \in Requests
    BY <1>1
  <2> QED BY <2>1 DEF Requests
<1>3. PICK step : step = [i \in 1..n |-> [p \in Seq(STRING) |-> p \o s[i].wire]]
  OBVIOUS
<1>4. step \in [1..n -> [Seq(STRING) -> Seq(STRING)]]
  <2>1. \A i \in 1..n : \A p \in Seq(STRING) : p \o s[i].wire \in Seq(STRING)
    BY <1>2, ConcatHas
  <2> QED BY <1>3, <2>1
<1>5. PICK f \in [0..n -> Seq(STRING)] : f[0] = <<>> /\ \A i \in 1..n : f[i] = step[i][f[i - 1]]
  <2>1. <<>> \in Seq(STRING) /\ n \in Nat
    BY <1>1
  <2>2. \E f : Runs(f, Seq(STRING), <<>>, n, step)
    BY <1>4, <2>1, BoundedRecursion
  <2> QED BY <2>2 DEF Runs
<1>6. ASSUME NEW i \in 1..n PROVE f[i] = f[i - 1] \o s[i].wire
  <2>1. i - 1 \in 0..n
    BY <1>1
  <2>2. f[i - 1] \in Seq(STRING)
    BY <1>5, <2>1
  <2> QED BY <1>3, <1>5, <2>2
<1>7. f = [i \in 0..n |-> IF i = 0 THEN <<>> ELSE f[i - 1] \o s[i].wire]
  <2>0. \A i \in 0..n : i = 0 \/ i \in 1..n
    BY <1>1
  <2>1. \A i \in 0..n : f[i] = IF i = 0 THEN <<>> ELSE f[i - 1] \o s[i].wire
    BY <1>5, <1>6, <2>0, Zenon
  <2>2. f = [i \in 0..n |-> f[i]]
    BY <1>5
  <2> QED BY <2>1, <2>2
<1> DEFINE bytes[i \in 0 .. Len(s)] == IF i = 0 THEN <<>> ELSE bytes[i - 1] \o s[i].wire
<1>8. bytes = [i \in 0..n |-> IF i = 0 THEN <<>> ELSE bytes[i - 1] \o s[i].wire]
  BY <1>1, <1>7
<1>9. Bytes(s) = bytes[n]
  BY <1>1 DEF Bytes
<1> HIDE DEF bytes
<1>10. bytes[0] = <<>> /\ \A i \in 1..n : bytes[i] = bytes[i - 1] \o s[i].wire
  <2>1. 0 \in 0..n /\ \A i \in 1..n : i \in 0..n /\ i # 0
    BY <1>1
  <2> QED BY <1>8, <2>1
<1> DEFINE T == {i \in 0..n : bytes[i] = f[i]}
<1>11. 0 \in T
  BY <1>1, <1>5, <1>10
<1>12. ASSUME NEW i \in 1..n, i - 1 \in T PROVE i \in T
  <2>1. bytes[i - 1] = f[i - 1] /\ i \in 0..n
    BY <1>1, <1>12
  <2>2. f[i] = f[i - 1] \o s[i].wire /\ bytes[i] = bytes[i - 1] \o s[i].wire
    BY <1>6, <1>10
  <2>3. bytes[i] = f[i]
    BY <2>1, <2>2, Zenon
  <2> QED BY <2>1, <2>3
<1>13. n \in T
  <2> HIDE DEF T
  <2>1. \A i \in 0..n : i \in T
    BY <1>1, <1>11, <1>12, UpTo
  <2> QED BY <1>1, <2>1
<1>14. Sends(f, s)
  BY <1>1, <1>5, <1>6, <1>9, <1>13 DEF Sends
<1> QED BY <1>14

\* The bytes of the first k requests come first.
LEMMA BytesAhead ==
    ASSUME NEW s \in Seq(Requests), NEW g, Sends(g, s), NEW k \in 0..Len(s)
    PROVE  \E z \in Seq(STRING) : Bytes(s) = g[k] \o z
<1>1. PICK n : n = Len(s) /\ n \in Nat
  OBVIOUS
<1>2. \A i \in 1..n : s[i].wire \in Seq(STRING)
  <2>1. \A i \in 1..n : s[i] \in Requests
    BY <1>1
  <2> QED BY <2>1 DEF Requests
<1>3. /\ g \in [0..n -> Seq(STRING)] /\ Bytes(s) = g[n] /\ k \in 0..n
      /\ \A i \in 1..n : g[i] = g[i - 1] \o s[i].wire
  BY <1>1 DEF Sends
<1> DEFINE T == {i \in 0..n : i >= k => \E z \in Seq(STRING) : g[i] = g[k] \o z}
<1>4. k \in T
  <2>1. g[k] \o <<>> = g[k] /\ <<>> \in Seq(STRING)
    BY <1>3, ConcatEmptySeq
  <2> QED BY <1>3, <2>1
<1>5. 0 \in T
  <2>1. CASE k = 0
    BY <1>4, <2>1
  <2>2. CASE k # 0
    BY <1>1, <1>3, <2>2
  <2> QED BY <2>1, <2>2
<1>6. ASSUME NEW i \in 1..n, i - 1 \in T PROVE i \in T
  <2>1. CASE i <= k
    <3>1. i = k \/ ~(i >= k)
      BY <1>1, <1>3, <2>1
    <3> QED BY <1>1, <1>4, <3>1
  <2>2. CASE ~(i <= k)
    <3>1. i - 1 >= k /\ i \in 0..n
      BY <1>1, <1>3, <2>2
    <3>2. PICK z \in Seq(STRING) : g[i - 1] = g[k] \o z
      BY <1>6, <3>1
    <3>3. PICK w : w = s[i].wire /\ w \in Seq(STRING)
      BY <1>2
    <3>4. PICK h : h = g[k] /\ h \in Seq(STRING)
      BY <1>3
    <3>5. (h \o z) \o w = h \o (z \o w)
      <4>1. h \in Seq(STRING) /\ z \in Seq(STRING) /\ w \in Seq(STRING)
        BY <3>3, <3>4
      <4> HIDE DEF T
      <4> QED BY ONLY <4>1, Assoc
    <3>6. z \o w \in Seq(STRING)
      BY <3>2, <3>3, ConcatHas
    <3>7. g[i] = g[k] \o (z \o w)
      BY <1>3, <3>2, <3>3, <3>4, <3>5
    <3> QED BY <3>1, <3>6, <3>7
  <2> QED BY <2>1, <2>2
<1>7. n \in T
  <2> HIDE DEF T
  <2>1. \A i \in 0..n : i \in T
    BY <1>1, <1>5, <1>6, UpTo
  <2> QED BY <1>1, <2>1
<1>8. n >= k
  BY <1>1, <1>3
<1> QED BY <1>3, <1>7, <1>8

Replies == [to : Seq(Seq(STRING)), form : {"plain", "map", "array", "noproto", "error"}, enc : {2, 3}]
Conversations == [due : Seq(Replies), v : {2, 3}, open : BOOLEAN]

LEMMA ReplyTypes ==
    ASSUME NEW args \in Seq(Seq(STRING)), NEW v \in {2, 3}
    PROVE  /\ set_version(args, v) \in {2, 3}
           /\ dispatch(args, v).reply \in Replies /\ dispatch(args, v).close \in BOOLEAN
           /\ protocol_error(v).reply \in Replies /\ protocol_error(v).close = TRUE
<1>1. PICK t : t = hello_target(args, v)
  OBVIOUS
<1>2. t \in {0, 2, 3}
  BY <1>1 DEF hello_target
<1>3. set_version(args, v) \in {2, 3}
  BY <1>1, <1>2 DEF set_version
<1>4. PICK form : form = IF args[1] = <<"H">> THEN hello_reply(t) ELSE "plain"
  OBVIOUS
<1>5. form \in {"plain", "map", "array", "noproto"}
  BY <1>2, <1>4 DEF hello_reply
<1>6. PICK q \in BOOLEAN : q = (args[1] = <<"Q">>)
  BY Zenon
<1>7. dispatch(args, v) = [reply |-> [to |-> args, form |-> form, enc |-> set_version(args, v)], close |-> q]
  BY <1>1, <1>4, <1>6, Zenon DEF dispatch, Action, encode
<1>8. dispatch(args, v).reply \in Replies /\ dispatch(args, v).close \in BOOLEAN
  BY <1>3, <1>5, <1>6, <1>7 DEF Replies
<1>9. protocol_error(v) = [reply |-> [to |-> <<>>, form |-> "error", enc |-> v], close |-> TRUE]
  BY Zenon DEF protocol_error, Action, encode
<1>10. <<>> \in Seq(Seq(STRING))
  OBVIOUS
<1>11. protocol_error(v).reply \in Replies /\ protocol_error(v).close = TRUE
  BY <1>9, <1>10 DEF Replies
<1> QED BY <1>3, <1>8, <1>11

\* An open conversation after the next request.
LEMMA AnswerIs ==
    ASSUME NEW s \in Conversations, NEW r \in Requests, s.open
    PROVE  /\ ~r.bad /\ r.means = <<>> => Answer(s, r) = s
           /\ ~r.bad /\ r.means # <<>> =>
                 /\ Answer(s, r).due = Append(s.due, dispatch(r.means, s.v).reply)
                 /\ Answer(s, r).v = set_version(r.means, s.v)
                 /\ Answer(s, r).open = ~dispatch(r.means, s.v).close
           /\ r.bad =>
                 /\ Answer(s, r).due = Append(s.due, protocol_error(s.v).reply)
                 /\ Answer(s, r).v = s.v
                 /\ Answer(s, r).open = FALSE
<1>1. CASE ~r.bad /\ r.means = <<>>
  BY <1>1 DEF Answer
<1>2. CASE ~r.bad /\ r.means # <<>>
  <2>1. PICK d, v, o : /\ d = Append(s.due, dispatch(r.means, s.v).reply)
                       /\ v = set_version(r.means, s.v) /\ o = ~dispatch(r.means, s.v).close
    OBVIOUS
  <2>2. Answer(s, r) = [due |-> d, v |-> v, open |-> o]
    BY <1>2, <2>1, Zenon DEF Answer
  <2>3. Answer(s, r).due = d /\ Answer(s, r).v = v /\ Answer(s, r).open = o
    BY <2>2
  <2> QED BY <1>2, <2>1, <2>3, Zenon
<1>3. CASE r.bad
  <2>1. PICK x : x = protocol_error(s.v).reply
    OBVIOUS
  <2>2. Answer(s, r) = [s EXCEPT !.due = Append(@, x), !.open = FALSE]
    BY <1>3, <2>1 DEF Answer
  <2> QED BY <1>3, <2>1, <2>2 DEF Conversations
<1> QED BY <1>1, <1>2, <1>3 DEF Requests

LEMMA AnswerType ==
    ASSUME NEW s \in Conversations, NEW r \in Requests
    PROVE  /\ Answer(s, r) \in Conversations
           /\ \E x \in Seq(Replies) : Answer(s, r).due = s.due \o x
<1>1. PICK d, v, o : d = s.due /\ v = s.v /\ o = s.open
  OBVIOUS
<1>2. d \in Seq(Replies) /\ v \in {2, 3} /\ o \in BOOLEAN /\ s = [due |-> d, v |-> v, open |-> o]
  BY <1>1 DEF Conversations
<1>3. r.means \in Seq(Seq(STRING)) /\ r.bad \in BOOLEAN
  BY DEF Requests
<1>4. ASSUME Answer(s, r) = s PROVE \E x \in Seq(Replies) : Answer(s, r).due = s.due \o x
  <2>1. d \o <<>> = d /\ <<>> \in Seq(Replies)
    BY <1>2, ConcatEmptySeq
  <2> QED BY <1>1, <1>4, <2>1
<1>5. ASSUME NEW x \in Replies, Answer(s, r).due = Append(d, x)
      PROVE  \E y \in Seq(Replies) : Answer(s, r).due = s.due \o y
  <2>1. <<x>> \in Seq(Replies) /\ Append(d, x) = d \o <<x>>
    BY <1>2, AppendIsConcat
  <2> QED BY <1>1, <1>5, <2>1
<1>6. CASE ~s.open \/ (~r.bad /\ r.means = <<>>)
  <2>1. Answer(s, r) = s
    BY <1>6 DEF Answer
  <2> QED BY <1>4, <2>1
<1>7. CASE s.open /\ r.bad
  <2>1. PICK x : x = protocol_error(v).reply
    OBVIOUS
  <2>2. x \in Replies
    BY <1>2, <1>3, <2>1, ReplyTypes
  <2>3. Answer(s, r) = [due |-> Append(d, x), v |-> v, open |-> FALSE]
    BY <1>1, <1>2, <1>7, <2>1 DEF Answer
  <2>4. Append(d, x) \in Seq(Replies)
    BY <1>2, <2>2
  <2>5. Answer(s, r) \in Conversations /\ Answer(s, r).due = Append(d, x)
    <3>1. PICK no \in BOOLEAN : no = FALSE
      BY Zenon
    <3>2. Answer(s, r) = [due |-> Append(d, x), v |-> v, open |-> no]
      BY <2>3, <3>1, Zenon
    <3> QED BY <1>2, <2>4, <3>2 DEF Conversations
  <2> QED BY <1>5, <2>2, <2>5
<1>8. CASE s.open /\ ~r.bad /\ r.means # <<>>
  <2>1. PICK x, w, c : x = dispatch(r.means, v).reply /\ w = set_version(r.means, v) /\ c = dispatch(r.means, v).close
    OBVIOUS
  <2>2. x \in Replies /\ w \in {2, 3} /\ c \in BOOLEAN
    BY <1>2, <1>3, <2>1, ReplyTypes
  <2>3. Answer(s, r) = [due |-> Append(d, x), v |-> w, open |-> ~c]
    BY <1>1, <1>8, <2>1, Zenon DEF Answer
  <2>4. Append(d, x) \in Seq(Replies) /\ (~c) \in BOOLEAN
    BY <1>2, <2>2
  <2>5. PICK o2 \in BOOLEAN : o2 = ~c
    BY <2>4
  <2>6. Answer(s, r) = [due |-> Append(d, x), v |-> w, open |-> o2]
    BY <2>3, <2>5, Zenon
  <2>7. Answer(s, r) \in Conversations /\ Answer(s, r).due = Append(d, x)
    BY <2>2, <2>4, <2>6 DEF Conversations
  <2> QED BY <1>5, <2>2, <2>7
<1> QED BY <1>3, <1>6, <1>7, <1>8

\* t[k] is the conversation after the first k requests of s.
Converses(t, s) ==
    /\ t \in [0..Len(s) -> Conversations] /\ Talk(s) = t[Len(s)]
    /\ t[0] = [due |-> <<>>, v |-> 2, open |-> TRUE]
    /\ \A i \in 1..Len(s) : t[i] = Answer(t[i - 1], s[i])

LEMMA TalkIs ==
    ASSUME NEW s \in Seq(Requests)
    PROVE  \E t : Converses(t, s)
<1>1. PICK n : n = Len(s) /\ n \in Nat
  OBVIOUS
<1>2. \A i \in 1..n : s[i] \in Requests
  BY <1>1
<1> DEFINE start == [due |-> <<>>, v |-> 2, open |-> TRUE]
<1>a. start \in Conversations
  <2>1. <<>> \in Seq(Replies)
    OBVIOUS
  <2> QED BY <2>1 DEF Conversations
<1>3. PICK step : step = [i \in 1..n |-> [p \in Conversations |-> Answer(p, s[i])]]
  OBVIOUS
<1>4. step \in [1..n -> [Conversations -> Conversations]]
  <2>1. \A i \in 1..n : \A p \in Conversations : Answer(p, s[i]) \in Conversations
    BY <1>2, AnswerType
  <2> QED BY <1>3, <2>1
<1>5. PICK f \in [0..n -> Conversations] : f[0] = start /\ \A i \in 1..n : f[i] = step[i][f[i - 1]]
  <2> HIDE DEF start
  <2>1. start \in Conversations /\ n \in Nat
    BY <1>1, <1>a
  <2>2. \E f : Runs(f, Conversations, start, n, step)
    BY <1>4, <2>1, BoundedRecursion
  <2> QED BY <2>2 DEF Runs
<1>6. ASSUME NEW i \in 1..n PROVE f[i] = Answer(f[i - 1], s[i])
  <2>1. i - 1 \in 0..n
    BY <1>1
  <2>2. f[i - 1] \in Conversations
    BY <1>5, <2>1
  <2> QED BY <1>3, <1>5, <2>2
<1>7. f = [i \in 0..n |-> IF i = 0 THEN start ELSE Answer(f[i - 1], s[i])]
  <2> HIDE DEF start
  <2>0. \A i \in 0..n : i = 0 \/ i \in 1..n
    BY <1>1
  <2>1. \A i \in 0..n : f[i] = IF i = 0 THEN start ELSE Answer(f[i - 1], s[i])
    BY <1>5, <1>6, <2>0, Zenon
  <2>2. f = [i \in 0..n |-> f[i]]
    BY <1>5
  <2> QED BY <2>1, <2>2
<1> DEFINE talk[i \in 0 .. Len(s)] == IF i = 0 THEN start ELSE Answer(talk[i - 1], s[i])
<1>8. talk = [i \in 0..n |-> IF i = 0 THEN start ELSE Answer(talk[i - 1], s[i])]
  BY <1>1, <1>7
<1>9. Talk(s) = talk[n]
  BY <1>1 DEF Talk
<1> HIDE DEF talk
<1>10. talk[0] = start /\ \A i \in 1..n : talk[i] = Answer(talk[i - 1], s[i])
  <2>1. 0 \in 0..n /\ \A i \in 1..n : i \in 0..n /\ i # 0
    BY <1>1
  <2> HIDE DEF start
  <2> QED BY <1>8, <2>1
<1> DEFINE T == {i \in 0..n : talk[i] = f[i]}
<1>11. 0 \in T
  <2> HIDE DEF start
  <2> QED BY <1>1, <1>5, <1>10
<1>12. ASSUME NEW i \in 1..n, i - 1 \in T PROVE i \in T
  <2>1. talk[i - 1] = f[i - 1] /\ i \in 0..n
    BY <1>1, <1>12
  <2>2. f[i] = Answer(f[i - 1], s[i]) /\ talk[i] = Answer(talk[i - 1], s[i])
    BY <1>6, <1>10
  <2>3. talk[i] = f[i]
    BY <2>1, <2>2, Zenon
  <2> QED BY <2>1, <2>3
<1>13. n \in T
  <2> HIDE DEF T
  <2>1. \A i \in 0..n : i \in T
    BY <1>1, <1>11, <1>12, UpTo
  <2> QED BY <1>1, <2>1
<1>14. Converses(f, s)
  BY <1>1, <1>5, <1>6, <1>9, <1>13 DEF Converses
<1> QED BY <1>14

\* The replies to the first k requests come first.
LEMMA DueAhead ==
    ASSUME NEW s \in Seq(Requests), NEW t, Converses(t, s), NEW k \in 0..Len(s)
    PROVE  \E z \in Seq(Replies) : Talk(s).due = t[k].due \o z
<1>1. PICK n : n = Len(s) /\ n \in Nat
  OBVIOUS
<1>2. \A i \in 1..n : s[i] \in Requests
  BY <1>1
<1>3. /\ t \in [0..n -> Conversations] /\ Talk(s) = t[n] /\ k \in 0..n
      /\ \A i \in 1..n : t[i] = Answer(t[i - 1], s[i])
  BY <1>1 DEF Converses
<1>d. \A i \in 0..n : t[i].due \in Seq(Replies)
  BY <1>3 DEF Conversations
<1> DEFINE T == {i \in 0..n : i >= k => \E z \in Seq(Replies) : t[i].due = t[k].due \o z}
<1>4. k \in T
  <2>1. t[k].due \o <<>> = t[k].due /\ <<>> \in Seq(Replies)
    BY <1>3, <1>d, ConcatEmptySeq
  <2> QED BY <1>3, <2>1
<1>5. 0 \in T
  <2>1. CASE k = 0
    BY <1>4, <2>1
  <2>2. CASE k # 0
    BY <1>1, <1>3, <2>2
  <2> QED BY <2>1, <2>2
<1>6. ASSUME NEW i \in 1..n, i - 1 \in T PROVE i \in T
  <2>1. CASE i <= k
    <3>1. i = k \/ ~(i >= k)
      BY <1>1, <1>3, <2>1
    <3>2. i \in 0..n
      BY <1>1
    <3>3. CASE i = k
      BY <1>4, <3>3
    <3>4. CASE ~(i >= k)
      BY <3>2, <3>4
    <3> QED BY <3>1, <3>3, <3>4
  <2>2. CASE ~(i <= k)
    <3>1. i - 1 >= k /\ i \in 0..n /\ i - 1 \in 0..n
      BY <1>1, <1>3, <2>2
    <3>2. PICK z \in Seq(Replies) : t[i - 1].due = t[k].due \o z
      BY <1>6, <3>1
    <3>3. PICK w \in Seq(Replies) : Answer(t[i - 1], s[i]).due = t[i - 1].due \o w
      <4>1. t[i - 1] \in Conversations /\ s[i] \in Requests
        BY <1>2, <1>3, <3>1
      <4> QED BY <4>1, AnswerType
    <3>4. PICK h : h = t[k].due /\ h \in Seq(Replies)
      BY <1>3, <1>d
    <3>5. (h \o z) \o w = h \o (z \o w)
      <4>1. h \in Seq(Replies) /\ z \in Seq(Replies) /\ w \in Seq(Replies)
        BY <3>2, <3>3, <3>4
      <4> QED BY ONLY <4>1, Assoc
    <3>6. z \o w \in Seq(Replies)
      BY <3>2, <3>3, ConcatHas
    <3>7. t[i].due = h \o (z \o w)
      BY <1>3, <3>2, <3>3, <3>4, <3>5
    <3> QED BY <3>1, <3>4, <3>6, <3>7
  <2> QED BY <2>1, <2>2
<1>7. n \in T
  <2> HIDE DEF T
  <2>1. \A i \in 0..n : i \in T
    BY <1>1, <1>5, <1>6, UpTo
  <2> QED BY <1>1, <2>1
<1>8. n >= k
  BY <1>1, <1>3
<1> QED BY <1>3, <1>7, <1>8

-----------------------------------------------------------------------------
(* The buffer and the bytes on their way are what the requests after the     *)
(* first k are made of: the next item of the stream is the next request.     *)

Left(g, s, k, b, rest) ==
    b \in Seq(STRING) /\ rest \in Seq(STRING) /\ g[k] \o (b \o rest) = Bytes(s)

LEMMA NoneLeft ==
    ASSUME NEW s \in Seq(Requests), NEW g, Sends(g, s), NEW b, NEW rest, Left(g, s, Len(s), b, rest)
    PROVE  b = <<>>
<1>1. PICK n, h, c : n = Len(s) /\ h = g[n] /\ c = b \o rest
  OBVIOUS
<1>2. b \in Seq(STRING) /\ rest \in Seq(STRING) /\ h \o c = h /\ h \in Seq(STRING)
  <2>1. n \in 0..n /\ g \in [0..n -> Seq(STRING)] /\ Bytes(s) = h
    BY <1>1 DEF Sends
  <2>2. b \in Seq(STRING) /\ rest \in Seq(STRING) /\ g[n] \o (b \o rest) = Bytes(s)
    BY <1>1, Zenon DEF Left
  <2>3. h \in Seq(STRING)
    BY ONLY <1>1, <2>1
  <2> QED BY ONLY <1>1, <2>1, <2>2, <2>3, Zenon
<1>3. /\ c \in Seq(STRING) /\ Len(c) = Len(b) + Len(rest) /\ Len(b) \in Nat /\ Len(rest) \in Nat
  BY ONLY <1>1, <1>2, ConcatHas
<1>4. Len(h \o c) = Len(h) + Len(c) /\ Len(h) \in Nat /\ Len(c) \in Nat
  BY ONLY <1>2, <1>3, ConcatHas
<1>5. Len(b) = 0
  BY ONLY <1>2, <1>3, <1>4
<1> QED BY ONLY <1>2, <1>5

Following(g, s, k, b, rest, z) ==
    z \in Seq(STRING) /\ Overlap(b, rest, s[k + 1].wire, z) /\ Bytes(s) = g[k + 1] \o z

LEMMA NextBytes ==
    ASSUME NEW s \in Seq(Requests), NEW g, Sends(g, s), NEW k \in 0..Len(s) - 1,
           NEW b, NEW rest, Left(g, s, k, b, rest)
    PROVE  \E z : Following(g, s, k, b, rest, z)
<1>1. PICK n, h, c, w, i : n = Len(s) /\ h = g[k] /\ c = b \o rest /\ w = s[k + 1].wire /\ i = k + 1
  OBVIOUS
<1>2. n \in Nat /\ k \in 0..n /\ i \in 1..n /\ i \in 0..n /\ i - 1 = k
  BY <1>1
<1>3. w \in Seq(STRING)
  <2>1. s[i] \in Requests
    BY <1>1, <1>2
  <2> QED BY <1>1, <2>1 DEF Requests
<1>4. h \in Seq(STRING) /\ g[i] = h \o w
  BY <1>1, <1>2 DEF Sends
<1>5. PICK z \in Seq(STRING) : Bytes(s) = g[i] \o z
  BY <1>1, <1>2, BytesAhead
<1>6. b \in Seq(STRING) /\ rest \in Seq(STRING) /\ h \o c = Bytes(s)
  BY <1>1 DEF Left
<1>7. c \in Seq(STRING)
  BY ONLY <1>1, <1>6, ConcatHas
<1>8. z \in Seq(STRING)
  BY <1>5
<1>9. (h \o w) \o z = h \o (w \o z)
  BY ONLY <1>3, <1>4, <1>8, Assoc
<1>10. PICK d : d = w \o z
  OBVIOUS
<1>11. d \in Seq(STRING)
  BY ONLY <1>3, <1>8, <1>10, ConcatHas
<1>12. h \o c = h \o d
  BY ONLY <1>4, <1>5, <1>6, <1>9, <1>10
<1>13. h \in Seq(STRING) /\ c \in Seq(STRING) /\ d \in Seq(STRING)
  BY <1>4, <1>7, <1>11
<1>14. c = d
  BY ONLY <1>12, <1>13, Cancel
<1> QED BY ONLY <1>1, <1>5, <1>8, <1>10, <1>14 DEF Following, Overlap

LEMMA ItemIs ==
    ASSUME NEW s \in Seq(Requests), \A i \in DOMAIN s : Sound(s[i]) /\ OffLimit(s[i]), NEW g, Sends(g, s),
           NEW k \in 0..Len(s), NEW b, NEW rest, Left(g, s, k, b, rest),
           NEW item, item = decode_command(b)
    PROVE  /\ item.st = "parsed" =>
                 /\ k < Len(s) /\ ~s[k + 1].bad /\ item.args = s[k + 1].means
                 /\ Left(g, s, k + 1, SubSeq(b, item.next, Len(b)), rest)
           /\ item.st = "error" => k < Len(s) /\ s[k + 1].bad
<1>1. b \in Seq(STRING) /\ rest \in Seq(STRING) /\ Len(s) \in Nat
  BY DEF Left
<1>2. CASE k = Len(s)
  <2>1. b = <<>>
    BY <1>2, NoneLeft
  <2> QED BY <2>1 DEF decode_command, More
<1>3. CASE k # Len(s)
  <2>1. k \in 0..Len(s) - 1 /\ k < Len(s) /\ k + 1 \in DOMAIN s
    BY <1>1, <1>3
  <2>2. PICK r : r = s[k + 1]
    OBVIOUS
  <2>3. r \in Requests /\ Sound(r) /\ OffLimit(r) /\ r.wire \in Seq(STRING) /\ r.bad \in BOOLEAN
    <3>1. r \in Requests /\ Sound(r) /\ OffLimit(r)
      BY <2>1, <2>2
    <3> QED BY <3>1 DEF Requests
  <2>4. PICK w : w = r.wire
    OBVIOUS
  <2>5. PICK z \in Seq(STRING) : Overlap(b, rest, w, z) /\ Bytes(s) = g[k + 1] \o z
    <3>1. PICK z : Following(g, s, k, b, rest, z)
      BY <2>1, NextBytes
    <3> QED BY ONLY <2>2, <2>4, <3>1, Zenon DEF Following
  <2>6. w \in Seq(STRING) /\ z \in Seq(STRING)
    BY <2>3, <2>4, <2>5
  <2>7. CASE Len(b) < Len(w)
    <3>1. PICK q \in Seq(STRING) : q # <<>> /\ b \o q = w
      <4>1. PartOf(b, w)
        BY <1>1, <2>5, <2>6, <2>7, FrontPart
      <4> QED BY ONLY <4>1, Zenon DEF PartOf
    <3>2. CASE r.bad
      <4>1. item.st # "parsed"
        BY ONLY <1>1, <2>3, <2>4, <3>1, <3>2, BadPart, item = decode_command(b)
      <4> QED BY <2>1, <2>2, <3>2, <4>1
    <3>3. CASE ~r.bad
      <4>1. item.st = "more"
        BY ONLY <1>1, <2>3, <2>4, <3>1, <3>3, GoodPart, item = decode_command(b)
      <4> QED BY <4>1
    <3> QED BY <3>2, <3>3
  <2>8. CASE ~(Len(b) < Len(w))
    <3>1. PICK y \in Seq(STRING) : b = w \o y /\ y \o rest = z
      <4>1. Beyond(b, rest, w, z)
        BY <1>1, <2>5, <2>6, <2>8, FrontWhole
      <4> QED BY ONLY <4>1, Zenon DEF Beyond
    <3>2. CASE r.bad
      <4>1. item.st = "error"
        BY ONLY <2>3, <2>4, <3>1, <3>2, BadWhole, item = decode_command(b)
      <4> QED BY <2>1, <2>2, <3>2, <4>1
    <3>3. CASE ~r.bad
      <4>1. item = Parsed(r.means, Len(w) + 1)
        BY ONLY <2>3, <2>4, <3>1, <3>3, GoodWhole, item = decode_command(b)
      <4>2. item.st = "parsed" /\ item.args = r.means /\ item.next = Len(w) + 1
        BY <4>1 DEF Parsed
      <4>3. SubSeq(b, item.next, Len(b)) = y
        <5>1. SubSeq(w \o y, Len(w) + 1, Len(w \o y)) = y
          BY ONLY <2>6, <3>1, TailOf
        <5> QED BY ONLY <3>1, <4>2, <5>1
      <4>4. Left(g, s, k + 1, y, rest)
        BY ONLY <1>1, <2>5, <3>1 DEF Left
      <4> QED BY ONLY <2>1, <2>2, <3>3, <4>2, <4>3, <4>4
    <3> QED BY <3>2, <3>3
  <2> QED BY <2>7, <2>8
<1> QED BY <1>2, <1>3

-----------------------------------------------------------------------------
(* The connection: where it stands in its client's stream.                   *)

\* The connection of c has taken the first k requests of its client; its replies
\* are those due, the last one possibly still to be handed over.
Standing(c, g, t, k) ==
    /\ k \in 0..Len(reqs[c]) /\ replies[c] \in Seq(Replies)
    /\ t[k].open => Left(g, reqs[c], k, buf[c], wire[c])
    /\ task[c] \in {"none", "reading"} =>
          replies[c] = t[k].due /\ t[k].open /\ version[c] = t[k].v
    /\ task[c] = "sending" =>
          /\ action[c].reply \in Replies /\ Append(replies[c], action[c].reply) = t[k].due
          /\ action[c].close = ~t[k].open
          /\ t[k].open => version[c] = t[k].v
    /\ task[c] = "ended" => replies[c] = t[k].due

InOrder(c) ==
    \E g, t, k :
        Sends(g, reqs[c]) /\ Converses(t, reqs[c]) /\ Standing(c, g, t, k)

AnswersInv ==
    /\ reqs \in Streams
    /\ DOMAIN client = Conns /\ DOMAIN wire = Conns /\ DOMAIN task = Conns /\ DOMAIN buf = Conns
    /\ DOMAIN eof = Conns /\ DOMAIN version = Conns /\ DOMAIN action = Conns /\ DOMAIN replies = Conns
    /\ \A c \in Conns :
          /\ task[c] \in {"none", "reading", "sending", "ended"}
          /\ eof[c] => client[c] = "gone"
          /\ client[c] # "gone" => InOrder(c)

LEMMA StreamOf ==
    ASSUME AnswersInv, NEW c \in Conns
    PROVE  /\ reqs[c] \in Seq(Requests)
           /\ NoLimitLine => \A i \in DOMAIN reqs[c] : Sound(reqs[c][i]) /\ OffLimit(reqs[c][i])
  BY StreamsAssumption DEF AnswersInv, NoLimitLine

\* Nothing of the connection but its task has changed, and not into sending.
LEMMA TaskOnly ==
    ASSUME NEW c \in Conns, InOrder(c), reqs' = reqs,
           buf'[c] = buf[c], wire'[c] = wire[c], version'[c] = version[c],
           action'[c] = action[c], replies'[c] = replies[c],
           \/ task'[c] = task[c]
           \/ task[c] \in {"none", "reading"} /\ task'[c] \in {"reading", "ended"}
    PROVE  InOrder(c)'
<1>1. PICK g, t, k : Sends(g, reqs[c]) /\ Converses(t, reqs[c]) /\ Standing(c, g, t, k)
  BY DEF InOrder
<1>2. Standing(c, g, t, k)'
  BY <1>1 DEF Standing
<1> QED BY <1>1, <1>2 DEF InOrder

\* A step of the connection c, or of its client.
LEMMA OneClient ==
    ASSUME AnswersInv, NEW c \in Conns, reqs' = reqs,
           DOMAIN client' = Conns, DOMAIN wire' = Conns, DOMAIN task' = Conns, DOMAIN buf' = Conns,
           DOMAIN eof' = Conns, DOMAIN version' = Conns, DOMAIN action' = Conns, DOMAIN replies' = Conns,
           \A d \in Conns \ {c} :
              /\ client'[d] = client[d] /\ wire'[d] = wire[d] /\ task'[d] = task[d]
              /\ buf'[d] = buf[d] /\ eof'[d] = eof[d] /\ version'[d] = version[d]
              /\ action'[d] = action[d] /\ replies'[d] = replies[d],
           task'[c] \in {"none", "reading", "sending", "ended"},
           eof'[c] => client'[c] = "gone",
           client'[c] # "gone" => InOrder(c)'
    PROVE  AnswersInv'
<1>1. ASSUME NEW d \in Conns \ {c}, client'[d] # "gone" PROVE InOrder(d)'
  <2>1. InOrder(d)
    BY <1>1 DEF AnswersInv
  <2> QED BY <1>1, <2>1, TaskOnly
<1>2. ASSUME NEW d \in Conns
      PROVE  /\ task'[d] \in {"none", "reading", "sending", "ended"}
             /\ eof'[d] => client'[d] = "gone"
             /\ client'[d] # "gone" => InOrder(d)'
  <2>1. CASE d = c
    BY <2>1
  <2>2. CASE d # c
    <3>1. task[d] \in {"none", "reading", "sending", "ended"} /\ (eof[d] => client[d] = "gone")
      BY DEF AnswersInv
    <3> QED BY <1>1, <2>2, <3>1
  <2> QED BY <2>1, <2>2
<1> QED BY <1>2 DEF AnswersInv

LEMMA OneByteMoves ==
    ASSUME NEW g, NEW s, NEW k, NEW b, NEW rest, Left(g, s, k, b, rest), rest # <<>>
    PROVE  Left(g, s, k, Append(b, Head(rest)), Tail(rest))
<1>1. b \in Seq(STRING) /\ rest \in Seq(STRING) /\ rest # <<>>
  BY DEF Left
<1>2. PICK x, u, l : x = Head(rest) /\ u = Tail(rest) /\ l = <<x>>
  OBVIOUS
<1>3. x \in STRING /\ u \in Seq(STRING) /\ l \in Seq(STRING) /\ rest = l \o u
  BY ONLY <1>1, <1>2, HeadTailProperties
<1>4. Append(b, x) = b \o l
  BY ONLY <1>1, <1>2, <1>3, AppendIsConcat
<1>5. (b \o l) \o u = b \o (l \o u)
  BY ONLY <1>1, <1>3, Assoc
<1>6. Append(b, x) \in Seq(STRING)
  BY ONLY <1>1, <1>3, AppendProperties
<1>7. g[k] \o (Append(b, x) \o u) = Bytes(s)
  <2>1. g[k] \o (b \o rest) = Bytes(s)
    BY DEF Left
  <2> QED BY ONLY <1>3, <1>4, <1>5, <2>1, Zenon
<1> QED BY ONLY <1>2, <1>3, <1>6, <1>7, Zenon DEF Left

LEMMA InOrderDeliver ==
    ASSUME AnswersInv, NEW c \in Conns, Deliver(c), InOrder(c)
    PROVE  InOrder(c)'
<1>1. PICK g, t, k : Sends(g, reqs[c]) /\ Converses(t, reqs[c]) /\ Standing(c, g, t, k)
  BY DEF InOrder
<1>2. /\ reqs' = reqs /\ task' = task /\ version' = version /\ action' = action /\ replies' = replies
      /\ buf'[c] = Append(buf[c], Head(wire[c])) /\ wire'[c] = Tail(wire[c]) /\ wire[c] # <<>>
  BY DEF Deliver, AnswersInv
<1>3. t[k].open => Left(g, reqs[c], k, buf'[c], wire'[c])
  BY <1>1, <1>2, OneByteMoves DEF Standing
<1>4. Standing(c, g, t, k)'
  BY <1>1, <1>2, <1>3 DEF Standing
<1> QED BY <1>1, <1>2, <1>4 DEF InOrder

LEMMA InOrderSend ==
    ASSUME AnswersInv, NEW c \in Conns, Send(c), InOrder(c)
    PROVE  InOrder(c)'
<1>1. PICK g, t, k : Sends(g, reqs[c]) /\ Converses(t, reqs[c]) /\ Standing(c, g, t, k)
  BY DEF InOrder
<1>2. /\ reqs' = reqs /\ version' = version /\ buf' = buf /\ wire' = wire /\ task[c] = "sending"
      /\ replies'[c] = Append(replies[c], action[c].reply)
      /\ task'[c] = IF action[c].close THEN "ended" ELSE "reading"
  BY DEF Send, AnswersInv, clientVars
<1>3. /\ k \in 0..Len(reqs[c]) /\ replies[c] \in Seq(Replies) /\ action[c].reply \in Replies
      /\ replies'[c] = t[k].due /\ action[c].close = ~t[k].open
      /\ t[k].open => version[c] = t[k].v /\ Left(g, reqs[c], k, buf[c], wire[c])
  BY <1>1, <1>2 DEF Standing
<1>4. replies'[c] \in Seq(Replies)
  <2>1. PICK a, x : a = replies[c] /\ x = action[c].reply
    OBVIOUS
  <2>2. a \in Seq(Replies) /\ x \in Replies
    BY <1>3, <2>1
  <2>3. Append(a, x) \in Seq(Replies)
    BY ONLY <2>2, AppendProperties
  <2> QED BY <1>2, <2>1, <2>3
<1>5. task'[c] \in {"reading", "ended"} /\ (task'[c] = "reading" => t[k].open)
  BY ONLY <1>2, <1>3, Zenon
<1>6. Standing(c, g, t, k)'
  BY <1>2, <1>3, <1>4, <1>5 DEF Standing
<1> QED BY <1>1, <1>2, <1>6 DEF InOrder

\* What the next item is, and what the conversation is after it.
LEMMA NextRequest ==
    ASSUME NoLimitLine, AnswersInv, NEW c \in Conns, NEW g, NEW t, NEW k,
           Sends(g, reqs[c]), Converses(t, reqs[c]), Standing(c, g, t, k), task[c] = "reading",
           NEW item, item = decode_command(buf[c]), item.st = "parsed" \/ item.st = "error"
    PROVE  /\ k + 1 \in 0..Len(reqs[c]) /\ t[k] \in Conversations /\ t[k].open
           /\ reqs[c][k + 1] \in Requests /\ t[k + 1] = Answer(t[k], reqs[c][k + 1])
           /\ reqs[c][k + 1].means \in Seq(Seq(STRING)) /\ t[k].v \in {2, 3}
           /\ replies[c] \in Seq(Replies) /\ replies[c] = t[k].due /\ version[c] = t[k].v
           /\ item.st = "error" => reqs[c][k + 1].bad
           /\ item.st = "parsed" =>
                 /\ ~reqs[c][k + 1].bad /\ item.args = reqs[c][k + 1].means
                 /\ Left(g, reqs[c], k + 1, SubSeq(buf[c], item.next, Len(buf[c])), wire[c])
<1>1. PICK s, b, rest : s = reqs[c] /\ b = buf[c] /\ rest = wire[c]
  OBVIOUS
<1>2. s \in Seq(Requests) /\ \A i \in DOMAIN s : Sound(s[i]) /\ OffLimit(s[i])
  BY <1>1, StreamOf
<1>3. /\ k \in 0..Len(s) /\ replies[c] \in Seq(Replies) /\ replies[c] = t[k].due
      /\ t[k].open /\ version[c] = t[k].v
  BY <1>1 DEF Standing
<1>4. Left(g, s, k, b, rest)
  BY <1>1, <1>3 DEF Standing
<1>5. Sends(g, s) /\ Converses(t, s) /\ item = decode_command(b)
  BY <1>1
<1>6. /\ item.st = "parsed" =>
            /\ k < Len(s) /\ ~s[k + 1].bad /\ item.args = s[k + 1].means
            /\ Left(g, s, k + 1, SubSeq(b, item.next, Len(b)), rest)
      /\ item.st = "error" => k < Len(s) /\ s[k + 1].bad
  BY ONLY <1>2, <1>3, <1>4, <1>5, ItemIs
<1>7. k < Len(s) /\ Len(s) \in Nat /\ k \in Nat
  BY <1>2, <1>3, <1>6
<1>8. k + 1 \in 0..Len(s) /\ k + 1 \in 1..Len(s) /\ (k + 1) - 1 = k
  BY <1>7
<1>9. t \in [0..Len(s) -> Conversations] /\ \A i \in 1..Len(s) : t[i] = Answer(t[i - 1], s[i])
  BY <1>5 DEF Converses
<1>10. t[k] \in Conversations
  BY <1>3, <1>9
<1>11. t[k + 1] = Answer(t[k], s[k + 1])
  BY ONLY <1>8, <1>9
<1>12. s[k + 1] \in Requests
  BY <1>2, <1>8
<1>13. s[k + 1].means \in Seq(Seq(STRING)) /\ t[k].v \in {2, 3}
  BY <1>10, <1>12 DEF Requests, Conversations
<1> QED BY ONLY <1>1, <1>3, <1>6, <1>8, <1>10, <1>11, <1>12, <1>13

LEMMA InOrderSkip ==
    ASSUME NoLimitLine, AnswersInv, NEW c \in Conns, NEW item, item = decode_command(buf[c]),
           Reading(c), SkipEmpty(c, item), InOrder(c)
    PROVE  InOrder(c)'
<1>1. PICK g, t, k : Sends(g, reqs[c]) /\ Converses(t, reqs[c]) /\ Standing(c, g, t, k)
  BY DEF InOrder
<1>2. /\ reqs' = reqs /\ task' = task /\ version' = version /\ action' = action
      /\ replies' = replies /\ wire' = wire /\ task[c] = "reading"
      /\ buf'[c] = SubSeq(buf[c], item.next, Len(buf[c])) /\ item.st = "parsed" /\ item.args = <<>>
  BY DEF SkipEmpty, Consume, Reading, AnswersInv, clientVars
<1>3. PICK r : r = reqs[c][k + 1]
  OBVIOUS
<1>4. /\ k + 1 \in 0..Len(reqs[c]) /\ t[k] \in Conversations /\ t[k].open
      /\ r \in Requests /\ t[k + 1] = Answer(t[k], r)
      /\ replies[c] \in Seq(Replies) /\ replies[c] = t[k].due /\ version[c] = t[k].v
      /\ ~r.bad /\ r.means = <<>>
      /\ Left(g, reqs[c], k + 1, buf'[c], wire[c])
  BY <1>1, <1>2, <1>3, NextRequest
<1>5. t[k + 1] = t[k]
  BY ONLY <1>4, AnswerIs
<1>6. Standing(c, g, t, k + 1)'
  BY <1>2, <1>4, <1>5 DEF Standing
<1> QED BY <1>1, <1>2, <1>6 DEF InOrder

LEMMA InOrderDispatch ==
    ASSUME NoLimitLine, AnswersInv, NEW c \in Conns, NEW item, item = decode_command(buf[c]),
           Reading(c), Dispatch(c, item), InOrder(c)
    PROVE  InOrder(c)'
<1>1. PICK g, t, k : Sends(g, reqs[c]) /\ Converses(t, reqs[c]) /\ Standing(c, g, t, k)
  BY DEF InOrder
<1>2. PICK r, v, args : r = reqs[c][k + 1] /\ v = version[c] /\ args = item.args
  OBVIOUS
<1>3. /\ reqs' = reqs /\ replies' = replies /\ wire' = wire /\ task[c] = "reading"
      /\ buf'[c] = SubSeq(buf[c], item.next, Len(buf[c])) /\ item.st = "parsed" /\ args # <<>>
      /\ action'[c] = dispatch(args, v) /\ version'[c] = set_version(args, v) /\ task'[c] = "sending"
  BY <1>2 DEF Dispatch, Consume, Reading, AnswersInv, clientVars
<1>4. /\ k + 1 \in 0..Len(reqs[c]) /\ t[k] \in Conversations /\ t[k].open
      /\ r \in Requests /\ t[k + 1] = Answer(t[k], r)
      /\ r.means \in Seq(Seq(STRING)) /\ v \in {2, 3}
      /\ replies[c] \in Seq(Replies) /\ replies[c] = t[k].due /\ v = t[k].v
      /\ ~r.bad /\ args = r.means
      /\ Left(g, reqs[c], k + 1, buf'[c], wire[c])
  BY <1>1, <1>2, <1>3, NextRequest
<1>5. PICK reply, close : reply = dispatch(args, v).reply /\ close = dispatch(args, v).close
  OBVIOUS
<1>6. reply \in Replies /\ close \in BOOLEAN
  BY ONLY <1>4, <1>5, ReplyTypes
<1>7. /\ t[k + 1].due = Append(t[k].due, reply) /\ t[k + 1].v = set_version(args, v)
      /\ t[k + 1].open = ~close
  <2>1. r.means # <<>>
    BY <1>3, <1>4
  <2>2. /\ Answer(t[k], r).due = Append(t[k].due, dispatch(r.means, t[k].v).reply)
        /\ Answer(t[k], r).v = set_version(r.means, t[k].v)
        /\ Answer(t[k], r).open = ~dispatch(r.means, t[k].v).close
    BY ONLY <1>4, <2>1, AnswerIs
  <2> QED BY ONLY <1>4, <1>5, <2>2, Zenon
<1>8. close = ~t[k + 1].open
  BY ONLY <1>6, <1>7, Zenon
<1>9. Append(replies'[c], action'[c].reply) = t[k + 1].due /\ action'[c].reply \in Replies
  BY <1>3, <1>4, <1>5, <1>6, <1>7
<1>10. action'[c].close = ~t[k + 1].open
  BY ONLY <1>3, <1>5, <1>8, Zenon
<1>11. Standing(c, g, t, k + 1)'
  BY <1>3, <1>4, <1>7, <1>9, <1>10 DEF Standing
<1> QED BY <1>1, <1>3, <1>11 DEF InOrder

LEMMA InOrderError ==
    ASSUME NoLimitLine, AnswersInv, NEW c \in Conns, NEW item, item = decode_command(buf[c]),
           Reading(c), ProtocolError(c, item), InOrder(c), client[c] # "gone"
    PROVE  InOrder(c)'
<1>1. PICK g, t, k : Sends(g, reqs[c]) /\ Converses(t, reqs[c]) /\ Standing(c, g, t, k)
  BY DEF InOrder
<1>2. PICK r, v : r = reqs[c][k + 1] /\ v = version[c]
  OBVIOUS
<1>3. /\ reqs' = reqs /\ replies' = replies /\ wire' = wire /\ buf' = buf /\ task[c] = "reading"
      /\ item.st = "error" /\ action'[c] = protocol_error(v) /\ task'[c] = "sending"
  BY <1>2 DEF ProtocolError, Reading, AnswersInv, clientVars
<1>4. /\ k + 1 \in 0..Len(reqs[c]) /\ t[k] \in Conversations /\ t[k].open
      /\ r \in Requests /\ t[k + 1] = Answer(t[k], r)
      /\ r.means \in Seq(Seq(STRING)) /\ v \in {2, 3}
      /\ replies[c] \in Seq(Replies) /\ replies[c] = t[k].due /\ v = t[k].v /\ r.bad
  BY <1>1, <1>2, <1>3, NextRequest
<1>5. PICK reply : reply = protocol_error(v).reply
  OBVIOUS
<1>6. reply \in Replies /\ protocol_error(v).close = TRUE
  BY ONLY <1>4, <1>5, ReplyTypes
<1>7. t[k + 1].due = Append(t[k].due, reply) /\ t[k + 1].open = FALSE
  <2>1. Answer(t[k], r).due = Append(t[k].due, protocol_error(t[k].v).reply) /\ Answer(t[k], r).open = FALSE
    BY ONLY <1>4, AnswerIs
  <2> QED BY ONLY <1>4, <1>5, <2>1, Zenon
<1>8. Append(replies'[c], action'[c].reply) = t[k + 1].due /\ action'[c].reply \in Replies
  BY <1>3, <1>4, <1>5, <1>6, <1>7
<1>9. action'[c].close = ~t[k + 1].open /\ ~t[k + 1].open
  BY ONLY <1>3, <1>6, <1>7, Zenon
<1>10. Standing(c, g, t, k + 1)'
  BY <1>3, <1>4, <1>8, <1>9 DEF Standing
<1> QED BY <1>1, <1>3, <1>10 DEF InOrder

LEMMA InitAnswers == Init => AnswersInv
<1> SUFFICES ASSUME Init PROVE AnswersInv
  OBVIOUS
<1>1. ASSUME NEW c \in Conns PROVE InOrder(c)
  <2>1. PICK s : s = reqs[c]
    OBVIOUS
  <2>2. s \in Seq(Requests)
    BY <2>1, StreamsAssumption DEF Init
  <2>3. PICK g : Sends(g, s)
    BY <2>2, BytesAre
  <2>4. PICK t : Converses(t, s)
    BY <2>2, TalkIs
  <2>5. /\ replies[c] = <<>> /\ buf[c] = <<>> /\ wire[c] = Bytes(s)
        /\ task[c] = "none" /\ version[c] = 2
    BY <2>1 DEF Init
  <2>6. t[0].due = <<>> /\ t[0].open = TRUE /\ t[0].v = 2
    BY <2>4 DEF Converses
  <2>7. 0 \in 0..Len(s) /\ Len(s) \in 0..Len(s)
    BY <2>2
  <2>8. Left(g, s, 0, buf[c], wire[c])
    <3>1. g[0] = <<>> /\ Bytes(s) \in Seq(STRING)
      BY <2>3, <2>7 DEF Sends
    <3>2. <<>> \in Seq(STRING) /\ <<>> \o Bytes(s) = Bytes(s)
      BY <3>1, ConcatEmptySeq
    <3> QED BY <2>5, <3>1, <3>2 DEF Left
  <2>9. <<>> \in Seq(Replies)
    OBVIOUS
  <2>10. Standing(c, g, t, 0)
    BY <2>1, <2>5, <2>6, <2>7, <2>8, <2>9 DEF Standing
  <2> QED BY <2>1, <2>3, <2>4, <2>10 DEF InOrder
<1> QED BY <1>1 DEF Init, AnswersInv

LEMMA NextAnswers ==
    ASSUME NoLimitLine
    PROVE  AnswersInv /\ [Next]_vars => AnswersInv'
<1> SUFFICES ASSUME AnswersInv, [Next]_vars PROVE AnswersInv'
  OBVIOUS
<1> USE DEF clientVars
<1>1. ASSUME UNCHANGED <<client, reqs, wire, task, buf, eof, version, action, replies>> PROVE AnswersInv'
  <2>1. ASSUME NEW c \in Conns, client'[c] # "gone" PROVE InOrder(c)'
    <3>1. InOrder(c)
      BY <1>1, <2>1 DEF AnswersInv
    <3> QED BY <1>1, <3>1, TaskOnly
  <2> QED BY <1>1, <2>1 DEF AnswersInv
<1>2. CASE UNCHANGED vars
  BY <1>1, <1>2 DEF vars
<1>3. CASE StopAccepting \/ Drained \/ Shutdown
  BY <1>1, <1>3 DEF StopAccepting, Drained, Shutdown
<1>4. ASSUME NEW c \in Conns, Accept(c) \/ Leave(c) \/ ClientClosed(c) PROVE AnswersInv'
  <2>1. /\ UNCHANGED <<client, reqs, wire, buf, eof, version, action, replies>>
        /\ task[c] \in {"none", "reading"} /\ task'[c] \in {"reading", "ended"}
        /\ DOMAIN task' = Conns /\ \A d \in Conns \ {c} : task'[d] = task[d]
    BY <1>4 DEF Accept, Leave, ClientClosed, Reading, AnswersInv
  <2>2. client'[c] # "gone" => InOrder(c)'
    BY <2>1, TaskOnly DEF AnswersInv
  <2>3. eof[c] => client[c] = "gone"
    BY DEF AnswersInv
  <2> QED BY <2>1, <2>2, <2>3, OneClient DEF AnswersInv
<1>5. ASSUME NEW c \in Conns, NextItem(c) PROVE AnswersInv'
  <2>1. PICK item : /\ item = decode_command(buf[c]) /\ Reading(c)
                    /\ SkipEmpty(c, item) \/ Dispatch(c, item) \/ ProtocolError(c, item)
    BY <1>5 DEF NextItem
  <2>2. client[c] # "gone" => InOrder(c)
    BY DEF AnswersInv
  <2>3. client[c] # "gone" => InOrder(c)'
    BY <2>1, <2>2, InOrderSkip, InOrderDispatch, InOrderError
  <2>4. UNCHANGED <<client, reqs, wire, eof, replies>>
    BY <2>1 DEF SkipEmpty, Dispatch, ProtocolError
  <2>5. /\ DOMAIN task' = Conns /\ DOMAIN buf' = Conns /\ DOMAIN version' = Conns /\ DOMAIN action' = Conns
        /\ task'[c] \in {"reading", "sending"}
        /\ \A d \in Conns \ {c} : /\ task'[d] = task[d] /\ buf'[d] = buf[d]
                                  /\ version'[d] = version[d] /\ action'[d] = action[d]
    BY <2>1 DEF SkipEmpty, Dispatch, ProtocolError, Consume, Reading, AnswersInv
  <2>6. eof[c] => client[c] = "gone"
    BY DEF AnswersInv
  <2> QED BY <2>3, <2>4, <2>5, <2>6, OneClient DEF AnswersInv
<1>6. ASSUME NEW c \in Conns, Send(c) PROVE AnswersInv'
  <2>1. client[c] # "gone" => InOrder(c)'
    BY <1>6, InOrderSend DEF AnswersInv
  <2>2. /\ UNCHANGED <<client, reqs, wire, buf, eof, version>>
        /\ DOMAIN task' = Conns /\ DOMAIN action' = Conns /\ DOMAIN replies' = Conns
        /\ task'[c] \in {"reading", "ended"}
        /\ \A d \in Conns \ {c} : /\ task'[d] = task[d] /\ action'[d] = action[d]
                                  /\ replies'[d] = replies[d]
    BY <1>6 DEF Send, AnswersInv
  <2>3. eof[c] => client[c] = "gone"
    BY DEF AnswersInv
  <2> QED BY <2>1, <2>2, <2>3, OneClient DEF AnswersInv
<1>7. ASSUME NEW c \in Conns, SendFails(c) PROVE AnswersInv'
  <2>1. /\ UNCHANGED <<client, reqs, wire, buf, eof, version, replies>> /\ client[c] = "gone"
        /\ DOMAIN task' = Conns /\ DOMAIN action' = Conns /\ task'[c] = "ended"
        /\ \A d \in Conns \ {c} : task'[d] = task[d] /\ action'[d] = action[d]
    BY <1>7 DEF SendFails, AnswersInv
  <2> QED BY <2>1, OneClient DEF AnswersInv
<1>8. ASSUME NEW c \in Conns, Deliver(c) PROVE AnswersInv'
  <2>1. client[c] # "gone" => InOrder(c)'
    BY <1>8, InOrderDeliver DEF AnswersInv
  <2>2. /\ UNCHANGED <<client, reqs, task, eof, version, action, replies>>
        /\ DOMAIN wire' = Conns /\ DOMAIN buf' = Conns
        /\ \A d \in Conns \ {c} : wire'[d] = wire[d] /\ buf'[d] = buf[d]
    BY <1>8 DEF Deliver, AnswersInv
  <2>3. task[c] \in {"none", "reading", "sending", "ended"} /\ (eof[c] => client[c] = "gone")
    BY DEF AnswersInv
  <2> QED BY <2>1, <2>2, <2>3, OneClient DEF AnswersInv
<1>9. ASSUME NEW c \in Conns, EndOfStream(c) PROVE AnswersInv'
  <2>1. /\ UNCHANGED <<client, reqs, wire, task, buf, version, action, replies>> /\ client[c] = "gone"
        /\ DOMAIN eof' = Conns /\ \A d \in Conns \ {c} : eof'[d] = eof[d]
    BY <1>9 DEF EndOfStream, AnswersInv
  <2>2. task[c] \in {"none", "reading", "sending", "ended"}
    BY DEF AnswersInv
  <2> QED BY <2>1, <2>2, OneClient DEF AnswersInv
<1>10. ASSUME NEW c \in Conns, Connect(c) \/ Hangup(c) PROVE AnswersInv'
  <2>1. /\ UNCHANGED <<reqs, wire, task, buf, eof, version, action, replies>>
        /\ client[c] # "gone" /\ DOMAIN client' = Conns
        /\ \A d \in Conns \ {c} : client'[d] = client[d]
    BY <1>10 DEF Connect, Hangup, AnswersInv
  <2>2. InOrder(c)'
    <3>1. InOrder(c)
      BY <2>1 DEF AnswersInv
    <3> QED BY <2>1, <3>1, TaskOnly
  <2>3. task[c] \in {"none", "reading", "sending", "ended"} /\ ~eof[c]
    BY <2>1 DEF AnswersInv
  <2> QED BY <2>1, <2>2, <2>3, OneClient DEF AnswersInv
<1>11. ASSUME NEW c \in Conns, Read(c) PROVE AnswersInv'
  BY <1>1, <1>11 DEF Read
<1> QED
  BY <1>2, <1>3, <1>4, <1>5, <1>6, <1>7, <1>8, <1>9, <1>10, <1>11
  DEF Next, serve, handle_connection, Network

(* However a client's bytes are cut into fragments and pipelined with those  *)
(* of others, it is sent the replies its requests are due, in their order,   *)
(* each once and in the protocol version in force, and nothing after QUIT or *)
(* malformed bytes: the loop of handle_connection and decode_command. The    *)
(* hypothesis leaves out what the early check of the inline limit breaks.    *)
THEOREM AnswersAreRight ==
    ASSUME NoLimitLine
    PROVE  Spec => []AnswersMatch
<1>1. AnswersInv => AnswersMatch
  <2> SUFFICES ASSUME AnswersInv, NEW c \in Conns, client[c] # "gone"
               PROVE  IsPrefix(replies[c], Due(c))
    BY DEF AnswersMatch
  <2>1. PICK g, t, k : Sends(g, reqs[c]) /\ Converses(t, reqs[c]) /\ Standing(c, g, t, k)
    BY DEF AnswersInv, InOrder
  <2>2. reqs[c] \in Seq(Requests) /\ k \in 0..Len(reqs[c])
    BY <2>1, StreamOf DEF Standing
  <2>3. PICK z \in Seq(Replies) : Talk(reqs[c]).due = t[k].due \o z
    BY <2>1, <2>2, DueAhead
  <2>4. PICK p, d : p = replies[c] /\ d = t[k].due
    OBVIOUS
  <2>5. PICK y \in Seq(Replies) : d = p \o y
    <3>1. p \in Seq(Replies)
      BY <2>1, <2>4 DEF Standing
    <3>2. CASE task[c] = "sending"
      <4>1. PICK x : x = action[c].reply
        OBVIOUS
      <4>2. x \in Replies /\ d = Append(p, x)
        BY <2>1, <2>4, <3>2, <4>1 DEF Standing
      <4>3. Append(p, x) = p \o <<x>> /\ <<x>> \in Seq(Replies)
        BY ONLY <3>1, <4>2, AppendIsConcat
      <4> QED BY <4>2, <4>3
    <3>3. CASE task[c] # "sending"
      <4>1. task[c] \in {"none", "reading", "ended"}
        BY <3>3 DEF AnswersInv
      <4>2. d = p
        BY <2>1, <2>4, <4>1 DEF Standing
      <4>3. <<>> \in Seq(Replies) /\ p \o <<>> = p
        BY <3>1, ConcatEmptySeq
      <4> QED BY <4>2, <4>3
    <3> QED BY <3>2, <3>3
  <2>6. p \in Seq(Replies) /\ y \in Seq(Replies) /\ z \in Seq(Replies)
    BY <2>1, <2>3, <2>4, <2>5 DEF Standing
  <2>7. (p \o y) \o z = p \o (y \o z)
    BY ONLY <2>6, Assoc
  <2>8. PICK u : u = y \o z
    OBVIOUS
  <2>9. u \in Seq(Replies)
    BY ONLY <2>6, <2>8, ConcatHas
  <2>10. Due(c) = p \o u
    BY ONLY <2>3, <2>4, <2>5, <2>7, <2>8, Zenon DEF Due
  <2>11. IsPrefix(p, p \o u)
    BY ONLY <2>6, <2>9, PrefixItself
  <2> QED BY ONLY <2>4, <2>10, <2>11, Zenon
<1> QED
  BY <1>1, InitAnswers, NextAnswers, PTL DEF Spec
=============================================================================
