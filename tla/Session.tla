------------------------------ MODULE Session -------------------------------
(***************************************************************************)
(* One client's session with the data node, from the arguments of its      *)
(* requests to the frames it decodes: dispatch and handle_connection, the  *)
(* handlers' store calls one by one, the encoder in the connection's       *)
(* version, and a client that reads with RespCodec while bytes trickle in. *)
(*                                                                         *)
(* The store behind the handlers is one string key with its deadline; every *)
(* other call may return anything of its type, since other clients are at  *)
(* work too. What the store really does is the subject of module Store.    *)
(***************************************************************************)
EXTENDS Commands

CONSTANTS Scripts,     \* what the server side may be asked to send, in order
          Payloads,    \* the values and members the store may return
          Floats,      \* the scores the store may return
          MaxNow       \* bound on the clock

\* An entry of a script: a request; a frame some other user of the codec
\* writes; or bytes that are no frame.
Entry(args, frame, junk) == [args |-> args, frame |-> frame, junk |-> junk]
Request(args) == Entry(args, NoFrame, <<>>)
Written(frame) == Entry(<<>>, frame, <<>>)
Junk(bytes) == Entry(<<>>, NoFrame, bytes)

VARIABLES script,      \* what is still to be handled
          cur,         \* the request a handler is working on, or <<>>
          res,         \* the results of its store calls so far
          version,     \* the codec's RESP version
          closed,      \* the connection task has ended
          sent,        \* frames handed to the encoder: the frame, its version, its origin
          out,         \* bytes on their way to the client
          inbox,       \* bytes the client has not decoded yet
          got,         \* frames the client has decoded
          broken,      \* the client's decoder has reported an error
          key,         \* the string key: present, its deadline, the moment asked for
          now          \* the clock

server == <<script, cur, res, version, closed>>
client == <<inbox, got, broken>>
vars == <<script, cur, res, version, closed, sent, out, inbox, got, broken, key, now>>

NoKey == [there |-> FALSE, expire |-> 0, asked |-> 0]

Fresh ==
    /\ cur = <<>> /\ res = <<>> /\ version = 2 /\ closed = FALSE
    /\ sent = <<>> /\ out = <<>> /\ inbox = <<>> /\ got = <<>> /\ broken = FALSE
    /\ key = NoKey /\ now = 1

Init == script \in Scripts /\ Fresh

-----------------------------------------------------------------------------
(* Replies of the connection layer. *)

CONNECTION_VERBS == {"HELLO", "QUIT", "CLIENT", "SELECT", "COMMAND", "FLUSHDB", "FLUSHALL"}
is_verb(args) == Len(args[1]) = 1 /\ args[1][1] \in CONNECTION_VERBS

\* The version HELLO leads to, 0 when it asks for one that does not exist.
from_i64(n) == IF n \in {2, 3} THEN n ELSE 0
hello_target(args) ==
    IF Len(args) = 1 THEN version
    ELSE IF has_i64(Trim(args[2])) THEN from_i64(parse_i64(Trim(args[2]))) ELSE 0

hello_reply(target) ==
    LET fields == <<Bulk(<<"server">>), Bulk(<<"gamestore">>), Bulk(<<"version">>), Bulk(<<"0.1">>),
                    Bulk(<<"proto">>), Integer(target), Bulk(<<"id">>), Integer(1),
                    Bulk(<<"mode">>), Bulk(<<"standalone">>), Bulk(<<"role">>), Bulk(<<"master">>),
                    Bulk(<<"modules">>), Array(<<>>)>>
    IN  IF target = 3 THEN MapOf(fields) ELSE Array(fields)

client_reply(args) ==
    IF Len(args) = 1 THEN wrong_args
    ELSE CASE args[2] \in {<<"SETINFO">>, <<"SETNAME">>, <<"NO-EVICT">>, <<"NO-TOUCH">>} -> Ok
           [] args[2] = <<"ID">> -> Integer(1)
           [] args[2] = <<"GETNAME">> -> Bulk(<<>>)
           [] OTHER -> ErrorFrame(<<"unknown subcommand">> \o args[2])

select(args) ==
    IF Len(args) # 2 THEN wrong_args
    ELSE IF ~has_i64(args[2]) THEN NOT_AN_INTEGER
    ELSE IF parse_i64(args[2]) = 0 THEN Ok ELSE ErrorFrame(<<"DB index is out of range">>)

flush_refusal(args) ==
    CASE Len(args) = 1 -> NoFrame
      [] Len(args) = 2 -> IF args[2] \in {<<"ASYNC">>, <<"SYNC">>} THEN NoFrame ELSE SyntaxError
      [] OTHER -> wrong_args

verb_reply(args) ==
    CASE Name(args) = "HELLO" ->
            IF hello_target(args) = 0 THEN ErrorFrame(<<"NOPROTO">>) ELSE hello_reply(hello_target(args))
      [] Name(args) = "QUIT" -> Ok
      [] Name(args) = "CLIENT" -> client_reply(args)
      [] Name(args) = "SELECT" -> select(args)
      [] Name(args) = "COMMAND" -> Array(<<>>)
      [] OTHER -> flush_refusal(args)

\* What the dispatcher answers without a store call, else NoFrame.
dispatch(args) == IF is_verb(args) THEN verb_reply(args) ELSE refusal(args, now)

\* Fault: the version is switched after the reply has been encoded.
set_version_late(args) == version

\* The version the encoder has when it writes the reply.
set_version(args) ==
    IF Name(args) = "HELLO" /\ hello_target(args) # 0 THEN hello_target(args) ELSE version

-----------------------------------------------------------------------------
(* The store behind the handlers. *)

Live(k) == k.there /\ (k.expire = 0 \/ now < k.expire)

\* The clock is read once for load_live_meta and again for what is left, which
\* is 0 when the deadline passes in between.
pttl(k, later) ==
    IF ~Live(k) THEN -2 ELSE IF k.expire = 0 THEN -1 ELSE Max({0, k.expire - later})
later_ms(args) == IF Name(args) \in {"TTL", "PTTL"} /\ Live(key) /\ key.expire # 0 THEN now..MaxNow ELSE {now}

Seqs(S) == {<<>>} \cup {<<s>> : s \in S} \cup {<<s, t>> : s, t \in S}
OptionOf(S) == {<<>>} \cup {<<s>> : s \in S}

\* The name of the string key. DEL and EXISTS make one call for each key they name.
TheKey == <<"k">>

\* What the next call of the request may return, if it ends at `later`.
Values(args, later) ==
    LET name == Name(args) IN
    CASE name \in {"TTL", "PTTL"} -> {pttl(key, later)}
      [] name \in {"EXPIRE", "PEXPIRE"} -> {IF Live(key) THEN 1 ELSE 0}
      [] name \in {"DEL", "EXISTS"} ->
            IF args[Len(res) + 2] = TheKey THEN {IF Live(key) THEN 1 ELSE 0} ELSE 0..1
      [] name \in {"HEXISTS", "SISMEMBER"} -> 0..1
      [] name = "TYPE" -> {<<"string">>, <<"none">>}
      [] name \in {"GET", "HGET", "HMGET"} -> OptionOf(Payloads)
      [] name = "ZSCORE" -> OptionOf(Floats)
      [] name = "HGETALL" -> {FlattenSeq(s) : s \in Seqs(Payloads \X Payloads)}
      [] name \in {"SMEMBERS", "LRANGE"} -> Seqs(Payloads)
      [] name \in {"ZRANGE", "ZRANGEBYSCORE"} -> Seqs(Payloads \X Floats)
      [] name \in {"LPOP", "RPOP"} ->
            IF res = <<>> THEN 0..1
            ELSE {s \in Seqs(Payloads) : Len(s) <= (IF Len(args) = 2 THEN 1 ELSE parse_i64(args[3]))}
      [] OTHER -> 0..2

Untyped == {"SET", "DEL", "EXISTS", "TYPE", "EXPIRE", "PEXPIRE", "TTL", "PTTL", "FLUSHDB", "FLUSHALL"}
                \cup DOMAIN AdminArity

Outcomes(args, later) ==
    {Good(v) : v \in Values(args, later)}
        \cup {Bad(e, CHOOSE v \in Values(args, later) : TRUE) :
                e \in {"backend"} \cup (IF Name(args) \in Untyped THEN {} ELSE {"wrongType"})}

\* SET and EXPIRE move the key's deadline; `asked` is the moment the request
\* names, in unbounded arithmetic, 0 when it names none.
Moment(args) ==
    CASE Name(args) = "SET" ->
            IF Len(args) = 3 THEN 0 ELSE parse_i64(args[5]) * unit_ms(args[4]) + now
      [] OTHER -> Max({1, parse_i64(args[3]) * unit_ms(args[1]) + now})

key_after(args, r) ==
    IF r.err # "none" THEN key ELSE
    CASE Name(args) = "SET" -> [there |-> TRUE, expire |-> set(args, now).expire, asked |-> Moment(args)]
      [] Name(args) \in {"EXPIRE", "PEXPIRE"} /\ r.val = 1 ->
            [there |-> TRUE, expire |-> expire_generic(args, now).expire, asked |-> Moment(args)]
      [] Name(args) = "DEL" /\ args[Len(res) + 2] = TheKey -> NoKey
      [] Name(args) \in {"FLUSHDB", "FLUSHALL"} -> NoKey
      [] OTHER -> key

-----------------------------------------------------------------------------
(* The connection task. *)

Send(frame, v, from) ==
    /\ sent' = Append(sent, [frame |-> frame, v |-> v, from |-> from])
    /\ out' = out \o encode(frame, v)

\* The next request is answered without the store.
Answer ==
    /\ cur = <<>> /\ script # <<>> /\ ~closed /\ Head(script).args # <<>>
    /\ LET args == Head(script).args IN
        /\ dispatch(args) # NoFrame
        /\ Send(dispatch(args), set_version(args), "handler")
        /\ version' = set_version(args)
        /\ closed' = (Name(args) = "QUIT")
    /\ script' = Tail(script)
    /\ UNCHANGED <<cur, res, client, key, now>>

\* The next request goes to its handler.
Take ==
    /\ cur = <<>> /\ script # <<>> /\ ~closed /\ Head(script).args # <<>>
    /\ dispatch(Head(script).args) = NoFrame
    /\ cur' = Head(script).args /\ res' = <<>>
    /\ script' = Tail(script)
    /\ UNCHANGED <<version, closed, sent, out, client, key, now>>

\* One store call of the handler.
Call ==
    /\ cur # <<>> /\ ~finished(cur, res)
    /\ \E later \in later_ms(cur) : \E r \in Outcomes(cur, later) :
        /\ res' = Append(res, r)
        /\ key' = key_after(cur, r)
        /\ now' = later
    /\ UNCHANGED <<script, cur, version, closed, sent, out, client>>

\* The handler's reply is encoded and sent.
Reply ==
    /\ cur # <<>> /\ finished(cur, res)
    /\ Send(reply(cur, res, version), version, "handler")
    /\ cur' = <<>> /\ res' = <<>>
    /\ UNCHANGED <<script, version, closed, client, key, now>>

\* Another user of the codec writes a frame.
Write ==
    /\ cur = <<>> /\ script # <<>> /\ ~closed /\ Head(script).frame # NoFrame
    /\ Send(Head(script).frame, version, "user")
    /\ script' = Tail(script)
    /\ UNCHANGED <<cur, res, version, closed, client, key, now>>

\* Bytes that are no frame.
Garble ==
    /\ cur = <<>> /\ script # <<>> /\ ~closed /\ Head(script).junk # <<>>
    /\ out' = out \o Head(script).junk
    /\ script' = Tail(script)
    /\ UNCHANGED <<cur, res, version, closed, sent, client, key, now>>

-----------------------------------------------------------------------------
(* The client. *)

Arrive ==
    /\ out # <<>>
    /\ inbox' = Append(inbox, Head(out)) /\ out' = Tail(out)
    /\ UNCHANGED <<server, sent, got, broken, key, now>>

Receive ==
    /\ ~broken
    /\ LET r == decode(inbox) IN
        /\ r.st # "more"
        /\ broken' = (r.st = "error")
        /\ got' = IF r.st = "parsed" THEN Append(got, r.args) ELSE got
        /\ inbox' = IF r.st = "parsed" THEN SubSeq(inbox, r.next, Len(inbox)) ELSE inbox
    /\ UNCHANGED <<server, sent, out, key, now>>

\* Time passes. It is only read against the key's deadline.
Tick ==
    /\ now < MaxNow /\ key.there
    /\ now' = now + 1
    /\ UNCHANGED <<server, sent, out, client, key>>

Next == Answer \/ Take \/ Call \/ Reply \/ Write \/ Garble \/ Arrive \/ Receive \/ Tick

Spec == Init /\ [][Next]_vars

-----------------------------------------------------------------------------
(* Properties. *)

Frames(s) == [i \in DOMAIN s |-> s[i].frame]

HasJunk == sent = <<>> /\ (broken \/ inbox \o out # <<>>)

\* Every reply arrives: however the bytes are cut up, whatever version the
\* connection has had meanwhile, the client decodes exactly the frames that
\* were sent, in order, never an error, and is left with no byte when all is
\* delivered.
RepliesArrive ==
    ~HasJunk =>
        /\ ~broken
        /\ IsPrefix(got, Frames(sent))
        /\ out = <<>> /\ decode(inbox).st = "more" => got = Frames(sent) /\ inbox = <<>>

\* Bytes that are no frame are refused: the decoder never makes a frame of them
\* and, once it has them all, does not wait for more.
JunkRefused ==
    HasJunk => got = <<>> /\ (out = <<>> => decode(inbox).st = "error")

RECURSIVE Resp2(_), Flat(_)
Resp2(f) ==
    /\ f.t \in {"simple", "error", "integer", "bulk", "null", "array"}
    /\ \A i \in DOMAIN f.items : Resp2(f.items[i])

\* A connection that speaks RESP2 is sent no RESP3 type at any depth: the
\* encoder does not downgrade, so each handler has to choose by the version the
\* reply is encoded in.
OldFormsOnly ==
    \A i \in DOMAIN sent : sent[i].v = 2 /\ sent[i].from = "handler" => Resp2(sent[i].frame)

Flat(f) ==
    CASE f.t \in {"array", "set", "map", "push"} ->
            FlattenSeq([i \in DOMAIN f.items |-> Flat(f.items[i])])
      [] f.t = "double" -> <<Bulk(format_score(f.dbl))>>
      [] OTHER -> <<f>>

\* A reply says the same in both versions: the values are the same ones in the
\* same order, only their grouping and the form of scores differ.
VersionsAgree ==
    cur # <<>> /\ finished(cur, res) => Flat(reply(cur, res, 2)) = Flat(reply(cur, res, 3))

\* A key lives exactly until the moment its last SET or EXPIRE named, computed
\* without overflow, and TTL rounds what is left up to whole seconds.
LivesAsAsked ==
    /\ key.there => (Live(key) <=> key.asked = 0 \/ now < key.asked)
    /\ cur # <<>> /\ Name(cur) = "TTL" /\ res # <<>> /\ res[1].err = "none" /\ res[1].val >= 0 =>
            LET n == reply(cur, res, version).num IN
            res[1].val \in (n - 1) * UnitMs + 1 .. n * UnitMs
=============================================================================
