------------------------------- MODULE Server ------------------------------
(***************************************************************************)
(* The connection server of the data node: the accept loop and the drain   *)
(* of serve_with, and the read/dispatch/reply loop of handle_connection.   *)
(* The network delivers a client's bytes one by one, so that the decoder   *)
(* meets every fragmentation; replies leave through a socket that blocks   *)
(* when the client does not read.                                          *)
(***************************************************************************)
EXTENDS Decoder

CONSTANTS Conns,          \* clients, one connection each
          Streams,        \* what the clients may send: a sequence of requests each
          SocketRoom      \* replies the network holds before send blocks

\* A request: its bytes, the arguments they stand for, whether it is malformed.
Requests == [wire : Seq(STRING), means : Seq(Seq(STRING)), bad : BOOLEAN]

\* Alone and in one piece a request is decoded as what it means, malformed bytes
\* are refused. These do not end between a CR and its LF.
Sound(r) ==
    LET item == decode_command(r.wire) IN
    IF r.bad THEN item.st = "error" /\ r.wire[Len(r.wire)] # "CR"
    ELSE item = Parsed(r.means, Len(r.wire) + 1)

ASSUME StreamsAssumption ==
    \A s \in Streams :
        /\ DOMAIN s = Conns
        /\ \A c \in Conns : s[c] \in Seq(Requests) /\ \A i \in DOMAIN s[c] : Sound(s[c][i])
ASSUME RoomAssumption == SocketRoom \in Nat \ {0}

VARIABLES phase,      \* serve_with: "accepting", "draining", "stopped"
          signal,     \* the shutdown future has resolved
          client,     \* client: "away", "connected", "gone"
          reqs,       \* client: what it sends
          wire,       \* client: bytes of it that have not arrived yet
          got,        \* client: replies it has read
          task,       \* connection task: "none", "reading", "sending", "ended"
          buf,        \* connection task: the read buffer
          eof,        \* connection task: the end of the stream has arrived
          version,    \* connection task: the codec's RESP version
          action,     \* connection task: the reply being sent, and whether it is the last
          replies,    \* replies handed to the network
          done        \* number of commands dispatched

clientVars == <<client, reqs, wire, got>>
vars == <<phase, signal, client, reqs, wire, got, task, buf, eof, version, action, replies, done>>

-----------------------------------------------------------------------------
(* Replies. The command name is the first argument: <<"H">> is HELLO,       *)
(* <<"Q">> is QUIT, every other name a command that leaves the connection   *)
(* as it is. A reply is the request it answers, the form of its frame and   *)
(* the RESP version it is encoded in.                                       *)

encode(to, form, v) == [to |-> to, form |-> form, enc |-> v]
Action(reply, close) == [reply |-> reply, close |-> close]
NoAction == Action(encode(<<>>, "none", 2), FALSE)

\* The version HELLO asks for: the current one, another, or 0 for none it knows.
hello_target(args, v) ==
    LET n == parse_i64(Trim(args[2])) IN
    IF Len(args) = 1 THEN v
    ELSE IF is_i64(Trim(args[2])) /\ n \in {2, 3} THEN n ELSE 0

hello_reply(target) == CASE target = 3 -> "map" [] target = 2 -> "array" [] OTHER -> "noproto"

\* The version the codec has when the reply is encoded.
set_version(args, v) ==
    IF args[1] = <<"H">> /\ hello_target(args, v) # 0 THEN hello_target(args, v) ELSE v

dispatch(args, v) ==
    LET form == IF args[1] = <<"H">> THEN hello_reply(hello_target(args, v)) ELSE "plain"
    IN  Action(encode(args, form, set_version(args, v)), args[1] = <<"Q">>)

protocol_error(v) == Action(encode(<<>>, "error", v), TRUE)

\* The bytes of the requests s.
Bytes(s) ==
    LET bytes[i \in 0 .. Len(s)] == IF i = 0 THEN <<>> ELSE bytes[i - 1] \o s[i].wire
    IN  bytes[Len(s)]

-----------------------------------------------------------------------------
(* serve_with *)

Init ==
    /\ phase = "accepting" /\ signal = FALSE
    /\ client = [c \in Conns |-> "away"]
    /\ reqs \in Streams
    /\ wire = [c \in Conns |-> Bytes(reqs[c])]
    /\ got = [c \in Conns |-> 0]
    /\ task = [c \in Conns |-> "none"]
    /\ buf = [c \in Conns |-> <<>>]
    /\ eof = [c \in Conns |-> FALSE]
    /\ version = [c \in Conns |-> 2]
    /\ action = [c \in Conns |-> NoAction]
    /\ replies = [c \in Conns |-> <<>>]
    /\ done = [c \in Conns |-> 0]

\* The select is biased: a resolved shutdown wins over a waiting client.
Accept(c) ==
    /\ phase = "accepting" /\ ~signal
    /\ client[c] = "connected" /\ task[c] = "none"
    /\ task' = [task EXCEPT ![c] = "reading"]
    /\ UNCHANGED <<phase, signal, clientVars, buf, eof, version, action, replies, done>>

Shutdown ==
    /\ ~signal
    /\ signal' = TRUE
    /\ UNCHANGED <<phase, clientVars, task, buf, eof, version, action, replies, done>>

\* The accept loop ends and every connection is told.
StopAccepting ==
    /\ phase = "accepting" /\ signal
    /\ phase' = "draining"
    /\ UNCHANGED <<signal, clientVars, task, buf, eof, version, action, replies, done>>

Drained ==
    /\ phase = "draining"
    /\ \A c \in Conns : task[c] \in {"none", "ended"}
    /\ phase' = "stopped"
    /\ UNCHANGED <<signal, clientVars, task, buf, eof, version, action, replies, done>>

-----------------------------------------------------------------------------
(* handle_connection *)

\* Fault: the shutdown signal also interrupts a reply being sent.
Leave_anytime(c) ==
    /\ phase = "draining" /\ task[c] \in {"reading", "sending"}
    /\ task' = [task EXCEPT ![c] = "ended"]
    /\ UNCHANGED <<phase, signal, clientVars, buf, eof, version, action, replies, done>>

\* Fault: the shutdown signal is looked at only when a request is waiting.
Leave_busy(c) ==
    /\ phase = "draining" /\ task[c] = "reading" /\ buf[c] # <<>>
    /\ task' = [task EXCEPT ![c] = "ended"]
    /\ UNCHANGED <<phase, signal, clientVars, buf, eof, version, action, replies, done>>

\* The shutdown branch of the select, which is biased too.
Leave(c) ==
    /\ phase = "draining" /\ task[c] = "reading"
    /\ task' = [task EXCEPT ![c] = "ended"]
    /\ UNCHANGED <<phase, signal, clientVars, buf, eof, version, action, replies, done>>

Reading(c) == phase = "accepting" /\ task[c] = "reading"
Consume(c, item) == buf' = [buf EXCEPT ![c] = SubSeq(@, item.next, Len(@))]

\* An empty request is skipped.
SkipEmpty(c, item) ==
    /\ item.st = "parsed" /\ item.args = <<>>
    /\ Consume(c, item)
    /\ UNCHANGED <<phase, signal, clientVars, task, eof, version, action, replies, done>>

\* Fault: a request already in the buffer waits for the next bytes.
Dispatch_after_read(c, item) ==
    LET args == item.args IN
    /\ item.st = "parsed" /\ args # <<>> /\ item.next = Len(buf[c]) + 1
    /\ Consume(c, item)
    /\ done' = [done EXCEPT ![c] = @ + 1]
    /\ action' = [action EXCEPT ![c] = dispatch(args, version[c])]
    /\ version' = [version EXCEPT ![c] = set_version(args, @)]
    /\ task' = [task EXCEPT ![c] = "sending"]
    /\ UNCHANGED <<phase, signal, clientVars, eof, replies>>

\* A command runs to completion and the codec switches before the reply.
Dispatch(c, item) ==
    LET args == item.args IN
    /\ item.st = "parsed" /\ args # <<>>
    /\ Consume(c, item)
    /\ done' = [done EXCEPT ![c] = @ + 1]
    /\ action' = [action EXCEPT ![c] = dispatch(args, version[c])]
    /\ version' = [version EXCEPT ![c] = set_version(args, @)]
    /\ task' = [task EXCEPT ![c] = "sending"]
    /\ UNCHANGED <<phase, signal, clientVars, eof, replies>>

\* Malformed bytes, or an end of stream in the middle of a request.
ProtocolError(c, item) ==
    /\ \/ item.st = "error"
       \/ item.st = "more" /\ eof[c] /\ buf[c] # <<>>
    /\ action' = [action EXCEPT ![c] = protocol_error(version[c])]
    /\ task' = [task EXCEPT ![c] = "sending"]
    /\ UNCHANGED <<phase, signal, clientVars, buf, eof, version, replies, done>>

\* The other branch of the select: the next item of the framed stream.
NextItem(c) ==
    /\ Reading(c)
    /\ \E item \in {decode_command(buf[c])} :
          SkipEmpty(c, item) \/ Dispatch(c, item) \/ ProtocolError(c, item)

ClientClosed(c) ==
    /\ Reading(c)
    /\ eof[c] /\ buf[c] = <<>>
    /\ task' = [task EXCEPT ![c] = "ended"]
    /\ UNCHANGED <<phase, signal, clientVars, buf, eof, version, action, replies, done>>

\* framed.send completes when the network has taken the reply.
Send(c) ==
    /\ task[c] = "sending"
    /\ Len(replies[c]) - got[c] < SocketRoom
    /\ replies' = [replies EXCEPT ![c] = Append(@, action[c].reply)]
    /\ task' = [task EXCEPT ![c] = IF action[c].close THEN "ended" ELSE "reading"]
    /\ action' = [action EXCEPT ![c] = NoAction]
    /\ UNCHANGED <<phase, signal, clientVars, buf, eof, version, done>>

\* The network reports that the client is gone.
SendFails(c) ==
    /\ task[c] = "sending" /\ client[c] = "gone"
    /\ task' = [task EXCEPT ![c] = "ended"]
    /\ action' = [action EXCEPT ![c] = NoAction]
    /\ UNCHANGED <<phase, signal, clientVars, buf, eof, version, replies, done>>

-----------------------------------------------------------------------------
(* Clients and the network between them and the server. *)

Connect(c) ==
    /\ client[c] = "away" /\ phase # "stopped"
    /\ client' = [client EXCEPT ![c] = "connected"]
    /\ UNCHANGED <<phase, signal, reqs, wire, got, task, buf, eof, version, action, replies, done>>

Deliver(c) ==
    /\ client[c] # "away" /\ ~eof[c] /\ task[c] \in {"reading", "sending"}
    /\ wire[c] # <<>>
    /\ wire' = [wire EXCEPT ![c] = Tail(@)]
    /\ buf' = [buf EXCEPT ![c] = Append(@, Head(wire[c]))]
    /\ UNCHANGED <<phase, signal, client, reqs, got, task, eof, version, action, replies, done>>

Read(c) ==
    /\ client[c] = "connected" /\ got[c] < Len(replies[c])
    /\ got' = [got EXCEPT ![c] = @ + 1]
    /\ UNCHANGED <<phase, signal, client, reqs, wire, task, buf, eof, version, action, replies, done>>

\* A client may leave at any time; what it sent may be cut off.
Hangup(c) ==
    /\ client[c] = "connected"
    /\ client' = [client EXCEPT ![c] = "gone"]
    /\ UNCHANGED <<phase, signal, reqs, wire, got, task, buf, eof, version, action, replies, done>>

EndOfStream(c) ==
    /\ client[c] = "gone" /\ ~eof[c] /\ task[c] \in {"reading", "sending"}
    /\ eof' = [eof EXCEPT ![c] = TRUE]
    /\ UNCHANGED <<phase, signal, clientVars, task, buf, version, action, replies, done>>

serve == StopAccepting \/ Drained \/ (\E c \in Conns : Accept(c))
handle_connection(c) ==
    \/ Leave(c) \/ NextItem(c) \/ ClientClosed(c) \/ Send(c) \/ SendFails(c)
Network(c) == Deliver(c) \/ EndOfStream(c)

Next ==
    \/ serve \/ Shutdown
    \/ \E c \in Conns : handle_connection(c) \/ Network(c) \/ Connect(c) \/ Read(c) \/ Hangup(c)

Spec == Init /\ [][Next]_vars

\* The runtime runs ready tasks, the network delivers, and a client that stays
\* reads its replies. Nothing makes a client connect or leave, or a shutdown come.
LiveSpec ==
    /\ Spec
    /\ WF_vars(StopAccepting) /\ WF_vars(Drained)
    /\ \A c \in Conns : /\ WF_vars(Accept(c)) /\ WF_vars(handle_connection(c))
                        /\ WF_vars(Network(c)) /\ WF_vars(Read(c))

-----------------------------------------------------------------------------
(* What a client is promised, from its requests alone. *)

\* The conversation so far: replies due, version negotiated, still open.
Answer(s, r) ==
    IF ~s.open \/ (~r.bad /\ r.means = <<>>) THEN s
    ELSE IF r.bad
    THEN [s EXCEPT !.due = Append(@, protocol_error(s.v).reply), !.open = FALSE]
    ELSE [due |-> Append(s.due, dispatch(r.means, s.v).reply),
          v |-> set_version(r.means, s.v),
          open |-> ~dispatch(r.means, s.v).close]
Talk(s) ==
    LET talk[i \in 0 .. Len(s)] == IF i = 0 THEN [due |-> <<>>, v |-> 2, open |-> TRUE]
                                   ELSE Answer(talk[i - 1], s[i])
    IN  talk[Len(s)]
Due(c) == Talk(reqs[c]).due

(* However a client's bytes are cut into fragments and pipelined, it gets the *)
(* replies to its requests, in their order, each once, in the protocol        *)
(* version in force, HELLO's own reply in the new one; nothing after QUIT or  *)
(* a malformed request.                                                       *)
AnswersMatch ==
    \A c \in Conns : client[c] # "gone" => IsPrefix(replies[c], Due(c))

(* A drained server has answered every command it ran: "every open connection *)
(* is signalled to finish its in-flight command".                             *)
RunsAreAnswered ==
    phase = "stopped" =>
        \A c \in Conns : client[c] # "gone" =>
            done[c] = Cardinality({i \in DOMAIN replies[c] : replies[c][i].form # "error"})

(* After the shutdown signal the server comes to a stop, with clients in the  *)
(* middle of requests and replies, as long as they read.                      *)
DrainEnds == signal ~> phase = "stopped"

(* A client that stays connected gets every reply it is due, also to requests *)
(* that arrived together, unless the server is shut down.                     *)
AnswersArrive ==
    \A c \in Conns :
        client[c] = "connected" ~>
            (got[c] = Len(Due(c)) \/ client[c] = "gone" \/ signal)
=============================================================================
