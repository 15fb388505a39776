------------------------------ MODULE MCServer -----------------------------
(***************************************************************************)
(* Small instances of Server: what the clients of each run send. A request *)
(* is written the way a client writes it, apart from the decoder.          *)
(***************************************************************************)
EXTENDS Server

Number(n) == <<ToString(n)>>
Bulk(arg) == <<"$">> \o Number(Len(arg)) \o Crlf \o arg \o Crlf

\* The same arguments as an array of bulk strings and as an inline line.
Multibulk(args) ==
    [wire |-> <<"*">> \o Number(Len(args)) \o Crlf
              \o FlattenSeq([i \in DOMAIN args |-> Bulk(args[i])]),
     means |-> args, bad |-> FALSE]
Inline(args) ==
    [wire |-> FlattenSeq([i \in DOMAIN args |-> args[i] \o <<"SP">>]) \o Crlf,
     means |-> args, bad |-> FALSE]
Quoted(arg, bytes) == [wire |-> bytes \o Crlf, means |-> <<arg>>, bad |-> FALSE]
Blank == [wire |-> Crlf, means |-> <<>>, bad |-> FALSE]
EmptyArray == [wire |-> <<"*", "0">> \o Crlf, means |-> <<>>, bad |-> FALSE]
Malformed(bytes) == [wire |-> bytes, means |-> <<>>, bad |-> TRUE]

Hello(v) == <<<<"H">>, <<v>>>>
Quit == <<<<"Q">>>>
Get == <<<<"g">>>>
\* An argument that holds a CRLF, which only a bulk string can carry.
Binary == <<<<"g">>, Crlf>>

\* Requests of every form, and requests beyond each limit.
Talks == {
    <<Multibulk(Binary), Inline(Quit), Blank>>,
    <<Inline(Hello("3")), Inline(<<<<"H">>>>), Inline(Hello("7")), Inline(Get)>>,
    <<Quoted(<<"g", "LF", "DQ">>, <<"DQ", "g", "BS", "n", "BS", "DQ", "DQ">>), Malformed(<<"DQ">> \o Crlf)>>,
    <<Blank, Quoted(<<"SQ", "g">>, <<"SQ", "BS", "SQ", "g", "SQ">>), EmptyArray,
      Malformed(<<"*", "1">> \o Crlf \o <<"g">>), Inline(Get)>>,
    <<Malformed(<<"g", "g", "g", "g", "g", "g", "g", "g", "g">> \o Crlf)>>,
    <<Malformed(<<"*", "3">> \o Crlf)>>,
    <<Malformed(<<"*", "1">> \o Crlf \o <<"$", "4">> \o Crlf)>>,
    <<Malformed(<<"*", "1">> \o Crlf \o <<"$", "-", "1">> \o Crlf)>> }

\* One client talks, the others only connect and leave.
Talker == CHOOSE c \in Conns : TRUE
Alone(s) == [c \in Conns |-> IF c = Talker THEN s ELSE <<>>]
TalkAndIdle == {Alone(s) : s \in Talks}

\* One inline line exactly as long as the limit.
LimitLine == {Alone(<<Inline(<<[i \in 1..MaxInlineLen - 1 |-> "g"]>>)>>)}
=============================================================================
