------------------------------- MODULE MCNode -------------------------------
(***************************************************************************)
(* Launches and clients for TLC: each setting given by every combination   *)
(* of layers, colliding and taken addresses, scrapes of /metrics; every    *)
(* command in every form its handler tells apart, before and after HELLO;  *)
(* expiry requests at the edges of i64; frames of every kind; bytes that   *)
(* are no frame.                                                           *)
(***************************************************************************)
EXTENDS Node

W(words) == [i \in DOMAIN words |-> <<words[i]>>]
Minus(d) == <<"-", d>>
Hello(v) == Request(W(<<"HELLO", v>>))

\* Values with a line break, empty, and plain.
MCPayloads == {<<>>, <<"CR", "LF">>, <<"a">>}
MCFloats == {f64(FALSE, 1), f64(TRUE, 0), f64(TRUE, Infinite)}

\* Requests that reach the store.
StoreRequests ==
    {W(<<"GET", "k">>), W(<<"DEL", "k", "j">>), W(<<"EXISTS", "k", "k">>), W(<<"TYPE", "k">>),
     W(<<"HSET", "h", "f", "a">>), W(<<"HMSET", "h", "f", "a">>), W(<<"HGET", "h", "f">>),
     W(<<"HMGET", "h", "f", "g">>), W(<<"HGETALL", "h">>), W(<<"HDEL", "h", "f">>), W(<<"HLEN", "h">>),
     W(<<"HEXISTS", "h", "f">>), W(<<"SADD", "s", "a">>), W(<<"SREM", "s", "a">>),
     W(<<"SISMEMBER", "s", "a">>), W(<<"SMEMBERS", "s">>), W(<<"SCARD", "s">>),
     W(<<"ZADD", "z", "1", "a">>), W(<<"ZADD", "z", "inf", "a", "2", "a">>), W(<<"ZSCORE", "z", "a">>),
     W(<<"ZRANGE", "z", "0">>) \o <<Minus("1")>>, W(<<"ZRANGE", "z", "0", "1", "WITHSCORES">>),
     <<<<"ZRANGEBYSCORE">>, <<"z">>, <<"-", "inf">>, <<"(", "2">>>>,
     W(<<"ZRANGEBYSCORE", "z", "0", "1", "WITHSCORES", "LIMIT", "1", "1">>),
     W(<<"ZRANGEBYSCORE", "z", "0", "1", "LIMIT", "0">>) \o <<Minus("1")>> \o W(<<"WITHSCORES">>),
     W(<<"ZRANGEBYSCORE", "z", "0", "1", "LIMIT">>) \o <<Minus("1"), <<"1">>>>,
     W(<<"ZREM", "z", "a">>), W(<<"ZCARD", "z">>), W(<<"LPUSH", "l", "a">>), W(<<"RPUSH", "l", "a", "a">>),
     W(<<"LPOP", "l">>), W(<<"RPOP", "l", "0">>), W(<<"LPOP", "l", "2">>), W(<<"LRANGE", "l", "0">>) \o <<Minus("1")>>,
     W(<<"LLEN", "l">>), W(<<"DBSIZE">>), W(<<"RAWCOUNT">>), W(<<"COMPACT">>), W(<<"FLUSHDB">>),
     W(<<"FLUSHALL", "ASYNC">>)}

\* Requests answered before the store is called.
OtherRequests ==
    {W(<<"PING">>), W(<<"PING", "a">>), W(<<"PING", "a", "a">>), W(<<"ECHO", "a">>), W(<<"ECHO">>),
     <<<<"E", "CHO">>>>, W(<<"GET">>), W(<<"HSET", "h", "f", "a", "g">>), W(<<"ZADD", "z", "NX", "a">>),
     W(<<"ZADD", "z", "nan", "a">>), W(<<"ZADD", "z", "1", "a", "2">>), W(<<"ZRANGE", "z", "a", "1">>),
     W(<<"ZRANGE", "z", "0", "1", "REV">>), W(<<"ZRANGEBYSCORE", "z", "a", "1">>),
     W(<<"ZRANGEBYSCORE", "z", "0", "1", "LIMIT", "1">>), W(<<"ZRANGEBYSCORE", "z", "0", "1", "REV">>),
     W(<<"LPOP", "l">>) \o <<Minus("1")>>, W(<<"LPOP", "l", "a">>), W(<<"LPOP", "l", "1", "1">>),
     W(<<"LRANGE", "l", "a", "1">>), W(<<"SELECT", "0">>), W(<<"SELECT", "1">>), W(<<"SELECT", "a">>),
     W(<<"SELECT">>), W(<<"CLIENT">>), W(<<"CLIENT", "ID">>), W(<<"CLIENT", "GETNAME">>),
     W(<<"CLIENT", "SETINFO">>), W(<<"CLIENT", "LIST">>), W(<<"COMMAND">>), W(<<"QUIT">>),
     W(<<"HELLO">>), W(<<"HELLO", "4">>), <<<<"HELLO">>, <<"SP", "3">>>>, W(<<"FLUSHDB", "NOW">>),
     W(<<"FLUSHDB", "SYNC", "NOW">>)}

Numbers == {<<"1">>, <<"2">>, <<"0">>, <<"9">>, <<"1", "9">>, Minus("1"), <<"-", "2", "0">>, <<"9", "9">>, <<"a">>}
ExpirySets == {<<<<"SET">>, <<"k">>, <<"a">>, <<u>>, n>> : u \in {"EX", "PX"}, n \in Numbers}
Expires == {<<<<u>>, <<"k">>, n>> : u \in {"EXPIRE", "PEXPIRE"}, n \in Numbers}
Plain == W(<<"SET", "k", "a">>)
Ttls == {W(<<"TTL", "k">>), W(<<"PTTL", "k">>)}

ExpiryScripts ==
    {<<Request(s), Request(t)>> : s \in ExpirySets, t \in Ttls}
        \cup {<<Request(Plain), Request(e), Request(t)>> : e \in Expires, t \in Ttls}
        \cup {<<Request(s), Request(r)>> : s \in {Plain, W(<<"SET", "k", "a", "EX", "1">>)},
                                           r \in {W(<<"EXISTS", "k">>), W(<<"FLUSHALL">>)}}
        \cup {<<Request(Plain), Request(W(<<"DEL", "j", "k">>)), Request(W(<<"TTL", "k">>))>>,
              <<Request(Plain), Request(W(<<"SET", "k", "a", "EX", "1", "PX", "1">>))>>,
              <<Request(W(<<"SET", "k", "a", "NX">>)), Request(W(<<"SET", "k", "a", "EX">>))>>}

\* Frames of every kind, nested as deep as the decoder allows.
Nested == Array(<<MapOf(<<Bulk(<<"a">>), Array(<<Null>>)>>), SetOf(<<>>)>>)
AllFrames ==
    {Simple(<<>>), ErrorFrame(<<"a">>), BigNumber(<<"1", "2">>), BulkError(<<"CR", "LF">>), Boolean(TRUE),
     Boolean(FALSE), Verbatim(<<"t", "x", "t">>, <<":", "LF">>), Verbatim(<<"t", "x", "t">>, <<>>),
     Push(<<Integer(-12), Null>>), Double(f64(TRUE, 0)), Double(f64(FALSE, NotANumber)), Nested}

\* Headers that promise too much or too little, bodies that do not fit.
Line(mark, body) == <<mark>> \o body \o Crlf
JunkBytes ==
    {Line("?", <<>>), Line(":", <<"a">>), Line("_", <<"a">>), Line("#", <<"x">>), Line(",", <<"a">>),
     Line("$", Minus("2")), Line("!", Minus("1")), Line("$", <<"9", "9">>), Line("$", <<"a">>),
     Line("$", <<"1">>) \o <<"a", "a", "LF">>, Line("=", <<"3">>) \o <<"t", "x", "t">> \o Crlf,
     Line("=", <<"4">>) \o <<"t", "x", "t", "a">> \o Crlf, Line("*", Minus("2")), Line("~", Minus("1")),
     Line("%", Minus("1")), Line("%", <<"9", "9">>), Line(">", <<"9", "9">>),
     Line("*", <<"1">>) \o Line("*", <<"1">>) \o Line("*", <<"1">>) \o Line("*", <<"1">>) \o Line("_", <<>>)}

MCScripts ==
    {<<Request(r)>> : r \in StoreRequests \cup OtherRequests}
        \cup {<<Hello("3"), Request(r)>> : r \in StoreRequests \cup {W(<<"HELLO">>), W(<<"QUIT">>)}}
        \cup {<<Hello("3"), Hello("2"), Request(W(<<"ZSCORE", "z", "a">>))>>}
        \cup {<<Request(W(<<"QUIT">>)), Request(W(<<"PING">>))>>}
        \cup ExpiryScripts
        \cup {<<Written(f)>> : f \in AllFrames}
        \cup {<<Hello("3"), Written(f), Written(f)>> : f \in AllFrames \ {Nested}}
        \cup {<<Junk(b)>> : b \in JunkBytes}

-----------------------------------------------------------------------------
\* What a layer says of a setting: nothing, a value of its own, or junk.
Raw(s, layer) == {"", "junk", IF s = "enabled" THEN "false" ELSE layer}
Only(s, v) == [Absent EXCEPT ![s] = v]
Launch(config, cli, env, file) ==
    [config |-> config, cli |-> cli, env |-> env, file |-> file, flaw |-> "none"]

MCLaunches ==
    UNION {{Launch(c, Only(s, v), Only(s, e), Only(s, f)) :
                c \in BOOLEAN, v \in IF s \in Flags THEN Raw(s, "cli") ELSE {""},
                e \in Raw(s, "env"), f \in Raw(s, "file")} : s \in Settings}
        \cup {Launch(FALSE, Absent, Only(s, v), Absent) :
                s \in {"port", "metrics_port"}, v \in {"6380", "9600", "taken"}}
        \cup {[NoLaunch EXCEPT !.flaw = "unknown argument"]}
MCTaken == {<<"lo", "taken">>}

MCHttp ==
    {<<"GET", "SP", "/metrics", "SP", "x">> \o EndOfHead, <<"GET", "SP", "/metrics", "?", "SP">> \o EndOfHead,
     <<"GET", "SP", "/metrics", "x", "SP">> \o EndOfHead, <<"POST", "SP", "/metrics", "SP">> \o EndOfHead,
     <<"GET", "SP", "/", "SP">> \o EndOfHead, EndOfHead, <<"x", "x", "x", "x", "x">> \o EndOfHead \o EndOfHead}
=============================================================================
