------------------------------ MODULE Commands ------------------------------
(***************************************************************************)
(* The command layer: what each handler refuses before it calls the store, *)
(* which store calls it makes, and the frame it builds from their results. *)
(* An argument is a sequence of bytes; a command name is one byte long, as *)
(* are the words of options and replies. Name lookup ignores case in the   *)
(* code, so names are written in one case here.                            *)
(***************************************************************************)
EXTENDS Codec

CONSTANTS MaxI64,      \* i64::MAX
          UnitMs       \* the milliseconds of a second

ASSUME UnitAssumption == MaxI64 \in Nat /\ UnitMs \in Nat \ {0}

NoFrame == TextFrame("none", <<>>)
Ok == Simple(<<"OK">>)
SyntaxError == ErrorFrame(<<"syntax error">>)
NOT_AN_INTEGER == ErrorFrame(<<"not an integer">>)
wrong_args == ErrorFrame(<<"wrong number of arguments">>)
invalid_expire == ErrorFrame(<<"invalid expire time">>)
engine_error(e) == ErrorFrame(IF e = "wrongType" THEN <<"WRONGTYPE">> ELSE <<"ERR", e>>)

\* What a store call returns: a value, or an error.
Good(val) == [err |-> "none", val |-> val]
Bad(e, val) == [err |-> e, val |-> val]

in_i64(n) == n \in -(MaxI64 + 1)..MaxI64
has_i64(arg) == is_i64(arg) /\ in_i64(parse_i64(arg))
Name(args) == args[1][1]

-----------------------------------------------------------------------------
(* Strings and expiry. *)

StringArity == [SET |-> -3, GET |-> 2, DEL |-> -2, EXISTS |-> -2, TYPE |-> 2,
                EXPIRE |-> 3, PEXPIRE |-> 3, TTL |-> 2, PTTL |-> 2]

unit_ms(word) == IF word \in {<<"EX">>, <<"EXPIRE">>} THEN UnitMs ELSE 1

\* One turn of SET's option loop.
set_option(args, i, acc, now) ==
    LET n == parse_i64(args[i + 1])
        deadline == n * unit_ms(args[i]) + now
        refused ==
            IF args[i] \notin {<<"EX">>, <<"PX">>} \/ acc.expire # 0 \/ i = Len(args)
            THEN SyntaxError
            ELSE IF ~has_i64(args[i + 1]) THEN NOT_AN_INTEGER
            ELSE IF n <= 0 \/ ~in_i64(n * unit_ms(args[i])) \/ ~in_i64(deadline)
            THEN invalid_expire
            ELSE NoFrame
    IN  [refused |-> refused, expire |-> IF refused = NoFrame THEN deadline ELSE 0]

RECURSIVE set_options(_, _, _, _)
set_options(args, i, acc, now) ==
    IF i > Len(args) \/ acc.refused # NoFrame THEN acc
    ELSE set_options(args, i + 2, set_option(args, i, acc, now), now)

set(args, now) == set_options(args, 4, [refused |-> NoFrame, expire |-> 0], now)

\* Fault: a deadline in the past reaches the store as 0, which means none.
expire_generic_unclamped(args, now) ==
    LET delta == parse_i64(args[3]) * unit_ms(args[1]) IN
    IF ~has_i64(args[3]) THEN [refused |-> NOT_AN_INTEGER, expire |-> 0]
    ELSE IF ~in_i64(delta) THEN [refused |-> invalid_expire, expire |-> 0]
    ELSE [refused |-> NoFrame, expire |-> Max({Min({now + delta, MaxI64}), 0})]

expire_generic(args, now) ==
    LET delta == parse_i64(args[3]) * unit_ms(args[1]) IN
    IF ~has_i64(args[3]) THEN [refused |-> NOT_AN_INTEGER, expire |-> 0]
    ELSE IF ~in_i64(delta) THEN [refused |-> invalid_expire, expire |-> 0]
    ELSE [refused |-> NoFrame, expire |-> Max({Min({now + delta, MaxI64}), 1})]

\* TTL in seconds, rounded up.
ttl(ms) == Integer(IF ms < 0 THEN ms ELSE (ms + UnitMs - 1) \div UnitMs)

bulk_or_null(val) == IF val = <<>> THEN Null ELSE Bulk(val[1])
count_true(res) == Len(SelectSeq(res, LAMBDA r : r.val = 1))

string_reply(args, res) ==
    LET val == res[Len(res)].val IN
    CASE Name(args) = "SET" -> Ok
      [] Name(args) = "GET" -> bulk_or_null(val)
      [] Name(args) \in {"DEL", "EXISTS"} -> Integer(count_true(res))
      [] Name(args) = "TYPE" -> Simple(val)
      [] Name(args) = "TTL" -> ttl(val)
      [] OTHER -> Integer(val)

-----------------------------------------------------------------------------
(* Hashes and sets. *)

HashArity == [HSET |-> -4, HMSET |-> -4, HGET |-> 3, HMGET |-> -3, HGETALL |-> 2,
              HDEL |-> -3, HLEN |-> 2, HEXISTS |-> 3]
SetArity == [SADD |-> -3, SREM |-> -3, SISMEMBER |-> 3, SMEMBERS |-> 2, SCARD |-> 2]

hset_refusal(args) == IF Len(args) % 2 # 0 THEN wrong_args ELSE NoFrame

Bulks(vals) == [i \in DOMAIN vals |-> Bulk(vals[i])]

\* Fields and values alternate in `vals`.
hgetall(vals, version) == IF version = 3 THEN MapOf(Bulks(vals)) ELSE Array(Bulks(vals))
hmget(res) == Array([i \in DOMAIN res |-> bulk_or_null(res[i].val)])

smembers(vals, version) == IF version = 3 THEN SetOf(Bulks(vals)) ELSE Array(Bulks(vals))

hash_reply(args, res, version) ==
    LET val == res[Len(res)].val IN
    CASE Name(args) = "HMSET" -> Ok
      [] Name(args) = "HGET" -> bulk_or_null(val)
      [] Name(args) = "HMGET" -> hmget(res)
      [] Name(args) = "HGETALL" -> hgetall(val, version)
      [] OTHER -> Integer(val)

set_reply(args, res, version) ==
    LET val == res[Len(res)].val IN
    IF Name(args) = "SMEMBERS" THEN smembers(val, version) ELSE Integer(val)

-----------------------------------------------------------------------------
(* Sorted sets. *)

ZSetArity == [ZADD |-> -4, ZSCORE |-> 3, ZRANGE |-> -4, ZRANGEBYSCORE |-> -4,
              ZREM |-> -3, ZCARD |-> 2]

parses_score(raw) == raw # <<>> /\ is_f64(raw) /\ ~is_nan(parse_f64(raw))
parses_bound(raw) == parses_score(IF raw # <<>> /\ Head(raw) = "(" THEN Tail(raw) ELSE raw)

\* An integral score is written as an i64, so that minus zero loses its sign.
format_score(d) ==
    IF is_finite(d) THEN format_i64(IF d.neg THEN -d.mag ELSE d.mag) ELSE put_double(d)

score_frame(d, version) == IF version = 3 THEN Double(d) ELSE Bulk(format_score(d))

\* Fault: the flat form leaves the scores out.
range_reply_members(pairs, withscores, version) ==
    IF ~withscores \/ version = 2 THEN Array([i \in DOMAIN pairs |-> Bulk(pairs[i][1])])
    ELSE Array([i \in DOMAIN pairs |-> Array(<<Bulk(pairs[i][1]), Double(pairs[i][2])>>)])

range_reply(pairs, withscores, version) ==
    IF ~withscores THEN Array([i \in DOMAIN pairs |-> Bulk(pairs[i][1])])
    ELSE IF version = 3
    THEN Array([i \in DOMAIN pairs |-> Array(<<Bulk(pairs[i][1]), Double(pairs[i][2])>>)])
    ELSE Array(FlattenSeq([i \in DOMAIN pairs |->
                              <<Bulk(pairs[i][1]), Bulk(format_score(pairs[i][2]))>>]))

zadd_refusal(args) ==
    IF args[3] \in {<<"NX">>, <<"XX">>, <<"GT">>, <<"LT">>, <<"CH">>, <<"INCR">>}
       \/ Len(args) % 2 # 0 THEN SyntaxError
    ELSE IF \E i \in 3..Len(args) : i % 2 = 1 /\ ~parses_score(args[i])
    THEN ErrorFrame(<<"not a valid float">>)
    ELSE NoFrame

zrange_refusal(args) ==
    IF ~has_i64(args[3]) \/ ~has_i64(args[4]) THEN NOT_AN_INTEGER
    ELSE IF Len(args) > 4 /\ (args[5] # <<"WITHSCORES">> \/ Len(args) > 5) THEN SyntaxError
    ELSE NoFrame

\* One turn of ZRANGEBYSCORE's option loop. The last LIMIT counts.
zrangebyscore_option(args, i, acc) ==
    IF args[i] = <<"WITHSCORES">> THEN [acc EXCEPT !.withscores = TRUE, !.next = i + 1]
    ELSE IF args[i] = <<"LIMIT">> /\ i + 2 <= Len(args) /\ has_i64(args[i + 1]) /\ has_i64(args[i + 2])
    THEN [acc EXCEPT !.limit = <<parse_i64(args[i + 1]), parse_i64(args[i + 2])>>, !.next = i + 3]
    ELSE [acc EXCEPT !.refused = SyntaxError]

RECURSIVE zrangebyscore_options(_, _)
zrangebyscore_options(args, acc) ==
    IF acc.next > Len(args) \/ acc.refused # NoFrame THEN acc
    ELSE zrangebyscore_options(args, zrangebyscore_option(args, acc.next, acc))

zrangebyscore(args) ==
    zrangebyscore_options(args,
                     [refused |-> IF parses_bound(args[3]) /\ parses_bound(args[4]) THEN NoFrame
                                  ELSE ErrorFrame(<<"min or max is not a float">>),
                      withscores |-> FALSE, limit |-> <<>>, next |-> 5])

\* LIMIT: no element from a negative offset on, all of them for a negative count.
skip_take(pairs, limit) ==
    IF limit = <<>> THEN pairs
    ELSE IF limit[1] < 0 THEN <<>>
    ELSE SubSeq(pairs, limit[1] + 1,
                IF limit[2] < 0 THEN Len(pairs) ELSE Min({Len(pairs), limit[1] + limit[2]}))

zset_reply(args, res, version) ==
    LET val == res[Len(res)].val IN
    CASE Name(args) = "ZSCORE" -> IF val = <<>> THEN Null ELSE score_frame(val[1], version)
      [] Name(args) = "ZRANGE" -> range_reply(val, Len(args) = 5, version)
      [] Name(args) = "ZRANGEBYSCORE" ->
            range_reply(skip_take(val, zrangebyscore(args).limit), zrangebyscore(args).withscores, version)
      [] OTHER -> Integer(val)

-----------------------------------------------------------------------------
(* Lists, introspection, connectivity. *)

ListArity == [LPUSH |-> -3, RPUSH |-> -3, LPOP |-> -2, RPOP |-> -2, LRANGE |-> 4, LLEN |-> 2]
AdminArity == [DBSIZE |-> 1, RAWCOUNT |-> 1, COMPACT |-> 1]
ConnectivityArity == [PING |-> -1, ECHO |-> 2]

pop_refusal(args) ==
    IF Len(args) > 2 /\ ~has_i64(args[3]) THEN NOT_AN_INTEGER
    ELSE IF Len(args) > 2 /\ parse_i64(args[3]) < 0 THEN ErrorFrame(<<"must be positive">>)
    ELSE IF Len(args) > 3 THEN wrong_args
    ELSE NoFrame

\* The llen call found nothing, or the pop call returned `res[2]`.
pop(args, res) ==
    IF Len(res) = 1 THEN Null
    ELSE IF Len(args) = 2 THEN bulk_or_null(res[2].val)
    ELSE Array(Bulks(res[2].val))

list_reply(args, res) ==
    LET val == res[Len(res)].val IN
    CASE Name(args) \in {"LPOP", "RPOP"} -> pop(args, res)
      [] Name(args) = "LRANGE" -> Array(Bulks(val))
      [] OTHER -> Integer(val)

admin_reply(args, res) == IF Name(args) = "COMPACT" THEN Ok ELSE Integer(res[1].val)

\* PING and ECHO never call the store.
ping(args) == IF Len(args) = 1 THEN Simple(<<"PONG">>)
              ELSE IF Len(args) = 2 THEN Bulk(args[2]) ELSE wrong_args

-----------------------------------------------------------------------------
(* The registry. *)

Arity == StringArity @@ HashArity @@ SetArity @@ ZSetArity @@ ListArity @@ AdminArity
            @@ ConnectivityArity

arity_matches(arity, argc) == IF arity > 0 THEN argc = arity ELSE argc >= -arity

contains(name) == Len(name) = 1 /\ name[1] \in DOMAIN Arity

\* The reply of a request that is answered before any store call, else NoFrame.
refusal(args, now) ==
    IF ~contains(args[1]) THEN ErrorFrame(<<"unknown command '">> \o args[1] \o <<"'">>)
    ELSE IF ~arity_matches(Arity[Name(args)], Len(args)) THEN wrong_args
    ELSE CASE Name(args) = "SET" -> set(args, now).refused
           [] Name(args) \in {"EXPIRE", "PEXPIRE"} -> expire_generic(args, now).refused
           [] Name(args) \in {"HSET", "HMSET"} -> hset_refusal(args)
           [] Name(args) = "ZADD" -> zadd_refusal(args)
           [] Name(args) = "ZRANGE" -> zrange_refusal(args)
           [] Name(args) = "ZRANGEBYSCORE" -> zrangebyscore(args).refused
           [] Name(args) \in {"LPOP", "RPOP"} -> pop_refusal(args)
           [] Name(args) = "LRANGE" ->
                IF has_i64(args[3]) /\ has_i64(args[4]) THEN NoFrame ELSE NOT_AN_INTEGER
           [] Name(args) = "PING" -> ping(args)
           [] Name(args) = "ECHO" -> Bulk(args[2])
           [] OTHER -> NoFrame

\* How many store calls a request makes when none of them fails.
calls(args) ==
    CASE Name(args) \in {"DEL", "EXISTS"} -> Len(args) - 1
      [] Name(args) = "HMGET" -> Len(args) - 2
      [] Name(args) \in {"LPOP", "RPOP"} -> 2
      [] OTHER -> 1

\* No further store call is made: all are done, one failed, or the list is empty.
finished(args, res) ==
    \/ Len(res) = calls(args)
    \/ res # <<>> /\ res[Len(res)].err # "none"
    \/ Name(args) \in {"LPOP", "RPOP"} /\ Len(res) = 1 /\ res[1].val = 0

Replies(args, res, version) ==
    LET name == Name(args) IN
    CASE name \in DOMAIN StringArity -> string_reply(args, res)
      [] name \in DOMAIN HashArity -> hash_reply(args, res, version)
      [] name \in DOMAIN SetArity -> set_reply(args, res, version)
      [] name \in DOMAIN ZSetArity -> zset_reply(args, res, version)
      [] name \in DOMAIN ListArity -> list_reply(args, res)
      [] name \in DOMAIN AdminArity -> admin_reply(args, res)
      [] name \in {"FLUSHDB", "FLUSHALL"} -> Ok

reply(args, res, version) ==
    IF res[Len(res)].err # "none" THEN engine_error(res[Len(res)].err)
    ELSE Replies(args, res, version)
=============================================================================
