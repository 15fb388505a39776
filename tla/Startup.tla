------------------------------ MODULE Startup ------------------------------
(***************************************************************************)
(* The data node from its command line to its first client: the layers of  *)
(* the configuration, the order in which main opens the store and binds    *)
(* its two listeners, each of which may fail, and then one client, of the  *)
(* RESP port or of /metrics; answer_http is here, a RESP session in Node.  *)
(*                                                                         *)
(* main never reads its arguments or its configuration again once it       *)
(* serves, so the model forgets them when the client comes.                *)
(***************************************************************************)
EXTENDS Decoder

CONSTANTS Launches,      \* command lines, environments and files to start with
          Taken,         \* addresses others have bound, or that are not permitted
          HttpRequests,  \* what a scraper may send
          HeadLimit      \* the size of answer_http's buffer

VARIABLES stage,         \* how far main has come
          launch,        \* what the process was started with
          cfg,           \* the configuration
          recorder,      \* the metrics recorder is installed
          bound,         \* addresses this process listens on
          http           \* the scraper's connection

nodeVars == <<stage, launch, cfg, recorder, bound, http>>

-----------------------------------------------------------------------------
(* Configuration. A layer gives each setting a raw value, "" where it gives  *)
(* none. Settings that are parsed can be given "junk".                      *)

Settings == {"bind", "port", "data_dir", "level", "slow", "enabled", "metrics_bind", "metrics_port"}
ParsedSettings == {"port", "slow", "enabled", "metrics_port"}
Flags == {"bind", "port", "data_dir"}

Default == [bind |-> "lo", port |-> "6380", data_dir |-> "data", level |-> "info", slow |-> "10",
            enabled |-> "true", metrics_bind |-> "lo", metrics_port |-> "9600"]
Absent == [s \in Settings |-> ""]

from_file(file) == [s \in Settings |-> IF file[s] = "" THEN Default[s] ELSE file[s]]

\* Fault: a variable that cannot be parsed resets the setting.
apply_env_overrides_reset(c, env) ==
    [s \in Settings |->
        IF env[s] = "" THEN c[s]
        ELSE IF s \in ParsedSettings /\ env[s] = "junk" THEN Default[s] ELSE env[s]]

\* Unset, empty and unparsable variables leave the setting alone.
apply_env_overrides(c, env) ==
    [s \in Settings |->
        IF env[s] = "" \/ (s \in ParsedSettings /\ env[s] = "junk") THEN c[s] ELSE env[s]]

\* The file is missing or malformed, or has an unknown field.
file_error(file) == \E s \in Settings : file[s] = "junk"

load(l) == apply_env_overrides(IF l.config THEN from_file(l.file) ELSE Default, l.env)

override(c, cli) == [s \in Settings |-> IF cli[s] = "" THEN c[s] ELSE cli[s]]

server_addr(c) == <<c.bind, c.port>>
metrics_addr(c) == <<c.metrics_bind, c.metrics_port>>

-----------------------------------------------------------------------------
(* main. Each step may end the process with an error. *)

\* Only three settings have a flag.
ASSUME LaunchesAssumption ==
    /\ Launches \subseteq [config : BOOLEAN, cli : [Settings -> STRING], env : [Settings -> STRING],
                            file : [Settings -> STRING], flaw : STRING]
    /\ \A l \in Launches : \A s \in Settings \ Flags : l.cli[s] = ""

NoLaunch == [config |-> FALSE, cli |-> Absent, env |-> Absent, file |-> Absent, flaw |-> "none"]
NoHttp == [st |-> "none", rest |-> <<>>, head |-> <<>>, status |-> 0]

StartupInit ==
    /\ stage = "args" /\ launch \in Launches
    /\ cfg = Default /\ recorder = FALSE /\ bound = {} /\ http = NoHttp

Exit == stage' = "failed" /\ bound' = {} /\ UNCHANGED <<launch, cfg, recorder, http>>

\* An unknown flag, a flag without its value, a port that is no number; or --help.
parse_args ==
    /\ stage = "args"
    /\ IF launch.flaw = "none" /\ launch.cli["port"] # "junk"
       THEN stage' = "config" /\ UNCHANGED <<launch, cfg, recorder, bound, http>>
       ELSE Exit

LoadConfig ==
    /\ stage = "config"
    /\ IF launch.config /\ file_error(launch.file)
       THEN Exit
       ELSE /\ cfg' = override(load(launch), launch.cli)
            /\ stage' = "recorder"
            /\ UNCHANGED <<launch, recorder, bound, http>>

\* A recorder that cannot be installed is only reported.
InstallRecorder ==
    /\ stage = "recorder"
    /\ recorder' \in (IF cfg.enabled = "true" THEN BOOLEAN ELSE {FALSE})
    /\ stage' = "store"
    /\ UNCHANGED <<launch, cfg, bound, http>>

OpenStore ==
    /\ stage = "store"
    /\ \/ stage' = "metrics" /\ UNCHANGED <<launch, cfg, recorder, bound, http>>
       \/ Exit

\* TcpListener::bind fails on a host name that does not resolve, too.
refuses(addr) == addr[1] = "junk" \/ addr \in Taken

BindMetrics ==
    /\ stage = "metrics"
    /\ IF ~recorder
       THEN stage' = "listen" /\ UNCHANGED <<launch, cfg, recorder, bound, http>>
       ELSE IF refuses(metrics_addr(cfg)) THEN Exit
       ELSE /\ stage' = "listen" /\ bound' = bound \cup {metrics_addr(cfg)}
            /\ UNCHANGED <<launch, cfg, recorder, http>>

BindResp ==
    /\ stage = "listen"
    /\ IF refuses(server_addr(cfg)) \/ server_addr(cfg) \in bound THEN Exit
       ELSE /\ stage' = "serving" /\ bound' = bound \cup {server_addr(cfg)}
            /\ UNCHANGED <<launch, cfg, recorder, http>>

-----------------------------------------------------------------------------
(* The first client. *)

Forget == launch' = NoLaunch /\ cfg' = Default /\ recorder' = FALSE /\ bound' = {}

ConnectResp ==
    /\ stage = "serving"
    /\ stage' = "session" /\ Forget
    /\ UNCHANGED http

ConnectHttp ==
    /\ stage = "serving" /\ recorder
    /\ stage' = "scrape" /\ Forget
    /\ \E r \in HttpRequests : http' = [NoHttp EXCEPT !.st = "reading", !.rest = r]

-----------------------------------------------------------------------------
(* answer_http *)

\* The blank line that ends a request head.
EndOfHead == Crlf \o Crlf
has_end(head) == \E i \in 1..Len(head) - 3 : SubSeq(head, i, i + 3) = EndOfHead

\* split_whitespace: the word that starts first, and what follows it.
FirstWord(s) ==
    LET ink == {i \in DOMAIN s : ~is_space(s[i])}
        ends == {i \in DOMAIN s : is_space(s[i]) /\ \E j \in ink : j < i} \cup {Len(s) + 1}
    IN  IF ink = {} THEN [word |-> <<>>, rest |-> <<>>]
        ELSE [word |-> SubSeq(s, Min(ink), Min(ends) - 1), rest |-> SubSeq(s, Min(ends), Len(s))]

\* A GET request begins as HTTP has it: the method, a space, a target, a space.
ASSUME HttpAssumption ==
    /\ HeadLimit \in Nat
    /\ \A r \in HttpRequests :
        /\ r \in Seq(STRING)
        /\ FirstWord(r).word = <<"GET">> =>
            /\ r[1] = "GET" /\ r[2] = "SP"
            /\ \E i \in 4..Len(r) : r[i] = "SP" /\ \A j \in 3..i - 1 : ~is_space(r[j])

\* Fault: the path only has to begin with /metrics.
status_loose(head) ==
    LET method == FirstWord(head)
        path == FirstWord(method.rest).word
    IN  IF method.word = <<"GET">> /\ path # <<>> /\ path[1] = "/metrics" THEN 200 ELSE 404

status(head) ==
    LET method == FirstWord(head)
        path == FirstWord(method.rest).word
    IN  IF /\ method.word = <<"GET">>
           /\ path = <<"/metrics">> \/ (Len(path) > 1 /\ SubSeq(path, 1, 2) = <<"/metrics", "?">>)
        THEN 200 ELSE 404

MustRead == Len(http.head) < HeadLimit /\ ~has_end(http.head)

\* A read returns any part of what has been sent, up to the buffer's room.
HttpRead ==
    /\ stage = "scrape" /\ http.st = "reading" /\ MustRead
    /\ \E n \in 1..Min({Len(http.rest), HeadLimit - Len(http.head)}) :
        http' = [http EXCEPT !.head = @ \o SubSeq(http.rest, 1, n),
                             !.rest = SubSeq(@, n + 1, Len(@))]
    /\ UNCHANGED <<stage, launch, cfg, recorder, bound>>

\* The scraper stops sending, perhaps early.
HttpEof ==
    /\ stage = "scrape" /\ http.st = "reading" /\ MustRead
    /\ http' = [http EXCEPT !.st = "eof"]
    /\ UNCHANGED <<stage, launch, cfg, recorder, bound>>

HttpAnswer ==
    /\ stage = "scrape"
    /\ http.st = "eof" \/ (http.st = "reading" /\ ~MustRead)
    /\ http' = [http EXCEPT !.st = IF http.st = "eof" THEN "cut" ELSE "answered",
                            !.status = status(http.head)]
    /\ UNCHANGED <<stage, launch, cfg, recorder, bound>>

-----------------------------------------------------------------------------
Start == parse_args \/ LoadConfig \/ InstallRecorder \/ OpenStore \/ BindMetrics \/ BindResp
Scrape == ConnectHttp \/ HttpRead \/ HttpEof \/ HttpAnswer

StartupNext == Start \/ ConnectResp \/ Scrape

StartupSpec == StartupInit /\ [][StartupNext]_nodeVars

-----------------------------------------------------------------------------
(* Properties. *)

Usable(s, raw) == raw # "" /\ ~(s \in ParsedSettings /\ raw = "junk")

\* The layers that have a say in a setting, weakest first.
Layers(l, s) ==
    <<Default[s]>> \o (IF l.config THEN <<l.file[s]>> ELSE <<>>) \o <<l.env[s], l.cli[s]>>

\* A node that serves runs with the strongest layer's usable value of every
\* setting: flags over environment over file over defaults, and a value that
\* cannot be parsed neither counts nor hides a weaker one. It listens where that
\* says, on two different addresses when there is a metrics endpoint.
ServesAsConfigured ==
    stage = "serving" =>
        /\ \A s \in Settings :
            LET all == Layers(launch, s)
                usable == {i \in DOMAIN all : Usable(s, all[i])}
            IN  cfg[s] = all[Max(usable)]
        /\ bound = {server_addr(cfg)} \cup (IF recorder THEN {metrics_addr(cfg)} ELSE {})
        /\ recorder => cfg.enabled = "true" /\ Cardinality(bound) = 2
        /\ bound \cap Taken = {}

\* A scraper that sends its whole head within the limit gets the metrics exactly
\* when it asked for them, however its bytes were cut up: the answer is the one
\* the complete request calls for.
ScrapeAnswered ==
    http.st = "answered" /\ has_end(http.head) =>
        (http.status = 200 <=> \E q \in {<<"SP">>, <<"?">>} :
                                    IsPrefix(<<"GET", "SP", "/metrics">> \o q, http.head \o http.rest))
=============================================================================
