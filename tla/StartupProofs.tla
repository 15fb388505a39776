--------------------------- MODULE StartupProofs ----------------------------
(***************************************************************************)
(* For every command line, environment and file, whatever addresses are    *)
(* taken and whatever fails on the way: the configuration a node serves    *)
(* with, and what a scraper is answered.                                   *)
(***************************************************************************)
EXTENDS Startup, InductionProofs, FiniteSetTheorems

\* What the configuration is in terms of the layers, once main has read it.
Configured ==
    /\ launch \in Launches
    /\ launch.cli["port"] # "junk"
    /\ launch.config => ~file_error(launch.file)
    /\ cfg = override(load(launch), launch.cli)
    /\ recorder \in BOOLEAN
    /\ recorder => cfg["enabled"] = "true"

Listening == bound = (IF recorder THEN {metrics_addr(cfg)} ELSE {}) /\ bound \cap Taken = {}

\* The progress of main: what is settled at each stage.
ProgressInv ==
    /\ stage \in {"args", "config"} => launch \in Launches /\ recorder = FALSE /\ bound = {}
    /\ stage = "config" => launch.cli["port"] # "junk"
    /\ stage = "recorder" => Configured /\ recorder = FALSE /\ bound = {}
    /\ stage \in {"store", "metrics"} => Configured /\ bound = {}
    /\ stage = "listen" => Configured /\ Listening
    /\ stage = "serving" =>
        /\ Configured
        /\ bound = {server_addr(cfg)} \cup (IF recorder THEN {metrics_addr(cfg)} ELSE {})
        /\ recorder => server_addr(cfg) # metrics_addr(cfg)
        /\ bound \cap Taken = {}

-----------------------------------------------------------------------------
(* Layers. *)

\* The value override and load leave of a setting is that of the strongest
\* layer with a usable one.
LEMMA StrongestLayer ==
    ASSUME NEW l \in Launches, NEW s \in Settings,
           l.cli["port"] # "junk", l.config => ~file_error(l.file)
    PROVE  LET all == Layers(l, s)
               usable == {i \in DOMAIN all : Usable(s, all[i])}
           IN  override(load(l), l.cli)[s] = all[Max(usable)]
<1> DEFINE d == Default[s]
           f == l.file[s]
           e == l.env[s]
           c == l.cli[s]
           all == Layers(l, s)
           usable == {i \in DOMAIN all : Usable(s, all[i])}
           value == override(load(l), l.cli)[s]
<1> SUFFICES value = all[Max(usable)]
  OBVIOUS
<1>1. /\ l.config \in BOOLEAN
      /\ l.cli \in [Settings -> STRING] /\ l.env \in [Settings -> STRING]
      /\ l.file \in [Settings -> STRING]
  BY LaunchesAssumption
<1>2. d # "" /\ d # "junk"
  <2>1. \/ s = "bind" \/ s = "port" \/ s = "data_dir" \/ s = "level" \/ s = "slow"
        \/ s = "enabled" \/ s = "metrics_bind" \/ s = "metrics_port"
    BY DEF Settings
  <2>2. /\ Default["bind"] = "lo" /\ Default["port"] = "6380" /\ Default["data_dir"] = "data"
        /\ Default["level"] = "info" /\ Default["slow"] = "10" /\ Default["enabled"] = "true"
        /\ Default["metrics_bind"] = "lo" /\ Default["metrics_port"] = "9600"
    BY DEF Default
  <2> QED BY <2>1, <2>2
<1>3. c = "" \/ Usable(s, c)
  <2>1. CASE s \in Flags
    BY <2>1 DEF Usable, Flags, ParsedSettings
  <2>2. CASE s \notin Flags
    BY <2>2, LaunchesAssumption
  <2> QED BY <2>1, <2>2
<1>4. l.config => f # "junk"
  BY DEF file_error
<1>5. ASSUME NEW k \in usable, \A i \in usable : k >= i
      PROVE  Max(usable) = k
  <2>1. usable \subseteq Int
    <3>1. all \in Seq({d, f, e, c})
      BY DEF Layers
    <3> QED BY <3>1
  <2>2. \A m \in usable : (\A i \in usable : m >= i) => m = k
    BY <2>1, <1>5
  <2> HIDE DEF usable
  <2> QED BY <2>2, <1>5 DEF Max
<1>6. load(l)[s] = IF e = "" \/ (s \in ParsedSettings /\ e = "junk")
                   THEN (IF l.config THEN (IF f = "" THEN d ELSE f) ELSE d) ELSE e
  BY DEF load, apply_env_overrides, from_file
<1>7. value = IF c = "" THEN load(l)[s] ELSE c
  BY DEF override
<1>8. CASE l.config
  <2>1. all = (<<d>> \o <<f>>) \o <<e, c>>
    BY <1>8 DEF Layers
  <2> HIDE DEF all, d, f, e, c, value
  <2>2. DOMAIN all = 1..4 /\ all[1] = d /\ all[2] = f /\ all[3] = e /\ all[4] = c
    <3>1. /\ <<d>> \o <<f>> \in Seq({d, f}) /\ Len(<<d>> \o <<f>>) = 2
          /\ (<<d>> \o <<f>>)[1] = d /\ (<<d>> \o <<f>>)[2] = f
      OBVIOUS
    <3>2. PICK x : x = <<d>> \o <<f>>
      OBVIOUS
    <3>3. x \in Seq({d, f, e, c}) /\ Len(x) = 2 /\ x[1] = d /\ x[2] = f /\ all = x \o <<e, c>>
      BY <2>1, <3>1, <3>2
    <3>4. <<e, c>> \in Seq({d, f, e, c}) /\ Len(<<e, c>>) = 2 /\ <<e, c>>[1] = e /\ <<e, c>>[2] = c
      OBVIOUS
    <3>5. PICK y : y = <<e, c>>
      OBVIOUS
    <3>6. y \in Seq({d, f, e, c}) /\ Len(y) = 2 /\ y[1] = e /\ y[2] = c /\ all = x \o y
      BY <3>3, <3>4, <3>5
    <3>7. /\ all \in Seq({d, f, e, c}) /\ Len(all) = 4
          /\ \A i \in 1..4 : all[i] = IF i <= 2 THEN x[i] ELSE y[i - 2]
      BY <3>3, <3>6, ConcatProperties
    <3> QED BY <3>3, <3>6, <3>7
  <2>3. CASE Usable(s, c)
    <3>1. Max(usable) = 4
      BY <2>2, <2>3, <1>5
    <3> QED BY <3>1, <2>2, <2>3, <1>7 DEF Usable
  <2>4. CASE ~Usable(s, c) /\ Usable(s, e)
    <3>1. Max(usable) = 3
      BY <2>2, <2>4, <1>5
    <3>2. c = ""
      BY <2>4, <1>3
    <3> QED BY <3>1, <3>2, <2>2, <2>4, <1>6, <1>7 DEF Usable
  <2>5. CASE ~Usable(s, c) /\ ~Usable(s, e) /\ Usable(s, f)
    <3>1. Max(usable) = 2
      BY <2>2, <2>5, <1>5
    <3>2. c = ""
      BY <2>5, <1>3
    <3> QED BY <3>1, <3>2, <2>2, <2>5, <1>6, <1>7, <1>8 DEF Usable
  <2>6. CASE ~Usable(s, c) /\ ~Usable(s, e) /\ ~Usable(s, f)
    <3>0. Usable(s, d)
      BY <1>2 DEF Usable
    <3>1. Max(usable) = 1
      BY <2>2, <2>6, <1>5, <3>0
    <3>2. c = "" /\ f = ""
      BY <2>6, <1>3, <1>4, <1>8 DEF Usable
    <3> QED BY <3>1, <3>2, <2>2, <2>6, <1>6, <1>7, <1>8 DEF Usable
  <2> QED BY <2>3, <2>4, <2>5, <2>6 DEF all, value
<1>9. CASE ~l.config
  <2>1. all = (<<d>> \o <<>>) \o <<e, c>>
    BY <1>9 DEF Layers
  <2> HIDE DEF all, d, f, e, c, value
  <2>2. DOMAIN all = 1..3 /\ all[1] = d /\ all[2] = e /\ all[3] = c
    <3>1. PICK x : x = <<d>> \o <<>>
      OBVIOUS
    <3>2. x \in Seq({d, e, c}) /\ Len(x) = 1 /\ x[1] = d /\ all = x \o <<e, c>>
      BY <2>1, <3>1
    <3>3. <<e, c>> \in Seq({d, e, c}) /\ Len(<<e, c>>) = 2 /\ <<e, c>>[1] = e /\ <<e, c>>[2] = c
      OBVIOUS
    <3>4. PICK y : y = <<e, c>>
      OBVIOUS
    <3>5. y \in Seq({d, e, c}) /\ Len(y) = 2 /\ y[1] = e /\ y[2] = c /\ all = x \o y
      BY <3>2, <3>3, <3>4
    <3>6. /\ all \in Seq({d, e, c}) /\ Len(all) = 3
          /\ \A i \in 1..3 : all[i] = IF i <= 1 THEN x[i] ELSE y[i - 1]
      BY <3>2, <3>5, ConcatProperties
    <3> QED BY <3>2, <3>5, <3>6
  <2>3. CASE Usable(s, c)
    <3>1. Max(usable) = 3
      BY <2>2, <2>3, <1>5
    <3> QED BY <3>1, <2>2, <2>3, <1>7 DEF Usable
  <2>4. CASE ~Usable(s, c) /\ Usable(s, e)
    <3>1. Max(usable) = 2
      BY <2>2, <2>4, <1>5
    <3>2. c = ""
      BY <2>4, <1>3
    <3> QED BY <3>1, <3>2, <2>2, <2>4, <1>6, <1>7 DEF Usable
  <2>5. CASE ~Usable(s, c) /\ ~Usable(s, e)
    <3>0. Usable(s, d)
      BY <1>2 DEF Usable
    <3>1. Max(usable) = 1
      BY <2>2, <2>5, <1>5, <3>0
    <3>2. c = ""
      BY <2>5, <1>3
    <3> QED BY <3>1, <3>2, <2>2, <2>5, <1>6, <1>7, <1>9 DEF Usable
  <2> QED BY <2>3, <2>4, <2>5 DEF all, value
<1> QED BY <1>1, <1>8, <1>9

-----------------------------------------------------------------------------
(* main *)

LEMMA ProgressInit == StartupInit => ProgressInv
BY DEF StartupInit, ProgressInv

LEMMA ProgressStep == ProgressInv /\ [StartupNext]_nodeVars => ProgressInv'
<1> SUFFICES ASSUME ProgressInv, [StartupNext]_nodeVars PROVE ProgressInv'
  OBVIOUS
<1>1. CASE parse_args
  BY <1>1 DEF parse_args, Exit, ProgressInv
<1>2. CASE LoadConfig
  <2>1. CASE launch.config /\ file_error(launch.file)
    BY <1>2, <2>1 DEF LoadConfig, Exit, ProgressInv
  <2>2. CASE ~(launch.config /\ file_error(launch.file))
    <3>1. /\ stage = "config" /\ stage' = "recorder" /\ launch' = launch /\ recorder' = recorder
          /\ bound' = bound /\ cfg' = override(load(launch), launch.cli)
      BY <1>2, <2>2 DEF LoadConfig
    <3>2. launch \in Launches /\ recorder = FALSE /\ bound = {} /\ launch.cli["port"] # "junk"
      BY <3>1 DEF ProgressInv
    <3>3. Configured'
      BY <3>1, <3>2, <2>2 DEF Configured
    <3> QED BY <3>1, <3>2, <3>3 DEF ProgressInv
  <2> QED BY <2>1, <2>2
<1>3. CASE InstallRecorder
  <2>1. stage = "recorder" /\ stage' = "store" /\ launch' = launch /\ cfg' = cfg /\ bound' = bound
    BY <1>3 DEF InstallRecorder
  <2>2. Configured /\ bound = {}
    BY <2>1 DEF ProgressInv
  <2>3. recorder' \in BOOLEAN /\ (recorder' => cfg["enabled"] = "true")
    BY <1>3 DEF InstallRecorder
  <2>4. Configured'
    BY <2>1, <2>2, <2>3 DEF Configured
  <2> QED BY <2>1, <2>2, <2>4 DEF ProgressInv
<1>4. CASE OpenStore
  BY <1>4 DEF OpenStore, Exit, ProgressInv, Configured
<1>5. CASE BindMetrics
  <2>1. stage = "metrics" /\ Configured /\ bound = {}
    BY <1>5 DEF BindMetrics, ProgressInv
  <2>2. CASE ~recorder
    <3>1. stage' = "listen" /\ UNCHANGED <<launch, cfg, recorder, bound>>
      BY <1>5, <2>2 DEF BindMetrics
    <3>2. Configured' /\ Listening'
      BY <3>1, <2>1, <2>2 DEF Configured, Listening
    <3> QED BY <3>1, <3>2 DEF ProgressInv
  <2>3. CASE recorder /\ refuses(metrics_addr(cfg))
    BY <1>5, <2>3 DEF BindMetrics, Exit, ProgressInv
  <2>4. CASE recorder /\ ~refuses(metrics_addr(cfg))
    <3>1. /\ stage' = "listen" /\ UNCHANGED <<launch, cfg, recorder>>
          /\ bound' = bound \cup {metrics_addr(cfg)}
      BY <1>5, <2>4 DEF BindMetrics
    <3>2. Configured'
      BY <3>1, <2>1 DEF Configured
    <3>3. Listening'
      BY <3>1, <2>1, <2>4 DEF Listening, metrics_addr, refuses
    <3> QED BY <3>1, <3>2, <3>3 DEF ProgressInv
  <2> QED BY <2>2, <2>3, <2>4
<1>6. CASE BindResp
  <2>1. stage = "listen" /\ Configured /\ Listening
    BY <1>6 DEF BindResp, ProgressInv
  <2>2. CASE refuses(server_addr(cfg)) \/ server_addr(cfg) \in bound
    BY <1>6, <2>2 DEF BindResp, Exit, ProgressInv
  <2>3. CASE ~refuses(server_addr(cfg)) /\ server_addr(cfg) \notin bound
    <3>1. /\ stage' = "serving" /\ UNCHANGED <<launch, cfg, recorder>>
          /\ bound' = bound \cup {server_addr(cfg)}
      BY <1>6, <2>3 DEF BindResp
    <3>2. Configured'
      BY <3>1, <2>1 DEF Configured
    <3>3. server_addr(cfg)' = server_addr(cfg) /\ metrics_addr(cfg)' = metrics_addr(cfg)
      BY <3>1 DEF server_addr, metrics_addr
    <3>4. bound \cap Taken = {} /\ bound = IF recorder THEN {metrics_addr(cfg)} ELSE {}
      BY <2>1 DEF Listening
    <3>5. recorder => server_addr(cfg) # metrics_addr(cfg)
      BY <2>3, <3>4
    <3>6. bound' \cap Taken = {}
      BY <2>3, <3>1, <3>4 DEF refuses
    <3>7. bound' = {server_addr(cfg)} \cup (IF recorder THEN {metrics_addr(cfg)} ELSE {})
      BY <3>1, <3>4
    <3> QED BY <3>1, <3>2, <3>3, <3>5, <3>6, <3>7 DEF ProgressInv
  <2> QED BY <2>2, <2>3
<1>7. CASE ConnectResp
  BY <1>7 DEF ConnectResp, ProgressInv
<1>8. CASE Scrape
  <2>1. stage' = "scrape"
    BY <1>8 DEF Scrape, ConnectHttp, HttpRead, HttpEof, HttpAnswer
  <2> QED BY <2>1 DEF ProgressInv
<1>9. CASE UNCHANGED nodeVars
  BY <1>9 DEF nodeVars, ProgressInv, Configured, Listening, server_addr, metrics_addr
<1> QED BY <1>1, <1>2, <1>3, <1>4, <1>5, <1>6, <1>7, <1>8, <1>9 DEF StartupNext, Start

LEMMA ProgressServes == ProgressInv => ServesAsConfigured
<1> SUFFICES ASSUME ProgressInv, stage = "serving" PROVE ServesAsConfigured
  BY DEF ServesAsConfigured
<1> DEFINE server == server_addr(cfg)
           metrics == metrics_addr(cfg)
<1>1. /\ Configured
      /\ bound = {server} \cup (IF recorder THEN {metrics} ELSE {})
      /\ recorder => server # metrics
      /\ bound \cap Taken = {}
  BY DEF ProgressInv
<1>2. ASSUME NEW s \in Settings
      PROVE  LET all == Layers(launch, s)
                 usable == {i \in DOMAIN all : Usable(s, all[i])}
             IN  cfg[s] = all[Max(usable)]
  BY <1>1, StrongestLayer DEF Configured
<1>3. ASSUME recorder PROVE cfg.enabled = "true" /\ Cardinality(bound) = 2
  <2>1. bound = {server} \cup {metrics} /\ server # metrics
    BY <1>1, <1>3
  <2> HIDE DEF server, metrics
  <2>2. Cardinality({server}) = 1 /\ IsFiniteSet({server}) /\ metrics \notin {server}
    BY <2>1, FS_Singleton
  <2>3. Cardinality({server} \cup {metrics}) = 2
    BY <2>2, FS_AddElement
  <2> QED BY <1>1, <1>3, <2>1, <2>3 DEF Configured
<1> QED BY <1>1, <1>2, <1>3 DEF ServesAsConfigured

\* Whatever the layers say and whatever fails on the way, a node that serves
\* has the strongest usable value of every setting and listens where it says.
THEOREM NodeServesAsConfigured == StartupSpec => []ServesAsConfigured
BY ProgressInit, ProgressStep, ProgressServes, PTL DEF StartupSpec

-----------------------------------------------------------------------------
(* answer_http *)

\* [a, b) is the first word of s.
IsFirstWord(s, a, b) ==
    /\ a \in 1..Len(s) /\ b \in a + 1..Len(s) + 1
    /\ \A j \in 1..a - 1 : is_space(s[j])
    /\ \A j \in a..b - 1 : ~is_space(s[j])
    /\ b <= Len(s) => is_space(s[b])

\* What FirstWord returns for a first word.
LEMMA FirstWordIs ==
    ASSUME NEW S, NEW s \in Seq(S), NEW a, NEW b, IsFirstWord(s, a, b)
    PROVE  FirstWord(s) = [word |-> SubSeq(s, a, b - 1), rest |-> SubSeq(s, b, Len(s))]
<1> DEFINE ink == {i \in DOMAIN s : ~is_space(s[i])}
           ends == {i \in DOMAIN s : is_space(s[i]) /\ \E j \in ink : j < i} \cup {Len(s) + 1}
<1>1. a \in Nat /\ b \in Nat /\ 1 <= a /\ a <= Len(s) /\ a < b /\ b <= Len(s) + 1 /\ Len(s) \in Nat
      /\ DOMAIN s = 1..Len(s)
  BY DEF IsFirstWord
<1>2. a \in ink /\ \A i \in ink : a <= i
  BY <1>1 DEF IsFirstWord
<1>3. ink \subseteq Int
  BY <1>1
<1>4. b \in ends
  <2>1. CASE b = Len(s) + 1
    BY <2>1
  <2>2. CASE b # Len(s) + 1
    <3>1. b <= Len(s) /\ b \in DOMAIN s
      BY <1>1, <2>2
    <3>2. is_space(s[b])
      BY <3>1 DEF IsFirstWord
    <3> QED BY <1>1, <1>2, <3>1, <3>2
  <2> QED BY <2>1, <2>2
<1>5. ASSUME NEW i \in ends PROVE b <= i
  <2>1. CASE i = Len(s) + 1
    BY <2>1, <1>1
  <2>2. CASE i # Len(s) + 1
    <3>1. i \in DOMAIN s /\ is_space(s[i]) /\ \E j \in ink : j < i
      BY <2>2
    <3>2. a < i
      BY <3>1, <1>1, <1>2, <1>3
    <3>3. ~(i < b)
      BY <3>1, <3>2, <1>1 DEF IsFirstWord
    <3> QED BY <3>1, <3>3, <1>1
  <2> QED BY <2>1, <2>2
<1>6. ends \subseteq Int
  BY <1>1
<1> HIDE DEF ink, ends
<1>7. Min(ink) = a
  <2>1. \A m \in ink : (\A i \in ink : m =< i) => m = a
    BY <1>1, <1>2, <1>3
  <2> QED BY <2>1, <1>2 DEF Min
<1>8. Min(ends) = b
  <2>1. \A m \in ends : (\A i \in ends : m =< i) => m = b
    BY <1>1, <1>4, <1>5, <1>6
  <2> QED BY <2>1, <1>4, <1>5 DEF Min
<1>9. ink # {}
  BY <1>2
<1>10. FirstWord(s) = IF ink = {} THEN [word |-> <<>>, rest |-> <<>>]
                      ELSE [word |-> SubSeq(s, Min(ink), Min(ends) - 1),
                            rest |-> SubSeq(s, Min(ends), Len(s))]
  BY DEF FirstWord, ink, ends
<1> QED BY <1>7, <1>8, <1>9, <1>10

\* A text that is not blank has a first word; a blank one has none.
LEMMA FirstWordExists ==
    ASSUME NEW S, NEW s \in Seq(S), \E i \in 1..Len(s) : ~is_space(s[i])
    PROVE  \E a, b : IsFirstWord(s, a, b)
<1> DEFINE ink == {i \in 1..Len(s) : ~is_space(s[i])}
<1>1. Len(s) \in Nat
  OBVIOUS
<1>2. ink \subseteq Nat /\ ink # {}
  BY <1>1
<1>3. PICK a \in ink : \A i \in ink : a <= i
  <2> HIDE DEF ink
  <2> QED BY <1>2, Smallest
<1>4. a \in 1..Len(s) /\ ~is_space(s[a]) /\ \A j \in 1..a - 1 : is_space(s[j])
  BY <1>1, <1>3
<1> DEFINE ends == {i \in a + 1..Len(s) + 1 : i = Len(s) + 1 \/ is_space(s[i])}
<1>5. ends \subseteq Nat /\ Len(s) + 1 \in ends
  BY <1>1, <1>4
<1>6. PICK b \in ends : \A i \in ends : b <= i
  <2> HIDE DEF ends
  <2> QED BY <1>5, Smallest
<1>7. \A j \in a..b - 1 : ~is_space(s[j])
  BY <1>1, <1>4, <1>6
<1>8. b \in a + 1..Len(s) + 1 /\ (b <= Len(s) => is_space(s[b]))
  BY <1>1, <1>6
<1> QED BY <1>4, <1>7, <1>8 DEF IsFirstWord

LEMMA NoFirstWord ==
    ASSUME NEW S, NEW s \in Seq(S), \A i \in 1..Len(s) : is_space(s[i])
    PROVE  FirstWord(s).word = <<>>
<1>1. {i \in DOMAIN s : ~is_space(s[i])} = {}
  OBVIOUS
<1> QED BY <1>1 DEF FirstWord

LEMMA FirstWordParts ==
    ASSUME NEW S, NEW s \in Seq(S), NEW a, NEW b, IsFirstWord(s, a, b)
    PROVE  FirstWord(s).word = SubSeq(s, a, b - 1) /\ FirstWord(s).rest = SubSeq(s, b, Len(s))
<1>1. PICK w, t : w = SubSeq(s, a, b - 1) /\ t = SubSeq(s, b, Len(s))
  OBVIOUS
<1>2. FirstWord(s) = [word |-> w, rest |-> t]
  BY <1>1, FirstWordIs
<1>3. FirstWord(s).word = w /\ FirstWord(s).rest = t
  BY <1>2
<1> QED BY <1>1, <1>3

\* The status of a request from its first two words.
LEMMA StatusIs ==
    ASSUME NEW s, NEW w, NEW t, NEW p,
           FirstWord(s).word = w, FirstWord(s).rest = t, FirstWord(t).word = p
    PROVE  status(s) = 200 <=>
               /\ w = <<"GET">>
               /\ p = <<"/metrics">> \/ (Len(p) > 1 /\ SubSeq(p, 1, 2) = <<"/metrics", "?">>)
<1>1. FirstWord(FirstWord(s).rest).word = p
  OBVIOUS
<1>2. status(s) = IF w = <<"GET">> /\ (p = <<"/metrics">> \/ (Len(p) > 1 /\ SubSeq(p, 1, 2) = <<"/metrics", "?">>))
                  THEN 200 ELSE 404
  BY <1>1 DEF status
<1> QED BY <1>2

\* The bytes the status depends on.
ScrapeBytes(S) == "GET" \in S /\ "SP" \in S /\ "/metrics" \in S /\ "?" \in S

Asks(s, x) == s[1] = "GET" /\ s[2] = "SP" /\ s[3] = "/metrics" /\ s[4] = x

LEMMA AsksIff ==
    ASSUME NEW S, ScrapeBytes(S), NEW r \in Seq(S), Len(r) >= 4, NEW x \in S
    PROVE  IsPrefix(<<"GET", "SP", "/metrics">> \o <<x>>, r) <=> Asks(r, x)
<1> DEFINE g == <<"GET", "SP", "/metrics">>
           y == <<x>>
           p == g \o y
<1>1. g \in Seq(S) /\ Len(g) = 3 /\ g[1] = "GET" /\ g[2] = "SP" /\ g[3] = "/metrics"
  BY DEF ScrapeBytes
<1>2. y \in Seq(S) /\ Len(y) = 1 /\ y[1] = x
  OBVIOUS
<1> HIDE DEF g, y
<1>3. /\ p \in Seq(S) /\ Len(p) = Len(g) + Len(y)
      /\ \A i \in 1..Len(g) + Len(y) : p[i] = IF i <= Len(g) THEN g[i] ELSE y[i - Len(g)]
  <2>1. /\ g \o y \in Seq(S) /\ Len(g \o y) = Len(g) + Len(y)
        /\ \A i \in 1..Len(g) + Len(y) : (g \o y)[i] = IF i <= Len(g) THEN g[i] ELSE y[i - Len(g)]
    <3>1. g \in Seq(S) /\ y \in Seq(S)
      BY <1>1, <1>2
    <3> QED BY <3>1, ConcatProperties
  <2> QED BY <2>1
<1> HIDE DEF p
<1>4. Len(p) = 4 /\ p[1] = "GET" /\ p[2] = "SP" /\ p[3] = "/metrics" /\ p[4] = x
  BY <1>1, <1>2, <1>3
<1>5. IsPrefix(p, r) <=> Len(p) <= Len(r) /\ \A i \in 1..Len(p) : p[i] = r[i]
  BY <1>3, PrefixIff
<1>6. (\A i \in 1..Len(p) : p[i] = r[i]) <=> Asks(r, x)
  BY <1>4 DEF Asks
<1> QED BY <1>4, <1>5, <1>6 DEF p, g, y

\* A head that begins as a request for the metrics is answered 200.
LEMMA AskedIsServed ==
    ASSUME NEW S, ScrapeBytes(S), NEW head \in Seq(S), Len(head) >= 5,
           Asks(head, "SP") \/ Asks(head, "?")
    PROVE  status(head) = 200
<1>1. /\ head[1] = "GET" /\ head[2] = "SP" /\ head[3] = "/metrics" /\ head[4] \in {"SP", "?"}
      /\ Len(head) \in Nat /\ \A i \in 1..Len(head) : head[i] \in S
  BY DEF Asks
<1>2. PICK a, b : a = 1 /\ b = 2
  OBVIOUS
<1>3. IsFirstWord(head, a, b)
  BY <1>1, <1>2 DEF IsFirstWord, is_space
<1>4. PICK t : t = SubSeq(head, b, Len(head))
  OBVIOUS
<1>5. /\ t \in Seq(S) /\ Len(t) = Len(head) - 1
      /\ t[1] = head[2] /\ t[2] = head[3] /\ t[3] = head[4]
  BY <1>1, <1>2, <1>4, SubSeqProperties
<1>6. ~is_space(t[2]) /\ is_space(t[1]) /\ 2 \in 1..Len(t)
  BY <1>1, <1>5 DEF is_space
<1>7. PICK c, d : IsFirstWord(t, c, d)
  BY <1>5, <1>6, FirstWordExists
<1>8. c = 2 /\ d \in 3..Len(t) + 1
  BY <1>1, <1>5, <1>6, <1>7 DEF IsFirstWord
<1>9. SubSeq(head, a, b - 1) = <<"GET">>
  <2>1. a \in 1..Len(head) /\ b \in a + 1..Len(head) + 1 /\ b = a + 1
    BY <1>1, <1>2
  <2> QED BY <1>1, <1>2, <2>1, OneByte DEF ScrapeBytes
<1>10. PICK w, p : w = SubSeq(head, a, b - 1) /\ p = SubSeq(t, c, d - 1)
  OBVIOUS
<1>13. status(head) = 200 <=>
           /\ w = <<"GET">>
           /\ p = <<"/metrics">> \/ (Len(p) > 1 /\ SubSeq(p, 1, 2) = <<"/metrics", "?">>)
  <2>1. FirstWord(head).word = w /\ FirstWord(head).rest = t
    BY <1>3, <1>4, <1>10, FirstWordParts
  <2>2. FirstWord(t).word = p
    BY <1>5, <1>7, <1>10, FirstWordParts
  <2> QED BY <2>1, <2>2, StatusIs
<1>11. CASE head[4] = "SP"
  <2>1. d = 3
    BY <1>1, <1>5, <1>7, <1>8, <1>11 DEF IsFirstWord, is_space
  <2>2. c \in 1..Len(t) /\ d \in c + 1..Len(t) + 1 /\ d = c + 1
    BY <1>1, <1>5, <1>8, <2>1
  <2>3. SubSeq(t, c, d - 1) = <<"/metrics">>
    BY <1>1, <1>5, <1>8, <2>2, OneByte DEF ScrapeBytes
  <2> QED BY <1>9, <1>10, <1>13, <2>3
<1>12. CASE head[4] = "?"
  <2>1. d # 3
    BY <1>1, <1>5, <1>7, <1>8, <1>12 DEF IsFirstWord, is_space
  <2>3. p \in Seq(S) /\ Len(p) > 1 /\ p[1] = t[2] /\ p[2] = t[3]
    <3>1. \A i \in 2..d - 1 : t[i] \in S
      BY <1>1, <1>5, <1>8
    <3> QED BY <1>1, <1>5, <1>8, <1>10, <2>1, <3>1, SubSeqProperties
  <2>4. SubSeq(p, 1, 2) = <<"/metrics", "?">>
    BY <1>1, <1>5, <1>12, <2>3, TwoBytes DEF ScrapeBytes
  <2> QED BY <1>9, <1>10, <1>13, <2>3, <2>4
<1> QED BY <1>1, <1>11, <1>12

\* The first two words of a head that is answered 200.
Served(S, head, a, b, t, c, d) ==
    /\ IsFirstWord(head, a, b) /\ b = a + 1 /\ head[a] = "GET" /\ b <= Len(head)
    /\ t = SubSeq(head, b, Len(head)) /\ t \in Seq(S) /\ IsFirstWord(t, c, d)
    /\ t[c] = "/metrics"
    /\ d = c + 1 \/ (d > c + 1 /\ t[c + 1] = "?")

\* A head answered 200 has GET as its first word and another word after it.
LEMMA ServedAsked ==
    ASSUME NEW S, ScrapeBytes(S), NEW head \in Seq(S), status(head) = 200
    PROVE  \E a, b, t, c, d : Served(S, head, a, b, t, c, d)
<1>1. PICK w, t, p : w = FirstWord(head).word /\ t = FirstWord(head).rest /\ p = FirstWord(t).word
  OBVIOUS
<1>2. /\ w = <<"GET">>
      /\ p = <<"/metrics">> \/ (Len(p) > 1 /\ SubSeq(p, 1, 2) = <<"/metrics", "?">>)
  BY <1>1, StatusIs
<1>3. w # <<>> /\ p # <<>>
  <2>1. <<"GET">> # <<>> /\ <<"/metrics">> # <<>> /\ Len(<<>>) = 0
    OBVIOUS
  <2> QED BY <1>2, <2>1
<1>4. \E i \in 1..Len(head) : ~is_space(head[i])
  BY <1>1, <1>3, NoFirstWord
<1>5. PICK a, b : IsFirstWord(head, a, b)
  BY <1>4, FirstWordExists
<1>6. w = SubSeq(head, a, b - 1) /\ t = SubSeq(head, b, Len(head))
  BY <1>1, <1>5, FirstWordParts
<1>7. Len(head) \in Nat /\ a \in 1..Len(head) /\ b \in a + 1..Len(head) + 1 /\ a \in Nat /\ b \in Nat
  BY <1>5 DEF IsFirstWord
<1>8. b = a + 1 /\ head[a] = "GET"
  <2>1. "GET" \in S
    BY DEF ScrapeBytes
  <2>2. SubSeq(head, a, b - 1) = <<"GET">> <=> b = a + 1 /\ head[a] = "GET"
    BY <1>7, <2>1, OneByte
  <2> QED BY <1>2, <1>6, <2>2
<1>9. t \in Seq(S) /\ Len(t) = IF b <= Len(head) THEN Len(head) - b + 1 ELSE 0
  <2>1. \A i \in b..Len(head) : head[i] \in S
    BY <1>7
  <2> QED BY <1>6, <1>7, <2>1, SubSeqProperties
<1>10. \E i \in 1..Len(t) : ~is_space(t[i])
  BY <1>1, <1>3, <1>9, NoFirstWord
<1>11. PICK c, d : IsFirstWord(t, c, d)
  BY <1>9, <1>10, FirstWordExists
<1>12. p = SubSeq(t, c, d - 1)
  BY <1>1, <1>9, <1>11, FirstWordParts
<1>13. Len(t) \in Nat /\ c \in 1..Len(t) /\ d \in c + 1..Len(t) + 1
  BY <1>9, <1>11 DEF IsFirstWord
<1>14. b <= Len(head)
  BY <1>9, <1>10, <1>7
<1>15. CASE p = <<"/metrics">>
  <2>1. d = c + 1 /\ t[c] = "/metrics"
    <3>1. "/metrics" \in S
      BY DEF ScrapeBytes
    <3>2. SubSeq(t, c, d - 1) = <<"/metrics">> <=> d = c + 1 /\ t[c] = "/metrics"
      BY <1>9, <1>13, <3>1, OneByte
    <3> QED BY <1>12, <1>15, <3>2
  <2>2. Served(S, head, a, b, t, c, d)
    BY <2>1, <1>5, <1>6, <1>8, <1>9, <1>11, <1>14 DEF Served
  <2> QED BY <2>2
<1>16. CASE Len(p) > 1 /\ SubSeq(p, 1, 2) = <<"/metrics", "?">>
  <2>1. \A i \in c..d - 1 : t[i] \in S
    BY <1>9, <1>13
  <2>2. /\ p \in Seq(S) /\ Len(p) = d - c
        /\ \A i \in 1..d - 1 - c + 1 : p[i] = t[c + i - 1]
    BY <1>12, <1>13, <2>1, SubSeqProperties
  <2>3. p[1] = "/metrics" /\ p[2] = "?"
    BY <1>16, <2>2, TwoBytes DEF ScrapeBytes
  <2>4. d > c + 1 /\ 1 \in 1..d - 1 - c + 1 /\ 2 \in 1..d - 1 - c + 1 /\ c + 1 - 1 = c /\ c + 2 - 1 = c + 1
    BY <1>13, <1>16, <2>2
  <2>5. p[1] = t[c + 1 - 1] /\ p[2] = t[c + 2 - 1]
    BY <2>2, <2>4
  <2>6. t[c] = "/metrics" /\ t[c + 1] = "?"
    BY <2>3, <2>4, <2>5
  <2>7. Served(S, head, a, b, t, c, d)
    BY <2>4, <2>6, <1>5, <1>6, <1>8, <1>9, <1>11, <1>14 DEF Served
  <2> QED BY <2>7
<1> QED BY <1>2, <1>15, <1>16

LEMMA ServedGet ==
    ASSUME NEW S, ScrapeBytes(S), NEW head \in Seq(S), NEW a, NEW b, NEW t, NEW c, NEW d,
           Served(S, head, a, b, t, c, d)
    PROVE  SubSeq(head, a, b - 1) = <<"GET">>
<1>1. "GET" \in S /\ a \in 1..Len(head) /\ b \in a + 1..Len(head) + 1
  BY DEF ScrapeBytes, Served, IsFirstWord
<1>2. SubSeq(head, a, b - 1) = <<"GET">> <=> b = a + 1 /\ head[a] = "GET"
  BY <1>1, OneByte
<1> QED BY <1>2 DEF Served

\* Bytes that arrive later do not change the first word, once it has ended.
LEMMA FirstWordStays ==
    ASSUME NEW S, NEW head \in Seq(S), NEW rest \in Seq(S), NEW a, NEW b,
           IsFirstWord(head, a, b), b <= Len(head)
    PROVE  IsFirstWord(head \o rest, a, b) /\ SubSeq(head \o rest, a, b - 1) = SubSeq(head, a, b - 1)
<1> DEFINE r == head \o rest
<1>1. r \in Seq(S) /\ Len(r) = Len(head) + Len(rest) /\ Len(head) \in Nat /\ Len(rest) \in Nat
      /\ \A i \in 1..Len(head) + Len(rest) : r[i] = IF i <= Len(head) THEN head[i] ELSE rest[i - Len(head)]
  BY ConcatProperties
<1>2. a \in 1..Len(head) /\ b \in a + 1..Len(head) /\ a \in Nat /\ b \in Nat
  BY <1>1 DEF IsFirstWord
<1>3. \A i \in 1..b : r[i] = head[i]
  BY <1>1, <1>2
<1>4. IsFirstWord(r, a, b)
  <2> HIDE DEF r
  <2> QED BY <1>1, <1>2, <1>3 DEF IsFirstWord
<1>5. a \in 1..Len(head) /\ b - 1 \in 1..Len(head)
  BY <1>1, <1>2
<1> QED BY <1>4, <1>5, SubSeqOfConcat1

\* An answer given for a head that has its end is the one the whole request
\* calls for.
LEMMA StatusOfWhole ==
    ASSUME NEW head \in Seq(STRING), NEW rest \in Seq(STRING),
           head \o rest \in HttpRequests, has_end(head)
    PROVE  status(head) = 200 <=> \E q \in {<<"SP">>, <<"?">>} :
                                      IsPrefix(<<"GET", "SP", "/metrics">> \o q, head \o rest)
<1> DEFINE r == head \o rest
<1>1. PICK S : STRING \subseteq S /\ ScrapeBytes(S)
  <2> WITNESS STRING \cup {"GET", "SP", "/metrics", "?"}
  <2> QED BY DEF ScrapeBytes
<1>2. r \in Seq(S) /\ head \in Seq(S) /\ rest \in Seq(S)
  <2>1. Seq(STRING) \subseteq Seq(S)
    BY <1>1, SeqMonotonic
  <2>2. r \in Seq(STRING)
    BY HttpAssumption
  <2> QED BY <2>1, <2>2
<1>3. FirstWord(r).word = <<"GET">> =>
         /\ r[1] = "GET" /\ r[2] = "SP"
         /\ \E i \in 4..Len(r) : r[i] = "SP" /\ \A j \in 3..i - 1 : ~is_space(r[j])
  BY HttpAssumption
<1>4. /\ Len(r) = Len(head) + Len(rest) /\ Len(head) \in Nat /\ Len(rest) \in Nat
      /\ \A i \in 1..Len(head) : r[i] = head[i] /\ head[i] \in S
  BY <1>2, ConcatProperties
<1> HIDE DEF r
<1>5. PICK e \in 1..Len(head) - 3 : head[e] = "CR"
  <2>1. PICK e \in 1..Len(head) - 3 : SubSeq(head, e, e + 3) = EndOfHead
    BY DEF has_end
  <2>2. e \in Int /\ e + 3 \in Int /\ \A i \in e..e + 3 : head[i] \in S
    BY <1>4
  <2>3. 1 \in 1..e + 3 - e + 1 /\ e + 1 - 1 = e
    BY <2>2
  <2>4. SubSeq(head, e, e + 3)[1] = head[e]
    <3>1. SubSeq(head, e, e + 3)[1] = head[e + 1 - 1]
      BY <2>2, <2>3, SubSeqProperties
    <3> QED BY <3>1, <2>3
  <2>5. EndOfHead[1] = "CR"
    BY DEF EndOfHead, Crlf
  <2> QED BY <2>1, <2>4, <2>5
<1>6. 4 <= Len(head) /\ \A i \in 1..4 : i \in 1..Len(head) /\ r[i] = head[i]
  BY <1>4, <1>5
<1>7. \A x \in S : Asks(r, x) <=> Asks(head, x)
  BY <1>6 DEF Asks
<1>8. (\E q \in {<<"SP">>, <<"?">>} : IsPrefix(<<"GET", "SP", "/metrics">> \o q, r))
        <=> Asks(head, "SP") \/ Asks(head, "?")
  <2>1. "SP" \in S /\ "?" \in S /\ Len(r) >= 4
    BY <1>1, <1>4, <1>6 DEF ScrapeBytes
  <2>2. /\ IsPrefix(<<"GET", "SP", "/metrics">> \o <<"SP">>, r) <=> Asks(r, "SP")
        /\ IsPrefix(<<"GET", "SP", "/metrics">> \o <<"?">>, r) <=> Asks(r, "?")
    BY <1>1, <1>2, <2>1, AsksIff
  <2> QED BY <1>7, <2>1, <2>2, Zenon
<1>9. ASSUME Asks(head, "SP") \/ Asks(head, "?") PROVE status(head) = 200
  <2>1. Len(head) >= 5
    <3>1. head[1] # "CR" /\ head[2] # "CR" /\ head[3] # "CR" /\ head[4] # "CR"
      BY <1>9 DEF Asks
    <3> QED BY <1>4, <1>5, <3>1
  <2> QED BY <1>1, <1>2, <1>9, <2>1, AskedIsServed
<1>10. ASSUME status(head) = 200 PROVE Asks(head, "SP") \/ Asks(head, "?")
  <2>1. PICK a, b, t, c, d : Served(S, head, a, b, t, c, d)
    BY <1>1, <1>2, <1>10, ServedAsked
  <2>2. a \in 1..Len(head) /\ a \in Nat /\ b = a + 1 /\ b <= Len(head) /\ IsFirstWord(head, a, b) /\ head[a] = "GET"
    BY <1>4, <2>1 DEF IsFirstWord, Served
  <2>3. IsFirstWord(r, a, b) /\ SubSeq(r, a, b - 1) = SubSeq(head, a, b - 1)
    BY <1>2, <2>2, FirstWordStays DEF r
  <2>4. FirstWord(r).word = <<"GET">>
    <3>1. FirstWord(r).word = SubSeq(r, a, b - 1)
      BY <1>2, <2>3, FirstWordParts
    <3>2. SubSeq(head, a, b - 1) = <<"GET">>
      BY <1>1, <1>2, <2>1, ServedGet
    <3> QED BY <2>3, <3>1, <3>2
  <2>5. PICK i \in 4..Len(r) : r[i] = "SP" /\ \A j \in 3..i - 1 : ~is_space(r[j])
    BY <1>3, <2>4
  <2>6. r[1] = "GET" /\ r[2] = "SP"
    BY <1>3, <2>4
  <2>7. head[1] = "GET" /\ head[2] = "SP" /\ ~is_space(head[3])
    BY <1>4, <1>6, <2>5, <2>6
  <2>8. a = 1
    <3>1. ~is_space(head[1])
      BY <2>7 DEF is_space
    <3> QED BY <1>4, <2>2, <3>1 DEF IsFirstWord
  <2>9. Len(t) = Len(head) - 1 /\ t[1] = head[2] /\ t[2] = head[3] /\ t[3] = head[4]
    BY <1>4, <1>6, <2>1, <2>2, <2>8, SubSeqProperties DEF Served
  <2>10. c = 2
    <3>1. is_space(t[1]) /\ ~is_space(t[2]) /\ Len(t) >= 3 /\ Len(t) \in Nat
      BY <1>4, <1>6, <2>7, <2>9 DEF is_space
    <3>2. IsFirstWord(t, c, d)
      BY <2>1 DEF Served
    <3> QED BY <3>1, <3>2 DEF IsFirstWord
  <2>11. head[3] = "/metrics"
    BY <2>1, <2>9, <2>10 DEF Served
  <2>12. CASE d = c + 1
    <3>1. is_space(head[4])
      <4>1. IsFirstWord(t, c, d)
        BY <2>1 DEF Served
      <4>2. d = 3 /\ d <= Len(t)
        BY <1>4, <1>6, <2>9, <2>10, <2>12
      <4>3. is_space(t[d])
        BY <4>1, <4>2 DEF IsFirstWord
      <4> QED BY <2>9, <4>2, <4>3
    <3>2. i = 4
      BY <1>6, <2>5, <3>1
    <3> QED BY <1>6, <2>5, <2>7, <2>11, <3>2 DEF Asks
  <2>13. CASE d > c + 1 /\ t[c + 1] = "?"
    BY <2>7, <2>9, <2>10, <2>11, <2>13 DEF Asks
  <2> QED BY <2>1, <2>12, <2>13 DEF Served
<1> QED BY <1>8, <1>9, <1>10 DEF r

-----------------------------------------------------------------------------
(* The scraper's connection. *)

\* What has been read and what has not is the request; an answer is the status
\* of what has been read.
HttpInv ==
    /\ http \in [st : {"none", "reading", "eof", "cut", "answered"}, rest : Seq(STRING),
                 head : Seq(STRING), status : {0, 200, 404}]
    /\ http.st # "none" => http.head \o http.rest \in HttpRequests
    /\ http.st = "answered" => http.status = status(http.head)

LEMMA HttpInit == StartupInit => HttpInv
<1> SUFFICES ASSUME StartupInit PROVE HttpInv
  OBVIOUS
<1>1. http = [st |-> "none", rest |-> <<>>, head |-> <<>>, status |-> 0]
  BY DEF StartupInit, NoHttp
<1>2. <<>> \in Seq(STRING)
  OBVIOUS
<1> QED BY <1>1, <1>2 DEF HttpInv

LEMMA HttpStep == HttpInv /\ [StartupNext]_nodeVars => HttpInv'
<1> SUFFICES ASSUME HttpInv, [StartupNext]_nodeVars PROVE HttpInv'
  OBVIOUS
<1> DEFINE head == http.head
           rest == http.rest
<1>0. head \in Seq(STRING) /\ rest \in Seq(STRING)
  BY DEF HttpInv
<1>1. CASE http' = http
  BY <1>1 DEF HttpInv
<1>2. CASE ConnectHttp
  <2>1. PICK r \in HttpRequests : http' = [NoHttp EXCEPT !.st = "reading", !.rest = r]
    BY <1>2 DEF ConnectHttp
  <2>2. r \in Seq(STRING)
    BY HttpAssumption
  <2>3. http' = [st |-> "reading", rest |-> r, head |-> <<>>, status |-> 0]
    BY <2>1 DEF NoHttp
  <2>4. <<>> \in Seq(STRING) /\ <<>> \o r = r
    BY <2>2, ConcatEmptySeq
  <2>5. http'.head = <<>> /\ http'.rest = r /\ http'.st = "reading"
    BY <2>3
  <2> QED BY <2>2, <2>3, <2>4, <2>5 DEF HttpInv
<1>3. CASE HttpRead
  <2>1. PICK n \in 1..Min({Len(http.rest), HeadLimit - Len(http.head)}) :
            http' = [http EXCEPT !.head = head \o SubSeq(rest, 1, n),
                                 !.rest = SubSeq(rest, n + 1, Len(rest))]
    BY <1>3 DEF HttpRead
  <2>2. n \in Nat /\ 1 <= n /\ n <= Len(rest) /\ Len(rest) \in Nat /\ Len(head) \in Nat
    <3>1. HeadLimit \in Int /\ Len(http.rest) \in Int /\ Len(http.head) \in Int
      BY <1>0, HttpAssumption
    <3>2. PICK x, y : x = Len(http.rest) /\ y = HeadLimit - Len(http.head)
      OBVIOUS
    <3>3. x \in Int /\ y \in Int
      BY <3>1, <3>2
    <3>4. \E m \in {x, y} : \A z \in {x, y} : m =< z
      BY <3>3
    <3>5. Min({x, y}) \in {x, y} /\ Min({x, y}) <= x
      BY <3>4 DEF Min
    <3>6. n \in 1..Min({x, y})
      BY <2>1, <3>2
    <3> QED BY <1>0, <3>2, <3>3, <3>5, <3>6
  <2>3. PICK u, v : u = SubSeq(rest, 1, n) /\ v = SubSeq(rest, n + 1, Len(rest))
    OBVIOUS
  <2>4. u \in Seq(STRING) /\ v \in Seq(STRING)
    <3>1. (\A i \in 1..n : rest[i] \in STRING) /\ \A i \in n + 1..Len(rest) : rest[i] \in STRING
      BY <1>0, <2>2
    <3> QED BY <2>2, <2>3, <3>1, SubSeqProperties
  <2>5. u \o v = rest
    <3>1. 1 \in 1..Len(rest) + 1 /\ n \in 1 - 1..Len(rest) /\ Len(rest) \in n..Len(rest)
      BY <2>2
    <3>2. u \o v = SubSeq(rest, 1, Len(rest))
      BY <1>0, <2>3, <3>1, ConcatAdjacentSubSeq
    <3> QED BY <1>0, <3>2, SubSeqFull
  <2>6. http'.head = head \o u /\ http'.rest = v /\ http'.st = "reading" /\ http'.status = http.status
        /\ http' = [st |-> "reading", rest |-> v, head |-> head \o u, status |-> http.status]
    BY <1>3, <2>1, <2>3 DEF HttpRead, HttpInv
  <2>7. (head \o u) \o v = head \o rest
    <3> HIDE DEF head, rest
    <3>1. (head \o u) \o v = head \o (u \o v)
      BY <1>0, <2>4, ConcatAssociative
    <3> QED BY <2>5, <3>1
  <2>8. head \o u \in Seq(STRING)
    BY <1>0, <2>4, ConcatProperties
  <2>9. head \o rest \in HttpRequests /\ http.status \in {0, 200, 404}
    BY <1>3 DEF HttpRead, HttpInv
  <2>10. http'.head \o http'.rest \in HttpRequests
    BY <2>6, <2>7, <2>9
  <2>11. http' \in [st : {"none", "reading", "eof", "cut", "answered"}, rest : Seq(STRING),
                   head : Seq(STRING), status : {0, 200, 404}]
    BY <2>4, <2>6, <2>8, <2>9
  <2> QED BY <2>6, <2>10, <2>11 DEF HttpInv
<1>4. CASE HttpEof
  BY <1>4 DEF HttpEof, HttpInv
<1>5. CASE HttpAnswer
  <2>1. PICK st \in {"cut", "answered"} : http' = [http EXCEPT !.st = st, !.status = status(head)]
    BY <1>5 DEF HttpAnswer
  <2>2. status(head) \in {200, 404} /\ http.st # "none"
    BY <1>5 DEF HttpAnswer, status
  <2> QED BY <2>1, <2>2 DEF HttpInv
<1>6. CASE UNCHANGED nodeVars
  BY <1>1, <1>6 DEF nodeVars
<1> QED BY <1>1, <1>2, <1>3, <1>4, <1>5, <1>6
    DEF StartupNext, Start, Scrape, parse_args, LoadConfig, InstallRecorder, OpenStore, BindMetrics,
        BindResp, Exit, ConnectResp

\* Whatever the pieces a request arrives in and whatever other requests look
\* like, a scraper gets the metrics exactly when it asked for them.
THEOREM ScrapesAreAnswered == StartupSpec => []ScrapeAnswered
<1>1. HttpInv => ScrapeAnswered
  <2> SUFFICES ASSUME HttpInv, http.st = "answered", has_end(http.head)
               PROVE  http.status = 200 <=> \E q \in {<<"SP">>, <<"?">>} :
                          IsPrefix(<<"GET", "SP", "/metrics">> \o q, http.head \o http.rest)
    BY DEF ScrapeAnswered
  <2>1. PICK h, t : h = http.head /\ t = http.rest
    OBVIOUS
  <2>2. /\ h \in Seq(STRING) /\ t \in Seq(STRING) /\ h \o t \in HttpRequests
        /\ http.status = status(h) /\ has_end(h)
    BY <2>1 DEF HttpInv
  <2>3. status(h) = 200 <=> \E q \in {<<"SP">>, <<"?">>} :
                                IsPrefix(<<"GET", "SP", "/metrics">> \o q, h \o t)
    BY <2>2, StatusOfWhole
  <2> QED BY <2>1, <2>2, <2>3
<1> QED BY <1>1, HttpInit, HttpStep, PTL DEF StartupSpec
=============================================================================
