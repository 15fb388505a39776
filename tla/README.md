# Formal model of the GameStore data node

GameStore's data node is a Redis-compatible server on RocksDB. This directory
holds TLA+ modules for the whole of it, from the command line to the bytes on
disk, the TLC runs that check them on small instances, and TLAPS proofs for
instances of every size. Paths below are
relative to the repository, which `PROJECT.json` calls `src/`.

## 1. The system

| Component | State | Operations | Talks to |
|---|---|---|---|
| Connection server (`gamestore-datanode/src/server.rs`) | open connections, RESP version of each, shutdown flag | accept, per-connection read/dispatch/reply loop, HELLO, drain | calls the command layer; all connections share one `Arc<Store>` with no lock |
| RESP protocol (`gamestore-protocol`) | partial input, codec version | incremental decode, encode | the connection loop |
| Command layer (`gamestore-datamodel`) | none (registry) | arity check, argument parsing, deadlines, replies | one `Store` call per command (LPOP/RPOP: `llen`, then `pop`; DEL, EXISTS: one per key; HMGET: one per field) |
| Store (`gamestore-engine/src/store.rs`) | `VERSION_CLOCK`, the version map | String, Hash, Set, ZSet, List, TTL, DEL, FLUSH, DBSIZE, COMPACT | engine reads, atomic batches, version map |
| Version map and GC (`gc.rs`) | user key to current structure version, in memory | set, remove, clear, `should_keep` | the store, RocksDB's compaction threads |
| Engine (`rocks.rs`, `engine.rs`) | persisted records, the GC slot | get, write, scan_prefix, compact_range, install_gc | RocksDB (external) |
| Encoding (`encoding.rs`) | none | record keys, metadata, score codec, list indexes | the store, the filter |
| Configuration and startup (`gamestore-common/src/config.rs`, `main.rs`) | settings, bound listeners | layering defaults, file, environment and flags; opening the store, binding | the server, the metrics endpoint |
| Observability (`observability.rs`) | counters and gauges (external recorder) | `/metrics` over HTTP, slow log | scrapers |
| `spike/` | — | — | not modelled, see section 8 |

A key has one metadata record (type, structure version, deadline, and a member
count or the list bounds or the string). A composite key also has one subkey
record per member, and a sorted set one score-index record per member; both
carry the version. Deleting or replacing a key touches only its metadata and its
map entry; the records of the old version are garbage that the compaction filter
drops because their version is not the one in the map.

What is hard here: commands on one key are sequences of separate engine calls
run by several worker threads with no lock; compaction runs on RocksDB's threads
at any moment and consults memory, not disk; the process may stop between two
writes of one command; the map has to be rebuilt after every start; versions
have to stay unique across restarts although only the wall clock carries them
over.

What makes each part correct:

- **map and filter**: the map has the version of every composite key and nothing
  else; the filter keeps what metadata refers to, and drops everything else; a
  record once condemned is never wanted again;
- **versions**: a version belongs to one structure, for ever;
- **lifecycle**: a key disappears only for a reason that still holds when it does;
- **data types**: counts, bounds, member records and index agree between commands;
- **commands**: each takes effect atomically as the Redis command it is;
- **encoding**: a scan finds the records of one key at one version and no other;
  the filter reads owner and version back from any key; what is stored in the
  metadata is what is read; the byte order of scores is their numeric order;
- **command layer and frames**: a reply arrives as it was built, in forms the
  client's version has, saying the same in both; a key lives exactly as long as
  was asked;
- **startup**: a node serves with the strongest usable value of every setting, on
  two different addresses, or not at all;
- **server and decoder**: however bytes arrive, a client gets its replies in
  order, once, in the version in force; a command that ran is answered; the
  drain ends.

## 2. Modules

| Module | What it is |
|---|---|
| `StoreBase` | State, records, engine, version map, the steps all commands share, compaction, failures, restart and rebuild |
| `StoreHash`, `StoreSet`, `StoreZSet`, `StoreList` | The body of each composite command as an operator from metadata, arguments and disk to a write plan, and the reads |
| `Ranges` | `normalize_range` and what it should select |
| `Store` | All commands together: `Next`, `Spec`, and the properties |
| `StoreRaces` | `Store` with nothing to keep commands apart: the loop of `next_version` step by step, and which keys races or failed writes may have harmed since the process started |
| `Redis` | Abstract specification: a map from keys to typed values, one atomic step per command |
| `StoreRefinement` | The refinement mapping from `Store` to `Redis` |
| `Decoder` | `decode_command`: multibulk and inline requests, quoting, limits, on a buffer that may end anywhere |
| `Server` | `serve_with` and `handle_connection` over `Decoder`, the clients and the network |
| `Scores` | Scores as bit patterns, `encode_score` and `decode_score` |
| `Encoding` | The byte layouts of record keys and metadata, and their parsers |
| `StoreBytes` | `Store` seen through `Encoding`: which scans and parses of real keys give which records |
| `Codec` | RESP frames, `encode` in both versions, `decode` on a buffer that may end anywhere |
| `Commands` | Every handler: what it refuses, the store calls it makes, the frame it replies with |
| `Session` | One client's session: dispatch, handler, encoder, the client's decoder |
| `Startup` | Configuration and `main`, then the first client: `answer_http` for a scrape of `/metrics` |
| `Node` | `Startup`, then a `Session` when the first client is of the RESP port |
| `StoreInvariant` | The inductive invariants of the proofs |
| `StoreProofs` | Types; what the body of each command plans: well-formed batches, counts and records after the write |
| `MapProofs` | Versions and replaced structures, collection and the version map |
| `ReadProofs` | Metadata against records; what the reads of every type return, ranges and the score codec, and which deletions happen |
| `RefinementProofs` | The refinement, step by step, and what commands reply |
| `InductionProofs` | Induction as sets of numbers, what recursive functions satisfy, prefixes |
| `BytesProofs` | Records as bytes: numbers, order, scans and parsers of every width |
| `StartupProofs` | The configuration a node serves with, and the scrapes it answers |
| `ServerProofs` | What the drain leaves unanswered: nothing; and that answers do not depend on how requests are cut into segments |
| `MCStore`, `MCRaces`, `MCRefinement`, `MCBytes`, `MCServer`, `MCNode` | Instances for TLC: what clients send in each run |

`Store` is composed of the four type modules over `StoreBase`; `StoreRefinement`
relates it to `Redis`, `StoreBytes` to the bytes. `Server` composes `Decoder` with
the connections; `Node` composes `Startup`, `Session`, `Commands` and `Codec`.
A connection of `Server` is a thread of `Store`; `Session` abstracts the store to
one string key with its deadline and lets every other call return anything of its
type, because other clients are at work.

### State and actions

`metas`, `subs`, `index` are the three persisted families; `versions` is the
version map (0 for no entry, a version being at least 1); `clock` is
`VERSION_CLOCK`; `now` is the wall clock; `boot` and `todo` are the progress of
`with_engine` and of the rebuild scan; `pc`, `cmd`, `mem`, `wb` are a thread's
position, command, metadata copy and batch.

One step is one access to shared state. A command such as HSET goes
`load` → (`expire` → `expired` →) (`alloc` → `register` →) `exec` → `commit`:

| Code | Steps |
|---|---|
| `load_live_meta`, `load_typed` | `LoadMissing`, `LoadExpired`, `LoadFound` |
| `logical_delete` | `DeleteMeta`, then `ForgetVersion` |
| `set` | `Overwrite` (map entry), `Alloc`, `PutMeta` |
| `new_composite_meta` | `Alloc` (`next_version`), `Register` |
| `next_version` in `StoreRaces` | `LoadClock`, then `Exchange` or, when another thread was faster, `Retry` |
| body of hset … pop | `Exec` (reads, builds the plan), `Commit` (the batch), and for the last member `DeleteMeta`, `ForgetVersion` |
| `expire_at` | `LoadFound`, `PutMeta` |
| LPOP/RPOP handler | a first `peek` load for `llen`, then the load of `pop` |
| `flush_all` | `FlushMeta`, `FlushSub`, `FlushIdx`, `FlushWrite`, `FlushClear` |
| compaction filter | `CompactionDrop` (background, one record), `compact` (COMPACT) |
| `with_engine` | `install_gc`, `RebuildKey` per record, `Serve` |
| process stop and start | `Restart` |

`Faults` names what the environment may do: `overlap` (commands on one key
overlap), `crash` (a stop between any two steps), `bootCompaction` (RocksDB
compacts during the rebuild), `writeError`, `clockBack` (an earlier wall clock
after a restart). The code excludes none of them. A run lists the ones under
which its property holds; the violation runs show the ones under which it does
not.

In `Server`, `phase` and `signal` are the progress of `serve_with`; `client`,
`reqs`, `wire`, `got` are a client and the bytes it has under way; `task`, `buf`,
`eof`, `version`, `action` are its connection task; `replies` and `done` what has
been answered and run. Decoding, dispatching and the version switch are one step
(`Dispatch`), because the code awaits nothing between them; the reply is another
(`Send`), which blocks while the client does not read and does not watch the
shutdown signal. Both selects are biased: with the signal set, `Accept` and
`NextItem` are disabled. Connections share only the signal and the store, and a
connection runs one command at a time: a thread of `Store` is a connection.

| Code | Steps |
|---|---|
| `serve_with` | `Accept`, `StopAccepting`, `Drained`; `Shutdown` for the signal |
| `handle_connection` | `Leave` (shutdown branch), `NextItem` = `SkipEmpty`, `Dispatch` or `ProtocolError`, `ClientClosed`, `Send`, `SendFails` |
| client and network (external) | `Connect`, `Deliver` (one byte), `Read`, `Hangup`, `EndOfStream` |

In `Session`, a script says what the server side is asked to send: requests,
frames written by another user of the codec, or bytes that are no frame. `cur` and
`res` are the request in its handler and the results of its store calls so far;
`sent` the frames handed to the encoder with their version; `out` and `inbox` the
bytes under way and those the client has not decoded; `got` what it has decoded.
In `Startup`, `stage` is how far `main` has come and `http` the scraper's connection.

| Code | Steps |
|---|---|
| `dispatch`, `handle_connection` | `Answer` (no store call), `Take`, `Call` (one per store call), `Reply` |
| `RespCodec` | `Write`, `Receive`; `Arrive` delivers one byte |
| `main` | `parse_args`, `LoadConfig`, `InstallRecorder`, `OpenStore`, `BindMetrics`, `BindResp` |
| `serve_metrics`, `answer_http` | `ConnectHttp`, `HttpRead` (any fragment), `HttpEof`, `HttpAnswer` |

### Abstractions

- In `Store`, byte strings are model values; fields and members are integers in
  byte order. List indexes are integers around 0 (`LIST_INITIAL_INDEX` is the
  middle of the u64 space, out of reach of its ends). `StoreBytes` maps all of
  them to bytes.
- A score is a bit pattern: a sign bit above a magnitude that is its own value.
  Zero has two patterns, as in `f64`; patterns that are no number are refused by
  ZADD. In `Session` a double has a sign and an integral magnitude, or is infinite
  or not a number.
- One clock stands for milliseconds and microseconds.
- In `Store` the compare-and-swap loop of `next_version` is one step, `Alloc`.
  `StoreRaces` takes it apart: a thread loads `VERSION_CLOCK` and the wall clock,
  others draw and time passes before it exchanges, and a failed exchange goes round
  again. A version drawn there may be below the wall clock of the moment, never at or
  below another one drawn by the same process. The theorems are about `Alloc`.
- The reads of a command's body are one step; other threads interleave before
  and after it. Reads between commands are operators of a state.
- Filter decision and drop are one step. `GarbageStays` is the reason this loses
  nothing: what is condemned stays condemned.
- DEL and EXISTS of several keys are several commands, as in the code, which
  calls the store once per key.
- Engine reads do not fail; a failing write ends the command with an error.
- What hset … pop return is part of the refinement (`RepliesMatch`). `Server`
  keeps of a reply which request it answers, the shape of HELLO's frame and the
  version it is encoded in; the frames themselves are in `Session`.
- Command names and option words are single bytes of one letter case; error texts
  are told apart by a word each.
- `main` never reads its configuration again, so `Startup` forgets it once a client
  has connected. A listener is refused an address that does not resolve, is taken or
  is not permitted (`refuses`). TTL and PTTL read the clock twice, so they may reply 0
  (`pttl`, `later_ms`). In `Session` time passes only while the key exists, since nothing
  else reads the clock.
- Left out of the decoders: hexadecimal escapes, headers beyond 64 bits, UTF-8
  validation, fractional doubles.

## 3. Runs

Passing runs (all reachable states of the instance):

| Run | Shows |
|---|---|
| `commands` | One key, one thread, every command of every type: commands meet the wrong type, expired keys, compaction, FLUSH and clean restarts. Count, members, index and bounds agree between commands, keys disappear only when they should, each command returns what its abstract counterpart does, and the store implements `Redis` |
| `sorted_sets` | Every bit pattern of a small float, both zeros included: members and index agree while members move between scores, ranks are the numeric order, score ranges are exact for all bounds although the scan stops early |
| `two_keys` | Two threads on two keys, step by step, with compaction and stops between any two steps, also during a rebuild: the rebuilt map is exact, the filter keeps what is owned, condemned records stay condemned, COMPACT leaves no garbage, no record of an old structure comes back |
| `crash_one_batch` | Commands whose write is one batch survive stops and failing writes with counts, bounds and index in agreement; and seen as bytes, with one key a prefix of the other, scans find exactly their records, the filter reads the right owner, metadata reads back |
| `overlap` | Any overlap, failed writes, stops, compaction in the rebuild, threads meeting inside `next_version`: a version drawn belongs to one thread and one structure; every command ends, however often its exchange fails; after a restart the map is exact again for every key nothing has raced on or failed to write since (`RestartHeals`), whatever FLUSH among writers, an EXPIRE that writes back old metadata or a failed SET did before |
| `server` | One client talks, delivered byte by byte, another connects and leaves, a shutdown at any moment: replies match requests, what ran is answered, the drain ends, answers arrive |
| `node` | Every combination of layers for every setting, taken, colliding and unresolvable addresses; then every command in every form its handler tells apart, before and after HELLO, expiry at the edges of i64, every kind of frame, bytes that are no frame, and scrapes in every fragmentation |

Runs that end in a violation, each quoting the line it contradicts in
`PROJECT.json`: `bad_boot_window` (compaction during the rebuild drops live
fields), `bad_overlap_create` (two creators leave map and metadata apart),
`bad_expiry_race` (a read deletes a value stored after its expiry check),
`bad_pop_crash` (a stop between the last element and its metadata),
`bad_hash_repeat` (HSET counts a field named twice in one call twice).

Further disagreements between code and documentation, met while modelling, that
have no run of their own (the property that shows one is named where there is one):

- with an earlier wall clock after a restart a version is drawn twice and old
  records come back (`NoResurrection` with `Faults = {"clockBack"}`; store.rs:43-45
  promises that "versions keep increasing across restarts");
- an inline line of exactly `max_inline_len` bytes is refused when its CR and LF
  arrive apart and accepted when they arrive together (`AnswersMatch` with
  `Streams <- LimitLine` in `server.cfg`, decode.rs:107: the check of an unfinished
  line counts the CR, that of a finished one does not);
- members with score -0.0 come before those with 0.0 whatever their names,
  although encoding.rs:162 has the index ordered by score and member;
- the error lines for an unknown command (registry.rs:133) and an unknown CLIENT
  subcommand (server.rs:334) repeat what the client sent, CR and LF included,
  which frame.rs:56 excludes: the reply to such a name does not decode as one frame
  (`RepliesArrive` with such a request);
- `Limits` counts a map's pairs twice (decode.rs:28), `parse_map` once;
- LPOP with a count replies an empty array, not nil (list.rs:36-40), when another
  client empties the list between its two store calls;
- an HSET between FLUSHALL's scans survives as metadata whose field is gone
  (`HashReadsAgree` under `overlap`; store.rs:833 promises the opposite);
- EXPIRE writes back metadata it loaded before a DEL and so undoes the DEL
  (`NoResurrection` under `overlap`, store.rs:262);
- SET drops the map entry before its write: when the write fails or the process
  stops first, the hash it would have replaced may have lost its fields
  (`HashReadsAgree` under `writeError` or `crash`, store.rs:205);
- HDEL subtracts a field named twice in one call twice, so that naming one of two
  fields twice deletes the hash (`DeletionsJustified`, store.rs:356); `commands`
  therefore passes each field once to HSET and HDEL;
- compaction keeps the records of expired keys (gc.rs:90), although
  `docs/design/03-storage-engine.md:93` asks the filter to drop them, and DBSIZE
  counts them, although `commands/admin.rs:21` says it counts live records.

### Bounds

`MaxVersion` bounds the versions drawn (2 or 3: a structure, its replacement and
a rebuilt one), `MaxNow` the wall clock (2 or 3: before, at and after a
deadline), `MaxIndex` the list indexes (2 on each side of the start, so lists
cross it in both directions), `MaxCount` the member counts (only the runs in
which counts drift reach it). Two fields are
needed for a collection that shrinks without becoming empty, two keys for a
FLUSH that meets another command, two threads for every overlap. Commands are
admitted, never cut short, by the bounds, so each one that starts can end. In
`overlap` `MaxVersion` = 3 counts the draws still to come of the commands under way
(`Drawing`) and leaves room for a restart after the last: two threads draw in one
process, or one in each of two, on the one key both work on.

In `server` the streams hold every form of request, two or more pipelined, each
limit exceeded, and no inline line of exactly the limit (section 3's second
disagreement). Bytes arrive one by one while the connection may act in
between, which covers every fragmentation. `SocketRoom` is 1: a second unread
reply blocks. Deadlock is not checked there because a drained server stops.

`SignBit` is 2 (scores -1, -0, 0, 1) where order matters and 8 where scores are
written as words. In `crash_one_batch` a byte has `Base` = 4 values, a length is
`LenBytes` = 1 byte and a word `WordBytes` = 2, so that versions, indexes and
scores all use more than one byte and the prefix bytes occur in user keys;
`RawKeys` names the two keys, one a prefix of the other.

In `node`, `MaxI64` is 20 and `UnitMs` 3, so that products and sums pass the limit
in both directions with two digits; `MaxDepth` is 3 and the frames nest up to it
and, refused, beyond; `MaxBulkLen` and `MaxArrayLen` admit the largest reply
(HELLO's) and little more; `HeadLimit` is 9 bytes of a scrape, a word being a byte.
`MCScripts` has at most three entries each: a version switch, a request, and one
more to see that the stream is still in step. `MCLaunches` varies one setting at a
time over all layers, and the ports together. A session ends with its script, so
deadlock is not checked.

### Fairness

`RaceSpec` of `StoreRaces` assumes weak fairness of each thread's steps and of the
opening thread: tokio runs every ready worker and no step waits for another thread (the
version map's lock is held for one map access). That a thread's exchanges cannot fail
for ever is not assumed: each failure is another thread's draw, and `MaxVersion` bounds
those. The loop is lock-free, not wait-free: with draws of others without end, which no
instance has, a thread could lose every exchange. Nothing is assumed of clients,
of compaction, of the clock or of restarts. In `Server`, `LiveSpec` assumes the
same of the accept loop and of each connection task, that the network delivers,
and that a connected client reads. The last is an assumption about clients: the
code has no timeout, and a client that neither reads nor leaves keeps the drain
waiting for ever (server.rs:212). The run `overlap` uses
`RaceSpec`, the run `server` `LiveSpec`.

## 4. The abstract specification

`Redis` has a map `db` and the time, one action per command, and what each
returns. `Value(k)` maps
the store's state to `db`: SET takes effect when it drops the map entry (from
then on the old structure may be collected), a command that takes the last
member takes effect with its batch, every other command with its single write.
`commands` checks `ImplementsRedis` with commands on a key serialised and no
crash; with overlap it fails for the reasons the violation runs show.
`RefinementProofs!StoreImplementsRedis` proves it for every size (section 5).

An absent key has the value `Nothing`. HSET and ZADD bind, of several pairs for one
field or member, the last (`FieldPairs`, `MemberPairs`, `Bind`): stated without a
fold, so that the proofs need no induction over the arguments.

## 5. Proofs

All theorems hold for every set of keys, fields, values, threads and arguments,
and every bound. The assumptions are the named `ASSUME`s of `StoreBase` and
`Store` (argument shapes the handlers guarantee, the null values are not
values, and, for `CompactReclaims`, which counts keys, that a key has bounded
length, decode.rs:41, so that there are finitely many), which TLC evaluates in
every run; for the bytes and the startup also those of `Encoding`, `StoreBytes` (a
user key is a byte string whose length its field can hold) and `Startup` (what a
command line can say, that a GET begins as HTTP has it), and for the server
`StreamsAssumption` (below). A theorem's hypothesis names the faults it excludes; every
other fault may happen.

- `StoreProofs!TypeCorrect`: `Spec => []TypeOK`, under every fault.
  `TypeOK` alone is not inductive: what a batch contains depends on where its
  thread is. `TypeInv` adds `ControlOK` (where a thread can be with which
  operation, and what its locals hold there) and `Booting` says that the rebuild
  only meets metadata that exists, because no command runs before the store
  serves. It is shown, one lemma per command body, that a plan is a
  well-formed batch that keeps version and type (`GoodPlan`).
- `MapProofs!CompactionKeepsLiveRecords`: without `overlap`, `bootCompaction` and
  `writeError`, `Spec => []LiveRecordsKept`, whatever crashes and clocks do. The
  invariant `GcInv` adds to `TypeInv`: a thread has its key to itself
  (`Exclusive`); the map tracks every composite key except one a SET is
  overwriting (`Tracked`, `Overwriting`), during the rebuild every key already
  visited (`BootMap`); and what each thread knows of its key at each step
  (`Claim`), e.g. that the version of the batch it is about to write is the one
  in the map. Each excluded fault is excluded for a reason: the runs
  `bad_overlap_create` and `bad_boot_window` are counterexamples, and a SET
  whose write fails leaves a hash the map no longer knows.
- `MapProofs!VersionsAreFresh`: without `clockBack`, `Spec => []FreshVersion`,
  under every overlap, failing write and crash. `FreshVersion` speaks of records
  and metadata copies; the invariant `VersionInv` adds the batches on their way to
  disk and says why a draw is fresh: `next_version` is above every version on disk,
  in a batch or in a copy. A restart sets `VERSION_CLOCK` to 0 and keeps this only
  because the wall clock has moved on, hence the hypothesis. That a batch carries
  one version, that of the copy it was built from, is part of `GoodPlan`.
- `MapProofs!CondemnedStays`: without `clockBack` and `bootCompaction`,
  `Spec => GarbageStays`. A map entry changes only to 0 or, in `Register`, to the
  version just drawn, which by `VersionInv` no record on disk carries. With
  `bootCompaction` the rebuild adds entries for records the empty map condemned,
  which is the counterexample of `bad_boot_window`.
- `MapProofs!DroppedStaysDropped`: without `overlap` and `clockBack`,
  `Spec => NoResurrection`, with failing writes, crashes and compaction in the
  rebuild. `SerialInv` adds `Exclusive` and `Anchored`: what a thread is about to
  write is either the structure its key has on disk or one that has no record
  there, so a write never puts back metadata some older record answers to. Under
  `overlap` EXPIRE does put it back (section 3).
- `MapProofs!MapIsExact`: without `overlap`, `bootCompaction`, `writeError` and
  `clockBack`, `Spec => []VersionMapExact`. `Tracked` is one direction (a composite
  key has its entry); the other (no entry for a missing key or a string) needs to
  know which entries a thread leaves behind while it deletes or replaces
  (`Settled`), that the entry of a key under creation is followed by its batch, and
  that the rebuild starts from an empty map (`BootExact`). A failing write leaves
  an entry with no key, so `writeError` has to be excluded.
- `MapProofs!RebuildIsExact`: under every fault, a process that begins to serve has an
  exact map: `BootExact` alone is inductive with `TypeInv` and `Booting`, since no
  command runs during the rebuild. This is half of `RestartHeals`; the other half, that
  the map then stays exact for keys without a race, is `MapIsExact` when there are no
  races at all and otherwise only model-checked.
- `MapProofs!CompactionReclaims`: under the same hypotheses
  `Spec => CompactReclaims`, the converse of `CompactionKeepsLiveRecords`, from the
  exact map: what a COMPACT keeps has the version in the map, hence in the metadata.
- `ReadProofs!RangesCorrect`: `normalize_range` selects the inclusive range for
  all integers and lengths, by case analysis on whether the clamped range is
  empty. TLC meets it through `ZSetRanksAgree`.
- `ReadProofs!CodecCorrect`: for every `SignBit`, `decode_score` inverts
  `encode_score` and the order of codes is the order of numbers, the two zeros
  being the only equal scores with different codes; by cases on the two signs.
- `ReadProofs!ContentHolds`: without `overlap`, `bootCompaction`, `writeError` and
  `clockBack`, and with stops as `CleanStops` says, `Spec => []ContentInv`: what
  metadata says of a structure is what is on disk. See below.
- From it, under the same hypotheses, the properties of the reads between commands:
  `SetsReadTheSame` (`SetReadsAgree`), `HashesReadTheSame` (`HashReadsAgree`),
  `ListsReadTheSame` (`ListReadsAgree`), `ZSetsReadTheSame` (`ZSetReadsAgree`),
  `RanksSplitByScore` (`ZSetRanksAgree`), `ScoreRangesFindAll` (`ScoreRangesExact`),
  and of the steps: `DeletionsAreJustified` (`Spec => DeletionsJustified`). All in
  `ReadProofs`.
- `RefinementProofs!StoreImplementsRedis`: under the same hypotheses and `NoRepeats`,
  `Spec => ImplementsRedis`; and `RefinementProofs!RepliesAreRight`:
  `Spec => []RepliesMatch`. See below.
- `ServerProofs!DrainAnswers`: `Spec => []RunsAreAnswered` of `Server`, with no
  hypothesis, for any connections, byte streams and limits. The property is about a
  stopped server; `DrainInv` says the same of a running one: the commands a
  connection ran are the replies it has handed over that are no protocol errors, plus
  one while such a reply is being sent (`Accounted`, `Pending`), and a stopped server
  has no connection left that is sending. A connection that leaves at the signal is
  not `Pending`, because the select that sees the signal is not reached while a reply
  is being sent.
- `ServerProofs!AnswersAreRight`: `Spec => []AnswersMatch` under `NoLimitLine`. See "The
  argument about requests".

- `BytesProofs!ScansAreExact`, `FilterReadsTheOwner`, `MetadataReadsBack`:
  `Spec => [](WordsFit => P)` for the three properties P of `StoreBytes`, under every
  fault. See "The argument about bytes".
- `StartupProofs!NodeServesAsConfigured`: `StartupSpec => []ServesAsConfigured`. The
  invariant says, stage by stage, what `cfg`, `recorder` and `bound` are: `cfg` is
  `override(load(launch), launch.cli)` once loaded, the metrics address is bound
  before the RESP address and only with a recorder. That this `cfg` is the usable
  value of the strongest layer is a case analysis on which layers are usable.
- `StartupProofs!ScrapesAreAnswered`: `StartupSpec => []ScrapeAnswered`. What has been
  read and what is to come are always one of `HttpRequests`; and the words
  `split_whitespace` finds in a head that contains the blank line are those of the
  whole request.

### The argument about bytes

`WordsFit` says that every number fits the machine word the code keeps it in: u64 for
versions, deadlines, scores and list indexes, u32 for counts. The code's types say so;
the model's numbers are unbounded, so it is a hypothesis. It is true in every state of
`crash_one_batch`.

- Numbers: `to_be_bytes` has the digits of the number, by induction on the width
  (`TopStep`), so `from_be_bytes` reads it back (`NumberReadsBack`) and the first byte
  in which two words differ decides their order (`FirstByteDecides`, `LexNumbers`).
- Order: two byte strings either extend one another or part at one position (`Part`).
  Hence a scan, which starts at the prefix and stops at the first key without it,
  misses no key that has it (`ScanFinds`), and records made of parts of fixed width
  compare part by part (`LexPair`).
- Layout: `parse_versioned` of a versioned prefix with anything behind it gives key,
  version and rest back (`ParsesBack`): the length field is what makes this true when
  one user key is a prefix of another. So a record that has a versioned prefix is of
  that tag, key and version (`PrefixOfRecord`).
- Counts: `DBSIZE` counts keys by their bytes, so it needs that different records have
  different bytes and, for subkeys, that there is one record per subkey. That is the
  inductive invariant `RecordsInv`: finitely many records, one per subkey, on disk and
  in every batch on its way there.

The provers cannot use the library's induction theorems. `InductionProofs` states
induction as a fact about sets (`InductiveSet`: a set that holds 0 and with each number
the next holds all) from the well-foundedness of the naturals, and from it that a
recursive function satisfies its equation (`RecursiveFunction`). For this `Encoding`
defines powers and `from_be_bytes` as recursive functions.

### The argument about requests

`StreamsAssumption` says what a client's requests are: a well-formed one is decoded, in
one piece, as what it means and to its last byte; a malformed one is refused, and does
not end between a CR and its LF. Nothing is said of a request that arrives in parts
or behind another; that is what is proved.

- Stability: once `decode_command` has an answer for a buffer, a command or an error,
  bytes appended later do not change it (`DecodeStays`). It is proved from the inside
  out: a line found is found again (`LineStays`), so is an argument (`TurnStays`), and
  by induction on the number of arguments the whole array (`LoopStays`,
  `MultibulkStays`); then the inline form (`InlineStays`). The exception is an unfinished
  line one byte over the limit, its CR, which may still become a line of exactly the
  limit. `NoLimitLine` excludes such lines; section 3's second disagreement shows why.
- Hence a proper part of a well-formed request waits for more (`GoodPart`): had it an
  answer, the whole request would have the same and leave bytes over. Malformed bytes
  never yield a command and are refused at their end at the latest (`BadPart`, `BadWhole`).
- The invariant `AnswersInv` places every connection at a position k of its client's
  requests (`Standing`): what is in its buffer, followed by what is still on the wire,
  is the bytes of the requests after the k-th, and its replies are those the reference
  conversation `Converses` gives after k requests, the last one possibly still being
  sent. `ItemIs` makes one step of the decoder one step of k.
- The bytes and the conversation of a stream are defined by recursion over it.
  `BytesAre` and `TalkIs` show, with `InductionProofs!Runs`, that the functions with the
  same recursion equations, which the invariant speaks of, exist and agree with them.

### The content argument

That a count is the number of records is a statement between commands; inside one
it is false (the batch is written, the metadata of an emptied key not yet deleted)
or about something in memory. `ContentInv` therefore has three parts on top of
`MapInv`:

- `Whole(k)`: the records on disk with the version in the metadata fit it (`Fits`:
  one record per member, the count their number; for a list one record per index
  from head to tail - 1; for a sorted set the index is the image of the members) and
  are not none, unless a SET is overwriting the key or a pop or removal has taken
  its last member;
- `Knows(t)`, per step of a command: a freshly allocated copy is empty, the copy a
  body starts from fits the disk, the batch a body has built will leave records that
  fit the metadata in the batch (`SubsAfter`, `IndexAfter`), a body that decides to
  delete the key leaves none, EXPIRE's copy differs in its deadline only;
- from `MapInv`: records of other keys or versions do not interfere, since a version
  is of one structure, and no compaction removes a record the metadata owns.

`StoreProofs` has the part about data, one lemma per body: if the copy fits the
records then its plan does (`PlanKeeps`), and names records of its own key and
version only (`PlanOwns`). Counting is by one-to-one maps between the members a
batch adds or removes and their records, so duplicates in one SADD or SREM are
counted once. Ranks are dense because the number of smaller index records is a
one-to-one map from n members into 0 .. n - 1. `ScoreRangesFindAll` rests on
`CodecCorrect`: once an index record is past the bound, so are all that follow it.

Two hypotheses are there because the code needs them. `CleanStops`: the process
stops between commands, or anywhere when neither SET nor a removing command is in
use. Those write twice, and a stop in between leaves an empty list with metadata
(`bad_pop_crash`) or a hash whose map entry SET has dropped. `NoRepeats`, for hashes
and for `DeletionsAreJustified`: no call of HSET or HDEL names a field twice
(`bad_hash_repeat`; HDEL in section 3). Sets, sorted sets and lists need no such
hypothesis.

### The refinement argument

A command reads, decides and writes in separate steps, and the step of `Redis` has to
be taken with the write, from a decision made before. `EffectInv` adds to `ContentInv`
that this decision is still the right one (`Remembers`): the metadata copy a body
works on is the metadata on disk, or a fresh one where there is none (`Origin`); the
batch under way is the plan the body would make now, from the disk as it is now; the
copy EXPIRE writes back is the one on disk with its new deadline. `PlanSame` is why
other threads do not disturb this: a plan depends on the records of its own key and
version only.

- Data, one lemma per body (`SaddEffect` … `PopEffect`, together `PlanEffect`): the
  records after the batch encode what `Apply` makes of the content before, and the
  body chooses to delete the key exactly when nothing is left. For HSET and ZADD the
  last pair of a field wins on both sides; lists are compared element by element
  around the moving head.
- Steps: SET is seen in `Overwrite` and unseen in `Alloc` and `PutMeta`
  (`OverwriteSets`, `PutSets`); EXPIRE in `PutMeta`; a composite command in `Commit`
  (`CommitUpdates`); `DeleteMeta` is a DEL, the reaping of an expired value, or unseen
  after a last member (`DeleteDrops`); FLUSH in `FlushWrite` (`FlushWrites`); loads,
  draws, registrations, bodies and map updates are unseen (`ThreadUnseen`), and so is
  every drop of the filter (`CompactionUnseen`), because the records a value is made
  of are tracked by the map. The clock and a restart are `TimePasses` (`TimeStep`).
- Replies: a body's reply is computed from the copy and the disk, which by
  `Remembers` and `Fits` are the content `Answer` is applied to (`ReplyMatches`).

`NoRepeats` is needed for both: a hash whose count has drifted is deleted or kept when
`Redis` would not, and HSET and HDEL reply the wrong number.

Writing the proofs changed the model in two ways. The abstract HSET and ZADD are
stated without a fold (section 4). And where arms of a `CASE` overlap,
its value is either one; TLC takes the first, as the code's `match` does, the prover
may not. `FoundPc`, `pop`, `Values` and `key_after` had such arms and now have the
order of the code's tests as `IF` or in their guards; no run changed.

### Only model-checked

- Liveness under fairness, which is outside the prover's reach.
- `StoreRaces`: `RestartHeals`, and `FreshVersion` with the loop taken apart
  (`VersionsAreFresh` proves it for `Alloc`).
- `Codec`, `Commands` and `Session`: frames nest and option lists repeat, and
  these modules use `RECURSIVE` operators, with which the prover cannot work.
- The store under `overlap`, and under crashes inside SET and the removing commands:
  most properties are false there (section 3).

## 6. Plan

1. Proofs: refinement under crashes for the commands that write once, which
   `CleanStops` already admits, extended to SET by a value that is either the old or
   the new one.
2. Torn reads: the reads of a body as steps of their own, under `overlap`.

## 7. Reading the mutants

A definition named `X_suffix` right before `X`, under a comment that begins with
"Fault", is a variant of `X` with a plausible mistake. No specification uses it;
`PROJECT.json` pairs it with the property that notices it.

## 8. Not modelled

- RocksDB's internals, its options and statistics, and failing reads: external to
  the repository, and what `rocks.rs` adds is modelled.
- Metrics, gauges, labels, the slow log and logging: output that nothing in the
  program reads back.
- Wording and letter case of names and errors, hexadecimal escapes, UTF-8
  validation, fractional doubles: no control depends on more than is kept.
- The prototypes under `spike/`, superseded by the crates and kept as the record
  of a language decision; benchmarks and scripts.
- Reads inside one command body interleaved with other threads (planned, section
  6): each body reads in one step.
