----------------------------- MODULE StoreRaces ----------------------------
(***************************************************************************)
(* The store when nothing keeps commands apart.  Two things are added:     *)
(* the loop of next_version step by step, so that draws meet, and a record *)
(* of which keys a race or a failed write may have harmed since the        *)
(* process started.                                                        *)
(***************************************************************************)
EXTENDS Store

VARIABLES draw,    \* next_version: what each thread has loaded and computed
          marred   \* history: keys commands overlapped on, or failed to write

raceVars == <<vars, draw, marred>>

NoDraw == [prev |-> 0, candidate |-> 0]

\* VERSION_CLOCK.load, then the candidate from it and the clock.
LoadClock(t) ==
    /\ pc[t] = "alloc" /\ draw[t] = NoDraw
    /\ draw' = [draw EXCEPT ![t] = [prev |-> clock, candidate |-> next_version]]
    /\ UNCHANGED <<vars, marred>>

\* Fault: the candidate is stored without comparing.
Exchange_blind(t) ==
    /\ draw[t] # NoDraw
    /\ Drawn(t, draw[t].candidate)
    /\ draw' = [draw EXCEPT ![t] = NoDraw]
    /\ UNCHANGED marred

\* compare_exchange succeeds and the loop ends.
Exchange(t) ==
    /\ draw[t] # NoDraw /\ clock = draw[t].prev
    /\ Drawn(t, draw[t].candidate)
    /\ draw' = [draw EXCEPT ![t] = NoDraw]
    /\ UNCHANGED marred

\* Fault: the loop compares with what it loaded before the loop.
Retry_stale(t) ==
    /\ draw[t] # NoDraw /\ clock # draw[t].prev
    /\ UNCHANGED raceVars

\* compare_exchange fails: the loop loads again.
Retry(t) ==
    /\ draw[t] # NoDraw /\ clock # draw[t].prev
    /\ draw' = [draw EXCEPT ![t] = NoDraw]
    /\ UNCHANGED <<vars, marred>>

\* Every other step of a thread is the one of Store.
RaceStep(t) ==
    \/ LoadClock(t) \/ Exchange(t) \/ Retry(t)
    \/ pc[t] # "alloc" /\ Step(t) /\ UNCHANGED <<draw, marred>>

\* The keys on which the commands of threads t and u meet; FLUSH works on all.
Meet(t, u) ==
    IF cmd[t].op = "flush" THEN {Key(u)} ELSE IF cmd[u].op = "flush" THEN {Key(t)}
    ELSE {Key(t)} \cap {Key(u)}

\* The commands that have still to draw a version, or may have to.
Drawing ==
    {t \in Threads : /\ cmd[t].op \in Creators \cup {"set"}
                     /\ pc[t] \in {"load", "expire", "expired", "overwrite", "alloc"}}

\* The bound MaxVersion counts the versions they will draw, and leaves room for a
\* restart after the last of them.
RaceStart(t) ==
    /\ Start(t)
    /\ t \in Drawing' => clock + Cardinality(Drawing) < MaxVersion - 1
    /\ marred' = (marred \cup UNION {Meet(t, u)' : u \in {v \in Threads \ {t} : Running(v)}}) \ {NoKey}
    /\ UNCHANGED draw

\* A SET has dropped the map entry by now, a creator may have registered one.
RaceFails(t) ==
    /\ WriteFails(t)
    /\ marred' = marred \cup IF cmd[t].op \in Creators \cup {"set"} THEN {Key(t)} ELSE {}
    /\ UNCHANGED draw

RaceRestart ==
    /\ Restart
    /\ draw' = [t \in Threads |-> NoDraw]
    /\ marred' = {}

RaceNext ==
    \/ \E t \in Threads : RaceStart(t) \/ RaceStep(t) \/ RaceFails(t)
    \/ RaceRestart
    \/ (CompactionDrop \/ compact \/ Boot \/ Tick) /\ UNCHANGED <<draw, marred>>

RaceInit == Init /\ draw = [t \in Threads |-> NoDraw] /\ marred = {}

\* The scheduler runs every worker thread and the opening thread; nothing is
\* assumed of clients, compaction, the clock or restarts.
RaceSpec ==
    /\ RaceInit /\ [][RaceNext]_raceVars
    /\ \A t \in Threads : WF_raceVars(RaceStep(t))
    /\ WF_raceVars(Boot /\ UNCHANGED <<draw, marred>>)

-----------------------------------------------------------------------------
(* Every command a client starts ends, whatever other threads, compactions   *)
(* and the clock do, and however often its compare_exchange fails.           *)
CommandsEnd == \A t \in Threads : Running(t) ~> ~Running(t)

(* What overlapping commands, failing writes, a FLUSH among writers or an     *)
(* EXPIRE that writes back old metadata do to the version map ends with the  *)
(* process: after with_engine has rebuilt the map, a key on which no two     *)
(* commands have overlapped and no write has failed since has exactly the    *)
(* entry its metadata calls for, whatever an earlier process left on disk.   *)
RestartHeals ==
    boot = "serving" =>
        \A k \in Keys \ marred : Quiet(k) => versions[k] = CurrentVersion(k)
=============================================================================
