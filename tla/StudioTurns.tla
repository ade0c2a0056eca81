---------------------------- MODULE StudioTurns ----------------------------
(***************************************************************************)
(* How Studio runs turns (studio/agent_routes.py): the bounded thread      *)
(* store, the one slot per thread that holds its in-flight turn, the poll  *)
(* that pumps it, the reader thread that is inside the provider's          *)
(* generator, the threads that close generators, the reaper, interrupts    *)
(* and shutdown.                                                           *)
(*                                                                         *)
(* Route handlers run on one event loop, so a handler is one step up to    *)
(* its only await: the pump's wait for the reader.  Readers and closers    *)
(* are real threads and step on their own.                                 *)
(*                                                                         *)
(* A ThreadEvents object is a log, numbered in the order of creation; a    *)
(* thread id is named by the first log that carried it.  What a log        *)
(* records is the subject of ThreadEvents; here it is its live turn.       *)
(***************************************************************************)
EXTENDS Integers, FiniteSets

CONSTANTS
    Turns,          \* turn ids the routes may mint
    NoTurn,         \* no live turn, an empty slot, a poll that pumps nothing
    Tabs,           \* browser pages
    MaxThreads,     \* capacity of the thread store (DEFAULT_MAX_THREADS is 64)
    MaxLogs,        \* bound on the logs ever created
    MaxYields,      \* bound on the events a provider yields in one turn
    ClockMayJump    \* whether 120 s may pass within one poll (a suspended machine)

ASSUME TurnAssumption == NoTurn \notin Turns
ASSUME StoreAssumption == MaxThreads \in Nat \ {0} /\ MaxLogs \in Nat \ {0}
ASSUME YieldAssumption == MaxYields \in Nat \ {0}
ASSUME ClockAssumption == ClockMayJump \in BOOLEAN

Logs == 1 .. MaxLogs

VARIABLES
    phase,          \* of the process: "serving", "stopping" (lifespan), "exited"
    store,          \* the logs in the thread store
    nextLog,
    threadOf,       \* the thread id of each log
    active,         \* ThreadEvents._active_turn of each log
    slot,           \* pending_turns: the turn parked on each thread
    home,           \* the log on which a turn was started, 0 before
    unparked,       \* turns whose parking raised
    stale,          \* turns whose last_touched is older than ABANDONED_TURN_SECONDS
    gen,            \* each turn's generator, and the child process in its finally
    yielded,        \* how much it has yielded
    reader,         \* pending.reader, or the result it posted
    joiners,        \* shut_down threads still in reader.join()
    closers,        \* shut_down threads about to call close()
    page,           \* the thread a tab shows, 0 when it is closed
    pumping,        \* the turn a tab's poll is inside, holding its lock
    pumpLog,        \* the log that poll was given, 0 for none
    awaited         \* the turns whose clean-up the lifespan joins at shutdown

threadVars == <<store, nextLog, threadOf>>
turnVars   == <<active, slot, home, unparked>>
genVars    == <<gen, yielded, reader>>
closeVars  == <<joiners, closers>>
tabVars    == <<page, pumping, pumpLog>>
vars == <<phase, store, nextLog, threadOf, active, slot, home, unparked,
          stale, gen, yielded, reader, joiners, closers, page, pumping, pumpLog,
          awaited>>

-----------------------------------------------------------------------------
(* The thread store                                                        *)

Stored(t) == \E l \in store : threadOf[l] = t

LogOf(t) == CHOOSE l \in store : threadOf[l] = t

\* The first key of a dict that preserves insertion order.
Oldest == CHOOSE l \in store : \A m \in store : l <= m

\* Oldest first by creation; the store never holds more than MaxThreads.
MakeRoom == IF Cardinality(store) >= MaxThreads THEN store \ {Oldest} ELSE store

\* ThreadStore.thread(t): create-on-access, evicting the oldest when full.
Access(t) ==
    IF Stored(t)
    THEN UNCHANGED threadVars
    ELSE /\ nextLog <= MaxLogs
         /\ store' = MakeRoom \cup {nextLog}
         /\ threadOf' = [threadOf EXCEPT ![nextLog] = t]
         /\ nextLog' = nextLog + 1

\* The route mints a fresh id, so the access always creates.
CreateThread ==
    /\ phase = "serving"
    /\ Access(nextLog)
    /\ UNCHANGED <<phase, turnVars, stale, genVars, closeVars, tabVars, awaited>>

-----------------------------------------------------------------------------
(* Ending turns                                                            *)

\* _fail_turn, and a recorded terminal event: they count for the live turn only.
Ended(act, l, u) == IF act[l] = u THEN [act EXCEPT ![l] = NoTurn] ELSE act

\* Slip: the slot is never dropped.
ReleasedNever(slt, t, u) == slt

\* Slip: whatever the slot holds is dropped.
ReleasedBlindly(slt, t, u) == [slt EXCEPT ![t] = NoTurn]

\* _finish_turn drops the slot only if it still holds the turn being finished.
Released(slt, t, u) == IF slt[t] = u THEN [slt EXCEPT ![t] = NoTurn] ELSE slt

Outstanding(rdr, u) == rdr[u] \in {"starting", "reading"}

\* The closing half of _finish_turn for every turn of U: a thread that joins the
\* outstanding reader, if there is one, and then closes the generator.
CloseEach(U, rdr) ==
    /\ joiners' = [u \in Turns |->
                    joiners[u] + (IF u \in U /\ Outstanding(rdr, u) THEN 1 ELSE 0)]
    /\ closers' = [u \in Turns |->
                    closers[u] + (IF u \in U /\ ~Outstanding(rdr, u) THEN 1 ELSE 0)]

\* Slip: a turn that a poll is advancing right now is swept too.
AbandonedEvenIfPumped(slt, old, locked) == {t \in Logs : slt[t] \in old}

\* Slip: nobody sweeps.
AbandonedNever(slt, old, locked) == {}

\* The threads whose parked turn nobody has polled for ABANDONED_TURN_SECONDS.
Abandoned(slt, old, locked) == {t \in Logs : slt[t] \in old \ locked}

\* Turns whose lock one of the tabs B holds.
LockedBy(B) == {pumping[b] : b \in B} \ {NoTurn}

\* Slip: the sweep drops the turn and closes its generator, but records no terminal.
SweptSilently(act, slt, T) == act

\* _reap_abandoned_turns, from the state act, slt: a stored thread's turn is failed,
\* an evicted thread's turn is only dropped.
SweptActive(act, slt, T) ==
    [l \in Logs |-> IF /\ l \in store
                       /\ threadOf[l] \in T
                       /\ act[l] = slt[threadOf[l]]
                    THEN NoTurn ELSE act[l]]

SweptSlot(slt, T) == [t \in Logs |-> IF t \in T THEN NoTurn ELSE slt[t]]

\* The end of a poll on thread t: sweep, then replay what thread t has.  The replay
\* asks the store for the thread again, and gets a new log if it was evicted since.
Serve(b, t, act, slt, old, finished, rdr) ==
    LET T == Abandoned(slt, old, LockedBy(Tabs \ {b}))
        swept == {slt[s] : s \in T}
    IN  /\ active' = SweptActive(act, slt, T)
        /\ slot' = SweptSlot(slt, T)
        /\ stale' = old \ swept
        /\ CloseEach(finished \cup swept, rdr)
        /\ Access(t)
        /\ pumping' = [pumping EXCEPT ![b] = NoTurn]
        /\ pumpLog' = [pumpLog EXCEPT ![b] = 0]
        /\ UNCHANGED <<phase, home, unparked, page, awaited>>

-----------------------------------------------------------------------------
(* The routes that start and interrupt                                     *)

\* start_turn: record turn_started (a live turn is a 409), sweep, park.  Parking reads
\* the workspace and may raise: the turn is then live, with nothing to advance it.
StartTurn(u, t) ==
    /\ phase = "serving"
    /\ home[u] = 0
    /\ Stored(t)
    /\ active[LogOf(t)] = NoTurn
    /\ LET T == Abandoned(slot, stale, LockedBy(Tabs))
           swept == {slot[s] : s \in T}
       IN  /\ active' = SweptActive([active EXCEPT ![LogOf(t)] = u], slot, T)
           /\ CloseEach(swept, reader)
           /\ stale' = stale \ swept
           /\ \/ /\ slot' = [SweptSlot(slot, T) EXCEPT ![t] = u]
                 /\ gen' = [gen EXCEPT ![u] = "fresh"]
                 /\ UNCHANGED unparked
              \/ /\ slot' = SweptSlot(slot, T)
                 /\ unparked' = unparked \cup {u}
                 /\ UNCHANGED gen
    /\ home' = [home EXCEPT ![u] = LogOf(t)]
    /\ UNCHANGED <<phase, threadVars, yielded, reader, tabVars, awaited>>

\* interrupt_turn: the live turn ends; whatever the thread's slot holds is finished.
Interrupt(u, t) ==
    /\ phase = "serving"
    /\ Stored(t)
    /\ active[LogOf(t)] = u
    /\ active' = Ended(active, LogOf(t), u)
    /\ slot' = Released(slot, t, slot[t])
    /\ CloseEach({slot[t]} \ {NoTurn}, reader)
    /\ stale' = stale \ {slot[t]}
    /\ UNCHANGED <<phase, threadVars, home, unparked, genVars, tabVars, awaited>>

-----------------------------------------------------------------------------
(* The poll                                                                *)

\* Nothing to pump, or another poll is inside this turn's generator.
Busy(u) == u = NoTurn \/ u \in LockedBy(Tabs)

\* stream_events up to the await.  A thread that is not stored is a 404.
PollStart(b) ==
    /\ phase = "serving"
    /\ page[b] # 0
    /\ Stored(page[b])
    /\ pumping[b] = NoTurn
    /\ LET u == slot[page[b]]
       IN  \/ /\ Busy(u)
              /\ Serve(b, page[b], active, slot, stale \ {u}, {}, reader)
              /\ UNCHANGED genVars
           \/ /\ ~Busy(u)
              /\ pumping' = [pumping EXCEPT ![b] = u]
              /\ pumpLog' = [pumpLog EXCEPT ![b] = LogOf(page[b])]
              /\ stale' = stale \ {u}
              /\ reader' = IF reader[u] = "none" THEN [reader EXCEPT ![u] = "starting"]
                           ELSE reader
              /\ UNCHANGED <<phase, threadVars, turnVars, gen, yielded, closeVars, page,
                             awaited>>

\* What the queue may hold, by what it makes the pump do.
\*   opening    the bridge's own turn_started
\*   activity   an event to record, also a write of a turn that may write
\*   terminal   the turn ends, the generator is suspended: a terminal event, a write in
\*              a read_only turn, an event whose registration or recording raises
\*   drained    the generator is finished: exhausted without a terminal, or it raised
\*   reentered  "generator already executing"
Posted == {"opening", "activity", "terminal", "drained", "reentered"}

\* The pump's loop goes on: the bridge's own opening is skipped, activity is recorded.
CarriesOn(u) == reader[u] \in {"opening", "activity"}

\* The pump takes the reader's result and reads on ...
PollReadsOn(b) ==
    LET u == pumping[b]
    IN  /\ u # NoTurn
        /\ reader[u] \in Posted
        /\ CarriesOn(u)
        /\ reader' = [reader EXCEPT ![u] = "starting"]
        /\ UNCHANGED <<phase, threadVars, turnVars, stale, gen, yielded, closeVars,
                       tabVars, awaited>>

\* ... or its slice is over and it serves ...
PollSliceOver(b) ==
    LET u == pumping[b]
    IN  /\ u # NoTurn
        /\ reader[u] \in Posted
        /\ CarriesOn(u)
        /\ reader' = [reader EXCEPT ![u] = "none"]
        /\ Serve(b, threadOf[pumpLog[b]], active, slot, stale, {}, reader')
        /\ UNCHANGED <<gen, yielded>>

\* ... or the result ends the turn, with the provider's terminal or with turn_failed.
PollEndsTurn(b) ==
    LET u == pumping[b]
        t == threadOf[pumpLog[b]]
    IN  /\ u # NoTurn
        /\ reader[u] \in Posted
        /\ ~CarriesOn(u)
        /\ reader' = [reader EXCEPT ![u] = "none"]
        /\ Serve(b, t, Ended(active, pumpLog[b], u), Released(slot, t, u),
                 IF slot[t] = u THEN stale \ {u} ELSE stale, {u}, reader')
        /\ UNCHANGED <<gen, yielded>>

\* Slip: a poll that gives up forgets the reader it was waiting for.
PollTimesOutForgetting(b) ==
    /\ pumping[b] # NoTurn
    /\ Outstanding(reader, pumping[b])
    /\ reader' = [reader EXCEPT ![pumping[b]] = "none"]
    /\ Serve(b, threadOf[pumpLog[b]], active, slot, stale, {}, reader')
    /\ UNCHANGED <<gen, yielded>>

\* The provider is slow: the poll serves, the reader stays inside the generator.
PollTimesOut(b) ==
    /\ pumping[b] # NoTurn
    /\ Outstanding(reader, pumping[b])
    /\ Serve(b, threadOf[pumpLog[b]], active, slot, stale, {}, reader)
    /\ UNCHANGED genVars

-----------------------------------------------------------------------------
(* Readers and closers                                                     *)

\* The reader thread ends: its result is in the queue, who joined it goes on.
Post(u, result) ==
    /\ reader' = [reader EXCEPT ![u] = result]
    /\ joiners' = [joiners EXCEPT ![u] = 0]
    /\ closers' = [closers EXCEPT ![u] = @ + joiners[u]]

\* next(): a generator that is executing refuses to be entered, a closed one is drained.
ReaderEnters(u) ==
    /\ phase # "exited"
    /\ reader[u] = "starting"
    /\ \/ /\ gen[u] \in {"fresh", "suspended"}
          /\ gen' = [gen EXCEPT ![u] = "running"]
          /\ reader' = [reader EXCEPT ![u] = "reading"]
          /\ UNCHANGED closeVars
       \/ /\ gen[u] \in {"running", "closing"}
          /\ Post(u, "reentered")
          /\ UNCHANGED gen
       \/ /\ gen[u] = "closed"
          /\ Post(u, "drained")
          /\ UNCHANGED gen
    /\ UNCHANGED <<phase, threadVars, turnVars, stale, yielded, tabVars, awaited>>

\* What next() may bring: a bridge opens with its own turn_started.
Yields(u) ==
    IF yielded[u] = 0 THEN {"opening"}
    ELSE IF yielded[u] < MaxYields THEN {"activity", "terminal"}
    ELSE {}

ReaderPosts(u) ==
    /\ phase # "exited"
    /\ reader[u] = "reading"
    /\ \/ \E result \in Yields(u) :
             /\ Post(u, result)
             /\ gen' = [gen EXCEPT ![u] = "suspended"]
             /\ yielded' = [yielded EXCEPT ![u] = @ + 1]
       \/ /\ Post(u, "drained")
          /\ gen' = [gen EXCEPT ![u] = "closed"]
          /\ UNCHANGED yielded
    /\ UNCHANGED <<phase, threadVars, turnVars, stale, tabVars, awaited>>

\* close(): a fresh generator just closes, a suspended one runs its finally (and ends
\* the child), an executing one raises, which is swallowed.
CloserCloses(u) ==
    /\ phase # "exited"
    /\ closers[u] > 0
    /\ closers' = [closers EXCEPT ![u] = @ - 1]
    /\ gen' = [gen EXCEPT ![u] = CASE gen[u] = "fresh" -> "closed"
                                   [] gen[u] = "suspended" -> "closing"
                                   [] OTHER -> gen[u]]
    /\ UNCHANGED <<phase, threadVars, turnVars, stale, yielded, reader, joiners, tabVars,
                   awaited>>

\* The generator's finally is done: CodexSession.close() has ended the child.
FinallyDone(u) ==
    /\ phase # "exited"
    /\ gen[u] = "closing"
    /\ gen' = [gen EXCEPT ![u] = "closed"]
    /\ UNCHANGED <<phase, threadVars, turnVars, stale, yielded, reader, closeVars, tabVars,
                   awaited>>

\* Nothing refers to the generator any more: the interpreter closes it.
Collected(u) ==
    /\ phase # "exited"
    /\ gen[u] \in {"fresh", "suspended"}
    /\ \A t \in Logs : slot[t] # u
    /\ u \notin LockedBy(Tabs)
    /\ ~Outstanding(reader, u)
    /\ joiners[u] = 0 /\ closers[u] = 0
    /\ gen' = [gen EXCEPT ![u] = "closed"]
    /\ UNCHANGED <<phase, threadVars, turnVars, stale, yielded, reader, closeVars, tabVars,
                   awaited>>

-----------------------------------------------------------------------------
(* The clock, the browser, the process                                     *)

\* 120 s without a poll.  An open page polls every second and a poll takes half of one,
\* so it takes a closed page or a jump of the clock.
GoesStale(u) ==
    /\ phase = "serving"
    /\ u \notin stale
    /\ \E t \in Logs :
          /\ slot[t] = u
          /\ \/ ClockMayJump
             \/ u \notin LockedBy(Tabs) /\ \A b \in Tabs : page[b] # t
             \/ ~Stored(t)
    /\ stale' = stale \cup {u}
    /\ UNCHANGED <<phase, threadVars, turnVars, genVars, closeVars, tabVars, awaited>>

OpenPage(b, t) ==
    /\ phase = "serving"
    /\ page[b] = 0
    /\ Stored(t)
    /\ page' = [page EXCEPT ![b] = t]
    /\ UNCHANGED <<phase, threadVars, turnVars, stale, genVars, closeVars, pumping, pumpLog,
                   awaited>>

\* The server does not notice: a poll of this page runs on.
ClosePage(b) ==
    /\ phase = "serving"
    /\ page[b] # 0
    /\ page' = [page EXCEPT ![b] = 0]
    /\ UNCHANGED <<phase, threadVars, turnVars, stale, genVars, closeVars, pumping, pumpLog,
                   awaited>>

\* Slip: the parked turns are dropped, and nobody closes their generators.
ShutDownDrops ==
    /\ phase = "serving"
    /\ LockedBy(Tabs) = {}
    /\ phase' = "stopping"
    /\ awaited' = {}
    /\ slot' = [t \in Logs |-> NoTurn]
    /\ CloseEach({}, reader)
    /\ page' = [b \in Tabs |-> 0]
    /\ stale' = {}
    /\ UNCHANGED <<threadVars, active, home, unparked, genVars, pumping, pumpLog>>

\* The server has answered what was in flight and is gone for every page; the lifespan
\* finishes every parked turn.
ShutDown ==
    /\ phase = "serving"
    /\ LockedBy(Tabs) = {}
    /\ phase' = "stopping"
    /\ awaited' = {slot[t] : t \in Logs} \ {NoTurn}
    /\ slot' = [t \in Logs |-> NoTurn]
    /\ CloseEach(awaited', reader)
    /\ page' = [b \in Tabs |-> 0]
    /\ stale' = {}
    /\ UNCHANGED <<threadVars, active, home, unparked, genVars, pumping, pumpLog>>

\* A bridge yields its opening before it starts the provider: the child lives from the
\* second advance on, until the generator's finally is done.
ChildAlive(u) ==
    \/ gen[u] = "running" /\ yielded[u] >= 1
    \/ gen[u] \in {"suspended", "closing"} /\ yielded[u] >= 2

\* The lifespan has joined the clean-ups it started, or gave up after ten seconds on one
\* whose reader the provider still holds.
Exit ==
    /\ phase = "stopping"
    /\ \A u \in awaited :
          \/ gen[u] = "closed"
          \/ joiners[u] > 0 /\ gen[u] = "running" /\ ChildAlive(u)
    /\ phase' = "exited"
    /\ UNCHANGED <<threadVars, turnVars, stale, genVars, closeVars, tabVars, awaited>>

-----------------------------------------------------------------------------
Init ==
    /\ phase = "serving"
    /\ store = {}
    /\ nextLog = 1
    /\ threadOf = [l \in Logs |-> 0]
    /\ active = [l \in Logs |-> NoTurn]
    /\ slot = [t \in Logs |-> NoTurn]
    /\ home = [u \in Turns |-> 0]
    /\ unparked = {}
    /\ stale = {}
    /\ gen = [u \in Turns |-> "none"]
    /\ yielded = [u \in Turns |-> 0]
    /\ reader = [u \in Turns |-> "none"]
    /\ joiners = [u \in Turns |-> 0]
    /\ closers = [u \in Turns |-> 0]
    /\ page = [b \in Tabs |-> 0]
    /\ pumping = [b \in Tabs |-> NoTurn]
    /\ pumpLog = [b \in Tabs |-> 0]
    /\ awaited = {}

ReaderStep(u) == ReaderEnters(u) \/ ReaderPosts(u)

PollEnds(b) == PollReadsOn(b) \/ PollSliceOver(b) \/ PollEndsTurn(b) \/ PollTimesOut(b)

CleanUp(u) == CloserCloses(u) \/ FinallyDone(u) \/ Collected(u)

Next ==
    \/ CreateThread
    \/ \E u \in Turns, t \in Logs : StartTurn(u, t) \/ Interrupt(u, t)
    \/ \E b \in Tabs : PollStart(b) \/ PollEnds(b)
    \/ \E u \in Turns : ReaderStep(u) \/ CleanUp(u) \/ GoesStale(u)
    \/ \E b \in Tabs, t \in Logs : OpenPage(b, t)
    \/ \E b \in Tabs : ClosePage(b)
    \/ ShutDown
    \/ Exit

Spec == Init /\ [][Next]_vars

\* Threads of the interpreter run, a poll ends within its slice, an open page polls
\* again, a provider answers or times out, and the clock advances.
Fairness ==
    /\ \A u \in Turns : WF_vars(ReaderStep(u)) /\ WF_vars(CleanUp(u)) /\ SF_vars(GoesStale(u))
    /\ \A b \in Tabs : WF_vars(PollStart(b)) /\ WF_vars(PollEnds(b))

FairSpec == Spec /\ Fairness

-----------------------------------------------------------------------------
(* Properties                                                              *)

\* Every variable has its type, and a turn is finished at most twice: by whoever drops
\* its slot, and by the poll that was inside it then.
TypeOK ==
    /\ phase \in {"serving", "stopping", "exited"}
    /\ store \subseteq Logs
    /\ nextLog \in 1 .. (MaxLogs + 1)
    /\ threadOf \in [Logs -> 0 .. MaxLogs]
    /\ active \in [Logs -> Turns \cup {NoTurn}]
    /\ slot \in [Logs -> Turns \cup {NoTurn}]
    /\ home \in [Turns -> 0 .. MaxLogs]
    /\ unparked \subseteq Turns
    /\ stale \subseteq Turns
    /\ gen \in [Turns -> {"none", "fresh", "suspended", "running", "closing", "closed"}]
    /\ yielded \in [Turns -> Nat]
    /\ reader \in [Turns -> Posted \cup {"none", "starting", "reading"}]
    /\ joiners \in [Turns -> 0 .. 2]
    /\ closers \in [Turns -> 0 .. 2]
    /\ page \in [Tabs -> 0 .. MaxLogs]
    /\ pumping \in [Tabs -> Turns \cup {NoTurn}]
    /\ pumpLog \in [Tabs -> 0 .. MaxLogs]
    /\ awaited \subseteq Turns

\* The store holds the newest logs and one log per thread id, whoever asked for them:
\* what is evicted is the oldest (ThreadStore.thread).
StoreKeepsTheNewest ==
    /\ store = {l \in 1 .. (nextLog - 1) : l >= nextLog - MaxThreads}
    /\ \A l, m \in store : threadOf[l] = threadOf[m] => l = m

\* The slot of a stored thread holds that thread's live turn: a turn that the browser is
\* told is running can be advanced, reaped and finished.  Only a turn whose parking
\* raised is excepted (start_turn, _finish_turn, _reap_abandoned_turns).
NoWedge ==
    phase = "serving" =>
        \A l \in store :
            active[l] = NoTurn \/ active[l] = slot[threadOf[l]] \/ active[l] \in unparked

\* A generator is never entered twice on behalf of a turn that is still live: that
\* would end a healthy turn as a provider error (pumping, reader, shut_down).
LiveTurnIsNotReentered ==
    \A l \in store : active[l] # NoTurn => reader[active[l]] # "reentered"

\* The generator of a live turn is not being closed and nobody is about to: a turn is
\* ended in the log before its generator is finished (_finish_turn, _fail_turn).
OnlyEndedTurnsAreClosed ==
    phase = "serving" =>
        \A l \in store :
            active[l] # NoTurn =>
                /\ gen[active[l]] # "closing"
                /\ joiners[active[l]] = 0 /\ closers[active[l]] = 0

\* A parked turn of a stored thread leaves its slot in the very step in which it ends,
\* by whatever of the four ways: a successor finds both free, and a late result of one
\* turn never ends another (_finish_turn, _interrupt_turn, _reap_abandoned_turns).
EndsWithItsSlot ==
    [][\A t \in Logs :
          LET u == slot[t]
          IN  (phase = "serving" /\ phase' = "serving" /\ u # NoTurn
               /\ home[u] \in store \cap store')
              => (active'[home[u]] = u <=> slot'[t] = u)]_vars

\* A turn that a poll is advancing is not swept: while the poll goes on, only the user
\* ends it (the pumping lock, _reap_abandoned_turns).
PumpedTurnEndsByStopOnly ==
    [][\A b \in Tabs :
          LET u == pumping[b]
          IN  (u # NoTurn /\ pumping'[b] = u /\ active[pumpLog[b]] = u)
              => \/ active'[pumpLog[b]] = u
                 \/ \E t \in Logs : Interrupt(u, t)]_vars

\* An evicted thread comes back by nothing but a poll of it that was waiting for the
\* provider meanwhile and ends now: every other route refuses it (stream_events,
\* start_turn, create_thread).
RevivedByWaitingPoll ==
    [][\A l \in store' \ store :
          threadOf'[l] # l =>
              \E b \in Tabs : /\ pumping[b] # NoTurn /\ pumping'[b] = NoTurn
                             /\ threadOf[home[pumping[b]]] = threadOf'[l]]_vars

\* The turns of one log, in terms of the abstract life cycle.
PhaseOn(l) == [u \in Turns |-> IF home[u] # l THEN "new"
                               ELSE IF active[l] = u THEN "live" ELSE "ended"]

Lifecycle(l) == INSTANCE TurnLifecycle WITH phase <- PhaseOn(l)

\* Pumped, swept, interrupted, overtaken by eviction: every log implements TurnLifecycle
\* (a sweep may end turns on several logs at once, so each log steps for itself).
RefinesLifecycle ==
    /\ \A l \in Logs : Lifecycle(l)!Init
    /\ [][\A l \in Logs : [Lifecycle(l)!Next]_(PhaseOn(l))]_vars

\* One turn and its generator, in terms of the abstract run: a turn is live in a stored
\* log, and with an evicted one it ends.
LifeOf(u) == IF home[u] = 0 THEN "new"
             ELSE IF phase = "serving" /\ home[u] \in store /\ active[home[u]] = u THEN "live"
             ELSE "ended"

PlaceOf(u) == IF gen[u] \in {"fresh", "suspended"} THEN "idle" ELSE gen[u]

Run(u) == INSTANCE TurnRun WITH life <- LifeOf(u), place <- PlaceOf(u)

\* Every turn implements TurnRun, whoever polls, sweeps, stops, evicts or shuts down: a
\* generator is entered by one thread at a time and closed only once its turn has ended
\* (pumping, reader, _finish_turn, shut_down).
RefinesTurnRun ==
    /\ \A u \in Turns : Run(u)!Init
    /\ [][\A u \in Turns : [Run(u)!Next]_<<LifeOf(u), PlaceOf(u)>>]_vars

Live(u) == \E l \in store : active[l] = u

\* Studio exits with no generator open of a turn that was live when it was stopped, but
\* for those whose provider still holds the reader: nothing live escapes the lifespan,
\* whatever the polls, the sweep and the store did before (_lifespan, _park_turn).
LiveTurnsAreShutDown ==
    phase = "exited" =>
        \A u \in Turns :
            (Live(u) /\ u \notin unparked) => gen[u] = "closed" \/ reader[u] = "reading"

PageStays == \E b \in Tabs : <>[](page[b] # 0)

\* While some page stays open, every turn that could be parked ends, watched or not
\* (the pump, and the sweep for closed tabs).
EveryTurnEnds ==
    PageStays =>
        \A u \in Turns :
            [](Live(u) /\ u \notin unparked => <>(~Live(u) \/ phase # "serving"))

\* While some page stays open, the generator of every turn is closed in the end, and
\* with it the provider's child (_finish_turn, and the interpreter when close() was
\* refused).
EveryChildGoes ==
    PageStays =>
        \A u \in Turns :
            [](gen[u] # "none" => <>(gen[u] = "closed" \/ phase = "exited"))

\* What ThreadStore's docstring says: an evicted thread stays unknown.
EvictedStaysUnknown == \A l \in store : threadOf[l] = l

\* What the lifespan's docstring says: no turn's child is alive when Studio has stopped.
NoChildOutlivesStudio == phase = "exited" => \A u \in Turns : ~ChildAlive(u)
=============================================================================
