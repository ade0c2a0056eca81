---------------------------- MODULE ThreadEvents ----------------------------
(***************************************************************************)
(* One thread's bounded event log, its turn state, and the browsers that   *)
(* replay it (studio/events.py, and the replay half of the /events route   *)
(* in studio/agent_routes.py).                                             *)
(*                                                                         *)
(* The log keeps the last `Retention` events; `nextSequence` keeps         *)
(* counting past what was evicted.  A browser reconnects with the id of    *)
(* the last event it rendered and is either continued exactly or refused.  *)
(*                                                                         *)
(* Event payloads are left out.                                            *)
(***************************************************************************)
EXTENDS Integers, Sequences, FiniteSets

CONSTANTS
    Retention,      \* events kept in memory (DEFAULT_RETENTION is 512)
    Turns,          \* turn ids the routes may mint
    NoTurn,         \* Python's None
    Clients,        \* browsers (or tabs) replaying this thread
    MaxSequence     \* bound on the number of events ever recorded

ASSUME RetentionAssumption == Retention \in Nat \ {0}
ASSUME TurnAssumption == NoTurn \notin Turns
ASSUME BoundAssumption == MaxSequence \in Nat \ {0}

VARIABLES
    events,         \* the deque: retained events, oldest first
    nextSequence,   \* the number the next event gets
    activeTurn,     \* the live turn, or NoTurn
    started,        \* history: turns whose turn_started was recorded
    endings,        \* history: how often a turn was ended by an event that counted
    resume,         \* what each browser sends as Last-Event-ID
    base,           \* history: the resume point each browser arrived with
    rendered,       \* the sequences each browser has rendered
    connection      \* "open", "served" once a poll was answered, "refused"

logVars    == <<events, nextSequence, activeTurn, started, endings>>
clientVars == <<resume, base, rendered, connection>>
vars       == <<events, nextSequence, activeTurn, started, endings,
                resume, base, rendered, connection>>

TerminalTypes == {"turn_completed", "turn_failed"}

\* What a bridge may produce for a turn; "activity" is every other type of the enum.
ProducedTypes == TerminalTypes \cup {"activity"}

EventTypes == ProducedTypes \cup {"thread_started", "turn_started"}

Event == [sequence : Nat \ {0}, type : EventTypes,
          turn : Turns \cup {NoTurn}, ignored : BOOLEAN]

-----------------------------------------------------------------------------
(* Recording                                                               *)

\* Slip: late events are only ignored while no turn is live.
IsIgnoredWhenIdle(type, turn) ==
    /\ type # "turn_started"
    /\ turn # NoTurn
    /\ activeTurn = NoTurn

\* A turn_started always counts; any other event counts unless it cites a
\* turn that is not the live one.
IsIgnored(type, turn) ==
    /\ type # "turn_started"
    /\ turn # NoTurn
    /\ turn # activeTurn

\* Slip: a log without its maxlen.
PushUnbounded(event) == Append(events, event)

\* deque(maxlen=Retention).append
Push(event) ==
    LET grown == Append(events, event)
    IN  IF Len(events) < Retention THEN grown ELSE Tail(grown)

\* The turn state after an event that counts.
TurnAfter(type, turn) ==
    CASE type = "turn_started" -> turn
      [] type \in TerminalTypes /\ turn = activeTurn -> NoTurn
      [] OTHER -> activeTurn

\* ThreadEvents.append, without its refusal of a second live turn.
Record(type, turn) ==
    LET ignored == IsIgnored(type, turn)
    IN  /\ nextSequence <= MaxSequence
        /\ events' = Push([sequence |-> nextSequence, type |-> type,
                           turn |-> turn, ignored |-> ignored])
        /\ nextSequence' = nextSequence + 1
        /\ activeTurn' = IF ignored THEN activeTurn ELSE TurnAfter(type, turn)
        /\ started' = IF type = "turn_started" THEN started \cup {turn} ELSE started
        /\ endings' = IF type \in TerminalTypes /\ ~ignored
                        THEN [endings EXCEPT ![turn] = @ + 1] ELSE endings
        /\ UNCHANGED clientVars

\* Slip: append without its refusal of a second live turn.
StartTurnAnyway(u) ==
    /\ u \notin started
    /\ Record("turn_started", u)

\* The start-turn route mints a fresh id; a live turn is a 409 that records nothing.
StartTurn(u) ==
    /\ u \notin started
    /\ activeTurn = NoTurn
    /\ Record("turn_started", u)

\* The pump appends what the bridge of turn u yields.  Its turn may have ended
\* meanwhile: the event is recorded all the same.
Produce(type, u) ==
    /\ u \in started
    /\ Record(type, u)

\* Only the live turn can be interrupted; the end is an event like any other.
Interrupt(u) ==
    /\ activeTurn = u
    /\ Record("turn_failed", u)

-----------------------------------------------------------------------------
(* Replaying                                                               *)

Latest == nextSequence - 1

\* Slip: the contiguous boundary is one too low.
ServableTooOld(last) ==
    /\ last <= Latest
    /\ IF events = <<>> THEN last = Latest ELSE last >= events[1].sequence - 2

\* Slip: the contiguous boundary itself is refused.
ServableTooStrict(last) ==
    /\ last <= Latest
    /\ IF events = <<>> THEN last = Latest ELSE last >= events[1].sequence

\* Slip: a resume point ahead of the thread is answered with nothing.
ServableAhead(last) ==
    IF events = <<>> THEN last = Latest ELSE last >= events[1].sequence - 1

\* Refused when ahead of what was issued, or when the window no longer continues it.
Servable(last) ==
    /\ last <= Latest
    /\ IF events = <<>> THEN last = Latest ELSE last >= events[1].sequence - 1

ReplayAfter(last) ==
    {events[i].sequence : i \in {j \in DOMAIN events : events[j].sequence > last}}

\* A browser (re)opens the thread with a resume point of its own.  0 stands for the
\* absent header too.
Open(c, k) ==
    /\ resume'     = [resume EXCEPT ![c] = k]
    /\ base'       = [base EXCEPT ![c] = k]
    /\ rendered'   = [rendered EXCEPT ![c] = {}]
    /\ connection' = [connection EXCEPT ![c] = "open"]
    /\ UNCHANGED logVars

\* One poll that is answered.  The response is finite and may be cut anywhere: the
\* browser remembers the id of the last event that reached it.
Poll(c) ==
    /\ connection[c] # "refused"
    /\ Servable(resume[c])
    /\ \E upto \in {resume[c]} \cup ReplayAfter(resume[c]) :
          /\ rendered' = [rendered EXCEPT
                            ![c] = @ \cup {s \in ReplayAfter(resume[c]) : s <= upto}]
          /\ resume' = [resume EXCEPT ![c] = upto]
    /\ connection' = [connection EXCEPT ![c] = "served"]
    /\ UNCHANGED <<base, logVars>>

\* A 409 is final for an EventSource: the page has to open a new stream.
PollRefused(c) ==
    /\ connection[c] # "refused"
    /\ ~Servable(resume[c])
    /\ connection' = [connection EXCEPT ![c] = "refused"]
    /\ UNCHANGED <<resume, base, rendered, logVars>>

-----------------------------------------------------------------------------
\* create_thread has recorded the opening event before anyone learns the id.
Init ==
    /\ events = <<[sequence |-> 1, type |-> "thread_started",
                   turn |-> NoTurn, ignored |-> FALSE]>>
    /\ nextSequence = 2
    /\ activeTurn = NoTurn
    /\ started = {}
    /\ endings = [u \in Turns |-> 0]
    /\ resume = [c \in Clients |-> 0]
    /\ base = [c \in Clients |-> 0]
    /\ rendered = [c \in Clients |-> {}]
    /\ connection = [c \in Clients |-> "open"]

Next ==
    \/ \E u \in Turns : StartTurn(u)
    \/ \E u \in Turns, type \in ProducedTypes : Produce(type, u)
    \/ \E u \in Turns : Interrupt(u)
    \/ \E c \in Clients, k \in 0 .. MaxSequence : Open(c, k)
    \/ \E c \in Clients : Poll(c)
    \/ \E c \in Clients : PollRefused(c)

Spec == Init /\ [][Next]_vars

-----------------------------------------------------------------------------
(* Properties                                                              *)

\* Every variable has its type, and the window never outgrows the retention.
TypeOK ==
    /\ events \in Seq(Event)
    /\ Len(events) \in 1 .. Retention
    /\ nextSequence \in Nat \ {0, 1}
    /\ activeTurn \in Turns \cup {NoTurn}
    /\ started \subseteq Turns
    /\ endings \in [Turns -> Nat]
    /\ resume \in [Clients -> Nat]
    /\ base \in [Clients -> Nat]
    /\ rendered \in [Clients -> SUBSET (Nat \ {0})]
    /\ connection \in [Clients -> {"open", "served", "refused"}]

\* The retained window is the unbroken tail of everything ever numbered
\* (ThreadEvents.append, deque maxlen): eviction never leaves a hole.
WindowIsTheTail ==
    \A i \in DOMAIN events :
        events[i].sequence = nextSequence - 1 - Len(events) + i

\* However polls are cut, repeated and mixed with eviction, a browser has rendered
\* exactly the events after the point it arrived with, up to its resume point: no
\* gap and no event from nowhere (replay_after).
RenderedWithoutGap ==
    \A c \in Clients : rendered[c] = (base[c] + 1) .. resume[c]

\* A browser that is answered has only seen numbers this thread issued: an empty
\* answer never means "up to date" to a client that is ahead
\* (_refuse_a_sequence_never_issued).
ServedIsNeverAhead ==
    \A c \in Clients : connection[c] = "served" => resume[c] <= Latest

\* Every turn that was started is either the live one or was ended by exactly one
\* event that counted: none is lost, none ends twice (append, interrupt).
LiveOrEndedOnce ==
    \A u \in Turns :
        endings[u] = IF u \in started /\ u # activeTurn THEN 1 ELSE 0

\* After the event that ended a turn, nothing that cites this turn counts any more,
\* also when a successor turn is live by then (_is_ignored).
NothingCountsAfterTheEnd ==
    \A i, j \in DOMAIN events :
        (/\ i < j
         /\ events[i].type \in TerminalTypes
         /\ ~events[i].ignored
         /\ events[j].turn = events[i].turn)
        => events[j].ignored

\* A refusal costs the browser a full reload, so it is only given when something the
\* browser has not seen is really gone, or its resume point was never issued.
RefusedOnlyWhenLost ==
    [][\A c \in Clients :
          (connection[c] # "refused" /\ connection'[c] = "refused")
          => \/ resume[c] > Latest
             \/ \E s \in (resume[c] + 1) .. Latest :
                   \A i \in DOMAIN events : events[i].sequence # s]_vars

\* The turns of one thread follow the abstract life cycle: the log is an
\* implementation of TurnLifecycle.
Lifecycle == INSTANCE TurnLifecycle WITH
    phase <- [u \in Turns |-> IF u = activeTurn THEN "live"
                              ELSE IF u \in started THEN "ended" ELSE "new"]

\* ThreadEvents implements TurnLifecycle (append and interrupt are its only writers).
RefinesLifecycle == Lifecycle!Spec
=============================================================================
