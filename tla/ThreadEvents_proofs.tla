------------------------ MODULE ThreadEvents_proofs ------------------------
(***************************************************************************)
(* ThreadEvents, for every retention, every set of turns and browsers.     *)
(*                                                                         *)
(* The properties of the log are not inductive one by one.  The inductive  *)
(* invariant IInv adds what ties them together: a browser's resume point   *)
(* never falls behind where it arrived, the live turn was started, and an  *)
(* event that ended a turn cites a turn that is not live any more.         *)
(***************************************************************************)
EXTENDS ThreadEvents, TLAPS

\* A browser only moves forward from the point it arrived with.
ResumeForward == \A c \in Clients : base[c] <= resume[c]

\* The live turn was opened by the start-turn route.
LiveWasStarted == activeTurn = NoTurn \/ activeTurn \in started

\* A retained event that ended a turn cites a started turn that is over.
EndedIsOver ==
    \A i \in DOMAIN events :
        (events[i].type \in TerminalTypes /\ ~events[i].ignored)
        => /\ events[i].turn \in started
           /\ events[i].turn # activeTurn

IInv ==
    /\ TypeOK
    /\ WindowIsTheTail
    /\ RenderedWithoutGap
    /\ ServedIsNeverAhead
    /\ LiveOrEndedOnce
    /\ NothingCountsAfterTheEnd
    /\ ResumeForward
    /\ LiveWasStarted
    /\ EndedIsOver

-----------------------------------------------------------------------------
\* What deque(maxlen=Retention).append does to the window: the newcomer is last, and
\* everything else keeps its order, shifted by one when the oldest was dropped.
LEMMA PushWindow ==
    ASSUME NEW S, events \in Seq(S), Len(events) \in 1 .. Retention, NEW e \in S
    PROVE  LET drop == IF Len(events) < Retention THEN 0 ELSE 1
           IN  /\ Push(e) \in Seq(S)
               /\ Len(Push(e)) = Len(events) + 1 - drop
               /\ Len(Push(e)) \in 1 .. Retention
               /\ Push(e)[Len(Push(e))] = e
               /\ \A i \in 1 .. Len(Push(e)) - 1 :
                     /\ i + drop \in 1 .. Len(events)
                     /\ Push(e)[i] = events[i + drop]
<1>0. Retention \in Nat \ {0}
  BY RetentionAssumption
<1> DEFINE grown == Append(events, e)
<1>1. /\ grown \in Seq(S)
      /\ Len(grown) = Len(events) + 1
      /\ grown[Len(events) + 1] = e
      /\ \A i \in 1 .. Len(events) : grown[i] = events[i]
  OBVIOUS
<1>2. CASE Len(events) < Retention
  <2>1. Push(e) = grown
    BY <1>2 DEF Push
  <2> QED
    BY <1>0, <1>1, <1>2, <2>1
<1>3. CASE ~(Len(events) < Retention)
  <2>1. Push(e) = Tail(grown)
    BY <1>3 DEF Push
  <2>2. /\ Tail(grown) \in Seq(S)
        /\ Len(Tail(grown)) = Len(events)
        /\ \A i \in 1 .. Len(events) : Tail(grown)[i] = grown[i + 1]
    BY <1>1
  <2> QED
    BY <1>0, <1>1, <1>3, <2>1, <2>2
<1> QED
  BY <1>2, <1>3

\* What a servable resume point is answered with: exactly the sequences after it.
LEMMA ReplayIsExact ==
    ASSUME TypeOK, WindowIsTheTail, NEW last \in Nat, Servable(last)
    PROVE  ReplayAfter(last) = (last + 1) .. Latest
<1>1. /\ Len(events) \in Nat \ {0}
      /\ DOMAIN events = 1 .. Len(events)
      /\ nextSequence \in Nat
      /\ events # <<>>
  BY RetentionAssumption DEF TypeOK
<1>2. \A i \in 1 .. Len(events) :
        events[i].sequence = nextSequence - 1 - Len(events) + i
  BY <1>1 DEF WindowIsTheTail
<1>3. /\ last <= nextSequence - 1
      /\ last >= nextSequence - 1 - Len(events)
  BY <1>1, <1>2 DEF Servable, Latest
<1>4. ASSUME NEW s \in ReplayAfter(last)
      PROVE  s \in (last + 1) .. Latest
  <2>1. PICK i \in 1 .. Len(events) : events[i].sequence > last /\ s = events[i].sequence
    BY <1>1 DEF ReplayAfter
  <2> QED
    BY <1>1, <1>2, <2>1 DEF Latest
<1>5. ASSUME NEW s \in (last + 1) .. Latest
      PROVE  s \in ReplayAfter(last)
  <2> DEFINE i == s - (nextSequence - 1 - Len(events))
  <2>1. i \in 1 .. Len(events)
    BY <1>1, <1>3 DEF Latest
  <2>2. events[i].sequence = s
    BY <1>1, <1>2, <2>1
  <2> HIDE DEF i
  <2> QED
    BY <1>1, <2>1, <2>2 DEF ReplayAfter
<1> QED
  BY <1>4, <1>5

\* Recording one event of a started (or just starting) turn keeps the invariant.
LEMMA RecordKeeps ==
    ASSUME IInv, NEW type \in EventTypes, NEW u \in Turns, Record(type, u),
           \/ type = "turn_started" /\ u \notin started /\ activeTurn = NoTurn
           \/ type \in ProducedTypes /\ u \in started
    PROVE  IInv'
<1> DEFINE ignored == IsIgnored(type, u)
           e == [sequence |-> nextSequence, type |-> type, turn |-> u, ignored |-> ignored]
           drop == IF Len(events) < Retention THEN 0 ELSE 1
<1>1. /\ events' = Push(e)
      /\ nextSequence' = nextSequence + 1
      /\ activeTurn' = IF ignored THEN activeTurn ELSE TurnAfter(type, u)
      /\ started' = IF type = "turn_started" THEN started \cup {u} ELSE started
      /\ endings' = IF type \in TerminalTypes /\ ~ignored
                      THEN [endings EXCEPT ![u] = @ + 1] ELSE endings
      /\ UNCHANGED clientVars
  BY DEF Record
<1>2. e \in Event
  BY DEF IInv, TypeOK, Event, IsIgnored
<1>3. /\ events \in Seq(Event)
      /\ Len(events) \in 1 .. Retention
      /\ Retention \in Nat
      /\ nextSequence \in Nat \ {0, 1}
  BY RetentionAssumption DEF IInv, TypeOK
<1>4. /\ events' \in Seq(Event)
      /\ Len(events') = Len(events) + 1 - drop
      /\ Len(events') \in 1 .. Retention
      /\ events'[Len(events')] = e
      /\ \A i \in 1 .. Len(events') - 1 :
            i + drop \in 1 .. Len(events) /\ events'[i] = events[i + drop]
  <2> HIDE DEF e
  <2> QED
    BY <1>1, <1>2, <1>3, PushWindow
<1>e. /\ e.sequence = nextSequence /\ e.type = type
      /\ e.turn = u /\ e.ignored = ignored
  OBVIOUS
<1>d. /\ drop \in {0, 1}
      /\ Len(events) \in Nat /\ Len(events') \in Nat
      /\ DOMAIN events = 1 .. Len(events) /\ DOMAIN events' = 1 .. Len(events')
  BY <1>3, <1>4
<1> HIDE DEF e, drop
<1>5. \/ activeTurn' = activeTurn
      \/ type = "turn_started" /\ activeTurn' = u
      \/ type \in TerminalTypes /\ ~ignored /\ u = activeTurn /\ activeTurn' = NoTurn
  BY <1>1 DEF TurnAfter, IsIgnored, TerminalTypes, ProducedTypes
<1>6. TypeOK'
  <2>1. activeTurn' \in Turns \cup {NoTurn}
    BY <1>5 DEF IInv, TypeOK
  <2>2. endings' \in [Turns -> Nat]
    BY <1>1 DEF IInv, TypeOK
  <2>3. started' \subseteq Turns
    BY <1>1 DEF IInv, TypeOK
  <2>4. nextSequence' \in Nat \ {0, 1}
    BY <1>1, <1>3
  <2> QED
    BY <1>1, <1>4, <2>1, <2>2, <2>3, <2>4 DEF IInv, TypeOK, clientVars
<1>7. WindowIsTheTail'
  <2> SUFFICES ASSUME NEW i \in 1 .. Len(events')
               PROVE  events'[i].sequence = nextSequence' - 1 - Len(events') + i
    BY <1>d DEF WindowIsTheTail
  <2>1. CASE i = Len(events')
    BY <1>1, <1>3, <1>4, <1>d, <1>e, <2>1
  <2>2. CASE i # Len(events')
    <3>0. i \in 1 .. Len(events') - 1
      BY <1>3, <1>4, <2>2
    <3>1. /\ i + drop \in 1 .. Len(events)
          /\ events'[i] = events[i + drop]
      BY <1>4, <3>0
    <3>2. events[i + drop].sequence = nextSequence - 1 - Len(events) + (i + drop)
      BY <1>d, <3>1 DEF IInv, WindowIsTheTail
    <3> QED
      BY <1>1, <1>3, <1>4, <1>d, <3>1, <3>2
  <2> QED
    BY <2>1, <2>2
<1>8. RenderedWithoutGap' /\ ResumeForward'
  BY <1>1 DEF IInv, RenderedWithoutGap, ResumeForward, clientVars
<1>9. ServedIsNeverAhead'
  BY <1>1, <1>3 DEF IInv, TypeOK, ServedIsNeverAhead, Latest, clientVars
<1>10. LiveOrEndedOnce' /\ LiveWasStarted'
  <2>1. CASE type = "turn_started"
    <3>1. /\ activeTurn' = u /\ started' = started \cup {u} /\ endings' = endings
          /\ u \notin started /\ activeTurn = NoTurn
      BY <1>1, <2>1 DEF IsIgnored, TurnAfter, TerminalTypes, ProducedTypes
    <3> QED
      BY <3>1, TurnAssumption DEF IInv, TypeOK, LiveOrEndedOnce, LiveWasStarted
  <2>2. CASE type \in TerminalTypes /\ ~ignored
    <3>1. /\ u \in started /\ u = activeTurn /\ activeTurn' = NoTurn
          /\ started' = started /\ endings' = [endings EXCEPT ![u] = @ + 1]
      BY <1>1, <2>2, TurnAssumption DEF IsIgnored, TurnAfter, TerminalTypes, ProducedTypes
    <3>2. endings[u] = 0
      BY <3>1 DEF IInv, LiveOrEndedOnce
    <3> QED
      BY <3>1, <3>2, TurnAssumption DEF IInv, TypeOK, LiveOrEndedOnce, LiveWasStarted
  <2>3. CASE type # "turn_started" /\ ~(type \in TerminalTypes /\ ~ignored)
    BY <1>1, <1>5, <2>3 DEF IInv, LiveOrEndedOnce, LiveWasStarted
  <2> QED
    BY <2>1, <2>2, <2>3
<1>11. EndedIsOver'
  <2> SUFFICES ASSUME NEW i \in 1 .. Len(events'),
                      events'[i].type \in TerminalTypes, ~events'[i].ignored
               PROVE  events'[i].turn \in started' /\ events'[i].turn # activeTurn'
    BY <1>d DEF EndedIsOver
  <2>1. CASE i = Len(events')
    <3>1. type \in TerminalTypes /\ ~ignored /\ events'[i].turn = u
      BY <1>4, <1>e, <2>1
    <3>2. u \in started /\ activeTurn' = NoTurn /\ started' = started
      BY <1>1, <3>1, TurnAssumption DEF IsIgnored, TurnAfter, TerminalTypes, ProducedTypes
    <3> QED
      BY <3>1, <3>2, TurnAssumption
  <2>2. CASE i # Len(events')
    <3>1. i + drop \in 1 .. Len(events) /\ events'[i] = events[i + drop]
      BY <1>4, <1>d, <2>2
    <3>2. /\ events'[i].turn \in started
          /\ events'[i].turn # activeTurn
      BY <1>d, <3>1 DEF IInv, EndedIsOver
    <3>3. events'[i].turn \in Turns
      BY <3>2 DEF IInv, TypeOK
    <3> QED
      BY <1>1, <1>5, <3>2, <3>3, TurnAssumption DEF ProducedTypes, TerminalTypes
  <2> QED
    BY <2>1, <2>2
<1>12. NothingCountsAfterTheEnd'
  <2> SUFFICES ASSUME NEW i \in 1 .. Len(events'), NEW j \in 1 .. Len(events'), i < j,
                      events'[i].type \in TerminalTypes, ~events'[i].ignored,
                      events'[j].turn = events'[i].turn
               PROVE  events'[j].ignored
    BY <1>d DEF NothingCountsAfterTheEnd
  <2>1. /\ i + drop \in 1 .. Len(events)
        /\ events'[i] = events[i + drop]
    BY <1>4, <1>d
  <2>2. CASE j = Len(events')
    <3>1. u \in started /\ u # activeTurn
      BY <1>4, <1>d, <1>e, <2>1, <2>2 DEF IInv, EndedIsOver
    <3>2. ignored
      BY <3>1, TurnAssumption DEF IsIgnored, ProducedTypes, TerminalTypes
    <3> QED
      BY <1>4, <1>e, <2>2, <3>2
  <2>3. CASE j # Len(events')
    <3>1. j + drop \in 1 .. Len(events) /\ events'[j] = events[j + drop]
      BY <1>4, <1>d, <2>3
    <3>2. i + drop < j + drop
      BY <1>d
    <3> QED
      BY <1>d, <2>1, <3>1, <3>2 DEF IInv, NothingCountsAfterTheEnd
  <2> QED
    BY <2>2, <2>3
<1> QED
  BY <1>6, <1>7, <1>8, <1>9, <1>10, <1>11, <1>12 DEF IInv

\* A browser's step leaves the log alone; what is left to show is about that browser.
LEMMA ClientKeeps ==
    ASSUME IInv, UNCHANGED logVars,
           NEW c \in Clients, NEW last \in Nat, NEW from \in Nat,
           from <= last,
           connection'[c] \in {"open", "served", "refused"},
           ServedIsNeverAhead',
           resume' = [resume EXCEPT ![c] = last],
           base' = [base EXCEPT ![c] = from],
           rendered' = [rendered EXCEPT ![c] = (from + 1) .. last],
           connection' = [connection EXCEPT ![c] = connection'[c]]
    PROVE  IInv'
<1>1. (from + 1) .. last \in SUBSET (Nat \ {0})
  OBVIOUS
<1>2. TypeOK'
  BY <1>1 DEF IInv, TypeOK, logVars
<1>3. RenderedWithoutGap' /\ ResumeForward'
  BY DEF IInv, TypeOK, RenderedWithoutGap, ResumeForward
<1>4. /\ WindowIsTheTail' /\ LiveOrEndedOnce' /\ NothingCountsAfterTheEnd'
      /\ LiveWasStarted' /\ EndedIsOver'
  BY DEF IInv, WindowIsTheTail, LiveOrEndedOnce, NothingCountsAfterTheEnd,
         LiveWasStarted, EndedIsOver, logVars
<1> QED
  BY <1>2, <1>3, <1>4 DEF IInv

-----------------------------------------------------------------------------
LEMMA InitIInv == Init => IInv
<1> SUFFICES ASSUME Init PROVE IInv
  OBVIOUS
<1> DEFINE opening == [sequence |-> 1, type |-> "thread_started",
                       turn |-> NoTurn, ignored |-> FALSE]
<1>1. /\ events = <<opening>> /\ nextSequence = 2
      /\ activeTurn = NoTurn /\ started = {}
  BY DEF Init
<1>2. opening \in Event
  BY DEF Event, EventTypes
<1>3. /\ events \in Seq(Event) /\ Len(events) = 1 /\ DOMAIN events = {1}
      /\ events[1] = opening
  <2> HIDE DEF opening
  <2> QED
    BY <1>1, <1>2
<1>4. TypeOK
  BY <1>1, <1>3, RetentionAssumption DEF Init, TypeOK
<1>5. WindowIsTheTail
  BY <1>1, <1>3 DEF WindowIsTheTail
<1>6. NothingCountsAfterTheEnd /\ EndedIsOver
  BY <1>1, <1>3 DEF NothingCountsAfterTheEnd, EndedIsOver, TerminalTypes
<1>7. RenderedWithoutGap /\ ResumeForward /\ ServedIsNeverAhead
  BY DEF Init, RenderedWithoutGap, ResumeForward, ServedIsNeverAhead
<1>8. LiveOrEndedOnce /\ LiveWasStarted
  BY DEF Init, LiveOrEndedOnce, LiveWasStarted
<1> QED
  BY <1>4, <1>5, <1>6, <1>7, <1>8 DEF IInv

LEMMA StepIInv == IInv /\ [Next]_vars => IInv'
<1> SUFFICES ASSUME IInv, [Next]_vars PROVE IInv'
  OBVIOUS
<1>0. TypeOK /\ RenderedWithoutGap /\ ResumeForward /\ ServedIsNeverAhead
  BY DEF IInv
<1>1. ASSUME NEW u \in Turns, StartTurn(u) PROVE IInv'
  <2>1. Record("turn_started", u) /\ u \notin started /\ activeTurn = NoTurn
    BY <1>1 DEF StartTurn
  <2> QED
    BY <2>1, RecordKeeps DEF EventTypes
<1>2. ASSUME NEW u \in Turns, NEW type \in ProducedTypes, Produce(type, u) PROVE IInv'
  <2>1. Record(type, u) /\ u \in started
    BY <1>2 DEF Produce
  <2> QED
    BY <2>1, RecordKeeps DEF EventTypes
<1>3. ASSUME NEW u \in Turns, Interrupt(u) PROVE IInv'
  <2>1. Record("turn_failed", u) /\ u = activeTurn
    BY <1>3 DEF Interrupt
  <2>2. u \in started
    BY <2>1, TurnAssumption DEF IInv, LiveWasStarted
  <2> QED
    BY <2>1, <2>2, RecordKeeps DEF EventTypes, ProducedTypes, TerminalTypes
<1>4. ASSUME NEW c \in Clients, NEW k \in 0 .. MaxSequence, Open(c, k) PROVE IInv'
  <2>0. k \in Nat
    BY BoundAssumption
  <2>1. (k + 1) .. k = {}
    BY <2>0
  <2>2. /\ resume' = [resume EXCEPT ![c] = k]
        /\ base' = [base EXCEPT ![c] = k]
        /\ rendered' = [rendered EXCEPT ![c] = (k + 1) .. k]
        /\ connection' = [connection EXCEPT ![c] = connection'[c]]
        /\ connection'[c] = "open"
        /\ UNCHANGED logVars
    BY <1>0, <1>4, <2>1 DEF Open, TypeOK
  <2>3. ServedIsNeverAhead'
    BY <1>0, <2>2 DEF ServedIsNeverAhead, Latest, TypeOK, logVars
  <2>4. PICK from \in Nat, last \in Nat : from = k /\ last = k
    BY <2>0
  <2>5. /\ resume' = [resume EXCEPT ![c] = last]
        /\ base' = [base EXCEPT ![c] = from]
        /\ rendered' = [rendered EXCEPT ![c] = (from + 1) .. last]
    BY <2>2, <2>4
  <2>6. from <= last
    BY <2>0, <2>4
  <2> QED
    BY <2>2, <2>3, <2>5, <2>6, ClientKeeps
<1>5. ASSUME NEW c \in Clients, Poll(c) PROVE IInv'
  <2>1. /\ resume[c] \in Nat /\ base[c] \in Nat /\ base[c] <= resume[c]
        /\ rendered[c] = (base[c] + 1) .. resume[c]
    BY <1>0 DEF TypeOK, RenderedWithoutGap, ResumeForward
  <2>2. ReplayAfter(resume[c]) = (resume[c] + 1) .. Latest
    BY <1>5, <2>1, ReplayIsExact DEF IInv, Poll
  <2>3. Latest \in Nat /\ resume[c] <= Latest
    BY <1>0, <1>5 DEF Poll, Servable, Latest, TypeOK
  <2>4. PICK upto \in {resume[c]} \cup ReplayAfter(resume[c]) :
          /\ rendered' = [rendered EXCEPT
                            ![c] = @ \cup {s \in ReplayAfter(resume[c]) : s <= upto}]
          /\ resume' = [resume EXCEPT ![c] = upto]
    BY <1>5 DEF Poll
  <2>5. upto \in Nat /\ resume[c] <= upto /\ upto <= Latest
    BY <2>1, <2>2, <2>3
  <2>6. rendered[c] \cup {s \in ReplayAfter(resume[c]) : s <= upto}
          = (base[c] + 1) .. upto
    BY <2>1, <2>2, <2>3, <2>5
  <2>7. rendered' = [rendered EXCEPT ![c] = (base[c] + 1) .. upto]
    BY <2>4, <2>6
  <2>8. /\ base' = [base EXCEPT ![c] = base[c]]
        /\ connection' = [connection EXCEPT ![c] = connection'[c]]
        /\ connection'[c] = "served"
        /\ UNCHANGED logVars
    BY <1>0, <1>5 DEF Poll, TypeOK
  <2>9. PICK from \in Nat, last \in Nat : from = base[c] /\ last = upto
    BY <2>1, <2>5
  <2>10. /\ resume' = [resume EXCEPT ![c] = last]
         /\ base' = [base EXCEPT ![c] = from]
         /\ rendered' = [rendered EXCEPT ![c] = (from + 1) .. last]
         /\ from <= last /\ last <= Latest
    <3>1. resume' = [resume EXCEPT ![c] = last]
      BY <2>4, <2>9
    <3>2. base' = [base EXCEPT ![c] = from]
      BY <2>8, <2>9
    <3>3. rendered' = [rendered EXCEPT ![c] = (from + 1) .. last]
      BY <2>7, <2>9
    <3>4. from <= last /\ last <= Latest
      BY <2>1, <2>5, <2>9
    <3> QED
      BY <3>1, <3>2, <3>3, <3>4
  <2>11. ServedIsNeverAhead'
    BY <1>0, <2>3, <2>8, <2>10 DEF ServedIsNeverAhead, Latest, TypeOK, logVars
  <2> QED
    BY <2>8, <2>10, <2>11, ClientKeeps
<1>6. ASSUME NEW c \in Clients, PollRefused(c) PROVE IInv'
  <2>1. /\ resume[c] \in Nat /\ base[c] \in Nat /\ base[c] <= resume[c]
        /\ rendered[c] = (base[c] + 1) .. resume[c]
    BY <1>0 DEF TypeOK, RenderedWithoutGap, ResumeForward
  <2>2. /\ resume' = [resume EXCEPT ![c] = resume[c]]
        /\ base' = [base EXCEPT ![c] = base[c]]
        /\ rendered' = [rendered EXCEPT ![c] = rendered[c]]
        /\ connection' = [connection EXCEPT ![c] = connection'[c]]
        /\ connection'[c] = "refused"
        /\ UNCHANGED logVars
    BY <1>0, <1>6 DEF PollRefused, TypeOK
  <2>3. rendered' = [rendered EXCEPT ![c] = (base[c] + 1) .. resume[c]]
    BY <2>1, <2>2
  <2>4. PICK from \in Nat, last \in Nat : from = base[c] /\ last = resume[c]
    BY <2>1
  <2>5. ServedIsNeverAhead'
    BY <1>0, <2>2 DEF ServedIsNeverAhead, Latest, TypeOK, logVars
  <2> QED
    BY <2>1, <2>2, <2>3, <2>4, <2>5, ClientKeeps
<1>7. CASE UNCHANGED vars
  <2>1. UNCHANGED logVars /\ UNCHANGED clientVars
    BY <1>7 DEF vars, logVars, clientVars
  <2> QED
    BY <2>1 DEF IInv, TypeOK, WindowIsTheTail, RenderedWithoutGap, ServedIsNeverAhead,
                Latest, LiveOrEndedOnce, NothingCountsAfterTheEnd, ResumeForward,
                LiveWasStarted, EndedIsOver, logVars, clientVars
<1> QED
  BY <1>1, <1>2, <1>3, <1>4, <1>5, <1>6, <1>7 DEF Next

LEMMA InvariantIInv == Spec => []IInv
<1> QED
  BY InitIInv, StepIInv, PTL DEF Spec

-----------------------------------------------------------------------------
\* The variables keep their types and the window its bound, for every retention
\* (deque maxlen in ThreadEvents.append).
THEOREM TypeCorrect == Spec => []TypeOK
<1>1. IInv => TypeOK
  BY DEF IInv
<1> QED
  BY <1>1, InvariantIInv, PTL

\* What is retained is always the unbroken tail of what was numbered.
THEOREM WindowTail == Spec => []WindowIsTheTail
<1>1. IInv => WindowIsTheTail
  BY DEF IInv
<1> QED
  BY <1>1, InvariantIInv, PTL

\* No browser ever renders a stream with a gap, whatever is cut or evicted
\* (replay_after and the two refusals before it).
THEOREM NoGap == Spec => []RenderedWithoutGap
<1>1. IInv => RenderedWithoutGap
  BY DEF IInv
<1> QED
  BY <1>1, InvariantIInv, PTL

\* No browser that is answered is ahead of the thread.
THEOREM NeverAhead == Spec => []ServedIsNeverAhead
<1>1. IInv => ServedIsNeverAhead
  BY DEF IInv
<1> QED
  BY <1>1, InvariantIInv, PTL

\* Every started turn is the live one or was ended exactly once (append, interrupt).
THEOREM EndsOnce == Spec => []LiveOrEndedOnce
<1>1. IInv => LiveOrEndedOnce
  BY DEF IInv
<1> QED
  BY <1>1, InvariantIInv, PTL

\* Late events of an ended turn never count (_is_ignored).
THEOREM LateEventsIgnored == Spec => []NothingCountsAfterTheEnd
<1>1. IInv => NothingCountsAfterTheEnd
  BY DEF IInv
<1> QED
  BY <1>1, InvariantIInv, PTL

-----------------------------------------------------------------------------
\* A browser is only refused when something it has not seen is gone, or when it is
\* ahead of the thread (_refuse_unservable_resume).
THEOREM RefusalIsHonest == Spec => RefusedOnlyWhenLost
<1> DEFINE Honest ==
      \A c \in Clients :
          (connection[c] # "refused" /\ connection'[c] = "refused")
          => \/ resume[c] > Latest
             \/ \E s \in (resume[c] + 1) .. Latest :
                   \A i \in DOMAIN events : events[i].sequence # s
<1>1. ASSUME IInv, [Next]_vars PROVE [Honest]_vars
  <2>0. TypeOK /\ WindowIsTheTail
    BY <1>1 DEF IInv
  <2> SUFFICES ASSUME NEW c \in Clients,
                      connection[c] # "refused", connection'[c] = "refused"
               PROVE  \/ resume[c] > Latest
                      \/ \E s \in (resume[c] + 1) .. Latest :
                            \A i \in DOMAIN events : events[i].sequence # s
    OBVIOUS
  <2>1. PollRefused(c)
    <3>1. CASE UNCHANGED clientVars
      BY <3>1 DEF clientVars
    <3>2. ASSUME NEW d \in Clients, NEW k \in 0 .. MaxSequence, Open(d, k)
          PROVE  FALSE
      BY <2>0, <3>2 DEF Open, TypeOK
    <3>3. ASSUME NEW d \in Clients, Poll(d) PROVE FALSE
      BY <2>0, <3>3 DEF Poll, TypeOK
    <3>4. ASSUME NEW d \in Clients, PollRefused(d) PROVE d = c
      BY <2>0, <3>4 DEF PollRefused, TypeOK
    <3>5. ASSUME NEW u \in Turns, NEW type \in EventTypes, Record(type, u)
          PROVE  UNCHANGED clientVars
      BY <3>5 DEF Record
    <3> QED
      BY <1>1, <3>1, <3>2, <3>3, <3>4, <3>5
      DEF Next, vars, clientVars, StartTurn, Produce, Interrupt, EventTypes,
          ProducedTypes, TerminalTypes
  <2>2. /\ resume[c] \in Nat /\ Latest \in Nat /\ Latest = nextSequence - 1
        /\ Len(events) \in Nat \ {0} /\ DOMAIN events = 1 .. Len(events)
        /\ events # <<>>
        /\ nextSequence \in Nat
    BY <2>0, RetentionAssumption DEF TypeOK, Latest
  <2>3. \A i \in DOMAIN events :
          events[i].sequence = nextSequence - 1 - Len(events) + i
    BY <2>0 DEF WindowIsTheTail
  <2>4. resume[c] > Latest \/ resume[c] < events[1].sequence - 1
    BY <2>1, <2>2, <2>3 DEF PollRefused, Servable
  <2>5. CASE resume[c] < events[1].sequence - 1 /\ ~(resume[c] > Latest)
    <3>1. resume[c] + 1 \in (resume[c] + 1) .. Latest
      BY <2>2, <2>3, <2>5
    <3>2. \A i \in DOMAIN events : events[i].sequence # resume[c] + 1
      BY <2>2, <2>3, <2>5
    <3> QED
      BY <3>1, <3>2
  <2> QED
    BY <2>4, <2>5
<1>2. (IInv /\ [Next]_vars) => [Honest]_vars
  BY <1>1
<1>3. Spec => [][Honest]_vars
  BY <1>2, InvariantIInv, PTL DEF Spec
<1> QED
  BY <1>3 DEF RefusedOnlyWhenLost

\* Whatever the routes and the bridge append, the turns of a thread start one at a
\* time and end once: ThreadEvents implements TurnLifecycle.
THEOREM ImplementsLifecycle == Spec => RefinesLifecycle
<1> DEFINE phase == [u \in Turns |-> IF u = activeTurn THEN "live"
                                     ELSE IF u \in started THEN "ended" ELSE "new"]
<1>1. Init => Lifecycle!Init
  BY TurnAssumption DEF Init, Lifecycle!Init
<1>2. ASSUME IInv, [Next]_vars PROVE [Lifecycle!Next]_phase
  <2>0. /\ activeTurn \in Turns \cup {NoTurn} /\ started \subseteq Turns
        /\ LiveWasStarted
    BY <1>2 DEF IInv, TypeOK
  <2>1. ASSUME NEW u \in Turns, StartTurn(u) PROVE Lifecycle!Start(u)
    <3>1. /\ u \notin started /\ activeTurn = NoTurn
          /\ activeTurn' = u /\ started' = started \cup {u}
      BY <2>1 DEF StartTurn, Record, IsIgnored, TurnAfter
    <3>2. phase' = [phase EXCEPT ![u] = "live"]
      BY <3>1, TurnAssumption
    <3> QED
      BY <3>1, <3>2, TurnAssumption DEF Lifecycle!Start
  <2>2. ASSUME NEW u \in Turns, NEW type \in ProducedTypes, u \in started,
               Record(type, u)
        PROVE  Lifecycle!End(u) \/ phase' = phase
    <3>1. started' = started /\ type # "turn_started"
      BY <2>2 DEF Record, ProducedTypes, TerminalTypes
    <3>2. activeTurn' = activeTurn \/ (u = activeTurn /\ activeTurn' = NoTurn)
      BY <2>2, <3>1 DEF Record, IsIgnored, TurnAfter
    <3>3. CASE activeTurn' = activeTurn
      BY <3>1, <3>3
    <3>4. CASE u = activeTurn /\ activeTurn' = NoTurn
      <4>1. phase[u] = "live"
        BY <3>4
      <4>2. phase' = [phase EXCEPT ![u] = "ended"]
        BY <2>2, <3>1, <3>4, TurnAssumption
      <4> QED
        BY <4>1, <4>2 DEF Lifecycle!End
    <3> QED
      BY <3>2, <3>3, <3>4
  <2>3. ASSUME NEW u \in Turns, Interrupt(u)
        PROVE  Lifecycle!End(u) \/ phase' = phase
    <3>1. u \in started /\ Record("turn_failed", u) /\ "turn_failed" \in ProducedTypes
      BY <2>0, <2>3, TurnAssumption
      DEF Interrupt, LiveWasStarted, ProducedTypes, TerminalTypes
    <3> QED
      BY <2>2, <3>1
  <2>4. CASE UNCHANGED <<activeTurn, started>>
    BY <2>4
  <2>5. ASSUME NEW c \in Clients,
               \/ \E k \in 0 .. MaxSequence : Open(c, k)
               \/ Poll(c)
               \/ PollRefused(c)
        PROVE  UNCHANGED <<activeTurn, started>>
    BY <2>5 DEF Open, Poll, PollRefused, logVars
  <2>6. CASE UNCHANGED vars
    BY <2>6 DEF vars
  <2> HIDE DEF phase
  <2> QED
    BY <1>2, <2>1, <2>2, <2>3, <2>4, <2>5, <2>6 DEF Next, Produce, Lifecycle!Next
<1>3. (IInv /\ [Next]_vars) => [Lifecycle!Next]_phase
  BY <1>2
<1>4. Spec => Lifecycle!Spec
  BY <1>1, <1>3, InvariantIInv, PTL DEF Spec, Lifecycle!Spec
<1> QED
  BY <1>4 DEF RefinesLifecycle
=============================================================================
