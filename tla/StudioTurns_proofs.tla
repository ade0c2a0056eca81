------------------------ MODULE StudioTurns_proofs -------------------------
(***************************************************************************)
(* Theorems about StudioTurns, for every number of tabs, turns and threads.*)
(*                                                                         *)
(* No single property is inductive: that the slot holds the live turn      *)
(* needs to know which log a turn was started on and that an evicted log   *)
(* never comes back; that a live turn is never entered twice needs to know *)
(* that only the reader runs the generator and that nobody closes a turn   *)
(* that is still parked.  IInv below is the conjunction.                   *)
(***************************************************************************)
EXTENDS StudioTurns, FiniteSetTheorems, TLAPS

\* A turn is parked while some slot holds it, pumped while some poll is inside it.
Parked(u) == \E t \in Logs : slot[t] = u
Pumped(u) == \E b \in Tabs : pumping[b] = u

\* Types, with the finishing threads merely counted.
Shape ==
    /\ phase \in {"serving", "stopping", "exited"}
    /\ store \subseteq Logs
    /\ nextLog \in 1 .. (MaxLogs + 1)
    /\ threadOf \in [Logs -> 0 .. MaxLogs]
    /\ active \in [Logs -> Turns \cup {NoTurn}]
    /\ slot \in [Logs -> Turns \cup {NoTurn}]
    /\ home \in [Turns -> 0 .. MaxLogs]
    /\ unparked \subseteq Turns
    /\ stale \subseteq Turns
    /\ gen \in [Turns -> {"none", "fresh", "suspended", "running", "closing", "closed"}]
    /\ yielded \in [Turns -> Nat]
    /\ reader \in [Turns -> Posted \cup {"none", "starting", "reading"}]
    /\ joiners \in [Turns -> Nat]
    /\ closers \in [Turns -> Nat]
    /\ page \in [Tabs -> 0 .. MaxLogs]
    /\ pumping \in [Tabs -> Turns \cup {NoTurn}]
    /\ pumpLog \in [Tabs -> 0 .. MaxLogs]
    /\ awaited \subseteq Turns

\* The store, and the thread id of every log created so far.
StoreInv ==
    /\ StoreKeepsTheNewest
    /\ \A l \in Logs : l < nextLog => threadOf[l] \in 1 .. l

\* Which log a turn belongs to.
HomeInv ==
    /\ \A u \in Turns : home[u] < nextLog
    /\ \A l \in Logs : active[l] # NoTurn => home[active[l]] = l
    /\ \A t \in Logs : slot[t] # NoTurn =>
          home[slot[t]] \in Logs /\ threadOf[home[slot[t]]] = t
    /\ \A b \in Tabs : pumping[b] # NoTurn =>
          /\ home[pumping[b]] \in Logs
          /\ pumpLog[b] \in Logs /\ pumpLog[b] < nextLog
          /\ threadOf[pumpLog[b]] = threadOf[home[pumping[b]]]
          /\ home[pumping[b]] \in store => pumpLog[b] = home[pumping[b]]

\* A stored thread's live turn is its parked turn, and conversely.
Pairs(act, slt) ==
    /\ \A l \in store : act[l] # NoTurn =>
          slt[threadOf[l]] = act[l] \/ act[l] \in unparked
    /\ \A t \in Logs : (slt[t] # NoTurn /\ home[slt[t]] \in store) =>
          act[home[slt[t]]] = slt[t]

SlotInv == phase = "serving" => Pairs(active, slot)

\* Who finishes a turn: nobody while it is parked, one more after that while it is
\* pumped, two at most; and one poll at most is inside a turn.
FinishInv ==
    /\ \A u \in Turns : Parked(u) => joiners[u] = 0 /\ closers[u] = 0
    /\ \A u \in Turns : Pumped(u) => joiners[u] + closers[u] <= 1
    /\ \A u \in Turns : joiners[u] + closers[u] <= 2
    /\ \A b, c \in Tabs : pumping[b] # NoTurn /\ pumping[b] = pumping[c] => b = c

\* What a turn never started or never parked has: nothing.
IdleInv ==
    /\ \A u \in Turns : home[u] = 0 => u \notin unparked /\ gen[u] = "none"
    /\ \A u \in Turns : gen[u] = "none" =>
          /\ ~Parked(u) /\ ~Pumped(u)
          /\ reader[u] = "none" /\ joiners[u] = 0 /\ closers[u] = 0
    /\ \A u \in unparked : gen[u] = "none"

\* Only the reader runs the generator, and a parked turn is not being closed.
GenInv ==
    /\ \A u \in Turns : gen[u] = "running" <=> reader[u] = "reading"
    /\ \A u \in Turns : Parked(u) => gen[u] # "closing" /\ reader[u] # "reentered"

IInv == Shape /\ StoreInv /\ HomeInv /\ SlotInv /\ FinishInv /\ IdleInv /\ GenInv


-----------------------------------------------------------------------------
(* The store                                                               *)

\* What asking the store for a thread may change: at most one log is added, the newest,
\* and no log that was out of the store comes back (ThreadStore.thread).
StoreGrows ==
    /\ store' \subseteq Logs
    /\ nextLog' \in 1 .. (MaxLogs + 1)
    /\ threadOf' \in [Logs -> 0 .. MaxLogs]
    /\ nextLog <= nextLog'
    /\ \A l \in Logs : l < nextLog => threadOf'[l] = threadOf[l]
    /\ \A l \in store' : l < nextLog => l \in store

\* Making room in a window of the newest logs leaves the newest but one fewer.
LEMMA RoomIsMade ==
    ASSUME Shape, StoreInv, nextLog \in Logs
    PROVE  MakeRoom \cup {nextLog} = {l \in 1 .. nextLog : l >= nextLog + 1 - MaxThreads}
<1>1. /\ MaxThreads \in Nat \ {0} /\ nextLog \in Nat \ {0} /\ MaxLogs \in Nat
      /\ store = {l \in 1 .. (nextLog - 1) : l >= nextLog - MaxThreads}
    BY StoreAssumption DEF Shape, StoreInv, StoreKeepsTheNewest, Logs
<1>2. CASE nextLog - 1 < MaxThreads
    <2>1. store = 1 .. (nextLog - 1)
        <3>1. \A l \in 1 .. (nextLog - 1) : l >= nextLog - MaxThreads
            BY <1>1, <1>2
        <3> QED BY <3>1, <1>1
    <2>2. Cardinality(store) = nextLog - 1
        <3>1. Cardinality(1 .. (nextLog - 1)) =
                IF 1 > nextLog - 1 THEN 0 ELSE nextLog - 1 - 1 + 1
            BY FS_Interval, <1>1
        <3> QED BY <3>1, <2>1, <1>1
    <2>3. MakeRoom = store
        BY <2>2, <1>1, <1>2 DEF MakeRoom
    <2> QED BY <2>1, <2>3, <1>1, <1>2
<1>3. CASE nextLog - 1 >= MaxThreads
    <2>1. store = (nextLog - MaxThreads) .. (nextLog - 1)
        <3>1. ASSUME NEW l
              PROVE  l \in store <=> l \in (nextLog - MaxThreads) .. (nextLog - 1)
            <4>1. l \in store => l \in Int /\ l >= nextLog - MaxThreads /\ l <= nextLog - 1
                BY <1>1
            <4>2. l \in Int /\ l >= nextLog - MaxThreads /\ l <= nextLog - 1 => l \in store
                BY <1>1, <1>3
            <4> QED BY <4>1, <4>2, <1>1
        <3> QED BY <3>1
    <2>2. Cardinality(store) = MaxThreads
        <3>1. nextLog - MaxThreads \in Int /\ nextLog - 1 \in Int
            BY <1>1
        <3>2. Cardinality((nextLog - MaxThreads) .. (nextLog - 1)) =
                IF nextLog - MaxThreads > nextLog - 1 THEN 0
                ELSE (nextLog - 1) - (nextLog - MaxThreads) + 1
            BY FS_Interval, <3>1
        <3> QED BY <3>2, <2>1, <1>1
    <2>3. Oldest = nextLog - MaxThreads
        <3>1. /\ nextLog - MaxThreads \in store
              /\ \A m \in store : nextLog - MaxThreads <= m
            BY <2>1, <1>1
        <3>2. /\ Oldest \in store
              /\ \A m \in store : Oldest <= m
            BY <3>1 DEF Oldest
        <3>3. Oldest \in Int
            BY <3>2, <2>1
        <3> QED BY <3>1, <3>2, <3>3, <1>1
    <2>4. MakeRoom = store \ {nextLog - MaxThreads}
        BY <2>2, <2>3, <1>1 DEF MakeRoom
    <2> QED BY <2>1, <2>4, <1>1, <1>3
<1> QED BY <1>1, <1>2, <1>3

\* Asking for a thread that was named before, or for a fresh one, keeps StoreInv.
LEMMA AccessGrows ==
    ASSUME Shape, StoreInv, NEW t \in 1 .. nextLog, t \in Logs, Access(t)
    PROVE  StoreGrows /\ StoreInv'
<1> USE DEF Logs
<1>1. /\ MaxThreads \in Nat \ {0} /\ MaxLogs \in Nat \ {0} /\ nextLog \in Nat \ {0}
      /\ nextLog \in 1 .. (MaxLogs + 1)
      /\ threadOf \in [Logs -> 0 .. MaxLogs]
      /\ store \subseteq Logs
    BY StoreAssumption DEF Shape
<1>2. CASE Stored(t)
    <2>1. UNCHANGED threadVars
        BY <1>2 DEF Access
    <2> QED BY <2>1, <1>1 DEF StoreGrows, StoreInv, StoreKeepsTheNewest, threadVars
<1>3. CASE ~Stored(t)
    <2>1. /\ nextLog <= MaxLogs
          /\ store' = MakeRoom \cup {nextLog}
          /\ threadOf' = [threadOf EXCEPT ![nextLog] = t]
          /\ nextLog' = nextLog + 1
        BY <1>3 DEF Access
    <2>2. MakeRoom \cup {nextLog} = {l \in 1 .. nextLog : l >= nextLog + 1 - MaxThreads}
        <3>1. nextLog \in Logs
            BY <2>1, <1>1
        <3> QED BY RoomIsMade, <3>1, Zenon
    <2>3. store = {l \in 1 .. (nextLog - 1) : l >= nextLog - MaxThreads}
        BY DEF StoreInv, StoreKeepsTheNewest
    <2>4. store' = {l \in 1 .. (nextLog' - 1) : l >= nextLog' - MaxThreads}
        <3>1. store' = {l \in 1 .. nextLog : l >= nextLog + 1 - MaxThreads}
            BY <2>1, <2>2, Zenon
        <3>2. ASSUME NEW l
              PROVE  l \in store' <=> l \in 1 .. (nextLog' - 1) /\ l >= nextLog' - MaxThreads
            BY <3>1, <2>1, <1>1
        <3> QED BY <3>2
    <2>5. \A l \in Logs : threadOf'[l] = IF l = nextLog THEN t ELSE threadOf[l]
        BY <2>1, <1>1
    <2>6. \A l \in store' : l = nextLog \/ l \in store
        BY <2>1 DEF MakeRoom
    <2>7. \A l \in store : threadOf[l] # t
        BY <1>3 DEF Stored
    <2>8. \A l, m \in store' : threadOf'[l] = threadOf'[m] => l = m
        <3>1. store' \subseteq Logs
            BY <2>1, <2>2, <1>1
        <3> QED BY <3>1, <2>5, <2>6, <2>7, <1>1 DEF StoreInv, StoreKeepsTheNewest
    <2>9. \A l \in Logs : l < nextLog' => threadOf'[l] \in 1 .. l
        BY <2>1, <2>5, <1>1 DEF StoreInv
    <2>10. StoreGrows
        <3>1. store' \subseteq Logs
            BY <2>1, <2>2, <1>1
        <3>2. threadOf' \in [Logs -> 0 .. MaxLogs]
            BY <2>1, <1>1
        <3> QED BY <3>1, <3>2, <2>1, <2>5, <2>6, <1>1 DEF StoreGrows
    <2> QED BY <2>4, <2>8, <2>9, <2>10 DEF StoreInv, StoreKeepsTheNewest
<1> QED BY <1>2, <1>3

-----------------------------------------------------------------------------
(* The sweep and the replay that end every poll                            *)

\* The turns a sweep of the slots slt drops.
Swept(slt, T) == {slt[s] : s \in T}

\* The end of a poll keeps the invariants that relate logs, slots, polls and closers,
\* from any act and slt in which turns only ended and were dropped.
LEMMA ServeKeeps ==
    ASSUME IInv,
           NEW b \in Tabs, NEW t \in Logs, t \in 1 .. nextLog,
           NEW act \in [Logs -> Turns \cup {NoTurn}],
           NEW slt \in [Logs -> Turns \cup {NoTurn}],
           \A l \in Logs : act[l] \in {active[l], NoTurn},
           \A s \in Logs : slt[s] \in {slot[s], NoTurn},
           phase = "serving" => Pairs(act, slt),
           NEW old \in SUBSET Turns,
           NEW finished \in SUBSET Turns,
           \A u \in finished : u = pumping[b] /\ \A s \in Logs : slt[s] # u,
           NEW rdr,
           Serve(b, t, act, slt, old, finished, rdr)
    PROVE  /\ StoreGrows /\ StoreInv' /\ HomeInv' /\ SlotInv' /\ FinishInv'
           /\ active' \in [Logs -> Turns \cup {NoTurn}]
           /\ slot' \in [Logs -> Turns \cup {NoTurn}]
           /\ stale' \subseteq Turns
           /\ joiners' \in [Turns -> Nat] /\ closers' \in [Turns -> Nat]
           /\ pumping' \in [Tabs -> Turns \cup {NoTurn}]
           /\ pumpLog' \in [Tabs -> 0 .. MaxLogs]
           /\ UNCHANGED <<phase, home, unparked, page, awaited>>
           /\ \A l \in Logs : active'[l] \in {active[l], NoTurn}
           /\ \A u \in Turns : Parked(u)' => Parked(u)
           /\ \A u \in Turns : Pumped(u)' => Pumped(u)
           /\ \A u \in Turns : gen[u] = "none" => joiners'[u] = 0 /\ closers'[u] = 0
<1> DEFINE T == Abandoned(slt, old, LockedBy(Tabs \ {b}))
<1>1. /\ T \subseteq Logs
      /\ \A s \in T : slt[s] \in Turns /\ \A c \in Tabs : c # b => pumping[c] # slt[s]
      /\ \A l \in Logs : active'[l] = IF l \in store /\ threadOf[l] \in T
                                         /\ act[l] = slt[threadOf[l]]
                                      THEN NoTurn ELSE act[l]
      /\ \A s \in Logs : slot'[s] = IF s \in T THEN NoTurn ELSE slt[s]
      /\ stale' \subseteq Turns
      /\ \A u \in Turns :
            joiners'[u] + closers'[u] =
                joiners[u] + closers[u] + (IF u \in finished \cup Swept(slt, T)
                                           THEN 1 ELSE 0)
      /\ active' \in [Logs -> Turns \cup {NoTurn}]
      /\ slot' \in [Logs -> Turns \cup {NoTurn}]
      /\ joiners' \in [Turns -> Nat]
      /\ closers' \in [Turns -> Nat]
      /\ pumping' = [pumping EXCEPT ![b] = NoTurn]
      /\ pumpLog' = [pumpLog EXCEPT ![b] = 0]
      /\ UNCHANGED <<phase, home, unparked, page, awaited>>
      /\ Access(t)
    <2> USE DEF IInv
    <2>1. /\ active' = SweptActive(act, slt, T)
          /\ slot' = SweptSlot(slt, T)
          /\ stale' = old \ Swept(slt, T)
          /\ CloseEach(finished \cup Swept(slt, T), rdr)
          /\ Access(t)
          /\ pumping' = [pumping EXCEPT ![b] = NoTurn]
          /\ pumpLog' = [pumpLog EXCEPT ![b] = 0]
          /\ UNCHANGED <<phase, home, unparked, page, awaited>>
        BY DEF Serve, Swept
    <2>2. T = {s \in Logs : slt[s] \in old \ LockedBy(Tabs \ {b})}
        BY DEF Abandoned
    <2>3. T \subseteq Logs /\ \A s \in T : slt[s] \in Turns
        BY <2>2
    <2>4. \A s \in T : \A c \in Tabs : c # b => pumping[c] # slt[s]
        BY <2>2, <2>3, TurnAssumption DEF LockedBy
    <2>5. \A l \in Logs : active'[l] = IF l \in store /\ threadOf[l] \in T
                                          /\ act[l] = slt[threadOf[l]]
                                       THEN NoTurn ELSE act[l]
        BY <2>1 DEF SweptActive
    <2>6. \A s \in Logs : slot'[s] = IF s \in T THEN NoTurn ELSE slt[s]
        BY <2>1 DEF SweptSlot
    <2>7. active' \in [Logs -> Turns \cup {NoTurn}] /\ slot' \in [Logs -> Turns \cup {NoTurn}]
        BY <2>1 DEF SweptActive, SweptSlot
    <2>8. /\ joiners' \in [Turns -> Nat] /\ closers' \in [Turns -> Nat]
          /\ \A u \in Turns :
                joiners'[u] + closers'[u] =
                    joiners[u] + closers[u] + (IF u \in finished \cup Swept(slt, T) THEN 1 ELSE 0)
        <3> DEFINE U == finished \cup Swept(slt, T)
        <3>1. joiners \in [Turns -> Nat] /\ closers \in [Turns -> Nat]
            BY DEF Shape
        <3>2. CloseEach(U, rdr)
            BY <2>1
        <3> HIDE DEF U
        <3>3. /\ joiners' \in [Turns -> Nat] /\ closers' \in [Turns -> Nat]
              /\ \A u \in Turns : joiners'[u] + closers'[u] =
                    joiners[u] + closers[u] + (IF u \in U THEN 1 ELSE 0)
            BY <3>1, <3>2 DEF CloseEach
        <3> QED BY <3>3 DEF U
    <2> HIDE DEF Swept
    <2> QED BY <2>1, <2>3, <2>4, <2>5, <2>6, <2>7, <2>8
<1> HIDE DEF T
<1>2. /\ Shape /\ StoreInv /\ HomeInv /\ SlotInv /\ FinishInv /\ IdleInv /\ GenInv
    BY DEF IInv
<1>3. StoreGrows /\ StoreInv'
    BY <1>1, <1>2, AccessGrows
<1>4. /\ store \subseteq Logs /\ nextLog \in 1 .. (MaxLogs + 1) /\ MaxLogs \in Nat
      /\ threadOf \in [Logs -> 0 .. MaxLogs]
      /\ home \in [Turns -> 0 .. MaxLogs]
      /\ joiners \in [Turns -> Nat] /\ closers \in [Turns -> Nat]
      /\ pumping \in [Tabs -> Turns \cup {NoTurn}]
      /\ pumpLog \in [Tabs -> 0 .. MaxLogs]
      /\ \A l \in Logs : l \in Int
      /\ NoTurn \notin Turns
      /\ active \in [Logs -> Turns \cup {NoTurn}]
      /\ slot \in [Logs -> Turns \cup {NoTurn}]
    BY <1>2, StoreAssumption, TurnAssumption DEF Shape, Logs
<1>5. /\ store' \subseteq Logs
      /\ nextLog <= nextLog' /\ nextLog' \in Int
      /\ \A l \in Logs : l < nextLog => threadOf'[l] = threadOf[l]
      /\ \A l \in store' : l < nextLog => l \in store
    BY <1>3, <1>4 DEF StoreGrows
<1>6. /\ \A l \in Logs : active'[l] \in {active[l], NoTurn}
      /\ \A s \in Logs : slot'[s] \in {slot[s], NoTurn}
    BY <1>1
<1>7. \A c \in Tabs : pumping'[c] = (IF c = b THEN NoTurn ELSE pumping[c])
                      /\ pumpLog'[c] = (IF c = b THEN 0 ELSE pumpLog[c])
    BY <1>1, <1>4
<1>8. HomeInv'
    <2>1. /\ \A u \in Turns : home[u] < nextLog
          /\ \A l \in Logs : active[l] # NoTurn => home[active[l]] = l
          /\ \A s \in Logs : slot[s] # NoTurn =>
                home[slot[s]] \in Logs /\ threadOf[home[slot[s]]] = s
          /\ \A c \in Tabs : pumping[c] # NoTurn =>
                /\ home[pumping[c]] \in Logs
                /\ pumpLog[c] \in Logs /\ pumpLog[c] < nextLog
                /\ threadOf[pumpLog[c]] = threadOf[home[pumping[c]]]
                /\ home[pumping[c]] \in store => pumpLog[c] = home[pumping[c]]
        BY <1>2 DEF HomeInv
    <2>2. \A u \in Turns : home'[u] < nextLog'
        BY <2>1, <1>1, <1>4, <1>5
    <2>3. \A l \in Logs : active'[l] # NoTurn => home'[active'[l]] = l
        BY <2>1, <1>1, <1>6
    <2>4. \A s \in Logs : slot'[s] # NoTurn =>
                home'[slot'[s]] \in Logs /\ threadOf'[home'[slot'[s]]] = s
        BY <2>1, <1>1, <1>4, <1>5, <1>6
    <2>5. ASSUME NEW c \in Tabs, pumping'[c] # NoTurn
          PROVE  /\ home'[pumping'[c]] \in Logs
                 /\ pumpLog'[c] \in Logs /\ pumpLog'[c] < nextLog'
                 /\ threadOf'[pumpLog'[c]] = threadOf'[home'[pumping'[c]]]
                 /\ home'[pumping'[c]] \in store' => pumpLog'[c] = home'[pumping'[c]]
        <3>1. pumping'[c] = pumping[c] /\ pumpLog'[c] = pumpLog[c] /\ pumping[c] \in Turns
            BY <2>5, <1>7, <1>4
        <3> QED BY <3>1, <2>5, <2>1, <1>1, <1>4, <1>5
    <2> QED BY <2>2, <2>3, <2>4, <2>5 DEF HomeInv
<1>9. SlotInv'
    <2> SUFFICES ASSUME phase' = "serving"
                 PROVE  Pairs(active, slot)'
        BY DEF SlotInv
    <2>1. Pairs(act, slt)
        BY <1>1
    <2>2. ASSUME NEW l \in store', active'[l] # NoTurn
          PROVE  slot'[threadOf'[l]] = active'[l] \/ active'[l] \in unparked'
        <3>1. l \in Logs /\ active'[l] = active[l] /\ active'[l] = act[l] /\ act[l] \in Turns
            BY <2>2, <1>1, <1>4, <1>5
        <3>2. home[active[l]] = l /\ l < nextLog
            <4>1. home[active[l]] = l
                BY <3>1, <2>2, <1>2 DEF HomeInv
            <4>2. \A u \in Turns : home[u] < nextLog
                BY <1>2 DEF HomeInv
            <4> QED BY <4>1, <4>2, <3>1
        <3>3. l \in store /\ threadOf'[l] = threadOf[l] /\ threadOf[l] \in Logs
            BY <3>1, <3>2, <2>2, <1>4, <1>5, <1>2 DEF StoreInv, Logs
        <3> QED BY <3>1, <3>3, <2>1, <2>2, <1>1 DEF Pairs
    <2>3. ASSUME NEW s \in Logs, slot'[s] # NoTurn, home'[slot'[s]] \in store'
          PROVE  active'[home'[slot'[s]]] = slot'[s]
        <3>1. slot'[s] = slot[s] /\ slot'[s] = slt[s] /\ s \notin T /\ slt[s] \in Turns
            BY <2>3, <1>1, <1>4
        <3>2. home[slt[s]] \in Logs /\ threadOf[home[slt[s]]] = s /\ home[slt[s]] < nextLog
            BY <3>1, <2>3, <1>2, <1>4 DEF HomeInv
        <3>3. home[slt[s]] \in store
            BY <3>1, <3>2, <2>3, <1>1, <1>5
        <3>4. act[home[slt[s]]] = slt[s]
            BY <3>1, <3>3, <2>1, <1>4 DEF Pairs
        <3> QED BY <3>1, <3>2, <3>4, <1>1
    <2> QED BY <2>2, <2>3 DEF Pairs
<1>10. \A u \in Turns : Parked(u)' => Parked(u)
    BY <1>6, <1>4 DEF Parked
<1>11. \A u \in Turns : Pumped(u)' => Pumped(u)
    BY <1>7, <1>4 DEF Pumped
<1>12. ASSUME NEW u \in Turns, u \in Swept(slt, T)
       PROVE  Parked(u) /\ ~Parked(u)' /\ (Pumped(u)' => FALSE)
    <2>1. PICK s \in T : u = slt[s]
        BY <1>12 DEF Swept
    <2>2. s \in Logs /\ slot[s] = u
        BY <2>1, <1>1, <1>4
    <2>3. \A r \in Logs : slot[r] = u => r = s
        BY <2>2, <1>2, <1>4 DEF HomeInv
    <2> QED BY <2>1, <2>2, <2>3, <1>1, <1>4, <1>6, <1>7 DEF Parked, Pumped
<1>13. ASSUME NEW u \in Turns, u \in finished
       PROVE  Pumped(u) /\ ~Parked(u)' /\ ~Pumped(u)' /\ gen[u] # "none"
    <2>1. u = pumping[b] /\ \A s \in Logs : slt[s] # u
        BY <1>13
    <2>2. Pumped(u) /\ \A c \in Tabs : pumping[c] = u => c = b
        BY <2>1, <1>2, <1>4 DEF FinishInv, Pumped
    <2> QED BY <2>1, <2>2, <1>1, <1>2, <1>4, <1>7 DEF Parked, Pumped, IdleInv
<1>14. FinishInv'
    <2>1. /\ \A u \in Turns : Parked(u) => joiners[u] = 0 /\ closers[u] = 0
          /\ \A u \in Turns : Pumped(u) => joiners[u] + closers[u] <= 1
          /\ \A u \in Turns : joiners[u] + closers[u] <= 2
          /\ \A c, d \in Tabs : pumping[c] # NoTurn /\ pumping[c] = pumping[d] => c = d
        BY <1>2 DEF FinishInv
    <2>2. \A u \in Turns : joiners[u] \in Nat /\ closers[u] \in Nat
                           /\ joiners'[u] \in Nat /\ closers'[u] \in Nat
        BY <1>1, <1>4
    <2>3. \A u \in Turns : Parked(u)' => joiners'[u] = 0 /\ closers'[u] = 0
        BY <2>1, <2>2, <1>1, <1>10, <1>12, <1>13
    <2>4. \A u \in Turns : Pumped(u)' => joiners'[u] + closers'[u] <= 1
        BY <2>1, <2>2, <1>1, <1>11, <1>12, <1>13
    <2>5. \A u \in Turns : joiners'[u] + closers'[u] <= 2
        BY <2>1, <2>2, <1>1, <1>12, <1>13
    <2>6. \A c, d \in Tabs : pumping'[c] # NoTurn /\ pumping'[c] = pumping'[d] => c = d
        BY <2>1, <1>7
    <2> QED BY <2>3, <2>4, <2>5, <2>6 DEF FinishInv
<1>15. \A u \in Turns : gen[u] = "none" => joiners'[u] = 0 /\ closers'[u] = 0
    <2>1. \A u \in Turns : gen[u] = "none" => u \notin finished /\ u \notin Swept(slt, T)
        BY <1>2, <1>12, <1>13 DEF IdleInv
    <2>2. \A u \in Turns : gen[u] = "none" => joiners[u] = 0 /\ closers[u] = 0
        BY <1>2 DEF IdleInv
    <2>3. \A u \in Turns : joiners'[u] \in Nat /\ closers'[u] \in Nat
        BY <1>1
    <2> QED BY <2>1, <2>2, <2>3, <1>1
<1>16. pumping' \in [Tabs -> Turns \cup {NoTurn}] /\ pumpLog' \in [Tabs -> 0 .. MaxLogs]
    BY <1>1, <1>4
<1> QED BY <1>1, <1>3, <1>6, <1>8, <1>9, <1>10, <1>11, <1>14, <1>15, <1>16

-----------------------------------------------------------------------------
(* Readers, closers, the clock and pages: nothing of logs and slots moves  *)

logVars == <<store, nextLog, threadOf, active, slot, home, unparked, pumping, pumpLog>>

\* Without a change to logs, slots and polls, their invariants stay.
LEMMA Framed ==
    ASSUME IInv, UNCHANGED logVars, phase' = "serving" => phase = "serving"
    PROVE  /\ StoreInv' /\ HomeInv' /\ SlotInv'
           /\ \A u \in Turns : Parked(u)' <=> Parked(u)
           /\ \A u \in Turns : Pumped(u)' <=> Pumped(u)
<1> USE DEF logVars
<1>1. StoreInv'
    BY DEF IInv, StoreInv, StoreKeepsTheNewest
<1>2. HomeInv'
    BY DEF IInv, HomeInv
<1>3. SlotInv'
    BY DEF IInv, SlotInv, Pairs
<1>4. /\ \A u \in Turns : Parked(u)' <=> Parked(u)
      /\ \A u \in Turns : Pumped(u)' <=> Pumped(u)
    BY DEF Parked, Pumped
<1> QED BY <1>1, <1>2, <1>3, <1>4

\* The reader enters the generator, or is refused (reader thread of _pump_turn).
LEMMA ReaderEntersKeeps ==
    ASSUME IInv, NEW u \in Turns, ReaderEnters(u)
    PROVE  IInv'
<1>1. StoreInv' /\ HomeInv' /\ SlotInv'
      /\ (\A v \in Turns : Parked(v)' <=> Parked(v))
      /\ (\A v \in Turns : Pumped(v)' <=> Pumped(v))
    BY Framed DEF ReaderEnters, logVars, threadVars, turnVars, tabVars
<1>2. /\ reader \in [Turns -> Posted \cup {"none", "starting", "reading"}]
      /\ gen \in [Turns -> {"none", "fresh", "suspended", "running", "closing", "closed"}]
      /\ joiners \in [Turns -> Nat] /\ closers \in [Turns -> Nat]
    BY DEF IInv, Shape
<1>3. /\ FinishInv /\ IdleInv /\ GenInv /\ Shape
    BY DEF IInv
<1>4. \/ /\ gen[u] \in {"fresh", "suspended"}
         /\ gen' = [gen EXCEPT ![u] = "running"]
         /\ reader' = [reader EXCEPT ![u] = "reading"]
         /\ UNCHANGED closeVars
      \/ /\ gen[u] \in {"running", "closing", "closed"}
         /\ \E r \in {"reentered", "drained"} :
               Post(u, r) /\ (r = "reentered" => gen[u] \in {"running", "closing"})
         /\ UNCHANGED gen
    BY DEF ReaderEnters
<1>5. reader[u] = "starting" /\ UNCHANGED <<phase, threadVars, turnVars, stale, yielded, tabVars, awaited>>
    BY DEF ReaderEnters
<1>6. \A v \in Turns : /\ joiners'[v] \in Nat /\ closers'[v] \in Nat
                       /\ joiners'[v] + closers'[v] = joiners[v] + closers[v]
    BY <1>2, <1>4 DEF Post, closeVars
<1>7. joiners' \in [Turns -> Nat] /\ closers' \in [Turns -> Nat]
    BY <1>2, <1>4 DEF Post, closeVars
<1>8. Shape'
    <2>1. reader' \in [Turns -> Posted \cup {"none", "starting", "reading"}]
        BY <1>2, <1>4 DEF Post, Posted
    <2>2. gen' \in [Turns -> {"none", "fresh", "suspended", "running", "closing", "closed"}]
        BY <1>2, <1>4
    <2> QED BY <2>1, <2>2, <1>3, <1>5, <1>7 DEF Shape, threadVars, turnVars, tabVars
<1>9. FinishInv'
    BY <1>1, <1>2, <1>3, <1>5, <1>6 DEF FinishInv, tabVars
<1>10. IdleInv'
    <2>1. gen[u] # "none" /\ u \notin unparked /\ gen'[u] # "none"
        BY <1>2, <1>3, <1>4, <1>5 DEF IdleInv
    <2>2. \A v \in Turns \ {u} : gen'[v] = gen[v] /\ reader'[v] = reader[v]
                                 /\ joiners'[v] = joiners[v] /\ closers'[v] = closers[v]
        BY <1>2, <1>4 DEF Post, closeVars
    <2>3. unparked \subseteq Turns /\ UNCHANGED <<home, unparked>>
        BY <1>3, <1>5 DEF Shape, turnVars
    <2> QED BY <2>1, <2>2, <2>3, <1>1, <1>3 DEF IdleInv
<1>11. GenInv'
    <2>1. \A v \in Turns : gen'[v] = "running" <=> reader'[v] = "reading"
        BY <1>2, <1>3, <1>4, <1>5 DEF GenInv, Post
    <2>2. \A v \in Turns : Parked(v)' => gen'[v] # "closing" /\ reader'[v] # "reentered"
        BY <1>1, <1>2, <1>3, <1>4, <1>5 DEF GenInv, Post
    <2> QED BY <2>1, <2>2 DEF GenInv
<1> QED BY <1>1, <1>8, <1>9, <1>10, <1>11 DEF IInv

\* The reader leaves the generator with a result (reader thread of _pump_turn).
LEMMA ReaderPostsKeeps ==
    ASSUME IInv, NEW u \in Turns, ReaderPosts(u)
    PROVE  IInv'
<1>1. StoreInv' /\ HomeInv' /\ SlotInv'
      /\ (\A v \in Turns : Parked(v)' <=> Parked(v))
      /\ (\A v \in Turns : Pumped(v)' <=> Pumped(v))
    BY Framed DEF ReaderPosts, logVars, threadVars, turnVars, tabVars
<1>2. /\ reader \in [Turns -> Posted \cup {"none", "starting", "reading"}]
      /\ gen \in [Turns -> {"none", "fresh", "suspended", "running", "closing", "closed"}]
      /\ joiners \in [Turns -> Nat] /\ closers \in [Turns -> Nat]
      /\ yielded \in [Turns -> Nat]
    BY DEF IInv, Shape
<1>3. /\ FinishInv /\ IdleInv /\ GenInv /\ Shape
    BY DEF IInv
<1>4. PICK r \in {"opening", "activity", "terminal", "drained"} :
        /\ Post(u, r)
        /\ \/ gen' = [gen EXCEPT ![u] = "suspended"]
           \/ gen' = [gen EXCEPT ![u] = "closed"]
        /\ yielded' \in [Turns -> Nat]
    BY <1>2 DEF ReaderPosts, Yields
<1>5. reader[u] = "reading" /\ UNCHANGED <<phase, threadVars, turnVars, stale, tabVars, awaited>>
    BY DEF ReaderPosts
<1>6. /\ joiners' \in [Turns -> Nat] /\ closers' \in [Turns -> Nat]
      /\ \A v \in Turns : joiners'[v] + closers'[v] = joiners[v] + closers[v]
    BY <1>2, <1>4 DEF Post
<1>7. Shape'
    <2>1. reader' \in [Turns -> Posted \cup {"none", "starting", "reading"}]
        BY <1>2, <1>4 DEF Post, Posted
    <2>2. gen' \in [Turns -> {"none", "fresh", "suspended", "running", "closing", "closed"}]
        BY <1>2, <1>4
    <2> QED BY <2>1, <2>2, <1>3, <1>4, <1>5, <1>6 DEF Shape, threadVars, turnVars, tabVars
<1>8. FinishInv'
    <2>1. \A v \in Turns : joiners'[v] \in Nat /\ closers'[v] \in Nat
        BY <1>6
    <2> QED BY <2>1, <1>1, <1>2, <1>3, <1>5, <1>6 DEF FinishInv, tabVars
<1>9. IdleInv'
    <2>1. gen[u] # "none" /\ u \notin unparked /\ gen'[u] # "none"
        BY <1>2, <1>3, <1>4, <1>5 DEF IdleInv
    <2>2. \A v \in Turns \ {u} : gen'[v] = gen[v] /\ reader'[v] = reader[v]
                                 /\ joiners'[v] = joiners[v] /\ closers'[v] = closers[v]
        BY <1>2, <1>4 DEF Post
    <2>3. unparked \subseteq Turns /\ UNCHANGED <<home, unparked>>
        BY <1>3, <1>5 DEF Shape, turnVars
    <2> QED BY <2>1, <2>2, <2>3, <1>1, <1>3 DEF IdleInv
<1>10. GenInv'
    <2>1. \A v \in Turns : gen'[v] = "running" <=> reader'[v] = "reading"
        BY <1>2, <1>3, <1>4, <1>5 DEF GenInv, Post
    <2>2. \A v \in Turns : Parked(v)' => gen'[v] # "closing" /\ reader'[v] # "reentered"
        BY <1>1, <1>2, <1>3, <1>4, <1>5 DEF GenInv, Post
    <2> QED BY <2>1, <2>2 DEF GenInv
<1> QED BY <1>1, <1>7, <1>8, <1>9, <1>10 DEF IInv

\* close(), the end of a generator's finally, and the interpreter's collection
\* (shut_down, the bridge's finally).
LEMMA CleanUpKeeps ==
    ASSUME IInv, NEW u \in Turns, CleanUp(u)
    PROVE  IInv'
<1>1. StoreInv' /\ HomeInv' /\ SlotInv'
      /\ (\A v \in Turns : Parked(v)' <=> Parked(v))
      /\ (\A v \in Turns : Pumped(v)' <=> Pumped(v))
    BY Framed DEF CleanUp, CloserCloses, FinallyDone, Collected, logVars, threadVars, turnVars,
                  tabVars
<1>2. /\ gen \in [Turns -> {"none", "fresh", "suspended", "running", "closing", "closed"}]
      /\ joiners \in [Turns -> Nat] /\ closers \in [Turns -> Nat]
    BY DEF IInv, Shape
<1>3. /\ FinishInv /\ IdleInv /\ GenInv /\ Shape
    BY DEF IInv
<1>4. UNCHANGED <<phase, threadVars, turnVars, stale, yielded, reader, tabVars, awaited, joiners>>
    BY DEF CleanUp, CloserCloses, FinallyDone, Collected, closeVars
<1>5. /\ closers' \in [Turns -> Nat]
      /\ \A v \in Turns : closers'[v] <= closers[v]
      /\ \A v \in Turns \ {u} : closers'[v] = closers[v] /\ gen'[v] = gen[v]
    BY <1>2 DEF CleanUp, CloserCloses, FinallyDone, Collected, closeVars
<1>6. /\ gen' \in [Turns -> {"none", "fresh", "suspended", "running", "closing", "closed"}]
      /\ gen'[u] = "running" <=> gen[u] = "running"
      /\ gen[u] # "none" /\ gen'[u] # "none"
      /\ gen'[u] = "closing" => gen[u] = "closing" \/ closers[u] > 0
    BY <1>2, <1>3 DEF CleanUp, CloserCloses, FinallyDone, Collected, IdleInv
<1>7. Shape'
    BY <1>3, <1>4, <1>5, <1>6 DEF Shape, threadVars, turnVars, tabVars
<1>8. FinishInv'
    <2>1. \A v \in Turns : joiners[v] \in Nat /\ closers[v] \in Nat /\ closers'[v] \in Nat
        BY <1>2, <1>5
    <2> QED BY <2>1, <1>1, <1>3, <1>4, <1>5 DEF FinishInv, tabVars
<1>9. IdleInv'
    <2>1. unparked \subseteq Turns /\ u \notin unparked
        BY <1>3, <1>6 DEF Shape, IdleInv
    <2> QED BY <2>1, <1>1, <1>3, <1>4, <1>5, <1>6 DEF IdleInv, turnVars
<1>10. GenInv'
    BY <1>1, <1>2, <1>3, <1>4, <1>5, <1>6 DEF GenInv, FinishInv
<1> QED BY <1>1, <1>7, <1>8, <1>9, <1>10 DEF IInv

\* What else moves neither logs nor generators.
LEMMA OthersKeep ==
    ASSUME IInv,
           \/ \E u \in Turns : GoesStale(u)
           \/ \E b \in Tabs, t \in Logs : OpenPage(b, t)
           \/ \E b \in Tabs : ClosePage(b)
           \/ Exit
           \/ UNCHANGED vars
    PROVE  IInv'
<1>1. /\ UNCHANGED <<logVars, gen, yielded, reader, joiners, closers, awaited>>
      /\ phase' = "serving" => phase = "serving"
      /\ phase' \in {phase, "exited"}
    BY DEF GoesStale, OpenPage, ClosePage, Exit, vars, logVars, threadVars, turnVars, tabVars,
           genVars, closeVars
<1>2. StoreInv' /\ HomeInv' /\ SlotInv'
      /\ (\A v \in Turns : Parked(v)' <=> Parked(v))
      /\ (\A v \in Turns : Pumped(v)' <=> Pumped(v))
    BY <1>1, Framed
<1>3. Shape'
    <2>1. Shape
        BY DEF IInv
    <2>2. stale' \subseteq Turns
        BY <2>1 DEF Shape, GoesStale, OpenPage, ClosePage, Exit, vars
    <2>3. page' \in [Tabs -> 0 .. MaxLogs]
        BY <2>1, StoreAssumption
        DEF Shape, GoesStale, OpenPage, ClosePage, Exit, vars, tabVars, Logs
    <2> QED BY <2>1, <2>2, <2>3, <1>1 DEF Shape, logVars
<1>4. FinishInv' /\ IdleInv' /\ GenInv'
    BY <1>1, <1>2 DEF IInv, FinishInv, IdleInv, GenInv, logVars
<1> QED BY <1>2, <1>3, <1>4 DEF IInv

-----------------------------------------------------------------------------
(* The routes                                                              *)

\* A new log and a new thread id (create_thread).
LEMMA CreateThreadKeeps ==
    ASSUME IInv, CreateThread
    PROVE  IInv'
<1>1. /\ Shape /\ StoreInv /\ HomeInv /\ SlotInv /\ FinishInv /\ IdleInv /\ GenInv
    BY DEF IInv
<1>2. nextLog \in 1 .. nextLog /\ nextLog \in Logs /\ MaxLogs \in Nat
      /\ nextLog \in 1 .. (MaxLogs + 1)
    <2>1. nextLog \in 1 .. (MaxLogs + 1) /\ MaxLogs \in Nat /\ store \subseteq Logs
        BY <1>1, StoreAssumption DEF Shape
    <2>2. Stored(nextLog) => nextLog \in Logs
        BY <2>1, <1>1 DEF Stored, StoreInv, Shape, Logs
    <2>3. ~Stored(nextLog) => nextLog <= MaxLogs
        BY DEF CreateThread, Access
    <2> QED BY <2>1, <2>2, <2>3 DEF Logs
<1>3. StoreGrows /\ StoreInv'
    <2>1. Access(nextLog)
        BY DEF CreateThread
    <2> QED BY <1>1, <1>2, <2>1, AccessGrows
<1>4. UNCHANGED <<phase, turnVars, stale, genVars, closeVars, tabVars, awaited>>
    BY DEF CreateThread
<1>5. HomeInv'
    <2>1. /\ nextLog' >= nextLog /\ nextLog' \in Int /\ nextLog \in Int
          /\ \A l \in Logs : l \in Int
          /\ home \in [Turns -> 0 .. MaxLogs]
          /\ slot \in [Logs -> Turns \cup {NoTurn}]
          /\ pumping \in [Tabs -> Turns \cup {NoTurn}]
          /\ \A l \in Logs : l < nextLog => threadOf'[l] = threadOf[l]
          /\ \A l \in store' : l < nextLog => l \in store
          /\ UNCHANGED <<active, slot, home, pumping, pumpLog>>
        BY <1>1, <1>2, <1>3, <1>4 DEF StoreGrows, Shape, turnVars, tabVars, Logs
    <2>2. \A u \in Turns : home[u] \in Int /\ home[u] < nextLog
        BY <2>1, <1>1, <1>2 DEF HomeInv
    <2>3. \A u \in Turns : home'[u] < nextLog'
        BY <2>1, <2>2
    <2>4. \A l \in Logs : active'[l] # NoTurn => home'[active'[l]] = l
        BY <2>1, <1>1 DEF HomeInv
    <2>5. \A s \in Logs : slot'[s] # NoTurn =>
                home'[slot'[s]] \in Logs /\ threadOf'[home'[slot'[s]]] = s
        BY <2>1, <2>2, <1>1 DEF HomeInv
    <2>6. ASSUME NEW c \in Tabs, pumping'[c] # NoTurn
          PROVE  /\ home'[pumping'[c]] \in Logs
                 /\ pumpLog'[c] \in Logs /\ pumpLog'[c] < nextLog'
                 /\ threadOf'[pumpLog'[c]] = threadOf'[home'[pumping'[c]]]
                 /\ home'[pumping'[c]] \in store' => pumpLog'[c] = home'[pumping'[c]]
        BY <2>1, <2>2, <2>6, <1>1 DEF HomeInv
    <2> QED BY <2>3, <2>4, <2>5, <2>6 DEF HomeInv
<1>6. SlotInv'
    <2> SUFFICES ASSUME phase' = "serving" PROVE Pairs(active, slot)'
        BY DEF SlotInv
    <2>1. Pairs(active, slot)
        BY <1>1, <1>4 DEF SlotInv
    <2>2. /\ store' \subseteq Logs /\ nextLog \in Int
          /\ active \in [Logs -> Turns \cup {NoTurn}]
          /\ slot \in [Logs -> Turns \cup {NoTurn}]
          /\ \A l \in Logs : l < nextLog => threadOf'[l] = threadOf[l]
          /\ \A l \in store' : l < nextLog => l \in store
          /\ UNCHANGED <<active, slot, home, unparked>>
          /\ \A u \in Turns : home[u] < nextLog
          /\ \A l \in Logs : active[l] # NoTurn => home[active[l]] = l
        BY <1>1, <1>2, <1>3, <1>4 DEF StoreGrows, Shape, turnVars, HomeInv
    <2> QED BY <2>1, <2>2 DEF Pairs
<1>7. FinishInv' /\ IdleInv' /\ GenInv'
    BY <1>1, <1>4 DEF FinishInv, IdleInv, GenInv, Parked, Pumped, turnVars, genVars, closeVars,
                      tabVars
<1>8. Shape'
    BY <1>1, <1>3, <1>4 DEF Shape, StoreGrows, turnVars, genVars, closeVars, tabVars
<1> QED BY <1>3, <1>5, <1>6, <1>7, <1>8 DEF IInv

-----------------------------------------------------------------------------
(* The poll                                                                *)

\* A poll that serves keeps the rest, if the reader is where it was or was taken.
LEMMA ServeStep ==
    ASSUME IInv,
           NEW b \in Tabs, NEW t \in Logs, t \in 1 .. nextLog,
           NEW act \in [Logs -> Turns \cup {NoTurn}],
           NEW slt \in [Logs -> Turns \cup {NoTurn}],
           \A l \in Logs : act[l] \in {active[l], NoTurn},
           \A s \in Logs : slt[s] \in {slot[s], NoTurn},
           phase = "serving" => Pairs(act, slt),
           NEW old \in SUBSET Turns,
           NEW finished \in SUBSET Turns,
           \A u \in finished : u = pumping[b] /\ \A s \in Logs : slt[s] # u,
           NEW rdr,
           Serve(b, t, act, slt, old, finished, rdr),
           UNCHANGED <<gen, yielded>>,
           \/ reader' = reader
           \/ \E u \in Turns : reader[u] # "reading" /\ reader' = [reader EXCEPT ![u] = "none"]
    PROVE  IInv'
<1>1. /\ StoreInv' /\ HomeInv' /\ SlotInv' /\ FinishInv'
      /\ active' \in [Logs -> Turns \cup {NoTurn}]
      /\ slot' \in [Logs -> Turns \cup {NoTurn}]
      /\ stale' \subseteq Turns
      /\ joiners' \in [Turns -> Nat] /\ closers' \in [Turns -> Nat]
      /\ pumping' \in [Tabs -> Turns \cup {NoTurn}]
      /\ pumpLog' \in [Tabs -> 0 .. MaxLogs]
      /\ UNCHANGED <<phase, home, unparked, page, awaited>>
      /\ \A u \in Turns : Parked(u)' => Parked(u)
      /\ \A u \in Turns : Pumped(u)' => Pumped(u)
      /\ \A u \in Turns : gen[u] = "none" => joiners'[u] = 0 /\ closers'[u] = 0
      /\ StoreGrows
    BY ServeKeeps
<1>2. Shape /\ IdleInv /\ GenInv
    BY DEF IInv
<1>3. /\ reader' \in [Turns -> Posted \cup {"none", "starting", "reading"}]
      /\ \A v \in Turns : reader'[v] \in {reader[v], "none"}
      /\ \A v \in Turns : reader'[v] = "reading" <=> reader[v] = "reading"
    BY <1>2 DEF Shape
<1>4. Shape'
    BY <1>1, <1>2, <1>3 DEF Shape, StoreGrows
<1>5. IdleInv'
    BY <1>1, <1>2, <1>3 DEF IdleInv
<1>6. GenInv'
    BY <1>1, <1>2, <1>3 DEF GenInv
<1> QED BY <1>1, <1>4, <1>5, <1>6 DEF IInv

\* The thread of a poll's log names a log that exists.
LEMMA PumpedThread ==
    ASSUME IInv, NEW b \in Tabs, pumping[b] # NoTurn
    PROVE  /\ pumping[b] \in Turns
           /\ pumpLog[b] \in Logs /\ pumpLog[b] < nextLog
           /\ threadOf[pumpLog[b]] \in Logs
           /\ threadOf[pumpLog[b]] \in 1 .. nextLog
<1>1. Shape /\ StoreInv /\ HomeInv
    BY DEF IInv
<1>2. pumping[b] \in Turns /\ nextLog \in 1 .. (MaxLogs + 1) /\ MaxLogs \in Nat
    BY <1>1, StoreAssumption DEF Shape
<1>3. pumpLog[b] \in Logs /\ pumpLog[b] < nextLog
    BY <1>1 DEF HomeInv
<1>4. threadOf[pumpLog[b]] \in 1 .. pumpLog[b]
    BY <1>1, <1>3 DEF StoreInv
<1> QED BY <1>2, <1>3, <1>4 DEF Logs

\* A poll that finds nothing to pump, or takes the lock of a parked turn.
LEMMA PollStartKeeps ==
    ASSUME IInv, NEW b \in Tabs, PollStart(b)
    PROVE  IInv'
<1>1. /\ Shape /\ StoreInv /\ HomeInv /\ SlotInv /\ FinishInv /\ IdleInv /\ GenInv
    BY DEF IInv
<1> DEFINE t == page[b]
           u == slot[t]
<1>2. t \in Logs /\ t \in 1 .. nextLog /\ nextLog \in 1 .. (MaxLogs + 1) /\ MaxLogs \in Nat
    <2>1. /\ nextLog \in 1 .. (MaxLogs + 1) /\ MaxLogs \in Nat /\ store \subseteq Logs
          /\ page \in [Tabs -> 0 .. MaxLogs]
          /\ store = {l \in 1 .. (nextLog - 1) : l >= nextLog - MaxThreads}
        BY <1>1, StoreAssumption DEF Shape, StoreInv, StoreKeepsTheNewest
    <2>2. PICK l \in store : threadOf[l] = t
        BY DEF PollStart, Stored
    <2>3. t \in 1 .. l
        BY <2>1, <2>2, <1>1 DEF StoreInv, Logs
    <2> QED BY <2>1, <2>2, <2>3 DEF Logs
<1>3. /\ active \in [Logs -> Turns \cup {NoTurn}]
      /\ slot \in [Logs -> Turns \cup {NoTurn}]
      /\ stale \subseteq Turns
      /\ u \in Turns \cup {NoTurn}
    BY <1>1, <1>2 DEF Shape
<1>4. CASE Busy(u) /\ Serve(b, t, active, slot, stale \ {u}, {}, reader) /\ UNCHANGED genVars
    <2>1. phase = "serving" => Pairs(active, slot)
        BY <1>1 DEF SlotInv
    <2>2. stale \ {u} \in SUBSET Turns /\ {} \in SUBSET Turns
        BY <1>3
    <2>3. UNCHANGED <<gen, yielded>> /\ reader' = reader
        BY <1>4 DEF genVars
    <2>4. /\ \A l \in Logs : active[l] \in {active[l], NoTurn}
          /\ \A s \in Logs : slot[s] \in {slot[s], NoTurn}
        OBVIOUS
    <2>5. PICK old \in SUBSET Turns, none \in SUBSET Turns :
            none = {} /\ Serve(b, t, active, slot, old, none, reader)
        BY <2>2, <1>4
    <2> HIDE DEF t, u
    <2> QED BY <1>2, <1>3, <2>1, <2>3, <2>4, <2>5, ServeStep
<1>5. CASE /\ ~Busy(u)
           /\ pumping' = [pumping EXCEPT ![b] = u]
           /\ pumpLog' = [pumpLog EXCEPT ![b] = LogOf(t)]
           /\ stale' = stale \ {u}
           /\ reader' = IF reader[u] = "none" THEN [reader EXCEPT ![u] = "starting"]
                        ELSE reader
           /\ UNCHANGED <<phase, threadVars, turnVars, gen, yielded, closeVars, page, awaited>>
    <2>1. u \in Turns /\ u # NoTurn /\ \A c \in Tabs : pumping[c] # u
        BY <1>3, <1>5 DEF Busy, LockedBy
    <2>2. LogOf(t) \in store /\ threadOf[LogOf(t)] = t
        BY DEF PollStart, Stored, LogOf
    <2>3. Parked(u) /\ gen[u] # "none"
        BY <2>1, <1>1, <1>2 DEF Parked, IdleInv
    <2>4. /\ pumping \in [Tabs -> Turns \cup {NoTurn}]
          /\ pumpLog \in [Tabs -> 0 .. MaxLogs]
          /\ reader \in [Turns -> Posted \cup {"none", "starting", "reading"}]
          /\ store \subseteq Logs
          /\ joiners \in [Turns -> Nat] /\ closers \in [Turns -> Nat]
        BY <1>1 DEF Shape
    <2>5. UNCHANGED <<phase, store, nextLog, threadOf, active, slot, home, unparked,
                      gen, yielded, joiners, closers, page, awaited>>
        BY <1>5 DEF threadVars, turnVars, closeVars
    <2>6. /\ \A c \in Tabs : pumping'[c] = IF c = b THEN u ELSE pumping[c]
          /\ \A c \in Tabs : pumpLog'[c] = IF c = b THEN LogOf(t) ELSE pumpLog[c]
        BY <1>5, <2>4
    <2>7. \A v \in Turns : reader'[v] = IF v = u /\ reader[u] = "none" THEN "starting"
                                        ELSE reader[v]
        BY <1>5, <2>4
    <2>8. \A v \in Turns : (Parked(v)' <=> Parked(v)) /\ (Pumped(v)' <=> Pumped(v) \/ v = u)
        BY <2>5, <2>6, <2>1, <1>5, TurnAssumption DEF Parked, Pumped, PollStart
    <2>9. LogOf(t) \in Logs /\ LogOf(t) < nextLog /\ (home[u] \in store => LogOf(t) = home[u])
          /\ home[u] \in Logs /\ threadOf[home[u]] = t
        <3>1. home[u] \in Logs /\ threadOf[home[u]] = t
            BY <2>1, <1>1, <1>2 DEF HomeInv
        <3> QED BY <3>1, <2>2, <2>4, <1>1, <1>2 DEF StoreInv, StoreKeepsTheNewest
    <2>10. StoreInv' /\ SlotInv'
        BY <2>5, <1>1 DEF StoreInv, StoreKeepsTheNewest, SlotInv, Pairs
    <2>11. HomeInv'
        <3>1. ASSUME NEW c \in Tabs, pumping'[c] # NoTurn
              PROVE  /\ home'[pumping'[c]] \in Logs
                     /\ pumpLog'[c] \in Logs /\ pumpLog'[c] < nextLog'
                     /\ threadOf'[pumpLog'[c]] = threadOf'[home'[pumping'[c]]]
                     /\ home'[pumping'[c]] \in store' => pumpLog'[c] = home'[pumping'[c]]
            <4> HIDE DEF u, t
            <4>1. CASE c = b
                BY <4>1, <2>2, <2>5, <2>6, <2>9
            <4>2. CASE c # b
                BY <4>2, <3>1, <2>5, <2>6, <1>1 DEF HomeInv
            <4> QED BY <4>1, <4>2
        <3>2. /\ \A v \in Turns : home'[v] < nextLog'
              /\ \A l \in Logs : active'[l] # NoTurn => home'[active'[l]] = l
              /\ \A s \in Logs : slot'[s] # NoTurn =>
                    home'[slot'[s]] \in Logs /\ threadOf'[home'[slot'[s]]] = s
            BY <2>5, <1>1 DEF HomeInv
        <3> QED BY <3>1, <3>2 DEF HomeInv
    <2>12. FinishInv'
        <3>1. joiners[u] = 0 /\ closers[u] = 0
            BY <2>1, <2>3, <1>1 DEF FinishInv
        <3>2. \A c, d \in Tabs : pumping'[c] # NoTurn /\ pumping'[c] = pumping'[d] => c = d
            BY <2>1, <2>6, <1>1 DEF FinishInv
        <3>3. \A v \in Turns : Pumped(v)' => joiners'[v] + closers'[v] <= 1
            BY <3>1, <2>5, <2>8, <1>1 DEF FinishInv
        <3> QED BY <3>2, <3>3, <2>5, <2>8, <1>1 DEF FinishInv
    <2>13. IdleInv'
        BY <2>3, <2>5, <2>7, <2>8, <1>1 DEF IdleInv
    <2>14. GenInv'
        BY <2>5, <2>7, <2>8, <1>1 DEF GenInv
    <2>15. Shape'
        <3>1. pumping' \in [Tabs -> Turns \cup {NoTurn}]
            BY <1>5, <2>4, <2>1
        <3>2. pumpLog' \in [Tabs -> 0 .. MaxLogs]
            BY <1>5, <2>4, <2>9, <1>2 DEF Logs
        <3>3. reader' \in [Turns -> Posted \cup {"none", "starting", "reading"}]
            BY <1>5, <2>4
        <3>4. stale' \subseteq Turns
            BY <1>5, <1>3
        <3> QED BY <3>1, <3>2, <3>3, <3>4, <2>5, <1>1 DEF Shape
    <2> QED BY <2>10, <2>11, <2>12, <2>13, <2>14, <2>15 DEF IInv
<1> QED BY <1>4, <1>5 DEF PollStart

\* A poll that reads on, serves after its slice, ends its turn, or gives up waiting.
LEMMA PollEndsKeeps ==
    ASSUME IInv, NEW b \in Tabs, PollEnds(b)
    PROVE  IInv'
<1>1. /\ Shape /\ StoreInv /\ HomeInv /\ SlotInv /\ FinishInv /\ IdleInv /\ GenInv
    BY DEF IInv
<1> DEFINE u == pumping[b]
           t == threadOf[pumpLog[b]]
<1>2. u # NoTurn
    BY DEF PollEnds, PollReadsOn, PollSliceOver, PollEndsTurn, PollTimesOut
<1>3. u \in Turns /\ pumpLog[b] \in Logs /\ t \in Logs /\ t \in 1 .. nextLog
    BY <1>2, PumpedThread
<1>4. /\ active \in [Logs -> Turns \cup {NoTurn}]
      /\ slot \in [Logs -> Turns \cup {NoTurn}]
      /\ stale \in SUBSET Turns /\ {} \in SUBSET Turns
      /\ reader \in [Turns -> Posted \cup {"none", "starting", "reading"}]
      /\ phase = "serving" => Pairs(active, slot)
      /\ \A l \in Logs : active[l] \in {active[l], NoTurn}
      /\ \A s \in Logs : slot[s] \in {slot[s], NoTurn}
    BY <1>1 DEF Shape, SlotInv
<1>5. gen[u] # "none"
    BY <1>1, <1>2, <1>3 DEF IdleInv, Pumped
<1>6. CASE PollReadsOn(b)
    <2>1. /\ reader' = [reader EXCEPT ![u] = "starting"]
          /\ reader[u] \in Posted
          /\ UNCHANGED <<phase, threadVars, turnVars, stale, gen, yielded, closeVars, tabVars,
                         awaited>>
        BY <1>6 DEF PollReadsOn
    <2>2. StoreInv' /\ HomeInv' /\ SlotInv'
          /\ (\A v \in Turns : Parked(v)' <=> Parked(v))
          /\ (\A v \in Turns : Pumped(v)' <=> Pumped(v))
        BY <2>1, Framed DEF logVars, threadVars, turnVars, tabVars
    <2>3. \A v \in Turns : reader'[v] = IF v = u THEN "starting" ELSE reader[v]
        BY <2>1, <1>4
    <2>4. reader' \in [Turns -> Posted \cup {"none", "starting", "reading"}]
        BY <2>1, <1>4
    <2>5. Shape'
        BY <2>1, <2>4, <1>1 DEF Shape, threadVars, turnVars, closeVars, tabVars
    <2>6. FinishInv'
        BY <2>1, <2>2, <1>1 DEF FinishInv, closeVars, tabVars
    <2>7. IdleInv'
        BY <2>1, <2>2, <2>3, <1>1, <1>5 DEF IdleInv, closeVars, turnVars
    <2>8. GenInv'
        BY <2>1, <2>2, <2>3, <1>1, <1>3 DEF GenInv, Posted
    <2> QED BY <2>2, <2>5, <2>6, <2>7, <2>8 DEF IInv
<1>7. CASE PollSliceOver(b)
    <2>1. /\ reader' = [reader EXCEPT ![u] = "none"]
          /\ reader[u] # "reading"
          /\ Serve(b, t, active, slot, stale, {}, reader')
          /\ UNCHANGED <<gen, yielded>>
        BY <1>7 DEF PollSliceOver, Posted
    <2>2. PICK none, rdr :
            /\ none \in SUBSET Turns /\ none = {}
            /\ Serve(b, t, active, slot, stale, none, rdr)
        BY <2>1, <1>4
    <2> HIDE DEF t, u
    <2> QED BY <1>3, <1>4, <2>1, <2>2, ServeStep
<1>8. CASE PollEndsTurn(b)
    <2> DEFINE act == Ended(active, pumpLog[b], u)
               slt == Released(slot, t, u)
               old == IF slot[t] = u THEN stale \ {u} ELSE stale
    <2>1. /\ reader' = [reader EXCEPT ![u] = "none"]
          /\ reader[u] # "reading"
          /\ Serve(b, t, act, slt, old, {u}, reader')
          /\ UNCHANGED <<gen, yielded>>
        BY <1>8 DEF PollEndsTurn, Posted
    <2>2. /\ act \in [Logs -> Turns \cup {NoTurn}]
          /\ \A l \in Logs : act[l] = IF l = pumpLog[b] /\ active[l] = u THEN NoTurn
                                      ELSE active[l]
        BY <1>3, <1>4 DEF Ended
    <2>3. /\ slt \in [Logs -> Turns \cup {NoTurn}]
          /\ \A s \in Logs : slt[s] = IF s = t /\ slot[s] = u THEN NoTurn ELSE slot[s]
        BY <1>3, <1>4 DEF Released
    <2>4. old \in SUBSET Turns
        BY <1>4
    <2>5. threadOf[home[u]] = t /\ (home[u] \in store => pumpLog[b] = home[u])
        BY <1>1, <1>2 DEF HomeInv
    <2>6. \A s \in Logs : slt[s] # u
        <3>1. \A s \in Logs : slot[s] = u => s = t
            BY <2>5, <1>1, <1>2 DEF HomeInv
        <3> QED BY <3>1, <2>3, <1>2, <1>3
    <2>7. phase = "serving" => Pairs(act, slt)
        <3> SUFFICES ASSUME phase = "serving" PROVE Pairs(act, slt)
            OBVIOUS
        <3>1. Pairs(active, slot)
            BY <1>4
        <3>2. store \subseteq Logs
            BY <1>1 DEF Shape
        <3> HIDE DEF act, slt
        <3>3. ASSUME NEW l \in store, act[l] # NoTurn
              PROVE  slt[threadOf[l]] = act[l] \/ act[l] \in unparked
            <4>1. act[l] = active[l] /\ l \in Logs
                BY <3>2, <3>3, <2>2
            <4>2. threadOf[l] \in Logs
                BY <4>1, <3>2, <1>1 DEF StoreInv, StoreKeepsTheNewest, Logs, Shape
            <4>3. slot[threadOf[l]] = active[l] \/ active[l] \in unparked
                BY <3>1, <3>3, <4>1 DEF Pairs
            <4>4. CASE threadOf[l] = t /\ slot[threadOf[l]] = u /\ active[l] = u
                <5>1. home[u] = l
                    BY <4>1, <4>4, <1>1, <1>2 DEF HomeInv
                <5> QED BY <5>1, <4>1, <4>4, <3>3, <2>2, <2>5
            <4> QED BY <4>1, <4>2, <4>3, <4>4, <2>3
        <3>4. ASSUME NEW s \in Logs, slt[s] # NoTurn, home[slt[s]] \in store
              PROVE  act[home[slt[s]]] = slt[s]
            <4>1. slt[s] = slot[s] /\ slt[s] # u
                BY <3>4, <2>3, <2>6
            <4>2. active[home[slot[s]]] = slot[s]
                BY <3>1, <3>4, <4>1 DEF Pairs
            <4> QED BY <4>1, <4>2, <3>2, <3>4, <2>2
        <3> QED BY <3>3, <3>4 DEF Pairs
    <2>8. /\ \A l \in Logs : act[l] \in {active[l], NoTurn}
          /\ \A s \in Logs : slt[s] \in {slot[s], NoTurn}
        BY <2>2, <2>3
    <2> HIDE DEF act, slt, old
    <2>9. PICK finished, rdr :
            /\ finished \in SUBSET Turns /\ finished = {u}
            /\ Serve(b, t, act, slt, old, finished, rdr)
        BY <2>1, <1>3
    <2>10. \A v \in finished : v = pumping[b] /\ \A s \in Logs : slt[s] # v
        BY <2>6, <2>9
    <2> HIDE DEF t, u
    <2> QED BY <1>3, <2>1, <2>2, <2>3, <2>4, <2>7, <2>8, <2>9, <2>10, ServeStep
<1>9. CASE PollTimesOut(b)
    <2>1. Serve(b, t, active, slot, stale, {}, reader) /\ UNCHANGED <<gen, yielded, reader>>
        BY <1>9 DEF PollTimesOut, genVars
    <2>2. PICK none, rdr :
            /\ none \in SUBSET Turns /\ none = {}
            /\ Serve(b, t, active, slot, stale, none, rdr)
        BY <2>1, <1>4
    <2> HIDE DEF t, u
    <2> QED BY <1>3, <1>4, <2>1, <2>2, ServeStep
<1> QED BY <1>6, <1>7, <1>8, <1>9 DEF PollEnds

-----------------------------------------------------------------------------
(* Starting, interrupting, shutting down                                   *)

\* CloseEach adds one finishing thread to each turn of U.
LEMMA CloseEachCounts ==
    ASSUME Shape, NEW U \in SUBSET Turns, CloseEach(U, reader)
    PROVE  /\ joiners' \in [Turns -> Nat] /\ closers' \in [Turns -> Nat]
           /\ \A v \in Turns : joiners'[v] + closers'[v] =
                  joiners[v] + closers[v] + (IF v \in U THEN 1 ELSE 0)
           /\ \A v \in Turns \ U : joiners'[v] = joiners[v] /\ closers'[v] = closers[v]
BY DEF CloseEach, Shape

\* The threads of stored logs are told apart, and are named by logs.
LEMMA StoredThreads ==
    ASSUME Shape, StoreInv
    PROVE  /\ store \subseteq Logs
           /\ \A l \in store : l < nextLog /\ threadOf[l] \in Logs
           /\ \A t : Stored(t) => LogOf(t) \in store /\ threadOf[LogOf(t)] = t
           /\ \A l, m \in store : threadOf[l] = threadOf[m] => l = m
<1>1. /\ store \subseteq Logs /\ nextLog \in 1 .. (MaxLogs + 1) /\ MaxLogs \in Nat
      /\ store = {l \in 1 .. (nextLog - 1) : l >= nextLog - MaxThreads}
    BY StoreAssumption DEF Shape, StoreInv, StoreKeepsTheNewest
<1>2. \A l \in store : l < nextLog /\ threadOf[l] \in Logs
    BY <1>1 DEF StoreInv, Logs
<1>3. \A t : Stored(t) => LogOf(t) \in store /\ threadOf[LogOf(t)] = t
    BY DEF Stored, LogOf
<1> QED BY <1>1, <1>2, <1>3 DEF StoreInv, StoreKeepsTheNewest

\* The user stops the live turn (interrupt_turn).
LEMMA InterruptKeeps ==
    ASSUME IInv, NEW u \in Turns, NEW t \in Logs, Interrupt(u, t)
    PROVE  IInv'
<1>1. /\ Shape /\ StoreInv /\ HomeInv /\ SlotInv /\ FinishInv /\ IdleInv /\ GenInv
    BY DEF IInv
<1> DEFINE l == LogOf(t)
           v == slot[t]
<1>2. /\ phase = "serving" /\ l \in store /\ l \in Logs /\ threadOf[l] = t /\ active[l] = u
      /\ \A m \in store : threadOf[m] = t => m = l
    BY <1>1, StoredThreads DEF Interrupt
<1>3. /\ active \in [Logs -> Turns \cup {NoTurn}]
      /\ slot \in [Logs -> Turns \cup {NoTurn}]
      /\ v \in Turns \cup {NoTurn} /\ NoTurn \notin Turns
      /\ store \subseteq Logs
    BY <1>1, TurnAssumption DEF Shape
<1>4. UNCHANGED <<phase, store, nextLog, threadOf, home, unparked, gen, yielded, reader, page,
                  pumping, pumpLog, awaited>>
    BY DEF Interrupt, threadVars, genVars, tabVars
<1>5. active' = [active EXCEPT ![l] = NoTurn]
    BY <1>2 DEF Interrupt, Ended
<1>6. slot' = [slot EXCEPT ![t] = NoTurn]
    BY DEF Interrupt, Released
<1>7. PICK U \in SUBSET Turns : U = {v} \ {NoTurn} /\ CloseEach(U, reader)
    BY <1>3 DEF Interrupt
<1> HIDE DEF l, v
<1>8. /\ joiners' \in [Turns -> Nat] /\ closers' \in [Turns -> Nat]
      /\ \A x \in Turns : joiners'[x] + closers'[x] =
             joiners[x] + closers[x] + (IF x = v THEN 1 ELSE 0)
      /\ \A x \in Turns : x # v => joiners'[x] = joiners[x] /\ closers'[x] = closers[x]
    BY <1>1, <1>3, <1>7, CloseEachCounts
<1>9. /\ \A m \in Logs : active'[m] = IF m = l THEN NoTurn ELSE active[m]
      /\ \A s \in Logs : slot'[s] = IF s = t THEN NoTurn ELSE slot[s]
    BY <1>2, <1>3, <1>5, <1>6
<1>10. \A x \in Turns : /\ Parked(x)' => Parked(x) /\ x # v
                        /\ Pumped(x)' <=> Pumped(x)
                        /\ x = v => Parked(x)
    <2>1. \A s \in Logs : slot[s] = v /\ v # NoTurn => s = t
        BY <1>1 DEF HomeInv, v
    <2> QED BY <2>1, <1>3, <1>4, <1>9 DEF Parked, Pumped, v
<1>11. StoreInv'
    BY <1>1, <1>4 DEF StoreInv, StoreKeepsTheNewest
<1>12. HomeInv'
    BY <1>1, <1>4, <1>9 DEF HomeInv
<1>13. SlotInv'
    <2>1. \A m \in store : active'[m] # NoTurn =>
             slot'[threadOf[m]] = active'[m] \/ active'[m] \in unparked
        BY <1>1, <1>2, <1>3, <1>9, StoredThreads DEF SlotInv, Pairs
    <2>2. \A s \in Logs : (slot'[s] # NoTurn /\ home[slot'[s]] \in store) =>
             active'[home[slot'[s]]] = slot'[s]
        BY <1>1, <1>2, <1>3, <1>9 DEF SlotInv, Pairs, HomeInv
    <2> QED BY <2>1, <2>2, <1>4 DEF SlotInv, Pairs
<1>14. FinishInv'
    <2>1. \A x \in Turns : joiners[x] \in Nat /\ closers[x] \in Nat
                           /\ joiners'[x] \in Nat /\ closers'[x] \in Nat
        BY <1>1, <1>8 DEF Shape
    <2>2. \A x \in Turns : Parked(x)' => joiners'[x] = 0 /\ closers'[x] = 0
        BY <1>1, <1>8, <1>10 DEF FinishInv
    <2>3. \A x \in Turns : x = v => joiners'[x] + closers'[x] = 1
        BY <2>1, <1>1, <1>8, <1>10 DEF FinishInv
    <2>4. \A x \in Turns : Pumped(x)' => joiners'[x] + closers'[x] <= 1
        BY <2>1, <2>3, <1>1, <1>8, <1>10 DEF FinishInv
    <2>5. \A x \in Turns : joiners'[x] + closers'[x] <= 2
        BY <2>1, <2>3, <1>1, <1>8 DEF FinishInv
    <2> QED BY <2>2, <2>4, <2>5, <1>1, <1>4 DEF FinishInv
<1>15. IdleInv'
    BY <1>1, <1>4, <1>8, <1>10 DEF IdleInv
<1>16. GenInv'
    BY <1>1, <1>4, <1>10 DEF GenInv
<1>17. Shape'
    <2>1. stale' \subseteq Turns
        BY <1>1 DEF Interrupt, Shape
    <2> QED BY <2>1, <1>1, <1>3, <1>4, <1>5, <1>6, <1>8 DEF Shape
<1> QED BY <1>11, <1>12, <1>13, <1>14, <1>15, <1>16, <1>17 DEF IInv

\* The lifespan finishes what is parked (_lifespan).
LEMMA ShutDownKeeps ==
    ASSUME IInv, ShutDown
    PROVE  IInv'
<1>1. /\ Shape /\ StoreInv /\ HomeInv /\ SlotInv /\ FinishInv /\ IdleInv /\ GenInv
    BY DEF IInv
<1>2. /\ active \in [Logs -> Turns \cup {NoTurn}]
      /\ slot \in [Logs -> Turns \cup {NoTurn}]
      /\ NoTurn \notin Turns
      /\ pumping \in [Tabs -> Turns \cup {NoTurn}]
    BY <1>1, TurnAssumption DEF Shape
<1>3. /\ UNCHANGED <<store, nextLog, threadOf, active, home, unparked, gen, yielded, reader,
                     pumping, pumpLog>>
      /\ phase' = "stopping" /\ stale' = {}
      /\ slot' = [s \in Logs |-> NoTurn]
      /\ page' = [b \in Tabs |-> 0]
      /\ \A b \in Tabs : pumping[b] = NoTurn
      /\ awaited' = {slot[s] : s \in Logs} \ {NoTurn}
    BY DEF ShutDown, threadVars, genVars, LockedBy
<1>4. PICK U \in SUBSET Turns : U = awaited' /\ CloseEach(U, reader)
    BY <1>2, <1>3 DEF ShutDown
<1>5. \A x \in Turns : x \in U <=> Parked(x)
    BY <1>2, <1>3, <1>4 DEF Parked
<1>6. \A x \in Turns : ~Parked(x)' /\ ~Pumped(x)'
    BY <1>2, <1>3 DEF Parked, Pumped
<1>7. /\ joiners' \in [Turns -> Nat] /\ closers' \in [Turns -> Nat]
      /\ \A v \in Turns : joiners'[v] + closers'[v] =
             joiners[v] + closers[v] + (IF v \in U THEN 1 ELSE 0)
      /\ \A v \in Turns \ U : joiners'[v] = joiners[v] /\ closers'[v] = closers[v]
    BY <1>1, <1>4, CloseEachCounts
<1>8. StoreInv' /\ SlotInv'
    BY <1>1, <1>3 DEF StoreInv, StoreKeepsTheNewest, SlotInv
<1>9. HomeInv'
    BY <1>1, <1>3 DEF HomeInv
<1>10. FinishInv'
    <2>1. \A x \in Turns : joiners[x] \in Nat /\ closers[x] \in Nat
        BY <1>1 DEF Shape
    <2>2. \A x \in Turns : joiners'[x] + closers'[x] <= 2
        BY <2>1, <1>1, <1>5, <1>7 DEF FinishInv
    <2> QED BY <2>2, <1>3, <1>6 DEF FinishInv
<1>11. IdleInv'
    BY <1>1, <1>3, <1>5, <1>6, <1>7 DEF IdleInv
<1>12. GenInv'
    BY <1>1, <1>3, <1>6 DEF GenInv
<1>13. Shape'
    <2>1. page' \in [Tabs -> 0 .. MaxLogs]
        BY <1>3, StoreAssumption
    <2>2. slot' \in [Logs -> Turns \cup {NoTurn}] /\ awaited' \subseteq Turns
        BY <1>3, <1>4
    <2> QED BY <2>1, <2>2, <1>1, <1>3, <1>7 DEF Shape
<1> QED BY <1>8, <1>9, <1>10, <1>11, <1>12, <1>13 DEF IInv

\* Initially nothing exists.
LEMMA InitIInv == Init => IInv
<1> SUFFICES ASSUME Init PROVE IInv
    OBVIOUS
<1>1. MaxLogs \in Nat \ {0} /\ MaxThreads \in Nat \ {0}
    BY StoreAssumption
<1>2. Shape
    BY <1>1 DEF Init, Shape, Logs
<1>3. StoreInv
    BY <1>1 DEF Init, StoreInv, StoreKeepsTheNewest, Logs
<1>4. HomeInv
    BY <1>1 DEF Init, HomeInv, Logs
<1>5. SlotInv
    BY DEF Init, SlotInv, Pairs
<1>6. FinishInv /\ IdleInv /\ GenInv
    BY TurnAssumption DEF Init, FinishInv, IdleInv, GenInv, Parked, Pumped
<1> QED BY <1>2, <1>3, <1>4, <1>5, <1>6 DEF IInv

\* A turn starts: the abandoned are swept, the new one is parked or is live alone
\* (start_turn).
LEMMA StartTurnKeeps ==
    ASSUME IInv, NEW u \in Turns, NEW t \in Logs, StartTurn(u, t)
    PROVE  IInv'
<1>1. /\ Shape /\ StoreInv /\ HomeInv /\ SlotInv /\ FinishInv /\ IdleInv /\ GenInv
    BY DEF IInv
<1> DEFINE l == LogOf(t)
           T == Abandoned(slot, stale, LockedBy(Tabs))
<1>2. /\ phase = "serving" /\ home[u] = 0 /\ active[l] = NoTurn
      /\ l \in store /\ l \in Logs /\ threadOf[l] = t /\ l < nextLog
      /\ \A m \in store : threadOf[m] = t => m = l
    BY <1>1, StoredThreads DEF StartTurn
<1>3. /\ active \in [Logs -> Turns \cup {NoTurn}]
      /\ slot \in [Logs -> Turns \cup {NoTurn}]
      /\ gen \in [Turns -> {"none", "fresh", "suspended", "running", "closing", "closed"}]
      /\ home \in [Turns -> 0 .. MaxLogs]
      /\ pumping \in [Tabs -> Turns \cup {NoTurn}]
      /\ store \subseteq Logs /\ unparked \subseteq Turns /\ stale \subseteq Turns
      /\ NoTurn \notin Turns /\ 0 \notin Logs
    BY <1>1, TurnAssumption DEF Shape, Logs
<1>4. /\ UNCHANGED <<phase, store, nextLog, threadOf, yielded, reader, page, pumping, pumpLog,
                     awaited>>
      /\ home' = [home EXCEPT ![u] = l]
      /\ stale' \subseteq Turns
    BY <1>3 DEF StartTurn, threadVars, tabVars
<1>5. /\ active' = SweptActive([active EXCEPT ![l] = u], slot, T)
      /\ CloseEach(Swept(slot, T), reader)
    BY DEF StartTurn, Swept
<1>6. \/ /\ slot' = [SweptSlot(slot, T) EXCEPT ![t] = u]
         /\ gen' = [gen EXCEPT ![u] = "fresh"]
         /\ unparked' = unparked
      \/ /\ slot' = SweptSlot(slot, T)
         /\ unparked' = unparked \cup {u}
         /\ gen' = gen
    BY DEF StartTurn
<1>7. gen[u] = "none" /\ u \notin unparked /\ ~Parked(u) /\ ~Pumped(u)
      /\ reader[u] = "none" /\ joiners[u] = 0 /\ closers[u] = 0
    BY <1>1, <1>2 DEF IdleInv
<1>8. /\ T \subseteq Logs
      /\ \A s \in T : slot[s] \in Turns /\ ~Pumped(slot[s])
    <2>1. T = {s \in Logs : slot[s] \in stale \ LockedBy(Tabs)}
        BY DEF Abandoned
    <2> HIDE DEF T
    <2> QED BY <2>1, <1>3 DEF LockedBy, Pumped
<1> HIDE DEF T, l
<1>9. \A m \in Logs : active'[m] = IF m \in store /\ threadOf[m] \in T /\ m # l
                                       /\ active[m] = slot[threadOf[m]]
                                    THEN NoTurn ELSE IF m = l THEN u ELSE active[m]
    <2>1. \A m \in Logs :
            active'[m] = IF m \in store /\ threadOf[m] \in T
                              /\ [active EXCEPT ![l] = u][m] = slot[threadOf[m]]
                         THEN NoTurn ELSE [active EXCEPT ![l] = u][m]
        BY <1>5 DEF SweptActive
    <2>2. slot[t] # u
        BY <1>7 DEF Parked
    <2> QED BY <2>1, <2>2, <1>2, <1>3
<1>10. /\ \A s \in Logs : s # t => slot'[s] = IF s \in T THEN NoTurn ELSE slot[s]
       /\ \/ slot'[t] = u /\ gen' = [gen EXCEPT ![u] = "fresh"] /\ unparked' = unparked
          \/ /\ slot'[t] = IF t \in T THEN NoTurn ELSE slot[t]
             /\ unparked' = unparked \cup {u} /\ gen' = gen
    BY <1>6 DEF SweptSlot
<1>11. active' \in [Logs -> Turns \cup {NoTurn}] /\ slot' \in [Logs -> Turns \cup {NoTurn}]
    <2>1. [active EXCEPT ![l] = u] \in [Logs -> Turns \cup {NoTurn}]
        BY <1>3
    <2>2. active' \in [Logs -> Turns \cup {NoTurn}]
        BY <2>1, <1>5 DEF SweptActive
    <2>3. SweptSlot(slot, T) \in [Logs -> Turns \cup {NoTurn}]
        BY <1>3 DEF SweptSlot
    <2>4. slot' \in [Logs -> Turns \cup {NoTurn}]
        BY <2>3, <1>6
    <2> QED BY <2>2, <2>4
<1>12. \A x \in Turns : x \in Swept(slot, T) => Parked(x) /\ ~Pumped(x) /\ x # u
    BY <1>3, <1>7, <1>8 DEF Swept, Parked
<1>13. \A x \in Turns : Parked(x)' => (x = u /\ gen'[u] = "fresh") \/ (Parked(x) /\ x \notin Swept(slot, T))
    <2>1. \A s, r \in Logs : slot[s] = slot[r] /\ slot[s] # NoTurn => s = r
        BY <1>1 DEF HomeInv
    <2>2. ASSUME NEW x \in Turns, NEW s \in Logs, slot'[s] = x, ~(x = u /\ gen'[u] = "fresh")
          PROVE  Parked(x) /\ x \notin Swept(slot, T)
        <3>1. slot[s] = x /\ s \notin T
            BY <2>2, <1>3, <1>10
        <3> QED BY <3>1, <2>1, <1>3, <1>8 DEF Parked, Swept
    <2> QED BY <2>2 DEF Parked
<1>14. \A x \in Turns : Pumped(x)' <=> Pumped(x)
    BY <1>4 DEF Pumped
<1>15. /\ joiners' \in [Turns -> Nat] /\ closers' \in [Turns -> Nat]
       /\ \A v \in Turns : joiners'[v] + closers'[v] =
              joiners[v] + closers[v] + (IF v \in Swept(slot, T) THEN 1 ELSE 0)
       /\ \A v \in Turns \ Swept(slot, T) : joiners'[v] = joiners[v] /\ closers'[v] = closers[v]
    <2>1. PICK U \in SUBSET Turns : U = Swept(slot, T) /\ CloseEach(U, reader)
        BY <1>5, <1>8 DEF Swept
    <2> QED BY <2>1, <1>1, CloseEachCounts
<1>16. \A x \in Turns : home'[x] = IF x = u THEN l ELSE home[x]
    BY <1>3, <1>4
<1>17. StoreInv'
    BY <1>1, <1>4 DEF StoreInv, StoreKeepsTheNewest
<1>18. HomeInv'
    <2>1. \A m \in Logs : active[m] # u
        BY <1>1, <1>2, <1>3 DEF HomeInv
    <2>2. \A s \in Logs : slot[s] # u
        BY <1>7 DEF Parked
    <2>3. \A c \in Tabs : pumping[c] # u
        BY <1>7 DEF Pumped
    <2>4. \A x \in Turns : home'[x] < nextLog'
        BY <1>1, <1>2, <1>4, <1>16 DEF HomeInv
    <2>5. \A m \in Logs : active'[m] # NoTurn => home'[active'[m]] = m
        BY <2>1, <1>1, <1>3, <1>9, <1>16 DEF HomeInv
    <2>6. \A s \in Logs : slot'[s] # NoTurn =>
              home'[slot'[s]] \in Logs /\ threadOf'[home'[slot'[s]]] = s
        BY <2>2, <1>1, <1>2, <1>3, <1>4, <1>10, <1>16 DEF HomeInv
    <2>7. ASSUME NEW c \in Tabs, pumping'[c] # NoTurn
          PROVE  /\ home'[pumping'[c]] \in Logs
                 /\ pumpLog'[c] \in Logs /\ pumpLog'[c] < nextLog'
                 /\ threadOf'[pumpLog'[c]] = threadOf'[home'[pumping'[c]]]
                 /\ home'[pumping'[c]] \in store' => pumpLog'[c] = home'[pumping'[c]]
        <3>1. pumping[c] \in Turns /\ home'[pumping[c]] = home[pumping[c]]
            BY <2>3, <2>7, <1>3, <1>4, <1>16
        <3> QED BY <3>1, <2>7, <1>1, <1>4 DEF HomeInv
    <2> QED BY <2>4, <2>5, <2>6, <2>7 DEF HomeInv
<1>19. SlotInv'
    <2>1. /\ \A m \in store : active[m] # NoTurn =>
               slot[threadOf[m]] = active[m] \/ active[m] \in unparked
          /\ \A s \in Logs : (slot[s] # NoTurn /\ home[slot[s]] \in store) =>
               active[home[slot[s]]] = slot[s]
        BY <1>1, <1>2 DEF SlotInv, Pairs
    <2>2. ASSUME NEW m \in store, active'[m] # NoTurn
          PROVE  slot'[threadOf[m]] = active'[m] \/ active'[m] \in unparked'
        <3>1. m \in Logs /\ threadOf[m] \in Logs
            BY <1>1, StoredThreads
        <3>2. CASE m = l
            BY <3>2, <1>2, <1>9, <1>10
        <3>3. CASE m # l
            <4>1. threadOf[m] # t
                BY <3>3, <1>2
            <4>2. active'[m] = active[m]
                  /\ ~(threadOf[m] \in T /\ active[m] = slot[threadOf[m]])
                BY <3>1, <3>3, <2>2, <1>9
            <4>3. slot'[threadOf[m]] = IF threadOf[m] \in T THEN NoTurn ELSE slot[threadOf[m]]
                BY <4>1, <3>1, <1>10
            <4> QED BY <4>2, <4>3, <2>1, <2>2, <1>10
        <3> QED BY <3>2, <3>3
    <2>3. ASSUME NEW s \in Logs, slot'[s] # NoTurn, home'[slot'[s]] \in store
          PROVE  active'[home'[slot'[s]]] = slot'[s]
        <3>1. CASE slot'[s] = u
            <4>1. home'[u] = l
                BY <1>16
            <4> QED BY <4>1, <3>1, <1>2, <1>9
        <3>2. CASE slot'[s] # u
            <4>1. slot'[s] = slot[s] /\ s \notin T /\ slot[s] \in Turns
                BY <3>2, <2>3, <1>3, <1>10
            <4>2. home'[slot[s]] = home[slot[s]]
                BY <4>1, <3>2, <1>16
            <4>3. threadOf[home[slot[s]]] = s /\ home[slot[s]] \in Logs
                BY <4>1, <1>1, <1>3 DEF HomeInv
            <4>4. active[home[slot[s]]] = slot[s]
                BY <4>1, <4>2, <2>1, <2>3
            <4>5. home[slot[s]] # l
                BY <4>1, <4>4, <1>2, <1>3
            <4> QED BY <4>1, <4>2, <4>3, <4>4, <4>5, <1>9
        <3> QED BY <3>1, <3>2
    <2> QED BY <2>2, <2>3, <1>4 DEF SlotInv, Pairs
<1>20. FinishInv'
    <2>1. \A x \in Turns : joiners[x] \in Nat /\ closers[x] \in Nat
                           /\ joiners'[x] \in Nat /\ closers'[x] \in Nat
        BY <1>1, <1>15 DEF Shape
    <2>2. \A x \in Turns : Parked(x)' => joiners'[x] = 0 /\ closers'[x] = 0
        BY <1>1, <1>7, <1>12, <1>13, <1>15 DEF FinishInv
    <2>3. \A x \in Turns : Pumped(x)' => joiners'[x] + closers'[x] <= 1
        BY <2>1, <1>1, <1>12, <1>14, <1>15 DEF FinishInv
    <2>4. \A x \in Turns : joiners'[x] + closers'[x] <= 2
        BY <2>1, <1>1, <1>12, <1>15 DEF FinishInv
    <2> QED BY <2>2, <2>3, <2>4, <1>1, <1>4 DEF FinishInv
<1>21. IdleInv'
    <2>1. \A x \in Turns : home'[x] = 0 => x \notin unparked' /\ gen'[x] = "none"
        BY <1>1, <1>2, <1>3, <1>10, <1>16 DEF IdleInv
    <2>2. ASSUME NEW x \in Turns, gen'[x] = "none"
          PROVE  /\ ~Parked(x)' /\ ~Pumped(x)'
                 /\ reader'[x] = "none" /\ joiners'[x] = 0 /\ closers'[x] = 0
        <3>1. gen[x] = "none"
            BY <2>2, <1>3, <1>7, <1>10
        <3>2. ~Parked(x) /\ ~Pumped(x) /\ reader[x] = "none" /\ joiners[x] = 0 /\ closers[x] = 0
            BY <3>1, <1>1 DEF IdleInv
        <3>3. x \notin Swept(slot, T)
            BY <3>2, <1>12
        <3> QED BY <3>2, <3>3, <2>2, <1>4, <1>13, <1>14, <1>15
    <2>3. \A x \in unparked' : gen'[x] = "none"
        BY <1>1, <1>3, <1>7, <1>10 DEF IdleInv
    <2> QED BY <2>1, <2>2, <2>3 DEF IdleInv
<1>22. GenInv'
    <2>1. \A x \in Turns : gen'[x] = "running" <=> reader'[x] = "reading"
        BY <1>1, <1>3, <1>4, <1>7, <1>10 DEF GenInv
    <2>2. \A x \in Turns : Parked(x)' => gen'[x] # "closing" /\ reader'[x] # "reentered"
        BY <1>1, <1>3, <1>4, <1>7, <1>10, <1>13 DEF GenInv
    <2> QED BY <2>1, <2>2 DEF GenInv
<1>23. Shape'
    <2>1. gen' \in [Turns -> {"none", "fresh", "suspended", "running", "closing", "closed"}]
          /\ unparked' \subseteq Turns
        BY <1>3, <1>10
    <2>2. home' \in [Turns -> 0 .. MaxLogs]
        BY <1>2, <1>3, <1>4 DEF Logs
    <2> QED BY <2>1, <2>2, <1>1, <1>4, <1>11, <1>15 DEF Shape
<1> QED BY <1>17, <1>18, <1>19, <1>20, <1>21, <1>22, <1>23 DEF IInv

-----------------------------------------------------------------------------
(* The invariant                                                           *)

\* Every step of a route, a poll, a thread, the clock or a page keeps IInv.
LEMMA NextIInv == IInv /\ [Next]_vars => IInv'
<1> SUFFICES ASSUME IInv, [Next]_vars
             PROVE  IInv'
    OBVIOUS
<1>1. CASE CreateThread
    BY <1>1, CreateThreadKeeps
<1>2. ASSUME NEW u \in Turns, NEW t \in Logs, StartTurn(u, t)
      PROVE  IInv'
    BY <1>2, StartTurnKeeps
<1>3. ASSUME NEW u \in Turns, NEW t \in Logs, Interrupt(u, t)
      PROVE  IInv'
    BY <1>3, InterruptKeeps
<1>4. ASSUME NEW b \in Tabs, PollStart(b)
      PROVE  IInv'
    BY <1>4, PollStartKeeps
<1>5. ASSUME NEW b \in Tabs, PollEnds(b)
      PROVE  IInv'
    BY <1>5, PollEndsKeeps
<1>6. ASSUME NEW u \in Turns, ReaderStep(u)
      PROVE  IInv'
    BY <1>6, ReaderEntersKeeps, ReaderPostsKeeps DEF ReaderStep
<1>7. ASSUME NEW u \in Turns, CleanUp(u)
      PROVE  IInv'
    BY <1>7, CleanUpKeeps
<1>8. CASE \/ \E u \in Turns : GoesStale(u)
           \/ \E b \in Tabs, t \in Logs : OpenPage(b, t)
           \/ \E b \in Tabs : ClosePage(b)
           \/ Exit
           \/ UNCHANGED vars
    BY <1>8, OthersKeep
<1>9. CASE ShutDown
    BY <1>9, ShutDownKeeps
<1> QED BY <1>1, <1>2, <1>3, <1>4, <1>5, <1>6, <1>7, <1>8, <1>9 DEF Next

LEMMA AlwaysIInv == Spec => []IInv
BY InitIInv, NextIInv, PTL DEF Spec

\* A turn is finished at most twice, by whoever drops its slot and by the poll that was
\* inside it then; and every variable has its type.
THEOREM TurnsTypeCorrect == Spec => []TypeOK
<1>1. ASSUME IInv
      PROVE  TypeOK
    <2>1. Shape /\ FinishInv
        BY <1>1 DEF IInv
    <2>2. joiners \in [Turns -> 0 .. 2] /\ closers \in [Turns -> 0 .. 2]
        <3>1. joiners \in [Turns -> Nat] /\ closers \in [Turns -> Nat]
            BY <2>1 DEF Shape
        <3>2. \A u \in Turns : joiners[u] + closers[u] <= 2
            BY <2>1 DEF FinishInv
        <3>3. \A u \in Turns : joiners[u] \in 0 .. 2 /\ closers[u] \in 0 .. 2
            BY <3>1, <3>2
        <3> QED BY <3>1, <3>3
    <2> QED BY <2>1, <2>2 DEF Shape, TypeOK
<1> QED BY <1>1, AlwaysIInv, PTL

\* The store holds exactly the newest MaxThreads logs, and one log per thread id.
THEOREM NewestKept == Spec => []StoreKeepsTheNewest
<1>1. IInv => StoreKeepsTheNewest
    BY DEF IInv, StoreInv
<1> QED BY <1>1, AlwaysIInv, PTL

\* The live turn of a stored thread is the one its slot holds, so it can be advanced,
\* reaped and finished; a turn whose parking raised is the only exception.
THEOREM NeverWedged == Spec => []NoWedge
<1>1. ASSUME IInv
      PROVE  NoWedge
    <2> SUFFICES ASSUME phase = "serving", NEW l \in store, active[l] # NoTurn
                 PROVE  active[l] = slot[threadOf[l]] \/ active[l] \in unparked
        BY DEF NoWedge
    <2> QED BY <1>1 DEF IInv, SlotInv, Pairs
<1> QED BY <1>1, AlwaysIInv, PTL

\* A live turn is not being closed, and nobody is about to.
LEMMA LiveIsNotClosed == IInv => OnlyEndedTurnsAreClosed
<1> SUFFICES ASSUME IInv, phase = "serving", NEW l \in store, active[l] # NoTurn
             PROVE  /\ gen[active[l]] # "closing"
                    /\ joiners[active[l]] = 0 /\ closers[active[l]] = 0
    BY DEF OnlyEndedTurnsAreClosed
<1>1. Shape /\ StoreInv /\ SlotInv /\ FinishInv /\ IdleInv /\ GenInv
    BY DEF IInv
<1>2. l \in Logs /\ threadOf[l] \in Logs /\ active[l] \in Turns
    BY <1>1, StoredThreads DEF Shape
<1>3. Parked(active[l]) \/ active[l] \in unparked
    BY <1>1, <1>2 DEF SlotInv, Pairs, Parked
<1>4. CASE Parked(active[l])
    BY <1>1, <1>2, <1>4 DEF FinishInv, GenInv
<1>5. CASE active[l] \in unparked
    BY <1>1, <1>2, <1>5 DEF IdleInv
<1> QED BY <1>3, <1>4, <1>5

\* Nobody is about to close the generator of a live turn: a turn ends in its log before,
\* or in the same step as, its generator is given to a finishing thread.
THEOREM ClosedAfterTheEnd == Spec => []OnlyEndedTurnsAreClosed
BY LiveIsNotClosed, AlwaysIInv, PTL

-----------------------------------------------------------------------------
(* No live turn is entered twice                                           *)

\* After the lifespan nobody polls, and whoever closes a live turn waits for its reader.
StoppedInv ==
    phase # "serving" =>
        /\ \A b \in Tabs : pumping[b] = NoTurn
        /\ \A l \in store : active[l] # NoTurn =>
              /\ reader[active[l]] # "reentered"
              /\ Outstanding(reader, active[l]) =>
                    gen[active[l]] # "closing" /\ closers[active[l]] = 0

\* StoppedInv comes about at shutdown and is kept by the threads that are left.
LEMMA NextStopped == IInv /\ StoppedInv /\ [Next]_vars => StoppedInv'
<1> SUFFICES ASSUME IInv, StoppedInv, [Next]_vars, phase' # "serving"
             PROVE  StoppedInv'
    BY DEF StoppedInv
<1>1. /\ Shape /\ StoreInv /\ SlotInv /\ FinishInv /\ IdleInv /\ GenInv
    BY DEF IInv
<1>2. /\ active \in [Logs -> Turns \cup {NoTurn}] /\ slot \in [Logs -> Turns \cup {NoTurn}]
      /\ reader \in [Turns -> Posted \cup {"none", "starting", "reading"}]
      /\ gen \in [Turns -> {"none", "fresh", "suspended", "running", "closing", "closed"}]
      /\ joiners \in [Turns -> Nat] /\ closers \in [Turns -> Nat]
      /\ store \subseteq Logs /\ NoTurn \notin Turns
      /\ \A l \in store : threadOf[l] \in Logs
    BY <1>1, TurnAssumption, StoredThreads DEF Shape
<1>3. CASE ShutDown
    <2>1. /\ UNCHANGED <<store, active, gen, reader, pumping>>
          /\ \A b \in Tabs : pumping[b] = NoTurn
          /\ phase = "serving"
          /\ awaited' = {slot[s] : s \in Logs} \ {NoTurn}
          /\ CloseEach(awaited', reader)
        BY <1>3 DEF ShutDown, threadVars, genVars, LockedBy
    <2>2. ASSUME NEW l \in store, active[l] # NoTurn
          PROVE  /\ reader[active[l]] # "reentered"
                 /\ Outstanding(reader, active[l]) =>
                        gen[active[l]] # "closing" /\ closers'[active[l]] = 0
        <3>1. l \in Logs /\ threadOf[l] \in Logs /\ active[l] \in Turns
            BY <2>2, <1>2
        <3>2. slot[threadOf[l]] = active[l] \/ active[l] \in unparked
            BY <2>1, <2>2, <1>1 DEF SlotInv, Pairs
        <3>3. CASE slot[threadOf[l]] = active[l]
            <4>1. Parked(active[l])
                BY <3>1, <3>3 DEF Parked
            <4>2. Outstanding(reader, active[l]) => closers'[active[l]] = closers[active[l]]
                BY <3>1, <2>1, <1>2 DEF CloseEach
            <4> QED BY <3>1, <4>1, <4>2, <1>1 DEF FinishInv, GenInv
        <3>4. CASE active[l] \in unparked
            BY <3>1, <3>4, <1>1 DEF IdleInv, Outstanding
        <3> QED BY <3>2, <3>3, <3>4
    <2> QED BY <2>1, <2>2 DEF StoppedInv, Outstanding
<1>4. CASE phase # "serving"
    <2>1. /\ \A b \in Tabs : pumping[b] = NoTurn
          /\ \A l \in store : active[l] # NoTurn =>
                /\ reader[active[l]] # "reentered"
                /\ Outstanding(reader, active[l]) =>
                      gen[active[l]] # "closing" /\ closers[active[l]] = 0
        BY <1>4 DEF StoppedInv
    <2>2. ASSUME NEW u \in Turns, ReaderEnters(u)
          PROVE  StoppedInv'
        <3>1. UNCHANGED <<store, active, pumping>> /\ reader[u] = "starting"
            BY <2>2 DEF ReaderEnters, threadVars, turnVars, tabVars
        <3>2. \A v \in Turns \ {u} : /\ reader'[v] = reader[v] /\ gen'[v] = gen[v]
                                     /\ closers'[v] = closers[v]
            BY <2>2, <1>2 DEF ReaderEnters, Post, closeVars
        <3>3. gen[u] # "running"
            BY <3>1, <1>1 DEF GenInv
        <3>4. gen[u] # "closing" /\ closers[u] = 0 =>
                /\ reader'[u] # "reentered"
                /\ Outstanding(reader', u) => gen'[u] # "closing" /\ closers'[u] = 0
            BY <3>1, <3>3, <2>2, <1>2 DEF ReaderEnters, Post, closeVars, Outstanding
        <3> QED BY <3>1, <3>2, <3>4, <2>1, <1>2 DEF StoppedInv, Outstanding
    <2>3. ASSUME NEW u \in Turns, ReaderPosts(u)
          PROVE  StoppedInv'
        <3>1. UNCHANGED <<store, active, pumping>>
            BY <2>3 DEF ReaderPosts, threadVars, turnVars, tabVars
        <3>2. \A v \in Turns \ {u} : /\ reader'[v] = reader[v] /\ gen'[v] = gen[v]
                                     /\ closers'[v] = closers[v]
            BY <2>3, <1>2 DEF ReaderPosts, Post
        <3>3. reader'[u] # "reentered" /\ ~Outstanding(reader', u)
            BY <2>3, <1>2 DEF ReaderPosts, Post, Outstanding, Yields
        <3> QED BY <3>1, <3>2, <3>3, <2>1, <1>2 DEF StoppedInv, Outstanding
    <2>4. ASSUME NEW u \in Turns, CleanUp(u)
          PROVE  StoppedInv'
        <3>1. UNCHANGED <<store, active, pumping, reader>>
            BY <2>4 DEF CleanUp, CloserCloses, FinallyDone, Collected, threadVars, turnVars,
                        tabVars
        <3>2. \A v \in Turns : /\ closers[v] = 0 => closers'[v] = 0
                               /\ gen'[v] = "closing" => gen[v] = "closing" \/ closers[v] # 0
            BY <2>4, <1>2 DEF CleanUp, CloserCloses, FinallyDone, Collected, closeVars
        <3> QED BY <3>1, <3>2, <2>1, <1>2 DEF StoppedInv, Outstanding
    <2>5. CASE Exit \/ UNCHANGED vars
        BY <2>1, <2>5 DEF Exit, vars, threadVars, turnVars, genVars, closeVars, tabVars,
                          StoppedInv, Outstanding
    <2>6. \A b \in Tabs : ~PollEnds(b)
        BY <2>1 DEF PollEnds, PollReadsOn, PollSliceOver, PollEndsTurn, PollTimesOut
    <2> QED BY <2>2, <2>3, <2>4, <2>5, <2>6, <1>4
            DEF Next, CreateThread, StartTurn, Interrupt, PollStart, ReaderStep, GoesStale,
                OpenPage, ClosePage, ShutDown
<1>5. CASE phase = "serving" /\ ~ShutDown
    BY <1>5
    DEF Next, CreateThread, StartTurn, Interrupt, PollStart, PollEnds, PollReadsOn,
        PollSliceOver, PollEndsTurn, PollTimesOut, Serve, ReaderStep, ReaderEnters, ReaderPosts,
        CleanUp, CloserCloses, FinallyDone, Collected, GoesStale, OpenPage, ClosePage, Exit, vars
<1> QED BY <1>3, <1>4, <1>5

\* A reader never enters the generator of a turn that is still live, neither while
\* another reader is inside nor while it is being closed.
THEOREM NeverReentered == Spec => []LiveTurnIsNotReentered
<1>1. Init => StoppedInv
    BY DEF Init, StoppedInv
<1>2. Spec => [](IInv /\ StoppedInv)
    BY InitIInv, NextIInv, NextStopped, <1>1, PTL DEF Spec
<1>3. ASSUME IInv, StoppedInv
      PROVE  LiveTurnIsNotReentered
    <2> SUFFICES ASSUME NEW l \in store, active[l] # NoTurn
                 PROVE  reader[active[l]] # "reentered"
        BY DEF LiveTurnIsNotReentered
    <2>1. Shape /\ StoreInv /\ SlotInv /\ IdleInv /\ GenInv
        BY <1>3 DEF IInv
    <2>2. l \in Logs /\ threadOf[l] \in Logs /\ active[l] \in Turns
        BY <2>1, StoredThreads DEF Shape
    <2>3. CASE phase = "serving"
        <3>1. Parked(active[l]) \/ active[l] \in unparked
            BY <2>1, <2>2, <2>3 DEF SlotInv, Pairs, Parked
        <3> QED BY <3>1, <2>1, <2>2 DEF IdleInv, GenInv
    <2> QED BY <2>3, <1>3 DEF StoppedInv
<1> QED BY <1>2, <1>3, PTL

-----------------------------------------------------------------------------
(* Shutdown                                                                *)

\* Who is waited for, and what became of them.
AwaitedInv ==
    /\ phase # "serving" => \A u \in Turns : Live(u) => u \in awaited \cup unparked
    /\ phase = "exited" => \A u \in awaited : gen[u] = "closed" \/ reader[u] = "reading"

\* The lifespan finds every live turn in its slot, and after it no turn starts.
LEMMA NextAwaited == IInv /\ StoppedInv /\ AwaitedInv /\ [Next]_vars => AwaitedInv'
<1> SUFFICES ASSUME IInv, StoppedInv, AwaitedInv, [Next]_vars, phase' # "serving"
             PROVE  AwaitedInv'
    BY DEF AwaitedInv
<1>1. Shape /\ StoreInv /\ SlotInv /\ GenInv
    BY DEF IInv
<1>2. CASE ShutDown
    <2>1. /\ UNCHANGED <<store, active, unparked>>
          /\ phase = "serving" /\ phase' = "stopping"
          /\ awaited' = {slot[s] : s \in Logs} \ {NoTurn}
        BY <1>2 DEF ShutDown, threadVars
    <2>2. ASSUME NEW u \in Turns, Live(u) PROVE u \in awaited' \cup unparked
        <3>1. PICK l \in store : active[l] = u
            BY <2>2 DEF Live
        <3>2. threadOf[l] \in Logs /\ u # NoTurn
            BY <1>1, TurnAssumption, StoredThreads
        <3>3. slot[threadOf[l]] = u \/ u \in unparked
            BY <3>1, <3>2, <2>1, <1>1 DEF SlotInv, Pairs
        <3> QED BY <3>2, <3>3, <2>1
    <2> QED BY <2>1, <2>2 DEF AwaitedInv, Live
<1>3. CASE phase # "serving"
    <2>1. \A b \in Tabs : pumping[b] = NoTurn
        BY <1>3 DEF StoppedInv
    <2>2. UNCHANGED <<store, active, unparked, awaited>>
        <3>1. \A b \in Tabs : ~PollEnds(b)
            BY <2>1 DEF PollEnds, PollReadsOn, PollSliceOver, PollEndsTurn, PollTimesOut
        <3> QED BY <3>1, <1>3
            DEF Next, CreateThread, StartTurn, Interrupt, PollStart, ReaderStep, ReaderEnters,
                ReaderPosts, CleanUp, CloserCloses, FinallyDone, Collected, GoesStale, OpenPage,
                ClosePage, ShutDown, Exit, vars, threadVars, turnVars
    <2>3. \A u \in Turns : Live(u)' => u \in awaited' \cup unparked'
        BY <1>3, <2>2 DEF AwaitedInv, Live
    <2>4. CASE Exit
        <3>1. \A u \in awaited : u \in Turns /\ (gen[u] = "closed" \/ gen[u] = "running")
            BY <2>4, <1>1 DEF Exit, Shape
        <3> QED BY <2>3, <2>4, <3>1, <1>1 DEF Exit, genVars, GenInv, AwaitedInv
    <2>5. CASE phase = "exited"
        <3>1. UNCHANGED <<gen, reader>>
            <4>1. \A b \in Tabs : ~PollEnds(b)
                BY <2>1 DEF PollEnds, PollReadsOn, PollSliceOver, PollEndsTurn, PollTimesOut
            <4> QED BY <4>1, <2>5
                DEF Next, CreateThread, StartTurn, Interrupt, PollStart, ReaderStep,
                    ReaderEnters, ReaderPosts, CleanUp, CloserCloses, FinallyDone, Collected,
                    GoesStale, OpenPage, ClosePage, ShutDown, Exit, vars
        <3> QED BY <2>2, <2>3, <2>5, <3>1 DEF AwaitedInv
    <2>6. CASE phase' # "exited"
        BY <2>3, <2>6 DEF AwaitedInv
    <2>7. phase' = "exited" => Exit \/ phase = "exited"
        BY DEF Next, CreateThread, StartTurn, Interrupt, PollStart, PollEnds, PollReadsOn,
               PollSliceOver, PollEndsTurn, PollTimesOut, Serve, ReaderStep, ReaderEnters,
               ReaderPosts, CleanUp, CloserCloses, FinallyDone, Collected, GoesStale, OpenPage,
               ClosePage, ShutDown, vars
    <2> QED BY <2>4, <2>5, <2>6, <2>7
<1>4. CASE phase = "serving" /\ ~ShutDown
    BY <1>4
    DEF Next, CreateThread, StartTurn, Interrupt, PollStart, PollEnds, PollReadsOn,
        PollSliceOver, PollEndsTurn, PollTimesOut, Serve, ReaderStep, ReaderEnters, ReaderPosts,
        CleanUp, CloserCloses, FinallyDone, Collected, GoesStale, OpenPage, ClosePage, Exit, vars
<1> QED BY <1>2, <1>3, <1>4

\* Of a turn that was live at shutdown no generator is open at exit, unless a reader is
\* still inside it.
THEOREM ShutsDownTheLive == Spec => []LiveTurnsAreShutDown
<1>1. Init => StoppedInv /\ AwaitedInv
    BY DEF Init, StoppedInv, AwaitedInv
<1>2. Spec => [](IInv /\ StoppedInv /\ AwaitedInv)
    BY InitIInv, NextIInv, NextStopped, NextAwaited, <1>1, PTL DEF Spec
<1>3. AwaitedInv => LiveTurnsAreShutDown
    BY DEF AwaitedInv, LiveTurnsAreShutDown
<1> QED BY <1>2, <1>3, PTL

-----------------------------------------------------------------------------
(* How turns begin and end                                                 *)

\* At the end of a poll turns only end, and nothing else is learnt about them.
LEMMA ServeEnds ==
    ASSUME NEW b, NEW t, NEW act, NEW slt, NEW old, NEW finished, NEW rdr,
           \A l \in Logs : act[l] \in {active[l], NoTurn},
           Serve(b, t, act, slt, old, finished, rdr)
    PROVE  /\ \A l \in Logs : active'[l] \in {active[l], NoTurn}
           /\ home' = home /\ unparked' = unparked
           /\ Access(t)
BY DEF Serve, SweptActive

\* What the log l shows of a step: a turn of it started, or its live turn at most ended.
TurnsOn(l) ==
    \/ /\ active'[l] \in {active[l], NoTurn}
       /\ \A u \in Turns : home[u] = l <=> home'[u] = l
    \/ /\ active[l] = NoTurn
       /\ active'[l] \in Turns
       /\ \A u \in Turns : (home[u] = l \/ u = active'[l]) <=> home'[u] = l
       /\ home[active'[l]] # l

\* Turns start on a log that has no live turn, and keep that log; threads keep their ids.
LEMMA TurnsMove ==
    ASSUME IInv, [Next]_vars
    PROVE  /\ \A l \in Logs : TurnsOn(l)
           /\ \A u \in Turns : home[u] # 0 => home'[u] = home[u]
           /\ \A u \in unparked' \ unparked : home[u] = 0
           /\ \A l \in Logs : l < nextLog => threadOf'[l] = threadOf[l]
           /\ nextLog <= nextLog'
<1>1. /\ Shape /\ StoreInv /\ HomeInv /\ IdleInv
    BY DEF IInv
<1>2. /\ active \in [Logs -> Turns \cup {NoTurn}]
      /\ home \in [Turns -> 0 .. MaxLogs]
      /\ threadOf \in [Logs -> 0 .. MaxLogs]
      /\ NoTurn \notin Turns /\ 0 \notin Logs
      /\ \A l \in Logs : l \in Int
      /\ nextLog \in Int
    BY <1>1, TurnAssumption, StoreAssumption DEF Shape, Logs
<1> DEFINE Onwards == /\ \A l \in Logs : active'[l] \in {active[l], NoTurn}
                      /\ home' = home /\ unparked' = unparked
                      /\ UNCHANGED threadVars \/ \E t : Access(t)
           Goal == /\ \A l \in Logs : TurnsOn(l)
                   /\ \A u \in Turns : home[u] # 0 => home'[u] = home[u]
                   /\ \A u \in unparked' \ unparked : home[u] = 0
                   /\ \A l \in Logs : l < nextLog => threadOf'[l] = threadOf[l]
                   /\ nextLog <= nextLog'
<1>3. Onwards => Goal
    <2> SUFFICES ASSUME Onwards PROVE Goal
        OBVIOUS
    <2>1. \A l \in Logs : l < nextLog => threadOf'[l] = threadOf[l]
        BY <1>2 DEF Access, threadVars
    <2>2. nextLog <= nextLog'
        BY <1>2 DEF Access, threadVars
    <2> QED BY <2>1, <2>2 DEF TurnsOn
<1>4. ASSUME NEW u \in Turns, NEW t \in Logs, StartTurn(u, t)
      PROVE  Goal
    <2> DEFINE l == LogOf(t)
               T == Abandoned(slot, stale, LockedBy(Tabs))
    <2>1. l \in Logs /\ active[l] = NoTurn /\ home[u] = 0
        BY <1>1, <1>4, StoredThreads DEF StartTurn
    <2>2. /\ active' = SweptActive([active EXCEPT ![l] = u], slot, T)
          /\ home' = [home EXCEPT ![u] = l]
          /\ unparked' \subseteq unparked \cup {u}
          /\ UNCHANGED threadVars
        BY <1>4 DEF StartTurn
    <2>3. ~Parked(u)
        BY <2>1, <1>1 DEF IdleInv
    <2> HIDE DEF l, T
    <2>4. \A m \in Logs : m # l => active'[m] \in {active[m], NoTurn}
        BY <2>2, <1>2 DEF SweptActive
    <2>5. active'[l] \in {u, NoTurn}
        BY <2>1, <2>2, <1>2 DEF SweptActive
    <2>6. active'[l] = u
        <3>1. l \in store /\ threadOf[l] = t
            BY <1>1, <1>4, StoredThreads DEF StartTurn, l
        <3> QED BY <3>1, <2>1, <2>2, <2>3, <1>2 DEF SweptActive, Parked
    <2>7. \A v \in Turns : home'[v] = IF v = u THEN l ELSE home[v]
        BY <2>2, <1>2
    <2>8. \A m \in Logs : TurnsOn(m)
        BY <2>1, <2>4, <2>6, <2>7, <1>2 DEF TurnsOn
    <2> QED BY <2>1, <2>2, <2>7, <2>8, <1>2 DEF threadVars
<1>5. ASSUME NEW u \in Turns, NEW t \in Logs, Interrupt(u, t)
      PROVE  Onwards
    BY <1>2, <1>5 DEF Interrupt, Ended
<1>6. ASSUME NEW b \in Tabs, PollStart(b)
      PROVE  Onwards
    <2>1. CASE Serve(b, page[b], active, slot, stale \ {slot[page[b]]}, {}, reader)
        BY <2>1, ServeEnds
    <2>2. CASE UNCHANGED <<threadVars, turnVars>>
        BY <2>2 DEF turnVars
    <2> QED BY <1>6, <2>1, <2>2 DEF PollStart
<1>7. ASSUME NEW b \in Tabs, PollEnds(b)
      PROVE  Onwards
    <2>1. CASE PollReadsOn(b)
        BY <2>1 DEF PollReadsOn, turnVars
    <2>2. CASE PollSliceOver(b)
        BY <2>2, ServeEnds DEF PollSliceOver
    <2>3. CASE PollTimesOut(b)
        BY <2>3, ServeEnds DEF PollTimesOut
    <2>4. CASE PollEndsTurn(b)
        <3> DEFINE act == Ended(active, pumpLog[b], pumping[b])
        <3>1. \A l \in Logs : act[l] \in {active[l], NoTurn}
            BY <1>2 DEF Ended
        <3> HIDE DEF act
        <3>2. \E t, slt, old, finished, rdr : Serve(b, t, act, slt, old, finished, rdr)
            BY <2>4 DEF PollEndsTurn, act
        <3> QED BY <3>1, <3>2, ServeEnds
    <2> QED BY <1>7, <2>1, <2>2, <2>3, <2>4 DEF PollEnds
<1>8. ASSUME CreateThread PROVE Onwards
    BY <1>8 DEF CreateThread, turnVars
<1>9. UNCHANGED <<threadVars, active, home, unparked>> => Onwards
    OBVIOUS
<1>10. ASSUME ShutDown PROVE Onwards
    BY <1>10 DEF ShutDown
<1>11. ASSUME \/ \E u \in Turns : ReaderStep(u) \/ CleanUp(u) \/ GoesStale(u)
              \/ \E b \in Tabs, t \in Logs : OpenPage(b, t)
              \/ \E b \in Tabs : ClosePage(b)
              \/ Exit
              \/ UNCHANGED vars
       PROVE  Onwards
    <2>1. UNCHANGED <<threadVars, active, home, unparked>>
        BY <1>11 DEF ReaderStep, ReaderEnters, ReaderPosts, CleanUp, CloserCloses, FinallyDone,
                     Collected, GoesStale, OpenPage, ClosePage, Exit, vars, threadVars, turnVars
    <2> HIDE DEF Onwards
    <2> QED BY <2>1, <1>9
<1> HIDE DEF Onwards, Goal
<1>12. Goal
    BY <1>3, <1>4, <1>5, <1>6, <1>7, <1>8, <1>10, <1>11 DEF Next
<1> QED BY <1>12 DEF Goal

\* A parked turn and its slot end in one step, whichever of the poll, the sweep, the
\* user or a successor ends them.
THEOREM EndsTogether == Spec => EndsWithItsSlot
<1>1. ASSUME IInv, IInv', [Next]_vars,
             NEW t \in Logs, phase = "serving", phase' = "serving", slot[t] # NoTurn,
             home[slot[t]] \in store \cap store'
      PROVE  active'[home[slot[t]]] = slot[t] <=> slot'[t] = slot[t]
    <2> DEFINE u == slot[t]
               h == home[slot[t]]
    <2>1. /\ Shape /\ HomeInv /\ IdleInv /\ Pairs(active, slot)' /\ Shape'
        BY <1>1 DEF IInv, SlotInv
    <2>2. u \in Turns /\ h \in Logs /\ threadOf[h] = t /\ h < nextLog /\ 0 \notin Logs
        BY <1>1, <2>1 DEF Shape, HomeInv, Logs
    <2>3. Parked(u) /\ u \notin unparked
        BY <1>1, <2>1, <2>2 DEF Parked, IdleInv
    <2>4. /\ home'[u] = h
          /\ u \notin unparked'
          /\ threadOf'[h] = t
        BY <1>1, <2>2, <2>3, TurnsMove
    <2>5. h \in store'
        BY <1>1
    <2>6. slot'[t] = u => active'[h] = u
        BY <1>1, <2>1, <2>2, <2>4, <2>5 DEF Pairs
    <2>7. active'[h] = u => slot'[t] = u
        BY <1>1, <2>1, <2>2, <2>4, <2>5 DEF Pairs
    <2> QED BY <2>6, <2>7
<1>2. IInv /\ IInv' /\ [Next]_vars =>
        [\A t \in Logs :
          LET u == slot[t]
          IN  (phase = "serving" /\ phase' = "serving" /\ u # NoTurn
               /\ home[u] \in store \cap store')
              => (active'[home[u]] = u <=> slot'[t] = u)]_vars
    BY <1>1
<1> QED BY <1>2, AlwaysIInv, PTL DEF Spec, EndsWithItsSlot

\* While a poll is advancing a turn, nothing but the user's interrupt ends it: not the
\* sweep of another tab's poll or of a new turn, not another poll's result.
THEOREM PumpedEndsByStop == Spec => PumpedTurnEndsByStopOnly
<1>1. ASSUME IInv, [Next]_vars,
             NEW b \in Tabs, pumping[b] # NoTurn, pumping'[b] = pumping[b],
             active[pumpLog[b]] = pumping[b]
      PROVE  \/ active'[pumpLog[b]] = pumping[b]
             \/ \E t \in Logs : Interrupt(pumping[b], t)
    <2> DEFINE u == pumping[b]
               p == pumpLog[b]
    <2>1. /\ Shape /\ StoreInv /\ HomeInv /\ FinishInv
        BY <1>1 DEF IInv
    <2>2. u \in Turns /\ p \in Logs
        BY <1>1, PumpedThread
    <2>3. /\ active \in [Logs -> Turns \cup {NoTurn}]
          /\ slot \in [Logs -> Turns \cup {NoTurn}]
          /\ pumping \in [Tabs -> Turns \cup {NoTurn}]
          /\ NoTurn \notin Turns
        BY <2>1, TurnAssumption DEF Shape
    <2>4. \A c \in Tabs : c # b => pumping[c] # u
        BY <1>1, <2>1 DEF FinishInv
    <2>5. ASSUME NEW c \in Tabs, NEW t, NEW act, NEW slt, NEW old, NEW finished, NEW rdr,
                 act[p] = u,
                 Serve(c, t, act, slt, old, finished, rdr)
          PROVE  active'[p] = u
        <3>1. c # b
            BY <2>2, <2>3, <2>5, <1>1 DEF Serve
        <3>2. u \in LockedBy(Tabs \ {c})
            BY <3>1, <2>2, <2>3 DEF LockedBy
        <3>3. \A s \in Abandoned(slt, old, LockedBy(Tabs \ {c})) : slt[s] # u
            BY <3>2 DEF Abandoned
        <3> QED BY <3>3, <2>2, <2>5 DEF Serve, SweptActive
    <2>6. ASSUME NEW v \in Turns, NEW t \in Logs, StartTurn(v, t)
          PROVE  active'[p] = u
        <3>1. /\ LogOf(t) \in Logs /\ active[LogOf(t)] = NoTurn
              /\ active' = SweptActive([active EXCEPT ![LogOf(t)] = v], slot,
                                       Abandoned(slot, stale, LockedBy(Tabs)))
            BY <2>1, <2>6, StoredThreads DEF StartTurn
        <3>2. \A s \in Abandoned(slot, stale, LockedBy(Tabs)) : slot[s] # u
            BY <2>2, <2>3 DEF Abandoned, LockedBy
        <3>3. p # LogOf(t)
            BY <3>1, <1>1
        <3> QED BY <3>1, <3>2, <3>3, <2>2, <2>3, <1>1 DEF SweptActive
    <2>7. ASSUME NEW v \in Turns, NEW t \in Logs, Interrupt(v, t)
          PROVE  active'[p] = u \/ Interrupt(u, t)
        <3>1. active[LogOf(t)] = v /\ active' = Ended(active, LogOf(t), v)
            BY <2>7 DEF Interrupt
        <3>2. CASE v = u
            BY <3>2, <2>7
        <3>3. CASE v # u
            BY <3>1, <3>3, <2>2, <2>3, <1>1 DEF Ended
        <3> QED BY <3>2, <3>3
    <2>8. ASSUME NEW c \in Tabs, PollStart(c)
          PROVE  active'[p] = u
        <3>1. CASE Serve(c, page[c], active, slot, stale \ {slot[page[c]]}, {}, reader)
            <4>1. active[p] = u
                BY <1>1
            <4> HIDE DEF u, p
            <4> QED BY <4>1, <3>1, <2>5
        <3>2. CASE UNCHANGED active
            BY <3>2, <1>1
        <3> QED BY <2>8, <3>1, <3>2 DEF PollStart, turnVars
    <2>9. ASSUME NEW c \in Tabs, PollEnds(c)
          PROVE  active'[p] = u
        <3>1. CASE PollReadsOn(c)
            BY <3>1, <1>1 DEF PollReadsOn, turnVars
        <3>2. CASE \E t, old, finished, rdr : Serve(c, t, active, slot, old, finished, rdr)
            <4>1. active[p] = u
                BY <1>1
            <4> HIDE DEF u, p
            <4> QED BY <4>1, <3>2, <2>5
        <3>3. CASE PollEndsTurn(c)
            <4>1. PICK t, slt, old, finished, rdr :
                    Serve(c, t, Ended(active, pumpLog[c], pumping[c]), slt, old, finished, rdr)
                BY <3>3 DEF PollEndsTurn
            <4>2. c # b
                BY <4>1, <2>2, <2>3, <1>1 DEF Serve
            <4>3. Ended(active, pumpLog[c], pumping[c])[p] = u
                BY <4>2, <2>2, <2>3, <2>4, <1>1 DEF Ended
            <4> HIDE DEF u, p
            <4> QED BY <4>1, <4>3, <2>5
        <3> QED BY <2>9, <3>1, <3>2, <3>3 DEF PollEnds, PollSliceOver, PollTimesOut
    <2>10. CASE UNCHANGED active
        BY <2>10, <1>1
    <2>11. CASE \/ CreateThread
                \/ \E v \in Turns : ReaderStep(v) \/ CleanUp(v) \/ GoesStale(v)
                \/ \E c \in Tabs, t \in Logs : OpenPage(c, t)
                \/ \E c \in Tabs : ClosePage(c)
                \/ ShutDown
                \/ Exit
                \/ UNCHANGED vars
        BY <2>10, <2>11
        DEF CreateThread, ReaderStep, ReaderEnters, ReaderPosts, CleanUp, CloserCloses,
            FinallyDone, Collected, GoesStale, OpenPage, ClosePage, ShutDown, Exit, vars,
            turnVars
    <2> HIDE DEF u, p
    <2>12. active'[p] = u \/ \E t \in Logs : Interrupt(u, t)
        BY <1>1, <2>6, <2>7, <2>8, <2>9, <2>11 DEF Next, u, p
    <2> QED BY <2>12 DEF u, p
<1>2. IInv /\ [Next]_vars =>
        [\A b \in Tabs :
          LET u == pumping[b]
          IN  (u # NoTurn /\ pumping'[b] = u /\ active[pumpLog[b]] = u)
              => \/ active'[pumpLog[b]] = u
                 \/ \E t \in Logs : Interrupt(u, t)]_vars
    BY <1>1
<1> QED BY <1>2, AlwaysIInv, PTL DEF Spec, PumpedTurnEndsByStopOnly

\* Every log implements TurnLifecycle: polls, sweeps, interrupts and evictions only ever
\* start a turn where none is live, and end the live one.
THEOREM TurnsImplementLifecycle == Spec => RefinesLifecycle
<1>1. ASSUME Init, NEW l \in Logs
      PROVE  Lifecycle(l)!Init
    BY <1>1, TurnAssumption DEF Init, Lifecycle!Init, PhaseOn, Logs
<1>2. ASSUME IInv, [Next]_vars, NEW l \in Logs
      PROVE  [Lifecycle(l)!Next]_(PhaseOn(l))
    <2>1. TurnsOn(l)
        BY <1>2, TurnsMove
    <2>2. /\ active[l] \in Turns \cup {NoTurn} /\ NoTurn \notin Turns
          /\ active[l] # NoTurn => home[active[l]] = l
        BY <1>2, TurnAssumption DEF IInv, Shape, HomeInv
    <2> DEFINE before == PhaseOn(l)
               after == PhaseOn(l)'
    <2>3. /\ before \in [Turns -> {"new", "live", "ended"}]
          /\ after \in [Turns -> {"new", "live", "ended"}]
          /\ \A u \in Turns : before[u] = IF home[u] # l THEN "new"
                                          ELSE IF active[l] = u THEN "live" ELSE "ended"
          /\ \A u \in Turns : after[u] = IF home'[u] # l THEN "new"
                                         ELSE IF active'[l] = u THEN "live" ELSE "ended"
        BY DEF PhaseOn
    <2> HIDE DEF before, after
    <2>4. CASE active'[l] = active[l] /\ \A u \in Turns : home[u] = l <=> home'[u] = l
        <3>1. after = before
            BY <2>3, <2>4
        <3> QED BY <3>1 DEF before, after
    <2>5. CASE /\ active'[l] = NoTurn /\ active[l] # NoTurn
               /\ \A u \in Turns : home[u] = l <=> home'[u] = l
        <3>1. before[active[l]] = "live"
            BY <2>2, <2>3, <2>5
        <3>2. after = [before EXCEPT ![active[l]] = "ended"]
            BY <2>2, <2>3, <2>5
        <3>3. Lifecycle(l)!End(active[l])
            BY <3>1, <3>2 DEF Lifecycle!End, before, after
        <3> QED BY <3>3, <2>2, <2>5 DEF Lifecycle!Next
    <2>6. CASE /\ active[l] = NoTurn /\ active'[l] \in Turns
               /\ \A u \in Turns : (home[u] = l \/ u = active'[l]) <=> home'[u] = l
               /\ home[active'[l]] # l
        <3>1. before[active'[l]] = "new" /\ \A v \in Turns : before[v] # "live"
            BY <2>2, <2>3, <2>6
        <3>2. after = [before EXCEPT ![active'[l]] = "live"]
            BY <2>2, <2>3, <2>6
        <3>3. PICK u \in Turns : u = active'[l]
            BY <2>6
        <3>4. Lifecycle(l)!Start(u)
            BY <3>1, <3>2, <3>3 DEF Lifecycle!Start, before, after
        <3> QED BY <3>4 DEF Lifecycle!Next
    <2> QED BY <2>1, <2>4, <2>5, <2>6 DEF TurnsOn
<1>3. Init => \A l \in Logs : Lifecycle(l)!Init
    BY <1>1
<1>4. IInv /\ [Next]_vars => [\A l \in Logs : [Lifecycle(l)!Next]_(PhaseOn(l))]_vars
    BY <1>2
<1> QED BY <1>3, <1>4, AlwaysIInv, PTL DEF Spec, RefinesLifecycle

\* What asking the store for a thread may add is the newest log, under that thread's id
\* (ThreadStore.thread).
LEMMA AccessAdds ==
    ASSUME Shape, NEW t, Access(t), NEW l \in store' \ store
    PROVE  ~Stored(t) /\ l = nextLog /\ threadOf'[l] = t
<1>1. ~Stored(t)
    BY DEF Access, threadVars
<1>2. /\ nextLog <= MaxLogs /\ store' = MakeRoom \cup {nextLog}
      /\ threadOf' = [threadOf EXCEPT ![nextLog] = t]
    BY <1>1 DEF Access
<1>3. l = nextLog
    BY <1>2 DEF MakeRoom
<1>4. nextLog \in Logs
    BY <1>2, StoreAssumption DEF Shape, Logs
<1> QED BY <1>1, <1>2, <1>3, <1>4 DEF Shape

\* An evicted thread is revived by the end of a poll that waited for its provider, and by
\* nothing else.
THEOREM RevivesByWaiting == Spec => RevivedByWaitingPoll
<1>1. ASSUME IInv, [Next]_vars, NEW l \in store' \ store, threadOf'[l] # l
      PROVE  \E b \in Tabs : /\ pumping[b] # NoTurn /\ pumping'[b] = NoTurn
                             /\ threadOf[home[pumping[b]]] = threadOf'[l]
    <2>1. Shape /\ HomeInv
        BY <1>1 DEF IInv
    <2>2. ~(store' = store)
        OBVIOUS
    <2>3. ASSUME CreateThread PROVE FALSE
        <3>1. Access(nextLog)
            BY <2>3 DEF CreateThread
        <3> QED BY <3>1, <2>1, <1>1, AccessAdds
    <2>4. ASSUME NEW b \in Tabs, PollStart(b) PROVE FALSE
        <3>1. Stored(page[b])
            BY <2>4 DEF PollStart
        <3>2. CASE Access(page[b])
            BY <3>1, <3>2, <2>1, AccessAdds
        <3>3. CASE UNCHANGED threadVars
            BY <3>3 DEF threadVars
        <3> QED BY <3>2, <3>3, <2>4 DEF PollStart, Serve
    <2>5. ASSUME NEW b \in Tabs, PollEnds(b)
          PROVE  /\ pumping[b] # NoTurn /\ pumping'[b] = NoTurn
                 /\ threadOf[home[pumping[b]]] = threadOf'[l]
        <3>1. ~PollReadsOn(b)
            BY <2>2 DEF PollReadsOn, threadVars
        <3>2. pumping[b] # NoTurn
            BY <2>5 DEF PollEnds, PollReadsOn, PollSliceOver, PollEndsTurn, PollTimesOut
        <3>3. Access(threadOf[pumpLog[b]]) /\ pumping' = [pumping EXCEPT ![b] = NoTurn]
            BY <2>5, <3>1 DEF PollEnds, PollSliceOver, PollEndsTurn, PollTimesOut, Serve
        <3>4. threadOf[pumpLog[b]] = threadOf[home[pumping[b]]]
            BY <3>2, <2>1 DEF HomeInv
        <3>5. threadOf'[l] = threadOf[pumpLog[b]]
            BY <3>3, <2>1, AccessAdds
        <3> QED BY <3>2, <3>3, <3>4, <3>5, <2>1 DEF Shape
    <2>6. ASSUME \/ \E u \in Turns, t \in Logs : StartTurn(u, t) \/ Interrupt(u, t)
                 \/ \E u \in Turns : ReaderStep(u) \/ CleanUp(u) \/ GoesStale(u)
                 \/ \E b \in Tabs, t \in Logs : OpenPage(b, t)
                 \/ \E b \in Tabs : ClosePage(b)
                 \/ ShutDown
                 \/ Exit
                 \/ UNCHANGED vars
          PROVE  FALSE
        BY <2>2, <2>6 DEF StartTurn, Interrupt, ReaderStep, ReaderEnters, ReaderPosts, CleanUp,
                 CloserCloses, FinallyDone, Collected, GoesStale, OpenPage, ClosePage, ShutDown,
                 Exit, vars, threadVars
    <2> QED BY <1>1, <2>3, <2>4, <2>5, <2>6 DEF Next
<1>2. IInv /\ [Next]_vars =>
        [\A l \in store' \ store :
          threadOf'[l] # l =>
              \E b \in Tabs : /\ pumping[b] # NoTurn /\ pumping'[b] = NoTurn
                             /\ threadOf[home[pumping[b]]] = threadOf'[l]]_vars
    BY <1>1
<1> QED BY <1>2, AlwaysIInv, PTL DEF Spec, RevivedByWaitingPoll

-----------------------------------------------------------------------------
(* The run of a turn                                                       *)

\* Only start_turn gives a turn its log.
LEMMA StartsByRoute ==
    ASSUME [Next]_vars, NEW u \in Turns, home'[u] # home[u]
    PROVE  \E t \in Logs : StartTurn(u, t)
<1>1. CASE \E v \in Turns, t \in Logs : StartTurn(v, t)
    <2>1. PICK v \in Turns, t \in Logs : StartTurn(v, t)
        BY <1>1
    <2>2. CASE v = u
        BY <2>1, <2>2
    <2>3. CASE v # u
        BY <2>1, <2>3 DEF StartTurn
    <2> QED BY <2>2, <2>3
<1>2. CASE home' = home
    BY <1>2
<1> QED BY <1>1, <1>2
    DEF Next, CreateThread, Interrupt, PollStart, PollEnds, PollReadsOn, PollSliceOver,
        PollEndsTurn, PollTimesOut, Serve, ReaderStep, ReaderEnters, ReaderPosts, CleanUp,
        CloserCloses, FinallyDone, Collected, GoesStale, OpenPage, ClosePage, ShutDown, Exit,
        vars, turnVars

\* A turn comes to life by the route alone, and what has ended stays so: an evicted log
\* does not come back, and no log takes a turn up again.
LEMMA LifeMoves ==
    ASSUME IInv, IInv', [Next]_vars, NEW u \in Turns
    PROVE  \/ LifeOf(u)' = LifeOf(u) /\ home'[u] = home[u]
           \/ /\ LifeOf(u) = "new" /\ LifeOf(u)' = "live"
              /\ \E t \in Logs : StartTurn(u, t)
           \/ LifeOf(u) = "live" /\ LifeOf(u)' = "ended" /\ home'[u] = home[u]
<1>1. /\ Shape /\ StoreInv /\ HomeInv /\ Shape' /\ StoreInv'
    BY DEF IInv
<1>2. /\ active \in [Logs -> Turns \cup {NoTurn}] /\ NoTurn \notin Turns
      /\ home \in [Turns -> 0 .. MaxLogs]
      /\ nextLog \in Nat /\ nextLog' \in Nat /\ MaxThreads \in Nat /\ MaxLogs \in Nat
      /\ home[u] < nextLog
    BY <1>1, TurnAssumption, StoreAssumption DEF Shape, HomeInv
<1>3. /\ \A l \in Logs : TurnsOn(l)
      /\ home[u] # 0 => home'[u] = home[u]
      /\ nextLog <= nextLog'
    BY TurnsMove
<1>4. CASE home'[u] # home[u]
    <2>1. PICK t \in Logs : StartTurn(u, t)
        BY <1>4, StartsByRoute
    <2> DEFINE l == LogOf(t)
    <2>2. /\ home[u] = 0 /\ home'[u] = l /\ phase' = "serving"
          /\ l \in store /\ store' = store /\ l \in Logs
        BY <2>1, <1>1, <1>2, StoredThreads DEF StartTurn, threadVars
    <2> HIDE DEF l
    <2>3. active'[l] = u /\ l # 0
        <3>1. TurnsOn(l) /\ l # 0
            BY <2>2, <1>3 DEF Logs
        <3> QED BY <3>1, <2>2 DEF TurnsOn
    <2> QED BY <2>1, <2>2, <2>3 DEF LifeOf
<1>5. CASE home'[u] = home[u]
    <2>1. CASE home[u] = 0
        BY <1>5, <2>1 DEF LifeOf
    <2>2. CASE home[u] # 0
        <3> DEFINE h == home[u]
        <3>1. h \in Logs /\ TurnsOn(h)
            BY <2>2, <1>2, <1>3 DEF Logs
        <3>2. phase' = "serving" => phase = "serving"
            BY DEF Next, CreateThread, StartTurn, Interrupt, PollStart, PollEnds, PollReadsOn,
                   PollSliceOver, PollEndsTurn, PollTimesOut, Serve, ReaderStep, ReaderEnters,
                   ReaderPosts, CleanUp, CloserCloses, FinallyDone, Collected, GoesStale,
                   OpenPage, ClosePage, ShutDown, Exit, vars
        <3>3. h \in store' => h \in store
            <4>1. /\ store = {l \in 1 .. (nextLog - 1) : l >= nextLog - MaxThreads}
                  /\ store' = {l \in 1 .. (nextLog' - 1) : l >= nextLog' - MaxThreads}
                BY <1>1 DEF StoreInv, StoreKeepsTheNewest
            <4> QED BY <4>1, <3>1, <1>2, <1>3 DEF Logs
        <3>4. active'[h] = u => active[h] = u
            BY <3>1, <1>2 DEF TurnsOn
        <3> QED BY <1>5, <2>2, <3>2, <3>3, <3>4 DEF LifeOf
    <2> QED BY <2>1, <2>2
<1> QED BY <1>4, <1>5

\* The generator of a live turn that has one is parked in the slot of its thread.
LEMMA LiveIsParked ==
    ASSUME IInv, NEW u \in Turns, LifeOf(u) = "live", gen[u] # "none"
    PROVE  Parked(u) /\ gen[u] # "closing" /\ closers[u] = 0
<1>1. /\ phase = "serving" /\ home[u] \in store /\ active[home[u]] = u
      /\ Shape /\ StoreInv /\ SlotInv /\ IdleInv
    BY DEF LifeOf, IInv
<1>2. home[u] \in Logs /\ threadOf[home[u]] \in Logs /\ u # NoTurn
    BY <1>1, StoredThreads, TurnAssumption
<1>3. u \notin unparked
    BY <1>1 DEF IdleInv
<1>4. Parked(u)
    BY <1>1, <1>2, <1>3 DEF SlotInv, Pairs, Parked
<1> QED BY <1>1, <1>2, <1>4, LiveIsNotClosed DEF OnlyEndedTurnsAreClosed

\* Who moves a generator: the route that creates it, its reader, whoever closes it.
LEMMA GeneratorMoves ==
    ASSUME IInv, [Next]_vars, NEW u \in Turns
    PROVE  \/ gen'[u] = gen[u]
           \/ \E t \in Logs : StartTurn(u, t) /\ gen[u] = "none" /\ gen'[u] = "fresh"
           \/ /\ UNCHANGED <<phase, store, active, home>>
              /\ \/ gen[u] \in {"fresh", "suspended"} /\ gen'[u] = "running"
                 \/ gen[u] = "running" /\ gen'[u] \in {"suspended", "closed"}
                 \/ gen[u] = "closing" /\ gen'[u] = "closed"
                 \/ /\ gen[u] \in {"fresh", "suspended"}
                    /\ gen'[u] \in {"closing", "closed"}
                    /\ closers[u] > 0 \/ ~Parked(u)
<1>1. /\ Shape /\ IdleInv /\ GenInv
      /\ gen \in [Turns -> {"none", "fresh", "suspended", "running", "closing", "closed"}]
    BY DEF IInv, Shape
<1>2. CASE \E v \in Turns, t \in Logs : StartTurn(v, t)
    <2>1. PICK v \in Turns, t \in Logs : StartTurn(v, t)
        BY <1>2
    <2>2. gen[v] = "none" /\ (gen' = [gen EXCEPT ![v] = "fresh"] \/ gen' = gen)
        BY <2>1, <1>1 DEF StartTurn, IdleInv
    <2> QED BY <2>1, <2>2, <1>1
<1>3. CASE \E v \in Turns : ReaderEnters(v)
    BY <1>1, <1>3 DEF ReaderEnters, threadVars, turnVars
<1>4. CASE \E v \in Turns : ReaderPosts(v)
    BY <1>1, <1>4 DEF ReaderPosts, GenInv, threadVars, turnVars
<1>5. CASE \E v \in Turns : CloserCloses(v)
    <2>1. PICK v \in Turns : CloserCloses(v)
        BY <1>5
    <2>2. UNCHANGED <<phase, store, active, home>> /\ closers[v] > 0
        BY <2>1 DEF CloserCloses, threadVars, turnVars
    <2>3. /\ \A w \in Turns \ {v} : gen'[w] = gen[w]
          /\ \/ gen[v] = "fresh" /\ gen'[v] = "closed"
             \/ gen[v] = "suspended" /\ gen'[v] = "closing"
             \/ gen'[v] = gen[v]
        BY <2>1, <1>1 DEF CloserCloses
    <2> QED BY <2>2, <2>3
<1>6. CASE \E v \in Turns : FinallyDone(v)
    BY <1>1, <1>6 DEF FinallyDone, threadVars, turnVars
<1>7. CASE \E v \in Turns : Collected(v)
    BY <1>1, <1>7 DEF Collected, Parked, threadVars, turnVars
<1>8. CASE gen' = gen
    BY <1>8
<1> QED BY <1>2, <1>3, <1>4, <1>5, <1>6, <1>7, <1>8
    DEF Next, CreateThread, Interrupt, PollStart, PollEnds, PollReadsOn, PollSliceOver,
        PollEndsTurn, PollTimesOut, ReaderStep, CleanUp, GoesStale, OpenPage, ClosePage,
        ShutDown, Exit, vars, genVars

\* Every turn implements TurnRun: readers enter its generator one at a time, and nobody
\* closes it before the turn has ended in its log, been evicted or lost its process.
THEOREM TurnsImplementRun == Spec => RefinesTurnRun
<1>1. ASSUME Init, NEW u \in Turns
      PROVE  Run(u)!Init
    BY <1>1 DEF Init, Run!Init, LifeOf, PlaceOf
<1>2. ASSUME IInv, IInv', [Next]_vars, NEW u \in Turns
      PROVE  [Run(u)!Next]_<<LifeOf(u), PlaceOf(u)>>
    <2> DEFINE life == LifeOf(u)
               place == PlaceOf(u)
    <2>1. CASE \E t \in Logs : StartTurn(u, t)
        <3>1. home'[u] # home[u]
            <4>1. PICK t \in Logs : StartTurn(u, t)
                BY <2>1
            <4>2. /\ home[u] = 0 /\ home' = [home EXCEPT ![u] = LogOf(t)]
                  /\ home \in [Turns -> 0 .. MaxLogs]
                  /\ LogOf(t) \in Logs
                BY <1>2, <4>1, StoredThreads DEF IInv, Shape, StartTurn
            <4> QED BY <4>2 DEF Logs
        <3>2. life = "new" /\ life' = "live"
            BY <1>2, <3>1, LifeMoves
        <3>3. place = "none" /\ place' \in {"none", "idle"}
            BY <1>2, <2>1 DEF StartTurn, IInv, IdleInv, Shape, PlaceOf
        <3> QED BY <3>2, <3>3 DEF Run!Start, Run!Next
    <2>2. CASE ~ \E t \in Logs : StartTurn(u, t)
        <3>1. \/ LifeOf(u)' = LifeOf(u)
              \/ LifeOf(u) = "live" /\ LifeOf(u)' = "ended"
            BY <1>2, <2>2, LifeMoves
        <3>2. CASE gen'[u] = gen[u]
            BY <3>1, <3>2 DEF PlaceOf, Run!End, Run!Next
        <3>3. CASE gen'[u] # gen[u]
            <4>1. /\ UNCHANGED <<phase, store, active, home>>
                  /\ \/ gen[u] \in {"fresh", "suspended"} /\ gen'[u] = "running"
                     \/ gen[u] = "running" /\ gen'[u] \in {"suspended", "closed"}
                     \/ gen[u] = "closing" /\ gen'[u] = "closed"
                     \/ /\ gen[u] \in {"fresh", "suspended"}
                        /\ gen'[u] \in {"closing", "closed"}
                        /\ closers[u] > 0 \/ ~Parked(u)
                BY <1>2, <2>2, <3>3, GeneratorMoves
            <4>2. life' = life
                BY <4>1 DEF LifeOf
            <4>3. CASE gen[u] \in {"fresh", "suspended"} /\ gen'[u] = "running"
                BY <4>2, <4>3 DEF PlaceOf, Run!Enter, Run!Next
            <4>4. CASE gen[u] = "running" /\ gen'[u] \in {"suspended", "closed"}
                BY <4>2, <4>4 DEF PlaceOf, Run!Leave, Run!Next
            <4>5. CASE gen[u] = "closing" /\ gen'[u] = "closed"
                BY <4>2, <4>5 DEF PlaceOf, Run!Finish, Run!Next
            <4>6. CASE /\ gen[u] \in {"fresh", "suspended"}
                       /\ gen'[u] \in {"closing", "closed"}
                       /\ closers[u] > 0 \/ ~Parked(u)
                <5>1. closers[u] \in Nat /\ home[u] # 0
                    BY <1>2, <4>6 DEF IInv, Shape, IdleInv
                <5>2. life # "live"
                    BY <1>2, <4>6, <5>1, LiveIsParked
                <5>3. life = "ended"
                    BY <5>1, <5>2 DEF LifeOf
                <5> QED BY <4>2, <4>6, <5>3 DEF PlaceOf, Run!Close, Run!Next
            <4> QED BY <4>1, <4>3, <4>4, <4>5, <4>6
        <3> QED BY <3>2, <3>3
    <2> QED BY <2>1, <2>2
<1>3. Init => \A u \in Turns : Run(u)!Init
    BY <1>1
<1>4. IInv /\ IInv' /\ [Next]_vars =>
          [\A u \in Turns : [Run(u)!Next]_<<LifeOf(u), PlaceOf(u)>>]_vars
    BY <1>2
<1> QED BY <1>3, <1>4, AlwaysIInv, PTL DEF Spec, RefinesTurnRun
=============================================================================
