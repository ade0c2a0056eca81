----------------------- MODULE StudioApprovals_proofs -----------------------
(***************************************************************************)
(* Proofs about StudioApprovals, for every number of turns, threads, ids,  *)
(* requests and retained entries.                                          *)
(*                                                                         *)
(* The inductive invariant rests on the numbering of requests: the pump    *)
(* registers the requests of a child one after the other, so a request is  *)
(* in the ledger under one id at most, and before it is shown or while it  *)
(* is undecided nothing has been written on its behalf.                    *)
(***************************************************************************)
EXTENDS StudioApprovals, FiniteSetTheorems, TLAPS

\* A turn that was not started has asked nothing; a started one has a thread.
NewInv ==
    \A u \in Turns :
        /\ life[u] = "new" => gen[u] = "none" /\ asked[u] = <<>>
        /\ life[u] # "new" => threadOf[u] \in Threads

\* A registered session is one of its thread, and open.
SessionInv ==
    \A t \in Threads :
        sessions[t] # NoTurn => threadOf[sessions[t]] = t /\ gen[sessions[t]] \in Open

\* An envelope is of a registered request that nothing was written for, it allows what
\* may be allowed only, and no two envelopes are of one request.
LedgerInv ==
    /\ \A id \in ApprovalIds :
          envelope[id] # NoEnvelope =>
              /\ envelope[id].request <= shown[envelope[id].turn]
              /\ envelope[id].allowed => asked[envelope[id].turn][envelope[id].request]
              /\ sent[envelope[id].turn][envelope[id].request] = <<>>
    /\ \A i, j \in ApprovalIds :
          (envelope[i] # NoEnvelope /\ envelope[j] # NoEnvelope /\ i # j) =>
              \/ envelope[i].turn # envelope[j].turn
              \/ envelope[i].request # envelope[j].request

\* Frames are written for registered requests, once, as far as they are permitted, and to
\* turns that were started on the same thread.
FrameInv ==
    \A u \in Turns, n \in Requests :
        /\ n > shown[u] => sent[u][n] = <<>>
        /\ Len(sent[u][n]) <= 1
        /\ \A i \in 1 .. Len(sent[u][n]) :
              /\ sent[u][n][i].verdict = "accept" => n <= Len(asked[u]) /\ asked[u][n]
              /\ threadOf[sent[u][n][i].to] = threadOf[u]
              /\ life[sent[u][n][i].to] # "new"

IInv == TypeOK /\ NewInv /\ SessionInv /\ LedgerInv /\ FrameInv /\ PatienceWhileBlocked

-----------------------------------------------------------------------------
(* Dicts                                                                   *)

\* The keys of a dict can be counted.
LEMMA FinitelyManyKeys ==
    ASSUME NEW d
    PROVE  IsFiniteSet(Keys(d)) /\ Cardinality(Keys(d)) \in Nat
<1>1. Keys(d) \subseteq ApprovalIds
    BY DEF Keys
<1> QED BY <1>1, IdAssumption, FS_Subset, FS_CardinalityType

\* Adding a key and dropping the oldest yields a dict with no other key.
LEMMA AddingKeys ==
    ASSUME NEW d \in [ApprovalIds -> Nat], NEW id \in ApprovalIds, NEW limit \in Nat
    PROVE  /\ Bounded(WithKey(d, id), limit) \in [ApprovalIds -> Nat]
           /\ \A i \in ApprovalIds \ {id} :
                 Bounded(WithKey(d, id), limit)[i] # 0 => d[i] # 0
<1> DEFINE w == WithKey(d, id)
<1>1. w \in [ApprovalIds -> Nat] /\ \A i \in ApprovalIds \ {id} : w[i] = d[i]
    BY FinitelyManyKeys DEF WithKey
<1> HIDE DEF w
<1>2. Bounded(w, limit) \in [ApprovalIds -> Nat]
    BY <1>1 DEF Bounded, Keys
<1>3. \A i \in ApprovalIds : Bounded(w, limit)[i] # 0 => w[i] # 0
    BY <1>1 DEF Bounded, Keys
<1> QED BY <1>1, <1>2, <1>3 DEF w

\* Removing a key removes that key alone.
LEMMA RemovingAKey ==
    ASSUME NEW d \in [ApprovalIds -> Nat], NEW id \in Keys(d)
    PROVE  /\ WithoutKey(d, id) \in [ApprovalIds -> Nat]
           /\ \A i \in ApprovalIds : WithoutKey(d, id)[i] = 0 <=> i = id \/ d[i] = 0
BY DEF WithoutKey, Keys

\* What is kept of each request, after an update for one of them.
LEMMA UpdatingARequest ==
    ASSUME NEW S, NEW g \in [Turns -> [Requests -> S]],
           NEW u \in Turns, NEW n \in Requests, NEW x \in S
    PROVE  /\ [g EXCEPT ![u][n] = x] \in [Turns -> [Requests -> S]]
           /\ \A v \in Turns, m \in Requests :
                 [g EXCEPT ![u][n] = x][v][m] = IF v = u /\ m = n THEN x ELSE g[v][m]
<1>1. [g[u] EXCEPT ![n] = x] \in [Requests -> S]
    OBVIOUS
<1> QED BY <1>1

\* A frame was written to a turn.
LEMMA FrameTypes ==
    ASSUME TypeOK, NEW u \in Turns, NEW n \in Requests
    PROVE  /\ sent[u][n] \in Seq(Frames)
           /\ \A i \in 1 .. Len(sent[u][n]) :
                 sent[u][n][i].to \in Turns /\ sent[u][n][i].verdict \in {"accept", "decline"}
<1>1. sent[u][n] \in Seq(Frames)
    BY DEF TypeOK
<1>2. \A i \in 1 .. Len(sent[u][n]) : sent[u][n][i] \in Frames
    BY <1>1
<1> QED BY <1>1, <1>2 DEF Frames

-----------------------------------------------------------------------------
(* Steps that leave the ledger and the frames alone                        *)

\* A turn starts: nothing refers to it yet.
LEMMA StartKeeps ==
    ASSUME IInv, NEW u \in Turns, NEW t \in Threads, StartTurn(u, t)
    PROVE  IInv'
<1>1. TypeOK /\ NewInv /\ SessionInv /\ LedgerInv /\ FrameInv /\ PatienceWhileBlocked
    BY DEF IInv
<1>2. TypeOK'
    BY <1>1 DEF StartTurn, TypeOK, childVars, ledgerVars
<1>3. NewInv'
    BY <1>1 DEF StartTurn, TypeOK, NewInv, childVars
<1>4. gen[u] = "none" /\ asked[u] = <<>> /\ shown[u] = 0
    BY <1>1 DEF StartTurn, TypeOK, NewInv
<1>5. SessionInv'
    BY <1>1, <1>4 DEF StartTurn, TypeOK, SessionInv, Open
<1>6. LedgerInv'
    BY <1>1 DEF StartTurn, LedgerInv, childVars, ledgerVars
<1>7. FrameInv'
    <2> SUFFICES ASSUME NEW v \in Turns, NEW n \in Requests,
                        NEW i \in 1 .. Len(sent[v][n])
                 PROVE  /\ (threadOf[sent[v][n][i].to] = threadOf[v])'
                        /\ (life[sent[v][n][i].to] # "new")'
        BY <1>1 DEF StartTurn, FrameInv, childVars, ledgerVars
    <2>1. sent[v][n][i].to \in Turns /\ sent[v][n] # <<>>
        BY <1>1, FrameTypes
    <2>2. v # u
        BY <1>1, <1>4, <2>1 DEF FrameInv, Requests
    <2>3. /\ threadOf[sent[v][n][i].to] = threadOf[v]
          /\ life[sent[v][n][i].to] # "new"
        BY <1>1 DEF FrameInv
    <2> QED BY <1>1, <2>1, <2>2, <2>3 DEF StartTurn, TypeOK, childVars, ledgerVars
<1>8. PatienceWhileBlocked'
    BY <1>1 DEF StartTurn, PatienceWhileBlocked, childVars
<1> QED BY <1>2, <1>3, <1>5, <1>6, <1>7, <1>8 DEF IInv

\* A generator moves on, and its turn may end or be registered: what a step has to
\* respect when it touches no request.
LEMMA MoveKeeps ==
    ASSUME IInv, TypeOK', SessionInv',
           UNCHANGED <<threadOf, childVars, read, undecided, ledgerVars>>,
           \A u \in Turns : life'[u] = "new" <=> life[u] = "new",
           \A u \in Turns : gen[u] = "none" => gen'[u] = "none"
    PROVE  IInv'
<1>1. TypeOK /\ NewInv /\ LedgerInv /\ FrameInv /\ PatienceWhileBlocked
    BY DEF IInv
<1>2. NewInv'
    BY <1>1 DEF NewInv, childVars
<1>3. LedgerInv'
    BY <1>1 DEF LedgerInv, childVars, ledgerVars
<1>4. FrameInv'
    <2>1. \A u \in Turns, n \in Requests :
             \A i \in 1 .. Len(sent[u][n]) : sent[u][n][i].to \in Turns
        BY <1>1, FrameTypes
    <2> QED BY <1>1, <2>1 DEF FrameInv, childVars, ledgerVars
<1>5. PatienceWhileBlocked'
    BY <1>1 DEF PatienceWhileBlocked, childVars
<1> QED BY <1>2, <1>3, <1>4, <1>5 DEF IInv

LEMMA EndKeeps ==
    ASSUME IInv, NEW u \in Turns, EndTurn(u)
    PROVE  IInv'
<1>1. TypeOK /\ SessionInv
    BY DEF IInv
<1>2. TypeOK'
    BY <1>1 DEF EndTurn, TypeOK, bridgeVars, childVars, ledgerVars
<1>3. SessionInv'
    BY <1>1 DEF EndTurn, SessionInv, bridgeVars
<1> QED BY <1>1, <1>2, <1>3, MoveKeeps DEF EndTurn, TypeOK, bridgeVars

\* A generator goes from one place to another, where its session stays as open as it was.
LEMMA WalkKeeps ==
    ASSUME IInv, NEW u \in Turns, NEW place \in Open \cup {"closing", "closed"},
           gen[u] # "none", gen' = [gen EXCEPT ![u] = place],
           place \in Open \/ \A t \in Threads : sessions[t] # u,
           UNCHANGED <<turnVars, sessions, childVars, read, undecided, ledgerVars>>
    PROVE  IInv'
<1>1. TypeOK /\ SessionInv
    BY DEF IInv
<1>2. TypeOK'
    BY <1>1 DEF TypeOK, turnVars, childVars, ledgerVars
<1>3. SessionInv'
    BY <1>1 DEF TypeOK, SessionInv, turnVars
<1>4. \A v \in Turns : gen[v] = "none" => gen'[v] = "none"
    BY <1>1 DEF TypeOK
<1> QED BY <1>2, <1>3, <1>4, MoveKeeps DEF turnVars

\* A turn whose session is not open is registered nowhere.
LEMMA ClosedIsUnregistered ==
    ASSUME IInv, NEW u \in Turns, gen[u] \notin Open
    PROVE  \A t \in Threads : sessions[t] # u
BY TurnAssumption DEF IInv, SessionInv

LEMMA CloseKeeps ==
    ASSUME IInv, NEW u \in Turns, CloseGenerator(u)
    PROVE  IInv'
<1>1. CASE gen[u] = "opened" /\ gen' = [gen EXCEPT ![u] = "closed"]
    BY <1>1, WalkKeeps, ClosedIsUnregistered DEF CloseGenerator, Open
<1>2. CASE gen[u] \in {"yielded", "last"} /\ gen' = [gen EXCEPT ![u] = "leaving"]
    BY <1>2, WalkKeeps DEF CloseGenerator, Open
<1> QED BY <1>1, <1>2 DEF CloseGenerator

LEMMA ReadsOnKeeps ==
    ASSUME IInv, NEW u \in Turns, Resume(u) \/ TimesOut(u) \/ ProviderEnds(u)
    PROVE  IInv'
<1>1. CASE Resume(u)
    BY <1>1, WalkKeeps DEF Resume, Open
<1>2. CASE TimesOut(u)
    BY <1>2, WalkKeeps DEF TimesOut, Open
<1>3. CASE ProviderEnds(u) /\ gen' = [gen EXCEPT ![u] = "last"]
    BY <1>3, WalkKeeps DEF ProviderEnds, Open
<1>4. CASE ProviderEnds(u) /\ gen' = [gen EXCEPT ![u] = "leaving"]
    BY <1>4, WalkKeeps DEF ProviderEnds, Open
<1> QED BY <1>1, <1>2, <1>3, <1>4 DEF ProviderEnds

LEMMA PublishKeeps ==
    ASSUME IInv, NEW u \in Turns, Publish(u)
    PROVE  IInv'
<1>1. TypeOK /\ NewInv /\ SessionInv
    BY DEF IInv
<1>2. threadOf[u] \in Threads /\ gen[u] = "opened"
    BY <1>1 DEF Publish, NewInv
<1>3. TypeOK'
    BY <1>1, <1>2 DEF Publish, TypeOK, Open, turnVars, childVars, ledgerVars
<1>4. SessionInv'
    BY <1>1, <1>2 DEF Publish, TypeOK, SessionInv, Open, turnVars
<1>5. \A v \in Turns : gen[v] = "none" => gen'[v] = "none"
    BY <1>1, <1>2 DEF Publish, TypeOK
<1> QED BY <1>3, <1>4, <1>5, MoveKeeps DEF Publish, turnVars

LEMMA RetractKeeps ==
    ASSUME IInv, NEW u \in Turns, Retracts(u)
    PROVE  IInv'
<1>1. TypeOK /\ NewInv /\ SessionInv
    BY DEF IInv
<1>2. CASE RetractChecks(u)
    <2>1. CASE sessions[threadOf[u]] = u
        BY <1>2, <2>1, WalkKeeps DEF RetractChecks, Open
    <2>2. CASE sessions[threadOf[u]] # u
        <3>1. \A t \in Threads : sessions[t] # u
            BY <2>2, <1>1, TurnAssumption DEF SessionInv
        <3> QED BY <1>2, <2>2, <3>1, WalkKeeps DEF RetractChecks, Open
    <2> QED BY <2>1, <2>2
<1>3. CASE RetractPops(u)
    <2>1. threadOf[u] \in Threads
        BY <1>1, <1>3 DEF RetractPops, NewInv
    <2>2. TypeOK'
        BY <1>1, <1>3, <2>1 DEF RetractPops, TypeOK, turnVars, childVars, ledgerVars
    <2>3. SessionInv'
        BY <1>1, <1>3, <2>1, TurnAssumption DEF RetractPops, TypeOK, SessionInv, turnVars
    <2>4. \A v \in Turns : gen[v] = "none" => gen'[v] = "none"
        BY <1>1, <1>3 DEF RetractPops, TypeOK
    <2> QED BY <1>3, <2>2, <2>3, <2>4, MoveKeeps DEF RetractPops, turnVars
<1>4. CASE SessionCloses(u)
    BY <1>4, WalkKeeps, ClosedIsUnregistered DEF SessionCloses, Open
<1> QED BY <1>2, <1>3, <1>4 DEF Retracts

-----------------------------------------------------------------------------
(* Requests                                                                *)

LEMMA AskKeeps ==
    ASSUME IInv, NEW u \in Turns, NEW scoped \in BOOLEAN, Asks(u, scoped)
    PROVE  IInv'
<1>1. TypeOK /\ NewInv /\ SessionInv /\ LedgerInv /\ FrameInv /\ PatienceWhileBlocked
    BY DEF IInv
<1>2. asked' = [asked EXCEPT ![u] = Append(asked[u], scoped)]
    BY DEF Asks
<1>3. /\ asked' \in [Turns -> Seq(BOOLEAN)]
      /\ \A v \in Turns : /\ Len(asked[v]) <= Len(asked'[v])
                          /\ Len(asked'[v]) <= MaxRequests
                          /\ \A n \in 1 .. Len(asked[v]) : asked'[v][n] = asked[v][n]
    BY <1>1, <1>2, RequestAssumption DEF Asks, TypeOK
<1>4. UNCHANGED <<threadOf, life, gen, sessions, answer, read, shown, undecided, live,
                  envelope, decided, sent>>
    BY DEF Asks, turnVars, bridgeVars, ledgerVars
<1>5. TypeOK'
    <2>1. \A v \in Turns : read[v] <= Len(asked'[v])
        BY <1>1, <1>3 DEF TypeOK
    <2> QED BY <1>1, <1>3, <1>4, <2>1 DEF TypeOK
<1>6. NewInv'
    BY <1>1, <1>2, <1>4 DEF Asks, TypeOK, NewInv, Open
<1>7. SessionInv'
    BY <1>1, <1>4 DEF SessionInv
<1>8. LedgerInv'
    <2>1. \A id \in ApprovalIds :
             envelope[id] # NoEnvelope =>
                 /\ envelope[id].turn \in Turns
                 /\ envelope[id].request \in 1 .. Len(asked[envelope[id].turn])
        BY <1>1 DEF TypeOK, LedgerInv, Envelopes, Requests
    <2> QED BY <1>1, <1>3, <1>4, <2>1 DEF LedgerInv
<1>9. FrameInv'
    <2>1. \A v \in Turns, n \in Requests :
             (n <= Len(asked[v]) /\ asked[v][n]) => n <= Len(asked'[v]) /\ asked'[v][n]
        BY <1>1, <1>3 DEF TypeOK, Requests
    <2> QED BY <1>1, <1>4, <2>1 DEF FrameInv
<1>10. PatienceWhileBlocked'
    BY <1>1, <1>4 DEF PatienceWhileBlocked
<1> QED BY <1>5, <1>6, <1>7, <1>8, <1>9, <1>10 DEF IInv

LEMMA ReadKeeps ==
    ASSUME IInv, NEW u \in Turns, ReadRequest(u)
    PROVE  IInv'
<1>1. TypeOK /\ NewInv /\ SessionInv /\ LedgerInv /\ FrameInv /\ PatienceWhileBlocked
    BY DEF IInv
<1>2. TypeOK'
    <2>1. read[u] + 1 \in Requests /\ read[u] + 1 <= Len(asked[u])
        BY <1>1, RequestAssumption DEF ReadRequest, TypeOK, Requests
    <2>2. /\ read' \in [Turns -> Nat]
          /\ \A v \in Turns : shown[v] <= read'[v] /\ read'[v] <= Len(asked[v])
        BY <1>1, <2>1 DEF ReadRequest, TypeOK
    <2>3. undecided' \in [Turns -> SUBSET Requests]
        BY <1>1, <2>1 DEF ReadRequest, TypeOK
    <2>4. gen' \in [Turns -> Open \cup {"none", "opened", "closing", "closed"}]
        BY <1>1 DEF ReadRequest, TypeOK, Open
    <2> QED BY <1>1, <2>2, <2>3, <2>4
            DEF ReadRequest, TypeOK, turnVars, childVars, ledgerVars
<1>3. NewInv'
    BY <1>1 DEF ReadRequest, TypeOK, NewInv, turnVars, childVars
<1>4. SessionInv'
    BY <1>1 DEF ReadRequest, TypeOK, SessionInv, Open, turnVars
<1>5. LedgerInv'
    BY <1>1 DEF ReadRequest, LedgerInv, childVars, ledgerVars
<1>6. FrameInv'
    BY <1>1 DEF ReadRequest, FrameInv, turnVars, childVars, ledgerVars
<1>7. PatienceWhileBlocked'
    BY <1>1 DEF ReadRequest, TypeOK, PatienceWhileBlocked, childVars
<1> QED BY <1>2, <1>3, <1>4, <1>5, <1>6, <1>7 DEF IInv

LEMMA SettleKeeps ==
    ASSUME IInv, NEW u \in Turns, Settle(u)
    PROVE  IInv'
<1>1. TypeOK /\ NewInv /\ SessionInv /\ LedgerInv /\ FrameInv /\ PatienceWhileBlocked
    BY DEF IInv
<1>2. PICK n \in undecided[u] : /\ answer[u][n] # "none"
                                /\ undecided' = [undecided EXCEPT ![u] = undecided[u] \ {n}]
    BY DEF Settle, Confirmed
<1>3. UNCHANGED <<threadOf, life, gen, sessions, asked, answer, read, shown, live, envelope,
                  decided, sent>>
    BY DEF Settle, turnVars, childVars, ledgerVars
<1>4. TypeOK'
    BY <1>1, <1>2, <1>3 DEF TypeOK
<1>5. NewInv' /\ SessionInv' /\ LedgerInv' /\ FrameInv'
    BY <1>1, <1>3 DEF NewInv, SessionInv, LedgerInv, FrameInv
<1>6. PatienceWhileBlocked'
    BY <1>1, <1>2, <1>3 DEF TypeOK, PatienceWhileBlocked
<1> QED BY <1>4, <1>5, <1>6 DEF IInv

\* The pump registers a request: it is a later one than any in the ledger.
LEMMA RegisterKeeps ==
    ASSUME IInv, NEW u \in Turns, NEW id \in ApprovalIds, NEW present \in BOOLEAN,
           Register(u, id, present)
    PROVE  IInv'
<1>1. TypeOK /\ NewInv /\ SessionInv /\ LedgerInv /\ FrameInv /\ PatienceWhileBlocked
    BY DEF IInv
<1> DEFINE n == shown[u] + 1
           e == [turn |-> u, request |-> n, allowed |-> asked[u][n] /\ present]
<1>2. UNCHANGED <<threadOf, life, gen, sessions, asked, answer, read, undecided, decided, sent>>
    BY DEF Register, turnVars, bridgeVars, childVars
<1>3. /\ n \in Requests /\ n <= read[u] /\ n <= Len(asked[u]) /\ asked[u][n] \in BOOLEAN
      /\ shown' = [shown EXCEPT ![u] = n]
    BY <1>1, RequestAssumption DEF Register, TypeOK, Requests
<1>4. /\ live' \in [ApprovalIds -> Nat]
      /\ \A i \in ApprovalIds \ {id} : live'[i] # 0 => live[i] # 0
    <2>1. live \in [ApprovalIds -> Nat]
        BY <1>1 DEF TypeOK
    <2>2. live' = Bounded(WithKey(live, id), LiveRetention) /\ LiveRetention \in Nat
        BY RetentionAssumption DEF Register
    <2> QED BY <2>1, <2>2, AddingKeys
<1>5. envelope' = [i \in ApprovalIds |-> IF live'[i] = 0 THEN NoEnvelope
                                          ELSE IF i = id THEN e ELSE envelope[i]]
    BY DEF Register
<1>6. e \in Envelopes /\ e # NoEnvelope /\ e.turn = u /\ e.request = n
      /\ (e.allowed => asked[u][n])
    BY <1>3, EnvelopeAssumption DEF Envelopes
<1>7. \A i \in ApprovalIds :
         envelope'[i] # NoEnvelope =>
             \/ i = id /\ envelope'[i] = e
             \/ i # id /\ envelope'[i] = envelope[i] /\ envelope[i] # NoEnvelope
    BY <1>5
<1>8. \A i \in ApprovalIds :
         envelope[i] # NoEnvelope => /\ envelope[i] \in Envelopes
                                     /\ envelope[i].turn \in Turns
                                     /\ envelope[i].request \in Requests
    BY <1>1 DEF TypeOK, Envelopes
<1> HIDE DEF e
<1>9. TypeOK'
    <2>1. \A i \in ApprovalIds : live'[i] = 0 <=> envelope'[i] = NoEnvelope
        BY <1>1, <1>4, <1>5, <1>6 DEF TypeOK
    <2>2. envelope' \in [ApprovalIds -> Envelopes \cup {NoEnvelope}]
        BY <1>5, <1>6, <1>7, <1>8
    <2>3. shown' \in [Turns -> Nat] /\ \A v \in Turns : shown'[v] <= read[v]
        BY <1>1, <1>3 DEF TypeOK, Requests
    <2> QED BY <1>1, <1>2, <1>4, <2>1, <2>2, <2>3 DEF TypeOK
<1>10. \A v \in Turns : shown'[v] \in Nat /\ shown[v] \in Nat /\ shown[v] <= shown'[v]
    BY <1>1, <1>3 DEF TypeOK
<1>11. shown'[u] = n /\ n > shown[u] /\ n \in Nat
    BY <1>1, <1>3 DEF TypeOK
<1>12. LedgerInv'
    <2>1. sent[u][n] = <<>>
        BY <1>1, <1>3, <1>11 DEF FrameInv
    <2>2. ASSUME NEW i \in ApprovalIds, envelope'[i] # NoEnvelope
          PROVE  /\ envelope'[i].request <= shown'[envelope'[i].turn]
                 /\ envelope'[i].allowed => asked[envelope'[i].turn][envelope'[i].request]
                 /\ sent[envelope'[i].turn][envelope'[i].request] = <<>>
        <3>1. CASE envelope'[i] = e
            BY <3>1, <1>6, <1>11, <2>1
        <3>2. CASE envelope'[i] = envelope[i] /\ envelope[i] # NoEnvelope
            BY <3>2, <1>1, <1>8, <1>10 DEF LedgerInv, Requests
        <3> QED BY <2>2, <1>7, <3>1, <3>2
    <2>3. ASSUME NEW i \in ApprovalIds, envelope[i] # NoEnvelope
          PROVE  envelope[i].turn # u \/ envelope[i].request # n
        BY <2>3, <1>1, <1>8, <1>11 DEF LedgerInv, Requests, TypeOK
    <2>4. ASSUME NEW i \in ApprovalIds, NEW j \in ApprovalIds, i # j,
                 envelope'[i] # NoEnvelope, envelope'[j] # NoEnvelope
          PROVE  \/ envelope'[i].turn # envelope'[j].turn
                 \/ envelope'[i].request # envelope'[j].request
        BY <2>3, <2>4, <1>1, <1>6, <1>7 DEF LedgerInv
    <2> QED BY <1>2, <2>2, <2>4 DEF LedgerInv
<1>13. FrameInv'
    BY <1>1, <1>2, <1>10 DEF FrameInv, Requests
<1>14. NewInv' /\ SessionInv' /\ PatienceWhileBlocked'
    BY <1>1, <1>2 DEF NewInv, SessionInv, PatienceWhileBlocked
<1> QED BY <1>9, <1>12, <1>13, <1>14 DEF IInv

-----------------------------------------------------------------------------
(* Decisions                                                               *)

\* A decided approval leaves the ledger, and what Deliver writes is the first frame on
\* behalf of its request.
LEMMA DecideKeeps ==
    ASSUME IInv, NEW t \in Threads, NEW id \in ApprovalIds, NEW allow \in BOOLEAN,
           Decide(t, id, allow)
    PROVE  IInv'
<1>1. TypeOK /\ NewInv /\ SessionInv /\ LedgerInv /\ FrameInv /\ PatienceWhileBlocked
    BY DEF IInv
<1> DEFINE e == envelope[id]
           verdict == IF allow THEN "accept" ELSE "decline"
<1>2. UNCHANGED <<threadOf, life, gen, sessions, asked, read, undecided, shown>>
    BY DEF Decide, turnVars, bridgeVars
<1>3. id \in Keys(live) /\ threadOf[e.turn] = t /\ (allow => e.allowed)
    BY DEF Decide, Awaiting, Permits
<1>4. e \in Envelopes /\ e # NoEnvelope /\ e.turn \in Turns /\ e.request \in Requests
    BY <1>1, <1>3 DEF TypeOK, Keys, Envelopes
<1>5. /\ live' = WithoutKey(live, id)
      /\ envelope' = [envelope EXCEPT ![id] = NoEnvelope]
      /\ decided' = Bounded(WithKey(decided, id), DecidedRetention)
    BY DEF Decide, Burn
<1>6. /\ live' \in [ApprovalIds -> Nat]
      /\ \A i \in ApprovalIds : live'[i] = 0 <=> i = id \/ live[i] = 0
    <2>1. live \in [ApprovalIds -> Nat]
        BY <1>1 DEF TypeOK
    <2> QED BY <1>3, <1>5, <2>1, RemovingAKey
<1>7. decided' \in [ApprovalIds -> Nat]
    <2>1. decided \in [ApprovalIds -> Nat] /\ DecidedRetention \in Nat
        BY <1>1, RetentionAssumption DEF TypeOK
    <2> QED BY <1>5, <2>1, AddingKeys
<1>8. sent[e.turn][e.request] = <<>> /\ (e.allowed => asked[e.turn][e.request])
      /\ e.request <= shown[e.turn]
    BY <1>1, <1>4 DEF LedgerInv
<1>9. e.request <= Len(asked[e.turn])
    <2>1. /\ shown[e.turn] \in Nat /\ read[e.turn] \in Nat /\ Len(asked[e.turn]) \in Nat
          /\ shown[e.turn] <= read[e.turn] /\ read[e.turn] <= Len(asked[e.turn])
          /\ e.request \in Nat
        BY <1>1, <1>4 DEF TypeOK, Requests
    <2> QED BY <1>8, <2>1
<1>10. \/ UNCHANGED <<sent, answer>>
       \/ /\ sessions[t] # NoTurn
          /\ sent' = [sent EXCEPT ![e.turn][e.request] =
                         Append(sent[e.turn][e.request],
                                [to |-> sessions[t], verdict |-> verdict])]
          /\ answer' = Told(sessions[t], e.request, verdict)
    BY DEF Decide, Deliver
<1>11. sessions[t] # NoTurn =>
           /\ sessions[t] \in Turns /\ threadOf[sessions[t]] = t
           /\ life[sessions[t]] # "new"
    <2>1. sessions[t] # NoTurn => sessions[t] \in Turns
        BY <1>1 DEF TypeOK
    <2>2. sessions[t] # NoTurn => threadOf[sessions[t]] = t /\ gen[sessions[t]] \in Open
        BY <1>1 DEF SessionInv
    <2>3. \A u \in Turns : gen[u] \in Open => life[u] # "new"
        BY <1>1 DEF NewInv, Open
    <2> QED BY <2>1, <2>2, <2>3
<1>12. verdict \in {"accept", "decline"} /\ (verdict = "accept" => e.allowed)
    BY <1>3
<1> DEFINE f == [to |-> sessions[t], verdict |-> verdict]
<1>13. sessions[t] # NoTurn => f \in Frames /\ f.to = sessions[t] /\ f.verdict = verdict
    BY <1>11, <1>12 DEF Frames
<1> HIDE DEF e, verdict
<1>14. \/ UNCHANGED <<sent, answer>>
       \/ /\ sessions[t] # NoTurn /\ f \in Frames
          /\ sent' = [sent EXCEPT ![e.turn][e.request] = <<f>>]
          /\ answer' = Told(sessions[t], e.request, verdict)
    BY <1>8, <1>10, <1>13
<1> HIDE DEF f
<1>15. sent' \in [Turns -> [Requests -> Seq(Frames)]]
    <2>1. sent \in [Turns -> [Requests -> Seq(Frames)]]
        BY <1>1 DEF TypeOK
    <2>2. f \in Frames => <<f>> \in Seq(Frames)
        OBVIOUS
    <2>3. CASE UNCHANGED <<sent, answer>>
        BY <2>1, <2>3
    <2>4. CASE f \in Frames /\ sent' = [sent EXCEPT ![e.turn][e.request] = <<f>>]
        BY <1>4, <2>1, <2>2, <2>4, UpdatingARequest
    <2> QED BY <1>14, <2>3, <2>4
<1>16. /\ answer' \in [Turns -> [Requests -> {"none", "accept", "decline"}]]
       /\ \A u \in Turns, n \in Requests : answer'[u][n] = "none" => answer[u][n] = "none"
    <2>1. answer \in [Turns -> [Requests -> {"none", "accept", "decline"}]]
        BY <1>1 DEF TypeOK
    <2>2. CASE answer' = answer
        BY <2>1, <2>2
    <2>3. CASE /\ sessions[t] # NoTurn
               /\ answer' = [answer EXCEPT ![sessions[t]][e.request] = verdict]
        BY <1>4, <1>11, <1>12, <2>1, <2>3, UpdatingARequest
    <2> QED BY <1>14, <2>2, <2>3 DEF Told
<1>17. TypeOK'
    <2>1. envelope' \in [ApprovalIds -> Envelopes \cup {NoEnvelope}]
        BY <1>1, <1>5 DEF TypeOK
    <2>2. \A i \in ApprovalIds : live'[i] = 0 <=> envelope'[i] = NoEnvelope
        BY <1>1, <1>5, <1>6 DEF TypeOK
    <2> QED BY <1>1, <1>2, <1>6, <1>7, <1>15, <1>16, <2>1, <2>2 DEF TypeOK
<1>18. \A u \in Turns, n \in Requests :
          \/ sent'[u][n] = sent[u][n]
          \/ /\ u = e.turn /\ n = e.request /\ sent'[u][n] = <<f>>
             /\ sessions[t] # NoTurn
    <2>1. sent \in [Turns -> [Requests -> Seq(Frames)]]
        BY <1>1 DEF TypeOK
    <2> QED BY <1>4, <1>14, <2>1
<1>19. LedgerInv'
    <2>1. \A i \in ApprovalIds :
             envelope'[i] # NoEnvelope =>
                 /\ i # id /\ envelope'[i] = envelope[i]
                 /\ envelope[i].turn \in Turns /\ envelope[i].request \in Requests
        BY <1>1, <1>5 DEF TypeOK, Envelopes
    <2>2. \A i \in ApprovalIds \ {id} :
             envelope[i] # NoEnvelope =>
                 envelope[i].turn # e.turn \/ envelope[i].request # e.request
        BY <1>1, <1>4 DEF LedgerInv, e
    <2> QED BY <1>1, <1>2, <1>18, <2>1, <2>2 DEF LedgerInv
<1>20. FrameInv'
    <2> SUFFICES ASSUME NEW u \in Turns, NEW n \in Requests
                 PROVE  (/\ n > shown[u] => sent[u][n] = <<>>
                         /\ Len(sent[u][n]) <= 1
                         /\ \A i \in 1 .. Len(sent[u][n]) :
                               /\ sent[u][n][i].verdict = "accept" =>
                                     n <= Len(asked[u]) /\ asked[u][n]
                               /\ threadOf[sent[u][n][i].to] = threadOf[u]
                               /\ life[sent[u][n][i].to] # "new")'
        BY DEF FrameInv
    <2>1. CASE sent'[u][n] = sent[u][n]
        BY <2>1, <1>1, <1>2 DEF FrameInv
    <2>2. CASE u = e.turn /\ n = e.request /\ sent'[u][n] = <<f>> /\ sessions[t] # NoTurn
        <3>1. ~ n > shown[u]
            BY <2>2, <1>1, <1>8 DEF TypeOK, Requests
        <3>2. Len(sent'[u][n]) = 1 /\ sent'[u][n][1] = f
            BY <2>2
        <3>3. f.to = sessions[t] /\ f.verdict = verdict
            BY <2>2, <1>13 DEF f
        <3> QED BY <2>2, <3>1, <3>2, <3>3, <1>2, <1>3, <1>8, <1>9, <1>11, <1>12 DEF e
    <2> QED BY <2>1, <2>2, <1>18
<1>21. PatienceWhileBlocked'
    <2>1. \A u \in Turns : 1 .. read[u] \subseteq Requests
        BY <1>1, RequestAssumption DEF TypeOK, Requests
    <2> QED BY <1>1, <1>2, <1>16, <2>1 DEF PatienceWhileBlocked
<1>22. NewInv' /\ SessionInv'
    BY <1>1, <1>2 DEF NewInv, SessionInv
<1> QED BY <1>17, <1>19, <1>20, <1>21, <1>22 DEF IInv

-----------------------------------------------------------------------------
(* The invariant                                                           *)

LEMMA InitHolds == Init => IInv
<1> SUFFICES ASSUME Init
             PROVE  IInv
    OBVIOUS
<1>1. TypeOK
    BY RequestAssumption DEF Init, TypeOK
<1>2. NewInv /\ SessionInv /\ LedgerInv /\ FrameInv /\ PatienceWhileBlocked
    BY DEF Init, NewInv, SessionInv, LedgerInv, FrameInv, PatienceWhileBlocked, Requests
<1> QED BY <1>1, <1>2 DEF IInv

\* Whatever happens next, the invariant holds.
LEMMA StepKeeps == IInv /\ [Next]_vars => IInv'
<1> SUFFICES ASSUME IInv, [Next]_vars
             PROVE  IInv'
    OBVIOUS
<1>1. ASSUME NEW u \in Turns, NEW t \in Threads, StartTurn(u, t)
      PROVE  IInv'
    BY <1>1, StartKeeps
<1>2. ASSUME NEW u \in Turns, EndTurn(u) \/ CloseGenerator(u)
      PROVE  IInv'
    BY <1>2, EndKeeps, CloseKeeps
<1>3. ASSUME NEW u \in Turns, Publish(u) \/ Retracts(u)
      PROVE  IInv'
    BY <1>3, PublishKeeps, RetractKeeps
<1>4. ASSUME NEW u \in Turns, NEW scoped \in BOOLEAN, Asks(u, scoped)
      PROVE  IInv'
    BY <1>4, AskKeeps
<1>5. ASSUME NEW u \in Turns, Reads(u) \/ ProviderEnds(u) \/ Pumps(u)
      PROVE  IInv'
    <2>1. CASE ReadRequest(u)
        BY <2>1, ReadKeeps
    <2>2. CASE Settle(u)
        BY <2>2, SettleKeeps
    <2>3. CASE TimesOut(u) \/ ProviderEnds(u) \/ Resume(u)
        BY <2>3, ReadsOnKeeps
    <2>4. CASE \E id \in ApprovalIds, present \in BOOLEAN : Register(u, id, present)
        BY <2>4, RegisterKeeps
    <2> QED BY <1>5, <2>1, <2>2, <2>3, <2>4 DEF Reads, Pumps
<1>6. CASE Decides
    BY <1>6, DecideKeeps DEF Decides
<1>7. CASE UNCHANGED vars
    <2>1. TypeOK /\ NewInv /\ SessionInv /\ LedgerInv /\ FrameInv /\ PatienceWhileBlocked
        BY DEF IInv
    <2>2. TypeOK'
        BY <1>7, <2>1 DEF TypeOK, vars
    <2>3. NewInv' /\ SessionInv' /\ LedgerInv' /\ FrameInv' /\ PatienceWhileBlocked'
        BY <1>7, <2>1 DEF NewInv, SessionInv, LedgerInv, FrameInv, PatienceWhileBlocked, vars
    <2> QED BY <2>2, <2>3 DEF IInv
<1> QED BY <1>1, <1>2, <1>3, <1>4, <1>5, <1>6, <1>7 DEF Next

\* The inductive invariant holds always.
THEOREM Invariance == Spec => []IInv
BY InitHolds, StepKeeps, PTL DEF Spec

\* Type correctness: the pump never shows what was not read, the reader reads nothing that
\* was not asked, an id is in the ledger with its envelope or not at all.
THEOREM TypeCorrect == Spec => []TypeOK
<1>1. IInv => TypeOK
    BY DEF IInv
<1> QED BY <1>1, Invariance, PTL

\* A request is answered with one frame at most.
THEOREM AnswersOnce == Spec => []AtMostOneAnswer
<1>1. IInv => AtMostOneAnswer
    BY DEF IInv, FrameInv, AtMostOneAnswer
<1> QED BY <1>1, Invariance, PTL

\* An acceptance is written only on behalf of a request that Studio may allow.
THEOREM AllowsThePermitted == Spec => []AllowIsPermitted
<1>1. IInv => AllowIsPermitted
    BY DEF IInv, FrameInv, AllowIsPermitted
<1> QED BY <1>1, Invariance, PTL

\* A decision is written to a session of its own thread.
THEOREM DecidesInItsThread == Spec => []StaysInItsThread
<1>1. IInv => StaysInItsThread
    BY DEF IInv, FrameInv, StaysInItsThread
<1> QED BY <1>1, Invariance, PTL

\* A registered session is never one that is being closed.
THEOREM RegistersTheOpen == Spec => []RegisteredSessionIsOpen
<1>1. IInv => RegisteredSessionIsOpen
    BY DEF IInv, SessionInv, RegisteredSessionIsOpen
<1> QED BY <1>1, Invariance, PTL

\* The reader's patience lasts as long as a request it passed on is unanswered.
THEOREM IsPatient == Spec => []PatienceWhileBlocked
<1>1. IInv => PatienceWhileBlocked
    BY DEF IInv
<1> QED BY <1>1, Invariance, PTL

-----------------------------------------------------------------------------
(* The session of a live turn                                              *)

\* A step of any turn leaves a secure session registered, and brings no other turn of its
\* thread into a place from which it could be replaced.
LEMMA SecureStays ==
    ASSUME IInv, [Next]_vars, NEW u \in Turns, Secure(u),
           life'[u] = "live", gen'[u] \in {"reading", "yielded", "last"}
    PROVE  Secure(u)'
<1>1. TypeOK /\ NewInv
    BY DEF IInv
<1> DEFINE Kept ==
        /\ sessions'[threadOf'[u]] = u
        /\ \A v \in Turns \ {u} : threadOf'[v] = threadOf'[u] => gen'[v] \notin {"opened", "mine"}
<1> SUFFICES Kept
    BY DEF Secure
<1>2. /\ life[u] = "live" /\ gen[u] \in {"reading", "yielded", "last"}
      /\ sessions[threadOf[u]] = u /\ threadOf[u] \in Threads
      /\ \A v \in Turns \ {u} : threadOf[v] = threadOf[u] => gen[v] \notin {"opened", "mine"}
    BY <1>1 DEF Secure, NewInv
<1>3. ASSUME NEW v \in Turns, NEW t \in Threads, StartTurn(v, t)
      PROVE  Kept
    <2>1. v # u /\ t # threadOf[u]
        BY <1>2, <1>3 DEF StartTurn
    <2> QED BY <1>1, <1>2, <1>3, <2>1 DEF StartTurn, TypeOK
<1>4. ASSUME NEW v \in Turns, EndTurn(v) \/ CloseGenerator(v)
      PROVE  Kept
    BY <1>1, <1>2, <1>4 DEF EndTurn, CloseGenerator, TypeOK, turnVars, bridgeVars
<1>5. ASSUME NEW v \in Turns, Publish(v)
      PROVE  Kept
    <2>1. v # u /\ threadOf[v] # threadOf[u]
        BY <1>2, <1>5 DEF Publish
    <2> QED BY <1>1, <1>2, <1>5, <2>1 DEF Publish, TypeOK, turnVars
<1>6. ASSUME NEW v \in Turns, RetractChecks(v)
      PROVE  Kept
    <2>1. v # u
        BY <1>2, <1>6 DEF RetractChecks
    <2> QED BY <1>1, <1>2, <1>6, <2>1 DEF RetractChecks, TypeOK, turnVars
<1>7. ASSUME NEW v \in Turns, RetractPops(v)
      PROVE  Kept
    <2>1. v # u /\ threadOf[v] # threadOf[u]
        BY <1>2, <1>7 DEF RetractPops
    <2> QED BY <1>1, <1>2, <1>7, <2>1 DEF RetractPops, TypeOK, turnVars
<1>8. ASSUME NEW v \in Turns, NEW place \in {"reading", "yielded", "last", "leaving", "closed"},
             gen' = [gen EXCEPT ![v] = place], UNCHANGED <<threadOf, sessions>>
      PROVE  Kept
    BY <1>1, <1>2, <1>8 DEF TypeOK
<1>9. ASSUME UNCHANGED <<threadOf, sessions, gen>>
      PROVE  Kept
    BY <1>2, <1>9
<1>10. ASSUME NEW v \in Turns, Retracts(v) \/ Reads(v) \/ ProviderEnds(v) \/ Pumps(v)
       PROVE  Kept
    <2>1. CASE SessionCloses(v)
        BY <2>1, <1>8 DEF SessionCloses, turnVars
    <2>2. CASE ReadRequest(v)
        BY <2>2, <1>8 DEF ReadRequest, turnVars
    <2>3. CASE Settle(v)
        BY <2>3, <1>9 DEF Settle, turnVars
    <2>4. CASE TimesOut(v)
        BY <2>4, <1>8 DEF TimesOut, turnVars
    <2>5. CASE ProviderEnds(v)
        BY <2>5, <1>8 DEF ProviderEnds, turnVars
    <2>6. CASE Resume(v)
        BY <2>6, <1>8 DEF Resume, turnVars
    <2>7. CASE \E id \in ApprovalIds, present \in BOOLEAN : Register(v, id, present)
        BY <2>7, <1>9 DEF Register, turnVars, bridgeVars
    <2> QED BY <1>10, <1>6, <1>7, <2>1, <2>2, <2>3, <2>4, <2>5, <2>6, <2>7
            DEF Retracts, Reads, Pumps
<1>11. ASSUME NEW v \in Turns, NEW scoped \in BOOLEAN, Asks(v, scoped)
       PROVE  Kept
    BY <1>11, <1>9 DEF Asks, turnVars, bridgeVars
<1>12. CASE Decides
    BY <1>12, <1>9 DEF Decides, Decide, turnVars, bridgeVars
<1>13. CASE UNCHANGED vars
    BY <1>13, <1>9 DEF vars
<1> QED BY <1>3, <1>4, <1>5, <1>10, <1>11, <1>12, <1>13 DEF Next

\* Apart from the two races that Secure excludes, the session of a live turn stays
\* registered until its generator ends.
THEOREM KeepsTheLiveSession == Spec => LiveSessionIsKept
<1>1. IInv /\ [Next]_vars =>
          [\A u \in Turns :
              (Secure(u) /\ life'[u] = "live" /\ gen'[u] \in {"reading", "yielded", "last"})
                => Secure(u)']_vars
    BY SecureStays
<1> QED BY <1>1, Invariance, PTL DEF Spec, LiveSessionIsKept

\* What moves a request: the child, the pump that registers it, a decision.
LEMMA RequestSteps ==
    ASSUME [Next]_vars
    PROVE  \/ UNCHANGED <<asked, shown, envelope, sent>>
           \/ \E u \in Turns, scoped \in BOOLEAN : Asks(u, scoped)
           \/ \E u \in Turns, id \in ApprovalIds, present \in BOOLEAN : Register(u, id, present)
           \/ Decides
<1>1. ASSUME NEW u \in Turns, Reads(u) \/ ProviderEnds(u) \/ Resume(u) \/ Publish(u) \/ Retracts(u)
      PROVE  UNCHANGED <<asked, shown, envelope, sent>>
    BY <1>1 DEF Reads, Retracts, ReadRequest, Settle, TimesOut, ProviderEnds, Resume, Publish,
                RetractChecks, RetractPops, SessionCloses, childVars, ledgerVars
<1> QED BY <1>1 DEF Next, Pumps, StartTurn, EndTurn, CloseGenerator, childVars, ledgerVars, vars

\* As long as it is, whatever is decided for the turn is written to its own child: the
\* decision is taken by its thread, and its thread answers with its session.
THEOREM AnswersTheSecure == Spec => SecureTurnGetsItsAnswers
<1>1. ASSUME IInv, [Next]_vars, NEW u \in Turns, NEW n \in Requests,
             Secure(u), sent'[u][n] # sent[u][n]
      PROVE  \E verdict \in {"accept", "decline"} :
                sent'[u][n] = Append(sent[u][n], [to |-> u, verdict |-> verdict])
    <2>1. TypeOK
        BY <1>1 DEF IInv
    <2>2. ~(sent' = sent)
        BY <1>1
    <2>3. PICK t \in Threads, id \in ApprovalIds, allow \in BOOLEAN : Decide(t, id, allow)
        BY <1>1, <2>2, RequestSteps DEF Asks, Register, Decides, ledgerVars
    <2> DEFINE e == envelope[id]
               verdict == IF allow THEN "accept" ELSE "decline"
               f == [to |-> sessions[t], verdict |-> verdict]
    <2>4. id \in Keys(live) /\ threadOf[e.turn] = t
        BY <2>3 DEF Decide, Awaiting
    <2>5. e.turn \in Turns /\ e.request \in Requests
        BY <2>1, <2>4 DEF TypeOK, Keys, Envelopes
    <2>6. sent' = [sent EXCEPT ![e.turn][e.request] = Append(sent[e.turn][e.request], f)]
        BY <2>2, <2>3 DEF Decide, Deliver
    <2> HIDE DEF e, f
    <2>7. u = e.turn /\ n = e.request /\ sent'[u][n] = Append(sent[u][n], f)
        <3> DEFINE frames == Append(sent[e.turn][e.request], f)
        <3>1. sent \in [Turns -> [Requests -> Seq(Frames)]]
            BY <2>1 DEF TypeOK
        <3>2. sent' = [sent EXCEPT ![e.turn][e.request] = frames]
            BY <2>6
        <3> HIDE DEF frames
        <3>3. sent'[u][n] = IF u = e.turn /\ n = e.request THEN frames ELSE sent[u][n]
            BY <2>5, <3>1, <3>2
        <3>4. u = e.turn /\ n = e.request /\ sent'[u][n] = frames
            BY <1>1, <3>3
        <3> QED BY <3>4 DEF frames
    <2>8. sessions[t] = u
        BY <1>1, <2>4, <2>7 DEF Secure
    <2> QED BY <2>7, <2>8 DEF f
<1>2. IInv /\ [Next]_vars =>
        [\A u \in Turns, n \in Requests :
          (Secure(u) /\ sent'[u][n] # sent[u][n])
            => \E verdict \in {"accept", "decline"} :
                  sent'[u][n] = Append(sent[u][n], [to |-> u, verdict |-> verdict])]_vars
    BY <1>1
<1> QED BY <1>2, Invariance, PTL DEF Spec, SecureTurnGetsItsAnswers

-----------------------------------------------------------------------------
(* The run of a turn                                                       *)

\* What one step does to one turn and its generator.
LEMMA TurnSteps ==
    ASSUME IInv, [Next]_vars, NEW u \in Turns
    PROVE  \/ UNCHANGED <<life[u], gen[u]>>
           \/ /\ life[u] = "new" /\ life'[u] = "live"
              /\ gen[u] = "none" /\ gen'[u] = "opened"
           \/ life[u] = "live" /\ life'[u] = "ended" /\ gen'[u] = gen[u]
           \/ life[u] = "ended" /\ CloseGenerator(u) /\ life'[u] = life[u]
           \/ /\ life'[u] = life[u]
              /\ <<gen[u], gen'[u]>> \in
                    {<<"opened", "reading">>, <<"yielded", "reading">>,
                     <<"reading", "yielded">>, <<"reading", "last">>,
                     <<"reading", "leaving">>, <<"leaving", "mine">>,
                     <<"leaving", "closing">>, <<"mine", "closing">>,
                     <<"closing", "closed">>}
<1>1. TypeOK /\ NewInv
    BY DEF IInv
<1>2. CASE \E v \in Turns, t \in Threads : StartTurn(v, t)
    BY <1>1, <1>2 DEF StartTurn, TypeOK, NewInv
<1>3. CASE \E v \in Turns : EndTurn(v)
    BY <1>1, <1>3 DEF EndTurn, TypeOK, bridgeVars
<1>4. CASE \E v \in Turns : CloseGenerator(v)
    BY <1>1, <1>4 DEF CloseGenerator, TypeOK, turnVars
<1>5. CASE \E v \in Turns : Publish(v) \/ Retracts(v)
    BY <1>1, <1>5
    DEF Publish, Retracts, RetractChecks, RetractPops, SessionCloses, TypeOK, turnVars
<1>6. CASE \E v \in Turns : Reads(v) \/ ProviderEnds(v) \/ Resume(v)
    BY <1>1, <1>6
    DEF Reads, ReadRequest, Settle, TimesOut, ProviderEnds, Resume, TypeOK, turnVars
<1>7. CASE \/ \E v \in Turns, scoped \in BOOLEAN : Asks(v, scoped)
           \/ \E v \in Turns, id \in ApprovalIds, present \in BOOLEAN :
                 Register(v, id, present)
           \/ Decides
           \/ UNCHANGED vars
    BY <1>7 DEF Asks, Register, Decides, Decide, turnVars, bridgeVars, vars
<1> QED BY <1>2, <1>3, <1>4, <1>5, <1>6, <1>7 DEF Next, Pumps

\* Every turn implements TurnRun, as it does in the engine of turns: the relay assumes
\* of a generator's life nothing that the engine does not provide.
THEOREM TurnsImplementRun == Spec => RefinesTurnRun
<1>1. ASSUME Init, NEW u \in Turns
      PROVE  Run(u)!Init
    BY <1>1 DEF Init, Run!Init, PlaceOf
<1>2. ASSUME IInv, [Next]_vars, NEW u \in Turns
      PROVE  [Run(u)!Next]_<<life[u], PlaceOf(u)>>
    <2>1. CASE UNCHANGED <<life[u], gen[u]>>
        BY <2>1 DEF PlaceOf
    <2>2. CASE /\ life[u] = "new" /\ life'[u] = "live"
               /\ gen[u] = "none" /\ gen'[u] = "opened"
        BY <2>2 DEF PlaceOf, Run!Start, Run!Next
    <2>3. CASE life[u] = "live" /\ life'[u] = "ended" /\ gen'[u] = gen[u]
        BY <2>3 DEF PlaceOf, Run!End, Run!Next
    <2>4. CASE life[u] = "ended" /\ CloseGenerator(u) /\ life'[u] = life[u]
        <3>1. /\ gen[u] \in {"opened", "yielded", "last"}
              /\ gen'[u] \in {"closed", "leaving"}
            BY <1>2, <2>4 DEF CloseGenerator, IInv, TypeOK
        <3> QED BY <2>4, <3>1 DEF PlaceOf, Run!Close, Run!Next
    <2>5. CASE /\ life'[u] = life[u]
               /\ <<gen[u], gen'[u]>> \in {<<"opened", "reading">>, <<"yielded", "reading">>}
        BY <2>5 DEF PlaceOf, Run!Enter, Run!Next
    <2>6. CASE /\ life'[u] = life[u]
               /\ <<gen[u], gen'[u]>> \in
                     {<<"reading", "yielded">>, <<"reading", "last">>,
                      <<"reading", "leaving">>}
        BY <2>6 DEF PlaceOf, Run!Leave, Run!Next
    <2>7. CASE /\ life'[u] = life[u]
               /\ <<gen[u], gen'[u]>> \in
                     {<<"leaving", "mine">>, <<"leaving", "closing">>, <<"mine", "closing">>,
                      <<"closing", "closed">>}
        BY <2>7 DEF PlaceOf, Run!Finish, Run!Next
    <2> QED BY <1>2, <2>1, <2>2, <2>3, <2>4, <2>5, <2>6, <2>7, TurnSteps
<1>3. Init => \A u \in Turns : Run(u)!Init
    BY <1>1
<1>4. IInv /\ [Next]_vars => [\A u \in Turns : [Run(u)!Next]_<<life[u], PlaceOf(u)>>]_vars
    BY <1>2
<1> QED BY <1>3, <1>4, Invariance, PTL DEF Spec, RefinesTurnRun

-----------------------------------------------------------------------------
(* The order of the ledger                                                 *)

\* A dict gives its n keys the places 1 .. n, each to one of them.
IsDict(d) ==
    /\ d \in [ApprovalIds -> Nat]
    /\ \A i, j \in Keys(d) : d[i] = d[j] => i = j
    /\ \A i \in Keys(d) : d[i] <= Cardinality(Keys(d))

\* Pending and decided ids are kept in order, and no more of them than is retained.
OrderInv ==
    /\ IsDict(live) /\ Cardinality(Keys(live)) <= LiveRetention
    /\ IsDict(decided) /\ Cardinality(Keys(decided)) <= DecidedRetention

\* A new key comes last, a present one stays where it is.
LEMMA WithKeyIsLast ==
    ASSUME NEW d, IsDict(d), NEW id \in ApprovalIds
    PROVE  /\ IsDict(WithKey(d, id))
           /\ Keys(WithKey(d, id)) = Keys(d) \cup {id}
           /\ \A i \in Keys(d) : WithKey(d, id)[i] = d[i]
           /\ IF id \in Keys(d) THEN WithKey(d, id) = d
              ELSE /\ WithKey(d, id)[id] = Cardinality(Keys(d)) + 1
                   /\ Cardinality(Keys(WithKey(d, id))) = Cardinality(Keys(d)) + 1
<1> DEFINE n == Cardinality(Keys(d))
           w == WithKey(d, id)
<1>1. IsFiniteSet(Keys(d)) /\ n \in Nat
    BY FinitelyManyKeys
<1>2. d \in [ApprovalIds -> Nat]
    BY DEF IsDict
<1>3. CASE id \in Keys(d)
    BY <1>3 DEF WithKey
<1>4. CASE id \notin Keys(d)
    <2>1. w = [d EXCEPT ![id] = n + 1]
        BY <1>4 DEF WithKey
    <2>2. /\ w \in [ApprovalIds -> Nat] /\ w[id] = n + 1
          /\ \A i \in ApprovalIds \ {id} : w[i] = d[i]
        BY <1>1, <1>2, <2>1
    <2> HIDE DEF w
    <2>3. Keys(w) = Keys(d) \cup {id}
        BY <1>1, <2>2 DEF Keys
    <2>4. Cardinality(Keys(w)) = n + 1
        BY <1>1, <1>4, <2>3, FS_AddElement
    <2>5. \A i \in Keys(d) : i # id /\ w[i] = d[i] /\ d[i] \in Nat /\ d[i] <= n
        BY <1>2, <1>4, <2>2 DEF Keys, IsDict
    <2>6. \A i, j \in Keys(d) : d[i] = d[j] => i = j
        BY DEF IsDict
    <2> HIDE DEF n
    <2>7. \A i, j \in Keys(w) : w[i] = w[j] => i = j
        BY <1>1, <2>2, <2>3, <2>5, <2>6
    <2>8. \A i \in Keys(w) : w[i] <= Cardinality(Keys(w))
        BY <1>1, <2>2, <2>3, <2>4, <2>5
    <2>9. IsDict(w)
        BY <2>2, <2>7, <2>8 DEF IsDict
    <2> QED BY <1>4, <2>2, <2>3, <2>4, <2>5, <2>9 DEF w, n
<1> QED BY <1>3, <1>4

\* The keys behind the one that is removed move up.
LEMMA WithoutKeyMovesUp ==
    ASSUME NEW d, IsDict(d), NEW id \in Keys(d)
    PROVE  /\ IsDict(WithoutKey(d, id))
           /\ Keys(WithoutKey(d, id)) = Keys(d) \ {id}
           /\ Cardinality(Keys(WithoutKey(d, id))) = Cardinality(Keys(d)) - 1
           /\ \A i, j \in Keys(WithoutKey(d, id)) :
                 WithoutKey(d, id)[i] < WithoutKey(d, id)[j] <=> d[i] < d[j]
<1> DEFINE n == Cardinality(Keys(d))
           w == WithoutKey(d, id)
<1>1. IsFiniteSet(Keys(d)) /\ n \in Nat
    BY FinitelyManyKeys
<1>2. /\ d \in [ApprovalIds -> Nat] /\ id \in ApprovalIds
      /\ \A i, j \in Keys(d) : d[i] = d[j] => i = j
      /\ \A i \in Keys(d) : i \in ApprovalIds /\ d[i] \in Nat \ {0} /\ d[i] <= n
    BY DEF IsDict, Keys
<1>3. w = [i \in ApprovalIds |-> IF i = id THEN 0 ELSE IF d[i] > d[id] THEN d[i] - 1 ELSE d[i]]
    BY DEF WithoutKey
<1> HIDE DEF w
<1>4. w \in [ApprovalIds -> Nat]
    BY <1>2, <1>3
<1>5. Keys(w) = Keys(d) \ {id}
    BY <1>2, <1>3 DEF Keys
<1>6. Cardinality(Keys(w)) = n - 1
    BY <1>1, <1>5, FS_RemoveElement
<1> HIDE DEF n
<1>7. \A i \in Keys(w) : /\ i \in Keys(d) /\ i # id
                         /\ w[i] = IF d[i] > d[id] THEN d[i] - 1 ELSE d[i]
                         /\ d[i] # d[id]
    BY <1>2, <1>3, <1>5
<1>8. \A i, j \in Keys(w) : w[i] = w[j] => i = j
    BY <1>2, <1>7
<1>9. \A i \in Keys(w) : w[i] <= n - 1
    BY <1>1, <1>2, <1>7
<1>10. \A i, j \in Keys(w) : w[i] < w[j] <=> d[i] < d[j]
    BY <1>2, <1>7
<1> QED BY <1>4, <1>5, <1>6, <1>8, <1>9, <1>10 DEF IsDict, w, n

\* Whatever is not empty has a first key.
LEMMA OldestExists ==
    ASSUME NEW d, IsDict(d), Keys(d) # {}
    PROVE  \E i \in Keys(d) : d[i] = 1
<1> DEFINE n == Cardinality(Keys(d))
           f == [i \in Keys(d) |-> d[i]]
<1>1. IsFiniteSet(Keys(d)) /\ n \in Nat /\ n # 0
    BY FinitelyManyKeys, FS_EmptySet
<1>2. \A i \in Keys(d) : d[i] \in 1 .. n
    BY <1>1 DEF IsDict, Keys
<1>3. IsFiniteSet(1 .. n) /\ Cardinality(1 .. n) = n
    BY <1>1, FS_Interval
<1>4. f \in Injection(Keys(d), 1 .. n)
    BY <1>2 DEF IsDict, Injection, IsInjective
<1>5. f \in Surjection(Keys(d), 1 .. n)
    BY <1>3, <1>4, FS_Injection
<1>6. 1 \in 1 .. n
    BY <1>1
<1>7. \E i \in Keys(d) : f[i] = 1
    BY <1>5, <1>6 DEF Surjection
<1> QED BY <1>7

\* One key too many, and the first is dropped.
LEMMA BoundedDropsTheOldest ==
    ASSUME NEW d, IsDict(d), NEW limit \in Nat \ {0}, Cardinality(Keys(d)) <= limit + 1
    PROVE  /\ IsDict(Bounded(d, limit))
           /\ Cardinality(Keys(Bounded(d, limit))) <= limit
           /\ IF Cardinality(Keys(d)) <= limit THEN Bounded(d, limit) = d
              ELSE /\ Cardinality(Keys(Bounded(d, limit))) = limit
                   /\ Keys(Bounded(d, limit)) = {i \in Keys(d) : d[i] # 1}
           /\ \A i, j \in Keys(Bounded(d, limit)) :
                 Bounded(d, limit)[i] < Bounded(d, limit)[j] <=> d[i] < d[j]
<1> DEFINE n == Cardinality(Keys(d))
           w == Bounded(d, limit)
<1>1. IsFiniteSet(Keys(d)) /\ n \in Nat
    BY FinitelyManyKeys
<1>2. CASE n <= limit
    BY <1>1, <1>2 DEF Bounded
<1>3. CASE n = limit + 1
    <2>1. w = [i \in ApprovalIds |-> IF i \in Keys(d) THEN d[i] - 1 ELSE 0]
        BY <1>3 DEF Bounded
    <2>2. /\ \A i, j \in Keys(d) : d[i] = d[j] => i = j
          /\ \A i \in Keys(d) : i \in ApprovalIds /\ d[i] \in Nat \ {0} /\ d[i] <= n
        BY DEF IsDict, Keys
    <2> HIDE DEF w
    <2>3. w \in [ApprovalIds -> Nat]
        BY <2>1, <2>2
    <2>4. Keys(w) = {i \in Keys(d) : d[i] # 1}
        BY <2>1, <2>2 DEF Keys
    <2>5. Keys(d) # {}
        BY <1>3, FS_EmptySet
    <2>6. PICK first \in Keys(d) : d[first] = 1
        BY <2>5, OldestExists
    <2>7. Keys(w) = Keys(d) \ {first}
        BY <2>2, <2>4, <2>6
    <2>8. Cardinality(Keys(w)) = limit
        BY <1>1, <1>3, <2>6, <2>7, FS_RemoveElement
    <2>9. \A i, j \in Keys(w) : w[i] = w[j] => i = j
        BY <2>1, <2>2, <2>4
    <2>10. \A i \in Keys(w) : w[i] <= limit
        BY <1>3, <2>1, <2>2, <2>4
    <2>11. \A i, j \in Keys(w) : w[i] < w[j] <=> d[i] < d[j]
        BY <2>1, <2>2, <2>4
    <2> QED BY <1>3, <2>3, <2>4, <2>8, <2>9, <2>10, <2>11 DEF IsDict, w
<1> QED BY <1>1, <1>2, <1>3

\* The key in the first place is before every other.
LEMMA FirstIsBefore ==
    ASSUME NEW d, IsDict(d), NEW i \in Keys(d), d[i] = 1
    PROVE  \A j \in Keys(d) \ {i} : d[i] < d[j]
BY DEF IsDict, Keys

\* Adding a key under a limit: it is in, and the dict ages.
LEMMA AddingUnderALimit ==
    ASSUME NEW d, IsDict(d), NEW id \in ApprovalIds, NEW limit \in Nat \ {0},
           Cardinality(Keys(d)) <= limit,
           NEW w, w = Bounded(WithKey(d, id), limit)
    PROVE  /\ IsDict(w) /\ Cardinality(Keys(w)) <= limit
           /\ id \in Keys(w)
           /\ Ages(d, w, limit, {})
<1> DEFINE x == WithKey(d, id)
<1>1. Cardinality(Keys(d)) \in Nat
    BY FinitelyManyKeys
<1>2. /\ IsDict(x)
      /\ Keys(x) = Keys(d) \cup {id}
      /\ \A i \in Keys(d) : x[i] = d[i]
      /\ IF id \in Keys(d) THEN x = d
         ELSE /\ x[id] = Cardinality(Keys(d)) + 1
              /\ Cardinality(Keys(x)) = Cardinality(Keys(d)) + 1
    BY WithKeyIsLast
<1> HIDE DEF x
<1>3. Cardinality(Keys(x)) <= limit + 1
    BY <1>1, <1>2
<1>4. /\ IsDict(w) /\ Cardinality(Keys(w)) <= limit
      /\ IF Cardinality(Keys(x)) <= limit THEN w = x
         ELSE /\ Cardinality(Keys(w)) = limit
              /\ Keys(w) = {i \in Keys(x) : x[i] # 1}
      /\ \A i, j \in Keys(w) : w[i] < w[j] <=> x[i] < x[j]
    BY <1>2, <1>3, BoundedDropsTheOldest DEF x
<1>5. id \in Keys(w) /\ Keys(w) \subseteq Keys(x)
    <2>1. CASE Cardinality(Keys(x)) <= limit
        BY <1>2, <1>4, <2>1
    <2>2. CASE ~ Cardinality(Keys(x)) <= limit
        <3>1. x[id] = Cardinality(Keys(x)) /\ x[id] # 1
            BY <1>1, <1>2, <2>2
        <3> QED BY <1>2, <1>4, <2>2, <3>1
    <2> QED BY <2>1, <2>2
<1>6. \A i \in Keys(d), j \in Keys(x) : x[i] < x[j] <=> (j \in Keys(d) => d[i] < d[j])
    <2>1. \A i \in Keys(d) : d[i] \in Nat /\ d[i] <= Cardinality(Keys(d))
        BY DEF IsDict, Keys
    <2> QED BY <1>1, <1>2, <2>1
<1>7. \A i \in Keys(d) \cap Keys(w), j \in Keys(w) : w[i] < w[j] <=> (j \in Keys(d) => d[i] < d[j])
    BY <1>4, <1>5, <1>6
<1>8. ASSUME NEW i \in Keys(d) \ Keys(w)
      PROVE  Cardinality(Keys(w)) = limit /\ \A j \in Keys(d) \ {i} : d[i] < d[j]
    <2>1. i \in Keys(x) \ Keys(w)
        BY <1>2
    <2>2. Cardinality(Keys(w)) = limit /\ d[i] = 1
        BY <1>2, <1>4, <2>1
    <2> QED BY <2>2, FirstIsBefore
<1> QED BY <1>4, <1>5, <1>7, <1>8 DEF Ages

LEMMA RegisterKeepsOrder ==
    ASSUME OrderInv, NEW u \in Turns, NEW id \in ApprovalIds, NEW present \in BOOLEAN,
           Register(u, id, present)
    PROVE  /\ OrderInv'
           /\ id \in Keys(live')
           /\ Ages(live, live', LiveRetention, {})
<1>1. live' = Bounded(WithKey(live, id), LiveRetention) /\ decided' = decided
    BY DEF Register
<1>2. /\ IsDict(live') /\ Cardinality(Keys(live')) <= LiveRetention
      /\ id \in Keys(live')
      /\ Ages(live, live', LiveRetention, {})
    BY <1>1, AddingUnderALimit, RetentionAssumption DEF OrderInv
<1> QED BY <1>1, <1>2 DEF OrderInv, IsDict, Keys

LEMMA DecideKeepsOrder ==
    ASSUME OrderInv, NEW t \in Threads, NEW id \in ApprovalIds, NEW allow \in BOOLEAN,
           Decide(t, id, allow)
    PROVE  /\ OrderInv'
           /\ id \in Keys(decided') \ Keys(decided)
           /\ Ages(live, live', LiveRetention, {id})
           /\ Ages(decided, decided', DecidedRetention, {})
<1>1. /\ live' = WithoutKey(live, id)
      /\ decided' = Bounded(WithKey(decided, id), DecidedRetention)
      /\ id \in Keys(live) \ Keys(decided)
    BY DEF Decide, Burn, Awaiting
<1>2. /\ IsDict(live') /\ Keys(live') = Keys(live) \ {id}
      /\ Cardinality(Keys(live')) = Cardinality(Keys(live)) - 1
      /\ \A i, j \in Keys(live') : live'[i] < live'[j] <=> live[i] < live[j]
    BY <1>1, WithoutKeyMovesUp DEF OrderInv
<1>3. /\ IsDict(decided') /\ Cardinality(Keys(decided')) <= DecidedRetention
      /\ id \in Keys(decided')
      /\ Ages(decided, decided', DecidedRetention, {})
    BY <1>1, AddingUnderALimit, RetentionAssumption DEF OrderInv
<1>4. Cardinality(Keys(live)) \in Nat
    BY FinitelyManyKeys
<1>5. Cardinality(Keys(live')) <= LiveRetention
    BY <1>2, <1>4, RetentionAssumption DEF OrderInv
<1>6. Ages(live, live', LiveRetention, {id})
    BY <1>2, <1>5 DEF Ages
<1> QED BY <1>1, <1>2, <1>3, <1>5, <1>6 DEF OrderInv, IsDict, Keys

\* Only a registration and a decision touch the ledger.
LEMMA LedgerSteps ==
    ASSUME [Next]_vars
    PROVE  \/ UNCHANGED <<shown, live, envelope, decided>>
           \/ \E u \in Turns, id \in ApprovalIds, present \in BOOLEAN : Register(u, id, present)
           \/ Decides
<1>1. ASSUME NEW u \in Turns, Reads(u) \/ ProviderEnds(u) \/ Resume(u) \/ Publish(u) \/ Retracts(u)
      PROVE  UNCHANGED <<shown, live, envelope, decided>>
    BY <1>1 DEF Reads, Retracts, ReadRequest, Settle, TimesOut, ProviderEnds, Resume, Publish,
                RetractChecks, RetractPops, SessionCloses, ledgerVars
<1> QED BY <1>1 DEF Next, Pumps, StartTurn, EndTurn, CloseGenerator, Asks, ledgerVars, vars

LEMMA OrderIsKept == OrderInv /\ [Next]_vars => OrderInv'
<1> SUFFICES ASSUME OrderInv, [Next]_vars
             PROVE  OrderInv'
    OBVIOUS
<1>1. CASE UNCHANGED <<shown, live, envelope, decided>>
    BY <1>1 DEF OrderInv, IsDict, Keys
<1>2. CASE \E u \in Turns, id \in ApprovalIds, present \in BOOLEAN : Register(u, id, present)
    BY <1>2, RegisterKeepsOrder
<1>3. CASE Decides
    BY <1>3, DecideKeepsOrder DEF Decides
<1> QED BY <1>1, <1>2, <1>3, LedgerSteps

\* The empty dicts are in order.
LEMMA OrderAtFirst == Init => OrderInv
<1> SUFFICES ASSUME Init
             PROVE  OrderInv
    OBVIOUS
<1>1. Keys(live) = {} /\ Keys(decided) = {}
    BY DEF Init, Keys
<1>2. Cardinality(Keys(live)) = 0 /\ Cardinality(Keys(decided)) = 0
    BY <1>1, FS_EmptySet
<1>3. live \in [ApprovalIds -> Nat] /\ decided \in [ApprovalIds -> Nat]
    BY DEF Init
<1> QED BY <1>1, <1>2, <1>3, RetentionAssumption DEF OrderInv, IsDict

\* Whatever is taken out may as well be more.
LEMMA AgesIfMoreIsTaken ==
    ASSUME NEW d, NEW e, NEW limit, NEW taken, NEW more, taken \subseteq more,
           Ages(d, e, limit, taken)
    PROVE  Ages(d, e, limit, more)
BY DEF Ages

\* What was just shown is in the ledger, and both of its dicts drop only the key that is
\* there the longest, only when they are full, and never change the order of what stays.
THEOREM LedgerKeepsOrder == Spec => LedgerDropsTheOldest
<1> DEFINE Shown == \A u \in Turns :
                       shown'[u] # shown[u] =>
                           \E id \in Keys(live') :
                               envelope'[id].turn = u /\ envelope'[id].request = shown'[u]
           Kept == /\ Shown
                   /\ Ages(live, live', LiveRetention, Keys(decided') \ Keys(decided))
                   /\ Ages(decided, decided', DecidedRetention, {})
<1>1. ASSUME TypeOK, OrderInv, [Next]_vars
      PROVE  Kept
    <2>1. CASE UNCHANGED <<shown, live, envelope, decided>>
        BY <2>1 DEF Ages
    <2>2. ASSUME NEW u \in Turns, NEW id \in ApprovalIds, NEW present \in BOOLEAN,
                 Register(u, id, present)
          PROVE  Kept
        <3>1. id \in Keys(live') /\ Ages(live, live', LiveRetention, {})
            BY <1>1, <2>2, RegisterKeepsOrder
        <3>2. envelope'[id].turn = u /\ envelope'[id].request = shown[u] + 1
            BY <2>2, <3>1 DEF Register, Keys
        <3>3. shown'[u] = shown[u] + 1 /\ \A v \in Turns \ {u} : shown'[v] = shown[v]
            BY <1>1, <2>2 DEF Register, TypeOK
        <3>4. Shown
            BY <3>1, <3>2, <3>3
        <3>5. Ages(decided, decided', DecidedRetention, {})
            BY <2>2 DEF Register, Ages
        <3>6. Ages(live, live', LiveRetention, Keys(decided') \ Keys(decided))
            BY <3>1, AgesIfMoreIsTaken
        <3> QED BY <3>4, <3>5, <3>6
    <2>3. ASSUME NEW t \in Threads, NEW id \in ApprovalIds, NEW allow \in BOOLEAN,
                 Decide(t, id, allow)
          PROVE  Kept
        <3>1. /\ id \in Keys(decided') \ Keys(decided)
              /\ Ages(live, live', LiveRetention, {id})
              /\ Ages(decided, decided', DecidedRetention, {})
            BY <1>1, <2>3, DecideKeepsOrder
        <3>2. Shown
            BY <2>3 DEF Decide
        <3>3. Ages(live, live', LiveRetention, Keys(decided') \ Keys(decided))
            BY <3>1, AgesIfMoreIsTaken
        <3> QED BY <3>1, <3>2, <3>3
    <2> QED BY <1>1, <2>1, <2>2, <2>3, LedgerSteps DEF Decides
<1>2. IInv => TypeOK
    BY DEF IInv
<1>3. TypeOK /\ OrderInv /\ [Next]_vars => [Kept]_vars
    BY <1>1
<1> QED BY <1>2, <1>3, OrderAtFirst, OrderIsKept, Invariance, PTL DEF Spec, LedgerDropsTheOldest

-----------------------------------------------------------------------------
(* The consent for a request                                               *)

\* How far a request has come, in numbers.
LEMMA Counts ==
    ASSUME TypeOK, NEW u \in Turns, NEW n \in Requests
    PROVE  /\ n \in Nat \ {0} /\ shown[u] \in Nat /\ Len(asked[u]) \in Nat
           /\ shown[u] <= Len(asked[u])
           /\ \A i \in 1 .. Len(asked[u]) : asked[u][i] \in BOOLEAN
<1>1. /\ asked[u] \in Seq(BOOLEAN) /\ shown[u] \in Nat /\ read[u] \in Nat
      /\ shown[u] <= read[u] /\ read[u] <= Len(asked[u])
    BY DEF TypeOK
<1>2. Len(asked[u]) \in Nat /\ \A i \in 1 .. Len(asked[u]) : asked[u][i] \in BOOLEAN
    BY <1>1
<1> QED BY <1>1, <1>2 DEF Requests

\* The child asks: the request after its last one is asked, no other moves.
LEMMA AskConsents ==
    ASSUME IInv, NEW v \in Turns, NEW scoped \in BOOLEAN, Asks(v, scoped),
           NEW u \in Turns, NEW n \in Requests
    PROVE  \/ Request(u, n)!Ask
           \/ UNCHANGED <<StageOf(u, n), MayAllow(u, n), Verdicts(u, n)>>
<1>1. TypeOK
    BY DEF IInv
<1>2. /\ asked' = [asked EXCEPT ![v] = Append(asked[v], scoped)]
      /\ UNCHANGED <<shown, envelope, sent>>
    BY DEF Asks, ledgerVars
<1>3. Verdicts(u, n)' = Verdicts(u, n) /\ (IsOpen(u, n)' <=> IsOpen(u, n))
    BY <1>2 DEF Verdicts, IsOpen
<1>4. /\ n \in Nat /\ shown[u] \in Nat /\ Len(asked[u]) \in Nat /\ shown[u] <= Len(asked[u])
      /\ asked[u] \in Seq(BOOLEAN)
    BY <1>1, Counts DEF TypeOK
<1>5. CASE u = v /\ n = Len(asked[v]) + 1
    <2>1. Len(asked'[u]) = n /\ asked'[u][n] \in BOOLEAN
        BY <1>1, <1>2, <1>4, <1>5 DEF TypeOK
    <2>2. StageOf(u, n) = "unasked" /\ StageOf(u, n)' = "asked"
        BY <1>2, <1>4, <1>5, <2>1 DEF StageOf
    <2>3. MayAllow(u, n)' \in BOOLEAN
        BY <2>1, <1>4 DEF MayAllow
    <2> QED BY <1>3, <2>2, <2>3 DEF Request!Ask
<1>6. CASE u # v
    <2>1. asked'[u] = asked[u]
        BY <1>1, <1>2, <1>6 DEF TypeOK
    <2> QED BY <1>2, <1>3, <2>1 DEF StageOf, MayAllow
<1>7. CASE u = v /\ n # Len(asked[v]) + 1
    <2>1. /\ Len(asked'[u]) = Len(asked[u]) + 1
          /\ \A i \in 1 .. Len(asked[u]) : asked'[u][i] = asked[u][i]
        BY <1>1, <1>2, <1>4, <1>7 DEF TypeOK
    <2>2. n > Len(asked'[u]) <=> n > Len(asked[u])
        BY <1>4, <1>7, <2>1
    <2>3. StageOf(u, n)' = StageOf(u, n)
        BY <1>2, <1>3, <2>2 DEF StageOf
    <2>4. MayAllow(u, n)' = MayAllow(u, n)
        BY <1>1, <1>4, <2>1, <2>2 DEF MayAllow, Requests
    <2> QED BY <1>3, <2>3, <2>4
<1> QED BY <1>5, <1>6, <1>7

\* The pump registers the next request of a child, which is open now; others may have
\* been displaced.
LEMMA RegisterConsents ==
    ASSUME IInv, OrderInv, NEW v \in Turns, NEW id \in ApprovalIds, NEW present \in BOOLEAN,
           Register(v, id, present),
           NEW u \in Turns, NEW n \in Requests
    PROVE  \/ Request(u, n)!Show
           \/ Request(u, n)!Forget
           \/ UNCHANGED <<StageOf(u, n), MayAllow(u, n), Verdicts(u, n)>>
<1>1. TypeOK
    BY DEF IInv
<1> DEFINE e == [turn |-> v, request |-> shown[v] + 1,
                 allowed |-> asked[v][shown[v] + 1] /\ present]
<1>2. /\ shown' = [shown EXCEPT ![v] = shown[v] + 1]
      /\ shown[v] < read[v]
      /\ envelope' = [i \in ApprovalIds |-> IF live'[i] = 0 THEN NoEnvelope
                                            ELSE IF i = id THEN e ELSE envelope[i]]
      /\ UNCHANGED <<asked, sent>>
    BY DEF Register, childVars
<1>3. MayAllow(u, n)' = MayAllow(u, n) /\ Verdicts(u, n)' = Verdicts(u, n)
    BY <1>2 DEF MayAllow, Verdicts
<1>4. /\ n \in Nat /\ shown[u] \in Nat /\ shown[v] \in Nat
      /\ Len(asked[u]) \in Nat /\ shown[u] <= Len(asked[u])
    BY <1>1, Counts DEF TypeOK
<1>5. e # NoEnvelope /\ e.turn = v /\ e.request = shown[v] + 1
    <2>1. shown[v] + 1 \in Requests /\ asked[v][shown[v] + 1] \in BOOLEAN
        BY <1>1, <1>2, RequestAssumption DEF TypeOK, Requests
    <2>2. e \in Envelopes
        BY <2>1 DEF Envelopes
    <2> QED BY <2>2, EnvelopeAssumption
<1> HIDE DEF e
<1>6. envelope'[id] = e
    <2>1. id \in Keys(live')
        BY RegisterKeepsOrder
    <2> QED BY <1>2, <2>1 DEF Keys
<1>7. \A i \in ApprovalIds : envelope'[i] \in {NoEnvelope, e, envelope[i]}
    BY <1>2
<1>8. CASE u = v /\ n = shown[v] + 1
    <2>1. n <= Len(asked[u]) /\ n > shown[u] /\ shown'[u] = n
        BY <1>1, <1>2, <1>4, <1>8 DEF TypeOK
    <2>2. IsOpen(u, n)'
        BY <1>5, <1>6, <1>8 DEF IsOpen
    <2>3. StageOf(u, n) = "asked" /\ StageOf(u, n)' = "open"
        BY <1>2, <1>4, <2>1, <2>2 DEF StageOf
    <2> QED BY <1>3, <2>3 DEF Request!Show
<1>9. CASE ~ (u = v /\ n = shown[v] + 1)
    <2>1. n > shown'[u] <=> n > shown[u]
        BY <1>1, <1>2, <1>4, <1>9 DEF TypeOK
    <2>2. IsOpen(u, n)' => IsOpen(u, n)
        BY <1>5, <1>7, <1>9 DEF IsOpen
    <2>3. \/ StageOf(u, n)' = StageOf(u, n)
          \/ StageOf(u, n) = "open" /\ StageOf(u, n)' = "over"
        BY <1>2, <2>1, <2>2 DEF StageOf
    <2> QED BY <1>3, <2>3 DEF Request!Forget
<1> QED BY <1>8, <1>9

\* A decision is over the request of its envelope, and with it that request is over.
LEMMA DecideConsents ==
    ASSUME IInv, NEW t \in Threads, NEW id \in ApprovalIds, NEW allow \in BOOLEAN,
           Decide(t, id, allow),
           NEW u \in Turns, NEW n \in Requests
    PROVE  \/ \E verdict \in {"accept", "decline"} : Request(u, n)!Decide(verdict)
           \/ UNCHANGED <<StageOf(u, n), MayAllow(u, n), Verdicts(u, n)>>
<1>1. TypeOK /\ LedgerInv
    BY DEF IInv
<1> DEFINE e == envelope[id]
           verdict == IF allow THEN "accept" ELSE "decline"
<1>2. /\ id \in Keys(live) /\ (allow => e.allowed)
      /\ envelope' = [envelope EXCEPT ![id] = NoEnvelope]
      /\ UNCHANGED <<asked, shown>>
      /\ \/ sent' = sent
         \/ sent' = [sent EXCEPT ![e.turn][e.request] =
                        Append(sent[e.turn][e.request], [to |-> sessions[t], verdict |-> verdict])]
    BY DEF Decide, Awaiting, Permits, Burn, Deliver
<1>3. e \in Envelopes /\ e # NoEnvelope /\ e.turn \in Turns /\ e.request \in Requests
    BY <1>1, <1>2 DEF TypeOK, Keys, Envelopes
<1>4. /\ sent[e.turn][e.request] = <<>> /\ (e.allowed => asked[e.turn][e.request])
      /\ e.request <= shown[e.turn]
    BY <1>1, <1>3 DEF LedgerInv
<1>5. MayAllow(u, n)' = MayAllow(u, n)
    BY <1>2 DEF MayAllow
<1>6. sent \in [Turns -> [Requests -> Seq(Frames)]]
    BY <1>1 DEF TypeOK
<1>7. verdict \in {"accept", "decline"} /\ (verdict = "accept" => allow)
    OBVIOUS
<1> DEFINE f == [to |-> sessions[t], verdict |-> verdict]
<1>8. f.verdict = verdict
    OBVIOUS
<1> HIDE DEF verdict, f
<1>9. CASE u = e.turn /\ n = e.request
    <2>1. ~(n > Len(asked[u])) /\ ~(n > shown[u]) /\ (allow => MayAllow(u, n))
        BY <1>1, <1>2, <1>3, <1>4, <1>9, Counts DEF MayAllow
    <2>2. IsOpen(u, n)
        BY <1>3, <1>9 DEF IsOpen
    <2>3. ~IsOpen(u, n)'
        <3>1. \A i \in ApprovalIds :
                 envelope'[i] = IF i = id THEN NoEnvelope ELSE envelope[i]
            BY <1>1, <1>2 DEF TypeOK
        <3>2. \A i \in ApprovalIds \ {id} :
                 envelope[i] # NoEnvelope => envelope[i].turn # u \/ envelope[i].request # n
            BY <1>1, <1>2, <1>3, <1>9 DEF LedgerInv, Keys
        <3> QED BY <3>1, <3>2 DEF IsOpen
    <2>4. StageOf(u, n) = "open" /\ StageOf(u, n)' = "over"
        BY <1>2, <2>1, <2>2, <2>3 DEF StageOf
    <2>5. sent[u][n] = <<>> /\ (sent'[u][n] = <<>> \/ sent'[u][n] = <<f>>)
        <3>1. CASE sent' = sent
            BY <1>4, <1>9, <3>1
        <3>2. CASE sent' = [sent EXCEPT ![e.turn][e.request] = Append(sent[e.turn][e.request], f)]
            <4>1. sent'[u][n] = Append(sent[u][n], f)
                BY <1>3, <1>6, <1>9, <3>2
            <4>2. sent[u][n] = <<>>
                BY <1>4, <1>9
            <4>3. Append(<<>>, f) = <<f>>
                OBVIOUS
            <4> QED BY <4>1, <4>2, <4>3
        <3> QED BY <1>2, <3>1, <3>2 DEF f
    <2>6. Verdicts(u, n) = <<>>
        BY <2>5 DEF Verdicts
    <2>7. CASE sent'[u][n] = <<>>
        <3>1. Verdicts(u, n)' = Verdicts(u, n)
            BY <2>5, <2>7 DEF Verdicts
        <3>2. Request(u, n)!Decide(verdict)
            BY <1>5, <1>7, <2>1, <2>4, <3>1 DEF Request!Decide
        <3> QED BY <1>7, <3>2
    <2>8. CASE sent'[u][n] = <<f>>
        <3>1. Len(sent'[u][n]) = 1 /\ sent'[u][n][1].verdict = verdict
            BY <2>8, <1>8
        <3>2. Verdicts(u, n)' = [i \in 1 .. 1 |-> verdict]
            BY <3>1 DEF Verdicts
        <3>3. Verdicts(u, n)' = Append(Verdicts(u, n), verdict)
            BY <2>6, <3>2
        <3>4. Request(u, n)!Decide(verdict)
            BY <1>5, <1>7, <2>1, <2>4, <3>3 DEF Request!Decide
        <3> QED BY <1>7, <3>4
    <2> QED BY <2>5, <2>7, <2>8
<1>10. CASE ~ (u = e.turn /\ n = e.request)
    <2>1. sent'[u][n] = sent[u][n]
        BY <1>2, <1>3, <1>6, <1>10
    <2>2. IsOpen(u, n)' <=> IsOpen(u, n)
        BY <1>1, <1>2, <1>10 DEF IsOpen, TypeOK
    <2>3. StageOf(u, n)' = StageOf(u, n)
        BY <1>2, <2>2 DEF StageOf
    <2>4. Verdicts(u, n)' = Verdicts(u, n)
        BY <2>1 DEF Verdicts
    <2> QED BY <1>5, <2>3, <2>4
<1> QED BY <1>9, <1>10

\* Every request implements Consent: it is opened once, displaced or decided once, and on
\* its behalf nothing is written but that decision, whichever ids are used again and
\* whatever the ledger has forgotten.
THEOREM RequestsImplementConsent == Spec => RefinesConsent
<1>1. ASSUME Init, NEW u \in Turns, NEW n \in Requests
      PROVE  Request(u, n)!Init
    BY <1>1 DEF Init, Request!Init, StageOf, MayAllow, Verdicts, Requests
<1>2. ASSUME IInv, OrderInv, [Next]_vars, NEW u \in Turns, NEW n \in Requests
      PROVE  [Request(u, n)!Next]_<<StageOf(u, n), MayAllow(u, n), Verdicts(u, n)>>
    <2>1. CASE UNCHANGED <<asked, shown, envelope, sent>>
        BY <2>1 DEF StageOf, IsOpen, MayAllow, Verdicts
    <2>2. CASE \E v \in Turns, scoped \in BOOLEAN : Asks(v, scoped)
        BY <1>2, <2>2, AskConsents DEF Request!Next
    <2>3. CASE \E v \in Turns, id \in ApprovalIds, present \in BOOLEAN :
                  Register(v, id, present)
        BY <1>2, <2>3, RegisterConsents DEF Request!Next
    <2>4. CASE Decides
        BY <1>2, <2>4, DecideConsents DEF Request!Next, Decides
    <2> QED BY <1>2, <2>1, <2>2, <2>3, <2>4, RequestSteps
<1>3. Init => \A u \in Turns, n \in Requests : Request(u, n)!Init
    BY <1>1
<1>4. IInv /\ OrderInv /\ [Next]_vars =>
          [\A u \in Turns, n \in Requests :
              [Request(u, n)!Next]_<<StageOf(u, n), MayAllow(u, n), Verdicts(u, n)>>]_vars
    BY <1>2
<1> QED BY <1>3, <1>4, OrderAtFirst, OrderIsKept, Invariance, PTL DEF Spec, RefinesConsent
=============================================================================
