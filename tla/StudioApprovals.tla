-------------------------- MODULE StudioApprovals --------------------------
(***************************************************************************)
(* The approval relay: a provider's child asks for permission and blocks,  *)
(* the pump makes the request decidable and shows it, the analyst decides, *)
(* and the decision is written to the child (approvals.py,                 *)
(* approval_routes.py, approval_delivery.py, turn_wiring.py, and the       *)
(* generator of codex_bridge.py).                                          *)
(*                                                                         *)
(* Of a turn's life this module knows what StudioTurns is proved to        *)
(* implement: it starts once, at most one turn of a thread is live, and it *)
(* ends once.  Routes and the pump run on one event loop; a generator runs *)
(* on reader and closing threads, whose steps interleave with it.          *)
(*                                                                         *)
(* A child is one process and numbers its requests for itself, from the    *)
(* first: the numbers of two children coincide.  Only approvals with a     *)
(* request waiting are modelled; those of the fake bridge answer nobody.   *)
(* A read_only turn ends with its first request, which is not registered.  *)
(* A decision that is refused (404, 422, 403, 409) changes nothing.        *)
(***************************************************************************)
EXTENDS Integers, Sequences, FiniteSets

CONSTANTS
    Turns,
    NoTurn,             \* no session is registered
    Threads,
    NoThread,
    ApprovalIds,        \* ids a provider's items may have; it may use one again
    NoEnvelope,
    LiveRetention,      \* _LIVE_RETENTION is 256
    DecidedRetention,   \* _DECIDED_RETENTION is 512
    MaxRequests,        \* bound on the requests of one child
    MaxAsked,           \* bound on the requests of all
    Asking              \* bound on their kinds: TRUE for scoped reads, FALSE for others

ASSUME TurnAssumption == NoTurn \notin Turns /\ NoThread \notin Threads
ASSUME RetentionAssumption == LiveRetention \in Nat \ {0} /\ DecidedRetention \in Nat \ {0}
ASSUME RequestAssumption == MaxRequests \in Nat /\ MaxAsked \in Nat
ASSUME IdAssumption == IsFiniteSet(ApprovalIds)

Requests == 1 .. MaxRequests

\* One approval: whose request it is, and whether Studio may allow it.
Envelopes == [turn : Turns, request : Requests, allowed : BOOLEAN]

\* A frame written to the child of a turn.
Frames == [to : Turns, verdict : {"accept", "decline"}]

ASSUME EnvelopeAssumption == NoEnvelope \notin Envelopes

VARIABLES
    threadOf,       \* the thread a turn was started on
    life,           \* of each turn in its thread's log: "new", "live", "ended"
    gen,            \* of each turn: where its generator is
    sessions,       \* provider_sessions: the turn whose session answers for a thread
    asked,          \* the child's requests; of each, whether it is a scoped read
    answer,         \* what the child was told: "none", "accept", "decline"
    read,           \* how many requests the reader has taken
    shown,          \* how many of these the pump has registered
    undecided,      \* _TurnState.undecided
    live,           \* PendingApprovals._live: the place of an id, 0 if it is not in
    envelope,       \* the envelope there
    decided,        \* PendingApprovals._decided: the place of an id, 0 if it is not in
    sent            \* the frames written on behalf of each request

turnVars   == <<threadOf, life>>
bridgeVars == <<gen, read, undecided>>
childVars  == <<asked, answer>>
ledgerVars == <<shown, live, envelope, decided, sent>>
vars == <<threadOf, life, gen, sessions, asked, answer, read, shown, undecided, live, envelope,
          decided, sent>>

-----------------------------------------------------------------------------
(* Turns                                                                   *)

\* start_turn: the generator is created, or has yielded its opening.
StartTurn(u, t) ==
    /\ life[u] = "new"
    /\ \A v \in Turns : threadOf[v] = t => life[v] # "live"
    /\ threadOf' = [threadOf EXCEPT ![u] = t]
    /\ life' = [life EXCEPT ![u] = "live"]
    /\ gen' = [gen EXCEPT ![u] = "opened"]
    /\ UNCHANGED <<sessions, childVars, read, undecided, ledgerVars>>

\* Stop, sweep, or the pump recording the provider's last event.  The approvals stay.
EndTurn(u) ==
    /\ life[u] = "live"
    /\ life' = [life EXCEPT ![u] = "ended"]
    /\ UNCHANGED <<threadOf, sessions, bridgeVars, childVars, ledgerVars>>

\* Slip: the generator of a turn that is still live is closed.
CloseGeneratorAnytime(u) ==
    /\ \/ gen[u] = "opened" /\ gen' = [gen EXCEPT ![u] = "closed"]
       \/ gen[u] \in {"yielded", "last"} /\ gen' = [gen EXCEPT ![u] = "leaving"]
    /\ UNCHANGED <<turnVars, sessions, childVars, read, undecided, ledgerVars>>

\* close(): a generator that has only yielded its opening is in no try block yet, one
\* that is suspended later goes to its finally.  A reader inside refuses it.
CloseGenerator(u) ==
    /\ life[u] = "ended"
    /\ \/ gen[u] = "opened" /\ gen' = [gen EXCEPT ![u] = "closed"]
       \/ gen[u] \in {"yielded", "last"} /\ gen' = [gen EXCEPT ![u] = "leaving"]
    /\ UNCHANGED <<turnVars, sessions, childVars, read, undecided, ledgerVars>>

-----------------------------------------------------------------------------
(* The session of a turn                                                   *)

\* The second next(): publish(session).  A poll that is still inside an ended turn may
\* get there late.
Publish(u) ==
    /\ gen[u] = "opened"
    /\ gen' = [gen EXCEPT ![u] = "reading"]
    /\ sessions' = [sessions EXCEPT ![threadOf[u]] = u]
    /\ UNCHANGED <<turnVars, childVars, read, undecided, ledgerVars>>

\* Slip: whoever retracts last thinks the session is its own.
RetractChecksNothing(u) ==
    /\ gen[u] = "leaving"
    /\ gen' = [gen EXCEPT ![u] = "mine"]
    /\ UNCHANGED <<turnVars, sessions, childVars, read, undecided, ledgerVars>>

\* Slip: the session stays registered.
RetractForgets(u) ==
    /\ gen[u] = "leaving"
    /\ gen' = [gen EXCEPT ![u] = "closing"]
    /\ UNCHANGED <<turnVars, sessions, childVars, read, undecided, ledgerVars>>

\* publish(None), the check: is the registered session mine?
RetractChecks(u) ==
    /\ gen[u] = "leaving"
    /\ gen' = [gen EXCEPT ![u] = IF sessions[threadOf[u]] = u THEN "mine" ELSE "closing"]
    /\ UNCHANGED <<turnVars, sessions, childVars, read, undecided, ledgerVars>>

\* publish(None), the pop: it removes whatever is registered by now.
RetractPops(u) ==
    /\ gen[u] = "mine"
    /\ gen' = [gen EXCEPT ![u] = "closing"]
    /\ sessions' = [sessions EXCEPT ![threadOf[u]] = NoTurn]
    /\ UNCHANGED <<turnVars, childVars, read, undecided, ledgerVars>>

\* session.close() has ended the child.
SessionCloses(u) ==
    /\ gen[u] = "closing"
    /\ gen' = [gen EXCEPT ![u] = "closed"]
    /\ UNCHANGED <<turnVars, sessions, childVars, read, undecided, ledgerVars>>

-----------------------------------------------------------------------------
(* The child and the reader                                                *)

\* Where the session of a turn is open: from publish(session) to publish(None).
Open == {"reading", "yielded", "last", "leaving", "mine"}

\* The child's requests, before close() ends it.  It may ask again before an answer.
Asks(u, scoped) ==
    /\ gen[u] \in Open
    /\ scoped \in Asking
    /\ Len(asked[u]) < MaxRequests
    /\ Cardinality({p \in Turns \X Requests : p[2] <= Len(asked[p[1]])}) < MaxAsked
    /\ asked' = [asked EXCEPT ![u] = Append(@, scoped)]
    /\ UNCHANGED <<turnVars, sessions, bridgeVars, answer, ledgerVars>>

\* Slip: the reader does not wait for a request.
ReadAhead(u) ==
    /\ gen[u] = "reading"
    /\ read' = [read EXCEPT ![u] = @ + 1]
    /\ undecided' = [undecided EXCEPT ![u] = @ \cup {read[u] + 1}]
    /\ gen' = [gen EXCEPT ![u] = "yielded"]
    /\ UNCHANGED <<turnVars, sessions, childVars, ledgerVars>>

\* A request is taken from the queue, remembered as undecided, and yielded.
ReadRequest(u) ==
    /\ gen[u] = "reading"
    /\ read[u] < Len(asked[u])
    /\ read' = [read EXCEPT ![u] = @ + 1]
    /\ undecided' = [undecided EXCEPT ![u] = @ \cup {read[u] + 1}]
    /\ gen' = [gen EXCEPT ![u] = "yielded"]
    /\ UNCHANGED <<turnVars, sessions, childVars, ledgerVars>>

\* Requests whose answer the child confirms with serverRequest/resolved.
Confirmed(u) == {n \in undecided[u] : answer[u][n] # "none"}

\* Slip: any confirmation withdraws the patience for all.
SettleAll(u) ==
    /\ gen[u] = "reading"
    /\ Confirmed(u) # {}
    /\ undecided' = [undecided EXCEPT ![u] = {}]
    /\ UNCHANGED <<turnVars, gen, sessions, childVars, read, ledgerVars>>

\* _settle_approval drops the confirmed request alone.
Settle(u) ==
    /\ gen[u] = "reading"
    /\ \E n \in Confirmed(u) : undecided' = [undecided EXCEPT ![u] = @ \ {n}]
    /\ UNCHANGED <<turnVars, gen, sessions, childVars, read, ledgerVars>>

\* The next poll, or the same one, advances the generator.
Resume(u) ==
    /\ gen[u] = "yielded"
    /\ shown[u] = read[u]
    /\ gen' = [gen EXCEPT ![u] = "reading"]
    /\ UNCHANGED <<turnVars, sessions, childVars, read, undecided, ledgerVars>>

\* No frame arrives: the child is slow, or it is blocked on the analyst.
Silent(u) == read[u] = Len(asked[u])

\* Slip: there is no limit to the patience with a human.
TimesOutUnlessAsked(u) ==
    /\ gen[u] = "reading"
    /\ Silent(u)
    /\ undecided[u] = {}
    /\ gen' = [gen EXCEPT ![u] = "last"]
    /\ UNCHANGED <<turnVars, sessions, childVars, read, undecided, ledgerVars>>

\* 30 s without a frame, or 300 s with a request undecided: turn_failed is yielded.
TimesOut(u) ==
    /\ gen[u] = "reading"
    /\ Silent(u)
    /\ gen' = [gen EXCEPT ![u] = "last"]
    /\ UNCHANGED <<turnVars, sessions, childVars, read, undecided, ledgerVars>>

\* A terminal frame or an unreadable one yields the last event; the end of the stream
\* goes to the finally first, and fails the turn after it.
ProviderEnds(u) ==
    /\ gen[u] = "reading"
    /\ \/ gen' = [gen EXCEPT ![u] = "last"]
       \/ gen' = [gen EXCEPT ![u] = "leaving"]
    /\ UNCHANGED <<turnVars, sessions, childVars, read, undecided, ledgerVars>>

-----------------------------------------------------------------------------
(* The ledger                                                              *)

(* A dict preserves the order of insertion: it maps each key to its place. *)

Keys(d) == {id \in ApprovalIds : d[id] # 0}

\* A key that is present keeps its place.
WithKey(d, id) == IF id \in Keys(d) THEN d ELSE [d EXCEPT ![id] = Cardinality(Keys(d)) + 1]

WithoutKey(d, id) ==
    [i \in ApprovalIds |-> IF i = id THEN 0
                           ELSE IF id \in Keys(d) /\ d[i] > d[id] THEN d[i] - 1
                           ELSE d[i]]

\* Slip: over the limit the newest key goes.
BoundedAtTheEnd(d, limit) == [i \in ApprovalIds |-> IF d[i] > limit THEN 0 ELSE d[i]]

\* Over the limit the oldest key goes.
Bounded(d, limit) ==
    IF Cardinality(Keys(d)) > limit
    THEN [i \in ApprovalIds |-> IF i \in Keys(d) THEN d[i] - 1 ELSE 0]
    ELSE d

\* The pump registers what the reader posted, before the browser sees it, also for a
\* turn that has ended meanwhile.  Studio may allow a scoped read on a thread whose
\* table is bound and present, and nothing else.
Register(u, id, tablePresent) ==
    LET n == shown[u] + 1
    IN  /\ shown[u] < read[u]
        /\ live' = Bounded(WithKey(live, id), LiveRetention)
        /\ envelope' = [i \in ApprovalIds |->
                           IF live'[i] = 0 THEN NoEnvelope
                           ELSE IF i = id
                           THEN [turn |-> u, request |-> n,
                                 allowed |-> asked[u][n] /\ tablePresent]
                           ELSE envelope[i]]
        /\ shown' = [shown EXCEPT ![u] = n]
        /\ UNCHANGED <<turnVars, sessions, bridgeVars, childVars, decided, sent>>

\* Slip: of any thread.
AwaitingAnywhere(t, id) == id \in Keys(live) \ Keys(decided)

\* _claim: not decided before, known, and of this thread.
Awaiting(t, id) ==
    /\ id \in Keys(live) \ Keys(decided)
    /\ threadOf[envelope[id].turn] = t

\* Slip: whatever the analyst says.
PermitsAll(e, allow) == TRUE

\* The one rule that the route, the ledger and the delivery each apply.
Permits(e, allow) == allow => e.allowed

\* The decision is recorded and the oldest recorded one forgotten over the limit.
Burn(id) ==
    /\ decided' = Bounded(WithKey(decided, id), DecidedRetention)
    /\ live' = WithoutKey(live, id)
    /\ envelope' = [envelope EXCEPT ![id] = NoEnvelope]

\* What the child makes of a frame: an answer to a request it has open.
Told(u, n, verdict) ==
    IF n \in 1 .. Len(asked[u]) /\ answer[u][n] = "none"
    THEN [answer EXCEPT ![u][n] = verdict]
    ELSE answer

\* _deliver: to the session that answers for the thread now.  A write that raises may
\* have reached the child or not.
Deliver(t, e, allow) ==
    LET v == sessions[t]
        verdict == IF allow THEN "accept" ELSE "decline"
    IN  \/ UNCHANGED <<sent, answer>>
        \/ /\ v # NoTurn
           /\ sent' = [sent EXCEPT ![e.turn][e.request] =
                          Append(@, [to |-> v, verdict |-> verdict])]
           /\ answer' = Told(v, e.request, verdict)

\* Slip: the id is burnt when the frame is written, not when the write raised.
DecideBurnsLast(t, id, allow) ==
    /\ Awaiting(t, id)
    /\ Permits(envelope[id], allow)
    /\ Deliver(t, envelope[id], allow)
    /\ \/ Burn(id)
       \/ UNCHANGED <<live, envelope, decided>>
    /\ UNCHANGED <<turnVars, sessions, bridgeVars, asked, shown>>

\* decide_approval: burn the id, then send.
Decide(t, id, allow) ==
    /\ Awaiting(t, id)
    /\ Permits(envelope[id], allow)
    /\ Burn(id)
    /\ Deliver(t, envelope[id], allow)
    /\ UNCHANGED <<turnVars, sessions, bridgeVars, asked, shown>>

-----------------------------------------------------------------------------
Init ==
    /\ threadOf = [u \in Turns |-> NoThread]
    /\ life = [u \in Turns |-> "new"]
    /\ gen = [u \in Turns |-> "none"]
    /\ sessions = [t \in Threads |-> NoTurn]
    /\ asked = [u \in Turns |-> <<>>]
    /\ answer = [u \in Turns |-> [n \in Requests |-> "none"]]
    /\ read = [u \in Turns |-> 0]
    /\ shown = [u \in Turns |-> 0]
    /\ undecided = [u \in Turns |-> {}]
    /\ live = [id \in ApprovalIds |-> 0]
    /\ envelope = [id \in ApprovalIds |-> NoEnvelope]
    /\ decided = [id \in ApprovalIds |-> 0]
    /\ sent = [u \in Turns |-> [n \in Requests |-> <<>>]]

Reads(u) == ReadRequest(u) \/ Settle(u) \/ TimesOut(u)

Retracts(u) == RetractChecks(u) \/ RetractPops(u) \/ SessionCloses(u)

Pumps(u) ==
    \/ \E id \in ApprovalIds, present \in BOOLEAN : Register(u, id, present)
    \/ Resume(u)

Decides == \E t \in Threads, id \in ApprovalIds, allow \in BOOLEAN : Decide(t, id, allow)

Next ==
    \/ \E u \in Turns, t \in Threads : StartTurn(u, t)
    \/ \E u \in Turns : EndTurn(u) \/ CloseGenerator(u)
    \/ \E u \in Turns : Publish(u) \/ Retracts(u)
    \/ \E u \in Turns, scoped \in BOOLEAN : Asks(u, scoped)
    \/ \E u \in Turns : Reads(u) \/ ProviderEnds(u) \/ Pumps(u)
    \/ Decides

Spec == Init /\ [][Next]_vars

\* Readers and closers run, a poll or the sweep takes up what a generator yielded (while
\* a page stays open: EveryTurnEnds and EveryChildGoes of StudioTurns), and a silent
\* provider runs into a timeout.  The analyst may never decide.
Fairness ==
    \A u \in Turns :
        /\ WF_vars(Reads(u)) /\ WF_vars(Retracts(u)) /\ WF_vars(Pumps(u))
        /\ WF_vars(gen[u] = "last" /\ EndTurn(u)) /\ WF_vars(CloseGenerator(u))

FairSpec == Spec /\ Fairness

-----------------------------------------------------------------------------
(* Properties                                                              *)

\* Every variable has its type, the pump is behind the reader and the reader behind the
\* child.
TypeOK ==
    /\ threadOf \in [Turns -> Threads \cup {NoThread}]
    /\ life \in [Turns -> {"new", "live", "ended"}]
    /\ gen \in [Turns -> Open \cup {"none", "opened", "closing", "closed"}]
    /\ sessions \in [Threads -> Turns \cup {NoTurn}]
    /\ asked \in [Turns -> Seq(BOOLEAN)]
    /\ answer \in [Turns -> [Requests -> {"none", "accept", "decline"}]]
    /\ read \in [Turns -> Nat]
    /\ shown \in [Turns -> Nat]
    /\ \A u \in Turns :
          shown[u] <= read[u] /\ read[u] <= Len(asked[u]) /\ Len(asked[u]) <= MaxRequests
    /\ undecided \in [Turns -> SUBSET Requests]
    /\ live \in [ApprovalIds -> Nat]
    /\ envelope \in [ApprovalIds -> Envelopes \cup {NoEnvelope}]
    /\ \A id \in ApprovalIds : live[id] = 0 <=> envelope[id] = NoEnvelope
    /\ decided \in [ApprovalIds -> Nat]
    /\ sent \in [Turns -> [Requests -> Seq(Frames)]]

\* On behalf of a request at most one frame is ever written, whatever the write reported,
\* however often its id is used and whatever the ledger forgot (decide_approval burns the
\* id before it sends).
AtMostOneAnswer == \A u \in Turns, n \in Requests : Len(sent[u][n]) <= 1

\* Only for a request that Studio may allow is an acceptance ever written, also when an
\* id was used for one request and then for another (register_approval, decide).
AllowIsPermitted ==
    \A u \in Turns, n \in Requests :
        \A i \in 1 .. Len(sent[u][n]) :
            sent[u][n][i].verdict = "accept" => n <= Len(asked[u]) /\ asked[u][n]

\* A decision never leaves the thread its approval was raised on (_claim, _frame_sink).
StaysInItsThread ==
    \A u \in Turns, n \in Requests :
        \A i \in 1 .. Len(sent[u][n]) : threadOf[sent[u][n][i].to] = threadOf[u]

\* A session that answers for a thread is open, its child is not being closed: a decision
\* is not dropped there (the finally of run_turn retracts before it closes).
RegisteredSessionIsOpen ==
    \A t \in Threads : sessions[t] # NoTurn => gen[sessions[t]] \in Open

\* The session of a live turn answers for its thread, and no other turn of the thread is
\* about to publish late or has found its own session there and is about to pop.
Secure(u) ==
    /\ life[u] = "live"
    /\ gen[u] \in {"reading", "yielded", "last"}
    /\ sessions[threadOf[u]] = u
    /\ \A v \in Turns \ {u} : threadOf[v] = threadOf[u] => gen[v] \notin {"opened", "mine"}

\* Outside of those two races a live turn's decisions find its child until its generator
\* ends: a predecessor that retracts late leaves the session alone (session_publisher).
LiveSessionIsKept ==
    [][\A u \in Turns :
          (Secure(u) /\ life'[u] = "live" /\ gen'[u] \in {"reading", "yielded", "last"})
            => Secure(u)']_vars

\* And what is decided for such a turn is written to its own child: an answer goes astray
\* only when its asker has ended or lost its session (_claim, _frame_sink).
SecureTurnGetsItsAnswers ==
    [][\A u \in Turns, n \in Requests :
          (Secure(u) /\ sent'[u][n] # sent[u][n])
            => \E verdict \in {"accept", "decline"} :
                  sent'[u][n] = Append(sent[u][n], [to |-> u, verdict |-> verdict])]_vars

\* A dict that holds limit keys changes from d to e: those that stay keep their order and
\* what comes is behind them; but for the keys that were taken out, only the first may
\* have left, and for want of room.
Ages(d, e, limit, taken) ==
    d # e =>
        /\ Cardinality(Keys(e)) <= limit
        /\ \A i \in Keys(d) \cap Keys(e), j \in Keys(e) :
              e[i] < e[j] <=> (j \in Keys(d) => d[i] < d[j])
        /\ \A i \in Keys(d) \ (Keys(e) \cup taken) :
              Cardinality(Keys(e)) = limit /\ \A j \in Keys(d) \ {i} : d[i] < d[j]

\* What was just shown is in the ledger.  An undecided approval leaves it by its decision, or
\* as the one whose id is there the longest; a recorded decision is forgotten as the oldest.
\* The age of an id counts from when it came in: shown again before its decision, it does
\* not become younger (register, decide, _evict_if_needed).
LedgerDropsTheOldest ==
    [][/\ \A u \in Turns :
            shown'[u] # shown[u] =>
                \E id \in Keys(live') :
                    envelope'[id].turn = u /\ envelope'[id].request = shown'[u]
       /\ Ages(live, live', LiveRetention, Keys(decided') \ Keys(decided))
       /\ Ages(decided, decided', DecidedRetention, {})]_vars

\* The generator of a turn, in terms of the abstract run.
PlaceOf(u) == IF gen[u] \in {"opened", "yielded", "last"} THEN "idle"
              ELSE IF gen[u] = "reading" THEN "running"
              ELSE IF gen[u] \in {"leaving", "mine"} THEN "closing"
              ELSE gen[u]

Run(u) == INSTANCE TurnRun WITH life <- life[u], place <- PlaceOf(u)

\* Every turn is here what the engine of turns makes of it: both implement TurnRun
\* (turn_wiring.py, and the places of run_turn in which a reader or a closer may be).
RefinesTurnRun ==
    /\ \A u \in Turns : Run(u)!Init
    /\ [][\A u \in Turns : [Run(u)!Next]_<<life[u], PlaceOf(u)>>]_vars

\* One request, in terms of the abstract consent: it is open while the ledger has an
\* envelope of it.
IsOpen(u, n) ==
    \E id \in ApprovalIds :
        envelope[id] # NoEnvelope /\ envelope[id].turn = u /\ envelope[id].request = n

StageOf(u, n) ==
    IF n > Len(asked[u]) THEN "unasked"
    ELSE IF n > shown[u] THEN "asked"
    ELSE IF IsOpen(u, n) THEN "open"
    ELSE "over"

MayAllow(u, n) == n <= Len(asked[u]) /\ asked[u][n]

Verdicts(u, n) == [i \in 1 .. Len(sent[u][n]) |-> sent[u][n][i].verdict]

Request(u, n) == INSTANCE Consent WITH stage <- StageOf(u, n), scoped <- MayAllow(u, n),
                                       verdicts <- Verdicts(u, n)

\* Every request implements Consent, whichever ids are used again, evicted or forgotten:
\* what was shown is open, whatever left the ledger is never decided any more, and each
\* decision closes what it answers (register_approval, _claim, decide_approval).
RefinesConsent ==
    /\ \A u \in Turns, n \in Requests : Request(u, n)!Init
    /\ [][\A u \in Turns, n \in Requests :
            [Request(u, n)!Next]_<<StageOf(u, n), MayAllow(u, n), Verdicts(u, n)>>]_vars

\* As long as a request that the reader has passed on is unanswered, silence is the
\* analyst's and not a fault: the longer timeout and its own failure category apply
\* (_settle_approval, _budget, _failure_payload).
PatienceWhileBlocked ==
    \A u \in Turns : \A n \in 1 .. read[u] : answer[u][n] = "none" => n \in undecided[u]

\* Whether the analyst decides or not, whether the decision arrives or is lost: a child
\* that asked is answered, or it is ended.
BlockedChildIsReleased ==
    \A u \in Turns, n \in Requests :
        (n <= Len(asked[u]) /\ answer[u][n] = "none")
            ~> (answer[u][n] # "none" \/ gen[u] = "closed")

\* What run_turn's docstring says: by its session a decided approval finds the child that
\* is blocked on it.  Sessions are registered by thread, but children belong to turns.
AnswerReachesItsAsker ==
    \A u \in Turns, n \in Requests :
        \A i \in 1 .. Len(sent[u][n]) : sent[u][n][i].to = u
=============================================================================
