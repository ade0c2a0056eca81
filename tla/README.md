# Seshat BI, verified

TLA+ modules, TLC configurations and TLAPS proofs for Seshat BI
(`src/src/seshat/`, Python) and the page of its Studio (`src/studio-ui/`).

Seshat is a governed analytics workbench: committed files carry the state of a
table's readiness, rules and gates decide what may happen next, adapters drive
dbt, Dagster and Power BI, and *Studio* is a local web server in which a person
talks to an agent (a Codex child process) about a table, approves what it asks
for, and records decisions.  Most of the repository is sequential derivation
over files; what is concurrent, may crash half-way, or is raced by people, and
what tests hardly reach, is Studio and the adapters that write.  The verification
is about these.

## 1. Inventory

| Component | Source | State it keeps | Operations | Hard behaviour |
|---|---|---|---|---|
| Thread event log | `studio/events.py` | bounded window of events, next sequence, the live turn, ended turns | `append`, `interrupt`, `replay_after` | resume after a cut reply while events are evicted; late events of an ended turn |
| Thread store | `studio/events.py` `ThreadStore` | at most 64 logs in order of creation | `thread` (create on access, evict the oldest), `has_thread` | a thread evicted while a poll of it waits |
| Turn engine | `studio/agent_routes.py`, `turn_wiring.py`, `app.py` | one `_PendingTurn` per thread: generator, lock, queue, reader, last poll | `start_turn`, `interrupt_turn`, `stream_events` (pump, reap, replay), `_finish_turn`, lifespan | overlapping polls, slow provider, Stop during a pump, closed tabs, clock jumps, shutdown |
| Approval relay | `studio/approval_routes.py`, `approvals.py`, `approval_delivery.py` | ledger of pending and decided approvals, session per thread | `register_approval`, `decide_approval`, session publisher, `abandon_thread` | decide once, deliver to the child that asked, ended turns |
| Provider session | `studio/codex_bridge.py`, `codex_process.py`, `codex_protocol.py` | child process, frame queue, outstanding requests | `run_turn`, `frames`, `respond`, `close` | silence, early exit, frames after the end |
| Session boundary | `studio/session.py`, `http_common.py` | one bootstrap token, one cookie | exchange, origin and cookie checks | single use, restart |
| Governed decisions | `studio/workbench_routes.py`, `decision_routes.py`, `proposals.py`, `apply.py`, `decision_write.py`, `decision_store.py` | the decision store in working tree and HEAD, proposals per Studio | prepare, record (four accesses to the store), client review, apply | two writers; commit, discard or supersession in between; a workspace that moves and moves back |
| Power BI MCP writer | `pbi_mcp_adapter/` | latest record and append-only history, child process, its stream | gate, dry run, intent, session, check, validate, terminal record | crash or stall after the intent; a runtime that outlives the adapter; a full queue |
| Integration installer | `integrations/` | environments, skill trees, MCP config and markers, the lock | install per component, verify, record | crash between any two steps, a failed swap, an install that moves other packages |
| Readiness spine | `readiness_spine.py`, `agent_next.py`, `run_next.py`, `reset.py` | none: derived from files | derive stages, the one next action | gates that must not be skipped |
| dbt, Dagster adapters | `dbt/`, `dagster_adapter/` | evidence files | gated plan and execution | partial runs |

Interaction: the page polls `stream_events`; the poll takes the slot's lock, a
reader thread advances the provider's generator and posts what it yields; the
poll records it into the thread's log and replays the log to the page.  A
provider's permission request becomes an entry of the approval ledger and an
event; the person's decision goes back through the thread's session to the
child.  Everything but readers, closers and the child runs on one event loop:
a route handler is atomic up to its `await`.  The workbench records a person's
ruling in the decision store of the working tree; a *commit* by a person makes it
authority, and review and apply read HEAD.  The write adapter and the installer
are commands: one process each, between whose steps it may die, and which find
what an earlier one has left on disk.

Rule engine, packs, portfolio watch, file generators, statistics, governor
server and command line are listed in `PROJECT.json` with the reason they are
not modelled: they keep no state between calls, or are numeric or textual data
that a model checker says nothing about.

## 2. Modules

| Module | Models | Abstracts |
|---|---|---|
| `TurnLifecycle` | what a conversation promises: a turn is opened once, at most one is live, an ended one stays ended | everything else |
| `TurnRun` | what the relay may rely on of a turn and its generator: one thread inside at a time, a live turn's generator closed by nobody but itself, a closed one never entered again | everything else |
| `Consent` | what a permission request promises: shown once, over with its first decision, at most one verdict, acceptance of scoped reads only | everything else |
| `ThreadEvents` | one `ThreadEvents` log with its browsers | payloads and redaction |
| `ThreadEvents_proofs` | its theorems | |
| `StudioTurns` | store, slots, polls, readers, closers, reaper, interrupt, pages, shutdown | what a log records (only its live turn is kept), what a provider says |
| `MCStudioTurns` | TLC's symmetry set for it | |
| `StudioTurns_proofs` | its theorems | |
| `StudioApprovals` | a turn's child and its requests, the reader's patience, the session registry per thread, the ledger, decisions and their delivery | polls and slots (of a turn and its generator it has what `TurnRun` allows), what a request is about (only whether it is a scoped read) |
| `MCStudioApprovals` | TLC's symmetry set for it | |
| `StudioApprovals_proofs` | its theorems | |
| `DecisionLedger` | what the decision store promises: rulings are added at the end, in one step, under a fresh id, one active per proposal; only people take one back | everything else |
| `GovernedDecisions` | prepare, record, commit, supersede, discard, review, apply, restart | texts, signatures, payload checks, other types of decisions |
| `MCGovernedDecisions` | two artifacts of one slug, symmetry | |
| `GovernedDecisions_proofs` | its theorems, for recordings that do not overlap | |
| `AuditTrail` | what the evidence promises: an intent before the first touch, at most one end, and no touch after it; and, as a theorem, what an auditor may conclude from it | everything else |
| `PbiMcpWrite` | `apply_write`: gate, evidence, session, runtime, check, crash | the model's content (a path's content is the set of those who changed it), validators, redaction |
| `MCPbiMcpWrite` | the sets of approvals that TLC tries | |
| `PbiMcpWrite_proofs` | its theorems | |
| `IntegrationInstall` | `integrations apply` over packages, skill trees and MCP servers | versions (only whether two differ), texts, resolvers, policy |
| `MCIntegrationInstall` | a catalog of four components, symmetry | |
| `IntegrationInstall_proofs` | its theorems | |

Operators whose comment begins with *Slip* are no part of the models: each is a
plausible mistake in the operator below it, with which a property is shown to
break.

### ThreadEvents

`log`, `nextSequence`, `activeTurn` are the fields of the same names; an event
is its sequence, type, turn and `ignored` flag.  `Record` is the whole of
`append`: the check for a live turn, the ignored flag, the bounded deque's
eviction and the transition of the live turn.  A browser keeps the resume point
and what it has rendered; its `Poll` may be answered, cut anywhere in the
answer, or refused (stale, or ahead of the thread), as `replay_after` decides.
`Produce` is the pump recording an event for any turn that was started, live or
not, which is what a late result is.

### StudioTurns

A log is a number in order of creation; a thread id is the number of the first
log that had it, so that an evicted thread that is created again is a *new* log
with an *old* id (`threadOf`).  Correspondence:

| Model | Code |
|---|---|
| `store`, `nextLog`, `threadOf`, `Access` | `ThreadStore._threads`, `thread()` |
| `active` | `ThreadEvents._active_turn` of each log |
| `slot` | `pending_turns[thread_id]` |
| `stale` | turns whose `last_touched` is more than `ABANDONED_TURN_SECONDS` old |
| `gen`, `yielded` | the bridge's generator: not started, suspended in a yield, executing, in its `finally`, closed |
| `reader` | `pending.reader`, and the result it put into the queue |
| `joiners`, `closers` | daemon threads of `_finish_turn`: in `reader.join()`, about to call `close()` |
| `pumping`, `pumpLog` | a poll inside `async with pending.lock`, and the `ThreadEvents` it was given |
| `home`, `unparked` | history: the log a turn was started on; turns whose parking raised |

The only `await` of a poll is the wait for the reader, so a poll is `PollStart`
followed by one of `PollReadsOn`, `PollSliceOver`, `PollEndsTurn`,
`PollTimesOut`; the last three end in `Serve`, which is the reap of *all*
abandoned turns and the second, creating look-up of the thread, as in
`stream_events`.  A reader's result is described by what it makes the pump do:
an opening that is skipped, activity that is recorded, a terminal (also a
write in a read-only turn, and an event whose recording raises), an exhausted
generator, and "generator already executing".

Each turn with its generator implements `TurnRun` (`Run(u)`, under the mapping
`LifeOf`, `PlaceOf`): an abstraction of this module that the relay's module
implements too, which is how the two are kept in agreement.

### StudioApprovals

| Model | Code |
|---|---|
| `gen` | where `CodexBridge.run_turn` is: its opening, reading frames, suspended in an approval or in its last event, in the `finally` (before the check of `publish(None)`, between check and pop, before `close()`), closed |
| `sessions` | `app.state.provider_sessions`, by thread; a turn stands for its session |
| `asked`, `answer` | the child (external): its requests in order, and what it took for the answer to each |
| `read`, `undecided` | frames taken by `_turn_events`, `_TurnState.undecided` |
| `shown` | requests that `register_approval` has put into the ledger |
| `live`, `envelope`, `decided` | `PendingApprovals._live`, `._decided`: a dict maps a key to its place in the order of insertion |
| `sent` | history: the frames written on behalf of each request |

`Decide` is a whole handler: the claim, the rule for an allow, the burn with the
eviction of the oldest decided id, and the write, whose outcome is open (not
registered, raised, written, or both of the last two).  The three places that
apply the rule (route, ledger, delivery) look at one immutable envelope and so
are one operator, `Permits`.  `RetractChecks` and `RetractPops` are two steps,
because the publisher runs on a reader or closing thread.  An approval id is the
provider's item, which may be asked about again; a request's number is the child's
own.  Left out: approvals without a request (the fake bridge), decisions on an
evicted thread, the status of a refused or lost decision.

What this module assumes of turns it shares with `StudioTurns`: its turns
implement `TurnRun` as well, so nothing happens to a generator here that the
engine would not do.  And each request, whatever its id, implements `Consent`.

### GovernedDecisions

| Model | Code |
|---|---|
| `file`, `head` | the decision store in the working tree, and at HEAD |
| `revision` | the digest of the projected workspace: a small set, so it may come back |
| `prepared` | `app.state.workbench_proposals`; a proposal is addressed by its content and so is its own hash |
| `recording`, `entry`, `merged` | where `record_decision` is: id drawn (`next_decision_id`), judged (`_refuse_gate_findings`), merged (`_merge_text`), replaced |
| `review`, `atHead` | a `client_review` that has read HEAD in a worker thread |
| `apply`, `applied` | an apply whose revision was compared, then verified |

A recording is one synchronous handler, but each of its four accesses to the store
is a step, so that a second Studio (or a commit) may come between.  People edit the
store by hand between recordings only (`Quiet`): nothing in the code guards a
recording against an editor.  What is malformed, unsigned or stale is refused
before the store is read and changes nothing.

### PbiMcpWrite

| Model | Code |
|---|---|
| `repo` | the target's readiness record at HEAD and on disk, its allowlist entry, and whether it is a file or a folder, with what neighbours |
| `run`, `phase`, `op`, `backup`, `outcome` | `apply_write` and its locals |
| `head`, `disk`, `before` | the model at HEAD, in the working tree, and in the first `_snapshot` |
| `live`, `owed` | the runtime processes that are alive, whether one owes a reply |
| `queue`, `pump` | the transport's bounded queue of lines and its reader thread |
| `attempted` | runs that have sent an operation that writes (`_Exchange.attempted`) |
| `latest`, `history` | the file of the latest record, and the history |

`Stall` is the deadline, which may pass in any state of the conversation; the
handshake and the listing of tools are one request, "greet".  The runtime is
external and does anything, with one exception: it writes to disk only after it was
sent an operation that writes.  `Close` assumes that killing the tree of processes
succeeds, while the code asks for it and swallows a refusal or a timeout
(`session.py:436-451`): `RefinesAuditTrail`, `MaterializedStaysInScope` and the theorems
about them hold of runs whose runtime could be killed, and say nothing of one that
survived `Close`.  `Crash` takes the adapter and leaves its runtime.  One run at a time, with
people editing and committing in between: overlapping runs are a gap that
`evidence.py` (408-413) names itself.

### IntegrationInstall

| Model | Code |
|---|---|
| `interpreter`, `dists` | per environment: its Python, and the version in each package's `dist-info` |
| `trees` | a skill directory: the ref of its files, whether all required paths are there, its marker |
| `entries`, `marks` | the servers' entries in the MCP config, and their markers |
| `previous` | the old tree in the scratch directory, between two renames |
| `lock` | the lock file: the recorded version of each component |
| `phase`, `at`, `want`, `todo` | `_install_all` and the handler it is in |
| `rows`, `landed` | the report and the entries for the lock |
| `found`, `seen` | history: what was installed at the run's start; the versions a component had on disk during the run |

A version is resolved when a component's turn comes (any version, or none).  An
install of a package sets its own version, may move any other package of the
environment, and removes none; a failed one may leave any versions.  A clone is
validated before it is staged, so its commit and its required paths are right.  A
report's statuses are reduced to fine (present, installed), moved, and needs action.
Refused runs (no approval, unreadable lock) change nothing and are left out, bundled
components have no state.  One run at a time; people act between two runs.

## 3. Runs

| Run | Instance | What it shows |
|---|---|---|
| `thread_events` | 2 turns, retention 3, one browser | replay has no gap and is refused only when something was lost; nothing of a turn counts after its end; life cycle |
| `studio_turns` | 2 tabs, store of 2, 3 logs, 2 turns, clock may jump | no wedge, no re-entry, the slot ends with the turn, a pumped turn is ended by Stop only, also under eviction; shutdown forgets no live turn; each turn implements `TurnRun` |
| `studio_turns_live` | 1 turn, 2 tabs, fairness | every parked turn ends, every generator is closed |
| `studio_approvals` | 2 threads, 2 turns, 3 ids, 4 requests that Studio may only decline, ledger of 2 + 2 | one answer per request; registered sessions are open and a live one is kept; both dicts of the ledger keep their order and drop the oldest key only; patience while a request is open; what is decided for a turn with a secure session reaches its child |
| `studio_approvals_live` | 2 turns of a thread, 1 id, 2 requests of both kinds, fairness | a child that asked is answered or ended; the relay's turns implement `TurnRun`, its requests `Consent` |
| `decisions` | 1 Studio, 2 artifacts of 1 slug, 2 revisions, 3 rulings | the store is the ledger, a review hides no ruling, an apply rests on the first ruling, a recording is refused for a conflict only |
| `pbi_write` | 2 runs, 1 edit, all records and allowlists, 3 sets of approvals, queue of 1 | the history is the audit trail, HEAD authorizes every touch, rollback keeps edits, a materialized run stays in its target, every run ends |
| `integration_install` | 2 packages, 1 tree, 1 server, 2 versions, 2 environments, 2 runs, 1 intervention | markers tell the truth, a failed upgrade loses nothing, the lock is evidence, what is recorded is on disk |
| `studio_turns_resurrected`, `studio_turns_exit`, `studio_approvals_stale`, `decisions_two_studios` | | violations, see Findings |

Bounds.  Retention 3 is the smallest window in which an event can be the
newest, in the middle and the oldest.  Two turns are needed for a late result to
meet a successor, two tabs for overlapping polls and for a page that polls while
another is closed, two logs for a sweep that hits another thread than the polled
one; three logs with room for two make a thread evicted while another is polled.
That a thread is evicted while it is polled itself, and created again, needs room for
one (`studio_turns_resurrected`); the theorems cover it.  `studio_turns_live` evicts
nothing: a page on an evicted thread is answered 404 and sweeps no turn.
`MaxYields = 1` lets a generator yield its opening before it is exhausted, raises or is
found executing; in `studio_turns` a provider ends a turn by exhaustion only, and what a
second yield makes the pump do (activity that is recorded, a terminal) happens in
`studio_turns_live`, with `MaxYields = 2`, and in the theorems.  In
`studio_approvals` two turns are one thread's turn and its successor or turns of two
threads; three ids and four requests fill a ledger of two, evict from it, register an
id again that is still live and evict after that, fill the decided ids, and use one of
them again while it is remembered or forgotten.  None of the properties there looks at
what was decided, so all requests are of the kind that may only be declined
(`Asking`); both kinds are in `studio_approvals_live`, where nothing is evicted: that
`Consent` holds under eviction too is what `RequestsImplementConsent` adds.
In `decisions` three rulings are an approval, its supersession or rejection, and the
next one, and two revisions let a proposal become stale and current again.  In
`pbi_write` the second run meets what a crashed one left: a living runtime, a dirty
tree, an intent without an end; a queue of one is full at the first line.  In
`integration_install` the second run upgrades, or judges what a crash or a person
left, two packages are the one that is moved and the one that moves it, and the two
environments let a derived run choose.  The theorems of section 4 hold for all of
these constants, the bounds matter for liveness and for the violations only.

Deadlock checking is off where it is, because Studio ends: after `Exit` nothing
happens, and with no page and no turn nobody acts; in `StudioApprovals` all turns
may be over; after `MaxRuns` runs the installer is not started again.

Fairness (`FairSpec`).  Weak for readers, closers, the generator's `finally`
and the collector: they are threads of the interpreter or run by it, and a
provider answers or runs into its own timeout.  Weak for `PollStart` and the
poll's end: an open page polls every second, a slice is half a second.  Strong
for `GoesStale`: the clock passes 120 s for a turn that is unwatched again and
again.  No page is assumed to stay open; the liveness properties assume that
*some* page does, since a turn is swept by polls (of any thread) and new turns
only, and nothing runs on its own: without a page nobody reaps until shutdown.
In `StudioApprovals` weak fairness stands for readers and closers, for the poll
or sweep that takes up what a generator yielded (which `EveryTurnEnds` and
`EveryChildGoes` of `StudioTurns` justify while some page is open), and for the
timeout of a silent provider, whose two lengths are not modelled.  Nothing makes
the analyst decide.  In `PbiMcpWrite` it stands for the process's own steps and for
its deadline, which is a clock's; nothing is asked of the runtime or of the thread
that reads its lines.

## 4. Theorems

TLAPS proves, for every value of the constants that the named assumptions
allow (`NoTurn` is no turn; capacities are positive; ids are finitely many), every
safety and action property and every refinement that the passing runs check.  Besides,
it proves properties that no run repeats.  Some follow from a refinement that a run
checks: `AllowsThePermitted` from `Consent`, `RulingsDoNotConflict`
from `DecisionLedger`, `AuditorsCanConclude` from `AuditTrail`;
`TurnsImplementLifecycle` is for each log of the store what `thread_events` checks of
one.  Others complete an argument: `WindowTail`, `NewestKept`, `EndsOnce`,
`ClosedAfterTheEnd`, `RevivesByWaiting`, `DecidesInItsThread`, `IdsStayDistinct`,
`OperatorsAreRespected`, and the types of `GovernedDecisions`.

* `ThreadEvents_proofs`: `TypeCorrect`, `WindowTail`, `NoGap`, `NeverAhead`,
  `EndsOnce`, `LateEventsIgnored`, `RefusalIsHonest`, `ImplementsLifecycle`.
  The invariant adds to the properties that sequences are issued without holes,
  that the window is the tail of what was issued, and that a browser has
  rendered an interval that ends at its resume point.
* `StudioTurns_proofs`: `TurnsTypeCorrect`, `NewestKept`, `NeverWedged`,
  `NeverReentered`, `ClosedAfterTheEnd`, `EndsTogether`, `PumpedEndsByStop`,
  `RevivesByWaiting`, `ShutsDownTheLive`, `TurnsImplementLifecycle`,
  `TurnsImplementRun`.
* `StudioApprovals_proofs`: `TypeCorrect`, `AnswersOnce`, `AllowsThePermitted`,
  `DecidesInItsThread`, `RegistersTheOpen`, `IsPatient`, `KeepsTheLiveSession`,
  `AnswersTheSecure`, `LedgerKeepsOrder`, `TurnsImplementRun`,
  `RequestsImplementConsent`.
* `GovernedDecisions_proofs`: `TypeCorrect`; and, as long as recordings do not
  overlap (`[]OneRecords`), `IdsStayDistinct`, `RulingsDoNotConflict`,
  `ReviewsHideNothing`, `AppliesRestOnTheFirstRuling`, `RefusalsAreConflicts`,
  `ImplementsLedger`.  `OneStudioRecordsAlone` gives the hypothesis for one Studio
  on the workspace, which is how it is meant to be used.
* `AuditTrail`: `TrailIsConclusive`.  `PbiMcpWrite_proofs`: `TypeCorrect`,
  `TouchesRestOnHead`, `EditsCanBeRestored`, `MaterializedMeansInScope`,
  `ImplementsAuditTrail`, `AuditorsCanConclude`.
* `IntegrationInstall_proofs`: `TypeCorrect`, `MarkersAreTrue`, `NothingIsLost`,
  `LockIsWitnessed`, `RecordsAreCurrent`, `OperatorsAreRespected`.

The inductive invariant of `StudioTurns_proofs` says more than any of the
properties, because none is inductive:

* `StoreInv`: the store is the interval of the newest logs, and a log's thread
  id is at most its own number.  From it, an evicted log never comes back, which
  is what makes "the turn's home log is stored" monotone.
* `HomeInv`: a live turn, a parked turn and a pumped turn belong to the log they
  were started on, and a poll's log has that turn's thread id.
* `SlotInv` (`Pairs`): live and parked correspond in both directions.
* `FinishInv`: a parked turn has no finishing thread, a pumped one at most one,
  any at most two.  It is why a generator in `finally` never belongs to a live
  turn.
* `GenInv`, `IdleInv`: only the reader executes the generator; a turn never
  parked has nothing.

The end of a poll is the one difficult step: `ServeKeeps` proves it once, for
any state in which turns only ended, and the four poll actions instantiate it.
`NeverReentered` also holds after the lifespan has emptied the slots, where
`SlotInv` is silent; `StoppedInv` carries it on, and `AwaitedInv` adds whom the
lifespan waits for: by `SlotInv` every live turn that was parked.  The action
properties follow from `TurnsMove`: what one step shows of one log.  A thread that
comes back (`RevivesByWaiting`) was looked up by `Access` at the end of a poll, and
`HomeInv` says that this poll was of a turn of it.

`TurnsImplementRun` takes a step apart twice: what it does to a turn (`LifeMoves`,
from `TurnsMove` and the monotone home log) and to a generator (`GeneratorMoves`).
Only a close needs both: a generator that is closed from outside has a closer or is
not parked, while that of a live turn is parked and has none (`LiveIsParked`).

For `StudioApprovals` the argument rests on the numbering of a child's requests,
not on the bookkeeping of ids, which forgets: requests are registered one after
the other, so none has two envelopes, and until its envelope is burnt nothing
was written for it (`LedgerInv`, `FrameInv`).  That is why decide-once survives
the eviction of decided ids and the re-use of ids.  `SessionInv` adds that a
registered session belongs to its thread.  `SecureStays` is the action property:
the identity check of the publisher protects a live session from every other
turn of its thread that has not passed the check yet.  `AnswersTheSecure` then
follows, since a decision is written to the session that its thread has.

`LedgerKeepsOrder` is about what a step makes of the two dicts (`Ages`), of whatever
capacity: what stays keeps its order, what comes is behind it, and what leaves without
being taken out was the first of a full dict.  A dict is a map from keys to places in the
order of insertion, and `OrderInv` says that no two keys share a place and no place
exceeds the number of keys, so that the first place is taken and a new key is the last.
It is kept without induction: inserting and dropping the oldest shift the places, and the
injection theorems of the library count the keys.  The age of a key is that of its
insertion: nothing says that what was *shown* last goes last (section 5).
`RequestsImplementConsent` combines it with `LedgerInv`: by the one a request that has
just been shown is in the ledger whatever it displaced, by the other it has no second
envelope, so what left the ledger is never decided.

For `GovernedDecisions` the invariant says that HEAD, and what a review has read
of it, is an *earlier reading* of the working tree (the same rulings, fewer of them,
some superseded since), and that what a recording in progress was judged by still
holds: its id is free and its scope is clear.  The latter needs that nobody else
records meanwhile, which is the hypothesis of these theorems, about the behaviour and
not about the number of Studios: two that take turns are covered.
`decisions_two_studios` shows that it cannot go.
Numbers under a slug never run ahead of the store (`NumbersAreBounded`), so the next
one exists.

For `PbiMcpWrite` it says that an authority found by the gate stays (`GateInv`),
that a run's runtime lives within the run's conversation only, unless the run has
crashed (`ProcessInv`), and that a record which ends a run is of a run whose runtime
is gone (`TrailInv`).  The last is what carries both `ImplementsAuditTrail` and
`MaterializedMeansInScope` over all later runs.  What the history tells
(`AuditorsCanConclude`) is proved of `AuditTrail`, where it takes a dozen lines, and
carried over by the refinement.

For `IntegrationInstall` the parts follow the hazards: a tree in the middle of a swap
has no marker (`TreeInv`), what the run found is installed, aside or about to be
marked (`FoundInv`), whatever is on disk has been seen (`EvidenceInv`), and a row that
is fine agrees with the disk for trees and servers at once, for packages once all
installs have run (`RecordInv`).

Only model-checked: `EveryTurnEnds`, `EveryChildGoes`, `BlockedChildIsReleased`,
`EveryRunEnds` (liveness, which is out of the prover's reach), and the violations.

## 5. Findings

1. **Resurrected thread** (`studio_turns_resurrected`).  `stream_events` tests
   `has_thread` before it waits for the provider and calls the creating
   `thread()` after it.  A thread evicted in between comes back empty under its
   old id and evicts a live one.  `RevivesByWaiting` proves that this is the only way
   back: every other route refuses an evicted thread.
2. **Child outlives Studio** (`studio_turns_exit`).  Shutdown waits ten seconds
   per clean-up, the clean-up waits for a reader that may take thirty, or three
   hundred while an approval is pending; and clean-ups of turns stopped just
   before are not waited for.  `ShutsDownTheLive` proves that the turns that were live
   are otherwise closed when the process exits.
3. **Answer to another child** (`studio_approvals_stale`).  Approvals outlive
   their turn on purpose, and a decision goes to the session its *thread* has
   then.  If the thread has a new turn, the frame is written to the new child,
   under the request number of the old one, and the route reports success.
   `_frame_sink` and `run_turn` say that the session is the thread's, or that
   of the child that is blocked.  An envelope that named its turn would do.
   `AnswersTheSecure` proves that a turn that has its session gets its own answers, and
   `DecidesInItsThread` that no answer leaves the thread.
4. **Two recordings, one id** (`decisions_two_studios`).  `next_decision_id` relies on
   the write path to refuse a duplicate.  Two Studios on one workspace that have both
   judged before either has replaced the file both record: with the same id if the
   second merges after the first replaced, and with the first ruling lost if before.
   The theorems of `GovernedDecisions_proofs` hold of any number of Studios whose
   recordings do not overlap.

Observations, which are not runs of their own:

*Studio.*  A live turn can lose its session (its decisions then get
502) when a predecessor, still inside its generator after Stop, publishes late
or is preempted between the publisher's check and its pop; `LiveSessionIsKept`
excepts exactly these.  And a turn whose parking raises (`turn_started` is recorded
first, and parking reads the workspace) is live with nothing to advance it until
the user stops it; `NoWedge` and `EveryTurnEnds` except it as `unparked`.  The table
a thread is bound to lives in its opening event only: after 512 events
`selected_table` finds none, and scoped reads are refused (it fails closed).  An approval
whose id is registered again while it is live keeps its place in the dict: with 256 of
them live and that one the oldest, the next registration drops what the analyst was
just shown, although `register` says that "evicting the OLDEST keeps the approval an
analyst is most likely looking at right now" (`approvals.py:217-218`).  `Ages` says what
the code does, not what this sentence hopes.

*Decisions.*  A proposal that was declined can be approved later, and one whose
approval was superseded can be approved again: the write path accepts both, but
`_require_authoritative_decision` wants exactly one bound ruling, so once both are
committed no apply of it is authorized at that revision.

*Power BI writer.*  The command line gives `apply_write` no capability profile, so
each `plan-write` and `apply` from there is refused by `PBIMCP-DRIFT-02`
(`test_pbi_mcp_cli_contract.py:226`); the model's `Clear` is what a caller with a
profile reaches.  A folder target with a backup ref is always refused, as the
comparison is of blobs.  A record that is refused for a secret-shaped name before any
attempt leaves no terminal record, and an intent if it was written, where `finalize`
says "exactly one record per run" (`RenderRefused`).  A runtime that was left over by
a crash may change the target during a later run, whose "materialized" may then rest
on that change.  `git restore` takes back changed files, not new untracked ones.

*Installer.*  `_verify_landed` passes over rows that failed and packages that are
gone: if `p`'s upgrade fails and `q`'s install then moves `p`, the lock names `p`'s
old version, though `_install_all` says that "the entries describe what is actually
installed"; `RecordTellsTheDisk` excepts these rows.  A derived run keeps the records
of packages outside its selection that its installs have moved.  After a crash
between the two renames the old tree stays in a scratch directory nobody reads, and
the component is cloned anew; after one before the marker, the directory is
"incomplete" until a person deletes it.  After a crash between an MCP entry and its
marker the next run reports the server as present, and records what the marker says.
Markers are not written atomically: an empty one, as a crash inside `write_text` leaves
it, counts as installed at an unknown version, which `_settled_row` takes for whatever
was resolved, and `_install_one` records that.  In the model all markers and metadata
name a version, so `LockIsEvidence` says nothing of these.
Two applies at once are not ordered by anything.

## 6. Not modelled

The repository has some 129 000 lines, most of which derive, check, render or parse:
about sixty rules over files, parsers and generators of TMDL, PBIP and themes,
projections, statistics, knowledge packs, command line.  They are functions of
committed files with no state between calls and no second actor; a model of them
would restate them line by line, and a small instance would say less than their
tests.  Therefore the share of lines modelled is small and stays small; the modelled
part is where steps of several actors, crashes and retries meet.

* **Readiness spine and next action**: pure, over some hundred file facts; a
  bounded reference would be its transcription.
* **dbt and Dagster adapters**: gate and evidence have the shape of `PbiMcpWrite`
  without a session or an intent; the next to model.
* **Session boundary**: one in-memory token, used once, and checks without effect.
* **Codex session**: handshake, stderr and the bytes of its frame queue; what its
  generator shows to others is in `StudioTurns` and `StudioApprovals`.
* **Of the modelled components**: two Studios beyond the ids; overlapping adapter
  or installer runs; people who interfere in the middle of a recording, a write or an
  install; validators, drift detail, redaction; resolvers, policy, plan and guided
  setup of the installer.

Theorems to come: that a run of the installer that finds nothing to do changes
nothing; that every step of an adapter's run but the runtime's brings its end nearer
(the safety half of `EveryRunEnds`).
