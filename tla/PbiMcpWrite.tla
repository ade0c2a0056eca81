---------------------------- MODULE PbiMcpWrite ----------------------------
(***************************************************************************)
(* The governed write of the Power BI MCP adapter (pbi_mcp_adapter): one   *)
(* process reads its preconditions, records its intent, drives an external *)
(* runtime over a session of lines, checks what changed on disk, and       *)
(* records how it ended (orchestrate.py, gate.py, runner.py, session.py,   *)
(* evidence.py).                                                           *)
(*                                                                         *)
(* A run is one call of apply_write.  One runs at a time: overlapping runs *)
(* are a gap that evidence.py states.  A process may die at any step, and  *)
(* the runtime it had started may live on and write.                       *)
(*                                                                         *)
(* The content of a path is the set of those who have changed it.          *)
(***************************************************************************)
EXTENDS Naturals, Sequences

CONSTANTS
    Runs,
    Edits,              \* what people change in the model by hand
    Notes,              \* the sets of approvals that a record may hold
    NoRun,
    NoBackup,
    Unseen,             \* no snapshot was taken
    MaxQueued           \* bound on the lines the reader's queue holds

ASSUME RunAssumption == NoRun \notin Runs /\ Runs \cap Edits = {}

ASSUME NothingAssumption ==
    /\ \A content \in SUBSET (Runs \cup Edits) : content # NoBackup
    /\ Unseen \notin [target : SUBSET (Runs \cup Edits), rest : SUBSET Runs]

ASSUME QueueAssumption == MaxQueued \in Nat \ {0}

Contents == SUBSET (Runs \cup Edits)

Trees == [target : Contents, rest : SUBSET Runs]

Outcomes == {"deferred", "blocked", "failed", "materialized"}

\* What an approval's note may name, and the target's record at one revision.
Names == {"target", "operation"}

Readiness == [pass : BOOLEAN, notes : Notes, permits : BOOLEAN]

ASSUME NotesAssumption == Notes \subseteq SUBSET (SUBSET Names)

\* A file, or a folder whose other tables are not governed, ready, or not.
Kinds == {"file", "folder", "siblings_ready", "sibling_unready"}

VARIABLES
    repo,               \* the target's record in HEAD and in the tree, and its kind
    head,               \* the model at HEAD
    disk,               \* the model in the working tree
    begun,              \* the runs that have been asked for
    run,                \* the run in progress
    phase,              \* how far it is
    op,                 \* its operation writes, reads, or needs a payload
    backup,             \* the target at the ref given as a backup
    before,             \* the snapshot taken before the runtime is launched
    outcome,            \* how it is about to end
    attempted,          \* the runs that have sent an operation that writes
    live,               \* the runs whose runtime process is alive
    owed,               \* the runtime owes the reply to a request
    queue,              \* the lines read from it, and the end of the stream
    pump,               \* the thread that reads them is still at work
    latest,             \* the file of the latest record
    history             \* the file all records are appended to

sessionVars  == <<owed, queue, pump>>
evidenceVars == <<latest, history>>
runVars      == <<op, backup, before, outcome>>
vars == <<repo, head, disk, begun, run, phase, op, backup, before, outcome,
          attempted, live, owed, queue, pump, latest, history>>

Touched == {r \in Runs : r \in disk.target \cup disk.rest}

Trail == INSTANCE AuditTrail WITH trail <- history, touched <- Touched

Idle == run = NoRun

Conversing == {"greet", "connect", "operate", "flush"}

-----------------------------------------------------------------------------
(* The preconditions                                                       *)

\* Slip: one note names the target and another the operation.
ApprovedByAny(rec) == \A name \in Names : \E note \in rec.notes : name \in note

\* One approval names both: two narrow ones do not add up.
Approved(rec) == \E note \in rec.notes : Names \subseteq note

\* Slip: a backup that resolves, but does not hold the target as it is.
GitSafeIfResolved(b) == IF b = NoBackup THEN disk = head ELSE repo.kind = "file"

\* A clean tree, or a ref that holds the target as it is.  The comparison is
\* with a blob, so no ref ever holds a folder.
GitSafe(b) ==
    IF b = NoBackup THEN disk = head ELSE repo.kind = "file" /\ b = disk.target

\* A record that differs from HEAD's is no record.
Cleared(b) ==
    /\ repo.tree = repo.head
    /\ repo.head.pass /\ repo.head.permits
    /\ Approved(repo.head)
    /\ repo.kind # "sibling_unready"
    /\ GitSafe(b)

\* A run may always be refused: git cannot be probed, or no baseline of the
\* runtime's tools is given.  Nothing is launched.
Refuse(r) ==
    /\ Idle /\ r \notin begun
    /\ begun' = begun \cup {r}
    /\ run' = r /\ phase' = "ending" /\ outcome' = "blocked"
    /\ UNCHANGED <<repo, head, disk, op, backup, before, attempted, live, sessionVars,
                   evidenceVars>>

\* Nothing is written by a dry run, which ends here.
Clear(r, b, o, dryRun) ==
    /\ Idle /\ r \notin begun
    /\ Cleared(b)
    /\ begun' = begun \cup {r}
    /\ run' = r /\ backup' = b /\ op' = o
    /\ phase' = (IF dryRun THEN "ending" ELSE "cleared")
    /\ outcome' = "deferred"
    /\ UNCHANGED <<repo, head, disk, before, attempted, live, sessionVars, evidenceVars>>

-----------------------------------------------------------------------------
(* The evidence                                                            *)

\* The latest record is replaced first, and then a line is appended.
WriteIntent ==
    /\ phase = "cleared"
    /\ latest' = Trail!IntentOf(run)
    /\ phase' = "intending"
    /\ UNCHANGED <<repo, head, disk, begun, run, runVars, attempted, live, sessionVars,
                   history>>

AppendIntent ==
    /\ phase = "intending"
    /\ history' = Append(history, latest)
    /\ phase' = "intended"
    /\ UNCHANGED <<repo, head, disk, begun, run, runVars, attempted, live, sessionVars,
                   latest>>

Terminal == [run |-> run, outcome |-> outcome, attempted |-> run \in attempted]

Finalize ==
    /\ phase = "ending"
    /\ latest' = Terminal
    /\ phase' = "recording"
    /\ UNCHANGED <<repo, head, disk, begun, run, runVars, attempted, live, sessionVars,
                   history>>

\* The process is gone, and its reader with it.
Leave ==
    /\ run' = NoRun /\ phase' = "idle"
    /\ op' = "write" /\ backup' = NoBackup /\ before' = Unseen /\ outcome' = "deferred"
    /\ owed' = FALSE /\ queue' = <<>> /\ pump' = FALSE

AppendTerminal ==
    /\ phase = "recording"
    /\ history' = Append(history, latest)
    /\ Leave
    /\ UNCHANGED <<repo, head, disk, begun, attempted, live, latest>>

\* Without an attempt, a record is refused, not redacted, when a name in it has
\* the shape of a secret: the operation's, or the backup's in the guidance.
RenderRefused ==
    /\ phase = "ending" /\ run \notin attempted
    /\ Leave
    /\ UNCHANGED <<repo, head, disk, begun, attempted, live, evidenceVars>>

Crash ==
    /\ ~ Idle
    /\ Leave
    /\ UNCHANGED <<repo, head, disk, begun, attempted, live, evidenceVars>>

-----------------------------------------------------------------------------
(* The runtime: external, and trusted with nothing                         *)

\* Once it was sent an operation that writes, and as long as it is alive, the
\* runtime may write to the target or to anything else.
Touch(v) ==
    /\ v \in live \cap attempted
    /\ \/ disk' = [disk EXCEPT !.target = @ \cup {v}]
       \/ disk' = [disk EXCEPT !.rest = @ \cup {v}]
    /\ UNCHANGED <<repo, head, begun, run, phase, runVars, attempted, live, sessionVars,
                   evidenceVars>>

\* It logs to the stream it replies on, and is held up by a full queue.
Emit(line) ==
    /\ run \in live /\ Len(queue) < MaxQueued
    /\ line # "log" => owed
    /\ queue' = Append(queue, line)
    /\ owed' = (owed /\ line = "log")
    /\ UNCHANGED <<repo, head, disk, begun, run, phase, runVars, attempted, live, pump,
                   evidenceVars>>

Exit(v) ==
    /\ v \in live
    /\ live' = live \ {v}
    /\ UNCHANGED <<repo, head, disk, begun, run, phase, runVars, attempted, sessionVars,
                   evidenceVars>>

-----------------------------------------------------------------------------
(* The session                                                             *)

\* Slip: the end of the stream is put on a full queue too.
PumpEndsOnTop ==
    /\ pump /\ run \notin live
    /\ pump' = FALSE
    /\ queue' = Append(queue, "end")
    /\ UNCHANGED <<repo, head, disk, begun, run, phase, runVars, attempted, live, owed,
                   evidenceVars>>

\* The end of the stream is put without waiting, and is lost on a full queue.
PumpEnds ==
    /\ pump /\ run \notin live
    /\ pump' = FALSE
    /\ queue' = IF Len(queue) < MaxQueued THEN Append(queue, "end") ELSE queue
    /\ UNCHANGED <<repo, head, disk, begun, run, phase, runVars, attempted, live, owed,
                   evidenceVars>>

\* Without a snapshot nothing is launched.
Snapshot ==
    /\ phase = "intended"
    /\ \/ before' = disk /\ phase' = "launching" /\ UNCHANGED outcome
       \/ outcome' = "blocked" /\ phase' = "ending" /\ UNCHANGED before
    /\ UNCHANGED <<repo, head, disk, begun, run, op, backup, attempted, live, sessionVars,
                   evidenceVars>>

\* An operation that needs a definition is refused, and a runtime may be missing.
LaunchFails ==
    /\ phase = "launching"
    /\ phase' = "ending" /\ outcome' = "blocked"
    /\ UNCHANGED <<repo, head, disk, begun, run, op, backup, before, attempted, live,
                   sessionVars, evidenceVars>>

Launch ==
    /\ phase = "launching" /\ op # "payload"
    /\ live' = live \cup {run}
    /\ queue' = <<>> /\ pump' = TRUE
    /\ owed' = TRUE
    /\ phase' = "greet"
    /\ UNCHANGED <<repo, head, disk, begun, run, runVars, attempted, evidenceVars>>

\* The request that follows a good reply.  "greet" stands for the handshake and
\* the listing of the tools.  A read is not flushed.
Following ==
    CASE phase = "greet"   -> "connect"
      [] phase = "connect" -> "operate"
      [] phase = "operate" -> IF op = "write" THEN "flush" ELSE "closing"
      [] phase = "flush"   -> "closing"

\* An attempt is noted before the operation is sent.
Proceed ==
    /\ phase \in Conversing
    /\ queue # <<>> /\ Head(queue) = "good"
    /\ queue' = Tail(queue)
    /\ phase' = Following
    /\ owed' = (Following # "closing")
    /\ attempted' = IF Following = "operate" /\ op = "write" THEN attempted \cup {run}
                                                             ELSE attempted
    /\ UNCHANGED <<repo, head, disk, begun, run, runVars, live, pump, evidenceVars>>

\* A line that is no frame, or not the reply that is awaited, is skipped.
Skip ==
    /\ phase \in Conversing
    /\ queue # <<>> /\ Head(queue) = "log"
    /\ queue' = Tail(queue)
    /\ UNCHANGED <<repo, head, disk, begun, run, phase, runVars, attempted, live, owed, pump,
                   evidenceVars>>

GiveUp ==
    /\ phase' = "closing" /\ outcome' = "blocked"
    /\ UNCHANGED <<repo, head, disk, begun, run, op, backup, before, attempted, live,
                   sessionVars, evidenceVars>>

\* The end of the stream is put back for the next read.
Fail ==
    /\ phase \in Conversing
    /\ queue # <<>> /\ Head(queue) \in {"bad", "end"}
    /\ GiveUp

\* Slip: the clock is only checked between two lines.
StallIfChatty ==
    /\ phase \in Conversing /\ queue # <<>>
    /\ GiveUp

\* The deadline passes, however much or little the runtime says.
Stall ==
    /\ phase \in Conversing
    /\ GiveUp

\* Slip: only the direct child is killed, and the runtime is its child.
CloseDirectChild ==
    /\ phase = "closing"
    /\ phase' = IF outcome = "blocked" THEN "ending" ELSE "checking"
    /\ UNCHANGED <<repo, head, disk, begun, run, runVars, attempted, live, sessionVars,
                   evidenceVars>>

\* The whole tree of processes is killed, before anything is concluded.  The code asks for
\* that and swallows a refusal or a timeout (_kill_tree): that the kill succeeds is an
\* assumption, on which everything that is said of a run after its end rests.
Close ==
    /\ phase = "closing"
    /\ live' = live \ {run}
    /\ phase' = IF outcome = "blocked" THEN "ending" ELSE "checking"
    /\ UNCHANGED <<repo, head, disk, begun, run, runVars, attempted, sessionVars,
                   evidenceVars>>

-----------------------------------------------------------------------------
(* What the run did                                                        *)

\* Slip: files that git ignores are in no snapshot.
InScopeIfTracked == disk.target # before.target

\* The target has changed, and nothing else has.
InScope == disk.target # before.target /\ disk.rest = before.rest

\* A second snapshot may fail as well.
Check ==
    /\ phase = "checking"
    /\ \/ InScope /\ phase' = "validating" /\ UNCHANGED outcome
       \/ outcome' = "failed" /\ phase' = "ending"
    /\ UNCHANGED <<repo, head, disk, begun, run, op, backup, before, attempted, live,
                   sessionVars, evidenceVars>>

\* The changed model is validated, against the findings of before.
Validate ==
    /\ phase = "validating"
    /\ outcome' \in {"materialized", "failed"}
    /\ phase' = "ending"
    /\ UNCHANGED <<repo, head, disk, begun, run, op, backup, before, attempted, live,
                   sessionVars, evidenceVars>>

-----------------------------------------------------------------------------
(* People, between the runs                                                *)

Edit(e) ==
    /\ Idle
    /\ e \notin disk.target
    /\ disk' = [disk EXCEPT !.target = @ \cup {e}]
    /\ UNCHANGED <<repo, head, begun, run, phase, runVars, attempted, live, sessionVars,
                   evidenceVars>>

Commit ==
    /\ Idle
    /\ head' = disk
    /\ UNCHANGED <<repo, disk, begun, run, phase, runVars, attempted, live, sessionVars,
                   evidenceVars>>

-----------------------------------------------------------------------------
Init ==
    /\ repo \in [head : Readiness, tree : Readiness, kind : Kinds]
    /\ head = [target |-> {}, rest |-> {}] /\ disk = head
    /\ begun = {} /\ run = NoRun /\ phase = "idle"
    /\ op = "write" /\ backup = NoBackup /\ before = Unseen /\ outcome = "deferred"
    /\ attempted = {} /\ live = {}
    /\ owed = FALSE /\ queue = <<>> /\ pump = FALSE
    /\ latest = NoRun /\ history = <<>>

\* The steps of the process, but for its deadline.
Advance ==
    \/ WriteIntent \/ AppendIntent \/ Snapshot
    \/ Launch \/ LaunchFails
    \/ Proceed \/ Skip \/ Fail \/ Close
    \/ Check \/ Validate
    \/ Finalize \/ AppendTerminal \/ RenderRefused

Next ==
    \/ \E r \in Runs :
         \/ Refuse(r)
         \/ \E b \in {NoBackup} \cup Contents, o \in {"write", "read", "payload"},
              dryRun \in BOOLEAN : Clear(r, b, o, dryRun)
         \/ Touch(r)
         \/ Exit(r)
    \/ \E line \in {"log", "good", "bad"} : Emit(line)
    \/ PumpEnds
    \/ Advance
    \/ Stall
    \/ Crash
    \/ \E e \in Edits : Edit(e)
    \/ Commit

\* Nothing is asked of the runtime, of the pump or of people.
Fairness == WF_vars(Advance) /\ WF_vars(Stall)

Spec == Init /\ [][Next]_vars /\ Fairness

-----------------------------------------------------------------------------
(* Properties                                                              *)

TypeOK ==
    /\ repo \in [head : Readiness, tree : Readiness, kind : Kinds]
    /\ head \in Trees /\ disk \in Trees
    /\ begun \subseteq Runs
    /\ run \in Runs \cup {NoRun}
    /\ phase \in {"idle", "cleared", "intending", "intended", "launching", "closing",
                  "checking", "validating", "ending", "recording"} \cup Conversing
    /\ run = NoRun <=> phase = "idle"
    /\ op \in {"write", "read", "payload"}
    /\ backup \in {NoBackup} \cup Contents
    /\ before \in {Unseen} \cup Trees
    /\ outcome \in Outcomes
    /\ attempted \subseteq begun /\ live \subseteq begun
    /\ owed \in BOOLEAN /\ pump \in BOOLEAN
    /\ queue \in Seq({"log", "good", "bad", "end"}) /\ Len(queue) <= MaxQueued
    /\ latest \in {NoRun} \cup Trail!Records
    /\ history \in Seq(Trail!Records)

\* Whatever a runtime has written, HEAD alone authorizes: the record and the
\* allowlist it holds, and one approval of this operation on this target.
TouchesAreAuthorized ==
    Touched # {} =>
        /\ repo.head.pass /\ repo.head.permits
        /\ Names \in repo.head.notes
        /\ repo.kind # "sibling_unready"

\* The guidance of a run, `git restore` from the backup or from a clean HEAD,
\* gives a person back every edit that was in the target, and no older model.
Restored == IF backup = NoBackup THEN head.target ELSE backup

RollbackKeepsEdits ==
    before # Unseen => Restored \cap Edits = disk.target \cap Edits

\* A run that is recorded as "materialized" has written nowhere but in its
\* target, and never will.
MaterializedStaysInScope ==
    \A i \in DOMAIN history :
        history[i].outcome = "materialized" => history[i].run \notin disk.rest

\* From the history alone an auditor can tell the runs that left the model alone: those
\* without an intent and those that ended without an attempt, whatever crashed and
\* whatever a runtime did (write_intent, finalize, refusal_record).
HistoryIsConclusive == Trail!Conclusive

\* The history is the promised audit trail of what the runtimes write, a crash
\* of the adapter and a runtime that outlives it included.
RefinesAuditTrail == Trail!Spec

\* A run ends, though the runtime hangs, chatters or dies, and though the end of
\* its stream is lost.
EveryRunEnds == run # NoRun ~> run = NoRun
=============================================================================
