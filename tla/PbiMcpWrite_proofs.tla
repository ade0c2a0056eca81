------------------------ MODULE PbiMcpWrite_proofs ------------------------
(***************************************************************************)
(* Proofs about PbiMcpWrite, for any number of runs, edits and queued      *)
(* lines.                                                                  *)
(*                                                                         *)
(* The inductive invariant says that a run that has attempted a write has  *)
(* its intent on record, that a run with an end on record is neither in    *)
(* progress nor survived by its runtime, and that what a run concluded     *)
(* about its own runtime stays true because that runtime is dead.          *)
(***************************************************************************)
EXTENDS PbiMcpWrite, TLAPS

\* From the gate to the conclusion, of a run that is to write.
Governed == {"cleared", "intending", "intended", "launching", "closing", "checking",
             "validating"} \cup Conversing

Declared == Governed \ {"cleared", "intending"}

Unattempted == {"cleared", "intending", "intended", "launching", "greet", "connect"}

Observed == {"launching", "closing", "checking"} \cup Conversing

Authorized ==
    /\ repo.head.pass /\ repo.head.permits
    /\ Names \in repo.head.notes
    /\ repo.kind # "sibling_unready"

GateInv ==
    /\ phase \in Governed \/ attempted # {} => Authorized
    /\ phase \in Governed \/ before # Unseen => Restored \cap Edits = disk.target \cap Edits

ProcessInv ==
    /\ run \in begun \cup {NoRun}
    /\ phase = "idle" => before = Unseen
    /\ run \in live => phase \in Conversing \cup {"closing"}
    /\ phase \in Unattempted => run \notin attempted
    /\ phase \in Observed => before # Unseen
    /\ outcome = "deferred" /\ phase \in {"ending", "recording"} => run \notin attempted

ScopeInv ==
    /\ Touched \subseteq attempted
    /\ before # Unseen => run \notin before.rest
    /\ phase = "validating" => run \notin disk.rest
    /\ outcome = "materialized" =>
          phase \in {"ending", "recording"} /\ run \notin disk.rest

TrailInv ==
    /\ \A r \in attempted : Trail!OnRecord(Trail!IntentOf(r))
    /\ phase \in Declared => Trail!OnRecord(Trail!IntentOf(run))
    /\ phase \in {"cleared", "intending"} => \A i \in DOMAIN history : history[i].run # run
    /\ phase = "intending" => latest = Trail!IntentOf(run)
    /\ phase = "recording" => latest = Terminal
    /\ \A i \in DOMAIN history :
          /\ history[i].run \in begun
          /\ history[i] # Trail!IntentOf(history[i].run) =>
                history[i].run \notin live \cup {run}

IInv == TypeOK /\ GateInv /\ ProcessInv /\ ScopeInv /\ TrailInv /\ MaterializedStaysInScope

-----------------------------------------------------------------------------
(* Types                                                                   *)

\* What a queue of lines, or a file of records, is after a step.
LEMMA LinesType ==
    ASSUME NEW S, NEW s \in Seq(S), NEW e \in S
    PROVE  /\ Append(s, e) \in Seq(S) /\ Len(Append(s, e)) = Len(s) + 1 /\ Len(s) \in Nat
           /\ s # <<>> => Head(s) \in S /\ Tail(s) \in Seq(S) /\ Len(Tail(s)) = Len(s) - 1
OBVIOUS

LEMMA AppendedRecord ==
    ASSUME NEW S, NEW s \in Seq(S), NEW e \in S
    PROVE  /\ DOMAIN Append(s, e) = DOMAIN s \cup {Len(s) + 1}
           /\ Append(s, e)[Len(s) + 1] = e
           /\ \A i \in DOMAIN s : Append(s, e)[i] = s[i]
           /\ Len(s) + 1 \notin DOMAIN s
OBVIOUS

LEMMA NoLines == <<>> \in Seq({"log", "good", "bad", "end"}) /\ Len(<<>>) <= MaxQueued
BY QueueAssumption

\* A process that is gone.
LEMMA LeaveType ==
    Leave => /\ op' \in {"write", "read", "payload"} /\ backup' \in {NoBackup} \cup Contents'
             /\ before' \in {Unseen} \cup Trees' /\ outcome' \in Outcomes
             /\ owed' \in BOOLEAN /\ pump' \in BOOLEAN
             /\ queue' \in Seq({"log", "good", "bad", "end"}) /\ Len(queue') <= MaxQueued
BY NoLines DEF Leave, Outcomes

LEMMA TypeInit == Init => TypeOK
<1> SUFFICES ASSUME Init PROVE TypeOK
  OBVIOUS
<1> USE RunAssumption, QueueAssumption
<1>1. head \in Trees /\ disk \in Trees
  BY DEF Init, Trees, Contents
<1>2. queue \in Seq({"log", "good", "bad", "end"}) /\ Len(queue) <= MaxQueued
  BY NoLines DEF Init
<1>3. history \in Seq(Trail!Records)
  BY DEF Init
<1> QED BY <1>1, <1>2, <1>3 DEF Init, TypeOK, Outcomes, Conversing

\* A record is put on file in two steps: the second finds the first's.
LEMMA TypeStep == TypeOK /\ ProcessInv /\ TrailInv /\ [Next]_vars => TypeOK'
<1> SUFFICES ASSUME TypeOK, ProcessInv, TrailInv, [Next]_vars PROVE TypeOK'
  OBVIOUS
<1> USE RunAssumption, QueueAssumption
<1>1. ASSUME NEW r \in Runs, Refuse(r) PROVE TypeOK'
  BY <1>1 DEF TypeOK, Refuse, Idle, Outcomes, Conversing, sessionVars, evidenceVars
<1>2. ASSUME NEW r \in Runs, NEW b \in {NoBackup} \cup Contents,
             NEW o \in {"write", "read", "payload"}, NEW dryRun \in BOOLEAN, Clear(r, b, o, dryRun)
      PROVE  TypeOK'
  BY <1>2 DEF TypeOK, Clear, Idle, Outcomes, Conversing, sessionVars, evidenceVars
<1>3. ASSUME NEW r \in Runs, Touch(r) PROVE TypeOK'
  <2>1. disk' \in Trees
    BY <1>3 DEF TypeOK, Touch, Trees, Contents
  <2> QED BY <1>3, <2>1 DEF TypeOK, Touch, runVars, sessionVars, evidenceVars
<1>4. ASSUME NEW r \in Runs, Exit(r) PROVE TypeOK'
  BY <1>4 DEF TypeOK, Exit, runVars, sessionVars, evidenceVars
<1>5. ASSUME NEW line \in {"log", "good", "bad"}, Emit(line) PROVE TypeOK'
  <2>1. queue' \in Seq({"log", "good", "bad", "end"}) /\ Len(queue') <= MaxQueued
    BY <1>5, LinesType DEF TypeOK, Emit
  <2> QED BY <1>5, <2>1 DEF TypeOK, Emit, runVars, evidenceVars
<1>6. CASE PumpEnds
  <2>1. queue' \in Seq({"log", "good", "bad", "end"}) /\ Len(queue') <= MaxQueued
    BY <1>6, LinesType DEF TypeOK, PumpEnds
  <2> QED BY <1>6, <2>1 DEF TypeOK, PumpEnds, runVars, evidenceVars
<1>7. CASE WriteIntent
  <2>1. run \in Runs
    BY <1>7 DEF TypeOK, WriteIntent
  <2>2. latest' \in Trail!Records
    BY <1>7, <2>1 DEF WriteIntent, Trail!IntentOf, Trail!Records, Outcomes
  <2> QED BY <1>7, <2>2 DEF TypeOK, WriteIntent, Conversing, runVars, sessionVars
<1>8. CASE Finalize
  <2>1. run \in Runs
    BY <1>8 DEF TypeOK, Finalize
  <2>2. latest' \in Trail!Records
    BY <1>8, <2>1 DEF TypeOK, Finalize, Terminal, Trail!Records
  <2> QED BY <1>8, <2>2 DEF TypeOK, Finalize, Conversing, runVars, sessionVars

<1>9. CASE AppendIntent
  <2>1. latest \in Trail!Records
    <3>1. run \in Runs /\ latest = Trail!IntentOf(run)
      BY <1>9 DEF TypeOK, TrailInv, AppendIntent
    <3> QED BY <3>1 DEF Trail!IntentOf, Trail!Records, Outcomes
  <2>2. history' \in Seq(Trail!Records)
    BY <1>9, <2>1, LinesType DEF TypeOK, AppendIntent
  <2> QED BY <1>9, <2>2 DEF TypeOK, AppendIntent, Conversing, runVars, sessionVars
<1>10. CASE AppendTerminal
  <2>1. latest \in Trail!Records
    <3>1. run \in Runs /\ latest = Terminal /\ outcome \in Outcomes
      BY <1>10 DEF TypeOK, TrailInv, AppendTerminal
    <3> QED BY <3>1 DEF Terminal, Trail!Records
  <2>2. history' \in Seq(Trail!Records)
    BY <1>10, <2>1, LinesType DEF TypeOK, AppendTerminal
  <2> QED BY <1>10, <2>2, LeaveType DEF TypeOK, AppendTerminal, Leave
<1>11. CASE RenderRefused
  BY <1>11, LeaveType DEF TypeOK, RenderRefused, Leave, evidenceVars
<1>12. CASE Crash
  BY <1>12, LeaveType DEF TypeOK, Crash, Leave, evidenceVars
<1>13. CASE Snapshot
  BY <1>13 DEF TypeOK, Snapshot, Outcomes, Conversing, sessionVars, evidenceVars
<1>14. CASE Launch
  <2>1. live' \subseteq begun
    BY <1>14 DEF TypeOK, ProcessInv, Launch, Conversing
  <2> QED BY <1>14, <2>1 DEF TypeOK, Launch, Conversing, runVars, evidenceVars
<1>15. CASE LaunchFails
  BY <1>15 DEF TypeOK, LaunchFails, Outcomes, Conversing, sessionVars, evidenceVars
<1>16. CASE Proceed
  <2>1. queue' \in Seq({"log", "good", "bad", "end"}) /\ Len(queue') <= MaxQueued
    BY <1>16, LinesType DEF TypeOK, Proceed
  <2>2. phase' \in {"connect", "operate", "flush", "closing"}
    BY <1>16 DEF Proceed, Following, Conversing
  <2>3. attempted' \subseteq begun
    BY <1>16 DEF TypeOK, ProcessInv, Proceed, Conversing
  <2> QED BY <1>16, <2>1, <2>2, <2>3 DEF TypeOK, Proceed, Conversing, runVars, evidenceVars
<1>17. CASE Skip
  <2>1. queue' \in Seq({"log", "good", "bad", "end"}) /\ Len(queue') <= MaxQueued
    BY <1>17, LinesType DEF TypeOK, Skip
  <2> QED BY <1>17, <2>1 DEF TypeOK, Skip, runVars, evidenceVars
<1>18. CASE Fail \/ Stall
  BY <1>18 DEF TypeOK, Fail, Stall, GiveUp, Outcomes, Conversing, sessionVars, evidenceVars
<1>19. CASE Close
  BY <1>19 DEF TypeOK, Close, Conversing, runVars, sessionVars, evidenceVars
<1>20. CASE Check
  BY <1>20 DEF TypeOK, Check, Outcomes, Conversing, sessionVars, evidenceVars
<1>21. CASE Validate
  BY <1>21 DEF TypeOK, Validate, Outcomes, Conversing, sessionVars, evidenceVars
<1>22. ASSUME NEW e \in Edits, Edit(e) PROVE TypeOK'
  <2>1. disk' \in Trees
    BY <1>22 DEF TypeOK, Edit, Trees, Contents
  <2> QED BY <1>22, <2>1 DEF TypeOK, Edit, runVars, sessionVars, evidenceVars
<1>23. CASE Commit
  BY <1>23 DEF TypeOK, Commit, runVars, sessionVars, evidenceVars
<1>24. CASE UNCHANGED vars
  BY <1>24 DEF TypeOK, vars, Conversing
<1> QED BY <1>1, <1>2, <1>3, <1>4, <1>5, <1>6, <1>7, <1>8, <1>9, <1>10, <1>11, <1>12,
           <1>13, <1>14, <1>15, <1>16, <1>17, <1>18, <1>19, <1>20, <1>21, <1>22, <1>23,
           <1>24 DEF Next, Advance

-----------------------------------------------------------------------------
(* The inductive invariant, a conjunct at a time                           *)

LEMMA GateStep == TypeOK /\ GateInv /\ ProcessInv /\ [Next]_vars => GateInv'
<1> SUFFICES ASSUME TypeOK, GateInv, ProcessInv, [Next]_vars PROVE GateInv'
  OBVIOUS
<1>1. ASSUME NEW r \in Runs, Refuse(r) PROVE GateInv'
  BY <1>1 DEF TypeOK, GateInv, ProcessInv, Governed, Conversing, Restored, Authorized,
       Refuse, Idle, sessionVars, evidenceVars
<1>2. ASSUME NEW r \in Runs, NEW b \in {NoBackup} \cup Contents,
             NEW o \in {"write", "read", "payload"}, NEW dryRun \in BOOLEAN,
             Clear(r, b, o, dryRun) PROVE GateInv'
  <2>1. Authorized
    <3>1. repo.head.notes \subseteq SUBSET Names
      BY NotesAssumption DEF TypeOK, Readiness
    <3>2. PICK note \in repo.head.notes : Names \subseteq note
      BY <1>2 DEF Clear, Cleared, Approved
    <3>3. note = Names
      BY <3>1, <3>2
    <3> QED BY <1>2, <3>2, <3>3 DEF Clear, Cleared, Authorized
  <2>2. backup' \in {NoBackup, disk.target} /\ (backup' = NoBackup => disk = head)
    BY <1>2 DEF Clear, Cleared, GitSafe
  <2>3. Restored' = disk.target
    BY <1>2, <2>2 DEF Clear, Restored
  <2> QED BY <1>2, <2>1, <2>3 DEF Clear, GateInv, Authorized
<1>3. ASSUME NEW r \in Runs, Touch(r) PROVE GateInv'
  <2>1. disk'.target \in {disk.target, disk.target \cup {r}}
    BY <1>3 DEF Touch, TypeOK, Trees
  <2>2. disk'.target \cap Edits = disk.target \cap Edits
    BY <2>1, RunAssumption
  <2>3. UNCHANGED <<repo, phase, attempted, before, Restored>>
    BY <1>3 DEF Touch, runVars, Restored
  <2> QED BY <2>2, <2>3 DEF GateInv, Authorized
<1>4. ASSUME NEW r \in Runs, Exit(r) PROVE GateInv'
  BY <1>4 DEF TypeOK, GateInv, ProcessInv, Governed, Conversing, Restored, Authorized, Exit,
       runVars, sessionVars, evidenceVars
<1>5. ASSUME NEW line \in {"log", "good", "bad"}, Emit(line) PROVE GateInv'
  BY <1>5 DEF TypeOK, GateInv, ProcessInv, Governed, Conversing, Restored, Authorized, Emit,
       runVars, evidenceVars
<1>6. CASE PumpEnds
  BY <1>6 DEF TypeOK, GateInv, ProcessInv, Governed, Conversing, Restored, Authorized,
       PumpEnds, runVars, evidenceVars
<1>7. CASE WriteIntent
  BY <1>7 DEF TypeOK, GateInv, ProcessInv, Governed, Conversing, Restored, Authorized,
       WriteIntent, runVars, sessionVars
<1>8. CASE AppendIntent
  BY <1>8 DEF TypeOK, GateInv, ProcessInv, Governed, Conversing, Restored, Authorized,
       AppendIntent, runVars, sessionVars
<1>9. CASE Finalize
  BY <1>9 DEF TypeOK, GateInv, ProcessInv, Governed, Conversing, Restored, Authorized,
       Finalize, runVars, sessionVars
<1>10. CASE AppendTerminal
  BY <1>10 DEF TypeOK, GateInv, ProcessInv, Governed, Conversing, Restored, Authorized,
       AppendTerminal, Leave
<1>11. CASE RenderRefused
  BY <1>11 DEF TypeOK, GateInv, ProcessInv, Governed, Conversing, Restored, Authorized,
       RenderRefused, Leave, evidenceVars
<1>12. CASE Crash
  BY <1>12 DEF TypeOK, GateInv, ProcessInv, Governed, Conversing, Restored, Authorized,
       Crash, Leave, evidenceVars
<1>13. CASE Snapshot
  BY <1>13 DEF TypeOK, GateInv, ProcessInv, Governed, Conversing, Restored, Authorized,
       Snapshot, sessionVars, evidenceVars
<1>14. CASE Launch
  BY <1>14 DEF TypeOK, GateInv, ProcessInv, Governed, Conversing, Restored, Authorized,
       Launch, runVars, evidenceVars
<1>15. CASE LaunchFails
  BY <1>15 DEF TypeOK, GateInv, ProcessInv, Governed, Conversing, Restored, Authorized,
       LaunchFails, sessionVars, evidenceVars
<1>16. CASE Proceed
  BY <1>16 DEF TypeOK, GateInv, ProcessInv, Governed, Conversing, Restored, Authorized,
       Proceed, Following, runVars, evidenceVars
<1>17. CASE Skip
  BY <1>17 DEF TypeOK, GateInv, ProcessInv, Governed, Conversing, Restored, Authorized,
       Skip, runVars, evidenceVars
<1>18. CASE Fail
  BY <1>18 DEF TypeOK, GateInv, ProcessInv, Governed, Conversing, Restored, Authorized,
       Fail, GiveUp, sessionVars, evidenceVars
<1>19. CASE Stall
  BY <1>19 DEF TypeOK, GateInv, ProcessInv, Governed, Conversing, Restored, Authorized,
       Stall, GiveUp, sessionVars, evidenceVars
<1>20. CASE Close
  BY <1>20 DEF TypeOK, GateInv, ProcessInv, Governed, Conversing, Restored, Authorized,
       Close, runVars, sessionVars, evidenceVars
<1>21. CASE Check
  BY <1>21 DEF TypeOK, GateInv, ProcessInv, Governed, Conversing, Restored, Authorized,
       Check, sessionVars, evidenceVars
<1>22. CASE Validate
  BY <1>22 DEF TypeOK, GateInv, ProcessInv, Governed, Conversing, Restored, Authorized,
       Validate, sessionVars, evidenceVars
<1>23. ASSUME NEW e \in Edits, Edit(e) PROVE GateInv'
  BY <1>23 DEF TypeOK, GateInv, ProcessInv, Governed, Conversing, Restored, Authorized,
       Edit, Idle, runVars, sessionVars, evidenceVars
<1>24. CASE Commit
  BY <1>24 DEF TypeOK, GateInv, ProcessInv, Governed, Conversing, Restored, Authorized,
       Commit, Idle, runVars, sessionVars, evidenceVars
<1>25. CASE UNCHANGED vars
  BY <1>25 DEF TypeOK, GateInv, ProcessInv, Governed, Conversing, Restored, Authorized, vars
<1> QED BY <1>1, <1>2, <1>3, <1>4, <1>5, <1>6, <1>7, <1>8, <1>9, <1>10, <1>11, <1>12, <1>13,
     <1>14, <1>15, <1>16, <1>17, <1>18, <1>19, <1>20, <1>21, <1>22, <1>23, <1>24, <1>25 DEF
     Next, Advance

LEMMA ProcessStep == TypeOK /\ ProcessInv /\ [Next]_vars => ProcessInv'
<1> SUFFICES ASSUME TypeOK, ProcessInv, [Next]_vars PROVE ProcessInv'
  OBVIOUS
<1>1. ASSUME NEW r \in Runs, Refuse(r) PROVE ProcessInv'
  BY <1>1 DEF TypeOK, ProcessInv, Conversing, Unattempted, Observed, Trees, Refuse, Idle,
       sessionVars, evidenceVars
<1>2. ASSUME NEW r \in Runs, NEW b \in {NoBackup} \cup Contents,
             NEW o \in {"write", "read", "payload"}, NEW dryRun \in BOOLEAN,
             Clear(r, b, o, dryRun) PROVE ProcessInv'
  BY <1>2 DEF TypeOK, ProcessInv, Conversing, Unattempted, Observed, Trees, Clear, Idle,
       sessionVars, evidenceVars
<1>3. ASSUME NEW r \in Runs, Touch(r) PROVE ProcessInv'
  BY <1>3 DEF TypeOK, ProcessInv, Conversing, Unattempted, Observed, Trees, Touch, runVars,
       sessionVars, evidenceVars
<1>4. ASSUME NEW r \in Runs, Exit(r) PROVE ProcessInv'
  BY <1>4 DEF TypeOK, ProcessInv, Conversing, Unattempted, Observed, Trees, Exit, runVars,
       sessionVars, evidenceVars
<1>5. ASSUME NEW line \in {"log", "good", "bad"}, Emit(line) PROVE ProcessInv'
  BY <1>5 DEF TypeOK, ProcessInv, Conversing, Unattempted, Observed, Trees, Emit, runVars,
       evidenceVars
<1>6. CASE PumpEnds
  BY <1>6 DEF TypeOK, ProcessInv, Conversing, Unattempted, Observed, Trees, PumpEnds,
       runVars, evidenceVars
<1>7. CASE WriteIntent
  BY <1>7 DEF TypeOK, ProcessInv, Conversing, Unattempted, Observed, Trees, WriteIntent,
       runVars, sessionVars
<1>8. CASE AppendIntent
  BY <1>8 DEF TypeOK, ProcessInv, Conversing, Unattempted, Observed, Trees, AppendIntent,
       runVars, sessionVars
<1>9. CASE Finalize
  BY <1>9 DEF TypeOK, ProcessInv, Conversing, Unattempted, Observed, Trees, Finalize,
       runVars, sessionVars
<1>10. CASE AppendTerminal
  BY <1>10, RunAssumption DEF TypeOK, ProcessInv, Conversing, Unattempted, Observed, Trees,
       AppendTerminal, Leave
<1>11. CASE RenderRefused
  BY <1>11, RunAssumption DEF TypeOK, ProcessInv, Conversing, Unattempted, Observed, Trees,
       RenderRefused, Leave, evidenceVars
<1>12. CASE Crash
  BY <1>12, RunAssumption DEF TypeOK, ProcessInv, Conversing, Unattempted, Observed, Trees,
       Crash, Leave, evidenceVars
<1>13. CASE Snapshot
  BY <1>13, NothingAssumption DEF TypeOK, ProcessInv, Conversing, Unattempted, Observed,
       Trees, Contents, Snapshot, sessionVars, evidenceVars
<1>14. CASE Launch
  BY <1>14 DEF TypeOK, ProcessInv, Conversing, Unattempted, Observed, Trees, Launch,
       runVars, evidenceVars
<1>15. CASE LaunchFails
  BY <1>15 DEF TypeOK, ProcessInv, Conversing, Unattempted, Observed, Trees, LaunchFails,
       sessionVars, evidenceVars
<1>16. CASE Proceed
  BY <1>16 DEF TypeOK, ProcessInv, Conversing, Unattempted, Observed, Trees, Proceed,
       Following, runVars, evidenceVars
<1>17. CASE Skip
  BY <1>17 DEF TypeOK, ProcessInv, Conversing, Unattempted, Observed, Trees, Skip, runVars,
       evidenceVars
<1>18. CASE Fail
  BY <1>18 DEF TypeOK, ProcessInv, Conversing, Unattempted, Observed, Trees, Fail, GiveUp,
       sessionVars, evidenceVars
<1>19. CASE Stall
  BY <1>19 DEF TypeOK, ProcessInv, Conversing, Unattempted, Observed, Trees, Stall, GiveUp,
       sessionVars, evidenceVars
<1>20. CASE Close
  BY <1>20 DEF TypeOK, ProcessInv, Conversing, Unattempted, Observed, Trees, Close, runVars,
       sessionVars, evidenceVars
<1>21. CASE Check
  BY <1>21 DEF TypeOK, ProcessInv, Conversing, Unattempted, Observed, Trees, Check,
       sessionVars, evidenceVars
<1>22. CASE Validate
  BY <1>22 DEF TypeOK, ProcessInv, Conversing, Unattempted, Observed, Trees, Validate,
       sessionVars, evidenceVars
<1>23. ASSUME NEW e \in Edits, Edit(e) PROVE ProcessInv'
  BY <1>23 DEF TypeOK, ProcessInv, Conversing, Unattempted, Observed, Trees, Edit, Idle,
       runVars, sessionVars, evidenceVars
<1>24. CASE Commit
  BY <1>24 DEF TypeOK, ProcessInv, Conversing, Unattempted, Observed, Trees, Commit, Idle,
       runVars, sessionVars, evidenceVars
<1>25. CASE UNCHANGED vars
  BY <1>25 DEF TypeOK, ProcessInv, Conversing, Unattempted, Observed, Trees, vars
<1> QED BY <1>1, <1>2, <1>3, <1>4, <1>5, <1>6, <1>7, <1>8, <1>9, <1>10, <1>11, <1>12, <1>13,
     <1>14, <1>15, <1>16, <1>17, <1>18, <1>19, <1>20, <1>21, <1>22, <1>23, <1>24, <1>25 DEF
     Next, Advance

LEMMA ScopeStep == TypeOK /\ ProcessInv /\ ScopeInv /\ [Next]_vars => ScopeInv'
<1> SUFFICES ASSUME TypeOK, ProcessInv, ScopeInv, [Next]_vars PROVE ScopeInv'
  OBVIOUS
<1>1. ASSUME NEW r \in Runs, Refuse(r) PROVE ScopeInv'
  BY <1>1 DEF TypeOK, ProcessInv, ScopeInv, Conversing, Unattempted, Observed, Touched,
       Trees, Contents, Refuse, Idle, sessionVars, evidenceVars
<1>2. ASSUME NEW r \in Runs, NEW b \in {NoBackup} \cup Contents,
             NEW o \in {"write", "read", "payload"}, NEW dryRun \in BOOLEAN,
             Clear(r, b, o, dryRun) PROVE ScopeInv'
  BY <1>2 DEF TypeOK, ProcessInv, ScopeInv, Conversing, Unattempted, Observed, Touched,
       Trees, Contents, Clear, Idle, sessionVars, evidenceVars
<1>3. ASSUME NEW r \in Runs, Touch(r) PROVE ScopeInv'
  BY <1>3 DEF TypeOK, ProcessInv, ScopeInv, Conversing, Unattempted, Observed, Touched,
       Trees, Contents, Touch, runVars, sessionVars, evidenceVars
<1>4. ASSUME NEW r \in Runs, Exit(r) PROVE ScopeInv'
  BY <1>4 DEF TypeOK, ProcessInv, ScopeInv, Conversing, Unattempted, Observed, Touched,
       Trees, Contents, Exit, runVars, sessionVars, evidenceVars
<1>5. ASSUME NEW line \in {"log", "good", "bad"}, Emit(line) PROVE ScopeInv'
  BY <1>5 DEF TypeOK, ProcessInv, ScopeInv, Conversing, Unattempted, Observed, Touched,
       Trees, Contents, Emit, runVars, evidenceVars
<1>6. CASE PumpEnds
  BY <1>6 DEF TypeOK, ProcessInv, ScopeInv, Conversing, Unattempted, Observed, Touched,
       Trees, Contents, PumpEnds, runVars, evidenceVars
<1>7. CASE WriteIntent
  BY <1>7 DEF TypeOK, ProcessInv, ScopeInv, Conversing, Unattempted, Observed, Touched,
       Trees, Contents, WriteIntent, runVars, sessionVars
<1>8. CASE AppendIntent
  BY <1>8 DEF TypeOK, ProcessInv, ScopeInv, Conversing, Unattempted, Observed, Touched,
       Trees, Contents, AppendIntent, runVars, sessionVars
<1>9. CASE Finalize
  BY <1>9 DEF TypeOK, ProcessInv, ScopeInv, Conversing, Unattempted, Observed, Touched,
       Trees, Contents, Finalize, runVars, sessionVars
<1>10. CASE AppendTerminal
  BY <1>10 DEF TypeOK, ProcessInv, ScopeInv, Conversing, Unattempted, Observed, Touched,
       Trees, Contents, AppendTerminal, Leave
<1>11. CASE RenderRefused
  BY <1>11 DEF TypeOK, ProcessInv, ScopeInv, Conversing, Unattempted, Observed, Touched,
       Trees, Contents, RenderRefused, Leave, evidenceVars
<1>12. CASE Crash
  BY <1>12 DEF TypeOK, ProcessInv, ScopeInv, Conversing, Unattempted, Observed, Touched,
       Trees, Contents, Crash, Leave, evidenceVars
<1>13. CASE Snapshot
  BY <1>13 DEF TypeOK, ProcessInv, ScopeInv, Conversing, Unattempted, Observed, Touched,
       Trees, Contents, Snapshot, sessionVars, evidenceVars
<1>14. CASE Launch
  BY <1>14 DEF TypeOK, ProcessInv, ScopeInv, Conversing, Unattempted, Observed, Touched,
       Trees, Contents, Launch, runVars, evidenceVars
<1>15. CASE LaunchFails
  BY <1>15 DEF TypeOK, ProcessInv, ScopeInv, Conversing, Unattempted, Observed, Touched,
       Trees, Contents, LaunchFails, sessionVars, evidenceVars
<1>16. CASE Proceed
  BY <1>16 DEF TypeOK, ProcessInv, ScopeInv, Conversing, Unattempted, Observed, Touched,
       Trees, Contents, Proceed, Following, runVars, evidenceVars
<1>17. CASE Skip
  BY <1>17 DEF TypeOK, ProcessInv, ScopeInv, Conversing, Unattempted, Observed, Touched,
       Trees, Contents, Skip, runVars, evidenceVars
<1>18. CASE Fail
  BY <1>18 DEF TypeOK, ProcessInv, ScopeInv, Conversing, Unattempted, Observed, Touched,
       Trees, Contents, Fail, GiveUp, sessionVars, evidenceVars
<1>19. CASE Stall
  BY <1>19 DEF TypeOK, ProcessInv, ScopeInv, Conversing, Unattempted, Observed, Touched,
       Trees, Contents, Stall, GiveUp, sessionVars, evidenceVars
<1>20. CASE Close
  BY <1>20 DEF TypeOK, ProcessInv, ScopeInv, Conversing, Unattempted, Observed, Touched,
       Trees, Contents, Close, runVars, sessionVars, evidenceVars
<1>21. CASE Check
  BY <1>21 DEF TypeOK, ProcessInv, ScopeInv, Conversing, Unattempted, Observed, Touched,
       Trees, Contents, InScope, Check, sessionVars, evidenceVars
<1>22. CASE Validate
  BY <1>22 DEF TypeOK, ProcessInv, ScopeInv, Conversing, Unattempted, Observed, Touched,
       Trees, Contents, Validate, sessionVars, evidenceVars
<1>23. ASSUME NEW e \in Edits, Edit(e) PROVE ScopeInv'
  BY <1>23, RunAssumption DEF TypeOK, ProcessInv, ScopeInv, Conversing, Unattempted,
       Observed, Touched, Trees, Contents, Edit, Idle, runVars, sessionVars, evidenceVars
<1>24. CASE Commit
  BY <1>24 DEF TypeOK, ProcessInv, ScopeInv, Conversing, Unattempted, Observed, Touched,
       Trees, Contents, Commit, Idle, runVars, sessionVars, evidenceVars
<1>25. CASE UNCHANGED vars
  BY <1>25 DEF TypeOK, ProcessInv, ScopeInv, Conversing, Unattempted, Observed, Touched,
       Trees, Contents, vars
<1> QED BY <1>1, <1>2, <1>3, <1>4, <1>5, <1>6, <1>7, <1>8, <1>9, <1>10, <1>11, <1>12, <1>13,
     <1>14, <1>15, <1>16, <1>17, <1>18, <1>19, <1>20, <1>21, <1>22, <1>23, <1>24, <1>25 DEF
     Next, Advance

LEMMA IntentType == ASSUME NEW r \in Runs PROVE Trail!IntentOf(r) \in Trail!Records
BY DEF Trail!IntentOf, Trail!Records, Outcomes

LEMMA TerminalType == TypeOK /\ phase # "idle" => Terminal \in Trail!Records
<1> SUFFICES ASSUME TypeOK, phase # "idle" PROVE Terminal \in Trail!Records
  OBVIOUS
<1>1. run \in Runs /\ outcome \in Outcomes
  BY DEF TypeOK
<1> QED BY <1>1 DEF Terminal, Trail!Records

LEMMA TrailStep == TypeOK /\ ProcessInv /\ TrailInv /\ [Next]_vars => TrailInv'
<1> SUFFICES ASSUME TypeOK, ProcessInv, TrailInv, [Next]_vars PROVE TrailInv'
  OBVIOUS
<1>1. ASSUME NEW r \in Runs, Refuse(r) PROVE TrailInv'
  BY <1>1 DEF TypeOK, ProcessInv, TrailInv, Declared, Governed, Conversing, Trail!OnRecord,
       Trail!IntentOf, Terminal, Refuse, Idle, sessionVars, evidenceVars
<1>2. ASSUME NEW r \in Runs, NEW b \in {NoBackup} \cup Contents,
             NEW o \in {"write", "read", "payload"}, NEW dryRun \in BOOLEAN,
             Clear(r, b, o, dryRun) PROVE TrailInv'
  BY <1>2 DEF TypeOK, ProcessInv, TrailInv, Declared, Governed, Conversing, Trail!OnRecord,
       Trail!IntentOf, Terminal, Clear, Idle, sessionVars, evidenceVars
<1>3. ASSUME NEW r \in Runs, Touch(r) PROVE TrailInv'
  BY <1>3 DEF TypeOK, ProcessInv, TrailInv, Declared, Governed, Conversing, Trail!OnRecord,
       Trail!IntentOf, Terminal, Touch, runVars, sessionVars, evidenceVars
<1>4. ASSUME NEW r \in Runs, Exit(r) PROVE TrailInv'
  BY <1>4 DEF TypeOK, ProcessInv, TrailInv, Declared, Governed, Conversing, Trail!OnRecord,
       Trail!IntentOf, Terminal, Exit, runVars, sessionVars, evidenceVars
<1>5. ASSUME NEW line \in {"log", "good", "bad"}, Emit(line) PROVE TrailInv'
  BY <1>5 DEF TypeOK, ProcessInv, TrailInv, Declared, Governed, Conversing, Trail!OnRecord,
       Trail!IntentOf, Terminal, Emit, runVars, evidenceVars
<1>6. CASE PumpEnds
  BY <1>6 DEF TypeOK, ProcessInv, TrailInv, Declared, Governed, Conversing, Trail!OnRecord,
       Trail!IntentOf, Terminal, PumpEnds, runVars, evidenceVars
<1>7. CASE WriteIntent
  BY <1>7 DEF TypeOK, ProcessInv, TrailInv, Declared, Governed, Conversing, Trail!OnRecord,
       Trail!IntentOf, Terminal, WriteIntent, runVars, sessionVars
<1>8. CASE AppendIntent
  <2>1. latest \in Trail!Records /\ history' \in Seq(Trail!Records)
    BY <1>8, IntentType, TerminalType, LinesType DEF TypeOK, TrailInv, AppendIntent
  <2>2. /\ DOMAIN history' = DOMAIN history \cup {Len(history) + 1}
        /\ history'[Len(history) + 1] = latest
        /\ \A i \in DOMAIN history : history'[i] = history[i]
    BY <1>8, <2>1, AppendedRecord DEF TypeOK, AppendIntent
  <2>3. latest = Trail!IntentOf(run) /\ latest.run = run /\ run \in begun
    BY <1>8 DEF AppendIntent, TypeOK, ProcessInv, TrailInv, Trail!IntentOf
  <2>4. Trail!OnRecord(Trail!IntentOf(run))'
    BY <1>8, <2>2, <2>3 DEF AppendIntent, Trail!OnRecord, Trail!IntentOf
  <2>5. \A r \in attempted : Trail!OnRecord(Trail!IntentOf(r))'
    BY <2>2 DEF TrailInv, Trail!OnRecord, Trail!IntentOf
  <2>6. \A i \in DOMAIN history' :
           /\ history'[i].run \in begun
           /\ history'[i] # Trail!IntentOf(history'[i].run) => history'[i].run \notin live \cup {run}
    BY <2>2, <2>3 DEF TrailInv
  <2> QED BY <1>8, <2>4, <2>5, <2>6
         DEF AppendIntent, TrailInv, Declared, Governed, Conversing, Trail!IntentOf, runVars
<1>9. CASE Finalize
  BY <1>9 DEF TypeOK, ProcessInv, TrailInv, Declared, Governed, Conversing, Trail!OnRecord,
       Trail!IntentOf, Terminal, Finalize, runVars, sessionVars
<1>10. CASE AppendTerminal
  <2>1. latest \in Trail!Records /\ history' \in Seq(Trail!Records)
    BY <1>10, IntentType, TerminalType, LinesType DEF TypeOK, TrailInv, AppendTerminal
  <2>2. /\ DOMAIN history' = DOMAIN history \cup {Len(history) + 1}
        /\ history'[Len(history) + 1] = latest
        /\ \A i \in DOMAIN history : history'[i] = history[i]
    BY <1>10, <2>1, AppendedRecord DEF TypeOK, AppendTerminal
  <2>3. latest.run = run /\ run \in begun /\ run \notin live /\ run' = NoRun /\ NoRun \notin begun
    BY <1>10, RunAssumption DEF AppendTerminal, Leave, TypeOK, ProcessInv, TrailInv,
         Terminal, Conversing
  <2>4. \A r \in attempted : Trail!OnRecord(Trail!IntentOf(r))'
    BY <2>2 DEF TrailInv, Trail!OnRecord, Trail!IntentOf
  <2>5. \A i \in DOMAIN history' :
           /\ history'[i].run \in begun
           /\ history'[i] # Trail!IntentOf(history'[i].run) => history'[i].run \notin live \cup {NoRun}
    BY <2>2, <2>3 DEF TrailInv
  <2> QED BY <1>10, <2>3, <2>4, <2>5
         DEF AppendTerminal, Leave, TrailInv, Declared, Governed, Conversing, Trail!IntentOf
<1>11. CASE RenderRefused
  BY <1>11, RunAssumption DEF TypeOK, ProcessInv, TrailInv, Declared, Governed, Conversing,
       Trail!OnRecord, Trail!IntentOf, Terminal, RenderRefused, Leave, evidenceVars
<1>12. CASE Crash
  BY <1>12, RunAssumption DEF TypeOK, ProcessInv, TrailInv, Declared, Governed, Conversing,
       Trail!OnRecord, Trail!IntentOf, Terminal, Crash, Leave, evidenceVars
<1>13. CASE Snapshot
  BY <1>13 DEF TypeOK, ProcessInv, TrailInv, Declared, Governed, Conversing, Trail!OnRecord,
       Trail!IntentOf, Terminal, Snapshot, sessionVars, evidenceVars
<1>14. CASE Launch
  BY <1>14 DEF TypeOK, ProcessInv, TrailInv, Declared, Governed, Conversing, Trail!OnRecord,
       Trail!IntentOf, Terminal, Launch, runVars, evidenceVars
<1>15. CASE LaunchFails
  BY <1>15 DEF TypeOK, ProcessInv, TrailInv, Declared, Governed, Conversing, Trail!OnRecord,
       Trail!IntentOf, Terminal, LaunchFails, sessionVars, evidenceVars
<1>16. CASE Proceed
  BY <1>16 DEF TypeOK, ProcessInv, TrailInv, Declared, Governed, Conversing, Trail!OnRecord,
       Trail!IntentOf, Terminal, Proceed, Following, runVars, evidenceVars
<1>17. CASE Skip
  BY <1>17 DEF TypeOK, ProcessInv, TrailInv, Declared, Governed, Conversing, Trail!OnRecord,
       Trail!IntentOf, Terminal, Skip, runVars, evidenceVars
<1>18. CASE Fail
  BY <1>18 DEF TypeOK, ProcessInv, TrailInv, Declared, Governed, Conversing, Trail!OnRecord,
       Trail!IntentOf, Terminal, Fail, GiveUp, sessionVars, evidenceVars
<1>19. CASE Stall
  BY <1>19 DEF TypeOK, ProcessInv, TrailInv, Declared, Governed, Conversing, Trail!OnRecord,
       Trail!IntentOf, Terminal, Stall, GiveUp, sessionVars, evidenceVars
<1>20. CASE Close
  BY <1>20 DEF TypeOK, ProcessInv, TrailInv, Declared, Governed, Conversing, Trail!OnRecord,
       Trail!IntentOf, Terminal, Close, runVars, sessionVars, evidenceVars
<1>21. CASE Check
  BY <1>21 DEF TypeOK, ProcessInv, TrailInv, Declared, Governed, Conversing, Trail!OnRecord,
       Trail!IntentOf, Terminal, Check, sessionVars, evidenceVars
<1>22. CASE Validate
  BY <1>22 DEF TypeOK, ProcessInv, TrailInv, Declared, Governed, Conversing, Trail!OnRecord,
       Trail!IntentOf, Terminal, Validate, sessionVars, evidenceVars
<1>23. ASSUME NEW e \in Edits, Edit(e) PROVE TrailInv'
  BY <1>23 DEF TypeOK, ProcessInv, TrailInv, Declared, Governed, Conversing, Trail!OnRecord,
       Trail!IntentOf, Terminal, Edit, Idle, runVars, sessionVars, evidenceVars
<1>24. CASE Commit
  BY <1>24 DEF TypeOK, ProcessInv, TrailInv, Declared, Governed, Conversing, Trail!OnRecord,
       Trail!IntentOf, Terminal, Commit, Idle, runVars, sessionVars, evidenceVars
<1>25. CASE UNCHANGED vars
  BY <1>25 DEF TypeOK, ProcessInv, TrailInv, Declared, Governed, Conversing, Trail!OnRecord,
       Trail!IntentOf, Terminal, vars
<1> QED BY <1>1, <1>2, <1>3, <1>4, <1>5, <1>6, <1>7, <1>8, <1>9, <1>10, <1>11, <1>12, <1>13,
     <1>14, <1>15, <1>16, <1>17, <1>18, <1>19, <1>20, <1>21, <1>22, <1>23, <1>24, <1>25 DEF
     Next, Advance

\* What no step but three does: put on record, or write outside the target.
LEMMA QuietSteps ==
    ASSUME TypeOK, [Next]_vars, ~ AppendIntent, ~ AppendTerminal, \A r \in Runs : ~ Touch(r)
    PROVE  UNCHANGED <<history, Touched>> /\ disk'.rest = disk.rest
<1>1. ASSUME NEW e \in Edits, Edit(e) PROVE UNCHANGED <<history, Touched>> /\ disk'.rest = disk.rest
  BY <1>1, RunAssumption DEF Edit, TypeOK, Trees, Touched, evidenceVars
<1>2. CASE UNCHANGED <<history, disk>>
  BY <1>2 DEF Touched
<1> QED
  BY <1>1, <1>2
     DEF Next, Advance, Refuse, Clear, Exit, Emit, PumpEnds, WriteIntent, Snapshot, Launch,
         LaunchFails, Proceed, Skip, Fail, Stall, GiveUp, Close, Check, Validate, Finalize,
         RenderRefused, Crash, Commit, evidenceVars, vars

LEMMA MaterializedStep ==
    TypeOK /\ ProcessInv /\ ScopeInv /\ TrailInv /\ MaterializedStaysInScope /\ [Next]_vars
        => MaterializedStaysInScope'
<1> SUFFICES ASSUME TypeOK, ProcessInv, ScopeInv, TrailInv, MaterializedStaysInScope, [Next]_vars
             PROVE  MaterializedStaysInScope'
  OBVIOUS
<1>1. ASSUME NEW r \in Runs, Touch(r) PROVE MaterializedStaysInScope'
  <2>1. \A i \in DOMAIN history :
           history[i].outcome = "materialized" => history[i].run \notin live
    BY DEF TrailInv, Trail!IntentOf
  <2>2. disk'.rest \subseteq disk.rest \cup {r} /\ r \in live /\ history' = history
    BY <1>1 DEF Touch, TypeOK, Trees, evidenceVars
  <2> QED BY <2>1, <2>2 DEF MaterializedStaysInScope
<1>2. CASE AppendIntent
  <2>1. latest = Trail!IntentOf(run) /\ run \in Runs /\ disk' = disk
    BY <1>2 DEF AppendIntent, TypeOK, TrailInv
  <2>2. latest \in Trail!Records /\ latest.outcome # "materialized"
    BY <2>1, IntentType DEF Trail!IntentOf
  <2> QED BY <1>2, <2>1, <2>2, AppendedRecord DEF AppendIntent, TypeOK, MaterializedStaysInScope
<1>3. CASE AppendTerminal
  <2>1. latest = Terminal /\ disk' = disk
    BY <1>3 DEF AppendTerminal, TrailInv
  <2>2. latest \in Trail!Records
    BY <1>3, <2>1, TerminalType DEF AppendTerminal
  <2>3. latest.outcome = "materialized" => latest.run \notin disk.rest
    BY <2>1 DEF Terminal, ScopeInv
  <2> QED BY <1>3, <2>1, <2>2, <2>3, AppendedRecord DEF AppendTerminal, TypeOK, MaterializedStaysInScope
<1>4. CASE UNCHANGED history /\ disk'.rest = disk.rest
  BY <1>4 DEF MaterializedStaysInScope
<1> QED BY <1>1, <1>2, <1>3, <1>4, QuietSteps

LEMMA InvInit == Init => IInv
<1> SUFFICES ASSUME Init PROVE IInv
  OBVIOUS
<1>1. history = <<>> /\ DOMAIN history = {}
  BY DEF Init
<1>2. GateInv /\ ProcessInv /\ ScopeInv
  BY RunAssumption DEF Init, GateInv, ProcessInv, ScopeInv, Governed, Unattempted, Observed, Conversing, Touched
<1>3. TrailInv /\ MaterializedStaysInScope
  BY <1>1 DEF Init, TrailInv, Declared, Governed, Conversing, MaterializedStaysInScope
<1> QED BY <1>2, <1>3, TypeInit DEF IInv

\* Every state of the adapter satisfies the inductive invariant.
THEOREM Invariance == Spec => []IInv
<1>1. Init => IInv
  BY InvInit
<1>2. IInv /\ [Next]_vars => IInv'
  BY TypeStep, GateStep, ProcessStep, ScopeStep, TrailStep, MaterializedStep DEF IInv
<1> QED BY <1>1, <1>2, PTL DEF Spec

-----------------------------------------------------------------------------
(* The theorems                                                            *)

\* The variables of the adapter keep their types, and the reader's queue its bound.
THEOREM TypeCorrect == Spec => []TypeOK
BY Invariance, PTL DEF IInv

\* Whatever any runtime has written, HEAD alone authorizes: no worktree edit and no
\* two narrow approvals do (gate.evaluate), though the runtime outlives the adapter.
THEOREM TouchesRestOnHead == Spec => []TouchesAreAuthorized
<1>1. IInv => TouchesAreAuthorized
  BY DEF IInv, GateInv, ScopeInv, Authorized, TouchesAreAuthorized
<1> QED BY <1>1, Invariance, PTL

\* The recorded guidance restores every edit that a person had in the target, with a
\* backup or without (gate._git_safety, validation.rollback_guidance_for).
THEOREM EditsCanBeRestored == Spec => []RollbackKeepsEdits
<1>1. IInv => RollbackKeepsEdits
  BY DEF IInv, GateInv, RollbackKeepsEdits
<1> QED BY <1>1, Invariance, PTL

\* A run recorded as "materialized" has written nowhere but in its target, and never
\* will: its runtime was dead before the second snapshot (runner._converse, _snapshot).
THEOREM MaterializedMeansInScope == Spec => []MaterializedStaysInScope
BY Invariance, PTL DEF IInv

\* The history of evidence.py is the audit trail it promises to be, across crashes of
\* the adapter and runtimes that outlive it.
THEOREM ImplementsAuditTrail == Spec => RefinesAuditTrail
<1>1. Init => Trail!Init
  BY DEF Init, Trail!Init, Touched
<1>2. IInv /\ [Next]_vars => [Trail!Next]_<<history, Touched>>
  <2> SUFFICES ASSUME IInv, [Next]_vars PROVE [Trail!Next]_<<history, Touched>>
    OBVIOUS
  <2> USE DEF IInv
  <2>1. ASSUME NEW r \in Runs, Touch(r) PROVE Trail!Next
    <3>1. r \in live \cap attempted /\ history' = history
      BY <2>1 DEF Touch, evidenceVars
    <3>2. Trail!OnRecord(Trail!IntentOf(r)) /\ ~ Trail!Ended(r)
      BY <3>1 DEF TrailInv, Trail!Ended
    <3>3. Touched' = Touched \cup {r}
      BY <2>1 DEF Touch, TypeOK, Trees, Touched
    <3> QED BY <3>1, <3>2, <3>3 DEF Trail!Next, Trail!Touch
  <2>2. CASE AppendIntent
    <3>1. run \in Runs /\ latest = Trail!IntentOf(run) /\ \A i \in DOMAIN history : history[i].run # run
      BY <2>2 DEF AppendIntent, TypeOK, TrailInv
    <3>2. ~ Trail!OnRecord(Trail!IntentOf(run)) /\ ~ Trail!Ended(run)
      BY <3>1 DEF Trail!OnRecord, Trail!Ended, Trail!IntentOf
    <3>3. Touched' = Touched
      BY <2>2 DEF AppendIntent, Touched
    <3> QED BY <2>2, <3>1, <3>2, <3>3 DEF AppendIntent, Trail!Next, Trail!Intend
  <2>3. CASE AppendTerminal
    <3>1. latest = Terminal /\ latest \in Trail!Records /\ latest.run = run
      BY <2>3, TerminalType DEF AppendTerminal, TrailInv, Terminal
    <3>2. latest # Trail!IntentOf(run)
      BY <2>3, <3>1 DEF AppendTerminal, ProcessInv, Terminal, Trail!IntentOf
    <3>3. ~ Trail!Ended(run)
      BY DEF TrailInv, Trail!Ended
    <3>4. latest.attempted => Trail!OnRecord(Trail!IntentOf(run))
      BY <3>1 DEF Terminal, TrailInv
    <3>5. ~ latest.attempted => run \notin Touched
      BY <3>1 DEF Terminal, ScopeInv
    <3>6. Touched' = Touched /\ history' = Append(history, latest)
      BY <2>3 DEF AppendTerminal, Touched
    <3>7. Trail!End(latest)
      BY <3>1, <3>2, <3>3, <3>4, <3>5, <3>6 DEF Trail!End
    <3> QED BY <3>1, <3>7 DEF Trail!Next
  <2> QED BY <2>1, <2>2, <2>3, QuietSteps
<1> QED BY <1>1, <1>2, Invariance, PTL DEF Spec, RefinesAuditTrail, Trail!Spec

\* What the trail lets an auditor conclude holds of the history, since it is one.
THEOREM AuditorsCanConclude == Spec => []HistoryIsConclusive
BY ImplementsAuditTrail, Trail!TrailIsConclusive, PTL DEF RefinesAuditTrail, HistoryIsConclusive
=============================================================================
