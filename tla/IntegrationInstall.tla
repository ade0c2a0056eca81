------------------------ MODULE IntegrationInstall ------------------------
(* `seshat integrations apply` (integrations/installer.py): one run takes   *)
(* the components of a profile, or of a derived selection, one after the    *)
(* other, moves each to the version that was resolved for it, and then      *)
(* writes the lock: a record of what landed.  Nothing holds the steps of a  *)
(* run together.  A run may crash between any two of them, a package        *)
(* install may move the other packages of its environment, and the next     *)
(* run judges what it finds by marker files and package metadata only.      *)
(*                                                                          *)
(* One run at a time, and people keep their hands off while it runs; a      *)
(* version is a value without order (the code asks only whether two differ).*)
EXTENDS Naturals, FiniteSets, Functions

CONSTANTS
    Pypi,       \* packages, installed into the environment of a profile
    Github,     \* skill trees, cloned at a ref
    Mcp,        \* servers, registered in the MCP config
    Versions,   \* versions of packages and servers, refs of trees
    None,       \* no version: absent, unmarked, unresolved
    Foreign,    \* an MCP entry that an operator wrote
    Envs,       \* profiles; each has an environment of its own
    FullEnv,    \* the default profile, the union of the others
    Base,       \* the profile that introduces a component
    Profile,    \* the components of a profile
    Derived,    \* the selections that the workspace's own files derive
    Order,      \* the place of a component in the catalog
    MaxRuns,    \* bound: runs of apply
    MaxHands    \* bound: interventions of people

Components == Pypi \cup Github \cup Mcp
Coordinates == Versions \cup {None}

ASSUME KindAssumption ==
    /\ Pypi \cap Github = {} /\ Pypi \cap Mcp = {} /\ Github \cap Mcp = {}
ASSUME ValueAssumption == None \notin Versions /\ Foreign \notin Coordinates
ASSUME CatalogAssumption ==
    /\ FullEnv \in Envs
    /\ Base \in [Components -> Envs]
    /\ Profile \in [Envs -> SUBSET Components]
    /\ Derived \subseteq SUBSET Components
    /\ Order \in [Components -> Nat]
    /\ MaxRuns \in Nat /\ MaxHands \in Nat

VARIABLES
    interpreter,  \* environments that have their interpreter
    dists,        \* the version in a package's metadata, per environment
    trees,        \* the skill directories
    entries,      \* the servers' entries in the MCP config
    marks,        \* the servers' marker files
    lock,         \* the lock file: the recorded version of each component
    phase,        \* where the run is
    derived,      \* whether the run is for a derived selection
    selection,    \* the components of the run
    envs,         \* the environment each of them goes into
    todo,         \* those whose turn has not come
    at, want,     \* the component in work and the version resolved for it
    previous,     \* the old tree in the scratch directory
    rows,         \* what the run reports of each component
    landed,       \* what the run is going to record
    found,        \* history: trees and servers that were installed at its start
    seen,         \* history: the versions a component had on disk during the run
    runs, hands   \* counters for the bounds

disk == <<interpreter, dists, trees, entries, marks>>
job == <<derived, selection, envs, found>>
vars == <<disk, lock, phase, job, todo, at, want, previous, rows, landed,
          seen, runs, hands>>

Trees == [ref : Coordinates, whole : BOOLEAN, marker : Coordinates]
NoTree == [ref |-> None, whole |-> FALSE, marker |-> None]
Statuses == {"none", "fine", "moved", "needs action"}
Phases == {"idle", "next", "handler", "pip", "swap", "activate", "mark", "record"}

-----------------------------------------------------------------------------
(* What is on disk                                                         *)

\* A tree counts with its marker and every required path.
TreeInstalled(t) == t.marker # None /\ t.whole

\* Presence is read from metadata and marker files, nothing is executed.
InstalledIn(c, e) ==
    \/ c \in Pypi /\ e \in interpreter /\ dists[e][c] # None
    \/ c \in Github /\ TreeInstalled(trees[c])
    \/ c \in Mcp /\ marks[c] # None

Installed(c) == InstalledIn(c, envs[c])

\* The version or ref that metadata or marker names.
Coordinate(c) ==
    IF c \in Pypi THEN dists[envs[c]][c]
    ELSE IF c \in Github THEN trees[c].marker
    ELSE marks[c]

\* Slip: a failed install is recorded at the version that was wanted.
OnDiskAsWanted(c) == IF Installed(c) THEN want ELSE None

\* What the lock should say of a component that did not land this time.
OnDisk(c) == IF Installed(c) THEN Coordinate(c) ELSE None

\* Every version of a component on disk, in whatever environment.
Everywhere(c) ==
    (IF c \in Pypi THEN {dists[e][c] : e \in Envs}
     ELSE IF c \in Github THEN {trees[c].marker}
     ELSE {marks[c]}) \ {None}

\* A derived run goes where the component already is, else to its base profile.
EnvOf(c) ==
    IF ~InstalledIn(c, Base[c]) /\ InstalledIn(c, FullEnv) THEN FullEnv ELSE Base[c]

-----------------------------------------------------------------------------
(* A run                                                                   *)

\* A run is watched for what it finds and puts on disk of its components.
Watch ==
    seen' = [c \in Components |->
                IF c \in selection' THEN seen[c] \cup Everywhere(c)' ELSE {}]

Start(d, s, env) ==
    /\ phase = "idle"
    /\ runs < MaxRuns
    /\ runs' = runs + 1
    /\ phase' = "next"
    /\ derived' = d
    /\ selection' = s
    /\ envs' = env
    /\ todo' = s
    /\ found' = {c \in s \ Pypi : InstalledIn(c, env[c])}
    /\ UNCHANGED <<disk, lock, at, want, previous, rows, landed, hands>>
    /\ Watch

ApplyProfile(e) == Start(FALSE, Profile[e], [c \in Components |-> e])
ApplyDerived(s) == Start(TRUE, s, [c \in Components |-> EnvOf(c)])

\* Slip: the request of one component is still there when the next one begins.
EndsInWork(c, status, coordinate) ==
    /\ rows' = [rows EXCEPT ![c] = status]
    /\ landed' = [landed EXCEPT ![c] = coordinate]
    /\ todo' = todo \ {c}
    /\ phase' = "next"
    /\ UNCHANGED <<at, want, lock, job, runs, hands>>

Ends(c, status, coordinate) ==
    /\ rows' = [rows EXCEPT ![c] = status]
    /\ landed' = [landed EXCEPT ![c] = coordinate]
    /\ todo' = todo \ {c}
    /\ phase' = "next"
    /\ at' = None
    /\ want' = None
    /\ UNCHANGED <<lock, job, runs, hands>>

Turn(c) ==
    /\ phase = "next"
    /\ c \in todo
    /\ \A d \in todo : Order[c] <= Order[d]

\* No version, or one that the compatibility policy rejects.
Unresolved(c) ==
    /\ Turn(c)
    /\ Ends(c, "needs action", None)
    /\ UNCHANGED <<disk, previous>>
    /\ Watch

\* Installed at the resolved version v already: what was resolved is recorded.  Metadata
\* and markers that name no version would agree with any v; here all name one.
Keep(c, v) ==
    /\ Turn(c)
    /\ Installed(c)
    /\ Coordinate(c) = v
    /\ Ends(c, "fine", v)
    /\ UNCHANGED <<disk, previous>>
    /\ Watch

\* Absent, or installed at another version than the one resolved.
Begin(c, v) ==
    /\ Turn(c)
    /\ ~(Installed(c) /\ Coordinate(c) = v)
    /\ at' = c
    /\ want' = v
    /\ phase' = "handler"
    /\ UNCHANGED <<disk, lock, job, todo, previous, rows, landed, runs, hands>>
    /\ Watch

Handles(c) == phase = "handler" /\ at = c

\* The launcher is not on PATH; the environment cannot be made; the directory is there
\* but incomplete, the clone fails, is at another commit or lacks a required path; the
\* MCP config cannot be read or written: nothing was changed.
HandlerFails(c) ==
    /\ Handles(c)
    /\ Ends(c, "needs action", OnDisk(c))
    /\ UNCHANGED <<disk, previous>>
    /\ Watch

-----------------------------------------------------------------------------
(* Packages                                                                *)

MakeEnv(c) ==
    /\ Handles(c)
    /\ c \in Pypi
    /\ envs[c] \notin interpreter
    /\ interpreter' = interpreter \cup {envs[c]}
    /\ phase' = "pip"
    /\ UNCHANGED <<dists, trees, entries, marks, lock, job, todo, at, want,
                   previous, rows, landed, runs, hands>>
    /\ Watch

Pips(c) ==
    /\ phase \in {"handler", "pip"}
    /\ at = c
    /\ c \in Pypi
    /\ envs[c] \in interpreter

\* The package is at its version; others may have come with it or have moved.
PipInstalls(c) ==
    /\ Pips(c)
    /\ \E ds \in [Pypi -> Coordinates] :
        /\ ds[c] = want
        /\ \A d \in Pypi : dists[envs[c]][d] # None => ds[d] # None
        /\ dists' = [dists EXCEPT ![envs[c]] = ds]
    /\ Ends(c, "fine", want)
    /\ UNCHANGED <<interpreter, trees, entries, marks, previous>>
    /\ Watch

\* A failed install may have replaced some packages and removed others.
PipFails(c) ==
    /\ Pips(c)
    /\ \E ds \in [Pypi -> Coordinates] :
        /\ dists' = [dists EXCEPT ![envs[c]] = ds]
        /\ Ends(c, "needs action", ds[c])
    /\ UNCHANGED <<interpreter, trees, entries, marks, previous>>
    /\ Watch

-----------------------------------------------------------------------------
(* Skill trees                                                             *)

Place(c, t) == trees' = [trees EXCEPT ![c] = t]
Swaps(c) == phase \in {"swap", "activate"} /\ at = c /\ c \in Github

\* The clone is staged and validated; an incomplete directory would have been refused.
Stage(c) ==
    /\ Handles(c)
    /\ c \in Github
    /\ trees[c] # NoTree => Installed(c)
    /\ phase' = "swap"
    /\ UNCHANGED <<disk, lock, job, todo, at, want, previous, rows, landed, runs, hands>>
    /\ Watch

MoveAside(c) ==
    /\ phase = "swap"
    /\ Swaps(c)
    /\ trees[c] # NoTree
    /\ previous' = trees[c]
    /\ Place(c, NoTree)
    /\ phase' = "activate"
    /\ UNCHANGED <<interpreter, dists, entries, marks, lock, job, todo, at, want,
                   rows, landed, runs, hands>>
    /\ Watch

\* Slip: the old tree's marker is carried over until the new one is written.
StagedAsMarked(c) == [ref |-> want, whole |-> TRUE, marker |-> previous.marker]

\* A validated clone has no marker yet.
Staged(c) == [ref |-> want, whole |-> TRUE, marker |-> None]

Activate(c) ==
    /\ Swaps(c)
    /\ trees[c] = NoTree
    /\ Place(c, Staged(c))
    /\ phase' = "mark"
    /\ UNCHANGED <<interpreter, dists, entries, marks, lock, job, todo, at, want,
                   previous, rows, landed, runs, hands>>
    /\ Watch

\* Slip: a failed swap leaves the directory as the failure left it.
RestoredNever(c) == trees[c]

\* The old tree is moved back if the swap failed without it.
Restored(c) == IF trees[c] = NoTree THEN previous ELSE trees[c]

SwapFails(c) ==
    /\ Swaps(c)
    /\ Place(c, Restored(c))
    /\ Ends(c, "needs action", IF TreeInstalled(Restored(c)) THEN Restored(c).marker ELSE None)
    /\ previous' = NoTree
    /\ UNCHANGED <<interpreter, dists, entries, marks>>
    /\ Watch

\* The marker is written last, and the scratch directory removed with the old tree.
MarkTree(c) ==
    /\ phase = "mark"
    /\ at = c
    /\ c \in Github
    /\ Place(c, [trees[c] EXCEPT !.marker = want])
    /\ Ends(c, "fine", want)
    /\ previous' = NoTree
    /\ UNCHANGED <<interpreter, dists, entries, marks>>
    /\ Watch

-----------------------------------------------------------------------------
(* MCP servers                                                             *)

\* The entry is the one that was written for the version the marker names.
OwnOlder(c) == marks[c] # None /\ entries[c] = marks[c]

\* The entry is there; its marker need not be.
AlreadyRegistered(c) ==
    /\ Handles(c)
    /\ c \in Mcp
    /\ entries[c] = want
    /\ Ends(c, "fine", OnDisk(c))
    /\ UNCHANGED <<disk, previous>>
    /\ Watch

Conflict(c) ==
    /\ Handles(c)
    /\ c \in Mcp
    /\ entries[c] \notin {None, want}
    /\ ~OwnOlder(c)
    /\ Ends(c, "needs action", OnDisk(c))
    /\ UNCHANGED <<disk, previous>>
    /\ Watch

Register(c) ==
    /\ Handles(c)
    /\ c \in Mcp
    /\ entries[c] = None \/ (entries[c] # want /\ OwnOlder(c))
    /\ entries' = [entries EXCEPT ![c] = want]
    /\ phase' = "mark"
    /\ UNCHANGED <<interpreter, dists, trees, marks, lock, job, todo, at, want,
                   previous, rows, landed, runs, hands>>
    /\ Watch

MarkServer(c) ==
    /\ phase = "mark"
    /\ at = c
    /\ c \in Mcp
    /\ marks' = [marks EXCEPT ![c] = want]
    /\ Ends(c, "fine", want)
    /\ UNCHANGED <<interpreter, dists, trees, entries, previous>>
    /\ Watch

-----------------------------------------------------------------------------
(* The end of a run                                                        *)

\* Slip: nothing is read again after the last install.
MovedNever == {}

\* Packages that some later install of this run has moved.  A row that failed is not
\* looked at again, and a package that has gone is passed over.
Moved ==
    {c \in selection \cap Pypi :
        /\ rows[c] = "fine"
        /\ landed[c] # None
        /\ Coordinate(c) \notin {None, landed[c]}}

Verify ==
    /\ phase = "next"
    /\ todo = {}
    /\ phase' = "record"
    /\ rows' = [c \in Components |-> IF c \in Moved THEN "moved" ELSE rows[c]]
    /\ landed' = [c \in Components |-> IF c \in Moved THEN Coordinate(c) ELSE landed[c]]
    /\ UNCHANGED <<disk, lock, job, todo, at, want, previous, runs, hands>>
    /\ Watch

Over ==
    /\ phase' = "idle"
    /\ derived' = FALSE
    /\ selection' = {}
    /\ envs' = [c \in Components |-> FullEnv]
    /\ todo' = {}
    /\ at' = None
    /\ want' = None
    /\ previous' = NoTree
    /\ rows' = [c \in Components |-> "none"]
    /\ landed' = [c \in Components |-> None]
    /\ found' = {}
    /\ UNCHANGED <<disk, runs, hands>>
    /\ Watch

\* A run in which nothing landed writes nothing.  A derived run keeps the records of the
\* components it did not touch, a profile run writes the whole lock anew.
Recorded ==
    IF \A c \in Components : landed[c] = None THEN lock
    ELSE [c \in Components |->
            IF derived /\ landed[c] = None THEN lock[c] ELSE landed[c]]

Record == phase = "record" /\ lock' = Recorded /\ Over

\* The process dies, or an unexpected error ends the run; the scratch directory is left
\* behind and never read again.
Crash == phase # "idle" /\ UNCHANGED lock /\ Over

-----------------------------------------------------------------------------
(* People, between two runs                                                *)

Intervenes ==
    /\ phase = "idle"
    /\ 0 < runs /\ runs < MaxRuns /\ hands < MaxHands
    /\ hands' = hands + 1
    /\ UNCHANGED <<lock, phase, job, todo, at, want, previous, rows, landed, runs>>

EditsConfig(c) ==
    /\ Intervenes
    /\ \E x \in {None, Foreign} \ {entries[c]} : entries' = [entries EXCEPT ![c] = x]
    /\ UNCHANGED <<interpreter, dists, trees, marks>>
    /\ Watch

\* Deletes a skill directory, or a required path in it.
DeletesTree(c) ==
    /\ Intervenes
    /\ trees[c] # NoTree
    /\ \/ Place(c, NoTree)
       \/ Place(c, [ref |-> trees[c].ref, whole |-> FALSE, marker |-> trees[c].marker])
    /\ UNCHANGED <<interpreter, dists, entries, marks>>
    /\ Watch

-----------------------------------------------------------------------------

Init ==
    /\ interpreter = {}
    /\ dists = [e \in Envs |-> [c \in Pypi |-> None]]
    /\ trees = [c \in Github |-> NoTree]
    /\ entries \in [Mcp -> {None, Foreign}]
    /\ marks = [c \in Mcp |-> None]
    /\ lock = [c \in Components |-> None]
    /\ phase = "idle"
    /\ derived = FALSE
    /\ selection = {}
    /\ envs = [c \in Components |-> FullEnv]
    /\ todo = {}
    /\ at = None
    /\ want = None
    /\ previous = NoTree
    /\ rows = [c \in Components |-> "none"]
    /\ landed = [c \in Components |-> None]
    /\ found = {}
    /\ seen = [c \in Components |-> {}]
    /\ runs = 0
    /\ hands = 0

Handler(c) ==
    \/ Unresolved(c)
    \/ \E v \in Versions : Keep(c, v) \/ Begin(c, v)
    \/ HandlerFails(c)
    \/ MakeEnv(c) \/ PipInstalls(c) \/ PipFails(c)
    \/ Stage(c) \/ MoveAside(c) \/ Activate(c) \/ SwapFails(c) \/ MarkTree(c)
    \/ AlreadyRegistered(c) \/ Conflict(c) \/ Register(c) \/ MarkServer(c)

Person ==
    \/ \E c \in Mcp : EditsConfig(c)
    \/ \E c \in Github : DeletesTree(c)

Next ==
    \/ \E e \in Envs : ApplyProfile(e)
    \/ \E s \in Derived : ApplyDerived(s)
    \/ \E c \in Components : Handler(c)
    \/ Verify \/ Record \/ Crash
    \/ Person

Spec == Init /\ [][Next]_vars

-----------------------------------------------------------------------------
(* Properties                                                              *)

\* Every variable has its type, and only the component in work is between two phases.
TypeOK ==
    /\ interpreter \subseteq Envs
    /\ dists \in [Envs -> [Pypi -> Coordinates]]
    /\ trees \in [Github -> Trees]
    /\ entries \in [Mcp -> Coordinates \cup {Foreign}]
    /\ marks \in [Mcp -> Coordinates]
    /\ lock \in [Components -> Coordinates]
    /\ phase \in Phases
    /\ derived \in BOOLEAN
    /\ selection \subseteq Components
    /\ envs \in [Components -> Envs]
    /\ todo \subseteq selection
    /\ at \in Components \cup {None}
    /\ want \in Coordinates
    /\ previous \in Trees
    /\ rows \in [Components -> Statuses]
    /\ landed \in [Components -> Coordinates]
    /\ found \subseteq Components
    /\ seen \in [Components -> SUBSET Versions]
    /\ runs \in Nat
    /\ hands \in Nat
    /\ phase \in {"handler", "pip", "swap", "activate", "mark"} <=> want # None
    /\ want # None => at \in todo

\* A skill directory's marker names the ref its files are of, also after a crash in the
\* middle of an upgrade (handlers.py:165-182: the marker is written last, into the new
\* tree).
MarkerNamesTheTree ==
    \A c \in Github : trees[c].marker # None => trees[c].marker = trees[c].ref

\* A run that does not crash loses no tree and no registration that it found: between two
\* components each of them is installed, at one version or another, also when a swap
\* failed (handlers.py:168-169, "a failed upgrade never leaves the component missing").
UpgradesLoseNothing ==
    phase \in {"next", "record"} => \A c \in found : Installed(c)

\* The lock is evidence, not intent (lockfile.py, coordinates.py:68-70): whatever fails or
\* moves, a version it comes to name is one the component had on disk during the run.
LockIsEvidence ==
    [][\A c \in Components : lock'[c] \notin {None, lock[c]} => lock'[c] \in seen[c]]_vars

\* What a run records of the components it reports as present, installed or moved is what
\* is on disk after its last install (installer.py:552-556), unless the package has gone.
RecordTellsTheDisk ==
    [][Record =>
        \A c \in selection :
            (/\ rows[c] \in {"fine", "moved"}
             /\ landed[c] # None
             /\ Coordinate(c) # None)
            => lock'[c] = Coordinate(c)]_vars

\* A run never replaces an entry that an operator wrote (mcp_config.py:11-15), whatever
\* it registered before.
OperatorsEntryStays ==
    [][\A c \in Mcp : phase # "idle" /\ entries[c] = Foreign => entries'[c] = Foreign]_vars
=============================================================================
