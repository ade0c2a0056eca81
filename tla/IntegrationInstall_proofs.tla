---------------------- MODULE IntegrationInstall_proofs ----------------------
(***************************************************************************)
(* Proofs about IntegrationInstall, for any catalog, any number of         *)
(* versions, runs and interventions.                                       *)
(*                                                                         *)
(* The inductive invariant follows the component in work: which kind it is *)
(* in which phase, where its old tree is while it is being swapped, and    *)
(* that whatever the run is going to record has been seen on disk.         *)
(***************************************************************************)
EXTENDS IntegrationInstall, TLAPS

InWork == {"handler", "pip", "swap", "activate", "mark"}

WorkInv ==
    /\ phase = "pip" => at \in Pypi
    /\ phase \in {"swap", "activate"} => at \in Github
    /\ phase = "mark" => at \in Github \cup Mcp
    /\ phase = "idle" => selection = {}
    /\ phase = "record" => todo = {}
    /\ \A c \in Components : landed[c] # None => c \in selection

TreeInv ==
    /\ MarkerNamesTheTree
    /\ previous.marker # None => previous.marker = previous.ref
    /\ phase = "activate" => trees[at] = NoTree
    /\ phase = "mark" /\ at \in Github => trees[at].ref = want /\ trees[at].whole

FoundInv ==
    /\ found \subseteq selection \ Pypi
    /\ \A c \in found : Installed(c) \/ (phase \in {"activate", "mark"} /\ at = c)
    /\ phase = "activate" /\ at \in found => TreeInstalled(previous)

EvidenceInv ==
    /\ \A c \in selection : Everywhere(c) \subseteq seen[c]
    /\ \A c \in Components : landed[c] # None => landed[c] \in seen[c]

Agrees(c) == landed[c] # None /\ Coordinate(c) # None => landed[c] = Coordinate(c)

RecordInv ==
    /\ \A c \in selection \ (todo \cup Pypi) : rows[c] = "fine" => Agrees(c)
    /\ \A c \in Components : rows[c] = "moved" => phase = "record" /\ c \in Pypi
    /\ phase = "record" =>
          \A c \in selection \cap Pypi : rows[c] \in {"fine", "moved"} => Agrees(c)

IInv == TypeOK /\ WorkInv /\ TreeInv /\ FoundInv /\ EvidenceInv /\ RecordInv

-----------------------------------------------------------------------------
(* Types                                                                   *)

\* Every step of a run or of a person is watched.
LEMMA Watched == Next => Watch
BY DEF Next, Handler, Person, ApplyProfile, ApplyDerived, Start, Unresolved, Keep, Begin,
       HandlerFails, MakeEnv, PipInstalls, PipFails, Stage, MoveAside, Activate, SwapFails,
       MarkTree, AlreadyRegistered, Conflict, Register, MarkServer, Verify, Record, Crash,
       Over, EditsConfig, DeletesTree

\* What is seen of a component is versions.
LEMMA SeenType ==
    ASSUME TypeOK, Watch,
           dists' \in [Envs -> [Pypi -> Coordinates]],
           trees' \in [Github -> Trees],
           marks' \in [Mcp -> Coordinates]
    PROVE  seen' \in [Components -> SUBSET Versions]
<1>1. ASSUME NEW c \in Components PROVE Everywhere(c)' \subseteq Versions
  BY DEF Everywhere, Components, Coordinates, Trees
<1> QED BY <1>1 DEF Watch, TypeOK

\* Everything but the history of what was seen.
TypesOfRun ==
    /\ interpreter \subseteq Envs
    /\ dists \in [Envs -> [Pypi -> Coordinates]]
    /\ trees \in [Github -> Trees]
    /\ entries \in [Mcp -> Coordinates \cup {Foreign}]
    /\ marks \in [Mcp -> Coordinates]
    /\ lock \in [Components -> Coordinates]
    /\ phase \in Phases
    /\ derived \in BOOLEAN
    /\ selection \subseteq Components
    /\ envs \in [Components -> Envs]
    /\ todo \subseteq selection
    /\ at \in Components \cup {None}
    /\ want \in Coordinates
    /\ previous \in Trees
    /\ rows \in [Components -> Statuses]
    /\ landed \in [Components -> Coordinates]
    /\ found \subseteq Components
    /\ runs \in Nat
    /\ hands \in Nat
    /\ phase \in InWork <=> want # None
    /\ want # None => at \in todo

\* Metadata and markers name versions.
LEMMA CoordinateType ==
    ASSUME TypesOfRun, NEW c \in Components
    PROVE  Coordinate(c) \in Coordinates /\ OnDisk(c) \in Coordinates
BY DEF TypesOfRun, Coordinate, OnDisk, Components, Trees, Coordinates

LEMMA EnvType ==
    ASSUME NEW c \in Components PROVE EnvOf(c) \in Envs
BY CatalogAssumption DEF EnvOf

LEMMA NoTreeType == NoTree \in Trees
BY DEF NoTree, Trees, Coordinates

\* The start of a run, and the end of a component's turn.
LEMMA StartType ==
    ASSUME TypesOfRun, NEW d \in BOOLEAN, NEW s \in SUBSET Components,
           NEW env \in [Components -> Envs], Start(d, s, env)
    PROVE  TypesOfRun'
BY DEF TypesOfRun, InWork, Phases, Start, disk

LEMMA EndsType ==
    ASSUME TypesOfRun, NEW c \in Components, NEW status \in Statuses, NEW l \in Coordinates,
           Ends(c, status, l),
           interpreter' = interpreter, entries' = entries,
           dists' \in [Envs -> [Pypi -> Coordinates]], trees' \in [Github -> Trees],
           marks' \in [Mcp -> Coordinates], previous' \in Trees
    PROVE  TypesOfRun'
BY DEF TypesOfRun, InWork, Phases, Coordinates, Ends, job

LEMMA RunTypesStep ==
    ASSUME TypesOfRun, [Next]_vars
    PROVE  TypesOfRun'
<1>1. ASSUME NEW e \in Envs, ApplyProfile(e), Watch PROVE TypesOfRun'
  <2>1. Profile[e] \in SUBSET Components /\ [c \in Components |-> e] \in [Components -> Envs]
    BY CatalogAssumption
  <2> QED BY <1>1, <2>1, StartType DEF ApplyProfile
<1>2. ASSUME NEW s \in Derived, ApplyDerived(s), Watch PROVE TypesOfRun'
  <2>1. s \in SUBSET Components /\ [c \in Components |-> EnvOf(c)] \in [Components -> Envs]
    BY CatalogAssumption, EnvType
  <2> QED BY <1>2, <2>1, StartType DEF ApplyDerived
<1>3. ASSUME NEW c \in Components, Unresolved(c), Watch PROVE TypesOfRun'
  BY <1>3 DEF TypesOfRun, InWork, Statuses, Phases, Coordinates, Unresolved, Turn, Ends,
       disk, job
<1>4. ASSUME NEW c \in Components, NEW v \in Versions, Keep(c, v), Watch PROVE TypesOfRun'
  BY <1>4, CoordinateType DEF TypesOfRun, InWork, Statuses, Phases, Coordinates, Keep, Turn,
       Ends, disk, job
<1>5. ASSUME NEW c \in Components, NEW v \in Versions, Begin(c, v), Watch PROVE TypesOfRun'
  BY <1>5, ValueAssumption DEF TypesOfRun, InWork, Statuses, Phases, Coordinates, Begin,
       Turn, disk, job
<1>6. ASSUME NEW c \in Components, HandlerFails(c), Watch PROVE TypesOfRun'
  BY <1>6, CoordinateType DEF TypesOfRun, InWork, Statuses, Phases, Coordinates,
       HandlerFails, Handles, Ends, disk, job
<1>7. ASSUME NEW c \in Components, MakeEnv(c), Watch PROVE TypesOfRun'
  BY <1>7 DEF TypesOfRun, InWork, Statuses, Phases, MakeEnv, Handles, job
<1>8. ASSUME NEW c \in Components, PipInstalls(c), Watch PROVE TypesOfRun'
  <2>1. dists' \in [Envs -> [Pypi -> Coordinates]] /\ Ends(c, "fine", want)
    BY <1>8 DEF TypesOfRun, PipInstalls
  <2> QED BY <1>8, <2>1, EndsType DEF TypesOfRun, PipInstalls, Statuses
<1>9. ASSUME NEW c \in Components, PipFails(c), Watch PROVE TypesOfRun'
  <2>1. dists' \in [Envs -> [Pypi -> Coordinates]]
    BY <1>9 DEF TypesOfRun, PipFails
  <2>2. \E l \in Coordinates : Ends(c, "needs action", l)
    BY <1>9 DEF TypesOfRun, PipFails, Pips
  <2> QED BY <1>9, <2>1, <2>2, EndsType DEF TypesOfRun, PipFails, Statuses
<1>10. ASSUME NEW c \in Components, Stage(c), Watch PROVE TypesOfRun'
  BY <1>10 DEF TypesOfRun, InWork, Statuses, Phases, Stage, Handles, disk, job
<1>11. ASSUME NEW c \in Components, MoveAside(c), Watch PROVE TypesOfRun'
  <2>1. trees' \in [Github -> Trees] /\ previous' \in Trees
    BY <1>11, NoTreeType DEF TypesOfRun, MoveAside, Swaps, Place
  <2> QED BY <1>11, <2>1 DEF TypesOfRun, InWork, Phases, MoveAside, Swaps, job
<1>12. ASSUME NEW c \in Components, Activate(c), Watch PROVE TypesOfRun'
  BY <1>12 DEF TypesOfRun, InWork, Statuses, Phases, Trees, Coordinates, Activate, Swaps,
       Place, Staged, job
<1>13. ASSUME NEW c \in Components, SwapFails(c), Watch PROVE TypesOfRun'
  <2>1. Restored(c) \in Trees
    BY <1>13 DEF TypesOfRun, SwapFails, Swaps, Restored
  <2>2. trees' \in [Github -> Trees] /\ previous' \in Trees
    BY <1>13, <2>1, NoTreeType DEF TypesOfRun, SwapFails, Place
  <2>3. (IF TreeInstalled(Restored(c)) THEN Restored(c).marker ELSE None) \in Coordinates
    BY <2>1 DEF Trees, Coordinates
  <2> QED BY <1>13, <2>2, <2>3, EndsType DEF TypesOfRun, SwapFails, Statuses
<1>14. ASSUME NEW c \in Components, MarkTree(c), Watch PROVE TypesOfRun'
  BY <1>14 DEF TypesOfRun, InWork, Statuses, Phases, Trees, Coordinates, NoTree, MarkTree,
       Place, Ends, job
<1>15. ASSUME NEW c \in Components, AlreadyRegistered(c), Watch PROVE TypesOfRun'
  BY <1>15, CoordinateType DEF TypesOfRun, InWork, Statuses, Phases, Coordinates,
       AlreadyRegistered, Handles, Ends, disk, job
<1>16. ASSUME NEW c \in Components, Conflict(c), Watch PROVE TypesOfRun'
  BY <1>16, CoordinateType DEF TypesOfRun, InWork, Statuses, Phases, Coordinates, Conflict,
       Handles, Ends, disk, job
<1>17. ASSUME NEW c \in Components, Register(c), Watch PROVE TypesOfRun'
  BY <1>17 DEF TypesOfRun, InWork, Statuses, Phases, Register, Handles, job
<1>18. ASSUME NEW c \in Components, MarkServer(c), Watch PROVE TypesOfRun'
  BY <1>18 DEF TypesOfRun, InWork, Statuses, Phases, Coordinates, MarkServer, Ends, job
<1>19. ASSUME Verify, Watch PROVE TypesOfRun'
  BY <1>19, CoordinateType DEF TypesOfRun, InWork, Statuses, Phases, Moved, Verify, disk,
       job
<1>20. ASSUME Record, Watch PROVE TypesOfRun'
  BY <1>20, CatalogAssumption DEF TypesOfRun, InWork, Statuses, Phases, Recorded, NoTree,
       Trees, Coordinates, Record, Over, disk
<1>21. ASSUME Crash, Watch PROVE TypesOfRun'
  BY <1>21, CatalogAssumption DEF TypesOfRun, InWork, Statuses, Phases, NoTree, Trees,
       Coordinates, Crash, Over, disk
<1>22. ASSUME NEW c \in Mcp, EditsConfig(c), Watch PROVE TypesOfRun'
  <2>1. entries' \in [Mcp -> Coordinates \cup {Foreign}]
    BY <1>22 DEF TypesOfRun, EditsConfig, Coordinates
  <2> QED BY <1>22, <2>1 DEF TypesOfRun, EditsConfig, Intervenes, job
<1>23. ASSUME NEW c \in Github, DeletesTree(c), Watch PROVE TypesOfRun'
  <2>1. [ref |-> trees[c].ref, whole |-> FALSE, marker |-> trees[c].marker] \in Trees
    BY DEF TypesOfRun, Trees
  <2>2. trees' \in [Github -> Trees]
    BY <1>23, <2>1, NoTreeType DEF TypesOfRun, DeletesTree, Place
  <2> QED BY <1>23, <2>2 DEF TypesOfRun, DeletesTree, Intervenes, job
<1>24. CASE UNCHANGED vars
  BY <1>24 DEF TypesOfRun, InWork, Statuses, Phases, vars, disk, job
<1> QED BY <1>1, <1>2, <1>3, <1>4, <1>5, <1>6, <1>7, <1>8, <1>9, <1>10, <1>11, <1>12, <1>13,
     <1>14, <1>15, <1>16, <1>17, <1>18, <1>19, <1>20, <1>21, <1>22, <1>23, <1>24,
     Watched DEF Next, Handler, Person

LEMMA TypeInit == Init => TypeOK
<1> SUFFICES ASSUME Init PROVE TypeOK
  OBVIOUS
<1>1. phase = "idle" /\ want = None
  BY DEF Init
<1> QED BY <1>1, CatalogAssumption, NoTreeType DEF Init, TypeOK, Coordinates, Statuses, Phases

LEMMA TypeStep == ASSUME TypeOK, [Next]_vars PROVE TypeOK'
<1>1. TypesOfRun
  BY DEF TypeOK, TypesOfRun, InWork
<1>2. TypesOfRun'
  BY <1>1, RunTypesStep
<1>3. seen' \in [Components -> SUBSET Versions]
  BY <1>2, SeenType, Watched DEF TypesOfRun, vars, TypeOK
<1> QED BY <1>2, <1>3 DEF TypeOK, TypesOfRun, InWork

-----------------------------------------------------------------------------
(* The component in work                                                   *)

LEMMA WorkStep ==
    ASSUME TypeOK, WorkInv, [Next]_vars
    PROVE  WorkInv'
<1>1. ASSUME NEW e \in Envs, ApplyProfile(e), Watch PROVE WorkInv'
  BY <1>1 DEF TypeOK, WorkInv, ApplyProfile, Start, disk
<1>2. ASSUME NEW s \in Derived, ApplyDerived(s), Watch PROVE WorkInv'
  BY <1>2 DEF TypeOK, WorkInv, ApplyDerived, Start, disk
<1>3. ASSUME NEW c \in Components, Unresolved(c), Watch PROVE WorkInv'
  BY <1>3 DEF TypeOK, WorkInv, Unresolved, Turn, Ends, disk, job
<1>4. ASSUME NEW c \in Components, NEW v \in Versions, Keep(c, v), Watch PROVE WorkInv'
  BY <1>4 DEF TypeOK, WorkInv, Keep, Turn, Ends, disk, job
<1>5. ASSUME NEW c \in Components, NEW v \in Versions, Begin(c, v), Watch PROVE WorkInv'
  BY <1>5 DEF TypeOK, WorkInv, Begin, Turn, disk, job
<1>6. ASSUME NEW c \in Components, HandlerFails(c), Watch PROVE WorkInv'
  BY <1>6 DEF TypeOK, WorkInv, HandlerFails, Handles, Ends, disk, job
<1>7. ASSUME NEW c \in Components, MakeEnv(c), Watch PROVE WorkInv'
  BY <1>7 DEF TypeOK, WorkInv, MakeEnv, Handles, job
<1>8. ASSUME NEW c \in Components, PipInstalls(c), Watch PROVE WorkInv'
  BY <1>8 DEF TypeOK, WorkInv, PipInstalls, Pips, Ends, job
<1>9. ASSUME NEW c \in Components, PipFails(c), Watch PROVE WorkInv'
  <2>1. PICK l : Ends(c, "needs action", l)
    BY <1>9 DEF PipFails
  <2>2. c \in selection
    BY <1>9 DEF TypeOK, PipFails, Pips
  <2> QED BY <2>1, <2>2 DEF TypeOK, WorkInv, Ends, job
<1>10. ASSUME NEW c \in Components, Stage(c), Watch PROVE WorkInv'
  BY <1>10 DEF TypeOK, WorkInv, Stage, Handles, disk, job
<1>11. ASSUME NEW c \in Components, MoveAside(c), Watch PROVE WorkInv'
  BY <1>11 DEF TypeOK, WorkInv, MoveAside, Place, job
<1>12. ASSUME NEW c \in Components, Activate(c), Watch PROVE WorkInv'
  BY <1>12 DEF TypeOK, WorkInv, Activate, Swaps, Place, Staged, job
<1>13. ASSUME NEW c \in Components, SwapFails(c), Watch PROVE WorkInv'
  BY <1>13 DEF TypeOK, WorkInv, TreeInstalled, SwapFails, Swaps, Place, Restored, Ends, job
<1>14. ASSUME NEW c \in Components, MarkTree(c), Watch PROVE WorkInv'
  BY <1>14 DEF TypeOK, WorkInv, MarkTree, Place, Ends, job
<1>15. ASSUME NEW c \in Components, AlreadyRegistered(c), Watch PROVE WorkInv'
  BY <1>15 DEF TypeOK, WorkInv, AlreadyRegistered, Handles, Ends, disk, job
<1>16. ASSUME NEW c \in Components, Conflict(c), Watch PROVE WorkInv'
  BY <1>16 DEF TypeOK, WorkInv, Conflict, Handles, Ends, disk, job
<1>17. ASSUME NEW c \in Components, Register(c), Watch PROVE WorkInv'
  BY <1>17 DEF TypeOK, WorkInv, Register, Handles, job
<1>18. ASSUME NEW c \in Components, MarkServer(c), Watch PROVE WorkInv'
  BY <1>18 DEF TypeOK, WorkInv, MarkServer, Ends, job
<1>19. ASSUME Verify, Watch PROVE WorkInv'
  BY <1>19 DEF TypeOK, WorkInv, Moved, Verify, disk, job
<1>20. ASSUME Record, Watch PROVE WorkInv'
  BY <1>20 DEF TypeOK, WorkInv, Record, Over, disk
<1>21. ASSUME Crash, Watch PROVE WorkInv'
  BY <1>21 DEF TypeOK, WorkInv, Crash, Over, disk
<1>22. ASSUME NEW c \in Mcp, EditsConfig(c), Watch PROVE WorkInv'
  BY <1>22 DEF TypeOK, WorkInv, EditsConfig, Intervenes, job
<1>23. ASSUME NEW c \in Github, DeletesTree(c), Watch PROVE WorkInv'
  BY <1>23 DEF TypeOK, WorkInv, DeletesTree, Intervenes, Place, job
<1>24. CASE UNCHANGED vars
  BY <1>24 DEF TypeOK, WorkInv, vars, disk, job
<1> QED BY <1>1, <1>2, <1>3, <1>4, <1>5, <1>6, <1>7, <1>8, <1>9, <1>10, <1>11, <1>12, <1>13,
     <1>14, <1>15, <1>16, <1>17, <1>18, <1>19, <1>20, <1>21, <1>22, <1>23, <1>24,
     Watched DEF Next, Handler, Person

LEMMA TreeStep ==
    ASSUME TypeOK, WorkInv, TreeInv, [Next]_vars
    PROVE  TreeInv'
<1>1. ASSUME NEW e \in Envs, ApplyProfile(e), Watch PROVE TreeInv'
  BY <1>1 DEF TypeOK, WorkInv, TreeInv, MarkerNamesTheTree, ApplyProfile, Start, disk
<1>2. ASSUME NEW s \in Derived, ApplyDerived(s), Watch PROVE TreeInv'
  BY <1>2 DEF TypeOK, WorkInv, TreeInv, MarkerNamesTheTree, ApplyDerived, Start, disk
<1>3. ASSUME NEW c \in Components, Unresolved(c), Watch PROVE TreeInv'
  BY <1>3 DEF TypeOK, WorkInv, TreeInv, MarkerNamesTheTree, Unresolved, Turn, Ends, disk,
       job
<1>4. ASSUME NEW c \in Components, NEW v \in Versions, Keep(c, v), Watch PROVE TreeInv'
  BY <1>4 DEF TypeOK, WorkInv, TreeInv, MarkerNamesTheTree, Keep, Turn, Ends, disk, job
<1>5. ASSUME NEW c \in Components, NEW v \in Versions, Begin(c, v), Watch PROVE TreeInv'
  BY <1>5 DEF TypeOK, WorkInv, TreeInv, MarkerNamesTheTree, Begin, Turn, disk, job
<1>6. ASSUME NEW c \in Components, HandlerFails(c), Watch PROVE TreeInv'
  BY <1>6 DEF TypeOK, WorkInv, TreeInv, MarkerNamesTheTree, HandlerFails, Handles, Ends,
       disk, job
<1>7. ASSUME NEW c \in Components, MakeEnv(c), Watch PROVE TreeInv'
  BY <1>7 DEF TypeOK, WorkInv, TreeInv, MarkerNamesTheTree, MakeEnv, Handles, job
<1>8. ASSUME NEW c \in Components, PipInstalls(c), Watch PROVE TreeInv'
  BY <1>8 DEF TypeOK, WorkInv, TreeInv, MarkerNamesTheTree, PipInstalls, Pips, Ends, job
<1>9. ASSUME NEW c \in Components, PipFails(c), Watch PROVE TreeInv'
  BY <1>9 DEF TypeOK, WorkInv, TreeInv, MarkerNamesTheTree, PipFails, Pips, Ends, job
<1>10. ASSUME NEW c \in Components, Stage(c), Watch PROVE TreeInv'
  BY <1>10 DEF TypeOK, WorkInv, TreeInv, MarkerNamesTheTree, Stage, Handles, disk, job
<1>11. ASSUME NEW c \in Components, MoveAside(c), Watch PROVE TreeInv'
  BY <1>11 DEF TypeOK, WorkInv, TreeInv, MarkerNamesTheTree, Swaps, NoTree, Trees,
       MoveAside, Place, job
<1>12. ASSUME NEW c \in Components, Activate(c), Watch PROVE TreeInv'
  BY <1>12 DEF TypeOK, WorkInv, TreeInv, MarkerNamesTheTree, Trees, NoTree, Activate, Swaps,
       Place, Staged, job
<1>13. ASSUME NEW c \in Components, SwapFails(c), Watch PROVE TreeInv'
  BY <1>13 DEF TypeOK, WorkInv, TreeInv, MarkerNamesTheTree, NoTree, Trees, SwapFails,
       Swaps, Place, Restored, Ends, job
<1>14. ASSUME NEW c \in Components, MarkTree(c), Watch PROVE TreeInv'
  BY <1>14 DEF TypeOK, WorkInv, TreeInv, MarkerNamesTheTree, Trees, NoTree, MarkTree, Place,
       Ends, job
<1>15. ASSUME NEW c \in Components, AlreadyRegistered(c), Watch PROVE TreeInv'
  BY <1>15 DEF TypeOK, WorkInv, TreeInv, MarkerNamesTheTree, AlreadyRegistered, Handles,
       Ends, disk, job
<1>16. ASSUME NEW c \in Components, Conflict(c), Watch PROVE TreeInv'
  BY <1>16 DEF TypeOK, WorkInv, TreeInv, MarkerNamesTheTree, Conflict, Handles, Ends, disk,
       job
<1>17. ASSUME NEW c \in Components, Register(c), Watch PROVE TreeInv'
  BY <1>17, KindAssumption DEF TypeOK, WorkInv, TreeInv, MarkerNamesTheTree, Register,
       Handles, job
<1>18. ASSUME NEW c \in Components, MarkServer(c), Watch PROVE TreeInv'
  BY <1>18, KindAssumption DEF TypeOK, WorkInv, TreeInv, MarkerNamesTheTree, MarkServer,
       Ends, job
<1>19. ASSUME Verify, Watch PROVE TreeInv'
  BY <1>19 DEF TypeOK, WorkInv, TreeInv, MarkerNamesTheTree, Verify, disk, job
<1>20. ASSUME Record, Watch PROVE TreeInv'
  BY <1>20 DEF TypeOK, WorkInv, TreeInv, MarkerNamesTheTree, NoTree, Record, Over, disk
<1>21. ASSUME Crash, Watch PROVE TreeInv'
  BY <1>21 DEF TypeOK, WorkInv, TreeInv, MarkerNamesTheTree, NoTree, Crash, Over, disk
<1>22. ASSUME NEW c \in Mcp, EditsConfig(c), Watch PROVE TreeInv'
  BY <1>22 DEF TypeOK, WorkInv, TreeInv, MarkerNamesTheTree, EditsConfig, Intervenes, job
<1>23. ASSUME NEW c \in Github, DeletesTree(c), Watch PROVE TreeInv'
  BY <1>23 DEF TypeOK, WorkInv, TreeInv, MarkerNamesTheTree, NoTree, Trees, DeletesTree,
       Intervenes, Place, job
<1>24. CASE UNCHANGED vars
  BY <1>24 DEF TypeOK, WorkInv, TreeInv, MarkerNamesTheTree, vars, disk, job
<1> QED BY <1>1, <1>2, <1>3, <1>4, <1>5, <1>6, <1>7, <1>8, <1>9, <1>10, <1>11, <1>12, <1>13,
     <1>14, <1>15, <1>16, <1>17, <1>18, <1>19, <1>20, <1>21, <1>22, <1>23, <1>24,
     Watched DEF Next, Handler, Person

LEMMA FoundStep ==
    ASSUME TypeOK, WorkInv, TreeInv, FoundInv, [Next]_vars
    PROVE  FoundInv'
<1>1. ASSUME NEW e \in Envs, ApplyProfile(e), Watch PROVE FoundInv'
  BY <1>1, KindAssumption DEF TypeOK, WorkInv, TreeInv, FoundInv, Installed, InstalledIn,
       TreeInstalled, ApplyProfile, Start, disk
<1>2. ASSUME NEW s \in Derived, ApplyDerived(s), Watch PROVE FoundInv'
  BY <1>2, KindAssumption DEF TypeOK, WorkInv, TreeInv, FoundInv, Installed, InstalledIn,
       TreeInstalled, ApplyDerived, Start, disk
<1>3. ASSUME NEW c \in Components, Unresolved(c), Watch PROVE FoundInv'
  BY <1>3, KindAssumption DEF TypeOK, WorkInv, TreeInv, FoundInv, Installed, InstalledIn,
       TreeInstalled, Unresolved, Turn, Ends, disk, job
<1>4. ASSUME NEW c \in Components, NEW v \in Versions, Keep(c, v), Watch PROVE FoundInv'
  BY <1>4, KindAssumption DEF TypeOK, WorkInv, TreeInv, FoundInv, Installed, InstalledIn,
       TreeInstalled, Keep, Turn, Ends, disk, job
<1>5. ASSUME NEW c \in Components, NEW v \in Versions, Begin(c, v), Watch PROVE FoundInv'
  BY <1>5, KindAssumption DEF TypeOK, WorkInv, TreeInv, FoundInv, Installed, InstalledIn,
       TreeInstalled, Begin, Turn, disk, job
<1>6. ASSUME NEW c \in Components, HandlerFails(c), Watch PROVE FoundInv'
  BY <1>6, KindAssumption DEF TypeOK, WorkInv, TreeInv, FoundInv, Installed, InstalledIn,
       TreeInstalled, HandlerFails, Handles, Ends, disk, job
<1>7. ASSUME NEW c \in Components, MakeEnv(c), Watch PROVE FoundInv'
  BY <1>7, KindAssumption DEF TypeOK, WorkInv, TreeInv, FoundInv, Installed, InstalledIn,
       TreeInstalled, MakeEnv, Handles, job
<1>8. ASSUME NEW c \in Components, PipInstalls(c), Watch PROVE FoundInv'
  BY <1>8, KindAssumption DEF TypeOK, WorkInv, TreeInv, FoundInv, Installed, InstalledIn,
       TreeInstalled, PipInstalls, Pips, Ends, job
<1>9. ASSUME NEW c \in Components, PipFails(c), Watch PROVE FoundInv'
  BY <1>9, KindAssumption DEF TypeOK, WorkInv, TreeInv, FoundInv, Installed, InstalledIn,
       TreeInstalled, PipFails, Pips, Ends, job
<1>10. ASSUME NEW c \in Components, Stage(c), Watch PROVE FoundInv'
  BY <1>10, KindAssumption DEF TypeOK, WorkInv, TreeInv, FoundInv, Installed, InstalledIn,
       TreeInstalled, Stage, Handles, disk, job
<1>11. ASSUME NEW c \in Components, MoveAside(c), Watch PROVE FoundInv'
  BY <1>11, KindAssumption DEF TypeOK, WorkInv, TreeInv, FoundInv, Installed, InstalledIn,
       TreeInstalled, Swaps, NoTree, Trees, MoveAside, Place, job
<1>12. ASSUME NEW c \in Components, Activate(c), Watch PROVE FoundInv'
  BY <1>12, KindAssumption DEF TypeOK, WorkInv, TreeInv, FoundInv, Installed, InstalledIn,
       TreeInstalled, Trees, NoTree, Activate, Swaps, Place, Staged, job
<1>13. ASSUME NEW c \in Components, SwapFails(c), Watch PROVE FoundInv'
  <2>1. c \in found => TreeInstalled(Restored(c))
    <3>1. CASE phase = "swap"
      <4>1. c \in found => TreeInstalled(trees[c])
        BY <1>13, <3>1, KindAssumption DEF FoundInv, SwapFails, Swaps, Installed, InstalledIn
      <4>2. TreeInstalled(trees[c]) => trees[c] # NoTree
        BY DEF TreeInstalled, NoTree
      <4> QED BY <4>1, <4>2 DEF Restored
    <3>2. CASE phase = "activate"
      BY <1>13, <3>2 DEF TreeInv, FoundInv, SwapFails, Swaps, Restored
    <3> QED BY <1>13, <3>1, <3>2 DEF SwapFails, Swaps
  <2>2. \A d \in found : Installed(d)'
    BY <1>13, <2>1, KindAssumption
       DEF TypeOK, FoundInv, SwapFails, Swaps, Place, Ends, Installed, InstalledIn, job
  <2> QED BY <1>13, <2>2 DEF FoundInv, SwapFails, Ends, job
<1>14. ASSUME NEW c \in Components, MarkTree(c), Watch PROVE FoundInv'
  BY <1>14, KindAssumption DEF TypeOK, WorkInv, TreeInv, FoundInv, Installed, InstalledIn,
       TreeInstalled, Trees, NoTree, MarkTree, Place, Ends, job
<1>15. ASSUME NEW c \in Components, AlreadyRegistered(c), Watch PROVE FoundInv'
  BY <1>15, KindAssumption DEF TypeOK, WorkInv, TreeInv, FoundInv, Installed, InstalledIn,
       TreeInstalled, AlreadyRegistered, Handles, Ends, disk, job
<1>16. ASSUME NEW c \in Components, Conflict(c), Watch PROVE FoundInv'
  BY <1>16, KindAssumption DEF TypeOK, WorkInv, TreeInv, FoundInv, Installed, InstalledIn,
       TreeInstalled, Conflict, Handles, Ends, disk, job
<1>17. ASSUME NEW c \in Components, Register(c), Watch PROVE FoundInv'
  BY <1>17, KindAssumption DEF TypeOK, WorkInv, TreeInv, FoundInv, Installed, InstalledIn,
       TreeInstalled, Register, Handles, job
<1>18. ASSUME NEW c \in Components, MarkServer(c), Watch PROVE FoundInv'
  BY <1>18, KindAssumption, ValueAssumption DEF TypeOK, WorkInv, TreeInv, FoundInv,
       Installed, InstalledIn, TreeInstalled, MarkServer, Ends, job
<1>19. ASSUME Verify, Watch PROVE FoundInv'
  BY <1>19, KindAssumption DEF TypeOK, WorkInv, TreeInv, FoundInv, Installed, InstalledIn,
       TreeInstalled, Verify, disk, job
<1>20. ASSUME Record, Watch PROVE FoundInv'
  BY <1>20, KindAssumption DEF TypeOK, WorkInv, TreeInv, FoundInv, Installed, InstalledIn,
       TreeInstalled, NoTree, Record, Over, disk
<1>21. ASSUME Crash, Watch PROVE FoundInv'
  BY <1>21, KindAssumption DEF TypeOK, WorkInv, TreeInv, FoundInv, Installed, InstalledIn,
       TreeInstalled, NoTree, Crash, Over, disk
<1>22. ASSUME NEW c \in Mcp, EditsConfig(c), Watch PROVE FoundInv'
  BY <1>22, KindAssumption DEF TypeOK, WorkInv, TreeInv, FoundInv, Installed, InstalledIn,
       TreeInstalled, EditsConfig, Intervenes, job
<1>23. ASSUME NEW c \in Github, DeletesTree(c), Watch PROVE FoundInv'
  BY <1>23 DEF WorkInv, FoundInv, DeletesTree, Intervenes, job
<1>24. CASE UNCHANGED vars
  BY <1>24, KindAssumption DEF TypeOK, WorkInv, TreeInv, FoundInv, Installed, InstalledIn,
       TreeInstalled, vars, disk, job
<1> QED BY <1>1, <1>2, <1>3, <1>4, <1>5, <1>6, <1>7, <1>8, <1>9, <1>10, <1>11, <1>12, <1>13,
     <1>14, <1>15, <1>16, <1>17, <1>18, <1>19, <1>20, <1>21, <1>22, <1>23, <1>24,
     Watched DEF Next, Handler, Person

-----------------------------------------------------------------------------
(* What is recorded                                                        *)

\* What a component is installed at is found by looking everywhere.
LEMMA OnDiskIsSeen ==
    ASSUME NEW c \in Components, envs[c] \in Envs
    PROVE  /\ Coordinate(c) # None => Coordinate(c) \in Everywhere(c)
           /\ OnDisk(c) # None => OnDisk(c) \in Everywhere(c)
           /\ Installed(c) => Coordinate(c) # None
<1>1. Coordinate(c) # None => Coordinate(c) \in Everywhere(c)
  BY DEF Coordinate, Everywhere
<1>2. Installed(c) => Coordinate(c) # None
  BY KindAssumption DEF Coordinate, Installed, InstalledIn, TreeInstalled
<1> QED BY <1>1, <1>2 DEF OnDisk

\* A watched step sees what was and what is on disk.
LEMMA WatchedStep ==
    ASSUME TypeOK, EvidenceInv, Watch, selection' \subseteq Components
    PROVE  \A c \in selection' :
              /\ Everywhere(c)' \subseteq seen'[c]
              /\ seen[c] \subseteq seen'[c]
BY DEF Watch, TypeOK

\* A component that lands on disk may be recorded.
LEMMA LandingStep ==
    ASSUME TypeOK, WorkInv, EvidenceInv, Watch, NEW c \in selection,
           NEW status, NEW l, Ends(c, status, l),
           l # None => l \in Everywhere(c) \cup Everywhere(c)'
    PROVE  EvidenceInv'
<1>1. selection' = selection /\ selection \subseteq Components
  BY DEF Ends, job, TypeOK
<1>2. \A d \in selection : Everywhere(d)' \cup seen[d] \subseteq seen'[d]
  BY <1>1, WatchedStep
<1>3. ASSUME NEW d \in Components, landed'[d] # None PROVE landed'[d] \in seen'[d]
  <2>1. CASE d = c
    BY <2>1, <1>2, <1>3 DEF Ends, TypeOK, EvidenceInv
  <2>2. CASE d # c
    BY <2>2, <1>2, <1>3 DEF Ends, TypeOK, WorkInv, EvidenceInv
  <2> QED BY <2>1, <2>2
<1> QED BY <1>1, <1>2, <1>3 DEF EvidenceInv

\* A step in which nothing lands.
LEMMA QuietStep ==
    ASSUME TypeOK, WorkInv, EvidenceInv, Watch, selection' = selection, landed' = landed
    PROVE  EvidenceInv'
BY WatchedStep DEF TypeOK, WorkInv, EvidenceInv

\* A step after which there is nothing to record.
LEMMA EmptyStep ==
    ASSUME TypeOK, EvidenceInv, Watch, selection' \subseteq Components,
           \A c \in Components : landed'[c] = None
    PROVE  EvidenceInv'
BY WatchedStep DEF EvidenceInv

LEMMA EvidenceStep ==
    ASSUME TypeOK, WorkInv, EvidenceInv, [Next]_vars
    PROVE  EvidenceInv'
<1>1. ASSUME NEW e \in Envs, ApplyProfile(e), Watch PROVE EvidenceInv'
  <2>1. selection' \subseteq Components /\ \A c \in Components : landed'[c] = None
    BY <1>1, CatalogAssumption DEF ApplyProfile, Start, WorkInv
  <2> QED BY <1>1, <2>1, EmptyStep
<1>2. ASSUME NEW s \in Derived, ApplyDerived(s), Watch PROVE EvidenceInv'
  <2>1. selection' \subseteq Components /\ \A c \in Components : landed'[c] = None
    BY <1>2, CatalogAssumption DEF ApplyDerived, Start, WorkInv
  <2> QED BY <1>2, <2>1, EmptyStep
<1>3. ASSUME NEW c \in Components, Unresolved(c), Watch PROVE EvidenceInv'
  <2>1. c \in selection /\ envs[c] \in Envs
    BY <1>3 DEF TypeOK, Unresolved, Turn
  <2>2. None # None => None \in Everywhere(c) \cup Everywhere(c)'
    BY <1>3, <2>1 DEF Coordinates
  <2>3. Ends(c, "needs action", None)
    BY <1>3 DEF Unresolved
  <2> QED BY <1>3, <2>1, <2>2, <2>3, LandingStep
<1>4. ASSUME NEW c \in Components, NEW v \in Versions, Keep(c, v), Watch PROVE EvidenceInv'
  <2>1. c \in selection /\ envs[c] \in Envs
    BY <1>4 DEF TypeOK, Keep, Turn
  <2>2. v # None => v \in Everywhere(c) \cup Everywhere(c)'
    BY <1>4, <2>1, OnDiskIsSeen DEF Coordinates, Keep
  <2>3. Ends(c, "fine", v)
    BY <1>4 DEF Keep
  <2> QED BY <1>4, <2>1, <2>2, <2>3, LandingStep
<1>5. ASSUME NEW c \in Components, NEW v \in Versions, Begin(c, v), Watch PROVE EvidenceInv'
  BY <1>5, QuietStep DEF Begin, job
<1>6. ASSUME NEW c \in Components, HandlerFails(c), Watch PROVE EvidenceInv'
  <2>1. c \in selection /\ envs[c] \in Envs
    BY <1>6 DEF TypeOK, HandlerFails, Handles
  <2>2. OnDisk(c) # None => OnDisk(c) \in Everywhere(c) \cup Everywhere(c)'
    BY <1>6, <2>1, OnDiskIsSeen DEF Coordinates
  <2>3. Ends(c, "needs action", OnDisk(c))
    BY <1>6 DEF HandlerFails
  <2> QED BY <1>6, <2>1, <2>2, <2>3, LandingStep
<1>7. ASSUME NEW c \in Components, MakeEnv(c), Watch PROVE EvidenceInv'
  BY <1>7, QuietStep DEF MakeEnv, job
<1>8. ASSUME NEW c \in Components, PipInstalls(c), Watch PROVE EvidenceInv'
  <2>1. c \in selection /\ envs[c] \in Envs
    BY <1>8 DEF TypeOK, PipInstalls, Pips
  <2>2. want # None => want \in Everywhere(c) \cup Everywhere(c)'
    BY <1>8, <2>1 DEF TypeOK, PipInstalls, Pips, Everywhere
  <2>3. Ends(c, "fine", want)
    BY <1>8 DEF PipInstalls
  <2> QED BY <1>8, <2>1, <2>2, <2>3, LandingStep
<1>9. ASSUME NEW c \in Components, PipFails(c), Watch PROVE EvidenceInv'
  <2>1. c \in selection /\ envs[c] \in Envs /\ c \in Pypi
    BY <1>9 DEF TypeOK, PipFails, Pips
  <2>2. PICK ds \in [Pypi -> Coordinates] :
           dists' = [dists EXCEPT ![envs[c]] = ds] /\ Ends(c, "needs action", ds[c])
    BY <1>9 DEF PipFails
  <2>3. ds[c] # None => ds[c] \in Everywhere(c)'
    BY <2>1, <2>2 DEF TypeOK, Everywhere
  <2> QED BY <1>9, <2>1, <2>2, <2>3, LandingStep
<1>10. ASSUME NEW c \in Components, Stage(c), Watch PROVE EvidenceInv'
  BY <1>10, QuietStep DEF Stage, job
<1>11. ASSUME NEW c \in Components, MoveAside(c), Watch PROVE EvidenceInv'
  BY <1>11, QuietStep DEF MoveAside, job
<1>12. ASSUME NEW c \in Components, Activate(c), Watch PROVE EvidenceInv'
  BY <1>12, QuietStep DEF Activate, job
<1>13. ASSUME NEW c \in Components, SwapFails(c), Watch PROVE EvidenceInv'
  <2> DEFINE l == IF TreeInstalled(Restored(c)) THEN Restored(c).marker ELSE None
  <2>1. c \in selection /\ c \in Github
    BY <1>13 DEF TypeOK, SwapFails, Swaps
  <2>2. l # None => l \in Everywhere(c)'
    BY <1>13, <2>1, KindAssumption DEF TypeOK, SwapFails, Place, Everywhere
  <2>3. Ends(c, "needs action", l)
    BY <1>13 DEF SwapFails
  <2> HIDE DEF l
  <2> QED BY <1>13, <2>1, <2>2, <2>3, LandingStep
<1>14. ASSUME NEW c \in Components, MarkTree(c), Watch PROVE EvidenceInv'
  <2>1. c \in selection /\ envs[c] \in Envs
    BY <1>14 DEF TypeOK, MarkTree, Ends
  <2>2. want # None => want \in Everywhere(c) \cup Everywhere(c)'
    BY <1>14, <2>1, KindAssumption DEF TypeOK, MarkTree, Place, Trees, Everywhere
  <2>3. Ends(c, "fine", want)
    BY <1>14 DEF MarkTree
  <2> QED BY <1>14, <2>1, <2>2, <2>3, LandingStep
<1>15. ASSUME NEW c \in Components, AlreadyRegistered(c), Watch PROVE EvidenceInv'
  <2>1. c \in selection /\ envs[c] \in Envs
    BY <1>15 DEF TypeOK, AlreadyRegistered, Handles
  <2>2. OnDisk(c) # None => OnDisk(c) \in Everywhere(c) \cup Everywhere(c)'
    BY <1>15, <2>1, OnDiskIsSeen DEF Coordinates
  <2>3. Ends(c, "fine", OnDisk(c))
    BY <1>15 DEF AlreadyRegistered
  <2> QED BY <1>15, <2>1, <2>2, <2>3, LandingStep
<1>16. ASSUME NEW c \in Components, Conflict(c), Watch PROVE EvidenceInv'
  <2>1. c \in selection /\ envs[c] \in Envs
    BY <1>16 DEF TypeOK, Conflict, Handles
  <2>2. OnDisk(c) # None => OnDisk(c) \in Everywhere(c) \cup Everywhere(c)'
    BY <1>16, <2>1, OnDiskIsSeen DEF Coordinates
  <2>3. Ends(c, "needs action", OnDisk(c))
    BY <1>16 DEF Conflict
  <2> QED BY <1>16, <2>1, <2>2, <2>3, LandingStep
<1>17. ASSUME NEW c \in Components, Register(c), Watch PROVE EvidenceInv'
  BY <1>17, QuietStep DEF Register, job
<1>18. ASSUME NEW c \in Components, MarkServer(c), Watch PROVE EvidenceInv'
  <2>1. c \in selection /\ envs[c] \in Envs
    BY <1>18 DEF TypeOK, MarkServer, Ends
  <2>2. want # None => want \in Everywhere(c) \cup Everywhere(c)'
    BY <1>18, <2>1, KindAssumption DEF TypeOK, MarkServer, Everywhere
  <2>3. Ends(c, "fine", want)
    BY <1>18 DEF MarkServer
  <2> QED BY <1>18, <2>1, <2>2, <2>3, LandingStep
<1>19. ASSUME Verify, Watch PROVE EvidenceInv'
  <2>1. selection' = selection /\ selection \subseteq Components
    BY <1>19 DEF Verify, job, TypeOK
  <2>2. \A c \in selection : Everywhere(c)' \cup seen[c] \subseteq seen'[c]
    BY <1>19, <2>1, WatchedStep
  <2>3. ASSUME NEW c \in Components, landed'[c] # None PROVE landed'[c] \in seen'[c]
    <3>1. CASE c \in Moved
      BY <1>19, <2>2, <2>3, <3>1, OnDiskIsSeen DEF Verify, Moved, TypeOK, EvidenceInv
    <3>2. CASE c \notin Moved
      BY <1>19, <2>2, <2>3, <3>2 DEF Verify, WorkInv, EvidenceInv
    <3> QED BY <3>1, <3>2
  <2> QED BY <2>1, <2>2, <2>3 DEF EvidenceInv
<1>20. ASSUME Record, Watch PROVE EvidenceInv'
  <2>1. selection' \subseteq Components /\ \A c \in Components : landed'[c] = None
    BY <1>20 DEF Record, Over
  <2> QED BY <1>20, <2>1, EmptyStep
<1>21. ASSUME Crash, Watch PROVE EvidenceInv'
  <2>1. selection' \subseteq Components /\ \A c \in Components : landed'[c] = None
    BY <1>21 DEF Crash, Over
  <2> QED BY <1>21, <2>1, EmptyStep
<1>22. ASSUME NEW c \in Mcp, EditsConfig(c), Watch PROVE EvidenceInv'
  BY <1>22, QuietStep DEF EditsConfig, Intervenes, job
<1>23. ASSUME NEW c \in Github, DeletesTree(c), Watch PROVE EvidenceInv'
  BY <1>23, QuietStep DEF DeletesTree, Intervenes, job
<1>24. CASE UNCHANGED vars
  <2>1. \A c \in Components : Everywhere(c)' = Everywhere(c)
    BY <1>24 DEF Everywhere, vars, disk
  <2> QED BY <1>24, <2>1 DEF EvidenceInv, TypeOK, vars, job
<1> QED BY <1>1, <1>2, <1>3, <1>4, <1>5, <1>6, <1>7, <1>8, <1>9, <1>10, <1>11, <1>12, <1>13,
     <1>14, <1>15, <1>16, <1>17, <1>18, <1>19, <1>20, <1>21, <1>22, <1>23, <1>24,
     Watched DEF Next, Handler, Person

\* The end of a component's turn, which left the other trees and servers alone.
LEMMA SettledStep ==
    ASSUME TypeOK, RecordInv, phase # "record", NEW c \in todo,
           NEW status \in {"fine", "needs action"}, NEW l, Ends(c, status, l),
           \A d \in Components \ (Pypi \cup {c}) : Coordinate(d)' = Coordinate(d),
           c \notin Pypi /\ status = "fine" =>
              (l # None /\ Coordinate(c)' # None => l = Coordinate(c)')
    PROVE  RecordInv'
<1>1. /\ selection' = selection /\ todo' = todo \ {c} /\ phase' = "next"
      /\ c \in Components /\ selection \subseteq Components
  BY DEF Ends, job, TypeOK
<1>2. /\ rows'[c] = status /\ landed'[c] = l
      /\ \A d \in Components \ {c} : rows'[d] = rows[d] /\ landed'[d] = landed[d]
  BY <1>1 DEF Ends, TypeOK
<1>3. ASSUME NEW d \in selection \ (todo' \cup Pypi), rows'[d] = "fine" PROVE Agrees(d)'
  <2>1. CASE d = c
    BY <2>1, <1>2, <1>3 DEF Agrees
  <2>2. CASE d # c
    BY <2>2, <1>1, <1>2, <1>3 DEF RecordInv, Agrees
  <2> QED BY <2>1, <2>2
<1>4. \A d \in Components : rows'[d] # "moved"
  BY <1>1, <1>2 DEF RecordInv
<1> QED BY <1>1, <1>3, <1>4 DEF RecordInv

\* A step within a component's turn.
LEMMA TurnStep ==
    ASSUME TypeOK, RecordInv, phase # "record", phase' # "record",
           UNCHANGED <<rows, landed, todo, selection>>,
           \A d \in selection \ (todo \cup Pypi) : Coordinate(d)' = Coordinate(d)
    PROVE  RecordInv'
BY DEF RecordInv, Agrees, TypeOK

LEMMA RecordStep ==
    ASSUME TypeOK, WorkInv, RecordInv, [Next]_vars
    PROVE  RecordInv'
<1>1. ASSUME NEW e \in Envs, ApplyProfile(e), Watch PROVE RecordInv'
  BY <1>1 DEF ApplyProfile, Start, RecordInv
<1>2. ASSUME NEW s \in Derived, ApplyDerived(s), Watch PROVE RecordInv'
  BY <1>2 DEF ApplyDerived, Start, RecordInv
<1>3. ASSUME NEW c \in Components, Unresolved(c), Watch PROVE RecordInv'
  <2>1. c \in todo /\ phase # "record" /\ Ends(c, "needs action", None)
    BY <1>3 DEF TypeOK, Unresolved, Turn
  <2>2. \A d \in Components : Coordinate(d)' = Coordinate(d)
    BY <1>3 DEF Unresolved, Coordinate, disk, Ends, job
  <2>3. c \notin Pypi /\ Coordinate(c)' # None => None \in {None, Coordinate(c)'}
    BY <2>2 DEF OnDisk
  <2> QED BY <2>1, <2>2, <2>3, SettledStep
<1>4. ASSUME NEW c \in Components, NEW v \in Versions, Keep(c, v), Watch PROVE RecordInv'
  <2>1. c \in todo /\ phase # "record" /\ Ends(c, "fine", v)
    BY <1>4 DEF TypeOK, Keep, Turn
  <2>2. \A d \in Components : Coordinate(d)' = Coordinate(d)
    BY <1>4 DEF Keep, Coordinate, disk, Ends, job
  <2>3. c \notin Pypi /\ Coordinate(c)' # None => v \in {None, Coordinate(c)'}
    BY <1>4, <2>2 DEF Keep
  <2> QED BY <2>1, <2>2, <2>3, SettledStep
<1>5. ASSUME NEW c \in Components, NEW v \in Versions, Begin(c, v), Watch PROVE RecordInv'
  <2>1. \A d \in Components \ Pypi : Coordinate(d)' = Coordinate(d)
    BY <1>5 DEF Begin, Coordinate, Turn, disk, job
  <2> QED BY <1>5, <2>1, TurnStep DEF TypeOK, Begin, Turn, disk, job
<1>6. ASSUME NEW c \in Components, HandlerFails(c), Watch PROVE RecordInv'
  <2>1. c \in todo /\ phase # "record" /\ Ends(c, "needs action", OnDisk(c))
    BY <1>6 DEF TypeOK, HandlerFails, Handles
  <2>2. \A d \in Components : Coordinate(d)' = Coordinate(d)
    BY <1>6 DEF HandlerFails, Coordinate, disk, Ends, job
  <2>3. c \notin Pypi /\ Coordinate(c)' # None => OnDisk(c) \in {None, Coordinate(c)'}
    BY <2>2 DEF OnDisk
  <2> QED BY <2>1, <2>2, <2>3, SettledStep
<1>7. ASSUME NEW c \in Components, MakeEnv(c), Watch PROVE RecordInv'
  <2>1. \A d \in Components \ Pypi : Coordinate(d)' = Coordinate(d)
    BY <1>7 DEF MakeEnv, Coordinate, Handles, job
  <2> QED BY <1>7, <2>1, TurnStep DEF TypeOK, MakeEnv, Handles, job
<1>8. ASSUME NEW c \in Components, PipInstalls(c), Watch PROVE RecordInv'
  <2>1. c \in todo \cap Pypi /\ phase # "record" /\ Ends(c, "fine", want)
    BY <1>8 DEF TypeOK, PipInstalls, Pips
  <2>2. \A d \in Components \ Pypi : Coordinate(d)' = Coordinate(d)
    BY <1>8 DEF PipInstalls, Coordinate
  <2> QED BY <2>1, <2>2, SettledStep
<1>9. ASSUME NEW c \in Components, PipFails(c), Watch PROVE RecordInv'
  <2>1. c \in todo \cap Pypi /\ phase # "record"
    BY <1>9 DEF TypeOK, PipFails, Pips
  <2>2. PICK l : Ends(c, "needs action", l)
    BY <1>9 DEF PipFails
  <2>3. \A d \in Components \ Pypi : Coordinate(d)' = Coordinate(d)
    BY <1>9 DEF PipFails, Coordinate
  <2> QED BY <2>1, <2>2, <2>3, SettledStep
<1>10. ASSUME NEW c \in Components, Stage(c), Watch PROVE RecordInv'
  <2>1. \A d \in Components \ Pypi : Coordinate(d)' = Coordinate(d)
    BY <1>10 DEF Stage, Coordinate, Handles, disk, job
  <2> QED BY <1>10, <2>1, TurnStep DEF TypeOK, Stage, Handles, disk, job
<1>11. ASSUME NEW c \in Components, MoveAside(c), Watch PROVE RecordInv'
  <2>1. c \in todo \cap Github
    BY <1>11 DEF TypeOK, MoveAside, Swaps
  <2>2. \A d \in Components \ (Pypi \cup {c}) : Coordinate(d)' = Coordinate(d)
    BY <1>11, <2>1 DEF TypeOK, MoveAside, Place, Coordinate, Components, job
  <2> QED BY <1>11, <2>1, <2>2, TurnStep DEF TypeOK, MoveAside, Swaps, job
<1>12. ASSUME NEW c \in Components, Activate(c), Watch PROVE RecordInv'
  <2>1. c \in todo \cap Github
    BY <1>12 DEF TypeOK, Activate, Swaps
  <2>2. \A d \in Components \ (Pypi \cup {c}) : Coordinate(d)' = Coordinate(d)
    BY <1>12, <2>1 DEF TypeOK, Activate, Place, Coordinate, Components, job
  <2> QED BY <1>12, <2>1, <2>2, TurnStep DEF TypeOK, Activate, Swaps, job
<1>13. ASSUME NEW c \in Components, SwapFails(c), Watch PROVE RecordInv'
  <2>1. c \in todo \cap Github /\ phase # "record"
    BY <1>13 DEF TypeOK, SwapFails, Swaps
  <2>2. PICK l : Ends(c, "needs action", l)
    BY <1>13 DEF SwapFails
  <2>3. \A d \in Components \ (Pypi \cup {c}) : Coordinate(d)' = Coordinate(d)
    BY <1>13, <2>1 DEF TypeOK, SwapFails, Place, Coordinate, Components
  <2> QED BY <2>1, <2>2, <2>3, SettledStep
<1>14. ASSUME NEW c \in Components, MarkTree(c), Watch PROVE RecordInv'
  <2>1. c \in todo \cap Github /\ phase # "record" /\ Ends(c, "fine", want)
    BY <1>14 DEF TypeOK, MarkTree
  <2>2. \A d \in Components \ (Pypi \cup {c}) : Coordinate(d)' = Coordinate(d)
    BY <1>14, <2>1 DEF TypeOK, MarkTree, Place, Coordinate, Components
  <2>3. Coordinate(c)' = want
    BY <1>14, <2>1, KindAssumption DEF TypeOK, Trees, MarkTree, Place, Coordinate
  <2> QED BY <2>1, <2>2, <2>3, SettledStep
<1>15. ASSUME NEW c \in Components, AlreadyRegistered(c), Watch PROVE RecordInv'
  <2>1. c \in todo /\ phase # "record" /\ Ends(c, "fine", OnDisk(c))
    BY <1>15 DEF TypeOK, AlreadyRegistered, Handles
  <2>2. \A d \in Components : Coordinate(d)' = Coordinate(d)
    BY <1>15 DEF AlreadyRegistered, Coordinate, disk, Ends, job
  <2>3. c \notin Pypi /\ Coordinate(c)' # None => OnDisk(c) \in {None, Coordinate(c)'}
    BY <2>2 DEF OnDisk
  <2> QED BY <2>1, <2>2, <2>3, SettledStep
<1>16. ASSUME NEW c \in Components, Conflict(c), Watch PROVE RecordInv'
  <2>1. c \in todo /\ phase # "record" /\ Ends(c, "needs action", OnDisk(c))
    BY <1>16 DEF TypeOK, Conflict, Handles
  <2>2. \A d \in Components : Coordinate(d)' = Coordinate(d)
    BY <1>16 DEF Conflict, Coordinate, disk, Ends, job
  <2>3. c \notin Pypi /\ Coordinate(c)' # None => OnDisk(c) \in {None, Coordinate(c)'}
    BY <2>2 DEF OnDisk
  <2> QED BY <2>1, <2>2, <2>3, SettledStep
<1>17. ASSUME NEW c \in Components, Register(c), Watch PROVE RecordInv'
  <2>1. \A d \in Components \ Pypi : Coordinate(d)' = Coordinate(d)
    BY <1>17 DEF Register, Coordinate, Handles, job
  <2> QED BY <1>17, <2>1, TurnStep DEF TypeOK, Register, Handles, job
<1>18. ASSUME NEW c \in Components, MarkServer(c), Watch PROVE RecordInv'
  <2>1. c \in todo \cap Mcp /\ phase # "record" /\ Ends(c, "fine", want)
    BY <1>18 DEF TypeOK, MarkServer
  <2>2. \A d \in Components \ (Pypi \cup {c}) : Coordinate(d)' = Coordinate(d)
    BY <1>18, <2>1 DEF TypeOK, MarkServer, Coordinate, Components
  <2>3. Coordinate(c)' = want
    BY <1>18, <2>1, KindAssumption DEF TypeOK, MarkServer, Coordinate
  <2> QED BY <2>1, <2>2, <2>3, SettledStep
<1>19. ASSUME Verify, Watch PROVE RecordInv'
  <2>1. /\ \A d \in Components : Coordinate(d)' = Coordinate(d)
        /\ UNCHANGED <<selection, todo>> /\ selection \subseteq Components /\ todo = {}
        /\ phase = "next" /\ phase' = "record" /\ Moved \subseteq Pypi
    BY <1>19 DEF TypeOK, Verify, Moved, Coordinate, disk, job
  <2>2. \A d \in Components :
           IF d \in Moved THEN rows'[d] = "moved" /\ landed'[d] = Coordinate(d)
           ELSE rows'[d] = rows[d] /\ landed'[d] = landed[d]
    BY <1>19 DEF Verify
  <2>3. \A d \in Components : rows[d] # "moved"
    BY <2>1 DEF RecordInv
  <2>4. ASSUME NEW d \in selection \cap Pypi, rows'[d] \in {"fine", "moved"} PROVE Agrees(d)'
    BY <2>1, <2>2, <2>3, <2>4 DEF Moved, Agrees
  <2>5. ASSUME NEW d \in selection \ Pypi, rows'[d] = "fine" PROVE Agrees(d)'
    BY <2>1, <2>2, <2>5 DEF RecordInv, Agrees
  <2> QED BY <2>1, <2>2, <2>3, <2>4, <2>5 DEF RecordInv
<1>20. ASSUME Record, Watch PROVE RecordInv'
  BY <1>20 DEF Record, Over, RecordInv
<1>21. ASSUME Crash, Watch PROVE RecordInv'
  BY <1>21 DEF Crash, Over, RecordInv
<1>22. ASSUME NEW c \in Mcp, EditsConfig(c), Watch PROVE RecordInv'
  BY <1>22, TurnStep DEF WorkInv, EditsConfig, Intervenes, job
<1>23. ASSUME NEW c \in Github, DeletesTree(c), Watch PROVE RecordInv'
  BY <1>23, TurnStep DEF WorkInv, DeletesTree, Intervenes, job
<1>24. CASE UNCHANGED vars
  <2>1. \A c \in Components : Agrees(c)' <=> Agrees(c)
    BY <1>24 DEF Agrees, Coordinate, vars, disk, job
  <2> QED BY <1>24, <2>1 DEF RecordInv, TypeOK, vars, job
<1> QED BY <1>1, <1>2, <1>3, <1>4, <1>5, <1>6, <1>7, <1>8, <1>9, <1>10, <1>11, <1>12, <1>13,
     <1>14, <1>15, <1>16, <1>17, <1>18, <1>19, <1>20, <1>21, <1>22, <1>23, <1>24,
     Watched DEF Next, Handler, Person

LEMMA InvInit == Init => IInv
<1> SUFFICES ASSUME Init PROVE IInv
  OBVIOUS
<1>1. selection = {} /\ found = {} /\ phase = "idle" /\ todo = {}
  BY DEF Init
<1>2. /\ \A c \in Components : rows[c] = "none" /\ landed[c] = None
      /\ \A c \in Github : trees[c].marker = None
      /\ previous.marker = None
  BY DEF Init, NoTree
<1> QED BY <1>1, <1>2, TypeInit
       DEF IInv, WorkInv, TreeInv, MarkerNamesTheTree, FoundInv, EvidenceInv, RecordInv

\* Every state of the installer satisfies the inductive invariant.
THEOREM Invariance == Spec => []IInv
<1>1. Init => IInv
  BY InvInit
<1>2. IInv /\ [Next]_vars => IInv'
  BY TypeStep, WorkStep, TreeStep, FoundStep, EvidenceStep, RecordStep DEF IInv
<1> QED BY <1>1, <1>2, PTL DEF Spec

-----------------------------------------------------------------------------
(* The theorems                                                            *)

\* The variables of the installer keep their types, and only the component in work is
\* between two phases.
THEOREM TypeCorrect == Spec => []TypeOK
BY Invariance, PTL DEF IInv

\* A skill directory's marker names the ref of its files, whatever crashed in between
\* (handlers._activate).
THEOREM MarkersAreTrue == Spec => []MarkerNamesTheTree
BY Invariance, PTL DEF IInv, TreeInv

\* A run that does not crash loses no tree and no registration that it found
\* (handlers._activate restores what a failed swap moved aside).
THEOREM NothingIsLost == Spec => []UpgradesLoseNothing
<1>1. IInv => UpgradesLoseNothing
  BY DEF IInv, FoundInv, UpgradesLoseNothing
<1> QED BY <1>1, Invariance, PTL

\* Whatever version the lock comes to name was on disk during the run that wrote it
\* (installer._install_one, coordinates._on_disk_resolution).
THEOREM LockIsWitnessed == Spec => LockIsEvidence
<1>1. IInv /\ [Next]_vars =>
         [\A c \in Components : lock'[c] \notin {None, lock[c]} => lock'[c] \in seen[c]]_vars
  <2> SUFFICES ASSUME IInv, Next, NEW c \in Components, lock'[c] \notin {None, lock[c]}
               PROVE  lock'[c] \in seen[c]
    BY DEF vars
  <2>1. Record \/ lock' = lock
    BY DEF Next, Handler, Person, ApplyProfile, ApplyDerived, Start, Unresolved, Keep,
           Begin, HandlerFails, MakeEnv, PipInstalls, PipFails, Stage, MoveAside, Activate,
           SwapFails, MarkTree, AlreadyRegistered, Conflict, Register, MarkServer, Ends,
           Verify, Crash, EditsConfig, DeletesTree, Intervenes
  <2>2. lock'[c] = landed[c]
    BY <2>1 DEF Record, Recorded
  <2> QED BY <2>2 DEF IInv, EvidenceInv
<1> QED BY <1>1, Invariance, PTL DEF Spec, LockIsEvidence

\* What a run records of the components that landed is what its last install left on
\* disk (installer._verify_landed).
THEOREM RecordsAreCurrent == Spec => RecordTellsTheDisk
<1> DEFINE A == Record =>
        \A c \in selection :
            (/\ rows[c] \in {"fine", "moved"}
             /\ landed[c] # None
             /\ Coordinate(c) # None)
            => lock'[c] = Coordinate(c)
<1>1. IInv => A
  <2> SUFFICES ASSUME IInv, Record, NEW c \in selection, rows[c] \in {"fine", "moved"},
                      landed[c] # None, Coordinate(c) # None
               PROVE  lock'[c] = Coordinate(c)
    OBVIOUS
  <2>1. c \in Components /\ phase = "record" /\ todo = {}
    BY DEF IInv, TypeOK, WorkInv, Record
  <2>2. landed[c] = Coordinate(c)
    BY <2>1 DEF IInv, RecordInv, Agrees
  <2> QED BY <2>1, <2>2 DEF Record, Recorded
<1>2. IInv /\ [Next]_vars => [A]_vars
  BY <1>1
<1> QED BY <1>2, Invariance, PTL DEF Spec, RecordTellsTheDisk

\* No run replaces an entry that an operator wrote (handlers._mcp_verdict).
THEOREM OperatorsAreRespected == Spec => OperatorsEntryStays
<1>1. TypeOK /\ [Next]_vars =>
         [\A c \in Mcp : phase # "idle" /\ entries[c] = Foreign => entries'[c] = Foreign]_vars
  <2> SUFFICES ASSUME TypeOK, Next, NEW c \in Mcp, phase # "idle", entries[c] = Foreign
               PROVE  entries'[c] = Foreign
    BY DEF vars
  <2>1. ASSUME NEW d \in Components, Register(d) PROVE entries'[c] = Foreign
    BY <2>1, ValueAssumption DEF TypeOK, Register, OwnOlder, Coordinates
  <2>2. CASE entries' = entries
    BY <2>2
  <2> QED
    BY <2>1, <2>2
       DEF Next, Handler, Person, ApplyProfile, ApplyDerived, Start, Unresolved, Keep,
           Begin, HandlerFails, MakeEnv, PipInstalls, PipFails, Stage, MoveAside, Activate,
           SwapFails, MarkTree, AlreadyRegistered, Conflict, MarkServer, Verify, Record,
           Crash, Over, EditsConfig, DeletesTree, Intervenes, disk
<1> QED BY <1>1, TypeCorrect, PTL DEF Spec, OperatorsEntryStays
=============================================================================
