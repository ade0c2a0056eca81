------------------------------ MODULE TurnRun ------------------------------
(***************************************************************************)
(* What the engine of turns promises about one turn and its generator, and *)
(* the approval relay builds on: the generator exists from the start on,   *)
(* one thread at a time is inside it, nobody but itself ends it while the  *)
(* turn is live, and a closed one is never entered again.                  *)
(*                                                                         *)
(* A poll that is still inside may enter the generator of an ended turn.   *)
(***************************************************************************)
VARIABLES
    life,       \* of the turn in the log it was started on: "new", "live", "ended"
    place       \* its generator: "none", "idle", "running", "closing", "closed"

Init == life = "new" /\ place = "none"

\* Without a generator when parking raised.
Start ==
    /\ life = "new"
    /\ life' = "live"
    /\ place' \in {"none", "idle"}

\* By its result, by the user, by a sweep, or with its log or the process.
End ==
    /\ life = "live"
    /\ life' = "ended"
    /\ UNCHANGED place

\* next() is called, ...
Enter ==
    /\ place = "idle"
    /\ place' = "running"
    /\ UNCHANGED life

\* ... it yields, or runs to its end, through its finally if it has got that far.
Leave ==
    /\ place = "running"
    /\ place' \in {"idle", "closing", "closed"}
    /\ UNCHANGED life

\* close() is called: nothing is cut off that is still live.
Close ==
    /\ life = "ended"
    /\ place = "idle"
    /\ place' \in {"closing", "closed"}
    /\ UNCHANGED life

\* The finally is done, and with it the child.
Finish ==
    /\ place = "closing"
    /\ place' = "closed"
    /\ UNCHANGED life

Next == Start \/ End \/ Enter \/ Leave \/ Close \/ Finish

Spec == Init /\ [][Next]_<<life, place>>
=============================================================================
