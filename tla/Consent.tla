------------------------------ MODULE Consent ------------------------------
(***************************************************************************)
(* What a child can rely on for one request for permission, and a person   *)
(* for what is shown to them: it is asked, it is opened for a decision     *)
(* once, and with the first decision it is over.  On its behalf at most    *)
(* one verdict is written, and an acceptance only for what may be allowed. *)
(***************************************************************************)
EXTENDS Sequences

VARIABLES
    stage,      \* "unasked", "asked", "open", "over"
    scoped,     \* whether it is a scoped read: nothing else may be allowed
    verdicts    \* what was written on its behalf

Init ==
    /\ stage = "unasked"
    /\ scoped = FALSE
    /\ verdicts = <<>>

Ask ==
    /\ stage = "unasked"
    /\ stage' = "asked"
    /\ scoped' \in BOOLEAN
    /\ UNCHANGED verdicts

Show ==
    /\ stage = "asked"
    /\ stage' = "open"
    /\ UNCHANGED <<scoped, verdicts>>

\* Decided, though the write may fail.
Decide(verdict) ==
    /\ stage = "open"
    /\ verdict = "accept" => scoped
    /\ stage' = "over"
    /\ verdicts' \in {verdicts, Append(verdicts, verdict)}
    /\ UNCHANGED scoped

\* Displaced by later requests.
Forget ==
    /\ stage = "open"
    /\ stage' = "over"
    /\ UNCHANGED <<scoped, verdicts>>

Next == Ask \/ Show \/ Forget \/ \E verdict \in {"accept", "decline"} : Decide(verdict)

Spec == Init /\ [][Next]_<<stage, scoped, verdicts>>
=============================================================================
