--------------------------- MODULE TurnLifecycle ---------------------------
(***************************************************************************)
(* What a conversation promises about its turns, whatever the way they are *)
(* recorded, pumped, interrupted or reaped: a turn is opened once, at most *)
(* one turn of the conversation is live, and a turn that ended stays ended.*)
(***************************************************************************)
CONSTANT Turns          \* the turns a conversation may ever accept

VARIABLE phase          \* [Turns -> Phases]

Phases == {"new", "live", "ended"}

TypeOK == phase \in [Turns -> Phases]

Init == phase = [u \in Turns |-> "new"]

\* A turn is accepted only while no other turn is live.
Start(u) ==
    /\ phase[u] = "new"
    /\ \A v \in Turns : phase[v] # "live"
    /\ phase' = [phase EXCEPT ![u] = "live"]

\* However it ends (answer, failure, interruption, abandonment), it ends once.
End(u) ==
    /\ phase[u] = "live"
    /\ phase' = [phase EXCEPT ![u] = "ended"]

Next == \E u \in Turns : Start(u) \/ End(u)

Spec == Init /\ [][Next]_phase
=============================================================================
