----------------------------- MODULE AuditTrail -----------------------------
(***************************************************************************)
(* What the evidence of the Power BI MCP adapter promises to an auditor:   *)
(* no model is touched before the intent to touch it is in the history, or *)
(* after the run's end is; a run has at most one intent and one end; and   *)
(* an end that says no mutation was attempted is the end of a run that     *)
(* left the model alone.                                                   *)
(***************************************************************************)
EXTENDS Integers, Sequences, TLAPS

CONSTANTS Runs, Outcomes

VARIABLES
    trail,              \* the history, one record per line
    touched             \* the runs whose runtime has written

Records == [run : Runs, outcome : Outcomes, attempted : BOOLEAN]

IntentOf(r) == [run |-> r, outcome |-> "deferred", attempted |-> TRUE]

OnRecord(e) == \E i \in DOMAIN trail : trail[i] = e

Ended(r) == \E i \in DOMAIN trail : trail[i].run = r /\ trail[i] # IntentOf(r)

Init == trail = <<>> /\ touched = {}

Intend(r) ==
    /\ ~ OnRecord(IntentOf(r)) /\ ~ Ended(r)
    /\ trail' = Append(trail, IntentOf(r))
    /\ UNCHANGED touched

Touch(r) ==
    /\ OnRecord(IntentOf(r)) /\ ~ Ended(r)
    /\ touched' = touched \cup {r}
    /\ UNCHANGED trail

End(e) ==
    /\ e # IntentOf(e.run) /\ ~ Ended(e.run)
    /\ e.attempted => OnRecord(IntentOf(e.run))
    /\ ~ e.attempted => e.run \notin touched
    /\ trail' = Append(trail, e)
    /\ UNCHANGED touched

Next ==
    \/ \E r \in Runs : Intend(r) \/ Touch(r)
    \/ \E e \in Records : End(e)

Spec == Init /\ [][Next]_<<trail, touched>>

-----------------------------------------------------------------------------
(* What an auditor may conclude                                            *)

\* From the history alone, at any time: a run without an intent has not written, nor has
\* one that ended without an attempt; and of a run there is its intent at most, its end
\* at most, or the one and then the other (write_intent, finalize, refusal_record).
Conclusive ==
    /\ \A r \in touched : OnRecord(IntentOf(r))
    /\ \A i \in DOMAIN trail : trail[i].attempted \/ trail[i].run \notin touched
    /\ \A i, j \in DOMAIN trail :
          (i < j /\ trail[i].run = trail[j].run) =>
              /\ trail[i] = IntentOf(trail[i].run)
              /\ trail[j] # IntentOf(trail[j].run)

Entries == Records \cup {IntentOf(r) : r \in Runs}

\* One line more.
LEMMA OneLineMore ==
    ASSUME NEW e \in Entries, trail \in Seq(Entries), trail' = Append(trail, e)
    PROVE  /\ trail' \in Seq(Entries)
           /\ DOMAIN trail' = DOMAIN trail \cup {Len(trail) + 1}
           /\ \A i \in DOMAIN trail : trail'[i] = trail[i] /\ i <= Len(trail)
           /\ trail'[Len(trail) + 1] = e
           /\ Len(trail) \in Nat /\ DOMAIN trail \subseteq Nat
OBVIOUS

\* An intent comes first, an end last, and nothing is touched but in between.
THEOREM TrailIsConclusive == Spec => []Conclusive
<1> DEFINE Inv == trail \in Seq(Entries) /\ touched \subseteq Runs /\ Conclusive
<1>1. Init => Inv
    BY DEF Init, Conclusive
<1>2. Inv /\ [Next]_<<trail, touched>> => Inv'
    <2> SUFFICES ASSUME Inv, [Next]_<<trail, touched>> PROVE Inv'
        OBVIOUS
    <2>1. ASSUME NEW r \in Runs, Intend(r) PROVE Inv'
        <3>1. trail' = Append(trail, IntentOf(r)) /\ touched' = touched /\ IntentOf(r) \in Entries
            BY <2>1 DEF Intend, Entries
        <3>2. \A i \in DOMAIN trail : trail[i].run # r
            BY <2>1 DEF Intend, Ended, OnRecord
        <3>3. IntentOf(r).run = r /\ IntentOf(r).attempted
            BY DEF IntentOf
        <3> QED BY <3>1, <3>2, <3>3, OneLineMore DEF Conclusive, OnRecord
    <2>2. ASSUME NEW r \in Runs, Touch(r) PROVE Inv'
        <3>1. \A i \in DOMAIN trail : trail[i].run = r => trail[i].attempted
            BY <2>2 DEF Touch, Ended, IntentOf
        <3> QED BY <2>2, <3>1 DEF Touch, Conclusive, OnRecord
    <2>3. ASSUME NEW e \in Records, End(e) PROVE Inv'
        <3>1. trail' = Append(trail, e) /\ touched' = touched /\ e \in Entries
            BY <2>3 DEF End, Entries
        <3>2. \A i \in DOMAIN trail : trail[i].run = e.run => trail[i] = IntentOf(e.run)
            BY <2>3 DEF End, Ended
        <3>3. e # IntentOf(e.run) /\ (e.attempted \/ e.run \notin touched)
            BY <2>3 DEF End
        <3> QED BY <3>1, <3>2, <3>3, OneLineMore DEF Conclusive, OnRecord
    <2> QED BY <2>1, <2>2, <2>3 DEF Next, Conclusive, OnRecord
<1>3. Inv => Conclusive
    OBVIOUS
<1> QED BY <1>1, <1>2, <1>3, PTL DEF Spec
=============================================================================
