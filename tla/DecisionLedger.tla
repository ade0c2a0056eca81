--------------------------- MODULE DecisionLedger ---------------------------
(***************************************************************************)
(* What the decision store promises to the people who sign in it: a ruling *)
(* is added in one step, at the end, under an id no other ruling has; a    *)
(* proposal has at most one active ruling; nothing but a person takes a    *)
(* ruling back, and only what is committed counts.                         *)
(***************************************************************************)
EXTENDS Naturals, Sequences

CONSTANT Rulings        \* records with an id, a proposal and a status

VARIABLES
    head,               \* the store at HEAD
    file                \* the store in the working tree

\* Neither a rejected nor a superseded ruling is active.
Active(d) == d.status \notin {"rejected", "superseded"}

Init == head = <<>> /\ file = <<>>

Record(d) ==
    /\ \A i \in DOMAIN file : file[i].id # d.id
    /\ \A i \in DOMAIN file : ~ (Active(d) /\ Active(file[i]) /\ file[i].proposal = d.proposal)
    /\ file' = Append(file, d)
    /\ UNCHANGED head

Commit == head' = file /\ UNCHANGED file

Discard == file' = head /\ UNCHANGED head

Supersede(i) ==
    /\ Active(file[i])
    /\ file' = [file EXCEPT ![i].status = "superseded"]
    /\ UNCHANGED head

Next ==
    \/ \E i \in DOMAIN file' : file'[i] \in Rulings /\ Record(file'[i])
    \/ Commit
    \/ Discard
    \/ \E i \in DOMAIN file : Supersede(i)

Spec == Init /\ [][Next]_<<head, file>>
=============================================================================
