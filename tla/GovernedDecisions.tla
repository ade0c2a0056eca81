------------------------- MODULE GovernedDecisions -------------------------
(***************************************************************************)
(* The governed workbench: a change is proposed, a named person rules on   *)
(* it, the ruling is appended to the decision store of the working tree,   *)
(* and it is authority once a person has committed it (workbench_routes.py,*)
(* decision_routes.py, decision_write.py, proposals.py, apply.py, and the  *)
(* client review of operations_routes.py).                                 *)
(*                                                                         *)
(* A recording is one synchronous handler: a Studio runs one at a time,    *)
(* but each of its four accesses to the store is a step that another       *)
(* Studio on the same workspace may come between.  A review and an apply   *)
(* read HEAD in a worker thread and may be overtaken by anything.          *)
(*                                                                         *)
(* A proposal is addressed by its content, the revision included, so it is *)
(* its own hash.  A submission that is malformed, unsigned or stale is     *)
(* refused before anything is read, and changes nothing.                   *)
(***************************************************************************)
EXTENDS Naturals, Sequences, FiniteSets

CONSTANTS
    Studios,            \* the server processes on one workspace
    Artifacts,
    Slugs,
    SlugOf,             \* [Artifacts -> Slugs]: artifacts may share a slug
    Revisions,          \* digests of the projected workspace; one may come back
    NoProposal,
    NoRuling,
    MaxPrepared,        \* bound on the proposals a Studio holds
    MaxRulings          \* bound on the rulings in the store

ASSUME SlugAssumption == SlugOf \in [Artifacts -> Slugs]

Proposals == [artifact : Artifacts, revision : Revisions]

Answers == {"approve", "decline"}

Ids == [slug : Slugs, n : Nat]

Rulings == [id : Ids, proposal : Proposals, answer : Answers,
            status : {"approved", "rejected", "superseded"}]

ASSUME NothingAssumption == NoProposal \notin Proposals /\ NoRuling \notin Rulings

VARIABLES
    revision,           \* the workspace's
    head,               \* the store at HEAD
    file,               \* the store in the working tree
    prepared,           \* of each Studio: app.state.workbench_proposals
    recording,          \* of each Studio: how far its recording is
    entry,              \* the ruling it records
    merged,             \* the text it is about to put in place
    review,             \* of each Studio: how far its client review is
    atHead,             \* what the review read at HEAD
    apply,              \* of each Studio: how far its apply is
    applied             \* the proposal that is applied

storeVars  == <<head, file>>
recordVars == <<recording, entry, merged>>
reviewVars == <<review, atHead>>
applyVars  == <<apply, applied>>
vars == <<revision, head, file, prepared, recording, entry, merged, review, atHead,
          apply, applied>>

Ledger == INSTANCE DecisionLedger

Active(d) == d.status \notin {"rejected", "superseded"}

StatusFor(answer) == IF answer = "decline" THEN "rejected" ELSE "approved"

-----------------------------------------------------------------------------
(* The workspace and its people                                            *)

\* A readiness artifact changes, or changes back.
WorkspaceMoves(r) ==
    /\ revision' = r
    /\ UNCHANGED <<storeVars, prepared, recordVars, reviewVars, applyVars>>

Commit ==
    /\ head' = file
    /\ UNCHANGED <<revision, file, prepared, recordVars, reviewVars, applyVars>>

\* People edit the store by hand between recordings, not in the middle of one.
Quiet == \A s \in Studios : recording[s] = "idle"

Discard ==
    /\ Quiet
    /\ file' = head
    /\ UNCHANGED <<revision, head, prepared, recordVars, reviewVars, applyVars>>

Supersede(i) ==
    /\ Quiet
    /\ Active(file[i])
    /\ file' = [file EXCEPT ![i].status = "superseded"]
    /\ UNCHANGED <<revision, head, prepared, recordVars, reviewVars, applyVars>>

-----------------------------------------------------------------------------
(* A Studio                                                                *)

\* create_proposal: what was prepared before is prepared again, unchanged.
Prepare(s, a) ==
    /\ Cardinality(prepared[s]) < MaxPrepared
    /\ prepared' = [prepared EXCEPT ![s] = @ \cup {[artifact |-> a, revision |-> revision]}]
    /\ UNCHANGED <<revision, storeVars, recordVars, reviewVars, applyVars>>

IsStale(p) == p.revision # revision

\* The numbers taken under a slug, and the next one.
Taken(decisions, slug) ==
    {decisions[i].id.n : i \in {j \in DOMAIN decisions : decisions[j].id.slug = slug}}

\* Slip: the artifact's own rulings are counted, not those of its slug.
NextNumberOfArtifact(decisions, a) ==
    1 + Cardinality({i \in DOMAIN decisions : decisions[i].proposal.artifact = a})

NextNumber(decisions, a) ==
    LET taken == Taken(decisions, SlugOf[a]) \cup {0}
    IN  1 + (CHOOSE n \in taken : \A m \in taken : m <= n)

\* record: the submission is in order; next_decision_id reads the store.
Submit(s, p, answer) ==
    /\ recording[s] = "idle"
    /\ p \in prepared[s]
    /\ ~ IsStale(p)
    /\ Len(file) < MaxRulings
    /\ entry' = [entry EXCEPT ![s] =
                   [id |-> [slug |-> SlugOf[p.artifact], n |-> NextNumber(file, p.artifact)],
                    proposal |-> p, answer |-> answer, status |-> StatusFor(answer)]]
    /\ recording' = [recording EXCEPT ![s] = "numbered"]
    /\ UNCHANGED <<revision, storeVars, prepared, merged, reviewVars, applyVars>>

\* _refuse_gate_findings: the id is taken, or an active ruling covers the scope.
TakenId(decisions, d) == \E i \in DOMAIN decisions : decisions[i].id = d.id

Conflicts(decisions, d) ==
    /\ Active(d)
    /\ \E i \in DOMAIN decisions : Active(decisions[i]) /\ decisions[i].proposal = d.proposal

\* append_decision reads the store a second time, to judge the new ruling by it.
Judge(s) ==
    /\ recording[s] = "numbered"
    /\ ~ TakenId(file, entry[s])
    /\ ~ Conflicts(file, entry[s])
    /\ recording' = [recording EXCEPT ![s] = "judged"]
    /\ UNCHANGED <<revision, storeVars, prepared, entry, merged, reviewVars, applyVars>>

Refuse(s) ==
    /\ recording[s] = "numbered"
    /\ TakenId(file, entry[s]) \/ Conflicts(file, entry[s])
    /\ recording' = [recording EXCEPT ![s] = "idle"]
    /\ entry' = [entry EXCEPT ![s] = NoRuling]
    /\ UNCHANGED <<revision, storeVars, prepared, merged, reviewVars, applyVars>>

\* _atomic_append reads it a third time, to add the ruling to what is there.
\* Slip: the ruling lands in front of the others.
MergedInFront(decisions, d) == <<d>> \o decisions

MergedText(decisions, d) == Append(decisions, d)

Merge(s) ==
    /\ recording[s] = "judged"
    /\ merged' = [merged EXCEPT ![s] = MergedText(file, entry[s])]
    /\ recording' = [recording EXCEPT ![s] = "merged"]
    /\ UNCHANGED <<revision, storeVars, prepared, entry, reviewVars, applyVars>>

\* _replace_atomically: one rename.
Replace(s) ==
    /\ recording[s] = "merged"
    /\ file' = merged[s]
    /\ recording' = [recording EXCEPT ![s] = "idle"]
    /\ entry' = [entry EXCEPT ![s] = NoRuling]
    /\ merged' = [merged EXCEPT ![s] = <<>>]
    /\ UNCHANGED <<revision, head, prepared, reviewVars, applyVars>>

\* client_review: HEAD in a worker thread, then the working tree.
ReviewHead(s) ==
    /\ review' = [review EXCEPT ![s] = "head"]
    /\ atHead' = [atHead EXCEPT ![s] = head]
    /\ UNCHANGED <<revision, storeVars, prepared, recordVars, applyVars>>

\* is_pending_for_scope, over the whole of the scope.
\* Slip: a proposal that was ruled on counts as committed.
IsPendingByProposal(d, committed) ==
    ~ \E i \in DOMAIN committed : committed[i].proposal = d.proposal

IsPending(d, committed) == ~ \E i \in DOMAIN committed : committed[i].id = d.id

\* What a review that read `committed` at HEAD shows, reading the tree now.
Shown(committed) == {i \in DOMAIN file : IsPending(file[i], committed)}

\* The tree is read and the answer is sent.
ReviewTree(s) ==
    /\ review[s] = "head"
    /\ review' = [review EXCEPT ![s] = "idle"]
    /\ atHead' = [atHead EXCEPT ![s] = <<>>]
    /\ UNCHANGED <<revision, storeVars, prepared, recordVars, applyVars>>

\* apply_proposal_route up to the worker thread; a stale proposal is refused.
ApplyProposal(s, p) ==
    /\ p \in prepared[s]
    /\ ~ IsStale(p)
    /\ apply' = [apply EXCEPT ![s] = "fresh"]
    /\ applied' = [applied EXCEPT ![s] = p]
    /\ UNCHANGED <<revision, storeVars, prepared, recordVars, reviewVars>>

\* _require_authoritative_decision: one ruling bound at HEAD, and it approves.
\* Slip: one approval suffices, whatever else was ruled.
AuthorizesIfAnyApproves(decisions, p) ==
    \E i \in DOMAIN decisions :
        decisions[i].proposal = p /\ decisions[i].answer = "approve" /\ decisions[i].status = "approved"

Authorizes(decisions, p) ==
    LET bound == {i \in DOMAIN decisions : decisions[i].proposal = p}
    IN  /\ Cardinality(bound) = 1
        /\ \A i \in bound : decisions[i].answer = "approve" /\ decisions[i].status = "approved"

\* A verified proposal is all an apply yields: it writes no file.
ApplyVerified(s) ==
    /\ apply[s] = "fresh"
    /\ Authorizes(head, applied[s])
    /\ apply' = [apply EXCEPT ![s] = "verified"]
    /\ UNCHANGED <<revision, storeVars, prepared, recordVars, reviewVars, applied>>

ApplyRefused(s) ==
    /\ apply[s] = "fresh"
    /\ ~ Authorizes(head, applied[s])
    /\ apply' = [apply EXCEPT ![s] = "idle"]
    /\ applied' = [applied EXCEPT ![s] = NoProposal]
    /\ UNCHANGED <<revision, storeVars, prepared, recordVars, reviewVars>>

\* What a Studio keeps in memory is lost; the store is not.
Restart(s) ==
    /\ prepared' = [prepared EXCEPT ![s] = {}]
    /\ recording' = [recording EXCEPT ![s] = "idle"]
    /\ entry' = [entry EXCEPT ![s] = NoRuling]
    /\ merged' = [merged EXCEPT ![s] = <<>>]
    /\ review' = [review EXCEPT ![s] = "idle"]
    /\ atHead' = [atHead EXCEPT ![s] = <<>>]
    /\ apply' = [apply EXCEPT ![s] = "idle"]
    /\ applied' = [applied EXCEPT ![s] = NoProposal]
    /\ UNCHANGED <<revision, storeVars>>

-----------------------------------------------------------------------------
Init ==
    /\ revision \in Revisions
    /\ head = <<>> /\ file = <<>>
    /\ prepared = [s \in Studios |-> {}]
    /\ recording = [s \in Studios |-> "idle"]
    /\ entry = [s \in Studios |-> NoRuling]
    /\ merged = [s \in Studios |-> <<>>]
    /\ review = [s \in Studios |-> "idle"]
    /\ atHead = [s \in Studios |-> <<>>]
    /\ apply = [s \in Studios |-> "idle"]
    /\ applied = [s \in Studios |-> NoProposal]

Record(s) ==
    \/ \E p \in Proposals, answer \in Answers : Submit(s, p, answer)
    \/ Judge(s) \/ Refuse(s) \/ Merge(s) \/ Replace(s)

Next ==
    \/ \E r \in Revisions : WorkspaceMoves(r)
    \/ Commit
    \/ Discard
    \/ \E i \in DOMAIN file : Supersede(i)
    \/ \E s \in Studios :
         \/ \E a \in Artifacts : Prepare(s, a)
         \/ Record(s)
         \/ ReviewHead(s)
         \/ ReviewTree(s)
         \/ \E p \in Proposals : ApplyProposal(s, p)
         \/ ApplyVerified(s)
         \/ ApplyRefused(s)
         \/ Restart(s)

Spec == Init /\ [][Next]_vars

-----------------------------------------------------------------------------
(* Properties                                                              *)

TypeOK ==
    /\ revision \in Revisions
    /\ head \in Seq(Rulings) /\ file \in Seq(Rulings)
    /\ prepared \in [Studios -> SUBSET Proposals]
    /\ recording \in [Studios -> {"idle", "numbered", "judged", "merged"}]
    /\ entry \in [Studios -> Rulings \cup {NoRuling}]
    /\ \A s \in Studios : entry[s] = NoRuling <=> recording[s] = "idle"
    /\ merged \in [Studios -> Seq(Rulings)]
    /\ review \in [Studios -> {"idle", "head"}]
    /\ atHead \in [Studios -> Seq(Rulings)]
    /\ apply \in [Studios -> {"idle", "fresh", "verified"}]
    /\ applied \in [Studios -> Proposals \cup {NoProposal}]
    /\ \A s \in Studios : applied[s] = NoProposal <=> apply[s] = "idle"

\* No two rulings of the store share an id ("the write path refuses a
\* duplicate as a backstop for two concurrent recordings").
IdsAreDistinct == \A i, j \in DOMAIN file : file[i].id = file[j].id => i = j

\* A proposal (an artifact at one revision) has at most one active ruling: a second one
\* would be the conflict that the gate reports once it is committed.
OneActiveRuling ==
    \A i, j \in DOMAIN file :
        Active(file[i]) /\ Active(file[j]) /\ file[i].proposal = file[j].proposal => i = j

\* Two readings of one ruling: a person may supersede it in between.
SameRuling(d, e) == d.id = e.id /\ d.proposal = e.proposal /\ d.answer = e.answer

\* However old the HEAD a review has read, a ruling that was not there is shown
\* as awaiting its commit: it is not taken for another that has its id.
NothingPendingIsHidden ==
    \A s \in Studios : review[s] = "head" =>
        \A i \in DOMAIN file \ Shown(atHead[s]) :
            \E j \in DOMAIN atHead[s] : SameRuling(file[i], atHead[s][j])

\* A recording is refused for a conflict only: no Studio hands out an id that
\* the write path then finds taken, artifacts of one slug included.
RefusedForConflictOnly ==
    [][\A s \in Studios : Refuse(s) => Conflicts(file, entry[s])]_vars

\* An apply was verified by the first ruling on its proposal, and no commit,
\* supersession or later ruling takes that ruling out of HEAD.
VerifiedByTheFirstRuling ==
    \A s \in Studios : apply[s] = "verified" =>
        \E i \in DOMAIN head :
            /\ head[i].proposal = applied[s] /\ head[i].answer = "approve"
            /\ \A j \in 1 .. i - 1 : head[j].proposal # applied[s]

\* With one Studio, however its steps fall among the people's, the store is the
\* ledger that was promised.
RefinesLedger == Ledger!Spec
=============================================================================
