---------------------- MODULE GovernedDecisions_proofs ----------------------
(***************************************************************************)
(* Proofs about GovernedDecisions, for every number of Studios, artifacts, *)
(* slugs, revisions and rulings.  The types need nothing.  The rest needs  *)
(* that no two recordings overlap: where they do, the store is not the     *)
(* ledger it promises to be, as the run decisions_two_studios shows.       *)
(*                                                                         *)
(* The inductive invariant says that HEAD is an earlier reading of the     *)
(* working tree, and that what a recording in progress was judged by is    *)
(* still what the store holds.                                             *)
(***************************************************************************)
EXTENDS GovernedDecisions, FiniteSetTheorems, WellFoundedInduction, TLAPS

\* At any time at most one Studio on the workspace is in the middle of a recording.
OneRecords ==
    \A s, t \in Studios : recording[s] # "idle" /\ recording[t] # "idle" => s = t

OneStudio == \A s, t \in Studios : s = t

\* `earlier` is what `later` was before rulings were added and superseded.
EarlierReading(earlier, later) ==
    /\ Len(earlier) <= Len(later)
    /\ \A i \in 1 .. Len(earlier) : SameRuling(earlier[i], later[i])

OneActiveAtHead ==
    \A i, j \in DOMAIN head :
        Active(head[i]) /\ Active(head[j]) /\ head[i].proposal = head[j].proposal => i = j

\* The ids under a slug are numbered without running ahead of the store.
NumbersAreBounded == \A i \in DOMAIN file : file[i].id.n <= i

StoreInv ==
    /\ IdsAreDistinct
    /\ OneActiveRuling
    /\ OneActiveAtHead
    /\ NumbersAreBounded
    /\ EarlierReading(head, file)

RecordInv ==
    \A s \in Studios :
        /\ recording[s] # "idle" =>
              /\ ~ TakenId(file, entry[s])
              /\ entry[s].id.n <= Len(file) + 1
        /\ recording[s] \in {"judged", "merged"} => ~ Conflicts(file, entry[s])
        /\ recording[s] = "merged" => merged[s] = Append(file, entry[s])

ReviewInv == \A s \in Studios : review[s] = "head" => EarlierReading(atHead[s], head)

IInv == TypeOK /\ StoreInv /\ RecordInv /\ ReviewInv /\ VerifiedByTheFirstRuling

-----------------------------------------------------------------------------
(* The next number                                                         *)

\* A non-empty set of numbers with a bound has a greatest element.
LEMMA GreatestExists ==
    ASSUME NEW T \in SUBSET Nat, T # {}, NEW b \in Nat, \A m \in T : m <= b
    PROVE  \E n \in T : \A m \in T : m <= n
<1> DEFINE U == {c \in Nat : \A m \in T : m <= c}
<1>1. U # {} /\ U \subseteq Nat
  OBVIOUS
<1>2. \E c \in U : \A d \in U : ~ (<<d, c>> \in OpToRel(<, Nat))
  BY <1>1, NatLessThanWellFounded, WFMin
<1>3. PICK c \in U : \A d \in U : ~ (d < c)
  BY <1>1, <1>2 DEF OpToRel
<1>4. SUFFICES ASSUME c \notin T PROVE FALSE
  OBVIOUS
<1>5. c \in Nat /\ \A m \in T : m \in Nat /\ m <= c /\ m # c
  BY <1>4
<1>6. c - 1 \in Nat /\ \A m \in T : m <= c - 1
  <2>1. PICK m0 \in T : TRUE
    OBVIOUS
  <2>2. c \in Nat /\ c # 0
    BY <1>5, <2>1
  <2>3. ASSUME NEW m \in T PROVE m <= c - 1
    BY <1>5, <2>2
  <2> QED BY <2>2, <2>3
<1>7. c - 1 \in U /\ c - 1 < c
  BY <1>5, <1>6
<1> QED BY <1>3, <1>7

\* Finitely many numbers have a bound: there is no first one at which it is lost.
LEMMA NumbersHaveABound ==
    ASSUME NEW m \in Nat, NEW f \in [1 .. m -> Nat]
    PROVE  \E b \in Nat : \A i \in 1 .. m : f[i] <= b
<1> DEFINE Unbounded == {k \in 0 .. m : ~ \E b \in Nat : \A i \in 1 .. k : f[i] <= b}
<1>1. SUFFICES ASSUME Unbounded # {} PROVE FALSE
  <2>1. m \in 0 .. m
    OBVIOUS
  <2> QED BY <2>1
<1>2. \E k \in Unbounded : \A j \in Unbounded : ~ (<<j, k>> \in OpToRel(<, Nat))
  <2>1. Unbounded \subseteq Nat
    OBVIOUS
  <2> HIDE DEF Unbounded
  <2> QED BY <1>1, <2>1, NatLessThanWellFounded, WFMin
<1>3. PICK k \in Unbounded : \A j \in Unbounded : ~ (j < k)
  <2>1. Unbounded \subseteq Nat
    OBVIOUS
  <2> HIDE DEF Unbounded
  <2> QED BY <1>2, <2>1 DEF OpToRel
<1>4. k # 0
  BY \A i \in 1 .. 0 : f[i] <= 0
<1>5. k \in 1 .. m /\ k - 1 \in 0 .. m /\ k - 1 < k
  BY <1>4
<1>6. k - 1 \notin Unbounded
  BY <1>3, <1>5
<1>7. PICK b \in Nat : \A i \in 1 .. k - 1 : f[i] <= b
  BY <1>5, <1>6
<1>8. f[k] \in Nat /\ \A i \in 1 .. k : f[i] <= b + f[k]
  BY <1>5, <1>7
<1>9. b + f[k] \in Nat
  BY <1>8
<1> QED BY <1>8, <1>9

LEMMA RulingType ==
    ASSUME NEW d \in Rulings
    PROVE  d.id \in Ids /\ d.id.n \in Nat /\ d.id.slug \in Slugs /\ d.proposal \in Proposals
BY DEF Rulings, Ids

\* The next number under a slug is above every number taken, and at most one more
\* than the store has rulings.
LEMMA NextNumberIsFree ==
    ASSUME NEW decisions \in Seq(Rulings), NEW a \in Artifacts,
           \A i \in DOMAIN decisions : decisions[i].id.n <= i
    PROVE  /\ NextNumber(decisions, a) \in Nat
           /\ NextNumber(decisions, a) <= Len(decisions) + 1
           /\ \A i \in DOMAIN decisions :
                 decisions[i].id.slug = SlugOf[a] => decisions[i].id.n < NextNumber(decisions, a)
<1> DEFINE T == Taken(decisions, SlugOf[a]) \cup {0}
<1>1. Len(decisions) \in Nat /\ DOMAIN decisions = 1 .. Len(decisions)
  OBVIOUS
<1>2. \A i \in DOMAIN decisions : decisions[i].id.n \in Nat /\ decisions[i].id.n <= Len(decisions)
  <2>1. \A i \in DOMAIN decisions : decisions[i] \in Rulings
    OBVIOUS
  <2>2. \A i \in DOMAIN decisions : decisions[i].id.n \in Nat
    BY <2>1, RulingType
  <2> QED BY <1>1, <2>2
<1>3. T \in SUBSET Nat /\ T # {} /\ \A m \in T : m <= Len(decisions)
  BY <1>1, <1>2 DEF Taken
<1>4. \E n \in T : \A m \in T : m <= n
  BY <1>1, <1>3, GreatestExists
<1> DEFINE top == CHOOSE n \in T : \A m \in T : m <= n
<1>5. top \in T /\ \A m \in T : m <= top
  BY <1>4
<1>6. NextNumber(decisions, a) = 1 + top
  BY DEF NextNumber
<1>7. \A i \in DOMAIN decisions : decisions[i].id.slug = SlugOf[a] => decisions[i].id.n \in T
  BY DEF Taken
<1> HIDE DEF T, top
<1> QED BY <1>1, <1>2, <1>3, <1>5, <1>6, <1>7

\* However the numbers came about, there is a next one.
LEMMA NextNumberExists ==
    ASSUME NEW decisions \in Seq(Rulings), NEW a \in Artifacts
    PROVE  NextNumber(decisions, a) \in Nat
<1> DEFINE T == Taken(decisions, SlugOf[a]) \cup {0}
<1>1. Len(decisions) \in Nat /\ DOMAIN decisions = 1 .. Len(decisions)
  OBVIOUS
<1>2. \A i \in DOMAIN decisions : decisions[i].id.n \in Nat
  <2>1. \A i \in DOMAIN decisions : decisions[i] \in Rulings
    OBVIOUS
  <2> QED BY <2>1, RulingType
<1> DEFINE number == [i \in 1 .. Len(decisions) |-> decisions[i].id.n]
<1>3. PICK b \in Nat : \A i \in DOMAIN decisions : decisions[i].id.n <= b
  <2>1. number \in [1 .. Len(decisions) -> Nat]
    BY <1>1, <1>2
  <2>2. \E b \in Nat : \A i \in 1 .. Len(decisions) : number[i] <= b
    BY <1>1, <2>1, NumbersHaveABound
  <2> QED BY <1>1, <2>2
<1>4. T \in SUBSET Nat /\ T # {} /\ \A m \in T : m <= b
  BY <1>2, <1>3 DEF Taken
<1>5. \E n \in T : \A m \in T : m <= n
  BY <1>4, GreatestExists
<1>6. (CHOOSE n \in T : \A m \in T : m <= n) \in Nat
  BY <1>4, <1>5
<1>7. NextNumber(decisions, a) = 1 + (CHOOSE n \in T : \A m \in T : m <= n)
  BY DEF NextNumber
<1> HIDE DEF T
<1> QED BY <1>6, <1>7

-----------------------------------------------------------------------------
(* Readings of the store                                                   *)

LEMMA ReadingIsReflexive ==
    ASSUME NEW a \in Seq(Rulings)
    PROVE  EarlierReading(a, a)
BY DEF EarlierReading, SameRuling

LEMMA ReadingIsTransitive ==
    ASSUME NEW a \in Seq(Rulings), NEW b \in Seq(Rulings), NEW c \in Seq(Rulings),
           EarlierReading(a, b), EarlierReading(b, c)
    PROVE  EarlierReading(a, c)
BY DEF EarlierReading, SameRuling

LEMMA ReadingOfMore ==
    ASSUME NEW a \in Seq(Rulings), NEW b \in Seq(Rulings), NEW d \in Rulings,
           EarlierReading(a, b)
    PROVE  EarlierReading(a, Append(b, d))
BY DEF EarlierReading, SameRuling

\* What holds of the ids of a store holds of its earlier readings.
LEMMA ReadingKeepsIds ==
    ASSUME NEW a \in Seq(Rulings), NEW b \in Seq(Rulings), EarlierReading(a, b),
           \A i, j \in DOMAIN b : b[i].id = b[j].id => i = j,
           \A i \in DOMAIN b : b[i].id.n <= i
    PROVE  /\ \A i, j \in DOMAIN a : a[i].id = a[j].id => i = j
           /\ \A i \in DOMAIN a : a[i].id.n <= i
<1>1. Len(a) \in Nat /\ Len(b) \in Nat /\ DOMAIN a = 1 .. Len(a) /\ DOMAIN b = 1 .. Len(b)
  OBVIOUS
<1>2. \A i \in DOMAIN a : i \in DOMAIN b /\ a[i].id = b[i].id
  BY <1>1 DEF EarlierReading, SameRuling
<1> QED BY <1>2

-----------------------------------------------------------------------------
(* The store                                                               *)

USE SlugAssumption, NothingAssumption

LEMMA StoreStepCommit ==
    ASSUME TypeOK, StoreInv, Commit
    PROVE  StoreInv'
<1>1. EarlierReading(file, file)
  BY ReadingIsReflexive DEF TypeOK
<1> QED BY <1>1 DEF StoreInv, Commit, IdsAreDistinct, OneActiveRuling, OneActiveAtHead,
           NumbersAreBounded, EarlierReading, SameRuling, Active

LEMMA StoreStepDiscard ==
    ASSUME TypeOK, StoreInv, Discard
    PROVE  StoreInv'
<1>1. EarlierReading(head, head)
  BY ReadingIsReflexive DEF TypeOK
<1>2. /\ \A i, j \in DOMAIN head : head[i].id = head[j].id => i = j
      /\ \A i \in DOMAIN head : head[i].id.n <= i
  BY ReadingKeepsIds DEF TypeOK, StoreInv, IdsAreDistinct, NumbersAreBounded
<1> QED BY <1>1, <1>2 DEF StoreInv, Discard, IdsAreDistinct, OneActiveRuling, OneActiveAtHead,
           NumbersAreBounded, EarlierReading, SameRuling, Active

LEMMA StoreStepSupersede ==
    ASSUME TypeOK, StoreInv, NEW i \in DOMAIN file, Supersede(i)
    PROVE  StoreInv'
<1>1. /\ file \in Seq(Rulings) /\ Len(file) \in Nat /\ DOMAIN file = 1 .. Len(file)
      /\ Len(head) \in Nat /\ DOMAIN head = 1 .. Len(head)
  BY DEF TypeOK
<1>2. file' = [file EXCEPT ![i].status = "superseded"] /\ head' = head
  BY DEF Supersede
<1>3. Len(file') = Len(file) /\ DOMAIN file' = DOMAIN file
  BY <1>1, <1>2
<1>4. \A j \in DOMAIN file : j # i => file'[j] = file[j]
  BY <1>1, <1>2
<1>5. /\ file'[i].id = file[i].id /\ file'[i].proposal = file[i].proposal
      /\ file'[i].answer = file[i].answer /\ file'[i].status = "superseded"
  <2>1. file[i] \in Rulings /\ file'[i] = [file[i] EXCEPT !.status = "superseded"]
    BY <1>1, <1>2
  <2> QED BY <2>1 DEF Rulings
<1>6. \A j \in DOMAIN file : file'[j].id = file[j].id /\ file'[j].proposal = file[j].proposal
                              /\ file'[j].answer = file[j].answer
  BY <1>4, <1>5
<1>7. \A j \in DOMAIN file : Active(file'[j]) => j # i /\ Active(file[j])
  BY <1>4, <1>5 DEF Active
<1>8. IdsAreDistinct' /\ NumbersAreBounded'
  BY <1>3, <1>6 DEF StoreInv, IdsAreDistinct, NumbersAreBounded
<1>9. OneActiveRuling'
  BY <1>3, <1>6, <1>7 DEF StoreInv, OneActiveRuling, Active
<1>10. OneActiveAtHead'
  BY <1>2 DEF StoreInv, OneActiveAtHead, Active
<1>11. EarlierReading(head, file)'
  BY <1>1, <1>2, <1>3, <1>6 DEF StoreInv, EarlierReading, SameRuling
<1> QED BY <1>8, <1>9, <1>10, <1>11 DEF StoreInv

LEMMA StoreStepReplace ==
    ASSUME TypeOK, StoreInv, RecordInv, NEW s \in Studios, Replace(s)
    PROVE  StoreInv'
<1> DEFINE d == entry[s]
<1>1. file' = Append(file, d) /\ head' = head
  BY DEF Replace, RecordInv
<1>2. d \in Rulings
  BY DEF Replace, TypeOK
<1>3. /\ \A j \in DOMAIN file : file[j].id # d.id
      /\ d.id.n <= Len(file) + 1
      /\ Active(d) => \A j \in DOMAIN file : Active(file[j]) => file[j].proposal # d.proposal
  BY DEF Replace, RecordInv, TakenId, Conflicts
<1> HIDE DEF d
<1>4. /\ file \in Seq(Rulings) /\ Len(file) \in Nat /\ DOMAIN file = 1 .. Len(file)
  BY DEF TypeOK
<1>5. /\ DOMAIN file' = 1 .. Len(file) + 1
      /\ file'[Len(file) + 1] = d
      /\ \A j \in DOMAIN file : file'[j] = file[j]
  BY <1>1, <1>2, <1>4
<1>6. \A j \in DOMAIN file' : j \in DOMAIN file \/ j = Len(file) + 1
  BY <1>4, <1>5
<1>7. IdsAreDistinct'
  BY <1>3, <1>5, <1>6 DEF StoreInv, IdsAreDistinct
<1>8. NumbersAreBounded'
  BY <1>3, <1>5, <1>6 DEF StoreInv, NumbersAreBounded
<1>9. OneActiveRuling'
  BY <1>3, <1>5, <1>6 DEF StoreInv, OneActiveRuling, Active
<1>10. OneActiveAtHead'
  BY <1>1 DEF StoreInv, OneActiveAtHead, Active
<1>11. EarlierReading(head, file)'
  BY <1>1, <1>2, ReadingOfMore DEF StoreInv, TypeOK
<1> QED BY <1>7, <1>8, <1>9, <1>10, <1>11 DEF StoreInv

-----------------------------------------------------------------------------
(* Types                                                                   *)

LEMMA SubmittedType ==
    ASSUME TypeOK, NEW s \in Studios, NEW p \in Proposals,
           NEW answer \in Answers, Submit(s, p, answer)
    PROVE  /\ p.artifact \in Artifacts
           /\ entry'[s] \in Rulings
           /\ entry'[s].id = [slug |-> SlugOf[p.artifact], n |-> NextNumber(file, p.artifact)]
<1>1. p.artifact \in Artifacts
  BY DEF Proposals
<1>2. NextNumber(file, p.artifact) \in Nat
  BY <1>1, NextNumberExists DEF TypeOK
<1>3. SlugOf[p.artifact] \in Slugs
  BY <1>1
<1>4. StatusFor(answer) \in {"approved", "rejected", "superseded"}
  BY DEF StatusFor
<1>5. [slug |-> SlugOf[p.artifact], n |-> NextNumber(file, p.artifact)] \in Ids
  BY <1>2, <1>3 DEF Ids
<1>6. entry'[s] = [id |-> [slug |-> SlugOf[p.artifact], n |-> NextNumber(file, p.artifact)],
                   proposal |-> p, answer |-> answer, status |-> StatusFor(answer)]
  BY DEF Submit, TypeOK
<1> QED BY <1>1, <1>4, <1>5, <1>6 DEF Rulings

LEMMA TypeStep ==
    ASSUME TypeOK, [Next]_vars
    PROVE  TypeOK'
<1> USE DEF TypeOK, recordVars, storeVars, reviewVars, applyVars
<1>1. ASSUME NEW r \in Revisions, WorkspaceMoves(r) PROVE TypeOK'
  BY <1>1 DEF WorkspaceMoves
<1>2. CASE Commit
  BY <1>2 DEF Commit
<1>3. CASE Discard
  BY <1>3 DEF Discard
<1>4. ASSUME NEW i \in DOMAIN file, Supersede(i) PROVE TypeOK'
  <2>1. [file[i] EXCEPT !.status = "superseded"] \in Rulings
    <3>1. file[i] \in Rulings
      OBVIOUS
    <3> QED BY <3>1 DEF Rulings
  <2>2. file' = [file EXCEPT ![i] = [file[i] EXCEPT !.status = "superseded"]]
    BY <1>4 DEF Supersede
  <2>3. file' \in Seq(Rulings)
    BY <2>1, <2>2
  <2> QED BY <1>4, <2>3 DEF Supersede
<1>5. ASSUME NEW s \in Studios, NEW a \in Artifacts, Prepare(s, a) PROVE TypeOK'
  <2>1. [artifact |-> a, revision |-> revision] \in Proposals
    BY DEF Proposals
  <2> QED BY <1>5, <2>1 DEF Prepare
<1>6. ASSUME NEW s \in Studios, NEW p \in Proposals, NEW answer \in Answers, Submit(s, p, answer)
      PROVE  TypeOK'
  <2>1. entry'[s] \in Rulings
    BY <1>6, SubmittedType
  <2>2. \A t \in Studios : t # s => entry'[t] = entry[t]
    BY <1>6 DEF Submit
  <2>3. entry' \in [Studios -> Rulings \cup {NoRuling}]
    BY <1>6, <2>1, <2>2 DEF Submit
  <2> QED BY <1>6, <2>1, <2>2, <2>3 DEF Submit
<1>7. ASSUME NEW s \in Studios, Judge(s) PROVE TypeOK'
  BY <1>7 DEF Judge
<1>8. ASSUME NEW s \in Studios, Refuse(s) PROVE TypeOK'
  BY <1>8 DEF Refuse
<1>9. ASSUME NEW s \in Studios, Merge(s) PROVE TypeOK'
  <2>1. entry[s] \in Rulings
    BY <1>9 DEF Merge
  <2>2. MergedText(file, entry[s]) \in Seq(Rulings)
    BY <2>1 DEF MergedText
  <2> QED BY <1>9, <2>2 DEF Merge
<1>10. ASSUME NEW s \in Studios, Replace(s) PROVE TypeOK'
  BY <1>10 DEF Replace
<1>11. ASSUME NEW s \in Studios, ReviewHead(s) PROVE TypeOK'
  BY <1>11 DEF ReviewHead
<1>12. ASSUME NEW s \in Studios, ReviewTree(s) PROVE TypeOK'
  BY <1>12 DEF ReviewTree
<1>13. ASSUME NEW s \in Studios, NEW p \in Proposals, ApplyProposal(s, p) PROVE TypeOK'
  BY <1>13 DEF ApplyProposal
<1>14. ASSUME NEW s \in Studios, ApplyVerified(s) PROVE TypeOK'
  BY <1>14 DEF ApplyVerified
<1>15. ASSUME NEW s \in Studios, ApplyRefused(s) PROVE TypeOK'
  BY <1>15 DEF ApplyRefused
<1>16. ASSUME NEW s \in Studios, Restart(s) PROVE TypeOK'
  BY <1>16 DEF Restart
<1>17. CASE UNCHANGED vars
  BY <1>17 DEF vars
<1> QED BY <1>1, <1>2, <1>3, <1>4, <1>5, <1>6, <1>7, <1>8, <1>9, <1>10, <1>11, <1>12, <1>13,
           <1>14, <1>15, <1>16, <1>17 DEF Next, Record

-----------------------------------------------------------------------------
(* The steps                                                               *)

\* The actions that leave the store alone.
LEMMA StoreStep ==
    ASSUME TypeOK, StoreInv, RecordInv, [Next]_vars
    PROVE  StoreInv'
<1>1. CASE UNCHANGED storeVars
  BY <1>1 DEF storeVars, StoreInv, IdsAreDistinct, OneActiveRuling, OneActiveAtHead,
              NumbersAreBounded, EarlierReading, SameRuling, Active
<1>2. CASE \/ Commit \/ Discard \/ \E i \in DOMAIN file : Supersede(i)
           \/ \E s \in Studios : Replace(s)
  BY <1>2, StoreStepCommit, StoreStepDiscard, StoreStepSupersede, StoreStepReplace
<1> QED BY <1>1, <1>2 DEF Next, Record, vars, storeVars, WorkspaceMoves, Prepare, Submit, Judge, Refuse,
           Merge, ReviewHead, ReviewTree, ApplyProposal, ApplyVerified, ApplyRefused, Restart

LEMMA SubmittedIsFree ==
    ASSUME TypeOK, StoreInv, NEW s \in Studios, NEW p \in Proposals,
           NEW answer \in Answers, Submit(s, p, answer)
    PROVE  ~ TakenId(file, entry'[s]) /\ entry'[s].id.n <= Len(file) + 1
<1> DEFINE n == NextNumber(file, p.artifact)
<1>1. p.artifact \in Artifacts /\ entry'[s].id = [slug |-> SlugOf[p.artifact], n |-> n]
  BY SubmittedType DEF StoreInv
<1>2. /\ n \in Nat /\ n <= Len(file) + 1
      /\ \A i \in DOMAIN file : file[i].id.slug = SlugOf[p.artifact] => file[i].id.n < n
  BY <1>1, NextNumberIsFree DEF TypeOK, StoreInv, NumbersAreBounded
<1> HIDE DEF n
<1>3. ASSUME NEW i \in DOMAIN file, file[i].id = entry'[s].id PROVE FALSE
  <2>1. file[i].id.slug = SlugOf[p.artifact] /\ file[i].id.n = n
    BY <1>1, <1>3
  <2> QED BY <1>2, <2>1
<1> QED BY <1>1, <1>2, <1>3 DEF TakenId

\* Nobody but the one Studio that is recording adds to the store, and no person
\* edits it meanwhile: what the recording was judged by is what it replaces.
LEMMA RecordStep ==
    ASSUME OneRecords, OneRecords', TypeOK, StoreInv, RecordInv, [Next]_vars
    PROVE  RecordInv'
<1>1. CASE UNCHANGED <<file, recordVars>>
  BY <1>1 DEF recordVars, RecordInv, TakenId, Conflicts, Active
<1>2. ASSUME NEW s \in Studios, recording'[s] = "idle", file' = file,
             \A t \in Studios : t # s => /\ recording'[t] = recording[t]
                                        /\ entry'[t] = entry[t] /\ merged'[t] = merged[t]
      PROVE  RecordInv'
  BY <1>2 DEF RecordInv, TakenId, Conflicts, Active
<1>3. CASE Discard \/ \E i \in DOMAIN file : Supersede(i)
  BY <1>3 DEF Discard, Supersede, Quiet, recordVars, RecordInv
<1>4. ASSUME NEW s \in Studios, NEW p \in Proposals, NEW answer \in Answers, Submit(s, p, answer)
      PROVE  RecordInv'
  <2>1. recording'[s] = "numbered" /\ file' = file
    BY <1>4 DEF Submit, TypeOK, storeVars
  <2>2. ~ TakenId(file, entry'[s]) /\ entry'[s].id.n <= Len(file) + 1
    BY <1>4, SubmittedIsFree
  <2> QED BY <2>1, <2>2 DEF OneRecords, RecordInv, TakenId
<1>5. ASSUME NEW s \in Studios, Judge(s) PROVE RecordInv'
  <2>1. /\ recording'[s] = "judged" /\ file' = file /\ entry' = entry
        /\ ~ TakenId(file, entry[s]) /\ ~ Conflicts(file, entry[s]) /\ recording[s] = "numbered"
    BY <1>5 DEF Judge, TypeOK, storeVars
  <2> QED BY <2>1 DEF OneRecords, RecordInv, TakenId, Conflicts, Active
<1>6. ASSUME NEW s \in Studios, Merge(s) PROVE RecordInv'
  <2>1. /\ recording'[s] = "merged" /\ file' = file /\ entry' = entry
        /\ merged'[s] = Append(file, entry[s]) /\ recording[s] = "judged"
    BY <1>6 DEF Merge, MergedText, TypeOK, storeVars
  <2> QED BY <2>1 DEF OneRecords, RecordInv, TakenId, Conflicts, Active
<1>7. ASSUME NEW s \in Studios, Refuse(s) \/ Restart(s) PROVE RecordInv'
  <2>1. /\ recording'[s] = "idle" /\ file' = file
        /\ \A t \in Studios : t # s => /\ recording'[t] = recording[t]
                                       /\ entry'[t] = entry[t] /\ merged'[t] = merged[t]
    BY <1>7 DEF Refuse, Restart, TypeOK, storeVars
  <2> QED BY <2>1, <1>2
<1>8. ASSUME NEW s \in Studios, Replace(s) PROVE RecordInv'
  <2>1. \A t \in Studios : recording'[t] = "idle"
    BY <1>8 DEF Replace, TypeOK, OneRecords
  <2> QED BY <2>1 DEF RecordInv
<1> QED BY <1>1, <1>3, <1>4, <1>5, <1>6, <1>7, <1>8 DEF Next, Record, vars, storeVars, recordVars,
           WorkspaceMoves, Commit, Prepare, ReviewHead, ReviewTree, ApplyProposal, ApplyVerified,
           ApplyRefused

LEMMA ReviewStep ==
    ASSUME TypeOK, StoreInv, ReviewInv, [Next]_vars
    PROVE  ReviewInv'
<1>1. CASE UNCHANGED <<head, reviewVars>>
  BY <1>1 DEF reviewVars, ReviewInv, EarlierReading, SameRuling
<1>2. CASE Commit
  <2>1. head' = file /\ review' = review /\ atHead' = atHead
    BY <1>2 DEF Commit, reviewVars
  <2>2. ASSUME NEW s \in Studios, review[s] = "head" PROVE EarlierReading(atHead[s], file)
    BY <2>2, ReadingIsTransitive DEF TypeOK, StoreInv, ReviewInv
  <2> QED BY <2>1, <2>2 DEF ReviewInv
<1>3. ASSUME NEW s \in Studios, ReviewHead(s) PROVE ReviewInv'
  <2>1. EarlierReading(head, head)
    BY ReadingIsReflexive DEF TypeOK
  <2>2. /\ atHead'[s] = head /\ head' = head
        /\ \A t \in Studios : t # s => review'[t] = review[t] /\ atHead'[t] = atHead[t]
    BY <1>3 DEF ReviewHead, TypeOK, storeVars
  <2> QED BY <2>1, <2>2 DEF ReviewInv
<1>4. ASSUME NEW s \in Studios, ReviewTree(s) \/ Restart(s) PROVE ReviewInv'
  <2>1. /\ review'[s] = "idle" /\ head' = head
        /\ \A t \in Studios : t # s => review'[t] = review[t] /\ atHead'[t] = atHead[t]
    BY <1>4 DEF ReviewTree, Restart, TypeOK, storeVars
  <2> QED BY <2>1 DEF ReviewInv
<1> QED BY <1>1, <1>2, <1>3, <1>4 DEF Next, Record, vars, storeVars, reviewVars, WorkspaceMoves, Discard,
           Supersede, Prepare, Submit, Judge, Refuse, Merge, Replace, ApplyProposal, ApplyVerified,
           ApplyRefused

\* One ruling bound to a proposal is the first one bound to it.
LEMMA TheOnlyRulingIsTheFirst ==
    ASSUME TypeOK, NEW p, Authorizes(head, p)
    PROVE  \E i \in DOMAIN head :
              /\ head[i].proposal = p /\ head[i].answer = "approve"
              /\ \A j \in 1 .. i - 1 : head[j].proposal # p
<1> DEFINE B == {i \in DOMAIN head : head[i].proposal = p}
<1>1. Len(head) \in Nat /\ DOMAIN head = 1 .. Len(head)
  BY DEF TypeOK
<1>2. IsFiniteSet(B)
  <2>1. IsFiniteSet(1 .. Len(head)) /\ B \subseteq 1 .. Len(head)
    BY <1>1, FS_Interval
  <2> QED BY <2>1, FS_Subset
<1>3. PICK i : B = {i}
  BY <1>2, FS_Singleton DEF Authorizes
<1>4. i \in B /\ head[i].answer = "approve"
  BY <1>3 DEF Authorizes
<1>5. \A j \in 1 .. i - 1 : j \in DOMAIN head /\ j # i
  BY <1>1, <1>4
<1> QED BY <1>3, <1>4, <1>5

LEMMA VerifiedStep ==
    ASSUME TypeOK, StoreInv, VerifiedByTheFirstRuling, [Next]_vars
    PROVE  VerifiedByTheFirstRuling'
<1>1. CASE UNCHANGED <<head, applyVars>>
  BY <1>1 DEF applyVars, VerifiedByTheFirstRuling
<1>2. CASE Commit
  <2>1. head' = file /\ apply' = apply /\ applied' = applied
    BY <1>2 DEF Commit, applyVars
  <2>2. /\ Len(head) \in Nat /\ Len(file) \in Nat /\ DOMAIN head = 1 .. Len(head)
        /\ DOMAIN file = 1 .. Len(file) /\ Len(head) <= Len(file)
    BY DEF TypeOK, StoreInv, EarlierReading
  <2>3. \A i \in DOMAIN head : /\ i \in DOMAIN file /\ file[i].proposal = head[i].proposal
                                /\ file[i].answer = head[i].answer
    BY <2>2 DEF StoreInv, EarlierReading, SameRuling
  <2>4. \A i \in DOMAIN head : \A j \in 1 .. i - 1 : j \in DOMAIN head
    BY <2>2
  <2> QED BY <2>1, <2>3, <2>4 DEF VerifiedByTheFirstRuling
<1>3. ASSUME NEW s \in Studios, ApplyVerified(s) PROVE VerifiedByTheFirstRuling'
  <2>1. /\ Authorizes(head, applied[s]) /\ head' = head /\ applied' = applied
        /\ \A t \in Studios : t # s => apply'[t] = apply[t]
    BY <1>3 DEF ApplyVerified, TypeOK, storeVars
  <2> QED BY <2>1, TheOnlyRulingIsTheFirst DEF VerifiedByTheFirstRuling
<1>4. ASSUME NEW s \in Studios,
             Restart(s) \/ ApplyRefused(s) \/ \E p \in Proposals : ApplyProposal(s, p)
      PROVE  VerifiedByTheFirstRuling'
  <2>1. /\ apply'[s] # "verified" /\ head' = head
        /\ \A t \in Studios : t # s => apply'[t] = apply[t] /\ applied'[t] = applied[t]
    BY <1>4 DEF Restart, ApplyRefused, ApplyProposal, TypeOK, storeVars
  <2> QED BY <2>1 DEF VerifiedByTheFirstRuling
<1> QED BY <1>1, <1>2, <1>3, <1>4 DEF Next, Record, vars, storeVars, applyVars, WorkspaceMoves, Discard,
           Supersede, Prepare, Submit, Judge, Refuse, Merge, Replace, ReviewHead, ReviewTree

-----------------------------------------------------------------------------
(* The theorems                                                            *)

LEMMA InitInv == Init => IInv
<1> SUFFICES ASSUME Init PROVE IInv
  OBVIOUS
<1>1. TypeOK
  BY DEF Init, TypeOK
<1>2. StoreInv /\ RecordInv /\ ReviewInv /\ VerifiedByTheFirstRuling
  BY DEF Init, StoreInv, RecordInv, ReviewInv, VerifiedByTheFirstRuling, IdsAreDistinct,
         OneActiveRuling, OneActiveAtHead, NumbersAreBounded, EarlierReading
<1> QED BY <1>1, <1>2 DEF IInv

\* The store, the recordings, the reviews and the applies keep their types, also
\* when recordings overlap.
THEOREM TypeCorrect == Spec => []TypeOK
<1>1. Init => TypeOK
  BY InitInv DEF IInv
<1>2. TypeOK /\ [Next]_vars => TypeOK'
  BY TypeStep
<1> QED BY <1>1, <1>2, PTL DEF Spec

\* The inductive invariant, as long as recordings do not overlap.
LEMMA Invariance == Spec /\ []OneRecords => []IInv
<1>1. IInv /\ OneRecords /\ OneRecords' /\ [Next]_vars => IInv'
  BY TypeStep, StoreStep, RecordStep, ReviewStep, VerifiedStep DEF IInv, StoreInv
<1> QED BY InitInv, <1>1, PTL DEF Spec

\* The recordings of one Studio do not overlap: a recording is one synchronous handler.
THEOREM OneStudioRecordsAlone == OneStudio => []OneRecords
<1>1. OneStudio => OneRecords
  BY DEF OneStudio, OneRecords
<1> SUFFICES ASSUME OneStudio PROVE []OneRecords
  OBVIOUS
<1>2. OneRecords
  BY <1>1
<1> QED BY <1>2, PTL

\* No two rulings of the store share an id.
THEOREM IdsStayDistinct == Spec /\ []OneRecords => []IdsAreDistinct
<1>1. IInv => IdsAreDistinct
  BY DEF IInv, StoreInv
<1> QED BY <1>1, Invariance, PTL

\* A proposal has at most one active ruling, although the store is read once to judge a
\* ruling and again to add it.  Proposals of two revisions of an artifact are two.
THEOREM RulingsDoNotConflict == Spec /\ []OneRecords => []OneActiveRuling
<1>1. IInv => OneActiveRuling
  BY DEF IInv, StoreInv
<1> QED BY <1>1, Invariance, PTL

LEMMA NothingIsHidden == IInv => NothingPendingIsHidden
<1> SUFFICES ASSUME IInv, NEW s \in Studios, review[s] = "head",
                    NEW i \in DOMAIN file \ Shown(atHead[s])
             PROVE  \E j \in DOMAIN atHead[s] : SameRuling(file[i], atHead[s][j])
  BY DEF NothingPendingIsHidden
<1>1. atHead[s] \in Seq(Rulings) /\ head \in Seq(Rulings) /\ file \in Seq(Rulings)
  BY DEF IInv, TypeOK
<1>2. EarlierReading(atHead[s], file)
  BY <1>1, ReadingIsTransitive DEF IInv, StoreInv, ReviewInv
<1>3. PICK j \in DOMAIN atHead[s] : atHead[s][j].id = file[i].id
  BY DEF Shown, IsPending
<1>4. j \in DOMAIN file /\ SameRuling(atHead[s][j], file[j])
  BY <1>1, <1>2 DEF EarlierReading
<1>5. j = i
  BY <1>3, <1>4 DEF IInv, StoreInv, IdsAreDistinct, SameRuling
<1> QED BY <1>4, <1>5 DEF SameRuling

\* A review shows every ruling that was not committed when it read HEAD.
THEOREM ReviewsHideNothing == Spec /\ []OneRecords => []NothingPendingIsHidden
BY NothingIsHidden, Invariance, PTL

\* An apply is verified by the first ruling on its proposal, which stays in HEAD.
THEOREM AppliesRestOnTheFirstRuling == Spec /\ []OneRecords => []VerifiedByTheFirstRuling
<1>1. IInv => VerifiedByTheFirstRuling
  BY DEF IInv
<1> QED BY <1>1, Invariance, PTL

\* A recording is refused for a conflict only: the id it was given is free.
THEOREM RefusalsAreConflicts == Spec /\ []OneRecords => RefusedForConflictOnly
<1>1. ASSUME IInv, NEW s \in Studios, Refuse(s) PROVE Conflicts(file, entry[s])
  BY <1>1 DEF IInv, RecordInv, Refuse
<1>2. IInv /\ [Next]_vars => [\A s \in Studios : Refuse(s) => Conflicts(file, entry[s])]_vars
  BY <1>1
<1> QED BY <1>2, Invariance, PTL DEF Spec, RefusedForConflictOnly

LEMMA ReplaceRecords ==
    ASSUME IInv, NEW s \in Studios, Replace(s)
    PROVE  \E i \in DOMAIN file' : file'[i] \in Rulings /\ Ledger!Record(file'[i])
<1>1. /\ file' = Append(file, entry[s]) /\ head' = head
      /\ ~ TakenId(file, entry[s]) /\ ~ Conflicts(file, entry[s])
  BY DEF IInv, RecordInv, Replace
<1>2. entry[s] \in Rulings /\ file \in Seq(Rulings)
  BY DEF IInv, TypeOK, Replace
<1>3. Len(file) + 1 \in DOMAIN file' /\ file'[Len(file) + 1] = entry[s]
  BY <1>1, <1>2
<1>4. Ledger!Record(entry[s])
  BY <1>1 DEF Ledger!Record, Ledger!Active, TakenId, Conflicts, Active
<1> QED BY <1>2, <1>3, <1>4

\* A Studio whose recording reads the store three times implements the ledger
\* that adds a ruling in one step.
THEOREM ImplementsLedger == Spec /\ []OneRecords => RefinesLedger
<1>1. Init => Ledger!Init
  BY DEF Init, Ledger!Init
<1>2. IInv /\ [Next]_vars => [Ledger!Next]_<<head, file>>
  <2> SUFFICES ASSUME IInv, [Next]_vars PROVE [Ledger!Next]_<<head, file>>
    OBVIOUS
  <2>1. CASE UNCHANGED storeVars
    BY <2>1 DEF storeVars
  <2>2. CASE Commit \/ Discard
    BY <2>2 DEF Commit, Discard, Ledger!Next, Ledger!Commit, Ledger!Discard
  <2>3. ASSUME NEW i \in DOMAIN file, Supersede(i) PROVE Ledger!Next
    BY <2>3 DEF Supersede, Active, Ledger!Next, Ledger!Supersede, Ledger!Active
  <2>4. ASSUME NEW s \in Studios, Replace(s) PROVE Ledger!Next
    BY <2>4, ReplaceRecords DEF Ledger!Next
  <2> QED BY <2>1, <2>2, <2>3, <2>4 DEF Next, Record, vars, storeVars, WorkspaceMoves, Prepare, Submit,
             Judge, Refuse, Merge, ReviewHead, ReviewTree, ApplyProposal, ApplyVerified, ApplyRefused,
             Restart
<1> QED BY <1>1, <1>2, Invariance, PTL DEF Spec, RefinesLedger, Ledger!Spec
=============================================================================
