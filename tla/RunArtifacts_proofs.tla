------------------------- MODULE RunArtifacts_proofs -------------------------
(***************************************************************************)
(* Proofs about RunArtifacts, for any number of runs, entries and scopes:  *)
(* a run that is killed leaves no run.json without its report, the exit    *)
(* code speaks of what is on disk, and the history a run is shown is exact *)
(* as far as scopes are told apart.                                        *)
(***************************************************************************)
EXTENDS RunArtifacts, FiniteSetTheorems, TLAPS

\* Before the first run nothing is written.
LEMMA InitEstablishesInvariant == Init => IInv
<1> SUFFICES ASSUME Init PROVE IInv
  OBVIOUS
<1>1. outcome \in [Run -> [failed : BOOLEAN, passed : BOOLEAN]]
  BY Zenon DEF Init, Unknown
<1>2. QED
  BY <1>1 DEF Init, IInv, TypeOK, RunJsonStandsForAReport, ResultsComeLast, Complete, Artifact

\* A step of the run that leaves the disk alone preserves the invariant if what
\* it does to the run's place and fault fits.
LEMMA DiskIsLeftAlone ==
  ASSUME IInv, NEW r \in Run, UNCHANGED file, TypeOK',
         \A q \in Run \ {r} : pc'[q] = pc[q] /\ fault'[q] = fault[q],
         \/ pc'[r] \in {"gather", "history", "reason"} /\ pc[r] \in {"idle", "gather", "history"}
            /\ fault'[r] = fault[r]
         \/ pc'[r] = "leave" /\ pc[r] = "finish" /\ fault'[r] \in {"none", "close"}
         \/ pc'[r] = "leave" /\ pc[r] \in {"idle", "gather", "history", "reason", "write"}
            /\ fault'[r] \in {"config", "discovery", "run"}
         \/ pc'[r] = "gone"
  PROVE  IInv'
BY DEF IInv, TypeOK, RunJsonStandsForAReport, ResultsComeLast, Complete

\* A run that goes, killed or not, takes nothing from the disk.
LEMMA VanishingPreservesInvariant ==
  ASSUME IInv, NEW r \in Run, Vanishes(r)
  PROVE  IInv'
<1>1. /\ pc' = [pc EXCEPT ![r] = "gone"] /\ fault' = [fault EXCEPT ![r] = "none"]
      /\ outcome' = [outcome EXCEPT ![r] = Unknown] /\ UNCHANGED file
  BY DEF Vanishes, Goes, disk
<1>2. Unknown \in [failed : BOOLEAN, passed : BOOLEAN]
  BY Zenon DEF Unknown
<1>3. TypeOK'
  BY <1>1, <1>2 DEF IInv, TypeOK
<1>4. QED
  BY <1>1, <1>3, DiskIsLeftAlone DEF IInv, TypeOK

\* Every step of a run leaves run.json whole, and for last.
LEMMA StepPreservesInvariant ==
  ASSUME IInv, NEW r \in Run, Step(r)
  PROVE  IInv'
<1>1. CASE Start(r) \/ ListHistory(r) \/ NoHistory(r) \/ Select(r) \/ Finish(r)
  <2>1. /\ UNCHANGED <<file, fault, outcome>>
        /\ \/ pc' = [pc EXCEPT ![r] = "gather"] /\ pc[r] = "idle"
           \/ pc' = [pc EXCEPT ![r] = "history"] /\ pc[r] = "gather"
           \/ pc' = [pc EXCEPT ![r] = "reason"] /\ pc[r] \in {"gather", "history"}
           \/ pc' = [pc EXCEPT ![r] = "leave"] /\ pc[r] = "finish"
    BY <1>1 DEF Start, ListHistory, NoHistory, Select, Finish, Goes, disk, ending
  <2>2. TypeOK'
    BY <2>1 DEF IInv, TypeOK
  <2>3. pc[r] = "finish" => fault[r] = "none"
    BY DEF IInv, ResultsComeLast
  <2>4. QED
    BY <2>1, <2>2, <2>3, DiskIsLeftAlone DEF IInv, TypeOK
<1>2. CASE ConfigFails(r)
  <2>1. /\ pc' = [pc EXCEPT ![r] = "leave"] /\ fault' = [fault EXCEPT ![r] = "config"] /\ pc[r] = "idle"
        /\ UNCHANGED <<file, outcome>>
    BY <1>2 DEF ConfigFails, Goes, disk
  <2>2. TypeOK'
    BY <2>1 DEF IInv, TypeOK
  <2>3. QED
    BY <2>1, <2>2, DiskIsLeftAlone DEF IInv, TypeOK
<1>3. CASE Breaks(r)
  <2>1. PICK what \in FaultsAt[pc[r]] : fault' = [fault EXCEPT ![r] = what]
    BY <1>3 DEF Breaks
  <2>2. \/ pc[r] \in {"gather", "history", "reason", "write"} /\ what \in {"discovery", "run"}
        \/ pc[r] = "finish" /\ what = "close"
    BY <1>3, <2>1 DEF Breaks, FaultsAt
  <2>3. /\ pc' = [pc EXCEPT ![r] = "leave"] /\ outcome' = [outcome EXCEPT ![r] = Unknown]
        /\ UNCHANGED file
    BY <1>3 DEF Breaks, Goes, disk
  <2>4. Unknown \in [failed : BOOLEAN, passed : BOOLEAN]
    BY Zenon DEF Unknown
  <2>5. TypeOK'
    BY <2>1, <2>2, <2>3, <2>4 DEF IInv, TypeOK
  <2>6. QED
    BY <2>1, <2>2, <2>3, <2>5, DiskIsLeftAlone DEF IInv, TypeOK
<1>4. ASSUME NEW entry \in todo[r], Read(r, entry) \/ ReadHollow(r, entry)
      PROVE  IInv'
  <2>1. CASE Read(r, entry)
    BY <2>1 DEF Read, disk, ending, IInv, TypeOK, RunJsonStandsForAReport, ResultsComeLast, Complete
  <2>2. CASE ReadHollow(r, entry)
    <3>1. /\ pc' = [pc EXCEPT ![r] = "leave"] /\ fault' = [fault EXCEPT ![r] = "run"]
          /\ pc[r] = "history" /\ UNCHANGED <<file, outcome>>
      BY <2>2 DEF ReadHollow, Goes, disk
    <3>2. TypeOK'
      BY <3>1 DEF IInv, TypeOK
    <3>3. QED
      BY <3>1, <3>2, DiskIsLeftAlone DEF IInv, TypeOK
  <2>3. QED
    BY <1>4, <2>1, <2>2
<1>5. CASE Conclude(r)
  <2>1. /\ pc' = [pc EXCEPT ![r] = "write"] /\ pc[r] = "reason" /\ UNCHANGED fault
        /\ file' = [file EXCEPT ![r]["md"] = "part"]
        /\ \E o \in [failed : BOOLEAN, passed : BOOLEAN] : outcome' = [outcome EXCEPT ![r] = o]
    BY <1>5 DEF Conclude, Goes, WriteOrder
  <2>2. TypeOK'
    BY <2>1 DEF IInv, TypeOK, Artifact
  <2>3. RunJsonStandsForAReport'
    BY <2>1 DEF IInv, TypeOK, RunJsonStandsForAReport, ResultsComeLast, Complete, Artifact
  <2>4. ResultsComeLast'
    BY <2>1 DEF IInv, TypeOK, ResultsComeLast, Complete, Artifact
  <2>5. QED
    BY <2>2, <2>3, <2>4 DEF IInv
<1>6. CASE Write(r)
  <2>1. PICK k \in DOMAIN WriteOrder :
          /\ \A j \in 1..(k - 1) : file[r][WriteOrder[j]] = "whole"
          /\ file' = [file EXCEPT ![r] = [a \in Artifact |->
               IF a = WriteOrder[k] THEN "whole"
               ELSE IF ~(k = Len(WriteOrder)) /\ a = WriteOrder[k + 1] /\ a /= "json" THEN "part"
               ELSE @[a]]]
          /\ pc' = [pc EXCEPT ![r] = IF k = Len(WriteOrder) THEN "finish" ELSE "write"]
    BY <1>6 DEF Write, Goes
  <2>2. pc[r] = "write" /\ UNCHANGED <<fault, outcome>>
    BY <1>6 DEF Write, ending
  <2>3. TypeOK'
    <3>1. [a \in Artifact |->
             IF a = WriteOrder[k] THEN "whole"
             ELSE IF ~(k = Len(WriteOrder)) /\ a = WriteOrder[k + 1] /\ a /= "json" THEN "part"
             ELSE file[r][a]]
          \in [Artifact -> {"none", "part", "whole"}]
      BY DEF IInv, TypeOK
    <3>2. file' \in [Run -> [Artifact -> {"none", "part", "whole"}]]
      BY <2>1, <3>1 DEF IInv, TypeOK
    <3>3. QED
      BY <2>1, <2>2, <3>2 DEF IInv, TypeOK
  <2>4. \A q \in Run \ {r} : file'[q] = file[q] /\ pc'[q] = pc[q]
    BY <2>1 DEF IInv, TypeOK
  <2>5. CASE k = 4
    <3>1. \A j \in 1..3 : file[r][WriteOrder[j]] = "whole"
      BY <2>1, <2>5
    <3>2. file[r]["md"] = "whole" /\ file[r]["html"] = "whole"
      <4>1. WriteOrder[1] = "md" /\ WriteOrder[2] = "html"
        BY DEF WriteOrder
      <4>2. QED
        BY <3>1, <4>1
    <3>3. file'[r]["json"] = "whole" /\ file'[r]["md"] = "whole" /\ file'[r]["html"] = "whole"
          /\ pc'[r] = "finish"
      BY <2>1, <2>5, <3>2 DEF IInv, TypeOK, WriteOrder, Artifact
    <3>4. QED
      BY <2>2, <2>3, <2>4, <3>3 DEF IInv, RunJsonStandsForAReport, ResultsComeLast, Complete
  <2>6. CASE k \in 1..3
    <3>1. file'[r]["json"] = file[r]["json"] /\ pc'[r] = "write"
      BY <2>1, <2>6 DEF IInv, TypeOK, WriteOrder, Artifact
    <3>2. QED
      BY <2>2, <2>3, <2>4, <3>1 DEF IInv, RunJsonStandsForAReport, ResultsComeLast, Complete
  <2>7. QED
    BY <2>5, <2>6 DEF WriteOrder
<1>7. CASE Leave(r)
  BY <1>7, VanishingPreservesInvariant DEF Leave
<1>8. QED
  BY <1>1, <1>2, <1>3, <1>4, <1>5, <1>6, <1>7 DEF Step

\* So does every step, the death of a process included.
LEMMA NextPreservesInvariant == IInv /\ [Next]_vars => IInv'
<1> SUFFICES ASSUME IInv, [Next]_vars PROVE IInv'
  OBVIOUS
<1>1. ASSUME NEW r \in Run, Step(r) \/ Kill(r) PROVE IInv'
  BY <1>1, StepPreservesInvariant, VanishingPreservesInvariant DEF Kill
<1>2. CASE UNCHANGED vars
  BY <1>2 DEF vars, disk, ending, IInv, TypeOK, RunJsonStandsForAReport, ResultsComeLast, Complete
<1>3. QED
  BY <1>1, <1>2 DEF Next, AllOver

\* Files are in order and results come last, in every state.
THEOREM ArtifactsInvariant == Spec => []IInv
BY InitEstablishesInvariant, NextPreservesInvariant, PTL DEF Spec

\* However many runs share the directory and whenever they are killed: a run.json
\* is whole and stands for a whole report in both forms.
THEOREM RunJsonIsReliable == Spec => []RunJsonStandsForAReport
<1>1. IInv => RunJsonStandsForAReport
  BY DEF IInv
<1>2. QED
  BY <1>1, ArtifactsInvariant, PTL

\* An exit code that speaks of a result comes with the whole result, and a result
\* with such a code unless closing the client failed.
THEOREM ExitCodeIsTrue == Spec => []ExitTellsTheTruth
<1>1. IInv => ExitTellsTheTruth
  <2> SUFFICES ASSUME IInv, NEW r \in Run, pc[r] = "leave"
               PROVE  /\ ExitCode(r) \in {0, 3, 6} => Complete(r)
                      /\ Complete(r) /\ ExitCode(r) \notin {0, 3, 6} => fault[r] = "close"
                      /\ ExitCode(r) \in {0, 3, 6} => (ExitCode(r) = 6 <=> outcome[r].failed)
                      /\ ExitCode(r) = 0 => outcome[r].passed
    BY DEF ExitTellsTheTruth
  <2>1. Complete(r) <=> fault[r] \in {"none", "close"}
    BY DEF IInv, ResultsComeLast
  <2>2. fault[r] \in {"none", "config", "discovery", "run", "close"}
    BY DEF IInv, TypeOK
  <2>3. CASE fault[r] = "none"
    <3>1. ExitCode(r) = IF outcome[r].failed THEN 6 ELSE IF outcome[r].passed THEN 0 ELSE 3
      BY <2>3 DEF ExitCode
    <3>2. QED
      BY <2>1, <2>3, <3>1
  <2>4. CASE fault[r] /= "none"
    <3>1. ExitCode(r) \in {1, 4, 5}
      BY <2>2, <2>4 DEF ExitCode
    <3>2. QED
      BY <2>1, <2>2, <2>4, <3>1
  <2>5. QED
    BY <2>3, <2>4
<1>2. QED
  BY <1>1, ArtifactsInvariant, PTL

-----------------------------------------------------------------------------
(* What a selection holds. *)

\* An arrangement of a finite set has each element, once.
LEMMA ArrangementHasAll ==
  ASSUME NEW S, IsFiniteSet(S), NEW t \in SetToSeqs(S)
  PROVE  /\ t \in Seq(S) /\ Len(t) \in Nat /\ DOMAIN t = 1..Len(t)
         /\ \A j, k \in DOMAIN t : t[j] = t[k] => j = k
         /\ \A p \in S : \E k \in DOMAIN t : t[k] = p
<1> DEFINE n == Cardinality(S)
<1>1. n \in Nat
  BY FS_CardinalityType
<1>2. t \in [1..n -> S] /\ \A j, k \in 1..n : j /= k => t[j] /= t[k]
  BY DEF SetToSeqs
<1> HIDE DEF n
<1>3. t \in Seq(S) /\ Len(t) = n /\ DOMAIN t = 1..n
  BY <1>1, <1>2
<1>4. t \in Injection(1..n, S)
  BY <1>2 DEF Injection, IsInjective
<1>5. IsFiniteSet(1..n) /\ Cardinality(1..n) = n
  BY <1>1, FS_Interval
<1>6. t \in Surjection(1..n, S)
  BY <1>4, <1>5, FS_Injection DEF n
<1>7. \A p \in S : \E k \in DOMAIN t : t[k] = p
  BY <1>3, <1>6 DEF Surjection
<1>8. QED
  BY <1>1, <1>2, <1>3, <1>7

\* The newest ones, each once, and a full list if one is left out.
LEMMA SelectionIsExact ==
  ASSUME HistoryTypeOK, NEW r \in Run, NEW s \in Selections(r)
  PROVE  /\ s \in Seq({p \in found[r] : Matches(r, p)}) /\ Len(s) \in Nat /\ DOMAIN s = 1..Len(s)
         /\ NewestFirst(s) /\ IsInjective(s)
         /\ \A p \in found[r] : Matches(r, p) =>
              \/ \E k \in DOMAIN s : s[k] = p
              \/ Len(s) = Limit /\ \A k \in DOMAIN s : started[s[k]] >= started[p]
<1> DEFINE S == {p \in found[r] : Matches(r, p)}
<1>1. PICK t \in SetToSeqs(S) : NewestFirst(t) /\ s = FirstOf(t)
  BY DEF Selections
<1>2. S \subseteq Run /\ IsFiniteSet(S)
  <2>1. S \subseteq Run
    BY DEF HistoryTypeOK
  <2>2. QED
    BY <2>1, ArtifactsAssumption, FS_Subset
<1> HIDE DEF S
<1>3. /\ t \in Seq(S) /\ Len(t) \in Nat /\ DOMAIN t = 1..Len(t)
      /\ \A j, k \in DOMAIN t : t[j] = t[k] => j = k
      /\ \A p \in S : \E k \in DOMAIN t : t[k] = p
  BY <1>2, ArrangementHasAll
<1> DEFINE m == IF Len(t) < Limit THEN Len(t) ELSE Limit
<1>4. m \in Nat /\ m <= Len(t) /\ m <= Limit /\ (m < Len(t) => m = Limit)
  <2>1. Limit \in Nat
    BY ArtifactsAssumption
  <2> DEFINE len == Len(t)
  <2>2. len \in Nat
    BY <1>3
  <2> HIDE DEF len
  <2>3. m = IF len < Limit THEN len ELSE Limit
    BY DEF len
  <2> HIDE DEF m
  <2>4. m \in Nat /\ m <= len /\ m <= Limit /\ (m < len => m = Limit)
    BY <2>1, <2>2, <2>3
  <2>5. QED
    BY <2>4 DEF len
<1>5. s = SubSeq(t, 1, m)
  BY <1>1 DEF FirstOf
<1> HIDE DEF m
<1>6. s \in Seq(S) /\ Len(s) = m /\ DOMAIN s = 1..m /\ \A k \in 1..m : s[k] = t[k] /\ k \in DOMAIN t
  BY <1>3, <1>4, <1>5
<1>7. NewestFirst(s)
  BY <1>1, <1>6 DEF NewestFirst
<1>8. IsInjective(s)
  BY <1>3, <1>6 DEF IsInjective
<1>9. ASSUME NEW p \in S, ~ \E k \in DOMAIN s : s[k] = p
      PROVE  Len(s) = Limit /\ \A k \in DOMAIN s : started[s[k]] >= started[p]
  <2>1. PICK j \in DOMAIN t : t[j] = p
    BY <1>3
  <2>2. j > m /\ m = Limit
    BY <1>3, <1>4, <1>6, <1>9, <2>1
  <2>3. \A k \in 1..m : k < j
    BY <1>3, <1>4, <2>1, <2>2
  <2>4. \A k \in DOMAIN s : started[s[k]] >= started[p]
    BY <1>1, <1>6, <2>1, <2>3 DEF NewestFirst
  <2>5. QED
    BY <1>6, <2>2, <2>4
<1>10. QED
  BY <1>4, <1>6, <1>7, <1>8, <1>9 DEF S

-----------------------------------------------------------------------------
(* What stays. *)

\* Only a run that is not complete writes files or begins.
LEMMA CompleteRunsStay ==
  ASSUME IInv, [Next]_vars, NEW p \in Run, Complete(p)
  PROVE  Complete(p)' /\ started'[p] = started[p]
<1>1. CASE UNCHANGED <<file, started>>
  BY <1>1 DEF Complete
<1>2. ASSUME NEW r \in Run, Start(r) PROVE Complete(p)' /\ started'[p] = started[p]
  <2>1. p /= r
    BY <1>2 DEF Start, IInv, ResultsComeLast
  <2>2. QED
    BY <1>2, <2>1 DEF Start, disk, Complete
<1>3. ASSUME NEW r \in Run, Conclude(r) \/ Write(r) PROVE Complete(p)' /\ started'[p] = started[p]
  <2>1. p /= r
    BY <1>3 DEF Conclude, Write, IInv, ResultsComeLast
  <2>2. file'[p] = file[p] /\ started' = started
    <3>1. started' = started
      BY <1>3 DEF Conclude, Write, asked
    <3>2. \E x : file' = [file EXCEPT ![r] = x]
      <4>1. CASE Conclude(r)
        BY <4>1 DEF Conclude
      <4>2. CASE Write(r)
        BY <4>2 DEF Write
      <4>3. QED
        BY <1>3, <4>1, <4>2
    <3>3. QED
      BY <2>1, <3>1, <3>2 DEF IInv, TypeOK
  <2>3. QED
    BY <2>2 DEF Complete
<1>4. CASE UNCHANGED vars
  BY <1>1, <1>4 DEF vars, disk, asked
<1>5. ASSUME NEW r \in Run, Step(r) \/ Kill(r), ~Start(r), ~Conclude(r), ~Write(r)
      PROVE  UNCHANGED <<file, started>>
  BY <1>5 DEF Step, Kill, Leave, Vanishes, ConfigFails, Breaks, ListHistory, NoHistory, Select,
              Read, ReadHollow, Finish, asked, disk
<1>6. QED
  BY <1>1, <1>2, <1>3, <1>4, <1>5 DEF Next, AllOver

\* What was selected may be selected still.
LEMMA SelectionsStay ==
  ASSUME HistoryInv, [Next]_vars, NEW q \in Run, found'[q] = found[q], scope' = scope,
         NEW x \in Selections(q)
  PROVE  x \in Selections(q)'
<1> DEFINE S == {p \in found[q] : Matches(q, p)}
<1>1. PICK t \in SetToSeqs(S) : NewestFirst(t) /\ x = FirstOf(t)
  BY DEF Selections
<1>2. \A p \in S : started'[p] = started[p]
  BY CompleteRunsStay DEF HistoryInv, HistoryIsInOrder, FoundRunsAreComplete, HistoryTypeOK
<1>3. \A k \in DOMAIN t : t[k] \in S
  BY <1>1 DEF SetToSeqs
<1>4. NewestFirst(t)'
  BY <1>1, <1>2, <1>3 DEF NewestFirst
<1>5. S = {p \in found'[q] : Matches(q, p)'}
  BY DEF Matches
<1>6. QED
  BY <1>1, <1>4, <1>5 DEF Selections

\* What was found and was complete is so in the next state.
LEMMA FoundStay ==
  ASSUME HistoryInv, [Next]_vars, NEW q \in Run, found'[q] \subseteq found[q],
         before'[q] \subseteq before[q]
  PROVE  FoundRunsAreComplete(q)'
<1>1. \A p \in found'[q] \union before'[q] : p \in Run /\ Complete(p)
  BY DEF HistoryInv, HistoryIsInOrder, FoundRunsAreComplete, HistoryTypeOK
<1>2. \A p \in found'[q] \union before'[q] : Complete(p)'
  BY <1>1, CompleteRunsStay DEF HistoryInv
<1>3. QED
  BY <1>2 DEF FoundRunsAreComplete

\* A run whose history is as it was.
LEMMA HistoryIsLeftAlone ==
  ASSUME HistoryInv, [Next]_vars, NEW q \in Run, scope' = scope, found'[q] = found[q],
         before'[q] = before[q], todo'[q] = todo[q], prior'[q] = prior[q],
         \/ pc'[q] = pc[q]
         \/ pc[q] /= "reason" /\ pc'[q] \notin {"history", "reason"}
  PROVE  HistoryIsInOrder(q)'
<1>1. FoundRunsAreComplete(q)'
  BY FoundStay
<1>2. NothingIsMissed(q)'
  BY DEF HistoryInv, HistoryIsInOrder, NothingIsMissed
<1>3. PriorIsSelected(q)'
  <2>1. PriorIsSelected(q)
    BY DEF HistoryInv, HistoryIsInOrder
  <2>2. CASE pc[q] = "reason" /\ pc'[q] = "reason" /\ prior[q] \in Selections(q)
    <3>1. prior[q] \in Selections(q)'
      BY <2>2, SelectionsStay
    <3>2. QED
      BY <2>2, <3>1 DEF PriorIsSelected
  <2>3. CASE ~(pc[q] = "reason" /\ pc'[q] = "reason" /\ prior[q] \in Selections(q))
    BY <2>1, <2>3 DEF PriorIsSelected
  <2>4. QED
    BY <2>2, <2>3
<1>4. QED
  BY <1>1, <1>2, <1>3 DEF HistoryIsInOrder

\* A run that has forgotten it.
LEMMA NoHistoryIsInOrder ==
  ASSUME NEW r \in Run, HistoryInv, Forgets(r), pc'[r] /= "reason"
  PROVE  HistoryIsInOrder(r)'
<1>1. found'[r] = {} /\ before'[r] = {} /\ prior'[r] = <<>>
  BY DEF Forgets, HistoryInv, HistoryTypeOK
<1>2. QED
  BY <1>1 DEF HistoryIsInOrder, FoundRunsAreComplete, NothingIsMissed, PriorIsSelected

\* A run that is complete when the directory is listed is still to be read.
LEMMA ListHistoryIsInOrder ==
  ASSUME HistoryInv, [Next]_vars, NEW r \in Run, ListHistory(r)
  PROVE  HistoryIsInOrder(r)'
<1>1. /\ pc[r] = "gather" /\ pc'[r] = "history" /\ found' = found /\ prior' = prior
      /\ before'[r] = {p \in Run : Complete(p)} /\ dirs \ Nested \subseteq todo'[r]
  BY DEF ListHistory, Goes, HistoryInv, HistoryTypeOK, IInv, TypeOK
<1>2. \A p \in found'[r] \union before'[r] : p \in Run /\ Complete(p)
  BY <1>1 DEF HistoryInv, HistoryIsInOrder, FoundRunsAreComplete, HistoryTypeOK
<1>3. FoundRunsAreComplete(r)'
  <2>1. \A p \in found'[r] \union before'[r] : Complete(p)'
    BY <1>2, CompleteRunsStay DEF HistoryInv
  <2>2. QED
    BY <2>1 DEF FoundRunsAreComplete
<1>4. NothingIsMissed(r)'
  BY <1>1 DEF HistoryInv, CompleteRunsAreListed, NothingIsMissed
<1>5. PriorIsSelected(r)'
  BY <1>1 DEF HistoryInv, HistoryIsInOrder, PriorIsSelected
<1>6. QED
  BY <1>3, <1>4, <1>5 DEF HistoryIsInOrder

\* A run of the evaluation, which is shown none.
LEMMA NestedHistoryIsInOrder ==
  ASSUME HistoryInv, [Next]_vars, NEW r \in Run, NoHistory(r)
  PROVE  HistoryIsInOrder(r)'
<1>1. /\ pc[r] = "gather" /\ r \in Nested /\ found' = found /\ before' = before /\ prior' = prior
  BY DEF NoHistory, history
<1>2. FoundRunsAreComplete(r)'
  BY <1>1, FoundStay
<1>3. NothingIsMissed(r)'
  BY <1>1 DEF NothingIsMissed
<1>4. PriorIsSelected(r)'
  BY <1>1 DEF HistoryInv, HistoryIsInOrder, PriorIsSelected
<1>5. QED
  BY <1>2, <1>3, <1>4 DEF HistoryIsInOrder

\* A complete run is read when its turn comes.
LEMMA ReadIsInOrder ==
  ASSUME HistoryInv, [Next]_vars, NEW r \in Run, NEW entry \in todo[r], Read(r, entry)
  PROVE  HistoryIsInOrder(r)'
<1>1. /\ pc[r] = "history" /\ pc' = pc /\ before' = before /\ prior' = prior
      /\ todo'[r] = todo[r] \ {entry}
      /\ \/ \E p \in Readable(entry) : found'[r] = found[r] \union {p}
         \/ Readable(entry) = {} /\ found'[r] = found[r]
  BY DEF Read, ending, HistoryInv, HistoryTypeOK
<1>2. PICK new \in SUBSET Readable(entry) :
        found'[r] = found[r] \union new /\ (new = {} => Readable(entry) = {})
  <2>1. CASE Readable(entry) = {} /\ found'[r] = found[r]
    <3>1. {} \in SUBSET Readable(entry) /\ found'[r] = found[r] \union {}
      BY <2>1
    <3>2. QED
      BY <2>1, <3>1
  <2>2. CASE \E p \in Readable(entry) : found'[r] = found[r] \union {p}
    <3>1. PICK p \in Readable(entry) : found'[r] = found[r] \union {p}
      BY <2>2
    <3>2. {p} \in SUBSET Readable(entry) /\ {p} /= {}
      BY <3>1
    <3>3. QED
      BY <3>1, <3>2
  <2>3. QED
    BY <1>1, <2>1, <2>2
<1>3. \A p \in Readable(entry) : p \in Run /\ Complete(p)
  BY DEF Readable
<1>4. FoundRunsAreComplete(r)'
  <2>1. \A p \in found'[r] \union before'[r] : p \in Run /\ Complete(p)
    BY <1>1, <1>2, <1>3 DEF HistoryInv, HistoryIsInOrder, FoundRunsAreComplete, HistoryTypeOK
  <2>2. \A p \in found'[r] \union before'[r] : Complete(p)'
    BY <2>1, CompleteRunsStay DEF HistoryInv
  <2>3. QED
    BY <2>2 DEF FoundRunsAreComplete
<1>5. NothingIsMissed(r)'
  <2> SUFFICES ASSUME r \notin Nested, NEW p \in before[r] \ Nested
               PROVE  p \in found'[r] \/ p \in todo'[r]
    BY <1>1 DEF NothingIsMissed
  <2>1. p \in Run /\ Complete(p)
    BY DEF HistoryInv, HistoryIsInOrder, FoundRunsAreComplete, HistoryTypeOK
  <2>2. CASE p = entry
    <3>1. Readable(entry) = {p}
      BY <2>1, <2>2, ArtifactsAssumption DEF Readable
    <3>2. QED
      BY <1>2, <3>1
  <2>3. CASE p /= entry
    BY <1>1, <1>2, <2>3 DEF HistoryInv, HistoryIsInOrder, NothingIsMissed
  <2>4. QED
    BY <2>2, <2>3
<1>6. PriorIsSelected(r)'
  BY <1>1 DEF HistoryInv, HistoryIsInOrder, PriorIsSelected
<1>7. QED
  BY <1>4, <1>5, <1>6 DEF HistoryIsInOrder

\* What is selected is a selection of the runs that were found.
LEMMA SelectIsInOrder ==
  ASSUME HistoryInv, [Next]_vars, NEW r \in Run, Select(r)
  PROVE  HistoryIsInOrder(r)'
<1>1. /\ pc[r] = "history" /\ todo[r] = {} /\ pc'[r] = "reason" /\ prior'[r] \in Selections(r)
      /\ found' = found /\ before' = before /\ scope' = scope
  BY DEF Select, Goes, asked, HistoryInv, HistoryTypeOK, IInv, TypeOK
<1>2. FoundRunsAreComplete(r)'
  BY <1>1, FoundStay
<1>3. NothingIsMissed(r)'
  BY <1>1 DEF HistoryInv, HistoryIsInOrder, NothingIsMissed
<1>4. PriorIsSelected(r)'
  <2>1. prior'[r] \in Selections(r)'
    BY <1>1, SelectionsStay
  <2>2. QED
    BY <1>1, <2>1 DEF PriorIsSelected
<1>5. QED
  BY <1>2, <1>3, <1>4 DEF HistoryIsInOrder

-----------------------------------------------------------------------------
(* The invariant. *)

\* Each run looks after its own history.
LEMMA StepLeavesOthers ==
  ASSUME HistoryInv, NEW r \in Run, Step(r) \/ Kill(r)
  PROVE  /\ scope' = scope
         /\ \A q \in Run \ {r} : /\ pc'[q] = pc[q] /\ todo'[q] = todo[q] /\ found'[q] = found[q]
                                /\ before'[q] = before[q] /\ prior'[q] = prior[q]
<1> USE DEF HistoryInv, HistoryTypeOK, IInv, TypeOK
<1>1. CASE Start(r) \/ ConfigFails(r) \/ Write(r) \/ Finish(r)
  BY <1>1 DEF Start, ConfigFails, Write, Finish, Goes, asked, history
<1>2. CASE Breaks(r) \/ Conclude(r) \/ Leave(r) \/ Kill(r)
  BY <1>2 DEF Breaks, Conclude, Leave, Kill, Vanishes, Forgets, Goes, asked
<1>3. CASE ListHistory(r) \/ NoHistory(r) \/ Select(r)
  BY <1>3 DEF ListHistory, NoHistory, Select, Goes, asked, history
<1>4. CASE \E entry \in todo[r] : Read(r, entry) \/ ReadHollow(r, entry)
  BY <1>4 DEF Read, ReadHollow, Forgets, Goes, asked
<1>5. QED
  BY <1>1, <1>2, <1>3, <1>4 DEF Step

\* Every step of a run keeps its own history in order.
LEMMA StepHistoryIsInOrder ==
  ASSUME HistoryInv, [Next]_vars, NEW r \in Run, Step(r) \/ Kill(r)
  PROVE  HistoryIsInOrder(r)'
<1>1. CASE Start(r) \/ ConfigFails(r) \/ Write(r) \/ Finish(r)
  <2>1. /\ scope' = scope /\ UNCHANGED history /\ pc[r] \notin {"history", "reason"}
        /\ pc'[r] \notin {"history", "reason"}
    BY <1>1 DEF Start, ConfigFails, Write, Finish, Goes, asked, HistoryInv, IInv, TypeOK
  <2>2. QED
    BY <2>1, HistoryIsLeftAlone DEF history
<1>2. CASE Breaks(r) \/ Conclude(r) \/ Leave(r) \/ Kill(r)
  <2>1. Forgets(r) /\ pc'[r] \in {"leave", "write", "gone"}
    BY <1>2 DEF Breaks, Conclude, Leave, Kill, Vanishes, Goes, HistoryInv, IInv, TypeOK
  <2>2. QED
    BY <2>1, NoHistoryIsInOrder
<1>3. CASE \E entry \in todo[r] : Read(r, entry) \/ ReadHollow(r, entry)
  <2>1. PICK entry \in todo[r] : Read(r, entry) \/ ReadHollow(r, entry)
    BY <1>3
  <2>2. CASE ReadHollow(r, entry)
    <3>1. Forgets(r) /\ pc'[r] = "leave"
      BY <2>2 DEF ReadHollow, Goes, HistoryInv, IInv, TypeOK
    <3>2. QED
      BY <3>1, NoHistoryIsInOrder
  <2>3. QED
    BY <2>1, <2>2, ReadIsInOrder
<1>4. QED
  BY <1>1, <1>2, <1>3, ListHistoryIsInOrder, NestedHistoryIsInOrder, SelectIsInOrder DEF Step

\* Every step keeps the history well typed.
LEMMA StepKeepsHistoryTypes ==
  ASSUME HistoryInv, NEW r \in Run, Step(r) \/ Kill(r)
  PROVE  HistoryTypeOK'
<1> USE DEF HistoryInv, HistoryTypeOK
<1>1. CASE Start(r) \/ ConfigFails(r) \/ NoHistory(r) \/ Write(r) \/ Finish(r)
  BY <1>1 DEF Start, ConfigFails, NoHistory, Write, Finish, asked, history
<1>2. CASE Breaks(r) \/ Conclude(r) \/ Leave(r) \/ Kill(r)
  BY <1>2 DEF Breaks, Conclude, Leave, Kill, Vanishes, Forgets, asked
<1>3. CASE ListHistory(r)
  BY <1>3 DEF ListHistory, asked
<1>4. CASE Select(r)
  BY <1>4 DEF Select, asked
<1>5. CASE \E entry \in todo[r] : Read(r, entry) \/ ReadHollow(r, entry)
  <2>1. PICK entry \in todo[r] : Read(r, entry) \/ ReadHollow(r, entry)
    BY <1>5
  <2>2. CASE Read(r, entry)
    BY <2>2 DEF Read, Readable, asked
  <2>3. CASE ReadHollow(r, entry)
    BY <2>3 DEF ReadHollow, Forgets, asked
  <2>4. QED
    BY <2>1, <2>2, <2>3
<1>6. QED
  BY <1>1, <1>2, <1>3, <1>4, <1>5 DEF Step

\* A run that is complete has its directory.
LEMMA StepListsCompleteRuns ==
  ASSUME HistoryInv, NEW r \in Run, Step(r) \/ Kill(r)
  PROVE  CompleteRunsAreListed'
<1> USE DEF HistoryInv, CompleteRunsAreListed
<1>1. CASE Conclude(r)
  <2>1. dirs' = dirs \union {r} /\ \A q \in Run \ {r} : pc'[q] = pc[q] /\ file'[q] = file[q]
    BY <1>1 DEF Conclude, Goes, IInv, TypeOK
  <2>2. QED
    BY <2>1 DEF Complete
<1>2. CASE Write(r)
  <2>1. PICK x : file' = [file EXCEPT ![r] = x]
    BY <1>2 DEF Write
  <2>2. /\ dirs' = dirs /\ r \in dirs
        /\ \A q \in Run \ {r} : pc'[q] = pc[q] /\ file'[q] = file[q]
    BY <1>2, <2>1 DEF Write, Goes, IInv, TypeOK
  <2>3. QED
    BY <2>2 DEF Complete
<1>3. CASE UNCHANGED disk /\ (pc'[r] = "write" => pc[r] = "write")
  <2>1. \A q \in Run \ {r} : pc'[q] = pc[q]
    BY StepLeavesOthers
  <2>2. QED
    BY <1>3, <2>1 DEF disk, Complete
<1>4. ASSUME ~Conclude(r), ~Write(r)
      PROVE  UNCHANGED disk /\ (pc'[r] = "write" => pc[r] = "write")
  BY <1>4 DEF Step, Kill, Leave, Vanishes, Start, ConfigFails, Breaks, ListHistory, NoHistory, Select,
              Read, ReadHollow, Finish, Goes, IInv, TypeOK
<1>5. QED
  BY <1>1, <1>2, <1>3, <1>4

\* Before the first run no history was read.
LEMMA InitEstablishesHistory == Init => HistoryInv
<1> SUFFICES ASSUME Init PROVE HistoryInv
  OBVIOUS
<1>1. HistoryTypeOK
  BY DEF Init, HistoryTypeOK
<1>2. CompleteRunsAreListed
  BY DEF Init, CompleteRunsAreListed, Complete, Artifact
<1>3. \A r \in Run : HistoryIsInOrder(r)
  BY DEF Init, HistoryIsInOrder, FoundRunsAreComplete, NothingIsMissed, PriorIsSelected
<1>4. QED
  BY <1>1, <1>2, <1>3, InitEstablishesInvariant DEF HistoryInv

\* Every step keeps every run's history in order.
LEMMA NextPreservesHistory == HistoryInv /\ [Next]_vars => HistoryInv'
<1> SUFFICES ASSUME HistoryInv, [Next]_vars PROVE HistoryInv'
  OBVIOUS
<1>1. IInv'
  BY NextPreservesInvariant DEF HistoryInv
<1>2. CASE UNCHANGED vars
  <2>1. HistoryTypeOK' /\ CompleteRunsAreListed'
    BY <1>2 DEF vars, asked, disk, history, HistoryInv, HistoryTypeOK, CompleteRunsAreListed, Complete
  <2>2. \A r \in Run : HistoryIsInOrder(r)'
    BY <1>2, HistoryIsLeftAlone DEF vars, asked, history
  <2>3. QED
    BY <1>1, <2>1, <2>2 DEF HistoryInv
<1>3. ASSUME NEW r \in Run, Step(r) \/ Kill(r)
      PROVE  HistoryInv'
  <2>1. HistoryTypeOK' /\ CompleteRunsAreListed'
    BY <1>3, StepKeepsHistoryTypes, StepListsCompleteRuns
  <2>2. \A q \in Run : HistoryIsInOrder(q)'
    BY <1>3, StepHistoryIsInOrder, StepLeavesOthers, HistoryIsLeftAlone
  <2>3. QED
    BY <1>1, <2>1, <2>2 DEF HistoryInv
<1>4. QED
  BY <1>2, <1>3 DEF Next, AllOver

\* What a run of analyze has read of the others was complete and is, no run of analyze
\* that was complete in time is passed over, and what it is shown is selected from that.
\* A run of the evaluation reads and is shown nothing.
THEOREM HistoryInvariant == Spec => []HistoryInv
BY InitEstablishesHistory, NextPreservesHistory, PTL DEF Spec

\* However many runs write, read and are killed: the history shown to a run holds
\* complete runs of its own target only, newest first, each once and within the
\* dates given; for a run of analyze, no run of analyze with that target that was
\* complete in time is missing unless the list is full of runs that are no older.
\* A target does not hold the resource types, and the runs of the evaluation have no
\* such promise, whatever the comments on the signature and the store say of them.
THEOREM HistoryIsAlwaysExact == Spec => []HistoryIsExact
<1>1. HistoryInv => HistoryIsExact
  <2> SUFFICES ASSUME HistoryInv, NEW r \in Run
               PROVE  /\ \A k \in DOMAIN prior[r] : Complete(prior[r][k]) /\ Matches(r, prior[r][k])
                      /\ NewestFirst(prior[r]) /\ IsInjective(prior[r])
                      /\ \A context \in PriorRunContext(r), k \in DOMAIN prior[r] :
                           started[prior[r][k]] \in context.oldest..context.newest
                      /\ r \notin Nested =>
                           \A p \in Run \ Nested : pc[r] = "reason" /\ p \in before[r] /\ Matches(r, p) =>
                             \/ \E k \in DOMAIN prior[r] : prior[r][k] = p
                             \/ /\ Len(prior[r]) = Limit
                                /\ \A k \in DOMAIN prior[r] : started[prior[r][k]] >= started[p]
    BY DEF HistoryIsExact, SameTarget, Matches, ScopeSignature
  <2>1. HistoryTypeOK /\ HistoryIsInOrder(r)
    BY DEF HistoryInv
  <2>2. CASE prior[r] = <<>> /\ (pc[r] = "reason" => r \in Nested)
    BY <2>2 DEF NewestFirst, IsInjective
  <2>3. CASE pc[r] = "reason" /\ prior[r] \in Selections(r)
    <3> DEFINE s == prior[r]
               asking == {p \in found[r] : Matches(r, p)}
    <3>1. s \in Selections(r)
      BY <2>3
    <3> HIDE DEF s
    <3>2. /\ s \in Seq(asking) /\ Len(s) \in Nat /\ DOMAIN s = 1..Len(s)
          /\ NewestFirst(s) /\ IsInjective(s)
          /\ \A p \in found[r] : Matches(r, p) =>
               \/ \E k \in DOMAIN s : s[k] = p
               \/ Len(s) = Limit /\ \A k \in DOMAIN s : started[s[k]] >= started[p]
      BY <2>1, <3>1, SelectionIsExact
    <3>3. \A k \in DOMAIN s : s[k] \in found[r] /\ Matches(r, s[k]) /\ started[s[k]] \in Nat
      <4>1. \A p \in asking : p \in found[r] /\ Matches(r, p) /\ started[p] \in Nat
        BY <2>1 DEF HistoryTypeOK
      <4> HIDE DEF asking
      <4>2. QED
        BY <3>2, <4>1
    <3>4. \A k \in DOMAIN s : Complete(s[k]) /\ Matches(r, s[k])
      BY <2>1, <3>3 DEF HistoryIsInOrder, FoundRunsAreComplete
    <3>5. ASSUME NEW k \in DOMAIN s
          PROVE  started[s[k]] \in started[s[Len(s)]]..started[s[1]]
      <4>1. 1 \in DOMAIN s /\ Len(s) \in DOMAIN s
        BY <3>2
      <4>2. started[s[1]] >= started[s[k]]
        BY <3>2, <3>3, <4>1 DEF NewestFirst
      <4>3. started[s[k]] >= started[s[Len(s)]]
        BY <3>2, <3>3, <4>1 DEF NewestFirst
      <4>4. QED
        BY <3>3, <4>1, <4>2, <4>3
    <3>6. \A context \in PriorRunContext(r), k \in DOMAIN s :
            started[s[k]] \in context.oldest..context.newest
      BY <3>5 DEF PriorRunContext, Last, s
    <3>7. ASSUME r \notin Nested, NEW p \in Run \ Nested, p \in before[r], Matches(r, p)
          PROVE  \/ \E k \in DOMAIN s : s[k] = p
                 \/ Len(s) = Limit /\ \A k \in DOMAIN s : started[s[k]] >= started[p]
      <4>1. p \in found[r]
        BY <2>1, <2>3, <3>7 DEF HistoryIsInOrder, NothingIsMissed
      <4>2. QED
        BY <3>2, <3>7, <4>1
    <3>8. QED
      BY <3>2, <3>4, <3>6, <3>7 DEF s
  <2>4. QED
    BY <2>1, <2>2, <2>3 DEF HistoryIsInOrder, PriorIsSelected
<1>2. QED
  BY <1>1, HistoryInvariant, PTL
=============================================================================
