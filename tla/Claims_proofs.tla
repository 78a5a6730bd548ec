-------------------------- MODULE Claims_proofs -----------------------------
(***************************************************************************)
(* Proofs about what a run may claim and what is claimed of it: about      *)
(* Reasoning, for every answer of the model and every pool of evidence;    *)
(* about WasteDetection, for all lanes and resources and whatever the      *)
(* server answers; and about Evaluation, for all datasets, models and      *)
(* outcomes of their runs.                                                 *)
(***************************************************************************)
EXTENDS Reasoning, WasteDetection, Evaluation, FunctionTheorems, FiniteSetTheorems,
        WellFoundedInduction, TLAPS

\* Levels are levels, whatever the dimensions.
LEMMA DerivedLevel == \A dims : DeriveConfidenceLevel(dims) \in Levels
BY DEF DeriveConfidenceLevel, Levels

\* Before the first list nothing is processed.
LEMMA InitEstablishesInvariant == Init => IInv
BY DEF Init, IInv, ListsComeInOrder, ItemsAreProcessed, SupportIsClosed, ProcessedOutputPasses, Statuses

\* A fact that is not dropped is grounded in the records the model was given.
LEMMA KeptFactsAreGrounded ==
  ASSUME evidence \in EvidencePools, answer \in Answers, NEW f \in answer.facts,
         f.evidence \subseteq Ids(ReasoningEvidence), ~HasFabricatedNumbers(f)
  PROVE  Grounded(f)
<1>1. f.evidence /= {} /\ f.numbers \subseteq Int
  BY ReasoningAssumption DEF WellFormed, HasFields
<1>2. \A e \in ReasoningEvidence : e.numbers \subseteq Int
  BY ReasoningAssumption DEF ReasoningEvidence
<1>3. ASSUME NEW n \in f.numbers
      PROVE  \E e \in ReasoningEvidence : e.id \in f.evidence /\ \E m \in e.numbers : m - n < 5 /\ n - m < 5
  <2>1. PICK e \in ReasoningEvidence : e.id \in f.evidence /\ \E m \in e.numbers : ~(m - n >= 5 \/ n - m >= 5)
    BY DEF HasFabricatedNumbers, IsFabricated
  <2>2. PICK m \in e.numbers : ~(m - n >= 5 \/ n - m >= 5)
    BY <2>1
  <2>3. m - n < 5 /\ n - m < 5
    BY <1>1, <1>2, <2>2
  <2>4. QED
    BY <2>1, <2>3
<1>4. QED
  BY <1>1, <1>3 DEF Grounded

\* Processing the facts keeps the invariant: those that are left cite kept evidence.
LEMMA FactsPreserveInvariant == IInv /\ CheckFacts => IInv'
<1> SUFFICES ASSUME IInv, CheckFacts PROVE IInv'
  OBVIOUS
<1>1. /\ stage = "facts" /\ stage' = "hypotheses" /\ UNCHANGED <<evidence, answer, score>>
      /\ answer \in Answers /\ evidence \in EvidencePools
      /\ output.hypotheses = {} /\ output.recommendations = {}
  BY DEF CheckFacts, IInv, ListsComeInOrder
<1> DEFINE dangling == {f \in answer.facts : ~(f.evidence \subseteq Ids(ReasoningEvidence))}
           kept == (answer.facts \ dangling)
                     \ {f \in answer.facts \ dangling : HasFabricatedNumbers(f)}
<1>2a. output' = [output EXCEPT !.facts = kept]
  BY DEF CheckFacts
<1>2b. \A f \in kept : /\ f \in answer.facts /\ ~HasFabricatedNumbers(f)
                       /\ f.evidence \subseteq Ids(ReasoningEvidence)
  OBVIOUS
<1> HIDE DEF dangling, kept
<1>2. /\ output' = [output EXCEPT !.facts = kept]
      /\ \A f \in kept : /\ f \in answer.facts /\ ~HasFabricatedNumbers(f)
                         /\ f.evidence \subseteq Ids(ReasoningEvidence)
  BY <1>2a, <1>2b
<1>3. /\ output'.facts = kept /\ output'.hypotheses = {} /\ output'.recommendations = {}
      /\ output'.findings = output.findings /\ DOMAIN output' = DOMAIN output
  BY <1>1, <1>2 DEF IInv, ListsComeInOrder
<1>4. \A f \in output'.facts : Grounded(f)'
  <2>1. \A f \in kept : Grounded(f)
    BY <1>1, <1>2, KeptFactsAreGrounded
  <2>2. QED
    BY <1>1, <1>3, <2>1 DEF Grounded, ReasoningEvidence, Ids
<1>5. ListsComeInOrder'
  BY <1>1, <1>3 DEF IInv, ListsComeInOrder
<1>6. ItemsAreProcessed' /\ SupportIsClosed' /\ ProcessedOutputPasses'
  BY <1>1, <1>3, <1>4 DEF ItemsAreProcessed, SupportIsClosed, ProcessedOutputPasses, Statuses
<1>7. QED
  BY <1>5, <1>6 DEF IInv

\* So does processing the hypotheses: those that are left have support and their level.
LEMMA HypothesesPreserveInvariant == IInv /\ CheckHypotheses => IInv'
<1> SUFFICES ASSUME IInv, CheckHypotheses PROVE IInv'
  OBVIOUS
<1>1. /\ stage = "hypotheses" /\ stage' = "recommendations" /\ UNCHANGED <<evidence, answer, score>>
      /\ answer \in Answers /\ output.recommendations = {} /\ output.findings = answer.findings
  BY DEF CheckHypotheses, IInv, ListsComeInOrder
<1> DEFINE kept == answer.hypotheses \ {h \in answer.hypotheses : Dangles(h)}
<1>2a. output' = [output EXCEPT !.hypotheses = Relevelled(kept)]
  BY DEF CheckHypotheses
<1>2b. \A h \in kept : h \in answer.hypotheses /\ ~Dangles(h)
  OBVIOUS
<1> HIDE DEF kept
<1>2. /\ output' = [output EXCEPT !.hypotheses = Relevelled(kept)]
      /\ \A h \in kept : h \in answer.hypotheses /\ ~Dangles(h)
  BY <1>2a, <1>2b
<1>3. /\ output'.hypotheses = Relevelled(kept) /\ output'.facts = output.facts
      /\ output'.recommendations = {} /\ output'.findings = output.findings
      /\ DOMAIN output' = DOMAIN output
  BY <1>1, <1>2 DEF IInv, ListsComeInOrder
<1>4. \A h \in kept : /\ DOMAIN h = {"id", "support", "counter", "missing", "dims", "level"}
                      /\ h.dims \in Dimensions
  BY <1>1, <1>2, ReasoningAssumption DEF HasFields, WellFormed
<1>5. ASSUME NEW other \in Relevelled(kept)
      PROVE  /\ other.dims \in Dimensions /\ other.level = DeriveConfidenceLevel(other.dims)
             /\ other.support \union other.counter \subseteq Ids(output.facts)
             /\ other.missing \subseteq Ids(output.findings)
  <2>1. PICK h \in kept : other = [h EXCEPT !.level = DeriveConfidenceLevel(h.dims)]
    BY DEF Relevelled
  <2>2. /\ other.support = h.support /\ other.counter = h.counter /\ other.missing = h.missing
        /\ other.dims = h.dims /\ other.level = DeriveConfidenceLevel(h.dims)
    BY <1>4, <2>1
  <2>3. QED
    BY <1>1, <1>2, <1>4, <2>2 DEF Dangles
<1>6. ListsComeInOrder'
  BY <1>1, <1>3 DEF IInv, ListsComeInOrder
<1>7. ItemsAreProcessed'
  BY <1>3, <1>5 DEF ItemsAreProcessed
<1>8. SupportIsClosed'
  BY <1>1, <1>3, <1>5 DEF IInv, SupportIsClosed, Grounded, ReasoningEvidence, Ids
<1>9. ProcessedOutputPasses'
  BY <1>1 DEF ProcessedOutputPasses, Statuses
<1>10. QED
  BY <1>6, <1>7, <1>8, <1>9 DEF IInv

\* So does processing the recommendations.
LEMMA RecommendationsPreserveInvariant == IInv /\ CheckRecommendations => IInv'
<1> SUFFICES ASSUME IInv, CheckRecommendations PROVE IInv'
  OBVIOUS
<1>1. /\ stage = "recommendations" /\ stage' = "score" /\ UNCHANGED <<evidence, answer, score>>
      /\ answer \in Answers
  BY DEF CheckRecommendations, IInv, ListsComeInOrder
<1> DEFINE dangling == {r \in answer.recommendations : Unsupported(r)}
           kept == (answer.recommendations \ dangling)
                     \ {r \in answer.recommendations \ dangling :
                          r.commands \intersect {"statement", "actions"} /= {}}
<1>2a. output' = [output EXCEPT !.recommendations = Relevelled(kept)]
  BY DEF CheckRecommendations
<1>2b. \A r \in kept : r \in answer.recommendations /\ ~Unsupported(r)
  OBVIOUS
<1> HIDE DEF dangling, kept
<1>2. /\ output' = [output EXCEPT !.recommendations = Relevelled(kept)]
      /\ \A r \in kept : r \in answer.recommendations /\ ~Unsupported(r)
  BY <1>2a, <1>2b
<1>3. /\ output'.recommendations = Relevelled(kept) /\ output'.facts = output.facts
      /\ output'.hypotheses = output.hypotheses /\ output'.findings = output.findings
      /\ DOMAIN output' = DOMAIN output
  BY <1>2 DEF IInv, ListsComeInOrder
<1>4. \A r \in kept : /\ DOMAIN r = {"id", "hypotheses", "facts", "commands", "money", "dims", "level"}
                      /\ r.dims \in Dimensions /\ r.facts \union r.hypotheses /= {}
  BY <1>1, <1>2, ReasoningAssumption DEF HasFields, WellFormed
<1>5. ASSUME NEW other \in Relevelled(kept)
      PROVE  /\ other.dims \in Dimensions /\ other.level = DeriveConfidenceLevel(other.dims)
             /\ other.facts \union other.hypotheses /= {}
             /\ other.hypotheses \subseteq Ids(output.hypotheses) /\ other.facts \subseteq Ids(output.facts)
  <2>1. PICK r \in kept : other = [r EXCEPT !.level = DeriveConfidenceLevel(r.dims)]
    BY DEF Relevelled
  <2>2. /\ other.facts = r.facts /\ other.hypotheses = r.hypotheses
        /\ other.dims = r.dims /\ other.level = DeriveConfidenceLevel(r.dims)
    BY <1>4, <2>1
  <2>3. QED
    BY <1>2, <1>4, <2>2 DEF Unsupported
<1>6. ListsComeInOrder'
  BY <1>1, <1>3 DEF IInv, ListsComeInOrder
<1>7. ItemsAreProcessed'
  BY <1>3, <1>5 DEF IInv, ItemsAreProcessed
<1>8. SupportIsClosed'
  BY <1>1, <1>3, <1>5 DEF IInv, SupportIsClosed, Grounded, ReasoningEvidence, Ids
<1>9. ProcessedOutputPasses'
  BY <1>1 DEF ProcessedOutputPasses, Statuses
<1>10. QED
  BY <1>6, <1>7, <1>8, <1>9 DEF IInv

\* What the invariant says of an output is what three of the rubrics ask of it.
LEMMA RubricsAgree ==
  ASSUME IInv, stage = "score"
  PROVE  ScoreStructuralCorrectness /\ ScoreCitationCompleteness /\ ScoreConfidenceConsistency
<1>1. ScoreStructuralCorrectness
  BY DerivedLevel DEF ScoreStructuralCorrectness, WellFormed, IInv, ItemsAreProcessed, SupportIsClosed, Grounded
<1>2. ScoreCitationCompleteness
  BY DEF ScoreCitationCompleteness, IInv, ItemsAreProcessed, SupportIsClosed
<1>3. ScoreConfidenceConsistency
  BY DEF ScoreConfidenceConsistency, Mislevelled, IInv, ItemsAreProcessed
<1>4. QED
  BY <1>1, <1>2, <1>3

\* So does scoring the output: what was processed passes.
LEMMA ScorePreservesInvariant ==
  ASSUME IInv, NEW retrieval, NEW contractIncomplete, Score(retrieval, contractIncomplete)
  PROVE  IInv'
<1>1. /\ stage = "score" /\ stage' \in Statuses /\ score' = ScoreAll
      /\ UNCHANGED <<evidence, answer, output>>
  BY DEF Score, RunStatus, Statuses
<1>2. {"structural_correctness", "citation_completeness", "confidence_consistency"} \subseteq score'
  BY <1>1, RubricsAgree DEF ScoreAll, Rubrics
<1>3. ListsComeInOrder'
  BY <1>1 DEF IInv, ListsComeInOrder, Statuses
<1>4. ItemsAreProcessed' /\ SupportIsClosed'
  BY <1>1 DEF IInv, ItemsAreProcessed, SupportIsClosed, Grounded, ReasoningEvidence, Ids
<1>5. QED
  BY <1>2, <1>3, <1>4 DEF IInv, ProcessedOutputPasses

\* So does every step.
LEMMA NextPreservesInvariant == IInv /\ [Next]_vars => IInv'
<1> SUFFICES ASSUME IInv, [Next]_vars PROVE IInv'
  OBVIOUS
<1>1. CASE Reason
  <2>1. /\ stage = "evidence" /\ stage' = "facts" /\ answer' \in Answers
        /\ output' = [output EXCEPT !.findings = answer'.findings] /\ UNCHANGED <<evidence, score>>
    BY <1>1 DEF Reason
  <2>2. /\ output'.facts = {} /\ output'.hypotheses = {} /\ output'.recommendations = {}
        /\ output'.findings = answer'.findings /\ DOMAIN output' = DOMAIN output
    BY <2>1 DEF IInv, ListsComeInOrder
  <2>3. QED
    BY <2>1, <2>2
    DEF IInv, ListsComeInOrder, ItemsAreProcessed, SupportIsClosed, ProcessedOutputPasses, Statuses
<1>2. CASE ReasonFails
  BY <1>2
  DEF ReasonFails, IInv, ListsComeInOrder, ItemsAreProcessed, SupportIsClosed, ProcessedOutputPasses, Statuses
<1>3. CASE CheckFacts
  BY <1>3, FactsPreserveInvariant
<1>4. CASE CheckHypotheses
  BY <1>4, HypothesesPreserveInvariant
<1>5. CASE CheckRecommendations
  BY <1>5, RecommendationsPreserveInvariant
<1>6. ASSUME NEW retrieval, NEW contractIncomplete, Score(retrieval, contractIncomplete)
      PROVE  IInv'
  BY <1>6, ScorePreservesInvariant
<1>7. CASE UNCHANGED vars
  BY <1>7
  DEF vars, IInv, ListsComeInOrder, ItemsAreProcessed, SupportIsClosed, ProcessedOutputPasses, Statuses,
      Grounded, ReasoningEvidence, Ids
<1>8. QED
  BY <1>1, <1>2, <1>3, <1>4, <1>5, <1>6, <1>7 DEF Next

\* Lists are processed in order, and what is left is closed and scored as such.
THEOREM ReasoningInvariant == Spec => []IInv
BY InitEstablishesInvariant, NextPreservesInvariant, PTL DEF Spec

\* Whatever the model answers: facts are grounded in unquarantined records, and
\* what is left cites only what is left.
THEOREM SupportStaysClosed == Spec => []SupportIsClosed
<1>1. IInv => SupportIsClosed
  BY DEF IInv
<1>2. QED
  BY <1>1, ReasoningInvariant, PTL

\* Post-processing and the rubrics agree: every processed output is well formed,
\* resolves, and claims no level it has not earned.
THEOREM ProcessingSatisfiesRubrics == Spec => []ProcessedOutputPasses
<1>1. IInv => ProcessedOutputPasses
  BY DEF IInv
<1>2. QED
  BY <1>1, ReasoningInvariant, PTL

-----------------------------------------------------------------------------
(* Losses. *)

\* The items of the three lists cannot be taken for each other.
LEMMA ListsAreApart ==
  ASSUME NEW said \in Answers, NEW f \in said.facts
  PROVE  f \notin said.hypotheses /\ f \notin said.recommendations
<1>1. DOMAIN f = {"id", "evidence", "numbers", "names"}
  BY ReasoningAssumption DEF HasFields
<1>2. /\ \A h \in said.hypotheses : "support" \in DOMAIN h
      /\ \A r \in said.recommendations : "money" \in DOMAIN r
  BY ReasoningAssumption DEF HasFields
<1>3. QED
  BY <1>1, <1>2

\* An each with another level is recognised.
LEMMA RelevelledSurvives ==
  ASSUME NEW items, NEW each \in items, "level" \in DOMAIN each
  PROVE  Survives(each, Relevelled(items))
<1> DEFINE other == [each EXCEPT !.level = DeriveConfidenceLevel(each.dims)]
<1>1. other \in Relevelled(items)
  BY DEF Relevelled
<1>2. other.level = DeriveConfidenceLevel(each.dims)
  OBVIOUS
<1>3. other = [each EXCEPT !.level = other.level]
  BY <1>2
<1>4. QED
  BY <1>1, <1>3 DEF Survives

\* The first step of post-processing tells each fact it drops, once.
LEMMA FactsDropTheirOwn ==
  ASSUME IInv, LossInv, CheckFacts
  PROVE  LossInv'
<1>1. /\ stage = "facts" /\ stage' = "hypotheses" /\ answer' = answer /\ issues = {}
      /\ answer \in Answers
  BY DEF CheckFacts, LossInv, IssuesAreAboutItems, IInv, ListsComeInOrder
<1> DEFINE dangling == {f \in answer.facts : ~(f.evidence \subseteq Ids(ReasoningEvidence))}
           fabricated == {f \in answer.facts \ dangling : HasFabricatedNumbers(f)}
<1>2. /\ output'.facts = (answer.facts \ dangling) \ fabricated
      /\ issues' = Drop("dangling_citation", "fact", dangling)
                    \union Drop("fabricated_number", "fact", fabricated)
  BY <1>1 DEF CheckFacts, IInv, ListsComeInOrder
<1>3. /\ answer.facts \ output'.facts = dangling \union fabricated
      /\ dangling \intersect fabricated = {}
  BY <1>2
<1> HIDE DEF dangling, fabricated
<1>4. \A i \in issues' : /\ i.target = "fact" /\ i.item \in answer.facts \ output'.facts
                         /\ i.kind /= "confidence_downgraded"
  BY <1>2, <1>3 DEF Drop
<1>5. Drops' = issues'
  BY <1>4 DEF Drops
<1>6. ASSUME NEW f \in answer.facts \ output'.facts
      PROVE  \E i \in issues' : \A j \in issues' : j.item = f <=> j = i
  <2>1. CASE f \in dangling
    <3> DEFINE i == [kind |-> "dangling_citation", target |-> "fact", item |-> f]
    <3>1. i \in issues'
      BY <1>2, <2>1 DEF Drop
    <3>2. \A j \in issues' : j.item = f => j = i
      BY <1>2, <1>3, <2>1 DEF Drop
    <3>3. i.item = f
      OBVIOUS
    <3>4. QED
      BY <3>1, <3>2, <3>3
  <2>2. CASE f \in fabricated
    <3> DEFINE i == [kind |-> "fabricated_number", target |-> "fact", item |-> f]
    <3>1. i \in issues'
      BY <1>2, <2>2 DEF Drop
    <3>2. \A j \in issues' : j.item = f => j = i
      BY <1>2, <1>3, <2>2 DEF Drop
    <3>3. i.item = f
      OBVIOUS
    <3>4. QED
      BY <3>1, <3>2, <3>3
  <2>3. QED
    BY <1>3, <2>1, <2>2
<1>7. IssuesAreAboutItems'
  BY <1>1, <1>2, <1>4 DEF IssuesAreAboutItems
<1>8. LossesSoFar'
  BY <1>1, <1>5, <1>6 DEF LossesSoFar, DroppedOnce, Statuses
<1>9. QED
  BY <1>7, <1>8 DEF LossInv

\* Issues about another list leave the facts' issues and the other losses as they are.
LEMMA LaterIssues ==
  ASSUME IInv, LossInv, answer \in Answers, UNCHANGED answer, output'.facts = output.facts,
         NEW added, issues' = issues \union added,
         \A i \in added : i.item \in answer.hypotheses \union answer.recommendations
  PROVE  /\ Drops \subseteq Drops'
         /\ \A f \in answer.facts \ output.facts : DroppedOnce(f) => DroppedOnce(f)'
<1>1. Drops \subseteq Drops' /\ \A j \in Drops' \ Drops : j \in added
  BY DEF Drops
<1>2. ASSUME NEW f \in answer.facts, DroppedOnce(f) PROVE DroppedOnce(f)'
  <2>1. PICK i \in Drops : \A j \in Drops : j.item = f <=> j = i
    BY <1>2 DEF DroppedOnce
  <2>2. \A j \in Drops' \ Drops : j.item /= f
    BY <1>1, ListsAreApart
  <2>3. \A j \in Drops' : j.item = f <=> j = i
    BY <1>1, <2>1, <2>2
  <2>4. QED
    BY <1>1, <2>1, <2>3 DEF DroppedOnce
<1>3. QED
  BY <1>1, <1>2

\* A hypothesis that is not left is reported.
LEMMA HypothesesReportLosses ==
  ASSUME IInv, LossInv, CheckHypotheses
  PROVE  LossInv'
<1>1. /\ stage = "hypotheses" /\ stage' = "recommendations" /\ answer' = answer /\ answer \in Answers
  BY DEF CheckHypotheses, IInv, ListsComeInOrder
<1> DEFINE dangling == {h \in answer.hypotheses : Dangles(h)}
           kept == answer.hypotheses \ dangling
           added == Drop("dangling_citation", "hypothesis", dangling)
                    \union Drop("confidence_downgraded", "hypothesis", Mislevelled(kept))
<1>2. /\ output'.hypotheses = Relevelled(kept) /\ output'.facts = output.facts
      /\ output'.recommendations = output.recommendations /\ issues' = issues \union added
  BY <1>1 DEF CheckHypotheses, IInv, ListsComeInOrder
<1>3. \A i \in added : i.target = "hypothesis" /\ i.item \in answer.hypotheses
  BY DEF Drop, Mislevelled
<1>4. \A h \in dangling : \E i \in added : i.kind /= "confidence_downgraded" /\ i.item = h
  <2> SUFFICES ASSUME NEW h \in dangling
               PROVE  \E i \in added : i.kind /= "confidence_downgraded" /\ i.item = h
    OBVIOUS
  <2>1. [kind |-> "dangling_citation", target |-> "hypothesis", item |-> h] \in added
    BY DEF Drop
  <2>2. QED
    BY <2>1
<1>5. \A h \in kept : Survives(h, Relevelled(kept))
  <2>1. \A h \in kept : "level" \in DOMAIN h
    BY <1>1, ReasoningAssumption DEF HasFields
  <2>2. QED
    BY <2>1, RelevelledSurvives
<1>6. \A h \in answer.hypotheses : h \in dangling \/ h \in kept
  OBVIOUS
<1> HIDE DEF added, dangling, kept
<1>7. /\ Drops \subseteq Drops'
      /\ \A f \in answer.facts \ output.facts : DroppedOnce(f) => DroppedOnce(f)'
  BY <1>1, <1>2, <1>3, LaterIssues
<1>8. IssuesAreAboutItems'
  BY <1>1, <1>2, <1>3 DEF LossInv, IssuesAreAboutItems
<1>9. \A f \in (answer.facts \ output.facts)' : DroppedOnce(f)'
  BY <1>1, <1>2, <1>7 DEF LossInv, LossesSoFar
<1>10. \A h \in answer'.hypotheses : LeftOrDropped(h, output.hypotheses)'
  BY <1>1, <1>2, <1>4, <1>5, <1>6 DEF LeftOrDropped, Drops
<1>11. LossesSoFar'
  BY <1>1, <1>9, <1>10 DEF LossesSoFar, Statuses
<1>12. QED
  BY <1>8, <1>11 DEF LossInv

\* A recommendation that is not left is reported.
LEMMA RecommendationsReportLosses ==
  ASSUME IInv, LossInv, CheckRecommendations
  PROVE  LossInv'
<1>1. /\ stage = "recommendations" /\ stage' = "score" /\ answer' = answer /\ answer \in Answers
  BY DEF CheckRecommendations, IInv, ListsComeInOrder
<1> DEFINE dangling == {r \in answer.recommendations : Unsupported(r)}
           imperative == {r \in answer.recommendations \ dangling :
                            r.commands \intersect {"statement", "actions"} /= {}}
           kept == (answer.recommendations \ dangling) \ imperative
           added == Drop("dangling_citation", "recommendation", dangling)
                    \union Drop("imperative_language", "recommendation", imperative)
                    \union Drop("confidence_downgraded", "recommendation", Mislevelled(kept))
<1>2. /\ output'.recommendations = Relevelled(kept) /\ output'.facts = output.facts
      /\ output'.hypotheses = output.hypotheses /\ issues' = issues \union added
  <2>1. issues' = issues \union added
    BY DEF CheckRecommendations
  <2>2. QED
    BY <2>1 DEF CheckRecommendations, IInv, ListsComeInOrder
<1>3. \A i \in added : i.target = "recommendation" /\ i.item \in answer.recommendations
  BY DEF Drop, Mislevelled
<1>4. \A r \in dangling \union imperative : \E i \in added : i.kind /= "confidence_downgraded" /\ i.item = r
  <2>1. ASSUME NEW r \in dangling
        PROVE  \E i \in added : i.kind /= "confidence_downgraded" /\ i.item = r
    <3>1. [kind |-> "dangling_citation", target |-> "recommendation", item |-> r] \in added
      BY <2>1 DEF Drop
    <3>2. QED
      BY <3>1
  <2>2. ASSUME NEW r \in imperative
        PROVE  \E i \in added : i.kind /= "confidence_downgraded" /\ i.item = r
    <3>1. [kind |-> "imperative_language", target |-> "recommendation", item |-> r] \in added
      BY <2>2 DEF Drop
    <3>2. QED
      BY <3>1
  <2>3. QED
    BY <2>1, <2>2
<1>5. \A r \in kept : Survives(r, Relevelled(kept))
  <2>1. \A r \in kept : "level" \in DOMAIN r
    BY <1>1, ReasoningAssumption DEF HasFields
  <2>2. QED
    BY <2>1, RelevelledSurvives
<1>6. \A r \in answer.recommendations : r \in dangling \union imperative \/ r \in kept
  OBVIOUS
<1> HIDE DEF added, dangling, imperative, kept
<1>7. /\ Drops \subseteq Drops'
      /\ \A f \in answer.facts \ output.facts : DroppedOnce(f) => DroppedOnce(f)'
  BY <1>1, <1>2, <1>3, LaterIssues
<1>8. IssuesAreAboutItems'
  BY <1>1, <1>2, <1>3 DEF LossInv, IssuesAreAboutItems
<1>9. \A f \in (answer.facts \ output.facts)' : DroppedOnce(f)'
  BY <1>1, <1>2, <1>7 DEF LossInv, LossesSoFar
<1>10. \A h \in answer'.hypotheses : LeftOrDropped(h, output.hypotheses)'
  BY <1>1, <1>2, <1>7 DEF LossInv, LossesSoFar, LeftOrDropped, Survives
<1>11. \A r \in answer'.recommendations : LeftOrDropped(r, output.recommendations)'
  BY <1>1, <1>2, <1>4, <1>5, <1>6 DEF LeftOrDropped, Drops
<1>12. LossesSoFar'
  BY <1>1, <1>9, <1>10, <1>11 DEF LossesSoFar, Statuses
<1>13. QED
  BY <1>8, <1>12 DEF LossInv

\* Every step reports what it drops.
LEMMA NextReportsLosses == IInv /\ LossInv /\ [Next]_vars => LossInv'
<1> SUFFICES ASSUME IInv, LossInv, [Next]_vars PROVE LossInv'
  OBVIOUS
<1>1. CASE Reason \/ ReasonFails
  <2>1. /\ stage = "evidence" /\ stage' \in {"facts", "no_output"} /\ issues' = issues
        /\ output.facts = {} /\ output'.facts = {}
    BY <1>1 DEF Reason, ReasonFails, IInv, ListsComeInOrder
  <2>2. QED
    BY <2>1 DEF LossInv, IssuesAreAboutItems, LossesSoFar, Statuses
<1>2. ASSUME NEW retrieval, NEW contractIncomplete, Score(retrieval, contractIncomplete)
      PROVE  LossInv'
  <2>1. /\ stage = "score" /\ stage' \in Statuses /\ (stage' = "success" => Drops = {})
        /\ UNCHANGED <<answer, output, issues>>
    BY <1>2 DEF Score, RunStatus, Statuses
  <2>2. QED
    BY <2>1
    DEF LossInv, IssuesAreAboutItems, LossesSoFar, Drops, Statuses, DroppedOnce, LeftOrDropped, Survives
<1>3. CASE UNCHANGED vars
  BY <1>3
  DEF vars, LossInv, IssuesAreAboutItems, LossesSoFar, Drops, Statuses, DroppedOnce, LeftOrDropped, Survives
<1>4. QED
  BY <1>1, <1>2, <1>3, FactsDropTheirOwn, HypothesesReportLosses, RecommendationsReportLosses DEF Next

\* With an issue for every item that is not left, every loss is reported.
LEMMA LossesAreTold == IInv /\ LossInv => EveryLossIsReported
<1> SUFFICES ASSUME IInv, LossInv, stage \in {"score"} \union Statuses PROVE EveryLossIsReported
  BY DEF EveryLossIsReported
<1>1. answer \in Answers
  BY DEF IInv, ListsComeInOrder, Statuses
<1>2. ASSUME NEW i \in Drops
      PROVE  i.item \notin output.facts \intersect answer.facts
  BY <1>1, ListsAreApart DEF LossInv, IssuesAreAboutItems, Drops
<1>3. /\ output.facts \subseteq answer.facts
      /\ \A f \in answer.facts \ output.facts : DroppedOnce(f)
      /\ \A h \in answer.hypotheses : LeftOrDropped(h, output.hypotheses)
      /\ \A r \in answer.recommendations : LeftOrDropped(r, output.recommendations)
      /\ stage = "success" => Drops = {}
  BY DEF LossInv, IssuesAreAboutItems, LossesSoFar
<1>4. ASSUME NEW f \in answer.facts \ output.facts
      PROVE  Cardinality({i \in Drops : i.item = f}) = 1 /\ stage /= "success"
  <2>1. PICK i \in Drops : \A j \in Drops : j.item = f <=> j = i
    BY <1>3 DEF DroppedOnce
  <2>2. {j \in Drops : j.item = f} = {i}
    BY <2>1
  <2>3. QED
    BY <1>3, <2>1, <2>2, FS_Singleton
<1>5. QED
  BY <1>2, <1>3, <1>4 DEF EveryLossIsReported, LeftOrDropped

\* Whatever the model answers: each item of the answer is left or has the one issue
\* that says why it is not, and a success shows everything the model said.
THEOREM EveryLossHasItsIssue == Spec => []EveryLossIsReported
<1>1. Init => LossInv
  BY DEF Init, LossInv, IssuesAreAboutItems, LossesSoFar, Statuses
<1>2. QED
  BY <1>1, NextReportsLosses, LossesAreTold, ReasoningInvariant, PTL DEF Spec

-----------------------------------------------------------------------------
(* Sums over finite sets. The library folds over a set by a function defined *)
(* by recursion on its subsets; that there is such a function, and what it   *)
(* computes, is proved here by induction over the subsets.                   *)

\* Of some subsets of a finite set, one has none of the others in it.
LEMMA FiniteSetsHaveLeast ==
  ASSUME NEW S, IsFiniteSet(S), NEW bad \in SUBSET SUBSET S, bad /= {}
  PROVE  \E T \in bad : \A U \in bad : U \subseteq T => U = T
<1>1. bad \subseteq FiniteSubsetsOf(S)
  BY FS_FiniteSubsetsOfFinite
<1>2. PICK T \in bad : \A U \in bad : <<U, T>> \notin StrictSubsetOrdering(S)
  BY <1>1, FS_StrictSubsetOrderingWellFounded, WFMin
<1>3. QED
  BY <1>2 DEF StrictSubsetOrdering

Pick(s) == CHOOSE r \in s : TRUE

\* Picking a member leaves the others.
LEMMA PickFacts ==
  ASSUME NEW s, s /= {}
  PROVE  Pick(s) \in s /\ s \ {Pick(s)} \subseteq s /\ s \ {Pick(s)} /= s
BY DEF Pick

\* The function of the fold on the subsets of S, and its value at S.
IsSum(g, S) == g = [s \in SUBSET S |-> IF s = {} THEN 0 ELSE Price(Pick(s)) + g[s \ {Pick(s)}]]
SumOver(S) == CHOOSE g : IsSum(g, S)

\* A sum is the price of a picked resource and the sum of the others.
LEMMA SumsUnfold ==
  ASSUME NEW S, NEW g, IsSum(g, S), NEW s \in SUBSET S
  PROVE  g[s] = IF s = {} THEN 0 ELSE Price(Pick(s)) + g[s \ {Pick(s)}]
BY DEF IsSum

\* Two such functions agree where both are defined.
LEMMA SumsAgree ==
  ASSUME NEW S, NEW T, NEW g, NEW h, IsFiniteSet(S), IsSum(g, S), IsSum(h, T),
         NEW s \in SUBSET S, s \subseteq T
  PROVE  g[s] = h[s]
<1> DEFINE bad == {u \in SUBSET S : u \subseteq T /\ g[u] /= h[u]}
<1> SUFFICES ASSUME bad /= {} PROVE FALSE
  OBVIOUS
<1>1. bad \in SUBSET SUBSET S
  OBVIOUS
<1>2. PICK u \in bad : \A v \in bad : v \subseteq u => v = u
  <2> HIDE DEF bad
  <2>1. QED
    BY <1>1, FiniteSetsHaveLeast
<1>3. u \in SUBSET S /\ u \in SUBSET T /\ g[u] /= h[u]
  OBVIOUS
<1>4. u /= {}
  BY <1>3, SumsUnfold
<1>5. g[u \ {Pick(u)}] = h[u \ {Pick(u)}]
  BY <1>2, <1>3, <1>4, PickFacts
<1>6. QED
  BY <1>3, <1>4, <1>5, SumsUnfold

\* A finite set of resources has a sum, and SumOver is it.
LEMMA SumsExist ==
  ASSUME NEW S, IsFiniteSet(S)
  PROVE  \A T \in SUBSET S : IsSum(SumOver(T), T)
<1> DEFINE bad == {T \in SUBSET S : ~IsSum(SumOver(T), T)}
<1> SUFFICES ASSUME bad /= {} PROVE FALSE
  OBVIOUS
<1>1. bad \in SUBSET SUBSET S
  OBVIOUS
<1>2. PICK T \in bad : \A U \in bad : U \subseteq T => U = T
  <2> HIDE DEF bad
  <2>1. QED
    BY <1>1, FiniteSetsHaveLeast
<1>3. T \in SUBSET S /\ ~IsSum(SumOver(T), T)
  OBVIOUS
<1>4. \A U \in SUBSET T : U /= T => IsSum(SumOver(U), U) /\ IsFiniteSet(U)
  BY <1>2, <1>3, FS_Subset
<1> HIDE DEF bad
<1> DEFINE less(s) == s \ {Pick(s)}
           g == [s \in SUBSET T |-> IF s = {} THEN 0 ELSE Price(Pick(s)) + SumOver(less(s))[less(s)]]
<1>5. ASSUME NEW s \in SUBSET T, s /= T
      PROVE  g[s] = SumOver(s)[s]
  <2>1. IsSum(SumOver(s), s) /\ IsFiniteSet(s)
    BY <1>4, <1>5
  <2>2. SumOver(s)[s] = IF s = {} THEN 0 ELSE Price(Pick(s)) + SumOver(s)[less(s)]
    BY <2>1, SumsUnfold
  <2>3. CASE s = {}
    BY <2>2, <2>3
  <2>4. CASE s /= {}
    <3>1. less(s) \in SUBSET s /\ less(s) \in SUBSET T /\ less(s) /= T
      BY <1>5, <2>4, PickFacts
    <3>2. IsSum(SumOver(less(s)), less(s))
      BY <1>4, <3>1
    <3>3. SumOver(s)[less(s)] = SumOver(less(s))[less(s)]
      BY <2>1, <3>1, <3>2, SumsAgree
    <3>4. QED
      BY <2>2, <2>4, <3>3
  <2>5. QED
    BY <2>3, <2>4
<1>6. ASSUME NEW s \in SUBSET T, s /= {}
      PROVE  SumOver(less(s))[less(s)] = g[less(s)]
  <2>1. less(s) \in SUBSET T /\ less(s) /= T
    BY <1>6, PickFacts
  <2>2. QED
    BY <1>5, <2>1
<1>7. IsSum(g, T)
  BY <1>6 DEF IsSum
<1>8. IsSum(SumOver(T), T)
  BY <1>7 DEF SumOver
<1>9. QED
  BY <1>3, <1>8

\* The sum over a subset is a value of the function for the whole set.
LEMMA SumOfSubset ==
  ASSUME NEW S, IsFiniteSet(S), NEW T \in SUBSET S
  PROVE  MapThenSumSet(Price, T) = SumOver(S)[T]
<1>1. MapThenSumSet(Price, T) = SumOver(T)[T]
  BY DEF MapThenSumSet, MapThenFoldSet, SumOver, IsSum, Pick
<1>2. IsSum(SumOver(T), T) /\ IsSum(SumOver(S), S)
  BY SumsExist
<1>3. QED
  BY <1>1, <1>2, SumsAgree

\* A sum of natural numbers is one, and any element may be taken out first.
LEMMA SumIsNat ==
  ASSUME NEW S, IsFiniteSet(S), \A r \in S : Price(r) \in Nat, NEW g, IsSum(g, S)
  PROVE  \A s \in SUBSET S : g[s] \in Nat
<1> DEFINE bad == {s \in SUBSET S : g[s] \notin Nat}
<1> SUFFICES ASSUME bad /= {} PROVE FALSE
  OBVIOUS
<1>1. bad \in SUBSET SUBSET S
  OBVIOUS
<1>2. PICK u \in bad : \A v \in bad : v \subseteq u => v = u
  <2> HIDE DEF bad
  <2>1. QED
    BY <1>1, FiniteSetsHaveLeast
<1>3. u \in SUBSET S /\ g[u] \notin Nat
  OBVIOUS
<1> HIDE DEF bad
<1>4. u /= {}
  <2>1. g[{}] = 0
    BY SumsUnfold
  <2>2. QED
    BY <1>3, <2>1
<1>5. g[u \ {Pick(u)}] \in Nat /\ Price(Pick(u)) \in Nat
  BY <1>2, <1>3, <1>4, PickFacts DEF bad
<1>6. g[u] = Price(Pick(u)) + g[u \ {Pick(u)}]
  BY <1>3, <1>4, SumsUnfold
<1>7. QED
  BY <1>3, <1>5, <1>6

\* It does not matter which resource is taken out first.
LEMMA SumWithout ==
  ASSUME NEW S, IsFiniteSet(S), \A r \in S : Price(r) \in Nat, NEW g, IsSum(g, S)
  PROVE  \A s \in SUBSET S : \A y \in s : g[s] = Price(y) + g[s \ {y}]
<1> DEFINE bad == {s \in SUBSET S : \E y \in s : g[s] /= Price(y) + g[s \ {y}]}
<1> SUFFICES ASSUME bad /= {} PROVE FALSE
  OBVIOUS
<1>1. bad \in SUBSET SUBSET S
  OBVIOUS
<1>2. PICK u \in bad : \A v \in bad : v \subseteq u => v = u
  <2> HIDE DEF bad
  <2>1. QED
    BY <1>1, FiniteSetsHaveLeast
<1>3. PICK y \in u : g[u] /= Price(y) + g[u \ {y}]
  OBVIOUS
<1>4. u \in SUBSET S /\ u /= {}
  OBVIOUS
<1>5. \A v \in SUBSET u : v /= u => \A z \in v : g[v] = Price(z) + g[v \ {z}]
  BY <1>2, <1>4
<1> HIDE DEF bad
<1> DEFINE x == Pick(u)
<1>6. x \in u /\ g[u] = Price(x) + g[u \ {x}]
  BY <1>4, PickFacts, SumsUnfold
<1> HIDE DEF x
<1>7. x /= y
  BY <1>3, <1>6
<1>8. g[u \ {x}] = Price(y) + g[(u \ {x}) \ {y}]
  BY <1>5, <1>6, <1>7
<1>9. g[u \ {y}] = Price(x) + g[(u \ {y}) \ {x}]
  BY <1>5, <1>6, <1>7
<1>10. (u \ {x}) \ {y} = (u \ {y}) \ {x}
  OBVIOUS
<1> DEFINE rest == g[(u \ {x}) \ {y}]
<1>11. Price(x) \in Nat /\ Price(y) \in Nat /\ rest \in Nat
  BY <1>4, <1>6, SumIsNat
<1>12. g[u \ {x}] = Price(y) + rest /\ g[u \ {y}] = Price(x) + rest
  BY <1>8, <1>9, <1>10
<1> HIDE DEF rest
<1>13. g[u] = Price(y) + g[u \ {y}]
  BY <1>6, <1>11, <1>12
<1>14. QED
  BY <1>3, <1>13

\* More terms do not make a smaller sum.
LEMMA SumIsMonotonic ==
  ASSUME NEW S, IsFiniteSet(S), \A r \in S : Price(r) \in Nat, NEW T \in SUBSET S
  PROVE  MapThenSumSet(Price, T) <= MapThenSumSet(Price, S)
<1> DEFINE g == SumOver(S)
           bad == {U \in SUBSET S : T \subseteq U /\ ~(g[T] <= g[U])}
<1>1. IsSum(g, S)
  BY SumsExist
<1> HIDE DEF g
<1>2. \A U \in SUBSET S : g[U] \in Nat
  BY <1>1, SumIsNat
<1>3. ASSUME bad /= {} PROVE FALSE
  <2>1. bad \in SUBSET SUBSET S
    OBVIOUS
  <2>2. PICK U \in bad : \A V \in bad : V \subseteq U => V = U
    <3> HIDE DEF bad
    <3>1. QED
      BY <1>3, <2>1, FiniteSetsHaveLeast
  <2>3. U \in SUBSET S /\ T \subseteq U /\ ~(g[T] <= g[U])
    OBVIOUS
  <2> HIDE DEF bad
  <2>4. PICK y \in U : y \notin T
    <3>1. g[T] <= g[T]
      BY <1>2
    <3>2. U /= T
      BY <2>3, <3>1
    <3>3. QED
      BY <2>3, <3>2
  <2>5. g[U] = Price(y) + g[U \ {y}]
    BY <1>1, <2>3, SumWithout
  <2>6. g[T] <= g[U \ {y}]
    <3>1. U \ {y} \in SUBSET S /\ T \subseteq U \ {y} /\ U \ {y} \subseteq U /\ U \ {y} /= U
      BY <2>3, <2>4
    <3>2. QED
      BY <2>2, <3>1 DEF bad
  <2>7. g[T] \in Nat /\ g[U \ {y}] \in Nat /\ Price(y) \in Nat
    BY <1>2, <2>3
  <2>8. QED
    BY <2>3, <2>5, <2>6, <2>7
<1>4. g[T] <= g[S]
  BY <1>3
<1>5. QED
  BY <1>4, SumOfSubset DEF g
-----------------------------------------------------------------------------
(* Waste detection: what a lane may state of the resources there are. *)

\* A row of an answer is a row about a resource there is, attached in the row if
\* it is attached; two rows are never about the same resource.
LEMMA RowsAreAboutTheWorld ==
  ASSUME NEW lane, NEW raw \in RawAnswers(lane)
  PROVE  /\ \A row \in raw.rows : row.id \in world /\ (~row.attached => ~row.id.attached)
         /\ \A one, other \in raw.rows : one.id = other.id => one = other
         /\ raw.envelope \in {"counted", "uncounted", "unknown"}
         /\ ~Paging => raw.count = Cardinality(Matches(lane))
<1> DEFINE Rows(returned) == {Row(r) : r \in returned}
           plain == {Rows(returned) : returned \in SUBSET world}
           bent == UNION {{Rows(others) \union {row} : others \in SUBSET (world \ {bad}), row \in Garbled(bad)} :
                           bad \in world}
<1>1. /\ raw.rows \in plain \union bent
      /\ raw.envelope \in {"counted", "uncounted", "unknown"}
      /\ ~Paging => raw.count = Cardinality(Matches(lane))
  BY DEF RawAnswers
<1>2. \A r : Row(r).id = r /\ Row(r).attached = r.attached
  BY DEF Row
<1>3. \A r : \A row \in Garbled(r) : row.id = r /\ (~row.attached => ~r.attached)
  BY DEF Row, Garbled
<1>4. CASE raw.rows \in plain
  <2>1. PICK returned \in SUBSET world : raw.rows = {Row(r) : r \in returned}
    BY <1>4
  <2>2. QED
    BY <1>1, <1>2, <2>1
<1>5. CASE raw.rows \in bent
  <2>1. PICK bad \in world : \E others \in SUBSET (world \ {bad}), row \in Garbled(bad) :
                               raw.rows = Rows(others) \union {row}
    BY <1>5
  <2>2. PICK others \in SUBSET (world \ {bad}), row \in Garbled(bad) :
               raw.rows = {Row(r) : r \in others} \union {row}
    BY <2>1
  <2> HIDE DEF Rows, plain, bent
  <2>3. \A one \in raw.rows : \/ one = row /\ one.id = bad
                              \/ one.id \in others /\ one = Row(one.id) /\ one.attached = one.id.attached
    BY <1>2, <1>3, <2>2
  <2>4. row.id = bad /\ (~row.attached => ~bad.attached)
    BY <1>3
  <2>5. QED
    BY <1>1, <2>3, <2>4
<1>6. QED
  BY <1>1, <1>4, <1>5

\* What is admitted matches the lane's query.
LEMMA AdmittedRowsMatch ==
  ASSUME NEW lane, NEW row, row.id \in world, ~row.id.attached, Admissible(row, lane)
  PROVE  row.id \in Matches(lane)
BY DEF Admissible, Matches, InScope

\* The distance of two counts, and when it vanishes.
LEMMA DistanceFacts ==
  ASSUME NEW m \in Nat, NEW n \in Nat
  PROVE  Distance(m, n) \in Nat /\ (Distance(m, n) = 0 => m = n)
BY DEF Distance

\* There are finitely many resources, and no more rows than resources.
LEMMA AnswersAreFinite ==
  ASSUME world \in SUBSET Resource, NEW lane, NEW raw \in RawAnswers(lane)
  PROVE  /\ IsFiniteSet(world) /\ IsFiniteSet(Matches(lane)) /\ IsFiniteSet(raw.rows)
         /\ Cardinality(Matches(lane)) \in Nat
         /\ \A rows \in SUBSET raw.rows : IsFiniteSet(rows) /\ Cardinality(rows) \in Nat
<1>1. IsFiniteSet(world)
  BY WasteAssumption, FS_Subset
<1>2. IsFiniteSet(Matches(lane))
  BY <1>1, FS_Subset DEF Matches
<1>3. IsFiniteSet(raw.rows)
  <2> DEFINE about == [row \in raw.rows |-> row.id]
  <2>1. about \in [raw.rows -> world] /\ \A a, b \in raw.rows : about[a] = about[b] => a = b
    BY RowsAreAboutTheWorld
  <2>2. about \in Injection(raw.rows, world)
    BY <2>1, Fun_IsInj
  <2>3. QED
    BY <1>1, <2>2, FS_Injection
<1>4. \A rows \in SUBSET raw.rows : IsFiniteSet(rows)
  BY <1>3, FS_Subset
<1>5. QED
  BY <1>1, <1>2, <1>3, <1>4, FS_CardinalityType

\* An answer whose rows are all read and all admitted, and which counts as many
\* as it should, has shown every match: rows stand for different matches.
LEMMA CompleteAnswersShowAll ==
  ASSUME world \in SUBSET Resource, NEW lane, NEW raw \in RawAnswers(lane), ~Paging,
         ContractIssues(raw) = 0,
         \A row \in raw.rows : Parses(row) /\ Admissible(row, lane)
  PROVE  {row.id : row \in raw.rows} = Matches(lane)
<1> DEFINE about == [row \in raw.rows |-> row.id]
<1>1. raw.envelope = "counted" /\ raw.count = Cardinality(Matches(lane))
  BY RowsAreAboutTheWorld DEF ContractIssues
<1>2. /\ IsFiniteSet(raw.rows) /\ IsFiniteSet(Matches(lane))
      /\ Cardinality(raw.rows) \in Nat /\ Cardinality(Matches(lane)) \in Nat
  BY AnswersAreFinite
<1>3. Cardinality(raw.rows) = Cardinality(Matches(lane))
  BY <1>1, <1>2, DistanceFacts DEF ContractIssues
<1>4. about \in [raw.rows -> Matches(lane)] /\ \A a, b \in raw.rows : about[a] = about[b] => a = b
  BY RowsAreAboutTheWorld, AdmittedRowsMatch DEF Parses
<1>5. about \in Injection(raw.rows, Matches(lane))
  BY <1>4, Fun_IsInj
<1>6. about \in Surjection(raw.rows, Matches(lane))
  BY <1>2, <1>3, <1>5, FS_Injection
<1>7. \A row \in raw.rows : about[row] = row.id
  OBVIOUS
<1> HIDE DEF about
<1>8. \A r \in Matches(lane) : \E row \in raw.rows : about[row] = r
  BY <1>6 DEF Surjection
<1>9. \A r \in Matches(lane) : \E row \in raw.rows : row.id = r
  BY <1>7, <1>8
<1>10. \A row \in raw.rows : row.id \in Matches(lane)
  BY <1>4, <1>7
<1>11. QED
  BY <1>9, <1>10

\* The result of a lane: what it saw matches, and is all that matches if the
\* result does not say that something was left out.
LEMMA LaneResultsAreReal ==
  ASSUME world \in SUBSET Resource, LaneIsDue, results \in Seq(LaneOutcome),
         NEW raw \in RawAnswers(Lane)
  PROVE  LET result == LaneResult(raw)
         IN /\ result \in LaneOutcome /\ result.lane = Lane /\ ~result.failed
            /\ result.candidates \subseteq Matches(Lane)
            /\ result.total = RollUpLaneTotal(result.candidates)
            /\ ~Paging /\ ~Incomplete(result) => result.candidates = Matches(Lane)
<1> DEFINE parsed == ParseRows(raw)
           admitted == {row \in parsed.candidates : Admissible(row, Lane)}
           candidates == {row.id : row \in admitted}
           bad == {row \in ExtractRows(raw) : ~Parses(row)}
           result == LaneResult(raw)
<1>1. /\ parsed.candidates = {row \in ExtractRows(raw) : Parses(row)}
      /\ parsed.unparsed = ContractIssues(raw) + Cardinality(bad)
  BY DEF ParseRows
<1>2. /\ result.lane = Lane /\ result.failed = FALSE /\ result.candidates = candidates
      /\ result.total = RollUpLaneTotal(candidates) /\ result.unparsed = parsed.unparsed
      /\ result.rejected = Cardinality(parsed.candidates \ admitted)
      /\ result = [lane |-> Lane, failed |-> FALSE, candidates |-> candidates,
                   total |-> RollUpLaneTotal(candidates), unparsed |-> parsed.unparsed,
                   rejected |-> Cardinality(parsed.candidates \ admitted)]
  BY DEF LaneResult
<1> HIDE DEF result
<1>3. ExtractRows(raw) \subseteq raw.rows
  BY DEF ExtractRows
<1>4. bad \in SUBSET raw.rows /\ parsed.candidates \ admitted \in SUBSET raw.rows
  BY <1>1, <1>3
<1>5. \A rows \in SUBSET raw.rows : IsFiniteSet(rows) /\ Cardinality(rows) \in Nat
  BY AnswersAreFinite
<1>6. ContractIssues(raw) \in Nat
  <2>1. Cardinality(raw.rows) \in Nat /\ Cardinality(Matches(Lane)) \in Nat
    BY AnswersAreFinite
  <2>2. raw.count \in Nat
    <3>1. Paging => raw.count = Cardinality(raw.rows)
      BY DEF RawAnswers
    <3>2. QED
      BY <2>1, <3>1, RowsAreAboutTheWorld
  <2>3. QED
    BY <2>1, <2>2, DistanceFacts DEF ContractIssues
<1>7. result.unparsed \in Nat /\ result.rejected \in Nat
  BY <1>1, <1>2, <1>4, <1>5, <1>6
<1>8. candidates \subseteq Matches(Lane)
  <2>1. \A row \in admitted : row \in raw.rows /\ Parses(row) /\ Admissible(row, Lane)
    BY <1>1, <1>3
  <2>2. \A row \in admitted : row.id \in world /\ ~row.id.attached
    BY <2>1, RowsAreAboutTheWorld DEF Parses
  <2>3. QED
    BY <2>1, <2>2, AdmittedRowsMatch
<1>9. ASSUME ~Paging, ~Incomplete(result) PROVE candidates = Matches(Lane)
  <2>1. result.unparsed = 0 /\ result.rejected = 0
    BY <1>7, <1>9 DEF Incomplete
  <2>2. ContractIssues(raw) = 0 /\ bad = {} /\ parsed.candidates \ admitted = {}
    <3>1. ContractIssues(raw) = 0 /\ Cardinality(bad) = 0 /\ Cardinality(parsed.candidates \ admitted) = 0
      BY <1>1, <1>2, <1>4, <1>5, <1>6, <2>1
    <3>2. QED
      BY <1>4, <1>5, <3>1, FS_EmptySet
  <2>3. ExtractRows(raw) = raw.rows
    BY <2>2 DEF ContractIssues, ExtractRows
  <2>4. \A row \in raw.rows : row \in admitted /\ Parses(row) /\ Admissible(row, Lane)
    BY <1>1, <2>2, <2>3
  <2>5. admitted = raw.rows
    BY <1>1, <2>3, <2>4
  <2>6. {row.id : row \in raw.rows} = Matches(Lane)
    BY <1>9, <2>2, <2>4, CompleteAnswersShowAll
  <2>7. QED
    BY <2>5, <2>6
<1>10. result \in LaneOutcome
  <2>1. Lane \in {Lanes[k] : k \in DOMAIN Lanes}
    BY WasteAssumption DEF Lane, LaneIsDue
  <2>2. candidates \in SUBSET Resource
    BY <1>8 DEF Matches
  <2>3. QED
    BY <1>2, <1>7, <2>1, <2>2 DEF LaneOutcome
<1>11. QED
  BY <1>2, <1>8, <1>9, <1>10 DEF result

\* Before the first lane there are no results and no records.
LEMMA WasteInitEstablishesInvariant == WasteInit => WasteInv
<1> SUFFICES ASSUME WasteInit PROVE WasteInv
  OBVIOUS
<1>1. Len(Lanes) \in Nat
  BY WasteAssumption
<1>2. results = <<>> /\ laneRecords = {} /\ failures = {} /\ status = "running"
  BY DEF WasteInit
<1>3. WasteTypeOK
  BY <1>1 DEF WasteTypeOK, WasteInit
<1>4. ResultsAreReal /\ RecordsFollowResults
  BY <1>2 DEF ResultsAreReal, RecordsFollowResults
<1>5. QED
  BY <1>3, <1>4 DEF WasteInv

\* What a lane adds: its result to the results, its records to the records, and a
\* failure if and only if it is not whole.
LEMMA LanePreservesInvariant ==
  ASSUME WasteInv, LaneIsDue, NEW result \in LaneOutcome, result.lane = Lane,
         result.candidates \subseteq Matches(Lane),
         result.total = RollUpLaneTotal(result.candidates),
         result.failed => result.candidates = {} /\ ~Incomplete(result),
         ~Paging /\ ~Lossy(result) => result.candidates = Matches(Lane),
         results' = Append(results, result),
         laneRecords' = laneRecords \union LaneEvidence(result),
         NEW category,
         failures' = failures \union (IF Lossy(result) THEN {[lane |-> Lane.name, category |-> category]} ELSE {}),
         UNCHANGED <<world, scope, status>>
  PROVE  WasteInv'
<1> DEFINE n == Len(results) + 1
<1>1. /\ results \in Seq(LaneOutcome) /\ Len(results) < Len(Lanes) /\ status = "running"
      /\ Len(Lanes) \in Nat
  BY WasteAssumption DEF WasteInv, WasteTypeOK, LaneIsDue
<1>2. /\ results' \in Seq(LaneOutcome) /\ Len(results') = n /\ n \in DOMAIN results'
      /\ results'[n] = result /\ Lane = Lanes[n]
      /\ DOMAIN results' = DOMAIN results \union {n}
      /\ \A k \in DOMAIN results : results'[k] = results[k]
  BY <1>1 DEF Lane
<1> HIDE DEF n
<1>8. \A k : k \in DOMAIN results' <=> k \in DOMAIN results \/ k = n
  BY <1>2
<1>3. WasteTypeOK'
  <2>1. LaneOutcome' = LaneOutcome
    BY DEF LaneOutcome
  <2>2. Len(results') <= Len(Lanes)
    BY <1>1, <1>2 DEF n
  <2>3. QED
    BY <1>1, <1>2, <2>1, <2>2 DEF WasteInv, WasteTypeOK
<1>4. \A lane : Matches(lane)' = Matches(lane)
  BY DEF Matches, InScope
<1>5. ResultsAreReal'
  <2>1. \A k \in DOMAIN results' : k = n \/ (k \in DOMAIN results /\ results'[k] = results[k])
    BY <1>2
  <2>2. QED
    BY <1>2, <1>4, <2>1 DEF WasteInv, ResultsAreReal, Lossy
<1>6. RecordsFollowResults'
  <2>1. laneRecords' = UNION {LaneEvidence(results'[k]) : k \in DOMAIN results'}
    <3>1. \A e : e \in laneRecords <=> \E k \in DOMAIN results : e \in LaneEvidence(results[k])
      BY DEF WasteInv, RecordsFollowResults
    <3>2. \A e : e \in laneRecords' <=> e \in laneRecords \/ e \in LaneEvidence(result)
      OBVIOUS
    <3>3. \A e : e \in laneRecords' <=> \E k \in DOMAIN results' : e \in LaneEvidence(results'[k])
      BY <1>2, <1>8, <3>1, <3>2
    <3>4. QED
      BY <3>3
  <2>2. {f.lane : f \in failures'} = {Lanes[k].name : k \in {j \in DOMAIN results' : Lossy(results'[j])}}
    <3>1. \A name : (\E f \in failures : name = f.lane)
                       <=> \E k \in DOMAIN results : Lossy(results[k]) /\ name = Lanes[k].name
      BY DEF WasteInv, RecordsFollowResults
    <3> DEFINE entry == [lane |-> Lane.name, category |-> category]
    <3>2. \A f : f \in failures' <=> f \in failures \/ (Lossy(result) /\ f = entry)
      OBVIOUS
    <3>3. entry.lane = Lanes[n].name
      BY <1>2
    <3> HIDE DEF entry
    <3>4. \A name : (\E f \in failures' : name = f.lane)
                       <=> (\E f \in failures : name = f.lane) \/ (Lossy(result) /\ name = Lanes[n].name)
      BY <3>2, <3>3, Zenon
    <3>5. \A name : (\E k \in DOMAIN results' : Lossy(results'[k]) /\ name = Lanes[k].name)
                       <=> \/ \E k \in DOMAIN results : Lossy(results[k]) /\ name = Lanes[k].name
                           \/ Lossy(result) /\ name = Lanes[n].name
      <4>1. \A k \in DOMAIN results : results'[k] = results[k]
        BY <1>2
      <4>2. results'[n] = result
        BY <1>2
      <4>3. QED
        BY <1>8, <4>1, <4>2, Zenon
    <3>6. \A name : (\E f \in failures' : name = f.lane)
                       <=> \E k \in DOMAIN results' : Lossy(results'[k]) /\ name = Lanes[k].name
      BY <3>1, <3>4, <3>5
    <3>7. \A name : name \in {f.lane : f \in failures'}
                       <=> name \in {Lanes[k].name : k \in {j \in DOMAIN results' : Lossy(results'[j])}}
      BY <3>6
    <3>8. QED
      BY <3>7, Zenon
  <2>3. QED
    BY <1>1, <2>1, <2>2 DEF RecordsFollowResults
<1>7. QED
  BY <1>3, <1>5, <1>6 DEF WasteInv

\* Nothing changes but the status.
LEMMA LanesStandStill ==
  ASSUME WasteInv, UNCHANGED <<world, scope, results, laneRecords, failures>>,
         status' \in {"running", "incomplete", "complete"},
         status' = "complete" => ~ContractIncomplete
  PROVE  WasteInv'
<1>1. WasteTypeOK'
  BY DEF WasteInv, WasteTypeOK, LaneOutcome
<1>2. \A lane : Matches(lane)' = Matches(lane)
  BY DEF Matches, InScope
<1>3. ResultsAreReal'
  BY <1>2 DEF WasteInv, ResultsAreReal
<1>4. RecordsFollowResults'
  <2>1. ContractIncomplete' = ContractIncomplete
    BY DEF ContractIncomplete
  <2>2. QED
    BY <2>1 DEF WasteInv, RecordsFollowResults
<1>5. QED
  BY <1>1, <1>3, <1>4 DEF WasteInv

\* Every step adds only real results, and records that follow from them.
LEMMA WasteNextPreservesInvariant == WasteInv /\ [WasteNext]_wasteVars => WasteInv'
<1> SUFFICES ASSUME WasteInv, [WasteNext]_wasteVars PROVE WasteInv'
  OBVIOUS
<1>1. CASE LaneFails
  <2> DEFINE result == [lane |-> Lane, failed |-> TRUE, candidates |-> {},
                        total |-> RollUpLaneTotal({}), unparsed |-> 0, rejected |-> 0]
  <2>1. LaneIsDue /\ results' = Append(results, result) /\ UNCHANGED <<world, scope, laneRecords, status>>
    BY <1>1 DEF LaneFails
  <2>2. failures' = failures \union {[lane |-> Lane.name, category |-> "transport"]}
    BY <1>1 DEF LaneFails
  <2>3. Lane \in {Lanes[k] : k \in DOMAIN Lanes}
    BY <2>1, WasteAssumption DEF Lane, LaneIsDue, WasteInv, WasteTypeOK
  <2>4. result \in LaneOutcome
    BY <2>3 DEF LaneOutcome
  <2>5. ~Incomplete(result) /\ Lossy(result)
    BY DEF Incomplete, Lossy
  <2>6. LaneEvidence(result) = {}
    BY DEF LaneEvidence, CandidateEvidence
  <2> HIDE DEF result
  <2>7. /\ result.lane = Lane /\ result.candidates = {} /\ result.total = RollUpLaneTotal({})
    BY DEF result
  <2>8. QED
    BY <2>1, <2>2, <2>4, <2>5, <2>6, <2>7, LanePreservesInvariant
<1>2. CASE LaneIsDue /\ \E raw \in RawAnswers(Lane) : LaneAnswers(raw)
  <2>1. PICK raw \in RawAnswers(Lane) : LaneAnswers(raw)
    BY <1>2
  <2> DEFINE result == LaneResult(raw)
  <2>2. /\ LaneIsDue /\ results' = Append(results, result)
        /\ laneRecords' = laneRecords \union LaneEvidence(result)
        /\ failures' = failures \union
             (IF Incomplete(result) THEN {[lane |-> Lane.name, category |-> "schema_mismatch"]} ELSE {})
        /\ UNCHANGED <<world, scope, status>>
    BY <2>1 DEF LaneAnswers
  <2>3. /\ result \in LaneOutcome /\ result.lane = Lane /\ ~result.failed
        /\ result.candidates \subseteq Matches(Lane)
        /\ result.total = RollUpLaneTotal(result.candidates)
        /\ ~Paging /\ ~Incomplete(result) => result.candidates = Matches(Lane)
    BY <2>2, LaneResultsAreReal DEF WasteInv, WasteTypeOK
  <2> HIDE DEF result
  <2>4. Lossy(result) <=> Incomplete(result)
    BY <2>3 DEF Lossy
  <2>5. QED
    BY <2>2, <2>3, <2>4, LanePreservesInvariant
<1>3. CASE Finish
  <2>1. /\ UNCHANGED <<world, scope, results, laneRecords, failures>>
        /\ status' = IF ContractIncomplete THEN "incomplete" ELSE "complete"
    BY <1>3 DEF Finish
  <2>2. QED
    BY <2>1, LanesStandStill
<1>4. CASE UNCHANGED wasteVars
  <2>1. UNCHANGED <<world, scope, results, laneRecords, failures>> /\ status' = status
    BY <1>4 DEF wasteVars
  <2>2. QED
    BY <2>1, LanesStandStill DEF WasteInv, WasteTypeOK, RecordsFollowResults
<1>5. QED
  BY <1>1, <1>2, <1>3, <1>4 DEF WasteNext

\* So results are real and records follow from them in every reachable state.
LEMMA WasteInvariant == WasteSpec => []WasteInv
<1>1. QED
  BY WasteInitEstablishesInvariant, WasteNextPreservesInvariant, PTL DEF WasteSpec

\* The report is definitive where nothing was lost, and says so where it was.
LEMMA VerdictsFollowLosses ==
  ASSUME NEW result
  PROVE  /\ (Verdict(result) \in Definitive) <=> ~Lossy(result)
         /\ Verdict(result) \in {"lower_bound", "enumeration_incomplete"} <=> ~result.failed /\ Incomplete(result)
         /\ Verdict(result) = "lane_total" <=> ~Lossy(result) /\ result.candidates /= {}
         /\ Notes(result) \intersect {"unparsed", "rejected"} /= {} <=> Incomplete(result)
<1>1. Notes(result) \intersect {"unparsed", "rejected"} /= {} <=> Incomplete(result)
  <2>1. /\ "unparsed" \in Notes(result) <=> result.unparsed > 0
        /\ "rejected" \in Notes(result) <=> result.rejected > 0
    BY DEF Notes
  <2>2. QED
    BY <2>1 DEF Incomplete
<1>2. QED
  BY <1>1 DEF Verdict, Definitive, Lossy

\* A record is about a candidate of a lane, or about all the candidates it has.
LEMMA RecordsAreOfCandidates ==
  ASSUME NEW result, NEW e \in LaneEvidence(result)
  PROVE  /\ e.lane = result.lane.name /\ e.of /= {} /\ e.of \subseteq result.candidates
         /\ e.kind = "lane_summary" => result.candidates /= {} /\ ~Incomplete(result)
<1>1. CASE e \in CandidateEvidence(result)
  BY <1>1 DEF CandidateEvidence
<1>2. CASE e = LaneSummaryEvidence(result) /\ result.candidates /= {} /\ ~Incomplete(result)
  BY <1>2 DEF LaneSummaryEvidence
<1>3. QED
  BY <1>1, <1>2 DEF LaneEvidence

\* Every record the reasoner may cite stands for resources that match a lane's
\* query within the effective scope, whatever the server answered.
THEOREM LaneEvidenceIsInScope == WasteSpec => []EvidenceIsInScope
<1>1. WasteInv => EvidenceIsInScope
  <2> SUFFICES ASSUME WasteInv, NEW e \in laneRecords
               PROVE  \E k \in DOMAIN results :
                        e.lane = Lanes[k].name /\ e.of /= {} /\ e.of \subseteq Matches(Lanes[k])
    BY DEF EvidenceIsInScope
  <2>1. PICK k \in DOMAIN results : e \in LaneEvidence(results[k])
    BY DEF WasteInv, RecordsFollowResults
  <2>2. results[k].lane = Lanes[k] /\ results[k].candidates \subseteq Matches(Lanes[k])
    BY DEF WasteInv, ResultsAreReal
  <2>3. e.lane = Lanes[k].name /\ e.of /= {} /\ e.of \subseteq Matches(Lanes[k])
    BY <2>1, <2>2, RecordsAreOfCandidates
  <2>4. QED
    BY <2>3
<1>2. QED
  BY <1>1, WasteInvariant, PTL

\* The status, the failures, the report and the citable summaries agree on what
\* was lost, for any number of lanes.
THEOREM LaneLossesAreReported == WasteSpec => []LossesAreReported
<1>1. WasteInv => LossesAreReported
  <2> SUFFICES ASSUME WasteInv PROVE LossesAreReported
    OBVIOUS
  <2>1. DOMAIN results \subseteq DOMAIN Lanes
    BY WasteAssumption DEF WasteInv, WasteTypeOK
  <2>2. ASSUME status = "complete", NEW k \in DOMAIN results
        PROVE  Verdict(results[k]) \in Definitive
    <3>1. ~Lossy(results[k])
      BY <2>2 DEF WasteInv, RecordsFollowResults, ContractIncomplete, Lossy
    <3>2. QED
      BY <3>1, VerdictsFollowLosses
  <2>3. ASSUME NEW k \in DOMAIN results
        PROVE  /\ (Verdict(results[k]) \in Definitive) <=> (\A f \in failures : f.lane /= Lanes[k].name)
               /\ Verdict(results[k]) \in {"lower_bound", "enumeration_incomplete"} <=>
                    Notes(results[k]) \intersect {"unparsed", "rejected"} /= {}
               /\ (Verdict(results[k]) = "lane_total") <=>
                    (\E e \in laneRecords : e.lane = Lanes[k].name /\ e.kind = "lane_summary")
    <3>1. \A j \in DOMAIN results : Lanes[j].name = Lanes[k].name => j = k
      BY <2>1, WasteAssumption
    <3>2. Lossy(results[k]) <=> \E f \in failures : f.lane = Lanes[k].name
      <4>1. Lanes[k].name \in {f.lane : f \in failures}
               <=> \E j \in DOMAIN results : Lossy(results[j]) /\ Lanes[j].name = Lanes[k].name
        BY DEF WasteInv, RecordsFollowResults
      <4>2. QED
        BY <3>1, <4>1
    <3>3. results[k].failed => ~Incomplete(results[k])
      BY DEF WasteInv, ResultsAreReal
    <3>4. ASSUME NEW e \in laneRecords, e.lane = Lanes[k].name, e.kind = "lane_summary"
          PROVE  ~Lossy(results[k]) /\ results[k].candidates /= {}
      <4>1. PICK j \in DOMAIN results : e \in LaneEvidence(results[j])
        BY DEF WasteInv, RecordsFollowResults
      <4>2. /\ e.lane = Lanes[j].name /\ results[j].candidates /= {} /\ ~Incomplete(results[j])
            /\ results[j].failed => results[j].candidates = {}
        BY <3>4, <4>1, RecordsAreOfCandidates DEF WasteInv, ResultsAreReal
      <4>3. j = k
        BY <3>1, <3>4, <4>2
      <4>4. QED
        BY <4>2, <4>3 DEF Lossy
    <3>5. ASSUME ~Lossy(results[k]), results[k].candidates /= {}
          PROVE  \E e \in laneRecords : e.lane = Lanes[k].name /\ e.kind = "lane_summary"
      <4>1. LaneSummaryEvidence(results[k]) \in LaneEvidence(results[k])
        BY <3>5 DEF LaneEvidence, Lossy
      <4>2. LaneSummaryEvidence(results[k]) \in laneRecords
        BY <4>1 DEF WasteInv, RecordsFollowResults
      <4>3. /\ LaneSummaryEvidence(results[k]).lane = Lanes[k].name
            /\ LaneSummaryEvidence(results[k]).kind = "lane_summary"
        BY DEF LaneSummaryEvidence, WasteInv, ResultsAreReal
      <4>4. QED
        BY <4>2, <4>3
    <3>6. (Verdict(results[k]) = "lane_total") <=>
             (\E e \in laneRecords : e.lane = Lanes[k].name /\ e.kind = "lane_summary")
      BY <3>4, <3>5, VerdictsFollowLosses
    <3>7. QED
      BY <3>2, <3>3, <3>6, VerdictsFollowLosses
  <2>4. QED
    BY <2>2, <2>3 DEF LossesAreReported
<1>2. QED
  BY <1>1, WasteInvariant, PTL

\* A lane that states its matches without a hedge has seen all of them, and no
\* total exceeds the total of what matches: unless pages are taken for answers.
THEOREM LaneTotalsAreHonest == ~Paging => (WasteSpec => []TotalsAreHonest)
<1>1. ASSUME WasteInv, ~Paging PROVE TotalsAreHonest
  <2> SUFFICES ASSUME NEW k \in DOMAIN results
               PROVE  /\ Verdict(results[k]) \in Definitive => results[k].candidates = Matches(Lanes[k])
                      /\ results[k].total.usd <= RollUpLaneTotal(Matches(Lanes[k])).usd
    BY DEF TotalsAreHonest
  <2> DEFINE seen == results[k].candidates
             all == Matches(Lanes[k])
  <2>1. /\ seen \subseteq all /\ results[k].total = RollUpLaneTotal(seen)
        /\ ~Lossy(results[k]) => seen = all
    BY <1>1 DEF WasteInv, ResultsAreReal
  <2>2. Verdict(results[k]) \in Definitive => seen = all
    BY <2>1, VerdictsFollowLosses
  <2>3. Priced(seen) \in SUBSET Priced(all) /\ IsFiniteSet(Priced(all))
    <3>1. IsFiniteSet(world)
      BY <1>1, WasteAssumption, FS_Subset DEF WasteInv, WasteTypeOK
    <3>2. Priced(all) \in SUBSET world
      BY DEF Priced, Matches
    <3>3. QED
      BY <2>1, <3>1, <3>2, FS_Subset DEF Priced
  <2>4. \A r \in Priced(all) : Price(r) \in Nat
    <3>1. \A r \in Priced(all) : EstimateWeeklyImpact(r) /= {} /\ EstimateWeeklyImpact(r) \subseteq Nat
      BY WasteAssumption DEF Priced, EstimateWeeklyImpact, Lookup
    <3>2. QED
      BY <3>1 DEF Price
  <2> HIDE DEF seen, all
  <2>5. MapThenSumSet(Price, Priced(seen)) <= MapThenSumSet(Price, Priced(all))
    BY <2>3, <2>4, SumIsMonotonic
  <2>6. results[k].total.usd = MapThenSumSet(Price, Priced(seen))
    BY <2>1 DEF RollUpLaneTotal
  <2>7. RollUpLaneTotal(all).usd = MapThenSumSet(Price, Priced(all))
    BY DEF RollUpLaneTotal
  <2>8. QED
    BY <2>2, <2>5, <2>6, <2>7 DEF seen, all
<1>2. ASSUME ~Paging PROVE WasteSpec => []TotalsAreHonest
  <2>1. WasteInv => TotalsAreHonest
    BY <1>1, <1>2
  <2>2. QED
    BY <2>1, WasteInvariant, PTL
<1>3. QED
  BY <1>2

-----------------------------------------------------------------------------
(* The sweep: results, the exit code and what is published. *)

\* A model's results, of every item it was run with.
ItemVerdicts == {"passed", "failed", "error"}

\* There is at least one dataset item.
LEMMA DatasetFacts == Len(Dataset) \in Nat /\ 1 <= Len(Dataset) /\ DOMAIN Dataset = 1..Len(Dataset)
  BY EvaluationAssumption

\* The positions of a sweep are naturals.
LEMMA SweepFacts ==
  ASSUME SweepTypeOK
  PROVE  /\ Len(sweep) \in Nat /\ model \in Nat /\ item \in Nat
         /\ Len(itemResults) \in Nat /\ DOMAIN itemResults = 1..Len(itemResults)
         /\ \A m \in DOMAIN itemResults : /\ itemResults[m] \in Seq(ItemVerdicts)
                                          /\ Len(itemResults[m]) \in Nat
                                          /\ DOMAIN itemResults[m] = 1..Len(itemResults[m])
<1>1. Len(sweep) \in Nat
  BY EvaluationAssumption DEF SweepTypeOK
<1>2. itemResults \in Seq(Seq(ItemVerdicts))
  BY DEF SweepTypeOK, ItemVerdicts
<1>3. \A m \in DOMAIN itemResults : itemResults[m] \in Seq(ItemVerdicts)
  BY <1>2
<1>4. QED
  BY <1>1, <1>2, <1>3, DatasetFacts DEF SweepTypeOK

\* Adding a result to those of the model leaves all others in their places.
LEMMA AddsFacts ==
  ASSUME SweepTypeOK, model \in DOMAIN itemResults, NEW result \in ItemVerdicts, Adds(result)
  PROVE  /\ itemResults' \in Seq(Seq(ItemVerdicts)) /\ Len(itemResults') = Len(itemResults)
         /\ DOMAIN itemResults' = DOMAIN itemResults
         /\ \A m \in DOMAIN itemResults : m /= model => itemResults'[m] = itemResults[m]
         /\ Len(itemResults'[model]) = Len(itemResults[model]) + 1
         /\ itemResults'[model][Len(itemResults[model]) + 1] = result
         /\ \A i \in DOMAIN itemResults[model] :
              i \in DOMAIN itemResults'[model] /\ itemResults'[model][i] = itemResults[model][i]
<1> DEFINE more == Append(itemResults[model], result)
<1>1. itemResults \in Seq(Seq(ItemVerdicts)) /\ itemResults[model] \in Seq(ItemVerdicts)
  BY SweepFacts DEF SweepTypeOK, ItemVerdicts
<1>2. /\ more \in Seq(ItemVerdicts) /\ Len(more) = Len(itemResults[model]) + 1
      /\ more[Len(itemResults[model]) + 1] = result
      /\ \A i \in DOMAIN itemResults[model] : i \in DOMAIN more /\ more[i] = itemResults[model][i]
  BY <1>1
<1> HIDE DEF more
<1>3. itemResults' = [itemResults EXCEPT ![model] = more]
  BY DEF Adds, more
<1>4. QED
  BY <1>1, <1>2, <1>3

\* What a result that is added keeps: the other models' results, and all scores.
LEMMA AddsKeepsScores ==
  ASSUME SweepInv, model \in DOMAIN itemResults, NEW result \in ItemVerdicts, Adds(result),
         phase /= "link", UNCHANGED publication
  PROVE  /\ UNCHANGED <<scores, linked, reported>>
         /\ \A s \in scores' : s.model \in DOMAIN itemResults' /\ s.item \in DOMAIN itemResults'[s.model]
         /\ PublishedIsTheVerdict'
<1>1. SweepTypeOK
  BY DEF SweepInv
<1>2. \A s \in scores : /\ s.model \in DOMAIN itemResults' /\ s.item \in DOMAIN itemResults'[s.model]
                        /\ itemResults'[s.model][s.item] = itemResults[s.model][s.item]
  <2> SUFFICES ASSUME NEW s \in scores
               PROVE  /\ s.model \in DOMAIN itemResults' /\ s.item \in DOMAIN itemResults'[s.model]
                      /\ itemResults'[s.model][s.item] = itemResults[s.model][s.item]
    OBVIOUS
  <2>1. s.model \in DOMAIN itemResults /\ s.item \in DOMAIN itemResults[s.model]
    BY DEF SweepInv, ScoresFollowResults
  <2>2. CASE s.model = model
    BY <1>1, <2>1, <2>2, AddsFacts
  <2>3. CASE s.model /= model
    BY <1>1, <2>1, <2>3, AddsFacts
  <2>4. QED
    BY <2>2, <2>3
<1>3. UNCHANGED <<scores, linked, reported>>
  BY DEF publication
<1>4. PublishedIsTheVerdict'
  BY <1>2, <1>3 DEF SweepInv, PublishedIsTheVerdict, ItemOf
<1>5. QED
  BY <1>2, <1>3, <1>4

\* The sweep goes on from an item that has its result.
LEMMA OnwardsKeepsPace ==
  ASSUME SweepTypeOK, SweepTypeOK', Onwards, exit' = exit, exit = Running,
         model \in DOMAIN itemResults', Len(itemResults') = model, model <= Len(sweep),
         \A m \in DOMAIN itemResults' : m < model => Len(itemResults'[m]) = Len(Dataset),
         Len(itemResults'[model]) = item
  PROVE  ResultsKeepPace'
<1>1. /\ Len(itemResults') \in Nat /\ DOMAIN itemResults' = 1..Len(itemResults')
      /\ model \in Nat /\ item \in 1..Len(Dataset) /\ Len(Dataset) \in Nat
      /\ sweep' = sweep /\ Running \notin {0, 3}
  <2>1. itemResults' \in Seq(Seq(ItemVerdicts))
    BY DEF SweepTypeOK, ItemVerdicts
  <2>2. QED
    BY <2>1, SweepFacts, DatasetFacts DEF SweepTypeOK, Onwards, Running
<1>2. CASE item < Len(Dataset)
  <2>1. phase' = "item" /\ item' = item + 1 /\ model' = model
    BY <1>2 DEF Onwards
  <2>2. QED
    BY <1>1, <2>1 DEF ResultsKeepPace
<1>3. CASE item = Len(Dataset)
  <2>1. phase' = "prepare" /\ item' = 1 /\ model' = model + 1
    BY <1>1, <1>3 DEF Onwards
  <2>2. \A m \in DOMAIN itemResults' : m < model' => Len(itemResults'[m]) = Len(Dataset)
    BY <1>1, <1>3, <2>1
  <2>3. QED
    BY <1>1, <2>1, <2>2 DEF ResultsKeepPace
<1>4. QED
  BY <1>1, <1>2, <1>3

\* Moving on to the next item or model keeps the types.
LEMMA OnwardsKeepsType ==
  ASSUME SweepTypeOK, Onwards, exit' = exit, itemResults' \in Seq(Seq(ItemVerdicts)), model <= Len(sweep)
  PROVE  SweepTypeOK' /\ phase' \in {"item", "prepare"}
<1>1. /\ Len(Dataset) \in Nat /\ Len(sweep) \in Nat /\ item \in 1..Len(Dataset) /\ model \in 1..(Len(sweep) + 1)
      /\ sweep' = sweep
  BY SweepFacts, DatasetFacts DEF SweepTypeOK, Onwards
<1>2. CASE item < Len(Dataset)
  <2>1. phase' = "item" /\ item' \in 1..Len(Dataset) /\ model' = model
    BY <1>1, <1>2 DEF Onwards
  <2>2. QED
    BY <1>1, <2>1 DEF SweepTypeOK, ItemVerdicts
<1>3. CASE item = Len(Dataset)
  <2>1. phase' = "prepare" /\ item' \in 1..Len(Dataset) /\ model' \in 1..(Len(sweep) + 1)
    BY <1>1, <1>3 DEF Onwards
  <2>2. QED
    BY <1>1, <2>1 DEF SweepTypeOK, ItemVerdicts
<1>4. QED
  BY <1>1, <1>2, <1>3

\* Before the first model there are no results.
LEMMA SweepInitEstablishesInvariant == SweepInit => SweepInv
<1> SUFFICES ASSUME SweepInit PROVE SweepInv
  OBVIOUS
<1>1. SweepTypeOK
  <2>1. Len(sweep) \in Nat
    BY EvaluationAssumption DEF SweepInit
  <2>2. QED
    BY <2>1, DatasetFacts DEF SweepInit, SweepTypeOK, Running
<1>2. ResultsKeepPace
  BY DEF SweepInit, ResultsKeepPace, Running
<1>3. ScoresFollowResults /\ PublishedIsTheVerdict /\ VerdictIsOfLast
  BY DEF SweepInit, ScoresFollowResults, PublishedIsTheVerdict, VerdictIsOfLast, Threw
<1>4. QED
  BY <1>1, <1>2, <1>3 DEF SweepInv

\* A step that leaves the results, the scores and the place of the sweep alone.
LEMMA SweepStandsStill ==
  ASSUME SweepInv, phase /= "link", UNCHANGED <<place, itemResults, publication>>, last' = Threw
  PROVE  /\ phase' \in {"start", "prepare", "item", "push", "link", "ended"}
           /\ exit' \in {Running, 0, 1, 2, 3, 4} => SweepTypeOK'
         /\ phase' \notin {"push", "link"} => ScoresFollowResults'
         /\ PublishedIsTheVerdict' /\ VerdictIsOfLast'
<1>1. UNCHANGED <<sweep, publishing, model, item>> /\ UNCHANGED <<scores, linked, reported>>
  BY DEF place, publication
<1>2. PublishedIsTheVerdict'
  BY <1>1 DEF SweepInv, PublishedIsTheVerdict, ItemOf
<1>3. QED
  BY <1>1, <1>2 DEF SweepInv, SweepTypeOK, ScoresFollowResults, VerdictIsOfLast, Threw

\* The command ends before it has a verdict.
LEMMA EndPreservesInvariant ==
  ASSUME SweepInv, phase \in {"start", "prepare"}, NEW code \in {1, 2, 4}, Ends(code),
         UNCHANGED <<place, itemResults, publication>>, last' = Threw
  PROVE  SweepInv'
<1>1. phase' = "ended" /\ exit' = code /\ UNCHANGED <<sweep, publishing, model, item>>
  BY DEF Ends, place
<1>2. ResultsKeepPace'
  BY <1>1 DEF SweepInv, ResultsKeepPace
<1>3. QED
  BY <1>1, <1>2, SweepStandsStill DEF SweepInv

\* Beginning a sweep keeps the invariant.
LEMMA BeginPreservesInvariant == SweepInv /\ Begin => SweepInv'
<1> SUFFICES ASSUME SweepInv, Begin PROVE SweepInv'
  OBVIOUS
<1>1. /\ phase = "start" /\ phase' = "prepare" /\ last' = Threw
      /\ UNCHANGED <<place, itemResults, publication, exit>> /\ UNCHANGED <<sweep, publishing, model, item>>
  BY DEF Begin, place
<1>2. ResultsKeepPace'
  BY <1>1 DEF SweepInv, ResultsKeepPace, Green
<1>3. exit \in {Running, 0, 1, 2, 3, 4}
  BY DEF SweepInv, SweepTypeOK
<1>4. QED
  BY <1>1, <1>2, <1>3, SweepStandsStill DEF SweepInv

\* So does preparing a model's dataset run.
LEMMA PreparePreservesInvariant == SweepInv /\ Prepare => SweepInv'
<1> SUFFICES ASSUME SweepInv, Prepare PROVE SweepInv'
  OBVIOUS
<1>1. /\ phase = "prepare" /\ phase' = "item" /\ last' = Threw /\ model <= Len(sweep)
      /\ UNCHANGED <<sweep, publishing, model, item, scores, linked, reported, exit>>
      /\ itemResults' = Append(itemResults, <<>>)
  BY DEF Prepare, place, publication
<1>2. /\ itemResults \in Seq(Seq(ItemVerdicts)) /\ Len(itemResults) = model - 1 /\ item = 1 /\ exit = Running
      /\ SweepTypeOK /\ model \in Nat
  BY <1>1, SweepFacts DEF SweepInv, SweepTypeOK, ResultsKeepPace, ItemVerdicts
<1>3. <<>> \in Seq(ItemVerdicts) /\ Len(<<>>) = 0
  OBVIOUS
<1>4. /\ itemResults' \in Seq(Seq(ItemVerdicts)) /\ Len(itemResults') = model
      /\ DOMAIN itemResults' = DOMAIN itemResults \union {model}
      /\ model \notin DOMAIN itemResults /\ itemResults'[model] = <<>>
      /\ \A m \in DOMAIN itemResults : itemResults'[m] = itemResults[m]
  BY <1>1, <1>2, <1>3
<1>5. SweepTypeOK'
  BY <1>1, <1>2, <1>4 DEF SweepTypeOK, ItemVerdicts
<1>6. ResultsKeepPace'
  <2>1. \A m \in DOMAIN itemResults' : m < model => m \in DOMAIN itemResults
    BY <1>2, <1>4
  <2>2. \A m \in DOMAIN itemResults' : m < model => Len(itemResults'[m]) = Len(Dataset)
    BY <1>4, <2>1 DEF SweepInv, ResultsKeepPace
  <2>3. Len(itemResults'[model]) = item - 1
    BY <1>2, <1>3, <1>4
  <2>4. QED
    BY <1>1, <1>2, <1>4, <2>2, <2>3 DEF ResultsKeepPace, Running
<1>7. /\ \A s \in scores' : s.model \in DOMAIN itemResults' /\ s.item \in DOMAIN itemResults'[s.model]
      /\ PublishedIsTheVerdict'
  BY <1>1, <1>4 DEF SweepInv, ScoresFollowResults, PublishedIsTheVerdict, ItemOf
<1>8. ScoresFollowResults'
  BY <1>1, <1>7 DEF ScoresFollowResults
<1>9. VerdictIsOfLast'
  BY <1>1 DEF VerdictIsOfLast, Threw
<1>10. QED
  BY <1>5, <1>6, <1>7, <1>8, <1>9 DEF SweepInv

\* Where the sweep is when it is at an item.
LEMMA AtAnItem ==
  ASSUME SweepInv, phase \in {"item", "push", "link"}
  PROVE  /\ SweepTypeOK /\ model \in DOMAIN itemResults /\ Len(itemResults) = model /\ model <= Len(sweep)
         /\ \A m \in DOMAIN itemResults : m < model => Len(itemResults[m]) = Len(Dataset)
         /\ exit = Running /\ item \in DOMAIN Dataset
         /\ phase = "item" => Len(itemResults[model]) + 1 = item
         /\ phase \in {"push", "link"} => Len(itemResults[model]) = item
<1>1. /\ SweepTypeOK /\ Len(itemResults) = model /\ model <= Len(sweep) /\ exit = Running
      /\ \A m \in DOMAIN itemResults : m < model => Len(itemResults[m]) = Len(Dataset)
      /\ phase = "item" => Len(itemResults[model]) = item - 1
      /\ phase \in {"push", "link"} => Len(itemResults[model]) = item
  BY DEF SweepInv, ResultsKeepPace
<1>2. model \in DOMAIN itemResults /\ item \in DOMAIN Dataset
  BY <1>1, SweepFacts, DatasetFacts DEF SweepTypeOK
<1>3. QED
  BY <1>1, <1>2, SweepFacts

\* So does an item that throws: it counts as failed.
LEMMA ItemThrowsPreservesInvariant == SweepInv /\ ItemThrows => SweepInv'
<1> SUFFICES ASSUME SweepInv, ItemThrows PROVE SweepInv'
  OBVIOUS
<1>1. /\ phase = "item" /\ last' = Threw /\ Adds("error") /\ Onwards /\ UNCHANGED <<publication, exit>>
      /\ "error" \in ItemVerdicts
  BY DEF ItemThrows, ItemVerdicts
<1>2. /\ SweepTypeOK /\ model \in DOMAIN itemResults /\ Len(itemResults) = model /\ model <= Len(sweep)
      /\ \A m \in DOMAIN itemResults : m < model => Len(itemResults[m]) = Len(Dataset)
      /\ exit = Running /\ Len(itemResults[model]) + 1 = item
  BY <1>1, AtAnItem
<1>3. /\ itemResults' \in Seq(Seq(ItemVerdicts)) /\ Len(itemResults') = model
      /\ DOMAIN itemResults' = DOMAIN itemResults /\ Len(itemResults'[model]) = item
      /\ \A m \in DOMAIN itemResults : m /= model => itemResults'[m] = itemResults[m]
  BY <1>1, <1>2, AddsFacts
<1>4. SweepTypeOK' /\ phase' \in {"item", "prepare"}
  BY <1>1, <1>2, <1>3, OnwardsKeepsType
<1>5. \A m \in DOMAIN itemResults' : m < model => Len(itemResults'[m]) = Len(Dataset)
  <2>1. \A m \in DOMAIN itemResults : m < model => m /= model
    BY <1>2, SweepFacts
  <2>2. QED
    BY <1>2, <1>3, <2>1
<1>6. ResultsKeepPace'
  BY <1>1, <1>2, <1>3, <1>4, <1>5, OnwardsKeepsPace
<1>7. /\ \A s \in scores' : s.model \in DOMAIN itemResults' /\ s.item \in DOMAIN itemResults'[s.model]
      /\ PublishedIsTheVerdict'
  BY <1>1, <1>2, AddsKeepsScores
<1>8. ScoresFollowResults' /\ VerdictIsOfLast'
  BY <1>1, <1>4, <1>7 DEF ScoresFollowResults, VerdictIsOfLast, Threw
<1>9. QED
  BY <1>4, <1>6, <1>7, <1>8 DEF SweepInv

\* No expectation has the name of what all of them come to.
LEMMA ResultsHaveNames ==
  ASSUME NEW e, NEW run, NEW each \in Results(e, run)
  PROVE  each.what /= "passed_all"
<1> DEFINE Is(what) == \E passed : each = [what |-> what, passed |-> passed]
<1>1. \/ Is("min_recommendations") \/ Is("expected_dq_categories")
      \/ Is("expected_capabilities_invoked") \/ Is("expected_waste_lane")
      \/ Is("expected_candidate_ids") \/ Is("excluded_candidate_ids")
      \/ Is("expected_candidate_count") \/ Is("max_unparsed_rows")
      \/ Is("max_rejected_rows") \/ Is("expected_lane_total")
      \/ Is("utilization_evidence") \/ Is("waste_cost_reconciliation")
  BY ZenonT(60) DEF Results
<1>2. QED
  BY <1>1

\* So does an item that is run and judged.
LEMMA RunItemPreservesInvariant ==
  ASSUME SweepInv, phase = "item", NEW outcome \in Outcomes(sweep[model], item), RunItem(outcome)
  PROVE  SweepInv'
<1> DEFINE result == IF PassedAll(verdict') THEN "passed" ELSE "failed"
<1>1. /\ phase = "item" /\ last' = [threw |-> FALSE, item |-> item, run |-> outcome.run]
      /\ verdict' = Judged(item, outcome) /\ Adds(result) /\ UNCHANGED <<publication, exit>>
      /\ \/ phase' = "push" /\ UNCHANGED <<sweep, publishing, model, item>>
         \/ Onwards
      /\ result \in ItemVerdicts
  BY DEF RunItem, ItemVerdicts, place
<1> HIDE DEF result
<1>2. /\ SweepTypeOK /\ model \in DOMAIN itemResults /\ Len(itemResults) = model /\ model <= Len(sweep)
      /\ \A m \in DOMAIN itemResults : m < model => Len(itemResults[m]) = Len(Dataset)
      /\ exit = Running /\ Len(itemResults[model]) + 1 = item
  BY <1>1, AtAnItem
<1>3. /\ itemResults' \in Seq(Seq(ItemVerdicts)) /\ Len(itemResults') = model
      /\ DOMAIN itemResults' = DOMAIN itemResults /\ Len(itemResults'[model]) = item
      /\ itemResults'[model][item] = result
      /\ \A m \in DOMAIN itemResults : m /= model => itemResults'[m] = itemResults[m]
  BY <1>1, <1>2, AddsFacts
<1>4. \A m \in DOMAIN itemResults' : m < model => Len(itemResults'[m]) = Len(Dataset)
  <2>1. \A m \in DOMAIN itemResults : m < model => m /= model
    BY <1>2, SweepFacts
  <2>2. QED
    BY <1>2, <1>3, <2>1
<1>5. /\ \A s \in scores' : s.model \in DOMAIN itemResults' /\ s.item \in DOMAIN itemResults'[s.model]
      /\ PublishedIsTheVerdict'
  BY <1>1, <1>2, AddsKeepsScores
<1>6. VerdictIsOfLast'
  <2>1. last'.item = item /\ last'.run = outcome.run
    BY <1>1
  <2>2. model \in DOMAIN sweep /\ item \in DOMAIN Dataset /\ sweep \in Sweeps
    BY <1>2, SweepFacts, AtAnItem, EvaluationAssumption DEF SweepTypeOK
  <2>3. outcome.run.evidence \in Seq(Elements(outcome.run.evidence))
    BY <2>2, EvaluationAssumption DEF RunItem
  <2>4. QED
    BY <1>1, <2>1, <2>3 DEF VerdictIsOfLast, Judged
<1>7. CASE phase' = "push" /\ UNCHANGED <<sweep, publishing, model, item>>
  <2>1. SweepTypeOK'
    BY <1>1, <1>2, <1>3, <1>7 DEF SweepTypeOK, ItemVerdicts
  <2>2. ResultsKeepPace'
    BY <1>1, <1>2, <1>3, <1>4, <1>7 DEF ResultsKeepPace, Running
  <2>3. ScoresFollowResults'
    <3>1. \A each \in verdict' : each.what /= "passed_all"
      BY <1>1, ResultsHaveNames DEF Judged
    <3>2. QED
      BY <1>3, <1>5, <1>7, <3>1 DEF ScoresFollowResults, result
  <2>4. QED
    BY <1>5, <1>6, <2>1, <2>2, <2>3 DEF SweepInv
<1>8. CASE Onwards
  <2>1. SweepTypeOK' /\ phase' \in {"item", "prepare"}
    BY <1>1, <1>2, <1>3, <1>8, OnwardsKeepsType
  <2>2. ResultsKeepPace'
    BY <1>1, <1>2, <1>3, <1>4, <1>8, <2>1, OnwardsKeepsPace
  <2>3. ScoresFollowResults'
    BY <1>5, <2>1 DEF ScoresFollowResults
  <2>4. QED
    BY <1>5, <1>6, <2>1, <2>2, <2>3 DEF SweepInv
<1>9. QED
  BY <1>1, <1>7, <1>8

\* A batch says what the verdict says, and so does any part of it.
LEMMA BatchSaysTheVerdict ==
  ASSUME SweepInv, phase = "push", NEW each \in Batch(verdict)
  PROVE  /\ ~each.passed => itemResults[model][item] = "failed"
         /\ each.what = "passed_all" /\ each.passed => itemResults[model][item] = "passed"
<1>1. /\ itemResults[model][item] = (IF PassedAll(verdict) THEN "passed" ELSE "failed")
      /\ \A other \in verdict : other.what /= "passed_all"
  BY DEF SweepInv, ScoresFollowResults
<1>2. CASE each \in verdict
  BY <1>1, <1>2 DEF PassedAll
<1>3. CASE each = [what |-> "passed_all", passed |-> PassedAll(verdict)]
  BY <1>1, <1>3
<1>4. QED
  BY <1>2, <1>3 DEF Batch

\* So does publishing its scores, accepted or not, all of them kept or some.
LEMMA PushScoresPreservesInvariant ==
  ASSUME SweepInv, NEW accepted \in BOOLEAN, NEW refused \in Refusals, PushScores(accepted, refused)
  PROVE  SweepInv'
<1>1. phase = "push" /\ last' = Threw /\ UNCHANGED <<itemResults, linked, exit>>
  BY DEF PushScores
<1>2. /\ SweepTypeOK /\ model \in DOMAIN itemResults /\ Len(itemResults) = model /\ model <= Len(sweep)
      /\ \A m \in DOMAIN itemResults : m < model => Len(itemResults[m]) = Len(Dataset)
      /\ exit = Running /\ Len(itemResults[model]) = item
      /\ itemResults \in Seq(Seq(ItemVerdicts))
      /\ item \in DOMAIN itemResults[model]
  <2>1. item \in DOMAIN itemResults[model]
    BY <1>1, AtAnItem, SweepFacts DEF SweepTypeOK
  <2>2. QED
    BY <1>1, <2>1, AtAnItem DEF SweepTypeOK, ItemVerdicts
<1>3. VerdictIsOfLast'
  BY <1>1 DEF VerdictIsOfLast, Threw
<1> DEFINE pushed == [model |-> model, item |-> item, accepted |-> accepted, sent |-> Batch(verdict),
                      stored |-> {each \in Batch(verdict) : each.what \notin refused}]
<1>4. scores' = scores \union {pushed}
  BY DEF PushScores
<1>5. /\ pushed.model = model /\ pushed.item = item /\ pushed.accepted = accepted
      /\ \A each \in pushed.stored :
           /\ ~each.passed => itemResults[model][item] = "failed"
           /\ each.what = "passed_all" /\ each.passed => itemResults[model][item] = "passed"
  BY <1>1, BatchSaysTheVerdict
<1> HIDE DEF pushed
<1>6. /\ ItemOf(pushed) = <<model, item>>
      /\ \A s \in scores' : s.model \in DOMAIN itemResults' /\ s.item \in DOMAIN itemResults'[s.model]
      /\ \A s \in scores' : s \in scores \/ s = pushed
      /\ \A s \in scores : ItemOf(s) \in linked \union reported
      /\ \A s \in scores' : \A each \in s.stored :
           /\ ~each.passed => itemResults'[s.model][s.item] = "failed"
           /\ each.what = "passed_all" /\ each.passed => itemResults'[s.model][s.item] = "passed"
      /\ \A pair \in linked' : \E s \in scores' : ItemOf(s) = pair /\ s.accepted
  <2>1. ItemOf(pushed) = <<model, item>>
    BY <1>5 DEF ItemOf
  <2>2. \A s \in scores' : s \in scores \/ s = pushed
    BY <1>4
  <2>3. /\ \A s \in scores : s.model \in DOMAIN itemResults /\ s.item \in DOMAIN itemResults[s.model]
        /\ PublishedIsTheVerdict
    BY DEF SweepInv, ScoresFollowResults
  <2>4. \A s \in scores' : s.model \in DOMAIN itemResults' /\ s.item \in DOMAIN itemResults'[s.model]
    BY <1>1, <1>2, <1>5, <2>2, <2>3
  <2>5. \A s \in scores : ItemOf(s) \in linked \union reported
    BY <1>1, <2>3 DEF PublishedIsTheVerdict
  <2>6. \A s \in scores' : \A each \in s.stored :
           /\ ~each.passed => itemResults'[s.model][s.item] = "failed"
           /\ each.what = "passed_all" /\ each.passed => itemResults'[s.model][s.item] = "passed"
    BY <1>1, <1>5, <2>2, <2>3 DEF PublishedIsTheVerdict
  <2>7. \A pair \in linked' : \E s \in scores' : ItemOf(s) = pair /\ s.accepted
    BY <1>1, <1>4, <2>3 DEF PublishedIsTheVerdict
  <2>8. QED
    BY <2>1, <2>2, <2>4, <2>5, <2>6, <2>7
<1>7. CASE accepted
  <2>1. phase' = "link" /\ reported' = reported /\ UNCHANGED <<sweep, publishing, model, item>>
    BY <1>7 DEF PushScores, place
  <2>2. ScoresFollowResults'
    BY <1>4, <1>5, <1>6, <1>7, <2>1 DEF ScoresFollowResults, ItemOf
  <2>3. PublishedIsTheVerdict'
    <3>1. \A s \in scores' : s.stored = s.sent \/ s.accepted \/ ItemOf(s) \in reported'
      BY <1>5, <1>6, <1>7, <2>1 DEF SweepInv, PublishedIsTheVerdict
    <3>2. QED
      BY <1>1, <1>6, <2>1, <3>1 DEF PublishedIsTheVerdict, ItemOf
  <2>4. SweepTypeOK' /\ ResultsKeepPace'
    BY <1>1, <1>2, <2>1 DEF SweepTypeOK, ResultsKeepPace, Running
  <2>5. QED
    BY <1>3, <2>2, <2>3, <2>4 DEF SweepInv
<1>8. CASE ~accepted
  <2>1. Onwards /\ reported' = reported \union {<<model, item>>}
    BY <1>8 DEF PushScores, Reports
  <2>2. SweepTypeOK' /\ phase' \in {"item", "prepare"}
    BY <1>1, <1>2, <2>1, OnwardsKeepsType
  <2>3. ResultsKeepPace'
    BY <1>1, <1>2, <2>1, <2>2, OnwardsKeepsPace
  <2>4. ScoresFollowResults'
    BY <1>6, <2>2 DEF ScoresFollowResults
  <2>5. PublishedIsTheVerdict'
    <3>1. \A s \in scores' : s.stored = s.sent \/ s.accepted \/ ItemOf(s) \in reported'
      BY <1>6, <2>1 DEF SweepInv, PublishedIsTheVerdict
    <3>2. QED
      BY <1>1, <1>6, <2>1, <3>1 DEF PublishedIsTheVerdict, ItemOf
  <2>6. QED
    BY <1>3, <2>2, <2>3, <2>4, <2>5 DEF SweepInv
<1>9. QED
  BY <1>7, <1>8

\* So does linking the item to its run.
LEMMA CreateRunItemPreservesInvariant == SweepInv /\ CreateRunItem => SweepInv'
<1> SUFFICES ASSUME SweepInv, CreateRunItem PROVE SweepInv'
  OBVIOUS
<1>1. /\ phase = "link" /\ Onwards /\ last' = Threw /\ UNCHANGED <<itemResults, scores, exit>>
      /\ linked' \in {linked, linked \union {<<model, item>>}}
      /\ reported' \in {reported, reported \union {<<model, item>>}}
      /\ <<model, item>> \in linked' \union reported'
  BY DEF CreateRunItem, LinkedOrReported, Reports
<1>2. /\ SweepTypeOK /\ model \in DOMAIN itemResults /\ Len(itemResults) = model /\ model <= Len(sweep)
      /\ \A m \in DOMAIN itemResults : m < model => Len(itemResults[m]) = Len(Dataset)
      /\ exit = Running /\ Len(itemResults[model]) = item
      /\ itemResults \in Seq(Seq(ItemVerdicts))
  BY <1>1, AtAnItem DEF SweepTypeOK, ItemVerdicts
<1>3. SweepTypeOK' /\ phase' \in {"item", "prepare"}
  BY <1>1, <1>2, OnwardsKeepsType
<1>4. ResultsKeepPace'
  BY <1>1, <1>2, <1>3, OnwardsKeepsPace
<1>5. ScoresFollowResults'
  BY <1>1, <1>3 DEF SweepInv, ScoresFollowResults
<1>6. PublishedIsTheVerdict'
  <2>1. PublishedIsTheVerdict /\ \E s \in scores : ItemOf(s) = <<model, item>> /\ s.accepted
    BY <1>1 DEF SweepInv, ScoresFollowResults
  <2>2. \A s \in scores : ItemOf(s) \in linked' \union reported'
    BY <1>1, <2>1 DEF PublishedIsTheVerdict
  <2>3. \A pair \in linked' : \E s \in scores : ItemOf(s) = pair /\ s.accepted
    BY <1>1, <2>1 DEF PublishedIsTheVerdict
  <2>4. QED
    BY <1>1, <2>1, <2>2, <2>3 DEF PublishedIsTheVerdict, ItemOf
<1>7. VerdictIsOfLast'
  BY <1>1 DEF VerdictIsOfLast, Threw
<1>8. QED
  BY <1>3, <1>4, <1>5, <1>6, <1>7 DEF SweepInv

\* So does the summary that sets the exit code.
LEMMA SummarisePreservesInvariant == SweepInv /\ Summarise => SweepInv'
<1> SUFFICES ASSUME SweepInv, Summarise PROVE SweepInv'
  OBVIOUS
<1>1. /\ phase = "prepare" /\ model > Len(sweep) /\ phase' = "ended" /\ exit' = (IF Green THEN 0 ELSE 3)
      /\ last' = Threw /\ UNCHANGED <<place, itemResults, publication>>
      /\ UNCHANGED <<sweep, publishing, model, item>>
  BY DEF Summarise, Ends, place
<1>2. model = Len(sweep) + 1 /\ Len(itemResults) = Len(sweep)
  BY <1>1, SweepFacts DEF SweepInv, SweepTypeOK, ResultsKeepPace
<1>3. Green' = Green /\ (exit' = 0 <=> Green)
  BY <1>1 DEF Green
<1>4. ResultsKeepPace'
  BY <1>1, <1>2, <1>3 DEF SweepInv, ResultsKeepPace
<1>5. QED
  BY <1>1, <1>4, SweepStandsStill DEF SweepInv

\* So does every step of a sweep.
LEMMA SweepNextPreservesInvariant == SweepInv /\ [SweepNext]_sweepVars => SweepInv'
<1> SUFFICES ASSUME SweepInv, [SweepNext]_sweepVars PROVE SweepInv'
  OBVIOUS
<1>1. ASSUME NEW code \in {1, 2}, Refuse(code) PROVE SweepInv'
  BY <1>1, EndPreservesInvariant DEF Refuse
<1>2. CASE PrepareFails
  BY <1>2, EndPreservesInvariant DEF PrepareFails
<1>3. CASE UNCHANGED sweepVars
  <2>1. /\ UNCHANGED <<sweep, publishing, model, item>>
        /\ UNCHANGED <<phase, last, verdict, itemResults, scores, linked, reported, exit>>
    BY <1>3 DEF sweepVars, place, publication
  <2>2. QED
    BY <2>1 DEF SweepInv, SweepTypeOK, ResultsKeepPace, ScoresFollowResults, PublishedIsTheVerdict,
                VerdictIsOfLast, Green, ItemOf
<1>4. QED
  BY <1>1, <1>2, <1>3, BeginPreservesInvariant, PreparePreservesInvariant, ItemThrowsPreservesInvariant,
     RunItemPreservesInvariant, PushScoresPreservesInvariant, CreateRunItemPreservesInvariant,
     SummarisePreservesInvariant DEF SweepNext

\* So the invariant holds in every reachable state.
LEMMA SweepInvariant == SweepSpec => []SweepInv
<1>1. QED
  BY SweepInitEstablishesInvariant, SweepNextPreservesInvariant, PTL DEF SweepSpec

\* A sweep that ends with a verdict has a result of every item with every model,
\* and its exit code is 0 exactly if all of them passed.
THEOREM GreenSweepsPassed == SweepSpec => []GreenMeansAllPassed
<1>1. SweepInv => GreenMeansAllPassed
  <2> SUFFICES ASSUME SweepInv, exit \in {0, 3}
               PROVE  /\ Len(itemResults) = Len(sweep) /\ \A m \in DOMAIN itemResults : Len(itemResults[m]) = Len(Dataset)
                      /\ exit = 0 <=> \A m \in DOMAIN itemResults, i \in DOMAIN Dataset : itemResults[m][i] = "passed"
    BY DEF GreenMeansAllPassed
  <2>1. Len(itemResults) = Len(sweep) /\ model = Len(sweep) + 1 /\ (exit = 0 <=> Green)
    BY DEF SweepInv, ResultsKeepPace
  <2>2. \A m \in DOMAIN itemResults : m < model
    BY <2>1, SweepFacts DEF SweepInv
  <2>3. \A m \in DOMAIN itemResults : Len(itemResults[m]) = Len(Dataset) /\ DOMAIN itemResults[m] = DOMAIN Dataset
    BY <2>2, SweepFacts, DatasetFacts DEF SweepInv, ResultsKeepPace
  <2>4. QED
    BY <2>1, <2>3 DEF Green
<1>2. QED
  BY <1>1, SweepInvariant, PTL

\* Whatever a server answers, keeps of a batch or refuses: the scores it holds are of the
\* command's own verdict, a trace it links had its batch accepted, and an item whose batch
\* was sent is linked or reported. That what it refused is reported does not hold.
THEOREM PublishedScoresAreVerdicts == SweepSpec => []PublishedIsTheVerdict
<1>1. SweepInv => PublishedIsTheVerdict
  BY DEF SweepInv
<1>2. QED
  BY <1>1, SweepInvariant, PTL

-----------------------------------------------------------------------------
(* What has passed is what the run shows. *)

\* A verdict that is all passed leaves no expectation out.
LEMMA PassedResults ==
  ASSUME VerdictIsOfLast, JustPassed
  PROVE  \A r \in Results(Judgement, last.run) : r.passed
BY DEF VerdictIsOfLast, JustPassed, Judgement, PassedAll

\* A run that passes every check has the lanes its item expects.
LEMMA PassedLane ==
  ASSUME NEW e, NEW run, \A r \in Results(e, run) : r.passed, NeedsLane(e)
  PROVE  LaneReady(e, run)
<1>1. [what |-> "expected_waste_lane", passed |-> LaneReady(e, run)] \in Results(e, run)
  BY DEF Results
<1>2. QED
  BY <1>1

\* A run that passes every check backs its utilization claims.
LEMMA PassedUtilization ==
  ASSUME NEW e, NEW run, \A r \in Results(e, run) : r.passed, e.utilization
  PROVE  CheckUtilizationEvidence(run)
<1>1. [what |-> "utilization_evidence", passed |-> CheckUtilizationEvidence(run)] \in Results(e, run)
  BY DEF Results
<1>2. QED
  BY <1>1

\* A run that passes every check reconciles what its item asks for.
LEMMA PassedReconciliation ==
  ASSUME NEW e, NEW run, \A r \in Results(e, run) : r.passed, NEW want \in e.reconcile
  PROVE  CheckWasteCostReconciliation(run, want)
<1>1. [what |-> "waste_cost_reconciliation", passed |-> CheckWasteCostReconciliation(run, want)] \in Results(e, run)
  BY DEF Results
<1>2. QED
  BY <1>1

\* Of the entries of an id, a sequence has a last one.
LEMMA LastNamedExists ==
  ASSUME NEW s, s \in Seq(Elements(s)), NEW k \in DOMAIN s
  PROVE  \E q \in LastNamed(s, s[k].id) : q.id = s[k].id
<1> DEFINE id == s[k].id
           n == Len(s)
           named == {j \in DOMAIN s : s[j].id = id}
           tails == {j..n : j \in named}
<1>1. n \in Nat /\ DOMAIN s = 1..n
  OBVIOUS
<1>2. IsFiniteSet(1..n) /\ tails \in SUBSET SUBSET (1..n) /\ tails /= {}
  <2>1. IsFiniteSet(1..n)
    BY <1>1, FS_Interval
  <2>2. k..n \in tails
    OBVIOUS
  <2>3. QED
    BY <1>1, <2>1, <2>2
<1>3. PICK T \in tails : \A U \in tails : U \subseteq T => U = T
  <2> DEFINE all == 1..n
  <2>1. IsFiniteSet(all) /\ tails \in SUBSET SUBSET all /\ tails /= {}
    BY <1>2
  <2> HIDE DEF all, tails
  <2>2. QED
    BY <2>1, FiniteSetsHaveLeast
<1>4. PICK j \in named : T = j..n
  OBVIOUS
<1>5. ASSUME NEW i \in named PROVE i <= j
  <2>1. CASE j < i
    <3>1. i..n \in tails /\ i..n \subseteq j..n /\ j \in j..n /\ j \notin i..n
      BY <1>1, <2>1
    <3>2. QED
      BY <1>3, <1>4, <3>1
  <2>2. QED
    BY <1>1, <2>1
<1>6. s[j] \in LastNamed(s, id)
  BY <1>4, <1>5 DEF LastNamed
<1>7. QED
  BY <1>4, <1>6

\* An item that just passed has its lane.
LEMMA PassedLaneIsThere ==
  ASSUME VerdictIsOfLast, JustPassed
  PROVE  LaneIsThere
<1> SUFFICES ASSUME NeedsLane(Judgement)
             PROVE  \E name \in Judgement.lane :
                      Cardinality({k \in DOMAIN last.run.lanes :
                                     last.run.lanes[k].lane = name /\ ~last.run.lanes[k].failed}) = 1
  BY DEF LaneIsThere
<1> DEFINE lanes == last.run.lanes
<1>1. LaneReady(Judgement, last.run)
  BY PassedResults, PassedLane
<1>2. PICK k \in Expected(Judgement, last.run) : Expected(Judgement, last.run) = {k} /\ ~lanes[k].failed
  BY <1>1 DEF LaneReady
<1> DEFINE name == lanes[k].lane
<1>3. name \in Judgement.lane /\ {j \in DOMAIN lanes : lanes[j].lane = name /\ ~lanes[j].failed} = {k}
  BY <1>2 DEF Expected
<1>4. Cardinality({k}) = 1
  BY FS_Singleton
<1>5. QED
  BY <1>3, <1>4

\* An item that just passed cites both sides of its reconciliation.
LEMMA PassedIsReconciled ==
  ASSUME VerdictIsOfLast, JustPassed
  PROVE  ReconciledMeansCited
<1> DEFINE run == last.run
           Reached(rec) == CitedRecords(run, RecommendationEvidenceIds(run, rec.id, TRUE))
<1> SUFFICES ASSUME NEW want \in Judgement.reconcile
             PROVE  /\ \A k \in DOMAIN run.lanes : run.lanes[k].lane = want.lane =>
                         Complete(run.lanes[k]) /\ run.lanes[k].total.low > ObservedCost(Billed(run, want.type))
                    /\ \E rec \in Elements(run.recs) :
                         /\ \A r \in Elements(run.evidence) : r.cap = "cost" /\ r.current
                                 /\ (\E k \in DOMAIN r.entries : r.entries[k].type = want.type) =>
                                \E q \in Reached(rec) : q.id = r.id
                         /\ \E r \in Reached(rec) : r.cap = "lane" /\ r.current
                                 /\ \A s \in r.summary : \E k \in DOMAIN run.lanes : s = SummaryOf(run.lanes[k])
  BY DEF ReconciledMeansCited
<1> DEFINE billed == Billed(run, want.type)
<1>1. run.evidence \in Seq(Elements(run.evidence)) /\ CheckWasteCostReconciliation(run, want)
  BY PassedResults, PassedReconciliation DEF VerdictIsOfLast, JustPassed
<1>2. PICK k \in Named(run, want.lane) :
        /\ Named(run, want.lane) = {k} /\ Complete(run.lanes[k])
        /\ run.lanes[k].total.low > ObservedCost(billed)
        /\ \E rec \in Elements(run.recs) : Reconciles(run, rec, run.lanes[k], billed)
  BY <1>1 DEF CheckWasteCostReconciliation
<1>3. PICK rec \in Elements(run.recs) : Reconciles(run, rec, run.lanes[k], billed)
  BY <1>2
<1> DEFINE ids == RecommendationEvidenceIds(run, rec.id, TRUE)
<1>4. /\ {billed[p].from : p \in DOMAIN billed} \subseteq ids
      /\ \E record \in CitedRecords(run, ids) : IsLaneSummaryEvidence(record, run.lanes[k])
  BY <1>3 DEF Reconciles
<1>5. k \in DOMAIN run.lanes /\ \A j \in DOMAIN run.lanes : run.lanes[j].lane = want.lane => j = k
  BY <1>2 DEF Named
<1>6. ASSUME NEW r \in Elements(run.evidence), r.cap = "cost", r.current,
             NEW j \in DOMAIN r.entries, r.entries[j].type = want.type
      PROVE  \E q \in Reached(rec) : q.id = r.id
  <2>1. PICK i \in DOMAIN run.evidence : r = run.evidence[i]
    BY DEF Elements
  <2> DEFINE costs == {m \in DOMAIN run.evidence : run.evidence[m].cap = "cost" /\ run.evidence[m].current}
             Mine(m) == {l \in DOMAIN run.evidence[m].entries : run.evidence[m].entries[l].type = want.type}
  <2>2. DOMAIN billed = UNION {{m} \X Mine(m) : m \in costs}
    BY DEF Billed
  <2>3. i \in costs /\ j \in Mine(i)
    BY <1>6, <2>1
  <2>4. \A where \in DOMAIN billed : billed[where].from = run.evidence[where[1]].id
    BY DEF Billed
  <2> HIDE DEF costs, Mine, billed
  <2>5. <<i, j>> \in {i} \X Mine(i)
    BY <2>3
  <2>6. <<i, j>> \in DOMAIN billed /\ billed[<<i, j>>].from = r.id
    BY <2>1, <2>2, <2>3, <2>4, <2>5
  <2>7. r.id \in ids
    BY <1>4, <2>6
  <2>8. PICK q \in LastNamed(run.evidence, r.id) : q.id = r.id
    BY <1>1, <2>1, LastNamedExists
  <2>9. q \in Reached(rec)
    BY <2>7, <2>8 DEF CitedRecords
  <2>10. QED
    BY <2>8, <2>9
<1>7. \E r \in Reached(rec) : r.cap = "lane" /\ r.current
         /\ \A s \in r.summary : \E j \in DOMAIN run.lanes : s = SummaryOf(run.lanes[j])
  <2>1. PICK r \in Reached(rec) : IsLaneSummaryEvidence(r, run.lanes[k])
    BY <1>4
  <2>2. QED
    BY <1>5, <2>1 DEF IsLaneSummaryEvidence
<1>8. QED
  BY <1>2, <1>5, <1>6, <1>7

\* An item that just passed claims idleness on metrics only.
LEMMA PassedClaimsRestOnMetrics ==
  ASSUME VerdictIsOfLast, JustPassed
  PROVE  ClaimsRestOnMetrics
<1> DEFINE run == last.run
           Cites(facts) == \E f \in Elements(run.facts) : f.id \in facts
             /\ \E r \in Elements(run.evidence) : r.id \in f.evidence /\ r.cap = "metric"
           Own(s) == {s[k] : k \in {j \in DOMAIN s : \A i \in DOMAIN s : s[i].id = s[j].id => i = j}}
<1> SUFFICES ASSUME Judgement.utilization
             PROVE  /\ \A f \in Own(run.facts) : Asserts(f) => Cites({f.id})
                    /\ \A h \in Own(run.hyps) : Asserts(h) => Cites(h.facts)
                    /\ \A r \in Own(run.recs) : Asserts(r) =>
                         Cites(r.facts \union UNION {h.facts : h \in {x \in Elements(run.hyps) : x.id \in r.hyps}})
  BY DEF ClaimsRestOnMetrics
<1>1. CheckUtilizationEvidence(run)
  BY PassedResults, PassedUtilization
<1>2. ASSUME NEW ids, HasCitedUtilization(run, ids)
      PROVE  \E r \in Elements(run.evidence) : r.id \in ids /\ r.cap = "metric"
  BY <1>2 DEF HasCitedUtilization, CitedRecords, LastNamed, Elements
<1>3. ASSUME NEW facts, HasCitedUtilization(run, EvidenceIdsForFactIds(run, facts))
      PROVE  Cites(facts)
  <2>1. PICK r \in Elements(run.evidence) : r.id \in EvidenceIdsForFactIds(run, facts) /\ r.cap = "metric"
    BY <1>2, <1>3
  <2>2. PICK id \in facts : \E f \in LastNamed(run.facts, id) : r.id \in f.evidence
    BY <2>1 DEF EvidenceIdsForFactIds
  <2>3. PICK f \in LastNamed(run.facts, id) : r.id \in f.evidence
    BY <2>2
  <2>4. f \in Elements(run.facts) /\ f.id = id
    BY <2>3 DEF LastNamed, Elements
  <2>5. QED
    BY <2>1, <2>2, <2>3, <2>4
<1>4. ASSUME NEW f \in Own(run.facts), Asserts(f)
      PROVE  Cites({f.id})
  <2>1. f \in Elements(run.facts) /\ HasCitedUtilization(run, f.evidence)
    BY <1>1, <1>4 DEF CheckUtilizationEvidence, Elements
  <2>2. QED
    BY <1>2, <2>1
<1>5. ASSUME NEW h \in Own(run.hyps), Asserts(h)
      PROVE  Cites(h.facts)
  <2>1. HasCitedUtilization(run, EvidenceIdsForFactIds(run, h.facts))
    BY <1>1, <1>5 DEF CheckUtilizationEvidence
  <2>2. QED
    BY <1>3, <2>1
<1>6. ASSUME NEW r \in Own(run.recs), Asserts(r)
      PROVE  Cites(r.facts \union UNION {h.facts : h \in {x \in Elements(run.hyps) : x.id \in r.hyps}})
  <2> DEFINE followed == r.facts \union UNION {h.facts : h \in {x \in Elements(run.hyps) : x.id \in r.hyps}}
             cited == r.facts \union UNION {h.facts \union {} : h \in UNION {LastNamed(run.hyps, x) : x \in r.hyps}}
  <2>1. HasCitedUtilization(run, RecommendationEvidenceIds(run, r.id, FALSE))
    BY <1>1, <1>6 DEF CheckUtilizationEvidence
  <2>2. FirstNamed(run.recs, r.id) \subseteq {r}
    BY <1>6 DEF FirstNamed
  <2>3. RecommendationEvidenceIds(run, r.id, FALSE) \subseteq EvidenceIdsForFactIds(run, cited)
    BY <2>2 DEF RecommendationEvidenceIds
  <2>4. cited \subseteq followed
    BY DEF LastNamed, Elements
  <2>5. PICK e \in Elements(run.evidence) :
          e.id \in RecommendationEvidenceIds(run, r.id, FALSE) /\ e.cap = "metric"
    BY <1>2, <2>1
  <2> HIDE DEF cited, followed
  <2>6. PICK id \in cited : \E f \in LastNamed(run.facts, id) : e.id \in f.evidence
    <3>1. e.id \in EvidenceIdsForFactIds(run, cited)
      BY <2>3, <2>5
    <3>2. QED
      BY <3>1 DEF EvidenceIdsForFactIds
  <2>7. PICK f \in LastNamed(run.facts, id) : e.id \in f.evidence
    BY <2>6
  <2>8. f \in Elements(run.facts) /\ f.id = id /\ id \in followed
    BY <2>4, <2>6, <2>7 DEF LastNamed, Elements
  <2>9. Cites(followed)
    BY <2>5, <2>7, <2>8
  <2>10. QED
    BY <2>9 DEF followed
<1>7. QED
  BY <1>4, <1>5, <1>6

\* An item that passes rests on what its run shows: the lane it speaks of, what
\* its reconciliation asks for, and the metrics behind every claim.
THEOREM PassedItemsAreGrounded == SweepSpec => []PassedMeansGrounded
<1>1. SweepInv => PassedMeansGrounded
  BY PassedLaneIsThere, PassedIsReconciled, PassedClaimsRestOnMetrics DEF SweepInv, PassedMeansGrounded
<1>2. QED
  BY <1>1, SweepInvariant, PTL
=============================================================================
