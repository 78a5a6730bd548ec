----------------------------- MODULE Reasoning -----------------------------
(***************************************************************************)
(* From the evidence to a scored output: the model's answer, the           *)
(* post-processing that drops what it does not support, the rubrics that   *)
(* score the rest, and the status of the run.                              *)
(*                                                                         *)
(* The model is free to answer anything its schema admits: dangling ids,   *)
(* ids used twice, numbers out of thin air, levels its own dimensions do   *)
(* not bear out, commands. Text is what the checks make of it: the numbers *)
(* a statement holds, in tenths, the waste resources it names, and where   *)
(* it commands. One finding is made for each dropped item; its wording and *)
(* number are left out.                                                    *)
(***************************************************************************)
EXTENDS Integers, FiniteSets

CONSTANTS
  EvidencePools,   \* sets of [id, source, numbers, resource]
  Answers,         \* the answers of the model
  NoResource

\* What a recommendation or hypothesis says of its own confidence.
Dimensions ==
  [coverage : {"partial", "adequate", "strong"}, quality : {"weak", "mixed", "strong"},
   agreement : {"conflicting", "mixed", "aligned"}]

Levels == {"low", "medium", "high"}

\* The schema of an answer: a fact cites at least one record, a recommendation
\* at least one fact or hypothesis. Ids need not be unique, and nothing says
\* that they resolve. A hypothesis may cite nothing at all.
WellFormed(answer) ==
  /\ \A f \in answer.facts : f.evidence /= {}
  /\ \A h \in answer.hypotheses : h.dims \in Dimensions /\ h.level \in Levels
  /\ \A r \in answer.recommendations :
       /\ r.dims \in Dimensions /\ r.level \in Levels
       /\ r.facts \union r.hypotheses /= {}

HasFields(answer) ==
  /\ \A f \in answer.facts : DOMAIN f = {"id", "evidence", "numbers", "names"} /\ f.numbers \subseteq Int
  /\ \A h \in answer.hypotheses :
       DOMAIN h = {"id", "support", "counter", "missing", "dims", "level"}
  /\ \A r \in answer.recommendations :
       DOMAIN r = {"id", "hypotheses", "facts", "commands", "money", "dims", "level"}

ASSUME ReasoningAssumption ==
  /\ \A pool \in EvidencePools : \A e \in pool : e.numbers \subseteq Int
  /\ \A said \in Answers : WellFormed(said) /\ HasFields(said)

VARIABLES
  stage,           \* "evidence", "facts", "hypotheses", "recommendations", "score", then the status
  evidence,        \* all records of the run
  answer,          \* what the model said
  output,          \* what is left of it
  issues,          \* what post-processing found, [kind, target, item]
  score            \* the rubrics that passed

vars == <<stage, evidence, answer, output, issues, score>>

-----------------------------------------------------------------------------
(* Helpers. *)

Ids(items) == {item.id : item \in items}

\* Quarantined cost records are kept from the model and from the rubrics.
ReasoningEvidence == {e \in evidence : e.source /= "quarantined"}

DeriveConfidenceLevel(dims) ==
  IF dims.coverage = "partial" \/ dims.quality = "weak" \/ dims.agreement = "conflicting"
  THEN "low"
  ELSE IF dims = [coverage |-> "strong", quality |-> "strong", agreement |-> "aligned"]
  THEN "high" ELSE "medium"

\* Mutant: the numbers of every record count, cited or not.
IsFabricated_AnyRecord(n, fact) ==
  \A e \in ReasoningEvidence : \A m \in e.numbers : m - n >= 5 \/ n - m >= 5

\* A number is taken to come from a cited record if it is less than a half away
\* from one there.
IsFabricated(n, fact) ==
  \A e \in ReasoningEvidence :
    e.id \in fact.evidence => \A m \in e.numbers : m - n >= 5 \/ n - m >= 5

HasFabricatedNumbers(fact) == \E n \in fact.numbers : IsFabricated(n, fact)

Drop(kind, target, items) == {[kind |-> kind, target |-> target, item |-> item] : item \in items}

\* Mutant: a level that is not earned is reported, but stays.
Relevelled_Reported(items) == items

\* The level is what the dimensions derive, whatever the model claimed.
Relevelled(items) == {[item EXCEPT !.level = DeriveConfidenceLevel(item.dims)] : item \in items}

Mislevelled(items) == {item \in items : item.level /= DeriveConfidenceLevel(item.dims)}

-----------------------------------------------------------------------------
(* The pipeline. *)

Init ==
  /\ stage = "evidence"
  /\ evidence \in EvidencePools
  /\ answer = [facts |-> {}, hypotheses |-> {}, recommendations |-> {}, findings |-> {}]
  /\ output = [facts |-> {}, hypotheses |-> {}, recommendations |-> {}, findings |-> {}]
  /\ issues = {} /\ score = {}

\* The model answers. It may also fail, and the run with it.
Reason ==
  /\ stage = "evidence"
  /\ answer' \in Answers
  /\ output' = [output EXCEPT !.findings = answer'.findings]
  /\ stage' = "facts"
  /\ UNCHANGED <<evidence, issues, score>>

ReasonFails ==
  /\ stage = "evidence" /\ stage' = "no_output"
  /\ UNCHANGED <<evidence, answer, output, issues, score>>

\* Mutant: a fact with both faults is reported twice.
CheckFacts_NoContinue ==
  LET dangling == {f \in answer.facts : ~(f.evidence \subseteq Ids(ReasoningEvidence))}
      fabricated == {f \in answer.facts : HasFabricatedNumbers(f)}
  IN
  /\ stage = "facts"
  /\ output' = [output EXCEPT !.facts = (answer.facts \ dangling) \ fabricated]
  /\ issues' = issues \union Drop("dangling_citation", "fact", dangling)
                      \union Drop("fabricated_number", "fact", fabricated)
  /\ stage' = "hypotheses"
  /\ UNCHANGED <<evidence, answer, score>>

\* Facts that cite a record the model was not given, and then facts with a
\* number of their own, are dropped.
CheckFacts ==
  LET dangling == {f \in answer.facts : ~(f.evidence \subseteq Ids(ReasoningEvidence))}
      fabricated == {f \in answer.facts \ dangling : HasFabricatedNumbers(f)}
  IN
  /\ stage = "facts"
  /\ output' = [output EXCEPT !.facts = (answer.facts \ dangling) \ fabricated]
  /\ issues' = issues \union Drop("dangling_citation", "fact", dangling)
                      \union Drop("fabricated_number", "fact", fabricated)
  /\ stage' = "hypotheses"
  /\ UNCHANGED <<evidence, answer, score>>

\* Mutant: counter-evidence may dangle.
Dangles_SupportOnly(h) ==
  \/ ~(h.support \subseteq Ids(output.facts))
  \/ ~(h.missing \subseteq Ids(answer.findings))

\* Support and counter-evidence must have survived; missing evidence must be a
\* finding of the answer itself.
Dangles(h) ==
  \/ ~(h.support \subseteq Ids(output.facts))
  \/ ~(h.counter \subseteq Ids(output.facts))
  \/ ~(h.missing \subseteq Ids(answer.findings))

CheckHypotheses ==
  LET dangling == {h \in answer.hypotheses : Dangles(h)}
      kept == answer.hypotheses \ dangling
  IN
  /\ stage = "hypotheses"
  /\ output' = [output EXCEPT !.hypotheses = Relevelled(kept)]
  /\ issues' = issues \union Drop("dangling_citation", "hypothesis", dangling)
                      \union Drop("confidence_downgraded", "hypothesis", Mislevelled(kept))
  /\ stage' = "recommendations"
  /\ UNCHANGED <<evidence, answer, score>>

\* Mutant: ids are looked up in the answer, not in what survived.
Unsupported_InAnswer(r) ==
  ~(r.hypotheses \subseteq Ids(answer.hypotheses) /\ r.facts \subseteq Ids(answer.facts))

\* Everything a recommendation cites must have survived. What it cites is not
\* empty, so the check for surviving support that follows never fires.
Unsupported(r) ==
  ~(r.hypotheses \subseteq Ids(output.hypotheses) /\ r.facts \subseteq Ids(output.facts))

CheckRecommendations ==
  LET dangling == {r \in answer.recommendations : Unsupported(r)}
      imperative == {r \in answer.recommendations \ dangling :
                       r.commands \intersect {"statement", "actions"} /= {}}
      kept == (answer.recommendations \ dangling) \ imperative
  IN
  /\ stage = "recommendations"
  /\ output' = [output EXCEPT !.recommendations = Relevelled(kept)]
  /\ issues' = issues \union Drop("dangling_citation", "recommendation", dangling)
                      \union Drop("imperative_language", "recommendation", imperative)
                      \union Drop("confidence_downgraded", "recommendation", Mislevelled(kept))
  /\ stage' = "score"
  /\ UNCHANGED <<evidence, answer, score>>

-----------------------------------------------------------------------------
(* The rubrics read the output anew. *)

ScoreStructuralCorrectness == WellFormed(output)

ScoreCitationCompleteness ==
  /\ \A r \in output.recommendations :
       \/ r.hypotheses \intersect Ids(output.hypotheses) /= {}
       \/ r.facts \intersect Ids(output.facts) /= {}
  /\ \A h \in output.hypotheses : h.support \subseteq Ids(output.facts)

ScoreConfidenceConsistency ==
  Mislevelled(output.hypotheses) = {} /\ Mislevelled(output.recommendations) = {}

\* The rubric reads the validation steps too, which post-processing does not.
ScoreReadOnlyAdherence == \A r \in output.recommendations : r.commands = {}

\* Estimated money comes as a range, with its source.
ScoreEstimatedImpactCalibrated ==
  \A r \in output.recommendations : r.money \in {"none", "observed", "range_with_source"}

\* A fact that names a waste candidate cites the record that classified it.
ScoreWasteClassificationGrounding ==
  \A f \in output.facts : \A e \in ReasoningEvidence :
    e.resource \in f.names => e.id \in f.evidence

Rubrics ==
  {rubric \in {"citation_completeness", "confidence_consistency", "read_only_adherence",
               "estimated_impact_calibrated", "waste_classification_grounding"} :
     CASE rubric = "citation_completeness" -> ScoreCitationCompleteness
       [] rubric = "confidence_consistency" -> ScoreConfidenceConsistency
       [] rubric = "read_only_adherence" -> ScoreReadOnlyAdherence
       [] rubric = "estimated_impact_calibrated" -> ScoreEstimatedImpactCalibrated
       [] OTHER -> ScoreWasteClassificationGrounding}

\* Nothing else is scored if the structure is wrong.
ScoreAll ==
  IF ScoreStructuralCorrectness THEN {"structural_correctness"} \union Rubrics ELSE {}

-----------------------------------------------------------------------------
(* Status. *)

\* Mutant: only lost recommendations count.
Drops_RecommendationsOnly ==
  {i \in issues : i.kind /= "confidence_downgraded" /\ i.target = "recommendation"}

\* A lowered level is an issue, but nothing is lost.
Drops == {i \in issues : i.kind /= "confidence_downgraded"}

RunStatus(retrieval, contractIncomplete) ==
  IF retrieval = "failed" THEN "failed_analysis"
  ELSE IF retrieval = "partial" \/ contractIncomplete \/ Drops /= {} THEN "partial"
  ELSE "success"

\* The cost retrieval and the evidence contract are the business of other parts.
Score(retrieval, contractIncomplete) ==
  /\ stage = "score"
  /\ score' = ScoreAll
  /\ stage' = RunStatus(retrieval, contractIncomplete)
  /\ UNCHANGED <<evidence, answer, output, issues>>

Next ==
  \/ Reason \/ ReasonFails \/ CheckFacts \/ CheckHypotheses \/ CheckRecommendations
  \/ \E retrieval \in {"success", "partial", "failed", "not_applicable"},
        contractIncomplete \in BOOLEAN : Score(retrieval, contractIncomplete)

Spec == Init /\ [][Next]_vars

-----------------------------------------------------------------------------
(* Properties. *)

Statuses == {"success", "partial", "failed_analysis"}

\* What a fact states comes from records the model was given and it cites.
Grounded(f) ==
  /\ f.evidence /= {} /\ f.evidence \subseteq Ids(ReasoningEvidence)
  /\ \A n \in f.numbers : \E e \in ReasoningEvidence :
       e.id \in f.evidence /\ \E m \in e.numbers : m - n < 5 /\ n - m < 5

\* Dropping a fact reaches everything that cites it, directly or through a
\* hypothesis: at any time what is left cites only what is left, and facts are
\* grounded in unquarantined records, though ids may be used twice.
SupportIsClosed ==
  /\ \A f \in output.facts : Grounded(f)
  /\ \A h \in output.hypotheses :
       /\ h.support \union h.counter \subseteq Ids(output.facts)
       /\ h.missing \subseteq Ids(output.findings)
  /\ \A r \in output.recommendations :
       r.hypotheses \subseteq Ids(output.hypotheses) /\ r.facts \subseteq Ids(output.facts)

Survives(item, left) == \E other \in left : other = [item EXCEPT !.level = other.level]

\* Once post-processing is over, every item of the answer is either left, at
\* most with another level, or has an issue that says why it was dropped, and a
\* fact has exactly one; and a run that calls itself a success shows all that the
\* model said. Issues hold the item here where the code has its id, so that an item
\* is not taken for reported by the issue of another that uses the same id.
EveryLossIsReported ==
  stage \in {"score"} \union Statuses =>
    LET Reported(item) == Cardinality({i \in Drops : i.item = item}) = 1
        Unreported(item) == \A i \in Drops : i.item /= item
        Left(item, left) == Survives(item, left) \/ (stage /= "success" /\ ~Unreported(item))
    IN /\ \A f \in answer.facts :
            IF f \in output.facts THEN Unreported(f) ELSE Reported(f) /\ stage /= "success"
       /\ \A h \in answer.hypotheses : Left(h, output.hypotheses)
       /\ \A r \in answer.recommendations : Left(r, output.recommendations)
       /\ \A i \in Drops : i.item \notin output.facts

\* Rubrics and post-processing are two readings of the same rules: what has been
\* processed is well formed, resolves, and claims no level it has not earned.
ProcessedOutputPasses ==
  stage \in Statuses =>
    {"structural_correctness", "citation_completeness", "confidence_consistency"} \subseteq score

-----------------------------------------------------------------------------
(* The inductive invariant behind the first and the last. *)

\* What is processed is the model's answer, list after list.
ListsComeInOrder ==
  /\ evidence \in EvidencePools
  /\ DOMAIN output = {"facts", "hypotheses", "recommendations", "findings"}
  /\ stage \notin {"evidence", "no_output"} => answer \in Answers /\ output.findings = answer.findings
  /\ stage \in {"evidence", "no_output", "facts"} => output.facts = {}
  /\ stage \in {"evidence", "no_output", "facts", "hypotheses"} => output.hypotheses = {}
  /\ stage \in {"evidence", "no_output", "facts", "hypotheses", "recommendations"} =>
       output.recommendations = {}

\* Items that are left have earned their level, and recommendations cite something.
ItemsAreProcessed ==
  /\ \A h \in output.hypotheses : h.dims \in Dimensions /\ h.level = DeriveConfidenceLevel(h.dims)
  /\ \A r \in output.recommendations :
       /\ r.dims \in Dimensions /\ r.level = DeriveConfidenceLevel(r.dims)
       /\ r.facts \union r.hypotheses /= {}

IInv == ListsComeInOrder /\ ItemsAreProcessed /\ SupportIsClosed /\ ProcessedOutputPasses

-----------------------------------------------------------------------------
(* The invariant behind EveryLossIsReported. *)

\* Issues are about items of the answer, each of its own list.
IssuesAreAboutItems ==
  /\ output.facts \subseteq answer.facts
  /\ stage \in {"evidence", "no_output", "facts"} => issues = {}
  /\ \A i \in issues :
       /\ i.target \in {"fact", "hypothesis", "recommendation"}
       /\ i.target = "fact" => i.item \in answer.facts \ output.facts
       /\ i.target = "hypothesis" => i.item \in answer.hypotheses
       /\ i.target = "recommendation" => i.item \in answer.recommendations

\* One issue for a fact that is not left, from the step that drops it to the end.
DroppedOnce(f) == \E i \in Drops : \A j \in Drops : j.item = f <=> j = i

LeftOrDropped(item, left) == Survives(item, left) \/ \E i \in Drops : i.item = item

LossesSoFar ==
  /\ stage \in {"hypotheses", "recommendations", "score"} \union Statuses =>
       \A f \in answer.facts \ output.facts : DroppedOnce(f)
  /\ stage \in {"recommendations", "score"} \union Statuses =>
       \A h \in answer.hypotheses : LeftOrDropped(h, output.hypotheses)
  /\ stage \in {"score"} \union Statuses =>
       \A r \in answer.recommendations : LeftOrDropped(r, output.recommendations)
  /\ stage = "success" => Drops = {}

LossInv == IssuesAreAboutItems /\ LossesSoFar
=============================================================================
