----------------------------- MODULE Evaluation -----------------------------
(***************************************************************************)
(* A sweep: the eval command runs every item of a dataset with every model,*)
(* judges each run by its rubrics and by what the item expects, publishes  *)
(* the verdicts if it can, and tells by its exit code whether all is green.*)
(*                                                                         *)
(* A run is one step here and may come out in any way of Outcomes; how it  *)
(* comes about is what the other modules are about.                        *)
(***************************************************************************)
EXTENDS Expectations

CONSTANTS
  Dataset,           \* sequence of items, [expects]
  Sweeps,            \* what --models may be: sequences of names
  Outcomes(_, _),    \* what a run with a model of an item may be: [threw], or
                     \* [threw, run, rubrics, traced]
  Refusals           \* sets of names whose scores a server may not keep

ASSUME EvaluationAssumption ==
  /\ Dataset \in Seq(Elements(Dataset)) /\ Dataset /= <<>>
  /\ \A models \in Sweeps : models \in Seq(Elements(models))
  /\ \A models \in Sweeps : \A m \in DOMAIN models, i \in DOMAIN Dataset :
       \A outcome \in Outcomes(models[m], i) :
         ~outcome.threw => outcome.run.evidence \in Seq(Elements(outcome.run.evidence))

VARIABLES
  phase,       \* "start", "prepare", "item", "push", "link", "ended"
  sweep,       \* the models
  publishing,  \* the command has a publisher
  model,       \* where the sweep is
  item,
  last,        \* the outcome the last step judged, [threw, item, run]
  verdict,     \* its results, rubrics and expectations, until they are published
  itemResults, \* per model, per item: "passed", "failed", "error"
  scores,      \* batches: [model, item, accepted, sent, stored], the last by the server
  linked,      \* items whose trace the server made part of an experiment
  reported,    \* items with a langfuse_publish_error
  exit

place == <<sweep, publishing, model, item>>
publication == <<scores, linked, reported>>
sweepVars == <<phase, place, last, verdict, itemResults, publication, exit>>

Running == -1
Threw == [threw |-> TRUE]
Nothing == {}

Judged(i, outcome) ==
  {[what |-> "rubrics", passed |-> outcome.rubrics]} \union Results(Dataset[i].expects, outcome.run)

Valid == \A i \in DOMAIN Dataset : ValidItem(Dataset[i].expects)

Ends(code) == phase' = "ended" /\ exit' = code

\* Where the sweep goes after an item.
Onwards ==
  /\ IF item < Len(Dataset) THEN phase' = "item" /\ item' = item + 1 /\ UNCHANGED model
     ELSE phase' = "prepare" /\ item' = 1 /\ model' = model + 1
  /\ UNCHANGED <<sweep, publishing>>

-----------------------------------------------------------------------------
\* Arguments that exclude each other, or no configuration.
Refuse(code) ==
  /\ phase = "start" /\ code \in {1, 2} /\ Ends(code)
  /\ last' = Threw /\ verdict' = Nothing /\ UNCHANGED <<place, itemResults, publication>>

Begin ==
  /\ phase = "start" /\ phase' = "prepare"
  /\ last' = Threw /\ verdict' = Nothing /\ UNCHANGED <<place, itemResults, publication, exit>>

\* The dataset is loaded and checked anew for every model, then made known to the publisher.
Prepare ==
  /\ phase = "prepare" /\ model <= Len(sweep) /\ Valid
  /\ itemResults' = Append(itemResults, <<>>)
  /\ phase' = "item"
  /\ last' = Threw /\ verdict' = Nothing /\ UNCHANGED <<place, publication, exit>>

\* A dataset that cannot be read again, is not valid, or is refused by the publisher
\* ends the command: the models before are not summarised.
PrepareFails ==
  /\ phase = "prepare" /\ model <= Len(sweep)
  /\ Ends(4)
  /\ last' = Threw /\ verdict' = Nothing /\ UNCHANGED <<place, itemResults, publication>>

Adds(result) == itemResults' = [itemResults EXCEPT ![model] = Append(@, result)]

\* The item counts as failed and the sweep goes on.
ItemThrows ==
  /\ phase = "item" /\ Threw \in Outcomes(sweep[model], item)
  /\ last' = Threw /\ verdict' = Nothing /\ Adds("error")
  /\ Onwards
  /\ UNCHANGED <<publication, exit>>

RunItem(outcome) ==
  /\ phase = "item" /\ ~outcome.threw
  /\ last' = [threw |-> FALSE, item |-> item, run |-> outcome.run] /\ verdict' = Judged(item, outcome)
  /\ Adds(IF PassedAll(verdict') THEN "passed" ELSE "failed")
  /\ IF publishing /\ outcome.traced THEN phase' = "push" /\ UNCHANGED place ELSE Onwards
  /\ UNCHANGED <<publication, exit>>

\* The results, and what they come to.
Batch(results) == results \union {[what |-> "passed_all", passed |-> PassedAll(results)]}

Reports == reported' = reported \union {<<model, item>>}

\* One batch. 200 and 207 are success, and the body is not read: the server may have
\* refused any of it. Of a batch that fails it may hold some: the answer may be lost.
PushScores(accepted, refused) ==
  /\ phase = "push"
  /\ scores' = scores \union
       {[model |-> model, item |-> item, accepted |-> accepted, sent |-> Batch(verdict),
         stored |-> {each \in Batch(verdict) : each.what \notin refused}]}
  /\ IF accepted THEN phase' = "link" /\ UNCHANGED <<place, reported>> ELSE Onwards /\ Reports
  /\ last' = Threw /\ verdict' = Nothing /\ UNCHANGED <<itemResults, linked, exit>>

\* Linked, or told as failed: then the server may have linked it all the same.
LinkedOrReported ==
  \/ linked' = linked \union {<<model, item>>} /\ UNCHANGED reported
  \/ linked' \in {linked, linked \union {<<model, item>>}} /\ Reports

\* Mutant: a failure to publish fails the item.
CreateRunItem_Counts ==
  /\ phase = "link"
  /\ LinkedOrReported
  /\ itemResults' = IF reported' = reported THEN itemResults ELSE [itemResults EXCEPT ![model][item] = "failed"]
  /\ Onwards
  /\ last' = Threw /\ verdict' = Nothing /\ UNCHANGED <<scores, exit>>

\* Whether it succeeds or not, the verdict stands.
CreateRunItem ==
  /\ phase = "link"
  /\ LinkedOrReported
  /\ Onwards
  /\ last' = Threw /\ verdict' = Nothing /\ UNCHANGED <<itemResults, scores, exit>>

\* Mutant: the last model decides.
Green_LastModel == itemResults = <<>> \/ \A i \in DOMAIN Last(itemResults) : Last(itemResults)[i] = "passed"

Green == \A m \in DOMAIN itemResults : \A i \in DOMAIN itemResults[m] : itemResults[m][i] = "passed"

Summarise ==
  /\ phase = "prepare" /\ model > Len(sweep)
  /\ Ends(IF Green THEN 0 ELSE 3)
  /\ last' = Threw /\ verdict' = Nothing /\ UNCHANGED <<place, itemResults, publication>>

SweepInit ==
  /\ phase = "start" /\ sweep \in Sweeps /\ publishing \in BOOLEAN /\ model = 1 /\ item = 1
  /\ last = Threw /\ verdict = Nothing /\ itemResults = <<>>
  /\ scores = {} /\ linked = {} /\ reported = {} /\ exit = Running

SweepNext ==
  \/ \E code \in {1, 2} : Refuse(code)
  \/ Begin \/ Prepare \/ PrepareFails \/ ItemThrows \/ CreateRunItem \/ Summarise
  \/ phase = "item" /\ \E outcome \in Outcomes(sweep[model], item) : RunItem(outcome)
  \/ \E accepted \in BOOLEAN, refused \in Refusals : PushScores(accepted, refused)

SweepSpec == SweepInit /\ [][SweepNext]_sweepVars

-----------------------------------------------------------------------------
(* The inductive invariant. *)

SweepTypeOK ==
  /\ phase \in {"start", "prepare", "item", "push", "link", "ended"}
  /\ sweep \in Sweeps /\ model \in 1..(Len(sweep) + 1) /\ item \in 1..Len(Dataset)
  /\ itemResults \in Seq(Seq({"passed", "failed", "error"}))
  /\ exit \in {Running, 0, 1, 2, 3, 4}

\* A model that the sweep has left has a result of every item, the one it is at of
\* every item up to where it is; and the command has not ended, or it has.
ResultsKeepPace ==
  /\ \A m \in DOMAIN itemResults : m < model => Len(itemResults[m]) = Len(Dataset)
  /\ phase \in {"start", "prepare"} => item = 1 /\ Len(itemResults) = model - 1
  /\ phase \in {"item", "push", "link"} => Len(itemResults) = model /\ model <= Len(sweep)
  /\ phase = "item" => Len(itemResults[model]) = item - 1
  /\ phase \in {"push", "link"} => Len(itemResults[model]) = item
  /\ phase /= "ended" => exit = Running
  /\ exit \in {0, 3} =>
       Len(itemResults) = Len(sweep) /\ model = Len(sweep) + 1 /\ (exit = 0 <=> Green)

ItemOf(s) == <<s.model, s.item>>

\* What is yet to be published is what was judged, under names of its own; what was
\* published is of an item that has its result.
ScoresFollowResults ==
  /\ \A s \in scores : s.model \in DOMAIN itemResults /\ s.item \in DOMAIN itemResults[s.model]
  /\ phase = "push" =>
       /\ itemResults[model][item] = (IF PassedAll(verdict) THEN "passed" ELSE "failed")
       /\ \A each \in verdict : each.what /= "passed_all"
  /\ phase = "link" => \E s \in scores : ItemOf(s) = <<model, item>> /\ s.accepted

VerdictIsOfLast ==
  ~last.threw => /\ Results(Dataset[last.item].expects, last.run) \subseteq verdict
                 /\ last.run.evidence \in Seq(Elements(last.run.evidence))

-----------------------------------------------------------------------------
(* Properties. *)

\* A sweep that ends with 0 or 3 has a result of every item with every model, also
\* after runs that threw, and 0 says that all of them passed.
GreenMeansAllPassed ==
  exit \in {0, 3} =>
    /\ Len(itemResults) = Len(sweep) /\ \A m \in DOMAIN itemResults : Len(itemResults[m]) = Len(Dataset)
    /\ exit = 0 <=> \A m \in DOMAIN itemResults, i \in DOMAIN Dataset : itemResults[m][i] = "passed"

JustPassed == ~last.threw /\ verdict /= Nothing /\ PassedAll(verdict)
Judgement == Dataset[last.item].expects

\* What has passed is what the run shows. An item that speaks of a lane passes only
\* a run that produced this lane once and to the end: with nothing to look at, most
\* of its contracts would hold.
LaneIsThere ==
  NeedsLane(Judgement) =>
    \E name \in Judgement.lane :
      Cardinality({k \in DOMAIN last.run.lanes : last.run.lanes[k].lane = name /\ ~last.run.lanes[k].failed}) = 1

\* Waste is reconciled only if the lane lost no row and was priced, and one
\* recommendation leads to every billed record and to the summary of this very lane.
ReconciledMeansCited ==
  \A want \in Judgement.reconcile :
    /\ \A k \in DOMAIN last.run.lanes : last.run.lanes[k].lane = want.lane =>
         Complete(last.run.lanes[k]) /\ last.run.lanes[k].total.low > ObservedCost(Billed(last.run, want.type))
    /\ \E rec \in Elements(last.run.recs) :
         LET reached == CitedRecords(last.run, RecommendationEvidenceIds(last.run, rec.id, TRUE))
         IN /\ \A r \in Elements(last.run.evidence) : r.cap = "cost" /\ r.current
                 /\ (\E k \in DOMAIN r.entries : r.entries[k].type = want.type) =>
                   \E q \in reached : q.id = r.id
            /\ \E r \in reached : r.cap = "lane" /\ r.current
                 /\ \A s \in r.summary : \E k \in DOMAIN last.run.lanes : s = SummaryOf(last.run.lanes[k])

\* Where metrics are demanded, no fact, hypothesis or recommendation with an id of
\* its own claims an optimisation that no metric is cited for.
ClaimsRestOnMetrics ==
  Judgement.utilization =>
    LET run == last.run
        Cites(facts) == \E f \in Elements(run.facts) : f.id \in facts
          /\ \E r \in Elements(run.evidence) : r.id \in f.evidence /\ r.cap = "metric"
        Own(s) == {s[k] : k \in {j \in DOMAIN s : \A i \in DOMAIN s : s[i].id = s[j].id => i = j}}
    IN /\ \A f \in Own(run.facts) : Asserts(f) => Cites({f.id})
       /\ \A h \in Own(run.hyps) : Asserts(h) => Cites(h.facts)
       /\ \A r \in Own(run.recs) : Asserts(r) =>
            Cites(r.facts \union UNION {h.facts : h \in {x \in Elements(run.hyps) : x.id \in r.hyps}})

\* A pass of an item rests on what its run shows: the lane it speaks of, the records
\* and the summary its reconciliation asks for, and the metrics behind every claim.
PassedMeansGrounded ==
  JustPassed => LaneIsThere /\ ReconciledMeansCited /\ ClaimsRestOnMetrics

\* What the server holds is what the command says: a score of a failure is of an item
\* that failed, one of the whole is its verdict, whatever fails later. A trace is part
\* of an experiment after its batch was accepted; and an item whose batch was sent is
\* linked or reported, at the latest when the next one begins. Scores that the server
\* did not keep are missing unreported only where it called the batch a success: a 207
\* says so whatever was refused, against the comment on langfuse_publish_error.
PublishedIsTheVerdict ==
  /\ \A s \in scores :
       /\ \A each \in s.stored : ~each.passed => itemResults[s.model][s.item] = "failed"
       /\ \A each \in s.stored :
            each.what = "passed_all" /\ each.passed => itemResults[s.model][s.item] = "passed"
       /\ s.stored = s.sent \/ s.accepted \/ ItemOf(s) \in reported
       /\ ItemOf(s) \in linked \union reported \/ (phase = "link" /\ ItemOf(s) = <<model, item>>)
  /\ \A pair \in linked : \E s \in scores : ItemOf(s) = pair /\ s.accepted

\* What all steps keep: the parts above and the publication.
SweepInv ==
  SweepTypeOK /\ ResultsKeepPace /\ ScoresFollowResults /\ PublishedIsTheVerdict /\ VerdictIsOfLast
=============================================================================
