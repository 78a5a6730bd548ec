---------------------------- MODULE Expectations ----------------------------
(***************************************************************************)
(* What a dataset item expects of a run, and whether the run met it        *)
(* (evaluation/expectations.ts, evaluation/dataset.ts).                    *)
(*                                                                         *)
(* A run is a record: lanes, evidence, facts, hyps, recs (sequences), dq,  *)
(* capabilities (sets). A text is the set of what its patterns find in it, *)
(* with the amounts and ranges it names. An optional expectation is a set  *)
(* of one value or none. A resource id is a key and the way it is spelt.   *)
(* What is only counted, summed or looked up, is a function of where it    *)
(* stands in the run.                                                      *)
(***************************************************************************)
EXTENDS Integers, FiniteSets, SequencesExt

Elements(s) == {s[k] : k \in DOMAIN s}
Keys(ids) == {ids[k].key : k \in DOMAIN ids}
HasDuplicates(ids) == Cardinality(Keys(ids)) /= Cardinality(DOMAIN ids)

-----------------------------------------------------------------------------
(* The dataset. *)

\* The contracts that need the name of a lane.
HasLaneContract(e) ==
  \/ e.ids /= {} \/ e.excluded /= {} \/ e.count /= {}
  \/ e.unparsed /= {} \/ e.rejected /= {} \/ e.total /= {}

\* superRefine of the item's schema.
ValidItem(e) ==
  /\ HasLaneContract(e) => e.lane /= {}
  /\ \A r \in e.reconcile : e.lane = {r.lane}

-----------------------------------------------------------------------------
(* What a recommendation can be followed to. *)

\* A Map keeps the last entry of an id, find() the first.
LastNamed(s, id) == {s[k] : k \in {j \in DOMAIN s : s[j].id = id /\ \A i \in DOMAIN s : s[i].id = id => i <= j}}
FirstNamed(s, id) == {s[k] : k \in {j \in DOMAIN s : s[j].id = id /\ \A i \in DOMAIN s : s[i].id = id => i >= j}}

EvidenceIdsForFactIds(run, facts) == UNION {fact.evidence : fact \in UNION {LastNamed(run.facts, f) : f \in facts}}

RecommendationEvidenceIds(run, id, counter) ==
  UNION {EvidenceIdsForFactIds(run, rec.facts \union
           UNION {hyp.facts \union (IF counter THEN hyp.counters ELSE {}) :
                    hyp \in UNION {LastNamed(run.hyps, h) : h \in rec.hyps}}) :
           rec \in FirstNamed(run.recs, id)}

CitedRecords(run, ids) == UNION {LastNamed(run.evidence, id) : id \in ids}

-----------------------------------------------------------------------------
(* Optimisation that is claimed, not only proposed, needs metrics. *)

\* A claim outside the spans that negate it, defer it or call the evidence insufficient.
Asserts(x) == "assertive" \in x.says

HasCitedUtilization(run, ids) ==
  \E record \in CitedRecords(run, ids) : record.intent = "utilization" /\ record.cap = "metric"

\* Mutant: the hypotheses are not looked at.
CheckUtilizationEvidence_RecsOnly(run) ==
  \A k \in DOMAIN run.recs : Asserts(run.recs[k]) =>
     HasCitedUtilization(run, RecommendationEvidenceIds(run, run.recs[k].id, FALSE))

CheckUtilizationEvidence(run) ==
  /\ \A k \in DOMAIN run.facts : Asserts(run.facts[k]) =>
       HasCitedUtilization(run, run.facts[k].evidence)
  /\ \A k \in DOMAIN run.hyps : Asserts(run.hyps[k]) =>
       HasCitedUtilization(run, EvidenceIdsForFactIds(run, run.hyps[k].facts))
  /\ \A k \in DOMAIN run.recs : Asserts(run.recs[k]) =>
       HasCitedUtilization(run, RecommendationEvidenceIds(run, run.recs[k].id, FALSE))

-----------------------------------------------------------------------------
(* Waste reconciled with what was billed. *)

\* The entries of the type in the cost records of the item's window.
Billed(run, type) ==
  LET costs == {k \in DOMAIN run.evidence : run.evidence[k].cap = "cost" /\ run.evidence[k].current}
      Entry(place) == run.evidence[place[1]].entries[place[2]]
  IN [place \in UNION {{k} \X {j \in DOMAIN run.evidence[k].entries :
                               run.evidence[k].entries[j].type = type} : k \in costs} |->
        [cost |-> Entry(place).cost, currency |-> Entry(place).currency, from |-> run.evidence[place[1]].id]]

ObservedCost(billed) == MapThenSumSet(LAMBDA place : billed[place].cost, DOMAIN billed)

InDollars(billed) == {billed[k].currency : k \in DOMAIN billed} = {"USD"}

Times(s, x) == Cardinality({k \in DOMAIN s : s[k] = x})

\* The total, or every component as often as it was billed.
MentionsObservedCost(rec, billed) ==
  LET components == [k \in DOMAIN billed |-> billed[k].cost]
  IN \/ ObservedCost(billed) \in Elements(rec.amounts)
     \/ \A x \in Elements(components) : Times(components, x) <= Times(rec.amounts, x)

SummaryOf(lane) == [lane |-> lane.lane, candidates |-> Len(lane.ids), total |-> lane.total]

\* Mutant: any summary of the lane will do.
IsLaneSummaryEvidence_AnyRun(record, lane) == record.cap = "lane" /\ \E s \in record.summary : s.lane = lane.lane

\* The summary of this lane, of this run's window and subscriptions.
IsLaneSummaryEvidence(record, lane) ==
  record.cap = "lane" /\ record.current /\ record.summary = {SummaryOf(lane)}

Named(run, name) == {k \in DOMAIN run.lanes : run.lanes[k].lane = name}

Complete(lane) == ~lane.failed /\ lane.unparsed = 0 /\ lane.rejected = 0 /\ lane.total.available /= 0

MentionsLaneTotalRange(rec, lane) == <<lane.total.low, lane.total.high>> \in rec.ranges

\* Savings are spoken of, and nowhere without a qualification.
QualifiedSavings(rec) == "qualified" \in rec.says /\ "unqualified" \notin rec.says

Reconciles(run, rec, lane, billed) ==
  LET ids == RecommendationEvidenceIds(run, rec.id, TRUE)
  IN /\ {billed[k].from : k \in DOMAIN billed} \subseteq ids
     /\ \E record \in CitedRecords(run, ids) : IsLaneSummaryEvidence(record, lane)
     /\ {"billed", "list_price"} \subseteq rec.says /\ QualifiedSavings(rec)
     /\ MentionsLaneTotalRange(rec, lane) /\ MentionsObservedCost(rec, billed)

CheckWasteCostReconciliation(run, want) ==
  LET billed == Billed(run, want.type)
  IN \E k \in Named(run, want.lane) :
       /\ Named(run, want.lane) = {k} /\ Complete(run.lanes[k])
       /\ DOMAIN billed /= {} /\ InDollars(billed) /\ run.lanes[k].total.low > ObservedCost(billed)
       /\ \E rec \in Elements(run.recs) : Reconciles(run, rec, run.lanes[k], billed)

-----------------------------------------------------------------------------
(* The expectations, each with its verdict. *)

Expected(e, run) == {k \in DOMAIN run.lanes : run.lanes[k].lane \in e.lane}

LaneReady(e, run) == \E k \in Expected(e, run) : Expected(e, run) = {k} /\ ~run.lanes[k].failed

NeedsLane(e) == e.lane /= {} \/ HasLaneContract(e) \/ e.reconcile /= {}

\* The lanes the other contracts are judged on: none, if the named one is not unique.
EvaluatedLanes(e, run) ==
  IF ~NeedsLane(e) THEN DOMAIN run.lanes
  ELSE {k \in Expected(e, run) : Expected(e, run) = {k}}

SumOf(field, run, lanes) == MapThenSumSet(LAMBDA k : run.lanes[k][field], lanes)

\* The candidates of some lanes.
CandidateIds(run, lanes) ==
  [place \in UNION {{k} \X DOMAIN run.lanes[k].ids : k \in lanes} |-> run.lanes[place[1]].ids[place[2]]]

\* Mutant: the verdict on the lane itself is not among the results.
Results_NoLaneVerdict(e, run) ==
  LET lanes == EvaluatedLanes(e, run)
      ids == CandidateIds(run, lanes)
  IN {[what |-> "excluded_candidate_ids", passed |-> Keys(ids) \intersect not = {}] : not \in e.excluded}
     \union {[what |-> "max_rejected_rows",
              passed |-> SumOf("rejected", run, lanes) <= n] : n \in e.rejected}

Results(e, run) ==
  LET lanes == EvaluatedLanes(e, run)
      ids == CandidateIds(run, lanes)
      V(what, passed) == [what |-> what, passed |-> passed]
  IN {V("min_recommendations", Len(run.recs) >= n) : n \in e.recommendations}
     \union {V("expected_dq_categories", want \subseteq run.dq) : want \in e.dq}
     \union {V("expected_capabilities_invoked", want \subseteq run.capabilities) : want \in e.capabilities}
     \union (IF NeedsLane(e) THEN {V("expected_waste_lane", LaneReady(e, run))} ELSE {})
     \union {V("expected_candidate_ids",
               Keys(ids) = Keys(want) /\ ~HasDuplicates(ids) /\ ~HasDuplicates(want)) : want \in e.ids}
     \union {V("excluded_candidate_ids", Keys(ids) \intersect not = {}) : not \in e.excluded}
     \union {V("expected_candidate_count", Cardinality(DOMAIN ids) = n) : n \in e.count}
     \union {V("max_unparsed_rows", SumOf("unparsed", run, lanes) <= n) : n \in e.unparsed}
     \union {V("max_rejected_rows", SumOf("rejected", run, lanes) <= n) : n \in e.rejected}
     \union {V("expected_lane_total", \E k \in lanes : lanes = {k} /\ run.lanes[k].total = want) : want \in e.total}
     \union (IF e.utilization THEN {V("utilization_evidence", CheckUtilizationEvidence(run))} ELSE {})
     \union {V("waste_cost_reconciliation", CheckWasteCostReconciliation(run, want)) : want \in e.reconcile}

PassedAll(results) == \A r \in results : r.passed
=============================================================================
