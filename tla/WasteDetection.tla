--------------------------- MODULE WasteDetection ---------------------------
(***************************************************************************)
(* Waste detection: one resource-graph query per lane, the rows it returns *)
(* read, checked against the run's scope, priced, and turned into          *)
(* evidence; and what the report then claims of each lane.                 *)
(*                                                                         *)
(* The executor of a lane is the ledger of module RequestLedger with one   *)
(* request: it ends with one raw answer or with one failure. Azure is the  *)
(* set "world". A server answers with rows about what there is, but it may *)
(* lose rows, return rows the query did not ask for, and garble them; ids  *)
(* are compared without case, so a spelling is left out here.              *)
(***************************************************************************)
EXTENDS Integers, Sequences, FiniteSets, FiniteSetsExt

CONSTANTS
  Resource,      \* [sub, group, type, sku, region, attached, name]: what may exist
  Scopes,        \* [type, subs, groups, types]; no groups or types: any
  Lanes,         \* the registry, a sequence of [name, types]
  RateCard,      \* entries [sku, region, price]
  AnyRegion,     \* the region of an entry without one
  Paging         \* whether an answer may be one page of the matches only

ASSUME WasteAssumption ==
  /\ IsFiniteSet(Resource)
  /\ Lanes \in Seq({Lanes[k] : k \in DOMAIN Lanes})
  /\ \A j, k \in DOMAIN Lanes : Lanes[j].name = Lanes[k].name => j = k
  /\ \A entry \in RateCard : entry.price \in Nat
  /\ \A e1, e2 \in RateCard : e1.sku = e2.sku /\ e1.region = e2.region => e1 = e2
  /\ \A scope \in Scopes : scope.subs /= {}
  /\ Paging \in BOOLEAN

VARIABLES
  world,         \* the resources there are
  scope,
  results,       \* lane results, in registry order
  laneRecords,   \* the records for the reasoner
  failures,      \* classified failures, one lane each
  status         \* "running", then what the pipeline makes of the lanes

wasteVars == <<world, scope, results, laneRecords, failures, status>>

-----------------------------------------------------------------------------
(* What the server answers. *)

InScope(r, types) ==
  /\ r.sub \in scope.subs
  /\ scope.groups /= {} => r.group \in scope.groups
  /\ r.type \in types
  /\ scope.types /= {} => r.type \in scope.types

\* What the lane's query asks for: its predicate, with the scope as clauses.
Matches(lane) == {r \in world : InScope(r, lane.types) /\ ~r.attached}

\* A row projects the ARM id and, apart from it, subscription, group and the
\* two attachments. Any of the columns may be wrong or missing.
Row(r) == [id |-> r, sub |-> r.sub, group |-> r.group, attached |-> r.attached, readable |-> TRUE]

Garbled(r) ==
  {[Row(r) EXCEPT !.readable = FALSE], [Row(r) EXCEPT !.attached = TRUE]}
  \union {[Row(r) EXCEPT !.sub = sub] : sub \in {q.sub : q \in Resource}}
  \union {[Row(r) EXCEPT !.group = group] : group \in {q.group : q \in Resource}}

\* At most one row is garbled; the envelope counts what the query matched, or
\* the rows of the page, or is not the one the lane knows.
RawAnswers(lane) ==
  LET Rows(returned) == {Row(r) : r \in returned}
      rowSets == {Rows(returned) : returned \in SUBSET world}
        \union UNION {{Rows(others) \union {row} : others \in SUBSET (world \ {bad}), row \in Garbled(bad)} :
                        bad \in world}
  IN {[envelope |-> envelope, rows |-> rows,
       count |-> IF Paging THEN Cardinality(rows) ELSE Cardinality(Matches(lane))] :
        envelope \in {"counted", "uncounted", "unknown"}, rows \in rowSets}

-----------------------------------------------------------------------------
(* Reading an answer. *)

Distance(m, n) == IF m > n THEN m - n ELSE n - m

\* Mutant: the count of the envelope is not compared with the rows.
ContractIssues_CountUnread(answer) == IF answer.envelope = "counted" THEN 0 ELSE 1

\* What the envelope itself leaves open.
ContractIssues(answer) ==
  IF answer.envelope = "counted"
  THEN Distance(answer.count, Cardinality(answer.rows)) ELSE 1

ExtractRows(answer) == IF answer.envelope = "unknown" THEN {} ELSE answer.rows

\* A row that cannot be read or contradicts the predicate is no candidate.
Parses(row) == row.readable /\ ~row.attached

ParseRows(answer) ==
  [candidates |-> {row \in ExtractRows(answer) : Parses(row)},
   unparsed |-> ContractIssues(answer)
                + Cardinality({row \in ExtractRows(answer) : ~Parses(row)})]

\* Mutant: the subscription and the group are taken from the columns alone.
Admissible_ColumnsOnly(row, lane) ==
  /\ row.sub \in scope.subs
  /\ scope.groups /= {} => row.group \in scope.groups
  /\ row.id.type \in lane.types
  /\ scope.types /= {} => row.id.type \in scope.types

\* Mutant: the group is checked in the ARM id alone.
Admissible_NoGroupFilter(row, lane) ==
  /\ row.sub \in scope.subs /\ row.id.sub = row.sub
  /\ row.id.group = row.group
  /\ row.id.type \in lane.types
  /\ scope.types /= {} => row.id.type \in scope.types

\* Columns and ARM id agree with each other and with the effective scope.
Admissible(row, lane) ==
  /\ row.sub \in scope.subs /\ row.id.sub = row.sub
  /\ row.id.group = row.group
  /\ scope.groups /= {} => row.group \in scope.groups
  /\ row.id.type \in lane.types
  /\ scope.types /= {} => row.id.type \in scope.types

-----------------------------------------------------------------------------
(* Prices. *)

\* The entry for the region, or else the one without a region.
Lookup(sku, region) ==
  LET exact == {e \in RateCard : e.sku = sku /\ e.region = region}
      flat == {e \in RateCard : e.sku = sku /\ e.region = AnyRegion}
  IN IF exact /= {} THEN exact ELSE flat

EstimateWeeklyImpact(r) == {e.price : e \in Lookup(r.sku, r.region)}

Price(r) == CHOOSE p \in EstimateWeeklyImpact(r) : TRUE

Priced(resources) == {r \in resources : EstimateWeeklyImpact(r) /= {}}

\* Unavailable estimates are left out and counted.
RollUpLaneTotal(resources) ==
  [usd |-> MapThenSumSet(Price, Priced(resources)),
   available |-> Cardinality(Priced(resources)),
   unavailable |-> Cardinality(resources) - Cardinality(Priced(resources))]

-----------------------------------------------------------------------------
(* The lanes. *)

WasteInit ==
  /\ world \in SUBSET Resource
  /\ scope \in Scopes
  /\ results = <<>> /\ laneRecords = {} /\ failures = {}
  /\ status = "running"

Lane == Lanes[Len(results) + 1]

\* The run has a lane left to execute.
LaneIsDue ==
  /\ status = "running" /\ scope.type = "cost_summary"
  /\ Len(results) < Len(Lanes)

\* No raw answer: denied, or retries exhausted.
LaneFails ==
  /\ LaneIsDue
  /\ results' = Append(results, [lane |-> Lane, failed |-> TRUE, candidates |-> {},
                                 total |-> RollUpLaneTotal({}), unparsed |-> 0, rejected |-> 0])
  /\ failures' = failures \union {[lane |-> Lane.name, category |-> "transport"]}
  /\ UNCHANGED <<world, scope, laneRecords, status>>

Incomplete(result) == result.unparsed > 0 \/ result.rejected > 0

LaneResult(answer) ==
  LET parsed == ParseRows(answer)
      admitted == {row \in parsed.candidates : Admissible(row, Lane)}
      candidates == {row.id : row \in admitted}
  IN [lane |-> Lane, failed |-> FALSE, candidates |-> candidates,
      total |-> RollUpLaneTotal(candidates), unparsed |-> parsed.unparsed,
      rejected |-> Cardinality(parsed.candidates \ admitted)]

\* One record per candidate.
CandidateEvidence(result) ==
  {[lane |-> result.lane.name, kind |-> "candidate", of |-> {r}] : r \in result.candidates}

LaneSummaryEvidence(result) ==
  [lane |-> result.lane.name, kind |-> "lane_summary", of |-> result.candidates]

\* Mutant: a lane that lost rows is summed up all the same.
LaneEvidence_AlwaysSummed(result) ==
  CandidateEvidence(result)
  \union {s \in {LaneSummaryEvidence(result)} : result.candidates /= {}}

\* A complete lane that has candidates is summed up, too.
LaneEvidence(result) ==
  CandidateEvidence(result)
  \union {s \in {LaneSummaryEvidence(result)} : result.candidates /= {} /\ ~Incomplete(result)}

LaneAnswers(answer) ==
  LET result == LaneResult(answer)
  IN
  /\ LaneIsDue
  /\ results' = Append(results, result)
  /\ laneRecords' = laneRecords \union LaneEvidence(result)
  /\ failures' = failures \union
       (IF Incomplete(result) THEN {[lane |-> Lane.name, category |-> "schema_mismatch"]} ELSE {})
  /\ UNCHANGED <<world, scope, status>>

\* Mutant: only failed lanes count.
ContractIncomplete_FailedOnly == \E k \in DOMAIN results : results[k].failed

\* A lane that is not whole makes the run's evidence incomplete.
ContractIncomplete == \E k \in DOMAIN results : results[k].failed \/ Incomplete(results[k])

\* The pipeline goes on when every lane was tried, or none is to be.
Finish ==
  /\ status = "running"
  /\ scope.type /= "cost_summary" \/ Len(results) = Len(Lanes)
  /\ status' = IF ContractIncomplete THEN "incomplete" ELSE "complete"
  /\ UNCHANGED <<world, scope, results, laneRecords, failures>>

WasteNext == LaneFails \/ Finish \/ (LaneIsDue /\ \E answer \in RawAnswers(Lane) : LaneAnswers(answer))

WasteSpec == WasteInit /\ [][WasteNext]_wasteVars

-----------------------------------------------------------------------------
(* The report. Its Markdown and its HTML say the same of a lane; the verdict *)
(* is read from the one and the notes from the other.                        *)

\* Mutant: an empty lane is clean whatever was left out.
Verdict_EmptyIsClean(result) ==
  IF result.failed THEN "failed"
  ELSE IF result.candidates = {} THEN "no_match"
  ELSE IF Incomplete(result) THEN "lower_bound" ELSE "lane_total"

\* What the section says of a lane.
Verdict(result) ==
  IF result.failed THEN "failed"
  ELSE IF result.candidates = {}
       THEN IF Incomplete(result) THEN "enumeration_incomplete" ELSE "no_match"
  ELSE IF Incomplete(result) THEN "lower_bound" ELSE "lane_total"

Definitive == {"no_match", "lane_total"}

\* Mutant: rejected rows are mentioned only where there are candidates.
Notes_RejectedAfterTotal(result) ==
  {note \in {"unparsed", "rejected", "unpriced"} :
     CASE note = "unparsed" -> result.unparsed > 0
       [] note = "rejected" -> result.rejected > 0 /\ result.candidates /= {}
       [] OTHER -> result.total.unavailable > 0}

\* What it says was left out, of the lane and of its total. A failed lane has none.
Notes(result) ==
  {note \in {"unparsed", "rejected", "unpriced"} :
     CASE note = "unparsed" -> result.unparsed > 0
       [] note = "rejected" -> result.rejected > 0
       [] OTHER -> result.total.unavailable > 0}

-----------------------------------------------------------------------------
(* The inductive invariant. *)

LaneOutcome ==
  [lane : {Lanes[k] : k \in DOMAIN Lanes}, failed : BOOLEAN, candidates : SUBSET Resource,
   total : {RollUpLaneTotal(some) : some \in SUBSET Resource}, unparsed : Nat, rejected : Nat]

WasteTypeOK ==
  /\ world \in SUBSET Resource /\ scope \in Scopes
  /\ results \in Seq(LaneOutcome) /\ Len(results) <= Len(Lanes)
  /\ status \in {"running", "incomplete", "complete"}

Lossy(result) == result.failed \/ Incomplete(result)

\* A lane has seen only what matches, and all of it unless it lost a row; a
\* page of the matches may be counted as if it were all of them.
ResultsAreReal ==
  \A k \in DOMAIN results :
    /\ results[k].lane = Lanes[k]
    /\ results[k].candidates \subseteq Matches(Lanes[k])
    /\ results[k].total = RollUpLaneTotal(results[k].candidates)
    /\ results[k].failed => results[k].candidates = {} /\ ~Incomplete(results[k])
    /\ ~Paging /\ ~Lossy(results[k]) => results[k].candidates = Matches(Lanes[k])

\* Evidence, failures and the status are those of the lanes tried.
RecordsFollowResults ==
  /\ laneRecords = UNION {LaneEvidence(results[k]) : k \in DOMAIN results}
  /\ {f.lane : f \in failures} = {Lanes[k].name : k \in {j \in DOMAIN results : Lossy(results[j])}}
  /\ status = "complete" => ~ContractIncomplete

WasteInv == WasteTypeOK /\ ResultsAreReal /\ RecordsFollowResults

-----------------------------------------------------------------------------
(* Properties. *)

\* Where the report says that nothing matched, or gives a total, the lane has
\* seen every resource that matches and nothing else, whatever rows were lost,
\* garbled or added on the way (waste-detection.ts, "authoritative only for a
\* complete enumeration"); and where it calls a total a lower bound, it is one.
TotalsAreHonest ==
  \A k \in DOMAIN results :
    /\ Verdict(results[k]) \in Definitive => results[k].candidates = Matches(Lanes[k])
    /\ results[k].total.usd <= RollUpLaneTotal(Matches(Lanes[k])).usd

\* Every record the reasoner may cite stands for resources that exist, match the
\* predicate and lie in the effective scope, though columns and ids may disagree.
EvidenceIsInScope ==
  \A e \in laneRecords : \E k \in DOMAIN results :
    e.lane = Lanes[k].name /\ e.of /= {} /\ e.of \subseteq Matches(Lanes[k])

\* Status, failures, report and citable summaries agree: the pipeline goes on
\* with complete evidence only if no lane of it is hedged in the report, every
\* hedged lane has a failure and a note, and only the others have a summary.
LossesAreReported ==
  /\ status = "complete" =>
       \A k \in DOMAIN results : Verdict(results[k]) \in Definitive
  /\ \A k \in DOMAIN results :
       /\ (Verdict(results[k]) \in Definitive) <=> (\A f \in failures : f.lane /= Lanes[k].name)
       /\ Verdict(results[k]) \in {"lower_bound", "enumeration_incomplete"} <=>
            Notes(results[k]) \intersect {"unparsed", "rejected"} /= {}
       /\ (Verdict(results[k]) = "lane_total") <=>
            (\E e \in laneRecords : e.lane = Lanes[k].name /\ e.kind = "lane_summary")
=============================================================================
