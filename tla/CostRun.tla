------------------------------- MODULE CostRun -------------------------------
(***************************************************************************)
(* Runs of the analysis over one billing cache, from the command's dates   *)
(* to the status in run.json: settle the scope, serve what the cache has,  *)
(* execute the rest, assess the answers, write trustworthy months through, *)
(* quarantine the others, say which totals may still grow, classify the    *)
(* retrieval and derive the status.                                        *)
(*                                                                         *)
(* Runs are separate processes and interleave at every cache and server    *)
(* access. The cache is the register BillingCacheStore implements: a read  *)
(* may miss, a hit is a whole record written for the key. The executor is  *)
(* the ledger EvidenceExecutor implements: requests are resolved in order, *)
(* each with a result or a failure. Requests for other capabilities than   *)
(* cost and the subscription inventory have no part in this.               *)
(***************************************************************************)
EXTENDS ZeroAssessment, Integers

CONSTANTS
  Run,           \* processes
  Inputs,        \* what runs are asked for
  PlannerPlans,  \* plans the model may propose, besides the playbook's
  CostAnswers, InventoryAnswers,   \* what the server may answer
  Month,         \* the windows that are exactly one calendar month
  Offset,        \* stabilization_offset_days: from a month's end until it is stable
  Lag,           \* the time for which totals of a window may still grow
  Week,          \* the length of a window that is not given
  FirstTime, MaxTime,   \* bounds of the clock
  Omitted,       \* a date that is not given
  NoRecord

Date == Int \union {Omitted}

Input ==
  [type : {"cost_summary", "cost_surprise"}, subs : Seq(Sub),
   from : Date, to : Date, baseFrom : Date, baseTo : Date]

\* Windows are intervals. With the defaults, 5 days and 48 hours, a month is stable
\* only when it has settled; the configuration allows less.
ASSUME RunAssumption ==
  /\ Window \subseteq [from : Int, to : Int] /\ Month \subseteq Window /\ NoWindow \notin Window
  /\ Lag \in Nat /\ Offset \in Nat /\ Lag <= Offset /\ Week \in Nat \ {0}
  /\ FirstTime \in Nat /\ MaxTime \in Nat
  /\ Inputs \subseteq Input /\ PlannerPlans \subseteq Seq(Request)
  /\ \A input \in Inputs : input.subs /= <<>>
  /\ CostAnswers \subseteq Payload /\ InventoryAnswers \subseteq Counts

VARIABLES
  clock,
  cells,         \* the billing cache: a record per subscription and month
  run            \* the state of each run

vars == <<clock, cells, run>>

-----------------------------------------------------------------------------
(* Scopes. *)

Given(date, default) == IF date = Omitted THEN default ELSE date

\* The windows of a scope end now and take a week unless dates are given; the
\* baseline ends where the analysis begins, and only cost_surprise has one.
AnalysisWindow(input) ==
  LET to == Given(input.to, clock) IN [from |-> Given(input.from, to - Week), to |-> to]

BaselineWindow(input) ==
  LET to == Given(input.baseTo, AnalysisWindow(input).from)
  IN [from |-> Given(input.baseFrom, to - Week), to |-> to]

IntakeRejects(input) ==
  \/ AnalysisWindow(input).to <= AnalysisWindow(input).from
  \/ input.type = "cost_surprise" /\ BaselineWindow(input).to <= BaselineWindow(input).from

IntakeScope(input) ==
  [type |-> input.type, subs |-> input.subs, window |-> AnalysisWindow(input),
   baseline |-> IF input.type = "cost_surprise" THEN BaselineWindow(input) ELSE NoWindow]

-----------------------------------------------------------------------------
(* Plans. *)

InventoryRequest == [capability |-> "inventory", subs |-> {}, window |-> NoWindow]
CostRequest(sub, window) == [capability |-> "cost", subs |-> {sub}, window |-> window]

CostSummaryPlaybook(scope) ==
  <<InventoryRequest>> \o [k \in DOMAIN scope.subs |-> CostRequest(scope.subs[k], scope.window)]

\* The analysis window and the baseline of each subscription in turn.
CostSurprisePlaybook(scope) ==
  <<InventoryRequest>> \o
  [k \in 1..(2 * Len(scope.subs)) |->
     CostRequest(scope.subs[(k + 1) \div 2], IF k % 2 = 1 THEN scope.window ELSE scope.baseline)]

SelectPlaybook(scope) ==
  IF scope.type = "cost_summary" THEN CostSummaryPlaybook(scope) ELSE CostSurprisePlaybook(scope)

-----------------------------------------------------------------------------
(* Cells. *)

Cell == Sub \X Month

\* A record keeps the raw answer and its request; totals are read off the
\* answer. The raw evidence is all a later run has of it.
Record ==
  [request : Request, answer : Payload, at : Nat, validZero : BOOLEAN]

\* A month is usage-stable some days after its last.
Matured(month) == clock >= month.to + Offset

\* Mutant: the maturity of the month is not looked at.
Eligible_Immature(scope) == scope.type = "cost_summary" /\ scope.window \in Month

\* The scope's window decides, once, when the run starts.
Eligible(scope) ==
  scope.type = "cost_summary" /\ scope.window \in Month /\ Matured(scope.window)

\* The cells of a request: one, or none if it is not eligible.
CostCellFor(s, request) ==
  {cell \in Cell : s.eligible /\ request.capability = "cost" /\ request.subs = {cell[1]}
                   /\ cell[2] = s.scope.window}

\* What is written for a raw answer: nothing if it has no summary, has an entry
\* other than a valid zero, or is a zero that escaped the assessment.
BuildCacheRecord(batch, k) ==
  LET raw == batch[k]
      assessment == FindZeroAssessment(batch, k)
  IN IF \/ raw.answer.sum = "none"
        \/ assessment \notin {"no_entry", "valid_zero"}
        \/ raw.answer.sum = "zero" /\ assessment /= "valid_zero"
     THEN NoRecord
     ELSE [request |-> raw.request, answer |-> raw.answer, at |-> raw.at,
           validZero |-> assessment = "valid_zero"]

\* A zero is replayed together with the inventory that proved it.
ReplayBatch(sub, record) ==
  <<[request |-> record.request, answer |-> record.answer, at |-> record.at]>> \o
  (IF record.answer.sum = "zero" /\ record.validZero
   THEN <<[request |-> InventoryRequest,
           answer |-> [s \in Sub |-> IF s = sub THEN "zero" ELSE "none"], at |-> record.at]>>
   ELSE <<>>)

\* Mutant: the proof of a zero is not replayed.
IsCacheRecordAdmissible_NoProof(sub, record) ==
  /\ record.request.subs = {sub}
  /\ record.answer.sum /= "none"
  /\ FindZeroAssessment(<<[request |-> record.request, answer |-> record.answer,
                           at |-> record.at]>>, 1) = "no_entry"

\* A record is assessed anew when it is read.
IsCacheRecordAdmissible(sub, record) ==
  LET assessment == FindZeroAssessment(ReplayBatch(sub, record), 1)
  IN
  /\ record.request.subs = {sub}
  /\ record.answer.sum /= "none"
  /\ IF record.answer.sum = "zero"
     THEN record.validZero /\ "nonzero" \notin record.answer.parts /\ assessment = "valid_zero"
     ELSE assessment = "no_entry"

-----------------------------------------------------------------------------
(* Evidence, outcome and status. *)

\* The ids a cost record claims: those the payload returns, if any.
EvidenceIds(request, answer) ==
  IF answer.ids /= {} THEN answer.ids ELSE request.subs \X {"asked"}

LiveEvidence(s) ==
  {[request |-> raw.request, source |-> "live", ids |-> EvidenceIds(raw.request, raw.answer),
    answer |-> raw.answer] : raw \in {s.raw[k] : k \in {k \in DOMAIN s.raw : IsCost(s.raw[k])}}}

ServedEvidence(s) ==
  {[request |-> record.request, source |-> "cache",
    ids |-> EvidenceIds(record.request, record.answer), answer |-> record.answer] :
     record \in s.served}

\* Mutant: only what the assessment suspects is marked.
MarkQuarantined_SuspectedOnly(batch, records) ==
  {IF \E k \in Entries(batch) :
        batch[k].request = e.request /\ Assess(batch, k) = "cost_zero_suspected"
   THEN [e EXCEPT !.source = "quarantined"] ELSE e : e \in records}

MarkQuarantined(batch, records) ==
  {IF IsQuarantined(batch, e.request) THEN [e EXCEPT !.source = "quarantined"] ELSE e :
     e \in records}

Evidence(s) == MarkQuarantined(s.raw, LiveEvidence(s) \union ServedEvidence(s))

ScopeSubs(s) == {s.scope.subs[k] : k \in DOMAIN s.scope.subs}

\* Ids are compared letter by letter.
Covered(s) ==
  {sub \in ScopeSubs(s) :
     \E e \in Evidence(s) : e.source /= "quarantined" /\ <<sub, "asked">> \in e.ids}

QuarantineFindings(s) ==
  {k \in Entries(s.raw) : Assess(s.raw, k) /= "valid_zero"}

\* Mutant: calls that went over the wire only.
CostCalls_WireOnly(s) == {k \in DOMAIN s.remaining : s.remaining[k].capability = "cost"}

\* Every cost request leaves a transport entry, served or executed.
CostCalls(s) == {k \in DOMAIN s.plan : s.plan[k].capability = "cost"}

\* Mutant: quarantined evidence counts as coverage.
ClassifyCostRetrieval_CountsQuarantined(s) ==
  LET covered == {sub \in ScopeSubs(s) : \E e \in Evidence(s) : <<sub, "asked">> \in e.ids}
  IN CASE CostCalls(s) = {} -> "not_applicable"
       [] CostCalls(s) /= {} /\ covered = {} -> "failed"
       [] CostCalls(s) /= {} /\ covered = ScopeSubs(s) -> "success"
       [] OTHER -> "partial"

ClassifyCostRetrieval(s) ==
  IF CostCalls(s) = {} THEN "not_applicable"
  ELSE IF Covered(s) = {}
       THEN IF QuarantineFindings(s) /= {} THEN "partial" ELSE "failed"
  ELSE IF Covered(s) /= ScopeSubs(s) THEN "partial" ELSE "success"

\* Mutant: the quarantine is left out of the contract.
DeriveRunStatus_NoContract(s, wasteIncomplete, drops) ==
  IF ClassifyCostRetrieval(s) = "failed" THEN "failed_analysis"
  ELSE IF ClassifyCostRetrieval(s) = "partial" \/ wasteIncomplete \/ drops
       THEN "partial" ELSE "success"

\* What waste detection leaves incomplete and what the reasoner's output loses
\* in post-processing come from outside.
DeriveRunStatus(s, wasteIncomplete, drops) ==
  IF ClassifyCostRetrieval(s) = "failed" THEN "failed_analysis"
  ELSE IF \/ ClassifyCostRetrieval(s) = "partial"
          \/ QuarantineFindings(s) /= {} \/ wasteIncomplete
          \/ drops
       THEN "partial" ELSE "success"

\* The coverage of the report, computed a second time.
UnavailableIds(s) ==
  {sub \in ScopeSubs(s) \ Covered(s) : \E request \in s.failed : sub \in request.subs}

IsFullCoverage(s) == Cardinality(Covered(s)) = Len(s.scope.subs)

\* Mutant: a group speaks for its first record.
MergeScopeSubsets_First(records) == (CHOOSE e \in records : TRUE).ids

\* What a group of records is about.
MergeScopeSubsets(records) == UNION {e.ids : e \in records}

\* Live records whose windows ended a short time ago, or will end, a finding for
\* each end. What the cache served is settled.
CheckFreshness(s) ==
  LET fresh == {e \in Evidence(s) : e.source = "live" /\ clock - e.request.window.to < Lag}
      EndingAt(end) == {e \in fresh : e.request.window.to = end}
  IN {[end |-> end, ids |-> MergeScopeSubsets(EndingAt(end))] :
        end \in {e.request.window.to : e \in fresh}}

-----------------------------------------------------------------------------
(* Runs. *)

Idle == [at |-> "idle"]

Init ==
  /\ clock = FirstTime
  /\ cells = [cell \in Cell |-> NoRecord]
  /\ run = [r \in Run |-> Idle]

Continue(r, s) == run' = [run EXCEPT ![r] = s]

\* The dates make no windows: the run ends before it begins.
Reject(r) ==
  /\ run[r].at = "idle"
  /\ \E input \in Inputs : IntakeRejects(input)
  /\ Continue(r, [at |-> "rejected"])
  /\ UNCHANGED <<clock, cells>>

\* A run starts with a scope and the plan of the playbook or of the planner.
Start(r) ==
  /\ run[r].at = "idle"
  /\ \E input \in Inputs :
       LET scope == IntakeScope(input) IN
       /\ ~IntakeRejects(input)
       /\ \E plan \in {SelectPlaybook(scope)} \union PlannerPlans :
            Continue(r, [at |-> "serve", i |-> 1, scope |-> scope, plan |-> plan,
                         eligible |-> Eligible(scope), served |-> {}, remaining |-> <<>>,
                         raw |-> <<>>, failed |-> {}, status |-> "none",
                         until |-> FirstTime, fresh |-> {}])
  /\ UNCHANGED <<clock, cells>>

\* serveFromCache, one request: lifted out of the plan, or left in it.
ServeHit(r) ==
  LET s == run[r] IN
  /\ s.at = "serve" /\ s.i <= Len(s.plan)
  /\ \E cell \in CostCellFor(s, s.plan[s.i]) :
       /\ cells[cell] /= NoRecord
       /\ IsCacheRecordAdmissible(cell[1], cells[cell])
       /\ Continue(r, [s EXCEPT !.i = @ + 1, !.served = @ \union {cells[cell]}])
  /\ UNCHANGED <<clock, cells>>

\* Not eligible, or not admissible, or a miss: the store may always miss.
ServeLeft(r) ==
  LET s == run[r] IN
  /\ s.at = "serve" /\ s.i <= Len(s.plan)
  /\ Continue(r, [s EXCEPT !.i = @ + 1, !.remaining = Append(@, s.plan[s.i])])
  /\ UNCHANGED <<clock, cells>>

Served(r) ==
  LET s == run[r] IN
  /\ s.at = "serve" /\ s.i > Len(s.plan)
  /\ Continue(r, [s EXCEPT !.at = "execute", !.i = 1])
  /\ UNCHANGED <<clock, cells>>

\* The executor resolves the next request of the remaining plan.
Retrieve(r) ==
  LET s == run[r] IN
  /\ s.at = "execute" /\ s.i <= Len(s.remaining)
  /\ \E answer \in IF s.remaining[s.i].capability = "cost" THEN CostAnswers ELSE InventoryAnswers :
       Continue(r, [s EXCEPT !.i = @ + 1,
                      !.raw = Append(@, [request |-> s.remaining[s.i], answer |-> answer,
                                         at |-> clock])])
  /\ UNCHANGED <<clock, cells>>

RetrievalFails(r) ==
  LET s == run[r] IN
  /\ s.at = "execute" /\ s.i <= Len(s.remaining)
  /\ Continue(r, [s EXCEPT !.i = @ + 1, !.failed = @ \union {s.remaining[s.i]}])
  /\ UNCHANGED <<clock, cells>>

\* The batch is complete and is assessed as a whole.
Executed(r) ==
  LET s == run[r] IN
  /\ s.at = "execute" /\ s.i > Len(s.remaining)
  /\ Continue(r, [s EXCEPT !.at = "write", !.i = 1])
  /\ UNCHANGED <<clock, cells>>

\* writeThrough, one answer: set, unless there is nothing to set; a failing set
\* is not counted and changes nothing.
WriteThrough(r) ==
  LET s == run[r]
      record == BuildCacheRecord(s.raw, s.i)
  IN
  /\ s.at = "write" /\ s.i <= Len(s.raw)
  /\ Continue(r, [s EXCEPT !.i = @ + 1])
  /\ \/ \E cell \in CostCellFor(s, s.raw[s.i].request) :
          record /= NoRecord /\ cells' = [cells EXCEPT ![cell] = record]
     \/ UNCHANGED cells
  /\ UNCHANGED clock

\* From normalisation to run.json: nothing here is read by another run.
Conclude(r) ==
  LET s == run[r] IN
  /\ s.at = "write" /\ s.i > Len(s.raw)
  /\ \E wasteIncomplete, drops \in BOOLEAN :
       Continue(r, [s EXCEPT !.at = "done", !.until = clock, !.fresh = CheckFreshness(s),
                             !.status = DeriveRunStatus(s, wasteIncomplete, drops)])
  /\ UNCHANGED <<clock, cells>>

Tick == clock < MaxTime /\ clock' = clock + 1 /\ UNCHANGED <<cells, run>>

RunStep(r) ==
  \/ Start(r) \/ Reject(r) \/ ServeHit(r) \/ ServeLeft(r) \/ Served(r)
  \/ Retrieve(r) \/ RetrievalFails(r) \/ Executed(r)
  \/ WriteThrough(r) \/ Conclude(r)

Next == Tick \/ \E r \in Run : RunStep(r)

Spec == Init /\ [][Next]_vars

-----------------------------------------------------------------------------
(* Properties. *)

Done(r) == run[r].at = "done"

AsksForCost(requests) == \E k \in DOMAIN requests : requests[k].capability = "cost"

\* Nothing untrustworthy becomes durable: a record is written only for its own
\* subscription and month, from an answer that is sound in the batch it came with,
\* and retrieved after the month was stable. No order of runs, misses and failures
\* stores an error, a foreign scope or an unproved zero.
CellsAreEarned ==
  [][\A cell \in Cell : cells'[cell] /= cells[cell] =>
       \E r \in Run :
         /\ run[r].at = "write" /\ run[r].i \in DOMAIN run[r].raw
         /\ LET raw == run[r].raw[run[r].i] IN
            /\ cells'[cell].request = raw.request /\ cells'[cell].answer = raw.answer
            /\ raw.request.subs = {cell[1]} /\ raw.request.window = cell[2]
            /\ Sound(run[r].raw, run[r].i)
            /\ raw.at >= cell[2].to + Offset]_vars

\* What one run writes, the next one serves, also a proved zero: the checks on
\* reading accept everything the checks on writing let through; and a run that the
\* cache answers completely is as good as a live one.
CachedRunsSucceed ==
  /\ \A cell \in Cell : cells[cell] /= NoRecord => IsCacheRecordAdmissible(cell[1], cells[cell])
  /\ \A r \in Run :
       Done(r) /\ AsksForCost(run[r].plan) /\ ~AsksForCost(run[r].remaining) =>
       ClassifyCostRetrieval(run[r]) = "success"

\* The reasoner and the report's arithmetic get no answer that is not sound, fresh or
\* served: such an answer is there for provenance only. And they are told of every
\* total that may still grow when the run ends: it is of a window that has settled, or
\* a finding names its window and its subscriptions. What was served had settled
\* when it was retrieved.
EvidenceIsQualified ==
  \A r \in Run : Done(r) =>
    LET s == run[r] IN
    /\ \A k \in DOMAIN s.raw : IsCost(s.raw[k]) /\ ~Sound(s.raw, k) =>
         \A e \in Evidence(s) : e.request = s.raw[k].request => e.source = "quarantined"
    /\ \A record \in s.served :
         /\ \E sub \in Sub : Sound(ReplayBatch(sub, record), 1)
         /\ record.at >= record.request.window.to + Lag
    /\ \A e \in Evidence(s) :
         \/ e.source = "quarantined"
         \/ s.until >= e.request.window.to + Lag
         \/ \E f \in s.fresh : f.end = e.request.window.to /\ e.ids \subseteq f.ids

\* Sound cost evidence of a subscription, retrieved or served.
HasEvidence(s, sub) ==
  \/ \E k \in DOMAIN s.raw : AsksFor(s.raw[k], sub) /\ Sound(s.raw, k)
  \/ \E record \in s.served : record.request.subs = {sub}

\* The status says what was retrieved: success only with sound evidence of every
\* subscription and nothing in quarantine, failure only with none at all; and the
\* report's coverage, computed a second time, says the same: "the CLI, the report
\* renderer, and the run.json metadata all observe the same outcome".
StatusTellsTheTruth ==
  \A r \in Run : Done(r) /\ AsksForCost(run[r].plan) =>
    LET s == run[r] IN
    /\ s.status = "success" =>
         /\ \A sub \in ScopeSubs(s) : HasEvidence(s, sub)
         /\ \A k \in DOMAIN s.raw : IsCost(s.raw[k]) => Sound(s.raw, k)
    /\ s.status = "failed_analysis" => \A sub \in ScopeSubs(s) : ~HasEvidence(s, sub)
    /\ IsFullCoverage(s) <=> ClassifyCostRetrieval(s) = "success"
    /\ UnavailableIds(s) /= {} => s.status /= "success"

\* "success <- everything landed": no cost request of a successful run failed.
SuccessMeansEverythingLanded ==
  \A r \in Run : Done(r) /\ run[r].status = "success" =>
    \A request \in run[r].failed : request.capability /= "cost"

-----------------------------------------------------------------------------
(* The inductive invariant behind CellsAreEarned, for playbooks over scopes that *)
(* repeat no subscription.                                                       *)

TypeOK ==
  /\ clock \in Nat
  /\ DOMAIN cells = Cell /\ DOMAIN run = Run

Raw == [request : Request, answer : Counts \union Payload, at : Nat]

\* A run that may still write asks each thing once, about its month, and the month
\* was stable before it asked.
AsksOnce(s) ==
  /\ s.plan \in Seq(Request)
  /\ \A j, k \in DOMAIN s.plan : s.plan[j] = s.plan[k] => j = k
  /\ \A k \in DOMAIN s.plan : s.plan[k].capability = "cost" => s.plan[k].window = s.scope.window

RemainsOnce(s) ==
  /\ s.remaining \in Seq(Request)
  /\ \A k \in DOMAIN s.remaining : \E j \in DOMAIN s.plan :
       s.remaining[k] = s.plan[j] /\ (s.at = "serve" => j < s.i)
  /\ \A j, k \in DOMAIN s.remaining : s.remaining[j] = s.remaining[k] => j = k

AnsweredOnce(s) ==
  /\ s.raw \in Seq(Raw)
  /\ s.at = "serve" => s.raw = <<>>
  /\ \A k \in DOMAIN s.raw :
       /\ \E j \in DOMAIN s.remaining :
            s.raw[k].request = s.remaining[j] /\ (s.at = "execute" => j < s.i)
       /\ IsCost(s.raw[k]) => s.raw[k].answer \in Payload
       /\ s.raw[k].at >= s.scope.window.to + Offset
  /\ \A j, k \in DOMAIN s.raw : s.raw[j].request = s.raw[k].request => j = k

RunIsOrderly(s) ==
  s.at \in {"serve", "execute", "write"} =>
    /\ DOMAIN s = {"at", "i", "scope", "plan", "eligible", "served", "remaining", "raw", "failed",
                   "status", "until", "fresh"}
    /\ s.i \in Nat \ {0}
    /\ s.eligible =>
         /\ s.scope.window \in Month /\ Matured(s.scope.window)
         /\ AsksOnce(s) /\ RemainsOnce(s) /\ AnsweredOnce(s)

IInv == TypeOK /\ \A r \in Run : RunIsOrderly(run[r])

-----------------------------------------------------------------------------
(* The inductive invariant behind CachedRunsSucceed, EvidenceIsQualified and     *)
(* StatusTellsTheTruth: what each run has is accounted for.                      *)

\* A stored record would be served again: it is sound by itself, about a stable
\* month, and not from the future.
RecordIsGood(sub, record) ==
  /\ record.request.capability = "cost" /\ record.request.subs = {sub}
  /\ record.request.window \in Month /\ record.answer \in Payload
  /\ IsCacheRecordAdmissible(sub, record)
  /\ record.at \in Nat /\ record.at <= clock /\ record.at >= record.request.window.to + Offset

CellsAreGood ==
  \A cell \in Cell : cells[cell] /= NoRecord =>
    RecordIsGood(cell[1], cells[cell]) /\ cells[cell].request.window = cell[2]

\* A plan asks about each subscription of its scope, and only about one at a time.
PlanIsAboutScope(s) ==
  /\ s.scope.subs \in Seq(Sub) /\ s.scope.subs /= <<>>
  /\ \A j, k \in DOMAIN s.scope.subs : s.scope.subs[j] = s.scope.subs[k] => j = k
  /\ DOMAIN s.plan = 1..Len(s.plan) /\ Len(s.plan) \in Nat
  /\ \A k \in DOMAIN s.plan : s.plan[k].capability = "cost" =>
       /\ s.plan[k].window.to \in Int
       /\ \E sub \in ScopeSubs(s) : s.plan[k].subs = {sub}
  /\ \A sub \in ScopeSubs(s) : \E k \in DOMAIN s.plan :
       s.plan[k].capability = "cost" /\ s.plan[k].subs = {sub}

RangeOf(list) == {list[k] : k \in DOMAIN list}

\* A cost request is served, or left in the plan; answers are to what was left.
RequestsAreAccounted(s) ==
  /\ s.remaining \in Seq(RangeOf(s.plan))
  /\ \A k \in DOMAIN s.plan : s.plan[k].capability = "cost" /\ (s.at = "serve" => k < s.i) =>
       \/ s.plan[k] \in RangeOf(s.remaining)
       \/ \E record \in s.served : record.request.subs = s.plan[k].subs
  /\ \A record \in s.served : \E sub \in Sub : RecordIsGood(sub, record)
  /\ s.at = "serve" => s.raw = <<>>
  /\ s.raw \in Seq([request : RangeOf(s.remaining), answer : Counts \union Payload, at : Nat])
  /\ \A k \in DOMAIN s.raw :
       /\ IsCost(s.raw[k]) => s.raw[k].answer \in Payload
       /\ s.raw[k].at <= clock

GrowthIsTold(s) ==
  \A e \in Evidence(s) :
    \/ e.source = "quarantined"
    \/ s.until >= e.request.window.to + Lag
    \/ \E f \in s.fresh : f.end = e.request.window.to /\ e.ids \subseteq f.ids

RunIsAccounted(s) ==
  s.at \in {"serve", "execute", "write", "done"} =>
    /\ DOMAIN s = {"at", "i", "scope", "plan", "eligible", "served", "remaining", "raw", "failed",
                   "status", "until", "fresh"}
    /\ s.i \in Nat \ {0} /\ PlanIsAboutScope(s) /\ RequestsAreAccounted(s)
    /\ s.at = "done" =>
         /\ GrowthIsTold(s)
         /\ \E wasteIncomplete, drops \in BOOLEAN :
              s.status = DeriveRunStatus(s, wasteIncomplete, drops)

AccountInv == IInv /\ CellsAreGood /\ \A r \in Run : RunIsAccounted(run[r])
=============================================================================
