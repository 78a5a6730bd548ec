--------------------------- MODULE EvidenceExecutor ---------------------------
(***************************************************************************)
(* The evidence executor: walks an evidence plan one request at a time,    *)
(* retries transient failures with exponential backoff under a per-run     *)
(* budget, paces a capability after its first 429, and reports what        *)
(* happened as raw evidence, classified failures and one transport entry   *)
(* per request.                                                            *)
(*                                                                         *)
(* One behaviour is one call of execute(). The executor is the only actor, *)
(* so a step runs from one answer of the MCP server to the next; the only  *)
(* nondeterminism is the server's answers and the jitter. Time is the sum  *)
(* of the sleeps the executor performed.                                   *)
(***************************************************************************)
EXTENDS Integers, Sequences, FiniteSets, TransportRollup

CONSTANTS
  Capability,       \* the capabilities plans are made of
  Plans,            \* the plans a caller may submit: sequences of Capability
  ServerFailures,   \* the failure categories the server produces
  NoFailure,        \* the "undefined" of lastFailure
  \* RetryPolicy, in an arbitrary unit of time
  MaxAttempts, BaseDelay, MaxDelay, Jitter, TotalBudget, Pace, PacingBudget

FailureCategory ==
  {"auth", "authz_gap", "unsupported_capability", "rate_limit", "timeout",
   "schema_mismatch", "empty_result", "invalid_scope"}

RetriableCategory == {"rate_limit", "timeout"}

ASSUME PlanAssumption ==
  /\ Plans \subseteq Seq(Capability)
  /\ ServerFailures \subseteq FailureCategory
  /\ NoFailure \notin FailureCategory

ASSUME PolicyAssumption ==
  /\ MaxAttempts \in Nat \ {0}
  /\ BaseDelay \in Nat
  /\ MaxDelay \in Nat
  /\ Jitter \in Nat
  /\ TotalBudget \in Nat
  /\ Pace \in Nat
  /\ PacingBudget \in Nat

\* An arithmetic fact, stated because the provers do not know it of ^.
ASSUME DoublingAssumption ==
  \A retryIndex \in 0..MaxAttempts : 2^retryIndex \in Nat \ {0}

VARIABLES
  plan,             \* the submitted plan
  discovered,       \* whether MCPClient holds a discovered catalog
  pc,               \* "dispatch", "attempt", "settle", "done" or "threw"
  idx,              \* the request being served, 1-based
  rateLimitedCapabilities,
  runBackoff,       \* runBackoffSpentMs
  runPacing,        \* runPacingSpentMs
  pacing,           \* the current request was paced
  attempt,          \* attempts made for the current request
  attemptBackoff,   \* attemptBackoffMs
  success,          \* the current request has its result
  lastFailure,      \* category of the current request's latest failure
  observed,         \* observed_failure_categories of the current request
  raw_evidence,     \* positions of the requests whose results were kept
  failures,         \* <<capability, category>> of the failed requests
  transport_summary,
  calls             \* history: every call the server answered, with its time

request == <<pacing, attempt, attemptBackoff, success, lastFailure, observed>>
results == <<raw_evidence, failures, transport_summary>>
vars == <<plan, discovered, pc, idx, rateLimitedCapabilities, runBackoff,
          runPacing, request, results, calls>>

Outcome == FailureCategory \union {"success"}

-----------------------------------------------------------------------------
(* Policy arithmetic. *)

AtMost(x, cap) == IF x <= cap THEN x ELSE cap
NonNegative(x) == IF x < 0 THEN 0 ELSE x

\* What the jitter source returns: [0, jitterMs) on the grid of the model.
JitterValues == {j \in 0..Jitter : j = 0 \/ j < Jitter}

\* The cap covers the sum of the exponential part and the jitter.
ComputeBackoff(retryIndex, j) ==
  AtMost(BaseDelay * 2^retryIndex + AtMost(j, Jitter), MaxDelay)

\* Mutant: the backoff of earlier requests is not charged to the run.
RemainingBudget_PerRequest == NonNegative(TotalBudget - attemptBackoff)

RemainingBudget == NonNegative(TotalBudget - runBackoff - attemptBackoff)

\* Mutant: pacing draws on what the retry backoff left over.
PacingWait_SharedBudget(capability) ==
  IF capability \notin rateLimitedCapabilities \/ Pace = 0
  THEN 0
  ELSE AtMost(Pace, NonNegative(PacingBudget - runPacing - runBackoff))

\* A pacing budget of 0 means "no aggregate cap".
PacingWait(capability) ==
  IF capability \notin rateLimitedCapabilities \/ Pace = 0
  THEN 0
  ELSE AtMost(Pace, IF PacingBudget = 0
                    THEN Pace
                    ELSE NonNegative(PacingBudget - runPacing))

\* Virtual time: everything slept so far.
Clock == runPacing + runBackoff + attemptBackoff

\* Mutant: the category is not consulted.
WillRetry_AnyCategory(category) ==
  attempt + 1 < MaxAttempts /\ RemainingBudget > 0

WillRetry(category) ==
  /\ category \in RetriableCategory
  /\ attempt + 1 < MaxAttempts
  /\ RemainingBudget > 0

\* Mutant: the category is written where the bucket belongs.
FinalOutcome_Unbucketed(category) == category

FinalOutcome(category) ==
  CASE category \in {"rate_limit", "timeout"} -> category
    [] category = "schema_mismatch" -> "transport"
    [] OTHER -> "other"

-----------------------------------------------------------------------------
Init ==
  /\ plan \in Plans
  /\ discovered \in BOOLEAN
  /\ pc = "dispatch"
  /\ idx = 1
  /\ rateLimitedCapabilities = {}
  /\ runBackoff = 0
  /\ runPacing = 0
  /\ pacing = FALSE
  /\ attempt = 0
  /\ attemptBackoff = 0
  /\ success = FALSE
  /\ lastFailure = NoFailure
  /\ observed = {}
  /\ raw_evidence = <<>>
  /\ failures = <<>>
  /\ transport_summary = <<>>
  /\ calls = <<>>

\* The head of the plan loop: pace, then reset the per-request state.
BeginRequest ==
  /\ pc = "dispatch"
  /\ idx <= Len(plan)
  /\ runPacing' = runPacing + PacingWait(plan[idx])
  /\ pacing' = (PacingWait(plan[idx]) > 0)
  /\ attempt' = 0
  /\ attemptBackoff' = 0
  /\ success' = FALSE
  /\ lastFailure' = NoFailure
  /\ observed' = {}
  /\ pc' = "attempt"
  /\ UNCHANGED <<plan, discovered, idx, rateLimitedCapabilities, runBackoff,
                 results, calls>>

\* The server answers the next attempt of the current request.
Answered(outcome) ==
  /\ pc = "attempt"
  /\ discovered
  /\ attempt < MaxAttempts
  /\ attempt' = attempt + 1
  /\ calls' = Append(calls, [request |-> idx, outcome |-> outcome, at |-> Clock])
  /\ UNCHANGED <<plan, discovered, idx, runBackoff, runPacing, pacing, results>>

AttemptSucceeds ==
  /\ Answered("success")
  /\ success' = TRUE
  /\ lastFailure' = NoFailure
  /\ pc' = "settle"
  /\ UNCHANGED <<rateLimitedCapabilities, attemptBackoff, observed>>

\* The catch block up to its decision: thrown, isError and payload-embedded
\* failures all arrive here with their category.
AttemptFails(category) ==
  /\ Answered(category)
  /\ lastFailure' = category
  /\ observed' = observed \union {category}
  /\ rateLimitedCapabilities' =
       IF category = "rate_limit"
       THEN rateLimitedCapabilities \union {plan[idx]}
       ELSE rateLimitedCapabilities
  /\ UNCHANGED success

RetryAfterBackoff(category, j) ==
  /\ AttemptFails(category)
  /\ WillRetry(category)
  /\ attemptBackoff' = attemptBackoff
                       + AtMost(ComputeBackoff(attempt, j), RemainingBudget)
  /\ pc' = "attempt"

GiveUp(category) ==
  /\ AttemptFails(category)
  /\ ~WillRetry(category)
  /\ pc' = "settle"
  /\ UNCHANGED attemptBackoff

\* Mutant: the error is swallowed and the attempt repeated.
InvokeBeforeDiscovery_Swallowed ==
  pc = "attempt" /\ ~discovered /\ UNCHANGED vars

\* DiscoveryNotPerformedError is re-thrown and escapes execute().
InvokeBeforeDiscovery ==
  /\ pc = "attempt"
  /\ ~discovered
  /\ attempt < MaxAttempts
  /\ attempt' = attempt + 1
  /\ pc' = "threw"
  /\ UNCHANGED <<plan, discovered, idx, rateLimitedCapabilities, runBackoff,
                 runPacing, pacing, attemptBackoff, success, lastFailure,
                 observed, results, calls>>

-----------------------------------------------------------------------------
(* After the retry loop: account for the request and move on. *)

\* Mutant: a recovered request forgets what it recovered from.
Entry_ForgetsRecovered ==
  [request |-> idx,
   capability |-> plan[idx],
   attempt_count |-> attempt,
   final_outcome |-> IF success THEN "success" ELSE FinalOutcome(lastFailure),
   failure_category |-> lastFailure,
   observed |-> IF success THEN {} ELSE observed \ {lastFailure},
   pacing_applied |-> pacing,
   backoff |-> attemptBackoff]

\* A success keeps every category it recovered from; a failure keeps those
\* that differ from its final one.
Entry ==
  [request |-> idx,
   capability |-> plan[idx],
   attempt_count |-> attempt,
   final_outcome |-> IF success THEN "success" ELSE FinalOutcome(lastFailure),
   failure_category |-> lastFailure,
   observed |-> observed \ {lastFailure},
   pacing_applied |-> pacing,
   backoff |-> attemptBackoff]

SettleRequest ==
  /\ pc = "settle"
  /\ runBackoff' = runBackoff + attemptBackoff
  /\ attemptBackoff' = 0
  /\ transport_summary' = Append(transport_summary, Entry)
  /\ idx' = idx + 1
  /\ pc' = "dispatch"
  /\ UNCHANGED <<plan, discovered, rateLimitedCapabilities, runPacing, pacing,
                 attempt, success, lastFailure, observed, calls>>

RecordEvidence ==
  /\ success
  /\ SettleRequest
  /\ raw_evidence' = Append(raw_evidence, idx)
  /\ UNCHANGED failures

\* Mutant: the transport entry is written, the failure is lost.
RecordFailure_NotPushed == ~success /\ SettleRequest /\ UNCHANGED <<failures, raw_evidence>>

RecordFailure ==
  /\ ~success
  /\ SettleRequest
  /\ failures' = Append(failures, <<plan[idx], lastFailure>>)
  /\ UNCHANGED raw_evidence

ReturnResult ==
  /\ pc = "dispatch"
  /\ idx > Len(plan)
  /\ pc' = "done"
  /\ UNCHANGED <<plan, discovered, idx, rateLimitedCapabilities, runBackoff,
                 runPacing, request, results, calls>>

Terminated == pc \in {"done", "threw"} /\ UNCHANGED vars

Step ==
  \/ BeginRequest
  \/ AttemptSucceeds
  \/ \E category \in ServerFailures :
       \/ GiveUp(category)
       \/ \E j \in JitterValues : RetryAfterBackoff(category, j)
  \/ InvokeBeforeDiscovery
  \/ RecordEvidence
  \/ RecordFailure
  \/ ReturnResult

Next == Step \/ Terminated

SafeSpec == Init /\ [][Next]_vars

\* Fairness: every call of the server is answered (the SDK's timeout rejects
\* an unanswered one, and the rejection is an answer here) and every sleep
\* ends, so the loop keeps moving.
Spec == SafeSpec /\ WF_vars(Step)

-----------------------------------------------------------------------------
(* Properties. *)

Call == [request : Nat, outcome : Outcome, at : Nat]

TransportEntry ==
  [request : Nat, capability : Capability, attempt_count : Nat,
   final_outcome : {"success", "rate_limit", "timeout", "transport", "other"},
   failure_category : FailureCategory \union {NoFailure},
   observed : SUBSET FailureCategory,
   pacing_applied : BOOLEAN, backoff : Nat]

\* Types of the executor's locals and of the three lists it returns.
TypeOK ==
  /\ plan \in Plans
  /\ discovered \in BOOLEAN
  /\ pc \in {"dispatch", "attempt", "settle", "done", "threw"}
  /\ idx \in 1..(Len(plan) + 1)
  /\ rateLimitedCapabilities \subseteq Capability
  /\ runBackoff \in Nat
  /\ runPacing \in Nat
  /\ pacing \in BOOLEAN
  /\ attempt \in 0..MaxAttempts
  /\ attemptBackoff \in Nat
  /\ success \in BOOLEAN
  /\ lastFailure \in FailureCategory \union {NoFailure}
  /\ observed \subseteq FailureCategory
  /\ raw_evidence \in Seq(Nat)
  /\ failures \in Seq(Capability \X FailureCategory)
  /\ transport_summary \in Seq(TransportEntry)
  /\ calls \in Seq(Call)

\* The two sleep budgets are ceilings of the whole run, also while a retry
\* tail is in progress and whatever the jitter: the last sleep is cut to what
\* is left, and neither budget can be spent by the other kind of sleep.
BudgetsHold ==
  /\ runBackoff + attemptBackoff <= TotalBudget
  /\ PacingBudget > 0 => runPacing <= PacingBudget

\* The server sees the requests in plan order, a request again only after a
\* rate limit or a timeout, never after a success or a permanent refusal.
RetriesAreJustified ==
  \A n \in 1..(Len(calls) - 1) :
    \/ calls[n + 1].request = calls[n].request + 1
    \/ /\ calls[n + 1].request = calls[n].request
       /\ calls[n].outcome \in RetriableCategory

\* Once a capability answered 429, no later call of it follows the previous
\* call without a sleep in between, until the pacing budget is spent: back-
\* pressure also covers the requests after the throttled one.
Backpressure ==
  (Pace > 0 /\ BaseDelay > 0 /\ MaxDelay > 0) =>
    \A n \in 2..Len(calls) :
      (\E m \in 1..(n - 1) :
         /\ calls[m].outcome = "rate_limit"
         /\ plan[calls[m].request] = plan[calls[n].request])
      => \/ calls[n].at > calls[n - 1].at
         \/ PacingBudget > 0 /\ runPacing = PacingBudget

CallsOf(k) == {n \in DOMAIN calls : calls[n].request = k}
Happened(k, outcome) == \E n \in CallsOf(k) : calls[n].outcome = outcome

\* A transport entry tells the truth about its request: a category appears in
\* it exactly if some attempt ended that way, also one that was recovered
\* from (the run's rate_limit_seen rests on this), and it says success
\* exactly if the last call the server answered succeeded.
EntriesMatchCalls ==
  \A k \in 1..Len(transport_summary) :
    LET e == transport_summary[k] IN
    /\ e.request = k
    /\ \A c \in FailureCategory :
         (c \in e.observed \/ c = e.failure_category) <=> Happened(k, c)
    /\ (e.final_outcome = "success") <=> Happened(k, "success")

\* What the history store indexes is what the server saw: attempts are the
\* calls it answered, backoff is the time really slept, a 429 is reported
\* exactly if one happened, and the outcome counts the requests that never
\* succeeded.
RollupMatchesServer ==
  pc = "done" =>
    LET rollup == RollupTransportSummary(transport_summary)
        lost == {k \in DOMAIN plan :
                   \A n \in CallsOf(k) : calls[n].outcome /= "success"}
        healed == {k \in DOMAIN plan \ lost : Cardinality(CallsOf(k)) > 1}
    IN
    /\ rollup.total_calls = Len(plan)
    /\ rollup.total_attempts = Len(calls)
    /\ rollup.retry_count = Len(calls) - Len(plan)
    /\ rollup.cumulative_backoff = Clock - runPacing
    /\ rollup.recovered_count = Cardinality(healed)
    /\ rollup.rate_limit_seen
         <=> \E n \in DOMAIN calls : calls[n].outcome = "rate_limit"
    /\ RunOutcome(rollup) =
         CASE plan = <<>> -> "none"
           [] lost = {} -> "success"
           [] lost = DOMAIN plan -> "exhausted"
           [] OTHER -> "partial"

\* What makes the properties above inductive: where the loop stands, and how
\* the per-request state relates to the calls already answered.
ControlInv ==
  /\ pc \in {"attempt", "settle"} => idx <= Len(plan)
  /\ pc = "attempt" => ~success
  /\ pc = "settle" => (success <=> lastFailure = NoFailure)
  /\ Len(transport_summary) = idx - 1

HistoryInv ==
  /\ \A n \in DOMAIN calls : calls[n].request \in 1..idx
  /\ pc \in {"dispatch", "done"} => \A n \in DOMAIN calls : calls[n].request < idx
  /\ pc \in {"attempt", "settle"} =>
       /\ \A c \in FailureCategory : c \in observed <=> Happened(idx, c)
       /\ success <=> Happened(idx, "success")
       /\ lastFailure /= NoFailure => lastFailure \in observed

LastCallInv ==
  \A n \in DOMAIN calls : n = Len(calls) =>
    /\ pc \in {"dispatch", "done"} => calls[n].request = idx - 1
    /\ pc = "settle" => calls[n].request = idx
    /\ pc = "attempt" => \/ calls[n].request = idx - 1
                         \/ /\ calls[n].request = idx
                            /\ calls[n].outcome \in RetriableCategory

IInv ==
  /\ TypeOK
  /\ ControlInv
  /\ BudgetsHold
  /\ HistoryInv
  /\ LastCallInv
  /\ RetriesAreJustified
  /\ EntriesMatchCalls

\* What makes Backpressure inductive: the executor remembers who answered 429, and
\* before the next call of a throttled capability it has slept, or may no longer.
BackpressureInv ==
  /\ pc = "dispatch" => attemptBackoff = 0
  /\ (Pace > 0 /\ BaseDelay > 0 /\ MaxDelay > 0) =>
       /\ \A n \in DOMAIN calls :
            /\ calls[n].at <= Clock
            /\ calls[n].outcome = "rate_limit" => plan[calls[n].request] \in rateLimitedCapabilities
       /\ pc = "attempt" /\ plan[idx] \in rateLimitedCapabilities =>
            \A n \in DOMAIN calls : n = Len(calls) =>
              \/ calls[n].at < Clock
              \/ PacingBudget > 0 /\ runPacing = PacingBudget

\* What makes RollupMatchesServer inductive: an entry counts the calls of its own
\* request, and the running totals are those of the entries written so far.
RollupInv ==
  /\ \A k \in 1..Len(transport_summary) :
       LET e == transport_summary[k] IN
       /\ e.attempt_count = Cardinality(CallsOf(k))
       /\ e.final_outcome = "rate_limit" => e.failure_category = "rate_limit"
  /\ pc \in {"attempt", "settle"} => attempt = Cardinality(CallsOf(idx))
  /\ pc \in {"dispatch", "done"} => TotalOf(Attempts(transport_summary)) = Len(calls)
  /\ pc \in {"attempt", "settle"} =>
       TotalOf(Attempts(transport_summary)) + attempt = Len(calls)
  /\ TotalOf(Retries(transport_summary))
       = TotalOf(Attempts(transport_summary)) - Len(transport_summary)
  /\ TotalOf(Backoffs(transport_summary)) = runBackoff
  /\ pc \in {"dispatch", "done"} => attemptBackoff = 0
  /\ pc = "done" => idx > Len(plan)

\* The executor keeps the promise of RequestLedger.
VerdictOf(e) == IF e.final_outcome = "success" THEN "evidence" ELSE "failure"

Ledger == INSTANCE RequestLedger WITH
  ledger <- [k \in 1..Len(transport_summary) |-> VerdictOf(transport_summary[k])],
  evidence <- raw_evidence,
  failed <- Len(failures),
  status <- CASE pc = "done" -> "complete"
              [] pc = "threw" -> "aborted"
              [] OTHER -> "open"

ImplementsLedger == Ledger!Spec

\* Every run ends: with a result if the client had discovered its catalog.
RunEnds ==
  /\ discovered ~> (pc = "done")
  /\ ~discovered ~> (pc \in {"done", "threw"})
=============================================================================
