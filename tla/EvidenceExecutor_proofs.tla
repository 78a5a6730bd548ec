----------------------- MODULE EvidenceExecutor_proofs -----------------------
(***************************************************************************)
(* Proofs about EvidenceExecutor for every plan and every retry policy.    *)
(***************************************************************************)
EXTENDS EvidenceExecutor, FiniteSetTheorems, TLAPS

\* The delay before a retry is a natural number of time units.
LEMMA BackoffIsNat ==
  ASSUME NEW retryIndex \in 0..MaxAttempts, NEW j \in JitterValues
  PROVE  ComputeBackoff(retryIndex, j) \in Nat
<1>1. 2^retryIndex \in Nat
  BY DoublingAssumption
<1>2. BaseDelay * 2^retryIndex \in Nat
  BY <1>1, PolicyAssumption
<1>3. AtMost(j, Jitter) \in Nat
  BY PolicyAssumption DEF JitterValues, AtMost
<1> QED
  BY <1>2, <1>3, PolicyAssumption DEF ComputeBackoff, AtMost

\* What is left of the backoff budget is never more than the budget leaves.
LEMMA RemainingBudgetFits ==
  ASSUME runBackoff \in Nat, attemptBackoff \in Nat,
         runBackoff + attemptBackoff <= TotalBudget
  PROVE  /\ RemainingBudget \in Nat
         /\ runBackoff + attemptBackoff + RemainingBudget <= TotalBudget
BY PolicyAssumption DEF RemainingBudget, NonNegative

\* A pace is a natural number, and fits the pacing budget if there is one.
LEMMA PacingWaitFits ==
  ASSUME runPacing \in Nat, NEW capability,
         PacingBudget > 0 => runPacing <= PacingBudget
  PROVE  /\ PacingWait(capability) \in Nat
         /\ PacingBudget > 0 =>
              runPacing + PacingWait(capability) <= PacingBudget
BY PolicyAssumption DEF PacingWait, AtMost, NonNegative

\* The entry of a settled request is well typed.
LEMMA EntryType ==
  ASSUME TypeOK, ControlInv, pc = "settle"
  PROVE  Entry \in TransportEntry
<1>1. idx \in Nat /\ idx \in DOMAIN plan /\ plan[idx] \in Capability
  BY PlanAssumption DEF TypeOK, ControlInv
<1>2. ~success => lastFailure \in FailureCategory
  BY DEF TypeOK, ControlInv
<1>3. (IF success THEN "success" ELSE FinalOutcome(lastFailure)) \in
        {"success", "rate_limit", "timeout", "transport", "other"}
  BY <1>2 DEF FinalOutcome
<1>4. observed \ {lastFailure} \in SUBSET FailureCategory
  BY DEF TypeOK
<1>5. /\ attempt \in Nat
      /\ lastFailure \in FailureCategory \union {NoFailure}
      /\ pacing \in BOOLEAN
      /\ attemptBackoff \in Nat
  BY PolicyAssumption DEF TypeOK
<1> QED
  BY <1>1, <1>3, <1>4, <1>5 DEF Entry, TransportEntry

-----------------------------------------------------------------------------
(* Type correctness, together with the control state it needs. *)

TypeInv == TypeOK /\ ControlInv /\ BudgetsHold

\* Initially the types, the control state and the budgets are right.
LEMMA InitTypeInv == Init => TypeInv
<1> SUFFICES ASSUME Init PROVE TypeInv
  OBVIOUS
<1>1. Len(plan) \in Nat
  BY PlanAssumption DEF Init
<1>2. TypeOK
  <2>1. /\ raw_evidence \in Seq(Nat)
        /\ failures \in Seq(Capability \X FailureCategory)
        /\ transport_summary \in Seq(TransportEntry)
        /\ calls \in Seq(Call)
    BY DEF Init
  <2>2. attempt \in 0..MaxAttempts /\ idx \in 1..(Len(plan) + 1)
    BY <1>1, PolicyAssumption DEF Init
  <2> QED
    BY <2>1, <2>2 DEF Init, TypeOK
<1>3. ControlInv
  BY <1>1 DEF Init, ControlInv
<1>4. BudgetsHold
  BY PolicyAssumption DEF Init, BudgetsHold
<1> QED
  BY <1>2, <1>3, <1>4 DEF TypeInv

\* Every step keeps the types, the control state and the two budgets.
LEMMA NextTypeInv == TypeInv /\ [Next]_vars => TypeInv'
<1> SUFFICES ASSUME TypeInv, [Next]_vars PROVE TypeInv'
  OBVIOUS
<1> USE PlanAssumption, PolicyAssumption
<1>0. /\ Len(plan) \in Nat /\ plan \in Seq(Capability) /\ idx \in Nat
      /\ Clock \in Nat
      /\ "success" \in Outcome
  BY DEF TypeInv, TypeOK, Clock, Outcome
<1>1. CASE BeginRequest
  <2>1. /\ PacingWait(plan[idx]) \in Nat
        /\ PacingBudget > 0 => runPacing' <= PacingBudget
    BY <1>1, PacingWaitFits DEF BeginRequest, TypeInv, TypeOK, BudgetsHold
  <2>2. runPacing' \in Nat /\ 0 \in 0..MaxAttempts
    BY <1>1, <2>1 DEF BeginRequest, TypeInv, TypeOK
  <2>3. pacing' \in BOOLEAN
    BY <1>1 DEF BeginRequest
  <2>4. TypeOK'
    BY <1>1, <2>2, <2>3 DEF BeginRequest, TypeInv, TypeOK, results
  <2> QED
    BY <1>1, <2>1, <2>4
    DEF BeginRequest, TypeInv, TypeOK, ControlInv, BudgetsHold, results
<1>2. CASE AttemptSucceeds
  <2>1. [request |-> idx, outcome |-> "success", at |-> Clock] \in Call
    BY <1>0 DEF Call
  <2>2. TypeOK'
    BY <1>2, <2>1
    DEF AttemptSucceeds, Answered, TypeInv, TypeOK, results
  <2> QED
    BY <1>2, <2>2
    DEF AttemptSucceeds, Answered, TypeInv, TypeOK, ControlInv, BudgetsHold,
        results
<1>3. ASSUME NEW category \in ServerFailures, AttemptFails(category),
             pc' \in {"attempt", "settle"},
             attemptBackoff' \in Nat,
             runBackoff + attemptBackoff' <= TotalBudget
      PROVE  TypeInv'
  <2>1. category \in FailureCategory /\ category \in Outcome /\ category # NoFailure
    BY DEF Outcome
  <2>2. [request |-> idx, outcome |-> category, at |-> Clock] \in Call
    BY <1>0, <2>1 DEF Call
  <2>3. idx \in DOMAIN plan /\ plan[idx] \in Capability
    BY <1>0, <1>3 DEF AttemptFails, Answered, TypeInv, ControlInv, TypeOK
  <2>4. TypeOK'
    BY <1>3, <2>1, <2>2, <2>3
    DEF AttemptFails, Answered, TypeInv, TypeOK, results
  <2> QED
    BY <1>3, <2>1, <2>4
    DEF AttemptFails, Answered, TypeInv, TypeOK, ControlInv, BudgetsHold,
        results
<1>4. ASSUME NEW category \in ServerFailures, GiveUp(category)
      PROVE  TypeInv'
  BY <1>3, <1>4 DEF GiveUp, TypeInv, TypeOK, BudgetsHold
<1>5. ASSUME NEW category \in ServerFailures, NEW j \in JitterValues,
             RetryAfterBackoff(category, j)
      PROVE  TypeInv'
  <2>1. attempt \in 0..MaxAttempts
    BY DEF TypeInv, TypeOK
  <2>2. ComputeBackoff(attempt, j) \in Nat
    BY <2>1, BackoffIsNat
  <2>3. /\ RemainingBudget \in Nat
        /\ runBackoff + attemptBackoff + RemainingBudget <= TotalBudget
    BY RemainingBudgetFits DEF TypeInv, TypeOK, BudgetsHold
  <2>4. /\ AtMost(ComputeBackoff(attempt, j), RemainingBudget) \in Nat
        /\ AtMost(ComputeBackoff(attempt, j), RemainingBudget)
             <= RemainingBudget
    BY <2>2, <2>3 DEF AtMost
  <2>5. attemptBackoff' =
          attemptBackoff + AtMost(ComputeBackoff(attempt, j), RemainingBudget)
    BY <1>5 DEF RetryAfterBackoff
  <2>6. /\ attemptBackoff' \in Nat
        /\ runBackoff + attemptBackoff' <= TotalBudget
    BY <2>3, <2>4, <2>5 DEF TypeInv, TypeOK
  <2> QED
    BY <1>3, <1>5, <2>6 DEF RetryAfterBackoff
<1>6. CASE InvokeBeforeDiscovery
  <2>1. attempt' \in 0..MaxAttempts
    BY <1>6 DEF InvokeBeforeDiscovery, TypeInv, TypeOK, ControlInv
  <2> QED
    BY <1>6, <2>1
    DEF InvokeBeforeDiscovery, TypeInv, TypeOK, ControlInv, BudgetsHold,
        results
<1>7. ASSUME SettleRequest,
             raw_evidence' \in Seq(Nat),
             failures' \in Seq(Capability \X FailureCategory)
      PROVE  TypeInv'
  <2>1. Entry \in TransportEntry
    BY <1>7, EntryType DEF SettleRequest, TypeInv
  <2>2. idx \in 1..Len(plan)
    BY <1>7 DEF SettleRequest, TypeInv, TypeOK, ControlInv
  <2>3. transport_summary' \in Seq(TransportEntry) /\ runBackoff' \in Nat
    BY <1>7, <2>1 DEF SettleRequest, TypeInv, TypeOK
  <2>4. idx' \in 1..(Len(plan') + 1) /\ attemptBackoff' \in Nat
    BY <1>7, <2>2 DEF SettleRequest
  <2>5. TypeOK'
    BY <1>7, <2>3, <2>4 DEF SettleRequest, TypeInv, TypeOK
  <2> QED
    BY <1>7, <2>1, <2>2, <2>5
    DEF SettleRequest, TypeInv, TypeOK, ControlInv, BudgetsHold
<1>8. CASE RecordEvidence
  BY <1>0, <1>7, <1>8 DEF RecordEvidence, TypeInv, TypeOK
<1>9. CASE RecordFailure
  <2>1. lastFailure \in FailureCategory
    BY <1>9 DEF RecordFailure, SettleRequest, TypeInv, TypeOK, ControlInv
  <2>2. idx \in DOMAIN plan /\ plan[idx] \in Capability
    BY <1>0, <1>9 DEF RecordFailure, SettleRequest, TypeInv, TypeOK, ControlInv
  <2>3. <<plan[idx], lastFailure>> \in Capability \X FailureCategory
    BY <2>1, <2>2
  <2>4. failures' \in Seq(Capability \X FailureCategory)
    BY <1>9, <2>3 DEF RecordFailure, TypeInv, TypeOK
  <2> QED
    BY <1>7, <1>9, <2>4 DEF RecordFailure, TypeInv, TypeOK
<1>10. CASE ReturnResult
  BY <1>10
  DEF ReturnResult, TypeInv, TypeOK, ControlInv, BudgetsHold, request, results
<1>11. CASE UNCHANGED vars
  BY <1>11
  DEF vars, TypeInv, TypeOK, ControlInv, BudgetsHold, request, results
<1> QED
  BY <1>1, <1>2, <1>4, <1>5, <1>6, <1>8, <1>9, <1>10, <1>11
  DEF Next, Step, Terminated

\* The executor's state is well typed in every reachable state.
THEOREM TypeCorrect == SafeSpec => []TypeOK
<1>1. TypeInv => TypeOK
  BY DEF TypeInv
<1> QED
  BY <1>1, InitTypeInv, NextTypeInv, PTL DEF SafeSpec

\* Retry backoff and pacing never exceed their run-wide budgets.
THEOREM SleepBudgetsHold == SafeSpec => []BudgetsHold
<1>1. TypeInv => BudgetsHold
  BY DEF TypeInv
<1> QED
  BY <1>1, InitTypeInv, NextTypeInv, PTL DEF SafeSpec

-----------------------------------------------------------------------------
(* What the transport entries say about the calls the server answered. *)

HistInv == HistoryInv /\ LastCallInv /\ RetriesAreJustified /\ EntriesMatchCalls

\* An answered attempt adds one call, of the current request, to the history.
LEMMA AnsweredAppends ==
  ASSUME TypeInv, NEW outcome \in Outcome, Answered(outcome)
  PROVE  /\ Len(calls) \in Nat /\ DOMAIN calls = 1..Len(calls)
         /\ Len(calls') = Len(calls) + 1
         /\ DOMAIN calls' = 1..(Len(calls) + 1)
         /\ \A n \in DOMAIN calls : calls'[n] = calls[n]
         /\ calls'[Len(calls) + 1].request = idx
         /\ calls'[Len(calls) + 1].outcome = outcome
<1>1. calls \in Seq(Call)
  BY DEF TypeInv, TypeOK
<1>2. calls' = Append(calls, [request |-> idx, outcome |-> outcome, at |-> Clock])
  BY DEF Answered
<1> QED
  BY <1>1, <1>2

\* So exactly one outcome is new, and it is new for the current request only.
LEMMA AnsweredHappens ==
  ASSUME TypeInv, NEW outcome \in Outcome, Answered(outcome)
  PROVE  \A k, o : Happened(k, o)' <=> \/ Happened(k, o)
                                       \/ k = idx /\ o = outcome
<1>1. ASSUME NEW k, NEW o, Happened(k, o)
      PROVE  Happened(k, o)'
  BY <1>1, AnsweredAppends DEF Happened, CallsOf
<1>2. ASSUME NEW k, NEW o, k = idx, o = outcome
      PROVE  Happened(k, o)'
  BY <1>2, AnsweredAppends DEF Happened, CallsOf
<1>3. ASSUME NEW k, NEW o, Happened(k, o)', ~(k = idx /\ o = outcome)
      PROVE  Happened(k, o)
  BY <1>3, AnsweredAppends DEF Happened, CallsOf
<1> QED
  BY <1>1, <1>2, <1>3

\* A step that leaves the history alone leaves what happened alone.
LEMMA SameHistory ==
  ASSUME UNCHANGED calls
  PROVE  \A k, o : Happened(k, o)' <=> Happened(k, o)
BY DEF Happened, CallsOf

\* No call has been made yet for a request beyond the current one.
LEMMA NothingAhead ==
  ASSUME TypeInv, HistoryInv, pc \in {"dispatch", "done"}
  PROVE  \A o : ~Happened(idx, o)
BY DEF HistoryInv, Happened, CallsOf, TypeInv, TypeOK

\* Initially no call was made and no entry written.
LEMMA InitHistInv == Init => HistInv
BY PlanAssumption
DEF Init, HistInv, HistoryInv, LastCallInv, RetriesAreJustified,
    EntriesMatchCalls

\* An answered attempt keeps the history's shape and the settled entries.
LEMMA AnsweredKeepsHistory ==
  ASSUME TypeInv, HistInv, NEW outcome \in Outcome, Answered(outcome)
  PROVE  /\ \A n \in DOMAIN calls' : calls'[n].request \in 1..idx
         /\ RetriesAreJustified'
         /\ EntriesMatchCalls'
<1>1. \A n \in DOMAIN calls' : calls'[n].request \in 1..idx
  <2>1. \A n \in DOMAIN calls : calls[n].request \in 1..idx
    BY DEF HistInv, HistoryInv
  <2>2. idx \in 1..idx
    BY DEF TypeInv, TypeOK
  <2>3. \A n \in DOMAIN calls' : n \in DOMAIN calls \/ n = Len(calls) + 1
    BY AnsweredAppends
  <2> QED
    BY <2>1, <2>2, <2>3, AnsweredAppends
<1>2. RetriesAreJustified'
  <2> SUFFICES ASSUME NEW n \in 1..Len(calls)
               PROVE  \/ calls'[n + 1].request = calls'[n].request + 1
                      \/ /\ calls'[n + 1].request = calls'[n].request
                         /\ calls'[n].outcome \in RetriableCategory
    BY AnsweredAppends DEF RetriesAreJustified
  <2>1. CASE n < Len(calls)
    BY <2>1, AnsweredAppends DEF HistInv, RetriesAreJustified
  <2>2. CASE n = Len(calls)
    <3>1. n \in DOMAIN calls /\ idx \in Nat
      BY <2>2, AnsweredAppends DEF TypeInv, TypeOK
    <3>2. calls[n].request \in 1..idx
      BY <3>1 DEF HistInv, HistoryInv
    <3>3. \/ calls[n].request = idx - 1
          \/ calls[n].request = idx /\ calls[n].outcome \in RetriableCategory
      BY <2>2, <3>1 DEF HistInv, LastCallInv, Answered
    <3> QED
      BY <2>2, <3>1, <3>2, <3>3, AnsweredAppends
  <2> QED
    BY <2>1, <2>2, AnsweredAppends
<1>3. EntriesMatchCalls'
  <2>1. transport_summary' = transport_summary
    BY DEF Answered, results
  <2>2. \A k \in 1..Len(transport_summary) : k # idx
    BY DEF TypeInv, TypeOK, ControlInv
  <2>3. \A k \in 1..Len(transport_summary) : \A o :
          Happened(k, o)' <=> Happened(k, o)
    BY <2>2, AnsweredHappens
  <2> QED
    BY <2>1, <2>3 DEF HistInv, EntriesMatchCalls
<1> QED
  BY <1>1, <1>2, <1>3

\* A failed attempt adds its category to the request's observed categories.
LEMMA FailureKeepsHistory ==
  ASSUME TypeInv, HistInv,
         NEW category \in ServerFailures, AttemptFails(category),
         pc' = "attempt" => category \in RetriableCategory,
         pc' \in {"attempt", "settle"}
  PROVE  HistInv'
<1>1. /\ category \in FailureCategory /\ category \in Outcome
      /\ category # "success"
  BY PlanAssumption DEF Outcome, FailureCategory
<1>2. Answered(category) /\ idx' = idx
  BY DEF AttemptFails, Answered
<1>3. HistoryInv'
  <2>1. \A n \in DOMAIN calls' : calls'[n].request \in 1..idx'
    BY <1>1, <1>2, AnsweredKeepsHistory
  <2>2. \A k, o : Happened(k, o)' <=> Happened(k, o) \/ (k = idx /\ o = category)
    BY <1>1, <1>2, AnsweredHappens
  <2>3. observed' = observed \union {category} /\ lastFailure' = category
    BY DEF AttemptFails
  <2>4. \A c \in FailureCategory : c \in observed <=> Happened(idx, c)
    BY <1>2 DEF HistInv, HistoryInv, Answered
  <2>5. \A c \in FailureCategory : c \in observed' <=> Happened(idx, c)'
    BY <1>2, <2>2, <2>3, <2>4
  <2>6. success' <=> Happened(idx, "success")'
    <3>1. success <=> Happened(idx, "success")
      BY <1>2 DEF HistInv, HistoryInv, Answered
    <3>2. Happened(idx, "success")' <=> Happened(idx, "success")
      BY <1>1, <1>2, <2>2
    <3>3. success' = success
      BY DEF AttemptFails
    <3> QED
      BY <3>1, <3>2, <3>3
  <2> QED
    BY <1>2, <2>1, <2>3, <2>5, <2>6 DEF HistoryInv
<1>4. LastCallInv'
  BY <1>1, <1>2, AnsweredAppends DEF LastCallInv
<1> QED
  BY <1>1, <1>2, <1>3, <1>4, AnsweredKeepsHistory DEF HistInv

\* Settling a request writes an entry that agrees with its calls.
LEMMA SettleKeepsHistory ==
  ASSUME TypeInv, HistInv, SettleRequest
  PROVE  HistInv'
<1> DEFINE last == Len(transport_summary) + 1
<1>1. /\ pc = "settle" /\ pc' = "dispatch" /\ idx' = idx + 1
      /\ calls' = calls
      /\ transport_summary' = Append(transport_summary, Entry)
  BY DEF SettleRequest
<1>2. /\ idx \in Nat /\ last = idx
      /\ transport_summary \in Seq(TransportEntry)
      /\ calls \in Seq(Call)
  BY DEF TypeInv, TypeOK, ControlInv
<1>3. HistoryInv' /\ LastCallInv' /\ RetriesAreJustified'
  BY <1>1, <1>2 DEF HistInv, HistoryInv, LastCallInv, RetriesAreJustified
<1>4. /\ Len(transport_summary') = last
      /\ transport_summary'[last] = Entry
      /\ \A k \in 1..Len(transport_summary) :
           transport_summary'[k] = transport_summary[k]
  BY <1>1, <1>2
<1>5. \A k, o : Happened(k, o)' <=> Happened(k, o)
  BY <1>1, SameHistory
<1>6. /\ Entry.request = idx
      /\ Entry.observed = observed \ {lastFailure}
      /\ Entry.failure_category = lastFailure
      /\ Entry.final_outcome = IF success THEN "success"
                               ELSE FinalOutcome(lastFailure)
  BY DEF Entry
<1>7. /\ \A c \in FailureCategory : c \in observed <=> Happened(idx, c)
      /\ lastFailure # NoFailure => lastFailure \in observed
      /\ success <=> Happened(idx, "success")
  BY <1>1 DEF HistInv, HistoryInv
<1>8. \A c \in FailureCategory :
        (c \in Entry.observed \/ c = Entry.failure_category) <=> Happened(idx, c)
  BY <1>6, <1>7, PlanAssumption
<1>9. (Entry.final_outcome = "success") <=> Happened(idx, "success")
  <2>1. CASE success
    BY <2>1, <1>6, <1>7
  <2>2. CASE ~success
    <3>1. FinalOutcome(lastFailure) # "success"
      BY <2>2, <1>1 DEF FinalOutcome, TypeInv, TypeOK, ControlInv
    <3> QED
      BY <2>2, <3>1, <1>6, <1>7
  <2> QED
    BY <2>1, <2>2
<1>10. EntriesMatchCalls'
  <2> SUFFICES ASSUME NEW k \in 1..last
               PROVE  LET e == transport_summary'[k] IN
                      /\ e.request = k
                      /\ \A c \in FailureCategory :
                           (c \in e.observed \/ c = e.failure_category)
                             <=> Happened(k, c)
                      /\ (e.final_outcome = "success")
                           <=> Happened(k, "success")
    BY <1>4, <1>5 DEF EntriesMatchCalls
  <2>1. CASE k = last
    BY <2>1, <1>2, <1>4, <1>6, <1>8, <1>9
  <2>2. CASE k # last
    <3>1. k \in 1..Len(transport_summary)
      BY <2>2, <1>2
    <3> QED
      BY <3>1, <1>4 DEF HistInv, EntriesMatchCalls
  <2> QED
    BY <2>1, <2>2
<1> QED
  BY <1>3, <1>10 DEF HistInv

\* Every step keeps the entries in agreement with the history.
LEMMA NextHistInv == TypeInv /\ HistInv /\ [Next]_vars => HistInv'
<1> SUFFICES ASSUME TypeInv, HistInv, [Next]_vars PROVE HistInv'
  OBVIOUS
<1>1. CASE BeginRequest
  <2>1. /\ pc = "dispatch" /\ pc' = "attempt" /\ idx' = idx
        /\ calls' = calls /\ transport_summary' = transport_summary
        /\ observed' = {} /\ success' = FALSE /\ lastFailure' = NoFailure
    BY <1>1 DEF BeginRequest, results
  <2>2. \A o : ~Happened(idx, o)
    BY <2>1, NothingAhead DEF HistInv
  <2>3. \A k, o : Happened(k, o)' <=> Happened(k, o)
    BY <2>1, SameHistory
  <2>4. HistoryInv'
    <3>1. \A c \in FailureCategory : c \in observed' <=> Happened(idx, c)'
      BY <2>1, <2>2, <2>3
    <3>2. success' <=> Happened(idx, "success")'
      BY <2>1, <2>2, <2>3
    <3> QED
      BY <2>1, <3>1, <3>2 DEF HistInv, HistoryInv
  <2>5. LastCallInv' /\ RetriesAreJustified'
    BY <2>1 DEF HistInv, LastCallInv, RetriesAreJustified
  <2>6. EntriesMatchCalls'
    BY <2>1, <2>3 DEF HistInv, EntriesMatchCalls
  <2> QED
    BY <2>4, <2>5, <2>6 DEF HistInv
<1>2. CASE AttemptSucceeds
  <2>1. /\ Answered("success") /\ "success" \in Outcome
        /\ "success" \notin FailureCategory
        /\ pc = "attempt" /\ pc' = "settle" /\ idx' = idx
        /\ success' = TRUE /\ lastFailure' = NoFailure /\ observed' = observed
    BY <1>2 DEF AttemptSucceeds, Answered, Outcome, FailureCategory
  <2>2. \A k, o : Happened(k, o)' <=> Happened(k, o) \/ (k = idx /\ o = "success")
    BY <2>1, AnsweredHappens
  <2>3. HistoryInv'
    <3>1. \A c \in FailureCategory : c \in observed' <=> Happened(idx, c)'
      BY <2>1, <2>2 DEF HistInv, HistoryInv
    <3>2. success' <=> Happened(idx, "success")'
      BY <2>1, <2>2
    <3> QED
      BY <2>1, <3>1, <3>2, AnsweredKeepsHistory DEF HistoryInv
  <2>4. LastCallInv'
    BY <2>1, AnsweredAppends DEF LastCallInv
  <2> QED
    BY <2>1, <2>3, <2>4, AnsweredKeepsHistory DEF HistInv
<1>3. ASSUME NEW category \in ServerFailures, GiveUp(category)
      PROVE  HistInv'
  BY <1>3, FailureKeepsHistory DEF GiveUp
<1>4. ASSUME NEW category \in ServerFailures, NEW j \in JitterValues,
             RetryAfterBackoff(category, j)
      PROVE  HistInv'
  BY <1>4, FailureKeepsHistory DEF RetryAfterBackoff, WillRetry
<1>5. CASE InvokeBeforeDiscovery
  <2>1. /\ pc' = "threw" /\ idx' = idx /\ calls' = calls
        /\ transport_summary' = transport_summary
    BY <1>5 DEF InvokeBeforeDiscovery, results
  <2>2. \A k, o : Happened(k, o)' <=> Happened(k, o)
    BY <2>1, SameHistory
  <2> QED
    BY <2>1, <2>2
    DEF HistInv, HistoryInv, LastCallInv, RetriesAreJustified,
        EntriesMatchCalls
<1>6. CASE RecordEvidence
  BY <1>6, SettleKeepsHistory DEF RecordEvidence
<1>7. CASE RecordFailure
  BY <1>7, SettleKeepsHistory DEF RecordFailure
<1>8. CASE ReturnResult
  <2>1. /\ pc = "dispatch" /\ pc' = "done" /\ idx' = idx /\ calls' = calls
        /\ transport_summary' = transport_summary
    BY <1>8 DEF ReturnResult, results
  <2>2. \A k, o : Happened(k, o)' <=> Happened(k, o)
    BY <2>1, SameHistory
  <2> QED
    BY <2>1, <2>2
    DEF HistInv, HistoryInv, LastCallInv, RetriesAreJustified,
        EntriesMatchCalls
<1>9. CASE UNCHANGED vars
  <2>1. /\ pc' = pc /\ idx' = idx /\ calls' = calls
        /\ transport_summary' = transport_summary
        /\ observed' = observed /\ success' = success
        /\ lastFailure' = lastFailure
    BY <1>9 DEF vars, results, request
  <2>2. \A k, o : Happened(k, o)' <=> Happened(k, o)
    BY <2>1, SameHistory
  <2>3. HistoryInv'
    BY <2>1, <2>2 DEF HistInv, HistoryInv
  <2> QED
    BY <2>1, <2>2, <2>3
    DEF HistInv, LastCallInv, RetriesAreJustified, EntriesMatchCalls
<1> QED
  BY <1>1, <1>2, <1>3, <1>4, <1>5, <1>6, <1>7, <1>8, <1>9
  DEF Next, Step, Terminated

\* The two invariants together, the basis of the theorems below.
LEMMA Invariance == SafeSpec => [](TypeInv /\ HistInv)
BY InitTypeInv, NextTypeInv, InitHistInv, NextHistInv, PTL DEF SafeSpec

\* A request is repeated only after a rate limit or a timeout, and requests
\* reach the server in plan order.
THEOREM RetriesJustified == SafeSpec => []RetriesAreJustified
<1>1. TypeInv /\ HistInv => RetriesAreJustified
  BY DEF HistInv
<1> QED
  BY <1>1, Invariance, PTL

\* The transport entries say exactly what the server answered.
THEOREM EntriesAreTrue == SafeSpec => []EntriesMatchCalls
<1>1. TypeInv /\ HistInv => EntriesMatchCalls
  BY DEF HistInv
<1> QED
  BY <1>1, Invariance, PTL

-----------------------------------------------------------------------------
(* The executor implements RequestLedger (its safety part). *)

LedgerOf(entries) == [k \in 1..Len(entries) |-> VerdictOf(entries[k])]

StatusOf(place) ==
  CASE place = "done" -> "complete"
    [] place = "threw" -> "aborted"
    [] OTHER -> "open"

\* Settling a request appends its verdict to the ledger.
LEMMA LedgerAppends ==
  ASSUME NEW entries \in Seq(TransportEntry), NEW e \in TransportEntry
  PROVE  /\ LedgerOf(entries) \in Seq(Ledger!Verdict)
         /\ Len(LedgerOf(entries)) = Len(entries)
         /\ LedgerOf(Append(entries, e)) = Append(LedgerOf(entries), VerdictOf(e))
<1>1. /\ \A k \in 1..Len(entries) : VerdictOf(entries[k]) \in Ledger!Verdict
      /\ Len(entries) \in Nat
  BY DEF VerdictOf, Ledger!Verdict
<1>2. /\ LedgerOf(entries) \in Seq(Ledger!Verdict)
      /\ Len(LedgerOf(entries)) = Len(entries)
      /\ \A k \in 1..Len(entries) : LedgerOf(entries)[k] = VerdictOf(entries[k])
  BY <1>1 DEF LedgerOf
<1>3. VerdictOf(e) \in Ledger!Verdict
  BY DEF VerdictOf, Ledger!Verdict
<1> DEFINE grown == Append(entries, e)
           left == LedgerOf(grown)
           right == Append(LedgerOf(entries), VerdictOf(e))
<1>4. /\ Len(grown) = Len(entries) + 1
      /\ \A k \in 1..Len(entries) : grown[k] = entries[k]
      /\ grown[Len(entries) + 1] = e
  OBVIOUS
<1>5. /\ right \in Seq(Ledger!Verdict)
      /\ DOMAIN right = 1..(Len(entries) + 1)
      /\ \A k \in 1..Len(entries) : right[k] = VerdictOf(entries[k])
      /\ right[Len(entries) + 1] = VerdictOf(e)
  BY <1>2, <1>3
<1>6. /\ DOMAIN left = 1..(Len(entries) + 1)
      /\ \A k \in 1..(Len(entries) + 1) : left[k] = VerdictOf(grown[k])
      /\ left = [k \in DOMAIN left |-> left[k]]
  BY <1>4 DEF LedgerOf
<1>7. right = [k \in DOMAIN right |-> right[k]]
  <2> HIDE DEF right
  <2> QED
    BY <1>5
<1>8. ASSUME NEW k \in 1..(Len(entries) + 1)
      PROVE  left[k] = right[k]
  <2>1. CASE k = Len(entries) + 1
    BY <2>1, <1>4, <1>5, <1>6
  <2>2. CASE k # Len(entries) + 1
    <3>1. k \in 1..Len(entries)
      BY <2>2, <1>1
    <3> QED
      BY <3>1, <1>4, <1>5, <1>6
  <2> QED
    BY <2>1, <2>2
<1>9. left = right
  <2> HIDE DEF left, right
  <2> QED
    BY <1>5, <1>6, <1>7, <1>8
<1> QED
  BY <1>2, <1>9

\* Initial states of the executor are initial states of the ledger.
LEMMA InitLedger == Init => Ledger!Init
<1> SUFFICES ASSUME Init PROVE Ledger!Init
  OBVIOUS
<1>1. [k \in 1..Len(transport_summary) |-> VerdictOf(transport_summary[k])] = <<>>
  BY DEF Init
<1> QED
  BY <1>1 DEF Init, Ledger!Init

\* A settled request is resolved in the ledger.
LEMMA SettleResolves ==
  ASSUME TypeInv, RecordEvidence \/ RecordFailure
  PROVE  \E verdict \in Ledger!Verdict : Ledger!Resolve(verdict)
<1>1. SettleRequest
  BY DEF RecordEvidence, RecordFailure
<1>2. /\ pc = "settle" /\ pc' = "dispatch" /\ plan' = plan
      /\ transport_summary' = Append(transport_summary, Entry)
  BY <1>1 DEF SettleRequest
<1>3. /\ transport_summary \in Seq(TransportEntry) /\ Entry \in TransportEntry
      /\ idx = Len(transport_summary) + 1 /\ idx <= Len(plan)
      /\ Len(plan) \in Nat
  BY <1>2, EntryType, PlanAssumption DEF TypeInv, TypeOK, ControlInv
<1> DEFINE before == LedgerOf(transport_summary)
           after == LedgerOf(Append(transport_summary, Entry))
<1>4. /\ Len(before) = Len(transport_summary)
      /\ after = Append(before, VerdictOf(Entry))
  BY <1>3, LedgerAppends
<1>5. VerdictOf(Entry) = IF success THEN "evidence" ELSE "failure"
  <2>1. ~success => FinalOutcome(lastFailure) # "success"
    BY <1>2 DEF FinalOutcome
  <2>2. Entry.final_outcome = IF success THEN "success" ELSE FinalOutcome(lastFailure)
    BY DEF Entry
  <2> QED
    BY <2>1, <2>2 DEF VerdictOf
<1>6. ASSUME RecordEvidence PROVE Ledger!Resolve("evidence")
  <2>1. /\ raw_evidence' = Append(raw_evidence, Len(before) + 1)
        /\ failures' = failures /\ VerdictOf(Entry) = "evidence"
    BY <1>3, <1>4, <1>5, <1>6 DEF RecordEvidence
  <2> QED
    BY <1>2, <1>3, <1>4, <2>1 DEF Ledger!Resolve, LedgerOf
<1>7. ASSUME RecordFailure PROVE Ledger!Resolve("failure")
  <2>1. failures \in Seq(Capability \X FailureCategory)
    BY DEF TypeInv, TypeOK
  <2>2. failures' = Append(failures, <<plan[idx], lastFailure>>)
    BY <1>7 DEF RecordFailure
  <2>3. Len(failures') = Len(failures) + 1
    BY <2>1, <2>2
  <2>4. raw_evidence' = raw_evidence /\ VerdictOf(Entry) = "failure"
    BY <1>5, <1>7 DEF RecordFailure
  <2> QED
    BY <1>2, <1>3, <1>4, <2>3, <2>4 DEF Ledger!Resolve, LedgerOf
<1> QED
  BY <1>6, <1>7 DEF Ledger!Verdict

\* Every step of the executor is a step of the ledger or a stutter.
LEMMA NextLedger == TypeInv /\ [Next]_vars => [Ledger!Next]_(Ledger!vars)
<1> SUFFICES ASSUME TypeInv, [Next]_vars
             PROVE  [Ledger!Next]_(Ledger!vars)
  OBVIOUS
<1> USE DEF Ledger!vars
<1>1. ASSUME plan' = plan, transport_summary' = transport_summary,
             raw_evidence' = raw_evidence, failures' = failures,
             StatusOf(pc') = StatusOf(pc)
      PROVE  UNCHANGED Ledger!vars
  BY <1>1 DEF StatusOf
<1>2. CASE BeginRequest
  BY <1>1, <1>2 DEF BeginRequest, results, StatusOf
<1>3. CASE AttemptSucceeds
  BY <1>1, <1>3 DEF AttemptSucceeds, Answered, results, StatusOf
<1>4. ASSUME NEW category \in ServerFailures, GiveUp(category)
      PROVE  UNCHANGED Ledger!vars
  BY <1>1, <1>4 DEF GiveUp, AttemptFails, Answered, results, StatusOf
<1>5. ASSUME NEW category \in ServerFailures, NEW j \in JitterValues,
             RetryAfterBackoff(category, j)
      PROVE  UNCHANGED Ledger!vars
  BY <1>1, <1>5 DEF RetryAfterBackoff, AttemptFails, Answered, results, StatusOf
<1>6. ASSUME InvokeBeforeDiscovery PROVE Ledger!Abort
  BY <1>6 DEF InvokeBeforeDiscovery, results, Ledger!Abort
<1>7. ASSUME RecordEvidence \/ RecordFailure
      PROVE  \E verdict \in Ledger!Verdict : Ledger!Resolve(verdict)
  BY <1>7, SettleResolves
<1>8. ASSUME ReturnResult PROVE Ledger!Complete
  <2>1. Len(transport_summary) = Len(plan) /\ Len(plan) \in Nat
    BY <1>8, PlanAssumption DEF ReturnResult, TypeInv, TypeOK, ControlInv
  <2>2. Len(LedgerOf(transport_summary)) = Len(plan)
    BY <2>1 DEF LedgerOf
  <2> QED
    BY <1>8, <2>2 DEF ReturnResult, results, Ledger!Complete, LedgerOf
<1>9. CASE UNCHANGED vars
  BY <1>1, <1>9 DEF vars, results, StatusOf
<1> QED
  BY <1>2, <1>3, <1>4, <1>5, <1>6, <1>7, <1>8, <1>9
  DEF Next, Step, Terminated, Ledger!Next

\* The executor implements the ledger: every request resolved once, in plan
\* order, the returned lists in agreement, and all of it or nothing.
THEOREM ExecutorImplementsLedger == SafeSpec => Ledger!SafeSpec
BY InitTypeInv, NextTypeInv, InitLedger, NextLedger, PTL
DEF SafeSpec, Ledger!SafeSpec

-----------------------------------------------------------------------------
(* What a capability that answered 429 is spared. *)

Throttles == Pace > 0 /\ BaseDelay > 0 /\ MaxDelay > 0
PacingSpent == PacingBudget > 0 /\ runPacing = PacingBudget
ThrottleInv == BackpressureInv /\ Backpressure

\* Times and sleeps are naturals.
LEMMA TimeIsNat ==
  ASSUME TypeInv
  PROVE  /\ Clock \in Nat /\ \A n \in DOMAIN calls : calls[n].at \in Nat
         /\ runPacing \in Nat /\ PacingBudget \in Nat
         /\ PacingBudget > 0 => runPacing <= PacingBudget
<1>1. calls \in Seq(Call)
  BY DEF TypeInv, TypeOK
<1>2. \A n \in DOMAIN calls : calls[n].at \in Nat
  <2>1. \A c \in Call : c.at \in Nat
    BY DEF Call
  <2>2. QED
    BY <1>1, <2>1
<1> QED
  BY <1>2, PolicyAssumption DEF Clock, TypeInv, TypeOK, BudgetsHold

\* Also after a step.
LEMMA TimeStaysNat == TypeInv' => Clock' \in Nat
<1>1. TypeInv' => runPacing' \in Nat /\ runBackoff' \in Nat /\ attemptBackoff' \in Nat
  BY DEF TypeInv, TypeOK
<1> QED
  BY <1>1 DEF Clock

\* Steps without a call: time goes on, and no pacing budget comes back.
LEMMA SilentStepKeepsThrottle ==
  ASSUME TypeInv, TypeInv', ThrottleInv, plan' = plan, calls' = calls, Clock' >= Clock,
         runPacing' >= runPacing, rateLimitedCapabilities' = rateLimitedCapabilities,
         pc' = "attempt" /\ plan'[idx'] \in rateLimitedCapabilities =>
           \A n \in DOMAIN calls : n = Len(calls) => \/ Throttles => calls[n].at < Clock'
                                                    \/ PacingSpent',
         pc' = "dispatch" => attemptBackoff' = 0
  PROVE  ThrottleInv'
<1>1. Clock' \in Nat /\ Clock \in Nat /\ \A n \in DOMAIN calls : calls[n].at \in Nat
  BY TimeStaysNat, TimeIsNat
<1>2. PacingSpent => PacingSpent'
  <2>1. /\ runPacing \in Nat /\ PacingBudget \in Nat /\ runPacing' \in Nat
        /\ PacingBudget > 0 => runPacing' <= PacingBudget
    BY TimeIsNat DEF TypeInv, TypeOK, BudgetsHold
  <2> QED
    BY <2>1 DEF PacingSpent
<1>3. BackpressureInv'
  <2> SUFFICES ASSUME Throttles
               PROVE  /\ \A n \in DOMAIN calls :
                           /\ calls[n].at <= Clock'
                           /\ calls[n].outcome = "rate_limit" =>
                                plan[calls[n].request] \in rateLimitedCapabilities
                      /\ pc' = "attempt" /\ plan[idx'] \in rateLimitedCapabilities =>
                           \A n \in DOMAIN calls : n = Len(calls) =>
                             calls[n].at < Clock' \/ PacingSpent'
    BY DEF BackpressureInv, Throttles, PacingSpent
  <2>1. \A n \in DOMAIN calls :
          /\ calls[n].at <= Clock
          /\ calls[n].outcome = "rate_limit" => plan[calls[n].request] \in rateLimitedCapabilities
    BY DEF ThrottleInv, BackpressureInv, Throttles
  <2> QED
    BY <1>1, <2>1
<1>4. Backpressure'
  BY <1>2 DEF ThrottleInv, Backpressure, PacingSpent
<1> QED
  BY <1>3, <1>4 DEF ThrottleInv

\* A call: if its capability has answered 429, there was a sleep before it, or there
\* is no pacing left.
LEMMA CallKeepsThrottle ==
  ASSUME TypeInv, TypeInv', HistInv, ThrottleInv, NEW outcome \in Outcome, Answered(outcome),
         outcome = "rate_limit" => plan[idx] \in rateLimitedCapabilities',
         rateLimitedCapabilities \subseteq rateLimitedCapabilities', Clock' >= Clock,
         pc' \in {"attempt", "settle"}, pc' = "attempt" => (Throttles => Clock' > Clock)
  PROVE  ThrottleInv'
<1> DEFINE len == Len(calls)
           new == len + 1
<1>1. /\ pc = "attempt" /\ plan' = plan /\ idx' = idx /\ runPacing' = runPacing
      /\ Clock' \in Nat /\ Clock \in Nat /\ len \in Nat /\ DOMAIN calls = 1..len
      /\ \A n \in DOMAIN calls : calls[n].at \in Nat
  <2>1. pc = "attempt" /\ plan' = plan /\ idx' = idx /\ runPacing' = runPacing
    BY DEF Answered
  <2>2. Clock' \in Nat
    BY TimeStaysNat
  <2>3. Clock \in Nat /\ \A n \in DOMAIN calls : calls[n].at \in Nat
    BY TimeIsNat
  <2>4. len \in Nat /\ DOMAIN calls = 1..len
    BY DEF TypeInv, TypeOK
  <2> QED
    BY <2>1, <2>2, <2>3, <2>4
<1>2. /\ Len(calls') = new /\ DOMAIN calls' = 1..new
      /\ \A n \in 1..len : calls'[n] = calls[n]
      /\ calls'[new].request = idx /\ calls'[new].outcome = outcome
  BY <1>1, AnsweredAppends
<1>3. calls'[new].at = Clock
  BY <1>1 DEF Answered, TypeInv, TypeOK
<1> HIDE DEF len
<1>4. \A n \in 1..new : n \in 1..len \/ n = new
  BY <1>1
<1>5. PacingSpent' <=> PacingSpent
  BY <1>1 DEF PacingSpent
<1>6. BackpressureInv'
  <2> SUFFICES ASSUME Throttles
               PROVE  /\ \A n \in 1..new :
                           /\ calls'[n].at <= Clock'
                           /\ calls'[n].outcome = "rate_limit" =>
                                plan[calls'[n].request] \in rateLimitedCapabilities'
                      /\ pc' = "attempt" => calls'[new].at < Clock'
    BY <1>1, <1>2 DEF BackpressureInv, Throttles
  <2>1. \A n \in 1..len :
          /\ calls[n].at <= Clock
          /\ calls[n].outcome = "rate_limit" => plan[calls[n].request] \in rateLimitedCapabilities
    BY <1>1 DEF ThrottleInv, BackpressureInv, Throttles
  <2>2. \A n \in 1..len :
          /\ calls'[n].at <= Clock'
          /\ calls'[n].outcome = "rate_limit" => plan[calls'[n].request] \in rateLimitedCapabilities'
    BY <1>1, <1>2, <2>1
  <2>3. /\ calls'[new].at <= Clock'
        /\ calls'[new].outcome = "rate_limit" => plan[calls'[new].request] \in rateLimitedCapabilities'
    BY <1>2, <1>3
  <2>4. pc' = "attempt" => calls'[new].at < Clock'
    BY <1>1, <1>3
  <2> QED
    BY <1>4, <2>2, <2>3, <2>4
<1>7. Backpressure'
  <2> SUFFICES ASSUME Throttles, NEW n \in 2..new, NEW m \in 1..(n - 1),
                      calls'[m].outcome = "rate_limit",
                      plan[calls'[m].request] = plan[calls'[n].request]
               PROVE  calls'[n].at > calls'[n - 1].at \/ PacingSpent
    BY <1>1, <1>2, <1>5 DEF Backpressure, Throttles, PacingSpent
  <2>1. m \in 1..len /\ n - 1 \in 1..len
    BY <1>1
  <2>2. CASE n \in 1..len
    <3>1. /\ n \in 2..len /\ m \in 1..(n - 1)
          /\ calls'[m] = calls[m] /\ calls'[n] = calls[n] /\ calls'[n - 1] = calls[n - 1]
      BY <1>1, <1>2, <2>1, <2>2
    <3>2. calls[m].outcome = "rate_limit" /\ plan[calls[m].request] = plan[calls[n].request]
      BY <3>1
    <3>3. calls[n].at > calls[n - 1].at \/ PacingSpent
      BY <3>1, <3>2 DEF ThrottleInv, Backpressure, Throttles, PacingSpent, len
    <3> QED
      BY <3>1, <3>3
  <2>3. CASE n = new
    <3>1. plan[idx] \in rateLimitedCapabilities
      BY <1>1, <1>2, <2>1, <2>3 DEF ThrottleInv, BackpressureInv, Throttles
    <3>2. calls[len].at < Clock \/ PacingSpent
      BY <1>1, <2>1, <3>1 DEF ThrottleInv, BackpressureInv, Throttles, PacingSpent, len
    <3>3. n - 1 = len /\ len \in 1..len
      BY <1>1, <2>1, <2>3
    <3>4. calls'[n - 1].at = calls[len].at /\ calls'[n].at = Clock
      BY <1>2, <1>3, <2>3, <3>3
    <3> QED
      BY <1>1, <3>2, <3>3, <3>4
  <2> QED
    BY <1>4, <2>2, <2>3
<1> QED
  BY <1>6, <1>7 DEF ThrottleInv

\* A retry waits: some budget is left, and no delay is zero.
LEMMA RetryWaits ==
  ASSUME TypeInv, Throttles, NEW category, NEW j \in JitterValues, RetryAfterBackoff(category, j)
  PROVE  Clock' > Clock
<1>1. attempt \in 0..MaxAttempts /\ attempt < MaxAttempts
  BY DEF RetryAfterBackoff, AttemptFails, Answered, TypeInv, TypeOK
<1> DEFINE power == 2^attempt
<1>2. power \in Nat \ {0}
  BY <1>1, DoublingAssumption
<1> HIDE DEF power
<1>3. BaseDelay * power \in Nat \ {0}
  BY <1>2, PolicyAssumption DEF Throttles
<1>4. AtMost(j, Jitter) \in Nat
  BY PolicyAssumption DEF JitterValues, AtMost
<1>5. ComputeBackoff(attempt, j) \in Nat \ {0}
  BY <1>3, <1>4, PolicyAssumption DEF ComputeBackoff, AtMost, Throttles, power
<1>6. RemainingBudget \in Nat \ {0}
  BY RemainingBudgetFits DEF RetryAfterBackoff, WillRetry, TypeInv, TypeOK, BudgetsHold
<1>7. AtMost(ComputeBackoff(attempt, j), RemainingBudget) \in Nat \ {0}
  BY <1>5, <1>6 DEF AtMost
<1>8. /\ attemptBackoff' = attemptBackoff + AtMost(ComputeBackoff(attempt, j), RemainingBudget)
      /\ runBackoff' = runBackoff /\ runPacing' = runPacing
  BY DEF RetryAfterBackoff, AttemptFails, Answered
<1> QED
  BY <1>7, <1>8 DEF Clock, TypeInv, TypeOK

\* The first call of a request that is throttled waits too, as long as it may.
LEMMA PaceIsKept ==
  ASSUME TypeInv, ThrottleInv, BeginRequest
  PROVE  /\ Clock' >= Clock /\ runPacing' >= runPacing
         /\ Throttles /\ plan[idx] \in rateLimitedCapabilities => Clock' > Clock \/ PacingSpent'
<1> DEFINE wait == PacingWait(plan[idx])
<1>1. /\ runPacing' = runPacing + wait /\ runBackoff' = runBackoff
      /\ attemptBackoff' = 0 /\ attemptBackoff = 0
  BY DEF BeginRequest, ThrottleInv, BackpressureInv
<1>2. /\ wait \in Nat /\ runPacing \in Nat /\ runBackoff \in Nat /\ PacingBudget \in Nat
      /\ PacingBudget > 0 => runPacing <= PacingBudget
  BY PacingWaitFits, TimeIsNat DEF TypeInv, TypeOK, BudgetsHold
<1>3. ASSUME Throttles, plan[idx] \in rateLimitedCapabilities
      PROVE  wait > 0 \/ PacingSpent'
  <2>1. wait = AtMost(Pace, IF PacingBudget = 0 THEN Pace ELSE NonNegative(PacingBudget - runPacing))
    BY <1>3, PolicyAssumption DEF PacingWait, Throttles
  <2>2. ASSUME PacingBudget > 0, runPacing = PacingBudget PROVE wait > 0 \/ PacingSpent'
    BY <1>1, <1>2, <2>1, <2>2, PolicyAssumption DEF AtMost, NonNegative, PacingSpent
  <2>3. ASSUME ~(PacingBudget > 0 /\ runPacing = PacingBudget) PROVE wait > 0
    BY <1>2, <1>3, <2>1, <2>3, PolicyAssumption DEF AtMost, NonNegative, Throttles
  <2> QED
    BY <2>2, <2>3
<1> HIDE DEF wait
<1> QED
  BY <1>1, <1>2, <1>3 DEF Clock

\* Initially nothing was throttled.
LEMMA InitThrottleInv == Init => ThrottleInv
BY DEF Init, ThrottleInv, BackpressureInv, Backpressure

\* Every step keeps the throttled capabilities remembered and paced.
LEMMA NextThrottleInv == TypeInv /\ HistInv /\ ThrottleInv /\ [Next]_vars => ThrottleInv'
<1> SUFFICES ASSUME TypeInv, HistInv, ThrottleInv, [Next]_vars PROVE ThrottleInv'
  OBVIOUS
<1>0. TypeInv' /\ Clock \in Nat
  BY NextTypeInv, TimeIsNat
<1>1. CASE BeginRequest
  <2>1. /\ plan' = plan /\ calls' = calls /\ idx' = idx /\ pc' = "attempt"
        /\ rateLimitedCapabilities' = rateLimitedCapabilities
    BY <1>1 DEF BeginRequest
  <2>2. /\ Clock' >= Clock /\ runPacing' >= runPacing
        /\ Throttles /\ plan[idx] \in rateLimitedCapabilities => Clock' > Clock \/ PacingSpent'
    BY <1>1, PaceIsKept
  <2>3. Throttles => \A n \in DOMAIN calls : calls[n].at <= Clock
    BY DEF ThrottleInv, BackpressureInv, Throttles
  <2>4. ASSUME plan[idx] \in rateLimitedCapabilities, NEW n \in DOMAIN calls
        PROVE  (Throttles => calls[n].at < Clock') \/ PacingSpent'
    <3>1. Clock' \in Nat
      BY <1>0, TimeStaysNat
    <3>2. Clock \in Nat /\ calls[n].at \in Nat
      BY <2>4, TimeIsNat
    <3> QED
      BY <2>2, <2>3, <2>4, <3>1, <3>2
  <2> QED
    BY <1>0, <2>1, <2>2, <2>4, SilentStepKeepsThrottle
<1>2. CASE AttemptSucceeds
  <2>1. /\ Answered("success") /\ "success" \in Outcome /\ pc' = "settle"
        /\ rateLimitedCapabilities' = rateLimitedCapabilities /\ Clock' = Clock
    BY <1>2 DEF AttemptSucceeds, Answered, Outcome, Clock
  <2> QED
    BY <1>0, <2>1, CallKeepsThrottle
<1>3. ASSUME NEW category \in ServerFailures, AttemptFails(category)
      PROVE  /\ Answered(category) /\ category \in Outcome
             /\ rateLimitedCapabilities \subseteq rateLimitedCapabilities'
             /\ category = "rate_limit" => plan[idx] \in rateLimitedCapabilities'
  BY <1>3, PlanAssumption DEF AttemptFails, Outcome
<1>4. ASSUME NEW category \in ServerFailures, GiveUp(category)
      PROVE  ThrottleInv'
  <2>1. AttemptFails(category) /\ pc' = "settle" /\ Clock' = Clock
    BY <1>4 DEF GiveUp, AttemptFails, Answered, Clock
  <2> QED
    BY <1>0, <1>3, <2>1, CallKeepsThrottle
<1>5. ASSUME NEW category \in ServerFailures, NEW j \in JitterValues,
             RetryAfterBackoff(category, j)
      PROVE  ThrottleInv'
  <2>1. AttemptFails(category) /\ pc' = "attempt"
    BY <1>5 DEF RetryAfterBackoff
  <2>2. Throttles => Clock' > Clock
    BY <1>5, RetryWaits
  <2>3. Clock' >= Clock
    <3>1. ComputeBackoff(attempt, j) \in Nat /\ RemainingBudget \in Nat
      BY BackoffIsNat, RemainingBudgetFits DEF TypeInv, TypeOK, BudgetsHold
    <3>2. AtMost(ComputeBackoff(attempt, j), RemainingBudget) \in Nat
      BY <3>1 DEF AtMost
    <3> QED
      BY <1>5, <3>2 DEF RetryAfterBackoff, AttemptFails, Answered, Clock, TypeInv, TypeOK
  <2> QED
    BY <1>0, <1>3, <2>1, <2>2, <2>3, CallKeepsThrottle
<1>6. CASE InvokeBeforeDiscovery
  <2>1. /\ plan' = plan /\ calls' = calls /\ Clock' = Clock /\ runPacing' = runPacing
        /\ rateLimitedCapabilities' = rateLimitedCapabilities /\ pc' = "threw"
    BY <1>6 DEF InvokeBeforeDiscovery, Clock
  <2> QED
    BY <1>0, <2>1, SilentStepKeepsThrottle, TimeIsNat
<1>7. CASE SettleRequest
  <2>1. /\ plan' = plan /\ calls' = calls /\ runPacing' = runPacing /\ attemptBackoff' = 0
        /\ runBackoff' = runBackoff + attemptBackoff
        /\ rateLimitedCapabilities' = rateLimitedCapabilities /\ pc' = "dispatch"
    BY <1>7 DEF SettleRequest
  <2>2. Clock' = Clock
    BY <2>1 DEF Clock, TypeInv, TypeOK
  <2> QED
    BY <1>0, <2>1, <2>2, SilentStepKeepsThrottle, TimeIsNat
<1>8. CASE ReturnResult
  <2>1. /\ plan' = plan /\ calls' = calls /\ Clock' = Clock /\ runPacing' = runPacing
        /\ rateLimitedCapabilities' = rateLimitedCapabilities /\ pc' = "done"
    BY <1>8 DEF ReturnResult, Clock, request
  <2> QED
    BY <1>0, <2>1, SilentStepKeepsThrottle, TimeIsNat
<1>9. CASE UNCHANGED vars
  BY <1>9 DEF vars, request, ThrottleInv, BackpressureInv, Backpressure, Clock
<1> QED
  BY <1>1, <1>2, <1>4, <1>5, <1>6, <1>7, <1>8, <1>9
  DEF Next, Step, Terminated, RecordEvidence, RecordFailure

\* Whatever the plan and the policy: once a capability has answered 429, no later call
\* of it follows the previous call without a sleep, until the pacing budget is spent.
THEOREM BackpressureHolds == SafeSpec => []Backpressure
<1>1. ThrottleInv => Backpressure
  BY DEF ThrottleInv
<1> QED
  BY <1>1, InitTypeInv, NextTypeInv, InitHistInv, NextHistInv, InitThrottleInv, NextThrottleInv, PTL
  DEF SafeSpec

-----------------------------------------------------------------------------
(* What termination rests on: no step is ever undone. *)

\* How far the current request has come, and what every step does to it: an attempt
\* is never undone, and after the last one the next request is at its beginning.
Stage ==
  CASE pc = "dispatch" -> 0
    [] pc = "attempt" -> attempt + 1
    [] pc = "settle" -> MaxAttempts + 2
    [] OTHER -> MaxAttempts + 3

Advances ==
  /\ idx \in 1..(Len(plan) + 1) /\ Stage \in 0..(MaxAttempts + 3)
  /\ plan' = plan
  /\ \/ idx' = idx + 1
     \/ idx' = idx /\ Stage' > Stage

\* Every step but the idling of a finished run advances it.
LEMMA StepAdvances == TypeInv /\ TypeInv' /\ Step => Advances
<1> SUFFICES ASSUME TypeInv, TypeInv', Step PROVE Advances
  OBVIOUS
<1>1. /\ MaxAttempts \in Nat /\ attempt \in 0..MaxAttempts /\ attempt' \in 0..MaxAttempts
      /\ idx \in 1..(Len(plan) + 1)
  BY PolicyAssumption DEF TypeInv, TypeOK
<1>2. Stage \in 0..(MaxAttempts + 3)
  BY <1>1 DEF Stage
<1>3. CASE BeginRequest
  <2>1. pc = "dispatch" /\ pc' = "attempt" /\ attempt' = 0 /\ idx' = idx /\ plan' = plan
    BY <1>3 DEF BeginRequest
  <2>2. Stage = 0 /\ Stage' = 1
    BY <2>1 DEF Stage
  <2>3. QED
    BY <1>1, <1>2, <2>1, <2>2 DEF Advances
<1>4. ASSUME NEW outcome, Answered(outcome), pc' \in {"attempt", "settle"} PROVE Advances
  <2>1. /\ pc = "attempt" /\ attempt < MaxAttempts /\ attempt' = attempt + 1
        /\ idx' = idx /\ plan' = plan
    BY <1>4 DEF Answered
  <2>2. Stage = attempt + 1
    BY <2>1 DEF Stage
  <2>3. Stage' = attempt' + 1 \/ Stage' = MaxAttempts + 2
    BY <1>4 DEF Stage
  <2>4. Stage' > Stage
    BY <1>1, <2>1, <2>2, <2>3
  <2>5. QED
    BY <1>1, <1>2, <2>1, <2>4 DEF Advances
<1>5. CASE InvokeBeforeDiscovery
  <2>1. pc = "attempt" /\ pc' = "threw" /\ idx' = idx /\ plan' = plan
    BY <1>5 DEF InvokeBeforeDiscovery
  <2>2. Stage = attempt + 1 /\ Stage' = MaxAttempts + 3
    BY <2>1 DEF Stage
  <2>3. QED
    BY <1>1, <1>2, <2>1, <2>2 DEF Advances
<1>6. CASE SettleRequest
  BY <1>1, <1>2, <1>6 DEF SettleRequest, Advances
<1>7. CASE ReturnResult
  <2>1. pc = "dispatch" /\ pc' = "done" /\ idx' = idx /\ plan' = plan
    BY <1>7 DEF ReturnResult
  <2>2. Stage = 0 /\ Stage' = MaxAttempts + 3
    BY <2>1 DEF Stage
  <2>3. QED
    BY <1>1, <1>2, <2>1, <2>2 DEF Advances
<1>8. CASE AttemptSucceeds
  BY <1>4, <1>8 DEF AttemptSucceeds
<1>9. ASSUME NEW category \in ServerFailures, GiveUp(category) PROVE Advances
  BY <1>4, <1>9 DEF GiveUp, AttemptFails
<1>10. ASSUME NEW category \in ServerFailures, NEW j \in JitterValues,
              RetryAfterBackoff(category, j)
       PROVE  Advances
  BY <1>4, <1>10 DEF RetryAfterBackoff, AttemptFails
<1>11. QED
  BY <1>3, <1>5, <1>6, <1>7, <1>8, <1>9, <1>10 DEF Step, RecordEvidence, RecordFailure

\* Whatever the server answers, every step of execute() brings it nearer to its end:
\* the pair of request and stage grows and is bounded by plan and policy.
THEOREM RunsNeverTurnBack == SafeSpec => [][Advances]_vars
<1>1. TypeInv /\ TypeInv' /\ [Next]_vars => [Advances]_vars
  BY StepAdvances DEF Next, Terminated
<1>2. QED
  BY <1>1, InitTypeInv, NextTypeInv, PTL DEF SafeSpec

-----------------------------------------------------------------------------
(* What the run history indexes of a finished run. *)

(* Totals of sequences of amounts. *)

\* A set of naturals has a least one: the induction the provers can follow.
LEMMA NaturalsHaveLeast ==
  ASSUME NEW bad \in SUBSET Nat, bad /= {}
  PROVE  \E n \in bad : \A m \in bad : n <= m
<1>1. PICK n \in bad : \A m \in bad : <<m, n>> \notin OpToRel(<, Nat)
  BY NatLessThanWellFounded, WFMin
<1>2. ASSUME NEW m \in bad PROVE n <= m
  <2>1. ~(m < n)
    BY <1>1 DEF OpToRel
  <2>2. QED
    BY <2>1
<1>3. QED
  BY <1>2

\* Running totals of the first n amounts.
Runs(t, a, n) ==
  /\ t \in [0..n -> Int] /\ t[0] = 0
  /\ \A i \in 1..n : t[i] = t[i - 1] + a[i]

\* Every sequence of amounts has running totals, up to any of its positions.
LEMMA TotalsRun ==
  ASSUME NEW a \in Seq(Int), NEW k \in 0..Len(a)
  PROVE  \E t : Runs(t, a, k)
<1> DEFINE bad == {n \in 0..Len(a) : ~\E t : Runs(t, a, n)}
<1>1. SUFFICES ASSUME bad /= {} PROVE FALSE
  OBVIOUS
<1>2. bad \in SUBSET Nat
  OBVIOUS
<1>3. PICK n \in bad : \A m \in bad : n <= m
  BY <1>1, <1>2, NaturalsHaveLeast
<1>4. n \in 0..Len(a) /\ n \in Nat /\ ~\E t : Runs(t, a, n)
  BY <1>3
<1>5. CASE n = 0
  <2> DEFINE t == [i \in 0..0 |-> 0]
  <2>1. t \in [0..0 -> Int] /\ t[0] = 0 /\ 1..0 = {}
    OBVIOUS
  <2> HIDE DEF t
  <2>2. Runs(t, a, 0)
    BY <2>1 DEF Runs
  <2>3. QED
    BY <1>4, <1>5, <2>2
<1>6. CASE n /= 0
  <2>1. n - 1 \in 0..Len(a) /\ n - 1 \notin bad
    BY <1>3, <1>4, <1>6
  <2>2. PICK u : Runs(u, a, n - 1)
    BY <2>1
  <2>3. /\ n - 1 \in Nat /\ n \in 1..Len(a) /\ a[n] \in Int
        /\ u \in [0..(n - 1) -> Int] /\ u[0] = 0 /\ u[n - 1] \in Int
        /\ \A i \in 1..(n - 1) : u[i] = u[i - 1] + a[i]
    BY <1>4, <1>6, <2>2 DEF Runs
  <2> DEFINE t == [i \in 0..n |-> IF i < n THEN u[i] ELSE u[n - 1] + a[n]]
  <2>4. t \in [0..n -> Int] /\ t[0] = 0
    BY <2>3
  <2>5. ASSUME NEW i \in 1..n PROVE t[i] = t[i - 1] + a[i]
    <3>1. CASE i < n
      <4>1. i \in 1..(n - 1) /\ i \in 0..n /\ i - 1 \in 0..n /\ i - 1 < n
        BY <1>4, <3>1
      <4>2. t[i] = u[i] /\ t[i - 1] = u[i - 1]
        BY <3>1, <4>1
      <4>3. QED
        BY <2>3, <4>1, <4>2
    <3>2. CASE i = n
      <4>1. n \in 0..n /\ n - 1 \in 0..n /\ n - 1 < n /\ ~(n < n)
        BY <1>4, <2>3
      <4>2. t[n] = u[n - 1] + a[n] /\ t[n - 1] = u[n - 1]
        BY <4>1
      <4>3. QED
        BY <3>2, <4>2
    <3>3. QED
      BY <1>4, <3>1, <3>2
  <2> HIDE DEF t
  <2>6. Runs(t, a, n)
    BY <2>4, <2>5 DEF Runs
  <2>7. QED
    BY <1>4, <2>6
<1>7. QED
  BY <1>5, <1>6

\* The function TotalOf recurses with.
IsTotal(t, a) == t = [n \in 0..Len(a) |-> IF n = 0 THEN 0 ELSE t[n - 1] + a[n]]

\* The total is where any running totals end.
LEMMA TotalIsLast ==
  ASSUME NEW a \in Seq(Int), NEW t, Runs(t, a, Len(a))
  PROVE  TotalOf(a) = t[Len(a)]
<1> DEFINE g == CHOOSE u : IsTotal(u, a)
           len == Len(a)
<1>1. TotalOf(a) = g[len]
  BY DEF TotalOf, IsTotal
<1>2. len \in Nat
  OBVIOUS
<1>3. /\ t \in [0..len -> Int] /\ t[0] = 0
      /\ \A i \in 1..len : t[i] = t[i - 1] + a[i]
  BY DEF Runs
<1>4. IsTotal(t, a)
  <2> DEFINE h == [n \in 0..len |-> IF n = 0 THEN 0 ELSE t[n - 1] + a[n]]
  <2>1. \A n \in 0..len : h[n] = t[n]
    BY <1>2, <1>3
  <2>2. h = t
    <3>1. DOMAIN h = 0..len /\ DOMAIN t = 0..len
      BY <1>3
    <3>2. h = [n \in DOMAIN h |-> h[n]] /\ t = [n \in DOMAIN t |-> t[n]]
      BY <1>3
    <3> HIDE DEF h
    <3>3. QED
      BY <2>1, <3>1, <3>2
  <2>3. QED
    BY <2>2 DEF IsTotal
<1>5. IsTotal(g, a)
  BY <1>4
<1> HIDE DEF g
<1>6. g[0] = 0 /\ \A i \in 1..len : g[i] = g[i - 1] + a[i]
  BY <1>2, <1>5 DEF IsTotal
<1> HIDE DEF len
<1> DEFINE bad == {n \in 0..len : g[n] /= t[n]}
<1>7. bad = {}
  <2>1. SUFFICES ASSUME bad /= {} PROVE FALSE
    OBVIOUS
  <2>2. bad \in SUBSET Nat
    BY <1>2
  <2>3. PICK n \in bad : \A m \in bad : n <= m
    BY <2>1, <2>2, NaturalsHaveLeast
  <2>4. n \in 1..len /\ n - 1 \in 0..len /\ n - 1 \notin bad
    BY <1>2, <1>3, <1>6, <2>3
  <2>5. g[n - 1] = t[n - 1]
    BY <2>4
  <2>6. QED
    BY <1>3, <1>6, <2>3, <2>4, <2>5
<1>8. QED
  BY <1>1, <1>2, <1>7 DEF len

\* No amounts total nothing.
LEMMA TotalOfNone == TotalOf(<<>>) = 0
<1> DEFINE t == [i \in 0..0 |-> 0]
<1>1. t \in [0..0 -> Int] /\ t[0] = 0 /\ 1..0 = {}
  OBVIOUS
<1> HIDE DEF t
<1>2. Runs(t, <<>>, 0)
  BY <1>1 DEF Runs
<1>3. QED
  BY <1>1, <1>2, TotalIsLast

\* One more amount is that much more.
LEMMA TotalAppends ==
  ASSUME NEW a \in Seq(Int), NEW x \in Int
  PROVE  TotalOf(a) \in Int /\ TotalOf(Append(a, x)) = TotalOf(a) + x
<1> DEFINE b == Append(a, x)
           n == Len(a) + 1
<1>1. /\ b \in Seq(Int) /\ Len(b) = n /\ Len(a) \in Nat /\ n \in Nat /\ Len(a) = n - 1
      /\ \A i \in 1..(n - 1) : b[i] = a[i]
      /\ b[n] = x
  OBVIOUS
<1>2. PICK t : Runs(t, b, n)
  <2>1. n \in 0..Len(b)
    BY <1>1
  <2> HIDE DEF b, n
  <2>2. QED
    BY <1>1, <2>1, TotalsRun
<1> HIDE DEF b, n
<1>3. TotalOf(b) = t[n]
  BY <1>1, <1>2, TotalIsLast
<1>4. /\ t \in [0..n -> Int] /\ t[0] = 0 /\ n >= 1
      /\ \A i \in 1..n : t[i] = t[i - 1] + b[i]
  BY <1>1, <1>2 DEF Runs, n
<1> DEFINE u == [i \in 0..(n - 1) |-> t[i]]
<1>5. u \in [0..(n - 1) -> Int] /\ u[0] = 0
  BY <1>1, <1>4
<1>6. \A i \in 1..(n - 1) : u[i] = u[i - 1] + a[i]
  BY <1>1, <1>4
<1>7. u[n - 1] = t[n - 1] /\ t[n - 1] \in Int /\ t[n] = t[n - 1] + x
  BY <1>1, <1>4
<1> HIDE DEF u
<1>8. Runs(u, a, n - 1)
  BY <1>5, <1>6 DEF Runs
<1>9. TotalOf(a) = u[n - 1]
  BY <1>1, <1>8, TotalIsLast
<1>10. QED
  BY <1>3, <1>7, <1>9 DEF b

\* A total of integers is an integer.
LEMMA TotalIsInt ==
  ASSUME NEW a \in Seq(Int)
  PROVE  TotalOf(a) \in Int
<1>1. 0 \in Int
  OBVIOUS
<1>2. QED
  BY <1>1, TotalAppends

(* Entries and the calls they count. *)

\* One more entry is one more amount of each kind.
LEMMA EntryAddsAmounts ==
  ASSUME NEW s \in Seq(TransportEntry), NEW e \in TransportEntry
  PROVE  LET t == Append(s, e) IN
         /\ TotalOf(Attempts(s)) \in Int /\ TotalOf(Retries(s)) \in Int /\ TotalOf(Backoffs(s)) \in Int
         /\ TotalOf(Attempts(t)) = TotalOf(Attempts(s)) + e.attempt_count
         /\ TotalOf(Retries(t)) = TotalOf(Retries(s)) + (e.attempt_count - 1)
         /\ TotalOf(Backoffs(t)) = TotalOf(Backoffs(s)) + e.backoff
<1> DEFINE t == Append(s, e)
           n == Len(s)
<1>1. /\ n \in Nat /\ DOMAIN s = 1..n /\ DOMAIN t = 1..(n + 1)
      /\ \A k \in 1..n : t[k] = s[k] /\ s[k].attempt_count \in Nat /\ s[k].backoff \in Nat
      /\ t[n + 1] = e /\ e.attempt_count \in Nat /\ e.backoff \in Nat
  <2>1. \A x \in TransportEntry : x.attempt_count \in Nat /\ x.backoff \in Nat
    BY DEF TransportEntry
  <2>2. n \in Nat /\ DOMAIN s = 1..n /\ \A k \in 1..n : s[k] \in TransportEntry
    OBVIOUS
  <2>3. DOMAIN t = 1..(n + 1) /\ t[n + 1] = e /\ \A k \in 1..n : t[k] = s[k]
    OBVIOUS
  <2>4. QED
    BY <2>1, <2>2, <2>3
<1> HIDE DEF n, t
<1> DEFINE x == e.attempt_count
           y == x - 1
           z == e.backoff
<1>2. x \in Int /\ y \in Int /\ z \in Int
  BY <1>1
<1>3. Attempts(s) \in Seq(Int) /\ Attempts(t) = Append(Attempts(s), x)
  BY <1>1 DEF Attempts
<1>4. Retries(s) \in Seq(Int) /\ Retries(t) = Append(Retries(s), y)
  BY <1>1 DEF Retries
<1>5. Backoffs(s) \in Seq(Int) /\ Backoffs(t) = Append(Backoffs(s), z)
  BY <1>1 DEF Backoffs
<1> HIDE DEF x, y, z
<1>6. /\ TotalOf(Attempts(s)) \in Int /\ TotalOf(Retries(s)) \in Int /\ TotalOf(Backoffs(s)) \in Int
      /\ TotalOf(Attempts(t)) = TotalOf(Attempts(s)) + x
      /\ TotalOf(Retries(t)) = TotalOf(Retries(s)) + y
      /\ TotalOf(Backoffs(t)) = TotalOf(Backoffs(s)) + z
  BY <1>2, <1>3, <1>4, <1>5, TotalAppends
<1>7. QED
  BY <1>6 DEF t, x, y, z

\* The calls of a request can be counted.
LEMMA CallsAreFinite ==
  ASSUME TypeInv
  PROVE  \A k : IsFiniteSet(CallsOf(k)) /\ Cardinality(CallsOf(k)) \in Nat
<1>1. Len(calls) \in Nat /\ DOMAIN calls = 1..Len(calls)
  BY DEF TypeInv, TypeOK
<1>2. IsFiniteSet(1..Len(calls))
  BY <1>1, FS_Interval
<1>3. ASSUME NEW k PROVE IsFiniteSet(CallsOf(k)) /\ Cardinality(CallsOf(k)) \in Nat
  <2>1. CallsOf(k) \in SUBSET (1..Len(calls))
    BY <1>1 DEF CallsOf
  <2>2. QED
    BY <1>2, <2>1, FS_Subset, FS_CardinalityType
<1>4. QED
  BY <1>3

\* A call is one more of its request, and no other's.
LEMMA CallIsCounted ==
  ASSUME TypeInv, NEW outcome \in Outcome, Answered(outcome)
  PROVE  /\ Cardinality(CallsOf(idx)') = Cardinality(CallsOf(idx)) + 1
         /\ \A k : k /= idx => CallsOf(k)' = CallsOf(k)
<1> DEFINE new == Len(calls) + 1
<1>1. /\ Len(calls) \in Nat /\ DOMAIN calls = 1..Len(calls) /\ DOMAIN calls' = 1..new
      /\ \A n \in DOMAIN calls : calls'[n] = calls[n]
      /\ calls'[new].request = idx
  BY AnsweredAppends
<1>2. \A n \in DOMAIN calls' : n \in DOMAIN calls \/ n = new
  BY <1>1
<1>3. new \in DOMAIN calls' /\ new \notin DOMAIN calls /\ DOMAIN calls \subseteq DOMAIN calls'
  BY <1>1
<1> HIDE DEF new
<1>4. CallsOf(idx)' = CallsOf(idx) \union {new} /\ new \notin CallsOf(idx)
  <2>1. idx' = idx
    BY DEF Answered
  <2>2. CallsOf(idx)' = {n \in DOMAIN calls' : calls'[n].request = idx}
    BY <2>1 DEF CallsOf
  <2>3. QED
    BY <1>1, <1>2, <1>3, <2>2 DEF CallsOf
<1>5. \A k : k /= idx => CallsOf(k)' = CallsOf(k)
  BY <1>1, <1>2, <1>3 DEF CallsOf
<1>6. IsFiniteSet(CallsOf(idx))
  BY CallsAreFinite
<1>7. QED
  BY <1>4, <1>5, <1>6, FS_AddElement

\* Without a call nothing is counted.
LEMMA SilenceIsNotCounted ==
  ASSUME UNCHANGED calls
  PROVE  \A k : CallsOf(k)' = CallsOf(k)
BY DEF CallsOf
\* The totals are integers.
LEMMA TotalsAreInts ==
  ASSUME NEW s \in Seq(TransportEntry)
  PROVE  /\ TotalOf(Attempts(s)) \in Int /\ TotalOf(Retries(s)) \in Int
         /\ TotalOf(Backoffs(s)) \in Int
<1>1. \A x \in TransportEntry : x.attempt_count \in Nat /\ x.backoff \in Nat
  BY DEF TransportEntry
<1>2. /\ Len(s) \in Nat /\ DOMAIN s = 1..Len(s)
      /\ \A k \in 1..Len(s) : s[k].attempt_count \in Nat /\ s[k].backoff \in Nat
  BY <1>1
<1>3. /\ Attempts(s) \in Seq(Int) /\ Retries(s) \in Seq(Int) /\ Backoffs(s) \in Seq(Int)
  BY <1>2 DEF Attempts, Retries, Backoffs
<1>4. QED
  BY <1>3, TotalIsInt

(* The counts and totals hold in every state, and say what they should at the end. *)

\* Initially nothing was called and nothing entered.
LEMMA InitRollupInv == Init => RollupInv
<1> SUFFICES ASSUME Init PROVE RollupInv
  OBVIOUS
<1>1. /\ transport_summary = <<>> /\ Len(transport_summary) = 0 /\ DOMAIN transport_summary = {}
      /\ calls = <<>> /\ Len(calls) = 0
      /\ pc = "dispatch" /\ runBackoff = 0 /\ attemptBackoff = 0
  BY DEF Init
<1>2. /\ Attempts(transport_summary) = <<>> /\ Retries(transport_summary) = <<>>
      /\ Backoffs(transport_summary) = <<>>
  BY <1>1 DEF Attempts, Retries, Backoffs
<1>3. TotalOf(<<>>) = 0
  BY TotalOfNone
<1>4. QED
  BY <1>1, <1>2, <1>3 DEF RollupInv

\* An answered call is counted by its request; the entries keep theirs.
LEMMA CallKeepsRollup ==
  ASSUME TypeInv, HistInv, RollupInv, NEW outcome \in Outcome, Answered(outcome),
         pc' \in {"attempt", "settle"}
  PROVE  RollupInv'
<1>1. /\ pc = "attempt" /\ attempt' = attempt + 1 /\ idx' = idx
      /\ transport_summary' = transport_summary /\ runBackoff' = runBackoff
  BY DEF Answered, results
<1>2. Len(calls') = Len(calls) + 1 /\ Len(calls) \in Nat /\ attempt \in Nat
  BY AnsweredAppends, PolicyAssumption DEF TypeInv, TypeOK
<1>3. /\ Cardinality(CallsOf(idx)') = Cardinality(CallsOf(idx)) + 1
      /\ \A k : k /= idx => CallsOf(k)' = CallsOf(k)
  BY CallIsCounted
<1>4. CallsOf(idx') = CallsOf(idx)
  BY <1>1
<1>5. \A k \in 1..Len(transport_summary) : k /= idx
  BY DEF TypeInv, TypeOK, ControlInv
<1>6. \A k \in 1..Len(transport_summary') :
        /\ transport_summary'[k].attempt_count = Cardinality(CallsOf(k)')
        /\ transport_summary'[k].final_outcome = "rate_limit"
             => transport_summary'[k].failure_category = "rate_limit"
  BY <1>1, <1>3, <1>5 DEF RollupInv
<1>7. attempt' = Cardinality(CallsOf(idx)')
  BY <1>1, <1>3 DEF RollupInv
<1>8. TotalOf(Attempts(transport_summary')) + attempt' = Len(calls')
  <2>1. TotalOf(Attempts(transport_summary)) + attempt = Len(calls)
    BY <1>1 DEF RollupInv
  <2>2. TotalOf(Attempts(transport_summary)) \in Int
    BY TotalsAreInts DEF TypeInv, TypeOK
  <2>3. QED
    BY <1>1, <1>2, <2>1, <2>2
<1>9. QED
  BY <1>1, <1>6, <1>7, <1>8 DEF RollupInv

\* At the head of the loop the next request has no calls.
LEMMA BeginKeepsRollup ==
  ASSUME TypeInv, HistInv, RollupInv, BeginRequest
  PROVE  RollupInv'
<1>1. /\ pc = "dispatch" /\ pc' = "attempt" /\ attempt' = 0 /\ idx' = idx /\ calls' = calls
      /\ transport_summary' = transport_summary /\ runBackoff' = runBackoff
  BY DEF BeginRequest, results
<1>2. \A k : CallsOf(k)' = CallsOf(k)
  BY <1>1, SilenceIsNotCounted
<1>3. CallsOf(idx)' = {}
  <2>1. \A n \in DOMAIN calls : calls[n].request /= idx
    BY <1>1 DEF HistInv, HistoryInv, TypeInv, TypeOK
  <2>2. CallsOf(idx) = {}
    BY <2>1 DEF CallsOf
  <2>3. CallsOf(idx)' = CallsOf(idx)
    BY <1>1 DEF CallsOf
  <2>4. QED
    BY <2>2, <2>3
<1>4. attempt' = Cardinality(CallsOf(idx)')
  BY <1>1, <1>3, FS_EmptySet
<1>5. TotalOf(Attempts(transport_summary')) + attempt' = Len(calls')
  <2>1. TotalOf(Attempts(transport_summary)) \in Int
    BY TotalsAreInts DEF TypeInv, TypeOK
  <2>2. QED
    BY <1>1, <2>1 DEF RollupInv
<1>6. QED
  BY <1>1, <1>2, <1>4, <1>5 DEF RollupInv

\* The entry of a settled request carries the request's own count and backoff.
LEMMA SettleKeepsRollup ==
  ASSUME TypeInv, HistInv, RollupInv, SettleRequest
  PROVE  RollupInv'
<1> DEFINE s == transport_summary
           e == Entry
           n == Len(transport_summary)
<1>1. /\ pc = "settle" /\ pc' = "dispatch" /\ idx' = idx + 1 /\ calls' = calls
      /\ runBackoff' = runBackoff + attemptBackoff /\ attemptBackoff' = 0
      /\ transport_summary' = Append(s, e)
  BY DEF SettleRequest
<1>2. s \in Seq(TransportEntry) /\ e \in TransportEntry /\ n \in Nat /\ n = idx - 1 /\ idx \in Nat
  BY <1>1, EntryType DEF TypeInv, TypeOK, ControlInv
<1>3. /\ e.attempt_count = attempt /\ e.backoff = attemptBackoff
      /\ e.failure_category = lastFailure
      /\ e.final_outcome = (IF success THEN "success" ELSE FinalOutcome(lastFailure))
  BY DEF Entry
<1>4. /\ attempt \in Nat /\ attemptBackoff \in Nat /\ runBackoff \in Nat
  BY PolicyAssumption DEF TypeInv, TypeOK
<1>5. e.final_outcome = "rate_limit" => e.failure_category = "rate_limit"
  BY <1>3 DEF FinalOutcome
<1> HIDE DEF e
<1>6. /\ TotalOf(Attempts(s)) \in Int /\ TotalOf(Retries(s)) \in Int /\ TotalOf(Backoffs(s)) \in Int
      /\ TotalOf(Attempts(transport_summary')) = TotalOf(Attempts(s)) + attempt
      /\ TotalOf(Retries(transport_summary')) = TotalOf(Retries(s)) + (attempt - 1)
      /\ TotalOf(Backoffs(transport_summary')) = TotalOf(Backoffs(s)) + attemptBackoff
  BY <1>1, <1>2, <1>3, EntryAddsAmounts
<1>7. /\ Len(transport_summary') = n + 1
      /\ \A k \in 1..n : transport_summary'[k] = s[k]
      /\ transport_summary'[n + 1] = e
  BY <1>1, <1>2
<1>8. \A k : CallsOf(k)' = CallsOf(k)
  BY <1>1, SilenceIsNotCounted
<1>9. \A k \in 1..Len(transport_summary') :
        /\ transport_summary'[k].attempt_count = Cardinality(CallsOf(k)')
        /\ transport_summary'[k].final_outcome = "rate_limit"
             => transport_summary'[k].failure_category = "rate_limit"
  <2>1. \A k \in 1..n :
          /\ transport_summary'[k].attempt_count = Cardinality(CallsOf(k)')
          /\ transport_summary'[k].final_outcome = "rate_limit"
               => transport_summary'[k].failure_category = "rate_limit"
    BY <1>7, <1>8 DEF RollupInv
  <2>2. ASSUME NEW k, k = idx PROVE e.attempt_count = Cardinality(CallsOf(k)')
    <3>1. attempt = Cardinality(CallsOf(k))
      BY <1>1, <2>2 DEF RollupInv
    <3>2. QED
      BY <1>3, <1>8, <3>1
  <2>3. \A k \in 1..Len(transport_summary') :
          k \in 1..n \/ (k = idx /\ transport_summary'[k] = e)
    <3>1. ASSUME NEW k \in 1..Len(transport_summary'), k \notin 1..n
          PROVE  k = idx /\ transport_summary'[k] = e
      <4>1. k = n + 1 /\ k = idx
        BY <1>2, <1>7, <3>1
      <4>2. QED
        BY <1>7, <4>1
    <3>2. QED
      BY <3>1
  <2>4. QED
    BY <1>5, <2>1, <2>2, <2>3
<1>10. TotalOf(Attempts(transport_summary')) = Len(calls')
  BY <1>1, <1>6 DEF RollupInv
<1>11. TotalOf(Retries(transport_summary'))
         = TotalOf(Attempts(transport_summary')) - Len(transport_summary')
  <2>1. TotalOf(Retries(s)) = TotalOf(Attempts(s)) - n
    BY DEF RollupInv
  <2>2. QED
    BY <1>2, <1>4, <1>6, <1>7, <2>1
<1>12. TotalOf(Backoffs(transport_summary')) = runBackoff'
  BY <1>1, <1>6 DEF RollupInv
<1>13. QED
  BY <1>1, <1>9, <1>10, <1>11, <1>12 DEF RollupInv

\* Every step keeps the counts of the entries and the totals.
LEMMA NextRollupInv == TypeInv /\ HistInv /\ RollupInv /\ [Next]_vars => RollupInv'
<1> SUFFICES ASSUME TypeInv, HistInv, RollupInv, [Next]_vars PROVE RollupInv'
  OBVIOUS
<1>1. CASE BeginRequest
  BY <1>1, BeginKeepsRollup
<1>2. CASE AttemptSucceeds
  <2>1. Answered("success") /\ "success" \in Outcome /\ pc' = "settle"
    BY <1>2 DEF AttemptSucceeds, Outcome
  <2>2. QED
    BY <2>1, CallKeepsRollup
<1>3. ASSUME NEW category \in ServerFailures, AttemptFails(category), pc' \in {"attempt", "settle"}
      PROVE  RollupInv'
  <2>1. Answered(category) /\ category \in Outcome
    BY <1>3, PlanAssumption DEF AttemptFails, Outcome
  <2>2. QED
    BY <1>3, <2>1, CallKeepsRollup
<1>4. ASSUME NEW category \in ServerFailures, GiveUp(category) PROVE RollupInv'
  BY <1>3, <1>4 DEF GiveUp
<1>5. ASSUME NEW category \in ServerFailures, NEW j \in JitterValues,
             RetryAfterBackoff(category, j)
      PROVE  RollupInv'
  BY <1>3, <1>5 DEF RetryAfterBackoff
<1>6. CASE InvokeBeforeDiscovery
  <2>1. /\ pc' = "threw" /\ UNCHANGED <<idx, calls, transport_summary, runBackoff>>
    BY <1>6 DEF InvokeBeforeDiscovery, results
  <2>2. \A k : CallsOf(k)' = CallsOf(k)
    BY <2>1, SilenceIsNotCounted
  <2>3. QED
    BY <2>1, <2>2 DEF RollupInv
<1>7. CASE SettleRequest
  BY <1>7, SettleKeepsRollup
<1>8. CASE ReturnResult
  <2>1. /\ pc = "dispatch" /\ pc' = "done" /\ idx > Len(plan)
        /\ UNCHANGED <<plan, idx, calls, transport_summary, runBackoff, attemptBackoff>>
    BY <1>8 DEF ReturnResult, results, request
  <2>2. \A k : CallsOf(k)' = CallsOf(k)
    BY <2>1, SilenceIsNotCounted
  <2>3. QED
    BY <2>1, <2>2 DEF RollupInv
<1>9. CASE UNCHANGED vars
  <2>1. UNCHANGED <<pc, plan, idx, calls, transport_summary, runBackoff, attempt, attemptBackoff>>
    BY <1>9 DEF vars, results, request
  <2>2. \A k : CallsOf(k)' = CallsOf(k)
    BY <2>1, SilenceIsNotCounted
  <2>3. CallsOf(idx)' = CallsOf(idx)
    BY <2>1 DEF CallsOf
  <2>4. QED
    BY <2>1, <2>2, <2>3 DEF RollupInv
<1>10. QED
  BY <1>1, <1>2, <1>4, <1>5, <1>6, <1>7, <1>8, <1>9
  DEF Next, Step, Terminated, RecordEvidence, RecordFailure

\* At the end there is one entry per request, and every call is of one of them.
LEMMA EveryRequestSettled ==
  ASSUME TypeInv, HistInv, RollupInv, pc = "done"
  PROVE  /\ Len(plan) \in Nat /\ DOMAIN plan = 1..Len(plan)
         /\ Len(transport_summary) = Len(plan)
         /\ DOMAIN transport_summary = 1..Len(plan)
         /\ \A n \in DOMAIN calls : calls[n].request \in 1..Len(plan)
<1>1. /\ Len(plan) \in Nat /\ DOMAIN plan = 1..Len(plan)
      /\ idx \in 1..(Len(plan) + 1) /\ idx > Len(plan)
      /\ Len(transport_summary) = idx - 1
      /\ transport_summary \in Seq(TransportEntry) /\ calls \in Seq(Call)
  BY PlanAssumption DEF TypeInv, TypeOK, ControlInv, RollupInv
<1>2. idx - 1 = Len(plan)
  BY <1>1
<1>3. \A n \in DOMAIN calls : calls[n].request \in 1..idx /\ calls[n].request < idx
  BY DEF HistInv, HistoryInv
<1>4. DOMAIN transport_summary = 1..Len(transport_summary)
  BY <1>1
<1>5. \A n \in DOMAIN calls : calls[n].request \in 1..Len(plan)
  BY <1>1, <1>2, <1>3
<1>6. QED
  BY <1>1, <1>2, <1>4, <1>5

\* The requests that never succeeded, and those that did after a retry.
Lost == {k \in DOMAIN plan : \A n \in CallsOf(k) : calls[n].outcome /= "success"}
Healed == {k \in DOMAIN plan \ Lost : Cardinality(CallsOf(k)) > 1}

\* The reduction counts exactly the lost and the healed requests.
LEMMA EntriesTellRequests ==
  ASSUME TypeInv, HistInv, RollupInv, pc = "done"
  PROVE  /\ {k \in DOMAIN transport_summary : Exhausted(transport_summary[k])} = Lost
         /\ {k \in DOMAIN transport_summary : Recovered(transport_summary[k])} = Healed
<1>1. /\ DOMAIN transport_summary = DOMAIN plan
      /\ DOMAIN plan = 1..Len(transport_summary)
  BY EveryRequestSettled
<1>2. \A k \in DOMAIN plan :
        (transport_summary[k].final_outcome = "success") <=> Happened(k, "success")
  BY <1>1 DEF HistInv, EntriesMatchCalls
<1>3. \A k \in DOMAIN plan : transport_summary[k].attempt_count = Cardinality(CallsOf(k))
  BY <1>1 DEF RollupInv
<1>4. \A k \in DOMAIN plan : k \in Lost <=> Exhausted(transport_summary[k])
  BY <1>2 DEF Lost, Exhausted, Happened
<1>5. \A k \in DOMAIN plan : k \in Healed <=> Recovered(transport_summary[k])
  <2>1. \A k \in DOMAIN plan : k \in Healed <=> k \notin Lost /\ Cardinality(CallsOf(k)) > 1
    BY DEF Healed
  <2>2. QED
    BY <1>3, <1>4, <2>1 DEF Recovered, Exhausted
<1>6. Lost \subseteq DOMAIN plan /\ Healed \subseteq DOMAIN plan
  BY DEF Lost, Healed
<1>7. QED
  BY <1>1, <1>4, <1>5, <1>6

\* Some entry shows a rate limit exactly if some call ended that way.
LEMMA RateLimitShows ==
  ASSUME TypeInv, HistInv, RollupInv, pc = "done"
  PROVE  CountOf(transport_summary, SawRateLimit) > 0
           <=> \E n \in DOMAIN calls : calls[n].outcome = "rate_limit"
<1> DEFINE throttled == {k \in DOMAIN transport_summary : SawRateLimit(transport_summary[k])}
<1>1. /\ DOMAIN transport_summary = DOMAIN plan
      /\ DOMAIN plan = 1..Len(transport_summary)
      /\ DOMAIN plan = 1..Len(plan) /\ Len(plan) \in Nat
      /\ \A n \in DOMAIN calls : calls[n].request \in DOMAIN plan
  BY EveryRequestSettled
<1>2. \A k \in DOMAIN plan :
        SawRateLimit(transport_summary[k]) <=> Happened(k, "rate_limit")
  <2>1. "rate_limit" \in FailureCategory
    BY DEF FailureCategory
  <2>2. \A k \in DOMAIN plan :
          ("rate_limit" \in transport_summary[k].observed
            \/ "rate_limit" = transport_summary[k].failure_category) <=> Happened(k, "rate_limit")
    BY <1>1, <2>1 DEF HistInv, EntriesMatchCalls
  <2>3. \A k \in DOMAIN plan : transport_summary[k].final_outcome = "rate_limit"
                                 => transport_summary[k].failure_category = "rate_limit"
    BY <1>1 DEF RollupInv
  <2>4. QED
    BY <2>2, <2>3 DEF SawRateLimit
<1>3. (throttled /= {}) <=> \E n \in DOMAIN calls : calls[n].outcome = "rate_limit"
  <2>1. ASSUME NEW n \in DOMAIN calls, calls[n].outcome = "rate_limit" PROVE throttled /= {}
    <3>1. PICK k \in DOMAIN plan : k = calls[n].request
      BY <1>1
    <3>2. Happened(k, "rate_limit")
      BY <2>1, <3>1 DEF Happened, CallsOf
    <3>3. k \in throttled
      BY <1>1, <1>2, <3>1, <3>2
    <3>4. QED
      BY <3>3
  <2>2. ASSUME NEW k \in throttled PROVE \E n \in DOMAIN calls : calls[n].outcome = "rate_limit"
    <3>1. Happened(k, "rate_limit")
      BY <1>1, <1>2
    <3>2. QED
      BY <3>1 DEF Happened, CallsOf
  <2>3. QED
    BY <2>1, <2>2
<1>4. IsFiniteSet(throttled)
  <2>1. throttled \in SUBSET (1..Len(plan))
    BY <1>1
  <2>2. IsFiniteSet(1..Len(plan))
    BY <1>1, FS_Interval
  <2> HIDE DEF throttled
  <2>3. QED
    BY <2>1, <2>2, FS_Subset
<1> HIDE DEF throttled
<1>5. (Cardinality(throttled) > 0) <=> throttled /= {}
  BY <1>4, FS_EmptySet, FS_CardinalityType
<1>6. QED
  BY <1>3, <1>5 DEF CountOf, throttled

\* The outcome of the reduction is the outcome of the requests.
LEMMA OutcomeFollows ==
  ASSUME TypeInv, HistInv, RollupInv, pc = "done"
  PROVE  /\ (Len(plan) = 0) <=> (plan = <<>>)
         /\ (Cardinality(Lost) = 0) <=> (Lost = {})
         /\ (Cardinality(Lost) = Len(plan)) <=> (Lost = DOMAIN plan)
<1>1. plan \in Seq(Capability) /\ Len(plan) \in Nat /\ DOMAIN plan = 1..Len(plan)
  BY EveryRequestSettled, PlanAssumption DEF TypeInv, TypeOK
<1>2. (Len(plan) = 0) <=> (plan = <<>>)
  BY <1>1
<1>3. IsFiniteSet(DOMAIN plan) /\ Cardinality(DOMAIN plan) = Len(plan)
  <2>1. 1 \in Int /\ Len(plan) \in Int
    BY <1>1
  <2>2. IsFiniteSet(1..Len(plan)) /\ Cardinality(1..Len(plan)) = IF 1 > Len(plan) THEN 0 ELSE Len(plan) - 1 + 1
    BY <2>1, FS_Interval
  <2>3. QED
    BY <1>1, <2>2
<1>4. Lost \subseteq DOMAIN plan
  BY DEF Lost
<1>5. IsFiniteSet(Lost) /\ (Cardinality(Lost) = Cardinality(DOMAIN plan) => Lost = DOMAIN plan)
  BY <1>3, <1>4, FS_Subset
<1>6. QED
  BY <1>2, <1>3, <1>5, FS_EmptySet

\* What the reduction says of a finished run.
LEMMA RollupOfFinished ==
  ASSUME TypeInv, HistInv, RollupInv
  PROVE  RollupMatchesServer
<1> SUFFICES ASSUME pc = "done" PROVE RollupMatchesServer
  BY DEF RollupMatchesServer
<1> DEFINE r == RollupTransportSummary(transport_summary)
<1>1. /\ Len(plan) \in Nat /\ Len(transport_summary) = Len(plan)
  BY EveryRequestSettled
<1>2. r.total_calls = Len(plan)
  BY <1>1 DEF RollupTransportSummary
<1>3. r.total_attempts = Len(calls)
  BY DEF RollupTransportSummary, RollupInv
<1>4. r.retry_count = Len(calls) - Len(plan)
  BY <1>1 DEF RollupTransportSummary, RollupInv
<1>5. r.cumulative_backoff = Clock - runPacing
  <2>1. r.cumulative_backoff = runBackoff /\ attemptBackoff = 0
    BY DEF RollupTransportSummary, RollupInv
  <2>2. runBackoff \in Nat /\ runPacing \in Nat
    BY DEF TypeInv, TypeOK
  <2>3. QED
    BY <2>1, <2>2 DEF Clock
<1>6. r.recovered_count = Cardinality(Healed) /\ r.exhausted_count = Cardinality(Lost)
  BY EntriesTellRequests DEF RollupTransportSummary, CountOf
<1>7. r.rate_limit_seen <=> \E n \in DOMAIN calls : calls[n].outcome = "rate_limit"
  BY RateLimitShows DEF RollupTransportSummary
<1> HIDE DEF r
<1>8. RunOutcome(r) =
        CASE plan = <<>> -> "none"
          [] Lost = {} -> "success"
          [] Lost = DOMAIN plan -> "exhausted"
          [] OTHER -> "partial"
  BY <1>2, <1>6, OutcomeFollows DEF RunOutcome
<1>9. QED
  BY <1>2, <1>3, <1>4, <1>5, <1>6, <1>7, <1>8 DEF RollupMatchesServer, Lost, Healed, r

\* Whatever the plan, the policy and the server: what the run history indexes of a
\* finished run is what the server answered and what the executor slept.
THEOREM RollupIsTrue == SafeSpec => []RollupMatchesServer
<1>1. TypeInv /\ HistInv /\ RollupInv => RollupMatchesServer
  BY RollupOfFinished
<1>2. QED
  BY <1>1, InitTypeInv, NextTypeInv, InitHistInv, NextHistInv, InitRollupInv, NextRollupInv, PTL
  DEF SafeSpec
=============================================================================
