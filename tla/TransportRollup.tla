--------------------------- MODULE TransportRollup ---------------------------
(***************************************************************************)
(* The reduction of transport entries to a run-level rollup, as the report *)
(* and the run history read it.                                            *)
(***************************************************************************)
EXTENDS Integers, Sequences, FiniteSets

Recovered(e) == e.attempt_count > 1 /\ e.final_outcome = "success"
Exhausted(e) == e.final_outcome /= "success"

\* Mutant: only a terminal 429 counts.
SawRateLimit_FinalOnly(e) == e.final_outcome = "rate_limit"

\* A 429 on any attempt of the request, terminal or recovered.
SawRateLimit(e) ==
  \/ e.final_outcome = "rate_limit"
  \/ e.failure_category = "rate_limit"
  \/ "rate_limit" \in e.observed

\* The sum of a sequence of amounts.
TotalOf(amounts) ==
  LET total[n \in 0..Len(amounts)] == IF n = 0 THEN 0 ELSE total[n - 1] + amounts[n]
  IN total[Len(amounts)]

CountOf(entries, Test(_)) == Cardinality({k \in DOMAIN entries : Test(entries[k])})

Attempts(entries) == [k \in DOMAIN entries |-> entries[k].attempt_count]
Retries(entries) == [k \in DOMAIN entries |-> entries[k].attempt_count - 1]
Backoffs(entries) == [k \in DOMAIN entries |-> entries[k].backoff]

RollupTransportSummary(entries) ==
  [total_calls |-> Len(entries),
   total_attempts |-> TotalOf(Attempts(entries)),
   retry_count |-> TotalOf(Retries(entries)),
   recovered_count |-> CountOf(entries, Recovered),
   exhausted_count |-> CountOf(entries, Exhausted),
   rate_limit_seen |-> CountOf(entries, SawRateLimit) > 0,
   cumulative_backoff |-> TotalOf(Backoffs(entries))]

RunOutcome(rollup) ==
  CASE rollup.total_calls = 0 -> "none"
    [] rollup.exhausted_count = 0 -> "success"
    [] rollup.exhausted_count = rollup.total_calls -> "exhausted"
    [] OTHER -> "partial"
=============================================================================
