---------------------------- MODULE RequestLedger ----------------------------
(***************************************************************************)
(* What evidence retrieval promises its callers, without saying how: every *)
(* logical request of the plan is resolved once, in plan order, either as  *)
(* evidence or as a classified failure, and the three lists handed back    *)
(* agree with each other. The caller gets all of it, or (an unrecoverable  *)
(* error) none of it. EvidenceExecutor implements this specification.      *)
(***************************************************************************)
EXTENDS Naturals, Sequences

CONSTANT Plans        \* the evidence plans a caller may submit

VARIABLES
  plan,               \* the submitted plan, a sequence of capabilities
  ledger,             \* one verdict per resolved request, in plan order
  evidence,           \* positions of the requests that produced evidence
  failed,             \* how many requests were resolved as failures
  status              \* "open", "complete" or "aborted"

vars == <<plan, ledger, evidence, failed, status>>

Verdict == {"evidence", "failure"}

Init ==
  /\ plan \in Plans
  /\ ledger = <<>>
  /\ evidence = <<>>
  /\ failed = 0
  /\ status = "open"

\* The next unresolved request of the plan gets its verdict.
Resolve(verdict) ==
  /\ status = "open"
  /\ Len(ledger) < Len(plan)
  /\ ledger' = Append(ledger, verdict)
  /\ evidence' = IF verdict = "evidence"
                 THEN Append(evidence, Len(ledger) + 1)
                 ELSE evidence
  /\ failed' = IF verdict = "failure" THEN failed + 1 ELSE failed
  /\ UNCHANGED <<plan, status>>

\* The result is handed back only once every request has its verdict.
Complete ==
  /\ status = "open"
  /\ Len(ledger) = Len(plan)
  /\ status' = "complete"
  /\ UNCHANGED <<plan, ledger, evidence, failed>>

\* An unrecoverable error escapes; nothing is handed back.
Abort ==
  /\ status = "open"
  /\ status' = "aborted"
  /\ UNCHANGED <<plan, ledger, evidence, failed>>

Next ==
  \/ \E verdict \in Verdict : Resolve(verdict)
  \/ Complete
  \/ Abort

SafeSpec == Init /\ [][Next]_vars

Spec == SafeSpec /\ WF_vars(Next)
=============================================================================
