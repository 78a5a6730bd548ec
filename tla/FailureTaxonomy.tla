-------------------------- MODULE FailureTaxonomy --------------------------
(***************************************************************************)
(* How a failed call gets its category: by its class, by a status code it  *)
(* carries, by what its message says, and, for cost payloads that arrive   *)
(* as a success, by the errors of their subscriptions.                     *)
(*                                                                         *)
(* A message is the set of the rules of classifyFailure it matches.        *)
(***************************************************************************)
EXTENDS Naturals, Sequences, FiniteSetsExt

Category ==
  {"auth", "authz_gap", "unsupported_capability", "invalid_scope", "timeout", "rate_limit",
   "schema_mismatch", "empty_result"}

Retriable == {"rate_limit", "timeout"}

NoStatus == 0

\* What a message may say, in the order in which it is asked.
Word == <<"timeout", "rate_limit", "unauthorized", "forbidden", "not_found", "empty_result">>

CategoryOfWord ==
  [timeout |-> "timeout", rate_limit |-> "rate_limit", unauthorized |-> "auth",
   forbidden |-> "authz_gap", not_found |-> "unsupported_capability",
   empty_result |-> "empty_result"]

CategoryByWords(words) ==
  LET said == {k \in DOMAIN Word : Word[k] \in words}
  IN IF said = {} THEN "schema_mismatch" ELSE CategoryOfWord[Word[Min(said)]]

\* Other codes, 500 among them, are left to the words.
CategoryOfStatus(status) ==
  CASE status = 401 -> "auth"
    [] status = 403 -> "authz_gap"
    [] status = 404 -> "unsupported_capability"
    [] status \in {408, 502, 503, 504} -> "timeout"
    [] status = 429 -> "rate_limit"
    [] status \in {400, 422} -> "invalid_scope"

KnownStatus == {400, 401, 403, 404, 408, 422, 429, 502, 503, 504}

\* Mutant: the words of a message are asked before the status it came with.
ClassifyFailure_WordsFirst(err) ==
  CASE err.class = "embedded" -> err.category
    [] err.class \in {"not_allowed", "fixture_missing"} -> "unsupported_capability"
    [] err.class = "fixture_bad" -> "schema_mismatch"
    [] err.class = "error" ->
         IF err.words = {} /\ err.status \in KnownStatus THEN CategoryOfStatus(err.status)
         ELSE CategoryByWords(err.words)

\* The one class left out, a call before discovery, is thrown on.
ClassifyFailure(err) ==
  CASE err.class = "embedded" -> err.category
    [] err.class \in {"not_allowed", "fixture_missing"} -> "unsupported_capability"
    [] err.class = "fixture_bad" -> "schema_mismatch"
    [] err.class = "error" ->
         IF err.status \in KnownStatus THEN CategoryOfStatus(err.status)
         ELSE CategoryByWords(err.words)

-----------------------------------------------------------------------------
(* Cost payloads. A row is one subscription: what its error says, and       *)
(* whether its numbers are all empty.                                       *)

Row == [says : {"nothing", "rate_limit", "auth", "authz_gap", "other"}, blank : BOOLEAN]

\* Mutant: the first error decides.
InspectCostPayload_FirstRow(rows) ==
  LET told == {k \in DOMAIN rows : rows[k].says /= "nothing"}
  IN IF told = {} THEN {}
     ELSE LET says == rows[Min(told)].says
          IN IF says = "other" THEN {"schema_mismatch"} ELSE {says}

\* A 429 anywhere comes first; an unknown error counts only if the row is blank.
InspectCostPayload(rows) ==
  LET Says(what) == \E k \in DOMAIN rows : rows[k].says = what
      unclassified == \E k \in DOMAIN rows : rows[k].says = "other" /\ rows[k].blank
  IN CASE Says("rate_limit") -> {"rate_limit"}
       [] ~Says("rate_limit") /\ Says("auth") -> {"auth"}
       [] ~Says("rate_limit") /\ ~Says("auth") /\ Says("authz_gap") -> {"authz_gap"}
       [] OTHER -> IF unclassified THEN {"schema_mismatch"} ELSE {}
=============================================================================
