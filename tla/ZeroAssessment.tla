--------------------------- MODULE ZeroAssessment ---------------------------
(***************************************************************************)
(* What a batch of answers proves about cost: the assessment of zero and   *)
(* missing totals, and what the cost provider's summary makes of the same  *)
(* payloads. Two code paths read a payload and must agree.                 *)
(*                                                                         *)
(* Amounts matter only as far as they are zero, not zero, or missing.      *)
(***************************************************************************)
EXTENDS Naturals, Sequences, FiniteSets

CONSTANTS
  Sub,           \* subscriptions
  Spelling,      \* letter cases of an id; requests and scopes use "asked"
  Window,        \* time windows
  NoWindow

ASSUME SpellingAssumption == "asked" \in Spelling

Amount == {"zero", "nonzero", "none"}

Id == Sub \X Spelling

\* What a request asks. Two requests share a parameters digest, and so an
\* evidence id, exactly if they are equal.
Request ==
  [capability : {"cost"}, subs : (SUBSET Sub) \ {{}}, window : Window]
  \union [capability : {"inventory"}, subs : {{}}, window : {NoWindow}]

\* The total the provider's summary makes of a payload. It differs from the
\* assessment's where only some subscriptions carry one, where rows have no date
\* or no cost column, and where rounding to cents leaves nothing.
SummaryFits(p) ==
  /\ p.shape = "structured" =>
       /\ p.sum = "none" => p.total = "none"
       /\ p.total = "zero" => p.sum = "zero"
  /\ p.shape = "tabular" =>
       /\ p.total = "none" => p.sum = "none"
       /\ p.total = "zero" /\ p.sum = "nonzero" => "nonzero" \in p.parts
  /\ p.shape = "unreadable" => p.sum = "none"

\* A cost payload: its total as the assessment reads it, its total in the
\* summary, whether some row or dimension is not zero or is invalid, and the
\* subscription ids it returns.
Payload ==
  {p \in [shape : {"structured", "tabular", "unreadable"}, total : Amount, sum : Amount,
          parts : SUBSET {"nonzero", "invalid"}, ids : SUBSET Id] :
     /\ p.shape /= "structured" => p.ids = {}
     /\ p.shape = "unreadable" => p.total = "none" /\ p.parts = {}
     /\ SummaryFits(p)}

\* The inventory: the resource count of each subscription, as far as given.
Counts == [Sub -> {"zero", "some", "none", "invalid"}]

RawEvidence ==
  {raw \in [request : Request, answer : Payload \union Counts, at : Nat] :
     raw.answer \in Payload <=> raw.request.capability = "cost"}

-----------------------------------------------------------------------------
(* The assessment. *)

IsCost(raw) == raw.request.capability = "cost"

Normalized(ids) == {id[1] : id \in ids}

\* Ids are compared without case; one that is returned twice does not match.
ReturnedScope(raw) ==
  IF raw.answer.shape /= "structured" THEN "unknown"
  ELSE IF /\ Normalized(raw.answer.ids) = raw.request.subs
          /\ \A id1, id2 \in raw.answer.ids : id1[1] = id2[1] => id1 = id2
       THEN "matched" ELSE "mismatched"

AsksFor(raw, sub) == IsCost(raw) /\ raw.request.subs = {sub}

HasAdjacentNonZero(batch, k) ==
  \E sub \in Sub : AsksFor(batch[k], sub) /\
    \E j \in DOMAIN batch \ {k} : AsksFor(batch[j], sub) /\ batch[j].answer.total = "nonzero"

\* An invalid count spoils the subscription, a positive one wins over zero.
ReportedEmpty(batch, sub) ==
  LET counts == {batch[j].answer[sub] : j \in {j \in DOMAIN batch : ~IsCost(batch[j])}}
  IN "zero" \in counts /\ counts \subseteq {"zero", "none"}

\* The decisions in their order; "no_entry" for an ordinary total.
Assess(batch, k) ==
  LET p == batch[k].answer
      scope == ReturnedScope(batch[k])
  IN IF p.total = "none" /\ "nonzero" \in p.parts THEN "cost_zero_suspected"
     ELSE IF p.total = "none" THEN "zero_unresolved"
     ELSE IF scope = "mismatched" THEN "cost_scope_mismatch"
     ELSE IF p.total /= "zero" THEN "no_entry"
     ELSE IF "nonzero" \in p.parts THEN "cost_zero_suspected"
     ELSE IF "invalid" \in p.parts THEN "zero_unresolved"
     ELSE IF HasAdjacentNonZero(batch, k) THEN "cost_zero_suspected"
     ELSE IF scope = "matched" /\ \E sub \in Sub : AsksFor(batch[k], sub) /\ ReportedEmpty(batch, sub)
          THEN "valid_zero"
     ELSE "zero_unresolved"

\* The places of the batch that have an entry.
Entries(batch) == {k \in DOMAIN batch : IsCost(batch[k]) /\ Assess(batch, k) /= "no_entry"}

IsQuarantined(batch, request) ==
  \E k \in Entries(batch) : batch[k].request = request /\ Assess(batch, k) /= "valid_zero"

\* Mutant: an entry, whatever it says, vouches for the zero.
FindZeroAssessment_Any(batch, k) ==
  IF \E j \in Entries(batch) : batch[j].request = batch[k].request
  THEN "valid_zero" ELSE "no_entry"

\* Entries are found by capability and digest, the first one that fits.
FindZeroAssessment(batch, k) ==
  LET fitting == {j \in Entries(batch) : batch[j].request = batch[k].request}
  IN IF fitting = {} THEN "no_entry"
     ELSE Assess(batch, CHOOSE j \in fitting : \A i \in fitting : j <= i)

-----------------------------------------------------------------------------
(* What an answer is worth, said without the order of the decisions. *)

\* A zero is proved: nothing in the payload or the batch speaks against it, and
\* the inventory says the subscription is empty.
ProvedZero(batch, k) ==
  /\ batch[k].answer.total = "zero" /\ batch[k].answer.parts = {}
  /\ ReturnedScope(batch[k]) = "matched"
  /\ ~HasAdjacentNonZero(batch, k)
  /\ \E sub \in Sub : batch[k].request.subs = {sub} /\ ReportedEmpty(batch, sub)

\* Cost evidence is sound if it has a total, is not about other subscriptions,
\* and a zero is proved.
Sound(batch, k) ==
  /\ batch[k].answer.total /= "none"
  /\ ReturnedScope(batch[k]) /= "mismatched"
  /\ batch[k].answer.total = "zero" => ProvedZero(batch, k)
=============================================================================
