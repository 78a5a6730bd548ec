---------------------------- MODULE MCReasoning ----------------------------
(***************************************************************************)
(* An instance of Reasoning for TLC: answers that dangle, use an id twice, *)
(* invent numbers, cite quarantined records, overclaim and command.        *)
(***************************************************************************)
EXTENDS Reasoning

Record(id, source, numbers, resource) ==
  [id |-> id, source |-> source, numbers |-> numbers, resource |-> resource]

Pools ==
  {{Record("e1", "live", {10}, NoResource), Record("e2", "waste", {90}, "ip")},
   {Record("e1", "quarantined", {10}, NoResource), Record("e2", "waste", {90}, "ip")}}

F(id, ids, numbers, names) == [id |-> id, evidence |-> ids, numbers |-> numbers, names |-> names]

\* Two facts share an id; numbers lie inside and outside the tolerance, or in
\* another record than the one cited.
SomeFacts ==
  {F("f1", {"e1"}, {14}, {}), F("f1", {"e1", "ghost"}, {50}, {}), F("f2", {"e1"}, {90}, {"ip"}),
   F("f3", {"e2"}, {}, {"ip"})}

Strong == [coverage |-> "strong", quality |-> "strong", agreement |-> "aligned"]
Thin == [coverage |-> "partial", quality |-> "strong", agreement |-> "aligned"]
Mixed == [coverage |-> "strong", quality |-> "strong", agreement |-> "mixed"]

H(id, support, counter, missing, dims) ==
  [id |-> id, support |-> support, counter |-> counter, missing |-> missing,
   dims |-> dims, level |-> "high"]

SomeHypotheses ==
  {H("h1", {"f1"}, {}, {}, Strong), H("h1", {"f3"}, {"f2"}, {}, Thin),
   H("h2", {"f3"}, {}, {"d1"}, Mixed), H("h3", {}, {}, {}, Strong)}

R(hypotheses, facts, commands, money, dims) ==
  [id |-> "r", hypotheses |-> hypotheses, facts |-> facts, commands |-> commands,
   money |-> money, dims |-> dims, level |-> "high"]

SomeRecommendations ==
  {R({"h1"}, {}, {}, "none", Strong), R({"h1", "h2"}, {"f1"}, {}, "range_with_source", Thin),
   R({}, {"f2"}, {"actions"}, "none", Strong),
   [R({"h2"}, {}, {}, "none", Strong) EXCEPT !.level = "low"], R({"h3"}, {}, {"validation"}, "point", Strong),
   R({"h2"}, {"f3"}, {}, "observed", Mixed)}

AtMost(n, items) == {some \in SUBSET items : Cardinality(some) <= n}

SomeAnswers ==
  {[facts |-> facts, hypotheses |-> hypotheses, recommendations |-> recommendations,
    findings |-> findings] :
     facts \in SUBSET SomeFacts, hypotheses \in AtMost(2, SomeHypotheses),
     recommendations \in AtMost(2, SomeRecommendations), findings \in {{}, {[id |-> "d1"]}}}
=============================================================================
