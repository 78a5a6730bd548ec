---------------------------- MODULE MCEvaluation ----------------------------
(***************************************************************************)
(* An instance of Evaluation for TLC: one item with every contract about a *)
(* lane, one that demands metrics for claims; two models, the second of    *)
(* which does well or throws.                                              *)
(***************************************************************************)
EXTENDS Evaluation

Id(key) == [key |-> key, text |-> key]
Respelt(key) == [key |-> key, text |-> "other case"]

Total(low) == [low |-> low, high |-> low + 2, available |-> 1, unavailable |-> 0]
Lane == [lane |-> "ip", failed |-> FALSE, unparsed |-> 0, rejected |-> 0, ids |-> <<Respelt("a")>>, total |-> Total(8)]

NoDemand ==
  [recommendations |-> {}, dq |-> {}, capabilities |-> {}, lane |-> {}, ids |-> {}, excluded |-> {},
   count |-> {}, unparsed |-> {}, rejected |-> {}, total |-> {}, utilization |-> FALSE, reconcile |-> {}]

LaneItem ==
  [expects |-> [NoDemand EXCEPT !.lane = {"ip"}, !.ids = {<<Id("a")>>}, !.excluded = {{"b"}}, !.count = {1},
                                !.rejected = {1}, !.unparsed = {1}, !.capabilities = {{"lane"}},
                                !.reconcile = {[lane |-> "ip", type |-> "publicip"]}]]
ExcludingItem ==
  [expects |-> [NoDemand EXCEPT !.lane = {"ip"}, !.excluded = {{"b"}}, !.rejected = {1}]]
MetricItem ==
  [expects |-> [NoDemand EXCEPT !.utilization = TRUE, !.recommendations = {1}, !.dq = {{"gap"}}]]

TheDataset == <<LaneItem, ExcludingItem, MetricItem>>
TheSweeps == {<<"one">>, <<"one", "two">>}

-----------------------------------------------------------------------------
(* Runs: lanes that are whole, lost, doubled or other than expected; costs billed *)
(* in one record or two; recommendations that cite in every way there is.         *)

SomeLanes ==
  {<<Lane>>, <<>>, <<Lane, Lane>>, <<[Lane EXCEPT !.failed = TRUE]>>, <<[Lane EXCEPT !.unparsed = 1]>>,
   <<[Lane EXCEPT !.rejected = 1]>>, <<[Lane EXCEPT !.total.available = 0]>>, <<[Lane EXCEPT !.total = Total(4)]>>,
   <<[Lane EXCEPT !.ids = <<Id("a"), Respelt("a")>>]>>, <<[Lane EXCEPT !.lane = "disk"]>>}

Record(id, cap) == [id |-> id, cap |-> cap, intent |-> cap, current |-> TRUE, entries |-> <<>>, summary |-> {}]
Entry(cost, currency) == [type |-> "publicip", cost |-> cost, currency |-> currency]
Cost(id, entries) == [Record(id, "cost") EXCEPT !.entries = entries]
Summary(total) == [Record("s", "lane") EXCEPT !.summary = {SummaryOf([Lane EXCEPT !.total = total])}]

SomeEvidence ==
  {<<Cost("c", <<Entry(2, "USD"), Entry(3, "USD")>>), Summary(Total(8))>>,
   <<Cost("c", <<Entry(2, "USD")>>), Cost("d", <<Entry(3, "USD")>>), Summary(Total(8))>>,
   <<Cost("c", <<Entry(5, "USD")>>), Summary(Total(6))>>,
   <<Cost("c", <<Entry(2, "USD"), Entry(3, "EUR")>>), Summary(Total(8))>>,
   <<[Cost("c", <<Entry(5, "USD")>>) EXCEPT !.current = FALSE], Summary(Total(8))>>}

Fact(id, evidence) == [id |-> id, evidence |-> evidence, says |-> {}]
Facts == <<Fact("fc", {"c"}), Fact("fd", {"d"}), Fact("fs", {"s"})>>
Hyps == <<[id |-> "h", facts |-> {"fc"}, counters |-> {"fs"}, says |-> {}]>>

Rec(facts, hyps, says, amounts) ==
  [id |-> "r", facts |-> facts, hyps |-> hyps, says |-> says, amounts |-> amounts, ranges |-> {<<8, 10>>}]
Framed == {"billed", "list_price", "qualified"}

SomeRecs ==
  {<<Rec({"fc", "fd", "fs"}, {}, Framed, <<5>>)>>, <<Rec({"fc"}, {"h"}, Framed, <<5>>)>>,
   <<Rec({"fd"}, {"h"}, Framed, <<2, 3>>)>>, <<Rec({"fc", "fd"}, {}, Framed, <<5>>)>>,
   <<Rec({"fc", "fs"}, {}, Framed, <<2>>)>>, <<Rec({"fc", "fs"}, {}, Framed \union {"unqualified"}, <<5>>)>>, <<>>}

LaneRun(lanes, evidence, recs) ==
  [lanes |-> lanes, evidence |-> evidence, facts |-> Facts, hyps |-> Hyps, recs |-> recs, dq |-> {}, capabilities |-> {"lane"}]

\* Claims of one kind each, with a metric behind them or a cost.
MetricRun(where, cites, dq) ==
  LET says(w) == IF w = where THEN {"assertive"} ELSE {}
      rec(says_, facts) == [Rec(facts, {}, says_, <<>>) EXCEPT !.hyps = IF where = "rec" THEN {"h"} ELSE {}]
  IN [lanes |-> <<>>, evidence |-> <<[Record("m", "metric") EXCEPT !.intent = "utilization"], Record("c", "cost")>>,
      facts |-> <<[id |-> "f", evidence |-> {cites}, says |-> says("fact")]>>,
      hyps |-> <<[id |-> "h", facts |-> {"f"}, counters |-> {}, says |-> says("hyp")]>>,
      recs |-> IF where = "namesake" THEN <<rec({}, {"f"}), rec({"assertive"}, {})>>
               ELSE <<rec(says("rec"), {"f"})>>,
      dq |-> dq, capabilities |-> {}]

Runs(i) ==
  IF i = 3 THEN {MetricRun(where, cites, dq) : where \in {"fact", "hyp", "rec", "namesake"}, cites \in {"m", "c"}, dq \in {{}, {"gap"}}}
  ELSE {LaneRun(lanes, evidence, recs) : lanes \in SomeLanes, evidence \in SomeEvidence, recs \in SomeRecs}

Good(i) ==
  IF i = 3 THEN MetricRun("rec", "m", {"gap"})
  ELSE LaneRun(<<Lane>>, <<Cost("c", <<Entry(5, "USD")>>), Summary(Total(8))>>, <<Rec({"fc", "fs"}, {}, Framed, <<5>>)>>)

\* A server that keeps all, or all but what the scores come to.
SomeRefusals == {{}, {"passed_all"}}

\* Traced are the first two items with the first model, the first with the second.
SomeOutcomes(name, i) ==
  {Threw}
  \union {[threw |-> FALSE, run |-> Good(i), rubrics |-> rubrics, traced |-> traced] :
             rubrics \in BOOLEAN, traced \in IF i = 1 \/ (name = "one" /\ i = 2) THEN BOOLEAN ELSE {FALSE}}
  \union (IF name = "two" THEN {}
          ELSE {[threw |-> FALSE, run |-> run, rubrics |-> TRUE, traced |-> FALSE] : run \in Runs(i)})
=============================================================================
