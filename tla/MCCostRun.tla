----------------------------- MODULE MCCostRun -----------------------------
(***************************************************************************)
(* Instances of CostRun for TLC: answers of every kind the assessment      *)
(* tells apart, and the scopes and plans of the runs.                      *)
(***************************************************************************)
EXTENDS CostRun

CONSTANTS s1, s2, r1, r2

Answer(shape, total, sum, parts, ids) ==
  [shape |-> shape, total |-> total, sum |-> sum, parts |-> parts, ids |-> ids]

AskedIds(sub) == {<<sub, "asked">>}

\* An ordinary total and a zero, each for either subscription.
Plain(subs) ==
  {Answer("structured", amount, amount, IF amount = "zero" THEN {} ELSE {"nonzero"}, AskedIds(sub)) :
     amount \in {"zero", "nonzero"}, sub \in subs}

\* A zero total over rows that are not zero, and one over invalid rows.
Contradictory == Answer("structured", "zero", "zero", {"nonzero"}, AskedIds(s1))
Invalid == Answer("structured", "zero", "zero", {"invalid"}, AskedIds(s1))

\* No total, a total only in part, a total that is lost in rounding or without
\* dates, rows that cancel out, a table that says zero, and text.
Headless == Answer("structured", "none", "none", {"nonzero"}, AskedIds(s1))
Partial == Answer("structured", "none", "zero", {}, AskedIds(s1) \union AskedIds(s2))
Rounded == Answer("structured", "nonzero", "zero", {"nonzero"}, AskedIds(s1))
Table == Answer("tabular", "nonzero", "nonzero", {"nonzero"}, {})
Undated == Answer("tabular", "nonzero", "zero", {"nonzero"}, {})
CancellingTable == Answer("tabular", "zero", "nonzero", {"nonzero"}, {})
ZeroTable == Answer("tabular", "zero", "zero", {}, {})
Text == Answer("unreadable", "none", "none", {}, {})

AllAnswers == Plain({s1, s2}) \union
  {Contradictory, Invalid, Headless, Partial, Rounded, Table, Undated, CancellingTable, ZeroTable, Text}
PlainAnswers == Plain({s1})

AnyCounts == [Sub -> {"zero", "some"}] \union {[sub \in Sub |-> "invalid"]}

Windows == {[from |-> from, to |-> to] : from, to \in -2..4}

\* The month ends when the clock starts.
TheMonth == [from |-> 0, to |-> 1]
Months == {TheMonth}

Summary(subs, from, to) ==
  [type |-> "cost_summary", subs |-> subs, from |-> from, to |-> to,
   baseFrom |-> Omitted, baseTo |-> Omitted]
Surprise(subs, baseTo) ==
  [type |-> "cost_surprise", subs |-> subs, from |-> Omitted, to |-> Omitted,
   baseFrom |-> Omitted, baseTo |-> baseTo]

\* The month, a window that ends now, one that has no length, and a surprise.
OneMonth == Summary(<<s1>>, 0, 1)
AllInputs ==
  {OneMonth, Summary(<<s1, s2>>, 0, 1), Summary(<<s1>>, Omitted, Omitted), Summary(<<s1>>, 1, 1),
   Surprise(<<s1>>, Omitted)}
OneSurprise == {Surprise(<<s1>>, Omitted)}
NoPlans == {}

\* A run alone meets everything; two runs analyse the month and meet plain answers.
Simple(s) ==
  s.at \notin {"idle", "rejected"} =>
    /\ s.scope = IntakeScope(OneMonth)
    /\ \A k \in DOMAIN s.raw :
         IF IsCost(s.raw[k]) THEN s.raw[k].answer \in PlainAnswers ELSE s.raw[k].answer[s2] = "some"

\* The processes are alike: r1 is the one that starts first.
AloneOrSimple ==
  \/ run[r2].at = "idle"
  \/ run[r1].at /= "idle" /\ Simple(run[r1]) /\ Simple(run[r2])
=============================================================================
