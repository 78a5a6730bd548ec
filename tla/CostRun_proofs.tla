--------------------------- MODULE CostRun_proofs ---------------------------
(***************************************************************************)
(* Proofs about CostRun: whatever the server answers, however many runs    *)
(* share the cache and in whatever order they proceed, only sound answers  *)
(* about a stable month become durable, what is durable is served, and the *)
(* evidence, the coverage and the status say what was retrieved. Plans are *)
(* those of the playbooks, and no scope repeats a subscription.            *)
(***************************************************************************)
EXTENDS CostRun, FiniteSetTheorems, TLAPS

\* Without it the second of two equal requests is judged by the assessment of the
\* first, and a planner may store the answer to another window in the month's cell.
NothingIsRepeated ==
  /\ PlannerPlans = {}
  /\ \A input \in Inputs : \A j, k \in DOMAIN input.subs : input.subs[j] = input.subs[k] => j = k

-----------------------------------------------------------------------------
(* The assessment. *)

\* A total that is no entry is an ordinary one: there is a total, it is not zero,
\* and it is not about other subscriptions.
LEMMA OrdinaryTotal ==
  ASSUME NEW batch, NEW k, Assess(batch, k) = "no_entry"
  PROVE  /\ batch[k].answer.total /= "none" /\ batch[k].answer.total /= "zero"
         /\ ReturnedScope(batch[k]) /= "mismatched"
BY DEF Assess

\* An answer assessed as a valid zero is sound.
LEMMA ValidZero ==
  ASSUME NEW batch, NEW k, Assess(batch, k) = "valid_zero", batch[k].answer \in Payload
  PROVE  Sound(batch, k)
<1>1. /\ batch[k].answer.total = "zero"
      /\ "nonzero" \notin batch[k].answer.parts /\ "invalid" \notin batch[k].answer.parts
      /\ ~HasAdjacentNonZero(batch, k) /\ ReturnedScope(batch[k]) = "matched"
      /\ \E sub \in Sub : AsksFor(batch[k], sub) /\ ReportedEmpty(batch, sub)
  BY DEF Assess
<1>2. batch[k].answer.parts \subseteq {"nonzero", "invalid"}
  BY DEF Payload
<1>3. batch[k].answer.parts = {}
  BY <1>1, <1>2
<1>4. ProvedZero(batch, k)
  BY <1>1, <1>3 DEF ProvedZero, AsksFor
<1>5. QED
  BY <1>1, <1>4 DEF Sound

\* In a batch that repeats no request, an answer is judged by its own assessment.
LEMMA OwnAssessment ==
  ASSUME NEW batch, NEW k \in DOMAIN batch, k \in Nat, IsCost(batch[k]),
         \A j \in DOMAIN batch : batch[j].request = batch[k].request => j = k
  PROVE  FindZeroAssessment(batch, k) = Assess(batch, k)
<1> DEFINE fitting == {j \in Entries(batch) : batch[j].request = batch[k].request}
<1>1. fitting \subseteq {k}
  BY DEF Entries
<1>2. CASE Assess(batch, k) = "no_entry"
  <2>1. fitting = {}
    BY <1>1, <1>2 DEF Entries
  <2>2. QED
    BY <1>2, <2>1 DEF FindZeroAssessment
<1>3. CASE Assess(batch, k) /= "no_entry"
  <2>1. fitting = {k}
    BY <1>1, <1>3 DEF Entries
  <2>2. k <= k
    OBVIOUS
  <2>3. (CHOOSE j \in fitting : \A i \in fitting : j <= i) = k
    BY <2>1, <2>2
  <2>4. FindZeroAssessment(batch, k) =
          Assess(batch, CHOOSE j \in fitting : \A i \in fitting : j <= i)
    BY <2>1 DEF FindZeroAssessment
  <2>5. QED
    BY <2>3, <2>4
<1>4. QED
  BY <1>2, <1>3

\* What is written through is sound.
LEMMA WrittenIsSound ==
  ASSUME NEW batch, NEW k \in DOMAIN batch, k \in Nat, IsCost(batch[k]),
         batch[k].answer \in Payload,
         \A j \in DOMAIN batch : batch[j].request = batch[k].request => j = k,
         BuildCacheRecord(batch, k) /= NoRecord
  PROVE  /\ Sound(batch, k)
         /\ BuildCacheRecord(batch, k).request = batch[k].request
         /\ BuildCacheRecord(batch, k).answer = batch[k].answer
<1>1. FindZeroAssessment(batch, k) \in {"no_entry", "valid_zero"}
  BY DEF BuildCacheRecord
<1>2. Assess(batch, k) \in {"no_entry", "valid_zero"}
  BY <1>1, OwnAssessment
<1>3. Sound(batch, k)
  <2>1. CASE Assess(batch, k) = "no_entry"
    BY <2>1, OrdinaryTotal DEF Sound
  <2>2. CASE Assess(batch, k) = "valid_zero"
    BY <2>2, ValidZero
  <2>3. QED
    BY <1>2, <2>1, <2>2
<1>4. QED
  BY <1>3 DEF BuildCacheRecord

-----------------------------------------------------------------------------
(* Plans. *)

\* The requests a playbook is made of.
LEMMA RequestFields ==
  /\ InventoryRequest.capability = "inventory"
  /\ \A sub, window : LET request == CostRequest(sub, window)
       IN request.capability = "cost" /\ request.subs = {sub} /\ request.window = window
BY DEF InventoryRequest, CostRequest

\* The playbook of an eligible scope asks for each subscription once, about the month.
LEMMA PlaybookAsksOnce ==
  ASSUME NEW scope, scope.subs \in Seq(Sub), scope.window \in Month,
         \A j, k \in DOMAIN scope.subs : scope.subs[j] = scope.subs[k] => j = k
  PROVE  LET plan == CostSummaryPlaybook(scope)
         IN /\ plan \in Seq(Request)
            /\ \A j, k \in DOMAIN plan : plan[j] = plan[k] => j = k
            /\ \A k \in DOMAIN plan : plan[k].capability = "cost" => plan[k].window = scope.window
<1> DEFINE asked == [k \in DOMAIN scope.subs |-> CostRequest(scope.subs[k], scope.window)]
           plan == CostSummaryPlaybook(scope)
           n == Len(scope.subs)
<1>1. InventoryRequest \in Request /\ \A sub \in Sub : CostRequest(sub, scope.window) \in Request
  BY RunAssumption DEF InventoryRequest, CostRequest, Request
<1>2. n \in Nat /\ DOMAIN scope.subs = 1..n
  OBVIOUS
<1>3. asked \in Seq(Request) /\ Len(asked) = n /\ DOMAIN asked = 1..n
  BY <1>1, <1>2
<1>4. <<InventoryRequest>> \in Seq(Request) /\ Len(<<InventoryRequest>>) = 1
  BY <1>1
<1>5. plan = <<InventoryRequest>> \o asked
  BY DEF CostSummaryPlaybook
<1> HIDE DEF asked, plan
<1>6. plan \in Seq(Request) /\ Len(plan) = n + 1 /\ DOMAIN plan = 1..(n + 1)
  BY <1>2, <1>3, <1>4, <1>5
<1>7. plan[1] = InventoryRequest
  BY <1>3, <1>4, <1>5
<1>8. ASSUME NEW k \in 2..(n + 1)
      PROVE  plan[k] = CostRequest(scope.subs[k - 1], scope.window)
  <2>1. plan[k] = asked[k - 1] /\ k - 1 \in 1..n
    BY <1>2, <1>3, <1>4, <1>5
  <2>2. QED
    BY <1>2, <2>1 DEF asked
<1>9. \A k \in DOMAIN plan : k = 1 \/ k \in 2..(n + 1)
  BY <1>2, <1>6
<1>10. ASSUME NEW j \in DOMAIN plan, NEW k \in DOMAIN plan, plan[j] = plan[k]
       PROVE  j = k
  <2>1. CASE j = 1 \/ k = 1
    BY <1>7, <1>8, <1>9, <1>10, <2>1, RequestFields
  <2>2. CASE j \in 2..(n + 1) /\ k \in 2..(n + 1)
    <3>1. scope.subs[j - 1] = scope.subs[k - 1]
      <4>1. plan[j].subs = {scope.subs[j - 1]} /\ plan[k].subs = {scope.subs[k - 1]}
        BY <1>8, <2>2, RequestFields
      <4>2. QED
        BY <1>10, <4>1
    <3>2. j - 1 \in 1..n /\ k - 1 \in 1..n /\ j \in Int /\ k \in Int
      BY <1>2, <2>2
    <3>3. j - 1 = k - 1
      BY <1>2, <3>1, <3>2
    <3>4. QED
      BY <3>2, <3>3
  <2>3. QED
    BY <1>9, <2>1, <2>2
<1>11. \A k \in DOMAIN plan : plan[k].capability = "cost" => plan[k].window = scope.window
  BY <1>7, <1>8, <1>9, RequestFields
<1>12. QED
  BY <1>6, <1>10, <1>11 DEF plan

-----------------------------------------------------------------------------
(* Steps. *)

\* A run that may use the cache asks for every subscription once.
LEMMA StartIsOrderly ==
  ASSUME NothingIsRepeated, IInv, NEW r \in Run, Start(r)
  PROVE  \E t : Continue(r, t) /\ RunIsOrderly(t)
<1>1. PICK input \in Inputs : \E plan \in {SelectPlaybook(IntakeScope(input))} \union PlannerPlans :
        Continue(r, [at |-> "serve", i |-> 1, scope |-> IntakeScope(input), plan |-> plan,
                     eligible |-> Eligible(IntakeScope(input)), served |-> {}, remaining |-> <<>>,
                     raw |-> <<>>, failed |-> {}, status |-> "none",
                     until |-> FirstTime, fresh |-> {}])
  BY DEF Start
<1> DEFINE scope == IntakeScope(input)
           t == [at |-> "serve", i |-> 1, scope |-> scope, plan |-> SelectPlaybook(scope),
                 eligible |-> Eligible(scope), served |-> {}, remaining |-> <<>>,
                 raw |-> <<>>, failed |-> {}, status |-> "none",
                 until |-> FirstTime, fresh |-> {}]
<1>2. Continue(r, t)
  BY <1>1 DEF NothingIsRepeated
<1>3. ASSUME Eligible(scope)
      PROVE  /\ scope.window \in Month /\ Matured(scope.window)
             /\ AsksOnce(t) /\ RemainsOnce(t) /\ AnsweredOnce(t)
  <2>1. /\ scope.type = "cost_summary" /\ scope.window \in Month /\ Matured(scope.window)
        /\ scope.subs = input.subs /\ input.subs \in Seq(Sub)
    BY <1>3, RunAssumption DEF Eligible, IntakeScope, Input
  <2>2. t.plan = CostSummaryPlaybook(scope)
    BY <2>1 DEF SelectPlaybook
  <2>3. AsksOnce(t)
    <3>1. \A j, k \in DOMAIN scope.subs : scope.subs[j] = scope.subs[k] => j = k
      BY <2>1 DEF NothingIsRepeated
    <3> HIDE DEF scope
    <3>2. QED
      BY <2>1, <2>2, <3>1, PlaybookAsksOnce DEF AsksOnce
  <2>4. RemainsOnce(t) /\ AnsweredOnce(t)
    BY DEF RemainsOnce, AnsweredOnce
  <2>5. QED
    BY <2>1, <2>3, <2>4
<1>4. RunIsOrderly(t)
  BY <1>3 DEF RunIsOrderly
<1>5. QED
  BY <1>2, <1>4


\* A request is lifted out of the plan: what remains is as before.
LEMMA ServeHitIsOrderly ==
  ASSUME IInv, NEW r \in Run, ServeHit(r)
  PROVE  \E t : Continue(r, t) /\ RunIsOrderly(t)
<1> DEFINE s == run[r]
<1>1. PICK served : /\ s.at = "serve" /\ s.i <= Len(s.plan)
                    /\ Continue(r, [s EXCEPT !.i = @ + 1, !.served = served])
  BY DEF ServeHit
<1> DEFINE t == [s EXCEPT !.i = @ + 1, !.served = served]
<1>2. RunIsOrderly(s)
  BY DEF IInv
<1> HIDE DEF s
<1>3. RunIsOrderly(t)
  <2>1. /\ DOMAIN t = DOMAIN s /\ t.i = s.i + 1 /\ s.i \in Nat \ {0} /\ t.at = s.at
        /\ t.eligible = s.eligible /\ t.scope = s.scope /\ t.plan = s.plan
        /\ t.remaining = s.remaining /\ t.raw = s.raw
    BY <1>1, <1>2 DEF RunIsOrderly
  <2> HIDE DEF t
  <2>2. ASSUME s.eligible
        PROVE  AsksOnce(t) /\ RemainsOnce(t) /\ AnsweredOnce(t)
    <3>1. AsksOnce(s) /\ RemainsOnce(s) /\ AnsweredOnce(s)
      BY <1>1, <1>2, <2>2 DEF RunIsOrderly
    <3>2. AsksOnce(t)
      BY <2>1, <3>1 DEF AsksOnce
    <3>3. RemainsOnce(t)
      BY <2>1, <3>1, <3>2 DEF RemainsOnce, AsksOnce
    <3>4. AnsweredOnce(t)
      BY <1>1, <2>1, <3>1 DEF AnsweredOnce
    <3>5. QED
      BY <3>2, <3>3, <3>4
  <2>3. QED
    BY <1>1, <1>2, <2>1, <2>2 DEF RunIsOrderly
<1>4. QED
  BY <1>1, <1>3

\* A request is left in the plan, and is none of those left before.
LEMMA ServeLeftIsOrderly ==
  ASSUME IInv, NEW r \in Run, ServeLeft(r)
  PROVE  \E t : Continue(r, t) /\ RunIsOrderly(t)
<1> DEFINE s == run[r]
           t == [s EXCEPT !.i = @ + 1, !.remaining = Append(@, s.plan[s.i])]
<1>1. s.at = "serve" /\ s.i <= Len(s.plan) /\ Continue(r, t)
  BY DEF ServeLeft
<1>2. RunIsOrderly(s)
  BY DEF IInv
<1> HIDE DEF s
<1>3. RunIsOrderly(t)
  <2>1. /\ DOMAIN t = DOMAIN s /\ t.i = s.i + 1 /\ s.i \in Nat \ {0} /\ t.at = s.at
        /\ t.eligible = s.eligible /\ t.scope = s.scope /\ t.plan = s.plan
        /\ t.remaining = Append(s.remaining, s.plan[s.i]) /\ t.raw = s.raw
    BY <1>1, <1>2 DEF RunIsOrderly
  <2> HIDE DEF t
  <2>2. ASSUME s.eligible
        PROVE  AsksOnce(t) /\ RemainsOnce(t) /\ AnsweredOnce(t)
    <3>1. AsksOnce(s) /\ RemainsOnce(s) /\ AnsweredOnce(s)
      BY <1>1, <1>2, <2>2 DEF RunIsOrderly
    <3>2. AsksOnce(t)
      BY <2>1, <3>1 DEF AsksOnce
    <3>3. RemainsOnce(t)
      <4>1. s.plan \in Seq(Request) /\ s.remaining \in Seq(Request) /\ s.i \in DOMAIN s.plan
        BY <1>1, <2>1, <3>1 DEF AsksOnce, RemainsOnce
      <4> DEFINE n == Len(s.remaining)
      <4>2. /\ t.remaining \in Seq(Request) /\ n \in Nat /\ DOMAIN s.remaining = 1..n
            /\ DOMAIN t.remaining = 1..(n + 1) /\ t.remaining[n + 1] = s.plan[s.i]
            /\ \A k \in 1..n : t.remaining[k] = s.remaining[k]
        BY <2>1, <4>1
      <4> HIDE DEF n
      <4>3. \A k \in 1..n : \E j \in DOMAIN s.plan : t.remaining[k] = s.plan[j] /\ j < s.i
        BY <1>1, <3>1, <4>2 DEF RemainsOnce
      <4>4. \A k \in 1..n : t.remaining[k] /= t.remaining[n + 1]
        BY <2>1, <3>1, <4>1, <4>2, <4>3 DEF AsksOnce
      <4>5. \A k \in DOMAIN t.remaining : k \in 1..n \/ k = n + 1
        BY <4>2
      <4>6. \A k \in DOMAIN t.remaining : \E j \in DOMAIN t.plan :
              t.remaining[k] = t.plan[j] /\ (t.at = "serve" => j < t.i)
        <5>1. \A k \in 1..n : \E j \in DOMAIN t.plan : t.remaining[k] = t.plan[j] /\ j < t.i
          <6>1. \A j \in DOMAIN s.plan : j < s.i => j < t.i
            BY <2>1, <4>1
          <6>2. QED
            BY <2>1, <4>3, <6>1
        <5>2. s.i < t.i
          BY <2>1
        <5>3. QED
          BY <2>1, <4>1, <4>2, <4>5, <5>1, <5>2
      <4>7. \A j, k \in DOMAIN t.remaining : t.remaining[j] = t.remaining[k] => j = k
        BY <3>1, <4>2, <4>4, <4>5 DEF RemainsOnce
      <4>8. QED
        BY <4>2, <4>6, <4>7 DEF RemainsOnce
    <3>4. AnsweredOnce(t)
      BY <1>1, <2>1, <3>1 DEF AnsweredOnce
    <3>5. QED
      BY <3>2, <3>3, <3>4
  <2>3. QED
    BY <1>1, <1>2, <2>1, <2>2 DEF RunIsOrderly
<1>4. QED
  BY <1>1, <1>3


\* The next stage begins: nothing is claimed of places any more.
LEMMA ServedIsOrderly ==
  ASSUME IInv, NEW r \in Run, Served(r)
  PROVE  \E t : Continue(r, t) /\ RunIsOrderly(t)
<1> DEFINE s == run[r]
           t == [s EXCEPT !.at = "execute", !.i = 1]
<1>1. s.at = "serve" /\ Continue(r, t)
  BY DEF Served
<1>2. RunIsOrderly(s)
  BY DEF IInv
<1> HIDE DEF s
<1>3. /\ DOMAIN t = DOMAIN s /\ t.i = 1 /\ t.at = "execute"
      /\ t.eligible = s.eligible /\ t.scope = s.scope /\ t.plan = s.plan
      /\ t.remaining = s.remaining /\ t.raw = s.raw
  BY <1>1, <1>2 DEF RunIsOrderly
<1> HIDE DEF t
<1>4. ASSUME s.eligible
      PROVE  AsksOnce(t) /\ RemainsOnce(t) /\ AnsweredOnce(t)
  <2>1. AsksOnce(s) /\ RemainsOnce(s) /\ AnsweredOnce(s)
    BY <1>1, <1>2, <1>4 DEF RunIsOrderly
  <2>2. AsksOnce(t) /\ RemainsOnce(t)
    BY <1>3, <2>1 DEF AsksOnce, RemainsOnce
  <2>3. t.raw = <<>>
    BY <1>1, <1>3, <2>1 DEF AnsweredOnce
  <2>4. QED
    BY <2>2, <2>3 DEF AnsweredOnce
<1>5. RunIsOrderly(t)
  BY <1>1, <1>2, <1>3, <1>4 DEF RunIsOrderly
<1>6. QED
  BY <1>1, <1>5

\* The end of the requests leaves the answers as they are.
LEMMA ExecutedIsOrderly ==
  ASSUME IInv, NEW r \in Run, Executed(r)
  PROVE  \E t : Continue(r, t) /\ RunIsOrderly(t)
<1> DEFINE s == run[r]
           t == [s EXCEPT !.at = "write", !.i = 1]
<1>1. s.at = "execute" /\ Continue(r, t)
  BY DEF Executed
<1>2. RunIsOrderly(s)
  BY DEF IInv
<1> HIDE DEF s
<1>3. /\ DOMAIN t = DOMAIN s /\ t.i = 1 /\ t.at = "write"
      /\ t.eligible = s.eligible /\ t.scope = s.scope /\ t.plan = s.plan
      /\ t.remaining = s.remaining /\ t.raw = s.raw
  BY <1>1, <1>2 DEF RunIsOrderly
<1> HIDE DEF t
<1>4. ASSUME s.eligible
      PROVE  AsksOnce(t) /\ RemainsOnce(t) /\ AnsweredOnce(t)
  <2>1. AsksOnce(s) /\ RemainsOnce(s) /\ AnsweredOnce(s)
    BY <1>1, <1>2, <1>4 DEF RunIsOrderly
  <2>2. AsksOnce(t) /\ RemainsOnce(t)
    BY <1>3, <2>1 DEF AsksOnce, RemainsOnce
  <2>3. AnsweredOnce(t)
    BY <1>3, <2>1 DEF AnsweredOnce
  <2>4. QED
    BY <2>2, <2>3
<1>5. RunIsOrderly(t)
  BY <1>1, <1>2, <1>3, <1>4 DEF RunIsOrderly
<1>6. QED
  BY <1>1, <1>5

\* An answer to the next request is an answer to none before; it comes now, when the
\* month has long been stable.
LEMMA RetrieveIsOrderly ==
  ASSUME IInv, NEW r \in Run, Retrieve(r)
  PROVE  \E t : Continue(r, t) /\ RunIsOrderly(t)
<1> DEFINE s == run[r]
<1>1. PICK answer \in IF s.remaining[s.i].capability = "cost" THEN CostAnswers ELSE InventoryAnswers :
        /\ s.at = "execute" /\ s.i <= Len(s.remaining)
        /\ Continue(r, [s EXCEPT !.i = @ + 1,
                          !.raw = Append(@, [request |-> s.remaining[s.i], answer |-> answer,
                                             at |-> clock])])
  BY DEF Retrieve
<1> DEFINE new == [request |-> s.remaining[s.i], answer |-> answer, at |-> clock]
           t == [s EXCEPT !.i = @ + 1, !.raw = Append(@, new)]
<1>2. RunIsOrderly(s) /\ clock \in Nat
  BY DEF IInv, TypeOK
<1>3. answer \in Counts \union Payload /\ (IsCost(new) => answer \in Payload)
  BY <1>1, RunAssumption DEF IsCost
<1>4. new.request = s.remaining[s.i] /\ new.answer = answer /\ new.at = clock
  OBVIOUS
<1>5. s.remaining[s.i] \in Request => new \in Raw
  BY <1>2, <1>3 DEF Raw
<1> HIDE DEF s, new
<1>6. /\ DOMAIN t = DOMAIN s /\ t.i = s.i + 1 /\ s.i \in Nat \ {0} /\ t.at = s.at
      /\ t.eligible = s.eligible /\ t.scope = s.scope /\ t.plan = s.plan
      /\ t.remaining = s.remaining /\ t.raw = Append(s.raw, new)
  BY <1>1, <1>2 DEF RunIsOrderly
<1>7. Continue(r, t)
  BY <1>1 DEF new
<1> HIDE DEF t
<1>8. ASSUME s.eligible
      PROVE  AsksOnce(t) /\ RemainsOnce(t) /\ AnsweredOnce(t)
  <2>1. AsksOnce(s) /\ RemainsOnce(s) /\ AnsweredOnce(s) /\ Matured(s.scope.window)
    BY <1>1, <1>2, <1>8 DEF RunIsOrderly
  <2>2. AsksOnce(t) /\ RemainsOnce(t)
    BY <1>1, <1>6, <2>1 DEF AsksOnce, RemainsOnce
  <2>3. AnsweredOnce(t)
    <3>1. s.remaining \in Seq(Request) /\ s.raw \in Seq(Raw) /\ s.i \in DOMAIN s.remaining
      BY <1>1, <1>6, <2>1 DEF AnsweredOnce, RemainsOnce
    <3>2. new \in Raw
      BY <1>5, <3>1
    <3> DEFINE n == Len(s.raw)
    <3>3. /\ t.raw \in Seq(Raw) /\ n \in Nat /\ DOMAIN s.raw = 1..n
          /\ DOMAIN t.raw = 1..(n + 1) /\ t.raw[n + 1] = new
          /\ \A k \in 1..n : t.raw[k] = s.raw[k]
      BY <1>6, <3>1, <3>2
    <3> HIDE DEF n
    <3>4. \A k \in DOMAIN t.raw : k \in 1..n \/ k = n + 1
      BY <3>3
    <3>5. \A k \in 1..n : \E j \in DOMAIN s.remaining : t.raw[k].request = s.remaining[j] /\ j < s.i
      BY <1>1, <2>1, <3>3 DEF AnsweredOnce
    <3>6. \A k \in 1..n : t.raw[k].request /= t.raw[n + 1].request
      BY <1>4, <1>6, <2>1, <3>1, <3>3, <3>5 DEF RemainsOnce
    <3>7. ASSUME NEW k \in DOMAIN t.raw
          PROVE  /\ \E j \in DOMAIN t.remaining :
                      t.raw[k].request = t.remaining[j] /\ (t.at = "execute" => j < t.i)
                 /\ IsCost(t.raw[k]) => t.raw[k].answer \in Payload
                 /\ t.raw[k].at >= t.scope.window.to + Offset
      <4>1. CASE k \in 1..n
        <5>1. PICK j \in DOMAIN s.remaining : t.raw[k].request = s.remaining[j] /\ j < s.i
          BY <3>5, <4>1
        <5>2. j < t.i
          BY <1>6, <3>1, <5>1
        <5>3. /\ IsCost(s.raw[k]) => s.raw[k].answer \in Payload
              /\ s.raw[k].at >= s.scope.window.to + Offset
          BY <2>1, <3>3, <4>1 DEF AnsweredOnce
        <5>4. QED
          BY <1>6, <3>3, <4>1, <5>1, <5>2, <5>3
      <4>2. CASE k = n + 1
        <5>1. t.raw[k].request = t.remaining[s.i] /\ s.i < t.i
          BY <1>4, <1>6, <3>3, <4>2
        <5>2. IsCost(t.raw[k]) => t.raw[k].answer \in Payload
          BY <1>3, <1>4, <3>3, <4>2
        <5>3. t.raw[k].at >= t.scope.window.to + Offset
          BY <1>4, <1>6, <2>1, <3>3, <4>2 DEF Matured
        <5>4. QED
          BY <1>6, <3>1, <5>1, <5>2, <5>3
      <4>3. QED
        BY <3>4, <4>1, <4>2
    <3>8. \A j, k \in DOMAIN t.raw : t.raw[j].request = t.raw[k].request => j = k
      <4>1. \A j, k \in 1..n : t.raw[j].request = t.raw[k].request => j = k
        BY <2>1, <3>3 DEF AnsweredOnce
      <4>2. QED
        BY <3>4, <3>6, <4>1
    <3>9. t.at /= "serve"
      BY <1>1, <1>6
    <3>10. QED
      BY <3>3, <3>7, <3>8, <3>9 DEF AnsweredOnce
  <2>4. QED
    BY <2>2, <2>3
<1>9. RunIsOrderly(t)
  BY <1>1, <1>2, <1>6, <1>8 DEF RunIsOrderly
<1>10. QED
  BY <1>7, <1>9


\* A request that fails leaves no answer.
LEMMA RetrievalFailsIsOrderly ==
  ASSUME IInv, NEW r \in Run, RetrievalFails(r)
  PROVE  \E t : Continue(r, t) /\ RunIsOrderly(t)
<1> DEFINE s == run[r]
           t == [s EXCEPT !.i = @ + 1, !.failed = @ \union {s.remaining[s.i]}]
<1>1. s.at = "execute" /\ Continue(r, t)
  BY DEF RetrievalFails
<1>2. RunIsOrderly(s)
  BY DEF IInv
<1> HIDE DEF s
<1>3. /\ DOMAIN t = DOMAIN s /\ t.i = s.i + 1 /\ s.i \in Nat \ {0} /\ t.at = "execute"
      /\ t.eligible = s.eligible /\ t.scope = s.scope /\ t.plan = s.plan
      /\ t.remaining = s.remaining /\ t.raw = s.raw
  BY <1>1, <1>2 DEF RunIsOrderly
<1> HIDE DEF t
<1>4. ASSUME s.eligible
      PROVE  AsksOnce(t) /\ RemainsOnce(t) /\ AnsweredOnce(t)
  <2>1. AsksOnce(s) /\ RemainsOnce(s) /\ AnsweredOnce(s)
    BY <1>1, <1>2, <1>4 DEF RunIsOrderly
  <2>2. AsksOnce(t) /\ RemainsOnce(t)
    BY <1>3, <2>1 DEF AsksOnce, RemainsOnce
  <2>3. AnsweredOnce(t)
    <3>1. \A j \in DOMAIN s.remaining : j < s.i => j < t.i
      BY <1>3, <2>1 DEF RemainsOnce
    <3>2. \A k \in DOMAIN s.raw : \E j \in DOMAIN s.remaining :
            s.raw[k].request = s.remaining[j] /\ j < t.i
      BY <1>1, <2>1, <3>1 DEF AnsweredOnce
    <3>3. QED
      BY <1>3, <2>1, <3>2 DEF AnsweredOnce
  <2>4. QED
    BY <2>2, <2>3
<1>5. RunIsOrderly(t)
  BY <1>1, <1>2, <1>3, <1>4 DEF RunIsOrderly
<1>6. QED
  BY <1>1, <1>5

\* Writing answers through to the cache leaves them as they are.
LEMMA WriteThroughIsOrderly ==
  ASSUME IInv, NEW r \in Run, WriteThrough(r)
  PROVE  \E t : Continue(r, t) /\ RunIsOrderly(t)
<1> DEFINE s == run[r]
           t == [s EXCEPT !.i = @ + 1]
<1>1. s.at = "write" /\ Continue(r, t)
  BY DEF WriteThrough
<1>2. RunIsOrderly(s)
  BY DEF IInv
<1> HIDE DEF s
<1>3. /\ DOMAIN t = DOMAIN s /\ t.i = s.i + 1 /\ s.i \in Nat \ {0} /\ t.at = "write"
      /\ t.eligible = s.eligible /\ t.scope = s.scope /\ t.plan = s.plan
      /\ t.remaining = s.remaining /\ t.raw = s.raw
  BY <1>1, <1>2 DEF RunIsOrderly
<1> HIDE DEF t
<1>4. ASSUME s.eligible
      PROVE  AsksOnce(t) /\ RemainsOnce(t) /\ AnsweredOnce(t)
  <2>1. AsksOnce(s) /\ RemainsOnce(s) /\ AnsweredOnce(s)
    BY <1>1, <1>2, <1>4 DEF RunIsOrderly
  <2>2. AsksOnce(t) /\ RemainsOnce(t)
    BY <1>3, <2>1 DEF AsksOnce, RemainsOnce
  <2>3. AnsweredOnce(t)
    BY <1>1, <1>3, <2>1 DEF AnsweredOnce
  <2>4. QED
    BY <2>2, <2>3
<1>5. RunIsOrderly(t)
  BY <1>1, <1>2, <1>3, <1>4 DEF RunIsOrderly
<1>6. QED
  BY <1>1, <1>5

\* A run that is over, or never began, has nothing to be orderly about.
LEMMA EndsAreOrderly ==
  ASSUME IInv, NEW r \in Run, Reject(r) \/ Conclude(r)
  PROVE  \E t : Continue(r, t) /\ RunIsOrderly(t)
<1>1. CASE Reject(r)
  <2>1. Continue(r, [at |-> "rejected"])
    BY <1>1 DEF Reject
  <2>2. RunIsOrderly([at |-> "rejected"])
    BY DEF RunIsOrderly
  <2>3. QED
    BY <2>1, <2>2
<1>2. CASE Conclude(r)
  <2> DEFINE s == run[r]
  <2>1. PICK status : /\ s.at = "write"
                      /\ Continue(r, [s EXCEPT !.at = "done", !.until = clock,
                                        !.fresh = CheckFreshness(s), !.status = status])
    BY <1>2 DEF Conclude
  <2> DEFINE t == [s EXCEPT !.at = "done", !.until = clock, !.fresh = CheckFreshness(s),
                            !.status = status]
  <2>2. RunIsOrderly(s)
    BY DEF IInv
  <2> HIDE DEF s
  <2>3. t.at = "done"
    BY <2>1, <2>2 DEF RunIsOrderly
  <2> HIDE DEF t
  <2>4. RunIsOrderly(t)
    BY <2>3 DEF RunIsOrderly
  <2>5. QED
    BY <2>1, <2>4 DEF t
<1>3. QED
  BY <1>1, <1>2

\* Only WriteThrough writes, and only a record of its own cell.
LEMMA RunStepWrites ==
  ASSUME IInv, NEW r \in Run, RunStep(r)
  PROVE  /\ clock' = clock /\ DOMAIN cells' = DOMAIN cells
         /\ ~WriteThrough(r) => cells' = cells
<1>1. clock' = clock
  BY DEF RunStep, Start, Reject, ServeHit, ServeLeft, Served, Retrieve, RetrievalFails, Executed,
         WriteThrough, Conclude
<1>2. ~WriteThrough(r) => cells' = cells
  BY DEF RunStep, Start, Reject, ServeHit, ServeLeft, Served, Retrieve, RetrievalFails, Executed, Conclude
<1>3. WriteThrough(r) => DOMAIN cells' = DOMAIN cells
  BY DEF WriteThrough
<1>4. QED
  BY <1>1, <1>2, <1>3

\* Every step of a run keeps it orderly.
LEMMA RunStepIsOrderly ==
  ASSUME NothingIsRepeated, IInv, NEW r \in Run, RunStep(r)
  PROVE  \E t : Continue(r, t) /\ RunIsOrderly(t)
BY StartIsOrderly, ServeHitIsOrderly, ServeLeftIsOrderly, ServedIsOrderly, RetrieveIsOrderly,
   RetrievalFailsIsOrderly, ExecutedIsOrderly, WriteThroughIsOrderly, EndsAreOrderly DEF RunStep

-----------------------------------------------------------------------------
(* The invariant. *)

\* A month that is stable stays so.
LEMMA OrderlyLater ==
  ASSUME IInv, clock' \in Nat, clock' >= clock, NEW r \in Run, NEW t, RunIsOrderly(t), run'[r] = t
  PROVE  RunIsOrderly(run[r])'
<1>1. t.eligible /\ t.at \in {"serve", "execute", "write"} => clock' >= t.scope.window.to + Offset
  <2>1. \A month \in Month : month.to + Offset \in Int
    BY RunAssumption
  <2>2. QED
    BY <2>1 DEF RunIsOrderly, Matured, IInv, TypeOK
<1>2. QED
  BY <1>1 DEF RunIsOrderly, Matured, AsksOnce, RemainsOnce, AnsweredOnce, IsCost

\* Initially no run has started.
LEMMA InitEstablishesInvariant == Init => IInv
<1> SUFFICES ASSUME Init PROVE IInv
  OBVIOUS
<1>1. TypeOK
  BY RunAssumption DEF Init, TypeOK
<1>2. \A r \in Run : RunIsOrderly(run[r])
  BY DEF Init, Idle, RunIsOrderly
<1>3. QED
  BY <1>1, <1>2 DEF IInv

\* Every step keeps runs orderly and cells earned.
LEMMA NextPreservesInvariant == NothingIsRepeated /\ IInv /\ [Next]_vars => IInv'
<1> SUFFICES ASSUME NothingIsRepeated, IInv, [Next]_vars PROVE IInv'
  OBVIOUS
<1>1. CASE Tick \/ UNCHANGED vars
  <2>1. /\ clock' \in Nat /\ clock' >= clock /\ UNCHANGED <<cells, run>>
    BY <1>1 DEF Tick, vars, IInv, TypeOK
  <2>2. \A r \in Run : RunIsOrderly(run[r])'
    BY <2>1, OrderlyLater DEF IInv
  <2>3. TypeOK'
    BY <2>1 DEF IInv, TypeOK, Cell
  <2>4. QED
    BY <2>2, <2>3 DEF IInv
<1>2. ASSUME NEW r \in Run, RunStep(r)
      PROVE  IInv'
  <2>1. PICK t : Continue(r, t) /\ RunIsOrderly(t)
    BY <1>2, RunStepIsOrderly
  <2>2. clock' = clock /\ clock' \in Nat /\ clock' >= clock /\ DOMAIN cells' = DOMAIN cells
    BY <1>2, RunStepWrites DEF IInv, TypeOK
  <2>3. DOMAIN run' = Run /\ run'[r] = t /\ \A q \in Run \ {r} : run'[q] = run[q]
    BY <2>1 DEF Continue, IInv, TypeOK
  <2>4. \A q \in Run : RunIsOrderly(run'[q])
    BY <2>1, <2>3 DEF IInv
  <2>5. \A q \in Run : RunIsOrderly(run[q])'
    BY <2>2, <2>4, OrderlyLater
  <2>6. TypeOK'
    BY <2>2, <2>3 DEF IInv, TypeOK, Cell
  <2>7. QED
    BY <2>5, <2>6 DEF IInv
<1>3. QED
  BY <1>1, <1>2 DEF Next

-----------------------------------------------------------------------------
(* What is written. *)

Earned(cell) ==
  \E r \in Run :
    /\ run[r].at = "write" /\ run[r].i \in DOMAIN run[r].raw
    /\ LET raw == run[r].raw[run[r].i] IN
       /\ cells'[cell].request = raw.request /\ cells'[cell].answer = raw.answer
       /\ raw.request.subs = {cell[1]} /\ raw.request.window = cell[2]
       /\ Sound(run[r].raw, run[r].i)
       /\ raw.at >= cell[2].to + Offset

\* A cell that a run writes holds a sound answer of its own request.
LEMMA WritesAreEarned ==
  ASSUME IInv, NEW r \in Run, WriteThrough(r), NEW cell \in Cell, cells'[cell] /= cells[cell]
  PROVE  Earned(cell)
<1> DEFINE s == run[r]
           k == s.i
           record == BuildCacheRecord(s.raw, k)
<1>1. s.at = "write" /\ k <= Len(s.raw)
  BY DEF WriteThrough
<1>2. /\ cell \in CostCellFor(s, s.raw[k].request) /\ record /= NoRecord
      /\ cells'[cell] = record
  BY DEF WriteThrough, IInv, TypeOK
<1>3. RunIsOrderly(s)
  BY DEF IInv
<1> HIDE DEF s, record
<1>4. /\ s.eligible /\ s.raw[k].request.capability = "cost"
      /\ s.raw[k].request.subs = {cell[1]} /\ cell[2] = s.scope.window
  BY <1>2 DEF CostCellFor
<1>5. AsksOnce(s) /\ RemainsOnce(s) /\ AnsweredOnce(s) /\ k \in Nat \ {0}
  BY <1>1, <1>3, <1>4 DEF RunIsOrderly
<1>6. s.raw \in Seq(Raw) /\ k \in DOMAIN s.raw
  BY <1>1, <1>5 DEF AnsweredOnce
<1>7. /\ IsCost(s.raw[k]) /\ s.raw[k].answer \in Payload /\ s.raw[k].at >= cell[2].to + Offset
      /\ \A j \in DOMAIN s.raw : s.raw[j].request = s.raw[k].request => j = k
  BY <1>4, <1>5, <1>6 DEF AnsweredOnce, IsCost
<1>8. s.raw[k].request.window = cell[2]
  <2>1. PICK j \in DOMAIN s.remaining : s.raw[k].request = s.remaining[j]
    BY <1>5, <1>6 DEF AnsweredOnce
  <2>2. PICK i \in DOMAIN s.plan : s.remaining[j] = s.plan[i]
    BY <1>5 DEF RemainsOnce
  <2>3. QED
    BY <1>4, <1>5, <2>1, <2>2 DEF AsksOnce
<1>9. /\ Sound(s.raw, k)
      /\ record.request = s.raw[k].request /\ record.answer = s.raw[k].answer
  <2> HIDE DEF k
  <2>1. QED
    BY <1>2, <1>5, <1>6, <1>7, WrittenIsSound DEF record
<1>10. QED
  BY <1>1, <1>2, <1>4, <1>6, <1>7, <1>8, <1>9 DEF Earned, s

\* Whatever the server answers and however many runs share the cache: a cell
\* changes only to an answer about its own subscription and month, sound in the batch
\* it came with, and retrieved after the month was stable.
THEOREM OnlyEarnedCellsAreStored == NothingIsRepeated => (Spec => CellsAreEarned)
<1> SUFFICES ASSUME NothingIsRepeated PROVE Spec => CellsAreEarned
  OBVIOUS
<1>1. IInv /\ [Next]_vars => IInv'
  BY NextPreservesInvariant
<1>2. IInv /\ [Next]_vars => [\A cell \in Cell : cells'[cell] /= cells[cell] => Earned(cell)]_vars
  <2> SUFFICES ASSUME IInv, Next, NEW cell \in Cell, cells'[cell] /= cells[cell]
               PROVE  Earned(cell)
    OBVIOUS
  <2>1. PICK r \in Run : RunStep(r)
    BY DEF Next, Tick
  <2>2. WriteThrough(r)
    BY <2>1, RunStepWrites
  <2>3. QED
    BY <2>2, WritesAreEarned
<1>3. Spec => [][\A cell \in Cell : cells'[cell] /= cells[cell] => Earned(cell)]_vars
  BY <1>1, <1>2, InitEstablishesInvariant, PTL DEF Spec
<1>4. QED
  BY <1>3 DEF CellsAreEarned, Earned

-----------------------------------------------------------------------------
(* What is served. *)

\* Ids come back spelled as they were asked for. In another spelling an answer is
\* sound to the assessment and still covers nothing.
IdsAreSpelledAsAsked == Spelling = {"asked"}

\* A record is replayed as a batch that holds no other cost answer.
LEMMA ReplayIsAlone ==
  ASSUME NEW sub \in Sub, NEW record, record.request.capability = "cost"
  PROVE  LET batch == ReplayBatch(sub, record) IN
         /\ 1 \in DOMAIN batch
         /\ batch[1].request = record.request /\ batch[1].answer = record.answer
         /\ \A j \in DOMAIN batch : j /= 1 =>
              /\ j = 2 /\ ~IsCost(batch[j])
              /\ batch[j].answer = [s \in Sub |-> IF s = sub THEN "zero" ELSE "none"]
         /\ record.answer.sum = "zero" /\ record.validZero => 2 \in DOMAIN batch
<1> DEFINE first == [request |-> record.request, answer |-> record.answer, at |-> record.at]
           proof == [request |-> InventoryRequest,
                     answer |-> [s \in Sub |-> IF s = sub THEN "zero" ELSE "none"], at |-> record.at]
           batch == ReplayBatch(sub, record)
<1>1. \/ batch = <<first>> \o <<proof>>
      \/ batch = <<first>> \o <<>> /\ ~(record.answer.sum = "zero" /\ record.validZero)
  BY DEF ReplayBatch
<1>2. /\ first.request = record.request /\ first.answer = record.answer
      /\ ~IsCost(proof)
      /\ proof.answer = [s \in Sub |-> IF s = sub THEN "zero" ELSE "none"]
  BY RequestFields DEF IsCost
<1> HIDE DEF first, proof, batch
<1>3. CASE batch = <<first>> \o <<proof>>
  <2>1. <<first>> \in Seq({first, proof}) /\ <<proof>> \in Seq({first, proof})
    OBVIOUS
  <2>2. DOMAIN batch = 1..2 /\ batch[1] = first /\ batch[2] = proof
    BY <1>3, <2>1
  <2>3. QED
    BY <1>2, <2>2 DEF batch
<1>4. CASE batch = <<first>> \o <<>> /\ ~(record.answer.sum = "zero" /\ record.validZero)
  <2>1. <<first>> \in Seq({first}) /\ <<>> \in Seq({first})
    OBVIOUS
  <2>2. DOMAIN batch = 1..1 /\ batch[1] = first
    BY <1>4, <2>1
  <2>3. QED
    BY <1>2, <1>4, <2>2 DEF batch
<1>5. QED
  BY <1>1, <1>3, <1>4

\* A replayed record is assessed by itself.
LEMMA ReplayIsJudged ==
  ASSUME NEW sub \in Sub, NEW record, record.request.capability = "cost"
  PROVE  FindZeroAssessment(ReplayBatch(sub, record), 1) = Assess(ReplayBatch(sub, record), 1)
<1> DEFINE batch == ReplayBatch(sub, record)
<1> HIDE DEF batch
<1>1. /\ 1 \in DOMAIN batch /\ batch[1].request = record.request
      /\ \A j \in DOMAIN batch : j /= 1 => ~IsCost(batch[j])
  BY ReplayIsAlone DEF batch
<1>2. IsCost(batch[1]) /\ \A j \in DOMAIN batch : batch[j].request = batch[1].request => j = 1
  BY <1>1 DEF IsCost
<1>3. QED
  BY <1>1, <1>2, OwnAssessment DEF batch

\* What the reader admits is sound by itself.
LEMMA AdmittedIsSound ==
  ASSUME NEW sub \in Sub, NEW record, record.request.capability = "cost",
         record.answer \in Payload, IsCacheRecordAdmissible(sub, record)
  PROVE  Sound(ReplayBatch(sub, record), 1)
<1> DEFINE batch == ReplayBatch(sub, record)
<1>1. batch[1].answer = record.answer
  BY ReplayIsAlone
<1>2. Assess(batch, 1) \in {"no_entry", "valid_zero"}
  BY ReplayIsJudged DEF IsCacheRecordAdmissible
<1> HIDE DEF batch
<1>3. CASE Assess(batch, 1) = "no_entry"
  BY <1>3, OrdinaryTotal DEF Sound, batch
<1>4. CASE Assess(batch, 1) = "valid_zero"
  BY <1>1, <1>4, ValidZero DEF batch
<1>5. QED
  BY <1>2, <1>3, <1>4

\* Sound evidence about one subscription covers it, and no other.
LEMMA EvidenceCoversItsOwn ==
  ASSUME IdsAreSpelledAsAsked, NEW raw, NEW sub \in Sub, raw.request.subs = {sub},
         raw.answer \in Payload, ReturnedScope(raw) /= "mismatched"
  PROVE  \A x : <<x, "asked">> \in EvidenceIds(raw.request, raw.answer) <=> x = sub
<1> DEFINE ids == raw.answer.ids
<1>1. CASE ids = {}
  BY <1>1 DEF EvidenceIds
<1>2. CASE ids /= {}
  <2>1. ids \subseteq Sub \X {"asked"} /\ raw.answer.shape = "structured"
    BY <1>2 DEF Payload, Id, IdsAreSpelledAsAsked
  <2>2. Normalized(ids) = {sub}
    BY <2>1 DEF ReturnedScope
  <2>3. \A x : <<x, "asked">> \in ids => x = sub
    BY <2>2 DEF Normalized
  <2>4. <<sub, "asked">> \in ids
    <3>1. PICK id \in ids : id[1] = sub
      BY <2>2 DEF Normalized
    <3>2. id = <<sub, "asked">>
      BY <2>1, <3>1
    <3>3. QED
      BY <3>1, <3>2
  <2>5. QED
    BY <1>2, <2>3, <2>4 DEF EvidenceIds
<1>3. QED
  BY <1>1, <1>2

\* The checks on reading accept what the checks on writing let through.
LEMMA WrittenIsAdmitted ==
  ASSUME NEW batch, NEW k \in DOMAIN batch, k \in Nat, IsCost(batch[k]),
         batch[k].answer \in Payload,
         \A j \in DOMAIN batch : batch[j].request = batch[k].request => j = k,
         BuildCacheRecord(batch, k) /= NoRecord,
         NEW sub \in Sub, batch[k].request.subs = {sub}
  PROVE  IsCacheRecordAdmissible(sub, BuildCacheRecord(batch, k))
<1> DEFINE record == BuildCacheRecord(batch, k)
           replay == ReplayBatch(sub, record)
           p == batch[k].answer
<1>1. /\ FindZeroAssessment(batch, k) = Assess(batch, k)
      /\ p.sum /= "none" /\ Assess(batch, k) \in {"no_entry", "valid_zero"}
      /\ p.sum = "zero" => Assess(batch, k) = "valid_zero"
      /\ record.request = batch[k].request /\ record.answer = p
      /\ Assess(batch, k) = "valid_zero" => record.validZero
  BY OwnAssessment DEF BuildCacheRecord
<1> HIDE DEF record, replay
<1>2. /\ replay[1].request = batch[k].request /\ replay[1].answer = p
      /\ \A j \in DOMAIN replay : j /= 1 =>
           /\ j = 2 /\ ~IsCost(replay[j])
           /\ replay[j].answer = [s \in Sub |-> IF s = sub THEN "zero" ELSE "none"]
      /\ p.sum = "zero" /\ record.validZero => 2 \in DOMAIN replay
      /\ FindZeroAssessment(replay, 1) = Assess(replay, 1)
  <2>1. record.request.capability = "cost"
    BY <1>1 DEF IsCost
  <2>2. QED
    BY <1>1, <2>1, ReplayIsAlone, ReplayIsJudged DEF replay
<1>3. ReturnedScope(replay[1]) = ReturnedScope(batch[k])
  BY <1>2 DEF ReturnedScope
<1>4. CASE p.sum = "zero"
  <2>1. /\ p.total = "zero" /\ "nonzero" \notin p.parts /\ "invalid" \notin p.parts
        /\ ReturnedScope(batch[k]) = "matched"
    BY <1>1, <1>4 DEF Assess
  <2>2. ~HasAdjacentNonZero(replay, 1)
    BY <1>2 DEF HasAdjacentNonZero, AsksFor
  <2>3. ReportedEmpty(replay, sub)
    <3>1. 2 \in DOMAIN replay /\ ~IsCost(replay[2]) /\ replay[2].answer[sub] = "zero"
      <4>1. record.validZero
        BY <1>1, <1>4
      <4>2. 2 \in DOMAIN replay
        BY <1>2, <1>4, <4>1
      <4>3. /\ ~IsCost(replay[2])
            /\ replay[2].answer = [s \in Sub |-> IF s = sub THEN "zero" ELSE "none"]
        BY <1>2, <4>2
      <4>4. QED
        BY <4>2, <4>3
    <3>2. \A j \in DOMAIN replay : ~IsCost(replay[j]) => j = 2
      BY <1>2 DEF IsCost
    <3>3. {replay[j].answer[sub] : j \in {j \in DOMAIN replay : ~IsCost(replay[j])}} = {"zero"}
      BY <3>1, <3>2
    <3>4. QED
      BY <3>3 DEF ReportedEmpty
  <2>4. AsksFor(replay[1], sub)
    BY <1>2 DEF AsksFor, IsCost
  <2>5. Assess(replay, 1) = "valid_zero"
    BY <1>2, <1>3, <2>1, <2>2, <2>3, <2>4 DEF Assess
  <2>6. QED
    BY <1>1, <1>2, <1>4, <2>1, <2>5 DEF IsCacheRecordAdmissible, replay, record
<1>5. CASE p.sum /= "zero"
  <2>1. Assess(batch, k) = "no_entry"
    <3>1. ASSUME Assess(batch, k) = "valid_zero" PROVE FALSE
      <4>1. p.total = "zero" /\ "nonzero" \notin p.parts
        BY <3>1 DEF Assess
      <4>2. /\ SummaryFits(p) /\ p.shape \in {"structured", "tabular", "unreadable"}
            /\ p.sum \in {"zero", "nonzero", "none"}
            /\ p.shape = "unreadable" => p.total = "none"
        BY DEF Payload, Amount
      <4>3. QED
        BY <1>1, <1>5, <4>1, <4>2 DEF SummaryFits
    <3>2. QED
      BY <1>1, <3>1
  <2>2. p.total /= "none" /\ p.total /= "zero" /\ ReturnedScope(replay[1]) /= "mismatched"
    BY <1>3, <2>1, OrdinaryTotal
  <2>3. Assess(replay, 1) = "no_entry"
    BY <1>2, <2>2 DEF Assess
  <2>4. QED
    BY <1>1, <1>2, <1>5, <2>3 DEF IsCacheRecordAdmissible, replay, record
<1>6. QED
  BY <1>4, <1>5

-----------------------------------------------------------------------------
(* What is asked. *)

\* A playbook is the inventory request and the cost requests, in order.
LEMMA PlaybookShape ==
  ASSUME NEW S, NEW asked \in Seq(S)
  PROVE  LET plan == <<InventoryRequest>> \o asked
             n == Len(asked)
         IN /\ n \in Nat /\ Len(plan) = n + 1 /\ DOMAIN plan = 1..(n + 1)
            /\ plan[1] = InventoryRequest
            /\ \A k \in 1..n : k + 1 \in DOMAIN plan /\ plan[k + 1] = asked[k]
            /\ \A k \in DOMAIN plan : k /= 1 => k - 1 \in 1..n /\ plan[k] = asked[k - 1]
<1> DEFINE any == S \union {InventoryRequest}
<1>1. <<InventoryRequest>> \in Seq(any) /\ asked \in Seq(any)
  OBVIOUS
<1>2. QED
  BY <1>1

\* A playbook asks for every subscription of its scope, one per request.
LEMMA PlaybookIsAboutScope ==
  ASSUME NothingIsRepeated, clock \in Nat, NEW input \in Inputs,
         NEW s, s.scope = IntakeScope(input), s.plan = SelectPlaybook(s.scope)
  PROVE  PlanIsAboutScope(s)
<1> DEFINE scope == s.scope
           n == Len(scope.subs)
           cost == {CostRequest(sub, window) : sub \in ScopeSubs(s), window \in {scope.window, scope.baseline}}
<1>1. /\ scope.subs = input.subs /\ scope.subs \in Seq(Sub) /\ scope.subs /= <<>>
      /\ n \in Nat /\ DOMAIN scope.subs = 1..n
      /\ scope.type = input.type /\ scope.type \in {"cost_summary", "cost_surprise"}
  BY RunAssumption DEF IntakeScope, Input
<1>2. scope.window.to \in Int /\ (scope.type = "cost_surprise" => scope.baseline.to \in Int)
  <2>1. /\ input.from \in Date /\ input.to \in Date /\ input.baseTo \in Date /\ Week \in Int /\ clock \in Int
    BY RunAssumption DEF Input
  <2>2. \A date \in Date : \A default \in Int : Given(date, default) \in Int
    BY DEF Date, Given
  <2>3. AnalysisWindow(input).to \in Int /\ AnalysisWindow(input).from \in Int
    BY <2>1, <2>2 DEF AnalysisWindow
  <2>4. BaselineWindow(input).to \in Int
    BY <2>1, <2>2, <2>3 DEF BaselineWindow
  <2>5. QED
    BY <1>1, <2>3, <2>4 DEF IntakeScope
<1>3. \A j, k \in DOMAIN scope.subs : scope.subs[j] = scope.subs[k] => j = k
  BY <1>1 DEF NothingIsRepeated
<1>4. ASSUME NEW asked, asked \in Seq(cost), s.plan = <<InventoryRequest>> \o asked,
             \A k \in 1..Len(asked) : asked[k].window.to \in Int,
             \A k \in 1..n : \E j \in 1..Len(asked) : asked[j].subs = {scope.subs[k]}
      PROVE  PlanIsAboutScope(s)
  <2> HIDE DEF scope, cost
  <2>1. /\ Len(asked) \in Nat /\ Len(s.plan) = Len(asked) + 1 /\ DOMAIN s.plan = 1..(Len(asked) + 1)
        /\ s.plan[1] = InventoryRequest
        /\ \A k \in 1..Len(asked) : k + 1 \in DOMAIN s.plan /\ s.plan[k + 1] = asked[k]
        /\ \A k \in DOMAIN s.plan : k /= 1 => k - 1 \in 1..Len(asked) /\ s.plan[k] = asked[k - 1]
    BY <1>4, PlaybookShape
  <2>2. \A j \in 1..Len(asked) : /\ asked[j].capability = "cost"
                                 /\ \E sub \in ScopeSubs(s) : asked[j].subs = {sub}
    <3>1. \A request \in cost : /\ request.capability = "cost"
                                /\ \E sub \in ScopeSubs(s) : request.subs = {sub}
      BY RequestFields DEF cost
    <3>2. \A j \in 1..Len(asked) : asked[j] \in cost
      BY <1>4
    <3>3. QED
      BY <3>1, <3>2
  <2>3. ASSUME NEW k \in DOMAIN s.plan, s.plan[k].capability = "cost"
        PROVE  s.plan[k].window.to \in Int /\ \E sub \in ScopeSubs(s) : s.plan[k].subs = {sub}
    <3>1. k /= 1
      BY <2>1, <2>3, RequestFields
    <3>2. k - 1 \in 1..Len(asked) /\ s.plan[k] = asked[k - 1]
      BY <2>1, <3>1
    <3>3. QED
      BY <1>4, <2>2, <3>2
  <2>4. ASSUME NEW sub \in ScopeSubs(s)
        PROVE  \E k \in DOMAIN s.plan : s.plan[k].capability = "cost" /\ s.plan[k].subs = {sub}
    <3>1. PICK k \in 1..n : sub = scope.subs[k]
      BY <1>1 DEF ScopeSubs, scope
    <3>2. PICK j \in 1..Len(asked) : asked[j].subs = {sub}
      BY <1>4, <3>1
    <3>3. QED
      BY <2>1, <2>2, <3>2
  <2>5. QED
    <3>1. DOMAIN s.plan = 1..Len(s.plan) /\ Len(s.plan) \in Nat
      BY <2>1
    <3>2. /\ s.scope.subs \in Seq(Sub) /\ s.scope.subs /= <<>>
          /\ \A j, k \in DOMAIN s.scope.subs : s.scope.subs[j] = s.scope.subs[k] => j = k
      BY <1>1, <1>3 DEF scope
    <3>3. QED
      BY <2>3, <2>4, <3>1, <3>2 DEF PlanIsAboutScope
<1>5. \A k \in 1..n : scope.subs[k] \in ScopeSubs(s)
  BY <1>1 DEF ScopeSubs
<1>6. CASE scope.type = "cost_summary"
  <2> DEFINE asked == [k \in DOMAIN scope.subs |-> CostRequest(scope.subs[k], scope.window)]
  <2>1. asked \in Seq(cost) /\ Len(asked) = n
    <3>1. \A k \in 1..n : CostRequest(scope.subs[k], scope.window) \in cost
      BY <1>5
    <3> HIDE DEF cost, scope, n
    <3>2. QED
      BY <1>1, <3>1
  <2>2. s.plan = <<InventoryRequest>> \o asked
    BY <1>6 DEF SelectPlaybook, CostSummaryPlaybook
  <2>3. \A k \in 1..n : asked[k].subs = {scope.subs[k]} /\ asked[k].window = scope.window
    BY <1>1, RequestFields
  <2> HIDE DEF asked, cost, scope, n
  <2>4. QED
    BY <1>2, <1>4, <2>1, <2>2, <2>3
<1>7. CASE scope.type = "cost_surprise"
  <2> DEFINE WindowOf(k) == IF k % 2 = 1 THEN scope.window ELSE scope.baseline
             asked == [k \in 1..(2 * n) |-> CostRequest(scope.subs[(k + 1) \div 2], WindowOf(k))]
  <2>1. asked \in Seq(cost) /\ Len(asked) = 2 * n
    <3>1. \A k \in 1..(2 * n) : (k + 1) \div 2 \in 1..n
      BY <1>1
    <3>2. \A k \in 1..(2 * n) : CostRequest(scope.subs[(k + 1) \div 2], WindowOf(k)) \in cost
      BY <1>5, <3>1
    <3> HIDE DEF cost, scope, n, WindowOf
    <3>3. QED
      BY <1>1, <3>2
  <2>2. s.plan = <<InventoryRequest>> \o asked
    BY <1>7 DEF SelectPlaybook, CostSurprisePlaybook
  <2>3. \A k \in 1..(2 * n) : /\ asked[k].subs = {scope.subs[(k + 1) \div 2]}
                              /\ asked[k].window \in {scope.window, scope.baseline}
    BY RequestFields
  <2> HIDE DEF asked
  <2>4. \A k \in 1..n : 2 * k \in 1..(2 * n) /\ (2 * k + 1) \div 2 = k
    BY <1>1
  <2>5. \A k \in 1..(2 * n) : asked[k].window.to \in Int
    BY <1>2, <1>7, <2>3
  <2>6. \A k \in 1..n : asked[2 * k].subs = {scope.subs[k]}
    BY <2>3, <2>4
  <2> HIDE DEF cost, scope, n
  <2>7. QED
    BY <1>4, <2>1, <2>2, <2>4, <2>5, <2>6
<1>8. QED
  BY <1>1, <1>6, <1>7

-----------------------------------------------------------------------------
(* What is judged and what is covered. *)

\* An answer that leaves no entry, or that of a valid zero, is sound.
LEMMA PassingIsSound ==
  ASSUME NEW batch, NEW k, batch[k].answer \in Payload,
         Assess(batch, k) \in {"no_entry", "valid_zero"}
  PROVE  Sound(batch, k)
<1>1. CASE Assess(batch, k) = "no_entry"
  BY <1>1, OrdinaryTotal DEF Sound
<1>2. CASE Assess(batch, k) = "valid_zero"
  BY <1>2, ValidZero
<1>3. QED
  BY <1>1, <1>2

\* A cost answer that is not sound puts its request into quarantine.
LEMMA UnsoundIsQuarantined ==
  ASSUME NEW batch, NEW k \in DOMAIN batch, IsCost(batch[k]), batch[k].answer \in Payload,
         ~Sound(batch, k)
  PROVE  IsQuarantined(batch, batch[k].request)
<1>1. Assess(batch, k) \notin {"no_entry", "valid_zero"}
  BY PassingIsSound
<1>2. QED
  BY <1>1 DEF IsQuarantined, Entries

\* What the records of a run are made of.
LEMMA EvidenceIs ==
  ASSUME NEW s, NEW e \in Evidence(s)
  PROVE  \/ \E k \in DOMAIN s.raw :
              /\ IsCost(s.raw[k]) /\ e.request = s.raw[k].request
              /\ e.ids = EvidenceIds(s.raw[k].request, s.raw[k].answer)
              /\ e.source = IF IsQuarantined(s.raw, e.request) THEN "quarantined" ELSE "live"
         \/ \E record \in s.served :
              /\ e.request = record.request
              /\ e.ids = EvidenceIds(record.request, record.answer)
              /\ e.source = IF IsQuarantined(s.raw, e.request) THEN "quarantined" ELSE "cache"
<1>1. PICK x \in LiveEvidence(s) \union ServedEvidence(s) :
        e = IF IsQuarantined(s.raw, x.request) THEN [x EXCEPT !.source = "quarantined"] ELSE x
  BY DEF Evidence, MarkQuarantined
<1>2. CASE x \in LiveEvidence(s)
  <2>1. PICK k \in DOMAIN s.raw :
          IsCost(s.raw[k]) /\
          x = [request |-> s.raw[k].request, source |-> "live",
               ids |-> EvidenceIds(s.raw[k].request, s.raw[k].answer), answer |-> s.raw[k].answer]
    BY <1>2 DEF LiveEvidence
  <2>2. QED
    BY <1>1, <2>1
<1>3. CASE x \in ServedEvidence(s)
  <2>1. PICK record \in s.served :
          x = [request |-> record.request, source |-> "cache",
               ids |-> EvidenceIds(record.request, record.answer), answer |-> record.answer]
    BY <1>3 DEF ServedEvidence
  <2>2. QED
    BY <1>1, <2>1
<1>4. QED
  BY <1>1, <1>2, <1>3

\* Each answer has its record, and so has each served one.
LEMMA EvidenceHas ==
  ASSUME NEW s
  PROVE  /\ \A k \in DOMAIN s.raw : IsCost(s.raw[k]) => \E e \in Evidence(s) :
              /\ e.request = s.raw[k].request
              /\ e.ids = EvidenceIds(s.raw[k].request, s.raw[k].answer)
              /\ ~IsQuarantined(s.raw, s.raw[k].request) => e.source = "live"
         /\ \A record \in s.served : \E e \in Evidence(s) :
              /\ e.request = record.request
              /\ e.ids = EvidenceIds(record.request, record.answer)
              /\ ~IsQuarantined(s.raw, record.request) => e.source = "cache"
<1>1. ASSUME NEW x \in LiveEvidence(s) \union ServedEvidence(s)
      PROVE  (IF IsQuarantined(s.raw, x.request) THEN [x EXCEPT !.source = "quarantined"] ELSE x)
               \in Evidence(s)
  BY DEF Evidence, MarkQuarantined
<1>2. ASSUME NEW k \in DOMAIN s.raw, IsCost(s.raw[k])
      PROVE  \E e \in Evidence(s) :
              /\ e.request = s.raw[k].request
              /\ e.ids = EvidenceIds(s.raw[k].request, s.raw[k].answer)
              /\ ~IsQuarantined(s.raw, s.raw[k].request) => e.source = "live"
  <2> DEFINE x == [request |-> s.raw[k].request, source |-> "live",
                   ids |-> EvidenceIds(s.raw[k].request, s.raw[k].answer), answer |-> s.raw[k].answer]
             e == IF IsQuarantined(s.raw, x.request) THEN [x EXCEPT !.source = "quarantined"] ELSE x
  <2>1. x \in LiveEvidence(s)
    BY <1>2 DEF LiveEvidence
  <2>2. e \in Evidence(s)
    BY <1>1, <2>1
  <2>3. QED
    BY <2>2
<1>3. ASSUME NEW record \in s.served
      PROVE  \E e \in Evidence(s) :
              /\ e.request = record.request
              /\ e.ids = EvidenceIds(record.request, record.answer)
              /\ ~IsQuarantined(s.raw, record.request) => e.source = "cache"
  <2> DEFINE x == [request |-> record.request, source |-> "cache",
                   ids |-> EvidenceIds(record.request, record.answer), answer |-> record.answer]
             e == IF IsQuarantined(s.raw, x.request) THEN [x EXCEPT !.source = "quarantined"] ELSE x
  <2>1. x \in ServedEvidence(s)
    BY DEF ServedEvidence
  <2>2. e \in Evidence(s)
    BY <1>1, <2>1
  <2>3. QED
    BY <2>2
<1>4. QED
  BY <1>2, <1>3

\* A stored record is sound, covers its subscription, and covers no other.
LEMMA GoodRecordCovers ==
  ASSUME IdsAreSpelledAsAsked, NEW sub \in Sub, NEW record, RecordIsGood(sub, record)
  PROVE  /\ Sound(ReplayBatch(sub, record), 1)
         /\ \A x : <<x, "asked">> \in EvidenceIds(record.request, record.answer) <=> x = sub
<1>1. Sound(ReplayBatch(sub, record), 1)
  BY AdmittedIsSound DEF RecordIsGood
<1> DEFINE raw == ReplayBatch(sub, record)[1]
<1>2. raw.request = record.request /\ raw.answer = record.answer
  BY ReplayIsAlone DEF RecordIsGood
<1>3. ReturnedScope(raw) /= "mismatched"
  BY <1>1 DEF Sound
<1> HIDE DEF raw
<1>4. QED
  BY <1>1, <1>2, <1>3, EvidenceCoversItsOwn DEF RecordIsGood

\* Without findings nothing is in quarantine.
LEMMA NoFindings ==
  ASSUME NEW s, QuarantineFindings(s) = {}
  PROVE  \A request : ~IsQuarantined(s.raw, request)
BY DEF QuarantineFindings, IsQuarantined

\* What a run has asked for is in its plan, about one subscription of its scope.
LEMMA AnswersAreAboutScope ==
  ASSUME NEW s, PlanIsAboutScope(s), RequestsAreAccounted(s), NEW k \in DOMAIN s.raw, IsCost(s.raw[k])
  PROVE  /\ \E j \in DOMAIN s.remaining : s.raw[k].request = s.remaining[j]
         /\ s.raw[k].request.window.to \in Int
         /\ \E sub \in ScopeSubs(s) : s.raw[k].request.subs = {sub}
         /\ s.raw[k].answer \in Payload /\ k \in Nat
<1> DEFINE answered == [request : RangeOf(s.remaining), answer : Counts \union Payload, at : Nat]
<1>1. s.raw \in Seq(answered)
  BY DEF RequestsAreAccounted
<1>2. s.raw[k].request \in RangeOf(s.remaining) /\ k \in Nat
  <2>1. \A a \in answered : a.request \in RangeOf(s.remaining)
    OBVIOUS
  <2> HIDE DEF answered
  <2>2. s.raw[k] \in answered /\ k \in Nat
    BY <1>1
  <2>3. QED
    BY <2>1, <2>2
<1>3. PICK j \in DOMAIN s.remaining : s.raw[k].request = s.remaining[j]
  BY <1>2 DEF RangeOf
<1>4. s.remaining[j] \in RangeOf(s.plan)
  BY <1>3 DEF RequestsAreAccounted
<1>5. PICK i \in DOMAIN s.plan : s.remaining[j] = s.plan[i]
  BY <1>4 DEF RangeOf
<1>6. s.plan[i].window.to \in Int /\ \E sub \in ScopeSubs(s) : s.plan[i].subs = {sub}
  BY <1>3, <1>5 DEF PlanIsAboutScope, IsCost
<1>7. s.raw[k].answer \in Payload
  BY DEF RequestsAreAccounted
<1>8. QED
  BY <1>2, <1>3, <1>5, <1>6, <1>7

\* When nothing is in quarantine, what is covered is what there is sound evidence of.
LEMMA CoveredHasEvidence ==
  ASSUME IdsAreSpelledAsAsked, NEW s, PlanIsAboutScope(s), RequestsAreAccounted(s),
         QuarantineFindings(s) = {}
  PROVE  /\ \A k \in DOMAIN s.raw : IsCost(s.raw[k]) => Sound(s.raw, k)
         /\ \A sub \in ScopeSubs(s) : sub \in Covered(s) <=> HasEvidence(s, sub)
<1>1. \A k \in DOMAIN s.raw : IsCost(s.raw[k]) => Sound(s.raw, k)
  BY AnswersAreAboutScope, UnsoundIsQuarantined, NoFindings
<1>2. ScopeSubs(s) \subseteq Sub
  BY DEF ScopeSubs, PlanIsAboutScope
<1>3. ASSUME NEW k \in DOMAIN s.raw, IsCost(s.raw[k])
      PROVE  \E sub \in ScopeSubs(s) :
               /\ s.raw[k].request.subs = {sub}
               /\ \A x : <<x, "asked">> \in EvidenceIds(s.raw[k].request, s.raw[k].answer) <=> x = sub
  <2>1. PICK sub \in ScopeSubs(s) : s.raw[k].request.subs = {sub}
    BY <1>3, AnswersAreAboutScope
  <2>2. s.raw[k].answer \in Payload /\ ReturnedScope(s.raw[k]) /= "mismatched"
    BY <1>1, <1>3, AnswersAreAboutScope DEF Sound
  <2>3. \A x : <<x, "asked">> \in EvidenceIds(s.raw[k].request, s.raw[k].answer) <=> x = sub
    BY <1>2, <2>1, <2>2, EvidenceCoversItsOwn
  <2>4. QED
    BY <2>1, <2>3
<1>4. ASSUME NEW record \in s.served
      PROVE  \E sub \in Sub :
               /\ record.request.subs = {sub}
               /\ \A x : <<x, "asked">> \in EvidenceIds(record.request, record.answer) <=> x = sub
  <2>1. PICK sub \in Sub : RecordIsGood(sub, record)
    BY DEF RequestsAreAccounted
  <2>2. QED
    BY <2>1, GoodRecordCovers DEF RecordIsGood
<1>5. ASSUME NEW sub \in ScopeSubs(s), sub \in Covered(s)
      PROVE  HasEvidence(s, sub)
  <2>1. PICK e \in Evidence(s) : <<sub, "asked">> \in e.ids
    BY <1>5 DEF Covered
  <2>2. CASE \E k \in DOMAIN s.raw :
               IsCost(s.raw[k]) /\ e.ids = EvidenceIds(s.raw[k].request, s.raw[k].answer)
    BY <1>1, <1>3, <2>1, <2>2 DEF HasEvidence, AsksFor
  <2>3. CASE \E record \in s.served : e.ids = EvidenceIds(record.request, record.answer)
    BY <1>4, <2>1, <2>3 DEF HasEvidence
  <2>4. QED
    BY <2>2, <2>3, EvidenceIs
<1>6. ASSUME NEW sub \in ScopeSubs(s), HasEvidence(s, sub)
      PROVE  sub \in Covered(s)
  <2>1. CASE \E k \in DOMAIN s.raw : AsksFor(s.raw[k], sub)
    <3>1. PICK k \in DOMAIN s.raw : IsCost(s.raw[k]) /\ s.raw[k].request.subs = {sub}
      BY <2>1 DEF AsksFor
    <3>2. <<sub, "asked">> \in EvidenceIds(s.raw[k].request, s.raw[k].answer)
      BY <1>3, <3>1
    <3>3. PICK e \in Evidence(s) : /\ e.ids = EvidenceIds(s.raw[k].request, s.raw[k].answer)
                                   /\ e.source = "live"
      BY <3>1, EvidenceHas, NoFindings
    <3>4. QED
      BY <3>2, <3>3 DEF Covered
  <2>2. CASE \E record \in s.served : record.request.subs = {sub}
    <3>1. PICK record \in s.served : record.request.subs = {sub}
      BY <2>2
    <3>2. <<sub, "asked">> \in EvidenceIds(record.request, record.answer)
      BY <1>4, <3>1
    <3>3. PICK e \in Evidence(s) : e.ids = EvidenceIds(record.request, record.answer) /\ e.source = "cache"
      BY EvidenceHas, NoFindings
    <3>4. QED
      BY <3>2, <3>3 DEF Covered
  <2>3. QED
    BY <1>6, <2>1, <2>2 DEF HasEvidence
<1>7. QED
  BY <1>1, <1>5, <1>6

\* The report counts what the classification compares.
LEMMA CoverageIsCounted ==
  ASSUME NEW s, PlanIsAboutScope(s)
  PROVE  /\ ScopeSubs(s) /= {} /\ Covered(s) \subseteq ScopeSubs(s)
         /\ IsFullCoverage(s) <=> Covered(s) = ScopeSubs(s)
<1> DEFINE subs == s.scope.subs
           n == Len(subs)
<1>1. subs \in Seq(Sub) /\ n \in Nat \ {0} /\ DOMAIN subs = 1..n
  BY DEF PlanIsAboutScope
<1>2. subs \in Bijection(1..n, ScopeSubs(s))
  <2>1. subs \in [1..n -> ScopeSubs(s)]
    BY <1>1 DEF ScopeSubs
  <2>2. \A j, k \in 1..n : subs[j] = subs[k] => j = k
    BY <1>1 DEF PlanIsAboutScope
  <2>3. \A sub \in ScopeSubs(s) : \E k \in 1..n : subs[k] = sub
    BY <1>1 DEF ScopeSubs
  <2>4. QED
    BY <2>1, <2>2, <2>3 DEF Bijection, Injection, Surjection, IsInjective
<1>3. IsFiniteSet(ScopeSubs(s)) /\ Cardinality(ScopeSubs(s)) = n
  <2>1. IsFiniteSet(1..n) /\ Cardinality(1..n) = n
    BY <1>1, FS_Interval
  <2>2. ExistsBijection(1..n, ScopeSubs(s))
    BY <1>2 DEF ExistsBijection
  <2>3. QED
    BY <2>1, <2>2, FS_Bijection
<1>4. Covered(s) \subseteq ScopeSubs(s)
  BY DEF Covered
<1>5. ScopeSubs(s) /= {}
  <2>1. 1 \in DOMAIN subs
    BY <1>1
  <2>2. QED
    BY <2>1 DEF ScopeSubs
<1>6. QED
  BY <1>3, <1>4, <1>5, FS_Subset DEF IsFullCoverage

-----------------------------------------------------------------------------
(* What follows for a run that is done. *)

\* Retrieval is a success exactly if every subscription is covered.
LEMMA SuccessIsCoverage ==
  ASSUME NEW s, PlanIsAboutScope(s), AsksForCost(s.plan)
  PROVE  /\ CostCalls(s) /= {}
         /\ ClassifyCostRetrieval(s) = "success" <=> Covered(s) = ScopeSubs(s)
         /\ ClassifyCostRetrieval(s) \in {"success", "partial", "failed"}
<1>1. CostCalls(s) /= {}
  BY DEF CostCalls, AsksForCost
<1>2. QED
  BY <1>1, CoverageIsCounted DEF ClassifyCostRetrieval

\* A finished run that is accounted for has the status its evidence deserves.
LEMMA AccountsTellTheTruth ==
  ASSUME IdsAreSpelledAsAsked, NEW s, s.at = "done", RunIsAccounted(s), AsksForCost(s.plan)
  PROVE  /\ s.status = "success" =>
              /\ \A sub \in ScopeSubs(s) : HasEvidence(s, sub)
              /\ \A k \in DOMAIN s.raw : IsCost(s.raw[k]) => Sound(s.raw, k)
         /\ s.status = "failed_analysis" => \A sub \in ScopeSubs(s) : ~HasEvidence(s, sub)
         /\ IsFullCoverage(s) <=> ClassifyCostRetrieval(s) = "success"
         /\ UnavailableIds(s) /= {} => s.status /= "success"
<1>1. PlanIsAboutScope(s) /\ RequestsAreAccounted(s)
  BY DEF RunIsAccounted
<1>2. PICK wasteIncomplete \in BOOLEAN, drops \in BOOLEAN :
        s.status = DeriveRunStatus(s, wasteIncomplete, drops)
  BY DEF RunIsAccounted
<1>3. s.status = "success" => Covered(s) = ScopeSubs(s) /\ QuarantineFindings(s) = {}
  BY <1>1, <1>2, SuccessIsCoverage DEF DeriveRunStatus
<1>4. s.status = "failed_analysis" => Covered(s) = {} /\ QuarantineFindings(s) = {}
  BY <1>1, <1>2, SuccessIsCoverage, CoverageIsCounted DEF DeriveRunStatus, ClassifyCostRetrieval
<1>5. ASSUME s.status = "success"
      PROVE  /\ \A sub \in ScopeSubs(s) : HasEvidence(s, sub)
             /\ \A k \in DOMAIN s.raw : IsCost(s.raw[k]) => Sound(s.raw, k)
  BY <1>1, <1>3, <1>5, CoveredHasEvidence
<1>6. ASSUME s.status = "failed_analysis"
      PROVE  \A sub \in ScopeSubs(s) : ~HasEvidence(s, sub)
  BY <1>1, <1>4, <1>6, CoveredHasEvidence
<1>7. IsFullCoverage(s) <=> ClassifyCostRetrieval(s) = "success"
  BY <1>1, SuccessIsCoverage, CoverageIsCounted
<1>8. UnavailableIds(s) /= {} => s.status /= "success"
  BY <1>3 DEF UnavailableIds
<1>9. QED
  BY <1>5, <1>6, <1>7, <1>8

\* An answer that is not sound is in quarantine, what was served is sound and was
\* settled, and what may still grow is told.
LEMMA AccountsAreQualified ==
  ASSUME NEW s, s.at = "done", RunIsAccounted(s)
  PROVE  /\ \A k \in DOMAIN s.raw : IsCost(s.raw[k]) /\ ~Sound(s.raw, k) =>
              \A e \in Evidence(s) : e.request = s.raw[k].request => e.source = "quarantined"
         /\ \A record \in s.served :
              /\ \E sub \in Sub : Sound(ReplayBatch(sub, record), 1)
              /\ record.at >= record.request.window.to + Lag
         /\ GrowthIsTold(s)
<1>1. PlanIsAboutScope(s) /\ RequestsAreAccounted(s) /\ GrowthIsTold(s)
  BY DEF RunIsAccounted
<1>2. ASSUME NEW k \in DOMAIN s.raw, IsCost(s.raw[k]), ~Sound(s.raw, k),
             NEW e \in Evidence(s), e.request = s.raw[k].request
      PROVE  e.source = "quarantined"
  <2>1. IsQuarantined(s.raw, e.request)
    BY <1>1, <1>2, AnswersAreAboutScope, UnsoundIsQuarantined
  <2>2. QED
    BY <2>1, EvidenceIs
<1>3. ASSUME NEW record \in s.served
      PROVE  /\ \E sub \in Sub : Sound(ReplayBatch(sub, record), 1)
             /\ record.at >= record.request.window.to + Lag
  <2>1. PICK sub \in Sub : RecordIsGood(sub, record)
    BY <1>1 DEF RequestsAreAccounted
  <2>2. Sound(ReplayBatch(sub, record), 1)
    BY <2>1, AdmittedIsSound DEF RecordIsGood
  <2>3. record.at >= record.request.window.to + Lag
    <3>1. /\ record.at \in Nat /\ record.request.window.to \in Int
          /\ record.at >= record.request.window.to + Offset
      BY <2>1, RunAssumption DEF RecordIsGood
    <3>2. QED
      BY <3>1, RunAssumption
  <2>4. QED
    BY <2>2, <2>3
<1>4. QED
  BY <1>1, <1>2, <1>3

\* A run that leaves nothing in the plan has a record of every subscription.
LEMMA CachedRunSucceeds ==
  ASSUME IdsAreSpelledAsAsked, NEW s, s.at = "done", RunIsAccounted(s),
         AsksForCost(s.plan), ~AsksForCost(s.remaining)
  PROVE  ClassifyCostRetrieval(s) = "success"
<1>1. PlanIsAboutScope(s) /\ RequestsAreAccounted(s)
  BY DEF RunIsAccounted
<1>2. \A k \in DOMAIN s.raw : ~IsCost(s.raw[k])
  BY <1>1, AnswersAreAboutScope DEF AsksForCost, IsCost
<1>3. QuarantineFindings(s) = {}
  BY <1>2 DEF QuarantineFindings, Entries
<1>4. ASSUME NEW sub \in ScopeSubs(s)
      PROVE  HasEvidence(s, sub)
  <2>1. PICK k \in DOMAIN s.plan : s.plan[k].capability = "cost" /\ s.plan[k].subs = {sub}
    BY <1>1 DEF PlanIsAboutScope
  <2>2. s.plan[k] \notin RangeOf(s.remaining)
    BY <2>1 DEF AsksForCost, RangeOf
  <2>3. \E record \in s.served : record.request.subs = {sub}
    BY <1>1, <2>1, <2>2 DEF RequestsAreAccounted
  <2>4. QED
    BY <2>3 DEF HasEvidence
<1>5. Covered(s) = ScopeSubs(s)
  BY <1>1, <1>3, <1>4, CoveredHasEvidence, CoverageIsCounted
<1>6. QED
  BY <1>1, <1>5, SuccessIsCoverage

-----------------------------------------------------------------------------
(* Steps, and what is accounted for after them. *)

\* A started run accounts for nothing yet.
LEMMA StartIsAccounted ==
  ASSUME NothingIsRepeated, AccountInv, NEW r \in Run, Start(r)
  PROVE  \E t : Continue(r, t) /\ RunIsAccounted(t)
<1>1. PICK input \in Inputs : \E plan \in {SelectPlaybook(IntakeScope(input))} \union PlannerPlans :
        Continue(r, [at |-> "serve", i |-> 1, scope |-> IntakeScope(input), plan |-> plan,
                     eligible |-> Eligible(IntakeScope(input)), served |-> {}, remaining |-> <<>>,
                     raw |-> <<>>, failed |-> {}, status |-> "none",
                     until |-> FirstTime, fresh |-> {}])
  BY DEF Start
<1> DEFINE scope == IntakeScope(input)
           plan == SelectPlaybook(scope)
           t == [at |-> "serve", i |-> 1, scope |-> scope, plan |-> plan,
                 eligible |-> Eligible(scope), served |-> {}, remaining |-> <<>>,
                 raw |-> <<>>, failed |-> {}, status |-> "none",
                 until |-> FirstTime, fresh |-> {}]
<1>2. Continue(r, t)
  BY <1>1 DEF NothingIsRepeated
<1>3. PlanIsAboutScope(t)
  <2>1. clock \in Nat
    BY DEF AccountInv, IInv, TypeOK
  <2>2. t.scope = IntakeScope(input) /\ t.plan = SelectPlaybook(t.scope)
    OBVIOUS
  <2> HIDE DEF t
  <2>3. QED
    BY <2>1, <2>2, PlaybookIsAboutScope
<1>4. RequestsAreAccounted(t)
  <2>1. t.at = "serve" /\ t.i = 1 /\ t.remaining = <<>> /\ t.raw = <<>> /\ t.served = {} /\ t.plan = plan
    OBVIOUS
  <2>2. \A k \in DOMAIN t.plan : ~(k < t.i)
    BY <1>3, <2>1 DEF PlanIsAboutScope
  <2> HIDE DEF t
  <2>3. QED
    BY <2>1, <2>2 DEF RequestsAreAccounted
<1>5. RunIsAccounted(t)
  BY <1>3, <1>4 DEF RunIsAccounted
<1>6. QED
  BY <1>2, <1>5

\* Whether a plan is about its scope depends on these two alone.
LEMMA SamePlan ==
  ASSUME NEW s, PlanIsAboutScope(s), NEW t, t.scope = s.scope, t.plan = s.plan
  PROVE  PlanIsAboutScope(t)
<1>1. ScopeSubs(t) = ScopeSubs(s)
  BY DEF ScopeSubs
<1>2. /\ t.scope.subs \in Seq(Sub) /\ t.scope.subs /= <<>>
      /\ \A j, k \in DOMAIN t.scope.subs : t.scope.subs[j] = t.scope.subs[k] => j = k
  BY DEF PlanIsAboutScope
<1>3. DOMAIN t.plan = 1..Len(t.plan) /\ Len(t.plan) \in Nat
  BY DEF PlanIsAboutScope
<1>4. ASSUME NEW k \in DOMAIN t.plan, t.plan[k].capability = "cost"
      PROVE  t.plan[k].window.to \in Int /\ \E sub \in ScopeSubs(t) : t.plan[k].subs = {sub}
  BY <1>1, <1>4 DEF PlanIsAboutScope
<1>5. ASSUME NEW sub \in ScopeSubs(t)
      PROVE  \E k \in DOMAIN t.plan : t.plan[k].capability = "cost" /\ t.plan[k].subs = {sub}
  BY <1>1, <1>5 DEF PlanIsAboutScope
<1>6. QED
  BY <1>2, <1>3, <1>4, <1>5 DEF PlanIsAboutScope

\* The stage or the place changes, and nothing that was asked, served or answered.
LEMMA MovingOnIsAccounted ==
  ASSUME NEW s, RunIsAccounted(s), s.at \in {"serve", "execute", "write"},
         s.at = "serve" => s.i > Len(s.plan),
         NEW t, DOMAIN t = DOMAIN s, t.i \in Nat \ {0}, t.at \in {"execute", "write"},
         t.scope = s.scope, t.plan = s.plan, t.served = s.served, t.remaining = s.remaining,
         t.raw = s.raw
  PROVE  RunIsAccounted(t)
<1>1. /\ PlanIsAboutScope(s) /\ RequestsAreAccounted(s) /\ s.i \in Nat
      /\ DOMAIN s = {"at", "i", "scope", "plan", "eligible", "served", "remaining", "raw", "failed",
                     "status", "until", "fresh"}
  BY DEF RunIsAccounted
<1>2. PlanIsAboutScope(t)
  BY <1>1, SamePlan
<1>3. \A k \in DOMAIN s.plan : s.at = "serve" => k < s.i
  BY <1>1 DEF PlanIsAboutScope
<1>4. RequestsAreAccounted(t)
  BY <1>1, <1>3 DEF RequestsAreAccounted
<1>5. QED
  BY <1>1, <1>2, <1>4 DEF RunIsAccounted

\* A request served from the cache is accounted as served.
LEMMA ServeHitIsAccounted ==
  ASSUME AccountInv, NEW r \in Run, ServeHit(r)
  PROVE  \E t : Continue(r, t) /\ RunIsAccounted(t)
<1> DEFINE s == run[r]
<1>1. PICK cell \in CostCellFor(s, s.plan[s.i]) :
        /\ s.at = "serve" /\ s.i <= Len(s.plan) /\ cells[cell] /= NoRecord
        /\ Continue(r, [s EXCEPT !.i = @ + 1, !.served = @ \union {cells[cell]}])
  BY DEF ServeHit
<1> DEFINE record == cells[cell]
           t == [s EXCEPT !.i = @ + 1, !.served = @ \union {record}]
<1>2. cell \in Cell /\ s.plan[s.i].subs = {cell[1]} /\ cell[1] \in Sub
  BY <1>1 DEF CostCellFor, Cell
<1>3. RecordIsGood(cell[1], record)
  BY <1>1, <1>2 DEF AccountInv, CellsAreGood
<1>4. RunIsAccounted(s)
  BY DEF AccountInv
<1>5. Continue(r, t)
  BY <1>1
<1> HIDE DEF s, record
<1>6. /\ PlanIsAboutScope(s) /\ RequestsAreAccounted(s) /\ s.i \in Nat \ {0}
      /\ DOMAIN s = {"at", "i", "scope", "plan", "eligible", "served", "remaining", "raw", "failed",
                     "status", "until", "fresh"}
  BY <1>1, <1>4 DEF RunIsAccounted
<1>7. /\ DOMAIN t = DOMAIN s /\ t.i = s.i + 1 /\ t.at = "serve" /\ t.scope = s.scope
      /\ t.plan = s.plan /\ t.remaining = s.remaining /\ t.raw = s.raw
      /\ t.served = s.served \union {record}
  BY <1>1, <1>6
<1> HIDE DEF t
<1>8. PlanIsAboutScope(t)
  BY <1>6, <1>7, SamePlan
<1>9. RequestsAreAccounted(t)
  <2>1. ASSUME NEW k \in DOMAIN t.plan, t.plan[k].capability = "cost", k < t.i
        PROVE  \/ t.plan[k] \in RangeOf(t.remaining)
               \/ \E x \in t.served : x.request.subs = t.plan[k].subs
    <3>1. k < s.i \/ k = s.i
      BY <1>6, <1>7, <2>1 DEF PlanIsAboutScope
    <3>2. CASE k < s.i
      BY <1>1, <1>6, <1>7, <2>1, <3>2 DEF RequestsAreAccounted
    <3>3. CASE k = s.i
      BY <1>2, <1>3, <1>7, <3>3 DEF RecordIsGood
    <3>4. QED
      BY <3>1, <3>2, <3>3
  <2>2. \A x \in t.served : \E sub \in Sub : RecordIsGood(sub, x)
    BY <1>2, <1>3, <1>6, <1>7 DEF RequestsAreAccounted
  <2>3. t.remaining \in Seq(RangeOf(t.plan)) /\ t.raw = <<>>
    BY <1>1, <1>6, <1>7 DEF RequestsAreAccounted
  <2>4. QED
    BY <1>6, <1>7, <2>1, <2>2, <2>3 DEF RequestsAreAccounted
<1>10. RunIsAccounted(t)
  BY <1>6, <1>7, <1>8, <1>9 DEF RunIsAccounted
<1>11. QED
  BY <1>5, <1>10

\* A request that is not served is accounted as remaining.
LEMMA ServeLeftIsAccounted ==
  ASSUME AccountInv, NEW r \in Run, ServeLeft(r)
  PROVE  \E t : Continue(r, t) /\ RunIsAccounted(t)
<1> DEFINE s == run[r]
           new == s.plan[s.i]
           t == [s EXCEPT !.i = @ + 1, !.remaining = Append(@, new)]
<1>1. s.at = "serve" /\ s.i <= Len(s.plan) /\ Continue(r, t)
  BY DEF ServeLeft
<1>2. RunIsAccounted(s)
  BY DEF AccountInv
<1> HIDE DEF s
<1>3. /\ PlanIsAboutScope(s) /\ RequestsAreAccounted(s) /\ s.i \in Nat \ {0}
      /\ DOMAIN s = {"at", "i", "scope", "plan", "eligible", "served", "remaining", "raw", "failed",
                     "status", "until", "fresh"}
  BY <1>1, <1>2 DEF RunIsAccounted
<1>4. new \in RangeOf(s.plan)
  BY <1>1, <1>3 DEF PlanIsAboutScope, RangeOf
<1> HIDE DEF new
<1>5. /\ DOMAIN t = DOMAIN s /\ t.i = s.i + 1 /\ t.at = "serve" /\ t.scope = s.scope
      /\ t.plan = s.plan /\ t.remaining = Append(s.remaining, new) /\ t.raw = s.raw
      /\ t.served = s.served
  BY <1>1, <1>3
<1> HIDE DEF t
<1>6. PlanIsAboutScope(t)
  BY <1>3, <1>5, SamePlan
<1>7. RequestsAreAccounted(t)
  <2> DEFINE asked == RangeOf(s.plan)
             n == Len(s.remaining)
  <2>1. s.remaining \in Seq(asked)
    BY <1>3 DEF RequestsAreAccounted
  <2> HIDE DEF asked
  <2>2. /\ t.remaining \in Seq(asked) /\ n \in Nat /\ DOMAIN s.remaining = 1..n
        /\ DOMAIN t.remaining = 1..(n + 1) /\ t.remaining[n + 1] = new
        /\ \A k \in 1..n : t.remaining[k] = s.remaining[k]
    BY <1>4, <1>5, <2>1 DEF asked
  <2> HIDE DEF n
  <2>3. new \in RangeOf(t.remaining) /\ RangeOf(s.remaining) \subseteq RangeOf(t.remaining)
    BY <2>2 DEF RangeOf
  <2>4. ASSUME NEW k \in DOMAIN t.plan, t.plan[k].capability = "cost", k < t.i
        PROVE  \/ t.plan[k] \in RangeOf(t.remaining)
               \/ \E x \in t.served : x.request.subs = t.plan[k].subs
    <3>1. k < s.i \/ k = s.i
      BY <1>3, <1>5, <2>4 DEF PlanIsAboutScope
    <3>2. CASE k < s.i
      BY <1>1, <1>3, <1>5, <2>3, <2>4, <3>2 DEF RequestsAreAccounted
    <3>3. CASE k = s.i
      BY <1>5, <2>3, <3>3 DEF new
    <3>4. QED
      BY <3>1, <3>2, <3>3
  <2>5. \A x \in t.served : \E sub \in Sub : RecordIsGood(sub, x)
    BY <1>3, <1>5 DEF RequestsAreAccounted
  <2>6. t.remaining \in Seq(RangeOf(t.plan)) /\ t.raw = <<>>
    BY <1>1, <1>3, <1>5, <2>2 DEF RequestsAreAccounted, asked
  <2>7. QED
    BY <1>5, <2>4, <2>5, <2>6 DEF RequestsAreAccounted
<1>8. RunIsAccounted(t)
  BY <1>3, <1>5, <1>6, <1>7 DEF RunIsAccounted
<1>9. QED
  BY <1>1, <1>8

\* An answer is accounted to the request that it answers.
LEMMA RetrieveIsAccounted ==
  ASSUME AccountInv, NEW r \in Run, Retrieve(r)
  PROVE  \E t : Continue(r, t) /\ RunIsAccounted(t)
<1> DEFINE s == run[r]
<1>1. PICK answer \in IF s.remaining[s.i].capability = "cost" THEN CostAnswers ELSE InventoryAnswers :
        /\ s.at = "execute" /\ s.i <= Len(s.remaining)
        /\ Continue(r, [s EXCEPT !.i = @ + 1,
                          !.raw = Append(@, [request |-> s.remaining[s.i], answer |-> answer,
                                             at |-> clock])])
  BY DEF Retrieve
<1> DEFINE new == [request |-> s.remaining[s.i], answer |-> answer, at |-> clock]
           t == [s EXCEPT !.i = @ + 1, !.raw = Append(@, new)]
           answered == [request : RangeOf(s.remaining), answer : Counts \union Payload, at : Nat]
<1>2. RunIsAccounted(s) /\ clock \in Nat
  BY DEF AccountInv, IInv, TypeOK
<1>3. answer \in Counts \union Payload /\ (IsCost(new) => answer \in Payload)
  BY <1>1, RunAssumption DEF IsCost
<1>4. Continue(r, t)
  BY <1>1
<1> HIDE DEF s
<1>5. /\ PlanIsAboutScope(s) /\ RequestsAreAccounted(s) /\ s.i \in Nat \ {0}
      /\ DOMAIN s = {"at", "i", "scope", "plan", "eligible", "served", "remaining", "raw", "failed",
                     "status", "until", "fresh"}
  BY <1>1, <1>2 DEF RunIsAccounted
<1>6. new \in answered /\ new.at = clock /\ new.answer = answer
  <2>1. s.remaining \in Seq(RangeOf(s.plan))
    BY <1>5 DEF RequestsAreAccounted
  <2>2. s.i \in DOMAIN s.remaining
    BY <1>1, <1>5, <2>1
  <2>3. s.remaining[s.i] \in RangeOf(s.remaining)
    BY <2>2 DEF RangeOf
  <2>4. QED
    BY <1>2, <1>3, <2>3
<1> HIDE DEF new
<1>7. /\ DOMAIN t = DOMAIN s /\ t.i = s.i + 1 /\ t.at = "execute" /\ t.scope = s.scope
      /\ t.plan = s.plan /\ t.remaining = s.remaining /\ t.raw = Append(s.raw, new)
      /\ t.served = s.served
  BY <1>1, <1>5
<1> HIDE DEF t
<1>8. PlanIsAboutScope(t)
  BY <1>5, <1>7, SamePlan
<1>9. RequestsAreAccounted(t)
  <2> DEFINE n == Len(s.raw)
  <2>1. s.raw \in Seq(answered)
    BY <1>5 DEF RequestsAreAccounted
  <2> HIDE DEF answered
  <2>2. /\ t.raw \in Seq(answered) /\ n \in Nat /\ DOMAIN s.raw = 1..n
        /\ DOMAIN t.raw = 1..(n + 1) /\ t.raw[n + 1] = new
        /\ \A k \in 1..n : t.raw[k] = s.raw[k]
    BY <1>6, <1>7, <2>1
  <2> HIDE DEF n
  <2>3. ASSUME NEW k \in DOMAIN t.raw
        PROVE  (IsCost(t.raw[k]) => t.raw[k].answer \in Payload) /\ t.raw[k].at <= clock
    <3>1. CASE k \in 1..n
      BY <1>5, <2>2, <3>1 DEF RequestsAreAccounted
    <3>2. CASE k = n + 1
      BY <1>2, <1>3, <1>6, <2>2, <3>2
    <3>3. QED
      BY <2>2, <3>1, <3>2
  <2>4. t.raw \in Seq([request : RangeOf(t.remaining), answer : Counts \union Payload, at : Nat])
    BY <1>7, <2>2 DEF answered
  <2>5. /\ t.remaining \in Seq(RangeOf(t.plan))
        /\ \A x \in t.served : \E sub \in Sub : RecordIsGood(sub, x)
    BY <1>5, <1>7 DEF RequestsAreAccounted
  <2>6. \A k \in DOMAIN t.plan : t.plan[k].capability = "cost" =>
          \/ t.plan[k] \in RangeOf(t.remaining)
          \/ \E x \in t.served : x.request.subs = t.plan[k].subs
    BY <1>1, <1>5, <1>7 DEF RequestsAreAccounted
  <2>7. QED
    BY <1>7, <2>3, <2>4, <2>5, <2>6 DEF RequestsAreAccounted
<1>10. RunIsAccounted(t)
  BY <1>5, <1>7, <1>8, <1>9 DEF RunIsAccounted
<1>11. QED
  BY <1>4, <1>10

\* What the reasoner is not told about has settled, or was served when it had.
LEMMA FreshnessIsTold ==
  ASSUME NEW s, clock \in Nat, PlanIsAboutScope(s), RequestsAreAccounted(s)
  PROVE  \A e \in Evidence(s) :
           \/ e.source = "quarantined"
           \/ clock >= e.request.window.to + Lag
           \/ \E f \in CheckFreshness(s) : f.end = e.request.window.to /\ e.ids \subseteq f.ids
<1> SUFFICES ASSUME NEW e \in Evidence(s), e.source /= "quarantined",
                    ~(clock >= e.request.window.to + Lag)
             PROVE  \E f \in CheckFreshness(s) : f.end = e.request.window.to /\ e.ids \subseteq f.ids
  OBVIOUS
<1>1. CASE \E k \in DOMAIN s.raw :
             /\ IsCost(s.raw[k]) /\ e.request = s.raw[k].request
             /\ e.source = IF IsQuarantined(s.raw, e.request) THEN "quarantined" ELSE "live"
  <2>1. e.request.window.to \in Int /\ Lag \in Nat
    BY <1>1, AnswersAreAboutScope, RunAssumption
  <2>2. e.source = "live" /\ clock - e.request.window.to < Lag
    BY <1>1, <2>1
  <2> DEFINE fresh == {x \in Evidence(s) : x.source = "live" /\ clock - x.request.window.to < Lag}
             EndingAt(end) == {x \in fresh : x.request.window.to = end}
             f == [end |-> e.request.window.to, ids |-> MergeScopeSubsets(EndingAt(e.request.window.to))]
  <2>3. e \in fresh /\ e \in EndingAt(e.request.window.to)
    BY <2>2
  <2>4. f \in CheckFreshness(s)
    BY <2>3 DEF CheckFreshness
  <2>5. e.ids \subseteq f.ids
    BY <2>3 DEF MergeScopeSubsets
  <2>6. QED
    BY <2>4, <2>5
<1>2. CASE \E record \in s.served : e.request = record.request
  <2>1. PICK record \in s.served : e.request = record.request
    BY <1>2
  <2>2. PICK sub \in Sub : RecordIsGood(sub, record)
    BY <2>1 DEF RequestsAreAccounted
  <2>3. /\ record.at \in Nat /\ record.at <= clock /\ record.request.window.to \in Int
        /\ record.at >= record.request.window.to + Offset
    BY <2>2, RunAssumption DEF RecordIsGood
  <2>4. clock >= e.request.window.to + Lag
    BY <2>1, <2>3, RunAssumption
  <2>5. QED
    BY <2>4
<1>3. QED
  BY <1>1, <1>2, EvidenceIs

\* A run is concluded from what it has, which stays as it is.
LEMMA ConcludeIsAccounted ==
  ASSUME AccountInv, NEW r \in Run, Conclude(r)
  PROVE  \E t : Continue(r, t) /\ RunIsAccounted(t)
<1> DEFINE s == run[r]
<1>1. PICK wasteIncomplete \in BOOLEAN, drops \in BOOLEAN :
        /\ s.at = "write"
        /\ Continue(r, [s EXCEPT !.at = "done", !.until = clock, !.fresh = CheckFreshness(s),
                               !.status = DeriveRunStatus(s, wasteIncomplete, drops)])
  BY DEF Conclude
<1> DEFINE status == DeriveRunStatus(s, wasteIncomplete, drops)
           fresh == CheckFreshness(s)
           t == [s EXCEPT !.at = "done", !.until = clock, !.fresh = fresh, !.status = status]
<1>2. RunIsAccounted(s) /\ clock \in Nat
  BY DEF AccountInv, IInv, TypeOK
<1>3. Continue(r, t)
  BY <1>1
<1> HIDE DEF s, status, fresh
<1>4. /\ PlanIsAboutScope(s) /\ RequestsAreAccounted(s) /\ s.i \in Nat \ {0}
      /\ DOMAIN s = {"at", "i", "scope", "plan", "eligible", "served", "remaining", "raw", "failed",
                     "status", "until", "fresh"}
  BY <1>1, <1>2 DEF RunIsAccounted
<1>5. /\ DOMAIN t = DOMAIN s /\ t.i = s.i /\ t.at = "done" /\ t.scope = s.scope
      /\ t.plan = s.plan /\ t.remaining = s.remaining /\ t.raw = s.raw
      /\ t.served = s.served /\ t.until = clock /\ t.fresh = fresh /\ t.status = status
  BY <1>4
<1> HIDE DEF t
<1>6. PlanIsAboutScope(t)
  BY <1>4, <1>5, SamePlan
<1>7. RequestsAreAccounted(t)
  BY <1>1, <1>4, <1>5 DEF RequestsAreAccounted
<1>8. Evidence(t) = Evidence(s)
  BY <1>5 DEF Evidence, LiveEvidence, ServedEvidence
<1>9. GrowthIsTold(t)
  BY <1>2, <1>4, <1>5, <1>8, FreshnessIsTold DEF GrowthIsTold, fresh
<1>10. t.status = DeriveRunStatus(t, wasteIncomplete, drops)
  <2>1. ScopeSubs(t) = ScopeSubs(s) /\ CostCalls(t) = CostCalls(s)
    BY <1>5 DEF ScopeSubs, CostCalls
  <2>2. QuarantineFindings(t) = QuarantineFindings(s)
    BY <1>5 DEF QuarantineFindings
  <2>3. Covered(t) = Covered(s)
    BY <1>8, <2>1 DEF Covered
  <2>4. ClassifyCostRetrieval(t) = ClassifyCostRetrieval(s)
    BY <2>1, <2>2, <2>3 DEF ClassifyCostRetrieval
  <2>5. QED
    BY <1>5, <2>2, <2>4 DEF DeriveRunStatus, status
<1>11. RunIsAccounted(t)
  BY <1>4, <1>5, <1>6, <1>7, <1>9, <1>10 DEF RunIsAccounted
<1>12. QED
  BY <1>3, <1>11

\* Every step of a run accounts for what it does.
LEMMA RunStepIsAccounted ==
  ASSUME NothingIsRepeated, AccountInv, NEW r \in Run, RunStep(r)
  PROVE  \E t : Continue(r, t) /\ RunIsAccounted(t)
<1> DEFINE s == run[r]
<1>1. CASE Served(r) \/ RetrievalFails(r) \/ Executed(r) \/ WriteThrough(r)
  <2>1. PICK at, i, failed :
          /\ at \in {"execute", "write"} /\ i \in {1, s.i + 1}
          /\ s.at \in {"serve", "execute", "write"} /\ (s.at = "serve" => s.i > Len(s.plan))
          /\ Continue(r, [s EXCEPT !.at = at, !.i = i, !.failed = failed])
    <3>1. RunIsAccounted(s)
      BY DEF AccountInv
    <3> DEFINE t(at, i, failed) == [s EXCEPT !.at = at, !.i = i, !.failed = failed]
    <3> HIDE DEF s
    <3>2. s.at \in {"serve", "execute", "write"} =>
            /\ [s EXCEPT !.at = "execute", !.i = 1] = t("execute", 1, s.failed)
            /\ [s EXCEPT !.at = "write", !.i = 1] = t("write", 1, s.failed)
            /\ s.at = "write" => [s EXCEPT !.i = @ + 1] = t("write", s.i + 1, s.failed)
            /\ s.at = "execute" => \A x :
                 [s EXCEPT !.i = @ + 1, !.failed = x] = t("execute", s.i + 1, x)
      BY <3>1 DEF RunIsAccounted
    <3> DEFINE Moves(at, i, failed) ==
                 /\ at \in {"execute", "write"} /\ i \in {1, s.i + 1}
                 /\ s.at \in {"serve", "execute", "write"} /\ (s.at = "serve" => s.i > Len(s.plan))
                 /\ Continue(r, t(at, i, failed))
    <3>3. CASE Served(r)
      <4>1. Moves("execute", 1, s.failed)
        BY <3>2, <3>3 DEF Served, s
      <4>2. QED
        BY <4>1
    <3>4. CASE RetrievalFails(r)
      <4>1. PICK failed : Moves("execute", s.i + 1, failed)
        BY <3>2, <3>4 DEF RetrievalFails, s
      <4>2. QED
        BY <4>1
    <3>5. CASE Executed(r)
      <4>1. Moves("write", 1, s.failed)
        BY <3>2, <3>5 DEF Executed, s
      <4>2. QED
        BY <4>1
    <3>6. CASE WriteThrough(r)
      <4>1. Moves("write", s.i + 1, s.failed)
        BY <3>2, <3>6 DEF WriteThrough, s
      <4>2. QED
        BY <4>1
    <3>7. QED
      BY <1>1, <3>3, <3>4, <3>5, <3>6
  <2> DEFINE t == [s EXCEPT !.at = at, !.i = i, !.failed = failed]
  <2>2. RunIsAccounted(s)
    BY DEF AccountInv
  <2> HIDE DEF s
  <2>3. s.i \in Nat \ {0} /\ DOMAIN s = {"at", "i", "scope", "plan", "eligible", "served",
                     "remaining", "raw", "failed", "status", "until", "fresh"}
    BY <2>1, <2>2 DEF RunIsAccounted
  <2>4. /\ DOMAIN t = DOMAIN s /\ t.i = i /\ i \in Nat \ {0} /\ t.at = at /\ t.scope = s.scope
        /\ t.plan = s.plan /\ t.served = s.served /\ t.remaining = s.remaining /\ t.raw = s.raw
    BY <2>1, <2>3
  <2> HIDE DEF t
  <2>5. RunIsAccounted(t)
    BY <2>1, <2>2, <2>4, MovingOnIsAccounted
  <2>6. QED
    BY <2>1, <2>5 DEF t
<1>2. CASE Reject(r)
  <2>1. Continue(r, [at |-> "rejected"])
    BY <1>2 DEF Reject
  <2>2. RunIsAccounted([at |-> "rejected"])
    BY DEF RunIsAccounted
  <2>3. QED
    BY <2>1, <2>2
<1>3. QED
  BY <1>1, <1>2, StartIsAccounted, ServeHitIsAccounted, ServeLeftIsAccounted, RetrieveIsAccounted,
     ConcludeIsAccounted DEF RunStep

\* What is written would be served.
LEMMA WritesAreGood ==
  ASSUME AccountInv, NEW r \in Run, WriteThrough(r), NEW cell \in Cell, cells'[cell] /= cells[cell]
  PROVE  RecordIsGood(cell[1], cells'[cell]) /\ cells'[cell].request.window = cell[2]
<1> DEFINE s == run[r]
           k == s.i
           record == BuildCacheRecord(s.raw, k)
<1>1. s.at = "write" /\ k <= Len(s.raw)
  BY DEF WriteThrough
<1>2. /\ cell \in CostCellFor(s, s.raw[k].request) /\ record /= NoRecord
      /\ cells'[cell] = record
  BY DEF WriteThrough, AccountInv, IInv, TypeOK
<1>3. RunIsOrderly(s) /\ RunIsAccounted(s)
  BY DEF AccountInv, IInv
<1> HIDE DEF s, record
<1>4. /\ s.eligible /\ s.raw[k].request.capability = "cost"
      /\ s.raw[k].request.subs = {cell[1]} /\ cell[2] = s.scope.window
  BY <1>2 DEF CostCellFor
<1>5. /\ AsksOnce(s) /\ RemainsOnce(s) /\ AnsweredOnce(s) /\ k \in Nat \ {0}
      /\ RequestsAreAccounted(s)
  BY <1>1, <1>3, <1>4 DEF RunIsOrderly, RunIsAccounted
<1>6. s.raw \in Seq(Raw) /\ k \in DOMAIN s.raw /\ s.raw[k].at \in Nat
  <2>1. s.raw \in Seq(Raw) /\ k \in DOMAIN s.raw
    BY <1>1, <1>5 DEF AnsweredOnce
  <2>2. s.raw[k] \in Raw
    BY <2>1
  <2>3. QED
    BY <2>1, <2>2 DEF Raw
<1>7. /\ IsCost(s.raw[k]) /\ s.raw[k].answer \in Payload /\ s.raw[k].at >= cell[2].to + Offset
      /\ s.raw[k].at <= clock
      /\ \A j \in DOMAIN s.raw : s.raw[j].request = s.raw[k].request => j = k
  BY <1>4, <1>5, <1>6 DEF AnsweredOnce, RequestsAreAccounted, IsCost
<1>8. s.raw[k].request.window = cell[2] /\ cell[2] \in Month /\ cell[1] \in Sub
  <2>1. PICK j \in DOMAIN s.remaining : s.raw[k].request = s.remaining[j]
    BY <1>5, <1>6 DEF AnsweredOnce
  <2>2. PICK i \in DOMAIN s.plan : s.remaining[j] = s.plan[i]
    BY <1>5 DEF RemainsOnce
  <2>3. QED
    BY <1>4, <1>5, <2>1, <2>2 DEF AsksOnce, Cell
<1>9. /\ record.request = s.raw[k].request /\ record.answer = s.raw[k].answer
      /\ record.at = s.raw[k].at
  BY <1>2 DEF BuildCacheRecord, record
<1>10. IsCacheRecordAdmissible(cell[1], record)
  <2> HIDE DEF k
  <2>1. k \in Nat
    BY <1>5
  <2>2. QED
    BY <1>2, <1>4, <1>6, <1>7, <1>8, <2>1, WrittenIsAdmitted DEF record
<1>11. QED
  BY <1>2, <1>4, <1>6, <1>7, <1>8, <1>9, <1>10 DEF RecordIsGood

\* What is not from the future stays so.
LEMMA GoodLater ==
  ASSUME clock \in Nat, clock' \in Nat, clock' >= clock, NEW sub, NEW record, RecordIsGood(sub, record)
  PROVE  record.at <= clock'
BY DEF RecordIsGood

\* Accounts stay true as time passes.
LEMMA AccountedLater ==
  ASSUME clock \in Nat, clock' \in Nat, clock' >= clock, NEW r \in Run, NEW t, RunIsAccounted(t),
         run'[r] = t
  PROVE  RunIsAccounted(run[r])'
<1>1. SUFFICES ASSUME t.at \in {"serve", "execute", "write", "done"}
               PROVE  RunIsAccounted(run[r])'
  BY DEF RunIsAccounted
<1>2. RequestsAreAccounted(t)
  BY <1>1 DEF RunIsAccounted
<1>3. \A k \in DOMAIN t.raw : t.raw[k].at <= clock'
  <2> DEFINE answered == [request : RangeOf(t.remaining), answer : Counts \union Payload, at : Nat]
  <2>1. t.raw \in Seq(answered) /\ \A k \in DOMAIN t.raw : t.raw[k].at <= clock
    BY <1>2 DEF RequestsAreAccounted
  <2>2. \A a \in answered : a.at \in Nat
    OBVIOUS
  <2> HIDE DEF answered
  <2>3. \A k \in DOMAIN t.raw : t.raw[k].at \in Nat
    BY <2>1, <2>2
  <2>4. QED
    BY <2>1, <2>3
<1>4. \A record \in t.served : \E sub \in Sub : RecordIsGood(sub, record) /\ record.at <= clock'
  BY <1>2, GoodLater DEF RequestsAreAccounted
<1>5. RequestsAreAccounted(run[r])'
  BY <1>2, <1>3, <1>4 DEF RequestsAreAccounted, RecordIsGood, RangeOf, IsCost, IsCacheRecordAdmissible
<1>6. QED
  BY <1>1, <1>5 DEF RunIsAccounted

\* Every step keeps every run accounted for.
LEMMA NextPreservesAccounts == NothingIsRepeated /\ AccountInv /\ [Next]_vars => AccountInv'
<1> SUFFICES ASSUME NothingIsRepeated, AccountInv, [Next]_vars PROVE AccountInv'
  OBVIOUS
<1>1. IInv /\ IInv' /\ CellsAreGood /\ clock \in Nat
  BY NextPreservesInvariant DEF AccountInv, IInv, TypeOK
<1>2. clock' \in Nat /\ clock' >= clock
  BY <1>1, RunStepWrites DEF Next, Tick, vars
<1>3. ASSUME NEW cell \in Cell, cells'[cell] /= NoRecord
      PROVE  /\ RecordIsGood(cell[1], cells'[cell]) /\ cells'[cell].at <= clock'
             /\ cells'[cell].request.window = cell[2]
  <2>1. CASE cells'[cell] = cells[cell]
    BY <1>1, <1>2, <1>3, <2>1, GoodLater DEF CellsAreGood
  <2>2. CASE cells'[cell] /= cells[cell]
    <3>1. PICK r \in Run : WriteThrough(r)
      BY <1>1, <2>2, RunStepWrites DEF Next, Tick, vars
    <3>2. QED
      BY <1>1, <1>2, <2>2, <3>1, WritesAreGood, GoodLater
  <2>3. QED
    BY <2>1, <2>2
<1>4. CellsAreGood'
  BY <1>3 DEF CellsAreGood, RecordIsGood, Cell
<1>5. ASSUME NEW r \in Run
      PROVE  RunIsAccounted(run[r])'
  <2>1. CASE run' = run
    BY <1>1, <1>2, <2>1, AccountedLater DEF AccountInv
  <2>2. CASE \E q \in Run : RunStep(q)
    <3>1. PICK q \in Run : RunStep(q)
      BY <2>2
    <3>2. PICK t : Continue(q, t) /\ RunIsAccounted(t)
      BY <3>1, RunStepIsAccounted
    <3>3. run'[q] = t /\ (r /= q => run'[r] = run[r])
      BY <1>1, <3>2 DEF Continue, IInv, TypeOK
    <3>4. RunIsAccounted(run'[r])
      BY <3>2, <3>3 DEF AccountInv
    <3>5. QED
      BY <1>1, <1>2, <3>4, AccountedLater
  <2>3. QED
    BY <2>1, <2>2 DEF Next, Tick, vars
<1>6. QED
  BY <1>1, <1>4, <1>5 DEF AccountInv

\* Before they start, runs have nothing to account for.
LEMMA InitEstablishesAccounts == Init => AccountInv
<1> SUFFICES ASSUME Init PROVE AccountInv
  OBVIOUS
<1>1. CellsAreGood
  BY DEF Init, CellsAreGood
<1>2. \A r \in Run : RunIsAccounted(run[r])
  BY DEF Init, Idle, RunIsAccounted
<1>3. QED
  BY <1>1, <1>2, InitEstablishesInvariant DEF AccountInv

\* Whatever the server answers: everything a run asks for, is served and is answered
\* is accounted for, and every stored record would be served again.
THEOREM AccountInvariant == NothingIsRepeated => (Spec => []AccountInv)
<1> SUFFICES ASSUME NothingIsRepeated PROVE Spec => []AccountInv
  OBVIOUS
<1>1. AccountInv /\ [Next]_vars => AccountInv'
  BY NextPreservesAccounts
<1>2. QED
  BY <1>1, InitEstablishesAccounts, PTL DEF Spec

\* The checks on reading accept everything the checks on writing let through, and a
\* run that the cache answers completely is as good as a live one.
THEOREM CachedRunsAlwaysSucceed ==
  NothingIsRepeated /\ IdsAreSpelledAsAsked => (Spec => []CachedRunsSucceed)
<1> SUFFICES ASSUME NothingIsRepeated, IdsAreSpelledAsAsked PROVE Spec => []CachedRunsSucceed
  OBVIOUS
<1>1. AccountInv => CachedRunsSucceed
  <2> SUFFICES ASSUME AccountInv PROVE CachedRunsSucceed
    OBVIOUS
  <2>1. \A cell \in Cell : cells[cell] /= NoRecord => IsCacheRecordAdmissible(cell[1], cells[cell])
    BY DEF AccountInv, CellsAreGood, RecordIsGood
  <2>2. QED
    BY <2>1, CachedRunSucceeds DEF AccountInv, CachedRunsSucceed, Done
<1>2. QED
  BY <1>1, AccountInvariant, PTL

\* The reasoner gets no answer that is not sound except in quarantine, nothing from
\* the cache that had not settled, and is told of every total that may still grow.
THEOREM EvidenceIsAlwaysQualified == NothingIsRepeated => (Spec => []EvidenceIsQualified)
<1> SUFFICES ASSUME NothingIsRepeated PROVE Spec => []EvidenceIsQualified
  OBVIOUS
<1>1. AccountInv => EvidenceIsQualified
  BY AccountsAreQualified DEF AccountInv, EvidenceIsQualified, GrowthIsTold, Done
<1>2. QED
  BY <1>1, AccountInvariant, PTL

\* The status and the report's coverage say what was retrieved: success only with
\* sound evidence of every subscription and nothing in quarantine, failure only with
\* none at all.
THEOREM StatusAlwaysTellsTheTruth ==
  NothingIsRepeated /\ IdsAreSpelledAsAsked => (Spec => []StatusTellsTheTruth)
<1> SUFFICES ASSUME NothingIsRepeated, IdsAreSpelledAsAsked PROVE Spec => []StatusTellsTheTruth
  OBVIOUS
<1>1. AccountInv => StatusTellsTheTruth
  BY AccountsTellTheTruth DEF AccountInv, StatusTellsTheTruth, Done
<1>2. QED
  BY <1>1, AccountInvariant, PTL
=============================================================================
