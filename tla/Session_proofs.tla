--------------------------- MODULE Session_proofs ---------------------------
(***************************************************************************)
(* Proofs about Session, for every allowlist, server, model and number of  *)
(* workers. The inductive invariant says that discovery comes first: what  *)
(* is called later is of the catalog and finds the client connected.       *)
(***************************************************************************)
EXTENDS Session, TLAPS

-----------------------------------------------------------------------------
(* What actions have in common. *)

\* Refusals are of names the catalog does not hold; nothing else is refused.
LEMMA ReachesIsAllowed ==
  ASSUME CatalogComesFirst, NEW name
  PROVE  Reaches(name) <=> catalog.known /\ name \in catalog.allowed
BY DEF CatalogComesFirst, Reaches

\* A call through the client leaves the invariant about calls and connections as it is.
LEMMA InvokeKeepsCalls ==
  ASSUME IInv, NEW caller \in Callers, NEW name \in Capability, Invoke(caller, name),
         phase \notin {"closed"}, UNCHANGED <<phase, advertised, catalog>>
  PROVE  /\ call' \in [Callers -> [cap : Capability \union {ListTools}, step : {"idle", "connect", "send"}]]
         /\ CatalogComesFirst' /\ CallsAreAllowed' /\ ListingConnects'
<1>1. CASE Reaches(name)
  <2>1. catalog.known /\ name \in catalog.allowed /\ connected
    BY <1>1, ReachesIsAllowed DEF IInv, ListingConnects
  <2>2. call' = [call EXCEPT ![caller] = [cap |-> name, step |-> "send"]]
    BY <1>1, <2>1 DEF Invoke, Enter
  <2>3. UNCHANGED <<connected, connections, wire>>
    BY DEF Invoke
  <2>4. QED
    BY <2>1, <2>2, <2>3 DEF IInv, TypeOK, CatalogComesFirst, CallsAreAllowed, ListingConnects, Idle, IsAllowedCapability, IsMutatingCapabilityName
<1>2. CASE ~Reaches(name)
  BY <1>2 DEF Invoke, IInv, TypeOK, CatalogComesFirst, CallsAreAllowed, ListingConnects, IsAllowedCapability, IsMutatingCapabilityName
<1>3. QED
  BY <1>1, <1>2

\* A call that ends takes its caller back; whatever it sent was allowed.
LEMMA FailsKeepsInvariant ==
  ASSUME IInv, NEW caller \in Callers, NEW cause, NEW category, Fails(caller, cause, category),
         call[caller].step /= "idle", wire' \subseteq wire \union {call[caller].cap}
  PROVE  IInv'
<1>1. call[caller] /= Idle
  BY DEF Idle
<1>2. phase /= "closed" => phase' /= "closed"
  BY DEF Fails
<1>3. TypeOK'
  BY DEF IInv, TypeOK, Fails, planning, Idle
<1>4. CatalogComesFirst'
  <2>1. ~catalog.known => caller = Main
    BY <1>1 DEF IInv, CatalogComesFirst, Callers
  <2>2. QED
    BY <2>1, SessionAssumption DEF IInv, TypeOK, CatalogComesFirst, Fails, IsAllowedCapability, IsMutatingCapabilityName, Callers
<1>5. CallsAreAllowed'
  <2>1. call[caller].cap \in catalog.allowed \union {ListTools}
    BY <1>1 DEF IInv, CallsAreAllowed, CatalogComesFirst, Callers
  <2>2. QED
    BY <2>1 DEF IInv, TypeOK, CallsAreAllowed, Fails
<1>6. ListingConnects'
  BY DEF IInv, TypeOK, ListingConnects, Fails, Idle
<1>7. PlansAreSound'
  BY DEF IInv, PlansAreSound, Fails, planning
<1>8. QED
  BY <1>3, <1>4, <1>5, <1>6, <1>7 DEF IInv

\* Sending and connecting are steps of a caller in the middle of a call.
LEMMA TransportKeepsInvariant ==
  ASSUME IInv, NEW caller \in Callers, Transport(caller)
  PROVE  IInv'
<1>1. CASE Connects(caller)
  <2>1. caller = Main /\ ~catalog.known /\ ~connected
    BY <1>1 DEF Connects, IInv, ListingConnects
  <2>2. TypeOK'
    BY <1>1 DEF IInv, TypeOK, Connects, planning
  <2>3. CatalogComesFirst'
    BY <1>1, <2>1, SessionAssumption
    DEF IInv, TypeOK, CatalogComesFirst, Connects, IsAllowedCapability, IsMutatingCapabilityName, Callers, Idle
  <2>4. CallsAreAllowed'
    BY <1>1, <2>1 DEF IInv, CallsAreAllowed, Connects
  <2>5. ListingConnects'
    BY <1>1, <2>1 DEF IInv, TypeOK, ListingConnects, CatalogComesFirst, Connects, Callers, Idle
  <2>6. PlansAreSound'
    BY <1>1 DEF IInv, PlansAreSound, Connects, planning
  <2>7. QED
    BY <2>2, <2>3, <2>4, <2>5, <2>6 DEF IInv
<1>2. CASE ConnectFails(caller)
  BY <1>2, FailsKeepsInvariant DEF ConnectFails
<1>3. ASSUME NEW answer, Sends(caller, answer)
      PROVE  IInv'
  <2>1. /\ call[caller].step /= "idle"
        /\ wire' = wire \union {call[caller].cap}
        /\ \E category : Fails(caller, answer, category)
    BY <1>3 DEF Sends
  <2>2. QED
    BY <2>1, FailsKeepsInvariant
<1>4. QED
  BY <1>1, <1>2, <1>3 DEF Transport

-----------------------------------------------------------------------------
(* The invariant is inductive. *)

\* A session starts unconnected, with nothing in flight and no catalog.
LEMMA InitEstablishesInvariant == Init => IInv
<1> SUFFICES ASSUME Init PROVE IInv
  OBVIOUS
<1>1. Idle \in [cap : Capability \union {ListTools}, step : {"idle", "connect", "send"}]
  BY DEF Idle
<1>2. TypeOK
  <2>1. catalog \in [known : BOOLEAN, raw : SUBSET Capability, allowed : SUBSET Capability]
    BY DEF Init, NoCatalog
  <2>2. call \in [Callers -> [cap : Capability \union {ListTools}, step : {"idle", "connect", "send"}]]
    BY <1>1 DEF Init
  <2>3. advertised \subseteq Capability
    BY SessionAssumption DEF Init
  <2>4. plan \in Seq(PlanRequest)
    BY DEF Init
  <2>5. connected \in BOOLEAN /\ planned \in BOOLEAN
    BY Zenon DEF Init
  <2>6. QED
    BY <2>1, <2>2, <2>3, <2>4, <2>5 DEF Init, TypeOK
<1>3. CatalogComesFirst
  BY DEF Init, CatalogComesFirst, NoCatalog, Callers
<1>4. CallsAreAllowed
  BY DEF Init, CallsAreAllowed, NoCatalog
<1>5. ListingConnects
  BY DEF Init, ListingConnects, NoCatalog, Idle
<1>6. PlansAreSound
  BY DEF Init, PlansAreSound
<1>7. QED
  BY <1>2, <1>3, <1>4, <1>5, <1>6 DEF IInv

\* The main line outside the transport.
LEMMA MainLineKeepsInvariant ==
  ASSUME IInv,
         \/ Discover \/ Lists \/ ListingFails \/ AssertRequiredCapabilities
         \/ UsePlaybook \/ PlanUnusable \/ Execute \/ Ends \/ Close
         \/ \E candidate \in PlanAnswers : Plan(candidate)
  PROVE  IInv'
<1>1. CASE Discover
  <2>1. /\ call' = [call EXCEPT ![Main] = [cap |-> ListTools, step |-> "connect"]]
        /\ ~connected /\ ~catalog.known
    BY <1>1 DEF Discover, Enter, IInv, ListingConnects, CatalogComesFirst
  <2>2. TypeOK'
    BY <1>1, <2>1 DEF IInv, TypeOK, Discover, planning
  <2>3. CatalogComesFirst'
    BY <1>1, <2>1, SessionAssumption
    DEF IInv, TypeOK, CatalogComesFirst, Discover, IsAllowedCapability, IsMutatingCapabilityName, Callers
  <2>4. CallsAreAllowed'
    BY <1>1, <2>1 DEF IInv, CallsAreAllowed, Discover
  <2>5. ListingConnects'
    BY <1>1, <2>1 DEF IInv, TypeOK, ListingConnects, Discover
  <2>6. PlansAreSound'
    BY <1>1 DEF IInv, PlansAreSound, Discover, planning
  <2>7. QED
    BY <2>2, <2>3, <2>4, <2>5, <2>6 DEF IInv
<1>2. CASE Lists
  <2>1. ~catalog.known /\ phase = "listing" /\ connected
    BY <1>2, SessionAssumption
    DEF Lists, IInv, TypeOK, CatalogComesFirst, CallsAreAllowed, ListingConnects, Callers, Idle
  <2>2. advertised \subseteq Capability /\ catalog' = Discovered(advertised)
    BY <1>2 DEF Lists, IInv, TypeOK
  <2>3. TypeOK'
    <3>1. catalog' \in [known : BOOLEAN, raw : SUBSET Capability, allowed : SUBSET Capability]
      BY <2>2 DEF Discovered
    <3>2. call' \in [Callers -> [cap : Capability \union {ListTools}, step : {"idle", "connect", "send"}]]
      BY <1>2 DEF IInv, TypeOK, Lists, Idle
    <3>3. QED
      BY <1>2, <3>1, <3>2 DEF IInv, TypeOK, Lists, planning
  <2>4. CatalogComesFirst'
    BY <1>2, <2>2 DEF Lists, CatalogComesFirst, Discovered, IsAllowedCapability, IsMutatingCapabilityName
  <2>5. CallsAreAllowed'
    <3>1. \A c \in Callers : call'[c] = Idle
      BY <1>2, <2>1 DEF Lists, IInv, TypeOK, CatalogComesFirst, Callers
    <3>2. wire' \subseteq {ListTools}
      BY <1>2, <2>1 DEF Lists, IInv, CallsAreAllowed, CatalogComesFirst
    <3>3. QED
      BY <3>1, <3>2 DEF CallsAreAllowed
  <2>6. ListingConnects'
    BY <1>2, <2>1 DEF IInv, TypeOK, ListingConnects, Lists, Idle
  <2>7. PlansAreSound'
    BY <1>2, <2>1 DEF IInv, PlansAreSound, Lists, planning
  <2>8. QED
    BY <2>3, <2>4, <2>5, <2>6, <2>7 DEF IInv
<1>3. CASE ListingFails
  <2>1. Main \in Callers /\ call[Main].step /= "idle" /\ wire' = wire \union {call[Main].cap}
    BY <1>3 DEF ListingFails, Callers
  <2>2. QED
    BY <1>3, <2>1, FailsKeepsInvariant DEF ListingFails
<1>4. CASE AssertRequiredCapabilities \/ Ends \/ UsePlaybook \/ PlanUnusable
  <2>1. TypeOK'
    BY <1>4, SessionAssumption
    DEF IInv, TypeOK, AssertRequiredCapabilities, Ends, UsePlaybook, PlanUnusable, planning, transport
  <2>2. CatalogComesFirst'
    BY <1>4
    DEF IInv, CatalogComesFirst, AssertRequiredCapabilities, Ends, UsePlaybook, PlanUnusable, transport,
        IsAllowedCapability, IsMutatingCapabilityName
  <2>3. CallsAreAllowed' /\ ListingConnects'
    BY <1>4
    DEF IInv, CallsAreAllowed, ListingConnects, AssertRequiredCapabilities, Ends, UsePlaybook, PlanUnusable,
        transport
  <2>4. PlansAreSound'
    BY <1>4
    DEF IInv, TypeOK, PlansAreSound, AssertRequiredCapabilities, Ends, UsePlaybook, PlanUnusable, planning
  <2>5. QED
    BY <2>1, <2>2, <2>3, <2>4 DEF IInv
<1>5. CASE Execute
  <2>1. next \in DOMAIN plan /\ plan[next].cap \in Capability
    <3>1. plan \in Seq(PlanRequest) /\ next \in Nat \ {0} /\ next <= Len(plan)
      BY <1>5 DEF Execute, IInv, TypeOK
    <3>2. next \in 1..Len(plan) /\ plan[next] \in PlanRequest
      BY <3>1
    <3>3. QED
      BY <3>1, <3>2 DEF PlanRequest
  <2>2. Main \in Callers /\ phase = "executing" /\ catalog.known
    BY <1>5 DEF Execute, Callers, IInv, CatalogComesFirst
  <2>3. /\ call' \in [Callers -> [cap : Capability \union {ListTools}, step : {"idle", "connect", "send"}]]
        /\ CatalogComesFirst' /\ CallsAreAllowed' /\ ListingConnects'
    BY <1>5, <2>1, <2>2, InvokeKeepsCalls DEF Execute
  <2>4. TypeOK'
    BY <1>5, <2>3 DEF IInv, TypeOK, Execute, Invoke
  <2>5. planned => UNCHANGED refused
    BY <1>5, <2>1, <2>2, ReachesIsAllowed DEF Execute, Invoke, IInv, PlansAreSound
  <2>6. PlansAreSound'
    BY <1>5, <2>2, <2>5 DEF IInv, PlansAreSound, Execute
  <2>7. QED
    BY <2>3, <2>4, <2>6 DEF IInv
<1>6. CASE Close
  <2>1. TypeOK'
    <3>1. connections' = 0 /\ connected' = FALSE
      <4>1. connections = IF connected THEN 1 ELSE 0
        BY DEF IInv, ListingConnects
      <4>2. connections' = (IF connected THEN connections - 1 ELSE connections) /\ connected' = FALSE
        BY <1>6 DEF Close
      <4>3. CASE connected
        BY <4>1, <4>2, <4>3
      <4>4. CASE ~connected
        BY <4>1, <4>2, <4>4
      <4>5. QED
        BY <4>3, <4>4
    <3>2. connected' \in BOOLEAN
      BY <3>1, Zenon
    <3>3. QED
      BY <1>6, <3>1, <3>2 DEF IInv, TypeOK, Close, planning
  <2>2. CatalogComesFirst' /\ CallsAreAllowed'
    BY <1>6 DEF IInv, CatalogComesFirst, CallsAreAllowed, Close, Quiet, Callers, IsAllowedCapability,
                IsMutatingCapabilityName
  <2>3. ListingConnects'
    BY <1>6 DEF IInv, ListingConnects, Close, Quiet, Idle
  <2>4. PlansAreSound'
    BY <1>6 DEF IInv, PlansAreSound, Close, planning
  <2>5. QED
    BY <2>1, <2>2, <2>3, <2>4 DEF IInv
<1>7. ASSUME NEW candidate \in PlanAnswers, Plan(candidate)
      PROVE  IInv'
  <2>1. candidate \in Seq(PlanRequest)
    BY SessionAssumption
  <2>2. TypeOK'
    <3>1. /\ plan' \in Seq(PlanRequest) /\ planned' \in BOOLEAN /\ asks' \in Nat
          /\ phase' \in {"planning", "executing", "ended"}
      <4>1. CASE Violations(candidate) = {}
        <5>1. plan' = candidate /\ planned' = TRUE /\ phase' = "executing" /\ asks' = asks + 1
          BY <1>7, <4>1 DEF Plan
        <5>2. QED
          BY <2>1, <5>1 DEF IInv, TypeOK
      <4>2. CASE Violations(candidate) /= {}
        BY <1>7, <4>2 DEF IInv, TypeOK, Plan
      <4>3. QED
        BY <4>1, <4>2
    <3>2. QED
      BY <1>7, <3>1 DEF IInv, TypeOK, Plan, transport
  <2>3. CatalogComesFirst' /\ CallsAreAllowed' /\ ListingConnects'
    BY <1>7
    DEF IInv, CatalogComesFirst, CallsAreAllowed, ListingConnects, Plan, transport, IsAllowedCapability,
        IsMutatingCapabilityName
  <2>4. PlansAreSound'
    <3>1. CASE Violations(candidate) = {}
      <4>1. \A k \in DOMAIN candidate : candidate[k].cap \in catalog.allowed
        BY <3>1 DEF Violations, IInv, CatalogComesFirst
      <4>2. \A j, k \in DOMAIN candidate : candidate[j] = candidate[k] => j = k
        <5>1. \A k \in DOMAIN candidate : \A j \in 1..(k - 1) : candidate[j] /= candidate[k]
          BY <3>1 DEF Violations
        <5>2. DOMAIN candidate = 1..Len(candidate) /\ Len(candidate) \in Nat
          BY <2>1
        <5>3. QED
          BY <5>1, <5>2
      <4>3. QED
        BY <1>7, <3>1, <4>1, <4>2 DEF IInv, TypeOK, CatalogComesFirst, PlansAreSound, Plan
    <3>2. CASE Violations(candidate) /= {}
      BY <1>7, <3>2 DEF IInv, TypeOK, PlansAreSound, Plan
    <3>3. QED
      BY <3>1, <3>2
  <2>5. QED
    BY <2>2, <2>3, <2>4 DEF IInv
<1>8. QED
  BY <1>1, <1>2, <1>3, <1>4, <1>5, <1>6, <1>7

\* Every step keeps the catalog first, the calls allowed and the plan sound.
LEMMA NextPreservesInvariant == IInv /\ [Next]_vars => IInv'
<1> SUFFICES ASSUME IInv, [Next]_vars PROVE IInv'
  OBVIOUS
<1>1. CASE Step
  BY <1>1, MainLineKeepsInvariant, TransportKeepsInvariant DEF Step
<1>2. CASE ServerChanges
  <2>1. TypeOK'
    BY <1>2, SessionAssumption DEF IInv, TypeOK, ServerChanges, transport, planning
  <2>2. CatalogComesFirst' /\ CallsAreAllowed' /\ ListingConnects'
    BY <1>2
    DEF IInv, CatalogComesFirst, CallsAreAllowed, ListingConnects, ServerChanges, transport,
        IsAllowedCapability, IsMutatingCapabilityName
  <2>3. PlansAreSound'
    BY <1>2 DEF IInv, PlansAreSound, ServerChanges, planning
  <2>4. QED
    BY <2>1, <2>2, <2>3 DEF IInv
<1>3. ASSUME NEW w \in Worker, NEW name \in Capability, WorkerInvokes(w, name)
      PROVE  IInv'
  <2>1. w \in Callers /\ phase \notin {"closed", "executing"}
    BY <1>3 DEF WorkerInvokes, Callers
  <2>2. /\ call' \in [Callers -> [cap : Capability \union {ListTools}, step : {"idle", "connect", "send"}]]
        /\ CatalogComesFirst' /\ CallsAreAllowed' /\ ListingConnects'
    BY <1>3, <2>1, InvokeKeepsCalls DEF WorkerInvokes
  <2>3. TypeOK'
    BY <1>3, <2>2 DEF IInv, TypeOK, WorkerInvokes, Invoke, planning
  <2>4. UNCHANGED refused
    BY <1>3, <2>1 DEF WorkerInvokes, Invoke
  <2>5. PlansAreSound'
    BY <1>3, <2>4 DEF IInv, PlansAreSound, WorkerInvokes, planning
  <2>6. QED
    BY <2>2, <2>3, <2>5 DEF IInv
<1>4. CASE UNCHANGED vars
  BY <1>4
  DEF vars, transport, planning, IInv, TypeOK, CatalogComesFirst, CallsAreAllowed, ListingConnects,
      PlansAreSound, IsAllowedCapability, IsMutatingCapabilityName
<1>5. QED
  BY <1>1, <1>2, <1>3, <1>4 DEF Next

\* The parts of the invariant hold in every state of a session: discovery comes
\* first, calls are of its catalog, one connection, and sound plans.
THEOREM SessionInvariant == Spec => []IInv
BY InitEstablishesInvariant, NextPreservesInvariant, PTL DEF Spec

-----------------------------------------------------------------------------
(* What it is for. *)

\* Only capabilities on the allowlist that match no mutating pattern and that the
\* discovery saw are ever sent, for every allowlist, server, plan and worker.
THEOREM OnlyReadsAreSent == Spec => []OnlyReadsReachTheWire
<1>1. IInv => OnlyReadsReachTheWire
  BY DEF IInv, CatalogComesFirst, CallsAreAllowed, OnlyReadsReachTheWire, IsAllowedCapability,
         IsMutatingCapabilityName
<1>2. QED
  BY <1>1, SessionInvariant, PTL

\* Any number of callers share one connection, and a closed session has none.
THEOREM ConnectionIsShared == Spec => []OneConnection
<1>1. IInv => OneConnection
  BY DEF IInv, ListingConnects, OneConnection
<1>2. QED
  BY <1>1, SessionInvariant, PTL

\* Every plan of a model that passes validation passes the client, whatever the
\* model answers and the server offers meanwhile.
THEOREM PlansPassTheClient == Spec => []PlansAreExecutable
<1>1. IInv => PlansAreExecutable
  BY DEF IInv, PlansAreSound, PlansAreExecutable
<1>2. QED
  BY <1>1, SessionInvariant, PTL

-----------------------------------------------------------------------------
(* Retries. *)

\* Who is classified by words and retried speaks of time or of a rate.
LEMMA RetriedByWords ==
  ASSUME NEW words, CategoryByWords(words) \in Retriable
  PROVE  words \intersect {"timeout", "rate_limit"} /= {}
<1> DEFINE said == {k \in DOMAIN Word : Word[k] \in words}
<1>1. said /= {} /\ CategoryOfWord[Word[Min(said)]] \in Retriable
  BY DEF CategoryByWords, Retriable
<1>2. said \subseteq 1..6
  BY DEF Word
<1>3. \E k \in said : \A j \in said : k <= j
  BY <1>1, <1>2
<1>4. Min(said) \in said
  BY <1>3 DEF Min
<1>5. Word[Min(said)] \in words /\ Min(said) \in 1..6
  BY <1>2, <1>4
<1>6. CASE Min(said) \in {1, 2}
  BY <1>5, <1>6 DEF Word
<1>7. CASE Min(said) \in 3..6
  BY <1>1, <1>7 DEF Word, CategoryOfWord, Retriable
<1>8. QED
  BY <1>5, <1>6, <1>7

\* A payload is retried exactly if one of its subscriptions was throttled, and then
\* for that reason.
LEMMA RetriedPayload ==
  ASSUME NEW rows, NEW category \in InspectCostPayload(rows)
  PROVE  (\E k \in DOMAIN rows : rows[k].says = "rate_limit") <=> category \in Retriable
BY DEF InspectCostPayload, Retriable

\* A category that is retried is one under which the call may yet pass.
LEMMA JudgedRightly ==
  ASSUME NEW cap \in Capability, NEW answer \in Answers(cap), NEW category \in Judged(answer)
  PROVE  category \in Retriable => MayPass(answer)
<1>1. CASE answer.from = "payload"
  <2>1. PICK told \in InspectCostPayload(answer.rows) :
          category = ClassifyFailure([class |-> "embedded", words |-> {}, category |-> told])
    BY <1>1 DEF Judged
  <2>2. category = told
    BY <2>1 DEF ClassifyFailure
  <2>3. QED
    BY <1>1, <2>2, RetriedPayload DEF MayPass
<1>2. CASE answer.from \in {"http", "sdk", "tool"}
  <2>1. answer.err.class = "error" /\ answer.err.status = NoStatus
    BY <1>2, AnswersAssumption
  <2>2. category = CategoryByWords(answer.err.words)
    BY <1>2, <2>1 DEF Judged, ClassifyFailure, NoStatus, KnownStatus
  <2>3. QED
    BY <1>2, <2>2, RetriedByWords DEF MayPass, SpeaksOfTimeOrRate
<1>3. CASE answer.from = "credential"
  <2>1. answer.err.class = "error"
    BY <1>3, AnswersAssumption
  <2>2. category = IF answer.err.status \in KnownStatus THEN CategoryOfStatus(answer.err.status)
                   ELSE CategoryByWords(answer.err.words)
    BY <1>3, <2>1 DEF Judged, ClassifyFailure
  <2>3. CASE answer.err.status \in {400, 401, 403, 404, 422}
    <3>1. category = CategoryOfStatus(answer.err.status)
      BY <2>2, <2>3 DEF KnownStatus
    <3>2. QED
      BY <2>3, <3>1 DEF CategoryOfStatus, Retriable
  <2>4. CASE answer.err.status \in PassingStatus
    BY <1>3, <2>4 DEF MayPass, PassingStatus
  <2>5. CASE answer.err.status \notin KnownStatus
    <3>1. category \in Retriable => SpeaksOfTimeOrRate(answer.err)
      BY <2>2, <2>5, RetriedByWords DEF SpeaksOfTimeOrRate
    <3>2. QED
      BY <1>3, <2>5, <3>1 DEF MayPass, KnownStatus
  <2>6. QED
    BY <2>3, <2>4, <2>5 DEF KnownStatus, PassingStatus
<1>4. CASE answer.from = "fixture"
  <2>1. answer.err.class \in {"fixture_missing", "fixture_bad"}
    BY <1>4, AnswersAssumption
  <2>2. category \in {"unsupported_capability", "schema_mismatch"}
    BY <1>4, <2>1 DEF Judged, ClassifyFailure
  <2>3. QED
    BY <2>2 DEF Retriable
<1>5. CASE answer.from = "success"
  BY <1>5 DEF Judged
<1>6. QED
  BY <1>1, <1>2, <1>3, <1>4, <1>5, AnswersAssumption

\* What a step returns to a caller is what the transport's answer is judged to be.
LEMMA SendsKeepsRetries ==
  ASSUME IInv, NEW caller \in Callers, NEW answer \in Answers(call[caller].cap), Sends(caller, answer)
  PROVE  RetriesMakeSense'
<1>1. call[caller].cap \in Capability
  BY DEF IInv, TypeOK, Sends
<1>2. CASE Judged(answer) = {}
  <2>1. result'.category = "none" /\ result'.cause = answer
    BY <1>2 DEF Sends, Fails
  <2>2. answer.from = "payload" => ~MayPass(answer)
    BY <1>2 DEF Judged, MayPass, InspectCostPayload
  <2>3. QED
    BY <2>1, <2>2 DEF RetriesMakeSense, Retriable, MayPass
<1>3. CASE Judged(answer) /= {}
  <2>1. PICK category \in Judged(answer) : Fails(caller, answer, category)
    BY <1>3 DEF Sends
  <2>2. result'.category = category /\ result'.cause = answer
    BY <2>1 DEF Fails
  <2>3. category \in Retriable => MayPass(answer)
    BY <1>1, JudgedRightly
  <2>4. answer.from = "payload" /\ MayPass(answer) => category = "rate_limit"
    <3>1. SUFFICES ASSUME answer.from = "payload", MayPass(answer) PROVE category = "rate_limit"
      OBVIOUS
    <3>2. InspectCostPayload(answer.rows) = {"rate_limit"}
      BY <3>1 DEF MayPass, InspectCostPayload
    <3>3. QED
      BY <3>1, <3>2 DEF Judged, ClassifyFailure
  <2>5. QED
    BY <2>2, <2>3, <2>4 DEF RetriesMakeSense, MayPass
<1>4. QED
  BY <1>2, <1>3

\* Every step keeps retries to calls that may yet pass.
LEMMA NextKeepsRetries == IInv /\ RetriesMakeSense /\ [Next]_vars => RetriesMakeSense'
<1> SUFFICES ASSUME IInv, RetriesMakeSense, [Next]_vars PROVE RetriesMakeSense'
  OBVIOUS
<1>1. ASSUME result' = Nothing PROVE RetriesMakeSense'
  BY <1>1 DEF RetriesMakeSense, Nothing, Retriable
<1>2. ASSUME NEW caller, NEW name, Invoke(caller, name) PROVE RetriesMakeSense'
  <2>1. \/ result' = Nothing
        \/ result'.cause.from = "client" /\ result'.category = "unsupported_capability"
    BY <1>2 DEF Invoke, NotAllowed, ClassifyFailure
  <2>2. QED
    BY <1>1, <2>1 DEF RetriesMakeSense, Retriable
<1>3. ASSUME NEW caller, Fails(caller, [from |-> "network", words |-> {}], "thrown")
      PROVE  RetriesMakeSense'
  BY <1>3 DEF Fails, RetriesMakeSense, Retriable
<1>4. CASE Step
  <2>1. ASSUME NEW caller \in Callers, Transport(caller) PROVE RetriesMakeSense'
    BY <1>1, <1>3, <2>1, SendsKeepsRetries DEF Transport, Connects, ConnectFails
  <2>2. CASE Execute
    BY <1>2, <2>2 DEF Execute
  <2>3. CASE ListingFails
    BY <1>3, <2>3 DEF ListingFails
  <2>4. QED
    BY <1>1, <1>4, <2>1, <2>2, <2>3
    DEF Step, Discover, Lists, AssertRequiredCapabilities, UsePlaybook, PlanUnusable, Ends, Close, Plan
<1>5. CASE ServerChanges
  BY <1>1, <1>5 DEF ServerChanges
<1>6. ASSUME NEW w \in Worker, NEW name \in Capability, WorkerInvokes(w, name) PROVE RetriesMakeSense'
  BY <1>2, <1>6 DEF WorkerInvokes
<1>7. CASE UNCHANGED vars
  BY <1>7 DEF vars, RetriesMakeSense, MayPass
<1>8. QED
  BY <1>4, <1>5, <1>6, <1>7 DEF Next

\* Whatever fails, and whoever asked: only trouble that may pass is given a category
\* that is retried, which a credential that was refused is not, whatever its message
\* says; and a payload with a throttled subscription always is. A credential may
\* fail with any status and any message; what else the transport throws carries none.
THEOREM OnlyPassingTroubleIsRetried == Spec => []RetriesMakeSense
<1>1. Init => RetriesMakeSense
  BY DEF Init, Nothing, RetriesMakeSense, Retriable
<1>2. QED
  BY <1>1, NextKeepsRetries, SessionInvariant, PTL DEF Spec
=============================================================================
