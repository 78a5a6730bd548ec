------------------------------ MODULE Session ------------------------------
(***************************************************************************)
(* A session with AMG-MCP: the client that discovers capabilities once and *)
(* lets only read-only ones through, the transport that connects when it   *)
(* is first needed, the planner that asks a model twice at most, and the   *)
(* callers that share the client: the main line of the run and the workers *)
(* of a subscription probe.                                                *)
(*                                                                         *)
(* One call of the transport is two steps, connecting and sending, between *)
(* which the others run. What a server advertises may change at any time;  *)
(* what a model answers is free.                                           *)
(***************************************************************************)
EXTENDS FailureTaxonomy, Integers, FiniteSets

CONSTANTS
  Capability,      \* names a plan or a server may use
  Allowlist,       \* PHASE_1_READ_ONLY_ALLOWLIST
  MutatingName,    \* names one of the mutating patterns matches
  Required,        \* what the analysis type cannot do without
  Inspected,       \* the capability with a payload inspector
  PlanAnswers,     \* plans a model may answer: sequences of [cap, text]
  Offers,          \* what a server may advertise: sets of capabilities
  Playbook,        \* the deterministic plan
  Answers(_),      \* what the transport makes of a call that was sent
  Worker,          \* the callers besides the main line
  Main,
  MaxCalls         \* bound: calls the workers make, taken together

ListTools == "tools/list"

PlanRequest == [cap : Capability, text : STRING]

\* Discovery is no capability that a plan could name.
ASSUME SessionAssumption ==
  /\ ListTools \notin Capability
  /\ Offers \subseteq SUBSET Capability /\ Allowlist \subseteq Capability /\ MutatingName \subseteq Capability
  /\ Main \notin Worker /\ MaxCalls \in Nat
  /\ PlanAnswers \union {Playbook} \subseteq Seq(PlanRequest)

\* What comes from the transport, the SDK or a tool carries no status: an HTTP failure
\* names it in its message only. A credential that fails throws what its library
\* throws, which may carry any status and say anything.
ASSUME AnswersAssumption ==
  \A cap \in Capability : \A answer \in Answers(cap) :
    \/ answer.from = "success"
    \/ answer.from = "payload" /\ answer.rows \in Seq(Row)
    \/ answer.from \in {"http", "sdk", "tool"} /\ answer.err.class = "error" /\ answer.err.status = NoStatus
    \/ answer.from = "credential" /\ answer.err.class = "error"
    \/ answer.from = "fixture" /\ answer.err.class \in {"fixture_missing", "fixture_bad"}

NoCatalog == [known |-> FALSE, raw |-> {}, allowed |-> {}]
Idle == [cap |-> ListTools, step |-> "idle"]

VARIABLES
  phase,           \* "start", "listing", "open", "planning", "executing", "ended", "closed"
  advertised,      \* what the server offers
  catalog,         \* cachedCatalog
  connected,       \* the transport holds a client
  connections,     \* connections that are open
  call,            \* per caller: [cap, step]; the step is "idle", "connect" or "send"
  asks,            \* times the model was asked for a plan
  plan,
  planned,         \* the plan came from the model
  next,            \* the request the executor serves
  result,          \* what the last step returned to a caller, [cap, caller, cause, category]
  refused,         \* requests of the executor that the client refused
  wire,            \* everything that was sent
  made             \* calls the workers made

transport == <<connected, connections, call, wire>>
planning == <<asks, plan, planned, next>>
vars == <<phase, advertised, catalog, transport, planning, result, refused, made>>

Nothing == [cap |-> ListTools, caller |-> Main, cause |-> [from |-> "success"], category |-> "none"]

Callers == Worker \union {Main}
Quiet == \A c \in Callers : call[c] = Idle

-----------------------------------------------------------------------------
(* The client. *)

IsMutatingCapabilityName(name) == name \in MutatingName
IsAllowedCapability(name) == name \in Allowlist /\ ~IsMutatingCapabilityName(name)

\* The catalog that is cached: the mutating and the unknown are left out.
Discovered(raw) ==
  [known |-> TRUE, raw |-> raw, allowed |-> {name \in raw : IsAllowedCapability(name)}]

\* Mutant: the allowlist is trusted alone, as it is before discovery.
Reaches_Unadvertised(name) == catalog.known /\ IsAllowedCapability(name)

\* Whether invoke passes a call on to the transport.
Reaches(name) == catalog.known /\ IsAllowedCapability(name) /\ name \in catalog.allowed

NotAllowed == [class |-> "not_allowed", words |-> {"not_found"}]

Enter(caller, name) ==
  call' = [call EXCEPT ![caller] = [cap |-> name, step |-> IF connected THEN "send" ELSE "connect"]]

\* invoke(). Before discovery it throws on; a refusal never leaves the client.
Invoke(caller, name) ==
  /\ call[caller] = Idle
  /\ IF Reaches(name)
     THEN Enter(caller, name) /\ result' = Nothing /\ UNCHANGED refused
     ELSE /\ result' = [cap |-> name, caller |-> caller, cause |-> [from |-> "client"],
                        category |-> ClassifyFailure(NotAllowed)]
          /\ refused' = IF phase = "executing" THEN refused \union {next} ELSE refused
          /\ UNCHANGED call
  /\ UNCHANGED <<connected, connections, wire>>

\* The first discover() asks the server, the others find the catalog.
Discover ==
  /\ phase = "start" /\ phase' = "listing"
  /\ Enter(Main, ListTools)
  /\ result' = Nothing
  /\ UNCHANGED <<advertised, catalog, connected, connections, wire, planning, refused, made>>

-----------------------------------------------------------------------------
(* The transport. *)

\* Mutant: a failed connection is kept, and close has nothing to close.
Connects_NotKept(caller) ==
  /\ call[caller].step = "connect"
  /\ connections' = connections + 1
  /\ call' = [call EXCEPT ![caller].step = "send"]
  /\ result' = Nothing
  /\ UNCHANGED <<phase, advertised, catalog, connected, wire, planning, refused, made>>

\* ensureConnected: the client is kept once connect has returned.
Connects(caller) ==
  /\ call[caller].step = "connect"
  /\ connections' = connections + 1 /\ connected' = TRUE
  /\ call' = [call EXCEPT ![caller].step = "send"]
  /\ result' = Nothing
  /\ UNCHANGED <<phase, advertised, catalog, wire, planning, refused, made>>

\* A caller whose call threw. A run without a catalog is over.
Fails(caller, cause, category) ==
  /\ result' = [cap |-> call[caller].cap, caller |-> caller, cause |-> cause, category |-> category]
  /\ call' = [call EXCEPT ![caller] = Idle]
  /\ phase' = IF phase = "listing" THEN "ended" ELSE phase
  /\ UNCHANGED <<advertised, catalog, connected, connections, planning, refused, made>>

\* Only the listing connects; its failure is thrown on, and nothing classifies it.
ConnectFails(caller) ==
  /\ call[caller].step = "connect"
  /\ Fails(caller, [from |-> "network", words |-> {}], "thrown")
  /\ UNCHANGED wire

Lists ==
  /\ call[Main] = [cap |-> ListTools, step |-> "send"]
  /\ wire' = wire \union {ListTools}
  /\ catalog' = Discovered(advertised)
  /\ call' = [call EXCEPT ![Main] = Idle]
  /\ phase' = "open"
  /\ result' = Nothing
  /\ UNCHANGED <<advertised, connected, connections, planning, refused, made>>

ListingFails ==
  /\ call[Main] = [cap |-> ListTools, step |-> "send"]
  /\ Fails(Main, [from |-> "network", words |-> {}], "thrown")
  /\ wire' = wire \union {ListTools}

\* An answer that says it is an error, or holds one, is classified like a
\* failure; anything else is evidence.
Judged(answer) ==
  IF answer.from = "payload"
  THEN IF InspectCostPayload(answer.rows) = {} THEN {}
       ELSE {ClassifyFailure([class |-> "embedded", words |-> {}, category |-> category]) :
               category \in InspectCostPayload(answer.rows)}
  ELSE IF answer.from = "success" THEN {} ELSE {ClassifyFailure(answer.err)}

Sends(caller, answer) ==
  /\ call[caller].step = "send" /\ call[caller].cap /= ListTools
  /\ wire' = wire \union {call[caller].cap}
  /\ IF Judged(answer) = {}
     THEN Fails(caller, answer, "none")
     ELSE \E category \in Judged(answer) : Fails(caller, answer, category)

ServerChanges ==
  /\ phase \notin {"ended", "closed"}
  /\ advertised' \in Offers
  /\ result' = Nothing
  /\ UNCHANGED <<phase, catalog, transport, planning, refused, made>>

-----------------------------------------------------------------------------
(* The run. *)

\* A worker of the probe, or whoever else shares the client.
WorkerInvokes(w, name) ==
  /\ phase \in {"start", "listing", "open"} /\ made < MaxCalls
  /\ Invoke(w, name)
  /\ made' = made + 1
  /\ UNCHANGED <<phase, advertised, catalog, planning>>

\* discover() anew, from the cache, and assertRequiredCapabilities.
AssertRequiredCapabilities ==
  /\ phase = "open" /\ Quiet
  /\ phase' = IF Required \subseteq catalog.allowed THEN "planning" ELSE "ended"
  /\ result' = Nothing
  /\ UNCHANGED <<advertised, catalog, transport, planning, refused, made>>

\* Mutant: only the catalog is consulted.
Violations_AdvertisedOnly(candidate) ==
  {k \in DOMAIN candidate : candidate[k].cap \notin catalog.raw
                            \/ \E j \in 1..(k - 1) : candidate[j] = candidate[k]}

\* validatePlan. Duplicates are found by the text of the parameters.
Violations(candidate) ==
  {k \in DOMAIN candidate :
     \/ candidate[k].cap \notin catalog.raw
     \/ ~IsAllowedCapability(candidate[k].cap)
     \/ \E j \in 1..(k - 1) : candidate[j] = candidate[k]}

UsePlaybook ==
  /\ phase = "planning" /\ asks = 0
  /\ plan' = Playbook /\ phase' = "executing"
  /\ result' = Nothing
  /\ UNCHANGED <<advertised, catalog, transport, asks, planned, next, refused, made>>

\* The first plan is repaired once; the second is final either way.
Plan(candidate) ==
  /\ phase = "planning"
  /\ asks' = asks + 1
  /\ IF Violations(candidate) = {}
     THEN plan' = candidate /\ planned' = TRUE /\ phase' = "executing"
     ELSE /\ phase' = IF asks = 0 THEN "planning" ELSE "ended"
          /\ UNCHANGED <<plan, planned>>
  /\ result' = Nothing
  /\ UNCHANGED <<advertised, catalog, transport, next, refused, made>>

\* The model fails, or its parameters are no JSON object: there is no repair.
PlanUnusable ==
  /\ phase = "planning"
  /\ asks' = asks + 1 /\ phase' = "ended"
  /\ result' = Nothing
  /\ UNCHANGED <<advertised, catalog, transport, plan, planned, next, refused, made>>

\* The executor, one request after the other; its retries are of another module.
Execute ==
  /\ phase = "executing" /\ next <= Len(plan)
  /\ Invoke(Main, plan[next].cap)
  /\ next' = next + 1
  /\ UNCHANGED <<phase, advertised, catalog, asks, plan, planned, made>>

\* The run is over, or breaks off, once its own call has returned.
Ends ==
  /\ phase = "executing" /\ next > Len(plan) /\ call[Main] = Idle
  /\ phase' = "ended"
  /\ result' = Nothing
  /\ UNCHANGED <<advertised, catalog, transport, planning, refused, made>>

\* Mutant: a run that found no catalog is not closed.
Close_AfterDiscovery ==
  /\ phase = "ended" /\ Quiet /\ catalog.known
  /\ connections' = IF connected THEN connections - 1 ELSE connections
  /\ connected' = FALSE
  /\ phase' = "closed"
  /\ result' = Nothing
  /\ UNCHANGED <<advertised, catalog, call, wire, planning, refused, made>>

\* close(), in the finally of the command.
Close ==
  /\ phase = "ended" /\ Quiet
  /\ connections' = IF connected THEN connections - 1 ELSE connections
  /\ connected' = FALSE
  /\ phase' = "closed"
  /\ result' = Nothing
  /\ UNCHANGED <<advertised, catalog, call, wire, planning, refused, made>>

Init ==
  /\ phase = "start" /\ advertised \in Offers /\ catalog = NoCatalog
  /\ connected = FALSE /\ connections = 0 /\ call = [c \in Callers |-> Idle]
  /\ asks = 0 /\ plan = <<>> /\ planned = FALSE /\ next = 1
  /\ result = Nothing
  /\ refused = {} /\ wire = {} /\ made = 0

Transport(caller) ==
  \/ Connects(caller) \/ ConnectFails(caller)
  \/ \E answer \in Answers(call[caller].cap) : Sends(caller, answer)

Step ==
  \/ Discover \/ Lists \/ ListingFails \/ AssertRequiredCapabilities
  \/ UsePlaybook \/ PlanUnusable \/ Execute \/ Ends \/ Close
  \/ \E candidate \in PlanAnswers : Plan(candidate)
  \/ \E caller \in Callers : Transport(caller)

Next ==
  \/ Step \/ ServerChanges
  \/ \E w \in Worker, name \in Capability : WorkerInvokes(w, name)

Spec == Init /\ [][Next]_vars

\* The SDK settles every call; between calls the run goes on by itself.
FairSpec == Spec /\ WF_vars(Step)

-----------------------------------------------------------------------------
(* Properties. *)

\* Whatever plans, workers and servers ask for, only capabilities on the
\* allowlist that match no mutating pattern, and that the discovery saw, are ever
\* sent; and nothing is sent before the discovery.
OnlyReadsReachTheWire ==
  /\ \A name \in wire \ {ListTools} : name \in Allowlist \ MutatingName /\ name \in catalog.raw
  /\ ~catalog.known => wire \subseteq {ListTools}

\* The callers share one connection, however their first calls interleave, and
\* none is open once the session is closed, however it ended.
OneConnection == connections <= 1 /\ (phase = "closed" => connections = 0)

\* What the planner lets through the client lets through: no request of a plan
\* by the model is refused, though the two check against different lists and the
\* server may have changed. At most two plans were asked for.
PlansAreExecutable ==
  /\ planned => refused = {} /\ \A j, k \in DOMAIN plan : plan[j] = plan[k] => j = k
  /\ asks <= 2

PassingStatus == {408, 429, 502, 503, 504}
SpeaksOfTimeOrRate(err) == err.words \intersect {"timeout", "rate_limit"} /= {}

\* Trouble that may pass by itself. A credential that was refused, as its status
\* says, is none, whatever its message says; one that was throttled or timed out is.
MayPass(cause) ==
  CASE cause.from = "http" -> cause.status \in PassingStatus \/ SpeaksOfTimeOrRate(cause.err)
    [] cause.from = "payload" -> \E k \in DOMAIN cause.rows : cause.rows[k].says = "rate_limit"
    [] cause.from \in {"sdk", "tool"} -> SpeaksOfTimeOrRate(cause.err)
    [] cause.from = "credential" ->
         IF cause.err.status \in {400, 401, 403, 404, 422} THEN FALSE
         ELSE cause.err.status \in PassingStatus \/ SpeaksOfTimeOrRate(cause.err)
    [] OTHER -> FALSE

\* A category that is retried comes from trouble that may pass: never from a
\* refusal of the client, a missing fixture, or a credential that was refused, even
\* where its message speaks of a timeout; and a payload with a throttled
\* subscription is retried wherever that subscription stands in it.
RetriesMakeSense ==
  /\ result.category \in Retriable => MayPass(result.cause)
  /\ result.cause.from = "payload" /\ MayPass(result.cause) => result.category = "rate_limit"

\* What is transient by its status is retried
\* (docs/design/cron-comparison-improvements.md, Triggering categories). It is
\* not: the live transport throws an error without a status.
TransientStatusIsRetried ==
  result.cause.from = "http" /\ result.cause.status \in PassingStatus =>
    result.category \in Retriable

\* Every session is closed in the end.
SessionCloses == <>(phase = "closed")

-----------------------------------------------------------------------------
(* The inductive invariant behind the first three. *)

TypeOK ==
  /\ phase \in {"start", "listing", "open", "planning", "executing", "ended", "closed"}
  /\ advertised \subseteq Capability
  /\ catalog \in [known : BOOLEAN, raw : SUBSET Capability, allowed : SUBSET Capability]
  /\ connected \in BOOLEAN /\ connections \in Nat
  /\ call \in [Callers -> [cap : Capability \union {ListTools}, step : {"idle", "connect", "send"}]]
  /\ asks \in Nat /\ plan \in Seq(PlanRequest) /\ planned \in BOOLEAN /\ next \in Nat \ {0}

\* Until the tools are listed only the main line has a call, and it is the listing.
CatalogComesFirst ==
  /\ catalog.allowed = {name \in catalog.raw : IsAllowedCapability(name)}
  /\ phase \in {"start", "listing"} => ~catalog.known
  /\ phase \in {"open", "planning", "executing"} => catalog.known
  /\ ~catalog.known =>
       /\ catalog.raw = {}
       /\ \A w \in Worker : call[w] = Idle
       /\ call[Main] = Idle \/ (phase = "listing" /\ call[Main].cap = ListTools)

CallsAreAllowed ==
  /\ \A c \in Callers : catalog.known /\ call[c] /= Idle => call[c].cap \in catalog.allowed
  /\ wire \subseteq catalog.allowed \union {ListTools}

\* The listing connects, and what comes after it finds the client connected.
ListingConnects ==
  /\ connections = IF connected THEN 1 ELSE 0
  /\ phase = "start" \/ phase = "closed" => ~connected
  /\ catalog.known => connected \/ phase = "closed"
  /\ \A c \in Callers :
       /\ call[c].step = "connect" => c = Main /\ ~catalog.known /\ ~connected
       /\ call[c].step = "send" => connected
       /\ call[c].step = "idle" => call[c] = Idle

PlansAreSound ==
  /\ phase \in {"start", "listing", "open"} => asks = 0
  /\ phase = "planning" => asks <= 1
  /\ asks <= 2
  /\ phase \in {"start", "listing", "open", "planning"} => ~planned /\ refused = {}
  /\ planned =>
       /\ refused = {} /\ catalog.known
       /\ \A k \in DOMAIN plan : plan[k].cap \in catalog.allowed
       /\ \A j, k \in DOMAIN plan : plan[j] = plan[k] => j = k

IInv == TypeOK /\ CatalogComesFirst /\ CallsAreAllowed /\ ListingConnects /\ PlansAreSound
=============================================================================
