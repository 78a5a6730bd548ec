----------------------------- MODULE MCSession -----------------------------
(***************************************************************************)
(* An instance of Session for TLC. The allowlist holds a mutating name by  *)
(* mistake, and the server may advertise anything.                         *)
(***************************************************************************)
EXTENDS Session

CONSTANTS cost, graph, update, other, w1, w2

Names == {cost, graph, update, other}
Workers == {w1, w2}

Request(cap, text) == [cap |-> cap, text |-> text]

\* Sound, doubled, mutating, off the list, and with one capability that may be missing.
SomePlans ==
  {<<Request(cost, "a"), Request(cost, "b")>>, <<Request(cost, "a"), Request(cost, "a")>>,
   <<Request(update, "a")>>, <<Request(other, "a")>>, <<Request(graph, "a"), Request(cost, "a")>>}

ThePlaybook == <<Request(cost, "a"), Request(graph, "a")>>

Plain(words) == [class |-> "error", status |-> NoStatus, words |-> words]

\* The message of an HTTP failure holds the code and its text, and the body.
WordsOf ==
  [s \in {401, 403, 404, 429, 500, 503, 504} |->
     CASE s = 401 -> {"unauthorized"} [] s = 403 -> {"forbidden"} [] s = 404 -> {"not_found"}
       [] s = 429 -> {"rate_limit"} [] s = 504 -> {"timeout"} [] OTHER -> {}]

Http == {[from |-> "http", status |-> s, err |-> Plain(WordsOf[s])] : s \in DOMAIN WordsOf}
        \union {[from |-> "http", status |-> 500, err |-> Plain({"timeout", "forbidden"})]}

\* Refused, throttled, or with no status; a message may quote anything.
Credential ==
  {[from |-> "credential", err |-> [Plain(words) EXCEPT !.status = s]] :
     s \in {NoStatus, 400, 401, 429, 500, 503}, words \in {{}, {"timeout"}, {"unauthorized"}}}

Tool == {[from |-> "tool", err |-> Plain({"rate_limit", "forbidden"})]}

Fixture == {[from |-> "fixture", err |-> [class |-> c, words |-> {"timeout"}]] :
              c \in {"fixture_missing", "fixture_bad"}}

\* Two subscriptions of a payload: each error beside each other, in both orders.
Payload == {[from |-> "payload", rows |-> rows] : rows \in
              {<<a, b>> : a, b \in {row \in Row : ~row.blank} \union {[says |-> "other", blank |-> TRUE]}}}

AnyAnswer(cap) ==
  {[from |-> "success"], [from |-> "sdk", err |-> Plain({"timeout"})]}
  \union Http \union Credential \union Tool \union Fixture
  \union (IF cap = Inspected THEN Payload ELSE {})

SomeOffers == {Names, {cost, update}, {graph, other}}
=============================================================================
