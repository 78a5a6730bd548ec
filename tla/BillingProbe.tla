----------------------------- MODULE BillingProbe -----------------------------
(***************************************************************************)
(* The billing access probe: a pool of workers takes candidate             *)
(* subscriptions from a shared index, looks each up in the probe cache,    *)
(* and otherwise asks the cost capability, with a timeout and one retry.   *)
(*                                                                         *)
(* A step runs from one await of a worker to its next. A call that lost    *)
(* the race against its timer stays open, and the server may answer it at  *)
(* any later time. What the cache holds is left open: a lookup may miss or *)
(* hit with any outcome (BillingProbeCache says which hits can occur).     *)
(***************************************************************************)
EXTENDS Naturals, Sequences, FiniteSets

CONSTANTS
  Sub,           \* subscriptions
  Concurrency,   \* workers in the pool
  Response,      \* what a call may end with, among AllResponses
  CacheOn        \* whether the probe has a cache

\* A call ends with a clean payload, or with an error: thrown, wrapped as text
\* in a successful result, or embedded in a payload. What matters of an error is
\* what its words say.
Clean == [via |-> "clean", says |-> "data"]

AllResponses ==
  {Clean} \union
  [via : {"thrown", "wrapped", "payload"},
   says : {"denied", "unauthenticated", "rate_limit", "timeout", "other"}]

ASSUME ProbeAssumption ==
  /\ Concurrency \in 1..10
  /\ Response \subseteq AllResponses
  /\ CacheOn \in BOOLEAN

\* An error that says nothing known is transient if the server answered at all.
ClassifyProbeOutcome(response) ==
  IF response = Clean THEN "pass"
  ELSE IF response.says \in {"denied", "unauthenticated"} THEN "denied"
  ELSE IF response.says \in {"rate_limit", "timeout"} \/ response.via /= "thrown"
       THEN "transient"
  ELSE "unknown"

Outcome == {"transient"} \union {ClassifyProbeOutcome(response) : response \in Response}

VARIABLES
  ids,           \* the candidates, in rank order
  nextIndex,     \* the next candidate no worker has taken
  worker,        \* what each worker is doing
  open,          \* calls the server has not answered: <<index, attempt>>
  results,       \* the result of each candidate so far, in input order
  stats,         \* lookups that hit, and that missed
  settled,       \* history: what ended the wait for each call
  stored         \* history: the outcome the cache was given for each candidate

probeVars == <<ids, nextIndex, worker, open, results, stats, settled, stored>>

-----------------------------------------------------------------------------
(* Data. *)

Worker == 1..Concurrency

None == "none"

\* A worker that takes an index beyond the last candidate is done.
Take(index, list) ==
  [at |-> IF index \notin DOMAIN list THEN "done" ELSE IF CacheOn THEN "lookup" ELSE "call",
   index |-> index, attempt |-> 1, outcome |-> None]

NoResult == [sub |-> None, outcome |-> None, cacheHit |-> FALSE]

\* Candidate lists: distinct subscriptions.
Candidates ==
  {list \in UNION {[1..n -> Sub] : n \in 0..Cardinality(Sub)} :
     \A i, j \in DOMAIN list : list[i] = list[j] => i = j}

\* No probe has begun.
ProbeInit ==
  /\ ids = <<>>
  /\ worker = [w \in Worker |-> Take(w, <<>>)]
  /\ nextIndex = Concurrency + 1
  /\ open = {}
  /\ results = <<>>
  /\ stats = [hits |-> 0, misses |-> 0]
  /\ settled = <<>>
  /\ stored = <<>>

\* The probe of a list begins: every worker takes an index before the first await.
StartProbe(list) ==
  /\ ids' = list
  /\ worker' = [w \in Worker |-> Take(w, list)]
  /\ results' = [i \in DOMAIN list |-> NoResult]
  /\ settled' = [call \in (DOMAIN list) \X {1, 2} |-> None]
  /\ stored' = [i \in DOMAIN list |-> None]
  /\ UNCHANGED <<nextIndex, open, stats>>

-----------------------------------------------------------------------------
(* Workers. *)

Continue(w, state) == worker' = [worker EXCEPT ![w] = state]

\* Mutant: a worker takes any answer for its candidate for the one it awaits.
Awaiting_AnyAttempt(w, call) ==
  worker[w].at = "wait" /\ call[1] = worker[w].index

Awaiting(w, call) ==
  worker[w].at = "wait" /\ call = <<worker[w].index, worker[w].attempt>>

\* Mutant: the worker re-reads its index from the pool when it records.
Record_PoolIndex(w, outcome, cacheHit) ==
  LET index == nextIndex - 1
  IN
  /\ results' = IF index \in DOMAIN ids
                THEN [results EXCEPT ![index] =
                        [sub |-> ids[index], outcome |-> outcome, cacheHit |-> cacheHit]]
                ELSE results
  /\ stats' = IF cacheHit THEN [stats EXCEPT !.hits = @ + 1]
                          ELSE [stats EXCEPT !.misses = @ + 1]
  /\ Continue(w, Take(nextIndex, ids))
  /\ nextIndex' = nextIndex + 1

\* The worker records a result and takes the next candidate.
Record(w, outcome, cacheHit) ==
  LET index == worker[w].index
  IN
  /\ results' = [results EXCEPT ![index] =
                   [sub |-> ids[index], outcome |-> outcome, cacheHit |-> cacheHit]]
  /\ stats' = IF cacheHit THEN [stats EXCEPT !.hits = @ + 1]
                          ELSE [stats EXCEPT !.misses = @ + 1]
  /\ Continue(w, Take(nextIndex, ids))
  /\ nextIndex' = nextIndex + 1

LookupHits(w, outcome) ==
  /\ worker[w].at = "lookup"
  /\ Record(w, outcome, TRUE)
  /\ UNCHANGED <<ids, open, settled, stored>>

LookupMisses(w) ==
  /\ worker[w].at = "lookup"
  /\ Continue(w, [worker[w] EXCEPT !.at = "call"])
  /\ UNCHANGED <<ids, nextIndex, open, results, stats, settled, stored>>

\* singleProbeAttempt: issue the call and arm the timer.
Attempt(w) ==
  /\ worker[w].at = "call"
  /\ open' = open \union {<<worker[w].index, worker[w].attempt>>}
  /\ Continue(w, [worker[w] EXCEPT !.at = "wait"])
  /\ UNCHANGED <<ids, nextIndex, results, stats, settled, stored>>

\* Mutant: transient outcomes are retried until they end.
Resolve_Forever(w, outcome) ==
  IF outcome = "transient"
  THEN Continue(w, [worker[w] EXCEPT !.at = "jitter", !.attempt = 2])
  ELSE Continue(w, [worker[w] EXCEPT !.at = "store", !.outcome = outcome])

\* The race has a winner: a first transient outcome is retried once.
Resolve(w, outcome) ==
  IF outcome = "transient" /\ worker[w].attempt = 1
  THEN Continue(w, [worker[w] EXCEPT !.at = "jitter", !.attempt = 2])
  ELSE Continue(w, [worker[w] EXCEPT !.at = "store", !.outcome = outcome])

\* The server answers, or refuses, a call whose worker still waits for it.
Answer(w, call, response) ==
  /\ call \in open /\ Awaiting(w, call)
  /\ open' = open \ {call}
  /\ settled' = [settled EXCEPT ![call] = ClassifyProbeOutcome(response)]
  /\ Resolve(w, ClassifyProbeOutcome(response))
  /\ UNCHANGED <<ids, nextIndex, results, stats, stored>>

\* The server answers a call its worker has given up: settled, so dropped.
LateAnswer(call) ==
  /\ call \in open /\ \A w \in Worker : ~Awaiting(w, call)
  /\ open' = open \ {call}
  /\ UNCHANGED <<ids, nextIndex, worker, results, stats, settled, stored>>

\* The timer fires first; the call stays open.
Timeout(w) ==
  /\ worker[w].at = "wait"
  /\ settled' = [settled EXCEPT ![<<worker[w].index, worker[w].attempt>>] = "timeout"]
  /\ Resolve(w, "transient")
  /\ UNCHANGED <<ids, nextIndex, open, results, stats, stored>>

JitterEnds(w) ==
  /\ worker[w].at = "jitter"
  /\ Continue(w, [worker[w] EXCEPT !.at = "call"])
  /\ UNCHANGED <<ids, nextIndex, open, results, stats, settled, stored>>

\* Mutant: the outcome of the probe is cached, a retried one as transient.
Conclude_CachesFirst(w) ==
  /\ worker[w].at = "store"
  /\ stored' = IF CacheOn
               THEN [stored EXCEPT ![worker[w].index] =
                       IF worker[w].attempt = 2 THEN "transient" ELSE worker[w].outcome]
               ELSE stored
  /\ Record(w, worker[w].outcome, FALSE)
  /\ UNCHANGED <<ids, open, settled>>

\* The outcome goes to the cache, if there is one, whether or not the write
\* succeeds, and then into the results.
Conclude(w) ==
  /\ worker[w].at = "store"
  /\ stored' = IF CacheOn THEN [stored EXCEPT ![worker[w].index] = worker[w].outcome]
               ELSE stored
  /\ Record(w, worker[w].outcome, FALSE)
  /\ UNCHANGED <<ids, open, settled>>

\* What a worker does without the server.
Proceed(w) == LookupMisses(w) \/ Attempt(w) \/ JitterEnds(w) \/ Conclude(w)

ProbeNext ==
  \/ \E w \in Worker :
       \/ Proceed(w)
       \/ Timeout(w)
       \/ \E outcome \in Outcome : LookupHits(w, outcome)
       \/ \E call \in open, response \in Response : Answer(w, call, response)
  \/ \E call \in open : LateAnswer(call)

PoolDone == \A w \in Worker : worker[w].at = "done"

-----------------------------------------------------------------------------
(* Properties. *)

\* What the end of a wait means for the probe.
Verdict(call) == IF settled[call] = "timeout" THEN "transient" ELSE settled[call]

\* Every result stands at the place of its own candidate and says what the
\* server said of it, in time, in answer to the last attempt: a second attempt
\* was made exactly if the first was transient, an answer that came after the
\* timer counts for nothing, and a cached result was never asked for.
ResultIsEarned(i) ==
  /\ results[i].sub = ids[i]
  /\ IF results[i].cacheHit
     THEN settled[<<i, 1>>] = None /\ settled[<<i, 2>>] = None
     ELSE IF Verdict(<<i, 1>>) = "transient"
          THEN results[i].outcome = Verdict(<<i, 2>>)
          ELSE results[i].outcome = Verdict(<<i, 1>>) /\ settled[<<i, 2>>] = None

\* Results are earned, and their traces agree with them: the cache learns of every
\* outcome that was paid for and of no other, so that the next run decides as this
\* one did; hits and misses count the results there are, at every moment; and no
\* two workers are ever at one candidate.
ResultsAreEarned ==
  LET Recorded == {i \in DOMAIN results : results[i] /= NoResult}
      Hits == {i \in Recorded : results[i].cacheHit}
  IN
  /\ \A i \in Recorded :
       /\ ResultIsEarned(i)
       /\ stored[i] = IF CacheOn /\ i \notin Hits THEN results[i].outcome ELSE None
  /\ stats = [hits |-> Cardinality(Hits), misses |-> Cardinality(Recorded \ Hits)]
  /\ \A v, w \in Worker :
       v /= w /\ worker[v].at /= "done" => worker[v].index /= worker[w].index

-----------------------------------------------------------------------------
(* The inductive invariant behind ResultsAreEarned.                         *)

PoolTypeOK ==
  /\ nextIndex \in Nat \ {0}
  /\ worker \in [Worker -> [at : {"lookup", "call", "wait", "jitter", "store", "done"},
                            index : Nat \ {0}, attempt : {1, 2}, outcome : Outcome \union {None}]]
  /\ DOMAIN results = DOMAIN ids /\ DOMAIN stored = DOMAIN ids
  /\ DOMAIN settled = (DOMAIN ids) \X {1, 2}

\* A candidate no worker has taken has no history.
NothingIsAnticipated ==
  \A i \in DOMAIN ids :
    i \notin 1..(nextIndex - 1) =>
      /\ results[i] = NoResult /\ stored[i] = None
      /\ settled[<<i, 1>>] = None /\ settled[<<i, 2>>] = None

\* A worker knows no more of its candidate than the calls it has seen the end of.
AtWork(w) ==
  LET i == worker[w].index
      attempt == worker[w].attempt
  IN /\ i < nextIndex
     /\ worker[w].at /= "done" =>
          /\ i \in DOMAIN ids
          /\ results[i] = NoResult /\ stored[i] = None
          /\ attempt = 1 => settled[<<i, 2>>] = None
          /\ attempt = 2 => Verdict(<<i, 1>>) = "transient"
          /\ worker[w].at = "lookup" => attempt = 1
          /\ IF worker[w].at = "store"
             THEN /\ worker[w].outcome = Verdict(<<i, attempt>>) /\ worker[w].outcome \in Outcome
                  /\ attempt = 1 => worker[w].outcome /= "transient"
             ELSE settled[<<i, attempt>>] = None

PoolInv ==
  PoolTypeOK /\ NothingIsAnticipated /\ (\A w \in Worker : AtWork(w)) /\ ResultsAreEarned
=============================================================================
