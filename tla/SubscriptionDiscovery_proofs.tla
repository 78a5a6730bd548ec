---------------------- MODULE SubscriptionDiscovery_proofs ----------------------
(***************************************************************************)
(* Proofs about discovery and the billing access probe it runs.            *)
(*                                                                         *)
(* Of the probe: however many workers share the pool, however long it is   *)
(* and whatever the cache and the server say, every result is earned by    *)
(* its own candidate (IInv).                                               *)
(*                                                                         *)
(* Of discovery: whatever shapes the answers come in, the selection is the *)
(* best there is of what passed (ChoiceInv). The order of a list is a      *)
(* matter of how many stand before each of its members, so that nothing    *)
(* here needs an induction.                                                *)
(***************************************************************************)
EXTENDS SubscriptionDiscovery, FiniteSetTheorems, TLAPS

-----------------------------------------------------------------------------
(* The pool. *)

\* Results that count are told from none.
LEMMA OutcomesAreSome == None \notin Outcome /\ NoResult.outcome = None
BY DEF None, Outcome, ClassifyProbeOutcome, NoResult

\* Recorded candidates are finitely many, so that they can be counted.
LEMMA RecordedIsFinite ==
  ASSUME PoolTypeOK, NothingIsAnticipated
  PROVE  IsFiniteSet({i \in DOMAIN results : results[i] /= NoResult})
<1>1. {i \in DOMAIN results : results[i] /= NoResult} \subseteq 1..(nextIndex - 1)
  BY DEF PoolTypeOK, NothingIsAnticipated
<1>2. IsFiniteSet(1..(nextIndex - 1))
  BY FS_Interval DEF PoolTypeOK
<1>3. QED
  BY <1>1, <1>2, FS_Subset

\* Where a worker is, if it is anywhere.
LEMMA WorkerPlace ==
  ASSUME PoolInv, NEW w \in Worker
  PROVE  /\ nextIndex \in Nat \ {0}
         /\ worker[w].index \in Nat \ {0} /\ worker[w].index \in 1..(nextIndex - 1)
         /\ worker[w].attempt \in {1, 2}
         /\ worker[w].at /= "done" => worker[w].index \in DOMAIN ids
<1>1. /\ nextIndex \in Nat \ {0}
      /\ worker[w] \in [at : {"lookup", "call", "wait", "jitter", "store", "done"},
                        index : Nat \ {0}, attempt : {1, 2}, outcome : Outcome \union {None}]
  BY DEF PoolInv, PoolTypeOK
<1>2. /\ worker[w].index < nextIndex
      /\ worker[w].at /= "done" => worker[w].index \in DOMAIN ids
  BY DEF PoolInv, AtWork
<1>3. QED
  BY <1>1, <1>2

\* One more is counted.
LEMMA CountOneMore ==
  ASSUME NEW S, IsFiniteSet(S), NEW x, x \notin S
  PROVE  Cardinality(S \union {x}) = Cardinality(S) + 1
BY FS_AddElement

\* A step of a worker that records nothing only moves its own candidate on.
LEMMA WithinOneCandidate ==
  ASSUME PoolInv, NEW w \in Worker, worker[w].at /= "done", NEW state,
         state \in [at : {"lookup", "call", "wait", "jitter", "store"}, index : {worker[w].index},
                    attempt : {1, 2}, outcome : Outcome \union {None}],
         worker' = [worker EXCEPT ![w] = state],
         UNCHANGED <<ids, nextIndex, results, stats, stored>>,
         DOMAIN settled' = DOMAIN settled,
         \A i \in (DOMAIN ids) \ {worker[w].index} :
           settled'[<<i, 1>>] = settled[<<i, 1>>] /\ settled'[<<i, 2>>] = settled[<<i, 2>>],
         AtWork(w)'
  PROVE  PoolInv'
<1> DEFINE index == worker[w].index
<1>1. /\ index \in DOMAIN ids /\ index \in 1..(nextIndex - 1) /\ results[index] = NoResult
      /\ index \in Nat \ {0} /\ nextIndex \in Nat
  BY WorkerPlace DEF PoolInv, AtWork
<1>2. PoolTypeOK'
  BY <1>1 DEF PoolInv, PoolTypeOK
<1>3. NothingIsAnticipated'
  BY <1>1 DEF PoolInv, NothingIsAnticipated
<1>4. ASSUME NEW v \in Worker, v /= w PROVE AtWork(v)'
  <2>1. worker'[v] = worker[v]
    BY <1>4
  <2>2. worker[v].at /= "done" => worker[v].index \in (DOMAIN ids) \ {index}
    BY <1>4 DEF PoolInv, AtWork, ResultsAreEarned
  <2>3. AtWork(v)
    BY DEF PoolInv
  <2>4. QED
    BY <2>1, <2>2, <2>3, WorkerPlace DEF AtWork, Verdict
<1>5. \A v \in Worker : AtWork(v)'
  BY <1>4
<1>6. ResultsAreEarned'
  <2>1. \A i \in DOMAIN results : results[i] /= NoResult => ResultIsEarned(i)'
    BY <1>1 DEF PoolInv, PoolTypeOK, ResultsAreEarned, ResultIsEarned, Verdict
  <2>2. \A v \in Worker : worker'[v].index = worker[v].index
                          /\ (worker'[v].at = "done" <=> worker[v].at = "done")
    BY DEF PoolInv, PoolTypeOK
  <2>3. QED
    BY <2>1, <2>2 DEF PoolInv, ResultsAreEarned
<1>7. QED
  BY <1>2, <1>3, <1>5, <1>6 DEF PoolInv

\* A step that records takes the candidate's place in the results, counts it,
\* and leaves the worker with a candidate nobody has touched.
LEMMA RecordKeepsPool ==
  ASSUME PoolInv, NEW w \in Worker, worker[w].at \in {"lookup", "store"},
         NEW index, index = worker[w].index,
         NEW outcome \in Outcome, NEW cacheHit \in BOOLEAN, Record(w, outcome, cacheHit),
         UNCHANGED <<ids, settled>>,
         stored' = IF CacheOn /\ ~cacheHit THEN [stored EXCEPT ![index] = outcome]
                   ELSE stored,
         ResultIsEarned(index)'
  PROVE  PoolInv'
<1> DEFINE earned == [sub |-> ids[index], outcome |-> outcome, cacheHit |-> cacheHit]
           next == Take(nextIndex, ids)
           recorded == {i \in DOMAIN results : results[i] /= NoResult}
           hits == {i \in recorded : results[i].cacheHit}
<1>1. /\ index \in DOMAIN ids /\ index \in 1..(nextIndex - 1) /\ results[index] = NoResult
      /\ stored[index] = None /\ index \in Nat \ {0} /\ nextIndex \in Nat \ {0}
      /\ DOMAIN results = DOMAIN ids /\ DOMAIN stored = DOMAIN ids
  BY WorkerPlace DEF PoolInv, PoolTypeOK, AtWork
<1>2. /\ results' = [results EXCEPT ![index] = earned]
      /\ worker' = [worker EXCEPT ![w] = next]
      /\ nextIndex' = nextIndex + 1
      /\ stats' = IF cacheHit THEN [stats EXCEPT !.hits = @ + 1] ELSE [stats EXCEPT !.misses = @ + 1]
  BY DEF Record, Continue
<1>3. earned /= NoResult /\ earned.cacheHit = cacheHit
  BY OutcomesAreSome DEF NoResult
<1>4. /\ next \in [at : {"lookup", "call", "done"}, index : {nextIndex}, attempt : {1}, outcome : {None}]
      /\ next.at /= "done" => nextIndex \in DOMAIN ids
  BY DEF Take
<1>5. /\ DOMAIN results' = DOMAIN results /\ DOMAIN stored' = DOMAIN stored
      /\ results'[index] = earned
      /\ \A i \in (DOMAIN ids) \ {index} : results'[i] = results[i] /\ stored'[i] = stored[i]
      /\ stored'[index] = IF CacheOn /\ ~cacheHit THEN outcome ELSE None
  BY <1>1, <1>2
<1>6. /\ worker'[w] = next
      /\ \A v \in Worker \ {w} : worker'[v] = worker[v]
  BY <1>2 DEF PoolInv, PoolTypeOK
<1>7. PoolTypeOK'
  BY <1>1, <1>2, <1>4, <1>5, <1>6 DEF PoolInv, PoolTypeOK
<1>8. NothingIsAnticipated'
  BY <1>1, <1>2, <1>5 DEF PoolInv, NothingIsAnticipated
<1>9. ASSUME NEW v \in Worker PROVE AtWork(v)'
  <2>1. CASE v = w
    BY <2>1, <1>1, <1>2, <1>4, <1>5, <1>6 DEF PoolInv, NothingIsAnticipated, AtWork
  <2>2. CASE v /= w
    <3>1. worker[v].at /= "done" => worker[v].index \in (DOMAIN ids) \ {index}
      BY <2>2, <1>9 DEF PoolInv, AtWork, ResultsAreEarned
    <3>2. QED
      BY <2>2, <3>1, <1>1, <1>2, <1>5, <1>6 DEF PoolInv, PoolTypeOK, AtWork, Verdict
  <2>3. QED
    BY <2>1, <2>2
<1>10. ResultsAreEarned'
  <2>1. /\ recorded' = recorded \union {index} /\ index \notin recorded
        /\ hits' = IF cacheHit THEN hits \union {index} ELSE hits
    BY <1>1, <1>3, <1>5
  <2>2. ASSUME NEW i \in recorded'
        PROVE  /\ ResultIsEarned(i)'
               /\ stored'[i] = IF CacheOn /\ i \notin hits' THEN results'[i].outcome ELSE None
    <3>1. CASE i = index
      BY <3>1, <1>3, <1>5, <2>1
    <3>2. CASE i /= index
      <4>1. i \in recorded /\ i \in DOMAIN ids /\ results'[i] = results[i] /\ stored'[i] = stored[i]
        BY <3>2, <2>1, <2>2, <1>1, <1>5
      <4>2. i \in hits' <=> i \in hits
        BY <3>2, <2>1
      <4>3. /\ ResultIsEarned(i)
            /\ stored[i] = IF CacheOn /\ i \notin hits THEN results[i].outcome ELSE None
        BY <4>1 DEF PoolInv, ResultsAreEarned
      <4>4. QED
        BY <4>1, <4>2, <4>3 DEF ResultIsEarned, Verdict
    <3>3. QED
      BY <3>1, <3>2
  <2>3. stats' = [hits |-> Cardinality(hits'), misses |-> Cardinality(recorded' \ hits')]
    <3>1. IsFiniteSet(recorded) /\ IsFiniteSet(hits) /\ IsFiniteSet(recorded \ hits)
      BY RecordedIsFinite, FS_Subset DEF PoolInv
    <3>2. stats = [hits |-> Cardinality(hits), misses |-> Cardinality(recorded \ hits)]
      BY DEF PoolInv, ResultsAreEarned
    <3>3. CASE cacheHit
      <4>1. /\ hits' = hits \union {index} /\ index \notin hits
            /\ recorded' \ hits' = recorded \ hits
        BY <2>1, <3>3
      <4>2. Cardinality(hits') = Cardinality(hits) + 1
        BY <3>1, <4>1, CountOneMore
      <4>3. QED
        BY <4>1, <4>2, <3>2, <3>3, <1>2
    <3>4. CASE ~cacheHit
      <4>1. hits' = hits /\ recorded' \ hits' = (recorded \ hits) \union {index}
        BY <2>1, <3>4
      <4>2. Cardinality(recorded' \ hits') = Cardinality(recorded \ hits) + 1
        BY <2>1, <3>1, <4>1, CountOneMore
      <4>3. QED
        BY <4>1, <4>2, <3>2, <3>4, <1>2
    <3>5. QED
      BY <3>3, <3>4
  <2>4. ASSUME NEW v \in Worker, NEW u \in Worker, v /= u, worker'[v].at /= "done"
        PROVE  worker'[v].index /= worker'[u].index
    <3>1. \A t \in Worker : worker[t].index \in 1..(nextIndex - 1)
      BY WorkerPlace
    <3>2. QED
      BY <2>4, <3>1, <1>1, <1>4, <1>6 DEF PoolInv, ResultsAreEarned
  <2>5. QED
    BY <2>2, <2>3, <2>4 DEF ResultsAreEarned
<1>11. QED
  BY <1>7, <1>8, <1>9, <1>10 DEF PoolInv

\* The end of a wait, by an answer or by the timer, is noted for the attempt that
\* was awaited, and for no other.
LEMMA ResolveKeepsPool ==
  ASSUME PoolInv, NEW w \in Worker, worker[w].at = "wait",
         NEW outcome \in Outcome, NEW mark, mark /= None,
         outcome = IF mark = "timeout" THEN "transient" ELSE mark,
         settled' = [settled EXCEPT ![<<worker[w].index, worker[w].attempt>>] = mark],
         Resolve(w, outcome), UNCHANGED <<ids, nextIndex, results, stats, stored>>
  PROVE  PoolInv'
<1> DEFINE index == worker[w].index
           attempt == worker[w].attempt
           retried == [worker[w] EXCEPT !.at = "jitter", !.attempt = 2]
           judged == [worker[w] EXCEPT !.at = "store", !.outcome = outcome]
           again == outcome = "transient" /\ attempt = 1
           state == IF again THEN retried ELSE judged
<1>1. /\ worker[w] \in [at : {"wait"}, index : Nat \ {0}, attempt : {1, 2},
                        outcome : Outcome \union {None}]
      /\ index \in DOMAIN ids /\ index < nextIndex /\ attempt \in {1, 2}
      /\ results[index] = NoResult /\ stored[index] = None
      /\ settled[<<index, attempt>>] = None
      /\ attempt = 1 => settled[<<index, 2>>] = None
      /\ attempt = 2 => Verdict(<<index, 1>>) = "transient"
  BY WorkerPlace DEF PoolInv, PoolTypeOK, AtWork
<1>2. worker' = [worker EXCEPT ![w] = state]
  BY DEF Resolve, Continue
<1>3. state \in [at : {"lookup", "call", "wait", "jitter", "store"}, index : {index},
                attempt : {1, 2}, outcome : Outcome \union {None}]
  BY <1>1
<1>4. /\ DOMAIN settled' = DOMAIN settled
      /\ settled'[<<index, attempt>>] = mark
      /\ \A call \in DOMAIN settled : call /= <<index, attempt>> => settled'[call] = settled[call]
      /\ \A i \in DOMAIN ids : <<i, 1>> \in DOMAIN settled /\ <<i, 2>> \in DOMAIN settled
  BY <1>1 DEF PoolInv, PoolTypeOK
<1>5. \A i \in (DOMAIN ids) \ {index} :
        settled'[<<i, 1>>] = settled[<<i, 1>>] /\ settled'[<<i, 2>>] = settled[<<i, 2>>]
  BY <1>4
<1>6. worker'[w] = state
  BY <1>2 DEF PoolInv, PoolTypeOK
<1>7. AtWork(w)'
  <2>1. outcome = IF settled'[<<index, attempt>>] = "timeout" THEN "transient"
                  ELSE settled'[<<index, attempt>>]
    BY <1>4
  <2>2. CASE again
    <3>1. /\ worker'[w].at = "jitter" /\ worker'[w].index = index /\ worker'[w].attempt = 2
          /\ attempt = 1
      BY <2>2, <1>1, <1>6
    <3>2. settled'[<<index, 2>>] = None
      BY <1>1, <1>4, <3>1
    <3>3. QED
      BY <2>1, <2>2, <3>1, <3>2, <1>1 DEF AtWork, Verdict
  <2>3. CASE ~again
    <3>1. /\ worker'[w].at = "store" /\ worker'[w].index = index /\ worker'[w].attempt = attempt
          /\ worker'[w].outcome = outcome
      BY <2>3, <1>1, <1>6
    <3>2. /\ attempt = 1 => settled'[<<index, 2>>] = None
          /\ attempt = 2 => settled'[<<index, 1>>] = settled[<<index, 1>>]
      BY <1>1, <1>4
    <3>3. QED
      BY <2>1, <2>3, <3>1, <3>2, <1>1 DEF AtWork, Verdict
  <2>4. QED
    BY <2>2, <2>3
<1>8. QED
  BY <1>1, <1>2, <1>3, <1>4, <1>5, <1>7, WithinOneCandidate

\* Between the calls a worker only moves on.
LEMMA MoveKeepsPool ==
  ASSUME PoolInv, NEW w \in Worker, NEW at \in {"call", "wait"},
         \/ worker[w].at = "lookup" /\ at = "call"
         \/ worker[w].at = "jitter" /\ at = "call"
         \/ worker[w].at = "call" /\ at = "wait",
         Continue(w, [worker[w] EXCEPT !.at = at]),
         UNCHANGED <<ids, nextIndex, results, stats, settled, stored>>
  PROVE  PoolInv'
<1> DEFINE state == [worker[w] EXCEPT !.at = at]
<1>1. worker[w] \in [at : {"lookup", "call", "wait", "jitter", "store", "done"},
                    index : Nat \ {0}, attempt : {1, 2}, outcome : Outcome \union {None}]
  BY DEF PoolInv, PoolTypeOK
<1>2. worker' = [worker EXCEPT ![w] = state] /\ worker'[w] = state
  BY DEF Continue, PoolInv, PoolTypeOK
<1>3. state \in [at : {"lookup", "call", "wait", "jitter", "store"}, index : {worker[w].index},
                attempt : {1, 2}, outcome : Outcome \union {None}]
  BY <1>1
<1>4. AtWork(w)'
  <2>1. /\ worker'[w].at = at /\ worker'[w].index = worker[w].index
        /\ worker'[w].attempt = worker[w].attempt
    BY <1>1, <1>2
  <2>2. AtWork(w)
    BY DEF PoolInv
  <2>3. QED
    BY <2>1, <2>2 DEF AtWork, Verdict
<1>5. worker[w].at /= "done"
  OBVIOUS
<1>6. QED
  BY <1>2, <1>3, <1>4, <1>5, WithinOneCandidate

\* Every step of the pool keeps its invariant.
LEMMA ProbeKeepsPool == PoolInv /\ ProbeNext => PoolInv'
<1> SUFFICES ASSUME PoolInv, ProbeNext PROVE PoolInv'
  OBVIOUS
<1>1. ASSUME NEW w \in Worker, Proceed(w) PROVE PoolInv'
  <2>1. CASE LookupMisses(w)
    BY <2>1, MoveKeepsPool DEF LookupMisses
  <2>2. CASE Attempt(w)
    BY <2>2, MoveKeepsPool DEF Attempt
  <2>3. CASE JitterEnds(w)
    BY <2>3, MoveKeepsPool DEF JitterEnds
  <2>4. CASE Conclude(w)
    <3> DEFINE index == worker[w].index
               outcome == worker[w].outcome
               attempt == worker[w].attempt
    <3>1. /\ worker[w].at = "store" /\ Record(w, outcome, FALSE) /\ UNCHANGED <<ids, settled>>
          /\ stored' = IF CacheOn THEN [stored EXCEPT ![index] = outcome] ELSE stored
      BY <2>4 DEF Conclude
    <3>2. /\ outcome \in Outcome /\ outcome = Verdict(<<index, attempt>>)
          /\ attempt = 1 => outcome /= "transient" /\ settled[<<index, 2>>] = None
          /\ attempt = 2 => Verdict(<<index, 1>>) = "transient"
          /\ attempt \in {1, 2} /\ index \in DOMAIN results
      BY <3>1, WorkerPlace DEF PoolInv, PoolTypeOK, AtWork
    <3>3. results'[index] = [sub |-> ids[index], outcome |-> outcome, cacheHit |-> FALSE]
      BY <3>1, <3>2 DEF Record
    <3>4. \A i : i = index => ResultIsEarned(i)'
      BY <3>1, <3>2, <3>3 DEF ResultIsEarned, Verdict
    <3>5. QED
      BY <3>1, <3>2, <3>4, RecordKeepsPool
  <2>5. QED
    BY <1>1, <2>1, <2>2, <2>3, <2>4 DEF Proceed
<1>2. ASSUME NEW w \in Worker, Timeout(w) PROVE PoolInv'
  <2>1. "timeout" /= None /\ "transient" \in Outcome
    BY DEF None, Outcome
  <2>2. QED
    BY <1>2, <2>1, ResolveKeepsPool DEF Timeout
<1>3. ASSUME NEW w \in Worker, NEW outcome \in Outcome, LookupHits(w, outcome) PROVE PoolInv'
  <2> DEFINE index == worker[w].index
  <2>1. /\ worker[w].at = "lookup" /\ Record(w, outcome, TRUE)
        /\ UNCHANGED <<ids, settled, stored>>
    BY <1>3 DEF LookupHits
  <2>2. /\ settled[<<index, 1>>] = None /\ settled[<<index, 2>>] = None
        /\ index \in DOMAIN results
    BY <2>1, WorkerPlace DEF PoolInv, PoolTypeOK, AtWork
  <2>3. results'[index] = [sub |-> ids[index], outcome |-> outcome, cacheHit |-> TRUE]
    BY <2>1, <2>2 DEF Record
  <2>4. \A i : i = index => ResultIsEarned(i)'
    BY <2>1, <2>2, <2>3 DEF ResultIsEarned
  <2>5. QED
    BY <2>1, <2>4, RecordKeepsPool
<1>4. ASSUME NEW w \in Worker, NEW call \in open, NEW response \in Response,
             Answer(w, call, response)
      PROVE  PoolInv'
  <2>1. /\ ClassifyProbeOutcome(response) \in Outcome
        /\ ClassifyProbeOutcome(response) \notin {None, "timeout"}
    BY DEF Outcome, None, ClassifyProbeOutcome
  <2>2. QED
    BY <1>4, <2>1, ResolveKeepsPool DEF Answer, Awaiting
<1>5. ASSUME NEW call \in open, LateAnswer(call) PROVE PoolInv'
  BY <1>5 DEF LateAnswer, PoolInv, PoolTypeOK, NothingIsAnticipated, AtWork, Verdict,
              ResultsAreEarned, ResultIsEarned
<1>6. QED
  BY <1>1, <1>2, <1>3, <1>4, <1>5 DEF ProbeNext

-----------------------------------------------------------------------------
(* Discovery around it. *)

\* Workers that take their first index each take their own.
LEMMA StartEstablishesPool ==
  ASSUME NEW list, nextIndex = Concurrency + 1, stats = [hits |-> 0, misses |-> 0],
         StartProbe(list)
  PROVE  PoolInv'
<1>1. /\ ids' = list /\ nextIndex' = Concurrency + 1 /\ Concurrency \in Nat
      /\ worker' = [w \in Worker |-> Take(w, list)]
      /\ results' = [i \in DOMAIN list |-> NoResult]
      /\ stored' = [i \in DOMAIN list |-> None]
      /\ settled' = [call \in (DOMAIN list) \X {1, 2} |-> None]
      /\ stats' = [hits |-> 0, misses |-> 0]
  BY ProbeAssumption DEF StartProbe
<1>2. \A w \in Worker : /\ Take(w, list) \in [at : {"lookup", "call", "done"}, index : {w},
                                              attempt : {1}, outcome : {None}]
                        /\ Take(w, list).at /= "done" => w \in DOMAIN list
  BY DEF Take
<1>3. Worker \subseteq Nat \ {0} /\ \A w \in Worker : w < Concurrency + 1
  BY <1>1 DEF Worker
<1>4. PoolTypeOK'
  BY <1>1, <1>2, <1>3 DEF PoolTypeOK
<1>5. NothingIsAnticipated'
  BY <1>1 DEF NothingIsAnticipated
<1>6. ASSUME NEW w \in Worker PROVE AtWork(w)'
  BY <1>1, <1>2, <1>3, <1>6 DEF AtWork
<1>7. ResultsAreEarned'
  <2>1. {i \in DOMAIN results' : results'[i] /= NoResult} = {}
    BY <1>1
  <2>2. Cardinality({}) = 0
    BY FS_EmptySet
  <2>3. \A v, w \in Worker : v /= w => worker'[v].index /= worker'[w].index
    BY <1>1, <1>2
  <2>4. QED
    BY <1>1, <2>1, <2>2, <2>3 DEF ResultsAreEarned
<1>8. QED
  BY <1>4, <1>5, <1>6, <1>7 DEF PoolInv

\* Before it starts, the pool has no candidates at all.
LEMMA InitEstablishesPool == Init => IInv
<1> SUFFICES ASSUME Init PROVE IInv
  OBVIOUS
<1>1. /\ ids = <<>> /\ nextIndex = Concurrency + 1 /\ Concurrency \in Nat
      /\ worker = [w \in Worker |-> Take(w, <<>>)] /\ results = <<>> /\ stored = <<>>
      /\ settled = <<>> /\ stats = [hits |-> 0, misses |-> 0]
  BY ProbeAssumption DEF Init, ProbeInit
<1>2. \A w \in Worker : Take(w, <<>>) = [at |-> "done", index |-> w, attempt |-> 1, outcome |-> None]
  BY DEF Take
<1>3. Worker \subseteq Nat \ {0} /\ \A w \in Worker : w < Concurrency + 1
  BY <1>1 DEF Worker
<1>4. PoolTypeOK
  BY <1>1, <1>2, <1>3 DEF PoolTypeOK
<1>5. NothingIsAnticipated
  BY <1>1 DEF NothingIsAnticipated
<1>6. \A w \in Worker : AtWork(w)
  BY <1>1, <1>2, <1>3 DEF AtWork
<1>7. ResultsAreEarned
  <2>1. {i \in DOMAIN results : results[i] /= NoResult} = {}
    BY <1>1
  <2>2. Cardinality({}) = 0
    BY FS_EmptySet
  <2>3. QED
    BY <1>1, <1>2, <2>1, <2>2 DEF ResultsAreEarned
<1>8. QED
  BY <1>1, <1>4, <1>5, <1>6, <1>7 DEF IInv, PoolIsFresh, PoolInv

\* What is around the pool never reaches into it.
LEMMA PoolLeftAlone == PoolInv /\ UNCHANGED probeVars => PoolInv'
BY DEF probeVars, PoolInv, PoolTypeOK, NothingIsAnticipated, AtWork, Verdict,
       ResultsAreEarned, ResultIsEarned

\* Every step of the pool keeps its invariant.
LEMMA NextKeepsPool == IInv /\ [Next]_vars => IInv'
<1> SUFFICES ASSUME IInv, [Next]_vars PROVE IInv'
  OBVIOUS
<1>1. PoolInv /\ PoolIsFresh
  BY DEF IInv
<1>2. CASE UNCHANGED probeVars /\ (phase' \in {"pick", "list", "count"} => phase \in {"pick", "list", "count"})
  BY <1>1, <1>2, PoolLeftAlone DEF IInv, PoolIsFresh, probeVars
<1>3. CASE UNCHANGED vars
  BY <1>2, <1>3 DEF vars, discoveryVars
<1>4. CASE ListSubscriptions
  BY <1>2, <1>4 DEF ListSubscriptions
<1>5. CASE SelectPassers
  BY <1>2, <1>5 DEF SelectPassers
<1>6. CASE ReportPicks
  BY <1>2, <1>6 DEF ReportPicks
<1>7. CASE CountResources
  <2>1. ASSUME NEW list, StartProbe(list), phase' = "probe" PROVE IInv'
    BY <1>1, <1>7, <2>1, StartEstablishesPool DEF CountResources, IInv, PoolIsFresh
  <2>2. \/ UNCHANGED probeVars /\ phase' \in {"refused", "done"}
        \/ \E list : StartProbe(list) /\ phase' = "probe"
    BY <1>7 DEF CountResources
  <2>3. QED
    BY <1>2, <2>1, <2>2
<1>8. CASE ProbePicks
  <2>1. CASE world.probe
    BY <1>1, <1>8, <2>1, StartEstablishesPool DEF ProbePicks, IInv, PoolIsFresh
  <2>2. CASE ~world.probe
    BY <1>2, <1>8, <2>2 DEF ProbePicks
  <2>3. QED
    BY <2>1, <2>2
<1>9. CASE ProbePool
  BY <1>1, <1>9, ProbeKeepsPool DEF ProbePool, discoveryVars, IInv, PoolIsFresh
<1>10. QED
  BY <1>3, <1>4, <1>5, <1>6, <1>7, <1>8, <1>9 DEF Next, Advance

\* The pool's invariant holds at all times.
THEOREM PoolInvariant == Spec => []IInv
<1>1. Init => IInv
  BY InitEstablishesPool
<1>2. IInv /\ [Next]_vars => IInv'
  BY NextKeepsPool
<1>3. QED
  BY <1>1, <1>2, PTL DEF Spec

\* Whatever the length of the list, the number of workers and the order in which
\* they and the server's answers come (probeBillingAccess), every result stands at
\* its own place, is what the server said in time in answer to the last attempt,
\* and is counted and cached once.
THEOREM ResultsAreAlwaysEarned == Spec => []ResultsAreEarned
<1>1. IInv => ResultsAreEarned
  BY DEF IInv, PoolInv
<1>2. QED
  BY <1>1, PoolInvariant, PTL

-----------------------------------------------------------------------------
(* Lists in order, and what is kept of them. *)

\* A strict total order on a finite set lists every member, each once.
LEMMA OrderIsComplete ==
  ASSUME NEW S, IsFiniteSet(S), NEW ahead \in [S -> SUBSET S],
         \A i \in S : i \notin ahead[i],
         \A i, j \in S : i /= j => i \in ahead[j] \/ j \in ahead[i],
         \A i, j \in S : i \in ahead[j] => ahead[i] \subseteq ahead[j]
  PROVE  LET n == Cardinality(S)
             order == InOrder(S, ahead)
         IN /\ n \in Nat /\ order \in [1..n -> S]
            /\ \A i \in S : \E k \in 1..n : order[k] = i
            /\ \A k, l \in 1..n : k < l => order[k] \in ahead[order[l]]
            /\ \A k, l \in 1..n : order[k] = order[l] => k = l
<1> DEFINE n == Cardinality(S)
           order == InOrder(S, ahead)
           place == [i \in S |-> Cardinality(ahead[i]) + 1]
<1>1. n \in Nat /\ IsFiniteSet(1..n) /\ Cardinality(1..n) = n
  BY FS_CardinalityType, FS_Interval
<1>2. ASSUME NEW i \in S
      PROVE  Cardinality(ahead[i]) \in Nat /\ IsFiniteSet(ahead[i]) /\ Cardinality(ahead[i]) < n
  <2>1. ahead[i] \in SUBSET S /\ ahead[i] /= S
    OBVIOUS
  <2>2. QED
    BY <2>1, <1>1, FS_Subset, FS_CardinalityType
<1>3. ASSUME NEW i \in S, NEW j \in S, i \in ahead[j] PROVE place[i] < place[j]
  <2>1. ahead[i] \in SUBSET ahead[j] /\ ahead[i] /= ahead[j]
    BY <1>3
  <2>2. Cardinality(ahead[i]) <= Cardinality(ahead[j]) /\ Cardinality(ahead[i]) /= Cardinality(ahead[j])
    BY <2>1, <1>2, FS_Subset
  <2>3. QED
    BY <2>2, <1>2
<1>4. \A i, j \in S : place[i] = place[j] => i = j
  <2>1. \A i \in S : place[i] \in Nat
    BY <1>2
  <2>2. QED
    BY <2>1, <1>3
<1>5. place \in [S -> 1..n]
  BY <1>1, <1>2
<1>6. place \in Injection(S, 1..n)
  BY <1>4, <1>5 DEF Injection, IsInjective
<1>7. place \in Surjection(S, 1..n)
  BY <1>1, <1>6, FS_Injection
<1>8. \A k \in 1..n : \E i \in S : place[i] = k
  BY <1>7 DEF Surjection
<1>9. ASSUME NEW k \in 1..n PROVE order[k] \in S /\ place[order[k]] = k
  <2>1. PICK i \in S : place[i] = k
    BY <1>8
  <2>2. Cardinality(ahead[i]) = k - 1
    BY <2>1, <1>1, <1>2
  <2>3. order[k] = CHOOSE j \in S : Cardinality(ahead[j]) = k - 1
    BY DEF InOrder
  <2>4. order[k] \in S /\ Cardinality(ahead[order[k]]) = k - 1
    BY <2>2, <2>3
  <2>5. QED
    BY <2>4, <1>1, <1>2
<1>10. order \in [1..n -> S]
  <2>1. order = [k \in 1..n |-> order[k]]
    BY DEF InOrder
  <2> HIDE DEF order
  <2>2. QED
    BY <2>1, <1>9
<1> HIDE DEF order, place, n
<1>11. \A i \in S : \E k \in 1..n : order[k] = i
  BY <1>4, <1>5, <1>9
<1>12. ASSUME NEW k \in 1..n, NEW l \in 1..n, k < l PROVE order[k] \in ahead[order[l]]
  <2>1. order[k] /= order[l]
    BY <1>9, <1>12, <1>1
  <2>2. CASE order[l] \in ahead[order[k]]
    BY <2>2, <1>3, <1>9, <1>12, <1>1
  <2>3. QED
    BY <2>1, <2>2, <1>9
<1>13. \A k, l \in 1..n : order[k] = order[l] => k = l
  BY <1>9
<1>14. QED
  BY <1>1, <1>10, <1>11, <1>12, <1>13 DEF order, n

\* Places in their own order.
Ascending(P) == InOrder(P, [i \in P |-> {j \in P : j < i}])

\* Which lists the places from the least to the greatest.
LEMMA AscendingOrder ==
  ASSUME NEW n \in Nat, NEW P \in SUBSET (1..n)
  PROVE  /\ Cardinality(P) \in 0..n /\ Ascending(P) \in [1..Cardinality(P) -> P]
         /\ \A i \in P : \E k \in 1..Cardinality(P) : Ascending(P)[k] = i
         /\ \A k, l \in 1..Cardinality(P) : k < l => Ascending(P)[k] < Ascending(P)[l]
         /\ \A k, l \in 1..Cardinality(P) : Ascending(P)[k] = Ascending(P)[l] => k = l
<1> DEFINE ahead == [i \in P |-> {j \in P : j < i}]
           order == InOrder(P, ahead)
           m == Cardinality(P)
<1>1. IsFiniteSet(P) /\ m \in 0..n
  <2>1. IsFiniteSet(1..n) /\ Cardinality(1..n) = n
    BY FS_Interval
  <2>2. IsFiniteSet(P) /\ Cardinality(P) <= n
    <3>1. \A T \in SUBSET (1..n) : IsFiniteSet(T) /\ Cardinality(T) <= Cardinality(1..n)
      BY <2>1, FS_Subset, Zenon
    <3>2. QED
      BY <2>1, <3>1
  <2>3. QED
    BY <2>2, FS_CardinalityType
<1>2. /\ ahead \in [P -> SUBSET P]
      /\ \A i \in P : i \notin ahead[i]
      /\ \A i, j \in P : i /= j => i \in ahead[j] \/ j \in ahead[i]
      /\ \A i, j \in P : i \in ahead[j] => ahead[i] \subseteq ahead[j]
  <2>1. \A i, j \in P : i \in ahead[j] <=> i < j
    OBVIOUS
  <2>2. ahead \in [P -> SUBSET P] /\ P \subseteq Nat
    OBVIOUS
  <2> HIDE DEF ahead
  <2>3. \A i, j, k \in P : k < i /\ i < j => k < j
    BY <2>2
  <2>4. ASSUME NEW i \in P, NEW j \in P, i \in ahead[j] PROVE ahead[i] \subseteq ahead[j]
    BY <2>1, <2>2, <2>3, <2>4
  <2>5. QED
    BY <2>1, <2>2, <2>4
<1>4. \A i, j \in P : i \in ahead[j] => i < j
  OBVIOUS
<1> HIDE DEF ahead
<1>5. /\ order \in [1..m -> P]
      /\ \A i \in P : \E k \in 1..m : order[k] = i
      /\ \A k, l \in 1..m : k < l => order[k] \in ahead[order[l]]
      /\ \A k, l \in 1..m : order[k] = order[l] => k = l
  <2>1. ASSUME NEW S, IsFiniteSet(S), NEW before \in [S -> SUBSET S],
               \A i \in S : i \notin before[i],
               \A i, j \in S : i /= j => i \in before[j] \/ j \in before[i],
               \A i, j \in S : i \in before[j] => before[i] \subseteq before[j]
        PROVE  /\ InOrder(S, before) \in [1..Cardinality(S) -> S]
               /\ \A i \in S : \E k \in 1..Cardinality(S) : InOrder(S, before)[k] = i
               /\ \A k, l \in 1..Cardinality(S) :
                    k < l => InOrder(S, before)[k] \in before[InOrder(S, before)[l]]
               /\ \A k, l \in 1..Cardinality(S) :
                    InOrder(S, before)[k] = InOrder(S, before)[l] => k = l
    BY <2>1, OrderIsComplete
  <2>2. QED
    BY <1>1, <1>2, <2>1
<1>6. order = Ascending(P)
  BY DEF Ascending, ahead
<1> HIDE DEF order, m
<1>7. \A k, l \in 1..m : k < l => order[k] < order[l]
  BY <1>4, <1>5
<1>8. QED
  BY <1>1, <1>5, <1>6, <1>7 DEF m

\* No member twice.
Distinct(list) == \A i, j \in DOMAIN list : list[i] = list[j] => i = j

\* Never more than before.
Descending(list, count) == \A k, l \in DOMAIN list : k < l => count[list[k]] >= count[list[l]]

\* What is kept of a list is what stands at the places, in the list's order.
LEMMA KeptInOrder ==
  ASSUME NEW T, NEW list \in Seq(T), NEW P \in SUBSET DOMAIN list
  PROVE  /\ Kept(list, P) \in Seq(T)
         /\ Len(Kept(list, P)) <= Len(list)
         /\ Range(Kept(list, P)) = {list[i] : i \in P}
         /\ Distinct(list) => Distinct(Kept(list, P))
         /\ \A k, l \in DOMAIN Kept(list, P) : k < l =>
              \E i, j \in P : i < j /\ Kept(list, P)[k] = list[i] /\ Kept(list, P)[l] = list[j]
<1> DEFINE n == Len(list)
           m == Cardinality(P)
           kept == Kept(list, P)
<1>1. n \in Nat /\ DOMAIN list = 1..n /\ \A i \in 1..n : list[i] \in T
  OBVIOUS
<1> DEFINE order == Ascending(P)
<1>2. /\ m \in 0..n /\ order \in [1..m -> P]
      /\ \A i \in P : \E k \in 1..m : order[k] = i
      /\ \A k, l \in 1..m : k < l => order[k] < order[l]
      /\ \A k, l \in 1..m : order[k] = order[l] => k = l
  <2> HIDE DEF n
  <2>1. n \in Nat /\ P \in SUBSET (1..n)
    BY <1>1
  <2>2. QED
    BY <2>1, AscendingOrder
<1>3. kept = [k \in 1..m |-> list[order[k]]]
  BY DEF Kept, Ascending, InOrder
<1> HIDE DEF kept, m, n, order
<1>4. DOMAIN kept = 1..m /\ m \in Nat /\ m <= n
  BY <1>1, <1>2, <1>3
<1>5. \A k \in 1..m : order[k] \in P /\ kept[k] = list[order[k]] /\ kept[k] \in T
  BY <1>1, <1>2, <1>3
<1>6. kept \in Seq(T) /\ Len(kept) = m
  BY <1>2, <1>3, <1>4, <1>5
<1>7. Range(kept) = {list[i] : i \in P}
  <2>1. ASSUME NEW i \in P PROVE list[i] \in Range(kept)
    <3>1. PICK k \in 1..m : order[k] = i
      BY <1>2
    <3>2. k \in DOMAIN kept /\ kept[k] = list[i]
      BY <3>1, <1>4, <1>5
    <3>3. QED
      BY <3>2 DEF Range
  <2>2. \A x \in Range(kept) : \E i \in P : x = list[i]
    BY <1>4, <1>5 DEF Range
  <2>3. QED
    BY <2>1, <2>2
<1>8. Distinct(list) => Distinct(kept)
  BY <1>1, <1>2, <1>4, <1>5 DEF Distinct
<1>9. \A k, l \in 1..m : k < l => \E i, j \in P : i < j /\ kept[k] = list[i] /\ kept[l] = list[j]
  <2> SUFFICES ASSUME NEW k \in 1..m, NEW l \in 1..m, k < l
               PROVE  \E i, j \in P : i < j /\ kept[k] = list[i] /\ kept[l] = list[j]
    OBVIOUS
  <2>1. /\ order[k] \in P /\ order[l] \in P /\ order[k] < order[l]
        /\ kept[k] = list[order[k]] /\ kept[l] = list[order[l]]
    BY <1>2, <1>5
  <2>2. QED
    BY <2>1
<1>10. QED
  BY <1>4, <1>6, <1>7, <1>8, <1>9 DEF kept, n

\* A prefix is as long as it can be, and nothing comes before it.
LEMMA PrefixIsFirst ==
  ASSUME NEW T, NEW list \in Seq(T), NEW n \in Nat
  PROVE  /\ Prefix(list, n) \in Seq(T)
         /\ Len(Prefix(list, n)) = IF n < Len(list) THEN n ELSE Len(list)
         /\ \A k \in DOMAIN Prefix(list, n) : k \in DOMAIN list /\ Prefix(list, n)[k] = list[k]
         /\ \A k \in DOMAIN list : k <= n => list[k] \in Range(Prefix(list, n))
         /\ Range(Prefix(list, n)) \subseteq Range(list)
<1> DEFINE m == IF n < Len(list) THEN n ELSE Len(list)
           first == Prefix(list, n)
<1>1. Len(list) \in Nat /\ DOMAIN list = 1..Len(list) /\ \A k \in DOMAIN list : list[k] \in T
  OBVIOUS
<1>2. m \in Nat /\ m <= Len(list) /\ m <= n /\ \A k \in 1..Len(list) : k <= n => k \in 1..m
  BY <1>1
<1>3. first = [k \in 1..m |-> list[k]]
  BY DEF Prefix
<1> HIDE DEF m, first
<1>4. DOMAIN first = 1..m /\ \A k \in 1..m : k \in DOMAIN list /\ first[k] = list[k] /\ first[k] \in T
  BY <1>1, <1>2, <1>3
<1>5. first \in Seq(T) /\ Len(first) = m
  BY <1>2, <1>3, <1>4
<1>6. \A k \in DOMAIN list : k <= n => list[k] \in Range(first)
  BY <1>1, <1>2, <1>4 DEF Range
<1>7. Range(first) \subseteq Range(list)
  BY <1>4 DEF Range
<1>8. QED
  BY <1>4, <1>5, <1>6, <1>7 DEF m, first

-----------------------------------------------------------------------------
(* The ranking, and the best of it. *)

\* Ranking rearranges the list so that no count is above an earlier one.
LEMMA RankedDescends ==
  ASSUME NEW list \in Seq(Sub), NEW count \in [Sub -> Nat]
  PROVE  /\ Ranked(list, count) \in Seq(Sub) /\ DOMAIN Ranked(list, count) = DOMAIN list
         /\ Range(Ranked(list, count)) = Range(list)
         /\ Distinct(list) => Distinct(Ranked(list, count))
         /\ Descending(Ranked(list, count), count)
<1> DEFINE n == Len(list)
           Before(i, j) == count[list[i]] > count[list[j]]
                           \/ (count[list[i]] = count[list[j]] /\ i < j)
           ahead == [j \in DOMAIN list |-> {i \in DOMAIN list : Before(i, j)}]
           order == InOrder(DOMAIN list, ahead)
           ranked == Ranked(list, count)
<1>1. /\ n \in Nat /\ DOMAIN list = 1..n /\ \A i \in 1..n : list[i] \in Sub /\ count[list[i]] \in Nat
      /\ IsFiniteSet(DOMAIN list) /\ Cardinality(DOMAIN list) = n
  <2>1. n \in Nat /\ DOMAIN list = 1..n /\ \A i \in 1..n : list[i] \in Sub
    OBVIOUS
  <2>2. IsFiniteSet(1..n) /\ Cardinality(1..n) = n
    BY <2>1, FS_Interval
  <2>3. QED
    BY <2>1, <2>2
<1>2. ranked = [k \in DOMAIN list |-> list[order[k]]]
  BY DEF Ranked
<1>3. \A i, j \in DOMAIN list : i \in ahead[j] <=> Before(i, j)
  OBVIOUS
<1>4. ahead \in [DOMAIN list -> SUBSET DOMAIN list]
  OBVIOUS
<1>5. /\ \A i \in DOMAIN list : ~Before(i, i)
      /\ \A i, j \in DOMAIN list : i /= j => Before(i, j) \/ Before(j, i)
      /\ \A i, j, k \in DOMAIN list : Before(k, i) /\ Before(i, j) => Before(k, j)
      /\ \A i, j \in DOMAIN list : Before(i, j) => count[list[i]] >= count[list[j]]
  BY <1>1
<1> HIDE DEF ahead, Before
<1>6. /\ \A i \in DOMAIN list : i \notin ahead[i]
      /\ \A i, j \in DOMAIN list : i /= j => i \in ahead[j] \/ j \in ahead[i]
      /\ \A i, j \in DOMAIN list : i \in ahead[j] => ahead[i] \subseteq ahead[j]
  BY <1>3, <1>4, <1>5
<1>7. /\ order \in [1..n -> DOMAIN list]
      /\ \A i \in DOMAIN list : \E k \in 1..n : order[k] = i
      /\ \A k, l \in 1..n : k < l => order[k] \in ahead[order[l]]
      /\ \A k, l \in 1..n : order[k] = order[l] => k = l
  <2>1. ASSUME NEW S, IsFiniteSet(S), NEW before \in [S -> SUBSET S],
               \A i \in S : i \notin before[i],
               \A i, j \in S : i /= j => i \in before[j] \/ j \in before[i],
               \A i, j \in S : i \in before[j] => before[i] \subseteq before[j]
        PROVE  /\ InOrder(S, before) \in [1..Cardinality(S) -> S]
               /\ \A i \in S : \E k \in 1..Cardinality(S) : InOrder(S, before)[k] = i
               /\ \A k, l \in 1..Cardinality(S) :
                    k < l => InOrder(S, before)[k] \in before[InOrder(S, before)[l]]
               /\ \A k, l \in 1..Cardinality(S) :
                    InOrder(S, before)[k] = InOrder(S, before)[l] => k = l
    BY <2>1, OrderIsComplete
  <2> HIDE DEF n
  <2> DEFINE places == DOMAIN list
  <2>2. IsFiniteSet(places) /\ Cardinality(places) = n /\ ahead \in [places -> SUBSET places]
    BY <1>1, <1>4
  <2>3. /\ \A i \in places : i \notin ahead[i]
        /\ \A i, j \in places : i /= j => i \in ahead[j] \/ j \in ahead[i]
        /\ \A i, j \in places : i \in ahead[j] => ahead[i] \subseteq ahead[j]
    BY <1>6
  <2> HIDE DEF n, places
  <2>4. /\ InOrder(places, ahead) \in [1..Cardinality(places) -> places]
        /\ \A i \in places : \E k \in 1..Cardinality(places) : InOrder(places, ahead)[k] = i
        /\ \A k, l \in 1..Cardinality(places) :
             k < l => InOrder(places, ahead)[k] \in ahead[InOrder(places, ahead)[l]]
        /\ \A k, l \in 1..Cardinality(places) :
             InOrder(places, ahead)[k] = InOrder(places, ahead)[l] => k = l
    BY <2>1, <2>2, <2>3
  <2>5. QED
    BY <2>2, <2>4 DEF places
<1> HIDE DEF order, ranked
<1>8. ranked \in Seq(Sub) /\ DOMAIN ranked = DOMAIN list /\ \A k \in 1..n : ranked[k] = list[order[k]]
  BY <1>1, <1>2, <1>7
<1>9. Range(ranked) = Range(list)
  <2>1. ASSUME NEW i \in DOMAIN list PROVE \E k \in DOMAIN ranked : ranked[k] = list[i]
    <3>1. PICK k \in 1..n : order[k] = i
      BY <1>7
    <3>2. k \in DOMAIN ranked /\ ranked[k] = list[i]
      BY <1>1, <1>8, <3>1
    <3>3. QED
      BY <3>2
  <2>2. ASSUME NEW k \in DOMAIN ranked PROVE \E i \in DOMAIN list : ranked[k] = list[i]
    <3>1. k \in 1..n /\ order[k] \in DOMAIN list
      BY <1>1, <1>7, <1>8
    <3>2. QED
      BY <1>8, <3>1
  <2>3. QED
    BY <2>1, <2>2 DEF Range
<1>10. Distinct(list) => Distinct(ranked)
  BY <1>1, <1>7, <1>8 DEF Distinct
<1>11. Descending(ranked, count)
  <2>1. ASSUME NEW k \in 1..n, NEW l \in 1..n, k < l PROVE count[ranked[k]] >= count[ranked[l]]
    <3>1. order[k] \in DOMAIN list /\ order[l] \in DOMAIN list /\ order[k] \in ahead[order[l]]
      BY <1>7, <2>1
    <3>2. Before(order[k], order[l])
      BY <1>3, <3>1
    <3>3. count[list[order[k]]] >= count[list[order[l]]]
      BY <1>5, <3>1, <3>2
    <3>4. QED
      BY <1>8, <3>3
  <2>2. QED
    BY <1>1, <1>8, <2>1 DEF Descending
<1>12. QED
  BY <1>8, <1>9, <1>10, <1>11 DEF ranked

\* The eligible are those with resources, or all if nobody has any; in rank order.
LEMMA EligibleAreTheBest ==
  ASSUME NEW list \in Seq(Sub), NEW count \in [Sub -> Nat], Distinct(list)
  PROVE  /\ Eligible(list, count) \in Seq(Sub)
         /\ Distinct(Eligible(list, count)) /\ Descending(Eligible(list, count), count)
         /\ Range(Eligible(list, count)) \subseteq Range(list)
         /\ list /= <<>> => Eligible(list, count) /= <<>>
         /\ \A s \in Range(list) : count[s] > 0 => s \in Range(Eligible(list, count))
         /\ \A t \in Range(Eligible(list, count)) :
              count[t] = 0 => \A s \in Range(list) : count[s] = 0
<1> DEFINE ranked == Ranked(list, count)
           nonZero == {k \in DOMAIN ranked : count[ranked[k]] > 0}
<1>1. /\ ranked \in Seq(Sub) /\ DOMAIN ranked = DOMAIN list /\ Range(ranked) = Range(list)
      /\ Distinct(ranked) /\ Descending(ranked, count)
  BY RankedDescends
<1>2. Eligible(list, count) = IF nonZero /= {} THEN Kept(ranked, nonZero) ELSE ranked
  BY DEF Eligible
<1>3. nonZero \in SUBSET DOMAIN ranked
  OBVIOUS
<1>4. \A k \in DOMAIN ranked : k \in nonZero <=> count[ranked[k]] > 0
  OBVIOUS
<1> HIDE DEF ranked, nonZero
<1>5. \A s \in Range(list) : (\E k \in DOMAIN ranked : s = ranked[k]) /\ count[s] \in Nat
  <2>1. \A s \in Range(ranked) : \E k \in DOMAIN ranked : s = ranked[k]
    BY DEF Range
  <2>2. \A s \in Range(ranked) : s \in Sub
    BY <1>1, <2>1
  <2>3. QED
    BY <1>1, <2>1, <2>2
<1>6. CASE nonZero = {}
  <2>1. \A s \in Range(list) : count[s] = 0
    BY <1>4, <1>5, <1>6
  <2>2. list /= <<>> => ranked /= <<>>
    BY <1>1
  <2>3. QED
    BY <1>1, <1>2, <1>6, <2>1, <2>2
<1>7. CASE nonZero /= {}
  <2> DEFINE kept == Kept(ranked, nonZero)
  <2>1. /\ kept \in Seq(Sub) /\ Range(kept) = {ranked[i] : i \in nonZero} /\ Distinct(kept)
        /\ \A k, l \in DOMAIN kept : k < l =>
             \E i, j \in nonZero : i < j /\ kept[k] = ranked[i] /\ kept[l] = ranked[j]
    BY <1>1, <1>3, KeptInOrder
  <2>2. Eligible(list, count) = kept
    BY <1>2, <1>7
  <2> HIDE DEF kept
  <2>3. Descending(kept, count)
    BY <1>1, <1>3, <2>1 DEF Descending
  <2>4. \A s \in Range(list) : count[s] > 0 => s \in Range(kept)
    BY <1>4, <1>5, <2>1
  <2>5. \A t \in Range(kept) : t \in Range(list) /\ count[t] > 0
    <3>1. ASSUME NEW i \in nonZero PROVE ranked[i] \in Range(list) /\ count[ranked[i]] > 0
      <4>1. ranked[i] \in Range(ranked)
        BY <1>3, <3>1 DEF Range
      <4>2. QED
        BY <1>1, <1>3, <1>4, <3>1, <4>1
    <3>2. QED
      BY <2>1, <3>1
  <2>6. kept /= <<>>
    <3>1. PICK i \in nonZero : TRUE
      BY <1>7
    <3>2. ranked[i] \in Range(kept)
      BY <2>1
    <3>3. PICK k \in DOMAIN kept : TRUE
      BY <3>2 DEF Range
    <3>4. QED
      BY <3>3
  <2>7. QED
    BY <2>1, <2>2, <2>3, <2>4, <2>5, <2>6
<1>8. QED
  BY <1>6, <1>7

\* Nobody is passed over for a subscription with fewer resources.
LEMMA FirstAreTheBest ==
  ASSUME NEW list \in Seq(Sub), NEW count \in [Sub -> Nat], Distinct(list), NEW n \in Nat,
         NEW s \in Range(list), NEW t \in Range(Prefix(Eligible(list, count), n)),
         s \notin Range(Prefix(Eligible(list, count), n))
  PROVE  ~(count[s] > count[t])
<1> DEFINE e == Eligible(list, count)
           first == Prefix(e, n)
<1>1. /\ e \in Seq(Sub) /\ Descending(e, count) /\ Range(e) \subseteq Range(list)
      /\ \A x \in Range(list) : count[x] > 0 => x \in Range(e)
  BY EligibleAreTheBest
<1>2. /\ DOMAIN e \subseteq Nat
      /\ \A k \in DOMAIN e : e[k] \in Sub
      /\ \A x \in Range(list) : x \in Sub
  BY <1>1 DEF Range
<1> HIDE DEF e
<1>3. /\ first \in Seq(Sub) /\ Len(first) = IF n < Len(e) THEN n ELSE Len(e)
      /\ \A k \in DOMAIN first : k \in DOMAIN e /\ first[k] = e[k]
      /\ \A k \in DOMAIN e : k <= n => e[k] \in Range(first)
  BY <1>1, PrefixIsFirst
<1>4. /\ s \in Range(list) /\ t \in Range(first) /\ s \notin Range(first)
  BY DEF e
<1> HIDE DEF first
<1>5. PICK l \in DOMAIN first : t = first[l]
  BY <1>4 DEF Range
<1>6. l \in DOMAIN e /\ t = e[l] /\ l <= n /\ count[t] \in Nat /\ count[s] \in Nat
  BY <1>2, <1>3, <1>4, <1>5
<1>7. ASSUME count[s] > count[t] PROVE FALSE
  <2>1. s \in Range(e)
    BY <1>1, <1>4, <1>6, <1>7
  <2>2. PICK k \in DOMAIN e : s = e[k]
    BY <2>1 DEF Range
  <2>3. ~(k <= n)
    BY <1>3, <1>4, <2>2
  <2>4. l < k
    BY <1>2, <1>6, <2>2, <2>3
  <2>5. count[e[l]] >= count[e[k]]
    BY <1>1, <1>6, <2>2, <2>4 DEF Descending
  <2>6. QED
    BY <1>6, <1>7, <2>2, <2>5
<1>8. QED
  BY <1>7 DEF e

\* What stands at a place that is kept is kept.
LEMMA KeptAre ==
  ASSUME NEW T, NEW list \in Seq(T), NEW P \in SUBSET DOMAIN list, NEW i \in P
  PROVE  list[i] \in Range(Kept(list, P))
<1>1. Range(Kept(list, P)) = {list[j] : j \in P}
  BY KeptInOrder
<1>2. QED
  BY <1>1

\* Nobody is passed over for one with fewer resources but those taken out.
LEMMA BestThatPass ==
  ASSUME NEW list \in Seq(Sub), NEW count \in [Sub -> Nat], Distinct(list),
         NEW size \in Nat, NEW n \in Nat,
         NEW pool, pool = Prefix(Eligible(list, count), size),
         NEW P \in SUBSET DOMAIN pool,
         NEW s \in Range(list), NEW t \in Range(Prefix(Kept(pool, P), n)),
         s \notin Range(Prefix(Kept(pool, P), n)), count[s] > count[t]
  PROVE  s \in Range(Kept(pool, (DOMAIN pool) \ P))
<1> DEFINE e == Eligible(list, count)
           passers == Kept(pool, P)
           first == Prefix(passers, n)
<1>1. /\ e \in Seq(Sub) /\ Descending(e, count) /\ Distinct(e) /\ Range(e) \subseteq Range(list)
  BY EligibleAreTheBest
<1>2. \A k \in DOMAIN e : e[k] \in Sub /\ k \in Nat
  BY <1>1
<1> HIDE DEF e
<1>3. /\ pool \in Seq(Sub)
      /\ \A k \in DOMAIN pool : k \in DOMAIN e /\ pool[k] = e[k]
  BY <1>1, PrefixIsFirst DEF e
<1>4. /\ passers \in Seq(Sub) /\ Range(passers) = {pool[i] : i \in P}
      /\ \A k, l \in DOMAIN passers : k < l =>
           \E i, j \in P : i < j /\ passers[k] = pool[i] /\ passers[l] = pool[j]
  BY <1>3, KeptInOrder
<1> HIDE DEF passers
<1>5. /\ first \in Seq(Sub) /\ Len(first) = IF n < Len(passers) THEN n ELSE Len(passers)
      /\ \A k \in DOMAIN first : k \in DOMAIN passers /\ first[k] = passers[k]
      /\ \A k \in DOMAIN passers : k <= n => passers[k] \in Range(first)
      /\ Range(first) \subseteq Range(passers)
  BY <1>4, PrefixIsFirst
<1>6. t \in Range(first) /\ s \notin Range(first)
  BY DEF passers
<1> HIDE DEF first
<1>7. PICK l \in DOMAIN first : t = first[l]
  BY <1>6 DEF Range
<1>8. l \in DOMAIN passers /\ t = passers[l] /\ l <= n /\ l \in Nat
  BY <1>5, <1>7
<1>9. PICK j \in P : t = pool[j]
  BY <1>4, <1>5, <1>6
<1>10. t \in Range(pool)
  BY <1>9 DEF Range
<1>11. s \in Range(pool)
  BY <1>10, FirstAreTheBest
<1>12. PICK k \in DOMAIN pool : s = pool[k]
  BY <1>11 DEF Range
<1>13. ASSUME k \in P PROVE FALSE
  <2>1. s \in Range(passers)
    BY <1>4, <1>12, <1>13
  <2>2. PICK m \in DOMAIN passers : s = passers[m]
    BY <2>1 DEF Range
  <2>3. ~(m <= n) /\ m \in Nat
    BY <1>4, <1>5, <1>6, <2>2
  <2>4. l < m
    BY <1>8, <2>3
  <2>5. PICK a \in P, b \in P : a < b /\ passers[l] = pool[a] /\ passers[m] = pool[b]
    BY <1>4, <1>8, <2>2, <2>4
  <2>6. a \in DOMAIN e /\ b \in DOMAIN e /\ t = e[a] /\ s = e[b]
    BY <1>3, <1>8, <2>2, <2>5
  <2>7. count[e[a]] >= count[e[b]]
    BY <1>1, <2>5, <2>6 DEF Descending
  <2>8. count[t] \in Nat /\ count[s] \in Nat
    BY <1>2, <2>6
  <2>9. QED
    BY <2>6, <2>7, <2>8
<1>14. (DOMAIN pool) \ P \in SUBSET DOMAIN pool /\ k \in (DOMAIN pool) \ P
  BY <1>12, <1>13
<1> DEFINE Q == (DOMAIN pool) \ P
<1>15. Q \in SUBSET DOMAIN pool /\ k \in Q /\ pool \in Seq(Sub)
  BY <1>3, <1>14
<1> HIDE DEF Q
<1>16. pool[k] \in Range(Kept(pool, Q))
  BY <1>15, KeptAre
<1>17. QED
  BY <1>12, <1>16 DEF Q

-----------------------------------------------------------------------------
(* The listing, read in any of its shapes. *)

\* The least of some places.
LEMMA LeastPlace ==
  ASSUME NEW P \in SUBSET Nat, NEW k \in P, \A j \in P : k <= j
  PROVE  Min(P) = k
<1>1. \E x \in P : \A y \in P : x <= y
  OBVIOUS
<1> DEFINE m == Min(P)
<1>2. m \in P /\ \A y \in P : m <= y
  BY <1>1 DEF Min
<1> HIDE DEF m
<1>3. m \in Nat /\ m <= k /\ k <= m /\ k \in Nat
  BY <1>2
<1>4. m = k
  BY <1>3
<1>5. QED
  BY <1>4 DEF m

\* The greatest of some places.
LEMMA GreatestPlace ==
  ASSUME NEW P \in SUBSET Nat, NEW k \in P, \A j \in P : j <= k
  PROVE  Max(P) = k
<1>1. \E x \in P : \A y \in P : x >= y
  OBVIOUS
<1> DEFINE m == Max(P)
<1>2. m \in P /\ \A y \in P : m >= y
  BY <1>1 DEF Max
<1> HIDE DEF m
<1>3. m \in Nat /\ m <= k /\ k <= m /\ k \in Nat
  BY <1>2
<1>4. m = k
  BY <1>3
<1>5. QED
  BY <1>4 DEF m

\* The first field that the object has is the one that is read.
LEMMA FoundField ==
  ASSUME NEW value, NEW names, NEW kinds, NEW n \in Nat, DOMAIN names = 1..n, NEW k \in 1..n,
         Has(value, names[k]), value.fields[names[k]].is \in kinds,
         \A j \in 1..n : j < k => ~Has(value, names[j])
  PROVE  FirstField(value, names, kinds) = value.fields[names[k]]
<1> DEFINE Field(j) == value.fields[names[j]]
           usable == {j \in DOMAIN names : Has(value, names[j]) /\ Field(j).is \in kinds}
<1>1. FirstField(value, names, kinds) = IF usable = {} THEN Null ELSE Field(Min(usable))
  BY DEF FirstField
<1>2. usable \in SUBSET Nat /\ k \in usable /\ \A j \in usable : k <= j
  OBVIOUS
<1> HIDE DEF usable
<1>3. Min(usable) = k
  BY <1>2, LeastPlace
<1>4. QED
  BY <1>1, <1>2, <1>3

\* The same, for a place that is known.
LEMMA FoundAt ==
  ASSUME NEW value, NEW names, NEW kinds, NEW n, NEW k, n \in Nat, DOMAIN names = 1..n, k \in 1..n,
         NEW name, names[k] = name, NEW found, value.fields[name] = found,
         Has(value, name), found.is \in kinds,
         \A j \in 1..n : j < k => ~Has(value, names[j])
  PROVE  FirstField(value, names, kinds) = found
BY FoundField

\* An object with none of the fields reads as null.
LEMMA MissingField ==
  ASSUME NEW value, NEW names, NEW kinds, \A j \in DOMAIN names : ~Has(value, names[j])
  PROVE  FirstField(value, names, kinds) = Null
BY DEF FirstField

\* The names ListedItem tries, in order.
IdFields == <<"subscriptionId", "id", "subscription_id">>
NameFields == <<"subscriptionName", "displayName", "display_name", "name">>

\* Whatever the shape, an item is read as what the server wrote.
LEMMA ListedItemIs ==
  ASSUME NEW shape \in ListingShapes, NEW sub, NEW name \in Name
  PROVE  ListedItem(ListingItem(shape, sub, name)) = [sub |-> sub, name |-> name]
<1> DEFINE nameField == IF shape = "live" THEN "subscriptionName" ELSE "displayName"
           fields == {"subscriptionId"} \union (IF shape = "arm" THEN {"id"} ELSE {})
                                  \union (IF name = Unnamed THEN {} ELSE {nameField})
           f == [field \in fields |-> Text(CASE field = "subscriptionId" -> sub
                                          [] field = "id" -> "a resource path"
                                          [] OTHER -> name)]
           item == ListingItem(shape, sub, name)
<1>1. item = [is |-> "object", fields |-> f]
  BY DEF ListingItem, Object
<1>2. /\ DOMAIN f = fields /\ f["subscriptionId"] = [is |-> "text", text |-> sub]
      /\ name /= Unnamed => f[nameField] = [is |-> "text", text |-> name]
  BY DEF Text
<1> HIDE DEF item, f
<1>3. item.is = "object" /\ item.fields = f
  BY <1>1
<1>4. \A x : Has(item, x) <=> x \in fields
  BY <1>2, <1>3 DEF Has
<1>5. FirstField(item, IdFields, NotNull) = f["subscriptionId"]
  <2> DEFINE n == 3
             k == 1
  <2>1. /\ n \in Nat /\ DOMAIN IdFields = 1..n /\ k \in 1..n /\ IdFields[k] = "subscriptionId"
        /\ \A j \in 1..n : ~(j < k)
    BY DEF IdFields
  <2>2. Has(item, "subscriptionId") /\ f["subscriptionId"].is \in NotNull
    BY <1>2, <1>4 DEF NotNull
  <2> HIDE DEF n, k
  <2>3. QED
    BY <1>3, <2>1, <2>2, FoundAt
<1>6. FirstField(item, NameFields, NotNull) = IF name = Unnamed THEN Null ELSE f[nameField]
  <2> DEFINE n == 4
             k == IF shape = "live" THEN 1 ELSE 2
  <2>1. /\ n \in Nat /\ DOMAIN NameFields = 1..n /\ k \in 1..n /\ NameFields[k] = nameField
        /\ \A j \in 1..n : j < k => NameFields[j] = "subscriptionName" /\ nameField = "displayName"
        /\ \A j \in 1..n : NameFields[j] \in {"subscriptionName", "displayName", "display_name", "name"}
    BY DEF NameFields
  <2>2. CASE name = Unnamed
    <3>1. \A j \in DOMAIN NameFields : ~Has(item, NameFields[j])
      BY <1>4, <2>1, <2>2
    <3>2. QED
      BY <2>2, <3>1, MissingField
  <2>3. CASE name /= Unnamed
    <3>1. Has(item, nameField) /\ f[nameField].is \in NotNull
      BY <1>2, <1>4, <2>3 DEF NotNull
    <3>2. \A j \in 1..n : j < k => ~Has(item, NameFields[j])
      BY <1>4, <2>1
    <3> HIDE DEF n, k, nameField, fields
    <3>3. FirstField(item, NameFields, NotNull) = f[nameField]
      BY <1>3, <2>1, <3>1, <3>2, FoundAt
    <3>4. QED
      BY <2>3, <3>3
  <2>4. QED
    BY <2>2, <2>3
<1>7. FirstField(item, IdFields, NotNull) = [is |-> "text", text |-> sub]
  BY <1>2, <1>5
<1>8. FirstField(item, NameFields, NotNull)
        = IF name = Unnamed THEN [is |-> "null"] ELSE [is |-> "text", text |-> name]
  BY <1>2, <1>6 DEF Null
<1> DEFINE id == FirstField(item, IdFields, NotNull)
           found == FirstField(item, NameFields, NotNull)
<1>9. ListedItem(item) = IF IsText(item) THEN [sub |-> item.text, name |-> Unnamed]
                         ELSE IF ~IsText(id) THEN NoEntry
                         ELSE [sub |-> id.text, name |-> IF IsText(found) THEN found.text ELSE Unnamed]
  BY DEF ListedItem, IdFields, NameFields
<1> HIDE DEF id, found
<1>10. ~IsText(item) /\ IsText(id) /\ id.text = sub
  BY <1>3, <1>7 DEF IsText, id
<1>11. (IF IsText(found) THEN found.text ELSE Unnamed) = name
  BY <1>8 DEF IsText, found
<1>12. QED
  BY <1>9, <1>10, <1>11 DEF item

\* The function ExtractSubscriptions recurses with.
IsUnwrapping(g, value) ==
  g = [depth \in 0..Nesting |-> IF depth = 0 THEN value ELSE Unwrapped(g[depth - 1])]

\* Two wrappers come off; what is bare stays as it is at any further depth.
LEMMA WrappersComeOff ==
  ASSUME NEW value, NEW bare, Unwrapped(Unwrapped(value)) = bare, Unwrapped(bare) = bare
  PROVE  ExtractSubscriptions(value)
           = IF bare.is = "list" THEN ListedItems(bare.items)
             ELSE IF Has(bare, "rows") /\ bare.fields["rows"].is = "list"
             THEN ListedRows(bare.fields["rows"].items)
             ELSE <<>>
<1> DEFINE h == [depth \in 0..4 |-> IF depth = 0 THEN value
                                    ELSE IF depth = 1 THEN Unwrapped(value) ELSE bare]
           u == CHOOSE g : IsUnwrapping(g, value)
<1>1. IsUnwrapping(h, value)
  <2>1. ASSUME NEW depth \in 0..4 PROVE h[depth] = IF depth = 0 THEN value ELSE Unwrapped(h[depth - 1])
    <3>1. depth \in {0, 1, 2, 3, 4}
      OBVIOUS
    <3>2. h[0] = value /\ h[1] = Unwrapped(value) /\ h[2] = bare /\ h[3] = bare /\ h[4] = bare
      OBVIOUS
    <3> HIDE DEF h
    <3>3. QED
      BY <3>1, <3>2
  <2>2. QED
    BY <2>1 DEF IsUnwrapping, Nesting
<1>2. IsUnwrapping(u, value)
  BY <1>1
<1>3. u[4] = bare
  <2> HIDE DEF u
  <2>1. /\ u[0] = value /\ u[1] = Unwrapped(u[0]) /\ u[2] = Unwrapped(u[1])
        /\ u[3] = Unwrapped(u[2]) /\ u[4] = Unwrapped(u[3])
    BY <1>2 DEF IsUnwrapping, Nesting
  <2>2. QED
    BY <2>1
<1>4. u[Nesting] = bare
  BY <1>3 DEF Nesting
<1>5. ExtractSubscriptions(value)
        = IF u[Nesting].is = "list" THEN ListedItems(u[Nesting].items)
          ELSE IF Has(u[Nesting], "rows") /\ u[Nesting].fields["rows"].is = "list"
          THEN ListedRows(u[Nesting].fields["rows"].items)
          ELSE <<>>
  BY DEF ExtractSubscriptions, IsUnwrapping
<1> HIDE DEF u
<1>6. QED
  BY <1>4, <1>5

\* Without a wrapper, a value stands for itself.
LEMMA NothingToUnwrap ==
  ASSUME NEW value, ~Has(value, "subscriptions"), ~Has(value, "value"), ~Has(value, "data")
  PROVE  Unwrapped(value) = value
BY DEF Unwrapped

\* With one wrapper, a value is what that holds.
LEMMA FirstWrapper ==
  ASSUME NEW value, NEW name \in {"subscriptions", "value", "data"}, NEW held,
         Has(value, name), value.fields[name] = held,
         \A other \in {"subscriptions", "value", "data"} : other /= name => ~Has(value, other)
  PROVE  Unwrapped(value) = held
<1> DEFINE wrappers == <<"subscriptions", "value", "data">>
           places == {k \in DOMAIN wrappers : Has(value, wrappers[k])}
           k == CASE name = "subscriptions" -> 1 [] name = "value" -> 2 [] OTHER -> 3
<1>1. DOMAIN wrappers = 1..3 /\ wrappers[1] = "subscriptions" /\ wrappers[2] = "value" /\ wrappers[3] = "data"
  OBVIOUS
<1>2. Unwrapped(value) = IF places = {} THEN value ELSE value.fields[wrappers[Min(places)]]
  BY DEF Unwrapped
<1> HIDE DEF wrappers
<1>3. /\ k \in 1..3 /\ wrappers[k] = name
      /\ \A j \in 1..3 :
           j /= k => wrappers[j] \in {"subscriptions", "value", "data"} /\ wrappers[j] /= name
  BY <1>1
<1> HIDE DEF k
<1>4. \A j \in places : j \in 1..3 /\ Has(value, wrappers[j])
  BY <1>1
<1>5. k \in places
  BY <1>1, <1>3
<1>6. places \in SUBSET Nat /\ \A j \in places : k <= j
  BY <1>1, <1>3, <1>4
<1> HIDE DEF places
<1>7. Min(places) = k
  BY <1>5, <1>6, LeastPlace
<1>8. QED
  BY <1>2, <1>3, <1>5, <1>7

\* Lists are not wrapped.
LEMMA ListsAreBare ==
  ASSUME NEW items
  PROVE  Unwrapped(List(items)) = List(items) /\ List(items).is = "list" /\ List(items).items = items
<1>1. List(items).is = "list" /\ List(items).items = items
  BY DEF List
<1>2. \A name : ~Has(List(items), name)
  BY <1>1 DEF Has
<1>3. QED
  BY <1>1, <1>2, NothingToUnwrap

\* An object with one field, a wrapper, is what that holds.
LEMMA WrapperHolds ==
  ASSUME NEW name \in {"subscriptions", "value", "data"}, NEW held, NEW fields,
         DOMAIN fields = {name}, fields[name] = held
  PROVE  Unwrapped(Object(fields)) = held
<1>1. Object(fields).is = "object" /\ Object(fields).fields = fields
  BY DEF Object
<1>2. \A other : Has(Object(fields), other) <=> other = name
  BY <1>1 DEF Has
<1>3. QED
  BY <1>1, <1>2, FirstWrapper

\* What is read in the listing's answer, shape by shape.
Extracted(shape, subs, names) ==
  LET items == [k \in DOMAIN subs |-> ListingItem(shape, subs[k], names[subs[k]])]
      given == [k \in DOMAIN subs |-> Text(subs[k])]
  IN CASE shape \in {"array", "seeded", "arm"} -> ListedItems(items)
       [] shape = "strings" -> ListedItems(given)
       [] shape = "live" -> ListedItems(<<Null>> \o items)
       [] shape = "table" -> ListedRows([k \in DOMAIN given |-> List(<<given[k]>>)])
       [] shape = "unreadable" -> <<>>

\* The wrappers of every shape come off (extractSubscriptions).
LEMMA ExtractIs ==
  ASSUME NEW shape \in ListingShapes, NEW subs, NEW names
  PROVE  ExtractSubscriptions(ListingAnswer(shape, subs, names)) = Extracted(shape, subs, names)
<1> DEFINE items == [k \in DOMAIN subs |-> ListingItem(shape, subs[k], names[subs[k]])]
           given == [k \in DOMAIN subs |-> Text(subs[k])]
           table == [k \in DOMAIN given |-> List(<<given[k]>>)]
           answer == ListingAnswer(shape, subs, names)
<1>1. answer = CASE shape = "array" -> List(items)
                 [] shape = "strings" -> List(given)
                 [] shape = "live" -> Object([data |-> List(<<Null>> \o items)])
                 [] shape = "seeded" -> Object([subscriptions |-> Object([value |-> List(items)])])
                 [] shape = "arm" -> Object([value |-> List(items)])
                 [] shape = "table" -> Object([rows |-> List(table)])
                 [] OTHER -> Null
  BY DEF ListingAnswer
<1>2. shape \in {"array", "strings", "live", "seeded", "arm", "table", "unreadable"}
  BY DEF ListingShapes
<1> HIDE DEF answer, items, given, table
<1>3. ASSUME NEW list, Unwrapped(Unwrapped(answer)) = List(list)
      PROVE  ExtractSubscriptions(answer) = ListedItems(list)
  <2> DEFINE bare == List(list)
  <2>1. Unwrapped(bare) = bare /\ bare.is = "list" /\ bare.items = list
    BY ListsAreBare
  <2> HIDE DEF bare
  <2>2. Unwrapped(Unwrapped(answer)) = bare
    BY <1>3 DEF bare
  <2>3. QED
    BY <2>1, <2>2, WrappersComeOff
<1>4. ASSUME shape = "array" PROVE ExtractSubscriptions(answer) = ListedItems(items)
  BY <1>1, <1>3, <1>4, ListsAreBare
<1>5. ASSUME shape = "strings" PROVE ExtractSubscriptions(answer) = ListedItems(given)
  BY <1>1, <1>3, <1>5, ListsAreBare
<1>6. ASSUME shape \in {"live", "arm"}
      PROVE ExtractSubscriptions(answer) = ListedItems(IF shape = "live" THEN <<Null>> \o items ELSE items)
  <2> DEFINE name == IF shape = "live" THEN "data" ELSE "value"
             list == IF shape = "live" THEN <<Null>> \o items ELSE items
             fields == IF shape = "live" THEN [data |-> List(list)] ELSE [value |-> List(list)]
  <2>1. answer = Object(fields) /\ DOMAIN fields = {name} /\ fields[name] = List(list)
    BY <1>1, <1>6
  <2>2. name \in {"subscriptions", "value", "data"}
    OBVIOUS
  <2> HIDE DEF name, fields, list
  <2>3. Unwrapped(answer) = List(list)
    BY <2>1, <2>2, WrapperHolds
  <2>4. ExtractSubscriptions(answer) = ListedItems(list)
    BY <1>3, <2>3, ListsAreBare
  <2>5. QED
    BY <1>6, <2>4 DEF list
<1>7. ASSUME shape = "seeded" PROVE ExtractSubscriptions(answer) = ListedItems(items)
  <2> DEFINE inner == [value |-> List(items)]
             outer == [subscriptions |-> Object(inner)]
  <2>1. answer = Object(outer)
    BY <1>1, <1>7
  <2>2. DOMAIN outer = {"subscriptions"} /\ outer["subscriptions"] = Object(inner)
    OBVIOUS
  <2>3. DOMAIN inner = {"value"} /\ inner["value"] = List(items)
    OBVIOUS
  <2> HIDE DEF inner, outer
  <2>4. Unwrapped(answer) = Object(inner) /\ Unwrapped(Object(inner)) = List(items)
    BY <2>1, <2>2, <2>3, WrapperHolds
  <2>5. QED
    BY <1>3, <1>7, <2>4
<1>8. ASSUME shape = "table" PROVE ExtractSubscriptions(answer) = ListedRows(table)
  <2> DEFINE fields == [rows |-> List(table)]
             bare == Object(fields)
  <2>1. fields.rows = List(table) /\ DOMAIN fields = {"rows"} /\ fields["rows"] = List(table)
    OBVIOUS
  <2> HIDE DEF fields
  <2>2. bare.is = "object" /\ bare.fields = fields /\ answer = bare
    BY <1>1, <1>8 DEF Object, fields
  <2> HIDE DEF bare
  <2>3. \A x : Has(bare, x) <=> x = "rows"
    BY <2>1, <2>2 DEF Has
  <2>4. Unwrapped(bare) = bare
    BY <2>3, NothingToUnwrap
  <2>5. bare.fields["rows"].is = "list" /\ bare.fields["rows"].items = table
    BY <2>1, <2>2, ListsAreBare
  <2>6. ExtractSubscriptions(bare) = ListedRows(table)
    BY <2>2, <2>3, <2>4, <2>5, WrappersComeOff
  <2>7. QED
    BY <2>2, <2>6
<1>9. ASSUME shape = "unreadable" PROVE ExtractSubscriptions(answer) = <<>>
  <2> DEFINE bare == Null
  <2>1. answer = bare /\ bare.is = "null"
    BY <1>1, <1>9 DEF Null
  <2> HIDE DEF bare
  <2>2. \A x : ~Has(bare, x)
    BY <2>1 DEF Has
  <2>3. Unwrapped(bare) = bare
    BY <2>2, NothingToUnwrap
  <2>4. ExtractSubscriptions(bare) = <<>>
    BY <2>1, <2>2, <2>3, WrappersComeOff
  <2>5. QED
    BY <1>9, <2>1, <2>4
<1>10. ExtractSubscriptions(answer) =
         CASE shape \in {"array", "seeded", "arm"} -> ListedItems(items)
           [] shape = "strings" -> ListedItems(given)
           [] shape = "live" -> ListedItems(<<Null>> \o items)
           [] shape = "table" -> ListedRows(table)
           [] shape = "unreadable" -> <<>>
  BY <1>2, <1>4, <1>5, <1>6, <1>7, <1>8, <1>9
<1>11. QED
  BY <1>10 DEF answer, items, given, table, Extracted

-----------------------------------------------------------------------------
(* Who is listed, and under which name. *)

\* Candidate lists are sequences of distinct subscriptions.
LEMMA CandidatesAreLists ==
  ASSUME NEW list \in Candidates
  PROVE  list \in Seq(Sub) /\ Distinct(list)
<1>1. PICK n \in 0..Cardinality(Sub) : list \in [1..n -> Sub]
  BY DEF Candidates
<1>2. n \in Nat
  BY <1>1, DiscoveryAssumption, FS_CardinalityType
<1>3. QED
  BY <1>1, <1>2 DEF Candidates, Distinct

\* A list of entries lists exactly these subscriptions, under these names.
Lists(all, subs, called) ==
  /\ all \in Seq([sub : Sub, name : Name])
  /\ \A i, j \in DOMAIN all : all[i].sub = all[j].sub => i = j
  /\ \A i \in DOMAIN all : all[i].name = called[all[i].sub]
  /\ Range(Subs(all)) = subs

\* A sequence is one of any set that has its elements.
LEMMA SequencesOfMembers ==
  ASSUME NEW S, NEW T, NEW list \in Seq(T), \A k \in DOMAIN list : list[k] \in S
  PROVE  list \in Seq(S)
<1>1. Len(list) \in Nat /\ DOMAIN list = 1..Len(list) /\ list = [k \in 1..Len(list) |-> list[k]]
  OBVIOUS
<1> DEFINE n == Len(list)
<1> HIDE DEF n
<1>2. n \in Nat /\ list \in [1..n -> S]
  BY <1>1 DEF n
<1>3. QED
  BY <1>2

\* Entries that may follow one that is unusable.
LEMMA EntriesAreListed ==
  ASSUME NEW subs \in Seq(Sub), NEW called \in [Sub -> Name], NEW off \in {0, 1},
         NEW m \in Nat, m = Len(subs) + off, NEW entries, off = 1 => entries[1] = NoEntry,
         \A k \in DOMAIN subs : entries[k + off] = [sub |-> subs[k], name |-> called[subs[k]]],
         NEW i \in 1..m
  PROVE  entries[i] \in [sub : Sub \union {Null}, name : Name]
<1> DEFINE n == Len(subs)
<1>1. n \in Nat /\ DOMAIN subs = 1..n /\ \A k \in 1..n : subs[k] \in Sub
  OBVIOUS
<1>2. (off = 1 /\ i = 1) \/ (i - off \in 1..n /\ i = (i - off) + off)
  BY <1>1
<1>3. CASE off = 1 /\ i = 1
  BY <1>3 DEF NoEntry, Name
<1>4. CASE i - off \in 1..n /\ i = (i - off) + off
  <2> DEFINE k == i - off
  <2>1. k \in 1..n /\ i = k + off
    BY <1>4
  <2> HIDE DEF k
  <2>2. entries[i] = [sub |-> subs[k], name |-> called[subs[k]]] /\ subs[k] \in Sub /\ called[subs[k]] \in Name
    BY <1>1, <2>1
  <2>3. QED
    BY <2>2
<1>5. QED
  BY <1>2, <1>3, <1>4

\* The usable entries list the subscriptions, whether or not the first is unusable.
LEMMA UsableEntries ==
  ASSUME NEW subs \in Candidates, NEW called \in [Sub -> Name], NEW off \in {0, 1},
         NEW m \in Nat, m = Len(subs) + off,
         NEW X, NEW entries \in [1..m -> X], off = 1 => entries[1] = NoEntry,
         \A k \in DOMAIN subs : entries[k + off] = [sub |-> subs[k], name |-> called[subs[k]]]
  PROVE  Lists(Usable(entries), Range(subs), called)
<1> DEFINE n == Len(subs)
           T == [sub : Sub \union {Null}, name : Name]
           P == {k \in DOMAIN entries : entries[k] /= NoEntry}
           all == Usable(entries)
<1>0. subs \in Seq(Sub)
  BY CandidatesAreLists
<1>1. n \in Nat /\ DOMAIN subs = 1..n /\ (\A k \in 1..n : subs[k] \in Sub)
      /\ \A i, j \in 1..n : subs[i] = subs[j] => i = j
  BY CandidatesAreLists DEF Distinct
<1>2. \A k \in 1..n : /\ k + off \in DOMAIN entries
                      /\ entries[k + off] = [sub |-> subs[k], name |-> called[subs[k]]]
                      /\ entries[k + off].sub = subs[k] /\ entries[k + off].name = called[subs[k]]
                      /\ subs[k] \in Sub /\ called[subs[k]] \in Name
  <2>1. DOMAIN entries = 1..(n + off)
    OBVIOUS
  <2>2. QED
    BY <1>1, <2>1
<1>3. NoEntry.sub = Null /\ NoEntry \in T /\ Null \notin Sub
  BY DiscoveryAssumption DEF NoEntry, Name
<1>4. \A i \in DOMAIN entries : i - off \in 1..n \/ (off = 1 /\ i = 1)
  BY <1>1
<1>5. \A i \in DOMAIN entries : i - off \in 1..n => i = (i - off) + off
  BY <1>1
<1>6. \A i \in DOMAIN entries : i \in P <=> i - off \in 1..n
  <2>1. ASSUME NEW i \in DOMAIN entries, i - off \in 1..n PROVE entries[i] /= NoEntry
    <3>1. entries[i].sub \in Sub
      BY <1>2, <1>5, <2>1
    <3>2. QED
      BY <3>1, <1>3
  <2>2. ASSUME NEW i \in DOMAIN entries, ~(i - off \in 1..n) PROVE entries[i] = NoEntry
    BY <1>4, <2>2
  <2>3. QED
    BY <2>1, <2>2
<1>7. entries \in Seq(T)
  <2>1. \A i \in 1..m : entries[i] \in T
    BY <1>0, EntriesAreListed
  <2> HIDE DEF T
  <2>2. entries \in [1..m -> T]
    BY <2>1
  <2>3. QED
    BY <2>2
<1>8. P \in SUBSET DOMAIN entries /\ all = Kept(entries, P)
  BY DEF Usable
<1> HIDE DEF P, all, T, n
<1>9. /\ all \in Seq(T) /\ Range(all) = {entries[i] : i \in P}
      /\ \A k, l \in DOMAIN all : k < l =>
           \E i, j \in P : i < j /\ all[k] = entries[i] /\ all[l] = entries[j]
  BY <1>7, <1>8, KeptInOrder
<1>10. \A i \in P :
         i - off \in 1..n /\ entries[i] = [sub |-> subs[i - off], name |-> called[subs[i - off]]]
  BY <1>2, <1>5, <1>6, <1>8
<1>11. \A k \in DOMAIN all : \E j \in 1..n : all[k] = [sub |-> subs[j], name |-> called[subs[j]]]
  <2>1. ASSUME NEW k \in DOMAIN all PROVE \E j \in 1..n : all[k] = [sub |-> subs[j], name |-> called[subs[j]]]
    <3>1. all[k] \in Range(all)
      BY DEF Range
    <3>2. PICK i \in P : all[k] = entries[i]
      BY <3>1, <1>9
    <3>3. QED
      BY <3>2, <1>10
  <2>2. QED
    BY <2>1
<1>12. \A j \in 1..n : \E k \in DOMAIN all : all[k].sub = subs[j]
  <2>1. ASSUME NEW j \in 1..n PROVE \E k \in DOMAIN all : all[k].sub = subs[j]
    <3>1. j + off \in P
      <4>1. (j + off) - off = j /\ j + off \in DOMAIN entries
        BY <1>1, <1>2
      <4>2. QED
        BY <4>1, <1>6
    <3>2. entries[j + off] \in Range(all)
      BY <3>1, <1>9
    <3>3. QED
      BY <3>2, <1>2 DEF Range
  <2>2. QED
    BY <2>1
<1>13. all \in Seq([sub : Sub, name : Name])
  <2>1. \A k \in DOMAIN all : all[k] \in [sub : Sub, name : Name]
    BY <1>1, <1>2, <1>11
  <2>2. QED
    BY <1>9, <2>1, SequencesOfMembers
<1>14. \A i \in DOMAIN all : all[i].name = called[all[i].sub]
  BY <1>11
<1>15. \A k, l \in DOMAIN all : all[k].sub = all[l].sub => k = l
  <2>1. ASSUME NEW k \in DOMAIN all, NEW l \in DOMAIN all, k < l PROVE all[k].sub /= all[l].sub
    <3>1. PICK i \in P, j \in P : i < j /\ all[k] = entries[i] /\ all[l] = entries[j]
      BY <1>9, <2>1
    <3>2. i \in Nat /\ j \in Nat
      BY <1>1, <1>8 DEF n
    <3>3. i - off /= j - off /\ i - off \in 1..n /\ j - off \in 1..n
      <4>1. i - off /= j - off
        BY <3>1, <3>2
      <4>2. QED
        BY <4>1, <1>10
    <3>4. all[k].sub = subs[i - off] /\ all[l].sub = subs[j - off]
      <4>1. /\ entries[i] = [sub |-> subs[i - off], name |-> called[subs[i - off]]]
            /\ entries[j] = [sub |-> subs[j - off], name |-> called[subs[j - off]]]
        BY <1>10
      <4>2. QED
        BY <3>1, <4>1
    <3>5. QED
      BY <3>3, <3>4, <1>1
  <2>2. DOMAIN all \subseteq Nat
    BY <1>9
  <2>3. QED
    BY <2>1, <2>2
<1>16. Range(Subs(all)) = Range(subs)
  <2>1. \A x \in Range(Subs(all)) : \E k \in DOMAIN all : x = all[k].sub
    BY DEF Range, Subs
  <2>2. \A x \in Range(subs) : \E j \in 1..n : x = subs[j]
    BY <1>1 DEF Range
  <2>3. \A k \in DOMAIN all : all[k].sub \in Range(subs)
    BY <1>1, <1>11 DEF Range
  <2>4. \A k \in DOMAIN all : all[k].sub \in Range(Subs(all))
    BY DEF Range, Subs
  <2>5. QED
    <3>1. \A x \in Range(Subs(all)) : x \in Range(subs)
      BY <2>1, <2>3
    <3>2. \A x \in Range(subs) : x \in Range(Subs(all))
      BY <2>2, <2>4, <1>12
    <3>3. QED
      BY <3>1, <3>2
<1>17. QED
  BY <1>13, <1>14, <1>15, <1>16 DEF Lists, all

\* The case without an unusable entry.
LEMMA EntriesInPlace ==
  ASSUME NEW subs \in Candidates, NEW called \in [Sub -> Name], NEW n, n = Len(subs),
         NEW X, NEW entries \in [1..n -> X],
         \A k \in 1..n : entries[k] = [sub |-> subs[k], name |-> called[subs[k]]]
  PROVE  Lists(Usable(entries), Range(subs), called)
<1> DEFINE off == 0
<1>1. n \in Nat /\ DOMAIN subs = 1..n
  BY CandidatesAreLists
<1>2. off \in {0, 1} /\ off /= 1 /\ n = Len(subs) + off /\ \A k \in 1..n : k + off = k
  BY <1>1
<1> HIDE DEF off
<1>3. QED
  BY <1>1, <1>2, UsableEntries

\* The case with one.
LEMMA EntriesAfterNone ==
  ASSUME NEW subs \in Candidates, NEW called \in [Sub -> Name], NEW n, n = Len(subs),
         NEW X, NEW entries \in [1..(n + 1) -> X], entries[1] = NoEntry,
         \A k \in 1..n : entries[k + 1] = [sub |-> subs[k], name |-> called[subs[k]]]
  PROVE  Lists(Usable(entries), Range(subs), called)
<1> DEFINE off == 1
           m == n + off
<1>1. n \in Nat /\ DOMAIN subs = 1..n
  BY CandidatesAreLists
<1>2. /\ off \in {0, 1} /\ m = Len(subs) + off /\ m \in Nat /\ entries \in [1..m -> X]
      /\ \A k \in DOMAIN subs : entries[k + off] = [sub |-> subs[k], name |-> called[subs[k]]]
  BY <1>1
<1> HIDE DEF off, m
<1>3. QED
  BY <1>1, <1>2, UsableEntries

\* What the listing calls a subscription.
Called(shape, names) == [sub \in Sub |-> IF shape \in NamingShapes THEN names[sub] ELSE Unnamed]

\* Whatever its shape, the listing is read as what the server listed; what is not
\* understood lists nobody.
LEMMA ListingIsUnderstood ==
  ASSUME NEW shape \in ListingShapes, NEW subs \in Candidates, NEW names \in [Sub -> Name]
  PROVE  IF shape = "unreadable"
         THEN ExtractSubscriptions(ListingAnswer(shape, subs, names)) = <<>>
         ELSE Lists(ExtractSubscriptions(ListingAnswer(shape, subs, names)), Range(subs), Called(shape, names))
<1> DEFINE items == [k \in DOMAIN subs |-> ListingItem(shape, subs[k], names[subs[k]])]
           given == [k \in DOMAIN subs |-> Text(subs[k])]
           table == [k \in DOMAIN given |-> List(<<given[k]>>)]
           called == Called(shape, names)
           n == Len(subs)
           all == ExtractSubscriptions(ListingAnswer(shape, subs, names))
<1>1. subs \in Seq(Sub) /\ n \in Nat /\ DOMAIN subs = 1..n /\ \A k \in 1..n : subs[k] \in Sub
  BY CandidatesAreLists
<1>2. called \in [Sub -> Name] /\ \A s \in Sub : called[s] = IF shape \in NamingShapes THEN names[s] ELSE Unnamed
  BY DEF Called, Name
<1>3. all = CASE shape \in {"array", "seeded", "arm"} -> ListedItems(items)
              [] shape = "strings" -> ListedItems(given)
              [] shape = "live" -> ListedItems(<<Null>> \o items)
              [] shape = "table" -> ListedRows(table)
              [] shape = "unreadable" -> <<>>
  <2>1. all = Extracted(shape, subs, names)
    BY ExtractIs
  <2> HIDE DEF all
  <2>2. QED
    BY <2>1, Zenon DEF Extracted
<1>4. shape \in {"array", "strings", "live", "seeded", "arm", "table", "unreadable"}
  BY DEF ListingShapes
<1> HIDE DEF called, all
<1>5. \A k \in 1..n : names[subs[k]] \in Name
  BY <1>1
<1>6. \A k \in 1..n : ListedItem(items[k]) = [sub |-> subs[k], name |-> names[subs[k]]]
  BY <1>1, <1>5, ListedItemIs
<1>7. CASE shape \in {"array", "seeded", "arm"}
  <2> DEFINE entries == [k \in DOMAIN items |-> ListedItem(items[k])]
             X == {entries[k] : k \in 1..n}
  <2>1. DOMAIN items = 1..n
    BY <1>1
  <2>2. \A k \in 1..n : entries[k] = [sub |-> subs[k], name |-> called[subs[k]]]
    BY <1>1, <1>2, <1>6, <1>7 DEF NamingShapes
  <2>3. all = Usable(entries)
    BY <1>3, <1>7 DEF ListedItems
  <2> HIDE DEF items
  <2>4. entries \in [1..n -> X]
    BY <2>1
  <2> HIDE DEF entries, X
  <2>5. Lists(Usable(entries), Range(subs), called)
    BY <1>2, <2>2, <2>4, EntriesInPlace
  <2>6. QED
    BY <1>7, <2>3, <2>5 DEF all, called
<1>8. CASE shape = "live"
  <2> DEFINE list == <<Null>> \o items
             entries == [k \in DOMAIN list |-> ListedItem(list[k])]
             X == {entries[k] : k \in 1..(n + 1)}
  <2>1. DOMAIN list = 1..(n + 1) /\ list[1] = Null /\ \A k \in 1..n : list[k + 1] = items[k]
    <3>1. items \in Seq({items[k] : k \in 1..n}) /\ Len(items) = n
      BY <1>1
    <3> HIDE DEF items
    <3>2. QED
      BY <1>1, <3>1
  <2>2. ListedItem(Null) = NoEntry
    <3> DEFINE null == Null
    <3>1. null.is = "null"
      BY DEF Null
    <3> HIDE DEF null
    <3>2. \A x : ~Has(null, x)
      BY <3>1 DEF Has
    <3>3. FirstField(null, <<"subscriptionId", "id", "subscription_id">>, NotNull) = Null
      BY <3>2, MissingField
    <3>4. QED
      BY <3>1, <3>3 DEF ListedItem, IsText, null
  <2> HIDE DEF list
  <2>3. entries[1] = NoEntry
    BY <1>1, <2>1, <2>2
  <2>4. \A k \in 1..n : entries[k + 1] = [sub |-> subs[k], name |-> called[subs[k]]]
    BY <1>1, <1>2, <1>6, <1>8, <2>1 DEF NamingShapes
  <2>5. all = Usable(entries)
    BY <1>3, <1>8 DEF ListedItems, list
  <2>6. entries \in [1..(n + 1) -> X]
    BY <2>1
  <2> HIDE DEF entries, X
  <2>7. Lists(Usable(entries), Range(subs), called)
    BY <1>2, <2>3, <2>4, <2>6, EntriesAfterNone
  <2>8. QED
    BY <1>8, <2>5, <2>7 DEF all, called
<1>9. CASE shape \in {"strings", "table"}
  <2> DEFINE entries == IF shape = "strings" THEN [k \in DOMAIN given |-> ListedItem(given[k])]
                        ELSE [k \in DOMAIN table |-> ListedRow(table[k])]
             X == {entries[k] : k \in 1..n}
  <2>1. DOMAIN given = 1..n /\ DOMAIN table = 1..n
    BY <1>1
  <2>2. \A k \in 1..n : entries[k] = [sub |-> subs[k], name |-> Unnamed]
    BY <1>1, <1>9 DEF ListedItem, ListedRow, IsText, Text, List
  <2>3. \A k \in 1..n : entries[k] = [sub |-> subs[k], name |-> called[subs[k]]]
    BY <1>1, <1>2, <1>9, <2>2 DEF NamingShapes
  <2>4. all = Usable(entries)
    BY <1>3, <1>9 DEF ListedItems, ListedRows
  <2> HIDE DEF given, table
  <2>5. entries \in [1..n -> X]
    BY <2>1
  <2> HIDE DEF entries, X
  <2>6. Lists(Usable(entries), Range(subs), called)
    BY <1>2, <2>3, <2>5, EntriesInPlace
  <2>7. QED
    BY <1>9, <2>4, <2>6 DEF all, called
<1>10. CASE shape = "unreadable"
  BY <1>3, <1>10 DEF all
<1>11. QED
  BY <1>4, <1>7, <1>8, <1>9, <1>10

\* The name filter leaves those whose name matches.
LEMMA FilteredLists ==
  ASSUME NEW all, NEW subs, NEW called, Lists(all, subs, called)
  PROVE  Lists(ApplyNameFilter(all), {s \in subs : called[s] = "wanted"}, called)
<1> DEFINE T == [sub : Sub, name : Name]
           P == {k \in DOMAIN all : all[k].name = "wanted"}
           kept == ApplyNameFilter(all)
<1>1. /\ all \in Seq(T) /\ Range(Subs(all)) = subs
      /\ \A i, j \in DOMAIN all : all[i].sub = all[j].sub => i = j
      /\ \A i \in DOMAIN all : all[i].name = called[all[i].sub]
  BY DEF Lists
<1>2. P \in SUBSET DOMAIN all /\ kept = Kept(all, P)
  BY DEF ApplyNameFilter
<1>3. \A k \in P : k \in DOMAIN all /\ all[k].name = "wanted"
  OBVIOUS
<1>4. \A k \in DOMAIN all : all[k].name = "wanted" => k \in P
  OBVIOUS
<1> HIDE DEF P, kept, T
<1>5. /\ kept \in Seq(T) /\ Range(kept) = {all[i] : i \in P}
      /\ \A k, l \in DOMAIN kept : k < l =>
           \E i, j \in P : i < j /\ kept[k] = all[i] /\ kept[l] = all[j]
  BY <1>1, <1>2, KeptInOrder
<1>6. \A k \in DOMAIN kept : \E i \in P : kept[k] = all[i]
  <2>1. \A k \in DOMAIN kept : kept[k] \in Range(kept)
    BY DEF Range
  <2>2. QED
    BY <2>1, <1>5
<1>7. \A i \in P : \E k \in DOMAIN kept : kept[k] = all[i]
  <2>1. \A i \in P : all[i] \in Range(kept)
    BY <1>5
  <2>2. \A x \in Range(kept) : \E k \in DOMAIN kept : kept[k] = x
    BY DEF Range
  <2>3. QED
    BY <2>1, <2>2
<1>8. \A k, l \in DOMAIN kept : kept[k].sub = kept[l].sub => k = l
  <2>1. ASSUME NEW k \in DOMAIN kept, NEW l \in DOMAIN kept, k < l PROVE kept[k].sub /= kept[l].sub
    <3>1. PICK i \in P, j \in P : i < j /\ kept[k] = all[i] /\ kept[l] = all[j]
      BY <1>5, <2>1
    <3>2. i \in DOMAIN all /\ j \in DOMAIN all /\ i /= j
      BY <1>1, <1>3, <3>1
    <3>3. QED
      BY <1>1, <3>1, <3>2
  <2>2. DOMAIN kept \subseteq Nat
    BY <1>5
  <2>3. QED
    BY <2>1, <2>2
<1>9. \A k \in DOMAIN kept : kept[k].name = called[kept[k].sub]
  BY <1>1, <1>3, <1>6
<1>10. Range(Subs(kept)) = {s \in subs : called[s] = "wanted"}
  <2>1. \A list, x : x \in Range(Subs(list)) <=> \E k \in DOMAIN list : x = list[k].sub
    BY DEF Range, Subs
  <2>2. ASSUME NEW x \in Range(Subs(kept)) PROVE x \in subs /\ called[x] = "wanted"
    <3>1. PICK k \in DOMAIN kept : x = kept[k].sub
      BY <2>1
    <3>2. PICK i \in P : kept[k] = all[i]
      BY <1>6
    <3>3. QED
      BY <1>1, <1>3, <2>1, <3>1, <3>2
  <2>3. ASSUME NEW x \in subs, called[x] = "wanted" PROVE x \in Range(Subs(kept))
    <3>1. PICK i \in DOMAIN all : x = all[i].sub
      BY <1>1, <2>1
    <3>2. i \in P
      BY <1>1, <1>4, <2>3, <3>1
    <3>3. QED
      BY <1>7, <2>1, <3>1, <3>2
  <2>4. QED
    BY <2>2, <2>3
<1>11. QED
  BY <1>5, <1>8, <1>9, <1>10 DEF Lists, kept, T

-----------------------------------------------------------------------------
(* The counts, read in any of their shapes. *)

\* A finite set as a sequence of its members.
LEMMA SetsAsSequences ==
  ASSUME NEW S, IsFiniteSet(S)
  PROVE  /\ SetToSeq(S) \in [1..Cardinality(S) -> S] /\ Cardinality(S) \in Nat
         /\ \A x \in S : \E k \in 1..Cardinality(S) : SetToSeq(S)[k] = x
         /\ \A k, l \in 1..Cardinality(S) : SetToSeq(S)[k] = SetToSeq(S)[l] => k = l
<1> DEFINE n == Cardinality(S)
           list == SetToSeq(S)
<1>1. n \in Nat /\ \E f : f \in Bijection(1..n, S)
  BY FS_CardinalityType DEF ExistsBijection
<1>2. \E f \in [1..n -> S] : IsInjective(f)
  BY <1>1 DEF Bijection, Injection
<1>3. list \in [1..n -> S] /\ IsInjective(list)
  BY <1>2 DEF SetToSeq
<1> HIDE DEF list, n
<1>4. list \in Injection(1..n, S)
  BY <1>3 DEF Injection
<1>5. IsFiniteSet(1..n) /\ Cardinality(1..n) = Cardinality(S)
  BY <1>1, FS_Interval DEF n
<1>6. list \in Surjection(1..n, S)
  BY <1>4, <1>5, FS_Injection
<1>7. \A x \in S : \E k \in 1..n : list[k] = x
  BY <1>6 DEF Surjection
<1>8. QED
  BY <1>1, <1>3, <1>7 DEF IsInjective, list, n

\* Pairs that give each member of S its count, once.
Pairing(pairs, subs, n, S, count) ==
  /\ n \in Nat /\ subs \in [1..n -> S]
  /\ \A x \in S : \E k \in 1..n : subs[k] = x
  /\ \A k, l \in 1..n : subs[k] = subs[l] => k = l
  /\ DOMAIN pairs = 1..n
  /\ \A k \in 1..n : pairs[k] = <<Text(subs[k]), Number(count[subs[k]])>>

\* Such pairs are read as the counts they give.
LEMMA CountMapIs ==
  ASSUME NEW pairs, NEW subs, NEW n, NEW S, NEW count, Pairing(pairs, subs, n, S, count)
  PROVE  DOMAIN CountMap(pairs) = S /\ \A s \in S : CountMap(pairs)[s] = count[s]
<1>0. /\ n \in Nat /\ subs \in [1..n -> S]
      /\ \A x \in S : \E k \in 1..n : subs[k] = x
      /\ \A k, l \in 1..n : subs[k] = subs[l] => k = l
      /\ DOMAIN pairs = 1..n
      /\ \A k \in 1..n : pairs[k] = <<Text(subs[k]), Number(count[subs[k]])>>
  BY DEF Pairing
<1> DEFINE usable == {k \in DOMAIN pairs : IsText(pairs[k][1]) /\ IsNumber(pairs[k][2])}
           Rows(sub) == {k \in usable : pairs[k][1].text = sub}
           D == {pairs[k][1].text : k \in usable}
<1>1. \A k \in 1..n : /\ pairs[k][1].is = "text" /\ pairs[k][1].text = subs[k]
                      /\ pairs[k][2].is = "number" /\ pairs[k][2].number = count[subs[k]]
  BY <1>0 DEF Text, Number
<1>2. usable = 1..n
  BY <1>0, <1>1 DEF IsText, IsNumber
<1>3. CountMap(pairs) = [sub \in D |-> pairs[Max(Rows(sub))][2].number]
  BY DEF CountMap
<1> HIDE DEF usable
<1>4. D = S
  <2>1. \A x \in D : x \in S
    BY <1>0, <1>1, <1>2
  <2>2. \A x \in S : x \in D
    BY <1>0, <1>1, <1>2
  <2>3. QED
    BY <2>1, <2>2
<1> HIDE DEF D
<1>5. ASSUME NEW s \in S PROVE pairs[Max(Rows(s))][2].number = count[s]
  <2>1. PICK k \in 1..n : subs[k] = s
    BY <1>0
  <2>2. \A j \in Rows(s) : j \in 1..n /\ subs[j] = s
    BY <1>0, <1>1, <1>2
  <2>3. k \in Rows(s) /\ \A j \in Rows(s) : j = k
    BY <1>0, <1>1, <1>2, <2>1, <2>2
  <2> DEFINE R == Rows(s)
  <2> HIDE DEF Rows, R
  <2>4. R \in SUBSET Nat /\ k \in R /\ \A j \in R : j <= k
    BY <1>0, <2>2, <2>3 DEF R
  <2>5. Max(R) = k
    BY <2>4, GreatestPlace
  <2>6. QED
    BY <1>1, <2>1, <2>5 DEF R
<1> HIDE DEF Rows
<1>6. QED
  BY <1>3, <1>4, <1>5

\* The names ReadRowObject tries, in order.
IdKeys == <<"subscriptionId", "subscription_id">>
CountKeys == <<"resource_count", "count_", "count">>

\* A row as "array" or "data" has it, by the names of its fields.
RowFieldsAre(row, fields, idKey, countKey, id, count) ==
  /\ row.is = "object" /\ row.fields = fields /\ DOMAIN fields = {idKey, countKey}
  /\ fields[idKey] = id /\ fields[countKey] = count

\* Either pair of field names is read.
LEMMA RowObjectIsRead ==
  ASSUME NEW row, NEW fields, NEW idKey, NEW countKey, NEW id, NEW count,
         \/ idKey = "subscriptionId" /\ countKey = "resource_count"
         \/ idKey = "subscription_id" /\ countKey = "count_",
         RowFieldsAre(row, fields, idKey, countKey, id, count), id.is = "text", count.is = "number"
  PROVE  ReadRowObject(row) = <<id, count>>
<1>1. /\ \A x : Has(row, x) <=> x \in {idKey, countKey}
      /\ row.fields[idKey] = id /\ row.fields[countKey] = count
  BY DEF RowFieldsAre, Has
<1>2. FirstField(row, IdKeys, {"text"}) = id
  <2> DEFINE n == 2
             k == IF idKey = "subscriptionId" THEN 1 ELSE 2
  <2>1. /\ n \in Nat /\ DOMAIN IdKeys = 1..n /\ k \in 1..n /\ IdKeys[k] = idKey
        /\ \A j \in 1..n : j < k => IdKeys[j] = "subscriptionId" /\ idKey /= "subscriptionId"
    BY DEF IdKeys
  <2> HIDE DEF n, k
  <2>2. \A j \in 1..n : j < k => ~Has(row, IdKeys[j])
    BY <1>1, <2>1
  <2>3. id.is \in {"text"} /\ Has(row, idKey)
    BY <1>1
  <2>4. QED
    BY <1>1, <2>1, <2>2, <2>3, FoundAt
<1>3. FirstField(row, CountKeys, {"number"}) = count
  <2> DEFINE n == 3
             k == IF countKey = "resource_count" THEN 1 ELSE 2
  <2>1. /\ n \in Nat /\ DOMAIN CountKeys = 1..n /\ k \in 1..n /\ CountKeys[k] = countKey
        /\ \A j \in 1..n : j < k => CountKeys[j] = "resource_count" /\ countKey /= "resource_count"
    BY DEF CountKeys
  <2> HIDE DEF n, k
  <2>2. \A j \in 1..n : j < k => ~Has(row, CountKeys[j])
    BY <1>1, <2>1
  <2>3. count.is \in {"number"} /\ Has(row, countKey)
    BY <1>1
  <2>4. QED
    BY <1>1, <2>1, <2>2, <2>3, FoundAt
<1>4. QED
  BY <1>2, <1>3 DEF ReadRowObject, IdKeys, CountKeys

\* A bare array of row objects.
LEMMA ListOfRows ==
  ASSUME NEW rows
  PROVE  ParseGroupedResourceCounts(List(rows)) = CountMap([k \in DOMAIN rows |-> ReadRowObject(rows[k])])
<1> DEFINE value == List(rows)
<1>1. value.is = "list" /\ value.items = rows
  BY DEF List
<1> HIDE DEF value
<1>2. ParseGroupedResourceCounts(value) = CountMap([k \in DOMAIN rows |-> ReadRowObject(rows[k])])
  BY <1>1 DEF ParseGroupedResourceCounts
<1>3. QED
  BY <1>2 DEF value

\* Row objects under "data".
LEMMA RowsUnderData ==
  ASSUME NEW rows
  PROVE  ParseGroupedResourceCounts(Object([data |-> List(rows)]))
           = CountMap([k \in DOMAIN rows |-> ReadRowObject(rows[k])])
<1> DEFINE value == Object([data |-> List(rows)])
<1>1. /\ value.is = "object" /\ Has(value, "data") /\ value.fields["data"].is = "list"
      /\ value.fields["data"].items = rows
  BY DEF Object, List, Has
<1> HIDE DEF value
<1>2. ParseGroupedResourceCounts(value) = CountMap([k \in DOMAIN rows |-> ReadRowObject(rows[k])])
  BY <1>1 DEF ParseGroupedResourceCounts
<1>3. QED
  BY <1>2 DEF value

\* A table, with or without column names.
LEMMA TableIsRead ==
  ASSUME NEW value, NEW rows, value.is = "object", ~Has(value, "data"), Has(value, "rows"),
         value.fields["rows"].is = "list", value.fields["rows"].items = rows,
         NEW columns, columns = IF Has(value, "columns") /\ value.fields["columns"].is = "list"
                                THEN [k \in DOMAIN value.fields["columns"].items |->
                                        value.fields["columns"].items[k].text]
                                ELSE <<>>
  PROVE  ParseGroupedResourceCounts(value)
           = CountMap([k \in DOMAIN rows |-> ReadTableRow(rows[k], RowColumnIndices(columns))])
BY DEF ParseGroupedResourceCounts

\* A table without column names has the subscription first.
LEMMA DefaultColumns == RowColumnIndices(<<>>) = [sub |-> 1, count |-> 2]
BY DEF RowColumnIndices

\* Named columns are found where they are.
LEMMA NamedColumns ==
  ASSUME NEW columns, DOMAIN columns = 1..2, columns[1] = "resource_count", columns[2] = "subscriptionid"
  PROVE  RowColumnIndices(columns) = [sub |-> 2, count |-> 1]
<1> DEFINE Named(names) == {k \in DOMAIN columns : columns[k] \in names}
           S == Named({"subscriptionid", "subscription_id"})
           C == Named({"resource_count", "count_", "count"})
           two == 2
           one == 1
<1>1. S = {two} /\ C = {one} /\ one \in Nat /\ two \in Nat
  OBVIOUS
<1>2. RowColumnIndices(columns) = [sub |-> IF S = {} THEN 1 ELSE Max(S), count |-> IF C = {} THEN 2 ELSE Max(C)]
  BY DEF RowColumnIndices
<1> HIDE DEF S, C, one, two
<1>3. Max(S) = two
  <2>1. S \in SUBSET Nat /\ two \in S /\ \A j \in S : j <= two
    BY <1>1
  <2>2. QED
    BY <2>1, GreatestPlace
<1>4. Max(C) = one
  <2>1. C \in SUBSET Nat /\ one \in C /\ \A j \in C : j <= one
    BY <1>1
  <2>2. QED
    BY <2>1, GreatestPlace
<1>5. S /= {} /\ C /= {}
  BY <1>1
<1>6. QED
  BY <1>2, <1>3, <1>4, <1>5 DEF one, two

\* A row of a table is read at those places.
LEMMA TableRowIsRead ==
  ASSUME NEW a, NEW b, NEW at, at \in [sub : {1, 2}, count : {1, 2}]
  PROVE  ReadTableRow(List(<<a, b>>), at) = <<<<a, b>>[at.sub], <<a, b>>[at.count]>>
<1>1. List(<<a, b>>).is = "list" /\ List(<<a, b>>).items = <<a, b>>
  BY DEF List
<1>2. {at.sub, at.count} \subseteq DOMAIN <<a, b>>
  OBVIOUS
<1>3. QED
  BY <1>1, <1>2 DEF ReadTableRow

\* Whatever their shape, the counts are read as what the server counted; what is
\* not understood counts nothing (parseGroupedResourceCounts).
LEMMA CountsAreUnderstood ==
  ASSUME NEW shape \in CountShapes, NEW count \in [Sub -> Nat]
  PROVE  LET map == ParseGroupedResourceCounts(CountAnswer(shape, count))
         IN \A s \in Sub : (IF s \in DOMAIN map THEN map[s] ELSE 0)
                             = IF shape = "unreadable" THEN 0 ELSE count[s]
<1> DEFINE S == {s \in Sub : count[s] > 0}
           subs == SetToSeq(S)
           id == [k \in DOMAIN subs |-> Text(subs[k])]
           number == [k \in DOMAIN subs |-> Number(count[subs[k]])]
           objects == [k \in DOMAIN subs |->
                         IF shape = "array"
                         THEN Object([subscriptionId |-> id[k], resource_count |-> number[k]])
                         ELSE Object([subscription_id |-> id[k], count_ |-> number[k]])]
           rows == [k \in DOMAIN subs |->
                      IF shape = "table" THEN List(<<id[k], number[k]>>) ELSE List(<<number[k], id[k]>>)]
           names == List(<<Text("resource_count"), Text("subscriptionid")>>)
           answer == CountAnswer(shape, count)
           map == ParseGroupedResourceCounts(answer)
           n == Cardinality(S)
           Understood == \A s \in Sub : (IF s \in DOMAIN map THEN map[s] ELSE 0)
                                           = IF shape = "unreadable" THEN 0 ELSE count[s]
<1>1. /\ n \in Nat /\ subs \in [1..n -> S]
      /\ \A x \in S : \E k \in 1..n : subs[k] = x
      /\ \A k, l \in 1..n : subs[k] = subs[l] => k = l
  <2>1. IsFiniteSet(S)
    BY DiscoveryAssumption, FS_Subset
  <2> HIDE DEF S
  <2>2. QED
    BY <2>1, SetsAsSequences
<1>2. S = {s \in DOMAIN count : count[s] > 0}
  OBVIOUS
<1>3. /\ shape \in {"array", "data", "table", "columns", "unreadable"}
      /\ shape = "array" => answer = List(objects)
      /\ shape = "data" => answer = Object([data |-> List(objects)])
      /\ shape = "table" => answer = Object([rows |-> List(rows)])
      /\ shape = "columns" => answer = Object([columns |-> names, rows |-> List(rows)])
      /\ shape = "unreadable" => answer = Null
  BY <1>2 DEF CountAnswer, CountShapes
<1>4. \A s \in Sub : s \notin S => count[s] = 0
  OBVIOUS
<1>5. S \subseteq Sub
  OBVIOUS
<1> HIDE DEF S, n, subs, answer
<1>6. DOMAIN subs = 1..n /\ DOMAIN objects = 1..n /\ DOMAIN rows = 1..n
  BY <1>1
<1>7. \A k \in 1..n : id[k] = Text(subs[k]) /\ number[k] = Number(count[subs[k]])
  BY <1>6
<1> HIDE DEF id, number
<1>8. ASSUME NEW pairs, DOMAIN pairs = 1..n, \A k \in 1..n : pairs[k] = <<id[k], number[k]>>,
             map = CountMap(pairs), shape /= "unreadable"
      PROVE  Understood
  <2>1. \A k \in 1..n : pairs[k] = <<Text(subs[k]), Number(count[subs[k]])>>
    <3> HIDE DEF map
    <3>1. QED
      BY <1>7, <1>8
  <2>2. DOMAIN CountMap(pairs) = S /\ \A s \in S : CountMap(pairs)[s] = count[s]
    <3> HIDE DEF map
    <3>1. Pairing(pairs, subs, n, S, count)
      BY <1>1, <1>8, <2>1 DEF Pairing
    <3>2. QED
      BY <3>1, CountMapIs
  <2> HIDE DEF map
  <2>3. QED
    BY <1>4, <1>5, <1>8, <2>2
<1>9. ASSUME shape \in {"array", "data"} PROVE Understood
  <2> DEFINE pairs == [k \in DOMAIN objects |-> ReadRowObject(objects[k])]
  <2>1. ASSUME NEW k \in 1..n PROVE pairs[k] = <<id[k], number[k]>>
    <3> DEFINE a == id[k]
               b == number[k]
               idKey == IF shape = "array" THEN "subscriptionId" ELSE "subscription_id"
               countKey == IF shape = "array" THEN "resource_count" ELSE "count_"
               fields == IF shape = "array" THEN [subscriptionId |-> a, resource_count |-> b]
                                            ELSE [subscription_id |-> a, count_ |-> b]
    <3>1. a.is = "text" /\ b.is = "number"
      <4>1. a = Text(subs[k]) /\ b = Number(count[subs[k]])
        BY <1>7
      <4> HIDE DEF a, b
      <4>2. QED
        BY <4>1 DEF Text, Number
    <3>2. objects[k] = Object(fields) /\ pairs[k] = ReadRowObject(objects[k])
      BY <1>6, <2>1
    <3> HIDE DEF a, b, objects, pairs
    <3>3. RowFieldsAre(Object(fields), fields, idKey, countKey, a, b)
      BY DEF RowFieldsAre, Object
    <3>4. \/ idKey = "subscriptionId" /\ countKey = "resource_count"
          \/ idKey = "subscription_id" /\ countKey = "count_"
      OBVIOUS
    <3> HIDE DEF fields, idKey, countKey
    <3>5. ReadRowObject(Object(fields)) = <<a, b>>
      BY <3>1, <3>3, <3>4, RowObjectIsRead
    <3>6. QED
      BY <3>2, <3>5 DEF a, b
  <2>2. map = CountMap(pairs)
    <3> HIDE DEF objects
    <3>1. QED
      BY <1>3, <1>9, ListOfRows, RowsUnderData
  <2>3. DOMAIN pairs = 1..n
    BY <1>6
  <2> HIDE DEF pairs, map
  <2>4. QED
    BY <1>8, <1>9, <2>1, <2>2, <2>3
<1>10. ASSUME shape \in {"table", "columns"} PROVE Understood
  <2> DEFINE at == IF shape = "table" THEN [sub |-> 1, count |-> 2] ELSE [sub |-> 2, count |-> 1]
             pairs == [k \in DOMAIN rows |-> ReadTableRow(rows[k], at)]
  <2>1. ASSUME NEW k \in 1..n PROVE pairs[k] = <<id[k], number[k]>>
    <3> DEFINE a == id[k]
               b == number[k]
    <3>1. pairs[k] = ReadTableRow(IF shape = "table" THEN List(<<a, b>>) ELSE List(<<b, a>>), at)
      BY <1>6, <2>1
    <3> HIDE DEF a, b, pairs
    <3>2. at \in [sub : {1, 2}, count : {1, 2}]
      OBVIOUS
    <3>3. /\ ReadTableRow(List(<<a, b>>), at) = <<<<a, b>>[at.sub], <<a, b>>[at.count]>>
          /\ ReadTableRow(List(<<b, a>>), at) = <<<<b, a>>[at.sub], <<b, a>>[at.count]>>
      <4> HIDE DEF at
      <4>1. QED
        BY <3>2, TableRowIsRead
    <3>4. pairs[k] = <<a, b>>
      BY <1>10, <3>1, <3>3
    <3>5. QED
      BY <3>4 DEF a, b
  <2>2. map = CountMap(pairs)
    <3> DEFINE fields == IF shape = "table" THEN [rows |-> List(rows)]
                                            ELSE [columns |-> names, rows |-> List(rows)]
               columns == IF Has(answer, "columns") /\ answer.fields["columns"].is = "list"
                          THEN [k \in DOMAIN answer.fields["columns"].items |->
                                  answer.fields["columns"].items[k].text]
                          ELSE <<>>
    <3>1. List(rows).is = "list" /\ List(rows).items = rows
      BY DEF List
    <3> HIDE DEF rows, names
    <3>2. answer = Object(fields)
      BY <1>3, <1>10
    <3>3. /\ fields["rows"] = List(rows) /\ "rows" \in DOMAIN fields /\ "data" \notin DOMAIN fields
          /\ ("columns" \in DOMAIN fields) = (shape = "columns")
          /\ shape = "columns" => fields["columns"] = names
      BY <1>10
    <3> HIDE DEF fields
    <3>4. answer.is = "object" /\ answer.fields = fields
      BY <3>2 DEF Object
    <3>5. /\ ~Has(answer, "data") /\ Has(answer, "rows") /\ answer.fields["rows"].is = "list"
          /\ answer.fields["rows"].items = rows
      BY <3>1, <3>3, <3>4 DEF Has
    <3>6. ParseGroupedResourceCounts(answer)
            = CountMap([k \in DOMAIN rows |-> ReadTableRow(rows[k], RowColumnIndices(columns))])
      BY <3>4, <3>5, TableIsRead
    <3>7. RowColumnIndices(columns) = at
      <4>1. CASE shape = "table"
        <5>1. columns = <<>>
          BY <3>3, <3>4, <4>1 DEF Has
        <5> HIDE DEF columns
        <5>2. QED
          BY <4>1, <5>1, DefaultColumns
      <4>2. CASE shape = "columns"
        <5>1. names.is = "list" /\ names.items = <<Text("resource_count"), Text("subscriptionid")>>
          BY DEF names, List
        <5>2. columns = [k \in DOMAIN names.items |-> names.items[k].text]
          BY <3>3, <3>4, <4>2, <5>1 DEF Has
        <5> HIDE DEF columns
        <5>3. DOMAIN columns = 1..2 /\ columns[1] = "resource_count" /\ columns[2] = "subscriptionid"
          BY <5>1, <5>2 DEF Text
        <5>4. RowColumnIndices(columns) = [sub |-> 2, count |-> 1]
          BY <5>3, NamedColumns
        <5>5. QED
          BY <4>2, <5>4
      <4>3. QED
        BY <1>10, <4>1, <4>2
    <3> HIDE DEF columns, at
    <3>8. QED
      BY <3>6, <3>7
  <2>3. DOMAIN pairs = 1..n
    BY <1>6
  <2> HIDE DEF pairs, map
  <2>4. QED
    BY <1>8, <1>10, <2>1, <2>2, <2>3
<1>11. ASSUME shape = "unreadable" PROVE Understood
  <2>1. answer = Null
    BY <1>3, <1>11
  <2>2. ParseGroupedResourceCounts(Null) = CountMap(<<>>)
    <3> DEFINE value == Null
    <3>1. value.is = "null"
      BY DEF Null
    <3> HIDE DEF value
    <3>2. ~(value.is = "list") /\ \A x : ~Has(value, x)
      BY <3>1 DEF Has
    <3>3. ParseGroupedResourceCounts(value) = CountMap(<<>>)
      BY <3>2 DEF ParseGroupedResourceCounts
    <3>4. QED
      BY <3>3 DEF value
  <2>3. DOMAIN CountMap(<<>>) = {}
    BY DEF CountMap
  <2>4. map = CountMap(<<>>)
    BY <2>1, <2>2
  <2> HIDE DEF map
  <2>5. QED
    BY <1>11, <2>3, <2>4
<1>12. QED
  <2>1. Understood
    BY <1>3, <1>9, <1>10, <1>11
  <2>2. QED
    BY <2>1 DEF answer

-----------------------------------------------------------------------------
(* The choice. *)

\* A best choice of at most n of W, but for those excluded.
IsBest(selected, W, count, n, out) ==
  /\ Len(selected) \in 1..n
  /\ Range(selected) \subseteq W
  /\ \A t \in Range(selected), s \in W \ Range(selected) : count[s] > count[t] => s \in Range(out)
  /\ \A t \in Range(selected) : count[t] = 0 => \A s \in W : count[s] = 0

\* The first of the eligible are a best choice.
LEMMA FirstIsBest ==
  ASSUME NEW list \in Seq(Sub), Distinct(list), list /= <<>>, NEW count \in [Sub -> Nat],
         NEW n \in Nat \ {0}, NEW out
  PROVE  IsBest(Prefix(Eligible(list, count), n), Range(list), count, n, out)
<1> DEFINE e == Eligible(list, count)
           first == Prefix(e, n)
<1>1. /\ e \in Seq(Sub) /\ Range(e) \subseteq Range(list) /\ e /= <<>>
      /\ \A t \in Range(e) : count[t] = 0 => \A s \in Range(list) : count[s] = 0
  BY EligibleAreTheBest
<1>2. \A t \in Range(first), s \in Range(list) \ Range(first) : ~(count[s] > count[t])
  BY FirstAreTheBest
<1> HIDE DEF e
<1>3. /\ first \in Seq(Sub) /\ Len(first) = IF n < Len(e) THEN n ELSE Len(e)
      /\ Range(first) \subseteq Range(e)
  BY <1>1, PrefixIsFirst
<1>4. Len(e) \in Nat /\ Len(e) /= 0
  BY <1>1
<1> HIDE DEF first
<1>5. Len(first) \in 1..n
  BY <1>3, <1>4
<1>6. QED
  BY <1>1, <1>2, <1>3, <1>5 DEF IsBest, first, e

\* The first of the passers are a best choice but for those that did not pass.
LEMMA PassersAreBest ==
  ASSUME NEW list \in Seq(Sub), Distinct(list), NEW count \in [Sub -> Nat],
         NEW size \in Nat, NEW n \in Nat \ {0},
         NEW P \in SUBSET DOMAIN Prefix(Eligible(list, count), size), P /= {}
  PROVE  LET pool == Prefix(Eligible(list, count), size)
         IN IsBest(Prefix(Kept(pool, P), n), Range(list), count, n, Kept(pool, (DOMAIN pool) \ P))
<1> DEFINE e == Eligible(list, count)
           pool == Prefix(e, size)
           passers == Kept(pool, P)
           first == Prefix(passers, n)
           others == Kept(pool, (DOMAIN pool) \ P)
<1>1. /\ e \in Seq(Sub) /\ Range(e) \subseteq Range(list)
      /\ \A t \in Range(e) : count[t] = 0 => \A s \in Range(list) : count[s] = 0
  BY EligibleAreTheBest
<1>2. ASSUME NEW t \in Range(first), NEW s \in Range(list) \ Range(first), count[s] > count[t]
      PROVE  s \in Range(others)
  BY <1>2, BestThatPass
<1> HIDE DEF e
<1>3. pool \in Seq(Sub) /\ Range(pool) \subseteq Range(e) /\ P \in SUBSET DOMAIN pool
  BY <1>1, PrefixIsFirst DEF e
<1> HIDE DEF pool
<1>4. passers \in Seq(Sub) /\ Range(passers) = {pool[i] : i \in P}
  BY <1>3, KeptInOrder
<1>5. \A x \in Range(passers) : x \in Range(pool)
  BY <1>3, <1>4 DEF Range
<1>6. passers /= <<>>
  <2>1. PICK i \in P : TRUE
    OBVIOUS
  <2>2. pool[i] \in Range(passers)
    BY <1>4
  <2>3. QED
    BY <2>2 DEF Range
<1> HIDE DEF passers
<1>7. /\ first \in Seq(Sub) /\ Len(first) = IF n < Len(passers) THEN n ELSE Len(passers)
      /\ Range(first) \subseteq Range(passers)
  BY <1>4, PrefixIsFirst
<1>8. Len(passers) \in Nat /\ Len(passers) /= 0
  BY <1>4, <1>6
<1> HIDE DEF first
<1>9. Len(first) \in 1..n
  BY <1>7, <1>8
<1>10. Range(first) \subseteq Range(e) /\ Range(first) \subseteq Range(list)
  BY <1>1, <1>3, <1>5, <1>7
<1>11. QED
  BY <1>1, <1>2, <1>9, <1>10 DEF IsBest, first, passers, pool, e

\* The pool has room for someone, whatever the operator asked for.
LEMMA PoolSizeIsPositive ==
  ASSUME NEW override \in Nat, NEW limit \in Nat \ {0}
  PROVE  ClampPoolSize(override, limit) \in Nat \ {0}
<1> DEFINE most == Max3(limit * 3, limit + 5, 10)
           three == limit * 3
<1>1. three \in Nat
  OBVIOUS
<1> HIDE DEF three
<1>2. \E m \in {three, limit + 5, 10} : \A k \in {three, limit + 5, 10} : k <= m
  BY <1>1
<1>3. Max3(three, limit + 5, 10) \in {three, limit + 5, 10} /\ 10 <= Max3(three, limit + 5, 10)
  BY <1>2 DEF Max3
<1>4. most \in Nat \ {0}
  BY <1>1, <1>3 DEF three
<1> HIDE DEF most
<1>5. ClampPoolSize(override, limit)
        = IF (IF override /= 0 THEN override ELSE most) > 25 THEN 25
          ELSE IF override /= 0 THEN override ELSE most
  BY DEF ClampPoolSize, most
<1>6. QED
  BY <1>4, <1>5

\* What is assumed of a world.
LEMMA WorldsAreAny ==
  ASSUME NEW w \in World
  PROVE  /\ w.subs \in Candidates /\ w.picks \in Candidates
         /\ w.names \in [Sub -> Name] /\ w.counts \in [Sub -> Nat]
         /\ w.limit \in Nat \ {0} /\ w.override \in Nat /\ w.probe \in BOOLEAN /\ w.filter \in BOOLEAN
BY DiscoveryAssumption DEF AnyWorld

\* What is listed, as a list of subscriptions.
LEMMA ListedIsWanted ==
  ASSUME DiscoveryTypeOK, ListingIsTrue, listed /= <<>>
  PROVE  /\ Subs(listed) \in Seq(Sub) /\ Distinct(Subs(listed)) /\ Subs(listed) /= <<>>
         /\ Range(Subs(listed)) = Wanted
<1> DEFINE n == Len(listed)
<1>1. /\ listed \in Seq([sub : Sub, name : Name]) /\ n \in Nat /\ DOMAIN listed = 1..n /\ n /= 0
      /\ \A k \in 1..n : listed[k] \in [sub : Sub, name : Name]
  <2>1. listed \in Seq([sub : Sub, name : Name])
    BY DEF DiscoveryTypeOK
  <2>2. n \in Nat /\ DOMAIN listed = 1..n /\ listed \in [1..n -> [sub : Sub, name : Name]]
    <3> DEFINE T == [sub : Sub, name : Name]
    <3> HIDE DEF T
    <3>1. listed \in Seq(T)
      BY <2>1 DEF T
    <3>2. n \in Nat /\ DOMAIN listed = 1..n /\ listed \in [1..n -> T]
      BY <3>1
    <3>3. QED
      BY <3>2 DEF T
  <2>3. n /= 0
    BY <2>1
  <2> HIDE DEF n
  <2>4. QED
    BY <2>1, <2>2, <2>3
<1> HIDE DEF n
<1>2. \A k \in 1..n : listed[k].sub \in Sub
  BY <1>1
<1>3. Subs(listed) = [k \in 1..n |-> listed[k].sub]
  BY <1>1 DEF Subs
<1>4. Subs(listed) \in [1..n -> Sub]
  BY <1>2, <1>3
<1>5. Distinct(Subs(listed))
  BY <1>1, <1>3 DEF Distinct, ListingIsTrue
<1>6. QED
  BY <1>1, <1>4, <1>5 DEF ListingIsTrue

\* Selected subscriptions keep their own names.
LEMMA NamesAreKept ==
  ASSUME NEW subs, DiscoveryTypeOK, ListingIsTrue
  PROVE  /\ ScopeOf(subs).subs = subs
         /\ \A sub \in DOMAIN ScopeOf(subs).names : ScopeOf(subs).names[sub] = world.names[sub]
<1> DEFINE named == {entry \in Range(listed) : entry.sub \in Range(subs) /\ entry.name /= Unnamed}
           names == [sub \in {entry.sub : entry \in named} |-> (CHOOSE entry \in named : entry.sub = sub).name]
<1>1. ScopeOf(subs) = [subs |-> subs, names |-> names]
  BY DEF ScopeOf
<1>2. \A entry \in named : entry.name = world.names[entry.sub]
  BY DEF ListingIsTrue, Range
<1> HIDE DEF named
<1>3. ASSUME NEW sub \in DOMAIN names PROVE names[sub] = world.names[sub]
  <2> DEFINE entry == CHOOSE entry \in named : entry.sub = sub
  <2>1. entry \in named /\ entry.sub = sub
    OBVIOUS
  <2>2. names[sub] = entry.name
    OBVIOUS
  <2> HIDE DEF entry, names
  <2>3. QED
    BY <1>2, <2>1, <2>2
<1> HIDE DEF names
<1>4. QED
  BY <1>1, <1>3

\* Who passed, by their own results.
Passed == {results[i].sub : i \in {i \in DOMAIN results : results[i].outcome = "pass"}}

\* Because every result is its own candidate's, the passers are those who passed,
\* and everybody else in the pool is a loser.
LEMMA PassersAreTheirOwn ==
  ASSUME PoolInv, ids \in Seq(Sub), Distinct(ids)
  PROVE  /\ Probed(TRUE) \in Seq(Sub) /\ Range(Probed(TRUE)) = Passed
         /\ Probed(FALSE) \in Seq(Sub) /\ Range(Probed(FALSE)) = Range(ids) \ Passed
         /\ Passing(TRUE) \in SUBSET DOMAIN ids /\ Passing(FALSE) = (DOMAIN ids) \ Passing(TRUE)
<1>1. DOMAIN results = DOMAIN ids
  BY DEF PoolInv, PoolTypeOK
<1>2. ASSUME NEW i \in DOMAIN ids, results[i].outcome = "pass" PROVE results[i].sub = ids[i]
  <2>1. results[i] /= NoResult
    BY <1>2 DEF NoResult, None
  <2>2. QED
    BY <1>1, <2>1 DEF PoolInv, ResultsAreEarned, ResultIsEarned
<1> DEFINE P == Passing(TRUE)
           Q == Passing(FALSE)
<1>3. \A i \in DOMAIN ids : i \in P <=> results[i].outcome = "pass"
  BY DEF Passing
<1>4. P \in SUBSET DOMAIN ids
  BY DEF Passing
<1>5. Q = (DOMAIN ids) \ P
  BY DEF Passing
<1> HIDE DEF P, Q
<1>6. Probed(TRUE) = Kept(ids, P) /\ Probed(FALSE) = Kept(ids, Q)
  BY DEF Probed, P, Q
<1>7. Kept(ids, P) \in Seq(Sub) /\ Range(Kept(ids, P)) = {ids[i] : i \in P}
  BY <1>4, KeptInOrder
<1>8. Q \in SUBSET DOMAIN ids
  BY <1>5
<1>9. Kept(ids, Q) \in Seq(Sub) /\ Range(Kept(ids, Q)) = {ids[i] : i \in Q}
  BY <1>8, KeptInOrder
<1>10. Passed = {ids[i] : i \in P}
  <2>1. \A x \in Passed : \E i \in P : x = ids[i]
    BY <1>1, <1>2, <1>3 DEF Passed
  <2>2. \A i \in P : ids[i] \in Passed
    <3>1. ASSUME NEW i \in P PROVE ids[i] \in Passed
      <4>1. i \in DOMAIN results /\ results[i].outcome = "pass" /\ results[i].sub = ids[i]
        BY <1>1, <1>2, <1>3, <1>4
      <4>2. QED
        BY <4>1 DEF Passed
    <3>2. QED
      BY <3>1
  <2>3. QED
    BY <2>1, <2>2
<1>11. {ids[i] : i \in Q} = Range(ids) \ Passed
  <2>1. \A i, j \in DOMAIN ids : ids[i] = ids[j] => i = j
    BY DEF Distinct
  <2>2. \A i \in Q : ids[i] \in Range(ids) /\ ids[i] \notin Passed
    BY <1>4, <1>5, <1>10, <2>1 DEF Range
  <2>3. \A x \in Range(ids) : x \notin Passed => \E i \in Q : x = ids[i]
    BY <1>4, <1>5, <1>10 DEF Range
  <2>4. QED
    BY <2>2, <2>3
<1>12. QED
  BY <1>4, <1>5, <1>6, <1>7, <1>9, <1>10, <1>11 DEF P, Q

\* Exactly the losers are reported.
LEMMA LosersAreReported ==
  ASSUME NEW losers \in Seq(Sub), NEW tail \in {<<>>, <<PartialCoverageDq>>}
  PROVE  {sub \in Sub : <<"billing_probe_excluded", sub>> \in Range(ExcludedDq(losers) \o tail)}
           = Range(losers)
<1> DEFINE dq == ExcludedDq(losers)
           all == dq \o tail
           n == Len(losers)
           T == {"billing_probe_excluded", "partial_coverage"} \X (Sub \union {None})
<1>1. n \in Nat /\ DOMAIN losers = 1..n /\ \A k \in 1..n : losers[k] \in Sub
  OBVIOUS
<1>2. /\ dq = [k \in 1..n |-> <<"billing_probe_excluded", losers[k]>>]
      /\ \A k \in 1..n : dq[k] = <<"billing_probe_excluded", losers[k]>>
  BY <1>1 DEF ExcludedDq
<1>3. tail \in Seq(T)
  <2>1. PartialCoverageDq \in T
    BY DEF PartialCoverageDq
  <2> HIDE DEF T
  <2>2. <<>> \in Seq(T) /\ <<PartialCoverageDq>> \in Seq(T)
    BY <2>1
  <2>3. QED
    BY <2>2
<1>4. \A k \in DOMAIN tail : tail[k] = <<"partial_coverage", None>>
  BY DEF PartialCoverageDq
<1> HIDE DEF n
<1>5. \A k \in 1..n : <<"billing_probe_excluded", losers[k]>> \in T
  BY <1>1
<1> HIDE DEF dq, T
<1>6. dq \in Seq(T) /\ Len(dq) = n
  BY <1>1, <1>2, <1>5
<1>7. /\ \A k \in 1..n : k \in DOMAIN all /\ all[k] = dq[k]
      /\ \A k \in DOMAIN all : (k \in 1..n /\ all[k] = dq[k]) \/ \E j \in DOMAIN tail : all[k] = tail[j]
  BY <1>1, <1>3, <1>6
<1> HIDE DEF all
<1>8. ASSUME NEW sub \in Range(losers) PROVE sub \in Sub /\ <<"billing_probe_excluded", sub>> \in Range(all)
  <2>1. PICK k \in 1..n : sub = losers[k]
    BY <1>1 DEF Range
  <2>2. k \in DOMAIN all /\ all[k] = <<"billing_probe_excluded", sub>>
    BY <1>2, <1>7, <2>1
  <2>3. QED
    BY <1>1, <2>1, <2>2 DEF Range
<1>9. ASSUME NEW sub, <<"billing_probe_excluded", sub>> \in Range(all) PROVE sub \in Range(losers)
  <2>1. PICK k \in DOMAIN all : all[k] = <<"billing_probe_excluded", sub>>
    BY <1>9 DEF Range
  <2>2. \A j \in DOMAIN tail : tail[j] /= <<"billing_probe_excluded", sub>>
    BY <1>4
  <2>3. k \in 1..n /\ all[k] = <<"billing_probe_excluded", losers[k]>>
    BY <1>2, <1>7, <2>1, <2>2
  <2>4. sub = losers[k]
    BY <2>1, <2>3
  <2>5. QED
    BY <1>1, <2>3, <2>4 DEF Range
<1>10. QED
  BY <1>8, <1>9 DEF all, dq

\* The workers never change who is in the pool.
LEMMA WorkersLeaveTheRest == ProbeNext => UNCHANGED ids
BY DEF ProbeNext, Proceed, Timeout, LookupHits, LookupMisses, Attempt, JitterEnds, Conclude,
       Answer, LateAnswer

-----------------------------------------------------------------------------
(* The steps. *)

\* Nothing is chosen at first.
LEMMA ChoiceBegins == Init => ChoiceInv
<1> SUFFICES ASSUME Init PROVE ChoiceInv
  OBVIOUS
<1>1. /\ world \in World /\ told = [list |-> FALSE, names |-> FALSE, counts |-> FALSE]
      /\ phase = (IF world.picks /= <<>> THEN "pick" ELSE "list")
      /\ listed = <<>> /\ excluded = <<>> /\ findings = <<>> /\ scope = [subs |-> <<>>, names |-> <<>>]
      /\ ids = <<>>
  BY DEF Init, ProbeInit
<1>2. DiscoveryTypeOK
  BY <1>1 DEF DiscoveryTypeOK
<1>3. ListingIsTrue
  BY <1>1 DEF ListingIsTrue
<1>4. CountsAreTrue /\ StagesAreInOrder
  BY <1>1 DEF CountsAreTrue, StagesAreInOrder
<1>5. SelectionIsTheBest /\ SelectionIsProbed
  BY <1>1 DEF SelectionIsTheBest, SelectionIsProbed, Ended
<1>6. QED
  BY <1>2, <1>3, <1>4, <1>5 DEF ChoiceInv

\* While the probe runs, the choice has not been made.
LEMMA ProbingChangesNoChoice ==
  ASSUME ChoiceInv, ProbePool
  PROVE  ChoiceInv'
<1>1. phase = "probe" /\ UNCHANGED discoveryVars /\ UNCHANGED ids
  BY WorkersLeaveTheRest DEF ProbePool
<1>2. UNCHANGED <<phase, world, listed, counts, scope, excluded, findings, told, ids>>
  BY <1>1 DEF discoveryVars
<1>3. DiscoveryTypeOK' /\ ListingIsTrue' /\ CountsAreTrue'
  BY <1>2 DEF ChoiceInv, DiscoveryTypeOK, ListingIsTrue, CountsAreTrue, Wanted
<1>4. StagesAreInOrder'
  BY <1>2 DEF ChoiceInv, StagesAreInOrder, Pool
<1>5. SelectionIsTheBest' /\ SelectionIsProbed'
  BY <1>1, <1>2 DEF SelectionIsTheBest, SelectionIsProbed, Ended
<1>6. QED
  BY <1>3, <1>4, <1>5 DEF ChoiceInv

\* A step that changes nothing.
LEMMA NothingHappened == ChoiceInv /\ UNCHANGED vars => ChoiceInv'
<1> SUFFICES ASSUME ChoiceInv, UNCHANGED vars PROVE ChoiceInv'
  OBVIOUS
<1>1. UNCHANGED <<phase, world, listed, counts, scope, excluded, findings, told, ids, results>>
  BY DEF vars, discoveryVars, probeVars
<1>2. DiscoveryTypeOK' /\ ListingIsTrue' /\ CountsAreTrue'
  BY <1>1 DEF ChoiceInv, DiscoveryTypeOK, ListingIsTrue, CountsAreTrue, Wanted
<1>3. StagesAreInOrder'
  BY <1>1 DEF ChoiceInv, StagesAreInOrder, Pool
<1>4. SelectionIsTheBest'
  BY <1>1 DEF ChoiceInv, SelectionIsTheBest, FailsForAReason, Wanted
<1>5. SelectionIsProbed'
  BY <1>1 DEF ChoiceInv, SelectionIsProbed, Ended
<1>6. QED
  BY <1>2, <1>3, <1>4, <1>5 DEF ChoiceInv

\* Whatever the shape of the listing, what is listed is what is wanted.
LEMMA ListingKeepsChoice ==
  ASSUME ChoiceInv, ListSubscriptions
  PROVE  ChoiceInv'
<1>1. /\ phase = "list" /\ UNCHANGED <<world, counts, scope, excluded, findings, ids>>
      /\ world \in World /\ world.picks = <<>> /\ ids = <<>> /\ excluded = <<>> /\ findings = <<>>
      /\ scope.subs = <<>>
  BY DEF ChoiceInv, ListSubscriptions, StagesAreInOrder, DiscoveryTypeOK, probeVars
<1>2. /\ world.subs \in Candidates /\ world.names \in [Sub -> Name] /\ world.filter \in BOOLEAN
  BY <1>1, WorldsAreAny
<1>3. CASE phase' = "refused" /\ UNCHANGED <<listed, told>>
  <2>1. DiscoveryTypeOK' /\ ListingIsTrue'
    BY <1>1, <1>3 DEF ChoiceInv, DiscoveryTypeOK, ListingIsTrue, Wanted
  <2>2. CountsAreTrue' /\ StagesAreInOrder' /\ SelectionIsTheBest' /\ SelectionIsProbed'
    BY <1>1, <1>3 DEF CountsAreTrue, StagesAreInOrder, SelectionIsTheBest, SelectionIsProbed
  <2>3. QED
    BY <2>1, <2>2 DEF ChoiceInv
<1>4. ASSUME NEW shape \in ListingShapes,
             told' = [told EXCEPT !.list = shape /= "unreadable",
                                  !.names = world.filter => shape \in NamingShapes],
             listed' = IF world.filter
                       THEN ApplyNameFilter(ExtractSubscriptions(ListingAnswer(shape, world.subs, world.names)))
                       ELSE ExtractSubscriptions(ListingAnswer(shape, world.subs, world.names)),
             phase' = IF listed' = <<>> THEN "failed" ELSE "count"
      PROVE  ChoiceInv'
  <2> DEFINE all == ExtractSubscriptions(ListingAnswer(shape, world.subs, world.names))
             called == Called(shape, world.names)
             subs == Range(world.subs)
             wanted == IF world.filter THEN {s \in subs : called[s] = "wanted"} ELSE subs
  <2>1. IF shape = "unreadable" THEN all = <<>> ELSE Lists(all, subs, called)
    BY <1>2, ListingIsUnderstood
  <2>2. \A s \in Sub : called[s] = IF shape \in NamingShapes THEN world.names[s] ELSE Unnamed
    BY DEF Called
  <2>3. subs \subseteq Sub
    BY <1>2, CandidatesAreLists DEF Range
  <2> HIDE DEF all, called
  <2>4. told'.list = (shape /= "unreadable") /\ told'.names = (world.filter => shape \in NamingShapes)
        /\ told' \in [list : BOOLEAN, names : BOOLEAN, counts : BOOLEAN]
    BY <1>2, <1>4 DEF ChoiceInv, DiscoveryTypeOK
  <2>5. Wanted' = {s \in subs : world.filter => world.names[s] = "wanted"}
    BY <1>1 DEF Wanted
  <2>6. CASE shape = "unreadable"
    <3>1. listed' = <<>>
      <4>1. ApplyNameFilter(<<>>) = <<>>
        <5>1. Kept(<<>>, {}) = <<>>
          BY FS_EmptySet DEF Kept, InOrder
        <5>2. QED
          BY <5>1 DEF ApplyNameFilter
      <4>2. QED
        BY <1>4, <2>1, <2>6, <4>1 DEF all
    <3>2. phase' = "failed" /\ ~told'.list
      BY <1>4, <2>4, <2>6, <3>1
    <3>3. DiscoveryTypeOK' /\ ListingIsTrue'
      BY <1>1, <2>4, <3>1, <3>2 DEF DiscoveryTypeOK, ListingIsTrue
    <3>4. CountsAreTrue' /\ StagesAreInOrder' /\ SelectionIsTheBest' /\ SelectionIsProbed'
      BY <1>1, <3>2 DEF CountsAreTrue, StagesAreInOrder, SelectionIsTheBest, SelectionIsProbed, FailsForAReason
    <3>5. QED
      BY <3>3, <3>4 DEF ChoiceInv
  <2>7. CASE shape /= "unreadable"
    <3>1. Lists(listed', wanted, called)
      <4>1. CASE world.filter
        BY <1>4, <2>1, <2>7, <4>1, FilteredLists DEF all
      <4>2. CASE ~world.filter
        BY <1>4, <2>1, <2>7, <4>2 DEF all
      <4>3. QED
        BY <4>1, <4>2
    <3>2. /\ listed' \in Seq([sub : Sub, name : Name])
          /\ \A i, j \in DOMAIN listed' : listed'[i].sub = listed'[j].sub => i = j
          /\ \A i \in DOMAIN listed' : listed'[i].name = called[listed'[i].sub] /\ listed'[i].sub \in Sub
          /\ Range(Subs(listed')) = wanted
      <4>1. \A i \in DOMAIN listed' : listed'[i].sub \in Range(Subs(listed'))
        BY DEF Range, Subs
      <4>2. QED
        BY <2>3, <3>1, <4>1 DEF Lists
    <3>3. \A i \in DOMAIN listed' : listed'[i].name \in {Unnamed, world.names[listed'[i].sub]}
      BY <2>2, <3>2
    <3>4. wanted = Wanted' \/ (wanted = {} /\ ~told'.names)
      <4>1. CASE world.filter /\ shape \notin NamingShapes
        BY <2>2, <2>3, <2>4, <4>1 DEF Unnamed
      <4>2. CASE ~world.filter
        BY <2>5, <4>2
      <4>3. CASE world.filter /\ shape \in NamingShapes
        BY <2>2, <2>3, <2>5, <4>3
      <4>4. QED
        BY <4>1, <4>2, <4>3
    <3>5. listed' = <<>> <=> wanted = {}
      <4>1. listed' = <<>> => Range(Subs(listed')) = {}
        BY DEF Range, Subs
      <4>2. listed' /= <<>> => Range(Subs(listed')) /= {}
        <5>1. SUFFICES ASSUME listed' /= <<>> PROVE Range(Subs(listed')) /= {}
          OBVIOUS
        <5>2. 1 \in DOMAIN listed'
          BY <3>2, <5>1
        <5>3. listed'[1].sub \in Range(Subs(listed'))
          BY <5>2 DEF Range, Subs
        <5>4. QED
          BY <5>3
      <4>3. QED
        BY <3>2, <4>1, <4>2
    <3> HIDE DEF wanted, subs
    <3>6. DiscoveryTypeOK'
      BY <1>1, <1>4, <2>4, <3>2 DEF DiscoveryTypeOK
    <3>7. ListingIsTrue'
      BY <1>1, <1>4, <3>2, <3>3, <3>4, <3>5 DEF ListingIsTrue
    <3>8. CountsAreTrue' /\ StagesAreInOrder' /\ SelectionIsProbed'
      BY <1>1, <1>4 DEF CountsAreTrue, StagesAreInOrder, SelectionIsProbed
    <3>9. SelectionIsTheBest'
      BY <1>4, <3>4, <3>5 DEF SelectionIsTheBest, FailsForAReason
    <3>10. QED
      BY <3>6, <3>7, <3>8, <3>9 DEF ChoiceInv
  <2>8. QED
    BY <2>6, <2>7
<1>5. QED
  BY <1>3, <1>4 DEF ListSubscriptions

\* The counts, if they are told.
Counted == [sub \in Sub |-> IF told.counts THEN world.counts[sub] ELSE 0]

\* A step that selects from the best selects the best.
LEMMA BestIsSelected ==
  ASSUME NEW selected, NEW out, NEW count, IsBest(selected, Wanted, count, world.limit, out),
         count = Counted', Wanted \subseteq Sub, DiscoveryTypeOK, ListingIsTrue,
         scope' = ScopeOf(selected), excluded' = out, phase' = "done", UNCHANGED world
  PROVE  SelectionIsTheBest'
<1>1. scope'.subs = selected /\ \A sub \in DOMAIN scope'.names : scope'.names[sub] = world.names[sub]
  BY NamesAreKept
<1>2. \A s \in Sub : count[s] = IF told'.counts THEN world'.counts[s] ELSE 0
  BY DEF Counted
<1>3. /\ Len(selected) \in 1..world.limit
      /\ Range(selected) \subseteq Wanted
      /\ \A t \in Range(selected), s \in Wanted \ Range(selected) :
           count[s] > count[t] => s \in Range(out)
      /\ \A t \in Range(selected) : count[t] = 0 => \A s \in Wanted : count[s] = 0
  BY DEF IsBest
<1>4. Wanted' = Wanted
  BY DEF Wanted
<1>5. QED
  BY <1>1, <1>2, <1>3, <1>4 DEF SelectionIsTheBest

\* Without a probe the best are selected at once; with one they are its pool.
LEMMA CountingKeepsChoice ==
  ASSUME ChoiceInv, CountResources
  PROVE  ChoiceInv'
<1>1. /\ phase = "count" /\ UNCHANGED <<world, listed, excluded, findings>>
      /\ world \in World /\ world.picks = <<>> /\ ids = <<>> /\ excluded = <<>> /\ findings = <<>>
      /\ scope.subs = <<>> /\ listed /= <<>> /\ DiscoveryTypeOK /\ ListingIsTrue
  BY DEF ChoiceInv, CountResources, StagesAreInOrder, DiscoveryTypeOK, ListingIsTrue
<1>2. /\ world.counts \in [Sub -> Nat] /\ world.limit \in Nat \ {0} /\ world.override \in Nat
  BY <1>1, WorldsAreAny
<1>3. CASE phase' = "refused" /\ UNCHANGED <<probeVars, counts, scope, told>>
  <2>1. DiscoveryTypeOK' /\ ListingIsTrue'
    BY <1>1, <1>3 DEF ChoiceInv, DiscoveryTypeOK, ListingIsTrue, Wanted
  <2>2. CountsAreTrue' /\ StagesAreInOrder' /\ SelectionIsTheBest' /\ SelectionIsProbed'
    BY <1>1, <1>3 DEF CountsAreTrue, StagesAreInOrder, SelectionIsTheBest, SelectionIsProbed, probeVars
  <2>3. QED
    BY <2>1, <2>2 DEF ChoiceInv
<1>4. ASSUME NEW shape \in CountShapes, NEW count,
             count = [sub \in Sub |->
                        IF sub \in DOMAIN ParseGroupedResourceCounts(CountAnswer(shape, world.counts))
                        THEN ParseGroupedResourceCounts(CountAnswer(shape, world.counts))[sub] ELSE 0],
             told' = [told EXCEPT !.counts = shape /= "unreadable"],
             counts' = count,
             IF world.probe
             THEN /\ StartProbe(Pool(Subs(listed), count))
                  /\ phase' = "probe"
                  /\ UNCHANGED scope
             ELSE /\ scope' = ScopeOf(Prefix(Eligible(Subs(listed), count), world.limit))
                  /\ phase' = "done"
                  /\ UNCHANGED probeVars
      PROVE  ChoiceInv'
  <2>1. /\ told'.counts = (shape /= "unreadable")
        /\ told' \in [list : BOOLEAN, names : BOOLEAN, counts : BOOLEAN]
    BY <1>1, <1>4 DEF DiscoveryTypeOK
  <2>2. count = Counted'
    <3>1. \A s \in Sub : count[s] = IF shape = "unreadable" THEN 0 ELSE world.counts[s]
      BY <1>2, <1>4, CountsAreUnderstood
    <3>2. count = [s \in Sub |-> IF told'.counts THEN world'.counts[s] ELSE 0]
      BY <1>1, <1>4, <2>1, <3>1
    <3>3. QED
      BY <3>2 DEF Counted
  <2>3. count \in [Sub -> Nat]
    BY <1>1, <1>2, <2>2 DEF Counted
  <2>4. /\ Subs(listed) \in Seq(Sub) /\ Distinct(Subs(listed)) /\ Subs(listed) /= <<>>
        /\ Range(Subs(listed)) = Wanted
    BY <1>1, ListedIsWanted
  <2>5. DiscoveryTypeOK' /\ ListingIsTrue'
    BY <1>1, <1>4, <2>1 DEF DiscoveryTypeOK, ListingIsTrue, Wanted
  <2>6. CASE world.probe
    <3>1. phase' = "probe" /\ UNCHANGED scope /\ ids' = Pool(Subs(listed), count)
      BY <1>4, <2>6 DEF StartProbe
    <3>2. CountsAreTrue'
      BY <1>4, <2>2 DEF CountsAreTrue, Counted
    <3>3. StagesAreInOrder'
      BY <1>1, <1>4, <3>1 DEF StagesAreInOrder, Pool
    <3>4. SelectionIsTheBest' /\ SelectionIsProbed'
      BY <3>1 DEF SelectionIsTheBest, SelectionIsProbed, Ended
    <3>5. QED
      BY <2>5, <3>2, <3>3, <3>4 DEF ChoiceInv
  <2>7. CASE ~world.probe
    <3> DEFINE selected == Prefix(Eligible(Subs(listed), count), world.limit)
    <3>1. phase' = "done" /\ scope' = ScopeOf(selected) /\ ids' = <<>>
      BY <1>1, <1>4, <2>7 DEF probeVars
    <3>2. CountsAreTrue' /\ StagesAreInOrder' /\ SelectionIsProbed'
      BY <1>1, <3>1 DEF CountsAreTrue, StagesAreInOrder, SelectionIsProbed
    <3>3. IsBest(selected, Wanted, count, world.limit, <<>>)
      BY <1>2, <2>3, <2>4, FirstIsBest
    <3>4. Wanted' = Wanted /\ world'.limit = world.limit /\ Wanted \subseteq Sub
      BY <1>1, <2>4 DEF Wanted, Range
    <3> HIDE DEF selected
    <3>5. excluded' = <<>> /\ UNCHANGED world
      BY <1>1
    <3>6. SelectionIsTheBest'
      BY <1>1, <2>2, <3>1, <3>3, <3>4, <3>5, BestIsSelected
    <3>7. QED
      BY <2>5, <3>2, <3>6 DEF ChoiceInv
  <2>8. QED
    BY <2>6, <2>7
<1>5. QED
  BY <1>3, <1>4 DEF CountResources

\* The pool is a prefix of the best candidates.
LEMMA PoolIsAList ==
  ASSUME NEW list \in Seq(Sub), Distinct(list), NEW count \in [Sub -> Nat], NEW size \in Nat
  PROVE  LET pool == Prefix(Eligible(list, count), size)
         IN pool \in Seq(Sub) /\ Distinct(pool)
<1> DEFINE e == Eligible(list, count)
           pool == Prefix(e, size)
<1>1. e \in Seq(Sub) /\ Distinct(e)
  BY EligibleAreTheBest
<1> HIDE DEF e
<1>2. /\ pool \in Seq(Sub)
      /\ \A k \in DOMAIN pool : k \in DOMAIN e /\ pool[k] = e[k]
  BY <1>1, PrefixIsFirst
<1> HIDE DEF pool
<1>3. Distinct(pool)
  BY <1>1, <1>2 DEF Distinct
<1>4. QED
  BY <1>2, <1>3 DEF e, pool

\* Of those who passed, the first are selected: all, or as many as the limit.
LEMMA FirstPassersPassed ==
  ASSUME NEW passers \in Seq(Sub), NEW n \in Nat \ {0}
  PROVE  /\ Range(Prefix(passers, n)) \subseteq Range(passers)
         /\ Range(Prefix(passers, n)) /= Range(passers) => Len(Prefix(passers, n)) = n
<1> DEFINE first == Prefix(passers, n)
<1>1. /\ Len(first) = IF n < Len(passers) THEN n ELSE Len(passers)
      /\ \A k \in DOMAIN passers : k <= n => passers[k] \in Range(first)
      /\ Range(first) \subseteq Range(passers)
  BY PrefixIsFirst
<1> HIDE DEF first
<1>2. ASSUME Len(first) /= n PROVE Range(passers) \subseteq Range(first)
  <2>1. Len(passers) <= n
    BY <1>1, <1>2
  <2>2. \A k \in DOMAIN passers : k <= n
    BY <2>1
  <2>3. QED
    BY <1>1, <2>2 DEF Range
<1>3. QED
  BY <1>1, <1>2 DEF first

\* Of no places nothing is kept.
LEMMA NothingKept ==
  ASSUME NEW list
  PROVE  Kept(list, {}) = <<>>
BY FS_EmptySet DEF Kept, InOrder

\* The best passers are selected, and every loser is excluded and reported.
LEMMA SelectingKeepsChoice ==
  ASSUME ChoiceInv, PoolInv, SelectPassers
  PROVE  ChoiceInv'
<1> DEFINE passers == Probed(TRUE)
           losers == Probed(FALSE)
           short == Len(passers) < world.limit /\ passers /= <<>> /\ losers /= <<>>
           tail == IF short THEN <<PartialCoverageDq>> ELSE <<>>
           size == ClampPoolSize(world.override, world.limit)
           list == Subs(listed)
<1>1. /\ phase = "probe" /\ world.picks = <<>> /\ UNCHANGED <<world, listed, counts, told, ids, results>>
      /\ world \in World /\ listed /= <<>> /\ DiscoveryTypeOK /\ ListingIsTrue /\ scope.subs = <<>>
      /\ ids = Pool(list, counts) /\ counts = Counted
  BY DEF ChoiceInv, SelectPassers, StagesAreInOrder, DiscoveryTypeOK, CountsAreTrue, Counted, probeVars
<1>2. /\ scope' = IF passers = <<>> THEN scope ELSE ScopeOf(Prefix(passers, world.limit))
      /\ excluded' = losers /\ findings' = ExcludedDq(losers) \o tail
      /\ phase' = IF passers = <<>> THEN "failed" ELSE "done"
  BY DEF SelectPassers
<1>3. /\ world.counts \in [Sub -> Nat] /\ world.limit \in Nat \ {0} /\ world.override \in Nat
  BY <1>1, WorldsAreAny
<1>4. /\ list \in Seq(Sub) /\ Distinct(list) /\ list /= <<>> /\ Range(list) = Wanted
  BY <1>1, ListedIsWanted
<1>5. counts \in [Sub -> Nat]
  BY <1>1, <1>3 DEF Counted
<1>6. ids = Prefix(Eligible(list, counts), size) /\ size \in Nat \ {0}
  BY <1>1, <1>3, PoolSizeIsPositive DEF Pool
<1> HIDE DEF size, list
<1>7. ids \in Seq(Sub) /\ Distinct(ids)
  BY <1>4, <1>5, <1>6, PoolIsAList
<1>8. /\ passers \in Seq(Sub) /\ Range(passers) = Passed
      /\ losers \in Seq(Sub) /\ Range(losers) = Range(ids) \ Passed
      /\ Passing(TRUE) \in SUBSET DOMAIN ids /\ Passing(FALSE) = (DOMAIN ids) \ Passing(TRUE)
  BY <1>7, PassersAreTheirOwn
<1>9. /\ passers = Kept(ids, Passing(TRUE))
      /\ losers = Kept(ids, (DOMAIN ids) \ Passing(TRUE))
  BY <1>8 DEF Probed
<1> HIDE DEF passers, losers
<1>10. tail \in {<<>>, <<PartialCoverageDq>>}
  OBVIOUS
<1> HIDE DEF tail
<1>11. {sub \in Sub : <<"billing_probe_excluded", sub>> \in Range(findings')} = Range(losers)
  BY <1>2, <1>8, <1>10, LosersAreReported
<1>12. DiscoveryTypeOK' /\ ListingIsTrue'
  BY <1>1, <1>2 DEF DiscoveryTypeOK, ListingIsTrue, Wanted
<1>13. CountsAreTrue' /\ StagesAreInOrder'
  BY <1>2 DEF CountsAreTrue, StagesAreInOrder
<1>14. Passed' = Passed
  BY <1>1 DEF Passed
<1>15. CASE passers = <<>>
  <2>1. phase' = "failed" /\ scope'.subs = <<>>
    BY <1>1, <1>2, <1>15
  <2>2. ids /= <<>>
    <3>1. Len(ids) /= 0
      <4> DEFINE e == Eligible(list, counts)
      <4>1. e \in Seq(Sub) /\ e /= <<>>
        BY <1>4, <1>5, EligibleAreTheBest
      <4> HIDE DEF e
      <4>2. Len(e) \in Nat /\ Len(e) /= 0
        BY <4>1
      <4>3. Len(Prefix(e, size)) = IF size < Len(e) THEN size ELSE Len(e)
        BY <1>6, <4>1, PrefixIsFirst
      <4>4. QED
        BY <1>6, <4>2, <4>3 DEF e
    <3>2. QED
      BY <3>1
  <2>3. Passed = {}
    BY <1>8, <1>15 DEF Range
  <2>4. \A i \in DOMAIN results : results[i].outcome /= "pass"
    BY <2>3 DEF Passed
  <2>5. SelectionIsTheBest'
    BY <1>1, <2>1, <2>2, <2>4 DEF SelectionIsTheBest, FailsForAReason
  <2>6. Range(scope'.subs) = {}
    BY <2>1 DEF Range
  <2>7. SelectionIsProbed'
    BY <1>1, <1>2, <1>8, <1>11, <1>14, <2>3, <2>6 DEF SelectionIsProbed, Passed
  <2>8. QED
    BY <1>12, <1>13, <2>5, <2>7 DEF ChoiceInv
<1>16. CASE passers /= <<>>
  <2> DEFINE selected == Prefix(passers, world.limit)
  <2>1. phase' = "done" /\ scope' = ScopeOf(selected)
    BY <1>2, <1>16
  <2>2. Passing(TRUE) /= {}
    BY <1>8, <1>9, <1>16, NothingKept
  <2>3. IsBest(selected, Wanted, counts, world.limit, losers)
    <3> DEFINE P == Passing(TRUE)
    <3>1. P \in SUBSET DOMAIN Prefix(Eligible(list, counts), size) /\ P /= {}
      BY <1>6, <1>8, <2>2
    <3> HIDE DEF P
    <3>2. IsBest(Prefix(Kept(ids, P), world.limit), Range(list), counts, world.limit, Kept(ids, (DOMAIN ids) \ P))
      BY <1>3, <1>4, <1>5, <1>6, <3>1, PassersAreBest
    <3>3. QED
      BY <1>4, <1>9, <3>2 DEF P
  <2>4. Range(selected) \subseteq Passed /\ (Range(selected) /= Passed => Len(selected) = world.limit)
    BY <1>3, <1>8, FirstPassersPassed
  <2> HIDE DEF selected
  <2>5. counts = Counted' /\ Wanted \subseteq Sub
    <3>1. counts = Counted'
      BY <1>1 DEF Counted
    <3>2. QED
      BY <1>4, <3>1 DEF Range
  <2>6. SelectionIsTheBest'
    BY <1>1, <1>2, <2>1, <2>3, <2>5, BestIsSelected
  <2>7. scope'.subs = selected
    BY <2>1 DEF ScopeOf
  <2>8. SelectionIsProbed'
    BY <1>1, <1>2, <1>8, <1>11, <1>14, <2>4, <2>7 DEF SelectionIsProbed, Passed
  <2>9. QED
    BY <1>12, <1>13, <2>6, <2>8 DEF ChoiceInv
<1>17. QED
  BY <1>15, <1>16

\* The picks are in scope before the probe, and stay whatever it finds.
LEMMA PickingKeepsChoice ==
  ASSUME ChoiceInv, ProbePicks
  PROVE  ChoiceInv'
<1>1. /\ phase = "pick" /\ world.picks /= <<>> /\ ids = <<>> /\ excluded = <<>> /\ findings = <<>>
      /\ UNCHANGED <<world, listed, counts, excluded, findings, told>>
      /\ scope' = [subs |-> world.picks, names |-> <<>>]
      /\ \/ ids' = world.picks /\ phase' = "probe"
         \/ ids' = <<>> /\ phase' = "done"
  BY DEF ChoiceInv, StagesAreInOrder, ProbePicks, StartProbe, probeVars
<1>2. DiscoveryTypeOK' /\ ListingIsTrue'
  BY <1>1 DEF ChoiceInv, DiscoveryTypeOK, ListingIsTrue, Wanted
<1>3. CountsAreTrue' /\ StagesAreInOrder'
  BY <1>1 DEF CountsAreTrue, StagesAreInOrder
<1>4. SelectionIsTheBest' /\ SelectionIsProbed'
  BY <1>1 DEF SelectionIsTheBest, SelectionIsProbed, Ended
<1>5. QED
  BY <1>2, <1>3, <1>4 DEF ChoiceInv

\* The same, without a finding at the end.
LEMMA OnlyLosersAreReported ==
  ASSUME NEW losers \in Seq(Sub)
  PROVE  {sub \in Sub : <<"billing_probe_excluded", sub>> \in Range(ExcludedDq(losers))} = Range(losers)
<1> DEFINE n == Len(losers)
           dq == ExcludedDq(losers)
<1>1. n \in Nat /\ DOMAIN losers = 1..n /\ \A k \in 1..n : losers[k] \in Sub
  OBVIOUS
<1>2. DOMAIN dq = 1..n /\ \A k \in 1..n : dq[k] = <<"billing_probe_excluded", losers[k]>>
  BY <1>1 DEF ExcludedDq
<1> HIDE DEF n, dq
<1>3. ASSUME NEW sub \in Range(losers)
      PROVE  sub \in Sub /\ <<"billing_probe_excluded", sub>> \in Range(dq)
  BY <1>1, <1>2 DEF Range
<1>4. ASSUME NEW sub, <<"billing_probe_excluded", sub>> \in Range(dq) PROVE sub \in Range(losers)
  BY <1>1, <1>2, <1>4 DEF Range
<1>5. QED
  BY <1>3, <1>4 DEF dq

\* Every pick that did not pass is reported, and only those.
LEMMA ReportingKeepsChoice ==
  ASSUME ChoiceInv, PoolInv, ReportPicks
  PROVE  ChoiceInv'
<1> DEFINE losers == Probed(FALSE)
<1>1. /\ phase = "probe" /\ world.picks /= <<>> /\ excluded = <<>> /\ world \in World
      /\ ids = world.picks /\ scope.subs = world.picks
      /\ UNCHANGED <<ids, results, world, listed, counts, scope, excluded, told>>
      /\ findings' = ExcludedDq(losers) /\ phase' = "done"
  BY DEF ChoiceInv, StagesAreInOrder, DiscoveryTypeOK, ReportPicks, probeVars
<1>2. ids \in Seq(Sub) /\ Distinct(ids)
  BY <1>1, WorldsAreAny, CandidatesAreLists
<1>3. losers \in Seq(Sub) /\ Range(losers) = Range(ids) \ Passed
  BY <1>2, PassersAreTheirOwn
<1> HIDE DEF losers
<1>4. {sub \in Sub : <<"billing_probe_excluded", sub>> \in Range(ExcludedDq(losers))} = Range(losers)
  BY <1>3, OnlyLosersAreReported
<1>5. Passed' = Passed
  BY <1>1 DEF Passed
<1>6. DiscoveryTypeOK' /\ ListingIsTrue'
  BY <1>1 DEF ChoiceInv, DiscoveryTypeOK, ListingIsTrue, Wanted
<1>7. CountsAreTrue' /\ StagesAreInOrder'
  BY <1>1 DEF CountsAreTrue, StagesAreInOrder
<1>8. SelectionIsTheBest'
  BY <1>1 DEF SelectionIsTheBest
<1>9. SelectionIsProbed'
  BY <1>1, <1>3, <1>4, <1>5 DEF SelectionIsProbed, Passed
<1>10. QED
  BY <1>6, <1>7, <1>8, <1>9 DEF ChoiceInv

\* Every step keeps the invariant; only the ends of the probe need the pool's.
LEMMA NextKeepsChoice == IInv /\ ChoiceInv /\ [Next]_vars => ChoiceInv'
<1> SUFFICES ASSUME IInv, ChoiceInv, [Next]_vars PROVE ChoiceInv'
  OBVIOUS
<1>1. PoolInv
  BY DEF IInv
<1>2. CASE ListSubscriptions
  BY <1>2, ListingKeepsChoice
<1>3. CASE CountResources
  BY <1>3, CountingKeepsChoice
<1>4. CASE SelectPassers
  BY <1>1, <1>4, SelectingKeepsChoice
<1>5. CASE ProbePicks
  BY <1>5, PickingKeepsChoice
<1>6. CASE ReportPicks
  BY <1>1, <1>6, ReportingKeepsChoice
<1>7. CASE ProbePool
  BY <1>7, ProbingChangesNoChoice
<1>8. CASE UNCHANGED vars
  BY <1>8, NothingHappened
<1>9. QED
  BY <1>2, <1>3, <1>4, <1>5, <1>6, <1>7, <1>8 DEF Next, Advance

\* The invariant of the choice holds at all times.
LEMMA ChoiceInvariant == Spec => []ChoiceInv
<1>1. Init => ChoiceInv
  BY ChoiceBegins
<1>2. IInv /\ ChoiceInv /\ [Next]_vars => ChoiceInv'
  BY NextKeepsChoice
<1>3. QED
  BY <1>1, <1>2, PoolInvariant, PTL DEF Spec

\* In whatever shapes the listing and the counts arrive, however the counts tie and
\* whatever the probe finds, discovery selects the best there is
\* (discoverTopSubscriptions): only what the filter matches, nobody passed over for one with
\* fewer resources unless the probe excluded it; and it gives up only for a reason.
THEOREM SelectionsAreTheBest == Spec => []SelectionIsTheBest
<1>1. ChoiceInv => SelectionIsTheBest
  BY DEF ChoiceInv
<1>2. QED
  BY <1>1, ChoiceInvariant, PTL

\* Whatever order the workers finish in, exactly those whose own probe passed can
\* be selected, every other candidate has its finding, and what the operator picked
\* is analysed whatever the probe found.
THEOREM SelectionsAreProbed == Spec => []SelectionIsProbed
<1>1. ChoiceInv => SelectionIsProbed
  BY DEF ChoiceInv
<1>2. QED
  BY <1>1, ChoiceInvariant, PTL
=============================================================================
