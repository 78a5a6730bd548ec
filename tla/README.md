# Az-Pixiu: specifications and proofs

Az-Pixiu is a local, read-only FinOps agent: a command-line program that asks an
Azure Managed Grafana MCP server (AMG-MCP) for cost and resource evidence, lets a
model reason over it, and writes a report with citations. This directory holds
TLA+ models of the parts of it whose correctness depends on order, retries,
concurrency, shared files or bookkeeping across several lists, the TLC
configurations that check them, and TLAPS proofs about the core.

Paths in this file are relative to the repository root (`src/...` is the
TypeScript source). `PROJECT.json` maps each definition to the lines it models.

## 1. Inventory

### The run and its parts

`src/run/orchestrator.ts` (`runAnalysis`, `doRun`) drives one run as a fixed
pipeline. Each stage below is called by it, in this order, and returns before the
next one starts; the only real concurrency inside a run is the billing probe's
worker pool, and the only state shared between runs is on disk.

| component | source | state | operations | what makes it correct |
|---|---|---|---|---|
| MCP client and transports | `src/mcp/client.ts`, `live.ts`, `fixture.ts`, `allowlist.ts` | cached catalog, connection | discover, invoke, close | nothing outside the allowlist or the advertised catalog is invoked; discovery happens before use |
| subscription discovery | `src/run/subscription-discovery.ts` | none | list, filter, count, rank, probe, select | the selection is the highest ranked subscriptions that passed; excluded ones are reported |
| billing probe | `src/run/billing-probe.ts` | work index, outcomes | worker pool, per-subscription attempt, timeout, one retry | every subscription gets one outcome, in input order; a late answer changes nothing |
| billing probe cache | `src/run/billing-probe-cache.ts` | one JSON file | get, set | a hit is an unexpired outcome of the same subscription and endpoint; sets that do not overlap lose nothing; what is torn is rewritten |
| playbooks and planner | `src/playbooks`, `src/reasoning/planner.ts` | none | build plan, validate, repair | an accepted plan is allowlisted, advertised and free of duplicates |
| billing cache store | `src/billing-cache/file-store.ts` | a tree of cell files and a manifest | get, set, list, prune, rebuildManifest, sweep | a hit is a complete record some `set` wrote for that key; torn state costs a miss, never a wrong answer |
| cost evidence provider | `src/run/cost-evidence-provider.ts` | none | serveFromCache, writeThrough | only mature, trusted totals become durable; what is served needs no live call |
| evidence executor | `src/evidence/executor.ts`, `retry-policy.ts`, `payload-failure.ts`, `src/failure/taxonomy.ts` | budgets, throttled capabilities | execute | budgets hold, retries are justified, each request is accounted for once |
| transport rollup | `src/schemas/transport.ts` | none | rollup | the rollup says what the server saw |
| cost zero assessment | `src/run/cost-zero-assessment.ts` | none | assess, quarantine | an unexplained zero is never used as evidence |
| normalizer | `src/evidence/normalizer.ts` | none | normalize | one record per raw result, scope taken from the answer |
| waste detection | `src/run/waste-detection.ts`, `src/playbooks/waste-lanes` | none | lanes | an incomplete lane produces no claim |
| freshness | `src/run/freshness.ts` | none | compare windows with the clock | every total that may still grow is named |
| history | `src/history`, `src/run/prior-run-evidence.ts` | run tree on disk | walk, filter, newest first | only complete runs of the same target, and none of analyze missed |
| pricing | `src/pricing` | a price table | look up, fall back, sum | a price that is not known is told, never taken for zero |
| reasoner and post-processing | `src/reasoning` | none | reason, drop, score | nothing survives that cites what was dropped |
| run classification | `src/run/orchestrator.ts` | none | retrieval outcome, run status | the status never hides a cost retrieval that failed |
| report, artifacts, coverage | `src/report` | three files per run | write | run.json is written last and atomically |
| evaluation | `src/evaluation` | none | sweep items and models, score, check expectations, publish | an exit code of 0 means that every item passed with every model; contracts fail closed |
| command line | `src/cli.ts`, `src/run/scope-intake.ts` | none | intake of the scope, commands, exit codes | the exit code tells what is on disk |
| observability | `src/observability` | exporters | trace | losing a trace changes nothing else |

### Behaviours that are hard to test

* Retry, backoff and pacing over a whole run: two budgets, caps and clamps, with
  answers in any order (`executor.ts:158-336`).
* Two processes sharing one cache tree: cell and manifest are two files, renamed
  separately and read separately, while another process may sweep, prune or
  rebuild (`file-store.ts`).
* A crash between any two file operations, in the cache and in the runs directory.
* The probe cache: several workers of one process and several processes
  read, merge and rename one file; the temporary name repeats within a
  millisecond (`billing-probe-cache.ts`).
* A probe that times out while its answer is on the way (`billing-probe.ts`).
* Callers that share a client whose connection is made on first use, against a
  server whose tools change (`client.ts`, `live.ts`).
* A failure whose category is decided by the first of many rules, over messages
  that quote whole response bodies (`taxonomy.ts`).
* A zero that may be a real zero, a scope error or a missing permission, passing
  through cache, evidence, report and run status (`cost-zero-assessment.ts`,
  `cost-evidence-provider.ts`, `orchestrator.ts`).
* Totals of windows that have not settled, judged when the run ends
  (`freshness.ts`).
* Rows that are lost, garbled or foreign in a lane of waste detection, and the four
  places that must then agree (`waste-detection.ts`).
* Drops that must reach everything that cites what was dropped, in answers of a
  model that need not be consistent (`post-process.ts`).
* Answers in half a dozen shapes (`subscription-discovery.ts:585-760`).
* Contracts that hold of a run with nothing in it (`expectations.ts`).

`PROJECT.json` lists every hazard with its line and the properties that cover it.

## 2. Plan

The most important promise of the program is that a report says what was really
retrieved. The modules follow the evidence, from the wire inwards.

Written, in this order:

1. `RequestLedger`, `EvidenceExecutor`, `TransportRollup`,
   `EvidenceExecutor_proofs`: retries, budgets, pacing, and the lists a run gets.
2. `CacheRegister`, `BillingCacheStore`, `BillingCacheStore_proofs`: the cache
   tree on disk under several processes and crashes.
3. `BillingProbeCache`, `BillingProbeCache_proofs`: the file the probe shares.
4. `BillingProbe`, `DiscoveryResponses`, and `SubscriptionDiscovery`, which extends
   both, with `SubscriptionDiscovery_proofs`: from the listing through the worker pool
   to the selection.
5. `ZeroAssessment`, `CostRun`, `CostRun_proofs`: whole runs over one cache, from the command's dates
   to the status. `CostRun` takes the cache as `CacheRegister` and the executor as
   `RequestLedger`, the two abstract specifications proved above.
6. `FailureTaxonomy`, and `Session`, which extends it, with `Session_proofs`: the
   client, the transport's connection, the planner, and the callers.
7. `WasteDetection`: lanes, evidence, verdicts.
8. `Reasoning`: post-processing, rubrics, status.
9. `RunArtifacts`, `RunArtifacts_proofs`: files, history, exit codes under kills.
10. `Expectations`, and `Evaluation`, which extends it.
11. `Claims_proofs`, about `WasteDetection`, `Reasoning` and `Evaluation` together: what a
    run may claim, and what is claimed of it.

Still worth doing:

* What the theorems exclude by hypothesis (section 6, at the end) in models of its own: a
  planner's plan over one cache, pages of a lane's answer with their real totals.
* `WasteDetection` takes each lane's executor as one request of the ledger. The sum
  of the backoff over the executors of a run is not bounded by the code, and no
  property claims it is.

## 3. What is modelled, and how it corresponds

**EvidenceExecutor** (`src/evidence/executor.ts`). One process. `pc` is the place
in `execute`: `BeginRequest` takes the next request and paces it, the attempt
actions are one iteration of the retry loop each (success, failure with the
decision to retry, invoke before discovery), `SettleRequest` writes the transport
entry, `RecordEvidence` and `RecordFailure` push to the list the caller gets, and
`ReturnResult` returns. Time is the sum of sleeps. `calls` is a history variable:
what the server saw. The two embedded forms of failure (an error flag, a rate
limit inside a clean answer) are outcomes of a call. **RequestLedger** is what the
caller may rely on: each request is resolved once and in order, and the lists agree.
**TransportRollup** is the reduction of `src/schemas/transport.ts`: its running totals
are one recursive function, its counters cardinalities. The breakdown by capability is
the same reduction over fewer entries and is left out.

**BillingCacheStore** (`src/billing-cache/file-store.ts`). Every file operation is a
step of its own: reading the cell and the manifest in `get`; writing and renaming
the cell's and the manifest's temporary files in `set`; unlinking one by one and
rebuilding in `prune`; `rebuildManifest`; the sweep of temporary files. Processes
interleave and crash between steps; operations may fail. A cell's content is a
record (its key and the serial number of the write) or a kind of junk; a checksum
is the record it was taken of. **CacheRegister** is the promise: per key one
register that may be forgotten but never answers another value. `prune`,
`rebuildManifest` and the sweep are public operations that only tests and callers
of the API use; the command line calls `get` and `set`.

**BillingProbeCache** (`src/run/billing-probe-cache.ts`). One JSON file, with inodes,
because `writeFile` opens, truncates, writes and closes the temporary file, and
another worker may rename it in between. `Tick` is the clock from which TTLs and
temporary names are taken. A run may find no file, a document of the cache, one that
reads as no entries because it is torn or foreign, or one of the right version whose
entries are null: `readFile` lets that one through, and a set then throws before it
writes and swallows the exception (`SetThrows`). Other foreign documents of that
version (a list for entries, entries without valid dates) are left out, and so is a
get that throws on null entries, in this module and in `BillingProbe`.

**BillingProbe** (`src/run/billing-probe.ts`) is the worker pool: take the next index,
look in the cache, call, race the timer, wait and try once more, record by index. A
call that timed out stays pending and may be answered later; the answer must then
change nothing. A lookup may miss or hit with any outcome; which hits there can be is
what `BillingProbeCache` says.

**DiscoveryResponses** (`src/run/subscription-discovery.ts:585-760`) are the parsers of
the two answers over tagged JSON values, and below them the shapes as the server
writes them. What the code filters is given by the positions that stay (`Kept`), and
what it sorts by which members stand before each, position breaking ties as a stable sort
does (`InOrder`). **SubscriptionDiscovery**: list and filter, count and rank, build the
pool, run `BillingProbe` over it, select; or probe and report the operator's picks
(`cli.ts:518-568`). The world (what there is, the shapes it comes in, the
operator's options) is chosen in `Init`, so that the properties compare the
selection with the truth and not with what was parsed.

**ZeroAssessment** (`src/run/cost-zero-assessment.ts` and the summary of
`cost-evidence-provider.ts`): pure operators over a batch of answers. A payload is
reduced to its shape, its total as each of the two readers computes it (zero, not
zero, missing), whether any part contradicts it, and the ids it returns.
`SummaryFits` says which pairs of totals one payload can have. It assumes that a
payload has one shape; one with both rows and subscriptions would be read
differently by the two readers. `ProvedZero` and `Sound` say what the decisions are
for, independently of their order.

**CostRun** (`src/run/orchestrator.ts`, `scope-intake.ts`, `cost-evidence-provider.ts`,
`freshness.ts`, the two cost playbooks, `report/coverage.ts`): each process is one
run. `Reject` and `Start` take the command's dates, fill in the missing ones, choose
the plan and fix eligibility, as the provider's constructor does. `ServeHit` and
`ServeLeft` handle one request of `serveFromCache` each (a read of the cache is a
step, and may miss), `Retrieve` and `RetrievalFails` one request of the executor,
`WriteThrough` one answer. `Conclude` is everything after it: none of that is read
by another run, so one step is as good as many. Evidence, freshness findings,
coverage, outcome and status are operators over the run's record. Requests for
capabilities other than cost and inventory cannot change any of it and are left out.
What waste detection and the reasoner contribute to the status is a free choice of
two Booleans here.

**FailureTaxonomy** (`src/failure/taxonomy.ts`, `src/evidence/payload-failure.ts`):
`classifyFailure` as the first rule that fits, over the class of the error, its
status and the words its message contains; the failures embedded in a payload.
**Session** (`src/mcp`, `src/reasoning/planner.ts`): `Discover` caches the catalog,
`Invoke` refuses by it, `Connects` and `Sends` are the two halves of a call between
which other callers run, `ServerChanges` changes what is advertised. `Plan` and
`PlanUnusable` are the planner's two rounds, `UsePlaybook` the analysis without a
model, `Close` the end of the session, however it ended. `Answers` is what a call may
end with; the cause is kept beside the category, so that the two can be compared.

**WasteDetection** (`src/run/waste-detection.ts`, `playbooks/waste-lanes`, `pricing`,
the report's lane sections): lanes run in registry order. `LaneFails` and
`LaneAnswers` are the two ends of a lane's request. An answer is a set of rows about
`world`, of which some are lost, garbled or foreign; `Admissible` checks a row
against columns, id, query and effective scope; `LaneEvidence`, `Verdict` and `Notes`
are what reasoner and reader get of the result; `Finish` is what the pipeline makes
of it. With `Paging` an answer may be one page, whose `count` the code takes for the
whole: the totals are then not whole, and the run assumes that it is FALSE.

**Reasoning** (`src/reasoning`, `src/confidence.ts`, `src/evaluation/scoring.ts`, the
status in `orchestrator.ts`): `Reason` is the model, which may answer anything its
schema admits; `CheckFacts`, `CheckHypotheses` and `CheckRecommendations` are the
three loops of post-processing, in their order; `Score` runs the rubrics and derives
the status. Texts are the numbers, resource names and commands the checks find. An
issue holds the item it is about, where the code keeps its id (`post-process.ts:42`):
of two items with one id the reader of `issues` cannot tell which was dropped.

**RunArtifacts** (`orchestrator.ts`, `report/runjson.ts`, `history/filesystem-store.ts`,
`scope-signature.ts`, `prior-run-evidence.ts`, the analyze command in `cli.ts`): runs
are processes on one directory. A scope is a target (subscriptions, resource groups,
analysis type) and a filter (resource types); the signature, by which prior runs are
chosen, hashes the target only. `ListHistory` and `Read` walk the directory entry by
entry while others write; of a directory of nested runs one is read. Runs of the
evaluation are given the store without a history (`NoHistory`).
`Select` filters, sorts and cuts, `Write` is one step of one of the four file
operations (each may fail, or leave half a file if the run is killed), `Finish`
closes the client and exports, `Leave` is the exit code. `Kill` may happen at any
place. `Hollow` are files that others put there.

**Expectations** and **Evaluation** (`src/evaluation`, the eval command): an item's
contracts as operators on a run, and the sweep over items and models: `Prepare`,
`ItemThrows`, `RunItem`, `PushScores`, `CreateRunItem`, `Summarise`. A run is one
step that may come out in any way of the instance. A batch of scores (`Batch`) comes
back accepted or not, and in either case the server has refused some part of it, one
of `Refusals`: a 207 is success to the code, and an answer that is lost is a failure,
whatever was stored. `scores` keeps what was sent beside what was stored.

## 4. Runs

Every run is listed in `PROJECT.json`. Passing runs:

| run | instance | what it shows |
|---|---|---|
| `executor` | all plans of up to 3 requests over 2 capabilities, up to 3 attempts, three outcomes besides success (rate limit, timeout, permanent), budgets smaller than the sum of the delays | budgets, justified retries, backpressure, true entries, a true rollup, refinement of the ledger, termination |
| `billing_cache` | 2 processes, 2 months on either side of the cutoff, 1 digest, 2 writes, 2 kinds of junk | no wrong answer, durability, exact sequential use, refinement of the register |
| `billing_probe_cache` | 2 workers of one process and 1 of another, 2 subscriptions, 2 outcomes, TTLs 2 and 1, 2 writes, 2 milliseconds in a unit of time | no expired or foreign hit, sequential sets accumulate, a lone set heals a torn file, processes never corrupt each other's file, nobody writes null entries |
| `discovery` | up to 3 subscriptions, counts 0 to 2, limits 1 and 2, every shape, names and filters, 2 workers with a cache that may hit, 3 responses and the timer, picks | the selection is best, probed and reported, results are earned by the attempt they came from, discovery ends |
| `cost_run` | one process with 14 kinds of answers and 5 inventories on 2 subscriptions in both types of analysis; two processes on one month that becomes stable | only earned cells, cached runs are as good as live ones, evidence is sound, settled or named, status and coverage agree |
| `session` | the run and 2 workers, 4 capabilities of which one mutates and one is off the list, 3 sets of offers, 5 plans, failures of every source | only advertised reads are sent, one connection, plans that pass the planner pass the client, retries make sense whatever status and words a credential fails with, the session closes |
| `waste` | 2 lanes, every subset of 6 resources on the scope's boundaries, 3 scopes, rates by region, without one and missing | verdicts and totals are honest, evidence is in scope, losses are told in all places |
| `reasoning` | every answer made of 4 facts, at most 2 of 4 hypotheses and 2 of 6 recommendations, with ids used twice; 2 pools | support is closed, each loss has its reason (a fact exactly one), processed output passes the rubrics |
| `artifacts` | 2 runs of analyze and 1 of the evaluation on one directory, 2 targets narrowed in 2 ways, a hollow file, history of 1 entry, kills at any step | run.json stands for a report, the history of a run of analyze is of its own target, however narrowed, and misses no run of analyze, the exit code tells the truth |
| `evaluation` | 3 items, 1 or 2 models, some 350 runs of each kind of lane, record and citation, a server that may fail, refuse a batch or a part of it | green means all passed, passed means grounded, what the server stores is of the verdict, an item whose scores were sent is linked or reported, scores refused go untold only in a batch called a success |

Why the bounds suffice. The executor's state between requests is its two spent
budgets, the last capability and whether it was throttled: three requests over two
capabilities give every combination of a request before, the same capability
again, and another one between; proofs cover all larger instances. In the cache
store the promises concern one key and the months on either side of the cutoff;
two processes and two writes give every overlap of two operations, and the proofs
cover the rest. A pool of two workers over three candidates has a worker that
takes a second candidate while the other waits. For `CostRun` the assessment looks
at one other answer and one inventory at a time, and runs share nothing but the
cell; the constraint `AloneOrSimple` keeps two runs from both meeting every kind of
answer, since what a cell holds is assessed in the run that writes it. In a session
two workers and the main line give every order of two first calls and a third. Of the
runs on one directory the two of analyze are narrowed differently; the third has the other
target where they share one, and otherwise is asked what one of them is (`SomeScopes`):
a reader meets runs of its own target and of the other. A
lane's verdict depends on which kinds of rows were lost and is independent of the
other lanes. What is proved holds for all sizes (section 6). `MaxTime`, `MaxWrites`,
`MaxCalls` and `MaxRequests` are the only bounds on counters; each is a guard of the
action that counts. `Nesting` = 4 bounds how deep the listing's wrappers are followed;
the program recurses, and the shapes of the run nest twice.

Each inductive invariant (`IInv`, and the others section 6 names) was checked as an
invariant of the run of its module before it was proved; only the parts that say
something of the program are properties of the runs.

`CHECK_DEADLOCK FALSE` stands where every process really ends (discovery, sessions,
lanes, sweeps, runs). The executor and the artifacts have an explicit final step, and
the stores never stop.

### Where documentation and code differ

Each of these runs checks one statement that the repository makes, and TLC shows a
behaviour of the code that contradicts it.

| run | statement | behaviour |
|---|---|---|
| `cost_run_baseline` | success means that everything landed | a failed baseline call leaves the status at success |
| `session_transient` | a 502 or 503 is retried | the live transport's error carries no status, and the category becomes `schema_mismatch` |

Met while modelling, and not the subject of a run:

*Executor and cache.*
* `retry-policy.ts:16-18` promises that the worst case stays inside ten minutes;
  backoff (540 s) and pacing (150 s) have a budget each, and they add up.
* Two overlapping sets of one cell can leave the one's cell and the other's checksum
  (`file-store.ts:287`); reads then miss until the next set. `local-billing-cache.md:327`
  calls a lost entry the worst case.
* Two workers of one process share a temporary name within a millisecond
  (`billing-probe-cache.ts:168`, against the comment at 75-76); the file may be torn
  until the next set.
* `{"version": 1, "entries": null}` passes `readFile` (`billing-probe-cache.ts:152`, as
  `typeof null` is "object"). Every set then throws at 131 and swallows it, so that the
  file never heals, against the comment at 160-161; a get throws at 103, outside the
  `try` of `billing-probe.ts`, and discovery fails, against the comment at 31-33.
* The scope's window decides whether a month is cached, the request's own window is
  not looked at (`cost-evidence-provider.ts:198`, against `local-billing-cache.md:392`);
  a planner's plan that splits the month is stored in the month's cell. The runs use
  the playbooks' plans.

*Cost.*
* An id that is returned in other letters is accepted by the assessment
  (`cost-zero-assessment.ts:416`) and not counted by the classification
  (`orchestrator.ts:1398`): the run has failed with evidence in hand.
* `orchestrator.ts:302-306` calls a run partial if some subscription returned cost
  evidence. A run whose every cost answer is quarantined is partial as well.
* Neither the command line nor the scope's schema removes repeated subscriptions.
  With one given twice, the report never counts it as fully covered although the
  status is success (`coverage.ts:130`), and the second of the two equal answers is
  stored under the first one's assessment (`cost-zero-assessment.ts:197`). The
  scopes of the passing runs repeat none.
* `stabilization_offset_days` may be set as low as 0, the time for which totals may
  still grow is fixed at 48 hours, and served evidence gets no freshness finding.
  With an offset below 2 unsettled totals are served without a caveat; the model
  assumes `Lag <= Offset`.
* A group of records of which one stands for the whole scope has a finding that names
  only the ids the others list (`mergeScopeSubsets`).
* The sentence about a run's outcome may say that it completed without truncation for
  a partial run, when cost does not apply and waste was incomplete
  (`orchestrator.ts:1491`).

*Discovery.*
* `subscription-discovery.ts:384-386` announces a finding when the probe leaves
  fewer subscriptions than the limit. None is made if the pool was smaller than
  the limit and all of it passed.
* A count that is not understood is taken for no resources at all, and the ranking is
  the listing's order; only a diagnostic tells. A table without columns is taken to be
  id and count. Ids of listing and counts are compared letter by letter.
* A subscription whose name contains, say, "access denied" makes the whole listing an
  error. Picks and listings may repeat ids; nothing checks.

*Session.*
* `planner.ts:49` says that duplicates are removed; they make the plan invalid. Two
  requests that differ in the order of their keys pass, though their digests are equal.
* "Could not acquire AMG-MCP token" fits no rule and is a schema mismatch.

*Waste detection.*
* A page's `count` is taken for the whole, `totalRecords` is not read. The model
  assumes that a server returns a resource once at most and hides no attachment. A
  subscription id with blanks around it makes the parsing of evidence throw.
* A failure to load the default rates is kept for the life of the process.

*Reasoning and evaluation.*
* The design says that dangling citations and commands trigger a repair; the code
  drops. A hypothesis may cite nothing (`schemas/reasoning.ts:66`), so a recommendation
  need not lead to a fact (`docs/prd/core-agent.md:104` says it does).
* A data-quality finding may name recommendations that were dropped. The rubric for
  read-only adherence reads validation steps, post-processing does not.
* `--models ","` gives no runs and exit code 0. A publisher's 207 is success whatever
  its body refuses (`langfuse-publisher.ts:168`): the trace is linked and
  `langfuse_publish_error` unset though scores are missing, against `runner.ts:120`. Of two recommendations with one id the second is judged by the citations of
  the first. If preparing a later model fails, the summaries of the earlier ones are
  lost. Nothing makes dataset ids unique.

*Artifacts.*
* A run.json with a `schema_version` and nothing else makes the summary throw and the
  run that reads it fail, against `filesystem-store.ts:28-31`.
* A prior run may have started later than the one that reads it. The signature leaves
  the resource types out because runs that narrow differently are not the same
  (`scope-signature.ts:22-23`); left out, they make them the same. Of a directory of
  nested runs the first that is found stands for all, and filtering comes after, against
  `filesystem-store.ts:32-34`. A failure to close the client gives exit code 4
  although all files are there. Temporary files of killed runs remain.

## 5. Fairness

Safety needs none. `RunEnds` of the executor assumes weak fairness of its steps:
every call settles, because the SDK's request timeout rejects one that is not
answered, and timers fire. `SessionCloses` assumes weak fairness of the session's
steps for the same reason; the server may change what it advertises at any time, and
the workers make a bounded number of calls because their candidates are finite.
`DiscoveryEnds` assumes only that each worker proceeds and that its timer fires;
nothing is assumed of the server, which may never answer a probe. The retry delay's
timer is unref'd (`billing-probe.ts:352`), so the process must be kept alive by
something else, which the transport's connection does. No fairness is assumed of
caches, runs, lanes and sweeps.

## 6. Proofs

`EvidenceExecutor_proofs` proves, for every plan, policy, number of capabilities and
order of answers: `TypeCorrect`, `SleepBudgetsHold`, `RetriesJustified`,
`EntriesAreTrue`, `BackpressureHolds`, `RollupIsTrue`, `RunsNeverTurnBack`, and
`ExecutorImplementsLedger`, the safety of the refinement. The inductive invariant `IInv` adds
to the type invariant what `pc` implies about the lists (`ControlInv`: between
requests the number of entries is the number of settled requests), what the spent
attempt's local variables say about `calls` (`LastCallInv`), and that history is
ordered by request (`HistoryInv`); without them neither the entry's categories nor
the retry's reason can be traced back to the server's answers. For backpressure the
executor's memory is compared with the history (`BackpressureInv`): whoever answered
429 is remembered, and before the next call of a remembered capability the clock has
moved on since the last call, by a backoff or by the pace, or the pacing budget is
spent. The rollup compares sums over the entries with the history. `RollupInv` says that
an entry's attempts are the calls of its own request, which takes `HistoryInv` (no call
belongs to a request that has not begun), and that the running totals of the entries so
far, with the request in progress, are the calls so far. That a total grows by the entry
that is appended is an induction over sequences; it is carried out by a least
counterexample among the naturals (`NaturalsHaveLeast`), which is first-order. What the
counters count is then a set of requests, described in two ways (`EntriesTellRequests`).
`RunsNeverTurnBack` is what termination rests on: every step raises the pair of request
and stage, and plan and policy bound both. Assumptions: `PlanAssumption`, `PolicyAssumption` (natural numbers, at least one
attempt) and `DoublingAssumption`, that powers of two are positive natural numbers for
the exponents used, which the provers cannot derive.

`BillingCacheStore_proofs` proves, for any number of processes, months, digests,
writes: `TypeCorrect`, `NoWrongAnswer`, `RecordsAreDurable`,
`StoreImplementsRegister`, `SequentialUseIsAlwaysExact`. The invariant says that every record in a cell file, in a
temporary file, in a reader's memory or in a draft of a writer belongs to the file's
key (`CellsHoldTheirOwn`, `OperationsCarryTheirOwn`) and that a prune unlinks only
months before the cutoff (`PrunesOnlyTheOld`). The key fact is that two keys never
share a file (`KeyFacts`, from the definition of `FileOf`). For the manifest a second
invariant (`SoloInv`) says, as long as nothing has overlapped or failed, that one
operation at most is in progress and how far it has brought the index
(`StateIsExact`): before its cell is committed the manifest is exact, after it for
every other file; a draft is exact; a rebuild has indexed what it has scanned; a prune
that has unlinked something will rebuild. Assumption: `CacheAssumption`.

`BillingProbeCache_proofs` proves, for any number of processes and of workers in each:
`CacheInvariant`, `HitsAreAlwaysFresh`, `SequentialSetsAlwaysAccumulate` and the action
property `FileAlwaysHeals`. Everything in a file or on its way to one was set
(`EntriesWereSet`), which needs no more than that junk does not parse. The file heals
because an inode has one temporary name at most and one that is about to be used is
new (`NamesAreUnique`); because processes share none, as their number is in the name
(`InodesAreOwned`); and hence because a set that meets no other of its process finds
in its temporary file what it put there (`LoneSetsWriteAlone`). A set that gets as far
as its rename has read a file it could work on; that a file with null entries can only
have been found, and is the one file from then on, is `NullIsForeign`, so that
`FileAlwaysHeals` also says that such a file never comes into being nor goes away.
`NothingIsLost` follows
the last entries from the file into the draft of the one set in progress and back.
Assumption: `ProbeCacheAssumption`.

`SubscriptionDiscovery_proofs` proves, for a list of any length, every number of
workers the program admits and every order of answers, timers and cache hits:
`PoolInvariant` and `ResultsAreAlwaysEarned`. A worker's attempt is the second only if
the first was transient, and nothing is settled of an attempt it has not made
(`AtWork`); what no worker has taken has no history (`NothingIsAnticipated`), and an
index once taken is below `nextIndex`, which is why two workers are never at one
candidate. Late answers are steps like any other and
preserve it all. Discovery around the pool only decides when it starts.

Of discovery as a whole it proves `SelectionsAreTheBest` and `SelectionsAreProbed`, for
any subscriptions, counts, names, options and limits and every shape an answer can have.
The invariant `ChoiceInv` says what each stage hands to the next: what is listed is what
is wanted, each once and under its own name (`ListingIsTrue`); what the ranking goes by is
what the second answer told (`CountsAreTrue`); what is probed is the best of the listing
or the operator's picks (`StagesAreInOrder`). The parsers are gone through shape by
shape: each recognises the rows of a world written in it, and nothing else, as far as
`Nesting` wrappers deep. Order is reasoned about without induction: the place of a member
of a list is the number of members before it, so that a sorted list, its beginning and
what is kept of it are determined by sets (the sections on lists and the ranking). Best
means that whoever truly has more resources than a member of the selection is in it, or
was excluded by the probe. Assumptions: `ProbeAssumption`, and
`DiscoveryAssumption`, that the subscriptions are finitely many and none is the missing
value of JSON, and that a filter and picks are not given together.

`Session_proofs` proves, for any capabilities, allowlist, offers, plans and workers:
`OnlyReadsAreSent`, `ConnectionIsShared`, `PlansPassTheClient`,
`OnlyPassingTroubleIsRetried`. Why one connection is
enough is not visible in the transport, where two first calls would each connect: it
is the order of the command. The invariant says so: until the catalog is known only
the main line has a call (`CatalogComesFirst`), and with the catalog comes the
connection (`ListingConnects`), so that nobody else ever connects. `CallsAreAllowed`
carries the client's check from the entry of a call to its sending; `PlansAreSound`
carries the planner's check, against the raw catalog and the static list, to the
client's, against the allowed part of the same catalog. That a category which is
retried comes from trouble that may pass is a fact about `classifyFailure` and about
what can be thrown: the rules are gone through for each source of an error. Assumptions:
`SessionAssumption`, and for the last theorem `AnswersAssumption`: transport, SDK and
tools give errors without a status. A credential may fail with any status and any words;
the code retries it after a 429 or an ETIMEDOUT as it would any other trouble, and what is proved is
that it does not once the status is a refusal (400, 401, 403, 404, 422), whatever is said.

`RunArtifacts_proofs` proves, for any number of runs, scopes and foreign files, and any
kill: `ArtifactsInvariant`, `RunJsonIsReliable`, `ExitCodeIsTrue`, `HistoryInvariant`,
`HistoryIsAlwaysExact`. Files are in the order of the writes, and `ResultsComeLast`
says where a run can be when its run.json is there, and what can still fail then. For
the history, a run that is complete has a directory and stays complete, so that what
was complete when the walk began is found or its turn still comes
(`NothingIsMissed`), whatever is written or killed meanwhile; and what the reasoner is
shown is a selection of what was found, sorted and cut (`PriorIsSelected`). That nothing
is missed is about runs of analyze, on both sides: those of the evaluation have no store,
and of their own runs one is read. Assumption:
`ArtifactsAssumption`.

`Claims_proofs` holds the proofs about three modules, which share no variable.

About `Reasoning`, for every answer of a model and every pool of evidence:
`ReasoningInvariant`, `SupportStaysClosed`, `ProcessingSatisfiesRubrics`,
`EveryLossHasItsIssue`. The lists are
processed in order (`ListsComeInOrder`), because a list must be complete before it is
cited against, and items that are left have earned their level and cite something
(`ItemsAreProcessed`), which is what the rubrics ask of them later. That no loss goes
untold is a second invariant, `LossInv`: issues are about items of the answer, of each
list that has been processed every item is left or has an issue, for a fact exactly one
(`LossesSoFar`), and the status is not success once there is an issue of a drop.
Assumption: `ReasoningAssumption`, what the schema of an answer admits.

About `WasteDetection`, for any lanes, resources, rates and scopes and any answers:
`LaneEvidenceIsInScope`, `LaneLossesAreReported`, and `LaneTotalsAreHonest`, which has the
hypothesis `~Paging` and is false without it (see "Met while modelling"). The invariant
`WasteInv` says that a lane's candidates match it and are complete unless it is lossy
(`ResultsAreReal`), and that records, failures and the final status are functions of the
results (`RecordsFollowResults`); without the second, the four places that tell a loss
could not be compared. That a total over fewer resources is no larger is an induction over
finite sets. The library's is out of reach, but the proper subsets of a finite set are
well founded, and a smallest counterexample needs no operator (`SumsExist`,
`SumWithout`). Assumption: `WasteAssumption`, finitely many resources, natural prices, one
entry per rate, no empty scope.

About `Evaluation`, for any dataset, models and outcomes of their runs:
`GreenSweepsPassed`, `PublishedScoresAreVerdicts` and `PassedItemsAreGrounded`. The
invariant `SweepInv` says where the sweep is (`ResultsKeepPace`: every model before the
present one has a verdict of every item, so that none is skipped or counted twice when
runs throw or the publisher refuses), that what was sent is the batch of
the item's own result and what is stored is a part of it (`ScoresFollowResults`), that an
item whose scores were sent is linked or its failure reported (`LinkedOrReported`), and that the verdict judged is of the last run
(`VerdictIsOfLast`). Grounding needs no further induction: it follows from the contracts
themselves, each of which is shown to fail closed. Of `Refusals` nothing is assumed: the
server may store any part of any batch. Assumption: `EvaluationAssumption`, a
dataset that is not empty, and evidence that is a list.

`CostRun_proofs` proves `OnlyEarnedCellsAreStored`, that `CellsAreEarned` holds for
every answer of the server and any number of runs over one cache. It is conditional on
`NothingIsRepeated`: no planner's plans, and no subscription twice in a scope. Both are
needed, as TLC shows for the first (see "Met while modelling"), and as the lookup of an
assessment by its request shows for the second. The invariant says what a run that may
still write has kept: it asks each thing once, about its month (`AsksOnce`); what the
cache left to retrieve is a part of that (`RemainsOnce`); each answer is to a request
of its own and came when the month was stable (`AnsweredOnce`). Hence an answer is
judged by its own assessment (`OwnAssessment`), and a total without an entry and a
valid zero are both sound (`OrdinaryTotal`, `ValidZero`). Assumption: `RunAssumption`.

On top of it stands `AccountInv` (`AccountInvariant`): every stored record would be
served again (`CellsAreGood`), the plan asks for each subscription of the scope
(`PlanIsAboutScope`), and each of its cost requests has been served or is among those
left to retrieve, to which all answers belong (`RequestsAreAccounted`); when the run is over, every total that may still grow
is named (`GrowthIsTold`). From this follow, without further induction,
`EvidenceIsAlwaysQualified`, `CachedRunsAlwaysSucceed` and `StatusAlwaysTellsTheTruth`:
assessment, classification and coverage are three readings of one batch, and lemmas
show that they agree. The last two have one more hypothesis, `IdsAreSpelledAsAsked`: a
subscription returned in other letters is sound to the assessment and counted by nobody
else, so that both are false without it, as TLC shows with one such answer (see "Met
while modelling").

Only model-checked, and why:

* all liveness, which TLAPS does not prove here because it rests on `ENABLED`: `RunEnds`
  (of which `RunsNeverTurnBack` is the safety half), `SessionCloses`, `DiscoveryEnds`, and
  the fairness of `ImplementsLedger`;
* the hypotheses of the theorems: what happens to a planner's plan, to a subscription
  given twice or to an id in other letters (`CostRun`), and to an answer that is one page
  of many (`WasteDetection`), is described above as a divergence, not proved.

Every other property of the runs is stated by a theorem.

## 7. Not modelled

Rendering apart from a lane's verdict, prompts, models, tracing, the diagnose command
and option parsing keep no state that a later step reads, or only format it; see the
notes in `PROJECT.json`. The canned mock of the evaluation is a test double. Left out
of modelled parts: the partition of both caches by endpoint, cost view and currency
(different keys never meet); a disabled cache; the wire format of MCP; texts, of which
the models keep what the code looks for in them; the assembly of metadata; a process
that exceeds the probe's timeout through its own computation. An id with blanks around
it, which is stored before normalisation rejects it (`normalizer.ts:131`), is a hazard
without a property: ids are members of a small set here.
