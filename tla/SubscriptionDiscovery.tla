------------------------ MODULE SubscriptionDiscovery ------------------------
(***************************************************************************)
(* The choice of the subscriptions to analyse. Either discovery: list the  *)
(* visible ones, filter them by name, count their resources, rank them,    *)
(* probe the best for billing access (BillingProbe), and select the best   *)
(* that pass. Or the operator names them: then they are probed, reported   *)
(* on, and analysed whatever the probe found.                              *)
(*                                                                         *)
(* What there is to list and to count, and the operator's options, are the *)
(* world, chosen in the initial state. Listed and named subscriptions are  *)
(* taken to be distinct; the program does not check.                       *)
(***************************************************************************)
EXTENDS BillingProbe, DiscoveryResponses

CONSTANTS World    \* the worlds considered, a subset of AnyWorld

\* Of a name only matters whether the name filter matches it.
Name == {Unnamed, "wanted", "other"}

AnyWorld ==
  [subs : Candidates,             \* the visible subscriptions, as they are listed
   names : [Sub -> Name],
   counts : [Sub -> Nat],
   picks : Candidates,            \* --subscription; <<>> for discovery
   limit : Nat \ {0},             \* --max-subscriptions
   override : Nat,                \* --probe-pool-size; 0 stands for none
   probe : BOOLEAN,               \* not --no-probe-billing
   filter : BOOLEAN]              \* --subscription-name-filter

\* Picks and a filter exclude each other.
ASSUME DiscoveryAssumption ==
  /\ IsFiniteSet(Sub) /\ Null \notin Sub
  /\ \A w \in World : w \in AnyWorld /\ (w.filter => w.picks = <<>>)

VARIABLES
  phase,         \* "pick" or "list", "count", "probe", then "done", "failed" or "refused"
  world,
  listed,        \* what the listing gave: [sub, name], of the wanted ones
  counts,        \* their resource counts; 0 also where the answer has no row
  scope,         \* what is analysed: subs, best first, and the names of those with one
  excluded,      \* probed and not selectable
  findings,      \* data quality findings: <<category, subscription or None>>
  told           \* history: whether the answers told the list, the names it takes, the counts

discoveryVars == <<phase, world, listed, counts, scope, excluded, findings, told>>

vars == <<probeVars, discoveryVars>>

-----------------------------------------------------------------------------
(* Ranking and pool. *)

Max3(a, b, c) == CHOOSE m \in {a, b, c} : \A n \in {a, b, c} : n <= m

\* Mutant: the best are taken before the sort.
Ranked_Unsorted(list, count) == list

\* The sort is stable: equal counts keep the order of the list.
Ranked(list, count) ==
  LET Before(i, j) == count[list[i]] > count[list[j]]
                      \/ (count[list[i]] = count[list[j]] /\ i < j)
      order == InOrder(DOMAIN list, [j \in DOMAIN list |-> {i \in DOMAIN list : Before(i, j)}])
  IN [k \in DOMAIN list |-> list[order[k]]]

Prefix(list, n) == [k \in 1..(IF n < Len(list) THEN n ELSE Len(list)) |-> list[k]]

\* Subscriptions without resources count only if there are no others.
Eligible(list, count) ==
  LET ranked == Ranked(list, count)
      nonZero == {k \in DOMAIN ranked : count[ranked[k]] > 0}
  IN IF nonZero /= {} THEN Kept(ranked, nonZero) ELSE ranked

ClampPoolSize(override, limit) ==
  LET requested == IF override /= 0 THEN override ELSE Max3(limit * 3, limit + 5, 10)
  IN IF requested > 25 THEN 25 ELSE requested

Pool(list, count) ==
  Prefix(Eligible(list, count), ClampPoolSize(world.override, world.limit))

-----------------------------------------------------------------------------
(* Discovery. *)

\* Mutant: a subscription without a name is given the benefit of the doubt.
ApplyNameFilter_KeepsUnnamed(list) == Kept(list, {k \in DOMAIN list : list[k].name /= "other"})

\* A subscription without a name matches nothing.
ApplyNameFilter(list) == Kept(list, {k \in DOMAIN list : list[k].name = "wanted"})

Subs(list) == [k \in DOMAIN list |-> list[k].sub]

\* Selected subscriptions take the names they were listed with along.
ScopeOf(subs) ==
  LET named == {entry \in Range(listed) : entry.sub \in Range(subs) /\ entry.name /= Unnamed}
  IN [subs |-> subs,
      names |-> [sub \in {entry.sub : entry \in named} |->
                   (CHOOSE entry \in named : entry.sub = sub).name]]

Init ==
  /\ world \in World
  /\ phase = IF world.picks /= <<>> THEN "pick" ELSE "list"
  /\ listed = <<>>
  /\ counts = [sub \in Sub |-> 0]
  /\ scope = [subs |-> <<>>, names |-> <<>>]
  /\ excluded = <<>>
  /\ findings = <<>>
  /\ told = [list |-> FALSE, names |-> FALSE, counts |-> FALSE]
  /\ ProbeInit

\* The listing is refused; or nothing is listed, or nothing matches the filter.
ListSubscriptions ==
  /\ phase = "list"
  /\ \/ phase' = "refused" /\ UNCHANGED <<listed, told>>
     \/ \E shape \in ListingShapes :
          LET all == ExtractSubscriptions(ListingAnswer(shape, world.subs, world.names))
              chosen == IF world.filter THEN ApplyNameFilter(all) ELSE all
          IN /\ told' = [told EXCEPT !.list = shape /= "unreadable",
                                     !.names = world.filter => shape \in NamingShapes]
             /\ listed' = chosen
             /\ phase' = IF chosen = <<>> THEN "failed" ELSE "count"
  /\ UNCHANGED <<probeVars, world, counts, scope, excluded, findings>>

\* The count is refused; or the choice is made at once, or the probe starts.
CountResources ==
  /\ phase = "count"
  /\ \/ phase' = "refused" /\ UNCHANGED <<probeVars, counts, scope, told>>
     \/ \E shape \in CountShapes :
          LET map == ParseGroupedResourceCounts(CountAnswer(shape, world.counts))
              count == [sub \in Sub |-> IF sub \in DOMAIN map THEN map[sub] ELSE 0]
          IN /\ told' = [told EXCEPT !.counts = shape /= "unreadable"]
             /\ counts' = count
             /\ IF world.probe
                THEN /\ StartProbe(Pool(Subs(listed), count))
                     /\ phase' = "probe"
                     /\ UNCHANGED scope
                ELSE /\ scope' = ScopeOf(Prefix(Eligible(Subs(listed), count), world.limit))
                     /\ phase' = "done"
                     /\ UNCHANGED probeVars
  /\ UNCHANGED <<world, listed, excluded, findings>>

\* The probe of the pool is BillingProbe, which leaves the rest alone.
ProbePool ==
  /\ phase = "probe"
  /\ ProbeNext
  /\ UNCHANGED discoveryVars

\* Mutant: only a denial keeps a subscription out.
Passing_NotDenied(pass) == {i \in DOMAIN ids : (results[i].outcome /= "denied") = pass}

\* The places in the pool whose result is, or is not, a pass.
Passing(pass) == {i \in DOMAIN ids : (results[i].outcome = "pass") = pass}

Probed(pass) == Kept(ids, Passing(pass))

ExcludedDq(subs) == [k \in DOMAIN subs |-> <<"billing_probe_excluded", subs[k]>>]

PartialCoverageDq == <<"partial_coverage", None>>

\* The best passers are selected; every other outcome is a finding; a selection
\* that falls short because of them is one more.
SelectPassers ==
  LET passers == Probed(TRUE)
      losers == Probed(FALSE)
      short == Len(passers) < world.limit /\ passers /= <<>> /\ losers /= <<>>
  IN
  /\ phase = "probe" /\ PoolDone /\ world.picks = <<>>
  /\ scope' = IF passers = <<>> THEN scope ELSE ScopeOf(Prefix(passers, world.limit))
  /\ excluded' = losers
  /\ findings' = ExcludedDq(losers) \o (IF short THEN <<PartialCoverageDq>> ELSE <<>>)
  /\ phase' = IF passers = <<>> THEN "failed" ELSE "done"
  /\ UNCHANGED <<probeVars, world, listed, counts, told>>

-----------------------------------------------------------------------------
(* The operator's picks. *)

\* The picks are the scope from the start; the probe may be off.
ProbePicks ==
  /\ phase = "pick"
  /\ scope' = [subs |-> world.picks, names |-> <<>>]
  /\ IF world.probe
     THEN StartProbe(world.picks) /\ phase' = "probe"
     ELSE phase' = "done" /\ UNCHANGED probeVars
  /\ UNCHANGED <<world, listed, counts, excluded, findings, told>>

\* What the probe found is reported, and changes nothing else.
ReportPicks ==
  /\ phase = "probe" /\ PoolDone /\ world.picks /= <<>>
  /\ findings' = ExcludedDq(Probed(FALSE))
  /\ phase' = "done"
  /\ UNCHANGED <<probeVars, world, listed, counts, scope, excluded, told>>

Advance == ListSubscriptions \/ CountResources \/ SelectPassers \/ ProbePicks \/ ReportPicks

Next == Advance \/ ProbePool

\* The listing and the count are answered or refused; of the probe's calls
\* nothing is assumed, but timers fire, delays end and the cache's file
\* operations return.
Fairness ==
  /\ WF_vars(Advance)
  /\ \A w \in Worker :
       /\ WF_vars(phase = "probe" /\ Proceed(w) /\ UNCHANGED discoveryVars)
       /\ WF_vars(phase = "probe" /\ Timeout(w) /\ UNCHANGED discoveryVars)

Spec == Init /\ [][Next]_vars /\ Fairness

-----------------------------------------------------------------------------
(* Properties. *)

Ended == phase \in {"done", "failed", "refused"}

\* The visible subscriptions the operator is after.
Wanted == {sub \in Range(world.subs) : world.filter => world.names[sub] = "wanted"}

\* Discovery gives up only when there is nothing to select: nothing readable was
\* listed, nothing matches the filter, or no candidate passed the probe. A shape
\* that is understood loses nobody.
FailsForAReason ==
  \/ ~told.list \/ Wanted = {} \/ ~told.names
  \/ ids /= <<>> /\ \A i \in DOMAIN results : results[i].outcome /= "pass"

\* In whatever shapes the listing and the counts arrive, the selection is the
\* best there is: only what the filter matches, under its own name, nobody passed
\* over for a subscription that truly has fewer resources, unless the probe
\* excluded it, and nobody without resources while others have some; and there is
\* one, or a reason. (Counts in a shape that is not understood are as good as none.)
SelectionIsTheBest ==
  LET Selected == Range(scope.subs)
      Counted(sub) == IF told.counts THEN world.counts[sub] ELSE 0
  IN
  /\ phase = "failed" => FailsForAReason
  /\ phase = "done" /\ world.picks = <<>> =>
       /\ Len(scope.subs) \in 1..world.limit
       /\ Selected \subseteq Wanted
       /\ \A sub \in DOMAIN scope.names : scope.names[sub] = world.names[sub]
       /\ \A t \in Selected, s \in Wanted \ Selected :
            Counted(s) > Counted(t) => s \in Range(excluded)
       /\ \A t \in Selected : Counted(t) = 0 => \A s \in Wanted : Counted(s) = 0

\* Exactly the subscriptions whose own probe ended in a pass can be selected,
\* whatever order the workers finished in; every other probed one is excluded and
\* has its finding. What the operator picked is analysed whatever the probe found,
\* and every pick that did not pass has its finding.
SelectionIsProbed ==
  Ended /\ ids /= <<>> =>
    LET Passed == {results[i].sub : i \in {i \in DOMAIN results : results[i].outcome = "pass"}}
        Reported == {sub \in Sub : <<"billing_probe_excluded", sub>> \in Range(findings)}
    IN
    /\ Reported = Range(ids) \ Passed
    /\ IF world.picks /= <<>>
       THEN scope.subs = world.picks /\ excluded = <<>>
       ELSE /\ Range(scope.subs) \subseteq Passed
            /\ Range(excluded) = Reported
            /\ Range(scope.subs) /= Passed => Len(scope.subs) = world.limit

\* Discovery ends, with a result for every candidate of the probe, even if the
\* server leaves every probe unanswered.
DiscoveryEnds == <>(Ended /\ \A i \in DOMAIN results : results[i] /= NoResult)

-----------------------------------------------------------------------------
(* The inductive invariants: IInv behind ResultsAreEarned; ChoiceInv behind *)
(* SelectionIsTheBest and SelectionIsProbed, which are parts of it.         *)

\* Until the probe starts nobody has touched the pool.
PoolIsFresh ==
  phase \in {"pick", "list", "count"} =>
    nextIndex = Concurrency + 1 /\ stats = [hits |-> 0, misses |-> 0]

IInv == PoolIsFresh /\ PoolInv

DiscoveryTypeOK ==
  /\ phase \in {"pick", "list", "count", "probe", "done", "failed", "refused"}
  /\ world \in World
  /\ listed \in Seq([sub : Sub, name : Name])
  /\ told \in [list : BOOLEAN, names : BOOLEAN, counts : BOOLEAN]

\* What is listed is what is wanted, each once, under its own name or none; or
\* nothing is, for a reason.
ListingIsTrue ==
  /\ \A i, j \in DOMAIN listed : listed[i].sub = listed[j].sub => i = j
  /\ \A i \in DOMAIN listed : listed[i].name \in {Unnamed, world.names[listed[i].sub]}
  /\ listed /= <<>> => Range(Subs(listed)) = Wanted
  /\ listed = <<>> /\ phase = "failed" => ~told.list \/ Wanted = {} \/ ~told.names
  /\ phase = "count" => listed /= <<>>

\* What the ranking went by is what the answer told.
CountsAreTrue ==
  phase = "probe" /\ world.picks = <<>> =>
    counts = [sub \in Sub |-> IF told.counts THEN world.counts[sub] ELSE 0]

\* The probe is of the best, or of the picks; before it ends nothing is excluded,
\* found or, unless it was picked, in scope.
StagesAreInOrder ==
  /\ phase = "pick" => world.picks /= <<>>
  /\ phase \in {"list", "count"} => world.picks = <<>>
  /\ phase \in {"pick", "list", "count", "refused"} => ids = <<>>
  /\ phase \in {"pick", "list", "count", "probe"} => excluded = <<>> /\ findings = <<>>
  /\ phase \in {"list", "count"} => scope.subs = <<>>
  /\ phase = "probe" /\ world.picks = <<>> =>
       listed /= <<>> /\ ids = Pool(Subs(listed), counts) /\ scope.subs = <<>>
  /\ phase = "probe" /\ world.picks /= <<>> =>
       ids = world.picks /\ scope.subs = world.picks

ChoiceInv ==
  /\ DiscoveryTypeOK /\ ListingIsTrue /\ CountsAreTrue /\ StagesAreInOrder
  /\ SelectionIsTheBest /\ SelectionIsProbed
=============================================================================
