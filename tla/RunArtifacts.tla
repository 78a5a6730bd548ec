---------------------------- MODULE RunArtifacts ----------------------------
(***************************************************************************)
(* Runs of the command that share a directory: each writes a report, its   *)
(* HTML twin and a run.json, reads the history the others left, and ends   *)
(* with an exit code. A run is a process: it interleaves with the others   *)
(* and may be killed between any two steps.                                *)
(*                                                                         *)
(* What recurs is told by the signature of a scope: subscriptions,         *)
(* resource groups and analysis type, but not the resource types it is     *)
(* narrowed to.                                                            *)
(* Runs of the evaluation have no history store.                           *)
(*                                                                         *)
(* A file is "none", "part" or "whole". What a run finds out about costs   *)
(* is of other modules; here it succeeds, fails, or breaks off.            *)
(***************************************************************************)
EXTENDS Integers, SequencesExt

CONSTANTS
  Run,
  Nested,      \* runs of the evaluation, below runs/eval
  Target,      \* subscriptions, resource groups and analysis type of a scope
  Filter,      \* resource types a scope is narrowed to
  Asked,       \* what the runs may be asked: a scope for each
  Junk,        \* entries of the directory that hold no run
  Hollow,      \* entries whose run.json has a schema_version and nothing else
  Limit,       \* history entries a run is shown (12)
  MaxTime      \* bound: started_at

\* The directory the runs of the evaluation are in.
Eval == "eval"

ASSUME ArtifactsAssumption ==
  /\ Nested \subseteq Run /\ IsFiniteSet(Run) /\ Eval \notin Run
  /\ Asked \subseteq [Run -> [target : Target, filter : Filter]]
  /\ Limit \in Nat \ {0} /\ MaxTime \in Nat

VARIABLES
  clock,
  pc,          \* where a run is
  scope,       \* what it was asked
  started,     \* started_at
  others,      \* entries of the directory that others put there
  file,        \* per run and artifact: "none", "part", "whole"
  dirs,        \* runs whose directory exists
  todo,        \* entries of the runs directory still to read
  found,       \* runs read so far
  before,      \* history: runs that were complete when the directory was listed
  prior,       \* the runs shown to the reasoner
  outcome,     \* [failed, passed]: cost retrieval failed; every rubric passed
  fault        \* what broke the run off, if anything did

asked == <<clock, scope, started, others>>
disk == <<file, dirs>>
history == <<todo, found, before, prior>>
ending == <<outcome, fault>>
vars == <<asked, pc, disk, history, ending>>

Unknown == [failed |-> FALSE, passed |-> FALSE]
Artifact == {"md", "html", "temp", "json"}

\* Mutant: what other programs read is written first.
WriteOrder_RunJsonFirst == <<"temp", "json", "md", "html">>

\* The last step is a rename, which is atomic.
WriteOrder == <<"md", "html", "temp", "json">>

Complete(r) == file[r]["json"] = "whole"

\* Mutant: the resource types are hashed as well.
ScopeSignature_Narrowed(s) == <<s.target, s.filter>>

\* What is hashed: the resource types are left out.
ScopeSignature(s) == s.target

\* The same scope signature and analysis type, and not the run itself.
Matches(r, p) == ScopeSignature(scope[p]) = ScopeSignature(scope[r]) /\ p /= r

Goes(r, step) == pc' = [pc EXCEPT ![r] = step]

\* What a run knows of the others is used once, and goes with the process.
Forgets(r) ==
  /\ todo' = [todo EXCEPT ![r] = {}] /\ found' = [found EXCEPT ![r] = {}]
  /\ before' = [before EXCEPT ![r] = {}] /\ prior' = [prior EXCEPT ![r] = <<>>]

-----------------------------------------------------------------------------
(* The command. *)

\* The client is made, and discovers; the directory is named after the time.
Start(r) ==
  /\ pc[r] = "idle"
  /\ started' = [started EXCEPT ![r] = clock]
  /\ clock' \in {clock, clock + 1} /\ clock' <= MaxTime
  /\ Goes(r, "gather")
  /\ UNCHANGED <<scope, others, disk, history, outcome, fault>>

\* The configuration does not load, or there is no client: nothing has begun.
ConfigFails(r) ==
  /\ pc[r] = "idle"
  /\ fault' = [fault EXCEPT ![r] = "config"]
  /\ Goes(r, "leave")
  /\ UNCHANGED <<asked, disk, history, outcome>>

\* What a step of the analysis may throw, and where.
FaultsAt ==
  [gather |-> {"discovery", "run"}, history |-> {"run"}, reason |-> {"run"},
   write |-> {"run"}, finish |-> {"close"}]

Breaks(r) ==
  /\ pc[r] \in DOMAIN FaultsAt
  /\ \E what \in FaultsAt[pc[r]] : fault' = [fault EXCEPT ![r] = what]
  /\ outcome' = [outcome EXCEPT ![r] = Unknown]
  /\ Forgets(r) /\ Goes(r, "leave")
  /\ UNCHANGED <<asked, disk>>

\* Evidence is in. readdir of the runs directory: a snapshot of names.
ListHistory(r) ==
  /\ pc[r] = "gather" /\ r \notin Nested
  /\ todo' = [todo EXCEPT ![r] = (dirs \ Nested) \union others
                                 \union (IF dirs \intersect Nested = {} THEN {} ELSE {Eval})]
  /\ before' = [before EXCEPT ![r] = {p \in Run : Complete(p)}]
  /\ Goes(r, "history")
  /\ UNCHANGED <<asked, disk, found, prior, ending>>

\* A run of the evaluation is given the store that knows of no run.
NoHistory(r) ==
  /\ pc[r] = "gather" /\ r \in Nested
  /\ Goes(r, "reason")
  /\ UNCHANGED <<asked, disk, history, ending>>

\* Mutant: a directory with a report counts as a run.
Readable_Begun(entry) ==
  {p \in Run : file[p]["md"] = "whole" /\ p \in (IF entry = Eval THEN Nested ELSE {entry})}

\* The first complete run below an entry, in directory order.
Readable(entry) ==
  {p \in Run : Complete(p) /\ p \in (IF entry = Eval THEN Nested ELSE {entry})}

\* Each entry is read when its turn comes. What is not complete, or no run, is skipped.
Read(r, entry) ==
  /\ pc[r] = "history" /\ entry \in todo[r] \ Hollow
  /\ todo' = [todo EXCEPT ![r] = @ \ {entry}]
  /\ \/ \E p \in Readable(entry) : found' = [found EXCEPT ![r] = @ \union {p}]
     \/ Readable(entry) = {} /\ UNCHANGED found
  /\ UNCHANGED <<asked, pc, disk, before, prior, ending>>

\* summarise() throws on what only looks like a run.
ReadHollow(r, entry) ==
  /\ pc[r] = "history" /\ entry \in todo[r] \intersect Hollow
  /\ fault' = [fault EXCEPT ![r] = "run"]
  /\ Forgets(r) /\ Goes(r, "leave")
  /\ UNCHANGED <<asked, disk, outcome>>

NewestFirst(s) == \A j, k \in DOMAIN s : j < k => started[s[j]] >= started[s[k]]

FirstOf(s) == SubSeq(s, 1, IF Len(s) < Limit THEN Len(s) ELSE Limit)

\* Mutant: the limit is applied to what was read, before it is filtered.
Selections_LimitFirst(r) ==
  {SelectSeq(FirstOf(s), LAMBDA p : Matches(r, p)) : s \in {t \in SetToSeqs(found[r]) : NewestFirst(t)}}

\* What the store returns: ties stay in directory order, which is any.
Selections(r) ==
  {FirstOf(s) : s \in {t \in SetToSeqs({p \in found[r] : Matches(r, p)}) : NewestFirst(t)}}

Select(r) ==
  /\ pc[r] = "history" /\ todo[r] = {}
  /\ \E s \in Selections(r) : prior' = [prior EXCEPT ![r] = s]
  /\ Goes(r, "reason")
  /\ UNCHANGED <<asked, disk, todo, found, before, ending>>

\* The record of the prior runs: none if there are none.
PriorRunContext(r) ==
  IF prior[r] = <<>> THEN {}
  ELSE {[oldest |-> started[Last(prior[r])], newest |-> started[Head(prior[r])]]}

\* Reasoned, scored, rendered: the directory is made, the first file opened.
Conclude(r) ==
  /\ pc[r] = "reason"
  /\ outcome' \in {[outcome EXCEPT ![r] = o] : o \in [failed : BOOLEAN, passed : BOOLEAN]}
  /\ dirs' = dirs \union {r}
  /\ file' = [file EXCEPT ![r][WriteOrder[1]] = "part"]
  /\ Forgets(r) /\ Goes(r, "write")
  /\ UNCHANGED <<asked, fault>>

\* One file is finished and the next one opened.
Write(r) ==
  /\ pc[r] = "write"
  /\ \E k \in DOMAIN WriteOrder :
       LET this == WriteOrder[k]
           last == k = Len(WriteOrder)
       IN /\ file[r][this] /= "whole" /\ \A j \in 1..(k - 1) : file[r][WriteOrder[j]] = "whole"
          /\ file' = [file EXCEPT ![r] = [a \in Artifact |->
               IF a = this THEN "whole"
               ELSE IF ~last /\ a = WriteOrder[k + 1] /\ a /= "json" THEN "part" ELSE @[a]]]
          /\ Goes(r, IF last THEN "finish" ELSE "write")
  /\ UNCHANGED <<asked, dirs, history, ending>>

\* Mutant: a trace that cannot be exported breaks the run off.
Finish_Raises(r) ==
  /\ pc[r] = "finish"
  /\ fault' \in {fault, [fault EXCEPT ![r] = "run"]}
  /\ Goes(r, "leave")
  /\ UNCHANGED <<asked, disk, history, outcome>>

\* The client is closed, the scores are published, the trace is exported. What
\* the last two throw is printed as a warning: nothing depends on it.
Finish(r) ==
  /\ pc[r] = "finish"
  /\ Goes(r, "leave")
  /\ UNCHANGED <<asked, disk, history, outcome, fault>>

ExitCode(r) ==
  CASE fault[r] = "config" -> 1
    [] fault[r] = "discovery" -> 5
    [] fault[r] \in {"run", "close"} -> 4
    [] OTHER -> IF outcome[r].failed THEN 6 ELSE IF outcome[r].passed THEN 0 ELSE 3

\* A process that is gone: what is on disk stays.
Vanishes(r) ==
  /\ Forgets(r) /\ Goes(r, "gone")
  /\ outcome' = [outcome EXCEPT ![r] = Unknown] /\ fault' = [fault EXCEPT ![r] = "none"]
  /\ UNCHANGED <<asked, disk>>

\* Return or catch, then the finally that closes the client, and process.exit.
Leave(r) == pc[r] = "leave" /\ Vanishes(r)

\* The process is killed.
Kill(r) == pc[r] \notin {"idle", "gone", "leave"} /\ Vanishes(r)

-----------------------------------------------------------------------------
Init ==
  /\ clock = 0 /\ scope \in Asked /\ started = [r \in Run |-> 0]
  /\ others \in {Junk, Hollow} /\ pc = [r \in Run |-> "idle"]
  /\ file = [r \in Run |-> [a \in Artifact |-> "none"]] /\ dirs = {}
  /\ todo = [r \in Run |-> {}] /\ found = [r \in Run |-> {}]
  /\ before = [r \in Run |-> {}] /\ prior = [r \in Run |-> <<>>]
  /\ outcome = [r \in Run |-> Unknown]
  /\ fault = [r \in Run |-> "none"]

Step(r) ==
  \/ Start(r) \/ ConfigFails(r) \/ Breaks(r) \/ ListHistory(r) \/ NoHistory(r) \/ Select(r)
  \/ \E entry \in todo[r] : Read(r, entry) \/ ReadHollow(r, entry)
  \/ Conclude(r) \/ Write(r) \/ Finish(r) \/ Leave(r)

\* No run is stuck: nothing else is allowed to stop.
AllOver == (\A r \in Run : pc[r] = "gone") /\ UNCHANGED vars

Next == AllOver \/ \E r \in Run : Step(r) \/ Kill(r)

Spec == Init /\ [][Next]_vars

-----------------------------------------------------------------------------
(* Properties. *)

\* A run.json is never half there, and stands for a whole report in both forms,
\* whenever the run that writes it is killed.
RunJsonStandsForAReport ==
  \A r \in Run : /\ file[r]["json"] /= "part"
                 /\ Complete(r) => file[r]["md"] = "whole" /\ file[r]["html"] = "whole"

SameTarget(r, p) == scope[p].target = scope[r].target /\ p /= r

\* The history shown to a run holds complete runs of its own target only, whatever
\* resource types they were narrowed to, newest first, each once, and the dates given
\* with it span them all; and for a run of analyze, a run of analyze with that target
\* that was complete before the directory was listed is among them, unless the list is
\* full of runs that are no older. Of runs of the evaluation, which the walk may pass
\* over and which are shown none, nothing is promised.
HistoryIsExact ==
  \A r \in Run :
    /\ \A k \in DOMAIN prior[r] : Complete(prior[r][k]) /\ SameTarget(r, prior[r][k])
    /\ NewestFirst(prior[r]) /\ IsInjective(prior[r])
    /\ \A context \in PriorRunContext(r), k \in DOMAIN prior[r] :
         started[prior[r][k]] \in context.oldest..context.newest
    /\ r \notin Nested =>
         \A p \in Run \ Nested : pc[r] = "reason" /\ p \in before[r] /\ SameTarget(r, p) =>
           \/ \E k \in DOMAIN prior[r] : prior[r][k] = p
           \/ Len(prior[r]) = Limit /\ \A k \in DOMAIN prior[r] : started[prior[r][k]] >= started[p]

\* Of the command analyze: an exit code that speaks of a result comes with the whole
\* result, and a whole result with such a code unless closing the client failed:
\* telemetry that is lost changes nothing. 6 is told for every retrieval that failed,
\* whatever the rubrics say.
ExitTellsTheTruth ==
  \A r \in Run \ Nested : pc[r] = "leave" =>
    /\ ExitCode(r) \in {0, 3, 6} => Complete(r)
    /\ Complete(r) /\ ExitCode(r) \notin {0, 3, 6} => fault[r] = "close"
    /\ ExitCode(r) \in {0, 3, 6} => (ExitCode(r) = 6 <=> outcome[r].failed)
    /\ ExitCode(r) = 0 => outcome[r].passed

-----------------------------------------------------------------------------
(* The inductive invariant behind the first and the last. *)

TypeOK ==
  /\ pc \in [Run -> {"idle", "gather", "history", "reason", "write", "finish", "leave", "gone"}]
  /\ file \in [Run -> [Artifact -> {"none", "part", "whole"}]]
  /\ outcome \in [Run -> [failed : BOOLEAN, passed : BOOLEAN]]
  /\ fault \in [Run -> {"none", "config", "discovery", "run", "close"}]

\* A run.json appears with the step that leads to "finish"; from then on only
\* closing the client can fail.
ResultsComeLast ==
  \A r \in Run :
    /\ pc[r] \in {"idle", "gather", "history", "reason", "write"} => ~Complete(r) /\ fault[r] = "none"
    /\ pc[r] = "finish" => Complete(r) /\ fault[r] = "none"
    /\ pc[r] = "leave" => (Complete(r) <=> fault[r] \in {"none", "close"})

IInv == TypeOK /\ RunJsonStandsForAReport /\ ResultsComeLast

-----------------------------------------------------------------------------
(* The inductive invariant behind HistoryIsExact. *)

HistoryTypeOK ==
  /\ clock \in Nat /\ started \in [Run -> Nat]
  /\ DOMAIN todo = Run /\ DOMAIN prior = Run
  /\ found \in [Run -> SUBSET Run] /\ before \in [Run -> SUBSET Run]

\* What is complete has a directory, and stays complete.
CompleteRunsAreListed == \A r \in Run : pc[r] = "write" \/ Complete(r) => r \in dirs

FoundRunsAreComplete(r) == \A p \in found[r] \union before[r] : Complete(p)

\* A run that was complete in time has been read, or its turn comes.
NothingIsMissed(r) ==
  r \notin Nested /\ pc[r] \in {"history", "reason"} =>
    \A p \in before[r] \ Nested : p \in found[r] \/ (pc[r] = "history" /\ p \in todo[r])

PriorIsSelected(r) ==
  \/ pc[r] = "reason" /\ prior[r] \in Selections(r)
  \/ (pc[r] = "reason" => r \in Nested) /\ prior[r] = <<>>

HistoryIsInOrder(r) == FoundRunsAreComplete(r) /\ NothingIsMissed(r) /\ PriorIsSelected(r)

HistoryInv ==
  /\ IInv /\ HistoryTypeOK /\ CompleteRunsAreListed
  /\ \A r \in Run : HistoryIsInOrder(r)
=============================================================================
