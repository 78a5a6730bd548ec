-------------------------- MODULE BillingProbeCache --------------------------
(***************************************************************************)
(* The cache of billing probe outcomes: one JSON file, shared by the probe *)
(* workers of every running process. A set reads the whole file, adds its  *)
(* entry, drops what has expired, and replaces the file through a          *)
(* temporary one. The name of the temporary file is made of the process    *)
(* and the millisecond, so workers of one process may share it.            *)
(*                                                                         *)
(* Paths name inodes, as in the file system: a rename moves a name, and a  *)
(* writer that opened an inode keeps writing to it under its new name.     *)
(* A step runs from one file operation of a worker to its next.            *)
(*                                                                         *)
(* What a run may find on disk is no file, a document of this cache, a     *)
(* torn or foreign one, which reads as no entries, or a document of the    *)
(* right version whose entries are null, which readFile lets through.      *)
(* Other documents of that version, with a list for entries or with        *)
(* entries that have no valid dates, are not modelled.                     *)
(***************************************************************************)
EXTENDS Naturals, FiniteSets

CONSTANTS
  Worker,        \* the workers of all processes
  Process,       \* running processes
  ProcessOf,     \* the process of each worker
  Sub,           \* subscriptions (endpoint and identity are folded in)
  Outcome,       \* outcomes of a probe, among the four there are
  Millisecond,   \* milliseconds told apart within one unit of time
  PassTtl,       \* how long a pass is kept, in units of time
  NonPassTtl,    \* how long any other outcome is kept
  MaxTime,       \* bound on the clock
  MaxWrites      \* bound on the number of sets

ASSUME ProbeCacheAssumption ==
  /\ ProcessOf \in [Worker -> Process]
  /\ Outcome \subseteq {"pass", "denied", "transient", "unknown"}
  /\ PassTtl \in Nat /\ NonPassTtl \in Nat
  /\ MaxTime \in Nat /\ MaxWrites \in Nat

VARIABLES
  now,           \* the clock
  file,          \* the inode of the cache file, or NoInode
  temps,         \* the inode of each temporary file, or NoInode
  content,       \* what each inode holds
  task,          \* what each worker is doing
  answer,        \* history: the last get, and when it was answered
  writes,        \* sets so far
  sets,          \* history: the entries that were set
  latest,        \* history: the last entry set for each subscription
  disturbed      \* history: two sets overlapped or a file operation failed

vars == <<now, file, temps, content, task, answer, writes, sets, latest, disturbed>>

-----------------------------------------------------------------------------
(* Entries and files. *)

\* Mutant: a denial is kept as long as a pass.
Ttl_OneForAll(outcome) == PassTtl

Ttl(outcome) == IF outcome = "pass" THEN PassTtl ELSE NonPassTtl

Entry(outcome, time) ==
  [outcome |-> outcome, cachedAt |-> time, expiresAt |-> time + Ttl(outcome)]

NoEntry == [outcome |-> "none", cachedAt |-> 0, expiresAt |-> 0]

Entries == {Entry(outcome, time) : outcome \in Outcome, time \in 0..MaxTime}

NoEntries == [sub \in Sub |-> NoEntry]

\* Inode 0 is the file found at the start; a set creates the inode of its number.
Inode == 0..MaxWrites

NoInode == MaxWrites + 1

\* The bytes of an inode: a document that readFile accepts, or something else.
Whole(entries) == [parses |-> TRUE, null |-> FALSE, entries |-> entries]

Empty == [parses |-> FALSE, null |-> FALSE, entries |-> NoEntries]

Torn == Empty

\* A document that readFile accepts, as typeof null is "object", without entries.
NullEntries == [parses |-> TRUE, null |-> TRUE, entries |-> NoEntries]

TempName == Process \X (0..MaxTime) \X Millisecond

\* readFile: what does not parse counts as no entries.
ReadFile == IF file /= NoInode /\ content[file].parses
            THEN content[file].entries ELSE NoEntries

\* Looking an entry up in what readFile returned, or adding one to it, throws.
Throws == file /= NoInode /\ content[file].parses /\ content[file].null

Live(entry, time) == entry /= NoEntry /\ time < entry.expiresAt

\* Mutant: expired and live entries are confused.
PruneExpired_Inverted(entries, time) ==
  [sub \in Sub |-> IF Live(entries[sub], time) THEN NoEntry ELSE entries[sub]]

PruneExpired(entries, time) ==
  [sub \in Sub |-> IF Live(entries[sub], time) THEN entries[sub] ELSE NoEntry]

-----------------------------------------------------------------------------
(* Workers. *)

NoSub == "no subscription"

Idle == [at |-> "idle", sub |-> NoSub, draft |-> NoEntries,
         name |-> <<>>, inode |-> NoInode, alone |-> TRUE]

Busy(w) == task[w] /= Idle

\* Sets that overlap disturb each other; those of one process are not alone.
Begin(w, state) ==
  LET others == {v \in Worker \ {w} : Busy(v)}
      siblings == {v \in others : ProcessOf[v] = ProcessOf[w]}
  IN
  /\ task' = [v \in Worker |->
                IF v = w THEN [state EXCEPT !.alone = (siblings = {})]
                ELSE IF v \in siblings THEN [task[v] EXCEPT !.alone = FALSE]
                ELSE task[v]]
  /\ disturbed' = (disturbed \/ others /= {})

Continue(w, state) == task' = [task EXCEPT ![w] = state]

Finish(w) == Continue(w, Idle)

Init ==
  /\ now = 0
  /\ \/ file = NoInode
     \/ file = 0
  /\ temps = [name \in TempName |-> NoInode]
  /\ \E found \in {Whole(NoEntries), Torn, NullEntries} :
       content = [inode \in Inode |-> IF inode = 0 THEN found ELSE Empty]
  /\ task = [w \in Worker |-> Idle]
  /\ answer = [sub |-> NoSub, entry |-> NoEntry, at |-> 0, thrown |-> FALSE]
  /\ writes = 0
  /\ sets = {}
  /\ latest = NoEntries
  /\ disturbed = FALSE

Tick ==
  /\ now < MaxTime
  /\ now' = now + 1
  /\ UNCHANGED <<file, temps, content, task, answer, writes, sets, latest, disturbed>>

\* get: an entry that has expired is no entry. Where the entries are null it
\* throws, and nothing between it and discovery catches that.
Get(w, sub) ==
  /\ ~Busy(w)
  /\ answer' = [sub |-> sub, at |-> now, thrown |-> Throws,
                entry |-> IF Live(ReadFile[sub], now) THEN ReadFile[sub] ELSE NoEntry]
  /\ UNCHANGED <<now, file, temps, content, task, writes, sets, latest, disturbed>>

\* set: read the file, add the entry, prune.
StartSet(w, sub, outcome) ==
  LET entry == Entry(outcome, now)
  IN
  /\ ~Busy(w)
  /\ ~Throws
  /\ writes < MaxWrites
  /\ writes' = writes + 1
  /\ sets' = sets \union {<<sub, entry>>}
  /\ latest' = [latest EXCEPT ![sub] = entry]
  /\ Begin(w, [Idle EXCEPT !.at = "open", !.sub = sub, !.inode = writes + 1,
                           !.draft = PruneExpired([ReadFile EXCEPT ![sub] = entry], now)])
  /\ UNCHANGED <<now, file, temps, content, answer>>

\* set: where the entries are null it throws at once; that is swallowed, and the
\* file stays as it is.
SetThrows(w, sub, outcome) ==
  LET entry == Entry(outcome, now)
  IN
  /\ ~Busy(w)
  /\ Throws
  /\ writes < MaxWrites
  /\ writes' = writes + 1
  /\ sets' = sets \union {<<sub, entry>>}
  /\ latest' = [latest EXCEPT ![sub] = entry]
  /\ UNCHANGED <<now, file, temps, content, task, answer, disturbed>>

\* Mutant: the temporary file is opened without truncating it.
OpenTemp_NoTruncate(w, ms) ==
  LET name == <<ProcessOf[w], now, ms>>
      inode == IF temps[name] = NoInode THEN task[w].inode ELSE temps[name]
  IN
  /\ task[w].at = "open"
  /\ temps' = [temps EXCEPT ![name] = inode]
  /\ UNCHANGED content
  /\ Continue(w, [task[w] EXCEPT !.at = "write", !.name = name, !.inode = inode])
  /\ UNCHANGED <<now, file, answer, writes, sets, latest, disturbed>>

\* Mutant: the name of the temporary file lacks the process.
OpenTemp_NoPid(w, ms) ==
  LET name == <<(CHOOSE p \in Process : TRUE), now, ms>>
      inode == IF temps[name] = NoInode THEN task[w].inode ELSE temps[name]
  IN
  /\ task[w].at = "open"
  /\ temps' = [temps EXCEPT ![name] = inode]
  /\ content' = [content EXCEPT ![inode] = Empty]
  /\ Continue(w, [task[w] EXCEPT !.at = "write", !.name = name, !.inode = inode])
  /\ UNCHANGED <<now, file, answer, writes, sets, latest, disturbed>>

\* writeAtomic: open the temporary file of this millisecond. A file of that
\* name, of another worker of the process, is truncated and shared.
OpenTemp(w, ms) ==
  LET name == <<ProcessOf[w], now, ms>>
      inode == IF temps[name] = NoInode THEN task[w].inode ELSE temps[name]
  IN
  /\ task[w].at = "open"
  /\ temps' = [temps EXCEPT ![name] = inode]
  /\ content' = [content EXCEPT ![inode] = Empty]
  /\ Continue(w, [task[w] EXCEPT !.at = "write", !.name = name, !.inode = inode])
  /\ UNCHANGED <<now, file, answer, writes, sets, latest, disturbed>>

\* writeAtomic: write the document over what the inode holds. Over another
\* document, a longer one leaves its tail behind.
WriteTemp(w) ==
  LET inode == task[w].inode
      whole == Whole(task[w].draft)
      before == content[inode]
  IN
  /\ task[w].at = "write"
  /\ \E after \in (IF before \in {Empty, whole} THEN {whole} ELSE {whole, Torn}) :
       content' = [content EXCEPT ![inode] = after]
  /\ Continue(w, [task[w] EXCEPT !.at = "rename"])
  /\ UNCHANGED <<now, file, temps, answer, writes, sets, latest, disturbed>>

\* writeAtomic: rename, unless another worker has renamed the file already.
Rename(w) ==
  LET inode == temps[task[w].name]
  IN
  /\ task[w].at = "rename"
  /\ IF inode = NoInode
     THEN UNCHANGED <<file, temps>>
     ELSE /\ file' = inode
          /\ temps' = [temps EXCEPT ![task[w].name] = NoInode]
  /\ Finish(w)
  /\ UNCHANGED <<now, content, answer, writes, sets, latest, disturbed>>

\* A file operation fails, or the process dies: the set ends where it is, its
\* temporary file left behind.
Fail(w) ==
  /\ Busy(w)
  /\ Finish(w)
  /\ disturbed' = TRUE
  /\ UNCHANGED <<now, file, temps, content, answer, writes, sets, latest>>

Next ==
  \/ Tick
  \/ \E w \in Worker :
       \/ \E sub \in Sub :
            \/ Get(w, sub)
            \/ \E outcome \in Outcome : StartSet(w, sub, outcome) \/ SetThrows(w, sub, outcome)
       \/ \E ms \in Millisecond : OpenTemp(w, ms)
       \/ WriteTemp(w)
       \/ Rename(w)
       \/ Fail(w)

Spec == Init /\ [][Next]_vars

-----------------------------------------------------------------------------
(* Properties. *)

\* However workers and processes interleave, fail or share temporary files, a
\* hit is an entry that some set recorded for this very subscription, and it
\* is no older than its outcome is kept: a denial is probed again after the
\* short time, a pass after the long one.
HitsAreFresh ==
  answer.entry /= NoEntry =>
    /\ <<answer.sub, answer.entry>> \in sets
    /\ answer.at - answer.entry.cachedAt <
         (IF answer.entry.outcome = "pass" THEN PassTtl ELSE NonPassTtl)

\* Sets that do not overlap lose nothing: between sets, the file has the last
\* entry of every subscription, unless it has expired. A file that makes sets
\* throw takes none (FileHeals).
SequentialSetsAccumulate ==
  ~disturbed /\ ~Throws /\ (\A w \in Worker : ~Busy(w)) =>
    \A sub \in Sub : Live(latest[sub], now) => ReadFile[sub] = latest[sub]

\* Torn and foreign files heal, and processes never corrupt each other's: a set
\* that meets no other of its process, once past reading the file, leaves one that
\* parses and holds its entry, whether there was no file before, one that did not
\* parse, or one of this cache; a file that parses keeps parsing unless two workers
\* of one process write at once. Null entries do not heal, against what the comment on
\* readFile says of the next set: a file that makes sets throw is none they made, and
\* one they never replace.
FileHeals ==
  /\ [][\A w \in Worker :
          task[w].at = "rename" /\ task[w].alone /\ Rename(w) =>
            /\ file' /= NoInode
            /\ content[file'].parses
            /\ content[file'].entries[task[w].sub] = task[w].draft[task[w].sub]]_vars
  /\ [][file /= NoInode /\ content[file].parses /\ (\A w \in Worker : task[w].alone) =>
          content'[file'].parses]_vars
  /\ [][Throws' <=> Throws]_vars

-----------------------------------------------------------------------------
(* What makes these properties inductive. *)

Kept == [Sub -> Entries \union {NoEntry}]

Document == [parses : BOOLEAN, null : BOOLEAN, entries : Kept]

Task ==
  [at : {"idle", "open", "write", "rename"}, sub : Sub \union {NoSub}, draft : Kept,
   name : TempName \union {<<>>}, inode : Inode \union {NoInode}, alone : BOOLEAN]

TypeOK ==
  /\ now \in 0..MaxTime
  /\ file \in Inode \union {NoInode}
  /\ temps \in [TempName -> Inode \union {NoInode}]
  /\ content \in [Inode -> Document]
  /\ task \in [Worker -> Task]
  /\ writes \in 0..MaxWrites
  /\ latest \in Kept
  /\ disturbed \in BOOLEAN
  /\ \A w \in Worker : Busy(w) => task[w].at /= "idle" /\ task[w].inode \in Inode

\* Whatever is in a file, or on its way to one, was set, for that subscription.
Recorded(entries) == \A sub \in Sub : entries[sub] = NoEntry \/ <<sub, entries[sub]>> \in sets

EntriesWereSet ==
  /\ \A inode \in Inode : Recorded(content[inode].entries)
  /\ \A w \in Worker : Recorded(task[w].draft)
  /\ \A pair \in sets : pair[2] \in Entries

\* A worker that has opened its temporary file, and not renamed it yet.
Writing(w) == task[w].at \in {"write", "rename"}

\* An inode has one temporary name, or none; those about to be used are new.
NamesAreUnique ==
  /\ \A m, n \in TempName : temps[m] = temps[n] /\ temps[m] /= NoInode => m = n
  /\ \A n \in TempName : temps[n] /= NoInode => temps[n] \in 1..writes /\ temps[n] /= file
  /\ file /= NoInode => file <= writes
  /\ \A w \in Worker : Busy(w) => task[w].inode \in 1..writes
  /\ \A w \in Worker : task[w].at = "open" =>
       /\ task[w].inode /= file
       /\ \A n \in TempName : temps[n] /= task[w].inode
       /\ \A v \in Worker \ {w} : Busy(v) => task[v].inode /= task[w].inode

\* Processes share no temporary file.
InodesAreOwned ==
  /\ \A w \in Worker : Writing(w) => task[w].name \in TempName /\ task[w].name[1] = ProcessOf[w]
  /\ \A v, w \in Worker :
       Writing(v) /\ Writing(w) /\ task[v].inode = task[w].inode => ProcessOf[v] = ProcessOf[w]
  /\ \A w \in Worker, n \in TempName :
       Writing(w) /\ temps[n] = task[w].inode => n[1] = ProcessOf[w]

\* A set that meets no other of its process has its temporary file to itself.
LoneSetsWriteAlone ==
  \A w \in Worker : Busy(w) /\ task[w].alone =>
    /\ \A v \in Worker \ {w} : Busy(v) => ProcessOf[v] /= ProcessOf[w]
    /\ Writing(w) => temps[task[w].name] = task[w].inode
    /\ task[w].at = "write" => content[task[w].inode] = Empty
    /\ task[w].at = "rename" => content[task[w].inode] = Whole(task[w].draft)

\* While nothing overlaps or fails, the file, or the draft of the one set in
\* progress, has the last entry of every subscription.
NothingIsLost ==
  ~disturbed =>
    /\ \A v, w \in Worker : Busy(v) /\ Busy(w) => v = w
    /\ \A w \in Worker : Busy(w) =>
         /\ task[w].alone
         /\ \A sub \in Sub : Live(latest[sub], now) => task[w].draft[sub] = latest[sub]
    /\ SequentialSetsAccumulate

FileInv ==
  /\ NamesAreUnique
  /\ InodesAreOwned
  /\ LoneSetsWriteAlone

\* Null entries were there at the start, and nobody writes while they are there.
NullIsForeign ==
  /\ \A inode \in Inode : content[inode].null => inode = 0
  /\ Throws => \A w \in Worker : ~Busy(w)

IInv ==
  /\ TypeOK
  /\ EntriesWereSet
  /\ HitsAreFresh
  /\ FileInv
  /\ NullIsForeign
  /\ NothingIsLost
=============================================================================
