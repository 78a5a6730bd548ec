----------------------- MODULE BillingProbeCache_proofs -----------------------
(***************************************************************************)
(* Proofs about BillingProbeCache, for any number of workers, processes,   *)
(* subscriptions and sets, any times to live and any resolution of the     *)
(* names of temporary files.                                               *)
(***************************************************************************)
EXTENDS BillingProbeCache, TLAPS

-----------------------------------------------------------------------------
(* Entries, files and tasks. *)

\* The inodes writes may allocate, and the one that stands for no file.
LEMMA InodeFacts ==
  /\ NoInode \notin Inode /\ MaxWrites \in Nat /\ NoInode = MaxWrites + 1
  /\ 0 \in Inode /\ 1..MaxWrites \subseteq Inode
  BY ProbeCacheAssumption DEF NoInode, Inode

\* A worker between writes drafts nothing.
LEMMA IdleFacts ==
  /\ NoEntries \in Kept
  /\ Idle \in Task /\ Idle.at = "idle" /\ Idle.draft = NoEntries /\ Idle.alone = TRUE
<1>1. NoEntries \in Kept
  BY DEF NoEntries, Kept
<1> QED
  BY <1>1 DEF Idle, Task

\* A new file does not parse; a completely written one does, with its entries.
LEMMA EmptyFacts ==
  /\ Empty \in Document
  /\ Empty.parses = FALSE /\ Empty.entries = NoEntries
  /\ \A entries \in Kept :
       /\ Whole(entries) \in Document
       /\ Whole(entries).parses = TRUE /\ Whole(entries).entries = entries
       /\ Whole(entries).null = FALSE
  /\ Empty.null = FALSE
  /\ NullEntries \in Document /\ NullEntries.entries = NoEntries
  BY IdleFacts DEF Empty, Whole, NullEntries, Document

\* An entry expires one TTL of its outcome after it was cached.
LEMMA EntryFacts ==
  /\ \A outcome \in Outcome, time \in 0..MaxTime : Entry(outcome, time) \in Entries
  /\ \A entry \in Entries :
       /\ entry.cachedAt \in Nat /\ entry.expiresAt = entry.cachedAt + Ttl(entry.outcome)
       /\ Ttl(entry.outcome) \in Nat
<1>1. \A outcome \in Outcome : Ttl(outcome) \in Nat
  BY ProbeCacheAssumption DEF Ttl
<1>2. \A outcome \in Outcome, time \in 0..MaxTime :
        LET entry == Entry(outcome, time)
        IN /\ entry.cachedAt \in Nat /\ entry.outcome = outcome
           /\ entry.expiresAt = entry.cachedAt + Ttl(outcome)
  BY ProbeCacheAssumption DEF Entry
<1>3. \A outcome \in Outcome, time \in 0..MaxTime : Entry(outcome, time) \in Entries
  BY DEF Entries
<1>4. \A entry \in Entries : \E outcome \in Outcome, time \in 0..MaxTime : entry = Entry(outcome, time)
  BY DEF Entries
<1> HIDE DEF Entry
<1> QED
  BY <1>1, <1>2, <1>3, <1>4

\* Reading the file gives entries, those of its content if it parses.
LEMMA ReadFacts ==
  ASSUME TypeOK
  PROVE  /\ ReadFile \in Kept
         /\ file /= NoInode /\ content[file].parses => ReadFile = content[file].entries
<1>1. file /= NoInode => content[file] \in Document
  BY DEF TypeOK
<1> QED
  BY <1>1, IdleFacts DEF ReadFile, Document

\* Pruning keeps the live entries as they are and invents none.
LEMMA PruneFacts ==
  ASSUME NEW entries \in Kept, NEW time
  PROVE  /\ PruneExpired(entries, time) \in Kept
         /\ \A sub \in Sub :
              /\ Live(entries[sub], time) => PruneExpired(entries, time)[sub] = entries[sub]
              /\ PruneExpired(entries, time)[sub] \in {entries[sub], NoEntry}
  BY DEF PruneExpired, Kept

\* Who is busy shows in where its task is.
LEMMA BusyFacts ==
  ASSUME TypeOK, NEW w \in Worker
  PROVE  /\ task[w] \in Task
         /\ Busy(w) <=> task[w].at \in {"open", "write", "rename"}
         /\ Busy(w) => task[w].inode \in Inode
         /\ ~Busy(w) => task[w] = Idle
<1>1. task[w] \in Task /\ (Busy(w) => task[w].at /= "idle" /\ task[w].inode \in Inode)
  BY DEF TypeOK
<1>2. task[w].at \in {"idle", "open", "write", "rename"}
  BY <1>1 DEF Task
<1>3. ~Busy(w) => task[w] = Idle /\ task[w].at = "idle"
  BY IdleFacts DEF Busy
<1> QED
  BY <1>1, <1>2, <1>3

\* What a worker that begins a set changes.
LEMMA BeginFacts ==
  ASSUME TypeOK, NEW w \in Worker, NEW sub \in Sub, NEW outcome \in Outcome,
         StartSet(w, sub, outcome)
  PROVE  /\ task'[w].at = "open" /\ task'[w].inode = writes + 1 /\ task'[w].sub = sub
         /\ task'[w].draft = PruneExpired([ReadFile EXCEPT ![sub] = Entry(outcome, now)], now)
         /\ task'[w].alone => \A v \in Worker \ {w} : Busy(v) => ProcessOf[v] /= ProcessOf[w]
         /\ \A v \in Worker \ {w} :
              /\ task'[v].at = task[v].at /\ task'[v].draft = task[v].draft
              /\ task'[v].name = task[v].name /\ task'[v].inode = task[v].inode
              /\ task'[v].alone => task[v].alone
              /\ task'[v].alone /\ Busy(v) => ProcessOf[v] /= ProcessOf[w]
              /\ ~Busy(v) => task'[v] = Idle
         /\ task' \in [Worker -> Task]
         /\ ~disturbed' => /\ ~disturbed /\ task'[w].alone
                           /\ \A v \in Worker \ {w} : ~Busy(v) /\ task'[v] = Idle
         /\ disturbed' \in BOOLEAN
<1> DEFINE entry == Entry(outcome, now)
           state == [Idle EXCEPT !.at = "open", !.sub = sub, !.inode = writes + 1,
                             !.draft = PruneExpired([ReadFile EXCEPT ![sub] = entry], now)]
           others == {v \in Worker \ {w} : Busy(v)}
           siblings == {v \in others : ProcessOf[v] = ProcessOf[w]}
           alone == siblings = {}
<1>1. /\ Begin(w, state) /\ writes < MaxWrites
  BY DEF StartSet
<1>2. /\ task' = [v \in Worker |->
                IF v = w THEN [state EXCEPT !.alone = alone]
                ELSE IF v \in siblings THEN [task[v] EXCEPT !.alone = FALSE]
                ELSE task[v]]
      /\ disturbed' = (disturbed \/ others /= {})
  BY <1>1 DEF Begin
<1>3. PruneExpired([ReadFile EXCEPT ![sub] = entry], now) \in Kept
  <2>1. entry \in Entries
    BY EntryFacts DEF TypeOK
  <2>2. [ReadFile EXCEPT ![sub] = entry] \in Kept
    BY <2>1, ReadFacts DEF Kept
  <2> QED
    BY <2>2, PruneFacts
<1>4. writes + 1 \in Inode
  BY <1>1, InodeFacts DEF TypeOK
<1> DEFINE draft == PruneExpired([ReadFile EXCEPT ![sub] = entry], now)
<1> HIDE DEF entry
<1>5. /\ state \in Task /\ state.at = "open" /\ state.inode = writes + 1 /\ state.sub = sub
      /\ state.draft = draft
  BY <1>3, <1>4, IdleFacts DEF Task
<1>6. alone \in BOOLEAN
  OBVIOUS
<1> HIDE DEF state, alone, draft
<1>7. task'[w] = [state EXCEPT !.alone = alone]
  BY <1>2
<1>8. /\ task'[w] \in Task /\ task'[w].at = "open" /\ task'[w].inode = writes + 1
      /\ task'[w].sub = sub /\ task'[w].draft = draft /\ task'[w].alone = alone
  BY <1>5, <1>6, <1>7 DEF Task
<1>9. ASSUME NEW v \in Worker \ {w}
      PROVE  /\ task'[v].at = task[v].at /\ task'[v].draft = task[v].draft
             /\ task'[v].name = task[v].name /\ task'[v].inode = task[v].inode
             /\ task'[v].alone => task[v].alone
             /\ task'[v].alone /\ Busy(v) => ProcessOf[v] /= ProcessOf[w]
             /\ ~Busy(v) => task'[v] = Idle
             /\ task'[v] \in Task
  <2>1. task[v] \in Task /\ (~Busy(v) => task[v] = Idle)
    BY BusyFacts
  <2>2. CASE v \in siblings
    <3>1. task'[v] = [task[v] EXCEPT !.alone = FALSE]
      BY <1>2, <2>2
    <3> QED
      BY <2>1, <2>2, <3>1 DEF Task
  <2>3. CASE v \notin siblings
    <3>1. task'[v] = task[v]
      BY <1>2, <2>3
    <3> QED
      BY <2>1, <2>3, <3>1
  <2> QED
    BY <2>2, <2>3
<1>10. task' \in [Worker -> Task]
  <2>1. task' = [v \in Worker |-> task'[v]]
    BY <1>2
  <2> QED
    BY <2>1, <1>8, <1>9
<1>11. alone => \A v \in Worker \ {w} : Busy(v) => ProcessOf[v] /= ProcessOf[w]
  BY DEF alone
<1>12. ASSUME ~disturbed'
       PROVE  ~disturbed /\ alone /\ \A v \in Worker \ {w} : ~Busy(v)
  BY <1>2, <1>12 DEF alone
<1>13. disturbed' \in BOOLEAN
  BY <1>2 DEF TypeOK
<1> QED
  BY <1>8, <1>9, <1>10, <1>11, <1>12, <1>13 DEF draft, entry

\* What it leaves alone.
LEMMA BeginLeaves ==
  ASSUME TypeOK, NEW w \in Worker, NEW sub \in Sub, NEW outcome \in Outcome,
         StartSet(w, sub, outcome), NEW v \in Worker \ {w}
  PROVE  /\ task'[v].at = task[v].at /\ task'[v].draft = task[v].draft
         /\ task'[v].name = task[v].name /\ task'[v].inode = task[v].inode
<1>1. task'[v] = task[v] \/ task'[v] = [task[v] EXCEPT !.alone = FALSE]
  BY DEF StartSet, Begin
<1>2. task[v] \in Task
  BY DEF TypeOK
<1> QED
  BY <1>1, <1>2 DEF Task

\* What a worker that goes on with its set, or ends it, changes.
LEMMA ContinueFacts ==
  ASSUME TypeOK, NEW w \in Worker, NEW state \in Task, Continue(w, state),
         state = Idle \/ (state.at /= "idle" /\ state.inode \in Inode)
  PROVE  /\ task' \in [Worker -> Task] /\ task'[w] = state
         /\ \A v \in Worker \ {w} : task'[v] = task[v]
         /\ \A v \in Worker : Busy(v)' => task'[v].at /= "idle" /\ task'[v].inode \in Inode
<1>1. task' = [task EXCEPT ![w] = state] /\ task \in [Worker -> Task]
  BY DEF Continue, TypeOK
<1>2. \A v \in Worker : task[v] = Idle \/ (task[v].at /= "idle" /\ task[v].inode \in Inode)
  <2>1. \A v \in Worker : Busy(v) => task[v].at /= "idle" /\ task[v].inode \in Inode
    BY DEF TypeOK
  <2> QED
    BY <2>1 DEF Busy
<1>3. task'[w] = state /\ \A v \in Worker \ {w} : task'[v] = task[v]
  BY <1>1
<1>4. \A v \in Worker : Busy(v)' => task'[v].at /= "idle" /\ task'[v].inode \in Inode
  BY <1>2, <1>3 DEF Busy
<1> QED
  BY <1>1, <1>3, <1>4

\* A worker that finishes leaves the others' tasks as they were.
LEMMA FinishFacts ==
  ASSUME TypeOK, NEW w \in Worker, Continue(w, Idle)
  PROVE  /\ task' \in [Worker -> Task] /\ task'[w] = Idle
         /\ \A v \in Worker \ {w} : task'[v] = task[v]
         /\ \A v \in Worker : Busy(v)' => task'[v].at /= "idle" /\ task'[v].inode \in Inode
<1>1. PICK state \in Task : state = Idle
  BY IdleFacts
<1>2. Continue(w, state)
  BY <1>1
<1> QED
  BY <1>1, <1>2, ContinueFacts

\* What the steps of a set under way make of its task, and of the files.
LEMMA OpenFacts ==
  ASSUME TypeOK, NEW w \in Worker, NEW ms \in Millisecond, OpenTemp(w, ms)
  PROVE  \E name \in TempName, inode \in Inode, state \in Task :
           /\ task[w].at = "open" /\ Busy(w) /\ name[1] = ProcessOf[w]
           /\ inode = IF temps[name] = NoInode THEN task[w].inode ELSE temps[name]
           /\ temps' = [temps EXCEPT ![name] = inode]
           /\ content' = [content EXCEPT ![inode] = Empty]
           /\ Continue(w, state) /\ state.at = "write" /\ state.name = name
           /\ state.inode = inode /\ state.alone = task[w].alone
           /\ state.draft = task[w].draft
<1> DEFINE name == <<ProcessOf[w], now, ms>>
           inode == IF temps[name] = NoInode THEN task[w].inode ELSE temps[name]
           state == [task[w] EXCEPT !.at = "write", !.name = name, !.inode = inode]
<1>1. name \in TempName /\ name[1] = ProcessOf[w]
  BY ProbeCacheAssumption DEF TypeOK, TempName
<1>2. task[w] \in Task /\ task[w].at = "open" /\ Busy(w) /\ task[w].inode \in Inode
  BY BusyFacts DEF OpenTemp
<1>3. inode \in Inode
  BY <1>1, <1>2 DEF TypeOK
<1>4. /\ temps' = [temps EXCEPT ![name] = inode] /\ content' = [content EXCEPT ![inode] = Empty]
      /\ Continue(w, state)
  BY DEF OpenTemp
<1> HIDE DEF inode, name
<1>5. /\ state \in Task /\ state.at = "write" /\ state.name = name
      /\ state.inode = inode /\ state.alone = task[w].alone /\ state.draft = task[w].draft
  BY <1>1, <1>2, <1>3 DEF Task
<1>6. inode = IF temps[name] = NoInode THEN task[w].inode ELSE temps[name]
  BY DEF inode
<1> HIDE DEF state
<1> QED
  BY <1>1, <1>2, <1>3, <1>4, <1>5, <1>6

\* A write fills the worker's own inode, whole or torn.
LEMMA WriteFacts ==
  ASSUME TypeOK, NEW w \in Worker, WriteTemp(w)
  PROVE  /\ task[w].at = "write" /\ Busy(w) /\ task[w].inode \in Inode /\ temps' = temps
         /\ \E after \in {Whole(task[w].draft), Torn} :
              /\ content[task[w].inode] = Empty => after = Whole(task[w].draft)
              /\ content' = [content EXCEPT ![task[w].inode] = after]
         /\ \E state \in Task :
              /\ Continue(w, state) /\ state.at = "rename" /\ state.name = task[w].name
              /\ state.inode = task[w].inode /\ state.alone = task[w].alone
              /\ state.draft = task[w].draft
<1> DEFINE state == [task[w] EXCEPT !.at = "rename"]
<1>1. task[w] \in Task /\ task[w].at = "write" /\ Busy(w) /\ task[w].inode \in Inode
  BY BusyFacts DEF WriteTemp
<1>2. Continue(w, state) /\ temps' = temps
  BY DEF WriteTemp
<1>3. \E after \in {Whole(task[w].draft), Torn} :
         /\ content[task[w].inode] = Empty => after = Whole(task[w].draft)
         /\ content' = [content EXCEPT ![task[w].inode] = after]
  BY DEF WriteTemp
<1>4. /\ state \in Task /\ state.at = "rename" /\ state.name = task[w].name
      /\ state.inode = task[w].inode /\ state.alone = task[w].alone
      /\ state.draft = task[w].draft
  BY <1>1 DEF Task
<1> QED
  BY <1>1, <1>2, <1>3, <1>4

\* A rename moves the temporary file, or fails because it was taken.
LEMMA RenameFacts ==
  ASSUME TypeOK, FileInv, NEW w \in Worker, Rename(w)
  PROVE  /\ task[w].at = "rename" /\ Busy(w) /\ Writing(w)
         /\ task[w].name \in TempName /\ content' = content /\ Continue(w, Idle)
         /\ \/ file' = file /\ temps' = temps /\ temps[task[w].name] = NoInode
            \/ /\ temps[task[w].name] /= NoInode /\ file' = temps[task[w].name]
               /\ temps' = [temps EXCEPT ![task[w].name] = NoInode]
<1>1. task[w].at = "rename" /\ Busy(w) /\ Writing(w)
  BY BusyFacts DEF Rename, Writing
<1>2. task[w].name \in TempName
  BY <1>1 DEF FileInv, InodesAreOwned
<1> QED
  BY <1>1, <1>2 DEF Rename, Finish

-----------------------------------------------------------------------------
(* Types. *)

\* Initially everything is well typed.
LEMMA InitTypeOK == Init => TypeOK
<1> SUFFICES ASSUME Init PROVE TypeOK
  OBVIOUS
<1>1. content \in [Inode -> Document]
  BY IdleFacts, EmptyFacts DEF Init, Torn
<1>2. now \in 0..MaxTime /\ writes \in 0..MaxWrites /\ disturbed \in BOOLEAN
  <2>1. now = 0 /\ writes = 0
    BY DEF Init
  <2>2. disturbed \in BOOLEAN
    BY DEF Init
  <2> QED
    BY <2>1, <2>2, ProbeCacheAssumption
<1>4. file \in Inode \union {NoInode} /\ temps \in [TempName -> Inode \union {NoInode}]
  BY InodeFacts DEF Init
<1>3. /\ task \in [Worker -> Task] /\ latest \in Kept
      /\ \A w \in Worker : ~Busy(w)
  BY IdleFacts DEF Init, Busy
<1> QED
  BY <1>1, <1>2, <1>3, <1>4 DEF TypeOK

\* Every step keeps the types.
LEMMA NextTypeOK == TypeOK /\ FileInv /\ [Next]_vars => TypeOK'
<1> SUFFICES ASSUME TypeOK, FileInv, [Next]_vars PROVE TypeOK'
  OBVIOUS
<1>1. CASE UNCHANGED vars
  BY <1>1 DEF vars, TypeOK, Busy
<1>2. CASE Tick
  <2>1. now' \in 0..MaxTime
    BY <1>2, ProbeCacheAssumption DEF Tick, TypeOK
  <2> QED
    BY <1>2, <2>1 DEF Tick, TypeOK, Busy
<1>3. ASSUME NEW w \in Worker, NEW sub \in Sub, Get(w, sub)
      PROVE  TypeOK'
  BY <1>3 DEF Get, TypeOK, Busy
<1>4. ASSUME NEW w \in Worker, NEW sub \in Sub, NEW outcome \in Outcome,
             StartSet(w, sub, outcome)
      PROVE  TypeOK'
  <2>1. /\ writes < MaxWrites /\ writes' = writes + 1
        /\ latest' = [latest EXCEPT ![sub] = Entry(outcome, now)]
        /\ now' = now /\ file' = file /\ temps' = temps /\ content' = content
    BY <1>4 DEF StartSet
  <2>2. Entry(outcome, now) \in Entries
    BY EntryFacts DEF TypeOK
  <2>3. latest' \in Kept
    BY <2>1, <2>2 DEF TypeOK, Kept
  <2>4. writes' \in 0..MaxWrites /\ writes' \in Inode
    BY <2>1, InodeFacts DEF TypeOK
  <2>5. ASSUME NEW v \in Worker, Busy(v)'
        PROVE  task'[v].at /= "idle" /\ task'[v].inode \in Inode
    <3>1. CASE v = w
      BY <1>4, <2>1, <2>4, <3>1, BeginFacts
    <3>2. CASE v /= w
      <4>1. task'[v] /= Idle
        BY <2>5 DEF Busy
      <4>2. ~Busy(v) => task'[v] = Idle
        <5>1. v \in Worker \ {w}
          BY <3>2
        <5>2. \A u \in Worker \ {w} : ~Busy(u) => task'[u] = Idle
          BY <1>4, BeginFacts
        <5> QED
          BY <5>1, <5>2
      <4> QED
        BY <1>4, <3>2, <4>1, <4>2, BeginFacts, BusyFacts
    <3> QED
      BY <3>1, <3>2
  <2>6. task' \in [Worker -> Task] /\ disturbed' \in BOOLEAN
    BY <1>4, BeginFacts
  <2> QED
    BY <2>1, <2>3, <2>4, <2>5, <2>6 DEF TypeOK
<1>5. ASSUME NEW w \in Worker, NEW ms \in Millisecond, OpenTemp(w, ms)
      PROVE  TypeOK'
  <2>1. PICK name \in TempName, inode \in Inode, state \in Task :
           /\ temps' = [temps EXCEPT ![name] = inode]
           /\ content' = [content EXCEPT ![inode] = Empty]
           /\ Continue(w, state) /\ state.at = "write" /\ state.inode = inode
    BY <1>5, OpenFacts
  <2>2. temps' \in [TempName -> Inode \union {NoInode}]
    BY <2>1 DEF TypeOK
  <2>3. content' \in [Inode -> Document]
    BY <2>1, EmptyFacts DEF TypeOK
  <2>4. /\ task' \in [Worker -> Task]
        /\ \A v \in Worker : Busy(v)' => task'[v].at /= "idle" /\ task'[v].inode \in Inode
    BY <2>1, ContinueFacts
  <2> QED
    BY <1>5, <2>2, <2>3, <2>4 DEF OpenTemp, TypeOK
<1>6. ASSUME NEW w \in Worker, WriteTemp(w)
      PROVE  TypeOK'
  <2>1. /\ task[w].inode \in Inode /\ task[w].draft \in Kept
    BY <1>6, WriteFacts, BusyFacts DEF Task
  <2>2. PICK after \in {Whole(task[w].draft), Torn} :
           content' = [content EXCEPT ![task[w].inode] = after]
    BY <1>6, WriteFacts
  <2>3. after \in Document
    BY <2>1, EmptyFacts DEF Torn
  <2>4. content' \in [Inode -> Document]
    BY <2>1, <2>2, <2>3 DEF TypeOK
  <2>5. PICK state \in Task : Continue(w, state) /\ state.at = "rename" /\ state.inode = task[w].inode
    BY <1>6, WriteFacts
  <2>6. /\ task' \in [Worker -> Task]
        /\ \A v \in Worker : Busy(v)' => task'[v].at /= "idle" /\ task'[v].inode \in Inode
    BY <2>1, <2>5, ContinueFacts
  <2> QED
    BY <1>6, <2>4, <2>6 DEF WriteTemp, TypeOK
<1>7. ASSUME NEW w \in Worker, Rename(w)
      PROVE  TypeOK'
  <2>1. /\ task' \in [Worker -> Task]
        /\ \A v \in Worker : Busy(v)' => task'[v].at /= "idle" /\ task'[v].inode \in Inode
    BY <1>7, RenameFacts, FinishFacts
  <2>2. /\ temps' \in [TempName -> Inode \union {NoInode}] /\ file' \in Inode \union {NoInode}
    BY <1>7, RenameFacts DEF TypeOK
  <2> QED
    BY <1>7, <2>1, <2>2 DEF Rename, TypeOK
<1>8. ASSUME NEW w \in Worker, Fail(w)
      PROVE  TypeOK'
  <2>1. /\ task' \in [Worker -> Task]
        /\ \A v \in Worker : Busy(v)' => task'[v].at /= "idle" /\ task'[v].inode \in Inode
    BY <1>8, FinishFacts DEF Fail, Finish
  <2> QED
    BY <1>8, <2>1 DEF Fail, TypeOK
<1>9. ASSUME NEW w \in Worker, NEW sub \in Sub, NEW outcome \in Outcome,
             SetThrows(w, sub, outcome)
      PROVE  TypeOK'
  <2>1. /\ writes < MaxWrites /\ writes' = writes + 1
        /\ latest' = [latest EXCEPT ![sub] = Entry(outcome, now)]
        /\ UNCHANGED <<now, file, temps, content, task, disturbed>>
    BY <1>9 DEF SetThrows
  <2>2. Entry(outcome, now) \in Entries
    BY EntryFacts DEF TypeOK
  <2>3. latest' \in Kept
    BY <2>1, <2>2 DEF TypeOK, Kept
  <2>4. writes' \in 0..MaxWrites
    BY <2>1, InodeFacts DEF TypeOK
  <2> QED
    BY <2>1, <2>3, <2>4 DEF TypeOK, Busy
<1> QED
  BY <1>1, <1>2, <1>3, <1>4, <1>5, <1>6, <1>7, <1>8, <1>9 DEF Next

-----------------------------------------------------------------------------
(* Every entry on file was set, and no answer is older than it may be. *)

Among(entries, pairs) == \A sub \in Sub : entries[sub] = NoEntry \/ <<sub, entries[sub]>> \in pairs

\* No entries were all recorded, and what was recorded stays so.
LEMMA AmongFacts ==
  /\ Recorded(NoEntries)
  /\ \A entries, pairs, more : Among(entries, pairs) /\ pairs \subseteq more => Among(entries, more)
  /\ \A entries : Recorded(entries) <=> Among(entries, sets)
  /\ \A entries : Recorded(entries)' <=> Among(entries, sets')
  BY DEF Among, Recorded, NoEntries

\* What a reader finds was recorded by some worker.
LEMMA ReadIsRecorded ==
  ASSUME TypeOK, EntriesWereSet
  PROVE  Recorded(ReadFile)
<1>1. file /= NoInode => Recorded(content[file].entries)
  BY DEF TypeOK, EntriesWereSet
<1> QED
  BY <1>1, AmongFacts DEF ReadFile

\* What a step must show of what it puts in files and drafts.
LEMMA EntriesStep ==
  ASSUME EntriesWereSet, sets' = sets,
         \A inode \in Inode : \/ content'[inode].entries = content[inode].entries
                              \/ Recorded(content'[inode].entries),
         \A w \in Worker : task'[w].draft = task[w].draft \/ task'[w].draft = NoEntries
  PROVE  EntriesWereSet'
<1>1. \A inode \in Inode : Recorded(content[inode].entries)'
  BY DEF EntriesWereSet, Recorded
<1>2. \A w \in Worker : Recorded(task[w].draft)'
  BY AmongFacts DEF EntriesWereSet, Recorded
<1> QED
  BY <1>1, <1>2 DEF EntriesWereSet

\* Initially the file holds no entry, if there is one.
LEMMA InitEntriesWereSet == Init => EntriesWereSet
<1> SUFFICES ASSUME Init PROVE EntriesWereSet
  OBVIOUS
<1>1. \A inode \in Inode : content[inode].entries = NoEntries
  BY EmptyFacts, IdleFacts DEF Init, Torn
<1>2. \A w \in Worker : task[w].draft = NoEntries
  BY IdleFacts DEF Init
<1>3. sets = {}
  BY DEF Init
<1> QED
  BY <1>1, <1>2, <1>3, AmongFacts DEF EntriesWereSet

\* Every step keeps the entries to those that some worker recorded.
LEMMA NextEntriesWereSet == TypeOK /\ FileInv /\ EntriesWereSet /\ [Next]_vars => EntriesWereSet'
<1> SUFFICES ASSUME TypeOK, FileInv, EntriesWereSet, [Next]_vars PROVE EntriesWereSet'
  OBVIOUS
<1>1. CASE Tick \/ UNCHANGED vars \/ \E w \in Worker, sub \in Sub : Get(w, sub)
  BY <1>1, EntriesStep DEF Tick, Get, vars
<1>2. ASSUME NEW w \in Worker, NEW sub \in Sub, NEW outcome \in Outcome,
             StartSet(w, sub, outcome)
      PROVE  EntriesWereSet'
  <2> DEFINE entry == Entry(outcome, now)
             merged == [ReadFile EXCEPT ![sub] = entry]
  <2>1. sets' = sets \union {<<sub, entry>>} /\ content' = content
    BY <1>2 DEF StartSet
  <2>2. entry \in Entries
    BY EntryFacts DEF TypeOK
  <2>3. merged \in Kept
    BY <2>2, ReadFacts DEF Kept
  <2>4. Among(merged, sets')
    <3>1. ReadFile \in Kept
      BY ReadFacts
    <3>2. \A s \in Sub : merged[s] = IF s = sub THEN entry ELSE ReadFile[s]
      BY <3>1 DEF Kept
    <3>3. Recorded(ReadFile)
      BY ReadIsRecorded
    <3> HIDE DEF merged
    <3> QED
      BY <2>1, <3>2, <3>3 DEF Among, Recorded
  <2> HIDE DEF merged, entry
  <2>5. Among(PruneExpired(merged, now), sets')
    BY <2>3, <2>4, PruneFacts DEF Among
  <2>6. task'[w].draft = PruneExpired(merged, now)
    BY <1>2, BeginFacts DEF merged, entry
  <2>7. \A v \in Worker : Recorded(task[v].draft)'
    <3>1. \A v \in Worker \ {w} : task'[v].draft = task[v].draft
      BY <1>2, BeginLeaves
    <3>2. \A v \in Worker : Among(task[v].draft, sets')
      BY <2>1, AmongFacts DEF EntriesWereSet
    <3>3. \A v \in Worker : Among(task'[v].draft, sets')
      BY <2>5, <2>6, <3>1, <3>2
    <3> QED
      BY <3>3 DEF Among, Recorded
  <2>8. \A inode \in Inode : Recorded(content[inode].entries)'
    <3>1. \A inode \in Inode : Among(content[inode].entries, sets')
      BY <2>1, AmongFacts DEF EntriesWereSet
    <3> QED
      BY <2>1, <3>1 DEF Among, Recorded
  <2>9. (\A pair \in sets : pair[2] \in Entries)'
    BY <2>1, <2>2 DEF EntriesWereSet
  <2> QED
    BY <2>7, <2>8, <2>9 DEF EntriesWereSet
<1>3. ASSUME NEW w \in Worker, NEW ms \in Millisecond, OpenTemp(w, ms)
      PROVE  EntriesWereSet'
  <2>1. PICK name \in TempName, inode \in Inode, state \in Task :
           /\ content' = [content EXCEPT ![inode] = Empty]
           /\ Continue(w, state) /\ state.draft = task[w].draft
    BY <1>3, OpenFacts
  <2>2. \A i \in Inode : \/ content'[i].entries = content[i].entries
                         \/ Recorded(content'[i].entries)
    <3>1. \A i \in Inode : content'[i] = content[i] \/ content'[i] = Empty
      BY <2>1 DEF TypeOK
    <3> QED
      BY <3>1, EmptyFacts, AmongFacts
  <2>3. \A v \in Worker : task'[v].draft = task[v].draft
    BY <2>1 DEF Continue, TypeOK
  <2> QED
    BY <1>3, <2>2, <2>3, EntriesStep DEF OpenTemp
<1>4. ASSUME NEW w \in Worker, WriteTemp(w)
      PROVE  EntriesWereSet'
  <2>1. PICK after \in {Whole(task[w].draft), Torn} :
           content' = [content EXCEPT ![task[w].inode] = after]
    BY <1>4, WriteFacts
  <2>2. PICK state \in Task : Continue(w, state) /\ state.draft = task[w].draft
    BY <1>4, WriteFacts
  <2>3. Recorded(after.entries)
    <3>1. task[w].draft \in Kept /\ Recorded(task[w].draft)
      BY BusyFacts DEF Task, EntriesWereSet
    <3> QED
      BY <3>1, EmptyFacts, AmongFacts DEF Torn
  <2>4. \A i \in Inode : content'[i] = content[i] \/ content'[i] = after
    BY <2>1 DEF TypeOK
  <2>5. \A i \in Inode : \/ content'[i].entries = content[i].entries
                         \/ Recorded(content'[i].entries)
    BY <2>3, <2>4
  <2>6. \A v \in Worker : task'[v].draft = task[v].draft
    BY <2>2 DEF Continue, TypeOK
  <2> QED
    BY <1>4, <2>5, <2>6, EntriesStep DEF WriteTemp
<1>5. ASSUME NEW w \in Worker, Rename(w) \/ Fail(w)
      PROVE  EntriesWereSet'
  <2>1. Continue(w, Idle) /\ content' = content /\ sets' = sets
    BY <1>5 DEF Rename, Fail, Finish
  <2>2. \A v \in Worker : task'[v].draft = task[v].draft \/ task'[v].draft = NoEntries
    BY <2>1, IdleFacts DEF Continue, TypeOK
  <2> QED
    BY <2>1, <2>2, EntriesStep
<1>6. ASSUME NEW w \in Worker, NEW sub \in Sub, NEW outcome \in Outcome,
             SetThrows(w, sub, outcome)
      PROVE  EntriesWereSet'
  <2> DEFINE entry == Entry(outcome, now)
  <2>1. sets' = sets \union {<<sub, entry>>} /\ content' = content /\ task' = task
    BY <1>6 DEF SetThrows
  <2>2. entry \in Entries
    BY EntryFacts DEF TypeOK
  <2> HIDE DEF entry
  <2>3. /\ \A inode \in Inode : Among(content[inode].entries, sets')
        /\ \A v \in Worker : Among(task[v].draft, sets')
    BY <2>1, AmongFacts DEF EntriesWereSet
  <2>4. /\ \A inode \in Inode : Recorded(content[inode].entries)'
        /\ \A v \in Worker : Recorded(task[v].draft)'
    BY <2>1, <2>3 DEF Among, Recorded
  <2>5. (\A pair \in sets : pair[2] \in Entries)'
    BY <2>1, <2>2 DEF EntriesWereSet
  <2> QED
    BY <2>4, <2>5 DEF EntriesWereSet
<1> QED
  BY <1>1, <1>2, <1>3, <1>4, <1>5, <1>6 DEF Next

\* Initially nothing was answered.
LEMMA InitHitsAreFresh == Init => HitsAreFresh
  BY DEF Init, HitsAreFresh

\* Every answer is fresh at the time it is given.
LEMMA NextHitsAreFresh == TypeOK /\ EntriesWereSet /\ HitsAreFresh /\ [Next]_vars => HitsAreFresh'
<1> SUFFICES ASSUME TypeOK, EntriesWereSet, HitsAreFresh, [Next]_vars PROVE HitsAreFresh'
  OBVIOUS
<1>1. ASSUME NEW w \in Worker, NEW sub \in Sub, Get(w, sub)
      PROVE  HitsAreFresh'
  <2> DEFINE entry == ReadFile[sub]
  <2>1. /\ sets' = sets
        /\ answer' = [sub |-> sub, at |-> now, thrown |-> Throws,
                      entry |-> IF Live(entry, now) THEN entry ELSE NoEntry]
    BY <1>1 DEF Get
  <2> SUFFICES ASSUME answer'.entry /= NoEntry
               PROVE  /\ <<answer'.sub, answer'.entry>> \in sets
                      /\ answer'.at - answer'.entry.cachedAt < Ttl(answer'.entry.outcome)
    BY <2>1 DEF HitsAreFresh, Ttl
  <2>2. answer'.sub = sub /\ answer'.at = now /\ answer'.entry = entry /\ Live(entry, now)
    BY <2>1
  <2>3. entry /= NoEntry /\ now < entry.expiresAt
    BY <2>2 DEF Live
  <2>4. <<sub, entry>> \in sets
    BY <2>3, ReadIsRecorded DEF Recorded
  <2>5. entry \in Entries
    <3>1. <<sub, entry>>[2] = entry
      OBVIOUS
    <3> QED
      BY <2>4, <3>1 DEF EntriesWereSet
  <2>6. now \in Nat /\ entry.cachedAt \in Nat /\ Ttl(entry.outcome) \in Nat
        /\ entry.expiresAt = entry.cachedAt + Ttl(entry.outcome)
    BY <2>5, EntryFacts, ProbeCacheAssumption DEF TypeOK
  <2> HIDE DEF entry
  <2> QED
    BY <2>2, <2>3, <2>4, <2>6
<1>2. ASSUME answer' = answer, sets \subseteq sets'
      PROVE  HitsAreFresh'
  BY <1>2 DEF HitsAreFresh
<1> QED
  BY <1>1, <1>2 DEF Next, Tick, StartSet, SetThrows, OpenTemp, WriteTemp, Rename, Fail, vars

-----------------------------------------------------------------------------
(* Temporary files: who shares them. *)

\* A sibling is busy with a set of the same process.
Shared(v, w) == v /= w /\ Busy(v) /\ Busy(w) /\ ProcessOf[v] = ProcessOf[w]

\* After a step, too, a worker is busy exactly from open to rename.
LEMMA BusyAfter == TypeOK' => \A w \in Worker : Busy(w)' <=> task'[w].at \in {"open", "write", "rename"}
<1> SUFFICES ASSUME TypeOK', NEW w \in Worker
             PROVE  Busy(w)' <=> task'[w].at \in {"open", "write", "rename"}
  OBVIOUS
<1>1. task'[w] \in Task /\ (Busy(w)' => task'[w].at /= "idle")
  BY DEF TypeOK
<1>2. task'[w].at \in {"idle", "open", "write", "rename"}
  BY <1>1 DEF Task
<1>3. ~Busy(w)' => task'[w].at = "idle"
  BY IdleFacts DEF Busy
<1> QED
  BY <1>1, <1>2, <1>3

\* A worker that has its file open is busy.
LEMMA WritingIsBusy == TypeOK => \A w \in Worker : Writing(w) => Busy(w)
  BY BusyFacts DEF Writing

\* Who writes to the inode of another is its sibling, whoever gave it its name.
LEMMA SameInodeSameProcess ==
  ASSUME TypeOK, FileInv, NEW v \in Worker, NEW w \in Worker, v /= w
  PROVE  /\ Writing(v) /\ Writing(w) /\ task[v].inode = task[w].inode => Shared(v, w)
         /\ Writing(v) /\ Writing(w) /\ task[v].name = task[w].name => Shared(v, w)
         /\ Busy(w) /\ Busy(v) /\ task[w].alone => ~Shared(v, w)
<1>1. Writing(v) => Busy(v) /\ task[v].name[1] = ProcessOf[v]
  BY WritingIsBusy DEF FileInv, InodesAreOwned
<1>2. Writing(w) => Busy(w) /\ task[w].name[1] = ProcessOf[w]
  BY WritingIsBusy DEF FileInv, InodesAreOwned
<1>3. Writing(v) /\ Writing(w) /\ task[v].inode = task[w].inode => ProcessOf[v] = ProcessOf[w]
  BY DEF FileInv, InodesAreOwned
<1>4. Busy(w) /\ Busy(v) /\ task[w].alone => ProcessOf[v] /= ProcessOf[w]
  BY DEF FileInv, LoneSetsWriteAlone
<1> QED
  BY <1>1, <1>2, <1>3, <1>4 DEF Shared

\* Initially there is no temporary file.
LEMMA InitFileInv == Init => FileInv
<1> SUFFICES ASSUME Init PROVE FileInv
  OBVIOUS
<1>1. /\ \A w \in Worker : ~Busy(w) /\ task[w].at = "idle"
      /\ \A n \in TempName : temps[n] = NoInode
  BY IdleFacts DEF Init, Busy
<1>2. file /= NoInode => file <= writes
  BY DEF Init
<1> QED
  BY <1>1, <1>2 DEF FileInv, NamesAreUnique, InodesAreOwned, LoneSetsWriteAlone, Writing

\* A set ends where it is: what is about the others stays.
LEMMA FailKeepsFiles ==
  ASSUME TypeOK, TypeOK', FileInv, NEW w \in Worker, Fail(w)
  PROVE  FileInv'
<1>1. /\ task'[w] = Idle /\ \A v \in Worker \ {w} : task'[v] = task[v]
      /\ file' = file /\ temps' = temps /\ content' = content /\ writes' = writes
  BY FinishFacts DEF Fail, Finish
<1>2. /\ task'[w].at = "idle" /\ ~Busy(w)' /\ ~Writing(w)'
      /\ \A v \in Worker \ {w} : (Busy(v)' <=> Busy(v)) /\ (Writing(v)' <=> Writing(v))
  BY <1>1, IdleFacts DEF Busy, Writing
<1>3. NamesAreUnique'
  BY <1>1, <1>2 DEF FileInv, NamesAreUnique
<1>4. InodesAreOwned'
  BY <1>1, <1>2 DEF FileInv, InodesAreOwned
<1>5. LoneSetsWriteAlone'
  BY <1>1, <1>2 DEF FileInv, LoneSetsWriteAlone
<1> QED
  BY <1>3, <1>4, <1>5 DEF FileInv

\* Starting a write touches no file.
LEMMA StartSetKeepsFiles ==
  ASSUME TypeOK, TypeOK', FileInv, NEW w \in Worker, NEW sub \in Sub, NEW outcome \in Outcome,
         StartSet(w, sub, outcome)
  PROVE  FileInv'
<1>1. /\ file' = file /\ temps' = temps /\ content' = content
      /\ writes \in Nat /\ writes' = writes + 1 /\ writes' <= MaxWrites
  BY InodeFacts DEF StartSet, TypeOK
<1>2. /\ task'[w].at = "open" /\ task'[w].inode = writes' /\ ~Busy(w) /\ Busy(w)' /\ ~Writing(w)'
  BY <1>1, BeginFacts, BusyAfter DEF Writing, StartSet
<1>3. \A v \in Worker \ {w} :
        /\ task'[v].at = task[v].at /\ task'[v].draft = task[v].draft
        /\ task'[v].name = task[v].name /\ task'[v].inode = task[v].inode
  BY BeginLeaves
<1>4. \A v \in Worker \ {w} : (Busy(v)' <=> Busy(v)) /\ (Writing(v)' <=> Writing(v))
  BY <1>3, BusyFacts, BusyAfter DEF Writing
<1>5. NamesAreUnique'
  <2>1. \A n \in TempName : temps[n] /= NoInode => temps[n] \in 1..writes' /\ temps[n] /= file
    BY <1>1 DEF FileInv, NamesAreUnique
  <2>2. (file /= NoInode => file <= writes') /\ file /= writes'
    BY <1>1, InodeFacts DEF FileInv, NamesAreUnique, TypeOK, Inode
  <2>3. \A n \in TempName : temps[n] /= writes'
    BY <1>1, InodeFacts DEF FileInv, NamesAreUnique
  <2>4. \A v \in Worker \ {w} : Busy(v) => task[v].inode \in 1..writes' /\ task[v].inode /= writes'
    BY <1>1 DEF FileInv, NamesAreUnique
  <2>5. writes' \in 1..writes'
    BY <1>1
  <2>6. \A v \in Worker : Busy(v)' => task'[v].inode \in 1..writes'
    BY <1>2, <1>3, <1>4, <2>4, <2>5
  <2>7. ASSUME NEW v \in Worker, task'[v].at = "open"
        PROVE  /\ task'[v].inode /= file
               /\ \A n \in TempName : temps[n] /= task'[v].inode
               /\ \A u \in Worker \ {v} : Busy(u)' => task'[u].inode /= task'[v].inode
    <3>1. CASE v = w
      BY <1>2, <1>3, <1>4, <2>2, <2>3, <2>4, <3>1
    <3>2. CASE v /= w
      <4>1. /\ task[v].at = "open" /\ task'[v].inode = task[v].inode /\ Busy(v)
            /\ task[v].inode /= writes'
        BY <1>3, <2>4, <2>7, <3>2, BusyFacts
      <4> QED
        BY <1>2, <1>3, <1>4, <4>1, <3>2 DEF FileInv, NamesAreUnique
    <3> QED
      BY <3>1, <3>2
  <2>8. \A m, n \in TempName : temps[m] = temps[n] /\ temps[m] /= NoInode => m = n
    BY DEF FileInv, NamesAreUnique
  <2> QED
    BY <1>1, <2>1, <2>2, <2>6, <2>7, <2>8 DEF NamesAreUnique
<1>6. InodesAreOwned'
  BY <1>1, <1>2, <1>3, <1>4 DEF FileInv, InodesAreOwned
<1>7. LoneSetsWriteAlone'
  <2> SUFFICES ASSUME NEW v \in Worker, Busy(v)', task'[v].alone
               PROVE  /\ \A u \in Worker \ {v} : Busy(u)' => ProcessOf[u] /= ProcessOf[v]
                      /\ Writing(v)' => temps'[task'[v].name] = task'[v].inode
                      /\ task'[v].at = "write" => content'[task'[v].inode] = Empty
                      /\ task'[v].at = "rename" => content'[task'[v].inode] = Whole(task'[v].draft)
    BY DEF LoneSetsWriteAlone
  <2>1. CASE v = w
    <3>1. \A u \in Worker \ {w} : Busy(u) => ProcessOf[u] /= ProcessOf[w]
      BY <2>1, BeginFacts
    <3> QED
      BY <1>2, <1>4, <2>1, <3>1
  <2>2. CASE v /= w
    <3>1. Busy(v) /\ task[v].alone /\ ProcessOf[v] /= ProcessOf[w]
      BY <1>4, <2>2, BeginFacts
    <3> QED
      BY <1>1, <1>2, <1>3, <1>4, <2>2, <3>1 DEF FileInv, LoneSetsWriteAlone
  <2> QED
    BY <2>1, <2>2
<1> QED
  BY <1>5, <1>6, <1>7 DEF FileInv

\* Opening a temporary file uses an inode that has no name, or a sibling's of that name.
LEMMA OpenTempKeepsFiles ==
  ASSUME TypeOK, TypeOK', FileInv, NEW w \in Worker, NEW ms \in Millisecond, OpenTemp(w, ms)
  PROVE  FileInv'
<1>1. PICK name \in TempName, inode \in Inode, state \in Task :
         /\ task[w].at = "open" /\ Busy(w) /\ name[1] = ProcessOf[w]
         /\ inode = IF temps[name] = NoInode THEN task[w].inode ELSE temps[name]
         /\ temps' = [temps EXCEPT ![name] = inode]
         /\ content' = [content EXCEPT ![inode] = Empty]
         /\ Continue(w, state) /\ state.at = "write" /\ state.name = name
         /\ state.inode = inode /\ state.alone = task[w].alone
         /\ state.draft = task[w].draft
  BY OpenFacts
<1>2. /\ task'[w] = state /\ \A v \in Worker \ {w} : task'[v] = task[v]
      /\ file' = file /\ writes' = writes
  BY <1>1, ContinueFacts DEF OpenTemp
<1>3. /\ temps'[name] = inode /\ \A n \in TempName \ {name} : temps'[n] = temps[n]
      /\ content'[inode] = Empty /\ \A i \in Inode \ {inode} : content'[i] = content[i]
  BY <1>1 DEF TypeOK
<1>4. Busy(w)' /\ Writing(w)'
  BY <1>1, <1>2, BusyAfter DEF Writing
<1>5. \A v \in Worker \ {w} : (Busy(v)' <=> Busy(v)) /\ (Writing(v)' <=> Writing(v))
  BY <1>2 DEF Writing, Busy
<1>6. inode \in 1..writes /\ inode /= file /\ inode /= NoInode
  BY <1>1, InodeFacts DEF FileInv, NamesAreUnique
<1>7. \A n \in TempName \ {name} : temps[n] /= inode
  BY <1>1 DEF FileInv, NamesAreUnique
<1>8. \A v \in Worker \ {w} : task[v].at = "open" => task[v].inode /= inode
  BY <1>1 DEF FileInv, NamesAreUnique
<1>9. \A v \in Worker \ {w} : Writing(v) /\ task[v].inode = inode => ProcessOf[v] = ProcessOf[w]
  <2> SUFFICES ASSUME NEW v \in Worker \ {w}, Writing(v), task[v].inode = inode
               PROVE  ProcessOf[v] = ProcessOf[w]
    OBVIOUS
  <2>1. Busy(v)
    BY WritingIsBusy
  <2>2. task[v].inode /= task[w].inode
    BY <1>1, <2>1 DEF FileInv, NamesAreUnique
  <2>3. temps[name] = task[v].inode
    BY <1>1, <2>2
  <2> QED
    BY <1>1, <2>3 DEF FileInv, InodesAreOwned
<1>10. NamesAreUnique'
  <2>1. \A m, n \in TempName : temps'[m] = temps'[n] /\ temps'[m] /= NoInode => m = n
    BY <1>3, <1>7 DEF FileInv, NamesAreUnique
  <2>2. \A n \in TempName : temps'[n] /= NoInode => temps'[n] \in 1..writes /\ temps'[n] /= file
    BY <1>3, <1>6 DEF FileInv, NamesAreUnique
  <2>3. file /= NoInode => file <= writes
    BY DEF FileInv, NamesAreUnique
  <2>4. \A v \in Worker : Busy(v)' => task'[v].inode \in 1..writes
    BY <1>1, <1>2, <1>5, <1>6 DEF FileInv, NamesAreUnique
  <2>5. ASSUME NEW v \in Worker, task'[v].at = "open"
        PROVE  /\ task'[v].inode /= file
               /\ \A n \in TempName : temps'[n] /= task'[v].inode
               /\ \A u \in Worker \ {v} : Busy(u)' => task'[u].inode /= task'[v].inode
    <3>1. v /= w /\ task[v].at = "open" /\ task'[v] = task[v] /\ task[v].inode /= inode
      BY <1>1, <1>2, <1>8, <2>5
    <3>2. /\ task[v].inode /= file
          /\ \A n \in TempName : temps[n] /= task[v].inode
          /\ \A u \in Worker \ {v} : Busy(u) => task[u].inode /= task[v].inode
      BY <3>1 DEF FileInv, NamesAreUnique
    <3>3. \A n \in TempName : temps'[n] /= task[v].inode
      BY <1>3, <3>1, <3>2
    <3>4. \A u \in Worker \ {v} : Busy(u)' => task'[u].inode /= task[v].inode
      BY <1>1, <1>2, <1>5, <3>1, <3>2
    <3> QED
      BY <3>1, <3>2, <3>3, <3>4
  <2> QED
    BY <1>2, <2>1, <2>2, <2>3, <2>4, <2>5 DEF NamesAreUnique
<1>11. InodesAreOwned'
  <2>1. \A v \in Worker : Writing(v)' => task'[v].name \in TempName /\ task'[v].name[1] = ProcessOf[v]
    BY <1>1, <1>2, <1>5 DEF FileInv, InodesAreOwned
  <2>2. ASSUME NEW u \in Worker, NEW v \in Worker, Writing(u)', Writing(v)',
               task'[u].inode = task'[v].inode
        PROVE  ProcessOf[u] = ProcessOf[v]
    <3>1. CASE u /= w /\ v /= w
      BY <1>2, <1>5, <2>2, <3>1 DEF FileInv, InodesAreOwned
    <3>2. CASE u = w /\ v /= w
      BY <1>1, <1>2, <1>5, <1>9, <2>2, <3>2
    <3>3. CASE u /= w /\ v = w
      BY <1>1, <1>2, <1>5, <1>9, <2>2, <3>3
    <3> QED
      BY <3>1, <3>2, <3>3
  <2>3. ASSUME NEW v \in Worker, NEW n \in TempName, Writing(v)', temps'[n] = task'[v].inode
        PROVE  n[1] = ProcessOf[v]
    <3>1. CASE v = w
      BY <1>1, <1>2, <1>3, <1>7, <2>3, <3>1
    <3>2. CASE v /= w /\ n = name
      BY <1>1, <1>2, <1>3, <1>5, <1>9, <2>3, <3>2
    <3>3. CASE v /= w /\ n /= name
      BY <1>2, <1>3, <1>5, <2>3, <3>3 DEF FileInv, InodesAreOwned
    <3> QED
      BY <3>1, <3>2, <3>3
  <2> QED
    BY <2>1, <2>2, <2>3 DEF InodesAreOwned
<1>12. LoneSetsWriteAlone'
  <2> SUFFICES ASSUME NEW v \in Worker, Busy(v)', task'[v].alone
               PROVE  /\ \A u \in Worker \ {v} : Busy(u)' => ProcessOf[u] /= ProcessOf[v]
                      /\ Writing(v)' => temps'[task'[v].name] = task'[v].inode
                      /\ task'[v].at = "write" => content'[task'[v].inode] = Empty
                      /\ task'[v].at = "rename" => content'[task'[v].inode] = Whole(task'[v].draft)
    BY DEF LoneSetsWriteAlone
  <2>1. Busy(v) /\ task[v].alone
    BY <1>1, <1>2, <1>5
  <2>2. \A u \in Worker \ {v} : Busy(u) => ProcessOf[u] /= ProcessOf[v]
    BY <2>1 DEF FileInv, LoneSetsWriteAlone
  <2>3. \A u \in Worker \ {v} : Busy(u)' => ProcessOf[u] /= ProcessOf[v]
    BY <1>1, <1>5, <2>2
  <2>4. CASE v = w
    BY <1>1, <1>2, <1>3, <2>3, <2>4
  <2>5. CASE v /= w
    <3>1. ProcessOf[v] /= ProcessOf[w] /\ task'[v] = task[v]
      BY <1>1, <1>2, <2>2, <2>5
    <3>2. ASSUME Writing(v)
          PROVE  task[v].name \in TempName \ {name} /\ task[v].inode \in Inode \ {inode}
      BY <1>1, <1>9, <2>1, <2>5, <3>1, <3>2, BusyFacts DEF FileInv, InodesAreOwned
    <3>3. Writing(v) => /\ temps'[task[v].name] = temps[task[v].name]
                        /\ content'[task[v].inode] = content[task[v].inode]
      BY <1>3, <3>2
    <3>4. /\ Writing(v) => temps[task[v].name] = task[v].inode
          /\ task[v].at = "write" => content[task[v].inode] = Empty
          /\ task[v].at = "rename" => content[task[v].inode] = Whole(task[v].draft)
      BY <2>1 DEF FileInv, LoneSetsWriteAlone
    <3> QED
      BY <1>5, <2>3, <2>5, <3>1, <3>3, <3>4 DEF Writing
  <2> QED
    BY <2>4, <2>5
<1> QED
  BY <1>10, <1>11, <1>12 DEF FileInv

\* Writing changes one content and no name.
LEMMA WriteTempKeepsFiles ==
  ASSUME TypeOK, TypeOK', FileInv, NEW w \in Worker, WriteTemp(w)
  PROVE  FileInv'
<1>1. PICK after \in {Whole(task[w].draft), Torn} :
         /\ content[task[w].inode] = Empty => after = Whole(task[w].draft)
         /\ content' = [content EXCEPT ![task[w].inode] = after]
  BY WriteFacts
<1>2. PICK state \in Task :
         /\ Continue(w, state) /\ state.at = "rename" /\ state.name = task[w].name
         /\ state.inode = task[w].inode /\ state.alone = task[w].alone
         /\ state.draft = task[w].draft
  BY WriteFacts
<1>3. /\ task[w].at = "write" /\ Busy(w) /\ Writing(w) /\ task[w].inode \in Inode
      /\ temps' = temps /\ file' = file /\ writes' = writes
  BY WriteFacts DEF WriteTemp, Writing
<1>4. task'[w] = state /\ \A v \in Worker \ {w} : task'[v] = task[v]
  BY <1>2, <1>3, ContinueFacts
<1>5. Busy(w)' /\ Writing(w)'
  BY <1>2, <1>4, BusyAfter DEF Writing
<1>6. \A v \in Worker \ {w} : (Busy(v)' <=> Busy(v)) /\ (Writing(v)' <=> Writing(v))
  BY <1>4 DEF Writing, Busy
<1>7. \A v \in Worker : /\ Busy(v)' <=> Busy(v)
                        /\ Writing(v)' <=> Writing(v)
                        /\ task'[v].inode = task[v].inode /\ task'[v].name = task[v].name
                        /\ task'[v].draft = task[v].draft
                        /\ task'[v].at = "open" => task[v].at = "open"
  BY <1>2, <1>3, <1>4, <1>5, <1>6
<1>8. NamesAreUnique'
  BY <1>3, <1>7 DEF FileInv, NamesAreUnique
<1>9. InodesAreOwned'
  BY <1>3, <1>7 DEF FileInv, InodesAreOwned
<1>10. LoneSetsWriteAlone'
  <2> SUFFICES ASSUME NEW v \in Worker, Busy(v)', task'[v].alone
               PROVE  /\ \A u \in Worker \ {v} : Busy(u)' => ProcessOf[u] /= ProcessOf[v]
                      /\ Writing(v)' => temps'[task'[v].name] = task'[v].inode
                      /\ task'[v].at = "write" => content'[task'[v].inode] = Empty
                      /\ task'[v].at = "rename" => content'[task'[v].inode] = Whole(task'[v].draft)
    BY DEF LoneSetsWriteAlone
  <2>1. Busy(v) /\ task[v].alone
    BY <1>2, <1>4, <1>7
  <2>2. /\ \A u \in Worker \ {v} : Busy(u) => ProcessOf[u] /= ProcessOf[v]
        /\ Writing(v) => temps[task[v].name] = task[v].inode
        /\ task[v].at = "write" => content[task[v].inode] = Empty
        /\ task[v].at = "rename" => content[task[v].inode] = Whole(task[v].draft)
    BY <2>1 DEF FileInv, LoneSetsWriteAlone
  <2>3. CASE v = w
    <3>1. content'[task[w].inode] = Whole(task[w].draft)
      BY <1>1, <1>3, <2>2, <2>3 DEF TypeOK
    <3> QED
      BY <1>2, <1>3, <1>4, <1>7, <2>2, <2>3, <3>1
  <2>4. CASE v /= w
    <3>1. Writing(v) => task[v].inode /= task[w].inode
      BY <1>3, <2>1, <2>4, SameInodeSameProcess
    <3>2. Writing(v) => content'[task[v].inode] = content[task[v].inode]
      BY <1>1, <2>1, <3>1, BusyFacts DEF TypeOK
    <3> QED
      BY <1>3, <1>4, <1>7, <2>2, <2>4, <3>2 DEF Writing
  <2> QED
    BY <2>3, <2>4
<1> QED
  BY <1>8, <1>9, <1>10 DEF FileInv

\* A rename moves an inode from its temporary name to the name of the cache.
LEMMA RenameKeepsFiles ==
  ASSUME TypeOK, TypeOK', FileInv, NEW w \in Worker, Rename(w)
  PROVE  FileInv'
<1> DEFINE name == task[w].name
<1>1. /\ Busy(w) /\ Writing(w) /\ name \in TempName /\ content' = content /\ writes' = writes
      /\ Continue(w, Idle)
  BY RenameFacts DEF Rename
<1>2. /\ task'[w] = Idle /\ \A v \in Worker \ {w} : task'[v] = task[v]
  BY <1>1, FinishFacts
<1>3. /\ task'[w].at = "idle" /\ ~Busy(w)' /\ ~Writing(w)'
      /\ \A v \in Worker \ {w} : (Busy(v)' <=> Busy(v)) /\ (Writing(v)' <=> Writing(v))
  BY <1>2, IdleFacts DEF Busy, Writing
<1>4. /\ \A n \in TempName \ {name} : temps'[n] = temps[n]
      /\ temps'[name] = NoInode
      /\ file' = file \/ (temps[name] /= NoInode /\ file' = temps[name])
  BY RenameFacts DEF TypeOK
<1> HIDE DEF name
<1>5. NamesAreUnique'
  <2>1. \A m, n \in TempName : temps'[m] = temps'[n] /\ temps'[m] /= NoInode => m = n
    BY <1>4 DEF FileInv, NamesAreUnique
  <2>2. \A n \in TempName : temps'[n] /= NoInode => temps'[n] \in 1..writes /\ temps'[n] /= file'
    BY <1>1, <1>4 DEF FileInv, NamesAreUnique
  <2>3. file' /= NoInode => file' <= writes
    BY <1>1, <1>4 DEF FileInv, NamesAreUnique
  <2>4. \A v \in Worker : Busy(v)' => task'[v].inode \in 1..writes
    BY <1>2, <1>3 DEF FileInv, NamesAreUnique
  <2>5. ASSUME NEW v \in Worker, task'[v].at = "open"
        PROVE  /\ task'[v].inode /= file'
               /\ \A n \in TempName : temps'[n] /= task'[v].inode
               /\ \A u \in Worker \ {v} : Busy(u)' => task'[u].inode /= task'[v].inode
    <3>1. v /= w /\ task[v].at = "open" /\ task'[v] = task[v] /\ Busy(v)
      BY <1>2, <1>3, <2>5, BusyFacts
    <3>2. /\ task[v].inode /= file /\ task[v].inode \in 1..writes
          /\ \A n \in TempName : temps[n] /= task[v].inode
          /\ \A u \in Worker \ {v} : Busy(u) => task[u].inode /= task[v].inode
      BY <3>1 DEF FileInv, NamesAreUnique
    <3>3. task[v].inode /= NoInode
      BY <3>1, BusyFacts, InodeFacts
    <3> QED
      BY <1>1, <1>2, <1>3, <1>4, <3>1, <3>2, <3>3
  <2> QED
    BY <1>1, <2>1, <2>2, <2>3, <2>4, <2>5 DEF NamesAreUnique
<1>6. InodesAreOwned'
  <2>1. \A v \in Worker : Writing(v)' => task'[v].name \in TempName /\ task'[v].name[1] = ProcessOf[v]
    BY <1>2, <1>3 DEF FileInv, InodesAreOwned
  <2>2. \A u, v \in Worker : Writing(u)' /\ Writing(v)' /\ task'[u].inode = task'[v].inode
                               => ProcessOf[u] = ProcessOf[v]
    BY <1>2, <1>3 DEF FileInv, InodesAreOwned
  <2>3. ASSUME NEW v \in Worker, NEW n \in TempName, Writing(v)', temps'[n] = task'[v].inode
        PROVE  n[1] = ProcessOf[v]
    <3>1. v /= w /\ Writing(v) /\ task'[v] = task[v] /\ task[v].inode /= NoInode
      BY <1>2, <1>3, <2>3, WritingIsBusy, BusyFacts, InodeFacts
    <3>2. n /= name
      BY <1>4, <2>3, <3>1
    <3> QED
      BY <1>4, <2>3, <3>1, <3>2 DEF FileInv, InodesAreOwned
  <2> QED
    BY <2>1, <2>2, <2>3 DEF InodesAreOwned
<1>7. LoneSetsWriteAlone'
  <2> SUFFICES ASSUME NEW v \in Worker, Busy(v)', task'[v].alone
               PROVE  /\ \A u \in Worker \ {v} : Busy(u)' => ProcessOf[u] /= ProcessOf[v]
                      /\ Writing(v)' => temps'[task'[v].name] = task'[v].inode
                      /\ task'[v].at = "write" => content'[task'[v].inode] = Empty
                      /\ task'[v].at = "rename" => content'[task'[v].inode] = Whole(task'[v].draft)
    BY DEF LoneSetsWriteAlone
  <2>1. v /= w /\ Busy(v) /\ task'[v] = task[v] /\ task[v].alone
    BY <1>2, <1>3
  <2>2. /\ \A u \in Worker \ {v} : Busy(u) => ProcessOf[u] /= ProcessOf[v]
        /\ Writing(v) => temps[task[v].name] = task[v].inode
        /\ task[v].at = "write" => content[task[v].inode] = Empty
        /\ task[v].at = "rename" => content[task[v].inode] = Whole(task[v].draft)
    BY <2>1 DEF FileInv, LoneSetsWriteAlone
  <2>3. Writing(v) => task[v].name \in TempName \ {name}
    BY <1>1, <2>1, SameInodeSameProcess DEF FileInv, InodesAreOwned, name
  <2>4. Writing(v) => temps'[task[v].name] = task[v].inode
    BY <1>4, <2>2, <2>3
  <2> QED
    BY <1>1, <1>3, <2>1, <2>2, <2>4
<1> QED
  BY <1>5, <1>6, <1>7 DEF FileInv

\* A set that throws touches no file.
LEMMA SetThrowsKeepsFiles ==
  ASSUME TypeOK, TypeOK', FileInv, NEW w \in Worker, NEW sub \in Sub, NEW outcome \in Outcome,
         SetThrows(w, sub, outcome)
  PROVE  FileInv'
<1>1. /\ UNCHANGED <<file, temps, content, task>>
      /\ writes \in Nat /\ writes' = writes + 1
  BY InodeFacts DEF SetThrows, TypeOK
<1>2. 1..writes \subseteq 1..writes'
  BY <1>1
<1>3. file /= NoInode => file \in Nat
  BY InodeFacts DEF TypeOK, Inode
<1>4. NamesAreUnique'
  BY <1>1, <1>2, <1>3 DEF FileInv, NamesAreUnique, Busy
<1> QED
  BY <1>1, <1>4 DEF FileInv, InodesAreOwned, LoneSetsWriteAlone, Busy, Writing

\* Every step keeps names, inodes and what lone workers wrote in order.
LEMMA NextFileInv == TypeOK /\ TypeOK' /\ FileInv /\ [Next]_vars => FileInv'
<1> SUFFICES ASSUME TypeOK, TypeOK', FileInv, [Next]_vars PROVE FileInv'
  OBVIOUS
<1>1. CASE Tick \/ UNCHANGED vars \/ \E w \in Worker, sub \in Sub : Get(w, sub)
  <2>1. UNCHANGED <<file, temps, content, task, writes>>
    BY <1>1 DEF Tick, Get, vars
  <2> QED
    BY <2>1 DEF FileInv, NamesAreUnique, InodesAreOwned, LoneSetsWriteAlone, Busy, Writing
<1> QED
  BY <1>1, StartSetKeepsFiles, SetThrowsKeepsFiles, OpenTempKeepsFiles, WriteTempKeepsFiles, RenameKeepsFiles,
     FailKeepsFiles DEF Next

-----------------------------------------------------------------------------
(* Files with null entries. *)

\* Initially only the file found may have null entries.
LEMMA InitNullIsForeign == Init => NullIsForeign
<1> SUFFICES ASSUME Init PROVE NullIsForeign
  OBVIOUS
<1>1. \A inode \in Inode \ {0} : content[inode] = Empty
  BY DEF Init
<1>2. \A w \in Worker : ~Busy(w)
  BY DEF Init, Busy
<1> QED
  BY <1>1, <1>2, EmptyFacts DEF NullIsForeign

\* No step writes null entries.
LEMMA NothingNullIsWritten ==
  ASSUME TypeOK, [Next]_vars, NEW inode \in Inode
  PROVE  content'[inode] = content[inode] \/ content'[inode].null = FALSE
<1>1. ASSUME NEW w \in Worker, NEW ms \in Millisecond, OpenTemp(w, ms)
      PROVE  content'[inode] = content[inode] \/ content'[inode].null = FALSE
  <2>1. PICK other \in Inode : content' = [content EXCEPT ![other] = Empty]
    BY <1>1, OpenFacts
  <2>2. content'[inode] = content[inode] \/ content'[inode] = Empty
    BY <2>1 DEF TypeOK
  <2> QED
    BY <2>2, EmptyFacts
<1>2. ASSUME NEW w \in Worker, WriteTemp(w)
      PROVE  content'[inode] = content[inode] \/ content'[inode].null = FALSE
  <2>1. PICK after \in {Whole(task[w].draft), Torn} :
           content' = [content EXCEPT ![task[w].inode] = after]
    BY <1>2, WriteFacts
  <2>2. task[w].draft \in Kept
    BY BusyFacts DEF Task
  <2>3. after.null = FALSE
    BY <2>2, EmptyFacts DEF Torn
  <2>4. content'[inode] = content[inode] \/ content'[inode] = after
    BY <2>1 DEF TypeOK
  <2> QED
    BY <2>3, <2>4
<1>3. ASSUME content' = content
      PROVE  content'[inode] = content[inode]
  BY <1>3
<1> QED
  BY <1>1, <1>2, <1>3 DEF Next, Tick, Get, StartSet, SetThrows, Rename, Fail, vars

\* While a file makes sets throw, no step touches it, or any task.
LEMMA NothingMovesWhileThrowing ==
  ASSUME TypeOK, NullIsForeign, [Next]_vars, Throws
  PROVE  file' = file /\ content' = content /\ task' = task
<1>1. \A w \in Worker : task[w].at = "idle" /\ ~Busy(w)
  BY IdleFacts DEF NullIsForeign, Busy
<1> QED
  BY <1>1 DEF Next, Tick, Get, StartSet, SetThrows, OpenTemp, WriteTemp, Rename, Fail, vars

\* No set makes a file that makes sets throw, and none replaces one.
LEMMA ThrowingStays ==
  ASSUME TypeOK, TypeOK', FileInv, NullIsForeign, [Next]_vars
  PROVE  Throws' <=> Throws
<1>1. CASE Throws
  BY <1>1, NothingMovesWhileThrowing DEF Throws
<1>2. ASSUME ~Throws, file' = file
      PROVE  ~Throws'
  <2>1. CASE file = NoInode
    BY <1>2, <2>1 DEF Throws
  <2>2. CASE file /= NoInode
    <3>1. file \in Inode
      BY <2>2 DEF TypeOK
    <3>2. content'[file] = content[file] \/ content'[file].null = FALSE
      BY <3>1, NothingNullIsWritten
    <3> QED
      BY <1>2, <2>2, <3>2 DEF Throws
  <2> QED
    BY <2>1, <2>2
<1>3. ASSUME NEW w \in Worker, Rename(w), file' /= file
      PROVE  ~Throws'
  <2>1. /\ task[w].name \in TempName /\ content' = content
        /\ file' = temps[task[w].name] /\ temps[task[w].name] /= NoInode
    BY <1>3, RenameFacts
  <2>2. file' \in 1..writes /\ writes \in 0..MaxWrites
    BY <2>1 DEF FileInv, NamesAreUnique, TypeOK
  <2>3. file' \in Inode /\ file' /= 0
    BY <2>2, InodeFacts DEF Inode
  <2>4. ~content[file'].null
    BY <2>3 DEF NullIsForeign
  <2> QED
    BY <2>1, <2>4 DEF Throws
<1>4. file' = file \/ \E w \in Worker : Rename(w)
  BY DEF Next, Tick, Get, StartSet, SetThrows, OpenTemp, WriteTemp, Fail, vars
<1> QED
  BY <1>1, <1>2, <1>3, <1>4

\* Null entries stay foreign.
LEMMA NextNullIsForeign ==
  TypeOK /\ TypeOK' /\ FileInv /\ NullIsForeign /\ [Next]_vars => NullIsForeign'
<1> SUFFICES ASSUME TypeOK, TypeOK', FileInv, NullIsForeign, [Next]_vars
             PROVE  NullIsForeign'
  OBVIOUS
<1>1. ASSUME NEW inode \in Inode, content'[inode].null
      PROVE  inode = 0
  BY <1>1, NothingNullIsWritten DEF NullIsForeign
<1>2. ASSUME Throws'
      PROVE  \A w \in Worker : ~Busy(w)'
  <2>1. Throws
    BY <1>2, ThrowingStays
  <2> QED
    BY <2>1, NothingMovesWhileThrowing DEF NullIsForeign, Busy
<1> QED
  BY <1>1, <1>2 DEF NullIsForeign

-----------------------------------------------------------------------------
(* Sets that meet nobody. *)

\* An entry that is live at the next tick is live now.
LEMMA LiveBefore ==
  ASSUME TypeOK, NEW sub \in Sub, Live(latest[sub], now + 1)
  PROVE  Live(latest[sub], now)
<1>1. latest[sub] /= NoEntry /\ now + 1 < latest[sub].expiresAt
  BY DEF Live
<1>2. latest[sub] \in Entries
  BY <1>1 DEF TypeOK, Kept
<1>3. latest[sub].expiresAt \in Nat /\ now \in Nat
  BY <1>2, EntryFacts, ProbeCacheAssumption DEF TypeOK
<1> QED
  BY <1>1, <1>3 DEF Live

\* Initially there is nothing to lose.
LEMMA InitNothingIsLost == Init => NothingIsLost
<1> SUFFICES ASSUME Init PROVE NothingIsLost
  OBVIOUS
<1>1. \A w \in Worker : ~Busy(w)
  BY DEF Init, Busy
<1>2. \A sub \in Sub : ~Live(latest[sub], now)
  BY DEF Init, Live, NoEntries
<1> QED
  BY <1>1, <1>2 DEF NothingIsLost, SequentialSetsAccumulate

\* The set in progress goes on.
LEMMA SetGoesOn ==
  ASSUME TypeOK, NothingIsLost, ~disturbed, NEW w \in Worker, Busy(w), Busy(w)',
         \A v \in Worker \ {w} : task'[v] = task[v],
         task'[w].alone = task[w].alone, task'[w].draft = task[w].draft,
         latest' = latest, now' = now
  PROVE  NothingIsLost'
<1>1. \A v \in Worker : Busy(v)' => v = w
  BY DEF NothingIsLost, Busy
<1>2. /\ task'[w].alone
      /\ \A sub \in Sub : Live(latest[sub], now) => task'[w].draft[sub] = latest[sub]
  BY DEF NothingIsLost
<1> QED
  BY <1>1, <1>2 DEF NothingIsLost, SequentialSetsAccumulate

\* Until workers overlap or one fails, every step keeps the live entries set so far.
LEMMA NextNothingIsLost ==
  TypeOK /\ TypeOK' /\ FileInv /\ NullIsForeign /\ NothingIsLost /\ [Next]_vars
    => NothingIsLost'
<1> SUFFICES ASSUME TypeOK, TypeOK', FileInv, NullIsForeign, NothingIsLost, [Next]_vars,
                    ~disturbed'
             PROVE  NothingIsLost'
  BY DEF NothingIsLost
<1>1. CASE UNCHANGED vars \/ \E w \in Worker, sub \in Sub : Get(w, sub)
  <2>1. UNCHANGED <<now, file, content, task, latest, disturbed>>
    BY <1>1 DEF Get, vars
  <2> QED
    BY <2>1 DEF NothingIsLost, SequentialSetsAccumulate, Busy, ReadFile, Throws
<1>2. CASE Tick
  <2>1. now' = now + 1 /\ UNCHANGED <<file, content, task, latest, disturbed>>
    BY <1>2 DEF Tick
  <2>2. \A sub \in Sub : Live(latest[sub], now)' => Live(latest[sub], now)
    <3> SUFFICES ASSUME NEW sub \in Sub, Live(latest[sub], now)' PROVE Live(latest[sub], now)
      OBVIOUS
    <3>1. Live(latest[sub], now + 1)
      BY <2>1 DEF Live
    <3> QED
      BY <3>1, LiveBefore
  <2> QED
    BY <2>1, <2>2 DEF NothingIsLost, SequentialSetsAccumulate, Busy, ReadFile, Throws
<1>3. ASSUME NEW w \in Worker, NEW sub \in Sub, NEW outcome \in Outcome,
             StartSet(w, sub, outcome)
      PROVE  NothingIsLost'
  <2> DEFINE entry == Entry(outcome, now)
             merged == [ReadFile EXCEPT ![sub] = entry]
  <2>1. now' = now /\ latest' = [latest EXCEPT ![sub] = entry] /\ ~Busy(w) /\ ~Throws
    BY <1>3 DEF StartSet
  <2>2. /\ ~disturbed /\ task'[w].alone
        /\ \A v \in Worker \ {w} : ~Busy(v) /\ task'[v] = Idle
    BY <1>3, BeginFacts
  <2>3. task'[w].draft = PruneExpired(merged, now)
    BY <1>3, BeginFacts
  <2>4. \A v \in Worker : Busy(v)' => v = w
    BY <2>2 DEF Busy
  <2>5. Busy(w)'
    BY <1>3, BeginFacts, BusyAfter
  <2>6. \A s \in Sub : Live(latest[s], now) => ReadFile[s] = latest[s]
    BY <2>1, <2>2 DEF NothingIsLost, SequentialSetsAccumulate
  <2>7. merged \in Kept /\ ReadFile \in Kept
    BY EntryFacts, ReadFacts DEF TypeOK, Kept
  <2>8. \A s \in Sub : merged[s] = IF s = sub THEN entry ELSE ReadFile[s]
    BY <2>7 DEF Kept
  <2>9. \A s \in Sub : latest'[s] = IF s = sub THEN entry ELSE latest[s]
    BY <2>1 DEF TypeOK, Kept
  <2> HIDE DEF entry, merged
  <2>10. \A s \in Sub : Live(latest'[s], now) => merged[s] = latest'[s]
    BY <2>6, <2>8, <2>9
  <2>11. \A s \in Sub : Live(latest'[s], now) => task'[w].draft[s] = latest'[s]
    BY <2>3, <2>7, <2>10, PruneFacts
  <2>12. \A s \in Sub : Live(latest[s], now)' <=> Live(latest'[s], now)
    BY <2>1 DEF Live
  <2> QED
    BY <2>2, <2>4, <2>5, <2>11, <2>12 DEF NothingIsLost, SequentialSetsAccumulate
<1>4. ASSUME NEW w \in Worker, \/ \E ms \in Millisecond : OpenTemp(w, ms)
                               \/ WriteTemp(w)
      PROVE  NothingIsLost'
  <2>1. \E state \in Task :
           /\ Busy(w) /\ Continue(w, state) /\ state.at \in {"write", "rename"}
           /\ state.alone = task[w].alone /\ state.draft = task[w].draft
    BY <1>4, OpenFacts, WriteFacts
  <2>2. PICK state \in Task :
           /\ Busy(w) /\ Continue(w, state) /\ state.at \in {"write", "rename"}
           /\ state.alone = task[w].alone /\ state.draft = task[w].draft
    BY <2>1
  <2>3. task'[w] = state /\ \A v \in Worker \ {w} : task'[v] = task[v]
    BY <2>2 DEF Continue, TypeOK
  <2>4. latest' = latest /\ now' = now /\ disturbed' = disturbed
    BY <1>4 DEF OpenTemp, WriteTemp
  <2>5. Busy(w)'
    BY <2>2, <2>3, BusyAfter
  <2> QED
    BY <2>2, <2>3, <2>4, <2>5, SetGoesOn
<1>5. ASSUME NEW w \in Worker, Rename(w)
      PROVE  NothingIsLost'
  <2>1. latest' = latest /\ now' = now /\ disturbed' = disturbed
    BY <1>5 DEF Rename
  <2>2. /\ Busy(w) /\ Writing(w) /\ task[w].at = "rename" /\ content' = content /\ Continue(w, Idle)
    BY <1>5, RenameFacts
  <2>3. /\ task[w].alone
        /\ \A sub \in Sub : Live(latest[sub], now) => task[w].draft[sub] = latest[sub]
        /\ \A v \in Worker : Busy(v) => v = w
    BY <2>1, <2>2 DEF NothingIsLost
  <2>4. /\ temps[task[w].name] = task[w].inode
        /\ content[task[w].inode] = Whole(task[w].draft)
    BY <2>2, <2>3 DEF FileInv, LoneSetsWriteAlone
  <2>5. task[w].inode \in Inode /\ task[w].inode /= NoInode /\ task[w].draft \in Kept
    BY <2>2, BusyFacts, InodeFacts DEF Task
  <2>6. file' = task[w].inode
    BY <1>5, <2>4, <2>5, RenameFacts
  <2>7. ReadFile' = task[w].draft
    BY <2>2, <2>4, <2>5, <2>6, EmptyFacts DEF ReadFile
  <2>8. \A v \in Worker : ~Busy(v)'
    BY <2>2, <2>3, FinishFacts DEF Busy
  <2>9. \A sub \in Sub : Live(latest[sub], now)' => ReadFile'[sub] = latest'[sub]
    BY <2>1, <2>3, <2>7 DEF Live
  <2> QED
    BY <2>8, <2>9 DEF NothingIsLost, SequentialSetsAccumulate
<1>6. ASSUME NEW w \in Worker, Fail(w)
      PROVE  NothingIsLost'
  BY <1>6 DEF Fail
<1>7. ASSUME NEW w \in Worker, NEW sub \in Sub, NEW outcome \in Outcome,
             SetThrows(w, sub, outcome)
      PROVE  NothingIsLost'
  <2>1. Throws /\ Throws' /\ \A v \in Worker : ~Busy(v)'
    BY <1>7, ThrowingStays, NextNullIsForeign DEF SetThrows, NullIsForeign
  <2> QED
    BY <2>1 DEF NothingIsLost, SequentialSetsAccumulate
<1> QED
  BY <1>1, <1>2, <1>3, <1>4, <1>5, <1>6, <1>7 DEF Next

-----------------------------------------------------------------------------
(* The theorems. *)

\* Types, and who may write to which file.
THEOREM CacheInvariant == Spec => []IInv
<1>1. Init => IInv
  BY InitTypeOK, InitEntriesWereSet, InitHitsAreFresh, InitFileInv, InitNullIsForeign,
     InitNothingIsLost DEF IInv
<1>2. IInv /\ [Next]_vars => IInv'
  BY NextTypeOK, NextEntriesWereSet, NextHitsAreFresh, NextFileInv, NextNullIsForeign,
     NextNothingIsLost DEF IInv
<1> QED
  BY <1>1, <1>2, PTL DEF Spec

\* However workers and processes interleave, fail or share temporary files, a hit is
\* an entry that some set recorded for this very subscription, and it is no older than
\* its outcome is kept.
THEOREM HitsAreAlwaysFresh == Spec => []HitsAreFresh
<1>1. IInv => HitsAreFresh
  BY DEF IInv
<1> QED
  BY <1>1, CacheInvariant, PTL

\* As long as no two sets overlap and no file operation fails, the file has the last
\* entry of every subscription whenever no set is in progress, unless it has expired.
THEOREM SequentialSetsAlwaysAccumulate == Spec => []SequentialSetsAccumulate
<1>1. IInv => SequentialSetsAccumulate
  BY DEF IInv, NothingIsLost, SequentialSetsAccumulate
<1> QED
  BY <1>1, CacheInvariant, PTL

\* The rename of a worker that was alone leaves a file that parses, with its entry.
LEMMA LoneRenameHeals ==
  ASSUME IInv, NEW w \in Worker, task[w].at = "rename", task[w].alone, Rename(w)
  PROVE  /\ file' /= NoInode /\ file' \in Inode
         /\ content[file'].parses = TRUE
         /\ content[file'].entries[task[w].sub] = task[w].draft[task[w].sub]
<1>1. TypeOK /\ FileInv
  BY DEF IInv
<1>2. Busy(w) /\ Writing(w)
  BY <1>1, RenameFacts
<1>3. task[w].inode \in Inode /\ task[w].inode /= NoInode /\ task[w].draft \in Kept
  BY <1>1, <1>2, BusyFacts, InodeFacts DEF Task
<1>4. /\ temps[task[w].name] = task[w].inode
      /\ content[task[w].inode] = Whole(task[w].draft)
  BY <1>1, <1>2 DEF FileInv, LoneSetsWriteAlone
<1>5. file' = task[w].inode
  BY <1>1, <1>3, <1>4, RenameFacts
<1> QED
  BY <1>3, <1>4, <1>5, EmptyFacts

\* As long as every worker is alone, a file that parses is replaced only by one that does.
LEMMA SoundFileStaysSound ==
  ASSUME IInv, [Next]_vars, file /= NoInode, content[file].parses,
         \A w \in Worker : task[w].alone
  PROVE  content'[file'].parses
<1>1. TypeOK /\ FileInv /\ file \in Inode
  BY DEF IInv, TypeOK
<1>2. ASSUME file' = file, content' = content
      PROVE  content'[file'].parses
  BY <1>2
<1>3. ASSUME NEW w \in Worker, NEW ms \in Millisecond, OpenTemp(w, ms)
      PROVE  content'[file'].parses
  <2>1. PICK name \in TempName, inode \in Inode, state \in Task :
           /\ task[w].at = "open"
           /\ inode = IF temps[name] = NoInode THEN task[w].inode ELSE temps[name]
           /\ content' = [content EXCEPT ![inode] = Empty]
    BY <1>1, <1>3, OpenFacts
  <2>2. inode /= file
    BY <1>1, <2>1 DEF FileInv, NamesAreUnique
  <2>3. file' = file
    BY <1>3 DEF OpenTemp
  <2> QED
    BY <1>1, <2>1, <2>2, <2>3 DEF TypeOK
<1>4. ASSUME NEW w \in Worker, WriteTemp(w)
      PROVE  content'[file'].parses
  <2>1. /\ Busy(w) /\ Writing(w) /\ task[w].at = "write" /\ file' = file
        /\ task[w].inode \in Inode
    BY <1>1, <1>4, WriteFacts DEF WriteTemp, Writing
  <2>2. temps[task[w].name] = task[w].inode /\ task[w].name \in TempName
    BY <1>1, <2>1 DEF FileInv, LoneSetsWriteAlone, InodesAreOwned
  <2>3. task[w].inode /= file
    BY <1>1, <2>1, <2>2, InodeFacts DEF FileInv, NamesAreUnique
  <2>4. \E after : content' = [content EXCEPT ![task[w].inode] = after]
    BY <1>1, <1>4, WriteFacts
  <2> QED
    BY <1>1, <2>1, <2>3, <2>4 DEF TypeOK
<1>5. ASSUME NEW w \in Worker, Rename(w)
      PROVE  content'[file'].parses
  BY <1>1, <1>5, LoneRenameHeals, RenameFacts
<1> QED
  BY <1>2, <1>3, <1>4, <1>5 DEF Next, Tick, Get, StartSet, SetThrows, Fail, vars

\* A set that meets no other of its process, once past reading the file, leaves one
\* that parses and holds its entry, whether it found no file, a torn or foreign one
\* that reads as no entries, or one of this cache. A file that parses keeps parsing,
\* whatever the other processes do, unless two workers of one process write at once.
\* The exception is a file with null entries, which reading lets through: sets throw
\* at it and never replace it, and no set ever makes one.
THEOREM FileAlwaysHeals == Spec => FileHeals
<1>1. IInv /\ [Next]_vars =>
        \A w \in Worker :
          task[w].at = "rename" /\ task[w].alone /\ Rename(w) =>
            /\ file' /= NoInode
            /\ content[file'].parses
            /\ content[file'].entries[task[w].sub] = task[w].draft[task[w].sub]
  BY LoneRenameHeals
<1>2. IInv /\ [Next]_vars =>
        (file /= NoInode /\ content[file].parses /\ (\A w \in Worker : task[w].alone) =>
           content'[file'].parses)
  BY SoundFileStaysSound
<1>3. IInv /\ IInv' /\ [Next]_vars => (Throws' <=> Throws)
  BY ThrowingStays DEF IInv
<1>4. IInv /\ IInv' /\ [Next]_vars => [Throws' <=> Throws]_vars
  BY <1>3
<1> QED
  BY <1>1, <1>2, <1>4, CacheInvariant, PTL DEF Spec, FileHeals
=============================================================================
