----------------------- MODULE BillingCacheStore_proofs -----------------------
(***************************************************************************)
(* Proofs about BillingCacheStore, for any number of processes, months,    *)
(* parameter digests and records.                                          *)
(***************************************************************************)
EXTENDS BillingCacheStore, TLAPS

-----------------------------------------------------------------------------
(* Keys, contents and operations. *)

\* Every key has a cell file of its own.
LEMMA KeyFacts ==
  /\ NoKey \in Key
  /\ \A key \in Key : FileOf(key) \in File
  /\ \A k1, k2 \in Key : FileOf(k1) = FileOf(k2) => k1 = k2
<1>1. Key /= {}
  <2>1. PICK month \in Month, digest \in Digest : TRUE
    BY CacheAssumption
  <2>2. [month |-> month, digest |-> digest] \in Key
    BY <2>1 DEF Key
  <2> QED
    BY <2>2
<1>2. NoKey \in Key
  BY <1>1 DEF NoKey
<1>3. \A key \in Key : FileOf(key) \in File
  BY DEF File
<1>4. \A k1, k2 \in Key : FileOf(k1) = FileOf(k2) => k1 = k2
  BY DEF FileOf, Key
<1> QED
  BY <1>2, <1>3, <1>4

\* What a file can hold: nothing, or a record with its key and serial.
LEMMA ContentFacts ==
  /\ Absent \in Content
  /\ Absent.kind = "absent"
  /\ NoManifest \in [File -> Content]
  /\ \A key \in Key, n \in 1..MaxWrites :
       /\ Record(key, n) \in Content
       /\ Record(key, n).kind = "record"
       /\ Record(key, n).key = key
       /\ Record(key, n).serial = n
  /\ \A content \in Content : content.kind \in Junk \union {"absent", "record"}
<1>1. Absent \in Content /\ Absent.kind = "absent"
  BY DEF Absent, Other, Content
<1>2. NoManifest \in [File -> Content]
  BY <1>1 DEF NoManifest
<1>3. \A key \in Key, n \in 1..MaxWrites :
       /\ Record(key, n) \in Content
       /\ Record(key, n).kind = "record"
       /\ Record(key, n).key = key
       /\ Record(key, n).serial = n
  BY DEF Record, Records, Content
<1>4. \A content \in Content : content.kind \in Junk \union {"absent", "record"}
  BY DEF Record, Records, Content, Other
<1> QED
  BY <1>1, <1>2, <1>3, <1>4

\* A worker between operations holds nothing.
LEMMA IdleFacts ==
  /\ Idle \in Operation
  /\ Idle.kind = "idle" /\ Idle.at = "idle" /\ Idle.content = Absent
  BY KeyFacts, ContentFacts DEF Idle, Operation

\* What get answers before the manifest is a status, and only a record reads on.
LEMMA StatusFacts ==
  ASSUME NEW content \in Content
  PROVE  /\ StatusBeforeManifest(content) \in
              {"miss", "corrupt", "schema_mismatch", "identity_mismatch", "readable"}
         /\ StatusBeforeManifest(content) = "readable" => content.kind = "record"
<1>1. content.kind \in {"not_json", "old_schema", "invalid", "foreign", "absent", "record"}
  BY ContentFacts, CacheAssumption
<1> QED
  BY <1>1 DEF StatusBeforeManifest

-----------------------------------------------------------------------------
(* The inductive invariant. *)

\* The empty store satisfies the invariant.
THEOREM InitIInv == Init => IInv
<1> SUFFICES ASSUME Init PROVE IInv
  OBVIOUS
<1> USE DEF Init
<1>1. cells \in [File -> Content]
  BY DEF Content
<1>2. \A file \in File : cells[file].kind /= "record"
  BY CacheAssumption DEF Other
<1>3. TypeOK
  <2>1. op \in [Proc -> Operation]
    BY IdleFacts
  <2>2. answer \in Reply
    BY KeyFacts, ContentFacts DEF Reply
  <2>3. manifest \in [File -> Content] /\ temps \subseteq Proc
    BY ContentFacts
  <2>4. serial \in 0..MaxWrites
    BY CacheAssumption
  <2>5. overlapped \in BOOLEAN /\ failed \in BOOLEAN
    OBVIOUS
  <2> QED
    BY <1>1, <2>1, <2>2, <2>3, <2>4, <2>5 DEF TypeOK
<1>4. CellsHoldTheirOwn
  BY <1>2 DEF CellsHoldTheirOwn
<1>5. OperationsCarryTheirOwn /\ PrunesOnlyTheOld
  BY IdleFacts DEF OperationsCarryTheirOwn, PrunesOnlyTheOld
<1>6. NeverAWrongAnswer
  BY DEF NeverAWrongAnswer
<1> QED
  BY <1>3, <1>4, <1>5, <1>6 DEF IInv

\* A cell that was read as a record was written for the key it was read under.
LEMMA ReadsAreOwn ==
  ASSUME IInv, NEW key \in Key, cells[FileOf(key)].kind = "record"
  PROVE  WrittenFor(cells[FileOf(key)], key, serial)
<1>1. PICK k \in Key : FileOf(k) = FileOf(key) /\ WrittenFor(cells[FileOf(key)], k, serial)
  BY KeyFacts DEF IInv, CellsHoldTheirOwn
<1>2. k = key
  BY <1>1, KeyFacts
<1> QED
  BY <1>1, <1>2

\* A step of one process that keeps every record, and takes the operation of
\* the process to a state that carries a record of its own key, keeps the parts
\* of the invariant that are about operations.
LEMMA OperationStep ==
  ASSUME IInv, NEW p \in Proc, NEW state,
         Continue(p, state),
         serial' \in Nat, serial <= serial',
         state.kind \in {"get", "set"} => WrittenFor(state.content, state.key, serial'),
         state.at = "unlink" => \A file \in state.todo : MonthOf(file) < Cutoff
  PROVE  OperationsCarryTheirOwn' /\ PrunesOnlyTheOld'
<1>1. op' = [op EXCEPT ![p] = state] /\ op \in [Proc -> Operation]
  BY DEF Continue, IInv, TypeOK
<1>2. ASSUME NEW q \in Proc, q /= p
      PROVE  op'[q] = op[q]
  BY <1>1, <1>2
<1>3. op'[p] = state
  BY <1>1
<1>4. OperationsCarryTheirOwn'
  <2> SUFFICES ASSUME NEW q \in Proc, op'[q].kind \in {"get", "set"}
               PROVE  WrittenFor(op'[q].content, op'[q].key, serial')
    BY DEF OperationsCarryTheirOwn
  <2>1. CASE q = p
    BY <2>1, <1>3
  <2>2. CASE q /= p
    <3>1. WrittenFor(op[q].content, op[q].key, serial)
      BY <1>2, <2>2 DEF IInv, OperationsCarryTheirOwn
    <3>2. serial \in Nat
      BY CacheAssumption DEF IInv, TypeOK
    <3> QED
      BY <1>2, <2>2, <3>1, <3>2 DEF WrittenFor
  <2> QED
    BY <2>1, <2>2
<1>5. PrunesOnlyTheOld'
  BY <1>2, <1>3 DEF PrunesOnlyTheOld, IInv
<1> QED
  BY <1>4, <1>5

\* What a step leaves alone keeps its part of the invariant.
LEMMA WhatStays ==
  ASSUME IInv, serial' \in Nat, serial <= serial'
  PROVE  /\ cells' = cells => CellsHoldTheirOwn'
         /\ answer' = answer => NeverAWrongAnswer'
         /\ op' = op => OperationsCarryTheirOwn' /\ PrunesOnlyTheOld'
<1>1. serial \in Nat
  BY CacheAssumption DEF IInv, TypeOK
<1>2. \A content, key : WrittenFor(content, key, serial) => WrittenFor(content, key, serial')
  BY <1>1 DEF WrittenFor
<1>3. cells' = cells => CellsHoldTheirOwn'
  BY <1>2 DEF IInv, CellsHoldTheirOwn
<1>4. answer' = answer => NeverAWrongAnswer'
  BY <1>1 DEF IInv, NeverAWrongAnswer
<1>5. op' = op => OperationsCarryTheirOwn' /\ PrunesOnlyTheOld'
  BY <1>2 DEF IInv, OperationsCarryTheirOwn, PrunesOnlyTheOld
<1> QED
  BY <1>3, <1>4, <1>5

-----------------------------------------------------------------------------
(* One lemma per action. *)

\* get takes what its cell holds, which is of its own key or no record.
LEMMA StartGetStep ==
  ASSUME IInv, NEW p \in Proc, NEW key \in Key, StartGet(p, key)
  PROVE  IInv'
<1> DEFINE content == cells[FileOf(key)]
           status == StatusBeforeManifest(content)
           reading == [Idle EXCEPT !.kind = "get", !.at = "checksum",
                                   !.key = key, !.content = content]
<1>1. content \in Content
  BY KeyFacts DEF IInv, TypeOK
<1>2. /\ cells' = cells /\ manifest' = manifest /\ temps' = temps /\ serial' = serial
      /\ failed' = failed /\ overlapped' = (overlapped \/ AnyoneElse(p))
  BY DEF StartGet, Begin
<1>3. serial' \in Nat /\ serial <= serial'
  BY <1>2, CacheAssumption DEF IInv, TypeOK
<1>4. CellsHoldTheirOwn'
  BY <1>2, <1>3, WhatStays
<1>5. overlapped' \in BOOLEAN
  BY <1>2 DEF IInv, TypeOK
<1>6. CASE status = "readable"
  <2>1. Continue(p, reading) /\ answer' = answer
    BY <1>6 DEF StartGet
  <2>2. WrittenFor(content, key, serial)
    BY <1>1, <1>6, StatusFacts, ReadsAreOwn
  <2>3. reading \in Operation /\ reading.at = "checksum"
        /\ reading.key = key /\ reading.content = content
    BY <1>1, IdleFacts DEF Operation
  <2>4. OperationsCarryTheirOwn' /\ PrunesOnlyTheOld'
    <3> HIDE DEF content, reading
    <3> QED
      BY <1>2, <1>3, <2>1, <2>2, <2>3, OperationStep
  <2>5. op' \in [Proc -> Operation]
    BY <2>1, <2>3 DEF Continue, IInv, TypeOK
  <2>6. NeverAWrongAnswer'
    BY <1>3, <2>1, WhatStays
  <2>7. TypeOK'
    BY <1>2, <1>5, <2>1, <2>5 DEF IInv, TypeOK
  <2> QED
    BY <1>4, <2>4, <2>6, <2>7 DEF IInv
<1>7. CASE status /= "readable"
  <2>1. op' = op /\ answer' = [status |-> status, key |-> key, content |-> Absent]
    BY <1>7 DEF StartGet, Answer
  <2>2. status \in {"miss", "corrupt", "schema_mismatch", "identity_mismatch"}
    BY <1>1, <1>7, StatusFacts
  <2>3. answer' \in Reply
    BY <2>1, <2>2, ContentFacts DEF Reply
  <2>4. NeverAWrongAnswer'
    BY <2>1, <2>2 DEF NeverAWrongAnswer
  <2>5. OperationsCarryTheirOwn' /\ PrunesOnlyTheOld'
    BY <1>3, <2>1, WhatStays
  <2>6. TypeOK'
    BY <1>2, <1>5, <2>1, <2>3 DEF IInv, TypeOK
  <2> QED
    BY <1>4, <2>4, <2>5, <2>6 DEF IInv
<1> QED
  BY <1>6, <1>7

\* get answers with what it took, or with nothing.
LEMMA FinishGetStep ==
  ASSUME IInv, NEW p \in Proc, FinishGet(p)
  PROVE  IInv'
<1>1. PICK index \in {manifest, NoManifest} :
        LET key == op[p].key
            content == op[p].content
            status == StatusAgainst(index[FileOf(key)], content)
        IN
        /\ op[p].kind = "get"
        /\ ReadManifest(index)
        /\ Answer(status, key, IF status = "hit" THEN content ELSE Absent)
        /\ Finish(p)
        /\ UNCHANGED <<cells, manifest, temps, serial, overlapped>>
  BY DEF FinishGet
<1> DEFINE status == StatusAgainst(index[FileOf(op[p].key)], op[p].content)
<1>2. op[p] \in Operation
  BY DEF IInv, TypeOK
<1>3. op[p].key \in Key /\ op[p].content \in Content
  BY <1>2 DEF Operation
<1>4. WrittenFor(op[p].content, op[p].key, serial)
  BY <1>1 DEF IInv, OperationsCarryTheirOwn
<1>5. status \in {"hit", "integrity_mismatch"}
  BY DEF StatusAgainst
<1>6. answer' = [status |-> status, key |-> op[p].key,
                 content |-> IF status = "hit" THEN op[p].content ELSE Absent]
  BY <1>1 DEF Answer
<1> HIDE DEF status
<1>7. answer' \in Reply
  BY <1>3, <1>5, <1>6, ContentFacts DEF Reply
<1>8. serial' = serial /\ serial' \in Nat /\ serial <= serial'
  BY <1>1, CacheAssumption DEF IInv, TypeOK
<1>9. NeverAWrongAnswer'
  BY <1>4, <1>6, <1>8 DEF NeverAWrongAnswer, WrittenFor
<1>10. CellsHoldTheirOwn'
  BY <1>1, <1>8, WhatStays
<1>11. Continue(p, Idle)
  BY <1>1 DEF Finish
<1>12. OperationsCarryTheirOwn' /\ PrunesOnlyTheOld'
  BY <1>8, <1>11, IdleFacts, OperationStep
<1>13. failed' \in BOOLEAN
  BY <1>1 DEF ReadManifest, IInv, TypeOK
<1>14. op' \in [Proc -> Operation]
  BY <1>11, IdleFacts DEF Continue, IInv, TypeOK
<1>15. TypeOK'
  BY <1>1, <1>7, <1>13, <1>14 DEF IInv, TypeOK
<1> QED
  BY <1>9, <1>10, <1>12, <1>15 DEF IInv

\* set makes a record of its own key, with a serial nobody had.
LEMMA StartSetStep ==
  ASSUME IInv, NEW p \in Proc, NEW key \in Key, StartSet(p, key)
  PROVE  IInv'
<1> DEFINE writing == [Idle EXCEPT !.kind = "set", !.at = "cell", !.key = key,
                                   !.content = Record(key, serial + 1)]
<1>1. /\ cells' = cells /\ manifest' = manifest /\ answer' = answer /\ failed' = failed
      /\ serial' = serial + 1 /\ serial < MaxWrites /\ Continue(p, writing)
      /\ temps' = temps \union {p} /\ overlapped' = (overlapped \/ AnyoneElse(p))
  BY DEF StartSet, Begin
<1>2. serial \in Nat /\ serial' \in 1..MaxWrites /\ serial' \in Nat /\ serial <= serial'
  BY <1>1, CacheAssumption DEF IInv, TypeOK
<1>3. /\ Record(key, serial') \in Content
      /\ WrittenFor(Record(key, serial'), key, serial')
  BY <1>2, ContentFacts DEF WrittenFor
<1>4. /\ writing \in Operation /\ writing.at = "cell" /\ writing.key = key
      /\ writing.content = Record(key, serial')
  BY <1>1, <1>3, IdleFacts DEF Operation
<1> HIDE DEF writing
<1>5. OperationsCarryTheirOwn' /\ PrunesOnlyTheOld'
  BY <1>1, <1>2, <1>3, <1>4, OperationStep
<1>6. CellsHoldTheirOwn' /\ NeverAWrongAnswer'
  BY <1>1, <1>2, WhatStays
<1>7. overlapped' \in BOOLEAN
  BY <1>1 DEF IInv, TypeOK
<1>8. op' \in [Proc -> Operation]
  BY <1>1, <1>4 DEF Continue, IInv, TypeOK
<1>9. TypeOK'
  BY <1>1, <1>2, <1>7, <1>8, CacheAssumption DEF IInv, TypeOK
<1> QED
  BY <1>5, <1>6, <1>9 DEF IInv

\* The rename of set puts its record into the file of its key.
LEMMA CommitCellStep ==
  ASSUME IInv, NEW p \in Proc, CommitCell(p)
  PROVE  IInv'
<1> DEFINE state == [op[p] EXCEPT !.at = "index"]
<1>1. /\ manifest' = manifest /\ answer' = answer /\ serial' = serial
      /\ overlapped' = overlapped /\ failed' = failed /\ temps' = temps \ {p}
      /\ cells' = [cells EXCEPT ![FileOf(op[p].key)] = op[p].content]
      /\ Continue(p, state) /\ op[p].kind = "set"
  BY DEF CommitCell, history
<1>2. op[p] \in Operation
  BY DEF IInv, TypeOK
<1>3. /\ state \in Operation /\ state.at = "index"
      /\ state.key = op[p].key /\ state.content = op[p].content
  BY <1>2 DEF Operation
<1>4. op[p].key \in Key /\ op[p].content \in Content /\ FileOf(op[p].key) \in File
  BY <1>2, KeyFacts DEF Operation
<1>5. WrittenFor(op[p].content, op[p].key, serial)
  BY <1>1 DEF IInv, OperationsCarryTheirOwn
<1> HIDE DEF state
<1>6. serial' \in Nat /\ serial <= serial'
  BY <1>1, CacheAssumption DEF IInv, TypeOK
<1>7. OperationsCarryTheirOwn' /\ PrunesOnlyTheOld'
  BY <1>1, <1>3, <1>5, <1>6, OperationStep
<1>8. CellsHoldTheirOwn'
  BY <1>1, <1>4, <1>5 DEF CellsHoldTheirOwn, IInv, TypeOK
<1>9. NeverAWrongAnswer'
  BY <1>1, <1>6, WhatStays
<1>10. cells' \in [File -> Content]
  BY <1>1, <1>4 DEF IInv, TypeOK
<1>11. op' \in [Proc -> Operation]
  BY <1>1, <1>3 DEF Continue, IInv, TypeOK
<1>12. TypeOK'
  BY <1>1, <1>10, <1>11 DEF IInv, TypeOK
<1> QED
  BY <1>7, <1>8, <1>9, <1>12 DEF IInv

\* A step that moves an operation on without touching cells, answer or serial.
LEMMA QuietStep ==
  ASSUME IInv, NEW p \in Proc, NEW state \in Operation, Continue(p, state),
         state.kind \in {"get", "set"} => WrittenFor(state.content, state.key, serial),
         state.at = "unlink" => \A file \in state.todo : MonthOf(file) < Cutoff,
         cells' = cells, answer' = answer, serial' = serial,
         manifest' \in [File -> Content], temps' \subseteq Proc,
         overlapped' \in BOOLEAN, failed' \in BOOLEAN
  PROVE  IInv'
<1>1. serial' \in Nat /\ serial <= serial'
  BY CacheAssumption DEF IInv, TypeOK
<1>2. OperationsCarryTheirOwn' /\ PrunesOnlyTheOld'
  BY <1>1, OperationStep
<1>3. CellsHoldTheirOwn' /\ NeverAWrongAnswer'
  BY <1>1, WhatStays
<1>4. op' \in [Proc -> Operation]
  BY DEF Continue, IInv, TypeOK
<1>5. TypeOK'
  BY <1>4 DEF IInv, TypeOK
<1> QED
  BY <1>2, <1>3, <1>5 DEF IInv

\* Drafting a manifest leaves cells and records alone.
LEMMA DraftManifestStep ==
  ASSUME IInv, NEW p \in Proc, DraftManifest(p)
  PROVE  IInv'
<1>1. PICK index \in {manifest, NoManifest} :
        /\ ReadManifest(index)
        /\ Continue(p, [op[p] EXCEPT
             !.at = "manifest",
             !.draft = [index EXCEPT ![FileOf(op[p].key)] = op[p].content]])
  BY DEF DraftManifest
<1> DEFINE entries == [index EXCEPT ![FileOf(op[p].key)] = op[p].content]
           state == [op[p] EXCEPT !.at = "manifest", !.draft = entries]
<1>2. op[p] \in Operation
  BY DEF IInv, TypeOK
<1>3. index \in [File -> Content]
  BY ContentFacts DEF IInv, TypeOK
<1>4. entries \in [File -> Content]
  BY <1>2, <1>3 DEF Operation
<1> HIDE DEF entries
<1>5. /\ state \in Operation /\ state.at = "manifest" /\ state.kind = op[p].kind
      /\ state.key = op[p].key /\ state.content = op[p].content
  BY <1>2, <1>4 DEF Operation
<1>6. Continue(p, state)
  BY <1>1 DEF entries
<1> HIDE DEF state
<1>7. state.kind \in {"get", "set"} => WrittenFor(state.content, state.key, serial)
  BY <1>5 DEF IInv, OperationsCarryTheirOwn
<1>8. failed' \in BOOLEAN
  BY <1>1 DEF ReadManifest, IInv, TypeOK
<1>9. /\ cells' = cells /\ answer' = answer /\ serial' = serial /\ manifest' = manifest
      /\ overlapped' = overlapped /\ temps' = temps \union {p}
  BY DEF DraftManifest
<1>10. manifest' \in [File -> Content] /\ temps' \subseteq Proc /\ overlapped' \in BOOLEAN
  BY <1>9 DEF IInv, TypeOK
<1> QED
  BY <1>5, <1>6, <1>7, <1>8, <1>9, <1>10, QuietStep

\* A process that becomes idle.
LEMMA FinishStep ==
  ASSUME IInv, NEW p \in Proc, Finish(p),
         cells' = cells, answer' = answer, serial' = serial,
         manifest' \in [File -> Content], temps' \subseteq Proc,
         overlapped' \in BOOLEAN, failed' \in BOOLEAN
  PROVE  IInv'
  BY IdleFacts, QuietStep DEF Finish

\* A process that moves on, its kind, key and content unchanged.
LEMMA SameContentStep ==
  ASSUME IInv, NEW p \in Proc, NEW state \in Operation, Continue(p, state),
         state.kind = op[p].kind, state.key = op[p].key, state.content = op[p].content,
         state.at = "unlink" => \A file \in state.todo : MonthOf(file) < Cutoff,
         cells' = cells, answer' = answer, serial' = serial,
         manifest' \in [File -> Content], temps' \subseteq Proc,
         overlapped' \in BOOLEAN, failed' \in BOOLEAN
  PROVE  IInv'
<1>1. state.kind \in {"get", "set"} => WrittenFor(state.content, state.key, serial)
  BY DEF IInv, OperationsCarryTheirOwn
<1> QED
  BY <1>1, QuietStep

\* A rebuild reads cells and changes none.
LEMMA RebuildStep ==
  ASSUME IInv, NEW p \in Proc,
         \/ StartRebuild(p)
         \/ \E file \in File : RebuildRead(p, file) \/ SkipFile(p, file)
         \/ RebuildDrafted(p)
  PROVE  IInv'
<1>1. /\ op[p] \in Operation /\ cells \in [File -> Content]
      /\ manifest \in [File -> Content] /\ temps \subseteq Proc
      /\ overlapped \in BOOLEAN /\ failed \in BOOLEAN
  BY DEF IInv, TypeOK
<1>2. CASE StartRebuild(p)
  <2> DEFINE state == [Idle EXCEPT !.kind = "rebuild", !.at = "scan", !.todo = Listed]
  <2>1. state \in Operation /\ state.kind = "rebuild" /\ state.at = "scan"
    BY IdleFacts DEF Operation, Listed
  <2>2. /\ Continue(p, state) /\ cells' = cells /\ answer' = answer /\ serial' = serial
        /\ manifest' = manifest /\ temps' = temps /\ failed' = failed
        /\ overlapped' = (overlapped \/ AnyoneElse(p))
    BY <1>2 DEF StartRebuild, Begin
  <2>3. overlapped' \in BOOLEAN
    BY <1>1, <2>2
  <2> HIDE DEF state
  <2> QED
    BY <1>1, <2>1, <2>2, <2>3, QuietStep
<1>3. ASSUME NEW file \in File, RebuildRead(p, file)
      PROVE  IInv'
  <2> DEFINE entries == IF Indexable(cells[file])
                        THEN [op[p].draft EXCEPT ![file] = cells[file]] ELSE op[p].draft
             state == [op[p] EXCEPT !.todo = op[p].todo \ {file}, !.draft = entries]
  <2>1. /\ cells' = cells /\ answer' = answer /\ serial' = serial /\ op[p].at = "scan"
        /\ manifest' = manifest /\ temps' = temps /\ failed' = failed
        /\ overlapped' = overlapped /\ Continue(p, state)
    BY <1>3 DEF RebuildRead, history
  <2>2. entries \in [File -> Content]
    BY <1>1 DEF Operation
  <2> HIDE DEF entries
  <2>3. /\ state \in Operation /\ state.kind = op[p].kind /\ state.key = op[p].key
        /\ state.content = op[p].content /\ state.at = op[p].at
    BY <1>1, <2>2 DEF Operation
  <2> HIDE DEF state
  <2> QED
    BY <1>1, <2>1, <2>3, SameContentStep
<1>4. ASSUME NEW file \in File, SkipFile(p, file)
      PROVE  IInv'
  <2> DEFINE state == [op[p] EXCEPT !.todo = op[p].todo \ {file}]
  <2>1. /\ cells' = cells /\ answer' = answer /\ serial' = serial
        /\ manifest' = manifest /\ temps' = temps /\ failed' = TRUE
        /\ overlapped' = overlapped /\ Continue(p, state)
    BY <1>4 DEF SkipFile
  <2>2. /\ state \in Operation /\ state.kind = op[p].kind /\ state.key = op[p].key
        /\ state.content = op[p].content /\ state.at = op[p].at
        /\ state.todo \subseteq op[p].todo
    BY <1>1 DEF Operation
  <2> HIDE DEF state
  <2>3. state.at = "unlink" => \A f \in state.todo : MonthOf(f) < Cutoff
    BY <2>2 DEF IInv, PrunesOnlyTheOld
  <2> QED
    BY <1>1, <2>1, <2>2, <2>3, SameContentStep
<1>5. CASE RebuildDrafted(p)
  <2> DEFINE state == [op[p] EXCEPT !.at = "manifest"]
  <2>1. /\ cells' = cells /\ answer' = answer /\ serial' = serial /\ manifest' = manifest
        /\ temps' = temps \union {p} /\ failed' = failed /\ overlapped' = overlapped
        /\ Continue(p, state)
    BY <1>5 DEF RebuildDrafted, history
  <2>2. /\ state \in Operation /\ state.kind = op[p].kind /\ state.key = op[p].key
        /\ state.content = op[p].content /\ state.at = "manifest"
    BY <1>1 DEF Operation
  <2> HIDE DEF state
  <2> QED
    BY <1>1, <2>1, <2>2, SameContentStep
<1> QED
  BY <1>2, <1>3, <1>4, <1>5

\* A prune unlinks only what is before its cutoff.
LEMMA PruneStep ==
  ASSUME IInv, NEW p \in Proc,
         \/ StartPrune(p)
         \/ \E file \in File : PruneCell(p, file)
         \/ PruneDone(p)
  PROVE  IInv'
<1>1. /\ op[p] \in Operation /\ cells \in [File -> Content]
      /\ manifest \in [File -> Content] /\ temps \subseteq Proc
      /\ overlapped \in BOOLEAN /\ failed \in BOOLEAN
  BY DEF IInv, TypeOK
<1>2. CASE StartPrune(p)
  <2> DEFINE old == {file \in Listed : MonthOf(file) < Cutoff}
             state == [Idle EXCEPT !.kind = "prune", !.at = "unlink", !.todo = old]
  <2>1. old \subseteq File /\ \A file \in old : MonthOf(file) < Cutoff
    BY DEF Listed
  <2> HIDE DEF old
  <2>2. state \in Operation /\ state.kind = "prune" /\ state.todo = old
    BY <2>1, IdleFacts DEF Operation
  <2>3. /\ Continue(p, state) /\ cells' = cells /\ answer' = answer /\ serial' = serial
        /\ manifest' = manifest /\ temps' = temps /\ failed' = failed
        /\ overlapped' = (overlapped \/ AnyoneElse(p))
    BY <1>2 DEF StartPrune, Begin, old
  <2>4. overlapped' \in BOOLEAN
    BY <1>1, <2>3
  <2> HIDE DEF state
  <2> QED
    BY <1>1, <2>1, <2>2, <2>3, <2>4, QuietStep
<1>3. ASSUME NEW file \in File, PruneCell(p, file)
      PROVE  IInv'
  <2> DEFINE state == [op[p] EXCEPT !.todo = op[p].todo \ {file},
                                    !.removed = op[p].removed \/ cells[file] /= Absent]
  <2>1. /\ cells' = [cells EXCEPT ![file] = Absent] /\ answer' = answer
        /\ serial' = serial /\ manifest' = manifest /\ temps' = temps
        /\ failed' = failed /\ overlapped' = overlapped /\ Continue(p, state)
    BY <1>3 DEF PruneCell, history
  <2>2. (op[p].removed \/ cells[file] /= Absent) \in BOOLEAN
    OBVIOUS
  <2>3. /\ state \in Operation /\ state.kind = op[p].kind /\ state.key = op[p].key
        /\ state.content = op[p].content /\ state.at = op[p].at
        /\ state.todo \subseteq op[p].todo
    BY <1>1, <2>2 DEF Operation
  <2> HIDE DEF state
  <2>4. serial' \in Nat /\ serial <= serial'
    BY <2>1, CacheAssumption DEF IInv, TypeOK
  <2>5. /\ state.kind \in {"get", "set"} => WrittenFor(state.content, state.key, serial')
        /\ state.at = "unlink" => \A f \in state.todo : MonthOf(f) < Cutoff
    BY <2>1, <2>3 DEF IInv, OperationsCarryTheirOwn, PrunesOnlyTheOld
  <2>6. OperationsCarryTheirOwn' /\ PrunesOnlyTheOld'
    BY <2>1, <2>4, <2>5, OperationStep
  <2>7. NeverAWrongAnswer'
    BY <2>1, <2>4, WhatStays
  <2>8. CellsHoldTheirOwn'
    BY <1>1, <2>1, ContentFacts DEF CellsHoldTheirOwn, IInv
  <2>9. cells' \in [File -> Content]
    BY <1>1, <2>1, ContentFacts
  <2>10. op' \in [Proc -> Operation]
    BY <2>1, <2>3 DEF Continue, IInv, TypeOK
  <2>11. TypeOK'
    BY <2>1, <2>9, <2>10 DEF IInv, TypeOK
  <2> QED
    BY <2>6, <2>7, <2>8, <2>11 DEF IInv
<1>4. CASE PruneDone(p)
  <2> DEFINE state == IF op[p].removed
                      THEN [op[p] EXCEPT !.at = "scan", !.todo = Listed] ELSE Idle
  <2>1. /\ cells' = cells /\ answer' = answer /\ serial' = serial /\ manifest' = manifest
        /\ temps' = temps /\ failed' = failed /\ overlapped' = overlapped
    BY <1>4 DEF PruneDone, history
  <2>2. CASE op[p].removed
    <3> DEFINE scanning == [op[p] EXCEPT !.at = "scan", !.todo = Listed]
    <3>1. /\ scanning \in Operation /\ scanning.kind = op[p].kind /\ scanning.at = "scan"
          /\ scanning.key = op[p].key /\ scanning.content = op[p].content
      BY <1>1 DEF Operation, Listed
    <3>2. Continue(p, scanning)
      BY <1>4, <2>2 DEF PruneDone
    <3> HIDE DEF scanning
    <3> QED
      BY <1>1, <2>1, <3>1, <3>2, SameContentStep
  <2>3. CASE ~op[p].removed
    <3>1. Finish(p)
      BY <1>4, <2>3 DEF PruneDone
    <3> QED
      BY <1>1, <2>1, <3>1, FinishStep
  <2> QED
    BY <2>2, <2>3
<1> QED
  BY <1>2, <1>3, <1>4

\* A failure, a sweep, a crash or a manifest's rename puts a record nowhere.
LEMMA DisturbanceStep ==
  ASSUME IInv, NEW p \in Proc,
         \/ \E key \in Key : GetFails(p, key)
         \/ CommitManifest(p)
         \/ WriteFails(p)
         \/ \E owner \in Proc : Sweep(p, owner)
         \/ Crash(p)
  PROVE  IInv'
<1>1. /\ op[p] \in Operation /\ manifest \in [File -> Content] /\ temps \subseteq Proc
      /\ overlapped \in BOOLEAN /\ failed \in BOOLEAN
  BY DEF IInv, TypeOK
<1>2. ASSUME NEW key \in Key, GetFails(p, key)
      PROVE  IInv'
  <2>1. /\ cells' = cells /\ manifest' = manifest /\ temps' = temps /\ op' = op
        /\ serial' = serial /\ failed' = TRUE
        /\ answer' = [status |-> "miss", key |-> key, content |-> Absent]
        /\ overlapped' = (overlapped \/ AnyoneElse(p))
    BY <1>2 DEF GetFails, Begin, Answer
  <2>2. serial' \in Nat /\ serial <= serial'
    BY <2>1, CacheAssumption DEF IInv, TypeOK
  <2>3. overlapped' \in BOOLEAN
    BY <1>1, <2>1
  <2>4. answer' \in Reply
    BY <2>1, ContentFacts DEF Reply
  <2>5. TypeOK'
    BY <2>1, <2>3, <2>4 DEF IInv, TypeOK
  <2>6. NeverAWrongAnswer'
    BY <2>1 DEF NeverAWrongAnswer
  <2> QED
    BY <2>1, <2>2, <2>5, <2>6, WhatStays DEF IInv
<1>3. CASE CommitManifest(p)
  <2>1. /\ Finish(p) /\ cells' = cells /\ answer' = answer /\ serial' = serial
        /\ manifest' = op[p].draft /\ temps' = temps \ {p}
        /\ overlapped' = overlapped /\ failed' = failed
    BY <1>3 DEF CommitManifest, history
  <2>2. op[p].draft \in [File -> Content]
    BY <1>1 DEF Operation
  <2> QED
    BY <1>1, <2>1, <2>2, FinishStep
<1>4. CASE WriteFails(p) \/ Crash(p)
  <2>1. /\ Finish(p) /\ cells' = cells /\ answer' = answer /\ serial' = serial
        /\ manifest' = manifest /\ temps' = temps \ {p}
        /\ overlapped' = overlapped /\ failed' = TRUE
    BY <1>4 DEF WriteFails, Crash
  <2> QED
    BY <1>1, <2>1, FinishStep
<1>5. ASSUME NEW owner \in Proc, Sweep(p, owner)
      PROVE  IInv'
  <2>1. /\ cells' = cells /\ manifest' = manifest /\ op' = op /\ answer' = answer
        /\ serial' = serial /\ overlapped' = overlapped /\ failed' = TRUE
        /\ temps' = temps \ {owner}
    BY <1>5 DEF Sweep
  <2>2. serial' \in Nat /\ serial <= serial'
    BY <2>1, CacheAssumption DEF IInv, TypeOK
  <2>3. TypeOK'
    BY <2>1 DEF IInv, TypeOK
  <2> QED
    BY <2>1, <2>2, <2>3, WhatStays DEF IInv
<1> QED
  BY <1>2, <1>3, <1>4, <1>5

-----------------------------------------------------------------------------
(* The invariant holds in every reachable state. *)

\* The disjuncts of Next, in the groups the lemmas are stated for.
LEMMA NextCases ==
  ASSUME Next
  PROVE  \E p \in Proc :
           \/ \E key \in Key : StartGet(p, key) \/ StartSet(p, key)
           \/ FinishGet(p) \/ CommitCell(p) \/ DraftManifest(p)
           \/ \/ StartRebuild(p)
              \/ \E file \in File : RebuildRead(p, file) \/ SkipFile(p, file)
              \/ RebuildDrafted(p)
           \/ \/ StartPrune(p)
              \/ \E file \in File : PruneCell(p, file)
              \/ PruneDone(p)
           \/ \/ \E key \in Key : GetFails(p, key)
              \/ CommitManifest(p)
              \/ WriteFails(p)
              \/ \E owner \in Proc : Sweep(p, owner)
              \/ Crash(p)
  BY Zenon DEF Next

\* Every step keeps the invariant.
THEOREM NextIInv == IInv /\ [Next]_vars => IInv'
<1> SUFFICES ASSUME IInv, [Next]_vars PROVE IInv'
  OBVIOUS
<1>1. CASE Next
  BY <1>1, NextCases, StartGetStep, StartSetStep, FinishGetStep, CommitCellStep,
     DraftManifestStep, RebuildStep, PruneStep, DisturbanceStep
<1>2. CASE UNCHANGED vars
  <2>1. /\ cells' = cells /\ manifest' = manifest /\ temps' = temps /\ op' = op
        /\ answer' = answer /\ serial' = serial
        /\ overlapped' = overlapped /\ failed' = failed
    BY <1>2 DEF vars
  <2>2. serial' \in Nat /\ serial <= serial'
    BY <2>1, CacheAssumption DEF IInv, TypeOK
  <2>3. TypeOK'
    BY <2>1 DEF IInv, TypeOK
  <2> QED
    BY <2>1, <2>2, <2>3, WhatStays DEF IInv
<1> QED
  BY <1>1, <1>2

\* So it holds in every reachable state.
THEOREM Invariant == Spec => []IInv
  BY InitIInv, NextIInv, PTL DEF Spec

\* The files, the operations in progress and the answers are well typed, and
\* the store never answers digest_mismatch, whatever overlaps or fails.
THEOREM TypeCorrect == Spec => []TypeOK
<1>1. IInv => TypeOK
  BY DEF IInv
<1> QED
  BY <1>1, Invariant, PTL

\* get never returns a record of another key, half a record, or one that
\* nobody wrote, with any number of processes crashing at any point.
THEOREM NoWrongAnswer == Spec => []NeverAWrongAnswer
<1>1. IInv => NeverAWrongAnswer
  BY DEF IInv
<1> QED
  BY <1>1, Invariant, PTL

-----------------------------------------------------------------------------
(* Durability: what a step may do to a cell that holds a record. *)

Durable(file) ==
  cells[file].kind = "record" /\ cells'[file] /= cells[file] =>
    \/ cells'[file] = Absent /\ MonthOf(file) < Cutoff
    \/ /\ cells'[file].kind = "record"
       /\ cells'[file].key = cells[file].key

\* A cell file changes only under a rename of set or an unlink of prune.
LEMMA OnlyTwoActionsChangeCells ==
  ASSUME Next
  PROVE  \/ cells' = cells
         \/ \E p \in Proc : CommitCell(p) \/ \E file \in File : PruneCell(p, file)
<1>1. PICK p \in Proc :
           \/ \E key \in Key : StartGet(p, key) \/ GetFails(p, key) \/ StartSet(p, key)
           \/ FinishGet(p)
           \/ CommitCell(p)
           \/ DraftManifest(p)
           \/ CommitManifest(p)
           \/ WriteFails(p)
           \/ StartRebuild(p)
           \/ \E file \in File : RebuildRead(p, file) \/ PruneCell(p, file) \/ SkipFile(p, file)
           \/ RebuildDrafted(p)
           \/ StartPrune(p)
           \/ PruneDone(p)
           \/ \E owner \in Proc : Sweep(p, owner)
           \/ Crash(p)
  BY Zenon DEF Next
<1>2. \/ CommitCell(p) \/ \E file \in File : PruneCell(p, file)
      \/ cells' = cells
  BY <1>1 DEF StartGet, GetFails, StartSet, FinishGet, DraftManifest, CommitManifest,
              WriteFails, StartRebuild, RebuildRead, SkipFile, RebuildDrafted,
              StartPrune, PruneDone, Sweep, Crash
<1> QED
  BY <1>2

\* A step that changes a stored record replaces it by one of the same key, or prunes an
\* old month.
LEMMA StepIsDurable ==
  ASSUME IInv, Next, NEW file \in File
  PROVE  Durable(file)
<1>1. CASE cells' = cells
  BY <1>1 DEF Durable
<1>2. ASSUME NEW p \in Proc, CommitCell(p)
      PROVE  Durable(file)
  <2>1. /\ cells' = [cells EXCEPT ![FileOf(op[p].key)] = op[p].content]
        /\ WrittenFor(op[p].content, op[p].key, serial)
    BY <1>2 DEF CommitCell, IInv, OperationsCarryTheirOwn
  <2>2. op[p].key \in Key /\ cells \in [File -> Content]
    BY DEF IInv, TypeOK, Operation
  <2>3. CASE file = FileOf(op[p].key)
    <3>1. cells[file].kind = "record" => WrittenFor(cells[file], op[p].key, serial)
      BY <2>2, <2>3, ReadsAreOwn
    <3>2. cells'[file] = op[p].content
      BY <2>1, <2>2, <2>3
    <3> QED
      BY <2>1, <3>1, <3>2 DEF Durable, WrittenFor
  <2>4. CASE file /= FileOf(op[p].key)
    BY <2>1, <2>2, <2>4 DEF Durable
  <2> QED
    BY <2>3, <2>4
<1>3. ASSUME NEW p \in Proc, NEW f \in File, PruneCell(p, f)
      PROVE  Durable(file)
  <2>1. cells' = [cells EXCEPT ![f] = Absent] /\ MonthOf(f) < Cutoff
    BY <1>3 DEF PruneCell, IInv, PrunesOnlyTheOld
  <2>2. cells \in [File -> Content]
    BY DEF IInv, TypeOK
  <2> QED
    BY <2>1, <2>2 DEF Durable
<1> QED
  BY <1>1, <1>2, <1>3, OnlyTwoActionsChangeCells

\* A committed record is lost only to a later record of its key or to a prune
\* of its month: never to manifest work, to a failed write or to a crash.
THEOREM RecordsAreDurable == Spec => CellsAreDurable
<1>1. IInv /\ [Next]_vars =>
        [\A file \in File : Durable(file)]_cells
  <2> SUFFICES ASSUME IInv, [Next]_vars, cells' /= cells
               PROVE  \A file \in File : Durable(file)
    OBVIOUS
  <2>1. Next
    BY DEF vars
  <2> QED
    BY <2>1, StepIsDurable
<1>2. [\A file \in File : Durable(file)]_cells =>
      [\A file \in File : cells[file].kind = "record" /\ cells'[file] /= cells[file] =>
         \/ cells'[file] = Absent /\ MonthOf(file) < Cutoff
         \/ /\ cells'[file].kind = "record"
            /\ cells'[file].key = cells[file].key]_cells
  BY DEF Durable
<1> QED
  BY <1>1, <1>2, Invariant, PTL DEF Spec, CellsAreDurable

-----------------------------------------------------------------------------
(* The store implements CacheRegister. *)

\* How a step of one process changes the pending reads.
LEMMA ReadsStep ==
  ASSUME IInv, NEW p \in Proc, NEW state, Continue(p, state)
  PROVE  PendingReads' = [PendingReads EXCEPT ![p] =
           IF state.kind = "get" THEN state.content ELSE Absent]
<1>1. op \in [Proc -> Operation] /\ op' = [op EXCEPT ![p] = state]
  BY DEF IInv, TypeOK, Continue
<1> QED
  BY <1>1 DEF PendingReads

\* A step that changes nobody's read leaves the pending reads as they were.
LEMMA ReadsStay ==
  ASSUME IInv, NEW p \in Proc, NEW state, Continue(p, state),
         \/ state.kind = op[p].kind /\ state.content = op[p].content
         \/ ~Busy(p) /\ state.kind /= "get"
  PROVE  PendingReads' = PendingReads
<1>1. PendingReads[p] = IF state.kind = "get" THEN state.content ELSE Absent
  BY IdleFacts DEF PendingReads, Busy
<1>2. PendingReads' = [PendingReads EXCEPT ![p] = PendingReads[p]]
  BY <1>1, ReadsStep
<1>3. PendingReads = [q \in Proc |-> PendingReads[q]]
  BY DEF PendingReads
<1> HIDE DEF PendingReads
<1> QED
  BY <1>2, <1>3

\* A lookup that ends without an answer, or an operation that never was one.
LEMMA FinishAbandons ==
  ASSUME IInv, NEW p \in Proc, Finish(p), cells' = cells, answer' = answer
  PROVE  Register!Abandon(p)
<1>1. PendingReads' = [PendingReads EXCEPT ![p] = Absent]
  BY ReadsStep, IdleFacts DEF Finish
<1> QED
  BY <1>1 DEF Register!Abandon

\* A get that reads its cell looks at the register, or misses at once.
LEMMA StartGetLooks ==
  ASSUME IInv, NEW p \in Proc, NEW key \in Key, StartGet(p, key)
  PROVE  Register!Next
<1> DEFINE content == cells[FileOf(key)]
           reading == [Idle EXCEPT !.kind = "get", !.at = "checksum",
                                   !.key = key, !.content = content]
<1>1. cells' = cells /\ ~Busy(p)
  BY DEF StartGet, Begin
<1>2. PendingReads[p] = Absent
  BY <1>1, IdleFacts DEF PendingReads, Busy
<1>3. FileOf(key) \in File /\ content \in Content
  BY KeyFacts DEF IInv, TypeOK
<1>4. CASE StatusBeforeManifest(content) = "readable"
  <2>1. Continue(p, reading) /\ answer' = answer
    BY <1>4 DEF StartGet
  <2>2. reading.kind = "get" /\ reading.content = content
    BY DEF Idle
  <2>3. content /= Absent
    BY <1>3, <1>4, StatusFacts, ContentFacts
  <2> HIDE DEF reading
  <2>4. PendingReads' = [PendingReads EXCEPT ![p] = content]
    BY <2>1, <2>2, ReadsStep
  <2>5. Register!Look(p, FileOf(key))
    BY <1>1, <1>2, <2>1, <2>3, <2>4 DEF Register!Look
  <2> QED
    BY <1>3, <2>5 DEF Register!Next
<1>5. CASE StatusBeforeManifest(content) /= "readable"
  <2>1. op' = op /\ answer'.content = Absent
    BY <1>5 DEF StartGet, Answer
  <2>2. PendingReads' = [PendingReads EXCEPT ![p] = Absent]
    BY <1>2, <2>1 DEF PendingReads
  <2>3. Register!Miss(p)
    BY <1>1, <2>1, <2>2 DEF Register!Miss
  <2> QED
    BY <2>3 DEF Register!Next
<1> QED
  BY <1>4, <1>5

\* The end of a get answers the register's pending look, by a hit or a miss.
LEMMA FinishGetAnswers ==
  ASSUME IInv, NEW p \in Proc, FinishGet(p)
  PROVE  Register!Next
<1>1. PICK index \in {manifest, NoManifest} :
        LET key == op[p].key
            content == op[p].content
            status == StatusAgainst(index[FileOf(key)], content)
        IN
        /\ op[p].kind = "get"
        /\ Answer(status, key, IF status = "hit" THEN content ELSE Absent)
        /\ Finish(p)
        /\ cells' = cells
  BY DEF FinishGet
<1>2. PendingReads' = [PendingReads EXCEPT ![p] = Absent]
  BY <1>1, ReadsStep, IdleFacts DEF Finish
<1>3. PendingReads[p] = op[p].content
  BY <1>1 DEF PendingReads
<1>4. op[p].content /= Absent
  BY <1>1, ContentFacts DEF IInv, OperationsCarryTheirOwn, WrittenFor
<1>5. answer'.content \in {op[p].content, Absent}
  BY <1>1 DEF Answer
<1>6. Register!Hit(p) \/ Register!Miss(p)
  BY <1>1, <1>2, <1>3, <1>4, <1>5 DEF Register!Hit, Register!Miss
<1> QED
  BY <1>6 DEF Register!Next

\* The rename of set is the register's put.
LEMMA CommitCellPuts ==
  ASSUME IInv, NEW p \in Proc, CommitCell(p)
  PROVE  Register!Next
<1> DEFINE state == [op[p] EXCEPT !.at = "index"]
<1>1. /\ answer' = answer /\ op[p].kind = "set" /\ Continue(p, state)
      /\ cells' = [cells EXCEPT ![FileOf(op[p].key)] = op[p].content]
  BY DEF CommitCell
<1>2. op[p] \in Operation
  BY DEF IInv, TypeOK
<1>3. state.kind = op[p].kind /\ state.content = op[p].content
  BY <1>2 DEF Operation
<1>4. op[p].content \in Content \ {Absent} /\ FileOf(op[p].key) \in File
  BY <1>1, <1>2, KeyFacts, ContentFacts
     DEF IInv, OperationsCarryTheirOwn, WrittenFor, Operation
<1> HIDE DEF state
<1>5. PendingReads' = PendingReads
  BY <1>1, <1>3, ReadsStay
<1>6. Register!Put(FileOf(op[p].key), op[p].content)
  BY <1>1, <1>5 DEF Register!Put
<1> QED
  BY <1>4, <1>6 DEF Register!Next

\* The unlink of prune is the register's forget.
LEMMA PruneCellForgets ==
  ASSUME IInv, NEW p \in Proc, NEW file \in File, PruneCell(p, file)
  PROVE  Register!Next
<1> DEFINE state == [op[p] EXCEPT !.todo = op[p].todo \ {file},
                                  !.removed = op[p].removed \/ cells[file] /= Absent]
<1>1. answer' = answer /\ Continue(p, state) /\ cells' = [cells EXCEPT ![file] = Absent]
  BY DEF PruneCell
<1>2. op[p] \in Operation
  BY DEF IInv, TypeOK
<1>3. state.kind = op[p].kind /\ state.content = op[p].content
  BY <1>2 DEF Operation
<1> HIDE DEF state
<1>4. PendingReads' = PendingReads
  BY <1>1, <1>3, ReadsStay
<1>5. Register!Forget(file)
  BY <1>1, <1>4 DEF Register!Forget
<1> QED
  BY <1>5 DEF Register!Next

\* Manifest work, half-done writes, listings and sweeps are invisible.
LEMMA TheRestStutters ==
  ASSUME IInv, NEW p \in Proc,
         \/ \E key \in Key : StartSet(p, key)
         \/ DraftManifest(p)
         \/ StartRebuild(p)
         \/ \E file \in File : RebuildRead(p, file) \/ SkipFile(p, file)
         \/ RebuildDrafted(p)
         \/ StartPrune(p)
         \/ \E owner \in Proc : Sweep(p, owner)
  PROVE  UNCHANGED Register!vars
<1>1. op[p] \in Operation
  BY DEF IInv, TypeOK
<1>2. cells' = cells /\ answer' = answer
  BY DEF StartSet, DraftManifest, StartRebuild, RebuildRead, SkipFile, RebuildDrafted,
         StartPrune, Sweep
<1>3. CASE \E owner \in Proc : Sweep(p, owner)
  <2>1. PendingReads' = PendingReads
    BY <1>3 DEF Sweep, PendingReads
  <2> QED
    BY <1>2, <2>1 DEF Register!vars
<1>4. CASE \E key \in Key : StartSet(p, key)
  <2>1. PICK key \in Key : StartSet(p, key)
    BY <1>4
  <2> DEFINE state == [Idle EXCEPT !.kind = "set", !.at = "cell", !.key = key,
                                   !.content = Record(key, serial + 1)]
  <2>2. Continue(p, state) /\ ~Busy(p) /\ state.kind = "set"
    BY <2>1 DEF StartSet, Begin, Idle
  <2> HIDE DEF state
  <2> QED
    BY <1>2, <2>2, ReadsStay DEF Register!vars
<1>5. CASE StartRebuild(p)
  <2> DEFINE state == [Idle EXCEPT !.kind = "rebuild", !.at = "scan", !.todo = Listed]
  <2>1. Continue(p, state) /\ ~Busy(p) /\ state.kind = "rebuild"
    BY <1>5 DEF StartRebuild, Begin, Idle
  <2> HIDE DEF state
  <2> QED
    BY <1>2, <2>1, ReadsStay DEF Register!vars
<1>6. CASE StartPrune(p)
  <2> DEFINE state == [Idle EXCEPT !.kind = "prune", !.at = "unlink",
                         !.todo = {file \in Listed : MonthOf(file) < Cutoff}]
  <2>1. Continue(p, state) /\ ~Busy(p) /\ state.kind = "prune"
    BY <1>6 DEF StartPrune, Begin, Idle
  <2> HIDE DEF state
  <2> QED
    BY <1>2, <2>1, ReadsStay DEF Register!vars
<1>7. CASE DraftManifest(p)
  <2>1. PICK index \in {manifest, NoManifest} :
          Continue(p, [op[p] EXCEPT
             !.at = "manifest",
             !.draft = [index EXCEPT ![FileOf(op[p].key)] = op[p].content]])
    BY <1>7 DEF DraftManifest
  <2> DEFINE entries == [index EXCEPT ![FileOf(op[p].key)] = op[p].content]
             state == [op[p] EXCEPT !.at = "manifest", !.draft = entries]
  <2>2. Continue(p, state)
    BY <2>1
  <2>3. state.kind = op[p].kind /\ state.content = op[p].content
    BY <1>1 DEF Operation
  <2> HIDE DEF state
  <2> QED
    BY <1>2, <2>2, <2>3, ReadsStay DEF Register!vars
<1>8. ASSUME NEW file \in File, RebuildRead(p, file)
      PROVE  UNCHANGED Register!vars
  <2> DEFINE entries == IF Indexable(cells[file])
                        THEN [op[p].draft EXCEPT ![file] = cells[file]] ELSE op[p].draft
             state == [op[p] EXCEPT !.todo = op[p].todo \ {file}, !.draft = entries]
  <2>1. Continue(p, state)
    BY <1>8 DEF RebuildRead
  <2>2. state.kind = op[p].kind /\ state.content = op[p].content
    BY <1>1 DEF Operation
  <2> HIDE DEF state
  <2> QED
    BY <1>2, <2>1, <2>2, ReadsStay DEF Register!vars
<1>9. ASSUME NEW file \in File, SkipFile(p, file)
      PROVE  UNCHANGED Register!vars
  <2> DEFINE state == [op[p] EXCEPT !.todo = op[p].todo \ {file}]
  <2>1. Continue(p, state)
    BY <1>9 DEF SkipFile
  <2>2. state.kind = op[p].kind /\ state.content = op[p].content
    BY <1>1 DEF Operation
  <2> HIDE DEF state
  <2> QED
    BY <1>2, <2>1, <2>2, ReadsStay DEF Register!vars
<1>10. CASE RebuildDrafted(p)
  <2> DEFINE state == [op[p] EXCEPT !.at = "manifest"]
  <2>1. Continue(p, state)
    BY <1>10 DEF RebuildDrafted
  <2>2. state.kind = op[p].kind /\ state.content = op[p].content
    BY <1>1 DEF Operation
  <2> HIDE DEF state
  <2> QED
    BY <1>2, <2>1, <2>2, ReadsStay DEF Register!vars
<1> QED
  BY <1>3, <1>4, <1>5, <1>6, <1>7, <1>8, <1>9, <1>10

\* The end of a prune, with or without a rebuild to follow.
LEMMA PruneDoneInvisible ==
  ASSUME IInv, NEW p \in Proc, PruneDone(p)
  PROVE  Register!Next \/ UNCHANGED Register!vars
<1>1. cells' = cells /\ answer' = answer
  BY DEF PruneDone
<1>2. CASE op[p].removed
  <2> DEFINE state == [op[p] EXCEPT !.at = "scan", !.todo = Listed]
  <2>1. Continue(p, state)
    BY <1>2 DEF PruneDone
  <2>2. state.kind = op[p].kind /\ state.content = op[p].content
    BY DEF Operation, IInv, TypeOK
  <2> HIDE DEF state
  <2> QED
    BY <1>1, <2>1, <2>2, ReadsStay DEF Register!vars
<1>3. CASE ~op[p].removed
  <2>1. Finish(p)
    BY <1>3 DEF PruneDone
  <2> QED
    BY <1>1, <2>1, FinishAbandons DEF Register!Next
<1> QED
  BY <1>2, <1>3

\* A get that cannot read answers a miss, which the register always allows.
LEMMA GetFailsMisses ==
  ASSUME IInv, NEW p \in Proc, NEW key \in Key, GetFails(p, key)
  PROVE  Register!Next
<1>1. cells' = cells /\ op' = op /\ ~Busy(p) /\ answer'.content = Absent
  BY DEF GetFails, Begin, Answer
<1>2. PendingReads[p] = Absent
  BY <1>1, IdleFacts DEF PendingReads, Busy
<1>3. PendingReads' = [PendingReads EXCEPT ![p] = Absent]
  BY <1>1, <1>2 DEF PendingReads
<1>4. Register!Miss(p)
  BY <1>1, <1>3 DEF Register!Miss
<1> QED
  BY <1>4 DEF Register!Next

\* Every step of the store is a step of the register, or none.
LEMMA StepMaps == IInv /\ [Next]_vars => [Register!Next]_(Register!vars)
<1> SUFFICES ASSUME IInv, [Next]_vars PROVE [Register!Next]_(Register!vars)
  OBVIOUS
<1>1. CASE UNCHANGED vars
  <2>1. cells' = cells /\ op' = op /\ answer' = answer
    BY <1>1 DEF vars
  <2>2. PendingReads' = PendingReads
    BY <2>1 DEF PendingReads
  <2> QED
    BY <2>1, <2>2 DEF Register!vars
<1>2. CASE Next
  <2>1. PICK p \in Proc :
           \/ \E key \in Key : StartGet(p, key) \/ StartSet(p, key)
           \/ FinishGet(p) \/ CommitCell(p) \/ DraftManifest(p)
           \/ \/ StartRebuild(p)
              \/ \E file \in File : RebuildRead(p, file) \/ SkipFile(p, file)
              \/ RebuildDrafted(p)
           \/ \/ StartPrune(p)
              \/ \E file \in File : PruneCell(p, file)
              \/ PruneDone(p)
           \/ \/ \E key \in Key : GetFails(p, key)
              \/ CommitManifest(p)
              \/ WriteFails(p)
              \/ \E owner \in Proc : Sweep(p, owner)
              \/ Crash(p)
    BY <1>2, NextCases
  <2>2. CASE CommitManifest(p) \/ WriteFails(p) \/ Crash(p)
    <3>1. Finish(p) /\ cells' = cells /\ answer' = answer
      BY <2>2 DEF CommitManifest, WriteFails, Crash
    <3> QED
      BY <3>1, FinishAbandons DEF Register!Next
  <2>3. CASE \/ \E key \in Key : StartGet(p, key) \/ GetFails(p, key)
             \/ FinishGet(p) \/ CommitCell(p) \/ PruneDone(p)
             \/ \E file \in File : PruneCell(p, file)
    BY <2>3, StartGetLooks, GetFailsMisses, FinishGetAnswers, CommitCellPuts,
       PruneDoneInvisible, PruneCellForgets
  <2> QED
    BY <2>1, <2>2, <2>3, TheRestStutters
<1> QED
  BY <1>1, <1>2

\* The empty store is the empty register.
LEMMA InitMaps == Init => Register!Init
<1> SUFFICES ASSUME Init PROVE Register!Init
  OBVIOUS
<1>1. cells \in [File -> (Content \ {Absent}) \union {Absent}]
  BY ContentFacts DEF Init, Content
<1>2. PendingReads = [p \in Proc |-> Absent]
  BY IdleFacts DEF Init, PendingReads
<1>3. answer.content = Absent
  BY DEF Init
<1> QED
  BY <1>1, <1>2, <1>3 DEF Register!Init

\* Whatever its processes do, and however they fail, the store behaves as one
\* atomic forgettable register per cell: the manifest, the temporary files and
\* the half-done writes are invisible in what get returns.
THEOREM StoreImplementsRegister == Spec => ImplementsRegister
  BY InitMaps, StepMaps, Invariant, PTL DEF Spec, ImplementsRegister, Register!Spec

-----------------------------------------------------------------------------
(* The manifest of a cache that one process at a time uses, without failures. *)

Solo == ~overlapped /\ ~failed
AllIndexed(index) == \A file \in File : Indexed(index, file)

\* The manifest of an empty store indexes nothing, and nothing is owed to it.
LEMMA NothingIsIndexed ==
  /\ \A file \in File : NoManifest[file] = Absent
  /\ StateIsExact(Idle)
  /\ Absent.kind /= "record"
<1>1. Absent.kind /= "record" /\ \A file \in File : NoManifest[file] = Absent
  BY ContentFacts DEF NoManifest
<1>2. StateIsExact(Idle)
  BY IdleFacts DEF StateIsExact
<1> QED
  BY <1>1, <1>2

\* A process that is somewhere inside an operation is the only one that is.
LEMMA TheOnlyOne ==
  ASSUME IInv, SoloInv, Solo, NEW p \in Proc, op[p].at /= "idle"
  PROVE  \A q \in Proc \ {p} : ~Busy(q)
  BY IdleFacts DEF SoloInv, Solo, Busy

\* A process that begins while nobody overlaps it finds the manifest exact.
LEMMA FirstToBegin ==
  ASSUME IInv, SoloInv, Solo', failed' = failed, NEW p \in Proc, Begin(p)
  PROVE  Solo /\ AllIndexed(manifest) /\ \A q \in Proc : ~Busy(q)
<1>1. Solo /\ \A q \in Proc : ~Busy(q)
  BY DEF Begin, Solo, AnyoneElse
<1> QED
  BY <1>1 DEF SoloInv, Solo, SequentialUseIsExact, AllIndexed

\* What a step of the only process must show.
LEMMA SoloStep ==
  ASSUME IInv, NEW p \in Proc, NEW state, Continue(p, state), \A q \in Proc \ {p} : ~Busy(q),
         answer'.status /= "integrity_mismatch", StateIsExact(state)',
         state = Idle => AllIndexed(manifest)', StateIsExact(Idle)'
  PROVE  SoloInv'
<1>1. op' = [op EXCEPT ![p] = state] /\ op \in [Proc -> Operation]
  BY DEF Continue, IInv, TypeOK
<1>2. op'[p] = state /\ \A q \in Proc \ {p} : op'[q] = Idle
  BY <1>1 DEF Busy
<1>3. \A q \in Proc : Busy(q)' => q = p
  BY <1>2 DEF Busy
<1>4. \A q \in Proc : StateIsExact(op[q])'
  <2> SUFFICES ASSUME NEW q \in Proc PROVE StateIsExact(op[q])'
    OBVIOUS
  <2>1. op'[q] = state \/ op'[q] = Idle
    BY <1>2
  <2> QED
    BY <2>1 DEF StateIsExact
<1>5. SequentialUseIsExact'
  <2> SUFFICES ASSUME ~Busy(p)' PROVE \A file \in File : Indexed(manifest, file)'
    BY DEF SequentialUseIsExact
  <2>1. state = Idle
    BY <1>2 DEF Busy
  <2> QED
    BY <2>1 DEF AllIndexed
<1> QED
  BY <1>3, <1>4, <1>5 DEF SoloInv

\* What is indexed stays so while the cells and the index stay.
LEMMA IndexedStays ==
  ASSUME cells' = cells
  PROVE  /\ \A index, file : Indexed(index, file)' <=> Indexed(index, file)
         /\ manifest' = manifest =>
              /\ \A file : Indexed(manifest, file)' <=> Indexed(manifest, file)
              /\ \A state : StateIsExact(state) => StateIsExact(state)'
<1>1. \A index, file : Indexed(index, file)' <=> Indexed(index, file)
  BY DEF Indexed
<1>2. ASSUME manifest' = manifest
      PROVE  /\ \A file : Indexed(manifest, file)' <=> Indexed(manifest, file)
             /\ \A state : StateIsExact(state) => StateIsExact(state)'
  <2>1. \A file : Indexed(manifest, file)' <=> Indexed(manifest, file)
    BY <1>2 DEF Indexed
  <2> QED
    BY <1>1, <1>2, <2>1 DEF StateIsExact
<1> QED
  BY <1>1, <1>2

\* get: what it answers before the manifest is no integrity mismatch, and what it
\* compares with the manifest is in the cell.
LEMMA SoloGet ==
  ASSUME IInv, SoloInv, Solo', NEW p \in Proc,
         \/ \E key \in Key : StartGet(p, key)
         \/ FinishGet(p)
  PROVE  SoloInv'
<1>1. ASSUME NEW key \in Key, StartGet(p, key)
      PROVE  SoloInv'
  <2> DEFINE content == cells[FileOf(key)]
             status == StatusBeforeManifest(content)
  <2>1. /\ Begin(p) /\ cells' = cells /\ manifest' = manifest /\ failed' = failed
        /\ overlapped' = (overlapped \/ AnyoneElse(p))
    BY <1>1 DEF StartGet, Begin
  <2>2. Solo /\ AllIndexed(manifest) /\ \A q \in Proc : ~Busy(q)
    BY <2>1, FirstToBegin
  <2>3. answer.status /= "integrity_mismatch"
    BY <2>2 DEF SoloInv, Solo, SequentialUseIsExact
  <2>4. CASE status = "readable"
    <3>1. PICK s : s = [Idle EXCEPT !.kind = "get", !.at = "checksum", !.key = key,
                                    !.content = content]
      OBVIOUS
    <3>2. Continue(p, s) /\ answer' = answer
      BY <1>1, <2>4, <3>1 DEF StartGet
    <3>3. s.kind = "get" /\ s.at = "checksum" /\ s.key = key /\ s.content = content
      BY <3>1 DEF Idle
    <3>4. StateIsExact(s)
      BY <2>2, <3>3 DEF StateIsExact, AllIndexed
    <3>5. s /= Idle
      BY <3>3, IdleFacts
    <3> QED
      BY <2>1, <2>2, <2>3, <3>2, <3>4, <3>5, IndexedStays, NothingIsIndexed, SoloStep
  <2>5. CASE status /= "readable"
    <3>1. op' = op /\ answer' = [status |-> status, key |-> key, content |-> Absent]
      BY <1>1, <2>5 DEF StartGet, Answer
    <3>2. status /= "integrity_mismatch"
      BY KeyFacts, StatusFacts DEF IInv, TypeOK
    <3>3. \A q \in Proc : StateIsExact(op[q])' /\ (Busy(q)' <=> Busy(q))
      BY <2>1, <2>2, <3>1, IndexedStays DEF SoloInv, Solo, Busy, StateIsExact, Indexed
    <3>4. \A file \in File : Indexed(manifest, file)'
      BY <2>1, <2>2, IndexedStays DEF AllIndexed
    <3> QED
      BY <2>2, <3>1, <3>2, <3>3, <3>4 DEF SoloInv, SequentialUseIsExact
  <2> QED
    BY <2>4, <2>5
<1>2. CASE FinishGet(p)
  <2>1. PICK index \in {manifest, NoManifest} :
          /\ op[p].kind = "get"
          /\ ReadManifest(index)
          /\ answer'.status = StatusAgainst(index[FileOf(op[p].key)], op[p].content)
          /\ Continue(p, Idle)
          /\ UNCHANGED <<cells, manifest, temps, serial, overlapped>>
    BY <1>2 DEF FinishGet, Answer, Finish
  <2>2. Solo /\ index = manifest
    BY <2>1 DEF ReadManifest, Solo
  <2>3. /\ op[p].at = "checksum" /\ op[p].content = cells[FileOf(op[p].key)]
        /\ AllIndexed(manifest) /\ FileOf(op[p].key) \in File
    BY <2>1, <2>2, KeyFacts DEF SoloInv, Solo, StateIsExact, AllIndexed, IInv, TypeOK, Operation
  <2>4. answer'.status /= "integrity_mismatch"
    BY <2>1, <2>2, <2>3 DEF StatusAgainst, AllIndexed, Indexed
  <2>5. (\A q \in Proc \ {p} : ~Busy(q)) /\ AllIndexed(manifest)' /\ StateIsExact(Idle)'
    BY <2>1, <2>2, <2>3, TheOnlyOne, IndexedStays, NothingIsIndexed DEF AllIndexed
  <2> QED
    BY <2>1, <2>4, <2>5, SoloStep
<1> QED
  BY <1>1, <1>2

\* Steps that leave the cells, the manifest and the answer alone: the operation moves on.
LEMMA SoloMove ==
  ASSUME IInv, SoloInv, Solo, NEW p \in Proc, \A q \in Proc \ {p} : ~Busy(q),
         NEW s, Continue(p, s), StateIsExact(s), s = Idle => AllIndexed(manifest),
         cells' = cells, manifest' = manifest, answer' = answer
  PROVE  SoloInv'
<1>1. answer'.status /= "integrity_mismatch"
  BY DEF SoloInv, Solo, SequentialUseIsExact
<1>2. StateIsExact(s)' /\ StateIsExact(Idle)'
  BY IndexedStays, NothingIsIndexed
<1>3. s = Idle => AllIndexed(manifest)'
  BY IndexedStays DEF AllIndexed
<1> QED
  BY <1>1, <1>2, <1>3, SoloStep

\* set: from the cell to the manifest.
LEMMA SoloSet ==
  ASSUME IInv, SoloInv, Solo', NEW p \in Proc,
         \/ \E key \in Key : StartSet(p, key)
         \/ CommitCell(p)
         \/ DraftManifest(p)
         \/ CommitManifest(p)
  PROVE  SoloInv'
<1>1. op[p] \in Operation /\ manifest \in [File -> Content] /\ cells \in [File -> Content]
  BY DEF IInv, TypeOK
<1>2. op[p].key \in Key /\ FileOf(op[p].key) \in File
  BY <1>1, KeyFacts DEF Operation
<1>3. ASSUME NEW key \in Key, StartSet(p, key)
      PROVE  SoloInv'
  <2>1. PICK s : s = [Idle EXCEPT !.kind = "set", !.at = "cell", !.key = key,
                                  !.content = Record(key, serial + 1)]
    OBVIOUS
  <2>2. /\ Begin(p) /\ Continue(p, s) /\ cells' = cells /\ manifest' = manifest
        /\ answer' = answer /\ failed' = failed
    BY <1>3, <2>1 DEF StartSet
  <2>3. s.kind = "set" /\ s.at = "cell"
    BY <2>1 DEF Idle
  <2>4. Solo /\ AllIndexed(manifest) /\ \A q \in Proc : ~Busy(q)
    BY <2>2, FirstToBegin
  <2>5. StateIsExact(s) /\ s /= Idle
    BY <2>3, <2>4, IdleFacts DEF StateIsExact, AllIndexed
  <2> QED
    BY <2>2, <2>4, <2>5, SoloMove
<1>4. CASE CommitCell(p)
  <2>1. PICK s : s = [op[p] EXCEPT !.at = "index"]
    OBVIOUS
  <2>2. /\ op[p].kind = "set" /\ op[p].at = "cell" /\ Solo
        /\ cells' = [cells EXCEPT ![FileOf(op[p].key)] = op[p].content]
        /\ manifest' = manifest /\ answer' = answer /\ Continue(p, s)
    BY <1>4, <2>1 DEF CommitCell, history, Solo
  <2>3. s.kind = "set" /\ s.at = "index" /\ s.key = op[p].key /\ s.content = op[p].content
    BY <1>1, <2>1, <2>2 DEF Operation
  <2>4. AllIndexed(manifest)
    BY <2>2 DEF SoloInv, Solo, StateIsExact, AllIndexed
  <2>5. \A file \in File \ {FileOf(s.key)} : Indexed(manifest, file)'
    BY <1>1, <2>2, <2>3, <2>4 DEF AllIndexed, Indexed
  <2>6. s.content = cells'[FileOf(s.key)]
    BY <1>1, <1>2, <2>2, <2>3
  <2>7. StateIsExact(s)' /\ s /= Idle
    BY <2>3, <2>5, <2>6, IdleFacts DEF StateIsExact
  <2>8. (\A q \in Proc \ {p} : ~Busy(q)) /\ answer'.status /= "integrity_mismatch"
    BY <2>2, TheOnlyOne DEF SoloInv, Solo, SequentialUseIsExact
  <2>9. StateIsExact(Idle)'
    BY IdleFacts DEF StateIsExact
  <2> QED
    BY <2>2, <2>7, <2>8, <2>9, SoloStep
<1>5. CASE DraftManifest(p)
  <2>1. PICK index \in {manifest, NoManifest} :
          /\ ReadManifest(index)
          /\ Continue(p, [op[p] EXCEPT
               !.at = "manifest",
               !.draft = [index EXCEPT ![FileOf(op[p].key)] = op[p].content]])
    BY <1>5 DEF DraftManifest
  <2>2. PICK entries : entries = [index EXCEPT ![FileOf(op[p].key)] = op[p].content]
    OBVIOUS
  <2>3. PICK s : s = [op[p] EXCEPT !.at = "manifest", !.draft = entries]
    OBVIOUS
  <2>4. /\ op[p].kind = "set" /\ op[p].at = "index" /\ overlapped' = overlapped
        /\ cells' = cells /\ manifest' = manifest /\ answer' = answer /\ Continue(p, s)
    BY <1>5, <2>1, <2>2, <2>3 DEF DraftManifest
  <2>5. Solo /\ index = manifest
    BY <2>1, <2>4 DEF ReadManifest, Solo
  <2>6. s.kind = "set" /\ s.at = "manifest" /\ s.draft = entries
    BY <1>1, <2>3, <2>4 DEF Operation
  <2>7. /\ op[p].content = cells[FileOf(op[p].key)]
        /\ \A file \in File \ {FileOf(op[p].key)} : Indexed(manifest, file)
    BY <2>4, <2>5 DEF SoloInv, Solo, StateIsExact
  <2>8. \A file \in File : Indexed(entries, file)
    BY <1>1, <1>2, <2>2, <2>5, <2>7 DEF Indexed
  <2>9. StateIsExact(s) /\ s /= Idle
    BY <2>6, <2>8, IdleFacts DEF StateIsExact
  <2> QED
    BY <2>4, <2>5, <2>9, TheOnlyOne, SoloMove
<1>6. CASE CommitManifest(p)
  <2>1. /\ op[p].at = "manifest" /\ manifest' = op[p].draft /\ cells' = cells /\ Solo
        /\ answer' = answer /\ Continue(p, Idle)
    BY <1>6 DEF CommitManifest, Finish, history, Solo
  <2>2. \A file \in File : Indexed(op[p].draft, file)
    BY <2>1 DEF SoloInv, Solo, StateIsExact
  <2>3. AllIndexed(manifest)'
    BY <2>1, <2>2 DEF AllIndexed, Indexed
  <2>4. (\A q \in Proc \ {p} : ~Busy(q)) /\ answer'.status /= "integrity_mismatch"
    BY <2>1, TheOnlyOne DEF SoloInv, Solo, SequentialUseIsExact
  <2>5. StateIsExact(Idle)'
    BY IdleFacts DEF StateIsExact
  <2> QED
    BY <2>1, <2>3, <2>4, <2>5, SoloStep
<1> QED
  BY <1>3, <1>4, <1>5, <1>6

\* rebuildManifest: what has been read is indexed, what has not been read is not.
LEMMA SoloRebuild ==
  ASSUME IInv, SoloInv, Solo', NEW p \in Proc,
         \/ StartRebuild(p)
         \/ \E file \in File : RebuildRead(p, file)
         \/ RebuildDrafted(p)
  PROVE  SoloInv'
<1>1. /\ op[p] \in Operation /\ cells \in [File -> Content]
      /\ op[p].draft \in [File -> Content]
  BY DEF IInv, TypeOK, Operation
<1>2. CASE StartRebuild(p)
  <2>1. PICK s : s = [Idle EXCEPT !.kind = "rebuild", !.at = "scan", !.todo = Listed]
    OBVIOUS
  <2>2. /\ Begin(p) /\ Continue(p, s) /\ cells' = cells /\ manifest' = manifest
        /\ answer' = answer /\ failed' = failed
    BY <1>2, <2>1 DEF StartRebuild
  <2>3. s.kind = "rebuild" /\ s.at = "scan" /\ s.todo = Listed /\ s.draft = NoManifest
    BY <2>1 DEF Idle
  <2>4. Solo /\ AllIndexed(manifest) /\ \A q \in Proc : ~Busy(q)
    BY <2>2, FirstToBegin
  <2>5. StateIsExact(s) /\ s /= Idle
    BY <2>3, IdleFacts, NothingIsIndexed DEF StateIsExact, Listed, Indexed
  <2> QED
    BY <2>2, <2>4, <2>5, SoloMove
<1>3. ASSUME NEW file \in File, RebuildRead(p, file)
      PROVE  SoloInv'
  <2>1. PICK entries : entries = IF Indexable(cells[file])
                                 THEN [op[p].draft EXCEPT ![file] = cells[file]] ELSE op[p].draft
    OBVIOUS
  <2>2. PICK s : s = [op[p] EXCEPT !.todo = op[p].todo \ {file}, !.draft = entries]
    OBVIOUS
  <2>3. /\ op[p].at = "scan" /\ file \in op[p].todo /\ Continue(p, s) /\ Solo
        /\ cells' = cells /\ manifest' = manifest /\ answer' = answer
    BY <1>3, <2>1, <2>2 DEF RebuildRead, history, Solo
  <2>4. s.kind = op[p].kind /\ s.at = "scan" /\ s.todo = op[p].todo \ {file} /\ s.draft = entries
    BY <1>1, <2>2, <2>3 DEF Operation
  <2>5. /\ op[p].kind /= "get"
        /\ \A f \in File : IF f \in op[p].todo THEN op[p].draft[f] = Absent
                           ELSE Indexed(op[p].draft, f)
    BY <2>3 DEF SoloInv, Solo, StateIsExact
  <2>6. \A f \in File \ {file} : entries[f] = op[p].draft[f]
    BY <1>1, <2>1
  <2>7. Indexed(entries, file)
    BY <1>1, <2>1, <2>3, <2>5 DEF Indexed, Indexable
  <2>8. \A f \in File : IF f \in s.todo THEN entries[f] = Absent ELSE Indexed(entries, f)
    BY <2>4, <2>5, <2>6, <2>7 DEF Indexed
  <2>9. StateIsExact(s) /\ s /= Idle
    BY <2>4, <2>5, <2>8, IdleFacts DEF StateIsExact
  <2> QED
    BY <2>3, <2>9, TheOnlyOne, SoloMove
<1>4. CASE RebuildDrafted(p)
  <2>1. PICK s : s = [op[p] EXCEPT !.at = "manifest"]
    OBVIOUS
  <2>2. /\ op[p].at = "scan" /\ op[p].todo = {} /\ Continue(p, s) /\ Solo
        /\ cells' = cells /\ manifest' = manifest /\ answer' = answer
    BY <1>4, <2>1 DEF RebuildDrafted, history, Solo
  <2>3. s.kind = op[p].kind /\ s.at = "manifest" /\ s.draft = op[p].draft
    BY <1>1, <2>1 DEF Operation
  <2>4. op[p].kind /= "get" /\ \A f \in File : Indexed(op[p].draft, f)
    BY <2>2 DEF SoloInv, Solo, StateIsExact
  <2>5. StateIsExact(s) /\ s /= Idle
    BY <2>3, <2>4, IdleFacts DEF StateIsExact
  <2> QED
    BY <2>2, <2>5, TheOnlyOne, SoloMove
<1> QED
  BY <1>2, <1>3, <1>4

\* prune: as long as nothing was removed the manifest is exact, and then it is rebuilt.
LEMMA SoloPrune ==
  ASSUME IInv, SoloInv, Solo', NEW p \in Proc,
         \/ StartPrune(p)
         \/ \E file \in File : PruneCell(p, file)
         \/ PruneDone(p)
  PROVE  SoloInv'
<1>1. /\ op[p] \in Operation /\ cells \in [File -> Content] /\ op[p].removed \in BOOLEAN
  BY DEF IInv, TypeOK, Operation
<1>2. CASE StartPrune(p)
  <2>1. PICK s : s = [Idle EXCEPT !.kind = "prune", !.at = "unlink",
                                  !.todo = {file \in Listed : MonthOf(file) < Cutoff}]
    OBVIOUS
  <2>2. /\ Begin(p) /\ Continue(p, s) /\ cells' = cells /\ manifest' = manifest
        /\ answer' = answer /\ failed' = failed
    BY <1>2, <2>1 DEF StartPrune
  <2>3. s.kind = "prune" /\ s.at = "unlink" /\ s.draft = NoManifest
    BY <2>1 DEF Idle
  <2>4. Solo /\ AllIndexed(manifest) /\ \A q \in Proc : ~Busy(q)
    BY <2>2, FirstToBegin
  <2>5. StateIsExact(s) /\ s /= Idle
    BY <2>3, <2>4, IdleFacts DEF StateIsExact, AllIndexed
  <2> QED
    BY <2>2, <2>4, <2>5, SoloMove
<1>3. ASSUME NEW file \in File, PruneCell(p, file)
      PROVE  SoloInv'
  <2>1. PICK s : s = [op[p] EXCEPT !.todo = op[p].todo \ {file},
                                   !.removed = op[p].removed \/ cells[file] /= Absent]
    OBVIOUS
  <2>2. /\ op[p].at = "unlink" /\ Continue(p, s) /\ Solo
        /\ cells' = [cells EXCEPT ![file] = Absent] /\ manifest' = manifest /\ answer' = answer
    BY <1>3, <2>1 DEF PruneCell, history, Solo
  <2>3. /\ s.kind = op[p].kind /\ s.at = "unlink" /\ s.draft = op[p].draft
        /\ s.removed = (op[p].removed \/ cells[file] /= Absent)
    BY <1>1, <2>1, <2>2 DEF Operation
  <2>4. /\ op[p].kind /= "get" /\ op[p].draft = NoManifest
        /\ ~op[p].removed => \A f \in File : Indexed(manifest, f)
    BY <2>2 DEF SoloInv, Solo, StateIsExact
  <2>5. ~s.removed => \A f \in File : Indexed(manifest, f)'
    BY <1>1, <2>2, <2>3, <2>4 DEF Indexed
  <2>6. StateIsExact(s)' /\ s /= Idle
    BY <2>3, <2>4, <2>5, IdleFacts DEF StateIsExact
  <2>7. (\A q \in Proc \ {p} : ~Busy(q)) /\ answer'.status /= "integrity_mismatch"
    BY <2>2, TheOnlyOne DEF SoloInv, Solo, SequentialUseIsExact
  <2>8. StateIsExact(Idle)'
    BY IdleFacts DEF StateIsExact
  <2> QED
    BY <2>2, <2>6, <2>7, <2>8, SoloStep
<1>4. CASE PruneDone(p)
  <2>1. /\ op[p].at = "unlink" /\ cells' = cells /\ manifest' = manifest /\ answer' = answer
        /\ Solo
    BY <1>4 DEF PruneDone, history, Solo
  <2>2. /\ op[p].kind /= "get" /\ op[p].draft = NoManifest
        /\ ~op[p].removed => AllIndexed(manifest)
    BY <2>1 DEF SoloInv, Solo, StateIsExact, AllIndexed
  <2>3. CASE op[p].removed
    <3>1. PICK s : s = [op[p] EXCEPT !.at = "scan", !.todo = Listed]
      OBVIOUS
    <3>2. Continue(p, s)
      BY <1>4, <2>3, <3>1 DEF PruneDone
    <3>3. s.kind = op[p].kind /\ s.at = "scan" /\ s.todo = Listed /\ s.draft = NoManifest
      BY <1>1, <2>2, <3>1 DEF Operation
    <3>4. StateIsExact(s) /\ s /= Idle
      BY <2>2, <3>3, IdleFacts, NothingIsIndexed DEF StateIsExact, Listed, Indexed
    <3> QED
      BY <2>1, <3>2, <3>4, TheOnlyOne, SoloMove
  <2>4. CASE ~op[p].removed
    <3>1. Continue(p, Idle)
      BY <1>4, <2>4 DEF PruneDone, Finish
    <3> QED
      BY <2>1, <2>2, <2>4, <3>1, TheOnlyOne, NothingIsIndexed, SoloMove
  <2> QED
    BY <2>3, <2>4
<1> QED
  BY <1>2, <1>3, <1>4

\* The empty store's manifest is exact.
LEMMA InitSoloInv == Init => SoloInv
<1> SUFFICES ASSUME Init PROVE SoloInv
  OBVIOUS
<1>1. \A p \in Proc : op[p] = Idle
  BY DEF Init
<1>2. \A file \in File : Indexed(manifest, file)
  <2> SUFFICES ASSUME NEW file \in File PROVE Indexed(manifest, file)
    OBVIOUS
  <2>1. cells[file].kind /= "record"
    BY CacheAssumption DEF Init, Other
  <2>2. manifest[file] = Absent
    BY NothingIsIndexed DEF Init
  <2> QED
    BY <2>1, <2>2 DEF Indexed
<1>3. answer.status /= "integrity_mismatch"
  BY DEF Init
<1> QED
  BY <1>1, <1>2, <1>3, NothingIsIndexed DEF SoloInv, SequentialUseIsExact, Busy

\* While one process works alone and nothing fails, the manifest stays exact.
LEMMA NextSoloInv == IInv /\ SoloInv /\ [Next]_vars => SoloInv'
<1> SUFFICES ASSUME IInv, SoloInv, [Next]_vars, Solo' PROVE SoloInv'
  BY DEF SoloInv, Solo
<1>1. CASE UNCHANGED vars
  BY <1>1 DEF vars, SoloInv, SequentialUseIsExact, Busy, StateIsExact, Indexed
<1>2. CASE Next
  <2>1. PICK p \in Proc :
           \/ \E key \in Key : StartGet(p, key) \/ StartSet(p, key)
           \/ FinishGet(p) \/ CommitCell(p) \/ DraftManifest(p)
           \/ \/ StartRebuild(p)
              \/ \E file \in File : RebuildRead(p, file) \/ SkipFile(p, file)
              \/ RebuildDrafted(p)
           \/ \/ StartPrune(p)
              \/ \E file \in File : PruneCell(p, file)
              \/ PruneDone(p)
           \/ \/ \E key \in Key : GetFails(p, key)
              \/ CommitManifest(p)
              \/ WriteFails(p)
              \/ \E owner \in Proc : Sweep(p, owner)
              \/ Crash(p)
    BY <1>2, NextCases
  <2>2. CASE \/ \E key \in Key : GetFails(p, key)
             \/ WriteFails(p)
             \/ \E owner \in Proc : Sweep(p, owner)
             \/ Crash(p)
             \/ \E file \in File : SkipFile(p, file)
    BY <2>2 DEF GetFails, WriteFails, Sweep, Crash, SkipFile, Solo
  <2> QED
    BY <2>1, <2>2, SoloGet, SoloSet, SoloRebuild, SoloPrune
<1> QED
  BY <1>1, <1>2

\* Whatever the cache held and however many processes may use it: as long as they take
\* turns and nothing fails, the manifest is the exact index of the readable cells
\* whenever no operation runs, and no sound cell is taken for a corrupted one.
THEOREM SequentialUseIsAlwaysExact == Spec => []SequentialUseIsExact
<1>1. SoloInv => SequentialUseIsExact
  BY DEF SoloInv, SequentialUseIsExact
<1> QED
  BY <1>1, InitIInv, NextIInv, InitSoloInv, NextSoloInv, PTL DEF Spec
=============================================================================
