-------------------------- MODULE BillingCacheStore --------------------------
(***************************************************************************)
(* The file-backed billing cache, shared by several processes: one file    *)
(* per cell, and a manifest that indexes the cells with a checksum of      *)
(* each. Files are replaced by writing a temporary file and renaming it,   *)
(* so a single file is never seen half-written; but a cell and its         *)
(* manifest entry are written, and read, one after the other.              *)
(*                                                                         *)
(* A step runs from one file operation of a process to its next. A         *)
(* process performs one store operation at a time, may crash inside it,    *)
(* and every file operation may fail.                                      *)
(***************************************************************************)
EXTENDS Naturals, FiniteSets

CONSTANTS
  Proc,         \* processes with the cache open
  Month,        \* calendar months, in order
  Digest,       \* digests of request parameters
  Junk,         \* what else a file may hold: nothing this store would write
  Cutoff,       \* prune removes the months before this one
  MaxWrites     \* bound: how many records are written in all

ASSUME CacheAssumption ==
  /\ Month \subseteq Nat
  /\ Month /= {} /\ Digest /= {}
  /\ Junk \subseteq {"not_json", "old_schema", "invalid", "foreign"}
  /\ Cutoff \in Nat
  /\ MaxWrites \in Nat

VARIABLES
  cells,        \* content of each cell file
  manifest,     \* the content whose checksum each manifest entry records
  temps,        \* processes whose write has its temporary file on disk
  op,           \* the operation each process is in, and where
  answer,       \* what the last get to finish, of any process, returned
  serial,       \* records written so far: two records never share content
  overlapped,   \* history: two operations were in progress at once
  failed        \* history: a file operation failed or a process crashed

history == <<overlapped, failed>>

vars == <<cells, manifest, temps, op, answer, serial, overlapped, failed>>

-----------------------------------------------------------------------------
(* Keys, files and contents. *)

\* Cost view, currency mode and subscription are folded into the digest here.
Key == [month : Month, digest : Digest]

\* Mutant: a file name without the month.
FileOf_DropsMonth(key) == <<Cutoff, key.digest>>

FileOf(key) == <<key.month, key.digest>>

File == {FileOf(key) : key \in Key}

MonthOf(file) == file[1]

NoKey == CHOOSE key \in Key : TRUE

\* A file is absent, or holds a record, or something that is not a valid
\* record of this endpoint.
Other(kind) == [kind |-> kind, key |-> NoKey, serial |-> 0]

Absent == Other("absent")

Record(key, n) == [kind |-> "record", key |-> key, serial |-> n]

Records == {Record(key, n) : key \in Key, n \in 1..MaxWrites}

Content == Records \union {Other(kind) : kind \in Junk \union {"absent"}}

\* Everything get decides before it looks at the manifest.
StatusBeforeManifest(content) ==
  CASE content.kind = "absent" -> "miss"
    [] content.kind \in {"not_json", "invalid"} -> "corrupt"
    [] content.kind = "old_schema" -> "schema_mismatch"
    [] content.kind = "foreign" -> "identity_mismatch"
    [] OTHER -> "readable"

\* The manifest vouches for a content, or does not list the file at all.
StatusAgainst(entry, content) ==
  IF entry /= Absent /\ entry /= content THEN "integrity_mismatch" ELSE "hit"

\* A rebuild indexes whatever parses and validates, of any endpoint.
Indexable(content) == content.kind \in {"record", "foreign"}

NoManifest == [file \in File |-> Absent]

\* readManifest: an unreadable manifest is taken for an empty one.
ReadManifest(result) ==
  \/ result = manifest /\ UNCHANGED failed
  \/ result = NoManifest /\ failed' = TRUE

-----------------------------------------------------------------------------
(* Operations of a process. *)

Idle == [kind |-> "idle", at |-> "idle", key |-> NoKey, content |-> Absent,
         draft |-> NoManifest, todo |-> {}, removed |-> FALSE]

Busy(p) == op[p] /= Idle

AnyoneElse(p) == \E q \in Proc \ {p} : Busy(q)

\* Process p moves on inside its operation, or finishes it.
Continue(p, state) == op' = [op EXCEPT ![p] = state]

Finish(p) == Continue(p, Idle)

Begin(p) ==
  /\ ~Busy(p)
  /\ overlapped' = (overlapped \/ AnyoneElse(p))

Answer(status, key, content) ==
  answer' = [status |-> status, key |-> key, content |-> content]

Init ==
  /\ cells \in [File -> {Other(kind) : kind \in Junk \union {"absent"}}]
  /\ manifest = NoManifest
  /\ temps = {}
  /\ op = [p \in Proc |-> Idle]
  /\ answer = [status |-> "none", key |-> NoKey, content |-> Absent]
  /\ serial = 0
  /\ overlapped = FALSE
  /\ failed = FALSE

\* get: read the cell file; an absent or unreadable record is answered here.
StartGet(p, key) ==
  LET content == cells[FileOf(key)]
      status == StatusBeforeManifest(content)
  IN
  /\ Begin(p)
  /\ IF status = "readable"
     THEN /\ Continue(p, [Idle EXCEPT !.kind = "get", !.at = "checksum",
                                      !.key = key, !.content = content])
          /\ UNCHANGED answer
     ELSE /\ Answer(status, key, Absent)
          /\ UNCHANGED op
  /\ UNCHANGED <<cells, manifest, temps, serial, failed>>

\* A read error other than "not found" degrades to a miss.
GetFails(p, key) ==
  /\ Begin(p)
  /\ Answer("miss", key, Absent)
  /\ failed' = TRUE
  /\ UNCHANGED <<cells, manifest, temps, op, serial>>

\* Mutant: the cell is read again once the checksum of the first read matched.
FinishGet_Rereads(p) ==
  \E index \in {manifest, NoManifest} :
    LET key == op[p].key
        content == op[p].content
        status == StatusAgainst(index[FileOf(key)], content)
    IN
    /\ op[p].kind = "get"
    /\ ReadManifest(index)
    /\ Answer(status, key, IF status = "hit" THEN cells[FileOf(key)] ELSE Absent)
    /\ Finish(p)
    /\ UNCHANGED <<cells, manifest, temps, serial, overlapped>>

\* get: read the manifest and compare the checksum with what was read before.
FinishGet(p) ==
  \E index \in {manifest, NoManifest} :
    LET key == op[p].key
        content == op[p].content
        status == StatusAgainst(index[FileOf(key)], content)
    IN
    /\ op[p].kind = "get"
    /\ ReadManifest(index)
    /\ Answer(status, key, IF status = "hit" THEN content ELSE Absent)
    /\ Finish(p)
    /\ UNCHANGED <<cells, manifest, temps, serial, overlapped>>

\* set: write the temporary file of a new record.
StartSet(p, key) ==
  /\ Begin(p)
  /\ serial < MaxWrites
  /\ serial' = serial + 1
  /\ temps' = temps \union {p}
  /\ Continue(p, [Idle EXCEPT !.kind = "set", !.at = "cell", !.key = key,
                              !.content = Record(key, serial + 1)])
  /\ UNCHANGED <<cells, manifest, answer, failed>>

\* set: rename the temporary file over the cell.
CommitCell(p) ==
  /\ op[p].kind = "set" /\ op[p].at = "cell" /\ p \in temps
  /\ cells' = [cells EXCEPT ![FileOf(op[p].key)] = op[p].content]
  /\ temps' = temps \ {p}
  /\ Continue(p, [op[p] EXCEPT !.at = "index"])
  /\ UNCHANGED <<manifest, answer, serial, history>>

\* set: read the manifest, add the entry, and write the temporary file of the
\* new manifest.
DraftManifest(p) ==
  /\ op[p].kind = "set" /\ op[p].at = "index"
  /\ temps' = temps \union {p}
  /\ \E index \in {manifest, NoManifest} :
       /\ ReadManifest(index)
       /\ Continue(p, [op[p] EXCEPT
            !.at = "manifest",
            !.draft = [index EXCEPT ![FileOf(op[p].key)] = op[p].content]])
  /\ UNCHANGED <<cells, manifest, answer, serial, overlapped>>

\* set and rebuildManifest: rename the temporary manifest over the old one.
CommitManifest(p) ==
  /\ op[p].at = "manifest" /\ p \in temps
  /\ manifest' = op[p].draft
  /\ temps' = temps \ {p}
  /\ Finish(p)
  /\ UNCHANGED <<cells, answer, serial, history>>

\* A write or rename fails, for instance because the temporary file was swept:
\* the operation ends there, with a warning at most.
WriteFails(p) ==
  /\ op[p].at \in {"cell", "index", "manifest"}
  /\ temps' = temps \ {p}
  /\ Finish(p)
  /\ failed' = TRUE
  /\ UNCHANGED <<cells, manifest, answer, serial, overlapped>>

\* list: the cell files present, by name.
Listed == {file \in File : cells[file] /= Absent}

\* rebuildManifest: list the tree, then read every listed file.
StartRebuild(p) ==
  /\ Begin(p)
  /\ Continue(p, [Idle EXCEPT !.kind = "rebuild", !.at = "scan", !.todo = Listed])
  /\ UNCHANGED <<cells, manifest, temps, answer, serial, failed>>

RebuildRead(p, file) ==
  /\ op[p].at = "scan" /\ file \in op[p].todo
  /\ Continue(p, [op[p] EXCEPT
       !.todo = @ \ {file},
       !.draft = IF Indexable(cells[file])
                 THEN [@ EXCEPT ![file] = cells[file]] ELSE @])
  /\ UNCHANGED <<cells, manifest, temps, answer, serial, history>>

RebuildDrafted(p) ==
  /\ op[p].at = "scan" /\ op[p].todo = {}
  /\ temps' = temps \union {p}
  /\ Continue(p, [op[p] EXCEPT !.at = "manifest"])
  /\ UNCHANGED <<cells, manifest, answer, serial, history>>

\* A file that cannot be read, or unlinked, is skipped.
SkipFile(p, file) ==
  /\ op[p].at \in {"scan", "unlink"} /\ file \in op[p].todo
  /\ Continue(p, [op[p] EXCEPT !.todo = @ \ {file}])
  /\ failed' = TRUE
  /\ UNCHANGED <<cells, manifest, temps, answer, serial, overlapped>>

\* Mutant: prune removes the cutoff month too.
StartPrune_Inclusive(p) ==
  /\ Begin(p)
  /\ Continue(p, [Idle EXCEPT !.kind = "prune", !.at = "unlink",
                              !.todo = {file \in Listed : MonthOf(file) <= Cutoff}])
  /\ UNCHANGED <<cells, manifest, temps, answer, serial, failed>>

\* prune: list the tree, unlink the cells before the cutoff, and rebuild the
\* manifest if any was removed.
StartPrune(p) ==
  /\ Begin(p)
  /\ Continue(p, [Idle EXCEPT !.kind = "prune", !.at = "unlink",
                              !.todo = {file \in Listed : MonthOf(file) < Cutoff}])
  /\ UNCHANGED <<cells, manifest, temps, answer, serial, failed>>

PruneCell(p, file) ==
  /\ op[p].at = "unlink" /\ file \in op[p].todo
  /\ cells' = [cells EXCEPT ![file] = Absent]
  /\ Continue(p, [op[p] EXCEPT
       !.todo = @ \ {file},
       !.removed = @ \/ cells[file] /= Absent])
  /\ UNCHANGED <<manifest, temps, answer, serial, history>>

\* Mutant: prune leaves the manifest as it was.
PruneDone_NoRebuild(p) ==
  /\ op[p].at = "unlink" /\ op[p].todo = {}
  /\ Finish(p)
  /\ UNCHANGED <<cells, manifest, temps, answer, serial, history>>

PruneDone(p) ==
  /\ op[p].at = "unlink" /\ op[p].todo = {}
  /\ IF op[p].removed
     THEN Continue(p, [op[p] EXCEPT !.at = "scan", !.todo = Listed])
     ELSE Finish(p)
  /\ UNCHANGED <<cells, manifest, temps, answer, serial, history>>

\* sweepStaleTempFiles: unlinks any temporary file, its owner alive or not.
Sweep(p, owner) ==
  /\ ~Busy(p) /\ owner \in temps
  /\ temps' = temps \ {owner}
  /\ failed' = TRUE
  /\ UNCHANGED <<cells, manifest, op, answer, serial, overlapped>>

\* A process dies inside an operation; its temporary file becomes an orphan,
\* which nothing reads. The process that takes its place starts idle.
Crash(p) ==
  /\ Busy(p)
  /\ temps' = temps \ {p}
  /\ Finish(p)
  /\ failed' = TRUE
  /\ UNCHANGED <<cells, manifest, answer, serial, overlapped>>

Next ==
  \E p \in Proc :
    \/ \E key \in Key : StartGet(p, key) \/ GetFails(p, key) \/ StartSet(p, key)
    \/ FinishGet(p)
    \/ CommitCell(p)
    \/ DraftManifest(p)
    \/ CommitManifest(p)
    \/ WriteFails(p)
    \/ StartRebuild(p)
    \/ \E file \in File : RebuildRead(p, file) \/ PruneCell(p, file) \/ SkipFile(p, file)
    \/ RebuildDrafted(p)
    \/ StartPrune(p)
    \/ PruneDone(p)
    \/ \E owner \in Proc : Sweep(p, owner)
    \/ Crash(p)

Spec == Init /\ [][Next]_vars

-----------------------------------------------------------------------------
(* Properties. *)

Operation ==
  [kind : {"idle", "get", "set", "rebuild", "prune"},
   at : {"idle", "checksum", "cell", "index", "manifest", "scan", "unlink"},
   key : Key, content : Content, draft : [File -> Content],
   todo : SUBSET File, removed : BOOLEAN]

Reply ==
  [status : {"none", "hit", "miss", "corrupt", "schema_mismatch",
             "identity_mismatch", "integrity_mismatch"},
   key : Key, content : Content]

\* Types of the files, of the operations in progress and of the last answer.
\* digest_mismatch is not among the statuses: the store never answers it.
TypeOK ==
  /\ cells \in [File -> Content]
  /\ manifest \in [File -> Content]
  /\ temps \subseteq Proc
  /\ op \in [Proc -> Operation]
  /\ answer \in Reply
  /\ serial \in 0..MaxWrites
  /\ overlapped \in BOOLEAN
  /\ failed \in BOOLEAN

\* "never a wrong answer": whatever overlaps, fails or crashes, a hit is a
\* complete record that some set wrote for the very key that was asked.
NeverAWrongAnswer ==
  answer.status = "hit" =>
    /\ answer.content.kind = "record"
    /\ answer.content.key = answer.key
    /\ answer.content.serial \in 1..serial

\* The cells are the source of truth: a committed record leaves its file only
\* to a later record of the same key or to a prune of its month; no manifest
\* work, sweep, failure or crash loses or reverts one.
CellsAreDurable ==
  [][\A file \in File : cells[file].kind = "record" /\ cells'[file] /= cells[file] =>
       \/ cells'[file] = Absent /\ MonthOf(file) < Cutoff
       \/ /\ cells'[file].kind = "record"
          /\ cells'[file].key = cells[file].key]_cells

\* What a manifest says of a file is true, and no record is missing from it.
Indexed(index, file) ==
  /\ index[file] \in {cells[file], Absent}
  /\ cells[file].kind = "record" => index[file] = cells[file]

\* Used by one process at a time, without failures, the manifest is exactly
\* the index of the readable cells whenever no operation runs, and no sound
\* cell is taken for a corrupted one.
SequentialUseIsExact ==
  ~overlapped /\ ~failed =>
    /\ answer.status /= "integrity_mismatch"
    /\ (\A p \in Proc : ~Busy(p)) => \A file \in File : Indexed(manifest, file)

\* What the get in progress of each process has read from its cell.
PendingReads == [p \in Proc |-> IF op[p].kind = "get" THEN op[p].content ELSE Absent]

\* The store keeps the promise of CacheRegister.
Register == INSTANCE CacheRegister WITH
  Cell <- File,
  Value <- Content \ {Absent},
  Nothing <- Absent,
  held <- cells,
  seen <- PendingReads,
  returned <- answer.content

ImplementsRegister == Register!Spec

-----------------------------------------------------------------------------
(* The inductive invariant: records sit in the file of their own key, an     *)
(* operation carries a record of its own key, and prune unlinks only what    *)
(* is before the cutoff.                                                     *)

\* A record that one of the first n sets wrote, and for this key.
WrittenFor(content, key, n) ==
  /\ content.kind = "record"
  /\ content.key = key
  /\ content.serial \in 1..n

CellsHoldTheirOwn ==
  \A file \in File : cells[file].kind = "record" =>
    \E key \in Key : FileOf(key) = file /\ WrittenFor(cells[file], key, serial)

OperationsCarryTheirOwn ==
  \A p \in Proc : op[p].kind \in {"get", "set"} =>
    WrittenFor(op[p].content, op[p].key, serial)

PrunesOnlyTheOld ==
  \A p \in Proc : op[p].at = "unlink" =>
    \A file \in op[p].todo : MonthOf(file) < Cutoff

IInv ==
  /\ TypeOK
  /\ CellsHoldTheirOwn
  /\ OperationsCarryTheirOwn
  /\ PrunesOnlyTheOld
  /\ NeverAWrongAnswer

(* What makes SequentialUseIsExact inductive: how far the one operation in   *)
(* progress has brought the manifest, or its draft, after the cells.         *)

StateIsExact(state) ==
  /\ state.at \in {"checksum", "index"} => state.content = cells[FileOf(state.key)]
  /\ state.at \in {"checksum", "cell"} => \A file \in File : Indexed(manifest, file)
  /\ state.at = "index" => \A file \in File \ {FileOf(state.key)} : Indexed(manifest, file)
  /\ state.at = "manifest" => \A file \in File : Indexed(state.draft, file)
  /\ state.at = "scan" => \A file \in File :
       IF file \in state.todo THEN state.draft[file] = Absent ELSE Indexed(state.draft, file)
  /\ state.at = "unlink" =>
       /\ state.draft = NoManifest
       /\ ~state.removed => \A file \in File : Indexed(manifest, file)
  /\ state.kind = "get" => state.at = "checksum"

SoloInv ==
  ~overlapped /\ ~failed =>
    /\ \A p, q \in Proc : Busy(p) /\ Busy(q) => p = q
    /\ \A p \in Proc : StateIsExact(op[p])
    /\ SequentialUseIsExact
=============================================================================
