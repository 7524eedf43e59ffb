------------------------------ MODULE StoreOps ------------------------------
(***************************************************************************)
(* The data of the memory store and the pure functions over it: the rows   *)
(* of the memories table, the files under the data root, the lines of      *)
(* long-term-memory.md, and what one SQL statement or one helper of        *)
(* store/sqlite.go computes from them.  One agent; its memories are its    *)
(* projects (mem_id = project name) and its one pinned global memory.      *)
(*                                                                         *)
(* Abstractions.  A mem_id is its rank in string order, so that the order  *)
(* hardDelete sorts by is <.  The pinned and scope columns are the same    *)
(* for every row of a mem_id (writeMemory sets both from the scope), so    *)
(* they are read off the mem_id.  agent_id, brief and created_at have no   *)
(* effect on the lifecycle.  A missing table row or file is one outside    *)
(* the DOMAIN.                                                             *)
(***************************************************************************)
EXTENDS PartialMaps, Integers, Sequences, FiniteSets

CONSTANTS
  Projects,      \* mem_ids of scope "project"
  Global,        \* the mem_id "global-<agent id>", pinned
  T1, T2, T3,    \* aging thresholds: archive, forget, soft-delete
  Grace,         \* time between soft delete and hard delete
  MaxDeletions   \* DREAM_MAX_DELETIONS, hard deletes in one pass

ASSUME MemAssumption ==
  /\ Projects \subseteq Nat
  /\ IsFiniteSet(Projects)
  /\ Global \in Nat \ Projects

ASSUME ConfigAssumption ==
  /\ {T1, T2, T3, Grace} \subseteq Nat
  /\ MaxDeletions \in Nat

Mems == Projects \union {Global}
Exempt(m) == m = Global

States == {"recent", "long_term", "tombstone"}

Null == -1                 \* SQL NULL in deleted_at

(***************************************************************************)
(* Files.  A path is the mem_id and the file name's suffixes, so "x.tar"   *)
(* is <<x, <<"tar">>>> and "x.tar.zst" is <<x, <<"tar", "zst">>>>.  A body *)
(* is the pushed version it carries and how many times it is compressed.   *)
(***************************************************************************)
TarSuffix == <<"tar">>
ZstSuffix == <<"tar", "zst">>
Suffixes == Seq({"tar", "zst"})
Paths == Mems \X Suffixes

TrimSuffix(s, suffix) ==
  IF /\ Len(suffix) <= Len(s)
     /\ SubSeq(s, Len(s) - Len(suffix) + 1, Len(s)) = suffix
  THEN SubSeq(s, 1, Len(s) - Len(suffix))
  ELSE s

PushPath(m)  == <<m, TarSuffix>>
ZstPath(rel) == <<rel[1], TrimSuffix(rel[2], TarSuffix) \o ZstSuffix>>
TarPath(rel) == <<rel[1], TrimSuffix(rel[2], ZstSuffix) \o TarSuffix>>

Bodies == [ver : Nat, zip : Nat]
Tarball(v) == [ver |-> v, zip |-> 0]
Garbage == [ver |-> 0, zip |-> 0]        \* bytes that are no pushed version
Compressed(b) == [b EXCEPT !.zip = @ + 1]
Decompressed(b) == [b EXCEPT !.zip = @ - 1]
Decompresses(b) == b.zip > 0
IsTar(b) == b.zip = 0 /\ b.ver > 0

(***************************************************************************)
(* The statements that write the memories table.                           *)
(***************************************************************************)
Rows == [state : States, rel : Paths, at : Nat, del : Nat \union {Null}]

\* Put: an upsert that leaves deleted_at as it was.
PutRow(rows, m, t) ==
  With(rows, m,
       [state |-> "recent", rel |-> PushPath(m), at |-> t,
        del |-> IF m \in DOMAIN rows THEN rows[m].del ELSE Null])

\* An UPDATE whose WHERE clause holds of no row changes nothing.
UpdateRow(rows, m, where, new) ==
  IF m \in DOMAIN rows /\ where THEN [rows EXCEPT ![m] = new] ELSE rows

TouchRow(rows, m, t) ==
  UpdateRow(rows, m, TRUE, [rows[m] EXCEPT !.at = t])

ArchiveRow(rows, m, zst) ==
  UpdateRow(rows, m, TRUE, [rows[m] EXCEPT !.state = "long_term", !.rel = zst])

ReheatRow(rows, m, tar, t) ==
  UpdateRow(rows, m, TRUE,
            [state |-> "recent", rel |-> tar, at |-> t, del |-> Null])

ForgetRow(rows, m) ==
  UpdateRow(rows, m, ~Exempt(m), [rows[m] EXCEPT !.state = "tombstone"])

\* Mutant of Markable: any unmarked row.
Markable_AnyState(row) == row.del = Null
Markable(row) == row.state = "tombstone" /\ row.del = Null

\* Mutant of SoftDeleteRow: stamps the end of the grace window.
SoftDeleteRow_Deadline(rows, m, when) ==
  UpdateRow(rows, m, Markable(rows[m]) /\ ~Exempt(m), [rows[m] EXCEPT !.del = when + Grace + 1])
SoftDeleteRow(rows, m, when) ==
  UpdateRow(rows, m, Markable(rows[m]) /\ ~Exempt(m), [rows[m] EXCEPT !.del = when])

Destroyable(row) == row.state = "tombstone" /\ row.del # Null

(***************************************************************************)
(* List: the rows of a state, newest access first; ties in any order.      *)
(***************************************************************************)
InState(rows, state) == {m \in DOMAIN rows : rows[m].state = state}

ByRecency(rows, S) ==
  {s \in [1..Cardinality(S) -> S] :
     \A i, j \in DOMAIN s : i < j => s[i] # s[j] /\ rows[s[i]].at >= rows[s[j]].at}

\* sort.Slice by memId: one sequence, for mem_ids are distinct.
ByMemId(S) ==
  {s \in [1..Cardinality(S) -> S] : \A i, j \in DOMAIN s : i < j => s[i] < s[j]}

(***************************************************************************)
(* The selections of the dream pass, from the rows it listed and its Now.  *)
(***************************************************************************)
\* Mutants: Aged without the exemption, Forgettable a tick early.
Aged_Pinned(rows, now) ==
  {m \in InState(rows, "recent") : now - rows[m].at > T1}
Forgettable_Early(rows, now) ==
  {m \in InState(rows, "long_term") : ~Exempt(m) /\ now - rows[m].at >= T2}
Aged(rows, now) ==
  {m \in InState(rows, "recent") : ~Exempt(m) /\ now - rows[m].at > T1}
Forgettable(rows, now) ==
  {m \in InState(rows, "long_term") : ~Exempt(m) /\ now - rows[m].at > T2}
Unmarked(rows, now) ==
  {m \in InState(rows, "tombstone") :
     ~Exempt(m) /\ rows[m].del = Null /\ now - rows[m].at > T3}
GraceElapsed(row, now) == row.del # Null /\ now - row.del > Grace
\* Mutant of Doomed: whatever is marked.
Doomed_Marked(rows, now) ==
  {m \in InState(rows, "tombstone") : ~Exempt(m) /\ rows[m].del # Null}
Doomed(rows, now) ==
  {m \in InState(rows, "tombstone") : ~Exempt(m) /\ GraceElapsed(rows[m], now)}
\* Mutant of Capped: an off-by-one at the cap.
Capped_Below(s) == SubSeq(s, 1, IF Len(s) < MaxDeletions THEN Len(s) ELSE MaxDeletions - 1)
Capped(s) == SubSeq(s, 1, IF Len(s) < MaxDeletions THEN Len(s) ELSE MaxDeletions)

(***************************************************************************)
(* The index: the mem_ids that have a line, or NoFile.                     *)
(***************************************************************************)
NoFile == {Null}
Indexes == (SUBSET Mems) \union {NoFile}
Lines(index) == index \intersect Mems
\* Mutant of WithLine: writes the new line alone.
WithLine_Alone(index, m) == {m}
WithLine(index, m) == Lines(index) \union {m}
WithoutLine(index, m) == index \ {m}

Archived(rows) == InState(rows, "long_term") \union InState(rows, "tombstone")
ValidIndex(rows, index) ==
  /\ Archived(rows) \subseteq Lines(index)
  /\ Lines(index) \subseteq Archived(rows)

(***************************************************************************)
(* The findings of the consistency scan.                                   *)
(***************************************************************************)
RowPaths(rows) == {rows[m].rel : m \in DOMAIN rows}
Finding(kind, path) == [kind |-> kind, path |-> path]

DanglingRows(rows, files) ==
  {Finding("dangling_row", path) : path \in RowPaths(rows) \ files}

\* Suffixes under which a walked file is an archive; its base and its kind.
IsZst(path) == TrimSuffix(path[2], ZstSuffix) # path[2]
IsTarFile(path) == ~IsZst(path) /\ TrimSuffix(path[2], TarSuffix) # path[2]
\* Mutant of OrphanBlobs: looks for .tar files only.
OrphanBlobs_TarOnly(rows, files) ==
  {Finding("orphan_blob", path) : path \in {f \in files \ RowPaths(rows) : IsTarFile(f)}}
OrphanBlobs(rows, files) ==
  {Finding("orphan_blob", path) : path \in {f \in files \ RowPaths(rows) : IsZst(f) \/ IsTarFile(f)}}
\* A torn pair is named here by its .tar; the code names it by the common base.
TornPairs(files) ==
  {Finding("torn_compress", path) : path \in {f \in files : IsTarFile(f) /\ ZstPath(f) \in files}}
=============================================================================
