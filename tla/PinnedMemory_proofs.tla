------------------------ MODULE PinnedMemory_proofs -------------------------
(***************************************************************************)
(* The pinned memory is out of the dream job's reach: whatever requests    *)
(* and passes overlap, and wherever they stop, an agent's stored global    *)
(* memory stays recent, unmarked and readable.  The theorem is for data    *)
(* roots on which no scan --repair runs.                                   *)
(*                                                                         *)
(* The code checks pinned in three WHERE clauses and one filter, yet       *)
(* Compress, Reheat and HardDelete check nothing: they trust the mem_id    *)
(* they are given and the row they read before.  So the invariant follows  *)
(* the mem_id from the filter to the file that is overwritten or removed:  *)
(* loops hold projects only, a cold-tier operation works on a project and  *)
(* on a row whose path is that project's own, and no path of a project is  *)
(* the path of the global archive.                                         *)
(***************************************************************************)
EXTENDS MyWholeLife_proofs

ColdLabels ==
  {"c_read", "c_put", "c_verify", "c_drop", "c_commit", "c_index", "c_line", "c_source",
   "r_read", "r_put", "r_verify", "r_drop", "r_commit", "r_index", "r_line", "r_source",
   "h_index", "h_line", "h_blob", "h_row"}
ScanLabels == {"s_walk", "s_index", "s_orphans", "s_torn", "s_tar"}

GlobalPath == PushPath(Global)
HomePaths(table) == \A m \in DOMAIN table : table[m].rel[1] = m
PinnedRow(table, files) ==
  Global \in DOMAIN table =>
    /\ table[Global].state = "recent"
    /\ table[Global].del = Null
    /\ table[Global].rel = GlobalPath
    /\ GlobalPath \in DOMAIN files
PinnedFile(files) == GlobalPath \in DOMAIN files => IsTar(files[GlobalPath])
PinnedLocal(l, files) ==
  /\ l.todo \in Seq(Projects) /\ l.doomed \in Seq(Projects)
  /\ l.pc \notin ScanLabels
  /\ l.pc \in ColdLabels => l.mem # Global /\ l.row.rel[1] = l.mem
  /\ l.pc = "p_row" /\ l.mem = Global => GlobalPath \in DOMAIN files
PinnedInv ==
  /\ TypeOK
  /\ HomePaths(rows)
  /\ PinnedRow(rows, blobs)
  /\ PinnedFile(blobs)
  /\ \A p \in Procs : PinnedLocal(loc[p], blobs)

\* The inductive invariant gives the property.
LEMMA PinnedInvSafe == PinnedInv => PinnedSafe
BY DEF PinnedInv, PinnedSafe, PinnedRow, PinnedFile, Exists

(***************************************************************************)
(* The table: what each statement does to the global row.                  *)
(***************************************************************************)
\* A statement about a project leaves the global row, and every row at home.
LEMMA ProjectUpdate ==
  ASSUME NEW t, HomePaths(t), NEW files, PinnedRow(t, files),
         NEW m, NEW where, NEW r, m # Global, r.rel[1] = m
  PROVE  HomePaths(UpdateRow(t, m, where, r)) /\ PinnedRow(UpdateRow(t, m, where, r), files)
BY DEF HomePaths, PinnedRow, UpdateRow

\* The statements of the cold tier, given a project.
LEMMA ProjectRows ==
  ASSUME NEW t, RowsOK(t), HomePaths(t), NEW files, PinnedRow(t, files),
         NEW m \in Mems, m # Global, NEW path, path[1] = m, NEW now
  PROVE  /\ HomePaths(ArchiveRow(t, m, path)) /\ PinnedRow(ArchiveRow(t, m, path), files)
         /\ HomePaths(ReheatRow(t, m, path, now)) /\ PinnedRow(ReheatRow(t, m, path, now), files)
         /\ HomePaths(Without(t, m)) /\ PinnedRow(Without(t, m), files)
<1>1. HomePaths(ArchiveRow(t, m, path)) /\ PinnedRow(ArchiveRow(t, m, path), files)
  BY DEF HomePaths, PinnedRow, UpdateRow, ArchiveRow, RowsOK, Rows
<1>2. HomePaths(ReheatRow(t, m, path, now)) /\ PinnedRow(ReheatRow(t, m, path, now), files)
  BY DEF HomePaths, PinnedRow, UpdateRow, ReheatRow
<1>3. HomePaths(Without(t, m)) /\ PinnedRow(Without(t, m), files)
  BY DEF HomePaths, PinnedRow, Without
<1> QED BY <1>1, <1>2, <1>3

\* The statements that may be given any mem_id.
LEMMA AnyRows ==
  ASSUME NEW t, RowsOK(t), HomePaths(t), NEW files, PinnedRow(t, files),
         NEW m \in Mems, NEW now
  PROVE  /\ HomePaths(TouchRow(t, m, now)) /\ PinnedRow(TouchRow(t, m, now), files)
         /\ HomePaths(ForgetRow(t, m)) /\ PinnedRow(ForgetRow(t, m), files)
         /\ HomePaths(SoftDeleteRow(t, m, now)) /\ PinnedRow(SoftDeleteRow(t, m, now), files)
         /\ HomePaths(PutRow(t, m, now))
         /\ (m = Global => GlobalPath \in DOMAIN files) => PinnedRow(PutRow(t, m, now), files)
<1> USE DEF HomePaths, PinnedRow, RowsOK, Rows
<1>1. HomePaths(TouchRow(t, m, now)) /\ PinnedRow(TouchRow(t, m, now), files)
  BY DEF UpdateRow, TouchRow
<1>2. HomePaths(ForgetRow(t, m)) /\ PinnedRow(ForgetRow(t, m), files)
  BY DEF UpdateRow, ForgetRow, Exempt
<1>3. HomePaths(SoftDeleteRow(t, m, now)) /\ PinnedRow(SoftDeleteRow(t, m, now), files)
  BY DEF UpdateRow, SoftDeleteRow, Exempt
<1>4. HomePaths(PutRow(t, m, now))
  BY PushPathType DEF PutRow, With
<1>5. (m = Global => GlobalPath \in DOMAIN files) => PinnedRow(PutRow(t, m, now), files)
  BY DEF PutRow, With, GlobalPath
<1> QED BY <1>1, <1>2, <1>3, <1>4, <1>5

(***************************************************************************)
(* The files: a path of a project is not the path of the global archive.   *)
(***************************************************************************)
LEMMA OtherFile ==
  ASSUME NEW files, PinnedFile(files), NEW path, path[1] # Global, NEW body
  PROVE  /\ PinnedFile(With(files, path, body)) /\ PinnedFile(Without(files, path))
         /\ GlobalPath \in DOMAIN files =>
              /\ GlobalPath \in DOMAIN With(files, path, body)
              /\ GlobalPath \in DOMAIN Without(files, path)
<1>1. path # GlobalPath
  BY BlankTypes, PushPathType DEF GlobalPath
<1> QED BY <1>1 DEF PinnedFile, With, Without

\* The file, and the files next to it, that a cold-tier operation works on.
LEMMA ColdPaths ==
  ASSUME PinnedInv, NEW p \in Procs, loc[p].pc \in ColdLabels
  PROVE  /\ loc[p].mem # Global
         /\ loc[p].row.rel[1] = loc[p].mem
         /\ ZstPath(loc[p].row.rel)[1] = loc[p].mem
         /\ TarPath(loc[p].row.rel)[1] = loc[p].mem
BY TypedParts, PathTypes DEF PinnedInv, PinnedLocal

(***************************************************************************)
(* Steps.  What one process does is seen in its own locals and the store.  *)
(***************************************************************************)
LEMMA PinnedStep ==
  ASSUME PinnedInv, TypeOK', NEW p \in Procs, NEW l, loc' = [loc EXCEPT ![p] = l],
         PinnedLocal(l, blobs'), HomePaths(rows'), PinnedRow(rows', blobs'), PinnedFile(blobs'),
         GlobalPath \in DOMAIN blobs => GlobalPath \in DOMAIN blobs'
  PROVE  PinnedInv'
<1>1. ASSUME NEW q \in Procs
      PROVE  PinnedLocal(loc[q], blobs)'
  <2>1. PinnedLocal(loc'[q], blobs')
    BY DEF PinnedInv, TypeOK, PinnedLocal
  <2> QED BY <2>1 DEF PinnedLocal
<1> QED BY <1>1 DEF PinnedInv, HomePaths, PinnedRow, PinnedFile

\* The store as it was.
LEMMA PinnedQuietStep ==
  ASSUME PinnedInv, TypeOK', NEW p \in Procs, NEW l, loc' = [loc EXCEPT ![p] = l],
         PinnedLocal(l, blobs), UNCHANGED <<rows, blobs>>
  PROVE  PinnedInv'
BY PinnedStep DEF PinnedInv

\* Locals that stay within what a process already has in hand.
LEMMA SameHand ==
  ASSUME NEW l, NEW k, NEW files, PinnedLocal(l, files),
         k.todo = l.todo, k.doomed = l.doomed, k.pc \notin ScanLabels, k.pc # "p_row",
         k.pc \in ColdLabels => l.pc \in ColdLabels /\ k.mem = l.mem /\ k.row = l.row
  PROVE  \A other : PinnedLocal(k, other)
BY DEF PinnedLocal

\* An idle process has nothing in hand.
LEMMA PinnedIdle == \A files : PinnedLocal(Idle, files)
BY BlankTypes DEF PinnedLocal, ScanLabels, ColdLabels

\* A process moves on with the memory it has in hand, or without one.
MayMove(p, label) ==
  /\ label \notin ScanLabels /\ label # "p_row"
  /\ label \in ColdLabels => loc[p].pc \in ColdLabels

\* Going to another label.
LEMMA MovesOn ==
  ASSUME PinnedInv, NEW p \in Procs, NEW label, MayMove(p, label)
  PROVE  \A files : PinnedLocal([loc[p] EXCEPT !.pc = label], files)
<1>1. DOMAIN loc[p] = Fields /\ PinnedLocal(loc[p], blobs)
  BY TypedParts DEF PinnedInv, LocalOK
<1> QED BY <1>1, SameHand DEF Fields, MayMove

\* Reading a body into the buffer.
LEMMA BufferMoves ==
  ASSUME PinnedInv, NEW p \in Procs, NEW label, MayMove(p, label), NEW b
  PROVE  \A files : PinnedLocal([loc[p] EXCEPT !.buf = b, !.pc = label], files)
<1>1. DOMAIN loc[p] = Fields /\ PinnedLocal(loc[p], blobs)
  BY TypedParts DEF PinnedInv, LocalOK
<1> QED BY <1>1, SameHand DEF Fields, MayMove

\* Returning from a store function.
LEMMA ReturnMoves ==
  ASSUME PinnedInv, NEW p \in Procs, NEW label, MayMove(p, label), label \notin ColdLabels
  PROVE  \A files : PinnedLocal([loc[p] EXCEPT !.pc = label, !.row = BlankRow, !.buf = Garbage,
                                               !.idx = NoFile], files)
<1>1. DOMAIN loc[p] = Fields /\ PinnedLocal(loc[p], blobs)
  BY TypedParts DEF PinnedInv, LocalOK
<1> QED BY <1>1, SameHand DEF Fields, MayMove

\* Steps that neither write a file nor a row.
LEMMA GotoPinned ==
  ASSUME PinnedInv, TypeOK', NEW p \in Procs, NEW label, MayMove(p, label), Goto(p, label),
         UNCHANGED <<rows, blobs>>
  PROVE  PinnedInv'
BY MovesOn, PinnedQuietStep DEF Goto

\* Ending an operation, or stopping it.
LEMMA FinishPinned ==
  ASSUME PinnedInv, TypeOK', NEW p \in Procs, Finish(p), UNCHANGED <<rows, blobs>>
  PROVE  PinnedInv'
BY PinnedIdle, PinnedQuietStep DEF Finish

\* Reading the index.
LEMMA ReadIndexPinned ==
  ASSUME PinnedInv, TypeOK', NEW p \in Procs, NEW label, MayMove(p, label), ReadIndex(p, label),
         UNCHANGED <<rows, blobs>>
  PROVE  PinnedInv'
<1>1. DOMAIN loc[p] = Fields /\ PinnedLocal(loc[p], blobs)
  BY TypedParts DEF PinnedInv, LocalOK
<1>2. PinnedLocal([loc[p] EXCEPT !.idx = index, !.pc = label], blobs)
  BY <1>1, SameHand DEF Fields, MayMove
<1> QED BY <1>2, PinnedQuietStep DEF ReadIndex

\* Reading a body.
LEMMA BufferPinned ==
  ASSUME PinnedInv, TypeOK', NEW p \in Procs, NEW label, MayMove(p, label), NEW b,
         loc' = [loc EXCEPT ![p].buf = b, ![p].pc = label], UNCHANGED <<rows, blobs>>
  PROVE  PinnedInv'
<1>1. PinnedLocal([loc[p] EXCEPT !.buf = b, !.pc = label], blobs)
  BY BufferMoves
<1> QED BY <1>1, PinnedQuietStep

\* A verified write next to the row of a project, and the removal of its file.
LEMMA PinnedWrite ==
  ASSUME PinnedInv, TypeOK', NEW p \in Procs, NEW path, path[1] # Global,
         NEW body, StoreBody(path, body) \/ Remove(path),
         NEW l, loc' = [loc EXCEPT ![p] = l], \A files : PinnedLocal(l, files),
         UNCHANGED rows
  PROVE  PinnedInv'
<1>1. PICK b : blobs' = With(blobs, path, b) \/ blobs' = Without(blobs, path)
  BY DEF StoreBody, Remove
<1>2. PinnedFile(blobs') /\ (GlobalPath \in DOMAIN blobs => GlobalPath \in DOMAIN blobs')
  BY <1>1, OtherFile DEF PinnedInv
<1>3. HomePaths(rows') /\ PinnedRow(rows', blobs')
  BY <1>2 DEF PinnedInv, PinnedRow
<1> QED BY <1>2, <1>3, PinnedStep

(***************************************************************************)
(* The cold tier.                                                          *)
(***************************************************************************)
LEMMA CompressPinned ==
  ASSUME PinnedInv, TypeOK', NEW p \in Procs, Compress(p)
  PROVE  PinnedInv'
<1> DEFINE l == loc[p]
<1>m. \A from, to \in ColdLabels \union {"age"} :
        At(p, from) /\ from # "age" => l.pc \in ColdLabels /\ MayMove(p, to)
  BY DEF At, MayMove, ColdLabels, ScanLabels
<1>c. {"c_read", "c_put", "c_verify", "c_drop", "c_commit", "c_index", "c_line", "c_source"}
        \subseteq ColdLabels /\ "age" \notin ColdLabels
  BY DEF ColdLabels
<1>1. CASE CompressRead(p)
  <2>1. CASE Exists(l.row.rel)
    BY <1>1, <1>m, <1>c, <2>1, BufferPinned DEF CompressRead, store
  <2>2. CASE ~Exists(l.row.rel)
    BY <1>1, <2>2, FinishPinned DEF CompressRead, store
  <2> QED BY <2>1, <2>2
<1>2. CASE CompressPut(p)
  BY <1>2, <1>m, <1>c, ColdPaths, MovesOn, PinnedWrite DEF CompressPut, Goto
<1>3. CASE CompressVerify(p)
  BY <1>3, <1>m, <1>c, GotoPinned DEF CompressVerify, store
<1>4. CASE CompressDrop(p)
  BY <1>4, <1>m, <1>c, ColdPaths, PinnedIdle, PinnedWrite DEF CompressDrop, Finish
<1>5. CASE CompressCommit(p)
  <2>1. l.pc \in ColdLabels /\ l.mem \in Mems /\ RowsOK(rows)
    BY <1>5, <1>m, <1>c, TypedParts DEF CompressCommit, PinnedInv
  <2>2. HomePaths(rows') /\ PinnedRow(rows', blobs')
    BY <1>5, <2>1, ColdPaths, ProjectRows DEF CompressCommit, PinnedInv
  <2> QED BY <1>5, <1>m, <1>c, <2>2, MovesOn, PinnedStep DEF CompressCommit, Goto, PinnedInv
<1>6. CASE CompressIndex(p)
  BY <1>6, <1>m, <1>c, ReadIndexPinned DEF CompressIndex, store
<1>7. CASE CompressLine(p)
  BY <1>7, <1>m, <1>c, GotoPinned DEF CompressLine
<1>8. CASE CompressSource(p)
  <2>1. \A files : PinnedLocal([l EXCEPT !.pc = "age", !.row = BlankRow, !.buf = Garbage,
                                         !.idx = NoFile], files)
    BY <1>8, <1>m, <1>c, ReturnMoves DEF CompressSource
  <2> QED BY <1>8, <1>m, <1>c, <2>1, ColdPaths, PinnedWrite DEF CompressSource, Return
<1> QED BY <1>1, <1>2, <1>3, <1>4, <1>5, <1>6, <1>7, <1>8 DEF Compress

\* Reheat works on a project, or only touches the row.
LEMMA ReheatPinned ==
  ASSUME PinnedInv, TypeOK', NEW p \in Procs, Reheat(p)
  PROVE  PinnedInv'
<1> DEFINE l == loc[p]
           back == [l EXCEPT !.pc = "m_get", !.row = BlankRow, !.buf = Garbage, !.idx = NoFile]
<1>m. \A from, to \in ColdLabels \union {"m_get"} :
        At(p, from) /\ from # "m_get" => l.pc \in ColdLabels /\ MayMove(p, to)
  BY DEF At, MayMove, ColdLabels, ScanLabels
<1>c. {"r_read", "r_put", "r_verify", "r_drop", "r_commit", "r_index", "r_line", "r_source"}
        \subseteq ColdLabels /\ "m_get" \notin ColdLabels
  BY DEF ColdLabels
<1>r. \A files : PinnedLocal(back, files)
  BY <1>c, ReturnMoves DEF MayMove, ScanLabels
<1> HIDE DEF back
<1>1. CASE ReheatTouch(p)
  <2>1. HomePaths(rows') /\ PinnedRow(rows', blobs')
    BY <1>1, AnyRows, TypedParts DEF ReheatTouch, PinnedInv
  <2>2. loc' = [loc EXCEPT ![p] = back] \/ loc' = [loc EXCEPT ![p] = Idle]
    BY <1>1 DEF ReheatTouch, Return, Finish, back
  <2> QED BY <1>1, <1>r, <2>1, <2>2, PinnedIdle, PinnedStep DEF ReheatTouch, PinnedInv
<1>2. CASE ReheatRead(p)
  <2>1. CASE Exists(l.row.rel) /\ Decompresses(blobs[l.row.rel])
    BY <1>2, <1>m, <1>c, <2>1, BufferPinned DEF ReheatRead, store
  <2>2. CASE ~(Exists(l.row.rel) /\ Decompresses(blobs[l.row.rel]))
    BY <1>2, <2>2, FinishPinned DEF ReheatRead, store
  <2> QED BY <2>1, <2>2
<1>3. CASE ReheatPut(p)
  BY <1>3, <1>m, <1>c, ColdPaths, MovesOn, PinnedWrite DEF ReheatPut, Goto
<1>4. CASE ReheatVerify(p)
  BY <1>4, <1>m, <1>c, GotoPinned DEF ReheatVerify, store
<1>5. CASE ReheatDrop(p)
  BY <1>5, <1>m, <1>c, ColdPaths, PinnedIdle, PinnedWrite DEF ReheatDrop, Finish
<1>6. CASE ReheatCommit(p)
  <2>1. l.pc \in ColdLabels /\ l.mem \in Mems /\ RowsOK(rows)
    BY <1>6, <1>m, <1>c, TypedParts DEF ReheatCommit, PinnedInv
  <2>2. HomePaths(rows') /\ PinnedRow(rows', blobs')
    BY <1>6, <2>1, ColdPaths, ProjectRows DEF ReheatCommit, PinnedInv
  <2> QED BY <1>6, <1>m, <1>c, <2>2, MovesOn, PinnedStep DEF ReheatCommit, Goto, PinnedInv
<1>7. CASE ReheatIndex(p)
  BY <1>7, <1>m, <1>c, ReadIndexPinned DEF ReheatIndex, store
<1>8. CASE ReheatLine(p)
  BY <1>8, <1>m, <1>c, GotoPinned DEF ReheatLine
<1>9. CASE ReheatSource(p)
  BY <1>9, <1>m, <1>c, <1>r, ColdPaths, PinnedWrite DEF ReheatSource, Return, back
<1> QED BY <1>1, <1>2, <1>3, <1>4, <1>5, <1>6, <1>7, <1>8, <1>9 DEF Reheat

\* HardDelete works on a project.
LEMMA HardDeletePinned ==
  ASSUME PinnedInv, TypeOK', NEW p \in Procs, HardDelete(p)
  PROVE  PinnedInv'
<1> DEFINE l == loc[p]
           back == [l EXCEPT !.pc = "doom", !.row = BlankRow, !.buf = Garbage, !.idx = NoFile]
<1>m. \A from, to \in ColdLabels : At(p, from) => l.pc \in ColdLabels /\ MayMove(p, to)
  BY DEF At, MayMove, ColdLabels, ScanLabels
<1>c. {"h_index", "h_line", "h_blob", "h_row"} \subseteq ColdLabels /\ "doom" \notin ColdLabels
  BY DEF ColdLabels
<1>1. CASE DestroyIndex(p)
  BY <1>1, <1>m, <1>c, ReadIndexPinned DEF DestroyIndex, store
<1>2. CASE DestroyLine(p)
  BY <1>2, <1>m, <1>c, GotoPinned DEF DestroyLine
<1>3. CASE DestroyBlob(p)
  BY <1>3, <1>m, <1>c, ColdPaths, MovesOn, PinnedWrite DEF DestroyBlob, Goto
<1>4. CASE DestroyRow(p)
  <2>1. l.pc \in ColdLabels /\ l.mem \in Mems /\ RowsOK(rows)
    BY <1>4, <1>m, <1>c, TypedParts DEF DestroyRow, PinnedInv
  <2>2. HomePaths(rows') /\ PinnedRow(rows', blobs')
    BY <1>4, <2>1, ColdPaths, ProjectRows DEF DestroyRow, PinnedInv
  <2>3. \A files : PinnedLocal(back, files)
    BY <1>c, ReturnMoves DEF MayMove, ScanLabels
  <2>4. loc' = [loc EXCEPT ![p] = back]
    BY <1>4 DEF DestroyRow, Return
  <2> HIDE DEF back
  <2> QED BY <1>4, <2>2, <2>3, <2>4, PinnedStep DEF DestroyRow, PinnedInv
<1> QED BY <1>1, <1>2, <1>3, <1>4 DEF HardDelete

(***************************************************************************)
(* Requests.                                                               *)
(***************************************************************************)
LEMMA PushPinned ==
  ASSUME PinnedInv, TypeOK', NEW p \in Procs, NEW m \in Mems, PushBlob(p, m) \/ PushRow(p)
  PROVE  PinnedInv'
<1>1. CASE PushBlob(p, m)
  <2> DEFINE new == [Idle EXCEPT !.op = PushOp(m), !.pc = "p_row", !.mem = m,
                                 !.buf = Tarball(pushed')]
  <2>1. IsTar(Tarball(pushed'))
    BY <1>1, TypedParts DEF PushBlob, PinnedInv, HistoryOK, IsTar, Tarball
  <2>2. blobs' = With(blobs, PushPath(m), Tarball(pushed')) /\ UNCHANGED rows
    BY <1>1 DEF PushBlob
  <2>3. PinnedFile(blobs') /\ (GlobalPath \in DOMAIN blobs => GlobalPath \in DOMAIN blobs')
    BY <2>1, <2>2 DEF PinnedInv, PinnedFile, With
  <2>4. HomePaths(rows') /\ PinnedRow(rows', blobs')
    BY <2>2, <2>3 DEF PinnedInv, PinnedRow
  <2>5. PinnedLocal(new, blobs')
    <3>1. m = Global => GlobalPath \in DOMAIN blobs'
      BY <2>2 DEF With, GlobalPath
    <3> QED BY <3>1, BlankTypes DEF PinnedLocal, ColdLabels, ScanLabels
  <2>6. loc' = [loc EXCEPT ![p] = new]
    BY <1>1 DEF PushBlob, Become
  <2> HIDE DEF new
  <2> QED BY <2>3, <2>4, <2>5, <2>6, PinnedStep
<1>2. CASE PushRow(p)
  <2>1. loc[p].mem = Global => GlobalPath \in DOMAIN blobs
    BY <1>2 DEF PushRow, At, PinnedInv, PinnedLocal
  <2>2. HomePaths(rows') /\ PinnedRow(rows', blobs')
    BY <1>2, <2>1, AnyRows, TypedParts DEF PushRow, PinnedInv
  <2> QED BY <1>2, <2>2, PinnedIdle, PinnedStep DEF PushRow, Finish, PinnedInv
<1> QED BY <1>1, <1>2

\* A remind of the global memory finds it recent and only touches it.
LEMMA RemindPinned ==
  ASSUME PinnedInv, TypeOK', NEW p \in Procs, NEW m \in Mems, RemindStart(p, m) \/ Remind(p)
  PROVE  PinnedInv'
<1> DEFINE l == loc[p]
<1>m. \A to \in {"m_get", "m_read", "m_reply"} : MayMove(p, to) /\ to \notin ColdLabels
  BY DEF MayMove, ColdLabels, ScanLabels
<1>1. CASE RemindStart(p, m)
  <2> DEFINE label == IF rows[m].state = "recent" THEN "r_touch" ELSE "r_read"
             new == [Idle EXCEPT !.op = "remind", !.mem = m, !.row = rows[m], !.pc = label]
  <2>1. m \in DOMAIN rows
    BY <1>1 DEF RemindStart
  <2>2. label \in ColdLabels => m # Global /\ rows[m].rel[1] = m
    BY <2>1 DEF PinnedInv, PinnedRow, HomePaths, ColdLabels
  <2>3. label \notin ScanLabels /\ label # "p_row"
    BY DEF ScanLabels
  <2> HIDE DEF label
  <2>4. PinnedLocal(new, blobs)
    BY <2>2, <2>3, BlankTypes DEF PinnedLocal
  <2>5. loc' = [loc EXCEPT ![p] = new] /\ UNCHANGED <<rows, blobs>>
    BY <1>1 DEF RemindStart, Become, label, store
  <2> HIDE DEF new
  <2> QED BY <2>4, <2>5, PinnedQuietStep
<1>2. CASE Reheat(p)
  BY <1>2, ReheatPinned
<1>3. CASE RemindGet(p)
  <2>1. CASE l.mem \in DOMAIN rows
    <3>1. DOMAIN l = Fields /\ PinnedLocal(l, blobs)
      BY TypedParts DEF PinnedInv, LocalOK
    <3>2. PinnedLocal([l EXCEPT !.row = rows[l.mem], !.pc = "m_read"], blobs)
      BY <1>m, <3>1, SameHand DEF Fields, MayMove
    <3> QED BY <1>3, <2>1, <3>2, PinnedQuietStep DEF RemindGet, store
  <2>2. CASE l.mem \notin DOMAIN rows
    BY <1>3, <2>2, FinishPinned DEF RemindGet, store
  <2> QED BY <2>1, <2>2
<1>4. CASE RemindRead(p)
  <2>1. CASE Exists(l.row.rel)
    BY <1>4, <1>m, <2>1, BufferPinned DEF RemindRead, store
  <2>2. CASE ~Exists(l.row.rel)
    BY <1>4, <2>2, FinishPinned DEF RemindRead, store
  <2> QED BY <2>1, <2>2
<1>5. CASE RemindReply(p)
  BY <1>5, FinishPinned DEF RemindReply, store
<1> QED BY <1>1, <1>2, <1>3, <1>4, <1>5 DEF Remind

\* The lists of loops hold projects only.
LEMMA ProjectSeq ==
  ASSUME NEW t, RowsOK(t), NEW S \in SUBSET (DOMAIN t \ {Global}), NEW s \in ByRecency(t, S)
  PROVE  s \in Seq(Projects)
<1>1. s \in Seq(S)
  BY ListedSeq
<1>2. S \subseteq Projects
  BY DEF RowsOK, Mems
<1> QED BY <1>1, <1>2

\* A loop's next memory and the rest of its list.
LEMMA NextProject ==
  ASSUME PinnedInv, NEW p \in Procs
  PROVE  /\ loc[p].todo # <<>> => /\ Head(loc[p].todo) \in Projects
                                  /\ Tail(loc[p].todo) \in Seq(Projects)
         /\ loc[p].doomed # <<>> => /\ Head(loc[p].doomed) \in Projects
                                    /\ Tail(loc[p].doomed) \in Seq(Projects)
<1>1. loc[p].todo \in Seq(Projects) /\ loc[p].doomed \in Seq(Projects)
  BY DEF PinnedInv, PinnedLocal
<1> QED BY <1>1, HeadTailProperties

\* Locals with new lists and no memory in hand.
LEMMA NewLists ==
  ASSUME NEW k, k.todo \in Seq(Projects), k.doomed \in Seq(Projects),
         k.pc \notin ScanLabels \union ColdLabels, k.pc # "p_row"
  PROVE  \A files : PinnedLocal(k, files)
BY DEF PinnedLocal

\* The init bundle lists projects and writes nothing.
LEMMA InitBundlePinned ==
  ASSUME PinnedInv, TypeOK', NEW p \in Procs, InitGlobal(p) \/ InitBundle(p)
  PROVE  PinnedInv'
<1> DEFINE l == loc[p]
<1>m. /\ {"i_index", "i_list", "i_body", "i_reply"} \intersect (ScanLabels \union ColdLabels) = {}
      /\ \A to \in {"i_list", "i_reply"} : MayMove(p, to)
  BY DEF MayMove, ColdLabels, ScanLabels
<1>t. DOMAIN l = Fields /\ l.todo \in Seq(Projects) /\ l.doomed \in Seq(Projects)
  BY TypedParts DEF PinnedInv, LocalOK, PinnedLocal
<1>1. CASE InitGlobal(p)
  <2>1. UNCHANGED <<store, clock, pushed, acked, badWrites>> /\ (GlobalRead(p) \/ GlobalFailed(p))
    BY <1>1, InitGlobalStep
  <2>2. \A label \in {"i_index", "i_reply"}, got \in SUBSET {Global} : PinnedLocal(InitLocal(label, got), blobs)
    <3>1. ASSUME NEW label \in {"i_index", "i_reply"}, NEW got
          PROVE  PinnedLocal(InitLocal(label, got), blobs)
      <4> DEFINE k == InitLocal(label, got)
      <4>1. k.todo = <<>> /\ k.doomed = <<>> /\ k.pc = label
        BY InitLocalFields DEF Idle
      <4> HIDE DEF k
      <4>2. k.todo \in Seq(Projects) /\ k.doomed \in Seq(Projects)
        BY <4>1
      <4>3. PinnedLocal(k, blobs)
        BY <1>m, <4>1, <4>2, NewLists
      <4> QED BY <4>3 DEF k
    <3> QED BY <3>1
  <2>3. \E l0 : PinnedLocal(l0, blobs) /\ loc' = [loc EXCEPT ![p] = l0]
    BY <2>1, <2>2 DEF GlobalRead, GlobalFailed, Become
  <2> QED BY <2>1, <2>3, PinnedQuietStep DEF store
<1>2. CASE InitIndex(p)
  BY <1>2, <1>m, ReadIndexPinned DEF InitIndex, store
<1>3. CASE InitList(p)
  <2>1. PICK s \in ByRecency(rows, InState(rows, "recent") \ {Global}) :
          Become(p, [l EXCEPT !.todo = s, !.list = rows, !.pc = "i_body"])
    BY <1>3 DEF InitList
  <2>2. s \in Seq(Projects)
    BY <2>1, TypedParts, ProjectSeq DEF InState, PinnedInv
  <2>3. PinnedLocal([l EXCEPT !.todo = s, !.list = rows, !.pc = "i_body"], blobs)
    BY <1>m, <1>t, <2>2, NewLists DEF Fields
  <2> QED BY <1>3, <2>1, <2>3, PinnedQuietStep DEF InitList, Become, store
<1>4. CASE InitBody(p)
  <2> DEFINE new(got) == [l EXCEPT !.todo = Tail(@), !.got = got]
  <2>1. Tail(l.todo) \in Seq(Projects) /\ l.pc = "i_body"
    BY <1>4, NextProject DEF InitBody, At
  <2>2. \A got : PinnedLocal(new(got), blobs)
    BY <1>m, <1>t, <2>1, NewLists DEF Fields
  <2>3. Goto(p, "i_reply") \/ \E got : Become(p, new(got))
    BY <1>4 DEF InitBody
  <2> HIDE DEF new
  <2> QED BY <1>4, <1>m, <2>2, <2>3, GotoPinned, PinnedQuietStep DEF InitBody, Become, store
<1>5. CASE InitDone(p) \/ InitFail(p)
  BY <1>5, <1>m, GotoPinned DEF InitDone, InitFail, store
<1>6. CASE InitReply(p)
  BY <1>6, FinishPinned DEF InitReply, store
<1> QED BY <1>1, <1>2, <1>3, <1>4, <1>5, <1>6 DEF InitBundle

(***************************************************************************)
(* The pass.                                                               *)
(***************************************************************************)
LEMMA AgeScanPinned ==
  ASSUME PinnedInv, TypeOK', NEW p \in Procs,
         StartPass(p) \/ AgeList(p) \/ AgeNext(p) \/ AgeDone(p)
  PROVE  PinnedInv'
<1> DEFINE l == loc[p]
<1>m. /\ {"age_list", "age", "forget_list"} \intersect (ScanLabels \union ColdLabels) = {}
      /\ MayMove(p, "forget_list") /\ "c_read" \notin ScanLabels
  BY DEF MayMove, ColdLabels, ScanLabels
<1>t. DOMAIN l = Fields /\ l.todo \in Seq(Projects) /\ l.doomed \in Seq(Projects)
  BY TypedParts DEF PinnedInv, LocalOK, PinnedLocal
<1>1. CASE StartPass(p)
  <2> DEFINE new == [Idle EXCEPT !.op = "pass", !.pc = "age_list", !.now = clock]
  <2>1. new.todo \in Seq(Projects) /\ new.doomed \in Seq(Projects) /\ new.pc = "age_list"
    BY BlankTypes
  <2>2. Become(p, new)
    BY <1>1 DEF StartPass
  <2> HIDE DEF new
  <2>3. PinnedLocal(new, blobs)
    BY <1>m, <2>1, NewLists
  <2> QED BY <1>1, <2>2, <2>3, PinnedQuietStep DEF StartPass, Become, store
<1>2. CASE AgeList(p)
  <2>1. PICK s \in ByRecency(rows, Aged(rows, l.now)) :
          Become(p, [l EXCEPT !.todo = s, !.pc = "age"])
    BY <1>2 DEF AgeList
  <2>2. s \in Seq(Projects)
    BY <2>1, TypedParts, ProjectSeq DEF Aged, Exempt, InState, PinnedInv
  <2>3. PinnedLocal([l EXCEPT !.todo = s, !.pc = "age"], blobs)
    BY <1>m, <1>t, <2>2, NewLists DEF Fields
  <2> QED BY <1>2, <2>1, <2>3, PinnedQuietStep DEF AgeList, Become, store
<1>3. CASE AgeNext(p)
  <2> DEFINE m == Head(l.todo)
             new == [l EXCEPT !.mem = m, !.row = rows[m], !.todo = Tail(@), !.pc = "c_read"]
  <2>1. CASE m \in DOMAIN rows
    <3>1. m # Global /\ Tail(l.todo) \in Seq(Projects)
      BY <1>3, NextProject, MemAssumption DEF AgeNext
    <3>2. rows[m].rel[1] = m
      BY <2>1 DEF PinnedInv, HomePaths
    <3>3. PinnedLocal(new, blobs)
      BY <1>m, <1>t, <3>1, <3>2 DEF PinnedLocal, Fields
    <3>4. Become(p, new)
      BY <1>3, <2>1 DEF AgeNext
    <3> HIDE DEF new
    <3> QED BY <1>3, <3>3, <3>4, PinnedQuietStep DEF AgeNext, Become, store
  <2>2. CASE m \notin DOMAIN rows
    BY <1>3, <2>2, FinishPinned DEF AgeNext, store
  <2> QED BY <2>1, <2>2
<1>4. CASE AgeDone(p)
  BY <1>4, <1>m, GotoPinned DEF AgeDone, store
<1> QED BY <1>1, <1>2, <1>3, <1>4

\* The forget scan lists projects and hard-deletes projects.
LEMMA ForgetScanPinned ==
  ASSUME PinnedInv, TypeOK', NEW p \in Procs, ForgetScan(p)
  PROVE  PinnedInv'
<1> DEFINE l == loc[p]
<1>m. /\ {"forget", "mark", "doom"} \intersect (ScanLabels \union ColdLabels) = {}
      /\ \A to \in {"tomb_list", "doom", "gate"} : MayMove(p, to)
      /\ "h_index" \notin ScanLabels
  BY DEF MayMove, ColdLabels, ScanLabels
<1>t. DOMAIN l = Fields /\ l.todo \in Seq(Projects) /\ l.doomed \in Seq(Projects)
  BY TypedParts DEF PinnedInv, LocalOK, PinnedLocal
<1>p. Projects \subseteq Mems
  BY DEF Mems
<1>1. CASE ForgetList(p)
  <2>1. PICK s \in ByRecency(rows, Forgettable(rows, l.now)) :
          Become(p, [l EXCEPT !.todo = s, !.pc = "forget"])
    BY <1>1 DEF ForgetList
  <2>2. s \in Seq(Projects)
    BY <2>1, TypedParts, ProjectSeq DEF Forgettable, Exempt, InState, PinnedInv
  <2>3. PinnedLocal([l EXCEPT !.todo = s, !.pc = "forget"], blobs)
    BY <1>m, <1>t, <2>2, NewLists DEF Fields
  <2> QED BY <1>1, <2>1, <2>3, PinnedQuietStep DEF ForgetList, Become, store
<1>2. CASE Forget(p)
  <2> DEFINE m == Head(l.todo)
             new == [l EXCEPT !.todo = Tail(@)]
  <2>1. m \in Mems /\ Tail(l.todo) \in Seq(Projects) /\ l.pc = "forget"
    BY <1>2, <1>p, NextProject DEF Forget, At
  <2>2. HomePaths(rows') /\ PinnedRow(rows', blobs')
    BY <1>2, <2>1, AnyRows, TypedParts DEF Forget, PinnedInv
  <2>3. PinnedLocal(new, blobs)
    BY <1>m, <1>t, <2>1, NewLists DEF Fields
  <2>4. loc' = [loc EXCEPT ![p] = new] \/ loc' = [loc EXCEPT ![p] = Idle]
    BY <1>2 DEF Forget, Finish
  <2> HIDE DEF new
  <2> QED BY <1>2, <2>2, <2>3, <2>4, PinnedIdle, PinnedStep DEF Forget, PinnedInv
<1>3. CASE ForgetDone(p)
  BY <1>3, <1>m, GotoPinned DEF ForgetDone, store
<1>4. CASE TombList(p)
  <2>1. PICK s \in ByRecency(rows, Unmarked(rows, l.now)), d \in ByMemId(Doomed(rows, l.now)) :
          Become(p, [l EXCEPT !.todo = s, !.doomed = Capped(d), !.pc = "mark"])
    BY <1>4 DEF TombList
  <2>2. s \in Seq(Projects)
    BY <2>1, TypedParts, ProjectSeq DEF Unmarked, Exempt, InState, PinnedInv
  <2>3. Capped(d) \in Seq(Projects)
    <3> DEFINE S == Doomed(rows, l.now)
    <3>1. S \in SUBSET Mems /\ S \subseteq Projects
      BY TypedParts DEF Doomed, Exempt, InState, RowsOK, PinnedInv, Mems
    <3>2. IsFiniteSet(S)
      BY <3>1, MemAssumption, FS_Subset
    <3>3. Capped(d) \in Seq(S)
      BY <2>1, <3>1, <3>2, CappedType
    <3> HIDE DEF S
    <3> QED BY <3>1, <3>3
  <2>4. PinnedLocal([l EXCEPT !.todo = s, !.doomed = Capped(d), !.pc = "mark"], blobs)
    BY <1>m, <1>t, <2>2, <2>3, NewLists DEF Fields
  <2> QED BY <1>4, <2>1, <2>4, PinnedQuietStep DEF TombList, Become, store
<1>5. CASE SoftDelete(p)
  <2> DEFINE m == Head(l.todo)
             new == [l EXCEPT !.todo = Tail(@)]
  <2>1. m \in Mems /\ Tail(l.todo) \in Seq(Projects) /\ l.pc = "mark"
    BY <1>5, <1>p, NextProject DEF SoftDelete, At
  <2>2. HomePaths(rows') /\ PinnedRow(rows', blobs')
    BY <1>5, <2>1, AnyRows, TypedParts DEF SoftDelete, PinnedInv
  <2>3. PinnedLocal(new, blobs)
    BY <1>m, <1>t, <2>1, NewLists DEF Fields
  <2>4. loc' = [loc EXCEPT ![p] = new]
    BY <1>5 DEF SoftDelete
  <2> HIDE DEF new
  <2> QED BY <1>5, <2>2, <2>3, <2>4, PinnedStep DEF SoftDelete, PinnedInv
<1>6. CASE MarkDone(p)
  BY <1>6, <1>m, GotoPinned DEF MarkDone, store
<1>7. CASE DoomNext(p)
  <2> DEFINE m == Head(l.doomed)
             take == [l EXCEPT !.mem = m, !.row = rows[m], !.doomed = Tail(@), !.pc = "h_index"]
             skip == [l EXCEPT !.doomed = Tail(@)]
  <2>1. m # Global /\ Tail(l.doomed) \in Seq(Projects) /\ l.pc = "doom"
    BY <1>7, NextProject, MemAssumption DEF DoomNext, At
  <2>2. PinnedLocal(skip, blobs)
    BY <1>m, <1>t, <2>1, NewLists DEF Fields
  <2>3. m \in DOMAIN rows => PinnedLocal(take, blobs)
    <3>1. m \in DOMAIN rows => rows[m].rel[1] = m
      BY DEF PinnedInv, HomePaths
    <3> QED BY <1>m, <1>t, <2>1, <3>1 DEF PinnedLocal, Fields
  <2>4. (m \in DOMAIN rows /\ Become(p, take)) \/ Become(p, skip)
    BY <1>7 DEF DoomNext
  <2> HIDE DEF take, skip
  <2> QED BY <1>7, <2>2, <2>3, <2>4, PinnedQuietStep DEF DoomNext, Become, store
<1>8. CASE HardDelete(p)
  BY <1>8, HardDeletePinned
<1>9. CASE DoomDone(p)
  BY <1>9, <1>m, GotoPinned DEF DoomDone, store
<1> QED BY <1>1, <1>2, <1>3, <1>4, <1>5, <1>6, <1>7, <1>8, <1>9 DEF ForgetScan

\* A pass preserves the invariant.
LEMMA PassPinned ==
  ASSUME PinnedInv, TypeOK', NEW p \in Procs, Pass(p)
  PROVE  PinnedInv'
<1>m. \A to \in {"g_validate", "g_write"} : MayMove(p, to)
  BY DEF MayMove, ColdLabels, ScanLabels
<1>1. CASE AgeList(p) \/ AgeNext(p) \/ AgeDone(p)
  BY <1>1, AgeScanPinned
<1>2. CASE Compress(p)
  BY <1>2, CompressPinned
<1>3. CASE ForgetScan(p)
  BY <1>3, ForgetScanPinned
<1>4. CASE GateRead(p)
  BY <1>m, <1>4, ReadIndexPinned DEF GateRead, store
<1>5. CASE GateValidate(p)
  BY <1>m, <1>5, GotoPinned, FinishPinned DEF GateValidate, store
<1>6. CASE GateWrite(p)
  BY <1>6, FinishPinned DEF GateWrite
<1> QED BY <1>1, <1>2, <1>3, <1>4, <1>5, <1>6 DEF Pass

(***************************************************************************)
(* No scan starts, so none goes on; the rest is the induction.             *)
(***************************************************************************)
LEMMA NoScan ==
  ASSUME "scan" \notin Workload, PinnedInv, NEW p \in Procs
  PROVE  ~ScanList(p) /\ ~Scan(p)
<1>1. ~ScanList(p)
  BY DEF ScanList, MayStart
<1>2. loc[p].pc \notin ScanLabels
  BY DEF PinnedInv, PinnedLocal
<1>3. ~Scan(p)
  BY <1>2 DEF ScanLabels, Scan, ScanWalk, ScanIndex, RepairOrphan, RepairPairs, RepairTorn,
              RepairTar, ScanDone, At
<1> QED BY <1>1, <1>3

\* The empty data root satisfies the invariant.
LEMMA InitPinned == Init => PinnedInv
<1> SUFFICES ASSUME Init PROVE PinnedInv
  OBVIOUS
<1>1. HomePaths(rows) /\ PinnedRow(rows, blobs) /\ PinnedFile(blobs)
  BY DEF Init, HomePaths, PinnedRow, PinnedFile
<1>2. \A p \in Procs : PinnedLocal(loc[p], blobs)
  BY PinnedIdle DEF Init
<1> QED BY <1>1, <1>2, InitTypes DEF PinnedInv

\* Without scans, every step preserves the invariant.
LEMMA NextPinned ==
  ASSUME "scan" \notin Workload
  PROVE  PinnedInv /\ [Next]_vars => PinnedInv'
<1> SUFFICES ASSUME PinnedInv, [Next]_vars PROVE PinnedInv'
  OBVIOUS
<1> USE DEF Procs
<1>t. TypeOK'
  BY NextTypes DEF PinnedInv
<1>0. ASSUME UNCHANGED <<rows, blobs, loc>>
      PROVE  PinnedInv'
  BY <1>t, <1>0 DEF PinnedInv, HomePaths, PinnedRow, PinnedFile, PinnedLocal
<1>1. CASE Tick
  BY <1>0, <1>1 DEF Tick, store
<1>2. ASSUME NEW p \in Handlers, StartRequest(p)
      PROVE  PinnedInv'
  BY <1>t, <1>2, PushPinned, RemindPinned, InitBundlePinned DEF StartRequest
<1>3. ASSUME NEW p \in Dreams, StartDream(p)
      PROVE  PinnedInv'
  BY <1>t, <1>3, AgeScanPinned, NoScan DEF StartDream
<1>4. ASSUME NEW p \in Handlers, ContinueRequest(p)
      PROVE  PinnedInv'
  BY <1>t, <1>4, BlankTypes, PushPinned, RemindPinned, InitBundlePinned DEF ContinueRequest
<1>5. ASSUME NEW p \in Dreams, ContinueDream(p)
      PROVE  PinnedInv'
  BY <1>t, <1>5, PassPinned, NoScan DEF ContinueDream
<1>6. ASSUME NEW p \in Procs, Stop(p)
      PROVE  PinnedInv'
  BY <1>t, <1>6, FinishPinned DEF Stop, store
<1>7. CASE UNCHANGED vars
  BY <1>0, <1>7 DEF vars
<1> QED BY <1>1, <1>2, <1>3, <1>4, <1>5, <1>6, <1>7 DEF Next, Start, Continue

\* On a data root where no scan runs, with any number of concurrent requests and passes
\* stopped anywhere, the stored global memory stays recent, unmarked and readable.
THEOREM PinnedNeverAges ==
  ASSUME "scan" \notin Workload
  PROVE  Spec => []PinnedSafe
BY InitPinned, NextPinned, PinnedInvSafe, PTL DEF Spec
=============================================================================
