------------------------- MODULE MyWholeLife_proofs -------------------------
(***************************************************************************)
(* Type correctness of MyWholeLife for every number of memories, requests  *)
(* and dream processes and every choice of the bounds.                     *)
(***************************************************************************)
EXTENDS MyWholeLife, TLAPS, FiniteSetTheorems, SequenceTheorems

\* strings.TrimSuffix of a name is a name.
LEMMA TrimSuffixType ==
  ASSUME NEW s \in Suffixes, NEW suffix \in Suffixes
  PROVE  TrimSuffix(s, suffix) \in Suffixes
<1>1. CASE Len(suffix) <= Len(s)
  <2>1. Len(s) - Len(suffix) \in 0..Len(s)
    BY <1>1 DEF Suffixes
  <2>2. SubSeq(s, 1, Len(s) - Len(suffix)) \in Suffixes
    BY <2>1, SubSeqProperties DEF Suffixes
  <2> QED BY <2>2 DEF TrimSuffix
<1>2. CASE ~(Len(suffix) <= Len(s))
  BY <1>2 DEF TrimSuffix
<1> QED BY <1>1, <1>2

\* The paths Compress and Reheat derive from a path belong to the same memory.
LEMMA PathTypes ==
  ASSUME NEW path \in Paths
  PROVE  /\ path[1] \in Mems
         /\ ZstPath(path) \in Paths /\ ZstPath(path)[1] = path[1]
         /\ TarPath(path) \in Paths /\ TarPath(path)[1] = path[1]
<1>1. path[1] \in Mems /\ path[2] \in Suffixes
  BY DEF Paths
<1>2. TarSuffix \in Suffixes /\ ZstSuffix \in Suffixes
  BY DEF TarSuffix, ZstSuffix, Suffixes
<1>3. /\ TrimSuffix(path[2], TarSuffix) \o ZstSuffix \in Suffixes
      /\ TrimSuffix(path[2], ZstSuffix) \o TarSuffix \in Suffixes
  <2>1. /\ TrimSuffix(path[2], TarSuffix) \in Suffixes
        /\ TrimSuffix(path[2], ZstSuffix) \in Suffixes
    BY <1>1, <1>2, TrimSuffixType
  <2> QED BY <1>2, <2>1, ConcatProperties DEF Suffixes
<1> QED BY <1>1, <1>3 DEF ZstPath, TarPath, Paths

\* The path a push writes is a path of the pushed memory.
LEMMA PushPathType ==
  ASSUME NEW m \in Mems
  PROVE  PushPath(m) \in Paths /\ PushPath(m)[1] = m
<1>1. TarSuffix \in Suffixes
  BY DEF TarSuffix, Suffixes
<1> QED BY <1>1 DEF PushPath, Paths

(***************************************************************************)
(* The pure functions.                                                     *)
(***************************************************************************)
LEMMA BodyTypes ==
  ASSUME NEW b \in Bodies
  PROVE  /\ Garbage \in Bodies
         /\ Compressed(b) \in Bodies
         /\ Decompresses(b) => Decompressed(b) \in Bodies
         /\ \A v \in Nat : Tarball(v) \in Bodies
BY DEF Bodies, Garbage, Compressed, Decompressed, Decompresses, Tarball

\* Adding or replacing a row keeps the table well typed.
LEMMA WithRow ==
  ASSUME NEW t, NEW now, RowsOK(t), NotAhead(t, now),
         NEW m \in Mems, NEW r \in Rows, r.at <= now, r.del <= now
  PROVE  RowsOK(With(t, m, r)) /\ NotAhead(With(t, m, r), now)
BY DEF RowsOK, NotAhead, With

\* Deleting a row keeps the table well typed.
LEMMA WithoutRow ==
  ASSUME NEW t, NEW now, RowsOK(t), NotAhead(t, now), NEW m
  PROVE  RowsOK(Without(t, m)) /\ NotAhead(Without(t, m), now)
BY DEF RowsOK, NotAhead, Without

\* A conditional update keeps the table well typed when the new row is.
LEMMA UpdatedRow ==
  ASSUME NEW t, NEW now, RowsOK(t), NotAhead(t, now), NEW m, NEW where, NEW r,
         m \in DOMAIN t => r \in Rows /\ r.at <= now /\ r.del <= now
  PROVE  RowsOK(UpdateRow(t, m, where, r)) /\ NotAhead(UpdateRow(t, m, where, r), now)
BY DEF RowsOK, NotAhead, UpdateRow

\* Each SQL statement keeps the table well typed and dates no row in the future.
LEMMA RowTypes ==
  ASSUME NEW t, NEW now \in Nat, RowsOK(t), NotAhead(t, now),
         NEW m \in Mems, NEW path \in Paths, NEW when \in 0..now
  PROVE  /\ RowsOK(PutRow(t, m, now)) /\ NotAhead(PutRow(t, m, now), now)
         /\ RowsOK(TouchRow(t, m, now)) /\ NotAhead(TouchRow(t, m, now), now)
         /\ RowsOK(ArchiveRow(t, m, path)) /\ NotAhead(ArchiveRow(t, m, path), now)
         /\ RowsOK(ReheatRow(t, m, path, now)) /\ NotAhead(ReheatRow(t, m, path, now), now)
         /\ RowsOK(ForgetRow(t, m)) /\ NotAhead(ForgetRow(t, m), now)
         /\ RowsOK(SoftDeleteRow(t, m, when)) /\ NotAhead(SoftDeleteRow(t, m, when), now)
<1> USE DEF Rows, States, Null
<1>0. \A x \in DOMAIN t : t[x] \in Rows /\ t[x].at <= now /\ t[x].del <= now
  BY DEF RowsOK, NotAhead
<1>1. RowsOK(PutRow(t, m, now)) /\ NotAhead(PutRow(t, m, now), now)
  <2> DEFINE r == [state |-> "recent", rel |-> PushPath(m), at |-> now,
                   del |-> IF m \in DOMAIN t THEN t[m].del ELSE Null]
  <2>1. r \in Rows /\ r.at <= now /\ r.del <= now
    BY <1>0, PushPathType
  <2>2. PutRow(t, m, now) = With(t, m, r)
    BY DEF PutRow
  <2> HIDE DEF r
  <2> QED BY <2>1, <2>2, WithRow
<1>2. RowsOK(TouchRow(t, m, now)) /\ NotAhead(TouchRow(t, m, now), now)
  <2> DEFINE r == [t[m] EXCEPT !.at = now]
  <2>1. m \in DOMAIN t => r \in Rows /\ r.at <= now /\ r.del <= now
    BY <1>0
  <2> HIDE DEF r
  <2> QED BY <2>1, UpdatedRow DEF TouchRow, r
<1>3. RowsOK(ArchiveRow(t, m, path)) /\ NotAhead(ArchiveRow(t, m, path), now)
  <2> DEFINE r == [t[m] EXCEPT !.state = "long_term", !.rel = path]
  <2>1. m \in DOMAIN t => r \in Rows /\ r.at <= now /\ r.del <= now
    BY <1>0
  <2> HIDE DEF r
  <2> QED BY <2>1, UpdatedRow DEF ArchiveRow, r
<1>4. RowsOK(ReheatRow(t, m, path, now)) /\ NotAhead(ReheatRow(t, m, path, now), now)
  <2> DEFINE r == [state |-> "recent", rel |-> path, at |-> now, del |-> Null]
  <2>1. r \in Rows /\ r.at <= now /\ r.del <= now
    OBVIOUS
  <2> HIDE DEF r
  <2> QED BY <2>1, UpdatedRow DEF ReheatRow, r
<1>5. RowsOK(ForgetRow(t, m)) /\ NotAhead(ForgetRow(t, m), now)
  <2> DEFINE r == [t[m] EXCEPT !.state = "tombstone"]
  <2>1. m \in DOMAIN t => r \in Rows /\ r.at <= now /\ r.del <= now
    BY <1>0
  <2> HIDE DEF r
  <2> QED BY <2>1, UpdatedRow DEF ForgetRow, r
<1>6. RowsOK(SoftDeleteRow(t, m, when)) /\ NotAhead(SoftDeleteRow(t, m, when), now)
  <2> DEFINE r == [t[m] EXCEPT !.del = when]
  <2>1. m \in DOMAIN t => r \in Rows /\ r.at <= now /\ r.del <= now
    BY <1>0
  <2> HIDE DEF r
  <2> QED BY <2>1, UpdatedRow DEF SoftDeleteRow, r
<1> QED BY <1>1, <1>2, <1>3, <1>4, <1>5, <1>6

\* Writing and removing a file keep the files well typed.
LEMMA FileTypes ==
  ASSUME NEW f, BlobsOK(f), NEW path, NEW body \in Bodies
  PROVE  /\ path \in Paths => BlobsOK(With(f, path, body))
         /\ BlobsOK(Without(f, path))
BY DEF BlobsOK, With, Without

\* Adding, removing and rewriting index lines gives an index.
LEMMA IndexTypes ==
  ASSUME NEW i \in Indexes, NEW m \in Mems
  PROVE  /\ NoFile \in Indexes
         /\ Lines(i) \in Indexes
         /\ WithLine(i, m) \in Indexes
         /\ WithoutLine(i, m) \in Indexes
<1>1. NoFile \in Indexes
  BY DEF Indexes
<1>2. Lines(i) \in SUBSET Mems
  BY DEF Lines
<1>3. WithLine(i, m) \in SUBSET Mems
  BY <1>2 DEF WithLine
<1>4. CASE i \in SUBSET Mems
  BY <1>1, <1>2, <1>3, <1>4 DEF Indexes, WithoutLine
<1>5. CASE i = NoFile
  <2>1. m # Null
    BY MemAssumption DEF Mems, Null
  <2>2. WithoutLine(i, m) = NoFile
    BY <1>5, <2>1 DEF WithoutLine, NoFile
  <2> QED BY <1>1, <1>2, <1>3, <2>2 DEF Indexes
<1> QED BY <1>4, <1>5 DEF Indexes

(***************************************************************************)
(* The local variables of a process.                                       *)
(***************************************************************************)
LEMMA BlankTypes ==
  /\ BlankRow \in Rows
  /\ Idle = [op |-> NoOp, pc |-> "idle", mem |-> Global, row |-> BlankRow, buf |-> Garbage,
             idx |-> NoFile, todo |-> <<>>, doomed |-> <<>>, list |-> <<>>, finds |-> {},
             got |-> {}, now |-> 0]
  /\ Garbage \in Bodies /\ NoFile \in Indexes /\ Global \in Mems
<1>1. Global \in Mems
  BY DEF Mems
<1>2. BlankRow \in Rows
  BY <1>1, PushPathType DEF BlankRow, Rows, States
<1>3. Garbage \in Bodies /\ NoFile \in Indexes
  BY DEF Bodies, Garbage, Indexes
<1> QED BY <1>1, <1>2, <1>3 DEF Idle

\* An idle process has well-typed locals.
LEMMA IdleType ==
  ASSUME clock \in Nat
  PROVE  LocalOK(Idle)
<1>1. RowsOK(<<>>) /\ <<>> \in Seq(Mems)
  BY DEF RowsOK
<1> QED BY <1>1, BlankTypes DEF LocalOK, Fields, Labels

\* Going to another label keeps the locals well typed.
LEMMA RelabelType ==
  ASSUME NEW l, LocalOK(l), NEW label \in Labels
  PROVE  LocalOK([l EXCEPT !.pc = label])
BY DEF LocalOK, Fields

\* Returning from a store function keeps the locals well typed.
LEMMA ReturnType ==
  ASSUME NEW l, LocalOK(l), NEW label \in Labels
  PROVE  LocalOK([l EXCEPT !.pc = label, !.row = BlankRow, !.buf = Garbage, !.idx = NoFile])
BY BlankTypes DEF LocalOK, Fields

\* Reading the index into the locals keeps them well typed.
LEMMA ReadIndexType ==
  ASSUME NEW l, LocalOK(l), NEW label \in Labels, NEW i \in Indexes
  PROVE  LocalOK([l EXCEPT !.idx = i, !.pc = label])
BY DEF LocalOK, Fields

\* Every step of a process changes its own locals and leaves the clock alone.
LEMMA ProcessStep ==
  ASSUME TypeOK, NEW p \in Procs, NEW l, LocalOK(l), loc' = [loc EXCEPT ![p] = l],
         clock' = clock
  PROVE  /\ clock' \in 0..MaxClock
         /\ DOMAIN loc' = Procs
         /\ \A q \in Procs : LocalOK(loc[q])'
<1>1. ASSUME NEW q \in Procs
      PROVE  LocalOK(loc[q])'
  <2>1. LocalOK(loc'[q])
    BY DEF TypeOK
  <2> QED BY <2>1 DEF LocalOK
<1> QED BY <1>1 DEF TypeOK

\* A step that changes nothing but the locals of one process.
LEMMA LocalStep ==
  ASSUME TypeOK, NEW p \in Procs, NEW l, LocalOK(l), loc' = [loc EXCEPT ![p] = l],
         UNCHANGED <<store, clock, history>>
  PROVE  TypeOK'
<1>1. UNCHANGED <<rows, blobs, index, clock, pushed, acked, stops, badWrites>>
  BY DEF store, history
<1>2. StoreOK' /\ HistoryOK'
  BY <1>1 DEF TypeOK, StoreOK, HistoryOK
<1> QED BY <1>1, <1>2, ProcessStep DEF TypeOK

\* Steps that also change the table, the files or the index.
LEMMA RowsStep ==
  ASSUME TypeOK, NEW p \in Procs, NEW l, LocalOK(l), loc' = [loc EXCEPT ![p] = l],
         RowsOK(rows'), NotAhead(rows', clock), UNCHANGED <<blobs, index, clock>>, HistoryOK'
  PROVE  TypeOK'
BY ProcessStep DEF TypeOK, StoreOK

\* A step that writes or removes a file preserves TypeOK if the files stay well typed.
LEMMA BlobsStep ==
  ASSUME TypeOK, NEW p \in Procs, NEW l, LocalOK(l), loc' = [loc EXCEPT ![p] = l],
         BlobsOK(blobs'), UNCHANGED <<rows, index, clock>>, HistoryOK'
  PROVE  TypeOK'
BY ProcessStep DEF TypeOK, StoreOK

\* A step that writes the index preserves TypeOK.
LEMMA IndexStep ==
  ASSUME TypeOK, NEW p \in Procs, NEW l, LocalOK(l), loc' = [loc EXCEPT ![p] = l],
         index' \in Indexes, UNCHANGED <<rows, blobs, clock, history>>
  PROVE  TypeOK'
<1>1. HistoryOK'
  BY DEF TypeOK, HistoryOK, history
<1> QED BY <1>1, ProcessStep DEF TypeOK, StoreOK

\* Unchanged history variables keep their types.
LEMMA SameHistory ==
  ASSUME HistoryOK, UNCHANGED history
  PROVE  HistoryOK'
BY DEF HistoryOK, history

\* What TypeOK says of the store and of the locals of one process.
LEMMA TypedParts ==
  ASSUME TypeOK, NEW p \in Procs
  PROVE  /\ LocalOK(loc[p]) /\ clock \in Nat
         /\ RowsOK(rows) /\ NotAhead(rows, clock) /\ BlobsOK(blobs) /\ index \in Indexes
         /\ HistoryOK
         /\ loc[p].mem \in Mems /\ loc[p].row \in Rows /\ loc[p].row.rel \in Paths
         /\ loc[p].buf \in Bodies /\ loc[p].idx \in Indexes /\ loc[p].now \in 0..clock
BY BoundAssumption DEF TypeOK, StoreOK, LocalOK, Rows

\* A step that only moves to another label preserves TypeOK.
LEMMA GotoType ==
  ASSUME TypeOK, NEW p \in Procs, NEW label \in Labels, Goto(p, label),
         UNCHANGED <<store, clock, history>>
  PROVE  TypeOK'
<1>1. LocalOK([loc[p] EXCEPT !.pc = label])
  BY TypedParts, RelabelType
<1> QED BY <1>1, LocalStep DEF Goto

\* Ending an operation preserves TypeOK.
LEMMA FinishType ==
  ASSUME TypeOK, NEW p \in Procs, Finish(p), UNCHANGED <<store, clock, history>>
  PROVE  TypeOK'
BY TypedParts, IdleType, LocalStep DEF Finish

\* A step that reads the index preserves TypeOK.
LEMMA ReadIndexStepType ==
  ASSUME TypeOK, NEW p \in Procs, NEW label \in Labels, ReadIndex(p, label),
         UNCHANGED <<store, clock, history>>
  PROVE  TypeOK'
<1>1. LocalOK([loc[p] EXCEPT !.idx = index, !.pc = label])
  BY TypedParts, ReadIndexType
<1> QED BY <1>1, LocalStep DEF ReadIndex

\* A verified write, good or bad, preserves TypeOK.
LEMMA StoreBodyType ==
  ASSUME TypeOK, NEW p \in Procs, NEW label \in Labels, NEW path \in Paths,
         NEW body \in Bodies, StoreBody(path, body), Goto(p, label),
         UNCHANGED <<rows, index, clock, pushed, acked, stops>>
  PROVE  TypeOK'
<1>1. PICK c \in {body, Garbage} :
        /\ c # body => badWrites < MaxBadWrites
        /\ badWrites' = IF c # body THEN badWrites + 1 ELSE badWrites
        /\ blobs' = With(blobs, path, c)
  BY DEF StoreBody
<1>2. BlobsOK(blobs')
  BY <1>1, TypedParts, FileTypes, BodyTypes
<1>3. HistoryOK'
  BY <1>1, TypedParts, BoundAssumption DEF HistoryOK
<1>4. LocalOK([loc[p] EXCEPT !.pc = label])
  BY TypedParts, RelabelType
<1> QED BY <1>2, <1>3, <1>4, BlobsStep DEF Goto

\* Removing a file preserves TypeOK.
LEMMA RemoveType ==
  ASSUME TypeOK, NEW p \in Procs, NEW path, Remove(path), NEW l, LocalOK(l),
         loc' = [loc EXCEPT ![p] = l], UNCHANGED <<rows, index, clock, history>>
  PROVE  TypeOK'
<1>1. BlobsOK(blobs')
  BY TypedParts, FileTypes, BodyTypes, BlankTypes DEF Remove
<1> QED BY <1>1, BlobsStep, SameHistory, TypedParts

(***************************************************************************)
(* Types are preserved by each operation of the cold tier.                 *)
(***************************************************************************)
LEMMA CompressType ==
  ASSUME TypeOK, NEW p \in Procs, Compress(p)
  PROVE  TypeOK'
<1>0. {"c_put", "c_verify", "c_drop", "c_commit", "c_index", "c_line", "c_source", "age"}
        \subseteq Labels
  BY DEF Labels
<1> DEFINE l == loc[p]
           zst == ZstPath(l.row.rel)
<1>t. /\ zst \in Paths /\ Compressed(l.buf) \in Bodies
      /\ \A label \in Labels : LocalOK([l EXCEPT !.pc = label])
  BY TypedParts, PathTypes, BodyTypes, RelabelType
<1>1. CASE CompressRead(p)
  <2>1. CASE Exists(l.row.rel)
    <3>1. blobs[l.row.rel] \in Bodies
      BY <2>1, TypedParts DEF Exists, BlobsOK
    <3>2. LocalOK([l EXCEPT !.buf = blobs[l.row.rel], !.pc = "c_put"])
      BY <1>0, <3>1, TypedParts DEF LocalOK, Fields
    <3> QED BY <1>1, <2>1, <3>2, LocalStep DEF CompressRead
  <2>2. CASE ~Exists(l.row.rel)
    BY <1>1, <2>2, FinishType DEF CompressRead
  <2> QED BY <2>1, <2>2
<1>2. CASE CompressPut(p)
  BY <1>0, <1>t, <1>2, StoreBodyType DEF CompressPut
<1>3. CASE CompressVerify(p)
  BY <1>0, <1>3, GotoType DEF CompressVerify
<1>4. CASE CompressDrop(p)
  BY <1>4, RemoveType, IdleType, TypedParts DEF CompressDrop, Finish
<1>5. CASE CompressCommit(p)
  <2>1. RowsOK(rows') /\ NotAhead(rows', clock)
    BY <1>t, <1>5, RowTypes, TypedParts DEF CompressCommit
  <2> QED BY <1>0, <1>t, <1>5, <2>1, RowsStep, SameHistory, TypedParts DEF CompressCommit, Goto
<1>6. CASE CompressIndex(p)
  BY <1>0, <1>6, ReadIndexStepType DEF CompressIndex
<1>7. CASE CompressLine(p)
  <2>1. index' \in Indexes
    BY <1>7, IndexTypes, TypedParts DEF CompressLine
  <2> QED BY <1>0, <1>t, <1>7, <2>1, IndexStep DEF CompressLine, Goto
<1>8. CASE CompressSource(p)
  <2>1. LocalOK([l EXCEPT !.pc = "age", !.row = BlankRow, !.buf = Garbage, !.idx = NoFile])
    BY <1>0, TypedParts, ReturnType
  <2> QED BY <1>8, <2>1, RemoveType DEF CompressSource, Return
<1> QED BY <1>1, <1>2, <1>3, <1>4, <1>5, <1>6, <1>7, <1>8 DEF Compress

\* Reheat preserves TypeOK.
LEMMA ReheatType ==
  ASSUME TypeOK, NEW p \in Procs, Reheat(p)
  PROVE  TypeOK'
<1>0. {"r_put", "r_verify", "r_drop", "r_commit", "r_index", "r_line", "r_source", "m_get"}
        \subseteq Labels
  BY DEF Labels
<1> DEFINE l == loc[p]
           tar == TarPath(l.row.rel)
<1>t. /\ tar \in Paths
      /\ \A label \in Labels : LocalOK([l EXCEPT !.pc = label])
      /\ LocalOK([l EXCEPT !.pc = "m_get", !.row = BlankRow, !.buf = Garbage, !.idx = NoFile])
  BY <1>0, TypedParts, PathTypes, RelabelType, ReturnType
<1>1. CASE ReheatTouch(p)
  <2>1. RowsOK(rows') /\ NotAhead(rows', clock)
    BY <1>1, RowTypes, TypedParts DEF ReheatTouch
  <2>2. CASE l.mem \in DOMAIN rows
    BY <1>t, <1>1, <2>1, <2>2, RowsStep, SameHistory, TypedParts DEF ReheatTouch, Return
  <2>3. CASE l.mem \notin DOMAIN rows
    BY <1>1, <2>1, <2>3, RowsStep, SameHistory, TypedParts, IdleType DEF ReheatTouch, Finish
  <2> QED BY <2>2, <2>3
<1>2. CASE ReheatRead(p)
  <2> DEFINE body == blobs[l.row.rel]
  <2>1. CASE Exists(l.row.rel) /\ Decompresses(body)
    <3>1. Decompressed(body) \in Bodies
      BY <2>1, TypedParts, BodyTypes DEF Exists, BlobsOK
    <3>2. LocalOK([l EXCEPT !.buf = Decompressed(body), !.pc = "r_put"])
      BY <1>0, <3>1, TypedParts DEF LocalOK, Fields
    <3> QED BY <1>2, <2>1, <3>2, LocalStep DEF ReheatRead
  <2>2. CASE ~(Exists(l.row.rel) /\ Decompresses(body))
    BY <1>2, <2>2, FinishType DEF ReheatRead
  <2> QED BY <2>1, <2>2
<1>3. CASE ReheatPut(p)
  BY <1>0, <1>t, <1>3, TypedParts, StoreBodyType DEF ReheatPut
<1>4. CASE ReheatVerify(p)
  BY <1>0, <1>4, GotoType DEF ReheatVerify
<1>5. CASE ReheatDrop(p)
  BY <1>5, RemoveType, IdleType, TypedParts DEF ReheatDrop, Finish
<1>6. CASE ReheatCommit(p)
  <2>1. RowsOK(rows') /\ NotAhead(rows', clock)
    BY <1>t, <1>6, RowTypes, TypedParts DEF ReheatCommit
  <2> QED BY <1>0, <1>t, <1>6, <2>1, RowsStep, SameHistory, TypedParts DEF ReheatCommit, Goto
<1>7. CASE ReheatIndex(p)
  BY <1>0, <1>7, ReadIndexStepType DEF ReheatIndex
<1>8. CASE ReheatLine(p)
  <2>1. index' \in Indexes
    BY <1>8, IndexTypes, TypedParts DEF ReheatLine
  <2> QED BY <1>0, <1>t, <1>8, <2>1, IndexStep DEF ReheatLine, Goto
<1>9. CASE ReheatSource(p)
  BY <1>t, <1>9, RemoveType DEF ReheatSource, Return
<1> QED BY <1>1, <1>2, <1>3, <1>4, <1>5, <1>6, <1>7, <1>8, <1>9 DEF Reheat

\* HardDelete preserves TypeOK.
LEMMA HardDeleteType ==
  ASSUME TypeOK, NEW p \in Procs, HardDelete(p)
  PROVE  TypeOK'
<1>0. {"h_line", "h_blob", "h_row", "doom"} \subseteq Labels
  BY DEF Labels
<1> DEFINE l == loc[p]
<1>t. \A label \in Labels : LocalOK([l EXCEPT !.pc = label])
  BY TypedParts, RelabelType
<1>1. CASE DestroyIndex(p)
  BY <1>0, <1>1, ReadIndexStepType DEF DestroyIndex
<1>2. CASE DestroyLine(p)
  <2>1. index' \in Indexes
    BY <1>2, IndexTypes, TypedParts DEF DestroyLine
  <2> QED BY <1>0, <1>t, <1>2, <2>1, IndexStep DEF DestroyLine, Goto
<1>3. CASE DestroyBlob(p)
  BY <1>0, <1>t, <1>3, RemoveType DEF DestroyBlob, Goto
<1>4. CASE DestroyRow(p)
  <2>1. RowsOK(rows') /\ NotAhead(rows', clock)
    BY <1>4, WithoutRow, TypedParts DEF DestroyRow
  <2>2. HistoryOK'
    BY <1>4, TypedParts, BoundAssumption DEF DestroyRow, HistoryOK, budgets
  <2>3. LocalOK([l EXCEPT !.pc = "doom", !.row = BlankRow, !.buf = Garbage, !.idx = NoFile])
    BY <1>0, TypedParts, ReturnType
  <2> QED BY <1>4, <2>1, <2>2, <2>3, RowsStep DEF DestroyRow, Return
<1> QED BY <1>1, <1>2, <1>3, <1>4 DEF HardDelete

(***************************************************************************)
(* ... by each request ...                                                 *)
(***************************************************************************)
LEMMA InitialLocal ==
  ASSUME TypeOK, NEW p \in Procs, NEW label \in Labels, NEW op \in Operations
  PROVE  /\ \A m \in Mems, b \in Bodies :
              LocalOK([Idle EXCEPT !.op = op, !.pc = label, !.mem = m, !.buf = b])
         /\ \A m \in Mems, r \in Rows :
              LocalOK([Idle EXCEPT !.op = op, !.mem = m, !.row = r, !.pc = label])
         /\ \A got \in SUBSET Mems :
              LocalOK([Idle EXCEPT !.op = op, !.pc = label, !.got = got])
         /\ \A now \in 0..clock :
              LocalOK([Idle EXCEPT !.op = op, !.pc = label, !.now = now])
<1>1. LocalOK(Idle)
  BY IdleType, TypedParts
<1> QED BY <1>1 DEF LocalOK, Fields

\* List returns a sequence of the listed mem_ids.
LEMMA ListedSeq ==
  ASSUME NEW t, RowsOK(t), NEW S \in SUBSET DOMAIN t, NEW s \in ByRecency(t, S)
  PROVE  s \in Seq(S) /\ s \in Seq(Mems)
<1>1. IsFiniteSet(S)
  <2>1. IsFiniteSet(Mems)
    BY MemAssumption, FS_AddElement DEF Mems
  <2> QED BY <2>1, FS_Subset DEF RowsOK
<1>2. Cardinality(S) \in Nat
  BY <1>1, FS_CardinalityType
<1>3. s \in [1..Cardinality(S) -> S]
  BY DEF ByRecency
<1>4. S \subseteq Mems
  BY DEF RowsOK
<1> QED BY <1>2, <1>3, <1>4

\* A push preserves TypeOK.
LEMMA PushType ==
  ASSUME TypeOK, NEW p \in Procs, NEW m \in Mems, PushBlob(p, m) \/ PushRow(p)
  PROVE  TypeOK'
<1>1. CASE PushBlob(p, m)
  <2>1. pushed' \in 0..MaxPush /\ pushed' \in Nat /\ pushed' = pushed + 1
    BY <1>1, TypedParts, BoundAssumption DEF PushBlob, HistoryOK
  <2>2. HistoryOK'
    BY <1>1, <2>1, TypedParts, BoundAssumption DEF PushBlob, HistoryOK, budgets
  <2>3. BlobsOK(blobs')
    BY <1>1, <2>1, TypedParts, FileTypes, PushPathType, BodyTypes, BlankTypes DEF PushBlob
  <2>4. LocalOK([Idle EXCEPT !.op = PushOp(m), !.pc = "p_row", !.mem = m,
                             !.buf = Tarball(pushed')])
    <3>1. "p_row" \in Labels /\ PushOp(m) \in Operations
      BY DEF PushOp, Labels, Operations
    <3>2. Tarball(pushed') \in Bodies
      BY <2>1, BodyTypes, BlankTypes
    <3> QED BY <3>1, <3>2, InitialLocal
  <2> QED BY <1>1, <2>2, <2>3, <2>4, BlobsStep DEF PushBlob, Become
<1>2. CASE PushRow(p)
  <2>1. RowsOK(rows') /\ NotAhead(rows', clock)
    BY <1>2, RowTypes, TypedParts DEF PushRow
  <2>2. HistoryOK'
    <3>1. loc[p].buf.ver \in Nat
      BY TypedParts DEF Bodies
    <3> QED BY <1>2, <3>1, TypedParts, BoundAssumption DEF PushRow, HistoryOK, budgets
  <2> QED BY <1>2, <2>1, <2>2, RowsStep, IdleType, TypedParts DEF PushRow, Finish
<1> QED BY <1>1, <1>2

\* A remind preserves TypeOK.
LEMMA RemindType ==
  ASSUME TypeOK, NEW p \in Procs, NEW m \in Mems, RemindStart(p, m) \/ Remind(p)
  PROVE  TypeOK'
<1>0. {"r_touch", "r_read", "m_read", "m_reply"} \subseteq Labels /\ "remind" \in Operations
  BY DEF Labels, Operations
<1> DEFINE l == loc[p]
<1>1. CASE RemindStart(p, m)
  <2> DEFINE label == IF rows[m].state = "recent" THEN "r_touch" ELSE "r_read"
             new == [Idle EXCEPT !.op = "remind", !.mem = m, !.row = rows[m], !.pc = label]
  <2>1. rows[m] \in Rows
    BY <1>1, TypedParts DEF RemindStart, RowsOK
  <2>2. LocalOK(new)
    BY <1>0, <2>1, InitialLocal
  <2> QED BY <1>1, <2>2, LocalStep DEF RemindStart, Become
<1>2. CASE Reheat(p)
  BY <1>2, ReheatType
<1>3. CASE RemindGet(p)
  <2>1. CASE l.mem \in DOMAIN rows
    <3>1. LocalOK([l EXCEPT !.row = rows[l.mem], !.pc = "m_read"])
      <4>1. rows[l.mem] \in Rows
        BY <2>1, TypedParts DEF RowsOK
      <4> QED BY <1>0, <4>1, TypedParts DEF LocalOK, Fields
    <3> QED BY <1>3, <2>1, <3>1, LocalStep DEF RemindGet
  <2>2. CASE l.mem \notin DOMAIN rows
    BY <1>3, <2>2, FinishType DEF RemindGet
  <2> QED BY <2>1, <2>2
<1>4. CASE RemindRead(p)
  <2>1. CASE Exists(l.row.rel)
    <3>1. LocalOK([l EXCEPT !.buf = blobs[l.row.rel], !.pc = "m_reply"])
      <4>1. blobs[l.row.rel] \in Bodies
        BY <2>1, TypedParts DEF BlobsOK, Exists
      <4> QED BY <1>0, <4>1, TypedParts DEF LocalOK, Fields
    <3> QED BY <1>4, <2>1, <3>1, LocalStep DEF RemindRead
  <2>2. CASE ~Exists(l.row.rel)
    BY <1>4, <2>2, FinishType DEF RemindRead
  <2> QED BY <2>1, <2>2
<1>5. CASE RemindReply(p)
  BY <1>5, FinishType DEF RemindReply
<1> QED BY <1>1, <1>2, <1>3, <1>4, <1>5 DEF Remind

\* InitGlobal writes the locals of its process: the global memory read or absent, or the
\* bundle ended by a torn archive or by a failed read, which counts as a stop.
InitLocal(label, got) == [Idle EXCEPT !.op = "init", !.pc = label, !.got = got]
GlobalRead(p) ==
  /\ stops' = stops
  /\ \E got \in SUBSET {Global} :
       /\ got = {Global} \/ ~Exists(PushPath(Global))
       /\ Become(p, InitLocal("i_index", got))
GlobalFailed(p) ==
  /\ \/ stops' = stops /\ Exists(PushPath(Global)) /\ ~IsTar(blobs[PushPath(Global)])
     \/ stops < MaxStops /\ stops' = stops + 1
  /\ Become(p, InitLocal("i_reply", {}))

\* The fields of those locals.
LEMMA InitLocalFields ==
  ASSUME NEW label, NEW got
  PROVE  LET l == InitLocal(label, got)
         IN  /\ l.op = "init" /\ l.pc = label /\ l.got = got
             /\ l.mem = Idle.mem /\ l.row = Idle.row /\ l.buf = Idle.buf /\ l.idx = Idle.idx
             /\ l.todo = Idle.todo /\ l.doomed = Idle.doomed /\ l.list = Idle.list
             /\ l.finds = Idle.finds /\ l.now = Idle.now
<1>1. DOMAIN Idle = Fields
  BY DEF Idle, Fields
<1> QED BY <1>1 DEF InitLocal, Fields

\* initBundle's first step does one of the two.
LEMMA InitGlobalStep ==
  ASSUME NEW p, InitGlobal(p)
  PROVE  /\ MayStart(p, "init")
         /\ UNCHANGED <<store, clock, pushed, acked, badWrites>>
         /\ GlobalRead(p) \/ GlobalFailed(p)
<1> DEFINE path == PushPath(Global)
           part == [Idle EXCEPT !.op = "init", !.pc = "i_reply"]
           torn == Exists(path) /\ ~IsTar(blobs[path])
           all == IF Exists(path) THEN {Global} ELSE {}
<1>1. PICK failed \in BOOLEAN :
        /\ failed => stops < MaxStops
        /\ stops' = IF failed THEN stops + 1 ELSE stops
        /\ IF failed \/ torn THEN Become(p, part) ELSE Become(p, InitLocal("i_index", all))
  BY DEF InitGlobal, InitLocal
<1>2. part = InitLocal("i_reply", {})
  <2>1. Idle.got = {} /\ "got" \in DOMAIN Idle
    BY DEF Idle
  <2> QED BY <2>1 DEF InitLocal
<1>3. MayStart(p, "init") /\ UNCHANGED <<store, clock, pushed, acked, badWrites>>
  BY DEF InitGlobal
<1>4. CASE failed \/ torn
  <2> HIDE DEF part
  <2>1. Become(p, InitLocal("i_reply", {}))
    BY <1>1, <1>2, <1>4
  <2>2. CASE failed
    BY <1>1, <1>3, <2>1, <2>2 DEF GlobalFailed
  <2>3. CASE ~failed
    BY <1>1, <1>3, <1>4, <2>1, <2>3 DEF GlobalFailed
  <2> QED BY <2>2, <2>3
<1>5. CASE ~(failed \/ torn)
  <2>1. all \in SUBSET {Global} /\ (all = {Global} \/ ~Exists(path))
    OBVIOUS
  <2>2. Become(p, InitLocal("i_index", all)) /\ stops' = stops
    BY <1>1, <1>5
  <2> HIDE DEF all
  <2> QED BY <1>3, <2>1, <2>2 DEF GlobalRead
<1> QED BY <1>4, <1>5

\* Building the init bundle preserves TypeOK.
LEMMA InitBundleType ==
  ASSUME TypeOK, NEW p \in Procs, InitGlobal(p) \/ InitBundle(p)
  PROVE  TypeOK'
<1>0. {"i_index", "i_list", "i_body", "i_reply"} \subseteq Labels /\ "init" \in Operations
  BY DEF Labels, Operations
<1> DEFINE l == loc[p]
<1>1. CASE InitGlobal(p)
  <2>1. UNCHANGED <<store, clock, pushed, acked, badWrites>> /\ (GlobalRead(p) \/ GlobalFailed(p))
    BY <1>1, InitGlobalStep
  <2>2. HistoryOK'
    BY <2>1, TypedParts, BoundAssumption DEF HistoryOK, GlobalRead, GlobalFailed
  <2>3. \A label \in {"i_index", "i_reply"}, got \in SUBSET Mems : LocalOK(InitLocal(label, got))
    BY <1>0, InitialLocal DEF InitLocal
  <2>4. \E l0 : LocalOK(l0) /\ loc' = [loc EXCEPT ![p] = l0]
    <3>1. SUBSET {Global} \subseteq SUBSET Mems
      BY BlankTypes
    <3> QED BY <2>1, <2>3, <3>1 DEF GlobalRead, GlobalFailed, Become
  <2>5. BlobsOK(blobs')
    BY <2>1, TypedParts DEF store
  <2> QED BY <2>1, <2>2, <2>4, <2>5, BlobsStep DEF store
<1>2. CASE InitIndex(p)
  BY <1>0, <1>2, ReadIndexStepType DEF InitIndex
<1>3. CASE InitList(p)
  <2>1. PICK s \in ByRecency(rows, InState(rows, "recent") \ {Global}) :
          Become(p, [l EXCEPT !.todo = s, !.list = rows, !.pc = "i_body"])
    BY <1>3 DEF InitList
  <2>2. s \in Seq(Mems)
    BY <2>1, TypedParts, ListedSeq DEF InState
  <2>3. LocalOK([l EXCEPT !.todo = s, !.list = rows, !.pc = "i_body"])
    BY <1>0, <2>2, TypedParts DEF LocalOK, Fields
  <2> QED BY <1>3, <2>1, <2>3, LocalStep DEF InitList, Become
<1>4. CASE InitBody(p)
  <2> DEFINE m == Head(l.todo)
             path == l.list[m].rel
             got == IF Exists(path) THEN l.got \union {m} ELSE l.got
             new == [l EXCEPT !.todo = Tail(@), !.got = got]
  <2>1. CASE Exists(path) /\ ~IsTar(blobs[path])
    BY <1>0, <1>4, <2>1, GotoType DEF InitBody
  <2>2. CASE ~(Exists(path) /\ ~IsTar(blobs[path]))
    <3>1. l.todo \in Seq(Mems) /\ l.todo # <<>> /\ l.got \subseteq Mems
      BY <1>4, TypedParts DEF InitBody, LocalOK
    <3>2. m \in Mems /\ Tail(l.todo) \in Seq(Mems)
      BY <3>1, HeadTailProperties
    <3>3. LocalOK(new)
      BY <3>1, <3>2, TypedParts DEF LocalOK, Fields
    <3>4. Become(p, new)
      BY <1>4, <2>2 DEF InitBody
    <3> HIDE DEF new
    <3> QED BY <1>4, <3>3, <3>4, LocalStep DEF InitBody, Become
  <2> QED BY <2>1, <2>2
<1>5. CASE InitDone(p)
  BY <1>0, <1>5, GotoType DEF InitDone
<1>6. CASE InitFail(p)
  <2>1. HistoryOK'
    BY <1>6, TypedParts, BoundAssumption DEF InitFail, HistoryOK
  <2>2. LocalOK([l EXCEPT !.pc = "i_reply"])
    BY <1>0, TypedParts, RelabelType
  <2> QED BY <1>6, <2>1, <2>2, BlobsStep, TypedParts DEF InitFail, Goto, store
<1>7. CASE InitReply(p)
  BY <1>7, FinishType DEF InitReply
<1> QED BY <1>1, <1>2, <1>3, <1>4, <1>5, <1>6, <1>7 DEF InitBundle

(***************************************************************************)
(* ... by a pass and a scan ...                                            *)
(***************************************************************************)
LEMMA CappedType ==
  ASSUME NEW S \in SUBSET Mems, NEW d \in ByMemId(S), IsFiniteSet(S)
  PROVE  Capped(d) \in Seq(S) /\ Capped(d) \in Seq(Mems)
<1>1. Cardinality(S) \in Nat
  BY FS_CardinalityType
<1>2. d \in Seq(S)
  BY <1>1 DEF ByMemId
<1> DEFINE n == IF Len(d) < MaxDeletions THEN Len(d) ELSE MaxDeletions
<1>3. n \in 0..Len(d)
  BY <1>2, ConfigAssumption
<1>4. \A i \in 1..n : d[i] \in S
  BY <1>2, <1>3
<1>5. SubSeq(d, 1, n) \in Seq(S)
  BY <1>3, <1>4, SubSeqProperties
<1>6. Capped(d) \in Seq(S)
  BY <1>5 DEF Capped
<1> QED BY <1>6

\* The loops over a listed sequence: take its head, or go past it.
LEMMA LoopType ==
  ASSUME TypeOK, NEW p \in Procs
  PROVE  /\ loc[p].todo # <<>> => Head(loc[p].todo) \in Mems /\ Tail(loc[p].todo) \in Seq(Mems)
         /\ loc[p].doomed # <<>> =>
              Head(loc[p].doomed) \in Mems /\ Tail(loc[p].doomed) \in Seq(Mems)
<1>1. loc[p].todo \in Seq(Mems) /\ loc[p].doomed \in Seq(Mems)
  BY TypedParts DEF LocalOK
<1> QED BY <1>1, HeadTailProperties

\* The age scan preserves TypeOK.
LEMMA AgeScanType ==
  ASSUME TypeOK, NEW p \in Procs, StartPass(p) \/ AgeList(p) \/ AgeNext(p) \/ AgeDone(p)
  PROVE  TypeOK'
<1>0. {"age_list", "age", "c_read", "forget_list"} \subseteq Labels /\ "pass" \in Operations
  BY DEF Labels, Operations
<1> DEFINE l == loc[p]
<1>1. CASE StartPass(p)
  <2>1. LocalOK([Idle EXCEPT !.op = "pass", !.pc = "age_list", !.now = clock])
    <3>1. clock \in 0..clock
      BY TypedParts
    <3> QED BY <1>0, <3>1, InitialLocal
  <2> QED BY <1>1, <2>1, LocalStep DEF StartPass, Become
<1>2. CASE AgeList(p)
  <2>1. PICK s \in ByRecency(rows, Aged(rows, l.now)) :
          Become(p, [l EXCEPT !.todo = s, !.pc = "age"])
    BY <1>2 DEF AgeList
  <2>2. s \in Seq(Mems)
    BY <2>1, TypedParts, ListedSeq DEF Aged, InState
  <2>3. LocalOK([l EXCEPT !.todo = s, !.pc = "age"])
    BY <1>0, <2>2, TypedParts DEF LocalOK, Fields
  <2> QED BY <1>2, <2>1, <2>3, LocalStep DEF AgeList, Become
<1>3. CASE AgeNext(p)
  <2> DEFINE m == Head(l.todo)
             new == [l EXCEPT !.mem = m, !.row = rows[m], !.todo = Tail(@), !.pc = "c_read"]
  <2>1. CASE m \in DOMAIN rows
    <3>1. m \in Mems /\ rows[m] \in Rows /\ Tail(l.todo) \in Seq(Mems)
      BY <1>3, <2>1, LoopType, TypedParts DEF AgeNext, RowsOK
    <3>2. LocalOK(new)
      BY <1>0, <3>1, TypedParts DEF LocalOK, Fields
    <3>3. Become(p, new)
      BY <1>3, <2>1 DEF AgeNext
    <3> HIDE DEF new
    <3> QED BY <1>3, <3>2, <3>3, LocalStep DEF AgeNext, Become
  <2>2. CASE m \notin DOMAIN rows
    BY <1>3, <2>2, FinishType DEF AgeNext
  <2> QED BY <2>1, <2>2
<1>4. CASE AgeDone(p)
  BY <1>0, <1>4, GotoType DEF AgeDone
<1> QED BY <1>1, <1>2, <1>3, <1>4

\* The forget scan preserves TypeOK.
LEMMA ForgetScanType ==
  ASSUME TypeOK, NEW p \in Procs, ForgetScan(p)
  PROVE  TypeOK'
<1>0. {"forget", "tomb_list", "mark", "doom", "h_index", "gate"} \subseteq Labels
  BY DEF Labels
<1> DEFINE l == loc[p]
<1>1. CASE ForgetList(p)
  <2>1. PICK s \in ByRecency(rows, Forgettable(rows, l.now)) :
          Become(p, [l EXCEPT !.todo = s, !.pc = "forget"])
    BY <1>1 DEF ForgetList
  <2>2. s \in Seq(Mems)
    BY <2>1, TypedParts, ListedSeq DEF Forgettable, InState
  <2>3. LocalOK([l EXCEPT !.todo = s, !.pc = "forget"])
    BY <1>0, <2>2, TypedParts DEF LocalOK, Fields
  <2> QED BY <1>1, <2>1, <2>3, LocalStep DEF ForgetList, Become
<1>2. CASE Forget(p)
  <2> DEFINE m == Head(l.todo)
  <2>1. m \in Mems /\ Tail(l.todo) \in Seq(Mems)
    BY <1>2, LoopType DEF Forget
  <2>2. RowsOK(rows') /\ NotAhead(rows', clock)
    BY <1>2, <2>1, RowTypes, TypedParts DEF Forget
  <2>3. LocalOK([l EXCEPT !.todo = Tail(@)])
    BY <2>1, TypedParts DEF LocalOK, Fields
  <2>4. CASE m \in DOMAIN rows
    BY <1>2, <2>2, <2>3, <2>4, RowsStep, SameHistory, TypedParts DEF Forget
  <2>5. CASE m \notin DOMAIN rows
    BY <1>2, <2>2, <2>5, RowsStep, SameHistory, TypedParts, IdleType DEF Forget, Finish
  <2> QED BY <2>4, <2>5
<1>3. CASE ForgetDone(p)
  BY <1>0, <1>3, GotoType DEF ForgetDone
<1>4. CASE TombList(p)
  <2>1. PICK s \in ByRecency(rows, Unmarked(rows, l.now)), d \in ByMemId(Doomed(rows, l.now)) :
          Become(p, [l EXCEPT !.todo = s, !.doomed = Capped(d), !.pc = "mark"])
    BY <1>4 DEF TombList
  <2>2. s \in Seq(Mems)
    BY <2>1, TypedParts, ListedSeq DEF Unmarked, InState
  <2>3. Doomed(rows, l.now) \in SUBSET Mems
    BY TypedParts DEF Doomed, InState, RowsOK
  <2>4. IsFiniteSet(Doomed(rows, l.now))
    BY <2>3, MemAssumption, FS_AddElement, FS_Subset DEF Mems
  <2>5. Capped(d) \in Seq(Mems)
    BY <2>1, <2>3, <2>4, CappedType
  <2>6. LocalOK([l EXCEPT !.todo = s, !.doomed = Capped(d), !.pc = "mark"])
    BY <1>0, <2>2, <2>5, TypedParts DEF LocalOK, Fields
  <2> QED BY <1>4, <2>1, <2>6, LocalStep DEF TombList, Become
<1>5. CASE SoftDelete(p)
  <2> DEFINE m == Head(l.todo)
  <2>1. m \in Mems /\ Tail(l.todo) \in Seq(Mems)
    BY <1>5, LoopType DEF SoftDelete
  <2>2. RowsOK(rows') /\ NotAhead(rows', clock)
    BY <1>5, <2>1, RowTypes, TypedParts DEF SoftDelete
  <2>3. LocalOK([l EXCEPT !.todo = Tail(@)])
    BY <2>1, TypedParts DEF LocalOK, Fields
  <2> QED BY <1>5, <2>2, <2>3, RowsStep, SameHistory, TypedParts DEF SoftDelete
<1>6. CASE MarkDone(p)
  BY <1>0, <1>6, GotoType DEF MarkDone
<1>7. CASE DoomNext(p)
  <2> DEFINE m == Head(l.doomed)
             take == [l EXCEPT !.mem = m, !.row = rows[m], !.doomed = Tail(@), !.pc = "h_index"]
             skip == [l EXCEPT !.doomed = Tail(@)]
  <2>1. m \in Mems /\ Tail(l.doomed) \in Seq(Mems)
    BY <1>7, LoopType DEF DoomNext
  <2>2. LocalOK(skip)
    BY <2>1, TypedParts DEF LocalOK, Fields
  <2>3. m \in DOMAIN rows => LocalOK(take)
    BY <1>0, <2>1, TypedParts DEF LocalOK, Fields, RowsOK
  <2>4. (m \in DOMAIN rows /\ Become(p, take)) \/ Become(p, skip)
    BY <1>7 DEF DoomNext
  <2> HIDE DEF take, skip
  <2> QED BY <1>7, <2>2, <2>3, <2>4, LocalStep DEF DoomNext, Become
<1>8. CASE HardDelete(p)
  BY <1>8, HardDeleteType
<1>9. CASE DoomDone(p)
  BY <1>0, <1>9, GotoType DEF DoomDone
<1> QED BY <1>1, <1>2, <1>3, <1>4, <1>5, <1>6, <1>7, <1>8, <1>9 DEF ForgetScan

\* A pass preserves TypeOK.
LEMMA PassType ==
  ASSUME TypeOK, NEW p \in Procs, Pass(p)
  PROVE  TypeOK'
<1>0. {"g_validate", "g_write"} \subseteq Labels
  BY DEF Labels
<1>1. CASE AgeList(p) \/ AgeNext(p) \/ AgeDone(p)
  BY <1>1, AgeScanType
<1>2. CASE Compress(p)
  BY <1>2, CompressType
<1>3. CASE ForgetScan(p)
  BY <1>3, ForgetScanType
<1>4. CASE GateRead(p)
  BY <1>0, <1>4, ReadIndexStepType DEF GateRead
<1>5. CASE GateValidate(p)
  BY <1>0, <1>5, GotoType, FinishType DEF GateValidate
<1>6. CASE GateWrite(p)
  <2>1. index' \in Indexes
    BY <1>6, IndexTypes, TypedParts DEF GateWrite
  <2> QED BY <1>6, <2>1, IndexStep, IdleType, TypedParts DEF GateWrite, Finish
<1> QED BY <1>1, <1>2, <1>3, <1>4, <1>5, <1>6 DEF Pass

\* What the consistency scan reports are findings.
LEMMA FindingTypes ==
  ASSUME NEW t, RowsOK(t), NEW files \in SUBSET Paths
  PROVE  /\ DanglingRows(t, files) \subseteq Findings
         /\ OrphanBlobs(t, files) \subseteq Findings
         /\ TornPairs(files) \subseteq Findings
<1>1. RowPaths(t) \subseteq Paths
  BY DEF RowPaths, RowsOK, Rows
<1>2. \A kind \in Kinds, path \in Paths : Finding(kind, path) \in Findings
  BY DEF Finding, Findings
<1> QED BY <1>1, <1>2 DEF DanglingRows, OrphanBlobs, TornPairs, Kinds

\* A scan with repair preserves TypeOK.
LEMMA ScanType ==
  ASSUME TypeOK, NEW p \in Procs, ScanList(p) \/ Scan(p)
  PROVE  TypeOK'
<1>0. /\ {"s_walk", "s_index", "s_orphans", "s_torn", "s_tar"} \subseteq Labels
      /\ "scan" \in Operations
  BY DEF Labels, Operations
<1> DEFINE l == loc[p]
<1>t. /\ DOMAIN blobs \in SUBSET Paths
      /\ RowsOK(l.list) /\ l.finds \subseteq Findings
      /\ \A F \in SUBSET Findings : LocalOK([l EXCEPT !.finds = F])
  BY TypedParts DEF BlobsOK, LocalOK, Fields
<1>1. CASE ScanList(p)
  <2> DEFINE F == DanglingRows(rows, DOMAIN blobs)
  <2>1. F \subseteq Findings
    BY <1>t, TypedParts, FindingTypes
  <2> HIDE DEF F
  <2>2. LocalOK([Idle EXCEPT !.op = "scan", !.pc = "s_walk", !.list = rows, !.finds = F])
    BY <1>0, <2>1, IdleType, TypedParts DEF LocalOK, Fields
  <2> QED BY <1>1, <2>2, LocalStep DEF ScanList, Become, F
<1>2. CASE ScanWalk(p)
  <2> DEFINE F == OrphanBlobs(l.list, DOMAIN blobs) \union TornPairs(DOMAIN blobs)
             new == [l EXCEPT !.pc = "s_index", !.finds = @ \union F]
  <2>1. F \subseteq Findings
    BY <1>t, FindingTypes
  <2>2. Become(p, [l EXCEPT !.pc = "s_index", !.finds = @ \union OrphanBlobs(l.list, DOMAIN blobs)
                                                       \union TornPairs(DOMAIN blobs)])
    BY <1>2 DEF ScanWalk
  <2>3. Become(p, new)
    BY <2>2 DEF Become
  <2> HIDE DEF F
  <2>4. LocalOK(new)
    BY <1>0, <2>1, TypedParts DEF LocalOK, Fields
  <2> QED BY <1>2, <2>3, <2>4, LocalStep DEF ScanWalk, Become
<1>3. CASE ScanIndex(p)
  BY <1>0, <1>3, ReadIndexStepType DEF ScanIndex
<1>4. CASE RepairOrphan(p)
  <2>1. PICK f \in Found(p, "orphan_blob") :
          Remove(f.path) /\ loc' = [loc EXCEPT ![p].finds = @ \ {f}]
    BY <1>4 DEF RepairOrphan
  <2>2. LocalOK([l EXCEPT !.finds = @ \ {f}])
    BY <1>t
  <2> QED BY <1>4, <2>1, <2>2, RemoveType DEF RepairOrphan
<1>5. CASE RepairPairs(p)
  BY <1>0, <1>5, GotoType DEF RepairPairs
<1>6. CASE RepairTorn(p)
  <2>1. PICK f \in Found(p, "torn_compress") :
          \/ Become(p, [l EXCEPT !.finds = l.finds \ {f}, !.row.rel = f.path, !.pc = "s_tar"])
          \/ Become(p, [l EXCEPT !.finds = l.finds \ {f}])
    BY <1>6 DEF RepairTorn
  <2>2. LocalOK([l EXCEPT !.finds = l.finds \ {f}])
    BY <1>t
  <2>3. LocalOK([l EXCEPT !.finds = l.finds \ {f}, !.row.rel = f.path, !.pc = "s_tar"])
    <3>1. f.path \in Paths
      BY <1>t DEF Found, Findings
    <3>2. [l.row EXCEPT !.rel = f.path] \in Rows
      BY <3>1, TypedParts DEF Rows
    <3> QED BY <1>0, <1>t, <3>2, TypedParts DEF LocalOK, Fields
  <2> QED BY <1>6, <2>1, <2>2, <2>3, LocalStep DEF RepairTorn, Become
<1>7. CASE RepairTar(p)
  BY <1>0, <1>7, RemoveType, RelabelType, TypedParts DEF RepairTar, Goto
<1>8. CASE ScanDone(p)
  BY <1>8, FinishType DEF ScanDone
<1> QED BY <1>1, <1>2, <1>3, <1>4, <1>5, <1>6, <1>7, <1>8 DEF Scan

(***************************************************************************)
(* ... and so by every step, whatever overlaps.                            *)
(***************************************************************************)
LEMMA InitTypes == Init => TypeOK
<1> SUFFICES ASSUME Init PROVE TypeOK
  OBVIOUS
<1>1. 0 \in Nat /\ clock = 0
  BY DEF Init
<1>2. LocalOK(Idle)
  BY <1>1, IdleType
<1>3. StoreOK
  BY BlankTypes DEF Init, StoreOK, RowsOK, NotAhead, BlobsOK
<1>4. HistoryOK
  BY BoundAssumption DEF Init, HistoryOK
<1> QED BY <1>2, <1>3, <1>4, BoundAssumption DEF Init, TypeOK

\* Stopping an operation anywhere preserves TypeOK.
LEMMA StopType ==
  ASSUME TypeOK, NEW p \in Procs, Stop(p)
  PROVE  TypeOK'
<1>1. HistoryOK'
  BY TypedParts, BoundAssumption DEF Stop, HistoryOK
<1>2. LocalOK(Idle)
  BY TypedParts, IdleType
<1> QED BY <1>1, <1>2, BlobsStep, TypedParts DEF Stop, Finish, store

\* The clock goes forward, so no date comes to be in the future.
LEMMA TickType ==
  ASSUME TypeOK, Tick
  PROVE  TypeOK'
<1>1. clock \in Nat /\ clock' = clock + 1 /\ clock' \in 0..MaxClock
  BY BoundAssumption DEF Tick, TypeOK
<1>2. StoreOK'
  <2>1. NotAhead(rows, clock + 1)
    BY <1>1 DEF TypeOK, StoreOK, NotAhead, RowsOK, Rows, Null
  <2> QED BY <1>1, <2>1 DEF TypeOK, StoreOK, Tick, store
<1>3. \A p \in Procs : LocalOK(loc[p])'
  BY <1>1 DEF TypeOK, LocalOK, Tick
<1>4. HistoryOK'
  BY SameHistory DEF TypeOK, Tick
<1> QED BY <1>1, <1>2, <1>3, <1>4 DEF TypeOK, Tick

\* A step stops at most one operation.
LEMMA StopsCounted ==
  ASSUME [Next]_vars
  PROVE  stops' = stops \/ stops' = stops + 1
<1>1. ASSUME NEW p, Compress(p) \/ Reheat(p) \/ HardDelete(p)
      PROVE  stops' = stops
  BY <1>1 DEF Compress, CompressRead, CompressPut, CompressVerify, CompressDrop, CompressCommit,
     CompressIndex, CompressLine, CompressSource, Reheat, ReheatTouch, ReheatRead, ReheatPut,
     ReheatVerify, ReheatDrop, ReheatCommit, ReheatIndex, ReheatLine, ReheatSource, HardDelete,
     DestroyIndex, DestroyLine, DestroyBlob, DestroyRow, history, budgets
<1>2. ASSUME NEW p, StartRequest(p) \/ ContinueRequest(p)
      PROVE  stops' = stops \/ stops' = stops + 1
  <2>1. CASE InitGlobal(p)
    BY <2>1, InitGlobalStep DEF GlobalRead, GlobalFailed
  <2>2. CASE InitBundle(p)
    BY <2>2 DEF InitBundle, InitIndex, InitList, InitBody, InitDone, InitFail, InitReply, history
  <2>3. CASE Remind(p)
    BY <1>1, <2>3 DEF Remind, RemindGet, RemindRead, RemindReply, history
  <2>4. CASE PushRow(p) \/ \E m : PushBlob(p, m) \/ RemindStart(p, m)
    BY <2>4 DEF PushRow, PushBlob, RemindStart, history, budgets
  <2> QED BY <1>2, <2>1, <2>2, <2>3, <2>4 DEF StartRequest, ContinueRequest
<1>3. ASSUME NEW p, StartDream(p) \/ ContinueDream(p)
      PROVE  stops' = stops
  <2>1. CASE StartDream(p)
    BY <2>1 DEF StartDream, StartPass, ScanList, history
  <2>2. CASE Scan(p)
    BY <2>2 DEF Scan, ScanWalk, ScanIndex, RepairOrphan, RepairPairs, RepairTorn, RepairTar,
       ScanDone, history
  <2>3. CASE Pass(p)
    BY <1>1, <2>3 DEF Pass, AgeList, AgeNext, AgeDone, ForgetScan, ForgetList, Forget, ForgetDone,
       TombList, SoftDelete, MarkDone, DoomNext, DoomDone, GateRead, GateValidate, GateWrite,
       history
  <2> QED BY <1>3, <2>1, <2>2, <2>3 DEF ContinueDream
<1>4. CASE Tick \/ UNCHANGED vars
  BY <1>4 DEF Tick, vars, history
<1>5. ASSUME NEW p, Stop(p)
      PROVE  stops' = stops + 1
  BY <1>5 DEF Stop
<1> QED BY <1>1, <1>2, <1>3, <1>4, <1>5 DEF Next, Start, Continue

\* Every step preserves TypeOK.
LEMMA NextTypes == TypeOK /\ [Next]_vars => TypeOK'
<1> SUFFICES ASSUME TypeOK, [Next]_vars PROVE TypeOK'
  OBVIOUS
<1> USE DEF Procs
<1>1. CASE Tick
  BY <1>1, TickType
<1>2. ASSUME NEW p \in Handlers, StartRequest(p)
      PROVE  TypeOK'
  BY <1>2, PushType, RemindType, InitBundleType DEF StartRequest
<1>3. ASSUME NEW p \in Dreams, StartDream(p)
      PROVE  TypeOK'
  BY <1>3, AgeScanType, ScanType DEF StartDream
<1>4. ASSUME NEW p \in Handlers, ContinueRequest(p)
      PROVE  TypeOK'
  BY <1>4, BlankTypes, PushType, RemindType, InitBundleType DEF ContinueRequest
<1>5. ASSUME NEW p \in Dreams, ContinueDream(p)
      PROVE  TypeOK'
  BY <1>5, PassType, ScanType DEF ContinueDream
<1>6. ASSUME NEW p \in Procs, Stop(p)
      PROVE  TypeOK'
  BY <1>6, StopType
<1>7. CASE UNCHANGED vars
  <2>1. UNCHANGED <<rows, blobs, index, clock, loc, pushed, acked, stops, badWrites>>
    BY <1>7 DEF vars
  <2>2. StoreOK' /\ HistoryOK' /\ \A p \in Procs : LocalOK(loc[p])'
    BY <2>1 DEF TypeOK, StoreOK, HistoryOK, LocalOK
  <2> QED BY <2>1, <2>2 DEF TypeOK
<1> QED BY <1>1, <1>2, <1>3, <1>4, <1>5, <1>6, <1>7 DEF Next, Start, Continue

\* Types, and no date in the future, for every number of memories and processes.
THEOREM TypeCorrect == Spec => []TypeOK
BY InitTypes, NextTypes, PTL DEF Spec

=============================================================================
