------------------------------ MODULE ColdTier ------------------------------
(***************************************************************************)
(* Compress, Reheat and HardDelete of store/sqlite.go, one action per      *)
(* access to the database, the files or the index.  Each begins with Get   *)
(* (in DreamJob and ApiServer, which call them) and works afterwards on    *)
(* the row Get returned, loc[p].row, whatever has happened to it since.    *)
(***************************************************************************)
EXTENDS Processes

ReadIndex(p, label) == loc' = [loc EXCEPT ![p].idx = index, ![p].pc = label]

(***************************************************************************)
(* Compress: .tar -> verified .tar.zst, state long_term, index line, and   *)
(* the source deleted last.                                                *)
(***************************************************************************)
CompressRead(p) ==
  /\ At(p, "c_read")
  /\ IF Exists(loc[p].row.rel)
     THEN loc' = [loc EXCEPT ![p].buf = blobs[loc[p].row.rel], ![p].pc = "c_put"]
     ELSE Finish(p)
  /\ UNCHANGED <<store, clock, history>>

CompressPut(p) ==
  /\ At(p, "c_put")
  /\ StoreBody(ZstPath(loc[p].row.rel), Compressed(loc[p].buf))
  /\ Goto(p, "c_verify")
  /\ UNCHANGED <<rows, index, clock, pushed, acked, stops>>

\* Mutant of ZstVerified: the file is there, whatever it holds.
ZstVerified_Exists(p) == Exists(ZstPath(loc[p].row.rel))
ZstVerified(p) == ReadsBack(ZstPath(loc[p].row.rel), Compressed(loc[p].buf))
CompressVerify(p) ==
  /\ At(p, "c_verify")
  /\ Goto(p, IF ZstVerified(p) THEN "c_commit" ELSE "c_drop")
  /\ UNCHANGED <<store, clock, history>>

CompressDrop(p) ==
  /\ At(p, "c_drop")
  /\ Remove(ZstPath(loc[p].row.rel))
  /\ Finish(p)
  /\ UNCHANGED <<rows, index, clock, history>>

CompressCommit(p) ==
  /\ At(p, "c_commit")
  /\ rows' = ArchiveRow(rows, loc[p].mem, ZstPath(loc[p].row.rel))
  /\ Goto(p, "c_index")
  /\ UNCHANGED <<blobs, index, clock, history>>

CompressIndex(p) ==
  /\ At(p, "c_index")
  /\ ReadIndex(p, "c_line")
  /\ UNCHANGED <<store, clock, history>>

CompressLine(p) ==
  /\ At(p, "c_line")
  /\ index' = WithLine(loc[p].idx, loc[p].mem)
  /\ Goto(p, "c_source")
  /\ UNCHANGED <<rows, blobs, clock, history>>

\* Mutant of CompressSource: keeps the source.
CompressSource_Keeps(p) ==
  /\ At(p, "c_source")
  /\ Return(p, "age")
  /\ UNCHANGED <<store, clock, history>>
CompressSource(p) ==
  /\ At(p, "c_source")
  /\ Remove(loc[p].row.rel)
  /\ Return(p, "age")
  /\ UNCHANGED <<rows, index, clock, history>>

Compress(p) ==
  \/ CompressRead(p) \/ CompressPut(p) \/ CompressVerify(p) \/ CompressDrop(p)
  \/ CompressCommit(p) \/ CompressIndex(p) \/ CompressLine(p) \/ CompressSource(p)

(***************************************************************************)
(* Reheat: the inverse.                                                    *)
(***************************************************************************)
ReheatTouch(p) ==
  /\ At(p, "r_touch")
  /\ rows' = TouchRow(rows, loc[p].mem, clock)
  /\ IF loc[p].mem \in DOMAIN rows THEN Return(p, "m_get") ELSE Finish(p)
  /\ UNCHANGED <<blobs, index, clock, history>>

\* Mutant of ReheatRead: takes the stored bytes as they are.
ReheatRead_Raw(p) ==
  /\ At(p, "r_read")
  /\ IF Exists(loc[p].row.rel)
     THEN loc' = [loc EXCEPT ![p].buf = blobs[loc[p].row.rel], ![p].pc = "r_put"]
     ELSE Finish(p)
  /\ UNCHANGED <<store, clock, history>>

ReheatRead(p) ==
  /\ At(p, "r_read")
  /\ IF Exists(loc[p].row.rel) /\ Decompresses(blobs[loc[p].row.rel])
     THEN loc' = [loc EXCEPT ![p].buf = Decompressed(blobs[loc[p].row.rel]), ![p].pc = "r_put"]
     ELSE Finish(p)
  /\ UNCHANGED <<store, clock, history>>

ReheatPut(p) ==
  /\ At(p, "r_put")
  /\ StoreBody(TarPath(loc[p].row.rel), loc[p].buf)
  /\ Goto(p, "r_verify")
  /\ UNCHANGED <<rows, index, clock, pushed, acked, stops>>

\* Mutant of TarVerified: the file is there, whatever it holds.
TarVerified_Exists(p) == Exists(TarPath(loc[p].row.rel))
TarVerified(p) == ReadsBack(TarPath(loc[p].row.rel), loc[p].buf)
ReheatVerify(p) ==
  /\ At(p, "r_verify")
  /\ Goto(p, IF TarVerified(p) THEN "r_commit" ELSE "r_drop")
  /\ UNCHANGED <<store, clock, history>>

ReheatDrop(p) ==
  /\ At(p, "r_drop")
  /\ Remove(TarPath(loc[p].row.rel))
  /\ Finish(p)
  /\ UNCHANGED <<rows, index, clock, history>>

ReheatCommit(p) ==
  /\ At(p, "r_commit")
  /\ rows' = ReheatRow(rows, loc[p].mem, TarPath(loc[p].row.rel), clock)
  /\ Goto(p, "r_index")
  /\ UNCHANGED <<blobs, index, clock, history>>

\* removeIndex: a missing index file is left missing.
ReheatIndex(p) ==
  /\ At(p, "r_index")
  /\ ReadIndex(p, IF index = NoFile THEN "r_source" ELSE "r_line")
  /\ UNCHANGED <<store, clock, history>>

ReheatLine(p) ==
  /\ At(p, "r_line")
  /\ index' = WithoutLine(loc[p].idx, loc[p].mem)
  /\ Goto(p, "r_source")
  /\ UNCHANGED <<rows, blobs, clock, history>>

\* Mutant of ReheatSource: removes the file the row names now.
ReheatSource_Current(p) ==
  /\ At(p, "r_source")
  /\ Remove(rows[loc[p].mem].rel)
  /\ Return(p, "m_get")
  /\ UNCHANGED <<rows, index, clock, history>>

ReheatSource(p) ==
  /\ At(p, "r_source")
  /\ Remove(loc[p].row.rel)
  /\ Return(p, "m_get")
  /\ UNCHANGED <<rows, index, clock, history>>

Reheat(p) ==
  \/ ReheatTouch(p) \/ ReheatRead(p) \/ ReheatPut(p) \/ ReheatVerify(p) \/ ReheatDrop(p)
  \/ ReheatCommit(p) \/ ReheatIndex(p) \/ ReheatLine(p) \/ ReheatSource(p)

(***************************************************************************)
(* HardDelete: index line, then file, then row.  The history forgets what  *)
(* was acknowledged only when the row that goes is one the rules condemn.  *)
(***************************************************************************)
Condemned(row, now) == Destroyable(row) /\ GraceElapsed(row, now)

\* Mutant of DestroyIndex: the line stays.
DestroyIndex_Keeps(p) ==
  /\ At(p, "h_index")
  /\ ReadIndex(p, "h_blob")
  /\ UNCHANGED <<store, clock, history>>
DestroyIndex(p) ==
  /\ At(p, "h_index")
  /\ ReadIndex(p, IF index = NoFile THEN "h_blob" ELSE "h_line")
  /\ UNCHANGED <<store, clock, history>>

DestroyLine(p) ==
  /\ At(p, "h_line")
  /\ index' = WithoutLine(loc[p].idx, loc[p].mem)
  /\ Goto(p, "h_blob")
  /\ UNCHANGED <<rows, blobs, clock, history>>

DestroyBlob(p) ==
  /\ At(p, "h_blob")
  /\ Remove(loc[p].row.rel)
  /\ Goto(p, "h_row")
  /\ UNCHANGED <<rows, index, clock, history>>

DestroyRow(p) ==
  /\ At(p, "h_row")
  /\ rows' = Without(rows, loc[p].mem)
  /\ acked' = IF loc[p].mem \in DOMAIN rows /\ Condemned(rows[loc[p].mem], clock)
              THEN [acked EXCEPT ![loc[p].mem] = 0] ELSE acked
  /\ Return(p, "doom")
  /\ UNCHANGED <<blobs, index, clock, pushed, budgets>>

HardDelete(p) ==
  DestroyIndex(p) \/ DestroyLine(p) \/ DestroyBlob(p) \/ DestroyRow(p)
=============================================================================
