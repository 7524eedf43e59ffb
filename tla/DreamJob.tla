------------------------------ MODULE DreamJob ------------------------------
(***************************************************************************)
(* The dream command.  A pass (Job.Run) scans for age, then for            *)
(* forgetting, then checks the index before it writes it back.  With       *)
(* --scan --repair (Job.Scan) it removes the files no row refers to.       *)
(* Job.Now is read once, when the command starts.  Any error ends the      *)
(* command.                                                                *)
(***************************************************************************)
EXTENDS ColdTier

(***************************************************************************)
(* ageScan.  Whether a memory is old is decided on the listed rows; the    *)
(* hook is asked of the LLM before Compress starts with Get.               *)
(***************************************************************************)
StartPass(p) ==
  /\ MayStart(p, "pass")
  /\ Become(p, [Idle EXCEPT !.op = "pass", !.pc = "age_list", !.now = clock])
  /\ UNCHANGED <<store, clock, history>>

AgeList(p) ==
  /\ At(p, "age_list")
  /\ \E s \in ByRecency(rows, Aged(rows, loc[p].now)) :
       Become(p, [loc[p] EXCEPT !.todo = s, !.pc = "age"])
  /\ UNCHANGED <<store, clock, history>>

AgeNext(p) ==
  /\ At(p, "age")
  /\ loc[p].todo # <<>>
  /\ LET m == Head(loc[p].todo)
     IN  IF m \in DOMAIN rows
         THEN Become(p, [loc[p] EXCEPT !.mem = m, !.row = rows[m],
                                       !.todo = Tail(@), !.pc = "c_read"])
         ELSE Finish(p)
  /\ UNCHANGED <<store, clock, history>>

AgeDone(p) ==
  /\ At(p, "age")
  /\ loc[p].todo = <<>>
  /\ Goto(p, "forget_list")
  /\ UNCHANGED <<store, clock, history>>

(***************************************************************************)
(* forgetScan: tombstones, then deletion marks, then capped hard deletes.  *)
(***************************************************************************)
ForgetList(p) ==
  /\ At(p, "forget_list")
  /\ \E s \in ByRecency(rows, Forgettable(rows, loc[p].now)) :
       Become(p, [loc[p] EXCEPT !.todo = s, !.pc = "forget"])
  /\ UNCHANGED <<store, clock, history>>

Forget(p) ==
  /\ At(p, "forget")
  /\ loc[p].todo # <<>>
  /\ LET m == Head(loc[p].todo)
     IN  /\ rows' = ForgetRow(rows, m)
         /\ IF m \in DOMAIN rows
            THEN loc' = [loc EXCEPT ![p].todo = Tail(@)]
            ELSE Finish(p)
  /\ UNCHANGED <<blobs, index, clock, history>>

ForgetDone(p) ==
  /\ At(p, "forget")
  /\ loc[p].todo = <<>>
  /\ Goto(p, "tomb_list")
  /\ UNCHANGED <<store, clock, history>>

TombList(p) ==
  /\ At(p, "tomb_list")
  /\ \E s \in ByRecency(rows, Unmarked(rows, loc[p].now)),
        d \in ByMemId(Doomed(rows, loc[p].now)) :
       Become(p, [loc[p] EXCEPT !.todo = s, !.doomed = Capped(d), !.pc = "mark"])
  /\ UNCHANGED <<store, clock, history>>

SoftDelete(p) ==
  /\ At(p, "mark")
  /\ loc[p].todo # <<>>
  /\ rows' = SoftDeleteRow(rows, Head(loc[p].todo), loc[p].now)
  /\ loc' = [loc EXCEPT ![p].todo = Tail(@)]
  /\ UNCHANGED <<blobs, index, clock, history>>

MarkDone(p) ==
  /\ At(p, "mark")
  /\ loc[p].todo = <<>>
  /\ Goto(p, "doom")
  /\ UNCHANGED <<store, clock, history>>

\* HardDelete's Get: a row that is no longer a marked tombstone is left alone.
DoomNext(p) ==
  /\ At(p, "doom")
  /\ loc[p].doomed # <<>>
  /\ LET m == Head(loc[p].doomed)
     IN  IF m \in DOMAIN rows /\ Destroyable(rows[m])
         THEN Become(p, [loc[p] EXCEPT !.mem = m, !.row = rows[m],
                                       !.doomed = Tail(@), !.pc = "h_index"])
         ELSE Become(p, [loc[p] EXCEPT !.doomed = Tail(@)])
  /\ UNCHANGED <<store, clock, history>>

DoomDone(p) ==
  /\ At(p, "doom")
  /\ loc[p].doomed = <<>>
  /\ Goto(p, "gate")
  /\ UNCHANGED <<store, clock, history>>

(***************************************************************************)
(* The gate: GetIndex, then CommitIndex, which lists the rows, validates   *)
(* and writes.                                                             *)
(***************************************************************************)
GateRead(p) ==
  /\ At(p, "gate")
  /\ ReadIndex(p, "g_validate")
  /\ UNCHANGED <<store, clock, history>>

GateValidate(p) ==
  /\ At(p, "g_validate")
  /\ IF ValidIndex(rows, loc[p].idx) THEN Goto(p, "g_write") ELSE Finish(p)
  /\ UNCHANGED <<store, clock, history>>

GateWrite(p) ==
  /\ At(p, "g_write")
  /\ index' = Lines(loc[p].idx)
  /\ Finish(p)
  /\ UNCHANGED <<rows, blobs, clock, history>>

ForgetScan(p) ==
  \/ ForgetList(p) \/ Forget(p) \/ ForgetDone(p) \/ TombList(p) \/ SoftDelete(p)
  \/ MarkDone(p) \/ DoomNext(p) \/ HardDelete(p) \/ DoomDone(p)
Pass(p) ==
  \/ AgeList(p) \/ AgeNext(p) \/ Compress(p) \/ AgeDone(p) \/ ForgetScan(p)
  \/ GateRead(p) \/ GateValidate(p) \/ GateWrite(p)

(***************************************************************************)
(* Scan with repair: ScanConsistency lists the rows, looks for the file of *)
(* each (one step here: it only reports), walks the directory and reads    *)
(* the index; then the orphans go, and after them the .tar of each pair    *)
(* whose .tar.zst is still there.                                          *)
(***************************************************************************)
ScanList(p) ==
  /\ MayStart(p, "scan")
  /\ Become(p, [Idle EXCEPT !.op = "scan", !.pc = "s_walk", !.list = rows,
                            !.finds = DanglingRows(rows, DOMAIN blobs)])
  /\ UNCHANGED <<store, clock, history>>

ScanWalk(p) ==
  /\ At(p, "s_walk")
  /\ Become(p, [loc[p] EXCEPT !.pc = "s_index",
                  !.finds = @ \union OrphanBlobs(loc[p].list, DOMAIN blobs)
                              \union TornPairs(DOMAIN blobs)])
  /\ UNCHANGED <<store, clock, history>>

ScanIndex(p) ==
  /\ At(p, "s_index")
  /\ ReadIndex(p, "s_orphans")
  /\ UNCHANGED <<store, clock, history>>

Found(p, kind) == {f \in loc[p].finds : f.kind = kind}

RepairOrphan(p) ==
  /\ At(p, "s_orphans")
  /\ \E f \in Found(p, "orphan_blob") :
       /\ Remove(f.path)
       /\ loc' = [loc EXCEPT ![p].finds = @ \ {f}]
  /\ UNCHANGED <<rows, index, clock, history>>

RepairPairs(p) ==
  /\ At(p, "s_orphans")
  /\ Found(p, "orphan_blob") = {}
  /\ Goto(p, "s_torn")
  /\ UNCHANGED <<store, clock, history>>

RepairTorn(p) ==
  /\ At(p, "s_torn")
  /\ \E f \in Found(p, "torn_compress") :
       LET rest == loc[p].finds \ {f}
       IN  IF Exists(ZstPath(f.path))
           THEN Become(p, [loc[p] EXCEPT !.finds = rest, !.row.rel = f.path, !.pc = "s_tar"])
           ELSE Become(p, [loc[p] EXCEPT !.finds = rest])
  /\ UNCHANGED <<store, clock, history>>

RepairTar(p) ==
  /\ At(p, "s_tar")
  /\ Remove(loc[p].row.rel)
  /\ Goto(p, "s_torn")
  /\ UNCHANGED <<rows, index, clock, history>>

ScanDone(p) ==
  /\ At(p, "s_torn")
  /\ Found(p, "torn_compress") = {}
  /\ Finish(p)
  /\ UNCHANGED <<store, clock, history>>

Scan(p) ==
  \/ ScanWalk(p) \/ ScanIndex(p) \/ RepairOrphan(p) \/ RepairPairs(p)
  \/ RepairTorn(p) \/ RepairTar(p) \/ ScanDone(p)

StartDream(p) == StartPass(p) \/ ScanList(p)
ContinueDream(p) == Pass(p) \/ Scan(p)
=============================================================================
