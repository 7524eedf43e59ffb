---------------------------- MODULE MyWholeLife -----------------------------
(***************************************************************************)
(* The API server and the dream command on one data root: the composition  *)
(* of ApiServer and DreamJob, and what it promises.                        *)
(*                                                                         *)
(* Nothing in the code keeps a request, a pass and a scan apart: Exclusive *)
(* = {} is the deployed system.  With every operation in Exclusive, each   *)
(* one starts on a store nobody else is using, though perhaps one that a   *)
(* stopped operation left half done; that is the setting the code's own    *)
(* ordering (write, verify, commit, delete last) is designed for.          *)
(***************************************************************************)
EXTENDS ApiServer, DreamJob

Start ==
  \/ \E p \in Handlers : StartRequest(p)
  \/ \E p \in Dreams : StartDream(p)
Continue(p) ==
  \/ p \in Handlers /\ ContinueRequest(p)
  \/ p \in Dreams /\ ContinueDream(p)
Next ==
  \/ Tick
  \/ Start
  \/ \E p \in Procs : Continue(p)
  \/ \E p \in Procs : Stop(p)

Spec == Init /\ [][Next]_vars

(***************************************************************************)
(* A started operation goes on (the scheduler runs every process), time    *)
(* passes, and cron starts a pass every night whatever requests came       *)
(* between: strong fairness, since a request may keep an exclusive pass    *)
(* from starting for a while.                                              *)
(***************************************************************************)
Fairness ==
  /\ \A p \in Procs : WF_vars(Continue(p))
  /\ WF_vars(Tick)
  /\ \A p \in Dreams : SF_vars(StartPass(p))
FairSpec == Spec /\ Fairness

(***************************************************************************)
(* Types.                                                                  *)
(***************************************************************************)
Labels ==
  {"idle", "p_row", "r_touch", "r_read", "r_put", "r_verify", "r_drop", "r_commit",
   "r_index", "r_line", "r_source", "m_get", "m_read", "m_reply", "i_index", "i_list",
   "i_body", "i_reply", "age_list", "age", "c_read", "c_put", "c_verify", "c_drop", "c_commit",
   "c_index", "c_line", "c_source", "forget_list", "forget", "tomb_list", "mark", "doom",
   "h_index", "h_line", "h_blob", "h_row", "gate", "g_validate", "g_write", "s_walk",
   "s_index", "s_orphans", "s_torn", "s_tar"}
Kinds == {"dangling_row", "orphan_blob", "torn_compress"}
Findings == [kind : Kinds, path : Paths]

RowsOK(table) ==
  /\ DOMAIN table \subseteq Mems
  /\ \A m \in DOMAIN table : table[m] \in Rows
NotAhead(table, now) == \A m \in DOMAIN table : table[m].at <= now /\ table[m].del <= now
BlobsOK(files) ==
  /\ DOMAIN files \subseteq Paths
  /\ \A path \in DOMAIN files : files[path] \in Bodies
StoreOK ==
  /\ RowsOK(rows) /\ NotAhead(rows, clock)
  /\ BlobsOK(blobs)
  /\ index \in Indexes

Fields == {"op", "pc", "mem", "row", "buf", "idx", "todo", "doomed", "list", "finds", "got", "now"}
LocalOK(l) ==
  /\ DOMAIN l = Fields
  /\ l.op \in Operations \union {NoOp}
  /\ l.pc \in Labels
  /\ l.mem \in Mems
  /\ l.row \in Rows
  /\ l.buf \in Bodies
  /\ l.idx \in Indexes
  /\ l.todo \in Seq(Mems)
  /\ l.doomed \in Seq(Mems)
  /\ RowsOK(l.list)
  /\ l.finds \subseteq Findings
  /\ l.got \subseteq Mems
  /\ l.now \in 0..clock

HistoryOK ==
  /\ pushed \in 0..MaxPush
  /\ acked \in [Mems -> Nat]
  /\ stops \in 0..MaxStops
  /\ badWrites \in 0..MaxBadWrites

\* Every variable has its type; no access_time, deleted_at or Job.Now is later than the clock.
TypeOK ==
  /\ StoreOK
  /\ clock \in 0..MaxClock
  /\ DOMAIN loc = Procs
  /\ \A p \in Procs : LocalOK(loc[p])
  /\ HistoryOK

(***************************************************************************)
(* Nothing a client was told is stored is lost.                            *)
(***************************************************************************)
\* The file of a row can be read the way its state says.
Readable(m) ==
  LET row == rows[m]
  IN  /\ Exists(row.rel)
      /\ blobs[row.rel].zip = IF row.state = "recent" THEN 0 ELSE 1
      /\ blobs[row.rel].ver > 0
\* It gives the acknowledged version.
Intact(m) == Readable(m) /\ blobs[rows[m].rel].ver >= acked[m]

\* After a 204 of writeMemory the memory keeps its row and an intact file until its grace
\* is over: Compress, Reheat and HardDelete lose nothing, wherever they stop (COMP-02).
NoLoss ==
  \A m \in Mems :
    acked[m] > 0 => m \in DOMAIN rows /\ (Condemned(rows[m], clock) \/ Intact(m))

\* A remind that answers 200 sends a tar archive with the acknowledged version, whatever
\* tier the memory was in and whatever went wrong on the way.
RemindFresh ==
  \A p \in Handlers :
    At(p, "m_reply") => IsTar(loc[p].buf) /\ loc[p].buf.ver >= acked[loc[p].mem]

\* Whatever requests and passes overlap or stop, the stored global memory stays recent,
\* unmarked and readable: no list of the dream job, no stale row and no path leads to it
\* (STORE-05).  Not so with a scan, whose repair may delete what a push has just stored.
PinnedSafe ==
  Global \in DOMAIN rows =>
    /\ rows[Global].state = "recent"
    /\ rows[Global].del = Null
    /\ Exists(rows[Global].rel)
    /\ IsTar(blobs[rows[Global].rel])

(***************************************************************************)
(* The lifecycle.                                                          *)
(***************************************************************************)
LifeOf(row) == [stage |-> row.state, used |-> row.at, mark |-> row.del]
Abstract == INSTANCE MemoryLifecycle WITH
  Memories <- Mems, Pinned <- {Global}, now <- clock,
  life <- [m \in DOMAIN rows |-> LifeOf(rows[m])]

\* Requests, passes and stopped operations move each memory only along its lifecycle: the
\* thresholds hold at the step that changes the row, not only when the pass listed it.
Lifecycle == Abstract!LifecycleSpec

\* deleted_at is stamped on an unstamped tombstone and is cleared only by a reheat: a
\* second pass, a push or a forget never resets the grace clock (SoftDelete's guard).
GraceClock ==
  [][\A m \in DOMAIN rows \intersect DOMAIN rows' :
       rows'[m].del # rows[m].del =>
         \/ rows[m].del = Null /\ rows[m].state = "tombstone" /\ rows'[m].state = "tombstone"
         \/ rows'[m].del = Null /\ rows'[m].state = "recent"]_rows

\* HardDelete's DELETE removes a row only while it is a marked tombstone whose grace is over.
DestroysCondemned ==
  [][\A m \in DOMAIN rows \ DOMAIN rows' : Condemned(rows[m], clock)]_rows

\* What HardDelete destroys was marked after it was last used: every disuse has a grace
\* window of its own (DREAM-03).
FreshMark ==
  \A p \in Dreams : At(p, "h_index") => loc[p].row.del >= loc[p].row.at

(***************************************************************************)
(* The index and the bundle.                                               *)
(***************************************************************************)
\* Between operations, as long as none was stopped, long-term-memory.md has a line for each
\* archived memory and no other, though Compress, Reheat and HardDelete write the rows and
\* the lines separately (INDEX-02).
IndexVisible == Quiet /\ stops = 0 => ValidIndex(rows, index)

\* A pass that gets to CommitIndex finds the index valid: an interrupted pass is safe to run
\* again, and a re-push updates in place (DREAM-04).
GatePasses ==
  \A p \in Dreams : At(p, "g_validate") => ValidIndex(rows, loc[p].idx)

\* No line of long-term-memory.md leads nowhere, wherever operations stopped: each names a
\* memory with a row and an archive that a remind can read.  Compress writes the line last,
\* HardDelete takes it away first.
LinesLead == \A m \in Lines(index) : m \in DOMAIN rows /\ Readable(m)

\* A bundle of WriteInitZip misses no stored memory, though reminds that overlap it take
\* memories from the index to the rows: it reads the index first, then the rows and files,
\* so a memory may be in it twice but not left out.  Unless a stop has lost a line, or a
\* failed read ended the bundle early (hazards).
Bundled(p) == At(p, "i_reply") /\ stops = 0
InitComplete ==
  \A p \in Handlers :
    Bundled(p) => DOMAIN rows \subseteq loc[p].got \union Lines(loc[p].idx)

\* ScanConsistency has no findings where no operation was stopped, though verified writes
\* may have gone wrong.
ScanClean ==
  \A p \in Dreams :
    At(p, "s_orphans") /\ stops = 0 => loc[p].finds = {} /\ ValidIndex(loc[p].list, loc[p].idx)

\* When Scan with repair is through, whatever stopped operations had left behind, each file
\* on disk is the one its memory's row refers to.
RepairComplete ==
  \A p \in Dreams :
    At(p, "s_torn") /\ Found(p, "torn_compress") = {} =>
      \A path \in DOMAIN blobs : path[1] \in DOMAIN rows /\ rows[path[1]].rel = path

(***************************************************************************)
(* Progress.                                                               *)
(***************************************************************************)
Overdue(m) ==
  m \in UNION {Aged(rows, clock), Forgettable(rows, clock), Unmarked(rows, clock),
               Doomed(rows, clock)}
\* A project due for its next stage gets there, or is used again, by the nightly passes:
\* neither the deletion cap, nor a stopped pass, nor another memory holds it up for ever.
Progress == \A m \in Projects : Overdue(m) ~> ~Overdue(m)
=============================================================================
