-------------------------- MODULE Lifecycle_proofs ---------------------------
(***************************************************************************)
(* What the steps of the store do to the age of a memory.                  *)
(*                                                                         *)
(* The grace clock needs no assumption.  Every step of every process is at *)
(* most one of seven statements on the memories table, and each of them    *)
(* respects the clock whatever the process believed of the row: the WHERE  *)
(* clauses are evaluated on the row as it is.                              *)
(*                                                                         *)
(* The lifecycle of MemoryLifecycle does.  Archiving, forgetting and hard  *)
(* deletion trust a row read earlier, so they keep the thresholds at the   *)
(* step that changes the row only where what writes runs alone (Guarded).  *)
(* A push of an archived memory makes the row recent and leaves its mark,  *)
(* so it is excluded as well.  There each change of the table is one step  *)
(* of one memory along its lifecycle.                                      *)
(***************************************************************************)
EXTENDS NoLoss_proofs

(***************************************************************************)
(* The grace clock.                                                        *)
(***************************************************************************)
\* The statements a step may execute.
OneStatement ==
  \E m \in Mems :
    \/ rows' = PutRow(rows, m, clock)
    \/ rows' = TouchRow(rows, m, clock)
    \/ rows' = ForgetRow(rows, m)
    \/ rows' = Without(rows, m)
    \/ \E path \in Paths : rows' = ArchiveRow(rows, m, path)
    \/ \E path \in Paths : rows' = ReheatRow(rows, m, path, clock)
    \/ \E when \in 0..clock : rows' = SoftDeleteRow(rows, m, when)

KeepsGrace(old, new) ==
  new.del # old.del =>
    \/ old.del = Null /\ old.state = "tombstone" /\ new.state = "tombstone"
    \/ new.del = Null /\ new.state = "recent"
GraceStep(t, u) == \A m \in DOMAIN t \intersect DOMAIN u : KeepsGrace(t[m], u[m])

\* The statements of each operation.
LEMMA CompressStatement ==
  ASSUME TypeOK, NEW p \in Procs, Compress(p)
  PROVE  UNCHANGED rows \/ OneStatement
<1>1. CASE CompressCommit(p)
  BY <1>1, TypedParts, PathTypes DEF CompressCommit, OneStatement
<1>2. CASE ~CompressCommit(p)
  BY <1>2 DEF Compress, CompressRead, CompressPut, CompressVerify, CompressDrop,
              CompressIndex, CompressLine, CompressSource, store
<1> QED BY <1>1, <1>2

\* A remind touches the row or reheats it.
LEMMA RemindStatement ==
  ASSUME TypeOK, NEW p \in Procs, Remind(p)
  PROVE  UNCHANGED rows \/ OneStatement
<1>1. CASE ReheatCommit(p)
  BY <1>1, TypedParts, PathTypes DEF ReheatCommit, OneStatement
<1>2. CASE ReheatTouch(p)
  BY <1>2, TypedParts DEF ReheatTouch, OneStatement
<1>3. CASE ~ReheatCommit(p) /\ ~ReheatTouch(p)
  BY <1>3 DEF Remind, Reheat, ReheatRead, ReheatPut, ReheatVerify, ReheatDrop, ReheatIndex,
              ReheatLine, ReheatSource, RemindGet, RemindRead, RemindReply, store
<1> QED BY <1>1, <1>2, <1>3

\* The forget scan forgets, marks or deletes a row.
LEMMA ForgetStatement ==
  ASSUME TypeOK, NEW p \in Procs, ForgetScan(p)
  PROVE  UNCHANGED rows \/ OneStatement
<1>1. CASE Forget(p)
  BY <1>1, LoopType DEF Forget, OneStatement
<1>2. CASE SoftDelete(p)
  BY <1>2, LoopType, TypedParts DEF SoftDelete, OneStatement
<1>3. CASE DestroyRow(p)
  BY <1>3, TypedParts DEF DestroyRow, OneStatement
<1>4. CASE ~Forget(p) /\ ~SoftDelete(p) /\ ~DestroyRow(p)
  BY <1>4 DEF ForgetScan, HardDelete, ForgetList, ForgetDone, TombList, MarkDone, DoomNext,
              DestroyIndex, DestroyLine, DestroyBlob, DoomDone, store
<1> QED BY <1>1, <1>2, <1>3, <1>4

\* Every step of every process is at most one statement.
LEMMA NextStatement ==
  ASSUME TypeOK, [Next]_vars
  PROVE  UNCHANGED rows \/ OneStatement
<1> USE DEF Procs
<1>1. CASE Tick
  BY <1>1 DEF Tick, store
<1>2. ASSUME NEW p \in Handlers, StartRequest(p)
      PROVE  UNCHANGED rows
  BY <1>2 DEF StartRequest, PushBlob, RemindStart, InitGlobal, store
<1>3. ASSUME NEW p \in Dreams, StartDream(p)
      PROVE  UNCHANGED rows
  BY <1>3 DEF StartDream, StartPass, ScanList, store
<1>4. ASSUME NEW p \in Handlers, ContinueRequest(p)
      PROVE  UNCHANGED rows \/ OneStatement
  <2>1. CASE PushRow(p)
    BY <2>1, TypedParts DEF PushRow, OneStatement
  <2>2. CASE InitBundle(p)
    BY <2>2 DEF InitBundle, InitIndex, InitList, InitBody, InitDone, InitFail,
       InitReply, store
  <2> QED BY <1>4, <2>1, <2>2, RemindStatement DEF ContinueRequest
<1>5. ASSUME NEW p \in Dreams, ContinueDream(p)
      PROVE  UNCHANGED rows \/ OneStatement
  <2>1. CASE Scan(p)
    BY <2>1 DEF Scan, ScanWalk, ScanIndex, RepairOrphan, RepairPairs, RepairTorn, RepairTar,
                ScanDone, store
  <2>2. CASE Pass(p)
    BY <2>2, CompressStatement, ForgetStatement
       DEF Pass, AgeList, AgeNext, AgeDone, GateRead, GateValidate, GateWrite, store
  <2> QED BY <1>5, <2>1, <2>2 DEF ContinueDream
<1>6. ASSUME NEW p \in Procs, Stop(p)
      PROVE  UNCHANGED rows
  BY <1>6 DEF Stop, store
<1>7. CASE UNCHANGED vars
  BY <1>7 DEF vars
<1> QED BY <1>1, <1>2, <1>3, <1>4, <1>5, <1>6, <1>7 DEF Next, Start, Continue

\* An UPDATE of one row keeps the grace clock if the new row does.
LEMMA UpdateGrace ==
  ASSUME NEW t, NEW m, NEW where, NEW r, m \in DOMAIN t /\ where => KeepsGrace(t[m], r)
  PROVE  GraceStep(t, UpdateRow(t, m, where, r))
BY DEF GraceStep, KeepsGrace, UpdateRow

\* Each statement keeps the grace clock.
LEMMA StatementGrace ==
  ASSUME TypeOK, OneStatement
  PROVE  GraceStep(rows, rows')
<1> PICK m \in Mems :
      \/ rows' = PutRow(rows, m, clock)
      \/ rows' = TouchRow(rows, m, clock)
      \/ rows' = ForgetRow(rows, m)
      \/ rows' = Without(rows, m)
      \/ \E path \in Paths : rows' = ArchiveRow(rows, m, path)
      \/ \E path \in Paths : rows' = ReheatRow(rows, m, path, clock)
      \/ \E when \in 0..clock : rows' = SoftDeleteRow(rows, m, when)
  BY DEF OneStatement
<1>r. \A x \in DOMAIN rows : rows[x] \in Rows
  BY DEF TypeOK, StoreOK, RowsOK
<1>1. CASE rows' = PutRow(rows, m, clock)
  BY <1>1 DEF PutRow, With, GraceStep, KeepsGrace
<1>2. CASE rows' = TouchRow(rows, m, clock)
  <2>1. m \in DOMAIN rows => KeepsGrace(rows[m], [rows[m] EXCEPT !.at = clock])
    BY <1>r DEF KeepsGrace, Rows
  <2> QED BY <1>2, <2>1, UpdateGrace DEF TouchRow
<1>3. CASE rows' = ForgetRow(rows, m)
  <2>1. m \in DOMAIN rows => KeepsGrace(rows[m], [rows[m] EXCEPT !.state = "tombstone"])
    BY <1>r DEF KeepsGrace, Rows
  <2> QED BY <1>3, <2>1, UpdateGrace DEF ForgetRow
<1>4. CASE rows' = Without(rows, m)
  BY <1>4 DEF Without, GraceStep, KeepsGrace
<1>5. ASSUME NEW path \in Paths, rows' = ArchiveRow(rows, m, path)
      PROVE  GraceStep(rows, rows')
  <2>1. m \in DOMAIN rows =>
          KeepsGrace(rows[m], [rows[m] EXCEPT !.state = "long_term", !.rel = path])
    BY <1>r DEF KeepsGrace, Rows
  <2> QED BY <1>5, <2>1, UpdateGrace DEF ArchiveRow
<1>6. ASSUME NEW path \in Paths, rows' = ReheatRow(rows, m, path, clock)
      PROVE  GraceStep(rows, rows')
  <2>1. KeepsGrace(rows[m], [state |-> "recent", rel |-> path, at |-> clock, del |-> Null])
    BY DEF KeepsGrace
  <2> QED BY <1>6, <2>1, UpdateGrace DEF ReheatRow
<1>7. ASSUME NEW when \in 0..clock, rows' = SoftDeleteRow(rows, m, when)
      PROVE  GraceStep(rows, rows')
  <2>1. m \in DOMAIN rows /\ Markable(rows[m]) =>
          KeepsGrace(rows[m], [rows[m] EXCEPT !.del = when])
    BY <1>r DEF KeepsGrace, Markable, Rows
  <2> QED BY <1>7, <2>1, UpdateGrace DEF SoftDeleteRow
<1> QED BY <1>1, <1>2, <1>3, <1>4, <1>5, <1>6, <1>7

\* With any number of processes that overlap anywhere, the grace clock of every memory is
\* started once, on a tombstone, and stopped only by a reheat.
THEOREM GraceClockKept == Spec => GraceClock
<1>1. TypeOK /\ [Next]_vars =>
        [\A m \in DOMAIN rows \intersect DOMAIN rows' :
           rows'[m].del # rows[m].del =>
             \/ rows[m].del = Null /\ rows[m].state = "tombstone" /\ rows'[m].state = "tombstone"
             \/ rows'[m].del = Null /\ rows'[m].state = "recent"]_rows
  <2> SUFFICES ASSUME TypeOK, [Next]_vars, rows' # rows
               PROVE  \A m \in DOMAIN rows \intersect DOMAIN rows' : KeepsGrace(rows[m], rows'[m])
    BY DEF KeepsGrace
  <2> QED BY NextStatement, StatementGrace DEF GraceStep
<1> QED BY <1>1, TypeCorrect, PTL DEF Spec, GraceClock

(***************************************************************************)
(* Marks and uses.                                                         *)
(***************************************************************************)
\* The settings of the lifecycle: what writes runs alone, and only recent memories are pushed
\* again.
Gentle == Guarded /\ "repush" \notin Workload

\* A recent row carries no mark, and a mark is not older than the last use.
FreshRow(row) ==
  /\ Warm(row) => row.del = Null
  /\ row.del # Null => row.del >= row.at
\* A first push finds no archived row, and HardDelete holds the row as it is.
FreshLocal(l, t) ==
  /\ l.pc = "p_row" /\ l.mem \in DOMAIN t => Warm(t[l.mem])
  /\ l.pc = "h_index" => l.row.del >= l.row.at
Fresh ==
  /\ \A m \in DOMAIN rows : FreshRow(rows[m])
  /\ \A p \in Procs : FreshLocal(loc[p], rows)

\* One memory moves along its lifecycle.
Recent(path, now) == [state |-> "recent", rel |-> path, at |-> now, del |-> Null]
StageMove ==
  \E m \in Mems :
    \/ \E path \in Paths : rows' = With(rows, m, Recent(path, clock))
    \/ m \in Aged(rows, clock) /\ \E path \in Paths : rows' = ArchiveRow(rows, m, path)
    \/ m \in Forgettable(rows, clock) /\ rows' = ForgetRow(rows, m)
    \/ \E when \in 0..clock : m \in Unmarked(rows, when) /\ rows' = SoftDeleteRow(rows, m, when)
    \/ m \in Doomed(rows, clock) /\ rows' = Without(rows, m)

\* What is old enough stays old enough.
LEMMA SelectionsGrow ==
  ASSUME NEW t, RowsOK(t), NEW now \in Nat, NEW late \in Nat, now <= late
  PROVE  /\ Aged(t, now) \subseteq Aged(t, late)
         /\ Forgettable(t, now) \subseteq Forgettable(t, late)
         /\ Doomed(t, now) \subseteq Doomed(t, late)
<1>1. \A m \in DOMAIN t : t[m].at \in Nat /\ t[m].del \in Nat \union {Null}
  BY DEF RowsOK, Rows
<1>2. T1 \in Nat /\ T2 \in Nat /\ Grace \in Nat
  BY ConfigAssumption
<1> QED BY <1>1, <1>2 DEF Aged, Forgettable, Doomed, InState, GraceElapsed, Null

\* The selected rows, by name.
LEMMA SelectedRows ==
  ASSUME NEW t, RowsOK(t), NEW m, NEW now
  PROVE  /\ m \in Aged(t, now) \/ m \in Forgettable(t, now) \/ m \in Unmarked(t, now)
              \/ m \in Doomed(t, now) => m \in DOMAIN t /\ m \in Mems /\ t[m] \in Rows /\ ~Exempt(m)
         /\ m \in Aged(t, now) => Warm(t[m]) /\ now - t[m].at > T1
         /\ m \in Forgettable(t, now) => t[m].state = "long_term" /\ now - t[m].at > T2
         /\ m \in Unmarked(t, now) => Markable(t[m]) /\ now - t[m].at > T3
         /\ m \in Doomed(t, now) => Condemned(t[m], now)
BY DEF RowsOK, Aged, Forgettable, Unmarked, Doomed, InState, Warm, Markable, Condemned, Destroyable,
   GraceElapsed

\* A move keeps the marks right.
LEMMA MoveFresh ==
  ASSUME TypeOK, \A m \in DOMAIN rows : FreshRow(rows[m]), StageMove
  PROVE  \A m \in DOMAIN rows' : FreshRow(rows'[m])
<1>r. RowsOK(rows) /\ clock \in Nat
  BY BoundAssumption DEF TypeOK, StoreOK
<1>p. \A m \in DOMAIN rows : rows[m] \in Rows
  BY <1>r DEF RowsOK
<1>1. ASSUME NEW m \in Mems, NEW path \in Paths, rows' = With(rows, m, Recent(path, clock))
      PROVE  \A x \in DOMAIN rows' : FreshRow(rows'[x])
  <2>1. FreshRow(Recent(path, clock))
    BY DEF FreshRow, Recent
  <2> QED BY <1>1, <2>1 DEF With
<1>2. ASSUME NEW m, NEW where, NEW r, rows' = UpdateRow(rows, m, where, r),
             m \in DOMAIN rows /\ where => FreshRow(r)
      PROVE  \A x \in DOMAIN rows' : FreshRow(rows'[x])
  BY <1>2 DEF UpdateRow
<1>3. ASSUME NEW m \in Aged(rows, clock), NEW path \in Paths, rows' = ArchiveRow(rows, m, path)
      PROVE  \A x \in DOMAIN rows' : FreshRow(rows'[x])
  <2>1. FreshRow([rows[m] EXCEPT !.state = "long_term", !.rel = path])
    BY <1>r, SelectedRows DEF FreshRow, Rows, Warm
  <2> QED BY <1>2, <1>3, <2>1 DEF ArchiveRow
<1>4. ASSUME NEW m \in Forgettable(rows, clock), rows' = ForgetRow(rows, m)
      PROVE  \A x \in DOMAIN rows' : FreshRow(rows'[x])
  <2>1. FreshRow([rows[m] EXCEPT !.state = "tombstone"])
    BY <1>r, SelectedRows DEF FreshRow, Rows, Warm
  <2> QED BY <1>2, <1>4, <2>1 DEF ForgetRow
<1>5. ASSUME NEW when \in 0..clock, NEW m \in Unmarked(rows, when),
             rows' = SoftDeleteRow(rows, m, when)
      PROVE  \A x \in DOMAIN rows' : FreshRow(rows'[x])
  <2>1. /\ rows[m] \in Rows /\ rows[m].state = "tombstone" /\ when - rows[m].at > T3
        /\ rows[m].at \in Nat /\ T3 \in Nat /\ when \in Nat
    BY <1>r, SelectedRows, ConfigAssumption DEF Markable, Rows
  <2>2. FreshRow([rows[m] EXCEPT !.del = when])
    BY <2>1 DEF FreshRow, Rows, Warm
  <2> QED BY <1>2, <1>5, <2>2 DEF SoftDeleteRow
<1>6. ASSUME NEW m, rows' = Without(rows, m)
      PROVE  \A x \in DOMAIN rows' : FreshRow(rows'[x])
  BY <1>6 DEF Without
<1> QED BY <1>1, <1>3, <1>4, <1>5, <1>6 DEF StageMove

\* What every step of an operation but two does: it goes on to a label where nothing of Fresh
\* is at stake, and moves at most one memory.
Onward(p) == \E k : loc' = [loc EXCEPT ![p] = k] /\ k.pc \notin {"p_row", "h_index"}
Moved(p) == Onward(p) /\ UNCHANGED clock /\ (UNCHANGED rows \/ StageMove)

\* The forms of step that go on.
LEMMA OnwardForms ==
  ASSUME TypeOK, NEW p \in Procs
  PROVE  /\ \A k : k.pc \notin {"p_row", "h_index"} /\ loc' = [loc EXCEPT ![p] = k] => Onward(p)
         /\ \A k : k.pc \notin {"p_row", "h_index"} /\ Become(p, k) => Onward(p)
         /\ Finish(p) => Onward(p)
         /\ \A label : label \notin {"p_row", "h_index"} =>
              /\ Goto(p, label) \/ ReadIndex(p, label) \/ Return(p, label) => Onward(p)
              /\ \A b : \/ loc' = [loc EXCEPT ![p].buf = b, ![p].pc = label]
                       \/ loc' = [loc EXCEPT ![p].row = b, ![p].pc = label] => Onward(p)
<1>t. DOMAIN loc[p] = Fields
  BY TypedParts DEF LocalOK
<1>1. \A k : k.pc \notin {"p_row", "h_index"} /\ loc' = [loc EXCEPT ![p] = k] => Onward(p)
  BY DEF Onward
<1>2. Finish(p) => Onward(p)
  BY <1>1, BlankTypes DEF Finish
<1>3. ASSUME NEW label, label \notin {"p_row", "h_index"},
             Goto(p, label) \/ ReadIndex(p, label) \/ Return(p, label)
      PROVE  Onward(p)
  <2>1. CASE Goto(p, label)
    <3>1. loc' = [loc EXCEPT ![p] = [loc[p] EXCEPT !.pc = label]]
      BY <2>1 DEF Goto
    <3>2. [loc[p] EXCEPT !.pc = label].pc = label
      BY <1>t DEF Fields
    <3> QED BY <1>1, <1>3, <3>1, <3>2
  <2>2. CASE ReadIndex(p, label)
    <3>1. loc' = [loc EXCEPT ![p] = [loc[p] EXCEPT !.idx = index, !.pc = label]]
      BY <2>2 DEF ReadIndex
    <3>2. [loc[p] EXCEPT !.idx = index, !.pc = label].pc = label
      BY <1>t DEF Fields
    <3> QED BY <1>1, <1>3, <3>1, <3>2
  <2>3. CASE Return(p, label)
    <3> DEFINE k == [loc[p] EXCEPT !.pc = label, !.row = BlankRow, !.buf = Garbage, !.idx = NoFile]
    <3>1. loc' = [loc EXCEPT ![p] = k]
      BY <2>3 DEF Return
    <3>2. k.pc = label
      BY <1>t DEF Fields
    <3> QED BY <1>1, <1>3, <3>1, <3>2
  <2> QED BY <1>3, <2>1, <2>2, <2>3
<1>4. ASSUME NEW label, label \notin {"p_row", "h_index"}, NEW b,
             \/ loc' = [loc EXCEPT ![p].buf = b, ![p].pc = label]
             \/ loc' = [loc EXCEPT ![p].row = b, ![p].pc = label]
      PROVE  Onward(p)
  <2>1. CASE loc' = [loc EXCEPT ![p].buf = b, ![p].pc = label]
    <3>1. loc' = [loc EXCEPT ![p] = [loc[p] EXCEPT !.buf = b, !.pc = label]]
      BY <2>1
    <3>2. [loc[p] EXCEPT !.buf = b, !.pc = label].pc = label
      BY <1>t DEF Fields
    <3> QED BY <1>1, <1>4, <3>1, <3>2
  <2>2. CASE loc' = [loc EXCEPT ![p].row = b, ![p].pc = label]
    <3>1. loc' = [loc EXCEPT ![p] = [loc[p] EXCEPT !.row = b, !.pc = label]]
      BY <2>2
    <3>2. [loc[p] EXCEPT !.row = b, !.pc = label].pc = label
      BY <1>t DEF Fields
    <3> QED BY <1>1, <1>4, <3>1, <3>2
  <2> QED BY <1>4, <2>1, <2>2
<1> QED BY <1>1, <1>2, <1>3, <1>4 DEF Become

\* A step that leaves the rows alone keeps the marks right.
LEMMA OnwardFresh ==
  ASSUME Kept, Fresh, NEW p \in Procs, Onward(p), UNCHANGED rows
  PROVE  Fresh'
<1> PICK k : loc' = [loc EXCEPT ![p] = k] /\ k.pc \notin {"p_row", "h_index"}
  BY DEF Onward
<1>1. \A q \in Procs : loc'[q] = IF q = p THEN k ELSE loc[q]
  BY DEF Kept, TypeOK
<1>2. \A q \in Procs : FreshLocal(loc'[q], rows)
  BY <1>1 DEF Fresh, FreshLocal
<1> QED BY <1>2 DEF Fresh, FreshLocal

\* So does a move: a push that has its file written is alone, and nobody moves.
LEMMA MovedFresh ==
  ASSUME Guarded, Kept, Fresh, NEW p \in Procs, loc[p].pc \in AnyLabels, Onward(p), StageMove
  PROVE  Fresh'
<1> PICK k : loc' = [loc EXCEPT ![p] = k] /\ k.pc \notin {"p_row", "h_index"}
  BY DEF Onward
<1>1. \A q \in Procs : loc'[q] = IF q = p THEN k ELSE loc[q]
  BY DEF Kept, TypeOK
<1>2. loc[p] # Idle
  BY OpOfLabel DEF Kept, Separate
<1>3. \A q \in Procs : q # p => loc[q].pc # "p_row"
  BY <1>2, GuardedSolo DEF Solo, PushLabels
<1>4. \A q \in Procs : FreshLocal(loc'[q], rows')
  BY <1>1, <1>3 DEF Fresh, FreshLocal
<1>5. \A m \in DOMAIN rows' : FreshRow(rows'[m])
  BY MoveFresh DEF Fresh, Kept
<1> QED BY <1>4, <1>5 DEF Fresh

\* Compress archives an aged memory.
LEMMA CompressMoves ==
  ASSUME Kept, NEW p \in Procs, Compress(p)
  PROVE  Moved(p)
<1>t. TypeOK
  BY DEF Kept
<1>1. CASE CompressRead(p)
  <2>1. Finish(p) \/ \E b : loc' = [loc EXCEPT ![p].buf = b, ![p].pc = "c_put"]
    BY <1>1 DEF CompressRead
  <2>2. ASSUME NEW b, loc' = [loc EXCEPT ![p].buf = b, ![p].pc = "c_put"]
        PROVE  Onward(p)
    BY <1>t, <2>2, OnwardForms
  <2> QED BY <1>t, <1>1, <2>1, <2>2, OnwardForms DEF CompressRead, Moved, store
<1>2. CASE CompressCommit(p)
  <2> DEFINE m == loc[p].mem
  <2>1. loc[p].pc = "c_commit" /\ loc[p].pc \in CompressLabels
    BY <1>2 DEF CompressCommit, At, CompressLabels
  <2>2. m \in Aged(rows, loc[p].now)
    BY <2>1 DEF Kept, LocalKept, CompressKept
  <2>3. m \in Aged(rows, clock) /\ m \in Mems
    BY <1>t, <2>2, TypedParts, SelectionsGrow
  <2>4. ZstPath(loc[p].row.rel) \in Paths
    BY <1>t, TypedParts, PathTypes
  <2>5. StageMove
    BY <1>2, <2>3, <2>4 DEF CompressCommit, StageMove
  <2> QED BY <1>t, <1>2, <2>5, OnwardForms DEF CompressCommit, Moved
<1>3. CASE CompressPut(p) \/ CompressVerify(p) \/ CompressDrop(p)
  BY <1>t, <1>3, OnwardForms DEF CompressPut, CompressVerify, CompressDrop, Moved, store
<1>4. CASE CompressIndex(p) \/ CompressLine(p) \/ CompressSource(p)
  BY <1>t, <1>4, OnwardForms DEF CompressIndex, CompressLine, CompressSource, Moved, store
<1> QED BY <1>1, <1>2, <1>3, <1>4 DEF Compress

\* A new recent row is a use.
LEMMA UseMoves ==
  ASSUME NEW m \in Mems, m \in DOMAIN rows, NEW path \in Paths,
         rows' = UpdateRow(rows, m, TRUE, Recent(path, clock))
  PROVE  StageMove
<1>1. rows' = With(rows, m, Recent(path, clock))
  BY DEF UpdateRow, With
<1> QED BY <1>1 DEF StageMove

\* A remind touches a recent memory or makes an archived one recent.
LEMMA RemindMoves ==
  ASSUME Kept, Fresh, NEW p \in Procs, Remind(p) \/ \E m \in Mems : RemindStart(p, m)
  PROVE  Moved(p)
<1> DEFINE l == loc[p]
           m == l.mem
<1>t. TypeOK /\ RowsOK(rows) /\ DOMAIN l = Fields /\ m \in Mems /\ l.row.rel \in Paths
  BY TypedParts DEF Kept, LocalOK
<1>1. CASE ReheatTouch(p)
  <2>1. l.pc = "r_touch" /\ l.pc \in RemindLabels \ ReheatLabels
    BY <1>1 DEF ReheatTouch, At, RemindLabels, ReheatLabels
  <2>2. m \in DOMAIN rows /\ Warm(rows[m])
    BY <2>1, RemindHand DEF RemindKept
  <2>3. rows[m] \in Rows /\ rows[m].del = Null
    BY <1>t, <2>2 DEF Fresh, FreshRow, RowsOK
  <2>4. [rows[m] EXCEPT !.at = clock] = Recent(rows[m].rel, clock) /\ rows[m].rel \in Paths
    BY <2>2, <2>3 DEF Rows, Recent, Warm
  <2>5. rows' = UpdateRow(rows, m, TRUE, [rows[m] EXCEPT !.at = clock])
    BY <1>1 DEF ReheatTouch, TouchRow
  <2>6. StageMove
    BY <1>t, <2>2, <2>4, <2>5, UseMoves
  <2> QED BY <1>t, <1>1, <2>6, OnwardForms DEF ReheatTouch, Moved
<1>2. CASE ReheatCommit(p)
  <2>1. l.pc \in RemindLabels
    BY <1>2 DEF ReheatCommit, At, RemindLabels, ReheatLabels
  <2>2. m \in DOMAIN rows
    BY <2>1, RemindHand DEF RemindKept
  <2>3. TarPath(l.row.rel) \in Paths
    BY <1>t, PathTypes
  <2>4. rows' = UpdateRow(rows, m, TRUE, Recent(TarPath(l.row.rel), clock))
    BY <1>2 DEF ReheatCommit, ReheatRow, Recent
  <2>5. StageMove
    BY <1>t, <2>2, <2>3, <2>4, UseMoves
  <2> QED BY <1>t, <1>2, <2>5, OnwardForms DEF ReheatCommit, Moved
<1>3. CASE ReheatPut(p) \/ ReheatVerify(p) \/ ReheatDrop(p) \/ ReheatIndex(p)
  BY <1>t, <1>3, OnwardForms DEF ReheatPut, ReheatVerify, ReheatDrop, ReheatIndex, Moved, store
<1>4. CASE ReheatLine(p) \/ ReheatSource(p) \/ RemindReply(p)
  BY <1>t, <1>4, OnwardForms DEF ReheatLine, ReheatSource, RemindReply, Moved, store
<1>5. CASE ReheatRead(p) \/ RemindGet(p) \/ RemindRead(p)
  <2>1. \/ Finish(p)
        \/ \E b : loc' = [loc EXCEPT ![p].buf = b, ![p].pc = "r_put"]
        \/ \E b : loc' = [loc EXCEPT ![p].row = b, ![p].pc = "m_read"]
        \/ \E b : loc' = [loc EXCEPT ![p].buf = b, ![p].pc = "m_reply"]
    BY <1>5 DEF ReheatRead, RemindGet, RemindRead
  <2>2. ASSUME NEW b, \/ loc' = [loc EXCEPT ![p].buf = b, ![p].pc = "r_put"]
                      \/ loc' = [loc EXCEPT ![p].row = b, ![p].pc = "m_read"]
                      \/ loc' = [loc EXCEPT ![p].buf = b, ![p].pc = "m_reply"]
        PROVE  Onward(p)
    BY <1>t, <2>2, OnwardForms
  <2> QED BY <1>t, <1>5, <2>1, <2>2, OnwardForms DEF ReheatRead, RemindGet, RemindRead, Moved, store
<1>6. ASSUME NEW x \in Mems, RemindStart(p, x)
      PROVE  Moved(p)
  <2> DEFINE k == [Idle EXCEPT !.op = "remind", !.mem = x, !.row = rows[x],
                               !.pc = IF rows[x].state = "recent" THEN "r_touch" ELSE "r_read"]
  <2>1. k.pc \in {"r_touch", "r_read"} /\ Become(p, k)
    BY <1>6, BlankTypes DEF RemindStart
  <2> HIDE DEF k
  <2> QED BY <1>t, <1>6, <2>1, OnwardForms DEF RemindStart, Moved, store
<1> QED BY <1>1, <1>2, <1>3, <1>4, <1>5, <1>6 DEF Remind, Reheat

\* The loops of the forget scan leave the list shorter.
LEMMA LoopForms ==
  ASSUME TypeOK, NEW p \in Procs, loc[p].pc \notin {"p_row", "h_index"}
  PROVE  /\ \A s : loc' = [loc EXCEPT ![p].todo = s] => Onward(p)
         /\ \A s : Become(p, [loc[p] EXCEPT !.doomed = s]) => Onward(p)
<1>t. DOMAIN loc[p] = Fields
  BY TypedParts DEF LocalOK
<1>1. ASSUME NEW s, loc' = [loc EXCEPT ![p].todo = s]
      PROVE  Onward(p)
  <2>1. loc' = [loc EXCEPT ![p] = [loc[p] EXCEPT !.todo = s]]
    BY <1>1
  <2>2. [loc[p] EXCEPT !.todo = s].pc = loc[p].pc
    BY <1>t DEF Fields
  <2> QED BY <2>1, <2>2, OnwardForms
<1>2. ASSUME NEW s, Become(p, [loc[p] EXCEPT !.doomed = s])
      PROVE  Onward(p)
  <2>1. [loc[p] EXCEPT !.doomed = s].pc = loc[p].pc
    BY <1>t DEF Fields
  <2> QED BY <1>2, <2>1, OnwardForms
<1> QED BY <1>1, <1>2

\* The forget scan forgets, marks and destroys what is due.
LEMMA ForgetScanMoves ==
  ASSUME Kept, NEW p \in Procs, ForgetScan(p), ~DoomNext(p)
  PROVE  Moved(p)
<1> DEFINE l == loc[p]
           m == Head(l.todo)
<1>t. TypeOK /\ RowsOK(rows) /\ DOMAIN l = Fields /\ l.now \in 0..clock /\ clock \in Nat
      /\ l.mem \in Mems /\ l.todo \in Seq(Mems)
  BY TypedParts DEF Kept, LocalOK
<1>k. ForgetKept(l, rows)
  BY DEF Kept, LocalKept
<1>1. CASE ForgetList(p)
  <2>1. PICK s : Become(p, [l EXCEPT !.todo = s, !.pc = "forget"])
    BY <1>1 DEF ForgetList
  <2>2. [l EXCEPT !.todo = s, !.pc = "forget"].pc = "forget"
    BY <1>t DEF Fields
  <2> QED BY <1>t, <1>1, <2>1, <2>2, OnwardForms DEF ForgetList, Moved, store
<1>2. CASE Forget(p)
  <2>1. l.pc = "forget" /\ l.todo # <<>> /\ rows' = ForgetRow(rows, m)
    BY <1>2 DEF Forget, At
  <2>2. m \in Forgettable(rows, l.now)
    BY <1>t, <1>k, <2>1, NextAhead DEF ForgetKept
  <2>3. m \in Forgettable(rows, clock) /\ m \in Mems
    BY <1>t, <2>2, SelectionsGrow, SelectedRows
  <2>4. Onward(p)
    BY <1>t, <1>2, <2>1, LoopForms, OnwardForms DEF Forget
  <2> QED BY <1>2, <2>1, <2>3, <2>4 DEF Forget, Moved, StageMove
<1>3. CASE ForgetDone(p) \/ MarkDone(p) \/ DoomDone(p)
  BY <1>t, <1>3, OnwardForms DEF ForgetDone, MarkDone, DoomDone, Moved, store
<1>4. CASE TombList(p)
  <2>1. PICK s, d : Become(p, [l EXCEPT !.todo = s, !.doomed = d, !.pc = "mark"])
    BY <1>4 DEF TombList
  <2>2. [l EXCEPT !.todo = s, !.doomed = d, !.pc = "mark"].pc = "mark"
    BY <1>t DEF Fields
  <2> QED BY <1>t, <1>4, <2>1, <2>2, OnwardForms DEF TombList, Moved, store
<1>5. CASE SoftDelete(p)
  <2>1. l.pc = "mark" /\ l.todo # <<>> /\ rows' = SoftDeleteRow(rows, m, l.now)
    BY <1>5 DEF SoftDelete, At
  <2>2. m \in Unmarked(rows, l.now)
    BY <1>t, <1>k, <2>1, NextAhead DEF ForgetKept
  <2>3. m \in Mems
    BY <1>t, <2>2, SelectedRows
  <2>4. Onward(p)
    BY <1>t, <1>5, <2>1, LoopForms DEF SoftDelete
  <2> QED BY <1>t, <1>5, <2>1, <2>2, <2>3, <2>4 DEF SoftDelete, Moved, StageMove
<1>6. CASE HardDelete(p)
  <2>1. CASE DestroyIndex(p) \/ DestroyLine(p) \/ DestroyBlob(p)
    BY <1>t, <2>1, OnwardForms DEF DestroyIndex, DestroyLine, DestroyBlob, Moved, store
  <2>2. CASE DestroyRow(p)
    <3>1. l.pc \in DestroyLabels /\ rows' = Without(rows, l.mem)
      BY <2>2 DEF DestroyRow, At, DestroyLabels
    <3>2. l.mem \in Doomed(rows, l.now)
      BY <1>k, <3>1 DEF ForgetKept
    <3>3. l.mem \in Doomed(rows, clock)
      BY <1>t, <3>2, SelectionsGrow
    <3>4. StageMove
      BY <1>t, <3>1, <3>3 DEF StageMove
    <3> QED BY <1>t, <2>2, <3>4, OnwardForms DEF DestroyRow, Moved
  <2> QED BY <1>6, <2>1, <2>2 DEF HardDelete
<1> QED BY <1>1, <1>2, <1>3, <1>4, <1>5, <1>6 DEF ForgetScan

\* The rest of a pass, a scan and an init bundle move nothing.
LEMMA OtherMoves ==
  ASSUME Kept, NEW p \in Procs,
         \/ StartPass(p) \/ AgeList(p) \/ AgeNext(p) \/ AgeDone(p)
         \/ GateRead(p) \/ GateValidate(p) \/ GateWrite(p)
         \/ ScanList(p) \/ Scan(p) \/ InitGlobal(p) \/ InitBundle(p) \/ Stop(p)
  PROVE  Moved(p)
<1> DEFINE l == loc[p]
<1>t. TypeOK /\ DOMAIN l = Fields
  BY TypedParts DEF Kept, LocalOK
<1>e. ASSUME NEW k, k.pc \notin {"p_row", "h_index"}, Become(p, k), UNCHANGED <<rows, clock>>
      PROVE  Moved(p)
  BY <1>t, <1>e, OnwardForms DEF Moved
<1>0. Idle.pc = "idle" /\ DOMAIN Idle = Fields
  BY BlankTypes DEF Fields
<1>1. CASE StartPass(p)
  <2>1. [Idle EXCEPT !.op = "pass", !.pc = "age_list", !.now = clock].pc = "age_list"
    BY BlankTypes
  <2> QED BY <1>1, <1>e, <2>1 DEF StartPass, store
<1>2. CASE AgeList(p)
  <2>1. PICK s : Become(p, [l EXCEPT !.todo = s, !.pc = "age"])
    BY <1>2 DEF AgeList
  <2>2. [l EXCEPT !.todo = s, !.pc = "age"].pc = "age"
    BY <1>t DEF Fields
  <2> QED BY <1>2, <1>e, <2>1, <2>2 DEF AgeList, store
<1>3. CASE AgeNext(p)
  <2> DEFINE k == [l EXCEPT !.mem = Head(l.todo), !.row = rows[Head(l.todo)],
                            !.todo = Tail(@), !.pc = "c_read"]
  <2>1. Become(p, k) \/ Finish(p)
    BY <1>3 DEF AgeNext
  <2>2. k.pc = "c_read"
    BY <1>t DEF Fields
  <2> HIDE DEF k
  <2> QED BY <1>t, <1>3, <1>e, <2>1, <2>2, OnwardForms DEF AgeNext, store, Moved
<1>4. CASE AgeDone(p) \/ GateRead(p) \/ GateValidate(p) \/ GateWrite(p)
  BY <1>t, <1>4, OnwardForms DEF AgeDone, GateRead, GateValidate, GateWrite, store, Moved
<1>5. CASE ScanList(p)
  <2> DEFINE k == [Idle EXCEPT !.op = "scan", !.pc = "s_walk", !.list = rows,
                               !.finds = DanglingRows(rows, DOMAIN blobs)]
  <2>1. k.pc = "s_walk" /\ Become(p, k)
    BY <1>5, BlankTypes DEF ScanList
  <2> HIDE DEF k
  <2> QED BY <1>5, <1>e, <2>1 DEF ScanList, store
<1>6. CASE ScanWalk(p)
  <2> PICK s : Become(p, [l EXCEPT !.pc = "s_index", !.finds = s])
    BY <1>6 DEF ScanWalk
  <2>1. [l EXCEPT !.pc = "s_index", !.finds = s].pc = "s_index"
    BY <1>t DEF Fields
  <2> QED BY <1>6, <1>e, <2>1 DEF ScanWalk, store
<1>7. CASE ScanIndex(p) \/ RepairPairs(p) \/ RepairTar(p) \/ ScanDone(p) \/ Stop(p)
  BY <1>t, <1>7, OnwardForms DEF ScanIndex, RepairPairs, RepairTar, ScanDone, Stop, store, Moved
<1>8. CASE RepairOrphan(p)
  <2>1. PICK s : loc' = [loc EXCEPT ![p].finds = s]
    BY <1>8 DEF RepairOrphan
  <2>2. loc' = [loc EXCEPT ![p] = [l EXCEPT !.finds = s]]
    BY <2>1
  <2>3. l.pc = "s_orphans" /\ [l EXCEPT !.finds = s].pc = l.pc
    BY <1>t, <1>8 DEF RepairOrphan, At, Fields
  <2> QED BY <1>8, <1>e, <2>2, <2>3 DEF RepairOrphan, Become
<1>9. CASE RepairTorn(p)
  <2> PICK f \in Found(p, "torn_compress") :
        \/ Become(p, [l EXCEPT !.finds = l.finds \ {f}, !.row.rel = f.path, !.pc = "s_tar"])
        \/ Become(p, [l EXCEPT !.finds = l.finds \ {f}])
    BY <1>9 DEF RepairTorn
  <2> DEFINE k == [l EXCEPT !.finds = l.finds \ {f}, !.row.rel = f.path, !.pc = "s_tar"]
             j == [l EXCEPT !.finds = l.finds \ {f}]
  <2>1. l.pc = "s_torn" /\ k.pc = "s_tar" /\ j.pc = l.pc
    BY <1>t, <1>9 DEF RepairTorn, At, Fields
  <2>2. Become(p, k) \/ Become(p, j)
    OBVIOUS
  <2> HIDE DEF k, j
  <2> QED BY <1>9, <1>e, <2>1, <2>2 DEF RepairTorn, store
<1>10. CASE InitGlobal(p)
  <2>1. PICK label \in {"i_index", "i_reply"}, got \in SUBSET {Global} : Become(p, InitLocal(label, got))
    BY <1>10, InitGlobalStep DEF GlobalRead, GlobalFailed
  <2>2. InitLocal(label, got).pc = label
    BY InitLocalFields
  <2>3. UNCHANGED <<rows, clock>>
    BY <1>10, InitGlobalStep DEF store
  <2> QED BY <1>e, <2>1, <2>2, <2>3
<1>11. CASE InitIndex(p) \/ InitDone(p) \/ InitFail(p) \/ InitReply(p)
  BY <1>t, <1>11, OnwardForms DEF InitIndex, InitDone, InitFail, InitReply, store, Moved
<1>12. CASE InitList(p)
  <2>1. PICK s : Become(p, [l EXCEPT !.todo = s, !.list = rows, !.pc = "i_body"])
    BY <1>12 DEF InitList
  <2>2. [l EXCEPT !.todo = s, !.list = rows, !.pc = "i_body"].pc = "i_body"
    BY <1>t DEF Fields
  <2> QED BY <1>12, <1>e, <2>1, <2>2 DEF InitList, store
<1>13. CASE InitBody(p)
  <2>1. Goto(p, "i_reply") \/ \E s : Become(p, [l EXCEPT !.todo = Tail(@), !.got = s])
    BY <1>13 DEF InitBody
  <2>2. l.pc = "i_body" /\ \A s : [l EXCEPT !.todo = Tail(@), !.got = s].pc = l.pc
    BY <1>t, <1>13 DEF InitBody, At, Fields
  <2> QED BY <1>t, <1>13, <1>e, <2>1, <2>2, OnwardForms DEF InitBody, store, Moved
<1> QED BY <1>1, <1>2, <1>3, <1>4, <1>5, <1>6, <1>7, <1>8, <1>9, <1>10, <1>11, <1>12, <1>13
        DEF Scan, InitBundle

\* A first push: the file of a memory that is new or recent, then its row.
LEMMA PushMoves ==
  ASSUME Gentle, Kept, Fresh, NEW p \in Procs
  PROVE  /\ \A m \in Mems : PushBlob(p, m) => Fresh' /\ UNCHANGED <<rows, clock>>
         /\ PushRow(p) => Moved(p)
<1>t. TypeOK /\ RowsOK(rows)
  BY TypedParts DEF Kept
<1>1. ASSUME NEW m \in Mems, PushBlob(p, m)
      PROVE  Fresh'
  <2> DEFINE k == [Idle EXCEPT !.op = PushOp(m), !.pc = "p_row", !.mem = m,
                               !.buf = Tarball(pushed')]
  <2>1. loc' = [loc EXCEPT ![p] = k] /\ k.pc = "p_row" /\ k.mem = m /\ UNCHANGED rows
    BY <1>1, BlankTypes DEF PushBlob, Become
  <2>2. m \notin Archived(rows)
    BY <1>1 DEF PushBlob, MayStart, PushOp, Gentle
  <2>3. m \in DOMAIN rows => Warm(rows[m])
    BY <1>t, <2>2 DEF Archived, InState, RowsOK, Rows, States, Warm
  <2> HIDE DEF k
  <2>4. \A q \in Procs : loc'[q] = IF q = p THEN k ELSE loc[q]
    BY <1>t, <2>1 DEF TypeOK
  <2>5. \A q \in Procs : FreshLocal(loc'[q], rows)
    BY <2>1, <2>3, <2>4 DEF Fresh, FreshLocal
  <2> QED BY <2>1, <2>5 DEF Fresh, FreshLocal
<1>2. ASSUME PushRow(p)
      PROVE  Moved(p)
  <2> DEFINE m == loc[p].mem
  <2>1. loc[p].pc = "p_row" /\ m \in Mems
    BY <1>t, <1>2, TypedParts DEF PushRow, At
  <2>2. m \in DOMAIN rows => rows[m].del = Null
    BY <2>1 DEF Fresh, FreshLocal, FreshRow
  <2>3. rows' = With(rows, m, Recent(PushPath(m), clock))
    BY <1>2, <2>2 DEF PushRow, PutRow, Recent
  <2>4. StageMove
    BY <2>1, <2>3, PushPathType DEF StageMove
  <2> QED BY <1>t, <1>2, <2>4, OnwardForms DEF PushRow, Moved
<1> QED BY <1>1, <1>2 DEF PushBlob

\* HardDelete begins with the row as it is.
LEMMA DoomMoves ==
  ASSUME Kept, Fresh, NEW p \in Procs, DoomNext(p)
  PROVE  Fresh' /\ UNCHANGED <<rows, clock>>
<1> DEFINE l == loc[p]
           m == Head(l.doomed)
<1>t. TypeOK /\ DOMAIN l = Fields
  BY TypedParts DEF Kept, LocalOK
<1>1. CASE m \in DOMAIN rows /\ Destroyable(rows[m])
  <2> DEFINE k == [l EXCEPT !.mem = m, !.row = rows[m], !.doomed = Tail(@), !.pc = "h_index"]
  <2>1. loc' = [loc EXCEPT ![p] = k] /\ UNCHANGED <<rows, clock>>
    BY <1>1 DEF DoomNext, Become, store
  <2>2. k.pc = "h_index" /\ k.row = rows[m]
    BY <1>t DEF Fields
  <2>3. k.row.del >= k.row.at
    BY <1>1, <2>2 DEF Fresh, FreshRow, Destroyable
  <2> HIDE DEF k
  <2>4. \A q \in Procs : loc'[q] = IF q = p THEN k ELSE loc[q]
    BY <1>t, <2>1 DEF TypeOK
  <2>5. \A q \in Procs : FreshLocal(loc'[q], rows)
    BY <2>2, <2>3, <2>4 DEF Fresh, FreshLocal
  <2> QED BY <2>1, <2>5 DEF Fresh, FreshLocal
<1>2. CASE ~(m \in DOMAIN rows /\ Destroyable(rows[m]))
  <2>1. l.pc = "doom" /\ Become(p, [l EXCEPT !.doomed = Tail(@)])
    BY <1>2 DEF DoomNext, At
  <2>2. Onward(p)
    BY <1>t, <2>1, LoopForms
  <2> QED BY <2>2, OnwardFresh DEF DoomNext, store
<1> QED BY <1>1, <1>2

\* Either time passes, or one memory moves along its lifecycle, or no row changes.
LEMMA NextMoves ==
  ASSUME Gentle, Kept, Fresh, [Next]_vars
  PROVE  /\ Fresh'
         /\ (UNCHANGED rows /\ clock' >= clock) \/ (StageMove /\ UNCHANGED clock)
<1> USE DEF Procs
<1>t. TypeOK /\ clock \in Nat
  BY BoundAssumption DEF Kept, TypeOK
<1>g. Guarded
  BY DEF Gentle
<1>m. ASSUME NEW p \in Procs, Moved(p), loc[p].pc \in AnyLabels \/ UNCHANGED rows
      PROVE  /\ Fresh'
             /\ (UNCHANGED rows /\ clock' >= clock) \/ (StageMove /\ UNCHANGED clock)
  <2>1. Fresh'
    BY <1>g, <1>m, OnwardFresh, MovedFresh DEF Moved
  <2> QED BY <1>m, <1>t, <2>1 DEF Moved
<1>1. CASE Tick \/ UNCHANGED vars
  <2>1. UNCHANGED <<rows, loc>> /\ clock' >= clock
    BY <1>1, <1>t DEF Tick, store, vars
  <2> QED BY <2>1 DEF Fresh, FreshLocal
<1>2. ASSUME NEW p \in Handlers, StartRequest(p)
      PROVE  /\ Fresh'
             /\ (UNCHANGED rows /\ clock' >= clock) \/ (StageMove /\ UNCHANGED clock)
  <2>1. CASE \E m \in Mems : PushBlob(p, m)
    BY <1>t, <2>1, PushMoves
  <2>2. CASE (\E m \in Mems : RemindStart(p, m)) \/ InitGlobal(p)
    <3>1. Moved(p) /\ UNCHANGED rows
      BY <2>2, RemindMoves, OtherMoves DEF RemindStart, InitGlobal, store
    <3> QED BY <1>m, <3>1
  <2> QED BY <1>2, <2>1, <2>2 DEF StartRequest
<1>3. ASSUME NEW p \in Dreams, StartDream(p)
      PROVE  /\ Fresh'
             /\ (UNCHANGED rows /\ clock' >= clock) \/ (StageMove /\ UNCHANGED clock)
  <2>1. Moved(p) /\ UNCHANGED rows
    BY <1>3, OtherMoves DEF StartDream, StartPass, ScanList, store
  <2> QED BY <1>m, <2>1
<1>4. ASSUME NEW p \in Handlers, ContinueRequest(p)
      PROVE  /\ Fresh'
             /\ (UNCHANGED rows /\ clock' >= clock) \/ (StageMove /\ UNCHANGED clock)
  <2>1. loc[p].pc \in AnyLabels
    BY <1>4, <1>t, PushOn, RemindOn, InitOn DEF ContinueRequest, GoesOn, AnyLabels
  <2>2. Moved(p)
    BY <1>4, PushMoves, RemindMoves, OtherMoves DEF ContinueRequest
  <2> QED BY <1>m, <2>1, <2>2
<1>5. ASSUME NEW p \in Dreams, ContinueDream(p)
      PROVE  /\ Fresh'
             /\ (UNCHANGED rows /\ clock' >= clock) \/ (StageMove /\ UNCHANGED clock)
  <2>1. loc[p].pc \in AnyLabels
    BY <1>5, <1>t, PassOn, ScanOn DEF ContinueDream, GoesOn, AnyLabels
  <2>2. CASE DoomNext(p)
    BY <1>t, <2>2, DoomMoves
  <2>3. CASE ~DoomNext(p)
    <3>1. Moved(p)
      BY <1>5, <2>3, CompressMoves, ForgetScanMoves, OtherMoves DEF ContinueDream, Pass
    <3> QED BY <1>m, <2>1, <3>1
  <2> QED BY <2>2, <2>3
<1>6. ASSUME NEW p \in Procs, Stop(p)
      PROVE  /\ Fresh'
             /\ (UNCHANGED rows /\ clock' >= clock) \/ (StageMove /\ UNCHANGED clock)
  <2>1. Moved(p) /\ UNCHANGED rows
    BY <1>6, OtherMoves DEF Stop, store
  <2> QED BY <1>m, <2>1
<1> QED BY <1>1, <1>2, <1>3, <1>4, <1>5, <1>6 DEF Next, Start, Continue

\* The invariant of the moves.
LEMMA AlwaysFresh ==
  ASSUME Gentle
  PROVE  Spec => [](Kept /\ Fresh)
<1>1. Init => Fresh
  BY BlankTypes DEF Init, Fresh, FreshLocal
<1>2. Kept /\ Fresh /\ [Next]_vars => Kept' /\ Fresh'
  BY NextMoves, NextKept DEF Gentle
<1>3. Init => Kept
  BY InitKept
<1> QED BY <1>1, <1>2, <1>3, PTL DEF Spec

\* What HardDelete destroys was marked after its last use, so every disuse has a grace
\* window of its own, unless an archived memory was pushed again.
THEOREM FreshMarkKept ==
  ASSUME Gentle
  PROVE  Spec => []FreshMark
<1>1. Fresh => FreshMark
  BY DEF Fresh, FreshLocal, FreshMark, At, Procs
<1> QED BY <1>1, AlwaysFresh, PTL

(***************************************************************************)
(* The lifecycle.                                                          *)
(***************************************************************************)
life == [m \in DOMAIN rows |-> LifeOf(rows[m])]

\* What MemoryLifecycle sees of a row.
LEMMA LifeOfRow ==
  ASSUME NEW m \in DOMAIN rows
  PROVE  /\ m \in Abstract!Known /\ life[m].stage = rows[m].state
         /\ life[m].mark = rows[m].del /\ Abstract!Age(m) = clock - rows[m].at
BY DEF Abstract!Known, Abstract!Age, life, LifeOf

\* A push or a remind is a use.
LEMMA UseMaps ==
  ASSUME UNCHANGED clock, NEW m, NEW path, rows' = With(rows, m, Recent(path, clock))
  PROVE  Abstract!Use(m)
<1>1. life' = [x \in DOMAIN life \union {m} |-> IF x = m THEN Abstract!Used(clock) ELSE life[x]]
  BY DEF life, LifeOf, Recent, With, Abstract!Used, Abstract!NoMark, Null
<1> QED BY <1>1 DEF Abstract!Use, life, Abstract!Known

\* Compress archives.
LEMMA ArchiveMaps ==
  ASSUME TypeOK, UNCHANGED clock, NEW m \in Aged(rows, clock), NEW path,
         rows' = ArchiveRow(rows, m, path)
  PROVE  Abstract!Archive(m)
<1>r. /\ m \in DOMAIN rows /\ rows[m] \in Rows /\ ~Exempt(m)
      /\ Warm(rows[m]) /\ clock - rows[m].at > T1
  BY SelectedRows DEF TypeOK, StoreOK
<1>1. life' = [life EXCEPT ![m].stage = "long_term"]
  BY <1>r DEF life, LifeOf, ArchiveRow, UpdateRow, Rows
<1> QED BY <1>1, <1>r, LifeOfRow DEF Abstract!Archive, Exempt, Warm, life

\* forgetScan makes a tombstone.
LEMMA FadeMaps ==
  ASSUME TypeOK, UNCHANGED clock, NEW m \in Forgettable(rows, clock), rows' = ForgetRow(rows, m)
  PROVE  Abstract!Fade(m)
<1>r. /\ m \in DOMAIN rows /\ rows[m] \in Rows /\ ~Exempt(m)
      /\ rows[m].state = "long_term" /\ clock - rows[m].at > T2
  BY SelectedRows DEF TypeOK, StoreOK
<1>1. life' = [life EXCEPT ![m].stage = "tombstone"]
  BY <1>r DEF life, LifeOf, ForgetRow, UpdateRow, Rows
<1> QED BY <1>1, <1>r, LifeOfRow DEF Abstract!Fade, life

\* SoftDelete marks with the Now of the pass, by which the memory was due.
LEMMA MarkMaps ==
  ASSUME TypeOK, UNCHANGED clock, NEW when \in 0..clock, NEW m \in Unmarked(rows, when),
         rows' = SoftDeleteRow(rows, m, when)
  PROVE  Abstract!Mark(m)
<1>r. /\ m \in DOMAIN rows /\ rows[m] \in Rows /\ ~Exempt(m)
      /\ Markable(rows[m]) /\ when - rows[m].at > T3
  BY SelectedRows DEF TypeOK, StoreOK
<1>1. life' = [life EXCEPT ![m].mark = when]
  BY <1>r DEF life, LifeOf, SoftDeleteRow, UpdateRow, Rows
<1>2. when - life[m].used > T3
  BY <1>r DEF life, LifeOf
<1> QED BY <1>1, <1>2, <1>r, LifeOfRow DEF Abstract!Mark, Markable, Abstract!NoMark, Null, life

\* HardDelete destroys.
LEMMA DestroyMaps ==
  ASSUME TypeOK, UNCHANGED clock, NEW m \in Doomed(rows, clock), rows' = Without(rows, m)
  PROVE  Abstract!Destroy(m)
<1>r. m \in DOMAIN rows /\ Condemned(rows[m], clock)
  BY SelectedRows DEF TypeOK, StoreOK
<1>1. life' = [x \in DOMAIN life \ {m} |-> life[x]]
  BY <1>r DEF life, Without
<1> QED BY <1>1, <1>r, LifeOfRow DEF Abstract!Destroy, Condemned, Destroyable, GraceElapsed,
        Abstract!NoMark, Null, life, Abstract!Known

\* Every step of the store is a step of the lifecycle, or none.
LEMMA NextMaps ==
  ASSUME Gentle, Kept, Fresh, [Next]_vars
  PROVE  [Abstract!Step]_<<life, clock>>
<1>t. TypeOK /\ clock \in Nat
  BY BoundAssumption DEF Kept, TypeOK
<1>1. CASE UNCHANGED rows /\ clock' >= clock
  <2>1. CASE clock' = clock
    BY <1>1, <2>1 DEF life
  <2>2. CASE clock' # clock
    <3>1. clock' \in Nat
      BY NextTypes, BoundAssumption DEF Kept, TypeOK
    <3> QED BY <1>1, <1>t, <2>2, <3>1 DEF Abstract!Step, Abstract!PassTime, life
  <2> QED BY <2>1, <2>2
<1>2. CASE StageMove /\ UNCHANGED clock
  BY <1>2, <1>t, UseMaps, ArchiveMaps, FadeMaps, MarkMaps, DestroyMaps DEF StageMove, Abstract!Step
<1> QED BY <1>1, <1>2, NextMoves

\* Where what writes runs alone and no archived memory is pushed again, requests, passes and
\* operations stopped anywhere move every memory along its lifecycle and in no other way.
THEOREM LifecycleKept ==
  ASSUME Gentle
  PROVE  Spec => Lifecycle
<1>1. Init => Abstract!Begin
  BY DEF Init, Abstract!Begin
<1>2. Kept /\ Fresh /\ [Next]_vars
        => [Abstract!Step]_<<[m \in DOMAIN rows |-> LifeOf(rows[m])], clock>>
  BY NextMaps DEF life
<1> QED BY <1>1, <1>2, AlwaysFresh, PTL DEF Spec, Lifecycle, Abstract!LifecycleSpec

(***************************************************************************)
(* Destruction, where an archived memory may be pushed again.              *)
(***************************************************************************)
\* Only the forget scan takes a row away.
LEMMA OnlyForgetShrinks ==
  ASSUME Kept, [Next]_vars
  PROVE  \/ DOMAIN rows \subseteq DOMAIN rows'
         \/ \E p \in Dreams : ForgetScan(p) /\ ~DoomNext(p)
<1> USE DEF Procs
<1>t. TypeOK
  BY DEF Kept
<1>u. \A m, where, r : DOMAIN UpdateRow(rows, m, where, r) = DOMAIN rows
  BY DEF UpdateRow
<1>1. ASSUME NEW p \in Handlers, ContinueRequest(p)
      PROVE  DOMAIN rows \subseteq DOMAIN rows'
  <2>1. CASE PushRow(p)
    BY <2>1 DEF PushRow, PutRow, With
  <2>2. CASE ReheatTouch(p) \/ ReheatCommit(p)
    BY <1>u, <2>2 DEF ReheatTouch, ReheatCommit, TouchRow, ReheatRow
  <2>3. CASE Remind(p) /\ ~(ReheatTouch(p) \/ ReheatCommit(p))
    BY <2>3 DEF Remind, Reheat, ReheatRead, ReheatPut, ReheatVerify, ReheatDrop, ReheatIndex,
       ReheatLine, ReheatSource, RemindGet, RemindRead, RemindReply, store
  <2>4. CASE InitBundle(p)
    BY <2>4 DEF InitBundle, InitIndex, InitList, InitBody, InitDone, InitFail,
       InitReply, store
  <2> QED BY <1>1, <2>1, <2>2, <2>3, <2>4 DEF ContinueRequest
<1>2. ASSUME NEW p \in Dreams, ContinueDream(p), ~(ForgetScan(p) /\ ~DoomNext(p))
      PROVE  DOMAIN rows \subseteq DOMAIN rows'
  <2>1. CASE CompressCommit(p)
    BY <1>u, <2>1 DEF CompressCommit, ArchiveRow
  <2>2. CASE Compress(p) /\ ~CompressCommit(p)
    BY <2>2 DEF Compress, CompressRead, CompressPut, CompressVerify, CompressDrop,
       CompressIndex, CompressLine, CompressSource, store
  <2>3. CASE AgeList(p) \/ AgeNext(p) \/ AgeDone(p) \/ GateRead(p) \/ GateValidate(p)
               \/ GateWrite(p) \/ DoomNext(p)
    BY <2>3 DEF AgeList, AgeNext, AgeDone, GateRead, GateValidate, GateWrite, DoomNext, store
  <2>4. CASE Scan(p)
    BY <2>4 DEF Scan, ScanWalk, ScanIndex, RepairOrphan, RepairPairs, RepairTorn, RepairTar,
       ScanDone, store
  <2> QED BY <1>2, <2>1, <2>2, <2>3, <2>4 DEF ContinueDream, Pass
<1>3. ASSUME NEW p \in Handlers, StartRequest(p)
      PROVE  UNCHANGED rows
  BY <1>3 DEF StartRequest, PushBlob, RemindStart, InitGlobal, store
<1>4. ASSUME NEW p \in Dreams, StartDream(p)
      PROVE  UNCHANGED rows
  BY <1>4 DEF StartDream, StartPass, ScanList, store
<1>5. ASSUME NEW p \in Procs, Stop(p)
      PROVE  UNCHANGED rows
  BY <1>5 DEF Stop, store
<1>6. CASE Tick \/ UNCHANGED vars
  BY <1>6 DEF Tick, store, vars
<1> QED BY <1>1, <1>2, <1>3, <1>4, <1>5, <1>6 DEF Next, Start, Continue

\* A move that takes a row away takes a condemned one.
LEMMA MoveDestroys ==
  ASSUME Kept, StageMove, NEW m \in DOMAIN rows \ DOMAIN rows'
  PROVE  Condemned(rows[m], clock)
<1>u. \A x, where, r : DOMAIN UpdateRow(rows, x, where, r) = DOMAIN rows
  BY DEF UpdateRow
<1>0. /\ \A x : DOMAIN ForgetRow(rows, x) = DOMAIN rows
      /\ \A x, path : /\ DOMAIN ArchiveRow(rows, x, path) = DOMAIN rows
                      /\ DOMAIN SoftDeleteRow(rows, x, path) = DOMAIN rows
  BY <1>u DEF ArchiveRow, ForgetRow, SoftDeleteRow
<1>w. \A x, r : DOMAIN rows \subseteq DOMAIN With(rows, x, r)
  BY DEF With
<1>1. PICK x \in Mems : x \in Doomed(rows, clock) /\ rows' = Without(rows, x)
  BY <1>0, <1>w DEF StageMove
<1>2. m = x
  BY <1>1 DEF Without
<1> QED BY <1>1, <1>2, SelectedRows DEF Kept, TypeOK, StoreOK

\* HardDelete removes a row only while it is a marked tombstone whose grace is over, where
\* what writes runs alone: the row it read is still the row it deletes.
THEOREM DestroysCondemnedKept ==
  ASSUME Guarded
  PROVE  Spec => DestroysCondemned
<1>1. Kept /\ [Next]_vars => [\A m \in DOMAIN rows \ DOMAIN rows' : Condemned(rows[m], clock)]_rows
  <2> SUFFICES ASSUME Kept, [Next]_vars, NEW m \in DOMAIN rows \ DOMAIN rows'
               PROVE  Condemned(rows[m], clock)
    OBVIOUS
  <2>1. PICK p \in Dreams : ForgetScan(p) /\ ~DoomNext(p)
    BY OnlyForgetShrinks
  <2>2. StageMove
    BY <2>1, ForgetScanMoves DEF Procs, Moved
  <2> QED BY <2>2, MoveDestroys
<1> QED BY <1>1, AlwaysKept, PTL DEF Spec, DestroysCondemned

=============================================================================
