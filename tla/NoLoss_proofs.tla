---------------------------- MODULE NoLoss_proofs -----------------------------
(***************************************************************************)
(* Nothing that was acknowledged is lost, a remind answers with what was   *)
(* acknowledged, and a repaired data root holds no stray file: for any     *)
(* number of memories, requests and dream processes, any thresholds, any   *)
(* number of operations stopped anywhere and of writes that went wrong.    *)
(*                                                                         *)
(* The invariant says where each memory's bytes are.  A recent row owns    *)
(* "x.tar", any other row "x.tar.zst", and that file holds at least the    *)
(* acknowledged version, unless the row is condemned.  The other file of   *)
(* the pair may hold anything: it is what a stopped operation left.  Each  *)
(* label of Compress, Reheat and HardDelete adds what the operation has    *)
(* established so far, so that its commit moves the row between two files  *)
(* that hold the same version and its last step removes only a file the    *)
(* row no longer owns.                                                     *)
(***************************************************************************)
EXTENDS MyWholeLife_proofs

\* The settings in which the promise holds: what writes runs alone, and overlapping
\* reminds meet no bad write (one's verified copy would be another's bad one).
Guarded ==
  /\ Operations \ {"remind", "init"} \subseteq Exclusive
  /\ "remind" \in Exclusive \/ MaxBadWrites = 0

(***************************************************************************)
(* Who runs with whom.                                                     *)
(***************************************************************************)
PushLabels == {"p_row"}
ReheatLabels == {"r_read", "r_put", "r_verify", "r_drop", "r_commit"}
SettleLabels == {"r_index", "r_line", "r_source"}
RemindLabels == ReheatLabels \union SettleLabels \union {"r_touch", "m_get", "m_read", "m_reply"}
InitLabels == {"i_index", "i_list", "i_body", "i_reply"}
CompressLabels ==
  {"c_read", "c_put", "c_verify", "c_drop", "c_commit", "c_index", "c_line", "c_source"}
DestroyLabels == {"h_index", "h_line", "h_blob", "h_row"}
PassLabels ==
  CompressLabels \union DestroyLabels \union
  {"age_list", "age", "forget_list", "forget", "tomb_list", "mark", "doom", "gate",
   "g_validate", "g_write"}
ScanLabels == {"s_walk", "s_index", "s_orphans", "s_torn", "s_tar"}

\* The label of a process tells which operation it runs.
OpLabels(op) ==
  CASE op \in {"push", "repush"} -> PushLabels
    [] op = "remind" -> RemindLabels
    [] op = "init" -> InitLabels
    [] op = "pass" -> PassLabels
    [] op = "scan" -> ScanLabels
    [] OTHER -> {}
RightOp(l) == l = Idle \/ (l.op \in Operations /\ l.pc \in OpLabels(l.op))
Apart(k, l) == k = Idle \/ l = Idle \/ {k.op, l.op} \intersect Exclusive = {}
Separate ==
  /\ \A p \in Procs : RightOp(loc[p])
  /\ \A p, q \in Procs : p # q => Apart(loc[p], loc[q])
Solo(p) == \A q \in Procs \ {p} : loc[q] = Idle

(***************************************************************************)
(* Where the bytes are.                                                    *)
(***************************************************************************)
ColdPath(m) == <<m, ZstSuffix>>
Warm(row) == row.state = "recent"
HomeRows(t) == \A m \in DOMAIN t : t[m].rel = IF Warm(t[m]) THEN PushPath(m) ELSE ColdPath(m)
AtHome(path) == path \in {PushPath(path[1]), ColdPath(path[1])}
HomeFiles(f) == \A path \in DOMAIN f : AtHome(path)
Has(f, path, b) == path \in DOMAIN f /\ f[path] = b
Holds(f, path, zip, ver) ==
  path \in DOMAIN f /\ f[path].zip = zip /\ f[path].ver >= ver /\ f[path].ver > 0

KeptMem(t, f, ver, now, m) ==
  IF m \notin DOMAIN t THEN ver = 0
  ELSE IF Warm(t[m]) THEN Holds(f, PushPath(m), 0, ver)
  ELSE IF ColdPath(m) \in DOMAIN f THEN Holds(f, ColdPath(m), 1, ver)
  ELSE Condemned(t[m], now)
StoreKept(t, f, a, v, now) ==
  /\ HomeRows(t)
  /\ HomeFiles(f)
  /\ \A m \in Mems : KeptMem(t, f, a[m], now, m) /\ a[m] <= v

(***************************************************************************)
(* What each operation has established.                                    *)
(***************************************************************************)
PushKept(l, f, v) ==
  l.pc \in PushLabels => /\ l.buf = Tarball(v) /\ v > 0
                         /\ Has(f, PushPath(l.mem), l.buf)

\* The body in hand is the memory's: in the file its row owns, whoever made it recent.
InHand(l, t, f) ==
  IF Warm(t[l.mem]) THEN Has(f, PushPath(l.mem), l.buf)
  ELSE Has(f, ColdPath(l.mem), Compressed(l.buf))
RemindKept(l, t, f) ==
  l.pc \in RemindLabels =>
    /\ l.mem \in DOMAIN t
    /\ l.pc \notin ReheatLabels => Warm(t[l.mem])
    /\ l.pc \in ReheatLabels \union SettleLabels => l.row.rel = ColdPath(l.mem)
    /\ l.pc \in ReheatLabels /\ MaxBadWrites # 0 => ~Warm(t[l.mem])
    /\ l.pc = "r_read" /\ Warm(t[l.mem]) /\ ColdPath(l.mem) \in DOMAIN f =>
         PushPath(l.mem) \in DOMAIN f /\ f[ColdPath(l.mem)] = Compressed(f[PushPath(l.mem)])
    /\ l.pc \in ReheatLabels \ {"r_read"} => InHand(l, t, f)
    /\ l.pc = "r_verify" /\ MaxBadWrites = 0 => Has(f, PushPath(l.mem), l.buf)
    /\ l.pc = "r_drop" => MaxBadWrites # 0
    /\ l.pc = "r_commit" => Has(f, PushPath(l.mem), l.buf)
    /\ l.pc = "m_read" => l.row.rel = PushPath(l.mem)
    /\ l.pc = "m_reply" => Has(f, PushPath(l.mem), l.buf)

Listed(s) == {s[i] : i \in DOMAIN s}
Distinct(s) == \A i, j \in DOMAIN s : s[i] = s[j] => i = j
Ahead(s, S) == Distinct(s) /\ Listed(s) \subseteq S
CompressKept(l, t, f) ==
  /\ l.pc \in {"age"} \union CompressLabels => Ahead(l.todo, Aged(t, l.now))
  /\ l.pc \in CompressLabels => l.mem \notin Listed(l.todo) /\ l.row.rel = PushPath(l.mem)
  /\ l.pc \in {"c_read", "c_put", "c_verify", "c_drop", "c_commit"} => l.mem \in Aged(t, l.now)
  /\ l.pc \in {"c_put", "c_verify", "c_commit"} => Has(f, PushPath(l.mem), l.buf)
  /\ l.pc = "c_commit" => Has(f, ColdPath(l.mem), Compressed(l.buf))
  /\ l.pc \in {"c_index", "c_line", "c_source"} => l.mem \in InState(t, "long_term")
ForgetKept(l, t) ==
  /\ l.pc = "forget" => Ahead(l.todo, Forgettable(t, l.now))
  /\ l.pc = "mark" => Ahead(l.todo, Unmarked(t, l.now))
  /\ l.pc \in {"mark", "doom"} \union DestroyLabels => Ahead(l.doomed, Doomed(t, l.now))
  /\ l.pc \in DestroyLabels => /\ l.mem \in Doomed(t, l.now) /\ l.mem \notin Listed(l.doomed)
                               /\ l.row.rel = ColdPath(l.mem)

Kind(l, kind) == {x.path : x \in {y \in l.finds : y.kind = kind}}
ScanKept(l, t, f) ==
  /\ l.pc = "s_walk" => /\ l.list = t
                        /\ Kind(l, "orphan_blob") = {} /\ Kind(l, "torn_compress") = {}
  /\ l.pc \in {"s_index", "s_orphans"} =>
       /\ DOMAIN f \ RowPaths(t) \subseteq Kind(l, "orphan_blob")
       /\ \A path \in Kind(l, "orphan_blob") : AtHome(path) /\ path \notin RowPaths(t)
  /\ l.pc \in ScanLabels => Kind(l, "torn_compress") \subseteq {PushPath(m) : m \in Mems}
  /\ l.pc \in {"s_torn", "s_tar"} => DOMAIN f \subseteq RowPaths(t)
  /\ l.pc = "s_tar" => \E m \in Mems : l.row.rel = PushPath(m) /\ ColdPath(m) \in DOMAIN f

LocalKept(l, t, f, v) ==
  /\ PushKept(l, f, v)
  /\ RemindKept(l, t, f)
  /\ CompressKept(l, t, f)
  /\ ForgetKept(l, t)
  /\ ScanKept(l, t, f)

Kept ==
  /\ TypeOK
  /\ Separate
  /\ StoreKept(rows, blobs, acked, pushed, clock)
  /\ \A p \in Procs : LocalKept(loc[p], rows, blobs, pushed)

(***************************************************************************)
(* Separation.                                                             *)
(***************************************************************************)
AnyLabels == PushLabels \union RemindLabels \union InitLabels \union PassLabels \union ScanLabels

\* The labels of an operation, and the operation of a label.
LEMMA LabelsOfOp ==
  /\ OpLabels("push") = PushLabels /\ OpLabels("repush") = PushLabels
  /\ OpLabels("remind") = RemindLabels /\ OpLabels("init") = InitLabels
  /\ OpLabels("pass") = PassLabels /\ OpLabels("scan") = ScanLabels
BY DEF OpLabels

\* The labels of different operations are different, and none is that of an idle process.
LEMMA OpOfLabel ==
  ASSUME NEW l, RightOp(l)
  PROVE  /\ l.pc \in AnyLabels => l # Idle /\ l.op \in Operations /\ l.pc \in OpLabels(l.op)
         /\ l.pc \in PushLabels => l.op \in {"push", "repush"}
         /\ l.pc \in RemindLabels => l.op = "remind"
         /\ l.pc \in InitLabels => l.op = "init"
         /\ l.pc \in PassLabels => l.op = "pass"
         /\ l.pc \in ScanLabels => l.op = "scan"
<1> USE DEF PushLabels, RemindLabels, ReheatLabels, SettleLabels, InitLabels, PassLabels,
            CompressLabels, DestroyLabels, ScanLabels, AnyLabels
<1>1. Idle.pc = "idle"
  BY BlankTypes
<1>2. CASE l = Idle
  BY <1>1, <1>2
<1>3. CASE l.op \in {"push", "repush"} /\ l.pc \in PushLabels
  BY <1>1, <1>3, LabelsOfOp DEF Operations
<1>4. CASE l.op = "remind" /\ l.pc \in RemindLabels
  BY <1>1, <1>4, LabelsOfOp DEF Operations
<1>5. CASE l.op = "init" /\ l.pc \in InitLabels
  BY <1>1, <1>5, LabelsOfOp DEF Operations
<1>6. CASE l.op = "pass" /\ l.pc \in PassLabels
  BY <1>1, <1>6, LabelsOfOp DEF Operations
<1>7. CASE l.op = "scan" /\ l.pc \in ScanLabels
  BY <1>1, <1>7, LabelsOfOp DEF Operations
<1> HIDE DEF PushLabels, RemindLabels, ReheatLabels, SettleLabels, InitLabels, PassLabels,
            CompressLabels, DestroyLabels, ScanLabels, AnyLabels
<1> QED BY <1>2, <1>3, <1>4, <1>5, <1>6, <1>7, LabelsOfOp DEF RightOp, Operations

\* A step of an operation already under way.
GoesOn(p, labels) ==
  /\ loc[p].pc \in labels
  /\ \E l : /\ loc' = [loc EXCEPT ![p] = l]
            /\ l = Idle \/ (l.op = loc[p].op /\ l.pc \in labels)

\* An operation that goes on, or ends, keeps processes apart.
LEMMA SeparateOn ==
  ASSUME TypeOK, Separate, NEW p \in Procs, NEW op \in Operations, GoesOn(p, OpLabels(op))
  PROVE  Separate'
<1> PICK l : /\ loc' = [loc EXCEPT ![p] = l]
             /\ l = Idle \/ (l.op = loc[p].op /\ l.pc \in OpLabels(op))
  BY DEF GoesOn
<1>1. loc[p].pc \in OpLabels(op) /\ OpLabels(op) \subseteq AnyLabels /\ RightOp(loc[p])
  BY LabelsOfOp DEF GoesOn, Operations, AnyLabels, Separate
<1>2. loc[p] # Idle /\ loc[p].op \in Operations
  BY <1>1, OpOfLabel
<1>3. OpLabels(loc[p].op) = OpLabels(op)
  BY <1>1, OpOfLabel, LabelsOfOp DEF Operations
<1>4. loc'[p] = l /\ (\A q \in Procs : q # p => loc'[q] = loc[q])
  BY DEF TypeOK
<1>5. \A q \in Procs : RightOp(loc'[q])
  BY <1>2, <1>3, <1>4 DEF RightOp, Separate
<1>6. \A q, r \in Procs : q # r => Apart(loc'[q], loc'[r])
  BY <1>2, <1>4 DEF Apart, Separate
<1> QED BY <1>5, <1>6 DEF Separate, RightOp, Apart

\* An operation that starts keeps processes apart.
LEMMA SeparateStart ==
  ASSUME TypeOK, Separate, NEW p \in Procs, NEW op \in Operations, MayStart(p, op),
         NEW l, loc' = [loc EXCEPT ![p] = l], l.op = op, l.pc \in OpLabels(op)
  PROVE  Separate'
<1>1. loc'[p] = l /\ (\A q \in Procs : q # p => loc'[q] = loc[q])
  BY DEF TypeOK
<1>2. \A q \in Procs : RightOp(loc'[q])
  BY <1>1 DEF RightOp, Separate
<1>3. \A q, r \in Procs : q # r => Apart(loc'[q], loc'[r])
  BY <1>1 DEF Apart, Separate, MayStart, Running
<1> QED BY <1>2, <1>3 DEF Separate, RightOp, Apart

\* An exclusive operation under way is alone.
LEMMA Alone ==
  ASSUME Separate, NEW p \in Procs, NEW op \in Exclusive, loc[p].op = op, loc[p] # Idle
  PROVE  Solo(p)
BY DEF Separate, Apart, Solo

\* The forms of step that keep the operation.
LEMMA GoesOnForms ==
  ASSUME TypeOK, NEW p \in Procs, NEW labels, loc[p].pc \in labels
  PROVE  /\ \A k : k.op = loc[p].op /\ k.pc \in labels /\ Become(p, k) => GoesOn(p, labels)
         /\ Finish(p) => GoesOn(p, labels)
         /\ \A label \in labels : Goto(p, label) \/ ReadIndex(p, label) \/ Return(p, label)
                                    => GoesOn(p, labels)
<1>t. DOMAIN loc[p] = Fields
  BY TypedParts DEF LocalOK
<1>1. \A k : k.op = loc[p].op /\ k.pc \in labels /\ Become(p, k) => GoesOn(p, labels)
  BY DEF GoesOn, Become
<1>2. Finish(p) => GoesOn(p, labels)
  BY DEF GoesOn, Finish
<1>3. ASSUME NEW label \in labels, Goto(p, label) \/ ReadIndex(p, label) \/ Return(p, label)
      PROVE  GoesOn(p, labels)
  BY <1>t, <1>1, <1>3 DEF Goto, ReadIndex, Return, Become, Fields
<1> QED BY <1>1, <1>2, <1>3

\* Reading a row or a body.
LEMMA ReadOn ==
  ASSUME TypeOK, NEW p \in Procs, NEW labels, loc[p].pc \in labels, NEW label \in labels, NEW b,
         \/ loc' = [loc EXCEPT ![p].buf = b, ![p].pc = label]
         \/ loc' = [loc EXCEPT ![p].row = b, ![p].pc = label]
  PROVE  GoesOn(p, labels)
<1>t. DOMAIN loc[p] = Fields
  BY TypedParts DEF LocalOK
<1> QED BY <1>t, GoesOnForms DEF Become, Fields

\* The steps of a push.
LEMMA PushOn ==
  ASSUME TypeOK, NEW p \in Procs, PushRow(p)
  PROVE  GoesOn(p, PushLabels)
BY GoesOnForms DEF PushRow, At, PushLabels

\* The steps of a remind.
LEMMA RemindOn ==
  ASSUME TypeOK, NEW p \in Procs, Remind(p)
  PROVE  GoesOn(p, RemindLabels)
<1>c. {"r_read", "r_put", "r_verify", "r_drop", "r_commit", "r_index", "r_line", "r_source",
       "r_touch", "m_get", "m_read", "m_reply"} \subseteq RemindLabels
  BY DEF RemindLabels, ReheatLabels, SettleLabels
<1>1. loc[p].pc \in RemindLabels
  BY <1>c DEF Remind, Reheat, ReheatTouch, ReheatRead, ReheatPut, ReheatVerify, ReheatDrop,
     ReheatCommit, ReheatIndex, ReheatLine, ReheatSource, RemindGet, RemindRead, RemindReply, At
<1>2. CASE ReheatTouch(p) \/ ReheatPut(p) \/ ReheatVerify(p) \/ ReheatDrop(p) \/ ReheatCommit(p)
  BY <1>1, <1>2, <1>c, GoesOnForms DEF ReheatTouch, ReheatPut, ReheatVerify, ReheatDrop,
     ReheatCommit
<1>3. CASE ReheatIndex(p) \/ ReheatLine(p) \/ ReheatSource(p) \/ RemindReply(p)
  BY <1>1, <1>3, <1>c, GoesOnForms DEF ReheatIndex, ReheatLine, ReheatSource, RemindReply
<1>4. CASE ReheatRead(p) \/ RemindGet(p) \/ RemindRead(p)
  <2>1. CASE Finish(p)
    BY <1>1, <2>1, GoesOnForms
  <2>2. CASE ReheatRead(p) /\ ~Finish(p)
    BY <1>1, <1>c, <2>2, ReadOn DEF ReheatRead
  <2>3. CASE RemindGet(p) /\ ~Finish(p)
    BY <1>1, <1>c, <2>3, ReadOn DEF RemindGet
  <2>4. CASE RemindRead(p) /\ ~Finish(p)
    BY <1>1, <1>c, <2>4, ReadOn DEF RemindRead
  <2> QED BY <1>4, <2>1, <2>2, <2>3, <2>4
<1> QED BY <1>2, <1>3, <1>4 DEF Remind, Reheat

\* The steps of an init bundle.
LEMMA InitOn ==
  ASSUME TypeOK, NEW p \in Procs, InitBundle(p)
  PROVE  GoesOn(p, InitLabels)
<1>t. DOMAIN loc[p] = Fields
  BY TypedParts DEF LocalOK
<1>1. CASE InitIndex(p) \/ InitDone(p) \/ InitFail(p) \/ InitReply(p)
  BY <1>1, GoesOnForms DEF InitIndex, InitDone, InitFail, InitReply, At, InitLabels
<1>2. CASE InitList(p)
  <2>1. PICK s : Become(p, [loc[p] EXCEPT !.todo = s, !.list = rows, !.pc = "i_body"])
    BY <1>2 DEF InitList
  <2> QED BY <1>2, <1>t, <2>1, GoesOnForms DEF InitList, At, InitLabels, Fields
<1>3. CASE InitBody(p)
  <2>1. Goto(p, "i_reply") \/ \E got : Become(p, [loc[p] EXCEPT !.todo = Tail(@), !.got = got])
    BY <1>3 DEF InitBody
  <2> QED BY <1>3, <1>t, <2>1, GoesOnForms DEF InitBody, At, InitLabels, Fields
<1> QED BY <1>1, <1>2, <1>3 DEF InitBundle

\* The steps of a pass.
LEMMA PassOn ==
  ASSUME TypeOK, NEW p \in Procs, Pass(p)
  PROVE  GoesOn(p, PassLabels)
<1> DEFINE l == loc[p]
<1>t. DOMAIN l = Fields
  BY TypedParts DEF LocalOK
<1>c. {"c_read", "c_put", "c_verify", "c_drop", "c_commit", "c_index", "c_line", "c_source",
       "h_index", "h_line", "h_blob", "h_row", "age_list", "age", "forget_list", "forget",
       "tomb_list", "mark", "doom", "gate", "g_validate", "g_write"} \subseteq PassLabels
  BY DEF PassLabels, CompressLabels, DestroyLabels
<1>1. CASE Compress(p)
  <2>1. l.pc \in PassLabels
    BY <1>1, <1>c DEF Compress, CompressRead, CompressPut, CompressVerify,
       CompressDrop, CompressCommit, CompressIndex, CompressLine, CompressSource, At
  <2>2. CASE CompressRead(p)
    <3>1. CASE Finish(p)
      BY <2>1, <3>1, GoesOnForms
    <3>2. CASE ~Finish(p)
      BY <1>c, <2>1, <2>2, <3>2, ReadOn DEF CompressRead
    <3> QED BY <3>1, <3>2
  <2>3. CASE CompressPut(p) \/ CompressVerify(p) \/ CompressDrop(p) \/ CompressCommit(p)
    BY <1>c, <2>1, <2>3, GoesOnForms DEF CompressPut, CompressVerify, CompressDrop, CompressCommit
  <2>4. CASE CompressIndex(p) \/ CompressLine(p) \/ CompressSource(p)
    BY <1>c, <2>1, <2>4, GoesOnForms DEF CompressIndex, CompressLine, CompressSource
  <2> QED BY <1>1, <2>2, <2>3, <2>4 DEF Compress
<1>2. CASE HardDelete(p)
  BY <1>2, <1>c, GoesOnForms DEF HardDelete, DestroyIndex, DestroyLine, DestroyBlob, DestroyRow, At
<1>3. CASE AgeDone(p) \/ ForgetDone(p) \/ MarkDone(p) \/ DoomDone(p) \/ GateRead(p)
             \/ GateValidate(p) \/ GateWrite(p)
  BY <1>3, <1>c, GoesOnForms DEF AgeDone, ForgetDone, MarkDone, DoomDone, GateRead, GateValidate,
     GateWrite, At
<1>4. CASE AgeList(p) \/ ForgetList(p)
  <2>1. \E s : \/ Become(p, [l EXCEPT !.todo = s, !.pc = "age"])
               \/ Become(p, [l EXCEPT !.todo = s, !.pc = "forget"])
    BY <1>4 DEF AgeList, ForgetList
  <2> QED BY <1>4, <1>c, <1>t, <2>1, GoesOnForms DEF AgeList, ForgetList, At, Fields
<1>5. CASE TombList(p)
  <2>1. PICK s, d : Become(p, [l EXCEPT !.todo = s, !.doomed = d, !.pc = "mark"])
    BY <1>5 DEF TombList
  <2> QED BY <1>5, <1>c, <1>t, <2>1, GoesOnForms DEF TombList, At, Fields
<1>6. CASE AgeNext(p)
  <2>1. Finish(p) \/ \E m, r, s :
          Become(p, [l EXCEPT !.mem = m, !.row = r, !.todo = s, !.pc = "c_read"])
    BY <1>6 DEF AgeNext
  <2> QED BY <1>6, <1>c, <1>t, <2>1, GoesOnForms DEF AgeNext, At, Fields
<1>7. CASE Forget(p) \/ SoftDelete(p)
  <2>1. Finish(p) \/ Become(p, [l EXCEPT !.todo = Tail(@)])
    BY <1>7 DEF Forget, SoftDelete, Become
  <2> QED BY <1>7, <1>c, <1>t, <2>1, GoesOnForms DEF Forget, SoftDelete, At, Fields
<1>8. CASE DoomNext(p)
  <2>1. \/ Become(p, [l EXCEPT !.doomed = Tail(@)])
        \/ \E m, r, s : Become(p, [l EXCEPT !.mem = m, !.row = r, !.doomed = s, !.pc = "h_index"])
    BY <1>8 DEF DoomNext
  <2> QED BY <1>8, <1>c, <1>t, <2>1, GoesOnForms DEF DoomNext, At, Fields
<1> QED BY <1>1, <1>2, <1>3, <1>4, <1>5, <1>6, <1>7, <1>8 DEF Pass, ForgetScan

\* The steps of a scan.
LEMMA ScanOn ==
  ASSUME TypeOK, NEW p \in Procs, Scan(p)
  PROVE  GoesOn(p, ScanLabels)
<1> DEFINE l == loc[p]
<1>t. DOMAIN l = Fields
  BY TypedParts DEF LocalOK
<1>1. CASE ScanIndex(p) \/ RepairPairs(p) \/ RepairTar(p) \/ ScanDone(p)
  BY <1>1, GoesOnForms DEF ScanIndex, RepairPairs, RepairTar, ScanDone, At, ScanLabels
<1>2. CASE ScanWalk(p)
  <2>1. PICK x : Become(p, [l EXCEPT !.pc = "s_index", !.finds = x])
    BY <1>2 DEF ScanWalk
  <2> QED BY <1>2, <1>t, <2>1, GoesOnForms DEF ScanWalk, At, ScanLabels, Fields
<1>3. CASE RepairOrphan(p)
  <2>1. PICK x : Become(p, [l EXCEPT !.finds = x])
    BY <1>3 DEF RepairOrphan, Become
  <2> QED BY <1>3, <1>t, <2>1, GoesOnForms DEF RepairOrphan, At, ScanLabels, Fields
<1>4. CASE RepairTorn(p)
  <2>1. \/ \E x : Become(p, [l EXCEPT !.finds = x])
        \/ \E x, path : Become(p, [l EXCEPT !.finds = x, !.row.rel = path, !.pc = "s_tar"])
    BY <1>4 DEF RepairTorn
  <2> QED BY <1>4, <1>t, <2>1, GoesOnForms DEF RepairTorn, At, ScanLabels, Fields
<1> QED BY <1>1, <1>2, <1>3, <1>4 DEF Scan

\* Starting an operation.
LEMMA StartsApart ==
  ASSUME TypeOK, Separate, NEW p \in Procs,
         \/ StartPass(p) \/ ScanList(p) \/ InitGlobal(p)
         \/ \E m \in Mems : PushBlob(p, m) \/ RemindStart(p, m)
  PROVE  Separate'
<1>1. CASE StartPass(p)
  BY <1>1, BlankTypes, LabelsOfOp, SeparateStart DEF StartPass, Become, Operations, PassLabels
<1>2. CASE ScanList(p)
  BY <1>2, BlankTypes, LabelsOfOp, SeparateStart DEF ScanList, Become, Operations, ScanLabels
<1>3. CASE InitGlobal(p)
  <2>1. PICK label \in {"i_index", "i_reply"}, got \in SUBSET {Global} : loc' = [loc EXCEPT ![p] = InitLocal(label, got)]
    BY <1>3, InitGlobalStep DEF GlobalRead, GlobalFailed, Become
  <2> DEFINE k == InitLocal(label, got)
  <2>2. k.op = "init" /\ k.pc = label
    BY InitLocalFields
  <2>3. MayStart(p, "init")
    BY <1>3, InitGlobalStep
  <2>4. "init" \in Operations /\ label \in OpLabels("init")
    BY LabelsOfOp DEF Operations, InitLabels
  <2> HIDE DEF k
  <2>5. loc' = [loc EXCEPT ![p] = k]
    BY <2>1 DEF k
  <2> QED BY <2>2, <2>3, <2>4, <2>5, SeparateStart
<1>4. ASSUME NEW m \in Mems, PushBlob(p, m)
      PROVE  Separate'
  <2>1. PushOp(m) \in Operations /\ OpLabels(PushOp(m)) = PushLabels
    BY LabelsOfOp DEF PushOp, Operations
  <2> QED BY <1>4, <2>1, BlankTypes, SeparateStart DEF PushBlob, Become, PushLabels
<1>5. ASSUME NEW m \in Mems, RemindStart(p, m)
      PROVE  Separate'
  <2>1. {"r_touch", "r_read"} \subseteq RemindLabels
    BY DEF RemindLabels, ReheatLabels
  <2> DEFINE l == [Idle EXCEPT !.op = "remind", !.mem = m, !.row = rows[m],
                               !.pc = IF rows[m].state = "recent" THEN "r_touch" ELSE "r_read"]
  <2>2. l.op = "remind" /\ l.pc \in RemindLabels
    BY <2>1, BlankTypes
  <2>3. loc' = [loc EXCEPT ![p] = l]
    BY <1>5 DEF RemindStart, Become
  <2> HIDE DEF l
  <2> QED BY <1>5, <2>2, <2>3, LabelsOfOp, SeparateStart DEF RemindStart, Operations
<1> QED BY <1>1, <1>2, <1>3, <1>4, <1>5

\* Every step keeps processes apart.
LEMMA NextSeparate == TypeOK /\ Separate /\ [Next]_vars => Separate'
<1> SUFFICES ASSUME TypeOK, Separate, [Next]_vars PROVE Separate'
  OBVIOUS
<1> USE DEF Procs
<1>0. loc' = loc => Separate'
  BY DEF Separate, RightOp, Apart
<1>1. CASE Tick \/ UNCHANGED vars
  BY <1>0, <1>1 DEF Tick, vars
<1>2. ASSUME NEW p \in Handlers, StartRequest(p)
      PROVE  Separate'
  BY <1>2, StartsApart DEF StartRequest
<1>3. ASSUME NEW p \in Dreams, StartDream(p)
      PROVE  Separate'
  BY <1>3, StartsApart DEF StartDream
<1>4. ASSUME NEW p \in Handlers, ContinueRequest(p)
      PROVE  Separate'
  <2>1. \/ GoesOn(p, OpLabels("push")) \/ GoesOn(p, OpLabels("remind"))
        \/ GoesOn(p, OpLabels("init"))
    BY <1>4, PushOn, RemindOn, InitOn, LabelsOfOp DEF ContinueRequest
  <2> QED BY <2>1, SeparateOn DEF Operations
<1>5. ASSUME NEW p \in Dreams, ContinueDream(p)
      PROVE  Separate'
  <2>1. GoesOn(p, OpLabels("pass")) \/ GoesOn(p, OpLabels("scan"))
    BY <1>5, PassOn, ScanOn, LabelsOfOp DEF ContinueDream
  <2> QED BY <2>1, SeparateOn DEF Operations
<1>6. ASSUME NEW p \in Procs, Stop(p)
      PROVE  Separate'
  <2>1. \A q \in Procs : loc'[q] = Idle \/ loc'[q] = loc[q]
    BY <1>6 DEF Stop, Finish, TypeOK
  <2> QED BY <2>1 DEF Separate, RightOp, Apart
<1> QED BY <1>1, <1>2, <1>3, <1>4, <1>5, <1>6 DEF Next, Start, Continue

(***************************************************************************)
(* The pair of files of a memory.                                          *)
(***************************************************************************)
LEMMA TrimmedNames ==
  /\ TrimSuffix(TarSuffix, TarSuffix) = <<>> /\ TrimSuffix(ZstSuffix, ZstSuffix) = <<>>
  /\ TrimSuffix(TarSuffix, ZstSuffix) = TarSuffix
<1>1. /\ Len(TarSuffix) = 1 /\ TarSuffix \in Seq({"tar", "zst"})
      /\ Len(ZstSuffix) = 2 /\ ZstSuffix \in Seq({"tar", "zst"})
  BY DEF TarSuffix, ZstSuffix
<1>2. ASSUME NEW s \in Seq({"tar", "zst"})
      PROVE  SubSeq(s, 1, Len(s)) = s /\ SubSeq(s, 1, 0) = <<>>
  <2>1. SubSeq(s, 1, Len(s)) = s
    BY SubSeqFull
  <2>2. SubSeq(s, 1, 0) = <<>>
    BY SubSeqEmpty
  <2> QED BY <2>1, <2>2
<1>3. ASSUME NEW s \in Seq({"tar", "zst"})
      PROVE  TrimSuffix(s, s) = <<>>
  <2>1. Len(s) \in Nat /\ Len(s) - Len(s) = 0
    OBVIOUS
  <2> QED BY <1>2, <2>1 DEF TrimSuffix
<1>4. TrimSuffix(TarSuffix, ZstSuffix) = TarSuffix
  BY <1>1 DEF TrimSuffix
<1> QED BY <1>1, <1>3, <1>4

\* The two names of a memory's archive: Compress leads from one to the other, and Reheat back.
LEMMA FilePair ==
  ASSUME NEW m \in Mems
  PROVE  /\ PushPath(m) # ColdPath(m)
         /\ PushPath(m) \in Paths /\ ColdPath(m) \in Paths
         /\ PushPath(m)[1] = m /\ ColdPath(m)[1] = m
         /\ \A x : x # m => /\ PushPath(x) # PushPath(m) /\ PushPath(x) # ColdPath(m)
                            /\ ColdPath(x) # PushPath(m) /\ ColdPath(x) # ColdPath(m)
         /\ ZstPath(PushPath(m)) = ColdPath(m) /\ TarPath(ColdPath(m)) = PushPath(m)
         /\ IsTarFile(PushPath(m)) /\ IsZst(ColdPath(m)) /\ ~IsTarFile(ColdPath(m))
<1>1. /\ Len(TarSuffix) = 1 /\ TarSuffix \in Seq({"tar", "zst"})
      /\ Len(ZstSuffix) = 2 /\ ZstSuffix \in Seq({"tar", "zst"})
  BY DEF TarSuffix, ZstSuffix
<1>2. TarSuffix # ZstSuffix /\ <<>> # TarSuffix /\ <<>> # ZstSuffix
  <2>1. Len(<<>>) = 0
    OBVIOUS
  <2>2. Len(TarSuffix) # Len(ZstSuffix) /\ Len(TarSuffix) # Len(<<>>) /\ Len(ZstSuffix) # Len(<<>>)
    BY <1>1, <2>1
  <2> QED BY <2>2, Zenon
<1>3. <<>> \o TarSuffix = TarSuffix /\ <<>> \o ZstSuffix = ZstSuffix
  BY <1>1, ConcatEmptySeq
<1>4. /\ PushPath(m) \in Paths /\ ColdPath(m) \in Paths
  BY <1>1 DEF PushPath, ColdPath, Paths, Suffixes
<1>5. /\ PushPath(m) # ColdPath(m)
      /\ \A x : x # m => /\ PushPath(x) # PushPath(m) /\ PushPath(x) # ColdPath(m)
                         /\ ColdPath(x) # PushPath(m) /\ ColdPath(x) # ColdPath(m)
  BY <1>2 DEF PushPath, ColdPath
<1>6. ZstPath(PushPath(m)) = ColdPath(m) /\ TarPath(ColdPath(m)) = PushPath(m)
  BY <1>3, TrimmedNames DEF PushPath, ColdPath, ZstPath, TarPath
<1>7. IsTarFile(PushPath(m)) /\ IsZst(ColdPath(m)) /\ ~IsTarFile(ColdPath(m))
  BY <1>2, TrimmedNames DEF PushPath, ColdPath, IsTarFile, IsZst
<1> QED BY <1>4, <1>5, <1>6, <1>7 DEF PushPath, ColdPath

\* Compressing loses nothing, and gives the bytes back.
LEMMA CompressedBodies ==
  ASSUME NEW b \in Bodies, NEW c \in Bodies
  PROVE  /\ Compressed(b).ver = b.ver /\ Compressed(b).zip = b.zip + 1
         /\ Compressed(b) = Compressed(c) => b = c
         /\ Decompresses(b) => /\ Decompressed(b) \in Bodies
                               /\ Compressed(Decompressed(b)) = b
                               /\ Decompressed(b).ver = b.ver /\ Decompressed(b).zip = b.zip - 1
<1>1. /\ Compressed(b) = [ver |-> b.ver, zip |-> b.zip + 1]
      /\ Compressed(c) = [ver |-> c.ver, zip |-> c.zip + 1]
      /\ Decompressed(b) = [ver |-> b.ver, zip |-> b.zip - 1]
  BY DEF Bodies, Compressed, Decompressed
<1>2. /\ b = [ver |-> b.ver, zip |-> b.zip] /\ b.ver \in Nat /\ b.zip \in Nat
      /\ c = [ver |-> c.ver, zip |-> c.zip] /\ c.ver \in Nat /\ c.zip \in Nat
  BY DEF Bodies
<1>3. Compressed(b) = Compressed(c) => b = c
  <2>1. Compressed(b) = Compressed(c) => b.ver = c.ver /\ b.zip + 1 = c.zip + 1
    BY <1>1
  <2> QED BY <1>2, <2>1
<1>4. ASSUME Decompresses(b)
      PROVE  Decompressed(b) \in Bodies /\ Compressed(Decompressed(b)) = b
  <2>1. b.zip - 1 \in Nat /\ b.zip - 1 + 1 = b.zip
    BY <1>2, <1>4 DEF Decompresses
  <2>2. Decompressed(b) \in Bodies
    BY <1>1, <1>2, <2>1 DEF Bodies
  <2>3. Compressed(Decompressed(b)) = [ver |-> b.ver, zip |-> b.zip - 1 + 1]
    BY <1>1 DEF Compressed
  <2> QED BY <1>2, <2>1, <2>2, <2>3
<1> QED BY <1>1, <1>3, <1>4

(***************************************************************************)
(* The store, one memory at a time.                                        *)
(***************************************************************************)
\* What a step leaves of a memory: its row, its two files and what was acknowledged.
SameRow(t, u, m) == (m \in DOMAIN t <=> m \in DOMAIN u) /\ (m \in DOMAIN t => t[m] = u[m])
SameFile(f, g, path) == /\ path \in DOMAIN f <=> path \in DOMAIN g
                        /\ path \in DOMAIN f => f[path] = g[path]
SameFiles(f, g, m) == SameFile(f, g, PushPath(m)) /\ SameFile(f, g, ColdPath(m))

\* A step that works on one memory keeps the store if it keeps that memory.
LEMMA OneMemory ==
  ASSUME NEW t, NEW f, NEW a, NEW v, NEW now, StoreKept(t, f, a, v, now),
         NEW u, NEW g, NEW b, NEW w, NEW m \in Mems, HomeRows(u), HomeFiles(g),
         KeptMem(u, g, b[m], now, m), b[m] <= w,
         \A x \in Mems \ {m} : SameRow(t, u, x) /\ SameFiles(f, g, x) /\ b[x] = a[x] /\ a[x] <= w
  PROVE  StoreKept(u, g, b, w, now)
<1>1. ASSUME NEW x \in Mems \ {m}
      PROVE  KeptMem(u, g, b[x], now, x) /\ b[x] <= w
  <2>1. KeptMem(t, f, a[x], now, x)
    BY DEF StoreKept
  <2> QED BY <2>1 DEF KeptMem, SameRow, SameFiles, SameFile, Holds, Warm
<1> QED BY <1>1 DEF StoreKept

\* Statements on one row leave the others.
LEMMA RowUntouched ==
  ASSUME NEW t, NEW m, NEW x, x # m
  PROVE  /\ \A r : SameRow(t, With(t, m, r), x)
         /\ \A where, r : SameRow(t, UpdateRow(t, m, where, r), x)
         /\ SameRow(t, Without(t, m), x)
BY DEF SameRow, With, UpdateRow, Without

\* Writing or removing a file of one memory leaves the files of the others.
LEMMA FilesUntouched ==
  ASSUME NEW f, NEW m \in Mems, NEW path \in {PushPath(m), ColdPath(m)}, NEW x, x # m
  PROVE  /\ \A b : SameFiles(f, With(f, path, b), x)
         /\ SameFiles(f, Without(f, path), x)
BY FilePair DEF SameFiles, SameFile, With, Without

\* Files written or removed at their places leave every file at its place.
LEMMA FilesAtHome ==
  ASSUME NEW f, HomeFiles(f), NEW m \in Mems, NEW path \in {PushPath(m), ColdPath(m)}
  PROVE  (\A b : HomeFiles(With(f, path, b))) /\ HomeFiles(Without(f, path))
BY FilePair DEF HomeFiles, AtHome, With, Without

\* A table with one row changed is at home if that row is.
LEMMA RowsAtHome ==
  ASSUME NEW t, HomeRows(t), NEW m, NEW r,
         r.rel = IF Warm(r) THEN PushPath(m) ELSE ColdPath(m)
  PROVE  HomeRows(With(t, m, r)) /\ (\A where : HomeRows(UpdateRow(t, m, where, r)))
BY DEF HomeRows, With, UpdateRow

\* Time condemns, and never pardons.
LEMMA TimeKeeps ==
  ASSUME NEW t, RowsOK(t), NEW f, NEW a, NEW v, NEW now \in Nat, NEW later \in Nat, now <= later,
         StoreKept(t, f, a, v, now)
  PROVE  StoreKept(t, f, a, v, later)
<1>1. ASSUME NEW m \in Mems
      PROVE  KeptMem(t, f, a[m], later, m)
  <2>1. KeptMem(t, f, a[m], now, m)
    BY DEF StoreKept
  <2>2. m \in DOMAIN t /\ Condemned(t[m], now) => Condemned(t[m], later)
    BY ConfigAssumption DEF Condemned, GraceElapsed, RowsOK, Rows, Null
  <2> QED BY <2>1, <2>2 DEF KeptMem
<1> QED BY <1>1 DEF StoreKept

\* Without anything in hand, nothing has to be kept.
LEMMA IdleKept == \A t, f, v : LocalKept(Idle, t, f, v)
BY BlankTypes DEF LocalKept, PushKept, RemindKept, CompressKept, ForgetKept, ScanKept, PushLabels,
   RemindLabels, ReheatLabels, SettleLabels, CompressLabels, DestroyLabels, ScanLabels

(***************************************************************************)
(* Steps.                                                                  *)
(***************************************************************************)
\* A step of a process that is alone.
LEMMA SoloStep ==
  ASSUME Kept, TypeOK', Separate', NEW p \in Procs, Solo(p), NEW l, loc' = [loc EXCEPT ![p] = l],
         LocalKept(l, rows', blobs', pushed'), StoreKept(rows', blobs', acked', pushed', clock')
  PROVE  Kept'
<1>1. ASSUME NEW q \in Procs
      PROVE  LocalKept(loc'[q], rows', blobs', pushed')
  BY IdleKept DEF Solo, Kept, TypeOK
<1>2. (\A q \in Procs : LocalKept(loc[q], rows, blobs, pushed))'
  BY <1>1 DEF LocalKept, PushKept, RemindKept, InHand, CompressKept, ForgetKept, ScanKept, Kind
<1>3. StoreKept(rows, blobs, acked, pushed, clock)'
  BY DEF StoreKept
<1> QED BY <1>2, <1>3 DEF Kept

\* A step that changes neither rows nor files.
LEMMA QuietStep ==
  ASSUME Kept, TypeOK', Separate', NEW p \in Procs, NEW l, loc' = [loc EXCEPT ![p] = l],
         LocalKept(l, rows, blobs, pushed), UNCHANGED <<rows, blobs, acked, pushed, clock>>
  PROVE  Kept'
<1>1. ASSUME NEW q \in Procs
      PROVE  LocalKept(loc'[q], rows', blobs', pushed')
  BY DEF Kept, TypeOK
<1>2. (\A q \in Procs : LocalKept(loc[q], rows, blobs, pushed))'
  BY <1>1 DEF LocalKept, PushKept, RemindKept, InHand, CompressKept, ForgetKept, ScanKept, Kind
<1>3. StoreKept(rows, blobs, acked, pushed, clock)'
  BY DEF Kept, StoreKept
<1> QED BY <1>2, <1>3 DEF Kept

\* Ending an operation.
LEMMA FinishKept ==
  ASSUME Kept, TypeOK', Separate', NEW p \in Procs, Finish(p),
         UNCHANGED <<rows, blobs, acked, pushed, clock>>
  PROVE  Kept'
BY IdleKept, QuietStep DEF Finish

\* What writes is alone, and so is a remind that may meet a bad write.
LEMMA GuardedSolo ==
  ASSUME Guarded, Kept, NEW p \in Procs
  PROVE  /\ loc[p].pc \in PushLabels \union PassLabels \union ScanLabels => Solo(p)
         /\ loc[p].pc \in RemindLabels /\ MaxBadWrites # 0 => Solo(p)
<1>1. RightOp(loc[p])
  BY DEF Kept, Separate
<1>2. Separate
  BY DEF Kept
<1>3. {"push", "repush", "pass", "scan"} \subseteq Exclusive
  BY DEF Guarded, Operations
<1>4. loc[p].pc \in PushLabels \union PassLabels \union ScanLabels =>
        loc[p] # Idle /\ loc[p].op \in {"push", "repush", "pass", "scan"}
  BY <1>1, OpOfLabel DEF AnyLabels
<1>5. loc[p].pc \in RemindLabels => loc[p] # Idle /\ loc[p].op = "remind"
  BY <1>1, OpOfLabel DEF AnyLabels
<1> QED BY <1>2, <1>3, <1>4, <1>5, Alone DEF Guarded

\* At each label only the facts of its own operation are at stake.
LEMMA OwnFacts ==
  ASSUME NEW l, NEW t, NEW f, NEW v
  PROVE  /\ l.pc \in PushLabels /\ PushKept(l, f, v) => LocalKept(l, t, f, v)
         /\ l.pc \in RemindLabels /\ RemindKept(l, t, f) => LocalKept(l, t, f, v)
         /\ l.pc \in {"age"} \union CompressLabels /\ CompressKept(l, t, f) => LocalKept(l, t, f, v)
         /\ l.pc \in {"forget", "mark", "doom"} \union DestroyLabels /\ ForgetKept(l, t) =>
              LocalKept(l, t, f, v)
         /\ l.pc \in ScanLabels /\ ScanKept(l, t, f) => LocalKept(l, t, f, v)
         /\ l.pc \in InitLabels \union {"age_list", "forget_list", "tomb_list", "gate",
                                        "g_validate", "g_write"} => LocalKept(l, t, f, v)
<1> USE DEF LocalKept, PushLabels, RemindLabels, ReheatLabels, SettleLabels, CompressLabels,
            DestroyLabels, ScanLabels, InitLabels
<1>1. l.pc \in PushLabels /\ PushKept(l, f, v) => LocalKept(l, t, f, v)
  BY DEF RemindKept, CompressKept, ForgetKept, ScanKept
<1>2. l.pc \in RemindLabels /\ RemindKept(l, t, f) => LocalKept(l, t, f, v)
  BY DEF PushKept, CompressKept, ForgetKept, ScanKept
<1>3. l.pc \in {"age"} \union CompressLabels /\ CompressKept(l, t, f) => LocalKept(l, t, f, v)
  BY DEF PushKept, RemindKept, ForgetKept, ScanKept
<1>4. l.pc \in {"forget", "mark", "doom"} \union DestroyLabels /\ ForgetKept(l, t) =>
        LocalKept(l, t, f, v)
  BY DEF PushKept, RemindKept, CompressKept, ScanKept
<1>5. l.pc \in ScanLabels /\ ScanKept(l, t, f) => LocalKept(l, t, f, v)
  BY DEF PushKept, RemindKept, CompressKept, ForgetKept
<1>6. l.pc \in InitLabels \union {"age_list", "forget_list", "tomb_list", "gate", "g_validate",
                                  "g_write"} => LocalKept(l, t, f, v)
  BY DEF PushKept, RemindKept, CompressKept, ForgetKept, ScanKept
<1> QED BY <1>1, <1>2, <1>3, <1>4, <1>5, <1>6

\* A step that writes or removes a file of one memory, alone.
LEMMA FileStep ==
  ASSUME Kept, TypeOK', Separate', NEW p \in Procs, Solo(p), NEW l, loc' = [loc EXCEPT ![p] = l],
         NEW m \in Mems, NEW path \in {PushPath(m), ColdPath(m)},
         (\E b : blobs' = With(blobs, path, b)) \/ blobs' = Without(blobs, path),
         UNCHANGED <<rows, acked, pushed, clock>>,
         LocalKept(l, rows, blobs', pushed), KeptMem(rows, blobs', acked[m], clock, m)
  PROVE  Kept'
<1>1. HomeFiles(blobs') /\ \A x \in Mems \ {m} : SameFiles(blobs, blobs', x)
  BY FilesAtHome, FilesUntouched DEF Kept, StoreKept
<1>2. HomeRows(rows) /\ \A x \in Mems : SameRow(rows, rows, x) /\ acked[x] <= pushed
  BY DEF Kept, StoreKept, SameRow
<1>3. StoreKept(rows, blobs', acked, pushed, clock)
  BY <1>1, <1>2, OneMemory DEF Kept
<1> QED BY <1>3, SoloStep

\* A step that updates the row of one memory, alone.
LEMMA RowStep ==
  ASSUME Kept, TypeOK', Separate', NEW p \in Procs, Solo(p), NEW l, loc' = [loc EXCEPT ![p] = l],
         NEW m \in Mems, NEW r, NEW where, rows' = UpdateRow(rows, m, where, r),
         r.rel = IF Warm(r) THEN PushPath(m) ELSE ColdPath(m),
         UNCHANGED <<blobs, acked, pushed, clock>>,
         LocalKept(l, rows', blobs, pushed), KeptMem(rows', blobs, acked[m], clock, m)
  PROVE  Kept'
<1>1. HomeRows(rows') /\ \A x \in Mems \ {m} : SameRow(rows, rows', x)
  BY RowsAtHome, RowUntouched DEF Kept, StoreKept
<1>2. HomeFiles(blobs) /\ \A x \in Mems : SameFiles(blobs, blobs, x) /\ acked[x] <= pushed
  BY DEF Kept, StoreKept, SameFiles, SameFile
<1>3. StoreKept(rows', blobs, acked, pushed, clock)
  BY <1>1, <1>2, OneMemory DEF Kept
<1> QED BY <1>3, SoloStep

(***************************************************************************)
(* Compress.                                                               *)
(***************************************************************************)
\* The memory a cold-tier operation has in hand is one, with its own two files.
LEMMA AgedRow ==
  ASSUME NEW t, NEW now, NEW m \in Aged(t, now)
  PROVE  m \in DOMAIN t /\ Warm(t[m])
BY DEF Aged, InState, Warm

\* A compress under way has what it needs to go on.
LEMMA CompressHand ==
  ASSUME Kept, NEW p \in Procs, loc[p].pc \in CompressLabels
  PROVE  /\ loc[p].mem \in Mems /\ loc[p].buf \in Bodies /\ DOMAIN loc[p] = Fields
         /\ loc[p].row.rel = PushPath(loc[p].mem)
         /\ ZstPath(loc[p].row.rel) = ColdPath(loc[p].mem)
         /\ CompressKept(loc[p], rows, blobs)
         /\ KeptMem(rows, blobs, acked[loc[p].mem], clock, loc[p].mem)
         /\ loc[p].mem \in Aged(rows, loc[p].now) =>
              /\ loc[p].mem \in DOMAIN rows /\ Warm(rows[loc[p].mem])
              /\ Holds(blobs, PushPath(loc[p].mem), 0, acked[loc[p].mem])
         /\ loc[p].mem \in InState(rows, "long_term") =>
              loc[p].mem \in DOMAIN rows /\ ~Warm(rows[loc[p].mem])
<1> DEFINE m == loc[p].mem
<1>1. LocalOK(loc[p]) /\ m \in Mems /\ loc[p].buf \in Bodies
  BY TypedParts DEF Kept
<1>2. CompressKept(loc[p], rows, blobs) /\ KeptMem(rows, blobs, acked[m], clock, m)
  BY <1>1 DEF Kept, LocalKept, StoreKept
<1>3. loc[p].row.rel = PushPath(m)
  BY <1>2 DEF CompressKept
<1>4. m \in Aged(rows, loc[p].now) =>
        m \in DOMAIN rows /\ Warm(rows[m]) /\ Holds(blobs, PushPath(m), 0, acked[m])
  BY <1>2, AgedRow DEF KeptMem
<1>5. m \in InState(rows, "long_term") => m \in DOMAIN rows /\ ~Warm(rows[m])
  BY DEF InState, Warm
<1> QED BY <1>1, <1>2, <1>3, <1>4, <1>5, FilePair DEF LocalOK

\* Archiving a memory takes it out of what is left to age.
LEMMA ArchivedRow ==
  ASSUME NEW t, RowsOK(t), NEW now, NEW m \in Aged(t, now), NEW path
  PROVE  /\ m \in InState(ArchiveRow(t, m, path), "long_term")
         /\ Aged(t, now) \ {m} \subseteq Aged(ArchiveRow(t, m, path), now)
<1>1. m \in DOMAIN t /\ t[m] \in Rows
  BY DEF Aged, InState, RowsOK
<1> QED BY <1>1 DEF ArchiveRow, UpdateRow, Aged, InState, Rows

\* Compress never leaves the memory without a file that holds it.
LEMMA CompressKeeps ==
  ASSUME Guarded, Kept, TypeOK', Separate', NEW p \in Procs, Compress(p)
  PROVE  Kept'
<1> DEFINE l == loc[p]
           m == l.mem
<1>c. {"c_read", "c_put", "c_verify", "c_drop", "c_commit", "c_index", "c_line", "c_source"}
        = CompressLabels
  BY DEF CompressLabels
<1>l. l.pc \in CompressLabels
  BY <1>c DEF Compress, CompressRead, CompressPut, CompressVerify, CompressDrop, CompressCommit,
     CompressIndex, CompressLine, CompressSource, At
<1>s. Solo(p)
  BY <1>l, GuardedSolo DEF PassLabels
<1>h. /\ m \in Mems /\ l.buf \in Bodies /\ DOMAIN l = Fields
      /\ l.row.rel = PushPath(m) /\ ZstPath(l.row.rel) = ColdPath(m)
      /\ CompressKept(l, rows, blobs) /\ KeptMem(rows, blobs, acked[m], clock, m)
      /\ m \in Aged(rows, l.now) => /\ m \in DOMAIN rows /\ Warm(rows[m])
                                    /\ Holds(blobs, PushPath(m), 0, acked[m])
      /\ m \in InState(rows, "long_term") => m \in DOMAIN rows /\ ~Warm(rows[m])
  BY <1>l, CompressHand
<1>f. PushPath(m) # ColdPath(m)
  BY <1>h, FilePair
<1> DEFINE move(label) == [l EXCEPT !.pc = label]
<1>m. \A label : /\ move(label).pc = label /\ move(label).todo = l.todo
                 /\ move(label).mem = l.mem /\ move(label).row = l.row
                 /\ move(label).buf = l.buf /\ move(label).now = l.now
  BY <1>h DEF Fields
<1> HIDE DEF move
<1>1. CASE CompressRead(p)
  <2> DEFINE k == [l EXCEPT !.buf = blobs[l.row.rel], !.pc = "c_put"]
  <2>1. CASE Exists(l.row.rel)
    <3>1. loc' = [loc EXCEPT ![p] = k]
      BY <1>1, <2>1 DEF CompressRead
    <3>2. /\ k.pc = "c_put" /\ k.todo = l.todo /\ k.mem = l.mem /\ k.row = l.row /\ k.now = l.now
          /\ k.buf = blobs[PushPath(m)]
      BY <1>h DEF Fields
    <3> HIDE DEF k
    <3>3. CompressKept(k, rows, blobs)
      BY <1>1, <1>c, <1>h, <2>1, <3>2 DEF CompressRead, At, CompressKept, Has, Exists
    <3>4. LocalKept(k, rows, blobs, pushed)
      BY <1>c, <3>2, <3>3, OwnFacts
    <3> QED BY <1>1, <3>1, <3>4, QuietStep DEF CompressRead, store, history
  <2>2. CASE ~Exists(l.row.rel)
    BY <1>1, <2>2, FinishKept DEF CompressRead, store, history
  <2> QED BY <2>1, <2>2
<1>2. CASE CompressPut(p)
  <2>1. m \in Aged(rows, l.now)
    BY <1>2, <1>h DEF CompressPut, At, CompressKept
  <2>2. PICK c : blobs' = With(blobs, ColdPath(m), c)
    BY <1>2, <1>h DEF CompressPut, StoreBody
  <2>3. KeptMem(rows, blobs', acked[m], clock, m)
    BY <1>h, <1>f, <2>1, <2>2 DEF KeptMem, Holds, With
  <2>4. CompressKept(move("c_verify"), rows, blobs')
    BY <1>2, <1>c, <1>f, <1>h, <1>m, <2>2 DEF CompressPut, At, CompressKept, Has, With
  <2>5. LocalKept(move("c_verify"), rows, blobs', pushed)
    BY <1>c, <1>m, <2>4, OwnFacts
  <2>6. loc' = [loc EXCEPT ![p] = move("c_verify")] /\ UNCHANGED <<rows, acked, pushed, clock>>
    BY <1>2 DEF CompressPut, Goto, move
  <2> QED BY <1>h, <1>s, <2>2, <2>3, <2>5, <2>6, FileStep
<1>3. CASE CompressVerify(p)
  <2> DEFINE label == IF ZstVerified(p) THEN "c_commit" ELSE "c_drop"
  <2>1. ZstVerified(p) => Has(blobs, ColdPath(m), Compressed(l.buf))
    BY <1>h DEF ZstVerified, ReadsBack, Exists, Has
  <2>2. CompressKept(move(label), rows, blobs)
    BY <1>3, <1>c, <1>h, <1>m, <2>1 DEF CompressVerify, At, CompressKept
  <2>3. LocalKept(move(label), rows, blobs, pushed)
    BY <1>c, <1>m, <2>2, OwnFacts
  <2>4. loc' = [loc EXCEPT ![p] = move(label)]
    BY <1>3 DEF CompressVerify, Goto, move
  <2> QED BY <1>3, <2>3, <2>4, QuietStep DEF CompressVerify, store, history
<1>4. CASE CompressDrop(p)
  <2>1. m \in Aged(rows, l.now)
    BY <1>4, <1>h DEF CompressDrop, At, CompressKept
  <2>2. blobs' = Without(blobs, ColdPath(m))
    BY <1>4, <1>h DEF CompressDrop, Remove
  <2>3. KeptMem(rows, blobs', acked[m], clock, m)
    BY <1>h, <1>f, <2>1, <2>2 DEF KeptMem, Holds, Without
  <2>4. loc' = [loc EXCEPT ![p] = Idle] /\ UNCHANGED <<rows, acked, pushed, clock>>
    BY <1>4 DEF CompressDrop, Finish, history
  <2> QED BY <1>h, <1>s, <2>2, <2>3, <2>4, IdleKept, FileStep
<1>5. CASE CompressCommit(p)
  <2> DEFINE r == [rows[m] EXCEPT !.state = "long_term", !.rel = ColdPath(m)]
  <2>1. /\ m \in Aged(rows, l.now) /\ m \notin Listed(l.todo) /\ Ahead(l.todo, Aged(rows, l.now))
        /\ Has(blobs, PushPath(m), l.buf) /\ Has(blobs, ColdPath(m), Compressed(l.buf))
    BY <1>5, <1>c, <1>h DEF CompressCommit, At, CompressKept
  <2>2. rows' = ArchiveRow(rows, m, ColdPath(m))
    BY <1>5, <1>h DEF CompressCommit
  <2>3. /\ m \in DOMAIN rows' /\ ~Warm(rows'[m]) /\ m \in InState(rows', "long_term")
        /\ Aged(rows, l.now) \ {m} \subseteq Aged(rows', l.now)
    <3>1. RowsOK(rows)
      BY TypedParts DEF Kept
    <3>2. m \in InState(rows', "long_term") /\ Aged(rows, l.now) \ {m} \subseteq Aged(rows', l.now)
      BY <2>1, <2>2, <3>1, ArchivedRow
    <3> QED BY <3>2 DEF InState, Warm
  <2>4. Holds(blobs, ColdPath(m), 1, acked[m])
    BY <1>h, <2>1, CompressedBodies DEF Holds, Has
  <2>5. KeptMem(rows', blobs, acked[m], clock, m)
    BY <2>3, <2>4 DEF KeptMem, Holds
  <2>6. CompressKept(move("c_index"), rows', blobs)
    BY <1>h, <1>m, <2>1, <2>3 DEF CompressKept, CompressLabels, Ahead
  <2>7. LocalKept(move("c_index"), rows', blobs, pushed)
    BY <1>c, <1>m, <2>6, OwnFacts
  <2>8. rows' = UpdateRow(rows, m, TRUE, r) /\ r.rel = ColdPath(m) /\ ~Warm(r)
    <3>1. rows[m] \in Rows
      BY <1>h, <2>1, TypedParts DEF Kept, RowsOK
    <3> QED BY <2>2, <3>1 DEF ArchiveRow, Rows, Warm
  <2>9. loc' = [loc EXCEPT ![p] = move("c_index")] /\ UNCHANGED <<blobs, acked, pushed, clock>>
    BY <1>5 DEF CompressCommit, Goto, move, history
  <2> HIDE DEF r
  <2> QED BY <1>h, <1>s, <2>5, <2>7, <2>8, <2>9, RowStep
<1>6. CASE CompressIndex(p)
  <2> DEFINE k == [l EXCEPT !.idx = index, !.pc = "c_line"]
  <2>1. loc' = [loc EXCEPT ![p] = k]
    BY <1>6 DEF CompressIndex, ReadIndex
  <2>2. /\ k.pc = "c_line" /\ k.todo = l.todo /\ k.mem = l.mem /\ k.row = l.row /\ k.now = l.now
    BY <1>h DEF Fields
  <2> HIDE DEF k
  <2>3. CompressKept(k, rows, blobs)
    BY <1>6, <1>c, <1>h, <2>2 DEF CompressIndex, At, CompressKept
  <2>4. LocalKept(k, rows, blobs, pushed)
    BY <1>c, <2>2, <2>3, OwnFacts
  <2> QED BY <1>6, <2>1, <2>4, QuietStep DEF CompressIndex, store, history
<1>7. CASE CompressLine(p)
  <2>1. CompressKept(move("c_source"), rows, blobs)
    BY <1>7, <1>c, <1>h, <1>m DEF CompressLine, At, CompressKept
  <2>2. LocalKept(move("c_source"), rows, blobs, pushed)
    BY <1>c, <1>m, <2>1, OwnFacts
  <2>3. loc' = [loc EXCEPT ![p] = move("c_source")]
    BY <1>7 DEF CompressLine, Goto, move
  <2> QED BY <1>7, <2>2, <2>3, QuietStep DEF CompressLine, history
<1>8. CASE CompressSource(p)
  <2> DEFINE k == [l EXCEPT !.pc = "age", !.row = BlankRow, !.buf = Garbage, !.idx = NoFile]
  <2>1. loc' = [loc EXCEPT ![p] = k] /\ UNCHANGED <<rows, acked, pushed, clock>>
    BY <1>8 DEF CompressSource, Return, history
  <2>2. k.pc = "age" /\ k.todo = l.todo /\ k.now = l.now
    BY <1>h DEF Fields
  <2> HIDE DEF k
  <2>3. blobs' = Without(blobs, PushPath(m))
    BY <1>8, <1>h DEF CompressSource, Remove
  <2>4. CompressKept(k, rows, blobs')
    BY <1>8, <1>c, <1>h, <2>2 DEF CompressSource, At, CompressKept
  <2>5. LocalKept(k, rows, blobs', pushed)
    BY <2>2, <2>4, OwnFacts
  <2>6. m \in DOMAIN rows /\ ~Warm(rows[m])
    BY <1>8, <1>h DEF CompressSource, At, CompressKept
  <2>7. KeptMem(rows, blobs', acked[m], clock, m)
    BY <1>h, <1>f, <2>3, <2>6 DEF KeptMem, Holds, Without
  <2> QED BY <1>h, <1>s, <2>1, <2>3, <2>5, <2>7, FileStep
<1> QED BY <1>1, <1>2, <1>3, <1>4, <1>5, <1>6, <1>7, <1>8 DEF Compress

(***************************************************************************)
(* The lists of a pass: each memory once, and none but what is selected.   *)
(***************************************************************************)
LEMMA AheadWider ==
  ASSUME NEW s, NEW S, NEW U, Ahead(s, S), S \subseteq U
  PROVE  Ahead(s, U)
BY DEF Ahead

\* A list of rows names each selected memory once.
LEMMA RecencyAhead ==
  ASSUME NEW t, NEW S, NEW s \in ByRecency(t, S)
  PROVE  Ahead(s, S)
<1>1. s \in [1..Cardinality(S) -> S] /\ \A i, j \in DOMAIN s : i < j => s[i] # s[j]
  BY DEF ByRecency
<1>2. \A i, j \in DOMAIN s : i = j \/ i < j \/ j < i
  BY <1>1
<1> QED BY <1>1, <1>2 DEF Ahead, Distinct, Listed

\* The capped list of condemned memories names each of them at most once.
LEMMA CappedAhead ==
  ASSUME NEW S \in SUBSET Mems, IsFiniteSet(S), NEW d \in ByMemId(S)
  PROVE  Ahead(Capped(d), S)
<1>1. /\ d \in [1..Cardinality(S) -> S] /\ Cardinality(S) \in Nat
      /\ \A i, j \in DOMAIN d : i < j => d[i] < d[j]
  BY FS_CardinalityType DEF ByMemId
<1>2. d \in Seq(S) /\ Len(d) = Cardinality(S)
  BY <1>1
<1> DEFINE n == IF Len(d) < MaxDeletions THEN Len(d) ELSE MaxDeletions
<1>3. n \in Nat /\ n <= Len(d)
  BY <1>1, <1>2, ConfigAssumption
<1>4. Capped(d) = SubSeq(d, 1, n)
  BY DEF Capped
<1> HIDE DEF n
<1>5. DOMAIN Capped(d) = 1..n /\ \A i \in 1..n : Capped(d)[i] = d[i]
  BY <1>2, <1>3, <1>4
<1>6. \A i, j \in 1..n : i # j => d[i] # d[j]
  <2> SUFFICES ASSUME NEW i \in 1..n, NEW j \in 1..n, i < j
               PROVE  d[i] # d[j]
    BY <1>3
  <2>1. i \in DOMAIN d /\ j \in DOMAIN d /\ d[i] < d[j]
    BY <1>1, <1>2, <1>3
  <2>2. d[i] \in Nat
    BY <1>1, <2>1, MemAssumption DEF Mems
  <2> QED BY <2>1, <2>2
<1>7. \A i \in 1..n : d[i] \in S
  BY <1>1, <1>2, <1>3
<1> QED BY <1>5, <1>6, <1>7 DEF Ahead, Distinct, Listed

\* The next memory of a list is selected, and does not come again.
LEMMA NextAhead ==
  ASSUME NEW X, NEW s \in Seq(X), s # <<>>, NEW S, Ahead(s, S)
  PROVE  /\ Head(s) \in S
         /\ Head(s) \notin Listed(Tail(s))
         /\ Ahead(Tail(s), S \ {Head(s)}) /\ Ahead(Tail(s), S)
<1>1. Len(s) \in Nat /\ Len(s) > 0 /\ DOMAIN s = 1..Len(s) /\ Head(s) = s[1]
  BY EmptySeq
<1>2. /\ DOMAIN Tail(s) = 1..(Len(s) - 1)
      /\ \A i \in 1..(Len(s) - 1) : Tail(s)[i] = s[i + 1]
  BY <1>1
<1>3. \A i \in DOMAIN Tail(s) : i + 1 \in DOMAIN s /\ i + 1 # 1 /\ Tail(s)[i] = s[i + 1]
  BY <1>1, <1>2
<1>4. 1 \in DOMAIN s
  BY <1>1
<1>5. Listed(Tail(s)) \subseteq S \ {Head(s)}
  BY <1>1, <1>3, <1>4 DEF Ahead, Listed, Distinct
<1>6. Distinct(Tail(s))
  <2> SUFFICES ASSUME NEW i \in DOMAIN Tail(s), NEW j \in DOMAIN Tail(s), Tail(s)[i] = Tail(s)[j]
               PROVE  i = j
    BY DEF Distinct
  <2>1. i + 1 = j + 1
    BY <1>3 DEF Ahead, Distinct
  <2> QED BY <1>2, <2>1
<1> QED BY <1>1, <1>4, <1>5, <1>6 DEF Ahead, Listed

(***************************************************************************)
(* The age scan.                                                           *)
(***************************************************************************)
LEMMA AgeScanKeeps ==
  ASSUME Guarded, Kept, TypeOK', Separate', NEW p \in Procs,
         StartPass(p) \/ AgeList(p) \/ AgeNext(p) \/ AgeDone(p)
  PROVE  Kept'
<1> DEFINE l == loc[p]
<1>t. DOMAIN l = Fields /\ l.todo \in Seq(Mems)
  BY TypedParts DEF Kept, LocalOK
<1>1. CASE StartPass(p)
  <2> DEFINE k == [Idle EXCEPT !.op = "pass", !.pc = "age_list", !.now = clock]
  <2>1. loc' = [loc EXCEPT ![p] = k]
    BY <1>1 DEF StartPass, Become
  <2>2. k.pc = "age_list"
    BY BlankTypes
  <2> HIDE DEF k
  <2> QED BY <1>1, <2>1, <2>2, OwnFacts, QuietStep DEF StartPass, store, history
<1>2. CASE AgeList(p)
  <2>1. PICK s \in ByRecency(rows, Aged(rows, l.now)) :
          Become(p, [l EXCEPT !.todo = s, !.pc = "age"])
    BY <1>2 DEF AgeList
  <2> DEFINE k == [l EXCEPT !.todo = s, !.pc = "age"]
  <2>2. k.pc = "age" /\ k.todo = s /\ k.now = l.now
    BY <1>t DEF Fields
  <2>3. loc' = [loc EXCEPT ![p] = k]
    BY <2>1 DEF Become
  <2> HIDE DEF k
  <2>4. CompressKept(k, rows, blobs)
    BY <2>2, RecencyAhead DEF CompressKept, CompressLabels
  <2> QED BY <1>2, <2>2, <2>3, <2>4, OwnFacts, QuietStep DEF AgeList, store, history
<1>3. CASE AgeNext(p)
  <2> DEFINE m == Head(l.todo)
             k == [l EXCEPT !.mem = m, !.row = rows[m], !.todo = Tail(@), !.pc = "c_read"]
  <2>1. /\ m \in Aged(rows, l.now) /\ m \notin Listed(Tail(l.todo))
        /\ Ahead(Tail(l.todo), Aged(rows, l.now))
    <3>1. Ahead(l.todo, Aged(rows, l.now)) /\ l.todo # <<>>
      BY <1>3 DEF AgeNext, At, Kept, LocalKept, CompressKept
    <3>2. l.todo \in Seq(Mems)
      BY <1>t
    <3> QED BY <3>1, <3>2, NextAhead
  <2>2. m \in DOMAIN rows /\ rows[m].rel = PushPath(m)
    BY <2>1, AgedRow DEF Kept, StoreKept, HomeRows
  <2>3. loc' = [loc EXCEPT ![p] = k]
    BY <1>3, <2>2 DEF AgeNext, Become
  <2>4. k.pc = "c_read" /\ k.mem = m /\ k.row = rows[m] /\ k.todo = Tail(l.todo) /\ k.now = l.now
    BY <1>t DEF Fields
  <2> HIDE DEF k, m
  <2>5. CompressKept(k, rows, blobs)
    BY <2>1, <2>2, <2>4 DEF CompressKept
  <2>6. LocalKept(k, rows, blobs, pushed)
    BY <2>4, <2>5, OwnFacts DEF CompressLabels
  <2> QED BY <1>3, <2>3, <2>6, QuietStep DEF AgeNext, store, history
<1>4. CASE AgeDone(p)
  <2> DEFINE k == [l EXCEPT !.pc = "forget_list"]
  <2>1. loc' = [loc EXCEPT ![p] = k] /\ k.pc = "forget_list"
    BY <1>4, <1>t DEF AgeDone, Goto, Fields
  <2> HIDE DEF k
  <2> QED BY <1>4, <2>1, OwnFacts, QuietStep DEF AgeDone, store, history
<1> QED BY <1>1, <1>2, <1>3, <1>4

(***************************************************************************)
(* The forget scan and the gate.                                           *)
(***************************************************************************)
\* A memory that is not recent, and whose row is not condemned, is in its .tar.zst.
LEMMA ColdHolds ==
  ASSUME NEW t, NEW f, NEW ver, NEW now, NEW m \in DOMAIN t, KeptMem(t, f, ver, now, m),
         ~Warm(t[m]), ~Condemned(t[m], now)
  PROVE  ColdPath(m) \in DOMAIN f /\ Holds(f, ColdPath(m), 1, ver)
BY DEF KeptMem

\* Forgetting a memory keeps its file, and the rest of the list.
LEMMA ForgottenRow ==
  ASSUME NEW t, RowsOK(t), NEW now, NEW m \in Forgettable(t, now)
  PROVE  /\ m \in DOMAIN t /\ ~Warm(t[m]) /\ (\A late : ~Condemned(t[m], late))
         /\ m \in DOMAIN ForgetRow(t, m) /\ ~Warm(ForgetRow(t, m)[m])
         /\ Forgettable(t, now) \ {m} \subseteq Forgettable(ForgetRow(t, m), now)
<1>1. m \in DOMAIN t /\ t[m] \in Rows /\ t[m].state = "long_term" /\ ~Exempt(m)
  BY DEF Forgettable, InState, RowsOK
<1> QED BY <1>1 DEF ForgetRow, UpdateRow, Forgettable, InState, Rows, Warm, Condemned, Destroyable

\* Marking a memory keeps its file, the rest of the list and what is doomed.
LEMMA MarkedRow ==
  ASSUME NEW t, RowsOK(t), NEW now, NEW m \in Unmarked(t, now), NEW when
  PROVE  /\ m \in DOMAIN t /\ ~Warm(t[m]) /\ (\A late : ~Condemned(t[m], late))
         /\ m \in DOMAIN SoftDeleteRow(t, m, when) /\ ~Warm(SoftDeleteRow(t, m, when)[m])
         /\ Unmarked(t, now) \ {m} \subseteq Unmarked(SoftDeleteRow(t, m, when), now)
         /\ Doomed(t, now) \subseteq Doomed(SoftDeleteRow(t, m, when), now)
<1>1. m \in DOMAIN t /\ t[m] \in Rows /\ t[m].state = "tombstone" /\ ~Exempt(m) /\ t[m].del = Null
  BY DEF Unmarked, InState, RowsOK
<1>2. SoftDeleteRow(t, m, when) = [t EXCEPT ![m] = [t[m] EXCEPT !.del = when]]
  BY <1>1 DEF SoftDeleteRow, UpdateRow, Markable
<1>3. /\ m \in DOMAIN t /\ ~Warm(t[m]) /\ (\A late : ~Condemned(t[m], late))
      /\ m \in DOMAIN SoftDeleteRow(t, m, when) /\ ~Warm(SoftDeleteRow(t, m, when)[m])
  BY <1>1, <1>2 DEF Rows, Warm, Condemned, Destroyable
<1>4. Unmarked(t, now) \ {m} \subseteq Unmarked(SoftDeleteRow(t, m, when), now)
  BY <1>1, <1>2 DEF Unmarked, InState
<1>5. Doomed(t, now) \subseteq Doomed(SoftDeleteRow(t, m, when), now)
  <2>1. m \notin Doomed(t, now)
    BY <1>1 DEF Doomed, GraceElapsed
  <2> QED BY <1>1, <1>2, <2>1 DEF Doomed, InState
<1> QED BY <1>3, <1>4, <1>5

\* A doomed memory is condemned, and its deletion leaves the other doomed ones.
LEMMA DoomedRow ==
  ASSUME NEW t, RowsOK(t), NEW now \in Nat, NEW late \in Nat, now <= late, NEW m \in Doomed(t, now)
  PROVE  /\ m \in DOMAIN t /\ ~Warm(t[m]) /\ Destroyable(t[m]) /\ Condemned(t[m], late)
         /\ Doomed(t, now) \ {m} \subseteq Doomed(Without(t, m), now)
<1>1. /\ m \in DOMAIN t /\ t[m] \in Rows /\ t[m].state = "tombstone"
      /\ t[m].del # Null /\ now - t[m].del > Grace
  BY DEF Doomed, InState, RowsOK, GraceElapsed
<1>2. t[m].del \in Nat
  BY <1>1 DEF Rows
<1>3. Condemned(t[m], late)
  BY <1>1, <1>2, ConfigAssumption DEF Condemned, Destroyable, GraceElapsed
<1>4. Doomed(t, now) \ {m} \subseteq Doomed(Without(t, m), now)
  BY DEF Doomed, InState, Without
<1> QED BY <1>1, <1>3, <1>4 DEF Warm, Destroyable

\* HardDelete removes the file and the row of a condemned memory only.
LEMMA DestroyKeeps ==
  ASSUME Guarded, Kept, TypeOK', Separate', NEW p \in Procs, HardDelete(p)
  PROVE  Kept'
<1> DEFINE l == loc[p]
           m == l.mem
<1>c. {"h_index", "h_line", "h_blob", "h_row"} = DestroyLabels
  BY DEF DestroyLabels
<1>l. l.pc \in DestroyLabels
  BY <1>c DEF HardDelete, DestroyIndex, DestroyLine, DestroyBlob, DestroyRow, At
<1>s. Solo(p)
  BY <1>l, GuardedSolo DEF PassLabels
<1>t. /\ m \in Mems /\ DOMAIN l = Fields /\ RowsOK(rows)
      /\ l.now \in Nat /\ clock \in Nat /\ l.now <= clock
  BY TypedParts DEF Kept, LocalOK
<1>h. /\ ForgetKept(l, rows)
      /\ m \in Doomed(rows, l.now) /\ m \notin Listed(l.doomed) /\ l.row.rel = ColdPath(m)
      /\ Ahead(l.doomed, Doomed(rows, l.now))
  BY <1>l DEF Kept, LocalKept, ForgetKept
<1>d. /\ m \in DOMAIN rows /\ ~Warm(rows[m]) /\ Condemned(rows[m], clock)
      /\ Doomed(rows, l.now) \ {m} \subseteq Doomed(Without(rows, m), l.now)
  BY <1>t, <1>h, DoomedRow
<1>o. \A k : k.pc \in DestroyLabels /\ k.doomed = l.doomed /\ k.mem = l.mem /\ k.row = l.row
               /\ k.now = l.now => \A f : LocalKept(k, rows, f, pushed)
  BY <1>c, <1>h, OwnFacts DEF ForgetKept
<1> DEFINE move(label) == [l EXCEPT !.pc = label]
<1>m. \A label \in DestroyLabels : \A f : LocalKept(move(label), rows, f, pushed)
  <2>1. \A label : /\ move(label).pc = label /\ move(label).doomed = l.doomed
                   /\ move(label).mem = l.mem /\ move(label).row = l.row
                   /\ move(label).now = l.now
    BY <1>t DEF Fields
  <2> HIDE DEF move
  <2> QED BY <1>o, <2>1
<1> HIDE DEF move
<1>1. CASE DestroyIndex(p)
  <2> DEFINE label == IF index = NoFile THEN "h_blob" ELSE "h_line"
             k == [l EXCEPT !.idx = index, !.pc = label]
  <2>1. loc' = [loc EXCEPT ![p] = k]
    BY <1>1 DEF DestroyIndex, ReadIndex
  <2>2. k.pc = label /\ k.doomed = l.doomed /\ k.mem = l.mem /\ k.row = l.row /\ k.now = l.now
    BY <1>t DEF Fields
  <2> HIDE DEF k
  <2>3. LocalKept(k, rows, blobs, pushed)
    BY <1>c, <1>o, <2>2
  <2> QED BY <1>1, <2>1, <2>3, QuietStep DEF DestroyIndex, store, history
<1>2. CASE DestroyLine(p)
  <2>1. loc' = [loc EXCEPT ![p] = move("h_blob")]
    BY <1>2 DEF DestroyLine, Goto, move
  <2> QED BY <1>2, <1>c, <1>m, <2>1, QuietStep DEF DestroyLine, history
<1>3. CASE DestroyBlob(p)
  <2>1. loc' = [loc EXCEPT ![p] = move("h_row")] /\ blobs' = Without(blobs, ColdPath(m))
    BY <1>3, <1>h DEF DestroyBlob, Goto, Remove, move
  <2>2. KeptMem(rows, blobs', acked[m], clock, m)
    BY <1>d, <2>1 DEF KeptMem, Without
  <2>3. UNCHANGED <<rows, acked, pushed, clock>>
    BY <1>3 DEF DestroyBlob, history
  <2> QED BY <1>c, <1>m, <1>s, <1>t, <2>1, <2>2, <2>3, FileStep
<1>4. CASE DestroyRow(p)
  <2> DEFINE k == [l EXCEPT !.pc = "doom", !.row = BlankRow, !.buf = Garbage, !.idx = NoFile]
  <2>1. loc' = [loc EXCEPT ![p] = k]
    BY <1>4 DEF DestroyRow, Return
  <2>2. k.pc = "doom" /\ k.doomed = l.doomed /\ k.now = l.now
    BY <1>t DEF Fields
  <2> HIDE DEF k
  <2>3. rows' = Without(rows, m) /\ acked' = [acked EXCEPT ![m] = 0]
    BY <1>4, <1>d DEF DestroyRow
  <2>4. Ahead(l.doomed, Doomed(rows', l.now))
    BY <1>d, <1>h, <2>3 DEF Ahead
  <2>5. LocalKept(k, rows', blobs, pushed)
    <3>1. ForgetKept(k, rows')
      BY <2>2, <2>4 DEF ForgetKept, DestroyLabels
    <3> QED BY <2>2, <3>1, OwnFacts
  <2>6. DOMAIN acked = Mems /\ acked \in [Mems -> Nat] /\ pushed \in Nat
    BY <1>t, TypedParts, BoundAssumption DEF Kept, HistoryOK
  <2>7. /\ HomeRows(rows') /\ KeptMem(rows', blobs, acked'[m], clock, m) /\ acked'[m] <= pushed
    BY <1>t, <2>3, <2>6 DEF HomeRows, KeptMem, Without, Kept, StoreKept
  <2>8. \A x \in Mems \ {m} : /\ SameRow(rows, rows', x) /\ SameFiles(blobs, blobs, x)
                              /\ acked'[x] = acked[x] /\ acked[x] <= pushed
    BY <2>3, <2>6, RowUntouched DEF SameFiles, SameFile, Kept, StoreKept
  <2>9. UNCHANGED <<blobs, pushed, clock>>
    BY <1>4 DEF DestroyRow
  <2>10. StoreKept(rows', blobs, acked', pushed, clock)
    <3>1. HomeFiles(blobs) /\ StoreKept(rows, blobs, acked, pushed, clock)
      BY DEF Kept, StoreKept
    <3> QED BY <1>t, <2>7, <2>8, <3>1, OneMemory
  <2> QED BY <1>s, <2>1, <2>5, <2>9, <2>10, SoloStep
<1> QED BY <1>1, <1>2, <1>3, <1>4 DEF HardDelete

\* The forget scan lists, forgets, marks and destroys.
LEMMA ForgetScanKeeps ==
  ASSUME Guarded, Kept, TypeOK', Separate', NEW p \in Procs, ForgetScan(p)
  PROVE  Kept'
<1> DEFINE l == loc[p]
           move(label) == [l EXCEPT !.pc = label]
<1>t. /\ DOMAIN l = Fields /\ l.todo \in Seq(Mems) /\ l.doomed \in Seq(Mems) /\ RowsOK(rows)
      /\ l.now \in Nat /\ clock \in Nat /\ l.now <= clock
  BY TypedParts DEF Kept, LocalOK
<1>k. LocalKept(l, rows, blobs, pushed) /\ ForgetKept(l, rows)
  BY DEF Kept, LocalKept
<1>m. \A label : move(label).pc = label /\ move(label).doomed = l.doomed /\ move(label).now = l.now
  BY <1>t DEF Fields
<1> HIDE DEF move
<1>1. CASE ForgetList(p)
  <2>1. PICK s \in ByRecency(rows, Forgettable(rows, l.now)) :
          Become(p, [l EXCEPT !.todo = s, !.pc = "forget"])
    BY <1>1 DEF ForgetList
  <2> DEFINE k == [l EXCEPT !.todo = s, !.pc = "forget"]
  <2>2. k.pc = "forget" /\ k.todo = s /\ k.now = l.now
    BY <1>t DEF Fields
  <2>3. loc' = [loc EXCEPT ![p] = k]
    BY <2>1 DEF Become
  <2> HIDE DEF k
  <2>4. ForgetKept(k, rows)
    BY <2>2, RecencyAhead DEF ForgetKept, DestroyLabels
  <2> QED BY <1>1, <2>2, <2>3, <2>4, OwnFacts, QuietStep DEF ForgetList, store, history
<1>2. CASE Forget(p)
  <2> DEFINE m == Head(l.todo)
             k == [l EXCEPT !.todo = Tail(@)]
             r == [rows[m] EXCEPT !.state = "tombstone"]
  <2>1. Ahead(l.todo, Forgettable(rows, l.now)) /\ l.todo # <<>> /\ l.pc = "forget"
    BY <1>2, <1>k DEF Forget, At, ForgetKept
  <2>2. m \in Forgettable(rows, l.now) /\ Ahead(Tail(l.todo), Forgettable(rows, l.now) \ {m})
    <3>1. l.todo \in Seq(Mems)
      BY <1>t
    <3> QED BY <2>1, <3>1, NextAhead
  <2>3. /\ m \in DOMAIN rows /\ ~Warm(rows[m]) /\ ~Condemned(rows[m], clock)
        /\ m \in DOMAIN ForgetRow(rows, m) /\ ~Warm(ForgetRow(rows, m)[m])
        /\ Forgettable(rows, l.now) \ {m} \subseteq Forgettable(ForgetRow(rows, m), l.now)
    BY <1>t, <2>2, ForgottenRow
  <2>4. /\ m \in Mems /\ rows' = ForgetRow(rows, m) /\ loc' = [loc EXCEPT ![p] = k]
        /\ UNCHANGED <<blobs, acked, pushed, clock>>
    BY <1>2, <1>t, <2>3 DEF Forget, RowsOK, history
  <2>5. k.pc = "forget" /\ k.todo = Tail(l.todo) /\ k.now = l.now
    BY <1>t, <2>1 DEF Fields
  <2> HIDE DEF k
  <2>6. LocalKept(k, rows', blobs, pushed)
    <3>1. Ahead(k.todo, Forgettable(rows', l.now))
      BY <2>2, <2>3, <2>4, <2>5, AheadWider
    <3>2. ForgetKept(k, rows')
      BY <2>5, <3>1 DEF ForgetKept, DestroyLabels
    <3> QED BY <2>5, <3>2, OwnFacts
  <2>7. KeptMem(rows', blobs, acked[m], clock, m)
    BY <2>3, <2>4, ColdHolds DEF KeptMem, Kept, StoreKept
  <2>8. rows' = UpdateRow(rows, m, ~Exempt(m), r) /\ r.rel = ColdPath(m) /\ ~Warm(r)
    <3>1. rows[m] \in Rows /\ rows[m].rel = ColdPath(m)
      BY <1>t, <2>3 DEF RowsOK, Kept, StoreKept, HomeRows
    <3> QED BY <2>4, <3>1 DEF ForgetRow, Rows, Warm
  <2>9. Solo(p)
    BY <2>1, GuardedSolo DEF PassLabels
  <2> HIDE DEF r, m
  <2> QED BY <2>4, <2>6, <2>7, <2>8, <2>9, RowStep
<1>3. CASE ForgetDone(p)
  <2>1. loc' = [loc EXCEPT ![p] = move("tomb_list")]
    BY <1>3 DEF ForgetDone, Goto, move
  <2> QED BY <1>3, <1>m, <2>1, OwnFacts, QuietStep DEF ForgetDone, store, history
<1>4. CASE TombList(p)
  <2>1. PICK s \in ByRecency(rows, Unmarked(rows, l.now)), d \in ByMemId(Doomed(rows, l.now)) :
          Become(p, [l EXCEPT !.todo = s, !.doomed = Capped(d), !.pc = "mark"])
    BY <1>4 DEF TombList
  <2> DEFINE k == [l EXCEPT !.todo = s, !.doomed = Capped(d), !.pc = "mark"]
  <2>2. k.pc = "mark" /\ k.todo = s /\ k.doomed = Capped(d) /\ k.now = l.now
    BY <1>t DEF Fields
  <2>3. loc' = [loc EXCEPT ![p] = k]
    BY <2>1 DEF Become
  <2> HIDE DEF k
  <2>4. Doomed(rows, l.now) \in SUBSET Mems /\ IsFiniteSet(Doomed(rows, l.now))
    <3>1. Doomed(rows, l.now) \in SUBSET Mems
      BY <1>t DEF Doomed, InState, RowsOK
    <3>2. IsFiniteSet(Mems)
      BY MemAssumption, FS_AddElement DEF Mems
    <3> QED BY <3>1, <3>2, FS_Subset
  <2>5. ForgetKept(k, rows)
    BY <2>2, <2>4, RecencyAhead, CappedAhead DEF ForgetKept, DestroyLabels
  <2> QED BY <1>4, <2>2, <2>3, <2>5, OwnFacts, QuietStep DEF TombList, store, history
<1>5. CASE SoftDelete(p)
  <2> DEFINE m == Head(l.todo)
             k == [l EXCEPT !.todo = Tail(@)]
             r == [rows[m] EXCEPT !.del = l.now]
  <2>1. /\ Ahead(l.todo, Unmarked(rows, l.now)) /\ l.todo # <<>> /\ l.pc = "mark"
        /\ Ahead(l.doomed, Doomed(rows, l.now))
    BY <1>5, <1>k DEF SoftDelete, At, ForgetKept
  <2>2. m \in Unmarked(rows, l.now) /\ Ahead(Tail(l.todo), Unmarked(rows, l.now) \ {m})
    <3>1. l.todo \in Seq(Mems)
      BY <1>t
    <3> QED BY <2>1, <3>1, NextAhead
  <2>3. /\ m \in DOMAIN rows /\ ~Warm(rows[m]) /\ ~Condemned(rows[m], clock)
        /\ m \in DOMAIN SoftDeleteRow(rows, m, l.now) /\ ~Warm(SoftDeleteRow(rows, m, l.now)[m])
        /\ Unmarked(rows, l.now) \ {m} \subseteq Unmarked(SoftDeleteRow(rows, m, l.now), l.now)
        /\ Doomed(rows, l.now) \subseteq Doomed(SoftDeleteRow(rows, m, l.now), l.now)
    BY <1>t, <2>2, MarkedRow
  <2>4. /\ m \in Mems /\ rows' = SoftDeleteRow(rows, m, l.now) /\ loc' = [loc EXCEPT ![p] = k]
        /\ UNCHANGED <<blobs, acked, pushed, clock>>
    BY <1>5, <1>t, <2>3 DEF SoftDelete, RowsOK, history
  <2>5. k.pc = "mark" /\ k.todo = Tail(l.todo) /\ k.doomed = l.doomed /\ k.now = l.now
    BY <1>t, <2>1 DEF Fields
  <2> HIDE DEF k
  <2>6. LocalKept(k, rows', blobs, pushed)
    <3>1. Ahead(k.todo, Unmarked(rows', l.now)) /\ Ahead(k.doomed, Doomed(rows', l.now))
      BY <2>1, <2>2, <2>3, <2>4, <2>5, AheadWider
    <3>2. ForgetKept(k, rows')
      BY <2>5, <3>1 DEF ForgetKept, DestroyLabels
    <3> QED BY <2>5, <3>2, OwnFacts
  <2>7. KeptMem(rows', blobs, acked[m], clock, m)
    BY <2>3, <2>4, ColdHolds DEF KeptMem, Kept, StoreKept
  <2>8. /\ rows' = UpdateRow(rows, m, Markable(rows[m]) /\ ~Exempt(m), r)
        /\ r.rel = ColdPath(m) /\ ~Warm(r)
    <3>1. rows[m] \in Rows /\ rows[m].rel = ColdPath(m)
      BY <1>t, <2>3 DEF RowsOK, Kept, StoreKept, HomeRows
    <3> QED BY <2>3, <2>4, <3>1 DEF SoftDeleteRow, Rows, Warm
  <2>9. Solo(p)
    BY <2>1, GuardedSolo DEF PassLabels
  <2> HIDE DEF r, m
  <2> QED BY <2>4, <2>6, <2>7, <2>8, <2>9, RowStep
<1>6. CASE MarkDone(p)
  <2>1. loc' = [loc EXCEPT ![p] = move("doom")]
    BY <1>6 DEF MarkDone, Goto, move
  <2>2. ForgetKept(move("doom"), rows)
    BY <1>6, <1>k, <1>m DEF MarkDone, At, ForgetKept, DestroyLabels
  <2> QED BY <1>6, <1>m, <2>1, <2>2, OwnFacts, QuietStep DEF MarkDone, store, history
<1>7. CASE DoomNext(p)
  <2> DEFINE m == Head(l.doomed)
             k == [l EXCEPT !.mem = m, !.row = rows[m], !.doomed = Tail(@), !.pc = "h_index"]
  <2>1. Ahead(l.doomed, Doomed(rows, l.now)) /\ l.doomed # <<>>
    BY <1>7, <1>k DEF DoomNext, At, ForgetKept
  <2>2. /\ m \in Doomed(rows, l.now) /\ m \notin Listed(Tail(l.doomed))
        /\ Ahead(Tail(l.doomed), Doomed(rows, l.now))
    <3>1. l.doomed \in Seq(Mems)
      BY <1>t
    <3> QED BY <2>1, <3>1, NextAhead
  <2>3. m \in DOMAIN rows /\ Destroyable(rows[m]) /\ rows[m].rel = ColdPath(m)
    BY <1>t, <2>2, DoomedRow DEF Kept, StoreKept, HomeRows
  <2>4. loc' = [loc EXCEPT ![p] = k]
    BY <1>7, <2>3 DEF DoomNext, Become
  <2>5. k.pc = "h_index" /\ k.mem = m /\ k.row = rows[m] /\ k.doomed = Tail(l.doomed) /\ k.now = l.now
    BY <1>t DEF Fields
  <2> HIDE DEF k, m
  <2>6. ForgetKept(k, rows)
    BY <2>2, <2>3, <2>5 DEF ForgetKept
  <2>7. LocalKept(k, rows, blobs, pushed)
    BY <2>5, <2>6, OwnFacts DEF DestroyLabels
  <2> QED BY <1>7, <2>4, <2>7, QuietStep DEF DoomNext, store, history
<1>8. CASE HardDelete(p)
  BY <1>8, DestroyKeeps
<1>9. CASE DoomDone(p)
  <2>1. loc' = [loc EXCEPT ![p] = move("gate")]
    BY <1>9 DEF DoomDone, Goto, move
  <2> QED BY <1>9, <1>m, <2>1, OwnFacts, QuietStep DEF DoomDone, store, history
<1> QED BY <1>1, <1>2, <1>3, <1>4, <1>5, <1>6, <1>7, <1>8, <1>9 DEF ForgetScan

\* A pass keeps what is stored.
LEMMA PassKeeps ==
  ASSUME Guarded, Kept, TypeOK', Separate', NEW p \in Procs, Pass(p)
  PROVE  Kept'
<1> DEFINE l == loc[p]
<1>t. DOMAIN l = Fields
  BY TypedParts DEF Kept, LocalOK
<1>1. CASE AgeList(p) \/ AgeNext(p) \/ AgeDone(p)
  BY <1>1, AgeScanKeeps
<1>2. CASE Compress(p)
  BY <1>2, CompressKeeps
<1>3. CASE ForgetScan(p)
  BY <1>3, ForgetScanKeeps
<1>4. CASE GateRead(p)
  <2> DEFINE k == [l EXCEPT !.idx = index, !.pc = "g_validate"]
  <2>1. loc' = [loc EXCEPT ![p] = k] /\ k.pc = "g_validate"
    BY <1>4, <1>t DEF GateRead, ReadIndex, Fields
  <2> HIDE DEF k
  <2> QED BY <1>4, <2>1, OwnFacts, QuietStep DEF GateRead, store, history
<1>5. CASE GateValidate(p)
  <2> DEFINE k == [l EXCEPT !.pc = "g_write"]
  <2>1. Finish(p) \/ (loc' = [loc EXCEPT ![p] = k] /\ k.pc = "g_write")
    BY <1>5, <1>t DEF GateValidate, Goto, Fields
  <2> HIDE DEF k
  <2> QED BY <1>5, <2>1, OwnFacts, FinishKept, QuietStep DEF GateValidate, store, history
<1>6. CASE GateWrite(p)
  BY <1>6, FinishKept DEF GateWrite, history
<1> QED BY <1>1, <1>2, <1>3, <1>4, <1>5, <1>6 DEF Pass

(***************************************************************************)
(* Push.                                                                   *)
(***************************************************************************)
LEMMA PushKeeps ==
  ASSUME Guarded, Kept, TypeOK', Separate', NEW p \in Procs,
         (\E m \in Mems : PushBlob(p, m)) \/ PushRow(p)
  PROVE  Kept'
<1>v. pushed \in Nat /\ acked \in [Mems -> Nat]
  BY TypedParts, BoundAssumption DEF Kept, HistoryOK
<1>s. /\ HomeRows(rows) /\ HomeFiles(blobs) /\ StoreKept(rows, blobs, acked, pushed, clock)
      /\ \A x \in Mems : KeptMem(rows, blobs, acked[x], clock, x) /\ acked[x] <= pushed
  BY DEF Kept, StoreKept
<1>1. ASSUME NEW m \in Mems, PushBlob(p, m)
      PROVE  Kept'
  <2> DEFINE body == Tarball(pushed + 1)
             l == [Idle EXCEPT !.op = PushOp(m), !.pc = "p_row", !.mem = m, !.buf = body]
  <2>1. /\ loc' = [loc EXCEPT ![p] = l] /\ blobs' = With(blobs, PushPath(m), body)
        /\ pushed' = pushed + 1 /\ UNCHANGED <<rows, acked, clock>>
    BY <1>1 DEF PushBlob, Become
  <2>2. Solo(p)
    <3>1. PushOp(m) \in Exclusive
      BY DEF PushOp, Guarded, Operations
    <3> QED BY <1>1, <3>1 DEF PushBlob, MayStart, Running, Solo
  <2>3. l.pc = "p_row" /\ l.mem = m /\ l.buf = body
    BY BlankTypes
  <2> HIDE DEF l
  <2>4. LocalKept(l, rows, blobs', pushed')
    <3>1. PushKept(l, blobs', pushed')
      BY <1>v, <2>1, <2>3 DEF PushKept, Has, With
    <3> QED BY <2>3, <3>1, OwnFacts DEF PushLabels
  <2>5. body.zip = 0 /\ body.ver = pushed + 1
    BY DEF Tarball
  <2>6. KeptMem(rows, blobs', acked[m], clock, m)
    <3>1. KeptMem(rows, blobs, acked[m], clock, m) /\ acked[m] <= pushed + 1
      BY <1>s, <1>v
    <3>2. PushPath(m) # ColdPath(m)
      BY FilePair
    <3> HIDE DEF body
    <3> QED BY <1>v, <2>1, <2>5, <3>1, <3>2 DEF KeptMem, Holds, With
  <2>7. \A x \in Mems \ {m} : /\ SameRow(rows, rows, x) /\ SameFiles(blobs, blobs', x)
                              /\ acked[x] = acked[x] /\ acked[x] <= pushed'
    <3>1. \A x \in Mems : acked[x] <= pushed'
      BY <1>s, <1>v, <2>1
    <3>2. \A x \in Mems \ {m} : SameFiles(blobs, blobs', x)
      BY <2>1, FilesUntouched
    <3> QED BY <3>1, <3>2 DEF SameRow
  <2>8. HomeFiles(blobs') /\ acked[m] <= pushed'
    BY <1>s, <1>v, <2>1, FilesAtHome
  <2>9. StoreKept(rows, blobs', acked, pushed', clock)
    BY <1>s, <2>6, <2>7, <2>8, OneMemory
  <2> QED BY <2>1, <2>2, <2>4, <2>9, SoloStep
<1>2. CASE PushRow(p)
  <2> DEFINE l == loc[p]
             m == l.mem
             r == [state |-> "recent", rel |-> PushPath(m), at |-> clock,
                   del |-> IF m \in DOMAIN rows THEN rows[m].del ELSE Null]
  <2>1. m \in Mems /\ l.pc \in PushLabels
    BY <1>2, TypedParts DEF PushRow, At, PushLabels, Kept
  <2>2. l.buf = Tarball(pushed) /\ pushed > 0 /\ Has(blobs, PushPath(m), l.buf)
    BY <2>1 DEF Kept, LocalKept, PushKept
  <2>3. /\ rows' = With(rows, m, r) /\ loc' = [loc EXCEPT ![p] = Idle]
        /\ acked' = [acked EXCEPT ![m] = IF l.buf.ver > @ THEN l.buf.ver ELSE @]
        /\ UNCHANGED <<blobs, pushed, clock>>
    BY <1>2 DEF PushRow, PutRow, Finish
  <2>4. l.buf.ver = pushed /\ l.buf.zip = 0
    BY <2>2 DEF Tarball
  <2>5. /\ acked'[m] <= pushed /\ acked'[m] \in Nat
        /\ \A x \in Mems \ {m} : acked'[x] = acked[x]
    BY <1>s, <1>v, <2>1, <2>3, <2>4
  <2>6. r.rel = PushPath(m) /\ Warm(r)
    BY DEF Warm
  <2> HIDE DEF r
  <2>7. HomeRows(rows')
    BY <1>s, <2>1, <2>3, <2>6, RowsAtHome
  <2>8. KeptMem(rows', blobs, acked'[m], clock, m)
    BY <1>v, <2>2, <2>3, <2>4, <2>5, <2>6 DEF KeptMem, With, Holds, Has
  <2>9. \A x \in Mems \ {m} : /\ SameRow(rows, rows', x) /\ SameFiles(blobs, blobs, x)
                              /\ acked'[x] = acked[x] /\ acked[x] <= pushed
    BY <1>s, <2>3, <2>5, RowUntouched DEF SameFiles, SameFile
  <2>10. StoreKept(rows', blobs, acked', pushed, clock)
    BY <1>s, <2>1, <2>5, <2>7, <2>8, <2>9, OneMemory
  <2> QED BY <2>1, <2>3, <2>10, GuardedSolo, IdleKept, SoloStep
<1> QED BY <1>1, <1>2

(***************************************************************************)
(* Remind: the one operation that writes while others run.  What one       *)
(* remind does to the memory another one has in hand.                      *)
(***************************************************************************)
\* It leaves the memory's files, and whether the memory is recent.
LEMMA RemindSame ==
  ASSUME NEW k, NEW t, NEW f, RemindKept(k, t, f), NEW u, NEW g,
         k.mem \in DOMAIN t => k.mem \in DOMAIN u /\ (Warm(u[k.mem]) <=> Warm(t[k.mem])),
         SameFiles(f, g, k.mem)
  PROVE  RemindKept(k, u, g)
<1> SUFFICES ASSUME k.pc \in RemindLabels PROVE RemindKept(k, u, g)
  BY DEF RemindKept
<1>1. k.mem \in DOMAIN t /\ k.mem \in DOMAIN u /\ (Warm(u[k.mem]) <=> Warm(t[k.mem]))
  BY DEF RemindKept
<1>2. \A path \in {PushPath(k.mem), ColdPath(k.mem)} : \A b : Has(f, path, b) => Has(g, path, b)
  BY DEF SameFiles, SameFile, Has
<1>3. InHand(k, t, f) => InHand(k, u, g)
  BY <1>1, <1>2 DEF InHand
<1>4. k.pc = "r_read" /\ Warm(u[k.mem]) /\ ColdPath(k.mem) \in DOMAIN g =>
        PushPath(k.mem) \in DOMAIN g /\ g[ColdPath(k.mem)] = Compressed(g[PushPath(k.mem)])
  BY <1>1 DEF RemindKept, SameFiles, SameFile
<1> QED BY <1>1, <1>2, <1>3, <1>4 DEF RemindKept

\* Bodies in hand of the same cold memory are the same.
LEMMA SameBody ==
  ASSUME NEW k, NEW l, k.mem = l.mem, k.buf \in Bodies, l.buf \in Bodies, NEW t, NEW f,
         InHand(k, t, f), InHand(l, t, f)
  PROVE  k.buf = l.buf
BY CompressedBodies DEF InHand, Has

\* It writes the body it has in hand, which is the body the other has in hand.
LEMMA RemindWrote ==
  ASSUME NEW k, NEW l, k.buf \in Bodies, l.buf \in Bodies, l.mem \in Mems, NEW t, NEW f,
         RemindKept(k, t, f), InHand(l, t, f)
  PROVE  RemindKept(k, t, With(f, PushPath(l.mem), l.buf))
<1> DEFINE m == l.mem
           g == With(f, PushPath(m), l.buf)
<1> SUFFICES RemindKept(k, t, g)
  OBVIOUS
<1>f. PushPath(m) # ColdPath(m)
  BY FilePair
<1>1. CASE k.mem # m
  <2>1. SameFiles(f, g, k.mem)
    BY <1>1, FilesUntouched
  <2> HIDE DEF g
  <2> QED BY <2>1, RemindSame
<1>2. CASE k.mem = m /\ Warm(t[m])
  <2>1. SameFiles(f, g, m)
    BY <1>f, <1>2 DEF InHand, Has, SameFiles, SameFile, With
  <2> HIDE DEF g
  <2> QED BY <1>2, <2>1, RemindSame
<1>3. CASE k.mem = m /\ ~Warm(t[m])
  <2>1. /\ Has(g, PushPath(m), l.buf)
        /\ \A b : Has(f, ColdPath(m), b) => Has(g, ColdPath(m), b)
    BY <1>f DEF Has, With
  <2>2. k.pc \in RemindLabels => k.pc \in ReheatLabels
    BY <1>3 DEF RemindKept
  <2>3. k.pc \in ReheatLabels \ {"r_read"} => InHand(k, t, f) /\ InHand(k, t, g) /\ k.buf = l.buf
    <3>1. k.pc \in ReheatLabels \ {"r_read"} => InHand(k, t, f)
      BY DEF RemindKept, RemindLabels
    <3> HIDE DEF g
    <3>2. InHand(k, t, f) => InHand(k, t, g)
      BY <1>3, <2>1 DEF InHand
    <3>3. InHand(k, t, f) => k.buf = l.buf
      BY <1>3, SameBody
    <3> QED BY <3>1, <3>2, <3>3
  <2> HIDE DEF g
  <2> QED BY <1>3, <2>1, <2>2, <2>3 DEF RemindKept, ReheatLabels
<1> QED BY <1>1, <1>2, <1>3

\* It makes the memory recent with the body the other has in hand.
LEMMA RemindCommitted ==
  ASSUME NEW k, NEW l, k.buf \in Bodies, l.buf \in Bodies, NEW t, NEW f, MaxBadWrites = 0,
         RemindKept(k, t, f), InHand(l, t, f), Has(f, PushPath(l.mem), l.buf),
         NEW u, l.mem \in DOMAIN u, Warm(u[l.mem]), \A x : x # l.mem => SameRow(t, u, x)
  PROVE  RemindKept(k, u, f)
<1> DEFINE m == l.mem
<1>s. \A x : SameFiles(f, f, x)
  BY DEF SameFiles, SameFile
<1>1. CASE k.mem # m
  <2>1. SameRow(t, u, k.mem)
    BY <1>1
  <2> QED BY <1>s, <2>1, RemindSame DEF SameRow
<1>2. CASE k.mem = m /\ Warm(t[m])
  BY <1>s, <1>2, RemindSame
<1>3. CASE k.mem = m /\ ~Warm(t[m])
  <2>1. k.pc \in RemindLabels => k.pc \in ReheatLabels
    BY <1>3 DEF RemindKept
  <2>2. k.pc \in ReheatLabels \ {"r_read"} => InHand(k, u, f)
    <3>1. k.pc \in ReheatLabels \ {"r_read"} => InHand(k, t, f)
      BY DEF RemindKept, RemindLabels
    <3>2. InHand(k, t, f) => k.buf = l.buf
      BY <1>3, SameBody
    <3> QED BY <1>3, <3>1, <3>2 DEF InHand
  <2>3. PushPath(m) \in DOMAIN f /\ Has(f, ColdPath(m), Compressed(f[PushPath(m)]))
    BY <1>3 DEF InHand, Has
  <2> QED BY <1>3, <2>1, <2>2, <2>3 DEF RemindKept, ReheatLabels, Has
<1> QED BY <1>1, <1>2, <1>3

\* It removes the .tar.zst of a memory that is recent.
LEMMA RemindRemoved ==
  ASSUME NEW k, NEW m \in Mems, NEW t, NEW f, RemindKept(k, t, f), m \in DOMAIN t, Warm(t[m])
  PROVE  RemindKept(k, t, Without(f, ColdPath(m)))
<1> DEFINE g == Without(f, ColdPath(m))
<1> SUFFICES RemindKept(k, t, g)
  OBVIOUS
<1>f. PushPath(m) # ColdPath(m)
  BY FilePair
<1>1. CASE k.mem # m
  <2>1. SameFiles(f, g, k.mem)
    BY <1>1, FilesUntouched
  <2> HIDE DEF g
  <2> QED BY <2>1, RemindSame
<1>2. CASE k.mem = m
  <2>1. /\ ColdPath(m) \notin DOMAIN g
        /\ \A b : Has(f, PushPath(m), b) => Has(g, PushPath(m), b)
    BY <1>f DEF Has, Without
  <2> HIDE DEF g
  <2>2. InHand(k, t, f) => InHand(k, t, g)
    BY <1>2, <2>1 DEF InHand
  <2> QED BY <1>2, <2>1, <2>2 DEF RemindKept
<1> QED BY <1>1, <1>2

\* What another remind has in hand.
LEMMA OtherRemind ==
  ASSUME Kept, NEW q \in Procs
  PROVE  /\ RemindKept(loc[q], rows, blobs) /\ loc[q].buf \in Bodies
         /\ RemindKept(Idle, rows, blobs)
BY IdleKept, TypedParts DEF Kept, LocalKept

\* A step of a remind among other reminds and init bundles.
LEMMA SharedStep ==
  ASSUME Guarded, Kept, TypeOK', Separate', NEW p \in Procs, loc[p].pc \in RemindLabels,
         NEW l, loc' = [loc EXCEPT ![p] = l], UNCHANGED <<acked, pushed, clock>>,
         LocalKept(l, rows', blobs', pushed), StoreKept(rows', blobs', acked, pushed, clock),
         MaxBadWrites = 0 => \A q \in Procs : RemindKept(loc[q], rows', blobs')
  PROVE  Kept'
<1>1. CASE Solo(p)
  BY <1>1, SoloStep
<1>2. CASE MaxBadWrites = 0
  <2>1. ASSUME NEW q \in Procs, q # p
        PROVE  LocalKept(loc[q], rows', blobs', pushed)
    <3>1. loc[p] # Idle /\ loc[p].op = "remind" /\ RightOp(loc[q]) /\ Apart(loc[p], loc[q])
      BY <2>1, OpOfLabel DEF Kept, Separate, AnyLabels
    <3>2. CASE loc[q] = Idle
      BY <3>2, IdleKept
    <3>3. CASE loc[q] # Idle
      <4>1. loc[q].op \in {"remind", "init"}
        BY <3>1, <3>3 DEF RightOp, Apart, Guarded
      <4>2. loc[q].pc \in RemindLabels \union InitLabels
        BY <3>1, <3>3, <4>1, LabelsOfOp DEF RightOp
      <4> QED BY <1>2, <4>2, OwnFacts
    <3> QED BY <3>2, <3>3
  <2>2. ASSUME NEW q \in Procs
        PROVE  LocalKept(loc'[q], rows', blobs', pushed')
    BY <2>1 DEF Kept, TypeOK
  <2>3. (\A q \in Procs : LocalKept(loc[q], rows, blobs, pushed))'
    BY <2>2 DEF LocalKept, PushKept, RemindKept, InHand, CompressKept, ForgetKept, ScanKept, Kind
  <2>4. StoreKept(rows, blobs, acked, pushed, clock)'
    BY DEF StoreKept
  <2> QED BY <2>3, <2>4 DEF Kept
<1> QED BY <1>1, <1>2, GuardedSolo

\* What a remind under way has to go on with.
LEMMA RemindHand ==
  ASSUME Kept, NEW p \in Procs, loc[p].pc \in RemindLabels
  PROVE  /\ loc[p].mem \in Mems /\ loc[p].buf \in Bodies /\ DOMAIN loc[p] = Fields
         /\ RowsOK(rows) /\ BlobsOK(blobs)
         /\ RemindKept(loc[p], rows, blobs)
         /\ loc[p].mem \in DOMAIN rows
         /\ KeptMem(rows, blobs, acked[loc[p].mem], clock, loc[p].mem)
         /\ loc[p].pc \in ReheatLabels \union SettleLabels =>
              loc[p].row.rel = ColdPath(loc[p].mem) /\ TarPath(loc[p].row.rel) = PushPath(loc[p].mem)
<1> DEFINE m == loc[p].mem
<1>1. LocalOK(loc[p]) /\ m \in Mems /\ loc[p].buf \in Bodies /\ RowsOK(rows) /\ BlobsOK(blobs)
  BY TypedParts DEF Kept
<1>2. RemindKept(loc[p], rows, blobs) /\ KeptMem(rows, blobs, acked[m], clock, m)
  BY <1>1 DEF Kept, LocalKept, StoreKept
<1>3. m \in DOMAIN rows /\ (loc[p].pc \in ReheatLabels \union SettleLabels =>
                              loc[p].row.rel = ColdPath(m))
  BY <1>2 DEF RemindKept
<1> QED BY <1>1, <1>2, <1>3, FilePair DEF LocalOK

\* A remind that changes nothing but its locals.
LEMMA RemindQuiet ==
  ASSUME Kept, TypeOK', Separate', NEW p \in Procs, NEW k, loc' = [loc EXCEPT ![p] = k],
         k.pc \in RemindLabels, RemindKept(k, rows, blobs), UNCHANGED <<store, clock, history>>
  PROVE  Kept'
BY OwnFacts, QuietStep DEF store, history

\* A remind that writes or removes a file of its memory.
LEMMA RemindFile ==
  ASSUME Guarded, Kept, TypeOK', Separate', NEW p \in Procs, loc[p].pc \in RemindLabels,
         NEW k, loc' = [loc EXCEPT ![p] = k], LocalKept(k, rows, blobs', pushed),
         NEW path \in {PushPath(loc[p].mem), ColdPath(loc[p].mem)},
         (\E b : blobs' = With(blobs, path, b)) \/ blobs' = Without(blobs, path),
         UNCHANGED <<rows, acked, pushed, clock>>,
         KeptMem(rows, blobs', acked[loc[p].mem], clock, loc[p].mem),
         MaxBadWrites = 0 => \A q \in Procs : RemindKept(loc[q], rows, blobs')
  PROVE  Kept'
<1> DEFINE m == loc[p].mem
<1>m. m \in Mems
  BY RemindHand
<1>1. HomeFiles(blobs') /\ \A x \in Mems \ {m} : SameFiles(blobs, blobs', x)
  BY <1>m, FilesAtHome, FilesUntouched DEF Kept, StoreKept
<1>2. HomeRows(rows) /\ \A x \in Mems : SameRow(rows, rows, x) /\ acked[x] <= pushed
  BY DEF Kept, StoreKept, SameRow
<1>3. StoreKept(rows, blobs', acked, pushed, clock)
  BY <1>m, <1>1, <1>2, OneMemory DEF Kept
<1> QED BY <1>3, SharedStep

\* A remind that updates the row of its memory.
LEMMA RemindRow ==
  ASSUME Guarded, Kept, TypeOK', Separate', NEW p \in Procs, loc[p].pc \in RemindLabels,
         NEW k, loc' = [loc EXCEPT ![p] = k], LocalKept(k, rows', blobs, pushed),
         NEW r, NEW where, rows' = UpdateRow(rows, loc[p].mem, where, r),
         r.rel = IF Warm(r) THEN PushPath(loc[p].mem) ELSE ColdPath(loc[p].mem),
         UNCHANGED <<blobs, acked, pushed, clock>>,
         KeptMem(rows', blobs, acked[loc[p].mem], clock, loc[p].mem),
         MaxBadWrites = 0 => \A q \in Procs : RemindKept(loc[q], rows', blobs)
  PROVE  Kept'
<1> DEFINE m == loc[p].mem
<1>m. m \in Mems
  BY RemindHand
<1>1. HomeRows(rows') /\ \A x \in Mems \ {m} : SameRow(rows, rows', x)
  BY <1>m, RowsAtHome, RowUntouched DEF Kept, StoreKept
<1>2. HomeFiles(blobs) /\ \A x \in Mems : SameFiles(blobs, blobs, x) /\ acked[x] <= pushed
  BY DEF Kept, StoreKept, SameFiles, SameFile
<1>3. StoreKept(rows', blobs, acked, pushed, clock)
  BY <1>m, <1>1, <1>2, OneMemory DEF Kept
<1> QED BY <1>3, SharedStep

\* Reheat never leaves the memory without a file that holds it.
LEMMA ReheatKeeps ==
  ASSUME Guarded, Kept, TypeOK', Separate', NEW p \in Procs, Reheat(p)
  PROVE  Kept'
<1> DEFINE l == loc[p]
           m == l.mem
<1>c. /\ {"r_read", "r_put", "r_verify", "r_drop", "r_commit"} = ReheatLabels
      /\ {"r_index", "r_line", "r_source"} = SettleLabels
      /\ RemindLabels = ReheatLabels \union SettleLabels
                          \union {"r_touch", "m_get", "m_read", "m_reply"}
  BY DEF ReheatLabels, SettleLabels, RemindLabels
<1>l. l.pc \in RemindLabels
  BY <1>c DEF Reheat, ReheatTouch, ReheatRead, ReheatPut, ReheatVerify, ReheatDrop, ReheatCommit,
     ReheatIndex, ReheatLine, ReheatSource, At
<1>h. /\ m \in Mems /\ l.buf \in Bodies /\ DOMAIN l = Fields /\ RowsOK(rows) /\ BlobsOK(blobs)
      /\ RemindKept(l, rows, blobs) /\ m \in DOMAIN rows
      /\ KeptMem(rows, blobs, acked[m], clock, m)
      /\ l.pc \in ReheatLabels \union SettleLabels =>
           l.row.rel = ColdPath(m) /\ TarPath(l.row.rel) = PushPath(m)
  BY <1>l, RemindHand
<1>w. Warm(rows[m]) => Holds(blobs, PushPath(m), 0, acked[m])
  BY <1>h DEF KeptMem
<1>r. rows[m] \in Rows /\ rows[m].rel = IF Warm(rows[m]) THEN PushPath(m) ELSE ColdPath(m)
  BY <1>h DEF RowsOK, Kept, StoreKept, HomeRows
<1>f. PushPath(m) # ColdPath(m)
  BY <1>h, FilePair
<1>o. \A q \in Procs : RemindKept(loc[q], rows, blobs) /\ loc[q].buf \in Bodies
  BY OtherRemind
<1>e. \A x : SameFiles(blobs, blobs, x) /\ SameRow(rows, rows, x)
  BY DEF SameFiles, SameFile, SameRow
<1> DEFINE move(label) == [l EXCEPT !.pc = label]
           back == [l EXCEPT !.pc = "m_get", !.row = BlankRow, !.buf = Garbage, !.idx = NoFile]
<1>m. \A label : /\ move(label).pc = label /\ move(label).mem = l.mem
                 /\ move(label).row = l.row /\ move(label).buf = l.buf
  BY <1>h DEF Fields
<1>b. back.pc = "m_get" /\ back.mem = m
  BY <1>h DEF Fields
<1>g. \A label : Goto(p, label) => loc' = [loc EXCEPT ![p] = move(label)]
  BY DEF Goto
<1>n. Return(p, "m_get") => loc' = [loc EXCEPT ![p] = back]
  BY DEF Return
<1> HIDE DEF move, back
<1>1. CASE ReheatTouch(p)
  <2> DEFINE r == [rows[m] EXCEPT !.at = clock]
  <2>1. /\ rows' = UpdateRow(rows, m, TRUE, r) /\ loc' = [loc EXCEPT ![p] = back]
        /\ UNCHANGED <<blobs, acked, pushed, clock>>
    BY <1>1, <1>h, <1>n DEF ReheatTouch, TouchRow, history
  <2>2. Warm(rows[m])
    BY <1>1, <1>c, <1>h DEF ReheatTouch, At, RemindKept
  <2>3. Warm(r) /\ r.rel = PushPath(m)
    BY <1>r, <2>2 DEF Rows, Warm
  <2> HIDE DEF r
  <2>4. m \in DOMAIN rows' /\ Warm(rows'[m])
    BY <1>h, <2>1, <2>3 DEF UpdateRow
  <2>5. KeptMem(rows', blobs, acked[m], clock, m)
    BY <1>w, <2>2, <2>4 DEF KeptMem
  <2>6. LocalKept(back, rows', blobs, pushed)
    <3>1. RemindKept(back, rows', blobs)
      BY <1>b, <1>c, <2>4 DEF RemindKept
    <3> QED BY <1>b, <1>c, <3>1, OwnFacts
  <2>7. ASSUME NEW q \in Procs
        PROVE  RemindKept(loc[q], rows', blobs)
    <3>1. loc[q].mem \in DOMAIN rows =>
            loc[q].mem \in DOMAIN rows' /\ (Warm(rows'[loc[q].mem]) <=> Warm(rows[loc[q].mem]))
      BY <2>1, <2>2, <2>4 DEF UpdateRow
    <3> QED BY <1>e, <1>o, <3>1, RemindSame
  <2> QED BY <1>l, <2>1, <2>3, <2>5, <2>6, <2>7, RemindRow
<1>2. CASE ReheatRead(p)
  <2> DEFINE k == [l EXCEPT !.buf = Decompressed(blobs[l.row.rel]), !.pc = "r_put"]
  <2>1. CASE Exists(l.row.rel) /\ Decompresses(blobs[l.row.rel])
    <3>1. loc' = [loc EXCEPT ![p] = k] /\ UNCHANGED <<store, clock, history>>
      BY <1>2, <2>1 DEF ReheatRead
    <3>2. l.pc = "r_read" /\ l.row.rel = ColdPath(m) /\ ColdPath(m) \in DOMAIN blobs
      BY <1>2, <1>c, <1>h, <2>1 DEF ReheatRead, At, Exists
    <3>3. k.pc = "r_put" /\ k.mem = m /\ k.row = l.row /\ k.buf = Decompressed(blobs[ColdPath(m)])
      BY <1>h, <3>2 DEF Fields
    <3> HIDE DEF k
    <3>4. blobs[ColdPath(m)] = Compressed(k.buf) /\ k.buf \in Bodies
      <4>1. blobs[ColdPath(m)] \in Bodies /\ Decompresses(blobs[ColdPath(m)])
        BY <1>h, <2>1, <3>2 DEF BlobsOK
      <4> QED BY <3>3, <4>1, CompressedBodies
    <3>5. InHand(k, rows, blobs)
      <4>1. CASE Warm(rows[m])
        <5>1. PushPath(m) \in DOMAIN blobs /\ blobs[ColdPath(m)] = Compressed(blobs[PushPath(m)])
          BY <1>h, <1>c, <3>2, <4>1 DEF RemindKept
        <5>2. blobs[PushPath(m)] \in Bodies
          BY <1>h, <5>1 DEF BlobsOK
        <5> QED BY <3>3, <3>4, <4>1, <5>1, <5>2, CompressedBodies DEF InHand, Has
      <4>2. CASE ~Warm(rows[m])
        BY <3>2, <3>3, <3>4, <4>2 DEF InHand, Has
      <4> QED BY <4>1, <4>2
    <3>6. RemindKept(k, rows, blobs)
      BY <1>c, <1>h, <3>2, <3>3, <3>5 DEF RemindKept
    <3> QED BY <1>c, <3>1, <3>3, <3>6, RemindQuiet
  <2>2. CASE ~(Exists(l.row.rel) /\ Decompresses(blobs[l.row.rel]))
    BY <1>2, <2>2, FinishKept DEF ReheatRead, store, history
  <2> QED BY <2>1, <2>2
<1>3. CASE ReheatPut(p)
  <2> DEFINE k == move("r_verify")
  <2>1. l.pc = "r_put" /\ loc' = [loc EXCEPT ![p] = k] /\ UNCHANGED <<rows, acked, pushed, clock>>
    BY <1>3, <1>g DEF ReheatPut, At
  <2>2. PICK c : /\ blobs' = With(blobs, PushPath(m), c)
                 /\ c # l.buf => badWrites < MaxBadWrites
    BY <1>3, <1>c, <1>h DEF ReheatPut, StoreBody, At
  <2>3. badWrites \in Nat
    BY TypedParts, BoundAssumption DEF Kept, HistoryOK
  <2>4. MaxBadWrites = 0 => c = l.buf
    BY <2>2, <2>3
  <2>5. InHand(l, rows, blobs) /\ (MaxBadWrites # 0 => ~Warm(rows[m]))
    BY <1>c, <1>h, <2>1 DEF RemindKept
  <2>6. InHand(k, rows, blobs') /\ (MaxBadWrites = 0 => Has(blobs', PushPath(m), k.buf))
    BY <1>f, <1>m, <2>2, <2>4, <2>5 DEF InHand, Has, With
  <2>7. LocalKept(k, rows, blobs', pushed)
    <3>1. RemindKept(k, rows, blobs')
      BY <1>c, <1>h, <1>m, <2>1, <2>5, <2>6 DEF RemindKept
    <3> QED BY <1>c, <1>m, <3>1, OwnFacts
  <2>8. KeptMem(rows, blobs', acked[m], clock, m)
    <3>1. CASE Warm(rows[m])
      BY <1>h, <1>w, <2>2, <2>4, <2>5, <3>1 DEF KeptMem, Holds, InHand, Has, With
    <3>2. CASE ~Warm(rows[m])
      BY <1>h, <1>f, <2>2, <3>2 DEF KeptMem, Holds, With
    <3> QED BY <3>1, <3>2
  <2>9. ASSUME NEW q \in Procs, MaxBadWrites = 0
        PROVE  RemindKept(loc[q], rows, blobs')
    BY <1>h, <1>o, <2>2, <2>4, <2>5, <2>9, RemindWrote
  <2> HIDE DEF k
  <2> QED BY <1>l, <2>1, <2>2, <2>7, <2>8, <2>9, RemindFile
<1>4. CASE ReheatVerify(p)
  <2> DEFINE label == IF TarVerified(p) THEN "r_commit" ELSE "r_drop"
             k == move(label)
  <2>1. /\ l.pc = "r_verify" /\ loc' = [loc EXCEPT ![p] = k] /\ UNCHANGED <<store, clock, history>>
    BY <1>4, <1>g DEF ReheatVerify, At
  <2>2. TarVerified(p) <=> Has(blobs, PushPath(m), l.buf)
    BY <1>c, <1>h, <2>1 DEF TarVerified, ReadsBack, Exists, Has
  <2>3. /\ InHand(l, rows, blobs) /\ (MaxBadWrites # 0 => ~Warm(rows[m]))
        /\ MaxBadWrites = 0 => TarVerified(p)
    BY <1>c, <1>h, <2>1, <2>2 DEF RemindKept
  <2>4. k.pc = label /\ k.mem = m /\ k.row = l.row /\ k.buf = l.buf
    BY <1>m
  <2>5. InHand(k, rows, blobs)
    BY <2>3, <2>4 DEF InHand
  <2> HIDE DEF k
  <2>6. RemindKept(k, rows, blobs)
    BY <1>c, <1>h, <2>1, <2>2, <2>3, <2>4, <2>5 DEF RemindKept
  <2> QED BY <1>c, <2>1, <2>4, <2>6, RemindQuiet
<1>5. CASE ReheatDrop(p)
  <2>1. l.pc = "r_drop" /\ loc' = [loc EXCEPT ![p] = Idle] /\ UNCHANGED <<rows, acked, pushed, clock>>
    BY <1>5 DEF ReheatDrop, At, Finish, history
  <2>2. MaxBadWrites # 0 /\ ~Warm(rows[m])
    BY <1>c, <1>h, <2>1 DEF RemindKept
  <2>3. blobs' = Without(blobs, PushPath(m))
    BY <1>5, <1>c, <1>h, <2>1 DEF ReheatDrop, Remove
  <2>4. KeptMem(rows, blobs', acked[m], clock, m)
    BY <1>h, <1>f, <2>2, <2>3 DEF KeptMem, Holds, Without
  <2> QED BY <1>l, <2>1, <2>2, <2>3, <2>4, IdleKept, RemindFile
<1>6. CASE ReheatCommit(p)
  <2> DEFINE k == move("r_index")
             r == [state |-> "recent", rel |-> PushPath(m), at |-> clock, del |-> Null]
  <2>1. /\ l.pc = "r_commit" /\ loc' = [loc EXCEPT ![p] = k]
        /\ UNCHANGED <<blobs, acked, pushed, clock>>
    BY <1>6, <1>g DEF ReheatCommit, At, history
  <2>2. rows' = UpdateRow(rows, m, TRUE, r)
    BY <1>6, <1>c, <1>h, <2>1 DEF ReheatCommit, ReheatRow
  <2>3. InHand(l, rows, blobs) /\ Has(blobs, PushPath(m), l.buf)
    BY <1>c, <1>h, <2>1 DEF RemindKept
  <2>4. r.rel = PushPath(m) /\ Warm(r)
    BY DEF Warm
  <2> HIDE DEF r
  <2>5. m \in DOMAIN rows' /\ Warm(rows'[m]) /\ \A x : x # m => SameRow(rows, rows', x)
    BY <1>h, <2>2, <2>4, RowUntouched DEF UpdateRow
  <2>6. Holds(blobs, PushPath(m), 0, acked[m])
    <3>1. CASE Warm(rows[m])
      BY <1>w, <3>1
    <3>2. CASE ~Warm(rows[m])
      <4>1. Has(blobs, ColdPath(m), Compressed(l.buf)) /\ Holds(blobs, ColdPath(m), 1, acked[m])
        BY <1>h, <2>3, <3>2 DEF InHand, Has, KeptMem
      <4>2. l.buf.zip \in Nat /\ l.buf.ver \in Nat
        BY <1>h DEF Bodies
      <4> QED BY <1>h, <2>3, <4>1, <4>2, CompressedBodies DEF Holds, Has
    <3> QED BY <3>1, <3>2
  <2>7. KeptMem(rows', blobs, acked[m], clock, m)
    BY <2>5, <2>6 DEF KeptMem
  <2>8. LocalKept(k, rows', blobs, pushed)
    <3>1. RemindKept(k, rows', blobs)
      BY <1>c, <1>h, <1>m, <2>1, <2>5 DEF RemindKept
    <3> QED BY <1>c, <1>m, <3>1, OwnFacts
  <2>9. ASSUME NEW q \in Procs, MaxBadWrites = 0
        PROVE  RemindKept(loc[q], rows', blobs)
    BY <1>h, <1>o, <2>3, <2>5, <2>9, RemindCommitted
  <2> HIDE DEF k
  <2> QED BY <1>l, <2>1, <2>2, <2>4, <2>7, <2>8, <2>9, RemindRow
<1>7. CASE ReheatIndex(p)
  <2> DEFINE label == IF index = NoFile THEN "r_source" ELSE "r_line"
             k == [l EXCEPT !.idx = index, !.pc = label]
  <2>1. l.pc = "r_index" /\ loc' = [loc EXCEPT ![p] = k] /\ UNCHANGED <<store, clock, history>>
    BY <1>7 DEF ReheatIndex, ReadIndex, At
  <2>2. k.pc = label /\ k.mem = m /\ k.row = l.row /\ k.buf = l.buf
    BY <1>h DEF Fields
  <2> HIDE DEF k
  <2>3. RemindKept(k, rows, blobs)
    BY <1>c, <1>h, <2>1, <2>2 DEF RemindKept
  <2> QED BY <1>c, <2>1, <2>2, <2>3, RemindQuiet
<1>8. CASE ReheatLine(p)
  <2> DEFINE k == move("r_source")
  <2>1. /\ l.pc = "r_line" /\ loc' = [loc EXCEPT ![p] = k]
        /\ UNCHANGED <<rows, blobs, acked, pushed, clock>>
    BY <1>8, <1>g DEF ReheatLine, At, history
  <2>2. LocalKept(k, rows, blobs, pushed)
    <3>1. RemindKept(k, rows, blobs)
      BY <1>c, <1>h, <1>m, <2>1 DEF RemindKept
    <3> QED BY <1>c, <1>m, <3>1, OwnFacts
  <2> HIDE DEF k
  <2> QED BY <2>1, <2>2, QuietStep
<1>9. CASE ReheatSource(p)
  <2>1. l.pc = "r_source" /\ loc' = [loc EXCEPT ![p] = back] /\ UNCHANGED <<rows, acked, pushed, clock>>
    BY <1>9, <1>n DEF ReheatSource, At, history
  <2>2. Warm(rows[m])
    BY <1>c, <1>h, <2>1 DEF RemindKept
  <2>3. blobs' = Without(blobs, ColdPath(m))
    BY <1>9, <1>c, <1>h, <2>1 DEF ReheatSource, Remove
  <2>4. KeptMem(rows, blobs', acked[m], clock, m)
    BY <1>h, <1>f, <1>w, <2>2, <2>3 DEF KeptMem, Holds, Without
  <2>5. LocalKept(back, rows, blobs', pushed)
    <3>1. RemindKept(back, rows, blobs')
      BY <1>b, <1>c, <1>h, <2>2 DEF RemindKept
    <3> QED BY <1>b, <1>c, <3>1, OwnFacts
  <2>6. ASSUME NEW q \in Procs
        PROVE  RemindKept(loc[q], rows, blobs')
    BY <1>h, <1>o, <2>2, <2>3, RemindRemoved
  <2> QED BY <1>l, <2>1, <2>3, <2>4, <2>5, <2>6, RemindFile
<1> QED BY <1>1, <1>2, <1>3, <1>4, <1>5, <1>6, <1>7, <1>8, <1>9 DEF Reheat

\* A remind, to its answer.
LEMMA RemindKeeps ==
  ASSUME Guarded, Kept, TypeOK', Separate', NEW p \in Procs,
         Remind(p) \/ \E m \in Mems : RemindStart(p, m)
  PROVE  Kept'
<1> DEFINE l == loc[p]
<1>c. {"r_touch", "r_read", "m_get", "m_read", "m_reply"} \subseteq RemindLabels
  BY DEF RemindLabels, ReheatLabels
<1>1. CASE Reheat(p)
  BY <1>1, ReheatKeeps
<1>2. ASSUME NEW m \in Mems, RemindStart(p, m)
      PROVE  Kept'
  <2> DEFINE label == IF Warm(rows[m]) THEN "r_touch" ELSE "r_read"
             k == [Idle EXCEPT !.op = "remind", !.mem = m, !.row = rows[m], !.pc = label]
  <2>1. loc' = [loc EXCEPT ![p] = k] /\ UNCHANGED <<store, clock, history>> /\ m \in DOMAIN rows
    BY <1>2 DEF RemindStart, Become, Warm
  <2>2. k.pc = label /\ k.mem = m /\ k.row = rows[m]
    BY BlankTypes
  <2> HIDE DEF k
  <2>3. rows[m].rel = IF Warm(rows[m]) THEN PushPath(m) ELSE ColdPath(m)
    BY <2>1 DEF Kept, StoreKept, HomeRows
  <2>4. RemindKept(k, rows, blobs)
    BY <2>1, <2>2, <2>3 DEF RemindKept, ReheatLabels, SettleLabels
  <2> QED BY <1>c, <2>1, <2>2, <2>4, RemindQuiet
<1>3. ASSUME RemindGet(p) \/ RemindRead(p) \/ RemindReply(p)
      PROVE  Kept'
  <2> DEFINE m == l.mem
  <2>1. l.pc \in {"m_get", "m_read", "m_reply"} /\ l.pc \in RemindLabels
    BY <1>c, <1>3 DEF RemindGet, RemindRead, RemindReply, At
  <2>2. DOMAIN l = Fields /\ RemindKept(l, rows, blobs) /\ m \in DOMAIN rows /\ Warm(rows[m])
    BY <2>1, RemindHand DEF RemindKept, ReheatLabels
  <2>3. rows[m].rel = PushPath(m)
    BY <2>2 DEF Kept, StoreKept, HomeRows
  <2>4. CASE RemindGet(p)
    <3> DEFINE k == [l EXCEPT !.row = rows[m], !.pc = "m_read"]
    <3>1. loc' = [loc EXCEPT ![p] = k] /\ UNCHANGED <<store, clock, history>>
      BY <2>2, <2>4 DEF RemindGet
    <3>2. k.pc = "m_read" /\ k.mem = m /\ k.row = rows[m]
      BY <2>2 DEF Fields
    <3> HIDE DEF k
    <3>3. RemindKept(k, rows, blobs)
      BY <2>2, <2>3, <3>2 DEF RemindKept, ReheatLabels, SettleLabels
    <3> QED BY <1>c, <3>1, <3>2, <3>3, RemindQuiet
  <2>5. CASE RemindRead(p)
    <3>1. CASE Exists(l.row.rel)
      <4> DEFINE k == [l EXCEPT !.buf = blobs[l.row.rel], !.pc = "m_reply"]
      <4>1. loc' = [loc EXCEPT ![p] = k] /\ UNCHANGED <<store, clock, history>>
        BY <2>5, <3>1 DEF RemindRead
      <4>2. k.pc = "m_reply" /\ k.mem = m /\ k.buf = blobs[l.row.rel] /\ l.row.rel = PushPath(m)
        BY <2>1, <2>2, <2>5 DEF Fields, RemindRead, At, RemindKept
      <4> HIDE DEF k
      <4>3. RemindKept(k, rows, blobs)
        BY <2>2, <3>1, <4>2 DEF RemindKept, ReheatLabels, SettleLabels, Exists, Has
      <4> QED BY <1>c, <4>1, <4>2, <4>3, RemindQuiet
    <3>2. CASE ~Exists(l.row.rel)
      BY <2>5, <3>2, FinishKept DEF RemindRead, store, history
    <3> QED BY <3>1, <3>2
  <2>6. CASE RemindReply(p)
    BY <2>6, FinishKept DEF RemindReply, store, history
  <2> QED BY <1>3, <2>4, <2>5, <2>6
<1> QED BY <1>1, <1>2, <1>3 DEF Remind

\* An init bundle only reads.
LEMMA InitKeeps ==
  ASSUME Kept, TypeOK', Separate', NEW p \in Procs, InitGlobal(p) \/ InitBundle(p)
  PROVE  Kept'
<1> DEFINE l == loc[p]
<1>c. {"i_index", "i_list", "i_body", "i_reply"} = InitLabels
  BY DEF InitLabels
<1>t. DOMAIN l = Fields
  BY TypedParts DEF Kept, LocalOK
<1>o. \A k : /\ k.pc \in InitLabels /\ loc' = [loc EXCEPT ![p] = k]
             /\ UNCHANGED <<store, clock, pushed, acked>>
             => Kept'
  BY OwnFacts, QuietStep DEF store
<1>r. Goto(p, "i_reply") /\ UNCHANGED <<store, clock, pushed, acked>> => Kept'
  <2> DEFINE k == [l EXCEPT !.pc = "i_reply"]
  <2>1. k.pc = "i_reply"
    BY <1>t DEF Fields
  <2>2. Goto(p, "i_reply") => loc' = [loc EXCEPT ![p] = k]
    BY DEF Goto
  <2> HIDE DEF k
  <2> QED BY <1>c, <1>o, <2>1, <2>2
<1>1. CASE InitGlobal(p)
  <2>1. \A label, got : InitLocal(label, got).pc = label
    BY InitLocalFields
  <2>2. \E label \in {"i_index", "i_reply"}, got \in SUBSET {Global} : loc' = [loc EXCEPT ![p] = InitLocal(label, got)]
    BY <1>1, InitGlobalStep DEF GlobalRead, GlobalFailed, Become
  <2>3. UNCHANGED <<store, clock, pushed, acked>>
    BY <1>1, InitGlobalStep
  <2> QED BY <1>c, <1>o, <2>1, <2>2, <2>3
<1>2. CASE InitIndex(p)
  <2> DEFINE k == [l EXCEPT !.idx = index, !.pc = "i_list"]
  <2>1. loc' = [loc EXCEPT ![p] = k] /\ k.pc = "i_list"
    BY <1>2, <1>t DEF InitIndex, ReadIndex, Fields
  <2> HIDE DEF k
  <2> QED BY <1>2, <1>c, <1>o, <2>1 DEF InitIndex, history
<1>3. CASE InitList(p)
  <2>1. PICK s : Become(p, [l EXCEPT !.todo = s, !.list = rows, !.pc = "i_body"])
    BY <1>3 DEF InitList
  <2> DEFINE k == [l EXCEPT !.todo = s, !.list = rows, !.pc = "i_body"]
  <2>2. loc' = [loc EXCEPT ![p] = k] /\ k.pc = "i_body"
    BY <1>t, <2>1 DEF Become, Fields
  <2> HIDE DEF k
  <2> QED BY <1>3, <1>c, <1>o, <2>2 DEF InitList, history
<1>4. CASE InitBody(p)
  <2>1. UNCHANGED <<store, clock, pushed, acked>> /\ l.pc = "i_body"
    BY <1>4 DEF InitBody, At, history
  <2>2. ASSUME NEW got, Become(p, [l EXCEPT !.todo = Tail(@), !.got = got])
        PROVE  Kept'
    <3> DEFINE k == [l EXCEPT !.todo = Tail(@), !.got = got]
    <3>1. loc' = [loc EXCEPT ![p] = k] /\ k.pc = "i_body"
      BY <1>t, <2>1, <2>2 DEF Become, Fields
    <3> HIDE DEF k
    <3> QED BY <1>c, <1>o, <2>1, <3>1
  <2>3. Goto(p, "i_reply") \/ \E got : Become(p, [l EXCEPT !.todo = Tail(@), !.got = got])
    BY <1>4 DEF InitBody
  <2> QED BY <1>r, <2>1, <2>2, <2>3
<1>5. CASE InitDone(p) \/ InitFail(p)
  BY <1>5, <1>r DEF InitDone, InitFail, history
<1>6. CASE InitReply(p)
  BY <1>6, FinishKept DEF InitReply, store, history
<1> QED BY <1>1, <1>2, <1>3, <1>4, <1>5, <1>6 DEF InitBundle

(***************************************************************************)
(* Scan with repair.                                                       *)
(***************************************************************************)
LEMMA HomePath ==
  ASSUME NEW path \in Paths, AtHome(path)
  PROVE  path[1] \in Mems /\ path \in {PushPath(path[1]), ColdPath(path[1])}
BY PathTypes DEF AtHome

\* A memory's row refers to its own file, and to no other memory's.
LEMMA OwnRow ==
  ASSUME NEW t, HomeRows(t), NEW m \in Mems
  PROVE  /\ PushPath(m) \in RowPaths(t) <=> m \in DOMAIN t /\ Warm(t[m])
         /\ ColdPath(m) \in RowPaths(t) <=> m \in DOMAIN t /\ ~Warm(t[m])
BY FilePair DEF HomeRows, RowPaths

\* A finding removed from the list is the only one of its path and kind.
LEMMA FindingGone ==
  ASSUME NEW l, NEW k, NEW x \in l.finds, k.finds = l.finds \ {x}, NEW kind
  PROVE  /\ Kind(k, kind) \subseteq Kind(l, kind)
         /\ Kind(l, kind) \ {x.path} \subseteq Kind(k, kind)
BY DEF Kind

\* The scan removes only files that no row refers to.
LEMMA ScanKeeps ==
  ASSUME Guarded, Kept, TypeOK', Separate', NEW p \in Procs, ScanList(p) \/ Scan(p)
  PROVE  Kept'
<1> DEFINE l == loc[p]
<1>t. DOMAIN l = Fields /\ l.finds \subseteq Findings /\ l.row \in Rows
  BY TypedParts DEF Kept, LocalOK
<1>k. ScanKept(l, rows, blobs)
  BY DEF Kept, LocalKept
<1>s. /\ HomeRows(rows) /\ HomeFiles(blobs) /\ DOMAIN blobs \subseteq Paths
      /\ \A m \in Mems : KeptMem(rows, blobs, acked[m], clock, m)
  BY TypedParts DEF Kept, StoreKept, BlobsOK
<1>o. \A k : k.pc \in ScanLabels /\ ScanKept(k, rows, blobs) /\ loc' = [loc EXCEPT ![p] = k]
               /\ UNCHANGED <<store, clock, history>> => Kept'
  BY OwnFacts, QuietStep DEF store, history
<1>c. {"s_walk", "s_index", "s_orphans", "s_torn", "s_tar"} = ScanLabels
  BY DEF ScanLabels
<1>a. l.pc \in ScanLabels => Solo(p)
  BY GuardedSolo
<1>1. CASE ScanList(p)
  <2> DEFINE found == DanglingRows(rows, DOMAIN blobs)
             k == [Idle EXCEPT !.op = "scan", !.pc = "s_walk", !.list = rows, !.finds = found]
  <2>1. loc' = [loc EXCEPT ![p] = k] /\ UNCHANGED <<store, clock, history>>
    BY <1>1 DEF ScanList, Become
  <2>2. \A x \in found : x.kind = "dangling_row"
    BY DEF DanglingRows, Finding
  <2> HIDE DEF found
  <2>3. k.pc = "s_walk" /\ k.list = rows /\ k.finds = found
    BY BlankTypes
  <2> HIDE DEF k
  <2>4. ScanKept(k, rows, blobs)
    BY <2>2, <2>3 DEF ScanKept, Kind
  <2> QED BY <1>c, <1>o, <2>1, <2>3, <2>4
<1>2. CASE ScanWalk(p)
  <2> DEFINE orphans == OrphanBlobs(l.list, DOMAIN blobs)
             torn == TornPairs(DOMAIN blobs)
             k == [l EXCEPT !.pc = "s_index", !.finds = @ \union orphans \union torn]
  <2>1. loc' = [loc EXCEPT ![p] = k] /\ UNCHANGED <<store, clock, history>>
    BY <1>2 DEF ScanWalk, Become
  <2>2. /\ l.list = rows
        /\ \A x \in l.finds : x.kind # "orphan_blob" /\ x.kind # "torn_compress"
    <3>1. l.list = rows /\ Kind(l, "orphan_blob") = {} /\ Kind(l, "torn_compress") = {}
      BY <1>2, <1>k DEF ScanWalk, At, ScanKept
    <3>2. \A x \in l.finds : x.path \in Kind(l, x.kind)
      BY Zenon DEF Kind
    <3>3. ASSUME NEW x \in l.finds PROVE x.kind # "orphan_blob" /\ x.kind # "torn_compress"
      <4> DEFINE kind == x.kind
      <4>1. x.path \in Kind(l, kind)
        BY <3>2
      <4> HIDE DEF kind
      <4>2. kind # "orphan_blob" /\ kind # "torn_compress"
        BY <3>1, <4>1
      <4> QED BY <4>2 DEF kind
    <3> QED BY <3>1, <3>3
  <2>3. \A path \in DOMAIN blobs : IsZst(path) \/ IsTarFile(path)
    BY <1>s, HomePath, FilePair DEF HomeFiles
  <2>4. /\ \A x \in orphans : /\ x.kind = "orphan_blob"
                              /\ x.path \in DOMAIN blobs /\ x.path \notin RowPaths(rows)
        /\ \A path \in DOMAIN blobs \ RowPaths(rows) : Finding("orphan_blob", path) \in orphans
    BY <2>2, <2>3 DEF OrphanBlobs, Finding
  <2>5. \A x \in torn : x.kind = "torn_compress" /\ \E m \in Mems : x.path = PushPath(m)
    <3>1. \A path \in DOMAIN blobs : IsTarFile(path) => \E m \in Mems : path = PushPath(m)
      BY <1>s, HomePath, FilePair DEF HomeFiles
    <3> QED BY <3>1 DEF TornPairs, Finding
  <2> HIDE DEF orphans, torn
  <2>6. k.pc = "s_index" /\ k.finds = l.finds \union orphans \union torn
    BY <1>t DEF Fields
  <2> HIDE DEF k
  <2>7. DOMAIN blobs \ RowPaths(rows) \subseteq Kind(k, "orphan_blob")
    <3>1. \A path : Finding("orphan_blob", path).kind = "orphan_blob"
                    /\ Finding("orphan_blob", path).path = path
      BY DEF Finding
    <3> QED BY <2>4, <2>6, <3>1 DEF Kind
  <2>8. \A path \in Kind(k, "orphan_blob") : AtHome(path) /\ path \notin RowPaths(rows)
    BY <1>s, <2>2, <2>4, <2>5, <2>6 DEF Kind, HomeFiles
  <2>9. Kind(k, "torn_compress") \subseteq {PushPath(m) : m \in Mems}
    BY <2>2, <2>4, <2>5, <2>6 DEF Kind
  <2>10. ScanKept(k, rows, blobs)
    BY <2>6, <2>7, <2>8, <2>9 DEF ScanKept
  <2> QED BY <1>c, <1>o, <2>1, <2>6, <2>10
<1>3. CASE ScanIndex(p)
  <2> DEFINE k == [l EXCEPT !.idx = index, !.pc = "s_orphans"]
  <2>1. loc' = [loc EXCEPT ![p] = k] /\ UNCHANGED <<store, clock, history>>
    BY <1>3 DEF ScanIndex, ReadIndex
  <2>2. k.pc = "s_orphans" /\ k.finds = l.finds
    BY <1>t DEF Fields
  <2> HIDE DEF k
  <2>3. ScanKept(k, rows, blobs)
    BY <1>3, <1>c, <1>k, <2>2 DEF ScanIndex, At, ScanKept, Kind
  <2> QED BY <1>c, <1>o, <2>1, <2>2, <2>3
<1>4. CASE RepairOrphan(p)
  <2>1. PICK x \in Found(p, "orphan_blob") :
          Remove(x.path) /\ loc' = [loc EXCEPT ![p].finds = @ \ {x}]
    BY <1>4 DEF RepairOrphan
  <2> DEFINE path == x.path
             m == path[1]
             k == [l EXCEPT !.finds = @ \ {x}]
  <2>2. l.pc = "s_orphans" /\ x \in l.finds /\ x.kind = "orphan_blob"
    BY <1>4, <2>1 DEF RepairOrphan, At, Found
  <2>3. path \in Kind(l, "orphan_blob") /\ path \in Paths
    BY <1>t, <2>2 DEF Kind, Findings
  <2>4. /\ DOMAIN blobs \ RowPaths(rows) \subseteq Kind(l, "orphan_blob")
        /\ \A q \in Kind(l, "orphan_blob") : AtHome(q) /\ q \notin RowPaths(rows)
        /\ Kind(l, "torn_compress") \subseteq {PushPath(y) : y \in Mems}
    BY <1>c, <1>k, <2>2 DEF ScanKept
  <2>5. m \in Mems /\ path \in {PushPath(m), ColdPath(m)} /\ path \notin RowPaths(rows)
    BY <2>3, <2>4, HomePath
  <2>6. loc' = [loc EXCEPT ![p] = k] /\ blobs' = Without(blobs, path)
        /\ UNCHANGED <<rows, acked, pushed, clock>>
    BY <1>4, <2>1 DEF RepairOrphan, Remove, history
  <2>7. k.pc = "s_orphans" /\ k.finds = l.finds \ {x}
    BY <1>t, <2>2 DEF Fields
  <2> HIDE DEF k
  <2>8. ScanKept(k, rows, blobs')
    <3>1. \A kind : /\ Kind(k, kind) \subseteq Kind(l, kind)
                    /\ Kind(l, kind) \ {path} \subseteq Kind(k, kind)
      BY <2>2, <2>7, FindingGone
    <3>2. DOMAIN blobs' = DOMAIN blobs \ {path}
      BY <2>6 DEF Without
    <3> HIDE DEF path
    <3>3. DOMAIN blobs' \ RowPaths(rows) \subseteq Kind(k, "orphan_blob")
      BY <2>4, <3>1, <3>2
    <3>4. \A q \in Kind(k, "orphan_blob") : AtHome(q) /\ q \notin RowPaths(rows)
      BY <2>4, <3>1
    <3>5. Kind(k, "torn_compress") \subseteq {PushPath(y) : y \in Mems}
      BY <2>4, <3>1
    <3> QED BY <2>7, <3>3, <3>4, <3>5 DEF ScanKept
  <2>9. LocalKept(k, rows, blobs', pushed)
    BY <1>c, <2>7, <2>8, OwnFacts
  <2>10. KeptMem(rows, blobs', acked[m], clock, m)
    <3>1. KeptMem(rows, blobs, acked[m], clock, m) /\ PushPath(m) # ColdPath(m)
      BY <1>s, <2>5, FilePair
    <3>2. m \in DOMAIN rows => path = IF Warm(rows[m]) THEN ColdPath(m) ELSE PushPath(m)
      BY <1>s, <2>5, OwnRow
    <3> HIDE DEF path, m
    <3> QED BY <2>6, <3>1, <3>2 DEF KeptMem, Holds, Without
  <2> HIDE DEF path, m
  <2> QED BY <1>a, <1>c, <2>2, <2>5, <2>6, <2>9, <2>10, FileStep
<1>5. CASE RepairPairs(p)
  <2> DEFINE k == [l EXCEPT !.pc = "s_torn"]
  <2>1. loc' = [loc EXCEPT ![p] = k] /\ UNCHANGED <<store, clock, history>>
    BY <1>5 DEF RepairPairs, Goto
  <2>2. k.pc = "s_torn" /\ k.finds = l.finds
    BY <1>t DEF Fields
  <2> HIDE DEF k
  <2>3. Kind(l, "orphan_blob") = {}
    BY <1>5 DEF RepairPairs, Found, Kind
  <2>4. ScanKept(k, rows, blobs)
    BY <1>5, <1>c, <1>k, <2>2, <2>3 DEF RepairPairs, At, ScanKept, Kind
  <2> QED BY <1>c, <1>o, <2>1, <2>2, <2>4
<1>6. CASE RepairTorn(p)
  <2>1. PICK x \in Found(p, "torn_compress") :
          IF Exists(ZstPath(x.path))
          THEN Become(p, [l EXCEPT !.finds = @ \ {x}, !.row.rel = x.path, !.pc = "s_tar"])
          ELSE Become(p, [l EXCEPT !.finds = @ \ {x}])
    BY <1>6 DEF RepairTorn
  <2>2. l.pc = "s_torn" /\ x \in l.finds /\ x.kind = "torn_compress"
    BY <1>6, <2>1 DEF RepairTorn, At, Found
  <2>3. /\ Kind(l, "torn_compress") \subseteq {PushPath(y) : y \in Mems}
        /\ DOMAIN blobs \subseteq RowPaths(rows)
    BY <1>c, <1>k, <2>2 DEF ScanKept
  <2>4. PICK m \in Mems : x.path = PushPath(m)
    BY <2>2, <2>3 DEF Kind
  <2>5. ASSUME NEW k, loc' = [loc EXCEPT ![p] = k], k.finds = l.finds \ {x},
               \/ k.pc = "s_torn"
               \/ k.pc = "s_tar" /\ k.row.rel = PushPath(m) /\ ColdPath(m) \in DOMAIN blobs
        PROVE  Kept'
    <3>1. Kind(k, "torn_compress") \subseteq {PushPath(y) : y \in Mems}
      BY <2>2, <2>3, <2>5, FindingGone
    <3>2. ScanKept(k, rows, blobs)
      BY <2>3, <2>5, <3>1 DEF ScanKept
    <3> QED BY <1>6, <1>c, <1>o, <2>5, <3>2 DEF RepairTorn
  <2>6. CASE Exists(ZstPath(x.path))
    <3> DEFINE k == [l EXCEPT !.finds = @ \ {x}, !.row.rel = x.path, !.pc = "s_tar"]
    <3>1. loc' = [loc EXCEPT ![p] = k]
      BY <2>1, <2>6 DEF Become
    <3>2. k.pc = "s_tar" /\ k.finds = l.finds \ {x} /\ k.row.rel = x.path
      BY <1>t DEF Fields, Rows
    <3> HIDE DEF k
    <3>3. ColdPath(m) \in DOMAIN blobs
      BY <2>4, <2>6, FilePair DEF Exists
    <3> QED BY <2>4, <2>5, <3>1, <3>2, <3>3
  <2>7. CASE ~Exists(ZstPath(x.path))
    <3> DEFINE k == [l EXCEPT !.finds = @ \ {x}]
    <3>1. loc' = [loc EXCEPT ![p] = k]
      BY <2>1, <2>7 DEF Become
    <3>2. k.pc = "s_torn" /\ k.finds = l.finds \ {x}
      BY <1>t, <2>2 DEF Fields
    <3> HIDE DEF k
    <3> QED BY <2>5, <3>1, <3>2
  <2> QED BY <2>6, <2>7
<1>7. CASE RepairTar(p)
  <2> DEFINE k == [l EXCEPT !.pc = "s_torn"]
  <2>1. l.pc = "s_tar" /\ loc' = [loc EXCEPT ![p] = k] /\ blobs' = Without(blobs, l.row.rel)
        /\ UNCHANGED <<rows, acked, pushed, clock>>
    BY <1>7 DEF RepairTar, At, Goto, Remove, history
  <2>2. /\ DOMAIN blobs \subseteq RowPaths(rows)
        /\ Kind(l, "torn_compress") \subseteq {PushPath(y) : y \in Mems}
    BY <1>c, <1>k, <2>1 DEF ScanKept
  <2>3. PICK m \in Mems : l.row.rel = PushPath(m) /\ ColdPath(m) \in DOMAIN blobs
    BY <1>k, <2>1 DEF ScanKept
  <2>4. m \in DOMAIN rows /\ ~Warm(rows[m]) /\ PushPath(m) # ColdPath(m)
    BY <1>s, <2>2, <2>3, OwnRow, FilePair
  <2>5. KeptMem(rows, blobs', acked[m], clock, m)
    <3>1. KeptMem(rows, blobs, acked[m], clock, m)
      BY <1>s
    <3> QED BY <2>1, <2>3, <2>4, <3>1 DEF KeptMem, Holds, Without
  <2>6. k.pc = "s_torn" /\ k.finds = l.finds
    BY <1>t DEF Fields
  <2> HIDE DEF k
  <2>7. DOMAIN blobs' \subseteq RowPaths(rows)
    BY <2>1, <2>2 DEF Without
  <2>8. ScanKept(k, rows, blobs')
    BY <2>2, <2>6, <2>7 DEF ScanKept, Kind
  <2>9. LocalKept(k, rows, blobs', pushed)
    BY <1>c, <2>6, <2>8, OwnFacts
  <2> QED BY <1>a, <1>c, <2>1, <2>3, <2>5, <2>9, FileStep
<1>8. CASE ScanDone(p)
  BY <1>8, FinishKept DEF ScanDone, store, history
<1> QED BY <1>1, <1>2, <1>3, <1>4, <1>5, <1>6, <1>7, <1>8 DEF Scan

(***************************************************************************)
(* The induction.                                                          *)
(***************************************************************************)
\* The empty data root satisfies the invariant.
LEMMA InitKept == Init => Kept
<1> SUFFICES ASSUME Init PROVE Kept
  OBVIOUS
<1>1. Separate
  BY DEF Init, Separate, RightOp, Apart
<1>2. StoreKept(rows, blobs, acked, pushed, clock)
  BY DEF Init, StoreKept, HomeRows, HomeFiles, KeptMem
<1>3. \A p \in Procs : LocalKept(loc[p], rows, blobs, pushed)
  BY IdleKept DEF Init
<1> QED BY <1>1, <1>2, <1>3, InitTypes DEF Kept

\* Every step preserves the invariant.
LEMMA NextKept ==
  ASSUME Guarded
  PROVE  Kept /\ [Next]_vars => Kept'
<1> SUFFICES ASSUME Kept, [Next]_vars PROVE Kept'
  OBVIOUS
<1> USE DEF Procs
<1>t. TypeOK' /\ Separate'
  BY NextTypes, NextSeparate DEF Kept
<1>1. ASSUME UNCHANGED <<rows, blobs, loc, acked, pushed>>, clock' >= clock
      PROVE  Kept'
  <2>1. StoreKept(rows, blobs, acked, pushed, clock')
    <3>1. clock \in Nat /\ clock' \in Nat /\ RowsOK(rows)
      BY <1>t, BoundAssumption DEF Kept, TypeOK, StoreOK
    <3> QED BY <1>1, <3>1, TimeKeeps DEF Kept
  <2>2. StoreKept(rows, blobs, acked, pushed, clock)'
    BY <1>1, <2>1 DEF StoreKept
  <2>3. (\A p \in Procs : LocalKept(loc[p], rows, blobs, pushed))'
    BY <1>1 DEF Kept, LocalKept, PushKept, RemindKept, InHand, CompressKept, ForgetKept, ScanKept,
       Kind
  <2> QED BY <1>t, <2>2, <2>3 DEF Kept
<1>2. CASE Tick
  <2>1. clock' >= clock
    BY <1>2, BoundAssumption DEF Tick, Kept, TypeOK
  <2> QED BY <1>1, <1>2, <2>1 DEF Tick, store, history
<1>3. ASSUME NEW p \in Handlers, StartRequest(p)
      PROVE  Kept'
  BY <1>t, <1>3, PushKeeps, RemindKeeps, InitKeeps DEF StartRequest
<1>4. ASSUME NEW p \in Dreams, StartDream(p)
      PROVE  Kept'
  BY <1>t, <1>4, AgeScanKeeps, ScanKeeps DEF StartDream
<1>5. ASSUME NEW p \in Handlers, ContinueRequest(p)
      PROVE  Kept'
  BY <1>t, <1>5, PushKeeps, RemindKeeps, InitKeeps DEF ContinueRequest
<1>6. ASSUME NEW p \in Dreams, ContinueDream(p)
      PROVE  Kept'
  BY <1>t, <1>6, PassKeeps, ScanKeeps DEF ContinueDream
<1>7. ASSUME NEW p \in Procs, Stop(p)
      PROVE  Kept'
  BY <1>t, <1>7, FinishKept DEF Stop, store
<1>8. CASE UNCHANGED vars
  <2>1. clock' >= clock
    BY <1>8, BoundAssumption DEF vars, Kept, TypeOK
  <2> QED BY <1>1, <1>8, <2>1 DEF vars
<1> QED BY <1>2, <1>3, <1>4, <1>5, <1>6, <1>7, <1>8 DEF Next, Start, Continue

\* The invariant holds in every reachable state of a guarded setting.
THEOREM AlwaysKept ==
  ASSUME Guarded
  PROVE  Spec => []Kept
BY InitKept, NextKept, PTL DEF Spec

\* After a 204 a memory keeps its row and an intact file until its grace is over, wherever
\* operations stop and whatever writes go wrong, also while any number of reminds overlap.
THEOREM NoLossKept ==
  ASSUME Guarded
  PROVE  Spec => []NoLoss
<1>1. Kept => NoLoss
  <2> SUFFICES ASSUME Kept, NEW m \in Mems, acked[m] > 0
               PROVE  m \in DOMAIN rows /\ (Condemned(rows[m], clock) \/ Intact(m))
    BY DEF NoLoss
  <2>1. HomeRows(rows) /\ KeptMem(rows, blobs, acked[m], clock, m)
    BY DEF Kept, StoreKept
  <2> QED BY <2>1 DEF HomeRows, KeptMem, Holds, Intact, Readable, Exists, Warm
<1> QED BY <1>1, AlwaysKept, PTL

\* A remind that answers 200 sends a tar archive with the acknowledged version.
THEOREM RemindFreshKept ==
  ASSUME Guarded
  PROVE  Spec => []RemindFresh
<1>1. Kept => RemindFresh
  <2> SUFFICES ASSUME Kept, NEW p \in Handlers, At(p, "m_reply")
               PROVE  IsTar(loc[p].buf) /\ loc[p].buf.ver >= acked[loc[p].mem]
    BY DEF RemindFresh
  <2> DEFINE m == loc[p].mem
  <2>1. p \in Procs /\ loc[p].pc \in RemindLabels /\ loc[p].pc = "m_reply"
    BY DEF Procs, At, RemindLabels
  <2>2. /\ RemindKept(loc[p], rows, blobs) /\ m \in DOMAIN rows
        /\ KeptMem(rows, blobs, acked[m], clock, m)
    BY <2>1, RemindHand
  <2>3. Has(blobs, PushPath(m), loc[p].buf) /\ Warm(rows[m])
    BY <2>1, <2>2 DEF RemindKept, ReheatLabels
  <2> QED BY <2>2, <2>3 DEF KeptMem, Holds, Has, IsTar
<1> QED BY <1>1, AlwaysKept, PTL

\* After a scan with repair, whatever stopped operations had left, each file on disk is the
\* one its memory's row refers to.
THEOREM RepairCompleteKept ==
  ASSUME Guarded
  PROVE  Spec => []RepairComplete
<1>1. Kept => RepairComplete
  <2> SUFFICES ASSUME Kept, NEW p \in Dreams, At(p, "s_torn"), NEW path \in DOMAIN blobs
               PROVE  path[1] \in DOMAIN rows /\ rows[path[1]].rel = path
    BY DEF RepairComplete
  <2>1. p \in Procs /\ loc[p].pc = "s_torn"
    BY DEF Procs, At
  <2>2. DOMAIN blobs \subseteq RowPaths(rows) /\ HomeRows(rows) /\ RowsOK(rows)
    BY <2>1, TypedParts DEF Kept, LocalKept, ScanKept, StoreKept
  <2>3. PICK m \in DOMAIN rows : path = rows[m].rel
    BY <2>2 DEF RowPaths
  <2>4. path[1] = m
    BY <2>2, <2>3, FilePair DEF HomeRows, RowsOK
  <2> QED BY <2>3, <2>4
<1> QED BY <1>1, AlwaysKept, PTL
=============================================================================
