-------------------------- MODULE CleanStore_proofs --------------------------
(***************************************************************************)
(* The rows, the files and the index agree, although every operation that  *)
(* moves a memory changes them one after the other: for any number of      *)
(* memories, requests, passes and scans that run one at a time and of      *)
(* writes that went wrong, as long as no operation was stopped.            *)
(*                                                                         *)
(* The invariant says for each label how far the index and the directory   *)
(* lag behind the table: Compress commits the row before it writes the     *)
(* line and removes the source, Reheat removes the line and the source     *)
(* after its commit, HardDelete removes line and file before the row.  At  *)
(* every other label the index has exactly the archived memories and the   *)
(* directory exactly the files the rows own.                               *)
(***************************************************************************)
EXTENDS Lifecycle_proofs, FunctionTheorems

\* The settings in which operations run one at a time, and no archived memory is pushed
\* again (which leaves its line in the index and its file beside the new one).
Serial == Exclusive = Operations /\ "repush" \notin Workload

(***************************************************************************)
(* What is due at each label: of the memory in hand, the line or the file  *)
(* that is still there, or already gone, although the table says otherwise.*)
(***************************************************************************)
Hot(t, x) == x \in DOMAIN t /\ Warm(t[x])
Cold(t, x) == x \in DOMAIN t /\ ~Warm(t[x])
LineGone == {"c_index", "c_line", "h_blob", "h_row"}
LineLeft == {"r_index", "r_line"}
TarLeft == {"p_row", "r_verify", "r_drop", "r_commit", "c_index", "c_line", "c_source"}
ZstLeft == {"c_verify", "c_drop", "c_commit", "r_index", "r_line", "r_source"}
ZstGone == {"h_row"}
BusyLabels == LineGone \union LineLeft \union TarLeft \union ZstLeft \union ZstGone
MemDue(l, t, f, i, x) ==
  /\ x \in i <=> \/ Cold(t, x) /\ ~(x = l.mem /\ l.pc \in LineGone)
                 \/ x = l.mem /\ l.pc \in LineLeft
  /\ PushPath(x) \in DOMAIN f <=> Hot(t, x) \/ (x = l.mem /\ l.pc \in TarLeft)
  /\ ColdPath(x) \in DOMAIN f <=> \/ Cold(t, x) /\ ~(x = l.mem /\ l.pc \in ZstGone)
                                  \/ x = l.mem /\ l.pc \in ZstLeft

\* What was read of the index is what it still is.
IndexReadLabels ==
  {"c_line", "r_line", "h_line", "g_validate", "g_write", "s_orphans"}
Reading(l, i) == l.pc \in IndexReadLabels => l.idx = i
\* What Reheat works on is archived until its commit.
Reheating(l, t) == l.pc \in ReheatLabels => Cold(t, l.mem)
\* A scan finds nothing.
Scanning(l, t) ==
  /\ l.pc \in ScanLabels => l.finds = {} /\ l.pc # "s_tar"
  /\ l.pc \in {"s_walk", "s_index", "s_orphans"} => l.list = t

CleanLocal(l, t, f, i) ==
  /\ \A x \in Mems : MemDue(l, t, f, i, x)
  /\ Reading(l, i) /\ Reheating(l, t) /\ Scanning(l, t)
Clean ==
  /\ Quiet => CleanLocal(Idle, rows, blobs, index)
  /\ \A p \in Running : CleanLocal(loc[p], rows, blobs, index)

\* Index and directory agree with the table.
Neat(t, f, i) ==
  \A x \in Mems : /\ x \in i <=> Cold(t, x)
                  /\ PushPath(x) \in DOMAIN f <=> Hot(t, x)
                  /\ ColdPath(x) \in DOMAIN f <=> Cold(t, x)
PlainLabels ==
  {"idle", "r_touch", "m_get", "m_read", "m_reply", "age_list", "age", "c_read", "c_put",
   "forget_list", "forget", "tomb_list", "mark", "doom", "h_index", "gate", "i_index", "i_list",
   "i_body", "i_reply"}

\* Where nothing is half done, they agree.
LEMMA NeatDue ==
  ASSUME NEW l, NEW t, NEW f, NEW i, l.pc \notin BusyLabels
  PROVE  (\A x \in Mems : MemDue(l, t, f, i, x)) <=> Neat(t, f, i)
BY DEF MemDue, Neat, BusyLabels

\* At the plain labels nothing more is asked.
LEMMA PlainClean ==
  ASSUME NEW l, NEW t, NEW f, NEW i, l.pc \in PlainLabels
  PROVE  CleanLocal(l, t, f, i) <=> Neat(t, f, i)
<1>1. l.pc \notin BusyLabels
  BY DEF PlainLabels, BusyLabels, LineGone, LineLeft, TarLeft, ZstLeft, ZstGone
<1>2. Reading(l, i) /\ Reheating(l, t) /\ Scanning(l, t)
  BY DEF PlainLabels, Reading, IndexReadLabels, Reheating, ReheatLabels, Scanning,
     ScanLabels
<1> QED BY <1>1, <1>2, NeatDue DEF CleanLocal

(***************************************************************************)
(* One process at a time.                                                  *)
(***************************************************************************)
\* An operation under way is alone.
LEMMA SerialSolo ==
  ASSUME Serial, Kept, NEW p \in Procs, loc[p] # Idle
  PROVE  Solo(p)
<1>1. RightOp(loc[p]) /\ Separate
  BY DEF Kept, Separate
<1>2. loc[p].op \in Exclusive
  BY <1>1 DEF RightOp, Serial
<1> QED BY <1>1, <1>2, Alone

\* An operation that starts finds everything at rest.
LEMMA SerialStart ==
  ASSUME Serial, NEW p \in Procs, NEW op, MayStart(p, op)
  PROVE  Quiet /\ Solo(p) /\ loc[p] = Idle
<1>1. op \in Exclusive
  BY ProcessAssumption DEF Serial, MayStart
<1>2. Quiet
  BY <1>1 DEF MayStart, Quiet
<1> QED BY <1>2 DEF Quiet, Running, Solo, MayStart

\* What is known where one process may move.
LEMMA CleanHere ==
  ASSUME Clean, NEW p \in Procs, Solo(p)
  PROVE  CleanLocal(loc[p], rows, blobs, index)
<1>1. CASE loc[p] = Idle
  BY <1>1 DEF Solo, Clean, Quiet, Running
<1>2. CASE loc[p] # Idle
  BY <1>2 DEF Clean, Running
<1> QED BY <1>1, <1>2

\* At a label of an operation its process is alone, and has what is due there.
LEMMA UnderWay ==
  ASSUME Serial, Kept, Clean, NEW p \in Procs, loc[p].pc \in AnyLabels
  PROVE  Solo(p) /\ CleanLocal(loc[p], rows, blobs, index)
<1>1. loc[p] # Idle
  BY OpOfLabel DEF Kept, Separate
<1> QED BY <1>1, SerialSolo, CleanHere

\* What is to be shown of its step.
LEMMA CleanStep ==
  ASSUME TypeOK, NEW p \in Procs, Solo(p), NEW k, loc' = [loc EXCEPT ![p] = k],
         CleanLocal(k, rows', blobs', index')
  PROVE  Clean'
<1>1. \A q \in Procs : loc'[q] = IF q = p THEN k ELSE Idle
  BY DEF TypeOK, Solo
<1>2. \A q \in Running' : q \in Procs /\ loc'[q] = k
  BY <1>1 DEF Running
<1>3. Quiet' => k = Idle
  BY <1>1 DEF Quiet, Running
<1>4. Quiet' => CleanLocal(Idle, rows', blobs', index')
  BY <1>3
<1>5. \A q \in Running' : CleanLocal(loc'[q], rows', blobs', index')
  BY <1>2
<1> QED BY <1>4, <1>5 DEF Clean, CleanLocal, MemDue, Hot, Cold, Reading, Reheating, Scanning

\* Ending leaves everything neat.
LEMMA FinishClean ==
  ASSUME Kept, NEW p \in Procs, Solo(p), Finish(p), Neat(rows', blobs', index')
  PROVE  Clean'
<1>1. CleanLocal(Idle, rows', blobs', index')
  BY BlankTypes, PlainClean DEF PlainLabels
<1> QED BY <1>1, CleanStep DEF Finish, Kept

\* So does going on to a plain label.
LEMMA PlainStep ==
  ASSUME Kept, NEW p \in Procs, Solo(p), Neat(rows', blobs', index'),
         NEW k, loc' = [loc EXCEPT ![p] = k], k.pc \in PlainLabels
  PROVE  Clean'
BY PlainClean, CleanStep DEF Kept

(***************************************************************************)
(* One memory at a time.                                                   *)
(***************************************************************************)
SameMem(x) ==
  /\ SameRow(rows, rows', x)
  /\ SameFiles(blobs, blobs', x)
  /\ x \in index <=> x \in index'
OthersSame(m) == \A x \in Mems \ {m} : SameMem(x)

\* The steps that concern one memory.
LEMMA OthersStep ==
  ASSUME NEW m \in Mems
  PROVE  /\ UNCHANGED store => OthersSame(m)
         /\ UNCHANGED <<blobs, index>> =>
              /\ \A r : rows' = With(rows, m, r) => OthersSame(m)
              /\ rows' = Without(rows, m) => OthersSame(m)
         /\ \A path \in {PushPath(m), ColdPath(m)} : UNCHANGED <<rows, index>> =>
              /\ \A b : blobs' = With(blobs, path, b) => OthersSame(m)
              /\ blobs' = Without(blobs, path) => OthersSame(m)
         /\ UNCHANGED <<rows, blobs>> /\ (index' = WithLine(index, m) \/ index' = WithoutLine(index, m))
              => OthersSame(m)
<1>1. \A x : SameRow(rows, rows, x) /\ SameFiles(blobs, blobs, x)
  BY DEF SameRow, SameFiles, SameFile
<1>2. UNCHANGED store => OthersSame(m)
  BY <1>1 DEF store, OthersSame, SameMem
<1>3. ASSUME UNCHANGED <<blobs, index>>,
             (\E r : rows' = With(rows, m, r)) \/ rows' = Without(rows, m)
      PROVE  OthersSame(m)
  BY <1>1, <1>3, RowUntouched DEF OthersSame, SameMem
<1>4. ASSUME NEW path \in {PushPath(m), ColdPath(m)}, UNCHANGED <<rows, index>>,
             (\E b : blobs' = With(blobs, path, b)) \/ blobs' = Without(blobs, path)
      PROVE  OthersSame(m)
  BY <1>1, <1>4, FilesUntouched DEF OthersSame, SameMem
<1>5. ASSUME UNCHANGED <<rows, blobs>>,
             index' = WithLine(index, m) \/ index' = WithoutLine(index, m)
      PROVE  OthersSame(m)
  BY <1>1, <1>5 DEF OthersSame, SameMem, WithLine, WithoutLine, Lines
<1> QED BY <1>2, <1>3, <1>4, <1>5

\* Such a step keeps what is due if it does for that memory.
LEMMA DueStep ==
  ASSUME NEW l, \A x \in Mems : MemDue(l, rows, blobs, index, x),
         NEW k, NEW m \in Mems, l.mem = m \/ l.pc \notin BusyLabels,
         k.mem = m \/ k.pc \notin BusyLabels,
         OthersSame(m), MemDue(k, rows', blobs', index', m)
  PROVE  \A x \in Mems : MemDue(k, rows', blobs', index', x)
<1>1. ASSUME NEW x \in Mems \ {m}
      PROVE  MemDue(k, rows', blobs', index', x)
  <2>1. MemDue(l, rows, blobs, index, x) /\ SameMem(x)
    BY DEF OthersSame
  <2>2. /\ x \in index <=> Cold(rows, x)
        /\ PushPath(x) \in DOMAIN blobs <=> Hot(rows, x)
        /\ ColdPath(x) \in DOMAIN blobs <=> Cold(rows, x)
    BY <2>1 DEF MemDue, BusyLabels
  <2>3. /\ x \in index' <=> Cold(rows', x)
        /\ PushPath(x) \in DOMAIN blobs' <=> Hot(rows', x)
        /\ ColdPath(x) \in DOMAIN blobs' <=> Cold(rows', x)
    BY <2>1, <2>2 DEF SameMem, SameRow, SameFiles, SameFile, Hot, Cold
  <2> QED BY <2>3 DEF MemDue, BusyLabels
<1> QED BY <1>1

\* A step of an operation that moves the memory in hand.
LEMMA WorkStep ==
  ASSUME Kept, NEW p \in Procs, Solo(p), CleanLocal(loc[p], rows, blobs, index),
         NEW k, loc' = [loc EXCEPT ![p] = k],
         NEW m \in Mems, loc[p].mem = m \/ loc[p].pc \notin BusyLabels,
         k.mem = m \/ k.pc \notin BusyLabels,
         OthersSame(m), MemDue(k, rows', blobs', index', m),
         k.pc \notin InitLabels \union ScanLabels,
         k.pc \in IndexReadLabels => k.idx = index',
         k.pc \in ReheatLabels => Cold(rows', k.mem)
  PROVE  Clean'
<1>1. \A x \in Mems : MemDue(k, rows', blobs', index', x)
  BY DueStep DEF CleanLocal
<1>2. Scanning(k, rows')
  BY DEF Scanning, InitLabels, ScanLabels
<1>3. CleanLocal(k, rows', blobs', index')
  BY <1>1, <1>2 DEF CleanLocal, Reading, Reheating
<1> QED BY <1>3, CleanStep DEF Kept

(***************************************************************************)
(* Compress.                                                               *)
(***************************************************************************)
\* Moving to another label keeps what is in hand.
LEMMA Relabelled ==
  ASSUME NEW l, DOMAIN l = Fields, NEW label
  PROVE  LET k == [l EXCEPT !.pc = label]
         IN  /\ k.pc = label /\ k.mem = l.mem /\ k.row = l.row /\ k.buf = l.buf /\ k.idx = l.idx
             /\ k.list = l.list /\ k.finds = l.finds /\ k.got = l.got /\ k.todo = l.todo
BY DEF Fields

\* What the table, the files and the index say after each kind of access.
LEMMA StoreAfter ==
  ASSUME NEW m \in Mems
  PROVE  /\ \A t, r : /\ Hot(With(t, m, r), m) <=> Warm(r)
                      /\ Cold(With(t, m, r), m) <=> ~Warm(r)
         /\ \A t : ~Hot(Without(t, m), m) /\ ~Cold(Without(t, m), m)
         /\ \A f, b : /\ PushPath(m) \in DOMAIN With(f, PushPath(m), b)
                      /\ ColdPath(m) \in DOMAIN With(f, ColdPath(m), b)
                      /\ ColdPath(m) \in DOMAIN With(f, PushPath(m), b) <=> ColdPath(m) \in DOMAIN f
                      /\ PushPath(m) \in DOMAIN With(f, ColdPath(m), b) <=> PushPath(m) \in DOMAIN f
         /\ \A f : /\ PushPath(m) \notin DOMAIN Without(f, PushPath(m))
                   /\ ColdPath(m) \notin DOMAIN Without(f, ColdPath(m))
                   /\ ColdPath(m) \in DOMAIN Without(f, PushPath(m)) <=> ColdPath(m) \in DOMAIN f
                   /\ PushPath(m) \in DOMAIN Without(f, ColdPath(m)) <=> PushPath(m) \in DOMAIN f
         /\ \A i : m \in WithLine(i, m) /\ m \notin WithoutLine(i, m)
<1>1. PushPath(m) # ColdPath(m)
  BY FilePair
<1>2. \A t, r : /\ Hot(With(t, m, r), m) <=> Warm(r)
                /\ Cold(With(t, m, r), m) <=> ~Warm(r)
  BY DEF Hot, Cold, With
<1>3. \A t : ~Hot(Without(t, m), m) /\ ~Cold(Without(t, m), m)
  BY DEF Hot, Cold, Without
<1>4. \A f, b : /\ PushPath(m) \in DOMAIN With(f, PushPath(m), b)
                /\ ColdPath(m) \in DOMAIN With(f, ColdPath(m), b)
                /\ ColdPath(m) \in DOMAIN With(f, PushPath(m), b) <=> ColdPath(m) \in DOMAIN f
                /\ PushPath(m) \in DOMAIN With(f, ColdPath(m), b) <=> PushPath(m) \in DOMAIN f
  BY <1>1 DEF With
<1>5. \A f : /\ PushPath(m) \notin DOMAIN Without(f, PushPath(m))
             /\ ColdPath(m) \notin DOMAIN Without(f, ColdPath(m))
             /\ ColdPath(m) \in DOMAIN Without(f, PushPath(m)) <=> ColdPath(m) \in DOMAIN f
             /\ PushPath(m) \in DOMAIN Without(f, ColdPath(m)) <=> PushPath(m) \in DOMAIN f
  BY <1>1 DEF Without
<1>6. \A i : m \in WithLine(i, m) /\ m \notin WithoutLine(i, m)
  BY DEF WithLine, WithoutLine, Lines
<1> QED BY <1>2, <1>3, <1>4, <1>5, <1>6

\* What is due of the memory in hand, label by label.
LEMMA HandDue ==
  ASSUME NEW l, NEW t, NEW f, NEW i
  PROVE  LET m == l.mem
         IN  /\ l.pc \in {"c_verify", "c_drop", "c_commit", "r_source"} =>
                  (MemDue(l, t, f, i, m) <=>
                     /\ m \in i <=> Cold(t, m)
                     /\ PushPath(m) \in DOMAIN f <=> Hot(t, m)
                     /\ ColdPath(m) \in DOMAIN f)
             /\ l.pc \in {"c_index", "c_line"} =>
                  (MemDue(l, t, f, i, m) <=>
                     /\ m \notin i
                     /\ PushPath(m) \in DOMAIN f
                     /\ ColdPath(m) \in DOMAIN f <=> Cold(t, m))
             /\ l.pc \in {"c_source", "p_row", "r_verify", "r_drop", "r_commit"} =>
                  (MemDue(l, t, f, i, m) <=>
                     /\ m \in i <=> Cold(t, m)
                     /\ PushPath(m) \in DOMAIN f
                     /\ ColdPath(m) \in DOMAIN f <=> Cold(t, m))
             /\ l.pc \in {"r_index", "r_line"} =>
                  (MemDue(l, t, f, i, m) <=>
                     /\ m \in i
                     /\ PushPath(m) \in DOMAIN f <=> Hot(t, m)
                     /\ ColdPath(m) \in DOMAIN f)
             /\ l.pc = "h_blob" =>
                  (MemDue(l, t, f, i, m) <=>
                     /\ m \notin i
                     /\ PushPath(m) \in DOMAIN f <=> Hot(t, m)
                     /\ ColdPath(m) \in DOMAIN f <=> Cold(t, m))
             /\ l.pc = "h_row" =>
                  (MemDue(l, t, f, i, m) <=>
                     /\ m \notin i
                     /\ PushPath(m) \in DOMAIN f <=> Hot(t, m)
                     /\ ColdPath(m) \notin DOMAIN f)
BY DEF MemDue, LineGone, LineLeft, TarLeft, ZstLeft, ZstGone

\* Elsewhere nothing is half done.
FreeLabels ==
  PlainLabels \union InitLabels \union ScanLabels \union
  {"r_read", "r_put", "h_line", "g_validate", "g_write"}
LEMMA FreeDue ==
  ASSUME NEW l, NEW t, NEW f, NEW i, NEW x, l.pc \in FreeLabels
  PROVE  /\ l.pc \notin BusyLabels
         /\ MemDue(l, t, f, i, x) <=> /\ x \in i <=> Cold(t, x)
                                      /\ PushPath(x) \in DOMAIN f <=> Hot(t, x)
                                      /\ ColdPath(x) \in DOMAIN f <=> Cold(t, x)
<1>1. l.pc \notin BusyLabels
  BY DEF FreeLabels, PlainLabels, InitLabels, ScanLabels, BusyLabels, LineGone, LineLeft, TarLeft,
     ZstLeft, ZstGone
<1> QED BY <1>1 DEF MemDue, BusyLabels

\* A step that ends the operation with the memory in hand as it should be.
LEMMA WorkEnd ==
  ASSUME Kept, NEW p \in Procs, Solo(p), CleanLocal(loc[p], rows, blobs, index), Finish(p),
         NEW m \in Mems, loc[p].mem = m \/ loc[p].pc \notin BusyLabels, OthersSame(m),
         m \in index' <=> Cold(rows', m),
         PushPath(m) \in DOMAIN blobs' <=> Hot(rows', m),
         ColdPath(m) \in DOMAIN blobs' <=> Cold(rows', m)
  PROVE  Clean'
<1>1. Idle.pc \in FreeLabels
  BY BlankTypes DEF FreeLabels, PlainLabels
<1>2. MemDue(Idle, rows', blobs', index', m)
  BY <1>1, FreeDue
<1>3. Idle.pc \notin BusyLabels
  BY <1>1, FreeDue
<1>4. \A x \in Mems : MemDue(Idle, rows', blobs', index', x)
  BY <1>2, <1>3, DueStep DEF CleanLocal
<1>5. Neat(rows', blobs', index')
  BY <1>3, <1>4, NeatDue
<1> QED BY <1>5, FinishClean

\* Compress, label by label.
LEMMA CompressClean ==
  ASSUME Serial, Kept, Clean, NEW p \in Procs, Compress(p)
  PROVE  Clean'
<1> DEFINE l == loc[p]
           m == l.mem
           move(label) == [l EXCEPT !.pc = label]
<1>l. l.pc \in CompressLabels
  BY DEF Compress, CompressRead, CompressPut, CompressVerify, CompressDrop, CompressCommit,
     CompressIndex, CompressLine, CompressSource, At, CompressLabels
<1>s. Solo(p) /\ CleanLocal(l, rows, blobs, index)
  BY <1>l, UnderWay DEF AnyLabels, PassLabels
<1>t. DOMAIN l = Fields /\ m \in Mems /\ RowsOK(rows)
  BY TypedParts DEF Kept, LocalOK
<1>h. /\ CompressKept(l, rows, blobs) /\ l.row.rel = PushPath(m)
      /\ ZstPath(l.row.rel) = ColdPath(m)
  BY <1>l, CompressHand
<1>d. MemDue(l, rows, blobs, index, m) /\ Reading(l, index)
  BY <1>s, <1>t DEF CleanLocal
<1>k. \A label : move(label).pc = label /\ move(label).mem = m
  BY <1>t, Relabelled
<1>o. \A k : /\ loc' = [loc EXCEPT ![p] = k] /\ k.mem = m
             /\ OthersSame(m) /\ MemDue(k, rows', blobs', index', m)
             /\ k.pc \in CompressLabels \union {"age"}
             /\ k.pc = "c_line" => k.idx = index'
             => Clean'
  <2>1. \A x \in CompressLabels \union {"age"} :
          /\ x \notin InitLabels \union ScanLabels \union ReheatLabels
          /\ x \in IndexReadLabels => x = "c_line"
    BY DEF CompressLabels, InitLabels, ScanLabels, ReheatLabels, IndexReadLabels
  <2> QED BY <1>s, <1>t, <2>1, WorkStep
<1>g. \A label : Goto(p, label) => loc' = [loc EXCEPT ![p] = move(label)]
  BY DEF Goto
<1>c. {"c_put", "c_verify", "c_drop", "c_commit", "c_index", "c_line", "c_source", "age"}
        \subseteq CompressLabels \union {"age"}
  BY DEF CompressLabels
<1>a. m \in Aged(rows, l.now) => Hot(rows, m) /\ ~Cold(rows, m)
  BY AgedRow DEF Hot, Cold
<1> HIDE DEF move
<1>1. CASE CompressRead(p)
  <2>1. Neat(rows, blobs, index) /\ UNCHANGED <<rows, blobs, index>>
    BY <1>1, <1>s, PlainClean DEF CompressRead, At, PlainLabels, store
  <2>2. CASE Finish(p)
    BY <1>s, <2>1, <2>2, FinishClean
  <2>3. CASE ~Finish(p)
    <3> DEFINE k == [l EXCEPT !.buf = blobs[l.row.rel], !.pc = "c_put"]
    <3>1. loc' = [loc EXCEPT ![p] = k] /\ k.pc = "c_put"
      BY <1>1, <1>t, <2>3 DEF CompressRead, Fields
    <3> HIDE DEF k
    <3> QED BY <1>s, <2>1, <3>1, PlainStep DEF PlainLabels
  <2> QED BY <2>2, <2>3
<1>2. CASE CompressPut(p)
  <2>1. PICK b : blobs' = With(blobs, ColdPath(m), b)
    BY <1>2, <1>h DEF CompressPut, StoreBody
  <2>2. UNCHANGED <<rows, index>> /\ l.pc = "c_put"
    BY <1>2 DEF CompressPut, At
  <2>3. OthersSame(m)
    BY <1>t, <2>1, <2>2, OthersStep
  <2>4. MemDue(move("c_verify"), rows', blobs', index', m)
    <3>1. (m \in index <=> Cold(rows, m)) /\ (PushPath(m) \in DOMAIN blobs <=> Hot(rows, m))
      BY <1>d, <2>2, FreeDue DEF FreeLabels, PlainLabels
    <3>2. /\ ColdPath(m) \in DOMAIN blobs'
          /\ PushPath(m) \in DOMAIN blobs' <=> PushPath(m) \in DOMAIN blobs
      BY <1>t, <2>1, StoreAfter
    <3> QED BY <1>k, <2>2, <3>1, <3>2, HandDue
  <2> QED BY <1>2, <1>c, <1>g, <1>k, <1>o, <2>3, <2>4 DEF CompressPut
<1>3. CASE CompressVerify(p)
  <2>1. PICK label \in {"c_commit", "c_drop"} : Goto(p, label)
    BY <1>3 DEF CompressVerify
  <2>2. UNCHANGED <<rows, blobs, index>> /\ UNCHANGED store /\ l.pc = "c_verify"
    BY <1>3 DEF CompressVerify, At, store
  <2>3. OthersSame(m) /\ MemDue(move(label), rows', blobs', index', m)
    BY <1>d, <1>k, <1>t, <2>2, OthersStep, HandDue
  <2> QED BY <1>c, <1>g, <1>k, <1>o, <2>1, <2>3
<1>4. CASE CompressDrop(p)
  <2>1. l.pc = "c_drop" /\ Hot(rows, m) /\ ~Cold(rows, m)
    BY <1>4, <1>a, <1>h DEF CompressDrop, At, CompressKept
  <2>2. blobs' = Without(blobs, ColdPath(m)) /\ UNCHANGED <<rows, index>>
    BY <1>4, <1>h DEF CompressDrop, Remove
  <2>3. OthersSame(m)
    BY <1>t, <2>2, OthersStep
  <2>4. m \notin index /\ PushPath(m) \in DOMAIN blobs
    BY <1>d, <2>1, HandDue
  <2>5. /\ ColdPath(m) \notin DOMAIN blobs'
        /\ PushPath(m) \in DOMAIN blobs' <=> PushPath(m) \in DOMAIN blobs
    BY <1>t, <2>2, StoreAfter
  <2> QED BY <1>4, <1>s, <1>t, <2>1, <2>2, <2>3, <2>4, <2>5, WorkEnd DEF CompressDrop
<1>5. CASE CompressCommit(p)
  <2>1. /\ l.pc = "c_commit" /\ Hot(rows, m) /\ ~Cold(rows, m)
        /\ rows' = ArchiveRow(rows, m, ColdPath(m)) /\ UNCHANGED <<blobs, index>>
    BY <1>5, <1>a, <1>h DEF CompressCommit, At, CompressKept
  <2> DEFINE r == [rows[m] EXCEPT !.state = "long_term", !.rel = ColdPath(m)]
  <2>2. ~Warm(r)
    BY <1>t, <2>1 DEF Hot, RowsOK, Rows, Warm
  <2>3. rows' = With(rows, m, r)
    BY <2>1 DEF Hot, ArchiveRow, UpdateRow, With
  <2> HIDE DEF r
  <2>4. OthersSame(m)
    BY <1>t, <2>1, <2>3, OthersStep
  <2>5. MemDue(move("c_index"), rows', blobs', index', m)
    <3>1. m \notin index /\ PushPath(m) \in DOMAIN blobs /\ ColdPath(m) \in DOMAIN blobs
      BY <1>d, <2>1, HandDue
    <3>2. Cold(rows', m)
      BY <1>t, <2>2, <2>3, StoreAfter
    <3> QED BY <1>k, <2>1, <3>1, <3>2, HandDue
  <2> QED BY <1>5, <1>c, <1>g, <1>k, <1>o, <2>4, <2>5 DEF CompressCommit
<1>6. CASE CompressIndex(p)
  <2> DEFINE k == [l EXCEPT !.idx = index, !.pc = "c_line"]
  <2>1. loc' = [loc EXCEPT ![p] = k] /\ UNCHANGED store /\ UNCHANGED <<rows, blobs, index>>
        /\ l.pc = "c_index"
    BY <1>6 DEF CompressIndex, ReadIndex, store, At
  <2>2. k.pc = "c_line" /\ k.mem = m /\ k.idx = index
    BY <1>t DEF Fields
  <2> HIDE DEF k
  <2>3. OthersSame(m) /\ MemDue(k, rows', blobs', index', m)
    BY <1>d, <1>t, <2>1, <2>2, OthersStep, HandDue
  <2> QED BY <1>c, <1>o, <2>1, <2>2, <2>3
<1>7. CASE CompressLine(p)
  <2>1. l.pc = "c_line" /\ index' = WithLine(index, m) /\ UNCHANGED <<rows, blobs>>
    BY <1>7, <1>d DEF CompressLine, At, Reading, IndexReadLabels
  <2>2. Cold(rows, m)
    BY <1>h, <2>1 DEF CompressKept, InState, Cold, Warm
  <2>3. OthersSame(m)
    BY <1>t, <2>1, OthersStep
  <2>4. MemDue(move("c_source"), rows', blobs', index', m)
    <3>1. PushPath(m) \in DOMAIN blobs /\ ColdPath(m) \in DOMAIN blobs
      BY <1>d, <2>1, <2>2, HandDue
    <3>2. m \in index'
      BY <1>t, <2>1, StoreAfter
    <3> QED BY <1>k, <2>1, <2>2, <3>1, <3>2, HandDue
  <2> QED BY <1>7, <1>c, <1>g, <1>k, <1>o, <2>3, <2>4 DEF CompressLine
<1>8. CASE CompressSource(p)
  <2>1. /\ l.pc = "c_source" /\ blobs' = Without(blobs, PushPath(m)) /\ UNCHANGED <<rows, index>>
        /\ Cold(rows, m) /\ ~Hot(rows, m)
    BY <1>8, <1>h DEF CompressSource, At, Remove, CompressKept, InState, Cold, Hot, Warm
  <2> DEFINE k == [l EXCEPT !.pc = "age", !.row = BlankRow, !.buf = Garbage, !.idx = NoFile]
  <2>2. loc' = [loc EXCEPT ![p] = k]
    BY <1>8 DEF CompressSource, Return
  <2>3. k.pc = "age" /\ k.mem = m
    BY <1>t DEF Fields
  <2> HIDE DEF k
  <2>4. OthersSame(m)
    BY <1>t, <2>1, OthersStep
  <2>5. MemDue(k, rows', blobs', index', m)
    <3>1. (m \in index <=> Cold(rows, m)) /\ (ColdPath(m) \in DOMAIN blobs <=> Cold(rows, m))
      BY <1>d, <2>1, HandDue
    <3>2. PushPath(m) \notin DOMAIN blobs' /\ (ColdPath(m) \in DOMAIN blobs' <=> ColdPath(m) \in DOMAIN blobs)
      BY <1>t, <2>1, StoreAfter
    <3> QED BY <2>1, <2>3, <3>1, <3>2, FreeDue DEF FreeLabels, PlainLabels
  <2> QED BY <1>c, <1>o, <2>2, <2>3, <2>4, <2>5
<1> QED BY <1>1, <1>2, <1>3, <1>4, <1>5, <1>6, <1>7, <1>8 DEF Compress

(***************************************************************************)
(* Reheat and the rest of a remind.                                        *)
(***************************************************************************)
\* Reheat, label by label.
LEMMA ReheatClean ==
  ASSUME Serial, Kept, Clean, NEW p \in Procs, Reheat(p)
  PROVE  Clean'
<1> DEFINE l == loc[p]
           m == l.mem
           move(label) == [l EXCEPT !.pc = label]
<1>l. l.pc \in RemindLabels
  BY DEF Reheat, ReheatTouch, ReheatRead, ReheatPut, ReheatVerify, ReheatDrop, ReheatCommit,
     ReheatIndex, ReheatLine, ReheatSource, At, RemindLabels, ReheatLabels, SettleLabels
<1>s. Solo(p) /\ CleanLocal(l, rows, blobs, index)
  BY <1>l, UnderWay DEF AnyLabels
<1>t. DOMAIN l = Fields /\ m \in Mems /\ RowsOK(rows)
  BY TypedParts DEF Kept, LocalOK
<1>h. /\ m \in DOMAIN rows
      /\ l.pc \in ReheatLabels \union SettleLabels =>
           l.row.rel = ColdPath(m) /\ TarPath(l.row.rel) = PushPath(m)
      /\ l.pc \in SettleLabels => Hot(rows, m) /\ ~Cold(rows, m)
      /\ l.pc \in ReheatLabels => Cold(rows, m) /\ ~Hot(rows, m)
  <2>1. RemindKept(l, rows, blobs) /\ Reheating(l, rows)
    BY <1>l, <1>s, RemindHand DEF CleanLocal
  <2>2. SettleLabels \intersect ReheatLabels = {} /\ SettleLabels \subseteq RemindLabels
    BY DEF SettleLabels, ReheatLabels, RemindLabels
  <2> QED BY <1>l, <2>1, <2>2, RemindHand DEF RemindKept, Reheating, Hot, Cold
<1>d. MemDue(l, rows, blobs, index, m) /\ Reading(l, index)
  BY <1>s, <1>t DEF CleanLocal
<1>k. \A label : move(label).pc = label /\ move(label).mem = m
  BY <1>t, Relabelled
<1>o. \A k : /\ loc' = [loc EXCEPT ![p] = k] /\ k.mem = m
             /\ OthersSame(m) /\ MemDue(k, rows', blobs', index', m)
             /\ k.pc \in RemindLabels
             /\ k.pc = "r_line" => k.idx = index'
             /\ k.pc \in ReheatLabels => Cold(rows', m)
             => Clean'
  <2>1. \A x \in RemindLabels :
          x \notin InitLabels \union ScanLabels /\ (x \in IndexReadLabels => x = "r_line")
    BY DEF RemindLabels, SettleLabels, InitLabels, ScanLabels, ReheatLabels, IndexReadLabels
  <2> QED BY <1>s, <1>t, <2>1, WorkStep
<1>g. \A label : Goto(p, label) => loc' = [loc EXCEPT ![p] = move(label)]
  BY DEF Goto
<1>c. /\ {"r_read", "r_put", "r_verify", "r_drop", "r_commit"} = ReheatLabels
      /\ {"r_index", "r_line", "r_source"} = SettleLabels
      /\ {"r_touch", "m_get"} \subseteq RemindLabels
      /\ ReheatLabels \subseteq RemindLabels /\ SettleLabels \subseteq RemindLabels
      /\ {"r_touch", "m_get", "r_index", "r_line", "r_source"} \intersect ReheatLabels = {}
      /\ {"idle", "r_touch", "m_get", "r_read", "r_put"} \subseteq FreeLabels
  BY DEF ReheatLabels, SettleLabels, RemindLabels, FreeLabels, PlainLabels
<1>r. ASSUME NEW label, Return(p, label)
      PROVE  \E k : loc' = [loc EXCEPT ![p] = k] /\ k.pc = label /\ k.mem = m
  <2> DEFINE k == [l EXCEPT !.pc = label, !.row = BlankRow, !.buf = Garbage, !.idx = NoFile]
  <2>1. loc' = [loc EXCEPT ![p] = k] /\ k.pc = label /\ k.mem = m
    BY <1>r, <1>t DEF Return, Fields
  <2> QED BY <2>1
<1> HIDE DEF move
<1>1. CASE ReheatTouch(p)
  <2> DEFINE r == [rows[m] EXCEPT !.at = clock]
  <2>1. rows' = With(rows, m, r) /\ Return(p, "m_get") /\ l.pc = "r_touch"
        /\ UNCHANGED <<blobs, index>>
    BY <1>1, <1>h DEF ReheatTouch, TouchRow, UpdateRow, With, At
  <2>2. Warm(r) <=> Warm(rows[m])
    BY <1>t, <1>h DEF RowsOK, Rows, Warm
  <2> HIDE DEF r
  <2>3. OthersSame(m)
    BY <1>t, <2>1, OthersStep
  <2>4. PICK k : loc' = [loc EXCEPT ![p] = k] /\ k.pc = "m_get" /\ k.mem = m
    BY <1>r, <2>1
  <2>5. MemDue(k, rows', blobs', index', m)
    <3>1. /\ m \in index <=> Cold(rows, m)
          /\ PushPath(m) \in DOMAIN blobs <=> Hot(rows, m)
          /\ ColdPath(m) \in DOMAIN blobs <=> Cold(rows, m)
      BY <1>c, <1>d, <2>1, FreeDue
    <3>2. (Hot(rows', m) <=> Hot(rows, m)) /\ (Cold(rows', m) <=> Cold(rows, m))
      BY <1>h, <1>t, <2>1, <2>2, StoreAfter DEF Hot, Cold
    <3> QED BY <1>c, <2>1, <2>4, <3>1, <3>2, FreeDue
  <2> QED BY <1>c, <1>o, <2>3, <2>4, <2>5
<1>2. CASE ReheatRead(p)
  <2>1. UNCHANGED store /\ UNCHANGED <<rows, blobs, index>> /\ l.pc = "r_read" /\ Cold(rows, m)
    BY <1>2, <1>c, <1>h DEF ReheatRead, store, At
  <2>2. OthersSame(m)
    BY <1>t, <2>1, OthersStep
  <2>3. /\ m \in index <=> Cold(rows, m)
        /\ PushPath(m) \in DOMAIN blobs <=> Hot(rows, m)
        /\ ColdPath(m) \in DOMAIN blobs <=> Cold(rows, m)
    BY <1>c, <1>d, <2>1, FreeDue
  <2>4. CASE Finish(p)
    BY <1>s, <1>t, <2>1, <2>2, <2>3, <2>4, WorkEnd
  <2>5. CASE ~Finish(p)
    <3> DEFINE k == [l EXCEPT !.buf = Decompressed(blobs[l.row.rel]), !.pc = "r_put"]
    <3>1. loc' = [loc EXCEPT ![p] = k] /\ k.pc = "r_put" /\ k.mem = m
      BY <1>2, <1>t, <2>5 DEF ReheatRead, Fields
    <3> HIDE DEF k
    <3>2. MemDue(k, rows', blobs', index', m)
      BY <1>c, <2>1, <2>3, <3>1, FreeDue
    <3> QED BY <1>c, <1>o, <2>1, <2>2, <3>1, <3>2
  <2> QED BY <2>4, <2>5
<1>3. CASE ReheatPut(p)
  <2>1. l.pc = "r_put" /\ UNCHANGED <<rows, index>> /\ Cold(rows, m)
    BY <1>3, <1>c, <1>h DEF ReheatPut, At
  <2>2. PICK b : blobs' = With(blobs, PushPath(m), b)
    BY <1>3, <1>c, <1>h, <2>1 DEF ReheatPut, StoreBody
  <2>3. OthersSame(m)
    BY <1>t, <2>1, <2>2, OthersStep
  <2>4. MemDue(move("r_verify"), rows', blobs', index', m)
    <3>1. (m \in index <=> Cold(rows, m)) /\ (ColdPath(m) \in DOMAIN blobs <=> Cold(rows, m))
      BY <1>c, <1>d, <2>1, FreeDue
    <3>2. /\ PushPath(m) \in DOMAIN blobs'
          /\ ColdPath(m) \in DOMAIN blobs' <=> ColdPath(m) \in DOMAIN blobs
      BY <1>t, <2>2, StoreAfter
    <3> QED BY <1>k, <2>1, <3>1, <3>2, HandDue
  <2> QED BY <1>3, <1>c, <1>g, <1>k, <1>o, <2>1, <2>3, <2>4 DEF ReheatPut
<1>4. CASE ReheatVerify(p)
  <2>1. PICK label \in {"r_commit", "r_drop"} : Goto(p, label)
    BY <1>4 DEF ReheatVerify
  <2>2. UNCHANGED <<rows, blobs, index>> /\ UNCHANGED store /\ l.pc = "r_verify" /\ Cold(rows, m)
    BY <1>4, <1>c, <1>h DEF ReheatVerify, At, store
  <2>3. OthersSame(m) /\ MemDue(move(label), rows', blobs', index', m)
    BY <1>d, <1>k, <1>t, <2>2, OthersStep, HandDue
  <2> QED BY <1>c, <1>g, <1>k, <1>o, <2>1, <2>2, <2>3
<1>5. CASE ReheatDrop(p)
  <2>1. l.pc = "r_drop" /\ UNCHANGED <<rows, index>> /\ Cold(rows, m) /\ ~Hot(rows, m)
    BY <1>5, <1>c, <1>h DEF ReheatDrop, At
  <2>2. blobs' = Without(blobs, PushPath(m)) /\ Finish(p)
    BY <1>5, <1>c, <1>h, <2>1 DEF ReheatDrop, Remove
  <2>3. OthersSame(m)
    BY <1>t, <2>1, <2>2, OthersStep
  <2>4. (m \in index <=> Cold(rows, m)) /\ (ColdPath(m) \in DOMAIN blobs <=> Cold(rows, m))
    BY <1>d, <2>1, HandDue
  <2>5. /\ PushPath(m) \notin DOMAIN blobs'
        /\ ColdPath(m) \in DOMAIN blobs' <=> ColdPath(m) \in DOMAIN blobs
    BY <1>t, <2>2, StoreAfter
  <2> QED BY <1>s, <1>t, <2>1, <2>2, <2>3, <2>4, <2>5, WorkEnd
<1>6. CASE ReheatCommit(p)
  <2> DEFINE r == [state |-> "recent", rel |-> PushPath(m), at |-> clock, del |-> Null]
  <2>1. l.pc = "r_commit" /\ UNCHANGED <<blobs, index>> /\ Cold(rows, m) /\ ~Hot(rows, m)
    BY <1>6, <1>c, <1>h DEF ReheatCommit, At
  <2>2. rows' = With(rows, m, r) /\ Warm(r)
    BY <1>6, <1>c, <1>h, <2>1 DEF ReheatCommit, ReheatRow, UpdateRow, With, Warm
  <2> HIDE DEF r
  <2>3. OthersSame(m)
    BY <1>t, <2>1, <2>2, OthersStep
  <2>4. MemDue(move("r_index"), rows', blobs', index', m)
    <3>1. m \in index /\ PushPath(m) \in DOMAIN blobs /\ ColdPath(m) \in DOMAIN blobs
      BY <1>d, <2>1, HandDue
    <3>2. Hot(rows', m)
      BY <1>t, <2>2, StoreAfter
    <3> QED BY <1>k, <2>1, <3>1, <3>2, HandDue
  <2> QED BY <1>6, <1>c, <1>g, <1>k, <1>o, <2>3, <2>4 DEF ReheatCommit
<1>7. CASE ReheatIndex(p)
  <2>1. l.pc = "r_index" /\ UNCHANGED store /\ UNCHANGED <<rows, blobs, index>>
    BY <1>7 DEF ReheatIndex, At, store
  <2>2. m \in index
    BY <1>d, <2>1, HandDue
  <2>3. index # NoFile
    BY <1>t, <2>2, MemAssumption DEF NoFile, Null, Mems
  <2> DEFINE k == [l EXCEPT !.idx = index, !.pc = "r_line"]
  <2>4. loc' = [loc EXCEPT ![p] = k] /\ k.pc = "r_line" /\ k.mem = m /\ k.idx = index
    BY <1>7, <1>t, <2>3 DEF ReheatIndex, ReadIndex, Fields
  <2> HIDE DEF k
  <2>5. OthersSame(m) /\ MemDue(k, rows', blobs', index', m)
    BY <1>d, <1>t, <2>1, <2>4, OthersStep, HandDue
  <2> QED BY <1>c, <1>o, <2>1, <2>4, <2>5
<1>8. CASE ReheatLine(p)
  <2>1. l.pc = "r_line" /\ index' = WithoutLine(index, m) /\ UNCHANGED <<rows, blobs>>
    BY <1>8, <1>d DEF ReheatLine, At, Reading, IndexReadLabels
  <2>2. ~Cold(rows, m)
    BY <1>c, <1>h, <2>1
  <2>3. OthersSame(m)
    BY <1>t, <2>1, OthersStep
  <2>4. MemDue(move("r_source"), rows', blobs', index', m)
    <3>1. (PushPath(m) \in DOMAIN blobs <=> Hot(rows, m)) /\ ColdPath(m) \in DOMAIN blobs
      BY <1>d, <2>1, HandDue
    <3>2. m \notin index'
      BY <1>t, <2>1, StoreAfter
    <3> QED BY <1>k, <2>1, <2>2, <3>1, <3>2, HandDue
  <2> QED BY <1>8, <1>c, <1>g, <1>k, <1>o, <2>3, <2>4 DEF ReheatLine
<1>9. CASE ReheatSource(p)
  <2>1. /\ l.pc = "r_source" /\ Return(p, "m_get") /\ UNCHANGED <<rows, index>>
        /\ Hot(rows, m) /\ ~Cold(rows, m)
    BY <1>9, <1>c, <1>h DEF ReheatSource, At
  <2>2. blobs' = Without(blobs, ColdPath(m))
    BY <1>9, <1>c, <1>h, <2>1 DEF ReheatSource, Remove
  <2>3. PICK k : loc' = [loc EXCEPT ![p] = k] /\ k.pc = "m_get" /\ k.mem = m
    BY <1>r, <2>1
  <2>4. OthersSame(m)
    BY <1>t, <2>1, <2>2, OthersStep
  <2>5. MemDue(k, rows', blobs', index', m)
    <3>1. (m \in index <=> Cold(rows, m)) /\ (PushPath(m) \in DOMAIN blobs <=> Hot(rows, m))
      BY <1>d, <2>1, HandDue
    <3>2. /\ ColdPath(m) \notin DOMAIN blobs'
          /\ PushPath(m) \in DOMAIN blobs' <=> PushPath(m) \in DOMAIN blobs
      BY <1>t, <2>2, StoreAfter
    <3> QED BY <1>c, <2>1, <2>3, <3>1, <3>2, FreeDue
  <2> QED BY <1>c, <1>o, <2>1, <2>3, <2>4, <2>5
<1> QED BY <1>1, <1>2, <1>3, <1>4, <1>5, <1>6, <1>7, <1>8, <1>9 DEF Reheat

(***************************************************************************)
(* Steps that leave everything neat.                                       *)
(***************************************************************************)
Plainly(p) == \E k : loc' = [loc EXCEPT ![p] = k] /\ k.pc \in PlainLabels

\* The forms of step to a plain label.
LEMMA PlainForms ==
  ASSUME TypeOK, NEW p \in Procs
  PROVE  /\ \A k : k.pc \in PlainLabels /\ Become(p, k) => Plainly(p)
         /\ Finish(p) => Plainly(p)
         /\ \A label \in PlainLabels : Goto(p, label) \/ Return(p, label) => Plainly(p)
         /\ loc[p].pc \in PlainLabels =>
              /\ \A s : loc' = [loc EXCEPT ![p].todo = s] => Plainly(p)
              /\ \A s : Become(p, [loc[p] EXCEPT !.doomed = s]) => Plainly(p)
<1>t. DOMAIN loc[p] = Fields
  BY TypedParts DEF LocalOK
<1>1. \A k : k.pc \in PlainLabels /\ loc' = [loc EXCEPT ![p] = k] => Plainly(p)
  BY DEF Plainly
<1>2. Finish(p) => Plainly(p)
  BY <1>1, BlankTypes DEF Finish, PlainLabels
<1>3. ASSUME NEW label \in PlainLabels, Goto(p, label)
      PROVE  Plainly(p)
  <2> DEFINE k == [loc[p] EXCEPT !.pc = label]
  <2>1. loc' = [loc EXCEPT ![p] = k] /\ k.pc = label
    BY <1>3, <1>t DEF Goto, Fields
  <2> QED BY <1>1, <2>1
<1>4. ASSUME NEW label \in PlainLabels, Return(p, label)
      PROVE  Plainly(p)
  <2> DEFINE k == [loc[p] EXCEPT !.pc = label, !.row = BlankRow, !.buf = Garbage, !.idx = NoFile]
  <2>1. loc' = [loc EXCEPT ![p] = k] /\ k.pc = label
    BY <1>4, <1>t DEF Return, Fields
  <2> QED BY <1>1, <2>1
<1>5. ASSUME loc[p].pc \in PlainLabels, NEW s, loc' = [loc EXCEPT ![p].todo = s]
      PROVE  Plainly(p)
  <2> DEFINE k == [loc[p] EXCEPT !.todo = s]
  <2>1. loc' = [loc EXCEPT ![p] = k] /\ k.pc = loc[p].pc
    BY <1>5, <1>t DEF Fields
  <2> QED BY <1>1, <1>5, <2>1
<1>6. ASSUME loc[p].pc \in PlainLabels, NEW s, Become(p, [loc[p] EXCEPT !.doomed = s])
      PROVE  Plainly(p)
  <2> DEFINE k == [loc[p] EXCEPT !.doomed = s]
  <2>1. loc' = [loc EXCEPT ![p] = k] /\ k.pc = loc[p].pc
    BY <1>6, <1>t DEF Become, Fields
  <2> QED BY <1>1, <1>6, <2>1
<1> QED BY <1>1, <1>2, <1>3, <1>4, <1>5, <1>6 DEF Become

\* Such a step from a label where nothing is half done, with the store unchanged.
LEMMA Still ==
  ASSUME Kept, NEW p \in Procs, Solo(p), CleanLocal(loc[p], rows, blobs, index),
         loc[p].pc \in FreeLabels, UNCHANGED store
  PROVE  /\ Neat(rows', blobs', index')
         /\ Plainly(p) => Clean'
<1>1. Neat(rows, blobs, index)
  BY FreeDue, NeatDue DEF CleanLocal
<1>2. Neat(rows', blobs', index')
  BY <1>1 DEF store
<1> QED BY <1>2, PlainStep DEF Plainly

\* An update that leaves a memory as warm as it was.
LEMMA Rewritten ==
  ASSUME Neat(rows, blobs, index), NEW m \in DOMAIN rows, NEW r, rows' = With(rows, m, r),
         Warm(r) <=> Warm(rows[m]), UNCHANGED <<blobs, index>>
  PROVE  Neat(rows', blobs', index')
<1>1. \A x \in Mems : (Hot(rows', x) <=> Hot(rows, x)) /\ (Cold(rows', x) <=> Cold(rows, x))
  BY DEF Hot, Cold, With
<1> QED BY <1>1 DEF Neat

\* Where an operation starts, everything is neat.
LEMMA StartsNeat ==
  ASSUME Serial, Kept, Clean, NEW p \in Procs, NEW op, MayStart(p, op)
  PROVE  /\ Solo(p) /\ loc[p] = Idle /\ CleanLocal(loc[p], rows, blobs, index)
         /\ loc[p].pc \in FreeLabels /\ loc[p].pc \notin BusyLabels
         /\ Neat(rows, blobs, index)
<1>1. Solo(p) /\ loc[p] = Idle
  BY SerialStart
<1>2. CleanLocal(loc[p], rows, blobs, index)
  BY <1>1, CleanHere
<1>3. loc[p].pc \in FreeLabels /\ loc[p].pc \in PlainLabels
  BY <1>1, BlankTypes DEF FreeLabels, PlainLabels
<1> QED BY <1>1, <1>2, <1>3, FreeDue, PlainClean

(***************************************************************************)
(* A push, and a remind but for Reheat.                                    *)
(***************************************************************************)
LEMMA PushClean ==
  ASSUME Serial, Kept, Fresh, Clean, NEW p \in Procs
  PROVE  /\ \A m \in Mems : PushBlob(p, m) => Clean'
         /\ PushRow(p) => Clean'
<1>1. ASSUME NEW m \in Mems, PushBlob(p, m)
      PROVE  Clean'
  <2> DEFINE k == [Idle EXCEPT !.op = PushOp(m), !.pc = "p_row", !.mem = m,
                               !.buf = Tarball(pushed')]
  <2>1. loc' = [loc EXCEPT ![p] = k] /\ k.pc = "p_row" /\ k.mem = m
    BY <1>1, BlankTypes DEF PushBlob, Become
  <2> HIDE DEF k
  <2>2. PICK b : blobs' = With(blobs, PushPath(m), b)
    BY <1>1 DEF PushBlob
  <2>3. /\ Solo(p) /\ CleanLocal(loc[p], rows, blobs, index) /\ loc[p].pc \notin BusyLabels
        /\ Neat(rows, blobs, index) /\ UNCHANGED <<rows, index>>
    BY <1>1, StartsNeat DEF PushBlob
  <2>4. OthersSame(m)
    BY <2>2, <2>3, OthersStep
  <2>5. MemDue(k, rows', blobs', index', m)
    <3>1. (m \in index <=> Cold(rows, m)) /\ (ColdPath(m) \in DOMAIN blobs <=> Cold(rows, m))
      BY <2>3 DEF Neat
    <3>2. /\ PushPath(m) \in DOMAIN blobs'
          /\ ColdPath(m) \in DOMAIN blobs' <=> ColdPath(m) \in DOMAIN blobs
      BY <2>2, StoreAfter
    <3> QED BY <2>1, <2>3, <3>1, <3>2, HandDue
  <2>6. k.pc \notin InitLabels \union ScanLabels \union IndexReadLabels \union ReheatLabels
    BY <2>1 DEF InitLabels, ScanLabels, IndexReadLabels, ReheatLabels
  <2> QED BY <2>1, <2>3, <2>4, <2>5, <2>6, WorkStep
<1>2. ASSUME PushRow(p)
      PROVE  Clean'
  <2> DEFINE l == loc[p]
             m == l.mem
  <2>1. l.pc = "p_row" /\ m \in Mems /\ RowsOK(rows) /\ Finish(p) /\ UNCHANGED <<blobs, index>>
    BY <1>2, TypedParts DEF PushRow, At, Kept, LocalOK
  <2>2. Solo(p) /\ CleanLocal(l, rows, blobs, index)
    BY <2>1, UnderWay DEF AnyLabels, PushLabels
  <2>3. ~Cold(rows, m)
    BY <2>1 DEF Fresh, FreshLocal, Cold
  <2>4. PICK r : rows' = With(rows, m, r) /\ Warm(r)
    BY <1>2 DEF PushRow, PutRow, Warm
  <2>5. OthersSame(m)
    BY <2>1, <2>4, OthersStep
  <2>6. MemDue(l, rows, blobs, index, m)
    BY <2>1, <2>2 DEF CleanLocal
  <2>7. m \notin index /\ PushPath(m) \in DOMAIN blobs /\ ColdPath(m) \notin DOMAIN blobs
    BY <2>1, <2>3, <2>6, HandDue
  <2>8. Hot(rows', m) /\ ~Cold(rows', m)
    BY <2>1, <2>4, StoreAfter
  <2> QED BY <2>1, <2>2, <2>5, <2>7, <2>8, WorkEnd
<1> QED BY <1>1, <1>2

\* A remind starts, and answers.
LEMMA RemindClean ==
  ASSUME Serial, Kept, Clean, NEW p \in Procs,
         Remind(p) \/ \E m \in Mems : RemindStart(p, m)
  PROVE  Clean'
<1>1. CASE Reheat(p)
  BY <1>1, ReheatClean
<1>2. CASE RemindGet(p) \/ RemindRead(p) \/ RemindReply(p)
  <2>t. DOMAIN loc[p] = Fields
    BY TypedParts DEF Kept, LocalOK
  <2>1. loc[p].pc \in {"m_get", "m_read", "m_reply"} /\ UNCHANGED store
    BY <1>2 DEF RemindGet, RemindRead, RemindReply, At, store
  <2>2. loc[p].pc \in FreeLabels /\ loc[p].pc \in AnyLabels
    BY <2>1 DEF FreeLabels, PlainLabels, AnyLabels, RemindLabels
  <2>3. {"m_read", "m_reply"} \subseteq PlainLabels
    BY DEF PlainLabels
  <2>4. Plainly(p)
    <3>1. CASE Finish(p)
      BY <3>1, PlainForms DEF Kept
    <3>2. CASE RemindGet(p) /\ ~Finish(p)
      <4> DEFINE k == [loc[p] EXCEPT !.row = rows[loc[p].mem], !.pc = "m_read"]
      <4>1. loc' = [loc EXCEPT ![p] = k] /\ k.pc = "m_read"
        BY <2>t, <3>2 DEF RemindGet, Fields
      <4> HIDE DEF k
      <4> QED BY <2>3, <4>1 DEF Plainly
    <3>3. CASE RemindRead(p) /\ ~Finish(p)
      <4> DEFINE k == [loc[p] EXCEPT !.buf = blobs[loc[p].row.rel], !.pc = "m_reply"]
      <4>1. loc' = [loc EXCEPT ![p] = k] /\ k.pc = "m_reply"
        BY <2>t, <3>3 DEF RemindRead, Fields
      <4> HIDE DEF k
      <4> QED BY <2>3, <4>1 DEF Plainly
    <3> QED BY <1>2, <3>1, <3>2, <3>3 DEF RemindReply
  <2> QED BY <2>1, <2>2, <2>4, UnderWay, Still
<1>3. ASSUME NEW m \in Mems, RemindStart(p, m)
      PROVE  Clean'
  <2> DEFINE k == [Idle EXCEPT !.op = "remind", !.mem = m, !.row = rows[m],
                               !.pc = IF rows[m].state = "recent" THEN "r_touch" ELSE "r_read"]
  <2>1. /\ loc' = [loc EXCEPT ![p] = k] /\ k.mem = m
        /\ k.pc = IF rows[m].state = "recent" THEN "r_touch" ELSE "r_read"
    BY <1>3, BlankTypes DEF RemindStart, Become
  <2> HIDE DEF k
  <2>2. /\ Solo(p) /\ CleanLocal(loc[p], rows, blobs, index)
        /\ Neat(rows, blobs, index) /\ UNCHANGED store /\ m \in DOMAIN rows
    BY <1>3, StartsNeat DEF RemindStart
  <2>3. Neat(rows', blobs', index')
    BY <2>2 DEF store
  <2>4. CASE rows[m].state = "recent"
    BY <2>1, <2>2, <2>3, <2>4, PlainStep DEF PlainLabels
  <2>5. CASE rows[m].state # "recent"
    <3>1. k.pc = "r_read" /\ Cold(rows', m)
      BY <2>1, <2>2, <2>5 DEF Cold, Warm, store
    <3>2. k.pc \in FreeLabels
      BY <3>1 DEF FreeLabels
    <3>3. \A x \in Mems : MemDue(k, rows', blobs', index', x)
      BY <2>3, <3>2, FreeDue, NeatDue
    <3>4. /\ Reading(k, index') /\ Reheating(k, rows') 
          /\ Scanning(k, rows')
      BY <2>1, <3>1 DEF Reading, IndexReadLabels, Reheating, Scanning, ScanLabels
    <3> QED BY <2>1, <2>2, <3>3, <3>4, CleanStep DEF CleanLocal, Kept
  <2> QED BY <2>4, <2>5
<1> QED BY <1>1, <1>2, <1>3 DEF Remind

(***************************************************************************)
(* The pass.                                                               *)
(***************************************************************************)
\* HardDelete, label by label.
LEMMA DestroyClean ==
  ASSUME Serial, Kept, Clean, NEW p \in Procs, HardDelete(p)
  PROVE  Clean'
<1> DEFINE l == loc[p]
           m == l.mem
           move(label) == [l EXCEPT !.pc = label]
<1>c. {"h_index", "h_line", "h_blob", "h_row"} = DestroyLabels
  BY DEF DestroyLabels
<1>l. l.pc \in DestroyLabels
  BY <1>c DEF HardDelete, DestroyIndex, DestroyLine, DestroyBlob, DestroyRow, At
<1>s. Solo(p) /\ CleanLocal(l, rows, blobs, index)
  BY <1>l, UnderWay DEF AnyLabels, PassLabels
<1>t. DOMAIN l = Fields /\ m \in Mems /\ RowsOK(rows)
  BY TypedParts DEF Kept, LocalOK
<1>h. l.row.rel = ColdPath(m) /\ Cold(rows, m) /\ ~Hot(rows, m)
  <2>1. m \in Doomed(rows, l.now) /\ l.row.rel = ColdPath(m)
    BY <1>l DEF Kept, LocalKept, ForgetKept
  <2> QED BY <2>1 DEF Doomed, InState, Cold, Hot, Warm
<1>d. MemDue(l, rows, blobs, index, m) /\ Reading(l, index)
  BY <1>s, <1>t DEF CleanLocal
<1>k. \A label : move(label).pc = label /\ move(label).mem = m
  BY <1>t, Relabelled
<1>o. \A k : /\ loc' = [loc EXCEPT ![p] = k] /\ k.mem = m
             /\ OthersSame(m) /\ MemDue(k, rows', blobs', index', m)
             /\ k.pc \in DestroyLabels \union {"doom"}
             /\ k.pc = "h_line" => k.idx = index'
             => Clean'
  <2>1. \A x \in DestroyLabels \union {"doom"} :
          /\ x \notin InitLabels \union ScanLabels \union ReheatLabels
          /\ x \in IndexReadLabels => x = "h_line"
    BY DEF DestroyLabels, InitLabels, ScanLabels, ReheatLabels, IndexReadLabels
  <2> QED BY <1>s, <1>t, <2>1, WorkStep
<1>g. \A label : Goto(p, label) => loc' = [loc EXCEPT ![p] = move(label)]
  BY DEF Goto
<1>f. {"h_index", "h_line", "doom"} \subseteq FreeLabels
  BY DEF FreeLabels, PlainLabels
<1> HIDE DEF move
<1>1. CASE DestroyIndex(p)
  <2>1. l.pc = "h_index" /\ UNCHANGED store /\ UNCHANGED <<rows, blobs, index>>
    BY <1>1 DEF DestroyIndex, At, store
  <2>2. /\ m \in index <=> Cold(rows, m)
        /\ PushPath(m) \in DOMAIN blobs <=> Hot(rows, m)
        /\ ColdPath(m) \in DOMAIN blobs <=> Cold(rows, m)
    BY <1>d, <1>f, <2>1, FreeDue
  <2>3. index # NoFile
    BY <1>h, <1>t, <2>2, MemAssumption DEF NoFile, Null, Mems
  <2> DEFINE k == [l EXCEPT !.idx = index, !.pc = "h_line"]
  <2>4. loc' = [loc EXCEPT ![p] = k] /\ k.pc = "h_line" /\ k.mem = m /\ k.idx = index
    BY <1>1, <1>t, <2>3 DEF DestroyIndex, ReadIndex, Fields
  <2> HIDE DEF k
  <2>5. OthersSame(m)
    BY <1>t, <2>1, OthersStep
  <2>6. MemDue(k, rows', blobs', index', m)
    BY <1>f, <2>1, <2>2, <2>4, FreeDue
  <2> QED BY <1>c, <1>o, <2>1, <2>4, <2>5, <2>6
<1>2. CASE DestroyLine(p)
  <2>1. l.pc = "h_line" /\ index' = WithoutLine(index, m) /\ UNCHANGED <<rows, blobs>>
    BY <1>2, <1>d DEF DestroyLine, At, Reading, IndexReadLabels
  <2>2. OthersSame(m)
    BY <1>t, <2>1, OthersStep
  <2>3. MemDue(move("h_blob"), rows', blobs', index', m)
    <3>1. /\ PushPath(m) \in DOMAIN blobs <=> Hot(rows, m)
          /\ ColdPath(m) \in DOMAIN blobs <=> Cold(rows, m)
      BY <1>d, <1>f, <2>1, FreeDue
    <3>2. m \notin index'
      BY <1>t, <2>1, StoreAfter
    <3> QED BY <1>k, <2>1, <3>1, <3>2, HandDue
  <2> QED BY <1>2, <1>c, <1>g, <1>k, <1>o, <2>2, <2>3 DEF DestroyLine
<1>3. CASE DestroyBlob(p)
  <2>1. l.pc = "h_blob" /\ blobs' = Without(blobs, ColdPath(m)) /\ UNCHANGED <<rows, index>>
    BY <1>3, <1>h DEF DestroyBlob, At, Remove
  <2>2. OthersSame(m)
    BY <1>t, <2>1, OthersStep
  <2>3. MemDue(move("h_row"), rows', blobs', index', m)
    <3>1. m \notin index /\ (PushPath(m) \in DOMAIN blobs <=> Hot(rows, m))
      BY <1>d, <2>1, HandDue
    <3>2. /\ ColdPath(m) \notin DOMAIN blobs'
          /\ PushPath(m) \in DOMAIN blobs' <=> PushPath(m) \in DOMAIN blobs
      BY <1>t, <2>1, StoreAfter
    <3> QED BY <1>k, <2>1, <3>1, <3>2, HandDue
  <2> QED BY <1>3, <1>c, <1>g, <1>k, <1>o, <2>2, <2>3 DEF DestroyBlob
<1>4. CASE DestroyRow(p)
  <2>1. l.pc = "h_row" /\ rows' = Without(rows, m) /\ UNCHANGED <<blobs, index>>
    BY <1>4 DEF DestroyRow, At
  <2> DEFINE k == [l EXCEPT !.pc = "doom", !.row = BlankRow, !.buf = Garbage, !.idx = NoFile]
  <2>2. loc' = [loc EXCEPT ![p] = k] /\ k.pc = "doom" /\ k.mem = m
    BY <1>4, <1>t DEF DestroyRow, Return, Fields
  <2> HIDE DEF k
  <2>3. OthersSame(m)
    BY <1>t, <2>1, OthersStep
  <2>4. MemDue(k, rows', blobs', index', m)
    <3>1. m \notin index /\ PushPath(m) \notin DOMAIN blobs /\ ColdPath(m) \notin DOMAIN blobs
      BY <1>d, <1>h, <2>1, HandDue
    <3>2. ~Hot(rows', m) /\ ~Cold(rows', m)
      BY <1>t, <2>1, StoreAfter
    <3> QED BY <1>f, <2>1, <2>2, <3>1, <3>2, FreeDue
  <2> QED BY <1>o, <2>2, <2>3, <2>4
<1> QED BY <1>1, <1>2, <1>3, <1>4 DEF HardDelete

\* The loops of a pass list, forget and mark, and leave index and directory in agreement.
LEMMA LoopClean ==
  ASSUME Serial, Kept, Clean, NEW p \in Procs,
         \/ StartPass(p) \/ AgeList(p) \/ AgeNext(p) \/ AgeDone(p)
         \/ ForgetList(p) \/ Forget(p) \/ ForgetDone(p) \/ TombList(p) \/ SoftDelete(p)
         \/ MarkDone(p) \/ DoomNext(p) \/ DoomDone(p)
  PROVE  Clean'
<1> DEFINE l == loc[p]
<1>t. TypeOK /\ DOMAIN l = Fields /\ RowsOK(rows) /\ l.todo \in Seq(Mems)
  BY TypedParts DEF Kept, LocalOK
<1>c. {"age_list", "age", "c_read", "forget_list", "forget", "tomb_list", "mark", "doom", "h_index",
       "gate", "idle"} \subseteq PlainLabels
  BY DEF PlainLabels
<1>a. {"age_list", "age", "forget_list", "forget", "tomb_list", "mark", "doom"}
        \subseteq FreeLabels \intersect AnyLabels \intersect PlainLabels
  BY DEF FreeLabels, PlainLabels, AnyLabels, PassLabels
<1>p. \A k : k.pc \in PlainLabels /\ Become(p, k) => Plainly(p)
  BY <1>t, PlainForms
<1>1. CASE StartPass(p)
  <2> DEFINE k == [Idle EXCEPT !.op = "pass", !.pc = "age_list", !.now = clock]
  <2>1. Become(p, k) /\ k.pc = "age_list" /\ UNCHANGED store
    BY <1>1, BlankTypes DEF StartPass
  <2> HIDE DEF k
  <2> QED BY <1>1, <1>c, <1>p, <2>1, StartsNeat, Still DEF StartPass
<1>2. CASE AgeList(p) \/ ForgetList(p)
  <2>1. PICK s : \/ Become(p, [l EXCEPT !.todo = s, !.pc = "age"])
                 \/ Become(p, [l EXCEPT !.todo = s, !.pc = "forget"])
    BY <1>2 DEF AgeList, ForgetList
  <2> DEFINE k == [l EXCEPT !.todo = s, !.pc = "age"]
             j == [l EXCEPT !.todo = s, !.pc = "forget"]
  <2>2. k.pc = "age" /\ j.pc = "forget" /\ (Become(p, k) \/ Become(p, j))
    BY <1>t, <2>1 DEF Fields
  <2> HIDE DEF k, j
  <2>3. Plainly(p)
    BY <1>c, <1>p, <2>2
  <2>4. l.pc \in {"age_list", "forget_list"} /\ UNCHANGED store
    BY <1>2 DEF AgeList, ForgetList, At, store
  <2> QED BY <1>a, <2>3, <2>4, UnderWay, Still
<1>3. CASE TombList(p)
  <2>1. PICK s, d : Become(p, [l EXCEPT !.todo = s, !.doomed = d, !.pc = "mark"])
    BY <1>3 DEF TombList
  <2> DEFINE k == [l EXCEPT !.todo = s, !.doomed = d, !.pc = "mark"]
  <2>2. k.pc = "mark" /\ Become(p, k)
    BY <1>t, <2>1 DEF Fields
  <2> HIDE DEF k
  <2>3. l.pc = "tomb_list" /\ UNCHANGED store
    BY <1>3 DEF TombList, At, store
  <2> QED BY <1>a, <1>p, <2>2, <2>3, UnderWay, Still
<1>4. CASE AgeNext(p)
  <2> DEFINE k == [l EXCEPT !.mem = Head(l.todo), !.row = rows[Head(l.todo)],
                            !.todo = Tail(@), !.pc = "c_read"]
  <2>1. Become(p, k) \/ Finish(p)
    BY <1>4 DEF AgeNext
  <2>2. k.pc = "c_read"
    BY <1>t DEF Fields
  <2> HIDE DEF k
  <2>3. Plainly(p)
    BY <1>c, <1>p, <1>t, <2>1, <2>2, PlainForms
  <2>4. l.pc = "age" /\ UNCHANGED store
    BY <1>4 DEF AgeNext, At, store
  <2> QED BY <1>a, <2>3, <2>4, UnderWay, Still
<1>5. CASE AgeDone(p) \/ ForgetDone(p) \/ MarkDone(p) \/ DoomDone(p)
  <2>1. l.pc \in {"age", "forget", "mark", "doom"} /\ UNCHANGED store
    BY <1>5 DEF AgeDone, ForgetDone, MarkDone, DoomDone, At, store
  <2>2. Plainly(p)
    BY <1>5, <1>c, <1>t, PlainForms DEF AgeDone, ForgetDone, MarkDone, DoomDone
  <2> QED BY <1>a, <2>1, <2>2, UnderWay, Still
<1>6. CASE DoomNext(p)
  <2> DEFINE k == [l EXCEPT !.mem = Head(l.doomed), !.row = rows[Head(l.doomed)],
                            !.doomed = Tail(@), !.pc = "h_index"]
             j == [l EXCEPT !.doomed = Tail(@)]
  <2>1. Become(p, k) \/ Become(p, j)
    BY <1>6 DEF DoomNext
  <2>2. l.pc = "doom" /\ UNCHANGED store
    BY <1>6 DEF DoomNext, At, store
  <2>3. k.pc = "h_index" /\ j.pc = "doom"
    BY <1>t, <2>2 DEF Fields
  <2> HIDE DEF k, j
  <2>4. Plainly(p)
    BY <1>c, <1>p, <2>1, <2>3
  <2> QED BY <1>a, <2>2, <2>4, UnderWay, Still
<1>7. ASSUME Forget(p) \/ SoftDelete(p),
             NEW m \in DOMAIN rows, NEW r, rows' = With(rows, m, r), ~Warm(r), ~Warm(rows[m]),
             UNCHANGED <<blobs, index>>
      PROVE  Clean'
  <2>1. l.pc \in {"forget", "mark"}
    BY <1>7 DEF Forget, SoftDelete, At
  <2>2. Plainly(p)
    BY <1>7, <1>a, <1>t, <2>1, PlainForms DEF Forget, SoftDelete
  <2>3. Solo(p) /\ CleanLocal(l, rows, blobs, index)
    BY <1>a, <2>1, UnderWay
  <2>4. Neat(rows, blobs, index)
    BY <1>a, <2>1, <2>3, PlainClean
  <2>5. Neat(rows', blobs', index')
    BY <1>7, <2>4, Rewritten
  <2> QED BY <2>2, <2>3, <2>5, PlainStep DEF Plainly
<1>8. CASE Forget(p)
  <2> DEFINE m == Head(l.todo)
             r == [rows[m] EXCEPT !.state = "tombstone"]
  <2>1. m \in Forgettable(rows, l.now)
    <3>1. Ahead(l.todo, Forgettable(rows, l.now)) /\ l.todo # <<>>
      BY <1>8 DEF Forget, At, Kept, LocalKept, ForgetKept
    <3>2. l.todo \in Seq(Mems)
      BY <1>t
    <3> QED BY <3>1, <3>2, NextAhead
  <2>2. m \in DOMAIN rows /\ rows[m] \in Rows /\ ~Exempt(m) /\ rows[m].state = "long_term"
    BY <1>t, <2>1, SelectedRows
  <2>3. rows' = With(rows, m, r) /\ UNCHANGED <<blobs, index>>
    BY <1>8, <2>2 DEF Forget, ForgetRow, UpdateRow, With
  <2>4. ~Warm(r) /\ ~Warm(rows[m])
    BY <2>2 DEF Rows, Warm
  <2> HIDE DEF r, m
  <2> QED BY <1>7, <1>8, <2>2, <2>3, <2>4
<1>9. CASE SoftDelete(p)
  <2> DEFINE m == Head(l.todo)
             r == [rows[m] EXCEPT !.del = l.now]
  <2>1. m \in Unmarked(rows, l.now)
    <3>1. Ahead(l.todo, Unmarked(rows, l.now)) /\ l.todo # <<>>
      BY <1>9 DEF SoftDelete, At, Kept, LocalKept, ForgetKept
    <3>2. l.todo \in Seq(Mems)
      BY <1>t
    <3> QED BY <3>1, <3>2, NextAhead
  <2>2. m \in DOMAIN rows /\ rows[m] \in Rows /\ ~Exempt(m) /\ Markable(rows[m])
    BY <1>t, <2>1, SelectedRows
  <2>3. rows' = With(rows, m, r) /\ UNCHANGED <<blobs, index>>
    BY <1>9, <2>2 DEF SoftDelete, SoftDeleteRow, UpdateRow, With
  <2>4. ~Warm(r) /\ ~Warm(rows[m])
    BY <2>2 DEF Rows, Warm, Markable
  <2> HIDE DEF r, m
  <2> QED BY <1>7, <1>9, <2>2, <2>3, <2>4
<1> QED BY <1>1, <1>2, <1>3, <1>4, <1>5, <1>6, <1>8, <1>9

\* The gate reads the index and writes it back.
LEMMA GateClean ==
  ASSUME Serial, Kept, Clean, NEW p \in Procs, GateRead(p) \/ GateValidate(p) \/ GateWrite(p)
  PROVE  Clean'
<1> DEFINE l == loc[p]
<1>t. DOMAIN l = Fields /\ index \in Indexes
  BY TypedParts DEF Kept, LocalOK
<1>c. /\ {"gate", "g_validate", "g_write"} \subseteq FreeLabels \intersect AnyLabels
      /\ {"g_validate", "g_write"} \subseteq IndexReadLabels
      /\ {"g_validate", "g_write"} \intersect (InitLabels \union ScanLabels \union ReheatLabels) = {}
  BY DEF FreeLabels, PlainLabels, AnyLabels, PassLabels, IndexReadLabels, InitLabels, ScanLabels,
     ReheatLabels
<1>1. l.pc \in {"gate", "g_validate", "g_write"}
  BY DEF GateRead, GateValidate, GateWrite, At
<1>2. Solo(p) /\ CleanLocal(l, rows, blobs, index)
  BY <1>c, <1>1, UnderWay
<1>3. Neat(rows, blobs, index)
  BY <1>c, <1>1, <1>2, FreeDue, NeatDue DEF CleanLocal
<1>4. ASSUME NEW k, loc' = [loc EXCEPT ![p] = k], k.pc \in {"g_validate", "g_write"},
             k.idx = index, UNCHANGED <<rows, blobs, index>>
      PROVE  Clean'
  <2>1. \A x \in Mems : MemDue(k, rows', blobs', index', x)
    BY <1>c, <1>3, <1>4, FreeDue, NeatDue
  <2>2. Reading(k, index') /\ Reheating(k, rows') /\ Scanning(k, rows')
    BY <1>c, <1>4 DEF Reading, Reheating, Scanning, InitLabels, ScanLabels
  <2> QED BY <1>2, <1>4, <2>1, <2>2, CleanStep DEF CleanLocal, Kept
<1>5. CASE GateRead(p)
  <2> DEFINE k == [l EXCEPT !.idx = index, !.pc = "g_validate"]
  <2>1. loc' = [loc EXCEPT ![p] = k] /\ k.pc = "g_validate" /\ k.idx = index
    BY <1>5, <1>t DEF GateRead, ReadIndex, Fields
  <2> HIDE DEF k
  <2> QED BY <1>4, <1>5, <2>1 DEF GateRead, store
<1>6. CASE GateValidate(p)
  <2>1. CASE Finish(p)
    BY <1>3, <1>2, <1>6, <2>1, FinishClean DEF GateValidate, store
  <2>2. CASE Goto(p, "g_write")
    <3> DEFINE k == [l EXCEPT !.pc = "g_write"]
    <3>1. loc' = [loc EXCEPT ![p] = k] /\ k.pc = "g_write" /\ k.idx = l.idx
      BY <1>t, <2>2 DEF Goto, Fields
    <3> HIDE DEF k
    <3>2. l.idx = index
      BY <1>c, <1>2, <1>6 DEF GateValidate, At, CleanLocal, Reading
    <3> QED BY <1>4, <1>6, <3>1, <3>2 DEF GateValidate, store
  <2> QED BY <1>6, <2>1, <2>2 DEF GateValidate
<1>7. CASE GateWrite(p)
  <2>1. l.idx = index /\ index' = Lines(l.idx) /\ UNCHANGED <<rows, blobs>> /\ Finish(p)
    BY <1>c, <1>2, <1>7 DEF GateWrite, At, CleanLocal, Reading
  <2>2. \A x \in Mems : x \in index' <=> x \in index
    BY <2>1 DEF Lines
  <2>3. Neat(rows', blobs', index')
    BY <1>3, <2>1, <2>2 DEF Neat
  <2> QED BY <1>2, <2>1, <2>3, FinishClean
<1> QED BY <1>5, <1>6, <1>7

(***************************************************************************)
(* The init bundle only reads.                                             *)
(***************************************************************************)
LEMMA InitClean ==
  ASSUME Serial, Kept, Clean, NEW p \in Procs, InitGlobal(p) \/ InitBundle(p)
  PROVE  Clean'
<1> DEFINE l == loc[p]
<1>t. DOMAIN l = Fields
  BY TypedParts DEF Kept, LocalOK
<1>c. InitLabels \subseteq PlainLabels /\ InitLabels \subseteq AnyLabels
  BY DEF InitLabels, PlainLabels, AnyLabels
<1>e. ASSUME Solo(p), Neat(rows, blobs, index), UNCHANGED store,
             NEW k, loc' = [loc EXCEPT ![p] = k], k.pc \in InitLabels \union {"idle"}
      PROVE  Clean'
  <2>1. Neat(rows', blobs', index') /\ k.pc \in PlainLabels
    BY <1>c, <1>e DEF store, PlainLabels
  <2> QED BY <1>e, <2>1, PlainStep
<1>1. CASE InitGlobal(p)
  <2>1. PICK label \in {"i_index", "i_reply"}, got \in SUBSET {Global} : Become(p, InitLocal(label, got))
    BY <1>1, InitGlobalStep DEF GlobalRead, GlobalFailed
  <2>2. InitLocal(label, got).pc = label
    BY InitLocalFields
  <2>3. MayStart(p, "init") /\ UNCHANGED store
    BY <1>1, InitGlobalStep
  <2>4. Solo(p) /\ Neat(rows, blobs, index)
    BY <2>3, StartsNeat
  <2> QED BY <1>e, <2>1, <2>2, <2>3, <2>4 DEF Become, InitLabels
<1>2. CASE InitBundle(p)
  <2>1. l.pc \in InitLabels /\ UNCHANGED store
    BY <1>2 DEF InitBundle, InitIndex, InitList, InitBody, InitDone, InitFail, InitReply, At,
       InitLabels
  <2>2. Solo(p) /\ Neat(rows, blobs, index)
    BY <1>c, <2>1, UnderWay, PlainClean
  <2>3. GoesOn(p, InitLabels)
    BY <1>2, InitOn DEF Kept
  <2> QED BY <1>e, <2>1, <2>2, <2>3, BlankTypes DEF GoesOn
<1> QED BY <1>1, <1>2

\* A step that only reads, from where nothing is half done to where nothing is.
LEMMA LookClean ==
  ASSUME Kept, NEW p \in Procs, Solo(p), CleanLocal(loc[p], rows, blobs, index),
         loc[p].pc \in FreeLabels, UNCHANGED store,
         NEW k, loc' = [loc EXCEPT ![p] = k], k.pc \in InitLabels \union ScanLabels,
         Reading(k, index), Scanning(k, rows)
  PROVE  Clean'
<1>1. k.pc \in FreeLabels /\ k.pc \notin ReheatLabels
  BY DEF FreeLabels, InitLabels, ScanLabels, ReheatLabels
<1>2. Neat(rows', blobs', index') /\ rows' = rows /\ index' = index
  BY Still DEF store
<1>3. \A x \in Mems : MemDue(k, rows', blobs', index', x)
  BY <1>1, <1>2, FreeDue DEF Neat
<1> QED BY <1>1, <1>2, <1>3, CleanStep DEF CleanLocal, Reheating, Kept

(***************************************************************************)
(* Scan with repair, with nothing to repair.                               *)
(***************************************************************************)
\* Where the store is neat, each row has its file, each file its row, and no pair is torn.
LEMMA NothingFound ==
  ASSUME RowsOK(rows), BlobsOK(blobs), HomeRows(rows), HomeFiles(blobs), Neat(rows, blobs, index)
  PROVE  /\ DanglingRows(rows, DOMAIN blobs) = {}
         /\ OrphanBlobs(rows, DOMAIN blobs) = {}
         /\ TornPairs(DOMAIN blobs) = {}
<1>1. ASSUME NEW m \in DOMAIN rows
      PROVE  rows[m].rel \in DOMAIN blobs
  <2>1. m \in Mems
    BY DEF RowsOK
  <2>2. rows[m].rel = IF Warm(rows[m]) THEN PushPath(m) ELSE ColdPath(m)
    BY DEF HomeRows
  <2> QED BY <2>1, <2>2 DEF Neat, Hot, Cold
<1>2. ASSUME NEW path \in DOMAIN blobs
      PROVE  path \in RowPaths(rows) /\ ~(IsTarFile(path) /\ ZstPath(path) \in DOMAIN blobs)
  <2>1. path \in Paths /\ AtHome(path)
    BY DEF BlobsOK, HomeFiles
  <2> DEFINE m == path[1]
  <2>2. m \in Mems /\ path \in {PushPath(m), ColdPath(m)}
    BY <2>1, HomePath
  <2> HIDE DEF m
  <2>3. CASE path = PushPath(m)
    <3>1. Hot(rows, m)
      BY <2>2, <2>3 DEF Neat
    <3>2. ColdPath(m) \notin DOMAIN blobs
      BY <2>2, <3>1 DEF Neat, Hot, Cold
    <3> QED BY <2>2, <2>3, <3>1, <3>2, OwnRow, FilePair DEF Hot
  <2>4. CASE path = ColdPath(m)
    <3>1. Cold(rows, m)
      BY <2>2, <2>4 DEF Neat
    <3> QED BY <2>2, <2>4, <3>1, OwnRow, FilePair DEF Cold
  <2> QED BY <2>2, <2>3, <2>4
<1>3. DanglingRows(rows, DOMAIN blobs) = {}
  BY <1>1 DEF DanglingRows, RowPaths
<1>4. OrphanBlobs(rows, DOMAIN blobs) = {}
  BY <1>2 DEF OrphanBlobs
<1>5. TornPairs(DOMAIN blobs) = {}
  BY <1>2 DEF TornPairs
<1> QED BY <1>3, <1>4, <1>5

\* A scan finds nothing and repairs nothing.
LEMMA ScanFindsNothing ==
  ASSUME Serial, Kept, Clean, NEW p \in Procs, ScanList(p) \/ Scan(p)
  PROVE  Clean'
<1> DEFINE l == loc[p]
<1>t. DOMAIN l = Fields
  BY TypedParts DEF Kept, LocalOK
<1>c. /\ ScanLabels = {"s_walk", "s_index", "s_orphans", "s_torn", "s_tar"}
      /\ ScanLabels \subseteq FreeLabels
  BY DEF ScanLabels, FreeLabels
<1>a. l.pc \in ScanLabels =>
        /\ Solo(p) /\ CleanLocal(l, rows, blobs, index) /\ Neat(rows, blobs, index)
        /\ l.finds = {} /\ l.pc # "s_tar"
  BY <1>c, UnderWay, FreeDue DEF AnyLabels, CleanLocal, Neat, Scanning
<1>n. Neat(rows, blobs, index) =>
        /\ DanglingRows(rows, DOMAIN blobs) = {}
        /\ OrphanBlobs(rows, DOMAIN blobs) = {}
        /\ TornPairs(DOMAIN blobs) = {}
  BY TypedParts, NothingFound DEF Kept, StoreKept
<1>1. CASE ScanList(p)
  <2> DEFINE F == DanglingRows(rows, DOMAIN blobs)
             k == [Idle EXCEPT !.op = "scan", !.pc = "s_walk", !.list = rows, !.finds = F]
  <2>1. loc' = [loc EXCEPT ![p] = k]
    BY <1>1 DEF ScanList, Become
  <2>2. k.pc = "s_walk" /\ k.list = rows /\ k.finds = F
    BY BlankTypes
  <2>3. /\ Solo(p) /\ CleanLocal(l, rows, blobs, index) /\ l.pc \in FreeLabels
        /\ Neat(rows, blobs, index) /\ UNCHANGED store
    BY <1>1, StartsNeat DEF ScanList
  <2>4. F = {}
    BY <1>n, <2>3
  <2> HIDE DEF k, F
  <2>5. Scanning(k, rows) /\ Reading(k, index)
    BY <2>2, <2>4 DEF Scanning, Reading, IndexReadLabels
  <2> QED BY <1>c, <2>1, <2>2, <2>3, <2>5, LookClean
<1>2. CASE ScanWalk(p)
  <2> DEFINE F == l.finds \union OrphanBlobs(l.list, DOMAIN blobs) \union TornPairs(DOMAIN blobs)
             k == [l EXCEPT !.pc = "s_index", !.finds = F]
  <2>1. loc' = [loc EXCEPT ![p] = k] /\ k.pc = "s_index" /\ k.finds = F /\ k.list = l.list
    BY <1>2, <1>t DEF ScanWalk, Become, Fields
  <2> HIDE DEF k
  <2>2. l.pc = "s_walk" /\ UNCHANGED store
    BY <1>2 DEF ScanWalk, At
  <2>3. l.list = rows
    BY <1>a, <1>c, <2>2 DEF CleanLocal, Scanning
  <2>4. F = {}
    BY <1>a, <1>c, <1>n, <2>2, <2>3
  <2>5. Scanning(k, rows) /\ Reading(k, index)
    BY <2>1, <2>3, <2>4 DEF Scanning, Reading, IndexReadLabels
  <2> QED BY <1>a, <1>c, <2>1, <2>2, <2>5, LookClean
<1>3. CASE ScanIndex(p)
  <2> DEFINE k == [l EXCEPT !.idx = index, !.pc = "s_orphans"]
  <2>1. /\ loc' = [loc EXCEPT ![p] = k] /\ k.pc = "s_orphans" /\ k.finds = l.finds
        /\ k.list = l.list /\ k.idx = index
    BY <1>3, <1>t DEF ScanIndex, ReadIndex, Fields
  <2> HIDE DEF k
  <2>2. l.pc = "s_index" /\ UNCHANGED store
    BY <1>3 DEF ScanIndex, At
  <2>3. l.list = rows
    BY <1>a, <1>c, <2>2 DEF CleanLocal, Scanning
  <2>4. Scanning(k, rows) /\ Reading(k, index)
    BY <1>a, <1>c, <2>1, <2>2, <2>3 DEF Scanning, Reading
  <2> QED BY <1>a, <1>c, <2>1, <2>2, <2>4, LookClean
<1>4. CASE RepairPairs(p)
  <2> DEFINE k == [l EXCEPT !.pc = "s_torn"]
  <2>1. loc' = [loc EXCEPT ![p] = k] /\ k.pc = "s_torn" /\ k.finds = l.finds
    BY <1>4, <1>t DEF RepairPairs, Goto, Fields
  <2> HIDE DEF k
  <2>2. l.pc = "s_orphans" /\ UNCHANGED store
    BY <1>4 DEF RepairPairs, At
  <2>3. Scanning(k, rows) /\ Reading(k, index)
    BY <1>a, <1>c, <2>1, <2>2 DEF Scanning, Reading, IndexReadLabels
  <2> QED BY <1>a, <1>c, <2>1, <2>2, <2>3, LookClean
<1>5. CASE RepairOrphan(p) \/ RepairTorn(p) \/ RepairTar(p)
  <2>1. l.pc \in ScanLabels /\ (l.finds # {} \/ l.pc = "s_tar")
    BY <1>5, <1>c DEF RepairOrphan, RepairTorn, RepairTar, Found, At
  <2> QED BY <1>a, <2>1
<1>6. CASE ScanDone(p)
  BY <1>6, <1>a, <1>c, FinishClean DEF ScanDone, At, store
<1> QED BY <1>1, <1>2, <1>3, <1>4, <1>5, <1>6 DEF Scan

(***************************************************************************)
(* The induction.                                                          *)
(***************************************************************************)
\* The empty data root is clean.
LEMMA EmptyClean == Init => Clean
<1> SUFFICES ASSUME Init PROVE Clean
  OBVIOUS
<1>1. Running = {}
  BY DEF Init, Running
<1>2. \A x \in Mems : x \notin index
  BY MemAssumption DEF Init, NoFile, Null, Mems
<1>3. Neat(rows, blobs, index)
  BY <1>2 DEF Init, Neat, Hot, Cold
<1>4. CleanLocal(Idle, rows, blobs, index)
  BY <1>3, BlankTypes, PlainClean DEF PlainLabels
<1> QED BY <1>1, <1>4 DEF Clean

\* Every step keeps the store clean, up to what is due at its label.
LEMMA NextClean ==
  ASSUME Serial, Kept, Fresh, Clean, [Next]_vars, stops' = stops
  PROVE  Clean'
<1> USE DEF Procs
<1>1. CASE UNCHANGED vars \/ Tick
  <2>1. UNCHANGED <<rows, blobs, index, loc>>
    BY <1>1 DEF vars, Tick, store
  <2> QED BY <2>1 DEF Clean, Quiet, Running
<1>2. ASSUME NEW p \in Handlers, StartRequest(p) \/ ContinueRequest(p)
      PROVE  Clean'
  BY <1>2, PushClean, RemindClean, InitClean DEF StartRequest, ContinueRequest
<1>3. ASSUME NEW p \in Dreams, StartDream(p) \/ Scan(p)
      PROVE  Clean'
  BY <1>3, LoopClean, ScanFindsNothing DEF StartDream
<1>4. ASSUME NEW p \in Dreams, Pass(p)
      PROVE  Clean'
  <2>1. CASE Compress(p)
    BY <2>1, CompressClean
  <2>2. CASE HardDelete(p)
    BY <2>2, DestroyClean
  <2>3. CASE GateRead(p) \/ GateValidate(p) \/ GateWrite(p)
    BY <2>3, GateClean
  <2>4. CASE \/ AgeList(p) \/ AgeNext(p) \/ AgeDone(p)
             \/ ForgetList(p) \/ Forget(p) \/ ForgetDone(p) \/ TombList(p) \/ SoftDelete(p)
             \/ MarkDone(p) \/ DoomNext(p) \/ DoomDone(p)
    BY <2>4, LoopClean
  <2> QED BY <1>4, <2>1, <2>2, <2>3, <2>4 DEF Pass, ForgetScan
<1>5. ASSUME NEW p \in Procs, Stop(p)
      PROVE  FALSE
  <2>1. stops \in Nat
    BY BoundAssumption DEF Kept, TypeOK, HistoryOK
  <2> QED BY <1>5, <2>1 DEF Stop
<1> QED BY <1>1, <1>2, <1>3, <1>4, <1>5 DEF Next, Start, Continue, ContinueDream

\* The invariant holds in every reachable state of a serial setting.
LEMMA AlwaysClean ==
  ASSUME Serial
  PROVE  Spec => [](Kept /\ Fresh /\ (stops = 0 => Clean))
<1>1. Gentle
  BY DEF Serial, Gentle, Guarded, Operations
<1>2. Kept /\ Fresh /\ (stops = 0 => Clean) /\ [Next]_vars => (stops = 0 => Clean)'
  <2> SUFFICES ASSUME Kept, Fresh, stops = 0 => Clean, [Next]_vars, stops' = 0
               PROVE  Clean'
    OBVIOUS
  <2>1. stops = 0 /\ stops' = stops
    BY StopsCounted, BoundAssumption DEF Kept, TypeOK, HistoryOK
  <2> QED BY <2>1, NextClean
<1>3. Spec => [](Kept /\ Fresh)
  BY <1>1, AlwaysFresh
<1> QED BY <1>2, <1>3, EmptyClean, PTL DEF Spec

(***************************************************************************)
(* The promises.                                                           *)
(***************************************************************************)
\* An index that lists the archived memories is valid.
LEMMA NeatIndex ==
  ASSUME NEW t, RowsOK(t), NEW i, \A x \in Mems : x \in i <=> Cold(t, x)
  PROVE  ValidIndex(t, i)
<1>1. \A x \in Mems : x \in Archived(t) <=> Cold(t, x)
  BY DEF Archived, InState, Cold, Warm, RowsOK, Rows, States
<1>2. Archived(t) \subseteq Mems
  BY DEF Archived, InState, RowsOK
<1> QED BY <1>1, <1>2 DEF ValidIndex, Lines

\* Between operations, as long as none was stopped, long-term-memory.md has a line for each
\* archived memory and no other, though Compress, Reheat and HardDelete write rows and lines
\* one after the other.
THEOREM IndexVisibleKept ==
  ASSUME Serial
  PROVE  Spec => []IndexVisible
<1>1. Kept /\ (stops = 0 => Clean) => IndexVisible
  <2> SUFFICES ASSUME Kept, Clean, Quiet PROVE ValidIndex(rows, index)
    BY DEF IndexVisible
  <2>1. Neat(rows, blobs, index)
    BY BlankTypes, PlainClean DEF Clean, PlainLabels
  <2> QED BY <2>1, NeatIndex DEF Kept, TypeOK, StoreOK, Neat
<1> QED BY <1>1, AlwaysClean, PTL

\* ScanConsistency has no findings on a store on which no operation was stopped, however
\* many verified writes went wrong.
THEOREM ScanCleanKept ==
  ASSUME Serial
  PROVE  Spec => []ScanClean
<1>1. Kept /\ (stops = 0 => Clean) => ScanClean
  <2> SUFFICES ASSUME Kept, Clean, NEW p \in Dreams, At(p, "s_orphans")
               PROVE  loc[p].finds = {} /\ ValidIndex(loc[p].list, loc[p].idx)
    BY DEF ScanClean
  <2>1. p \in Procs /\ loc[p].pc = "s_orphans" /\ p \in Running
    BY BlankTypes DEF At, Procs, Running
  <2>2. CleanLocal(loc[p], rows, blobs, index)
    BY <2>1 DEF Clean
  <2>3. Neat(rows, blobs, index)
    BY <2>1, <2>2, FreeDue DEF CleanLocal, Neat, FreeLabels, ScanLabels
  <2>4. loc[p].finds = {} /\ loc[p].list = rows /\ loc[p].idx = index
    BY <2>1, <2>2 DEF CleanLocal, Scanning, ScanLabels, Reading, IndexReadLabels
  <2> QED BY <2>3, <2>4, NeatIndex DEF Kept, TypeOK, StoreOK, Neat
<1> QED BY <1>1, AlwaysClean, PTL
=============================================================================
