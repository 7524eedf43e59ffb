----------------------------- MODULE ApiServer ------------------------------
(***************************************************************************)
(* The handlers of the HTTP server that read or change memories:           *)
(* writeMemory (push), remind and initBundle.  The agent is registered and *)
(* the request valid; the answers that change nothing (400, 404, 413) are  *)
(* no steps.                                                               *)
(***************************************************************************)
EXTENDS ColdTier

(***************************************************************************)
(* writeMemory: the file, then the row.  The client knows the memory to be *)
(* stored once it has the 204.                                             *)
(***************************************************************************)
PushOp(m) == IF m \in Archived(rows) THEN "repush" ELSE "push"

PushBlob(p, m) ==
  /\ MayStart(p, PushOp(m))
  /\ pushed < MaxPush
  /\ pushed' = pushed + 1
  /\ blobs' = With(blobs, PushPath(m), Tarball(pushed'))
  /\ Become(p, [Idle EXCEPT !.op = PushOp(m), !.pc = "p_row", !.mem = m,
                            !.buf = Tarball(pushed')])
  /\ UNCHANGED <<rows, index, clock, acked, budgets>>

PushRow(p) ==
  /\ At(p, "p_row")
  /\ rows' = PutRow(rows, loc[p].mem, clock)
  /\ acked' = [acked EXCEPT ![loc[p].mem] =
                 IF loc[p].buf.ver > @ THEN loc[p].buf.ver ELSE @]
  /\ Finish(p)
  /\ UNCHANGED <<blobs, index, clock, pushed, budgets>>

(***************************************************************************)
(* remind: Reheat, then the row and the file again, then the answer.       *)
(***************************************************************************)
RemindStart(p, m) ==
  /\ MayStart(p, "remind")
  /\ m \in DOMAIN rows
  /\ Become(p, [Idle EXCEPT !.op = "remind", !.mem = m, !.row = rows[m],
                            !.pc = IF rows[m].state = "recent" THEN "r_touch" ELSE "r_read"])
  /\ UNCHANGED <<store, clock, history>>

RemindGet(p) ==
  /\ At(p, "m_get")
  /\ IF loc[p].mem \in DOMAIN rows
     THEN loc' = [loc EXCEPT ![p].row = rows[loc[p].mem], ![p].pc = "m_read"]
     ELSE Finish(p)
  /\ UNCHANGED <<store, clock, history>>

RemindRead(p) ==
  /\ At(p, "m_read")
  /\ IF Exists(loc[p].row.rel)
     THEN loc' = [loc EXCEPT ![p].buf = blobs[loc[p].row.rel], ![p].pc = "m_reply"]
     ELSE Finish(p)
  /\ UNCHANGED <<store, clock, history>>

RemindReply(p) ==
  /\ At(p, "m_reply")
  /\ Finish(p)
  /\ UNCHANGED <<store, clock, history>>

Remind(p) ==
  Reheat(p) \/ RemindGet(p) \/ RemindRead(p) \/ RemindReply(p)

(***************************************************************************)
(* initBundle: the global archive, the index, then every recent project.   *)
(* A file that is gone is left out.  One that is no tar archive, or cannot *)
(* be read, ends WriteInitZip, whose deferred Close completes the zip with *)
(* what it has by then: the answer is a 200 all the same.                  *)
(***************************************************************************)
InitGlobal(p) ==
  /\ MayStart(p, "init")
  /\ LET path == PushPath(Global)
     IN  \E failed \in BOOLEAN :
           /\ failed => stops < MaxStops
           /\ stops' = IF failed THEN stops + 1 ELSE stops
           /\ IF failed \/ (Exists(path) /\ ~IsTar(blobs[path]))
              THEN Become(p, [Idle EXCEPT !.op = "init", !.pc = "i_reply"])
              ELSE Become(p, [Idle EXCEPT !.op = "init", !.pc = "i_index",
                                          !.got = IF Exists(path) THEN {Global} ELSE {}])
  /\ UNCHANGED <<store, clock, pushed, acked, badWrites>>

InitIndex(p) ==
  /\ At(p, "i_index")
  /\ ReadIndex(p, "i_list")
  /\ UNCHANGED <<store, clock, history>>

InitList(p) ==
  /\ At(p, "i_list")
  /\ \E s \in ByRecency(rows, InState(rows, "recent") \ {Global}) :
       Become(p, [loc[p] EXCEPT !.todo = s, !.list = rows, !.pc = "i_body"])
  /\ UNCHANGED <<store, clock, history>>

InitBody(p) ==
  /\ At(p, "i_body")
  /\ loc[p].todo # <<>>
  /\ LET m == Head(loc[p].todo)
         path == loc[p].list[m].rel
     IN  IF Exists(path) /\ ~IsTar(blobs[path])
         THEN Goto(p, "i_reply")
         ELSE Become(p, [loc[p] EXCEPT !.todo = Tail(@),
                                       !.got = IF Exists(path) THEN @ \union {m} ELSE @])
  /\ UNCHANGED <<store, clock, history>>

InitDone(p) ==
  /\ At(p, "i_body")
  /\ loc[p].todo = <<>>
  /\ Goto(p, "i_reply")
  /\ UNCHANGED <<store, clock, history>>

\* The next read fails: the request does not end (Stop) but answers with part of the bundle.
InitFail(p) ==
  /\ loc[p].pc \in {"i_index", "i_list", "i_body"}
  /\ stops < MaxStops
  /\ stops' = stops + 1
  /\ Goto(p, "i_reply")
  /\ UNCHANGED <<store, clock, pushed, acked, badWrites>>

InitReply(p) ==
  /\ At(p, "i_reply")
  /\ Finish(p)
  /\ UNCHANGED <<store, clock, history>>

\* Mutants of InitIndex and InitList: the rows before the index.
InitIndex_Second(p) ==
  /\ At(p, "i_list")
  /\ ReadIndex(p, "i_body")
  /\ UNCHANGED <<store, clock, history>>
InitList_First(p) ==
  /\ At(p, "i_index")
  /\ \E s \in ByRecency(rows, InState(rows, "recent") \ {Global}) :
       Become(p, [loc[p] EXCEPT !.todo = s, !.list = rows, !.pc = "i_list"])
  /\ UNCHANGED <<store, clock, history>>
\* Mutant of InitBundle: with them.
InitBundle_ListFirst(p) ==
  \/ InitList_First(p) \/ InitIndex_Second(p) \/ InitBody(p) \/ InitDone(p) \/ InitReply(p)
InitBundle(p) ==
  \/ InitIndex(p) \/ InitList(p) \/ InitBody(p) \/ InitDone(p)
  \/ InitFail(p) \/ InitReply(p)

StartRequest(p) ==
  \E m \in Mems : PushBlob(p, m) \/ RemindStart(p, m) \/ InitGlobal(p)
ContinueRequest(p) == PushRow(p) \/ Remind(p) \/ InitBundle(p)
=============================================================================
