----------------------------- MODULE Processes ------------------------------
(***************************************************************************)
(* The shared state and the processes that work on it.                     *)
(*                                                                         *)
(* The API server answers every request in a goroutine of its own and the  *)
(* dream command is another operating-system process, so a handler or a    *)
(* dream process may be interrupted between any two accesses to the store. *)
(* One SQL statement or transaction is atomic (SQLite), and so is one read *)
(* or write of a whole file (PutFolder renames a temporary file).          *)
(*                                                                         *)
(* Each process runs at most one operation at a time and keeps the local   *)
(* variables of its functions in loc[p]; loc[p].pc names the access it is  *)
(* about to make.                                                          *)
(***************************************************************************)
EXTENDS StoreOps

CONSTANTS
  Handlers,      \* concurrent HTTP requests
  Dreams,        \* concurrent runs of the dream command
  Workload,      \* the operations that may be started
  Exclusive,     \* the operations that never overlap another one
  MaxClock,      \* bounds: ticks of the clock,
  MaxPush,       \*   versions pushed,
  MaxStops,      \*   operations cut short by a crash or an I/O error,
  MaxBadWrites   \*   verified writes that store other bytes

Procs == Handlers \union Dreams
Operations == {"push", "repush", "remind", "init", "pass", "scan"}

ASSUME ProcessAssumption ==
  /\ Handlers \intersect Dreams = {}
  /\ Workload \subseteq Operations
  /\ Exclusive \subseteq Operations

ASSUME BoundAssumption ==
  {MaxClock, MaxPush, MaxStops, MaxBadWrites} \subseteq Nat

VARIABLES
  rows,          \* the memories table: mem_id -> row
  blobs,         \* the .tar and .tar.zst files: path -> body
  index,         \* the lines of long-term-memory.md, or NoFile
  clock,         \* time.Now().Unix()
  loc,           \* what each process is doing
  pushed,        \* history: number of versions pushed
  acked,         \* history: latest version a client knows is stored, per mem_id
  stops,         \* history: operations cut short
  badWrites      \* history: verified writes that went wrong

store == <<rows, blobs, index>>
budgets == <<stops, badWrites>>
history == <<pushed, acked, stops, badWrites>>
vars == <<rows, blobs, index, clock, loc, pushed, acked, stops, badWrites>>

(***************************************************************************)
(* Local variables: the operation, the next access, the memory at hand,    *)
(* its row as Get returned it, the body and the index last read, the list  *)
(* the loop has left, the memories to hard-delete, the paths of the listed *)
(* rows, the findings of a scan, the memories bundled by init, Job.Now.    *)
(***************************************************************************)
NoOp == "none"
BlankRow == [state |-> "recent", rel |-> PushPath(Global), at |-> 0, del |-> Null]
Idle == [op |-> NoOp, pc |-> "idle", mem |-> Global, row |-> BlankRow, buf |-> Garbage,
         idx |-> NoFile, todo |-> <<>>, doomed |-> <<>>, list |-> <<>>, finds |-> {},
         got |-> {}, now |-> 0]

At(p, label) == loc[p].pc = label
Goto(p, label) == loc' = [loc EXCEPT ![p].pc = label]
\* Returning from a function of the store drops its local variables.
Return(p, label) ==
  loc' = [loc EXCEPT ![p] = [@ EXCEPT !.pc = label, !.row = BlankRow, !.buf = Garbage, !.idx = NoFile]]
Finish(p) == loc' = [loc EXCEPT ![p] = Idle]
Become(p, local) == loc' = [loc EXCEPT ![p] = local]

Running == {p \in Procs : loc[p] # Idle}
Quiet == Running = {}

\* The operating assumption of an instance: Exclusive operations run alone.
MayStart(p, op) ==
  /\ loc[p] = Idle
  /\ op \in Workload
  /\ \A q \in Running : op \notin Exclusive /\ loc[q].op \notin Exclusive

Exists(path) == path \in DOMAIN blobs
Remove(path) == blobs' = Without(blobs, path)

\* A write the code reads back afterwards: the disk may hold other bytes.
StoreBody(path, body) ==
  \E c \in {body, Garbage} :
     /\ c # body => badWrites < MaxBadWrites
     /\ badWrites' = IF c # body THEN badWrites + 1 ELSE badWrites
     /\ blobs' = With(blobs, path, c)
ReadsBack(path, body) == Exists(path) /\ blobs[path] = body

\* Kill, power loss, or the I/O error of the next access: the operation ends here.
Stop(p) ==
  /\ loc[p] # Idle
  /\ stops < MaxStops
  /\ stops' = stops + 1
  /\ Finish(p)
  /\ UNCHANGED <<store, clock, pushed, acked, badWrites>>

Tick ==
  /\ clock < MaxClock
  /\ clock' = clock + 1
  /\ UNCHANGED <<store, loc, history>>

\* Open on an empty data root.
Init ==
  /\ rows = <<>>
  /\ blobs = <<>>
  /\ index = NoFile
  /\ clock = 0
  /\ loc = [p \in Procs |-> Idle]
  /\ pushed = 0
  /\ acked = [m \in Mems |-> 0]
  /\ stops = 0
  /\ badWrites = 0
=============================================================================
