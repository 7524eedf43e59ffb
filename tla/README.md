# mywholelife: a TLA+ model of the memory store

mywholelife keeps an agent's memories: one pinned *global* memory and one
memory per *project*. A client pushes archives to an HTTP server at the end of
a session and pulls a bundle at the start of the next one. Every night a *dream*
pass ages what was not used: recent archives are compressed and listed in an
index, old ones become tombstones, and tombstones are marked and, a grace period
later, destroyed. A *remind* brings an archived memory back.

The store is three things with no transaction across them: a SQLite table, a
directory of archive files, and a Markdown index file. Requests run in
goroutines, the dream command is a process of its own, and no lock keeps them
apart. What the code relies on is the order of its steps (write, read back,
commit the row, delete the source last) and `WHERE` clauses. This project
models that order access by access and asks what it does and does not
guarantee. Two more models look at what that one takes as one step or leaves
out: the text of the index file and the way it is written, and the shell scripts
on the client's side with the registration of agents.

- Section 1: the system. Section 2: modules and plan. Section 3: how the model
  corresponds to the code. Section 4: runs. Section 5: what disagrees with the
  code's own documents. Section 6: proofs. Section 7: what is left out.

## 1. Inventory

| component (source) | state | operations | interacts through |
| --- | --- | --- | --- |
| memory store, rows (`store/sqlite.go`, `schema.sql`) | table `memories`: state, rel_path, access_time, deleted_at, pinned | Put, Touch, Get, List, Forget, SoftDelete | SQL statements, each atomic |
| memory store, cold tier (`store/sqlite.go`, `zstd.go`) | rows, files and index lines together | Compress, Reheat, HardDelete | called by the dream job and by remind |
| memory store, index (`store/index.go`) | `long-term-memory.md`, its `.bak` | upsertIndex, removeIndex, GetIndex, CommitIndex | read and rewritten whole, no lock |
| blob store (`store/blob_fs.go`) | `.tar` and `.tar.zst` files | PutFolder, GetFolder, Delete, Exists, Walk | temporary file and rename |
| memory requests (`server/memory.go`, `remind.go`, `init.go`) | none of their own | push, remind, init | goroutine per request |
| init bundle (`bundle/bundle.go`) | none | WriteInitZip | reads files, index and rows one after the other; answers 200 also when one of the reads fails |
| dream pass (`dream/job.go`) | Now, the lists it works through | ageScan, forgetScan, hardDelete, gate | a process started by cron |
| scan and repair (`dream/scan.go`) | its findings | ScanConsistency, Scan | `dream --scan --repair` |
| agent registry (`server/register.go`, `lookup.go`) | table `agents`, names unique | register, lookup, GetAgent | single SQL statements |
| tar validation (`bundle/tar.go`) | none | ValidateAndBrief | called by push |
| hook generation (`dream/hook.go`) | none | one LLM call | called by ageScan |
| client scripts (`client/mywholelife/scripts`) | `agent.json`, outbox directories | init, push, remind, session end | HTTP to the server, answers that may be lost |
| start-up, configuration, deployment | environment | serve, cron line | - |

What makes each correct, and what makes that hard:

- **Rows.** `deleted_at` is stamped once and cleared only by a reheat; the pinned
  row never leaves `recent`. Hard: every `UPDATE` is issued from a list or a row
  read earlier, so its `WHERE` clause is the only fresh check.
- **Cold tier.** A memory acknowledged to a client always has a readable file that
  its row names. Hard: a crash or a bad write at any of about nine steps, and a
  push or a second remind between any two of them.
- **Index.** One line per archived memory when the store is at rest. Hard: row and
  line are written in two steps, in different orders by the three operations.
- **Requests.** A remind answers with the acknowledged version as a tar archive;
  a bundle that init reads to its end
  misses no memory. Hard: files, index and rows are read at different moments, and an error
  half-way still answers 200.
- **Dream pass.** A memory moves only along recent, long-term, tombstone, marked,
  destroyed, each when its own threshold is over, and it does get there: the cap on
  deletions, the early return on an error and a killed pass must not starve it.
- **Repair.** After it, each file is the one its memory's row names, and no file a row
  names was deleted.
- **Index file.** Parsing what was serialized gives the same lines, whatever a brief
  contains, and a reader sees the file before a write or after it. Hard: briefs and LLM
  answers are foreign text in a format with separators; a write can end anywhere.
- **Agent registry.** One id per name, and each memory belongs to the agent that pushed
  it. Hard: an answer lost after the INSERT; a primary key without the agent in it.
- **Client scripts.** What was staged is uploaded or still staged, and in the end uploaded;
  the next session gets back what was uploaded. Hard: the script and the server each see
  one side of a broken connection, and one refused folder sits in a loop with others.

The hazards, each at its line, are listed in `PROJECT.json` with the properties
that cover them, or the reason why none does yet.

## 2. Modules and plan

```
StoreOps        rows, files, index lines; SQL statements and selections as functions
   |
Processes       shared variables, processes, Stop, bad writes, the clock, Init
   |
ColdTier        Compress, Reheat, HardDelete
   |        \
ApiServer    DreamJob      push, remind, init  |  pass, scan with repair
   |        /
MyWholeLife     composition, fairness, all properties; INSTANCE MemoryLifecycle
   |        \
MCSerial     MCOverlap     definitions for the configurations

MemoryLifecycle            abstract specification of a memory's age
MyWholeLife_proofs         TypeCorrect
   |        \
   |         PinnedMemory_proofs    PinnedNeverAges
   |
NoLoss_proofs              NoLossKept, RemindFreshKept, RepairCompleteKept
   |
Lifecycle_proofs           GraceClockKept, LifecycleKept, FreshMarkKept, DestroysCondemnedKept
   |
CleanStore_proofs          IndexVisibleKept, ScanCleanKept

PartialMaps                With, Without (StoreOps uses it too)
   |        \
IndexFile    Clients       the index file and how it is written  |  machines and server
   |            |
MCIndexFile  MCClients     definitions for the configurations

IndexLines                 abstract specification of the index: a list of lines
IndexFile_proofs           BackedUpKept, ParseSerialize, WellFormedKept, IndexAtomicKept, UpsertIdempotent
Clients_proofs             ClientsTypeCorrect, IdentityKept, ApartOwned, DeliveredKept
RoundTrip_proofs           RoundTripKept
```

The three state machines are separate because they look at different sizes: `MyWholeLife`
takes whole files and one agent, `IndexFile` one file and its text, `Clients` many agents and
memories that do not age. Each states what it takes from the others: `MyWholeLife` relies on
an index write being one step that keeps all other lines (`IndexAtomic`), and on a push that
stores what it was given; `Clients` on recent memories staying recent.

Order of the work: the store and the cold tier first, because every other part's
correctness rests on them; then the requests and the pass; then the composition, the abstract
lifecycle and their proofs; then the index file, the clients, and theirs.

Next, most important first:

1. *More races of the composition*, each a run of its own: a reminded memory turned into a
   tombstone by a stale `Forget` (a tombstone whose rel_path is a `.tar` can never be
   reheated); a Compress that deletes the `.tar` a remind has just reheated; two operations that rewrite the index at once and lose a line; a scan's repair
   deleting what a push has just committed; a memory compressed between init's reading of the
   index and its listing of the rows. Two passes at once exceed what TLC explores in minutes
   (more than 12 million states), and are left to theorems: `TypeCorrect`, `PinnedNeverAges`
   and `GraceClockKept` hold for any number of passes.
2. *Two writers of one path* in `IndexFile`, which then no longer implements `IndexLines`.
3. *An identity the server has lost* in `Clients`: a restored database, and an `agent.json`
   that init.sh never corrects.
4. *A bundle cut short* on the client's side: init.sh unpacks whatever a 200 carries.
5. *TarLimits*: path cleaning, the limits of an upload and the brief, as an algorithm.
6. *Proofs*: `NoLoss` where a push overlaps operations on other memories.

## 3. How the model corresponds to the code

**State.** `rows` is the memories table as a function from mem_id to row; `blobs` maps
a path to a file body; `index` is the set of mem_ids that have a line, or `NoFile`;
`clock` is Unix time. `loc[p]` holds the local variables of what process `p` is doing,
and `loc[p].pc` names the access it is about to make. `pushed`, `acked`, `stops` and
`badWrites` are history: how many versions were pushed, which one a client knows is
stored, how many faults happened. No guard of the program reads them except as bounds.

**Atomicity.** One action is one SQL statement or one read or write of a whole file.
Between any two of them other processes may run, and `Stop` may end the operation: a
kill, a power failure or the I/O error of the next access. A stopped operation leaves
what it had written. Init is the exception: an error of one of its reads, or a file that is no tar
archive, ends `WriteInitZip`, but its deferred `Close` completes the zip with what it has by then and
`initBundle` answers 200 (`InitFail`, and the second outcome of `InitGlobal` and `InitBody`); label
`i_reply` is that answer, complete or not. The local computation that follows an access belongs to its action.
An action that reads a list also applies the filter the code applies to that list.

**Bodies.** A body is the version it carries and the number of times it is compressed,
so compressing an archive twice, or serving a compressed file as `.tar`, shows.
`Garbage` is a file that carries no version: what a disk may hold after a write that
Compress or Reheat then reads back (`StoreBody`). A push is not read back by the code,
so its write is assumed to store what it was given. `blobs` holds `.tar` and `.tar.zst` files. The
`.tmp` file that a stopped `PutFolder` may leave (`blob_fs.go:45-49`) is not in it: nothing reads it,
the scan ignores it, and the next write of the same path replaces it (`IndexFile` has it for the index).

**Paths.** A path is a mem_id and a list of suffixes; `ZstPath` and `TarPath` do what
`strings.TrimSuffix` and the concatenation in Compress and Reheat do, also on a
rel_path that does not have the expected suffix.

**Order.** List returns rows newest first, ties in any order (`ByRecency`); hard deletes
go by mem_id (`ByMemId`); a mem_id is its rank in string order.

**Exclusive.** Nothing in the code keeps operations apart. `Exclusive` is the set of
operations that never overlap another one *in an instance*: `{}` is the deployed system;
with all of them, each operation starts on a store nobody else is using, though perhaps
one a stopped operation left half done. Each run says which assumption it makes. A
property checked under a non-empty `Exclusive` is a promise of the code's step order, not
of the deployed system, and the violation runs show where the difference is.

**Left out of the state of `MyWholeLife`:** `agent_id`, `brief` and `created_at`, which no
transition reads; `.bak`, which nothing reads back; the wording of an index line. `pinned` and
`scope` are the same for every row of a mem_id in the one-agent model and are read off the
mem_id. Thresholds and the cap are natural numbers: a negative environment value is not
modelled. A gate that passes while there is no index file writes an empty one
(`dream/job.go:38-41`), after which init serves an empty list and no longer "(none yet)": the
model has the same two values, `NoFile` and `{}`.

**IndexFile.** `disk` maps the four paths (`.md`, `.bak` and a temporary file of each) to
their text, a sequence of tokens: words, and the three marks the format gives a meaning to.
`ParseIndex`, `SerializeIndex`, `UpsertIndexLine` and `RemoveIndexLine` are the functions of
`store/index.go` on such texts, with the split into at most three parts, the first of two
equal keys, the removal of marks from a brief, and the cap; `Only`, the members of a set in
order, is the filter they share. Blanks are not tokens, so texts
are equal up to blanks, and `CapLen` counts tokens. `op` is the write in progress:
`writeIndexAtomic` puts the old content to `.bak` and the new one to the file, and each put
truncates the temporary file, writes it (a reader, or the end of the process, may meet any
prefix) and renames it. `seen` is the list a reader would now get; the refinement maps it to
the list of `IndexLines`, where an upsert or a removal is one step. *Assumption*: one writer
at a time, as in the runs of the composition where operations are exclusive.

**Clients.** `agents`, `memories` and `files` are the server; `nameOf`, `json`, `outbox`
and `script` a machine; `wire[c]` the push of machine c that the server has received. A push
is two steps on the server (file, then row, as in `writeMemory`), and one more on the machine
(`rm -rf`). A register, a lookup and an init are one step, since each is one statement or reads only. An
answer may be lost on either side of the server's step, a script may be killed between any
two of its steps; `printf > agent.json` is two of them. `PutMemory` is the upsert with the
conflict clause that keeps `agent_id`; `MemId` gives the global memory a key with the agent in it and a
project one without. The names of projects are numbers, so that the shell's order of a glob is theirs. A folder is a
version and a number of tar entries; more than `MaxEntries` is refused, today and tomorrow.
*Assumptions*, named in the module: a machine runs one script at a time (two sessions on one machine
would share `agent.json` and the outbox); a folder is staged while no script of its machine runs
(`rm -rf` would delete it unsent), and a push whose client has gone is over before that machine
sends its next one (a late one could overwrite it). What holds only where each project is pushed from one
machine, or where agents name their projects apart, says so in its theorem; the run
`clients` takes an instance where both hold, `tenancy` one where the latter does not.

## 4. Runs

Time is counted in ticks. With T1, T2, T3, Grace = 0, 1, 2, 0 the four transitions need
ages of 1, 2, 3 and a mark one tick old, so each threshold is told apart from its
neighbours and a memory pushed at tick 0 is marked at 3 and destroyed at 4: MaxClock = 4
is a whole life. Two projects are what the deletion cap (1 per pass) and interference
between memories need; three versions are two memories and a re-push, or one memory
pushed again twice.

| run | assumption | faults | checks |
| --- | --- | --- | --- |
| `serial_faults` | one operation at a time, re-pushes included | 2 stops, 1 bad write | `NoLoss`, `RemindFresh`, `RepairComplete`, `LinesLead` |
| `progress` | one at a time, two projects; no re-push of an archived memory | 1 stop, 1 bad write | `Lifecycle` (refinement), `Progress` (liveness), `DestroysCondemned`; and `IndexVisible`, `ScanClean` until the stop |
| `overlap_all` | none: pushes, reminds and a pass interleave | 1 stop | `TypeOK`, `PinnedSafe`, `GraceClock` |
| `overlap_reads` | reminds and inits overlap each other; pushes and passes run alone | 1 stop | `NoLoss`, `RemindFresh`; and `InitComplete` until the stop |
| `index_file` | one writer at a time | 1 write cut short | `WellFormed`, `IndexAtomic` (refinement), `BackedUp` |
| `clients` | each project from one machine | 1 answer lost or script killed | `TypeOK`, `IdentityAgrees`, `Owned`, `RoundTrip`, `Delivered`, `Flushed` (liveness) |
| `repush_mark` | one at a time | none | `FreshMark` is violated |
| `repush_gate` | one at a time | none | `GatePasses` is violated |
| `stopped_gate` | one at a time, no re-push of an archived memory | 1 stop | `GatePasses` is violated |
| `remind_race` | a remind and a pass overlap | none | `DestroysCondemned` is violated |
| `push_race` | none: pushes and a pass | none | `NoLoss` is violated |
| `tenancy` | two agents, one project name | none | `Owned` is violated |

What the passing runs show:

- `serial_faults`: an acknowledged memory survives two stopped operations and a write that
  stored other bytes, in every combination with re-pushes: the read-back before the commit
  and the deletion last are enough. A remind that answers sends the acknowledged version
  uncompressed. A line of the index never leads to a memory that cannot be read, not even in
  the middle of an operation or after two stops: Compress writes it when the archive is
  verified and committed, Reheat and HardDelete take it away before they touch the archive. Whatever two stops
  left behind, repair leaves exactly the archives rows name, and (`NoLoss` again) never
  deletes one that was needed.
- `progress`: under a stop and a bad write the store implements `MemoryLifecycle`: a memory's row
  changes only at the age its threshold demands, measured at the step that changes it. And a
  project that is due gets to its next stage. A stopped Compress, a read-back that fails
  (which ends the pass) and a cap of one deletion only delay it. A row is destroyed only as a marked
  tombstone whose grace is over. As long as nothing was stopped, Compress, Reheat and HardDelete bring
  row and line back together, and the scan finds nothing, also after a bad write. The workload leaves
  out the re-push of an archived memory, which `repush_gate` shows to break the index; what one stop does to
  it is `stopped_gate`.
- `overlap_all`: with no assumption at all, the pinned memory stays recent, unmarked and
  readable, and the grace clock is never reset. All thresholds are 0 and MaxClock 2 so that
  the whole lifecycle fits into few ticks and the interleavings into the run. No scan runs:
  a repair that overlaps a push may delete its file (hazards).
- `overlap_reads`: two reminds of one memory interleave at every access, with a stop: the
  second may find its source gone and fail, but nothing is lost and no wrong archive is sent. A remind
  that takes a memory from the index to the rows while init reads first the one and then the other
  never hides it: init has its line, or its file. With the two reads in the other order it could be in
  neither, which is the property's mutant. A pass moves memories the other way, so one that runs
  during an init does hide what it compresses between the two reads (hazards).
  The two handlers are interchangeable and are declared symmetric; only safety is checked.

- `index_file`: three memories, three briefs (a plain one, one longer than the cap, one that
  contains a complete line about another memory), four writes, one of them cut short at any
  point: four are an insertion, a replacement, a removal and what follows a stop. The file
  always shows the list before a write or after it, no brief breaks its line or forges one for
  another memory, and `.bak` is the predecessor. 1.3 million states, under a minute.
- `clients`: two machines, of one agent or of two, with two projects and one, two staged
  folders, within the limits or not, pushed with either scope, and one fault. Two folders on
  one machine are what a refused one before an accepted one needs; the same folder twice is a
  newer version of it. One fault is enough for each kind: an answer to register or to a push
  lost before or after the server's step, a script killed at any step and tried again. 146 000
  states, two minutes, most of them for `Flushed`.

Every configuration of `MyWholeLife` checks for deadlock: time stops
at MaxClock, but a pass can always be started, so TLC accepts none; so does `clients`, where a session may always
begin. `index_file` and `tenancy` do not: writes and stagings are bounded, and nothing is left
to do after the last.

**Fairness** (`FairSpec`, used by `progress` only). *WF of every process's next access*: the
operating system runs a started process. *WF of Tick*: time passes. *SF of StartPass*: cron
starts a pass every night (`deploy/cron/mywholelife.cron`); strong, because in the serial
instance a request may keep the pass from starting again and again but not for ever. No
fairness is assumed of a request, of Stop or of a bad write, and a started pass may be
stopped. `Progress` says nothing of a file lost by other means than those modelled, which
would end each pass at the same memory.

`Clients` has fairness of its own, for `Flushed`. *WF of Continue and Serve*: a script that
runs and a request the server has got go on (a kill or a broken connection may still end
them; faults are bounded). *SF of StartInit and SessionEnd*: on each machine sessions begin and end again and
again: the agent runs init.sh because `SKILL.md` tells it to, and `session_end.sh` is the SessionEnd hook
that install.sh registers. An agent that never runs init.sh again is outside of `Flushed`; strong, because each needs that no other
script runs just then. No fairness of staging, of a global push or of faults. `Flushed` leaves
out a machine whose `agent.json` a kill left empty: init.sh never replaces it, and without this
exception TLC finds the property violated in nine steps (hazards).

## 5. Where the code and its documents disagree

Each is a run with expected result *violation*, and a finding with the quoted line.

1. `repush_mark`: `Put` keeps `deleted_at` on conflict. A marked memory that is pushed again
   and falls into disuse again is destroyed in the night it becomes a tombstone, without the
   documented grace window.
2. `repush_gate`: a push of an archived memory leaves its index line; each later pass fails
   its gate until the memory is archived again.
3. `stopped_gate`: a pass stopped between Compress's `UPDATE` and its index line is not safe to run
   again: a re-run lists recent rows only, so the archived memory never gets its line and each pass fails
   its gate until the memory is reminded or destroyed.
4. `remind_race`: HardDelete checks the row once and then deletes; a remind that commits in
   between is destroyed although the memory is recent.
5. `push_race`: a push that commits while Compress works on the same memory is overwritten by
   the archive of the older bytes and its file deleted, after the client had its 204.
6. `tenancy`: `mem_id` of a project is its name alone, and the primary key of all agents. When
   a second agent pushes a project of the same name, the row keeps the first agent's id and takes
   the second's file: one init lists nothing for a push that was answered 204, the other serves
   a stranger's memory.

1, 2, 3 and 6 need no overlap of operations, so they do not depend on how requests are scheduled.

A HardDelete stopped after it has removed the line also leaves a row without one, until a later pass destroys
it. `GatePasses` therefore holds in no setting in which anything can be stopped, and no passing run checks it.

## 6. Proofs

The proofs about `MyWholeLife` assume `MemAssumption` (finitely many natural-number mem_ids, the global one not a
project), `ConfigAssumption` (thresholds and cap are naturals), `ProcessAssumption` and
`BoundAssumption`, which TLC evaluates in every run. They bound nothing: the numbers of
memories, processes, ticks, pushes and faults are arbitrary, and `Exclusive` is any set.

- **`TypeCorrect`** (`MyWholeLife_proofs`): `Spec => []TypeOK`. Beyond types, `TypeOK` says that no
  access time, deletion mark or `Now` is later than the clock (an age that a pass computes against its own,
  older `Now` may still be negative, and then selects nothing). It is inductive as it stands. Lemmas about `With`, `Without`, `UpdateRow` and the paths give what each
  statement does to a well-typed table; then each action preserves the store's part, and each
  local record keeps its type.
- **`PinnedNeverAges`** (`PinnedMemory_proofs`): `Spec => []PinnedSafe` where no scan is in the
  workload. `PinnedSafe` is not inductive: Compress and HardDelete do not look at the pinned flag
  but act on a mem_id taken from a list some steps earlier. The strengthening `PinnedInv` follows
  mem_ids from the pass's lists to the files: no list of a pass contains the global memory, no
  operation of the cold tier is on it (except the touch of a recent row), every row and every
  row copy names a file of its own memory, and the global file is a tar archive once it exists.
  The assumption about the scan is needed, as section 4 says.

The next three modules build on one another, and each adds an invariant to the one before.

*Where the bytes are* (`NoLoss_proofs`, invariant `Kept`). `Guarded` names the settings: pushes,
passes and scans run alone, and reminds may overlap each other and init bundles as long as no verified
write goes wrong, or run alone as well. Stops are unlimited. That what writes runs alone is needed
(`push_race`); so is the restriction on bad writes, since with two reminds of one memory one could verify
the file before the other's bad write and commit the row after it.

- None of the three promises is inductive: they say nothing of what an operation in progress
  relies on. `Kept` adds that operations stay apart (`Separate`); that a recent row owns `x.tar`, any
  other row `x.tar.zst`, and the file a row owns holds at least the acknowledged version unless the
  row is condemned (`KeptMem`); and for each label what the operation has established: before its
  commit Compress holds the bytes of the `.tar` and has them compressed in the `.zst`; after it,
  the row is archived, so that deleting the source deletes what no row owns; Reheat the other way
  round; the lists of the pass contain only memories that still qualify, each once; the scan's
  orphans are files no row owns. The other file of a pair may hold anything: it is what a stopped
  operation has left, and every operation overwrites it before it relies on it.
- **`NoLossKept`**, **`RemindFreshKept`**, **`RepairCompleteKept`**: consequences of `Kept`.

*What a step does to a memory's age* (`Lifecycle_proofs`, invariant `Fresh`).

- **`GraceClockKept`**: `Spec => GraceClock`, with no assumption. Every step of the specification
  is at most one statement on the table (`OneStatement`), and each statement keeps the rule
  (`StatementGrace`) whatever the process believed of the row.
- **`DestroysCondemnedKept`**: `Spec => DestroysCondemned` under `Guarded`, by `Kept` and the same list of
  statements; `remind_race` is why the assumption is there.
- **`LifecycleKept`**: `Spec => Lifecycle`, the refinement of `MemoryLifecycle`, under `Gentle`: `Guarded`
  and no push of an archived memory. `Fresh` says that a recent row has no mark and that a mark is not older
  than the last use; `NextMoves` shows that a step leaves the table and lets time pass, or makes one of five moves on one memory (`StageMove`)
  at a time when it is due *now*, not only at `Now`; `NextMaps` maps the five to the steps of
  the abstract specification. `repush_mark` is why `Gentle` excludes the re-push.
- **`FreshMarkKept`**: `Spec => []FreshMark` under `Gentle`: with that push excluded, the finding of section
  5 cannot occur, so it has no other cause.

*Table, files and index agree* (`CleanStore_proofs`, invariant `Clean`). `Serial` names the settings: one operation at
a time, no push of an archived memory; bad writes are unlimited, and the two properties speak of a store on which
nothing was stopped. Each is false in the middle of an operation, so the invariant has to say by how much. For each
memory (`MemDue`): its line is there if and only if it is archived, except that the memory in hand has none yet
at `LineGone` or still has one at `LineLeft`; its `.tar` if and only if it is recent, or in hand at
`TarLeft`; its `.zst` if and only if it is archived, except in hand at `ZstLeft` and `ZstGone`. To this come what a reader of
the index has (`Reading`) and that a scan has found nothing (`Scanning`). The theorems are proved from
`Kept /\ Fresh /\ (stops = 0 => Clean)`, which holds with any number of stops.

- **`IndexVisibleKept`**, **`ScanCleanKept`**: consequences of it. `repush_gate` shows why the push is
  excluded, `stopped_gate` why the stop is.

The lemmas these share say once what a statement, a file operation or a line does to one memory and not to
others (`OneMemory`, `FilesUntouched`, `OthersStep`, `StoreAfter`), that the head of a list leaves it
(`NextAhead`).

The proofs about `Clients` assume `ClientsAssumption` (a finite set of projects; any machines,
names, uses and bounds).

- **`ClientsTypeCorrect`** (`Clients_proofs`): `Spec => []TypeOK`. `TypeOK` contains that a row
  leads to a file that is there, that a loop of `session_end.sh` holds each folder once and only
  folders still in the outbox (so `rm -rf` of one never takes another's turn), and that a lookup
  after a 409 finds the name. It is inductive.
- **`IdentityKept`**: `Spec => []IdentityAgrees`, with no assumption on names. `IdentityInv` adds
  the id a script has got from the server and not yet written; `agents` only grows, so what
  was the machine's id stays it.
- **`ApartOwned`**: `Spec => []Owned` where machines of different names use disjoint projects
  (`Apart`). `OwnedInv` says of every request and every row which machine it comes from: a push
  that finds the row of its project then has the same id, so the conflict clause changes
  nothing. `tenancy` shows that `Apart` is needed.
- **`DeliveredKept`**: `Spec => Delivered`, with no assumption on names or projects. `DeliveryInv` follows
  the folder of a waiting script: the request under way is for it and for the scope pushed (`OwnRequests`, `Asked`,
  `Waits`), the file written is its version (`Written`), and between the 204 and the removal the file
  leads to it still (`Stored`), unless another machine of the same agent has since put its own version
  there (`Holds`), which is the one way the promise may be overtaken; `OwnFolders` says who staged what.
- **`RoundTripKept`** (`RoundTrip_proofs`): `Spec => []RoundTrip` where any two machines use disjoint projects
  (`OneMachine`).
  `RoundTripInv` follows a version from the outbox over the wire to the file: who staged it and as which project
  (`OutboxOrigin`, `WireOrigin`, `FileOrigin`), and that it grows in the other direction
  (`OutboxNewer`, `WireNewer`, `FileNewer`), and that a folder of a project is staged only where it is used
  (`OwnProjects`), so neither a retry nor a late request puts an older version
  back. It needs that ids are distinct (`OneIdEach`), because a new id is the number of agents
  plus one.

About `IndexFile`, under `IndexAssumption`:

- **`BackedUpKept`** (`IndexFile_proofs`): `IndexSpec => BackedUp`. `BackUpInv` says what the write in
  progress still has to put: the copy and then the file, or the file when the copy already is
  what the file is; and that a temporary file about to be renamed is whole.
- **`ParseSerialize`**: parsing the text of a list gives the list back, for every list in `Canon`: any
  number of lines, one for a memory, hooks any sanitized and capped text. The argument needs to know what
  `FlattenSeq` and the split at a mark return for sequences of any length. No induction theorem of the
  library can be used here (they take an operator), so each induction is over a set of naturals that
  holds 0 and each successor (`EveryNat`, from the well-foundedness of `<`). `Joins` names what
  `FlattenSeq` has joined so far (`FlattenIs`); `Rising` says that a sequence lists a set of places in
  order, which determines it (`RisingUnique`), so `Only` and `Split` are described by the places
  they find (`OnlyIs`, `SplitIs`). A line holds two bars before its key and one break at its end, because
  a mem_id holds no mark and a hook lost its own (`HookPlain`, `LineParsed`, `LineBreaks`); so the breaks of the
  text are the ends of the lines and no others (`TextBreaks`, `TextSplit`), and no line is dropped as a duplicate
  (`ParseSplit`).
- **`WellFormedKept`**: `IndexSpec => []WellFormed`, and **`IndexAtomicKept`**: `IndexSpec => IndexAtomic`, the
  refinement of `IndexLines`. Neither invariant is inductive alone. `IndexInv` adds to `BackUpInv` that
  the file's text is in `Texts` (empty, or the text of a list in `Canon`), that the text a write
  in progress will put is in `Texts` too, and that its list is one `Moved` step from the list the file
  holds now (`Upserted`, `LineRemoved`): one line added, replaced or dropped, or none. Every step but the last rename
  leaves file and list alone (`FileStays`), and that rename is the step of `IndexLines` that `Moved` names
  (`MovedShown`). Before the proof, TLC checked `IndexInv` on the instance of `index_file` with three writes.
- **`UpsertIdempotent`**: upserting the same line twice gives the same text as once, for every text in
  `Texts`, which is what the comment on `upsertIndexLine` says.

`IndexAssumption` says that the bounds are numbers, that a brief is a sequence of tokens, and that no mem_id
is a bar or a break, which `validKey` ensures (`-` is a valid key, and is allowed here).

Only model-checked: `Progress` and `Flushed`, since liveness under fairness is out of the prover's
reach, and `LinesLead` and `InitComplete`. The runs check `Kept`, `Fresh` and `Clean` only through what follows from
them; they were explored with TLC on serial instances before they were proved.

## 7. Not modelled

- *remind.sh and the installer*: one unpacks one answer, the other copies files once.
- *A folder's content below its version*: a removal killed half-way, a folder staged while it is
  being sent, which of two scopes a folder was meant for.
- *Loss of the agents table*: no operation of the program deletes an agent.
- *Two agents and the aging of memories together*: `Clients` has the agents, `MyWholeLife` the
  aging. Rows of different agents meet only through the primary key, which `tenancy` is about.
- *Tar validation*: `Clients` takes the limits as a number of entries and refuses what exceeds
  it; names of entries and the brief are text processing without state.
- *Key syntax, authentication, configuration, hook generation, start-up*: pure functions or
  I/O; a refused request changes nothing, a threshold is a constant, and whatever an LLM answers is some
  text (`IndexFile` takes any).
- *Two writers of one path*: they share the temporary name. `IndexFile` has one writer; the
  other modules write a file in one step.
- *Power loss*: a stop keeps what was written. `PutFolder` never calls fsync, so more may go.
- *An error that keeps the program running with changed state*: any error ends the operation
  (`Stop`), as in the code, where each error of the store, the files or the index is returned at once. Two are
  different: a failed hook is logged and passed over, and an error of init is answered with part of
  the bundle, which is modelled (section 3).
- *Restart of the server*: it holds no state besides the requests in progress, so a crash is a
  stop of each.

To check a run: `tlc -config <run>.cfg <module>`; to check the proofs: `tlapm <module>_proofs.tla`.
