------------------------------ MODULE Clients -------------------------------
(***************************************************************************)
(* The machines that use the server: init.sh, push.sh and session_end.sh   *)
(* of client/mywholelife/scripts, the files they keep in ~/.mywholelife,   *)
(* and the requests they make (register, lookup, memory, init).  What may  *)
(* go wrong between the two sides: an answer is lost, a script is killed,  *)
(* a request is refused, a machine tries again.                            *)
(*                                                                         *)
(* Abstractions.  Names are those the scripts and validKey let through.  A *)
(* folder is the version staged in it and its number of tar entries, which *)
(* stands for the limits of an upload.  Memories are in use, so all are    *)
(* recent; MyWholeLife models their aging, and one request interleaved     *)
(* with others access by access.  Here a push is two steps on the server,  *)
(* a register, a lookup and an init one.                                   *)
(*                                                                         *)
(* Operating assumptions.  A machine runs one script at a time, a folder   *)
(* is staged while none runs there, and a request whose client has gone is *)
(* over before that machine sends the next; PROJECT.json lists what breaks *)
(* otherwise.                                                              *)
(***************************************************************************)
EXTENDS PartialMaps, Integers, Sequences, FiniteSets

CONSTANTS
  Machines,
  Namings,       \* ways to name the machines; two may register one name
  Projects,      \* names of outbox folders, in the order of the shell's glob
  Uses,          \* machine -> the projects worked on there
  Curators,      \* machines from which a global memory is pushed
  MaxEntries,    \* maxTarEntries
  MaxStaged,     \* bounds: folders staged,
  MaxFaults      \*   answers lost and scripts killed

ASSUME ClientsAssumption ==
  /\ \A naming \in Namings : DOMAIN naming = Machines
  /\ Projects \subseteq Nat \ {0} /\ IsFiniteSet(Projects)
  /\ Uses \in [Machines -> SUBSET Projects]
  /\ Curators \subseteq Machines
  /\ {MaxEntries, MaxStaged, MaxFaults} \subseteq Nat

VARIABLES
  agents,        \* the agents table: name -> id
  memories,      \* the memories table: mem_id -> agent and rel_path
  files,         \* the data root: <<agent id, item>> -> version
  wire,          \* the request a machine has at the server's memory route
  nameOf,        \* machine -> the name it registers, chosen once
  json,          \* machine -> the id in its agent.json
  outbox,        \* machine -> folders staged: project -> version and entries
  script,        \* machine -> the script that runs there
  staged,        \* history: which machine and name staged version i, as which project
  acked,         \* history: <<agent id, item>> -> version answered with 204
  faults         \* history: answers lost and scripts killed

server == <<agents, memories, files>>
clientsVars == <<agents, memories, files, wire, nameOf, json, outbox, script, staged, acked, faults>>

(***************************************************************************)
(* The server.  An item is a project or Global; its file is <<id, item>>.  *)
(***************************************************************************)
Global == 0
Item(p, scope) == IF scope = "global" THEN Global ELSE p
\* Mutant of MemId: one global memory for all agents, as before fix W1.
MemId_Shared(id, item) == IF item = Global THEN <<"global", 0>> ELSE <<"project", item>>
MemId(id, item) == IF item = Global THEN <<"global", id>> ELSE <<"project", item>>

Registered(id) == \E name \in DOMAIN agents : agents[name] = id
NewId == Cardinality(DOMAIN agents) + 1

Accepts(folder) == folder.entries <= MaxEntries

\* ON CONFLICT(mem_id) keeps agent_id and takes the new rel_path.
PutMemory(id, item) ==
  LET m == MemId(id, item)
  IN  With(memories, m,
           [agent |-> IF m \in DOMAIN memories THEN memories[m].agent ELSE id,
            rel |-> <<id, item>>])

\* Mutant of Listed: no WHERE agent_id.
Listed_All(id) == {m \in DOMAIN memories : m[1] = "project" /\ memories[m].rel \in DOMAIN files}
Listed(id) ==
  {m \in DOMAIN memories :
     m[1] = "project" /\ memories[m].agent = id /\ memories[m].rel \in DOMAIN files}

\* WriteInitZip: global.tar by its path, the projects by the rows of the agent.
Bundle(id) ==
  LET globals == {Global} \intersect {f[2] : f \in {g \in DOMAIN files : g[1] = id}}
  IN  [item \in globals \union {m[2] : m \in Listed(id)} |->
         files[IF item = Global THEN <<id, Global>> ELSE memories[MemId(id, item)].rel]]

(***************************************************************************)
(* A machine.  Absent and Torn (truncated, not yet written) are the states *)
(* of agent.json without an id.                                            *)
(***************************************************************************)
Absent == -1
Torn == -2
InitAt(pc, id) == [pc |-> pc, id |-> id, todo |-> <<>>, scope |-> "project"]
Pushing(todo, scope) == [pc |-> "push", id |-> Absent, todo |-> todo, scope |-> scope]
Off == InitAt("off", Absent)
NoRequest == [pc |-> "none", id |-> Absent, item |-> Global, folder |-> [ver |-> 0, entries |-> 0]]

At(c, label) == script[c].pc = label
Run(c, local) == script' = [script EXCEPT ![c] = local]

\* A synchronous request: its answer arrives, or the script ends without it.
Answered(c, local) ==
  \/ Run(c, local) /\ UNCHANGED faults
  \/ faults < MaxFaults /\ faults' = faults + 1 /\ Run(c, Off)

\* init.sh: an agent.json without an id ends it at once.
StartInit(c) ==
  /\ script[c] = Off
  /\ json[c] # Torn
  /\ Run(c, IF json[c] = Absent THEN InitAt("register", Absent) ELSE InitAt("fetch", json[c]))
  /\ UNCHANGED <<server, wire, nameOf, json, outbox, staged, acked, faults>>

\* Mutant of Register: a name taken gets a new id.
Register_Overwrites(c) ==
  /\ At(c, "register")
  /\ agents' = With(agents, nameOf[c], NewId)
  /\ Answered(c, InitAt("create", NewId))
  /\ UNCHANGED <<memories, files, wire, json, outbox, staged, acked, nameOf>>
Register(c) ==
  /\ At(c, "register")
  /\ IF nameOf[c] \in DOMAIN agents
     THEN /\ Answered(c, InitAt("lookup", Absent))
          /\ UNCHANGED agents
     ELSE /\ agents' = With(agents, nameOf[c], NewId)
          /\ Answered(c, InitAt("create", NewId))
  /\ UNCHANGED <<memories, files, wire, json, outbox, staged, acked, nameOf>>

Lookup(c) ==
  /\ At(c, "lookup")
  /\ Answered(c, InitAt("create", agents[nameOf[c]]))
  /\ UNCHANGED <<server, wire, json, outbox, staged, acked, nameOf>>

\* printf > agent.json: the shell truncates the file, then printf writes it.
CreateJson(c) ==
  /\ At(c, "create")
  /\ json' = [json EXCEPT ![c] = Torn]
  /\ Run(c, InitAt("write", script[c].id))
  /\ UNCHANGED <<server, wire, outbox, staged, acked, faults, nameOf>>
WriteJson(c) ==
  /\ At(c, "write")
  /\ json' = [json EXCEPT ![c] = script[c].id]
  /\ Run(c, InitAt("fetch", script[c].id))
  /\ UNCHANGED <<server, wire, outbox, staged, acked, faults, nameOf>>

\* The bundle is unpacked outside ~/.mywholelife/outbox; RoundTrip says what is in it.
Fetch(c) ==
  /\ At(c, "fetch")
  /\ Run(c, Off)
  /\ UNCHANGED <<server, wire, nameOf, json, outbox, staged, acked, faults>>

\* The agent writes a folder to the outbox; an older version in it is replaced.
Stage(c) ==
  /\ script[c] = Off
  /\ Len(staged) < MaxStaged
  /\ \E p \in Uses[c], n \in 1..MaxEntries + 1 :
       /\ staged' = Append(staged, [machine |-> c, name |-> nameOf[c], project |-> p])
       /\ outbox' = [outbox EXCEPT ![c] = With(@, p, [ver |-> Len(staged'), entries |-> n])]
  /\ UNCHANGED <<server, wire, json, script, acked, faults, nameOf>>

(***************************************************************************)
(* session_end.sh calls push.sh for each folder; a user may call it for    *)
(* one with scope global.                                                  *)
(***************************************************************************)
\* The order in which the shell expands a pattern: one sequence, for names are distinct.
Ascending(S) ==
  {s \in [1..Cardinality(S) -> S] : \A i, j \in DOMAIN s : i < j => s[i] < s[j]}

\* Mutant of Glob: every project, staged or not.
Glob_All(c) == Uses[c]
Glob(c) == DOMAIN outbox[c]
SessionEnd(c) ==
  /\ script[c] = Off
  /\ Glob(c) # {}
  /\ \E todo \in Ascending(Glob(c)) : Run(c, Pushing(todo, "project"))
  /\ UNCHANGED <<server, wire, nameOf, json, outbox, staged, acked, faults>>

PushGlobal(c) ==
  /\ script[c] = Off
  /\ c \in Curators
  /\ \E p \in DOMAIN outbox[c] : Run(c, Pushing(<<p>>, "global"))
  /\ UNCHANGED <<server, wire, nameOf, json, outbox, staged, acked, faults>>

\* The loop goes on with the next folder.
Advance(local) == IF Len(local.todo) = 1 THEN Off ELSE Pushing(Tail(local.todo), local.scope)
\* Mutant of Failed: the first failure ends session_end (set -e).
Failed_Ends(local) == Off
Failed(local) == Advance(local)

HasId(c) == json[c] \notin {Absent, Torn}
Send(c) ==
  /\ At(c, "push")
  /\ wire[c] = NoRequest
  /\ LET p == Head(script[c].todo)
     IN  IF HasId(c)
         THEN /\ wire' = [wire EXCEPT ![c] = [pc |-> "body", id |-> json[c],
                            item |-> Item(p, script[c].scope), folder |-> outbox[c][p]]]
              /\ Run(c, [script[c] EXCEPT !.pc = "wait"])
         ELSE Run(c, Failed(script[c])) /\ UNCHANGED wire
  /\ UNCHANGED <<server, json, outbox, staged, acked, faults, nameOf>>

\* writeMemory up to PutFolder; a refusal is an answer that makes curl -f fail.
\* Mutant of Refused: curl without -f takes any answer for a success.
Refused_IsSuccess(local) == [local EXCEPT !.pc = "clear"]
Refused(local) == Failed(local)
ServeBody(c) ==
  /\ wire[c].pc = "body"
  /\ IF Registered(wire[c].id) /\ Accepts(wire[c].folder)
     THEN /\ files' = With(files, <<wire[c].id, wire[c].item>>, wire[c].folder.ver)
          /\ wire' = [wire EXCEPT ![c].pc = "row"]
          /\ UNCHANGED script
     ELSE /\ wire' = [wire EXCEPT ![c] = NoRequest]
          /\ IF At(c, "wait") THEN Run(c, Refused(script[c])) ELSE UNCHANGED script
          /\ UNCHANGED files
  /\ UNCHANGED <<agents, memories, json, outbox, staged, acked, faults, nameOf>>

\* Put, and the 204 if the client still waits for it.
ServeRow(c) ==
  /\ wire[c].pc = "row"
  /\ memories' = PutMemory(wire[c].id, wire[c].item)
  /\ wire' = [wire EXCEPT ![c] = NoRequest]
  /\ IF At(c, "wait")
     THEN /\ Run(c, [script[c] EXCEPT !.pc = "clear"])
          /\ acked' = With(acked, <<wire[c].id, wire[c].item>>, wire[c].folder.ver)
     ELSE UNCHANGED <<script, acked>>
  /\ UNCHANGED <<agents, files, json, outbox, staged, faults, nameOf>>

\* The connection breaks: curl fails; the server has the request, or never gets it.
Disconnect(c) ==
  /\ At(c, "wait")
  /\ faults < MaxFaults
  /\ faults' = faults + 1
  /\ \/ UNCHANGED wire
     \/ wire[c].pc = "body" /\ wire' = [wire EXCEPT ![c] = NoRequest]
  /\ Run(c, Failed(script[c]))
  /\ UNCHANGED <<server, json, outbox, staged, acked, nameOf>>

Clear(c) ==
  /\ At(c, "clear")
  /\ outbox' = [outbox EXCEPT ![c] = Without(@, Head(script[c].todo))]
  /\ Run(c, Advance(script[c]))
  /\ UNCHANGED <<server, wire, json, staged, acked, faults, nameOf>>

\* The script is killed; a request it has sent goes on.
Stop(c) ==
  /\ script[c] # Off
  /\ faults < MaxFaults
  /\ faults' = faults + 1
  /\ Run(c, Off)
  /\ UNCHANGED <<server, wire, json, outbox, staged, acked, nameOf>>

Init ==
  /\ agents = <<>> /\ memories = <<>> /\ files = <<>>
  /\ wire = [c \in Machines |-> NoRequest]
  /\ nameOf \in Namings
  /\ json = [c \in Machines |-> Absent]
  /\ outbox = [c \in Machines |-> <<>>]
  /\ script = [c \in Machines |-> Off]
  /\ staged = <<>> /\ acked = <<>> /\ faults = 0

Continue(c) ==
  \/ Register(c) \/ Lookup(c) \/ CreateJson(c) \/ WriteJson(c) \/ Fetch(c)
  \/ Send(c) \/ Clear(c)
Serve(c) == ServeBody(c) \/ ServeRow(c)
Next ==
  \E c \in Machines :
    \/ StartInit(c) \/ Stage(c) \/ SessionEnd(c) \/ PushGlobal(c)
    \/ Continue(c) \/ Serve(c)
    \/ Disconnect(c) \/ Stop(c)

Spec == Init /\ [][Next]_clientsVars

(***************************************************************************)
(* A script runs on, and the server goes on with a request it has.  On     *)
(* each machine sessions begin, when the skill has the agent run init.sh   *)
(* (SKILL.md), and end, when the SessionEnd hook runs session_end.sh,      *)
(* again and again: strong fairness, since another script may run first.   *)
(***************************************************************************)
Fairness ==
  \A c \in Machines :
    /\ WF_clientsVars(Continue(c))
    /\ WF_clientsVars(Serve(c))
    /\ SF_clientsVars(StartInit(c))
    /\ SF_clientsVars(SessionEnd(c))
FairSpec == Spec /\ Fairness

(***************************************************************************)
(* Properties.                                                             *)
(***************************************************************************)
Items == Projects \union {Global}
Versions == 1..Len(staged)
Ids == Nat \ {0}
Folders == [ver : Versions, entries : Nat]
Scripts ==
  [pc : {"off", "register", "lookup", "create", "write", "fetch", "push", "wait", "clear"},
   id : Ids \union {Absent}, todo : Seq(Projects), scope : {"project", "global"}]
Requests == [pc : {"body", "row"}, id : Ids, item : Items, folder : Folders]

ServerOK ==
  /\ IsFiniteSet(DOMAIN agents) /\ \A name \in DOMAIN agents : agents[name] \in Ids
  /\ DOMAIN files \subseteq Ids \X Items /\ \A f \in DOMAIN files : files[f] \in Versions
  /\ DOMAIN acked \subseteq DOMAIN files /\ \A f \in DOMAIN acked : acked[f] \in Versions
  /\ \A m \in DOMAIN memories : memories[m] \in [agent : Ids, rel : DOMAIN files]
\* A request, and the row step it has left only when its file is there.
WiresOK ==
  /\ wire \in [Machines -> Requests \union {NoRequest}]
  /\ \A c \in Machines : wire[c].pc = "row" => <<wire[c].id, wire[c].item>> \in DOMAIN files
OutboxesOK ==
  /\ DOMAIN outbox = Machines
  /\ \A c \in Machines :
       /\ DOMAIN outbox[c] \subseteq Uses[c]
       /\ \A p \in DOMAIN outbox[c] : outbox[c][p] \in Folders
ScriptOK(local, box) ==
  /\ local \in Scripts
  /\ \A i \in DOMAIN local.todo : local.todo[i] \in DOMAIN box
  /\ \A i, j \in DOMAIN local.todo : i < j => local.todo[i] < local.todo[j]
  /\ local.pc \in {"push", "wait", "clear"} => local.todo # <<>>
  /\ local.pc \in {"create", "write"} => local.id \in Ids
ScriptsOK ==
  /\ DOMAIN script = Machines
  /\ \A c \in Machines : ScriptOK(script[c], outbox[c])
  /\ \A c \in Machines : At(c, "lookup") => nameOf[c] \in DOMAIN agents
HistoryOK ==
  /\ staged \in Seq([machine : Machines, name : {nameOf[c] : c \in Machines}, project : Projects])
  /\ Len(staged) <= MaxStaged
  /\ faults \in 0..MaxFaults

\* Types; the table memories refers to files that are there, and push.sh is only called for
\* folders that are there.
TypeOK ==
  /\ ServerOK
  /\ WiresOK
  /\ nameOf \in Namings
  /\ json \in [Machines -> Ids \union {Absent, Torn}]
  /\ OutboxesOK
  /\ ScriptsOK
  /\ HistoryOK

Owns(c, id) == nameOf[c] \in DOMAIN agents /\ agents[nameOf[c]] = id

\* Whatever answers are lost and however often init.sh is tried, an agent.json names the id
\* the server has for the machine's name: machines of one name share one agent, and a lost
\* answer to register does not leave a second one (ADR-0001).
IdentityAgrees == \A c \in Machines : HasId(c) => Owns(c, json[c])

\* push.sh removes a folder only when the server has stored it in the scope it was pushed
\* with, file and row, in this version; unless another machine of the agent, which may push
\* the same memory, has replaced the file since.
Delivered ==
  [][\A c \in Machines : \A p \in DOMAIN outbox[c] \ DOMAIN outbox'[c] :
       LET f == <<json[c], Item(p, script[c].scope)>>
       IN  /\ f \in DOMAIN files
           /\ files[f] = outbox[c][p].ver \/ staged[files[f]].machine # c
           /\ MemId(f[1], f[2]) \in DOMAIN memories]_clientsVars

\* A memory answered with 204 has a row of the agent that pushed it, with its own file:
\* no other agent's push takes it away (fix W1).
Owned ==
  \A f \in DOMAIN acked :
    LET m == MemId(f[1], f[2])
    IN  m \in DOMAIN memories /\ memories[m].agent = f[1] /\ memories[m].rel = f

\* Several machines of an agent may push its global memory, and the last write wins.
NotOlder(item, ver, than) == item # Global => ver >= than

\* The bundle init.sh gets has every memory its agent's machines were told is stored, in that
\* version or a newer one, and nothing another agent staged (INIT-01, INIT-02).
RoundTrip ==
  \A c \in Machines :
    HasId(c) =>
      LET got == Bundle(json[c])
      IN  /\ \A f \in DOMAIN acked :
               f[1] = json[c] => f[2] \in DOMAIN got /\ NotOlder(f[2], got[f[2]], acked[f])
          /\ \A item \in DOMAIN got :
               /\ staged[got[item]].name = nameOf[c]
               /\ item \in {staged[got[item]].project, Global}

\* What is staged and within the limits leaves the outbox, though a folder before it may be
\* refused for ever and answers get lost; unless a kill left agent.json empty (hazards).
Flushed ==
  \A c \in Machines, p \in Projects :
    (p \in DOMAIN outbox[c] /\ Accepts(outbox[c][p])) ~>
      \/ p \notin DOMAIN outbox[c] \/ ~Accepts(outbox[c][p])
      \/ json[c] = Torn
=============================================================================
