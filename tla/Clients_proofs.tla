--------------------------- MODULE Clients_proofs ---------------------------
EXTENDS Clients, TLAPS, FiniteSetTheorems, SequenceTheorems

(***************************************************************************)
(* What an action leaves alone keeps its type.                             *)
(***************************************************************************)
LEMMA ServerFrame ==
  ASSUME ServerOK, UNCHANGED <<server, acked, staged>>
  PROVE  ServerOK'
BY DEF ServerOK, server, Versions

LEMMA WiresFrame ==
  ASSUME WiresOK, UNCHANGED <<wire, files, staged>>
  PROVE  WiresOK'
BY DEF WiresOK, Requests, Folders, Versions

LEMMA OutboxesFrame ==
  ASSUME OutboxesOK, UNCHANGED <<outbox, staged>>
  PROVE  OutboxesOK'
BY DEF OutboxesOK, Folders, Versions

LEMMA ScriptsFrame ==
  ASSUME ScriptsOK, UNCHANGED <<script, outbox, nameOf, agents>>
  PROVE  ScriptsOK'
BY DEF ScriptsOK, At

LEMMA HistoryFrame ==
  ASSUME HistoryOK, nameOf' = nameOf, staged' = staged, faults' \in 0..MaxFaults
  PROVE  HistoryOK'
BY DEF HistoryOK

(***************************************************************************)
(* A machine's next script state.                                          *)
(***************************************************************************)
LEMMA RunKeeps ==
  ASSUME ScriptsOK, NEW c \in Machines, NEW local, Run(c, local),
         UNCHANGED <<outbox, nameOf>>, DOMAIN agents \subseteq DOMAIN agents',
         ScriptOK(local, outbox[c]), local.pc = "lookup" => nameOf[c] \in DOMAIN agents
  PROVE  ScriptsOK'
BY DEF ScriptsOK, Run, At

LEMMA InitAtOK ==
  ASSUME NEW box, NEW pc \in {"off", "register", "lookup", "create", "write", "fetch"},
         NEW id \in Ids \union {Absent}, pc \in {"create", "write"} => id \in Ids
  PROVE  ScriptOK(InitAt(pc, id), box) /\ InitAt(pc, id).pc = pc
BY DEF ScriptOK, InitAt, Scripts

LEMMA OffOK == ASSUME NEW box PROVE ScriptOK(Off, box) /\ Off.pc = "off"
BY InitAtOK DEF Off

LEMMA TailFacts ==
  ASSUME NEW S, NEW s \in Seq(S), s # <<>>, Len(s) # 1
  PROVE  /\ Tail(s) \in Seq(S) /\ Tail(s) # <<>>
         /\ \A i \in DOMAIN Tail(s) :
              i \in Nat /\ 1 < i + 1 /\ i + 1 \in DOMAIN s /\ Tail(s)[i] = s[i + 1]
<1>1. Len(s) \in Nat /\ Len(s) > 1
  BY EmptySeq
<1>2. Len(Tail(s)) = Len(s) - 1 /\ Tail(s) \in Seq(S)
  BY <1>1
<1>3. Tail(s) # <<>>
  BY <1>1, <1>2
<1>4. \A i \in DOMAIN Tail(s) : i \in 1..(Len(s) - 1) /\ Tail(s)[i] = s[i + 1]
  BY <1>1, <1>2
<1> QED
  BY <1>1, <1>2, <1>3, <1>4

LEMMA AdvanceOK ==
  ASSUME NEW local, NEW box, NEW rest, ScriptOK(local, box), local.todo # <<>>,
         rest = box \/ rest = Without(box, Head(local.todo))
  PROVE  ScriptOK(Advance(local), rest) /\ Advance(local).pc \in {"off", "push"}
<1>1. CASE Len(local.todo) = 1
  BY <1>1, OffOK DEF Advance
<1>2. CASE Len(local.todo) # 1
  <2> DEFINE tail == Tail(local.todo)
  <2>1. /\ local.todo \in Seq(Projects) /\ local.scope \in {"project", "global"}
        /\ \A i \in DOMAIN local.todo : local.todo[i] \in DOMAIN box
        /\ \A i, j \in DOMAIN local.todo : i < j => local.todo[i] < local.todo[j]
    BY DEF ScriptOK, Scripts
  <2>2. /\ tail \in Seq(Projects) /\ tail # <<>>
        /\ \A i \in DOMAIN tail :
             i \in Nat /\ 1 < i + 1 /\ i + 1 \in DOMAIN local.todo /\ tail[i] = local.todo[i + 1]
    BY <1>2, <2>1, TailFacts
  <2>3. 1 \in DOMAIN local.todo /\ Head(local.todo) = local.todo[1]
    BY <2>1
  <2>4. \A i \in DOMAIN local.todo : local.todo[i] \in Projects
    BY <2>1
  <2>5. \A i \in DOMAIN tail : local.todo[1] < tail[i]
    BY <2>1, <2>2, <2>3
  <2>6. local.todo[1] \in Int /\ \A i \in DOMAIN tail : tail[i] \in Int
    <3>1. \A i \in DOMAIN local.todo : local.todo[i] \in Nat
      BY <2>4, ClientsAssumption DEF ClientsAssumption
    <3> QED
      BY <2>2, <2>3, <3>1
  <2>7. \A i \in DOMAIN tail : tail[i] \in DOMAIN rest
    BY <2>1, <2>2, <2>3, <2>5, <2>6 DEF Without
  <2>8. \A i, j \in DOMAIN tail : i < j => tail[i] < tail[j]
    BY <2>1, <2>2
  <2>9. Advance(local) = Pushing(tail, local.scope)
    BY <1>2 DEF Advance
  <2> HIDE DEF tail
  <2> QED
    BY <2>1, <2>2, <2>7, <2>8, <2>9 DEF ScriptOK, Scripts, Pushing
<1> QED
  BY <1>1, <1>2

LEMMA AnsweredKeeps ==
  ASSUME ScriptsOK, HistoryOK, NEW c \in Machines, NEW local, Answered(c, local),
         UNCHANGED <<outbox, nameOf, staged>>, DOMAIN agents \subseteq DOMAIN agents',
         ScriptOK(local, outbox[c]), local.pc = "lookup" => nameOf[c] \in DOMAIN agents
  PROVE  ScriptsOK' /\ HistoryOK'
<1>1. faults' \in 0..MaxFaults
  BY ClientsAssumption DEF Answered, HistoryOK, ClientsAssumption
<1>2. ScriptsOK'
  BY RunKeeps, OffOK DEF Answered
<1> QED
  BY <1>1, <1>2, HistoryFrame

LEMMA NewAgent ==
  ASSUME ServerOK, NEW name, name \notin DOMAIN agents, agents' = With(agents, name, NewId),
         UNCHANGED <<memories, files, acked, staged>>
  PROVE  ServerOK' /\ NewId \in Ids /\ DOMAIN agents \subseteq DOMAIN agents'
<1>1. NewId \in Ids
  BY FS_CardinalityType DEF ServerOK, NewId, Ids
<1>2. DOMAIN agents' = DOMAIN agents \union {name}
  BY DEF With
<1>3. IsFiniteSet(DOMAIN agents \union {name})
  BY FS_AddElement DEF ServerOK
<1>4. \A k \in DOMAIN agents' : agents'[k] \in Ids
  BY <1>1 DEF With, ServerOK
<1> QED
  BY <1>1, <1>2, <1>3, <1>4 DEF ServerOK, Versions

(***************************************************************************)
(* init.sh.                                                                *)
(***************************************************************************)
LEMMA StartInitType ==
  ASSUME TypeOK, NEW c \in Machines, StartInit(c)
  PROVE  TypeOK'
<1>1. json[c] \in Ids \union {Absent}
  BY DEF TypeOK, StartInit
<1>2. ScriptsOK'
  BY <1>1, InitAtOK, RunKeeps DEF TypeOK, StartInit, server
<1>3. faults' \in 0..MaxFaults
  BY DEF TypeOK, StartInit, HistoryOK
<1> QED
  BY <1>2, <1>3, ServerFrame, WiresFrame, OutboxesFrame, HistoryFrame DEF TypeOK, StartInit, server

LEMMA RegisterType ==
  ASSUME TypeOK, NEW c \in Machines, Register(c)
  PROVE  TypeOK'
<1>1. CASE nameOf[c] \in DOMAIN agents
  <2>1. ScriptOK(InitAt("lookup", Absent), outbox[c])
    BY InitAtOK
  <2>2. ScriptsOK' /\ HistoryOK'
    BY <1>1, <2>1, AnsweredKeeps DEF TypeOK, Register
  <2> QED
    BY <1>1, <2>2, ServerFrame, WiresFrame, OutboxesFrame DEF TypeOK, Register, server
<1>2. CASE nameOf[c] \notin DOMAIN agents
  <2>1. ServerOK' /\ NewId \in Ids /\ DOMAIN agents \subseteq DOMAIN agents'
    BY <1>2, NewAgent DEF TypeOK, Register
  <2>2. ScriptOK(InitAt("create", NewId), outbox[c]) /\ InitAt("create", NewId).pc = "create"
    BY <2>1, InitAtOK
  <2>3. ScriptsOK' /\ HistoryOK'
    BY <1>2, <2>1, <2>2, AnsweredKeeps DEF TypeOK, Register
  <2> QED
    BY <2>1, <2>3, WiresFrame, OutboxesFrame DEF TypeOK, Register
<1> QED
  BY <1>1, <1>2

LEMMA LookupType ==
  ASSUME TypeOK, NEW c \in Machines, Lookup(c)
  PROVE  TypeOK'
<1>1. agents[nameOf[c]] \in Ids
  BY DEF TypeOK, ServerOK, ScriptsOK, Lookup
<1>2. /\ ScriptOK(InitAt("create", agents[nameOf[c]]), outbox[c])
      /\ InitAt("create", agents[nameOf[c]]).pc = "create"
  BY <1>1, InitAtOK
<1>3. ScriptsOK' /\ HistoryOK'
  BY <1>2, AnsweredKeeps DEF TypeOK, Lookup, server
<1> QED
  BY <1>3, ServerFrame, WiresFrame, OutboxesFrame DEF TypeOK, Lookup, server

LEMMA JsonType ==
  ASSUME TypeOK, NEW c \in Machines, CreateJson(c) \/ WriteJson(c)
  PROVE  TypeOK'
<1>1. script[c].id \in Ids
  BY DEF TypeOK, ScriptsOK, ScriptOK, CreateJson, WriteJson, At
<1>2. json' \in [Machines -> Ids \union {Absent, Torn}]
  BY <1>1 DEF TypeOK, CreateJson, WriteJson
<1>3. ScriptsOK'
  BY <1>1, InitAtOK, RunKeeps DEF TypeOK, CreateJson, WriteJson, server
<1>4. faults' \in 0..MaxFaults
  BY DEF TypeOK, CreateJson, WriteJson, HistoryOK
<1> QED
  BY <1>2, <1>3, <1>4, ServerFrame, WiresFrame, OutboxesFrame, HistoryFrame
  DEF TypeOK, CreateJson, WriteJson, server

LEMMA ScriptEnds ==
  ASSUME TypeOK, NEW c \in Machines, Fetch(c) \/ Stop(c)
  PROVE  TypeOK'
<1>1. ScriptsOK'
  BY OffOK, RunKeeps DEF TypeOK, Fetch, Stop, server
<1>2. faults' \in 0..MaxFaults
  BY ClientsAssumption DEF TypeOK, Fetch, Stop, HistoryOK, ClientsAssumption
<1> QED
  BY <1>1, <1>2, ServerFrame, WiresFrame, OutboxesFrame, HistoryFrame DEF TypeOK, Fetch, Stop, server

(***************************************************************************)
(* push.sh and session_end.sh.                                             *)
(***************************************************************************)
LEMMA StageType ==
  ASSUME TypeOK, NEW c \in Machines, Stage(c)
  PROVE  TypeOK'
<1> DEFINE by == [machine : Machines, name : {nameOf[d] : d \in Machines}, project : Projects]
           entry(p) == [machine |-> c, name |-> nameOf[c], project |-> p]
<1>1. PICK p \in Uses[c], n \in 1..MaxEntries + 1 :
        /\ staged' = Append(staged, entry(p))
        /\ outbox' = [outbox EXCEPT ![c] = With(@, p, [ver |-> Len(staged'), entries |-> n])]
  BY DEF Stage
<1>2. p \in Projects /\ n \in Nat /\ MaxStaged \in Nat
  BY ClientsAssumption DEF ClientsAssumption
<1>3. staged \in Seq(by) /\ entry(p) \in by
  BY <1>2 DEF TypeOK, HistoryOK
<1>4. staged' \in Seq(by) /\ Len(staged') = Len(staged) + 1 /\ Len(staged) \in Nat
  BY <1>1, <1>3
<1>5. Versions \subseteq Versions' /\ Len(staged') \in Versions'
  BY <1>4 DEF Versions
<1>6. HistoryOK'
  <2>1. Len(staged') <= MaxStaged
    BY <1>2, <1>4 DEF Stage
  <2>2. nameOf' = nameOf /\ faults' = faults
    BY DEF Stage
  <2> QED
    BY <1>4, <2>1, <2>2 DEF HistoryOK, TypeOK
<1>7. ServerOK'
  BY <1>5 DEF TypeOK, ServerOK, Stage, server
<1>8. WiresOK'
  <2>1. Requests \subseteq Requests'
    BY <1>5 DEF Requests, Folders
  <2> QED
    BY <2>1 DEF TypeOK, WiresOK, Stage, server
<1>9. OutboxesOK'
  <2>1. Folders \subseteq Folders' /\ [ver |-> Len(staged'), entries |-> n] \in Folders'
    BY <1>2, <1>5 DEF Folders
  <2>2. DOMAIN outbox = Machines /\ DOMAIN outbox' = Machines
    BY <1>1 DEF TypeOK, OutboxesOK
  <2>3. \A d \in Machines : d # c => outbox'[d] = outbox[d]
    BY <1>1, <2>2
  <2>4. outbox'[c] = With(outbox[c], p, [ver |-> Len(staged'), entries |-> n])
    BY <1>1, <2>2
  <2> QED
    BY <2>1, <2>2, <2>3, <2>4 DEF TypeOK, OutboxesOK, With
<1>10. ScriptsOK'
  <2>1. \A d \in Machines : d # c => outbox'[d] = outbox[d]
    BY <1>1 DEF TypeOK, OutboxesOK
  <2>2. script' = script /\ script[c] = Off /\ agents' = agents /\ nameOf' = nameOf
    BY DEF Stage, server
  <2> QED
    BY <2>1, <2>2, OffOK DEF TypeOK, ScriptsOK, At
<1> QED
  BY <1>6, <1>7, <1>8, <1>9, <1>10 DEF TypeOK, Stage

LEMMA PushingOK ==
  ASSUME NEW todo \in Seq(Projects), NEW scope \in {"project", "global"}, NEW box, todo # <<>>,
         \A i \in DOMAIN todo : todo[i] \in DOMAIN box,
         \A i, j \in DOMAIN todo : i < j => todo[i] < todo[j]
  PROVE  ScriptOK(Pushing(todo, scope), box) /\ Pushing(todo, scope).pc = "push"
BY DEF ScriptOK, Pushing, Scripts, Absent

LEMMA StartPushType ==
  ASSUME TypeOK, NEW c \in Machines, SessionEnd(c) \/ PushGlobal(c)
  PROVE  TypeOK'
<1>1. DOMAIN outbox[c] \subseteq Projects
  BY ClientsAssumption DEF TypeOK, OutboxesOK, ClientsAssumption
<1>2. ScriptsOK'
  <2>1. CASE SessionEnd(c)
    <3>1. PICK todo \in Ascending(Glob(c)) : Run(c, Pushing(todo, "project"))
      BY <2>1 DEF SessionEnd
    <3> DEFINE n == Cardinality(Glob(c))
    <3>2. IsFiniteSet(Glob(c)) /\ Glob(c) # {} /\ Glob(c) \subseteq Projects
      BY <2>1, <1>1, FS_Subset, ClientsAssumption DEF SessionEnd, Glob, ClientsAssumption
    <3>3. n \in Nat /\ n # 0
      BY <3>2, FS_CardinalityType, FS_EmptySet
    <3>4. todo \in [1..n -> Glob(c)] /\ \A i, j \in DOMAIN todo : i < j => todo[i] < todo[j]
      BY DEF Ascending
    <3>5. todo \in Seq(Projects) /\ Len(todo) = n /\ todo # <<>>
      BY <3>2, <3>3, <3>4
    <3>6. \A i \in DOMAIN todo : todo[i] \in DOMAIN outbox[c]
      BY <3>4 DEF Glob
    <3>7. ScriptOK(Pushing(todo, "project"), outbox[c]) /\ Pushing(todo, "project").pc = "push"
      BY <3>4, <3>5, <3>6, PushingOK
    <3> QED
      BY <2>1, <3>1, <3>7, RunKeeps DEF TypeOK, SessionEnd, server
  <2>2. CASE PushGlobal(c)
    <3>1. PICK p \in DOMAIN outbox[c] : Run(c, Pushing(<<p>>, "global"))
      BY <2>2 DEF PushGlobal
    <3> DEFINE todo == <<p>>
    <3>2. /\ todo \in Seq(Projects) /\ todo # <<>>
          /\ \A i \in DOMAIN todo : i = 1 /\ todo[i] = p
      BY <1>1
    <3>4. \A i, j \in DOMAIN todo : ~(i < j)
      BY <3>2
    <3> HIDE DEF todo
    <3>3. ScriptOK(Pushing(todo, "global"), outbox[c]) /\ Pushing(todo, "global").pc = "push"
      BY <3>2, <3>4, PushingOK
    <3> QED
      BY <2>2, <3>1, <3>3, RunKeeps DEF TypeOK, PushGlobal, server, todo
  <2> QED
    BY <2>1, <2>2
<1>3. faults' \in 0..MaxFaults
  BY DEF TypeOK, SessionEnd, PushGlobal, HistoryOK
<1> QED
  BY <1>2, <1>3, ServerFrame, WiresFrame, OutboxesFrame, HistoryFrame
  DEF TypeOK, SessionEnd, PushGlobal, server

LEMMA SendType ==
  ASSUME TypeOK, NEW c \in Machines, Send(c)
  PROVE  TypeOK'
<1> DEFINE p == Head(script[c].todo)
           request == [pc |-> "body", id |-> json[c], item |-> Item(p, script[c].scope),
                       folder |-> outbox[c][p]]
<1>1. /\ ScriptOK(script[c], outbox[c]) /\ script[c] \in Scripts /\ script[c].pc = "push"
      /\ script[c].todo \in Seq(Projects) /\ script[c].todo # <<>>
  BY DEF TypeOK, ScriptsOK, ScriptOK, Scripts, Send, At
<1>2. p \in DOMAIN outbox[c] /\ p \in Projects
  <2>1. 1 \in DOMAIN script[c].todo /\ p = script[c].todo[1]
    BY <1>1
  <2> QED
    BY <1>1, <2>1 DEF ScriptOK
<1>3. CASE HasId(c)
  <2>1. /\ wire' = [wire EXCEPT ![c] = request]
        /\ Run(c, [script[c] EXCEPT !.pc = "wait"])
    BY <1>3 DEF Send
  <2>2. request \in Requests
    BY <1>2, <1>3 DEF TypeOK, OutboxesOK, HasId, Requests, Item, Items
  <2>3. WiresOK'
    <3>1. wire' \in [Machines -> Requests \union {NoRequest}]
      BY <2>1, <2>2 DEF TypeOK, WiresOK
    <3>2. wire'[c].pc = "body" /\ \A d \in Machines : d # c => wire'[d] = wire[d]
      BY <2>1 DEF TypeOK, WiresOK
    <3> QED
      BY <3>1, <3>2 DEF TypeOK, WiresOK, Send, server, Requests, Folders, Versions
  <2>4. ScriptOK([script[c] EXCEPT !.pc = "wait"], outbox[c])
    BY <1>1 DEF ScriptOK, Scripts
  <2>5. [script[c] EXCEPT !.pc = "wait"].pc = "wait"
    BY <1>1 DEF Scripts
  <2>6. ScriptsOK'
    BY <2>1, <2>4, <2>5, RunKeeps DEF TypeOK, Send, server
  <2> QED
    BY <2>3, <2>6, ServerFrame, OutboxesFrame, HistoryFrame DEF TypeOK, Send, server, HistoryOK
<1>4. CASE ~HasId(c)
  <2>1. Run(c, Advance(script[c])) /\ UNCHANGED wire
    BY <1>4 DEF Send, Failed
  <2>2. ScriptsOK'
    BY <1>1, <2>1, AdvanceOK, RunKeeps DEF TypeOK, Send, server
  <2> QED
    BY <2>1, <2>2, ServerFrame, WiresFrame, OutboxesFrame, HistoryFrame
    DEF TypeOK, Send, server, HistoryOK
<1> QED
  BY <1>3, <1>4

LEMMA ClearType ==
  ASSUME TypeOK, NEW c \in Machines, Clear(c)
  PROVE  TypeOK'
<1> DEFINE p == Head(script[c].todo)
<1>1. ScriptOK(script[c], outbox[c]) /\ script[c].todo # <<>>
  BY DEF TypeOK, ScriptsOK, ScriptOK, Clear, At
<1>2. /\ ScriptOK(Advance(script[c]), Without(outbox[c], p))
      /\ Advance(script[c]).pc \in {"off", "push"}
  BY <1>1, AdvanceOK
<1>3. /\ DOMAIN outbox' = Machines /\ outbox'[c] = Without(outbox[c], p)
      /\ \A d \in Machines : d # c => outbox'[d] = outbox[d]
  BY DEF TypeOK, OutboxesOK, Clear
<1>4. OutboxesOK'
  BY <1>3 DEF TypeOK, OutboxesOK, Clear, Without, Folders, Versions
<1>5. ScriptsOK'
  BY <1>2, <1>3 DEF TypeOK, ScriptsOK, Clear, Run, At, server
<1> QED
  BY <1>4, <1>5, ServerFrame, WiresFrame, HistoryFrame DEF TypeOK, Clear, server, HistoryOK

LEMMA DisconnectType ==
  ASSUME TypeOK, NEW c \in Machines, Disconnect(c)
  PROVE  TypeOK'
<1>1. ScriptOK(script[c], outbox[c]) /\ script[c].todo # <<>>
  BY DEF TypeOK, ScriptsOK, ScriptOK, Disconnect, At
<1>2. ScriptsOK'
  BY <1>1, AdvanceOK, RunKeeps DEF TypeOK, Disconnect, Failed, server
<1>3. WiresOK'
  <2>1. CASE UNCHANGED wire
    BY <2>1, WiresFrame DEF TypeOK, Disconnect, server
  <2>2. CASE wire' = [wire EXCEPT ![c] = NoRequest]
    BY <2>2 DEF TypeOK, WiresOK, Disconnect, server, NoRequest, Requests, Folders, Versions
  <2> QED
    BY <2>1, <2>2 DEF Disconnect
<1>4. faults' \in 0..MaxFaults
  BY ClientsAssumption DEF TypeOK, Disconnect, HistoryOK, ClientsAssumption
<1> QED
  BY <1>2, <1>3, <1>4, ServerFrame, OutboxesFrame, HistoryFrame DEF TypeOK, Disconnect, server

(***************************************************************************)
(* The server's side of a push.                                            *)
(***************************************************************************)
LEMMA ServeBodyType ==
  ASSUME TypeOK, NEW c \in Machines, ServeBody(c)
  PROVE  TypeOK'
<1> DEFINE f == <<wire[c].id, wire[c].item>>
<1>1. /\ wire[c] \in Requests /\ wire[c].id \in Ids /\ wire[c].item \in Items
      /\ wire[c].folder.ver \in Versions
  BY DEF TypeOK, WiresOK, ServeBody, NoRequest, Requests, Folders
<1>2. CASE files' = With(files, f, wire[c].folder.ver) /\ wire' = [wire EXCEPT ![c].pc = "row"] /\ UNCHANGED script
  <2>1. DOMAIN files' = DOMAIN files \union {f}
    BY <1>2 DEF With
  <2>2. \A g \in DOMAIN files' : files'[g] \in Versions
    BY <1>1, <1>2 DEF With, TypeOK, ServerOK
  <2>3. ServerOK'
    BY <1>1, <2>1, <2>2 DEF TypeOK, ServerOK, ServeBody, Versions
  <2>4. WiresOK'
    <3>1. wire' = [wire EXCEPT ![c] = [wire[c] EXCEPT !.pc = "row"]]
      BY <1>2
    <3>2. [wire[c] EXCEPT !.pc = "row"] \in Requests
      BY <1>1 DEF Requests
    <3>3. wire' \in [Machines -> Requests \union {NoRequest}]
      BY <3>1, <3>2 DEF TypeOK, WiresOK
    <3>4. wire'[c].id = wire[c].id /\ wire'[c].item = wire[c].item
      BY <1>1, <3>1 DEF TypeOK, WiresOK, Requests
    <3>5. \A d \in Machines : d # c => wire'[d] = wire[d]
      BY <3>1 DEF TypeOK, WiresOK
    <3>6. \A d \in Machines : wire'[d].pc = "row" => <<wire'[d].id, wire'[d].item>> \in DOMAIN files'
      BY <2>1, <3>4, <3>5 DEF TypeOK, WiresOK
    <3> QED
      BY <3>3, <3>6 DEF WiresOK, ServeBody, Requests, Folders, Versions
  <2> QED
    BY <1>2, <2>3, <2>4, OutboxesFrame, ScriptsFrame, HistoryFrame DEF TypeOK, ServeBody, HistoryOK
<1>3. CASE /\ wire' = [wire EXCEPT ![c] = NoRequest] /\ UNCHANGED files
           /\ IF At(c, "wait") THEN Run(c, Refused(script[c])) ELSE UNCHANGED script
  <2>1. ScriptsOK'
    <3>1. CASE At(c, "wait")
      <4>1. ScriptOK(script[c], outbox[c]) /\ script[c].todo # <<>>
        BY <3>1 DEF TypeOK, ScriptsOK, ScriptOK, At
      <4> QED
        BY <1>3, <3>1, <4>1, AdvanceOK, RunKeeps DEF TypeOK, ServeBody, Refused, Failed
    <3>2. CASE ~At(c, "wait")
      BY <1>3, <3>2, ScriptsFrame DEF TypeOK, ServeBody
    <3> QED
      BY <3>1, <3>2
  <2>2. WiresOK'
    BY <1>3 DEF TypeOK, WiresOK, ServeBody, NoRequest, Requests, Folders, Versions
  <2>3. ServerOK'
    BY <1>3, ServerFrame DEF TypeOK, ServeBody, server
  <2> QED
    BY <2>1, <2>2, <2>3, OutboxesFrame, HistoryFrame DEF TypeOK, ServeBody, HistoryOK
<1> QED
  BY <1>2, <1>3 DEF ServeBody

LEMMA ServeRowType ==
  ASSUME TypeOK, NEW c \in Machines, ServeRow(c)
  PROVE  TypeOK'
<1> DEFINE id == wire[c].id
           item == wire[c].item
<1>1. /\ id \in Ids /\ <<id, item>> \in DOMAIN files /\ wire[c].folder.ver \in Versions
  BY DEF TypeOK, WiresOK, ServeRow, NoRequest, Requests, Folders
<1>2. \A m \in DOMAIN memories' : memories'[m] \in [agent : Ids, rel : DOMAIN files]
  BY <1>1 DEF TypeOK, ServerOK, ServeRow, PutMemory, With
<1>3. DOMAIN acked' \subseteq DOMAIN files /\ \A g \in DOMAIN acked' : acked'[g] \in Versions
  BY <1>1 DEF TypeOK, ServerOK, ServeRow, With
<1>4. ServerOK'
  BY <1>2, <1>3 DEF TypeOK, ServerOK, ServeRow, Versions
<1>5. WiresOK'
  BY DEF TypeOK, WiresOK, ServeRow, NoRequest, Requests, Folders, Versions
<1>6. ScriptsOK'
  <2>1. CASE At(c, "wait")
    <3> DEFINE local == [script[c] EXCEPT !.pc = "clear"]
    <3>1. /\ ScriptOK(script[c], outbox[c]) /\ script[c] \in Scripts
          /\ script[c].pc = "wait" /\ script[c].todo # <<>>
      BY <2>1 DEF TypeOK, ScriptsOK, ScriptOK, At
    <3>2. ScriptOK(local, outbox[c]) /\ local.pc = "clear"
      BY <3>1 DEF ScriptOK, Scripts
    <3> QED
      BY <2>1, <3>2, RunKeeps DEF TypeOK, ServeRow
  <2>2. CASE ~At(c, "wait")
    BY <2>2, ScriptsFrame DEF TypeOK, ServeRow
  <2> QED
    BY <2>1, <2>2
<1> QED
  BY <1>4, <1>5, <1>6, OutboxesFrame, HistoryFrame DEF TypeOK, ServeRow, HistoryOK

LEMMA StutterType ==
  ASSUME TypeOK, UNCHANGED clientsVars
  PROVE  TypeOK'
BY ServerFrame, WiresFrame, OutboxesFrame, ScriptsFrame, HistoryFrame
DEF TypeOK, clientsVars, server, HistoryOK

LEMMA InitType == ASSUME Init PROVE TypeOK
<1>1. ServerOK
  BY FS_EmptySet DEF Init, ServerOK
<1>2. WiresOK
  BY DEF Init, WiresOK, NoRequest
<1>3. OutboxesOK
  BY DEF Init, OutboxesOK
<1>4. ScriptsOK
  BY OffOK DEF Init, ScriptsOK, At
<1>5. HistoryOK
  BY ClientsAssumption DEF Init, HistoryOK, ClientsAssumption
<1> QED
  BY <1>1, <1>2, <1>3, <1>4, <1>5 DEF TypeOK, Init

\* The tables, the data root, agent.json, the outboxes and the scripts have their types on any
\* number of machines, and push.sh is only called for folders that are there: no interleaving
\* of scripts, requests and faults removes a folder another step still counts on.
THEOREM ClientsTypeCorrect == Spec => []TypeOK
<1>1. Init => TypeOK
  BY InitType
<1>2. TypeOK /\ [Next]_clientsVars => TypeOK'
  <2>1. SUFFICES ASSUME TypeOK, [Next]_clientsVars PROVE TypeOK'
    OBVIOUS
  <2>2. CASE UNCHANGED clientsVars
    BY <2>1, <2>2, StutterType
  <2>3. ASSUME NEW c \in Machines, StartInit(c) \/ Stage(c) \/ SessionEnd(c) \/ PushGlobal(c)
        PROVE  TypeOK'
    BY <2>1, <2>3, StartInitType, StageType, StartPushType
  <2>4. ASSUME NEW c \in Machines, Continue(c)
        PROVE  TypeOK'
    BY <2>1, <2>4, RegisterType, LookupType, JsonType, ScriptEnds, SendType, ClearType DEF Continue
  <2>5. ASSUME NEW c \in Machines, Serve(c) \/ Disconnect(c) \/ Stop(c)
        PROVE  TypeOK'
    BY <2>1, <2>5, ServeBodyType, ServeRowType, DisconnectType, ScriptEnds DEF Serve
  <2> QED
    BY <2>1, <2>2, <2>3, <2>4, <2>5 DEF Next
<1> QED
  BY <1>1, <1>2, PTL DEF Spec

(***************************************************************************)
(* The identity of a machine: what init.sh has got from the server and not *)
(* yet written belongs to the machine's name, too.                         *)
(***************************************************************************)
IdentityInv ==
  /\ \A c \in Machines : script[c].pc \in {"create", "write"} => Owns(c, script[c].id)
  /\ IdentityAgrees

LEMMA OffPc == Off.pc = "off"
BY DEF Off, InitAt

LEMMA AdvancePc == ASSUME NEW local PROVE Advance(local).pc \in {"off", "push"}
BY DEF Advance, Off, InitAt, Pushing

\* agents only grows, so nobody loses an id.
AgentsGrow == \A name \in DOMAIN agents : name \in DOMAIN agents' /\ agents'[name] = agents[name]
OwnsNext(c, id) == nameOf'[c] \in DOMAIN agents' /\ agents'[nameOf'[c]] = id

LEMMA OwnsKept ==
  ASSUME nameOf' = nameOf, AgentsGrow
  PROVE  \A c \in Machines : \A id : Owns(c, id) => OwnsNext(c, id)
BY DEF Owns, OwnsNext, AgentsGrow

LEMMA IdentityFrame ==
  ASSUME TypeOK, IdentityInv, NEW c \in Machines, NEW local, Run(c, local),
         local.pc \in {"create", "write"} => OwnsNext(c, local.id),
         UNCHANGED <<nameOf, json>>, AgentsGrow
  PROVE  IdentityInv'
<1>1. DOMAIN script = Machines
  BY DEF TypeOK, ScriptsOK
<1>2. script'[c] = local /\ \A d \in Machines : d # c => script'[d] = script[d]
  BY <1>1 DEF Run
<1>3. \A d \in Machines : script'[d].pc \in {"create", "write"} => OwnsNext(d, script'[d].id)
  BY <1>2, OwnsKept DEF IdentityInv
<1>4. \A d \in Machines : json[d] \notin {Absent, Torn} => OwnsNext(d, json[d])
  BY OwnsKept DEF IdentityInv, IdentityAgrees, HasId
<1> QED
  BY <1>3, <1>4 DEF IdentityInv, IdentityAgrees, HasId, Owns, OwnsNext, Absent, Torn

LEMMA IdentityStutter ==
  ASSUME IdentityInv, UNCHANGED <<agents, nameOf, json, script>>
  PROVE  IdentityInv'
BY DEF IdentityInv, IdentityAgrees, HasId, Owns

LEMMA IdentityInit ==
  ASSUME TypeOK, IdentityInv, NEW c \in Machines,
         StartInit(c) \/ Register(c) \/ Lookup(c) \/ CreateJson(c) \/ WriteJson(c) \/ Fetch(c)
  PROVE  IdentityInv'
<1>1. CASE StartInit(c)
  <2> DEFINE local == IF json[c] = Absent THEN InitAt("register", Absent) ELSE InitAt("fetch", json[c])
  <2>1. Run(c, local) /\ local.pc \notin {"create", "write"}
    BY <1>1 DEF StartInit, InitAt
  <2> HIDE DEF local
  <2> QED
    BY <1>1, <2>1, IdentityFrame DEF StartInit, server, AgentsGrow
<1>2. CASE Register(c)
  <2>1. CASE nameOf[c] \in DOMAIN agents
    <3>1. PICK local : Run(c, local) /\ local \in {InitAt("lookup", Absent), Off}
      BY <1>2, <2>1 DEF Register, Answered
    <3>2. local.pc \notin {"create", "write"}
      BY <3>1, OffPc DEF InitAt
    <3> QED
      BY <1>2, <2>1, <3>1, <3>2, IdentityFrame DEF Register, AgentsGrow
  <2>2. CASE nameOf[c] \notin DOMAIN agents
    <3>1. PICK local : Run(c, local) /\ local \in {InitAt("create", NewId), Off}
      BY <1>2, <2>2 DEF Register, Answered
    <3>2. agents' = With(agents, nameOf[c], NewId) /\ UNCHANGED <<nameOf, json>>
      BY <1>2, <2>2 DEF Register
    <3>3. /\ \A name \in DOMAIN agents : name \in DOMAIN agents' /\ agents'[name] = agents[name]
          /\ nameOf[c] \in DOMAIN agents' /\ agents'[nameOf[c]] = NewId
      BY <2>2, <3>2 DEF With
    <3>4. local.pc \in {"create", "write"} => OwnsNext(c, local.id)
      BY <3>1, <3>2, <3>3, OffPc DEF InitAt, OwnsNext
    <3> QED
      BY <3>1, <3>2, <3>3, <3>4, IdentityFrame DEF AgentsGrow
  <2> QED
    BY <2>1, <2>2
<1>3. CASE Lookup(c)
  <2>1. PICK local : Run(c, local) /\ local \in {InitAt("create", agents[nameOf[c]]), Off}
    BY <1>3 DEF Lookup, Answered
  <2>2. nameOf[c] \in DOMAIN agents
    BY <1>3 DEF TypeOK, ScriptsOK, Lookup
  <2>3. UNCHANGED <<agents, nameOf, json>>
    BY <1>3 DEF Lookup, server
  <2>4. local.pc \in {"create", "write"} => OwnsNext(c, local.id)
    BY <2>1, <2>2, <2>3, OffPc DEF InitAt, OwnsNext
  <2> QED
    BY <2>1, <2>3, <2>4, IdentityFrame DEF AgentsGrow
<1>4. CASE CreateJson(c)
  <2>1. script'[c] = InitAt("write", script[c].id) /\ \A d \in Machines : d # c => script'[d] = script[d]
    BY <1>4 DEF CreateJson, Run, TypeOK, ScriptsOK
  <2>2. Owns(c, script[c].id)
    BY <1>4 DEF CreateJson, At, IdentityInv
  <2>3. json'[c] = Torn /\ \A d \in Machines : d # c => json'[d] = json[d]
    BY <1>4 DEF CreateJson, TypeOK
  <2>4. UNCHANGED <<agents, nameOf>>
    BY <1>4 DEF CreateJson, server
  <2> QED
    BY <2>1, <2>2, <2>3, <2>4 DEF IdentityInv, IdentityAgrees, HasId, Owns, InitAt
<1>5. CASE WriteJson(c)
  <2>1. script'[c] = InitAt("fetch", script[c].id) /\ \A d \in Machines : d # c => script'[d] = script[d]
    BY <1>5 DEF WriteJson, Run, TypeOK, ScriptsOK
  <2>2. Owns(c, script[c].id)
    BY <1>5 DEF WriteJson, At, IdentityInv
  <2>3. json'[c] = script[c].id /\ \A d \in Machines : d # c => json'[d] = json[d]
    BY <1>5 DEF WriteJson, TypeOK
  <2>4. UNCHANGED <<agents, nameOf>>
    BY <1>5 DEF WriteJson, server
  <2> QED
    BY <2>1, <2>2, <2>3, <2>4 DEF IdentityInv, IdentityAgrees, HasId, Owns, InitAt
<1>6. CASE Fetch(c)
  BY <1>6, OffPc, IdentityFrame DEF Fetch, server, AgentsGrow
<1> QED
  BY <1>1, <1>2, <1>3, <1>4, <1>5, <1>6

LEMMA IdentityPush ==
  ASSUME TypeOK, IdentityInv, NEW c \in Machines,
         \/ Stage(c) \/ SessionEnd(c) \/ PushGlobal(c) \/ Send(c) \/ Clear(c)
         \/ ServeBody(c) \/ ServeRow(c) \/ Disconnect(c) \/ Stop(c)
  PROVE  IdentityInv'
<1>1. UNCHANGED <<agents, nameOf, json>>
  BY DEF Stage, SessionEnd, PushGlobal, Send, Clear, ServeBody, ServeRow, Disconnect, Stop, server
<1>2. ASSUME NEW local, Run(c, local), local.pc \notin {"create", "write"}
      PROVE  IdentityInv'
  BY <1>1, <1>2, IdentityFrame DEF AgentsGrow
<1>3. CASE UNCHANGED script
  BY <1>1, <1>3, IdentityStutter
<1>4. CASE SessionEnd(c)
  <2>1. PICK todo : Run(c, Pushing(todo, "project"))
    BY <1>4 DEF SessionEnd
  <2>2. Pushing(todo, "project").pc = "push"
    BY DEF Pushing
  <2> QED
    BY <1>2, <2>1, <2>2
<1>5. CASE PushGlobal(c)
  <2>1. PICK p : Run(c, Pushing(<<p>>, "global"))
    BY <1>5 DEF PushGlobal
  <2>2. Pushing(<<p>>, "global").pc = "push"
    BY DEF Pushing
  <2> QED
    BY <1>2, <2>1, <2>2
<1>6. \A pc \in {"wait", "clear"} : script[c].pc \in {"push", "wait"} => [script[c] EXCEPT !.pc = pc].pc = pc
  BY DEF TypeOK, ScriptsOK, ScriptOK, Scripts
<1>7. CASE Send(c) \/ ServeRow(c)
  <2>1. \/ Run(c, [script[c] EXCEPT !.pc = "wait"]) /\ At(c, "push")
        \/ Run(c, [script[c] EXCEPT !.pc = "clear"]) /\ At(c, "wait")
        \/ Run(c, Advance(script[c]))
        \/ UNCHANGED script
    BY <1>7 DEF Send, ServeRow, Failed
  <2> QED
    BY <1>2, <1>3, <1>6, <2>1, AdvancePc DEF At
<1>8. CASE Clear(c) \/ ServeBody(c) \/ Disconnect(c) \/ Stop(c)
  <2>1. Run(c, Advance(script[c])) \/ Run(c, Off) \/ UNCHANGED script
    BY <1>8 DEF Clear, ServeBody, Disconnect, Stop, Refused, Failed
  <2> QED
    BY <1>2, <1>3, <2>1, AdvancePc, OffPc
<1> QED
  BY <1>3, <1>4, <1>5, <1>7, <1>8 DEF Stage

\* Whatever answers are lost and whenever scripts are killed, on any number of machines, an
\* agent.json names the id the server has for the machine's name: register's UNIQUE name
\* and the lookup after a 409 leave no second identity.
THEOREM IdentityKept == Spec => []IdentityAgrees
<1>1. Init => IdentityInv
  BY OffPc DEF Init, IdentityInv, IdentityAgrees, HasId
<1>2. TypeOK /\ IdentityInv /\ [Next]_clientsVars => IdentityInv'
  <2>1. SUFFICES ASSUME TypeOK, IdentityInv, [Next]_clientsVars PROVE IdentityInv'
    OBVIOUS
  <2>2. CASE UNCHANGED clientsVars
    BY <2>1, <2>2, IdentityStutter DEF clientsVars, server
  <2>3. CASE Next
    BY <2>1, <2>3, IdentityInit, IdentityPush DEF Next, Continue, Serve
  <2> QED
    BY <2>1, <2>2, <2>3
<1>3. IdentityInv => IdentityAgrees
  BY DEF IdentityInv
<1> QED
  BY <1>1, <1>2, <1>3, ClientsTypeCorrect, PTL DEF Spec

(***************************************************************************)
(* Rows and their owners, where agents of different names work on          *)
(* different projects: then the machine that asks for a row and the        *)
(* machine that made it belong to one agent.                               *)
(***************************************************************************)
Apart ==
  \A naming \in Namings : \A c, d \in Machines :
    naming[c] # naming[d] => Uses[c] \intersect Uses[d] = {}

MayPush(c, item) == item \in Uses[c] \union {Global}

OwnedInv ==
  /\ \A c \in Machines :
       wire[c] # NoRequest => Owns(c, wire[c].id) /\ MayPush(c, wire[c].item)
  /\ \A m \in DOMAIN memories : \E c \in Machines, item \in Items :
       /\ MayPush(c, item)
       /\ Owns(c, memories[m].agent)
       /\ m = MemId(memories[m].agent, item)
       /\ memories[m].rel = <<memories[m].agent, item>>
  /\ Owned

LEMMA OwnedFrame ==
  ASSUME TypeOK, OwnedInv, UNCHANGED <<wire, memories, acked, nameOf>>, AgentsGrow
  PROVE  OwnedInv'
<1>1. \A c \in Machines : \A id : Owns(c, id) => OwnsNext(c, id)
  BY OwnsKept
<1>2. \A c \in Machines : wire[c] # NoRequest => OwnsNext(c, wire[c].id) /\ MayPush(c, wire[c].item)
  BY <1>1 DEF OwnedInv
<1>3. \A m \in DOMAIN memories : \E c \in Machines, item \in Items :
       /\ MayPush(c, item)
       /\ OwnsNext(c, memories[m].agent)
       /\ m = MemId(memories[m].agent, item)
       /\ memories[m].rel = <<memories[m].agent, item>>
  BY <1>1 DEF OwnedInv
<1>4. Owned'
  BY DEF OwnedInv, Owned
<1> QED
  BY <1>2, <1>3, <1>4 DEF OwnedInv, Owns, OwnsNext, Items

\* A machine's request changes: another of its own, or none.
LEMMA OwnedWire ==
  ASSUME TypeOK, OwnedInv, NEW c \in Machines, NEW request,
         wire' = [wire EXCEPT ![c] = request],
         request # NoRequest => Owns(c, request.id) /\ MayPush(c, request.item),
         UNCHANGED <<agents, memories, acked, nameOf>>
  PROVE  OwnedInv'
<1>1. wire'[c] = request /\ \A d \in Machines : d # c => wire'[d] = wire[d]
  BY DEF TypeOK, WiresOK
<1>2. \A d \in Machines : wire'[d] # NoRequest => Owns(d, wire'[d].id) /\ MayPush(d, wire'[d].item)
  BY <1>1 DEF OwnedInv
<1>3. Owned'
  BY DEF OwnedInv, Owned
<1> QED
  BY <1>2, <1>3 DEF OwnedInv, Owns, Items

LEMMA SendOwned ==
  ASSUME TypeOK, IdentityAgrees, OwnedInv, NEW c \in Machines, Send(c)
  PROVE  OwnedInv'
<1> DEFINE p == Head(script[c].todo)
           request == [pc |-> "body", id |-> json[c], item |-> Item(p, script[c].scope),
                       folder |-> outbox[c][p]]
<1>1. CASE HasId(c)
  <2>1. wire' = [wire EXCEPT ![c] = request]
    BY <1>1 DEF Send
  <2>2. p \in DOMAIN outbox[c]
    <3>1. script[c].todo \in Seq(Projects) /\ script[c].todo # <<>>
      BY DEF TypeOK, ScriptsOK, ScriptOK, Scripts, Send, At
    <3>2. 1 \in DOMAIN script[c].todo /\ p = script[c].todo[1]
      BY <3>1
    <3> QED
      BY <3>2 DEF TypeOK, ScriptsOK, ScriptOK
  <2>3. request.id = json[c] /\ MayPush(c, request.item)
    BY <2>2 DEF TypeOK, OutboxesOK, Item, MayPush
  <2>4. Owns(c, request.id)
    BY <1>1, <2>3 DEF IdentityAgrees
  <2> HIDE DEF request
  <2> QED
    BY <2>1, <2>3, <2>4, OwnedWire DEF Send, server
<1>2. CASE ~HasId(c)
  BY <1>2, OwnedFrame DEF Send, server, AgentsGrow
<1> QED
  BY <1>1, <1>2

LEMMA DropRequestOwned ==
  ASSUME TypeOK, OwnedInv, NEW c \in Machines, Disconnect(c) \/ ServeBody(c)
  PROVE  OwnedInv'
<1>1. CASE UNCHANGED wire
  BY <1>1, OwnedFrame DEF Disconnect, ServeBody, server, AgentsGrow
<1>2. CASE wire' = [wire EXCEPT ![c] = NoRequest]
  BY <1>2, OwnedWire DEF Disconnect, ServeBody, server
<1>3. CASE ServeBody(c) /\ wire' = [wire EXCEPT ![c].pc = "row"]
  <2> DEFINE request == [wire[c] EXCEPT !.pc = "row"]
  <2>1. wire[c] \in Requests /\ wire[c] # NoRequest
    BY <1>3 DEF TypeOK, WiresOK, ServeBody, NoRequest
  <2>2. request.id = wire[c].id /\ request.item = wire[c].item
    BY <2>1 DEF Requests
  <2>3. Owns(c, request.id) /\ MayPush(c, request.item)
    BY <2>1, <2>2 DEF OwnedInv
  <2>4. wire' = [wire EXCEPT ![c] = request]
    BY <1>3
  <2> HIDE DEF request
  <2> QED
    BY <1>3, <2>3, <2>4, OwnedWire DEF ServeBody
<1> QED
  BY <1>1, <1>2, <1>3 DEF Disconnect, ServeBody

\* The row a push finds is its own agent's, and says where the file of the push is.
LEMMA SameOwner ==
  ASSUME Apart, TypeOK, OwnedInv, NEW c \in Machines, NEW id, NEW item \in Items,
         Owns(c, id), MayPush(c, item), MemId(id, item) \in DOMAIN memories
  PROVE  /\ memories[MemId(id, item)].agent = id
         /\ memories[MemId(id, item)].rel = <<id, item>>
<1> DEFINE m == MemId(id, item)
           owner == memories[m].agent
<1>1. PICK d \in Machines, other \in Items :
        /\ MayPush(d, other) /\ Owns(d, owner)
        /\ m = MemId(owner, other) /\ memories[m].rel = <<owner, other>>
  BY DEF OwnedInv
<1>2. CASE item = Global
  BY <1>1, <1>2 DEF MemId
<1>3. CASE item # Global
  <2>1. other = item
    BY <1>1, <1>3 DEF MemId
  <2>2. item \in Uses[c] \intersect Uses[d]
    BY <1>1, <1>3, <2>1 DEF MayPush
  <2>3. nameOf[c] = nameOf[d]
    BY <2>2 DEF Apart, TypeOK
  <2> QED
    BY <1>1, <2>1, <2>3 DEF Owns
<1> QED
  BY <1>2, <1>3

LEMMA ServeRowOwned ==
  ASSUME Apart, TypeOK, OwnedInv, NEW c \in Machines, ServeRow(c)
  PROVE  OwnedInv'
<1> DEFINE id == wire[c].id
           item == wire[c].item
           m == MemId(id, item)
<1>1. wire[c] \in Requests /\ wire[c] # NoRequest /\ id \in Ids /\ item \in Items
  BY DEF TypeOK, WiresOK, ServeRow, NoRequest, Requests
<1>2. Owns(c, id) /\ MayPush(c, item)
  BY <1>1 DEF OwnedInv
<1>3. /\ DOMAIN memories' = DOMAIN memories \union {m}
      /\ memories'[m].agent = id /\ memories'[m].rel = <<id, item>>
      /\ \A k \in DOMAIN memories : k # m => memories'[k] = memories[k]
  BY <1>1, <1>2, SameOwner DEF ServeRow, PutMemory, With
<1>4. UNCHANGED <<agents, nameOf>>
  BY DEF ServeRow
<1>5. \A k \in DOMAIN memories' : \E d \in Machines, other \in Items :
        /\ MayPush(d, other)
        /\ Owns(d, memories'[k].agent)
        /\ k = MemId(memories'[k].agent, other)
        /\ memories'[k].rel = <<memories'[k].agent, other>>
  <2>1. ASSUME NEW k \in DOMAIN memories', k # m
        PROVE  \E d \in Machines, other \in Items :
                 /\ MayPush(d, other)
                 /\ Owns(d, memories'[k].agent)
                 /\ k = MemId(memories'[k].agent, other)
                 /\ memories'[k].rel = <<memories'[k].agent, other>>
    <3>1. k \in DOMAIN memories /\ memories'[k] = memories[k]
      BY <1>3, <2>1
    <3> QED
      BY <3>1 DEF OwnedInv
  <2>2. /\ MayPush(c, item) /\ Owns(c, memories'[m].agent)
        /\ m = MemId(memories'[m].agent, item)
        /\ memories'[m].rel = <<memories'[m].agent, item>>
    BY <1>2, <1>3
  <2> HIDE DEF m, id, item
  <2> QED
    BY <1>1, <2>1, <2>2
<1>6. \A d \in Machines : wire'[d] # NoRequest => Owns(d, wire'[d].id) /\ MayPush(d, wire'[d].item)
  <2>1. wire'[c] = NoRequest /\ \A d \in Machines : d # c => wire'[d] = wire[d]
    BY DEF TypeOK, WiresOK, ServeRow
  <2> QED
    BY <2>1 DEF OwnedInv
<1>7. Owned'
  <2>1. ASSUME NEW f \in DOMAIN acked'
        PROVE  /\ MemId(f[1], f[2]) \in DOMAIN memories'
               /\ memories'[MemId(f[1], f[2])].agent = f[1]
               /\ memories'[MemId(f[1], f[2])].rel = f
    <3>1. CASE f = <<id, item>>
      BY <1>3, <3>1
    <3>2. CASE f # <<id, item>>
      <4>1. f \in DOMAIN acked
        BY <2>1, <3>2 DEF ServeRow, With
      <4>2. /\ MemId(f[1], f[2]) \in DOMAIN memories
            /\ memories[MemId(f[1], f[2])].agent = f[1]
            /\ memories[MemId(f[1], f[2])].rel = f
        BY <4>1 DEF OwnedInv, Owned
      <4>3. MemId(f[1], f[2]) # m
        BY <1>1, <1>2, <3>2, <4>2, SameOwner
      <4> QED
        BY <1>3, <4>2, <4>3
    <3> QED
      BY <3>1, <3>2
  <2> QED
    BY <2>1 DEF Owned, MemId
<1> QED
  BY <1>4, <1>5, <1>6, <1>7 DEF OwnedInv, Owns, Items

LEMMA OwnedInvariant == ASSUME Apart PROVE Spec => []OwnedInv
<1>1. Init => OwnedInv
  BY DEF Init, OwnedInv, Owned, NoRequest
<1>2. TypeOK /\ IdentityAgrees /\ OwnedInv /\ [Next]_clientsVars => OwnedInv'
  <2>1. SUFFICES ASSUME TypeOK, IdentityAgrees, OwnedInv, [Next]_clientsVars PROVE OwnedInv'
    OBVIOUS
  <2>2. CASE UNCHANGED clientsVars
    BY <2>1, <2>2, OwnedFrame DEF clientsVars, server, AgentsGrow
  <2>3. ASSUME NEW c \in Machines, Register(c)
        PROVE  OwnedInv'
    <3>1. AgentsGrow
      BY <2>3 DEF Register, AgentsGrow, With
    <3> QED
      BY <2>1, <2>3, <3>1, OwnedFrame DEF Register
  <2>4. ASSUME NEW c \in Machines,
               \/ StartInit(c) \/ Stage(c) \/ SessionEnd(c) \/ PushGlobal(c) \/ Stop(c)
               \/ Lookup(c) \/ CreateJson(c) \/ WriteJson(c) \/ Fetch(c) \/ Clear(c)
        PROVE  OwnedInv'
    <3>1. UNCHANGED <<wire, memories, acked, nameOf, agents>>
      BY <2>4 DEF StartInit, Stage, SessionEnd, PushGlobal, Stop, Lookup, CreateJson, WriteJson,
                  Fetch, Clear, server
    <3> QED
      BY <2>1, <3>1, OwnedFrame DEF AgentsGrow
  <2>5. ASSUME NEW c \in Machines, Send(c) \/ ServeBody(c) \/ ServeRow(c) \/ Disconnect(c)
        PROVE  OwnedInv'
    BY <2>1, <2>5, SendOwned, DropRequestOwned, ServeRowOwned
  <2> QED
    BY <2>1, <2>2, <2>3, <2>4, <2>5 DEF Next, Continue, Serve
<1> QED
  BY <1>1, <1>2, ClientsTypeCorrect, IdentityKept, PTL DEF Spec

\* Where agents of different names work on different projects, a memory answered with 204 has
\* a row of the agent that pushed it, which leads to its own file, for any number of machines
\* of each agent; the global memories need no such assumption (fix W1).
THEOREM ApartOwned == ASSUME Apart PROVE Spec => []Owned
<1>1. OwnedInv => Owned
  BY DEF OwnedInv
<1> QED
  BY <1>1, OwnedInvariant, PTL

(***************************************************************************)
(* Delivery.  A version carries the machine that staged it from the outbox *)
(* to the request and the file; what push.sh waits for is the folder it is *)
(* about to clear, and only another machine's version replaces the one it  *)
(* has sent before rm -rf.                                                 *)
(***************************************************************************)
Sending(c) == Head(script[c].todo)
SentItem(c) == Item(Sending(c), script[c].scope)
FileOf(c) == <<wire[c].id, wire[c].item>>
Holds(c, f, ver) == files[f] = ver \/ staged[files[f]].machine # c

Asked == \A c \in Machines : wire[c] # NoRequest => MayPush(c, wire[c].item)
OwnFolders == \A c \in Machines : \A p \in DOMAIN outbox[c] : staged[outbox[c][p].ver].machine = c
OwnRequests == \A c \in Machines : wire[c] # NoRequest => staged[wire[c].folder.ver].machine = c
Waits == \A c \in Machines : At(c, "wait") =>
           /\ wire[c] # NoRequest
           /\ wire[c].id = json[c] /\ wire[c].item = SentItem(c)
           /\ wire[c].folder = outbox[c][Sending(c)]
Written == \A c \in Machines : wire[c].pc = "row" => Holds(c, FileOf(c), wire[c].folder.ver)
Stored == \A c \in Machines : At(c, "clear") =>
            /\ wire[c] = NoRequest
            /\ <<json[c], SentItem(c)>> \in DOMAIN files
            /\ Holds(c, <<json[c], SentItem(c)>>, outbox[c][Sending(c)].ver)
            /\ MemId(json[c], SentItem(c)) \in DOMAIN memories
DeliveryInv == Asked /\ OwnFolders /\ OwnRequests /\ Waits /\ Written /\ Stored

LEMMA Numbers ==
  ASSUME TypeOK
  PROVE  /\ Len(staged) \in Nat
         /\ staged \in Seq([machine : Machines, name : {nameOf[c] : c \in Machines}, project : Projects])
         /\ \A v \in Versions : v \in Nat /\ v \in DOMAIN staged
         /\ \A f \in DOMAIN files : files[f] \in Versions
         /\ \A f \in DOMAIN acked : acked[f] \in Versions /\ f \in DOMAIN files
         /\ \A c \in Machines : \A p \in DOMAIN outbox[c] : outbox[c][p].ver \in Versions
         /\ \A c \in Machines : wire[c] # NoRequest => wire[c] \in Requests /\ wire[c].folder.ver \in Versions
<1>1. /\ Len(staged) \in Nat
      /\ staged \in Seq([machine : Machines, name : {nameOf[c] : c \in Machines}, project : Projects])
  BY DEF TypeOK, HistoryOK
<1>2. \A v \in Versions : v \in Nat /\ v \in DOMAIN staged
  BY <1>1 DEF Versions
<1>3. \A c \in Machines : \A p \in DOMAIN outbox[c] : outbox[c][p].ver \in Versions
  BY DEF TypeOK, OutboxesOK, Folders
<1>4. \A c \in Machines : wire[c] # NoRequest => wire[c] \in Requests /\ wire[c].folder.ver \in Versions
  BY DEF TypeOK, WiresOK, Requests, Folders
<1> QED
  BY <1>1, <1>2, <1>3, <1>4 DEF TypeOK, ServerOK

\* A push under way is for a folder in the outbox, hence for the machine's own project.
LEMMA SendingOwn ==
  ASSUME TypeOK, NEW c \in Machines, script[c].pc \in {"push", "wait", "clear"}
  PROVE  /\ Sending(c) \in DOMAIN outbox[c] /\ Sending(c) \in Uses[c]
         /\ MayPush(c, SentItem(c)) /\ SentItem(c) \in {Sending(c), Global}
         /\ outbox[c][Sending(c)].ver \in Nat
<1>1. script[c].todo \in Seq(Projects) /\ script[c].todo # <<>>
  BY DEF TypeOK, ScriptsOK, ScriptOK, Scripts
<1>2. 1 \in DOMAIN script[c].todo /\ Sending(c) = script[c].todo[1]
  BY <1>1 DEF Sending
<1>3. Sending(c) \in DOMAIN outbox[c] /\ Sending(c) \in Uses[c]
  BY <1>2 DEF TypeOK, ScriptsOK, ScriptOK, OutboxesOK
<1>4. outbox[c][Sending(c)].ver \in Nat
  <2>1. Len(staged) \in Nat
    BY DEF TypeOK, HistoryOK
  <2> QED
    BY <1>3, <2>1 DEF TypeOK, OutboxesOK, Folders, Versions
<1> QED
  BY <1>3, <1>4 DEF SentItem, Item, MayPush

\* A step of a script that is not at the server's door, on a machine of its own.
LEMMA DeliveryScript ==
  ASSUME TypeOK, DeliveryInv, NEW c \in Machines, NEW local, Run(c, local) \/ UNCHANGED script,
         local.pc \notin {"wait", "clear"}, UNCHANGED <<wire, memories, files>>,
         \A d \in Machines : d # c => json'[d] = json[d] /\ outbox'[d] = outbox[d],
         \A v \in Versions : staged'[v] = staged[v],
         \A p \in DOMAIN outbox'[c] : staged'[outbox'[c][p].ver].machine = c,
         (~At(c, "wait") /\ ~At(c, "clear")) \/ Run(c, local)
  PROVE  DeliveryInv'
<1>1. DOMAIN script = Machines
  BY DEF TypeOK, ScriptsOK
<1>2. \A d \in Machines : script'[d].pc \in {"wait", "clear"} => d # c /\ script'[d] = script[d]
  BY <1>1 DEF Run, At
<1>3. Asked'
  BY DEF DeliveryInv, Asked
<1>4. OwnFolders' /\ OwnRequests'
  <2>1. \A d \in Machines : d # c =>
          \A p \in DOMAIN outbox'[d] : staged'[outbox'[d][p].ver].machine = d
    BY Numbers DEF DeliveryInv, OwnFolders
  <2>2. \A d \in Machines : wire[d] # NoRequest => staged'[wire[d].folder.ver].machine = d
    BY Numbers DEF DeliveryInv, OwnRequests
  <2> QED
    BY <2>1, <2>2 DEF OwnFolders, OwnRequests
<1>5. \A d \in Machines : \A f \in DOMAIN files : \A ver : Holds(d, f, ver) =>
        files[f] = ver \/ staged'[files[f]].machine # d
  BY Numbers DEF Holds
<1>6. Written'
  <2>1. \A d \in Machines : wire[d].pc = "row" => FileOf(d) \in DOMAIN files
    BY DEF TypeOK, WiresOK, FileOf
  <2> QED
    BY <1>5, <2>1 DEF DeliveryInv, Written, FileOf, Holds
<1>7. Waits'
  BY <1>2 DEF DeliveryInv, Waits, At, Sending, SentItem
<1>8. Stored'
  <2>1. ASSUME NEW d \in Machines, script'[d].pc = "clear"
        PROVE  /\ wire[d] = NoRequest
               /\ <<json'[d], SentItem(d)'>> \in DOMAIN files
               /\ \/ files[<<json'[d], SentItem(d)'>>] = outbox'[d][Sending(d)'].ver
                  \/ staged'[files[<<json'[d], SentItem(d)'>>]].machine # d
               /\ MemId(json'[d], SentItem(d)') \in DOMAIN memories
    <3>1. /\ At(d, "clear") /\ json'[d] = json[d] /\ outbox'[d] = outbox[d]
          /\ SentItem(d)' = SentItem(d) /\ Sending(d)' = Sending(d)
      BY <1>2, <2>1 DEF At, Sending, SentItem
    <3> QED
      BY <1>5, <3>1 DEF DeliveryInv, Stored
  <2> QED
    BY <2>1 DEF Stored, At, Holds, MemId
<1> QED
  BY <1>3, <1>4, <1>6, <1>7, <1>8 DEF DeliveryInv

LEMMA SendDelivery ==
  ASSUME TypeOK, DeliveryInv, NEW c \in Machines, Send(c)
  PROVE  DeliveryInv'
<1> DEFINE request == [pc |-> "body", id |-> json[c], item |-> SentItem(c),
                       folder |-> outbox[c][Sending(c)]]
<1>1. CASE HasId(c)
  <2>1. wire' = [wire EXCEPT ![c] = request] /\ Run(c, [script[c] EXCEPT !.pc = "wait"])
    BY <1>1 DEF Send, SentItem, Sending
  <2>2. /\ wire'[c] = request /\ request # NoRequest
        /\ \A d \in Machines : d # c => wire'[d] = wire[d]
    BY <2>1 DEF TypeOK, WiresOK, NoRequest
  <2>3. script[c] \in Scripts /\ script[c].pc = "push"
    BY DEF TypeOK, ScriptsOK, ScriptOK, Send, At
  <2>4. /\ script'[c].pc = "wait" /\ script'[c].todo = script[c].todo
        /\ script'[c].scope = script[c].scope
        /\ \A d \in Machines : d # c => script'[d] = script[d]
    BY <2>1, <2>3 DEF Run, TypeOK, ScriptsOK, Scripts
  <2>5. UNCHANGED <<memories, files, json, outbox, staged>>
    BY DEF Send, server
  <2>6. Asked' /\ OwnFolders' /\ OwnRequests'
    BY <2>2, <2>3, <2>5, SendingOwn DEF DeliveryInv, Asked, OwnFolders, OwnRequests
  <2>7. Waits'
    BY <2>2, <2>4, <2>5 DEF DeliveryInv, Waits, At, Sending, SentItem
  <2>8. Written'
    BY <2>2, <2>5 DEF DeliveryInv, Written, FileOf, Holds
  <2>9. Stored'
    BY <2>2, <2>4, <2>5 DEF DeliveryInv, Stored, At, Sending, SentItem, Holds
  <2> QED
    BY <2>6, <2>7, <2>8, <2>9 DEF DeliveryInv
<1>2. CASE ~HasId(c)
  BY <1>2, AdvancePc, DeliveryScript DEF Send, Failed, server, DeliveryInv, OwnFolders
<1> QED
  BY <1>1, <1>2

\* The script has given up, or never waited; its request ends or was never received.
LEMMA RequestDropped ==
  ASSUME TypeOK, DeliveryInv, NEW c \in Machines, wire[c] # NoRequest,
         wire' = [wire EXCEPT ![c] = NoRequest] \/ UNCHANGED wire,
         At(c, "wait") => Run(c, Advance(script[c])), ~At(c, "wait") => UNCHANGED script,
         UNCHANGED <<memories, files, json, outbox, staged>>
  PROVE  DeliveryInv'
<1>1. \A d \in Machines : wire'[d] \in {wire[d], NoRequest} /\ (d # c => wire'[d] = wire[d])
  BY DEF TypeOK, WiresOK
<1>2. ~At(c, "clear")
  BY DEF DeliveryInv, Stored
<1>3. \A d \in Machines : script'[d].pc \in {"wait", "clear"} => d # c /\ script'[d] = script[d]
  BY <1>2, AdvancePc DEF Run, TypeOK, ScriptsOK, At
<1>4. Asked' /\ OwnFolders' /\ OwnRequests'
  BY <1>1 DEF DeliveryInv, Asked, OwnFolders, OwnRequests
<1>5. Written'
  BY <1>1 DEF DeliveryInv, Written, FileOf, NoRequest, Holds
<1>6. Waits'
  BY <1>1, <1>3 DEF DeliveryInv, Waits, At, Sending, SentItem
<1>7. Stored'
  BY <1>1, <1>3 DEF DeliveryInv, Stored, At, Sending, SentItem, Holds
<1> QED
  BY <1>4, <1>5, <1>6, <1>7 DEF DeliveryInv

LEMMA ServeBodyDelivery ==
  ASSUME TypeOK, DeliveryInv, NEW c \in Machines, ServeBody(c)
  PROVE  DeliveryInv'
<1>1. wire[c] \in Requests /\ wire[c] # NoRequest
  BY DEF TypeOK, WiresOK, ServeBody, NoRequest
<1>2. CASE Registered(wire[c].id) /\ Accepts(wire[c].folder)
  <2>1. /\ files' = With(files, FileOf(c), wire[c].folder.ver)
        /\ wire' = [wire EXCEPT ![c].pc = "row"]
        /\ UNCHANGED <<memories, script, json, outbox, staged>>
    BY <1>2 DEF ServeBody, FileOf
  <2>2. /\ wire'[c] # NoRequest /\ wire'[c].id = wire[c].id
        /\ wire'[c].item = wire[c].item /\ wire'[c].folder = wire[c].folder
        /\ \A d \in Machines : d # c => wire'[d] = wire[d]
    BY <1>1, <2>1 DEF TypeOK, WiresOK, Requests, NoRequest
  <2>3. /\ files'[FileOf(c)] = wire[c].folder.ver /\ DOMAIN files \subseteq DOMAIN files'
        /\ \A f \in DOMAIN files : f # FileOf(c) => files'[f] = files[f]
    BY <2>1 DEF With
  <2>4. Asked' /\ OwnFolders' /\ OwnRequests'
    BY <1>1, <2>1, <2>2 DEF DeliveryInv, Asked, MayPush, OwnFolders, OwnRequests
  <2>5. Waits'
    <3>1. \A d \in Machines : script'[d] = script[d] /\ json'[d] = json[d] /\ outbox'[d] = outbox[d]
      BY <2>1
    <3>2. \A d \in Machines : wire[d] # NoRequest =>
            /\ wire'[d] # NoRequest /\ wire'[d].id = wire[d].id
            /\ wire'[d].item = wire[d].item /\ wire'[d].folder = wire[d].folder
      BY <2>2
    <3> QED
      BY <3>1, <3>2 DEF DeliveryInv, Waits, At, Sending, SentItem
  <2>6. \A d \in Machines : \A f \in DOMAIN files : \A ver :
          d # c /\ Holds(d, f, ver) => files'[f] = ver \/ staged[files'[f]].machine # d
    BY <1>1, <2>3 DEF Holds, DeliveryInv, OwnRequests
  <2>7. Written'
    <3>1. ASSUME NEW d \in Machines, wire'[d].pc = "row"
          PROVE  \/ files'[<<wire'[d].id, wire'[d].item>>] = wire'[d].folder.ver
                 \/ staged[files'[<<wire'[d].id, wire'[d].item>>]].machine # d
      <4>1. CASE d = c
        BY <2>2, <2>3, <4>1 DEF FileOf
      <4>2. CASE d # c
        <5>1. wire'[d] = wire[d] /\ FileOf(d) \in DOMAIN files
          BY <2>2, <3>1, <4>2 DEF TypeOK, WiresOK, FileOf
        <5> QED
          BY <2>6, <3>1, <4>2, <5>1 DEF DeliveryInv, Written, FileOf
      <4> QED
        BY <4>1, <4>2
    <3> QED
      BY <2>1, <3>1 DEF Written, FileOf, Holds
  <2>8. Stored'
    <3>1. ASSUME NEW d \in Machines, At(d, "clear")
          PROVE  /\ wire'[d] = NoRequest
                 /\ <<json[d], SentItem(d)>> \in DOMAIN files'
                 /\ \/ files'[<<json[d], SentItem(d)>>] = outbox[d][Sending(d)].ver
                    \/ staged[files'[<<json[d], SentItem(d)>>]].machine # d
                 /\ MemId(json[d], SentItem(d)) \in DOMAIN memories
      <4>1. d # c /\ wire'[d] = NoRequest /\ <<json[d], SentItem(d)>> \in DOMAIN files
        BY <1>1, <2>2, <3>1 DEF DeliveryInv, Stored
      <4> QED
        BY <2>3, <2>6, <3>1, <4>1 DEF DeliveryInv, Stored
    <3> QED
      BY <2>1, <3>1 DEF Stored, At, Sending, SentItem, Holds
  <2> QED
    BY <2>4, <2>5, <2>7, <2>8 DEF DeliveryInv
<1>3. CASE ~(Registered(wire[c].id) /\ Accepts(wire[c].folder))
  BY <1>1, <1>3, RequestDropped DEF ServeBody, Refused, Failed
<1> QED
  BY <1>2, <1>3

LEMMA ServeRowDelivery ==
  ASSUME TypeOK, DeliveryInv, NEW c \in Machines, ServeRow(c)
  PROVE  DeliveryInv'
<1>1. wire[c] # NoRequest /\ FileOf(c) \in DOMAIN files
  BY DEF TypeOK, WiresOK, ServeRow, NoRequest, FileOf
<1>2. wire'[c] = NoRequest /\ \A d \in Machines : d # c => wire'[d] = wire[d]
  BY DEF TypeOK, WiresOK, ServeRow
<1>3. DOMAIN memories' = DOMAIN memories \union {MemId(wire[c].id, wire[c].item)}
  BY DEF ServeRow, PutMemory, With
<1>4. UNCHANGED <<files, json, outbox, staged>>
  BY DEF ServeRow
<1>5. \A d \in Machines : d # c => script'[d] = script[d]
  BY DEF ServeRow, Run, TypeOK, ScriptsOK
<1>6. ~At(c, "clear")
  BY <1>1 DEF DeliveryInv, Stored
<1>7. Asked' /\ OwnFolders' /\ OwnRequests'
  BY <1>2, <1>4 DEF DeliveryInv, Asked, OwnFolders, OwnRequests
<1>8. Written'
  BY <1>2, <1>4 DEF DeliveryInv, Written, FileOf, NoRequest, Holds
<1>9. /\ script'[c].pc # "wait"
      /\ script'[c].pc = "clear" =>
           /\ At(c, "wait")
           /\ script'[c].todo = script[c].todo /\ script'[c].scope = script[c].scope
  <2>1. CASE At(c, "wait")
    <3>1. script'[c] = [script[c] EXCEPT !.pc = "clear"] /\ script[c] \in Scripts
      BY <2>1 DEF ServeRow, Run, TypeOK, ScriptsOK, ScriptOK
    <3> QED
      BY <2>1, <3>1 DEF Scripts
  <2>2. CASE ~At(c, "wait")
    BY <1>6, <2>2 DEF ServeRow, At
  <2> QED
    BY <2>1, <2>2
<1>10. Waits'
  BY <1>2, <1>4, <1>5, <1>9 DEF DeliveryInv, Waits, At, Sending, SentItem
<1>11. Stored'
  <2>1. CASE At(c, "wait")
    <3>1. /\ wire[c].id = json[c] /\ wire[c].item = SentItem(c)
          /\ wire[c].folder = outbox[c][Sending(c)]
      BY <2>1 DEF DeliveryInv, Waits, At
    <3>2. Holds(c, <<json[c], SentItem(c)>>, outbox[c][Sending(c)].ver)
      BY <3>1 DEF DeliveryInv, Written, FileOf, ServeRow
    <3> QED
      BY <1>1, <1>2, <1>3, <1>4, <1>5, <1>9, <3>1, <3>2
      DEF DeliveryInv, Stored, At, Sending, SentItem, FileOf, Holds
  <2>2. CASE ~At(c, "wait")
    BY <1>2, <1>3, <1>4, <1>5, <1>9, <2>2 DEF DeliveryInv, Stored, At, Sending, SentItem, Holds
  <2> QED
    BY <2>1, <2>2
<1> QED
  BY <1>7, <1>8, <1>10, <1>11 DEF DeliveryInv

LEMMA InitScriptDelivery ==
  ASSUME TypeOK, DeliveryInv, NEW c \in Machines,
         \/ StartInit(c) \/ Register(c) \/ Lookup(c) \/ CreateJson(c) \/ WriteJson(c) \/ Fetch(c)
         \/ Stage(c) \/ SessionEnd(c) \/ PushGlobal(c) \/ Stop(c)
  PROVE  DeliveryInv'
<1>1. UNCHANGED <<wire, memories, files>>
  BY DEF StartInit, Register, Lookup, CreateJson, WriteJson, Fetch, Stage, SessionEnd, PushGlobal,
         Stop, server
<1>2. \A d \in Machines : d # c => json'[d] = json[d] /\ outbox'[d] = outbox[d]
  BY DEF StartInit, Register, Lookup, CreateJson, WriteJson, Fetch, Stage, SessionEnd, PushGlobal,
         Stop, TypeOK, OutboxesOK
<1> DEFINE Keeps == UNCHANGED staged /\ outbox'[c] = outbox[c]
<1>3. ASSUME NEW local, Run(c, local), local.pc \notin {"wait", "clear"}, Keeps
      PROVE  DeliveryInv'
  BY <1>1, <1>2, <1>3, DeliveryScript DEF DeliveryInv, OwnFolders
<1>4. ASSUME NEW pc \in {"off", "register", "lookup", "create", "write", "fetch"}, NEW id,
             Run(c, InitAt(pc, id)), Keeps
      PROVE  DeliveryInv'
  BY <1>3, <1>4 DEF InitAt
<1>5. CASE StartInit(c) \/ Register(c) \/ Lookup(c) \/ CreateJson(c) \/ WriteJson(c) \/ Fetch(c) \/ Stop(c)
  <2>1. Keeps
    BY <1>5 DEF StartInit, Register, Lookup, CreateJson, WriteJson, Fetch, Stop
  <2> HIDE DEF Keeps
  <2> QED
    BY <1>4, <1>5, <2>1 DEF StartInit, Register, Lookup, CreateJson, WriteJson, Fetch, Stop, Answered, Off
<1>6. CASE SessionEnd(c) \/ PushGlobal(c)
  <2>1. Keeps /\ \E todo, scope : Run(c, Pushing(todo, scope))
    BY <1>6 DEF SessionEnd, PushGlobal
  <2>2. \A todo, scope : Pushing(todo, scope).pc = "push"
    BY DEF Pushing
  <2> QED
    BY <1>3, <2>1, <2>2
<1>7. CASE Stage(c)
  <2>1. UNCHANGED script /\ ~At(c, "wait") /\ ~At(c, "clear") /\ Off.pc \notin {"wait", "clear"}
    BY <1>7, OffPc DEF Stage, At
  <2>2. PICK p \in Uses[c], n \in 1..MaxEntries + 1 :
          /\ staged' = Append(staged, [machine |-> c, name |-> nameOf[c], project |-> p])
          /\ outbox' = [outbox EXCEPT ![c] = With(outbox[c], p, [ver |-> Len(staged'), entries |-> n])]
    BY <1>7 DEF Stage
  <2>3. /\ \A v \in Versions : staged'[v] = staged[v]
        /\ staged'[Len(staged')].machine = c
    BY <2>2, Numbers DEF Versions
  <2>4. /\ DOMAIN outbox'[c] = DOMAIN outbox[c] \union {p} /\ outbox'[c][p].ver = Len(staged')
        /\ \A q \in DOMAIN outbox[c] : q # p => outbox'[c][q] = outbox[c][q]
    BY <2>2 DEF TypeOK, OutboxesOK, With
  <2>5. \A q \in DOMAIN outbox'[c] : staged'[outbox'[c][q].ver].machine = c
    BY <2>3, <2>4, Numbers DEF DeliveryInv, OwnFolders
  <2> QED
    BY <1>1, <1>2, <2>1, <2>3, <2>5, DeliveryScript
<1> QED
  BY <1>5, <1>6, <1>7

LEMMA ClearDelivery ==
  ASSUME TypeOK, DeliveryInv, NEW c \in Machines, Clear(c)
  PROVE  DeliveryInv'
<1>1. Run(c, Advance(script[c])) /\ UNCHANGED <<wire, memories, files, json, staged>>
  BY DEF Clear, server
<1>2. /\ \A d \in Machines : d # c => outbox'[d] = outbox[d]
      /\ outbox'[c] = Without(outbox[c], Sending(c))
  BY DEF Clear, TypeOK, OutboxesOK, Sending
<1>3. \A p \in DOMAIN outbox'[c] : staged'[outbox'[c][p].ver].machine = c
  BY <1>1, <1>2 DEF DeliveryInv, OwnFolders, Without
<1> QED
  BY <1>1, <1>2, <1>3, AdvancePc, DeliveryScript

DeliveredStep ==
  \A c \in Machines : \A p \in DOMAIN outbox[c] \ DOMAIN outbox'[c] :
    LET f == <<json[c], Item(p, script[c].scope)>>
    IN  /\ f \in DOMAIN files
        /\ files[f] = outbox[c][p].ver \/ staged[files[f]].machine # c
        /\ MemId(f[1], f[2]) \in DOMAIN memories

LEMMA ClearDelivered ==
  ASSUME TypeOK, DeliveryInv, NEW c \in Machines, Clear(c)
  PROVE  DeliveredStep
<1>1. \A d \in Machines : d # c => outbox'[d] = outbox[d]
  BY DEF Clear, TypeOK, OutboxesOK
<1>2. DOMAIN outbox'[c] = DOMAIN outbox[c] \ {Sending(c)}
  BY DEF Clear, TypeOK, OutboxesOK, Without, Sending
<1> QED
  BY <1>1, <1>2 DEF DeliveredStep, DeliveryInv, Stored, Clear, SentItem, Holds

LEMMA StageDelivered ==
  ASSUME TypeOK, NEW c \in Machines, Stage(c)
  PROVE  DeliveredStep
<1>1. \A d \in Machines : DOMAIN outbox[d] \subseteq DOMAIN outbox'[d]
  BY DEF Stage, TypeOK, OutboxesOK, With
<1> QED
  BY <1>1 DEF DeliveredStep

LEMMA DeliveryInvariant == Spec => []DeliveryInv
<1>1. Init => DeliveryInv
  BY OffPc DEF Init, DeliveryInv, Asked, OwnFolders, OwnRequests, Waits, Written, Stored, At, NoRequest
<1>2. TypeOK /\ DeliveryInv /\ [Next]_clientsVars => DeliveryInv'
  <2>1. SUFFICES ASSUME TypeOK, DeliveryInv, [Next]_clientsVars PROVE DeliveryInv'
    OBVIOUS
  <2>2. CASE UNCHANGED clientsVars
    BY <2>1, <2>2 DEF clientsVars, server, DeliveryInv, Asked, OwnFolders, OwnRequests, Waits,
                      Written, Stored, At, Sending, SentItem, FileOf, Holds
  <2>3. ASSUME NEW c \in Machines, Disconnect(c)
        PROVE  DeliveryInv'
    <3>1. At(c, "wait") /\ wire[c] # NoRequest
      BY <2>1, <2>3 DEF Disconnect, DeliveryInv, Waits
    <3>2. /\ wire' = [wire EXCEPT ![c] = NoRequest] \/ UNCHANGED wire
          /\ Run(c, Advance(script[c]))
          /\ UNCHANGED <<memories, files, json, outbox, staged>>
      BY <2>3 DEF Disconnect, Failed, server
    <3> QED
      BY <2>1, <3>1, <3>2, RequestDropped
  <2>4. CASE Next
    BY <2>1, <2>3, <2>4, InitScriptDelivery, SendDelivery, ClearDelivery, ServeBodyDelivery,
       ServeRowDelivery DEF Next, Continue, Serve
  <2> QED
    BY <2>1, <2>2, <2>4
<1> QED
  BY <1>1, <1>2, ClientsTypeCorrect, PTL DEF Spec

\* Whatever breaks or is killed, push.sh removes a folder only when the server has stored it in
\* the scope it was pushed with, file and row, in this version, unless another machine of the
\* agent has replaced the file since; on any number of machines, whatever they work on.
THEOREM DeliveredKept == Spec => Delivered
<1>1. TypeOK /\ DeliveryInv /\ [Next]_clientsVars => [DeliveredStep]_clientsVars
  <2>1. SUFFICES ASSUME TypeOK, DeliveryInv, Next PROVE DeliveredStep
    OBVIOUS
  <2>2. CASE UNCHANGED outbox
    BY <2>2 DEF DeliveredStep
  <2>3. CASE \E c \in Machines : Stage(c) \/ Clear(c)
    BY <2>1, <2>3, StageDelivered, ClearDelivered
  <2>4. UNCHANGED outbox \/ \E c \in Machines : Stage(c) \/ Clear(c)
    BY <2>1 DEF Next, Continue, Serve, StartInit, SessionEnd, PushGlobal, Register, Lookup,
                CreateJson, WriteJson, Fetch, Send, ServeBody, ServeRow, Disconnect, Stop
  <2> QED
    BY <2>2, <2>3, <2>4
<1> QED
  BY <1>1, ClientsTypeCorrect, DeliveryInvariant, PTL DEF Spec, Delivered, DeliveredStep
=============================================================================
