-------------------------- MODULE RoundTrip_proofs --------------------------
EXTENDS Clients_proofs

OneMachine == \A c, d \in Machines : c # d => Uses[c] \intersect Uses[d] = {}

(***************************************************************************)
(* Each name has an id of its own.                                         *)
(***************************************************************************)
OneIdEach ==
  /\ \A x \in DOMAIN agents : agents[x] <= Cardinality(DOMAIN agents)
  /\ \A x, y \in DOMAIN agents : agents[x] = agents[y] => x = y

(***************************************************************************)
(* Where a version comes from: who staged it, and as what.                 *)
(***************************************************************************)
Origin(v, id, item) ==
  /\ staged[v].name \in DOMAIN agents /\ agents[staged[v].name] = id
  /\ item \in {staged[v].project, Global}
OwnProjects == \A v \in DOMAIN staged : staged[v].project \in Uses[staged[v].machine]
OutboxOrigin == \A c \in Machines : \A p \in DOMAIN outbox[c] :
  staged[outbox[c][p].ver] = [machine |-> c, name |-> nameOf[c], project |-> p]
WireOrigin == \A c \in Machines : wire[c] # NoRequest =>
  Origin(wire[c].folder.ver, wire[c].id, wire[c].item)
FileOrigin == \A f \in DOMAIN files : Origin(files[f], f[1], f[2])

(***************************************************************************)
(* Versions grow on their way from the files to the outbox.                *)
(***************************************************************************)
OutboxNewer == \A c \in Machines : \A f \in DOMAIN files :
  f[2] \in DOMAIN outbox[c] => outbox[c][f[2]].ver >= files[f]
WireNewer == \A c \in Machines : wire[c] # NoRequest /\ wire[c].item # Global =>
  /\ FileOf(c) \in DOMAIN files => wire[c].folder.ver >= files[FileOf(c)]
  /\ wire[c].item \in DOMAIN outbox[c] => outbox[c][wire[c].item].ver >= wire[c].folder.ver
FileNewer == \A f \in DOMAIN acked : NotOlder(f[2], files[f], acked[f])

RoundTripInv ==
  /\ OneIdEach
  /\ OwnProjects /\ OutboxOrigin /\ WireOrigin /\ FileOrigin
  /\ OutboxNewer /\ WireNewer /\ FileNewer

\* The tables and the outboxes stay; a name may get an id.
LEMMA RoundTripFrame ==
  ASSUME RoundTripInv, UNCHANGED <<wire, files, acked, staged, outbox, nameOf>>, AgentsGrow, OneIdEach'
  PROVE  RoundTripInv'
<1>1. OwnProjects' /\ OutboxOrigin' /\ OutboxNewer' /\ WireNewer' /\ FileNewer'
  BY DEF RoundTripInv, OwnProjects, OutboxOrigin, OutboxNewer, WireNewer, FileNewer, FileOf
<1>2. WireOrigin' /\ FileOrigin'
  BY DEF RoundTripInv, WireOrigin, FileOrigin, Origin, AgentsGrow
<1> QED
  BY <1>1, <1>2 DEF RoundTripInv

LEMMA RegisterRoundTrip ==
  ASSUME TypeOK, RoundTripInv, NEW c \in Machines, Register(c)
  PROVE  RoundTripInv'
<1>1. CASE UNCHANGED agents
  BY <1>1, RoundTripFrame DEF Register, AgentsGrow, RoundTripInv, OneIdEach
<1>2. CASE nameOf[c] \notin DOMAIN agents /\ agents' = With(agents, nameOf[c], NewId)
  <2> DEFINE n == Cardinality(DOMAIN agents)
  <2>1. /\ DOMAIN agents' = DOMAIN agents \union {nameOf[c]} /\ agents'[nameOf[c]] = n + 1
        /\ \A x \in DOMAIN agents : agents'[x] = agents[x]
    BY <1>2 DEF With, NewId
  <2>2. IsFiniteSet(DOMAIN agents) /\ \A x \in DOMAIN agents : agents[x] \in Nat
    BY DEF TypeOK, ServerOK, Ids
  <2>3. Cardinality(DOMAIN agents') = n + 1 /\ n \in Nat
    BY <1>2, <2>1, <2>2, FS_AddElement, FS_CardinalityType
  <2>4. OneIdEach'
    <3>1. \A x \in DOMAIN agents' : agents'[x] <= n + 1
      BY <2>1, <2>2, <2>3 DEF RoundTripInv, OneIdEach
    <3>2. \A x, y \in DOMAIN agents' : agents'[x] = agents'[y] => x = y
      BY <2>1, <2>2, <2>3 DEF RoundTripInv, OneIdEach
    <3> QED
      BY <2>3, <3>1, <3>2 DEF OneIdEach
  <2>5. AgentsGrow
    BY <2>1 DEF AgentsGrow
  <2> QED
    BY <2>4, <2>5, RoundTripFrame DEF Register
<1> QED
  BY <1>1, <1>2 DEF Register

LEMMA StageRoundTrip ==
  ASSUME TypeOK, RoundTripInv, NEW c \in Machines, Stage(c)
  PROVE  RoundTripInv'
<1> DEFINE latest == Len(staged) + 1
           entry(p) == [machine |-> c, name |-> nameOf[c], project |-> p]
<1>1. PICK p \in Uses[c], n \in 1..MaxEntries + 1 :
        /\ staged' = Append(staged, entry(p))
        /\ outbox' = [outbox EXCEPT ![c] = With(outbox[c], p, [ver |-> Len(staged'), entries |-> n])]
  BY DEF Stage
<1>2. /\ Len(staged') = latest /\ staged'[latest] = entry(p)
      /\ \A v \in Versions : staged'[v] = staged[v] /\ latest >= v
  BY <1>1, Numbers DEF Versions
<1>3. /\ DOMAIN outbox'[c] = DOMAIN outbox[c] \union {p} /\ outbox'[c][p].ver = latest
      /\ \A q \in DOMAIN outbox[c] : q # p => outbox'[c][q] = outbox[c][q]
      /\ \A d \in Machines : d # c => outbox'[d] = outbox[d]
  BY <1>1, <1>2 DEF TypeOK, OutboxesOK, With
<1>4. UNCHANGED <<agents, wire, files, acked, nameOf>>
  BY DEF Stage, server
<1>5. OutboxOrigin' /\ OwnProjects'
  <2>1. OutboxOrigin'
    BY <1>2, <1>3, <1>4, Numbers DEF RoundTripInv, OutboxOrigin
  <2>2. DOMAIN staged' = Versions \union {latest} /\ DOMAIN staged = Versions
    BY <1>1, Numbers DEF Versions
  <2>3. \A v \in DOMAIN staged' : staged'[v].project \in Uses[staged'[v].machine]
    BY <1>2, <2>2 DEF RoundTripInv, OwnProjects
  <2> QED
    BY <2>1, <2>3 DEF OwnProjects
<1>6. WireOrigin' /\ FileOrigin'
  BY <1>2, <1>4, Numbers DEF RoundTripInv, WireOrigin, FileOrigin, Origin
<1>7. OutboxNewer'
  BY <1>2, <1>3, <1>4, Numbers DEF RoundTripInv, OutboxNewer
<1>8. WireNewer'
  <2>1. ASSUME NEW d \in Machines, wire[d] # NoRequest, wire[d].item # Global,
               wire[d].item \in DOMAIN outbox'[d]
        PROVE  outbox'[d][wire[d].item].ver >= wire[d].folder.ver
    <3>1. wire[d].folder.ver \in Versions /\ latest >= wire[d].folder.ver
      BY <1>2, <2>1, Numbers
    <3>2. \/ outbox'[d][wire[d].item].ver = latest
          \/ wire[d].item \in DOMAIN outbox[d] /\ outbox'[d][wire[d].item] = outbox[d][wire[d].item]
      BY <1>3, <2>1
    <3> QED
      BY <2>1, <3>1, <3>2 DEF RoundTripInv, WireNewer
  <2> QED
    BY <1>4, <2>1 DEF RoundTripInv, WireNewer, FileOf
<1>9. FileNewer' /\ OneIdEach'
  BY <1>4 DEF RoundTripInv, FileNewer, OneIdEach
<1> QED
  BY <1>5, <1>6, <1>7, <1>8, <1>9 DEF RoundTripInv

LEMMA SendRoundTrip ==
  ASSUME TypeOK, IdentityAgrees, RoundTripInv, NEW c \in Machines, Send(c)
  PROVE  RoundTripInv'
<1> DEFINE request == [pc |-> "body", id |-> json[c], item |-> SentItem(c),
                       folder |-> outbox[c][Sending(c)]]
<1>1. UNCHANGED <<agents, files, acked, staged, outbox, nameOf>>
  BY DEF Send, server
<1>2. CASE HasId(c)
  <2>1. wire' = [wire EXCEPT ![c] = request]
    BY <1>2 DEF Send, SentItem, Sending
  <2>2. /\ wire'[c].id = json[c] /\ wire'[c].item = SentItem(c)
        /\ wire'[c].folder = outbox[c][Sending(c)]
        /\ \A d \in Machines : d # c => wire'[d] = wire[d]
    BY <2>1 DEF TypeOK, WiresOK
  <2>3. Sending(c) \in DOMAIN outbox[c] /\ SentItem(c) \in {Sending(c), Global}
    BY SendingOwn DEF Send, At
  <2>4. Owns(c, json[c])
    BY <1>2 DEF IdentityAgrees
  <2>5. WireOrigin'
    <3>1. ASSUME NEW d \in Machines, wire'[d] # NoRequest
          PROVE  Origin(wire'[d].folder.ver, wire'[d].id, wire'[d].item)
      <4>1. CASE d = c
        <5>1. staged[outbox[c][Sending(c)].ver] = [machine |-> c, name |-> nameOf[c], project |-> Sending(c)]
          BY <2>3 DEF RoundTripInv, OutboxOrigin
        <5>2. Origin(outbox[c][Sending(c)].ver, json[c], SentItem(c))
          BY <2>3, <2>4, <5>1 DEF Origin, Owns
        <5> QED
          BY <2>2, <4>1, <5>2
      <4>2. CASE d # c
        BY <2>2, <3>1, <4>2 DEF RoundTripInv, WireOrigin
      <4> QED
        BY <4>1, <4>2
    <3> QED
      BY <1>1, <3>1 DEF WireOrigin, Origin
  <2>6. WireNewer'
    <3>1. ASSUME NEW d \in Machines, wire'[d] # NoRequest, wire'[d].item # Global
          PROVE  /\ <<wire'[d].id, wire'[d].item>> \in DOMAIN files =>
                      wire'[d].folder.ver >= files[<<wire'[d].id, wire'[d].item>>]
                 /\ wire'[d].item \in DOMAIN outbox[d] =>
                      outbox[d][wire'[d].item].ver >= wire'[d].folder.ver
      <4>1. CASE d = c
        <5>1. wire'[d].item = Sending(c) /\ wire'[d].folder = outbox[c][Sending(c)]
          BY <2>2, <2>3, <3>1, <4>1
        <5> QED
          BY <2>3, <4>1, <5>1, Numbers DEF RoundTripInv, OutboxNewer
      <4>2. CASE d # c
        BY <2>2, <3>1, <4>2 DEF RoundTripInv, WireNewer, FileOf
      <4> QED
        BY <4>1, <4>2
    <3> QED
      BY <1>1, <3>1 DEF WireNewer, FileOf
  <2>7. OwnProjects' /\ OutboxOrigin' /\ FileOrigin' /\ OutboxNewer' /\ FileNewer' /\ OneIdEach'
    BY <1>1 DEF RoundTripInv, OwnProjects, OutboxOrigin, FileOrigin, Origin, OutboxNewer, FileNewer, OneIdEach
  <2> QED
    BY <2>5, <2>6, <2>7 DEF RoundTripInv
<1>3. CASE ~HasId(c)
  BY <1>1, <1>3, RoundTripFrame DEF Send, AgentsGrow, RoundTripInv, OneIdEach
<1> QED
  BY <1>2, <1>3

\* A request ends, or is cut off; what it has done to the files stays.
LEMMA WireDropped ==
  ASSUME TypeOK, RoundTripInv, NEW c \in Machines,
         wire' = [wire EXCEPT ![c] = NoRequest] \/ UNCHANGED wire,
         UNCHANGED <<agents, files, staged, outbox, nameOf>>, FileNewer'
  PROVE  RoundTripInv'
<1>1. \A d \in Machines : wire'[d] # NoRequest => wire'[d] = wire[d]
  BY DEF TypeOK, WiresOK
<1>2. WireOrigin' /\ WireNewer'
  BY <1>1 DEF RoundTripInv, WireOrigin, Origin, WireNewer, FileOf
<1>3. OwnProjects' /\ OutboxOrigin' /\ FileOrigin' /\ OutboxNewer' /\ OneIdEach'
  BY DEF RoundTripInv, OwnProjects, OutboxOrigin, FileOrigin, Origin, OutboxNewer, OneIdEach
<1> QED
  BY <1>2, <1>3 DEF RoundTripInv

LEMMA ClearRoundTrip ==
  ASSUME TypeOK, RoundTripInv, NEW c \in Machines, Clear(c)
  PROVE  RoundTripInv'
<1>1. \A d \in Machines : /\ DOMAIN outbox'[d] \subseteq DOMAIN outbox[d]
                          /\ \A q \in DOMAIN outbox'[d] : outbox'[d][q] = outbox[d][q]
  BY DEF Clear, TypeOK, OutboxesOK, Without
<1>2. UNCHANGED <<agents, wire, files, acked, staged, nameOf>>
  BY DEF Clear, server
<1>3. OutboxOrigin' /\ OutboxNewer' /\ WireNewer'
  BY <1>1, <1>2 DEF RoundTripInv, OutboxOrigin, OutboxNewer, WireNewer, FileOf
<1>4. OwnProjects' /\ WireOrigin' /\ FileOrigin' /\ FileNewer' /\ OneIdEach'
  BY <1>2 DEF RoundTripInv, OwnProjects, WireOrigin, FileOrigin, Origin, FileNewer, OneIdEach
<1> QED
  BY <1>3, <1>4 DEF RoundTripInv

LEMMA ServeBodyRoundTrip ==
  ASSUME OneMachine, TypeOK, DeliveryInv, RoundTripInv, NEW c \in Machines, ServeBody(c)
  PROVE  RoundTripInv'
<1> DEFINE ver == wire[c].folder.ver
<1>1. wire[c] # NoRequest /\ wire[c] \in Requests /\ ver \in Versions
  BY Numbers DEF ServeBody, NoRequest
<1>2. UNCHANGED <<agents, acked, staged, outbox, nameOf>>
  BY DEF ServeBody
<1>3. CASE Registered(wire[c].id) /\ Accepts(wire[c].folder)
  <2>1. files' = With(files, FileOf(c), ver) /\ wire' = [wire EXCEPT ![c].pc = "row"]
    BY <1>3 DEF ServeBody, FileOf
  <2>2. /\ DOMAIN files' = DOMAIN files \union {FileOf(c)} /\ files'[FileOf(c)] = ver
        /\ \A f \in DOMAIN files : f # FileOf(c) => files'[f] = files[f]
    BY <2>1 DEF With
  <2>3. \A d \in Machines : wire'[d] # NoRequest =>
          /\ wire[d] # NoRequest /\ wire'[d].id = wire[d].id
          /\ wire'[d].item = wire[d].item /\ wire'[d].folder = wire[d].folder
    BY <1>1, <2>1 DEF TypeOK, WiresOK, Requests
  <2>4. FileOf(c)[1] = wire[c].id /\ FileOf(c)[2] = wire[c].item
    BY DEF FileOf
  <2>5. Origin(ver, wire[c].id, wire[c].item)
    BY <1>1 DEF RoundTripInv, WireOrigin
  <2>6. WireOrigin' /\ FileOrigin'
    <3>1. WireOrigin'
      BY <1>2, <2>3 DEF RoundTripInv, WireOrigin, Origin
    <3>2. \A f \in DOMAIN files' : Origin(files'[f], f[1], f[2])
      BY <2>2, <2>4, <2>5 DEF RoundTripInv, FileOrigin
    <3> QED
      BY <1>2, <3>1, <3>2 DEF FileOrigin, Origin
  <2>7. \A d \in Machines : wire[c].item # Global /\ MayPush(d, wire[c].item) => d = c
    BY <1>1 DEF MayPush, DeliveryInv, Asked, OneMachine
  <2>8. OutboxNewer'
    <3>1. ASSUME NEW d \in Machines, NEW f \in DOMAIN files', f[2] \in DOMAIN outbox[d]
          PROVE  outbox[d][f[2]].ver >= files'[f]
      <4>1. CASE f = FileOf(c)
        <5>1. f[2] = wire[c].item /\ MayPush(d, wire[c].item) /\ wire[c].item # Global
          BY <2>4, <3>1, <4>1, ClientsAssumption
          DEF TypeOK, OutboxesOK, MayPush, Global, ClientsAssumption
        <5> QED
          BY <1>1, <2>2, <2>7, <3>1, <4>1, <5>1 DEF RoundTripInv, WireNewer
      <4>2. CASE f # FileOf(c)
        BY <2>2, <3>1, <4>2 DEF RoundTripInv, OutboxNewer
      <4> QED
        BY <4>1, <4>2
    <3> QED
      BY <1>2, <3>1 DEF OutboxNewer
  <2>9. WireNewer'
    <3>1. ASSUME NEW d \in Machines, wire[d] # NoRequest, wire[d].item # Global
          PROVE  /\ FileOf(d) \in DOMAIN files' => wire[d].folder.ver >= files'[FileOf(d)]
                 /\ wire[d].item \in DOMAIN outbox[d] => outbox[d][wire[d].item].ver >= wire[d].folder.ver
      <4>1. CASE FileOf(d) = FileOf(c)
        <5>1. wire[d].item = wire[c].item /\ MayPush(d, wire[c].item)
          BY <3>1, <4>1 DEF FileOf, DeliveryInv, Asked
        <5>2. d = c
          BY <2>7, <3>1, <5>1
        <5> QED
          BY <1>1, <2>2, <3>1, <5>2 DEF RoundTripInv, WireNewer, Versions
      <4>2. CASE FileOf(d) # FileOf(c)
        BY <2>2, <3>1, <4>2 DEF RoundTripInv, WireNewer
      <4> QED
        BY <4>1, <4>2
    <3> QED
      BY <1>2, <2>3, <3>1 DEF WireNewer, FileOf
  <2>10. FileNewer'
    <3>1. ASSUME NEW f \in DOMAIN acked
          PROVE  NotOlder(f[2], files'[f], acked[f])
      <4>1. CASE f = FileOf(c)
        <5>1. f \in DOMAIN files /\ files[f] \in Nat /\ acked[f] \in Nat /\ ver \in Nat
          BY <1>1, <3>1, Numbers
        <5>2. f[2] # Global => ver >= files[f] /\ files[f] >= acked[f]
          BY <1>1, <2>4, <3>1, <4>1, <5>1 DEF RoundTripInv, WireNewer, FileNewer, NotOlder
        <5> QED
          BY <2>2, <4>1, <5>1, <5>2 DEF NotOlder
      <4>2. CASE f # FileOf(c)
        BY <2>2, <3>1, <4>2, Numbers DEF RoundTripInv, FileNewer
      <4> QED
        BY <4>1, <4>2
    <3> QED
      BY <1>2, <3>1 DEF FileNewer, NotOlder
  <2> QED
    BY <1>2, <2>6, <2>8, <2>9, <2>10 DEF RoundTripInv, OwnProjects, OutboxOrigin, OneIdEach
<1>4. CASE ~(Registered(wire[c].id) /\ Accepts(wire[c].folder))
  <2>1. wire' = [wire EXCEPT ![c] = NoRequest] /\ UNCHANGED files
    BY <1>4 DEF ServeBody
  <2> QED
    BY <1>2, <2>1, WireDropped DEF RoundTripInv, FileNewer
<1> QED
  BY <1>3, <1>4

\* Another machine's version of a project does not come between the file and the row.
LEMMA ServeRowRoundTrip ==
  ASSUME OneMachine, TypeOK, DeliveryInv, RoundTripInv, NEW c \in Machines, ServeRow(c)
  PROVE  RoundTripInv'
<1>1. /\ wire[c] # NoRequest /\ wire[c].folder.ver \in Nat
      /\ wire[c].item # Global => files[FileOf(c)] = wire[c].folder.ver
  <2>1. wire[c] # NoRequest /\ wire[c].pc = "row" /\ FileOf(c) \in DOMAIN files
    BY DEF ServeRow, NoRequest, TypeOK, WiresOK, FileOf
  <2>2. wire[c].folder.ver \in Nat /\ files[FileOf(c)] \in DOMAIN staged
    BY <2>1, Numbers
  <2>3. ASSUME wire[c].item # Global
        PROVE  staged[files[FileOf(c)]].machine = c
    <3> DEFINE origin == staged[files[FileOf(c)]]
    <3>1. wire[c].item \in Uses[c]
      BY <2>1, <2>3 DEF DeliveryInv, Asked, MayPush
    <3>2. origin.project = wire[c].item
      BY <2>1, <2>3 DEF RoundTripInv, FileOrigin, Origin, FileOf
    <3>3. origin.machine \in Machines /\ origin.project \in Uses[origin.machine]
      <4> DEFINE entries == [machine : Machines, name : {nameOf[d] : d \in Machines}, project : Projects]
      <4>1. staged \in Seq(entries)
        BY Numbers
      <4>2. files[FileOf(c)] \in 1..Len(staged)
        BY <2>1, Numbers DEF Versions
      <4>3. origin \in entries
        <5> HIDE DEF entries
        <5> QED
          BY <4>1, <4>2, ElementOfSeq
      <4> QED
        BY <2>2, <4>3 DEF RoundTripInv, OwnProjects
    <3> QED
      BY <3>1, <3>2, <3>3 DEF OneMachine
  <2> QED
    BY <2>1, <2>2, <2>3 DEF DeliveryInv, Written, Holds
<1>2. UNCHANGED <<agents, files, staged, outbox, nameOf>> /\ wire' = [wire EXCEPT ![c] = NoRequest]
  BY DEF ServeRow
<1>3. FileNewer'
  <2>1. ASSUME NEW f \in DOMAIN acked'
        PROVE  NotOlder(f[2], files[f], acked'[f])
    <3>1. CASE f \in DOMAIN acked /\ acked'[f] = acked[f]
      BY <3>1 DEF RoundTripInv, FileNewer
    <3>2. CASE f = FileOf(c) /\ acked'[f] = wire[c].folder.ver
      BY <1>1, <3>2 DEF FileOf, NotOlder
    <3>3. \/ f \in DOMAIN acked /\ acked'[f] = acked[f]
          \/ f = FileOf(c) /\ acked'[f] = wire[c].folder.ver
      BY <2>1 DEF ServeRow, With, FileOf
    <3> QED
      BY <3>1, <3>2, <3>3
  <2> QED
    BY <1>2, <2>1 DEF FileNewer
<1> QED
  BY <1>2, <1>3, WireDropped

LEMMA OtherRoundTrip ==
  ASSUME TypeOK, RoundTripInv, NEW c \in Machines,
         \/ StartInit(c) \/ SessionEnd(c) \/ PushGlobal(c) \/ Stop(c) \/ Disconnect(c)
         \/ Lookup(c) \/ CreateJson(c) \/ WriteJson(c) \/ Fetch(c)
  PROVE  RoundTripInv'
<1>1. UNCHANGED <<agents, files, acked, staged, outbox, nameOf>>
  BY DEF StartInit, SessionEnd, PushGlobal, Stop, Disconnect, Lookup, CreateJson, WriteJson, Fetch, server
<1>2. wire' = [wire EXCEPT ![c] = NoRequest] \/ UNCHANGED wire
  BY DEF StartInit, SessionEnd, PushGlobal, Stop, Disconnect, Lookup, CreateJson, WriteJson, Fetch, server
<1> QED
  BY <1>1, <1>2, WireDropped DEF RoundTripInv, FileNewer

(***************************************************************************)
(* The bundle.                                                             *)
(***************************************************************************)
LEMMA BundleFacts ==
  ASSUME TypeOK, OwnedInv, RoundTripInv, NEW id
  PROVE  /\ \A item \in DOMAIN Bundle(id) :
              <<id, item>> \in DOMAIN files /\ Bundle(id)[item] = files[<<id, item>>]
         /\ \A f \in DOMAIN acked : f[1] = id => f[2] \in DOMAIN Bundle(id)
<1> DEFINE globals == {Global} \intersect {f[2] : f \in {g \in DOMAIN files : g[1] = id}}
           projects == {m[2] : m \in Listed(id)}
<1>1. DOMAIN Bundle(id) = globals \union projects
  BY DEF Bundle
<1>2. \A f \in DOMAIN files : f = <<f[1], f[2]>> /\ f[2] \in Items
  BY DEF TypeOK, ServerOK
<1>3. ASSUME NEW item \in DOMAIN Bundle(id)
      PROVE  <<id, item>> \in DOMAIN files /\ Bundle(id)[item] = files[<<id, item>>]
  <2>1. Bundle(id)[item] = files[IF item = Global THEN <<id, Global>> ELSE memories[MemId(id, item)].rel]
    BY DEF Bundle
  <2>2. ASSUME NEW m \in Listed(id)
        PROVE  /\ m[2] # Global /\ m = MemId(id, m[2]) /\ memories[m].rel = <<id, m[2]>>
               /\ <<id, m[2]>> \in DOMAIN files
    <3>1. m \in DOMAIN memories /\ m[1] = "project" /\ memories[m].agent = id /\ memories[m].rel \in DOMAIN files
      BY <2>2 DEF Listed
    <3>2. PICK d \in Machines, other \in Items :
            m = MemId(memories[m].agent, other) /\ memories[m].rel = <<memories[m].agent, other>>
      BY <3>1 DEF OwnedInv
    <3>3. other # Global /\ m = <<"project", other>>
      BY <3>1, <3>2 DEF MemId
    <3> QED
      BY <3>1, <3>2, <3>3 DEF MemId
  <2>3. CASE item = Global
    <3>1. item \in globals
      BY <1>1, <2>2, <2>3
    <3> QED
      BY <1>2, <2>1, <2>3, <3>1
  <2>4. CASE item # Global
    <3>1. PICK m \in Listed(id) : item = m[2]
      BY <1>1, <2>4
    <3> QED
      BY <2>1, <2>2, <2>4, <3>1
  <2> QED
    BY <2>3, <2>4
<1>4. ASSUME NEW f \in DOMAIN acked, f[1] = id
      PROVE  f[2] \in DOMAIN Bundle(id)
  <2>1. f \in DOMAIN files
    BY Numbers
  <2>2. CASE f[2] = Global
    BY <1>1, <1>4, <2>1, <2>2
  <2>3. CASE f[2] # Global
    <3>1. MemId(f[1], f[2]) = <<"project", f[2]>>
      BY <2>3 DEF MemId
    <3>2. <<"project", f[2]>> \in Listed(id)
      BY <1>4, <2>1, <3>1 DEF OwnedInv, Owned, Listed
    <3> QED
      BY <1>1, <3>2
  <2> QED
    BY <2>2, <2>3
<1> QED
  BY <1>3, <1>4

LEMMA RoundTripHolds ==
  ASSUME TypeOK, IdentityAgrees, OwnedInv, RoundTripInv
  PROVE  RoundTrip
<1> SUFFICES ASSUME NEW c \in Machines, HasId(c)
             PROVE  /\ \A f \in DOMAIN acked : f[1] = json[c] =>
                         f[2] \in DOMAIN Bundle(json[c]) /\ NotOlder(f[2], Bundle(json[c])[f[2]], acked[f])
                    /\ \A item \in DOMAIN Bundle(json[c]) :
                         /\ staged[Bundle(json[c])[item]].name = nameOf[c]
                         /\ item \in {staged[Bundle(json[c])[item]].project, Global}
  BY DEF RoundTrip
<1> DEFINE got == Bundle(json[c])
<1>1. \A item \in DOMAIN got : <<json[c], item>> \in DOMAIN files /\ got[item] = files[<<json[c], item>>]
  BY BundleFacts
<1>2. ASSUME NEW f \in DOMAIN acked, f[1] = json[c]
      PROVE  f[2] \in DOMAIN got /\ NotOlder(f[2], got[f[2]], acked[f])
  <2>1. f[2] \in DOMAIN got
    BY <1>2, BundleFacts
  <2>2. f = <<json[c], f[2]>>
    BY <1>2, Numbers DEF TypeOK, ServerOK
  <2> QED
    BY <1>1, <2>1, <2>2 DEF RoundTripInv, FileNewer
<1>3. ASSUME NEW item \in DOMAIN got
      PROVE  staged[got[item]].name = nameOf[c] /\ item \in {staged[got[item]].project, Global}
  <2>1. Origin(got[item], json[c], item)
    BY <1>1 DEF RoundTripInv, FileOrigin
  <2>2. Owns(c, json[c])
    BY DEF IdentityAgrees
  <2> QED
    BY <2>1, <2>2 DEF Origin, Owns, RoundTripInv, OneIdEach
<1> QED
  BY <1>2, <1>3

\* Where each project is worked on from one machine, the bundle init.sh gets has every memory
\* of which a machine of the agent was told that it is stored, in that version or a newer one,
\* and nothing that a machine of another name staged, for any number of machines and faults.
THEOREM RoundTripKept == ASSUME OneMachine PROVE Spec => []RoundTrip
<1>1. Init => RoundTripInv
  BY DEF Init, RoundTripInv, OneIdEach, OwnProjects, OutboxOrigin, WireOrigin, FileOrigin, OutboxNewer, WireNewer,
         FileNewer, NoRequest
<1>2. TypeOK /\ IdentityAgrees /\ DeliveryInv /\ RoundTripInv /\ [Next]_clientsVars => RoundTripInv'
  <2>1. SUFFICES ASSUME TypeOK, IdentityAgrees, DeliveryInv, RoundTripInv, [Next]_clientsVars
                 PROVE  RoundTripInv'
    OBVIOUS
  <2>2. CASE UNCHANGED clientsVars
    BY <2>1, <2>2, RoundTripFrame DEF clientsVars, server, AgentsGrow, RoundTripInv, OneIdEach
  <2>3. CASE Next
    BY <2>1, <2>3, RegisterRoundTrip, StageRoundTrip, SendRoundTrip, ClearRoundTrip,
       ServeBodyRoundTrip, ServeRowRoundTrip, OtherRoundTrip DEF Next, Continue, Serve
  <2> QED
    BY <2>1, <2>2, <2>3
<1>3. Apart
  BY DEF OneMachine, Apart
<1>4. TypeOK /\ IdentityAgrees /\ OwnedInv /\ RoundTripInv => RoundTrip
  BY RoundTripHolds
<1> QED
  BY <1>1, <1>2, <1>3, <1>4, ClientsTypeCorrect, IdentityKept, OwnedInvariant, DeliveryInvariant,
     PTL DEF Spec
=============================================================================
