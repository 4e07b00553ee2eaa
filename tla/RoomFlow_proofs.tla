-------------------------- MODULE RoomFlow_proofs --------------------------
(***************************************************************************)
(* Proofs about RoomFlow, for any number of connections, datagram          *)
(* forwarders, reports and departures and for every window: there are two  *)
(* ways in which a room can come to a standstill.  The lock part is the    *)
(* standstill theorem of RoomsLock_proofs, of which every step here is a   *)
(* step or a stutter.                                                      *)
(***************************************************************************)
EXTENDS RoomFlow, RoomsLock_proofs

----------------------------------------------------------------------------
(* The locks *)

\* What the tasks and clients do here is, for the locks, what RoomsLock says.
LEMMA StepIsLockStep == [FullNext]_flowVars => [Next]_vars
<1> SUFFICES ASSUME [FullNext]_flowVars PROVE [Next]_vars
  OBVIOUS
<1> USE DEF Tasks
<1>1. ASSUME NEW c \in Conns, ServerStep(c) PROVE [Next]_vars
  BY <1>1 DEF ServerStep, WritePeerList, ReadRelayed, ReadStats, ReadFails, BeginWriting, Write,
     LastWrite, NoWrite, Finish, LeaveRoomAndTell, Next, Proceed, LockGranted, Written
<1>2. ASSUME NEW c \in Conns, ClientStep(c) PROVE [Next]_vars
  BY <1>2 DEF ClientStep, Connect, RecvPeerList, Handle, SendKey, SendReport, Report,
     ClientLeaves, Next
<1>3. ASSUME NEW t \in Tasks, LockStep(t) PROVE [Next]_vars
  BY <1>3 DEF LockStep, Next, Proceed, LockGranted, Written
<1>4. ASSUME NEW f \in Forwarders, ForwarderStep(f) PROVE [Next]_vars
  BY <1>4 DEF ForwarderStep, Next, Proceed, LockGranted, Written
<1>5. CASE UNCHANGED flowVars
  BY <1>5 DEF flowVars
<1> QED BY <1>1, <1>2, <1>3, <1>4, <1>5 DEF FullNext, FlowNext

\* The streams and clients add nothing to what RoomsLock allows.
THEOREM RefinesRoomsLock == FullSpec => Spec
<1>1. FlowInit => Init
  BY DEF FlowInit
<1>2. QED
  BY <1>1, StepIsLockStep, PTL DEF FullSpec, Spec

----------------------------------------------------------------------------
(* The inductive invariant *)

Early == {"idle", "join1", "join2", "list"}
Late  == {"leave1", "leave2", "bye1", "bye2", "byeing", "out"}

\* How far a client has come fits where its task is: it waits for the PeerList
\* until that is sent, writes nothing before its first key, and its task takes
\* leave only when the connection has ended.
Fits(c) ==
    /\ client[c] = "away" <=> pc[c] = "idle"
    /\ client[c] \in {"away", "joining", "keying"} => up[c] = <<>>
    /\ pc[c] \in {"join1", "join2", "list"} => client[c] = "joining"
    /\ pc[c] \in Early => \A i \in DOMAIN down[c] : down[c][i] # "PeerList"
    /\ pc[c] \in Late => c \in closed
    /\ c \in members => pc[c] # "idle"

ClientsFit == \A c \in Conns : Fits(c)

FlowInv == IInv /\ FlowTypeOK /\ ClientsFit

LEMMA FlowInvInit == FlowInit => FlowInv
<1> SUFFICES ASSUME FlowInit PROVE FlowInv
  OBVIOUS
<1>1. IInv
  BY IInvInit DEF FlowInit
<1>2. pc \in [Tasks -> {"idle"}] /\ members = {}
  BY DEF FlowInit, Init
<1>3. FlowTypeOK
  BY <1>2, WindowAssumption DEF FlowInit, FlowTypeOK, Uplink, Downlink, Tasks
<1>4. ClientsFit
  BY <1>2 DEF FlowInit, ClientsFit, Fits, Early, Late, Tasks
<1> QED BY <1>1, <1>3, <1>4 DEF FlowInv

\* What one message does to a stream.
LEMMA Appended ==
    ASSUME NEW S, NEW s \in Seq(S), NEW m \in S
    PROVE  /\ Append(s, m) \in Seq(S)
           /\ Len(Append(s, m)) = Len(s) + 1
           /\ \A i \in DOMAIN Append(s, m) : Append(s, m)[i] = m \/ (i \in DOMAIN s /\ Append(s, m)[i] = s[i])
OBVIOUS

LEMMA Tailed ==
    ASSUME NEW S, NEW s \in Seq(S), s # <<>>
    PROVE  /\ Tail(s) \in Seq(S) /\ Head(s) \in S
           /\ Len(Tail(s)) = Len(s) - 1 /\ Len(s) > 0
           /\ 1 \in DOMAIN s /\ s[1] = Head(s)
           /\ \A i \in DOMAIN Tail(s) : i + 1 \in DOMAIN s /\ Tail(s)[i] = s[i + 1]
OBVIOUS

\* The streams keep within their types and the window.
StreamTypes ==
    /\ up \in [Conns -> Seq(Uplink)]
    /\ down \in [Conns -> Seq(Downlink)]
    /\ \A c \in Conns :
          /\ Len(up[c]) <= Window /\ Len(down[c]) <= Window
          /\ \A i \in DOMAIN up[c] : c \notin up[c][i]

LEMMA StreamStep ==
    ASSUME StreamTypes,
           \/ down' = down
           \/ \E q \in Conns, m \in Downlink : Deliver(q, m)
           \/ \E c \in Conns : Receive(c)
           \/ \E c \in Conns : down' = [down EXCEPT ![c] = <<>>],
           \/ up' = up
           \/ \E c \in Conns, m \in Uplink : Send(c, m) /\ c \notin m
           \/ \E c \in Conns : up[c] # <<>> /\ up' = [up EXCEPT ![c] = Tail(@)]
    PROVE  StreamTypes'
<1> USE WindowAssumption
<1>1. /\ down' \in [Conns -> Seq(Downlink)]
      /\ \A c \in Conns : Len(down'[c]) <= Window
  <2>1. CASE down' = down
    BY <2>1 DEF StreamTypes
  <2>2. ASSUME NEW q \in Conns, NEW m \in Downlink, Deliver(q, m) PROVE <1>1!1 /\ <1>1!2
    <3>1. CASE q \in closed
      BY <2>2, <3>1 DEF StreamTypes, Deliver
    <3>2. CASE q \notin closed
      <4>1. Append(down[q], m) \in Seq(Downlink) /\ Len(Append(down[q], m)) = Len(down[q]) + 1
        BY Appended DEF StreamTypes
      <4>2. Len(down[q]) < Window /\ Len(down[q]) \in Nat
        BY <2>2, <3>2 DEF StreamTypes, Deliver, CanDeliver
      <4>3. down' = [down EXCEPT ![q] = Append(down[q], m)]
        BY <2>2, <3>2 DEF Deliver
      <4> HIDE DEF StreamTypes
      <4> QED BY <4>1, <4>2, <4>3 DEF StreamTypes
    <3> QED BY <3>1, <3>2
  <2>3. ASSUME NEW c \in Conns, Receive(c) PROVE <1>1!1 /\ <1>1!2
    <3>1. /\ Tail(down[c]) \in Seq(Downlink) /\ Len(Tail(down[c])) = Len(down[c]) - 1
          /\ Len(down[c]) \in Nat
      BY <2>3, Tailed DEF StreamTypes, Receive
    <3>2. down' = [down EXCEPT ![c] = Tail(down[c])]
      BY <2>3 DEF Receive
    <3>3. Len(Tail(down[c])) <= Window
      BY <3>1 DEF StreamTypes
    <3> DEFINE s == Tail(down[c])
    <3>4. s \in Seq(Downlink) /\ Len(s) <= Window /\ down' = [down EXCEPT ![c] = s]
      BY <3>1, <3>2, <3>3
    <3> HIDE DEF s
    <3> QED BY <3>4 DEF StreamTypes
  <2>4. ASSUME NEW c \in Conns, down' = [down EXCEPT ![c] = <<>>] PROVE <1>1!1 /\ <1>1!2
    BY <2>4 DEF StreamTypes
  <2> QED BY <2>1, <2>2, <2>3, <2>4
<1>2. /\ up' \in [Conns -> Seq(Uplink)]
      /\ \A c \in Conns : Len(up'[c]) <= Window /\ \A i \in DOMAIN up'[c] : c \notin up'[c][i]
  <2>1. CASE up' = up
    BY <2>1 DEF StreamTypes
  <2>2. ASSUME NEW c \in Conns, NEW m \in Uplink, Send(c, m), c \notin m PROVE <1>2!1 /\ <1>2!2
    <3>1. /\ Append(up[c], m) \in Seq(Uplink) /\ Len(Append(up[c], m)) = Len(up[c]) + 1
          /\ \A i \in DOMAIN Append(up[c], m) : c \notin Append(up[c], m)[i]
      <4>1. up[c] \in Seq(Uplink)
        BY DEF StreamTypes
      <4>2. \A i \in DOMAIN Append(up[c], m) :
               Append(up[c], m)[i] = m \/ (i \in DOMAIN up[c] /\ Append(up[c], m)[i] = up[c][i])
        BY <4>1, Appended
      <4> QED BY <2>2, <4>1, <4>2, Appended DEF StreamTypes
    <3>2. Len(up[c]) < Window /\ Len(up[c]) \in Nat
      BY <2>2 DEF StreamTypes, Send, CanSend
    <3>3. up' = [up EXCEPT ![c] = Append(up[c], m)]
      BY <2>2 DEF Send
    <3> QED BY <3>1, <3>2, <3>3 DEF StreamTypes
  <2>3. ASSUME NEW c \in Conns, up[c] # <<>>, up' = [up EXCEPT ![c] = Tail(@)] PROVE <1>2!1 /\ <1>2!2
    <3>1. /\ Tail(up[c]) \in Seq(Uplink) /\ Len(Tail(up[c])) = Len(up[c]) - 1
          /\ Len(up[c]) \in Nat
          /\ \A i \in DOMAIN Tail(up[c]) : c \notin Tail(up[c])[i]
      <4>1. up[c] \in Seq(Uplink)
        BY DEF StreamTypes
      <4>2. \A i \in DOMAIN Tail(up[c]) : i + 1 \in DOMAIN up[c] /\ Tail(up[c])[i] = up[c][i + 1]
        BY <2>3, <4>1, Tailed
      <4>3. \A i \in DOMAIN Tail(up[c]) : c \notin Tail(up[c])[i]
        BY <4>2 DEF StreamTypes
      <4> QED BY <2>3, <4>1, <4>3, Tailed
    <3>2. Len(Tail(up[c])) <= Window
      BY <3>1 DEF StreamTypes
    <3> DEFINE s == Tail(up[c])
    <3>3. /\ s \in Seq(Uplink) /\ Len(s) <= Window /\ \A i \in DOMAIN s : c \notin s[i]
          /\ up' = [up EXCEPT ![c] = s]
      BY <2>3, <3>1, <3>2
    <3> HIDE DEF s
    <3> QED BY <3>3 DEF StreamTypes
  <2> QED BY <2>1, <2>2, <2>3
<1> QED BY <1>1, <1>2 DEF StreamTypes

\* Recipients are others, one is written to at a time, and who holds the read
\* guards writes to members of the room only.
TaskTypes ==
    /\ sending \in [Conns -> {"PeerJoined", "other"}]
    /\ current \in [Conns -> SUBSET Conns]
    /\ todo \in [Conns -> SUBSET Conns]
    /\ \A c \in Conns :
          /\ c \notin current[c] /\ c \notin todo[c]
          /\ \A q, r \in current[c] : q = r
          /\ IF pc[c] \in {"casting", "byeing"}
                THEN current[c] \cup todo[c] \subseteq members ELSE current[c] = {}

ClientTypes ==
    /\ client \in [Conns -> {"away", "joining", "keying", "call", "answering"}]
    /\ reports \in 0 .. MaxReports

LEMMA FlowTypes == FlowTypeOK <=> ClientTypes /\ StreamTypes /\ TaskTypes
BY DEF FlowTypeOK, ClientTypes, StreamTypes, TaskTypes

LEMMA FlowTypesPrimed ==
    ASSUME ClientTypes', StreamTypes', TaskTypes'
    PROVE  FlowTypeOK'
BY DEF FlowTypeOK, ClientTypes, StreamTypes, TaskTypes

\* Of the connections' tasks only t moves, from one place to another.
Moved(t, from, to) ==
    /\ pc[t] \in from /\ pc'[t] \in to
    /\ \A d \in Conns : d # t => pc'[d] = pc[d]

LEMMA GoesTo ==
    ASSUME TypeOK, NEW t \in Tasks, NEW from, NEW to, Goto(t, from, to)
    PROVE  Moved(t, {from}, {to})
BY DEF TypeOK, Goto, Moved, Tasks

LEMMA GoesOn ==
    ASSUME TypeOK, NEW t \in Tasks, GoOn(t)
    PROVE  Moved(t, {"casting"}, {"in"})
BY ConnsAssumption DEF TypeOK, GoOn, Moved, Tasks

\* GoTo writes to members of S only.
LEMMA GoesThrough ==
    ASSUME NEW c \in Conns, NEW S, GoTo(c, S), c \notin S, S \subseteq Conns,
           current \in [Conns -> SUBSET Conns], todo \in [Conns -> SUBSET Conns]
    PROVE  /\ current' \in [Conns -> SUBSET Conns] /\ todo' \in [Conns -> SUBSET Conns]
           /\ \A d \in Conns : d # c => current'[d] = current[d] /\ todo'[d] = todo[d]
           /\ c \notin current'[c] /\ c \notin todo'[c]
           /\ \A q, r \in current'[c] : q = r
           /\ current'[c] \cup todo'[c] \subseteq S
<1>1. CASE S = {} /\ current' = [current EXCEPT ![c] = {}] /\ todo' = [todo EXCEPT ![c] = {}]
  BY <1>1
<1>2. ASSUME NEW q \in S, current' = [current EXCEPT ![c] = {q}], todo' = [todo EXCEPT ![c] = S \ {q}]
      PROVE  /\ current' \in [Conns -> SUBSET Conns] /\ todo' \in [Conns -> SUBSET Conns]
             /\ \A d \in Conns : d # c => current'[d] = current[d] /\ todo'[d] = todo[d]
             /\ current'[c] = {q} /\ todo'[c] = S \ {q}
  BY <1>2
<1> QED BY <1>1, <1>2 DEF GoTo

\* Whoever takes the room for writing finds nobody writing to its members.
LEMMA NobodyWrites ==
    ASSUME IInv, NEW t \in Tasks, Room!MayWrite(t)
    PROVE  \A c \in Conns : pc[c] \notin {"casting", "byeing"}
BY DEF IInv, GuardsMatch, Room!MayWrite, Tasks

\* The locks alone move: a task that does not write stays so.
LEMMA TaskTypesKept ==
    ASSUME TaskTypes, NEW t, NEW from, NEW to, Moved(t, from, to),
           from \cap {"casting", "byeing"} = {}, to \cap {"casting", "byeing"} = {},
           members' = members \/ \A d \in Conns : pc[d] \notin {"casting", "byeing"},
           UNCHANGED task
    PROVE  TaskTypes'
BY DEF TaskTypes, Moved, task

LEMMA ServerTypesNext ==
    ASSUME FlowInv, NEW c \in Conns, ServerStep(c)
    PROVE  FlowTypeOK'
<1> USE DEF FlowInv
<1>0. TypeOK /\ c \in Tasks /\ ClientTypes /\ StreamTypes /\ TaskTypes
  BY FlowTypes DEF IInv, Tasks
<1>1. CASE WritePeerList(c)
  <2>1. Moved(c, {"list"}, {"cast1"}) /\ members' = members
    BY <1>0, <1>1, GoesTo DEF WritePeerList, ListSent
  <2>2. StreamTypes'
    BY <1>0, <1>1, StreamStep DEF WritePeerList, Downlink
  <2>3. TaskTypes'
    BY <1>0, <1>1, <2>1 DEF WritePeerList, TaskTypes, Moved, Others
  <2> QED BY <1>0, <1>1, <2>2, <2>3, FlowTypesPrimed DEF WritePeerList, ClientTypes
<1>2. CASE ReadRelayed(c)
  <2>1. Moved(c, {"in"}, {"cast1"}) /\ members' = members
    BY <1>0, <1>2, GoesTo DEF ReadRelayed, RelayControl, StartCast
  <2>2. Head(up[c]) \in Uplink /\ c \notin Head(up[c])
    <3>1. up[c] \in Seq(Uplink) /\ up[c] # <<>>
      BY <1>0, <1>2 DEF ReadRelayed, StreamTypes
    <3>2. 1 \in DOMAIN up[c] /\ Head(up[c]) = up[c][1] /\ Head(up[c]) \in Uplink
      BY <3>1, Tailed
    <3> QED BY <1>0, <3>2 DEF StreamTypes
  <2>3. StreamTypes'
    BY <1>0, <1>2, StreamStep DEF ReadRelayed
  <2>4. TaskTypes'
    BY <1>0, <1>2, <2>1, <2>2 DEF ReadRelayed, TaskTypes, Moved, Uplink
  <2> QED BY <1>0, <1>2, <2>3, <2>4, FlowTypesPrimed DEF ReadRelayed, ClientTypes
<1>3. CASE ReadStats(c)
  <2>1. StreamTypes'
    BY <1>0, <1>3, StreamStep DEF ReadStats
  <2>2. TaskTypes'
    BY <1>0, <1>3 DEF ReadStats, TaskTypes, vars, task
  <2> QED BY <1>0, <1>3, <2>1, <2>2, FlowTypesPrimed DEF ReadStats, ClientTypes
<1>4. CASE ReadFails(c)
  <2>1. Moved(c, {"in"}, {"leave1"}) /\ members' = members
    BY <1>0, <1>4, GoesTo DEF ReadFails, StartLeave
  <2>2. StreamTypes'
    BY <1>0, <1>4, StreamStep DEF ReadFails, flow
  <2>3. TaskTypes'
    BY <1>0, <1>4, <2>1, TaskTypesKept DEF ReadFails, flow
  <2> QED BY <1>0, <1>4, <2>2, <2>3, FlowTypesPrimed DEF ReadFails, flow, ClientTypes
<1>5. CASE BeginWriting(c)
  <2>1. Moved(c, {"cast2", "bye2"}, {"casting", "byeing"}) /\ members' = members
    <3>1. CASE CastRoom(c)
      BY <1>0, <3>1, GoesTo DEF CastRoom, Moved
    <3>2. CASE ByeRoom(c)
      BY <1>0, <3>2, GoesTo DEF ByeRoom, Moved
    <3> QED BY <1>5, <3>1, <3>2 DEF BeginWriting
  <2>2. StreamTypes'
    BY <1>0, <1>5, StreamStep DEF BeginWriting
  <2> DEFINE S == todo[c] \cap members
  <2>3. GoTo(c, S) /\ c \notin S /\ S \subseteq Conns /\ S \subseteq members
    BY <1>0, <1>5 DEF BeginWriting, TaskTypes
  <2> HIDE DEF S
  <2>4. TaskTypes'
    BY <1>0, <1>5, <2>1, <2>3, GoesThrough DEF BeginWriting, TaskTypes, Moved
  <2> QED BY <1>0, <1>5, <2>2, <2>4, FlowTypesPrimed DEF BeginWriting, ClientTypes
<1>6. CASE Write(c)
  <2>1. \E q \in current[c] : Deliver(q, sending[c])
    BY <1>6 DEF Write
  <2>2. StreamTypes'
    BY <1>0, <1>6, <2>1, StreamStep DEF Write, TaskTypes, Downlink
  <2>3. pc[c] \in {"casting", "byeing"}
    BY <1>0, <2>1 DEF TaskTypes
  <2> DEFINE S == todo[c]
  <2>4. GoTo(c, S) /\ c \notin S /\ S \subseteq Conns /\ S \subseteq members
    BY <1>0, <1>6, <2>3 DEF Write, TaskTypes
  <2> HIDE DEF S
  <2>5. TaskTypes'
    BY <1>0, <1>6, <2>3, <2>4, GoesThrough DEF Write, TaskTypes, vars
  <2> QED BY <1>0, <1>6, <2>2, <2>5, FlowTypesPrimed DEF Write, ClientTypes
<1>7. ASSUME Finish(c)
      PROVE  /\ Moved(c, {"casting", "byeing"}, {"in", "out"}) /\ members' = members
             /\ sending' \in [Conns -> {"PeerJoined", "other"}]
  <2>1. CASE EndCast(c)
    BY <1>0, <1>7, <2>1, GoesOn DEF Finish, EndCast, Moved, TaskTypes
  <2>2. CASE EndBye(c)
    BY <1>0, <1>7, <2>2, GoesTo DEF Finish, EndBye, Moved, TaskTypes
  <2> QED BY <1>7, <2>1, <2>2 DEF Finish
<1>8. CASE LastWrite(c)
  <2>1. StreamTypes'
    BY <1>0, <1>8, StreamStep DEF LastWrite, TaskTypes, Downlink
  <2>2. TaskTypes'
    BY <1>0, <1>7, <1>8 DEF LastWrite, TaskTypes, Moved
  <2> QED BY <1>0, <1>8, <2>1, <2>2, FlowTypesPrimed DEF LastWrite, ClientTypes
<1>9. CASE NoWrite(c)
  <2>1. StreamTypes'
    BY <1>0, <1>9, StreamStep DEF NoWrite
  <2>2. TaskTypes'
    BY <1>0, <1>7, <1>9 DEF NoWrite, TaskTypes, Moved
  <2> QED BY <1>0, <1>9, <2>1, <2>2, FlowTypesPrimed DEF NoWrite, ClientTypes
<1>10. CASE LeaveRoomAndTell(c)
  <2>1. Moved(c, {"leave2"}, {"bye1"})
    BY <1>0, <1>10, GoesTo DEF LeaveRoomAndTell, LeaveRoom
  <2>2. \A d \in Conns : pc[d] \notin {"casting", "byeing"}
    BY <1>0, <1>10, NobodyWrites DEF LeaveRoomAndTell, LeaveRoom, Room!PassWrite
  <2>3. StreamTypes'
    BY <1>0, <1>10, StreamStep DEF LeaveRoomAndTell
  <2>4. TaskTypes'
    BY <1>0, <1>10, <2>1, <2>2 DEF LeaveRoomAndTell, TaskTypes, Moved, Others
  <2> QED BY <1>0, <1>10, <2>3, <2>4, FlowTypesPrimed DEF LeaveRoomAndTell, ClientTypes
<1> QED BY <1>1, <1>2, <1>3, <1>4, <1>5, <1>6, <1>8, <1>9, <1>10 DEF ServerStep

LEMMA ClientTypesNext ==
    ASSUME FlowInv, NEW c \in Conns, ClientStep(c)
    PROVE  FlowTypeOK'
<1> USE DEF FlowInv
<1>0. TypeOK /\ c \in Tasks /\ ClientTypes /\ StreamTypes /\ TaskTypes
  BY FlowTypes DEF IInv, Tasks
<1>1. CASE Connect(c)
  <2>1. Moved(c, {"idle"}, {"join1"}) /\ members' = members
    BY <1>0, <1>1, GoesTo DEF Connect, StartJoin
  <2>2. StreamTypes'
    BY <1>0, <1>1, StreamStep DEF Connect
  <2>3. TaskTypes'
    BY <1>0, <1>1, <2>1, TaskTypesKept DEF Connect
  <2> QED BY <1>0, <1>1, <2>2, <2>3, FlowTypesPrimed DEF Connect, ClientTypes
<1>2. CASE RecvPeerList(c)
  <2>1. StreamTypes'
    BY <1>0, <1>2, StreamStep DEF RecvPeerList
  <2>2. TaskTypes'
    BY <1>0, <1>2 DEF RecvPeerList, TaskTypes, vars, task
  <2> QED BY <1>0, <1>2, <2>1, <2>2, FlowTypesPrimed DEF RecvPeerList, ClientTypes
<1>3. CASE Handle(c)
  <2>1. StreamTypes'
    BY <1>0, <1>3, StreamStep DEF Handle
  <2>2. TaskTypes'
    BY <1>0, <1>3 DEF Handle, TaskTypes, vars, task
  <2> QED BY <1>0, <1>3, <2>1, <2>2, FlowTypesPrimed DEF Handle, ClientTypes
<1>4. CASE SendKey(c)
  <2>1. Others(c) \in Uplink /\ c \notin Others(c)
    BY DEF Others, Uplink
  <2>2. StreamTypes'
    BY <1>0, <1>4, <2>1, StreamStep DEF SendKey
  <2>3. TaskTypes'
    BY <1>0, <1>4 DEF SendKey, TaskTypes, vars, task
  <2> QED BY <1>0, <1>4, <2>2, <2>3, FlowTypesPrimed DEF SendKey, ClientTypes
<1>5. CASE SendReport(c)
  <2>1. PICK m \in Uplink : Send(c, m) /\ c \notin m
    <3>1. CASE Send(c, {})
      BY <3>1 DEF Uplink
    <3>2. CASE \E q \in Others(c) : Send(c, {q})
      BY <3>2 DEF Uplink, Others
    <3> QED BY <1>5, <3>1, <3>2 DEF SendReport, Report
  <2>2. StreamTypes'
    BY <1>0, <1>5, <2>1, StreamStep DEF SendReport, Report
  <2>3. TaskTypes'
    BY <1>0, <1>5 DEF SendReport, Report, TaskTypes, vars, task
  <2>4. ClientTypes'
    BY <1>0, <1>5, WindowAssumption DEF SendReport, Report, ClientTypes
  <2> QED BY <2>2, <2>3, <2>4, FlowTypesPrimed
<1>6. CASE ClientLeaves(c)
  <2>1. StreamTypes'
    BY <1>0, <1>6, StreamStep DEF ClientLeaves
  <2>2. TaskTypes'
    BY <1>0, <1>6 DEF ClientLeaves, ConnectionEnds, TaskTypes, task
  <2> QED BY <1>0, <1>6, <2>1, <2>2, FlowTypesPrimed DEF ClientLeaves, ClientTypes
<1> QED BY <1>1, <1>2, <1>3, <1>4, <1>5, <1>6 DEF ClientStep

LEMMA LockTypesNext ==
    ASSUME FlowInv, NEW t \in Tasks, LockStep(t)
    PROVE  FlowTypeOK'
<1>0. TypeOK /\ ClientTypes /\ StreamTypes /\ TaskTypes /\ UNCHANGED flow
  BY FlowTypes DEF IInv, FlowInv, LockStep
<1>1. StreamTypes' /\ ClientTypes' /\ UNCHANGED task
  BY <1>0 DEF StreamTypes, ClientTypes, flow
<1> DEFINE Elsewhere(p) == p \notin {"casting", "byeing"}
<1>2. ASSUME NEW from, NEW to, Goto(t, from, to), Elsewhere(from), Elsewhere(to),
             members' = members \/ \A d \in Conns : Elsewhere(pc[d])
      PROVE  FlowTypeOK'
  <2>1. Moved(t, {from}, {to})
    BY <1>0, <1>2, GoesTo
  <2>2. TaskTypes'
    BY <1>0, <1>1, <1>2, <2>1, TaskTypesKept
  <2> QED BY <1>1, <2>2, FlowTypesPrimed
<1>3. CASE JoinRooms(t)
  BY <1>3, <1>2 DEF JoinRooms
<1>4. CASE JoinRoom(t)
  <2>1. \A d \in Conns : pc[d] \notin {"casting", "byeing"}
    BY <1>4, NobodyWrites DEF FlowInv, JoinRoom, Room!PassWrite
  <2> QED BY <1>4, <1>2, <2>1 DEF JoinRoom
<1>5. CASE AbortJoin(t)
  BY <1>5, <1>2 DEF AbortJoin
<1>6. CASE CastRooms(t)
  BY <1>6, <1>2 DEF CastRooms
<1>7. CASE LeaveRooms(t)
  BY <1>7, <1>2 DEF LeaveRooms
<1>8. CASE ByeRooms(t)
  BY <1>8, <1>2 DEF ByeRooms
<1> QED BY <1>3, <1>4, <1>5, <1>6, <1>7, <1>8 DEF LockStep

\* A forwarder moves no connection's task.
LEMMA ForwarderMoves ==
    ASSUME TypeOK, NEW f \in Forwarders, ForwarderStep(f)
    PROVE  /\ \A d \in Conns : pc'[d] = pc[d]
           /\ UNCHANGED <<members, closed>>
<1>1. f \in Tasks /\ f \notin Conns
  BY ConnsAssumption DEF Tasks
<1>2. CASE ForwardDatagram(f)
  BY <1>1, <1>2 DEF ForwardDatagram, StartCast, Goto, TypeOK
<1>3. CASE ForwarderEnds(f)
  BY <1>1, <1>3 DEF ForwarderEnds, Goto, TypeOK, network
<1>4. CASE CastRoom(f)
  BY <1>1, <1>4 DEF CastRoom, Goto, TypeOK, network
<1>5. CASE EndCast(f)
  BY <1>1, <1>5, ConnsAssumption DEF EndCast, GoOn, TypeOK, network, Tasks
<1> QED BY <1>2, <1>3, <1>4, <1>5 DEF ForwarderStep

LEMMA ForwarderTypesNext ==
    ASSUME FlowInv, NEW f \in Forwarders, ForwarderStep(f)
    PROVE  FlowTypeOK'
<1>1. ClientTypes /\ StreamTypes /\ TaskTypes /\ UNCHANGED flow
  BY FlowTypes DEF FlowInv, ForwarderStep
<1>2. (\A d \in Conns : pc'[d] = pc[d]) /\ UNCHANGED members
  BY ForwarderMoves DEF FlowInv, IInv
<1>3. ClientTypes' /\ StreamTypes'
  BY <1>1 DEF ClientTypes, StreamTypes, flow
<1>4. TaskTypes'
  BY <1>1, <1>2 DEF TaskTypes, flow, task
<1> QED BY <1>3, <1>4, FlowTypesPrimed

\* What a stream may do without bringing a PeerList.
Plain(d) ==
    \/ down'[d] = down[d]
    \/ \E m \in Downlink \ {"PeerList"} : down'[d] = Append(down[d], m)
    \/ down[d] # <<>> /\ down'[d] = Tail(down[d])
    \/ down'[d] = <<>>

LEMMA PlainBringsNone ==
    ASSUME StreamTypes, NEW d \in Conns, Plain(d),
           \A i \in DOMAIN down[d] : down[d][i] # "PeerList"
    PROVE  \A i \in DOMAIN down'[d] : down'[d][i] # "PeerList"
<1>0. down[d] \in Seq(Downlink)
  BY DEF StreamTypes
<1>1. CASE down'[d] = down[d] \/ down'[d] = <<>>
  BY <1>1
<1>2. ASSUME NEW m \in Downlink \ {"PeerList"}, down'[d] = Append(down[d], m)
      PROVE  \A i \in DOMAIN down'[d] : down'[d][i] # "PeerList"
  <2>1. \A i \in DOMAIN Append(down[d], m) :
           Append(down[d], m)[i] = m \/ (i \in DOMAIN down[d] /\ Append(down[d], m)[i] = down[d][i])
    BY <1>0, Appended
  <2> QED BY <1>2, <2>1
<1>3. CASE down[d] # <<>> /\ down'[d] = Tail(down[d])
  <2>1. \A i \in DOMAIN Tail(down[d]) : i + 1 \in DOMAIN down[d] /\ Tail(down[d])[i] = down[d][i + 1]
    BY <1>0, <1>3, Tailed
  <2> QED BY <1>3, <2>1
<1> QED BY <1>1, <1>2, <1>3 DEF Plain

LEMMA FitsKept ==
    ASSUME StreamTypes, NEW d \in Conns, Fits(d), Plain(d),
           pc'[d] = pc[d], client'[d] = client[d], up'[d] = up[d],
           d \in members' => d \in members, d \in closed => d \in closed'
    PROVE  Fits(d)'
<1>1. pc[d] \in Early => \A i \in DOMAIN down'[d] : down'[d][i] # "PeerList"
  BY PlainBringsNone DEF Fits
<1> QED BY <1>1 DEF Fits

\* send_control_msg and recv_control, as seen by each client.
LEMMA DeliverIsPlain ==
    ASSUME StreamTypes, NEW q \in Conns, NEW m \in Downlink \ {"PeerList"}, Deliver(q, m)
    PROVE  \A d \in Conns : Plain(d)
BY DEF StreamTypes, Deliver, Plain

LEMMA ReceiveIsPlain ==
    ASSUME StreamTypes, NEW c \in Conns, Receive(c)
    PROVE  \A d \in Conns : Plain(d)
BY DEF StreamTypes, Receive, Plain

\* The step of a server task disturbs no client but its own.
LEMMA ServerFitsNext ==
    ASSUME FlowInv, NEW c \in Conns, ServerStep(c)
    PROVE  ClientsFit'
<1> USE DEF FlowInv
<1>0. TypeOK /\ c \in Tasks /\ StreamTypes /\ TaskTypes /\ Fits(c) /\ \A d \in Conns : Fits(d)
  BY FlowTypes DEF IInv, Tasks, ClientsFit
<1> SUFFICES ASSUME NEW d \in Conns PROVE Fits(d)'
  BY DEF ClientsFit
<1>1. CASE WritePeerList(c)
  <2>1. Moved(c, {"list"}, {"cast1"}) /\ UNCHANGED <<members, closed, client, up>>
    BY <1>0, <1>1, GoesTo DEF WritePeerList, ListSent, network
  <2>2. CASE d = c
    BY <1>0, <2>1, <2>2 DEF Fits, Moved, Early, Late
  <2>3. CASE d # c
    <3>1. down'[d] = down[d]
      BY <1>0, <1>1, <2>3 DEF WritePeerList, Deliver, StreamTypes
    <3> QED BY <1>0, <2>1, <2>3, <3>1, FitsKept DEF Moved, Plain
  <2> QED BY <2>2, <2>3
<1>2. CASE ReadRelayed(c)
  <2>1. Moved(c, {"in"}, {"cast1"}) /\ UNCHANGED <<members, closed, client, down>> /\ up[c] # <<>>
    BY <1>0, <1>2, GoesTo DEF ReadRelayed, RelayControl, StartCast, network
  <2>2. CASE d = c
    BY <1>0, <2>1, <2>2 DEF Fits, Moved, Early, Late
  <2>3. CASE d # c
    <3>1. up'[d] = up[d]
      BY <1>0, <1>2, <2>3 DEF ReadRelayed, StreamTypes
    <3> QED BY <1>0, <2>1, <2>3, <3>1, FitsKept DEF Moved, Plain
  <2> QED BY <2>2, <2>3
<1>3. CASE ReadStats(c)
  <2>1. UNCHANGED <<pc, members, closed, client, down>> /\ pc[c] = "in" /\ up[c] # <<>>
    BY <1>3 DEF ReadStats, vars, network
  <2>2. CASE d = c
    BY <1>0, <2>1, <2>2 DEF Fits, Early, Late
  <2>3. CASE d # c
    <3>1. up'[d] = up[d]
      BY <1>0, <1>3, <2>3 DEF ReadStats, StreamTypes
    <3> QED BY <1>0, <2>1, <3>1, FitsKept DEF Plain
  <2> QED BY <2>2, <2>3
<1>4. CASE ReadFails(c)
  <2>1. Moved(c, {"in"}, {"leave1"}) /\ UNCHANGED <<members, closed, client, up, down>> /\ c \in closed
    BY <1>0, <1>4, GoesTo DEF ReadFails, StartLeave, network, flow
  <2>2. CASE d = c
    BY <1>0, <2>1, <2>2 DEF Fits, Moved, Early, Late
  <2>3. CASE d # c
    BY <1>0, <2>1, <2>3, FitsKept DEF Moved, Plain
  <2> QED BY <2>2, <2>3
<1>5. CASE BeginWriting(c)
  <2>1. UNCHANGED <<members, closed, client, up, down>>
    BY <1>5 DEF BeginWriting, CastRoom, ByeRoom, network
  <2>2. Moved(c, {"cast2"}, {"casting"}) \/ Moved(c, {"bye2"}, {"byeing"})
    BY <1>0, <1>5, GoesTo DEF BeginWriting, CastRoom, ByeRoom
  <2>3. CASE d = c
    BY <1>0, <2>1, <2>2, <2>3 DEF Fits, Moved, Early, Late
  <2>4. CASE d # c
    BY <1>0, <2>1, <2>2, <2>4, FitsKept DEF Moved, Plain
  <2> QED BY <2>3, <2>4
<1>6. CASE Write(c)
  <2>1. UNCHANGED <<pc, members, closed, client, up>>
    BY <1>6 DEF Write, vars, network
  <2>2. PICK q \in current[c] : Deliver(q, sending[c])
    BY <1>6 DEF Write
  <2>3. Plain(d)
    BY <1>0, <2>2, DeliverIsPlain DEF TaskTypes, Downlink
  <2> QED BY <1>0, <2>1, <2>3, FitsKept
<1>7. ASSUME Finish(c), Plain(d), UNCHANGED <<client, up>> PROVE Fits(d)'
  <2>1. UNCHANGED <<members, closed>>
    BY <1>7 DEF Finish, EndCast, EndBye, network
  <2>2. Moved(c, {"casting"}, {"in"}) \/ Moved(c, {"byeing"}, {"out"})
    BY <1>0, <1>7, GoesTo, GoesOn DEF Finish, EndCast, EndBye
  <2>3. CASE d = c
    BY <1>0, <1>7, <2>1, <2>2, <2>3 DEF Fits, Moved, Early, Late
  <2>4. CASE d # c
    BY <1>0, <1>7, <2>1, <2>2, <2>4, FitsKept DEF Moved
  <2> QED BY <2>3, <2>4
<1>8. CASE LastWrite(c)
  <2>1. PICK q \in current[c] : Deliver(q, sending[c])
    BY <1>8 DEF LastWrite
  <2>2. Plain(d)
    BY <1>0, <2>1, DeliverIsPlain DEF TaskTypes, Downlink
  <2> QED BY <1>7, <1>8, <2>2 DEF LastWrite
<1>9. CASE NoWrite(c)
  BY <1>7, <1>9 DEF NoWrite, Plain
<1>10. CASE LeaveRoomAndTell(c)
  <2>1. /\ Moved(c, {"leave2"}, {"bye1"}) /\ UNCHANGED <<closed, client, up, down>>
        /\ members' = members \ {c}
    BY <1>0, <1>10, GoesTo DEF LeaveRoomAndTell, LeaveRoom, network
  <2>2. CASE d = c
    BY <1>0, <2>1, <2>2 DEF Fits, Moved, Early, Late
  <2>3. CASE d # c
    BY <1>0, <2>1, <2>3, FitsKept DEF Moved, Plain
  <2> QED BY <2>2, <2>3
<1> QED BY <1>1, <1>2, <1>3, <1>4, <1>5, <1>6, <1>8, <1>9, <1>10 DEF ServerStep

LEMMA ClientFitsNext ==
    ASSUME FlowInv, NEW c \in Conns, ClientStep(c)
    PROVE  ClientsFit'
<1> USE DEF FlowInv
<1>0. /\ TypeOK /\ c \in Tasks /\ StreamTypes /\ ClientTypes /\ \A d \in Conns : Fits(d)
      /\ pc \in [Tasks -> {"idle", "join1", "join2", "list", "in", "cast1", "cast2", "casting",
                           "leave1", "leave2", "bye1", "bye2", "byeing", "out"}]
  BY FlowTypes DEF IInv, Tasks, ClientsFit, TypeOK
<1> SUFFICES ASSUME NEW d \in Conns PROVE Fits(d)'
  BY DEF ClientsFit
<1>1. CASE Connect(c)
  <2>1. /\ Moved(c, {"idle"}, {"join1"}) /\ UNCHANGED <<members, closed, up, down>>
        /\ client' = [client EXCEPT ![c] = "joining"]
    BY <1>0, <1>1, GoesTo DEF Connect, StartJoin, network
  <2>2. CASE d = c
    BY <1>0, <2>1, <2>2 DEF Fits, Moved, Early, Late, ClientTypes
  <2>3. CASE d # c
    BY <1>0, <2>1, <2>3, FitsKept DEF Moved, Plain, ClientTypes
  <2> QED BY <2>2, <2>3
<1>2. CASE RecvPeerList(c)
  <2>1. /\ UNCHANGED <<pc, members, closed, up>> /\ client[c] = "joining" /\ Receive(c)
        /\ client' = [client EXCEPT ![c] = IF Head(down[c]) = "PeerList" THEN "keying" ELSE @]
    BY <1>2 DEF RecvPeerList, vars, network
  <2>2. Plain(d)
    BY <1>0, <2>1, ReceiveIsPlain
  <2>3. CASE d = c /\ Head(down[c]) = "PeerList"
    <3>1. down[c] \in Seq(Downlink) /\ down[c] # <<>>
      BY <1>0, <2>1 DEF StreamTypes, Receive
    <3>2. 1 \in DOMAIN down[c] /\ down[c][1] = "PeerList"
      BY <2>3, <3>1, Tailed
    <3>3. pc[c] \notin Early
      BY <1>0, <3>2 DEF Fits
    <3> QED BY <1>0, <2>1, <2>3, <3>3 DEF Fits, Early, ClientTypes
  <2>4. CASE d # c \/ Head(down[c]) # "PeerList"
    <3>1. client'[d] = client[d]
      BY <1>0, <2>1, <2>4 DEF ClientTypes
    <3> QED BY <1>0, <2>1, <2>2, <3>1, FitsKept
  <2> QED BY <2>3, <2>4
<1>3. CASE Handle(c)
  <2>1. /\ UNCHANGED <<pc, members, closed, up>> /\ client[c] = "call" /\ Receive(c)
        /\ client' = [client EXCEPT ![c] = IF Head(down[c]) = "PeerJoined" THEN "answering" ELSE @]
    BY <1>3 DEF Handle, vars, network
  <2>2. Plain(d)
    BY <1>0, <2>1, ReceiveIsPlain
  <2>3. CASE d = c
    <3>1. pc[c] \in Early => \A i \in DOMAIN down'[c] : down'[c][i] # "PeerList"
      BY <1>0, <2>2, <2>3, PlainBringsNone DEF Fits
    <3> QED BY <1>0, <2>1, <2>3, <3>1 DEF Fits, ClientTypes
  <2>4. CASE d # c
    BY <1>0, <2>1, <2>2, <2>4, FitsKept DEF ClientTypes
  <2> QED BY <2>3, <2>4
<1>4. CASE SendKey(c)
  <2>1. /\ UNCHANGED <<pc, members, closed, down>> /\ client[c] \in {"keying", "answering"}
        /\ client' = [client EXCEPT ![c] = "call"]
        /\ \A e \in Conns : e # c => up'[e] = up[e]
    BY <1>0, <1>4 DEF SendKey, Send, vars, network, StreamTypes
  <2>2. CASE d = c
    BY <1>0, <2>1, <2>2 DEF Fits, ClientTypes
  <2>3. CASE d # c
    BY <1>0, <2>1, <2>3, FitsKept DEF Plain, ClientTypes
  <2> QED BY <2>2, <2>3
<1>5. CASE SendReport(c)
  <2>1. /\ UNCHANGED <<pc, members, closed, client, down>> /\ client[c] \in {"call", "answering"}
        /\ \A e \in Conns : e # c => up'[e] = up[e]
    BY <1>0, <1>5 DEF SendReport, Report, Send, vars, network, StreamTypes
  <2>2. CASE d = c
    BY <1>0, <2>1, <2>2 DEF Fits
  <2>3. CASE d # c
    BY <1>0, <2>1, <2>3, FitsKept DEF Plain
  <2> QED BY <2>2, <2>3
<1>6. CASE ClientLeaves(c)
  <2>1. UNCHANGED <<pc, members, client, up>> /\ closed' = closed \cup {c} /\ Plain(d)
    BY <1>0, <1>6 DEF ClientLeaves, ConnectionEnds, Plain, StreamTypes
  <2> QED BY <1>0, <2>1, FitsKept
<1> QED BY <1>1, <1>2, <1>3, <1>4, <1>5, <1>6 DEF ClientStep

LEMMA LockFitsNext ==
    ASSUME FlowInv, NEW t \in Tasks, LockStep(t)
    PROVE  ClientsFit'
<1> USE DEF FlowInv
<1>0. /\ TypeOK /\ StreamTypes /\ UNCHANGED <<client, up, down>>
      /\ \A d \in Conns : Fits(d)
  BY FlowTypes DEF IInv, LockStep, flow, ClientsFit
<1> SUFFICES ASSUME NEW d \in Conns PROVE Fits(d)'
  BY DEF ClientsFit
<1>1. CASE JoinRooms(t)
  <2>1. Moved(t, {"join1"}, {"join2"}) /\ UNCHANGED <<members, closed>>
    BY <1>0, <1>1, GoesTo DEF JoinRooms, network
  <2> QED BY <1>0, <2>1, FitsKept DEF Fits, Moved, Early, Late, Plain
<1>2. CASE JoinRoom(t)
  <2>1. Moved(t, {"join2"}, {"list"}) /\ members' = members \cup {t} /\ UNCHANGED closed
    BY <1>0, <1>2, GoesTo DEF JoinRoom, network
  <2> QED BY <1>0, <2>1, FitsKept DEF Fits, Moved, Early, Late, Plain
<1>3. CASE AbortJoin(t)
  <2>1. Moved(t, {"list"}, {"out"}) /\ UNCHANGED <<members, closed>> /\ t \in closed
    BY <1>0, <1>3, GoesTo DEF AbortJoin, network
  <2> QED BY <1>0, <2>1, FitsKept DEF Fits, Moved, Early, Late, Plain
<1>4. CASE CastRooms(t)
  <2>1. Moved(t, {"cast1"}, {"cast2"}) /\ UNCHANGED <<members, closed>>
    BY <1>0, <1>4, GoesTo DEF CastRooms, network
  <2> QED BY <1>0, <2>1, FitsKept DEF Fits, Moved, Early, Late, Plain
<1>5. CASE LeaveRooms(t)
  <2>1. Moved(t, {"leave1"}, {"leave2"}) /\ UNCHANGED <<members, closed>>
    BY <1>0, <1>5, GoesTo DEF LeaveRooms, network
  <2> QED BY <1>0, <2>1, FitsKept DEF Fits, Moved, Early, Late, Plain
<1>6. CASE ByeRooms(t)
  <2>1. Moved(t, {"bye1"}, {"bye2"}) /\ UNCHANGED <<members, closed>>
    BY <1>0, <1>6, GoesTo DEF ByeRooms, network
  <2> QED BY <1>0, <2>1, FitsKept DEF Fits, Moved, Early, Late, Plain
<1> QED BY <1>1, <1>2, <1>3, <1>4, <1>5, <1>6 DEF LockStep

LEMMA ForwarderFitsNext ==
    ASSUME FlowInv, NEW f \in Forwarders, ForwarderStep(f)
    PROVE  ClientsFit'
<1>1. StreamTypes /\ UNCHANGED <<client, up, down>> /\ \A d \in Conns : Fits(d)
  BY FlowTypes DEF FlowInv, ForwarderStep, flow, ClientsFit
<1>2. (\A d \in Conns : pc'[d] = pc[d]) /\ UNCHANGED <<members, closed>>
  BY ForwarderMoves DEF FlowInv, IInv
<1> QED BY <1>1, <1>2, FitsKept DEF ClientsFit, Plain

\* Every step of the tasks and the clients keeps them in step.
LEMMA FlowInvNext == FlowInv /\ [FullNext]_flowVars => FlowInv'
<1> SUFFICES ASSUME FlowInv, [FullNext]_flowVars PROVE FlowInv'
  OBVIOUS
<1>1. IInv'
  BY StepIsLockStep, IInvNext DEF FlowInv
<1>2. FlowTypeOK' /\ ClientsFit'
  <2>1. ASSUME NEW c \in Conns, ServerStep(c) PROVE <1>2
    BY <2>1, ServerTypesNext, ServerFitsNext
  <2>2. ASSUME NEW c \in Conns, ClientStep(c) PROVE <1>2
    BY <2>2, ClientTypesNext, ClientFitsNext
  <2>3. ASSUME NEW t \in Tasks, LockStep(t) PROVE <1>2
    BY <2>3, LockTypesNext, LockFitsNext
  <2>4. ASSUME NEW f \in Forwarders, ForwarderStep(f) PROVE <1>2
    BY <2>4, ForwarderTypesNext, ForwarderFitsNext
  <2>5. CASE UNCHANGED flowVars
    BY <2>5 DEF FlowInv, FlowTypeOK, ClientsFit, Fits, flowVars, flow, task, vars, network
  <2> QED BY <2>1, <2>2, <2>3, <2>4, <2>5 DEF FullNext, FlowNext
<1> QED BY <1>1, <1>2 DEF FlowInv

LEMMA FlowInvariant == FullSpec => []FlowInv
BY FlowInvInit, FlowInvNext, PTL DEF FullSpec

\* Streams keep to their window and messages to their recipients, whoever joins,
\* leaves and reports.
THEOREM FlowTyped == FullSpec => []FlowTypeOK
<1>1. FlowInv => FlowTypeOK
  BY DEF FlowInv
<1> QED BY <1>1, FlowInvariant, PTL

----------------------------------------------------------------------------
(* Standstill *)

\* A client that its task, or another one, cannot write to when nothing moves is
\* one that has to answer and cannot.
LEMMA FullIsDeaf ==
    ASSUME FlowInv, Standstill, NEW q \in Conns, ~CanDeliver(q), q \in members
    PROVE  Deaf(q)
<1> USE DEF FlowInv
<1>0. /\ StreamTypes /\ ClientTypes /\ Fits(q) /\ ~CanFollow(q) /\ ~CanGoOn(q) /\ q \in Tasks
      /\ pc[q] \in {"idle", "join1", "join2", "list", "in", "cast1", "cast2", "casting",
                    "leave1", "leave2", "bye1", "bye2", "byeing", "out"}
  BY FlowTypes DEF IInv, TypeOK, Tasks, ClientsFit, Standstill
<1>1. /\ q \notin closed /\ Len(down[q]) = Window /\ Len(down[q]) > 0 /\ down[q] # <<>>
      /\ Len(up[q]) \in Nat /\ Len(up[q]) <= Window
  <2>1. down[q] \in Seq(Downlink) /\ up[q] \in Seq(Uplink)
    BY <1>0 DEF StreamTypes
  <2>2. Len(down[q]) \in Nat /\ Len(up[q]) \in Nat
    BY <2>1
  <2>3. Len(down[q]) = Window /\ Len(down[q]) > 0
    BY <1>0, <2>2, WindowAssumption DEF StreamTypes, CanDeliver
  <2>4. down[q] # <<>>
    BY <2>3
  <2> QED BY <1>0, <2>2, <2>3, <2>4 DEF CanDeliver, StreamTypes
<1>2. client[q] \in {"keying", "answering"} /\ ~CanSend(q)
  BY <1>0, <1>1 DEF CanFollow, ClientTypes, Fits
<1>3. Len(up[q]) = Window
  BY <1>1, <1>2, WindowAssumption DEF CanSend
<1>4. up[q] # <<>>
  BY <1>3, WindowAssumption
<1>5. client[q] = "answering"
  BY <1>0, <1>2, <1>4 DEF Fits
<1>6. pc[q] \in {"cast1", "cast2", "casting"}
  BY <1>0, <1>1, <1>4, <1>5 DEF Fits, Late, CanGoOn
<1> QED BY <1>1, <1>3, <1>5, <1>6 DEF Deaf

LEMMA StuckByReads == FlowInv /\ QueuesMatch => StuckForTwoReasonsOnly
<1> SUFFICES ASSUME FlowInv, QueuesMatch, Standstill, ~RecursiveRead
             PROVE  WaitForEachOther
  BY DEF StuckForTwoReasonsOnly
<1> USE DEF FlowInv
<1>0. TypeOK /\ StreamTypes /\ TaskTypes /\ \A t \in Tasks : ~CanGoOn(t)
  BY FlowTypes DEF IInv, Standstill
<1>1. PICK t \in Tasks : CanProceed(t)
  BY StuckByRecursiveRead DEF StuckOnlyByRecursiveRead, Standstill
<1>2. pc[t] \in {"list", "casting", "byeing"} /\ t \in Conns
  BY <1>0, <1>1, ConnsAssumption DEF CanGoOn, Tasks, IInv, ForwardersRead
<1>3. pc[t] # "list"
  <2> SUFFICES ASSUME pc[t] = "list" PROVE FALSE
    OBVIOUS
  <2>1. ~CanDeliver(t) /\ client[t] = "joining" /\ ~CanFollow(t)
    BY <1>0, <1>2 DEF CanGoOn, ClientsFit, Fits, Standstill
  <2>2. t \notin closed /\ ~(Len(down[t]) < Window)
    BY <2>1 DEF CanDeliver
  <2>3. down[t] # <<>>
    BY <2>2, WindowAssumption
  <2> QED BY <2>1, <2>2, <2>3 DEF CanFollow
<1>4. ASSUME NEW c \in Conns, pc[c] \in {"casting", "byeing"}
      PROVE  \E q \in current[c] : Deaf(q)
  <2>1. PICK q \in current[c] : ~CanDeliver(q)
    BY <1>0, <1>4 DEF CanGoOn, Tasks
  <2>2. q \in Conns /\ q \in members
    BY <1>0, <1>4 DEF TaskTypes
  <2> QED BY <2>1, <2>2, FullIsDeaf
<1> QED BY <1>2, <1>3, <1>4 DEF WaitForEachOther

\* There are two ways for a room to come to a standstill, for any number of
\* connections and forwarders, any window and any number of reports.
THEOREM StuckForNoOtherReason == FullSpec => []StuckForTwoReasonsOnly
<1>1. FullSpec => []QueuesMatch
  BY RefinesRoomsLock, QueuesAlwaysMatch, PTL
<1> QED BY <1>1, FlowInvariant, StuckByReads, PTL

\* In particular without any datagrams, as TLC checks it.
LEMMA FlowIsFull == FlowSpec => FullSpec
<1>1. [FlowNext]_flowVars => [FullNext]_flowVars
  BY DEF FullNext
<1> QED BY <1>1, PTL DEF FlowSpec, FullSpec

=============================================================================
