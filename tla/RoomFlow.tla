------------------------------ MODULE RoomFlow ------------------------------
(***************************************************************************)
(* RoomsLock with what the tasks write while they hold the guards.         *)
(*                                                                         *)
(* A control stream holds a limited number of unread messages, and who     *)
(* writes to a full one waits: a server task with the read guards of both  *)
(* locks, the control loop of a client between reading a message and       *)
(* reading the next one.  Clients write keys, but also a ReceiverReport    *)
(* for every peer they hear (audio.rs) and a StatsReport (stats.rs), from  *)
(* loops of their own.  What may come of all that waiting is the subject   *)
(* here; what the messages say is the subject of SfuRoom.                  *)
(***************************************************************************)
EXTENDS RoomsLock

CONSTANTS
    Window,         \* unread messages a control stream holds before writers wait
    MaxReports      \* bound: reports sent by all clients together

ASSUME WindowAssumption == Window \in Nat \ {0} /\ MaxReports \in Nat

VARIABLES
    client,     \* where the control loop of each client is
    up, down,   \* the control streams, client to server and back
    sending,    \* what the task of a connection broadcasts
    current,    \* the recipient it is writing to, as a set
    todo,       \* recipients that follow
    reports     \* how many reports have been sent

task     == <<sending, current, todo>>
flow     == <<client, up, down, task, reports>>
flowVars == <<vars, flow>>

(* A faulty variant, to see the properties fail: the sender is not left out. *)
Others_WithOneself(c) == Conns

\* Of a message to the server it matters to whom it is passed on: a key to all
\* others, a report to its target, statistics to nobody.
Others(c) == Conns \ {c}
Uplink    == SUBSET Conns
Downlink  == {"PeerList", "PeerJoined", "other"}

FlowTypeOK ==
    /\ client \in [Conns -> {"away", "joining", "keying", "call", "answering"}]
    /\ up \in [Conns -> Seq(Uplink)]
    /\ down \in [Conns -> Seq(Downlink)]
    /\ sending \in [Conns -> {"PeerJoined", "other"}]
    /\ current \in [Conns -> SUBSET Conns]
    /\ todo \in [Conns -> SUBSET Conns]
    /\ reports \in 0 .. MaxReports
    /\ \A c \in Conns :
          /\ Len(up[c]) <= Window /\ Len(down[c]) <= Window
          /\ \A i \in DOMAIN up[c] : c \notin up[c][i]
          /\ c \notin current[c] /\ c \notin todo[c]
          /\ \A q, r \in current[c] : q = r
          /\ IF pc[c] \in {"casting", "byeing"}
                THEN current[c] \cup todo[c] \subseteq members ELSE current[c] = {}

FlowInit ==
    /\ Init
    /\ client = [c \in Conns |-> "away"]
    /\ up = [c \in Conns |-> <<>>]
    /\ down = [c \in Conns |-> <<>>]
    /\ sending = [c \in Conns |-> "PeerJoined"]
    /\ current = [c \in Conns |-> {}]
    /\ todo = [c \in Conns |-> {}]
    /\ reports = 0

----------------------------------------------------------------------------
(* Wire helpers *)

\* send_control_msg waits for stream credit, unless the connection is lost.
CanDeliver(q) == q \in closed \/ Len(down[q]) < Window

Deliver(q, m) ==
    /\ CanDeliver(q)
    /\ down' = IF q \in closed THEN down ELSE [down EXCEPT ![q] = Append(@, m)]

\* send_control: likewise.
CanSend(c) == c \notin closed /\ Len(up[c]) < Window

Send(c, m) ==
    /\ CanSend(c)
    /\ up' = [up EXCEPT ![c] = Append(@, m)]

\* recv_control.
Receive(c) ==
    /\ c \notin closed /\ down[c] # <<>>
    /\ down' = [down EXCEPT ![c] = Tail(@)]

----------------------------------------------------------------------------
(* The server task of a connection *)

\* The client has connected and sent Auth and JoinRoom, which its task reads at
\* once.
Connect(c) ==
    /\ StartJoin(c)
    /\ client' = [client EXCEPT ![c] = "joining"]
    /\ UNCHANGED <<up, down, task, reports>>

WritePeerList(c) ==
    /\ ListSent(c)
    /\ Deliver(c, "PeerList")
    /\ todo' = [todo EXCEPT ![c] = Others(c)]
    /\ UNCHANGED <<client, up, sending, current, reports>>

\* control_loop reads a key or a report and passes it on ...
ReadRelayed(c) ==
    /\ RelayControl(c)
    /\ up[c] # <<>> /\ Head(up[c]) # {}
    /\ up' = [up EXCEPT ![c] = Tail(@)]
    /\ todo' = [todo EXCEPT ![c] = Head(up[c])]
    /\ UNCHANGED <<client, down, sending, current, reports>>

\* ... or statistics, which it only logs.
ReadStats(c) ==
    /\ pc[c] = "in"
    /\ up[c] # <<>> /\ Head(up[c]) = {}
    /\ up' = [up EXCEPT ![c] = Tail(@)]
    /\ UNCHANGED <<vars, client, down, task, reports>>

\* Reading fails once the connection has ended, after any part of what was sent.
ReadFails(c) ==
    /\ c \in closed
    /\ StartLeave(c)
    /\ UNCHANGED flow

\* The map of the room is walked through in whatever order it has: the next
\* recipient of S is written to, and nobody else before that is done.
GoTo(c, S) ==
    \/ /\ S = {}
       /\ current' = [current EXCEPT ![c] = {}]
       /\ todo' = [todo EXCEPT ![c] = {}]
    \/ \E q \in S :
          /\ current' = [current EXCEPT ![c] = {q}]
          /\ todo' = [todo EXCEPT ![c] = S \ {q}]

\* Both read locks are held: those of the recipients that are in the room get it.
BeginWriting(c) ==
    /\ c \in Conns
    /\ CastRoom(c) \/ ByeRoom(c)
    /\ GoTo(c, todo[c] \cap members)
    /\ UNCHANGED <<client, up, down, sending, reports>>

\* One write, by broadcast_to_room or send_to_peer_in_room; an error is only logged.
Write(c) ==
    /\ todo[c] # {}
    /\ \E q \in current[c] : Deliver(q, sending[c])
    /\ GoTo(c, todo[c])
    /\ UNCHANGED <<vars, client, up, sending, reports>>

\* Nothing is awaited after the last write: the guards go with it.
Finish(c) ==
    /\ c \in Conns
    /\ EndCast(c) \/ EndBye(c)
    /\ sending' = [sending EXCEPT ![c] = "other"]

LastWrite(c) ==
    /\ todo[c] = {}
    /\ \E q \in current[c] : Deliver(q, sending[c])
    /\ Finish(c)
    /\ current' = [current EXCEPT ![c] = {}]
    /\ UNCHANGED <<client, up, todo, reports>>

\* There is nobody to write to.
NoWrite(c) ==
    /\ current[c] = {}
    /\ Finish(c)
    /\ UNCHANGED <<client, up, down, current, todo, reports>>

\* The peer is out of the room, and the others are to hear of it.
LeaveRoomAndTell(c) ==
    /\ LeaveRoom(c)
    /\ todo' = [todo EXCEPT ![c] = Others(c)]
    /\ UNCHANGED <<client, up, down, sending, current, reports>>

\* The steps that only concern the locks.
LockStep(t) ==
    /\ \/ JoinRooms(t) \/ JoinRoom(t) \/ AbortJoin(t)
       \/ CastRooms(t) \/ LeaveRooms(t) \/ ByeRooms(t)
    /\ UNCHANGED flow

\* The forwarders send datagrams, without waiting for anybody.
ForwarderStep(f) ==
    /\ f \in Forwarders
    /\ ForwardDatagram(f) \/ ForwarderEnds(f) \/ CastRoom(f) \/ EndCast(f)
    /\ UNCHANGED flow

----------------------------------------------------------------------------
(* The client of a connection *)

\* JoinRoomUseCase::execute waits for the PeerList and drops everything else.
RecvPeerList(c) ==
    /\ client[c] = "joining"
    /\ Receive(c)
    /\ client' = [client EXCEPT ![c] = IF Head(down[c]) = "PeerList" THEN "keying" ELSE @]
    /\ UNCHANGED <<vars, up, task, reports>>

\* HandleControlUseCase::run: of all messages only a PeerJoined is answered.
Handle(c) ==
    /\ client[c] = "call"
    /\ Receive(c)
    /\ client' = [client EXCEPT ![c] = IF Head(down[c]) = "PeerJoined" THEN "answering" ELSE @]
    /\ UNCHANGED <<vars, up, task, reports>>

\* distribute_existing, when the call begins and in answer to a PeerJoined: the
\* control loop reads nothing before the key is written.
SendKey(c) ==
    /\ client[c] \in {"keying", "answering"}
    /\ Send(c, Others(c))
    /\ client' = [client EXCEPT ![c] = "call"]
    /\ UNCHANGED <<vars, down, task, reports>>

\* A report on each peer the client hears media of, or statistics for the server.
Report(c) ==
    /\ reports < MaxReports
    /\ reports' = reports + 1
    /\ \/ \E q \in Others(c) : client[q] \in {"call", "answering"} /\ Send(c, {q})
       \/ Send(c, {})
    /\ UNCHANGED <<vars, client, down, task>>

(* A faulty variant, to see the properties fail: the reporters are spawned before
   the first key is sent. *)
SendReport_BeforeTheKey(c) ==
    /\ client[c] \in {"keying", "call", "answering"}
    /\ Report(c)

\* The playout loop and the stats reporter, which build_call_session spawns when
\* the first key has been sent, run beside the control loop.
SendReport(c) ==
    /\ client[c] \in {"call", "answering"}
    /\ Report(c)

\* What is on its way to a client that leaves is lost.
ClientLeaves(c) ==
    /\ ConnectionEnds(c)
    /\ down' = [down EXCEPT ![c] = <<>>]
    /\ UNCHANGED <<client, up, task, reports>>

----------------------------------------------------------------------------
ServerStep(c) ==
    \/ WritePeerList(c) \/ ReadRelayed(c) \/ ReadStats(c) \/ ReadFails(c)
    \/ BeginWriting(c) \/ Write(c) \/ LastWrite(c) \/ NoWrite(c) \/ LeaveRoomAndTell(c)

ClientStep(c) ==
    \/ Connect(c) \/ RecvPeerList(c) \/ Handle(c)
    \/ SendKey(c) \/ SendReport(c) \/ ClientLeaves(c)

FlowNext ==
    \/ \E c \in Conns : ServerStep(c) \/ ClientStep(c)
    \/ \E t \in Tasks : LockStep(t)

FlowSpec == FlowInit /\ [][FlowNext]_flowVars

\* With the datagram forwarders as well, which write to no control stream but
\* queue for the locks: what the proofs are about.
FullNext == FlowNext \/ \E f \in Forwarders : ForwarderStep(f)

FullSpec == FlowInit /\ [][FullNext]_flowVars

----------------------------------------------------------------------------
(* Properties *)

\* What a task needs to go on: the lock it waits for, credit on the stream it
\* writes to, or something to read.  (A datagram that a forwarder could still
\* read does not count, it moves nothing else.)
CanGoOn(t) ==
    \/ pc[t] \notin {"list", "casting", "byeing"} /\ CanProceed(t)
    \/ t \in Forwarders /\ pc[t] = "casting"
    \/ t \in Conns /\ pc[t] = "list" /\ CanDeliver(t)
    \/ /\ t \in Conns /\ pc[t] \in {"casting", "byeing"}
       /\ \A q \in current[t] : CanDeliver(q)
    \/ t \in Conns /\ pc[t] = "in" /\ (up[t] # <<>> \/ t \in closed)

\* What the control loop of a client needs.
CanFollow(c) ==
    \/ client[c] \in {"joining", "call"} /\ c \notin closed /\ down[c] # <<>>
    \/ client[c] \in {"keying", "answering"} /\ CanSend(c)

\* Something has begun, and neither the server nor a control loop can go on.
Standstill ==
    /\ \E t \in Tasks : Busy(t)
    /\ \A t \in Tasks : ~CanGoOn(t)
    /\ \A c \in Conns : ~CanFollow(c)

\* A client that has to write a key before it reads on and whose stream is full,
\* since its own task is passing on a message: that task waits for a lock, or
\* for another client to read.
Deaf(c) ==
    /\ client[c] = "answering" /\ c \notin closed
    /\ Len(down[c]) = Window /\ Len(up[c]) = Window
    /\ pc[c] \in {"cast1", "cast2", "casting"}

WaitForEachOther ==
    LET Writers == {c \in Conns : pc[c] \in {"casting", "byeing"}}
    IN  Writers # {} /\ \A c \in Writers : \E q \in current[c] : Deaf(q)

\* There are two ways for a room to come to a standstill, whatever joins, leaves
\* and reports, and however the fair locks are queued for: the recursive read,
\* and clients that cannot read before the server has read from them while
\* every guard the server waits for is held by a task that writes to one of
\* them.  A client that is still joining, one that sends its first key and one
\* that is gone never block anybody for good.
StuckForTwoReasonsOnly == Standstill => RecursiveRead \/ WaitForEachOther

=============================================================================
