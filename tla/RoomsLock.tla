----------------------------- MODULE RoomsLock -----------------------------
(***************************************************************************)
(* How the tasks of the SFU server (adapters/quic/server.rs) take and drop *)
(* `rooms`, the lock of the room map, and the lock of the room inside it.  *)
(*                                                                         *)
(* A connection's task joins (both locks for writing), announces itself,   *)
(* relays control messages (both for reading) and finally leaves: that     *)
(* takes `rooms` for reading and the room for writing, and, with the first *)
(* guard still held, runs broadcast_to_room, which takes `rooms` for       *)
(* reading a second time.  The connection's datagram forwarder, spawned    *)
(* when the handshake is over, takes both for reading again and again;     *)
(* nobody stops it, so it outlives the departure: it ends when its         *)
(* connection has ended and the datagrams received before are forwarded.   *)
(*                                                                         *)
(* What a task writes to control streams while it holds the guards, and    *)
(* how long it waits for the clients there, is the subject of RoomFlow.    *)
(***************************************************************************)
EXTENDS Naturals, Sequences, FiniteSets

CONSTANTS
    Conns,          \* control tasks, one per connection
    Forwarders,     \* datagram forwarders
    Owner,          \* the connection of each
    MaxClosed,      \* bound: connections that end
    MaxBuffered     \* bound: datagrams still to be read when a connection ends

ASSUME ConnsAssumption ==
    /\ Conns \cap Forwarders = {}
    /\ Owner \in [Forwarders -> Conns]
    /\ MaxClosed \in Nat /\ MaxBuffered \in Nat

VARIABLES
    pc,
    members,                                \* Room.peers
    closed,                                 \* connections that have ended
    buffered,                               \* datagrams an ended one left to its forwarder
    roomsQueue, roomsReads, roomsWriter,    \* RwLock of the room map
    roomQueue, roomReads, roomWriter        \* RwLock of the room

Tasks == Conns \cup Forwarders

Rooms == INSTANCE FairRwLock
           WITH queue <- roomsQueue, reads <- roomsReads, writer <- roomsWriter
Room  == INSTANCE FairRwLock
           WITH queue <- roomQueue, reads <- roomReads, writer <- roomWriter

roomsLock == <<roomsQueue, roomsReads, roomsWriter>>
roomLock  == <<roomQueue, roomReads, roomWriter>>
network   == <<closed, buffered>>
vars      == <<pc, members, network, roomsLock, roomLock>>

TypeOK ==
    /\ pc \in [Tasks -> {"idle", "join1", "join2", "list", "in", "cast1", "cast2", "casting",
                         "leave1", "leave2", "bye1", "bye2", "byeing", "out"}]
    /\ members \subseteq Conns
    /\ closed \subseteq Conns
    /\ buffered \in [Forwarders -> 0 .. MaxBuffered]
    /\ Rooms!TypeOK
    /\ Room!TypeOK

Init ==
    /\ pc = [t \in Tasks |-> "idle"]
    /\ members = {}
    /\ closed = {}
    /\ buffered = [f \in Forwarders |-> 0]
    /\ Rooms!Init
    /\ Room!Init

Goto(t, from, to) == pc[t] = from /\ pc' = [pc EXCEPT ![t] = to]

----------------------------------------------------------------------------
(* add_peer_to_room *)

StartJoin(c) ==
    /\ c \in Conns
    /\ Goto(c, "idle", "join1")
    /\ Rooms!Ask(c, "write")
    /\ UNCHANGED <<members, network, roomLock>>

JoinRooms(c) ==
    /\ Goto(c, "join1", "join2")
    /\ Rooms!GrantWrite(c)
    /\ Room!Ask(c, "write")
    /\ UNCHANGED <<members, network>>

\* Insert; both guards are dropped at the end of the function.
JoinRoom(c) ==
    /\ Goto(c, "join2", "list")
    /\ Room!PassWrite(c)
    /\ members' = members \cup {c}
    /\ Rooms!Release(c)
    /\ UNCHANGED network

\* The PeerList has been written, and the handshake goes on to announce the peer ...
ListSent(c) ==
    /\ Goto(c, "list", "cast1")
    /\ Rooms!Ask(c, "read")
    /\ UNCHANGED <<members, network, roomLock>>

\* ... or it cannot be written, and `?` ends the task.
AbortJoin(c) ==
    /\ c \in closed
    /\ Goto(c, "list", "out")
    /\ UNCHANGED <<members, network, roomsLock, roomLock>>

----------------------------------------------------------------------------
(* broadcast_to_room, send_to_peer_in_room, forward_datagrams *)

StartCast(t) ==
    /\ Goto(t, "in", "cast1")
    /\ Rooms!Ask(t, "read")
    /\ UNCHANGED <<members, roomLock>>

\* control_loop has read a message to pass on.
RelayControl(c) ==
    /\ c \in Conns
    /\ StartCast(c)
    /\ UNCHANGED network

\* read_datagram returns a datagram, also one that was received before the
\* connection ended.
ForwardDatagram(f) ==
    /\ f \in Forwarders
    /\ StartCast(f)
    /\ IF Owner[f] \in closed
          THEN buffered[f] > 0 /\ buffered' = [buffered EXCEPT ![f] = @ - 1]
          ELSE UNCHANGED buffered
    /\ UNCHANGED closed

(* A faulty variant, to see the properties fail: the error of read_datagram is
   treated like a datagram that is too short. *)
ForwarderEnds_Continues(f) ==
    /\ f \in Forwarders
    /\ Owner[f] \in closed /\ buffered[f] = 0
    /\ Goto(f, "in", "in")
    /\ UNCHANGED <<members, network, roomsLock, roomLock>>

\* ... and then the error.
ForwarderEnds(f) ==
    /\ f \in Forwarders
    /\ Owner[f] \in closed /\ buffered[f] = 0
    /\ Goto(f, "in", "out")
    /\ UNCHANGED <<members, network, roomsLock, roomLock>>

(* A faulty variant, to see the properties fail: the room is read without its lock. *)
CastRooms_SkipsRoomLock(t) ==
    /\ Goto(t, "cast1", "casting")
    /\ Rooms!GrantRead(t)
    /\ UNCHANGED <<members, network, roomLock>>

CastRooms(t) ==
    /\ Goto(t, "cast1", "cast2")
    /\ Rooms!GrantRead(t)
    /\ Room!Ask(t, "read")
    /\ UNCHANGED <<members, network>>

CastRoom(t) ==
    /\ Goto(t, "cast2", "casting")
    /\ Room!GrantRead(t)
    /\ UNCHANGED <<members, network, roomsLock>>

\* A broadcast or a datagram is done.  The end of its first broadcast is the end
\* of a connection's handshake: the forwarder is spawned.
GoOn(t) ==
    /\ pc[t] = "casting"
    /\ pc' = [u \in Tasks |->
                IF u = t \/ (u \in Forwarders /\ Owner[u] = t /\ pc[u] = "idle")
                THEN "in" ELSE pc[u]]

(* A faulty variant, to see the properties fail: the guard of `rooms` is forgotten. *)
EndCast_LeaksRooms(t) ==
    /\ GoOn(t)
    /\ Room!Release(t)
    /\ UNCHANGED <<members, network, roomsLock>>

(* A faulty variant, to see the properties fail: the guard of the room is forgotten. *)
EndCast_LeaksRoom(t) ==
    /\ GoOn(t)
    /\ Rooms!Release(t)
    /\ UNCHANGED <<members, network, roomLock>>

EndCast(t) ==
    /\ GoOn(t)
    /\ Rooms!Release(t)
    /\ Room!Release(t)
    /\ UNCHANGED <<members, network>>

----------------------------------------------------------------------------
(* remove_peer_from_room *)

StartLeave(c) ==
    /\ c \in Conns
    /\ Goto(c, "in", "leave1")
    /\ Rooms!Ask(c, "read")
    /\ UNCHANGED <<members, network, roomLock>>

LeaveRooms(c) ==
    /\ Goto(c, "leave1", "leave2")
    /\ Rooms!GrantRead(c)
    /\ Room!Ask(c, "write")
    /\ UNCHANGED <<members, network>>

\* The room's write guard ends with its block; the guard of `rooms` does not,
\* and broadcast_to_room asks for another one.
LeaveRoom(c) ==
    /\ Goto(c, "leave2", "bye1")
    /\ Room!PassWrite(c)
    /\ members' = members \ {c}
    /\ Rooms!Ask(c, "read")
    /\ UNCHANGED network

ByeRooms(c) ==
    /\ Goto(c, "bye1", "bye2")
    /\ Rooms!GrantRead(c)
    /\ Room!Ask(c, "read")
    /\ UNCHANGED <<members, network>>

ByeRoom(c) ==
    /\ Goto(c, "bye2", "byeing")
    /\ Room!GrantRead(c)
    /\ UNCHANGED <<members, network, roomsLock>>

EndBye(c) ==
    /\ Goto(c, "byeing", "out")
    /\ Rooms!Release(c)
    /\ Room!Release(c)
    /\ UNCHANGED <<members, network>>

----------------------------------------------------------------------------
\* A connection is closed by its client or times out.
ConnectionEnds(c) ==
    /\ c \in Conns \ closed
    /\ Cardinality(closed) < MaxClosed
    /\ pc[c] # "idle"
    /\ closed' = closed \cup {c}
    /\ \E n \in 0 .. MaxBuffered :
         buffered' = [f \in Forwarders |-> IF Owner[f] = c THEN n ELSE buffered[f]]
    /\ UNCHANGED <<pc, members, roomsLock, roomLock>>

\* A lock the task waits for is granted.
LockGranted(t) ==
    \/ JoinRooms(t) \/ JoinRoom(t)
    \/ CastRooms(t) \/ CastRoom(t)
    \/ LeaveRooms(t) \/ LeaveRoom(t) \/ ByeRooms(t) \/ ByeRoom(t)

\* What the task writes has been written, or given up.
Written(t) == ListSent(t) \/ AbortJoin(t) \/ EndCast(t) \/ EndBye(t)

\* What a task does by itself once it has begun an operation.
Proceed(t) == LockGranted(t) \/ Written(t)

Next ==
    \E t \in Tasks :
        \/ Proceed(t)
        \/ StartJoin(t) \/ RelayControl(t) \/ StartLeave(t) \/ ConnectionEnds(t)
        \/ ForwardDatagram(t) \/ ForwarderEnds(t)

Busy(t)    == pc[t] \notin {"idle", "in", "out"}
Joining(t) == pc[t] \in {"join1", "join2"}
Leaving(t) == pc[t] \in {"leave1", "leave2", "bye1", "bye2", "byeing"}

Spec == Init /\ [][Next]_vars

\* What is left of an ended connection: read_datagram returns without waiting.
Drain(f) == Owner[f] \in closed /\ (ForwardDatagram(f) \/ ForwarderEnds(f))

\* The runtime polls every task that can go on: one whose lock is granted, and a
\* forwarder, whose datagrams are queued without waiting.  Whether a write to a
\* control stream ends is up to the client at its other end, so that is not
\* assumed; nor is anybody obliged to join, to send or to leave.
Fairness ==
    /\ \A t \in Tasks : WF_vars(LockGranted(t))
    /\ \A f \in Forwarders : WF_vars(EndCast(f)) /\ WF_vars(Drain(f))

FairSpec == Spec /\ Fairness

----------------------------------------------------------------------------
(* Properties *)

\* The two nested locks, with the guard of `rooms` kept over the announcement
\* of a departure, give the atomicity SfuRoom relies on: nobody enters or
\* leaves Room.peers while a broadcast walks over it, and nobody enters
\* between a departure and the end of its announcement.
Access == INSTANCE RoomAccess
            WITH reading <- {t \in Tasks : pc[t] \in {"casting", "byeing"}},
                 leaving <- {t \in Tasks : pc[t] \in {"bye1", "bye2", "byeing"}}

RefinesRoomAccess == Access!Spec

\* A departing task waits for its second guard of `rooms` behind a joining task
\* that waits for the first one to be dropped.
RecursiveRead ==
    \E c, d \in Conns : /\ pc[c] = "bye1" /\ roomsReads[c] = 1
                        /\ pc[d] = "join1" /\ Rooms!HeadIs(d, "write")

\* The lock that t waits for can be granted, or t waits for none: the guards of
\* the actions of Proceed.
CanProceed(t) ==
    \/ pc[t] \in {"cast1", "leave1", "bye1"} /\ Rooms!MayRead(t)
    \/ pc[t] = "join1" /\ Rooms!MayWrite(t)
    \/ pc[t] \in {"cast2", "bye2"} /\ Room!MayRead(t)
    \/ pc[t] \in {"join2", "leave2"} /\ Room!MayWrite(t)
    \/ pc[t] \in {"list", "casting", "byeing"}

\* If the server ever comes to a standstill with an operation begun, then it is
\* for that reason: no other order of taking these locks blocks, whatever the
\* operations that overlap.
StuckOnlyByRecursiveRead ==
    (\E t \in Tasks : Busy(t)) /\ (\A t \in Tasks : ~CanProceed(t)) => RecursiveRead

\* No control stream stays full for ever: each time a connection's task writes to
\* one, or to several, it comes to the end of that.  This is what clients have to
\* provide; RoomFlow shows that they may fail to.
Writing(c) == pc[c] \in {"list", "casting", "byeing"}

WritesEnd == \A c \in Conns : []<>~Writing(c)

\* As long as the clients keep reading no operation starves: each one that has
\* begun is completed, however many broadcasts and datagrams keep taking the
\* locks, unless the server gets stuck by the recursive read.
OperationsCompleteUnlessStuck ==
    WritesEnd => \A t \in Tasks : Busy(t) ~> ~Busy(t) \/ RecursiveRead

\* Nobody stops a forwarder when its peer has left, so it has to come to its end
\* by itself: as long as the clients of the others keep reading, the connection's
\* end and the finite rest of datagrams suffice, in whatever state of the
\* departure they find it, unless the server gets stuck by the recursive read.
ForwarderEndsWithConnection ==
    WritesEnd => \A f \in Forwarders :
        Owner[f] \in closed /\ pc[f] # "idle" ~> pc[f] = "out" \/ RecursiveRead

\* "Notify others": a task that has removed its peer announces that, as long as
\* the others read what they are sent.
DepartureIsAnnounced ==
    WritesEnd => \A c \in Conns : pc[c] = "bye1" ~> pc[c] = "out"

=============================================================================
