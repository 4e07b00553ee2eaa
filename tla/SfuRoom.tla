------------------------------ MODULE SfuRoom ------------------------------
(***************************************************************************)
(* The control plane of one room: the SFU server's per-connection tasks    *)
(* (adapters/quic/server.rs) composed with the clients that join the room, *)
(* hand out their sender key and follow the membership messages            *)
(* (application/join_room.rs, key_distribute.rs, handle_control.rs).       *)
(*                                                                         *)
(* An element of Peers is one session: one QUIC connection, one PeerId     *)
(* (fetch_add, never reused), one fresh identity and one sender key.       *)
(* Somebody who calls again is another element of Peers.                   *)
(*                                                                         *)
(* The control stream of a connection is a pair of FIFO queues, up[p] and  *)
(* down[p].  The guards of the two read-write locks are the sets of tasks  *)
(* that hold them.  A reader is served at once here, where the fair locks  *)
(* of the program make it wait behind a queued writer: the program does    *)
(* less than this module allows, so what is never wrong here is never      *)
(* wrong there.  Who waits for whom, and whether it ends, is the subject   *)
(* of modules RoomsLock and RoomFlow.                                      *)
(*                                                                         *)
(* Receiver reports and statistics share the control streams.  They change *)
(* none of the variables but make writers wait, so leaving them out of a   *)
(* behaviour leaves one of this module; RoomFlow has them.                 *)
(***************************************************************************)
EXTENDS Naturals, Sequences, FiniteSets

CONSTANTS
    Peers,      \* the sessions
    MaxOver,    \* bound: how many of them may end once changes overlap
    Window      \* unread messages a control stream holds before writers wait

\* There is room for a message in a stream that nobody has written to.
ASSUME WindowAssumption == Window \in Nat \ {0}

VARIABLES
    members,    \* Room.peers: the peers the server broadcasts to
    task,       \* where the server task of each connection is
    existing,   \* existing_peers: who was there when the peer was added
    relayed,    \* recipients sealed in the key message being relayed
    readers,    \* tasks holding the room's read lock (a broadcast under way)
    todo,       \* recipients such a broadcast has still to write to
    up, down,   \* the control streams, client to server and back
    phase,      \* where the client of each session is
    known,      \* the client's RoomState
    keys,       \* peers whose sender key the client's KeyStore holds
    overlapped  \* history: a call began or ended before the last change was processed

server  == <<members, task, existing, relayed, readers, todo>>
client  == <<phase, known, keys>>
vars    == <<server, up, down, client, overlapped>>

Msg ==
    [type : {"JoinRoom"}]
      \cup [type : {"PeerList"}, peers : SUBSET Peers]
      \cup [type : {"PeerJoined", "PeerLeft"}, peer : Peers]
      \cup [type : {"KeyDistribute"}, sender : Peers, sealed : SUBSET Peers]

JoinRoom            == [type |-> "JoinRoom"]
PeerList(S)         == [type |-> "PeerList", peers |-> S]
PeerJoined(p)       == [type |-> "PeerJoined", peer |-> p]
PeerLeft(p)         == [type |-> "PeerLeft", peer |-> p]
KeyDistribute(p, S) == [type |-> "KeyDistribute", sender |-> p, sealed |-> S]

Tasks  == {"none", "handshake", "list", "announce", "loop", "relay",
           "remove", "bye", "gone"}
Phases == {"idle", "joining", "call", "over"}

Types ==
    /\ members \in SUBSET Peers
    /\ task \in [Peers -> Tasks]
    /\ existing \in [Peers -> SUBSET Peers]
    /\ relayed \in [Peers -> SUBSET Peers]
    /\ readers \in SUBSET Peers
    /\ todo \in [Peers -> SUBSET Peers]
    /\ up \in [Peers -> Seq(Msg)]
    /\ down \in [Peers -> Seq(Msg)]
    /\ phase \in [Peers -> Phases]
    /\ known \in [Peers -> SUBSET Peers]
    /\ keys \in [Peers -> SUBSET Peers]
    /\ overlapped \in BOOLEAN

\* What the variables hold, and that no session is ever listed as a peer of its
\* own: not in the snapshot its PeerList is made from, nor among those its task
\* writes to, nor in its client's RoomState.
TypeOK ==
    /\ Types
    /\ \A p \in Peers : p \notin existing[p] /\ p \notin todo[p] /\ p \notin known[p]

Init ==
    /\ members = {}
    /\ task = [p \in Peers |-> "none"]
    /\ existing = [p \in Peers |-> {}]
    /\ relayed = [p \in Peers |-> {}]
    /\ readers = {}
    /\ todo = [p \in Peers |-> {}]
    /\ up = [p \in Peers |-> <<>>]
    /\ down = [p \in Peers |-> <<>>]
    /\ phase = [p \in Peers |-> "idle"]
    /\ known = [p \in Peers |-> {}]
    /\ keys = [p \in Peers |-> {}]
    /\ overlapped = FALSE

----------------------------------------------------------------------------
(* Wire helpers *)

\* A session that is over has no connection: reading from it fails, writing
\* to it fails or is lost.
Lost(p) == phase[p] = "over"

\* send_control_msg to q: waits for stream credit.  The callers only log an
\* error.
CanDeliver(q) == Lost(q) \/ Len(down[q]) < Window

Deliver(q, m) ==
    /\ CanDeliver(q)
    /\ down' = IF Lost(q) THEN down ELSE [down EXCEPT ![q] = Append(@, m)]

\* read_control_msg of the server task of p.
UpNext(p, type) == up[p] # <<>> /\ Head(up[p]).type = type

NextUp(p, type) ==
    /\ UpNext(p, type)
    /\ up' = [up EXCEPT ![p] = Tail(@)]

\* recv_control of the client of p.
NextDown(p) ==
    /\ down[p] # <<>>
    /\ down' = [down EXCEPT ![p] = Tail(@)]

----------------------------------------------------------------------------
(* The server task of a connection *)

\* A task that announces a departure holds `rooms` for reading throughout.
RoomsReaders == readers \cup {q \in Peers : task[q] = "bye"}

(* A faulty variant, to see the properties fail: the peer is inserted before the
   snapshot is taken. *)
Add_SnapshotAfterInsert(p) ==
    /\ task[p] = "handshake"
    /\ NextUp(p, "JoinRoom")
    /\ RoomsReaders = {}
    /\ members' = members \cup {p}
    /\ existing' = [existing EXCEPT ![p] = members']
    /\ task' = [task EXCEPT ![p] = "list"]
    /\ UNCHANGED <<relayed, readers, todo, down, client>>

(* A faulty variant, to see the properties fail: the snapshot leaves out those
   still in their handshake. *)
Add_SnapshotOfReady(p) ==
    /\ task[p] = "handshake"
    /\ NextUp(p, "JoinRoom")
    /\ RoomsReaders = {}
    /\ existing' = [existing EXCEPT ![p] = {q \in members : task[q] = "loop"}]
    /\ members' = members \cup {p}
    /\ task' = [task EXCEPT ![p] = "list"]
    /\ UNCHANGED <<relayed, readers, todo, down, client>>

\* handle_handshake reads Auth and JoinRoom, then add_peer_to_room takes
\* `rooms` and the room for writing: snapshot and insertion are one critical
\* section.  Reading first and waiting for the locks afterwards commutes with
\* every step of the other tasks, so one action stands for both.
Add(p) ==
    /\ task[p] = "handshake"
    /\ NextUp(p, "JoinRoom")
    /\ RoomsReaders = {}
    /\ existing' = [existing EXCEPT ![p] = members]
    /\ members' = members \cup {p}
    /\ task' = [task EXCEPT ![p] = "list"]
    /\ UNCHANGED <<relayed, readers, todo, down, client>>

(* A faulty variant, to see the properties fail: nobody is told of the newcomer. *)
SendPeerList_Unannounced(p) ==
    /\ task[p] = "list"
    /\ Deliver(p, PeerList(existing[p]))
    /\ task' = [task EXCEPT ![p] = "loop"]
    /\ UNCHANGED <<members, existing, relayed, readers, todo, up, client>>

\* The new peer gets its PeerList.
SendPeerList(p) ==
    /\ task[p] = "list"
    /\ Deliver(p, PeerList(existing[p]))
    /\ task' = [task EXCEPT ![p] = "announce"]
    /\ UNCHANGED <<members, existing, relayed, readers, todo, up, client>>

\* ... or the write fails, and `?` leaves handle_connection on the spot.
SendPeerListFails(p) ==
    /\ task[p] = "list"
    /\ Lost(p)
    /\ task' = [task EXCEPT ![p] = "gone"]
    /\ UNCHANGED <<members, existing, relayed, readers, todo, up, down, client>>

\* What the task of p broadcasts, by the state it is in.
Outgoing(p) ==
    CASE task[p] = "announce" -> PeerJoined(p)
      [] task[p] = "relay"    -> KeyDistribute(p, relayed[p])
      [] OTHER                -> PeerLeft(p)

\* broadcast_to_room: take both read locks, write to one peer after the other
\* while holding them, release them.
TakeReadLocks(p) ==
    /\ p \notin readers
    /\ readers' = readers \cup {p}
    /\ todo' = [todo EXCEPT ![p] = members \ {p}]

BeginBroadcast(p) ==
    /\ task[p] \in {"announce", "bye"}
    /\ TakeReadLocks(p)
    /\ UNCHANGED <<members, task, existing, relayed, up, down, client>>

\* control_loop: a key message goes to everybody else in the room.  (Reading
\* it commutes with the steps of the others up to the taking of the locks.)
RelayKeyDistribute(p) ==
    /\ task[p] = "loop"
    /\ NextUp(p, "KeyDistribute")
    /\ relayed' = [relayed EXCEPT ![p] = Head(up[p]).sealed]
    /\ task' = [task EXCEPT ![p] = "relay"]
    /\ TakeReadLocks(p)
    /\ UNCHANGED <<members, existing, down, client>>

\* broadcast_to_room returns and its guards are dropped; the task goes on.
DropGuards(p) ==
    /\ readers' = readers \ {p}
    /\ task' = [task EXCEPT ![p] = IF @ = "bye" THEN "gone" ELSE "loop"]
    /\ relayed' = [relayed EXCEPT ![p] = {}]

\* One write.  Nothing is awaited between the last one and the return, so the
\* guards go in the same step.
BroadcastTo(p, q) ==
    /\ p \in readers
    /\ q \in todo[p]
    /\ Deliver(q, Outgoing(p))
    /\ todo' = [todo EXCEPT ![p] = @ \ {q}]
    /\ IF todo[p] = {q} THEN DropGuards(p) ELSE UNCHANGED <<readers, task, relayed>>
    /\ UNCHANGED <<members, existing, up, client>>

\* There is nobody to write to.
EndBroadcast(p) ==
    /\ p \in readers
    /\ todo[p] = {}
    /\ DropGuards(p)
    /\ UNCHANGED <<members, existing, todo, up, down, client>>

(* A faulty variant, to see the properties fail: the end of the control loop skips
   the cleanup as the errors of the handshake do. *)
ReadFails_SkipsCleanup(p) ==
    /\ Lost(p)
    /\ task[p] \in {"handshake", "loop"}
    /\ task' = [task EXCEPT ![p] = "gone"]
    /\ UNCHANGED <<members, existing, relayed, readers, todo, up, down, client>>

\* The control stream ends.  During the handshake that is an error which
\* leaves handle_connection; in the control loop it is the way to the cleanup.
ReadFails(p) ==
    /\ Lost(p)
    /\ \/ /\ task[p] = "handshake"
          /\ task' = [task EXCEPT ![p] = "gone"]
       \/ /\ task[p] = "loop"
          /\ task' = [task EXCEPT ![p] = "remove"]
    /\ UNCHANGED <<members, existing, relayed, readers, todo, up, down, client>>

(* A faulty variant, to see the properties fail: the entry stays in the room. *)
Remove_KeepsEntry(p) ==
    /\ task[p] = "remove"
    /\ readers = {}
    /\ task' = [task EXCEPT ![p] = "bye"]
    /\ UNCHANGED <<members, existing, relayed, readers, todo, up, down, client>>

\* remove_peer_from_room, up to the broadcast of PeerLeft.
Remove(p) ==
    /\ task[p] = "remove"
    /\ readers = {}
    /\ members' = members \ {p}
    /\ task' = [task EXCEPT ![p] = "bye"]
    /\ UNCHANGED <<existing, relayed, readers, todo, up, down, client>>

----------------------------------------------------------------------------
(* The client of a session *)

\* Connect, send Auth and JoinRoom, wait; the server accepts the connection.
Connect(p) ==
    /\ phase[p] = "idle"
    /\ phase' = [phase EXCEPT ![p] = "joining"]
    /\ up' = [up EXCEPT ![p] = <<JoinRoom>>]
    /\ task' = [task EXCEPT ![p] = "handshake"]
    /\ UNCHANGED <<members, existing, relayed, readers, todo, down, known, keys>>

\* distribute_existing: seal the key for every peer of the RoomState S and
\* send it, waiting for stream credit.
CanSend(p) == Len(up[p]) < Window

Distribute(p, S) ==
    /\ CanSend(p)
    /\ up' = [up EXCEPT ![p] = Append(@, KeyDistribute(p, S))]

\* JoinRoomUseCase::execute drops whatever arrives before the PeerList ...
SkipWhileJoining(p) ==
    /\ phase[p] = "joining"
    /\ NextDown(p)
    /\ Head(down[p]).type # "PeerList"
    /\ UNCHANGED <<server, up, client>>

\* ... and fills RoomState from it; KeyDistributeUseCase::execute follows with
\* nothing read in between, then HandleControl starts.
RecvPeerList(p) ==
    /\ phase[p] = "joining"
    /\ NextDown(p)
    /\ Head(down[p]).type = "PeerList"
    /\ known' = [known EXCEPT ![p] = @ \cup Head(down[p]).peers]
    /\ Distribute(p, known'[p])
    /\ phase' = [phase EXCEPT ![p] = "call"]
    /\ UNCHANGED <<server, keys>>

(* A faulty variant, to see the properties fail: the key is sealed before the
   newcomer is added to RoomState. *)
OnPeerJoined_SealsTooEarly(p) ==
    /\ phase[p] = "call"
    /\ NextDown(p)
    /\ Head(down[p]).type = "PeerJoined"
    /\ known' = [known EXCEPT ![p] = @ \cup {Head(down[p]).peer}]
    /\ Distribute(p, known[p])
    /\ UNCHANGED <<server, phase, keys>>

\* HandleControlUseCase::handle, one message per action.
OnPeerJoined(p) ==
    /\ phase[p] = "call"
    /\ NextDown(p)
    /\ Head(down[p]).type = "PeerJoined"
    /\ known' = [known EXCEPT ![p] = @ \cup {Head(down[p]).peer}]
    /\ Distribute(p, known'[p])
    /\ UNCHANGED <<server, phase, keys>>

(* A faulty variant, to see the properties fail: departures are not recorded. *)
OnPeerLeft_Ignored(p) ==
    /\ phase[p] = "call"
    /\ NextDown(p)
    /\ Head(down[p]).type = "PeerLeft"
    /\ UNCHANGED <<server, up, phase, known, keys>>

OnPeerLeft(p) ==
    /\ phase[p] = "call"
    /\ NextDown(p)
    /\ Head(down[p]).type = "PeerLeft"
    /\ known' = [known EXCEPT ![p] = @ \ {Head(down[p]).peer}]
    /\ UNCHANGED <<server, up, phase, keys>>

OnKeyDistribute(p) ==
    /\ phase[p] = "call"
    /\ NextDown(p)
    /\ Head(down[p]).type = "KeyDistribute"
    /\ keys' = [keys EXCEPT ![p] =
                  IF p \in Head(down[p]).sealed
                  THEN @ \cup {Head(down[p]).sender} ELSE @]
    /\ UNCHANGED <<server, up, phase, known>>

\* end_call, a crash of the app, or a dead network: the session is over.  The
\* server learns of it later, after reading any part of what was sent.
HangUp(p) ==
    /\ phase[p] \in {"joining", "call"}
    /\ phase' = [phase EXCEPT ![p] = "over"]
    /\ known' = [known EXCEPT ![p] = {}]
    /\ keys' = [keys EXCEPT ![p] = {}]
    /\ down' = [down EXCEPT ![p] = <<>>]
    /\ UNCHANGED <<server, up>>

----------------------------------------------------------------------------
ServerStep(p) ==
    \/ Add(p) \/ SendPeerList(p) \/ SendPeerListFails(p)
    \/ BeginBroadcast(p) \/ RelayKeyDistribute(p) \/ EndBroadcast(p)
    \/ \E q \in Peers : BroadcastTo(p, q)
    \/ ReadFails(p) \/ Remove(p)

ClientStep(p) ==
    \/ RecvPeerList(p) \/ SkipWhileJoining(p)
    \/ OnPeerJoined(p) \/ OnPeerLeft(p) \/ OnKeyDistribute(p)

InCall(p) == phase[p] = "call" /\ p \in members

\* Everything sent has been processed.
Quiet ==
    \A p \in Peers :
        /\ down[p] = <<>>
        /\ \/ phase[p] = "idle"
           \/ phase[p] = "call" /\ task[p] = "loop" /\ up[p] = <<>>
           \/ phase[p] = "over" /\ task[p] = "gone"

\* A call starts or ends: one after the other as often as there are sessions,
\* up to the bound when that overlaps with an earlier change.
Change(p) ==
    /\ Connect(p) \/ HangUp(p)
    /\ overlapped' = (overlapped \/ ~Quiet)
    /\ overlapped' => Cardinality({q \in Peers : phase'[q] = "over"}) <= MaxOver

Next ==
    \E p \in Peers :
        \/ (ServerStep(p) \/ ClientStep(p)) /\ UNCHANGED overlapped
        \/ Change(p)

Spec == Init /\ [][Next]_vars

----------------------------------------------------------------------------
(* Properties *)

\* Of two sessions in the call, at least one has the other in its RoomState,
\* at every moment and whatever joins, departures and failures overlap: the
\* snapshot of add_peer_to_room and the insertion are one critical section,
\* and a PeerLeft is only ever sent for a peer that is out of the room.
OneKnowsTheOther ==
    \A p, q \in Peers :
        InCall(p) /\ InCall(q) /\ p # q => p \in known[q] \/ q \in known[p]

\* The direction is fixed by the order of the insertions: a session in the
\* call knows everyone who was in the room when it was added and still is.
LaterKnowsEarlier ==
    \A p \in Peers :
        phase[p] = "call" => existing[p] \cap members \subseteq known[p]

\* The inductive strengthening of the two.  A session is fresh until the server
\* adds it; what has been sent to it stays true: its PeerList is the snapshot,
\* and a PeerLeft names a peer that will never be in the room again.
Fresh(p) == task[p] \in {"none", "handshake"}
Told(p)  == {down[p][i] : i \in 1 .. Len(down[p])}

IdleHasNoTask      == \A p \in Peers : phase[p] = "idle" => task[p] = "none"
ReadersBroadcast   == \A p \in readers : task[p] \in {"announce", "relay", "bye"}
DepartingIsOut     == \A p \in Peers : task[p] = "bye" => p \notin members
FreshIsUnheardOf   ==
    \A p \in Peers : Fresh(p) =>
        /\ p \notin members
        /\ down[p] = <<>>
        /\ phase[p] # "call"
        /\ \A q \in Peers : p \notin existing[q] /\ p \notin todo[q]
ToldTheTruth       ==
    \A p \in Peers : \A m \in Told(p) :
        /\ m.type = "PeerList" => m.peers = existing[p]
        /\ m.type = "PeerLeft" => m.peer \notin members /\ ~Fresh(m.peer)
SnapshotsAreOrdered ==
    \A p, q \in members : p = q \/ p \in existing[q] \/ q \in existing[p]

MembershipInv ==
    /\ IdleHasNoTask
    /\ ReadersBroadcast
    /\ DepartingIsOut
    /\ FreshIsUnheardOf
    /\ ToldTheTruth
    /\ SnapshotsAreOrdered
    /\ LaterKnowsEarlier

\* Once everything sent has been processed, a session that another one has in
\* its RoomState holds the other's sender key.  A KeyDistribute can reach a
\* session that is still waiting for its PeerList and is dropped there; the
\* re-distribution on PeerJoined has to make up for it in every interleaving.
KnownPeersCanDecrypt ==
    Quiet => \A p, q \in Peers :
                InCall(p) /\ InCall(q) /\ q \in known[p] => p \in keys[q]

\* The only departed sessions that stay in a RoomState for good are some that
\* its PeerList named (their PeerLeft was dropped while waiting for that list);
\* one that arrived as PeerJoined always goes with its PeerLeft.
GhostsComeFromPeerList ==
    Quiet => \A p \in Peers : InCall(p) => known[p] \ members \subseteq existing[p]

\* With one membership change at a time everybody ends up with the same view:
\* the room, every RoomState and every KeyStore hold exactly the sessions in
\* the call (keys of departed sessions are never deleted).
RoomAgrees ==
    Quiet /\ ~overlapped =>
        /\ members = {p \in Peers : phase[p] = "call"}
        /\ \A p \in members : known[p] = members \ {p} /\ known[p] \subseteq keys[p]

\* With one change at a time a sender key is only ever stored for a session
\* the client has been told of: the PeerJoined of the sender precedes its key.
KeyAfterPeerJoined ==
    ~overlapped => \A p \in Peers : InCall(p) => keys[p] \cap members \subseteq known[p]

\* What the re-distribution is for, "so the new peer can decrypt media
\* that is already being sent".
NewPeerCanDecrypt ==
    Quiet => \A p, q \in Peers : InCall(p) /\ InCall(q) /\ p # q => p \in keys[q]

\* A connection that dies between add_peer_to_room and its PeerList leaves its
\* entry in the room for good.  Nobody ever hears more of such a leftover than
\* the name in the PeerList of those who come later: every connection that was
\* announced is cleaned up, however it ends.
LeftoversAreUnannounced ==
    \A p \in members : task[p] = "gone" =>
        \A q \in Peers :
            /\ p \in known[q] => p \in existing[q]
            /\ p \notin keys[q]
            /\ PeerJoined(p) \notin Told(q)

=============================================================================
