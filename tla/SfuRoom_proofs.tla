-------------------------- MODULE SfuRoom_proofs --------------------------
(***************************************************************************)
(* Proofs about SfuRoom, for any set of sessions and any stream window:    *)
(* types; who knows whom (MembershipInv); on top of it, what clients know, *)
(* hold and have still to hear (ViewInv); what holds as long as calls      *)
(* begin and end one at a time (SerialInv); and that the room asks of its  *)
(* locks no more than RoomAccess describes.                                *)
(***************************************************************************)
EXTENDS SfuRoom, TLAPS

----------------------------------------------------------------------------
(* Type correctness *)

\* A message built by one of the constructors is a message.
LEMMA MsgType ==
    ASSUME NEW p \in Peers, NEW S \in SUBSET Peers
    PROVE  /\ JoinRoom \in Msg
           /\ PeerList(S) \in Msg
           /\ PeerJoined(p) \in Msg
           /\ PeerLeft(p) \in Msg
           /\ KeyDistribute(p, S) \in Msg
BY DEF Msg, JoinRoom, PeerList, PeerJoined, PeerLeft, KeyDistribute

\* What can be read off a message of each type.
LEMMA MsgFields ==
    ASSUME NEW m \in Msg
    PROVE  /\ m.type = "PeerList" => m.peers \in SUBSET Peers
           /\ m.type \in {"PeerJoined", "PeerLeft"} => m.peer \in Peers
           /\ m.type = "KeyDistribute" => m.sender \in Peers /\ m.sealed \in SUBSET Peers
BY DEF Msg

\* Whatever the task of p broadcasts is a message.
LEMMA OutgoingType ==
    ASSUME Types, NEW p \in Peers
    PROVE  Outgoing(p) \in Msg
<1>1. relayed[p] \in SUBSET Peers
  BY DEF Types
<1>2. QED
  BY <1>1, MsgType DEF Outgoing

LEMMA TypedNext == Types /\ [Next]_vars => Types'
<1> SUFFICES ASSUME Types, [Next]_vars
             PROVE  Types'
  OBVIOUS
<1>0. overlapped' \in BOOLEAN
  <2>1. CASE overlapped' = overlapped
    BY <2>1, Zenon DEF Types
  <2>2. CASE overlapped' = (overlapped \/ ~Quiet)
    BY <2>2, Zenon
  <2>3. QED
    BY <2>1, <2>2, Zenon DEF Next, Change, vars
<1> USE <1>0 DEF Types, Tasks, Phases
<1>1. ASSUME NEW p \in Peers, Add(p) PROVE Types'
  BY <1>1 DEF Add, NextUp, UpNext, client
<1>2. ASSUME NEW p \in Peers, SendPeerList(p) PROVE Types'
  <2>1. PeerList(existing[p]) \in Msg
    BY MsgType
  <2>2. down' \in [Peers -> Seq(Msg)]
    BY <1>2, <2>1 DEF SendPeerList, Deliver
  <2>3. QED
    BY <1>2, <2>2 DEF SendPeerList, client
<1>3. ASSUME NEW p \in Peers, SendPeerListFails(p) PROVE Types'
  BY <1>3 DEF SendPeerListFails, client
<1>4. ASSUME NEW p \in Peers, BeginBroadcast(p) PROVE Types'
  BY <1>4 DEF BeginBroadcast, TakeReadLocks, client
<1>5. ASSUME NEW p \in Peers, RelayKeyDistribute(p) PROVE Types'
  <2>1. Head(up[p]) \in Msg /\ Head(up[p]).type = "KeyDistribute"
    BY <1>5 DEF RelayKeyDistribute, NextUp, UpNext
  <2>2. Head(up[p]).sealed \in SUBSET Peers
    BY <2>1, MsgFields
  <2>3. up' \in [Peers -> Seq(Msg)]
    BY <1>5 DEF RelayKeyDistribute, NextUp, UpNext
  <2>4. QED
    BY <1>5, <2>2, <2>3 DEF RelayKeyDistribute, TakeReadLocks, client
<1>6. ASSUME NEW p \in Peers, EndBroadcast(p) PROVE Types'
  BY <1>6 DEF EndBroadcast, DropGuards, client
<1>7. ASSUME NEW p \in Peers, NEW q \in Peers, BroadcastTo(p, q) PROVE Types'
  <2>1. Outgoing(p) \in Msg
    BY OutgoingType
  <2>2. down' \in [Peers -> Seq(Msg)]
    BY <1>7, <2>1 DEF BroadcastTo, Deliver
  <2>3. QED
    BY <1>7, <2>2 DEF BroadcastTo, DropGuards, client
<1>8. ASSUME NEW p \in Peers, ReadFails(p) PROVE Types'
  BY <1>8 DEF ReadFails, client
<1>9. ASSUME NEW p \in Peers, Remove(p) PROVE Types'
  BY <1>9 DEF Remove, client
<1>10. ASSUME NEW p \in Peers, RecvPeerList(p) PROVE Types'
  <2>1. Head(down[p]) \in Msg /\ Head(down[p]).type = "PeerList"
    BY <1>10 DEF RecvPeerList, NextDown
  <2>2. Head(down[p]).peers \in SUBSET Peers
    BY <2>1, MsgFields
  <2>3. known' \in [Peers -> SUBSET Peers]
    BY <1>10, <2>2 DEF RecvPeerList
  <2>4. KeyDistribute(p, known'[p]) \in Msg
    BY <2>3, MsgType
  <2>5. up' \in [Peers -> Seq(Msg)]
    BY <1>10, <2>4 DEF RecvPeerList, Distribute
  <2>6. QED
    BY <1>10, <2>3, <2>5 DEF RecvPeerList, NextDown, server
<1>11. ASSUME NEW p \in Peers, SkipWhileJoining(p) PROVE Types'
  BY <1>11 DEF SkipWhileJoining, NextDown, server, client
<1>12. ASSUME NEW p \in Peers, OnPeerJoined(p) PROVE Types'
  <2>1. Head(down[p]) \in Msg /\ Head(down[p]).type = "PeerJoined"
    BY <1>12 DEF OnPeerJoined, NextDown
  <2>2. Head(down[p]).peer \in Peers
    BY <2>1, MsgFields
  <2>3. known' \in [Peers -> SUBSET Peers]
    BY <1>12, <2>2 DEF OnPeerJoined
  <2>4. KeyDistribute(p, known'[p]) \in Msg
    BY <2>3, MsgType
  <2>5. up' \in [Peers -> Seq(Msg)]
    BY <1>12, <2>4 DEF OnPeerJoined, Distribute
  <2>6. QED
    BY <1>12, <2>3, <2>5 DEF OnPeerJoined, NextDown, server
<1>13. ASSUME NEW p \in Peers, OnPeerLeft(p) PROVE Types'
  BY <1>13 DEF OnPeerLeft, NextDown, server
<1>14. ASSUME NEW p \in Peers, OnKeyDistribute(p) PROVE Types'
  <2>1. Head(down[p]) \in Msg /\ Head(down[p]).type = "KeyDistribute"
    BY <1>14 DEF OnKeyDistribute, NextDown
  <2>2. Head(down[p]).sender \in Peers
    BY <2>1, MsgFields
  <2>3. keys' \in [Peers -> SUBSET Peers]
    BY <1>14, <2>2 DEF OnKeyDistribute
  <2>4. QED
    BY <1>14, <2>3 DEF OnKeyDistribute, NextDown, server
<1>15. ASSUME NEW p \in Peers, Connect(p) PROVE Types'
  <2>1. JoinRoom \in Msg
    BY DEF JoinRoom, Msg
  <2>2. up' \in [Peers -> Seq(Msg)]
    BY <1>15, <2>1 DEF Connect
  <2>3. QED
    BY <1>15, <2>2 DEF Connect
<1>16. ASSUME NEW p \in Peers, HangUp(p) PROVE Types'
  BY <1>16 DEF HangUp, server
<1>17. CASE UNCHANGED vars
  BY <1>17 DEF vars, server, client
<1>18. QED
  BY <1>1, <1>2, <1>3, <1>4, <1>5, <1>6, <1>7, <1>8, <1>9, <1>10, <1>11,
     <1>12, <1>13, <1>14, <1>15, <1>16, <1>17
     DEF Next, Change, ServerStep, ClientStep

\* Every reachable state has the types the module's declarations promise.
LEMMA TypesHold == Spec => []Types
<1>1. Init => Types
  <2>1. Init => overlapped \in BOOLEAN
    BY Zenon DEF Init
  <2>2. QED
    BY <2>1 DEF Init, Types, Tasks, Phases
<1>2. QED
  BY <1>1, TypedNext, PTL DEF Spec

----------------------------------------------------------------------------
(* Who knows whom *)

Elems(s) == {s[i] : i \in 1 .. Len(s)}

\* The elements of a queue after reading from it and after writing to it.
LEMMA HeadIsElem ==
    ASSUME NEW s \in Seq(Msg), s # <<>>
    PROVE  Head(s) \in Elems(s)
<1>1. 1 \in 1 .. Len(s) /\ Head(s) = s[1]
  OBVIOUS
<1>2. QED
  BY <1>1 DEF Elems

LEMMA TailElems ==
    ASSUME NEW s \in Seq(Msg), s # <<>>
    PROVE  Elems(Tail(s)) \subseteq Elems(s)
<1> SUFFICES ASSUME NEW i \in 1 .. Len(Tail(s))
             PROVE  Tail(s)[i] \in Elems(s)
  BY DEF Elems
<1>1. i + 1 \in 1 .. Len(s) /\ Tail(s)[i] = s[i + 1]
  OBVIOUS
<1>2. QED
  BY <1>1 DEF Elems

LEMMA AppendElems ==
    ASSUME NEW s \in Seq(Msg), NEW m \in Msg
    PROVE  Elems(Append(s, m)) \subseteq Elems(s) \cup {m}
<1> SUFFICES ASSUME NEW i \in 1 .. Len(Append(s, m))
             PROVE  Append(s, m)[i] \in Elems(s) \cup {m}
  BY DEF Elems
<1>1. CASE i \in 1 .. Len(s)
  BY <1>1 DEF Elems
<1>2. CASE i = Len(s) + 1
  BY <1>2
<1>3. QED
  BY <1>1, <1>2

\* Reading a message of p's queue adds nothing to what anybody has been told.
LEMMA ReadTold ==
    ASSUME Types, NEW p \in Peers, NextDown(p)
    PROVE  /\ Head(down[p]) \in Told(p)
           /\ Head(down[p]) \in Msg
           /\ \A q \in Peers : Told(q)' \subseteq Told(q)
<1>1. down[p] \in Seq(Msg) /\ down[p] # <<>>
  BY DEF Types, NextDown
<1>2. Head(down[p]) \in Told(p)
  BY <1>1, HeadIsElem DEF Told, Elems
<1>3. ASSUME NEW q \in Peers PROVE Told(q)' \subseteq Told(q)
  <2>1. CASE q = p
    <3>1. down'[p] = Tail(down[p])
      BY DEF NextDown, Types
    <3>2. Elems(Tail(down[p])) \subseteq Elems(down[p])
      BY <1>1, TailElems
    <3>3. QED
      BY <2>1, <3>1, <3>2 DEF Told, Elems
  <2>2. CASE q # p
    BY <2>2 DEF Told, NextDown, Types
  <2>3. QED
    BY <2>1, <2>2
<1>4. QED
  BY <1>1, <1>2, <1>3

\* Writing m to q tells q that and nobody anything else.
LEMMA DeliverTold ==
    ASSUME Types, NEW q \in Peers, NEW m \in Msg, Deliver(q, m)
    PROVE  /\ Told(q)' \subseteq Told(q) \cup {m}
           /\ \A r \in Peers \ {q} : Told(r)' = Told(r) /\ down'[r] = down[r]
<1>1. CASE down' = down
  BY <1>1 DEF Told
<1>2. CASE down' = [down EXCEPT ![q] = Append(@, m)]
  <2>1. down[q] \in Seq(Msg) /\ down'[q] = Append(down[q], m)
    BY <1>2 DEF Types
  <2>2. Elems(Append(down[q], m)) \subseteq Elems(down[q]) \cup {m}
    BY <2>1, AppendElems
  <2>3. \A r \in Peers \ {q} : down'[r] = down[r]
    BY <1>2 DEF Types
  <2>4. QED
    BY <2>1, <2>2, <2>3 DEF Told, Elems
<1>3. QED
  BY <1>1, <1>2 DEF Deliver

\* A PeerLeft somebody was sent names a session.
LEMMA ToldPeer ==
    ASSUME Types, NEW p \in Peers, NEW m \in Told(p), m.type = "PeerLeft"
    PROVE  m.peer \in Peers
<1>1. m \in Msg
  BY DEF Told, Types
<1>2. QED
  BY <1>1, MsgFields

LEMMA MembershipInit == Init => MembershipInv
<1> SUFFICES ASSUME Init PROVE MembershipInv
  OBVIOUS
<1>1. \A p \in Peers : Told(p) = {}
  BY DEF Init, Told
<1>2. QED
  BY <1>1 DEF Init, MembershipInv, IdleHasNoTask, ReadersBroadcast, DepartingIsOut,
     FreshIsUnheardOf, ToldTheTruth, SnapshotsAreOrdered, LaterKnowsEarlier, Fresh

\* The types the proof below needs, without those of the messages.
Shapes ==
    /\ members \in SUBSET Peers /\ readers \in SUBSET Peers
    /\ task \in [Peers -> Tasks] /\ phase \in [Peers -> Phases]
    /\ existing \in [Peers -> SUBSET Peers] /\ todo \in [Peers -> SUBSET Peers]
    /\ known \in [Peers -> SUBSET Peers]
    /\ DOMAIN down = Peers

\* Every step preserves the invariant.
LEMMA MembershipNext ==
    ASSUME Types, MembershipInv, [Next]_vars
    PROVE  MembershipInv'
<1> Shapes
  BY DEF Shapes, Types
<1> /\ IdleHasNoTask /\ ReadersBroadcast /\ DepartingIsOut /\ FreshIsUnheardOf
    /\ ToldTheTruth /\ SnapshotsAreOrdered /\ LaterKnowsEarlier
  BY DEF MembershipInv
<1> HIDE DEF MembershipInv
<1>1. ASSUME NEW p \in Peers, Add(p) PROVE MembershipInv'
  <2>1. \A r \in Peers : Told(r)' = Told(r)
    BY <1>1 DEF Add, Told
  <2>2. IdleHasNoTask'
    BY <1>1 DEF Add, client, IdleHasNoTask, Shapes
  <2>3. ReadersBroadcast'
    BY <1>1 DEF Add, client, ReadersBroadcast, Shapes
  <2>4. DepartingIsOut'
    BY <1>1 DEF Add, client, DepartingIsOut, Shapes
  <2>5. FreshIsUnheardOf'
    BY <1>1, <2>1 DEF Add, client, FreshIsUnheardOf, Shapes, Fresh
  <2>6. ToldTheTruth'
    <3>1. Told(p) = {}
      BY <1>1 DEF Add, FreshIsUnheardOf, Fresh, Told
    <3>2. \A r \in Peers : Fresh(r)' => Fresh(r)
      BY <1>1 DEF Add, Fresh, Shapes
    <3>3. \A r \in Peers \ {p} : existing'[r] = existing[r]
      BY <1>1 DEF Add, Shapes
    <3>4. Fresh(p) /\ members' = members \cup {p}
      BY <1>1 DEF Add, Fresh
    <3>5. QED
      BY <2>1, <3>1, <3>2, <3>3, <3>4, ToldPeer DEF ToldTheTruth
  <2>7. SnapshotsAreOrdered'
    BY <1>1 DEF Add, client, SnapshotsAreOrdered, Shapes
  <2>8. LaterKnowsEarlier'
    BY <1>1 DEF Add, client, LaterKnowsEarlier, FreshIsUnheardOf, Fresh, Shapes
  <2>9. QED
    BY <2>2, <2>3, <2>4, <2>5, <2>6, <2>7, <2>8 DEF MembershipInv
<1>2. ASSUME NEW p \in Peers, SendPeerList(p) PROVE MembershipInv'
  <2>1. /\ Told(p)' \subseteq Told(p) \cup {PeerList(existing[p])}
        /\ \A r \in Peers \ {p} : Told(r)' = Told(r) /\ down'[r] = down[r]
    BY <1>2, DeliverTold, MsgType DEF SendPeerList, Shapes
  <2>2. IdleHasNoTask'
    BY <1>2 DEF SendPeerList, client, IdleHasNoTask, Shapes
  <2>3. ReadersBroadcast'
    BY <1>2 DEF SendPeerList, client, ReadersBroadcast, Shapes
  <2>4. DepartingIsOut'
    BY <1>2 DEF SendPeerList, client, DepartingIsOut, Shapes
  <2>5. FreshIsUnheardOf'
    BY <1>2, <2>1 DEF SendPeerList, client, FreshIsUnheardOf, Shapes, Fresh
  <2>6. ToldTheTruth'
    BY <1>2, <2>1, ToldPeer DEF SendPeerList, client, ToldTheTruth, Shapes, Fresh, PeerList
  <2>7. SnapshotsAreOrdered'
    BY <1>2 DEF SendPeerList, client, SnapshotsAreOrdered, Shapes
  <2>8. LaterKnowsEarlier'
    BY <1>2, <2>1 DEF SendPeerList, client, LaterKnowsEarlier, Shapes
  <2>9. QED
    BY <2>2, <2>3, <2>4, <2>5, <2>6, <2>7, <2>8 DEF MembershipInv
<1>3. ASSUME NEW p \in Peers, SendPeerListFails(p) PROVE MembershipInv'
  <2>1. \A r \in Peers : Told(r)' = Told(r)
    BY <1>3 DEF SendPeerListFails, Told
  <2>2. IdleHasNoTask'
    BY <1>3 DEF SendPeerListFails, client, IdleHasNoTask, Shapes
  <2>3. ReadersBroadcast'
    BY <1>3 DEF SendPeerListFails, client, ReadersBroadcast, Shapes
  <2>4. DepartingIsOut'
    BY <1>3 DEF SendPeerListFails, client, DepartingIsOut, Shapes
  <2>5. FreshIsUnheardOf'
    BY <1>3, <2>1 DEF SendPeerListFails, client, FreshIsUnheardOf, Shapes, Fresh
  <2>6. ToldTheTruth'
    BY <1>3, <2>1, ToldPeer DEF SendPeerListFails, client, ToldTheTruth, Shapes, Fresh
  <2>7. SnapshotsAreOrdered'
    BY <1>3 DEF SendPeerListFails, client, SnapshotsAreOrdered, Shapes
  <2>8. LaterKnowsEarlier'
    BY <1>3, <2>1 DEF SendPeerListFails, client, LaterKnowsEarlier, Shapes
  <2>9. QED
    BY <2>2, <2>3, <2>4, <2>5, <2>6, <2>7, <2>8 DEF MembershipInv
<1>4. ASSUME NEW p \in Peers, BeginBroadcast(p) PROVE MembershipInv'
  <2>1. \A r \in Peers : Told(r)' = Told(r)
    BY <1>4 DEF BeginBroadcast, Told
  <2>2. IdleHasNoTask'
    BY <1>4 DEF BeginBroadcast, TakeReadLocks, client, IdleHasNoTask, Shapes
  <2>3. ReadersBroadcast'
    BY <1>4 DEF BeginBroadcast, TakeReadLocks, client, ReadersBroadcast, Shapes
  <2>4. DepartingIsOut'
    BY <1>4 DEF BeginBroadcast, TakeReadLocks, client, DepartingIsOut, Shapes
  <2>5. FreshIsUnheardOf'
    BY <1>4, <2>1 DEF BeginBroadcast, TakeReadLocks, client, FreshIsUnheardOf, Shapes, Fresh
  <2>6. ToldTheTruth'
    BY <1>4, <2>1, ToldPeer DEF BeginBroadcast, TakeReadLocks, client, ToldTheTruth, Shapes, Fresh
  <2>7. SnapshotsAreOrdered'
    BY <1>4 DEF BeginBroadcast, TakeReadLocks, client, SnapshotsAreOrdered, Shapes
  <2>8. LaterKnowsEarlier'
    BY <1>4, <2>1 DEF BeginBroadcast, TakeReadLocks, client, LaterKnowsEarlier, Shapes
  <2>9. QED
    BY <2>2, <2>3, <2>4, <2>5, <2>6, <2>7, <2>8 DEF MembershipInv
<1>5. ASSUME NEW p \in Peers, RelayKeyDistribute(p) PROVE MembershipInv'
  <2>1. \A r \in Peers : Told(r)' = Told(r)
    BY <1>5 DEF RelayKeyDistribute, Told
  <2>2. IdleHasNoTask'
    BY <1>5 DEF RelayKeyDistribute, TakeReadLocks, client, IdleHasNoTask, Shapes
  <2>3. ReadersBroadcast'
    BY <1>5 DEF RelayKeyDistribute, TakeReadLocks, client, ReadersBroadcast, Shapes
  <2>4. DepartingIsOut'
    BY <1>5 DEF RelayKeyDistribute, TakeReadLocks, client, DepartingIsOut, Shapes
  <2>5. FreshIsUnheardOf'
    BY <1>5, <2>1 DEF RelayKeyDistribute, TakeReadLocks, client, FreshIsUnheardOf, Shapes, Fresh
  <2>6. ToldTheTruth'
    BY <1>5, <2>1, ToldPeer DEF RelayKeyDistribute, TakeReadLocks, client, ToldTheTruth, Shapes, Fresh
  <2>7. SnapshotsAreOrdered'
    BY <1>5 DEF RelayKeyDistribute, TakeReadLocks, client, SnapshotsAreOrdered, Shapes
  <2>8. LaterKnowsEarlier'
    BY <1>5, <2>1 DEF RelayKeyDistribute, TakeReadLocks, client, LaterKnowsEarlier, Shapes
  <2>9. QED
    BY <2>2, <2>3, <2>4, <2>5, <2>6, <2>7, <2>8 DEF MembershipInv
<1>6. ASSUME NEW p \in Peers, EndBroadcast(p) PROVE MembershipInv'
  <2>1. \A r \in Peers : Told(r)' = Told(r)
    BY <1>6 DEF EndBroadcast, Told
  <2>2. IdleHasNoTask'
    BY <1>6 DEF EndBroadcast, DropGuards, client, IdleHasNoTask, ReadersBroadcast, Shapes
  <2>3. ReadersBroadcast'
    BY <1>6 DEF EndBroadcast, DropGuards, client, ReadersBroadcast, Shapes
  <2>4. DepartingIsOut'
    BY <1>6 DEF EndBroadcast, DropGuards, client, DepartingIsOut, Shapes
  <2>5. FreshIsUnheardOf'
    BY <1>6, <2>1 DEF EndBroadcast, DropGuards, client, FreshIsUnheardOf, Shapes, Fresh
  <2>6. ToldTheTruth'
    BY <1>6, <2>1, ToldPeer DEF EndBroadcast, DropGuards, client, ToldTheTruth, Shapes, Fresh
  <2>7. SnapshotsAreOrdered'
    BY <1>6 DEF EndBroadcast, DropGuards, client, SnapshotsAreOrdered, Shapes
  <2>8. LaterKnowsEarlier'
    BY <1>6, <2>1 DEF EndBroadcast, DropGuards, client, LaterKnowsEarlier, Shapes
  <2>9. QED
    BY <2>2, <2>3, <2>4, <2>5, <2>6, <2>7, <2>8 DEF MembershipInv
<1>7. ASSUME NEW p \in Peers, NEW q \in Peers, BroadcastTo(p, q) PROVE MembershipInv'
  <2>1. /\ Told(q)' \subseteq Told(q) \cup {Outgoing(p)}
        /\ \A r \in Peers \ {q} : Told(r)' = Told(r) /\ down'[r] = down[r]
    BY <1>7, DeliverTold, OutgoingType DEF BroadcastTo
  <2>2. IdleHasNoTask'
    BY <1>7 DEF BroadcastTo, DropGuards, client, IdleHasNoTask, ReadersBroadcast, Shapes
  <2>3. ReadersBroadcast'
    BY <1>7 DEF BroadcastTo, DropGuards, client, ReadersBroadcast, Shapes
  <2>4. DepartingIsOut'
    BY <1>7 DEF BroadcastTo, DropGuards, client, DepartingIsOut, Shapes
  <2>5. FreshIsUnheardOf'
    BY <1>7, <2>1 DEF BroadcastTo, DropGuards, client, FreshIsUnheardOf, Shapes, Fresh
  <2>6. ToldTheTruth'
    <3>1. /\ Outgoing(p).type # "PeerList"
          /\ Outgoing(p).type = "PeerLeft" => Outgoing(p).peer = p /\ task[p] = "bye"
      BY <1>7 DEF BroadcastTo, ReadersBroadcast, Outgoing, PeerJoined, PeerLeft, KeyDistribute
    <3>2. Outgoing(p).type = "PeerLeft" => p \notin members /\ ~Fresh(p)
      BY <3>1 DEF DepartingIsOut, Fresh
    <3>3. UNCHANGED <<members, existing>>
      BY <1>7 DEF BroadcastTo
    <3>4. \A r \in Peers : Fresh(r)' => Fresh(r)
      BY <1>7 DEF BroadcastTo, DropGuards, Fresh, Shapes
    <3>5. QED
      BY <2>1, <3>1, <3>2, <3>3, <3>4, ToldPeer DEF ToldTheTruth
  <2>7. SnapshotsAreOrdered'
    BY <1>7 DEF BroadcastTo, DropGuards, client, SnapshotsAreOrdered, Shapes
  <2>8. LaterKnowsEarlier'
    BY <1>7, <2>1 DEF BroadcastTo, DropGuards, client, LaterKnowsEarlier, Shapes
  <2>9. QED
    BY <2>2, <2>3, <2>4, <2>5, <2>6, <2>7, <2>8 DEF MembershipInv
<1>8. ASSUME NEW p \in Peers, ReadFails(p) PROVE MembershipInv'
  <2>1. \A r \in Peers : Told(r)' = Told(r)
    BY <1>8 DEF ReadFails, Told
  <2>2. IdleHasNoTask'
    BY <1>8 DEF ReadFails, Lost, client, IdleHasNoTask, Shapes
  <2>3. ReadersBroadcast'
    BY <1>8 DEF ReadFails, Lost, client, ReadersBroadcast, Shapes
  <2>4. DepartingIsOut'
    BY <1>8 DEF ReadFails, Lost, client, DepartingIsOut, Shapes
  <2>5. FreshIsUnheardOf'
    BY <1>8, <2>1 DEF ReadFails, Lost, client, FreshIsUnheardOf, Shapes, Fresh
  <2>6. ToldTheTruth'
    BY <1>8, <2>1, ToldPeer DEF ReadFails, Lost, client, ToldTheTruth, Shapes, Fresh
  <2>7. SnapshotsAreOrdered'
    BY <1>8 DEF ReadFails, Lost, client, SnapshotsAreOrdered, Shapes
  <2>8. LaterKnowsEarlier'
    BY <1>8, <2>1 DEF ReadFails, Lost, client, LaterKnowsEarlier, Shapes
  <2>9. QED
    BY <2>2, <2>3, <2>4, <2>5, <2>6, <2>7, <2>8 DEF MembershipInv
<1>9. ASSUME NEW p \in Peers, Remove(p) PROVE MembershipInv'
  <2>1. \A r \in Peers : Told(r)' = Told(r)
    BY <1>9 DEF Remove, Told
  <2>2. IdleHasNoTask'
    BY <1>9 DEF Remove, client, IdleHasNoTask, Shapes
  <2>3. ReadersBroadcast'
    BY <1>9 DEF Remove, client, ReadersBroadcast, Shapes
  <2>4. DepartingIsOut'
    BY <1>9 DEF Remove, client, DepartingIsOut, Shapes
  <2>5. FreshIsUnheardOf'
    BY <1>9, <2>1 DEF Remove, client, FreshIsUnheardOf, Shapes, Fresh
  <2>6. ToldTheTruth'
    BY <1>9, <2>1, ToldPeer DEF Remove, client, ToldTheTruth, Shapes, Fresh
  <2>7. SnapshotsAreOrdered'
    BY <1>9 DEF Remove, client, SnapshotsAreOrdered, Shapes
  <2>8. LaterKnowsEarlier'
    BY <1>9, <2>1 DEF Remove, client, LaterKnowsEarlier, Shapes
  <2>9. QED
    BY <2>2, <2>3, <2>4, <2>5, <2>6, <2>7, <2>8 DEF MembershipInv
<1>10. ASSUME NEW p \in Peers, RecvPeerList(p) PROVE MembershipInv'
  <2>1. /\ Head(down[p]) \in Told(p)
        /\ \A r \in Peers : Told(r)' \subseteq Told(r)
    BY <1>10, ReadTold DEF RecvPeerList
  <2>2. IdleHasNoTask'
    BY <1>10 DEF RecvPeerList, NextDown, server, IdleHasNoTask, Shapes
  <2>3. ReadersBroadcast'
    BY <1>10 DEF RecvPeerList, NextDown, server, ReadersBroadcast, Shapes
  <2>4. DepartingIsOut'
    BY <1>10 DEF RecvPeerList, NextDown, server, DepartingIsOut, Shapes
  <2>5. FreshIsUnheardOf'
    BY <1>10, <2>1 DEF RecvPeerList, NextDown, server, FreshIsUnheardOf, Shapes, Fresh
  <2>6. ToldTheTruth'
    BY <1>10, <2>1, ToldPeer DEF RecvPeerList, NextDown, server, ToldTheTruth, Shapes, Fresh
  <2>7. SnapshotsAreOrdered'
    BY <1>10 DEF RecvPeerList, NextDown, server, SnapshotsAreOrdered, Shapes
  <2>8. LaterKnowsEarlier'
    BY <1>10, <2>1 DEF RecvPeerList, NextDown, server, LaterKnowsEarlier, Shapes, ToldTheTruth
  <2>9. QED
    BY <2>2, <2>3, <2>4, <2>5, <2>6, <2>7, <2>8 DEF MembershipInv
<1>11. ASSUME NEW p \in Peers, SkipWhileJoining(p) PROVE MembershipInv'
  <2>1. /\ Head(down[p]) \in Told(p)
        /\ \A r \in Peers : Told(r)' \subseteq Told(r)
    BY <1>11, ReadTold DEF SkipWhileJoining
  <2>2. IdleHasNoTask'
    BY <1>11 DEF SkipWhileJoining, NextDown, server, client, IdleHasNoTask, Shapes
  <2>3. ReadersBroadcast'
    BY <1>11 DEF SkipWhileJoining, NextDown, server, client, ReadersBroadcast, Shapes
  <2>4. DepartingIsOut'
    BY <1>11 DEF SkipWhileJoining, NextDown, server, client, DepartingIsOut, Shapes
  <2>5. FreshIsUnheardOf'
    BY <1>11, <2>1 DEF SkipWhileJoining, NextDown, server, client, FreshIsUnheardOf, Shapes, Fresh
  <2>6. ToldTheTruth'
    BY <1>11, <2>1, ToldPeer DEF SkipWhileJoining, NextDown, server, client, ToldTheTruth, Shapes, Fresh
  <2>7. SnapshotsAreOrdered'
    BY <1>11 DEF SkipWhileJoining, NextDown, server, client, SnapshotsAreOrdered, Shapes
  <2>8. LaterKnowsEarlier'
    BY <1>11, <2>1 DEF SkipWhileJoining, NextDown, server, client, LaterKnowsEarlier, Shapes
  <2>9. QED
    BY <2>2, <2>3, <2>4, <2>5, <2>6, <2>7, <2>8 DEF MembershipInv
<1>12. ASSUME NEW p \in Peers, OnPeerJoined(p) PROVE MembershipInv'
  <2>1. /\ Head(down[p]) \in Told(p)
        /\ \A r \in Peers : Told(r)' \subseteq Told(r)
    BY <1>12, ReadTold DEF OnPeerJoined
  <2>2. IdleHasNoTask'
    BY <1>12 DEF OnPeerJoined, NextDown, server, IdleHasNoTask, Shapes
  <2>3. ReadersBroadcast'
    BY <1>12 DEF OnPeerJoined, NextDown, server, ReadersBroadcast, Shapes
  <2>4. DepartingIsOut'
    BY <1>12 DEF OnPeerJoined, NextDown, server, DepartingIsOut, Shapes
  <2>5. FreshIsUnheardOf'
    BY <1>12, <2>1 DEF OnPeerJoined, NextDown, server, FreshIsUnheardOf, Shapes, Fresh
  <2>6. ToldTheTruth'
    BY <1>12, <2>1, ToldPeer DEF OnPeerJoined, NextDown, server, ToldTheTruth, Shapes, Fresh
  <2>7. SnapshotsAreOrdered'
    BY <1>12 DEF OnPeerJoined, NextDown, server, SnapshotsAreOrdered, Shapes
  <2>8. LaterKnowsEarlier'
    BY <1>12, <2>1 DEF OnPeerJoined, NextDown, server, LaterKnowsEarlier, Shapes
  <2>9. QED
    BY <2>2, <2>3, <2>4, <2>5, <2>6, <2>7, <2>8 DEF MembershipInv
<1>13. ASSUME NEW p \in Peers, OnPeerLeft(p) PROVE MembershipInv'
  <2>1. /\ Head(down[p]) \in Told(p)
        /\ \A r \in Peers : Told(r)' \subseteq Told(r)
    BY <1>13, ReadTold DEF OnPeerLeft
  <2>2. IdleHasNoTask'
    BY <1>13 DEF OnPeerLeft, NextDown, server, IdleHasNoTask, Shapes
  <2>3. ReadersBroadcast'
    BY <1>13 DEF OnPeerLeft, NextDown, server, ReadersBroadcast, Shapes
  <2>4. DepartingIsOut'
    BY <1>13 DEF OnPeerLeft, NextDown, server, DepartingIsOut, Shapes
  <2>5. FreshIsUnheardOf'
    BY <1>13, <2>1 DEF OnPeerLeft, NextDown, server, FreshIsUnheardOf, Shapes, Fresh
  <2>6. ToldTheTruth'
    BY <1>13, <2>1, ToldPeer DEF OnPeerLeft, NextDown, server, ToldTheTruth, Shapes, Fresh
  <2>7. SnapshotsAreOrdered'
    BY <1>13 DEF OnPeerLeft, NextDown, server, SnapshotsAreOrdered, Shapes
  <2>8. LaterKnowsEarlier'
    BY <1>13, <2>1 DEF OnPeerLeft, NextDown, server, LaterKnowsEarlier, Shapes, ToldTheTruth
  <2>9. QED
    BY <2>2, <2>3, <2>4, <2>5, <2>6, <2>7, <2>8 DEF MembershipInv
<1>14. ASSUME NEW p \in Peers, OnKeyDistribute(p) PROVE MembershipInv'
  <2>1. /\ Head(down[p]) \in Told(p)
        /\ \A r \in Peers : Told(r)' \subseteq Told(r)
    BY <1>14, ReadTold DEF OnKeyDistribute
  <2>2. IdleHasNoTask'
    BY <1>14 DEF OnKeyDistribute, NextDown, server, IdleHasNoTask, Shapes
  <2>3. ReadersBroadcast'
    BY <1>14 DEF OnKeyDistribute, NextDown, server, ReadersBroadcast, Shapes
  <2>4. DepartingIsOut'
    BY <1>14 DEF OnKeyDistribute, NextDown, server, DepartingIsOut, Shapes
  <2>5. FreshIsUnheardOf'
    BY <1>14, <2>1 DEF OnKeyDistribute, NextDown, server, FreshIsUnheardOf, Shapes, Fresh
  <2>6. ToldTheTruth'
    BY <1>14, <2>1, ToldPeer DEF OnKeyDistribute, NextDown, server, ToldTheTruth, Shapes, Fresh
  <2>7. SnapshotsAreOrdered'
    BY <1>14 DEF OnKeyDistribute, NextDown, server, SnapshotsAreOrdered, Shapes
  <2>8. LaterKnowsEarlier'
    BY <1>14, <2>1 DEF OnKeyDistribute, NextDown, server, LaterKnowsEarlier, Shapes
  <2>9. QED
    BY <2>2, <2>3, <2>4, <2>5, <2>6, <2>7, <2>8 DEF MembershipInv
<1>15. ASSUME NEW p \in Peers, Connect(p) PROVE MembershipInv'
  <2>1. \A r \in Peers : Told(r)' = Told(r)
    BY <1>15 DEF Connect, Told
  <2>2. IdleHasNoTask'
    BY <1>15 DEF Connect, IdleHasNoTask, Shapes
  <2>3. ReadersBroadcast'
    BY <1>15 DEF Connect, ReadersBroadcast, IdleHasNoTask, Shapes
  <2>4. DepartingIsOut'
    BY <1>15 DEF Connect, DepartingIsOut, Shapes
  <2>5. FreshIsUnheardOf'
    BY <1>15, <2>1 DEF Connect, FreshIsUnheardOf, IdleHasNoTask, Shapes, Fresh
  <2>6. ToldTheTruth'
    <3>1. \A r \in Peers : Fresh(r)' => Fresh(r)
      BY <1>15 DEF Connect, Fresh, IdleHasNoTask, Shapes
    <3>2. UNCHANGED <<members, existing>>
      BY <1>15 DEF Connect
    <3>3. QED
      BY <2>1, <3>1, <3>2, ToldPeer DEF ToldTheTruth
  <2>7. SnapshotsAreOrdered'
    BY <1>15 DEF Connect, SnapshotsAreOrdered, Shapes
  <2>8. LaterKnowsEarlier'
    BY <1>15, <2>1 DEF Connect, LaterKnowsEarlier, Shapes
  <2>9. QED
    BY <2>2, <2>3, <2>4, <2>5, <2>6, <2>7, <2>8 DEF MembershipInv
<1>16. ASSUME NEW p \in Peers, HangUp(p) PROVE MembershipInv'
  <2>1. \A r \in Peers : Told(r)' \subseteq Told(r)
    BY <1>16 DEF HangUp, Told, Shapes
  <2>2. IdleHasNoTask'
    BY <1>16 DEF HangUp, server, IdleHasNoTask, Shapes
  <2>3. ReadersBroadcast'
    BY <1>16 DEF HangUp, server, ReadersBroadcast, Shapes
  <2>4. DepartingIsOut'
    BY <1>16 DEF HangUp, server, DepartingIsOut, Shapes
  <2>5. FreshIsUnheardOf'
    BY <1>16, <2>1 DEF HangUp, server, FreshIsUnheardOf, Shapes, Fresh
  <2>6. ToldTheTruth'
    BY <1>16, <2>1, ToldPeer DEF HangUp, server, ToldTheTruth, Shapes, Fresh
  <2>7. SnapshotsAreOrdered'
    BY <1>16 DEF HangUp, server, SnapshotsAreOrdered, Shapes
  <2>8. LaterKnowsEarlier'
    BY <1>16, <2>1 DEF HangUp, server, LaterKnowsEarlier, Shapes
  <2>9. QED
    BY <2>2, <2>3, <2>4, <2>5, <2>6, <2>7, <2>8 DEF MembershipInv
<1>17. CASE UNCHANGED vars
  BY <1>17 DEF vars, server, client, MembershipInv, IdleHasNoTask, ReadersBroadcast, DepartingIsOut,
     FreshIsUnheardOf, ToldTheTruth, SnapshotsAreOrdered, LaterKnowsEarlier, Fresh, Told
<1>18. QED
  BY <1>1, <1>2, <1>3, <1>4, <1>5, <1>6, <1>7, <1>8, <1>9, <1>10, <1>11, <1>12, <1>13, <1>14, <1>15, <1>16, <1>17
     DEF Next, Change, ServerStep, ClientStep

\* The strengthened invariant holds in every reachable state.
THEOREM Membership == Spec => []MembershipInv
<1>1. Init => MembershipInv
  BY MembershipInit
<1>2. Types /\ MembershipInv /\ [Next]_vars => MembershipInv'
  BY MembershipNext
<1>3. QED
  BY <1>1, <1>2, TypesHold, PTL DEF Spec

\* A session in the call knows everyone who was there before it and still is.
THEOREM LaterKnowsEarlierAlways == Spec => []LaterKnowsEarlier
<1>1. MembershipInv => LaterKnowsEarlier
  BY DEF MembershipInv
<1>2. QED
  BY <1>1, Membership, PTL

\* Of two sessions in the call one always knows the other, in a room of any
\* size and under any overlap of joins, departures and failures.
THEOREM OneKnowsTheOtherAlways == Spec => []OneKnowsTheOther
<1>1. MembershipInv => OneKnowsTheOther
  BY DEF MembershipInv, SnapshotsAreOrdered, LaterKnowsEarlier, OneKnowsTheOther, InCall
<1>2. QED
  BY <1>1, Membership, PTL

----------------------------------------------------------------------------
(* Where tasks and clients are relative to each other *)

\* A client that is not in the call knows nothing; a task past the insertion is
\* in the room, and one that ends has lost its client.
OutsideKnowNothing == \A p \in Peers : phase[p] # "call" => known[p] = {} /\ keys[p] = {}
ServedAreIn ==
    \A p \in Peers : task[p] \in {"list", "announce", "loop", "relay", "remove"} => p \in members
EndingIsOver    == \A p \in Peers : task[p] \in {"remove", "bye", "gone"} => Lost(p)
LostHearNothing == \A p \in Peers : Lost(p) => down[p] = <<>>

\* The PeerList is on its way to a client that waits for it.
ListIsSent ==
    \A p \in Peers : phase[p] = "joining" /\ task[p] \in {"announce", "loop", "relay"} =>
        \E m \in Told(p) : m.type = "PeerList"

\* A session is never told of itself.
NotToldOfItself ==
    \A p \in Peers : /\ p \notin existing[p] /\ p \notin todo[p] /\ p \notin known[p]
                     /\ \A m \in Told(p) : m.type = "PeerJoined" => m.peer # p

Basics ==
    /\ OutsideKnowNothing /\ ServedAreIn /\ EndingIsOver /\ LostHearNothing
    /\ ListIsSent /\ NotToldOfItself

\* What else was told stays told when a message is read.
LEMMA ReadRest ==
    ASSUME Types, NEW p \in Peers, NextDown(p)
    PROVE  /\ \A m \in Told(p) : m = Head(down[p]) \/ m \in Told(p)'
           /\ \A r \in Peers \ {p} : down'[r] = down[r] /\ Told(r)' = Told(r)
<1>1. down[p] \in Seq(Msg) /\ down[p] # <<>> /\ down'[p] = Tail(down[p])
  BY DEF Types, NextDown
<1>2. ASSUME NEW i \in 1 .. Len(down[p]), i # 1
      PROVE  down[p][i] \in Told(p)'
  <2>1. i - 1 \in 1 .. Len(Tail(down[p])) /\ Tail(down[p])[i - 1] = down[p][i]
    BY <1>1, <1>2
  <2>2. QED
    BY <1>1, <2>1 DEF Told
<1>3. \A m \in Told(p) : m = Head(down[p]) \/ m \in Told(p)'
  BY <1>1, <1>2 DEF Told
<1>4. \A r \in Peers \ {p} : down'[r] = down[r]
  BY DEF NextDown, Types
<1>5. QED
  BY <1>3, <1>4 DEF Told

\* A message that is delivered adds to what was told, unless the client is gone.
LEMMA DeliverAdds ==
    ASSUME Types, NEW q \in Peers, NEW m \in Msg, Deliver(q, m)
    PROVE  /\ \A r \in Peers : Told(r) \subseteq Told(r)'
           /\ ~Lost(q) => m \in Told(q)'
           /\ Lost(q) => down'[q] = down[q]
<1>1. CASE Lost(q)
  <2>1. down' = down
    BY <1>1 DEF Deliver
  <2>2. QED
    BY <1>1, <2>1 DEF Told
<1>2. CASE ~Lost(q)
  <2>1. down[q] \in Seq(Msg) /\ down'[q] = Append(down[q], m)
    BY <1>2 DEF Types, Deliver
  <2>2. \A r \in Peers \ {q} : Told(r)' = Told(r)
    BY <1>2 DEF Types, Deliver, Told
  <2>3. Len(down'[q]) = Len(down[q]) + 1 /\ Len(down[q]) \in Nat
    BY <2>1
  <2>4. \A i \in 1 .. Len(down[q]) : down'[q][i] = down[q][i] /\ i \in 1 .. Len(down'[q])
    BY <2>1, <2>3
  <2>5. down'[q][Len(down[q]) + 1] = m /\ Len(down[q]) + 1 \in 1 .. Len(down'[q])
    BY <2>1, <2>3
  <2>6. Told(q) \subseteq Told(q)' /\ m \in Told(q)'
    BY <2>4, <2>5 DEF Told
  <2>7. QED
    BY <1>2, <2>2, <2>6
<1>3. QED
  BY <1>1, <1>2

\* Every step preserves them.
LEMMA BasicsNext ==
    ASSUME Types, MembershipInv, Basics, [Next]_vars
    PROVE  Basics'
<1> Shapes /\ DOMAIN keys = Peers
  BY DEF Shapes, Types
<1> /\ IdleHasNoTask /\ ReadersBroadcast /\ DepartingIsOut /\ FreshIsUnheardOf
    /\ ToldTheTruth
  BY DEF MembershipInv
<1> /\ OutsideKnowNothing /\ ServedAreIn /\ EndingIsOver /\ LostHearNothing
    /\ ListIsSent /\ NotToldOfItself
  BY DEF Basics
<1> HIDE DEF Basics, MembershipInv
<1>1. ASSUME NEW p \in Peers, Add(p) PROVE Basics'
  <2>1. \A r \in Peers : Told(r)' = Told(r) /\ down'[r] = down[r]
    BY <1>1 DEF Add, Told
  <2>2. OutsideKnowNothing'
    BY <1>1, <2>1 DEF Add, client, OutsideKnowNothing, Shapes, Lost, FreshIsUnheardOf, Fresh, IdleHasNoTask
  <2>3. ServedAreIn'
    BY <1>1, <2>1 DEF Add, client, ServedAreIn, Shapes, Lost, FreshIsUnheardOf, Fresh, IdleHasNoTask
  <2>4. EndingIsOver'
    BY <1>1, <2>1 DEF Add, client, EndingIsOver, Shapes, Lost, FreshIsUnheardOf, Fresh, IdleHasNoTask
  <2>5. LostHearNothing'
    BY <1>1, <2>1 DEF Add, client, LostHearNothing, Shapes, Lost, FreshIsUnheardOf, Fresh, IdleHasNoTask
  <2>6. ListIsSent'
    BY <1>1, <2>1 DEF Add, client, ListIsSent, Shapes, Lost, PeerList, FreshIsUnheardOf, Fresh, IdleHasNoTask
  <2>7. NotToldOfItself'
    BY <1>1, <2>1 DEF Add, client, NotToldOfItself, Shapes, Lost, FreshIsUnheardOf, Fresh, IdleHasNoTask
  <2>8. QED
    BY <2>2, <2>3, <2>4, <2>5, <2>6, <2>7 DEF Basics
<1>2. ASSUME NEW p \in Peers, SendPeerList(p) PROVE Basics'
  <2>1. /\ Told(p)' \subseteq Told(p) \cup {PeerList(existing[p])}
        /\ \A r \in Peers \ {p} : Told(r)' = Told(r) /\ down'[r] = down[r]
        /\ \A r \in Peers : Told(r) \subseteq Told(r)'
        /\ ~Lost(p) => PeerList(existing[p]) \in Told(p)'
        /\ Lost(p) => down'[p] = down[p]
    BY <1>2, DeliverTold, DeliverAdds, MsgType DEF SendPeerList, Shapes
  <2>2. OutsideKnowNothing'
    BY <1>2, <2>1 DEF SendPeerList, client, OutsideKnowNothing, Shapes, Lost
  <2>3. ServedAreIn'
    BY <1>2, <2>1 DEF SendPeerList, client, ServedAreIn, Shapes, Lost
  <2>4. EndingIsOver'
    BY <1>2, <2>1 DEF SendPeerList, client, EndingIsOver, Shapes, Lost
  <2>5. LostHearNothing'
    BY <1>2, <2>1 DEF SendPeerList, client, LostHearNothing, Shapes, Lost
  <2>6. ListIsSent'
    BY <1>2, <2>1 DEF SendPeerList, client, ListIsSent, Shapes, Lost, PeerList
  <2>7. NotToldOfItself'
    BY <1>2, <2>1 DEF SendPeerList, client, NotToldOfItself, Shapes, Lost, PeerList
  <2>8. QED
    BY <2>2, <2>3, <2>4, <2>5, <2>6, <2>7 DEF Basics
<1>3. ASSUME NEW p \in Peers, SendPeerListFails(p) PROVE Basics'
  <2>1. \A r \in Peers : Told(r)' = Told(r) /\ down'[r] = down[r]
    BY <1>3 DEF SendPeerListFails, Told
  <2>2. OutsideKnowNothing'
    BY <1>3, <2>1 DEF SendPeerListFails, client, OutsideKnowNothing, Shapes, Lost
  <2>3. ServedAreIn'
    BY <1>3, <2>1 DEF SendPeerListFails, client, ServedAreIn, Shapes, Lost
  <2>4. EndingIsOver'
    BY <1>3, <2>1 DEF SendPeerListFails, client, EndingIsOver, Shapes, Lost
  <2>5. LostHearNothing'
    BY <1>3, <2>1 DEF SendPeerListFails, client, LostHearNothing, Shapes, Lost
  <2>6. ListIsSent'
    BY <1>3, <2>1 DEF SendPeerListFails, client, ListIsSent, Shapes, Lost, PeerList
  <2>7. NotToldOfItself'
    BY <1>3, <2>1 DEF SendPeerListFails, client, NotToldOfItself, Shapes, Lost
  <2>8. QED
    BY <2>2, <2>3, <2>4, <2>5, <2>6, <2>7 DEF Basics
<1>4. ASSUME NEW p \in Peers, BeginBroadcast(p) PROVE Basics'
  <2>1. \A r \in Peers : Told(r)' = Told(r) /\ down'[r] = down[r]
    BY <1>4 DEF BeginBroadcast, Told
  <2>2. OutsideKnowNothing'
    BY <1>4, <2>1 DEF BeginBroadcast, TakeReadLocks, client, OutsideKnowNothing, Shapes, Lost
  <2>3. ServedAreIn'
    BY <1>4, <2>1 DEF BeginBroadcast, TakeReadLocks, client, ServedAreIn, Shapes, Lost
  <2>4. EndingIsOver'
    BY <1>4, <2>1 DEF BeginBroadcast, TakeReadLocks, client, EndingIsOver, Shapes, Lost
  <2>5. LostHearNothing'
    BY <1>4, <2>1 DEF BeginBroadcast, TakeReadLocks, client, LostHearNothing, Shapes, Lost
  <2>6. ListIsSent'
    BY <1>4, <2>1 DEF BeginBroadcast, TakeReadLocks, client, ListIsSent, Shapes, Lost, PeerList
  <2>7. NotToldOfItself'
    BY <1>4, <2>1 DEF BeginBroadcast, TakeReadLocks, client, NotToldOfItself, Shapes, Lost
  <2>8. QED
    BY <2>2, <2>3, <2>4, <2>5, <2>6, <2>7 DEF Basics
<1>5. ASSUME NEW p \in Peers, RelayKeyDistribute(p) PROVE Basics'
  <2>1. \A r \in Peers : Told(r)' = Told(r) /\ down'[r] = down[r]
    BY <1>5 DEF RelayKeyDistribute, Told
  <2>2. OutsideKnowNothing'
    BY <1>5, <2>1 DEF RelayKeyDistribute, TakeReadLocks, client, OutsideKnowNothing, Shapes, Lost
  <2>3. ServedAreIn'
    BY <1>5, <2>1 DEF RelayKeyDistribute, TakeReadLocks, client, ServedAreIn, Shapes, Lost
  <2>4. EndingIsOver'
    BY <1>5, <2>1 DEF RelayKeyDistribute, TakeReadLocks, client, EndingIsOver, Shapes, Lost
  <2>5. LostHearNothing'
    BY <1>5, <2>1 DEF RelayKeyDistribute, TakeReadLocks, client, LostHearNothing, Shapes, Lost
  <2>6. ListIsSent'
    BY <1>5, <2>1 DEF RelayKeyDistribute, TakeReadLocks, client, ListIsSent, Shapes, Lost, PeerList
  <2>7. NotToldOfItself'
    BY <1>5, <2>1 DEF RelayKeyDistribute, TakeReadLocks, client, NotToldOfItself, Shapes, Lost
  <2>8. QED
    BY <2>2, <2>3, <2>4, <2>5, <2>6, <2>7 DEF Basics
<1>6. ASSUME NEW p \in Peers, EndBroadcast(p) PROVE Basics'
  <2>1. \A r \in Peers : Told(r)' = Told(r) /\ down'[r] = down[r]
    BY <1>6 DEF EndBroadcast, Told
  <2>2. OutsideKnowNothing'
    BY <1>6, <2>1 DEF EndBroadcast, DropGuards, client, OutsideKnowNothing, Shapes, Lost, ReadersBroadcast, EndingIsOver
  <2>3. ServedAreIn'
    BY <1>6, <2>1 DEF EndBroadcast, DropGuards, client, ServedAreIn, Shapes, Lost, ReadersBroadcast, EndingIsOver
  <2>4. EndingIsOver'
    BY <1>6, <2>1 DEF EndBroadcast, DropGuards, client, EndingIsOver, Shapes, Lost, ReadersBroadcast
  <2>5. LostHearNothing'
    BY <1>6, <2>1 DEF EndBroadcast, DropGuards, client, LostHearNothing, Shapes, Lost, ReadersBroadcast, EndingIsOver
  <2>6. ListIsSent'
    BY <1>6, <2>1 DEF EndBroadcast, DropGuards, client, ListIsSent, Shapes, Lost, PeerList, ReadersBroadcast, EndingIsOver
  <2>7. NotToldOfItself'
    BY <1>6, <2>1 DEF EndBroadcast, DropGuards, client, NotToldOfItself, Shapes, Lost, ReadersBroadcast, EndingIsOver
  <2>8. QED
    BY <2>2, <2>3, <2>4, <2>5, <2>6, <2>7 DEF Basics
<1>7. ASSUME NEW p \in Peers, NEW q \in Peers, BroadcastTo(p, q) PROVE Basics'
  <2>1. /\ Told(q)' \subseteq Told(q) \cup {Outgoing(p)}
        /\ \A r \in Peers \ {q} : Told(r)' = Told(r) /\ down'[r] = down[r]
        /\ \A r \in Peers : Told(r) \subseteq Told(r)'
        /\ ~Lost(q) => Outgoing(p) \in Told(q)'
        /\ Lost(q) => down'[q] = down[q]
    BY <1>7, DeliverTold, DeliverAdds, OutgoingType DEF BroadcastTo
  <2>2. OutsideKnowNothing'
    BY <1>7, <2>1 DEF BroadcastTo, DropGuards, client, OutsideKnowNothing, Shapes, Lost, ReadersBroadcast, EndingIsOver
  <2>3. ServedAreIn'
    BY <1>7, <2>1 DEF BroadcastTo, DropGuards, client, ServedAreIn, Shapes, Lost, ReadersBroadcast, EndingIsOver
  <2>4. EndingIsOver'
    BY <1>7, <2>1 DEF BroadcastTo, DropGuards, client, EndingIsOver, Shapes, Lost, ReadersBroadcast
  <2>5. LostHearNothing'
    BY <1>7, <2>1 DEF BroadcastTo, DropGuards, client, LostHearNothing, Shapes, Lost, ReadersBroadcast, EndingIsOver
  <2>6. ListIsSent'
    BY <1>7, <2>1 DEF BroadcastTo, DropGuards, client, ListIsSent, Shapes, Lost, PeerList, ReadersBroadcast, EndingIsOver
  <2>7. NotToldOfItself'
    BY <1>7, <2>1 DEF BroadcastTo, DropGuards, client, NotToldOfItself, Shapes, Lost, Outgoing, PeerJoined, PeerLeft, KeyDistribute, ReadersBroadcast, EndingIsOver
  <2>8. QED
    BY <2>2, <2>3, <2>4, <2>5, <2>6, <2>7 DEF Basics
<1>8. ASSUME NEW p \in Peers, ReadFails(p) PROVE Basics'
  <2>1. \A r \in Peers : Told(r)' = Told(r) /\ down'[r] = down[r]
    BY <1>8 DEF ReadFails, Told
  <2>2. OutsideKnowNothing'
    BY <1>8, <2>1 DEF ReadFails, client, OutsideKnowNothing, Shapes, Lost
  <2>3. ServedAreIn'
    BY <1>8, <2>1 DEF ReadFails, client, ServedAreIn, Shapes, Lost
  <2>4. EndingIsOver'
    BY <1>8, <2>1 DEF ReadFails, client, EndingIsOver, Shapes, Lost
  <2>5. LostHearNothing'
    BY <1>8, <2>1 DEF ReadFails, client, LostHearNothing, Shapes, Lost
  <2>6. ListIsSent'
    BY <1>8, <2>1 DEF ReadFails, client, ListIsSent, Shapes, Lost, PeerList
  <2>7. NotToldOfItself'
    BY <1>8, <2>1 DEF ReadFails, client, NotToldOfItself, Shapes, Lost
  <2>8. QED
    BY <2>2, <2>3, <2>4, <2>5, <2>6, <2>7 DEF Basics
<1>9. ASSUME NEW p \in Peers, Remove(p) PROVE Basics'
  <2>1. \A r \in Peers : Told(r)' = Told(r) /\ down'[r] = down[r]
    BY <1>9 DEF Remove, Told
  <2>2. OutsideKnowNothing'
    BY <1>9, <2>1 DEF Remove, client, OutsideKnowNothing, Shapes, Lost
  <2>3. ServedAreIn'
    BY <1>9, <2>1 DEF Remove, client, ServedAreIn, Shapes, Lost
  <2>4. EndingIsOver'
    BY <1>9, <2>1 DEF Remove, client, EndingIsOver, Shapes, Lost
  <2>5. LostHearNothing'
    BY <1>9, <2>1 DEF Remove, client, LostHearNothing, Shapes, Lost
  <2>6. ListIsSent'
    BY <1>9, <2>1 DEF Remove, client, ListIsSent, Shapes, Lost, PeerList
  <2>7. NotToldOfItself'
    BY <1>9, <2>1 DEF Remove, client, NotToldOfItself, Shapes, Lost
  <2>8. QED
    BY <2>2, <2>3, <2>4, <2>5, <2>6, <2>7 DEF Basics
<1>10. ASSUME NEW p \in Peers, RecvPeerList(p) PROVE Basics'
  <2>1. /\ Head(down[p]) \in Told(p) /\ down[p] # <<>>
        /\ \A r \in Peers : Told(r)' \subseteq Told(r)
        /\ \A m \in Told(p) : m = Head(down[p]) \/ m \in Told(p)'
        /\ \A r \in Peers \ {p} : down'[r] = down[r] /\ Told(r)' = Told(r)
    BY <1>10, ReadTold, ReadRest DEF RecvPeerList, NextDown
  <2>2. OutsideKnowNothing'
    BY <1>10, <2>1 DEF RecvPeerList, NextDown, server, OutsideKnowNothing, Shapes, Lost
  <2>3. ServedAreIn'
    BY <1>10, <2>1 DEF RecvPeerList, NextDown, server, ServedAreIn, Shapes, Lost
  <2>4. EndingIsOver'
    BY <1>10, <2>1 DEF RecvPeerList, NextDown, server, EndingIsOver, Shapes, Lost
  <2>5. LostHearNothing'
    BY <1>10, <2>1 DEF RecvPeerList, NextDown, server, LostHearNothing, Shapes, Lost
  <2>6. ListIsSent'
    BY <1>10, <2>1 DEF RecvPeerList, NextDown, server, ListIsSent, Shapes, Lost, PeerList
  <2>7. NotToldOfItself'
    BY <1>10, <2>1 DEF RecvPeerList, NextDown, server, NotToldOfItself, Shapes, Lost, ToldTheTruth
  <2>8. QED
    BY <2>2, <2>3, <2>4, <2>5, <2>6, <2>7 DEF Basics
<1>11. ASSUME NEW p \in Peers, SkipWhileJoining(p) PROVE Basics'
  <2>1. /\ Head(down[p]) \in Told(p) /\ down[p] # <<>>
        /\ \A r \in Peers : Told(r)' \subseteq Told(r)
        /\ \A m \in Told(p) : m = Head(down[p]) \/ m \in Told(p)'
        /\ \A r \in Peers \ {p} : down'[r] = down[r] /\ Told(r)' = Told(r)
    BY <1>11, ReadTold, ReadRest DEF SkipWhileJoining, NextDown
  <2>2. OutsideKnowNothing'
    BY <1>11, <2>1 DEF SkipWhileJoining, NextDown, server, client, OutsideKnowNothing, Shapes, Lost
  <2>3. ServedAreIn'
    BY <1>11, <2>1 DEF SkipWhileJoining, NextDown, server, client, ServedAreIn, Shapes, Lost
  <2>4. EndingIsOver'
    BY <1>11, <2>1 DEF SkipWhileJoining, NextDown, server, client, EndingIsOver, Shapes, Lost
  <2>5. LostHearNothing'
    BY <1>11, <2>1 DEF SkipWhileJoining, NextDown, server, client, LostHearNothing, Shapes, Lost
  <2>6. ListIsSent'
    BY <1>11, <2>1 DEF SkipWhileJoining, NextDown, server, client, ListIsSent, Shapes, Lost, PeerList
  <2>7. NotToldOfItself'
    BY <1>11, <2>1 DEF SkipWhileJoining, NextDown, server, client, NotToldOfItself, Shapes, Lost
  <2>8. QED
    BY <2>2, <2>3, <2>4, <2>5, <2>6, <2>7 DEF Basics
<1>12. ASSUME NEW p \in Peers, OnPeerJoined(p) PROVE Basics'
  <2>1. /\ Head(down[p]) \in Told(p) /\ down[p] # <<>>
        /\ \A r \in Peers : Told(r)' \subseteq Told(r)
        /\ \A m \in Told(p) : m = Head(down[p]) \/ m \in Told(p)'
        /\ \A r \in Peers \ {p} : down'[r] = down[r] /\ Told(r)' = Told(r)
    BY <1>12, ReadTold, ReadRest DEF OnPeerJoined, NextDown
  <2>2. OutsideKnowNothing'
    BY <1>12, <2>1 DEF OnPeerJoined, NextDown, server, OutsideKnowNothing, Shapes, Lost
  <2>3. ServedAreIn'
    BY <1>12, <2>1 DEF OnPeerJoined, NextDown, server, ServedAreIn, Shapes, Lost
  <2>4. EndingIsOver'
    BY <1>12, <2>1 DEF OnPeerJoined, NextDown, server, EndingIsOver, Shapes, Lost
  <2>5. LostHearNothing'
    BY <1>12, <2>1 DEF OnPeerJoined, NextDown, server, LostHearNothing, Shapes, Lost
  <2>6. ListIsSent'
    BY <1>12, <2>1 DEF OnPeerJoined, NextDown, server, ListIsSent, Shapes, Lost, PeerList
  <2>7. NotToldOfItself'
    BY <1>12, <2>1 DEF OnPeerJoined, NextDown, server, NotToldOfItself, Shapes, Lost
  <2>8. QED
    BY <2>2, <2>3, <2>4, <2>5, <2>6, <2>7 DEF Basics
<1>13. ASSUME NEW p \in Peers, OnPeerLeft(p) PROVE Basics'
  <2>1. /\ Head(down[p]) \in Told(p) /\ down[p] # <<>>
        /\ \A r \in Peers : Told(r)' \subseteq Told(r)
        /\ \A m \in Told(p) : m = Head(down[p]) \/ m \in Told(p)'
        /\ \A r \in Peers \ {p} : down'[r] = down[r] /\ Told(r)' = Told(r)
    BY <1>13, ReadTold, ReadRest DEF OnPeerLeft, NextDown
  <2>2. OutsideKnowNothing'
    BY <1>13, <2>1 DEF OnPeerLeft, NextDown, server, OutsideKnowNothing, Shapes, Lost
  <2>3. ServedAreIn'
    BY <1>13, <2>1 DEF OnPeerLeft, NextDown, server, ServedAreIn, Shapes, Lost
  <2>4. EndingIsOver'
    BY <1>13, <2>1 DEF OnPeerLeft, NextDown, server, EndingIsOver, Shapes, Lost
  <2>5. LostHearNothing'
    BY <1>13, <2>1 DEF OnPeerLeft, NextDown, server, LostHearNothing, Shapes, Lost
  <2>6. ListIsSent'
    BY <1>13, <2>1 DEF OnPeerLeft, NextDown, server, ListIsSent, Shapes, Lost, PeerList
  <2>7. NotToldOfItself'
    BY <1>13, <2>1 DEF OnPeerLeft, NextDown, server, NotToldOfItself, Shapes, Lost
  <2>8. QED
    BY <2>2, <2>3, <2>4, <2>5, <2>6, <2>7 DEF Basics
<1>14. ASSUME NEW p \in Peers, OnKeyDistribute(p) PROVE Basics'
  <2>1. /\ Head(down[p]) \in Told(p) /\ down[p] # <<>>
        /\ \A r \in Peers : Told(r)' \subseteq Told(r)
        /\ \A m \in Told(p) : m = Head(down[p]) \/ m \in Told(p)'
        /\ \A r \in Peers \ {p} : down'[r] = down[r] /\ Told(r)' = Told(r)
    BY <1>14, ReadTold, ReadRest DEF OnKeyDistribute, NextDown
  <2>2. OutsideKnowNothing'
    BY <1>14, <2>1 DEF OnKeyDistribute, NextDown, server, OutsideKnowNothing, Shapes, Lost
  <2>3. ServedAreIn'
    BY <1>14, <2>1 DEF OnKeyDistribute, NextDown, server, ServedAreIn, Shapes, Lost
  <2>4. EndingIsOver'
    BY <1>14, <2>1 DEF OnKeyDistribute, NextDown, server, EndingIsOver, Shapes, Lost
  <2>5. LostHearNothing'
    BY <1>14, <2>1 DEF OnKeyDistribute, NextDown, server, LostHearNothing, Shapes, Lost
  <2>6. ListIsSent'
    BY <1>14, <2>1 DEF OnKeyDistribute, NextDown, server, ListIsSent, Shapes, Lost, PeerList
  <2>7. NotToldOfItself'
    BY <1>14, <2>1 DEF OnKeyDistribute, NextDown, server, NotToldOfItself, Shapes, Lost
  <2>8. QED
    BY <2>2, <2>3, <2>4, <2>5, <2>6, <2>7 DEF Basics
<1>15. ASSUME NEW p \in Peers, Connect(p) PROVE Basics'
  <2>1. \A r \in Peers : Told(r)' = Told(r) /\ down'[r] = down[r]
    BY <1>15 DEF Connect, Told
  <2>2. OutsideKnowNothing'
    BY <1>15, <2>1 DEF Connect, OutsideKnowNothing, Shapes, Lost, FreshIsUnheardOf, Fresh, IdleHasNoTask
  <2>3. ServedAreIn'
    BY <1>15, <2>1 DEF Connect, ServedAreIn, Shapes, Lost, FreshIsUnheardOf, Fresh, IdleHasNoTask
  <2>4. EndingIsOver'
    BY <1>15, <2>1 DEF Connect, EndingIsOver, Shapes, Lost, FreshIsUnheardOf, Fresh, IdleHasNoTask
  <2>5. LostHearNothing'
    BY <1>15, <2>1 DEF Connect, LostHearNothing, Shapes, Lost, FreshIsUnheardOf, Fresh, IdleHasNoTask
  <2>6. ListIsSent'
    BY <1>15, <2>1 DEF Connect, ListIsSent, Shapes, Lost, PeerList, FreshIsUnheardOf, Fresh, IdleHasNoTask
  <2>7. NotToldOfItself'
    BY <1>15, <2>1 DEF Connect, NotToldOfItself, Shapes, Lost, FreshIsUnheardOf, Fresh, IdleHasNoTask
  <2>8. QED
    BY <2>2, <2>3, <2>4, <2>5, <2>6, <2>7 DEF Basics
<1>16. ASSUME NEW p \in Peers, HangUp(p) PROVE Basics'
  <2>1. /\ \A r \in Peers : Told(r)' \subseteq Told(r)
        /\ down'[p] = <<>>
        /\ \A r \in Peers \ {p} : down'[r] = down[r] /\ Told(r)' = Told(r)
    BY <1>16 DEF HangUp, Told, Shapes
  <2>2. OutsideKnowNothing'
    BY <1>16, <2>1 DEF HangUp, server, OutsideKnowNothing, Shapes, Lost
  <2>3. ServedAreIn'
    BY <1>16, <2>1 DEF HangUp, server, ServedAreIn, Shapes, Lost
  <2>4. EndingIsOver'
    BY <1>16, <2>1 DEF HangUp, server, EndingIsOver, Shapes, Lost
  <2>5. LostHearNothing'
    BY <1>16, <2>1 DEF HangUp, server, LostHearNothing, Shapes, Lost
  <2>6. ListIsSent'
    BY <1>16, <2>1 DEF HangUp, server, ListIsSent, Shapes, Lost, PeerList
  <2>7. NotToldOfItself'
    BY <1>16, <2>1 DEF HangUp, server, NotToldOfItself, Shapes, Lost
  <2>8. QED
    BY <2>2, <2>3, <2>4, <2>5, <2>6, <2>7 DEF Basics
<1>17. CASE UNCHANGED vars
  BY <1>17 DEF vars, server, client, Basics, OutsideKnowNothing, ServedAreIn, EndingIsOver, LostHearNothing, ListIsSent, NotToldOfItself, Told, Lost
<1>18. QED
  BY <1>1, <1>2, <1>3, <1>4, <1>5, <1>6, <1>7, <1>8, <1>9, <1>10, <1>11, <1>12, <1>13, <1>14, <1>15, <1>16, <1>17
     DEF Next, Change, ServerStep, ClientStep


----------------------------------------------------------------------------
(* Leftovers *)

\* A session that was not announced is known from a PeerList at most, and its
\* key to nobody.
Unheard(p) == task[p] \in {"none", "handshake", "list"} \/ (task[p] = "gone" /\ p \in members)
UnheardIsUnknown ==
    \A p, q \in Peers : Unheard(p) =>
        /\ p \in known[q] => p \in existing[q]
        /\ p \notin keys[q]
        /\ \A m \in Told(q) : /\ m.type = "PeerJoined" => m.peer # p
                              /\ m.type = "KeyDistribute" => m.sender # p

\* A session is announced by its task alone, after the insertion.
LEMMA UnheardNext ==
    ASSUME Types, MembershipInv, Basics, UnheardIsUnknown, [Next]_vars
    PROVE  UnheardIsUnknown'
<1> Shapes /\ DOMAIN keys = Peers
  BY DEF Shapes, Types
<1> /\ IdleHasNoTask /\ ReadersBroadcast /\ DepartingIsOut /\ FreshIsUnheardOf
    /\ ToldTheTruth
  BY DEF MembershipInv
<1> /\ OutsideKnowNothing /\ ServedAreIn /\ EndingIsOver /\ LostHearNothing
    /\ ListIsSent /\ NotToldOfItself
  BY DEF Basics
<1>1. ASSUME NEW p \in Peers, Add(p) PROVE UnheardIsUnknown'
  <2>1. \A r \in Peers : Told(r)' = Told(r) /\ down'[r] = down[r]
    BY <1>1 DEF Add, Told
  <2>2. QED
    BY <1>1, <2>1 DEF Add, client, FreshIsUnheardOf, Fresh, OutsideKnowNothing, UnheardIsUnknown, Unheard, Shapes
<1>2. ASSUME NEW p \in Peers, SendPeerList(p) PROVE UnheardIsUnknown'
  <2>1. /\ Told(p)' \subseteq Told(p) \cup {PeerList(existing[p])}
        /\ \A r \in Peers \ {p} : Told(r)' = Told(r) /\ down'[r] = down[r]
        /\ \A r \in Peers : Told(r) \subseteq Told(r)'
        /\ ~Lost(p) => PeerList(existing[p]) \in Told(p)'
        /\ Lost(p) => down'[p] = down[p]
    BY <1>2, DeliverTold, DeliverAdds, MsgType DEF SendPeerList, Shapes
  <2>2. QED
    BY <1>2, <2>1 DEF SendPeerList, PeerList, client, UnheardIsUnknown, Unheard, Shapes
<1>3. ASSUME NEW p \in Peers, SendPeerListFails(p) PROVE UnheardIsUnknown'
  <2>1. \A r \in Peers : Told(r)' = Told(r) /\ down'[r] = down[r]
    BY <1>3 DEF SendPeerListFails, Told
  <2>2. QED
    BY <1>3, <2>1 DEF SendPeerListFails, client, UnheardIsUnknown, Unheard, Shapes
<1>4. ASSUME NEW p \in Peers, BeginBroadcast(p) PROVE UnheardIsUnknown'
  <2>1. \A r \in Peers : Told(r)' = Told(r) /\ down'[r] = down[r]
    BY <1>4 DEF BeginBroadcast, Told
  <2>2. QED
    BY <1>4, <2>1 DEF BeginBroadcast, TakeReadLocks, client, UnheardIsUnknown, Unheard, Shapes
<1>5. ASSUME NEW p \in Peers, RelayKeyDistribute(p) PROVE UnheardIsUnknown'
  <2>1. \A r \in Peers : Told(r)' = Told(r) /\ down'[r] = down[r]
    BY <1>5 DEF RelayKeyDistribute, Told
  <2>2. QED
    BY <1>5, <2>1 DEF RelayKeyDistribute, TakeReadLocks, client, UnheardIsUnknown, Unheard, Shapes
<1>6. ASSUME NEW p \in Peers, EndBroadcast(p) PROVE UnheardIsUnknown'
  <2>1. \A r \in Peers : Told(r)' = Told(r) /\ down'[r] = down[r]
    BY <1>6 DEF EndBroadcast, Told
  <2>2. QED
    BY <1>6, <2>1 DEF EndBroadcast, DropGuards, client, DepartingIsOut, ReadersBroadcast, UnheardIsUnknown, Unheard, Shapes
<1>7. ASSUME NEW p \in Peers, NEW q \in Peers, BroadcastTo(p, q) PROVE UnheardIsUnknown'
  <2>1. /\ Told(q)' \subseteq Told(q) \cup {Outgoing(p)}
        /\ \A r \in Peers \ {q} : Told(r)' = Told(r) /\ down'[r] = down[r]
        /\ \A r \in Peers : Told(r) \subseteq Told(r)'
        /\ ~Lost(q) => Outgoing(p) \in Told(q)'
        /\ Lost(q) => down'[q] = down[q]
    BY <1>7, DeliverTold, DeliverAdds, OutgoingType DEF BroadcastTo
  <2>2. \A r \in Peers : Unheard(r)' => Unheard(r) /\ r # p
    BY <1>7 DEF BroadcastTo, DropGuards, ReadersBroadcast, DepartingIsOut, Unheard, Shapes
  <2>3. /\ Outgoing(p).type = "PeerJoined" => Outgoing(p).peer = p
        /\ Outgoing(p).type = "KeyDistribute" => Outgoing(p).sender = p
    BY DEF Outgoing, PeerJoined, PeerLeft, KeyDistribute
  <2>4. known' = known /\ keys' = keys /\ existing' = existing
    BY <1>7 DEF BroadcastTo, client
  <2>5. \A r \in Peers : \A m \in Told(r)' : m \in Told(r) \/ m = Outgoing(p)
    BY <2>1
  <2>6. QED
    BY <2>2, <2>3, <2>4, <2>5 DEF UnheardIsUnknown
<1>8. ASSUME NEW p \in Peers, ReadFails(p) PROVE UnheardIsUnknown'
  <2>1. \A r \in Peers : Told(r)' = Told(r) /\ down'[r] = down[r]
    BY <1>8 DEF ReadFails, Told
  <2>2. QED
    BY <1>8, <2>1 DEF ReadFails, client, FreshIsUnheardOf, Fresh, UnheardIsUnknown, Unheard, Shapes
<1>9. ASSUME NEW p \in Peers, Remove(p) PROVE UnheardIsUnknown'
  <2>1. \A r \in Peers : Told(r)' = Told(r) /\ down'[r] = down[r]
    BY <1>9 DEF Remove, Told
  <2>2. QED
    BY <1>9, <2>1 DEF Remove, client, UnheardIsUnknown, Unheard, Shapes
<1>10. ASSUME NEW p \in Peers, RecvPeerList(p) PROVE UnheardIsUnknown'
  <2>1. /\ Head(down[p]) \in Told(p) /\ down[p] # <<>>
        /\ \A r \in Peers : Told(r)' \subseteq Told(r)
        /\ \A m \in Told(p) : m = Head(down[p]) \/ m \in Told(p)'
        /\ \A r \in Peers \ {p} : down'[r] = down[r] /\ Told(r)' = Told(r)
    BY <1>10, ReadTold, ReadRest DEF RecvPeerList, NextDown
  <2>2. QED
    BY <1>10, <2>1 DEF RecvPeerList, NextDown, server, ToldTheTruth, UnheardIsUnknown, Unheard, Shapes
<1>11. ASSUME NEW p \in Peers, SkipWhileJoining(p) PROVE UnheardIsUnknown'
  <2>1. /\ Head(down[p]) \in Told(p) /\ down[p] # <<>>
        /\ \A r \in Peers : Told(r)' \subseteq Told(r)
        /\ \A m \in Told(p) : m = Head(down[p]) \/ m \in Told(p)'
        /\ \A r \in Peers \ {p} : down'[r] = down[r] /\ Told(r)' = Told(r)
    BY <1>11, ReadTold, ReadRest DEF SkipWhileJoining, NextDown
  <2>2. QED
    BY <1>11, <2>1 DEF SkipWhileJoining, NextDown, server, client, UnheardIsUnknown, Unheard, Shapes
<1>12. ASSUME NEW p \in Peers, OnPeerJoined(p) PROVE UnheardIsUnknown'
  <2>1. /\ Head(down[p]) \in Told(p) /\ down[p] # <<>>
        /\ \A r \in Peers : Told(r)' \subseteq Told(r)
        /\ \A m \in Told(p) : m = Head(down[p]) \/ m \in Told(p)'
        /\ \A r \in Peers \ {p} : down'[r] = down[r] /\ Told(r)' = Told(r)
    BY <1>12, ReadTold, ReadRest DEF OnPeerJoined, NextDown
  <2>2. QED
    BY <1>12, <2>1 DEF OnPeerJoined, NextDown, server, UnheardIsUnknown, Unheard, Shapes
<1>13. ASSUME NEW p \in Peers, OnPeerLeft(p) PROVE UnheardIsUnknown'
  <2>1. /\ Head(down[p]) \in Told(p) /\ down[p] # <<>>
        /\ \A r \in Peers : Told(r)' \subseteq Told(r)
        /\ \A m \in Told(p) : m = Head(down[p]) \/ m \in Told(p)'
        /\ \A r \in Peers \ {p} : down'[r] = down[r] /\ Told(r)' = Told(r)
    BY <1>13, ReadTold, ReadRest DEF OnPeerLeft, NextDown
  <2>2. QED
    BY <1>13, <2>1 DEF OnPeerLeft, NextDown, server, UnheardIsUnknown, Unheard, Shapes
<1>14. ASSUME NEW p \in Peers, OnKeyDistribute(p) PROVE UnheardIsUnknown'
  <2>1. /\ Head(down[p]) \in Told(p) /\ down[p] # <<>>
        /\ \A r \in Peers : Told(r)' \subseteq Told(r)
        /\ \A m \in Told(p) : m = Head(down[p]) \/ m \in Told(p)'
        /\ \A r \in Peers \ {p} : down'[r] = down[r] /\ Told(r)' = Told(r)
    BY <1>14, ReadTold, ReadRest DEF OnKeyDistribute, NextDown
  <2>2. QED
    BY <1>14, <2>1 DEF OnKeyDistribute, NextDown, server, UnheardIsUnknown, Unheard, Shapes
<1>15. ASSUME NEW p \in Peers, Connect(p) PROVE UnheardIsUnknown'
  <2>1. \A r \in Peers : Told(r)' = Told(r) /\ down'[r] = down[r]
    BY <1>15 DEF Connect, Told
  <2>2. QED
    BY <1>15, <2>1 DEF Connect, IdleHasNoTask, UnheardIsUnknown, Unheard, Shapes
<1>16. ASSUME NEW p \in Peers, HangUp(p) PROVE UnheardIsUnknown'
  <2>1. /\ \A r \in Peers : Told(r)' \subseteq Told(r)
        /\ down'[p] = <<>>
        /\ \A r \in Peers \ {p} : down'[r] = down[r] /\ Told(r)' = Told(r)
    BY <1>16 DEF HangUp, Told, Shapes
  <2>2. QED
    BY <1>16, <2>1 DEF HangUp, server, UnheardIsUnknown, Unheard, Shapes
<1>17. CASE UNCHANGED vars
  BY <1>17 DEF vars, server, client, Told, UnheardIsUnknown, Unheard, Shapes
<1>18. QED
  BY <1>1, <1>2, <1>3, <1>4, <1>5, <1>6, <1>7, <1>8, <1>9, <1>10, <1>11, <1>12, <1>13, <1>14, <1>15, <1>16, <1>17
     DEF Next, Change, ServerStep, ClientStep

----------------------------------------------------------------------------
(* Departures *)

\* The task of q has still to tell p that q has left.
LeftComing(q, p) == task[q] = "bye" /\ (q \notin readers \/ p \in todo[q])

\* Whoever is known and gone was in the PeerList or is announced to have left,
\* and a PeerJoined of somebody gone is followed by the PeerLeft.
Remembered(p, q) ==
    q \in known[p] => q \in existing[p] \/ LeftComing(q, p) \/ PeerLeft(q) \in Told(p)
Followed(p, q) ==
    \A i \in 1 .. Len(down[p]) : down[p][i] = PeerJoined(q) =>
        LeftComing(q, p) \/ \E j \in i + 1 .. Len(down[p]) : down[p][j] = PeerLeft(q)
DepartureFollows ==
    \A p \in members, q \in Peers \ members : Remembered(p, q) /\ Followed(p, q)

\* A queue after reading from it and after writing to it, by index.
LEMMA ReadShifts ==
    ASSUME Types, NEW p \in Peers, NextDown(p)
    PROVE  /\ Len(down[p]) \in Nat \ {0} /\ Len(down'[p]) = Len(down[p]) - 1
           /\ Head(down[p]) = down[p][1]
           /\ \A i \in 1 .. Len(down'[p]) :
                 i + 1 \in 1 .. Len(down[p]) /\ down'[p][i] = down[p][i + 1]
<1>1. down[p] \in Seq(Msg) /\ down[p] # <<>> /\ down'[p] = Tail(down[p])
  BY DEF Types, NextDown
<1>2. Len(down[p]) \in Nat \ {0} /\ Len(Tail(down[p])) = Len(down[p]) - 1
  BY <1>1
<1>3. \A i \in 1 .. Len(Tail(down[p])) : Tail(down[p])[i] = down[p][i + 1]
  BY <1>1
<1>4. QED
  BY <1>1, <1>2, <1>3

\* Writing leaves the indices of what was there before.
LEMMA DeliverShifts ==
    ASSUME Types, NEW q \in Peers, NEW m \in Msg, Deliver(q, m), ~Lost(q)
    PROVE  /\ Len(down[q]) \in Nat /\ Len(down'[q]) = Len(down[q]) + 1
           /\ \A i \in 1 .. Len(down[q]) : down'[q][i] = down[q][i]
           /\ down'[q][Len(down[q]) + 1] = m
<1>1. down[q] \in Seq(Msg) /\ down'[q] = Append(down[q], m)
  BY DEF Types, Deliver
<1>2. QED
  BY <1>1

\* What follows a message in p's queue still does after a read,
LEMMA FollowedAfterRead ==
    ASSUME Types, NEW p \in Peers, NEW q \in Peers, NextDown(p), Followed(p, q),
           LeftComing(q, p) => LeftComing(q, p)'
    PROVE  Followed(p, q)'
<1> SUFFICES ASSUME NEW i \in 1 .. Len(down'[p]), down'[p][i] = PeerJoined(q),
                    ~LeftComing(q, p)
             PROVE  \E j \in i + 1 .. Len(down'[p]) : down'[p][j] = PeerLeft(q)
  BY DEF Followed, PeerJoined, PeerLeft
<1>1. i + 1 \in 1 .. Len(down[p]) /\ down[p][i + 1] = PeerJoined(q)
  BY ReadShifts
<1>2. PICK j \in (i + 1) + 1 .. Len(down[p]) : down[p][j] = PeerLeft(q)
  BY <1>1 DEF Followed
<1>3. j - 1 \in i + 1 .. Len(down'[p]) /\ j - 1 \in 1 .. Len(down'[p])
  BY <1>2, ReadShifts
<1>4. down'[p][j - 1] = down[p][j]
  BY <1>2, <1>3, ReadShifts
<1>5. QED
  BY <1>2, <1>3, <1>4

\* and after a write of anything but a PeerJoined of q.
LEMMA FollowedAfterDelivery ==
    ASSUME Types, NEW p \in Peers, NEW q \in Peers, NEW m \in Msg, Deliver(p, m), ~Lost(p),
           Followed(p, q), m # PeerJoined(q),
           LeftComing(q, p) => LeftComing(q, p)' \/ m = PeerLeft(q)
    PROVE  Followed(p, q)'
<1> SUFFICES ASSUME NEW i \in 1 .. Len(down'[p]), down'[p][i] = PeerJoined(q),
                    ~LeftComing(q, p)'
             PROVE  \E j \in i + 1 .. Len(down'[p]) : down'[p][j] = PeerLeft(q)
  BY DEF Followed, PeerJoined, PeerLeft
<1>1. i \in 1 .. Len(down[p]) /\ down[p][i] = PeerJoined(q)
  <2>1. i # Len(down[p]) + 1
    BY DeliverShifts
  <2>2. i \in 1 .. Len(down[p])
    BY <2>1, DeliverShifts
  <2>3. QED
    BY <2>2, DeliverShifts
<1>2. CASE LeftComing(q, p)
  <2>1. m = PeerLeft(q) /\ Len(down[p]) + 1 \in i + 1 .. Len(down'[p])
    BY <1>1, <1>2, DeliverShifts
  <2>2. QED
    BY <2>1, DeliverShifts
<1>3. CASE ~LeftComing(q, p)
  <2>1. PICK j \in i + 1 .. Len(down[p]) : down[p][j] = PeerLeft(q)
    BY <1>1, <1>3 DEF Followed
  <2>2. j \in 1 .. Len(down[p]) /\ j \in i + 1 .. Len(down'[p])
    BY <1>1, <2>1, DeliverShifts
  <2>3. QED
    BY <2>1, <2>2, DeliverShifts
<1>4. QED
  BY <1>2, <1>3

\* What was told is a message, and a PeerJoined is one of the constructor's.
LEMMA ToldMsg ==
    ASSUME Types, NEW p \in Peers, NEW m \in Told(p)
    PROVE  m \in Msg
BY DEF Told, Types

\* A PeerJoined is told by its peer alone.
LEMMA JoinedIs ==
    ASSUME NEW m \in Msg, m.type = "PeerJoined"
    PROVE  m = PeerJoined(m.peer) /\ m.peer \in Peers
BY DEF Msg, PeerJoined

\* A broadcast tells every member, and a client gone hears nothing more.
LEMMA DepartureNext ==
    ASSUME Types, MembershipInv, Basics, DepartureFollows, [Next]_vars
    PROVE  DepartureFollows'
<1> Shapes /\ DOMAIN keys = Peers
  BY DEF Shapes, Types
<1> /\ IdleHasNoTask /\ ReadersBroadcast /\ DepartingIsOut /\ FreshIsUnheardOf
    /\ ToldTheTruth
  BY DEF MembershipInv
<1> /\ OutsideKnowNothing /\ ServedAreIn /\ EndingIsOver /\ LostHearNothing
    /\ ListIsSent /\ NotToldOfItself
  BY DEF Basics
<1>1. ASSUME NEW p \in Peers, Add(p) PROVE DepartureFollows'
  <2>1. \A r \in Peers : Told(r)' = Told(r) /\ down'[r] = down[r]
    BY <1>1 DEF Add, Told
  <2>2. SUFFICES ASSUME NEW r \in members', NEW x \in Peers \ members'
                 PROVE  Remembered(r, x)' /\ Followed(r, x)'
    BY DEF DepartureFollows
  <2>3. x \in Peers \ members /\ x # p /\ r \in Peers
    BY <1>1 DEF Add, Shapes
  <2>4. CASE r = p
    <3>1. known'[p] = {} /\ down'[p] = <<>>
      BY <1>1 DEF Add, client, FreshIsUnheardOf, Fresh, OutsideKnowNothing
    <3>2. QED
      BY <2>4, <3>1 DEF Remembered, Followed
  <2>5. CASE r # p
    <3>1. r \in members /\ existing'[r] = existing[r] /\ known'[r] = known[r]
      BY <1>1, <2>5 DEF Add, client, Shapes
    <3>2. LeftComing(x, r) => LeftComing(x, r)'
      BY <1>1, <2>3 DEF Add, LeftComing, Shapes
    <3>3. QED
      BY <2>1, <2>3, <3>1, <3>2 DEF DepartureFollows, Remembered, Followed, PeerJoined, PeerLeft
  <2>6. QED
    BY <2>4, <2>5
<1>2. ASSUME NEW p \in Peers, SendPeerList(p) PROVE DepartureFollows'
  <2>1. /\ Told(p)' \subseteq Told(p) \cup {PeerList(existing[p])}
        /\ \A r \in Peers \ {p} : Told(r)' = Told(r) /\ down'[r] = down[r]
        /\ \A r \in Peers : Told(r) \subseteq Told(r)'
        /\ ~Lost(p) => PeerList(existing[p]) \in Told(p)'
        /\ Lost(p) => down'[p] = down[p]
    BY <1>2, DeliverTold, DeliverAdds, MsgType DEF SendPeerList, Shapes
  <2>2. SUFFICES ASSUME NEW r \in members', NEW x \in Peers \ members'
                 PROVE  Remembered(r, x)' /\ Followed(r, x)'
    BY DEF DepartureFollows
  <2>3. /\ r \in members /\ x \in Peers \ members /\ r \in Peers
        /\ known'[r] = known[r] /\ existing'[r] = existing[r]
    BY <1>2 DEF SendPeerList, client, Shapes
  <2>4. LeftComing(x, r) => LeftComing(x, r)'
    BY <1>2, <2>3 DEF SendPeerList, LeftComing, Shapes
  <2>5. Remembered(r, x)'
    BY <2>1, <2>3, <2>4 DEF DepartureFollows, Remembered, PeerLeft
  <2>6. CASE r = p /\ ~Lost(p)
    <3>1. PeerList(existing[p]) \in Msg /\ PeerList(existing[p]) # PeerJoined(x)
      BY MsgType DEF PeerList, PeerJoined, Shapes
    <3>2. Deliver(p, PeerList(existing[p])) /\ Followed(p, x)
      BY <1>2, <2>3, <2>6 DEF SendPeerList, DepartureFollows
    <3>3. Followed(p, x)'
      BY <2>3, <2>4, <2>6, <3>1, <3>2, FollowedAfterDelivery
    <3>4. QED
      BY <2>5, <2>6, <3>3
  <2>7. CASE ~(r = p /\ ~Lost(p))
    <3>1. down'[r] = down[r]
      BY <2>1, <2>3, <2>7
    <3>2. QED
      BY <2>3, <2>4, <2>5, <3>1 DEF DepartureFollows, Followed, PeerJoined, PeerLeft
  <2>8. QED
    BY <2>6, <2>7
<1>3. ASSUME NEW p \in Peers, SendPeerListFails(p) PROVE DepartureFollows'
  <2>1. \A r \in Peers : Told(r)' = Told(r) /\ down'[r] = down[r]
    BY <1>3 DEF SendPeerListFails, Told
  <2>2. SUFFICES ASSUME NEW r \in members', NEW x \in Peers \ members'
                 PROVE  Remembered(r, x)' /\ Followed(r, x)'
    BY DEF DepartureFollows
  <2>3. r \in members /\ x \in Peers \ members /\ r \in Peers
    BY <1>3 DEF SendPeerListFails, Shapes, client
  <2>4. LeftComing(x, r) => LeftComing(x, r)'
    BY <1>3, <2>3 DEF SendPeerListFails, LeftComing, Shapes, client
  <2>5. known'[r] = known[r] /\ existing'[r] = existing[r]
    BY <1>3, <2>3 DEF SendPeerListFails, Shapes, client
  <2>6. QED
    BY <2>1, <2>3, <2>4, <2>5 DEF DepartureFollows, Remembered, Followed, PeerJoined, PeerLeft
<1>4. ASSUME NEW p \in Peers, BeginBroadcast(p) PROVE DepartureFollows'
  <2>1. \A r \in Peers : Told(r)' = Told(r) /\ down'[r] = down[r]
    BY <1>4 DEF BeginBroadcast, Told
  <2>2. SUFFICES ASSUME NEW r \in members', NEW x \in Peers \ members'
                 PROVE  Remembered(r, x)' /\ Followed(r, x)'
    BY DEF DepartureFollows
  <2>3. r \in members /\ x \in Peers \ members /\ r \in Peers
    BY <1>4 DEF BeginBroadcast, Shapes, TakeReadLocks, client
  <2>4. LeftComing(x, r) => LeftComing(x, r)'
    BY <1>4, <2>3 DEF BeginBroadcast, LeftComing, Shapes, TakeReadLocks, client
  <2>5. known'[r] = known[r] /\ existing'[r] = existing[r]
    BY <1>4, <2>3 DEF BeginBroadcast, Shapes, TakeReadLocks, client
  <2>6. QED
    BY <2>1, <2>3, <2>4, <2>5 DEF DepartureFollows, Remembered, Followed, PeerJoined, PeerLeft
<1>5. ASSUME NEW p \in Peers, RelayKeyDistribute(p) PROVE DepartureFollows'
  <2>1. \A r \in Peers : Told(r)' = Told(r) /\ down'[r] = down[r]
    BY <1>5 DEF RelayKeyDistribute, Told
  <2>2. SUFFICES ASSUME NEW r \in members', NEW x \in Peers \ members'
                 PROVE  Remembered(r, x)' /\ Followed(r, x)'
    BY DEF DepartureFollows
  <2>3. r \in members /\ x \in Peers \ members /\ r \in Peers
    BY <1>5 DEF RelayKeyDistribute, Shapes, TakeReadLocks, client
  <2>4. LeftComing(x, r) => LeftComing(x, r)'
    BY <1>5, <2>3 DEF RelayKeyDistribute, LeftComing, Shapes, TakeReadLocks, client
  <2>5. known'[r] = known[r] /\ existing'[r] = existing[r]
    BY <1>5, <2>3 DEF RelayKeyDistribute, Shapes, TakeReadLocks, client
  <2>6. QED
    BY <2>1, <2>3, <2>4, <2>5 DEF DepartureFollows, Remembered, Followed, PeerJoined, PeerLeft
<1>6. ASSUME NEW p \in Peers, EndBroadcast(p) PROVE DepartureFollows'
  <2>1. \A r \in Peers : Told(r)' = Told(r) /\ down'[r] = down[r]
    BY <1>6 DEF EndBroadcast, Told
  <2>2. SUFFICES ASSUME NEW r \in members', NEW x \in Peers \ members'
                 PROVE  Remembered(r, x)' /\ Followed(r, x)'
    BY DEF DepartureFollows
  <2>3. r \in members /\ x \in Peers \ members /\ r \in Peers
    BY <1>6 DEF EndBroadcast, Shapes, DropGuards, client, IdleHasNoTask, ReadersBroadcast
  <2>4. LeftComing(x, r) => LeftComing(x, r)'
    BY <1>6, <2>3 DEF EndBroadcast, LeftComing, Shapes, DropGuards, client, IdleHasNoTask, ReadersBroadcast
  <2>5. known'[r] = known[r] /\ existing'[r] = existing[r]
    BY <1>6, <2>3 DEF EndBroadcast, Shapes, DropGuards, client, IdleHasNoTask, ReadersBroadcast
  <2>6. QED
    BY <2>1, <2>3, <2>4, <2>5 DEF DepartureFollows, Remembered, Followed, PeerJoined, PeerLeft
<1>7. ASSUME NEW p \in Peers, NEW q \in Peers, BroadcastTo(p, q) PROVE DepartureFollows'
  <2>1. /\ Told(q)' \subseteq Told(q) \cup {Outgoing(p)}
        /\ \A r \in Peers \ {q} : Told(r)' = Told(r) /\ down'[r] = down[r]
        /\ \A r \in Peers : Told(r) \subseteq Told(r)'
        /\ ~Lost(q) => Outgoing(p) \in Told(q)'
        /\ Lost(q) => down'[q] = down[q]
    BY <1>7, DeliverTold, DeliverAdds, OutgoingType DEF BroadcastTo
  <2>2. SUFFICES ASSUME NEW r \in members', NEW x \in Peers \ members'
                 PROVE  Remembered(r, x)' /\ Followed(r, x)'
    BY DEF DepartureFollows
  <2>3. /\ r \in members /\ x \in Peers \ members /\ r \in Peers
        /\ known'[r] = known[r] /\ existing'[r] = existing[r]
    BY <1>7 DEF BroadcastTo, client, Shapes
  <2>4. Outgoing(p) # PeerJoined(x) /\ (x = p => Outgoing(p) = PeerLeft(p))
    <3>1. p \in members \/ task[p] = "bye"
      BY <1>7 DEF BroadcastTo, ReadersBroadcast, ServedAreIn
    <3>2. QED
      BY <1>7, <2>3, <3>1 DEF BroadcastTo, ReadersBroadcast, ServedAreIn, Outgoing, PeerJoined,
         PeerLeft, KeyDistribute
  <2>5. LeftComing(x, r) => LeftComing(x, r)' \/ (x = p /\ r = q)
    BY <1>7, <2>3 DEF BroadcastTo, DropGuards, LeftComing, Shapes
  <2>6. CASE r = q /\ ~Lost(q)
    <3>1. LeftComing(x, q) => LeftComing(x, q)' \/ Outgoing(p) = PeerLeft(x)
      BY <2>4, <2>5, <2>6
    <3>2. Deliver(q, Outgoing(p)) /\ Followed(q, x) /\ Remembered(q, x) /\ Outgoing(p) \in Msg
      BY <1>7, <2>3, <2>6, OutgoingType DEF BroadcastTo, DepartureFollows
    <3>3. Followed(q, x)'
      BY <2>3, <2>4, <2>6, <3>1, <3>2, FollowedAfterDelivery
    <3>4. Remembered(q, x)'
      BY <2>1, <2>3, <2>6, <3>1, <3>2 DEF Remembered, PeerLeft
    <3>5. QED
      BY <2>6, <3>3, <3>4
  <2>7. CASE r = q /\ Lost(q)
    <3>1. down'[q] = <<>> /\ known'[q] = {}
      BY <2>1, <2>3, <2>7 DEF LostHearNothing, OutsideKnowNothing, Lost
    <3>2. QED
      BY <2>7, <3>1 DEF Remembered, Followed
  <2>8. CASE r # q
    BY <2>1, <2>3, <2>5, <2>8 DEF DepartureFollows, Remembered, Followed, PeerJoined, PeerLeft
  <2>9. QED
    BY <2>6, <2>7, <2>8
<1>8. ASSUME NEW p \in Peers, ReadFails(p) PROVE DepartureFollows'
  <2>1. \A r \in Peers : Told(r)' = Told(r) /\ down'[r] = down[r]
    BY <1>8 DEF ReadFails, Told
  <2>2. SUFFICES ASSUME NEW r \in members', NEW x \in Peers \ members'
                 PROVE  Remembered(r, x)' /\ Followed(r, x)'
    BY DEF DepartureFollows
  <2>3. r \in members /\ x \in Peers \ members /\ r \in Peers
    BY <1>8 DEF ReadFails, Shapes, client
  <2>4. LeftComing(x, r) => LeftComing(x, r)'
    BY <1>8, <2>3 DEF ReadFails, LeftComing, Shapes, client
  <2>5. known'[r] = known[r] /\ existing'[r] = existing[r]
    BY <1>8, <2>3 DEF ReadFails, Shapes, client
  <2>6. QED
    BY <2>1, <2>3, <2>4, <2>5 DEF DepartureFollows, Remembered, Followed, PeerJoined, PeerLeft
<1>9. ASSUME NEW p \in Peers, Remove(p) PROVE DepartureFollows'
  <2>1. \A r \in Peers : Told(r)' = Told(r) /\ down'[r] = down[r]
    BY <1>9 DEF Remove, Told
  <2>2. SUFFICES ASSUME NEW r \in members', NEW x \in Peers \ members'
                 PROVE  Remembered(r, x)' /\ Followed(r, x)'
    BY DEF DepartureFollows
  <2>3. r \in members /\ r \in Peers /\ existing'[r] = existing[r] /\ known'[r] = known[r]
    BY <1>9 DEF Remove, client, Shapes
  <2>4. CASE x = p
    <3>1. LeftComing(x, r)'
      BY <1>9, <2>4 DEF Remove, LeftComing, Shapes
    <3>2. QED
      BY <3>1 DEF Remembered, Followed
  <2>5. CASE x # p
    <3>1. x \in Peers \ members
      BY <1>9, <2>5 DEF Remove
    <3>2. LeftComing(x, r) => LeftComing(x, r)'
      BY <1>9, <2>5 DEF Remove, LeftComing, Shapes
    <3>3. QED
      BY <2>1, <2>3, <3>1, <3>2 DEF DepartureFollows, Remembered, Followed, PeerJoined, PeerLeft
  <2>6. QED
    BY <2>4, <2>5
<1>10. ASSUME NEW p \in Peers, RecvPeerList(p) PROVE DepartureFollows'
  <2>1. /\ Head(down[p]) \in Told(p) /\ down[p] # <<>>
        /\ \A r \in Peers : Told(r)' \subseteq Told(r)
        /\ \A m \in Told(p) : m = Head(down[p]) \/ m \in Told(p)'
        /\ \A r \in Peers \ {p} : down'[r] = down[r] /\ Told(r)' = Told(r)
    BY <1>10, ReadTold, ReadRest DEF RecvPeerList, NextDown
  <2>2. SUFFICES ASSUME NEW r \in members', NEW x \in Peers \ members'
                 PROVE  Remembered(r, x)' /\ Followed(r, x)'
    BY DEF DepartureFollows
  <2>3. /\ r \in members /\ x \in Peers \ members /\ r \in Peers /\ existing'[r] = existing[r]
        /\ Remembered(r, x) /\ Followed(r, x) /\ NextDown(p)
    BY <1>10 DEF RecvPeerList, NextDown, server, DepartureFollows, Shapes
  <2>4. LeftComing(x, r)' = LeftComing(x, r)
    BY <1>10 DEF RecvPeerList, server, LeftComing
  <2>5. Followed(r, x)'
    <3>1. CASE r = p
      BY <2>3, <2>4, <3>1, FollowedAfterRead
    <3>2. CASE r # p
      BY <2>1, <2>3, <2>4, <3>2 DEF Followed, PeerJoined, PeerLeft
    <3>3. QED
      BY <3>1, <3>2
  <2>6. Remembered(r, x)'
    BY <1>10, <2>1, <2>3, <2>4 DEF RecvPeerList, NextDown, server, Remembered, PeerLeft, Shapes, ToldTheTruth, OutsideKnowNothing
  <2>7. QED
    BY <2>5, <2>6
<1>11. ASSUME NEW p \in Peers, SkipWhileJoining(p) PROVE DepartureFollows'
  <2>1. /\ Head(down[p]) \in Told(p) /\ down[p] # <<>>
        /\ \A r \in Peers : Told(r)' \subseteq Told(r)
        /\ \A m \in Told(p) : m = Head(down[p]) \/ m \in Told(p)'
        /\ \A r \in Peers \ {p} : down'[r] = down[r] /\ Told(r)' = Told(r)
    BY <1>11, ReadTold, ReadRest DEF SkipWhileJoining, NextDown
  <2>2. SUFFICES ASSUME NEW r \in members', NEW x \in Peers \ members'
                 PROVE  Remembered(r, x)' /\ Followed(r, x)'
    BY DEF DepartureFollows
  <2>3. /\ r \in members /\ x \in Peers \ members /\ r \in Peers /\ existing'[r] = existing[r]
        /\ Remembered(r, x) /\ Followed(r, x) /\ NextDown(p)
    BY <1>11 DEF SkipWhileJoining, NextDown, server, client, DepartureFollows, Shapes
  <2>4. LeftComing(x, r)' = LeftComing(x, r)
    BY <1>11 DEF SkipWhileJoining, server, LeftComing
  <2>5. Followed(r, x)'
    <3>1. CASE r = p
      BY <2>3, <2>4, <3>1, FollowedAfterRead
    <3>2. CASE r # p
      BY <2>1, <2>3, <2>4, <3>2 DEF Followed, PeerJoined, PeerLeft
    <3>3. QED
      BY <3>1, <3>2
  <2>6. Remembered(r, x)'
    BY <1>11, <2>1, <2>3, <2>4 DEF SkipWhileJoining, NextDown, server, client, Remembered, PeerLeft, Shapes, ToldTheTruth, OutsideKnowNothing
  <2>7. QED
    BY <2>5, <2>6
<1>12. ASSUME NEW p \in Peers, OnPeerJoined(p) PROVE DepartureFollows'
  <2>1. /\ Head(down[p]) \in Told(p) /\ down[p] # <<>>
        /\ \A r \in Peers : Told(r)' \subseteq Told(r)
        /\ \A m \in Told(p) : m = Head(down[p]) \/ m \in Told(p)'
        /\ \A r \in Peers \ {p} : down'[r] = down[r] /\ Told(r)' = Told(r)
    BY <1>12, ReadTold, ReadRest DEF OnPeerJoined, NextDown
  <2>2. SUFFICES ASSUME NEW r \in members', NEW x \in Peers \ members'
                 PROVE  Remembered(r, x)' /\ Followed(r, x)'
    BY DEF DepartureFollows
  <2>3. /\ r \in members /\ x \in Peers \ members /\ r \in Peers /\ existing'[r] = existing[r]
        /\ Remembered(r, x) /\ Followed(r, x) /\ NextDown(p)
    BY <1>12 DEF OnPeerJoined, NextDown, server, DepartureFollows, Shapes
  <2>4. LeftComing(x, r)' = LeftComing(x, r)
    BY <1>12 DEF OnPeerJoined, server, LeftComing
  <2>5. Followed(r, x)'
    <3>1. CASE r = p
      BY <2>3, <2>4, <3>1, FollowedAfterRead
    <3>2. CASE r # p
      BY <2>1, <2>3, <2>4, <3>2 DEF Followed, PeerJoined, PeerLeft
    <3>3. QED
      BY <3>1, <3>2
  <2>6. Remembered(r, x)'
    <3>1. CASE r = p /\ Head(down[p]).peer = x
      <4>1. Head(down[p]) = PeerJoined(x)
        BY <1>12, <2>1, <3>1, ToldMsg, JoinedIs DEF OnPeerJoined
      <4>2. LeftComing(x, p) \/ \E j \in 1 + 1 .. Len(down[p]) : down[p][j] = PeerLeft(x)
        BY <2>3, <3>1, <4>1, ReadShifts DEF Followed
      <4>3. LeftComing(x, p) \/ PeerLeft(x) \in Told(p)
        BY <2>3, <4>2, ReadShifts DEF Told
      <4>4. QED
        BY <2>1, <2>4, <3>1, <4>1, <4>3 DEF Remembered, PeerLeft, PeerJoined
    <3>2. CASE ~(r = p /\ Head(down[p]).peer = x)
      BY <1>12, <2>1, <2>3, <2>4, <3>2 DEF OnPeerJoined, Remembered, PeerLeft, Shapes
    <3>3. QED
      BY <3>1, <3>2
  <2>7. QED
    BY <2>5, <2>6
<1>13. ASSUME NEW p \in Peers, OnPeerLeft(p) PROVE DepartureFollows'
  <2>1. /\ Head(down[p]) \in Told(p) /\ down[p] # <<>>
        /\ \A r \in Peers : Told(r)' \subseteq Told(r)
        /\ \A m \in Told(p) : m = Head(down[p]) \/ m \in Told(p)'
        /\ \A r \in Peers \ {p} : down'[r] = down[r] /\ Told(r)' = Told(r)
    BY <1>13, ReadTold, ReadRest DEF OnPeerLeft, NextDown
  <2>2. SUFFICES ASSUME NEW r \in members', NEW x \in Peers \ members'
                 PROVE  Remembered(r, x)' /\ Followed(r, x)'
    BY DEF DepartureFollows
  <2>3. /\ r \in members /\ x \in Peers \ members /\ r \in Peers /\ existing'[r] = existing[r]
        /\ Remembered(r, x) /\ Followed(r, x) /\ NextDown(p)
    BY <1>13 DEF OnPeerLeft, NextDown, server, DepartureFollows, Shapes
  <2>4. LeftComing(x, r)' = LeftComing(x, r)
    BY <1>13 DEF OnPeerLeft, server, LeftComing
  <2>5. Followed(r, x)'
    <3>1. CASE r = p
      BY <2>3, <2>4, <3>1, FollowedAfterRead
    <3>2. CASE r # p
      BY <2>1, <2>3, <2>4, <3>2 DEF Followed, PeerJoined, PeerLeft
    <3>3. QED
      BY <3>1, <3>2
  <2>6. Remembered(r, x)'
    BY <1>13, <2>1, <2>3, <2>4 DEF OnPeerLeft, Remembered, PeerLeft, Shapes
  <2>7. QED
    BY <2>5, <2>6
<1>14. ASSUME NEW p \in Peers, OnKeyDistribute(p) PROVE DepartureFollows'
  <2>1. /\ Head(down[p]) \in Told(p) /\ down[p] # <<>>
        /\ \A r \in Peers : Told(r)' \subseteq Told(r)
        /\ \A m \in Told(p) : m = Head(down[p]) \/ m \in Told(p)'
        /\ \A r \in Peers \ {p} : down'[r] = down[r] /\ Told(r)' = Told(r)
    BY <1>14, ReadTold, ReadRest DEF OnKeyDistribute, NextDown
  <2>2. SUFFICES ASSUME NEW r \in members', NEW x \in Peers \ members'
                 PROVE  Remembered(r, x)' /\ Followed(r, x)'
    BY DEF DepartureFollows
  <2>3. /\ r \in members /\ x \in Peers \ members /\ r \in Peers /\ existing'[r] = existing[r]
        /\ Remembered(r, x) /\ Followed(r, x) /\ NextDown(p)
    BY <1>14 DEF OnKeyDistribute, NextDown, server, DepartureFollows, Shapes
  <2>4. LeftComing(x, r)' = LeftComing(x, r)
    BY <1>14 DEF OnKeyDistribute, server, LeftComing
  <2>5. Followed(r, x)'
    <3>1. CASE r = p
      BY <2>3, <2>4, <3>1, FollowedAfterRead
    <3>2. CASE r # p
      BY <2>1, <2>3, <2>4, <3>2 DEF Followed, PeerJoined, PeerLeft
    <3>3. QED
      BY <3>1, <3>2
  <2>6. Remembered(r, x)'
    BY <1>14, <2>1, <2>3, <2>4 DEF OnKeyDistribute, NextDown, server, Remembered, PeerLeft, Shapes
  <2>7. QED
    BY <2>5, <2>6
<1>15. ASSUME NEW p \in Peers, Connect(p) PROVE DepartureFollows'
  <2>1. \A r \in Peers : Told(r)' = Told(r) /\ down'[r] = down[r]
    BY <1>15 DEF Connect, Told
  <2>2. SUFFICES ASSUME NEW r \in members', NEW x \in Peers \ members'
                 PROVE  Remembered(r, x)' /\ Followed(r, x)'
    BY DEF DepartureFollows
  <2>3. r \in members /\ x \in Peers \ members /\ r \in Peers
    BY <1>15 DEF Connect, Shapes, IdleHasNoTask, ReadersBroadcast
  <2>4. LeftComing(x, r) => LeftComing(x, r)'
    BY <1>15, <2>3 DEF Connect, LeftComing, Shapes, IdleHasNoTask, ReadersBroadcast
  <2>5. known'[r] = known[r] /\ existing'[r] = existing[r]
    BY <1>15, <2>3 DEF Connect, Shapes, IdleHasNoTask, ReadersBroadcast
  <2>6. QED
    BY <2>1, <2>3, <2>4, <2>5 DEF DepartureFollows, Remembered, Followed, PeerJoined, PeerLeft
<1>16. ASSUME NEW p \in Peers, HangUp(p) PROVE DepartureFollows'
  <2>1. /\ \A r \in Peers : Told(r)' \subseteq Told(r)
        /\ down'[p] = <<>>
        /\ \A r \in Peers \ {p} : down'[r] = down[r] /\ Told(r)' = Told(r)
    BY <1>16 DEF HangUp, Told, Shapes
  <2>2. SUFFICES ASSUME NEW r \in members', NEW x \in Peers \ members'
                 PROVE  Remembered(r, x)' /\ Followed(r, x)'
    BY DEF DepartureFollows
  <2>3. /\ r \in members /\ x \in Peers \ members /\ r \in Peers /\ existing'[r] = existing[r]
        /\ Remembered(r, x) /\ Followed(r, x)
    BY <1>16 DEF HangUp, server, DepartureFollows, Shapes
  <2>4. LeftComing(x, r)' = LeftComing(x, r)
    BY <1>16 DEF HangUp, server, LeftComing
  <2>5. CASE r = p
    <3>1. known'[p] = {} /\ down'[p] = <<>>
      BY <1>16, <2>1 DEF HangUp, Shapes
    <3>2. QED
      BY <2>5, <3>1 DEF Remembered, Followed
  <2>6. CASE r # p
    <3>1. known'[r] = known[r] /\ down'[r] = down[r] /\ Told(r)' = Told(r)
      BY <1>16, <2>1, <2>3, <2>6 DEF HangUp, Shapes
    <3>2. QED
      BY <2>3, <2>4, <3>1 DEF Remembered, Followed, PeerJoined, PeerLeft
  <2>7. QED
    BY <2>5, <2>6
<1>17. CASE UNCHANGED vars
  BY <1>17 DEF vars, server, client, Told, DepartureFollows, Remembered, Followed, LeftComing, PeerJoined, PeerLeft, Shapes
<1>18. QED
  BY <1>1, <1>2, <1>3, <1>4, <1>5, <1>6, <1>7, <1>8, <1>9, <1>10, <1>11, <1>12, <1>13, <1>14, <1>15, <1>16, <1>17
     DEF Next, Change, ServerStep, ClientStep

----------------------------------------------------------------------------
(* Keys *)

\* The task of q has still to tell p that q has joined, or p to read it.
Announcing(q, p) ==
    \/ task[q] = "list"
    \/ task[q] = "announce" /\ (q \notin readers \/ p \in todo[q])
    \/ PeerJoined(q) \in Told(p)

\* The key of p is there for q, is on its way up, is being relayed, or is on its
\* way down, behind the PeerList that q may still be waiting for.
KeyFor(m, p, q) == m.type = "KeyDistribute" /\ m.sender = p /\ q \in m.sealed
KeySent(p, q) ==
    \E i \in 1 .. Len(up[p]) : up[p][i].type = "KeyDistribute" /\ q \in up[p][i].sealed
KeyRelayed(p, q) == task[p] = "relay" /\ q \in relayed[p] /\ q \in todo[p]
KeyArrives(p, q) ==
    \E i \in 1 .. Len(down[q]) :
        /\ KeyFor(down[q][i], p, q)
        /\ phase[q] = "joining" => \E j \in 1 .. i - 1 : down[q][j].type = "PeerList"
KeyComing(p, q) == p \in keys[q] \/ KeySent(p, q) \/ KeyRelayed(p, q) \/ KeyArrives(p, q)

\* Whoever knows a session sends it the key, now or on its PeerJoined.
KeyReaches ==
    \A p, q \in members :
        phase[p] = "call" /\ q \in known[p] /\ ~Lost(q) => Announcing(q, p) \/ KeyComing(p, q)

\* A key message is sent for whoever it is sealed for.
LEMMA SentAfterDistribute ==
    ASSUME Types, NEW p \in Peers, NEW S \in SUBSET Peers, Distribute(p, S), NEW q \in S
    PROVE  KeySent(p, q)'
<1>1. /\ KeyDistribute(p, S) \in Msg /\ KeyDistribute(p, S).type = "KeyDistribute"
      /\ KeyDistribute(p, S).sealed = S
  BY MsgType DEF KeyDistribute
<1>2. up[p] \in Seq(Msg) /\ up'[p] = Append(up[p], KeyDistribute(p, S))
  BY DEF Types, Distribute
<1>3. /\ Len(up[p]) + 1 \in 1 .. Len(up'[p])
      /\ up'[p][Len(up[p]) + 1] = KeyDistribute(p, S)
  BY <1>1, <1>2
<1>4. QED
  BY <1>1, <1>3 DEF KeySent

\* A key that was sent still is, or has been read.
LEMMA SentAfterRead ==
    ASSUME Types, NEW p \in Peers, NEW type, NextUp(p, type), NEW q, KeySent(p, q)
    PROVE  KeySent(p, q)' \/ (type = "KeyDistribute" /\ q \in Head(up[p]).sealed)
<1>1. up[p] \in Seq(Msg) /\ up[p] # <<>> /\ up'[p] = Tail(up[p]) /\ Head(up[p]).type = type
  BY DEF Types, NextUp, UpNext
<1>2. PICK i \in 1 .. Len(up[p]) : up[p][i].type = "KeyDistribute" /\ q \in up[p][i].sealed
  BY DEF KeySent
<1>3. CASE i = 1
  BY <1>1, <1>2, <1>3
<1>4. CASE i # 1
  <2>1. i - 1 \in 1 .. Len(up'[p]) /\ up'[p][i - 1] = up[p][i]
    BY <1>1, <1>4
  <2>2. QED
    BY <1>2, <2>1 DEF KeySent
<1>5. QED
  BY <1>3, <1>4

\* A key on its way down still is after a write.
LEMMA ArrivesAfterDelivery ==
    ASSUME Types, NEW p, NEW q \in Peers, NEW m \in Msg, Deliver(q, m), ~Lost(q),
           phase'[q] = phase[q],
           \/ KeyArrives(p, q)
           \/ KeyFor(m, p, q) /\ (phase[q] = "joining" => \E l \in Told(q) : l.type = "PeerList")
    PROVE  KeyArrives(p, q)'
<1>1. CASE KeyArrives(p, q)
  <2>1. PICK i \in 1 .. Len(down[q]) :
            /\ KeyFor(down[q][i], p, q)
            /\ phase[q] = "joining" => \E j \in 1 .. i - 1 : down[q][j].type = "PeerList"
    BY <1>1 DEF KeyArrives
  <2>2. i \in 1 .. Len(down'[q]) /\ KeyFor(down'[q][i], p, q)
    BY <2>1, DeliverShifts
  <2>3. \A j \in 1 .. i - 1 : down'[q][j] = down[q][j]
    <3>1. \A j \in 1 .. i - 1 : j \in 1 .. Len(down[q])
      BY DeliverShifts
    <3>2. QED
      BY <3>1, DeliverShifts
  <2>4. QED
    BY <2>1, <2>2, <2>3 DEF KeyArrives, KeyFor
<1>2. CASE KeyFor(m, p, q) /\ (phase[q] = "joining" => \E l \in Told(q) : l.type = "PeerList")
  <2> DEFINE n == Len(down[q]) + 1
  <2>1. n \in 1 .. Len(down'[q]) /\ KeyFor(down'[q][n], p, q)
    BY <1>2, DeliverShifts
  <2>2. ASSUME phase[q] = "joining"
        PROVE  \E j \in 1 .. n - 1 : down'[q][j].type = "PeerList"
    <3>1. PICK j \in 1 .. Len(down[q]) : down[q][j].type = "PeerList"
      BY <1>2, <2>2 DEF Told
    <3>2. j \in 1 .. n - 1 /\ down'[q][j] = down[q][j]
      BY DeliverShifts
    <3>3. QED
      BY <3>1, <3>2
  <2> HIDE DEF n
  <2>3. QED
    BY <2>1, <2>2 DEF KeyArrives, KeyFor
<1>3. QED
  BY <1>1, <1>2

\* Reading loses no key on its way but the one read in the call.
LEMMA ArrivesAfterRead ==
    ASSUME Types, NEW p, NEW q \in Peers, NextDown(q), KeyArrives(p, q),
           phase'[q] = "call" \/ (phase'[q] = phase[q] /\ Head(down[q]).type # "PeerList")
    PROVE  \/ KeyArrives(p, q)'
           \/ KeyFor(Head(down[q]), p, q) /\ phase[q] # "joining"
<1>1. PICK i \in 1 .. Len(down[q]) :
          /\ KeyFor(down[q][i], p, q)
          /\ phase[q] = "joining" => \E j \in 1 .. i - 1 : down[q][j].type = "PeerList"
  BY DEF KeyArrives
<1>2. CASE i = 1
  <2>1. phase[q] # "joining"
    BY <1>1, <1>2
  <2>2. QED
    BY <1>1, <1>2, <2>1, ReadShifts
<1>3. CASE i # 1
  <2>1. i - 1 \in 1 .. Len(down'[q])
    BY <1>3, ReadShifts
  <2>2. KeyFor(down'[q][i - 1], p, q)
    <3>1. down'[q][i - 1] = down[q][i]
      BY <2>1, ReadShifts
    <3>2. QED
      BY <1>1, <3>1
  <2>3. ASSUME phase'[q] = "joining"
        PROVE  \E j \in 1 .. (i - 1) - 1 : down'[q][j].type = "PeerList"
    <3>1. PICK j \in 1 .. i - 1 : down[q][j].type = "PeerList"
      BY <1>1, <2>3
    <3>2. j # 1
      BY <2>3, <3>1, ReadShifts
    <3>3. j - 1 \in 1 .. (i - 1) - 1 /\ j - 1 \in 1 .. Len(down'[q])
      BY <2>1, <3>2, ReadShifts
    <3>4. down'[q][j - 1] = down[q][j]
      BY <3>3, ReadShifts
    <3>5. QED
      BY <3>1, <3>3, <3>4
  <2>4. QED
    BY <2>1, <2>2, <2>3 DEF KeyArrives, KeyFor
<1>4. QED
  BY <1>2, <1>3

\* A key that is dropped was sealed before the PeerList was read; the PeerJoined
\* that comes behind it has another one sent.
LEMMA KeyNext ==
    ASSUME Types, MembershipInv, Basics, KeyReaches, [Next]_vars
    PROVE  KeyReaches'
<1> Shapes /\ DOMAIN keys = Peers
  BY DEF Shapes, Types
<1> /\ IdleHasNoTask /\ ReadersBroadcast /\ DepartingIsOut /\ FreshIsUnheardOf
    /\ ToldTheTruth
  BY DEF MembershipInv
<1> /\ OutsideKnowNothing /\ ServedAreIn /\ EndingIsOver /\ LostHearNothing
    /\ ListIsSent /\ NotToldOfItself
  BY DEF Basics
<1> known' \in [Peers -> SUBSET Peers]
  BY TypedNext DEF Types
<1>1. ASSUME NEW p \in Peers, Add(p) PROVE KeyReaches'
  <2>1. \A r \in Peers : Told(r)' = Told(r) /\ down'[r] = down[r]
    BY <1>1 DEF Add, Told
  <2>2. SUFFICES ASSUME NEW r \in members', NEW x \in members', phase'[r] = "call",
                        x \in known'[r], ~Lost(x)'
                 PROVE  Announcing(x, r)' \/ KeyComing(r, x)'
    BY DEF KeyReaches
  <2>3. /\ r \in Peers /\ x \in Peers /\ r # x /\ r # p
        /\ phase[r] = "call" /\ x \in known[r] /\ ~Lost(x) /\ r \in members
    BY <1>1, <2>2 DEF Add, client, Lost, NotToldOfItself, FreshIsUnheardOf, Fresh, Shapes
  <2>4. CASE x = p
    BY <1>1, <2>4 DEF Add, Announcing, Shapes
  <2>5. CASE x # p
    <3>1. x \in members
      BY <1>1, <2>5 DEF Add
    <3>2. Announcing(x, r) => Announcing(x, r)'
      BY <1>1, <2>1, <2>3, <2>5 DEF Add, Announcing, PeerJoined, Shapes
    <3>3. up'[r] = up[r] /\ task'[r] = task[r]
      BY <1>1, <2>3 DEF Add, NextUp, Types
    <3>4. KeyComing(r, x) => KeyComing(r, x)'
      BY <1>1, <2>1, <2>3, <3>3 DEF Add, client, KeyComing, KeySent, KeyRelayed, KeyArrives, KeyFor, Shapes
    <3>5. QED
      BY <2>3, <3>1, <3>2, <3>4 DEF KeyReaches
  <2>6. QED
    BY <2>4, <2>5
<1>2. ASSUME NEW p \in Peers, SendPeerList(p) PROVE KeyReaches'
  <2>1. /\ Told(p)' \subseteq Told(p) \cup {PeerList(existing[p])}
        /\ \A r \in Peers \ {p} : Told(r)' = Told(r) /\ down'[r] = down[r]
        /\ \A r \in Peers : Told(r) \subseteq Told(r)'
        /\ ~Lost(p) => PeerList(existing[p]) \in Told(p)'
        /\ Lost(p) => down'[p] = down[p]
    BY <1>2, DeliverTold, DeliverAdds, MsgType DEF SendPeerList, Shapes
  <2>2. SUFFICES ASSUME NEW r \in members', NEW x \in members', phase'[r] = "call",
                        x \in known'[r], ~Lost(x)'
                 PROVE  Announcing(x, r)' \/ KeyComing(r, x)'
    BY DEF KeyReaches
  <2>3. /\ r \in members /\ x \in members /\ r \in Peers /\ x \in Peers /\ r # x
        /\ phase[r] = "call" /\ x \in known[r] /\ ~Lost(x)
    BY <1>2, <2>2 DEF SendPeerList, client, Lost, NotToldOfItself, Shapes
  <2>4. Announcing(x, r) => Announcing(x, r)'
    BY <1>2, <2>1, <2>3 DEF SendPeerList, ReadersBroadcast, Announcing, PeerJoined, Shapes
  <2>5. KeyArrives(r, x) => KeyArrives(r, x)'
    <3>1. CASE x = p
      <4>1. Deliver(x, PeerList(existing[p])) /\ PeerList(existing[p]) \in Msg /\ phase'[x] = phase[x]
        BY <1>2, <3>1, MsgType DEF SendPeerList, client, Shapes
      <4>2. QED
        BY <2>3, <4>1, ArrivesAfterDelivery
    <3>2. CASE x # p
      BY <1>2, <2>1, <2>3, <3>2 DEF SendPeerList, client, KeyArrives, KeyFor
    <3>3. QED
      BY <3>1, <3>2
  <2>6. /\ keys' = keys /\ (KeySent(r, x) => KeySent(r, x)')
        /\ KeyRelayed(r, x) => KeyRelayed(r, x)'
    BY <1>2, <2>3 DEF SendPeerList, client, KeySent, KeyRelayed, Shapes
  <2>7. QED
    BY <2>3, <2>4, <2>5, <2>6 DEF KeyReaches, KeyComing
<1>3. ASSUME NEW p \in Peers, SendPeerListFails(p) PROVE KeyReaches'
  <2>1. \A r \in Peers : Told(r)' = Told(r) /\ down'[r] = down[r]
    BY <1>3 DEF SendPeerListFails, Told
  <2>2. SUFFICES ASSUME NEW r \in members', NEW x \in members', phase'[r] = "call",
                        x \in known'[r], ~Lost(x)'
                 PROVE  Announcing(x, r)' \/ KeyComing(r, x)'
    BY DEF KeyReaches
  <2>3. /\ r \in members /\ x \in members /\ r \in Peers /\ x \in Peers /\ r # x
        /\ phase[r] = "call" /\ x \in known[r] /\ ~Lost(x)
    BY <1>3, <2>2 DEF SendPeerListFails, client, Lost, NotToldOfItself, Shapes
  <2>4. Announcing(x, r) => Announcing(x, r)'
    BY <1>3, <2>1, <2>3 DEF SendPeerListFails, client, Announcing, PeerJoined, Lost, Shapes
  <2>5. KeyComing(r, x) => KeyComing(r, x)'
    BY <1>3, <2>1, <2>3 DEF SendPeerListFails, client, KeyComing, KeySent, KeyRelayed, KeyArrives, KeyFor, Lost, Shapes
  <2>6. QED
    BY <2>3, <2>4, <2>5 DEF KeyReaches
<1>4. ASSUME NEW p \in Peers, BeginBroadcast(p) PROVE KeyReaches'
  <2>1. \A r \in Peers : Told(r)' = Told(r) /\ down'[r] = down[r]
    BY <1>4 DEF BeginBroadcast, Told
  <2>2. SUFFICES ASSUME NEW r \in members', NEW x \in members', phase'[r] = "call",
                        x \in known'[r], ~Lost(x)'
                 PROVE  Announcing(x, r)' \/ KeyComing(r, x)'
    BY DEF KeyReaches
  <2>3. /\ r \in members /\ x \in members /\ r \in Peers /\ x \in Peers /\ r # x
        /\ phase[r] = "call" /\ x \in known[r] /\ ~Lost(x)
    BY <1>4, <2>2 DEF BeginBroadcast, TakeReadLocks, client, Lost, NotToldOfItself, Shapes
  <2>4. Announcing(x, r) => Announcing(x, r)'
    BY <1>4, <2>1, <2>3 DEF BeginBroadcast, TakeReadLocks, client, Announcing, PeerJoined, Lost, Shapes
  <2>5. KeyComing(r, x) => KeyComing(r, x)'
    BY <1>4, <2>1, <2>3 DEF BeginBroadcast, TakeReadLocks, client, KeyComing, KeySent, KeyRelayed, KeyArrives, KeyFor, Lost, Shapes
  <2>6. QED
    BY <2>3, <2>4, <2>5 DEF KeyReaches
<1>5. ASSUME NEW p \in Peers, RelayKeyDistribute(p) PROVE KeyReaches'
  <2>1. \A r \in Peers : Told(r)' = Told(r) /\ down'[r] = down[r]
    BY <1>5 DEF RelayKeyDistribute, Told
  <2>2. SUFFICES ASSUME NEW r \in members', NEW x \in members', phase'[r] = "call",
                        x \in known'[r], ~Lost(x)'
                 PROVE  Announcing(x, r)' \/ KeyComing(r, x)'
    BY DEF KeyReaches
  <2>3. /\ r \in members /\ x \in members /\ r \in Peers /\ x \in Peers /\ r # x
        /\ phase[r] = "call" /\ x \in known[r] /\ ~Lost(x) /\ NextUp(p, "KeyDistribute")
    BY <1>5, <2>2 DEF RelayKeyDistribute, client, Lost, NotToldOfItself, Shapes
  <2>4. Announcing(x, r) => Announcing(x, r)'
    BY <1>5, <2>1, <2>3 DEF RelayKeyDistribute, TakeReadLocks, Announcing, PeerJoined, Shapes
  <2>5. KeySent(r, x) => KeySent(r, x)' \/ KeyRelayed(r, x)'
    <3>1. CASE r = p
      <4>1. x \in Head(up[p]).sealed => KeyRelayed(p, x)'
        BY <1>5, <2>3, <3>1 DEF RelayKeyDistribute, TakeReadLocks, KeyRelayed, Shapes, Types
      <4>2. QED
        BY <2>3, <3>1, <4>1, SentAfterRead
    <3>2. CASE r # p
      <4>1. up'[r] = up[r]
        BY <2>3, <3>2 DEF NextUp, Types
      <4>2. QED
        BY <4>1 DEF KeySent
    <3>3. QED
      BY <3>1, <3>2
  <2>6. KeyRelayed(r, x) => KeyRelayed(r, x)'
    BY <1>5, <2>3 DEF RelayKeyDistribute, TakeReadLocks, KeyRelayed, Shapes, Types
  <2>7. KeyArrives(r, x) => KeyArrives(r, x)'
    BY <1>5, <2>1, <2>3 DEF RelayKeyDistribute, client, KeyArrives, KeyFor
  <2>8. keys' = keys
    BY <1>5 DEF RelayKeyDistribute, client
  <2>9. QED
    BY <2>3, <2>4, <2>5, <2>6, <2>7, <2>8 DEF KeyReaches, KeyComing
<1>6. ASSUME NEW p \in Peers, EndBroadcast(p) PROVE KeyReaches'
  <2>1. \A r \in Peers : Told(r)' = Told(r) /\ down'[r] = down[r]
    BY <1>6 DEF EndBroadcast, Told
  <2>2. SUFFICES ASSUME NEW r \in members', NEW x \in members', phase'[r] = "call",
                        x \in known'[r], ~Lost(x)'
                 PROVE  Announcing(x, r)' \/ KeyComing(r, x)'
    BY DEF KeyReaches
  <2>3. /\ r \in members /\ x \in members /\ r \in Peers /\ x \in Peers /\ r # x
        /\ phase[r] = "call" /\ x \in known[r] /\ ~Lost(x)
    BY <1>6, <2>2 DEF EndBroadcast, DropGuards, client, ReadersBroadcast, Lost, NotToldOfItself, Shapes
  <2>4. Announcing(x, r) => Announcing(x, r)'
    BY <1>6, <2>1, <2>3 DEF EndBroadcast, DropGuards, client, ReadersBroadcast, Announcing, PeerJoined, Lost, Shapes
  <2>5. KeyComing(r, x) => KeyComing(r, x)'
    BY <1>6, <2>1, <2>3 DEF EndBroadcast, DropGuards, client, ReadersBroadcast, KeyComing, KeySent, KeyRelayed, KeyArrives, KeyFor, Lost, Shapes
  <2>6. QED
    BY <2>3, <2>4, <2>5 DEF KeyReaches
<1>7. ASSUME NEW p \in Peers, NEW q \in Peers, BroadcastTo(p, q) PROVE KeyReaches'
  <2>1. /\ Told(q)' \subseteq Told(q) \cup {Outgoing(p)}
        /\ \A r \in Peers \ {q} : Told(r)' = Told(r) /\ down'[r] = down[r]
        /\ \A r \in Peers : Told(r) \subseteq Told(r)'
        /\ ~Lost(q) => Outgoing(p) \in Told(q)'
        /\ Lost(q) => down'[q] = down[q]
    BY <1>7, DeliverTold, DeliverAdds, OutgoingType DEF BroadcastTo
  <2>2. SUFFICES ASSUME NEW r \in members', NEW x \in members', phase'[r] = "call",
                        x \in known'[r], ~Lost(x)'
                 PROVE  Announcing(x, r)' \/ KeyComing(r, x)'
    BY DEF KeyReaches
  <2>3. /\ r \in members /\ x \in members /\ r \in Peers /\ x \in Peers /\ r # x
        /\ phase[r] = "call" /\ x \in known[r] /\ ~Lost(x) /\ ~Lost(r)
    BY <1>7, <2>2 DEF BroadcastTo, client, Lost, NotToldOfItself, Shapes
  <2>4. Announcing(x, r) => Announcing(x, r)'
    <3>1. CASE x = p /\ r = q /\ task[p] = "announce"
      <4>1. Outgoing(p) = PeerJoined(p)
        BY <3>1 DEF Outgoing
      <4>2. PeerJoined(p) \in Told(q)'
        BY <2>1, <2>3, <3>1, <4>1
      <4>3. QED
        BY <3>1, <4>2 DEF Announcing, PeerJoined
    <3>2. CASE ~(x = p /\ r = q /\ task[p] = "announce")
      BY <1>7, <2>1, <2>3, <3>2 DEF BroadcastTo, DropGuards, Announcing, PeerJoined, ReadersBroadcast, Shapes
    <3>3. QED
      BY <3>1, <3>2
  <2>5. KeyArrives(r, x) => KeyArrives(r, x)'
    <3>1. CASE x = q
      <4>1. Deliver(x, Outgoing(p)) /\ Outgoing(p) \in Msg /\ phase'[x] = phase[x]
        BY <1>7, <3>1, OutgoingType DEF BroadcastTo, client
      <4>2. QED
        BY <2>3, <4>1, ArrivesAfterDelivery
    <3>2. CASE x # q
      BY <1>7, <2>1, <2>3, <3>2 DEF BroadcastTo, client, KeyArrives, KeyFor
    <3>3. QED
      BY <3>1, <3>2
  <2>6. KeyRelayed(r, x) => KeyRelayed(r, x)' \/ KeyArrives(r, x)' \/ Announcing(x, r)
    <3>1. CASE r = p /\ x = q /\ KeyRelayed(r, x) /\ ~Announcing(x, r)
      <4>1. KeyFor(Outgoing(p), r, x)
        BY <3>1 DEF KeyRelayed, KeyFor, Outgoing, KeyDistribute
      <4>2. phase[x] = "joining" => \E l \in Told(x) : l.type = "PeerList"
        <5>1. task[x] \in {"announce", "loop", "relay"}
          BY <2>3, <3>1 DEF Announcing, EndingIsOver, FreshIsUnheardOf, Fresh, Tasks, Shapes
        <5>2. QED
          BY <2>3, <5>1 DEF ListIsSent
      <4>3. Deliver(x, Outgoing(p)) /\ Outgoing(p) \in Msg /\ phase'[x] = phase[x]
        BY <1>7, <3>1, OutgoingType DEF BroadcastTo, client
      <4>4. QED
        BY <2>3, <4>1, <4>2, <4>3, ArrivesAfterDelivery
    <3>2. CASE ~(r = p /\ x = q)
      BY <1>7, <2>3, <3>2 DEF BroadcastTo, DropGuards, KeyRelayed, Shapes, Types
    <3>3. QED
      BY <3>1, <3>2
  <2>7. keys' = keys /\ (KeySent(r, x) => KeySent(r, x)')
    BY <1>7 DEF BroadcastTo, client, KeySent
  <2>8. QED
    BY <2>3, <2>4, <2>5, <2>6, <2>7 DEF KeyReaches, KeyComing
<1>8. ASSUME NEW p \in Peers, ReadFails(p) PROVE KeyReaches'
  <2>1. \A r \in Peers : Told(r)' = Told(r) /\ down'[r] = down[r]
    BY <1>8 DEF ReadFails, Told
  <2>2. SUFFICES ASSUME NEW r \in members', NEW x \in members', phase'[r] = "call",
                        x \in known'[r], ~Lost(x)'
                 PROVE  Announcing(x, r)' \/ KeyComing(r, x)'
    BY DEF KeyReaches
  <2>3. /\ r \in members /\ x \in members /\ r \in Peers /\ x \in Peers /\ r # x
        /\ phase[r] = "call" /\ x \in known[r] /\ ~Lost(x)
    BY <1>8, <2>2 DEF ReadFails, client, Lost, NotToldOfItself, Shapes
  <2>4. Announcing(x, r) => Announcing(x, r)'
    BY <1>8, <2>1, <2>3 DEF ReadFails, client, Announcing, PeerJoined, Lost, Shapes
  <2>5. KeyComing(r, x) => KeyComing(r, x)'
    BY <1>8, <2>1, <2>3 DEF ReadFails, client, KeyComing, KeySent, KeyRelayed, KeyArrives, KeyFor, Lost, Shapes
  <2>6. QED
    BY <2>3, <2>4, <2>5 DEF KeyReaches
<1>9. ASSUME NEW p \in Peers, Remove(p) PROVE KeyReaches'
  <2>1. \A r \in Peers : Told(r)' = Told(r) /\ down'[r] = down[r]
    BY <1>9 DEF Remove, Told
  <2>2. SUFFICES ASSUME NEW r \in members', NEW x \in members', phase'[r] = "call",
                        x \in known'[r], ~Lost(x)'
                 PROVE  Announcing(x, r)' \/ KeyComing(r, x)'
    BY DEF KeyReaches
  <2>3. /\ r \in members /\ x \in members /\ r \in Peers /\ x \in Peers /\ r # x
        /\ phase[r] = "call" /\ x \in known[r] /\ ~Lost(x)
    BY <1>9, <2>2 DEF Remove, client, Lost, NotToldOfItself, Shapes
  <2>4. Announcing(x, r) => Announcing(x, r)'
    BY <1>9, <2>1, <2>3 DEF Remove, client, Announcing, PeerJoined, Lost, Shapes
  <2>5. KeyComing(r, x) => KeyComing(r, x)'
    BY <1>9, <2>1, <2>3 DEF Remove, client, KeyComing, KeySent, KeyRelayed, KeyArrives, KeyFor, Lost, Shapes
  <2>6. QED
    BY <2>3, <2>4, <2>5 DEF KeyReaches
<1>10. ASSUME NEW p \in Peers, RecvPeerList(p) PROVE KeyReaches'
  <2>1. /\ Head(down[p]) \in Told(p) /\ down[p] # <<>>
        /\ \A r \in Peers : Told(r)' \subseteq Told(r)
        /\ \A m \in Told(p) : m = Head(down[p]) \/ m \in Told(p)'
        /\ \A r \in Peers \ {p} : down'[r] = down[r] /\ Told(r)' = Told(r)
    BY <1>10, ReadTold, ReadRest DEF RecvPeerList, NextDown
  <2>2. SUFFICES ASSUME NEW r \in members', NEW x \in members', phase'[r] = "call",
                        x \in known'[r], ~Lost(x)'
                 PROVE  Announcing(x, r)' \/ KeyComing(r, x)'
    BY DEF KeyReaches
  <2>3. r \in members /\ x \in members /\ r \in Peers /\ x \in Peers /\ ~Lost(x) /\ NextDown(p)
    BY <1>10, <2>2 DEF RecvPeerList, server, Lost, Shapes
  <2>4. CASE r = p
    <3>1. known'[p] \in SUBSET Peers /\ Distribute(p, known'[p])
      BY <1>10 DEF RecvPeerList
    <3>2. KeySent(p, x)'
      BY <2>2, <2>3, <2>4, <3>1, SentAfterDistribute
    <3>3. QED
      BY <2>4, <3>2 DEF KeyComing
  <2>5. CASE r # p
    <3>1. phase[r] = "call" /\ x \in known[r]
      BY <1>10, <2>2, <2>3, <2>5 DEF RecvPeerList, Shapes
    <3>2. Announcing(x, r) => Announcing(x, r)'
      BY <1>10, <2>1, <2>3, <2>5 DEF RecvPeerList, server, Announcing, PeerJoined
    <3>3. (KeySent(r, x) => KeySent(r, x)') /\ (KeyRelayed(r, x) => KeyRelayed(r, x)')
      BY <1>10, <2>3, <2>5 DEF RecvPeerList, Distribute, server, KeySent, KeyRelayed, Types
    <3>4. r \in keys[x] => r \in keys'[x]
      BY <1>10, <2>3 DEF RecvPeerList, Shapes
    <3>5. CASE x = p
      <4>1. KeyArrives(r, p) => KeyArrives(r, p)' \/ KeyFor(Head(down[p]), r, p)
        <5>1. phase'[p] = "call"
          BY <1>10 DEF RecvPeerList, Shapes
        <5>2. QED
          BY <2>3, <3>5, <5>1, ArrivesAfterRead
      <4>2. ~KeyFor(Head(down[p]), r, p)
        BY <1>10 DEF RecvPeerList, KeyFor
      <4>3. QED
        BY <2>3, <3>1, <3>2, <3>3, <3>4, <3>5, <4>1, <4>2, Zenon DEF KeyReaches, KeyComing
    <3>6. CASE x # p
      <4>1. KeyArrives(r, x) => KeyArrives(r, x)'
        BY <1>10, <2>1, <2>3, <3>6 DEF RecvPeerList, KeyArrives, KeyFor, Shapes
      <4>2. QED
        BY <2>3, <3>1, <3>2, <3>3, <3>4, <4>1 DEF KeyReaches, KeyComing
    <3>7. QED
      BY <3>5, <3>6
  <2>6. QED
    BY <2>4, <2>5
<1>11. ASSUME NEW p \in Peers, SkipWhileJoining(p) PROVE KeyReaches'
  <2>1. /\ Head(down[p]) \in Told(p) /\ down[p] # <<>>
        /\ \A r \in Peers : Told(r)' \subseteq Told(r)
        /\ \A m \in Told(p) : m = Head(down[p]) \/ m \in Told(p)'
        /\ \A r \in Peers \ {p} : down'[r] = down[r] /\ Told(r)' = Told(r)
    BY <1>11, ReadTold, ReadRest DEF SkipWhileJoining, NextDown
  <2>2. SUFFICES ASSUME NEW r \in members', NEW x \in members', phase'[r] = "call",
                        x \in known'[r], ~Lost(x)'
                 PROVE  Announcing(x, r)' \/ KeyComing(r, x)'
    BY DEF KeyReaches
  <2>3. /\ r \in members /\ x \in members /\ r \in Peers /\ x \in Peers /\ NextDown(p)
        /\ phase[r] = "call" /\ x \in known[r] /\ ~Lost(x) /\ r # p
    BY <1>11, <2>2 DEF SkipWhileJoining, server, client, Lost, Shapes
  <2>4. Announcing(x, r) => Announcing(x, r)'
    BY <1>11, <2>1, <2>3 DEF SkipWhileJoining, server, Announcing, PeerJoined
  <2>5. KeyArrives(r, x) => KeyArrives(r, x)'
    <3>1. CASE x = p
      <4>1. phase'[x] = phase[x] /\ phase[x] = "joining" /\ Head(down[x]).type # "PeerList"
        BY <1>11, <3>1 DEF SkipWhileJoining, client
      <4>2. QED
        BY <2>3, <3>1, <4>1, ArrivesAfterRead
    <3>2. CASE x # p
      BY <1>11, <2>1, <2>3, <3>2 DEF SkipWhileJoining, client, KeyArrives, KeyFor
    <3>3. QED
      BY <3>1, <3>2
  <2>6. keys' = keys /\ (KeySent(r, x) => KeySent(r, x)') /\ (KeyRelayed(r, x) => KeyRelayed(r, x)')
    BY <1>11 DEF SkipWhileJoining, server, client, KeySent, KeyRelayed
  <2>7. QED
    BY <2>3, <2>4, <2>5, <2>6 DEF KeyReaches, KeyComing
<1>12. ASSUME NEW p \in Peers, OnPeerJoined(p) PROVE KeyReaches'
  <2>1. /\ Head(down[p]) \in Told(p) /\ down[p] # <<>>
        /\ \A r \in Peers : Told(r)' \subseteq Told(r)
        /\ \A m \in Told(p) : m = Head(down[p]) \/ m \in Told(p)'
        /\ \A r \in Peers \ {p} : down'[r] = down[r] /\ Told(r)' = Told(r)
    BY <1>12, ReadTold, ReadRest DEF OnPeerJoined, NextDown
  <2>2. SUFFICES ASSUME NEW r \in members', NEW x \in members', phase'[r] = "call",
                        x \in known'[r], ~Lost(x)'
                 PROVE  Announcing(x, r)' \/ KeyComing(r, x)'
    BY DEF KeyReaches
  <2>3. r \in members /\ x \in members /\ r \in Peers /\ x \in Peers /\ ~Lost(x) /\ NextDown(p)
    BY <1>12, <2>2 DEF OnPeerJoined, server, Lost, Shapes
  <2>4. CASE r = p
    <3>1. known'[p] \in SUBSET Peers /\ Distribute(p, known'[p])
      BY <1>12 DEF OnPeerJoined
    <3>2. KeySent(p, x)'
      BY <2>2, <2>3, <2>4, <3>1, SentAfterDistribute
    <3>3. QED
      BY <2>4, <3>2 DEF KeyComing
  <2>5. CASE r # p
    <3>1. phase[r] = "call" /\ x \in known[r]
      BY <1>12, <2>2, <2>3, <2>5 DEF OnPeerJoined, Shapes
    <3>2. Announcing(x, r) => Announcing(x, r)'
      BY <1>12, <2>1, <2>3, <2>5 DEF OnPeerJoined, server, Announcing, PeerJoined
    <3>3. (KeySent(r, x) => KeySent(r, x)') /\ (KeyRelayed(r, x) => KeyRelayed(r, x)')
      BY <1>12, <2>3, <2>5 DEF OnPeerJoined, Distribute, server, KeySent, KeyRelayed, Types
    <3>4. r \in keys[x] => r \in keys'[x]
      BY <1>12, <2>3 DEF OnPeerJoined, Shapes
    <3>5. CASE x = p
      <4>1. KeyArrives(r, p) => KeyArrives(r, p)' \/ KeyFor(Head(down[p]), r, p)
        <5>1. phase'[p] = "call"
          BY <1>12 DEF OnPeerJoined, Shapes
        <5>2. QED
          BY <2>3, <3>5, <5>1, ArrivesAfterRead
      <4>2. ~KeyFor(Head(down[p]), r, p)
        BY <1>12 DEF OnPeerJoined, KeyFor
      <4>3. QED
        BY <2>3, <3>1, <3>2, <3>3, <3>4, <3>5, <4>1, <4>2, Zenon DEF KeyReaches, KeyComing
    <3>6. CASE x # p
      <4>1. KeyArrives(r, x) => KeyArrives(r, x)'
        BY <1>12, <2>1, <2>3, <3>6 DEF OnPeerJoined, KeyArrives, KeyFor, Shapes
      <4>2. QED
        BY <2>3, <3>1, <3>2, <3>3, <3>4, <4>1 DEF KeyReaches, KeyComing
    <3>7. QED
      BY <3>5, <3>6
  <2>6. QED
    BY <2>4, <2>5
<1>13. ASSUME NEW p \in Peers, OnPeerLeft(p) PROVE KeyReaches'
  <2>1. /\ Head(down[p]) \in Told(p) /\ down[p] # <<>>
        /\ \A r \in Peers : Told(r)' \subseteq Told(r)
        /\ \A m \in Told(p) : m = Head(down[p]) \/ m \in Told(p)'
        /\ \A r \in Peers \ {p} : down'[r] = down[r] /\ Told(r)' = Told(r)
    BY <1>13, ReadTold, ReadRest DEF OnPeerLeft, NextDown
  <2>2. SUFFICES ASSUME NEW r \in members', NEW x \in members', phase'[r] = "call",
                        x \in known'[r], ~Lost(x)'
                 PROVE  Announcing(x, r)' \/ KeyComing(r, x)'
    BY DEF KeyReaches
  <2>3. r \in members /\ x \in members /\ r \in Peers /\ x \in Peers /\ ~Lost(x) /\ NextDown(p)
    BY <1>13, <2>2 DEF OnPeerLeft, server, Lost, Shapes
  <2>4. CASE r = p
    <3>1. /\ phase[r] = "call" /\ x \in known[r] /\ r # x
      BY <1>13, <2>2, <2>4 DEF OnPeerLeft, NotToldOfItself, Shapes
    <3>2. Announcing(x, r) => Announcing(x, r)'
      BY <1>13, <2>1, <2>3, <2>4 DEF OnPeerLeft, server, Announcing, PeerJoined
    <3>3. keys'[x] = keys[x] /\ up' = up /\ phase' = phase /\ down'[x] = down[x]
      BY <1>13, <2>1, <2>3, <2>4, <3>1 DEF OnPeerLeft, Shapes
    <3>4. KeyComing(r, x) => KeyComing(r, x)'
      BY <1>13, <3>3 DEF OnPeerLeft, server, KeyComing, KeySent, KeyRelayed, KeyArrives, KeyFor
    <3>5. QED
      BY <2>3, <3>1, <3>2, <3>4 DEF KeyReaches
  <2>5. CASE r # p
    <3>1. phase[r] = "call" /\ x \in known[r]
      BY <1>13, <2>2, <2>3, <2>5 DEF OnPeerLeft, Shapes
    <3>2. Announcing(x, r) => Announcing(x, r)'
      BY <1>13, <2>1, <2>3, <2>5 DEF OnPeerLeft, server, Announcing, PeerJoined
    <3>3. (KeySent(r, x) => KeySent(r, x)') /\ (KeyRelayed(r, x) => KeyRelayed(r, x)')
      BY <1>13, <2>3, <2>5 DEF OnPeerLeft, Distribute, server, KeySent, KeyRelayed, Types
    <3>4. r \in keys[x] => r \in keys'[x]
      BY <1>13, <2>3 DEF OnPeerLeft, Shapes
    <3>5. CASE x = p
      <4>1. KeyArrives(r, p) => KeyArrives(r, p)' \/ KeyFor(Head(down[p]), r, p)
        <5>1. phase'[p] = "call"
          BY <1>13 DEF OnPeerLeft, Shapes
        <5>2. QED
          BY <2>3, <3>5, <5>1, ArrivesAfterRead
      <4>2. ~KeyFor(Head(down[p]), r, p)
        BY <1>13 DEF OnPeerLeft, KeyFor
      <4>3. QED
        BY <2>3, <3>1, <3>2, <3>3, <3>4, <3>5, <4>1, <4>2, Zenon DEF KeyReaches, KeyComing
    <3>6. CASE x # p
      <4>1. KeyArrives(r, x) => KeyArrives(r, x)'
        BY <1>13, <2>1, <2>3, <3>6 DEF OnPeerLeft, KeyArrives, KeyFor, Shapes
      <4>2. QED
        BY <2>3, <3>1, <3>2, <3>3, <3>4, <4>1 DEF KeyReaches, KeyComing
    <3>7. QED
      BY <3>5, <3>6
  <2>6. QED
    BY <2>4, <2>5
<1>14. ASSUME NEW p \in Peers, OnKeyDistribute(p) PROVE KeyReaches'
  <2>1. /\ Head(down[p]) \in Told(p) /\ down[p] # <<>>
        /\ \A r \in Peers : Told(r)' \subseteq Told(r)
        /\ \A m \in Told(p) : m = Head(down[p]) \/ m \in Told(p)'
        /\ \A r \in Peers \ {p} : down'[r] = down[r] /\ Told(r)' = Told(r)
    BY <1>14, ReadTold, ReadRest DEF OnKeyDistribute, NextDown
  <2>2. SUFFICES ASSUME NEW r \in members', NEW x \in members', phase'[r] = "call",
                        x \in known'[r], ~Lost(x)'
                 PROVE  Announcing(x, r)' \/ KeyComing(r, x)'
    BY DEF KeyReaches
  <2>3. r \in members /\ x \in members /\ r \in Peers /\ x \in Peers /\ ~Lost(x) /\ NextDown(p)
    BY <1>14, <2>2 DEF OnKeyDistribute, server, Lost, Shapes
  <2>4. CASE r = p
    <3>1. /\ phase[r] = "call" /\ x \in known[r] /\ r # x
      BY <1>14, <2>2, <2>4 DEF OnKeyDistribute, NotToldOfItself, Shapes
    <3>2. Announcing(x, r) => Announcing(x, r)'
      BY <1>14, <2>1, <2>3, <2>4 DEF OnKeyDistribute, server, Announcing, PeerJoined
    <3>3. keys'[x] = keys[x] /\ up' = up /\ phase' = phase /\ down'[x] = down[x]
      BY <1>14, <2>1, <2>3, <2>4, <3>1 DEF OnKeyDistribute, Shapes
    <3>4. KeyComing(r, x) => KeyComing(r, x)'
      BY <1>14, <3>3 DEF OnKeyDistribute, server, KeyComing, KeySent, KeyRelayed, KeyArrives, KeyFor
    <3>5. QED
      BY <2>3, <3>1, <3>2, <3>4 DEF KeyReaches
  <2>5. CASE r # p
    <3>1. phase[r] = "call" /\ x \in known[r]
      BY <1>14, <2>2, <2>3, <2>5 DEF OnKeyDistribute, Shapes
    <3>2. Announcing(x, r) => Announcing(x, r)'
      BY <1>14, <2>1, <2>3, <2>5 DEF OnKeyDistribute, server, Announcing, PeerJoined
    <3>3. (KeySent(r, x) => KeySent(r, x)') /\ (KeyRelayed(r, x) => KeyRelayed(r, x)')
      BY <1>14, <2>3, <2>5 DEF OnKeyDistribute, Distribute, server, KeySent, KeyRelayed, Types
    <3>4. r \in keys[x] => r \in keys'[x]
      BY <1>14, <2>3 DEF OnKeyDistribute, Shapes
    <3>5. CASE x = p
      <4>1. KeyArrives(r, p) => KeyArrives(r, p)' \/ KeyFor(Head(down[p]), r, p)
        <5>1. phase'[p] = "call"
          BY <1>14 DEF OnKeyDistribute, Shapes
        <5>2. QED
          BY <2>3, <3>5, <5>1, ArrivesAfterRead
      <4>3. KeyFor(Head(down[p]), r, p) => r \in keys'[p]
        BY <1>14 DEF OnKeyDistribute, KeyFor, Shapes
      <4>4. QED
        BY <2>3, <3>1, <3>2, <3>3, <3>4, <3>5, <4>1, <4>3, Zenon DEF KeyReaches, KeyComing
    <3>6. CASE x # p
      <4>1. KeyArrives(r, x) => KeyArrives(r, x)'
        BY <1>14, <2>1, <2>3, <3>6 DEF OnKeyDistribute, KeyArrives, KeyFor, Shapes
      <4>2. QED
        BY <2>3, <3>1, <3>2, <3>3, <3>4, <4>1 DEF KeyReaches, KeyComing
    <3>7. QED
      BY <3>5, <3>6
  <2>6. QED
    BY <2>4, <2>5
<1>15. ASSUME NEW p \in Peers, Connect(p) PROVE KeyReaches'
  <2>1. \A r \in Peers : Told(r)' = Told(r) /\ down'[r] = down[r]
    BY <1>15 DEF Connect, Told
  <2>2. SUFFICES ASSUME NEW r \in members', NEW x \in members', phase'[r] = "call",
                        x \in known'[r], ~Lost(x)'
                 PROVE  Announcing(x, r)' \/ KeyComing(r, x)'
    BY DEF KeyReaches
  <2>3. /\ r \in members /\ x \in members /\ r \in Peers /\ x \in Peers /\ r # x
        /\ phase[r] = "call" /\ x \in known[r] /\ ~Lost(x)
    BY <1>15, <2>2 DEF Connect, IdleHasNoTask, FreshIsUnheardOf, Fresh, Lost, NotToldOfItself, Shapes
  <2>4. Announcing(x, r) => Announcing(x, r)'
    BY <1>15, <2>1, <2>3 DEF Connect, IdleHasNoTask, FreshIsUnheardOf, Fresh, Announcing, PeerJoined, Lost, Shapes
  <2>5. KeyComing(r, x) => KeyComing(r, x)'
    BY <1>15, <2>1, <2>3 DEF Connect, IdleHasNoTask, FreshIsUnheardOf, Fresh, KeyComing, KeySent, KeyRelayed, KeyArrives, KeyFor, Lost, Shapes
  <2>6. QED
    BY <2>3, <2>4, <2>5 DEF KeyReaches
<1>16. ASSUME NEW p \in Peers, HangUp(p) PROVE KeyReaches'
  <2>1. /\ \A r \in Peers : Told(r)' \subseteq Told(r)
        /\ down'[p] = <<>>
        /\ \A r \in Peers \ {p} : down'[r] = down[r] /\ Told(r)' = Told(r)
    BY <1>16 DEF HangUp, Told, Shapes
  <2>2. SUFFICES ASSUME NEW r \in members', NEW x \in members', phase'[r] = "call",
                        x \in known'[r], ~Lost(x)'
                 PROVE  Announcing(x, r)' \/ KeyComing(r, x)'
    BY DEF KeyReaches
  <2>3. /\ r # p /\ x # p /\ r \in members /\ x \in members /\ r \in Peers /\ x \in Peers
        /\ phase[r] = "call" /\ x \in known[r] /\ ~Lost(x)
        /\ keys'[x] = keys[x] /\ phase'[x] = phase[x]
    BY <1>16, <2>2 DEF HangUp, server, Lost, Shapes
  <2>4. Announcing(x, r) => Announcing(x, r)'
    BY <1>16, <2>1, <2>3 DEF HangUp, server, Announcing, PeerJoined
  <2>5. KeyComing(r, x) => KeyComing(r, x)'
    BY <1>16, <2>1, <2>3 DEF HangUp, server, KeyComing, KeySent, KeyRelayed, KeyArrives, KeyFor
  <2>6. QED
    BY <2>3, <2>4, <2>5 DEF KeyReaches
<1>17. CASE UNCHANGED vars
  BY <1>17 DEF vars, server, client, Told, KeyReaches, Announcing, KeyComing, KeySent, KeyRelayed, KeyArrives, KeyFor, PeerJoined, Lost
<1>18. QED
  BY <1>1, <1>2, <1>3, <1>4, <1>5, <1>6, <1>7, <1>8, <1>9, <1>10, <1>11, <1>12, <1>13, <1>14, <1>15, <1>16, <1>17
     DEF Next, Change, ServerStep, ClientStep

----------------------------------------------------------------------------
(* The theorems about views and keys *)

ViewInv == Basics /\ UnheardIsUnknown /\ DepartureFollows /\ KeyReaches

\* It holds of the empty room.
LEMMA ViewInit == Init => ViewInv
<1> SUFFICES ASSUME Init PROVE ViewInv
  OBVIOUS
<1>1. \A p \in Peers : Told(p) = {}
  BY DEF Init, Told
<1>2. Basics
  BY <1>1 DEF Init, Basics, OutsideKnowNothing, ServedAreIn, EndingIsOver, LostHearNothing,
     ListIsSent, NotToldOfItself, Lost
<1>3. UnheardIsUnknown /\ DepartureFollows /\ KeyReaches
  BY <1>1 DEF Init, UnheardIsUnknown, DepartureFollows, KeyReaches
<1>4. QED
  BY <1>2, <1>3 DEF ViewInv

\* What clients know, hold and have still to hear fits together at all times.
THEOREM Views == Spec => []ViewInv
<1>1. Types /\ MembershipInv /\ ViewInv /\ [Next]_vars => ViewInv'
  BY BasicsNext, UnheardNext, DepartureNext, KeyNext DEF ViewInv
<1>2. QED
  BY <1>1, ViewInit, TypesHold, Membership, PTL DEF Spec

\* Every reachable state is type-correct, and no session is a peer of its own: the
\* snapshot of add_peer_to_room is taken before the insertion, a broadcast leaves
\* its sender out, and no PeerJoined is sent to the peer it names.
THEOREM Typed == Spec => []TypeOK
<1>1. Types /\ ViewInv => TypeOK
  BY DEF TypeOK, ViewInv, Basics, NotToldOfItself
<1>2. QED
  BY <1>1, TypesHold, Views, PTL

\* An entry left in the room by a connection that died in its handshake is known
\* from a PeerList at most: it was never announced and its key is nowhere.
THEOREM LeftoversAlwaysUnannounced == Spec => []LeftoversAreUnannounced
<1>1. Types /\ ViewInv => LeftoversAreUnannounced
  BY DEF Types, ViewInv, UnheardIsUnknown, Unheard, LeftoversAreUnannounced, PeerJoined
<1>2. QED
  BY <1>1, Views, TypesHold, PTL

\* When things have calmed down the departed sessions a client still knows are
\* from its PeerList: whoever was announced to it goes with its PeerLeft.
THEOREM GhostsAlwaysComeFromPeerList == Spec => []GhostsComeFromPeerList
<1>1. Types /\ ViewInv => GhostsComeFromPeerList
  <2> SUFFICES ASSUME Types, ViewInv, Quiet, NEW p \in Peers, InCall(p),
                      NEW q \in known[p] \ members
               PROVE  q \in existing[p]
    BY DEF GhostsComeFromPeerList
  <2>1. q \in Peers /\ p \in members /\ Remembered(p, q)
    BY DEF Types, ViewInv, DepartureFollows, InCall
  <2>2. task[q] # "bye" /\ Told(p) = {}
    BY <2>1 DEF Quiet, ViewInv, Basics, Told, IdleHasNoTask, OutsideKnowNothing, ServedAreIn,
       EndingIsOver, Lost
  <2>3. QED
    BY <2>1, <2>2 DEF Remembered, LeftComing
<1>2. QED
  BY <1>1, Views, TypesHold, PTL

\* When things have calmed down, a session that another one knows holds its key,
\* whatever was dropped while waiting for a PeerList.
THEOREM KnownPeersCanAlwaysDecrypt == Spec => []KnownPeersCanDecrypt
<1>1. Types /\ ViewInv => KnownPeersCanDecrypt
  <2> SUFFICES ASSUME Types, ViewInv, Quiet, NEW p \in Peers, NEW q \in Peers,
                      InCall(p), InCall(q), q \in known[p]
               PROVE  p \in keys[q]
    BY DEF KnownPeersCanDecrypt
  <2>1. /\ down[p] = <<>> /\ down[q] = <<>> /\ up[p] = <<>>
        /\ task[p] = "loop" /\ task[q] = "loop"
    BY DEF Quiet, InCall
  <2>2. Announcing(q, p) \/ KeyComing(p, q)
    BY DEF ViewInv, KeyReaches, InCall, Lost
  <2>3. ~Announcing(q, p)
    BY <2>1 DEF Announcing, Told
  <2>4. QED
    BY <2>1, <2>2, <2>3 DEF KeyComing, KeySent, KeyRelayed, KeyArrives
<1>2. QED
  BY <1>1, Views, TypesHold, PTL

----------------------------------------------------------------------------
(* One change at a time *)

\* While a session joins, nobody else does and no departure is under way.
AloneWhileJoining ==
    \A p, q \in Peers : phase[p] = "joining" /\ p # q =>
        task[q] # "handshake" /\ (Lost(q) => task[q] = "gone")

\* A session only ends in the call, so its task gets to the cleanup.
LostWereServed ==
    \A p \in Peers : Lost(p) => /\ task[p] \in {"loop", "relay", "remove", "bye", "gone"}
                                /\ task[p] = "gone" => p \notin members

\* So the room a session is told of is the room, until it is in the call.
JoiningSeeTheRoom ==
    \A p \in Peers : phase[p] = "joining" =>
        /\ \A q \in Peers : p \notin existing[q]
        /\ ~Fresh(p) => existing[p] \subseteq members

Alone == AloneWhileJoining /\ LostWereServed /\ JoiningSeeTheRoom

\* Those in the call know whoever came later and is still there, or will,
NewcomersAreAnnounced ==
    \A p, q \in members :
        phase[p] = "call" /\ p \in existing[q] => q \in known[p] \/ Announcing(q, p)

\* and hear of the departure of whoever was there before them.
DepartedAreAnnounced ==
    \A p \in members, q \in Peers \ members :
        phase[p] = "call" /\ q \in existing[p] \cap known[p] =>
            LeftComing(q, p) \/ PeerLeft(q) \in Told(p)

\* Nobody gets its own key back,
NoOwnKey ==
    \A p \in Peers : /\ p \notin keys[p]
                     /\ \A m \in Told(p) : m.type = "KeyDistribute" => m.sender # p

\* and the key of somebody who came later is behind its PeerJoined.
KeyFollows(p, q) ==
    /\ q \in keys[p] => q \in known[p]
    /\ \A i \in 1 .. Len(down[p]) :
         down[p][i].type = "KeyDistribute" /\ down[p][i].sender = q =>
           q \in known[p] \/ \E j \in 1 .. i - 1 : down[p][j] = PeerJoined(q)
KeysFollow ==
    \A p, q \in members : phase[p] = "call" /\ p \in existing[q] => KeyFollows(p, q)

SerialInv ==
    /\ NoOwnKey
    /\ ~overlapped => Alone /\ NewcomersAreAnnounced /\ DepartedAreAnnounced /\ KeysFollow

\* The server relays a key to everybody but its sender.
LEMMA OwnKeyNext ==
    ASSUME Types, MembershipInv, Basics, NoOwnKey, [Next]_vars
    PROVE  NoOwnKey'
<1> Shapes /\ DOMAIN keys = Peers
  BY DEF Shapes, Types
<1> /\ IdleHasNoTask /\ ReadersBroadcast /\ DepartingIsOut /\ FreshIsUnheardOf
    /\ ToldTheTruth
  BY DEF MembershipInv
<1> /\ OutsideKnowNothing /\ ServedAreIn /\ EndingIsOver /\ LostHearNothing
    /\ ListIsSent /\ NotToldOfItself
  BY DEF Basics
<1>1. ASSUME NEW p \in Peers, Add(p) PROVE NoOwnKey'
  <2>1. \A r \in Peers : Told(r)' = Told(r) /\ down'[r] = down[r]
    BY <1>1 DEF Add, Told
  <2>2. QED
    BY <1>1, <2>1 DEF Add, client, NoOwnKey, Shapes
<1>2. ASSUME NEW p \in Peers, SendPeerList(p) PROVE NoOwnKey'
  <2>1. /\ Told(p)' \subseteq Told(p) \cup {PeerList(existing[p])}
        /\ \A r \in Peers \ {p} : Told(r)' = Told(r) /\ down'[r] = down[r]
        /\ \A r \in Peers : Told(r) \subseteq Told(r)'
    BY <1>2, DeliverTold, DeliverAdds, MsgType DEF SendPeerList, Shapes
  <2>2. QED
    BY <1>2, <2>1 DEF SendPeerList, client, NoOwnKey, Shapes, PeerList
<1>3. ASSUME NEW p \in Peers, SendPeerListFails(p) PROVE NoOwnKey'
  <2>1. \A r \in Peers : Told(r)' = Told(r) /\ down'[r] = down[r]
    BY <1>3 DEF SendPeerListFails, Told
  <2>2. QED
    BY <1>3, <2>1 DEF SendPeerListFails, client, NoOwnKey, Shapes
<1>4. ASSUME NEW p \in Peers, BeginBroadcast(p) PROVE NoOwnKey'
  <2>1. \A r \in Peers : Told(r)' = Told(r) /\ down'[r] = down[r]
    BY <1>4 DEF BeginBroadcast, Told
  <2>2. QED
    BY <1>4, <2>1 DEF BeginBroadcast, TakeReadLocks, client, NoOwnKey, Shapes
<1>5. ASSUME NEW p \in Peers, RelayKeyDistribute(p) PROVE NoOwnKey'
  <2>1. \A r \in Peers : Told(r)' = Told(r) /\ down'[r] = down[r]
    BY <1>5 DEF RelayKeyDistribute, Told
  <2>2. QED
    BY <1>5, <2>1 DEF RelayKeyDistribute, TakeReadLocks, client, NoOwnKey, Shapes
<1>6. ASSUME NEW p \in Peers, EndBroadcast(p) PROVE NoOwnKey'
  <2>1. \A r \in Peers : Told(r)' = Told(r) /\ down'[r] = down[r]
    BY <1>6 DEF EndBroadcast, Told
  <2>2. QED
    BY <1>6, <2>1 DEF EndBroadcast, DropGuards, client, NoOwnKey, Shapes
<1>7. ASSUME NEW p \in Peers, NEW q \in Peers, BroadcastTo(p, q) PROVE NoOwnKey'
  <2>1. /\ Told(q)' \subseteq Told(q) \cup {Outgoing(p)}
        /\ \A r \in Peers \ {q} : Told(r)' = Told(r) /\ down'[r] = down[r]
        /\ \A r \in Peers : Told(r) \subseteq Told(r)'
        /\ ~Lost(q) => Outgoing(p) \in Told(q)'
    BY <1>7, DeliverTold, DeliverAdds, OutgoingType DEF BroadcastTo
  <2>2. q # p /\ (Outgoing(p).type = "KeyDistribute" => Outgoing(p).sender = p)
    BY <1>7 DEF BroadcastTo, Outgoing, PeerJoined, PeerLeft, KeyDistribute, NotToldOfItself
  <2>3. \A r \in Peers : \A m \in Told(r)' : m \in Told(r) \/ (r = q /\ m = Outgoing(p))
    BY <2>1
  <2>4. QED
    BY <1>7, <2>2, <2>3 DEF BroadcastTo, client, NoOwnKey
<1>8. ASSUME NEW p \in Peers, ReadFails(p) PROVE NoOwnKey'
  <2>1. \A r \in Peers : Told(r)' = Told(r) /\ down'[r] = down[r]
    BY <1>8 DEF ReadFails, Told
  <2>2. QED
    BY <1>8, <2>1 DEF ReadFails, client, NoOwnKey, Shapes
<1>9. ASSUME NEW p \in Peers, Remove(p) PROVE NoOwnKey'
  <2>1. \A r \in Peers : Told(r)' = Told(r) /\ down'[r] = down[r]
    BY <1>9 DEF Remove, Told
  <2>2. QED
    BY <1>9, <2>1 DEF Remove, client, NoOwnKey, Shapes
<1>10. ASSUME NEW p \in Peers, RecvPeerList(p) PROVE NoOwnKey'
  <2>1. /\ Head(down[p]) \in Told(p) /\ down[p] # <<>>
        /\ \A r \in Peers : Told(r)' \subseteq Told(r)
        /\ \A m \in Told(p) : m = Head(down[p]) \/ m \in Told(p)'
        /\ \A r \in Peers \ {p} : down'[r] = down[r] /\ Told(r)' = Told(r)
    BY <1>10, ReadTold, ReadRest DEF RecvPeerList, NextDown
  <2>2. QED
    BY <1>10, <2>1 DEF RecvPeerList, NextDown, server, NoOwnKey, Shapes
<1>11. ASSUME NEW p \in Peers, SkipWhileJoining(p) PROVE NoOwnKey'
  <2>1. /\ Head(down[p]) \in Told(p) /\ down[p] # <<>>
        /\ \A r \in Peers : Told(r)' \subseteq Told(r)
        /\ \A m \in Told(p) : m = Head(down[p]) \/ m \in Told(p)'
        /\ \A r \in Peers \ {p} : down'[r] = down[r] /\ Told(r)' = Told(r)
    BY <1>11, ReadTold, ReadRest DEF SkipWhileJoining, NextDown
  <2>2. QED
    BY <1>11, <2>1 DEF SkipWhileJoining, NextDown, server, client, NoOwnKey, Shapes
<1>12. ASSUME NEW p \in Peers, OnPeerJoined(p) PROVE NoOwnKey'
  <2>1. /\ Head(down[p]) \in Told(p) /\ down[p] # <<>>
        /\ \A r \in Peers : Told(r)' \subseteq Told(r)
        /\ \A m \in Told(p) : m = Head(down[p]) \/ m \in Told(p)'
        /\ \A r \in Peers \ {p} : down'[r] = down[r] /\ Told(r)' = Told(r)
    BY <1>12, ReadTold, ReadRest DEF OnPeerJoined, NextDown
  <2>2. QED
    BY <1>12, <2>1 DEF OnPeerJoined, NextDown, server, NoOwnKey, Shapes
<1>13. ASSUME NEW p \in Peers, OnPeerLeft(p) PROVE NoOwnKey'
  <2>1. /\ Head(down[p]) \in Told(p) /\ down[p] # <<>>
        /\ \A r \in Peers : Told(r)' \subseteq Told(r)
        /\ \A m \in Told(p) : m = Head(down[p]) \/ m \in Told(p)'
        /\ \A r \in Peers \ {p} : down'[r] = down[r] /\ Told(r)' = Told(r)
    BY <1>13, ReadTold, ReadRest DEF OnPeerLeft, NextDown
  <2>2. QED
    BY <1>13, <2>1 DEF OnPeerLeft, NextDown, server, NoOwnKey, Shapes
<1>14. ASSUME NEW p \in Peers, OnKeyDistribute(p) PROVE NoOwnKey'
  <2>1. /\ Head(down[p]) \in Told(p) /\ down[p] # <<>>
        /\ \A r \in Peers : Told(r)' \subseteq Told(r)
        /\ \A m \in Told(p) : m = Head(down[p]) \/ m \in Told(p)'
        /\ \A r \in Peers \ {p} : down'[r] = down[r] /\ Told(r)' = Told(r)
    BY <1>14, ReadTold, ReadRest DEF OnKeyDistribute, NextDown
  <2>2. QED
    BY <1>14, <2>1 DEF OnKeyDistribute, NextDown, server, NoOwnKey, Shapes
<1>15. ASSUME NEW p \in Peers, Connect(p) PROVE NoOwnKey'
  <2>1. \A r \in Peers : Told(r)' = Told(r) /\ down'[r] = down[r]
    BY <1>15 DEF Connect, Told
  <2>2. QED
    BY <1>15, <2>1 DEF Connect, NoOwnKey, Shapes
<1>16. ASSUME NEW p \in Peers, HangUp(p) PROVE NoOwnKey'
  <2>1. /\ \A r \in Peers : Told(r)' \subseteq Told(r)
        /\ \A r \in Peers \ {p} : down'[r] = down[r] /\ Told(r)' = Told(r)
    BY <1>16 DEF HangUp, Told, Shapes
  <2>2. QED
    BY <1>16, <2>1 DEF HangUp, server, NoOwnKey, Shapes
<1>17. CASE UNCHANGED vars
  BY <1>17 DEF vars, server, client, Told, NoOwnKey
<1>18. QED
  BY <1>1, <1>2, <1>3, <1>4, <1>5, <1>6, <1>7, <1>8, <1>9, <1>10, <1>11, <1>12, <1>13, <1>14, <1>15, <1>16, <1>17
     DEF Next, Change, ServerStep, ClientStep

\* A broadcast reaches every client in the call, and none is joining meanwhile.
LEMMA AnnouncedNext ==
    ASSUME Types, MembershipInv, Basics, DepartureFollows, LostWereServed, JoiningSeeTheRoom,
           NewcomersAreAnnounced, DepartedAreAnnounced, [Next]_vars
    PROVE  (NewcomersAreAnnounced /\ DepartedAreAnnounced)'
<1> Shapes /\ DOMAIN keys = Peers
  BY DEF Shapes, Types
<1> /\ IdleHasNoTask /\ ReadersBroadcast /\ DepartingIsOut /\ FreshIsUnheardOf
    /\ ToldTheTruth
  BY DEF MembershipInv
<1> /\ OutsideKnowNothing /\ ServedAreIn /\ EndingIsOver /\ LostHearNothing
    /\ ListIsSent /\ NotToldOfItself
  BY DEF Basics
<1>1. ASSUME NEW p \in Peers, Add(p) PROVE (NewcomersAreAnnounced /\ DepartedAreAnnounced)'
  <2>1. \A r \in Peers : Told(r)' = Told(r) /\ down'[r] = down[r]
    BY <1>1 DEF Add, Told
  <2>2. NewcomersAreAnnounced'
    <3> SUFFICES ASSUME NEW r \in members', NEW x \in members', phase'[r] = "call",
                        r \in existing'[x], x \notin known'[r]
                 PROVE  Announcing(x, r)'
      BY DEF NewcomersAreAnnounced
    <3>1. QED
      BY <1>1, <2>1 DEF Add, client, FreshIsUnheardOf, Fresh, NewcomersAreAnnounced, Announcing, PeerJoined, Shapes
  <2>3. DepartedAreAnnounced'
    <3> SUFFICES ASSUME NEW r \in members', NEW x \in Peers \ members', phase'[r] = "call",
                        x \in existing'[r] \cap known'[r]
                 PROVE  LeftComing(x, r)' \/ PeerLeft(x) \in Told(r)'
      BY DEF DepartedAreAnnounced, PeerLeft
    <3>1. QED
      BY <1>1, <2>1 DEF Add, client, FreshIsUnheardOf, Fresh, DepartedAreAnnounced, LeftComing, PeerLeft, Shapes
  <2>4. QED
    BY <2>2, <2>3
<1>2. ASSUME NEW p \in Peers, SendPeerList(p) PROVE (NewcomersAreAnnounced /\ DepartedAreAnnounced)'
  <2>1. /\ Told(p)' \subseteq Told(p) \cup {PeerList(existing[p])}
        /\ \A r \in Peers \ {p} : Told(r)' = Told(r) /\ down'[r] = down[r]
        /\ \A r \in Peers : Told(r) \subseteq Told(r)'
    BY <1>2, DeliverTold, DeliverAdds, MsgType DEF SendPeerList, Shapes
  <2>2. NewcomersAreAnnounced'
    <3> SUFFICES ASSUME NEW r \in members', NEW x \in members', phase'[r] = "call",
                        r \in existing'[x], x \notin known'[r]
                 PROVE  Announcing(x, r)'
      BY DEF NewcomersAreAnnounced
    <3>1. QED
      BY <1>2, <2>1 DEF SendPeerList, client, ReadersBroadcast, NewcomersAreAnnounced, Announcing, PeerJoined, Shapes
  <2>3. DepartedAreAnnounced'
    <3> SUFFICES ASSUME NEW r \in members', NEW x \in Peers \ members', phase'[r] = "call",
                        x \in existing'[r] \cap known'[r]
                 PROVE  LeftComing(x, r)' \/ PeerLeft(x) \in Told(r)'
      BY DEF DepartedAreAnnounced, PeerLeft
    <3>1. QED
      BY <1>2, <2>1 DEF SendPeerList, client, DepartedAreAnnounced, LeftComing, PeerLeft, Shapes
  <2>4. QED
    BY <2>2, <2>3
<1>3. ASSUME NEW p \in Peers, SendPeerListFails(p) PROVE (NewcomersAreAnnounced /\ DepartedAreAnnounced)'
  <2>1. \A r \in Peers : Told(r)' = Told(r) /\ down'[r] = down[r]
    BY <1>3 DEF SendPeerListFails, Told
  <2>2. NewcomersAreAnnounced'
    <3> SUFFICES ASSUME NEW r \in members', NEW x \in members', phase'[r] = "call",
                        r \in existing'[x], x \notin known'[r]
                 PROVE  Announcing(x, r)'
      BY DEF NewcomersAreAnnounced
    <3>1. QED
      BY <1>3, <2>1 DEF SendPeerListFails, client, LostWereServed, NewcomersAreAnnounced, Announcing, PeerJoined, Shapes
  <2>3. DepartedAreAnnounced'
    <3> SUFFICES ASSUME NEW r \in members', NEW x \in Peers \ members', phase'[r] = "call",
                        x \in existing'[r] \cap known'[r]
                 PROVE  LeftComing(x, r)' \/ PeerLeft(x) \in Told(r)'
      BY DEF DepartedAreAnnounced, PeerLeft
    <3>1. QED
      BY <1>3, <2>1 DEF SendPeerListFails, client, DepartedAreAnnounced, LeftComing, PeerLeft, Shapes
  <2>4. QED
    BY <2>2, <2>3
<1>4. ASSUME NEW p \in Peers, BeginBroadcast(p) PROVE (NewcomersAreAnnounced /\ DepartedAreAnnounced)'
  <2>1. \A r \in Peers : Told(r)' = Told(r) /\ down'[r] = down[r]
    BY <1>4 DEF BeginBroadcast, Told
  <2>2. NewcomersAreAnnounced'
    <3> SUFFICES ASSUME NEW r \in members', NEW x \in members', phase'[r] = "call",
                        r \in existing'[x], x \notin known'[r]
                 PROVE  Announcing(x, r)'
      BY DEF NewcomersAreAnnounced
    <3>1. QED
      BY <1>4, <2>1 DEF BeginBroadcast, TakeReadLocks, client, NotToldOfItself, NewcomersAreAnnounced, Announcing, PeerJoined, Shapes
  <2>3. DepartedAreAnnounced'
    <3> SUFFICES ASSUME NEW r \in members', NEW x \in Peers \ members', phase'[r] = "call",
                        x \in existing'[r] \cap known'[r]
                 PROVE  LeftComing(x, r)' \/ PeerLeft(x) \in Told(r)'
      BY DEF DepartedAreAnnounced, PeerLeft
    <3>1. QED
      BY <1>4, <2>1 DEF BeginBroadcast, TakeReadLocks, client, DepartingIsOut, DepartedAreAnnounced, LeftComing, PeerLeft, Shapes
  <2>4. QED
    BY <2>2, <2>3
<1>5. ASSUME NEW p \in Peers, RelayKeyDistribute(p) PROVE (NewcomersAreAnnounced /\ DepartedAreAnnounced)'
  <2>1. \A r \in Peers : Told(r)' = Told(r) /\ down'[r] = down[r]
    BY <1>5 DEF RelayKeyDistribute, Told
  <2>2. NewcomersAreAnnounced'
    <3> SUFFICES ASSUME NEW r \in members', NEW x \in members', phase'[r] = "call",
                        r \in existing'[x], x \notin known'[r]
                 PROVE  Announcing(x, r)'
      BY DEF NewcomersAreAnnounced
    <3>1. QED
      BY <1>5, <2>1 DEF RelayKeyDistribute, TakeReadLocks, client, NewcomersAreAnnounced, Announcing, PeerJoined, Shapes
  <2>3. DepartedAreAnnounced'
    <3> SUFFICES ASSUME NEW r \in members', NEW x \in Peers \ members', phase'[r] = "call",
                        x \in existing'[r] \cap known'[r]
                 PROVE  LeftComing(x, r)' \/ PeerLeft(x) \in Told(r)'
      BY DEF DepartedAreAnnounced, PeerLeft
    <3>1. QED
      BY <1>5, <2>1 DEF RelayKeyDistribute, TakeReadLocks, client, DepartedAreAnnounced, LeftComing, PeerLeft, Shapes
  <2>4. QED
    BY <2>2, <2>3
<1>6. ASSUME NEW p \in Peers, EndBroadcast(p) PROVE (NewcomersAreAnnounced /\ DepartedAreAnnounced)'
  <2>1. \A r \in Peers : Told(r)' = Told(r) /\ down'[r] = down[r]
    BY <1>6 DEF EndBroadcast, Told
  <2>2. NewcomersAreAnnounced'
    <3> SUFFICES ASSUME NEW r \in members', NEW x \in members', phase'[r] = "call",
                        r \in existing'[x], x \notin known'[r]
                 PROVE  Announcing(x, r)'
      BY DEF NewcomersAreAnnounced
    <3>1. QED
      BY <1>6, <2>1 DEF EndBroadcast, DropGuards, client, ReadersBroadcast, NewcomersAreAnnounced, Announcing, PeerJoined, Shapes
  <2>3. DepartedAreAnnounced'
    <3> SUFFICES ASSUME NEW r \in members', NEW x \in Peers \ members', phase'[r] = "call",
                        x \in existing'[r] \cap known'[r]
                 PROVE  LeftComing(x, r)' \/ PeerLeft(x) \in Told(r)'
      BY DEF DepartedAreAnnounced, PeerLeft
    <3>1. QED
      BY <1>6, <2>1 DEF EndBroadcast, DropGuards, client, ReadersBroadcast, DepartedAreAnnounced, LeftComing, PeerLeft, Shapes
  <2>4. QED
    BY <2>2, <2>3
<1>7. ASSUME NEW p \in Peers, NEW q \in Peers, BroadcastTo(p, q) PROVE (NewcomersAreAnnounced /\ DepartedAreAnnounced)'
  <2>1. /\ Told(q)' \subseteq Told(q) \cup {Outgoing(p)}
        /\ \A r \in Peers \ {q} : Told(r)' = Told(r) /\ down'[r] = down[r]
        /\ \A r \in Peers : Told(r) \subseteq Told(r)'
        /\ ~Lost(q) => Outgoing(p) \in Told(q)'
    BY <1>7, DeliverTold, DeliverAdds, OutgoingType DEF BroadcastTo
  <2>2. NewcomersAreAnnounced'
    <3> SUFFICES ASSUME NEW r \in members', NEW x \in members', phase'[r] = "call",
                        r \in existing'[x], x \notin known'[r]
                 PROVE  Announcing(x, r)'
      BY DEF NewcomersAreAnnounced
    <3>1. QED
      BY <1>7, <2>1 DEF BroadcastTo, DropGuards, client, Outgoing, Lost, ReadersBroadcast, NewcomersAreAnnounced, Announcing, PeerJoined, Shapes
  <2>3. DepartedAreAnnounced'
    <3> SUFFICES ASSUME NEW r \in members', NEW x \in Peers \ members', phase'[r] = "call",
                        x \in existing'[r] \cap known'[r]
                 PROVE  LeftComing(x, r)' \/ PeerLeft(x) \in Told(r)'
      BY DEF DepartedAreAnnounced, PeerLeft
    <3>1. QED
      BY <1>7, <2>1 DEF BroadcastTo, DropGuards, client, Outgoing, Lost, ReadersBroadcast, DepartedAreAnnounced, LeftComing, PeerLeft, Shapes
  <2>4. QED
    BY <2>2, <2>3
<1>8. ASSUME NEW p \in Peers, ReadFails(p) PROVE (NewcomersAreAnnounced /\ DepartedAreAnnounced)'
  <2>1. \A r \in Peers : Told(r)' = Told(r) /\ down'[r] = down[r]
    BY <1>8 DEF ReadFails, Told
  <2>2. NewcomersAreAnnounced'
    <3> SUFFICES ASSUME NEW r \in members', NEW x \in members', phase'[r] = "call",
                        r \in existing'[x], x \notin known'[r]
                 PROVE  Announcing(x, r)'
      BY DEF NewcomersAreAnnounced
    <3>1. QED
      BY <1>8, <2>1 DEF ReadFails, client, NewcomersAreAnnounced, Announcing, PeerJoined, Shapes
  <2>3. DepartedAreAnnounced'
    <3> SUFFICES ASSUME NEW r \in members', NEW x \in Peers \ members', phase'[r] = "call",
                        x \in existing'[r] \cap known'[r]
                 PROVE  LeftComing(x, r)' \/ PeerLeft(x) \in Told(r)'
      BY DEF DepartedAreAnnounced, PeerLeft
    <3>1. QED
      BY <1>8, <2>1 DEF ReadFails, client, DepartedAreAnnounced, LeftComing, PeerLeft, Shapes
  <2>4. QED
    BY <2>2, <2>3
<1>9. ASSUME NEW p \in Peers, Remove(p) PROVE (NewcomersAreAnnounced /\ DepartedAreAnnounced)'
  <2>1. \A r \in Peers : Told(r)' = Told(r) /\ down'[r] = down[r]
    BY <1>9 DEF Remove, Told
  <2>2. NewcomersAreAnnounced'
    <3> SUFFICES ASSUME NEW r \in members', NEW x \in members', phase'[r] = "call",
                        r \in existing'[x], x \notin known'[r]
                 PROVE  Announcing(x, r)'
      BY DEF NewcomersAreAnnounced
    <3>1. QED
      BY <1>9, <2>1 DEF Remove, client, NewcomersAreAnnounced, Announcing, PeerJoined, Shapes
  <2>3. DepartedAreAnnounced'
    <3> SUFFICES ASSUME NEW r \in members', NEW x \in Peers \ members', phase'[r] = "call",
                        x \in existing'[r] \cap known'[r]
                 PROVE  LeftComing(x, r)' \/ PeerLeft(x) \in Told(r)'
      BY DEF DepartedAreAnnounced, PeerLeft
    <3>1. QED
      BY <1>9, <2>1 DEF Remove, client, ReadersBroadcast, DepartedAreAnnounced, LeftComing, PeerLeft, Shapes
  <2>4. QED
    BY <2>2, <2>3
<1>10. ASSUME NEW p \in Peers, RecvPeerList(p) PROVE (NewcomersAreAnnounced /\ DepartedAreAnnounced)'
  <2>1. /\ Head(down[p]) \in Told(p) /\ down[p] # <<>>
        /\ \A r \in Peers : Told(r)' \subseteq Told(r)
        /\ \A m \in Told(p) : m = Head(down[p]) \/ m \in Told(p)'
        /\ \A r \in Peers \ {p} : down'[r] = down[r] /\ Told(r)' = Told(r)
    BY <1>10, ReadTold, ReadRest DEF RecvPeerList, NextDown
  <2>2. NewcomersAreAnnounced'
    <3> SUFFICES ASSUME NEW r \in members', NEW x \in members', phase'[r] = "call",
                        r \in existing'[x], x \notin known'[r]
                 PROVE  Announcing(x, r)'
      BY DEF NewcomersAreAnnounced
    <3>1. QED
      BY <1>10, <2>1 DEF RecvPeerList, NextDown, server, JoiningSeeTheRoom, NewcomersAreAnnounced, Announcing, PeerJoined, Shapes
  <2>3. DepartedAreAnnounced'
    <3> SUFFICES ASSUME NEW r \in members', NEW x \in Peers \ members', phase'[r] = "call",
                        x \in existing'[r] \cap known'[r]
                 PROVE  LeftComing(x, r)' \/ PeerLeft(x) \in Told(r)'
      BY DEF DepartedAreAnnounced, PeerLeft
    <3>1. QED
      BY <1>10, <2>1 DEF RecvPeerList, NextDown, server, JoiningSeeTheRoom, FreshIsUnheardOf, DepartedAreAnnounced, LeftComing, PeerLeft, Shapes
  <2>4. QED
    BY <2>2, <2>3
<1>11. ASSUME NEW p \in Peers, SkipWhileJoining(p) PROVE (NewcomersAreAnnounced /\ DepartedAreAnnounced)'
  <2>1. /\ Head(down[p]) \in Told(p) /\ down[p] # <<>>
        /\ \A r \in Peers : Told(r)' \subseteq Told(r)
        /\ \A m \in Told(p) : m = Head(down[p]) \/ m \in Told(p)'
        /\ \A r \in Peers \ {p} : down'[r] = down[r] /\ Told(r)' = Told(r)
    BY <1>11, ReadTold, ReadRest DEF SkipWhileJoining, NextDown
  <2>2. NewcomersAreAnnounced'
    <3> SUFFICES ASSUME NEW r \in members', NEW x \in members', phase'[r] = "call",
                        r \in existing'[x], x \notin known'[r]
                 PROVE  Announcing(x, r)'
      BY DEF NewcomersAreAnnounced
    <3>1. QED
      BY <1>11, <2>1 DEF SkipWhileJoining, NextDown, server, client, NewcomersAreAnnounced, Announcing, PeerJoined, Shapes
  <2>3. DepartedAreAnnounced'
    <3> SUFFICES ASSUME NEW r \in members', NEW x \in Peers \ members', phase'[r] = "call",
                        x \in existing'[r] \cap known'[r]
                 PROVE  LeftComing(x, r)' \/ PeerLeft(x) \in Told(r)'
      BY DEF DepartedAreAnnounced, PeerLeft
    <3>1. QED
      BY <1>11, <2>1 DEF SkipWhileJoining, NextDown, server, client, DepartedAreAnnounced, LeftComing, PeerLeft, Shapes
  <2>4. QED
    BY <2>2, <2>3
<1>12. ASSUME NEW p \in Peers, OnPeerJoined(p) PROVE (NewcomersAreAnnounced /\ DepartedAreAnnounced)'
  <2>1. /\ Head(down[p]) \in Told(p) /\ down[p] # <<>>
        /\ \A r \in Peers : Told(r)' \subseteq Told(r)
        /\ \A m \in Told(p) : m = Head(down[p]) \/ m \in Told(p)'
        /\ \A r \in Peers \ {p} : down'[r] = down[r] /\ Told(r)' = Told(r)
    BY <1>12, ReadTold, ReadRest DEF OnPeerJoined, NextDown
  <2>2. NewcomersAreAnnounced'
    <3> SUFFICES ASSUME NEW r \in members', NEW x \in members', phase'[r] = "call",
                        r \in existing'[x], x \notin known'[r]
                 PROVE  Announcing(x, r)'
      BY DEF NewcomersAreAnnounced
    <3>1. QED
      BY <1>12, <2>1 DEF OnPeerJoined, NextDown, server, NewcomersAreAnnounced, Announcing, PeerJoined, Shapes
  <2>3. DepartedAreAnnounced'
    <3> SUFFICES ASSUME NEW r \in members', NEW x \in Peers \ members', phase'[r] = "call",
                        x \in existing'[r] \cap known'[r]
                 PROVE  LeftComing(x, r)' \/ PeerLeft(x) \in Told(r)'
      BY DEF DepartedAreAnnounced, PeerLeft
    <3>1. r \in members /\ x \in Peers \ members /\ existing'[r] = existing[r] /\ phase[r] = "call"
      BY <1>12 DEF OnPeerJoined, server
    <3>2. CASE r = p /\ x \notin known[r]
      <4>1. Head(down[p]).peer = x /\ Head(down[p]).type = "PeerJoined"
        BY <1>12, <3>2 DEF OnPeerJoined, Shapes
      <4>2. Head(down[p]) = PeerJoined(x)
        BY <2>1, <4>1, ToldMsg, JoinedIs
      <4>3. Followed(p, x) /\ NextDown(p)
        BY <1>12, <3>1, <3>2 DEF OnPeerJoined, DepartureFollows
      <4>4. LeftComing(x, p) \/ \E j \in 1 + 1 .. Len(down[p]) : down[p][j] = PeerLeft(x)
        BY <4>2, <4>3, ReadShifts DEF Followed
      <4>5. LeftComing(x, p) \/ PeerLeft(x) \in Told(p)
        BY <4>3, <4>4, ReadShifts DEF Told
      <4>6. QED
        BY <1>12, <2>1, <3>2, <4>2, <4>5 DEF OnPeerJoined, server, LeftComing, PeerLeft, PeerJoined
    <3>3. CASE r # p \/ x \in known[r]
      BY <1>12, <2>1, <3>1, <3>3 DEF OnPeerJoined, NextDown, server, DepartedAreAnnounced, LeftComing, PeerLeft, Shapes
    <3>4. QED
      BY <3>2, <3>3
  <2>4. QED
    BY <2>2, <2>3
<1>13. ASSUME NEW p \in Peers, OnPeerLeft(p) PROVE (NewcomersAreAnnounced /\ DepartedAreAnnounced)'
  <2>1. /\ Head(down[p]) \in Told(p) /\ down[p] # <<>>
        /\ \A r \in Peers : Told(r)' \subseteq Told(r)
        /\ \A m \in Told(p) : m = Head(down[p]) \/ m \in Told(p)'
        /\ \A r \in Peers \ {p} : down'[r] = down[r] /\ Told(r)' = Told(r)
    BY <1>13, ReadTold, ReadRest DEF OnPeerLeft, NextDown
  <2>2. NewcomersAreAnnounced'
    <3> SUFFICES ASSUME NEW r \in members', NEW x \in members', phase'[r] = "call",
                        r \in existing'[x], x \notin known'[r]
                 PROVE  Announcing(x, r)'
      BY DEF NewcomersAreAnnounced
    <3>1. QED
      BY <1>13, <2>1 DEF OnPeerLeft, NextDown, server, ToldTheTruth, NewcomersAreAnnounced, Announcing, PeerJoined, Shapes
  <2>3. DepartedAreAnnounced'
    <3> SUFFICES ASSUME NEW r \in members', NEW x \in Peers \ members', phase'[r] = "call",
                        x \in existing'[r] \cap known'[r]
                 PROVE  LeftComing(x, r)' \/ PeerLeft(x) \in Told(r)'
      BY DEF DepartedAreAnnounced, PeerLeft
    <3>1. QED
      BY <1>13, <2>1 DEF OnPeerLeft, NextDown, server, DepartedAreAnnounced, LeftComing, PeerLeft, Shapes
  <2>4. QED
    BY <2>2, <2>3
<1>14. ASSUME NEW p \in Peers, OnKeyDistribute(p) PROVE (NewcomersAreAnnounced /\ DepartedAreAnnounced)'
  <2>1. /\ Head(down[p]) \in Told(p) /\ down[p] # <<>>
        /\ \A r \in Peers : Told(r)' \subseteq Told(r)
        /\ \A m \in Told(p) : m = Head(down[p]) \/ m \in Told(p)'
        /\ \A r \in Peers \ {p} : down'[r] = down[r] /\ Told(r)' = Told(r)
    BY <1>14, ReadTold, ReadRest DEF OnKeyDistribute, NextDown
  <2>2. NewcomersAreAnnounced'
    <3> SUFFICES ASSUME NEW r \in members', NEW x \in members', phase'[r] = "call",
                        r \in existing'[x], x \notin known'[r]
                 PROVE  Announcing(x, r)'
      BY DEF NewcomersAreAnnounced
    <3>1. QED
      BY <1>14, <2>1 DEF OnKeyDistribute, NextDown, server, NewcomersAreAnnounced, Announcing, PeerJoined, Shapes
  <2>3. DepartedAreAnnounced'
    <3> SUFFICES ASSUME NEW r \in members', NEW x \in Peers \ members', phase'[r] = "call",
                        x \in existing'[r] \cap known'[r]
                 PROVE  LeftComing(x, r)' \/ PeerLeft(x) \in Told(r)'
      BY DEF DepartedAreAnnounced, PeerLeft
    <3>1. QED
      BY <1>14, <2>1 DEF OnKeyDistribute, NextDown, server, DepartedAreAnnounced, LeftComing, PeerLeft, Shapes
  <2>4. QED
    BY <2>2, <2>3
<1>15. ASSUME NEW p \in Peers, Connect(p) PROVE (NewcomersAreAnnounced /\ DepartedAreAnnounced)'
  <2>1. \A r \in Peers : Told(r)' = Told(r) /\ down'[r] = down[r]
    BY <1>15 DEF Connect, Told
  <2>2. NewcomersAreAnnounced'
    <3> SUFFICES ASSUME NEW r \in members', NEW x \in members', phase'[r] = "call",
                        r \in existing'[x], x \notin known'[r]
                 PROVE  Announcing(x, r)'
      BY DEF NewcomersAreAnnounced
    <3>1. QED
      BY <1>15, <2>1 DEF Connect, IdleHasNoTask, FreshIsUnheardOf, Fresh, ReadersBroadcast, NewcomersAreAnnounced, Announcing, PeerJoined, Shapes
  <2>3. DepartedAreAnnounced'
    <3> SUFFICES ASSUME NEW r \in members', NEW x \in Peers \ members', phase'[r] = "call",
                        x \in existing'[r] \cap known'[r]
                 PROVE  LeftComing(x, r)' \/ PeerLeft(x) \in Told(r)'
      BY DEF DepartedAreAnnounced, PeerLeft
    <3>1. QED
      BY <1>15, <2>1 DEF Connect, IdleHasNoTask, ReadersBroadcast, DepartedAreAnnounced, LeftComing, PeerLeft, Shapes
  <2>4. QED
    BY <2>2, <2>3
<1>16. ASSUME NEW p \in Peers, HangUp(p) PROVE (NewcomersAreAnnounced /\ DepartedAreAnnounced)'
  <2>1. /\ \A r \in Peers : Told(r)' \subseteq Told(r)
        /\ \A r \in Peers \ {p} : down'[r] = down[r] /\ Told(r)' = Told(r)
    BY <1>16 DEF HangUp, Told, Shapes
  <2>2. NewcomersAreAnnounced'
    <3> SUFFICES ASSUME NEW r \in members', NEW x \in members', phase'[r] = "call",
                        r \in existing'[x], x \notin known'[r]
                 PROVE  Announcing(x, r)'
      BY DEF NewcomersAreAnnounced
    <3>1. QED
      BY <1>16, <2>1 DEF HangUp, server, NewcomersAreAnnounced, Announcing, PeerJoined, Shapes
  <2>3. DepartedAreAnnounced'
    <3> SUFFICES ASSUME NEW r \in members', NEW x \in Peers \ members', phase'[r] = "call",
                        x \in existing'[r] \cap known'[r]
                 PROVE  LeftComing(x, r)' \/ PeerLeft(x) \in Told(r)'
      BY DEF DepartedAreAnnounced, PeerLeft
    <3>1. QED
      BY <1>16, <2>1 DEF HangUp, server, DepartedAreAnnounced, LeftComing, PeerLeft, Shapes
  <2>4. QED
    BY <2>2, <2>3
<1>17. CASE UNCHANGED vars
  BY <1>17 DEF vars, server, client, Told, NewcomersAreAnnounced, DepartedAreAnnounced, Announcing, LeftComing, PeerJoined, PeerLeft, Shapes
<1>18. QED
  BY <1>1, <1>2, <1>3, <1>4, <1>5, <1>6, <1>7, <1>8, <1>9, <1>10, <1>11, <1>12, <1>13, <1>14, <1>15, <1>16, <1>17
     DEF Next, Change, ServerStep, ClientStep

\* As long as changes come one at a time they come when all is quiet.
LEMMA ChangesWhenQuiet ==
    ASSUME NEW p \in Peers, Change(p), ~overlapped'
    PROVE  Quiet
BY Zenon DEF Change

\* A change begins in the quiet, and nobody else is half way then.
LEMMA AloneNext ==
    ASSUME Types, MembershipInv, Basics, Alone, ~overlapped', [Next]_vars
    PROVE  Alone'
<1> Shapes /\ DOMAIN keys = Peers
  BY DEF Shapes, Types
<1> /\ IdleHasNoTask /\ ReadersBroadcast /\ DepartingIsOut /\ FreshIsUnheardOf
    /\ ToldTheTruth
  BY DEF MembershipInv
<1> /\ OutsideKnowNothing /\ ServedAreIn /\ EndingIsOver /\ LostHearNothing
    /\ ListIsSent /\ NotToldOfItself
  BY DEF Basics
<1>1. ASSUME NEW p \in Peers, Add(p) PROVE Alone'
  BY <1>1 DEF Add, client, FreshIsUnheardOf, Alone, AloneWhileJoining, LostWereServed, JoiningSeeTheRoom, Lost, Fresh, Shapes
<1>2. ASSUME NEW p \in Peers, SendPeerList(p) PROVE Alone'
  BY <1>2 DEF SendPeerList, client, Alone, AloneWhileJoining, LostWereServed, JoiningSeeTheRoom, Lost, Fresh, Shapes
<1>3. ASSUME NEW p \in Peers, SendPeerListFails(p) PROVE Alone'
  BY <1>3 DEF SendPeerListFails, client, Alone, AloneWhileJoining, LostWereServed, JoiningSeeTheRoom, Lost, Fresh, Shapes
<1>4. ASSUME NEW p \in Peers, BeginBroadcast(p) PROVE Alone'
  BY <1>4 DEF BeginBroadcast, TakeReadLocks, client, Alone, AloneWhileJoining, LostWereServed, JoiningSeeTheRoom, Lost, Fresh, Shapes
<1>5. ASSUME NEW p \in Peers, RelayKeyDistribute(p) PROVE Alone'
  BY <1>5 DEF RelayKeyDistribute, TakeReadLocks, client, Alone, AloneWhileJoining, LostWereServed, JoiningSeeTheRoom, Lost, Fresh, Shapes
<1>6. ASSUME NEW p \in Peers, EndBroadcast(p) PROVE Alone'
  BY <1>6 DEF EndBroadcast, DropGuards, client, ReadersBroadcast, DepartingIsOut, Alone, AloneWhileJoining, LostWereServed, JoiningSeeTheRoom, Lost, Fresh, Shapes
<1>7. ASSUME NEW p \in Peers, NEW q \in Peers, BroadcastTo(p, q) PROVE Alone'
  BY <1>7 DEF BroadcastTo, DropGuards, client, ReadersBroadcast, DepartingIsOut, Alone, AloneWhileJoining, LostWereServed, JoiningSeeTheRoom, Lost, Fresh, Shapes
<1>8. ASSUME NEW p \in Peers, ReadFails(p) PROVE Alone'
  BY <1>8 DEF ReadFails, client, Alone, AloneWhileJoining, LostWereServed, JoiningSeeTheRoom, Lost, Fresh, Shapes
<1>9. ASSUME NEW p \in Peers, Remove(p) PROVE Alone'
  BY <1>9 DEF Remove, client, EndingIsOver, Alone, AloneWhileJoining, LostWereServed, JoiningSeeTheRoom, Lost, Fresh, Shapes
<1>10. ASSUME NEW p \in Peers, RecvPeerList(p) PROVE Alone'
  BY <1>10 DEF RecvPeerList, NextDown, server, Alone, AloneWhileJoining, LostWereServed, JoiningSeeTheRoom, Lost, Fresh, Shapes
<1>11. ASSUME NEW p \in Peers, SkipWhileJoining(p) PROVE Alone'
  BY <1>11 DEF SkipWhileJoining, NextDown, server, client, Alone, AloneWhileJoining, LostWereServed, JoiningSeeTheRoom, Lost, Fresh, Shapes
<1>12. ASSUME NEW p \in Peers, OnPeerJoined(p) PROVE Alone'
  BY <1>12 DEF OnPeerJoined, NextDown, server, Alone, AloneWhileJoining, LostWereServed, JoiningSeeTheRoom, Lost, Fresh, Shapes
<1>13. ASSUME NEW p \in Peers, OnPeerLeft(p) PROVE Alone'
  BY <1>13 DEF OnPeerLeft, NextDown, server, Alone, AloneWhileJoining, LostWereServed, JoiningSeeTheRoom, Lost, Fresh, Shapes
<1>14. ASSUME NEW p \in Peers, OnKeyDistribute(p) PROVE Alone'
  BY <1>14 DEF OnKeyDistribute, NextDown, server, Alone, AloneWhileJoining, LostWereServed, JoiningSeeTheRoom, Lost, Fresh, Shapes
<1>15. ASSUME NEW p \in Peers, Connect(p), Quiet PROVE Alone'
  BY <1>15 DEF Connect, IdleHasNoTask, FreshIsUnheardOf, Quiet, Alone, AloneWhileJoining, LostWereServed, JoiningSeeTheRoom, Lost, Fresh, Shapes
<1>16. ASSUME NEW p \in Peers, HangUp(p), Quiet PROVE Alone'
  BY <1>16 DEF HangUp, server, Quiet, IdleHasNoTask, ServedAreIn, Alone, AloneWhileJoining, LostWereServed, JoiningSeeTheRoom, Lost, Fresh, Shapes
<1>17. CASE UNCHANGED vars
  BY <1>17 DEF vars, server, client, Alone, AloneWhileJoining, LostWereServed, JoiningSeeTheRoom, Lost, Fresh
<1>18. \A p \in Peers : Change(p) => Quiet
  BY ChangesWhenQuiet
<1>19. QED
  BY <1>1, <1>2, <1>3, <1>4, <1>5, <1>6, <1>7, <1>8, <1>9, <1>10, <1>11, <1>12, <1>13, <1>14, <1>15, <1>16, <1>17, <1>18
     DEF Next, Change, ServerStep, ClientStep

\* A key is relayed after its sender was announced, on the same stream.
LEMMA KeysFollowNext ==
    ASSUME Types, MembershipInv, Basics, UnheardIsUnknown, JoiningSeeTheRoom,
           NewcomersAreAnnounced, KeysFollow, [Next]_vars
    PROVE  KeysFollow'
<1> Shapes /\ DOMAIN keys = Peers
  BY DEF Shapes, Types
<1> /\ IdleHasNoTask /\ ReadersBroadcast /\ DepartingIsOut /\ FreshIsUnheardOf
    /\ ToldTheTruth
  BY DEF MembershipInv
<1> /\ OutsideKnowNothing /\ ServedAreIn /\ EndingIsOver /\ LostHearNothing
    /\ ListIsSent /\ NotToldOfItself
  BY DEF Basics
<1>1. ASSUME NEW p \in Peers, Add(p) PROVE KeysFollow'
  <2>1. \A r \in Peers : Told(r)' = Told(r) /\ down'[r] = down[r]
    BY <1>1 DEF Add, Told
  <2> SUFFICES ASSUME NEW r \in members', NEW x \in members', phase'[r] = "call",
                      r \in existing'[x]
               PROVE  KeyFollows(r, x)'
    BY DEF KeysFollow
  <2>2. CASE x = p
    <3>1. x \notin keys'[r] /\ \A m \in Told(r)' : m.type = "KeyDistribute" => m.sender # x
      BY <1>1, <2>1, <2>2 DEF Add, client, UnheardIsUnknown, Unheard, Shapes
    <3>2. QED
      BY <3>1 DEF KeyFollows, Told
  <2>3. CASE x # p
    <3>1. r # p
      BY <1>1, <2>3 DEF Add, client, FreshIsUnheardOf, Fresh, Shapes
    <3>2. r \in members /\ x \in members /\ phase[r] = "call" /\ r \in existing[x]
      BY <1>1, <2>3, <3>1 DEF Add, client, Shapes
    <3>3. QED
      BY <1>1, <2>1, <3>2 DEF Add, client, KeysFollow, KeyFollows, PeerJoined, Shapes
  <2>4. QED
    BY <2>2, <2>3
<1>2. ASSUME NEW p \in Peers, SendPeerList(p) PROVE KeysFollow'
  <2>1. /\ Told(p)' \subseteq Told(p) \cup {PeerList(existing[p])}
        /\ \A r \in Peers \ {p} : Told(r)' = Told(r) /\ down'[r] = down[r]
        /\ \A r \in Peers : Told(r) \subseteq Told(r)'
    BY <1>2, DeliverTold, DeliverAdds, MsgType DEF SendPeerList, Shapes
  <2> SUFFICES ASSUME NEW r \in members', NEW x \in members', phase'[r] = "call",
                      r \in existing'[x]
               PROVE  KeyFollows(r, x)'
    BY DEF KeysFollow
  <2>2. r \in members /\ x \in members /\ phase[r] = "call" /\ r \in existing[x] /\ KeyFollows(r, x)
    BY <1>2 DEF SendPeerList, client, KeysFollow
  <2>3. known'[r] = known[r] /\ keys'[r] = keys[r]
    BY <1>2 DEF SendPeerList, client
  <2>4. CASE r # p
    BY <2>1, <2>2, <2>3, <2>4 DEF KeyFollows, PeerJoined, Shapes
  <2>5. CASE r = p
    <3>1. PeerList(existing[p]) \in Msg /\ Deliver(p, PeerList(existing[p])) /\ ~Lost(p)
      BY <1>2, <2>2, <2>5, MsgType DEF SendPeerList, Lost, Shapes
    <3>2. /\ Len(down[p]) \in Nat /\ Len(down'[p]) = Len(down[p]) + 1
          /\ \A i \in 1 .. Len(down[p]) : down'[p][i] = down[p][i]
          /\ down'[p][Len(down[p]) + 1] = PeerList(existing[p])
      BY <3>1, DeliverShifts
    <3> SUFFICES ASSUME NEW i \in 1 .. Len(down'[p]), down'[p][i].type = "KeyDistribute",
                        down'[p][i].sender = x, x \notin known[p]
                 PROVE  \E j \in 1 .. i - 1 : down'[p][j] = PeerJoined(x)
      BY <2>2, <2>3, <2>5 DEF KeyFollows, PeerJoined
    <3>3. CASE i \in 1 .. Len(down[p])
      <4>1. PICK j \in 1 .. i - 1 : down[p][j] = PeerJoined(x)
        BY <2>2, <2>5, <3>2, <3>3 DEF KeyFollows
      <4>2. j \in 1 .. Len(down[p])
        BY <3>2, <3>3, <4>1
      <4>3. QED
        BY <3>2, <4>1, <4>2
    <3>4. CASE i = Len(down[p]) + 1
      BY <3>2, <3>4 DEF PeerList
    <3>5. QED
      BY <3>2, <3>3, <3>4
  <2>6. QED
    BY <2>4, <2>5
<1>3. ASSUME NEW p \in Peers, SendPeerListFails(p) PROVE KeysFollow'
  <2>1. \A r \in Peers : Told(r)' = Told(r) /\ down'[r] = down[r]
    BY <1>3 DEF SendPeerListFails, Told
  <2> SUFFICES ASSUME NEW r \in members', NEW x \in members', phase'[r] = "call",
                      r \in existing'[x]
               PROVE  KeyFollows(r, x)'
    BY DEF KeysFollow
  <2>2. r \in members /\ x \in members /\ phase[r] = "call" /\ r \in existing[x]
    BY <1>3 DEF SendPeerListFails, client, Shapes
  <2>3. known'[r] = known[r] /\ keys'[r] = keys[r]
    BY <1>3 DEF SendPeerListFails, client
  <2>4. QED
    BY <2>1, <2>2, <2>3 DEF KeysFollow, KeyFollows, PeerJoined, Shapes
<1>4. ASSUME NEW p \in Peers, BeginBroadcast(p) PROVE KeysFollow'
  <2>1. \A r \in Peers : Told(r)' = Told(r) /\ down'[r] = down[r]
    BY <1>4 DEF BeginBroadcast, Told
  <2> SUFFICES ASSUME NEW r \in members', NEW x \in members', phase'[r] = "call",
                      r \in existing'[x]
               PROVE  KeyFollows(r, x)'
    BY DEF KeysFollow
  <2>2. r \in members /\ x \in members /\ phase[r] = "call" /\ r \in existing[x]
    BY <1>4 DEF BeginBroadcast, TakeReadLocks, client, Shapes
  <2>3. known'[r] = known[r] /\ keys'[r] = keys[r]
    BY <1>4 DEF BeginBroadcast, TakeReadLocks, client
  <2>4. QED
    BY <2>1, <2>2, <2>3 DEF KeysFollow, KeyFollows, PeerJoined, Shapes
<1>5. ASSUME NEW p \in Peers, RelayKeyDistribute(p) PROVE KeysFollow'
  <2>1. \A r \in Peers : Told(r)' = Told(r) /\ down'[r] = down[r]
    BY <1>5 DEF RelayKeyDistribute, Told
  <2> SUFFICES ASSUME NEW r \in members', NEW x \in members', phase'[r] = "call",
                      r \in existing'[x]
               PROVE  KeyFollows(r, x)'
    BY DEF KeysFollow
  <2>2. r \in members /\ x \in members /\ phase[r] = "call" /\ r \in existing[x]
    BY <1>5 DEF RelayKeyDistribute, TakeReadLocks, client, Shapes
  <2>3. known'[r] = known[r] /\ keys'[r] = keys[r]
    BY <1>5 DEF RelayKeyDistribute, TakeReadLocks, client
  <2>4. QED
    BY <2>1, <2>2, <2>3 DEF KeysFollow, KeyFollows, PeerJoined, Shapes
<1>6. ASSUME NEW p \in Peers, EndBroadcast(p) PROVE KeysFollow'
  <2>1. \A r \in Peers : Told(r)' = Told(r) /\ down'[r] = down[r]
    BY <1>6 DEF EndBroadcast, Told
  <2> SUFFICES ASSUME NEW r \in members', NEW x \in members', phase'[r] = "call",
                      r \in existing'[x]
               PROVE  KeyFollows(r, x)'
    BY DEF KeysFollow
  <2>2. r \in members /\ x \in members /\ phase[r] = "call" /\ r \in existing[x]
    BY <1>6 DEF EndBroadcast, DropGuards, client, Shapes
  <2>3. known'[r] = known[r] /\ keys'[r] = keys[r]
    BY <1>6 DEF EndBroadcast, DropGuards, client
  <2>4. QED
    BY <2>1, <2>2, <2>3 DEF KeysFollow, KeyFollows, PeerJoined, Shapes
<1>7. ASSUME NEW p \in Peers, NEW q \in Peers, BroadcastTo(p, q) PROVE KeysFollow'
  <2>1. /\ Told(q)' \subseteq Told(q) \cup {Outgoing(p)}
        /\ \A r \in Peers \ {q} : Told(r)' = Told(r) /\ down'[r] = down[r]
        /\ \A r \in Peers : Told(r) \subseteq Told(r)'
        /\ ~Lost(q) => Outgoing(p) \in Told(q)'
    BY <1>7, DeliverTold, DeliverAdds, OutgoingType DEF BroadcastTo
  <2> SUFFICES ASSUME NEW r \in members', NEW x \in members', phase'[r] = "call",
                      r \in existing'[x]
               PROVE  KeyFollows(r, x)'
    BY DEF KeysFollow
  <2>2. r \in members /\ x \in members /\ phase[r] = "call" /\ r \in existing[x] /\ KeyFollows(r, x)
    BY <1>7 DEF BroadcastTo, client, KeysFollow
  <2>3. known'[r] = known[r] /\ keys'[r] = keys[r]
    BY <1>7 DEF BroadcastTo, client
  <2>4. CASE r # q
    BY <2>1, <2>2, <2>3, <2>4 DEF KeyFollows, PeerJoined, Shapes
  <2>5. CASE r = q
    <3>1. Outgoing(p) \in Msg /\ Deliver(q, Outgoing(p)) /\ ~Lost(q)
      BY <1>7, <2>2, <2>5, OutgoingType DEF BroadcastTo, Lost, Shapes
    <3>2. /\ Len(down[q]) \in Nat /\ Len(down'[q]) = Len(down[q]) + 1
          /\ \A i \in 1 .. Len(down[q]) : down'[q][i] = down[q][i]
          /\ down'[q][Len(down[q]) + 1] = Outgoing(p)
      BY <3>1, DeliverShifts
    <3> SUFFICES ASSUME NEW i \in 1 .. Len(down'[q]), down'[q][i].type = "KeyDistribute",
                        down'[q][i].sender = x, x \notin known[q]
                 PROVE  \E j \in 1 .. i - 1 : down'[q][j] = PeerJoined(x)
      BY <2>2, <2>3, <2>5 DEF KeyFollows, PeerJoined
    <3>3. CASE i \in 1 .. Len(down[q])
      <4>1. PICK j \in 1 .. i - 1 : down[q][j] = PeerJoined(x)
        BY <2>2, <2>5, <3>2, <3>3 DEF KeyFollows
      <4>2. j \in 1 .. Len(down[q])
        BY <3>2, <3>3, <4>1
      <4>3. QED
        BY <3>2, <4>1, <4>2
    <3>4. CASE i = Len(down[q]) + 1
      <4>1. x = p /\ task[p] = "relay"
        BY <1>7, <3>2, <3>4 DEF BroadcastTo, Outgoing, PeerJoined, PeerLeft, KeyDistribute,
           ReadersBroadcast
      <4>2. PeerJoined(x) \in Told(q)
        BY <2>2, <2>5, <4>1 DEF NewcomersAreAnnounced, Announcing
      <4>3. PICK j \in 1 .. Len(down[q]) : down[q][j] = PeerJoined(x)
        BY <4>2 DEF Told
      <4>4. QED
        BY <3>2, <3>4, <4>3
    <3>5. QED
      BY <3>2, <3>3, <3>4
  <2>6. QED
    BY <2>4, <2>5
<1>8. ASSUME NEW p \in Peers, ReadFails(p) PROVE KeysFollow'
  <2>1. \A r \in Peers : Told(r)' = Told(r) /\ down'[r] = down[r]
    BY <1>8 DEF ReadFails, Told
  <2> SUFFICES ASSUME NEW r \in members', NEW x \in members', phase'[r] = "call",
                      r \in existing'[x]
               PROVE  KeyFollows(r, x)'
    BY DEF KeysFollow
  <2>2. r \in members /\ x \in members /\ phase[r] = "call" /\ r \in existing[x]
    BY <1>8 DEF ReadFails, client, Shapes
  <2>3. known'[r] = known[r] /\ keys'[r] = keys[r]
    BY <1>8 DEF ReadFails, client
  <2>4. QED
    BY <2>1, <2>2, <2>3 DEF KeysFollow, KeyFollows, PeerJoined, Shapes
<1>9. ASSUME NEW p \in Peers, Remove(p) PROVE KeysFollow'
  <2>1. \A r \in Peers : Told(r)' = Told(r) /\ down'[r] = down[r]
    BY <1>9 DEF Remove, Told
  <2> SUFFICES ASSUME NEW r \in members', NEW x \in members', phase'[r] = "call",
                      r \in existing'[x]
               PROVE  KeyFollows(r, x)'
    BY DEF KeysFollow
  <2>2. r \in members /\ x \in members /\ phase[r] = "call" /\ r \in existing[x]
    BY <1>9 DEF Remove, client, Shapes
  <2>3. known'[r] = known[r] /\ keys'[r] = keys[r]
    BY <1>9 DEF Remove, client
  <2>4. QED
    BY <2>1, <2>2, <2>3 DEF KeysFollow, KeyFollows, PeerJoined, Shapes
<1>10. ASSUME NEW p \in Peers, RecvPeerList(p) PROVE KeysFollow'
  <2>1. /\ Head(down[p]) \in Told(p) /\ down[p] # <<>>
        /\ \A r \in Peers : Told(r)' \subseteq Told(r)
        /\ \A m \in Told(p) : m = Head(down[p]) \/ m \in Told(p)'
        /\ \A r \in Peers \ {p} : down'[r] = down[r] /\ Told(r)' = Told(r)
    BY <1>10, ReadTold, ReadRest DEF RecvPeerList, NextDown
  <2> SUFFICES ASSUME NEW r \in members', NEW x \in members', phase'[r] = "call",
                      r \in existing'[x]
               PROVE  KeyFollows(r, x)'
    BY DEF KeysFollow
  <2>2. phase[r] # "call" => r = p
    BY <1>10 DEF RecvPeerList, NextDown, server, Shapes
  <2>3. r \in members /\ x \in members /\ r \in existing[x]
    BY <1>10 DEF RecvPeerList, NextDown, server
  <2>4. r # p /\ phase[r] = "call"
    BY <1>10, <2>2, <2>3 DEF RecvPeerList, JoiningSeeTheRoom, Shapes
  <2>5. QED
    BY <1>10, <2>1, <2>3, <2>4 DEF RecvPeerList, NextDown, server, KeysFollow, KeyFollows, PeerJoined, Shapes
<1>11. ASSUME NEW p \in Peers, SkipWhileJoining(p) PROVE KeysFollow'
  <2>1. /\ Head(down[p]) \in Told(p) /\ down[p] # <<>>
        /\ \A r \in Peers : Told(r)' \subseteq Told(r)
        /\ \A m \in Told(p) : m = Head(down[p]) \/ m \in Told(p)'
        /\ \A r \in Peers \ {p} : down'[r] = down[r] /\ Told(r)' = Told(r)
    BY <1>11, ReadTold, ReadRest DEF SkipWhileJoining, NextDown
  <2> SUFFICES ASSUME NEW r \in members', NEW x \in members', phase'[r] = "call",
                      r \in existing'[x]
               PROVE  KeyFollows(r, x)'
    BY DEF KeysFollow
  <2>2. phase[r] = "call"
    BY <1>11 DEF SkipWhileJoining, NextDown, server, client, Shapes
  <2>3. r \in members /\ x \in members /\ r \in existing[x]
    BY <1>11 DEF SkipWhileJoining, NextDown, server, client
  <2>4. r # p /\ phase[r] = "call"
    BY <1>11, <2>2, <2>3 DEF SkipWhileJoining, JoiningSeeTheRoom, Shapes
  <2>5. QED
    BY <1>11, <2>1, <2>3, <2>4 DEF SkipWhileJoining, NextDown, server, client, KeysFollow, KeyFollows, PeerJoined, Shapes
<1>12. ASSUME NEW p \in Peers, OnPeerJoined(p) PROVE KeysFollow'
  <2>1. /\ Head(down[p]) \in Told(p) /\ down[p] # <<>>
        /\ \A r \in Peers : Told(r)' \subseteq Told(r)
        /\ \A m \in Told(p) : m = Head(down[p]) \/ m \in Told(p)'
        /\ \A r \in Peers \ {p} : down'[r] = down[r] /\ Told(r)' = Told(r)
    BY <1>12, ReadTold, ReadRest DEF OnPeerJoined, NextDown
  <2> SUFFICES ASSUME NEW r \in members', NEW x \in members', phase'[r] = "call",
                      r \in existing'[x]
               PROVE  KeyFollows(r, x)'
    BY DEF KeysFollow
  <2>2. phase[r] = "call"
    BY <1>12 DEF OnPeerJoined, NextDown, server, Shapes
  <2>3. r \in members /\ x \in members /\ r \in existing[x]
    BY <1>12 DEF OnPeerJoined, NextDown, server
  <2>4. KeyFollows(r, x)
    BY <2>2, <2>3 DEF KeysFollow
  <2>5. CASE r # p
    BY <1>12, <2>1, <2>4, <2>5 DEF OnPeerJoined, NextDown, server, KeyFollows, PeerJoined, Shapes
  <2>6. CASE r = p
    <3>1. /\ Len(down[p]) \in Nat \ {0} /\ Len(down'[p]) = Len(down[p]) - 1
          /\ Head(down[p]) = down[p][1]
          /\ \A i \in 1 .. Len(down'[p]) :
                i + 1 \in 1 .. Len(down[p]) /\ down'[p][i] = down[p][i + 1]
      BY <1>12, ReadShifts DEF OnPeerJoined
    <3>2. x \in known[p] => x \in known'[p]
      BY <1>12 DEF OnPeerJoined, Shapes
    <3>3. Head(down[p]) = PeerJoined(x) => x \in known'[p]
      BY <1>12 DEF OnPeerJoined, PeerJoined, Shapes
    <3>4. x \in keys'[p] => x \in known'[p]
      BY <1>12, <2>4, <2>6, <3>2 DEF OnPeerJoined, KeyFollows
    <3> SUFFICES ASSUME NEW i \in 1 .. Len(down'[p]), down'[p][i].type = "KeyDistribute",
                        down'[p][i].sender = x, x \notin known'[p]
                 PROVE  \E j \in 1 .. i - 1 : down'[p][j] = PeerJoined(x)
      BY <2>6, <3>4 DEF KeyFollows, PeerJoined
    <3>5. PICK j \in 1 .. (i + 1) - 1 : down[p][j] = PeerJoined(x)
      BY <2>4, <2>6, <3>1, <3>2 DEF KeyFollows
    <3>6. j # 1
      BY <3>1, <3>3, <3>5
    <3>7. j - 1 \in 1 .. i - 1 /\ j - 1 \in 1 .. Len(down'[p])
      BY <3>1, <3>5, <3>6
    <3>8. down'[p][j - 1] = down[p][j]
      BY <3>1, <3>5, <3>7
    <3>9. QED
      BY <3>5, <3>7, <3>8
  <2>7. QED
    BY <2>5, <2>6
<1>13. ASSUME NEW p \in Peers, OnPeerLeft(p) PROVE KeysFollow'
  <2>1. /\ Head(down[p]) \in Told(p) /\ down[p] # <<>>
        /\ \A r \in Peers : Told(r)' \subseteq Told(r)
        /\ \A m \in Told(p) : m = Head(down[p]) \/ m \in Told(p)'
        /\ \A r \in Peers \ {p} : down'[r] = down[r] /\ Told(r)' = Told(r)
    BY <1>13, ReadTold, ReadRest DEF OnPeerLeft, NextDown
  <2> SUFFICES ASSUME NEW r \in members', NEW x \in members', phase'[r] = "call",
                      r \in existing'[x]
               PROVE  KeyFollows(r, x)'
    BY DEF KeysFollow
  <2>2. phase[r] = "call"
    BY <1>13 DEF OnPeerLeft, NextDown, server, Shapes
  <2>3. r \in members /\ x \in members /\ r \in existing[x]
    BY <1>13 DEF OnPeerLeft, NextDown, server
  <2>4. KeyFollows(r, x)
    BY <2>2, <2>3 DEF KeysFollow
  <2>5. CASE r # p
    BY <1>13, <2>1, <2>4, <2>5 DEF OnPeerLeft, NextDown, server, KeyFollows, PeerJoined, Shapes
  <2>6. CASE r = p
    <3>1. /\ Len(down[p]) \in Nat \ {0} /\ Len(down'[p]) = Len(down[p]) - 1
          /\ Head(down[p]) = down[p][1]
          /\ \A i \in 1 .. Len(down'[p]) :
                i + 1 \in 1 .. Len(down[p]) /\ down'[p][i] = down[p][i + 1]
      BY <1>13, ReadShifts DEF OnPeerLeft
    <3>2. x \in known[p] => x \in known'[p]
      BY <1>13, <2>1, <2>3 DEF OnPeerLeft, ToldTheTruth, Shapes
    <3>3. Head(down[p]) # PeerJoined(x)
      BY <1>13 DEF OnPeerLeft, PeerJoined
    <3>4. x \in keys'[p] => x \in known'[p]
      BY <1>13, <2>4, <2>6, <3>2 DEF OnPeerLeft, KeyFollows
    <3> SUFFICES ASSUME NEW i \in 1 .. Len(down'[p]), down'[p][i].type = "KeyDistribute",
                        down'[p][i].sender = x, x \notin known'[p]
                 PROVE  \E j \in 1 .. i - 1 : down'[p][j] = PeerJoined(x)
      BY <2>6, <3>4 DEF KeyFollows, PeerJoined
    <3>5. PICK j \in 1 .. (i + 1) - 1 : down[p][j] = PeerJoined(x)
      BY <2>4, <2>6, <3>1, <3>2 DEF KeyFollows
    <3>6. j # 1
      BY <3>1, <3>3, <3>5
    <3>7. j - 1 \in 1 .. i - 1 /\ j - 1 \in 1 .. Len(down'[p])
      BY <3>1, <3>5, <3>6
    <3>8. down'[p][j - 1] = down[p][j]
      BY <3>1, <3>5, <3>7
    <3>9. QED
      BY <3>5, <3>7, <3>8
  <2>7. QED
    BY <2>5, <2>6
<1>14. ASSUME NEW p \in Peers, OnKeyDistribute(p) PROVE KeysFollow'
  <2>1. /\ Head(down[p]) \in Told(p) /\ down[p] # <<>>
        /\ \A r \in Peers : Told(r)' \subseteq Told(r)
        /\ \A m \in Told(p) : m = Head(down[p]) \/ m \in Told(p)'
        /\ \A r \in Peers \ {p} : down'[r] = down[r] /\ Told(r)' = Told(r)
    BY <1>14, ReadTold, ReadRest DEF OnKeyDistribute, NextDown
  <2> SUFFICES ASSUME NEW r \in members', NEW x \in members', phase'[r] = "call",
                      r \in existing'[x]
               PROVE  KeyFollows(r, x)'
    BY DEF KeysFollow
  <2>2. phase[r] = "call"
    BY <1>14 DEF OnKeyDistribute, NextDown, server, Shapes
  <2>3. r \in members /\ x \in members /\ r \in existing[x]
    BY <1>14 DEF OnKeyDistribute, NextDown, server
  <2>4. KeyFollows(r, x)
    BY <2>2, <2>3 DEF KeysFollow
  <2>5. CASE r # p
    BY <1>14, <2>1, <2>4, <2>5 DEF OnKeyDistribute, NextDown, server, KeyFollows, PeerJoined, Shapes
  <2>6. CASE r = p
    <3>1. /\ Len(down[p]) \in Nat \ {0} /\ Len(down'[p]) = Len(down[p]) - 1
          /\ Head(down[p]) = down[p][1]
          /\ \A i \in 1 .. Len(down'[p]) :
                i + 1 \in 1 .. Len(down[p]) /\ down'[p][i] = down[p][i + 1]
      BY <1>14, ReadShifts DEF OnKeyDistribute
    <3>2. x \in known[p] => x \in known'[p]
      BY <1>14 DEF OnKeyDistribute
    <3>3. Head(down[p]) # PeerJoined(x)
      BY <1>14 DEF OnKeyDistribute, PeerJoined
    <3>4. x \in keys'[p] => x \in known'[p]
      <4>1. CASE x \in keys[p]
        BY <2>4, <2>6, <3>2, <4>1 DEF KeyFollows
      <4>2. CASE x = Head(down[p]).sender
        <5>1. 1 \in 1 .. Len(down[p]) /\ down[p][1].type = "KeyDistribute" /\ down[p][1].sender = x
          BY <1>14, <3>1, <4>2 DEF OnKeyDistribute
        <5>2. QED
          BY <2>4, <2>6, <3>2, <5>1 DEF KeyFollows
      <4>3. QED
        BY <1>14, <4>1, <4>2 DEF OnKeyDistribute, Shapes
    <3> SUFFICES ASSUME NEW i \in 1 .. Len(down'[p]), down'[p][i].type = "KeyDistribute",
                        down'[p][i].sender = x, x \notin known'[p]
                 PROVE  \E j \in 1 .. i - 1 : down'[p][j] = PeerJoined(x)
      BY <2>6, <3>4 DEF KeyFollows, PeerJoined
    <3>5. PICK j \in 1 .. (i + 1) - 1 : down[p][j] = PeerJoined(x)
      BY <2>4, <2>6, <3>1, <3>2 DEF KeyFollows
    <3>6. j # 1
      BY <3>1, <3>3, <3>5
    <3>7. j - 1 \in 1 .. i - 1 /\ j - 1 \in 1 .. Len(down'[p])
      BY <3>1, <3>5, <3>6
    <3>8. down'[p][j - 1] = down[p][j]
      BY <3>1, <3>5, <3>7
    <3>9. QED
      BY <3>5, <3>7, <3>8
  <2>7. QED
    BY <2>5, <2>6
<1>15. ASSUME NEW p \in Peers, Connect(p) PROVE KeysFollow'
  <2>1. \A r \in Peers : Told(r)' = Told(r) /\ down'[r] = down[r]
    BY <1>15 DEF Connect, Told
  <2> SUFFICES ASSUME NEW r \in members', NEW x \in members', phase'[r] = "call",
                      r \in existing'[x]
               PROVE  KeyFollows(r, x)'
    BY DEF KeysFollow
  <2>2. r \in members /\ x \in members /\ phase[r] = "call" /\ r \in existing[x]
    BY <1>15 DEF Connect, Shapes
  <2>3. known'[r] = known[r] /\ keys'[r] = keys[r]
    BY <1>15 DEF Connect
  <2>4. QED
    BY <2>1, <2>2, <2>3 DEF KeysFollow, KeyFollows, PeerJoined, Shapes
<1>16. ASSUME NEW p \in Peers, HangUp(p) PROVE KeysFollow'
  <2>1. /\ \A r \in Peers : Told(r)' \subseteq Told(r)
        /\ \A r \in Peers \ {p} : down'[r] = down[r] /\ Told(r)' = Told(r)
    BY <1>16 DEF HangUp, Told, Shapes
  <2> SUFFICES ASSUME NEW r \in members', NEW x \in members', phase'[r] = "call",
                      r \in existing'[x]
               PROVE  KeyFollows(r, x)'
    BY DEF KeysFollow
  <2>2. r # p /\ r \in members /\ x \in members /\ phase[r] = "call" /\ r \in existing[x]
    BY <1>16 DEF HangUp, server, Shapes
  <2>3. QED
    BY <1>16, <2>1, <2>2 DEF HangUp, server, KeysFollow, KeyFollows, PeerJoined, Shapes
<1>17. CASE UNCHANGED vars
  <2> SUFFICES ASSUME NEW r \in members', NEW x \in members', phase'[r] = "call",
                      r \in existing'[x]
               PROVE  KeyFollows(r, x)'
    BY DEF KeysFollow
  <2>1. KeyFollows(r, x) /\ down' = down /\ known' = known /\ keys' = keys
    BY <1>17 DEF vars, server, client, KeysFollow
  <2>2. QED
    BY <2>1 DEF KeyFollows, PeerJoined
<1>18. QED
  BY <1>1, <1>2, <1>3, <1>4, <1>5, <1>6, <1>7, <1>8, <1>9, <1>10, <1>11, <1>12, <1>13, <1>14, <1>15, <1>16, <1>17
     DEF Next, Change, ServerStep, ClientStep

\* It holds of the empty room.
LEMMA SerialInit == Init => SerialInv
<1> SUFFICES ASSUME Init PROVE SerialInv
  OBVIOUS
<1>1. \A p \in Peers : Told(p) = {}
  BY DEF Init, Told
<1>2. NoOwnKey
  BY <1>1 DEF Init, NoOwnKey
<1>3. Alone /\ NewcomersAreAnnounced /\ DepartedAreAnnounced /\ KeysFollow
  BY DEF Init, Alone, AloneWhileJoining, LostWereServed, JoiningSeeTheRoom,
     NewcomersAreAnnounced, DepartedAreAnnounced, KeysFollow, Lost
<1>4. QED
  BY <1>2, <1>3 DEF SerialInv

\* Changes that have overlapped stay so.
LEMMA StillSerial == [Next]_vars /\ ~overlapped' => ~overlapped
<1>1. ASSUME UNCHANGED overlapped, ~overlapped' PROVE ~overlapped
  BY <1>1, Zenon
<1>2. ASSUME NEW p \in Peers, Change(p), ~overlapped' PROVE ~overlapped
  <2>1. overlapped' <=> (overlapped \/ ~Quiet)
    BY <1>2, Zenon DEF Change
  <2>2. QED
    BY <1>2, <2>1, Zenon
<1>3. QED
  BY <1>1, <1>2, Zenon DEF Next, vars

\* What holds as long as changes come one at a time.
THEOREM Serially == Spec => []SerialInv
<1>1. Types /\ MembershipInv /\ ViewInv /\ SerialInv /\ [Next]_vars => SerialInv'
  <2> SUFFICES ASSUME Types, MembershipInv, ViewInv, SerialInv, [Next]_vars
               PROVE  SerialInv'
    OBVIOUS
  <2>1. Basics /\ UnheardIsUnknown /\ DepartureFollows /\ NoOwnKey
    BY DEF ViewInv, SerialInv
  <2>2. NoOwnKey'
    BY <2>1, OwnKeyNext
  <2>3. ASSUME ~overlapped'
        PROVE  (Alone /\ NewcomersAreAnnounced /\ DepartedAreAnnounced /\ KeysFollow)'
    <3>1. Alone /\ NewcomersAreAnnounced /\ DepartedAreAnnounced /\ KeysFollow
      BY <2>3, StillSerial DEF SerialInv
    <3>2. LostWereServed /\ JoiningSeeTheRoom
      BY <3>1 DEF Alone
    <3>3. Alone'
      BY <2>1, <2>3, <3>1, AloneNext
    <3>4. NewcomersAreAnnounced' /\ DepartedAreAnnounced'
      BY <2>1, <3>1, <3>2, AnnouncedNext
    <3>5. KeysFollow'
      BY <2>1, <3>1, <3>2, KeysFollowNext
    <3>6. QED
      BY <3>3, <3>4, <3>5
  <2>4. QED
    BY <2>2, <2>3 DEF SerialInv
<1>2. QED
  BY <1>1, SerialInit, TypesHold, Membership, Views, PTL DEF Spec

\* With one change at a time a key that a client holds is that of a session it
\* has been told of, as long as that is in the room.
THEOREM KeyAlwaysAfterPeerJoined == Spec => []KeyAfterPeerJoined
<1>1. Types /\ MembershipInv /\ SerialInv => KeyAfterPeerJoined
  <2> SUFFICES ASSUME Types, MembershipInv, SerialInv, ~overlapped, NEW p \in Peers, InCall(p),
                      NEW q \in keys[p] \cap members
               PROVE  q \in known[p]
    BY DEF KeyAfterPeerJoined
  <2>1. q \in members /\ p \in members /\ phase[p] = "call" /\ q # p
    BY DEF InCall, SerialInv, NoOwnKey
  <2>2. CASE q \in existing[p]
    BY <2>1, <2>2 DEF MembershipInv, LaterKnowsEarlier
  <2>3. CASE p \in existing[q]
    BY <2>1, <2>3 DEF SerialInv, KeysFollow, KeyFollows
  <2>4. QED
    BY <2>1, <2>2, <2>3 DEF MembershipInv, SnapshotsAreOrdered
<1>2. QED
  BY <1>1, TypesHold, Membership, Serially, PTL

\* With one change at a time the room, every RoomState and every KeyStore agree
\* once everything sent has been processed.
THEOREM RoomAlwaysAgrees == Spec => []RoomAgrees
<1>1. Types /\ MembershipInv /\ ViewInv /\ SerialInv /\ KnownPeersCanDecrypt => RoomAgrees
  <2> SUFFICES ASSUME Types, MembershipInv, ViewInv, SerialInv, KnownPeersCanDecrypt,
                      Quiet, ~overlapped
               PROVE  /\ members = {p \in Peers : phase[p] = "call"}
                      /\ \A p \in members : known[p] = members \ {p} /\ known[p] \subseteq keys[p]
    BY DEF RoomAgrees
  <2>0. /\ members \in SUBSET Peers /\ known \in [Peers -> SUBSET Peers]
        /\ Alone /\ NewcomersAreAnnounced /\ DepartedAreAnnounced
        /\ Basics /\ DepartureFollows
    BY DEF Types, SerialInv, ViewInv
  <2>1. members = {p \in Peers : phase[p] = "call"}
    <3>1. ASSUME NEW p \in Peers, phase[p] = "call" PROVE p \in members
      BY <2>0, <3>1 DEF Quiet, Basics, ServedAreIn
    <3>2. ASSUME NEW p \in members PROVE phase[p] = "call"
      BY <2>0, <3>2 DEF Quiet, Alone, LostWereServed, Lost, MembershipInv, IdleHasNoTask,
         FreshIsUnheardOf, Fresh
    <3>3. QED
      BY <2>0, <3>1, <3>2
  <2>2. ASSUME NEW p \in members, NEW q \in members \ {p} PROVE q \in known[p]
    <3>1. phase[p] = "call" /\ task[q] = "loop" /\ Told(p) = {}
      BY <2>1, <2>2 DEF Quiet, Told
    <3>2. CASE q \in existing[p]
      BY <2>0, <3>1, <3>2 DEF MembershipInv, LaterKnowsEarlier
    <3>3. CASE p \in existing[q]
      BY <2>0, <3>1, <3>3 DEF NewcomersAreAnnounced, Announcing
    <3>4. QED
      BY <2>2, <3>2, <3>3 DEF MembershipInv, SnapshotsAreOrdered
  <2>3. ASSUME NEW p \in members, NEW q \in known[p] PROVE q \in members \ {p}
    <3>1. q \in Peers /\ q # p
      BY <2>0, <2>3 DEF Basics, NotToldOfItself
    <3>2. phase[p] = "call" /\ task[q] # "bye" /\ Told(p) = {}
      BY <2>1, <2>3, <3>1 DEF Quiet, Told, MembershipInv, IdleHasNoTask
    <3>3. ASSUME q \notin members PROVE FALSE
      <4>1. q \in existing[p]
        BY <2>0, <2>3, <3>1, <3>2, <3>3 DEF DepartureFollows, Remembered, LeftComing
      <4>2. QED
        BY <2>0, <2>3, <3>1, <3>2, <3>3, <4>1 DEF DepartedAreAnnounced, LeftComing
    <3>4. QED
      BY <3>1, <3>3
  <2>4. ASSUME NEW p \in members, NEW q \in known[p] PROVE q \in keys[p]
    <3>1. q \in members \ {p}
      BY <2>3, <2>4
    <3>2. p \in known[q] /\ InCall(p) /\ InCall(q)
      BY <2>0, <2>1, <2>2, <3>1 DEF InCall
    <3>3. QED
      BY <2>0, <3>1, <3>2 DEF KnownPeersCanDecrypt
  <2>5. \A p \in members : known[p] = members \ {p} /\ known[p] \subseteq keys[p]
    BY <2>0, <2>2, <2>3, <2>4
  <2>6. QED
    BY <2>1, <2>5
<1>2. QED
  BY <1>1, TypesHold, Membership, Views, Serially, KnownPeersCanAlwaysDecrypt, PTL

----------------------------------------------------------------------------
(* What the room relies on of its locks *)

\* A broadcast reads the room, and a departure is half announced while its
\* task is at "bye".
Access == INSTANCE RoomAccess WITH
    reading <- readers, leaving <- {q \in Peers : task[q] = "bye"}, Conns <- Peers, Tasks <- Peers

\* The room uses its locks as RoomAccess describes, which RoomsLock_proofs shows
\* the two real locks to provide: every step joins, leaves, begins or ends a
\* broadcast as RoomAccess allows, or touches nothing of it.
THEOREM UsesRoomAccess == Spec => Access!Spec
<1>1. Init => Access!Init
  BY DEF Init, Access!Init
<1>2. ASSUME Types, MembershipInv, ViewInv, [Next]_vars
      PROVE  [Access!Next]_(Access!vars)
  <2> Shapes /\ ReadersBroadcast /\ ServedAreIn
    BY <1>2 DEF Shapes, Types, MembershipInv, ViewInv, Basics
  <2>1. ASSUME NEW p \in Peers, Add(p) PROVE Access!Join(p)
    BY <2>1 DEF Add, Access!Join, RoomsReaders, Shapes
  <2>2. ASSUME NEW p \in Peers, Remove(p) PROVE Access!Leave(p)
    BY <2>2 DEF Remove, Access!Leave, ServedAreIn, Shapes
  <2>3. ASSUME NEW p \in Peers, BeginBroadcast(p) \/ RelayKeyDistribute(p) PROVE Access!BeginRead(p)
    BY <2>3 DEF BeginBroadcast, RelayKeyDistribute, TakeReadLocks, Access!BeginRead, Shapes
  <2>4. ASSUME NEW p \in Peers, EndBroadcast(p) PROVE Access!EndRead(p)
    BY <2>4 DEF EndBroadcast, DropGuards, Access!EndRead, Shapes
  <2>5. ASSUME NEW p \in Peers, NEW q \in Peers, BroadcastTo(p, q)
        PROVE  Access!EndRead(p) \/ UNCHANGED Access!vars
    <3>1. CASE todo[p] = {q}
      BY <2>5, <3>1 DEF BroadcastTo, DropGuards, Access!EndRead, Shapes
    <3>2. CASE todo[p] # {q}
      BY <2>5, <3>2 DEF BroadcastTo, Access!vars
    <3>3. QED
      BY <3>1, <3>2
  <2>6. ASSUME NEW p \in Peers, SendPeerList(p) \/ SendPeerListFails(p) \/ ReadFails(p) \/ Connect(p)
        PROVE  UNCHANGED Access!vars
    BY <1>2, <2>6 DEF SendPeerList, SendPeerListFails, ReadFails, Connect, Access!vars,
       IdleHasNoTask, MembershipInv, Shapes
  <2>7. ASSUME NEW p \in Peers, ClientStep(p) \/ HangUp(p) PROVE UNCHANGED Access!vars
    BY <2>7 DEF ClientStep, RecvPeerList, SkipWhileJoining, OnPeerJoined, OnPeerLeft,
       OnKeyDistribute, HangUp, server, Access!vars
  <2>8. CASE UNCHANGED vars
    BY <2>8 DEF vars, server, Access!vars
  <2>9. QED
    BY <1>2, <2>1, <2>2, <2>3, <2>4, <2>5, <2>6, <2>7, <2>8
       DEF Next, Change, ServerStep, Access!Next
<1>3. QED
  BY <1>1, <1>2, TypesHold, Membership, Views, PTL DEF Spec, Access!Spec

=============================================================================
