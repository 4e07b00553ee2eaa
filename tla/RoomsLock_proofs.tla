-------------------------- MODULE RoomsLock_proofs --------------------------
(***************************************************************************)
(* Proofs about RoomsLock, for any number of connections and forwarders:   *)
(* the two nested locks give the room access that module RoomAccess        *)
(* promises and module SfuRoom is built on.                                *)
(***************************************************************************)
EXTENDS RoomsLock, TLAPS

----------------------------------------------------------------------------
(* The inductive invariant *)

\* Where a task is tells which guards it holds.
GuardsMatch ==
    \A t \in Tasks :
        /\ roomsReads[t] = CASE pc[t] \in {"cast2", "casting", "leave2", "bye1"} -> 1
                             [] pc[t] \in {"bye2", "byeing"} -> 2
                             [] OTHER -> 0
        /\ roomReads[t] = IF pc[t] \in {"casting", "byeing"} THEN 1 ELSE 0
        /\ t \in roomsWriter <=> pc[t] = "join2"
        /\ t \notin roomWriter

\* A forwarder only ever reads the room.
ForwardersRead ==
    \A f \in Forwarders : pc[f] \in {"idle", "in", "cast1", "cast2", "casting", "out"}

\* A connection is in the room until its own task removes it.
InTheRoom ==
    \A c \in Conns :
        pc[c] \in {"list", "cast1", "cast2", "casting", "in", "leave1", "leave2"} => c \in members

\* The conjunction is inductive; Exclusive is the lock's own promise.
IInv ==
    /\ TypeOK
    /\ GuardsMatch
    /\ Rooms!Exclusive
    /\ ForwardersRead
    /\ InTheRoom

\* Nobody holds anything at first.
LEMMA IInvInit == Init => IInv
BY ConnsAssumption DEF Tasks, Init, IInv, TypeOK, GuardsMatch, ForwardersRead, InTheRoom,
   Rooms!Init, Room!Init, Rooms!TypeOK, Room!TypeOK, Rooms!Exclusive

\* Every step of every task keeps the guards and the program counters in step.
LEMMA IInvNext == IInv /\ [Next]_vars => IInv'
<1> SUFFICES ASSUME IInv, [Next]_vars
             PROVE  IInv'
  OBVIOUS
<1> USE ConnsAssumption DEF IInv, Tasks
<1>1. ASSUME NEW t \in Tasks, StartJoin(t) PROVE IInv'
  <2> USE <1>1 DEF StartJoin, Goto, Rooms!Ask, roomLock, network
  <2>1. TypeOK'
    BY DEF TypeOK, GuardsMatch, ForwardersRead, Rooms!TypeOK, Room!TypeOK,
       Rooms!Request, Room!Request
  <2>2. GuardsMatch'
    BY DEF TypeOK, GuardsMatch, Rooms!TypeOK, Room!TypeOK
  <2>3. Rooms!Exclusive'
    BY DEF TypeOK, GuardsMatch, Rooms!Exclusive, Rooms!TypeOK
  <2>4. ForwardersRead'
    BY DEF TypeOK, ForwardersRead
  <2>5. InTheRoom'
    BY DEF TypeOK, InTheRoom
  <2>6. QED
    BY <2>1, <2>2, <2>3, <2>4, <2>5
<1>2. ASSUME NEW t \in Tasks, JoinRooms(t) PROVE IInv'
  <2> USE <1>2 DEF JoinRooms, Goto, Rooms!GrantWrite, Rooms!MayWrite, Rooms!HeadIs, Room!Ask, network
  <2>1. TypeOK'
    BY DEF TypeOK, GuardsMatch, ForwardersRead, Rooms!TypeOK, Room!TypeOK,
       Rooms!Request, Room!Request
  <2>2. GuardsMatch'
    BY DEF TypeOK, GuardsMatch, Rooms!TypeOK, Room!TypeOK
  <2>3. Rooms!Exclusive'
    BY DEF TypeOK, GuardsMatch, Rooms!Exclusive, Rooms!TypeOK
  <2>4. ForwardersRead'
    BY DEF TypeOK, ForwardersRead
  <2>5. InTheRoom'
    BY DEF TypeOK, InTheRoom
  <2>6. QED
    BY <2>1, <2>2, <2>3, <2>4, <2>5
<1>3. ASSUME NEW t \in Tasks, JoinRoom(t) PROVE IInv'
  <2> USE <1>3 DEF JoinRoom, Goto, Room!PassWrite, Room!MayWrite, Room!HeadIs, Rooms!Release, network
  <2>1. TypeOK'
    <3>1. Rooms!TypeOK'
      BY DEF TypeOK, GuardsMatch, Rooms!TypeOK, Rooms!Request
    <3>2. Room!TypeOK'
      BY DEF TypeOK, GuardsMatch, Room!TypeOK, Room!Request
    <3>3. QED
      BY <3>1, <3>2 DEF TypeOK, ForwardersRead
  <2>2. GuardsMatch'
    BY DEF TypeOK, GuardsMatch, Rooms!TypeOK, Room!TypeOK
  <2>3. Rooms!Exclusive'
    BY DEF TypeOK, GuardsMatch, Rooms!Exclusive, Rooms!TypeOK
  <2>4. ForwardersRead'
    BY DEF TypeOK, ForwardersRead
  <2>5. InTheRoom'
    BY DEF TypeOK, InTheRoom
  <2>6. QED
    BY <2>1, <2>2, <2>3, <2>4, <2>5
<1>4. ASSUME NEW t \in Tasks, AbortJoin(t) PROVE IInv'
  <2> USE <1>4 DEF AbortJoin, Goto, roomsLock, roomLock, network
  <2>1. TypeOK'
    BY DEF TypeOK, GuardsMatch, ForwardersRead, Rooms!TypeOK, Room!TypeOK,
       Rooms!Request, Room!Request
  <2>2. GuardsMatch'
    BY DEF TypeOK, GuardsMatch, Rooms!TypeOK, Room!TypeOK
  <2>3. Rooms!Exclusive'
    BY DEF TypeOK, GuardsMatch, Rooms!Exclusive, Rooms!TypeOK
  <2>4. ForwardersRead'
    BY DEF TypeOK, ForwardersRead
  <2>5. InTheRoom'
    BY DEF TypeOK, InTheRoom
  <2>6. QED
    BY <2>1, <2>2, <2>3, <2>4, <2>5
<1>5. ASSUME NEW t \in Tasks, RelayControl(t) PROVE IInv'
  <2> USE <1>5 DEF RelayControl, StartCast, Goto, Rooms!Ask, roomLock, network
  <2>1. TypeOK'
    BY DEF TypeOK, GuardsMatch, ForwardersRead, Rooms!TypeOK, Room!TypeOK,
       Rooms!Request, Room!Request
  <2>2. GuardsMatch'
    BY DEF TypeOK, GuardsMatch, Rooms!TypeOK, Room!TypeOK
  <2>3. Rooms!Exclusive'
    BY DEF TypeOK, GuardsMatch, Rooms!Exclusive, Rooms!TypeOK
  <2>4. ForwardersRead'
    BY DEF TypeOK, ForwardersRead
  <2>5. InTheRoom'
    BY DEF TypeOK, InTheRoom
  <2>6. QED
    BY <2>1, <2>2, <2>3, <2>4, <2>5
<1>6. ASSUME NEW t \in Tasks, ForwardDatagram(t) PROVE IInv'
  <2> USE <1>6 DEF ForwardDatagram, StartCast, Goto, Rooms!Ask, roomLock
  <2>1. TypeOK'
    BY DEF TypeOK, GuardsMatch, ForwardersRead, Rooms!TypeOK, Room!TypeOK,
       Rooms!Request, Room!Request
  <2>2. GuardsMatch'
    BY DEF TypeOK, GuardsMatch, Rooms!TypeOK, Room!TypeOK
  <2>3. Rooms!Exclusive'
    BY DEF TypeOK, GuardsMatch, Rooms!Exclusive, Rooms!TypeOK
  <2>4. ForwardersRead'
    BY DEF TypeOK, ForwardersRead
  <2>5. InTheRoom'
    BY DEF TypeOK, InTheRoom
  <2>6. QED
    BY <2>1, <2>2, <2>3, <2>4, <2>5
<1>7. ASSUME NEW t \in Tasks, ForwarderEnds(t) PROVE IInv'
  <2> USE <1>7 DEF ForwarderEnds, Goto, roomsLock, roomLock, network
  <2>1. TypeOK'
    BY DEF TypeOK, GuardsMatch, ForwardersRead, Rooms!TypeOK, Room!TypeOK,
       Rooms!Request, Room!Request
  <2>2. GuardsMatch'
    BY DEF TypeOK, GuardsMatch, Rooms!TypeOK, Room!TypeOK
  <2>3. Rooms!Exclusive'
    BY DEF TypeOK, GuardsMatch, Rooms!Exclusive, Rooms!TypeOK
  <2>4. ForwardersRead'
    BY DEF TypeOK, ForwardersRead
  <2>5. InTheRoom'
    BY DEF TypeOK, InTheRoom
  <2>6. QED
    BY <2>1, <2>2, <2>3, <2>4, <2>5
<1>8. ASSUME NEW t \in Tasks, CastRooms(t) PROVE IInv'
  <2> USE <1>8 DEF CastRooms, Goto, Rooms!GrantRead, Rooms!MayRead, Rooms!HeadIs, Room!Ask, network
  <2>1. TypeOK'
    <3>1. Rooms!TypeOK'
      <4>1. roomsReads[t] + 1 \in 0 .. 2
        BY DEF GuardsMatch
      <4>2. roomsQueue' \in Seq(Rooms!Request)
        BY DEF TypeOK, Rooms!TypeOK
      <4>3. QED
        BY <4>1, <4>2 DEF TypeOK, Rooms!TypeOK, Rooms!Request
    <3>2. Room!TypeOK'
      BY DEF TypeOK, GuardsMatch, Room!TypeOK, Room!Request
    <3>3. QED
      BY <3>1, <3>2 DEF TypeOK, ForwardersRead
  <2>2. GuardsMatch'
    BY DEF TypeOK, GuardsMatch, Rooms!TypeOK, Room!TypeOK
  <2>3. Rooms!Exclusive'
    BY DEF TypeOK, GuardsMatch, Rooms!Exclusive, Rooms!TypeOK
  <2>4. ForwardersRead'
    BY DEF TypeOK, ForwardersRead
  <2>5. InTheRoom'
    BY DEF TypeOK, InTheRoom
  <2>6. QED
    BY <2>1, <2>2, <2>3, <2>4, <2>5
<1>9. ASSUME NEW t \in Tasks, CastRoom(t) PROVE IInv'
  <2> USE <1>9 DEF CastRoom, Goto, Room!GrantRead, Room!MayRead, Room!HeadIs, roomsLock, network
  <2>1. TypeOK'
    <3>1. Rooms!TypeOK'
      BY DEF TypeOK, Rooms!TypeOK, Rooms!Request
    <3>2. Room!TypeOK'
      <4>1. roomReads[t] + 1 \in 0 .. 2
        BY DEF GuardsMatch
      <4>2. roomQueue' \in Seq(Room!Request)
        BY DEF TypeOK, Room!TypeOK
      <4>3. QED
        BY <4>1, <4>2 DEF TypeOK, Room!TypeOK, Room!Request
    <3>3. QED
      BY <3>1, <3>2 DEF TypeOK, ForwardersRead
  <2>2. GuardsMatch'
    BY DEF TypeOK, GuardsMatch, Rooms!TypeOK, Room!TypeOK
  <2>3. Rooms!Exclusive'
    BY DEF TypeOK, GuardsMatch, Rooms!Exclusive, Rooms!TypeOK
  <2>4. ForwardersRead'
    BY DEF TypeOK, ForwardersRead
  <2>5. InTheRoom'
    BY DEF TypeOK, InTheRoom
  <2>6. QED
    BY <2>1, <2>2, <2>3, <2>4, <2>5
<1>10. ASSUME NEW t \in Tasks, EndCast(t) PROVE IInv'
  <2> USE <1>10 DEF EndCast, GoOn, Rooms!Release, Room!Release, network
  <2>1. TypeOK'
    BY DEF TypeOK, GuardsMatch, ForwardersRead, Rooms!TypeOK, Room!TypeOK,
       Rooms!Request, Room!Request
  <2>2. GuardsMatch'
    BY DEF TypeOK, GuardsMatch, Rooms!TypeOK, Room!TypeOK
  <2>3. Rooms!Exclusive'
    BY DEF TypeOK, GuardsMatch, Rooms!Exclusive, Rooms!TypeOK
  <2>4. ForwardersRead'
    BY DEF TypeOK, ForwardersRead
  <2>5. InTheRoom'
    BY DEF TypeOK, InTheRoom
  <2>6. QED
    BY <2>1, <2>2, <2>3, <2>4, <2>5
<1>11. ASSUME NEW t \in Tasks, StartLeave(t) PROVE IInv'
  <2> USE <1>11 DEF StartLeave, Goto, Rooms!Ask, roomLock, network
  <2>1. TypeOK'
    BY DEF TypeOK, GuardsMatch, ForwardersRead, Rooms!TypeOK, Room!TypeOK,
       Rooms!Request, Room!Request
  <2>2. GuardsMatch'
    BY DEF TypeOK, GuardsMatch, Rooms!TypeOK, Room!TypeOK
  <2>3. Rooms!Exclusive'
    BY DEF TypeOK, GuardsMatch, Rooms!Exclusive, Rooms!TypeOK
  <2>4. ForwardersRead'
    BY DEF TypeOK, ForwardersRead
  <2>5. InTheRoom'
    BY DEF TypeOK, InTheRoom
  <2>6. QED
    BY <2>1, <2>2, <2>3, <2>4, <2>5
<1>12. ASSUME NEW t \in Tasks, LeaveRooms(t) PROVE IInv'
  <2> USE <1>12 DEF LeaveRooms, Goto, Rooms!GrantRead, Rooms!MayRead, Rooms!HeadIs, Room!Ask, network
  <2>1. TypeOK'
    <3>1. Rooms!TypeOK'
      <4>1. roomsReads[t] + 1 \in 0 .. 2
        BY DEF GuardsMatch
      <4>2. roomsQueue' \in Seq(Rooms!Request)
        BY DEF TypeOK, Rooms!TypeOK
      <4>3. QED
        BY <4>1, <4>2 DEF TypeOK, Rooms!TypeOK, Rooms!Request
    <3>2. Room!TypeOK'
      BY DEF TypeOK, GuardsMatch, Room!TypeOK, Room!Request
    <3>3. QED
      BY <3>1, <3>2 DEF TypeOK, ForwardersRead
  <2>2. GuardsMatch'
    BY DEF TypeOK, GuardsMatch, Rooms!TypeOK, Room!TypeOK
  <2>3. Rooms!Exclusive'
    BY DEF TypeOK, GuardsMatch, Rooms!Exclusive, Rooms!TypeOK
  <2>4. ForwardersRead'
    BY DEF TypeOK, ForwardersRead
  <2>5. InTheRoom'
    BY DEF TypeOK, InTheRoom
  <2>6. QED
    BY <2>1, <2>2, <2>3, <2>4, <2>5
<1>13. ASSUME NEW t \in Tasks, LeaveRoom(t) PROVE IInv'
  <2> USE <1>13 DEF LeaveRoom, Goto, Room!PassWrite, Room!MayWrite, Room!HeadIs, Rooms!Ask, network
  <2>1. TypeOK'
    BY DEF TypeOK, GuardsMatch, ForwardersRead, Rooms!TypeOK, Room!TypeOK,
       Rooms!Request, Room!Request
  <2>2. GuardsMatch'
    BY DEF TypeOK, GuardsMatch, Rooms!TypeOK, Room!TypeOK
  <2>3. Rooms!Exclusive'
    BY DEF TypeOK, GuardsMatch, Rooms!Exclusive, Rooms!TypeOK
  <2>4. ForwardersRead'
    BY DEF TypeOK, ForwardersRead
  <2>5. InTheRoom'
    BY DEF TypeOK, InTheRoom
  <2>6. QED
    BY <2>1, <2>2, <2>3, <2>4, <2>5
<1>14. ASSUME NEW t \in Tasks, ByeRooms(t) PROVE IInv'
  <2> USE <1>14 DEF ByeRooms, Goto, Rooms!GrantRead, Rooms!MayRead, Rooms!HeadIs, Room!Ask, network
  <2>1. TypeOK'
    <3>1. Rooms!TypeOK'
      <4>1. roomsReads[t] + 1 \in 0 .. 2
        BY DEF GuardsMatch
      <4>2. roomsQueue' \in Seq(Rooms!Request)
        BY DEF TypeOK, Rooms!TypeOK
      <4>3. QED
        BY <4>1, <4>2 DEF TypeOK, Rooms!TypeOK, Rooms!Request
    <3>2. Room!TypeOK'
      BY DEF TypeOK, GuardsMatch, Room!TypeOK, Room!Request
    <3>3. QED
      BY <3>1, <3>2 DEF TypeOK, ForwardersRead
  <2>2. GuardsMatch'
    BY DEF TypeOK, GuardsMatch, Rooms!TypeOK, Room!TypeOK
  <2>3. Rooms!Exclusive'
    BY DEF TypeOK, GuardsMatch, Rooms!Exclusive, Rooms!TypeOK
  <2>4. ForwardersRead'
    BY DEF TypeOK, ForwardersRead
  <2>5. InTheRoom'
    BY DEF TypeOK, InTheRoom
  <2>6. QED
    BY <2>1, <2>2, <2>3, <2>4, <2>5
<1>15. ASSUME NEW t \in Tasks, ByeRoom(t) PROVE IInv'
  <2> USE <1>15 DEF ByeRoom, Goto, Room!GrantRead, Room!MayRead, Room!HeadIs, roomsLock, network
  <2>1. TypeOK'
    BY DEF TypeOK, GuardsMatch, ForwardersRead, Rooms!TypeOK, Room!TypeOK,
       Rooms!Request, Room!Request
  <2>2. GuardsMatch'
    BY DEF TypeOK, GuardsMatch, Rooms!TypeOK, Room!TypeOK
  <2>3. Rooms!Exclusive'
    BY DEF TypeOK, GuardsMatch, Rooms!Exclusive, Rooms!TypeOK
  <2>4. ForwardersRead'
    BY DEF TypeOK, ForwardersRead
  <2>5. InTheRoom'
    BY DEF TypeOK, InTheRoom
  <2>6. QED
    BY <2>1, <2>2, <2>3, <2>4, <2>5
<1>16. ASSUME NEW t \in Tasks, EndBye(t) PROVE IInv'
  <2> USE <1>16 DEF EndBye, Goto, Rooms!Release, Room!Release, network
  <2>1. TypeOK'
    BY DEF TypeOK, GuardsMatch, ForwardersRead, Rooms!TypeOK, Room!TypeOK,
       Rooms!Request, Room!Request
  <2>2. GuardsMatch'
    BY DEF TypeOK, GuardsMatch, Rooms!TypeOK, Room!TypeOK
  <2>3. Rooms!Exclusive'
    BY DEF TypeOK, GuardsMatch, Rooms!Exclusive, Rooms!TypeOK
  <2>4. ForwardersRead'
    BY DEF TypeOK, ForwardersRead
  <2>5. InTheRoom'
    BY DEF TypeOK, InTheRoom
  <2>6. QED
    BY <2>1, <2>2, <2>3, <2>4, <2>5
<1>17. ASSUME NEW t \in Tasks, ConnectionEnds(t) PROVE IInv'
  <2> USE <1>17 DEF ConnectionEnds, roomsLock, roomLock
  <2>1. TypeOK'
    BY DEF TypeOK, GuardsMatch, ForwardersRead, Rooms!TypeOK, Room!TypeOK,
       Rooms!Request, Room!Request
  <2>2. GuardsMatch'
    BY DEF TypeOK, GuardsMatch, Rooms!TypeOK, Room!TypeOK
  <2>3. Rooms!Exclusive'
    BY DEF TypeOK, GuardsMatch, Rooms!Exclusive, Rooms!TypeOK
  <2>4. ForwardersRead'
    BY DEF TypeOK, ForwardersRead
  <2>5. InTheRoom'
    BY DEF TypeOK, InTheRoom
  <2>6. QED
    BY <2>1, <2>2, <2>3, <2>4, <2>5
<1>18. ASSUME NEW t \in Tasks, ListSent(t) PROVE IInv'
  <2> USE <1>18 DEF ListSent, Goto, Rooms!Ask, roomLock, network
  <2>1. TypeOK'
    BY DEF TypeOK, GuardsMatch, ForwardersRead, Rooms!TypeOK, Room!TypeOK,
       Rooms!Request, Room!Request
  <2>2. GuardsMatch'
    BY DEF TypeOK, GuardsMatch, Rooms!TypeOK, Room!TypeOK
  <2>3. Rooms!Exclusive'
    BY DEF TypeOK, GuardsMatch, Rooms!Exclusive, Rooms!TypeOK
  <2>4. ForwardersRead'
    BY DEF TypeOK, ForwardersRead
  <2>5. InTheRoom'
    BY DEF TypeOK, InTheRoom
  <2>6. QED
    BY <2>1, <2>2, <2>3, <2>4, <2>5
<1>19. CASE UNCHANGED vars
  BY <1>19 DEF vars, network, roomsLock, roomLock, TypeOK, GuardsMatch, ForwardersRead, InTheRoom,
     Rooms!TypeOK, Room!TypeOK, Rooms!Exclusive
<1>20. QED
  BY <1>1, <1>2, <1>3, <1>4, <1>5, <1>6, <1>7, <1>8, <1>9,
     <1>10, <1>11, <1>12, <1>13, <1>14, <1>15, <1>16, <1>17, <1>18, <1>19
     DEF Next, Proceed, LockGranted, Written

\* The invariant holds in every reachable state.
LEMMA Invariant == Spec => []IInv
BY IInvInit, IInvNext, PTL DEF Spec

\* The types, with the number of guards a task can hold.
THEOREM Typed == Spec => []TypeOK
<1>1. IInv => TypeOK
  BY DEF IInv
<1>2. QED
  BY <1>1, Invariant, PTL

----------------------------------------------------------------------------
(* Refinement *)

\* Adding a peer waits for the write guards of both locks, so no task is
\* reading the room and no departure is half announced.
LEMMA JoinIsAtomic ==
    ASSUME IInv, NEW c \in Tasks, JoinRoom(c)
    PROVE  Access!Join(c) /\ c \in Conns
<1> USE DEF JoinRoom, Goto, Tasks, IInv
<1>1. c \in Conns
  BY DEF ForwardersRead
<1>2. \A t \in Tasks : pc[t] \notin {"casting", "byeing"}
  BY DEF Room!PassWrite, Room!MayWrite, GuardsMatch
<1>3. \A t \in Tasks : pc[t] \notin {"bye1", "bye2", "byeing"}
  BY DEF GuardsMatch, Rooms!Exclusive
<1>4. \A t \in Tasks : pc'[t] = pc[t] \/ (t = c /\ pc'[t] = "list")
  BY DEF TypeOK
<1>5. QED
  BY <1>1, <1>2, <1>3, <1>4 DEF Access!Join

\* Removing a peer waits for the write guard of the room.
LEMMA LeaveIsAtomic ==
    ASSUME IInv, NEW c \in Tasks, LeaveRoom(c)
    PROVE  Access!Leave(c) /\ c \in Conns
<1> USE DEF LeaveRoom, Goto, Tasks, IInv
<1>1. c \in Conns /\ c \in members
  BY DEF ForwardersRead, InTheRoom
<1>2. \A t \in Tasks : pc[t] \notin {"casting", "byeing"}
  BY DEF Room!PassWrite, Room!MayWrite, GuardsMatch
<1>3. pc' = [pc EXCEPT ![c] = "bye1"] /\ pc[c] = "leave2"
  OBVIOUS
<1>4. QED
  BY <1>1, <1>2, <1>3 DEF Access!Leave, TypeOK

\* Every step of the tasks is a step of the promise, or changes nothing it sees.
LEMMA StepRefines == IInv /\ [Next]_vars => [Access!Next]_(Access!vars)
<1> SUFFICES ASSUME IInv, [Next]_vars
             PROVE  [Access!Next]_(Access!vars)
  OBVIOUS
<1> USE DEF IInv, Tasks
<1> DEFINE reading == {t \in Tasks : pc[t] \in {"casting", "byeing"}}
           leaving == {t \in Tasks : pc[t] \in {"bye1", "bye2", "byeing"}}
           Same    == UNCHANGED <<members, reading, leaving>>
<1>1. ASSUME NEW c \in Tasks, JoinRoom(c) PROVE Access!Next
  BY <1>1, JoinIsAtomic DEF Access!Next
<1>2. ASSUME NEW c \in Tasks, LeaveRoom(c) PROVE Access!Next
  BY <1>2, LeaveIsAtomic DEF Access!Next
<1>3. ASSUME NEW t \in Tasks, CastRoom(t) \/ ByeRoom(t) PROVE Access!Next
  <2>1. Access!BeginRead(t)
    BY <1>3 DEF CastRoom, ByeRoom, Goto, Access!BeginRead, TypeOK
  <2>2. QED
    BY <2>1 DEF Access!Next
<1>4. ASSUME NEW t \in Tasks, EndCast(t) \/ EndBye(t) PROVE Access!Next
  <2>1. Access!EndRead(t)
    BY <1>4 DEF EndCast, EndBye, GoOn, Goto, Access!EndRead, TypeOK
  <2>2. QED
    BY <2>1 DEF Access!Next
<1>5. ASSUME NEW t \in Tasks,
             \/ StartJoin(t) \/ JoinRooms(t) \/ ListSent(t) \/ AbortJoin(t)
             \/ RelayControl(t) \/ ForwardDatagram(t) \/ ForwarderEnds(t) \/ CastRooms(t)
             \/ StartLeave(t) \/ LeaveRooms(t) \/ ByeRooms(t) \/ ConnectionEnds(t)
      PROVE  Same
  BY <1>5 DEF StartJoin, JoinRooms, ListSent, AbortJoin, RelayControl, ForwardDatagram, StartCast, ForwarderEnds,
     CastRooms, StartLeave, LeaveRooms, ByeRooms, ConnectionEnds, Goto, TypeOK
<1>6. CASE UNCHANGED vars
  BY <1>6 DEF vars, Access!vars
<1>7. Same => UNCHANGED Access!vars
  BY DEF Access!vars
<1>8. QED
  BY <1>1, <1>2, <1>3, <1>4, <1>5, <1>6, <1>7 DEF Next, Proceed, LockGranted, Written

\* The server's locking implements the room access SfuRoom takes for granted:
\* joins and departures are atomic, and neither happens under a broadcast.
THEOREM Refinement == Spec => RefinesRoomAccess
<1>1. Init => Access!Init
  BY DEF Init, Access!Init
<1>2. QED
  BY <1>1, Invariant, StepRefines, PTL DEF Spec, RefinesRoomAccess, Access!Spec

----------------------------------------------------------------------------
(* Standstill *)

At(p, S) == {t \in Tasks : p[t] \in S}

\* A queue holds one request of each task in W, to write, and in R, to read.
Holds(q, W, R) ==
    /\ \A i \in DOMAIN q : \/ q[i].mode = "write" /\ q[i].task \in W
                           \/ q[i].mode = "read" /\ q[i].task \in R
    /\ \A t \in W \cup R : \E i \in DOMAIN q : q[i].task = t
    /\ \A i, j \in DOMAIN q : q[i].task = q[j].task => i = j

\* Where a task waits for which guard.
RoomsW == {"join1"}
RoomsR == {"cast1", "leave1", "bye1"}
RoomW  == {"join2", "leave2"}
RoomR  == {"cast2", "bye2"}

WaitsForRooms == Holds(roomsQueue, At(pc, RoomsW), At(pc, RoomsR))
WaitsForRoom  == Holds(roomQueue, At(pc, RoomW), At(pc, RoomR))

\* Where a task is tells which lock it has asked for.
QueuesMatch == WaitsForRooms /\ WaitsForRoom

LEMMA HoldsNothing ==
    ASSUME NEW q, q = <<>>
    PROVE  Holds(q, {}, {})
BY DEF Holds

LEMMA Asked ==
    ASSUME NEW q \in Seq(Rooms!Request), NEW W, NEW R, Holds(q, W, R),
           NEW t, t \notin W \cup R, NEW mode \in {"read", "write"},
           NEW q2, q2 = Append(q, [task |-> t, mode |-> mode])
    PROVE  Holds(q2, IF mode = "write" THEN W \cup {t} ELSE W,
                     IF mode = "read" THEN R \cup {t} ELSE R)
<1>1. /\ Len(q) \in Nat /\ DOMAIN q = 1 .. Len(q) /\ DOMAIN q2 = 1 .. Len(q) + 1
      /\ \A i \in DOMAIN q : q2[i] = q[i]
      /\ q2[Len(q) + 1].task = t /\ q2[Len(q) + 1].mode = mode
  OBVIOUS
<1>2. \A i \in DOMAIN q2 : i \in DOMAIN q \/ i = Len(q) + 1
  BY <1>1
<1>3. \A i \in DOMAIN q : q[i].task # t
  BY DEF Holds
<1>4. \A i, j \in DOMAIN q2 : q2[i].task = q2[j].task => i = j
  BY <1>1, <1>2, <1>3 DEF Holds
<1>5. \A i \in DOMAIN q : i \in DOMAIN q2
  BY <1>1
<1>6. Len(q) + 1 \in DOMAIN q2
  BY <1>1
<1> QED BY <1>1, <1>2, <1>4, <1>5, <1>6 DEF Holds

LEMMA Granted ==
    ASSUME NEW q \in Seq(Rooms!Request), NEW W, NEW R, Holds(q, W, R), W \cap R = {},
           q # <<>>, NEW t, Head(q).task = t,
           NEW q2, q2 = Tail(q)
    PROVE  Holds(q2, W \ {t}, R \ {t})
<1>1. /\ Len(q) \in Nat /\ DOMAIN q = 1 .. Len(q) /\ Len(q) > 0
      /\ DOMAIN q2 = 1 .. Len(q) - 1
      /\ \A i \in DOMAIN q2 : i + 1 \in DOMAIN q /\ q2[i] = q[i + 1]
      /\ q[1].task = t
  OBVIOUS
<1>2. \A i \in DOMAIN q : i = 1 \/ (i - 1 \in DOMAIN q2 /\ q2[i - 1] = q[i])
  <2> SUFFICES ASSUME NEW i \in DOMAIN q, i # 1
               PROVE  i - 1 \in DOMAIN q2 /\ q2[i - 1] = q[i]
    OBVIOUS
  <2>1. i - 1 \in DOMAIN q2 /\ (i - 1) + 1 = i
    BY <1>1
  <2> QED BY <1>1, <2>1
<1>3. \A i \in DOMAIN q2 : q2[i].task # t
  <2> SUFFICES ASSUME NEW i \in DOMAIN q2, q2[i].task = t PROVE FALSE
    OBVIOUS
  <2>1. q[i + 1].task = q[1].task /\ i + 1 \in DOMAIN q /\ 1 \in DOMAIN q /\ i + 1 # 1
    BY <1>1
  <2> QED BY <2>1 DEF Holds
<1>4. \A i, j \in DOMAIN q2 : q2[i].task = q2[j].task => i = j
  <2> SUFFICES ASSUME NEW i \in DOMAIN q2, NEW j \in DOMAIN q2, q2[i].task = q2[j].task
               PROVE  i = j
    OBVIOUS
  <2>1. i + 1 = j + 1
    BY <1>1 DEF Holds
  <2> QED BY <1>1, <2>1
<1>5. \A u \in (W \ {t}) \cup (R \ {t}) : \E i \in DOMAIN q2 : q2[i].task = u
  <2> SUFFICES ASSUME NEW u \in W \cup R, u # t PROVE \E i \in DOMAIN q2 : q2[i].task = u
    OBVIOUS
  <2>1. PICK i \in DOMAIN q : q[i].task = u
    BY DEF Holds
  <2> QED BY <1>1, <1>2, <2>1
<1>6. \A i \in DOMAIN q2 : \/ q2[i].mode = "write" /\ q2[i].task \in W \ {t}
                           \/ q2[i].mode = "read" /\ q2[i].task \in R \ {t}
  BY <1>1, <1>3 DEF Holds
<1> QED BY <1>4, <1>5, <1>6 DEF Holds

LEMMA Moves ==
    ASSUME TypeOK, NEW t \in Tasks, NEW from, NEW to, Goto(t, from, to), NEW S
    PROVE  /\ t \in At(pc, S) <=> from \in S
           /\ At(pc', S) = IF to \in S THEN At(pc, S) \cup {t} ELSE At(pc, S) \ {t}
BY DEF TypeOK, Goto, At

\* A task that moves on asks for a lock, is granted it, or leaves its queue alone.
LEMMA QueueStep ==
    ASSUME TypeOK, NEW t \in Tasks, NEW from, NEW to, Goto(t, from, to),
           NEW q \in Seq(Rooms!Request), NEW Ws, NEW Rs, Ws \cap Rs = {},
           Holds(q, At(pc, Ws), At(pc, Rs)), NEW q2,
           \/ /\ from \notin Ws \cup Rs /\ to \in Ws
              /\ q2 = Append(q, [task |-> t, mode |-> "write"])
           \/ /\ from \notin Ws \cup Rs /\ to \in Rs
              /\ q2 = Append(q, [task |-> t, mode |-> "read"])
           \/ to \notin Ws \cup Rs /\ q # <<>> /\ Head(q).task = t /\ q2 = Tail(q)
           \/ from \notin Ws \cup Rs /\ to \notin Ws \cup Rs /\ q2 = q
    PROVE  Holds(q2, At(pc', Ws), At(pc', Rs))
<1>1. /\ t \in At(pc, Ws) <=> from \in Ws
      /\ t \in At(pc, Rs) <=> from \in Rs
      /\ At(pc', Ws) = IF to \in Ws THEN At(pc, Ws) \cup {t} ELSE At(pc, Ws) \ {t}
      /\ At(pc', Rs) = IF to \in Rs THEN At(pc, Rs) \cup {t} ELSE At(pc, Rs) \ {t}
  BY Moves
<1>2. At(pc, Ws) \cap At(pc, Rs) = {}
  BY DEF At
<1> DEFINE W == At(pc, Ws)
           R == At(pc, Rs)
<1>3. CASE from \notin Ws \cup Rs /\ to \in Ws /\ q2 = Append(q, [task |-> t, mode |-> "write"])
  <2>1. At(pc', Ws) = W \cup {t} /\ At(pc', Rs) = R /\ t \notin W \cup R
    BY <1>1, <1>3
  <2> HIDE DEF W, R
  <2>2. Holds(q2, IF "write" = "write" THEN W \cup {t} ELSE W,
                  IF "write" = "read" THEN R \cup {t} ELSE R)
    BY <1>3, <2>1, Asked DEF W, R
  <2> QED BY <2>1, <2>2
<1>4. CASE from \notin Ws \cup Rs /\ to \in Rs /\ q2 = Append(q, [task |-> t, mode |-> "read"])
  <2>1. At(pc', Ws) = W /\ At(pc', Rs) = R \cup {t} /\ t \notin W \cup R
    BY <1>1, <1>4
  <2> HIDE DEF W, R
  <2>2. Holds(q2, IF "read" = "write" THEN W \cup {t} ELSE W,
                  IF "read" = "read" THEN R \cup {t} ELSE R)
    BY <1>4, <2>1, Asked DEF W, R
  <2> QED BY <2>1, <2>2
<1>5. CASE to \notin Ws \cup Rs /\ q # <<>> /\ Head(q).task = t /\ q2 = Tail(q)
  <2>1. At(pc', Ws) = W \ {t} /\ At(pc', Rs) = R \ {t}
    BY <1>1, <1>5
  <2>2. Holds(q2, W \ {t}, R \ {t})
    BY <1>2, <1>5, Granted
  <2> QED BY <2>1, <2>2
<1>6. CASE from \notin Ws \cup Rs /\ to \notin Ws \cup Rs /\ q2 = q
  <2>1. At(pc', Ws) = W /\ At(pc', Rs) = R
    BY <1>1, <1>6
  <2> QED BY <1>6, <2>1
<1> QED BY <1>3, <1>4, <1>5, <1>6

LEMMA QueuesMatchInit == Init => QueuesMatch
<1> SUFFICES ASSUME Init PROVE QueuesMatch
  OBVIOUS
<1>1. \A S : "idle" \notin S => At(pc, S) = {}
  BY DEF Init, At
<1>2. roomsQueue = <<>> /\ roomQueue = <<>>
  BY DEF Init, Rooms!Init, Room!Init
<1>3. "idle" \notin RoomsW \cup RoomsR \cup RoomW \cup RoomR
  BY DEF RoomsW, RoomsR, RoomW, RoomR
<1> QED BY <1>1, <1>2, <1>3, HoldsNothing DEF QueuesMatch, WaitsForRooms, WaitsForRoom

\* Every step keeps the queues and the program counters in step.
LEMMA QueuesMatchNext == IInv /\ QueuesMatch /\ [Next]_vars => QueuesMatch'
<1> SUFFICES ASSUME IInv, QueuesMatch, [Next]_vars
             PROVE  QueuesMatch'
  OBVIOUS
<1>1. /\ TypeOK
      /\ roomsQueue \in Seq(Rooms!Request) /\ roomQueue \in Seq(Rooms!Request)
      /\ Holds(roomsQueue, At(pc, RoomsW), At(pc, RoomsR))
      /\ Holds(roomQueue, At(pc, RoomW), At(pc, RoomR))
  BY DEF IInv, TypeOK, Rooms!TypeOK, Room!TypeOK, Rooms!Request, Room!Request,
         QueuesMatch, WaitsForRooms, WaitsForRoom
<1>2. RoomsW \cap RoomsR = {} /\ RoomW \cap RoomR = {}
  BY DEF RoomsW, RoomsR, RoomW, RoomR
<1>3. ASSUME NEW t \in Tasks, StartJoin(t) PROVE QueuesMatch'
  <2>1. /\ Goto(t, "idle", "join1")
        /\ roomsQueue' = Append(roomsQueue, [task |-> t, mode |-> "write"])
        /\ roomQueue' = roomQueue
    BY <1>3 DEF StartJoin, Goto, roomLock, Rooms!Ask
  <2>2. /\ "idle" \notin RoomsW \cup RoomsR /\ "join1" \in RoomsW
        /\ "idle" \notin RoomW \cup RoomR /\ "join1" \notin RoomW \cup RoomR
    BY DEF RoomsW, RoomsR, RoomW, RoomR
  <2>3. Holds(roomsQueue', At(pc', RoomsW), At(pc', RoomsR))
    BY <1>1, <1>2, <2>1, <2>2, QueueStep
  <2>4. Holds(roomQueue', At(pc', RoomW), At(pc', RoomR))
    BY <1>1, <1>2, <2>1, <2>2, QueueStep
  <2> QED BY <2>3, <2>4 DEF QueuesMatch, WaitsForRooms, WaitsForRoom
<1>4. ASSUME NEW t \in Tasks, JoinRooms(t) PROVE QueuesMatch'
  <2>1. /\ Goto(t, "join1", "join2")
        /\ roomsQueue # <<>> /\ Head(roomsQueue).task = t /\ roomsQueue' = Tail(roomsQueue)
        /\ roomQueue' = Append(roomQueue, [task |-> t, mode |-> "write"])
    BY <1>4 DEF JoinRooms, Goto, Rooms!GrantWrite, Rooms!MayWrite, Rooms!HeadIs, Room!Ask
  <2>2. /\ "join1" \in RoomsW /\ "join2" \notin RoomsW \cup RoomsR
        /\ "join1" \notin RoomW \cup RoomR /\ "join2" \in RoomW
    BY DEF RoomsW, RoomsR, RoomW, RoomR
  <2>3. Holds(roomsQueue', At(pc', RoomsW), At(pc', RoomsR))
    BY <1>1, <1>2, <2>1, <2>2, QueueStep
  <2>4. Holds(roomQueue', At(pc', RoomW), At(pc', RoomR))
    BY <1>1, <1>2, <2>1, <2>2, QueueStep
  <2> QED BY <2>3, <2>4 DEF QueuesMatch, WaitsForRooms, WaitsForRoom
<1>5. ASSUME NEW t \in Tasks, JoinRoom(t) PROVE QueuesMatch'
  <2>1. /\ Goto(t, "join2", "list")
        /\ roomsQueue' = roomsQueue
        /\ roomQueue # <<>> /\ Head(roomQueue).task = t /\ roomQueue' = Tail(roomQueue)
    BY <1>5 DEF JoinRoom, Goto, Rooms!Release, Room!PassWrite, Room!MayWrite, Room!HeadIs
  <2>2. /\ "join2" \notin RoomsW \cup RoomsR /\ "list" \notin RoomsW \cup RoomsR
        /\ "join2" \in RoomW /\ "list" \notin RoomW \cup RoomR
    BY DEF RoomsW, RoomsR, RoomW, RoomR
  <2>3. Holds(roomsQueue', At(pc', RoomsW), At(pc', RoomsR))
    BY <1>1, <1>2, <2>1, <2>2, QueueStep
  <2>4. Holds(roomQueue', At(pc', RoomW), At(pc', RoomR))
    BY <1>1, <1>2, <2>1, <2>2, QueueStep
  <2> QED BY <2>3, <2>4 DEF QueuesMatch, WaitsForRooms, WaitsForRoom
<1>6. ASSUME NEW t \in Tasks, AbortJoin(t) PROVE QueuesMatch'
  <2>1. /\ Goto(t, "list", "out")
        /\ roomsQueue' = roomsQueue
        /\ roomQueue' = roomQueue
    BY <1>6 DEF AbortJoin, Goto, roomsLock, roomLock
  <2>2. /\ "list" \notin RoomsW \cup RoomsR /\ "out" \notin RoomsW \cup RoomsR
        /\ "list" \notin RoomW \cup RoomR /\ "out" \notin RoomW \cup RoomR
    BY DEF RoomsW, RoomsR, RoomW, RoomR
  <2>3. Holds(roomsQueue', At(pc', RoomsW), At(pc', RoomsR))
    BY <1>1, <1>2, <2>1, <2>2, QueueStep
  <2>4. Holds(roomQueue', At(pc', RoomW), At(pc', RoomR))
    BY <1>1, <1>2, <2>1, <2>2, QueueStep
  <2> QED BY <2>3, <2>4 DEF QueuesMatch, WaitsForRooms, WaitsForRoom
<1>7. ASSUME NEW t \in Tasks, RelayControl(t) PROVE QueuesMatch'
  <2>1. /\ Goto(t, "in", "cast1")
        /\ roomsQueue' = Append(roomsQueue, [task |-> t, mode |-> "read"])
        /\ roomQueue' = roomQueue
    BY <1>7 DEF RelayControl, StartCast, Goto, roomLock, Rooms!Ask
  <2>2. /\ "in" \notin RoomsW \cup RoomsR /\ "cast1" \in RoomsR
        /\ "in" \notin RoomW \cup RoomR /\ "cast1" \notin RoomW \cup RoomR
    BY DEF RoomsW, RoomsR, RoomW, RoomR
  <2>3. Holds(roomsQueue', At(pc', RoomsW), At(pc', RoomsR))
    BY <1>1, <1>2, <2>1, <2>2, QueueStep
  <2>4. Holds(roomQueue', At(pc', RoomW), At(pc', RoomR))
    BY <1>1, <1>2, <2>1, <2>2, QueueStep
  <2> QED BY <2>3, <2>4 DEF QueuesMatch, WaitsForRooms, WaitsForRoom
<1>8. ASSUME NEW t \in Tasks, ForwardDatagram(t) PROVE QueuesMatch'
  <2>1. /\ Goto(t, "in", "cast1")
        /\ roomsQueue' = Append(roomsQueue, [task |-> t, mode |-> "read"])
        /\ roomQueue' = roomQueue
    BY <1>8 DEF ForwardDatagram, StartCast, Goto, roomLock, Rooms!Ask
  <2>2. /\ "in" \notin RoomsW \cup RoomsR /\ "cast1" \in RoomsR
        /\ "in" \notin RoomW \cup RoomR /\ "cast1" \notin RoomW \cup RoomR
    BY DEF RoomsW, RoomsR, RoomW, RoomR
  <2>3. Holds(roomsQueue', At(pc', RoomsW), At(pc', RoomsR))
    BY <1>1, <1>2, <2>1, <2>2, QueueStep
  <2>4. Holds(roomQueue', At(pc', RoomW), At(pc', RoomR))
    BY <1>1, <1>2, <2>1, <2>2, QueueStep
  <2> QED BY <2>3, <2>4 DEF QueuesMatch, WaitsForRooms, WaitsForRoom
<1>9. ASSUME NEW t \in Tasks, ForwarderEnds(t) PROVE QueuesMatch'
  <2>1. /\ Goto(t, "in", "out")
        /\ roomsQueue' = roomsQueue
        /\ roomQueue' = roomQueue
    BY <1>9 DEF ForwarderEnds, Goto, roomsLock, roomLock
  <2>2. /\ "in" \notin RoomsW \cup RoomsR /\ "out" \notin RoomsW \cup RoomsR
        /\ "in" \notin RoomW \cup RoomR /\ "out" \notin RoomW \cup RoomR
    BY DEF RoomsW, RoomsR, RoomW, RoomR
  <2>3. Holds(roomsQueue', At(pc', RoomsW), At(pc', RoomsR))
    BY <1>1, <1>2, <2>1, <2>2, QueueStep
  <2>4. Holds(roomQueue', At(pc', RoomW), At(pc', RoomR))
    BY <1>1, <1>2, <2>1, <2>2, QueueStep
  <2> QED BY <2>3, <2>4 DEF QueuesMatch, WaitsForRooms, WaitsForRoom
<1>10. ASSUME NEW t \in Tasks, CastRooms(t) PROVE QueuesMatch'
  <2>1. /\ Goto(t, "cast1", "cast2")
        /\ roomsQueue # <<>> /\ Head(roomsQueue).task = t /\ roomsQueue' = Tail(roomsQueue)
        /\ roomQueue' = Append(roomQueue, [task |-> t, mode |-> "read"])
    BY <1>10 DEF CastRooms, Goto, Rooms!GrantRead, Rooms!MayRead, Rooms!HeadIs, Room!Ask
  <2>2. /\ "cast1" \in RoomsR /\ "cast2" \notin RoomsW \cup RoomsR
        /\ "cast1" \notin RoomW \cup RoomR /\ "cast2" \in RoomR
    BY DEF RoomsW, RoomsR, RoomW, RoomR
  <2>3. Holds(roomsQueue', At(pc', RoomsW), At(pc', RoomsR))
    BY <1>1, <1>2, <2>1, <2>2, QueueStep
  <2>4. Holds(roomQueue', At(pc', RoomW), At(pc', RoomR))
    BY <1>1, <1>2, <2>1, <2>2, QueueStep
  <2> QED BY <2>3, <2>4 DEF QueuesMatch, WaitsForRooms, WaitsForRoom
<1>11. ASSUME NEW t \in Tasks, CastRoom(t) PROVE QueuesMatch'
  <2>1. /\ Goto(t, "cast2", "casting")
        /\ roomsQueue' = roomsQueue
        /\ roomQueue # <<>> /\ Head(roomQueue).task = t /\ roomQueue' = Tail(roomQueue)
    BY <1>11 DEF CastRoom, Goto, roomsLock, Room!GrantRead, Room!MayRead, Room!HeadIs
  <2>2. /\ "cast2" \notin RoomsW \cup RoomsR /\ "casting" \notin RoomsW \cup RoomsR
        /\ "cast2" \in RoomR /\ "casting" \notin RoomW \cup RoomR
    BY DEF RoomsW, RoomsR, RoomW, RoomR
  <2>3. Holds(roomsQueue', At(pc', RoomsW), At(pc', RoomsR))
    BY <1>1, <1>2, <2>1, <2>2, QueueStep
  <2>4. Holds(roomQueue', At(pc', RoomW), At(pc', RoomR))
    BY <1>1, <1>2, <2>1, <2>2, QueueStep
  <2> QED BY <2>3, <2>4 DEF QueuesMatch, WaitsForRooms, WaitsForRoom
<1>12. ASSUME NEW t \in Tasks, StartLeave(t) PROVE QueuesMatch'
  <2>1. /\ Goto(t, "in", "leave1")
        /\ roomsQueue' = Append(roomsQueue, [task |-> t, mode |-> "read"])
        /\ roomQueue' = roomQueue
    BY <1>12 DEF StartLeave, Goto, roomLock, Rooms!Ask
  <2>2. /\ "in" \notin RoomsW \cup RoomsR /\ "leave1" \in RoomsR
        /\ "in" \notin RoomW \cup RoomR /\ "leave1" \notin RoomW \cup RoomR
    BY DEF RoomsW, RoomsR, RoomW, RoomR
  <2>3. Holds(roomsQueue', At(pc', RoomsW), At(pc', RoomsR))
    BY <1>1, <1>2, <2>1, <2>2, QueueStep
  <2>4. Holds(roomQueue', At(pc', RoomW), At(pc', RoomR))
    BY <1>1, <1>2, <2>1, <2>2, QueueStep
  <2> QED BY <2>3, <2>4 DEF QueuesMatch, WaitsForRooms, WaitsForRoom
<1>13. ASSUME NEW t \in Tasks, LeaveRooms(t) PROVE QueuesMatch'
  <2>1. /\ Goto(t, "leave1", "leave2")
        /\ roomsQueue # <<>> /\ Head(roomsQueue).task = t /\ roomsQueue' = Tail(roomsQueue)
        /\ roomQueue' = Append(roomQueue, [task |-> t, mode |-> "write"])
    BY <1>13 DEF LeaveRooms, Goto, Rooms!GrantRead, Rooms!MayRead, Rooms!HeadIs, Room!Ask
  <2>2. /\ "leave1" \in RoomsR /\ "leave2" \notin RoomsW \cup RoomsR
        /\ "leave1" \notin RoomW \cup RoomR /\ "leave2" \in RoomW
    BY DEF RoomsW, RoomsR, RoomW, RoomR
  <2>3. Holds(roomsQueue', At(pc', RoomsW), At(pc', RoomsR))
    BY <1>1, <1>2, <2>1, <2>2, QueueStep
  <2>4. Holds(roomQueue', At(pc', RoomW), At(pc', RoomR))
    BY <1>1, <1>2, <2>1, <2>2, QueueStep
  <2> QED BY <2>3, <2>4 DEF QueuesMatch, WaitsForRooms, WaitsForRoom
<1>14. ASSUME NEW t \in Tasks, LeaveRoom(t) PROVE QueuesMatch'
  <2>1. /\ Goto(t, "leave2", "bye1")
        /\ roomsQueue' = Append(roomsQueue, [task |-> t, mode |-> "read"])
        /\ roomQueue # <<>> /\ Head(roomQueue).task = t /\ roomQueue' = Tail(roomQueue)
    BY <1>14 DEF LeaveRoom, Goto, Rooms!Ask, Room!PassWrite, Room!MayWrite, Room!HeadIs
  <2>2. /\ "leave2" \notin RoomsW \cup RoomsR /\ "bye1" \in RoomsR
        /\ "leave2" \in RoomW /\ "bye1" \notin RoomW \cup RoomR
    BY DEF RoomsW, RoomsR, RoomW, RoomR
  <2>3. Holds(roomsQueue', At(pc', RoomsW), At(pc', RoomsR))
    BY <1>1, <1>2, <2>1, <2>2, QueueStep
  <2>4. Holds(roomQueue', At(pc', RoomW), At(pc', RoomR))
    BY <1>1, <1>2, <2>1, <2>2, QueueStep
  <2> QED BY <2>3, <2>4 DEF QueuesMatch, WaitsForRooms, WaitsForRoom
<1>15. ASSUME NEW t \in Tasks, ByeRooms(t) PROVE QueuesMatch'
  <2>1. /\ Goto(t, "bye1", "bye2")
        /\ roomsQueue # <<>> /\ Head(roomsQueue).task = t /\ roomsQueue' = Tail(roomsQueue)
        /\ roomQueue' = Append(roomQueue, [task |-> t, mode |-> "read"])
    BY <1>15 DEF ByeRooms, Goto, Rooms!GrantRead, Rooms!MayRead, Rooms!HeadIs, Room!Ask
  <2>2. /\ "bye1" \in RoomsR /\ "bye2" \notin RoomsW \cup RoomsR
        /\ "bye1" \notin RoomW \cup RoomR /\ "bye2" \in RoomR
    BY DEF RoomsW, RoomsR, RoomW, RoomR
  <2>3. Holds(roomsQueue', At(pc', RoomsW), At(pc', RoomsR))
    BY <1>1, <1>2, <2>1, <2>2, QueueStep
  <2>4. Holds(roomQueue', At(pc', RoomW), At(pc', RoomR))
    BY <1>1, <1>2, <2>1, <2>2, QueueStep
  <2> QED BY <2>3, <2>4 DEF QueuesMatch, WaitsForRooms, WaitsForRoom
<1>16. ASSUME NEW t \in Tasks, ByeRoom(t) PROVE QueuesMatch'
  <2>1. /\ Goto(t, "bye2", "byeing")
        /\ roomsQueue' = roomsQueue
        /\ roomQueue # <<>> /\ Head(roomQueue).task = t /\ roomQueue' = Tail(roomQueue)
    BY <1>16 DEF ByeRoom, Goto, roomsLock, Room!GrantRead, Room!MayRead, Room!HeadIs
  <2>2. /\ "bye2" \notin RoomsW \cup RoomsR /\ "byeing" \notin RoomsW \cup RoomsR
        /\ "bye2" \in RoomR /\ "byeing" \notin RoomW \cup RoomR
    BY DEF RoomsW, RoomsR, RoomW, RoomR
  <2>3. Holds(roomsQueue', At(pc', RoomsW), At(pc', RoomsR))
    BY <1>1, <1>2, <2>1, <2>2, QueueStep
  <2>4. Holds(roomQueue', At(pc', RoomW), At(pc', RoomR))
    BY <1>1, <1>2, <2>1, <2>2, QueueStep
  <2> QED BY <2>3, <2>4 DEF QueuesMatch, WaitsForRooms, WaitsForRoom
<1>17. ASSUME NEW t \in Tasks, EndBye(t) PROVE QueuesMatch'
  <2>1. /\ Goto(t, "byeing", "out")
        /\ roomsQueue' = roomsQueue
        /\ roomQueue' = roomQueue
    BY <1>17 DEF EndBye, Goto, Rooms!Release, Room!Release
  <2>2. /\ "byeing" \notin RoomsW \cup RoomsR /\ "out" \notin RoomsW \cup RoomsR
        /\ "byeing" \notin RoomW \cup RoomR /\ "out" \notin RoomW \cup RoomR
    BY DEF RoomsW, RoomsR, RoomW, RoomR
  <2>3. Holds(roomsQueue', At(pc', RoomsW), At(pc', RoomsR))
    BY <1>1, <1>2, <2>1, <2>2, QueueStep
  <2>4. Holds(roomQueue', At(pc', RoomW), At(pc', RoomR))
    BY <1>1, <1>2, <2>1, <2>2, QueueStep
  <2> QED BY <2>3, <2>4 DEF QueuesMatch, WaitsForRooms, WaitsForRoom
<1>18. ASSUME NEW t \in Tasks, EndCast(t) PROVE QueuesMatch'
  <2>1. roomsQueue' = roomsQueue /\ roomQueue' = roomQueue
    BY <1>18 DEF EndCast, Rooms!Release, Room!Release
  <2>2. \A S : S \cap {"casting", "idle", "in"} = {} => At(pc', S) = At(pc, S)
    BY <1>18 DEF EndCast, GoOn, At
  <2>3. \A S \in {RoomsW, RoomsR, RoomW, RoomR} : S \cap {"casting", "idle", "in"} = {}
    BY DEF RoomsW, RoomsR, RoomW, RoomR
  <2> QED BY <1>1, <2>1, <2>2, <2>3 DEF QueuesMatch, WaitsForRooms, WaitsForRoom
<1>19. ASSUME NEW t \in Tasks, ConnectionEnds(t) PROVE QueuesMatch'
  BY <1>19 DEF ConnectionEnds, roomsLock, roomLock, At, QueuesMatch, WaitsForRooms, WaitsForRoom
<1>20. ASSUME NEW t \in Tasks, ListSent(t) PROVE QueuesMatch'
  <2>1. /\ Goto(t, "list", "cast1")
        /\ roomsQueue' = Append(roomsQueue, [task |-> t, mode |-> "read"])
        /\ roomQueue' = roomQueue
    BY <1>20 DEF ListSent, Goto, roomLock, Rooms!Ask
  <2>2. /\ "list" \notin RoomsW \cup RoomsR /\ "cast1" \in RoomsR
        /\ "list" \notin RoomW \cup RoomR /\ "cast1" \notin RoomW \cup RoomR
    BY DEF RoomsW, RoomsR, RoomW, RoomR
  <2>3. Holds(roomsQueue', At(pc', RoomsW), At(pc', RoomsR))
    BY <1>1, <1>2, <2>1, <2>2, QueueStep
  <2>4. Holds(roomQueue', At(pc', RoomW), At(pc', RoomR))
    BY <1>1, <1>2, <2>1, <2>2, QueueStep
  <2> QED BY <2>3, <2>4 DEF QueuesMatch, WaitsForRooms, WaitsForRoom
<1>21. CASE UNCHANGED vars
  BY <1>21 DEF vars, roomsLock, roomLock, At, QueuesMatch, WaitsForRooms, WaitsForRoom
<1> QED
  BY <1>3, <1>4, <1>5, <1>6, <1>7, <1>8, <1>9, <1>10, <1>11,
     <1>12, <1>13, <1>14, <1>15, <1>16, <1>17, <1>18, <1>19, <1>20, <1>21
     DEF Next, Proceed, LockGranted, Written

\* A task is in the queue of exactly the lock its program counter waits for,
\* once and with the right mode, and in no other.
THEOREM QueuesAlwaysMatch == Spec => []QueuesMatch
BY Invariant, QueuesMatchInit, QueuesMatchNext, PTL DEF Spec

\* A request waits in the queue, so the queue is not empty.
LEMMA HeadOfQueue ==
    ASSUME NEW q \in Seq(Rooms!Request), NEW W, NEW R, Holds(q, W, R)
    PROVE  /\ W \cup R # {} => q # <<>>
           /\ q # <<>> => \/ Head(q) = [task |-> Head(q).task, mode |-> "write"]
                             /\ Head(q).task \in W
                          \/ Head(q) = [task |-> Head(q).task, mode |-> "read"]
                             /\ Head(q).task \in R
<1>1. W \cup R # {} => q # <<>>
  BY DEF Holds
<1>2. ASSUME q # <<>>
      PROVE  Head(q) = q[1] /\ 1 \in DOMAIN q /\ Head(q) \in Rooms!Request
  BY <1>2
<1>3. \A r \in Rooms!Request : r = [task |-> r.task, mode |-> r.mode]
  BY DEF Rooms!Request
<1> QED BY <1>1, <1>2, <1>3 DEF Holds

\* If the server comes to a standstill with an operation begun, a departing task
\* waits for its second guard of `rooms` behind a joining one.  Nobody can hold
\* the lock of a room in such a state, so nobody waits for it; then everyone
\* waits for `rooms`, and the first in line can only be a writer.
LEMMA StuckByRecursiveRead == IInv /\ QueuesMatch => StuckOnlyByRecursiveRead
<1> SUFFICES ASSUME IInv, QueuesMatch, NEW b \in Tasks, Busy(b),
                    \A t \in Tasks : ~CanProceed(t)
             PROVE  RecursiveRead
  BY DEF StuckOnlyByRecursiveRead
<1>1. /\ pc \in [Tasks -> {"idle", "join1", "join2", "list", "in", "cast1", "cast2",
                            "casting", "leave1", "leave2", "bye1", "bye2", "byeing", "out"}]
      /\ roomsQueue \in Seq(Rooms!Request) /\ roomQueue \in Seq(Rooms!Request)
      /\ roomsWriter \subseteq Tasks /\ roomWriter \subseteq Tasks
  BY DEF IInv, TypeOK, Rooms!TypeOK, Room!TypeOK, Rooms!Request, Room!Request
<1>2. \A t \in Tasks : pc[t] \notin {"list", "casting", "byeing"}
  BY DEF CanProceed
<1>3. roomWriter = {} /\ \A t \in Tasks : roomReads[t] = 0
  BY <1>1, <1>2 DEF IInv, GuardsMatch
<1>4. roomQueue = <<>>
  <2> SUFFICES ASSUME roomQueue # <<>> PROVE FALSE
    OBVIOUS
  <2> DEFINE h == Head(roomQueue).task
  <2>1. \/ Head(roomQueue) = [task |-> h, mode |-> "write"] /\ h \in At(pc, RoomW)
        \/ Head(roomQueue) = [task |-> h, mode |-> "read"] /\ h \in At(pc, RoomR)
    BY <1>1, HeadOfQueue DEF QueuesMatch, WaitsForRoom
  <2> HIDE DEF h
  <2>2. h \in Tasks /\ CanProceed(h)
    BY <1>3, <2>1 DEF At, RoomW, RoomR, CanProceed, Room!MayRead, Room!MayWrite, Room!HeadIs
  <2> QED BY <2>2
<1>5. \A t \in Tasks : pc[t] \notin {"join2", "leave2", "cast2", "bye2"}
  <2>1. At(pc, RoomW) \cup At(pc, RoomR) = {}
    BY <1>1, <1>4, HeadOfQueue DEF QueuesMatch, WaitsForRoom
  <2> QED BY <2>1 DEF At, RoomW, RoomR
<1>6. roomsWriter = {}
  BY <1>1, <1>5 DEF IInv, GuardsMatch
<1>7. roomsQueue # <<>>
  <2>1. pc[b] \in {"join1", "cast1", "leave1", "bye1"}
    BY <1>1, <1>2, <1>5 DEF Busy
  <2>2. b \in At(pc, RoomsW) \cup At(pc, RoomsR)
    BY <2>1 DEF At, RoomsW, RoomsR
  <2> QED BY <1>1, <2>2, HeadOfQueue DEF QueuesMatch, WaitsForRooms
<1> DEFINE d == Head(roomsQueue).task
<1>8. \/ Head(roomsQueue) = [task |-> d, mode |-> "write"] /\ d \in At(pc, RoomsW)
      \/ Head(roomsQueue) = [task |-> d, mode |-> "read"] /\ d \in At(pc, RoomsR)
  BY <1>1, <1>7, HeadOfQueue DEF QueuesMatch, WaitsForRooms
<1> HIDE DEF d
<1>9. Head(roomsQueue) = [task |-> d, mode |-> "write"] /\ d \in Tasks /\ pc[d] = "join1"
  BY <1>6, <1>7, <1>8 DEF At, RoomsW, RoomsR, CanProceed, Rooms!MayRead, Rooms!HeadIs
<1>10. PICK c \in Tasks : roomsReads[c] # 0
  BY <1>6, <1>7, <1>9 DEF CanProceed, Rooms!MayWrite, Rooms!HeadIs
<1>11. pc[c] = "bye1" /\ roomsReads[c] = 1
  BY <1>1, <1>2, <1>5, <1>10 DEF IInv, GuardsMatch
<1>12. c \in Conns /\ d \in Conns
  BY <1>9, <1>11 DEF IInv, ForwardersRead, Tasks
<1> QED BY <1>7, <1>9, <1>11, <1>12 DEF RecursiveRead, Rooms!HeadIs

\* So it is in every reachable state.
THEOREM StuckForOneReasonOnly == Spec => []StuckOnlyByRecursiveRead
BY StuckByRecursiveRead, Invariant, QueuesAlwaysMatch, PTL

=============================================================================
