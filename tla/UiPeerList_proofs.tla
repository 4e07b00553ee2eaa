------------------------- MODULE UiPeerList_proofs -------------------------
(***************************************************************************)
(* Proofs about UiPeerList: its states are well typed, and the list shows  *)
(* the peers of the call but for those it may be unsure of, for any number *)
(* of calls and peers and any delay of answers, listeners and events.      *)
(***************************************************************************)
EXTENDS UiPeerList, Naturals, TLAPS

----------------------------------------------------------------------------
(* Types *)

\* The two events.
LEMMA EventTypes ==
    ASSUME NEW p \in Peers
    PROVE  /\ Joined(p) \in Event /\ Left(p) \in Event
           /\ Joined(p).type = "joined" /\ Joined(p).peer = p
           /\ Left(p).type = "left" /\ Left(p).peer = p
BY DEF Event, Joined, Left

\* What an event does to what is on its way.
LEMMA EmitType ==
    ASSUME TypeOK, NEW c \in Calls, NEW e \in Event, Emit(c, e)
    PROVE  events' \in Seq(Event) /\ unsure' \in SUBSET Peers
<1>1. e.peer \in Peers
  BY DEF Event
<1>2. events' \in Seq(Event)
  BY DEF TypeOK, Emit
<1>3. unsure' = unsure \/ unsure' = unsure \ {e.peer} \/ unsure' = unsure \cup {e.peer}
  BY DEF Emit
<1> QED BY <1>1, <1>2, <1>3 DEF TypeOK

\* What every variable but the answer ranges over.
Rest ==
    /\ loop \in [Calls -> {"none", "run", "ended"}]
    /\ told \in [Calls -> [Peers -> {"nothing", "joined", "left"}]]
    /\ known \in [Calls -> SUBSET Peers]
    /\ doing \in [Calls -> Event \cup {Nothing}]
    /\ starting \in Calls \cup {None}
    /\ session \in Calls \cup {None}
    /\ shown \in Calls \cup {None}
    /\ hears \in SUBSET {"joined", "left"}
    /\ events \in Seq(Event)
    /\ peers \in SUBSET Peers
    /\ unsure \in SUBSET Peers

Answers == {Asked, Applied} \cup {OnItsWay(S) : S \in SUBSET Peers}

\* A list that goes takes all there was of it along, and without one none appears.
LEMMA NothingKeptNext == ASSUME TypeOK, [Next]_vars PROVE NothingKept'
BY NoneAssumption DEF TypeOK, NothingKept, Next, vars, backend, frontend, Join, Start, EmitJoined,
   AddPeer, RemovePeer, EmitLeft, Emit, LoopEnds, EndCall, Mount, Listening, GetPeers, SetPeers,
   HandleEvent, Unmount

\* Every step keeps the types.
LEMMA TypedNext == ASSUME TypeOK, [Next]_vars PROVE TypeOK'
<1>r. Rest
  BY DEF TypeOK, Rest
<1>a. answer \in Answers
  BY DEF TypeOK, Answers
<1>b. Asked \in Answers /\ Applied \in Answers /\ \A S \in SUBSET Peers : OnItsWay(S) \in Answers
  BY DEF Answers
<1> SUFFICES Rest' /\ answer' \in Answers
  BY NothingKeptNext DEF TypeOK, Rest, Answers
<1>c. ASSUME UNCHANGED answer PROVE answer' \in Answers
  BY <1>a, <1>c
<1> USE <1>r, <1>a, <1>b, <1>c DEF Rest, backend, frontend
<1>1. ASSUME NEW c \in Calls, NEW S \in SUBSET Peers, Join(c, S)
      PROVE  Rest' /\ answer' \in Answers
  BY <1>1 DEF Join
<1>2. CASE Start
  BY <1>2 DEF Start
<1>3. ASSUME NEW c \in Calls, NEW p \in Peers, EmitJoined(c, p)
      PROVE  Rest' /\ answer' \in Answers
  BY <1>3, EmitType, EventTypes DEF EmitJoined
<1>4. ASSUME NEW c \in Calls, NEW p \in Peers, AddPeer(c, p)
      PROVE  Rest' /\ answer' \in Answers
  BY <1>4 DEF AddPeer
<1>5. ASSUME NEW c \in Calls, NEW p \in Peers, RemovePeer(c, p)
      PROVE  Rest' /\ answer' \in Answers
  BY <1>5, EventTypes DEF RemovePeer
<1>6. ASSUME NEW c \in Calls, NEW p \in Peers, EmitLeft(c, p)
      PROVE  Rest' /\ answer' \in Answers
  BY <1>6, EmitType, EventTypes DEF EmitLeft
<1>7. ASSUME NEW c \in Calls, LoopEnds(c) PROVE Rest' /\ answer' \in Answers
  BY <1>7 DEF LoopEnds
<1>8. CASE EndCall
  BY <1>8 DEF EndCall
<1>9. CASE Mount
  BY <1>9 DEF Mount
<1>10. ASSUME NEW type \in {"joined", "left"}, Listening(type)
       PROVE  Rest' /\ answer' \in Answers
  BY <1>10 DEF Listening
<1>11. CASE GetPeers
  <2>1. (IF session = None THEN {} ELSE known[session]) \in SUBSET Peers
    OBVIOUS
  <2>2. answer' = OnItsWay(IF session = None THEN {} ELSE known[session])
    BY <1>11 DEF GetPeers
  <2>3. answer' \in Answers
    BY <2>1, <2>2, Zenon DEF Answers
  <2> QED BY <1>11, <2>3 DEF GetPeers
<1>12. CASE SetPeers
  <2>1. PICK S \in SUBSET Peers : answer = OnItsWay(S)
    BY <1>12 DEF SetPeers, Answers, Asked, Applied
  <2>2. peers' = S
    BY <1>12, <2>1 DEF SetPeers, OnItsWay
  <2> QED BY <1>12, <2>2 DEF SetPeers
<1>13. CASE HandleEvent
  <2>1. Head(events) \in Event /\ Tail(events) \in Seq(Event)
    BY <1>13 DEF HandleEvent
  <2>2. Head(events).peer \in Peers
    BY <2>1 DEF Event
  <2>3. Applying(Head(events), peers) \in SUBSET Peers
    BY <2>2 DEF Applying
  <2> QED BY <1>13, <2>1, <2>3 DEF HandleEvent
<1>14. CASE Unmount
  BY <1>14 DEF Unmount
<1>15. CASE UNCHANGED vars
  BY <1>15 DEF vars
<1> QED
  BY <1>1, <1>2, <1>3, <1>4, <1>5, <1>6, <1>7, <1>8, <1>9, <1>10, <1>11, <1>12, <1>13,
     <1>14, <1>15 DEF Next

\* Whatever the order of answers, listeners and events, the list is a set of
\* peers, the answer is the one that was asked for, and nothing outlives a list.
THEOREM Typed == Spec => []TypeOK
<1>1. Init => TypeOK
  <2> SUFFICES ASSUME Init PROVE TypeOK
    OBVIOUS
  <2>1. answer \in {Asked, Applied} \cup {OnItsWay(S) : S \in SUBSET Peers}
    BY DEF Init
  <2> QED BY <2>1 DEF Init, TypeOK, NothingKept
<1> QED BY <1>1, TypedNext, PTL DEF Spec

----------------------------------------------------------------------------
(* The inductive invariant *)

\* A control loop adds a peer after its event and removes it before.
LoopFits(c) ==
    /\ loop[c] = "none" => doing[c] = Nothing
    /\ \A p \in Peers :
        /\ doing[c] = Joined(p) => told[c][p] = "joined"
        /\ doing[c] = Left(p) => told[c][p] = "left"
        /\ doing[c] # Joined(p) => (p \in known[c] <=> told[c][p] = "joined")
LoopsFit == \A c \in Calls : LoopFits(c)

\* The list that is mounted is the session's, until end_call has taken that.
OneCallAtATime ==
    /\ shown # None => starting = None /\ session \in {shown, None}
    /\ starting # None => session = None

\* The server has told the call of p, and not that it has left.
Here(p) == told[shown][p] = "joined"

NoneWaits(p)   == \A i \in 1 .. Len(events) : events[i].peer # p
IsLastOf(i, p) == events[i].peer = p /\ \A j \in i + 1 .. Len(events) : events[j].peer # p

\* The list is right about p, or the last event about it that waits is.
Listed(p) ==
    /\ NoneWaits(p) => (p \in peers <=> Here(p))
    /\ \A i \in 1 .. Len(events) : IsLastOf(i, p) => (events[i].type = "joined" <=> Here(p))

\* What holds of a peer the list is sure of: until the list is warm no event
\* about it waits, and unless its departure is about to be emitted the answer
\* under way, or else the list, is right.
PeerFits(p) ==
    /\ ~Warm => doing[shown] # Joined(p) /\ NoneWaits(p)
    /\ session # None /\ doing[shown] # Left(p) =>
        /\ \A S \in SUBSET Peers : answer = OnItsWay(S) => (p \in S <=> Here(p))
        /\ answer = Applied => Listed(p)
ListFits == shown # None => \A p \in Peers \ unsure : PeerFits(p)

ListInv == LoopsFit /\ OneCallAtATime /\ ListFits

----------------------------------------------------------------------------
(* It is preserved by every step *)

\* Only the control loop of a call touches its RoomState.
LEMMA LoopsFitNext == ASSUME TypeOK, LoopsFit, [Next]_vars PROVE LoopsFit'
<1>t. /\ loop \in [Calls -> {"none", "run", "ended"}]
      /\ told \in [Calls -> [Peers -> {"nothing", "joined", "left"}]]
      /\ known \in [Calls -> SUBSET Peers] /\ doing \in [Calls -> Event \cup {Nothing}]
  BY DEF TypeOK
<1>e. \A p, q \in Peers :
         /\ Joined(p) # Nothing /\ Left(p) # Nothing /\ Joined(p) # Left(q)
         /\ (Joined(p) = Joined(q) => p = q) /\ (Left(p) = Left(q) => p = q)
  BY DEF Joined, Left, Nothing
<1> SUFFICES ASSUME NEW c \in Calls PROVE LoopFits(c)'
  BY DEF LoopsFit
<1>f. LoopFits(c)
  BY DEF LoopsFit
<1>o. ASSUME UNCHANGED <<loop[c], told[c], known[c], doing[c]>> PROVE LoopFits(c)'
  BY <1>f, <1>o DEF LoopFits
<1>1. ASSUME NEW S \in SUBSET Peers, Join(c, S) PROVE LoopFits(c)'
  <2>1. /\ loop'[c] = "run" /\ doing'[c] = Nothing /\ known'[c] = S
        /\ told'[c] = [p \in Peers |-> IF p \in S THEN "joined" ELSE "nothing"]
    BY <1>1, <1>t, <1>f DEF Join, LoopFits
  <2> QED BY <2>1, <1>e DEF LoopFits
<1>2. ASSUME NEW q \in Peers, EmitJoined(c, q) PROVE LoopFits(c)'
  <2>1. /\ loop'[c] = "run" /\ doing'[c] = Joined(q) /\ known'[c] = known[c]
        /\ told'[c] = [told[c] EXCEPT ![q] = "joined"] /\ doing[c] = Nothing
    BY <1>2, <1>t DEF EmitJoined
  <2> QED BY <2>1, <1>t, <1>e, <1>f DEF LoopFits
<1>3. ASSUME NEW q \in Peers, AddPeer(c, q) PROVE LoopFits(c)'
  <2>1. /\ loop'[c] = loop[c] /\ doing'[c] = Nothing /\ known'[c] = known[c] \cup {q}
        /\ told'[c] = told[c] /\ doing[c] = Joined(q)
    BY <1>3, <1>t DEF AddPeer
  <2> QED BY <2>1, <1>t, <1>e, <1>f DEF LoopFits
<1>4. ASSUME NEW q \in Peers, RemovePeer(c, q) PROVE LoopFits(c)'
  <2>1. /\ loop'[c] = "run" /\ doing'[c] = Left(q) /\ known'[c] = known[c] \ {q}
        /\ told'[c] = [told[c] EXCEPT ![q] = "left"] /\ doing[c] = Nothing
    BY <1>4, <1>t DEF RemovePeer
  <2> QED BY <2>1, <1>t, <1>e, <1>f DEF LoopFits
<1>5. ASSUME NEW q \in Peers, EmitLeft(c, q) PROVE LoopFits(c)'
  <2>1. /\ loop'[c] = loop[c] /\ doing'[c] = Nothing /\ known'[c] = known[c]
        /\ told'[c] = told[c] /\ doing[c] = Left(q)
    BY <1>5, <1>t DEF EmitLeft
  <2> QED BY <2>1, <1>t, <1>e, <1>f DEF LoopFits
<1>6. CASE LoopEnds(c)
  <2>1. /\ loop'[c] = "ended" /\ UNCHANGED <<told[c], known[c], doing[c]>>
    BY <1>6, <1>t DEF LoopEnds
  <2> QED BY <2>1, <1>f DEF LoopFits
<1>7. ASSUME NEW d \in Calls, d # c,
             \/ LoopEnds(d) \/ \E S \in SUBSET Peers : Join(d, S)
             \/ \E q \in Peers : EmitJoined(d, q) \/ AddPeer(d, q) \/ RemovePeer(d, q)
                                 \/ EmitLeft(d, q)
      PROVE  LoopFits(c)'
  <2>1. UNCHANGED <<loop[c], told[c], known[c], doing[c]>>
    BY <1>7, <1>t DEF LoopEnds, Join, EmitJoined, AddPeer, RemovePeer, EmitLeft
  <2> QED BY <2>1, <1>o
<1>8. CASE UNCHANGED <<loop, told, known, doing>>
  BY <1>8, <1>o
<1> QED
  BY <1>1, <1>2, <1>3, <1>4, <1>5, <1>6, <1>7, <1>8 DEF Next, vars, backend, Start, EndCall,
     Mount, GetPeers, SetPeers, HandleEvent, Unmount, Listening

\* A list is mounted for a session, and no call starts before it is gone.
LEMMA OneCallNext == ASSUME TypeOK, OneCallAtATime, [Next]_vars PROVE OneCallAtATime'
BY NoneAssumption DEF TypeOK, OneCallAtATime, Next, vars, backend, frontend, Join, Start,
   EmitJoined, AddPeer, RemovePeer, EmitLeft, LoopEnds, EndCall, Mount, Listening, GetPeers,
   SetPeers, HandleEvent, Unmount

\* What waits after an event has been written,
LEMMA WaitsAfterEmit ==
    ASSUME events \in Seq(Event), NEW e \in Event, events' = Append(events, e), NEW p \in Peers
    PROVE  /\ e.peer # p => /\ NoneWaits(p)' <=> NoneWaits(p)
                            /\ \A i \in 1 .. Len(events') : IsLastOf(i, p)' =>
                                  i \in 1 .. Len(events) /\ events'[i] = events[i] /\ IsLastOf(i, p)
           /\ e.peer = p => /\ ~NoneWaits(p)'
                            /\ \A i \in 1 .. Len(events') : IsLastOf(i, p)' => events'[i] = e
<1>1. /\ Len(events) \in Nat /\ Len(events') = Len(events) + 1 /\ events'[Len(events) + 1] = e
      /\ \A i \in 1 .. Len(events) : events'[i] = events[i]
  OBVIOUS
<1>2. ASSUME e.peer # p
      PROVE  /\ NoneWaits(p)' <=> NoneWaits(p)
             /\ \A i \in 1 .. Len(events') : IsLastOf(i, p)' =>
                   i \in 1 .. Len(events) /\ events'[i] = events[i] /\ IsLastOf(i, p)
  <2>1. \A i \in 1 .. Len(events') : i \in 1 .. Len(events) \/ events'[i] = e
    BY <1>1
  <2>2. NoneWaits(p)' <=> NoneWaits(p)
    BY <1>1, <1>2, <2>1 DEF NoneWaits
  <2>3. ASSUME NEW i \in 1 .. Len(events'), IsLastOf(i, p)'
        PROVE  i \in 1 .. Len(events) /\ events'[i] = events[i] /\ IsLastOf(i, p)
    <3>1. i \in 1 .. Len(events) /\ events'[i] = events[i]
      BY <1>1, <1>2, <2>1, <2>3 DEF IsLastOf
    <3>2. ASSUME NEW j \in i + 1 .. Len(events) PROVE events[j].peer # p
      <4>1. j \in i + 1 .. Len(events') /\ events'[j] = events[j]
        BY <1>1, <3>1
      <4> QED BY <4>1, <2>3 DEF IsLastOf
    <3> QED BY <2>3, <3>1, <3>2 DEF IsLastOf
  <2> QED BY <2>2, <2>3
<1>3. ASSUME e.peer = p
      PROVE  /\ ~NoneWaits(p)'
             /\ \A i \in 1 .. Len(events') : IsLastOf(i, p)' => events'[i] = e
  <2>1. ~NoneWaits(p)'
    BY <1>1, <1>3 DEF NoneWaits
  <2>2. ASSUME NEW i \in 1 .. Len(events'), IsLastOf(i, p)' PROVE events'[i] = e
    <3>1. Len(events') \notin i + 1 .. Len(events')
      BY <1>1, <1>3, <2>2 DEF IsLastOf
    <3>2. i = Len(events')
      BY <1>1, <3>1
    <3> QED BY <1>1, <3>2
  <2> QED BY <2>1, <2>2
<1> QED BY <1>2, <1>3

\* and after one has been handled.
LEMMA WaitsAfterHandling ==
    ASSUME events \in Seq(Event), events # <<>>, events' = Tail(events), NEW p \in Peers
    PROVE  /\ Head(events) \in Event
           /\ NoneWaits(p) => NoneWaits(p)' /\ Head(events).peer # p
           /\ NoneWaits(p)' =>
                 \/ NoneWaits(p)
                 \/ 1 \in 1 .. Len(events) /\ events[1] = Head(events) /\ IsLastOf(1, p)
           /\ \A i \in 1 .. Len(events') : IsLastOf(i, p)' =>
                 i + 1 \in 1 .. Len(events) /\ events[i + 1] = events'[i] /\ IsLastOf(i + 1, p)
<1>1. /\ Len(events) \in Nat /\ Len(events') = Len(events) - 1 /\ 1 \in 1 .. Len(events)
      /\ Head(events) = events[1] /\ Head(events) \in Event
      /\ \A i \in 1 .. Len(events') : i + 1 \in 1 .. Len(events) /\ events'[i] = events[i + 1]
  OBVIOUS
<1>2. \A i \in 2 .. Len(events) : i - 1 \in 1 .. Len(events') /\ events'[i - 1] = events[i]
  BY <1>1
<1>3. NoneWaits(p) => NoneWaits(p)' /\ Head(events).peer # p
  BY <1>1 DEF NoneWaits
<1>4. ASSUME NoneWaits(p)', ~NoneWaits(p) PROVE IsLastOf(1, p)
  <2>1. \A i \in 2 .. Len(events) : events[i].peer # p
    BY <1>2, <1>4 DEF NoneWaits
  <2>2. events[1].peer = p
    BY <1>1, <1>4, <2>1 DEF NoneWaits
  <2> QED BY <2>1, <2>2 DEF IsLastOf
<1>5. ASSUME NEW i \in 1 .. Len(events'), IsLastOf(i, p)'
      PROVE  i + 1 \in 1 .. Len(events) /\ events[i + 1] = events'[i] /\ IsLastOf(i + 1, p)
  <2>1. i + 1 \in 1 .. Len(events) /\ events[i + 1] = events'[i]
    BY <1>1
  <2>2. ASSUME NEW j \in (i + 1) + 1 .. Len(events) PROVE events[j].peer # p
    <3>1. j - 1 \in i + 1 .. Len(events') /\ events'[j - 1] = events[j]
      BY <1>1, <1>2, <2>2
    <3> QED BY <3>1, <1>5 DEF IsLastOf
  <2> QED BY <2>1, <2>2, <1>5 DEF IsLastOf
<1> QED BY <1>1, <1>3, <1>4, <1>5

\* An event about p into the warm list makes it right; one into a cold list, or
\* of another call, makes it unsure; one about another peer changes nothing.
LEMMA EmitFits ==
    ASSUME TypeOK, shown # None, NEW p \in Peers, p \notin unsure', p \notin unsure => PeerFits(p),
           NEW c \in Calls, NEW e \in Event, Emit(c, e),
           UNCHANGED <<shown, session, hears, answer, peers>>,
           c = shown /\ e.peer = p =>
              (doing'[shown] # Left(p) => (told'[shown][p] = "joined" <=> e.type = "joined")),
           ~(c = shown /\ e.peer = p) =>
              /\ told'[shown][p] = told[shown][p]
              /\ doing'[shown] = Joined(p) => doing[shown] = Joined(p)
              /\ doing[shown] = Left(p) => doing'[shown] = Left(p)
    PROVE  PeerFits(p)'
<1>t. events \in Seq(Event) /\ e.type \in {"joined", "left"}
  BY DEF TypeOK, Event
<1>w. Warm' <=> Warm
  BY DEF Warm
<1>1. CASE c = shown /\ e.peer = p
  <2>1. Warm
    BY <1>1 DEF Emit
  <2>2. events' = Append(events, e)
    BY <2>1, <1>t DEF Emit, Warm
  <2>3. doing'[shown] # Left(p) => Listed(p)'
    BY <1>1, <2>2, <1>t, WaitsAfterEmit DEF Listed, Here
  <2>4. \A S \in SUBSET Peers : answer # OnItsWay(S)
    BY <2>1 DEF Warm, Applied, OnItsWay
  <2> QED BY <1>w, <2>1, <2>3, <2>4 DEF PeerFits
<1>2. CASE ~(c = shown /\ e.peer = p)
  <2>1. PeerFits(p) /\ (e.peer = p => events' = events)
    BY <1>2 DEF Emit
  <2>2. Here(p)' <=> Here(p)
    BY <1>2 DEF Here
  <2>3. NoneWaits(p)' <=> NoneWaits(p)
    BY <2>1, <1>t, WaitsAfterEmit DEF Emit, NoneWaits
  <2>4. Listed(p) => Listed(p)'
    <3>1. CASE events' = events
      BY <3>1, <2>2, <2>3 DEF Listed, IsLastOf
    <3>2. CASE events' = Append(events, e) /\ e.peer # p
      <4>1. ASSUME NEW i \in 1 .. Len(events'), IsLastOf(i, p)'
            PROVE  i \in 1 .. Len(events) /\ events'[i] = events[i] /\ IsLastOf(i, p)
        BY <4>1, <3>2, <1>t, WaitsAfterEmit
      <4> QED BY <4>1, <2>2, <2>3 DEF Listed
    <3> QED BY <3>1, <3>2, <2>1 DEF Emit
  <2> QED BY <1>2, <1>w, <2>1, <2>2, <2>3, <2>4 DEF PeerFits
<1> QED BY <1>1, <1>2

\* Every step keeps the list right about whom it is sure of.
LEMMA ListFitsNext == ASSUME TypeOK, ListInv, [Next]_vars PROVE ListFits'
<1> SUFFICES ASSUME shown' # None, NEW p \in Peers, p \notin unsure' PROVE PeerFits(p)'
  <2>1. unsure' \in SUBSET Peers
    BY TypedNext DEF TypeOK
  <2> QED BY DEF ListFits
<1>t. /\ loop \in [Calls -> {"none", "run", "ended"}]
      /\ told \in [Calls -> [Peers -> {"nothing", "joined", "left"}]]
      /\ known \in [Calls -> SUBSET Peers] /\ doing \in [Calls -> Event \cup {Nothing}]
      /\ shown \in Calls \cup {None} /\ session \in Calls \cup {None} /\ events \in Seq(Event)
  BY DEF TypeOK
<1>e. \A q, r \in Peers :
         /\ Joined(q) # Nothing /\ Left(q) # Nothing /\ Joined(q) # Left(r)
         /\ (Joined(q) = Joined(r) => q = r) /\ (Left(q) = Left(r) => q = r)
  BY DEF Joined, Left, Nothing
<1>1. CASE Mount
  <2>1. /\ events' = <<>> /\ answer' = Asked /\ shown' = session /\ doing' = doing
        /\ doing[session] # Joined(p)
    BY <1>1 DEF Mount, backend
  <2>2. answer' # Applied /\ \A S \in SUBSET Peers : answer' # OnItsWay(S)
    BY <2>1 DEF Asked, Applied, OnItsWay
  <2> QED BY <2>1, <2>2 DEF PeerFits, NoneWaits
<1>2. CASE ~Mount
  <2>s. shown \in Calls /\ shown' = shown /\ starting = None /\ session \in {shown, None}
    <3>1. shown # None
      BY <1>2, <1>t DEF Next, vars, backend, frontend, Join, Start, EmitJoined, AddPeer,
         RemovePeer, EmitLeft, LoopEnds, EndCall, Listening, GetPeers, SetPeers, HandleEvent, Unmount
    <3>2. starting = None /\ session \in {shown, None}
      BY <3>1 DEF ListInv, OneCallAtATime
    <3>3. shown' = shown
      BY <3>2, <1>2, <1>t DEF Next, vars, backend, frontend, Join, Start, EmitJoined, AddPeer,
         RemovePeer, EmitLeft, LoopEnds, EndCall, Listening, GetPeers, SetPeers, HandleEvent, Unmount
    <3> QED BY <1>t, <3>1, <3>2, <3>3
  <2>p. p \notin unsure => PeerFits(p)
    BY <2>s, NoneAssumption DEF ListInv, ListFits
  <2>n. shown # None
    BY <2>s, NoneAssumption
  <2>u. ASSUME UNCHANGED <<shown, hears, events, answer, peers, unsure>>,
               session' \in {session, None}, UNCHANGED <<told[shown][p], doing[shown]>>
        PROVE  PeerFits(p)'
    BY <2>p, <2>u DEF PeerFits, Warm, NoneWaits, Listed, IsLastOf, Here
  <2>3. ASSUME NEW c \in Calls, NEW q \in Peers, EmitJoined(c, q) PROVE PeerFits(p)'
    <3>1. /\ Emit(c, Joined(q)) /\ UNCHANGED <<shown, session, hears, answer, peers>>
          /\ told' = [told EXCEPT ![c][q] = "joined"] /\ doing[c] = Nothing
          /\ doing' = [doing EXCEPT ![c] = Joined(q)]
      BY <2>3 DEF EmitJoined
    <3>2. ASSUME c = shown, q = p PROVE told'[shown][p] = "joined"
      BY <3>1, <3>2, <1>t
    <3>3. ASSUME ~(c = shown /\ q = p)
          PROVE  /\ told'[shown][p] = told[shown][p]
                 /\ doing'[shown] = Joined(p) => doing[shown] = Joined(p)
                 /\ doing[shown] = Left(p) => doing'[shown] = Left(p)
      BY <3>1, <3>3, <1>t, <1>e, <2>s
    <3>4. Joined(q) \in Event /\ Joined(q).type = "joined" /\ Joined(q).peer = q
      BY EventTypes
    <3> QED BY <3>1, <3>2, <3>3, <3>4, <2>p, <2>n, EmitFits
  <2>4. ASSUME NEW c \in Calls, NEW q \in Peers, EmitLeft(c, q) PROVE PeerFits(p)'
    <3>1. /\ Emit(c, Left(q)) /\ UNCHANGED <<shown, session, hears, answer, peers>>
          /\ told' = told /\ doing[c] = Left(q) /\ doing' = [doing EXCEPT ![c] = Nothing]
      BY <2>4 DEF EmitLeft
    <3>2. ASSUME c = shown, q = p PROVE told'[shown][p] # "joined"
      BY <3>1, <3>2 DEF ListInv, LoopsFit, LoopFits
    <3>3. ASSUME ~(c = shown /\ q = p)
          PROVE  /\ told'[shown][p] = told[shown][p]
                 /\ doing'[shown] = Joined(p) => doing[shown] = Joined(p)
                 /\ doing[shown] = Left(p) => doing'[shown] = Left(p)
      BY <3>1, <3>3, <1>t, <1>e, <2>s
    <3>4. Left(q) \in Event /\ Left(q).type = "left" /\ Left(q).peer = q
      BY EventTypes
    <3> QED BY <3>1, <3>2, <3>3, <3>4, <2>p, <2>n, EmitFits
  <2>5. ASSUME NEW c \in Calls, NEW q \in Peers, AddPeer(c, q) PROVE PeerFits(p)'
    <3>1. /\ UNCHANGED <<shown, session, hears, events, answer, peers, unsure, told>>
          /\ doing[c] = Joined(q) /\ doing' = [doing EXCEPT ![c] = Nothing]
      BY <2>5 DEF AddPeer, frontend
    <3>2. /\ doing'[shown] = Joined(p) => doing[shown] = Joined(p)
          /\ doing[shown] = Left(p) => doing'[shown] = Left(p)
      BY <3>1, <1>t, <1>e, <2>s
    <3> QED BY <3>1, <3>2, <2>p DEF PeerFits, Warm, NoneWaits, Listed, IsLastOf, Here
  <2>6. ASSUME NEW c \in Calls, NEW q \in Peers, RemovePeer(c, q) PROVE PeerFits(p)'
    <3>1. /\ UNCHANGED <<shown, session, hears, events, answer, peers, unsure>>
          /\ told' = [told EXCEPT ![c][q] = "left"]
          /\ doing[c] = Nothing /\ doing' = [doing EXCEPT ![c] = Left(q)]
      BY <2>6 DEF RemovePeer, frontend
    <3>2. CASE c = shown /\ q = p
      <4>1. doing'[shown] = Left(p)
        BY <3>1, <3>2, <1>t
      <4> QED BY <3>1, <4>1, <1>e, <2>p DEF PeerFits, Warm, NoneWaits
    <3>3. CASE ~(c = shown /\ q = p)
      <4>1. /\ told'[shown][p] = told[shown][p]
            /\ doing'[shown] = Joined(p) => doing[shown] = Joined(p)
            /\ doing[shown] = Left(p) => doing'[shown] = Left(p)
        BY <3>1, <3>3, <1>t, <1>e, <2>s
      <4> QED BY <3>1, <4>1, <2>p DEF PeerFits, Warm, NoneWaits, Listed, IsLastOf, Here
    <3> QED BY <3>2, <3>3
  <2>7. ASSUME NEW type \in {"joined", "left"}, Listening(type) PROVE PeerFits(p)'
    <3>1. /\ UNCHANGED <<shown, session, events, answer, peers, unsure, told, doing>>
          /\ hears \subseteq hears'
      BY <2>7 DEF Listening, backend
    <3>2. Warm => Warm'
      BY <3>1, TypedNext DEF Warm, TypeOK
    <3> QED BY <3>1, <3>2, <2>p DEF PeerFits, NoneWaits, Listed, IsLastOf, Here
  <2>8. CASE GetPeers
    <3>1. /\ UNCHANGED <<shown, session, hears, events, peers, unsure, told, doing>>
          /\ answer = Asked
          /\ answer' = OnItsWay(IF session = None THEN {} ELSE known[session])
      BY <2>8 DEF GetPeers, backend
    <3>2. ~Warm
      BY <3>1 DEF Warm, Asked, Applied
    <3>3. doing[shown] # Joined(p) /\ NoneWaits(p)
      BY <3>1, <3>2, <2>p DEF PeerFits
    <3>4. ASSUME session # None PROVE p \in known[session] <=> Here(p)
      <4>1. session = shown /\ LoopFits(shown)
        BY <3>4, <2>s DEF ListInv, LoopsFit
      <4> QED BY <4>1, <3>3 DEF LoopFits, Here
    <3>5. answer' # Applied
      BY <3>1 DEF OnItsWay, Applied
    <3>6. \A S \in SUBSET Peers : answer' = OnItsWay(S) /\ session # None => S = known[session]
      BY <3>1 DEF OnItsWay
    <3> QED BY <3>1, <3>3, <3>4, <3>5, <3>6 DEF PeerFits, NoneWaits, Here
  <2>9. CASE SetPeers
    <3>1. /\ UNCHANGED <<shown, session, hears, events, unsure, told, doing>>
          /\ answer.at = "onItsWay" /\ peers' = answer.peers /\ answer' = Applied
      BY <2>9 DEF SetPeers, backend
    <3>2. PICK S \in SUBSET Peers : answer = OnItsWay(S)
      BY <3>1 DEF TypeOK, Asked, Applied
    <3>3. peers' = S /\ ~Warm
      BY <3>1, <3>2 DEF OnItsWay, Warm, Applied
    <3>4. NoneWaits(p) /\ doing[shown] # Joined(p)
      BY <3>1, <3>3, <2>p DEF PeerFits
    <3>5. session # None /\ doing[shown] # Left(p) => (p \in peers' <=> Here(p))
      BY <3>1, <3>2, <3>3, <2>p DEF PeerFits
    <3>6. \A R \in SUBSET Peers : answer' # OnItsWay(R)
      BY <3>1 DEF OnItsWay, Applied
    <3> QED BY <3>1, <3>4, <3>5, <3>6 DEF PeerFits, Listed, NoneWaits, IsLastOf, Here
  <2>10. CASE HandleEvent
    <3>1. /\ UNCHANGED <<shown, session, hears, answer, unsure, told, doing>>
          /\ events # <<>> /\ events' = Tail(events) /\ peers' = Applying(Head(events), peers)
      BY <2>10 DEF HandleEvent, backend
    <3>2. PeerFits(p)
      BY <3>1, <2>p
    <3>3. NoneWaits(p) => NoneWaits(p)'
      BY <3>1, <1>t, WaitsAfterHandling
    <3>4. ASSUME Listed(p) PROVE Listed(p)'
      <4>1. ASSUME NoneWaits(p)' PROVE p \in peers' <=> Here(p)
        <5>1. CASE NoneWaits(p)
          <6>1. Head(events).peer # p
            BY <5>1, <3>1, <1>t, WaitsAfterHandling
          <6>2. p \in peers' <=> p \in peers
            BY <6>1, <3>1 DEF Applying
          <6> QED BY <6>2, <5>1, <3>4 DEF Listed
        <5>2. CASE 1 \in 1 .. Len(events) /\ events[1] = Head(events) /\ IsLastOf(1, p)
          <6>1. Head(events).peer = p /\ (Head(events).type = "joined" <=> Here(p))
            BY <5>2, <3>4 DEF Listed, IsLastOf
          <6>2. p \in peers' <=> Head(events).type = "joined"
            BY <6>1, <3>1 DEF Applying
          <6> QED BY <6>1, <6>2
        <5> QED BY <4>1, <5>1, <5>2, <3>1, <1>t, WaitsAfterHandling
      <4>2. ASSUME NEW i \in 1 .. Len(events'), IsLastOf(i, p)'
            PROVE  events'[i].type = "joined" <=> Here(p)
        <5>1. i + 1 \in 1 .. Len(events) /\ events[i + 1] = events'[i] /\ IsLastOf(i + 1, p)
          BY <4>2, <3>1, <1>t, WaitsAfterHandling
        <5> QED BY <5>1, <3>4 DEF Listed
      <4>3. Here(p)' <=> Here(p)
        BY <3>1 DEF Here
      <4> QED BY <4>1, <4>2, <4>3 DEF Listed
    <3> QED BY <3>1, <3>2, <3>3, <3>4 DEF PeerFits, Warm, Here
  <2>11. ASSUME NEW c \in Calls, LoopEnds(c) PROVE PeerFits(p)'
    BY <2>11, <2>u DEF LoopEnds, frontend
  <2>12. CASE EndCall
    BY <2>12, <2>u DEF EndCall, frontend
  <2>13. CASE UNCHANGED vars
    BY <2>13, <2>u DEF vars, backend, frontend
  <2>14. ~Start /\ ~Unmount /\ ~\E c \in Calls, S \in SUBSET Peers : Join(c, S)
    BY <2>s, <2>n DEF Start, Unmount, Join
  <2> QED
    BY <1>2, <2>3, <2>4, <2>5, <2>6, <2>7, <2>8, <2>9, <2>10, <2>11, <2>12, <2>13, <2>14 DEF Next
<1> QED BY <1>1, <1>2

\* The list is as told, whatever overlaps.
THEOREM ListAlwaysFits == Spec => []ListInv
<1>1. Init => ListInv
  BY NoneAssumption DEF Init, ListInv, LoopsFit, LoopFits, OneCallAtATime, ListFits, Joined,
     Left, Nothing
<1>2. TypeOK /\ ListInv /\ [Next]_vars => ListInv'
  BY LoopsFitNext, OneCallNext, ListFitsNext DEF ListInv
<1> QED BY <1>1, <1>2, Typed, PTL DEF Spec

\* When nothing is under way the list shows the peers of the RoomState, but for
\* those whose last event came before the list was warm or from another call.
THEOREM ListIsAlwaysRight == Spec => []ListIsRight
<1>1. TypeOK /\ ListInv => ListIsRight
  <2> SUFFICES ASSUME TypeOK, ListInv, Settled, NEW p \in Peers \ unsure
               PROVE  p \in peers <=> p \in known[shown]
    BY DEF ListIsRight
  <2>1. /\ shown \in Calls /\ session # None /\ doing[shown] = Nothing /\ answer = Applied
        /\ NoneWaits(p)
    BY DEF Settled, Warm, TypeOK, NoneWaits
  <2>2. doing[shown] # Joined(p) /\ doing[shown] # Left(p)
    BY <2>1 DEF Nothing, Joined, Left
  <2>3. p \in peers <=> Here(p)
    BY <2>1, <2>2, NoneAssumption DEF ListInv, ListFits, PeerFits, Listed
  <2>4. p \in known[shown] <=> Here(p)
    BY <2>1, <2>2 DEF ListInv, LoopsFit, LoopFits, Here
  <2> QED BY <2>3, <2>4
<1> QED BY <1>1, Typed, ListAlwaysFits, PTL

=============================================================================
