----------------------------- MODULE UiPeerList -----------------------------
(***************************************************************************)
(* The participant list of the desktop app.  PeerList.tsx, mounted while   *)
(* App.tsx shows a call, asks once for the peers (the command get_peers)   *)
(* and follows the events "peer-joined" and "peer-left", which             *)
(* HandleControlUseCase emits from another thread.  Neither the answer nor *)
(* the registration of the two listeners is ordered relative to the        *)
(* events, and an event does not say which call it belongs to: the control *)
(* loop of a call that failed to start, or that has just been left, keeps  *)
(* emitting into whatever list is mounted.                                 *)
(*                                                                         *)
(* The user waits for start_call and end_call to answer (module            *)
(* CallSession has the clicks that do not).                                *)
(***************************************************************************)
EXTENDS Sequences

CONSTANTS
    Calls,      \* invocations of start_call
    Peers,      \* sessions the server may tell a call of
    None        \* no call

ASSUME NoneAssumption == None \notin Calls

VARIABLES
    loop,       \* the control loop of each call
    told,       \* what the server has told each call of each peer
    known,      \* each call's RoomState
    doing,      \* the membership event a control loop is half through
    starting,   \* the call start_call is still building
    session,    \* AppState.session
    shown,      \* the call whose list is mounted (the UI knows no call; a history)
    hears,      \* events the mounted list has a listener for
    events,     \* events on their way to it, oldest first
    answer,     \* getPeers: not answered, on its way, or applied
    peers,      \* the component's state
    unsure      \* history: peers whose last event was not emitted into a warm list

backend  == <<loop, told, known, doing, starting, session>>
frontend == <<shown, hears, events, answer, peers>>
vars     == <<backend, frontend, unsure>>

Event        == [type : {"joined", "left"}, peer : Peers]
Joined(p)    == [type |-> "joined", peer |-> p]
Left(p)      == [type |-> "left", peer |-> p]
Nothing      == [type |-> "nothing"]

Asked        == [at |-> "asked"]
OnItsWay(S)  == [at |-> "onItsWay", peers |-> S]
Applied      == [at |-> "applied"]

\* While no list is mounted nobody listens, and nothing is kept of the last one.
NothingKept == shown = None => hears = {} /\ events = <<>> /\ peers = {} /\ answer = Applied

TypeOK ==
    /\ loop \in [Calls -> {"none", "run", "ended"}]
    /\ told \in [Calls -> [Peers -> {"nothing", "joined", "left"}]]
    /\ known \in [Calls -> SUBSET Peers]
    /\ doing \in [Calls -> Event \cup {Nothing}]
    /\ starting \in Calls \cup {None}
    /\ session \in Calls \cup {None}
    /\ shown \in Calls \cup {None}
    /\ hears \in SUBSET {"joined", "left"}
    /\ events \in Seq(Event)
    /\ answer \in {Asked, Applied} \cup {OnItsWay(S) : S \in SUBSET Peers}
    /\ peers \in SUBSET Peers
    /\ unsure \in SUBSET Peers
    /\ NothingKept

Init ==
    /\ loop = [c \in Calls |-> "none"]
    /\ told = [c \in Calls |-> [p \in Peers |-> "nothing"]]
    /\ known = [c \in Calls |-> {}]
    /\ doing = [c \in Calls |-> Nothing]
    /\ starting = None
    /\ session = None
    /\ shown = None
    /\ hears = {}
    /\ events = <<>>
    /\ answer = Applied
    /\ peers = {}
    /\ unsure = {}

\* From here on every event of the shown call is heard, and applied last.
Warm == hears = {"joined", "left"} /\ answer = Applied

----------------------------------------------------------------------------
(* The call in the background *)

\* JoinRoomUseCase::execute fills RoomState from the PeerList S, and the control
\* loop is spawned.  (Its peer-joined events find no list mounted.)
Join(c, S) ==
    /\ starting = None /\ session = None /\ shown = None
    /\ loop[c] = "none"
    /\ loop' = [loop EXCEPT ![c] = "run"]
    /\ told' = [told EXCEPT ![c] = [p \in Peers |-> IF p \in S THEN "joined" ELSE "nothing"]]
    /\ known' = [known EXCEPT ![c] = S]
    /\ starting' = c
    /\ UNCHANGED <<doing, session, frontend, unsure>>

\* start_call stores the session, or it fails on an audio device: the control
\* loop holds the transport, so the connection stays and the loop goes on.
Start ==
    /\ starting # None
    /\ session' \in {starting, None}
    /\ starting' = None
    /\ UNCHANGED <<loop, told, known, doing, frontend, unsure>>

\* app_handle.emit: the event goes to a list that has a listener for its type.
Emit(c, e) ==
    /\ events' = IF e.type \in hears THEN Append(events, e) ELSE events
    /\ unsure' = IF c = shown /\ Warm THEN unsure \ {e.peer}
                 ELSE IF c = shown \/ e.type \in hears THEN unsure \cup {e.peer}
                 ELSE unsure

\* HandleControlUseCase::handle, PeerJoined: emit, then add_peer.
EmitJoined(c, p) ==
    /\ loop[c] = "run"
    /\ doing[c] = Nothing
    /\ told[c][p] = "nothing"
    /\ told' = [told EXCEPT ![c][p] = "joined"]
    /\ Emit(c, Joined(p))
    /\ doing' = [doing EXCEPT ![c] = Joined(p)]
    /\ UNCHANGED <<loop, known, starting, session, shown, hears, answer, peers>>

AddPeer(c, p) ==
    /\ doing[c] = Joined(p)
    /\ known' = [known EXCEPT ![c] = @ \cup {p}]
    /\ doing' = [doing EXCEPT ![c] = Nothing]
    /\ UNCHANGED <<loop, told, starting, session, frontend, unsure>>

\* PeerLeft: remove_peer, then emit.
RemovePeer(c, p) ==
    /\ loop[c] = "run"
    /\ doing[c] = Nothing
    /\ told[c][p] = "joined"
    /\ told' = [told EXCEPT ![c][p] = "left"]
    /\ known' = [known EXCEPT ![c] = @ \ {p}]
    /\ doing' = [doing EXCEPT ![c] = Left(p)]
    /\ UNCHANGED <<loop, starting, session, frontend, unsure>>

EmitLeft(c, p) ==
    /\ doing[c] = Left(p)
    /\ Emit(c, Left(p))
    /\ doing' = [doing EXCEPT ![c] = Nothing]
    /\ UNCHANGED <<loop, told, known, starting, session, shown, hears, answer, peers>>

\* recv_control fails: the connection is closed (end_call) or lost, and what
\* had been received before has been handled.
LoopEnds(c) ==
    /\ loop[c] = "run"
    /\ doing[c] = Nothing
    /\ loop' = [loop EXCEPT ![c] = "ended"]
    /\ UNCHANGED <<told, known, doing, starting, session, frontend, unsure>>

\* end_call.
EndCall ==
    /\ session # None /\ shown = session
    /\ session' = None
    /\ UNCHANGED <<loop, told, known, doing, starting, frontend, unsure>>

----------------------------------------------------------------------------
(* The component *)

\* start_call has answered and App.tsx mounts a new list: its effects send
\* getPeers and start to listen.  A change the control loop is half through
\* may have been emitted already, and not yet be in the snapshot.
Mount ==
    /\ session # None /\ shown = None
    /\ shown' = session
    /\ hears' = {} /\ events' = <<>> /\ peers' = {}
    /\ answer' = Asked
    /\ unsure' = {p \in Peers : doing[session] = Joined(p)}
    /\ UNCHANGED backend

\* One of the two listen() calls has registered its listener.
Listening(type) ==
    /\ shown # None
    /\ type \in {"joined", "left"} \ hears
    /\ hears' = hears \cup {type}
    /\ UNCHANGED <<backend, shown, events, answer, peers, unsure>>

\* get_peers copies the RoomState of the session there is.
GetPeers ==
    /\ shown # None
    /\ answer = Asked
    /\ answer' = OnItsWay(IF session = None THEN {} ELSE known[session])
    /\ UNCHANGED <<backend, shown, hears, events, peers, unsure>>

\* The answer replaces the list, whatever events have made of it.
SetPeers ==
    /\ shown # None
    /\ answer.at = "onItsWay"
    /\ peers' = answer.peers
    /\ answer' = Applied
    /\ UNCHANGED <<backend, shown, hears, events, unsure>>

(* A faulty variant, to see the properties fail: the handler uses the list of the
   render it was created in. *)
Applying_StaleClosure(e, list) == IF e.type = "joined" THEN {e.peer} ELSE list \ {e.peer}

\* A peer that is listed already is not added again.
Applying(e, list) == IF e.type = "joined" THEN list \cup {e.peer} ELSE list \ {e.peer}

\* The handlers of the two events update the latest list.
HandleEvent ==
    /\ shown # None
    /\ events # <<>>
    /\ peers' = Applying(Head(events), peers)
    /\ events' = Tail(events)
    /\ UNCHANGED <<backend, shown, hears, answer, unsure>>

(* A faulty variant, to see the properties fail: the effect has no cleanup, the
   listeners outlive the list. *)
Unmount_KeepsListening ==
    /\ shown # None /\ session = None
    /\ shown' = None
    /\ events' = <<>> /\ peers' = {}
    /\ answer' = Applied
    /\ unsure' = {}
    /\ UNCHANGED <<backend, hears>>

\* end_call has answered: the list goes, with its listeners.
Unmount ==
    /\ shown # None /\ session = None
    /\ shown' = None
    /\ hears' = {} /\ events' = <<>> /\ peers' = {}
    /\ answer' = Applied
    /\ unsure' = {}
    /\ UNCHANGED backend

----------------------------------------------------------------------------
Next ==
    \/ \E c \in Calls :
        \/ \E S \in SUBSET Peers : Join(c, S)
        \/ LoopEnds(c)
        \/ \E p \in Peers :
            EmitJoined(c, p) \/ AddPeer(c, p) \/ RemovePeer(c, p) \/ EmitLeft(c, p)
    \/ Start \/ EndCall \/ Mount \/ GetPeers \/ SetPeers \/ HandleEvent \/ Unmount
    \/ \E type \in {"joined", "left"} : Listening(type)

Spec == Init /\ [][Next]_vars

----------------------------------------------------------------------------
(* Properties *)

\* Nothing is under way between the control loop of the shown call and its list.
Settled ==
    /\ shown # None /\ session = shown
    /\ doing[shown] = Nothing
    /\ events = <<>>
    /\ Warm

\* The list shows exactly the peers of the RoomState, except for peers whose
\* last event was emitted before the list was warm, or by the control loop of
\* another call.  Neither a listener, the answer nor an event that comes late
\* can spoil another entry, and the next event of the call into the warm list
\* puts a wrong entry right.
ListIsRight ==
    Settled => \A p \in Peers \ unsure : p \in peers <=> p \in known[shown]

=============================================================================
