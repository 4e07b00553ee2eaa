---------------------------- MODULE RoomAccess ----------------------------
(***************************************************************************)
(* What the server's locking promises about Room.peers: joining is atomic  *)
(* and happens while nobody broadcasts and no departure is half announced; *)
(* leaving is atomic and happens while nobody broadcasts.  Module SfuRoom  *)
(* is built on these guards, module RoomsLock shows that the two locks     *)
(* provide them.                                                           *)
(***************************************************************************)
CONSTANTS Conns, Tasks

VARIABLES
    members,    \* Room.peers
    reading,    \* tasks that are going through Room.peers
    leaving     \* connections that are out of the room, departure not announced

vars == <<members, reading, leaving>>

Init == members = {} /\ reading = {} /\ leaving = {}

Join(c) ==
    /\ reading = {}
    /\ leaving = {}
    /\ members' = members \cup {c}
    /\ UNCHANGED <<reading, leaving>>

Leave(c) ==
    /\ reading = {}
    /\ c \in members
    /\ members' = members \ {c}
    /\ leaving' = leaving \cup {c}
    /\ UNCHANGED reading

BeginRead(t) ==
    /\ reading' = reading \cup {t}
    /\ UNCHANGED <<members, leaving>>

EndRead(t) ==
    /\ t \in reading
    /\ reading' = reading \ {t}
    /\ leaving' = leaving \ {t}
    /\ UNCHANGED members

Next ==
    \/ \E c \in Conns : Join(c) \/ Leave(c)
    \/ \E t \in Tasks : BeginRead(t) \/ EndRead(t)

Spec == Init /\ [][Next]_vars

=============================================================================
