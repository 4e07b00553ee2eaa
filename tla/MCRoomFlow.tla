---------------------------- MODULE MCRoomFlow ----------------------------
(* RoomFlow with interchangeable connections and no datagrams. *)
EXTENDS RoomFlow, TLC

NoForwarder == <<>>

Symmetry == Permutations(Conns)

\* Bound: a report is sent or a connection ends; TLC does not go on from a state
\* where both have happened.
OneDisturbance == reports + Cardinality(closed) <= 1

=============================================================================
