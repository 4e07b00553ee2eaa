---------------------------- MODULE MCRoomsLock ----------------------------
(* RoomsLock with small sets of connections, one of which sends media (no
   symmetry: the runs check liveness). *)
EXTENDS RoomsLock, TLC

CONSTANTS c1, c2, c3, f1

OneSender == f1 :> c1

=============================================================================
