---------------------------- MODULE MCUiPeerList ----------------------------
(* UiPeerList with small sets of interchangeable peers and calls. *)
EXTENDS UiPeerList, TLC

Symmetry == Permutations(Peers) \cup Permutations(Calls)

=============================================================================
