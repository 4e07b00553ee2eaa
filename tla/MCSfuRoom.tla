----------------------------- MODULE MCSfuRoom -----------------------------
(* SfuRoom with a small set of interchangeable sessions. *)
EXTENDS SfuRoom, TLC

Symmetry == Permutations(Peers)

=============================================================================
