------------------------- MODULE MCReceiverReports -------------------------
(* ReceiverReports with two interchangeable peers. *)
EXTENDS ReceiverReports, TLC

Symmetry == Permutations(Senders)

=============================================================================
