--------------------------- MODULE MCVideoBuffer ---------------------------
(* VideoBuffer with a few short frames. *)
EXTENDS VideoBuffer

=============================================================================
