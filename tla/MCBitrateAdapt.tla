--------------------------- MODULE MCBitrateAdapt ---------------------------
(* BitrateAdapt with few bitrates and a short channel. *)
EXTENDS BitrateAdapt

=============================================================================
