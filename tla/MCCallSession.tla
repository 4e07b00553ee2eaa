--------------------------- MODULE MCCallSession ---------------------------
(* CallSession with a few calls. *)
EXTENDS CallSession

=============================================================================
