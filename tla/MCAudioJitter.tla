--------------------------- MODULE MCAudioJitter ---------------------------
(* AudioJitter with the constants given in the configuration. *)
EXTENDS AudioJitter
=============================================================================
