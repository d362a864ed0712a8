------------------------- MODULE MCResponseWatchdog -------------------------
(* One call's responses: ResponseWatchdog for TLC. *)
EXTENDS ResponseWatchdog
=============================================================================
