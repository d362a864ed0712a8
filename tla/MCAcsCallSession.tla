-------------------------- MODULE MCAcsCallSession --------------------------
(* One call: AcsCallSession with all its parts for TLC. *)
EXTENDS AcsCallSession
=============================================================================
