-------------------------- MODULE MCSensorSession ---------------------------
(***************************************************************************)
(* SensorSession with the bounds of session.cfg: local and remote, up to   *)
(* two chunks, three packets of any kinds.                                 *)
(***************************************************************************)
EXTENDS SensorSession
=============================================================================
