--------------------------- MODULE MCHostEvents ---------------------------
(***************************************************************************)
(* Small instances of HostEvents for TLC.                                  *)
(***************************************************************************)
EXTENDS HostEvents
=============================================================================
