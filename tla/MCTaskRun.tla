----------------------------- MODULE MCTaskRun -----------------------------
(***************************************************************************)
(* A small instance of TaskRun for TLC.                                    *)
(***************************************************************************)
EXTENDS TaskRun
=============================================================================
