---------------------------- MODULE MCTaskScope ----------------------------
(***************************************************************************)
(* TaskScope for TLC.                                                      *)
(***************************************************************************)
EXTENDS TaskScope
=============================================================================
