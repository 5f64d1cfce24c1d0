---------------------------- MODULE MCMainThread ----------------------------
(***************************************************************************)
(* MainThread for TLC.                                                     *)
(***************************************************************************)
EXTENDS MainThread

CONSTANTS o1
=============================================================================
