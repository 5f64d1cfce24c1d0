---------------------------- MODULE MCLocalDeque ----------------------------
(***************************************************************************)
(* LocalDeque for TLC.                                                     *)
(***************************************************************************)
EXTENDS LocalDeque

CONSTANTS p1, p2
=============================================================================
