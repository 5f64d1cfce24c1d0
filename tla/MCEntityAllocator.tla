------------------------- MODULE MCEntityAllocator -------------------------
(***************************************************************************)
(* EntityAllocator with threads as model values.                           *)
(***************************************************************************)
EXTENDS EntityAllocator

CONSTANTS l1, l2, r1, r2
=============================================================================
