------------------------------ MODULE MCDriver ------------------------------
(***************************************************************************)
(* Command lines of a few files for Driver.                                *)
(***************************************************************************)
EXTENDS Driver

CONSTANTS a, b, c
=============================================================================
