------------------------------- MODULE MCTypes -------------------------------
(***************************************************************************)
(* One builtin type, of which a class may take the name, another class, and*)
(* the names that their classes bring.                                     *)
(***************************************************************************)
EXTENDS Types

CONSTANTS int, a, this_int, this_a, array

Names == {int, a, this_int, this_a, array}
Classes == {int, a}
ThisOf == [c \in Classes |-> IF c = int THEN this_int ELSE this_a]
=============================================================================
