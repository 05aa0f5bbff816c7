------------------------------ MODULE MCClasses ------------------------------
(***************************************************************************)
(* Three classes with three names for fields and two for methods.            *)
(***************************************************************************)
EXTENDS Classes, TLC

CONSTANTS A, B, C, x, y, z, Am, An, Bm, Bn, Cm, Cn

Row == <<A, B, C>>

\* Any field name is as good as another.
AnyField == Permutations(FieldName)

Mangle ==
  [cm \in VarName \X Method |->
     LET row == IF cm[1] = A THEN <<Am, An>> ELSE IF cm[1] = B THEN <<Bm, Bn>>
                ELSE <<Cm, Cn>>
     IN  IF cm[2] = "m" THEN row[1] ELSE row[2]]
=============================================================================
