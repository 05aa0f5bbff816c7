---------------------------- MODULE MCScopeWalk -----------------------------
(***************************************************************************)
(* Small programs for ScopeWalk: two names, which classes, functions, enums*)
(* and variables share, and the four method names <Class>_<method> that    *)
(* they make.                                                              *)
(***************************************************************************)
EXTENDS ScopeWalkInv

CONSTANTS x, f, xx, xf, fx, ff

Mangle == [cm \in VarName \X VarName |->
             IF cm[1] = x THEN IF cm[2] = x THEN xx ELSE xf
             ELSE IF cm[2] = x THEN fx ELSE ff]
=============================================================================
