------------------------------ MODULE TextWalk ------------------------------
(***************************************************************************)
(* What the walk of the code generator promises (ScopeWalk shows how): a   *)
(* text is read, file by file, and each file is walked once it is whole.   *)
(* Who reads is in some place at each element; who walks carries a single  *)
(* place in mind, and is, before each element, where it was read.  Only    *)
(* having passed an element that keeps its place hidden loses the way.     *)
(***************************************************************************)
EXTENDS Integers, Sequences

CONSTANTS
  Place,   \* where one can be
  Start    \* the place in which every file begins and ends

VARIABLES
  text,    \* the elements read so far
  done,    \* how many of them have been walked
  place    \* where the walk is

walkVars == <<text, done, place>>

\* ends: the element that this one ends; final: the end of a file.
Element == [at : Place, hidden : BOOLEAN, ends : Nat, final : BOOLEAN]

Lost(k) == \E j \in 1 .. k : text[j].hidden
Whole == text # << >> /\ text[Len(text)].final

WalkInit == text = << >> /\ done = 0 /\ place = Start

\* One more element.  What was read of this file is not walked yet, or it is the first.
ReadOne ==
  /\ done = Len(text) \/ ~Whole
  /\ Len(text') = Len(text) + 1
  /\ \A j \in 1 .. Len(text) : text'[j] = text[j]
  /\ text'[Len(text) + 1] \in Element
  /\ done = Len(text) => text'[Len(text) + 1].at = Start
  /\ UNCHANGED <<done, place>>

\* The walk passes one element, or all from one to the element that ends it.
PassTo(n) ==
  /\ Whole
  /\ n = done + 1 \/ text[n].ends = done + 1
  /\ done' = n
  /\ place' \in Place
  /\ n = Len(text) => place' = Start
  /\ n < Len(text) /\ ~Lost(n) => place' = text[n + 1].at
  /\ UNCHANGED text

\* Who is lost goes astray.
Stray ==
  /\ Whole /\ Lost(done) /\ done < Len(text)
  /\ place' \in Place
  /\ UNCHANGED <<text, done>>

WalkNext == ReadOne \/ (\E n \in done + 1 .. Len(text) : PassTo(n)) \/ Stray

WalkSpec == WalkInit /\ [][WalkNext]_walkVars
=============================================================================
