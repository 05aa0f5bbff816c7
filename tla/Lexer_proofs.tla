---------------------------- MODULE Lexer_proofs ----------------------------
(***************************************************************************)
(* Lexer: whatever the text, of any length, the pointer stays within two   *)
(* characters of the NUL, what is converted to a number is a numeral, and  *)
(* the tokens are those of the rules, where they are expected to be.       *)
(***************************************************************************)
EXTENDS Lexer, TLAPS, WellFoundedInduction

Character == Char \cup {"end"}
State == {"start", "word", "number", "real", "string", "fail"}
LexedToken == [kind : TokenKind, chars : Seq(Character)]

\* Between two tokens nothing is gathered, unless START has skipped something.
Gathered ==
  /\ phase = "write" => state = "start" /\ token = << >>
  /\ NoOther /\ phase = "lex" /\ state = "start" => token = << >>

LInv == TypeOK /\ Gathered /\ NumeralsConvert

-----------------------------------------------------------------------------
(***************************************************************************)
(* Where the automaton looks.                                              *)
(***************************************************************************)

\* A set of naturals has a least element.
LEMMA LeastNatural ==
  ASSUME NEW T, T \subseteq Nat, T # {}
  PROVE  \E x \in T : \A y \in T : x <= y
<1> DEFINE R == {ss \in Nat \X Nat : ss[1] < ss[2]}
<1>1. R = OpToRel(<, Nat)
  BY DEF OpToRel
<1>2. IsWellFoundedOn(R, Nat)
  BY NatLessThanWellFounded, <1>1
<1>3. \E x \in T : \A y \in T : <<y, x>> \notin R
  <2> HIDE DEF R
  <2> QED BY <1>2, WFMin
<1>4. PICK x \in T : \A y \in T : <<y, x>> \notin R
  BY <1>3
<1>5. \A y \in T : x <= y
  <2> TAKE y \in T
  <2>1. <<y, x>> \in Nat \X Nat => ~(y < x)
    BY <1>4
  <2>2. QED
    BY <2>1
<1>6. QED
  BY <1>5

\* Every character is on a line that ends.
LEMMA LineEnds ==
  ASSUME text \in Seq(Char), NEW i \in Places
  PROVE  EndOfLine(i) \in i .. Len(text)
<1> DEFINE T == {j \in i .. Len(text) : text[j] = "newline" \/ j = Len(text)}
<1>1. T \subseteq Nat /\ Len(text) \in T
  BY DEF Places
<1>2. PICK j \in T : \A k \in T : j <= k
  <2> HIDE DEF T
  <2> QED BY <1>1, LeastNatural
<1>3. \A k \in i .. j - 1 : text[k] # "newline"
  <2> TAKE k \in i .. j - 1
  <2>1. k \in i .. Len(text) /\ k < j
    BY <1>2 DEF Places
  <2>2. k \notin T
    BY <1>2, <2>1 DEF Places
  <2>3. QED
    BY <2>1, <2>2
<1>4. \E l \in i .. Len(text) : (text[l] = "newline" \/ l = Len(text))
                                /\ \A k \in i .. l - 1 : text[k] # "newline"
  BY <1>2, <1>3
<1>5. QED
  BY <1>4 DEF EndOfLine

\* The switch looks at a character of the text or at the NUL behind it, and at the
\* NUL only behind a comment.
LEMMA PlaceType ==
  ASSUME LInv, NEW s, Reading(s)
  PROVE  /\ Place \in 1 .. Len(text) + 1
         /\ Here # "end" => Place \in Places
         /\ Here \in Character
         /\ NoOther => Here \notin Other
<1>1. text \in Seq(Char) /\ at \in Places
  BY DEF LInv, TypeOK, Reading
<1>2. Place \in 1 .. Len(text) + 1
  BY <1>1, LineEnds DEF Place, Places
<1>3. CASE Place \in Places
  <2>1. Here = text[Place] /\ text[Place] \in Char
    BY <1>1, <1>3 DEF Here, CharAt, Places
  <2>2. QED
    BY <1>2, <1>3, <2>1 DEF Character, NoOther
<1>4. CASE Place \notin Places
  <2>1. Here = "end"
    BY <1>4 DEF Here, CharAt
  <2>2. QED
    BY <1>2, <2>1 DEF Character, Other
<1>5. QED
  BY <1>3, <1>4

\* What Move leaves alone, and where it goes.
LEMMA Moved ==
  ASSUME LInv, phase = "lex", NEW i \in 1 .. Len(text) + 3, Move(i)
  PROVE  /\ text' = text /\ pieces' = pieces /\ NoOther' = NoOther
         /\ at' \in 1 .. Len(text) + 3
         /\ phase' \in {"lex", "failed"}
         /\ at' > Len(text) + 1 => phase' = "failed"
BY DEF Move, NoOther, Places

\* The call goes on: the types.
LEMMA Went ==
  ASSUME LInv, NEW s, Reading(s), NEW r \in State, Go(r),
         NEW i \in 1 .. Len(text) + 3, Move(i)
  PROVE  /\ TypeOK'
         /\ state' = r /\ token' = Append(token, Here) /\ token' # << >>
         /\ text' = text /\ NoOther' = NoOther /\ phase' \in {"lex", "failed"}
<1>1. phase = "lex"
  BY DEF Reading
<1>2. token \in Seq(Character) /\ Here \in Character
  BY PlaceType DEF LInv, TypeOK, Character
<1>3. token' = Append(token, Here) /\ token' \in Seq(Character) /\ token' # << >>
  BY <1>2 DEF Go
<1>4. QED
  BY <1>1, <1>3, Moved DEF LInv, TypeOK, Go, State, Character

\* A token is returned.
LEMMA Returned ==
  ASSUME LInv, NEW s, Reading(s), NEW kind \in TokenKind, NEW chars \in Seq(Character),
         NEW i \in 1 .. Len(text) + 3, Return(kind, chars, i)
  PROVE  LInv'
<1>1. phase = "lex"
  BY DEF Reading
<1>2. Move(i) /\ token' = << >> /\ state' = "start"
      /\ out' = Append(out, [kind |-> kind, chars |-> chars])
  BY DEF Return
<1>3. text' = text /\ pieces' = pieces /\ at' \in 1 .. Len(text) + 3
      /\ phase' \in {"lex", "failed"} /\ (at' > Len(text) + 1 => phase' = "failed")
  BY <1>1, <1>2, Moved
<1>4. out' \in Seq(LexedToken)
  <2>1. out \in Seq(LexedToken)
    BY DEF LInv, TypeOK, LexedToken, Character
  <2>2. [kind |-> kind, chars |-> chars] \in LexedToken
    BY DEF LexedToken
  <2>3. QED
    BY <1>2, <2>1, <2>2
<1>5. TypeOK'
  BY <1>2, <1>3, <1>4 DEF LInv, TypeOK, LexedToken, Character
<1>6. QED
  BY <1>2, <1>3, <1>5 DEF LInv, Gathered, NumeralsConvert

\* The steps that gather nothing.
LEMMA NothingGathered ==
  ASSUME LInv, UNCHANGED <<text, state, token>>, phase = "lex", TypeOK',
         phase' \in {"lex", "done", "failed"}
  PROVE  LInv'
BY DEF LInv, Gathered, NumeralsConvert, NoOther, Places
-----------------------------------------------------------------------------
(***************************************************************************)
(* The invariant, action by action.                                        *)
(***************************************************************************)

\* The author's text is empty, and so is what was gathered from it.
LEMMA InitInv == Init => LInv
<1>1. << >> \in Seq(Char) /\ << >> \in Seq(Character) /\ << >> \in Seq(LexedToken)
  OBVIOUS
<1>2. QED
  BY <1>1, LexerAssumption
    DEF Init, LInv, TypeOK, Gathered, NumeralsConvert, Character, LexedToken

\* The author changes nothing but the text.
LEMMA WriteInv ==
  ASSUME LInv, (\E p \in Piece : Write(p)) \/ Start
  PROVE  LInv'
<1>1. /\ UNCHANGED <<at, state, token, out>>
      /\ phase = "write" /\ state = "start" /\ token = << >>
      /\ phase' \in {"write", "lex"}
  BY DEF Write, Start, LInv, Gathered
<1>2. text' \in Seq(Char) /\ Len(text) <= Len(text') /\ pieces' \in 0 .. MaxPiece
  <2>1. CASE Start
    BY <2>1 DEF Start, LInv, TypeOK
  <2>2. ASSUME NEW p \in Piece, Write(p)
        PROVE  text' \in Seq(Char) /\ Len(text) <= Len(text') /\ pieces' \in 0 .. MaxPiece
    <3>1. p \in Seq(Char) /\ text \in Seq(Char) /\ MaxPiece \in Nat
      BY LexerAssumption DEF LInv, TypeOK
    <3>2. QED
      BY <2>2, <3>1 DEF Write, LInv, TypeOK
  <2>3. QED
    BY <2>1, <2>2
<1>3. TypeOK'
  <2>1. at \in 1 .. Len(text) + 1
    BY <1>1 DEF LInv, TypeOK
  <2>2. QED
    BY <1>1, <1>2, <2>1 DEF LInv, TypeOK
<1>4. QED
  BY <1>1, <1>3 DEF LInv, Gathered, NumeralsConvert

\* A blank between two tokens.
LEMMA BlankInv ==
  ASSUME LInv, SkipBlank
  PROVE  LInv'
<1>1. Place + 1 \in 1 .. Len(text) + 3 /\ phase = "lex" /\ state = "start" /\ Move(Place + 1)
  BY PlaceType DEF SkipBlank, Reading
<1>2. TypeOK'
  BY <1>1, Moved DEF SkipBlank, LInv, TypeOK
<1>3. QED
  BY <1>1, <1>2, Moved, NothingGathered DEF SkipBlank

\* The first character of a word, a number or a string.
LEMMA BeginInv ==
  ASSUME LInv, Begin
  PROVE  LInv'
<1>1. /\ Reading("start") /\ phase = "lex" /\ state = "start"
      /\ Place + 1 \in 1 .. Len(text) + 3
  BY PlaceType DEF Begin, Reading
<1>2. PICK r \in {"word", "number", "string"} : Go(r) /\ (r = "number" => Here \in Digit)
  BY DEF Begin, Letter, Digit
<1>3. /\ TypeOK' /\ state' = r /\ token' = Append(token, Here)
      /\ NoOther' = NoOther /\ phase' \in {"lex", "failed"}
  BY <1>1, <1>2, Went DEF Begin, State
<1>4. r = "number" /\ NoOther => token' = <<Here>>
  BY <1>1, <1>3 DEF LInv, Gathered
<1>5. NoOther' /\ state' = "number" => token' # << >> /\ \A k \in 1 .. Len(token') : token'[k] \in Digit
  BY <1>2, <1>3, <1>4
<1>6. QED
  BY <1>2, <1>3, <1>5 DEF LInv, Gathered, NumeralsConvert

\* What is a token by itself.
LEMMA SymbolInv ==
  ASSUME LInv, ReadSymbol \/ ReadChar
  PROVE  LInv'
<1>1. Reading("start")
  BY DEF ReadSymbol, ReadChar
<1>2. Place \in 1 .. Len(text) + 1 /\ (Here # "end" => Place \in 1 .. Len(text)) /\ Here \in Character
  BY <1>1, PlaceType DEF Places
<1>3. \A i : CharAt(i) \in Character
  BY DEF CharAt, Places, Character, LInv, TypeOK
<1>4. ASSUME ReadSymbol PROVE LInv'
  <2>1. Place + 1 \in 1 .. Len(text) + 3 /\ Place + 2 \in 1 .. Len(text) + 3
    BY <1>2
  <2>2. "symbol" \in TokenKind
    BY DEF TokenKind
  <2>3. <<Here>> \in Seq(Character) /\ <<Here, CharAt(Place + 1)>> \in Seq(Character)
    BY <1>2, <1>3
  <2>4. Return("symbol", <<Here, CharAt(Place + 1)>>, Place + 2) \/ Return("symbol", <<Here>>, Place + 1)
    BY <1>4 DEF ReadSymbol
  <2>5. QED
    BY <1>1, <2>1, <2>2, <2>3, <2>4, Returned
<1>5. ASSUME ReadChar PROVE LInv'
  <2>1. Here = "'" /\ Return("int8", <<"'", CharAt(Place + 1), "'">>, Place + 3)
    BY <1>5 DEF ReadChar
  <2>2. Place + 3 \in 1 .. Len(text) + 3
    BY <1>2, <2>1
  <2>3. "int8" \in TokenKind
    BY DEF TokenKind
  <2>4. "'" \in Character
    BY DEF Character, Char
  <2>5. <<"'", CharAt(Place + 1), "'">> \in Seq(Character)
    BY <1>3, <2>4
  <2>6. QED
    BY <1>1, <2>1, <2>2, <2>3, <2>5, Returned
<1>6. QED
  BY <1>4, <1>5

\* What START skips: two characters, the first of which is gathered.
LEMMA OtherInv ==
  ASSUME LInv, SkipOther
  PROVE  LInv'
<1>1. /\ Reading("start") /\ Go("start") /\ Move(Place + 2)
      /\ Place + 2 \in 1 .. Len(text) + 3
  BY PlaceType DEF SkipOther
<1>2. TypeOK' /\ state' = "start" /\ NoOther' = NoOther /\ phase' \in {"lex", "failed"}
  BY <1>1, Went DEF State
<1>3. NoOther => phase' = "failed"
  <2>1. SUFFICES ASSUME NoOther PROVE phase' = "failed"
    OBVIOUS
  <2>2. Here = "end"
    BY <1>1, <2>1, PlaceType DEF SkipOther
  <2>3. Place \notin Places
    <3>1. "end" \notin Char
      BY DEF Char, Letter, Digit, Blank, OneChar, Other
    <3>2. \A i \in Places : text[i] \in Char
      BY DEF Places, LInv, TypeOK
    <3>3. QED
      BY <2>2, <3>1, <3>2 DEF Here, CharAt
  <2>4. Place + 2 > Len(text) + 1
    BY <1>1, <2>3, PlaceType DEF Places
  <2>5. QED
    BY <1>1, <2>4 DEF Move
<1>4. QED
  BY <1>2, <1>3 DEF LInv, Gathered, NumeralsConvert

\* Of a word or a string nothing is converted.
LEMMA WordInv ==
  ASSUME LInv, ContinueWord \/ FailWord \/ ContinueString
  PROVE  LInv'
<1>1. PICK s \in State, r \in {"word", "fail", "string"} :
        Reading(s) /\ Go(r) /\ Move(Place + 1)
  BY DEF ContinueWord, FailWord, ContinueString, State
<1>2. Place + 1 \in 1 .. Len(text) + 3
  BY <1>1, PlaceType
<1>3. TypeOK' /\ state' = r /\ phase' \in {"lex", "failed"}
  BY <1>1, <1>2, Went DEF State
<1>4. QED
  BY <1>3 DEF LInv, Gathered, NumeralsConvert

\* The end of a word, a string, a number or a real.
LEMMA EndInv ==
  ASSUME LInv, EndWord \/ EndString \/ EndNumber \/ EndReal
  PROVE  LInv'
<1>1. PICK s \in State : Reading(s)
  BY DEF EndWord, EndString, EndNumber, EndReal, State
<1>2. Place \in 1 .. Len(text) + 3 /\ Place + 1 \in 1 .. Len(text) + 3 /\ Place + 2 \in 1 .. Len(text) + 3
  BY <1>1, PlaceType
<1>3. token \in Seq(Character) /\ Append(token, "quote") \in Seq(Character)
  BY DEF LInv, TypeOK, Character, Char
<1>4. PICK kind \in TokenKind, chars \in Seq(Character), i \in {Place, Place + 1, Place + 2} :
        Return(kind, chars, i)
  <2>1. CASE EndWord
    BY <1>3, <2>1 DEF EndWord, TokenKind
  <2>2. CASE EndString
    BY <1>3, <2>2 DEF EndString, TokenKind
  <2>3. CASE EndNumber
    BY <1>3, <2>3 DEF EndNumber, TokenKind
  <2>4. CASE EndReal
    BY <1>3, <2>4 DEF EndReal, TokenKind
  <2>5. QED
    BY <2>1, <2>2, <2>3, <2>4
<1>5. QED
  BY <1>1, <1>2, <1>4, Returned

\* Another digit of a number.
LEMMA NumberInv ==
  ASSUME LInv, ContinueNumber
  PROVE  LInv'
<1>1. /\ Reading("number") /\ Go("number") /\ Move(Place + 1) /\ Here \in Digit
      /\ Place + 1 \in 1 .. Len(text) + 3 /\ state = "number"
  BY PlaceType DEF ContinueNumber, Reading
<1>2. /\ TypeOK' /\ state' = "number" /\ token' = Append(token, Here) /\ token' # << >>
      /\ NoOther' = NoOther /\ phase' \in {"lex", "failed"}
  BY <1>1, Went DEF State
<1>3. token \in Seq(Character)
  BY DEF LInv, TypeOK, Character
<1>4. NoOther => \A k \in 1 .. Len(token') : token'[k] \in Digit
  BY <1>1, <1>2, <1>3 DEF LInv, NumeralsConvert
<1>5. QED
  BY <1>2, <1>4 DEF LInv, Gathered, NumeralsConvert

\* The dot of a real, behind at least one digit.
LEMMA FractionInv ==
  ASSUME LInv, BeginFraction
  PROVE  LInv'
<1>1. /\ Reading("number") /\ Go("real") /\ Move(Place + 1) /\ Here = "."
      /\ Place + 1 \in 1 .. Len(text) + 3 /\ state = "number"
  BY PlaceType DEF BeginFraction, Reading
<1>2. /\ TypeOK' /\ state' = "real" /\ token' = Append(token, Here)
      /\ NoOther' = NoOther /\ phase' \in {"lex", "failed"}
  BY <1>1, Went DEF State
<1>3. token \in Seq(Character)
  BY DEF LInv, TypeOK, Character
<1>4. ASSUME NoOther
      PROVE  \E d \in 2 .. Len(token') : \A k \in 1 .. Len(token') :
               token'[k] \in IF k = d THEN {"."} ELSE Digit
  <2>1. token # << >> /\ \A k \in 1 .. Len(token) : token[k] \in Digit
    BY <1>1, <1>4 DEF LInv, NumeralsConvert
  <2>2. Len(token') = Len(token) + 1 /\ Len(token) >= 1
    BY <1>2, <1>3, <2>1
  <2>3. \A k \in 1 .. Len(token') :
          token'[k] \in IF k = Len(token) + 1 THEN {"."} ELSE Digit
    BY <1>1, <1>2, <1>3, <2>1
  <2>4. QED
    BY <2>2, <2>3
<1>5. QED
  BY <1>2, <1>4 DEF LInv, Gathered, NumeralsConvert

\* Another digit behind the dot.
LEMMA RealInv ==
  ASSUME LInv, ContinueReal
  PROVE  LInv'
<1>1. /\ Reading("real") /\ Go("real") /\ Move(Place + 1) /\ Here \in Digit
      /\ Place + 1 \in 1 .. Len(text) + 3 /\ state = "real"
  BY PlaceType DEF ContinueReal, Reading
<1>2. /\ TypeOK' /\ state' = "real" /\ token' = Append(token, Here)
      /\ NoOther' = NoOther /\ phase' \in {"lex", "failed"}
  BY <1>1, Went DEF State
<1>3. token \in Seq(Character)
  BY DEF LInv, TypeOK, Character
<1>4. ASSUME NoOther
      PROVE  \E d \in 2 .. Len(token') : \A k \in 1 .. Len(token') :
               token'[k] \in IF k = d THEN {"."} ELSE Digit
  <2>1. PICK d \in 2 .. Len(token) : \A k \in 1 .. Len(token) :
          token[k] \in IF k = d THEN {"."} ELSE Digit
    BY <1>1, <1>4 DEF LInv, NumeralsConvert
  <2>2. Len(token') = Len(token) + 1 /\ d \in 2 .. Len(token')
    BY <1>2, <1>3
  <2>3. \A k \in 1 .. Len(token') : token'[k] \in IF k = d THEN {"."} ELSE Digit
    BY <1>1, <1>2, <1>3, <2>1
  <2>4. QED
    BY <2>2, <2>3
<1>5. QED
  BY <1>2, <1>4 DEF LInv, Gathered, NumeralsConvert

\* The lexer stops.
LEMMA StopInv ==
  ASSUME LInv, Throw \/ EndOfFile \/ Lose
  PROVE  LInv'
<1>1. phase = "lex" /\ phase' \in {"done", "failed"} /\ UNCHANGED <<text, pieces, state, token, out, at>>
  BY DEF Throw, EndOfFile, Lose, Reading
<1>2. TypeOK'
  <2>1. at <= Len(text) + 1
    BY <1>1 DEF LInv, TypeOK
  <2>2. QED
    BY <1>1, <2>1 DEF LInv, TypeOK
<1>3. QED
  BY <1>1, <1>2, NothingGathered

LEMMA StepInv == LInv /\ [Next]_vars => LInv'
<1>1. SUFFICES ASSUME LInv, [Next]_vars PROVE LInv'
  OBVIOUS
<1>2. CASE (\E p \in Piece : Write(p)) \/ Start
  BY <1>1, <1>2, WriteInv
<1>3. CASE Lex
  BY <1>1, <1>3, BlankInv, BeginInv, SymbolInv, OtherInv, WordInv, EndInv, NumberInv,
     FractionInv, RealInv, StopInv DEF Lex
<1>4. CASE UNCHANGED vars
  BY <1>1, <1>4 DEF vars, LInv, TypeOK, Gathered, NumeralsConvert, NoOther, Places
<1>5. QED
  BY <1>1, <1>2, <1>3, <1>4 DEF Next

-----------------------------------------------------------------------------
(***************************************************************************)
(* The theorems.                                                           *)
(***************************************************************************)

\* The inductive invariant of the lexer holds for every set of pieces and keywords and
\* a text of every length.
THEOREM Invariant == Spec => []LInv
<1>1. QED
  BY InitInv, StepInv, PTL DEF Spec

\* The lexer's variables have their types, and its pointer never runs more than two
\* characters past the NUL of the buffer, and is past it only when the lexer has failed
\* (Lexer::next, Lexer::advance).
THEOREM TypeCorrect == Spec => []TypeOK
<1>1. LInv => TypeOK
  BY DEF LInv
<1>2. QED
  BY Invariant, <1>1, PTL

\* What READ_NUM hands to std::stoi is a numeral and what READ_REAL hands to std::stod is
\* one with a fraction, in every text in which START has nothing to skip.
THEOREM ConvertsNumeralsOnly == Spec => []NumeralsConvert
<1>1. LInv => NumeralsConvert
  BY DEF LInv
<1>2. QED
  BY Invariant, <1>1, PTL

-----------------------------------------------------------------------------
(***************************************************************************)
(* The reference: lexemes, and the one function that cuts a text into them.*)
(***************************************************************************)

LEMMA Disjoint ==
  /\ "end" \notin Char /\ "end" \notin Letter \cup Digit /\ "end" \notin Digit
  /\ "/" \notin Letter \cup Digit \cup Blank \cup {"quote", "'"}
  /\ \A c \in Letter : c \notin Digit \cup Blank \cup OneChar \cup Other \cup {"quote", "'"}
  /\ \A c \in Digit : c \notin Blank \cup OneChar \cup Other \cup {"quote", "'"}
  /\ \A c \in Blank : c \notin OneChar \cup Other \cup {"quote", "'"}
  /\ \A c \in Other : c \notin OneChar \cup {"quote", "'"}
  /\ "quote" \notin OneChar /\ "'" \notin OneChar
BY DEF Char, Letter, Digit, Blank, OneChar, Other

LEMMA Symbols ==
  \A c, d : <<c, d>> \in TwoChars => c \in OneChar /\ c # "/" /\ d \in Char
<1> SUFFICES ASSUME NEW c, NEW d, <<c, d>> \in TwoChars
             PROVE  c \in OneChar /\ c # "/" /\ d \in Char
  OBVIOUS
<1>1. PICK p \in TwoChars : p = <<c, d>> OBVIOUS
<1>2. /\ p[1] \in {":", "=", ">", "<", "&", "|", "!"}
      /\ p[2] \in {"=", ":", ">", "<", "&", "|"}
  BY DEF TwoChars
<1>3. c \in {":", "=", ">", "<", "&", "|", "!"} /\ d \in {"=", ":", ">", "<", "&", "|"}
  BY <1>1, <1>2
<1>4. {":", "=", ">", "<", "&", "|", "!"} \subseteq OneChar
  <2>1. ":" \in OneChar /\ "=" \in OneChar /\ ">" \in OneChar /\ "<" \in OneChar
    BY DEF OneChar
  <2>2. "&" \in OneChar /\ "|" \in OneChar /\ "!" \in OneChar BY DEF OneChar
  <2> QED BY <2>1, <2>2
<1>5. \A x \in {":", "=", ">", "<", "&", "|", "!"} : x # "/" OBVIOUS
<1>6. d \in {":", "=", ">", "<", "&", "|", "!"} BY <1>3
<1>7. OneChar \subseteq Char BY DEF Char
<1> QED BY <1>3, <1>4, <1>5, <1>6, <1>7

LEMMA CharIs ==
  ASSUME text \in Seq(Char), NEW i
  PROVE  /\ i \in Places => CharAt(i) = text[i] /\ CharAt(i) \in Char /\ CharAt(i) # "end"
         /\ i \notin Places => CharAt(i) = "end"
<1>1. i \in Places => text[i] \in Char BY DEF Places
<1> QED BY <1>1, Disjoint DEF CharAt

\* A run ends, once.
Run(b, a, S) == \A k \in b .. a - 1 : text[k] \in S

LEMMA RunThere ==
  ASSUME text \in Seq(Char), NEW i \in Places, NEW S, text[i] \in S, "end" \notin S
  PROVE  /\ RunOf(i, S) \in i .. Len(text)
         /\ \A k \in i .. RunOf(i, S) : text[k] \in S
         /\ CharAt(RunOf(i, S) + 1) \notin S
<1>1. PICK n : n = Len(text) OBVIOUS
<1>2. n \in Nat /\ i \in 1 .. n BY <1>1 DEF Places
<1>3. PICK T : T = {k \in i .. n + 1 : CharAt(k) \notin S} OBVIOUS
<1>4. T \subseteq Nat BY <1>2, <1>3
<1>5. n + 1 \in T
  <2>1. n + 1 \notin Places BY <1>1, <1>2 DEF Places
  <2>2. CharAt(n + 1) = "end" BY <2>1 DEF CharAt
  <2> QED BY <1>2, <1>3, <2>2
<1>6. PICK k \in T : \A l \in T : k <= l BY <1>4, <1>5, LeastNatural
<1>7. CharAt(i) = text[i] BY DEF CharAt
<1>8. k \in i .. n + 1 /\ k # i /\ CharAt(k) \notin S BY <1>3, <1>6, <1>7
<1>9. PICK j : j = k - 1 OBVIOUS
<1>10. j \in i .. n /\ j + 1 = k BY <1>2, <1>8, <1>9
<1>11. ASSUME NEW l \in i .. j PROVE text[l] \in S
  <2>1. l \in i .. n + 1 /\ l < k /\ l \in 1 .. n BY <1>2, <1>10
  <2>2. l \notin T BY <1>4, <1>6, <2>1
  <2>3. CharAt(l) = text[l] BY <1>1, <2>1 DEF CharAt, Places
  <2> QED BY <1>3, <2>1, <2>2, <2>3
<1>12. \E l \in i .. Len(text) : (\A m \in i .. l : text[m] \in S) /\ CharAt(l + 1) \notin S
  BY <1>1, <1>8, <1>10, <1>11
<1> QED BY <1>12 DEF RunOf

LEMMA RunBeyond ==
  ASSUME text \in Seq(Char), NEW i \in Places, NEW S, "end" \notin S,
         NEW a \in i + 1 .. Len(text) + 1, Run(i, a, S)
  PROVE  /\ RunOf(i, S) \in a - 1 .. Len(text) /\ CharAt(RunOf(i, S) + 1) \notin S
         /\ \A k \in i .. RunOf(i, S) : text[k] \in S
         /\ CharAt(a) \notin S => RunOf(i, S) = a - 1
         /\ CharAt(a) \in S => a \in Places /\ RunOf(i, S) \in a .. Len(text)
<1>1. PICK n, r : n = Len(text) /\ r = RunOf(i, S) OBVIOUS
<1>2. n \in Nat /\ i \in 1 .. n /\ a \in i + 1 .. n + 1 BY <1>1 DEF Places
<1>3. \A k \in i .. a - 1 : text[k] \in S BY DEF Run
<1>4. text[i] \in S BY <1>2, <1>3
<1>5. r \in i .. n /\ (\A k \in i .. r : text[k] \in S) /\ CharAt(r + 1) \notin S
  BY <1>1, <1>4, RunThere
<1>6. \A k \in 1 .. n : CharAt(k) = text[k] BY <1>1 DEF CharAt, Places
<1>7. r >= a - 1
  <2> SUFFICES ASSUME r < a - 1 PROVE FALSE BY <1>2, <1>5
  <2>1. r + 1 \in i .. a - 1 /\ r + 1 \in 1 .. n BY <1>2, <1>5
  <2> QED BY <1>3, <1>5, <1>6, <2>1
<1>8. CharAt(a) \notin S => r = a - 1
  <2> SUFFICES ASSUME r # a - 1 PROVE CharAt(a) \in S OBVIOUS
  <2>1. a \in i .. r /\ a \in 1 .. n BY <1>2, <1>5, <1>7
  <2> QED BY <1>5, <1>6, <2>1
<1>9. ASSUME CharAt(a) \in S PROVE a \in 1 .. n /\ r >= a
  <2>1. a \in 1 .. n
    <3> SUFFICES ASSUME a \notin 1 .. n PROVE FALSE OBVIOUS
    <3> QED BY <1>1, <1>9 DEF CharAt, Places
  <2>2. r # a - 1
    <3> SUFFICES ASSUME r = a - 1 PROVE FALSE OBVIOUS
    <3>1. r + 1 = a BY <1>2
    <3> QED BY <1>5, <1>9, <3>1
  <2> QED BY <1>2, <1>5, <1>7, <2>1, <2>2
<1> QED BY <1>1, <1>2, <1>5, <1>7, <1>8, <1>9 DEF Places

\* What a lexeme is like.
Kind == {"keyword", "identifier", "int8", "int16", "int32", "int64", "real", "string",
         "symbol", "comment", "none"}
Fits(x, i) ==
  /\ x.kind \in Kind /\ x.first = i /\ x.last \in i .. Len(text)
  /\ x.suffix \in 0 .. 2 /\ Behind(x) \in i + 1 .. Len(text) + 1

LEMMA FitsIf ==
  ASSUME text \in Seq(Char), NEW i \in Places, NEW kind \in Kind, NEW j \in i .. Len(text),
         NEW s \in 0 .. 2, j + s <= Len(text)
  PROVE  Fits(Lexeme(kind, i, j, s), i) /\ Behind(Lexeme(kind, i, j, s)) = j + s + 1
<1>1. PICK n : n = Len(text) OBVIOUS
<1>2. n \in Nat /\ i \in 1 .. n /\ j \in i .. n /\ j + s <= n BY <1>1 DEF Places
<1>3. j + s + 1 \in i + 1 .. n + 1 BY <1>2
<1>4. PICK x : x = Lexeme(kind, i, j, s) OBVIOUS
<1>5. x.kind = kind /\ x.first = i /\ x.last = j /\ x.suffix = s BY <1>4 DEF Lexeme
<1> QED BY <1>1, <1>3, <1>4, <1>5 DEF Fits, Behind

\* The lexeme at a letter.
LEMMA WordAt ==
  ASSUME text \in Seq(Char), NEW i \in Places, text[i] \in Letter
  PROVE  LET r == RunOf(i, Letter \cup Digit)
             kind == IF SubSeq(text, i, r) \in Keyword THEN "keyword" ELSE "identifier"
         IN  LexemeAt(i) = Lexeme(kind, i, r, 0) /\ r \in i .. Len(text)
<1>1. PICK r : r = RunOf(i, Letter \cup Digit) OBVIOUS
<1>2. r \in i .. Len(text) BY <1>1, RunThere, Disjoint
<1>3. ~CommentAt(i) BY Disjoint DEF CommentAt, CharAt
<1>4. PICK w : w = SubSeq(text, i, r) OBVIOUS
<1>5. i + Len(w) - 1 = r BY <1>2, <1>4 DEF Places
<1>6. LexemeAt(i) = Lexeme(IF w \in Keyword THEN "keyword" ELSE "identifier", i, i + Len(w) - 1, 0)
  BY <1>1, <1>3, <1>4 DEF LexemeAt
<1> QED BY <1>1, <1>2, <1>4, <1>5, <1>6

LEMMA DigitAt ==
  ASSUME text \in Seq(Char), NEW i \in Places, text[i] \in Digit
  PROVE  LexemeAt(i) = NumberAt(i)
<1>1. ~CommentAt(i) BY Disjoint DEF CommentAt, CharAt
<1>2. text[i] \notin Letter BY Disjoint
<1> QED BY <1>1, <1>2 DEF LexemeAt

LEMMA NumberFits ==
  ASSUME text \in Seq(Char), NEW i \in Places, text[i] \in Digit
  PROVE  Fits(NumberAt(i), i)
<1>1. PICK n, j : n = Len(text) /\ j = RunOf(i, Digit) OBVIOUS
<1>2. n \in Nat /\ i \in 1 .. n BY <1>1 DEF Places
<1>3. j \in i .. n BY <1>1, RunThere, Disjoint
<1>4. \A k \in Nat : k \notin 1 .. n => CharAt(k) = "end" BY <1>1 DEF CharAt, Places
<1>5. CharAt(j + 1) # "end" => j + 1 \in 1 .. n BY <1>2, <1>3, <1>4
<1>6. CharAt(j + 2) # "end" => j + 2 \in 1 .. n BY <1>2, <1>3, <1>4
<1>7. {"real", "int8", "int16", "int32", "int64"} \subseteq Kind BY DEF Kind
<1>8. NumberAt(i) = IF CharAt(j + 1) = "." /\ CharAt(j + 2) \in Digit
                    THEN Lexeme("real", i, RunOf(j + 2, Digit), 0)
                    ELSE IF CharAt(j + 1) = "b" THEN Lexeme("int8", i, j, 1)
                    ELSE IF CharAt(j + 1) = "h" THEN Lexeme("int16", i, j, 1)
                    ELSE IF CharAt(j + 1) # "l" THEN Lexeme("int32", i, j, 0)
                    ELSE IF CharAt(j + 2) # "l" THEN Lexeme("int32", i, j, 1)
                    ELSE Lexeme("int64", i, j, 2)
  BY <1>1 DEF NumberAt
<1>9. CASE CharAt(j + 1) = "." /\ CharAt(j + 2) \in Digit
  <2>1. j + 2 \in 1 .. n BY <1>6, <1>9, Disjoint
  <2>2. j + 2 \in Places /\ text[j + 2] \in Digit BY <1>1, <1>9, <2>1 DEF CharAt, Places
  <2>3. RunOf(j + 2, Digit) \in j + 2 .. n BY <1>1, <2>2, RunThere, Disjoint
  <2>4. RunOf(j + 2, Digit) \in i .. n /\ RunOf(j + 2, Digit) + 0 <= n
    <3>1. PICK r : r = RunOf(j + 2, Digit) OBVIOUS
    <3>2. r \in i .. n /\ r + 0 <= n BY <1>2, <1>3, <2>3, <3>1
    <3> QED BY <3>1, <3>2
  <2> QED BY <1>1, <1>7, <1>8, <1>9, <2>4, FitsIf
<1>10. CASE ~(CharAt(j + 1) = "." /\ CharAt(j + 2) \in Digit)
  <2>1. j + 0 <= n BY <1>3
  <2>2. CharAt(j + 1) \in {"b", "h", "l"} => j + 1 <= n BY <1>5
  <2>3. CharAt(j + 2) = "l" => j + 2 <= n BY <1>6
  <2>4. ASSUME NEW kind \in Kind, NEW s \in 0 .. 2, j + s <= n PROVE Fits(Lexeme(kind, i, j, s), i)
    BY <1>1, <1>3, <2>4, FitsIf
  <2> QED BY <1>7, <1>8, <1>10, <2>1, <2>2, <2>3, <2>4
<1> QED BY <1>9, <1>10

\* The closing quote.
LEMMA FirstIs ==
  ASSUME text \in Seq(Char), NEW i \in Places, Closing(i) # {}
  PROVE  /\ First(Closing(i)) \in i + 1 .. Len(text) /\ text[First(Closing(i))] = "quote"
         /\ \A k \in i + 1 .. First(Closing(i)) - 1 : text[k] # "quote"
<1>1. PICK n, C : n = Len(text) /\ C = Closing(i) OBVIOUS
<1>2. n \in Nat /\ i \in 1 .. n BY <1>1 DEF Places
<1>3. C = {j \in i + 1 .. n : text[j] = "quote"} BY <1>1 DEF Closing
<1>4. C \subseteq Nat BY <1>2, <1>3
<1>5. PICK f : f = First(C) OBVIOUS
<1>6. f \in C /\ \A j \in C : f <= j BY <1>1, <1>4, <1>5, LeastNatural DEF First
<1>7. ASSUME NEW k \in i + 1 .. f - 1 PROVE text[k] # "quote"
  <2>1. k \in i + 1 .. n /\ k < f BY <1>2, <1>3, <1>6
  <2>2. k \notin C BY <1>4, <1>6, <2>1
  <2> QED BY <1>3, <2>1, <2>2
<1> QED BY <1>1, <1>3, <1>5, <1>6, <1>7

LEMMA LexemeFits ==
  ASSUME text \in Seq(Char), NEW i \in Places
  PROVE  Fits(LexemeAt(i), i)
<1>1. PICK n : n = Len(text) OBVIOUS
<1>2. n \in Nat /\ i \in 1 .. n BY <1>1 DEF Places
<1>3. \A k \in Nat : k \notin 1 .. n => CharAt(k) = "end" BY <1>1 DEF CharAt, Places
<1>4. ASSUME NEW kind \in Kind, NEW j \in i .. n PROVE Fits(Lexeme(kind, i, j, 0), i)
  <2>1. j + 0 <= n BY <1>2
  <2> QED BY <1>1, <2>1, FitsIf
<1>5. {"comment", "string", "int8", "symbol", "none", "keyword", "identifier"} \subseteq Kind BY DEF Kind
<1>6. CASE CommentAt(i)
  <2>1. LexemeAt(i) = Lexeme("comment", i, EndOfLine(i), 0) BY <1>6 DEF LexemeAt
  <2> QED BY <1>1, <1>4, <1>5, <2>1, LineEnds
<1>7. CASE text[i] \in Letter BY <1>1, <1>4, <1>5, <1>7, WordAt
<1>8. CASE text[i] \in Digit BY <1>8, DigitAt, NumberFits
<1>9. CASE ~CommentAt(i) /\ text[i] \notin Letter /\ text[i] \notin Digit
  <2>1. LexemeAt(i) =
          IF text[i] = "quote" /\ Closing(i) # {} THEN Lexeme("string", i, First(Closing(i)), 0)
          ELSE IF text[i] = "'" /\ CharAt(i + 2) = "'" THEN Lexeme("int8", i, i + 2, 0)
          ELSE IF <<text[i], CharAt(i + 1)>> \in TwoChars THEN Lexeme("symbol", i, i + 1, 0)
          ELSE IF text[i] \in OneChar THEN Lexeme("symbol", i, i, 0)
          ELSE Lexeme("none", i, i, 0)
    BY <1>9 DEF LexemeAt
  <2>2. Closing(i) # {} => First(Closing(i)) \in i .. n
    <3> SUFFICES ASSUME Closing(i) # {} PROVE First(Closing(i)) \in i .. n OBVIOUS
    <3>1. First(Closing(i)) \in i + 1 .. n BY <1>1, FirstIs
    <3> QED BY <1>2, <3>1
  <2>3. CharAt(i + 2) = "'" => i + 2 \in i .. n BY <1>2, <1>3
  <2>4. <<text[i], CharAt(i + 1)>> \in TwoChars => i + 1 \in i .. n
    <3> SUFFICES ASSUME <<text[i], CharAt(i + 1)>> \in TwoChars PROVE i + 1 \in i .. n OBVIOUS
    <3>1. CharAt(i + 1) # "end" BY Symbols, Disjoint
    <3> QED BY <1>2, <1>3, <3>1
  <2>5. i \in i .. n BY <1>2
  <2> QED BY <1>4, <1>5, <2>1, <2>2, <2>3, <2>4, <2>5
<1> QED BY <1>6, <1>7, <1>8, <1>9

\* What f says of the text from i on.
Ends == [lexemes |-> {}, tokens |-> << >>]
Cut(x, rest) ==
  [lexemes |-> {x} \cup rest.lexemes,
   tokens |-> IF x.kind = "comment" THEN rest.tokens ELSE <<TokenOf(x)>> \o rest.tokens]
MeaningOf(f, i) ==
  IF i = Len(text) + 1 THEN Ends
  ELSE IF text[i] \in Blank THEN f[i + 1]
  ELSE Cut(LexemeAt(i), f[Behind(LexemeAt(i))])

Rest == 1 .. Len(text) + 1
AlikeFrom(f, g, i) == \A k \in Rest : k > i => f[k] = g[k]

LEMMA MeaningAlike ==
  ASSUME text \in Seq(Char), NEW i \in Rest, NEW f, NEW g, AlikeFrom(f, g, i)
  PROVE  MeaningOf(f, i) = MeaningOf(g, i)
<1>1. PICK n : n = Len(text) OBVIOUS
<1>2. n \in Nat /\ i \in 1 .. n + 1 /\ Rest = 1 .. n + 1 BY <1>1 DEF Rest
<1>3. CASE i = n + 1 BY <1>1, <1>3 DEF MeaningOf
<1>4. CASE i # n + 1
  <2>1. i \in Places /\ i + 1 \in Rest /\ i + 1 > i BY <1>1, <1>2, <1>4 DEF Places
  <2>2. PICK x : x = LexemeAt(i) OBVIOUS
  <2>3. Behind(x) \in i + 1 .. n + 1 BY <1>1, <2>1, <2>2, LexemeFits DEF Fits
  <2>4. Behind(x) \in Rest /\ Behind(x) > i BY <1>2, <2>3
  <2>5. f[i + 1] = g[i + 1] /\ f[Behind(x)] = g[Behind(x)] BY <2>1, <2>4 DEF AlikeFrom
  <2> QED BY <2>2, <2>5 DEF MeaningOf
<1> QED BY <1>3, <1>4

\* Counting.
LEMMA Counting ==
  ASSUME NEW K, 0 \in K, \A d \in Nat : d \in K => d + 1 \in K
  PROVE  \A d \in Nat : d \in K
<1>1. PICK T : T = {d \in Nat : d \notin K} OBVIOUS
<1>2. SUFFICES ASSUME T # {} PROVE FALSE BY <1>1
<1>3. T \subseteq Nat BY <1>1
<1>4. PICK d \in T : \A c \in T : d <= c BY <1>2, <1>3, LeastNatural
<1>5. d \in Nat /\ d # 0 /\ d \notin K BY <1>1, <1>4
<1>6. d - 1 \in Nat /\ d - 1 \in K BY <1>1, <1>4, <1>5
<1> QED BY <1>5, <1>6

SolvesFrom(f, i) == \A k \in Rest : k >= i => f[k] = MeaningOf(f, k)

LEMMA MeaningThere ==
  ASSUME text \in Seq(Char)
  PROVE  \E f : f = [i \in Rest |-> MeaningOf(f, i)]
<1>1. PICK n : n = Len(text) OBVIOUS
<1>2. n \in Nat /\ Rest = 1 .. n + 1 BY <1>1 DEF Rest
<1>3. PICK K : K = {d \in Nat : \E f : SolvesFrom(f, n + 2 - d)} OBVIOUS
<1>4. 0 \in K
  <2>1. PICK f : f = [k \in Rest |-> Ends] OBVIOUS
  <2>2. \A k \in Rest : ~(k >= n + 2 - 0) BY <1>2
  <2>3. SolvesFrom(f, n + 2 - 0) BY <2>2 DEF SolvesFrom
  <2> QED BY <1>3, <2>3
<1>5. ASSUME NEW d \in Nat, d \in K PROVE d + 1 \in K
  <2>1. PICK f : SolvesFrom(f, n + 2 - d) BY <1>3, <1>5
  <2>2. PICK g : g = [k \in Rest |-> IF k >= n + 2 - d THEN f[k] ELSE MeaningOf(f, k)] OBVIOUS
  <2>3. \A k \in Rest : k >= n + 2 - d => g[k] = f[k] BY <2>2
  <2>4. ASSUME NEW k \in Rest, k >= n + 2 - (d + 1) PROVE g[k] = MeaningOf(g, k)
    <3>1. \A l \in Rest : l > k => l >= n + 2 - d BY <1>2, <2>4
    <3>2. AlikeFrom(f, g, k) BY <2>3, <3>1 DEF AlikeFrom
    <3>3. MeaningOf(f, k) = MeaningOf(g, k) BY <3>2, MeaningAlike
    <3>4. g[k] = MeaningOf(f, k)
      <4>1. CASE k >= n + 2 - d BY <2>1, <2>3, <4>1 DEF SolvesFrom
      <4>2. CASE ~(k >= n + 2 - d) BY <2>2, <4>2
      <4> QED BY <4>1, <4>2
    <3> QED BY <3>3, <3>4
  <2>5. SolvesFrom(g, n + 2 - (d + 1)) BY <2>4 DEF SolvesFrom
  <2> QED BY <1>3, <2>5
<1>6. \A d \in Nat : d \in K BY ONLY <1>4, <1>5, Counting
<1>7. PICK f : SolvesFrom(f, n + 2 - (n + 1)) BY <1>2, <1>3, <1>6
<1>8. \A k \in Rest : f[k] = MeaningOf(f, k)
  <2>1. \A k \in Rest : k >= n + 2 - (n + 1) BY <1>2
  <2> QED BY <1>7, <2>1 DEF SolvesFrom
<1>9. PICK g : g = [i \in Rest |-> MeaningOf(f, i)] OBVIOUS
<1>10. \A k \in Rest : g[k] = f[k] BY <1>8, <1>9
<1>11. ASSUME NEW i \in Rest PROVE MeaningOf(f, i) = MeaningOf(g, i)
  <2>1. AlikeFrom(f, g, i) BY <1>10 DEF AlikeFrom
  <2> QED BY <2>1, MeaningAlike
<1>12. g = [i \in Rest |-> MeaningOf(g, i)] BY <1>9, <1>11
<1> QED BY <1>12

LEMMA MeaningIs ==
  ASSUME text \in Seq(Char), NEW i \in Rest
  PROVE  Meaning[i] = MeaningOf(Meaning, i)
<1>1. Meaning = CHOOSE f : f = [k \in Rest |-> MeaningOf(f, k)]
  BY DEF Meaning, Rest, MeaningOf, Cut, Ends
<1>2. Meaning = [k \in Rest |-> MeaningOf(Meaning, k)] BY <1>1, MeaningThere
<1>3. PICK f : f = Meaning OBVIOUS
<1>4. f = [k \in Rest |-> MeaningOf(f, k)] BY <1>2, <1>3
<1>5. f[i] = MeaningOf(f, i) BY <1>4
<1> QED BY <1>3, <1>5

\* The tokens that the reference makes.
AnyToken == [kind : Kind, chars : Seq(Character)]

LEMMA TokenFits ==
  ASSUME text \in Seq(Char), NEW i \in Places, NEW x, Fits(x, i)
  PROVE  TokenOf(x) \in AnyToken
<1>1. x.kind \in Kind /\ x.first = i /\ x.last \in i .. Len(text) BY DEF Fits
<1>2. SubSeq(text, i, x.last) \in Seq(Char) BY <1>1 DEF Places
<1>3. SubSeq(text, i, x.last) \in Seq(Character) BY <1>2 DEF Character
<1> QED BY <1>1, <1>3 DEF TokenOf, AnyToken

LEMMA MeaningTyped ==
  ASSUME text \in Seq(Char), NEW i \in Rest
  PROVE  Meaning[i].tokens \in Seq(AnyToken)
<1>1. PICK n : n = Len(text) OBVIOUS
<1>2. n \in Nat /\ Rest = 1 .. n + 1 BY <1>1 DEF Rest
<1>3. PICK T : T = {d \in 0 .. n : Meaning[n + 1 - d].tokens \notin Seq(AnyToken)} OBVIOUS
<1>4. T = {}
  <2> SUFFICES ASSUME T # {} PROVE FALSE OBVIOUS
  <2>1. T \subseteq Nat BY <1>2, <1>3
  <2>2. PICK d \in T : \A c \in T : d <= c BY <2>1, LeastNatural
  <2>3. PICK k : k = n + 1 - d OBVIOUS
  <2>4. d \in 0 .. n /\ k \in 1 .. n + 1 /\ Meaning[k].tokens \notin Seq(AnyToken)
    BY <1>2, <1>3, <2>2, <2>3
  <2>5. ASSUME NEW l \in k + 1 .. n + 1 PROVE Meaning[l].tokens \in Seq(AnyToken)
    <3>1. PICK c : c = n + 1 - l OBVIOUS
    <3>2. c \in 0 .. n /\ c < d /\ l = n + 1 - c BY <1>2, <2>3, <2>4, <3>1
    <3>3. c \notin T BY <1>2, <2>1, <2>2, <2>4, <3>2
    <3> QED BY <1>3, <3>2, <3>3
  <2>6. PICK m : m = Meaning OBVIOUS
  <2>7. m[k] = MeaningOf(m, k) BY <1>2, <2>4, <2>6, MeaningIs
  <2>8. CASE k = n + 1
    <3>1. m[k] = Ends BY <1>1, <2>7, <2>8 DEF MeaningOf
    <3>2. Ends.tokens = << >> BY DEF Ends
    <3> QED BY <2>4, <2>6, <3>1, <3>2
  <2>9. CASE k # n + 1
    <3>1. k \in Places /\ k + 1 \in k + 1 .. n + 1 BY <1>1, <1>2, <2>4, <2>9 DEF Places
    <3>2. CASE text[k] \in Blank
      <4>1. m[k] = m[k + 1] BY <1>1, <2>7, <2>9, <3>2 DEF MeaningOf
      <4> QED BY <2>4, <2>5, <2>6, <3>1, <4>1
    <3>3. CASE text[k] \notin Blank
      <4>1. PICK x : x = LexemeAt(k) OBVIOUS
      <4>2. Fits(x, k) BY <3>1, <4>1, LexemeFits
      <4>3. PICK rest : rest = m[Behind(x)] OBVIOUS
      <4>4. m[k] = Cut(x, rest) BY <1>1, <2>7, <2>9, <3>3, <4>1, <4>3 DEF MeaningOf
      <4>5. rest.tokens \in Seq(AnyToken) BY <1>1, <2>5, <2>6, <4>2, <4>3 DEF Fits
      <4>6. TokenOf(x) \in AnyToken BY <3>1, <4>2, TokenFits
      <4>7. <<TokenOf(x)>> \o rest.tokens \in Seq(AnyToken) BY <4>5, <4>6
      <4>8. m[k].tokens \in Seq(AnyToken) BY <4>4, <4>5, <4>7 DEF Cut
      <4> QED BY <2>4, <2>6, <4>8
    <3> QED BY <3>2, <3>3
  <2> QED BY <2>8, <2>9
<1>5. n + 1 - i \in 0 .. n /\ n + 1 - (n + 1 - i) = i BY <1>2
<1> QED BY <1>3, <1>4, <1>5

-----------------------------------------------------------------------------
(***************************************************************************)
(* The automaton in a text of which it is known to do as the rules say:    *)
(* what it has returned and what the reference makes of the rest, from the *)
(* beginning b of the token under way, are the whole.                      *)
(***************************************************************************)

CleanFrom(i) == \A x \in Meaning[i].lexemes : Clean(x)
Follows(o, i) == o \o Meaning[i].tokens = Meaning[1].tokens /\ CleanFrom(i)

\* The characters from b to before a have been gathered.
Holds(b, t, a) == b \in Places /\ a \in b + 1 .. Len(text) + 1 /\ t = SubSeq(text, b, a - 1)

InWord(b, t, a) == Holds(b, t, a) /\ text[b] \in Letter /\ Run(b, a, Letter \cup Digit)
InNumber(b, t, a) == Holds(b, t, a) /\ Run(b, a, Digit)
InReal(b, t, a) ==
  /\ Holds(b, t, a)
  /\ \E d \in b + 1 .. a - 1 :
       /\ Run(b, d, Digit) /\ text[d] = "." /\ CharAt(d + 1) \in Digit
       /\ Run(d + 1, a, Digit)
InString(b, t, a) ==
  Holds(b, t, a) /\ text[b] = "quote" /\ \A k \in b + 1 .. a - 1 : text[k] # "quote"

Under(b, s, t, a) ==
  \/ s = "start" /\ b = a /\ t = << >>
  \/ s = "word" /\ InWord(b, t, a)
  \/ s = "number" /\ InNumber(b, t, a)
  \/ s = "real" /\ InReal(b, t, a)
  \/ s = "string" /\ InString(b, t, a)

Stands(o, s, t, a) == \E b \in Rest : Follows(o, b) /\ Under(b, s, t, a)

Position ==
  /\ phase # "failed"
  /\ phase = "done" => out = Meaning[1].tokens
  /\ phase = "lex" =>
       \E o, s, t, a : o = out /\ s = state /\ t = token /\ a = at /\ Stands(o, s, t, a)

WInv ==
  /\ phase = "write" => at = 1 /\ out = << >>
  /\ phase # "write" /\ CleanFrom(1) => Position

LEMMA Onto ==
  ASSUME NEW S, NEW a \in Seq(S), NEW e \in S, NEW c \in Seq(S)
  PROVE  Append(a, e) \o c = a \o (<<e>> \o c)
OBVIOUS

\* What the reference says of the lexeme at i.
LEMMA FollowsLexeme ==
  ASSUME text \in Seq(Char), NEW i \in Places, text[i] \notin Blank,
         NEW o \in Seq(LexedToken), Follows(o, i), NEW x, x = LexemeAt(i)
  PROVE  /\ Clean(x) /\ Fits(x, i)
         /\ x.kind = "comment" => Follows(o, Behind(x))
         /\ x.kind # "comment" => Follows(Append(o, TokenOf(x)), Behind(x))
<1>1. i \in Rest /\ i # Len(text) + 1 BY DEF Rest, Places
<1>2. Fits(x, i) BY LexemeFits
<1>3. Behind(x) \in Rest BY <1>1, <1>2 DEF Fits, Rest
<1>4. PICK m : m = Meaning OBVIOUS
<1>5. m[i] = Cut(x, m[Behind(x)]) BY <1>1, <1>4, MeaningIs DEF MeaningOf
<1>6. m[i].lexemes = {x} \cup m[Behind(x)].lexemes
      /\ m[i].tokens = IF x.kind = "comment" THEN m[Behind(x)].tokens
                       ELSE <<TokenOf(x)>> \o m[Behind(x)].tokens
  BY <1>5 DEF Cut
<1>7. Clean(x) /\ CleanFrom(Behind(x)) BY <1>4, <1>6 DEF Follows, CleanFrom
<1>8. Append(o, TokenOf(x)) \o m[Behind(x)].tokens = o \o (<<TokenOf(x)>> \o m[Behind(x)].tokens)
  <2>1. o \in Seq(AnyToken)
    <3>1. LexedToken \subseteq AnyToken BY DEF LexedToken, AnyToken, TokenKind, Kind
    <3> QED BY <3>1
  <2>2. TokenOf(x) \in AnyToken BY <1>2, TokenFits
  <2>3. m[Behind(x)].tokens \in Seq(AnyToken) BY <1>3, <1>4, MeaningTyped
  <2>4. PICK e, c : e = TokenOf(x) /\ c = m[Behind(x)].tokens OBVIOUS
  <2>5. e \in AnyToken /\ c \in Seq(AnyToken) BY <2>2, <2>3, <2>4
  <2>6. Append(o, e) \o c = o \o (<<e>> \o c) BY ONLY <2>1, <2>5, Onto
  <2> QED BY <2>4, <2>6
<1> QED BY <1>2, <1>4, <1>6, <1>7, <1>8 DEF Follows

LEMMA FollowsBlank ==
  ASSUME text \in Seq(Char), NEW i \in Places, text[i] \in Blank, NEW o, Follows(o, i)
  PROVE  Follows(o, i + 1)
<1>1. i \in Rest /\ i # Len(text) + 1 BY DEF Rest, Places
<1>2. PICK m : m = Meaning OBVIOUS
<1>3. m[i] = m[i + 1] BY <1>1, <1>2, MeaningIs DEF MeaningOf
<1> QED BY <1>2, <1>3 DEF Follows, CleanFrom

LEMMA FollowsEnd ==
  ASSUME text \in Seq(Char), NEW o \in Seq(LexedToken), Follows(o, Len(text) + 1)
  PROVE  o = Meaning[1].tokens
<1>1. Len(text) + 1 \in Rest BY DEF Rest
<1>2. PICK m : m = Meaning OBVIOUS
<1>3. m[Len(text) + 1] = Ends BY <1>1, <1>2, MeaningIs DEF MeaningOf
<1>4. m[Len(text) + 1].tokens = << >> BY <1>3 DEF Ends
<1>5. o \o << >> = o OBVIOUS
<1> QED BY <1>2, <1>4, <1>5 DEF Follows

\* Between two tokens: the switch looks at the first character of a lexeme that is no
\* comment, or at a blank.
LEMMA StartsAt ==
  ASSUME LInv, at \in Places, Follows(out, at)
  PROVE  /\ ~Undefined /\ Place \in Places /\ Follows(out, Place)
         /\ Here = text[Place] /\ text[Place] # "/"
<1>1. text \in Seq(Char) /\ out \in Seq(LexedToken) BY DEF LInv, TypeOK, LexedToken, Character
<1>2. CharAt(at) = text[at] BY DEF CharAt
<1>3. text[at] = "/" => text[at] \notin Blank BY Disjoint
<1>4. CASE CommentAt(at)
  <2>1. PICK x : x = LexemeAt(at) OBVIOUS
  <2>2. x = Lexeme("comment", at, EndOfLine(at), 0) BY <1>4, <2>1 DEF LexemeAt
  <2>3. x.kind = "comment" /\ x.last = EndOfLine(at) /\ x.suffix = 0 BY <2>2 DEF Lexeme
  <2>4. text[at] = "/" BY <1>2, <1>4 DEF CommentAt
  <2>5. Clean(x) /\ Fits(x, at) /\ Follows(out, Behind(x))
    BY <1>1, <1>3, <2>1, <2>3, <2>4, FollowsLexeme
  <2>6. text[EndOfLine(at)] = "newline" /\ CharAt(Behind(x)) \notin {"end", "/"}
    BY <2>3, <2>5 DEF Clean
  <2>7. EndOfLine(at) \in at .. Len(text) BY <1>1, LineEnds
  <2>8. Behind(x) = EndOfLine(at) + 1 BY <2>3, <2>7 DEF Behind, Places
  <2>9. Place = Behind(x) BY <1>4, <2>8 DEF Place
  <2>10. Behind(x) \in Places BY <2>6 DEF CharAt
  <2> QED BY <1>4, <2>5, <2>6, <2>9, <2>10 DEF Undefined, Here, CharAt
<1>5. CASE ~CommentAt(at)
  <2>1. text[at] # "/"
    <3> SUFFICES ASSUME text[at] = "/" PROVE FALSE OBVIOUS
    <3>1. PICK x : x = LexemeAt(at) OBVIOUS
    <3>2. /\ text[at] \notin Letter \cup Digit /\ text[at] # "quote" /\ text[at] # "'"
          /\ text[at] \in OneChar /\ <<text[at], CharAt(at + 1)>> \notin TwoChars
      <4>1. "/" \in OneChar BY DEF OneChar
      <4>2. <<text[at], CharAt(at + 1)>> \notin TwoChars BY Symbols
      <4> QED BY <4>1, <4>2, Disjoint
    <3>3. x = Lexeme("symbol", at, at, 0) BY <1>5, <3>1, <3>2 DEF LexemeAt
    <3>4. x.kind = "symbol" /\ x.first = at BY <3>3 DEF Lexeme
    <3>5. Clean(x) BY <1>1, <1>3, <3>1, FollowsLexeme
    <3> QED BY <3>4, <3>5 DEF Clean
  <2> QED BY <1>2, <1>5, <2>1 DEF Undefined, Place, Here
<1> QED BY <1>4, <1>5

\* Inside a token: the switch looks at the next character, which is no slash.
LEMMA InsideAt ==
  ASSUME at \in Places, text[at] # "/"
  PROVE  ~Undefined /\ Place = at /\ Here = text[at]
<1>1. CharAt(at) = text[at] BY DEF CharAt
<1> QED BY <1>1 DEF Undefined, Place, Here, CommentAt

LEMMA WordMid ==
  ASSUME text \in Seq(Char), NEW o \in Seq(LexedToken), NEW b, NEW t, NEW a, Follows(o, b),
         InWord(b, t, a)
  PROVE  /\ a \in Places /\ text[a] # "/" /\ text[a] \in Letter \cup Digit \cup Special
         /\ text[a] \notin Letter \cup Digit =>
              LET kind == IF t \in Keyword THEN "keyword" ELSE "identifier"
              IN  Follows(Append(o, [kind |-> kind, chars |-> t]), a)
<1>1. /\ b \in Places /\ a \in b + 1 .. Len(text) + 1 /\ t = SubSeq(text, b, a - 1)
      /\ text[b] \in Letter /\ Run(b, a, Letter \cup Digit)
  BY DEF InWord, Holds
<1>2. PICK r : r = RunOf(b, Letter \cup Digit) OBVIOUS
<1>3. /\ r \in a - 1 .. Len(text) /\ (CharAt(a) \notin Letter \cup Digit => r = a - 1)
      /\ CharAt(a) \in Letter \cup Digit => a \in Places
  BY <1>1, <1>2, RunBeyond, Disjoint
<1>4. PICK x : x = LexemeAt(b) OBVIOUS
<1>5. PICK w : w = SubSeq(text, b, r) OBVIOUS
<1>6. PICK kind : kind = IF w \in Keyword THEN "keyword" ELSE "identifier" OBVIOUS
<1>7. x = Lexeme(kind, b, r, 0) BY <1>1, <1>2, <1>4, <1>5, <1>6, WordAt
<1>8. x.kind = kind /\ x.first = b /\ x.last = r /\ x.suffix = 0 BY <1>7 DEF Lexeme
<1>9. kind \in {"keyword", "identifier"} BY <1>6
<1>10. text[b] \notin Blank BY <1>1, Disjoint
<1>11. Clean(x) /\ Follows(Append(o, TokenOf(x)), Behind(x))
  BY <1>1, <1>4, <1>8, <1>9, <1>10, FollowsLexeme
<1>12. Behind(x) = r + 1 BY <1>1, <1>3, <1>8 DEF Behind, Places
<1>13. CharAt(r + 1) \in Special /\ CharAt(r + 1) \notin {"end", "/"}
  BY <1>8, <1>9, <1>11, <1>12 DEF Clean
<1>14. CASE CharAt(a) \in Letter \cup Digit
  BY <1>3, <1>14, Disjoint DEF CharAt
<1>15. CASE CharAt(a) \notin Letter \cup Digit
  <2>1. r = a - 1 /\ r + 1 = a BY <1>1, <1>3, <1>15 DEF Places
  <2>2. a \in Places BY <1>13, <2>1 DEF CharAt
  <2>3. w = t BY <1>1, <1>5, <2>1
  <2>4. TokenOf(x) = [kind |-> kind, chars |-> t] BY <1>5, <1>8, <2>3 DEF TokenOf
  <2> QED BY <1>6, <1>11, <1>12, <1>13, <2>1, <2>2, <2>3, <2>4 DEF CharAt
<1> QED BY <1>14, <1>15
\* What is read of a number's suffix at a.
Suffix(a) ==
  IF CharAt(a) \in {"b", "h"} THEN 1
  ELSE IF CharAt(a) # "l" THEN 0 ELSE IF CharAt(a + 1) # "l" THEN 1 ELSE 2
Width(a) ==
  IF CharAt(a) = "b" THEN "int8"
  ELSE IF CharAt(a) = "h" THEN "int16"
  ELSE IF CharAt(a) # "l" THEN "int32" ELSE IF CharAt(a + 1) # "l" THEN "int32" ELSE "int64"
FractionAt(a) == CharAt(a) = "." /\ CharAt(a + 1) \in Digit

LEMMA NumberMid ==
  ASSUME text \in Seq(Char), NEW o \in Seq(LexedToken), NEW b, NEW t, NEW a, Follows(o, b),
         InNumber(b, t, a)
  PROVE  /\ a \in Places /\ text[a] # "/"
         /\ text[a] \notin Digit /\ ~FractionAt(a) =>
              /\ Follows(Append(o, [kind |-> Width(a), chars |-> t]), a + Suffix(a))
              /\ a + Suffix(a) \in Rest
<1>1. /\ b \in Places /\ a \in b + 1 .. Len(text) + 1 /\ t = SubSeq(text, b, a - 1)
      /\ Run(b, a, Digit)
  BY DEF InNumber, Holds
<1>2. PICK n, r : n = Len(text) /\ r = RunOf(b, Digit) OBVIOUS
<1>3. n \in Nat /\ b \in 1 .. n /\ a \in b + 1 .. n + 1 BY <1>1, <1>2 DEF Places
<1>4. /\ CharAt(a) \notin Digit => r = a - 1
      /\ CharAt(a) \in Digit => a \in Places
  BY <1>1, <1>2, RunBeyond, Disjoint
<1>5. b \in b .. a - 1 BY <1>3
<1>6. text[b] \in Digit /\ text[b] \notin Blank BY <1>1, <1>5, Disjoint DEF Run
<1>7. CASE CharAt(a) \in Digit BY <1>4, <1>7, Disjoint DEF CharAt
<1>8. CASE FractionAt(a)
  <2>1. a \in Places BY <1>8 DEF FractionAt, CharAt
  <2>2. text[a] # "/" BY <1>8, <2>1 DEF FractionAt, CharAt
  <2> QED BY <1>8, <2>1, <2>2
<1>9. CASE CharAt(a) \notin Digit /\ ~FractionAt(a)
  <2>1. r = a - 1 /\ r + 1 = a /\ r + 2 = a + 1 BY <1>3, <1>4, <1>9
  <2>2. PICK x : x = LexemeAt(b) OBVIOUS
  <2>3. x = Lexeme(Width(a), b, a - 1, Suffix(a))
    <3>1. x = NumberAt(b) BY <1>1, <1>6, <2>2, DigitAt
    <3> QED BY <1>2, <1>9, <2>1, <3>1 DEF NumberAt, Width, Suffix, FractionAt
  <2>4. x.kind = Width(a) /\ x.first = b /\ x.last = a - 1 /\ x.suffix = Suffix(a)
    BY <2>3 DEF Lexeme
  <2>5. Width(a) \in {"int8", "int16", "int32", "int64"} /\ Width(a) # "comment" BY DEF Width
  <2>6. Clean(x) /\ Fits(x, b) /\ Follows(Append(o, TokenOf(x)), Behind(x))
    BY <1>1, <1>6, <2>2, <2>4, <2>5, FollowsLexeme
  <2>7. Suffix(a) \in 0 .. 2 BY DEF Suffix
  <2>8. Behind(x) = a + Suffix(a) BY <1>3, <2>4, <2>7 DEF Behind
  <2>9. CharAt(a + Suffix(a)) \notin {"end", "/"} BY <2>4, <2>5, <2>6, <2>8 DEF Clean
  <2>10. CharAt(a) \notin {"end", "/"}
    <3>1. CASE CharAt(a) \in {"b", "h", "l"} BY <3>1
    <3>2. CASE CharAt(a) \notin {"b", "h", "l"}
      <4>1. Suffix(a) = 0 BY <3>2 DEF Suffix
      <4>2. a + Suffix(a) = a BY <1>3, <4>1
      <4> QED BY <2>9, <4>2
    <3> QED BY <3>1, <3>2
  <2>11. a \in Places /\ text[a] # "/" BY <2>10 DEF CharAt
  <2>12. TokenOf(x) = [kind |-> Width(a), chars |-> t] BY <1>1, <2>4 DEF TokenOf
  <2>13. a + Suffix(a) \in Rest
    <3>1. Behind(x) \in b + 1 .. n + 1 BY <1>2, <2>6 DEF Fits
    <3>2. Behind(x) \in 1 .. n + 1 BY <1>3, <3>1
    <3> QED BY <1>2, <2>8, <3>2 DEF Rest
  <2> QED BY <2>6, <2>8, <2>11, <2>12, <2>13
<1> QED BY <1>7, <1>8, <1>9

LEMMA RealMid ==
  ASSUME text \in Seq(Char), NEW o \in Seq(LexedToken), NEW b, NEW t, NEW a, Follows(o, b),
         InReal(b, t, a)
  PROVE  /\ a \in Places /\ text[a] # "/"
         /\ text[a] \notin Digit => Follows(Append(o, [kind |-> "real", chars |-> t]), a)
<1>1. b \in Places /\ a \in b + 1 .. Len(text) + 1 /\ t = SubSeq(text, b, a - 1)
  BY DEF InReal, Holds
<1>2. PICK d \in b + 1 .. a - 1 :
        /\ Run(b, d, Digit) /\ text[d] = "." /\ CharAt(d + 1) \in Digit
        /\ Run(d + 1, a, Digit)
  BY DEF InReal
<1>3. PICK n : n = Len(text) OBVIOUS
<1>4. n \in Nat /\ b \in 1 .. n /\ a \in b + 1 .. n + 1 BY <1>1, <1>3 DEF Places
<1>5. d \in b + 1 .. n /\ d < a /\ b \in b .. d - 1 BY <1>2, <1>4
<1>6. text[b] \in Digit /\ text[b] \notin Blank BY <1>2, <1>5, Disjoint DEF Run
<1>7. d \in Places /\ CharAt(d) = "." BY <1>2, <1>3, <1>4, <1>5 DEF CharAt, Places
<1>8. "." \notin Digit BY DEF Digit
<1>9. RunOf(b, Digit) = d - 1
  <2>1. d \in b + 1 .. Len(text) + 1 BY <1>3, <1>4, <1>5
  <2> QED BY <1>1, <1>2, <1>7, <1>8, <2>1, RunBeyond, Disjoint
<1>10. PICK x, q : x = LexemeAt(b) /\ q = RunOf(d + 1, Digit) OBVIOUS
<1>11. x = Lexeme("real", b, q, 0)
  <2>1. x = NumberAt(b) BY <1>1, <1>6, <1>10, DigitAt
  <2>2. PICK j : j = RunOf(b, Digit) OBVIOUS
  <2>3. j + 1 = d /\ j + 2 = d + 1 BY <1>4, <1>5, <1>9, <2>2
  <2>4. CharAt(j + 1) = "." /\ CharAt(j + 2) \in Digit BY <1>2, <1>7, <2>3
  <2> QED BY <1>10, <2>1, <2>2, <2>3, <2>4 DEF NumberAt
<1>12. x.kind = "real" /\ x.first = b /\ x.last = q /\ x.suffix = 0 BY <1>11 DEF Lexeme
<1>13. Clean(x) /\ Fits(x, b) /\ Follows(Append(o, TokenOf(x)), Behind(x))
  BY <1>1, <1>6, <1>10, <1>12, FollowsLexeme
<1>14. d + 1 \in Places BY <1>2, Disjoint DEF CharAt
<1>15. /\ CharAt(a) \notin Digit => q = a - 1
       /\ CharAt(a) \in Digit => a \in Places
  <2>1. CASE a = d + 1 BY <1>2, <1>14, <2>1
  <2>2. CASE a # d + 1
    <3>1. a \in d + 1 + 1 .. Len(text) + 1 BY <1>3, <1>4, <1>5, <2>2
    <3> QED BY <1>2, <1>10, <1>14, <3>1, RunBeyond, Disjoint
  <2> QED BY <2>1, <2>2
<1>16. CASE CharAt(a) \in Digit BY <1>15, <1>16, Disjoint DEF CharAt
<1>17. CASE CharAt(a) \notin Digit
  <2>1. q = a - 1 /\ Behind(x) = a BY <1>4, <1>12, <1>15, <1>17 DEF Behind
  <2>2. CharAt(a) \notin {"end", "/"} BY <1>12, <1>13, <2>1 DEF Clean
  <2>3. a \in Places /\ text[a] # "/" BY <2>2 DEF CharAt
  <2>4. TokenOf(x) = [kind |-> "real", chars |-> t] BY <1>1, <1>12, <2>1 DEF TokenOf
  <2> QED BY <1>13, <2>1, <2>3, <2>4
<1> QED BY <1>16, <1>17

LEMMA Grown ==
  ASSUME NEW S, NEW s \in Seq(S), NEW i \in 1 .. Len(s), NEW j \in i .. Len(s)
  PROVE  SubSeq(s, i, j) = Append(SubSeq(s, i, j - 1), s[j])
OBVIOUS

LEMMA OneAppended ==
  ASSUME NEW c
  PROVE  Append(<< >>, c) = <<c>>
OBVIOUS

LEMMA TwoAppended ==
  ASSUME NEW c, NEW d
  PROVE  Append(<<c>>, d) = <<c, d>>
<1>1. <<c>> \in Seq({c, d}) OBVIOUS
<1>2. PICK q : q = Append(<<c>>, d) OBVIOUS
<1>3. q \in Seq({c, d}) /\ Len(q) = 2 /\ q[1] = c /\ q[2] = d BY <1>1, <1>2
<1>4. q = [k \in 1 .. 2 |-> q[k]] BY <1>3
<1>5. PICK r : r = <<c, d>> OBVIOUS
<1>6. r \in Seq({c, d}) /\ Len(r) = 2 /\ r[1] = c /\ r[2] = d BY <1>5
<1>7. r = [k \in 1 .. 2 |-> r[k]] BY <1>6
<1>8. \A k \in 1 .. 2 : q[k] = r[k] BY <1>3, <1>6
<1> QED BY <1>2, <1>4, <1>5, <1>7, <1>8

LEMMA ThreeAppended ==
  ASSUME NEW c, NEW d, NEW e
  PROVE  Append(<<c, d>>, e) = <<c, d, e>>
<1>1. <<c, d>> \in Seq({c, d, e}) OBVIOUS
<1>2. PICK q : q = Append(<<c, d>>, e) OBVIOUS
<1>3. q \in Seq({c, d, e}) /\ Len(q) = 3 /\ q[1] = c /\ q[2] = d /\ q[3] = e BY <1>1, <1>2
<1>4. q = [k \in 1 .. 3 |-> q[k]] BY <1>3
<1>5. PICK r : r = <<c, d, e>> OBVIOUS
<1>6. r \in Seq({c, d, e}) /\ Len(r) = 3 /\ r[1] = c /\ r[2] = d /\ r[3] = e BY <1>5
<1>7. r = [k \in 1 .. 3 |-> r[k]] BY <1>6
<1>8. \A k \in 1 .. 3 : q[k] = r[k] BY <1>3, <1>6
<1> QED BY <1>2, <1>4, <1>5, <1>7, <1>8

LEMMA Short ==
  ASSUME NEW S, NEW s \in Seq(S), NEW i \in 1 .. Len(s)
  PROVE  /\ SubSeq(s, i, i) = <<s[i]>>
         /\ i + 1 \in 1 .. Len(s) => SubSeq(s, i, i + 1) = <<s[i], s[i + 1]>>
         /\ i + 2 \in 1 .. Len(s) => SubSeq(s, i, i + 2) = <<s[i], s[i + 1], s[i + 2]>>
<1>1. PICK c, d, e : c = s[i] /\ d = s[i + 1] /\ e = s[i + 2] OBVIOUS
<1>2. SubSeq(s, i, i) = <<c>>
  <2>1. SubSeq(s, i, i - 1) = << >> OBVIOUS
  <2>2. i \in i .. Len(s) OBVIOUS
  <2>3. SubSeq(s, i, i) = Append(SubSeq(s, i, i - 1), c) BY <1>1, <2>2, Grown
  <2>4. Append(<< >>, c) = <<c>> BY OneAppended
  <2> QED BY <2>1, <2>3, <2>4
<1>3. ASSUME i + 1 \in 1 .. Len(s) PROVE SubSeq(s, i, i + 1) = <<c, d>>
  <2>1. i + 1 \in i .. Len(s) /\ i + 1 - 1 = i BY <1>3
  <2>2. SubSeq(s, i, i + 1) = Append(SubSeq(s, i, i), d) BY <1>1, <2>1, Grown
  <2>3. Append(<<c>>, d) = <<c, d>> BY TwoAppended
  <2> QED BY <1>2, <2>2, <2>3
<1>4. ASSUME i + 2 \in 1 .. Len(s) PROVE SubSeq(s, i, i + 2) = <<c, d, e>>
  <2>1. i + 2 \in i .. Len(s) /\ i + 2 - 1 = i + 1 /\ i + 1 \in 1 .. Len(s) BY <1>4
  <2>2. SubSeq(s, i, i + 2) = Append(SubSeq(s, i, i + 1), e) BY <1>1, <2>1, Grown
  <2>3. Append(<<c, d>>, e) = <<c, d, e>> BY ThreeAppended
  <2> QED BY <1>3, <2>1, <2>2, <2>3
<1> QED BY <1>1, <1>2, <1>3, <1>4

LEMMA Longer ==
  ASSUME text \in Seq(Char), NEW b, NEW t, NEW a, Holds(b, t, a), a \in Places
  PROVE  /\ SubSeq(text, b, a) = Append(t, text[a])
         /\ Holds(b, Append(t, text[a]), a + 1)
<1>1. b \in Places /\ a \in b + 1 .. Len(text) + 1 /\ t = SubSeq(text, b, a - 1) BY DEF Holds
<1>2. b \in 1 .. Len(text) /\ a \in b .. Len(text) BY <1>1 DEF Places
<1>3. SubSeq(text, b, a) = Append(SubSeq(text, b, a - 1), text[a]) BY <1>2, Grown
<1>4. a + 1 \in b + 1 .. Len(text) + 1 /\ a + 1 - 1 = a BY <1>2
<1> QED BY <1>1, <1>3, <1>4 DEF Holds

LEMMA StringMid ==
  ASSUME text \in Seq(Char), NEW o \in Seq(LexedToken), NEW b, NEW t, NEW a, Follows(o, b),
         InString(b, t, a)
  PROVE  /\ a \in Places /\ text[a] # "/"
         /\ text[a] = "quote" =>
              Follows(Append(o, [kind |-> "string", chars |-> Append(t, "quote")]), a + 1)
<1>1. /\ Holds(b, t, a) /\ b \in Places /\ a \in b + 1 .. Len(text) + 1
      /\ text[b] = "quote" /\ \A k \in b + 1 .. a - 1 : text[k] # "quote"
  BY DEF InString, Holds
<1>2. PICK n : n = Len(text) OBVIOUS
<1>3. n \in Nat /\ b \in 1 .. n /\ a \in b + 1 .. n + 1 BY <1>1, <1>2 DEF Places
<1>4. PICK x : x = LexemeAt(b) OBVIOUS
<1>5. text[b] \notin Blank /\ text[b] \notin Letter /\ text[b] \notin Digit /\ text[b] # "/"
  BY <1>1, Disjoint
<1>6. ~CommentAt(b) BY <1>1, <1>5 DEF CommentAt, CharAt
<1>7. Clean(x) /\ Fits(x, b) BY <1>1, <1>4, <1>5, FollowsLexeme
<1>8. Closing(b) # {}
  <2> SUFFICES ASSUME Closing(b) = {} PROVE FALSE OBVIOUS
  <2>1. <<text[b], CharAt(b + 1)>> \notin TwoChars /\ text[b] \notin OneChar /\ text[b] # "'"
    BY <1>1, Symbols, Disjoint
  <2>2. x = Lexeme("none", b, b, 0) BY <1>4, <1>5, <1>6, <2>1 DEF LexemeAt
  <2> QED BY <1>7, <2>2 DEF Clean, Lexeme
<1>9. PICK f : f = First(Closing(b)) OBVIOUS
<1>10. x = Lexeme("string", b, f, 0) BY <1>1, <1>4, <1>5, <1>6, <1>8, <1>9 DEF LexemeAt
<1>11. x.kind = "string" /\ x.first = b /\ x.last = f /\ x.suffix = 0 BY <1>10 DEF Lexeme
<1>12. /\ f \in b + 1 .. n /\ text[f] = "quote"
       /\ \A k \in b + 1 .. f - 1 : text[k] # "quote"
  BY <1>1, <1>2, <1>8, <1>9, FirstIs
<1>13. f >= a
  <2> SUFFICES ASSUME f < a PROVE FALSE BY <1>3, <1>12
  <2>1. f \in b + 1 .. a - 1 BY <1>3, <1>12
  <2> QED BY <1>1, <1>12, <2>1
<1>14. a \in Places BY <1>2, <1>3, <1>12, <1>13 DEF Places
<1>15. text[a] # "/"
  <2>1. a \in b .. f BY <1>3, <1>12, <1>13
  <2> QED BY <1>7, <1>11, <2>1 DEF Clean
<1>16. ASSUME text[a] = "quote"
       PROVE  Follows(Append(o, [kind |-> "string", chars |-> Append(t, "quote")]), a + 1)
  <2>1. f = a
    <3> SUFFICES ASSUME f # a PROVE FALSE OBVIOUS
    <3>1. a \in b + 1 .. f - 1 BY <1>3, <1>12, <1>13
    <3> QED BY <1>12, <1>16, <3>1
  <2>2. Behind(x) = a + 1 BY <1>3, <1>11, <2>1 DEF Behind
  <2>3. TokenOf(x) = [kind |-> "string", chars |-> Append(t, "quote")]
    <3>1. SubSeq(text, b, a) = Append(t, text[a]) BY <1>1, <1>14, Longer
    <3>2. SubSeq(text, b, a) = Append(t, "quote") BY <1>16, <3>1
    <3> QED BY <1>11, <2>1, <3>2 DEF TokenOf
  <2>4. x.kind # "comment" BY <1>11
  <2>5. Follows(Append(o, TokenOf(x)), Behind(x)) BY <1>1, <1>4, <1>5, <2>4, FollowsLexeme
  <2> QED BY <2>2, <2>3, <2>5
<1> QED BY <1>14, <1>15, <1>16

\* In the midst of a token of which one more character is gathered.
LEMMA OneMore ==
  ASSUME text \in Seq(Char), NEW b, NEW t, NEW a, NEW S, a \in b .. Len(text),
         b \in Places, Run(b, a, S), text[a] \in S
  PROVE  Run(b, a + 1, S)
<1>1. \A k \in b .. a + 1 - 1 : k \in b .. a - 1 \/ k = a BY DEF Places
<1> QED BY <1>1 DEF Run

\* What a step of the lexer leaves behind.
Onward == phase' = "lex" /\ Stands(out', state', token', at')

LEMMA Moving ==
  ASSUME LInv, phase = "lex", NEW i \in Rest, Move(i)
  PROVE  at' = i /\ phase' = "lex"
<1>1. PICK n : n = Len(text) OBVIOUS
<1>2. n \in Nat /\ i \in 1 .. n + 1 BY <1>1 DEF Rest, LInv, TypeOK
<1> QED BY <1>1, <1>2 DEF Move

LEMMA Beginning ==
  ASSUME LInv, NEW i \in Rest, Follows(out', i), state' = "start", token' = << >>,
         at' = i, phase' = "lex"
  PROVE  Onward
BY DEF Onward, Stands, Under

LEMMA Returning ==
  ASSUME LInv, phase = "lex", NEW kind, NEW chars, NEW i \in Rest, Return(kind, chars, i),
         Follows(Append(out, [kind |-> kind, chars |-> chars]), i)
  PROVE  Onward
<1>1. /\ out' = Append(out, [kind |-> kind, chars |-> chars])
      /\ token' = << >> /\ state' = "start" /\ Move(i)
  BY DEF Return
<1>2. at' = i /\ phase' = "lex" BY <1>1, Moving
<1> QED BY <1>1, <1>2, Beginning

\* The character that begins a token.
LEMMA Single ==
  ASSUME text \in Seq(Char), NEW i \in Places
  PROVE  Holds(i, <<text[i]>>, i + 1) /\ (\A S : text[i] \in S => Run(i, i + 1, S))
<1>1. i \in 1 .. Len(text) BY DEF Places
<1>2. PICK t, a : t = <<text[i]>> /\ a = i + 1 OBVIOUS
<1>3. a \in i + 1 .. Len(text) + 1 /\ a - 1 = i BY <1>1, <1>2
<1>4. SubSeq(text, i, i) = <<text[i]>> BY <1>1, Short
<1>5. t = SubSeq(text, i, a - 1) BY <1>2, <1>3, <1>4
<1>6. Holds(i, t, a) BY <1>3, <1>5 DEF Holds
<1>7. \A k \in i .. a - 1 : k = i BY <1>1, <1>3
<1>8. ASSUME NEW S, text[i] \in S PROVE Run(i, a, S) BY <1>7, <1>8 DEF Run
<1> QED BY <1>2, <1>6, <1>8

LEMMA StartSteps ==
  ASSUME LInv, phase = "lex", at \in Places, state = "start", token = << >>, Follows(out, at),
         Lex
  PROVE  Onward
<1> DEFINE p == Place
<1>1. text \in Seq(Char) /\ out \in Seq(LexedToken) BY DEF LInv, TypeOK, LexedToken, Character
<1>2. /\ ~Undefined /\ p \in Places /\ Follows(out, p) /\ Here = text[p] /\ text[p] # "/"
  BY StartsAt
<1>3. PICK n : n = Len(text) OBVIOUS
<1>4. n \in Nat /\ p \in 1 .. n /\ p + 1 \in 1 .. n + 1 BY <1>2, <1>3 DEF Places
<1>5. p \in Rest /\ p + 1 \in Rest BY <1>3, <1>4 DEF Rest
<1>6. PICK x : x = LexemeAt(p) OBVIOUS
<1>7. text[p] \notin Blank => Clean(x) /\ Fits(x, p)
  BY <1>1, <1>2, <1>6, FollowsLexeme
<1>8. ~CommentAt(p) BY <1>2 DEF CommentAt, CharAt
<1>9. SkipBlank \/ Begin \/ ReadSymbol \/ ReadChar \/ SkipOther
  <2>1. ~EndOfFile BY DEF EndOfFile, Places, LInv, TypeOK
  <2>2. ~Lose BY <1>2 DEF Lose
  <2>3. ~ContinueWord /\ ~EndWord /\ ~FailWord /\ ~Throw
    BY DEF ContinueWord, EndWord, FailWord, Throw, Reading
  <2>4. ~ContinueNumber /\ ~BeginFraction /\ ~EndNumber
    BY DEF ContinueNumber, BeginFraction, EndNumber, Reading
  <2>5. ~ContinueReal /\ ~EndReal /\ ~ContinueString /\ ~EndString
    BY DEF ContinueReal, EndReal, ContinueString, EndString, Reading
  <2> QED BY <2>1, <2>2, <2>3, <2>4, <2>5 DEF Lex
<1> HIDE DEF p
<1>10. CASE SkipBlank
  <2>1. text[p] \in Blank /\ Move(p + 1) /\ UNCHANGED <<state, token, out>>
    BY <1>2, <1>10 DEF SkipBlank, p
  <2>2. Follows(out, p + 1) BY <1>1, <1>2, <2>1, FollowsBlank
  <2>3. at' = p + 1 /\ phase' = "lex" BY <1>5, <2>1, Moving
  <2> QED BY <1>5, <2>1, <2>2, <2>3, Beginning
<1>11. CASE Begin
  <2>1. /\ text[p] \in Letter \cup Digit \cup {"quote"} /\ Move(p + 1)
        /\ state' = IF text[p] \in Letter THEN "word"
                    ELSE IF text[p] \in Digit THEN "number" ELSE "string"
        /\ token' = Append(token, text[p]) /\ out' = out
    BY <1>2, <1>11 DEF Begin, Go, p
  <2>2. token' = <<text[p]>> BY <2>1
  <2>3. at' = p + 1 /\ phase' = "lex" BY <1>5, <2>1, Moving
  <2>4. Holds(p, token', at') /\ \A S : text[p] \in S => Run(p, at', S)
    BY <1>1, <1>2, <2>2, <2>3, Single
  <2>5. Under(p, state', token', at')
    <3>1. CASE text[p] \in Letter
      <4>1. state' = "word" BY <2>1, <3>1
      <4>2. InWord(p, token', at') BY <2>4, <3>1 DEF InWord
      <4> QED BY <4>1, <4>2 DEF Under
    <3>2. CASE text[p] \in Digit
      <4>1. state' = "number" BY <2>1, <3>2, Disjoint
      <4>2. InNumber(p, token', at') BY <2>4, <3>2 DEF InNumber
      <4> QED BY <4>1, <4>2 DEF Under
    <3>3. CASE text[p] \notin Letter \cup Digit
      <4>1. state' = "string" /\ text[p] = "quote" BY <2>1, <3>3
      <4>2. \A k \in p + 1 .. at' - 1 : FALSE BY <1>4, <2>3
      <4>3. InString(p, token', at') BY <2>4, <4>1, <4>2 DEF InString
      <4> QED BY <4>1, <4>3 DEF Under
    <3> QED BY <3>1, <3>2, <3>3
  <2> QED BY <1>2, <1>5, <2>1, <2>3, <2>5 DEF Onward, Stands
<1>12. CASE ReadSymbol
  <2>1. text[p] \in OneChar BY <1>2, <1>12 DEF ReadSymbol
  <2>2. /\ text[p] \notin Letter /\ text[p] \notin Digit /\ text[p] \notin Blank
        /\ text[p] # "quote" /\ text[p] # "'"
    BY <2>1, Disjoint
  <2>3. CASE <<text[p], CharAt(p + 1)>> \in TwoChars
    <3>1. x = Lexeme("symbol", p, p + 1, 0) BY <1>6, <1>8, <2>2, <2>3 DEF LexemeAt
    <3>2. x.kind = "symbol" /\ x.first = p /\ x.last = p + 1 /\ x.suffix = 0
      BY <3>1 DEF Lexeme
    <3>3. CharAt(p + 1) \in Char /\ CharAt(p + 1) # "end" BY <2>3, Symbols, Disjoint
    <3>4. p + 1 \in Places /\ CharAt(p + 1) = text[p + 1] BY <3>3 DEF CharAt
    <3>5. p + 1 \in p .. n BY <1>3, <1>4, <3>4 DEF Places
    <3>6. SubSeq(text, p, p + 1) = <<text[p], text[p + 1]>>
      <4>1. p + 1 \in 1 .. n BY <1>4, <3>5
      <4> QED BY <1>1, <1>3, <1>4, <4>1, Short
    <3>7. TokenOf(x) = [kind |-> "symbol", chars |-> <<text[p], CharAt(p + 1)>>]
      BY <3>2, <3>4, <3>6 DEF TokenOf
    <3>8. Behind(x) = p + 2 BY <1>4, <3>2 DEF Behind
    <3>9. p + 2 \in Rest BY <1>3, <1>4, <3>5 DEF Rest
    <3>10. Return("symbol", <<text[p], CharAt(p + 1)>>, p + 2)
      BY <1>2, <1>12, <2>3 DEF ReadSymbol, p
    <3>11. Follows(Append(out, TokenOf(x)), Behind(x))
      BY <1>1, <1>2, <1>6, <2>2, <3>2, FollowsLexeme
    <3> QED BY <3>7, <3>8, <3>9, <3>10, <3>11, Returning
  <2>4. CASE <<text[p], CharAt(p + 1)>> \notin TwoChars
    <3>1. x = Lexeme("symbol", p, p, 0) BY <1>6, <1>8, <2>1, <2>2, <2>4 DEF LexemeAt
    <3>2. x.kind = "symbol" /\ x.first = p /\ x.last = p /\ x.suffix = 0
      BY <3>1 DEF Lexeme
    <3>3. SubSeq(text, p, p) = <<text[p]>> BY <1>1, <1>3, <1>4, Short
    <3>4. TokenOf(x) = [kind |-> "symbol", chars |-> <<text[p]>>]
      BY <3>2, <3>3 DEF TokenOf
    <3>5. Behind(x) = p + 1 BY <1>4, <3>2 DEF Behind
    <3>6. Return("symbol", <<text[p]>>, p + 1)
      BY <1>2, <1>12, <2>4 DEF ReadSymbol, p
    <3>7. Follows(Append(out, TokenOf(x)), Behind(x))
      BY <1>1, <1>2, <1>6, <2>2, <3>2, FollowsLexeme
    <3> QED BY <1>5, <3>4, <3>5, <3>6, <3>7, Returning
  <2> QED BY <2>3, <2>4
<1>13. CASE ReadChar
  <2>1. text[p] = "'" BY <1>2, <1>13 DEF ReadChar
  <2>2. /\ text[p] \notin Letter /\ text[p] \notin Digit /\ text[p] \notin Blank
        /\ text[p] # "quote" /\ text[p] \notin OneChar
        /\ <<text[p], CharAt(p + 1)>> \notin TwoChars
    BY <2>1, Disjoint, Symbols
  <2>3. CharAt(p + 2) = "'"
    <3> SUFFICES ASSUME CharAt(p + 2) # "'" PROVE FALSE OBVIOUS
    <3>1. x = Lexeme("none", p, p, 0) BY <1>6, <1>8, <2>1, <2>2 DEF LexemeAt
    <3> QED BY <1>7, <2>2, <3>1 DEF Clean, Lexeme
  <2>4. x = Lexeme("int8", p, p + 2, 0) BY <1>6, <1>8, <2>1, <2>2, <2>3 DEF LexemeAt
  <2>5. x.kind = "int8" /\ x.first = p /\ x.last = p + 2 /\ x.suffix = 0 BY <2>4 DEF Lexeme
  <2>6. p + 2 \in Places /\ text[p + 2] = "'"
    <3>1. p + 2 \in Places BY <2>3 DEF CharAt
    <3> QED BY <2>3, <3>1 DEF CharAt
  <2>7. p + 2 \in 1 .. n /\ p + 1 \in 1 .. n BY <1>3, <1>4, <2>6 DEF Places
  <2>8. CharAt(p + 1) = text[p + 1] BY <1>3, <2>7 DEF CharAt, Places
  <2>9. SubSeq(text, p, p + 2) = <<text[p], text[p + 1], text[p + 2]>>
    BY <1>1, <1>3, <1>4, <2>7, Short
  <2>10. TokenOf(x) = [kind |-> "int8", chars |-> <<"'", CharAt(p + 1), "'">>]
    BY <2>1, <2>5, <2>6, <2>8, <2>9 DEF TokenOf
  <2>11. Behind(x) = p + 3 /\ p + 3 \in Rest
    <3>1. p + 3 \in 1 .. n + 1 BY <1>4, <2>7
    <3>2. Behind(x) = p + 3 BY <1>4, <2>5 DEF Behind
    <3> QED BY <1>3, <3>1, <3>2 DEF Rest
  <2>12. Return("int8", <<"'", CharAt(p + 1), "'">>, p + 3) BY <1>13 DEF ReadChar, p
  <2>13. Follows(Append(out, TokenOf(x)), Behind(x))
    BY <1>1, <1>2, <1>6, <2>2, <2>5, FollowsLexeme
  <2> QED BY <2>10, <2>11, <2>12, <2>13, Returning
<1>14. CASE SkipOther
  <2>1. text[p] \in Other
    <3>1. text[p] # "end" BY <1>1, <1>2, CharIs
    <3> QED BY <1>2, <1>14, <3>1 DEF SkipOther
  <2>2. /\ text[p] \notin Letter /\ text[p] \notin Digit /\ text[p] \notin Blank
        /\ text[p] # "quote" /\ text[p] # "'" /\ text[p] \notin OneChar
        /\ <<text[p], CharAt(p + 1)>> \notin TwoChars
    BY <2>1, Disjoint, Symbols
  <2>3. x = Lexeme("none", p, p, 0) BY <1>6, <1>8, <2>2 DEF LexemeAt
  <2> QED BY <1>7, <2>2, <2>3 DEF Clean, Lexeme
<1> QED BY <1>9, <1>10, <1>11, <1>12, <1>13, <1>14

LEMMA SpecialApart == \A c \in Special : c \notin Letter \cup Digit
<1>1. "{" \in Other /\ "}" \in Other BY DEF Other
<1>2. \A c \in Special : c \in Blank \/ c \in OneChar \/ c = "quote" \/ c \in Other
  BY <1>1 DEF Special
<1> QED BY <1>2, Disjoint

LEMMA MidSteps ==
  ASSUME LInv, phase = "lex", at \in Places, text[at] # "/", state # "start", Lex
  PROVE  /\ ~Undefined /\ Place = at /\ Here = text[at]
         /\ state = "word" => ContinueWord \/ EndWord \/ FailWord
         /\ state = "number" => ContinueNumber \/ BeginFraction \/ EndNumber
         /\ state = "real" => ContinueReal \/ EndReal
         /\ state = "string" => ContinueString \/ EndString
<1>1. ~Undefined /\ Place = at /\ Here = text[at] BY InsideAt
<1>2. ~EndOfFile BY DEF EndOfFile, Places, LInv, TypeOK
<1>3. ~Lose BY <1>1 DEF Lose
<1>4. ~SkipBlank /\ ~Begin /\ ~ReadSymbol /\ ~ReadChar /\ ~SkipOther
  BY DEF SkipBlank, Begin, ReadSymbol, ReadChar, SkipOther, Reading
<1>5. ContinueWord \/ EndWord \/ FailWord => state = "word"
  BY DEF ContinueWord, EndWord, FailWord, Reading
<1>6. Throw => state = "fail" BY DEF Throw, Reading
<1>7. ContinueNumber \/ BeginFraction \/ EndNumber => state = "number"
  BY DEF ContinueNumber, BeginFraction, EndNumber, Reading
<1>8. ContinueReal \/ EndReal => state = "real" BY DEF ContinueReal, EndReal, Reading
<1>9. ContinueString \/ EndString => state = "string" BY DEF ContinueString, EndString, Reading
<1> QED BY <1>1, <1>2, <1>3, <1>4, <1>5, <1>6, <1>7, <1>8, <1>9 DEF Lex

\* One more character of the same token, of which the beginning is b.
LEMMA Going ==
  ASSUME LInv, phase = "lex", at \in Places, Here = text[at], NEW s, Go(s), Move(at + 1),
         NEW b \in Rest, Follows(out, b), Under(b, s, Append(token, text[at]), at + 1)
  PROVE  Onward
<1>1. state' = s /\ token' = Append(token, text[at]) /\ out' = out BY DEF Go
<1>2. PICK n : n = Len(text) OBVIOUS
<1>3. n \in Nat /\ at \in 1 .. n BY <1>2 DEF LInv, TypeOK, Places
<1>4. at + 1 \in Rest BY <1>2, <1>3 DEF Rest
<1>5. at' = at + 1 /\ phase' = "lex" BY <1>4, Moving
<1> QED BY <1>1, <1>5 DEF Onward, Stands

LEMMA WordSteps ==
  ASSUME LInv, phase = "lex", state = "word", NEW b \in Rest, Follows(out, b),
         InWord(b, token, at), Lex
  PROVE  Onward
<1>1. text \in Seq(Char) /\ out \in Seq(LexedToken) BY DEF LInv, TypeOK, LexedToken, Character
<1>2. PICK kind : kind = IF token \in Keyword THEN "keyword" ELSE "identifier" OBVIOUS
<1>3. /\ at \in Places /\ text[at] # "/" /\ text[at] \in Letter \cup Digit \cup Special
      /\ text[at] \notin Letter \cup Digit =>
           Follows(Append(out, [kind |-> kind, chars |-> token]), at)
  BY <1>1, <1>2, WordMid
<1>4. Place = at /\ Here = text[at] /\ (ContinueWord \/ EndWord \/ FailWord)
  BY <1>3, MidSteps
<1>5. CASE ContinueWord
  <2>1. text[at] \in Letter \cup Digit /\ Go("word") /\ Move(at + 1)
    BY <1>4, <1>5 DEF ContinueWord
  <2>2. /\ Holds(b, token, at) /\ b \in Places /\ at \in b .. Len(text)
        /\ text[b] \in Letter /\ Run(b, at, Letter \cup Digit)
    BY <1>3 DEF InWord, Holds, Places
  <2>3. Holds(b, Append(token, text[at]), at + 1) BY <1>1, <1>3, <2>2, Longer
  <2>4. Run(b, at + 1, Letter \cup Digit) BY <1>1, <2>1, <2>2, OneMore
  <2>5. Under(b, "word", Append(token, text[at]), at + 1) BY <2>2, <2>3, <2>4 DEF Under, InWord
  <2> QED BY <1>3, <1>4, <2>1, <2>5, Going
<1>6. CASE EndWord
  <2>1. text[at] \notin Letter \cup Digit
    <3>1. text[at] \in Special BY <1>4, <1>6 DEF EndWord
    <3> QED BY <3>1, SpecialApart
  <2>2. Return(kind, token, at) BY <1>2, <1>4, <1>6 DEF EndWord
  <2>3. at \in Rest BY <1>3 DEF Rest, Places
  <2> QED BY <1>3, <2>1, <2>2, <2>3, Returning
<1>7. CASE FailWord BY <1>3, <1>4, <1>7 DEF FailWord
<1> QED BY <1>4, <1>5, <1>6, <1>7

LEMMA NumberSteps ==
  ASSUME LInv, phase = "lex", state = "number", NEW b \in Rest, Follows(out, b),
         InNumber(b, token, at), Lex
  PROVE  Onward
<1>1. text \in Seq(Char) /\ out \in Seq(LexedToken) BY DEF LInv, TypeOK, LexedToken, Character
<1>2. /\ at \in Places /\ text[at] # "/"
      /\ text[at] \notin Digit /\ ~FractionAt(at) =>
           /\ Follows(Append(out, [kind |-> Width(at), chars |-> token]), at + Suffix(at))
           /\ at + Suffix(at) \in Rest
  BY <1>1, NumberMid
<1>3. Place = at /\ Here = text[at] /\ (ContinueNumber \/ BeginFraction \/ EndNumber)
  BY <1>2, MidSteps
<1>4. CharAt(at) = text[at] BY <1>2 DEF CharAt
<1>5. PICK n : n = Len(text) OBVIOUS
<1>6. n \in Nat /\ at \in 1 .. n /\ at \in Nat BY <1>1, <1>2, <1>5 DEF Places
<1>7. /\ Holds(b, token, at) /\ b \in Places /\ b \in 1 .. n /\ at \in b + 1 .. n
      /\ Run(b, at, Digit)
  BY <1>2, <1>5 DEF InNumber, Holds, Places
<1>8. Holds(b, Append(token, text[at]), at + 1) BY <1>1, <1>2, <1>7, Longer
<1>9. CASE ContinueNumber
  <2>1. text[at] \in Digit /\ Go("number") /\ Move(at + 1)
    BY <1>3, <1>9 DEF ContinueNumber
  <2>2. at \in b .. Len(text) BY <1>5, <1>7
  <2>3. Run(b, at + 1, Digit) BY <1>1, <1>7, <2>1, <2>2, OneMore
  <2>4. Under(b, "number", Append(token, text[at]), at + 1) BY <1>8, <2>3 DEF Under, InNumber
  <2> QED BY <1>2, <1>3, <2>1, <2>4, Going
<1>10. CASE BeginFraction
  <2>1. text[at] = "." /\ CharAt(at + 1) \in Digit /\ Go("real") /\ Move(at + 1)
    BY <1>3, <1>10 DEF BeginFraction
  <2>2. PICK a, t : a = at + 1 /\ t = Append(token, text[at]) OBVIOUS
  <2>3. at \in b + 1 .. a - 1 /\ \A k \in at + 1 .. a - 1 : FALSE BY <1>6, <1>7, <2>2
  <2>4. Run(at + 1, a, Digit) BY <2>3 DEF Run
  <2>5. Holds(b, t, a) BY <1>8, <2>2
  <2>6. InReal(b, t, a) BY <1>7, <2>1, <2>3, <2>4, <2>5 DEF InReal
  <2>7. Under(b, "real", t, a) BY <2>6 DEF Under
  <2> QED BY <1>2, <1>3, <2>1, <2>2, <2>7, Going
<1>11. CASE EndNumber
  <2>1. text[at] \notin Digit /\ ~FractionAt(at)
    BY <1>3, <1>4, <1>11 DEF EndNumber, FractionAt
  <2>2. Return(Width(at), token, at + Suffix(at))
    <3>1. at + 0 = at BY <1>6
    <3>2. CASE text[at] = "b"
      <4>1. Return("int8", token, at + 1) BY <1>3, <1>11, <3>2 DEF EndNumber
      <4>2. Width(at) = "int8" /\ Suffix(at) = 1 BY <1>4, <3>2 DEF Width, Suffix
      <4> QED BY <4>1, <4>2
    <3>3. CASE text[at] = "h"
      <4>1. Return("int16", token, at + 1) BY <1>3, <1>11, <3>3 DEF EndNumber
      <4>2. Width(at) = "int16" /\ Suffix(at) = 1 BY <1>4, <3>3 DEF Width, Suffix
      <4> QED BY <4>1, <4>2
    <3>4. CASE text[at] = "l" /\ CharAt(at + 1) = "l"
      <4>1. Return("int64", token, at + 2) BY <1>3, <1>11, <3>4 DEF EndNumber
      <4>2. Width(at) = "int64" /\ Suffix(at) = 2 BY <1>4, <3>4 DEF Width, Suffix
      <4> QED BY <4>1, <4>2
    <3>5. CASE text[at] = "l" /\ CharAt(at + 1) # "l"
      <4>1. Return("int32", token, at + 1) BY <1>3, <1>11, <3>5 DEF EndNumber
      <4>2. Width(at) = "int32" /\ Suffix(at) = 1 BY <1>4, <3>5 DEF Width, Suffix
      <4> QED BY <4>1, <4>2
    <3>6. CASE text[at] \notin {"b", "h", "l"}
      <4>1. Return("int32", token, at) BY <1>3, <1>11, <3>6 DEF EndNumber
      <4>2. Width(at) = "int32" /\ Suffix(at) = 0 BY <1>4, <3>6 DEF Width, Suffix
      <4> QED BY <3>1, <4>1, <4>2
    <3> QED BY <3>2, <3>3, <3>4, <3>5, <3>6
  <2> QED BY <1>2, <2>1, <2>2, Returning
<1> QED BY <1>3, <1>9, <1>10, <1>11

LEMMA RealSteps ==
  ASSUME LInv, phase = "lex", state = "real", NEW b \in Rest, Follows(out, b),
         InReal(b, token, at), Lex
  PROVE  Onward
<1>1. text \in Seq(Char) /\ out \in Seq(LexedToken) BY DEF LInv, TypeOK, LexedToken, Character
<1>2. /\ at \in Places /\ text[at] # "/"
      /\ text[at] \notin Digit => Follows(Append(out, [kind |-> "real", chars |-> token]), at)
  BY <1>1, RealMid
<1>3. Place = at /\ Here = text[at] /\ (ContinueReal \/ EndReal)
  BY <1>2, MidSteps
<1>4. CASE ContinueReal
  <2>1. text[at] \in Digit /\ Go("real") /\ Move(at + 1) BY <1>3, <1>4 DEF ContinueReal
  <2>2. PICK n : n = Len(text) OBVIOUS
  <2>3. n \in Nat /\ at \in 1 .. n BY <1>1, <1>2, <2>2 DEF Places
  <2>4. Holds(b, token, at) /\ b \in 1 .. n /\ at \in b + 1 .. n
    BY <1>2, <2>2 DEF InReal, Holds, Places
  <2>5. PICK a, t : a = at + 1 /\ t = Append(token, text[at]) OBVIOUS
  <2>6. Holds(b, t, a) BY <1>1, <1>2, <2>4, <2>5, Longer
  <2>7. PICK d \in b + 1 .. at - 1 :
          /\ Run(b, d, Digit) /\ text[d] = "." /\ CharAt(d + 1) \in Digit
          /\ Run(d + 1, at, Digit)
    BY DEF InReal
  <2>8. d \in b + 1 .. a - 1 /\ d + 1 \in 1 .. n /\ at \in d + 1 .. n
    BY <2>3, <2>4, <2>5, <2>7
  <2>9. Run(d + 1, a, Digit)
    <3>1. d + 1 \in Places /\ at \in d + 1 .. Len(text) BY <2>2, <2>8 DEF Places
    <3> QED BY <1>1, <2>1, <2>5, <2>7, <3>1, OneMore
  <2>10. InReal(b, t, a) BY <2>6, <2>7, <2>8, <2>9 DEF InReal
  <2>11. Under(b, "real", t, a) BY <2>10 DEF Under
  <2> QED BY <1>2, <1>3, <2>1, <2>5, <2>11, Going
<1>5. CASE EndReal
  <2>1. text[at] \notin Digit /\ Return("real", token, at) BY <1>3, <1>5 DEF EndReal
  <2>2. at \in Rest BY <1>2 DEF Rest, Places
  <2> QED BY <1>2, <2>1, <2>2, Returning
<1> QED BY <1>3, <1>4, <1>5

LEMMA StringSteps ==
  ASSUME LInv, phase = "lex", state = "string", NEW b \in Rest, Follows(out, b),
         InString(b, token, at), Lex
  PROVE  Onward
<1>1. text \in Seq(Char) /\ out \in Seq(LexedToken) BY DEF LInv, TypeOK, LexedToken, Character
<1>2. /\ at \in Places /\ text[at] # "/"
      /\ text[at] = "quote" =>
           Follows(Append(out, [kind |-> "string", chars |-> Append(token, "quote")]), at + 1)
  BY <1>1, StringMid
<1>3. Place = at /\ Here = text[at] /\ (ContinueString \/ EndString)
  BY <1>2, MidSteps
<1>4. PICK n : n = Len(text) OBVIOUS
<1>5. n \in Nat /\ at \in 1 .. n BY <1>1, <1>2, <1>4 DEF Places
<1>6. CASE ContinueString
  <2>1. text[at] # "quote" /\ Go("string") /\ Move(at + 1)
    BY <1>3, <1>6 DEF ContinueString
  <2>2. /\ Holds(b, token, at) /\ b \in 1 .. n /\ at \in b + 1 .. n
        /\ text[b] = "quote" /\ \A k \in b + 1 .. at - 1 : text[k] # "quote"
    BY <1>2, <1>4 DEF InString, Holds, Places
  <2>3. PICK a, t : a = at + 1 /\ t = Append(token, text[at]) OBVIOUS
  <2>4. Holds(b, t, a) BY <1>1, <1>2, <2>2, <2>3, Longer
  <2>5. \A k \in b + 1 .. a - 1 : k \in b + 1 .. at - 1 \/ k = at BY <1>5, <2>2, <2>3
  <2>6. \A k \in b + 1 .. a - 1 : text[k] # "quote" BY <2>1, <2>2, <2>5
  <2>7. InString(b, t, a) BY <2>2, <2>4, <2>6 DEF InString
  <2>8. Under(b, "string", t, a) BY <2>7 DEF Under
  <2> QED BY <1>2, <1>3, <2>1, <2>3, <2>8, Going
<1>7. CASE EndString
  <2>1. text[at] = "quote" /\ Return("string", Append(token, "quote"), at + 1)
    BY <1>3, <1>7 DEF EndString
  <2>2. at + 1 \in Rest BY <1>4, <1>5 DEF Rest
  <2> QED BY <1>2, <2>1, <2>2, Returning
<1> QED BY <1>3, <1>6, <1>7

\* At the end of the text nothing is under way, and what was returned is the whole.
LEMMA LexSteps ==
  ASSUME LInv, phase = "lex", Stands(out, state, token, at), Lex
  PROVE  \/ Onward
         \/ phase' = "done" /\ out' = out /\ out = Meaning[1].tokens
<1>1. text \in Seq(Char) /\ out \in Seq(LexedToken) BY DEF LInv, TypeOK, LexedToken, Character
<1>2. PICK b \in Rest : Follows(out, b) /\ Under(b, state, token, at) BY DEF Stands
<1>3. CASE state = "start" /\ b = at /\ token = << >>
  <2>1. CASE at \in Places BY <1>2, <1>3, <2>1, StartSteps
  <2>2. CASE at \notin Places
    <3>1. at = Len(text) + 1 BY <1>1, <1>2, <1>3, <2>2 DEF Rest, Places
    <3>2. out = Meaning[1].tokens BY <1>1, <1>2, <1>3, <3>1, FollowsEnd
    <3>3. ~Reading("start") /\ ~Reading("word") /\ ~Reading("fail") /\ ~Reading("number")
          /\ ~Reading("real") /\ ~Reading("string")
      BY <2>2 DEF Reading
    <3>4. ~Undefined BY <2>2 DEF Undefined, CharAt
    <3>5. EndOfFile
      BY <3>3, <3>4 DEF Lex, SkipBlank, Begin, ReadSymbol, ReadChar, SkipOther,
         ContinueWord, EndWord, FailWord, Throw, ContinueNumber, BeginFraction, EndNumber,
         ContinueReal, EndReal, ContinueString, EndString, Lose
    <3> QED BY <3>2, <3>5 DEF EndOfFile
  <2> QED BY <2>1, <2>2
<1>4. CASE state = "word" /\ InWord(b, token, at) BY <1>2, <1>4, WordSteps
<1>5. CASE state = "number" /\ InNumber(b, token, at) BY <1>2, <1>5, NumberSteps
<1>6. CASE state = "real" /\ InReal(b, token, at) BY <1>2, <1>6, RealSteps
<1>7. CASE state = "string" /\ InString(b, token, at) BY <1>2, <1>7, StringSteps
<1> QED BY <1>2, <1>3, <1>4, <1>5, <1>6, <1>7 DEF Under

\* What is said of an unchanged text stays true of it.
LEMMA SameMeaning ==
  ASSUME text' = text
  PROVE  Meaning' = Meaning
BY DEF Meaning, LexemeAt, NumberAt, Lexeme, TokenOf, Behind, CommentAt, CharAt, Places,
       EndOfLine, RunOf, Closing, First

LEMMA SameClean ==
  ASSUME text' = text, NEW i
  PROVE  CleanFrom(i)' <=> CleanFrom(i)
<1>1. \A x : Clean(x)' <=> Clean(x) BY DEF Clean, CharAt, Places, Behind
<1> QED BY <1>1, SameMeaning DEF CleanFrom

LEMMA SameStands ==
  ASSUME text' = text, NEW o, NEW s, NEW t, NEW a
  PROVE  Stands(o, s, t, a)' <=> Stands(o, s, t, a)
<1>1. \A b : Follows(o, b)' <=> Follows(o, b) BY SameMeaning, SameClean DEF Follows
<1>2. \A b : Under(b, s, t, a)' <=> Under(b, s, t, a)
  BY DEF Under, InWord, InNumber, InReal, InString, Holds, Run, CharAt, Places
<1>3. Rest' = Rest BY DEF Rest
<1> QED BY <1>1, <1>2, <1>3 DEF Stands

LEMMA PositionAfter ==
  ASSUME text' = text, Onward
  PROVE  Position'
<1>1. PICK o, s, t, a : o = out' /\ s = state' /\ t = token' /\ a = at' OBVIOUS
<1>2. phase' = "lex" /\ Stands(o, s, t, a) BY <1>1 DEF Onward
<1>3. Stands(o, s, t, a)' BY <1>2, SameStands
<1> QED BY <1>1, <1>2, <1>3 DEF Position

LEMMA WStep ==
  ASSUME LInv, WInv, [Next]_vars
  PROVE  WInv'
<1>1. CASE \E p \in Piece : Write(p)
  <2>1. phase' = "write" /\ at' = at /\ out' = out /\ phase = "write" BY <1>1 DEF Write
  <2> QED BY <2>1 DEF WInv
<1>2. CASE Start
  <2>1. /\ phase = "write" /\ phase' = "lex" /\ text' = text /\ at = 1 /\ out = << >>
        /\ UNCHANGED <<at, state, token, out>>
    BY <1>2 DEF Start, WInv
  <2>2. state = "start" /\ token = << >> BY <2>1 DEF LInv, Gathered
  <2>3. 1 \in Rest /\ text \in Seq(Char) BY DEF LInv, TypeOK, Rest
  <2>4. << >> \o Meaning[1].tokens = Meaning[1].tokens
    <3>1. Meaning[1].tokens \in Seq(AnyToken) BY <2>3, MeaningTyped
    <3> QED BY <3>1
  <2>5. ASSUME CleanFrom(1)' PROVE Position'
    <3>1. CleanFrom(1) BY <2>1, <2>5, SameClean
    <3>2. Follows(out', 1) BY <2>1, <2>4, <3>1 DEF Follows
    <3>3. Onward BY <2>1, <2>2, <2>3, <3>2, Beginning
    <3> QED BY <2>1, <3>3, PositionAfter
  <2> QED BY <2>1, <2>5 DEF WInv
<1>3. CASE Lex
  <2>1. phase = "lex" /\ text' = text /\ phase' # "write"
    BY <1>3 DEF Lex, SkipBlank, Begin, ReadSymbol, ReadChar, SkipOther, ContinueWord, EndWord,
       FailWord, Throw, ContinueNumber, BeginFraction, EndNumber, ContinueReal, EndReal,
       ContinueString, EndString, EndOfFile, Lose, Reading, Move, Return
  <2>2. ASSUME CleanFrom(1)' PROVE Position'
    <3>1. CleanFrom(1) BY <2>1, <2>2, SameClean
    <3>2. Position BY <2>1, <3>1 DEF WInv
    <3>3. Stands(out, state, token, at) BY <2>1, <3>2 DEF Position
    <3>4. CASE Onward BY <2>1, <3>4, PositionAfter
    <3>5. CASE phase' = "done" /\ out' = out /\ out = Meaning[1].tokens
      <4>1. out' = Meaning'[1].tokens BY <2>1, <3>5, SameMeaning
      <4> QED BY <3>5, <4>1 DEF Position
    <3> QED BY <1>3, <2>1, <3>3, <3>4, <3>5, LexSteps
  <2> QED BY <2>1, <2>2 DEF WInv
<1>4. CASE UNCHANGED vars
  <2>1. /\ text' = text /\ at' = at /\ state' = state /\ token' = token /\ out' = out
        /\ phase' = phase
    BY <1>4 DEF vars
  <2>2. ASSUME CleanFrom(1)', phase # "write" PROVE Position'
    <3>1. Position BY <2>1, <2>2, SameClean DEF WInv
    <3>2. CASE phase = "lex"
      <4>1. Stands(out, state, token, at) BY <3>1, <3>2 DEF Position
      <4>2. Onward BY <2>1, <3>2, <4>1 DEF Onward
      <4> QED BY <2>1, <4>2, PositionAfter
    <3>3. CASE phase # "lex"
      <4>1. Meaning' = Meaning BY <2>1, SameMeaning
      <4> QED BY <2>1, <3>1, <3>3, <4>1 DEF Position
    <3> QED BY <3>2, <3>3
  <2> QED BY <2>1, <2>2 DEF WInv
<1> QED BY <1>1, <1>2, <1>3, <1>4 DEF Next

\* The tokens of every text of which the automaton is known to do as the rules say, a text
\* of any length and with any comments, are the ones that the rules of the language make
\* of it (Lexer::next, called by lex until the end of the file): nothing is lost at a
\* comment, at a suffix or at a dot, and nothing is gathered into the next token.
THEOREM TextsLexed == Spec => []LexesAsWritten
<1>1. Init => WInv BY DEF Init, WInv
<1>2. LInv /\ WInv /\ [Next]_vars => WInv' BY WStep
<1>3. WInv => LexesAsWritten BY DEF WInv, Position, LexesAsWritten, CleanFrom
<1> QED BY <1>1, <1>2, <1>3, Invariant, PTL DEF Spec
=============================================================================
