-------------------------------- MODULE Lexer --------------------------------
(***************************************************************************)
(* The automaton that cuts a source text into tokens                       *)
(* (src/frontend/lexer/Lexer.cc): next(), called until the end of the file *)
(* by lex(), one action for each way through its loop.                     *)
(*                                                                         *)
(* A character is a string of one character; "newline" and "quote" are two *)
(* of them and "end" is the NUL behind the last.  A token is its kind and  *)
(* the characters that it was made from.                                   *)
(***************************************************************************)
EXTENDS Integers, Sequences, FiniteSets

CONSTANTS
  Piece,      \* what the texts of a run are put together from: strings of characters
  Keyword,    \* the words that in_word_set knows
  MaxPiece    \* bound: pieces of a text

Letter == {"a", "b", "h", "i", "l", "s", "x", "_"}
Digit == {"0", "1", "2"}
Blank == {" ", "newline"}

\* What START makes a token of at once: the symbols of one character, and those of
\* two, which it tries first.
OneChar == {":", "=", ">", "<", "(", ")", ",", "[", "]", ".", "&", "|", "^", "!", "~",
            "+", "-", "*", "/", "%"}
TwoChars == {<<":", "=">>, <<":", ":">>, <<"=", ">">>, <<"=", "=">>, <<">", ">">>,
             <<">", "=">>, <<"<", "<">>, <<"<", "=">>, <<"&", "&">>, <<"|", "|">>,
             <<"!", "=">>}

\* isSpecial: what may stand right behind a word.
Special == Blank \cup (OneChar \ {"+", "-", "*"}) \cup {"quote", "{", "}"}

\* The rest, of which START makes nothing.
Other == {"{", "}", ";", "@"}

Char == Letter \cup Digit \cup Blank \cup OneChar \cup Other \cup {"quote", "'"}

ASSUME LexerAssumption ==
  /\ Piece \subseteq Seq(Char)
  /\ Keyword \subseteq Seq(Letter)
  /\ MaxPiece \in Nat

VARIABLES
  text,     \* SourceBuffer::data
  pieces,   \* how many pieces it was put together from
  at,       \* where Lexer::buffer points to: the next character
  state,    \* curr_state, which outlives a call of next()
  token,    \* the characters that this call has gathered
  out,      \* the tokens returned so far
  phase     \* the author writes, the lexer reads, and is done or failed

vars == <<text, pieces, at, state, token, out, phase>>

Places == 1 .. Len(text)
CharAt(i) == IF i \in Places THEN text[i] ELSE "end"

-----------------------------------------------------------------------------
(***************************************************************************)
(* Where next() looks.                                                     *)
(***************************************************************************)

Init ==
  /\ text = << >>
  /\ pieces = 0
  /\ at = 1
  /\ state = "start"
  /\ token = << >>
  /\ out = << >>
  /\ phase = "write"

Write(p) ==
  /\ phase = "write"
  /\ pieces < MaxPiece
  /\ text' = text \o p
  /\ pieces' = pieces + 1
  /\ UNCHANGED <<at, state, token, out, phase>>

Start ==
  /\ phase = "write"
  /\ phase' = "lex"
  /\ UNCHANGED <<text, pieces, at, state, token, out>>

CommentAt(i) == CharAt(i) = "/" /\ CharAt(i + 1) = "/"

\* The end of the line that i is on: its newline, or the last character.
EndOfLine(i) ==
  CHOOSE j \in i .. Len(text) :
    /\ text[j] = "newline" \/ j = Len(text)
    /\ \A k \in i .. j - 1 : text[k] # "newline"

\* A slash that begins no comment leaves the loop, and next() without a return value;
\* a comment on a last line without a newline is skipped to beyond the buffer.
Undefined ==
  CharAt(at) = "/" /\ (CommentAt(at) => text[EndOfLine(at)] # "newline")

\* The character that the switch looks at is the one behind the comment, which is
\* neither taken for another comment nor for the end of the file.
Place == IF CommentAt(at) THEN EndOfLine(at) + 1 ELSE at
Here == CharAt(Place)

Reading(s) == phase = "lex" /\ at \in Places /\ ~Undefined /\ state = s

\* Mutation: nobody minds where it goes.
MoveOn(i) ==
  /\ at' = i
  /\ UNCHANGED <<text, pieces, phase>>

\* The pointer moves to i; beyond the NUL it is lost.
Move(i) ==
  /\ at' = i
  /\ phase' = IF i > Len(text) + 1 THEN "failed" ELSE phase
  /\ UNCHANGED <<text, pieces>>

\* No token yet: the loop goes on with the character behind this one.
Go(s) ==
  /\ state' = s
  /\ token' = Append(token, Here)
  /\ UNCHANGED out

\* A token is returned, and the next call begins at i.
Return(kind, chars, i) ==
  /\ out' = Append(out, [kind |-> kind, chars |-> chars])
  /\ token' = << >>
  /\ state' = "start"
  /\ Move(i)

-----------------------------------------------------------------------------
(***************************************************************************)
(* The states.                                                             *)
(***************************************************************************)

\* START
SkipBlank ==
  /\ Reading("start")
  /\ Here \in Blank
  /\ Move(Place + 1)
  /\ UNCHANGED <<state, token, out>>

Begin ==
  /\ Reading("start")
  /\ Here \in Letter \cup Digit \cup {"quote"}
  /\ Go(IF Here \in Letter THEN "word" ELSE IF Here \in Digit THEN "number" ELSE "string")
  /\ Move(Place + 1)

\* Mutation: only one character is looked at.
ReadShortSymbol ==
  /\ Reading("start")
  /\ Here \in OneChar
  /\ Return("symbol", <<Here>>, Place + 1)

ReadSymbol ==
  LET two == <<Here, CharAt(Place + 1)>>
  IN  /\ Reading("start")
      /\ Here \in OneChar
      /\ IF two \in TwoChars THEN Return("symbol", two, Place + 2)
         ELSE Return("symbol", <<Here>>, Place + 1)

\* 'c', of which the last character is not looked at.
ReadChar ==
  /\ Reading("start")
  /\ Here = "'"
  /\ Return("int8", <<"'", CharAt(Place + 1), "'">>, Place + 3)

\* Of what it does not know START skips two characters, and keeps the first.
SkipOther ==
  /\ Reading("start")
  /\ Here \in Other \cup {"end"}
  /\ Go("start")
  /\ Move(Place + 2)

\* READ_WORD
ContinueWord ==
  /\ Reading("word")
  /\ Here \in Letter \cup Digit
  /\ Go("word")
  /\ Move(Place + 1)

EndWord ==
  /\ Reading("word")
  /\ Here \in Special
  /\ Return(IF token \in Keyword THEN "keyword" ELSE "identifier", token, Place)

\* FAIL, which throws on the next round.
FailWord ==
  /\ Reading("word")
  /\ Here \notin Letter \cup Digit \cup Special
  /\ Go("fail")
  /\ Move(Place + 1)

Throw ==
  /\ Reading("fail")
  /\ phase' = "failed"
  /\ UNCHANGED <<text, pieces, at, state, token, out>>

\* READ_NUM.  A dot belongs to the number when a digit follows it.
ContinueNumber ==
  /\ Reading("number")
  /\ Here \in Digit
  /\ Go("number")
  /\ Move(Place + 1)

BeginFraction ==
  /\ Reading("number")
  /\ Here = "." /\ CharAt(Place + 1) \in Digit
  /\ Go("real")
  /\ Move(Place + 1)

EndNumber ==
  /\ Reading("number")
  /\ Here \notin Digit
  /\ Here = "." => CharAt(Place + 1) \notin Digit
  /\ CASE Here = "b" -> Return("int8", token, Place + 1)
       [] Here = "h" -> Return("int16", token, Place + 1)
       [] Here = "l" /\ CharAt(Place + 1) = "l" -> Return("int64", token, Place + 2)
       [] Here = "l" /\ CharAt(Place + 1) # "l" -> Return("int32", token, Place + 1)
       [] OTHER -> Return("int32", token, Place)

\* READ_REAL
\* Mutation: a second dot does too.
ContinueRealDotted ==
  /\ Reading("real")
  /\ Here \in Digit \cup {"."}
  /\ Go("real")
  /\ Move(Place + 1)

ContinueReal ==
  /\ Reading("real")
  /\ Here \in Digit
  /\ Go("real")
  /\ Move(Place + 1)

EndReal ==
  /\ Reading("real")
  /\ Here \notin Digit
  /\ Return("real", token, Place)

\* READ_STRING, which keeps both quotes.
ContinueString ==
  /\ Reading("string")
  /\ Here # "quote"
  /\ Go("string")
  /\ Move(Place + 1)

EndString ==
  /\ Reading("string")
  /\ Here = "quote"
  /\ Return("string", Append(token, "quote"), Place + 1)

\* Mutation: the end is looked for between two tokens only.
EndOfFileBetween ==
  /\ phase = "lex"
  /\ at = Len(text) + 1
  /\ state = "start"
  /\ phase' = "done"
  /\ UNCHANGED <<text, pieces, at, state, token, out>>

\* The end of the file, whatever was being read.
EndOfFile ==
  /\ phase = "lex"
  /\ at = Len(text) + 1
  /\ phase' = "done"
  /\ UNCHANGED <<text, pieces, at, state, token, out>>

Lose ==
  /\ phase = "lex"
  /\ Undefined
  /\ phase' = "failed"
  /\ UNCHANGED <<text, pieces, at, state, token, out>>

Lex ==
  \/ SkipBlank \/ Begin \/ ReadSymbol \/ ReadChar \/ SkipOther
  \/ ContinueWord \/ EndWord \/ FailWord \/ Throw
  \/ ContinueNumber \/ BeginFraction \/ EndNumber \/ ContinueReal \/ EndReal
  \/ ContinueString \/ EndString
  \/ EndOfFile \/ Lose

Next == (\E p \in Piece : Write(p)) \/ Start \/ Lex

Spec == Init /\ [][Next]_vars

\* lex() calls next() until it answers the end of the file.
FairSpec == Spec /\ WF_vars(Lex)

-----------------------------------------------------------------------------
(***************************************************************************)
(* What a text means: the reference that the automaton is checked against. *)
(* A lexeme is the longest piece of text, from its first character on, that*)
(* one rule describes.                                                     *)
(***************************************************************************)

\* The last of the characters from i on that are all in S.
RunOf(i, S) ==
  CHOOSE j \in i .. Len(text) :
    /\ \A k \in i .. j : text[k] \in S
    /\ CharAt(j + 1) \notin S

Closing(i) == {j \in i + 1 .. Len(text) : text[j] = "quote"}
First(S) == CHOOSE i \in S : \A j \in S : i <= j

\* kind, first and last character of the lexeme at i; the suffix of a number, which
\* belongs to it, is counted apart.
Lexeme(kind, i, j, suffix) == [kind |-> kind, first |-> i, last |-> j, suffix |-> suffix]

NumberAt(i) ==
  LET j == RunOf(i, Digit)
      next == CharAt(j + 1)
  IN  IF next = "." /\ CharAt(j + 2) \in Digit THEN Lexeme("real", i, RunOf(j + 2, Digit), 0)
      ELSE IF next = "b" THEN Lexeme("int8", i, j, 1)
      ELSE IF next = "h" THEN Lexeme("int16", i, j, 1)
      ELSE IF next # "l" THEN Lexeme("int32", i, j, 0)
      ELSE IF CharAt(j + 2) # "l" THEN Lexeme("int32", i, j, 1)
      ELSE Lexeme("int64", i, j, 2)

LexemeAt(i) ==
  LET c == text[i]
      word == SubSeq(text, i, RunOf(i, Letter \cup Digit))
  IN  IF CommentAt(i) THEN Lexeme("comment", i, EndOfLine(i), 0)
      ELSE IF c \in Letter
      THEN Lexeme(IF word \in Keyword THEN "keyword" ELSE "identifier",
                  i, i + Len(word) - 1, 0)
      ELSE IF c \in Digit THEN NumberAt(i)
      ELSE IF c = "quote" /\ Closing(i) # {} THEN Lexeme("string", i, First(Closing(i)), 0)
      ELSE IF c = "'" /\ CharAt(i + 2) = "'" THEN Lexeme("int8", i, i + 2, 0)
      ELSE IF <<c, CharAt(i + 1)>> \in TwoChars THEN Lexeme("symbol", i, i + 1, 0)
      ELSE IF c \in OneChar THEN Lexeme("symbol", i, i, 0)
      ELSE Lexeme("none", i, i, 0)

\* Where the text goes on behind a lexeme, and the token that it makes.
Behind(x) == x.last + x.suffix + 1
TokenOf(x) == [kind |-> x.kind, chars |-> SubSeq(text, x.first, x.last)]

\* The lexemes of the text from each character on, and the tokens that they make, one
\* after the other: a comment makes none.
Meaning ==
  LET from[i \in 1 .. Len(text) + 1] ==
        IF i = Len(text) + 1 THEN [lexemes |-> {}, tokens |-> << >>]
        ELSE IF text[i] \in Blank THEN from[i + 1]
        ELSE LET x == LexemeAt(i)
                 rest == from[Behind(x)]
             IN  [lexemes |-> {x} \cup rest.lexemes,
                  tokens |-> IF x.kind = "comment" THEN rest.tokens
                             ELSE <<TokenOf(x)>> \o rest.tokens]
  IN  from

-----------------------------------------------------------------------------
(***************************************************************************)
(* Properties.                                                             *)
(***************************************************************************)

TokenKind == {"keyword", "identifier", "int8", "int16", "int32", "int64", "real",
              "string", "symbol"}

\* Types; the pointer is never more than two characters beyond the NUL, and is beyond
\* it only when the lexer has failed.
TypeOK ==
  /\ text \in Seq(Char) /\ pieces \in 0 .. MaxPiece
  /\ at \in 1 .. Len(text) + 3
  /\ at > Len(text) + 1 => phase = "failed"
  /\ state \in {"start", "word", "number", "real", "string", "fail"}
  /\ token \in Seq(Char \cup {"end"})
  /\ out \in Seq([kind : TokenKind, chars : Seq(Char \cup {"end"})])
  /\ phase \in {"write", "lex", "done", "failed"}

\* A text on which the automaton is known to do as the rules say.
Clean(x) ==
  LET behind == CharAt(Behind(x))
  IN  /\ x.kind # "none"
      /\ x.kind = "symbol" => text[x.first] # "/"
      /\ x.kind \in {"keyword", "identifier"} => behind \in Special
      /\ x.kind \in {"keyword", "identifier", "int8", "int16", "int32", "int64", "real"} =>
           behind \notin {"end", "/"}
      /\ x.kind = "string" => \A i \in x.first .. x.last : text[i] # "/"
      /\ x.kind = "comment" => text[x.last] = "newline" /\ behind \notin {"end", "/"}

\* Of a text without a division, without words next to +, - or *, without a comment
\* right behind a word or a number, inside a string, at the end of the file or right
\* before another, and that does not end in a word or a number, the lexer makes the
\* tokens that the rules of the language make of it (Lexer::next).
LexesAsWritten ==
  phase \in {"done", "failed"} /\ (\A x \in Meaning[1].lexemes : Clean(x)) =>
    phase = "done" /\ out = Meaning[1].tokens

\* Nothing in the text for START to skip.
NoOther == \A i \in Places : text[i] \notin Other

\* Where START skips nothing, what goes to std::stoi is a numeral and what goes to
\* std::stod is one with a fraction, though comments are skipped in the midst of both:
\* neither throws for want of digits (READ_NUM and READ_REAL of Lexer::next).
NumeralsConvert ==
  NoOther =>
    /\ state = "number" => token # << >> /\ \A k \in 1 .. Len(token) : token[k] \in Digit
    /\ state = "real" =>
         \E d \in 2 .. Len(token) : \A k \in 1 .. Len(token) :
           token[k] \in IF k = d THEN {"."} ELSE Digit

\* Every text is read to its end or fails (Lexer::lex), although the character behind a
\* word or a number is looked at twice, by the call that returns the token and by the
\* next one, which goes on only because the state was set back, and although the end may
\* be met in any state.
LexEnds == phase = "lex" ~> phase \in {"done", "failed"}

=============================================================================
