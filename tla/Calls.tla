------------------------------- MODULE Calls --------------------------------
(***************************************************************************)
(* Calls in an expression: how the parser reads them and in which order    *)
(* they are then generated (src/frontend/parser/Parser.cc parseExpression, *)
(* parseCallExpression, parseMemberAccess, parsePrimary, parseArguments;   *)
(* src/backend/CodegenVisitor.cc, the visits of calls).                    *)
(*                                                                         *)
(* An author writes an expression of variables and calls; then the parser, *)
(* a recursive descent with its stack in `frames`, reads it token by token.*)
(* Three variants of parseArguments and their three callers share the work *)
(* of reading the closing brackets.  A call is known by the place of its   *)
(* name in the text.  Operators and plain brackets are left to Expr.       *)
(*                                                                         *)
(* Tokens: v a variable or a literal; f the name of a function or a class; *)
(* b and u a dot with the name of a method, built in (Integer.Plus, ...) or*)
(* the user's; and the brackets and the comma of the arguments.            *)
(***************************************************************************)
EXTENDS Integers, Sequences, SequencesExt

CONSTANT MaxToken   \* bound: tokens of the expression

ASSUME CallsAssumption == MaxToken \in Nat

Callee == {"f", "b", "u"}
Token == Callee \cup {"v", "(", ")", ","}

VARIABLES
  text,    \* the expression, as far as it is written
  inside,  \* the author: the open calls, [at, args] each, outermost first
  meant,   \* the author: operands and calls in postfix, [at, args] each
  mode,    \* what happens next
  at,      \* the parser: the token that peek() shows
  frames,  \* the parser: the calls whose arguments are being read
  value,   \* the parser: the parts of the expression just read
  read     \* the parser: like meant, for the tree that it has built

vars == <<text, inside, meant, mode, at, frames, value, read>>
parserVars == <<at, frames, value, read>>

-----------------------------------------------------------------------------
(***************************************************************************)
(* The author.                                                             *)
(***************************************************************************)

LastOf(s) == s[Len(s)]

\* Room for more tokens, an operand and all closing brackets.
Fits(n) == Len(text) + Len(inside) + n <= MaxToken

Writes(tokens, open, complete, next) ==
  /\ text' = text \o tokens
  /\ inside' = open
  /\ meant' = meant \o complete
  /\ mode' = next
  /\ UNCHANGED parserVars

WriteVariable ==
  /\ mode = "write operand"
  /\ Fits(1)
  /\ Writes(<<"v">>, inside, << [at |-> Len(text) + 1, args |-> 0] >>, "written")

\* A call with arguments, or without: then the operand it waits for is its end.
Opens(name, empty) ==
  LET call == [at |-> Len(text) + 1, args |-> 1]
  IN  IF empty
      THEN Fits(3) /\ Writes(<<name, "(", ")">>, inside, << [call EXCEPT !.args = 0] >>, "written")
      ELSE Fits(4) /\ Writes(<<name, "(">>, Append(inside, call), << >>, "write operand")

WriteCall == mode = "write operand" /\ \E empty \in BOOLEAN : Opens("f", empty)

\* A method of what was just written.  The generator takes the receiver of a user's
\* method for a variable.
WriteMethod ==
  /\ mode = "written"
  /\ \E empty \in BOOLEAN :
       Opens("b", empty) \/ (LastOf(text) = "v" /\ Opens("u", empty))

\* The methods that are built in take one argument at most.
WriteComma ==
  /\ mode = "written" /\ inside # << >>
  /\ text[LastOf(inside).at] # "b"
  /\ Fits(2)
  /\ Writes(<<",">>, [inside EXCEPT ![Len(inside)].args = @ + 1], << >>, "write operand")

WriteClose ==
  /\ mode = "written" /\ inside # << >>
  /\ Writes(<<")">>, Front(inside), <<LastOf(inside)>>, "written")

\* The statement ends, and the parser begins.
Finish ==
  /\ mode = "written" /\ inside = << >>
  /\ mode' = "operand"
  /\ UNCHANGED <<text, inside, meant, parserVars>>

-----------------------------------------------------------------------------
(***************************************************************************)
(* The generator.  What each part of an expression is worth is the sequence*)
(* of the calls that are generated when it is visited.                     *)
(***************************************************************************)

\* visit(FuncCallEXP&), visit(ConstructorCallEXP&): the arguments, then the call.
FunctionRuns(c, args) == FlattenSeq(args) \o <<c>>

\* visit(MethodCallEXP&): a builtin method visits its receiver and its first argument
\* (handleBuiltinMethodCall); a method of the user takes the receiver's slot and visits
\* the arguments.
MethodRuns(c, left, args) ==
  IF text[c] = "u" THEN FunctionRuns(c, args)
  ELSE left \o (IF args = << >> THEN << >> ELSE args[1]) \o <<c>>

\* Mutation: a chain of two is handed on as it is.
ChainRunsAll(parts) == FlattenSeq(parts)

\* The end of parseMemberAccess: of two parts the second is the expression, of more the
\* CompoundEXP, all of whose parts visit(CompoundEXP&) visits, though each has the one
\* before as its receiver.
ChainRuns(parts) == IF Len(parts) = 2 THEN parts[2] ELSE FlattenSeq(parts)

-----------------------------------------------------------------------------
(***************************************************************************)
(* The parser.                                                             *)
(***************************************************************************)

Peek(i) == IF i \in 1 .. Len(text) THEN text[i] ELSE "end"

\* Mutation: the token is read whatever it is.
PastAny(i) == i + 1

\* `if (peek()->kind == TOKEN_RBRACKET) next();`
Past(i) == IF Peek(i) = ")" THEN i + 1 ELSE i

Init ==
  /\ text = << >> /\ inside = << >> /\ meant = << >>
  /\ mode = "write operand"
  /\ at = 1 /\ frames = << >> /\ value = << >> /\ read = << >>

ReadOperand ==
  /\ mode = "operand" /\ Peek(at) = "v"
  /\ at' = at + 1
  /\ value' = << << >> >>
  /\ read' = Append(read, [at |-> at, args |-> 0])
  /\ mode' = "primary"
  /\ UNCHANGED <<text, inside, meant, frames>>

\* A name and its opening bracket.
ReadName(how, left) ==
  /\ at' = at + 2
  /\ frames' = Append(frames, [at |-> at, how |-> how, left |-> left, args |-> << >>])
  /\ mode' = "arguments"
  /\ UNCHANGED <<text, inside, meant, value, read>>

\* parsePrimary answers the name alone, and parseExpression sees the bracket.
ParseCallExpression == mode = "operand" /\ Peek(at) = "f" /\ ReadName("call", << >>)

\* The dot behind a variable is parsePrimary's; what it has read is the first part.
ParsePrimary == mode = "primary" /\ Peek(at) \in {"b", "u"} /\ ReadName("method", value)

\* Any further dot is parseMemberAccess's.
ParseMemberAccess == mode = "member" /\ Peek(at) \in {"b", "u"} /\ ReadName("link", value)

\* Mutation: all three variants of parseArguments read the closing bracket.
PastCallAlike(f, i) ==
  IF f.how = "method" THEN Past(i) ELSE Past(Past(i))

\* The closing brackets that are read once the arguments have been: i is where their
\* list ends.  parseArguments reads one for a call without arguments and for every
\* method call; parseCallExpression and parseMemberAccess then read one more.
PastCall(f, i) ==
  LET byArguments == IF f.args = << >> \/ f.how # "call" THEN Past(i) ELSE i
  IN  IF f.how = "method" THEN byArguments ELSE Past(byArguments)

\* The call f is complete.
Returns(f) ==
  LET left == IF f.left = << >> THEN << >> ELSE LastOf(f.left)
      runs == IF f.how = "call" THEN FunctionRuns(f.at, f.args)
              ELSE MethodRuns(f.at, left, f.args)
  IN  /\ at' = PastCall(f, at)
      /\ frames' = Front(frames)
      /\ value' = IF f.how = "link" THEN Append(f.left, runs) ELSE <<runs>>
      /\ read' = Append(read, [at |-> f.at, args |-> Len(f.args)])
      /\ mode' = IF f.how = "call" THEN "expression" ELSE "member"
      /\ UNCHANGED <<text, inside, meant>>

NoArguments == mode = "arguments" /\ Peek(at) = ")" /\ Returns(LastOf(frames))

FirstArgument ==
  /\ mode = "arguments" /\ Peek(at) # ")"
  /\ mode' = "operand"
  /\ UNCHANGED <<text, inside, meant, parserVars>>

\* Nothing of its own is left: parseExpression returns.
EndOfExpression ==
  /\ mode \in {"primary", "member"} /\ Peek(at) \notin {"b", "u"}
  /\ mode' = "expression"
  /\ value' = <<ChainRuns(value)>>
  /\ UNCHANGED <<text, inside, meant, at, frames, read>>

WithArgument(f) == [f EXCEPT !.args = Append(@, value[1])]

NextArgument ==
  /\ mode = "expression" /\ frames # << >> /\ Peek(at) = ","
  /\ at' = at + 1
  /\ frames' = [frames EXCEPT ![Len(frames)] = WithArgument(@)]
  /\ mode' = "operand"
  /\ UNCHANGED <<text, inside, meant, value, read>>

LastArgument ==
  /\ mode = "expression" /\ frames # << >> /\ Peek(at) # ","
  /\ Returns(WithArgument(LastOf(frames)))

\* The outermost parseExpression returns to the statement.
EndOfStatement ==
  /\ mode = "expression" /\ frames = << >>
  /\ mode' = "end"
  /\ UNCHANGED <<text, inside, meant, parserVars>>

Write == WriteVariable \/ WriteCall \/ WriteMethod \/ WriteComma \/ WriteClose \/ Finish

Parse ==
  \/ ReadOperand \/ ParseCallExpression \/ ParsePrimary \/ ParseMemberAccess
  \/ NoArguments \/ FirstArgument \/ NextArgument \/ LastArgument
  \/ EndOfExpression \/ EndOfStatement

Next == Write \/ Parse

Spec == Init /\ [][Next]_vars

-----------------------------------------------------------------------------
(***************************************************************************)
(* Properties.                                                             *)
(***************************************************************************)

Places == 1 .. Len(text)

Call == [at : Places, args : Nat]

Frame ==
  [at : Places, how : {"call", "method", "link"}, left : Seq(Seq(Places)),
   args : Seq(Seq(Places))]

TypeOK ==
  /\ text \in Seq(Token) /\ Len(text) <= MaxToken
  /\ inside \in Seq(Call) /\ meant \in Seq(Call)
  /\ mode \in {"write operand", "written", "operand", "primary", "arguments", "member",
               "expression", "end"}
  /\ at \in 1 .. Len(text) + 1
  /\ frames \in Seq(Frame)
  /\ value \in Seq(Seq(Places))
  /\ read \in Seq(Call)

\* The brackets that are open behind each token.
OpenBehind(i, open) ==
  IF i = 0 THEN << >>
  ELSE IF text[i] = "(" THEN Append(open[i - 1], i)
  ELSE IF text[i] = ")" THEN Front(open[i - 1])
  ELSE open[i - 1]

Opened == LET open[i \in 0 .. Len(text)] == OpenBehind(i, open) IN open

\* The closing brackets, and the name of the call that each belongs to.
Closings == {p \in Places : text[p] = ")"}
CalleeOf(p) == LastOf(Opened[p - 1]) - 1

\* A call without arguments, and a method of what a call answers: the parser reads one
\* bracket more than is theirs, if there is one.
Grasping(p) ==
  \/ text[CalleeOf(p)] = "f" /\ text[p - 1] = "("
  \/ text[CalleeOf(p)] # "f" /\ text[CalleeOf(p) - 1] = ")"

\* The bracket that such a call takes is not missed while nothing but other brackets
\* follows; and there is no method of what a function answers.
Readable ==
  /\ \A p \in Closings : Grasping(p) /\ Peek(p + 1) = ")" =>
       \A q \in p + 1 .. Len(text) : text[q] = ")"
  /\ \A p \in Closings : text[CalleeOf(p)] = "f" => Peek(p + 1) \notin {"b", "u"}

\* The tree that the parser builds is that of the text, every call with its arguments,
\* and nothing is left unread, for all readable expressions: the brackets that the
\* three variants of parseArguments leave or take add up.
ReadsAsWritten ==
  mode = "end" /\ Readable => read = meant /\ at = Len(text) + 1

\* Methods called on the result of a method called on the result of a method.
LongChain ==
  \E p, q \in Closings :
    /\ Peek(p + 1) = "b" /\ CalleeOf(q) = p + 1
    /\ Peek(q + 1) = "b" /\ text[CalleeOf(p)] # "f"

\* The calls among the first k of what is meant.
CallsTo(k, calls) ==
  IF k = 0 THEN << >>
  ELSE IF text[meant[k].at] = "v" THEN calls[k - 1]
  ELSE Append(calls[k - 1], meant[k].at)

CallsMeant == LET calls[k \in 0 .. Len(meant)] == CallsTo(k, calls) IN calls[Len(meant)]

\* Every call of the text is generated, once, after its receiver and its arguments, in
\* an expression without long chains (the visits of the call expressions).
RunsOnce == mode = "end" /\ Readable /\ ~LongChain => value = <<CallsMeant>>
=============================================================================
