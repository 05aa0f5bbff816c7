-------------------------------- MODULE Expr --------------------------------
(***************************************************************************)
(* How the parser reads an expression of operands, operators and brackets: *)
(* parseExpression, parsePrimary and the two stacks of parseBinaryOp       *)
(* (src/frontend/parser/Parser.cc).                                        *)
(*                                                                         *)
(* An operand is one token: "identifier", or "literal" for what does not   *)
(* end in an identifier.  Calls, member accesses and assignments, which    *)
(* parsePrimary and parseExpression read as a whole, are such operands.    *)
(*                                                                         *)
(* A tree is written down in postfix order: k is the operand or the binary *)
(* operator at token k, -k the unary operator there, and 0 is a nullptr.   *)
(***************************************************************************)
EXTENDS Integers, Sequences, FiniteSets

CONSTANTS
  Token,      \* what the expressions of a run are made of
  MaxToken    \* bound: tokens of an expression

Operand == {"identifier", "literal"}

\* is_binary_operator and is_unary_operator, which share one token.  The lexer never
\* makes the increment and decrement tokens.
BinaryToken ==
  {"*", "/", "%", "+", "-", "<<", ">>", "<", "<=", ">", ">=", "==", "!=",
   "&", "^", "|", "&&", "||"}
UnaryToken == {"!", "~", "^"}

ASSUME ExprAssumption ==
  /\ Token \subseteq Operand \cup BinaryToken \cup UnaryToken \cup {"(", ")"}
  /\ MaxToken \in Nat

\* The groups of getPrecedence in the order of its comments, from "Unary" on: the
\* first binds tightest.  "u-" is OP_UNARY_MINUS.
Group ==
  << {"u-", "!", "~"}, {"*", "/", "%"}, {"+", "-"}, {"<<", ">>"}, {"<", "<=", ">", ">="},
     {"==", "!="}, {"&"}, {"^"}, {"|"}, {"&&"}, {"||"} >>

GroupOf(op) == CHOOSE g \in 1 .. Len(Group) : op \in Group[g]

\* The numbers it returns, of which the greatest binds tightest.
Precedence(op) == <<2, 4, 3, 5, 6, 7, 8, 9, 10, 11, 12>>[GroupOf(op)]

VARIABLES
  tokens,   \* the expression; after it comes a token that no expression goes on with
  pos,      \* how many tokens were read
  frames,   \* the calls of parseBinaryOp that are under way, outermost first
  value,    \* what the last parseExpression returned
  phase     \* what comes next

vars == <<tokens, pos, frames, value, phase>>

\* The two stacks, and what the nested parseExpression is for: a bracket that the loop
\* found itself, or one that parsePrimary found where an operator needs its operand.
\* op is the unary operator that does, if it is one.
NewFrame(exprs) == [ops |-> << >>, exprs |-> exprs, wait |-> "none", op |-> 0]

Peek == IF pos < Len(tokens) THEN tokens[pos + 1] ELSE "stop"
Top == frames[Len(frames)]
LastOf(s) == s[Len(s)]
Front(s) == SubSeq(s, 1, Len(s) - 1)

\* tokenToOperator, of token k.  What it looks at to tell the two minus signs apart is
\* the token before.
Operator(k) ==
  IF tokens[k] = "-" /\ (k = 1 \/ tokens[k - 1] # "identifier") THEN "u-" ELSE tokens[k]

-----------------------------------------------------------------------------
(***************************************************************************)
(* The author: any expression of the language, as the tests write them.    *)
(***************************************************************************)

Brackets(s) ==
  Cardinality({k \in 1 .. Len(s) : s[k] = "("}) - Cardinality({k \in 1 .. Len(s) : s[k] = ")"})

\* The next token has to begin an operand.
Expecting == tokens = << >> \/ LastOf(tokens) \notin Operand \cup {")"}

Init ==
  /\ tokens = << >>
  /\ pos = 0
  /\ frames = << >>
  /\ value = << >>
  /\ phase = "write"

Write(t) ==
  /\ phase = "write"
  /\ Len(tokens) < MaxToken
  /\ t \in IF Expecting THEN Operand \cup {"!", "~", "("} ELSE BinaryToken \cup {")"}
  /\ t = ")" => Brackets(tokens) > 0
  /\ tokens' = Append(tokens, t)
  /\ UNCHANGED <<pos, frames, value, phase>>

Start ==
  /\ phase = "write"
  /\ ~Expecting /\ Brackets(tokens) = 0
  /\ phase' = "expression"
  /\ UNCHANGED <<tokens, pos, frames, value>>

-----------------------------------------------------------------------------
(***************************************************************************)
(* The parser.                                                             *)
(***************************************************************************)

\* parseExpression: an operator or a bracket goes to parseBinaryOp(nullptr).
BeginWithOperator ==
  /\ phase = "expression"
  /\ Peek \in UnaryToken \cup {"("}
  /\ frames' = Append(frames, NewFrame(<< >>))
  /\ phase' = "loop"
  /\ UNCHANGED <<tokens, pos, value>>

\* An operand goes with it when a binary operator follows, and is all there is when
\* none does.
BeginWithOperand ==
  LET goesOn == pos + 2 <= Len(tokens) /\ tokens[pos + 2] \in BinaryToken
      leaf == <<pos + 1>>
  IN  /\ phase = "expression"
      /\ Peek \in Operand
      /\ pos' = pos + 1
      /\ frames' = IF goesOn THEN Append(frames, NewFrame(<<leaf>>)) ELSE frames
      /\ value' = IF goesOn THEN value ELSE leaf
      /\ phase' = IF goesOn THEN "loop" ELSE "return"
      /\ UNCHANGED tokens

\* Mutation: a nullptr is not pushed.
ReadOperandIfAny(fr, wait, unary) ==
  LET t == tokens[pos + 2]
  IN  /\ pos' = pos + 2
      /\ frames' = Append(Front(frames),
                          IF t = "(" THEN [fr EXCEPT !.wait = wait, !.op = pos + 1]
                          ELSE IF t \notin Operand THEN fr
                          ELSE [fr EXCEPT !.exprs = Append(@, <<pos + 2>> \o unary)])
      /\ phase' = IF t = "(" THEN "expression" ELSE "loop"
      /\ UNCHANGED <<tokens, value>>

\* The operator at the next token is read, and its operand by parsePrimary, which
\* reads any token and answers nullptr for one that it does not know.  fr is the
\* frame with the operator; unary is in postfix order behind the operand.
ReadOperand(fr, wait, unary) ==
  LET t == tokens[pos + 2]
      e == IF t \in Operand THEN <<pos + 2>> ELSE <<0>>
  IN  /\ pos' = pos + 2
      /\ frames' = Append(Front(frames),
                          IF t = "(" THEN [fr EXCEPT !.wait = wait, !.op = pos + 1]
                          ELSE [fr EXCEPT !.exprs = Append(@, e \o unary)])
      /\ phase' = IF t = "(" THEN "expression" ELSE "loop"
      /\ UNCHANGED <<tokens, value>>

\* The loop of parseBinaryOp asks for a unary operator first.
ReadUnary ==
  /\ phase = "loop"
  /\ Peek \in UnaryToken \ {"~"}
  /\ ReadOperand(Top, "unary", <<-(pos + 1)>>)

\* tokenToOperator does not know it.
Throw ==
  /\ phase = "loop"
  /\ Peek = "~"
  /\ phase' = "failed"
  /\ UNCHANGED <<tokens, pos, frames, value>>

ReadGroup ==
  /\ phase = "loop"
  /\ Peek = "("
  /\ pos' = pos + 1
  /\ frames' = Append(Front(frames), [Top EXCEPT !.wait = "group"])
  /\ phase' = "expression"
  /\ UNCHANGED <<tokens, value>>

\* Neither of the two: a binary operator, or the end of the loop.
AtBinary == phase = "loop" /\ Peek \notin UnaryToken \cup {"("}

\* Mutation: an operator of the same precedence waits for what follows.
StrictlyYields ==
  Top.ops # << >>
  /\ (Peek \in BinaryToken =>
        Precedence(Operator(LastOf(Top.ops))) > Precedence(Operator(pos + 1)))

\* The operator on the stack comes before the one that was read.
Yields ==
  Top.ops # << >>
  /\ (Peek \in BinaryToken =>
        Precedence(Operator(LastOf(Top.ops))) >= Precedence(Operator(pos + 1)))

\* Mutation: the operands are taken in the order in which they were pushed.
SwappedOperands(exprs, op) ==
  LET n == Len(exprs)
  IN  Append(SubSeq(exprs, 1, n - 2), Append(exprs[n] \o exprs[n - 1], op))

\* What the expression stack is after BinaryOpEXP(op, left, right).
Combine(exprs, op) ==
  LET n == Len(exprs)
  IN  Append(SubSeq(exprs, 1, n - 2), Append(exprs[n - 1] \o exprs[n], op))

Reduce ==
  /\ AtBinary
  /\ Yields
  /\ frames' = Append(Front(frames),
                      [Top EXCEPT !.ops = Front(@),
                                  !.exprs = Combine(@, LastOf(Top.ops))])
  /\ UNCHANGED <<tokens, pos, value, phase>>

ReadBinary ==
  /\ AtBinary
  /\ Peek \in BinaryToken
  /\ ~Yields
  /\ ReadOperand([Top EXCEPT !.ops = Append(@, pos + 1)], "binary", << >>)

\* The end of parseBinaryOp, which returns the top of the expression stack.
EndBinary ==
  /\ AtBinary
  /\ Peek \notin BinaryToken
  /\ Top.ops = << >>
  /\ value' = LastOf(Top.exprs)
  /\ frames' = Front(frames)
  /\ phase' = "return"
  /\ UNCHANGED <<tokens, pos>>

\* The frame that waited for the nested expression has its value.
Resumed ==
  LET e == IF Top.wait = "unary" THEN Append(value, -Top.op) ELSE value
  IN  [Top EXCEPT !.exprs = Append(@, e), !.wait = "none", !.op = 0]

\* Mutation: both read it.
EndBracketTwice ==
  /\ phase = "return"
  /\ frames # << >>
  /\ pos' = IF Peek = ")" THEN pos + 2 ELSE pos + 1
  /\ frames' = Append(Front(frames), Resumed)
  /\ phase' = "loop"
  /\ UNCHANGED <<tokens, value>>

\* The end of a bracket: the loop reads the token behind it if it is the closing one,
\* parsePrimary whatever it is.
EndBracket ==
  /\ phase = "return"
  /\ frames # << >>
  /\ pos' = IF Top.wait = "group" /\ Peek # ")" THEN pos ELSE pos + 1
  /\ frames' = Append(Front(frames), Resumed)
  /\ phase' = "loop"
  /\ UNCHANGED <<tokens, value>>

Finish ==
  /\ phase = "return"
  /\ frames = << >>
  /\ phase' = "done"
  /\ UNCHANGED <<tokens, pos, frames, value>>

Parse ==
  \/ BeginWithOperator \/ BeginWithOperand
  \/ ReadUnary \/ Throw \/ ReadGroup \/ Reduce \/ ReadBinary \/ EndBinary
  \/ EndBracket \/ Finish

Next == (\E t \in Token : Write(t)) \/ Start \/ Parse

Spec == Init /\ [][Next]_vars

-----------------------------------------------------------------------------
(***************************************************************************)
(* Properties.                                                             *)
(***************************************************************************)

At == 1 .. Len(tokens)

FrameType ==
  [ops : Seq(Nat), exprs : Seq(Seq(Int)), wait : {"none", "group", "binary", "unary"}, op : Nat]

\* Types; every operator on a stack is the place of a binary operator in the
\* expression, and the parser stays inside it.
TypeOK ==
  /\ tokens \in Seq(Token) /\ Len(tokens) <= MaxToken
  /\ pos \in 0 .. Len(tokens)
  /\ frames \in Seq(FrameType)
  /\ \A f \in 1 .. Len(frames) : \A k \in 1 .. Len(frames[f].ops) :
       frames[f].ops[k] \in At /\ tokens[frames[f].ops[k]] \in BinaryToken
  /\ value \in Seq(Int)
  /\ phase \in {"write", "expression", "loop", "return", "done", "failed"}

\* Neither stack is ever asked for an element that it does not have, whatever was
\* dropped or left unread: the operators on the one always find their operands on the
\* other, over all the calls that are under way (std::stack::top in parseBinaryOp).
OperandsSuffice ==
  AtBinary => Len(Top.exprs) > Len(Top.ops)

\* What the parser is known not to read: the operator ^, which it takes for a unary
\* one, ~, and a unary operator right behind another operator.
Readable ==
  \A k \in At :
    /\ tokens[k] \notin {"^", "~"}
    /\ tokens[k] = "!" /\ k > 1 => tokens[k - 1] = "("

Nodes == {k \in At : tokens[k] \notin {"(", ")"}}

\* Of any other expression the parser reads every token, and every operand and
\* operator is in the tree once, the operands from left to right.
NothingDropped ==
  phase = "done" /\ Readable =>
    /\ pos = Len(tokens)
    /\ Len(value) = Cardinality(Nodes)
    /\ \A k \in Nodes : \E i \in 1 .. Len(value) :
         value[i] = IF tokens[k] = "!" THEN -k ELSE k
    /\ \A i, j \in 1 .. Len(value) :
         i < j /\ value[i] > 0 /\ value[j] > 0
           /\ tokens[value[i]] \in Operand /\ tokens[value[j]] \in Operand
         => value[i] < value[j]

-----------------------------------------------------------------------------
(***************************************************************************)
(* What an expression means: the reference that the two stacks are checked *)
(* against.  Of tokens i to j, the last of the loosest operators outside   *)
(* brackets is the root.                                                   *)
(***************************************************************************)

Splits(i, j) ==
  {k \in i .. j : /\ tokens[k] \in BinaryToken
                  /\ Brackets(SubSeq(tokens, i, k)) = 0}

Root(i, j) ==
  CHOOSE k \in Splits(i, j) :
    \A l \in Splits(i, j) :
      \/ GroupOf(tokens[l]) < GroupOf(tokens[k])
      \/ GroupOf(tokens[l]) = GroupOf(tokens[k]) /\ l <= k

\* The tree of tokens i to j, as trees[<<i, j>>].
Trees ==
  LET trees[ij \in (1 .. Len(tokens) + 1) \X (0 .. Len(tokens))] ==
        LET i == ij[1]
            j == ij[2]
        IN  IF i > j THEN << >>
            ELSE IF Splits(i, j) # {}
            THEN LET k == Root(i, j) IN trees[<<i, k - 1>>] \o trees[<<k + 1, j>>] \o <<k>>
            ELSE IF tokens[i] \in {"!", "~"} THEN trees[<<i + 1, j>>] \o <<-i>>
            ELSE IF tokens[i] = "(" THEN trees[<<i + 1, j - 1>>]
            ELSE <<i>>
  IN  trees

Meaning == Trees[<<1, Len(tokens)>>]

\* The numbers of getPrecedence put any two operators of the expression in the order
\* of its groups.
Agreeing ==
  \A k, l \in At :
    tokens[k] \in BinaryToken /\ tokens[l] \in BinaryToken =>
      (GroupOf(tokens[k]) <= GroupOf(tokens[l])
         <=> Precedence(Operator(k)) >= Precedence(Operator(l)))

\* Whenever the numbers agree with the groups, the two stacks build the tree that
\* precedence and association to the left give the expression.
ReadsAsWritten == phase = "done" /\ Readable /\ Agreeing => value = Meaning

-----------------------------------------------------------------------------
(***************************************************************************)
(* What the repository says of the program, and the code does not do.      *)
(***************************************************************************)

\* The comments of getPrecedence: "Postfix (highest precedence)", then "Additive"
\* before "Relational", "Equality", ..., "Logical OR".
CommentedPrecedence ==
  phase = "done" /\ Readable /\ (\A k \in At : tokens[k] # "-") => value = Meaning
=============================================================================
