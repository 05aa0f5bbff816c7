-------------------------------- MODULE Flow --------------------------------
(***************************************************************************)
(* The basic blocks of one function, method or constructor                 *)
(* (src/backend/CodegenVisitor.cc, the visits of the callables and of their *)
(* statements).                                                            *)
(*                                                                         *)
(* The generator walks the body of the callable and appends instructions   *)
(* at its insert point.  The body is whatever it meets on this walk, and is *)
(* kept as a text in which a statement is known by its place:              *)
(*                                                                         *)
(*   do       a statement without blocks of its own: assignment, expression *)
(*   var      the declaration of a local variable                          *)
(*   return   a return with a value, in the body of the callable itself    *)
(*   if .. else .. endif   of an if without an else nothing stands between *)
(*            else and endif; what begins with if there is an `else if`, the *)
(*            whole of the else part                                       *)
(*   for .. endfor                                                         *)
(*                                                                         *)
(* A return inside another statement, a while and a switch have no code    *)
(* (see ScopeWalk); they are not in the text.  Nor are bodies and parts     *)
(* without a statement, on which the compiler fails before (ScopeWalk).    *)
(***************************************************************************)
EXTENDS Integers, Sequences, FiniteSets

CONSTANT MaxText   \* bound: statements, the words else, endif and endfor included

ASSUME FlowAssumption == MaxText \in Nat

Callable == {"function", "method", "constructor"}
Word == {"do", "var", "return", "if", "else", "endif", "for", "endfor"}

VARIABLES
  typed,   \* the callable is declared with a type of its value
  isVoid,  \* FuncDecl::isVoid, MethodDecl::isVoid
  text,    \* the body, as far as it is visited
  open,    \* the statements that are being visited, outermost first
  blocks,  \* the basic blocks: of each its instructions
  insert,  \* the block at whose end the builder inserts
  from,    \* the values of the phis: pairs of a loop block and the block one comes from
  phase    \* "start", "body", "done", "crashed"

vars == <<typed, isVoid, text, open, blocks, insert, from, phase>>

-----------------------------------------------------------------------------
(***************************************************************************)
(* Instructions.  The code of a statement that runs straight through is one *)
(* instruction, known by the place of the statement and the part of it: the *)
(* whole, the test or the step.                                            *)
(***************************************************************************)

Part == {"run", "test", "step"}
Code(i, part) == [op |-> "code", at |-> i, part |-> part, to |-> {}]

\* CreateBr, CreateCondBr.
Branch(to) == [op |-> "branch", at |-> 0, part |-> "run", to |-> to]

\* CreateRet, CreateRetVoid.
Ret == [op |-> "ret", at |-> 0, part |-> "run", to |-> {}]

\* A block ends with an instruction of these.
Terminator == {"branch", "ret"}

LastOf(s) == s[Len(s)]
Front(s) == SubSeq(s, 1, Len(s) - 1)
Here == Len(text) + 1
Top == LastOf(open)

\* The blocks after new ones are created and instructions inserted.
Emits(code, new) ==
  blocks' = [blocks EXCEPT ![insert] = @ \o code] \o [k \in 1 .. new |-> << >>]

Reads(word) == phase = "body" /\ text' = Append(text, word)

Opener == {"if", "for"}
Closer == {"endif", "endfor"}

\* The statements that are open behind each of the words, outermost first.
Nesting(words) ==
  LET nest[k \in 0 .. Len(words)] ==
        IF k = 0 THEN << >>
        ELSE IF words[k] \in Opener THEN Append(nest[k - 1], k)
        ELSE IF words[k] \in Closer THEN Front(nest[k - 1])
        ELSE nest[k - 1]
  IN  nest

\* The statement that the else or the end at j belongs to.
OwnerOf(j) == LastOf(Nesting(text)[j - 1])

\* The else part is an if that has ended: parseIfStatement ends with it.
ElseIfOver ==
  /\ open # << >> /\ Top.word = "else"
  /\ LastOf(text) = "endif" /\ text[OwnerOf(Len(text)) - 1] = "else"

\* The generator is among statements, of the body or of a part of it: Block::accept visits
\* them in an else part too.
InBody == phase = "body" /\ ~ElseIfOver

\* The part that ends is not empty.
HasStatement(part) == Len(text) > part.at

\* Room for more, and for the ends of what is open.
Fits(n) == Len(text) + 2 * Len(open) + n <= MaxText

-----------------------------------------------------------------------------
Init ==
  /\ typed = FALSE /\ isVoid = FALSE
  /\ text = << >> /\ open = << >>
  /\ blocks = << >> /\ insert = 0 /\ from = {}
  /\ phase = "start"

\* visit(FuncDecl&), visit(MethodDecl&), visit(ConstrDecl&) up to the body.  The parser
\* sets isVoid of a callable without a type.  MethodDecl's constructor clears it, the
\* constructor of FuncDecl leaves it unset; visit(ConstrDecl&) acts as if it were set.
Enter ==
  /\ phase = "start"
  /\ \E callable \in Callable, hasType \in BOOLEAN, unset \in BOOLEAN :
       /\ callable = "constructor" => ~hasType
       /\ typed' = hasType
       /\ isVoid' = IF ~hasType THEN TRUE ELSE IF callable = "function" THEN unset ELSE FALSE
  /\ blocks' = << << >> >>
  /\ insert' = 1
  /\ phase' = "body"
  /\ UNCHANGED <<text, open, from>>

\* visit(AssignmentSTMT&) and the visits of expressions.
VisitDo ==
  /\ InBody /\ Reads("do") /\ Fits(1)
  /\ Emits(<<Code(Here, "run")>>, 0)
  /\ UNCHANGED <<typed, isVoid, open, insert, from, phase>>

\* Mutation: the parameter allocator, which inserts in the entry block, for variables.
VisitVarInEntry ==
  /\ InBody /\ Reads("var") /\ Fits(1)
  /\ blocks' = [blocks EXCEPT ![1] = <<Code(Here, "run")>> \o @]
  /\ UNCHANGED <<typed, isVoid, open, insert, from, phase>>

\* visit(VarDecl&): the slot is allocated where the declaration stands.
VisitVar ==
  /\ InBody /\ Reads("var") /\ Fits(1)
  /\ Emits(<<Code(Here, "run")>>, 0)
  /\ UNCHANGED <<typed, isVoid, open, insert, from, phase>>

\* visit(ReturnSTMT&) asks for the type of the callable's value.
VisitReturn ==
  /\ InBody /\ Reads("return") /\ Fits(1)
  /\ open = << >>
  /\ IF typed THEN Emits(<<Code(Here, "run"), Ret>>, 0) /\ phase' = phase
     ELSE phase' = "crashed" /\ UNCHANGED blocks
  /\ UNCHANGED <<typed, isVoid, open, insert, from>>

\* visit(IfSTMT&) up to the statements of the then part.
VisitIf ==
  /\ InBody /\ Reads("if") /\ Fits(3)
  /\ LET n == Len(blocks)
     IN  /\ Emits(<<Code(Here, "test"), Branch({n + 1, n + 2})>>, 3)
         /\ insert' = n + 1
         /\ open' = Append(open, [word |-> "if", at |-> Here, first |-> n + 2, last |-> n + 3])
  /\ UNCHANGED <<typed, isVoid, from, phase>>

\* visit(IfSTMT&), from the then part to the else part, if there is one.
VisitElse ==
  /\ open # << >> /\ Top.word = "if" /\ HasStatement(Top)
  /\ Reads("else")
  /\ Emits(<<Branch({Top.last})>>, 0)
  /\ insert' = Top.first
  /\ open' = [open EXCEPT ![Len(open)].word = "else"]
  /\ UNCHANGED <<typed, isVoid, from, phase>>

\* Mutation: the merge block is not branched to.
VisitEndIfFalls ==
  /\ open # << >> /\ Top.word = "else"
  /\ Reads("endif")
  /\ insert' = Top.last
  /\ open' = Front(open)
  /\ UNCHANGED <<typed, isVoid, blocks, from, phase>>

\* visit(IfSTMT&), the end.
VisitEndIf ==
  /\ open # << >> /\ Top.word = "else"
  /\ Reads("endif")
  /\ Emits(<<Branch({Top.last})>>, 0)
  /\ insert' = Top.last
  /\ open' = Front(open)
  /\ UNCHANGED <<typed, isVoid, from, phase>>

\* Mutation: AfterBB is left to be created.
VisitForWithoutAfter ==
  /\ InBody /\ Reads("for") /\ Fits(2)
  /\ LET loop == Len(blocks) + 1
     IN  /\ Emits(<<Branch({loop})>>, 1)
         /\ open' = Append(open, [word |-> "for", at |-> Here, first |-> loop, last |-> loop + 1])
         /\ insert' = loop
         /\ from' = from \cup {<<loop, insert>>}
  /\ UNCHANGED <<typed, isVoid, phase>>

\* visit(ForSTMT&) up to the body; LoopBB and AfterBB are created together.
VisitFor ==
  /\ InBody /\ Reads("for") /\ Fits(2)
  /\ LET loop == Len(blocks) + 1
     IN  /\ Emits(<<Branch({loop})>>, 2)
         /\ open' = Append(open, [word |-> "for", at |-> Here, first |-> loop, last |-> loop + 1])
         /\ insert' = loop
         /\ from' = from \cup {<<loop, insert>>}
  /\ UNCHANGED <<typed, isVoid, phase>>

\* Mutation: the phi takes the second value from the loop block.
VisitEndForOfLoop ==
  /\ open # << >> /\ Top.word = "for" /\ HasStatement(Top)
  /\ Reads("endfor")
  /\ Emits(<<Code(Top.at, "step"), Code(Top.at, "test"), Branch({Top.first, Top.last})>>, 0)
  /\ from' = from \cup {<<Top.first, Top.first>>}
  /\ insert' = Top.last
  /\ open' = Front(open)
  /\ UNCHANGED <<typed, isVoid, phase>>

\* visit(ForSTMT&), the end: the step, the test, and the loop again.
VisitEndFor ==
  /\ open # << >> /\ Top.word = "for" /\ HasStatement(Top)
  /\ Reads("endfor")
  /\ Emits(<<Code(Top.at, "step"), Code(Top.at, "test"), Branch({Top.first, Top.last})>>, 0)
  /\ from' = from \cup {<<Top.first, insert>>}
  /\ insert' = Top.last
  /\ open' = Front(open)
  /\ UNCHANGED <<typed, isVoid, phase>>

\* The end of the visits of the callables.
Leave ==
  /\ phase = "body" /\ open = << >> /\ text # << >>
  /\ IF isVoid THEN Emits(<<Ret>>, 0) ELSE UNCHANGED blocks
  /\ phase' = "done"
  /\ UNCHANGED <<typed, isVoid, text, open, insert, from>>

Next ==
  \/ Enter \/ Leave
  \/ VisitDo \/ VisitVar \/ VisitReturn
  \/ VisitIf \/ VisitElse \/ VisitEndIf
  \/ VisitFor \/ VisitEndFor

Spec == Init /\ [][Next]_vars

-----------------------------------------------------------------------------
(***************************************************************************)
(* Properties.                                                             *)
(***************************************************************************)

Block == 1 .. Len(blocks)
Instruction == [op : {"code"} \cup Terminator, at : Nat, part : Part, to : SUBSET Block]
Statement == [word : {"if", "else", "for"}, at : 1 .. Len(text), first : Block, last : Block]

\* The types of the variables: what is inserted branches to blocks there are, and the
\* statements that are visited stand in the text (CodeGenVisitor.cc).
TypeOK ==
  /\ typed \in BOOLEAN /\ isVoid \in BOOLEAN
  /\ phase \in {"start", "body", "done", "crashed"}
  /\ text \in Seq(Word)
  /\ blocks \in Seq(Seq(Instruction))
  /\ open \in Seq(Statement)
  /\ insert \in Block \cup {0}
  /\ insert = 0 <=> phase = "start"
  /\ from \in SUBSET (Block \X Block)

\* What LLVM's verifier asks of a block: one terminator, at the end.
Closed(code) ==
  /\ code # << >>
  /\ \A k \in 1 .. Len(code) : code[k].op \in Terminator <=> k = Len(code)

AllClosed == \A b \in Block : Closed(blocks[b])

NeverReturns == \A i \in 1 .. Len(text) : text[i] # "return"
ReturnsLast ==
  /\ text # << >> /\ LastOf(text) = "return"
  /\ \A i \in 1 .. Len(text) - 1 : text[i] # "return"

\* A module of a callable that ends without a return, or goes on after one, is thrown
\* away (createObjFile leaves when verifyModule fails), whatever the return is followed
\* by; no other body of a callable is.  A function whose isVoid is read as set when its
\* constructor never set it fails the same way.
Verifies ==
  phase = "done" => (AllClosed <=> IF isVoid THEN NeverReturns ELSE ReturnsLast)

Verified == phase = "done" /\ AllClosed

\* The verifier also asks that a phi has a value for each block that branches to its
\* own.  The body of a for may end in another block than it begins in, when it holds an
\* if or a for: visit(ForSTMT&) takes the value from where the builder then is.
PhisMatch ==
  Verified =>
    \A loop \in {p[1] : p \in from} :
      {p[2] : p \in {q \in from : q[1] = loop}} = {b \in Block : loop \in LastOf(blocks[b]).to}

(***************************************************************************)
(* The meaning of the text: the code that may run after each code.         *)
(***************************************************************************)

\* What belongs to the statement at i.
PartOf(i, words) == CHOOSE j \in 1 .. Len(text) : text[j] \in words /\ OwnerOf(j) = i
EndOf(i) == PartOf(i, Closer)
ElseOf(i) == PartOf(i, {"else"})

End == <<0, "run">>

\* The code that runs when the statement at i, or what stands there, is come to, when
\* arrive says it of what stands behind.
ArriveAt(i, arrive) ==
  IF i = Here THEN End
  ELSE CASE text[i] \in {"do", "var", "return"} -> <<i, "run">>
         [] text[i] = "if" -> <<i, "test">>
         [] text[i] = "else" -> arrive[EndOf(OwnerOf(i)) + 1]
         [] text[i] = "endfor" -> <<OwnerOf(i), "step">>
         [] text[i] \in {"for", "endif"} -> arrive[i + 1]

Arrives == LET arrive[i \in 1 .. Here] == ArriveAt(i, arrive) IN arrive

\* What may run after the code of the statement at i.  A for runs its body first and
\* tests after the step, as do-while does.
Leads(i, arrive) ==
  CASE text[i] \in {"do", "var"} -> {<< <<i, "run">>, arrive[i + 1]>>}
    [] text[i] = "return" -> {<< <<i, "run">>, End>>}
    [] text[i] = "if" -> {<< <<i, "test">>, arrive[i + 1]>>,
                          << <<i, "test">>, arrive[ElseOf(i) + 1]>>}
    [] text[i] = "for" -> {<< <<i, "step">>, <<i, "test">> >>, << <<i, "test">>, arrive[i + 1]>>,
                           << <<i, "test">>, arrive[EndOf(i) + 1]>>}
    [] text[i] \in {"else", "endif", "endfor"} -> {}

Meant ==
  LET arrive == Arrives
  IN  {<<End, arrive[1]>>} \cup UNION {Leads(i, arrive) : i \in 1 .. Len(text)}

\* The code that control comes to at an instruction, when it comes to what enter says
\* at the beginning of a block.
Comes(it, enter) ==
  CASE it.op = "code" -> {<<it.at, it.part>>}
    [] it.op = "ret" -> {End}
    [] it.op = "branch" -> UNION {enter[c] : c \in it.to}

\* The code that it comes to at the beginning of each block, through branches, of which
\* there are never more in a row than blocks, and those are no more than Here.
Enters ==
  LET within[n \in 0 .. Here] ==
        [b \in Block |-> IF n = 0 THEN {} ELSE Comes(blocks[b][1], within[n - 1])]
  IN  within[Here]

\* The code that runs after the code in block b.
After(b, enter) ==
  UNION {{<< <<blocks[b][k].at, blocks[b][k].part>>, c>> : c \in Comes(blocks[b][k + 1], enter)} :
           k \in {k \in 1 .. Len(blocks[b]) - 1 : blocks[b][k].op = "code"}}

Generated ==
  LET enter == Enters
  IN  {<<End, c>> : c \in enter[1]} \cup UNION {After(b, enter) : b \in Block}

\* The code of a callable that verifies runs in the order of its text: the parts of an if
\* under their test and together again after it, a for from its end to its body or on, a
\* variable allocated where it is declared, anew in each round of a for around it, and
\* nothing else runs (the visits of the statements in CodegenVisitor.cc).
RunsAsWritten == Verified => Generated = Meant
=============================================================================
