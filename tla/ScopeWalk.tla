------------------------------ MODULE ScopeWalk ------------------------------
(***************************************************************************)
(* One compilation: for each file, the parser builds a scope for every     *)
(* construct it reads and then the code generator walks the same scopes,   *)
(* again in the order of the syntax tree, with nothing but a cursor in     *)
(* each scope to tell it where it is (src/frontend/parser/Parser.cc,       *)
(* src/backend/CodegenVisitor.cc, src/main.cc).                            *)
(*                                                                         *)
(* A program is the sequence of its events in source order: a construct is *)
(* entered and left, a variable declared or used, a return read.  The      *)
(* parser appends the events of any program of the grammar; the generator  *)
(* visits them one after the other, except for what it does not generate.  *)
(* Each event also remembers where the parser was when it read it (at) and *)
(* the scope that it made there (scope, ord): the generator never looks at *)
(* these, the properties do.                                               *)
(***************************************************************************)
EXTENDS ScopeTree

CONSTANTS
  Mangled,      \* Mangled[<<c, m>>]: <c>_<m>
  Construct,    \* what the programs of a run are made of
  MaxUnit,      \* bound: files on the command line
  MaxEvent      \* bound: events of all files together

Scoped == {"module", "class", "func", "method", "constructor", "if", "for"}
Unscoped == {"while", "switch"}
Callable == {"func", "method"}
Body == Callable \cup {"constructor", "if", "for"} \cup Unscoped

ASSUME WalkAssumption ==
  /\ Mangled \in [VarName \X VarName -> MethodName]
  /\ MaxUnit \in Nat
  /\ MaxEvent \in Nat

VARIABLES
  scopes,   \* the scope tree (ScopeTree)
  current,  \* SymbolTable::current_scope, the parser's
  ast,      \* the events of all files so far
  open,     \* the constructs being parsed, outermost first: the parser's call stack
  phase,    \* of the file at hand
  units,    \* how many files have been started
  pos,      \* how many events the generator has passed
  cg        \* CodeGenVisitor::currentScope

vars == <<scopes, current, ast, open, phase, units, pos, cg>>
parserVars == <<current, ast, open, units>>

Innermost == IF open = << >> THEN 0 ELSE open[Len(open)]
In(kinds) == open # << >> /\ ast[Innermost].kind \in kinds

\* There is room for one more event and for the end of every construct.
Room == Len(ast) + Len(open) + 1 <= MaxEvent
RoomToEnter == Len(ast) + Len(open) + 2 <= MaxEvent

Event(op, kind, name) ==
  [op |-> op, kind |-> kind, name |-> name, block |-> Innermost, at |-> current,
   scope |-> None, ord |-> 0, hidden |-> FALSE]

\* The event that makes a scope.  The generator never sees it when it is inside a
\* construct that the generator passes over.
Creating(op, kind, name) ==
  [Event(op, kind, name) EXCEPT
     !.scope = Len(scopes) + 1,
     !.ord = Len(scopes[current].children) + 1,
     !.hidden = op = "enum" \/ \E b \in 1 .. Len(open) : ast[open[b]].kind \in Unscoped]

\* SymbolTable::exitScope
ExitScope(s) == IF scopes[s].parent = None THEN s ELSE scopes[s].parent

-----------------------------------------------------------------------------
(***************************************************************************)
(* The parser.                                                             *)
(***************************************************************************)

Init ==
  /\ scopes = << NewScope("global", "Global", None) >>
  /\ current = Global
  /\ ast = << >>
  /\ open = << >>
  /\ phase = "idle"
  /\ units = 0
  /\ pos = 0
  /\ cg = Global

\* A construct with a scope of its own is entered.
EnterScope(scopeKind, name, sc) ==
  /\ RoomToEnter
  /\ scopes' = CreateChild(sc, current, scopeKind, name)
  /\ current' = Len(sc) + 1
  /\ open' = Append(open, Len(ast) + 1)

Enter(kind, scopeKind, name) ==
  /\ phase = "parse"
  /\ kind \in Construct
  /\ EnterScope(scopeKind, name, scopes)
  /\ ast' = Append(ast, Creating("enter", kind, name))
  /\ UNCHANGED <<phase, units, pos, cg>>

\* main's next file: the constructor of Parser, and the module line.
ParseProgram(m) ==
  LET withBuiltins == InitBuiltins(scopes, current)
  IN  /\ phase = "idle"
      /\ units < MaxUnit
      /\ EnterScope("module", m, withBuiltins)
      /\ ast' = Append(ast, [Event("enter", "module", m) EXCEPT
                               !.scope = Len(withBuiltins) + 1,
                               !.ord = Len(withBuiltins[current].children) + 1])
      /\ phase' = "imports"
      /\ units' = units + 1
      /\ UNCHANGED <<pos, cg>>

\* An import line.  Only a module whose file was parsed before can be imported: the
\* type table has no entry for any other.
ParseImport(m) ==
  /\ phase = "imports"
  /\ "import" \in Construct
  /\ Room
  /\ \E j \in 1 .. Len(ast) :
       ast[j].op = "leave" /\ ast[j].kind = "module" /\ ast[j].name = m
  /\ scopes' = CopyModule(scopes, m, scopes[current].name)
  /\ ast' = Append(ast, Event("import", "plain", m))
  /\ UNCHANGED <<current, open, phase, units, pos, cg>>

\* Every module takes Integer and Real in.
ImportBuiltins ==
  LET name == scopes[current].name
  IN  /\ phase = "imports"
      /\ scopes' = CopyModule(CopyModule(scopes, "Integer", name), "Real", name)
      /\ phase' = "parse"
      /\ UNCHANGED <<parserVars, pos, cg>>

EnterClass(n) == In({"module"}) /\ Enter("class", "class", n)
EnterFunction(n) == In({"module"}) /\ Enter("func", "method", n)
EnterMethod(n) ==
  In({"class"}) /\ Enter("method", "method", Mangled[<<scopes[current].name, n>>])
EnterConstructor == In({"class"}) /\ Enter("constructor", "method", "Create")
EnterIf == In(Body) /\ Enter("if", "loop", "if_else")
EnterFor == In(Body) /\ Enter("for", "loop", "for_loop")

\* parseWhileStatement and parseSwitch open no scope.
EnterUnscoped(kind) ==
  /\ phase = "parse"
  /\ kind \in Construct
  /\ In(Body)
  /\ RoomToEnter
  /\ ast' = Append(ast, Event("enter", kind, kind))
  /\ open' = Append(open, Len(ast) + 1)
  /\ UNCHANGED <<scopes, current, phase, units, pos, cg>>

\* parseEnumDecl enters and exits its scope in one go.
ParseEnum(n) ==
  /\ phase = "parse"
  /\ "enum" \in Construct
  /\ In({"module"})
  /\ Room
  /\ scopes' = AddDecl(CreateChild(scopes, current, "enum", n), current, n, Len(ast) + 1)
  /\ ast' = Append(ast, Creating("enum", "plain", n))
  /\ UNCHANGED <<current, open, phase, units, pos, cg>>

\* What leaves the scopes' shape alone: one event, and maybe a declaration.
Read(op, kind, name) ==
  /\ phase = "parse"
  /\ Room
  /\ ast' = Append(ast, Event(op, kind, name))
  /\ UNCHANGED <<current, open, phase, units, pos, cg>>

\* A variable of a body, or a parameter, which is a variable of the callable's scope.
ParseVar(n) ==
  /\ "var" \in Construct
  /\ In(Body)
  /\ Read("var", "local", n)
  /\ scopes' = AddDecl(scopes, current, n, Len(ast) + 1)

ParseField(n) ==
  /\ "field" \in Construct
  /\ In({"class"})
  /\ Read("var", "field", n)
  /\ scopes' = AddDecl(scopes, current, n, Len(ast) + 1)

\* The local declaration that a reader of the program takes the name n to mean when
\* it stands right after the first k events: the last one whose block is still
\* open there, and whose branch, if that block is an if statement.
VisibleAt(k, inside, n) ==
  {j \in 1 .. k :
     /\ ast[j].op = "var" /\ ast[j].kind = "local" /\ ast[j].name = n
     /\ ast[j].block \in inside
     /\ \A i \in j .. k : ast[i].op = "else" => ast[i].block # ast[j].block}

Greatest(S) == CHOOSE k \in S : \A j \in S : k >= j

\* The constructs that enclose event u.
Around(u) ==
  {b \in 1 .. u - 1 :
     /\ ast[b].op = "enter"
     /\ \A j \in b .. u - 1 : ~(ast[j].op = "leave" /\ ast[j].block = b)}

LexicalDecls(u) == VisibleAt(u - 1, Around(u), ast[u].name)
LexicalDecl(u) == Greatest(LexicalDecls(u))

\* Programs use what they have declared.  The uses in the header of a for, which the
\* generator visits after the body, are not among the events.
ParseUse(n) ==
  /\ "use" \in Construct
  /\ VisibleAt(Len(ast), {open[b] : b \in 1 .. Len(open)}, n) # {}
  /\ Read("use", "plain", n)
  /\ UNCHANGED scopes

\* kind: with a value, or the bare `return` that parseReturnStatement answers with a
\* ReturnSTMT that has no expression.
ParseReturn(kind) ==
  /\ "return" \in Construct
  /\ In(Body)
  /\ Read("return", kind, kind)
  /\ UNCHANGED scopes

\* The else of an if statement, whose block stays in the scope of the then.  form:
\* whether an `end` stands before it.  Without, parseBlock stops at a token that it
\* does not know and answers nullptr in place of the then.
ParseElse(form) ==
  /\ "else" \in Construct
  /\ In({"if"})
  /\ \A j \in 1 .. Len(ast) : ast[j].op = "else" => ast[j].block # Innermost
  /\ Read("else", form, "else")
  /\ UNCHANGED scopes

\* The end of the innermost construct, which is one of the kinds.
Leave(kinds) ==
  /\ In(kinds)
  /\ ast' = Append(ast, Event("leave", ast[Innermost].kind, ast[Innermost].name))
  /\ open' = SubSeq(open, 1, Len(open) - 1)
  /\ UNCHANGED <<units, pos, cg>>

\* As far as events tell, the `end` at hand is that of a body without parts: of a
\* construct just entered, of an else just read, or of a callable that has nothing but
\* variables, which may all be its parameters.
WithoutParts ==
  \/ Len(ast) = Innermost
  \/ In({"if"}) /\ ast[Len(ast)].op = "else"
  \/ /\ In(Callable \cup {"constructor"})
     /\ \A j \in Innermost + 1 .. Len(ast) : ast[j].op = "var"

\* A body that begins with its `end`: parseBlock answers nullptr and leaves the `end`
\* where it is.  parseClassDecl dereferences the null.  Any other construct is taken to
\* have ended, and its `end` ends the one around it; the last `end` of the file is left
\* to parseProgram, whose loop does not get past it.  The file is never generated.
BodyLost ==
  /\ phase = "parse"
  /\ In(Body \cup {"class"})
  /\ WithoutParts
  /\ phase' = "lost"
  /\ UNCHANGED <<scopes, parserVars, pos, cg>>

\* A class has members; the body of anything else may hold what is no event.
HasMembers == ast[Innermost].kind = "class" => Innermost < Len(ast)

\* Mutation: the symbol is never added.
LeaveNamedUnrecorded ==
  /\ phase = "parse"
  /\ HasMembers
  /\ Leave({"class"} \cup Callable)
  /\ current' = ExitScope(current)
  /\ UNCHANGED <<scopes, phase>>

\* A class, function or method becomes a symbol of the scope around it.
LeaveNamed ==
  /\ phase = "parse"
  /\ HasMembers
  /\ Leave({"class"} \cup Callable)
  /\ current' = ExitScope(current)
  /\ scopes' = AddDecl(scopes, ExitScope(current), ast[Innermost].name, Innermost)
  /\ UNCHANGED phase

LeaveAnonymous ==
  /\ phase = "parse"
  /\ Leave({"constructor", "if", "for"})
  /\ current' = ExitScope(current)
  /\ UNCHANGED <<scopes, phase>>

LeaveUnscoped ==
  /\ phase = "parse"
  /\ Leave(Unscoped)
  /\ UNCHANGED <<scopes, current, phase>>

\* The file has an if statement without its then.
Unclosed == \E j \in pos + 1 .. Len(ast) : ast[j].op = "else" /\ ast[j].kind = "unclosed"

\* Mutation: all files are parsed before any is generated.
EndProgramLater ==
  /\ phase = "parse"
  /\ ~Unclosed
  /\ Leave({"module"})
  /\ current' = ExitScope(current)
  /\ phase' = "idle"
  /\ UNCHANGED scopes

\* End of file: PrinterAst prints the whole tree, and the tree goes to a new
\* CodeGenVisitor, which starts at Global.
EndProgram ==
  /\ phase = "parse"
  /\ ~Unclosed
  /\ Leave({"module"})
  /\ current' = ExitScope(current)
  /\ phase' = "codegen"
  /\ UNCHANGED scopes

\* PrinterAst dereferences the then of every if statement.
EndProgramLost ==
  /\ phase = "parse"
  /\ Unclosed
  /\ Leave({"module"})
  /\ current' = ExitScope(current)
  /\ phase' = "failed"
  /\ UNCHANGED scopes

Parse ==
  \/ \E m \in ModuleName : ParseProgram(m) \/ ParseImport(m)
  \/ ImportBuiltins
  \/ \E n \in VarName :
       \/ EnterClass(n) \/ EnterFunction(n) \/ EnterMethod(n)
       \/ ParseEnum(n) \/ ParseVar(n) \/ ParseField(n) \/ ParseUse(n)
  \/ EnterConstructor \/ EnterIf \/ EnterFor
  \/ \E kind \in Unscoped : EnterUnscoped(kind)
  \/ \E kind \in {"value", "bare"} : ParseReturn(kind)
  \/ \E form \in {"closed", "unclosed"} : ParseElse(form)
  \/ LeaveNamed \/ LeaveAnonymous \/ LeaveUnscoped \/ BodyLost
  \/ EndProgram \/ EndProgramLost

-----------------------------------------------------------------------------
(***************************************************************************)
(* The code generator.  e is the next event of the tree it is handed.      *)
(***************************************************************************)

Next1 == ast[pos + 1]
NextIs(op, kinds) == phase = "codegen" /\ Next1.op = op /\ Next1.kind \in kinds

\* The generator cannot go on: it dereferences a null pointer, locks an expired
\* parent, or reads past the end of a vector.
Fail ==
  /\ phase' = "failed"
  /\ UNCHANGED <<scopes, parserVars, pos, cg>>

Pass(n) ==
  /\ pos' = pos + n
  /\ UNCHANGED <<parserVars, phase>>

\* currentScope = currentScope->nextScope()
Descend ==
  /\ NextScope(scopes, cg) # None
  /\ scopes' = Advance(scopes, cg)
  /\ cg' = NextScope(scopes, cg)

\* visit(ModuleDecl&): keeps going to the next scope until it is a module, or has
\* the module's name.
VisitModule ==
  LET there == LET t == NextScope(scopes, cg)
               IN  scopes[t].kind = "module" \/ scopes[t].name = Next1.name
  IN  /\ NextIs("enter", {"module"})
      /\ Descend
      /\ Pass(IF there THEN 1 ELSE 0)

VisitScoped ==
  /\ NextIs("enter", Scoped \ {"module"})
  /\ Descend
  /\ Pass(1)

VisitLost ==
  /\ NextIs("enter", Scoped)
  /\ NextScope(scopes, cg) = None
  /\ Fail

\* visit(WhileSTMT&) and visit(SwitchSTMT&) are empty: nothing inside is visited.
VisitUnscoped ==
  /\ NextIs("enter", Unscoped)
  /\ Pass((CHOOSE j \in pos + 1 .. Len(ast) :
             ast[j].op = "leave" /\ ast[j].block = pos + 1) - pos)
  /\ UNCHANGED <<scopes, cg>>

\* Mutation: the parent is not looked at before it becomes the current scope.
VisitEndUnlocked ==
  /\ NextIs("leave", Scoped \ {"module"})
  /\ cg' = scopes[cg].parent
  /\ Pass(1)
  /\ UNCHANGED scopes

\* Mutation: prevScope is forgotten.
VisitEndInside ==
  /\ NextIs("leave", Scoped \ {"module"})
  /\ Pass(1)
  /\ UNCHANGED <<scopes, cg>>

\* The end of visit(ClassDecl&), visit(FuncDecl&), ...: prevScope locks the parent.
VisitEnd ==
  /\ NextIs("leave", Scoped \ {"module"})
  /\ scopes[cg].parent # None
  /\ cg' = scopes[cg].parent
  /\ Pass(1)
  /\ UNCHANGED scopes

VisitEndLost ==
  /\ NextIs("leave", Scoped \ {"module"})
  /\ scopes[cg].parent = None
  /\ Fail

\* The object file is written and the visitor destroyed; main takes the next file,
\* whose visitor starts at Global again.
EndModule ==
  /\ NextIs("leave", {"module"})
  /\ cg' = Global
  /\ phase' = "idle"
  /\ pos' = pos + 1
  /\ UNCHANGED <<scopes, parserVars>>

\* visit(VarDecl&), and the stores of the arguments in visit(FuncDecl&), ...
VisitVar ==
  /\ NextIs("var", {"local"})
  /\ scopes' = AddAlloca(scopes, cg, Next1.name, pos + 1)
  /\ Pass(1)
  /\ UNCHANGED cg

\* Mutation: only the current scope is searched.
HolderHere(n) == IF scopes[cg].decl[n] = NoDecl THEN None ELSE cg

\* visit(VarRefEXP&)
Holder(n) == GetSymbol(scopes, cg, n)
Slot(n) == IF Holder(n) = None THEN NoDecl ELSE scopes[Holder(n)].alloca[n]
Decl(n) == IF Holder(n) = None THEN NoDecl ELSE scopes[Holder(n)].decl[n]

VisitUse ==
  /\ NextIs("use", {"plain"})
  /\ Slot(Next1.name) # NoDecl
  /\ Pass(1)
  /\ UNCHANGED <<scopes, cg>>

VisitUseLost ==
  /\ NextIs("use", {"plain"})
  /\ Slot(Next1.name) = NoDecl
  /\ Fail

\* Mutation: the name is searched in the callable's own scope only.
ReturningHere == IF scopes[cg].name \in Symbol THEN scopes[cg].decl[scopes[cg].name] ELSE NoDecl

\* visit(ReturnSTMT&) looks the current scope's own name up, to learn its type.
Returning == IF scopes[cg].name \in Symbol THEN Decl(scopes[cg].name) ELSE NoDecl

Returns ==
  Returning # NoDecl /\ ast[Returning].op = "enter" /\ ast[Returning].kind \in Callable

VisitReturn ==
  /\ NextIs("return", {"value"})
  /\ Returns
  /\ Pass(1)
  /\ UNCHANGED <<scopes, cg>>

VisitReturnLost ==
  /\ NextIs("return", {"value", "bare"})
  /\ Next1.kind = "bare" \/ ~Returns
  /\ Fail

\* Imports are no children of the module, fields and enums generate nothing, and
\* the else of an if statement changes no scope.
VisitNothing ==
  /\ NextIs("import", {"plain"}) \/ NextIs("enum", {"plain"})
     \/ NextIs("var", {"field"}) \/ NextIs("else", {"closed"})
  /\ Pass(1)
  /\ UNCHANGED <<scopes, cg>>

Generate ==
  \/ VisitModule \/ VisitScoped \/ VisitUnscoped \/ VisitEnd \/ EndModule
  \/ VisitVar \/ VisitUse \/ VisitReturn \/ VisitNothing
  \/ VisitLost \/ VisitEndLost \/ VisitUseLost \/ VisitReturnLost

Next == Parse \/ Generate

Spec == Init /\ [][Next]_vars

-----------------------------------------------------------------------------
(***************************************************************************)
(* Properties.                                                             *)
(***************************************************************************)

Scopes == 1 .. Len(scopes)
Events == 1 .. Len(ast)

EventType ==
  [op : {"enter", "leave", "var", "use", "return", "enum", "else", "import"},
   kind : Scoped \cup Unscoped \cup {"plain", "local", "field", "value", "bare",
                                "closed", "unclosed"},
   name : Name \cup Unscoped \cup {"value", "bare", "else"},
   block : Nat, at : Nat, scope : Nat, ord : Nat, hidden : BOOLEAN]

\* Types, and every reference in range: the pointers between scopes, the open
\* constructs and the two current scopes.
TypeOK ==
  /\ IsTree(scopes)
  /\ current \in Scopes /\ cg \in Scopes
  /\ ast \in Seq(EventType)
  /\ open \in Seq(Events)
  /\ phase \in {"idle", "imports", "parse", "codegen", "lost", "failed"}
  /\ units \in 0 .. MaxUnit
  /\ pos \in 0 .. Len(ast)

\* Every scope the generator should have found so far, it was able to find: none of
\* an enum and none inside a while or a switch.
Pure == \A j \in 1 .. pos : ~ast[j].hidden

\* Unless it has passed a scope that it does not visit, the generator is always in
\* the very scope in which the parser read the event it visits next (the cursors of
\* Scope::nextScope against the parser's enterScope and exitScope).
InSync == phase = "codegen" /\ Pure => cg = Next1.at

\* A scope is marked external (copySymbolFromModulesToCurrent), hence stepped over
\* from then on, only when its code has been generated.
ExternalIsGenerated ==
  \A j \in Events :
    ast[j].scope # None /\ scopes[ast[j].scope].external => j <= pos

\* A stack slot is only ever recorded in the scope that declares its variable: no
\* scope refers to a slot of another function (CodeGenVisitor::visit(VarDecl&)).
SlotInItsScope ==
  phase = "codegen" /\ Pure =>
    \A s \in Scopes, n \in Symbol :
      LET d == scopes[s].alloca[n] IN d # NoDecl => ast[d].at = s /\ ast[d].name = n

\* The declaration that the reader takes a use for is hidden when a scope further in
\* declares the name too, somewhere the reader does not look: later on, or in the
\* other branch of the if.  Symbol maps know no order.
Masked(u) == GetSymbol(scopes, ast[u].at, ast[u].name) # ast[LexicalDecl(u)].at

\* A variable reference that is not masked reads the slot of the declaration that
\* the text of the program gives it (CodeGenVisitor::visit(VarRefEXP&)).
UseReadsItsVariable ==
  NextIs("use", {"plain"}) /\ Pure /\ ~Masked(pos + 1) =>
    Slot(Next1.name) = LexicalDecl(pos + 1)

\* Nothing else in the program has the name that b declares.
Unique(b) ==
  \A j \in Events \ {b} :
    ast[j].op \in {"enter", "var", "enum"} => ast[j].name # ast[b].name

\* A return that stands in the body of a function or method itself, whose name is
\* its own, takes its type from that very function (CodeGenVisitor::visit(ReturnSTMT&)
\* finds it by the name of the current scope).
ReturnFindsItsCallable ==
  /\ NextIs("return", {"value"}) /\ Pure
  /\ ast[Next1.block].kind \in Callable
  /\ Unique(Next1.block)
  => Returning = Next1.block

\* As far as scopes and symbols go, compilation fails only for a program with an
\* enum, with a scope inside a while or switch, with a masked variable, with a body
\* without parts, with an else that no `end` precedes, or with a return that is bare,
\* nested in another statement, or in a callable whose name is declared twice.
FailureExplained ==
  phase \in {"lost", "failed"} /\ Pure =>
    \/ In(Body \cup {"class"}) /\ WithoutParts
    \/ Unclosed
    \/ Next1.op = "use" /\ Masked(pos + 1)
    \/ /\ Next1.op = "return"
       /\ Next1.kind = "bare" \/ ast[Next1.block].kind \notin Callable \/ ~Unique(Next1.block)

-----------------------------------------------------------------------------
(***************************************************************************)
(* What the repository says of the program, and the code does not do.      *)
(***************************************************************************)

\* spec.txt: a Body, of an if as well as of a method, holds statements, the return
\* statement among them.
NestedReturnGenerates ==
  phase = "failed" => ~(Next1.op = "return" /\ Next1.kind = "value" /\ Pure)
=============================================================================
