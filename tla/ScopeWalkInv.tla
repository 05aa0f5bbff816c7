---------------------------- MODULE ScopeWalkInv ----------------------------
(***************************************************************************)
(* The inductive invariant of ScopeWalk, which its properties rest on.     *)
(***************************************************************************)
EXTENDS ScopeWalk

Makes(j) == ast[j].scope # None

\* The scope of what stands directly in construct b.
Inside(b) == IF ast[b].kind \in Scoped THEN ast[b].scope ELSE ast[b].at

\* The parser's scope after event k.
After(k) ==
  IF k = 0 THEN Global
  ELSE IF ast[k].op = "enter" THEN Inside(k)
  ELSE IF ast[k].op = "leave" THEN ast[ast[k].block].at
  ELSE ast[k].at

\* The parser's scope follows from the events.
ParserPath ==
  /\ \A k \in Events : ast[k].at = After(k - 1)
  /\ current = After(Len(ast))

\* The open constructs nest, and the parser is in the innermost.
OpenNests ==
  /\ \A i \in 1 .. Len(open) : ast[open[i]].op = "enter"
  /\ \A i \in 2 .. Len(open) : ast[open[i]].at = Inside(open[i - 1])
  /\ \A i \in 1 .. Len(open) : i = 1 <=> ast[open[i]].kind = "module"
  /\ open # << >> => ast[open[1]].at = Global /\ current = Inside(open[Len(open)])
  /\ open = << >> => current = Global
  /\ open = << >> <=> phase \notin {"imports", "parse", "lost"}

\* A leave closes the construct that it names, and every construct is open or closed.
LeavesMatch ==
  /\ \A l \in Events : ast[l].op = "leave" =>
       /\ ast[l].block \in 1 .. l - 1
       /\ ast[ast[l].block].op = "enter"
       /\ ast[ast[l].block].kind = ast[l].kind
       /\ ast[l].at = Inside(ast[l].block)
  /\ \A b \in Events : ast[b].op = "enter" =>
       \/ \E i \in 1 .. Len(open) : open[i] = b
       \/ \E l \in b + 1 .. Len(ast) : ast[l].op = "leave" /\ ast[l].block = b

\* Where the generator is in the file at hand.
Progress ==
  /\ phase = "idle" => pos = Len(ast)
  /\ phase \in {"codegen", "failed"} =>
       pos < Len(ast) /\ ast[Len(ast)].op = "leave" /\ ast[Len(ast)].kind = "module"
  /\ \A l \in pos + 1 .. Len(ast) :
       ast[l].op = "leave" /\ ast[l].kind = "module" =>
         phase \in {"codegen", "failed"} /\ l = Len(ast)

\* Which events make a scope, and which of them are hidden.
HiddenScopes ==
  /\ \A j \in Events :
       Makes(j) <=> (ast[j].op = "enter" /\ ast[j].kind \in Scoped) \/ ast[j].op = "enum"
  /\ \A j \in Events : ast[j].op \in {"enter", "leave"} => ast[j].kind \in Scoped \cup Unscoped
  /\ \A j \in Events : ast[j].op = "enum" => ast[j].hidden
  /\ \A i \in 1 .. Len(open) : ast[open[i]].kind \in Unscoped =>
       \A j \in open[i] + 1 .. Len(ast) : Makes(j) => ast[j].hidden
  /\ \A l \in Events : ast[l].op = "leave" /\ ast[l].kind \in Unscoped =>
       \A j \in ast[l].block + 1 .. l : Makes(j) => ast[j].hidden

\* The scope that an event made is where the event says.
MadeScopes ==
  \A j \in Events : Makes(j) =>
    /\ ast[j].scope \in Scopes
    /\ ast[j].at \in Scopes
    /\ ast[j].ord \in 1 .. Len(scopes[ast[j].at].children)
    /\ scopes[ast[j].at].children[ast[j].ord] = ast[j].scope
    /\ scopes[ast[j].scope].parent = ast[j].at
    /\ scopes[ast[j].scope].kind \notin BuiltinKind
    /\ scopes[ast[j].scope].kind = "module" <=> ast[j].kind = "module"
    /\ ast[j].kind = "class" => scopes[ast[j].scope].name \in VarName

\* The tree: Global is nobody's child, modules are children of Global only, and a
\* child that is not stepped over was made by an event.
TreeShape ==
  \A s \in Scopes : \A k \in 1 .. Len(scopes[s].children) :
    LET c == scopes[s].children[k]
    IN  /\ c # Global
        /\ s # Global => scopes[c].kind # "module"
        /\ Skippable(scopes, c) \/ \E j \in Events : Makes(j) /\ ast[j].at = s /\ ast[j].ord = k

\* Scopes stand among their siblings in the order of the text.
TextOrder ==
  \A i, j \in Events :
    i < j /\ Makes(i) /\ Makes(j) /\ ast[i].at = ast[j].at => ast[i].ord < ast[j].ord

\* Only modules are made before the builtins are imported.
ImportsFirst ==
  phase = "imports" => \A j \in pos + 1 .. Len(ast) : Makes(j) => ast[j].kind = "module"

\* The cursors separate what is behind the generator from what is ahead of it.
Cursors ==
  Pure =>
    /\ \A s \in Scopes : scopes[s].cursor <= Len(scopes[s].children)
    /\ \A j \in Events : Makes(j) =>
         IF j <= pos THEN ast[j].ord <= scopes[ast[j].at].cursor
         ELSE scopes[ast[j].at].cursor < ast[j].ord

\* The generator is where the parser was.
Sync == Pure /\ phase # "failed" => cg = After(pos)

Text == ParserPath /\ OpenNests /\ LeavesMatch /\ Progress /\ HiddenScopes
Tree == MadeScopes /\ TreeShape /\ TextOrder
Walk == ImportsFirst /\ ExternalIsGenerated /\ Cursors /\ Sync

IInv == TypeOK /\ Text /\ Tree /\ Walk

-----------------------------------------------------------------------------
(***************************************************************************)
(* What the properties of names rest on beyond IInv.                       *)
(***************************************************************************)

Ends(l, b) == ast[l].op = "leave" /\ ast[l].block = b

\* Constructs are opened in the order of the text and left once.
LeftOnce ==
  /\ \A i, j \in 1 .. Len(open) : i < j => open[i] < open[j]
  /\ \A l \in Events, i \in 1 .. Len(open) : ~Ends(l, open[i])
  /\ \A k, l \in Events : Ends(k, ast[l].block) /\ ast[l].op = "leave" => k = l

\* What begins in a construct ends in it.
LeftWithin ==
  \A l \in Events : ast[l].op = "leave" =>
    \A b \in ast[l].block + 1 .. l - 1 :
      ast[b].op = "enter" => \E k \in b + 1 .. l - 1 : Ends(k, b)

\* An event stands in the innermost construct that is not left.
BlocksAround ==
  \A j \in Events :
    /\ \A b \in Around(j) : b <= ast[j].block
    /\ ast[j].block # 0 => ast[j].block \in Around(j) /\ ast[j].at = Inside(ast[j].block)
    /\ ast[j].op \in {"var", "return"} => ast[j].block # 0

\* What is used is declared.
UsesDeclared == \A u \in Events : ast[u].op = "use" => LexicalDecls(u) # {}

\* The generator passes a while or a switch as a whole.
PassedWhole ==
  \A b \in 1 .. pos : ast[b].op = "enter" /\ ast[b].kind \in Unscoped =>
    \E l \in b + 1 .. pos : Ends(l, b)

Nesting == LeftOnce /\ LeftWithin /\ BlocksAround /\ UsesDeclared /\ PassedWhole

\* The search for a name, from a scope outwards, ends.
ParentsBefore == \A s \in Scopes : scopes[s].parent < s

\* Each scope was made by one event at most, and has its name.
ScopesApart ==
  /\ \A i, j \in Events : i < j /\ Makes(i) /\ Makes(j) => ast[i].scope < ast[j].scope
  /\ \A j \in Events : Makes(j) => scopes[ast[j].scope].name = ast[j].name

\* The symbol maps hold declarations of the text under their names, in whatever scopes
\* they were copied to.
DeclsNamed ==
  \A s \in Scopes, n \in Symbol :
    LET d == scopes[s].decl[n]
    IN  d # NoDecl => d \in Events /\ ast[d].op \in {"enter", "var", "enum"} /\ ast[d].name = n

\* Variables and callables have names that symbol maps can hold, and every variable,
\* and every callable that is left, is in the map of the scope around it.
Declared ==
  /\ \A j \in Events : ast[j].at \in Scopes
  /\ \A j \in Events : ast[j].op = "var" =>
       ast[j].name \in Symbol /\ scopes[ast[j].at].decl[ast[j].name] # NoDecl
  /\ \A b \in Events : ast[b].op = "enter" /\ ast[b].kind \in Callable => ast[b].name \in Symbol
  /\ \A l, b \in Events : Ends(l, b) /\ ast[b].kind \in Callable =>
       scopes[ast[b].at].decl[ast[b].name] # NoDecl

\* The local variables that the generator visits: none in a while or a switch.
Local(j) == ast[j].op = "var" /\ ast[j].kind = "local"
Visited(j) == Local(j) /\ \A b \in Around(j) : ast[b].kind \notin Unscoped

\* Every slot is that of a variable of its scope and name, and of the last one visited.
SlotsLatest ==
  Pure =>
    /\ \A s \in Scopes, n \in Symbol : scopes[s].alloca[n] \in 0 .. pos
    /\ \A s \in Scopes, n \in Symbol, d \in 1 .. pos :
         scopes[s].alloca[n] = d => Visited(d) /\ ast[d].at = s /\ ast[d].name = n
    /\ \A j \in 1 .. pos : Visited(j) => scopes[ast[j].at].alloca[ast[j].name] >= j

Naming == ParentsBefore /\ ScopesApart /\ DeclsNamed /\ Declared /\ SlotsLatest

NInv == IInv /\ Nesting /\ Naming

-----------------------------------------------------------------------------
(***************************************************************************)
(* The cursors of the scopes implement the walk of a text.                 *)
(***************************************************************************)

AsElement(j) ==
  [at |-> ast[j].at,
   hidden |-> ast[j].hidden,
   ends |-> IF ast[j].op = "leave" THEN ast[j].block ELSE 0,
   final |-> ast[j].op = "leave" /\ ast[j].kind = "module"]

Elements == [j \in 1 .. Len(ast) |-> AsElement(j)]

TW == INSTANCE TextWalk
        WITH Place <- Nat, Start <- Global, text <- Elements, done <- pos, place <- cg

\* Parser and generator together, with a tree of scopes between them and nothing but
\* the cursors of Scope::nextScope and Scope::prevScope to follow, walk the text of
\* the program in step.
WalksTheText == TW!WalkSpec
=============================================================================
