# Obewrong: a verification development

Obewrong is a compiler for a small object-oriented language: `main` takes the files
of the command line, and for each one lexes it, parses it into a syntax tree and a tree
of scopes, prints the tree, generates an LLVM module from it, links into that the modules
of the files it imports, and writes an object file. This directory holds TLA+ models of
it, TLC configurations that check them on small instances, and TLAPS proofs of
theorems about them for instances of every size.

Paths below are relative to the repository; `Parser.cc`, `CodegenVisitor.cc`, `Lexer.cc`
and so on are the files of that name under `src/` and `include/`.

## Inventory

| Part | State it keeps | Operations | Talks to |
| --- | --- | --- | --- |
| Driver (`main.cc`) | the arguments, one symbol table, type table and LLVM context for all files | two loops: add each file, compile each from the last to the first | everything |
| Source manager (`SourceManager.cc`) | `files`: name, text, included files, `llvm::Module` | `addFile`, `readSource`, `isImportProvided`, `addIncludedModule`, `getIncluded`, `addCompiledModule` | parser (imports), generator (linking, storing) |
| Lexer (`Lexer.cc`) | pointer into the text, automaton state | `next`, `lex` | gives the parser its tokens |
| Scopes (`Scope.h`, `SymbolTable.h/.cc`) | the tree of scopes; in each the declarations, the stack slots, the cursor `depth`, the flag `external`; the parser's current scope | `createChild`, `addSymbol` (two), `getSymbol`, `nextScope`, `prevScope`, `enterScope`, `exitScope`, `initBuiltinFunctions`, `copySymbolFromModulesToCurrent`, `copySymbolsAndChildren` | written by the parser, walked by the generator, never reset between files |
| Parser, declarations and statements (`Parser.cc`) | position in the tokens, module name | one `parse...` function per construct | scopes, type table, source manager |
| Parser, expressions (`Parser.cc`) | two stacks per call of `parseBinaryOp` | `parseExpression`, `parseBinaryOp`, `parsePrimary`, call and member suffixes | scopes (literals become symbols) |
| Code generator (`CodegenVisitor.h/.cc`) | current scope, `module`, builder, `lastValue` | one `visit` per node, `createObjFile`, linking in the constructor | scopes, source manager, LLVM |
| Type table (`TypeTable.h`) | types by module and name | `addType`, `getType`, `importTypesFromModule` | parser, generator |
| Tree and types (`Entity.h`, `Statement.h`, `Decl.h`, `Types.h`) | data | `accept`, `resolveType`, `toLLVMType` | |
| Printer (`PrinterAst.h`) | indentation | prints the tree before it is generated | dereferences what the parser left null |
| Semantic analyser, generics, compilation unit | none: not called, or stubs | | |

One thread does all this, so nothing interleaves. What is hard is that the phases are
coupled by mutable state and by order:

* **Cursors.** The parser makes a scope for each construct; the generator has to find the
  same scope again, and all it has is a counter in each scope of how many children it
  has passed. One scope made that is not visited, or visited that was not made, and
  all that follow are shifted. The counters, like the tree, survive from file to file.
* **Names.** Symbol maps know no order and blocks share scopes, so a lookup during
  generation may find what the text does not mean.
* **Copies.** A derived class shares declarations with its base and copies scopes from it;
  numbers and names that fitted there have to fit here.
* **Brackets.** Three variants of `parseArguments` and their callers divide the work of
  reading closing brackets.
* **The builder.** Blocks are created before they are filled, and the builder moves between
  them through nested statements.
* **The file table.** Buffers have ids from which indices are computed, files are known
  by their bare names, modules are moved out of the table and stored over one another.
* **The two stacks** of the expression parser over recursive calls, with a table of
  precedences.
* **The automaton** of the lexer, whose state outlives its calls.

Correctness of each part, which the properties below state: scopes and generator stay in
step and names mean what the text says; a derived class has the methods and the
fields of its base, each in one place; a name has the type it was last declared with;
every block ends once and control flows as the text says; calls get their own arguments
and run once; the code of each file ends up in the objects
of those that import it, once; the tree of an expression is the one that precedence
and association give; the tokens of a text are its longest-match lexemes; failures
happen only for reasons that can be named.

## Modules

| Module | What it is |
| --- | --- |
| `ScopeTree` | operators on one tree of scopes: `CreateChild`, `AddDecl`, `AddAlloca`, `GetSymbol`, `NextScope` with `Advance`, `InitBuiltins`, `CopyModule` |
| `ScopeWalk` | composes it with the parser's declarations and statements and with the generator, file after file |
| `ScopeWalkInv` | the inductive invariant of `ScopeWalk`, in named parts, and the refinement mapping to `TextWalk` |
| `TextWalk` | the abstract specification: the walk over a text that the generator promises |
| `Classes` | composes `ScopeTree` with classes that have a base: what the parser copies, which scopes the generator then finds, where the fields lie |
| `Types` | the type table, filled and read by the parser over several modules |
| `Flow` | the basic blocks that the generator makes of the body of a callable |
| `Expr` | `parseExpression`, `parseBinaryOp` and `parsePrimary` over operators |
| `Calls` | calls, their arguments and chains of methods: the parser's recursion and the order of the generated calls |
| `Lexer` | `next` and `lex` |
| `Driver` | `main`, the source manager, the linking of modules and `createObjFile` |
| `MCScopeWalk`, `MCClasses`, `MCTypes`, `MCDriver`, `MCLexer` | names, symmetries and texts for the runs |
| `ScopeWalk_proofs`, `Classes_proofs`, `Flow_proofs`, `Types_proofs`, `Driver_proofs`, `Expr_proofs`, `Calls_proofs`, `Lexer_proofs` | lemmas and theorems |

Definitions named *Mutation* in the modules are plausible mistakes in the definition
that follows them; none is used by a specification. They are what the properties are
tested against: with one in place of the definition, the named property fails.

### ScopeTree and ScopeWalk

A tree is a sequence of scopes, a scope's place in it stands for its address. A scope
keeps both halves of its symbol map (`decl`, `alloca`); a declaration is the number of the
event that made it. `cursor` is `depth + 1`.

A program is a sequence of events in source order: a construct entered or left, a
variable declared or used, a return, an else, an enum, an import. In phases `imports` and
`parse` the parser appends any event that the grammar allows where it is, and does to the
tree what the `parse...` function does: `EnterClass`, `EnterFunction`, `EnterMethod`,
`EnterConstructor`, `EnterIf`, `EnterFor` make a scope; `EnterUnscoped` (while, switch)
makes none; `ParseEnum` enters and leaves one; `LeaveNamed` adds the symbol in the
surrounding scope, as the code does, only at the end. `BodyLost` is a body that begins with
its `end`: `parseBlock` answers null and leaves the `end` unread, so that a class
dereferences the null and anything else hands its `end` to the construct around it, until
the last one keeps `parseProgram` in its loop; phase `lost`, from which nothing is
generated. Parts that are no events, expressions or assignments of constants, may stand in any
body but a class's, whose members all are (`HasMembers`), so that a body of a function or an
if without events may have been lost or read. `ParseProgram` stands for the
constructor of `Parser`, which adds the builtin modules again for each file, and the
module line; `ParseImport` and `ImportBuiltins` for `copySymbolFromModulesToCurrent`.
In phase `codegen` one action per `visit` consumes the next event. Where the code would
dereference a null pointer, lock an expired parent or read past the end of a vector,
the phase becomes `failed`: that is undefined behaviour, and nothing is claimed of
what follows.

Each event also records where the parser was when it read it. The generator never looks
at this; the properties compare with it.

Left out: forward declarations, variables of modules, the uses in the header of a for
(which the generator visits after the body), the symbols inside the builtin classes, and
the value side of everything. Base classes have a module of their own.

### TextWalk

What all this is for, said without scopes: a text is read file by file; who walks it
carries one place in mind, and before each element is where it was read, until it passes
an element whose place is hidden. `ScopeWalkInv` maps the events to elements and the
generator's scope to the place (`TW`, `WalksTheText`); a child index and a parent pointer
are all that the implementing side has to do it with.

### Classes

One module whose classes may extend earlier ones. `decls` is the heap of declarations: a
class shares the `FieldDecl`s of its base and owns copies of the methods, as in
`parseClassDecl`. `CopyClass` is `copySymbolsAndChildren`, which copies the scopes of the
methods under a flag; `LeaveDerived` is the end of a class with a base: it numbers the
fields, renames the copied methods, puts them in front and turns their scopes into
scopes of the class, which keep sharing the children of the original. `VisitClass` walks
the methods as the generator does. `Size` and `Place` follow `TypeClass::toLLVMType` and
`visit(FieldRefEXP&)`.

Left out: a base that is declared forward, is the class itself or is in another file (the
lookup answers null, or an object of another scope tree), class names with an
underscore, which the renaming cuts in two, and LLVM's renaming of structs of the same
name. A class without members of these kinds stands for one that has others; one that
has none at all fails in `parseClassDecl` (`BodyLost` in `ScopeWalk`).

### Types

`types` is `GlobalTypeTable::types`: for every module one map from names to types. Names of
classes are in it beside those of variables, parameters and fields that are pointers or
lists. `TypeNamed` and `TypeQualified` are the two ways in which the parser asks.
`Import` copies, `ImportBuiltins` adds the builtin types behind the imports, a class
gets its type when it ends, behind the name thisC that `parseClassDecl` registers for the
pointer to a class C; no keyword is in the way of a declaration that uses that name. A type
is a stack of wrappers over a builtin type, a class or the null pointer that a failed
lookup leaves. `a : access Array[T]` registers twice, a pointer to what is called Array and then
the list with the same name (`PointerElements`, `PointerPointers`). `said` keeps what was
registered in the order of the text, two entries for a class and for such a list; the reference
`Meaning` reads the last entry of a name.

### Flow

The generator's builder over one callable: `blocks` are the instructions of each basic
block, `insert` is the insert point, `from` the incoming values of the phis, `open` the
statements being visited with the blocks they have set aside. `Enter` is the head of
the visits of functions, methods and constructors, with `isVoid` left undefined
where `FuncDecl`'s constructor leaves it so; `Leave` is their end. An else part is a
block of any statements, all of which `Block::accept` visits, or one `else if`, which ends
with the if that it is (`ElseIfOver`). Not in the text are returns that are not in the body of
the callable, on which the generator fails, whiles and switches, which it does not visit, and
bodies and parts without a statement, which the parser loses (all three in `ScopeWalk`). A `for` runs its body before its
first test, and a variable in it is allocated anew in each round: this is how the
reference `Meant` reads a text too, since no document of the repository says otherwise.
The reference knows no blocks: it matches the words that open, divide and close statements
(`Nesting`, `OwnerOf`), takes for each place of the text the code that control arrives at
there (`Arrives`), and from it what each piece of code leads to (`Leads`). What is
generated is read from the blocks alone: what control comes to at the beginning of each
(`Enters`) and behind each instruction (`After`).

### Driver

A unit is one argument of the command line. An `llvm::Module` is the set of units whose
code it holds. `files`, `buff` (the id), `Includer` (`files[id - (files.size() - 1)]`) and
`Holder` (`files[id]`) follow `SourceManager.cc`. `known` is the set of modules with an
entry in the type table, `mains` the units that declared a class Main, whose type stays
in the shared LLVM context: `visit(ModuleDecl&)` emits `main` in every module from
then on and calls a constructor without arguments that has to be in the module at hand.
`creators` are the units that define it; without one `getFunction` answers null
(`VisitModuleLost`). `there` are the arguments whose file can be opened: a file may go at any
time before it is read (`LoseFile`), and `addFile` and `readSource`, which both open it,
throw when it is gone. `createObjFile` has two ways out
besides the good one. `CreateObjFileFails`: the target, the file or the file type is
refused, the module is not stored, and `main` goes on with the next file; a file that
imports this one then finds a null module (`LinkNothing`), or one that an argument of the
same name left. `VerifyModuleFails`: the process exits. Either may happen to any file.
`object` is what was written.

### Expr

The author writes any expression of operands, operators and brackets; an operand is one
token, of which only matters whether it ends in an identifier, because that is what
`tokenToOperator` asks to tell the two minus signs apart. `frames` are the calls of
`parseBinaryOp` under way, with their two stacks; `wait` says what a frame wants the
value of its nested expression for. Trees are written in postfix order. `Meaning` is
the reference, the tree of all tokens among those of the pieces (`Trees`): the last of the
loosest operators outside brackets is the root.

### Calls

The author writes an expression of variables, functions and methods. The
parser's recursion is the stack `frames`, one frame for each call whose arguments are
being read, with the caller that waits for it: `parseCallExpression` (`call`),
`parsePrimary` behind a variable (`method`) or `parseMemberAccess` behind a call (`link`).
`PastCall` is where the three share the closing bracket: which variants of
`parseArguments` read it, and which callers read one more. `value` is what the
generator does with a tree: the order of its calls, each known by its place in the
text. Authors keep to what does not dereference null: methods of the user stand behind
variables, builtin methods have one argument at most.

### Lexer

A text is put together from pieces, the constant `Piece`. Each way through the loop of
`next` is an action; `Place` is where the character stands that the switch looks at, behind
a comment if there is one. `Meaning` is the reference: from each character on the
longest match, and what follows it. The words of the keyword hash are the constant `Keyword`; the values
of literals, lines and columns are left out. `LexEnds` says that every text is read to its
end or fails: a step may leave the pointer where it is, when a word or a number ends on a
character that the next call looks at again, or come to the end in any state.

## Runs

`tlc -config X.cfg M`, in this directory. The compiler stops, at the end of its files or by an
exception, and so does every part of it; that is no deadlock, and `CHECK_DEADLOCK FALSE` says so.

| Run | Configuration | States | What it shows |
| --- | --- | --- | --- |
| scope_sync | `ScopeWalk_sync` | 308 thousand | `InSync`: the generator is in the scope in which the parser was, until it has passed an enum or a scope inside a while; `WalksTheText`: the refinement; `ExternalIsGenerated`; `IInv`, the invariant that the proofs use; `TypeOK` |
| scope_names | `ScopeWalk_names` | 1.2 million | `SlotInItsScope`, `UseReadsItsVariable`, `ReturnFindsItsCallable`; `FailureExplained` lists every reason for which scopes and names make compilation fail |
| scope_nested | `ScopeWalk_nested` | violation | a return inside an if cannot be generated |
| classes_inherit | `Classes_inherit` | 464 thousand | `MethodInItsScope`: each method is generated in its scope, inherited ones included, until a class comes that inherits two, or one with an if; `FailureExplained`; `OneCellPerField`: one field of an object is one cell of it in the eyes of every class of its line; `MethodsAreNearest`; `TypeOK` |
| types_three | `Types_three` | 618 thousand | `NamesAsDeclared`: the table says of a name what the modules say; `TwoWaysAgree`; `CallsOfTypes`: which calls are taken for constructors'; `TypeOK` |
| flow_body | `Flow_body` | 1.45 million | `Verifies`: which bodies make modules that LLVM accepts; `PhisMatch`; `RunsAsWritten`: what control can come to after each piece of code is what the text says; `TypeOK` |
| expr_read | `Expr_read` | 206 thousand | `OperandsSuffice`, `NothingDropped`, `ReadsAsWritten`, `TypeOK` |
| expr_precedence | `Expr_precedence` | violation | a + b < c is a + (b < c) |
| calls_read | `Calls_read` | 492 thousand | `ReadsAsWritten`: calls get their own arguments, wherever no call takes its neighbour's bracket; `RunsOnce`: they are generated once, in order, short of chains of three; `TypeOK` |
| lexer_texts | `Lexer_texts` | 975 thousand | `LexesAsWritten`, `NumeralsConvert`, `TypeOK`; `LexEnds`, the one liveness property |
| driver_any | `Driver_any` | 3.9 million | any command line of up to 4 with files that cannot be opened and failing objects: `CodeInOnePlace`, `TypeOK` (every computed index is in range); with up to two files `LinksItsImports` and `FailureExplained` |
| driver_three | `Driver_three` | violation | with three files objects hold the wrong code |

Bounds and why they are enough:

* scope_sync: `MaxEvent` 12 with two files and one name. Two modules take two events each,
  which leaves a class with a method and an if, or two classes, beside an import and a
  second file that runs into the shared scopes; a shifted cursor shows as soon as there are
  two siblings. Two module names, so that a file can import the other, itself or a
  namesake.
* scope_names: `MaxEvent` 10 with one file and two names, which variables, functions and
  classes share: a function with two nested blocks, a declaration in each, and a use.
* classes_inherit: three classes, so that a copy is copied again; `MaxMember` 4 among all of
  them, of two method names and three field names: a class with two methods, one of
  them overridden two classes further down, with a field to spare. The names of fields
  are interchangeable (`AnyField`); those of methods are not, their classes are in them.
* types_three: three modules, two imports each, `MaxSaid` 3 registrations, of which a class
  makes two: a class and a variable that takes its name or that of the pointer to it, or
  three variables, in modules that import what another imported and redeclared. Two names
  of classes, one of them a builtin type's, so that a class can hide it; variables may be
  called like the other class or its pointer, and be of the builtin type or the class.
* flow_body: `MaxText` 10: an if with a plain else in a then part or an else part of another, an `else
  if` with an else of its own, an if or a for within a for with code on both sides.
* expr_read: `MaxToken` 7: three binary operators in a row, or two within a bracket, over
  three levels of precedence and both minus signs.
* calls_read: `MaxToken` 18: a call of each kind as an argument of each kind, with a comma or
  a chain behind it, over three levels.
* lexer_texts: `MaxPiece` 5, pieces of one or two characters: a number with a fraction and a
  neighbour, a comment between any two lexemes, a string of three characters. A character that
  is looked at for ever, or an end that is missed, needs no more than the lexeme it happens in.
* driver_any: `MaxArg` 4 with three names, so that repetitions occur; `MaxImport` 3, so that a
  file can import another twice and still go on.

Fairness: only `Lexer!FairSpec` has any, weak fairness of `Lex`, the way through the loop of
`next`. `lex` runs in the one thread there is, which takes the next step as long as there is one;
the choice between the branches is not made fair, nor that the text is ever
handed to the lexer. No other property rests on fairness. That the compiler as a whole ends is not
claimed: it does not where `parseProgram` meets a token that begins no declaration.

## What is proved

TLC checks small instances; the following holds for every value of the constants, under
the modules' assumptions on them (`WalkAssumption`: method names are what `Mangled`
makes and bounds are naturals; `ClassesAssumption`: classes have names of their own,
<class>_<method> tells the methods of a class apart and is no name of a variable, a
program has a module; `FlowAssumption`, `TypesAssumption`, `DriverAssumption`, `ExprAssumption`,
`CallsAssumption`;
`LexerAssumption`: texts are texts).

* `ScopeWalk_proofs`, behind a first part about the operators of `ScopeTree`. `Invariant`: `IInv` is inductive. `InSync` alone is not: that the
  next unskipped child is the right one depends on where every cursor stands
  relative to every scope made so far (`Cursors`), on siblings being in text order
  (`TextOrder`), on every unskipped child having been made by an event (`TreeShape`,
  `MadeScopes`), on hidden scopes being accounted for (`HiddenScopes`), on the
  bracket structure of the events (`OpenNests`, `LeavesMatch`), and on imports not
  hiding what is still to be generated (`ExternalIsGenerated`, `ImportsFirst`). From it
  `TypeCorrect`, `StaysInSync` and `ExternalAfterGeneration`. The steps of the parser are
  proved along a common pattern: the tree as the first part describes it after each
  of its operators (what was there is still there, and what is new), then one lemma
  per part of the invariant.
* `ScopeWalk_proofs`, in its second part. `Refinement`: `Spec => WalksTheText`. The initial states map to the
  initial state; a step of the parser appends one element (`ReadOne`), or changes nothing
  that shows (`ParseProgram` but for its event, failures); a step of the generator
  passes one element, or skips to the end of one that it does not visit (`PassTo`), and
  arrives where the next one was read by `InSync`, which is why `IInv` is needed on
  both sides of the step. Behind a hidden element it is a `Stray` or any `PassTo`.
* `ScopeWalk_proofs`, in its third part. `NInv` adds two parts to `IInv`, neither of which mentions the generator's way
  through the tree. `Nesting` is about the text: a construct is left once, within the
  one around it, and around each event the same constructs are open for the text and for
  the tree (`BlocksAround`); a use stands behind a declaration (`UsesDeclared`); what was
  passed was passed whole (`PassedWhole`). `Naming` is about the tree: parents come before
  children (`ParentsBefore`, which ends the recursion of `GetSymbol`), each construct has a
  scope of its own (`ScopesApart`), the symbol of a name in a scope is its last declaration
  there (`DeclsNamed`, `Declared`), and its slot that of the last one the generator passed
  (`SlotsLatest`). A use then finds its variable by two arguments: the scopes that are
  searched are those of the blocks open around it, and the last declaration before it
  was passed, or a while or switch around it would still be open, which shows in the text.
  From it `SlotsInTheirScopes`, `UsesReadTheirVariables`, `ReturnsFindTheirCallables`, and
  `FailuresExplained`: each step that fails contradicts one of these parts unless the text
  is one of those named.
* `Classes_proofs`. `CInv` is inductive. `MethodInItsScope` needs to know where the generator's
  cursors will lead before it starts: the scopes of the classes are the children of the module in
  the order of the classes (`Rows`), and among the children of a class that has only
  classes without tangles up to it the scopes of its methods come in the order of the methods, all
  others being external (`Lined`, `ClassesLined`). While a class is read this holds of its own
  members, behind what was copied (`OwnLined`), and the copies are there under the names
  that `LeaveDerived` looks for (`BaseCopied`). At its end the one method that it may inherit
  without a tangle meets the one copy that becomes its scope, in front of its own (`DerivedLined`); what
  is a tangle, more than one copy or a copy with an if, is just what this argument cannot spare.
  No scope is in two classes (`KidsApart`), so that neither adopting one for a class nor walking
  through a class disturbs another, and the scopes of the classes to come are as
  the parser left them (`Ahead`). A visit to a class then takes its children one by
  one (`WalkedWithin`). From it `MethodsInTheirScopes`, `FailuresExplained` and `TypeCorrect`, the last
  of programs with tangles too: there the walk is known to stay in the tree
  and no more (`WalkOK`). The last part is about `MethodsAreNearest`, of all programs. The nearest methods and
  the lines without overriding are recursive over the heap, in which classes only point
  back (`Backward`): their equations have a solution (`Recursion`), which grows with the
  heap but does not change (`NearestKept`, `PlainKept`). `MInv` says of every class that has ended that no
  method is in it twice (`Once`) and that each is the nearest (`AreNearest`). `LeaveDerived`
  composes the copies that it takes from the base with the class's own (`ComposedElements`); a
  copy has the origin of what it copies, which by the invariant is the base's nearest, and
  hence the class's, which has none of that name of its own (`ComposedNearest`); and where
  nothing is overridden the copying does not stop early. From it `MethodsNearest`.
* `Flow_proofs`. `FInv` is inductive. `Verifies` needs more than the blocks that are
  finished: of the statements being visited, which blocks they have set aside and that
  these are empty, distinct, and not the one in which the builder is, in then and else parts
  alike (`Shape`); that
  every block but those and the builder's is closed (`OthersClosed`), and how the
  builder's block ends when the text has or has not a return (`Ends`). Every visit then fills one block and hands the builder the
  next. From it `TypeCorrect` and `VerifiesAlways`: for bodies of any length and
  nesting, the module is accepted by the verifier exactly when returns stand where
  `isVoid` expects them. `Phis` adds that a phi has a value for each block with a branch to
  its own at any time (`FromBranches`): while the body of a for is visited, for the block
  before it, and no block that is to be filled later has one (`LoopsApart`). In closed blocks
  the branches come last, so `PhisAlwaysMatch` follows. `Meets` is the invariant behind
  `BodiesRun`, that a callable that verifies runs as its text says. It gives every block
  the statement that made it and its role in it (the body, the else part, what is behind
  the end), and so a place in the text where it begins. The words that are closed own each
  other as the nesting says (`OwnersKnown`), those that are open are the statements being
  visited (`OpenKnown`, `MakersKnown`), every instruction is of one of six kinds that its
  place explains (`Known`), and every word that makes code has it somewhere (`Coded`).
  Each word adds one instruction or a few at the place the builder has come to (`Going`),
  and none of the earlier ones stops being known (`KnownStays`). At the end every
  instruction has its place: what control comes to there is what arrives at that place, by descending
  over the places of the text from its end (`ComesAt`, `FoundAll`), since a branch only
  leads to places further on, but for the test of a `for`, which is code itself. Hence what is generated leads
  where the text leads, and no other way (`RunsGoOn`, `TestsGoOn`, `StepsGoOn`). Bodies
  that do not verify need nothing: `Sound` says which may.
* `Types_proofs`. `TInv` adds to the types that behind the imports a builtin name has its type
  or was declared in the module (`BuiltinsStay`): without it, what an import wrote could
  stand between the two ways of asking. Five shapes of declaration in three functions
  of the parser, and the end of a class, which registers twice, come down to one lemma per
  registration (`SaidOne`). From it `TypeCorrect` and
  `LookupsAgree`. `MInv` says that the text has a reading, a function that solves the
  equations of `Meaning` at every place, and that the table holds what it says; a step of the
  parser changes the reading as it changes the table (`ImportReads`, `SaidReads`). There is
  no other reading, for two would differ at a first place (`OneReading`), so
  `NamesReadRight`. What a module sees is the least set with it that holds its imports
  (`SeesLeast`), and by the same kind of argument a name means something exactly where it is
  builtin or declared in sight (`ReadInSight`): `CallsTakenRight`, with no induction over
  steps.
* `Driver_proofs`. `DInv` adds to the types where `buff` points while a file is compiled
  (`LastBuffer`) and that what is stored comes from units behind the one at hand
  (`Behind`). From it `TypeCorrect` and `NeverLinkedTwice`, files and objects that fail included.
  `FewInv` is about up to two files, for any number of imports. The last file is compiled when no type is known, so
  that all its imports fail (`KnownBehind`, `LastUnit`). The other one finds its list in the
  first slot and the module of the last in the last slot, which for two files are the right
  ones; it has linked nothing, or the first import of its list (`FirstUnit`). Hence what
  was written is known (`Objects`), and the reference comes down to it (`PartsAre`):
  `TwoFilesLinked`, `FailuresExplained`.
* `Expr_proofs`. `EInv` says of each frame that it has an operand for every operator
  and one more where the loop may pop (`Supplied`), which has to count the frames that wait
  for a nested expression too. From it `NeverUnderflows`. `RInv` relates the calls that wait for a
  nested expression to the brackets that were read and not closed (`Bracketed`): there are
  never more calls than brackets, and an expression closes all its brackets, so the token
  that a call reads behind its own is there, `TypeCorrect`. The parser takes some operators
  for others and drops tokens; nothing in the argument assumes that it does not.
  `PInv` is what the stacks mean. The calls under way began at tokens that are known
  (`UnderWay`); the operators on a stack bind tighter from one to the next, and each has
  behind it the finished expression to its left (`Stacked`); a call that waits does so behind its
  bracket or `!` (`Waits`). A finished expression is a piece with balanced brackets, in whose
  tree each of its tokens is once (`Whole`), and which is the tree of the reference if the
  numbers agree with the groups (`Part`). Popping an operator makes it the root of the piece: on its left
  nothing is looser, on its right all is tighter, which is how the reference chooses the root
  (`RootIs`). `Trees` solves its equations at every piece, since it is defined on
  all of them by what is shorter (`TreesAre`). From it `NoneDropped` and `TreeAsWritten`.
* `Calls_proofs`. The argument has three layers, each resting on the one before. `AuthorInv` gives
  every text a history, a record for each token of what was open, complete and to be
  generated behind it (`Story`, one case of `StepAt` for each kind of token); a step of the author
  appends to it. `ParserInv` is what the parser may rely on in any text of the author: what follows a name,
  an operand or a bracket (`Follows`), how many parts it has gathered in each mode
  (`ModeFacts`), that a frame has a receiver where its kind needs one (`HasLeft`). From these
  `TypeCorrect`, expressions that are not readable included. `MatchInv` relates the two: in a
  readable text there is a token j such that the frames are the calls open behind j, with as many
  arguments read (`Stacked`), what was built is what is complete there, and `at` is
  the next token, or further on by the one bracket that a grasping call took, when
  nothing but brackets follows (`Position`). A call that takes its neighbour's bracket then
  does no harm since its neighbour finds no bracket to read: `TreeAsWritten`. `ValueInv` adds what
  the tree is worth: the calls to be generated of the receivers and arguments of all frames,
  outermost first, and of the part last read, are together those that the history counts
  behind j (`Base`, `Valued`). Without a chain of three no part is in two of them (`Short`), so
  `EveryCallOnce`. Histories are unique, so the properties, which count brackets by a
  recursive function of their own (`Opened`), say the same.
* `Lexer_proofs`. `LInv` adds that between two tokens nothing is gathered where START has
  nothing to skip (`Gathered`). That the end of a line exists, which the place of a
  character behind a comment rests on, is a least-element argument. From it
  `TypeCorrect` and `ConvertsNumeralsOnly`.
  `WInv` says where the automaton is in a text whose lexemes are `Clean`: what was returned and
  what the reference makes of the text from some character on are together the whole
  (`Follows`), and what was gathered is the text from that character to the pointer, a
  part of the lexeme that begins there (`Under`). No step is into `fail` or out of the text,
  since the character behind such a part is still known not to be a slash
  (`WordMid`, `NumberMid`, `RealMid`, `StringMid`). From it `TextsLexed`. `Meaning` solves its
  equation, by counting from the end of the text (`MeaningThere`).

The library's induction theorems take an operator, which no installed prover can supply.
Where the proofs above need induction over data they take a least counterexample instead
(`LeastNatural`, from the well-foundedness of < on the naturals), which is about a set.

Only model-checked: `OneCellPerField` of `Classes`, which adds up the sizes of the classes of a
line, and `LexEnds` of `Lexer` (liveness under fairness is beyond the prover).

## What disagrees with the repository's own words

Three runs end in a violation, each a program that the documentation, a comment or a test
calls legal: nested returns (`scope_nested`), three files (`driver_three`) and the order of
precedences (`expr_precedence`). Other disagreements are conditions of passing
properties, which so say exactly where the code does what it should:

* an enum shifts all scopes behind it, since the parser makes a scope that the generator
  never visits (`Scope.h:95`, `CodegenVisitor.h:270`, against `test/basic/enum.obw`);
  while and switch do so with what is inside them: `Pure`, the condition of
  `InSync`, and the hidden elements of `TextWalk`;
* an empty body, which `spec.txt:148-149` allows, is lost, and with it the file
  (`Parser.cc:812-813`; a class dereferences null at 942): a case of `ScopeWalk!FailureExplained`;
* an else with a single `end`, as `spec.txt:175` and `grammar.ebnf:69` have it, loses the
  then part (`Parser.cc:812`): a case of `ScopeWalk!FailureExplained`;
* a lone slash is not lexed (`Lexer.cc:223`, against `test/basic/operators.obw:10`): a condition of
  `LexesAsWritten`;
* a bare return dereferences null; importing a module twice, or from a file that stands
  before it, fails, as does a class Main without a constructor that takes no arguments: the
  two `FailureExplained`.

No sentence of the repository contradicts the following, but a user would be surprised:

* Calls. A function called without arguments, or a method of what a call answered, takes
  the closing bracket of the call around it when it is its last argument, so that a comma
  behind goes to a call further out (`Readable`). Behind the result of a function a dot is
  not read. In `v.b().b().b()` the first call is generated three times, once for every part
  that has it in its receiver (`LongChain`).
* Flow. A for runs its body before its
  first test and allocates its variables anew in each round. `FuncDecl::isVoid` is not
  set by one of its constructors (`Decl.h:219`); whether a function with a type is given a
  second terminator, and its module thrown away, is up to what the memory held.
  A return of a value in a callable without a type dereferences null.
* Classes. With two inherited methods, or one that holds an if, the copied scopes no longer
  come in the order of the copied methods, or their shared children are passed twice;
  what is generated from there on looks in the wrong scopes. An inherited field other than
  the first has the number it had in its own class (`Stray`). The first method that a
  class overrides ends the copying, so those behind it are not inherited.
* Types. A variable takes the table entry of a class of the same name, in modules that import
  it too; a function so named is then taken for a constructor, as is one that is called thisC where
  a class C is in sight. A pointer to the class at hand points to null, since a class gets its
  type when it ends. The pointer of `access Array[T]` is lost: the list takes its entry.

## Not modelled

Values and LLVM types of the instructions, conversions and casts, array literals, arithmetic
of the builtin classes (among them the fall-through of multiplication into comparison);
variables of modules, which dereference a null insert block; forward declarations; generics, which are
stubs; the recovery in `expect` and `parseParameters`, which goes on with a token that is
not there; values of literals (`std::stoi` may throw); fields behind dots. The semantic
analyser is not called, and the printer only formats, but for the null it dereferences
(`ScopeWalk`).

A token that begins no declaration keeps `parseProgram` in its loop for ever, by a branch that
reads nothing. The texts of the models are grammatical and hold no such token but the `end` that an
empty body leaves unread, for which `ScopeWalk` has the phase `lost`.

## Plan

What is left, in the order of use:

1. `ScopeWalk`: variables of modules, forward declarations, the header of for; base classes
   from `Classes` in the full walk.
2. `Calls` and `Expr` over one text; today each leaves the other's tokens out.
3. `expect`: the parser on texts that are not programs.
4. Proofs: `OneCellPerField` of `Classes`.
