------------------------------ MODULE ScopeTree ------------------------------
(***************************************************************************)
(* The tree of scopes that the parser builds and the code generator walks  *)
(* (include/frontend/Scope.h, include/frontend/SymbolTable.h).             *)
(*                                                                         *)
(* A tree is a sequence of scopes; a scope's identity is its place in the  *)
(* sequence, which stands for the address of the Scope object.  The first  *)
(* is "Global".  Nothing is ever removed: scopes are shared pointers that  *)
(* live as long as the global one.                                         *)
(***************************************************************************)
EXTENDS Integers, Sequences

CONSTANTS
  VarName,      \* names of variables, functions, classes and enums
  MethodName,   \* mangled names of methods, <Class>_<method>
  ModuleName    \* names that a file may give in its module line

Symbol == VarName \cup MethodName

BuiltinModule == <<"Integer", "i64", "Real", "Boolean">>

\* The names the parser gives to scopes that have none of their own, the last for
\* <Class>_Create<types>, which no symbol map holds.
FixedName == {"Global", "if_else", "for_loop", "Create"}
Name == Symbol \cup ModuleName \cup FixedName \cup {BuiltinModule[k] : k \in 1 .. 4}

\* ScopeKind.  The last two are the kinds that compare >= 7.
BuiltinKind == {"module_builtin", "class_builtin"}
Kind == {"global", "module", "class", "method", "enum", "loop"} \cup BuiltinKind

None == 0       \* no scope: an expired parent pointer, a nullptr
Global == 1     \* SymbolTable::global_scope
NoDecl == 0     \* a name that the symbol map of a scope does not hold

NoSymbols == [n \in Symbol |-> NoDecl]

(***************************************************************************)
(* A scope.  decl and alloca are the two halves of its symbol map: for each*)
(* name the declaration, and the declaration whose stack slot was recorded *)
(* for it.  cursor is depth + 1: how many children nextScope has passed.   *)
(***************************************************************************)
NewScope(kind, name, parent) ==
  [kind |-> kind, name |-> name, parent |-> parent, children |-> << >>,
   external |-> FALSE, cursor |-> 0, decl |-> NoSymbols, alloca |-> NoSymbols]

ScopeType ==
  [kind : Kind, name : Name, parent : Nat, children : Seq(Nat), external : BOOLEAN,
   cursor : Nat, decl : [Symbol -> Nat], alloca : [Symbol -> Nat]]

\* Every pointer of the tree leads to one of its scopes.
IsTree(sc) ==
  /\ sc \in Seq(ScopeType)
  /\ \A s \in 1 .. Len(sc) :
       /\ sc[s].parent \in 0 .. Len(sc)
       /\ \A k \in 1 .. Len(sc[s].children) : sc[s].children[k] \in 1 .. Len(sc)

\* Mutation: the new scope is the first child.
CreateChildFirst(sc, s, kind, name) ==
  Append([sc EXCEPT ![s].children = <<Len(sc) + 1>> \o @], NewScope(kind, name, s))

\* Scope::createChild: the new scope is the last child of s.
CreateChild(sc, s, kind, name) ==
  Append([sc EXCEPT ![s].children = Append(@, Len(sc) + 1)],
         NewScope(kind, name, s))

\* Scope::addSymbol(name, decl): silently replaces an earlier declaration.
AddDecl(sc, s, n, d) == [sc EXCEPT ![s].decl[n] = d]

\* Scope::addSymbol(name, alloca): only for a name that the parser declared here.
AddAlloca(sc, s, n, d) ==
  IF sc[s].decl[n] = NoDecl THEN sc ELSE [sc EXCEPT ![s].alloca[n] = d]

\* Scope::getSymbol: the innermost scope, from s outwards, whose map holds n.
GetSymbol(sc, s, n) ==
  LET found[t \in 0 .. Len(sc)] ==
        IF t = None THEN None
        ELSE IF sc[t].decl[n] # NoDecl THEN t ELSE found[sc[t].parent]
  IN  found[s]

-----------------------------------------------------------------------------
(***************************************************************************)
(* The walk of the code generator.                                         *)
(***************************************************************************)

\* Mutation: what another module shares is visited again.
SkippableBuiltin(sc, c) == sc[c].kind \in BuiltinKind

\* The children that Scope::nextScope steps over.
Skippable(sc, c) == sc[c].kind \in BuiltinKind \/ sc[c].external

Least(S) == CHOOSE k \in S : \A j \in S : k <= j

Waiting(sc, s) ==
  {k \in sc[s].cursor + 1 .. Len(sc[s].children) : ~Skippable(sc, sc[s].children[k])}

\* Scope::nextScope with no child left answers the parent; when only skippable
\* children are left it reads past the end of the vector.
Exhausted(sc, s) == sc[s].cursor + 1 > Len(sc[s].children)

NextScope(sc, s) ==
  IF Exhausted(sc, s) THEN sc[s].parent
  ELSE IF Waiting(sc, s) = {} THEN None
  ELSE sc[s].children[Least(Waiting(sc, s))]

\* What nextScope does to the cursor of s, which it never sets back.
PassedTo(sc, s) ==
  IF Exhausted(sc, s) THEN sc[s].cursor + 1
  ELSE IF Waiting(sc, s) = {} THEN Len(sc[s].children) + 1
  ELSE Least(Waiting(sc, s))

Advance(sc, s) == [sc EXCEPT ![s].cursor = PassedTo(sc, s)]

-----------------------------------------------------------------------------
(***************************************************************************)
(* What every module brings with it.                                       *)
(***************************************************************************)

\* SymbolTable::initBuiltinFunctions, which every Parser calls again: under the
\* current scope s four modules, each with one class of the same name.
InitBuiltins(sc, s) ==
  LET n == Len(sc)
  IN  [sc EXCEPT ![s].children = @ \o [k \in 1 .. 4 |-> n + 2 * k - 1]]
      \o [i \in 1 .. 8 |->
            IF i % 2 = 1
            THEN [NewScope("module_builtin", BuiltinModule[(i + 1) \div 2], s)
                    EXCEPT !.children = <<n + i + 1>>]
            ELSE NewScope("class_builtin", BuiltinModule[i \div 2], n + i - 1)]

\* The first child of Global with a name; None when there is none.
ModuleNamed(sc, name) ==
  LET at == {k \in 1 .. Len(sc[Global].children) :
               sc[sc[Global].children[k]].name = name}
  IN  IF at = {} THEN None ELSE sc[Global].children[Least(at)]

\* SymbolTable::copySymbolFromModulesToCurrent: the declarations of module src and
\* its child scopes become those of dst too; the shared scopes turn external.
ShareModule(sc, src, dst) ==
  LET shared == {sc[src].children[k] : k \in 1 .. Len(sc[src].children)}
      moved(s) == IF s = dst
                  THEN [sc[s] EXCEPT
                          !.children = @ \o sc[src].children,
                          !.decl = [n \in Symbol |->
                                      IF sc[src].decl[n] # NoDecl
                                      THEN sc[src].decl[n] ELSE @[n]]]
                  ELSE sc[s]
  IN  [s \in 1 .. Len(sc) |->
         IF s \in shared THEN [moved(s) EXCEPT !.external = TRUE] ELSE moved(s)]

\* The whole call, with the two searches by name: nothing is copied when no module
\* is called `from`.
CopyModule(sc, from, to) ==
  IF ModuleNamed(sc, from) = None THEN sc
  ELSE ShareModule(sc, ModuleNamed(sc, from), ModuleNamed(sc, to))
=============================================================================
