------------------------------- MODULE Classes -------------------------------
(***************************************************************************)
(* Classes with a base class: what parseClassDecl copies from the base, and*)
(* what the code generator makes of the copies                             *)
(* (src/src/frontend/parser/Parser.cc, include/frontend/SymbolTable.h,     *)
(* src/src/backend/CodegenVisitor.cc).  One module; the scopes are those of*)
(* ScopeTree.                                                              *)
(*                                                                         *)
(* The declarations live in a heap, a sequence; the place of one in it is  *)
(* its address, which is what the symbol maps and the classes hold.  No    *)
(* member function takes or declares variables: of its body only matters   *)
(* whether it holds an if statement, which has a scope of its own.  A class *)
(* that is empty here has members that this module leaves out: without any *)
(* member parseBlock answers nullptr, and the compiler fails before anything*)
(* is copied (BodyLost in ScopeWalk).                                      *)
(***************************************************************************)
EXTENDS ScopeTree, SequencesExt

CONSTANTS
  Mangled,      \* Mangled[<<c, m>>]: <c>_<m>
  ClassName,    \* the names of a program's classes, in order
  FieldName, Method,
  MaxMember     \* bound: members that all classes declare

\* Programs give each class a name of its own, and no other name looks like a mangled one.
ASSUME ClassesAssumption ==
  /\ ClassName \in Seq(VarName \ FieldName)
  /\ \A j, k \in 1 .. Len(ClassName) : ClassName[j] = ClassName[k] => j = k
  /\ FieldName \subseteq VarName /\ VarName \cap MethodName = {} /\ "" \notin Method
  /\ Mangled \in [VarName \X Method -> MethodName]
  /\ \A c \in VarName, m, n \in Method : Mangled[<<c, m>>] = Mangled[<<c, n>>] => m = n
  /\ ModuleName # {} /\ MaxMember \in Nat

VARIABLES
  scopes,     \* the scope tree (ScopeTree)
  current,    \* SymbolTable::current_scope
  decls,      \* the heap of declarations
  parts,      \* the body of the class being parsed, so far
  base,       \* its base class, NoDecl if it has none
  classes,    \* the classes of the module, in order
  phase,      \* "parse", then "codegen"; "failed"
  cls,        \* how many classes the generator is done with
  cg,         \* CodeGenVisitor::currentScope
  visited     \* the methods that were generated, each with the scope it was generated in

vars == <<scopes, current, decls, parts, base, classes, phase, cls, cg, visited>>
parserVars == <<current, decls, parts, base, classes>>
generatorVars == <<cls, cg, visited>>

Module == 2

\* A declaration.  index is the FieldDecl's; fields and methods are the ClassDecl's.
\* class is the base of a class and the type of a field that is one.  real is a
\* method's name without the class's.  Nothing but the properties looks at home, the
\* scope made for a method, and at origin, the member that the text declares.
NewDecl(kind, name) ==
  [kind |-> kind, name |-> name, index |-> 0, fields |-> << >>, methods |-> << >>,
   class |-> NoDecl, real |-> "", nested |-> FALSE, home |-> None, origin |-> NoDecl]

InClass == current # Module
ClassAtHand == scopes[current].name

\* The elements of a sequence that are in a set.
Among(s, set) ==
  LET among[k \in 0 .. Len(s)] ==
        IF k = 0 THEN << >>
        ELSE IF s[k] \in set THEN Append(among[k - 1], s[k]) ELSE among[k - 1]
  IN  among[Len(s)]

DeclOf(kinds) == {d \in 1 .. Len(decls) : decls[d].kind \in kinds}
MethodsIn(sc) == {c \in 1 .. Len(sc) : sc[c].kind = "method"}

Own(kinds) == Among(parts, DeclOf(kinds))
Members == {d \in 1 .. Len(decls) : decls[d].origin = d}

Init ==
  /\ scopes = CreateChild(<<NewScope("global", "Global", None)>>, Global, "module",
                          CHOOSE m \in ModuleName : TRUE)
  /\ current = Module
  /\ decls = << >>
  /\ parts = << >>
  /\ base = NoDecl
  /\ classes = << >>
  /\ phase = "parse"
  /\ cls = 0
  /\ cg = Module
  /\ visited = {}

-----------------------------------------------------------------------------
(***************************************************************************)
(* The parser.                                                             *)
(***************************************************************************)

\* The first child of a scope with a name.
ChildNamed(sc, s, name) ==
  sc[s].children[Least({k \in 1 .. Len(sc[s].children) :
                          sc[sc[s].children[k]].name = name})]

\* Mutation: the copies are not external.
CopyClassVisibly(sc, from, to) ==
  LET src == ChildNamed(sc, Module, from)
      dst == ChildNamed(sc, Module, to)
      copied == Among(sc[src].children, MethodsIn(sc))
  IN  [sc EXCEPT ![dst].children = @ \o [k \in 1 .. Len(copied) |-> Len(sc) + k]]
      \o [k \in 1 .. Len(copied) |-> sc[copied[k]]]

\* SymbolTable::copySymbolsAndChildren, for two classes of the module: all symbols, and
\* a shallow copy of the scope of every method and constructor.  A copy keeps the
\* parent and shares the children.
CopyClass(sc, from, to) ==
  LET src == ChildNamed(sc, Module, from)
      dst == ChildNamed(sc, Module, to)
      copied == Among(sc[src].children, MethodsIn(sc))
      into == [sc[dst] EXCEPT
                 !.children = @ \o [k \in 1 .. Len(copied) |-> Len(sc) + k],
                 !.decl = [n \in Symbol |->
                             IF sc[src].decl[n] # NoDecl THEN sc[src].decl[n] ELSE @[n]]]
  IN  [sc EXCEPT ![dst] = into]
      \o [k \in 1 .. Len(copied) |-> [sc[copied[k]] EXCEPT !.external = TRUE]]

\* The head of a class.  Programs give each class a name of its own, and extend what
\* was declared before: the lookup of anything else answers nullptr.
EnterClass(b) ==
  LET n == ClassName[Len(classes) + 1]
      entered == CreateChild(scopes, Module, "class", n)
  IN  /\ phase = "parse"
      /\ ~InClass
      /\ Len(classes) < Len(ClassName)
      /\ b = NoDecl \/ b \in {classes[k] : k \in 1 .. Len(classes)}
      /\ scopes' = IF b = NoDecl THEN entered ELSE CopyClass(entered, decls[b].name, n)
      /\ current' = Len(scopes) + 1
      /\ base' = b
      /\ parts' = << >>
      /\ UNCHANGED <<decls, classes, phase, generatorVars>>

\* A member: its declaration goes to the heap and into the body.
ReadMember(sc, d) ==
  /\ phase = "parse"
  /\ InClass
  /\ Cardinality(Members) < MaxMember
  /\ decls' = Append(decls, [d EXCEPT !.origin = Len(decls) + 1])
  /\ parts' = Append(parts, Len(decls) + 1)
  /\ scopes' = sc
  /\ UNCHANGED <<current, base, classes, phase, generatorVars>>

\* parseBlock counts the fields, from 1 on in a class with a base.
ParseField(n) ==
  /\ \A k \in 1 .. Len(parts) : decls[parts[k]].name # n
  /\ ReadMember(AddDecl(scopes, current, n, Len(decls) + 1),
                [NewDecl("field", n) EXCEPT
                   !.index = Len(Own({"field"})) + (IF base = NoDecl THEN 0 ELSE 1)])

\* The scope of a member function, and of the if statement in it.
WithBody(sc, name, nested) ==
  LET method == CreateChild(sc, current, "method", name)
  IN  IF nested THEN CreateChild(method, Len(sc) + 1, "loop", "if_else") ELSE method

ParseMethod(m, nested) ==
  LET name == Mangled[<<ClassAtHand, m>>]
  IN  /\ InClass
      /\ \A k \in 1 .. Len(parts) : decls[parts[k]].name # name
      /\ ReadMember(AddDecl(WithBody(scopes, name, nested), current, name, Len(decls) + 1),
                    [NewDecl("method", name) EXCEPT
                       !.real = m, !.nested = nested, !.home = Len(scopes) + 1])

ParseConstructor ==
  /\ Own({"constructor"}) = << >>
  /\ ReadMember(WithBody(scopes, "Create", FALSE),
                [NewDecl("constructor", "Create") EXCEPT !.home = Len(scopes) + 1])

\* The end of a class that has no base.
LeaveClass ==
  LET id == Len(decls) + 1
  IN  /\ phase = "parse"
      /\ InClass
      /\ base = NoDecl
      /\ decls' = Append(decls, [NewDecl("class", ClassAtHand) EXCEPT
                                   !.fields = Own({"field"}),
                                   !.methods = Own({"method", "constructor"})])
      /\ scopes' = AddDecl(scopes, Module, ClassAtHand, id)
      /\ classes' = Append(classes, id)
      /\ current' = Module
      /\ UNCHANGED <<parts, base, phase, generatorVars>>

\* The end of a class with a base.  The first field becomes the base itself, the own
\* fields are numbered from there, and behind them come the base's: the very FieldDecls,
\* with the numbers that they have there.
FieldsOf(id) == <<id>> \o Own({"field"}) \o decls[base].fields

\* Mutation: the own fields are numbered as if there were no base.
NumberedFromZero ==
  [d \in 1 .. Len(decls) |->
     IF d \in {parts[k] : k \in 1 .. Len(parts)} /\ decls[d].kind = "field"
     THEN [decls[d] EXCEPT
             !.index = (CHOOSE k \in 1 .. Len(parts) : Own({"field"})[k] = d) - 1]
     ELSE decls[d]]

Numbered ==
  [d \in 1 .. Len(decls) |->
     IF d \in {parts[k] : k \in 1 .. Len(parts)} /\ decls[d].kind = "field"
     THEN [decls[d] EXCEPT !.index = CHOOSE k \in 1 .. Len(parts) : Own({"field"})[k] = d]
     ELSE decls[d]]

\* Mutation: nobody asks what the class has already.
InheritedBlindly ==
  Among(decls[base].methods, DeclOf({"method"}))

\* The methods of the base, constructors left out, up to the first that the class has
\* a method of its own for.
Inherited ==
  LET methods == Among(decls[base].methods, DeclOf({"method"}))
      overridden(d) == \E k \in 1 .. Len(parts) : decls[parts[k]].real = decls[d].real
      at == {k \in 1 .. Len(methods) : overridden(methods[k])}
  IN  IF at = {} THEN methods ELSE SubSeq(methods, 1, Least(at) - 1)

NewName(d) == Mangled[<<ClassAtHand, decls[d].real>>]

\* The copied scope of method d, None if it has none.
CopiedScope(d) ==
  LET at == {k \in 1 .. Len(scopes[current].children) :
               LET c == scopes[current].children[k]
               IN  scopes[c].kind = "method" /\ scopes[c].external
                   /\ scopes[c].name = decls[d].name}
  IN  IF at = {} THEN None ELSE scopes[current].children[Least(at)]

\* They are copied under their new names to the front of the methods, and the scopes
\* that were copied for them become scopes of this class.
LeaveDerived ==
  LET id == Len(decls) + 1
      copies == [k \in 1 .. Len(Inherited) |->
                   [decls[Inherited[k]] EXCEPT
                      !.name = NewName(Inherited[k]), !.home = CopiedScope(Inherited[k])]]
      renamed(s) == CHOOSE k \in 1 .. Len(copies) : copies[k].home = s
      adopted(s) == [scopes[s] EXCEPT !.name = copies[renamed(s)].name,
                                      !.external = FALSE, !.parent = current]
      symbols(old) ==
        [n \in Symbol |->
           LET k == {i \in 1 .. Len(copies) : copies[i].name = n}
               f == {i \in 1 .. Len(decls[base].fields) : decls[decls[base].fields[i]].name = n}
           IN  IF k # {} THEN id + Least(k)
               ELSE IF f # {} THEN decls[base].fields[CHOOSE i \in f : \A j \in f : j <= i]
               ELSE old[n]]
      class == id + Len(copies) + 1
  IN  /\ phase = "parse"
      /\ InClass
      /\ base # NoDecl
      /\ decls' = Append(Numbered, [NewDecl("field", decls[base].name) EXCEPT
                                      !.class = base])
                  \o copies
                  \o <<[NewDecl("class", ClassAtHand) EXCEPT
                          !.class = base,
                          !.fields = FieldsOf(id),
                          !.methods = Reverse([k \in 1 .. Len(copies) |-> id + k])
                                      \o Own({"method", "constructor"})]>>
      /\ scopes' = [s \in 1 .. Len(scopes) |->
                      IF \E k \in 1 .. Len(copies) : copies[k].home = s THEN adopted(s)
                      ELSE IF s = current
                      THEN [scopes[s] EXCEPT !.decl = symbols(@)]
                      ELSE IF s = Module
                      THEN [scopes[s] EXCEPT !.decl[ClassAtHand] = class]
                      ELSE scopes[s]]
      /\ classes' = Append(classes, class)
      /\ current' = Module
      /\ UNCHANGED <<parts, base, phase, generatorVars>>

EndProgram ==
  /\ phase = "parse"
  /\ ~InClass
  /\ classes # << >>
  /\ phase' = "codegen"
  /\ UNCHANGED <<scopes, parserVars, generatorVars>>

-----------------------------------------------------------------------------
(***************************************************************************)
(* The code generator.  A walk is a tree, where in it the generator is, and*)
(* which methods it has met in which scopes; it is nowhere when it cannot  *)
(* go on.                                                                  *)
(***************************************************************************)

Down(w) ==
  IF w.at = None THEN w
  ELSE [w EXCEPT !.tree = Advance(w.tree, w.at), !.at = NextScope(w.tree, w.at)]

Up(w) == IF w.at = None THEN w ELSE [w EXCEPT !.at = w.tree[w.at].parent]

\* Mutation: the if statement is not left.
VisitMethodInside(w, d) ==
  LET inside == Down(w)
      met == [inside EXCEPT !.seen = @ \cup {<<d, inside.at>>}]
  IN  Up(IF decls[d].nested THEN Down(met) ELSE met)

\* visit(MethodDecl&) and visit(ConstrDecl&), with the if statement of the body.
VisitMethod(w, d) ==
  LET inside == Down(w)
      met == [inside EXCEPT !.seen = @ \cup {<<d, inside.at>>}]
  IN  Up(IF decls[d].nested THEN Up(Down(met)) ELSE met)

\* The methods of a class, one after the other.
Walked(methods) ==
  LET walk[k \in 0 .. Len(methods)] ==
        IF k = 0 THEN Down([tree |-> scopes, at |-> cg, seen |-> visited])
        ELSE VisitMethod(walk[k - 1], methods[k])
  IN  walk[Len(methods)]

\* Mutation: what prevScope answers is not looked at.
VisitClassUnlocked ==
  LET w == Up(Walked(decls[classes[cls + 1]].methods))
  IN  /\ phase = "codegen"
      /\ cls < Len(classes)
      /\ scopes' = w.tree
      /\ cg' = w.at
      /\ visited' = w.seen
      /\ cls' = cls + 1
      /\ UNCHANGED <<parserVars, phase>>

\* visit(ClassDecl&)
VisitClass ==
  LET w == Up(Walked(decls[classes[cls + 1]].methods))
  IN  /\ phase = "codegen"
      /\ cls < Len(classes)
      /\ scopes' = w.tree
      /\ cg' = IF w.at = None THEN cg ELSE w.at
      /\ visited' = w.seen
      /\ cls' = cls + 1
      /\ phase' = IF w.at = None THEN "failed" ELSE phase
      /\ UNCHANGED parserVars

Next ==
  \/ \E b \in 0 .. Len(decls) : EnterClass(b)
  \/ \E n \in FieldName : ParseField(n)
  \/ \E m \in Method, nested \in BOOLEAN : ParseMethod(m, nested)
  \/ ParseConstructor \/ LeaveClass \/ LeaveDerived \/ EndProgram \/ VisitClass

Spec == Init /\ [][Next]_vars

-----------------------------------------------------------------------------
(***************************************************************************)
(* Properties.                                                             *)
(***************************************************************************)

Classes == {classes[k] : k \in 1 .. Len(classes)}
Elements(s) == {s[k] : k \in 1 .. Len(s)}

DeclType ==
  [kind : {"class", "field", "method", "constructor"}, name : Symbol \cup {"Create"},
   index : Nat, fields : Seq(Nat), methods : Seq(Nat), class : Nat,
   real : Method \cup {""}, nested : BOOLEAN, home : Nat, origin : Nat]

\* Types, and every pointer in range: between scopes, into the heap and into the tree.
TypeOK ==
  /\ IsTree(scopes)
  /\ current \in 1 .. Len(scopes) /\ cg \in 1 .. Len(scopes)
  /\ decls \in Seq(DeclType)
  /\ \A d \in 1 .. Len(decls) :
       /\ Elements(decls[d].fields) \cup Elements(decls[d].methods) \subseteq 1 .. Len(decls)
       /\ decls[d].class \in 0 .. d - 1
       /\ decls[d].home \in 0 .. Len(scopes)
  /\ parts \in Seq(1 .. Len(decls)) /\ classes \in Seq(1 .. Len(decls))
  /\ base \in 0 .. Len(decls)
  /\ phase \in {"parse", "codegen", "failed"}
  /\ cls \in 0 .. Len(classes)
  /\ visited \subseteq (1 .. Len(decls)) \X (0 .. Len(scopes))

\* A class that inherits two methods has their scopes in one order and the methods in
\* the other; an inherited method with an if statement leads into the base class.
Tangled(c) ==
  LET copies == {d \in Elements(decls[c].methods) : decls[d].origin # d}
  IN  Cardinality(copies) > 1 \/ \E d \in copies : decls[d].nested

Straight == \A k \in 1 .. cls : ~Tangled(classes[k])

\* Until it reaches a class that is tangled, the generator visits every method, own or
\* inherited, in the scope that was made for it: the copies of methods that
\* parseClassDecl makes meet the copies of scopes that copySymbolsAndChildren makes.
MethodInItsScope == Straight => \A v \in visited : v[2] = decls[v[1]].home

\* The classes of a program fail to generate only behind one that is tangled.
FailureExplained == phase = "failed" => ~Straight

\* Between two classes, before anything is generated.
Settled == ~InClass /\ cls = 0

\* How many fields there are in an object of a class, those of its copies of bases
\* included, and behind how many of them the field with number k begins.
Cells(size, c) ==
  LET cells[k \in 0 .. Len(decls[c].fields)] ==
        IF k = 0 THEN 0
        ELSE LET f == decls[c].fields[k]
             IN  cells[k - 1] + IF decls[f].class = NoDecl THEN 1 ELSE size[decls[f].class]
  IN  cells

Size ==
  LET size[c \in 1 .. Len(decls)] == Cells(size, c)[Len(decls[c].fields)] IN size

Place(c, k) == Cells(Size, c)[k]

\* What parsePrimary finds for the field n of an object of class c (lookupInClass), and
\* the cell that visit(FieldRefEXP&) computes from its number.
FieldNamed(c, n) == scopes[ChildNamed(scopes, Module, decls[c].name)].decl[n]
Cell(c, n) == Place(c, decls[FieldNamed(c, n)].index)

Has(c, n) == FieldNamed(c, n) # NoDecl
Inherits(c, n) ==
  decls[c].class # NoDecl /\ FieldNamed(c, n) \in Elements(decls[decls[c].class].fields)

\* The number of an inherited field is the one it has in the class that declares it,
\* where it may stand for something else: all but the first field of the whole line of
\* classes are lost to the classes that inherit them.
Stray(c, n) == Inherits(c, n) /\ decls[FieldNamed(c, n)].index # 0

Line ==
  LET line[c \in 1 .. Len(decls)] ==
        {c} \cup (IF decls[c].class = NoDecl THEN {} ELSE line[decls[c].class])
  IN  line

\* Whichever class of its line the code at hand takes an object for, which is that of
\* the base in an inherited method: one field is in one cell, and two are in two, the
\* strays apart (the order in which parseClassDecl puts the base, the own fields and
\* the base's, against the numbers that parseBlock counted).
OneCellPerField ==
  Settled => \A c \in Classes : \A a, b \in Line[c], n, m \in FieldName :
    Has(a, n) /\ ~Stray(a, n) /\ Has(b, m) /\ ~Stray(b, m) =>
      (FieldNamed(a, n) = FieldNamed(b, m) <=> Cell(a, n) = Cell(b, m))

\* The method that a call of r on an object of each class is meant to reach.
Nearest(r) ==
  LET near[c \in 1 .. Len(decls)] ==
        LET own == {d \in Elements(decls[c].methods) :
                      decls[d].origin = d /\ decls[d].real = r}
        IN  IF own # {} THEN CHOOSE d \in own : TRUE
            ELSE IF decls[c].class = NoDecl THEN NoDecl
            ELSE near[decls[c].class]
  IN  near

\* No class of the line that ends in c overrides a method.
OverridesNothing ==
  LET plain[c \in 1 .. Len(decls)] ==
        decls[c].class # NoDecl =>
          /\ plain[decls[c].class]
          /\ \A d \in Elements(decls[c].methods) :
               decls[d].kind = "method" /\ decls[d].origin = d =>
                 Nearest(decls[d].real)[decls[c].class] = NoDecl
  IN  plain

\* The function <Class>_<method> that visit(MethodCallEXP&) calls is the nearest method
\* of that name, and there is only one of it; in a line without overriding there
\* always is one.
MethodsAreNearest ==
  Settled => \A c \in Classes, r \in Method :
    LET found == {d \in Elements(decls[c].methods) : decls[d].real = r}
    IN  /\ Cardinality(found) <= 1
        /\ \A d \in found : decls[d].origin = Nearest(r)[c]
        /\ OverridesNothing[c] /\ Nearest(r)[c] # NoDecl => found # {}
=============================================================================
