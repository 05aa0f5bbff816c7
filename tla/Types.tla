-------------------------------- MODULE Types --------------------------------
(***************************************************************************)
(* The table of types, as the parser fills it and reads it, module after    *)
(* module (include/frontend/TypeTable.h; src/frontend/parser/Parser.cc,     *)
(* parseProgram, parseClassDecl, parseVarDecl, parseFieldDecl,             *)
(* parseParameterDecl).                                                    *)
(*                                                                         *)
(* A module has one table from names to types, for the whole of it.  The   *)
(* names of classes are in it, for every class C the name thisC, a pointer *)
(* to it, and the names of the variables, fields and parameters that are   *)
(* pointers or lists: a name may be any of them in turn.  A plain variable *)
(* only reads the table.  Modules are numbered in the order in which they  *)
(* are parsed; the import of one that is not yet parsed, which fails, is in *)
(* Driver.                                                                 *)
(***************************************************************************)
EXTENDS Integers, Sequences, FiniteSetsExt

CONSTANTS
  Name,       \* names in the tables
  Builtin,    \* those of the builtin types
  ClassName,  \* names that a class may have, builtin types' too
  VarName,    \* names that a variable, field or parameter may have
  TypeName,   \* names that their declarations may give for a type
  This,       \* "this" with the name of a class
  Array,      \* the name "Array"
  MaxModule,  \* bound: modules
  MaxImport,  \* bound: imports of a module
  MaxSaid     \* bound: names registered in all of them

ASSUME TypesAssumption ==
  /\ Builtin \subseteq Name /\ Builtin \cap Nat = {}   \* numbers are classes
  /\ ClassName \subseteq Name /\ VarName \subseteq Name \ Builtin
  /\ TypeName \subseteq Name
  /\ This \in [ClassName -> Name \ Builtin] /\ Array \in Name \ VarName
  /\ MaxModule \in Nat \ {0} /\ MaxImport \in Nat /\ MaxSaid \in Nat

Module == 1 .. MaxModule

VARIABLES
  types,    \* GlobalTypeTable::types: the type of each name in each module
  at,       \* the module that is being parsed
  header,   \* its imports are being read
  inside,   \* the classes whose bodies are being read: one or none
  said,     \* what the declarations so far have registered, in order
  imports   \* the imports of each module

vars == <<types, at, header, inside, said, imports>>

-----------------------------------------------------------------------------
(***************************************************************************)
(* A type is a builtin type or a class, or a pointer to or a list of a      *)
(* type.  A class is known by the place of its name in `said`.              *)
(* Looking up what is not there gives a null pointer, which may be wrapped  *)
(* like a type.                                                            *)
(***************************************************************************)

Null == [wrap |-> << >>, base |-> 0]
Plain(base) == [wrap |-> << >>, base |-> base]
Access(type) == [type EXCEPT !.wrap = <<"access">> \o @]
List(type) == [type EXCEPT !.wrap = <<"list">> \o @]

\* What a table of types t says: globalTypeTable->types[moduleName].getType(name), for a
\* plain variable and for what a pointer points to.
TypeNamed(t, name) == t[at][name]

\* GlobalTypeTable::getType(moduleName, name), for the elements of a list, for
\* `var a : T(...)` and to tell calls of functions from constructors: builtin types first.
TypeQualified(t, name) == IF name \in Builtin THEN Plain(name) ELSE t[at][name]

\* Mutation: addClassType's way of adding what is new.
WithTypeOnce(t, name, type) == [t EXCEPT ![at][name] = IF @ = Null THEN type ELSE @]

\* GlobalTypeTable::addType, TypeTable::addType.
WithType(t, name, type) == [t EXCEPT ![at][name] = type]

\* `access of` is registered with the name of the variable, as is `Array[of]`.  For
\* `Array[access of]` the list follows on the pointer at once.
WithPointer(t, name, of) == WithType(t, name, Access(TypeNamed(t, of)))
WithList(t, name, of) == WithType(t, name, List(TypeQualified(t, of)))
WithPointers(t, name, of) == WithType(t, name, List(Access(TypeNamed(t, of))))

-----------------------------------------------------------------------------
Init ==
  /\ types = [m \in Module |-> [name \in Name |-> Null]]
  /\ at = 1 /\ header = TRUE /\ inside = {}
  /\ said = << >>
  /\ imports = [m \in Module |-> << >>]

\* Mutation: only what is a class is copied.
ImportClasses(from) ==
  /\ header /\ Len(imports[at]) < MaxImport
  /\ from < at
  /\ types' = [types EXCEPT ![at] = [name \in Name |->
                 IF types[from][name].wrap # << >> \/ types[from][name] = Null THEN @[name]
                 ELSE types[from][name]]]
  /\ imports' = [imports EXCEPT ![at] = Append(@, from)]
  /\ UNCHANGED <<at, header, inside, said>>

\* importTypesFromModule: all that the table of the other module holds.
Import(from) ==
  /\ header /\ Len(imports[at]) < MaxImport
  /\ from < at
  /\ types' = [types EXCEPT ![at] = [name \in Name |->
                 IF types[from][name] = Null THEN @[name] ELSE types[from][name]]]
  /\ imports' = [imports EXCEPT ![at] = Append(@, from)]
  /\ UNCHANGED <<at, header, inside, said>>

\* Mutation: the builtin types are added to what is not imported.
ImportBuiltinsOnce ==
  /\ header
  /\ types' = [types EXCEPT ![at] = [name \in Name |->
                 IF name \in Builtin /\ @[name] = Null THEN Plain(name) ELSE @[name]]]
  /\ header' = FALSE
  /\ UNCHANGED <<at, inside, said, imports>>

\* parseProgram behind the imports.
ImportBuiltins ==
  /\ header
  /\ types' = [types EXCEPT ![at] = [name \in Name |->
                 IF name \in Builtin THEN Plain(name) ELSE @[name]]]
  /\ header' = FALSE
  /\ UNCHANGED <<at, inside, said, imports>>

NextModule ==
  /\ ~header /\ inside = {} /\ at < MaxModule
  /\ at' = at + 1
  /\ header' = TRUE
  /\ UNCHANGED <<types, inside, said, imports>>

Entry(form, name, of) == [at |-> at, form |-> form, name |-> name, of |-> of]

\* One declaration; the class around it is still to be registered.
Says(entries) ==
  /\ ~header
  /\ Len(said) + Len(entries) + 2 * Cardinality(inside') <= MaxSaid
  /\ said' = said \o entries

\* Mutation: the type is registered with the name of the class.
BeginClassWithType(name) ==
  /\ inside = {} /\ inside' = {name}
  /\ Says(<< >>)
  /\ types' = WithType(types, name, Plain(Len(said) + 2))
  /\ UNCHANGED <<at, header, imports>>

BeginClass(name) ==
  /\ inside = {} /\ inside' = {name}
  /\ Says(<< >>)
  /\ UNCHANGED <<types, at, header, imports>>

\* The type is registered at the end of its class, behind the pointer to it.
EndClass(name) ==
  /\ name \in inside /\ inside' = {}
  /\ Says(<<Entry("this", This[name], name), Entry("class", name, name)>>)
  /\ LET class == Plain(Len(said) + 2)
     IN  types' = WithType(WithType(types, This[name], Access(class)), name, class)
  /\ UNCHANGED <<at, header, imports>>

\* `name : access of`.
Pointer(name, of) ==
  /\ Says(<<Entry("access", name, of)>>)
  /\ types' = WithPointer(types, name, of)

\* `name : Array[of]`, with a size or without.
Elements(name, of) ==
  /\ Says(<<Entry("list", name, of)>>)
  /\ types' = WithList(types, name, of)

\* `name : Array[access of]`.
Pointers(name, of) ==
  /\ Says(<<Entry("pointers", name, of)>>)
  /\ types' = WithPointers(types, name, of)

\* `name : access Array[of]`: a pointer to what is called Array is registered and then,
\* with the same name, the list.  No list of a parameter follows on its pointer.
PointerElements(name, of) ==
  /\ Says(<<Entry("access", name, Array), Entry("list", name, of)>>)
  /\ types' = WithList(WithPointer(types, name, Array), name, of)

\* `name : access Array[access of]`.
PointerPointers(name, of) ==
  /\ Says(<<Entry("access", name, Array), Entry("pointers", name, of)>>)
  /\ types' = WithPointers(WithPointer(types, name, Array), name, of)

Declares(name, of) ==
  /\ UNCHANGED <<at, header, inside, imports>>
  /\ \/ Pointer(name, of) \/ Elements(name, of) \/ Pointers(name, of)
     \/ PointerElements(name, of) \/ PointerPointers(name, of)

\* Variables stand outside of a class or in one of its methods, parameters too, fields only
\* in a class.
ParseVarDecl == \E name \in VarName, of \in TypeName : Declares(name, of)
ParseParameterDecl ==
  \E name \in VarName, of \in TypeName :
    /\ UNCHANGED <<at, header, inside, imports>>
    /\ Pointer(name, of) \/ Elements(name, of) \/ Pointers(name, of)
ParseFieldDecl ==
  /\ inside # {}
  /\ \E name \in VarName, of \in TypeName : Declares(name, of)

Next ==
  \/ \E from \in Module : Import(from)
  \/ ImportBuiltins \/ NextModule
  \/ \E name \in ClassName : BeginClass(name) \/ EndClass(name)
  \/ ParseVarDecl \/ ParseParameterDecl \/ ParseFieldDecl

Spec == Init /\ [][Next]_vars

-----------------------------------------------------------------------------
(***************************************************************************)
(* Properties.                                                             *)
(***************************************************************************)

Type == [wrap : Seq({"access", "list"}), base : Builtin \cup (0 .. Len(said))]
Form == {"class", "this", "access", "list", "pointers"}

\* The types of the variables; no type is of a class yet to be declared (TypeTable.h).
TypeOK ==
  /\ types \in [Module -> [Name -> Type]]
  /\ at \in Module /\ header \in BOOLEAN
  /\ inside \in SUBSET ClassName
  /\ said \in Seq([at : 1 .. at, form : Form, name : Name, of : Name])
  /\ imports \in [Module -> Seq(Module)]

(***************************************************************************)
(* What a reader of the modules makes of a name: the last declaration of it *)
(* in the module; if there is none, the builtin type; if there is none, the *)
(* last import that has it.  A class C declares thisC as well, before its   *)
(* own name, and `a : access Array[T]` is read as `a : access Array` and    *)
(* `a : Array[T]` behind it: of the pointer nothing is left but when T is a.*)
(***************************************************************************)

\* The type that declaration j gives its name, if `of` meant named.
Given(j, named) ==
  CASE said[j].form = "class" -> Plain(j)
    [] said[j].form = "this" -> Access(Plain(j + 1))
    [] said[j].form = "access" -> Access(named)
    [] said[j].form = "pointers" -> List(Access(named))
    [] said[j].form = "list" -> List(IF said[j].of \in Builtin THEN Plain(said[j].of) ELSE named)

\* The type of name in module m after the first k declarations, as read[<<k, m, name>>].
Meaning ==
  LET read[q \in (0 .. Len(said)) \X Module \X Name] ==
        LET k == q[1]
            m == q[2]
            name == q[3]
            own == {j \in 1 .. k : said[j].at = m /\ said[j].name = name}
            having == {i \in 1 .. Len(imports[m]) : read[<<k, imports[m][i], name>>] # Null}
        IN  IF own # {} THEN Given(Max(own), read[<<Max(own) - 1, m, said[Max(own)].of>>])
            ELSE IF name \in Builtin THEN Plain(name)
            ELSE IF having # {} THEN read[<<k, imports[m][Max(having)], name>>]
            ELSE Null
  IN  read

\* The modules whose tables are complete but for what is still to be declared.
Begun == {m \in Module : m < at \/ (m = at /\ ~header)}

\* The table says of every name what the text says, the declarations of variables that
\* take the name of a class or of one another included, over any number of imports, and
\* a class inside itself is not there yet (addType, importTypesFromModule).  A text that
\* declares C and thisC is taken as it is: whichever comes last hides the other.
NamesAsDeclared ==
  \A m \in Begun, name \in Name : types[m][name] = Meaning[<<Len(said), m, name>>]

\* The two ways of looking a name up agree, so that `var a : T` and `var a : T(...)` and
\* the elements of `Array[T]` have one type, unless the module has a class of its own with
\* the name of a builtin type; that of another module does not matter.
TwoWaysAgree ==
  ~header =>
    \A name \in Name :
      \/ TypeNamed(types, name) = TypeQualified(types, name)
      \/ name \in Builtin /\ \E j \in 1 .. Len(said) : said[j].at = at /\ said[j].name = name

\* The modules that m sees: itself, what it imports, what these import, and so on.
Sees(m) ==
  LET near[d \in 0 .. MaxModule] ==
        IF d = 0 THEN {m}
        ELSE near[d - 1] \cup UNION {{imports[k][i] : i \in 1 .. Len(imports[k])} : k \in near[d - 1]}
  IN  near[MaxModule]

\* parseCallExpression takes a call for a constructor's if the name has a type.  That is so
\* for a builtin type and a class, but also for a function that is called thisC where there
\* is a class C, or that shares its name with a pointer or a list that was declared before,
\* anywhere in the modules that are seen.
CallsOfTypes ==
  ~header =>
    \A name \in Name :
      TypeQualified(types, name) # Null <=>
        \/ name \in Builtin
        \/ \E j \in 1 .. Len(said) : said[j].name = name /\ said[j].at \in Sees(at)
=============================================================================
