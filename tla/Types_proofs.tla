---------------------------- MODULE Types_proofs -----------------------------
(***************************************************************************)
(* What holds of the table of types for any modules, imports, names and    *)
(* declarations.                                                           *)
(***************************************************************************)
EXTENDS Types, TLAPS, WellFoundedInduction

\* A builtin type is lost to its name only by a declaration of the module itself.
Redeclared(name) == \E j \in 1 .. Len(said) : said[j].at = at /\ said[j].name = name
BuiltinsStay ==
  ~header => \A name \in Builtin : types[at][name] = Plain(name) \/ Redeclared(name)

TInv == TypeOK /\ BuiltinsStay

\* The same of a table t and declarations s that are on the way to the next ones: types of
\* classes up to the one with number n.
TypeUpTo(n) == [wrap : Seq({"access", "list"}), base : Builtin \cup (0 .. n)]
Listed(s) == s \in Seq([at : 1 .. at, form : Form, name : Name, of : Name])
RedeclaredIn(s, name) == \E j \in 1 .. Len(s) : s[j].at = at /\ s[j].name = name
Good(t, s, n) ==
  /\ at \in Module /\ t \in [Module -> [Name -> TypeUpTo(n)]] /\ Listed(s)
  /\ \A name \in Builtin : t[at][name] = Plain(name) \/ RedeclaredIn(s, name)

-----------------------------------------------------------------------------
(***************************************************************************)
(* Types.                                                                  *)
(***************************************************************************)

\* The type that nothing has, and that a builtin type has.
LEMMA PlainIsType ==
  ASSUME TypeOK, NEW base \in Builtin \cup (0 .. Len(said))
  PROVE  Plain(base) \in Type /\ Null \in Type
<1>1. Len(said) \in Nat BY DEF TypeOK
<1>2. 0 \in 0 .. Len(said) BY <1>1
<1>3. << >> \in Seq({"access", "list"}) OBVIOUS
<1> QED BY <1>2, <1>3 DEF Plain, Null, Type

\* The type of a pointer and of a list.
LEMMA WrapIsType ==
  ASSUME NEW n, NEW type \in TypeUpTo(n)
  PROVE  Access(type) \in TypeUpTo(n) /\ List(type) \in TypeUpTo(n)
<1>1. type.wrap \in Seq({"access", "list"}) BY DEF TypeUpTo
<1>2. /\ <<"access">> \o type.wrap \in Seq({"access", "list"})
      /\ <<"list">> \o type.wrap \in Seq({"access", "list"})
  BY <1>1
<1> QED BY <1>2 DEF TypeUpTo, Access, List

\* What either way of looking up answers is a type.
LEMMA LookupIsType ==
  ASSUME NEW t, NEW s, NEW n, Good(t, s, n), NEW name \in Name
  PROVE  TypeNamed(t, name) \in TypeUpTo(n) /\ TypeQualified(t, name) \in TypeUpTo(n)
<1>1. t[at][name] \in TypeUpTo(n) BY DEF Good
<1>2. << >> \in Seq({"access", "list"}) OBVIOUS
<1>3. name \in Builtin => Plain(name) \in TypeUpTo(n) BY <1>2 DEF Plain, TypeUpTo
<1> QED BY <1>1, <1>3 DEF TypeNamed, TypeQualified

\* What a declaration gives its name is a type.
LEMMA DeclaresTypes ==
  ASSUME NEW t, NEW s, NEW n, Good(t, s, n), NEW of \in Name
  PROVE  /\ Access(TypeNamed(t, of)) \in TypeUpTo(n)
         /\ List(TypeQualified(t, of)) \in TypeUpTo(n)
         /\ List(Access(TypeNamed(t, of))) \in TypeUpTo(n)
<1>1. TypeNamed(t, of) \in TypeUpTo(n) /\ TypeQualified(t, of) \in TypeUpTo(n)
  BY LookupIsType
<1>2. Access(TypeNamed(t, of)) \in TypeUpTo(n) /\ List(TypeQualified(t, of)) \in TypeUpTo(n)
  BY <1>1, WrapIsType
<1> QED BY <1>2, WrapIsType

\* What is a type is one when there are more classes.
LEMMA TypeGrows ==
  ASSUME NEW k \in Nat, NEW n \in Nat, k <= n, NEW type \in TypeUpTo(k)
  PROVE  type \in TypeUpTo(n)
<1>1. type.wrap \in Seq({"access", "list"}) /\ type.base \in Builtin \cup (0 .. n)
  BY DEF TypeUpTo
<1>2. type = [wrap |-> type.wrap, base |-> type.base] BY DEF TypeUpTo
<1> QED BY <1>1, <1>2 DEF TypeUpTo

\* The table before a declaration, with room for the class of the declaration.
LEMMA GoodBefore ==
  ASSUME TInv, ~header, NEW n \in Nat, Len(said) <= n
  PROVE  Good(types, said, n)
<1> USE DEF TInv, TypeOK
<1>1. Len(said) \in Nat /\ Type = TypeUpTo(Len(said)) BY DEF Type, TypeUpTo
<1>2. \A m \in Module, name \in Name : types[m][name] \in TypeUpTo(n) BY <1>1, TypeGrows
<1>3. types \in [Module -> [Name -> TypeUpTo(n)]] BY <1>2
<1>4. Listed(said) BY DEF Listed
<1> QED BY <1>3, <1>4 DEF Good, BuiltinsStay, Redeclared, RedeclaredIn

-----------------------------------------------------------------------------
(***************************************************************************)
(* Declarations.                                                           *)
(***************************************************************************)

\* What is said is a sequence of entries.
OneMore(s, s2, entry) ==
  /\ Len(s) \in Nat /\ Len(s2) = Len(s) + 1
  /\ \A j \in 1 .. Len(s) : s2[j] = s[j]
  /\ s2[Len(s) + 1] = entry

LEMMA ListedOne ==
  ASSUME at \in Module, NEW s, Listed(s), NEW form \in Form, NEW name \in Name, NEW of \in Name,
         NEW s2, s2 = Append(s, Entry(form, name, of))
  PROVE  Listed(s2) /\ OneMore(s, s2, Entry(form, name, of))
<1> DEFINE Said == [at : 1 .. at, form : Form, name : Name, of : Name]
<1>1. at \in 1 .. at BY DEF Module
<1>2. PICK e : e = Entry(form, name, of) OBVIOUS
<1>3. e \in Said BY <1>1, <1>2 DEF Entry
<1>4. s \in Seq(Said) BY DEF Listed
<1> HIDE DEF Said
<1>5. /\ s2 \in Seq(Said) /\ Len(s) \in Nat /\ Len(s2) = Len(s) + 1
      /\ \A j \in 1 .. Len(s) : s2[j] = s[j]
      /\ s2[Len(s) + 1] = e
  BY ONLY <1>2, <1>3, <1>4, s2 = Append(s, Entry(form, name, of))
<1> QED BY <1>2, <1>5 DEF Said, Listed, OneMore

\* One entry or two, one behind the other.
LEMMA SaysOne ==
  ASSUME TInv, NEW form \in Form, NEW name \in Name, NEW of \in Name,
         Says(<<Entry(form, name, of)>>)
  PROVE  /\ ~header /\ said' = Append(said, Entry(form, name, of)) /\ Len(said') = Len(said) + 1
         /\ Len(said) \in Nat
<1> DEFINE Said == [at : 1 .. at, form : Form, name : Name, of : Name]
<1>1. said \in Seq(Said) /\ Entry(form, name, of) \in Said
  BY TypesAssumption DEF TInv, TypeOK, Entry, Module
<1>2. ~header /\ said' = said \o <<Entry(form, name, of)>> BY DEF Says
<1> HIDE DEF Said
<1> QED BY <1>1, <1>2

LEMMA SaysTwo ==
  ASSUME TInv, NEW form \in Form, NEW name \in Name, NEW of \in Name,
         NEW form2 \in Form, NEW name2 \in Name, NEW of2 \in Name,
         Says(<<Entry(form, name, of), Entry(form2, name2, of2)>>)
  PROVE  /\ ~header
         /\ said' = Append(Append(said, Entry(form, name, of)), Entry(form2, name2, of2))
         /\ Len(said') = Len(said) + 2 /\ Len(said) \in Nat
<1> DEFINE Said == [at : 1 .. at, form : Form, name : Name, of : Name]
<1>1. /\ said \in Seq(Said)
      /\ Entry(form, name, of) \in Said /\ Entry(form2, name2, of2) \in Said
  BY TypesAssumption DEF TInv, TypeOK, Entry, Module
<1>2. ~header /\ said' = said \o <<Entry(form, name, of), Entry(form2, name2, of2)>> BY DEF Says
<1>3. PICK d, e : d = Entry(form, name, of) /\ e = Entry(form2, name2, of2) OBVIOUS
<1> HIDE DEF Said
<1>4. d \in Said /\ e \in Said /\ said' = said \o <<d, e>> BY ONLY <1>1, <1>2, <1>3, Zenon
<1>5. said' = Append(Append(said, d), e) /\ Len(said') = Len(said) + 2 /\ Len(said) \in Nat
  BY ONLY <1>1, <1>4
<1> QED BY <1>2, <1>3, <1>5

\* A declaration that gives its name a type leaves all others as they were.
LEMMA SaidOne ==
  ASSUME NEW t, NEW s, NEW n, Good(t, s, n), NEW form \in Form, NEW name \in Name,
         NEW of \in Name, NEW type \in TypeUpTo(n),
         NEW t2, t2 = WithType(t, name, type),
         NEW s2, s2 = Append(s, Entry(form, name, of))
  PROVE  Good(t2, s2, n)
<1>1. /\ Listed(s2) /\ Len(s) \in Nat /\ Len(s2) = Len(s) + 1
      /\ \A j \in 1 .. Len(s) : s2[j] = s[j]
      /\ s2[Len(s) + 1] = Entry(form, name, of)
  <2>1. at \in Module /\ Listed(s) BY DEF Good
  <2>2. Listed(s2) /\ OneMore(s, s2, Entry(form, name, of)) BY <2>1, ListedOne
  <2> QED BY <2>2 DEF OneMore
<1>2. t2 \in [Module -> [Name -> TypeUpTo(n)]] BY DEF Good, WithType
<1>3. ASSUME NEW b \in Builtin
      PROVE  t2[at][b] = Plain(b) \/ RedeclaredIn(s2, b)
  <2>1. b \in Name BY TypesAssumption
  <2>2. CASE b = name
    <3>1. Len(s) + 1 \in 1 .. Len(s2) BY <1>1
    <3>2. s2[Len(s) + 1].at = at /\ s2[Len(s) + 1].name = b BY <1>1, <2>2 DEF Entry
    <3> QED BY <3>1, <3>2 DEF RedeclaredIn
  <2>3. CASE b # name
    <3>1. t2[at][b] = t[at][b] BY <2>1, <2>3 DEF WithType, Good
    <3>2. RedeclaredIn(s, b) => RedeclaredIn(s2, b) BY <1>1 DEF RedeclaredIn
    <3> QED BY <3>1, <3>2 DEF Good
  <2> QED BY <2>2, <2>3
<1> QED BY <1>1, <1>2, <1>3 DEF Good

\* What is good behind the declaration keeps the invariant.
LEMMA GoodBehind ==
  ASSUME TInv, ~header, UNCHANGED <<at, header, imports>>, inside' \in SUBSET ClassName,
         Good(types', said', Len(said'))
  PROVE  TInv'
<1>1. Type' = TypeUpTo(Len(said')) BY DEF Type, TypeUpTo
<1>2. TypeOK' BY <1>1 DEF TInv, TypeOK, Good, Listed
<1>3. BuiltinsStay' BY DEF Good, RedeclaredIn, BuiltinsStay, Redeclared
<1> QED BY <1>2, <1>3 DEF TInv

\* What any declaration does: to the table, and to what is said.
Declared(name, of) ==
  \/ \E form \in {"access", "list", "pointers"} :
       /\ said' = Append(said, Entry(form, name, of)) /\ Len(said') = Len(said) + 1
       /\ types' = CASE form = "access" -> WithPointer(types, name, of)
                     [] form = "list" -> WithList(types, name, of)
                     [] form = "pointers" -> WithPointers(types, name, of)
  \/ \E form \in {"list", "pointers"} :
       LET t == WithPointer(types, name, Array) IN
       /\ said' = Append(Append(said, Entry("access", name, Array)), Entry(form, name, of))
       /\ Len(said') = Len(said) + 2
       /\ types' = CASE form = "list" -> WithList(t, name, of)
                     [] form = "pointers" -> WithPointers(t, name, of)

LEMMA DeclarationIs ==
  ASSUME TInv, NEW name \in Name, NEW of \in Name,
         \/ Pointer(name, of) \/ Elements(name, of) \/ Pointers(name, of)
         \/ PointerElements(name, of) \/ PointerPointers(name, of)
  PROVE  ~header /\ Len(said) \in Nat /\ Declared(name, of)
<1> DEFINE One(form, table) ==
             /\ said' = Append(said, Entry(form, name, of)) /\ Len(said') = Len(said) + 1
             /\ types' = table
           Two(form, table) ==
             /\ said' = Append(Append(said, Entry("access", name, Array)), Entry(form, name, of))
             /\ Len(said') = Len(said) + 2
             /\ types' = table
<1>1. Array \in Name /\ "access" \in Form /\ "list" \in Form /\ "pointers" \in Form
  BY TypesAssumption DEF Form
<1>2. CASE Pointer(name, of)
  <2>1. Says(<<Entry("access", name, of)>>) /\ types' = WithPointer(types, name, of)
    BY <1>2 DEF Pointer
  <2>2. ~header /\ Len(said) \in Nat /\ One("access", WithPointer(types, name, of))
    BY <1>1, <2>1, SaysOne
  <2> QED BY <2>2 DEF Declared
<1>3. CASE Elements(name, of)
  <2>1. Says(<<Entry("list", name, of)>>) /\ types' = WithList(types, name, of)
    BY <1>3 DEF Elements
  <2>2. ~header /\ Len(said) \in Nat /\ One("list", WithList(types, name, of))
    BY <1>1, <2>1, SaysOne
  <2> QED BY <2>2 DEF Declared
<1>4. CASE Pointers(name, of)
  <2>1. Says(<<Entry("pointers", name, of)>>) /\ types' = WithPointers(types, name, of)
    BY <1>4 DEF Pointers
  <2>2. ~header /\ Len(said) \in Nat /\ One("pointers", WithPointers(types, name, of))
    BY <1>1, <2>1, SaysOne
  <2> QED BY <2>2 DEF Declared
<1>5. CASE PointerElements(name, of)
  <2>1. /\ Says(<<Entry("access", name, Array), Entry("list", name, of)>>)
        /\ types' = WithList(WithPointer(types, name, Array), name, of)
    BY <1>5 DEF PointerElements
  <2>2. ~header /\ Len(said) \in Nat /\ Two("list", WithList(WithPointer(types, name, Array), name, of))
    BY <1>1, <2>1, SaysTwo
  <2> QED BY <2>2 DEF Declared
<1>6. CASE PointerPointers(name, of)
  <2>1. /\ Says(<<Entry("access", name, Array), Entry("pointers", name, of)>>)
        /\ types' = WithPointers(WithPointer(types, name, Array), name, of)
    BY <1>6 DEF PointerPointers
  <2>2. /\ ~header /\ Len(said) \in Nat
        /\ Two("pointers", WithPointers(WithPointer(types, name, Array), name, of))
    BY <1>1, <2>1, SaysTwo
  <2> QED BY <2>2 DEF Declared
<1> QED BY <1>2, <1>3, <1>4, <1>5, <1>6

\* A pointer, a list or a list of pointers, in any table.
LEMMA DeclaredGood ==
  ASSUME NEW t, NEW s, NEW n, Good(t, s, n), NEW name \in Name, NEW of \in Name
  PROVE  /\ Good(WithPointer(t, name, of), Append(s, Entry("access", name, of)), n)
         /\ Good(WithList(t, name, of), Append(s, Entry("list", name, of)), n)
         /\ Good(WithPointers(t, name, of), Append(s, Entry("pointers", name, of)), n)
<1>1. "access" \in Form /\ "list" \in Form /\ "pointers" \in Form BY DEF Form
<1>2. /\ Access(TypeNamed(t, of)) \in TypeUpTo(n)
      /\ List(TypeQualified(t, of)) \in TypeUpTo(n)
      /\ List(Access(TypeNamed(t, of))) \in TypeUpTo(n)
  BY DeclaresTypes
<1> QED BY <1>1, <1>2, SaidOne DEF WithPointer, WithList, WithPointers

\* Pointers, lists, and lists of pointers.
LEMMA DeclaredOne ==
  ASSUME TInv, NEW name \in Name, NEW of \in Name,
         \/ Pointer(name, of) \/ Elements(name, of) \/ Pointers(name, of)
         \/ PointerElements(name, of) \/ PointerPointers(name, of),
         UNCHANGED <<at, header, inside, imports>>
  PROVE  TInv'
<1>1. ~header /\ Len(said) \in Nat /\ Declared(name, of) BY DeclarationIs
<1>2. PICK n : n = Len(said') OBVIOUS
<1>3. n \in Nat /\ Len(said) <= n BY <1>1, <1>2 DEF Declared
<1>4. Good(types, said, n) BY <1>1, <1>3, GoodBefore
<1>5. Array \in Name BY TypesAssumption
<1>6. Good(types', said', n)
  <2>1. CASE \E form \in {"access", "list", "pointers"} :
               /\ said' = Append(said, Entry(form, name, of)) /\ Len(said') = Len(said) + 1
               /\ types' = CASE form = "access" -> WithPointer(types, name, of)
                             [] form = "list" -> WithList(types, name, of)
                             [] form = "pointers" -> WithPointers(types, name, of)
    BY <1>4, <2>1, DeclaredGood
  <2>2. CASE \E form \in {"list", "pointers"} :
               LET t == WithPointer(types, name, Array) IN
               /\ said' = Append(Append(said, Entry("access", name, Array)), Entry(form, name, of))
               /\ Len(said') = Len(said) + 2
               /\ types' = CASE form = "list" -> WithList(t, name, of)
                             [] form = "pointers" -> WithPointers(t, name, of)
    <3>1. PICK t, s : /\ t = WithPointer(types, name, Array)
                      /\ s = Append(said, Entry("access", name, Array))
      OBVIOUS
    <3>2. Good(t, s, n) BY <1>4, <1>5, <3>1, DeclaredGood
    <3>3. /\ Good(WithList(t, name, of), Append(s, Entry("list", name, of)), n)
          /\ Good(WithPointers(t, name, of), Append(s, Entry("pointers", name, of)), n)
      BY <3>2, DeclaredGood
    <3> QED BY <2>2, <3>1, <3>3
  <2> QED BY <1>1, <2>1, <2>2 DEF Declared
<1>7. inside' \in SUBSET ClassName BY DEF TInv, TypeOK
<1> QED BY <1>1, <1>2, <1>6, <1>7, GoodBehind

\* A class and the pointer to it.
LEMMA ClassOne ==
  ASSUME TInv, NEW name \in ClassName, EndClass(name)
  PROVE  TInv'
<1>1. name \in Name /\ This[name] \in Name /\ "this" \in Form /\ "class" \in Form
  BY TypesAssumption DEF Form
<1>2. PICK class : class = Plain(Len(said) + 2) OBVIOUS
<1>3. /\ Says(<<Entry("this", This[name], name), Entry("class", name, name)>>)
      /\ types' = WithType(WithType(types, This[name], Access(class)), name, class)
      /\ UNCHANGED <<at, header, imports>> /\ inside' = {}
  BY <1>2 DEF EndClass
<1>4. /\ ~header /\ Len(said) \in Nat /\ Len(said') = Len(said) + 2
      /\ said' = Append(Append(said, Entry("this", This[name], name)), Entry("class", name, name))
  BY <1>1, <1>3, SaysTwo
<1>5. PICK n : n = Len(said) + 2 OBVIOUS
<1>6. n \in Nat /\ Len(said) <= n /\ n = Len(said') BY <1>4, <1>5
<1>7. class \in TypeUpTo(n)
  <2>1. << >> \in Seq({"access", "list"}) /\ n \in 0 .. n BY <1>6
  <2> QED BY <1>2, <1>5, <2>1 DEF Plain, TypeUpTo
<1>8. Access(class) \in TypeUpTo(n) BY <1>7, WrapIsType
<1>9. Good(types, said, n) BY <1>4, <1>6, GoodBefore
<1>10. PICK t, s : /\ t = WithType(types, This[name], Access(class))
                   /\ s = Append(said, Entry("this", This[name], name))
  OBVIOUS
<1>11. Good(t, s, n) BY <1>1, <1>8, <1>9, <1>10, SaidOne
<1>12. Good(WithType(t, name, class), Append(s, Entry("class", name, name)), n)
  BY <1>1, <1>7, <1>11, SaidOne
<1>13. Good(types', said', Len(said')) BY <1>3, <1>4, <1>6, <1>10, <1>12
<1> QED BY <1>3, <1>4, <1>13, GoodBehind

-----------------------------------------------------------------------------
(***************************************************************************)
(* The invariant.                                                          *)
(***************************************************************************)

LEMMA Starts == Init => TInv
<1> SUFFICES ASSUME Init PROVE TInv OBVIOUS
<1>1. said = << >> /\ header /\ 0 \in 0 .. Len(said) BY DEF Init
<1>2. Null \in Type BY <1>1 DEF Null, Type
<1>3. types \in [Module -> [Name -> Type]] BY <1>2 DEF Init
<1>4. imports \in [Module -> Seq(Module)] BY DEF Init
<1>5. at \in Module /\ header \in BOOLEAN /\ inside \in SUBSET ClassName
  BY TypesAssumption DEF Init, Module
<1> QED BY <1>1, <1>3, <1>4, <1>5 DEF TInv, TypeOK, BuiltinsStay

\* Nothing is said where a class begins.
LEMMA BeginSays ==
  ASSUME TypeOK, Says(<< >>)
  PROVE  said' = said
<1>1. said' = said \o << >> /\ said \in Seq([at : 1 .. at, form : Form, name : Name, of : Name])
  BY DEF Says, TypeOK
<1> QED BY <1>1

LEMMA Steps == TInv /\ [Next]_vars => TInv'
<1> SUFFICES ASSUME TInv, [Next]_vars PROVE TInv' OBVIOUS
<1>1. TypeOK /\ BuiltinsStay BY DEF TInv
<1>2. CASE \E from \in Module : Import(from)
  <2>1. PICK from \in Module : Import(from) BY <1>2
  <2>2. header /\ UNCHANGED <<at, header, inside, said>> BY <2>1 DEF Import
  <2>3. types' \in [Module -> [Name -> Type]] BY <1>1, <2>1 DEF Import, TypeOK
  <2>4. imports' \in [Module -> Seq(Module)] BY <1>1, <2>1 DEF Import, TypeOK
  <2>5. Type' = Type BY <2>2 DEF Type
  <2> QED BY <1>1, <2>2, <2>3, <2>4, <2>5 DEF TInv, TypeOK, BuiltinsStay
<1>3. CASE ImportBuiltins
  <2>1. header' = FALSE /\ UNCHANGED <<at, inside, said, imports>> BY <1>3 DEF ImportBuiltins
  <2>2. \A name \in Builtin : Plain(name) \in Type BY <1>1, PlainIsType
  <2>3. types' \in [Module -> [Name -> Type]] BY <1>1, <1>3, <2>2 DEF ImportBuiltins, TypeOK
  <2>4. Type' = Type BY <2>1 DEF Type
  <2>5. TypeOK' BY <1>1, <2>1, <2>3, <2>4 DEF TypeOK
  <2>6. \A name \in Builtin : types'[at][name] = Plain(name)
    BY <1>1, <1>3, TypesAssumption DEF ImportBuiltins, TypeOK
  <2>7. BuiltinsStay' BY <2>1, <2>6 DEF BuiltinsStay
  <2> QED BY <2>5, <2>7 DEF TInv
<1>4. CASE NextModule
  <2>1. at \in Module /\ at < MaxModule /\ at' = at + 1 /\ header' = TRUE
    BY <1>1, <1>4 DEF NextModule, TypeOK
  <2>2. at' \in Module BY <2>1, TypesAssumption DEF Module
  <2>3. UNCHANGED <<types, inside, said, imports>> BY <1>4 DEF NextModule
  <2>4. said' \in Seq([at : 1 .. at', form : Form, name : Name, of : Name])
    <3> DEFINE Here == [at : 1 .. at, form : Form, name : Name, of : Name]
               Later == [at : 1 .. at', form : Form, name : Name, of : Name]
    <3>1. 1 .. at \subseteq 1 .. at' BY <2>1 DEF Module
    <3>2. Here \subseteq Later BY <3>1
    <3>3. said' = said /\ said \in Seq(Here) BY <1>1, <2>3 DEF TypeOK
    <3> HIDE DEF Here, Later
    <3>4. said \in Seq(Later) BY <3>2, <3>3
    <3> QED BY <3>3, <3>4 DEF Later
  <2>5. Type' = Type BY <2>3 DEF Type
  <2> QED BY <1>1, <2>1, <2>2, <2>3, <2>4, <2>5 DEF TInv, TypeOK, BuiltinsStay
<1>5. ASSUME NEW name \in ClassName, BeginClass(name)
      PROVE  TInv'
  <2>1. inside' = {name} /\ Says(<< >>) /\ UNCHANGED <<types, at, header, imports>>
    BY <1>5 DEF BeginClass
  <2>2. said' = said BY <1>1, <2>1, BeginSays
  <2>3. Type' = Type BY <2>2 DEF Type
  <2> QED BY <1>1, <2>1, <2>2, <2>3 DEF TInv, TypeOK, BuiltinsStay, Redeclared
<1>6. ASSUME NEW name \in ClassName, EndClass(name)
      PROVE  TInv'
  BY <1>6, ClassOne
<1>7. CASE ParseVarDecl \/ ParseParameterDecl \/ ParseFieldDecl
  <2>1. PICK name \in VarName, of \in TypeName :
          /\ \/ Pointer(name, of) \/ Elements(name, of) \/ Pointers(name, of)
             \/ PointerElements(name, of) \/ PointerPointers(name, of)
          /\ UNCHANGED <<at, header, inside, imports>>
    BY <1>7 DEF ParseVarDecl, ParseParameterDecl, ParseFieldDecl, Declares
  <2>2. name \in Name /\ of \in Name BY TypesAssumption
  <2> QED BY <2>1, <2>2, DeclaredOne
<1>8. CASE UNCHANGED vars
  <2>1. UNCHANGED <<types, at, header, inside, said, imports>> BY <1>8 DEF vars
  <2>2. Type' = Type BY <2>1 DEF Type
  <2> QED BY <1>1, <2>1, <2>2 DEF TInv, TypeOK, BuiltinsStay, Redeclared
<1> QED BY <1>2, <1>3, <1>4, <1>5, <1>6, <1>7, <1>8 DEF Next

LEMMA Agrees == TInv => TwoWaysAgree
<1> SUFFICES ASSUME TInv, ~header, NEW name \in Name
    PROVE  \/ TypeNamed(types, name) = TypeQualified(types, name)
           \/ name \in Builtin /\ Redeclared(name)
  BY DEF TwoWaysAgree, Redeclared
<1> QED BY DEF TInv, BuiltinsStay, TypeNamed, TypeQualified

\* The inductive invariant: while the declarations of a module are read, a builtin name
\* has its type or was declared anew there, whatever the imports wrote in the table before
\* (parseProgram, importTypesFromModule).
THEOREM Invariant == Spec => []TInv
<1> QED BY Starts, Steps, PTL DEF Spec

\* Every entry of the table is made of classes that were declared before, of any number of
\* modules with any imports (TypeTable.h).
THEOREM TypeCorrect == Spec => []TypeOK
<1>1. TInv => TypeOK BY DEF TInv
<1> QED BY <1>1, Invariant, PTL

\* The two ways of asking for the type of a name agree in every module that has no class
\* or variable of its own with the name of a builtin type (getType in both forms).
THEOREM LookupsAgree == Spec => []TwoWaysAgree
<1> QED BY Agrees, Invariant, PTL

-----------------------------------------------------------------------------
(***************************************************************************)
(* Least and greatest numbers.                                             *)
(***************************************************************************)

\* What is said of all natural numbers is false of a least one, if of any.
LEMMA LeastNatural ==
  ASSUME NEW S \in SUBSET Nat, S # {}
  PROVE  \E n \in S : \A m \in S : n <= m
<1>1. PICK R : R = OpToRel(<, Nat) OBVIOUS
<1>2. IsWellFoundedOn(R, Nat) BY <1>1, NatLessThanWellFounded
<1>3. PICK n \in S : \A m \in S : ~(<<m, n>> \in R) BY <1>2, WFMin
<1>4. \A m, k \in Nat : m < k => <<m, k>> \in R BY <1>1 DEF OpToRel
<1>5. \A m \in S : ~(m < n) BY ONLY <1>3, <1>4, S \subseteq Nat, Zenon
<1>6. \A m \in S : n <= m BY ONLY <1>5, S \subseteq Nat, n \in S
<1> QED BY <1>6

\* Max, of places.
LEMMA MaxFacts ==
  ASSUME NEW n \in Nat, NEW S \in SUBSET (1 .. n), S # {}
  PROVE  Max(S) \in S /\ \A k \in S : k <= Max(S)
<1> DEFINE T == {n - k : k \in S}
<1>1. T \in SUBSET Nat /\ T # {}
  <2>1. \A k \in S : k \in 1 .. n /\ n - k \in Nat OBVIOUS
  <2> QED BY <2>1
<1>2. PICK t \in T : \A u \in T : t <= u
  <2> HIDE DEF T
  <2> QED BY <1>1, LeastNatural
<1>3. PICK k \in S : t = n - k BY <1>2
<1>4. \A j \in S : n - j \in T /\ j \in Int /\ k \in Int OBVIOUS
<1>5. \A j \in S : j <= k BY <1>2, <1>3, <1>4, SMTT(30)
<1> QED BY <1>5 DEF Max

LEMMA MaxIs ==
  ASSUME NEW n \in Nat, NEW S \in SUBSET (1 .. n), NEW m \in S, \A k \in S : k <= m
  PROVE  Max(S) = m
<1>1. Max(S) \in S /\ \A k \in S : k <= Max(S) BY MaxFacts
<1>2. PICK x : x = Max(S) OBVIOUS
<1>3. \A k \in S : k \in Int OBVIOUS
<1>4. x \in S /\ m \in S /\ x <= m /\ m <= x BY ONLY <1>1, <1>2, m \in S, \A k \in S : k <= m
<1>5. x = m BY ONLY <1>3, <1>4
<1> QED BY <1>2, <1>5

-----------------------------------------------------------------------------
(***************************************************************************)
(* What a reader of the modules makes of a name.                           *)
(***************************************************************************)

\* The parts of Meaning, for declarations s and imports im.
GivenBy(s, j, named) ==
  CASE s[j].form = "class" -> Plain(j)
    [] s[j].form = "this" -> Access(Plain(j + 1))
    [] s[j].form = "access" -> Access(named)
    [] s[j].form = "pointers" -> List(Access(named))
    [] s[j].form = "list" -> List(IF s[j].of \in Builtin THEN Plain(s[j].of) ELSE named)

Own(s, k, m, name) == {j \in 1 .. k : s[j].at = m /\ s[j].name = name}
Having(f, im, k, m, name) == {i \in 1 .. Len(im[m]) : f[<<k, im[m][i], name>>] # Null}
Fetched(f, im, k, m, name) ==
  IF Having(f, im, k, m, name) # {} THEN f[<<k, im[m][Max(Having(f, im, k, m, name))], name>>]
  ELSE Null
Inherited(f, im, k, m, name) ==
  IF name \in Builtin THEN Plain(name) ELSE Fetched(f, im, k, m, name)
ReadBy(f, s, im, k, m, name) ==
  IF Own(s, k, m, name) # {}
  THEN GivenBy(s, Max(Own(s, k, m, name)),
               f[<<Max(Own(s, k, m, name)) - 1, m, s[Max(Own(s, k, m, name))].of>>])
  ELSE Inherited(f, im, k, m, name)

Places(s) == (0 .. Len(s)) \X Module \X Name
IsReading(f, s, im) == f = [q \in Places(s) |-> ReadBy(f, s, im, q[1], q[2], q[3])]

LEMMA MeaningReads == Meaning = CHOOSE f : IsReading(f, said, imports)
BY DEF Meaning, IsReading, Places, ReadBy, Inherited, Fetched, Own, Having, GivenBy, Given

\* A text that can be read: modules import what stands before them.
Text(s, im) ==
  /\ s \in Seq([at : Module, form : Form, name : Name, of : Name])
  /\ im \in [Module -> Seq(Module)]
  /\ \A m \in Module : \A i \in 1 .. Len(im[m]) : im[m][i] < m

\* A reading, in the large.
LEMMA ReadingIs ==
  ASSUME NEW f, NEW s, NEW im
  PROVE  IsReading(f, s, im) <=>
           /\ f = [q \in Places(s) |-> f[q]]
           /\ \A k \in 0 .. Len(s), m \in Module, name \in Name :
                f[<<k, m, name>>] = ReadBy(f, s, im, k, m, name)
<1>1. ASSUME IsReading(f, s, im)
      PROVE  /\ f = [q \in Places(s) |-> f[q]]
             /\ \A k \in 0 .. Len(s), m \in Module, name \in Name :
                  f[<<k, m, name>>] = ReadBy(f, s, im, k, m, name)
  <2> DEFINE R(q) == ReadBy(f, s, im, q[1], q[2], q[3])
  <2>1. f = [q \in Places(s) |-> R(q)] BY <1>1 DEF IsReading
  <2> HIDE DEF R
  <2>2. f = [q \in Places(s) |-> f[q]] BY ONLY <2>1
  <2>3. \A q \in Places(s) : f[q] = R(q) BY ONLY <2>1
  <2>4. ASSUME NEW k \in 0 .. Len(s), NEW m \in Module, NEW name \in Name
        PROVE  f[<<k, m, name>>] = ReadBy(f, s, im, k, m, name)
    <3>1. PICK q : q = <<k, m, name>> OBVIOUS
    <3>2. q \in Places(s) BY <3>1 DEF Places
    <3>3. q[1] = k /\ q[2] = m /\ q[3] = name BY <3>1
    <3>4. f[q] = R(q) BY <2>3, <3>2
    <3>5. R(q) = ReadBy(f, s, im, k, m, name) BY ONLY <3>3, Zenon DEF R
    <3> QED BY ONLY <3>1, <3>4, <3>5
  <2> QED BY <2>2, <2>4
<1>2. ASSUME f = [q \in Places(s) |-> f[q]],
             \A k \in 0 .. Len(s), m \in Module, name \in Name :
               f[<<k, m, name>>] = ReadBy(f, s, im, k, m, name)
      PROVE  IsReading(f, s, im)
  <2> DEFINE R(q) == ReadBy(f, s, im, q[1], q[2], q[3])
  <2>1. ASSUME NEW q \in Places(s) PROVE f[q] = R(q)
    <3>1. PICK k \in 0 .. Len(s), m \in Module, name \in Name : q = <<k, m, name>> BY DEF Places
    <3>2. q[1] = k /\ q[2] = m /\ q[3] = name BY <3>1
    <3>3. f[<<k, m, name>>] = ReadBy(f, s, im, k, m, name) BY <1>2
    <3>4. R(q) = ReadBy(f, s, im, k, m, name) BY ONLY <3>2, Zenon DEF R
    <3> QED BY ONLY <3>1, <3>3, <3>4
  <2> HIDE DEF R
  <2>2. f = [q \in Places(s) |-> R(q)] BY <1>2, <2>1
  <2> QED BY <2>2 DEF R, IsReading
<1> QED BY <1>1, <1>2

\* The imports of m say the same of name in both readings, and so do the declarations.
SameImports(f, g, im, k, k2, m, name) ==
  \A i \in 1 .. Len(im[m]) : f[<<k, im[m][i], name>>] = g[<<k2, im[m][i], name>>]
SameOwn(f, g, s, s2, k, m, name) ==
  \A j \in Own(s, k, m, name) :
    s2[j] = s[j] /\ f[<<j - 1, m, s[j].of>>] = g[<<j - 1, m, s[j].of>>]

\* What comes from the imports is the same where they are.
LEMMA FetchAlike ==
  ASSUME NEW f, NEW g, NEW im, NEW im2, NEW k, NEW k2, NEW m, NEW name,
         im2[m] = im[m], Len(im[m]) \in Nat, SameImports(f, g, im, k, k2, m, name)
  PROVE  Fetched(f, im, k, m, name) = Fetched(g, im2, k2, m, name)
<1>1. PICK h : h = Having(f, im, k, m, name) OBVIOUS
<1>2. h = Having(g, im2, k2, m, name) BY <1>1 DEF Having, SameImports
<1>3. h \subseteq 1 .. Len(im[m]) BY <1>1 DEF Having
<1>4. h # {} => Max(h) \in h BY <1>3, MaxFacts
<1>5. h # {} => f[<<k, im[m][Max(h)], name>>] = g[<<k2, im2[m][Max(h)], name>>]
  BY <1>3, <1>4 DEF SameImports
<1> QED BY ONLY <1>1, <1>2, <1>5, Zenon DEF Fetched

\* What a name means is the same where the declarations and imports that it rests on are.
LEMMA ReadAlike ==
  ASSUME NEW f, NEW g, NEW s, NEW s2, NEW im, NEW im2, NEW k \in Nat, NEW k2, NEW m, NEW name,
         Own(s2, k2, m, name) = Own(s, k, m, name),
         SameOwn(f, g, s, s2, k, m, name),
         im2[m] = im[m], Len(im[m]) \in Nat, SameImports(f, g, im, k, k2, m, name)
  PROVE  ReadBy(f, s, im, k, m, name) = ReadBy(g, s2, im2, k2, m, name)
<1>1. Inherited(f, im, k, m, name) = Inherited(g, im2, k2, m, name)
  BY FetchAlike DEF Inherited
<1>2. PICK o : o = Own(s, k, m, name) OBVIOUS
<1>3. o \subseteq 1 .. k BY <1>2 DEF Own
<1>4. CASE o = {}
  <2>1. ReadBy(f, s, im, k, m, name) = Inherited(f, im, k, m, name) BY <1>2, <1>4 DEF ReadBy
  <2>2. ReadBy(g, s2, im2, k2, m, name) = Inherited(g, im2, k2, m, name)
    BY <1>2, <1>4 DEF ReadBy
  <2> QED BY <1>1, <2>1, <2>2
<1>5. CASE o # {}
  <2>1. PICK j \in o : j = Max(o) BY <1>3, <1>5, MaxFacts
  <2>2. s2[j] = s[j] /\ f[<<j - 1, m, s[j].of>>] = g[<<j - 1, m, s[j].of>>]
    BY <1>2 DEF SameOwn
  <2>3. ReadBy(f, s, im, k, m, name) = GivenBy(s, j, f[<<j - 1, m, s[j].of>>])
    BY ONLY <1>2, <1>5, <2>1, Zenon DEF ReadBy
  <2>4. ReadBy(g, s2, im2, k2, m, name) = GivenBy(s2, j, g[<<j - 1, m, s2[j].of>>])
    BY <1>2, <1>5, <2>1, Zenon DEF ReadBy
  <2>5. GivenBy(s, j, f[<<j - 1, m, s[j].of>>]) = GivenBy(s2, j, g[<<j - 1, m, s2[j].of>>])
    BY ONLY <2>2, Zenon DEF GivenBy
  <2> QED BY <2>3, <2>4, <2>5
<1> QED BY <1>4, <1>5

\* Two readings agree on what is before place k in module m.
AgreeUpTo(f, g, s, k, m) ==
  \A j \in 0 .. Len(s), n \in Module, other \in Name :
    j < k \/ (j = k /\ n < m) => f[<<j, n, other>>] = g[<<j, n, other>>]

\* Declarations are of names.
LEMMA SaidOfName ==
  ASSUME NEW s, NEW im, Text(s, im), NEW j \in 1 .. Len(s)
  PROVE  s[j].of \in Name /\ s[j].name \in Name /\ s[j].at \in Module
<1> DEFINE Said == [at : Module, form : Form, name : Name, of : Name]
<1>1. s \in Seq(Said) BY DEF Text
<1>2. \A d \in Said : d.of \in Name /\ d.name \in Name /\ d.at \in Module OBVIOUS
<1> HIDE DEF Said
<1>3. s[j] \in Said BY ONLY <1>1, j \in 1 .. Len(s)
<1> QED BY ONLY <1>2, <1>3, Zenon

\* So they agree on that.
LEMMA ReadingsFollow ==
  ASSUME NEW f, NEW g, NEW s, NEW im, Text(s, im), NEW k \in 0 .. Len(s), NEW m \in Module,
         NEW name \in Name, AgreeUpTo(f, g, s, k, m)
  PROVE  ReadBy(f, s, im, k, m, name) = ReadBy(g, s, im, k, m, name)
<1>1. Len(s) \in Nat /\ k \in Nat /\ Len(im[m]) \in Nat BY DEF Text
<1>2. \A i \in 1 .. Len(im[m]) : im[m][i] \in Module /\ im[m][i] < m BY DEF Text
<1>3. SameImports(f, g, im, k, k, m, name)
  BY <1>2 DEF AgreeUpTo, SameImports
<1>4. ASSUME NEW j \in Own(s, k, m, name)
      PROVE  f[<<j - 1, m, s[j].of>>] = g[<<j - 1, m, s[j].of>>]
  <2>1. j \in 1 .. k /\ j \in 1 .. Len(s) BY <1>1 DEF Own
  <2>2. PICK i : i = j - 1 OBVIOUS
  <2>3. i \in 0 .. Len(s) /\ i < k BY <1>1, <2>1, <2>2
  <2>4. s[j].of \in Name BY <2>1, SaidOfName
  <2>5. f[<<i, m, s[j].of>>] = g[<<i, m, s[j].of>>] BY <2>3, <2>4, Zenon DEF AgreeUpTo
  <2> QED BY ONLY <2>2, <2>5
<1>5. SameOwn(f, g, s, s, k, m, name) BY <1>4 DEF SameOwn
<1> QED BY <1>1, <1>3, <1>5, ReadAlike

\* There is one reading of a text at most: two would differ at a first place.
LEMMA OneReading ==
  ASSUME NEW s, NEW im, Text(s, im), NEW f, IsReading(f, s, im), NEW g, IsReading(g, s, im)
  PROVE  f = g
<1>1. Len(s) \in Nat /\ Module \subseteq Nat BY DEF Text, Module
<1>2. /\ f = [q \in Places(s) |-> f[q]] /\ g = [q \in Places(s) |-> g[q]]
      /\ \A k \in 0 .. Len(s), m \in Module, name \in Name :
           /\ f[<<k, m, name>>] = ReadBy(f, s, im, k, m, name)
           /\ g[<<k, m, name>>] = ReadBy(g, s, im, k, m, name)
  BY ReadingIs
<1>3. PICK K : K = {k \in 0 .. Len(s) : \E m \in Module, name \in Name : f[<<k, m, name>>] # g[<<k, m, name>>]}
  OBVIOUS
<1>4. K = {}
  <2> SUFFICES ASSUME K # {} PROVE FALSE OBVIOUS
  <2>1. K \in SUBSET Nat BY <1>1, <1>3
  <2>2. PICK k \in K : \A j \in K : k <= j BY ONLY <2>1, K # {}, LeastNatural
  <2>3. PICK M : M = {m \in Module : \E name \in Name : f[<<k, m, name>>] # g[<<k, m, name>>]}
    OBVIOUS
  <2>4. M \in SUBSET Nat /\ M # {} BY <1>1, <1>3, <2>2, <2>3
  <2>5. PICK m \in M : \A n \in M : m <= n BY ONLY <2>4, LeastNatural
  <2>6. PICK name \in Name : f[<<k, m, name>>] # g[<<k, m, name>>] BY <2>3
  <2>7. k \in 0 .. Len(s) /\ m \in Module BY <1>3, <2>3
  <2>8. ASSUME NEW j \in 0 .. Len(s), NEW n \in Module, NEW other \in Name,
               j < k \/ (j = k /\ n < m)
        PROVE  f[<<j, n, other>>] = g[<<j, n, other>>]
    <3>1. j \in Nat /\ k \in Nat /\ n \in Nat /\ m \in Nat BY <1>1, <2>7
    <3>2. CASE j < k
      <4>1. j \notin K BY ONLY <2>2, <3>1, <3>2
      <4> QED BY <1>3, <4>1
    <3>3. CASE j = k /\ n < m
      <4>1. n \notin M BY ONLY <2>5, <3>1, <3>3
      <4> QED BY <2>3, <3>3, <4>1
    <3> QED BY <2>8, <3>2, <3>3
  <2>9. ReadBy(f, s, im, k, m, name) = ReadBy(g, s, im, k, m, name)
    <3>1. k \in 0 .. Len(s) /\ m \in Module /\ Text(s, im) BY <2>7
    <3>2. AgreeUpTo(f, g, s, k, m) BY ONLY <2>8, Zenon DEF AgreeUpTo
    <3> QED BY ONLY <3>1, <3>2, name \in Name, ReadingsFollow
  <2> QED BY ONLY <1>2, <2>6, <2>7, <2>9, Zenon
<1>5. ASSUME NEW q \in Places(s) PROVE f[q] = g[q]
  <2>1. PICK k \in 0 .. Len(s), m \in Module, name \in Name : q = <<k, m, name>> BY DEF Places
  <2>2. k \notin K BY <1>4
  <2>3. f[<<k, m, name>>] = g[<<k, m, name>>] BY ONLY <1>3, <2>2, Zenon
  <2> QED BY ONLY <2>1, <2>3, Zenon
<1>6. [q \in Places(s) |-> f[q]] = [q \in Places(s) |-> g[q]] BY <1>5
<1> QED BY <1>2, <1>6

-----------------------------------------------------------------------------
(***************************************************************************)
(* The table and the reading.                                              *)
(***************************************************************************)

\* Modules are filled one by one, and import what is filled.
FilledIn(t, s) ==
  /\ \A m \in Module : \A i \in 1 .. Len(imports[m]) : imports[m][i] < m
  /\ \A m \in Module : m > at => imports[m] = << >> /\ \A name \in Name : t[m][name] = Null
  /\ header => \A j \in 1 .. Len(s) : s[j].at # at
Filled == FilledIn(types, said)

\* f is the reading, and the table holds what it says; while imports are read, what the
\* imports give.
ReadsIn(f, t, s) ==
  /\ IsReading(f, s, imports)
  /\ \A m \in Begun, name \in Name : t[m][name] = f[<<Len(s), m, name>>]
  /\ header => \A name \in Name : t[at][name] = Fetched(f, imports, Len(s), at, name)
Reads(f) == ReadsIn(f, types, said)

MeansIn(t, s) == FilledIn(t, s) /\ \E f : ReadsIn(f, t, s)
MInv == MeansIn(types, said)

LEMMA TextIn ==
  ASSUME at \in Module, imports \in [Module -> Seq(Module)], NEW t, NEW s, Listed(s),
         FilledIn(t, s)
  PROVE  /\ Text(s, imports) /\ Len(s) \in Nat /\ Module \subseteq Nat
         /\ \A m \in Module : Len(imports[m]) \in Nat
                             /\ \A i \in 1 .. Len(imports[m]) : imports[m][i] \in Module
         /\ \A m \in Module : m \in Begun <=> m < at \/ (m = at /\ ~header)
<1> DEFINE Here == [at : 1 .. at, form : Form, name : Name, of : Name]
           Any == [at : Module, form : Form, name : Name, of : Name]
<1>1. Module \subseteq Nat BY DEF Module
<1>2. 1 .. at \subseteq Module BY <1>1, TypesAssumption DEF Module
<1>3. Here \subseteq Any BY <1>2
<1>4. s \in Seq(Here) BY DEF Listed
<1>5. \A m \in Module : Len(imports[m]) \in Nat
                       /\ \A i \in 1 .. Len(imports[m]) : imports[m][i] \in Module
  OBVIOUS
<1> HIDE DEF Here, Any
<1>6. s \in Seq(Any) /\ Len(s) \in Nat BY <1>3, <1>4
<1> QED BY <1>1, <1>5, <1>6 DEF Text, FilledIn, Any, Begun

LEMMA TextOfInv ==
  ASSUME TypeOK, Filled
  PROVE  /\ Text(said, imports) /\ Len(said) \in Nat /\ at \in Module /\ Module \subseteq Nat
         /\ \A m \in Module : Len(imports[m]) \in Nat
                             /\ \A i \in 1 .. Len(imports[m]) : imports[m][i] \in Module
         /\ \A m \in Module : m \in Begun <=> m < at \/ (m = at /\ ~header)
<1>1. at \in Module /\ imports \in [Module -> Seq(Module)] /\ Listed(said)
  BY DEF TypeOK, Listed
<1>2. FilledIn(types, said) BY DEF Filled
<1> QED BY <1>1, <1>2, TextIn

LEMMA StartsRead == Init => MInv
<1> SUFFICES ASSUME Init PROVE MInv OBVIOUS
<1>1. TypeOK BY Starts DEF TInv
<1>2. said = << >> /\ at = 1 /\ header /\ imports = [m \in Module |-> << >>]
      /\ types = [m \in Module |-> [name \in Name |-> Null]]
  BY DEF Init
<1>3. Filled BY <1>2 DEF Filled, FilledIn
<1>4. Len(said) = 0 /\ \A k \in 0 .. 0 : k = 0 BY <1>2
<1>5. PICK f : f = [q \in Places(said) |-> IF q[3] \in Builtin THEN Plain(q[3]) ELSE Null] OBVIOUS
<1>6. ASSUME NEW m \in Module, NEW name \in Name
      PROVE  f[<<0, m, name>>] = IF name \in Builtin THEN Plain(name) ELSE Null
  <2>1. PICK q : q = <<0, m, name>> OBVIOUS
  <2>2. q \in Places(said) /\ q[3] = name BY <1>4, <2>1 DEF Places
  <2> QED BY <1>5, <2>1, <2>2
<1>7. f = [q \in Places(said) |-> f[q]] BY <1>5
<1>8. ASSUME NEW m \in Module, NEW name \in Name
      PROVE  /\ Fetched(f, imports, 0, m, name) = Null
             /\ ReadBy(f, said, imports, 0, m, name) = f[<<0, m, name>>]
  <2>1. Len(imports[m]) = 0 BY <1>2
  <2>2. Having(f, imports, 0, m, name) = {} BY <2>1 DEF Having
  <2>3. Own(said, 0, m, name) = {} BY DEF Own
  <2> QED BY <1>6, <2>2, <2>3 DEF ReadBy, Inherited, Fetched
<1>9. IsReading(f, said, imports) BY <1>4, <1>7, <1>8, ReadingIs
<1>10. \A m \in Begun : FALSE BY <1>2 DEF Begun, Module
<1>11. \A name \in Name : types[at][name] = Fetched(f, imports, Len(said), at, name)
  BY <1>1, <1>2, <1>4, <1>8 DEF TypeOK
<1>12. Reads(f) BY <1>9, <1>10, <1>11 DEF Reads, ReadsIn
<1> QED BY <1>3, <1>12 DEF MInv, MeansIn, Filled, Reads

\* One more import: the names of the module at hand are read anew.
LEMMA ImportReads ==
  ASSUME TypeOK, MInv, NEW from \in Module, Import(from)
  PROVE  MInv'
<1>1. /\ Text(said, imports) /\ Len(said) \in Nat /\ at \in Module /\ Module \subseteq Nat
      /\ \A m \in Module : Len(imports[m]) \in Nat
                          /\ \A i \in 1 .. Len(imports[m]) : imports[m][i] \in Module
      /\ \A m \in Module : m \in Begun <=> m < at \/ (m = at /\ ~header)
  BY TextOfInv DEF MInv, MeansIn, Filled, Reads
<1>2. Filled BY DEF MInv, MeansIn, Filled, Reads
<1>3. PICK f : Reads(f) BY DEF MInv, MeansIn, Filled, Reads
<1>4. /\ header /\ from < at /\ UNCHANGED <<at, header, said>>
      /\ imports' = [imports EXCEPT ![at] = Append(imports[at], from)]
      /\ types' = [types EXCEPT ![at] = [name \in Name |->
                     IF types[from][name] = Null THEN types[at][name] ELSE types[from][name]]]
  BY DEF Import
<1>5. PICK im : im = imports' OBVIOUS
<1>6. PICK n : n = Len(imports[at]) OBVIOUS
<1>7. /\ n \in Nat /\ Len(im[at]) = n + 1 /\ im[at][n + 1] = from
      /\ \A i \in 1 .. n : im[at][i] = imports[at][i]
      /\ \A m \in Module : m # at => im[m] = imports[m]
      /\ im \in [Module -> Seq(Module)]
  <2>1. imports \in [Module -> Seq(Module)] BY DEF TypeOK
  <2>2. imports[at] \in Seq(Module) BY <1>1, <2>1
  <2> QED BY <1>1, <1>4, <1>5, <1>6, <2>1, <2>2
<1>8. \A i \in 1 .. Len(im[at]) : i \in 1 .. n \/ i = n + 1 BY <1>7
<1>9. \A m \in Module : \A i \in 1 .. Len(im[m]) : im[m][i] \in Module /\ im[m][i] < m
  <2>1. \A i \in 1 .. Len(im[at]) : im[at][i] \in Module /\ im[at][i] < at
    BY <1>1, <1>2, <1>4, <1>6, <1>7, <1>8 DEF Filled, FilledIn
  <2> QED BY <1>1, <1>2, <1>7, <2>1, SMTT(30) DEF Filled, FilledIn
<1>10. \A m \in Module : Len(im[m]) \in Nat BY <1>7
<1>11. \A m, name : m \in Module /\ name \in Name /\ m # at => types'[m][name] = types[m][name]
  BY <1>4 DEF TypeOK
<1>12. \A name \in Name :
         types'[at][name] = IF types[from][name] = Null THEN types[at][name] ELSE types[from][name]
  BY <1>1, <1>4 DEF TypeOK
<1>13. Filled'
  <2>1. \A m \in Module : m > at => imports[m] = << >> /\ \A name \in Name : types[m][name] = Null
    BY <1>2 DEF Filled, FilledIn
  <2>2. ASSUME NEW m \in Module, m > at
        PROVE  im[m] = << >> /\ \A name \in Name : types'[m][name] = Null
    <3>1. m \in Int /\ at \in Int BY <1>1
    <3>2. m # at BY ONLY <2>2, <3>1
    <3>3. im[m] = imports[m] BY ONLY <1>7, <2>2, <3>2, Zenon
    <3>4. imports[m] = << >> /\ \A name \in Name : types[m][name] = Null BY ONLY <2>1, <2>2, Zenon
    <3>5. \A name \in Name : types'[m][name] = types[m][name] BY ONLY <1>11, <2>2, <3>2, Zenon
    <3> QED BY ONLY <3>3, <3>4, <3>5, Zenon
  <2>3. \A j \in 1 .. Len(said) : said[j].at # at BY <1>2, <1>4 DEF Filled, FilledIn
  <2> QED BY <1>4, <1>5, <1>9, <2>2, <2>3 DEF Filled, FilledIn
<1>14. \A k, name : Own(said, k, at, name) = {} \/ ~(k \in 0 .. Len(said))
  BY <1>1, <1>2, <1>4 DEF Own, Filled, FilledIn
<1> DEFINE new(q) == IF q[2] = at THEN Inherited(f, im, q[1], at, q[3]) ELSE f[q]
<1>15. PICK g : g = [q \in Places(said) |-> new(q)] OBVIOUS
<1>16. ASSUME NEW k \in 0 .. Len(said), NEW m \in Module, NEW name \in Name
       PROVE  g[<<k, m, name>>] = IF m = at THEN Inherited(f, im, k, at, name) ELSE f[<<k, m, name>>]
  <2>1. PICK q : q = <<k, m, name>> OBVIOUS
  <2>2. q \in Places(said) /\ q[1] = k /\ q[2] = m /\ q[3] = name BY <2>1 DEF Places
  <2>3. g[q] = new(q) BY <1>15, <2>2
  <2>4. CASE m = at
    <3>1. new(q) = Inherited(f, im, k, at, name) BY ONLY <2>2, <2>4, Zenon
    <3> QED BY ONLY <2>1, <2>3, <2>4, <3>1, Zenon
  <2>5. CASE m # at
    <3>1. new(q) = f[q] BY ONLY <2>2, <2>5, Zenon
    <3> QED BY ONLY <2>1, <2>3, <2>5, <3>1, Zenon
  <2> QED BY <2>4, <2>5
<1>17. g = [q \in Places(said) |-> g[q]] BY <1>15
<1> HIDE DEF new
<1>18. \A k \in 0 .. Len(said), m \in Module, name \in Name :
         f[<<k, m, name>>] = ReadBy(f, said, imports, k, m, name)
  BY <1>3, ReadingIs DEF Reads, ReadsIn
<1>19. ASSUME NEW k \in 0 .. Len(said), NEW name \in Name
       PROVE  Fetched(f, im, k, at, name) = Fetched(g, im, k, at, name)
  <2>1. ASSUME NEW i \in 1 .. Len(im[at]) PROVE im[at][i] \in Module /\ im[at][i] # at
    <3>1. im[at][i] \in Module /\ im[at][i] < at BY <1>1, <1>9
    <3>2. im[at][i] \in Nat /\ at \in Nat BY ONLY <1>1, <3>1
    <3> QED BY ONLY <3>1, <3>2
  <2>2. SameImports(f, g, im, k, k, at, name)
    BY <1>16, <2>1 DEF SameImports
  <2> QED BY <1>1, <1>10, <2>2, FetchAlike
<1>20. ASSUME NEW k \in 0 .. Len(said), NEW m \in Module, NEW name \in Name
       PROVE  g[<<k, m, name>>] = ReadBy(g, said, im, k, m, name)
  <2>1. CASE m = at
    <3>1. ReadBy(g, said, im, k, m, name) = Inherited(g, im, k, m, name)
      BY <1>14, <2>1 DEF ReadBy
    <3>2. Inherited(g, im, k, m, name) = Inherited(f, im, k, m, name)
      BY <1>19, <2>1 DEF Inherited
    <3> QED BY <1>16, <2>1, <3>1, <3>2
  <2>2. CASE m # at
    <3>1. im[m] = imports[m] BY <1>7, <2>2
    <3>2. \A i \in 1 .. Len(imports[m]) : imports[m][i] \in Module /\ imports[m][i] # at
      <4>1. m > at => imports[m] = << >> BY <1>2 DEF Filled, FilledIn
      <4>2. m < at => \A i \in 1 .. Len(imports[m]) : imports[m][i] < m /\ imports[m][i] \in Module
        BY <1>1, <1>2 DEF Filled, FilledIn
      <4>3. m \in Nat /\ at \in Nat BY <1>1
      <4>4. CASE m > at BY <4>1, <4>4
      <4>5. CASE m < at BY <1>1, <4>2, <4>3, <4>5
      <4> QED BY <2>2, <4>3, <4>4, <4>5
    <3>3. SameImports(f, g, imports, k, k, m, name)
      BY <1>16, <3>2 DEF SameImports
    <3>4. ASSUME NEW j \in Own(said, k, m, name)
          PROVE  f[<<j - 1, m, said[j].of>>] = g[<<j - 1, m, said[j].of>>]
      <4>1. j \in 1 .. k /\ j \in 1 .. Len(said) BY <1>1 DEF Own
      <4>2. PICK i : i = j - 1 OBVIOUS
      <4>3. i \in 0 .. Len(said) BY <1>1, <4>1, <4>2
      <4>4. said[j].of \in Name BY <1>1, <4>1, SaidOfName
      <4>5. f[<<i, m, said[j].of>>] = g[<<i, m, said[j].of>>] BY <1>16, <2>2, <4>3, <4>4
      <4> QED BY ONLY <4>2, <4>5
    <3>5. SameOwn(f, g, said, said, k, m, name) BY <3>4 DEF SameOwn
    <3>6. k \in Nat BY <1>1
    <3>7. ReadBy(f, said, imports, k, m, name) = ReadBy(g, said, im, k, m, name)
      BY <1>1, <3>1, <3>3, <3>5, <3>6, ReadAlike
    <3> QED BY <1>16, <1>18, <2>2, <3>7
  <2> QED BY <2>1, <2>2
<1>21. IsReading(g, said, im) BY <1>17, <1>20, ReadingIs
<1>22. ASSUME NEW m \in Begun, NEW name \in Name
       PROVE  types'[m][name] = g[<<Len(said), m, name>>]
  <2>1. m \in Module /\ m # at BY <1>1, <1>4 DEF Begun
  <2>2. types[m][name] = f[<<Len(said), m, name>>] BY <1>3 DEF Reads, ReadsIn
  <2>3. Len(said) \in 0 .. Len(said) BY <1>1
  <2> QED BY <1>11, <1>16, <2>1, <2>2, <2>3
<1>23. ASSUME NEW name \in Name
       PROVE  types'[at][name] = Fetched(g, im, Len(said), at, name)
  <2>1. PICK k : k = Len(said) OBVIOUS
  <2>2. k \in 0 .. Len(said) BY <1>1, <2>1
  <2>3. Fetched(g, im, k, at, name) = Fetched(f, im, k, at, name) BY <1>19, <2>2
  <2>4. types[from][name] = f[<<k, from, name>>]
    BY <1>1, <1>3, <1>4, <2>1 DEF Reads, ReadsIn
  <2>5. types[at][name] = Fetched(f, imports, k, at, name) BY <1>3, <1>4, <2>1 DEF Reads, ReadsIn
  <2>6. PICK h : h = Having(f, imports, k, at, name) OBVIOUS
  <2>7. PICK h2 : h2 = Having(f, im, k, at, name) OBVIOUS
  <2>8. h \subseteq 1 .. n /\ h2 \subseteq 1 .. n + 1
    BY <1>6, <1>7, <2>6, <2>7 DEF Having
  <2>9. CASE types[from][name] = Null
    <3>1. h2 = h
      <4>1. ASSUME NEW i \in 1 .. n PROVE i \in h2 <=> i \in h
        <5>1. im[at][i] = imports[at][i] BY <1>7
        <5>2. i \in 1 .. Len(im[at]) /\ i \in 1 .. Len(imports[at]) BY <1>6, <1>7
        <5>3. i \in h2 <=> f[<<k, im[at][i], name>>] # Null BY ONLY <2>7, <5>2 DEF Having
        <5>4. i \in h <=> f[<<k, imports[at][i], name>>] # Null BY ONLY <2>6, <5>2 DEF Having
        <5> QED BY ONLY <5>1, <5>3, <5>4, Zenon
      <4>2. n + 1 \notin h2
        <5>1. f[<<k, im[at][n + 1], name>>] = Null BY <1>7, <2>4, <2>9
        <5>2. PICK e : e = n + 1 OBVIOUS
        <5>3. f[<<k, im[at][e], name>>] = Null BY ONLY <5>1, <5>2, Zenon
        <5>4. e \notin h2 BY ONLY <2>7, <5>3 DEF Having
        <5> QED BY ONLY <5>2, <5>4
      <4>3. \A i \in h2 : i \in 1 .. n BY <1>7, <2>8, <4>2
      <4> QED BY <2>8, <4>1, <4>3
    <3>2. h # {} => Max(h) \in h BY <1>7, <2>8, MaxFacts
    <3>3. h # {} => im[at][Max(h)] = imports[at][Max(h)] BY <1>7, <2>8, <3>2
    <3>4. Fetched(f, im, k, at, name) = Fetched(f, imports, k, at, name)
      BY ONLY <2>6, <2>7, <3>1, <3>3, Zenon DEF Fetched
    <3> QED BY <1>12, <2>1, <2>3, <2>5, <2>9, <3>4
  <2>10. CASE types[from][name] # Null
    <3>1. n + 1 \in 1 .. Len(im[at]) BY <1>7
    <3>2. n + 1 \in h2 BY <1>7, <2>4, <2>7, <2>10, <3>1 DEF Having
    <3>3. \A i \in h2 : i <= n + 1 BY <1>7, <2>8
    <3>4. n + 1 \in Nat BY <1>7
    <3>5. Max(h2) = n + 1 BY <2>8, <3>2, <3>3, <3>4, MaxIs
    <3>6. Fetched(f, im, k, at, name) = f[<<k, im[at][Max(h2)], name>>]
      BY ONLY <2>7, <3>2, Zenon DEF Fetched
    <3> QED BY <1>7, <1>12, <2>1, <2>3, <2>4, <2>10, <3>5, <3>6
  <2> QED BY <2>9, <2>10
<1>24. Begun' = Begun BY <1>4 DEF Begun
<1>25. Reads(g)' BY <1>4, <1>5, <1>21, <1>22, <1>23, <1>24 DEF Reads, ReadsIn
<1> QED BY <1>13, <1>25 DEF MInv, MeansIn, Filled, Reads

\* The builtin types stand before what is imported.
LEMMA BuiltinsRead ==
  ASSUME TypeOK, MInv, ImportBuiltins
  PROVE  MInv'
<1>1. /\ Text(said, imports) /\ Len(said) \in Nat /\ at \in Module /\ Module \subseteq Nat
      /\ \A m \in Module : m \in Begun <=> m < at \/ (m = at /\ ~header)
  BY TextOfInv DEF MInv, MeansIn, Filled, Reads
<1>2. Filled BY DEF MInv, MeansIn, Filled, Reads
<1>3. PICK f : Reads(f) BY DEF MInv, MeansIn, Filled, Reads
<1>4. /\ header /\ header' = FALSE /\ UNCHANGED <<at, said, imports>>
      /\ types' = [types EXCEPT ![at] = [name \in Name |->
                     IF name \in Builtin THEN Plain(name) ELSE types[at][name]]]
  BY DEF ImportBuiltins
<1>5. \A m, name : m \in Module /\ name \in Name /\ m # at => types'[m][name] = types[m][name]
  BY <1>4 DEF TypeOK
<1>6. \A name \in Name :
        types'[at][name] = IF name \in Builtin THEN Plain(name) ELSE types[at][name]
  BY <1>1, <1>4 DEF TypeOK
<1>7. Filled'
  <2>1. \A m \in Module : m > at => imports[m] = << >> /\ \A name \in Name : types[m][name] = Null
    BY <1>2 DEF Filled, FilledIn
  <2>2. \A m \in Module : \A i \in 1 .. Len(imports[m]) : imports[m][i] < m BY <1>2 DEF Filled, FilledIn
  <2>3. \A m \in Module : m > at => m # at BY <1>1
  <2> QED BY <1>4, <1>5, <2>1, <2>2, <2>3 DEF Filled, FilledIn
<1>8. PICK k : k = Len(said) OBVIOUS
<1>9. k \in 0 .. Len(said) BY <1>1, <1>8
<1>10. ASSUME NEW m \in Begun', NEW name \in Name
       PROVE  types'[m][name] = f[<<k, m, name>>]
  <2>1. m \in Module /\ (m \in Begun \/ m = at)
    BY <1>1, <1>4 DEF Begun
  <2>2. CASE m = at
    <3>1. Own(said, k, at, name) = {} BY <1>2, <1>4, <1>8 DEF Own, Filled, FilledIn
    <3>2. ReadBy(f, said, imports, k, at, name) = Inherited(f, imports, k, at, name)
      BY <3>1 DEF ReadBy
    <3>3. f[<<k, at, name>>] = ReadBy(f, said, imports, k, at, name)
      BY <1>1, <1>3, <1>9, ReadingIs DEF Reads, ReadsIn
    <3>4. types[at][name] = Fetched(f, imports, k, at, name) BY <1>3, <1>4, <1>8 DEF Reads, ReadsIn
    <3>5. types'[at][name] = Inherited(f, imports, k, at, name)
      BY <1>6, <3>4 DEF Inherited
    <3> QED BY <2>2, <3>2, <3>3, <3>5
  <2>3. CASE m # at
    <3>1. m \in Begun BY <2>1, <2>3
    <3>2. types[m][name] = f[<<k, m, name>>] BY <1>3, <1>8, <3>1 DEF Reads, ReadsIn
    <3> QED BY <1>5, <2>1, <2>3, <3>2
  <2> QED BY <2>2, <2>3
<1>11. Reads(f)' BY <1>3, <1>4, <1>8, <1>10 DEF Reads, ReadsIn
<1> QED BY <1>7, <1>11 DEF MInv, MeansIn, Filled, Reads

\* The next module starts with nothing.
LEMMA NextReads ==
  ASSUME TypeOK, MInv, NextModule
  PROVE  MInv'
<1>1. /\ Text(said, imports) /\ Len(said) \in Nat /\ at \in Module /\ Module \subseteq Nat
      /\ \A m \in Module : m \in Begun <=> m < at \/ (m = at /\ ~header)
  BY TextOfInv DEF MInv, MeansIn, Filled, Reads
<1>2. Filled BY DEF MInv, MeansIn, Filled, Reads
<1>3. PICK f : Reads(f) BY DEF MInv, MeansIn, Filled, Reads
<1>4. /\ ~header /\ at' = at + 1 /\ header' /\ UNCHANGED <<types, said, imports>>
      /\ at' \in Module
  BY <1>1, TypesAssumption DEF NextModule, Module
<1>5. \A j \in 1 .. Len(said) : said[j].at # at'
  <2> DEFINE Here == [at : 1 .. at, form : Form, name : Name, of : Name]
  <2>1. said \in Seq(Here) BY DEF TypeOK
  <2>2. \A d \in Here : d.at \in 1 .. at OBVIOUS
  <2> HIDE DEF Here
  <2>3. \A j \in 1 .. Len(said) : said[j].at \in 1 .. at BY <2>1, <2>2
  <2> QED BY <1>1, <1>4, <2>3
<1>6. Filled'
  <2>1. \A m \in Module : m > at' => m > at BY <1>1, <1>4
  <2> QED BY <1>2, <1>4, <1>5, <2>1 DEF Filled, FilledIn
<1>7. at' > at BY <1>1, <1>4
<1>8. imports[at'] = << >> /\ \A name \in Name : types[at'][name] = Null
  BY <1>2, <1>4, <1>7 DEF Filled, FilledIn
<1>9. ASSUME NEW name \in Name
      PROVE  types[at'][name] = Fetched(f, imports, Len(said), at', name)
  <2>1. Len(imports[at']) = 0 BY <1>8
  <2>2. Having(f, imports, Len(said), at', name) = {} BY <2>1 DEF Having
  <2> QED BY <1>8, <2>2 DEF Fetched
<1>10. Begun' = Begun
  <2>1. \A m \in Module : m < at' <=> m < at \/ m = at BY <1>1, <1>4
  <2> QED BY <1>4, <2>1 DEF Begun
<1>11. Reads(f)' BY <1>3, <1>4, <1>9, <1>10 DEF Reads, ReadsIn
<1> QED BY <1>6, <1>11 DEF MInv, MeansIn, Filled, Reads

\* Nothing that is read changes.
LEMMA KeepsReads ==
  ASSUME MInv, UNCHANGED <<types, at, header, said, imports>>
  PROVE  MInv'
BY DEF MInv, MeansIn, Filled, Reads, Filled, FilledIn, Reads, ReadsIn, Begun

\* One more declaration: its name is read anew in its module, all others as before.
LEMMA SaidReads ==
  ASSUME imports \in [Module -> Seq(Module)], ~header,
         NEW t, NEW s0, NEW num, Good(t, s0, num), MeansIn(t, s0),
         NEW form \in Form, NEW name \in Name, NEW of \in Name, NEW type,
         NEW t2, t2 = WithType(t, name, type),
         NEW said2, said2 = Append(s0, Entry(form, name, of)),
         type = GivenBy(said2, Len(s0) + 1, t[at][of])
  PROVE  MeansIn(t2, said2)
<1>1. /\ Text(s0, imports) /\ Len(s0) \in Nat /\ at \in Module /\ Module \subseteq Nat
      /\ \A m \in Module : Len(imports[m]) \in Nat
                          /\ \A i \in 1 .. Len(imports[m]) : imports[m][i] \in Module
      /\ \A m \in Module : m \in Begun <=> m < at \/ (m = at /\ ~header)
  BY TextIn DEF MeansIn, Good
<1>2. FilledIn(t, s0) BY DEF MeansIn
<1>3. PICK f : ReadsIn(f, t, s0) BY DEF MeansIn
<1>5. PICK s : s = Len(s0) OBVIOUS
<1>7. /\ s \in Nat /\ Len(said2) = s + 1 /\ \A j \in 1 .. s : said2[j] = s0[j]
      /\ said2[s + 1].at = at /\ said2[s + 1].name = name /\ said2[s + 1].of = of
  BY <1>1, <1>5, ListedOne DEF Good, Entry, OneMore
<1>8. /\ \A m, n : m \in Module /\ n \in Name /\ (m # at \/ n # name)
                    => t2[m][n] = t[m][n]
      /\ t2[at][name] = type
  BY <1>1 DEF WithType, Good
<1>9. \A m \in Module : m > at => m # at BY <1>1
<1>10. FilledIn(t2, said2)
  <2>1. \A m \in Module : m > at => imports[m] = << >> /\ \A n \in Name : t[m][n] = Null
    BY <1>2 DEF FilledIn
  <2>2. \A m \in Module : \A i \in 1 .. Len(imports[m]) : imports[m][i] < m BY <1>2 DEF FilledIn
  <2> QED BY <1>8, <1>9, <2>1, <2>2 DEF FilledIn
<1>11. \A m \in Module : \A i \in 1 .. Len(imports[m]) : imports[m][i] # at
  <2>1. ASSUME NEW m \in Module, NEW i \in 1 .. Len(imports[m]) PROVE imports[m][i] # at
    <3>1. imports[m][i] < m /\ imports[m][i] \in Module BY <1>1, <1>2 DEF FilledIn
    <3>2. m > at => Len(imports[m]) = 0 BY <1>2 DEF FilledIn
    <3>3. ~(m > at) BY <3>2
    <3>4. m \in Nat /\ at \in Nat /\ imports[m][i] \in Nat BY <1>1, <3>1
    <3> QED BY ONLY <3>1, <3>3, <3>4
  <2> QED BY <2>1
<1> DEFINE new(q) == IF q[1] \in 0 .. s THEN f[q]
                     ELSE IF q[2] = at /\ q[3] = name THEN type ELSE f[<<s, q[2], q[3]>>]
<1>12. PICK g : g = [q \in Places(said2) |-> new(q)] OBVIOUS
<1>13. ASSUME NEW m \in Module, NEW n \in Name
       PROVE  /\ \A k \in 0 .. s : g[<<k, m, n>>] = f[<<k, m, n>>]
              /\ g[<<s + 1, m, n>>] = IF m = at /\ n = name THEN type ELSE f[<<s, m, n>>]
  <2>1. ASSUME NEW k \in 0 .. s PROVE g[<<k, m, n>>] = f[<<k, m, n>>]
    <3>1. PICK q : q = <<k, m, n>> OBVIOUS
    <3>2. k \in 0 .. Len(said2) BY <1>7
    <3>3. q \in Places(said2) /\ q[1] = k BY <3>1, <3>2 DEF Places
    <3>4. g[q] = new(q) BY <1>12, <3>3
    <3>5. new(q) = f[q] BY ONLY <3>3, k \in 0 .. s, Zenon
    <3> QED BY ONLY <3>1, <3>4, <3>5, Zenon
  <2>2. g[<<s + 1, m, n>>] = IF m = at /\ n = name THEN type ELSE f[<<s, m, n>>]
    <3>1. PICK k : k = s + 1 OBVIOUS
    <3>2. PICK q : q = <<k, m, n>> OBVIOUS
    <3>3. k \in 0 .. Len(said2) /\ k \notin 0 .. s BY <1>7, <3>1
    <3>4. q \in Places(said2) /\ q[1] = k /\ q[2] = m /\ q[3] = n BY <3>2, <3>3 DEF Places
    <3>5. g[q] = new(q) BY <1>12, <3>4
    <3>6. CASE m = at /\ n = name
      <4>1. new(q) = type BY ONLY <3>3, <3>4, <3>6, Zenon
      <4> QED BY ONLY <3>1, <3>2, <3>5, <3>6, <4>1, Zenon
    <3>7. CASE ~(m = at /\ n = name)
      <4>1. new(q) = f[<<s, m, n>>] BY ONLY <3>3, <3>4, <3>7, Zenon
      <4> QED BY ONLY <3>1, <3>2, <3>5, <3>7, <4>1, Zenon
    <3> QED BY <3>6, <3>7
  <2> QED BY <2>1, <2>2
<1>14. g = [q \in Places(said2) |-> g[q]] BY <1>12
<1> HIDE DEF new
<1>15. \A k \in 0 .. s, m \in Module, n \in Name :
         f[<<k, m, n>>] = ReadBy(f, s0, imports, k, m, n)
  BY <1>3, <1>5, ReadingIs DEF ReadsIn
<1>16. ASSUME NEW k \in 0 .. s, NEW m \in Module, NEW n \in Name
       PROVE  SameOwn(f, g, s0, said2, k, m, n)
  <2>1. ASSUME NEW j \in Own(s0, k, m, n)
        PROVE  said2[j] = s0[j] /\ f[<<j - 1, m, s0[j].of>>] = g[<<j - 1, m, s0[j].of>>]
    <3>1. j \in 1 .. s BY <1>7, <2>1 DEF Own
    <3>2. PICK i : i = j - 1 OBVIOUS
    <3>3. i \in 0 .. s BY <1>7, <3>1, <3>2
    <3>4. s0[j].of \in Name BY <1>1, <1>5, <3>1, SaidOfName
    <3>5. f[<<i, m, s0[j].of>>] = g[<<i, m, s0[j].of>>] BY <1>13, <3>3, <3>4
    <3>6. said2[j] = s0[j] BY <1>7, <3>1
    <3> QED BY ONLY <3>2, <3>5, <3>6
  <2> QED BY <2>1 DEF SameOwn
<1>17. ASSUME NEW k \in 0 .. s, NEW m \in Module, NEW n \in Name
       PROVE  g[<<k, m, n>>] = ReadBy(g, said2, imports, k, m, n)
  <2>1. Own(said2, k, m, n) = Own(s0, k, m, n) BY <1>7 DEF Own
  <2>2. SameImports(f, g, imports, k, k, m, n) BY <1>1, <1>13 DEF SameImports
  <2>3. k \in Nat BY <1>7
  <2>4. ReadBy(f, s0, imports, k, m, n) = ReadBy(g, said2, imports, k, m, n)
    BY <1>1, <1>16, <2>1, <2>2, <2>3, ReadAlike
  <2> QED BY <1>13, <1>15, <2>4
<1>18. ASSUME NEW m \in Module, NEW n \in Name
       PROVE  g[<<s + 1, m, n>>] = ReadBy(g, said2, imports, s + 1, m, n)
  <2>1. PICK k : k = s + 1 OBVIOUS
  <2>2. k \in Nat /\ k = Len(said2) /\ k - 1 = s BY <1>7, <2>1
  <2>3. CASE m = at /\ n = name
    <3>1. PICK o : o = Own(said2, k, m, n) OBVIOUS
    <3>2. o \subseteq 1 .. k /\ k \in o /\ \A j \in o : j <= k
      BY <1>7, <2>1, <2>2, <2>3, <3>1 DEF Own
    <3>3. Max(o) = k BY <2>2, <3>2, MaxIs
    <3>4. o # {} BY <3>2
    <3>5. ReadBy(g, said2, imports, k, m, n) = GivenBy(said2, k, g[<<k - 1, m, said2[k].of>>])
      BY ONLY <3>1, <3>3, <3>4, Zenon DEF ReadBy
    <3>6. s \in 0 .. s BY <1>7
    <3>7. g[<<s, at, of>>] = f[<<s, at, of>>] BY <1>1, <1>13, <3>6
    <3>8. at \in Begun BY <1>1
    <3>9. f[<<s, at, of>>] = t[at][of] BY <1>3, <1>5, <3>8 DEF ReadsIn
    <3>10. said2[k].of = of BY <1>7, <2>1
    <3>11. type = GivenBy(said2, k, t[at][of]) BY <1>5, <2>1
    <3>12. ReadBy(g, said2, imports, k, m, n) = GivenBy(said2, k, g[<<s, at, of>>])
      BY ONLY <2>2, <2>3, <3>5, <3>10, Zenon
    <3>13. ReadBy(g, said2, imports, k, m, n) = type BY ONLY <3>7, <3>9, <3>11, <3>12, Zenon
    <3> QED BY <1>13, <2>1, <2>3, <3>13
  <2>4. CASE ~(m = at /\ n = name)
    <3>1. Own(said2, k, m, n) = Own(s0, s, m, n)
      <4>1. \A j \in 1 .. k : j \in 1 .. s \/ j = k BY <1>7, <2>1
      <4>2. 1 .. s \subseteq 1 .. k BY <1>7, <2>1
      <4>3. k \notin Own(said2, k, m, n) BY <1>7, <2>1, <2>4 DEF Own
      <4>4. \A j \in 1 .. s : said2[j] = s0[j] BY <1>7
      <4> QED BY ONLY <4>1, <4>2, <4>3, <4>4 DEF Own
    <3>2. s \in 0 .. s BY <1>7
    <3>3. SameOwn(f, g, s0, said2, s, m, n) BY <1>16, <3>2
    <3>4. SameImports(f, g, imports, s, k, m, n)
      BY <1>1, <1>11, <1>13, <2>1 DEF SameImports
    <3>5. ReadBy(f, s0, imports, s, m, n) = ReadBy(g, said2, imports, k, m, n)
      BY <1>1, <1>7, <3>1, <3>3, <3>4, ReadAlike
    <3> QED BY <1>13, <1>15, <2>1, <2>4, <3>2, <3>5
  <2> QED BY <2>3, <2>4
<1>19. IsReading(g, said2, imports)
  <2>1. \A k \in 0 .. Len(said2) : k \in 0 .. s \/ k = s + 1 BY <1>7
  <2>2. \A k \in 0 .. Len(said2), m \in Module, n \in Name :
          g[<<k, m, n>>] = ReadBy(g, said2, imports, k, m, n)
    BY <1>17, <1>18, <2>1
  <2> QED BY <1>14, <2>2, ReadingIs
<1>20. ASSUME NEW m \in Begun, NEW n \in Name
       PROVE  t2[m][n] = g[<<s + 1, m, n>>]
  <2>1. m \in Module BY DEF Begun
  <2>2. t[m][n] = f[<<s, m, n>>] BY <1>3, <1>5 DEF ReadsIn
  <2> QED BY <1>8, <1>13, <2>1, <2>2
<1>21. ReadsIn(g, t2, said2) BY <1>7, <1>19, <1>20 DEF ReadsIn
<1> QED BY <1>10, <1>21 DEF MeansIn

\* A pointer, a list or a list of pointers, in any table.
LEMMA DeclaredMeans ==
  ASSUME imports \in [Module -> Seq(Module)], ~header,
         NEW t, NEW s, NEW n, Good(t, s, n), MeansIn(t, s), NEW name \in Name, NEW of \in Name
  PROVE  /\ MeansIn(WithPointer(t, name, of), Append(s, Entry("access", name, of)))
         /\ MeansIn(WithList(t, name, of), Append(s, Entry("list", name, of)))
         /\ MeansIn(WithPointers(t, name, of), Append(s, Entry("pointers", name, of)))
<1>1. "access" \in Form /\ "list" \in Form /\ "pointers" \in Form BY DEF Form
<1>2. ASSUME NEW form \in Form, NEW s2, s2 = Append(s, Entry(form, name, of))
      PROVE  s2[Len(s) + 1].form = form /\ s2[Len(s) + 1].of = of
  BY <1>2, ListedOne DEF Good, Entry, OneMore
<1>3. MeansIn(WithPointer(t, name, of), Append(s, Entry("access", name, of)))
  <2>1. PICK s2 : s2 = Append(s, Entry("access", name, of)) OBVIOUS
  <2>2. s2[Len(s) + 1].form = "access" BY <1>1, <1>2, <2>1
  <2>3. Access(TypeNamed(t, of)) = GivenBy(s2, Len(s) + 1, t[at][of])
    BY <2>2 DEF GivenBy, TypeNamed
  <2> QED BY <1>1, <2>1, <2>3, SaidReads DEF WithPointer
<1>4. MeansIn(WithList(t, name, of), Append(s, Entry("list", name, of)))
  <2>1. PICK s2 : s2 = Append(s, Entry("list", name, of)) OBVIOUS
  <2>2. s2[Len(s) + 1].form = "list" /\ s2[Len(s) + 1].of = of BY <1>1, <1>2, <2>1
  <2>3. List(TypeQualified(t, of)) = GivenBy(s2, Len(s) + 1, t[at][of])
    BY <2>2 DEF GivenBy, TypeQualified
  <2> QED BY <1>1, <2>1, <2>3, SaidReads DEF WithList
<1>5. MeansIn(WithPointers(t, name, of), Append(s, Entry("pointers", name, of)))
  <2>1. PICK s2 : s2 = Append(s, Entry("pointers", name, of)) OBVIOUS
  <2>2. s2[Len(s) + 1].form = "pointers" BY <1>1, <1>2, <2>1
  <2>3. List(Access(TypeNamed(t, of))) = GivenBy(s2, Len(s) + 1, t[at][of])
    BY <2>2 DEF GivenBy, TypeNamed
  <2> QED BY <1>1, <2>1, <2>3, SaidReads DEF WithPointers
<1> QED BY <1>3, <1>4, <1>5

\* What is read of the new table is read of it in the next state.
LEMMA MeansNext ==
  ASSUME UNCHANGED <<at, header, imports>>, MeansIn(types', said')
  PROVE  MInv'
<1>1. Begun' = Begun BY DEF Begun
<1> QED BY <1>1 DEF MInv, MeansIn, FilledIn, ReadsIn

LEMMA DeclarationReads ==
  ASSUME TInv, MInv, NEW name \in Name, NEW of \in Name,
         \/ Pointer(name, of) \/ Elements(name, of) \/ Pointers(name, of)
         \/ PointerElements(name, of) \/ PointerPointers(name, of),
         UNCHANGED <<at, header, imports>>
  PROVE  MInv'
<1>1. ~header /\ Len(said) \in Nat /\ Declared(name, of) BY DeclarationIs
<1>2. PICK n : n = Len(said) OBVIOUS
<1>3. Good(types, said, n) /\ imports \in [Module -> Seq(Module)]
  BY <1>1, <1>2, GoodBefore DEF TInv, TypeOK
<1>4. MeansIn(types, said) BY DEF MInv
<1>5. Array \in Name BY TypesAssumption
<1>6. MeansIn(types', said')
  <2>1. CASE \E form \in {"access", "list", "pointers"} :
               /\ said' = Append(said, Entry(form, name, of)) /\ Len(said') = Len(said) + 1
               /\ types' = CASE form = "access" -> WithPointer(types, name, of)
                             [] form = "list" -> WithList(types, name, of)
                             [] form = "pointers" -> WithPointers(types, name, of)
    BY <1>1, <1>3, <1>4, <2>1, DeclaredMeans
  <2>2. CASE \E form \in {"list", "pointers"} :
               LET t == WithPointer(types, name, Array) IN
               /\ said' = Append(Append(said, Entry("access", name, Array)), Entry(form, name, of))
               /\ Len(said') = Len(said) + 2
               /\ types' = CASE form = "list" -> WithList(t, name, of)
                             [] form = "pointers" -> WithPointers(t, name, of)
    <3>1. PICK t, s : /\ t = WithPointer(types, name, Array)
                      /\ s = Append(said, Entry("access", name, Array))
      OBVIOUS
    <3>2. Good(t, s, n) BY <1>3, <1>5, <3>1, DeclaredGood
    <3>3. MeansIn(t, s) BY <1>1, <1>3, <1>4, <1>5, <3>1, DeclaredMeans
    <3>4. /\ MeansIn(WithList(t, name, of), Append(s, Entry("list", name, of)))
          /\ MeansIn(WithPointers(t, name, of), Append(s, Entry("pointers", name, of)))
      BY <1>1, <1>3, <3>2, <3>3, DeclaredMeans
    <3> QED BY <2>2, <3>1, <3>4
  <2> QED BY <1>1, <2>1, <2>2 DEF Declared
<1> QED BY <1>6, MeansNext

\* The pointer to a class is read before the class has its number.
LEMMA ClassReads ==
  ASSUME TInv, MInv, NEW name \in ClassName, EndClass(name)
  PROVE  MInv'
<1>1. name \in Name /\ This[name] \in Name /\ "this" \in Form /\ "class" \in Form
  BY TypesAssumption DEF Form
<1>2. PICK k : k = Len(said) OBVIOUS
<1>3. PICK class : class = Plain(k + 2) OBVIOUS
<1>4. /\ Says(<<Entry("this", This[name], name), Entry("class", name, name)>>)
      /\ types' = WithType(WithType(types, This[name], Access(class)), name, class)
      /\ UNCHANGED <<at, header, imports>>
  BY <1>2, <1>3 DEF EndClass
<1>5. /\ ~header /\ k \in Nat
      /\ said' = Append(Append(said, Entry("this", This[name], name)), Entry("class", name, name))
  BY <1>1, <1>2, <1>4, SaysTwo
<1>6. PICK n : n = k + 2 OBVIOUS
<1>7. n \in Nat /\ k <= n BY <1>5, <1>6
<1>8. Access(class) \in TypeUpTo(n)
  <2>1. << >> \in Seq({"access", "list"}) /\ n \in 0 .. n BY <1>7
  <2>2. class \in TypeUpTo(n) BY <1>3, <1>6, <2>1 DEF Plain, TypeUpTo
  <2> QED BY <2>2, WrapIsType
<1>9. Good(types, said, n) /\ imports \in [Module -> Seq(Module)]
  BY <1>2, <1>5, <1>7, GoodBefore DEF TInv, TypeOK
<1>10. PICK t, s : /\ t = WithType(types, This[name], Access(class))
                   /\ s = Append(said, Entry("this", This[name], name))
  OBVIOUS
<1>11. Good(t, s, n) BY <1>1, <1>8, <1>9, <1>10, SaidOne
<1>12. Listed(said) /\ at \in Module BY <1>9 DEF Good
<1>13. Len(s) = k + 1 /\ s[k + 1] = Entry("this", This[name], name)
  BY <1>1, <1>2, <1>10, <1>12, ListedOne DEF OneMore
<1>14. MeansIn(t, s)
  <2>1. k + 1 + 1 = k + 2 BY <1>5
  <2>2. s[k + 1].form = "this" BY <1>13 DEF Entry
  <2>3. Access(class) = GivenBy(s, k + 1, types[at][name]) BY <1>3, <2>1, <2>2 DEF GivenBy
  <2>4. MeansIn(types, said) BY DEF MInv
  <2> QED BY <1>1, <1>2, <1>5, <1>9, <1>10, <2>3, <2>4, SaidReads
<1>15. PICK s2 : s2 = Append(s, Entry("class", name, name)) OBVIOUS
<1>16. MeansIn(WithType(t, name, class), s2)
  <2>1. Listed(s) BY <1>11 DEF Good
  <2>2. s2[Len(s) + 1] = Entry("class", name, name) BY <1>1, <1>12, <1>15, <2>1, ListedOne DEF OneMore
  <2>3. Len(s) + 1 = k + 2 BY <1>5, <1>13
  <2>4. s2[Len(s) + 1].form = "class" BY <2>2 DEF Entry
  <2>5. class = GivenBy(s2, Len(s) + 1, t[at][name]) BY <1>3, <2>3, <2>4 DEF GivenBy
  <2> QED BY <1>1, <1>5, <1>9, <1>11, <1>14, <1>15, <2>5, SaidReads
<1> QED BY <1>4, <1>5, <1>10, <1>15, <1>16, MeansNext

LEMMA ReadsOn == TInv /\ MInv /\ [Next]_vars => MInv'
<1> SUFFICES ASSUME TInv, MInv, [Next]_vars PROVE MInv' OBVIOUS
<1>1. TypeOK BY DEF TInv
<1>2. CASE \E from \in Module : Import(from) BY <1>1, <1>2, ImportReads
<1>3. CASE ImportBuiltins BY <1>1, <1>3, BuiltinsRead
<1>4. CASE NextModule BY <1>1, <1>4, NextReads
<1>5. ASSUME NEW name \in ClassName, BeginClass(name) PROVE MInv'
  <2>1. Says(<< >>) /\ UNCHANGED <<types, at, header, imports>> BY <1>5 DEF BeginClass
  <2>2. said' = said BY <1>1, <2>1, BeginSays
  <2> QED BY <2>1, <2>2, KeepsReads
<1>6. ASSUME NEW name \in ClassName, EndClass(name) PROVE MInv'
  BY <1>6, ClassReads
<1>7. CASE ParseVarDecl \/ ParseParameterDecl \/ ParseFieldDecl
  <2>1. PICK name \in VarName, of \in TypeName :
          /\ \/ Pointer(name, of) \/ Elements(name, of) \/ Pointers(name, of)
             \/ PointerElements(name, of) \/ PointerPointers(name, of)
          /\ UNCHANGED <<at, header, inside, imports>>
    BY <1>7 DEF ParseVarDecl, ParseParameterDecl, ParseFieldDecl, Declares
  <2>2. name \in Name /\ of \in Name BY TypesAssumption
  <2> QED BY <2>1, <2>2, DeclarationReads
<1>8. CASE UNCHANGED vars
  <2>1. UNCHANGED <<types, at, header, said, imports>> BY <1>8 DEF vars
  <2> QED BY <2>1, KeepsReads
<1> QED BY <1>2, <1>3, <1>4, <1>5, <1>6, <1>7, <1>8 DEF Next

LEMMA ReadRight == TypeOK /\ MInv => NamesAsDeclared
<1> SUFFICES ASSUME TypeOK, MInv PROVE NamesAsDeclared OBVIOUS
<1>1. Text(said, imports) BY TextOfInv DEF MInv, MeansIn, Filled, Reads
<1>2. PICK f : Reads(f) BY DEF MInv, MeansIn, Filled, Reads
<1>3. IsReading(f, said, imports) BY <1>2 DEF Reads, ReadsIn
<1>4. PICK h : h = CHOOSE g : IsReading(g, said, imports) OBVIOUS
<1>5. IsReading(h, said, imports) BY ONLY <1>3, <1>4, Zenon
<1>6. h = f BY <1>1, <1>3, <1>5, OneReading
<1>7. Meaning = f BY ONLY <1>4, <1>6, MeaningReads, Zenon
<1> QED BY <1>2, <1>7 DEF Reads, ReadsIn, NamesAsDeclared

\* The table says of every name in every module what the text says: for any number of
\* modules, imports and declarations (addType, importTypesFromModule).  The invariant
\* says that there is a reading of the text and that the table holds it.
THEOREM NamesReadRight == Spec => []NamesAsDeclared
<1> QED BY Starts, Steps, StartsRead, ReadsOn, ReadRight, PTL DEF Spec, TInv

-----------------------------------------------------------------------------
(***************************************************************************)
(* The modules that a module sees.                                         *)
(***************************************************************************)

\* Counting up from zero reaches every number.
LEMMA Counting ==
  ASSUME NEW K, 0 \in K, \A n \in Nat : n \in K => n + 1 \in K
  PROVE  \A n \in Nat : n \in K
<1>1. PICK B : B = {n \in Nat : n \notin K} OBVIOUS
<1>2. B = {}
  <2> SUFFICES ASSUME B # {} PROVE FALSE OBVIOUS
  <2>1. PICK n \in B : \A j \in B : n <= j BY <1>1, LeastNatural
  <2>2. n \in Nat /\ n # 0 BY <1>1, <2>1
  <2>3. PICK i : i = n - 1 OBVIOUS
  <2>4. i \in Nat /\ n = i + 1 /\ ~(n <= i) BY <2>2, <2>3
  <2>5. i \in K BY <1>1, <2>1, <2>4
  <2> QED BY <1>1, <2>4, <2>5
<1> QED BY <1>1, <1>2

\* The parts of Sees, for imports im.
Around(im, K) == K \cup UNION {{im[k][i] : i \in 1 .. Len(im[k])} : k \in K}
IsNear(near, im, m, n) ==
  near = [d \in 0 .. n |-> IF d = 0 THEN {m} ELSE Around(im, near[d - 1])]
SeesBy(im, m) == (CHOOSE near : IsNear(near, im, m, MaxModule))[MaxModule]

LEMMA SeesNear ==
  ASSUME NEW m
  PROVE  Sees(m) = SeesBy(imports, m)
BY DEF Sees, SeesBy, IsNear, Around

LEMMA NearExists ==
  ASSUME NEW im, NEW m, NEW n \in Nat
  PROVE  \E near : IsNear(near, im, m, n)
<1>1. PICK K : K = {j \in Nat : \E near : IsNear(near, im, m, j)} OBVIOUS
<1>2. 0 \in K
  <2>1. PICK near : near = [d \in 0 .. 0 |-> {m}] OBVIOUS
  <2>2. near = [d \in 0 .. 0 |-> IF d = 0 THEN {m} ELSE Around(im, near[d - 1])] BY <2>1
  <2> QED BY <1>1, <2>2 DEF IsNear
<1>3. ASSUME NEW j \in Nat, j \in K PROVE j + 1 \in K
  <2>1. PICK near : IsNear(near, im, m, j) BY <1>1, <1>3
  <2>2. near = [d \in 0 .. j |-> IF d = 0 THEN {m} ELSE Around(im, near[d - 1])]
    BY <2>1 DEF IsNear
  <2>3. PICK next : next = [d \in 0 .. j + 1 |-> IF d = j + 1 THEN Around(im, near[j]) ELSE near[d]]
    OBVIOUS
  <2>4. \A d \in 0 .. j : next[d] = near[d] /\ d # j + 1 BY <2>3
  <2>5. ASSUME NEW d \in 0 .. j + 1
        PROVE  next[d] = IF d = 0 THEN {m} ELSE Around(im, next[d - 1])
    <3>1. CASE d = j + 1
      <4>1. d # 0 /\ d - 1 = j /\ j \in 0 .. j BY <3>1
      <4>2. next[d] = Around(im, near[j]) BY <2>3, <3>1
      <4>3. next[j] = near[j] BY <2>4, <4>1
      <4> QED BY <4>1, <4>2, <4>3
    <3>2. CASE d # j + 1
      <4>1. d \in 0 .. j BY <3>2
      <4>2. next[d] = near[d] BY <2>4, <4>1
      <4>3. near[d] = IF d = 0 THEN {m} ELSE Around(im, near[d - 1]) BY <2>2, <4>1
      <4>4. d # 0 => d - 1 \in 0 .. j BY <4>1
      <4>5. d # 0 => next[d - 1] = near[d - 1] BY <2>4, <4>4
      <4> QED BY <4>2, <4>3, <4>5
    <3> QED BY <3>1, <3>2
  <2>6. next = [d \in 0 .. j + 1 |-> next[d]] BY <2>3
  <2>7. next = [d \in 0 .. j + 1 |-> IF d = 0 THEN {m} ELSE Around(im, next[d - 1])]
    BY ONLY <2>5, <2>6, Zenon
  <2>8. IsNear(next, im, m, j + 1) BY <2>7 DEF IsNear
  <2> QED BY <1>1, <2>8
<1>4. \A j \in Nat : j \in K BY ONLY <1>2, <1>3, Counting
<1> QED BY <1>1, <1>4

\* Modules import what stands before them, and what a module sees sees nothing else.
Backward(im) ==
  /\ im \in [Module -> Seq(Module)]
  /\ \A m \in Module : \A i \in 1 .. Len(im[m]) : im[m][i] < m
Closed(im, V) == \A k \in V : \A i \in 1 .. Len(im[k]) : im[k][i] \in V

LEMMA ImportFacts ==
  ASSUME NEW im, Backward(im), NEW m \in Module
  PROVE  /\ Len(im[m]) \in Nat /\ m \in Nat /\ m >= 1 /\ m <= MaxModule
         /\ \A i \in 1 .. Len(im[m]) : im[m][i] \in Module /\ im[m][i] < m
BY TypesAssumption DEF Backward, Module

\* A module sees the least set with it in which all imports are.
LEMMA SeesLeast ==
  ASSUME NEW im, Backward(im), NEW m \in Module
  PROVE  /\ m \in SeesBy(im, m) /\ SeesBy(im, m) \subseteq Module /\ Closed(im, SeesBy(im, m))
         /\ \A V : m \in V /\ Closed(im, V) => SeesBy(im, m) \subseteq V
<1>1. MaxModule \in Nat /\ m \in Nat /\ m >= 1 /\ m <= MaxModule
  BY TypesAssumption DEF Module
<1>2. PICK near : near = CHOOSE n : IsNear(n, im, m, MaxModule) OBVIOUS
<1>3. IsNear(near, im, m, MaxModule)
  <2>1. \E n : IsNear(n, im, m, MaxModule) BY <1>1, NearExists
  <2> QED BY ONLY <1>2, <2>1, Zenon
<1>4. \A d \in 0 .. MaxModule : near[d] = IF d = 0 THEN {m} ELSE Around(im, near[d - 1])
  BY <1>3 DEF IsNear
<1>5. near[0] = {m} BY <1>1, <1>4
<1>6. ASSUME NEW d \in Nat, d < MaxModule PROVE near[d + 1] = Around(im, near[d])
  <2>1. PICK e : e = d + 1 OBVIOUS
  <2>2. e \in 0 .. MaxModule /\ e # 0 /\ e - 1 = d BY <1>1, <1>6, <2>1
  <2> QED BY <1>4, <2>1, <2>2
<1> DEFINE Near(d) == /\ m \in near[d] /\ near[d] \subseteq Module
                      /\ \A V : m \in V /\ Closed(im, V) => near[d] \subseteq V
                      /\ \A k \in near[d] :
                           k <= m - d \/ \A i \in 1 .. Len(im[k]) : im[k][i] \in near[d]
<1>7. PICK K : K = {d \in Nat : d <= MaxModule => Near(d)} OBVIOUS
<1>8. 0 \in K
  <2>1. Near(0) BY <1>1, <1>5
  <2> QED BY <1>7, <2>1
<1>9. ASSUME NEW d \in Nat, d \in K, d + 1 <= MaxModule PROVE Near(d + 1)
  <2>1. d < MaxModule /\ d <= MaxModule BY <1>1, <1>9
  <2>2. Near(d) BY <1>7, <1>9, <2>1
  <2>3. PICK A : A = near[d] OBVIOUS
  <2>4. PICK B : B = near[d + 1] OBVIOUS
  <2>5. B = Around(im, A) BY <1>6, <2>1, <2>3, <2>4
  <2>6. A \subseteq B /\ \A k \in A : \A i \in 1 .. Len(im[k]) : im[k][i] \in B
    BY <2>5 DEF Around
  <2>7. \A b \in B : b \in A \/ \E k \in A : \E i \in 1 .. Len(im[k]) : b = im[k][i]
    BY <2>5 DEF Around
  <2>8. A \subseteq Module /\ m \in A BY <2>2, <2>3
  <2>9. m \in B /\ B \subseteq Module BY <2>6, <2>7, <2>8, ImportFacts
  <2>10. ASSUME NEW V, m \in V, Closed(im, V) PROVE B \subseteq V
    <3>1. A \subseteq V BY <2>2, <2>3, <2>10
    <3> QED BY <2>7, <2>10, <3>1 DEF Closed
  <2>11. ASSUME NEW b \in B
         PROVE  b <= m - (d + 1) \/ \A i \in 1 .. Len(im[b]) : im[b][i] \in B
    <3>1. CASE b \in A BY <2>6, <3>1
    <3>2. CASE b \notin A
      <4>1. PICK k \in A : \E i \in 1 .. Len(im[k]) : b = im[k][i] BY <2>7, <3>2
      <4>2. k <= m - d BY <2>2, <2>3, <3>2, <4>1
      <4>3. b < k /\ k \in Int /\ b \in Int
        BY <2>8, <4>1, ImportFacts DEF Module
      <4> QED BY <1>1, <4>2, <4>3
    <3> QED BY <3>1, <3>2
  <2> QED BY <2>4, <2>9, <2>10, <2>11
<1>10. \A d \in Nat : d \in K => d + 1 \in K BY <1>7, <1>9
<1>11. MaxModule \in K
  <2>1. \A d \in Nat : d \in K BY ONLY <1>8, <1>10, Counting
  <2> QED BY <1>1, <2>1
<1>12. Near(MaxModule) BY <1>1, <1>7, <1>11
<1>13. SeesBy(im, m) = near[MaxModule] BY <1>2 DEF SeesBy
<1>14. \A k \in near[MaxModule] : ~(k <= m - MaxModule) BY <1>1, <1>12 DEF Module
<1> QED BY <1>12, <1>13, <1>14 DEF Closed

\* Itself, and what its imports see.
LEMMA SeesOn ==
  ASSUME NEW im, Backward(im), NEW m \in Module
  PROVE  \A n : n \in SeesBy(im, m) <=>
                  n = m \/ \E i \in 1 .. Len(im[m]) : n \in SeesBy(im, im[m][i])
<1>1. PICK V : V = {m} \cup UNION {SeesBy(im, im[m][i]) : i \in 1 .. Len(im[m])} OBVIOUS
<1>2. \A n : n \in V <=> n = m \/ \E i \in 1 .. Len(im[m]) : n \in SeesBy(im, im[m][i])
  BY <1>1
<1>3. \A i \in 1 .. Len(im[m]) : im[m][i] \in Module BY ImportFacts
<1>4. ASSUME NEW n \in V, NEW j \in 1 .. Len(im[n]) PROVE im[n][j] \in V
  <2>1. CASE n = m
    <3>1. im[m][j] \in SeesBy(im, im[m][j]) BY <1>3, <2>1, SeesLeast
    <3> QED BY <1>2, <2>1, <3>1
  <2>2. CASE n # m
    <3>1. PICK i \in 1 .. Len(im[m]) : n \in SeesBy(im, im[m][i]) BY <1>2, <2>2
    <3>2. Closed(im, SeesBy(im, im[m][i])) BY <1>3, SeesLeast
    <3>3. im[n][j] \in SeesBy(im, im[m][i]) BY <3>1, <3>2 DEF Closed
    <3> QED BY <1>2, <3>3
  <2> QED BY <2>1, <2>2
<1>5. Closed(im, V) /\ m \in V BY <1>1, <1>4 DEF Closed
<1>6. SeesBy(im, m) \subseteq V BY <1>5, SeesLeast
<1>7. ASSUME NEW i \in 1 .. Len(im[m]) PROVE SeesBy(im, im[m][i]) \subseteq SeesBy(im, m)
  <2>1. m \in SeesBy(im, m) /\ Closed(im, SeesBy(im, m)) BY SeesLeast
  <2>2. im[m][i] \in SeesBy(im, m) BY <2>1 DEF Closed
  <2> QED BY <1>3, <2>1, <2>2, SeesLeast
<1>8. m \in SeesBy(im, m) BY SeesLeast
<1> QED BY <1>2, <1>6, <1>7, <1>8

-----------------------------------------------------------------------------
(***************************************************************************)
(* Names that mean something.                                              *)
(***************************************************************************)

\* Types, of classes declared anywhere.
AnyType == [wrap : Seq({"access", "list"}), base : Builtin \cup Nat]

LEMMA WrapsAny ==
  ASSUME NEW type \in AnyType
  PROVE  /\ Access(type) \in AnyType /\ List(type) \in AnyType
         /\ Access(type) # Null /\ List(type) # Null
<1>1. type.wrap \in Seq({"access", "list"}) BY DEF AnyType
<1>2. /\ <<"access">> \o type.wrap \in Seq({"access", "list"})
      /\ <<"list">> \o type.wrap \in Seq({"access", "list"})
      /\ Len(<<"access">> \o type.wrap) # 0 /\ Len(<<"list">> \o type.wrap) # 0
  BY <1>1
<1>3. Access(type) \in AnyType /\ List(type) \in AnyType BY <1>2 DEF AnyType, Access, List
<1>4. Access(type).wrap = <<"access">> \o type.wrap /\ List(type).wrap = <<"list">> \o type.wrap
  BY DEF AnyType, Access, List
<1>5. Null.wrap = << >> /\ Len(<< >>) = 0 BY DEF Null
<1> QED BY <1>2, <1>3, <1>4, <1>5

LEMMA PlainAny ==
  ASSUME NEW base \in Builtin \cup (Nat \ {0})
  PROVE  Plain(base) \in AnyType /\ Plain(base) # Null /\ Null \in AnyType
<1>1. base # 0 BY TypesAssumption
<1>2. << >> \in Seq({"access", "list"}) OBVIOUS
<1>3. Plain(base).base # Null.base BY <1>1 DEF Plain, Null
<1> QED BY <1>2, <1>3 DEF AnyType, Plain, Null

LEMMA GivenAny ==
  ASSUME NEW s, NEW im, Text(s, im), NEW j \in 1 .. Len(s), NEW named \in AnyType
  PROVE  GivenBy(s, j, named) \in AnyType /\ GivenBy(s, j, named) # Null
<1> DEFINE Said == [at : Module, form : Form, name : Name, of : Name]
<1>1. s \in Seq(Said) /\ j \in Nat \ {0} BY DEF Text
<1>2. \A d \in Said : d.form \in Form OBVIOUS
<1> HIDE DEF Said
<1>3. s[j].form \in Form BY <1>1, <1>2
<1>4. Plain(j) \in AnyType /\ Plain(j) # Null BY <1>1, PlainAny
<1>5. PICK t : t = IF s[j].of \in Builtin THEN Plain(s[j].of) ELSE named OBVIOUS
<1>6. t \in AnyType BY <1>5, PlainAny
<1>7. List(t) \in AnyType /\ List(t) # Null BY <1>6, WrapsAny
<1>8. Access(named) \in AnyType /\ Access(named) # Null BY WrapsAny
<1>9. List(Access(named)) \in AnyType /\ List(Access(named)) # Null BY <1>8, WrapsAny
<1>10. CASE s[j].form = "class" BY <1>4, <1>10 DEF GivenBy
<1>14. CASE s[j].form = "this"
  <2>1. j + 1 \in Nat \ {0} BY <1>1
  <2>2. Plain(j + 1) \in AnyType BY <2>1, PlainAny
  <2>3. Access(Plain(j + 1)) \in AnyType /\ Access(Plain(j + 1)) # Null BY <2>2, WrapsAny
  <2> QED BY <1>14, <2>3 DEF GivenBy
<1>11. CASE s[j].form = "access" BY <1>8, <1>11 DEF GivenBy
<1>12. CASE s[j].form = "pointers" BY <1>9, <1>12 DEF GivenBy
<1>13. CASE s[j].form = "list"
  <2>1. GivenBy(s, j, named) = List(t) BY <1>5, <1>13, Zenon DEF GivenBy
  <2> QED BY <1>7, <2>1
<1> QED BY <1>3, <1>10, <1>11, <1>12, <1>13, <1>14 DEF Form

\* What is before a place is of a type: so is what stands there.
TypedBefore(f, s, k, m) ==
  \A j \in 0 .. Len(s), n \in Module, other \in Name :
    j < k \/ (j = k /\ n < m) => f[<<j, n, other>>] \in AnyType

\* A name is there, or in an import.
Somewhere(f, s, im, k, m, name) ==
  \/ name \in Builtin \/ Own(s, k, m, name) # {}
  \/ \E i \in 1 .. Len(im[m]) : f[<<k, im[m][i], name>>] # Null

LEMMA ReadTyped ==
  ASSUME NEW f, NEW s, NEW im, Text(s, im), NEW k \in 0 .. Len(s), NEW m \in Module,
         NEW name \in Name, TypedBefore(f, s, k, m)
  PROVE  /\ ReadBy(f, s, im, k, m, name) \in AnyType
         /\ ReadBy(f, s, im, k, m, name) # Null <=> Somewhere(f, s, im, k, m, name)
<1> USE DEF Somewhere
<1>1. Len(s) \in Nat /\ k \in Nat /\ k <= Len(s) /\ Len(im[m]) \in Nat BY DEF Text
<1>2. \A i \in 1 .. Len(im[m]) : im[m][i] \in Module /\ im[m][i] < m BY DEF Text
<1>3. Null \in AnyType
  <2>1. << >> \in Seq({"access", "list"}) OBVIOUS
  <2> QED BY <2>1 DEF Null, AnyType
<1>4. PICK o : o = Own(s, k, m, name) OBVIOUS
<1>5. o \subseteq 1 .. k BY <1>4 DEF Own
<1>6. PICK h : h = Having(f, im, k, m, name) OBVIOUS
<1>7. h \subseteq 1 .. Len(im[m]) /\ h = {i \in 1 .. Len(im[m]) : f[<<k, im[m][i], name>>] # Null}
  BY <1>6 DEF Having
<1>8. CASE o # {}
  <2>1. PICK j \in o : j = Max(o) BY <1>1, <1>5, <1>8, MaxFacts
  <2>2. PICK i : i = j - 1 OBVIOUS
  <2>3. j \in 1 .. Len(s) /\ i \in 0 .. Len(s) /\ i < k BY <1>1, <1>5, <2>2
  <2>4. s[j].of \in Name BY <2>3, SaidOfName
  <2>5. f[<<i, m, s[j].of>>] \in AnyType BY <2>3, <2>4, Zenon DEF TypedBefore
  <2>6. ReadBy(f, s, im, k, m, name) = GivenBy(s, j, f[<<i, m, s[j].of>>])
    BY ONLY <1>4, <1>8, <2>1, <2>2, Zenon DEF ReadBy
  <2>7. /\ GivenBy(s, j, f[<<i, m, s[j].of>>]) \in AnyType
        /\ GivenBy(s, j, f[<<i, m, s[j].of>>]) # Null
    BY <2>3, <2>5, GivenAny
  <2> QED BY <1>4, <1>8, <2>6, <2>7
<1>9. CASE o = {} /\ name \in Builtin
  <2>1. ReadBy(f, s, im, k, m, name) = Plain(name) BY <1>4, <1>9 DEF ReadBy, Inherited
  <2> QED BY <1>9, <2>1, PlainAny
<1>10. CASE o = {} /\ name \notin Builtin
  <2>1. ReadBy(f, s, im, k, m, name) = Fetched(f, im, k, m, name)
    BY <1>4, <1>10 DEF ReadBy, Inherited
  <2>2. CASE h = {}
    <3>1. Fetched(f, im, k, m, name) = Null BY <1>6, <2>2 DEF Fetched
    <3> QED BY <1>3, <1>4, <1>7, <1>10, <2>1, <2>2, <3>1
  <2>3. CASE h # {}
    <3>1. PICK i \in h : i = Max(h) BY <1>1, <1>7, <2>3, MaxFacts
    <3>2. Fetched(f, im, k, m, name) = f[<<k, im[m][i], name>>]
      BY ONLY <1>6, <2>3, <3>1, Zenon DEF Fetched
    <3>3. f[<<k, im[m][i], name>>] # Null BY <1>7
    <3>4. f[<<k, im[m][i], name>>] \in AnyType BY <1>2, <1>7 DEF TypedBefore
    <3> QED BY <1>7, <2>1, <3>2, <3>3, <3>4
  <2> QED BY <2>2, <2>3
<1> QED BY <1>8, <1>9, <1>10

\* All that is read is a type.
LEMMA AllTyped ==
  ASSUME NEW s, NEW im, Text(s, im), NEW f, IsReading(f, s, im)
  PROVE  \A k \in 0 .. Len(s), m \in Module, name \in Name : f[<<k, m, name>>] \in AnyType
<1>1. Len(s) \in Nat /\ Module \subseteq Nat BY DEF Text, Module
<1>2. \A k \in 0 .. Len(s), m \in Module, name \in Name :
        f[<<k, m, name>>] = ReadBy(f, s, im, k, m, name)
  BY ReadingIs
<1>3. PICK K : K = {k \in 0 .. Len(s) : \E m \in Module, name \in Name : f[<<k, m, name>>] \notin AnyType}
  OBVIOUS
<1>4. K = {}
  <2> SUFFICES ASSUME K # {} PROVE FALSE OBVIOUS
  <2>1. K \in SUBSET Nat BY <1>1, <1>3
  <2>2. PICK k \in K : \A j \in K : k <= j BY ONLY <2>1, K # {}, LeastNatural
  <2>3. PICK M : M = {m \in Module : \E name \in Name : f[<<k, m, name>>] \notin AnyType}
    OBVIOUS
  <2>4. M \in SUBSET Nat /\ M # {} BY <1>1, <1>3, <2>2, <2>3
  <2>5. PICK m \in M : \A n \in M : m <= n BY ONLY <2>4, LeastNatural
  <2>6. PICK name \in Name : f[<<k, m, name>>] \notin AnyType BY <2>3
  <2>7. k \in 0 .. Len(s) /\ m \in Module BY <1>3, <2>3
  <2>8. ASSUME NEW j \in 0 .. Len(s), NEW n \in Module, NEW other \in Name,
               j < k \/ (j = k /\ n < m)
        PROVE  f[<<j, n, other>>] \in AnyType
    <3>1. j \in Nat /\ k \in Nat /\ n \in Nat /\ m \in Nat BY <1>1, <2>7
    <3>2. CASE j < k
      <4>1. j \notin K BY ONLY <2>2, <3>1, <3>2
      <4> QED BY <1>3, <4>1
    <3>3. CASE j = k /\ n < m
      <4>1. n \notin M BY ONLY <2>5, <3>1, <3>3
      <4> QED BY <2>3, <3>3, <4>1
    <3> QED BY <2>8, <3>2, <3>3
  <2>9. TypedBefore(f, s, k, m) BY ONLY <2>8, Zenon DEF TypedBefore
  <2>10. ReadBy(f, s, im, k, m, name) \in AnyType BY <2>7, <2>9, ReadTyped
  <2> QED BY ONLY <1>2, <2>6, <2>7, <2>10, Zenon
<1> QED BY <1>3, <1>4

\* A name means something where it is a builtin type's or is declared in sight.
LEMMA ReadInSight ==
  ASSUME NEW s, NEW im, Text(s, im), NEW f, IsReading(f, s, im), NEW k \in 0 .. Len(s),
         NEW name \in Name
  PROVE  \A m \in Module :
           f[<<k, m, name>>] # Null <=>
             \/ name \in Builtin
             \/ \E j \in 1 .. k : s[j].name = name /\ s[j].at \in SeesBy(im, m)
<1>1. Module \subseteq Nat BY DEF Module
<1>2. Backward(im) BY DEF Text, Backward
<1> DEFINE Seen(m) == name \in Builtin \/ \E j \in 1 .. k : s[j].name = name /\ s[j].at \in SeesBy(im, m)
<1>3. ASSUME NEW m \in Module
      PROVE  f[<<k, m, name>>] # Null <=>
               \/ name \in Builtin \/ Own(s, k, m, name) # {}
               \/ \E i \in 1 .. Len(im[m]) : f[<<k, im[m][i], name>>] # Null
  <2>1. TypedBefore(f, s, k, m) BY AllTyped DEF TypedBefore
  <2>2. f[<<k, m, name>>] = ReadBy(f, s, im, k, m, name) BY ReadingIs
  <2>3. ReadBy(f, s, im, k, m, name) # Null <=> Somewhere(f, s, im, k, m, name)
    BY <2>1, ReadTyped
  <2>4. ReadBy(f, s, im, k, m, name) # Null <=> f[<<k, m, name>>] # Null BY ONLY <2>2, Zenon
  <2> QED BY ONLY <2>3, <2>4, Zenon DEF Somewhere
<1>4. PICK M : M = {m \in Module : ~(f[<<k, m, name>>] # Null <=> Seen(m))} OBVIOUS
<1>5. M = {}
  <2> SUFFICES ASSUME M # {} PROVE FALSE OBVIOUS
  <2>1. M \in SUBSET Nat BY <1>1, <1>4
  <2>2. PICK m \in M : \A n \in M : m <= n BY ONLY <2>1, M # {}, LeastNatural
  <2>3. m \in Module /\ m \in Nat BY <1>1, <1>4
  <2>4. ASSUME NEW i \in 1 .. Len(im[m]) PROVE f[<<k, im[m][i], name>>] # Null <=> Seen(im[m][i])
    <3>1. im[m][i] \in Module /\ im[m][i] < m BY <1>2, <2>3, ImportFacts
    <3>2. PICK n \in Module : n = im[m][i] BY <3>1
    <3>3. n \in Nat /\ ~(m <= n) BY <1>1, <2>3, <3>1, <3>2
    <3>4. n \notin M BY <2>2, <3>3
    <3> QED BY <1>4, <3>2, <3>4
  <2>5. \A n : n \in SeesBy(im, m) <=>
                 n = m \/ \E i \in 1 .. Len(im[m]) : n \in SeesBy(im, im[m][i])
    BY <1>2, <2>3, SeesOn
  <2>6. Own(s, k, m, name) # {} <=> \E j \in 1 .. k : s[j].name = name /\ s[j].at = m
    BY DEF Own
  <2>7. f[<<k, m, name>>] # Null <=>
          \/ name \in Builtin \/ Own(s, k, m, name) # {}
          \/ \E i \in 1 .. Len(im[m]) : f[<<k, im[m][i], name>>] # Null
    BY <1>3, <2>3
  <2>8. f[<<k, m, name>>] # Null <=> Seen(m) BY ONLY <2>4, <2>5, <2>6, <2>7
  <2> QED BY <1>4, <2>8
<1> QED BY <1>4, <1>5

LEMMA CallsRight == TypeOK /\ MInv => CallsOfTypes
<1> SUFFICES ASSUME TypeOK, MInv, ~header, NEW name \in Name
    PROVE  TypeQualified(types, name) # Null <=>
             \/ name \in Builtin
             \/ \E j \in 1 .. Len(said) : said[j].name = name /\ said[j].at \in Sees(at)
  BY DEF CallsOfTypes
<1>1. /\ Text(said, imports) /\ Len(said) \in Nat /\ at \in Module
      /\ at \in Begun
  BY TextOfInv DEF MInv, MeansIn, Filled, Reads
<1>2. PICK f : Reads(f) BY DEF MInv, MeansIn, Filled, Reads
<1>3. PICK k : k = Len(said) OBVIOUS
<1>4. k \in 0 .. Len(said) BY <1>1, <1>3
<1>5. f[<<k, at, name>>] # Null <=>
        \/ name \in Builtin
        \/ \E j \in 1 .. k : said[j].name = name /\ said[j].at \in SeesBy(imports, at)
  BY <1>1, <1>2, <1>4, ReadInSight DEF Reads, ReadsIn
<1>6. types[at][name] = f[<<k, at, name>>] BY <1>1, <1>2, <1>3 DEF Reads, ReadsIn
<1>7. name \in Builtin => Plain(name) # Null BY PlainAny
<1> QED BY <1>3, <1>5, <1>6, <1>7, SeesNear DEF TypeQualified

\* A call is taken for a constructor's exactly where its name is a builtin type's or is
\* declared as a class, by a class as its this, as a pointer or a list in a module that is
\* seen: over any number of imports, one through another (parseCallExpression,
\* importTypesFromModule).
THEOREM CallsTakenRight == Spec => []CallsOfTypes
<1> QED BY Starts, Steps, StartsRead, ReadsOn, CallsRight, PTL DEF Spec, TInv
=============================================================================
