--------------------------- MODULE ScopeWalk_proofs ---------------------------
(***************************************************************************)
(* The code generator stays in step with the parser, whatever the program: *)
(* proof that IInv is an inductive invariant of ScopeWalk, and with it     *)
(* TypeOK, InSync and ExternalIsGenerated, and that ScopeWalk implements   *)
(* TextWalk.  Behind it, that what the generator finds under a name is     *)
(* what the text of the program gives it: proof that NInv is inductive,    *)
(* and with it SlotInItsScope, UseReadsItsVariable, ReturnFindsItsCallable *)
(* and FailureExplained.                                                   *)
(***************************************************************************)
EXTENDS ScopeWalkInv, SequenceTheorems, WellFoundedInduction, TLAPS

-----------------------------------------------------------------------------
(***************************************************************************)
(* What the operations on the scope tree return: each gives a tree again,  *)
(* and says which fields of which scopes it changes.                       *)
(***************************************************************************)

\* b has every scope of a, in its place, with its children first among its children.
Grown(a, b) ==
  /\ Len(a) <= Len(b)
  /\ \A s \in 1 .. Len(a) :
       /\ b[s].kind = a[s].kind /\ b[s].name = a[s].name /\ b[s].parent = a[s].parent
       /\ Len(a[s].children) <= Len(b[s].children)
       /\ \A k \in 1 .. Len(a[s].children) : b[s].children[k] = a[s].children[k]

\* They differ in nothing but their symbols.
SameShape(a, b) ==
  /\ Len(a) = Len(b)
  /\ \A s \in 1 .. Len(a) :
       /\ b[s].kind = a[s].kind /\ b[s].name = a[s].name /\ b[s].parent = a[s].parent
       /\ b[s].children = a[s].children
       /\ b[s].external = a[s].external /\ b[s].cursor = a[s].cursor

\* The types of a scope's fields, one by one.
LEMMA ScopeFields ==
  ASSUME NEW sc, IsTree(sc), NEW s \in 1 .. Len(sc)
  PROVE  /\ Len(sc) \in Nat
         /\ sc[s] \in ScopeType
         /\ sc[s].kind \in Kind /\ sc[s].name \in Name
         /\ sc[s].parent \in 0 .. Len(sc)
         /\ sc[s].children \in Seq(Nat)
         /\ Len(sc[s].children) \in Nat
         /\ \A k \in 1 .. Len(sc[s].children) : sc[s].children[k] \in 1 .. Len(sc)
         /\ sc[s].external \in BOOLEAN /\ sc[s].cursor \in Nat
         /\ sc[s].decl \in [Symbol -> Nat] /\ sc[s].alloca \in [Symbol -> Nat]
<1>1. sc \in Seq(ScopeType) BY DEF IsTree
<1>2. Len(sc) \in Nat /\ sc[s] \in ScopeType BY <1>1
<1>3. /\ sc[s].kind \in Kind /\ sc[s].name \in Name
      /\ sc[s].children \in Seq(Nat)
      /\ sc[s].external \in BOOLEAN /\ sc[s].cursor \in Nat
      /\ sc[s].decl \in [Symbol -> Nat] /\ sc[s].alloca \in [Symbol -> Nat]
  BY <1>2 DEF ScopeType
<1>4. Len(sc[s].children) \in Nat BY <1>3
<1>5. /\ sc[s].parent \in 0 .. Len(sc)
      /\ \A k \in 1 .. Len(sc[s].children) : sc[s].children[k] \in 1 .. Len(sc)
  BY DEF IsTree
<1> QED BY <1>2, <1>3, <1>4, <1>5

\* The fields of a scope that Scope's constructor has just made.
LEMMA NewScopeType ==
  ASSUME NEW kind \in Kind, NEW name \in Name, NEW p \in Nat
  PROVE  /\ NewScope(kind, name, p) \in ScopeType
         /\ NewScope(kind, name, p).kind = kind
         /\ NewScope(kind, name, p).name = name
         /\ NewScope(kind, name, p).parent = p
         /\ Len(NewScope(kind, name, p).children) = 0
         /\ NewScope(kind, name, p).external = FALSE
         /\ NewScope(kind, name, p).cursor = 0
  BY DEF NewScope, ScopeType, NoSymbols, NoDecl

\* One scope of a tree is replaced.
LEMMA PutScope ==
  ASSUME NEW sc \in Seq(ScopeType), NEW s \in 1 .. Len(sc), NEW r \in ScopeType
  PROVE  /\ [sc EXCEPT ![s] = r] \in Seq(ScopeType)
         /\ Len([sc EXCEPT ![s] = r]) = Len(sc)
         /\ \A t \in 1 .. Len(sc) : [sc EXCEPT ![s] = r][t] = IF t = s THEN r ELSE sc[t]
  OBVIOUS

\* What a scope is after its list of children is replaced.
LEMMA PutChildren ==
  ASSUME NEW r \in ScopeType, NEW c \in Seq(Nat)
  PROVE  /\ [r EXCEPT !.children = c] \in ScopeType
         /\ [r EXCEPT !.children = c].kind = r.kind
         /\ [r EXCEPT !.children = c].name = r.name
         /\ [r EXCEPT !.children = c].parent = r.parent
         /\ [r EXCEPT !.children = c].children = c
         /\ [r EXCEPT !.children = c].external = r.external
         /\ [r EXCEPT !.children = c].cursor = r.cursor
  BY DEF ScopeType

\* The tree sc2 is sc with one more scope, the last of s.
WithChild(sc, s, kind, name, sc2) ==
  /\ IsTree(sc2)
  /\ Len(sc2) = Len(sc) + 1
  /\ Grown(sc, sc2)
  /\ sc2[Len(sc) + 1] = NewScope(kind, name, s)
  /\ sc2[s].children = Append(sc[s].children, Len(sc) + 1)
  /\ \A t \in 1 .. Len(sc) :
       /\ sc2[t].external = sc[t].external /\ sc2[t].cursor = sc[t].cursor
       /\ t # s => sc2[t].children = sc[t].children

\* Scope::createChild: one scope more, the last child of s.
LEMMA CreateChildMade ==
  ASSUME NEW sc, IsTree(sc), NEW s \in 1 .. Len(sc), NEW kind \in Kind, NEW name \in Name,
         NEW sc2, sc2 = CreateChild(sc, s, kind, name)
  PROVE  WithChild(sc, s, kind, name, sc2)
<1> SUFFICES /\ IsTree(sc2)
             /\ Len(sc2) = Len(sc) + 1
             /\ Grown(sc, sc2)
             /\ sc2[Len(sc) + 1] = NewScope(kind, name, s)
             /\ sc2[s].children = Append(sc[s].children, Len(sc) + 1)
             /\ \A t \in 1 .. Len(sc) :
                  /\ sc2[t].external = sc[t].external /\ sc2[t].cursor = sc[t].cursor
                  /\ t # s => sc2[t].children = sc[t].children
  BY DEF WithChild
<1> DEFINE n == Len(sc)
           longer == Append(sc[s].children, n + 1)
           r == [sc[s] EXCEPT !.children = longer]
           mid == [sc EXCEPT ![s] = r]
           new == NewScope(kind, name, s)
<1>1. n \in Nat /\ sc \in Seq(ScopeType) /\ sc[s] \in ScopeType
  BY ScopeFields DEF IsTree
<1>2. /\ longer \in Seq(Nat) /\ Len(longer) = Len(sc[s].children) + 1
      /\ \A k \in 1 .. Len(sc[s].children) : longer[k] = sc[s].children[k]
      /\ longer[Len(sc[s].children) + 1] = n + 1
  BY <1>1, ScopeFields
<1> HIDE DEF longer
<1>3. /\ r \in ScopeType /\ r.children = longer
      /\ r.kind = sc[s].kind /\ r.name = sc[s].name /\ r.parent = sc[s].parent
      /\ r.external = sc[s].external /\ r.cursor = sc[s].cursor
  BY <1>1, <1>2, PutChildren
<1>4. sc2 = Append(mid, new)
  BY DEF CreateChild, longer
<1> HIDE DEF r
<1>5. /\ mid \in Seq(ScopeType) /\ Len(mid) = n
      /\ \A t \in 1 .. n : mid[t] = IF t = s THEN r ELSE sc[t]
  BY <1>1, <1>3, PutScope
<1>6. s \in Nat BY <1>1
<1>7. new \in ScopeType /\ new.parent = s /\ Len(new.children) = 0
  <2>1. new \in ScopeType BY <1>6, NewScopeType
  <2>2. new.parent = s BY <1>6, NewScopeType
  <2>3. Len(new.children) = 0 BY DEF NewScope
  <2> QED BY <2>1, <2>2, <2>3
<1> HIDE DEF mid, new
<1>8. /\ sc2 \in Seq(ScopeType) /\ Len(sc2) = n + 1 /\ sc2[n + 1] = new
      /\ \A t \in 1 .. n : sc2[t] = mid[t]
  BY <1>4, <1>5, <1>7
<1>9. sc2[s] = r /\ \A t \in 1 .. n : t # s => sc2[t] = sc[t]
  BY <1>5, <1>8
<1>10. \A t \in 1 .. n + 1 :
         /\ sc2[t].parent \in 0 .. n + 1
         /\ \A k \in 1 .. Len(sc2[t].children) : sc2[t].children[k] \in 1 .. n + 1
  <2> TAKE t \in 1 .. n + 1
  <2>1. CASE t = n + 1
    BY <2>1, <1>1, <1>7, <1>8
  <2>2. CASE t = s
    <3>1. sc[s].parent \in 0 .. n /\ Len(sc[s].children) \in Nat BY ScopeFields
    <3>2. \A k \in 1 .. Len(sc[s].children) : sc[s].children[k] \in 1 .. n BY ScopeFields
    <3>3. sc2[t].parent = sc[s].parent /\ sc2[t].children = longer BY <2>2, <1>3, <1>9
    <3>4. ASSUME NEW k \in 1 .. Len(longer) PROVE longer[k] \in 1 .. n + 1
      <4>1. CASE k = Len(sc[s].children) + 1 BY <4>1, <1>1, <1>2
      <4>2. CASE k \in 1 .. Len(sc[s].children)
        <5>1. longer[k] = sc[s].children[k] BY <4>2, <1>2
        <5>2. sc[s].children[k] \in 1 .. n BY <4>2, <3>2
        <5> QED BY <5>1, <5>2, <1>1
      <4> QED BY <4>1, <4>2, <3>1, <1>2
    <3> QED BY <3>1, <3>3, <3>4, <1>1
  <2>3. CASE t # s /\ t # n + 1
    <3>1. t \in 1 .. n /\ sc2[t] = sc[t] BY <2>3, <1>1, <1>9
    <3>2. /\ sc[t].parent \in 0 .. n
          /\ \A k \in 1 .. Len(sc[t].children) : sc[t].children[k] \in 1 .. n
      BY <3>1, ScopeFields
    <3> QED BY <3>1, <3>2, <1>1
  <2> QED BY <2>1, <2>2, <2>3
<1>11. IsTree(sc2)
  BY <1>8, <1>10 DEF IsTree
<1>12. Grown(sc, sc2)
  <2>1. ASSUME NEW t \in 1 .. n
        PROVE  /\ sc2[t].kind = sc[t].kind /\ sc2[t].name = sc[t].name
               /\ sc2[t].parent = sc[t].parent
               /\ Len(sc[t].children) <= Len(sc2[t].children)
               /\ \A k \in 1 .. Len(sc[t].children) : sc2[t].children[k] = sc[t].children[k]
    <3>1. Len(sc[t].children) \in Nat BY ScopeFields
    <3>2. CASE t = s BY <3>1, <3>2, <1>2, <1>3, <1>9, SMTT(30)
    <3>3. CASE t # s BY <3>1, <3>3, <1>9
    <3> QED BY <3>2, <3>3
  <2>2. Len(sc) <= Len(sc2) BY <1>1, <1>8
  <2> QED BY <2>1, <2>2 DEF Grown
<1> QED
  BY <1>3, <1>8, <1>9, <1>11, <1>12 DEF longer, new

\* One scope is replaced by one with the same pointers.
LEMMA PutTree ==
  ASSUME NEW sc, IsTree(sc), NEW s \in 1 .. Len(sc), NEW r \in ScopeType,
         r.parent = sc[s].parent, r.children = sc[s].children
  PROVE  /\ IsTree([sc EXCEPT ![s] = r])
         /\ Len([sc EXCEPT ![s] = r]) = Len(sc)
         /\ \A t \in 1 .. Len(sc) : [sc EXCEPT ![s] = r][t] = IF t = s THEN r ELSE sc[t]
<1> DEFINE sc2 == [sc EXCEPT ![s] = r]
<1>1. sc \in Seq(ScopeType) BY DEF IsTree
<1>2. /\ sc2 \in Seq(ScopeType) /\ Len(sc2) = Len(sc)
      /\ \A t \in 1 .. Len(sc) : sc2[t] = IF t = s THEN r ELSE sc[t]
  BY <1>1, PutScope
<1> HIDE DEF sc2
<1>3. \A t \in 1 .. Len(sc) : sc2[t].parent = sc[t].parent /\ sc2[t].children = sc[t].children
  BY <1>2
<1>4. IsTree(sc2)
  BY <1>2, <1>3 DEF IsTree
<1> QED BY <1>2, <1>4 DEF sc2

\* Scope::addSymbol of either kind changes no pointer, no flag and no cursor.
LEMMA AddDeclTree ==
  ASSUME NEW sc, IsTree(sc), NEW s \in 1 .. Len(sc), NEW n, NEW d \in Nat,
         NEW sc2, sc2 = AddDecl(sc, s, n, d)
  PROVE  IsTree(sc2) /\ SameShape(sc, sc2)
<1> DEFINE r == [sc[s] EXCEPT !.decl = [@ EXCEPT ![n] = d]]
<1>1. sc[s] \in ScopeType BY ScopeFields
<1>2. /\ r \in ScopeType /\ r.parent = sc[s].parent /\ r.children = sc[s].children
      /\ r.kind = sc[s].kind /\ r.name = sc[s].name
      /\ r.external = sc[s].external /\ r.cursor = sc[s].cursor
  BY <1>1 DEF ScopeType
<1>3. sc2 = [sc EXCEPT ![s] = r]
  BY DEF AddDecl
<1> HIDE DEF r
<1>4. /\ IsTree(sc2) /\ Len(sc2) = Len(sc)
      /\ \A t \in 1 .. Len(sc) : sc2[t] = IF t = s THEN r ELSE sc[t]
  <2>1. /\ IsTree([sc EXCEPT ![s] = r]) /\ Len([sc EXCEPT ![s] = r]) = Len(sc)
        /\ \A t \in 1 .. Len(sc) : [sc EXCEPT ![s] = r][t] = IF t = s THEN r ELSE sc[t]
    BY <1>2, PutTree
  <2> QED BY <2>1, <1>3
<1> QED
  BY <1>2, <1>4 DEF SameShape

\* Recording a stack slot (Scope::addSymbol with an alloca) changes nothing of the shape.
LEMMA AddAllocaTree ==
  ASSUME NEW sc, IsTree(sc), NEW s \in 1 .. Len(sc), NEW n, NEW d \in Nat,
         NEW sc2, sc2 = AddAlloca(sc, s, n, d)
  PROVE  IsTree(sc2) /\ SameShape(sc, sc2)
<1>1. CASE sc[s].decl[n] = NoDecl
  <2>1. sc2 = sc BY <1>1 DEF AddAlloca
  <2> QED BY <2>1 DEF SameShape
<1>2. CASE sc[s].decl[n] # NoDecl
  <2> DEFINE r == [sc[s] EXCEPT !.alloca = [@ EXCEPT ![n] = d]]
  <2>1. sc[s] \in ScopeType BY ScopeFields
  <2>2. /\ r \in ScopeType /\ r.parent = sc[s].parent /\ r.children = sc[s].children
        /\ r.kind = sc[s].kind /\ r.name = sc[s].name
        /\ r.external = sc[s].external /\ r.cursor = sc[s].cursor
    BY <2>1 DEF ScopeType
  <2>3. sc2 = [sc EXCEPT ![s] = r]
    BY <1>2 DEF AddAlloca
  <2> HIDE DEF r
  <2>4. /\ IsTree(sc2) /\ Len(sc2) = Len(sc)
        /\ \A t \in 1 .. Len(sc) : sc2[t] = IF t = s THEN r ELSE sc[t]
    <3>1. /\ IsTree([sc EXCEPT ![s] = r]) /\ Len([sc EXCEPT ![s] = r]) = Len(sc)
          /\ \A t \in 1 .. Len(sc) : [sc EXCEPT ![s] = r][t] = IF t = s THEN r ELSE sc[t]
      BY <2>2, PutTree
    <3> QED BY <3>1, <2>3
  <2> QED
    BY <2>2, <2>4 DEF SameShape
<1> QED BY <1>1, <1>2

\* Scope::nextScope moves the cursor of one scope, and gives a scope or none.
LEMMA AdvanceTree ==
  ASSUME NEW sc, IsTree(sc), NEW s \in 1 .. Len(sc),
         NEW sc2, sc2 = Advance(sc, s), PassedTo(sc, s) \in Nat
  PROVE  /\ IsTree(sc2) /\ Len(sc2) = Len(sc)
         /\ \A t \in 1 .. Len(sc) :
              /\ sc2[t].kind = sc[t].kind /\ sc2[t].name = sc[t].name
              /\ sc2[t].parent = sc[t].parent /\ sc2[t].children = sc[t].children
              /\ sc2[t].external = sc[t].external
              /\ sc2[t].cursor = IF t = s THEN PassedTo(sc, s) ELSE sc[t].cursor
<1> DEFINE c == PassedTo(sc, s)
           r == [sc[s] EXCEPT !.cursor = c]
<1>1. sc[s] \in ScopeType BY ScopeFields
<1>2. sc2 = [sc EXCEPT ![s] = r]
  BY DEF Advance
<1> HIDE DEF c
<1>3. c \in Nat BY DEF c
<1>4. /\ r \in ScopeType /\ r.parent = sc[s].parent /\ r.children = sc[s].children
      /\ r.kind = sc[s].kind /\ r.name = sc[s].name
      /\ r.external = sc[s].external /\ r.cursor = c
  BY <1>1, <1>3 DEF ScopeType
<1> HIDE DEF r
<1>5. /\ IsTree(sc2) /\ Len(sc2) = Len(sc)
      /\ \A t \in 1 .. Len(sc) : sc2[t] = IF t = s THEN r ELSE sc[t]
  <2>1. /\ IsTree([sc EXCEPT ![s] = r]) /\ Len([sc EXCEPT ![s] = r]) = Len(sc)
        /\ \A t \in 1 .. Len(sc) : [sc EXCEPT ![s] = r][t] = IF t = s THEN r ELSE sc[t]
    BY <1>4, PutTree
  <2> QED BY <2>1, <1>2
<1> QED
  BY <1>4, <1>5 DEF c

\* Least is the least.
LEMMA LeastIsLeast ==
  ASSUME NEW S \in SUBSET Nat, S # {}
  PROVE  Least(S) \in S /\ \A j \in S : Least(S) <= j
<1> DEFINE R == OpToRel(<, Nat)
<1>1. \E k \in S : \A j \in S : ~ (<<j, k>> \in R)
  <2>1. IsWellFoundedOn(R, Nat) BY NatLessThanWellFounded
  <2> HIDE DEF R
  <2> QED BY <2>1, WFMin
<1>2. \A j, k \in S : ~ (<<j, k>> \in R) => k <= j
  BY DEF OpToRel
<1>3. \E k \in S : \A j \in S : k <= j
  BY <1>1, <1>2
<1> QED BY <1>3 DEF Least

\* Scope::nextScope stays in the tree.
LEMMA NextScopeInTree ==
  ASSUME NEW sc, IsTree(sc), NEW s \in 1 .. Len(sc)
  PROVE  /\ NextScope(sc, s) \in 0 .. Len(sc)
         /\ PassedTo(sc, s) \in Nat
<1> DEFINE W == Waiting(sc, s)
<1>1. /\ Len(sc) \in Nat /\ Len(sc[s].children) \in Nat /\ sc[s].cursor \in Nat
      /\ sc[s].parent \in 0 .. Len(sc)
      /\ \A k \in 1 .. Len(sc[s].children) : sc[s].children[k] \in 1 .. Len(sc)
  BY ScopeFields
<1>2. W \in SUBSET Nat /\ \A k \in W : k \in 1 .. Len(sc[s].children)
  BY <1>1 DEF Waiting
<1> HIDE DEF W
<1>3. W # {} => Least(W) \in 1 .. Len(sc[s].children)
  BY <1>2, LeastIsLeast
<1>4. NextScope(sc, s) \in 0 .. Len(sc)
  BY <1>1, <1>3 DEF NextScope, None, W
<1>5. PassedTo(sc, s) \in Nat
  BY <1>1, <1>3 DEF PassedTo, W
<1> QED BY <1>4, <1>5

\* The next scope is the child at k when k is ahead of the cursor, is not stepped
\* over, and everything between is.
LEMMA NextScopeIs ==
  ASSUME NEW sc, IsTree(sc), NEW s \in 1 .. Len(sc),
         NEW k \in 1 .. Len(sc[s].children), sc[s].cursor < k,
         ~Skippable(sc, sc[s].children[k]),
         \A i \in sc[s].cursor + 1 .. k - 1 : Skippable(sc, sc[s].children[i])
  PROVE  NextScope(sc, s) = sc[s].children[k] /\ PassedTo(sc, s) = k
<1> DEFINE W == Waiting(sc, s)
<1>1. Len(sc[s].children) \in Nat /\ sc[s].cursor \in Nat
  BY ScopeFields
<1>2. W \in SUBSET Nat /\ k \in W
  BY <1>1 DEF Waiting
<1>3. \A i \in W : i >= k
  <2> SUFFICES ASSUME NEW i \in W, i < k PROVE FALSE
    BY <1>1, <1>2
  <2>1. i \in sc[s].cursor + 1 .. k - 1 /\ ~Skippable(sc, sc[s].children[i])
    BY <1>1 DEF Waiting
  <2> QED BY <2>1
<1> HIDE DEF W
<1>4. Least(W) = k
  <2>1. Least(W) \in W /\ Least(W) <= k BY <1>2, LeastIsLeast
  <2>2. Least(W) \in Nat /\ Least(W) >= k BY <2>1, <1>2, <1>3
  <2> QED BY <2>1, <2>2
<1>5. ~Exhausted(sc, s) /\ W # {}
  BY <1>1, <1>2 DEF Exhausted
<1> QED
  BY <1>4, <1>5 DEF NextScope, PassedTo, W

-----------------------------------------------------------------------------
(***************************************************************************)
(* Imports.                                                                *)
(***************************************************************************)

\* c is a child of a scope that is not Global.
Inner(sc, c) ==
  \E t \in 1 .. Len(sc) : t # Global /\ \E k \in 1 .. Len(sc[t].children) : sc[t].children[k] = c

\* No scope has Global for a child.
GlobalIsRoot(sc) ==
  \A t \in 1 .. Len(sc) : \A k \in 1 .. Len(sc[t].children) : sc[t].children[k] # Global

\* What becomes external, or becomes a child of one more scope, is not a child of
\* Global; and a new child is external.
Copied(a, b) ==
  /\ Len(b) = Len(a)
  /\ Grown(a, b)
  /\ \A s \in 1 .. Len(a) :
       /\ b[s].cursor = a[s].cursor
       /\ a[s].external => b[s].external
       /\ b[s].external => a[s].external \/ Inner(a, s)
       /\ \A k \in Len(a[s].children) + 1 .. Len(b[s].children) :
            b[b[s].children[k]].external /\ Inner(a, b[s].children[k])

\* SymbolTable::getModuleScope answers nothing or a child of Global.
LEMMA ModuleNamedInTree ==
  ASSUME NEW sc, IsTree(sc), Len(sc) >= 1, NEW name
  PROVE  /\ ModuleNamed(sc, name) \in 0 .. Len(sc)
         /\ ModuleNamed(sc, name) # None =>
              \E k \in 1 .. Len(sc[Global].children) : sc[Global].children[k] = ModuleNamed(sc, name)
<1> DEFINE at == {k \in 1 .. Len(sc[Global].children) : sc[sc[Global].children[k]].name = name}
<1>1. Len(sc) \in Nat /\ Global \in 1 .. Len(sc)
  BY DEF IsTree, Global
<1>2. /\ Len(sc[Global].children) \in Nat
      /\ \A k \in 1 .. Len(sc[Global].children) : sc[Global].children[k] \in 1 .. Len(sc)
  BY <1>1, ScopeFields
<1>3. at \in SUBSET Nat /\ \A k \in at : k \in 1 .. Len(sc[Global].children)
  BY <1>2
<1>4. ModuleNamed(sc, name) = IF at = {} THEN None ELSE sc[Global].children[Least(at)]
  BY DEF ModuleNamed
<1> HIDE DEF at
<1>5. at # {} => Least(at) \in 1 .. Len(sc[Global].children)
  BY <1>3, LeastIsLeast
<1> QED
  BY <1>1, <1>2, <1>4, <1>5 DEF None

\* The tree sc2 is sc with the children of the scope src also under dst, and marked.
ModuleShared(sc, src, dst, sc2) ==
  /\ IsTree(sc2)
  /\ Len(sc2) = Len(sc)
  /\ \A s \in 1 .. Len(sc) :
       /\ sc2[s].kind = sc[s].kind /\ sc2[s].name = sc[s].name
       /\ sc2[s].parent = sc[s].parent /\ sc2[s].cursor = sc[s].cursor
       /\ sc2[s].children =
            IF s = dst THEN sc[s].children \o sc[src].children ELSE sc[s].children
       /\ sc2[s].external <=>
            sc[s].external \/ \E k \in 1 .. Len(sc[src].children) : sc[src].children[k] = s

\* SymbolTable::copySymbolFromModulesToCurrent, field by field.
LEMMA ShareModuleMade ==
  ASSUME NEW sc, IsTree(sc), NEW src \in 1 .. Len(sc), NEW dst \in 0 .. Len(sc),
         NEW sc2, sc2 = ShareModule(sc, src, dst)
  PROVE  ModuleShared(sc, src, dst, sc2)
<1> SUFFICES /\ IsTree(sc2)
             /\ Len(sc2) = Len(sc)
             /\ \A s \in 1 .. Len(sc) :
                  /\ sc2[s].kind = sc[s].kind /\ sc2[s].name = sc[s].name
                  /\ sc2[s].parent = sc[s].parent /\ sc2[s].cursor = sc[s].cursor
                  /\ sc2[s].children =
                       IF s = dst THEN sc[s].children \o sc[src].children ELSE sc[s].children
                  /\ sc2[s].external <=>
                       sc[s].external \/ \E k \in 1 .. Len(sc[src].children) : sc[src].children[k] = s
  BY DEF ModuleShared
<1> DEFINE n == Len(sc)
           both(s) == sc[s].children \o sc[src].children
           decls(s) == [m \in Symbol |-> IF sc[src].decl[m] # NoDecl
                                         THEN sc[src].decl[m] ELSE sc[s].decl[m]]
           shared == {sc[src].children[k] : k \in 1 .. Len(sc[src].children)}
           moved(s) == IF s = dst
                       THEN [sc[s] EXCEPT !.children = both(s), !.decl = decls(s)]
                       ELSE sc[s]
           r(s) == IF s \in shared THEN [moved(s) EXCEPT !.external = TRUE] ELSE moved(s)
<1>1. sc2 = [s \in 1 .. n |-> r(s)]
  BY DEF ShareModule
<1>2. n \in Nat BY DEF IsTree
<1>3. ASSUME NEW s \in 1 .. n
      PROVE  /\ both(s) \in Seq(Nat)
             /\ \A k \in 1 .. Len(both(s)) : both(s)[k] \in 1 .. n
             /\ decls(s) \in [Symbol -> Nat]
  <2>1. /\ sc[s].children \in Seq(Nat) /\ sc[src].children \in Seq(Nat)
        /\ \A k \in 1 .. Len(sc[s].children) : sc[s].children[k] \in 1 .. n
        /\ \A k \in 1 .. Len(sc[src].children) : sc[src].children[k] \in 1 .. n
    BY ScopeFields
  <2>2. sc[s].decl \in [Symbol -> Nat] /\ sc[src].decl \in [Symbol -> Nat]
    BY ScopeFields
  <2>3. decls(s) \in [Symbol -> Nat]
    BY <2>2
  <2>4. both(s) \in Seq(Nat)
    BY <2>1, ConcatProperties
  <2>5. /\ Len(both(s)) = Len(sc[s].children) + Len(sc[src].children)
        /\ \A k \in 1 .. Len(both(s)) :
             both(s)[k] = IF k <= Len(sc[s].children) THEN sc[s].children[k]
                          ELSE sc[src].children[k - Len(sc[s].children)]
    BY <2>1, ConcatProperties, ZenonT(40)
  <2> HIDE DEF both
  <2>6. ASSUME NEW k \in 1 .. Len(both(s)) PROVE both(s)[k] \in 1 .. n
    <3>0. Len(sc[s].children) \in Nat /\ Len(sc[src].children) \in Nat BY <2>1
    <3>1. CASE k <= Len(sc[s].children)
      <4>1. k \in 1 .. Len(sc[s].children) BY <3>0, <3>1
      <4> QED BY <4>1, <3>1, <2>1, <2>5
    <3>2. CASE ~(k <= Len(sc[s].children))
      <4> DEFINE p == Len(sc[s].children)
                 q == Len(sc[src].children)
                 i == k - p
      <4>1. p \in Nat /\ q \in Nat /\ k \in 1 .. p + q /\ ~(k <= p)
        BY <3>0, <3>2, <2>5
      <4>2. i \in 1 .. q
        <5> HIDE DEF p, q
        <5> QED BY <4>1
      <4>3. both(s)[k] = sc[src].children[i] BY <3>2, <2>5
      <4> HIDE DEF i
      <4> QED BY <4>2, <4>3, <2>1
    <3> QED BY <3>1, <3>2
  <2> QED BY <2>3, <2>4, <2>6
<1> HIDE DEF both, decls
<1>4. ASSUME NEW s \in 1 .. n
      PROVE  /\ moved(s) \in ScopeType
             /\ moved(s).kind = sc[s].kind /\ moved(s).name = sc[s].name
             /\ moved(s).parent = sc[s].parent /\ moved(s).cursor = sc[s].cursor
             /\ moved(s).external = sc[s].external
             /\ moved(s).children = IF s = dst THEN both(s) ELSE sc[s].children
  <2>1. sc[s] \in ScopeType BY ScopeFields
  <2> QED BY <1>3, <2>1 DEF ScopeType
<1> HIDE DEF moved
<1>5. ASSUME NEW s \in 1 .. n
      PROVE  /\ r(s) \in ScopeType
             /\ r(s).kind = sc[s].kind /\ r(s).name = sc[s].name
             /\ r(s).parent = sc[s].parent /\ r(s).cursor = sc[s].cursor
             /\ r(s).children = IF s = dst THEN both(s) ELSE sc[s].children
             /\ r(s).external = (sc[s].external \/ s \in shared)
  <2>1. moved(s).external \in BOOLEAN BY <1>4 DEF ScopeType
  <2> QED BY <1>4, <2>1 DEF ScopeType
<1> HIDE DEF r
<1>6. sc2 \in Seq(ScopeType) /\ Len(sc2) = n /\ \A s \in 1 .. n : sc2[s] = r(s)
  BY <1>1, <1>2, <1>5
<1>7. IsTree(sc2)
  <2>1. ASSUME NEW s \in 1 .. n
        PROVE  /\ sc2[s].parent \in 0 .. n
               /\ \A k \in 1 .. Len(sc2[s].children) : sc2[s].children[k] \in 1 .. n
    <3>1. sc2[s].parent = sc[s].parent
          /\ sc2[s].children = IF s = dst THEN both(s) ELSE sc[s].children
      BY <1>5, <1>6
    <3>2. sc[s].parent \in 0 .. n
          /\ \A k \in 1 .. Len(sc[s].children) : sc[s].children[k] \in 1 .. n
      BY ScopeFields
    <3> QED BY <3>1, <3>2, <1>3
  <2> QED BY <2>1, <1>6 DEF IsTree
<1>8. \A s \in 1 .. n : s \in shared <=> \E k \in 1 .. Len(sc[src].children) : sc[src].children[k] = s
  OBVIOUS
<1> HIDE DEF shared
<1>9. \A s \in 1 .. n : sc[s].external \in BOOLEAN BY ScopeFields
<1> QED
  <2>1. ASSUME NEW s \in 1 .. n
        PROVE  /\ sc2[s].kind = sc[s].kind /\ sc2[s].name = sc[s].name
               /\ sc2[s].parent = sc[s].parent /\ sc2[s].cursor = sc[s].cursor
               /\ sc2[s].children =
                    IF s = dst THEN sc[s].children \o sc[src].children ELSE sc[s].children
    BY <1>5, <1>6 DEF both
  <2>2. ASSUME NEW s \in 1 .. n
        PROVE  sc2[s].external <=>
                 sc[s].external \/ \E k \in 1 .. Len(sc[src].children) : sc[src].children[k] = s
    <3>1. sc2[s].external = (sc[s].external \/ s \in shared) BY <1>5, <1>6
    <3>2. s \in shared <=> \E k \in 1 .. Len(sc[src].children) : sc[src].children[k] = s BY <1>8
    <3> QED BY <3>1, <3>2, <1>9
  <2> QED BY <2>1, <2>2, <1>6, <1>7

\* A child of an inner scope after a copy was one before.
LEMMA CopiedInner ==
  ASSUME NEW a, IsTree(a), NEW b, Copied(a, b), NEW c, Inner(b, c)
  PROVE  Inner(a, c)
<1>1. PICK t \in 1 .. Len(b) : t # Global /\ \E k \in 1 .. Len(b[t].children) : b[t].children[k] = c
  BY DEF Inner
<1>2. PICK k \in 1 .. Len(b[t].children) : b[t].children[k] = c
  BY <1>1
<1>3. t \in 1 .. Len(a) BY DEF Copied
<1>4. Len(a[t].children) \in Nat BY <1>3, ScopeFields
<1>5. CASE k \in 1 .. Len(a[t].children)
  <2>1. b[t].children[k] = a[t].children[k] BY <1>3, <1>5 DEF Copied, Grown
  <2> QED BY <1>1, <1>2, <1>3, <1>5, <2>1 DEF Inner
<1>6. CASE k \notin 1 .. Len(a[t].children)
  <2>1. k \in Len(a[t].children) + 1 .. Len(b[t].children) BY <1>4, <1>6
  <2> QED BY <1>2, <1>3, <2>1 DEF Copied
<1> QED BY <1>5, <1>6

\* Sharing the children of modules never makes Global a child.
LEMMA CopiedRoot ==
  ASSUME NEW a, IsTree(a), NEW b, Copied(a, b), GlobalIsRoot(a)
  PROVE  GlobalIsRoot(b)
<1> SUFFICES ASSUME NEW t \in 1 .. Len(b), NEW k \in 1 .. Len(b[t].children)
             PROVE  b[t].children[k] # Global
  BY DEF GlobalIsRoot
<1>1. t \in 1 .. Len(a) BY DEF Copied
<1>2. Len(a[t].children) \in Nat BY <1>1, ScopeFields
<1>3. CASE k \in 1 .. Len(a[t].children)
  <2>1. b[t].children[k] = a[t].children[k] BY <1>1, <1>3 DEF Copied, Grown
  <2> QED BY <1>1, <1>3, <2>1 DEF GlobalIsRoot
<1>4. CASE k \notin 1 .. Len(a[t].children)
  <2>1. k \in Len(a[t].children) + 1 .. Len(b[t].children) BY <1>2, <1>4
  <2>2. Inner(a, b[t].children[k]) BY <1>1, <2>1 DEF Copied
  <2> QED BY <2>2 DEF Inner, GlobalIsRoot
<1> QED BY <1>3, <1>4

\* Two imports in a row are as good as one: Copied is transitive,
LEMMA CopiedTwice ==
  ASSUME NEW a, IsTree(a), NEW b, IsTree(b), NEW c, Copied(a, b), Copied(b, c)
  PROVE  Copied(a, c)
<1>1. Len(b) = Len(a) /\ Len(c) = Len(a) BY DEF Copied
<1>2. ASSUME NEW s \in 1 .. Len(a)
      PROVE  /\ Len(a[s].children) \in Nat /\ Len(b[s].children) \in Nat
             /\ Len(a[s].children) <= Len(b[s].children)
             /\ Len(b[s].children) <= Len(c[s].children)
  BY <1>1, ScopeFields DEF Copied, Grown
<1>3. Grown(a, c)
  <2>1. ASSUME NEW s \in 1 .. Len(a)
        PROVE  /\ c[s].kind = a[s].kind /\ c[s].name = a[s].name
               /\ c[s].parent = a[s].parent
               /\ Len(a[s].children) <= Len(c[s].children)
    <3>1. Len(c[s].children) \in Int \/ Len(c[s].children) \notin Int OBVIOUS
    <3> QED BY <1>1, <1>2 DEF Copied, Grown
  <2> QED BY <2>1, <1>1, <1>2 DEF Copied, Grown
<1>4. ASSUME NEW s \in 1 .. Len(a)
      PROVE  /\ c[s].cursor = a[s].cursor
             /\ a[s].external => c[s].external
             /\ c[s].external => a[s].external \/ Inner(a, s)
  BY <1>1, CopiedInner DEF Copied
<1>5. ASSUME NEW s \in 1 .. Len(a), NEW k \in Len(a[s].children) + 1 .. Len(c[s].children)
      PROVE  c[c[s].children[k]].external /\ Inner(a, c[s].children[k])
  <2>1. CASE k \in Len(b[s].children) + 1 .. Len(c[s].children)
    <3>1. c[c[s].children[k]].external /\ Inner(b, c[s].children[k])
      BY <1>1, <2>1 DEF Copied
    <3> QED BY <3>1, CopiedInner
  <2>2. CASE k \in Len(a[s].children) + 1 .. Len(b[s].children)
    <3>1. b[b[s].children[k]].external /\ Inner(a, b[s].children[k])
      BY <1>1, <2>2 DEF Copied
    <3>2. k \in 1 .. Len(b[s].children) BY <1>2, <2>2
    <3>3. c[s].children[k] = b[s].children[k]
      BY <1>1, <3>2 DEF Copied, Grown
    <3>4. b[s].children[k] \in 1 .. Len(b) BY <1>1, <3>2, ScopeFields
    <3>5. c[b[s].children[k]].external BY <3>1, <3>4 DEF Copied
    <3> QED BY <3>1, <3>3, <3>5
  <2> QED BY <1>2, <2>1, <2>2
<1> QED BY <1>1, <1>3, <1>4, <1>5 DEF Copied

\* and reflexive.
LEMMA CopiedSame ==
  ASSUME NEW sc, IsTree(sc)
  PROVE  Copied(sc, sc)
<1>1. \A s \in 1 .. Len(sc) : Len(sc[s].children) \in Nat BY ScopeFields
<1>2. Len(sc) \in Nat BY DEF IsTree
<1> QED BY <1>1, <1>2 DEF Copied, Grown

\* A tree of the same shape is a copy with nothing shared.
LEMMA SameIsCopied ==
  ASSUME NEW a, IsTree(a), NEW b, SameShape(a, b)
  PROVE  Copied(a, b)
<1>1. \A s \in 1 .. Len(a) : Len(a[s].children) \in Nat BY ScopeFields
<1>2. Len(a) \in Nat BY DEF IsTree
<1>3. \A s \in 1 .. Len(a) :
        \A k \in Len(a[s].children) + 1 .. Len(b[s].children) : FALSE
  BY <1>1 DEF SameShape
<1> QED BY <1>1, <1>2, <1>3 DEF Copied, Grown, SameShape

\* SymbolTable::copySymbolFromModulesToCurrent as a whole.
LEMMA CopyModuleTree ==
  ASSUME NEW sc, IsTree(sc), Len(sc) >= 1, GlobalIsRoot(sc), NEW from, NEW to,
         NEW sc2, sc2 = CopyModule(sc, from, to)
  PROVE  IsTree(sc2) /\ Copied(sc, sc2)
<1> DEFINE src == ModuleNamed(sc, from)
           dst == ModuleNamed(sc, to)
<1>1. CASE src = None
  <2>1. sc2 = sc BY <1>1 DEF CopyModule
  <2> QED BY <2>1, CopiedSame
<1>2. CASE src # None
  <2>0. Len(sc) \in Nat /\ Global \in 1 .. Len(sc) BY DEF IsTree, Global
  <2>1. sc2 = ShareModule(sc, src, dst) BY <1>2 DEF CopyModule
  <2>2. dst \in 0 .. Len(sc) /\ src \in 1 .. Len(sc)
    BY <1>2, <2>0, ModuleNamedInTree DEF None
  <2>3. src # Global
    BY <1>2, <2>0, ModuleNamedInTree DEF GlobalIsRoot
  <2> HIDE DEF src, dst
  <2> DEFINE n == Len(sc)
             p(s) == Len(sc[s].children)
  <2>4. /\ IsTree(sc2)
        /\ Len(sc2) = n
        /\ \A s \in 1 .. n :
             /\ sc2[s].kind = sc[s].kind /\ sc2[s].name = sc[s].name
             /\ sc2[s].parent = sc[s].parent /\ sc2[s].cursor = sc[s].cursor
             /\ sc2[s].children =
                  IF s = dst THEN sc[s].children \o sc[src].children ELSE sc[s].children
             /\ sc2[s].external <=>
                  sc[s].external \/ \E k \in 1 .. p(src) : sc[src].children[k] = s
    <3>1. ModuleShared(sc, src, dst, sc2)
      BY ONLY IsTree(sc), <2>1, <2>2, ShareModuleMade
    <3> QED BY ONLY <3>1 DEF ModuleShared
  <2>5. \A k \in 1 .. p(src) : Inner(sc, sc[src].children[k])
    BY <2>2, <2>3 DEF Inner
  <2>6. \A s \in 1 .. n : sc[s].children \in Seq(Nat) /\ p(s) \in Nat
    BY ScopeFields
  <2>7. ASSUME NEW s \in 1 .. n
        PROVE  /\ p(s) <= Len(sc2[s].children)
               /\ \A k \in 1 .. p(s) : sc2[s].children[k] = sc[s].children[k]
               /\ \A k \in p(s) + 1 .. Len(sc2[s].children) :
                    \E i \in 1 .. p(src) : sc2[s].children[k] = sc[src].children[i]
    <3>1. CASE s # dst
      <4>1. sc2[s].children = sc[s].children BY <2>4, <3>1
      <4> QED BY <4>1, <2>6
    <3>2. CASE s = dst
      <4> DEFINE both == sc[s].children \o sc[src].children
      <4>1. sc2[s].children = both BY <2>4, <3>2
      <4>2. /\ Len(both) = p(s) + p(src)
            /\ \A k \in 1 .. p(s) + p(src) :
                 both[k] = IF k <= p(s) THEN sc[s].children[k] ELSE sc[src].children[k - p(s)]
        BY <2>2, <2>6, ConcatProperties, ZenonT(40)
      <4>3. p(s) \in Nat /\ p(src) \in Nat BY <2>2, <2>6
      <4> HIDE DEF both, p
      <4>4. \A k \in 1 .. p(s) : both[k] = sc[s].children[k] BY <4>2, <4>3
      <4>5. ASSUME NEW k \in p(s) + 1 .. p(s) + p(src)
            PROVE  \E i \in 1 .. p(src) : both[k] = sc[src].children[i]
        <5>1. k - p(s) \in 1 .. p(src) BY <4>3
        <5>2. k \in 1 .. p(s) + p(src) /\ ~(k <= p(s)) BY <4>3
        <5>3. both[k] = sc[src].children[k - p(s)] BY <4>2, <5>2
        <5> QED BY <5>1, <5>3
      <4> QED BY <4>1, <4>2, <4>3, <4>4, <4>5
    <3> QED BY <3>1, <3>2
  <2>8. ASSUME NEW s \in 1 .. n, NEW k \in p(s) + 1 .. Len(sc2[s].children)
        PROVE  sc2[sc2[s].children[k]].external /\ Inner(sc, sc2[s].children[k])
    <3>1. PICK i \in 1 .. p(src) : sc2[s].children[k] = sc[src].children[i] BY <2>7
    <3>2. sc[src].children[i] \in 1 .. n BY <2>2, ScopeFields
    <3>3. sc2[sc[src].children[i]].external BY <2>4, <3>2
    <3> QED BY <3>1, <3>3, <2>5
  <2>9. ASSUME NEW s \in 1 .. n
        PROVE  /\ sc[s].external => sc2[s].external
               /\ sc2[s].external => sc[s].external \/ Inner(sc, s)
    BY <2>4, <2>5
  <2>10. Grown(sc, sc2)
    <3>1. ASSUME NEW s \in 1 .. n
          PROVE  sc2[s].kind = sc[s].kind /\ sc2[s].name = sc[s].name /\ sc2[s].parent = sc[s].parent
      BY <2>4
    <3>2. Len(sc) <= Len(sc2) BY <2>0, <2>4
    <3> QED BY <3>1, <3>2, <2>7 DEF Grown
  <2> QED BY <2>4, <2>8, <2>9, <2>10 DEF Copied
<1> QED BY <1>1, <1>2

-----------------------------------------------------------------------------
(***************************************************************************)
(* The builtins of a module.                                               *)
(***************************************************************************)

\* A concatenation, half by half.
LEMMA Concat ==
  ASSUME NEW S, NEW a \in Seq(S), NEW b \in Seq(S)
  PROVE  /\ a \o b \in Seq(S) /\ Len(a \o b) = Len(a) + Len(b)
         /\ \A k \in 1 .. Len(a) : (a \o b)[k] = a[k]
         /\ \A k \in Len(a) + 1 .. Len(a) + Len(b) :
              k - Len(a) \in 1 .. Len(b) /\ (a \o b)[k] = b[k - Len(a)]
<1>1. /\ a \o b \in Seq(S) /\ Len(a \o b) = Len(a) + Len(b)
      /\ \A k \in 1 .. Len(a) + Len(b) :
           (a \o b)[k] = IF k <= Len(a) THEN a[k] ELSE b[k - Len(a)]
  BY ConcatProperties
<1> DEFINE c == a \o b
<1> HIDE DEF c
<1>2. /\ c \in Seq(S) /\ Len(c) = Len(a) + Len(b)
      /\ \A k \in 1 .. Len(a) + Len(b) : c[k] = IF k <= Len(a) THEN a[k] ELSE b[k - Len(a)]
  BY <1>1 DEF c
<1>3. Len(a) \in Nat /\ Len(b) \in Nat OBVIOUS
<1>4. \A k \in 1 .. Len(a) : c[k] = a[k] BY <1>2, <1>3
<1>5. \A k \in Len(a) + 1 .. Len(a) + Len(b) :
        k - Len(a) \in 1 .. Len(b) /\ c[k] = b[k - Len(a)]
  BY <1>2, <1>3
<1> QED BY <1>2, <1>4, <1>5 DEF c

\* The eight scopes that SymbolTable::initBuiltinFunctions makes.
LEMMA BuiltinScopes ==
  ASSUME NEW n \in Nat, NEW s \in 1 .. n, NEW i \in 1 .. 8,
         NEW r, r = IF i % 2 = 1
                    THEN [NewScope("module_builtin", BuiltinModule[(i + 1) \div 2], s)
                            EXCEPT !.children = <<n + i + 1>>]
                    ELSE NewScope("class_builtin", BuiltinModule[i \div 2], n + i - 1)
  PROVE  /\ r \in ScopeType
         /\ r.kind \in BuiltinKind /\ r.parent \in 0 .. n + 8
         /\ ~r.external /\ r.cursor = 0
         /\ \A k \in 1 .. Len(r.children) : r.children[k] \in n + 1 .. n + 8
<1>1. s \in Nat OBVIOUS
<1>2. "module_builtin" \in Kind /\ "class_builtin" \in Kind BY DEF Kind, BuiltinKind
<1>3. \A k \in 1 .. 4 : BuiltinModule[k] \in Name BY DEF Name
<1>4. CASE i % 2 = 1
  <2> DEFINE name == BuiltinModule[(i + 1) \div 2]
             q == NewScope("module_builtin", name, s)
             c == <<n + i + 1>>
  <2>1. (i + 1) \div 2 \in 1 .. 4 OBVIOUS
  <2>2. name \in Name BY <1>3, <2>1
  <2> HIDE DEF name
  <2>3. q \in ScopeType BY <1>1, <1>2, <2>2, NewScopeType
  <2>4. q.kind = "module_builtin" /\ q.parent = s /\ q.external = FALSE /\ q.cursor = 0
    BY DEF NewScope
  <2>5. i + 1 \in 1 .. 8 BY <1>4
  <2>6. c \in Seq(Nat) /\ Len(c) = 1 /\ c[1] \in n + 1 .. n + 8
    BY <2>5
  <2>7. r = [q EXCEPT !.children = c] BY <1>4 DEF name
  <2> HIDE DEF q, c
  <2> DEFINE v == [q EXCEPT !.children = c]
  <2>8. /\ v \in ScopeType /\ v.kind = q.kind /\ v.parent = q.parent
        /\ v.children = c /\ v.external = q.external /\ v.cursor = q.cursor
    BY <2>3, <2>6, PutChildren
  <2>9. r = v BY <2>7
  <2> HIDE DEF v
  <2>10. /\ v.kind \in BuiltinKind /\ v.parent \in 0 .. n + 8 /\ ~v.external /\ v.cursor = 0
         /\ \A k \in 1 .. Len(v.children) : v.children[k] \in n + 1 .. n + 8
    <3>1. v.kind \in BuiltinKind BY <2>4, <2>8 DEF BuiltinKind
    <3>2. v.parent \in 0 .. n + 8 BY <2>4, <2>8
    <3>3. ~v.external /\ v.cursor = 0 BY <2>4, <2>8
    <3>4. \A k \in 1 .. Len(c) : c[k] \in n + 1 .. n + 8 BY <2>6
    <3>5. v.children = c BY <2>8
    <3> QED BY <3>1, <3>2, <3>3, <3>4, <3>5
  <2> QED BY <2>8, <2>9, <2>10
<1>5. CASE i % 2 # 1
  <2> DEFINE name == BuiltinModule[i \div 2]
             q == NewScope("class_builtin", name, n + i - 1)
  <2>1. i \div 2 \in 1 .. 4 BY <1>5
  <2>2. name \in Name BY <1>3, <2>1
  <2>3. r = q BY <1>5
  <2> HIDE DEF name
  <2>4. n + i - 1 \in 0 .. n + 8 OBVIOUS
  <2>5. q \in ScopeType
    <3>1. n + i - 1 \in Nat OBVIOUS
    <3> QED BY <1>2, <2>2, <3>1, NewScopeType
  <2>6. q.kind \in BuiltinKind /\ q.parent \in 0 .. n + 8 /\ ~q.external /\ q.cursor = 0
    BY <2>4 DEF NewScope, BuiltinKind
  <2>7. Len(q.children) = 0 BY DEF NewScope
  <2>8. \A k \in 1 .. Len(q.children) : q.children[k] \in n + 1 .. n + 8 BY <2>7
  <2> HIDE DEF q
  <2> QED BY <2>3, <2>5, <2>6, <2>8
<1> QED BY <1>4, <1>5

\* The tree sc2 is sc with eight new scopes, the built-in modules, under the scope s.
WithBuiltins(sc, s, sc2) ==
  /\ IsTree(sc2)
  /\ Len(sc2) = Len(sc) + 8
  /\ Grown(sc, sc2)
  /\ \A t \in 1 .. Len(sc) :
       /\ sc2[t].external = sc[t].external /\ sc2[t].cursor = sc[t].cursor
       /\ t # s => sc2[t].children = sc[t].children
  /\ \A k \in Len(sc[s].children) + 1 .. Len(sc2[s].children) :
       sc2[s].children[k] \in Len(sc) + 1 .. Len(sc2)
  /\ \A t \in Len(sc) + 1 .. Len(sc2) :
       /\ sc2[t].kind \in BuiltinKind /\ ~sc2[t].external /\ sc2[t].cursor = 0
       /\ \A k \in 1 .. Len(sc2[t].children) :
            sc2[t].children[k] \in Len(sc) + 1 .. Len(sc2)

\* SymbolTable::initBuiltinFunctions adds eight scopes and touches the children of the
\* current scope only.
LEMMA InitBuiltinsMade ==
  ASSUME NEW sc, IsTree(sc), NEW s \in 1 .. Len(sc),
         NEW sc2, sc2 = InitBuiltins(sc, s)
  PROVE  WithBuiltins(sc, s, sc2)
<1> SUFFICES /\ IsTree(sc2)
             /\ Len(sc2) = Len(sc) + 8
             /\ Grown(sc, sc2)
             /\ \A t \in 1 .. Len(sc) :
                  /\ sc2[t].external = sc[t].external /\ sc2[t].cursor = sc[t].cursor
                  /\ t # s => sc2[t].children = sc[t].children
             /\ \A k \in Len(sc[s].children) + 1 .. Len(sc2[s].children) :
                  sc2[s].children[k] \in Len(sc) + 1 .. Len(sc2)
             /\ \A t \in Len(sc) + 1 .. Len(sc2) :
                  /\ sc2[t].kind \in BuiltinKind /\ ~sc2[t].external /\ sc2[t].cursor = 0
                  /\ \A k \in 1 .. Len(sc2[t].children) :
                       sc2[t].children[k] \in Len(sc) + 1 .. Len(sc2)
  BY DEF WithBuiltins
<1> DEFINE n == Len(sc)
           p == Len(sc[s].children)
           four == [k \in 1 .. 4 |-> n + 2 * k - 1]
           longer == sc[s].children \o four
           mid == [sc EXCEPT ![s].children = longer]
           e(i) == IF i % 2 = 1
                   THEN [NewScope("module_builtin", BuiltinModule[(i + 1) \div 2], s)
                           EXCEPT !.children = <<n + i + 1>>]
                   ELSE NewScope("class_builtin", BuiltinModule[i \div 2], n + i - 1)
           eight == [i \in 1 .. 8 |-> e(i)]
<1>0. n \in Nat /\ sc \in Seq(ScopeType) /\ sc[s] \in ScopeType /\ p \in Nat
      /\ sc[s].children \in Seq(Nat)
  BY ScopeFields DEF IsTree
<1>1. sc2 = mid \o eight
  BY DEF InitBuiltins
<1>2. four \in Seq(Nat) /\ Len(four) = 4 /\ \A k \in 1 .. 4 : four[k] \in n + 1 .. n + 8
  <2>1. \A k \in 1 .. 4 : n + 2 * k - 1 \in Nat /\ n + 2 * k - 1 \in n + 1 .. n + 8 BY <1>0
  <2> QED BY <2>1
<1> HIDE DEF four
<1>3. /\ longer \in Seq(Nat) /\ Len(longer) = p + 4
      /\ \A k \in 1 .. p : longer[k] = sc[s].children[k]
      /\ \A k \in p + 1 .. p + 4 : longer[k] \in n + 1 .. n + 8
  <2>1. /\ longer \in Seq(Nat) /\ Len(longer) = p + 4
        /\ \A k \in 1 .. p : longer[k] = sc[s].children[k]
        /\ \A k \in p + 1 .. p + 4 : k - p \in 1 .. 4 /\ longer[k] = four[k - p]
    <3> DEFINE a == sc[s].children
               q == 4
    <3>1. a \in Seq(Nat) /\ p \in Nat /\ Len(a) = p BY <1>0
    <3>2. four \in Seq(Nat) /\ q \in Nat /\ Len(four) = q BY <1>2
    <3>3. longer = a \o four OBVIOUS
    <3> HIDE DEF a, p, q, longer
    <3>4. /\ a \o four \in Seq(Nat) /\ Len(a \o four) = p + q
          /\ \A k \in 1 .. p : (a \o four)[k] = a[k]
          /\ \A k \in p + 1 .. p + q : k - p \in 1 .. q /\ (a \o four)[k] = four[k - p]
      BY ONLY <3>1, <3>2, Concat, ZenonT(40)
    <3> QED BY <3>3, <3>4 DEF a, q
  <2> HIDE DEF longer, p
  <2> QED BY <2>1, <1>2
<1> HIDE DEF longer
<1> DEFINE r == [sc[s] EXCEPT !.children = longer]
<1>4. /\ r \in ScopeType /\ r.children = longer
      /\ r.kind = sc[s].kind /\ r.name = sc[s].name /\ r.parent = sc[s].parent
      /\ r.external = sc[s].external /\ r.cursor = sc[s].cursor
  BY <1>0, <1>3, PutChildren
<1>5. mid = [sc EXCEPT ![s] = r] OBVIOUS
<1> HIDE DEF r
<1>6. /\ mid \in Seq(ScopeType) /\ Len(mid) = n
      /\ \A t \in 1 .. n : mid[t] = IF t = s THEN r ELSE sc[t]
  <2> HIDE DEF mid
  <2> DEFINE m == [sc EXCEPT ![s] = r]
  <2>1. /\ m \in Seq(ScopeType) /\ Len(m) = n
        /\ \A t \in 1 .. n : m[t] = IF t = s THEN r ELSE sc[t]
    BY <1>0, <1>4, PutScope
  <2> HIDE DEF m
  <2>2. mid = m BY <1>5 DEF m
  <2> QED BY <2>1, <2>2
<1> HIDE DEF mid
<1>7. \A i \in 1 .. 8 :
        /\ e(i) \in ScopeType
        /\ e(i).kind \in BuiltinKind /\ e(i).parent \in 0 .. n + 8
        /\ ~e(i).external /\ e(i).cursor = 0
        /\ \A k \in 1 .. Len(e(i).children) : e(i).children[k] \in n + 1 .. n + 8
  <2> TAKE i \in 1 .. 8
  <2>1. e(i) = IF i % 2 = 1
               THEN [NewScope("module_builtin", BuiltinModule[(i + 1) \div 2], s)
                       EXCEPT !.children = <<n + i + 1>>]
               ELSE NewScope("class_builtin", BuiltinModule[i \div 2], n + i - 1)
    OBVIOUS
  <2> HIDE DEF e
  <2> QED BY <1>0, <2>1, BuiltinScopes
<1> HIDE DEF e
<1>8. eight \in Seq(ScopeType) /\ Len(eight) = 8 /\ \A i \in 1 .. 8 : eight[i] = e(i)
  BY <1>7
<1> HIDE DEF eight
<1>9. /\ sc2 \in Seq(ScopeType) /\ Len(sc2) = n + 8
      /\ \A t \in 1 .. n : sc2[t] = mid[t]
      /\ \A t \in n + 1 .. n + 8 : \E i \in 1 .. 8 : sc2[t] = e(i)
  <2> DEFINE both == mid \o eight
  <2>1. /\ both \in Seq(ScopeType) /\ Len(both) = n + 8
        /\ \A t \in 1 .. n : both[t] = mid[t]
        /\ \A t \in n + 1 .. n + 8 : t - n \in 1 .. 8 /\ both[t] = eight[t - n]
    <3>1. Len(mid) = n /\ mid \in Seq(ScopeType) BY <1>6
    <3>2. Len(eight) = 8 /\ eight \in Seq(ScopeType) BY <1>8
    <3> DEFINE q == 8
    <3>3. n \in Nat /\ q \in Nat /\ Len(eight) = q BY <1>0, <3>2
    <3> HIDE DEF n, q
    <3>4. /\ mid \o eight \in Seq(ScopeType) /\ Len(mid \o eight) = n + q
          /\ \A t \in 1 .. n : (mid \o eight)[t] = mid[t]
          /\ \A t \in n + 1 .. n + q : t - n \in 1 .. q /\ (mid \o eight)[t] = eight[t - n]
      <4> DEFINE ab == mid \o eight
      <4>1. /\ ab \in Seq(ScopeType) /\ Len(ab) = Len(mid) + Len(eight)
            /\ \A t \in 1 .. Len(mid) : ab[t] = mid[t]
            /\ \A t \in Len(mid) + 1 .. Len(mid) + Len(eight) :
                 t - Len(mid) \in 1 .. Len(eight) /\ ab[t] = eight[t - Len(mid)]
        BY ONLY <3>1, <3>2, Concat
      <4> HIDE DEF ab
      <4>2. Len(mid) = n /\ Len(eight) = q BY <3>1, <3>3
      <4> QED BY ONLY <4>1, <4>2, <3>3 DEF ab
    <3> QED BY <3>4 DEF q
  <2>2. sc2 = both BY <1>1
  <2> HIDE DEF both, n
  <2>3. \A t \in n + 1 .. n + 8 : \E i \in 1 .. 8 : both[t] = e(i)
    BY <2>1, <1>8
  <2> QED BY <2>1, <2>2, <2>3
<1>10. \A t \in 1 .. n : sc2[t] = IF t = s THEN r ELSE sc[t]
  BY <1>6, <1>9
<1>11. \A t \in n + 1 .. n + 8 :
         /\ sc2[t].kind \in BuiltinKind /\ sc2[t].parent \in 0 .. n + 8
         /\ ~sc2[t].external /\ sc2[t].cursor = 0
         /\ \A k \in 1 .. Len(sc2[t].children) : sc2[t].children[k] \in n + 1 .. n + 8
  BY <1>7, <1>9
<1>12. ASSUME NEW t \in 1 .. n
       PROVE  /\ sc2[t].kind = sc[t].kind /\ sc2[t].name = sc[t].name
              /\ sc2[t].parent = sc[t].parent
              /\ sc2[t].external = sc[t].external /\ sc2[t].cursor = sc[t].cursor
              /\ sc2[t].children = IF t = s THEN longer ELSE sc[t].children
  BY <1>4, <1>10
<1>13. ASSUME NEW t \in 1 .. n + 8
       PROVE  /\ sc2[t].parent \in 0 .. n + 8
              /\ \A k \in 1 .. Len(sc2[t].children) : sc2[t].children[k] \in 1 .. n + 8
  <2>1. CASE t \in n + 1 .. n + 8 BY <1>0, <1>11, <2>1
  <2>2. CASE t \in 1 .. n
    <3>1. /\ sc[t].parent \in 0 .. n
          /\ \A k \in 1 .. Len(sc[t].children) : sc[t].children[k] \in 1 .. n
      BY <2>2, ScopeFields
    <3>2. sc2[t].parent \in 0 .. n + 8 BY <2>2, <3>1, <1>0, <1>12
    <3>3. ASSUME NEW k \in 1 .. Len(longer), t = s PROVE longer[k] \in 1 .. n + 8
      <4>1. CASE k \in 1 .. p
        <5>1. longer[k] = sc[s].children[k] BY <4>1, <1>3
        <5>2. sc[s].children[k] \in 1 .. n BY <4>1, <3>1, <3>3
        <5> QED BY <5>1, <5>2, <1>0
      <4>2. CASE k \in p + 1 .. p + 4 BY <4>2, <1>0, <1>3, SMTT(30)
      <4>3. k \in 1 .. p \/ k \in p + 1 .. p + 4
        <5> HIDE DEF p
        <5> QED BY <1>0, <1>3
      <4> QED BY <4>1, <4>2, <4>3
    <3>4. t # s => \A k \in 1 .. Len(sc2[t].children) : sc2[t].children[k] \in 1 .. n + 8
      BY <2>2, <3>1, <1>0, <1>12
    <3>5. t = s => sc2[t].children = longer BY <2>2, <1>12
    <3> QED BY <3>2, <3>3, <3>4, <3>5
  <2> QED BY <2>1, <2>2, <1>0
<1>14. IsTree(sc2)
  BY <1>9, <1>13 DEF IsTree
<1>15. Grown(sc, sc2)
  <2>1. ASSUME NEW t \in 1 .. n
        PROVE  /\ Len(sc[t].children) <= Len(sc2[t].children)
               /\ \A k \in 1 .. Len(sc[t].children) : sc2[t].children[k] = sc[t].children[k]
    <3>1. Len(sc[t].children) \in Nat BY ScopeFields
    <3>2. CASE t = s BY <3>2, <1>0, <1>3, <1>12, SMTT(30)
    <3>3. CASE t # s BY <3>1, <3>3, <1>12
    <3> QED BY <3>2, <3>3
  <2>2. Len(sc) <= Len(sc2) BY <1>0, <1>9
  <2> QED BY <2>1, <2>2, <1>12 DEF Grown
<1>16. \A t \in 1 .. n :
         /\ sc2[t].external = sc[t].external /\ sc2[t].cursor = sc[t].cursor
         /\ t # s => sc2[t].children = sc[t].children
  BY <1>12
<1>17. \A k \in p + 1 .. Len(sc2[s].children) : sc2[s].children[k] \in n + 1 .. n + 8
  <2>1. sc2[s].children = longer BY <1>12
  <2> QED BY <2>1, <1>3
<1> QED BY <1>9, <1>11, <1>14, <1>15, <1>16, <1>17

LEMMA InitBuiltinsTree ==
  ASSUME NEW sc, IsTree(sc), NEW s \in 1 .. Len(sc),
         NEW sc2, sc2 = InitBuiltins(sc, s)
  PROVE  /\ IsTree(sc2)
         /\ Len(sc2) = Len(sc) + 8
         /\ Grown(sc, sc2)
         /\ \A t \in 1 .. Len(sc) :
              /\ sc2[t].external = sc[t].external /\ sc2[t].cursor = sc[t].cursor
              /\ t # s => sc2[t].children = sc[t].children
         /\ \A k \in Len(sc[s].children) + 1 .. Len(sc2[s].children) :
              sc2[s].children[k] \in Len(sc) + 1 .. Len(sc2)
         /\ \A t \in Len(sc) + 1 .. Len(sc2) :
              /\ sc2[t].kind \in BuiltinKind /\ ~sc2[t].external /\ sc2[t].cursor = 0
              /\ \A k \in 1 .. Len(sc2[t].children) :
                   sc2[t].children[k] \in Len(sc) + 1 .. Len(sc2)
<1>1. WithBuiltins(sc, s, sc2)
  BY InitBuiltinsMade
<1> QED BY ONLY <1>1 DEF WithBuiltins

-----------------------------------------------------------------------------
(***************************************************************************)
(* One new scope of the program.                                           *)
(***************************************************************************)

\* b is a with one more scope, c, at place ord among the children of s, and maybe
\* with builtins.
Made(a, b, s, c, ord) ==
  /\ Grown(a, b)
  /\ c \in Len(a) + 1 .. Len(b) /\ b[c].parent = s
  /\ ord \in Len(a[s].children) + 1 .. Len(b[s].children) /\ b[s].children[ord] = c
  /\ \A t \in 1 .. Len(a) : b[t].external = a[t].external /\ b[t].cursor = a[t].cursor
  /\ \A t \in Len(a) + 1 .. Len(b) : ~b[t].external /\ b[t].cursor = 0
  /\ \A t \in 1 .. Len(b) : \A k \in 1 .. Len(b[t].children) :
       \/ t \in 1 .. Len(a) /\ k \in 1 .. Len(a[t].children)
       \/ t = s /\ k = ord
       \/ b[t].children[k] > Len(a) /\ b[b[t].children[k]].kind \in BuiltinKind

\* Scope::createChild makes a scope, the last child of its parent.
LEMMA CreateChildMakes ==
  ASSUME NEW sc, IsTree(sc), NEW s \in 1 .. Len(sc), NEW kind \in Kind, NEW name \in Name,
         NEW sc2, sc2 = CreateChild(sc, s, kind, name)
  PROVE  /\ IsTree(sc2)
         /\ Made(sc, sc2, s, Len(sc) + 1, Len(sc[s].children) + 1)
         /\ sc2[Len(sc) + 1].kind = kind /\ sc2[Len(sc) + 1].name = name
<1> DEFINE n == Len(sc)
           p == Len(sc[s].children)
<1>1. /\ IsTree(sc2)
      /\ Len(sc2) = n + 1
      /\ Grown(sc, sc2)
      /\ sc2[n + 1] = NewScope(kind, name, s)
      /\ sc2[s].children = Append(sc[s].children, n + 1)
      /\ \A t \in 1 .. n :
           /\ sc2[t].external = sc[t].external /\ sc2[t].cursor = sc[t].cursor
           /\ t # s => sc2[t].children = sc[t].children
  <2>1. WithChild(sc, s, kind, name, sc2)
    BY ONLY IsTree(sc), s \in 1 .. Len(sc), kind \in Kind, name \in Name,
            sc2 = CreateChild(sc, s, kind, name), CreateChildMade
  <2> QED BY ONLY <2>1 DEF WithChild
<1>2. n \in Nat /\ p \in Nat /\ sc[s].children \in Seq(Nat) /\ s \in Nat
  BY ScopeFields
<1>3. /\ sc2[n + 1].kind = kind /\ sc2[n + 1].name = name /\ sc2[n + 1].parent = s
      /\ ~sc2[n + 1].external /\ sc2[n + 1].cursor = 0
  BY <1>1 DEF NewScope
<1>4. Len(sc2[n + 1].children) = 0
  BY <1>1 DEF NewScope
<1>5. /\ Len(sc2[s].children) = p + 1 /\ sc2[s].children[p + 1] = n + 1
      /\ \A k \in 1 .. Len(sc2[s].children) : k \in 1 .. p \/ k = p + 1
  <2> DEFINE c == Append(sc[s].children, n + 1)
  <2>1. Len(c) = p + 1 /\ c[p + 1] = n + 1 BY <1>2
  <2>2. sc2[s].children = c BY <1>1
  <2> HIDE DEF c, p
  <2> QED BY <1>2, <2>1, <2>2
<1>6. ASSUME NEW t \in 1 .. n + 1, NEW k \in 1 .. Len(sc2[t].children)
      PROVE  t \in 1 .. n /\ (k \in 1 .. Len(sc[t].children) \/ (t = s /\ k = p + 1))
  <2>1. t # n + 1 BY <1>4
  <2>2. t \in 1 .. n BY <1>2, <2>1
  <2>3. CASE t = s BY <1>5, <2>2, <2>3
  <2>4. CASE t # s BY <1>1, <2>2, <2>4
  <2> QED BY <2>2, <2>3, <2>4
<1>7. n + 1 \in n + 1 .. Len(sc2) /\ p + 1 \in p + 1 .. Len(sc2[s].children)
  BY <1>1, <1>2, <1>5
<1>8. \A t \in n + 1 .. Len(sc2) : ~sc2[t].external /\ sc2[t].cursor = 0
  BY <1>1, <1>2, <1>3
<1> QED
  BY <1>1, <1>3, <1>5, <1>6, <1>7, <1>8 DEF Made

\* The scope may then get symbols.
LEMMA MadeThenSame ==
  ASSUME NEW a, NEW b, NEW c, IsTree(b), NEW s, NEW x, NEW ord, s \in 1 .. Len(a),
         Made(a, b, s, x, ord), SameShape(b, c), Len(a) \in Nat
  PROVE  Made(a, c, s, x, ord)
<1>1. Len(c) = Len(b) /\ Len(a) <= Len(b) /\ Len(b) \in Nat BY DEF Made, Grown, SameShape, IsTree
<1>2. \A t \in 1 .. Len(a) : t \in 1 .. Len(b) BY <1>1
<1>3. \A t \in Len(a) + 1 .. Len(b) : t \in 1 .. Len(b) BY <1>1
<1>4. \A t \in 1 .. Len(b) :
        /\ c[t].kind = b[t].kind /\ c[t].name = b[t].name /\ c[t].parent = b[t].parent
        /\ c[t].children = b[t].children
        /\ c[t].external = b[t].external /\ c[t].cursor = b[t].cursor
  BY DEF SameShape
<1>5. Grown(a, c)
  <2>1. \A t \in 1 .. Len(a) :
          /\ b[t].kind = a[t].kind /\ b[t].name = a[t].name /\ b[t].parent = a[t].parent
          /\ Len(a[t].children) <= Len(b[t].children)
          /\ \A k \in 1 .. Len(a[t].children) : b[t].children[k] = a[t].children[k]
    BY DEF Made, Grown
  <2>2. ASSUME NEW t \in 1 .. Len(a)
        PROVE  /\ c[t].kind = a[t].kind /\ c[t].name = a[t].name /\ c[t].parent = a[t].parent
               /\ Len(a[t].children) <= Len(c[t].children)
               /\ \A k \in 1 .. Len(a[t].children) : c[t].children[k] = a[t].children[k]
    <3>1. t \in 1 .. Len(b) BY <1>2
    <3> QED BY <3>1, <2>1, <1>4
  <2> QED BY <2>2, <1>1 DEF Grown
<1>6. x \in Len(a) + 1 .. Len(c) /\ c[x].parent = s
  BY <1>1, <1>3, <1>4 DEF Made
<1>7. ord \in Len(a[s].children) + 1 .. Len(c[s].children) /\ c[s].children[ord] = x
  BY <1>2, <1>4 DEF Made
<1>8. \A t \in 1 .. Len(a) : c[t].external = a[t].external /\ c[t].cursor = a[t].cursor
  BY <1>2, <1>4 DEF Made
<1>9. \A t \in Len(a) + 1 .. Len(c) : ~c[t].external /\ c[t].cursor = 0
  BY <1>1, <1>3, <1>4 DEF Made
<1>10. ASSUME NEW t \in 1 .. Len(c), NEW k \in 1 .. Len(c[t].children)
       PROVE  \/ t \in 1 .. Len(a) /\ k \in 1 .. Len(a[t].children)
              \/ t = s /\ k = ord
              \/ c[t].children[k] > Len(a) /\ c[c[t].children[k]].kind \in BuiltinKind
  <2>1. t \in 1 .. Len(b) /\ c[t].children = b[t].children BY <1>1, <1>4
  <2>2. b[t].children[k] \in 1 .. Len(b) BY <2>1, ScopeFields
  <2> QED BY <2>1, <2>2, <1>4, ZenonT(40) DEF Made
<1> QED BY <1>5, <1>6, <1>7, <1>8, <1>9, <1>10 DEF Made

\* The builtins may come before it.
LEMMA BuiltinsThenMade ==
  ASSUME NEW a, IsTree(a), NEW s \in 1 .. Len(a), NEW b, b = InitBuiltins(a, s),
         NEW c, NEW x, NEW ord, Made(b, c, s, x, ord), IsTree(c)
  PROVE  Made(a, c, s, x, ord)
<1>1. /\ IsTree(b)
      /\ Len(b) = Len(a) + 8
      /\ Grown(a, b)
      /\ \A t \in 1 .. Len(a) :
           /\ b[t].external = a[t].external /\ b[t].cursor = a[t].cursor
           /\ t # s => b[t].children = a[t].children
      /\ \A k \in Len(a[s].children) + 1 .. Len(b[s].children) :
           b[s].children[k] \in Len(a) + 1 .. Len(b)
      /\ \A t \in Len(a) + 1 .. Len(b) :
           /\ b[t].kind \in BuiltinKind /\ ~b[t].external /\ b[t].cursor = 0
           /\ \A k \in 1 .. Len(b[t].children) : b[t].children[k] \in Len(a) + 1 .. Len(b)
  <2>1. WithBuiltins(a, s, b)
    BY ONLY IsTree(a), s \in 1 .. Len(a), b = InitBuiltins(a, s), InitBuiltinsMade
  <2> QED BY ONLY <2>1 DEF WithBuiltins
<1>2. Len(a) \in Nat /\ Len(b) \in Nat /\ Len(c) \in Nat /\ Len(b) <= Len(c)
  BY <1>1 DEF IsTree, Made, Grown
<1>3. \A t \in 1 .. Len(a) : t \in 1 .. Len(b) BY <1>1, <1>2
<1>4. \A t \in 1 .. Len(b) : t \in 1 .. Len(c) BY <1>2
<1>5. \A t \in 1 .. Len(a) :
        /\ Len(a[t].children) \in Nat /\ Len(b[t].children) \in Nat /\ Len(c[t].children) \in Nat
        /\ Len(a[t].children) <= Len(b[t].children) /\ Len(b[t].children) <= Len(c[t].children)
  BY <1>1, <1>3, <1>4, ScopeFields DEF Made, Grown
<1>6. Grown(a, c)
  <2>1. ASSUME NEW t \in 1 .. Len(a)
        PROVE  c[t].kind = a[t].kind /\ c[t].name = a[t].name /\ c[t].parent = a[t].parent
    <3>1. b[t].kind = a[t].kind /\ b[t].name = a[t].name /\ b[t].parent = a[t].parent
      BY <1>1 DEF Grown
    <3>2. t \in 1 .. Len(b) BY <1>3
    <3>3. c[t].kind = b[t].kind /\ c[t].name = b[t].name /\ c[t].parent = b[t].parent
      BY <3>2 DEF Made, Grown
    <3> QED BY <3>1, <3>3
  <2>2. ASSUME NEW t \in 1 .. Len(a), NEW k \in 1 .. Len(a[t].children)
        PROVE  c[t].children[k] = a[t].children[k]
    <3>1. k \in 1 .. Len(b[t].children) BY <1>5
    <3>2. b[t].children[k] = a[t].children[k] BY <1>1 DEF Grown
    <3>3. Grown(b, c) BY DEF Made
    <3>4. c[t].children[k] = b[t].children[k] BY <3>1, <3>3, <1>3 DEF Grown
    <3> QED BY <3>2, <3>4
  <2>3. \A t \in 1 .. Len(a) : Len(a[t].children) <= Len(c[t].children) BY <1>5, SMTT(30)
  <2>4. Len(a) <= Len(c) BY <1>1, <1>2
  <2> QED BY <2>1, <2>2, <2>3, <2>4 DEF Grown
<1>7. x \in Len(a) + 1 .. Len(c) /\ c[x].parent = s
  BY <1>1, <1>2 DEF Made
<1>8. ord \in Len(a[s].children) + 1 .. Len(c[s].children) /\ c[s].children[ord] = x
  <2>1. ord \in Len(b[s].children) + 1 .. Len(c[s].children) /\ c[s].children[ord] = x
    BY DEF Made
  <2>2. /\ Len(a[s].children) \in Nat /\ Len(b[s].children) \in Nat
        /\ Len(c[s].children) \in Nat /\ Len(a[s].children) <= Len(b[s].children)
    BY <1>5
  <2> QED BY <2>1, <2>2
<1>9. \A t \in 1 .. Len(a) : c[t].external = a[t].external /\ c[t].cursor = a[t].cursor
  BY <1>1, <1>3 DEF Made
<1>10. ASSUME NEW t \in Len(a) + 1 .. Len(c) PROVE ~c[t].external /\ c[t].cursor = 0
  <2>1. CASE t \in Len(b) + 1 .. Len(c) BY <2>1 DEF Made
  <2>2. CASE t \in Len(a) + 1 .. Len(b)
    <3>1. t \in 1 .. Len(b) BY <2>2, <1>2
    <3>2. c[t].external = b[t].external /\ c[t].cursor = b[t].cursor BY <3>1 DEF Made
    <3>3. ~b[t].external /\ b[t].cursor = 0 BY <2>2, <1>1
    <3> QED BY <3>2, <3>3
  <2> QED BY <2>1, <2>2, <1>2
<1>11. ASSUME NEW t \in 1 .. Len(c), NEW k \in 1 .. Len(c[t].children)
       PROVE  \/ t \in 1 .. Len(a) /\ k \in 1 .. Len(a[t].children)
              \/ t = s /\ k = ord
              \/ c[t].children[k] > Len(a) /\ c[c[t].children[k]].kind \in BuiltinKind
  <2>1. CASE t \in 1 .. Len(b) /\ k \in 1 .. Len(b[t].children)
    <3>1. c[t].children[k] = b[t].children[k] BY <2>1 DEF Made, Grown
    <3>2. ASSUME b[t].children[k] \in Len(a) + 1 .. Len(b)
          PROVE  c[t].children[k] > Len(a) /\ c[c[t].children[k]].kind \in BuiltinKind
      <4>1. b[t].children[k] \in 1 .. Len(b) /\ b[t].children[k] > Len(a) BY <3>2, <1>2
      <4>2. b[b[t].children[k]].kind \in BuiltinKind BY <3>2, <1>1
      <4>3. c[b[t].children[k]].kind = b[b[t].children[k]].kind BY <4>1 DEF Made, Grown
      <4> QED BY <3>1, <4>1, <4>2, <4>3
    <3>3. CASE t \in Len(a) + 1 .. Len(b) BY <3>2, <3>3, <2>1, <1>1
    <3>4. CASE t \in 1 .. Len(a) /\ t # s BY <3>4, <2>1, <1>1
    <3>5. CASE t = s /\ k \notin 1 .. Len(a[t].children)
      <4>1. k \in Len(a[s].children) + 1 .. Len(b[s].children) BY <3>5, <2>1, <1>5
      <4> QED BY <4>1, <3>2, <3>5, <1>1
    <3>6. CASE t = s /\ k \in 1 .. Len(a[t].children) BY <3>6
    <3> QED BY <2>1, <3>3, <3>4, <3>5, <3>6, <1>2
  <2>2. CASE t = s /\ k = ord BY <2>2
  <2>3. CASE c[t].children[k] > Len(b) /\ c[c[t].children[k]].kind \in BuiltinKind
    <3>1. c[t].children[k] \in 1 .. Len(c) BY ScopeFields
    <3> QED BY <2>3, <3>1, <1>1, <1>2
  <2> QED BY <2>1, <2>2, <2>3 DEF Made
<1> QED BY <1>6, <1>7, <1>8, <1>9, <1>10, <1>11 DEF Made

-----------------------------------------------------------------------------
(***************************************************************************)
(* The names and symbols of the scopes.                                     *)
(***************************************************************************)

\* b has the scopes of a with their names, parents and slots; new ones stand behind their
\* parents; no declaration is lost or made up.
Carries(a, b) ==
  /\ Len(a) <= Len(b)
  /\ \A s \in 1 .. Len(a) :
       b[s].name = a[s].name /\ b[s].parent = a[s].parent /\ b[s].alloca = a[s].alloca
  /\ \A s \in Len(a) + 1 .. Len(b) : b[s].parent < s /\ b[s].alloca = NoSymbols
  /\ \A s \in 1 .. Len(b), n \in Symbol :
       b[s].decl[n] # NoDecl => \E t \in 1 .. Len(a) : b[s].decl[n] = a[t].decl[n]
  /\ \A s \in 1 .. Len(a), n \in Symbol : a[s].decl[n] # NoDecl => b[s].decl[n] # NoDecl

\* All scopes that were there keep their symbols, and new ones have none.
LEMMA CarriesAll ==
  ASSUME NEW a, NEW b, Len(a) \in Nat, Len(b) \in Nat, Len(a) <= Len(b),
         \A s \in 1 .. Len(a) :
           /\ b[s].name = a[s].name /\ b[s].parent = a[s].parent
           /\ b[s].alloca = a[s].alloca /\ b[s].decl = a[s].decl,
         \A s \in Len(a) + 1 .. Len(b) :
           b[s].parent < s /\ b[s].alloca = NoSymbols /\ b[s].decl = NoSymbols
  PROVE  Carries(a, b)
<1>1. ASSUME NEW s \in 1 .. Len(b), NEW n \in Symbol, b[s].decl[n] # NoDecl
      PROVE  \E t \in 1 .. Len(a) : b[s].decl[n] = a[t].decl[n]
  <2>1. s \notin Len(a) + 1 .. Len(b) BY <1>1 DEF NoSymbols
  <2>2. s \in 1 .. Len(a) BY <2>1
  <2> QED BY <2>2
<1> QED BY <1>1 DEF Carries

\* One call after the other.
LEMMA CarriesTwice ==
  ASSUME NEW a, NEW b, NEW c, Len(a) \in Nat, Len(b) \in Nat, Len(c) \in Nat,
         Carries(a, b), Carries(b, c)
  PROVE  Carries(a, c)
<1>1. Len(a) <= Len(b) /\ Len(b) <= Len(c) BY DEF Carries
<1>2. ASSUME NEW s \in 1 .. Len(a)
      PROVE  c[s].name = a[s].name /\ c[s].parent = a[s].parent /\ c[s].alloca = a[s].alloca
  <2>1. s \in 1 .. Len(b) BY <1>1
  <2> QED BY <2>1 DEF Carries
<1>3. ASSUME NEW s \in Len(a) + 1 .. Len(c)
      PROVE  c[s].parent < s /\ c[s].alloca = NoSymbols
  <2>1. CASE s \in Len(b) + 1 .. Len(c) BY <2>1 DEF Carries
  <2>2. CASE s \in Len(a) + 1 .. Len(b)
    <3>1. s \in 1 .. Len(b) BY <2>2
    <3> QED BY <2>2, <3>1 DEF Carries
  <2> QED BY <1>1, <2>1, <2>2
<1>4. ASSUME NEW s \in 1 .. Len(c), NEW n \in Symbol, c[s].decl[n] # NoDecl
      PROVE  \E t \in 1 .. Len(a) : c[s].decl[n] = a[t].decl[n]
  <2>1. PICK t \in 1 .. Len(b) : c[s].decl[n] = b[t].decl[n] BY <1>4 DEF Carries
  <2> QED BY <1>4, <2>1 DEF Carries
<1>5. ASSUME NEW s \in 1 .. Len(a), NEW n \in Symbol, a[s].decl[n] # NoDecl
      PROVE  c[s].decl[n] # NoDecl
  <2>1. s \in 1 .. Len(b) /\ b[s].decl[n] # NoDecl BY <1>1, <1>5 DEF Carries
  <2> QED BY <2>1 DEF Carries
<1>6. Len(a) <= Len(c) BY <1>1
<1> QED BY <1>2, <1>3, <1>4, <1>5, <1>6 DEF Carries

\* Scope::createChild gives the new scope a map without symbols.
LEMMA CreateChildCarries ==
  ASSUME NEW sc, IsTree(sc), NEW s \in 1 .. Len(sc), NEW kind \in Kind, NEW name \in Name,
         NEW sc2, sc2 = CreateChild(sc, s, kind, name)
  PROVE  Carries(sc, sc2)
<1> DEFINE n == Len(sc)
           longer == Append(sc[s].children, n + 1)
           r == [sc[s] EXCEPT !.children = longer]
           mid == [sc EXCEPT ![s] = r]
           new == NewScope(kind, name, s)
<1>1. n \in Nat /\ sc \in Seq(ScopeType) /\ sc[s] \in ScopeType BY ScopeFields DEF IsTree
<1>2. longer \in Seq(Nat)
  <2>1. sc[s].children \in Seq(Nat) /\ n + 1 \in Nat BY <1>1, ScopeFields
  <2> QED BY <2>1
<1> HIDE DEF longer
<1>3. /\ r \in ScopeType /\ r.name = sc[s].name /\ r.parent = sc[s].parent
      /\ r.alloca = sc[s].alloca /\ r.decl = sc[s].decl
  BY <1>1, <1>2 DEF ScopeType
<1>4. sc2 = Append(mid, new) BY DEF CreateChild, longer
<1> HIDE DEF r
<1>5. /\ mid \in Seq(ScopeType) /\ Len(mid) = n
      /\ \A t \in 1 .. n : mid[t] = IF t = s THEN r ELSE sc[t]
  BY <1>1, <1>3, PutScope
<1>6. new \in ScopeType
  <2>1. s \in Nat BY <1>1
  <2> QED BY <2>1, NewScopeType
<1>7. new.parent = s /\ new.alloca = NoSymbols /\ new.decl = NoSymbols BY DEF NewScope
<1> HIDE DEF mid, new
<1>8. /\ Len(sc2) = n + 1 /\ sc2[n + 1] = new
      /\ \A t \in 1 .. n : sc2[t] = mid[t]
  BY <1>4, <1>5, <1>6
<1>9. \A t \in 1 .. n :
        /\ sc2[t].name = sc[t].name /\ sc2[t].parent = sc[t].parent
        /\ sc2[t].alloca = sc[t].alloca /\ sc2[t].decl = sc[t].decl
  BY <1>3, <1>5, <1>8
<1>10. ASSUME NEW t \in n + 1 .. Len(sc2)
       PROVE  sc2[t].parent < t /\ sc2[t].alloca = NoSymbols /\ sc2[t].decl = NoSymbols
  <2>1. t = n + 1 BY <1>1, <1>8
  <2> QED BY <1>1, <1>7, <1>8, <2>1
<1>11. Len(sc2) \in Nat /\ Len(sc) <= Len(sc2) BY <1>1, <1>8
<1> QED BY <1>1, <1>9, <1>10, <1>11, CarriesAll

\* The eight scopes of the builtins have no symbols either.
LEMMA InitBuiltinsCarries ==
  ASSUME NEW sc, IsTree(sc), NEW s \in 1 .. Len(sc), NEW sc2, sc2 = InitBuiltins(sc, s)
  PROVE  Carries(sc, sc2)
<1> DEFINE n == Len(sc)
           longer == sc[s].children \o [k \in 1 .. 4 |-> n + 2 * k - 1]
           r == [sc[s] EXCEPT !.children = longer]
           mid == [sc EXCEPT ![s] = r]
           e(i) == IF i % 2 = 1
                   THEN [NewScope("module_builtin", BuiltinModule[(i + 1) \div 2], s)
                           EXCEPT !.children = <<n + i + 1>>]
                   ELSE NewScope("class_builtin", BuiltinModule[i \div 2], n + i - 1)
           eight == [i \in 1 .. 8 |-> e(i)]
<1>1. n \in Nat /\ sc \in Seq(ScopeType) /\ sc[s] \in ScopeType /\ s \in Nat
      /\ sc[s].children \in Seq(Nat)
  BY ScopeFields DEF IsTree
<1>2. longer \in Seq(Nat)
  <2> DEFINE four == [k \in 1 .. 4 |-> n + 2 * k - 1]
  <2>1. four \in Seq(Nat)
    <3>1. \A k \in 1 .. 4 : n + 2 * k - 1 \in Nat BY <1>1
    <3> QED BY <3>1
  <2> HIDE DEF four
  <2>2. sc[s].children \o four \in Seq(Nat) BY <1>1, <2>1
  <2> QED BY <2>2 DEF four
<1>3. sc2 = mid \o eight BY DEF InitBuiltins
<1> HIDE DEF longer
<1>4. /\ r \in ScopeType /\ r.name = sc[s].name /\ r.parent = sc[s].parent
      /\ r.alloca = sc[s].alloca /\ r.decl = sc[s].decl
  BY <1>1, <1>2 DEF ScopeType
<1> HIDE DEF r
<1>5. /\ mid \in Seq(ScopeType) /\ Len(mid) = n
      /\ \A t \in 1 .. n : mid[t] = IF t = s THEN r ELSE sc[t]
  BY <1>1, <1>4, PutScope
<1> HIDE DEF mid
<1>6. \A i \in 1 .. 8 :
        /\ e(i) \in ScopeType /\ e(i).alloca = NoSymbols /\ e(i).decl = NoSymbols
        /\ e(i).parent < n + i
  <2> TAKE i \in 1 .. 8
  <2> DEFINE name == BuiltinModule[(i + 1) \div 2]
             q == NewScope("module_builtin", name, s)
  <2>1. e(i) \in ScopeType
    <3>1. PICK r2 : r2 = e(i) OBVIOUS
    <3>2. r2 = IF i % 2 = 1
               THEN [NewScope("module_builtin", BuiltinModule[(i + 1) \div 2], s)
                       EXCEPT !.children = <<n + i + 1>>]
               ELSE NewScope("class_builtin", BuiltinModule[i \div 2], n + i - 1)
      BY <3>1
    <3>3. r2 \in ScopeType BY ONLY <1>1, <3>2, s \in 1 .. n, i \in 1 .. 8, BuiltinScopes
    <3> QED BY <3>1, <3>3
  <2>2. CASE i % 2 = 1
    <3>1. e(i) = [q EXCEPT !.children = <<n + i + 1>>] BY <2>2
    <3>2. q.alloca = NoSymbols /\ q.decl = NoSymbols /\ q.parent = s BY DEF NewScope
    <3>3. e(i).alloca = q.alloca /\ e(i).decl = q.decl /\ e(i).parent = q.parent
      BY <3>1 DEF NewScope
    <3>4. s < n + i BY <1>1
    <3> HIDE DEF e, q
    <3> QED BY <2>1, <3>2, <3>3, <3>4
  <2>3. CASE i % 2 # 1
    <3>1. e(i) = NewScope("class_builtin", BuiltinModule[i \div 2], n + i - 1) BY <2>3
    <3>2. e(i).alloca = NoSymbols /\ e(i).decl = NoSymbols /\ e(i).parent = n + i - 1
      BY <3>1 DEF NewScope
    <3>3. n + i - 1 < n + i BY <1>1
    <3> HIDE DEF e
    <3> QED BY <2>1, <3>2, <3>3
  <2> QED BY <2>2, <2>3
<1> HIDE DEF e
<1>7. eight \in Seq(ScopeType) /\ Len(eight) = 8 /\ \A i \in 1 .. 8 : eight[i] = e(i)
  BY <1>6
<1> HIDE DEF eight
<1>8. /\ Len(sc2) = n + 8
      /\ \A k \in 1 .. n : sc2[k] = mid[k]
      /\ \A k \in n + 1 .. n + 8 : k - n \in 1 .. 8 /\ sc2[k] = eight[k - n]
  <2>1. mid \in Seq(ScopeType) /\ eight \in Seq(ScopeType) BY <1>5, <1>7
  <2> DEFINE ab == mid \o eight
  <2>2. /\ ab \in Seq(ScopeType) /\ Len(ab) = Len(mid) + Len(eight)
        /\ \A k \in 1 .. Len(mid) : ab[k] = mid[k]
        /\ \A k \in Len(mid) + 1 .. Len(mid) + Len(eight) :
             k - Len(mid) \in 1 .. Len(eight) /\ ab[k] = eight[k - Len(mid)]
    BY ONLY <2>1, Concat
  <2>3. sc2 = ab BY <1>3
  <2> HIDE DEF ab
  <2> QED BY <1>5, <1>7, <2>2, <2>3
<1>9. \A t \in 1 .. n :
        /\ sc2[t].name = sc[t].name /\ sc2[t].parent = sc[t].parent
        /\ sc2[t].alloca = sc[t].alloca /\ sc2[t].decl = sc[t].decl
  BY <1>4, <1>5, <1>8
<1>10. ASSUME NEW t \in n + 1 .. Len(sc2)
       PROVE  sc2[t].parent < t /\ sc2[t].alloca = NoSymbols /\ sc2[t].decl = NoSymbols
  <2>1. t - n \in 1 .. 8 /\ sc2[t] = e(t - n) BY <1>1, <1>7, <1>8
  <2>2. n + (t - n) = t BY <1>1
  <2> QED BY <1>6, <2>1, <2>2
<1>11. Len(sc2) \in Nat /\ Len(sc) <= Len(sc2) BY <1>1, <1>8
<1> QED BY <1>1, <1>9, <1>10, <1>11, CarriesAll

\* An import copies declarations of the other module and replaces by them what it has.
LEMMA CopyModuleCarries ==
  ASSUME NEW sc, IsTree(sc), Len(sc) >= 1, NEW from, NEW to,
         NEW sc2, sc2 = CopyModule(sc, from, to)
  PROVE  Carries(sc, sc2)
<1> DEFINE src == ModuleNamed(sc, from)
           dst == ModuleNamed(sc, to)
<1>1. src \in 0 .. Len(sc) /\ dst \in 0 .. Len(sc) /\ Len(sc) \in Nat
  BY ModuleNamedInTree DEF IsTree
<1>2. CASE src = None
  <2>1. sc2 = sc BY <1>2 DEF CopyModule
  <2> QED BY <1>1, <2>1 DEF Carries
<1>3. CASE src # None
  <2> DEFINE n == Len(sc)
             shared == {sc[src].children[k] : k \in 1 .. Len(sc[src].children)}
             kids(s) == sc[s].children \o sc[src].children
             decls(s) == [m \in Symbol |-> IF sc[src].decl[m] # NoDecl
                                           THEN sc[src].decl[m] ELSE sc[s].decl[m]]
             moved(s) == IF s = dst
                         THEN [sc[s] EXCEPT !.children = kids(s), !.decl = decls(s)]
                         ELSE sc[s]
             r(s) == IF s \in shared THEN [moved(s) EXCEPT !.external = TRUE] ELSE moved(s)
  <2>1. sc2 = ShareModule(sc, src, dst) BY <1>3 DEF CopyModule
  <2>2. sc2 = [s \in 1 .. n |-> r(s)] BY <2>1 DEF ShareModule
  <2>3. src \in 1 .. n BY <1>1, <1>3 DEF None
  <2>4. ASSUME NEW s \in 1 .. n
        PROVE  /\ r(s).name = sc[s].name /\ r(s).parent = sc[s].parent
               /\ r(s).alloca = sc[s].alloca
               /\ r(s).decl = IF s = dst THEN decls(s) ELSE sc[s].decl
    <3>1. sc[s] \in ScopeType BY ScopeFields
    <3> HIDE DEF kids, decls, shared
    <3>2. /\ moved(s).name = sc[s].name /\ moved(s).parent = sc[s].parent
          /\ moved(s).alloca = sc[s].alloca
          /\ moved(s).decl = IF s = dst THEN decls(s) ELSE sc[s].decl
          /\ \E k : moved(s) = [sc[s] EXCEPT !.children = k,
                                  !.decl = IF s = dst THEN decls(s) ELSE sc[s].decl]
      BY <3>1 DEF ScopeType
    <3>3. /\ [moved(s) EXCEPT !.external = TRUE].name = moved(s).name
          /\ [moved(s) EXCEPT !.external = TRUE].parent = moved(s).parent
          /\ [moved(s) EXCEPT !.external = TRUE].alloca = moved(s).alloca
          /\ [moved(s) EXCEPT !.external = TRUE].decl = moved(s).decl
      BY <3>1, <3>2 DEF ScopeType
    <3> HIDE DEF moved
    <3> QED BY <3>2, <3>3
  <2> HIDE DEF r
  <2>5. Len(sc2) = n /\ \A s \in 1 .. n : sc2[s] = r(s) BY <1>1, <2>2
  <2>6. \A s \in 1 .. n :
          /\ sc2[s].name = sc[s].name /\ sc2[s].parent = sc[s].parent
          /\ sc2[s].alloca = sc[s].alloca
          /\ sc2[s].decl = IF s = dst THEN decls(s) ELSE sc[s].decl
    BY <2>4, <2>5
  <2>7. \A s \in n + 1 .. Len(sc2) : FALSE BY <1>1, <2>5
  <2>8. ASSUME NEW s \in 1 .. Len(sc2), NEW m \in Symbol, sc2[s].decl[m] # NoDecl
        PROVE  \E t \in 1 .. n : sc2[s].decl[m] = sc[t].decl[m]
    <3>1. s \in 1 .. n BY <2>5
    <3>2. decls(s)[m] = IF sc[src].decl[m] # NoDecl THEN sc[src].decl[m] ELSE sc[s].decl[m]
      OBVIOUS
    <3> HIDE DEF decls, src, dst
    <3> QED BY <2>3, <2>6, <3>1, <3>2
  <2>9. ASSUME NEW s \in 1 .. n, NEW m \in Symbol, sc[s].decl[m] # NoDecl
        PROVE  sc2[s].decl[m] # NoDecl
    <3>2. decls(s)[m] = IF sc[src].decl[m] # NoDecl THEN sc[src].decl[m] ELSE sc[s].decl[m]
      OBVIOUS
    <3> HIDE DEF decls, src, dst
    <3> QED BY <2>6, <2>9, <3>2
  <2> HIDE DEF decls, src, dst
  <2> QED BY <1>1, <2>5, <2>6, <2>7, <2>8, <2>9 DEF Carries
<1> QED BY <1>2, <1>3

\* Scope::nextScope touches no symbol.
LEMMA AdvanceCarries ==
  ASSUME NEW sc, IsTree(sc), NEW s \in 1 .. Len(sc), PassedTo(sc, s) \in Nat,
         NEW sc2, sc2 = Advance(sc, s)
  PROVE  /\ Carries(sc, sc2) /\ Len(sc2) = Len(sc)
         /\ \A t \in 1 .. Len(sc) : sc2[t].decl = sc[t].decl
<1> DEFINE c == PassedTo(sc, s)
           r == [sc[s] EXCEPT !.cursor = c]
<1>1. sc[s] \in ScopeType /\ Len(sc) \in Nat /\ sc \in Seq(ScopeType) BY ScopeFields DEF IsTree
<1>2. sc2 = [sc EXCEPT ![s] = r] BY DEF Advance
<1> HIDE DEF c
<1>3. c \in Nat BY DEF c
<1>4. /\ r \in ScopeType /\ r.name = sc[s].name /\ r.parent = sc[s].parent
      /\ r.alloca = sc[s].alloca /\ r.decl = sc[s].decl
  BY <1>1, <1>3 DEF ScopeType
<1> HIDE DEF r
<1>5. /\ Len(sc2) = Len(sc)
      /\ \A t \in 1 .. Len(sc) : sc2[t] = IF t = s THEN r ELSE sc[t]
  BY <1>1, <1>2, <1>4, PutScope
<1>6. \A t \in 1 .. Len(sc) :
        /\ sc2[t].name = sc[t].name /\ sc2[t].parent = sc[t].parent
        /\ sc2[t].alloca = sc[t].alloca /\ sc2[t].decl = sc[t].decl
  BY <1>4, <1>5
<1>7. \A t \in Len(sc) + 1 .. Len(sc2) : FALSE BY <1>1, <1>5
<1>8. Carries(sc, sc2) BY <1>1, <1>5, <1>6, <1>7, CarriesAll
<1> QED BY <1>5, <1>6, <1>8

\* Scope::addSymbol(name, decl), symbol by symbol.
LEMMA AddDeclNames ==
  ASSUME NEW sc, IsTree(sc), NEW s \in 1 .. Len(sc), NEW n, NEW d \in Nat,
         NEW sc2, sc2 = AddDecl(sc, s, n, d)
  PROVE  /\ Len(sc2) = Len(sc)
         /\ \A t \in 1 .. Len(sc) :
              /\ sc2[t].name = sc[t].name /\ sc2[t].parent = sc[t].parent
              /\ sc2[t].alloca = sc[t].alloca
              /\ \A m \in Symbol :
                   sc2[t].decl[m] = IF t = s /\ m = n THEN d ELSE sc[t].decl[m]
<1> DEFINE f == [sc[s].decl EXCEPT ![n] = d]
           r == [sc[s] EXCEPT !.decl = f]
<1>1. /\ sc[s] \in ScopeType /\ sc \in Seq(ScopeType) /\ Len(sc) \in Nat
      /\ sc[s].decl \in [Symbol -> Nat]
  BY ScopeFields DEF IsTree
<1>2. f \in [Symbol -> Nat] /\ \A m \in Symbol : f[m] = IF m = n THEN d ELSE sc[s].decl[m]
  BY <1>1
<1>3. sc2 = [sc EXCEPT ![s] = r] BY DEF AddDecl
<1> HIDE DEF f
<1>4. /\ r \in ScopeType /\ r.name = sc[s].name /\ r.parent = sc[s].parent
      /\ r.alloca = sc[s].alloca /\ r.decl = f
  BY <1>1, <1>2 DEF ScopeType
<1> HIDE DEF r
<1>5. /\ Len(sc2) = Len(sc)
      /\ \A t \in 1 .. Len(sc) : sc2[t] = IF t = s THEN r ELSE sc[t]
  BY <1>1, <1>3, <1>4, PutScope
<1> QED BY <1>2, <1>4, <1>5

\* Scope::addSymbol(name, alloca), of a name that the scope has.
LEMMA AddAllocaNames ==
  ASSUME NEW sc, IsTree(sc), NEW s \in 1 .. Len(sc), NEW n, NEW d \in Nat,
         NEW sc2, sc2 = AddAlloca(sc, s, n, d)
  PROVE  /\ Len(sc2) = Len(sc)
         /\ \A t \in 1 .. Len(sc) :
              /\ sc2[t].name = sc[t].name /\ sc2[t].parent = sc[t].parent
              /\ sc2[t].decl = sc[t].decl
              /\ \A m \in Symbol :
                   sc2[t].alloca[m] = IF t = s /\ m = n /\ sc[s].decl[n] # NoDecl THEN d
                                      ELSE sc[t].alloca[m]
<1> DEFINE f == [sc[s].alloca EXCEPT ![n] = d]
           r == [sc[s] EXCEPT !.alloca = f]
<1>1. /\ sc[s] \in ScopeType /\ sc \in Seq(ScopeType) /\ Len(sc) \in Nat
      /\ sc[s].alloca \in [Symbol -> Nat]
  BY ScopeFields DEF IsTree
<1>2. f \in [Symbol -> Nat] /\ \A m \in Symbol : f[m] = IF m = n THEN d ELSE sc[s].alloca[m]
  BY <1>1
<1>3. CASE sc[s].decl[n] = NoDecl
  <2>1. sc2 = sc BY <1>3 DEF AddAlloca
  <2> QED BY <1>3, <2>1
<1>4. CASE sc[s].decl[n] # NoDecl
  <2>1. sc2 = [sc EXCEPT ![s] = r] BY <1>4 DEF AddAlloca
  <2> HIDE DEF f
  <2>2. /\ r \in ScopeType /\ r.name = sc[s].name /\ r.parent = sc[s].parent
        /\ r.alloca = f /\ r.decl = sc[s].decl
    BY <1>1, <1>2 DEF ScopeType
  <2> HIDE DEF r
  <2>3. /\ Len(sc2) = Len(sc)
        /\ \A t \in 1 .. Len(sc) : sc2[t] = IF t = s THEN r ELSE sc[t]
    BY <1>1, <2>1, <2>2, PutScope
  <2> QED BY <1>2, <1>4, <2>2, <2>3
<1> QED BY <1>3, <1>4

\* What getSymbol finds from each of the first scopes, the search of one scope after
\* another from the innermost outwards.
Finds(sc, n, k, f) ==
  f = [t \in 0 .. k |->
         IF t = None THEN None
         ELSE IF sc[t].decl[n] # NoDecl THEN t ELSE f[sc[t].parent]]

\* The search ends: parents stand before their children.
LEMMA SearchEnds ==
  ASSUME NEW sc, Len(sc) \in Nat, NEW n,
         \A t \in 1 .. Len(sc) : sc[t].parent \in 0 .. t - 1
  PROVE  \E f : Finds(sc, n, Len(sc), f)
<1> DEFINE Fails == {k \in 0 .. Len(sc) : ~ \E f : Finds(sc, n, k, f)}
<1>1. SUFFICES ASSUME Fails # {} PROVE FALSE OBVIOUS
<1>2. Fails \in SUBSET Nat OBVIOUS
<1>3. PICK k \in Fails : \A j \in Fails : k <= j
  <2> HIDE DEF Fails
  <2> QED BY <1>1, <1>2, LeastIsLeast
<1>4. k \in 0 .. Len(sc) /\ ~ \E f : Finds(sc, n, k, f) BY <1>3
<1>5. CASE k = 0
  <2>1. PICK f : f = [t \in 0 .. 0 |-> None] OBVIOUS
  <2>2. \A t \in 0 .. 0 : t = None BY DEF None
  <2>3. f = [t \in 0 .. 0 |->
               IF t = None THEN None
               ELSE IF sc[t].decl[n] # NoDecl THEN t ELSE f[sc[t].parent]]
    BY <2>1, <2>2
  <2> QED BY <1>4, <1>5, <2>3 DEF Finds
<1>6. CASE k # 0
  <2>1. k - 1 \in 0 .. Len(sc) /\ k - 1 < k /\ k \in 1 .. Len(sc) BY <1>4, <1>6
  <2>2. k - 1 \notin Fails
    <3> HIDE DEF Fails
    <3> QED BY <1>2, <1>3, <2>1
  <2>3. PICK f : Finds(sc, n, k - 1, f) BY <2>1, <2>2
  <2>4. /\ DOMAIN f = 0 .. k - 1
        /\ \A t \in 0 .. k - 1 :
             f[t] = IF t = None THEN None
                    ELSE IF sc[t].decl[n] # NoDecl THEN t ELSE f[sc[t].parent]
    BY <2>3 DEF Finds
  <2>5. PICK last : last = IF sc[k].decl[n] # NoDecl THEN k ELSE f[sc[k].parent] OBVIOUS
  <2>6. PICK g : g = [t \in 0 .. k |-> IF t = k THEN last ELSE f[t]] OBVIOUS
  <2>7. \A t \in 0 .. k - 1 : t \in 0 .. k /\ t # k BY <2>1
  <2>8. \A t \in 0 .. k - 1 : g[t] = f[t] BY <2>6, <2>7
  <2>9. g[k] = last BY <2>1, <2>6
  <2>10. ASSUME NEW t \in 0 .. k
         PROVE  (IF t = k THEN last ELSE f[t])
                  = IF t = None THEN None
                    ELSE IF sc[t].decl[n] # NoDecl THEN t ELSE g[sc[t].parent]
    <3>1. CASE t = k
      <4>1. sc[k].parent \in 0 .. k - 1 BY <2>1
      <4> QED BY <1>6, <2>5, <2>8, <3>1, <4>1 DEF None
    <3>2. CASE t # k
      <4>1. t \in 0 .. k - 1 BY <2>1, <3>2
      <4>2. t # 0 => sc[t].parent \in 0 .. k - 1
        <5>1. t # 0 => t \in 1 .. Len(sc) BY <2>1, <4>1
        <5>2. t # 0 => sc[t].parent \in 0 .. t - 1 BY <5>1
        <5> QED BY <2>1, <4>1, <5>2
      <4> QED BY <2>4, <2>8, <3>2, <4>1, <4>2 DEF None
    <3> QED BY <3>1, <3>2
  <2>11. Finds(sc, n, k, g) BY <2>6, <2>10 DEF Finds
  <2> QED BY <1>4, <2>11
<1> QED BY <1>5, <1>6

\* Scope::getSymbol, one scope at a time.
LEMMA GetSymbolSteps ==
  ASSUME NEW sc, Len(sc) \in Nat, NEW n,
         \A t \in 1 .. Len(sc) : sc[t].parent \in 0 .. t - 1,
         NEW s \in 1 .. Len(sc)
  PROVE  GetSymbol(sc, s, n) =
           IF sc[s].decl[n] # NoDecl THEN s
           ELSE IF sc[s].parent = None THEN None ELSE GetSymbol(sc, sc[s].parent, n)
<1> DEFINE found == CHOOSE f : Finds(sc, n, Len(sc), f)
<1>1. Finds(sc, n, Len(sc), found) BY SearchEnds
<1>2. \A t : GetSymbol(sc, t, n) = found[t] BY DEF GetSymbol, Finds
<1> HIDE DEF found
<1>3. \A t \in 0 .. Len(sc) :
        found[t] = IF t = None THEN None
                   ELSE IF sc[t].decl[n] # NoDecl THEN t ELSE found[sc[t].parent]
  BY <1>1 DEF Finds
<1>4. s \in 0 .. Len(sc) /\ s # None /\ sc[s].parent \in 0 .. Len(sc)
  <2>1. sc[s].parent \in 0 .. s - 1 OBVIOUS
  <2> QED BY <2>1 DEF None
<1>5. found[s] = IF sc[s].decl[n] # NoDecl THEN s ELSE found[sc[s].parent] BY <1>3, <1>4
<1>6. sc[s].parent = None => found[sc[s].parent] = None BY <1>3, <1>4
<1> QED BY <1>2, <1>5, <1>6

-----------------------------------------------------------------------------
(***************************************************************************)
(* What the parser appends leaves what it has read alone.                  *)
(***************************************************************************)

OneMore ==
  /\ ast' \in Seq(EventType) /\ Len(ast') = Len(ast) + 1
  /\ \A j \in Events : ast'[j] = ast[j]

\* Typed, one by one.
LEMMA Types ==
  ASSUME TypeOK
  PROVE  /\ IsTree(scopes) /\ Len(scopes) \in Nat
         /\ current \in Scopes /\ cg \in Scopes
         /\ ast \in Seq(EventType) /\ Len(ast) \in Nat
         /\ \A j \in Events : ast[j] \in EventType
         /\ open \in Seq(Events) /\ Len(open) \in Nat
         /\ \A i \in 1 .. Len(open) : open[i] \in Events
         /\ pos \in 0 .. Len(ast) /\ pos \in Nat
<1>1. IsTree(scopes) /\ current \in Scopes /\ cg \in Scopes /\ ast \in Seq(EventType)
      /\ open \in Seq(Events) /\ pos \in 0 .. Len(ast)
  BY DEF TypeOK
<1>2. Len(scopes) \in Nat BY <1>1 DEF IsTree
<1>3. Len(ast) \in Nat /\ \A j \in Events : ast[j] \in EventType BY <1>1 DEF Events
<1>4. Len(open) \in Nat /\ \A i \in 1 .. Len(open) : open[i] \in Events BY <1>1
<1>5. pos \in Nat BY <1>1, <1>3
<1> QED BY <1>1, <1>2, <1>3, <1>4, <1>5

\* The fields of an event.
LEMMA EventFields ==
  ASSUME NEW e \in EventType
  PROVE  /\ e.block \in Nat /\ e.at \in Nat /\ e.scope \in Nat /\ e.ord \in Nat
         /\ e.hidden \in BOOLEAN /\ e.name \in Name \cup Unscoped \cup {"value", "bare", "else"}
  BY DEF EventType

\* What is read later does not change where the parser was before.
LEMMA Prefix ==
  ASSUME TypeOK, LeavesMatch, OneMore
  PROVE  /\ \A k \in 0 .. Len(ast) : After(k)' = After(k)
         /\ \A b \in Events : Inside(b)' = Inside(b) /\ (Makes(b)' <=> Makes(b))
<1>1. ASSUME NEW b \in Events
      PROVE  Inside(b)' = Inside(b) /\ (Makes(b)' <=> Makes(b))
  BY DEF OneMore, Inside, Makes
<1>2. ASSUME NEW k \in 0 .. Len(ast)
      PROVE  After(k)' = After(k)
  <2>0. Len(ast) \in Nat BY Types
  <2>1. CASE k = 0 BY <2>1 DEF After
  <2>2. CASE k # 0
    <3>1. k \in Events BY <2>0, <2>2 DEF Events
    <3>2. ast'[k] = ast[k] BY <3>1 DEF OneMore
    <3>3. CASE ast[k].op = "enter" BY <2>2, <3>2, <3>3, <3>1, <1>1 DEF After
    <3>4. CASE ast[k].op = "leave"
      <4>1. ast[k].block \in 1 .. k - 1 BY <3>1, <3>4 DEF LeavesMatch
      <4>2. ast[k].block \in Events BY <2>0, <3>1, <4>1 DEF Events
      <4>3. ast'[ast[k].block] = ast[ast[k].block] BY <4>2 DEF OneMore
      <4> QED BY <2>2, <3>2, <3>4, <4>3 DEF After
    <3>5. CASE ast[k].op \notin {"enter", "leave"} BY <2>2, <3>2, <3>5 DEF After
    <3> QED BY <3>3, <3>4, <3>5
  <2> QED BY <2>1, <2>2
<1> QED BY <1>1, <1>2

-----------------------------------------------------------------------------
(***************************************************************************)
(* The events: Text.                                                       *)
(***************************************************************************)

\* The event just read.
New == ast[Len(ast)]

\* The parts of Text that do not depend on what kind of event it is.
LEMMA PathGoesOn ==
  ASSUME TypeOK, Text, OneMore, New'.at = current, current' = After(Len(ast))'
  PROVE  ParserPath'
<1>1. Len(ast) \in Nat /\ Len(ast') = Len(ast) + 1 BY Types DEF OneMore
<1>2. \A k \in 0 .. Len(ast) : After(k)' = After(k) BY Prefix DEF Text
<1>3. current = After(Len(ast)) /\ \A k \in Events : ast[k].at = After(k - 1)
  BY DEF Text, ParserPath
<1>4. ASSUME NEW k \in 1 .. Len(ast') PROVE ast'[k].at = After(k - 1)'
  <2>1. CASE k = Len(ast')
    <3>1. k - 1 = Len(ast) /\ Len(ast) \in 0 .. Len(ast) BY <1>1, <2>1
    <3>2. After(k - 1)' = After(Len(ast)) BY <3>1, <1>2
    <3>3. ast'[k].at = current BY <2>1 DEF New
    <3> QED BY <3>2, <3>3, <1>3
  <2>2. CASE k # Len(ast')
    <3>1. k \in Events /\ k - 1 \in 0 .. Len(ast) BY <1>1, <2>2 DEF Events
    <3>2. ast'[k].at = After(k - 1) BY <3>1, <1>3 DEF OneMore
    <3>3. After(k - 1)' = After(k - 1) BY <3>1, <1>2
    <3> QED BY <3>2, <3>3
  <2> QED BY <2>1, <2>2
<1> QED BY <1>4 DEF ParserPath, Events

\* How the events are numbered once the parser has read one more.
LEMMA Reads ==
  ASSUME TypeOK, OneMore
  PROVE  /\ Len(ast) \in Nat /\ Len(ast') = Len(ast) + 1
         /\ New' = ast'[Len(ast) + 1]
         /\ Events' = 1 .. Len(ast) + 1
         /\ \A j \in Events : j \in Events' /\ ast'[j] = ast[j] /\ j # Len(ast) + 1 /\ j \in Nat
         /\ \A j \in Events' : j \in Events \/ j = Len(ast) + 1
         /\ Len(ast) + 1 \in Events'
<1>1. Len(ast) \in Nat /\ Len(ast') = Len(ast) + 1 BY Types DEF OneMore
<1>2. New' = ast'[Len(ast) + 1] BY <1>1 DEF New
<1>3. Events' = 1 .. Len(ast) + 1 BY <1>1 DEF Events
<1>4. \A j \in Events : j \in Events' /\ j # Len(ast) + 1 /\ j \in Nat BY <1>1, <1>3 DEF Events
<1>5. \A j \in Events' : j \in Events \/ j = Len(ast) + 1 BY <1>1, <1>3 DEF Events
<1>6. Len(ast) + 1 \in Events' BY <1>1, <1>3
<1>7. \A j \in Events : ast'[j] = ast[j] BY DEF OneMore
<1> QED BY <1>1, <1>2, <1>3, <1>4, <1>5, <1>6, <1>7

\* An event that neither enters nor leaves a construct.
LEMMA TextPlain ==
  ASSUME TypeOK, Text, OneMore,
         phase \in {"imports", "parse"}, phase' = phase, open' = open, pos' = pos,
         current' = current, New'.at = current, New'.op \notin {"enter", "leave"},
         New'.scope # None <=> New'.op = "enum",
         New'.op = "enum" => New'.hidden
  PROVE  Text'
<1>0. PICK n : n = Len(ast) OBVIOUS
<1> DEFINE e == ast'[n + 1]
<1>1. /\ n \in Nat /\ Len(ast') = n + 1 /\ New' = e /\ Events' = 1 .. n + 1
      /\ \A j \in Events : j \in Events' /\ ast'[j] = ast[j] /\ j # n + 1 /\ j \in Nat
      /\ \A j \in Events' : j \in Events \/ j = n + 1
      /\ n + 1 \in Events'
  BY <1>0, Reads
<1>2. /\ \A i \in 1 .. Len(open) : open[i] \in Events
      /\ Len(open) \in Nat /\ pos \in 0 .. n
  BY <1>0, Types
<1>3. \A b \in Events : Inside(b)' = Inside(b) /\ (Makes(b)' <=> Makes(b))
  BY Prefix DEF Text
<1>4. Makes(n + 1)' <=> e.op = "enum" BY <1>1 DEF Makes
<1>5. ParserPath'
  <2>1. ast'[n + 1].op \notin {"enter", "leave"} /\ ast'[n + 1].at = current BY <1>1
  <2>2. n + 1 # 0 BY <1>1
  <2>3. After(n + 1)' = current BY <2>1, <2>2 DEF After
  <2>4. After(Len(ast))' = After(n + 1)' BY <1>1 DEF After
  <2> QED BY <2>3, <2>4, PathGoesOn
<1>6. OpenNests'
  <2>1. OpenNests BY DEF Text
  <2>2. \A i \in 1 .. Len(open) : ast'[open[i]] = ast[open[i]] /\ Inside(open[i])' = Inside(open[i])
    BY <1>1, <1>2, <1>3
  <2>3. \A i \in 1 .. Len(open) : ast'[open[i]].op = "enter" BY <2>1, <2>2 DEF OpenNests
  <2>4. \A i \in 2 .. Len(open) : ast'[open[i]].at = Inside(open[i - 1])'
    <3> TAKE i \in 2 .. Len(open)
    <3>1. i \in 1 .. Len(open) /\ i - 1 \in 1 .. Len(open) BY <1>2
    <3>2. ast[open[i]].at = Inside(open[i - 1]) BY <2>1 DEF OpenNests
    <3> QED BY <3>1, <3>2, <2>2
  <2>5. \A i \in 1 .. Len(open) : i = 1 <=> ast'[open[i]].kind = "module"
    BY <2>1, <2>2 DEF OpenNests
  <2>7. open # << >> => ast'[open[1]].at = Global /\ current' = Inside(open[Len(open)])'
    <3> SUFFICES ASSUME open # << >>
                 PROVE  ast'[open[1]].at = Global /\ current' = Inside(open[Len(open)])'
      OBVIOUS
    <3>1. open \in Seq(Events) BY Types
    <3>2. 1 \in 1 .. Len(open) /\ Len(open) \in 1 .. Len(open) BY <3>1
    <3>3. ast[open[1]].at = Global /\ current = Inside(open[Len(open)]) BY <2>1 DEF OpenNests
    <3>4. ast'[open[1]].at = Global BY <2>2, <3>2, <3>3
    <3>5. Inside(open[Len(open)])' = Inside(open[Len(open)])
      <4>1. open[Len(open)] \in Events BY <1>2, <3>2
      <4> QED BY <4>1, <1>1 DEF Inside
    <3> QED BY <3>3, <3>4, <3>5
  <2>8. open = << >> => current' = Global BY <2>1 DEF OpenNests
  <2>9. open = << >> <=> phase \notin {"imports", "parse", "lost"} BY <2>1 DEF OpenNests
  <2> QED BY <2>3, <2>4, <2>5, <2>7, <2>8, <2>9 DEF OpenNests

<1>7. LeavesMatch'
  <2>1. LeavesMatch BY DEF Text
  <2>2. ASSUME NEW l \in Events', ast'[l].op = "leave"
        PROVE  /\ ast'[l].block \in 1 .. l - 1
               /\ ast'[ast'[l].block].op = "enter"
               /\ ast'[ast'[l].block].kind = ast'[l].kind
               /\ ast'[l].at = Inside(ast[l].block)'
    <3>1. l \in Events BY <2>2, <1>1
    <3>2. ast'[l] = ast[l] BY <3>1, <1>1
    <3>3. /\ ast[l].block \in 1 .. l - 1 /\ ast[ast[l].block].op = "enter"
          /\ ast[ast[l].block].kind = ast[l].kind /\ ast[l].at = Inside(ast[l].block)
      BY <2>1, <2>2, <3>1, <3>2 DEF LeavesMatch
    <3>4. ast[l].block \in Events BY <3>1, <3>3, <1>1 DEF Events
    <3>5. ast'[ast[l].block] = ast[ast[l].block] BY <3>4, <1>1
    <3>6. Inside(ast[l].block)' = Inside(ast[l].block) BY <3>2, <3>5 DEF Inside
    <3>7. ast'[l].at = Inside(ast[l].block)' BY <3>2, <3>3, <3>6
    <3> QED BY <3>2, <3>3, <3>5, <3>7
  <2>3. ASSUME NEW b \in Events', ast'[b].op = "enter"
        PROVE  \/ \E i \in 1 .. Len(open) : open[i] = b
               \/ \E l \in b + 1 .. Len(ast') : ast'[l].op = "leave" /\ ast'[l].block = b
    <3>1. b \in Events BY <2>3, <1>1
    <3>2. ast[b].op = "enter" BY <2>3, <3>1, <1>1
    <3>3. CASE \E i \in 1 .. Len(open) : open[i] = b BY <3>3
    <3>4. CASE \E l \in b + 1 .. Len(ast) : ast[l].op = "leave" /\ ast[l].block = b
      <4>1. PICK l \in b + 1 .. Len(ast) : ast[l].op = "leave" /\ ast[l].block = b BY <3>4
      <4>2. l \in Events /\ l \in b + 1 .. Len(ast') BY <3>1, <1>1 DEF Events
      <4> QED BY <4>1, <4>2, <1>1
    <3> QED BY <2>1, <3>1, <3>2, <3>3, <3>4 DEF LeavesMatch
  <2> QED BY <2>2, <2>3 DEF LeavesMatch
<1>8. Progress'
  <2>1. \A l \in pos + 1 .. n : ~(ast[l].op = "leave" /\ ast[l].kind = "module")
    BY <1>0 DEF Text, Progress
  <2>2. ASSUME NEW l \in pos + 1 .. n + 1 PROVE ~(ast'[l].op = "leave" /\ ast'[l].kind = "module")
    <3>1. CASE l = n + 1 BY <3>1, <1>1
    <3>2. CASE l # n + 1
      <4>1. l \in pos + 1 .. n /\ l \in Events BY <3>2, <1>1, <1>2 DEF Events
      <4> QED BY <4>1, <2>1, <1>1
    <3> QED BY <3>1, <3>2
  <2> QED BY <2>2, <1>1 DEF Progress
<1>9. HiddenScopes'
  <2>1. HiddenScopes BY DEF Text
  <2>2. ASSUME NEW j \in Events'
        PROVE  Makes(j)' <=> (ast'[j].op = "enter" /\ ast'[j].kind \in Scoped) \/ ast'[j].op = "enum"
    <3>1. CASE j \in Events BY <3>1, <2>1, <1>1, <1>3 DEF HiddenScopes
    <3>2. CASE j = n + 1 BY <3>2, <1>1, <1>4
    <3> QED BY <3>1, <3>2, <1>1
  <2>3. ASSUME NEW j \in Events'
        PROVE  /\ ast'[j].op \in {"enter", "leave"} => ast'[j].kind \in Scoped \cup Unscoped
               /\ ast'[j].op = "enum" => ast'[j].hidden
    <3>1. CASE j \in Events BY <3>1, <2>1, <1>1 DEF HiddenScopes
    <3>2. CASE j = n + 1 BY <3>2, <1>1
    <3> QED BY <3>1, <3>2, <1>1
  <2>4. ASSUME NEW i \in 1 .. Len(open), ast'[open[i]].kind \in Unscoped,
               NEW j \in open[i] + 1 .. Len(ast'), Makes(j)'
        PROVE  ast'[j].hidden
    <3>1. open[i] \in Events /\ ast[open[i]].kind \in Unscoped BY <2>4, <1>1, <1>2
    <3>2. CASE j = n + 1 BY <3>2, <2>4, <1>1, <1>4
    <3>3. CASE j # n + 1
      <4>1. j \in open[i] + 1 .. n /\ j \in Events BY <3>1, <3>3, <1>1 DEF Events
      <4> QED BY <4>1, <3>1, <2>1, <2>4, <1>0, <1>1, <1>3 DEF HiddenScopes
    <3> QED BY <3>2, <3>3
  <2>5. ASSUME NEW l \in Events', ast'[l].op = "leave", ast'[l].kind \in Unscoped,
               NEW j \in ast'[l].block + 1 .. l, Makes(j)'
        PROVE  ast'[j].hidden
    <3>1. l \in Events /\ ast'[l] = ast[l] BY <2>5, <1>1
    <3>2. ast[l].block \in 1 .. l - 1 BY <2>5, <3>1 DEF Text, LeavesMatch
    <3>3. j \in Events /\ j \in ast[l].block + 1 .. l BY <3>1, <3>2, <1>1 DEF Events
    <3> QED BY <3>1, <3>3, <2>1, <2>5, <1>1, <1>3 DEF HiddenScopes
  <2> QED BY <2>2, <2>3, <2>4, <2>5 DEF HiddenScopes
<1> QED BY <1>5, <1>6, <1>7, <1>8, <1>9 DEF Text

\* Old facts of LeavesMatch and HiddenScopes about what has been left.
LEMMA LeavesKept ==
  ASSUME TypeOK, Text, OneMore, NEW l \in Events, ast'[l].op = "leave"
  PROVE  /\ ast'[l].block \in 1 .. l - 1
         /\ ast'[ast'[l].block].op = "enter"
         /\ ast'[ast'[l].block].kind = ast'[l].kind
         /\ ast'[l].at = Inside(ast[l].block)'
         /\ ast'[l].kind \in Unscoped =>
              \A j \in ast'[l].block + 1 .. l : Makes(j)' => ast'[j].hidden
<1>1. /\ Len(ast) \in Nat
      /\ \A j \in Events : ast'[j] = ast[j] /\ j \in Nat
  BY Reads
<1>2. ast'[l] = ast[l] BY <1>1
<1>3. /\ ast[l].block \in 1 .. l - 1 /\ ast[ast[l].block].op = "enter"
      /\ ast[ast[l].block].kind = ast[l].kind /\ ast[l].at = Inside(ast[l].block)
  BY <1>2 DEF Text, LeavesMatch
<1>4. \A j \in ast[l].block .. l : j \in Events BY <1>1, <1>3 DEF Events
<1>5. ast[l].block \in Events BY <1>1, <1>3 DEF Events
<1>6. ast'[ast[l].block] = ast[ast[l].block] BY <1>5, <1>1
<1>7. Inside(ast[l].block)' = Inside(ast[l].block) BY <1>2, <1>6 DEF Inside
<1>8. ASSUME ast[l].kind \in Unscoped, NEW j \in ast[l].block + 1 .. l, Makes(j)'
      PROVE  ast'[j].hidden
  <2>1. j \in Events BY <1>1, <1>3 DEF Events
  <2>2. Makes(j) /\ ast'[j] = ast[j] BY <2>1, <1>1, <1>8 DEF Makes
  <2> QED BY <2>2, <1>2, <1>8 DEF Text, HiddenScopes
<1>9. ast'[l].at = Inside(ast[l].block)' BY <1>2, <1>3, <1>7
<1> QED BY <1>2, <1>3, <1>6, <1>8, <1>9

\* The first two parts of HiddenScopes.
LEMMA KindsKept ==
  ASSUME TypeOK, Text, OneMore,
         New'.scope # None <=>
           (New'.op = "enter" /\ New'.kind \in Scoped) \/ New'.op = "enum",
         New'.op \in {"enter", "leave"} => New'.kind \in Scoped \cup Unscoped,
         New'.op = "enum" => New'.hidden
  PROVE  \A j \in Events' :
           /\ Makes(j)' <=> (ast'[j].op = "enter" /\ ast'[j].kind \in Scoped) \/ ast'[j].op = "enum"
           /\ ast'[j].op \in {"enter", "leave"} => ast'[j].kind \in Scoped \cup Unscoped
           /\ ast'[j].op = "enum" => ast'[j].hidden
<1> TAKE j \in Events'
<1>1. /\ New' = ast'[Len(ast) + 1] /\ \A i \in Events : ast'[i] = ast[i]
      /\ j \in Events \/ j = Len(ast) + 1
  BY Reads
<1>2. CASE j \in Events
  <2>1. ast'[j] = ast[j] /\ (Makes(j)' <=> Makes(j)) BY <1>1, <1>2 DEF Makes
  <2> QED BY <2>1, <1>2 DEF Text, HiddenScopes
<1>3. CASE j = Len(ast) + 1
  <2>1. ast'[j] = New' BY <1>1, <1>3
  <2> QED BY <2>1 DEF Makes
<1> QED BY <1>1, <1>2, <1>3

\* A construct is entered.
LEMMA TextEnter ==
  ASSUME TypeOK, Text, OneMore,
         phase \in {"idle", "imports", "parse"}, phase' \in {"imports", "parse"}, pos' = pos,
         open' = Append(open, Len(ast) + 1),
         New'.op = "enter", New'.kind \in Scoped \cup Unscoped, New'.at = current,
         open = << >> <=> New'.kind = "module",
         current' = IF New'.kind \in Scoped THEN New'.scope ELSE current,
         New'.scope # None <=> New'.kind \in Scoped,
         New'.scope # None /\ (\E b \in 1 .. Len(open) : ast[open[b]].kind \in Unscoped)
           => New'.hidden
  PROVE  Text'
<1>0. PICK n : n = Len(ast) OBVIOUS
<1> DEFINE e == ast'[n + 1]
<1>1. /\ n \in Nat /\ Len(ast') = n + 1 /\ New' = e /\ Events' = 1 .. n + 1
      /\ \A j \in Events : j \in Events' /\ ast'[j] = ast[j] /\ j # n + 1 /\ j \in Nat
      /\ \A j \in Events' : j \in Events \/ j = n + 1
      /\ n + 1 \in Events'
  BY <1>0, Reads
<1>2. /\ \A i \in 1 .. Len(open) : open[i] \in Events
      /\ Len(open) \in Nat /\ pos \in 0 .. n /\ open \in Seq(Events)
  BY <1>0, Types
<1>3. \A b \in Events : Inside(b)' = Inside(b) /\ (Makes(b)' <=> Makes(b))
  BY Prefix DEF Text
<1>4. Inside(n + 1)' = current' BY <1>1 DEF Inside
<1>5. PICK m : m = Len(open) OBVIOUS
<1>6. /\ m \in Nat /\ Len(open') = m + 1 /\ open'[m + 1] = n + 1
      /\ \A i \in 1 .. m : open'[i] = open[i] /\ open[i] \in Events
      /\ \A i \in 1 .. m + 1 : i \in 1 .. m \/ i = m + 1
  BY <1>0, <1>2, <1>5
<1>7. ParserPath'
  <2>1. ast'[n + 1].op = "enter" /\ n + 1 # 0 BY <1>1
  <2>2. After(n + 1)' = current' BY <2>1, <1>4 DEF After
  <2>3. After(Len(ast))' = After(n + 1)' BY <1>1 DEF After
  <2> QED BY <2>2, <2>3, PathGoesOn
<1>8. OpenNests'
  <2>1. OpenNests BY DEF Text
  <2>2. \A i \in 1 .. m : ast'[open'[i]] = ast[open[i]]
    BY <1>1, <1>6
  <2>3. ASSUME NEW i \in 1 .. m + 1
        PROVE  ast'[open'[i]].op = "enter" /\ (i = 1 <=> ast'[open'[i]].kind = "module")
    <3>1. CASE i \in 1 .. m BY <3>1, <2>1, <2>2, <1>5 DEF OpenNests
    <3>2. CASE i = m + 1
      <4>1. ast'[open'[i]] = e BY <3>2, <1>6
      <4>2. m = 0 <=> open = << >> BY <1>2, <1>5
      <4> QED BY <3>2, <4>1, <4>2, <1>1, <1>6
    <3> QED BY <3>1, <3>2, <1>6
  <2>4. ASSUME NEW i \in 2 .. m + 1 PROVE ast'[open'[i]].at = Inside(open[i - 1])'
    <3>1. i - 1 \in 1 .. m BY <1>6
    <3>2. Inside(open[i - 1])' = Inside(open[i - 1]) BY <3>1, <2>2 DEF Inside
    <3>3. CASE i \in 1 .. m
      <4>1. ast[open[i]].at = Inside(open[i - 1]) BY <3>3, <2>1, <1>5 DEF OpenNests
      <4> QED BY <4>1, <3>2, <3>3, <2>2
    <3>4. CASE i = m + 1
      <4>1. ast'[open'[i]].at = current BY <3>4, <1>1, <1>6
      <4>2. open # << >> BY <3>1, <1>5
      <4>3. current = Inside(open[m]) BY <4>2, <2>1, <1>5 DEF OpenNests
      <4>4. i - 1 = m BY <3>4, <1>6
      <4> QED BY <4>1, <4>3, <4>4, <3>2
    <3> QED BY <3>3, <3>4, <1>6
  <2>5. open' # << >> BY <1>6
  <2>6. ast'[open'[1]].at = Global
    <3>1. CASE m = 0
      <4>1. open = << >> BY <3>1, <1>2, <1>5
      <4>2. current = Global BY <4>1, <2>1 DEF OpenNests
      <4>3. ast'[open'[1]] = e BY <3>1, <1>6
      <4> QED BY <4>2, <4>3, <1>1
    <3>2. CASE m # 0
      <4>1. 1 \in 1 .. m /\ open # << >> BY <3>2, <1>5, <1>6
      <4>2. ast[open[1]].at = Global BY <4>1, <2>1 DEF OpenNests
      <4> QED BY <4>1, <4>2, <2>2
    <3> QED BY <3>1, <3>2
  <2>7. current' = Inside(open[Len(open)])'
    <3>1. ast'[open'[Len(open')]] = e BY <1>6
    <3>2. e.at = current /\ e.kind = New'.kind /\ e.scope = New'.scope BY <1>1
    <3> QED BY <3>1, <3>2 DEF Inside
  <2> QED BY <2>3, <2>4, <2>5, <2>6, <2>7, <1>6 DEF OpenNests
<1>9. LeavesMatch'
  <2>1. ASSUME NEW b \in Events', ast'[b].op = "enter"
        PROVE  \/ \E i \in 1 .. Len(open') : open'[i] = b
               \/ \E l \in b + 1 .. Len(ast') : ast'[l].op = "leave" /\ ast'[l].block = b
    <3>1. CASE b = n + 1
      <4>1. m + 1 \in 1 .. Len(open') BY <1>6
      <4> QED BY <3>1, <4>1, <1>6
    <3>2. CASE b \in Events
      <4>1. ast[b].op = "enter" BY <2>1, <3>2, <1>1
      <4>2. CASE \E i \in 1 .. Len(open) : open[i] = b
        <5>1. PICK i \in 1 .. m : open[i] = b BY <4>2, <1>5
        <5>2. i \in 1 .. Len(open') /\ open'[i] = b BY <5>1, <1>6
        <5> QED BY <5>2
      <4>3. CASE \E l \in b + 1 .. Len(ast) : ast[l].op = "leave" /\ ast[l].block = b
        <5>1. PICK l \in b + 1 .. n : ast[l].op = "leave" /\ ast[l].block = b BY <4>3, <1>0
        <5>2. l \in Events /\ l \in b + 1 .. Len(ast') BY <3>2, <1>0, <1>1 DEF Events
        <5> QED BY <5>1, <5>2, <1>1
      <4> QED BY <3>2, <4>1, <4>2, <4>3 DEF Text, LeavesMatch
    <3> QED BY <3>1, <3>2, <1>1
  <2>2. ASSUME NEW l \in Events', ast'[l].op = "leave"
        PROVE  /\ ast'[l].block \in 1 .. l - 1
               /\ ast'[ast'[l].block].op = "enter"
               /\ ast'[ast'[l].block].kind = ast'[l].kind
               /\ ast'[l].at = Inside(ast[l].block)'
    <3>1. l \in Events BY <2>2, <1>1
    <3> QED BY <2>2, <3>1, LeavesKept
  <2> QED BY <2>1, <2>2 DEF LeavesMatch
<1>10. Progress'
  <2>1. \A l \in pos + 1 .. n : ~(ast[l].op = "leave" /\ ast[l].kind = "module")
    BY <1>0 DEF Text, Progress
  <2>2. ASSUME NEW l \in pos + 1 .. n + 1 PROVE ~(ast'[l].op = "leave" /\ ast'[l].kind = "module")
    <3>1. CASE l = n + 1 BY <3>1, <1>1
    <3>2. CASE l # n + 1
      <4>1. l \in pos + 1 .. n /\ l \in Events BY <3>2, <1>0, <1>1, <1>2 DEF Events
      <4> QED BY <4>1, <2>1, <1>1
    <3> QED BY <3>1, <3>2
  <2> QED BY <2>2, <1>1 DEF Progress
<1>11. HiddenScopes'
  <2>1. \A j \in Events' :
           /\ Makes(j)' <=> (ast'[j].op = "enter" /\ ast'[j].kind \in Scoped) \/ ast'[j].op = "enum"
           /\ ast'[j].op \in {"enter", "leave"} => ast'[j].kind \in Scoped \cup Unscoped
           /\ ast'[j].op = "enum" => ast'[j].hidden
    BY KindsKept
  <2>2. ASSUME NEW i \in 1 .. m + 1, ast'[open'[i]].kind \in Unscoped,
               NEW j \in open'[i] + 1 .. Len(ast'), Makes(j)'
        PROVE  ast'[j].hidden
    <3>1. CASE i = m + 1 BY <3>1, <2>2, <1>1, <1>6
    <3>2. CASE i \in 1 .. m
      <4>1. open'[i] = open[i] /\ open[i] \in Events BY <3>2, <1>6
      <4>2. ast[open[i]].kind \in Unscoped BY <2>2, <4>1, <1>1
      <4>3. CASE j = n + 1
        <5>1. New'.scope # None BY <2>2, <4>3, <1>1 DEF Makes
        <5> QED BY <3>2, <4>2, <4>3, <5>1, <1>1, <1>5
      <4>4. CASE j # n + 1
        <5>0. PICK b : b = open[i] OBVIOUS
        <5>6. b \in 1 .. n /\ j \in b + 1 .. n + 1 BY <4>1, <5>0, <1>0, <1>1 DEF Events
        <5>7. j \in b + 1 .. n /\ j \in 1 .. n BY <4>4, <5>6, <1>1
        <5>1. j \in open[i] + 1 .. n /\ j \in Events BY <5>0, <5>7, <1>0 DEF Events
        <5>2. Makes(j) BY <2>2, <5>1, <1>3
        <5>3. ast[j].hidden BY <3>2, <4>2, <5>1, <5>2, <1>0, <1>5 DEF Text, HiddenScopes
        <5> QED BY <5>1, <5>3, <1>1
      <4> QED BY <4>3, <4>4
    <3> QED BY <3>1, <3>2, <1>6
  <2>3. ASSUME NEW l \in Events', ast'[l].op = "leave", ast'[l].kind \in Unscoped,
               NEW j \in ast'[l].block + 1 .. l, Makes(j)'
        PROVE  ast'[j].hidden
    <3>1. l \in Events BY <2>3, <1>1
    <3> QED BY <2>3, <3>1, LeavesKept
  <2> QED BY <2>1, <2>2, <2>3, <1>6 DEF HiddenScopes
<1> QED BY <1>7, <1>8, <1>9, <1>10, <1>11 DEF Text

\* The innermost construct is left.
LEMMA TextLeave ==
  ASSUME TypeOK, Text, OneMore,
         phase = "parse", phase' \in IF New'.kind = "module" THEN {"codegen", "failed"} ELSE {"parse"},
         pos' = pos, open # << >>, open' = SubSeq(open, 1, Len(open) - 1),
         New'.op = "leave", New'.block = open[Len(open)],
         New'.kind = ast[open[Len(open)]].kind, New'.at = current, New'.scope = None,
         current' = ast[open[Len(open)]].at
  PROVE  Text'
<1>0. PICK n : n = Len(ast) OBVIOUS
<1> DEFINE e == ast'[n + 1]
<1>1. /\ n \in Nat /\ Len(ast') = n + 1 /\ New' = e /\ Events' = 1 .. n + 1
      /\ \A j \in Events : j \in Events' /\ ast'[j] = ast[j] /\ j # n + 1 /\ j \in Nat
      /\ \A j \in Events' : j \in Events \/ j = n + 1
      /\ n + 1 \in Events'
  BY <1>0, Reads
<1>2. /\ \A i \in 1 .. Len(open) : open[i] \in Events
      /\ Len(open) \in Nat /\ pos \in 0 .. n /\ open \in Seq(Events)
  BY <1>0, Types
<1>3. \A b \in Events : Inside(b)' = Inside(b) /\ (Makes(b)' <=> Makes(b))
  BY Prefix DEF Text
<1>4. PICK m : m = Len(open) OBVIOUS
<1>5. PICK b : b = open[m] OBVIOUS
<1>6. /\ m \in Nat /\ m >= 1 /\ Len(open') = m - 1 /\ b \in Events
      /\ \A i \in 1 .. m - 1 : open'[i] = open[i] /\ open[i] \in Events /\ i \in 1 .. m
      /\ m \in 1 .. m
  BY <1>2, <1>4, <1>5
<1>7. OpenNests /\ LeavesMatch /\ HiddenScopes /\ ParserPath BY DEF Text
<1>8. ast[b].op = "enter" /\ (m = 1 <=> ast[b].kind = "module") /\ current = Inside(b)
  BY <1>4, <1>5, <1>6, <1>7 DEF OpenNests
<1>9. /\ e.op = "leave" /\ e.block = b /\ e.kind = ast[b].kind /\ e.at = current
      /\ e.scope = None /\ current' = ast[b].at
  BY <1>1, <1>4, <1>5
<1>10. ParserPath'
  <2>1. ast'[n + 1].op = "leave" /\ n + 1 # 0 /\ ast'[ast'[n + 1].block].at = current'
    BY <1>1, <1>6, <1>9
  <2>2. After(n + 1)' = current' BY <2>1 DEF After
  <2>3. After(Len(ast))' = After(n + 1)' BY <1>1 DEF After
  <2> QED BY <2>2, <2>3, <1>1, <1>9, PathGoesOn
<1>11. OpenNests'
  <2>1. \A i \in 1 .. m - 1 : ast'[open'[i]] = ast[open[i]]
    BY <1>1, <1>6
  <2>2. ASSUME NEW i \in 1 .. m - 1
        PROVE  ast'[open'[i]].op = "enter" /\ (i = 1 <=> ast'[open'[i]].kind = "module")
    BY <2>1, <1>4, <1>6, <1>7 DEF OpenNests
  <2>3. ASSUME NEW i \in 2 .. m - 1 PROVE ast'[open'[i]].at = Inside(open[i - 1])'
    <3>1. i - 1 \in 1 .. m - 1 /\ i \in 1 .. m - 1 /\ i \in 2 .. m BY <1>6
    <3>2. Inside(open[i - 1])' = Inside(open[i - 1]) BY <3>1, <2>1 DEF Inside
    <3>3. ast[open[i]].at = Inside(open[i - 1]) BY <3>1, <1>4, <1>7 DEF OpenNests
    <3> QED BY <3>1, <3>2, <3>3, <2>1
  <2>4. CASE m = 1
    <3>1. open' = << >> BY <2>4, <1>2, <1>4
    <3>2. ast[b].kind = "module" BY <2>4, <1>8
    <3>3. phase' \in {"codegen", "failed"} BY <3>2, <1>1, <1>9
    <3>4. current' = Global
      <4>1. ast[open[1]].at = Global BY <1>7 DEF OpenNests
      <4> QED BY <4>1, <2>4, <1>5, <1>9
    <3> QED BY <3>1, <3>3, <3>4, <2>2, <2>3, <1>6 DEF OpenNests
  <2>5. CASE m # 1
    <3>1. m - 1 \in 1 .. m - 1 /\ 1 \in 1 .. m - 1 /\ m \in 2 .. m BY <2>5, <1>6
    <3>2. open' # << >>
      <4>1. Len(open') # 0 BY <2>5, <1>6
      <4>2. Len(<< >>) = 0 OBVIOUS
      <4> QED BY ONLY <4>1, <4>2
    <3>3. phase' = "parse"
      <4>1. ast[b].kind # "module" BY <2>5, <1>8
      <4> QED BY <4>1, <1>1, <1>9
    <3>4. ast'[open'[1]].at = Global
      <4>1. ast[open[1]].at = Global BY <1>7 DEF OpenNests
      <4> QED BY <4>1, <3>1, <2>1
    <3>5. current' = Inside(open[Len(open)])'
      <4>1. ast[open[m]].at = Inside(open[m - 1]) BY <3>1, <1>4, <1>7 DEF OpenNests
      <4>2. current' = Inside(open[m - 1]) BY <4>1, <1>5, <1>9
      <4>3. ast'[open'[m - 1]] = ast[open[m - 1]] BY <3>1, <2>1
      <4>4. Len(open') = m - 1 BY <1>6
      <4>5. ast'[open'[Len(open')]] = ast[open[m - 1]] BY <4>3, <4>4
      <4> QED BY <4>2, <4>5 DEF Inside
    <3> QED BY <3>2, <3>3, <3>4, <3>5, <2>2, <2>3, <1>6 DEF OpenNests
  <2> QED BY <2>4, <2>5
<1>12. LeavesMatch'
  <2>1. ASSUME NEW c \in Events', ast'[c].op = "enter"
        PROVE  \/ \E i \in 1 .. Len(open') : open'[i] = c
               \/ \E l \in c + 1 .. Len(ast') : ast'[l].op = "leave" /\ ast'[l].block = c
    <3>1. c \in Events BY <2>1, <1>1, <1>9
    <3>2. ast[c].op = "enter" BY <2>1, <3>1, <1>1
    <3>3. CASE c = b
      <4>1. n + 1 \in c + 1 .. Len(ast') BY <3>1, <1>0, <1>1 DEF Events
      <4> QED BY <3>3, <4>1, <1>9
    <3>4. CASE c # b /\ \E i \in 1 .. Len(open) : open[i] = c
      <4>1. PICK i \in 1 .. m : open[i] = c BY <3>4, <1>4
      <4>2. i # m BY <3>4, <4>1, <1>5
      <4>3. i \in 1 .. m - 1 BY <4>2, <1>6
      <4>4. i \in 1 .. Len(open') /\ open'[i] = c BY <4>1, <4>3, <1>6
      <4> QED BY <4>4
    <3>5. CASE \E l \in c + 1 .. Len(ast) : ast[l].op = "leave" /\ ast[l].block = c
      <4>1. PICK l \in c + 1 .. n : ast[l].op = "leave" /\ ast[l].block = c BY <3>5, <1>0
      <4>2. l \in Events /\ l \in c + 1 .. Len(ast') BY <3>1, <1>0, <1>1 DEF Events
      <4> QED BY <4>1, <4>2, <1>1
    <3> QED BY <3>1, <3>2, <3>3, <3>4, <3>5, <1>7 DEF LeavesMatch
  <2>2. ASSUME NEW l \in Events', ast'[l].op = "leave"
        PROVE  /\ ast'[l].block \in 1 .. l - 1
               /\ ast'[ast'[l].block].op = "enter"
               /\ ast'[ast'[l].block].kind = ast'[l].kind
               /\ ast'[l].at = Inside(ast[l].block)'
    <3>1. CASE l \in Events BY <2>2, <3>1, LeavesKept
    <3>2. CASE l = n + 1
      <4>1. b \in 1 .. n BY <1>0, <1>6 DEF Events
      <4>2. ast'[b] = ast[b] BY <1>1, <1>6
      <4>3. Inside(b)' = Inside(b) BY <1>3, <1>6
      <4>4. Inside(ast[l].block)' = Inside(b)' BY <3>2, <1>9 DEF Inside
      <4> QED BY <3>2, <4>1, <4>2, <4>3, <4>4, <1>1, <1>8, <1>9
    <3> QED BY <3>1, <3>2, <1>1
  <2> QED BY <2>1, <2>2 DEF LeavesMatch
<1>13. Progress'
  <2>1. \A l \in pos + 1 .. n : ~(ast[l].op = "leave" /\ ast[l].kind = "module")
    BY <1>0 DEF Text, Progress
  <2>2. ASSUME NEW l \in pos + 1 .. n + 1, l # n + 1
        PROVE  ~(ast'[l].op = "leave" /\ ast'[l].kind = "module")
    <3>1. l \in pos + 1 .. n /\ l \in Events BY <2>2, <1>0, <1>1, <1>2 DEF Events
    <3> QED BY <3>1, <2>1, <1>1
  <2>3. CASE ast[b].kind = "module"
    <3>1. phase' \in {"codegen", "failed"} /\ pos < n + 1 BY <2>3, <1>1, <1>2, <1>9
    <3>2. ast'[Len(ast')].op = "leave" /\ ast'[Len(ast')].kind = "module"
      BY <2>3, <1>1, <1>9
    <3> QED BY <3>1, <3>2, <2>2, <1>1 DEF Progress
  <2>4. CASE ast[b].kind # "module"
    <3>1. phase' = "parse" BY <2>4, <1>1, <1>9
    <3>2. \A l \in pos + 1 .. n + 1 : ~(ast'[l].op = "leave" /\ ast'[l].kind = "module")
      BY <2>2, <2>4, <1>9
    <3> QED BY <3>1, <3>2, <1>1 DEF Progress
  <2> QED BY <2>3, <2>4
<1>14. HiddenScopes'
  <2>0. e.kind \in Scoped \cup Unscoped BY <1>6, <1>7, <1>8, <1>9 DEF HiddenScopes
  <2>1. \A j \in Events' :
           /\ Makes(j)' <=> (ast'[j].op = "enter" /\ ast'[j].kind \in Scoped) \/ ast'[j].op = "enum"
           /\ ast'[j].op \in {"enter", "leave"} => ast'[j].kind \in Scoped \cup Unscoped
           /\ ast'[j].op = "enum" => ast'[j].hidden
    BY <2>0, <1>1, <1>9, KindsKept
  <2>2. ~Makes(n + 1)' BY <1>9 DEF Makes
  <2>3. ASSUME NEW i \in 1 .. m, ast[open[i]].kind \in Unscoped,
               NEW j \in open[i] + 1 .. Len(ast'), Makes(j)'
        PROVE  ast'[j].hidden
    <3>0. PICK c : c = open[i] OBVIOUS
    <3>1. c \in 1 .. n /\ j \in c + 1 .. n + 1 BY <2>3, <3>0, <1>0, <1>1, <1>2, <1>4 DEF Events
    <3>2. j # n + 1 BY <2>2, <2>3
    <3>3. j \in c + 1 .. n /\ j \in 1 .. n BY <3>1, <3>2, <1>1
    <3>4. j \in open[i] + 1 .. n /\ j \in Events BY <3>0, <3>3, <1>0 DEF Events
    <3>5. Makes(j) BY <2>3, <3>4, <1>3
    <3>6. ast[j].hidden BY <2>3, <3>4, <3>5, <1>0, <1>4, <1>7 DEF HiddenScopes
    <3> QED BY <3>4, <3>6, <1>1
  <2>4. ASSUME NEW i \in 1 .. m - 1, ast'[open'[i]].kind \in Unscoped,
               NEW j \in open'[i] + 1 .. Len(ast'), Makes(j)'
        PROVE  ast'[j].hidden
    <3>1. i \in 1 .. m /\ open'[i] = open[i] /\ ast[open[i]].kind \in Unscoped
      BY <2>4, <1>1, <1>6
    <3> QED BY <2>3, <2>4, <3>1
  <2>5. ASSUME NEW l \in Events', ast'[l].op = "leave", ast'[l].kind \in Unscoped,
               NEW j \in ast'[l].block + 1 .. l, Makes(j)'
        PROVE  ast'[j].hidden
    <3>1. CASE l \in Events BY <2>5, <3>1, LeavesKept
    <3>2. CASE l = n + 1
      <4>1. ast[open[m]].kind \in Unscoped BY <2>5, <3>2, <1>5, <1>9
      <4>2. j \in open[m] + 1 .. Len(ast') BY <2>5, <3>2, <1>1, <1>5, <1>9
      <4> QED BY <2>3, <2>5, <4>1, <4>2, <1>6
    <3> QED BY <3>1, <3>2, <1>1
  <2> QED BY <2>1, <2>4, <2>5, <1>6 DEF HiddenScopes
<1> QED BY <1>10, <1>11, <1>12, <1>13, <1>14 DEF Text

-----------------------------------------------------------------------------
(***************************************************************************)
(* The tree and the cursors, while the parser is at work: Tree and Walk.   *)
(***************************************************************************)

\* What MadeScopes says of one event.
LEMMA MadeFields ==
  ASSUME TypeOK, MadeScopes, NEW j \in Events, Makes(j)
  PROVE  /\ ast[j].scope \in Scopes /\ ast[j].at \in Scopes
         /\ ast[j].ord \in Nat /\ ast[j].ord >= 1
         /\ ast[j].ord <= Len(scopes[ast[j].at].children)
         /\ Len(scopes[ast[j].at].children) \in Nat
         /\ ast[j].ord \in 1 .. Len(scopes[ast[j].at].children)
         /\ scopes[ast[j].at].children[ast[j].ord] = ast[j].scope
         /\ scopes[ast[j].scope].parent = ast[j].at
         /\ scopes[ast[j].scope].kind \notin BuiltinKind
         /\ scopes[ast[j].scope].kind = "module" <=> ast[j].kind = "module"
         /\ ast[j].kind = "class" => scopes[ast[j].scope].name \in VarName
<1>1. /\ ast[j].scope \in Scopes /\ ast[j].at \in Scopes
      /\ ast[j].ord \in 1 .. Len(scopes[ast[j].at].children)
      /\ scopes[ast[j].at].children[ast[j].ord] = ast[j].scope
      /\ scopes[ast[j].scope].parent = ast[j].at
      /\ scopes[ast[j].scope].kind \notin BuiltinKind
      /\ scopes[ast[j].scope].kind = "module" <=> ast[j].kind = "module"
      /\ ast[j].kind = "class" => scopes[ast[j].scope].name \in VarName
  BY DEF MadeScopes
<1>2. Len(scopes[ast[j].at].children) \in Nat
  BY <1>1, Types, ScopeFields DEF Scopes
<1>3. ast[j].ord \in Nat /\ ast[j].ord >= 1 /\ ast[j].ord <= Len(scopes[ast[j].at].children)
  BY <1>1, <1>2
<1> QED BY <1>1, <1>2, <1>3

\* No child of an inner scope is Global or a module.
LEMMA InnerIsNoModule ==
  ASSUME TreeShape, NEW c, Inner(scopes, c)
  PROVE  c # Global /\ scopes[c].kind # "module"
<1>1. PICK t \in Scopes : t # Global /\ \E k \in 1 .. Len(scopes[t].children) : scopes[t].children[k] = c
  BY DEF Inner, Scopes
<1>2. PICK k \in 1 .. Len(scopes[t].children) : scopes[t].children[k] = c BY <1>1
<1> QED BY <1>1, <1>2 DEF TreeShape

\* No scope is made, but some may be shared by an import.
LEMMA TreeKept ==
  ASSUME TypeOK, TypeOK', Tree, Walk, phase # "failed",
         Len(ast) <= Len(ast'), \A j \in Events : ast'[j] = ast[j],
         \A j \in Len(ast) + 1 .. Len(ast') : ~Makes(j)',
         Copied(scopes, scopes'),
         (\A s \in Scopes : scopes'[s].external = scopes[s].external) \/ phase = "imports",
         phase' = "imports" => phase = "imports",
         pos' = pos, cg' = cg, After(pos)' = After(pos)
  PROVE  Tree' /\ Walk'
<1>0. PICK n : n = Len(ast) OBVIOUS
<1>1. /\ n \in Nat /\ Len(ast') \in Nat /\ pos \in 0 .. n
      /\ IsTree(scopes) /\ IsTree(scopes') /\ Len(scopes) \in Nat
  BY <1>0, Types DEF TypeOK
<1>2. \A j \in Events' : Makes(j)' => j \in Events /\ Makes(j) /\ ast'[j] = ast[j]
  <2> SUFFICES ASSUME NEW j \in Events', Makes(j)' PROVE j \in Events /\ Makes(j) /\ ast'[j] = ast[j]
    OBVIOUS
  <2>1. j \in 1 .. n BY <1>0, <1>1 DEF Events
  <2>2. j \in Events BY <2>1, <1>0 DEF Events
  <2> QED BY <2>2 DEF Makes
<1>3. \A j \in Events : j \in Events' /\ (Makes(j) => Makes(j)')
  BY <1>1 DEF Events, Makes
<1>4. Scopes' = Scopes BY DEF Copied, Scopes
<1>5. \A s \in Scopes :
        /\ scopes'[s].kind = scopes[s].kind /\ scopes'[s].name = scopes[s].name
        /\ scopes'[s].parent = scopes[s].parent /\ scopes'[s].cursor = scopes[s].cursor
        /\ Len(scopes[s].children) <= Len(scopes'[s].children)
        /\ \A k \in 1 .. Len(scopes[s].children) : scopes'[s].children[k] = scopes[s].children[k]
        /\ scopes[s].external => scopes'[s].external
        /\ scopes'[s].external => scopes[s].external \/ Inner(scopes, s)
  BY DEF Copied, Grown, Scopes
<1>6. \A s \in Scopes : /\ Len(scopes[s].children) \in Nat /\ Len(scopes'[s].children) \in Nat
                        /\ scopes[s].cursor \in Nat
  BY <1>1, <1>4, ScopeFields DEF Scopes
<1>7. MadeScopes /\ TreeShape /\ TextOrder /\ ImportsFirst /\ ExternalIsGenerated /\ Cursors /\ Sync
  BY DEF Tree, Walk
<1>8. MadeScopes'
  <2> SUFFICES ASSUME NEW j \in Events', Makes(j)'
               PROVE  /\ ast'[j].scope \in Scopes'
                      /\ ast'[j].at \in Scopes'
                      /\ ast'[j].ord \in 1 .. Len(scopes'[ast'[j].at].children)
                      /\ scopes'[ast'[j].at].children[ast'[j].ord] = ast'[j].scope
                      /\ scopes'[ast'[j].scope].parent = ast'[j].at
                      /\ scopes'[ast'[j].scope].kind \notin BuiltinKind
                      /\ scopes'[ast'[j].scope].kind = "module" <=> ast'[j].kind = "module"
                      /\ ast'[j].kind = "class" => scopes'[ast'[j].scope].name \in VarName
    BY DEF MadeScopes
  <2>1. j \in Events /\ Makes(j) /\ ast'[j] = ast[j] BY <1>2
  <2>2. /\ ast[j].scope \in Scopes /\ ast[j].at \in Scopes
        /\ ast[j].ord \in 1 .. Len(scopes[ast[j].at].children)
        /\ scopes[ast[j].at].children[ast[j].ord] = ast[j].scope
        /\ scopes[ast[j].scope].parent = ast[j].at
        /\ scopes[ast[j].scope].kind \notin BuiltinKind
        /\ scopes[ast[j].scope].kind = "module" <=> ast[j].kind = "module"
        /\ ast[j].kind = "class" => scopes[ast[j].scope].name \in VarName
    BY <2>1, <1>7, MadeFields
  <2>3. ast[j].ord \in 1 .. Len(scopes'[ast[j].at].children)
    <3>1. ast[j].ord \in Nat /\ ast[j].ord >= 1 /\ ast[j].ord <= Len(scopes[ast[j].at].children)
      BY <2>1, <1>7, MadeFields
    <3>2. /\ Len(scopes[ast[j].at].children) \in Nat /\ Len(scopes'[ast[j].at].children) \in Nat
          /\ Len(scopes[ast[j].at].children) <= Len(scopes'[ast[j].at].children)
      BY <2>2, <1>5, <1>6
    <3> DEFINE k == ast[j].ord
               a == Len(scopes[ast[j].at].children)
               b == Len(scopes'[ast[j].at].children)
    <3>3. k \in Nat /\ a \in Nat /\ b \in Nat /\ k >= 1 /\ k <= a /\ a <= b BY <3>1, <3>2
    <3> HIDE DEF k, a, b
    <3>4. k \in 1 .. b BY ONLY <3>3
    <3> QED BY ONLY <3>4 DEF k, b
  <2>4. scopes'[ast[j].at].children[ast[j].ord] = ast[j].scope BY <2>2, <1>5
  <2> QED BY <2>1, <2>2, <2>3, <2>4, <1>4, <1>5
<1>9. TreeShape'
  <2> SUFFICES ASSUME NEW s \in Scopes, NEW k \in 1 .. Len(scopes'[s].children),
                      NEW c, c = scopes'[s].children[k]
               PROVE  /\ c # Global
                      /\ s # Global => scopes'[c].kind # "module"
                      /\ \/ Skippable(scopes', c)
                         \/ \E j \in Events' : Makes(j)' /\ ast'[j].at = s /\ ast'[j].ord = k
    BY <1>4 DEF TreeShape
  <2>0. c \in Scopes BY <1>1, <1>4, ScopeFields DEF Scopes
  <2>1. CASE k \in 1 .. Len(scopes[s].children)
    <3>1. c = scopes[s].children[k] BY <2>1, <1>5
    <3>2. /\ c # Global /\ (s # Global => scopes[c].kind # "module")
          /\ Skippable(scopes, c) \/ \E j \in Events : Makes(j) /\ ast[j].at = s /\ ast[j].ord = k
      BY <2>1, <3>1, <1>7 DEF TreeShape
    <3>3. Skippable(scopes, c) => Skippable(scopes', c) BY <2>0, <1>5 DEF Skippable
    <3> QED BY <3>2, <3>3, <2>0, <1>3, <1>5
  <2>2. CASE k \notin 1 .. Len(scopes[s].children)
    <3>1. k \in Len(scopes[s].children) + 1 .. Len(scopes'[s].children) BY <2>2, <1>6
    <3>2. scopes'[c].external /\ Inner(scopes, c) BY <3>1 DEF Copied, Scopes
    <3>3. c # Global /\ scopes[c].kind # "module" BY <3>2, <1>7, InnerIsNoModule
    <3> QED BY <3>2, <3>3, <2>0, <1>5 DEF Skippable
  <2> QED BY <2>1, <2>2
<1>10. TextOrder'
  BY <1>2, <1>7 DEF TextOrder
<1>11. ImportsFirst'
  <2> SUFFICES ASSUME phase' = "imports", NEW j \in pos + 1 .. Len(ast'), Makes(j)'
               PROVE  ast'[j].kind = "module"
    BY DEF ImportsFirst
  <2>1. j \in Events' BY <1>1 DEF Events
  <2>2. j \in Events /\ Makes(j) /\ ast'[j] = ast[j] BY <2>1, <1>2
  <2>3. j \in pos + 1 .. Len(ast) BY <2>2, <1>0, <1>1 DEF Events
  <2> QED BY <2>2, <2>3, <1>7 DEF ImportsFirst
<1>12. ExternalIsGenerated'
  <2> SUFFICES ASSUME NEW j \in Events', Makes(j)', scopes'[ast'[j].scope].external
               PROVE  j <= pos
    BY DEF ExternalIsGenerated, Makes
  <2>1. j \in Events /\ Makes(j) /\ ast'[j] = ast[j] BY <1>2
  <2>2. ast[j].scope \in Scopes BY <2>1, <1>7, MadeFields
  <2>3. CASE scopes[ast[j].scope].external
    BY <2>1, <2>3, <1>7 DEF ExternalIsGenerated, Makes
  <2>4. CASE ~scopes[ast[j].scope].external
    <3>1. phase = "imports" BY <2>1, <2>2, <2>4
    <3>2. Inner(scopes, ast[j].scope) BY <2>1, <2>2, <2>4, <1>5
    <3>3. scopes[ast[j].scope].kind # "module" BY <3>2, <1>7, InnerIsNoModule
    <3>4. ast[j].kind # "module" BY <3>3, <2>1, <1>7, MadeFields
    <3>5. j \notin pos + 1 .. Len(ast) BY <3>1, <3>4, <2>1, <1>7 DEF ImportsFirst
    <3> QED BY <3>5, <2>1, <1>0, <1>1 DEF Events
  <2> QED BY <2>3, <2>4
<1>13. Pure' => Pure
  <2> SUFFICES ASSUME Pure', NEW j \in 1 .. pos PROVE ~ast[j].hidden BY DEF Pure
  <2>1. j \in Events BY <1>0, <1>1 DEF Events
  <2> QED BY <2>1 DEF Pure
<1>14. Cursors'
  <2> SUFFICES ASSUME Pure'
               PROVE  /\ \A s \in Scopes' : scopes'[s].cursor <= Len(scopes'[s].children)
                      /\ \A j \in Events' : Makes(j)' =>
                           IF j <= pos THEN ast'[j].ord <= scopes'[ast'[j].at].cursor
                           ELSE scopes'[ast'[j].at].cursor < ast'[j].ord
    BY DEF Cursors
  <2>1. /\ \A s \in Scopes : scopes[s].cursor <= Len(scopes[s].children)
        /\ \A j \in Events : Makes(j) =>
             IF j <= pos THEN ast[j].ord <= scopes[ast[j].at].cursor
             ELSE scopes[ast[j].at].cursor < ast[j].ord
    BY <1>7, <1>13 DEF Cursors
  <2>2. \A s \in Scopes' : scopes'[s].cursor <= Len(scopes'[s].children)
    BY <2>1, <1>4, <1>5, <1>6
  <2>3. ASSUME NEW j \in Events', Makes(j)'
        PROVE  IF j <= pos THEN ast'[j].ord <= scopes'[ast'[j].at].cursor
               ELSE scopes'[ast'[j].at].cursor < ast'[j].ord
    <3>1. j \in Events /\ Makes(j) /\ ast'[j] = ast[j] BY <2>3, <1>2
    <3>2. ast[j].at \in Scopes BY <3>1, <1>7, MadeFields
    <3> QED BY <3>1, <3>2, <2>1, <1>5
  <2> QED BY <2>2, <2>3
<1>15. Sync'
  BY <1>7, <1>13 DEF Sync
<1> QED BY <1>8, <1>9, <1>10, <1>11, <1>12, <1>14, <1>15 DEF Tree, Walk

\* A scope is made.
LEMMA TreeMade ==
  ASSUME TypeOK, TypeOK', Tree, Walk, OneMore, phase # "failed",
         New'.at = current,
         Made(scopes, scopes', current, New'.scope, New'.ord),
         scopes'[New'.scope].kind \notin BuiltinKind,
         scopes'[New'.scope].kind = "module" <=> New'.kind = "module",
         New'.kind = "class" => scopes'[New'.scope].name \in VarName,
         New'.kind = "module" => current = Global,
         phase' = "imports" => pos = Len(ast) /\ New'.kind = "module",
         pos' = pos, cg' = cg, After(pos)' = After(pos)
  PROVE  Tree' /\ Walk'
<1>0. PICK n : n = Len(ast) OBVIOUS
<1> DEFINE e == ast'[n + 1]
<1>1. /\ n \in Nat /\ Len(ast') = n + 1 /\ New' = e /\ Events' = 1 .. n + 1
      /\ \A j \in Events : j \in Events' /\ ast'[j] = ast[j] /\ j # n + 1 /\ j \in Nat
      /\ \A j \in Events' : j \in Events \/ j = n + 1
      /\ n + 1 \in Events'
  BY <1>0, Reads
<1>2. /\ IsTree(scopes) /\ IsTree(scopes') /\ Len(scopes) \in Nat /\ pos \in 0 .. n
      /\ Len(scopes') \in Nat /\ current \in Scopes /\ Len(scopes) <= Len(scopes')
  BY <1>0, Types DEF TypeOK, Made, Grown, IsTree
<1>3. \A j \in Events : (Makes(j)' <=> Makes(j)) BY <1>1 DEF Makes
<1>4. \A s \in Scopes :
        /\ s \in Scopes'
        /\ scopes'[s].kind = scopes[s].kind /\ scopes'[s].name = scopes[s].name
        /\ scopes'[s].parent = scopes[s].parent /\ scopes'[s].cursor = scopes[s].cursor
        /\ scopes'[s].external = scopes[s].external
        /\ Len(scopes[s].children) <= Len(scopes'[s].children)
        /\ \A k \in 1 .. Len(scopes[s].children) : scopes'[s].children[k] = scopes[s].children[k]
  <2>1. \A s \in Scopes : s \in Scopes' BY <1>2 DEF Scopes
  <2>2. \A s \in Scopes :
        /\ scopes'[s].kind = scopes[s].kind /\ scopes'[s].name = scopes[s].name
        /\ scopes'[s].parent = scopes[s].parent /\ scopes'[s].cursor = scopes[s].cursor
        /\ scopes'[s].external = scopes[s].external
        /\ Len(scopes[s].children) <= Len(scopes'[s].children)
        /\ \A k \in 1 .. Len(scopes[s].children) : scopes'[s].children[k] = scopes[s].children[k]
    BY DEF Made, Grown, Scopes
  <2> QED BY <2>1, <2>2
<1>5. /\ \A s \in Scopes : Len(scopes[s].children) \in Nat /\ scopes[s].cursor \in Nat
      /\ \A s \in Scopes' : Len(scopes'[s].children) \in Nat
  BY <1>2, ScopeFields DEF Scopes
<1>6. MadeScopes /\ TreeShape /\ TextOrder /\ ImportsFirst /\ ExternalIsGenerated /\ Cursors /\ Sync
  BY DEF Tree, Walk
<1>7. PICK c, ord : c = e.scope /\ ord = e.ord OBVIOUS
<1>8. /\ c \in Scopes' /\ c \notin Scopes /\ c > Len(scopes) /\ c # None /\ c # Global
      /\ scopes'[c].parent = current
      /\ scopes'[current].children[ord] = c
      /\ ord \in Nat /\ ord > Len(scopes[current].children)
      /\ ord \in 1 .. Len(scopes'[current].children)
      /\ ~scopes'[c].external
      /\ Makes(n + 1)' /\ e.at = current
  <2>1. c \in Len(scopes) + 1 .. Len(scopes') /\ scopes'[c].parent = current
        /\ ord \in Len(scopes[current].children) + 1 .. Len(scopes'[current].children)
        /\ scopes'[current].children[ord] = c /\ ~scopes'[c].external
    BY <1>1, <1>7 DEF Made
  <2>2. Len(scopes) >= 1 BY <1>2 DEF Scopes
  <2>3. c \in Scopes' /\ c \notin Scopes /\ c > Len(scopes) /\ c # None /\ c # Global
    BY <2>1, <2>2, <1>2 DEF Scopes, None, Global
  <2>4. ord \in Nat /\ ord > Len(scopes[current].children)
        /\ ord \in 1 .. Len(scopes'[current].children)
    <3>1. Len(scopes[current].children) \in Nat /\ Len(scopes'[current].children) \in Nat
      BY <1>2, <1>4, <1>5
    <3> QED BY <2>1, <3>1
  <2>5. Makes(n + 1)' BY <2>3, <1>7 DEF Makes
  <2> QED BY <2>1, <2>3, <2>4, <2>5, <1>1
<1>9. MadeScopes'
  <2> SUFFICES ASSUME NEW j \in Events', Makes(j)'
               PROVE  /\ ast'[j].scope \in Scopes'
                      /\ ast'[j].at \in Scopes'
                      /\ ast'[j].ord \in 1 .. Len(scopes'[ast'[j].at].children)
                      /\ scopes'[ast'[j].at].children[ast'[j].ord] = ast'[j].scope
                      /\ scopes'[ast'[j].scope].parent = ast'[j].at
                      /\ scopes'[ast'[j].scope].kind \notin BuiltinKind
                      /\ scopes'[ast'[j].scope].kind = "module" <=> ast'[j].kind = "module"
                      /\ ast'[j].kind = "class" => scopes'[ast'[j].scope].name \in VarName
    BY DEF MadeScopes
  <2>1. CASE j \in Events
    <3>1. Makes(j) /\ ast'[j] = ast[j] BY <2>1, <1>1, <1>3
    <3>2. /\ ast[j].scope \in Scopes /\ ast[j].at \in Scopes
          /\ ast[j].ord \in 1 .. Len(scopes[ast[j].at].children)
          /\ scopes[ast[j].at].children[ast[j].ord] = ast[j].scope
          /\ scopes[ast[j].scope].parent = ast[j].at
          /\ scopes[ast[j].scope].kind \notin BuiltinKind
          /\ scopes[ast[j].scope].kind = "module" <=> ast[j].kind = "module"
          /\ ast[j].kind = "class" => scopes[ast[j].scope].name \in VarName
      BY <2>1, <3>1, <1>6, MadeFields
    <3>3. ast[j].ord \in 1 .. Len(scopes'[ast[j].at].children)
      <4>1. ast[j].ord \in Nat /\ ast[j].ord >= 1 /\ ast[j].ord <= Len(scopes[ast[j].at].children)
        BY <2>1, <3>1, <1>6, MadeFields
      <4>2. /\ Len(scopes[ast[j].at].children) \in Nat /\ Len(scopes'[ast[j].at].children) \in Nat
            /\ Len(scopes[ast[j].at].children) <= Len(scopes'[ast[j].at].children)
        BY <3>2, <1>4, <1>5
      <4> DEFINE k == ast[j].ord
                 a == Len(scopes[ast[j].at].children)
                 b == Len(scopes'[ast[j].at].children)
      <4>3. k \in Nat /\ a \in Nat /\ b \in Nat /\ k >= 1 /\ k <= a /\ a <= b BY <4>1, <4>2
      <4> HIDE DEF k, a, b
      <4>4. k \in 1 .. b BY ONLY <4>3
      <4> QED BY ONLY <4>4 DEF k, b
    <3>4. scopes'[ast[j].at].children[ast[j].ord] = ast[j].scope BY <3>2, <1>4
    <3> QED BY <3>1, <3>2, <3>3, <3>4, <1>4
  <2>2. CASE j = n + 1
    BY <2>2, <1>1, <1>2, <1>4, <1>7, <1>8
  <2> QED BY <2>1, <2>2, <1>1
<1>10. TreeShape'
  <2> SUFFICES ASSUME NEW s \in Scopes', NEW k \in 1 .. Len(scopes'[s].children),
                      NEW d, d = scopes'[s].children[k]
               PROVE  /\ d # Global
                      /\ s # Global => scopes'[d].kind # "module"
                      /\ \/ Skippable(scopes', d)
                         \/ \E j \in Events' : Makes(j)' /\ ast'[j].at = s /\ ast'[j].ord = k
    BY DEF TreeShape
  <2>1. CASE s \in Scopes /\ k \in 1 .. Len(scopes[s].children)
    <3>1. d = scopes[s].children[k] BY <2>1, <1>4
    <3>2. /\ d # Global /\ (s # Global => scopes[d].kind # "module")
          /\ Skippable(scopes, d) \/ \E j \in Events : Makes(j) /\ ast[j].at = s /\ ast[j].ord = k
      BY <2>1, <3>1, <1>6 DEF TreeShape
    <3>3. d \in Scopes BY <2>1, <3>1, <1>2, ScopeFields DEF Scopes
    <3>4. Skippable(scopes, d) => Skippable(scopes', d) BY <3>3, <1>4 DEF Skippable
    <3>5. (\E j \in Events : Makes(j) /\ ast[j].at = s /\ ast[j].ord = k)
            => \E j \in Events' : Makes(j)' /\ ast'[j].at = s /\ ast'[j].ord = k
      BY <1>1, <1>3
    <3>6. s # Global => scopes'[d].kind # "module" BY <3>2, <3>3, <1>4
    <3> QED BY <3>2, <3>4, <3>5, <3>6
  <2>2. CASE s = current /\ k = ord
    <3>1. d = c BY <2>2, <1>8
    <3>2. \E j \in Events' : Makes(j)' /\ ast'[j].at = s /\ ast'[j].ord = k
      BY <2>2, <1>1, <1>7, <1>8
    <3>3. s # Global => scopes'[d].kind # "module" BY <2>2, <3>1, <1>1, <1>7
    <3> QED BY <3>1, <3>2, <3>3, <1>8
  <2>3. CASE d > Len(scopes) /\ scopes'[d].kind \in BuiltinKind
    <3>1. Len(scopes) >= 1 BY <1>2 DEF Scopes
    <3>2. d # Global BY <2>3, <3>1, <1>2 DEF Global
    <3>3. scopes'[d].kind # "module" BY <2>3 DEF BuiltinKind
    <3> QED BY <2>3, <3>2, <3>3 DEF Skippable
  <2>4. \/ s \in Scopes /\ k \in 1 .. Len(scopes[s].children)
        \/ s = current /\ k = ord
        \/ d > Len(scopes) /\ scopes'[d].kind \in BuiltinKind
    BY <1>1, <1>7 DEF Made, Scopes
  <2> QED BY <2>1, <2>2, <2>3, <2>4
<1>11. TextOrder'
  <2> SUFFICES ASSUME NEW i \in Events', NEW j \in Events', i < j, Makes(i)', Makes(j)',
                      ast'[i].at = ast'[j].at
               PROVE  ast'[i].ord < ast'[j].ord
    BY DEF TextOrder
  <2>1. i \in Events BY <1>1 DEF Events
  <2>2. CASE j \in Events BY <2>1, <2>2, <1>1, <1>3, <1>6 DEF TextOrder
  <2>3. CASE j = n + 1
    <3>1. Makes(i) /\ ast'[i] = ast[i] /\ ast[i].at = current BY <2>1, <2>3, <1>1, <1>3, <1>8
    <3>2. ast[i].ord \in Nat /\ ast[i].ord <= Len(scopes[current].children)
      BY <2>1, <3>1, <1>6, MadeFields
    <3>3. Len(scopes[current].children) \in Nat BY <1>2, <1>5
    <3>4. ast[i].ord < ord BY <3>2, <3>3, <1>8
    <3> QED BY <2>3, <3>1, <3>4, <1>7
  <2> QED BY <2>2, <2>3, <1>1
<1>12. ImportsFirst'
  <2> SUFFICES ASSUME phase' = "imports", NEW j \in pos + 1 .. Len(ast'), Makes(j)'
               PROVE  ast'[j].kind = "module"
    BY DEF ImportsFirst
  <2>1. j = n + 1 BY <1>0, <1>1
  <2> QED BY <2>1, <1>1
<1>13. ExternalIsGenerated'
  <2> SUFFICES ASSUME NEW j \in Events', Makes(j)', scopes'[ast'[j].scope].external
               PROVE  j <= pos
    BY DEF ExternalIsGenerated, Makes
  <2>1. j # n + 1 BY <1>7, <1>8
  <2>2. j \in Events /\ Makes(j) /\ ast'[j] = ast[j] BY <2>1, <1>1, <1>3
  <2>3. ast[j].scope \in Scopes BY <2>2, <1>6, MadeFields
  <2> QED BY <2>2, <2>3, <1>4, <1>6 DEF ExternalIsGenerated, Makes
<1>14. Pure' => Pure
  <2> SUFFICES ASSUME Pure', NEW j \in 1 .. pos PROVE ~ast[j].hidden BY DEF Pure
  <2>1. j \in Events BY <1>0, <1>1, <1>2 DEF Events
  <2> QED BY <2>1, <1>1 DEF Pure
<1>15. Cursors'
  <2> SUFFICES ASSUME Pure'
               PROVE  /\ \A s \in Scopes' : scopes'[s].cursor <= Len(scopes'[s].children)
                      /\ \A j \in Events' : Makes(j)' =>
                           IF j <= pos THEN ast'[j].ord <= scopes'[ast'[j].at].cursor
                           ELSE scopes'[ast'[j].at].cursor < ast'[j].ord
    BY DEF Cursors
  <2>1. /\ \A s \in Scopes : scopes[s].cursor <= Len(scopes[s].children)
        /\ \A j \in Events : Makes(j) =>
             IF j <= pos THEN ast[j].ord <= scopes[ast[j].at].cursor
             ELSE scopes[ast[j].at].cursor < ast[j].ord
    BY <1>6, <1>14 DEF Cursors
  <2>2. ASSUME NEW s \in Scopes' PROVE scopes'[s].cursor <= Len(scopes'[s].children)
    <3>1. CASE s \in Scopes
      <4>1. scopes[s].cursor <= Len(scopes[s].children) /\ scopes'[s].cursor = scopes[s].cursor
            /\ Len(scopes[s].children) <= Len(scopes'[s].children)
        BY <3>1, <2>1, <1>4
      <4>2. scopes[s].cursor \in Nat /\ Len(scopes[s].children) \in Nat
            /\ Len(scopes'[s].children) \in Nat
        BY <3>1, <1>5
      <4> QED BY <4>1, <4>2
    <3>2. CASE s \notin Scopes
      <4>1. s \in Len(scopes) + 1 .. Len(scopes') BY <3>2, <1>2 DEF Scopes
      <4>2. scopes'[s].cursor = 0 BY <4>1 DEF Made
      <4> QED BY <4>2, <1>5
    <3> QED BY <3>1, <3>2
  <2>3. ASSUME NEW j \in Events', Makes(j)'
        PROVE  IF j <= pos THEN ast'[j].ord <= scopes'[ast'[j].at].cursor
               ELSE scopes'[ast'[j].at].cursor < ast'[j].ord
    <3>1. CASE j \in Events
      <4>1. Makes(j) /\ ast'[j] = ast[j] BY <2>3, <3>1, <1>1, <1>3
      <4>2. ast[j].at \in Scopes BY <3>1, <4>1, <1>6, MadeFields
      <4> QED BY <3>1, <4>1, <4>2, <2>1, <1>4
    <3>2. CASE j = n + 1
      <4>1. ~(j <= pos) BY <3>2, <1>1, <1>2
      <4>2. scopes'[current].cursor = scopes[current].cursor
            /\ scopes[current].cursor <= Len(scopes[current].children)
        BY <2>1, <1>2, <1>4
      <4>3. scopes[current].cursor \in Nat /\ Len(scopes[current].children) \in Nat
        BY <1>2, <1>5
      <4>4. scopes'[current].cursor < ord BY <4>2, <4>3, <1>8
      <4> QED BY <3>2, <4>1, <4>4, <1>7, <1>8
    <3> QED BY <3>1, <3>2, <1>1
  <2> QED BY <2>2, <2>3
<1>16. Sync'
  BY <1>6, <1>14 DEF Sync
<1> QED BY <1>9, <1>10, <1>11, <1>12, <1>13, <1>15, <1>16 DEF Tree, Walk

-----------------------------------------------------------------------------
(***************************************************************************)
(* The parser's steps.                                                     *)
(***************************************************************************)

Op == {"enter", "leave", "var", "use", "return", "enum", "else", "import"}
EventKind ==
  Scoped \cup Unscoped
    \cup {"plain", "local", "field", "value", "bare", "closed", "unclosed"}
EventName == Name \cup Unscoped \cup {"value", "bare", "else"}

\* An event that makes no scope is an event.
LEMMA EventTyped ==
  ASSUME TypeOK, NEW op \in Op, NEW kind \in EventKind, NEW name \in EventName
  PROVE  Event(op, kind, name) \in EventType
<1>1. /\ open \in Seq(Events) /\ Len(open) \in Nat /\ current \in Nat
      /\ \A i \in 1 .. Len(open) : open[i] \in Nat
  BY Types DEF Scopes, Events
<1>2. Innermost \in Nat
  <2>1. CASE open = << >> BY <2>1 DEF Innermost
  <2>2. CASE open # << >>
    <3>1. Len(open) \in 1 .. Len(open) BY <1>1, <2>2
    <3> QED BY <3>1, <2>2, <1>1 DEF Innermost
  <2> QED BY <2>1, <2>2
<1> QED
  BY <1>1, <1>2 DEF Event, EventType, Op, EventKind, EventName, None

\* An event that makes a scope.
LEMMA CreatingIs ==
  ASSUME TypeOK, NEW op \in Op, NEW kind \in EventKind, NEW name \in EventName,
         NEW e, e = Creating(op, kind, name)
  PROVE  /\ e \in EventType
         /\ e.op = op /\ e.kind = kind /\ e.name = name /\ e.at = current /\ e.block = Innermost
         /\ e.scope = Len(scopes) + 1 /\ e.ord = Len(scopes[current].children) + 1
         /\ e.hidden <=> op = "enum" \/ \E b \in 1 .. Len(open) : ast[open[b]].kind \in Unscoped
<1>0. PICK d : d = Event(op, kind, name) OBVIOUS
<1> DEFINE h == op = "enum" \/ \E b \in 1 .. Len(open) : ast[open[b]].kind \in Unscoped
<1>1. /\ d \in EventType /\ d.op = op /\ d.kind = kind /\ d.name = name /\ d.at = current
      /\ d.block = Innermost
  <2>1. d \in EventType BY <1>0, EventTyped
  <2> QED BY <1>0, <2>1 DEF Event
<1>2. Len(scopes) + 1 \in Nat /\ Len(scopes[current].children) + 1 \in Nat
  <2>1. IsTree(scopes) /\ current \in 1 .. Len(scopes) BY Types DEF Scopes
  <2> QED BY <2>1, ScopeFields
<1>3. e = [d EXCEPT !.scope = Len(scopes) + 1,
                    !.ord = Len(scopes[current].children) + 1, !.hidden = h]
  BY <1>0 DEF Creating
<1>4. h \in BOOLEAN OBVIOUS
<1> HIDE DEF h
<1>5. /\ e \in EventType
      /\ e.op = op /\ e.kind = kind /\ e.name = name /\ e.at = current /\ e.block = Innermost
      /\ e.scope = Len(scopes) + 1 /\ e.ord = Len(scopes[current].children) + 1
      /\ e.hidden = h
  BY <1>1, <1>2, <1>3, <1>4 DEF EventType
<1> QED BY <1>4, <1>5 DEF h

\* An action that appends one event reads one more.
LEMMA Appended ==
  ASSUME TypeOK, NEW e \in EventType, ast' = Append(ast, e)
  PROVE  OneMore /\ New' = e
<1>1. ast \in Seq(EventType) /\ Len(ast) \in Nat BY Types
<1>2. ast' \in Seq(EventType) /\ Len(ast') = Len(ast) + 1 /\ ast'[Len(ast) + 1] = e
  BY <1>1
<1>3. \A j \in Events : ast'[j] = ast[j] BY <1>1 DEF Events
<1> QED BY <1>2, <1>3 DEF OneMore, New

\* The parser's current scope and the generator's place are in the range of what
\* was there before.
LEMMA PlaceKept ==
  ASSUME TypeOK, Text, OneMore, pos' = pos
  PROVE  /\ After(pos)' = After(pos)
         /\ pos' \in 0 .. Len(ast')
         /\ open \in Seq(Events')
<1>1. pos \in 0 .. Len(ast) /\ Len(ast) \in Nat /\ open \in Seq(Events) BY Types
<1>2. Len(ast') = Len(ast) + 1 BY DEF OneMore
<1>3. PICK k : k = pos OBVIOUS
<1>4. After(k)' = After(k) BY <1>1, <1>3, Prefix DEF Text
<1>5. After(pos)' = After(k)' BY <1>3 DEF After
<1>6. After(pos) = After(k) BY <1>3
<1>7. pos' \in 0 .. Len(ast') BY <1>1, <1>2
<1>8. Events \subseteq Events' BY <1>1, <1>2 DEF Events
<1>9. open \in Seq(Events') BY <1>1, <1>8
<1> QED BY <1>4, <1>5, <1>6, <1>7, <1>9

\* An event that neither makes a scope nor enters or leaves a construct.
LEMMA PlainStep ==
  ASSUME IInv, phase \in {"imports", "parse"},
         NEW op \in Op \ {"enter", "leave", "enum"}, NEW kind \in EventKind,
         NEW name \in EventName, ast' = Append(ast, Event(op, kind, name)),
         current' = current, open' = open, phase' = phase, units' = units, pos' = pos, cg' = cg,
         IsTree(scopes'), Copied(scopes, scopes'),
         (\A s \in Scopes : scopes'[s].external = scopes[s].external) \/ phase = "imports"
  PROVE  IInv'
<1>0. PICK e : e = Event(op, kind, name) OBVIOUS
<1>1. TypeOK /\ Text /\ Tree /\ Walk BY DEF IInv
<1>2. /\ e \in EventType /\ e.op = op /\ e.at = current /\ e.scope = None
  <2>1. op \in Op OBVIOUS
  <2>2. e \in EventType BY <1>0, <1>1, <2>1, EventTyped
  <2>3. e.op = op /\ e.at = current /\ e.scope = None BY <1>0 DEF Event
  <2> QED BY <2>2, <2>3
<1>3. OneMore /\ New' = e
  <2>1. ast' = Append(ast, e) BY <1>0
  <2> QED BY <1>1, <1>2, <2>1, Appended
<1>4. /\ After(pos)' = After(pos) /\ pos' \in 0 .. Len(ast') /\ open \in Seq(Events')
  BY <1>1, <1>3, PlaceKept
<1>5. TypeOK'
  <2>1. Scopes' = Scopes BY DEF Copied, Scopes
  <2>2. current' \in Scopes' /\ cg' \in Scopes' /\ units' \in 0 .. MaxUnit
        /\ phase' \in {"idle", "imports", "parse", "codegen", "failed"}
    BY <2>1, <1>1 DEF TypeOK
  <2>3. ast' \in Seq(EventType) BY <1>3 DEF OneMore
  <2>4. open' \in Seq(Events') BY <1>4
  <2> QED BY <2>2, <2>3, <2>4, <1>4 DEF TypeOK
<1>6. Text'
  <2>1. New'.at = current /\ New'.op \notin {"enter", "leave"} /\ New'.op # "enum"
        /\ New'.scope = None
    BY <1>2, <1>3
  <2> QED BY <1>1, <1>3, <2>1, TextPlain
<1>7. Tree' /\ Walk'
  <2>1. \A j \in Len(ast) + 1 .. Len(ast') : ~Makes(j)'
    <3>1. \A j \in Len(ast) + 1 .. Len(ast') : j = Len(ast) + 1 BY <1>1, <1>3, Reads
    <3>2. ast'[Len(ast) + 1] = New' BY <1>1, <1>3, Reads
    <3> QED BY <3>1, <3>2, <1>2, <1>3 DEF Makes
  <2>2. Len(ast) <= Len(ast') BY <1>1, <1>3, Reads
  <2>3. \A j \in Events : ast'[j] = ast[j] BY <1>3 DEF OneMore
  <2>4. phase # "failed" OBVIOUS
  <2> QED BY <1>1, <1>4, <1>5, <2>1, <2>2, <2>3, <2>4, TreeKept
<1> QED BY <1>5, <1>6, <1>7 DEF IInv

\* The end of the innermost construct, whatever it is.
LEMMA LeaveStep ==
  ASSUME IInv, phase = "parse", open # << >>,
         ast' = Append(ast, Event("leave", ast[Innermost].kind, ast[Innermost].name)),
         open' = SubSeq(open, 1, Len(open) - 1),
         current' = ast[open[Len(open)]].at,
         phase' \in IF ast[open[Len(open)]].kind = "module" THEN {"codegen", "failed"} ELSE {"parse"},
         units' = units, pos' = pos, cg' = cg,
         IsTree(scopes'), SameShape(scopes, scopes'), current' \in Scopes
  PROVE  IInv'
<1>1. TypeOK /\ Text /\ Tree /\ Walk BY DEF IInv
<1>2. PICK b : b = open[Len(open)] OBVIOUS
<1>3. Innermost = b /\ b \in Events /\ ast[b] \in EventType /\ Len(open) \in 1 .. Len(open)
  <2>1. Len(open) \in Nat /\ open \in Seq(Events) BY <1>1, Types
  <2>2. Len(open) \in 1 .. Len(open) BY <2>1
  <2> QED BY <1>1, <1>2, <2>2, Types DEF Innermost
<1>4. PICK kind, name : kind = ast[b].kind /\ name = ast[b].name OBVIOUS
<1>5. kind \in EventKind /\ name \in EventName
  BY <1>3, <1>4 DEF EventType, EventKind, EventName
<1>6. PICK e : e = Event("leave", kind, name) OBVIOUS
<1>7. /\ e \in EventType /\ e.op = "leave" /\ e.kind = kind /\ e.at = current
      /\ e.scope = None /\ e.block = b
  <2>1. "leave" \in Op BY DEF Op
  <2>2. e \in EventType BY <1>1, <1>5, <1>6, <2>1, EventTyped
  <2>3. e.op = "leave" /\ e.kind = kind /\ e.at = current /\ e.scope = None
        /\ e.block = Innermost
    BY <1>6 DEF Event
  <2> QED BY <2>2, <2>3, <1>3
<1>8. OneMore /\ New' = e
  <2>1. ast' = Append(ast, e) BY <1>3, <1>4, <1>6
  <2> QED BY <1>1, <1>7, <2>1, Appended
<1>9. /\ After(pos)' = After(pos) /\ pos' \in 0 .. Len(ast') /\ open \in Seq(Events')
  BY <1>1, <1>8, PlaceKept
<1>10. TypeOK'
  <2>1. Scopes' = Scopes BY DEF SameShape, Scopes
  <2>2. current' \in Scopes' /\ cg' \in Scopes' /\ units' \in 0 .. MaxUnit
        /\ phase' \in {"idle", "imports", "parse", "codegen", "failed"}
    BY <2>1, <1>1 DEF TypeOK
  <2>3. ast' \in Seq(EventType) BY <1>8 DEF OneMore
  <2>4. open' \in Seq(Events') BY <1>9, <1>3
  <2> QED BY <2>2, <2>3, <2>4, <1>9 DEF TypeOK
<1>11. Text'
  <2>1. /\ New'.op = "leave" /\ New'.block = open[Len(open)]
        /\ New'.kind = ast[open[Len(open)]].kind /\ New'.at = current /\ New'.scope = None
    BY <1>2, <1>4, <1>7, <1>8
  <2>2. phase' \in IF New'.kind = "module" THEN {"codegen", "failed"} ELSE {"parse"} BY <2>1
  <2> QED BY <1>1, <1>8, <2>1, <2>2, TextLeave
<1>12. Tree' /\ Walk'
  <2>1. \A j \in Len(ast) + 1 .. Len(ast') : ~Makes(j)'
    <3>1. \A j \in Len(ast) + 1 .. Len(ast') : j = Len(ast) + 1 BY <1>1, <1>8, Reads
    <3>2. ast'[Len(ast) + 1] = New' BY <1>1, <1>8, Reads
    <3> QED BY <3>1, <3>2, <1>7, <1>8 DEF Makes
  <2>2. Len(ast) <= Len(ast') BY <1>1, <1>8, Reads
  <2>3. \A j \in Events : ast'[j] = ast[j] BY <1>8 DEF OneMore
  <2>4. phase # "failed" /\ phase' # "imports" OBVIOUS
  <2>5. Copied(scopes, scopes')
    <3>1. IsTree(scopes) BY <1>1, Types
    <3> QED BY <3>1, SameIsCopied
  <2>6. \A s \in Scopes : scopes'[s].external = scopes[s].external BY DEF SameShape, Scopes
  <2> QED BY <1>1, <1>9, <1>10, <2>1, <2>2, <2>3, <2>4, <2>5, <2>6, TreeKept
<1> QED BY <1>10, <1>11, <1>12 DEF IInv

\* Where the parser is when it leaves a construct.
LEMMA Leaving ==
  ASSUME IInv, phase = "parse", NEW kinds, Leave(kinds)
  PROVE  /\ open # << >> /\ Innermost = open[Len(open)] /\ ast[Innermost].kind \in kinds
         /\ ast[Innermost].at \in Scopes
         /\ kinds \subseteq Scoped => ExitScope(current) = ast[Innermost].at
         /\ kinds \cap Scoped = {} => current = ast[Innermost].at
         /\ Innermost \in Events
<1>1. TypeOK /\ Text /\ Tree BY DEF IInv
<1>2. open # << >> /\ Innermost = open[Len(open)] /\ ast[Innermost].kind \in kinds
  BY DEF Leave, In, Innermost
<1>3. /\ Len(open) \in 1 .. Len(open) /\ Innermost \in Events
  <2>1. Len(open) \in Nat /\ open \in Seq(Events) BY <1>1, Types
  <2>2. Len(open) \in 1 .. Len(open) BY <2>1, <1>2
  <2> QED BY <1>1, <1>2, <2>2, Types
<1>4. ast[Innermost].op = "enter" /\ current = Inside(Innermost)
  BY <1>1, <1>2, <1>3 DEF Text, OpenNests
<1>5. CASE ast[Innermost].kind \in Scoped
  <2>1. Makes(Innermost) BY <1>1, <1>3, <1>4, <1>5 DEF Text, HiddenScopes
  <2>2. /\ ast[Innermost].at \in Scopes
        /\ scopes[ast[Innermost].scope].parent = ast[Innermost].at
    BY <1>1, <1>3, <2>1, MadeFields DEF Tree
  <2>3. current = ast[Innermost].scope BY <1>4, <1>5 DEF Inside
  <2>4. ast[Innermost].at # None BY <2>2 DEF Scopes, None
  <2>5. ExitScope(current) = ast[Innermost].at BY <2>2, <2>3, <2>4 DEF ExitScope
  <2> QED BY <1>2, <1>3, <1>5, <2>2, <2>5
<1>6. CASE ast[Innermost].kind \notin Scoped
  <2>1. current = ast[Innermost].at BY <1>4, <1>6 DEF Inside
  <2>2. current \in Scopes BY <1>1, Types
  <2> QED BY <1>2, <1>3, <1>6, <2>1, <2>2
<1> QED BY <1>5, <1>6

\* SymbolTable::exitScope and what stands around it, for each kind of construct.
LEMMA LeaveSteps ==
  ASSUME IInv, LeaveNamed \/ LeaveAnonymous \/ LeaveUnscoped \/ EndProgram \/ EndProgramLost
  PROVE  IInv'
<1>1. IsTree(scopes) /\ SameShape(scopes, scopes) BY Types DEF IInv, SameShape
<1>2. CASE LeaveNamed
  <2>1. Leave({"class"} \cup Callable) /\ phase = "parse" /\ phase' = "parse"
        /\ current' = ExitScope(current)
        /\ scopes' = AddDecl(scopes, ExitScope(current), ast[Innermost].name, Innermost)
    BY <1>2 DEF LeaveNamed
  <2>2. {"class"} \cup Callable \subseteq Scoped /\ "module" \notin {"class"} \cup Callable
    BY DEF Callable, Scoped
  <2>3. /\ open # << >> /\ Innermost = open[Len(open)]
        /\ ast[Innermost].kind \in {"class"} \cup Callable
        /\ ast[Innermost].at \in Scopes /\ ExitScope(current) = ast[Innermost].at
        /\ Innermost \in Events
    BY <2>1, <2>2, Leaving
  <2>4. Innermost \in Nat BY <2>3, Types DEF IInv, Events
  <2>5. IsTree(scopes') /\ SameShape(scopes, scopes')
    BY <1>1, <2>1, <2>3, <2>4, AddDeclTree DEF Scopes
  <2> QED BY <2>1, <2>2, <2>3, <2>5, LeaveStep DEF Leave
<1>3. CASE LeaveAnonymous
  <2>1. Leave({"constructor", "if", "for"}) /\ phase = "parse" /\ phase' = "parse"
        /\ current' = ExitScope(current) /\ scopes' = scopes
    BY <1>3 DEF LeaveAnonymous
  <2>2. {"constructor", "if", "for"} \subseteq Scoped /\ "module" \notin {"constructor", "if", "for"}
    BY DEF Scoped
  <2>3. /\ open # << >> /\ Innermost = open[Len(open)]
        /\ ast[Innermost].kind \in {"constructor", "if", "for"}
        /\ ast[Innermost].at \in Scopes /\ ExitScope(current) = ast[Innermost].at
    BY <2>1, <2>2, Leaving
  <2> QED BY <1>1, <2>1, <2>2, <2>3, LeaveStep DEF Leave
<1>4. CASE LeaveUnscoped
  <2>1. Leave(Unscoped) /\ phase = "parse" /\ phase' = "parse"
        /\ current' = current /\ scopes' = scopes
    BY <1>4 DEF LeaveUnscoped
  <2>2. Unscoped \cap Scoped = {} /\ "module" \notin Unscoped
    BY DEF Scoped, Unscoped
  <2>3. /\ open # << >> /\ Innermost = open[Len(open)] /\ ast[Innermost].kind \in Unscoped
        /\ ast[Innermost].at \in Scopes /\ current = ast[Innermost].at
    BY <2>1, <2>2, Leaving
  <2> QED BY <1>1, <2>1, <2>2, <2>3, LeaveStep DEF Leave
<1>5. CASE EndProgram \/ EndProgramLost
  <2>1. Leave({"module"}) /\ phase = "parse" /\ phase' \in {"codegen", "failed"}
        /\ current' = ExitScope(current) /\ scopes' = scopes
    BY <1>5 DEF EndProgram, EndProgramLost
  <2>2. {"module"} \subseteq Scoped BY DEF Scoped
  <2>3. /\ open # << >> /\ Innermost = open[Len(open)] /\ ast[Innermost].kind = "module"
        /\ ast[Innermost].at \in Scopes /\ ExitScope(current) = ast[Innermost].at
    BY <2>1, <2>2, Leaving
  <2> QED BY <1>1, <2>1, <2>3, LeaveStep DEF Leave
<1> QED BY <1>2, <1>3, <1>4, <1>5

\* A construct with a scope of its own is entered.
LEMMA EnterStep ==
  ASSUME IInv, NEW e \in EventType, ast' = Append(ast, e),
         e.op = "enter", e.kind \in Scoped, e.at = current, e.scope # None,
         (\E b \in 1 .. Len(open) : ast[open[b]].kind \in Unscoped) => e.hidden,
         \/ phase = "parse" /\ phase' = "parse" /\ e.kind # "module" /\ open # << >>
         \/ phase = "idle" /\ phase' = "imports" /\ e.kind = "module",
         open' = Append(open, Len(ast) + 1), current' = e.scope,
         units' \in 0 .. MaxUnit, pos' = pos, cg' = cg,
         IsTree(scopes'), Made(scopes, scopes', current, e.scope, e.ord),
         scopes'[e.scope].kind \notin BuiltinKind,
         scopes'[e.scope].kind = "module" <=> e.kind = "module",
         e.kind = "class" => scopes'[e.scope].name \in VarName
  PROVE  IInv'
<1>1. TypeOK /\ Text /\ Tree /\ Walk BY DEF IInv
<1>2. OneMore /\ New' = e BY <1>1, Appended
<1>3. /\ After(pos)' = After(pos) /\ pos' \in 0 .. Len(ast') /\ open \in Seq(Events')
  BY <1>1, <1>2, PlaceKept
<1>4. TypeOK'
  <2>1. Len(scopes) \in Nat /\ Len(scopes') \in Nat /\ cg \in Scopes BY <1>1, Types DEF IsTree
  <2>2. Len(scopes) <= Len(scopes') /\ e.scope \in Len(scopes) + 1 .. Len(scopes')
    BY DEF Made, Grown
  <2>3. current' \in Scopes' /\ cg' \in Scopes' BY <2>1, <2>2 DEF Scopes
  <2>4. ast' \in Seq(EventType) BY <1>2 DEF OneMore
  <2>5. Len(ast) + 1 \in Events' BY <1>1, <1>2, Reads
  <2>6. open' \in Seq(Events') BY <1>3, <2>5
  <2>7. phase' \in {"idle", "imports", "parse", "codegen", "failed"} OBVIOUS
  <2> QED BY <2>3, <2>4, <2>6, <2>7, <1>3 DEF TypeOK
<1>5. phase \in {"idle", "parse"} /\ (open = << >> <=> e.kind = "module")
  <2>1. open = << >> <=> phase \notin {"imports", "parse", "lost"} BY <1>1 DEF Text, OpenNests
  <2> QED BY <2>1
<1>6. Text'
  <2>1. /\ New'.op = "enter" /\ New'.kind \in Scoped \cup Unscoped /\ New'.at = current
        /\ open = << >> <=> New'.kind = "module"
        /\ current' = IF New'.kind \in Scoped THEN New'.scope ELSE current
        /\ New'.scope # None <=> New'.kind \in Scoped
        /\ New'.scope # None /\ (\E b \in 1 .. Len(open) : ast[open[b]].kind \in Unscoped)
             => New'.hidden
    BY <1>2, <1>5
  <2>2. phase \in {"idle", "imports", "parse"} /\ phase' \in {"imports", "parse"} OBVIOUS
  <2> QED BY <1>1, <1>2, <2>1, <2>2, TextEnter
<1>7. Tree' /\ Walk'
  <2>1. /\ phase # "failed" /\ New'.at = current
        /\ Made(scopes, scopes', current, New'.scope, New'.ord)
        /\ scopes'[New'.scope].kind \notin BuiltinKind
        /\ scopes'[New'.scope].kind = "module" <=> New'.kind = "module"
        /\ New'.kind = "class" => scopes'[New'.scope].name \in VarName
    BY <1>2
  <2>2. New'.kind = "module" => current = Global
    BY <1>1, <1>2, <1>5 DEF Text, OpenNests
  <2>3. phase' = "imports" => pos = Len(ast) /\ New'.kind = "module"
    BY <1>1, <1>2 DEF Text, Progress
  <2> QED BY <1>1, <1>2, <1>3, <1>4, <2>1, <2>2, <2>3, TreeMade
<1> QED BY <1>4, <1>6, <1>7 DEF IInv

\* Enter, in the scope of the construct around it.
LEMMA EnterInner ==
  ASSUME IInv, open # << >>, NEW kind \in Scoped \ {"module"},
         NEW scopeKind \in {"class", "method", "loop"}, NEW name \in Name,
         kind = "class" => name \in VarName, Enter(kind, scopeKind, name)
  PROVE  IInv'
<1>1. TypeOK /\ IsTree(scopes) /\ current \in 1 .. Len(scopes) /\ Len(scopes) \in Nat
  BY Types DEF IInv, Scopes
<1>2. /\ phase = "parse" /\ phase' = "parse" /\ units' = units /\ pos' = pos /\ cg' = cg
      /\ scopes' = CreateChild(scopes, current, scopeKind, name)
      /\ current' = Len(scopes) + 1 /\ open' = Append(open, Len(ast) + 1)
      /\ ast' = Append(ast, Creating("enter", kind, name))
  BY DEF Enter, EnterScope
<1>3. PICK e : e = Creating("enter", kind, name) OBVIOUS
<1>4. /\ e \in EventType /\ e.op = "enter" /\ e.kind = kind /\ e.at = current
      /\ e.scope = Len(scopes) + 1 /\ e.ord = Len(scopes[current].children) + 1
      /\ e.hidden <=> \E b \in 1 .. Len(open) : ast[open[b]].kind \in Unscoped
  <2>1. "enter" \in Op /\ kind \in EventKind /\ name \in EventName
    BY DEF Op, EventKind, EventName
  <2> QED BY <1>1, <1>3, <2>1, CreatingIs
<1>5. scopeKind \in Kind /\ scopeKind \notin BuiltinKind /\ scopeKind # "module"
  BY DEF Kind, BuiltinKind
<1>6. /\ IsTree(scopes')
      /\ Made(scopes, scopes', current, Len(scopes) + 1, Len(scopes[current].children) + 1)
      /\ scopes'[Len(scopes) + 1].kind = scopeKind /\ scopes'[Len(scopes) + 1].name = name
  BY <1>1, <1>2, <1>5, CreateChildMakes
<1>7. e.scope # None BY <1>1, <1>4 DEF None
<1>8. units' \in 0 .. MaxUnit BY <1>1, <1>2 DEF TypeOK
<1>9. kind \in Scoped /\ kind # "module" OBVIOUS
<1>10. /\ Made(scopes, scopes', current, e.scope, e.ord)
       /\ scopes'[e.scope].kind \notin BuiltinKind /\ scopes'[e.scope].kind # "module"
       /\ e.kind = "class" => scopes'[e.scope].name \in VarName
  BY <1>4, <1>5, <1>6
<1> QED BY <1>2, <1>3, <1>4, <1>6, <1>7, <1>8, <1>9, <1>10, EnterStep

\* The constructs that open a scope.
LEMMA EnterSteps ==
  ASSUME IInv, NEW n,
         \/ n \in VarName /\ (EnterClass(n) \/ EnterFunction(n) \/ EnterMethod(n))
         \/ EnterConstructor \/ EnterIf \/ EnterFor
  PROVE  IInv'
<1>1. \A kinds : In(kinds) => open # << >> BY DEF In
<1>2. /\ VarName \subseteq Name /\ MethodName \subseteq Name
      /\ "Create" \in Name /\ "if_else" \in Name /\ "for_loop" \in Name
  BY DEF Name, Symbol, FixedName
<1>3. {"class", "func", "method", "constructor", "if", "for"} \subseteq Scoped \ {"module"}
  BY DEF Scoped
<1>4. CASE n \in VarName /\ EnterClass(n)
  BY <1>1, <1>2, <1>3, <1>4, EnterInner DEF EnterClass
<1>5. CASE n \in VarName /\ EnterFunction(n)
  BY <1>1, <1>2, <1>3, <1>5, EnterInner DEF EnterFunction
<1>6. CASE n \in VarName /\ EnterMethod(n)
  <2>1. In({"class"}) /\ Enter("method", "method", Mangled[<<scopes[current].name, n>>])
    BY <1>6 DEF EnterMethod
  <2>2. scopes[current].name \in VarName
    <3>0. TypeOK /\ Text /\ MadeScopes BY DEF IInv, Tree
    <3>1. open # << >> /\ ast[open[Len(open)]].kind = "class" BY <2>1 DEF In, Innermost
    <3>2. Len(open) \in 1 .. Len(open) /\ open[Len(open)] \in Events
      <4>1. Len(open) \in Nat /\ open \in Seq(Events) BY <3>0, Types
      <4>2. Len(open) \in 1 .. Len(open) BY <4>1, <3>1
      <4> QED BY <3>0, <4>2, Types
    <3>3. ast[open[Len(open)]].op = "enter" /\ current = Inside(open[Len(open)])
      BY <3>0, <3>1, <3>2 DEF Text, OpenNests
    <3>4. Makes(open[Len(open)]) /\ current = ast[open[Len(open)]].scope
      BY <3>0, <3>1, <3>2, <3>3 DEF Text, HiddenScopes, Inside, Scoped
    <3> QED BY <3>0, <3>1, <3>2, <3>4, MadeFields
  <2>3. Mangled[<<scopes[current].name, n>>] \in MethodName
    BY <1>6, <2>2, WalkAssumption
  <2> QED BY <1>1, <1>2, <1>3, <2>1, <2>3, EnterInner
<1>7. CASE EnterConstructor BY <1>1, <1>2, <1>3, <1>7, EnterInner DEF EnterConstructor
<1>8. CASE EnterIf BY <1>1, <1>2, <1>3, <1>8, EnterInner DEF EnterIf
<1>9. CASE EnterFor BY <1>1, <1>2, <1>3, <1>9, EnterInner DEF EnterFor
<1> QED BY <1>4, <1>5, <1>6, <1>7, <1>8, <1>9

\* A while or a switch, which open no scope.
LEMMA EnterUnscopedStep ==
  ASSUME IInv, NEW kind \in Unscoped, EnterUnscoped(kind)
  PROVE  IInv'
<1>1. TypeOK /\ Text /\ Tree /\ Walk BY DEF IInv
<1>2. /\ phase = "parse" /\ phase' = "parse" /\ open # << >>
      /\ ast' = Append(ast, Event("enter", kind, kind)) /\ open' = Append(open, Len(ast) + 1)
      /\ scopes' = scopes /\ current' = current /\ units' = units /\ pos' = pos /\ cg' = cg
  BY DEF EnterUnscoped, In
<1>3. PICK e : e = Event("enter", kind, kind) OBVIOUS
<1>4. /\ e \in EventType /\ e.op = "enter" /\ e.kind = kind /\ e.at = current
      /\ e.scope = None
  <2>1. "enter" \in Op /\ kind \in EventKind /\ kind \in EventName
    BY DEF Op, EventKind, EventName
  <2>2. e \in EventType BY <1>1, <1>3, <2>1, EventTyped
  <2> QED BY <1>3, <2>2 DEF Event
<1>5. kind \notin Scoped /\ kind # "module" BY DEF Scoped, Unscoped
<1>6. OneMore /\ New' = e
  <2>1. ast' = Append(ast, e) BY <1>2, <1>3
  <2> QED BY <1>1, <1>4, <2>1, Appended
<1>7. /\ After(pos)' = After(pos) /\ pos' \in 0 .. Len(ast') /\ open \in Seq(Events')
  BY <1>1, <1>2, <1>6, PlaceKept
<1>8. TypeOK'
  <2>1. Len(ast) + 1 \in Events' BY <1>1, <1>6, Reads
  <2>2. open' \in Seq(Events') BY <1>2, <1>7, <2>1
  <2>3. ast' \in Seq(EventType) BY <1>6 DEF OneMore
  <2>4. /\ IsTree(scopes') /\ current' \in Scopes' /\ cg' \in Scopes'
        /\ units' \in 0 .. MaxUnit
        /\ phase' \in {"idle", "imports", "parse", "codegen", "failed"}
    BY <1>1, <1>2 DEF TypeOK, Scopes
  <2> QED BY <2>2, <2>3, <2>4, <1>7 DEF TypeOK
<1>9. Text'
  <2>1. /\ New'.op = "enter" /\ New'.kind \in Scoped \cup Unscoped /\ New'.at = current
        /\ open = << >> <=> New'.kind = "module"
        /\ current' = IF New'.kind \in Scoped THEN New'.scope ELSE current
        /\ New'.scope # None <=> New'.kind \in Scoped
        /\ New'.scope # None /\ (\E b \in 1 .. Len(open) : ast[open[b]].kind \in Unscoped)
             => New'.hidden
    BY <1>2, <1>4, <1>5, <1>6
  <2>2. phase \in {"idle", "imports", "parse"} /\ phase' \in {"imports", "parse"} BY <1>2
  <2> QED BY <1>1, <1>2, <1>6, <2>1, <2>2, TextEnter
<1>10. Tree' /\ Walk'
  <2>1. \A j \in Len(ast) + 1 .. Len(ast') : ~Makes(j)'
    <3>1. \A j \in Len(ast) + 1 .. Len(ast') : j = Len(ast) + 1 BY <1>1, <1>6, Reads
    <3>2. ast'[Len(ast) + 1] = New' BY <1>1, <1>6, Reads
    <3> QED BY <3>1, <3>2, <1>4, <1>6 DEF Makes
  <2>2. Len(ast) <= Len(ast') BY <1>1, <1>6, Reads
  <2>3. \A j \in Events : ast'[j] = ast[j] BY <1>6 DEF OneMore
  <2>4. phase # "failed" /\ phase' # "imports" BY <1>2
  <2>5. Copied(scopes, scopes')
    <3>1. IsTree(scopes) BY <1>1, Types
    <3> QED BY <1>2, <3>1, CopiedSame
  <2>6. \A s \in Scopes : scopes'[s].external = scopes[s].external BY <1>2
  <2> QED BY <1>1, <1>2, <1>7, <1>8, <2>1, <2>2, <2>3, <2>4, <2>5, <2>6, TreeKept
<1> QED BY <1>8, <1>9, <1>10 DEF IInv

\* An enum, whose scope the parser enters and leaves at once.
LEMMA EnumStep ==
  ASSUME IInv, NEW n \in VarName, ParseEnum(n)
  PROVE  IInv'
<1>1. /\ TypeOK /\ Text /\ Tree /\ Walk
      /\ IsTree(scopes) /\ current \in 1 .. Len(scopes) /\ Len(scopes) \in Nat /\ Len(ast) \in Nat
  BY Types DEF IInv, Scopes
<1>2. /\ phase = "parse" /\ phase' = "parse"
      /\ ast' = Append(ast, Creating("enum", "plain", n))
      /\ current' = current /\ open' = open /\ units' = units /\ pos' = pos /\ cg' = cg
  BY DEF ParseEnum
<1>3. PICK mid : mid = CreateChild(scopes, current, "enum", n) OBVIOUS
<1>4. scopes' = AddDecl(mid, current, n, Len(ast) + 1) BY <1>3 DEF ParseEnum
<1>5. PICK e : e = Creating("enum", "plain", n) OBVIOUS
<1>6. n \in Name BY DEF Name, Symbol
<1>7. /\ e \in EventType /\ e.op = "enum" /\ e.kind = "plain" /\ e.at = current
      /\ e.scope = Len(scopes) + 1 /\ e.ord = Len(scopes[current].children) + 1
      /\ e.hidden
  <2>1. "enum" \in Op /\ "plain" \in EventKind /\ n \in EventName
    BY <1>6 DEF Op, EventKind, EventName
  <2> QED BY <1>1, <1>5, <2>1, CreatingIs
<1>8. /\ IsTree(mid)
      /\ Made(scopes, mid, current, Len(scopes) + 1, Len(scopes[current].children) + 1)
      /\ mid[Len(scopes) + 1].kind = "enum"
  <2>1. "enum" \in Kind BY DEF Kind
  <2> QED BY <1>1, <1>3, <1>6, <2>1, CreateChildMakes
<1>9. Len(scopes) + 1 \in 1 .. Len(mid) /\ current \in 1 .. Len(mid)
  <2>1. Len(mid) \in Nat /\ Len(scopes) + 1 <= Len(mid) BY <1>8, <1>1 DEF Made, IsTree
  <2> QED BY <1>1, <2>1
<1>10. IsTree(scopes') /\ SameShape(mid, scopes')
  <2>1. Len(ast) + 1 \in Nat BY <1>1
  <2> QED BY <1>4, <1>8, <1>9, <2>1, AddDeclTree
<1>11. /\ Made(scopes, scopes', current, e.scope, e.ord)
       /\ scopes'[e.scope].kind = "enum"
  <2>1. Made(scopes, scopes', current, Len(scopes) + 1, Len(scopes[current].children) + 1)
    BY <1>1, <1>8, <1>10, MadeThenSame
  <2>2. scopes'[Len(scopes) + 1].kind = "enum" BY <1>8, <1>9, <1>10 DEF SameShape
  <2> QED BY <1>7, <2>1, <2>2
<1>12. OneMore /\ New' = e
  <2>1. ast' = Append(ast, e) BY <1>2, <1>5
  <2> QED BY <1>1, <1>7, <2>1, Appended
<1>13. /\ After(pos)' = After(pos) /\ pos' \in 0 .. Len(ast') /\ open \in Seq(Events')
  BY <1>1, <1>2, <1>12, PlaceKept
<1>14. TypeOK'
  <2>1. Len(scopes') \in Nat /\ Len(scopes) <= Len(scopes')
    BY <1>10, <1>11 DEF Made, Grown, IsTree
  <2>2. current' \in Scopes' /\ cg' \in Scopes'
    <3>1. cg \in Scopes BY <1>1, Types
    <3> QED BY <1>1, <1>2, <2>1, <3>1 DEF Scopes
  <2>3. ast' \in Seq(EventType) BY <1>12 DEF OneMore
  <2>4. open' \in Seq(Events') BY <1>2, <1>13
  <2>5. units' \in 0 .. MaxUnit /\ phase' \in {"idle", "imports", "parse", "codegen", "failed"}
    BY <1>1, <1>2 DEF TypeOK
  <2> QED BY <1>10, <1>13, <2>2, <2>3, <2>4, <2>5 DEF TypeOK
<1>15. Text'
  <2>2. New'.scope # None <=> New'.op = "enum" BY <1>1, <1>7, <1>12 DEF None
  <2>3. New'.op = "enum" => New'.hidden BY <1>7, <1>12
  <2>4. phase \in {"imports", "parse"} /\ phase' = phase BY <1>2
  <2>5. New'.at = current /\ New'.op \notin {"enter", "leave"} BY <1>7, <1>12
  <2> QED BY <1>1, <1>2, <1>12, <2>2, <2>3, <2>4, <2>5, TextPlain
<1>16. Tree' /\ Walk'
  <2>1. /\ phase # "failed" /\ New'.at = current
        /\ Made(scopes, scopes', current, New'.scope, New'.ord)
        /\ scopes'[New'.scope].kind \notin BuiltinKind
        /\ scopes'[New'.scope].kind = "module" <=> New'.kind = "module"
        /\ New'.kind = "class" => scopes'[New'.scope].name \in VarName
        /\ New'.kind = "module" => current = Global
        /\ phase' = "imports" => pos = Len(ast) /\ New'.kind = "module"
    BY <1>2, <1>7, <1>11, <1>12 DEF BuiltinKind
  <2> QED BY <1>1, <1>2, <1>12, <1>13, <1>14, <2>1, TreeMade
<1> QED BY <1>14, <1>15, <1>16 DEF IInv

\* What is read inside a body or a class: declarations, uses, returns, an else.
LEMMA ReadSteps ==
  ASSUME IInv, NEW n, NEW kind \in {"value", "bare"}, NEW form \in {"closed", "unclosed"},
         \/ n \in VarName /\ (ParseVar(n) \/ ParseField(n) \/ ParseUse(n))
         \/ ParseReturn(kind) \/ ParseElse(form)
  PROVE  IInv'
<1>1. /\ TypeOK /\ IsTree(scopes) /\ current \in 1 .. Len(scopes) /\ Len(ast) + 1 \in Nat
  BY Types DEF IInv, Scopes
<1>2. ASSUME NEW op \in Op \ {"enter", "leave", "enum"}, NEW k \in EventKind,
             NEW name \in EventName, Read(op, k, name),
             scopes' = scopes \/ scopes' = AddDecl(scopes, current, n, Len(ast) + 1)
      PROVE  IInv'
  <2>1. IsTree(scopes') /\ SameShape(scopes, scopes')
    <3>1. CASE scopes' = scopes BY <1>1, <3>1 DEF SameShape
    <3>2. CASE scopes' = AddDecl(scopes, current, n, Len(ast) + 1)
      BY <1>1, <3>2, AddDeclTree
    <3> QED BY <1>2, <3>1, <3>2
  <2>2. Copied(scopes, scopes') BY <1>1, <2>1, SameIsCopied
  <2>3. \A s \in Scopes : scopes'[s].external = scopes[s].external
    BY <2>1 DEF SameShape, Scopes
  <2>4. /\ phase = "parse" /\ phase' = phase /\ ast' = Append(ast, Event(op, k, name))
        /\ current' = current /\ open' = open /\ units' = units /\ pos' = pos /\ cg' = cg
    BY <1>2 DEF Read
  <2> QED BY <2>1, <2>2, <2>3, <2>4, PlainStep
<1>3. {"var", "use", "return", "else"} \subseteq Op \ {"enter", "leave", "enum"} BY DEF Op
<1>4. {"local", "field", "plain", "value", "bare", "closed", "unclosed"} \subseteq EventKind BY DEF EventKind
<1>5. (n \in VarName => n \in EventName) /\ "else" \in EventName /\ kind \in EventName
  BY DEF EventName, Name, Symbol
<1>6. CASE n \in VarName /\ ParseVar(n)
  BY <1>2, <1>3, <1>4, <1>5, <1>6 DEF ParseVar
<1>7. CASE n \in VarName /\ ParseField(n)
  BY <1>2, <1>3, <1>4, <1>5, <1>7 DEF ParseField
<1>8. CASE n \in VarName /\ ParseUse(n)
  BY <1>2, <1>3, <1>4, <1>5, <1>8 DEF ParseUse
<1>9. CASE ParseReturn(kind) BY <1>2, <1>3, <1>4, <1>5, <1>9 DEF ParseReturn
<1>10. CASE ParseElse(form) BY <1>2, <1>3, <1>4, <1>5, <1>10 DEF ParseElse
<1> QED BY <1>6, <1>7, <1>8, <1>9, <1>10

\* The tree before an import.
LEMMA Root ==
  ASSUME IInv
  PROVE  IsTree(scopes) /\ Len(scopes) >= 1 /\ GlobalIsRoot(scopes)
<1>1. TypeOK /\ TreeShape BY DEF IInv, Tree
<1>2. IsTree(scopes) /\ Len(scopes) \in Nat /\ current \in 1 .. Len(scopes)
  BY <1>1, Types DEF Scopes
<1>3. Len(scopes) >= 1 BY <1>2
<1>4. GlobalIsRoot(scopes) BY <1>1 DEF GlobalIsRoot, TreeShape, Scopes
<1> QED BY <1>2, <1>3, <1>4

\* An import of another module.
LEMMA ImportStep ==
  ASSUME IInv, NEW m \in ModuleName, ParseImport(m)
  PROVE  IInv'
<1>1. /\ phase = "imports" /\ phase' = phase
      /\ scopes' = CopyModule(scopes, m, scopes[current].name)
      /\ ast' = Append(ast, Event("import", "plain", m))
      /\ current' = current /\ open' = open /\ units' = units /\ pos' = pos /\ cg' = cg
  BY DEF ParseImport
<1>2. IsTree(scopes') /\ Copied(scopes, scopes') BY <1>1, Root, CopyModuleTree
<1>3. "import" \in Op \ {"enter", "leave", "enum"} /\ "plain" \in EventKind /\ m \in EventName
  BY DEF Op, EventKind, EventName, Name
<1> QED BY <1>1, <1>2, <1>3, PlainStep

\* Integer and Real are imported, and the module's text begins.
LEMMA ImportBuiltinsStep ==
  ASSUME IInv, ImportBuiltins
  PROVE  IInv'
<1>1. PICK name, mid : name = scopes[current].name /\ mid = CopyModule(scopes, "Integer", name)
  OBVIOUS
<1>2. /\ phase = "imports" /\ phase' = "parse" /\ scopes' = CopyModule(mid, "Real", name)
      /\ current' = current /\ ast' = ast /\ open' = open /\ units' = units
      /\ pos' = pos /\ cg' = cg
  BY <1>1 DEF ImportBuiltins, parserVars
<1>3. IsTree(scopes) /\ Len(scopes) >= 1 /\ GlobalIsRoot(scopes) BY Root
<1>4. IsTree(mid) /\ Copied(scopes, mid) BY <1>1, <1>3, CopyModuleTree
<1>5. Len(mid) >= 1 /\ GlobalIsRoot(mid)
  BY <1>3, <1>4, CopiedRoot DEF Copied
<1>6. IsTree(scopes') /\ Copied(mid, scopes') BY <1>2, <1>4, <1>5, CopyModuleTree
<1>7. Copied(scopes, scopes') BY <1>3, <1>4, <1>6, CopiedTwice
<1>8. TypeOK /\ Text /\ Tree /\ Walk BY DEF IInv
<1>9. TypeOK'
  <2>1. Len(scopes') = Len(scopes) BY <1>7 DEF Copied
  <2> QED BY <1>2, <1>6, <1>8, <2>1 DEF TypeOK, Scopes, Events
<1>10. Text'
  <2>1. ParserPath' /\ LeavesMatch'
    <3>1. \A k : After(k)' = After(k) BY <1>2 DEF After, Inside
    <3>2. \A k : Inside(k)' = Inside(k) BY <1>2 DEF Inside
    <3>3. ParserPath' BY <1>2, <1>8, <3>1 DEF Text, ParserPath, Events
    <3>4. LeavesMatch' BY <1>2, <1>8, <3>2 DEF Text, LeavesMatch, Events
    <3> QED BY <3>3, <3>4
  <2>2. OpenNests'
    <3>1. OpenNests BY <1>8 DEF Text
    <3>2. \A b : Inside(b)' = Inside(b) BY <1>2 DEF Inside
    <3> QED BY <1>2, <3>1, <3>2 DEF OpenNests
  <2>3. Progress' BY <1>2, <1>8 DEF Text, Progress
  <2>4. HiddenScopes' BY <1>2, <1>8 DEF Text, HiddenScopes, Makes, Events
  <2> QED BY <2>1, <2>2, <2>3, <2>4 DEF Text
<1>11. Tree' /\ Walk'
  <2>1. Len(ast) \in Nat BY <1>8, Types
  <2>2. Len(ast) <= Len(ast') /\ \A j \in Events : ast'[j] = ast[j] BY <1>2, <2>1
  <2>3. \A j \in Len(ast) + 1 .. Len(ast') : ~Makes(j)' BY <1>2, <2>1
  <2>4. After(pos)' = After(pos) BY <1>2 DEF After, Inside
  <2> QED BY <1>2, <1>7, <1>8, <1>9, <2>2, <2>3, <2>4, TreeKept
<1> QED BY <1>9, <1>10, <1>11 DEF IInv

\* A file begins: the builtin modules once more, and the module's scope.
LEMMA ProgramStep ==
  ASSUME IInv, NEW m \in ModuleName, ParseProgram(m)
  PROVE  IInv'
<1>1. /\ TypeOK /\ IsTree(scopes) /\ current \in 1 .. Len(scopes) /\ Len(scopes) \in Nat
  BY Types DEF IInv, Scopes
<1>2. PICK wb : wb = InitBuiltins(scopes, current) OBVIOUS
<1>3. /\ phase = "idle" /\ phase' = "imports" /\ units < MaxUnit /\ units' = units + 1
      /\ scopes' = CreateChild(wb, current, "module", m)
      /\ current' = Len(wb) + 1 /\ open' = Append(open, Len(ast) + 1)
      /\ pos' = pos /\ cg' = cg
      /\ ast' = Append(ast, [Event("enter", "module", m) EXCEPT
                               !.scope = Len(wb) + 1,
                               !.ord = Len(wb[current].children) + 1])
  BY <1>2 DEF ParseProgram, EnterScope
<1>4. /\ IsTree(wb) /\ Len(wb) = Len(scopes) + 8 /\ current \in 1 .. Len(wb)
      /\ Len(wb) \in Nat /\ Len(wb[current].children) \in Nat
  <2>1. IsTree(wb) /\ Len(wb) = Len(scopes) + 8 BY <1>1, <1>2, InitBuiltinsTree
  <2>2. current \in 1 .. Len(wb) /\ Len(wb) \in Nat BY <1>1, <2>1
  <2> QED BY <2>1, <2>2, ScopeFields
<1>5. /\ IsTree(scopes')
      /\ Made(wb, scopes', current, Len(wb) + 1, Len(wb[current].children) + 1)
      /\ scopes'[Len(wb) + 1].kind = "module"
  <2>1. "module" \in Kind /\ m \in Name BY DEF Kind, Name
  <2> QED BY <1>3, <1>4, <2>1, CreateChildMakes
<1>6. Made(scopes, scopes', current, Len(wb) + 1, Len(wb[current].children) + 1)
  BY <1>1, <1>2, <1>5, BuiltinsThenMade
<1>7. PICK d : d = Event("enter", "module", m) OBVIOUS
<1>8. d \in EventType /\ d.op = "enter" /\ d.kind = "module" /\ d.at = current
  <2>1. "enter" \in Op /\ "module" \in EventKind /\ m \in EventName
    BY DEF Op, EventKind, EventName, Scoped, Name
  <2>2. d \in EventType BY <1>1, <1>7, <2>1, EventTyped
  <2> QED BY <1>7, <2>2 DEF Event
<1>9. PICK e : e = [d EXCEPT !.scope = Len(wb) + 1, !.ord = Len(wb[current].children) + 1]
  OBVIOUS
<1>10. /\ e \in EventType /\ e.op = "enter" /\ e.kind = "module" /\ e.at = current
       /\ e.scope = Len(wb) + 1 /\ e.ord = Len(wb[current].children) + 1
  <2>1. PICK c \in Nat, o \in Nat : c = Len(wb) + 1 /\ o = Len(wb[current].children) + 1
    BY <1>4
  <2>2. e = [d EXCEPT !.scope = c, !.ord = o] BY <1>9, <2>1
  <2>3. /\ e \in EventType /\ e.op = d.op /\ e.kind = d.kind /\ e.at = d.at
        /\ e.scope = c /\ e.ord = o
    BY ONLY <1>8, <2>1, <2>2 DEF EventType
  <2> QED BY <1>8, <2>1, <2>3
<1>11. ast' = Append(ast, e) BY <1>3, <1>7, <1>9
<1>12. (\E b \in 1 .. Len(open) : ast[open[b]].kind \in Unscoped) => e.hidden
  <2>1. open = << >> BY <1>3 DEF IInv, Text, OpenNests
  <2> QED BY <2>1
<1>13. units' \in 0 .. MaxUnit BY <1>1, <1>3, WalkAssumption DEF TypeOK
<1>14. e.kind \in Scoped /\ e.scope # None /\ e.kind # "class"
  BY <1>4, <1>10 DEF Scoped, None
<1>15. /\ Made(scopes, scopes', current, e.scope, e.ord) /\ current' = e.scope
       /\ scopes'[e.scope].kind = "module" /\ scopes'[e.scope].kind \notin BuiltinKind
  BY <1>3, <1>5, <1>6, <1>10 DEF BuiltinKind
<1> QED BY <1>3, <1>5, <1>10, <1>11, <1>12, <1>13, <1>14, <1>15, EnterStep

-----------------------------------------------------------------------------
(***************************************************************************)
(* The generator's steps.                                                  *)
(***************************************************************************)

\* The trees a and b differ in nothing but their symbols and cursors.
SameButCursors(a, b) ==
  /\ Len(a) = Len(b)
  /\ \A s \in 1 .. Len(a) :
       /\ b[s].kind = a[s].kind /\ b[s].name = a[s].name /\ b[s].parent = a[s].parent
       /\ b[s].children = a[s].children /\ b[s].external = a[s].external

\* What the generator has passed it has passed.
LEMMA PureBefore ==
  ASSUME TypeOK, ast' = ast, pos' \in pos .. Len(ast), Pure'
  PROVE  Pure
<1>1. pos \in Nat /\ Len(ast) \in Nat BY Types
<1> SUFFICES ASSUME NEW j \in 1 .. pos PROVE ~ast[j].hidden BY DEF Pure
<1>2. j \in 1 .. pos' BY <1>1
<1> QED BY <1>2 DEF Pure

\* A step of the generator: what has to be shown of each is that the cursors and the
\* current scope are right again.
LEMMA GeneratorStep ==
  ASSUME IInv, phase = "codegen",
         current' = current, ast' = ast, open' = open, units' = units,
         IsTree(scopes'), SameButCursors(scopes, scopes'),
         pos' \in pos .. Len(ast), cg' \in Scopes,
         \/ phase' \in {"codegen", "failed"} /\ pos' < Len(ast)
         \/ phase' = "idle" /\ pos' = Len(ast),
         Cursors', Sync'
  PROVE  IInv'
<1>1. TypeOK /\ Text /\ Tree /\ Walk BY DEF IInv
<1>2. pos \in Nat /\ Len(ast) \in Nat /\ pos' \in Nat /\ pos <= pos' /\ pos' \in 0 .. Len(ast)
  <2>1. pos \in Nat /\ Len(ast) \in Nat BY <1>1, Types
  <2> QED BY <2>1
<1>3. Scopes' = Scopes /\ Events' = Events BY DEF SameButCursors, Scopes, Events
<1>4. TypeOK' BY <1>1, <1>2, <1>3 DEF TypeOK
<1>5. /\ \A k : After(k)' = After(k)
      /\ \A k : Inside(k)' = Inside(k)
      /\ \A k : Makes(k)' <=> Makes(k)
  BY DEF After, Inside, Makes
<1>6. Text'
  <2>1. ParserPath' BY <1>1, <1>3, <1>5 DEF Text, ParserPath
  <2>2. OpenNests'
    <3>1. OpenNests /\ open = << >> BY <1>1 DEF Text, OpenNests
    <3>2. phase' \notin {"imports", "parse"} OBVIOUS
    <3>3. current' = Global BY <3>1 DEF OpenNests
    <3>4. open' = << >> BY <3>1
    <3>5. Len(open') = 0 BY <3>4
    <3> QED BY <3>2, <3>3, <3>4, <3>5 DEF OpenNests
  <2>3. LeavesMatch' BY <1>1, <1>3, <1>5 DEF Text, LeavesMatch
  <2>4. Progress'
    <3>1. ast[Len(ast)].op = "leave" /\ ast[Len(ast)].kind = "module"
      BY <1>1 DEF Text, Progress
    <3>2. ASSUME NEW l \in pos' + 1 .. Len(ast'), ast'[l].op = "leave", ast'[l].kind = "module"
          PROVE  phase' \in {"codegen", "failed"} /\ l = Len(ast')
      <4>0. PICK p, n : p = pos' /\ n = Len(ast) OBVIOUS
      <4>1. l \in pos + 1 .. Len(ast) /\ pos' # Len(ast)
        <5>1. l \in p + 1 .. n BY <4>0
        <5>2. pos \in Nat /\ n \in Nat /\ p \in Nat /\ pos <= p BY <1>2, <4>0
        <5>3. p # n /\ l \in pos + 1 .. n BY ONLY <5>1, <5>2
        <5> QED BY <4>0, <5>3
      <4>2. l = Len(ast) BY <1>1, <3>2, <4>1 DEF Text, Progress
      <4> QED BY <4>1, <4>2
    <3> QED BY <3>1, <3>2 DEF Progress
  <2>5. HiddenScopes' BY <1>1, <1>3, <1>5 DEF Text, HiddenScopes
  <2> QED BY <2>1, <2>2, <2>3, <2>4, <2>5 DEF Text
<1>7. \A s \in Scopes :
        /\ scopes'[s].kind = scopes[s].kind /\ scopes'[s].name = scopes[s].name
        /\ scopes'[s].parent = scopes[s].parent /\ scopes'[s].children = scopes[s].children
        /\ scopes'[s].external = scopes[s].external
  BY DEF SameButCursors, Scopes
<1>8. MadeScopes'
  <2> SUFFICES ASSUME NEW j \in Events, Makes(j)
               PROVE  /\ ast[j].scope \in Scopes /\ ast[j].at \in Scopes
                      /\ ast[j].ord \in 1 .. Len(scopes'[ast[j].at].children)
                      /\ scopes'[ast[j].at].children[ast[j].ord] = ast[j].scope
                      /\ scopes'[ast[j].scope].parent = ast[j].at
                      /\ scopes'[ast[j].scope].kind \notin BuiltinKind
                      /\ scopes'[ast[j].scope].kind = "module" <=> ast[j].kind = "module"
                      /\ ast[j].kind = "class" => scopes'[ast[j].scope].name \in VarName
    BY <1>3, <1>5 DEF MadeScopes
  <2> QED BY <1>1, <1>7, MadeFields, SMTT(30) DEF Tree
<1>9. TreeShape'
  <2> SUFFICES ASSUME NEW s \in Scopes, NEW k \in 1 .. Len(scopes'[s].children),
                      NEW c, c = scopes'[s].children[k]
               PROVE  /\ c # Global
                      /\ s # Global => scopes'[c].kind # "module"
                      /\ \/ Skippable(scopes', c)
                         \/ \E j \in Events : Makes(j) /\ ast[j].at = s /\ ast[j].ord = k
    BY <1>3, <1>5 DEF TreeShape
  <2>1. k \in 1 .. Len(scopes[s].children) /\ c = scopes[s].children[k] BY <1>7
  <2>2. c \in Scopes
    <3>1. IsTree(scopes) BY <1>1, Types
    <3> QED BY <2>1, <3>1, ScopeFields DEF Scopes
  <2>3. /\ c # Global
        /\ s # Global => scopes[c].kind # "module"
        /\ \/ Skippable(scopes, c)
           \/ \E j \in Events : Makes(j) /\ ast[j].at = s /\ ast[j].ord = k
    BY <1>1, <2>1 DEF Tree, TreeShape
  <2>4. Skippable(scopes, c) => Skippable(scopes', c) BY <1>7, <2>2 DEF Skippable
  <2> QED BY <1>7, <2>2, <2>3, <2>4
<1>10. TextOrder' BY <1>1, <1>3, <1>5 DEF Tree, TextOrder
<1>11. ImportsFirst' BY DEF ImportsFirst
<1>12. ExternalIsGenerated'
  <2> SUFFICES ASSUME NEW j \in Events, Makes(j), scopes'[ast[j].scope].external
               PROVE  j <= pos'
    BY <1>3 DEF ExternalIsGenerated, Makes
  <2>1. ast[j].scope \in Scopes BY <1>1, MadeFields DEF Tree
  <2>2. j <= pos BY <1>1, <1>7, <2>1 DEF Walk, ExternalIsGenerated, Makes
  <2> QED BY <1>2, <2>2 DEF Events
<1> QED BY <1>4, <1>6, <1>8, <1>9, <1>10, <1>11, <1>12 DEF IInv, Tree, Walk

\* Nothing has been passed that makes a scope, or something that should not have.
LEMMA CursorsKept ==
  ASSUME IInv, ast' = ast, pos' \in pos .. Len(ast),
         SameButCursors(scopes, scopes'),
         \A s \in Scopes : scopes'[s].cursor = scopes[s].cursor,
         Pure' => \A i \in pos + 1 .. pos' : ~Makes(i)
  PROVE  Cursors'
<1> SUFFICES ASSUME Pure' PROVE Cursors' BY DEF Cursors
<1>1. TypeOK /\ Pure /\ MadeScopes BY PureBefore DEF IInv, Tree
<1>2. pos \in Nat /\ Len(ast) \in Nat /\ Scopes' = Scopes /\ Events' = Events
  BY <1>1, Types DEF SameButCursors, Scopes, Events
<1>3. /\ \A s \in Scopes : scopes[s].cursor <= Len(scopes[s].children)
      /\ \A j \in Events : Makes(j) =>
           IF j <= pos THEN ast[j].ord <= scopes[ast[j].at].cursor
           ELSE scopes[ast[j].at].cursor < ast[j].ord
  BY <1>1 DEF IInv, Walk, Cursors
<1>4. \A s \in Scopes : scopes'[s].cursor <= Len(scopes'[s].children)
  BY <1>3 DEF SameButCursors, Scopes
<1>5. ASSUME NEW j \in Events, Makes(j)
      PROVE  IF j <= pos' THEN ast[j].ord <= scopes'[ast[j].at].cursor
             ELSE scopes'[ast[j].at].cursor < ast[j].ord
  <2>1. ast[j].at \in Scopes BY <1>1, <1>5, MadeFields
  <2>2. j \notin pos + 1 .. pos' BY <1>5
  <2>3. j <= pos' <=> j <= pos BY <1>2, <2>2 DEF Events
  <2> QED BY <1>3, <1>5, <2>1, <2>3
<1> QED BY <1>2, <1>4, <1>5 DEF Cursors, Makes

\* The event that the generator visits next, and where it stands.
LEMMA Upcoming ==
  ASSUME IInv, phase = "codegen"
  PROVE  /\ pos + 1 \in Events /\ pos \in Nat /\ Len(ast) \in Nat /\ Next1 = ast[pos + 1]
         /\ pos + 1 \in pos .. Len(ast) /\ pos \in pos .. Len(ast) /\ pos < Len(ast)
         /\ Next1.op # "leave" \/ Next1.kind # "module" => pos + 1 < Len(ast)
         /\ Pure => cg = Next1.at
         /\ open = << >> /\ current = Global
<1>1. TypeOK /\ Text /\ Walk BY DEF IInv
<1>2. pos \in Nat /\ Len(ast) \in Nat BY <1>1, Types
<1>3. pos < Len(ast) /\ ast[Len(ast)].op = "leave" /\ ast[Len(ast)].kind = "module"
  BY <1>1 DEF Text, Progress
<1>4. pos + 1 \in Events /\ pos + 1 \in pos .. Len(ast) /\ pos \in pos .. Len(ast)
  BY <1>2, <1>3 DEF Events
<1>5. Next1 = ast[pos + 1] BY DEF Next1
<1>6. ASSUME Next1.op # "leave" \/ Next1.kind # "module"
      PROVE  pos + 1 < Len(ast)
  <2>1. pos + 1 # Len(ast) BY <1>3, <1>5, <1>6
  <2> QED BY <1>2, <1>3, <2>1
<1>7. ASSUME Pure PROVE cg = Next1.at
  <2>1. cg = After(pos) BY <1>1, <1>7 DEF Walk, Sync
  <2>2. ast[pos + 1].at = After(pos + 1 - 1) BY <1>1, <1>4 DEF Text, ParserPath
  <2>3. pos + 1 - 1 = pos BY <1>2
  <2> QED BY <1>5, <2>1, <2>2, <2>3
<1>8. open = << >> /\ current = Global BY <1>1 DEF Text, OpenNests
<1> QED BY <1>2, <1>3, <1>4, <1>5, <1>6, <1>7, <1>8

\* Scope::nextScope finds the scope that the parser made for what is visited next.
LEMMA NextScopeFinds ==
  ASSUME IInv, phase = "codegen", Pure, Makes(pos + 1)
  PROVE  /\ NextScope(scopes, cg) = Next1.scope
         /\ PassedTo(scopes, cg) = Next1.ord
         /\ cg = Next1.at
<1>1. /\ TypeOK /\ MadeScopes /\ TreeShape /\ TextOrder /\ ExternalIsGenerated /\ Cursors
      /\ pos + 1 \in Events /\ pos \in Nat /\ Next1 = ast[pos + 1] /\ cg = Next1.at
  BY Upcoming DEF IInv, Tree, Walk
<1>2. PICK s, k, c : s = ast[pos + 1].at /\ k = ast[pos + 1].ord /\ c = ast[pos + 1].scope
  OBVIOUS
<1>3. /\ s \in Scopes /\ c \in Scopes /\ k \in 1 .. Len(scopes[s].children)
      /\ scopes[s].children[k] = c /\ scopes[c].kind \notin BuiltinKind
      /\ k \in Nat /\ Len(scopes[s].children) \in Nat
  BY <1>1, <1>2, MadeFields
<1>4. IsTree(scopes) /\ s \in 1 .. Len(scopes) BY <1>1, <1>3, Types DEF Scopes
<1>5. scopes[s].cursor \in Nat BY <1>4, ScopeFields
<1>6. /\ ~(pos + 1 <= pos)
      /\ \A j \in Events : Makes(j) =>
           IF j <= pos THEN ast[j].ord <= scopes[ast[j].at].cursor
           ELSE scopes[ast[j].at].cursor < ast[j].ord
  BY <1>1 DEF Cursors
<1>7. scopes[s].cursor < k BY <1>1, <1>2, <1>6
<1>8. ~Skippable(scopes, c)
  <2>1. ~scopes[c].external BY <1>1, <1>2, <1>6 DEF ExternalIsGenerated, Makes
  <2> QED BY <1>3, <2>1 DEF Skippable
<1>9. ASSUME NEW i \in scopes[s].cursor + 1 .. k - 1
      PROVE  Skippable(scopes, scopes[s].children[i])
  <2>1. i \in 1 .. Len(scopes[s].children) /\ i < k /\ scopes[s].cursor < i
    BY <1>3, <1>5
  <2>2. ASSUME NEW j \in Events, Makes(j), ast[j].at = s, ast[j].ord = i
        PROVE  FALSE
    <3>1. CASE j <= pos
      <4>1. i <= scopes[s].cursor BY <1>6, <2>2, <3>1
      <4> QED BY <4>1, <2>1, <1>5
    <3>2. CASE j = pos + 1 BY <1>2, <1>3, <2>1, <2>2, <3>2
    <3>3. CASE pos + 1 < j
      <4>1. k < i BY <1>1, <1>2, <2>2, <3>3 DEF TextOrder
      <4> QED BY <4>1, <2>1, <1>3
    <3> QED BY <3>1, <3>2, <3>3, <1>1 DEF Events
  <2> QED BY <1>1, <1>3, <2>1, <2>2 DEF TreeShape
<1>10. NextScope(scopes, s) = scopes[s].children[k] /\ PassedTo(scopes, s) = k
  BY <1>3, <1>4, <1>7, <1>8, <1>9, NextScopeIs
<1> QED BY <1>1, <1>2, <1>3, <1>10

\* The generator enters a construct with a scope; it may look in vain only after it
\* has passed a scope that it should have visited.
LEMMA DescendStep ==
  ASSUME IInv, NextIs("enter", Scoped), Descend, phase' = phase,
         current' = current, ast' = ast, open' = open, units' = units,
         pos' = pos + 1 \/ (pos' = pos /\ ~Pure)
  PROVE  IInv'
<1>1. /\ TypeOK /\ Text /\ Tree /\ Walk
      /\ IsTree(scopes) /\ cg \in 1 .. Len(scopes) /\ Len(scopes) \in Nat
  BY Types DEF IInv, Scopes
<1>2. phase = "codegen" /\ Next1.op = "enter" /\ Next1.kind \in Scoped BY DEF NextIs
<1>3. /\ pos + 1 \in Events /\ pos \in Nat /\ Len(ast) \in Nat /\ Next1 = ast[pos + 1]
      /\ pos + 1 \in pos .. Len(ast) /\ pos \in pos .. Len(ast) /\ pos < Len(ast)
      /\ pos + 1 < Len(ast)
  BY <1>2, Upcoming
<1>4. PICK t, c : t = NextScope(scopes, cg) /\ c = PassedTo(scopes, cg) OBVIOUS
<1>5. t \in 0 .. Len(scopes) /\ c \in Nat BY <1>1, <1>4, NextScopeInTree
<1>6. t # None /\ scopes' = Advance(scopes, cg) /\ cg' = t BY <1>4 DEF Descend
<1>7. cg' \in Scopes BY <1>1, <1>5, <1>6 DEF Scopes, None
<1>8. /\ IsTree(scopes') /\ Len(scopes') = Len(scopes)
      /\ \A s \in 1 .. Len(scopes) :
           /\ scopes'[s].kind = scopes[s].kind /\ scopes'[s].name = scopes[s].name
           /\ scopes'[s].parent = scopes[s].parent /\ scopes'[s].children = scopes[s].children
           /\ scopes'[s].external = scopes[s].external
           /\ scopes'[s].cursor = IF s = cg THEN c ELSE scopes[s].cursor
  BY <1>1, <1>4, <1>5, <1>6, AdvanceTree
<1>9. SameButCursors(scopes, scopes') BY <1>8 DEF SameButCursors
<1>10. pos' \in pos .. Len(ast) /\ pos' < Len(ast) BY <1>3
<1>11. Pure' => Pure /\ pos' = pos + 1 BY <1>1, <1>10, PureBefore
<1>12. Makes(pos + 1) BY <1>1, <1>2, <1>3 DEF Text, HiddenScopes
<1>13. Cursors'
  <2> SUFFICES ASSUME Pure' PROVE Cursors' BY DEF Cursors
  <2>1. Pure /\ pos' = pos + 1 BY <1>11
  <2>2. c = ast[pos + 1].ord /\ cg = ast[pos + 1].at
    BY <1>2, <1>3, <1>4, <1>12, <2>1, NextScopeFinds
  <2>3. /\ \A s \in Scopes : scopes[s].cursor <= Len(scopes[s].children)
        /\ \A j \in Events : Makes(j) =>
             IF j <= pos THEN ast[j].ord <= scopes[ast[j].at].cursor
             ELSE scopes[ast[j].at].cursor < ast[j].ord
    BY <1>1, <2>1 DEF Walk, Cursors
  <2>4. c \in 1 .. Len(scopes[cg].children) /\ scopes[cg].cursor < c
        /\ Len(scopes[cg].children) \in Nat /\ scopes[cg].cursor \in Nat
    <3>1. c \in 1 .. Len(scopes[cg].children) /\ Len(scopes[cg].children) \in Nat
      BY <1>1, <1>3, <1>12, <2>2, MadeFields DEF Tree
    <3>2. ~(pos + 1 <= pos) BY <1>3
    <3>3. scopes[cg].cursor < c BY <1>3, <1>12, <2>2, <2>3, <3>2
    <3>4. scopes[cg].cursor \in Nat BY <1>1, ScopeFields
    <3> QED BY <3>1, <3>3, <3>4
  <2>5. ASSUME NEW s \in Scopes PROVE scopes'[s].cursor <= Len(scopes'[s].children)
    <3>1. CASE s = cg BY <1>5, <1>8, <2>4, <3>1 DEF Scopes
    <3>2. CASE s # cg BY <1>8, <2>3, <3>2 DEF Scopes
    <3> QED BY <3>1, <3>2
  <2>6. ASSUME NEW j \in Events, Makes(j)
        PROVE  IF j <= pos + 1 THEN ast[j].ord <= scopes'[ast[j].at].cursor
               ELSE scopes'[ast[j].at].cursor < ast[j].ord
    <3>1. ast[j].at \in Scopes /\ ast[j].ord \in Nat BY <1>1, <2>6, MadeFields DEF Tree
    <3>2. /\ ast[j].at = cg => scopes'[ast[j].at].cursor = c
          /\ ast[j].at # cg => scopes'[ast[j].at].cursor = scopes[ast[j].at].cursor
      BY <1>8, <3>1 DEF Scopes
    <3>3. j \in Nat BY DEF Events
    <3>4. CASE j <= pos
      <4>1. ast[j].ord <= scopes[ast[j].at].cursor BY <2>3, <2>6, <3>4
      <4>2. ast[j].ord <= scopes'[ast[j].at].cursor
        BY <1>5, <2>4, <3>1, <3>2, <4>1
      <4> QED BY <1>3, <3>3, <3>4, <4>2
    <3>5. CASE j = pos + 1 BY <1>3, <1>5, <2>2, <3>2, <3>5
    <3>6. CASE j > pos + 1
      <4>1. ~(j <= pos + 1) /\ ~(j <= pos) BY <1>3, <3>3, <3>6
      <4>2. ast[j].at # cg => scopes'[ast[j].at].cursor < ast[j].ord
        BY <2>3, <2>6, <3>2, <4>1
      <4>3. ast[j].at = cg => c < ast[j].ord
        BY <1>1, <1>3, <1>12, <2>2, <2>6, <3>3, <3>6 DEF Tree, TextOrder
      <4> QED BY <3>2, <4>1, <4>2, <4>3
    <3> QED BY <1>3, <3>3, <3>4, <3>5, <3>6
  <2>7. Scopes' = Scopes /\ Events' = Events BY <1>8 DEF Scopes, Events
  <2> QED BY <2>1, <2>5, <2>6, <2>7 DEF Cursors, Makes
<1>14. Sync'
  <2> SUFFICES ASSUME Pure' PROVE cg' = After(pos)' BY DEF Sync
  <2>1. Pure /\ pos' = pos + 1 BY <1>11
  <2>2. t = ast[pos + 1].scope BY <1>2, <1>3, <1>4, <1>12, <2>1, NextScopeFinds
  <2>3. pos + 1 # 0 BY <1>3
  <2>4. After(pos + 1) = ast[pos + 1].scope BY <1>2, <1>3, <2>3 DEF After, Inside
  <2>5. After(pos)' = After(pos + 1) BY <2>1 DEF After, Inside
  <2> QED BY <1>6, <2>2, <2>4, <2>5
<1> QED BY <1>2, <1>7, <1>8, <1>9, <1>10, <1>13, <1>14, GeneratorStep

\* The generator passes events that make no scope; it stays where it is, or goes back.
LEMMA PassStep ==
  ASSUME IInv, phase = "codegen",
         current' = current, ast' = ast, open' = open, units' = units,
         IsTree(scopes'), SameShape(scopes, scopes'), cg' \in Scopes,
         NEW p \in pos .. Len(ast), pos' = p,
         \/ phase' \in {"codegen", "failed"} /\ p < Len(ast)
         \/ phase' = "idle" /\ p = Len(ast),
         Pure' => \A i \in pos + 1 .. p : ~Makes(i),
         phase' # "failed" /\ Pure' => cg' = After(p)
  PROVE  IInv'
<1>1. SameButCursors(scopes, scopes') /\ \A s \in Scopes : scopes'[s].cursor = scopes[s].cursor
  BY DEF SameShape, SameButCursors, Scopes
<1>2. pos' \in pos .. Len(ast) OBVIOUS
<1>3. Cursors' BY <1>1, <1>2, CursorsKept
<1>4. Sync'
  <2>1. After(pos)' = After(p) BY DEF After, Inside
  <2> QED BY <2>1 DEF Sync
<1>5. \/ phase' \in {"codegen", "failed"} /\ pos' < Len(ast)
      \/ phase' = "idle" /\ pos' = Len(ast)
  OBVIOUS
<1> QED BY <1>1, <1>2, <1>3, <1>4, <1>5, GeneratorStep

\* One event that neither enters nor leaves a construct is passed, and the generator
\* stays in its scope.
LEMMA PassPlain ==
  ASSUME IInv, phase = "codegen", Next1.op \notin {"enter", "leave"},
         current' = current, ast' = ast, open' = open, units' = units, phase' = phase,
         IsTree(scopes'), SameShape(scopes, scopes'), cg' = cg, pos' = pos + 1
  PROVE  IInv'
<1>1. /\ pos + 1 \in Events /\ pos \in Nat /\ Next1 = ast[pos + 1]
      /\ pos + 1 \in pos .. Len(ast) /\ pos + 1 < Len(ast)
      /\ Pure => cg = Next1.at
  BY Upcoming
<1>2. TypeOK /\ Text BY DEF IInv
<1>3. cg' \in Scopes BY <1>2, Types
<1>4. Pure' => Pure /\ ~ast[pos + 1].hidden
  <2>1. Pure' => Pure BY <1>1, <1>2, PureBefore
  <2>2. pos + 1 \in 1 .. pos' BY <1>1
  <2> QED BY <2>1, <2>2 DEF Pure
<1>5. ~ast[pos + 1].hidden => ~Makes(pos + 1)
  BY <1>1, <1>2 DEF Text, HiddenScopes
<1>6. Pure' => \A i \in pos + 1 .. pos + 1 : ~Makes(i)
  <2>1. \A i \in pos + 1 .. pos + 1 : i = pos + 1 BY <1>1
  <2> QED BY <2>1, <1>4, <1>5
<1>7. Pure' => cg' = After(pos + 1)
  <2>1. pos + 1 # 0 BY <1>1
  <2>2. After(pos + 1) = ast[pos + 1].at BY <1>1, <2>1 DEF After
  <2> QED BY <1>1, <1>4, <2>2
<1>8. PICK p \in pos .. Len(ast) : p = pos + 1 BY <1>1
<1>9. /\ pos' = p /\ p < Len(ast)
      /\ Pure' => \A i \in pos + 1 .. p : ~Makes(i)
      /\ Pure' => cg' = After(p)
  BY <1>1, <1>6, <1>7, <1>8
<1> QED BY <1>3, <1>9, PassStep

\* The generator fails.
LEMMA FailStep ==
  ASSUME IInv, phase = "codegen", Fail
  PROVE  IInv'
<1>1. /\ scopes' = scopes /\ current' = current /\ ast' = ast /\ open' = open
      /\ units' = units /\ pos' = pos /\ cg' = cg /\ phase' = "failed"
  BY DEF Fail, parserVars
<1>2. pos \in pos .. Len(ast) /\ pos < Len(ast) /\ pos \in Nat BY Upcoming
<1>3. IsTree(scopes') /\ SameShape(scopes, scopes') /\ cg' \in Scopes
  BY <1>1, Types DEF IInv, SameShape
<1>4. \A i \in pos + 1 .. pos : ~Makes(i) BY <1>2
<1>5. phase' \in {"codegen", "failed"} /\ pos' = pos BY <1>1
<1> QED BY <1>1, <1>2, <1>3, <1>4, <1>5, PassStep

\* The generator leaves a construct that has a scope: prevScope.
LEMMA VisitEndStep ==
  ASSUME IInv, VisitEnd
  PROVE  IInv'
<1>1. /\ phase = "codegen" /\ Next1.op = "leave" /\ Next1.kind \in Scoped \ {"module"}
      /\ scopes[cg].parent # None /\ cg' = scopes[cg].parent
      /\ pos' = pos + 1 /\ scopes' = scopes /\ phase' = phase
      /\ current' = current /\ ast' = ast /\ open' = open /\ units' = units
  BY DEF VisitEnd, NextIs, Pass, parserVars
<1>2. /\ pos + 1 \in Events /\ pos \in Nat /\ Next1 = ast[pos + 1]
      /\ pos + 1 \in pos .. Len(ast) /\ pos + 1 < Len(ast) /\ Len(ast) \in Nat
      /\ Pure => cg = Next1.at
  BY <1>1, Upcoming
<1>3. TypeOK /\ Text /\ MadeScopes BY DEF IInv, Tree
<1>4. IsTree(scopes') /\ SameShape(scopes, scopes') BY <1>1, <1>3, Types DEF SameShape
<1>5. cg' \in Scopes
  <2>1. IsTree(scopes) /\ cg \in 1 .. Len(scopes) BY <1>3, Types DEF Scopes
  <2>2. scopes[cg].parent \in 0 .. Len(scopes) /\ Len(scopes) \in Nat BY <2>1, ScopeFields
  <2> QED BY <1>1, <2>2 DEF Scopes, None
<1>6. Pure' => Pure BY <1>1, <1>2, <1>3, PureBefore
<1>7. ~Makes(pos + 1) BY <1>1, <1>2, <1>3 DEF Text, HiddenScopes
<1>8. Pure' => cg' = After(pos + 1)
  <2> SUFFICES ASSUME Pure PROVE cg' = After(pos + 1) BY <1>6
  <2>1. PICK b : b = ast[pos + 1].block OBVIOUS
  <2>2. /\ b \in 1 .. pos + 1 - 1 /\ ast[b].op = "enter" /\ ast[b].kind \in Scoped
        /\ ast[pos + 1].at = Inside(b)
    BY <1>1, <1>2, <1>3, <2>1 DEF Text, LeavesMatch
  <2>3. b \in Events BY <1>2, <2>2 DEF Events
  <2>4. Makes(b) BY <1>3, <2>2, <2>3 DEF Text, HiddenScopes
  <2>5. cg = ast[b].scope BY <1>2, <2>2 DEF Inside
  <2>6. cg' = ast[b].at BY <1>1, <1>3, <2>3, <2>4, <2>5, MadeFields
  <2>7. pos + 1 # 0 BY <1>2
  <2> QED BY <1>1, <1>2, <2>1, <2>6, <2>7 DEF After
<1>9. PICK p \in pos .. Len(ast) : p = pos + 1 BY <1>2
<1>10. \A i \in pos + 1 .. p : ~Makes(i)
  <2>1. \A i \in pos + 1 .. p : i = pos + 1 BY <1>2, <1>9
  <2> QED BY <2>1, <1>7
<1>11. pos' = p /\ p < Len(ast) /\ (Pure' => cg' = After(p)) BY <1>1, <1>2, <1>8, <1>9
<1> QED BY <1>1, <1>4, <1>5, <1>10, <1>11, PassStep

\* The generator is done with a file.
LEMMA EndModuleStep ==
  ASSUME IInv, EndModule
  PROVE  IInv'
<1>1. /\ phase = "codegen" /\ Next1.op = "leave" /\ Next1.kind = "module"
      /\ cg' = Global /\ phase' = "idle" /\ pos' = pos + 1 /\ scopes' = scopes
      /\ current' = current /\ ast' = ast /\ open' = open /\ units' = units
  BY DEF EndModule, NextIs, parserVars
<1>2. /\ pos + 1 \in Events /\ pos \in Nat /\ Next1 = ast[pos + 1] /\ Len(ast) \in Nat
      /\ pos + 1 \in pos .. Len(ast) /\ current = Global
  BY <1>1, Upcoming
<1>3. TypeOK /\ Text /\ Tree BY DEF IInv
<1>4. IsTree(scopes') /\ SameShape(scopes, scopes') BY <1>1, <1>3, Types DEF SameShape
<1>5. cg' \in Scopes BY <1>1, <1>2, <1>3, Types
<1>6. pos + 1 = Len(ast)
  <2>1. pos + 1 \in pos + 1 .. Len(ast) BY <1>2
  <2> QED BY <1>1, <1>2, <1>3, <2>1 DEF Text, Progress
<1>7. ~Makes(pos + 1) BY <1>1, <1>2, <1>3 DEF Text, HiddenScopes
<1>8. cg' = After(Len(ast)) BY <1>1, <1>2, <1>3 DEF Text, ParserPath
<1>9. PICK p \in pos .. Len(ast) : p = pos + 1 BY <1>2
<1>10. \A i \in pos + 1 .. p : ~Makes(i)
  <2>1. \A i \in pos + 1 .. p : i = pos + 1 BY <1>2, <1>9
  <2> QED BY <2>1, <1>7
<1>11. pos' = p /\ p = Len(ast) /\ cg' = After(p) BY <1>1, <1>6, <1>8, <1>9
<1> QED BY <1>1, <1>4, <1>5, <1>10, <1>11, PassStep

\* A while or a switch is passed over with all that is in it.
LEMMA VisitUnscopedStep ==
  ASSUME IInv, VisitUnscoped
  PROVE  IInv'
<1>1. PICK p : p = CHOOSE j \in pos + 1 .. Len(ast) :
                     ast[j].op = "leave" /\ ast[j].block = pos + 1
  OBVIOUS
<1>2. /\ phase = "codegen" /\ Next1.op = "enter" /\ Next1.kind \in Unscoped
      /\ cg' = cg /\ phase' = phase /\ pos' = pos + (p - pos) /\ scopes' = scopes
      /\ current' = current /\ ast' = ast /\ open' = open /\ units' = units
  BY <1>1 DEF VisitUnscoped, NextIs, Pass, parserVars
<1>3. /\ pos + 1 \in Events /\ pos \in Nat /\ Next1 = ast[pos + 1] /\ Len(ast) \in Nat
      /\ Pure => cg = Next1.at
      /\ open = << >>
  BY <1>2, Upcoming
<1>4. TypeOK /\ Text BY DEF IInv
<1>5. \E l \in pos + 1 .. Len(ast) : ast[l].op = "leave" /\ ast[l].block = pos + 1
  <2>1. \/ \E i \in 1 .. Len(open) : open[i] = pos + 1
        \/ \E l \in pos + 1 + 1 .. Len(ast) : ast[l].op = "leave" /\ ast[l].block = pos + 1
    BY <1>2, <1>3, <1>4 DEF Text, LeavesMatch
  <2>2. Len(open) = 0 BY <1>3
  <2>3. PICK l \in pos + 1 + 1 .. Len(ast) : ast[l].op = "leave" /\ ast[l].block = pos + 1
    BY <2>1, <2>2
  <2>4. l \in pos + 1 .. Len(ast) BY <1>3
  <2> QED BY <2>3, <2>4
<1>6. p \in pos + 1 .. Len(ast) /\ ast[p].op = "leave" /\ ast[p].block = pos + 1
  BY <1>1, <1>5
<1>7. p \in Nat /\ p \in pos .. Len(ast) /\ p \in Events /\ pos + (p - pos) = p
  BY <1>3, <1>6 DEF Events
<1>8. /\ ast[p].kind = Next1.kind /\ pos + 1 <= p - 1
  BY <1>3, <1>4, <1>6, <1>7 DEF Text, LeavesMatch
<1>9. p < Len(ast)
  <2>1. ast[Len(ast)].kind = "module" BY <1>2, <1>4 DEF Text, Progress
  <2>2. p # Len(ast) BY <1>2, <1>8, <2>1 DEF Unscoped
  <2> QED BY <1>3, <1>7, <2>2
<1>10. IsTree(scopes') /\ SameShape(scopes, scopes') /\ cg' \in Scopes
  BY <1>2, <1>4, Types DEF SameShape
<1>11. pos' = p /\ pos' \in pos .. Len(ast) BY <1>2, <1>7
<1>12. Pure' => Pure BY <1>2, <1>4, <1>11, PureBefore
<1>13. ASSUME Pure', NEW i \in pos + 1 .. p PROVE ~Makes(i)
  <2>1. CASE i = pos + 1
    <3>1. Next1.kind \notin Scoped BY <1>2 DEF Scoped, Unscoped
    <3> QED BY <1>2, <1>3, <1>4, <2>1, <3>1 DEF Text, HiddenScopes
  <2>2. CASE i # pos + 1
    <3>1. i \in ast[p].block + 1 .. p /\ i \in 1 .. p BY <1>3, <1>6, <1>7, <2>2
    <3>2. Makes(i) => ast[i].hidden
      BY <1>2, <1>4, <1>6, <1>7, <1>8, <3>1 DEF Text, HiddenScopes
    <3>3. ~ast[i].hidden BY <1>2, <1>11, <1>13, <3>1 DEF Pure
    <3> QED BY <3>2, <3>3
  <2> QED BY <2>1, <2>2
<1>14. Pure' => cg' = After(p)
  <2>1. p # 0 BY <1>3, <1>7, <1>8
  <2>2. After(p) = Next1.at BY <1>3, <1>6, <2>1 DEF After
  <2> QED BY <1>2, <1>3, <1>12, <2>2
<1> QED BY <1>2, <1>7, <1>9, <1>10, <1>11, <1>13, <1>14, PassStep

\* Every step of the generator.
LEMMA GenerateSteps ==
  ASSUME IInv, Generate
  PROVE  IInv'
<1>1. TypeOK /\ MadeScopes BY DEF IInv, Tree
<1>2. CASE VisitModule
  <2>1. /\ NextIs("enter", {"module"}) /\ Descend /\ phase' = phase
        /\ current' = current /\ ast' = ast /\ open' = open /\ units' = units
    BY <1>2 DEF VisitModule, Pass, parserVars
  <2>2. NextIs("enter", Scoped) BY <2>1 DEF NextIs, Scoped
  <2>3. PICK there \in BOOLEAN :
          /\ there <=> \/ scopes[NextScope(scopes, cg)].kind = "module"
                       \/ scopes[NextScope(scopes, cg)].name = Next1.name
          /\ pos' = pos + IF there THEN 1 ELSE 0
    BY <1>2 DEF VisitModule, Pass
  <2>4. pos \in Nat BY <1>1, Types
  <2>5. CASE there
    <3>1. pos' = pos + 1 \/ (pos' = pos /\ ~Pure) BY <2>3, <2>5
    <3> QED BY <2>1, <2>2, <3>1, DescendStep
  <2>6. CASE ~there
    <3>1. pos' = pos BY <2>3, <2>4, <2>6
    <3>2. ASSUME Pure PROVE FALSE
      <4>1. phase = "codegen" /\ Next1.op = "enter" /\ Next1.kind = "module"
        BY <2>1 DEF NextIs
      <4>2. pos + 1 \in Events /\ Next1 = ast[pos + 1] BY <4>1, Upcoming
      <4>3. Makes(pos + 1)
        BY <4>1, <4>2 DEF IInv, Text, HiddenScopes, Scoped
      <4>4. NextScope(scopes, cg) = Next1.scope BY <3>2, <4>1, <4>3, NextScopeFinds
      <4>5. scopes[Next1.scope].kind = "module" BY <1>1, <4>1, <4>2, <4>3, MadeFields
      <4> QED BY <2>3, <2>6, <4>4, <4>5
    <3> QED BY <2>1, <2>2, <3>1, <3>2, DescendStep
  <2> QED BY <2>5, <2>6
<1>3. CASE VisitScoped
  <2>1. /\ NextIs("enter", Scoped \ {"module"}) /\ Descend /\ phase' = phase /\ pos' = pos + 1
        /\ current' = current /\ ast' = ast /\ open' = open /\ units' = units
    BY <1>3 DEF VisitScoped, Pass, parserVars
  <2>2. NextIs("enter", Scoped) BY <2>1 DEF NextIs
  <2>3. pos' = pos + 1 \/ (pos' = pos /\ ~Pure) BY <2>1
  <2> QED BY <2>1, <2>2, <2>3, DescendStep
<1>4. CASE VisitVar
  <2>1. /\ phase = "codegen" /\ Next1.op = "var" /\ phase' = phase /\ pos' = pos + 1
        /\ scopes' = AddAlloca(scopes, cg, Next1.name, pos + 1) /\ cg' = cg
        /\ current' = current /\ ast' = ast /\ open' = open /\ units' = units
    BY <1>4 DEF VisitVar, NextIs, Pass, parserVars
  <2>2. IsTree(scopes) /\ cg \in 1 .. Len(scopes) /\ pos + 1 \in Nat
    BY <1>1, Types DEF Scopes
  <2>3. IsTree(scopes') /\ SameShape(scopes, scopes') BY <2>1, <2>2, AddAllocaTree
  <2> QED BY <2>1, <2>3, PassPlain
<1>5. CASE VisitUse \/ VisitReturn \/ VisitNothing
  <2>1. /\ phase = "codegen" /\ Next1.op \in {"use", "return", "import", "enum", "var", "else"}
        /\ phase' = phase /\ pos' = pos + 1 /\ scopes' = scopes /\ cg' = cg
        /\ current' = current /\ ast' = ast /\ open' = open /\ units' = units
    BY <1>5 DEF VisitUse, VisitReturn, VisitNothing, NextIs, Pass, parserVars
  <2>2. IsTree(scopes') /\ SameShape(scopes, scopes') BY <1>1, <2>1, Types DEF SameShape
  <2> QED BY <2>1, <2>2, PassPlain
<1>6. CASE VisitLost \/ VisitEndLost \/ VisitUseLost \/ VisitReturnLost
  <2>1. phase = "codegen" /\ Fail
    BY <1>6 DEF VisitLost, VisitEndLost, VisitUseLost, VisitReturnLost, NextIs
  <2> QED BY <2>1, FailStep
<1> QED
  BY <1>2, <1>3, <1>4, <1>5, <1>6, VisitUnscopedStep, VisitEndStep, EndModuleStep
  DEF Generate

\* A body without parts is read: of the state, only the phase changes.
LEMMA OnlyThePhase ==
  ASSUME BodyLost
  PROVE  /\ scopes' = scopes /\ current' = current /\ ast' = ast /\ open' = open
         /\ units' = units /\ pos' = pos /\ cg' = cg /\ phase = "parse" /\ phase' = "lost"
BY DEF BodyLost, parserVars

LEMMA BodyLostStep ==
  ASSUME IInv, BodyLost
  PROVE  IInv'
<1>1. /\ scopes' = scopes /\ current' = current /\ ast' = ast /\ open' = open
      /\ units' = units /\ pos' = pos /\ cg' = cg /\ phase = "parse" /\ phase' = "lost"
  BY OnlyThePhase
<1>2. /\ \A k : After(k)' = After(k)
      /\ \A k : Inside(k)' = Inside(k)
      /\ \A k : Makes(k)' <=> Makes(k)
      /\ Scopes' = Scopes /\ Events' = Events
      /\ Pure' <=> Pure
  BY <1>1 DEF After, Inside, Makes, Scopes, Events, Pure
<1>3. TypeOK' BY <1>1, <1>2 DEF IInv, TypeOK
<1>4. ParserPath' BY <1>1, <1>2 DEF IInv, Text, ParserPath
<1>5. OpenNests' BY <1>1, <1>2 DEF IInv, Text, OpenNests
<1>6. LeavesMatch' BY <1>1, <1>2 DEF IInv, Text, LeavesMatch
<1>7. Progress' BY <1>1 DEF IInv, Text, Progress
<1>8. HiddenScopes' BY <1>1, <1>2 DEF IInv, Text, HiddenScopes
<1>9. MadeScopes' BY <1>1, <1>2 DEF IInv, Tree, MadeScopes
<1>10. TreeShape' BY <1>1, <1>2 DEF IInv, Tree, TreeShape
<1>11. TextOrder' BY <1>1, <1>2 DEF IInv, Tree, TextOrder
<1>12. ImportsFirst' BY <1>1 DEF ImportsFirst
<1>13. ExternalIsGenerated' BY <1>1, <1>2 DEF IInv, Walk, ExternalIsGenerated
<1>14. Cursors' BY <1>1, <1>2 DEF IInv, Walk, Cursors
<1>15. Sync' BY <1>1, <1>2 DEF IInv, Walk, Sync
<1> QED
  BY <1>3, <1>4, <1>5, <1>6, <1>7, <1>8, <1>9, <1>10, <1>11, <1>12, <1>13, <1>14, <1>15
  DEF IInv, Text, Tree, Walk

\* Every step of the parser.  Some of its actions take a name; there may be none.
LEMMA ParseSteps ==
  ASSUME IInv, Parse
  PROVE  IInv'
<1>1. CASE \E m \in ModuleName : ParseProgram(m) \/ ParseImport(m)
  BY <1>1, ProgramStep, ImportStep
<1>2. CASE ImportBuiltins BY <1>2, ImportBuiltinsStep
<1>3. CASE \E n \in VarName :
             \/ EnterClass(n) \/ EnterFunction(n) \/ EnterMethod(n)
             \/ ParseEnum(n) \/ ParseVar(n) \/ ParseField(n) \/ ParseUse(n)
  <2>1. PICK n \in VarName :
             \/ EnterClass(n) \/ EnterFunction(n) \/ EnterMethod(n)
             \/ ParseEnum(n) \/ ParseVar(n) \/ ParseField(n) \/ ParseUse(n)
    BY <1>3
  <2>2. CASE EnterClass(n) \/ EnterFunction(n) \/ EnterMethod(n) BY <2>2, EnterSteps
  <2>3. CASE ParseEnum(n) BY <2>3, EnumStep
  <2>4. CASE ParseVar(n) \/ ParseField(n) \/ ParseUse(n)
    <3>1. PICK kind \in {"value", "bare"} : TRUE OBVIOUS
    <3>2. PICK form \in {"closed", "unclosed"} : TRUE OBVIOUS
    <3> QED BY <2>4, <3>1, <3>2, ReadSteps
  <2> QED BY <2>1, <2>2, <2>3, <2>4
<1>4. CASE EnterConstructor \/ EnterIf \/ EnterFor
  <2>1. PICK n : TRUE OBVIOUS
  <2> QED BY <1>4, <2>1, EnterSteps
<1>5. CASE \E kind \in Unscoped : EnterUnscoped(kind) BY <1>5, EnterUnscopedStep
<1>6. CASE \/ \E kind \in {"value", "bare"} : ParseReturn(kind)
           \/ \E form \in {"closed", "unclosed"} : ParseElse(form)
  <2>1. PICK n : TRUE OBVIOUS
  <2>2. CASE \E kind \in {"value", "bare"} : ParseReturn(kind)
    <3>1. PICK form \in {"closed", "unclosed"} : TRUE OBVIOUS
    <3> QED BY <2>1, <2>2, <3>1, ReadSteps
  <2>3. CASE \E form \in {"closed", "unclosed"} : ParseElse(form)
    <3>1. PICK kind \in {"value", "bare"} : TRUE OBVIOUS
    <3> QED BY <2>1, <2>3, <3>1, ReadSteps
  <2> QED BY <1>6, <2>2, <2>3
<1>7. CASE LeaveNamed \/ LeaveAnonymous \/ LeaveUnscoped \/ EndProgram \/ EndProgramLost
  BY <1>7, LeaveSteps
<1>8. CASE BodyLost BY <1>8, BodyLostStep
<1> QED BY <1>1, <1>2, <1>3, <1>4, <1>5, <1>6, <1>7, <1>8 DEF Parse

-----------------------------------------------------------------------------
(***************************************************************************)
(* The theorems.                                                           *)
(***************************************************************************)

\* One scope and no event.
LEMMA InitIInv ==
  ASSUME Init
  PROVE  IInv
<1>1. PICK g : g = NewScope("global", "Global", None) OBVIOUS
<1>2. /\ g \in ScopeType /\ g.parent = None /\ Len(g.children) = 0 /\ g.external = FALSE
      /\ g.cursor = 0
  <2>1. "global" \in Kind /\ "Global" \in Name /\ None \in Nat
    BY DEF Kind, Name, FixedName, None
  <2> DEFINE Ok(t) == /\ t \in ScopeType /\ t.parent = None /\ Len(t.children) = 0
                      /\ t.external = FALSE /\ t.cursor = 0
  <2>2. Ok(NewScope("global", "Global", None))
    BY <2>1 DEF NewScope, ScopeType, NoSymbols, NoDecl
  <2> HIDE DEF Ok
  <2>3. Ok(g) BY <1>1, <2>2
  <2> QED BY <2>3 DEF Ok
<1>3. scopes = <<g>> /\ Len(scopes) = 1 /\ scopes[1] = g /\ scopes \in Seq(ScopeType)
  BY <1>1, <1>2 DEF Init
<1>4. /\ current = Global /\ ast = << >> /\ open = << >> /\ phase = "idle" /\ units = 0
      /\ pos = 0 /\ cg = Global /\ Len(ast) = 0 /\ Len(open) = 0
  BY DEF Init
<1>5. Scopes = {1} /\ Events = {} BY <1>3, <1>4 DEF Scopes, Events
<1>6. TypeOK
  <2>1. IsTree(scopes)
    BY <1>2, <1>3 DEF IsTree, None
  <2>2. ast \in Seq(EventType) /\ open \in Seq(Events) BY <1>4
  <2>3. units \in 0 .. MaxUnit /\ pos \in 0 .. Len(ast) BY <1>4, WalkAssumption
  <2> QED BY <1>4, <1>5, <2>1, <2>2, <2>3 DEF TypeOK, Global
<1>7. After(0) = Global BY DEF After
<1>8. Text
  <2>1. ParserPath BY <1>4, <1>5, <1>7 DEF ParserPath
  <2>2. OpenNests BY <1>4 DEF OpenNests
  <2>3. LeavesMatch BY <1>5 DEF LeavesMatch
  <2>4. Progress BY <1>4 DEF Progress
  <2>5. HiddenScopes BY <1>4, <1>5 DEF HiddenScopes
  <2> QED BY <2>1, <2>2, <2>3, <2>4, <2>5 DEF Text
<1>9. Tree
  <2>1. MadeScopes BY <1>5 DEF MadeScopes
  <2>2. TextOrder BY <1>5 DEF TextOrder
  <2>3. TreeShape BY <1>2, <1>3, <1>5 DEF TreeShape
  <2> QED BY <2>1, <2>2, <2>3 DEF Tree
<1>10. Walk
  <2>1. ImportsFirst BY <1>4 DEF ImportsFirst
  <2>2. ExternalIsGenerated BY <1>5 DEF ExternalIsGenerated
  <2>3. Cursors BY <1>2, <1>3, <1>5 DEF Cursors
  <2>4. Sync BY <1>4, <1>7 DEF Sync
  <2> QED BY <2>1, <2>2, <2>3, <2>4 DEF Walk
<1> QED BY <1>6, <1>8, <1>9, <1>10 DEF IInv

\* Nothing happens.
LEMMA StutterIInv ==
  ASSUME IInv, UNCHANGED vars
  PROVE  IInv'
<1>1. /\ scopes' = scopes /\ current' = current /\ ast' = ast /\ open' = open
      /\ phase' = phase /\ units' = units /\ pos' = pos /\ cg' = cg
  BY DEF vars
<1>2. /\ \A k : After(k)' = After(k)
      /\ \A k : Inside(k)' = Inside(k)
      /\ \A k : Makes(k)' <=> Makes(k)
      /\ Scopes' = Scopes /\ Events' = Events
      /\ Pure' <=> Pure
  BY <1>1 DEF After, Inside, Makes, Scopes, Events, Pure
<1>3. TypeOK' BY <1>1, <1>2 DEF IInv, TypeOK
<1>4. ParserPath' BY <1>1, <1>2 DEF IInv, Text, ParserPath
<1>5. OpenNests' BY <1>1, <1>2 DEF IInv, Text, OpenNests
<1>6. LeavesMatch' BY <1>1, <1>2 DEF IInv, Text, LeavesMatch
<1>7. Progress' BY <1>1 DEF IInv, Text, Progress
<1>8. HiddenScopes' BY <1>1, <1>2 DEF IInv, Text, HiddenScopes
<1>9. MadeScopes' BY <1>1, <1>2 DEF IInv, Tree, MadeScopes
<1>10. TreeShape' BY <1>1, <1>2 DEF IInv, Tree, TreeShape
<1>11. TextOrder' BY <1>1, <1>2 DEF IInv, Tree, TextOrder
<1>12. ImportsFirst' BY <1>1, <1>2 DEF IInv, Walk, ImportsFirst
<1>13. ExternalIsGenerated' BY <1>1, <1>2 DEF IInv, Walk, ExternalIsGenerated
<1>14. Cursors' BY <1>1, <1>2 DEF IInv, Walk, Cursors
<1>15. Sync' BY <1>1, <1>2 DEF IInv, Walk, Sync
<1> QED
  BY <1>3, <1>4, <1>5, <1>6, <1>7, <1>8, <1>9, <1>10, <1>11, <1>12, <1>13, <1>14, <1>15
  DEF IInv, Text, Tree, Walk

\* The inductive invariant, for programs of any length, with any names and over any
\* number of files.
THEOREM Invariant == Spec => []IInv
<1>1. Init => IInv BY InitIInv
<1>2. IInv /\ [Next]_vars => IInv'
  <2> SUFFICES ASSUME IInv, [Next]_vars PROVE IInv' OBVIOUS
  <2>1. CASE Parse BY <2>1, ParseSteps
  <2>2. CASE Generate BY <2>2, GenerateSteps
  <2>3. CASE UNCHANGED vars BY <2>3, StutterIInv
  <2> QED BY <2>1, <2>2, <2>3 DEF Next
<1> QED BY <1>1, <1>2, PTL DEF Spec

\* No pointer of the tree, and neither current scope, ever leads out of the tree.
THEOREM TypeCorrect == Spec => []TypeOK
<1>1. IInv => TypeOK BY DEF IInv
<1> QED BY <1>1, Invariant, PTL

\* The generator is always in the scope in which the parser read what it visits, as
\* long as it has passed no enum and no scope inside a while or a switch.
THEOREM StaysInSync == Spec => []InSync
<1>1. IInv => InSync
  <2> SUFFICES ASSUME IInv, phase = "codegen", Pure PROVE cg = Next1.at BY DEF InSync
  <2> QED BY Upcoming
<1> QED BY <1>1, Invariant, PTL

\* Only the scopes of modules that have been generated are ever marked external, so
\* that nextScope never steps over a scope whose code is still to be generated.
THEOREM ExternalAfterGeneration == Spec => []ExternalIsGenerated
<1>1. IInv => ExternalIsGenerated BY DEF IInv, Walk
<1> QED BY <1>1, Invariant, PTL

-----------------------------------------------------------------------------
(***************************************************************************)
(* The parser and the code generator, with the tree of scopes and its      *)
(* cursors, implement the walk of a text: every step of ScopeWalk is one   *)
(* of TextWalk, or changes nothing there.                                  *)
(***************************************************************************)

\* The elements, one by one.
LEMMA ElementsAre ==
  ASSUME TypeOK
  PROVE  /\ Len(Elements) = Len(ast) /\ Len(ast) \in Nat
         /\ \A j \in 1 .. Len(ast) :
              /\ Elements[j] = AsElement(j)
              /\ Elements[j].at = ast[j].at /\ Elements[j].hidden = ast[j].hidden
              /\ Elements[j].ends = IF ast[j].op = "leave" THEN ast[j].block ELSE 0
              /\ Elements[j].final = (ast[j].op = "leave" /\ ast[j].kind = "module")
<1>1. Len(ast) \in Nat BY Types
<1>2. \A j \in 1 .. Len(ast) : Elements[j] = AsElement(j) BY DEF Elements
<1>3. Len(Elements) = Len(ast) BY <1>1 DEF Elements
<1>4. \A j :
        /\ AsElement(j).at = ast[j].at /\ AsElement(j).hidden = ast[j].hidden
        /\ AsElement(j).ends = IF ast[j].op = "leave" THEN ast[j].block ELSE 0
        /\ AsElement(j).final = (ast[j].op = "leave" /\ ast[j].kind = "module")
  BY Zenon DEF AsElement
<1> QED BY <1>1, <1>2, <1>3, <1>4, Zenon

\* A whole file has been read when its last line has.
LEMMA WholeIs ==
  ASSUME TypeOK, TW!Whole
  PROVE  /\ Len(ast) \in 1 .. Len(ast)
         /\ ast[Len(ast)].op = "leave" /\ ast[Len(ast)].kind = "module"
<1>1. Len(Elements) = Len(ast) /\ Len(ast) \in Nat BY ElementsAre
<1>2. Elements # << >> /\ Elements[Len(Elements)].final BY DEF TW!Whole
<1>3. Len(ast) # 0
  <2> SUFFICES ASSUME Len(ast) = 0 PROVE FALSE OBVIOUS
  <2>1. Elements = << >> BY <1>1 DEF Elements
  <2> QED BY <2>1, <1>2
<1>4. Len(ast) \in 1 .. Len(ast) BY <1>1, <1>3
<1>5. Elements[Len(ast)].final = (ast[Len(ast)].op = "leave" /\ ast[Len(ast)].kind = "module")
  BY <1>4, ElementsAre, Zenon
<1>6. Elements[Len(ast)].final BY <1>1, <1>2, Zenon
<1> QED BY <1>4, <1>5, <1>6, Zenon

\* While the generator works, a whole file is there.
LEMMA WholeInCodegen ==
  ASSUME IInv, phase = "codegen"
  PROVE  TW!Whole
<1>1. TypeOK /\ Len(ast) \in Nat /\ pos \in Nat /\ pos < Len(ast) BY Upcoming DEF IInv
<1>2. ast[Len(ast)].op = "leave" /\ ast[Len(ast)].kind = "module"
  BY DEF IInv, Text, Progress
<1>3. Len(ast) \in 1 .. Len(ast) BY <1>1
<1>4. Len(Elements) = Len(ast) BY <1>1, ElementsAre
<1>5. Elements[Len(ast)].final = (ast[Len(ast)].op = "leave" /\ ast[Len(ast)].kind = "module")
  BY <1>1, <1>3, ElementsAre, Zenon
<1>6. Elements[Len(Elements)].final BY <1>2, <1>4, <1>5, Zenon
<1>7. Elements # << >> BY <1>3, <1>4
<1> QED BY <1>6, <1>7, Zenon DEF TW!Whole

\* Not being lost is having passed no hidden scope.
LEMMA LostIs ==
  ASSUME TypeOK, NEW k \in 0 .. Len(ast)
  PROVE  TW!Lost(k) <=> \E j \in 1 .. k : ast[j].hidden
<1>1. Len(ast) \in Nat BY Types
<1>2. \A j \in 1 .. k : j \in 1 .. Len(ast) BY <1>1
<1>3. \A j \in 1 .. k : Elements[j].hidden <=> ast[j].hidden
  BY <1>2, ElementsAre, Zenon
<1> QED BY <1>3, Zenon DEF TW!Lost

-----------------------------------------------------------------------------
(***************************************************************************)
(* The parser.                                                             *)
(***************************************************************************)

\* The file being parsed has its module line ahead of the generator.
Behind == open # << >> => pos < Len(ast)

\* Every action of the parser reads one event where the parser is, but for the import
\* of the builtins, which reads none.
LEMMA ParserReads ==
  ASSUME Parse
  PROVE  /\ phase \in {"idle", "imports", "parse"}
         /\ pos' = pos /\ cg' = cg
         /\ \/ ast' = ast /\ open' = open
            \/ \E e : ast' = Append(ast, e) /\ e.at = current
<1> DEFINE Ok == /\ phase \in {"idle", "imports", "parse"}
                 /\ pos' = pos /\ cg' = cg
                 /\ \E e : ast' = Append(ast, e) /\ e.at = current
<1>1. \A op, kind, name : Event(op, kind, name).at = current BY DEF Event
<1>2. \A op, kind, name : Creating(op, kind, name).at = current BY DEF Event, Creating
<1>3. ASSUME NEW m, ParseProgram(m) PROVE Ok
  <2>1. PICK s, o : ast' = Append(ast, [Event("enter", "module", m) EXCEPT !.scope = s, !.ord = o])
    BY <1>3, Zenon DEF ParseProgram
  <2>2. PICK e : e = [Event("enter", "module", m) EXCEPT !.scope = s, !.ord = o] OBVIOUS
  <2>3. e.at = current BY <2>2 DEF Event
  <2> QED BY <1>3, <2>1, <2>2, <2>3, Zenon DEF ParseProgram
<1>4. ASSUME NEW m, ParseImport(m) PROVE Ok BY <1>4, <1>1, Zenon DEF ParseImport
<1>5. ASSUME NEW kind, NEW sk, NEW n, Enter(kind, sk, n) PROVE Ok
  BY <1>5, <1>2, Zenon DEF Enter
<1>6. ASSUME NEW op, NEW kind, NEW n, Read(op, kind, n) PROVE Ok
  BY <1>6, <1>1, Zenon DEF Read
<1>7. ASSUME NEW n, ParseEnum(n) PROVE Ok BY <1>7, <1>2, Zenon DEF ParseEnum
<1>8. ASSUME NEW kind, EnterUnscoped(kind) PROVE Ok
  BY <1>8, <1>1, Zenon DEF EnterUnscoped
<1>9. ASSUME NEW kinds, phase = "parse", Leave(kinds) PROVE Ok
  BY <1>9, <1>1, Zenon DEF Leave
<1> HIDE DEF Ok
<1>10. CASE ImportBuiltins BY <1>10 DEF ImportBuiltins, parserVars
<1>12. CASE BodyLost BY <1>12, OnlyThePhase
<1>11. CASE ~ImportBuiltins /\ ~BodyLost
  <2>1. Ok
    BY <1>3, <1>4, <1>5, <1>6, <1>7, <1>8, <1>9, <1>11, ZenonT(40)
    DEF Parse, EnterClass, EnterFunction, EnterMethod, EnterConstructor, EnterIf, EnterFor,
        ParseVar, ParseField, ParseUse, ParseReturn, ParseElse, LeaveNamed, LeaveAnonymous,
        LeaveUnscoped, EndProgram, EndProgramLost
  <2> QED BY <2>1 DEF Ok
<1> QED BY <1>10, <1>11, <1>12

\* A step of the parser reads one element, or is not seen.
LEMMA ParseImplements ==
  ASSUME IInv, IInv', Behind, Parse
  PROVE  /\ Behind'
         /\ TW!ReadOne \/ UNCHANGED TW!walkVars
<1>1. /\ phase \in {"idle", "imports", "parse"} /\ pos' = pos /\ cg' = cg
      /\ \/ ast' = ast /\ open' = open
         \/ \E e : ast' = Append(ast, e) /\ e.at = current
  BY ParserReads
<1>2. /\ TypeOK /\ Text /\ ast \in Seq(EventType) /\ Len(ast) \in Nat /\ pos \in 0 .. Len(ast)
      /\ TypeOK' /\ ast' \in Seq(EventType)
  BY Types DEF IInv, TypeOK
<1>3. CASE ast' = ast /\ open' = open
  <2>1. Elements' = Elements BY <1>3 DEF Elements, AsElement
  <2>2. UNCHANGED TW!walkVars BY <1>1, <2>1 DEF TW!walkVars
  <2>3. Behind' BY <1>1, <1>3 DEF Behind
  <2> QED BY <2>2, <2>3
<1>4. CASE \E e : ast' = Append(ast, e) /\ e.at = current
  <2>1. PICK e : ast' = Append(ast, e) /\ e.at = current BY <1>4
  <2>2. /\ Len(ast') = Len(ast) + 1 /\ ast'[Len(ast) + 1] = e
        /\ \A j \in 1 .. Len(ast) : ast'[j] = ast[j]
    BY <1>2, <2>1
  <2>3. e \in EventType
    <3>1. Len(ast) + 1 \in 1 .. Len(ast') BY <1>2, <2>2
    <3> QED BY <1>2, <2>2, <3>1
  <2>4. Behind' BY <1>1, <1>2, <2>2 DEF Behind
  <2>5. \A j \in 1 .. Len(ast) + 1 : Elements'[j] = AsElement(j)'
    BY <1>2, <2>2 DEF Elements
  <2>6. Len(Elements) = Len(ast) /\ Len(Elements') = Len(Elements) + 1
    BY <1>2, <2>2, ElementsAre DEF Elements
  <2>7. \A j \in 1 .. Len(Elements) : Elements'[j] = Elements[j]
    <3> TAKE j \in 1 .. Len(Elements)
    <3>1. j \in 1 .. Len(ast) /\ j \in 1 .. Len(ast) + 1 BY <1>2, <2>6
    <3>2. ast'[j] = ast[j] BY <2>2, <3>1
    <3>3. AsElement(j)' = AsElement(j) BY <3>2 DEF AsElement
    <3>4. Elements[j] = AsElement(j) BY <1>2, <3>1, ElementsAre
    <3> QED BY <2>5, <3>1, <3>3, <3>4
  <2>8. /\ Elements'[Len(Elements) + 1] \in TW!Element
        /\ Elements'[Len(Elements) + 1].at = current
    <3>1. PICK n : n = Len(ast) + 1 OBVIOUS
    <3>2. PICK g : g = AsElement(n)' OBVIOUS
    <3>3. Elements'[Len(Elements) + 1] = g
      <4>1. n \in 1 .. Len(ast) + 1 /\ Len(Elements) + 1 = n BY <1>2, <2>6, <3>1
      <4> QED BY <2>5, <3>2, <4>1, Zenon
    <3>4. g = [at |-> e.at, hidden |-> e.hidden,
               ends |-> IF e.op = "leave" THEN e.block ELSE 0,
               final |-> e.op = "leave" /\ e.kind = "module"]
      BY <2>2, <3>1, <3>2, Zenon DEF AsElement
    <3>5. e.at \in Nat /\ e.block \in Nat /\ e.hidden \in BOOLEAN BY <2>3, EventFields
    <3>6. (IF e.op = "leave" THEN e.block ELSE 0) \in Nat BY <3>5
    <3>7. (e.op = "leave" /\ e.kind = "module") \in BOOLEAN BY Zenon
    <3>8. g \in TW!Element BY <3>4, <3>5, <3>6, <3>7, Zenon DEF TW!Element
    <3>9. g.at = current BY <2>1, <3>4
    <3> QED BY <3>3, <3>8, <3>9
  <2>9. pos = Len(Elements) \/ ~TW!Whole
    <3> SUFFICES ASSUME TW!Whole, pos # Len(ast) PROVE FALSE BY <2>6
    <3>1. Len(ast) \in 1 .. Len(ast) /\ ast[Len(ast)].op = "leave" /\ ast[Len(ast)].kind = "module"
      BY <1>2, WholeIs
    <3>2. Len(ast) \in pos + 1 .. Len(ast) BY <1>2
    <3> QED BY <1>1, <1>2, <3>1, <3>2 DEF Text, Progress
  <2>10. pos = Len(Elements) => current = Global
    <3>1. pos = Len(ast) => open = << >> BY <1>2 DEF Behind
    <3> QED BY <1>2, <2>6, <3>1 DEF Text, OpenNests
  <2>11. TW!ReadOne BY <1>1, <2>6, <2>7, <2>8, <2>9, <2>10, Zenon DEF TW!ReadOne
  <2> QED BY <2>4, <2>11
<1> QED BY <1>1, <1>3, <1>4

-----------------------------------------------------------------------------
(***************************************************************************)
(* The generator.                                                          *)
(***************************************************************************)

\* What all its steps leave alone.
LEMMA GeneratorReadsNothing ==
  ASSUME Generate
  PROVE  phase = "codegen" /\ ast' = ast /\ open' = open
  BY ZenonT(40)
  DEF Generate, VisitModule, VisitScoped, VisitUnscoped, VisitEnd, EndModule, VisitVar, VisitUse,
      VisitReturn, VisitNothing, VisitLost, VisitEndLost, VisitUseLost, VisitReturnLost,
      NextIs, Pass, Fail, parserVars

\* What a step that passes events has to show: it goes from event to event, or to the
\* end of what the first of them begins, and only the last ends the file.
LEMMA PassImplements ==
  ASSUME IInv, IInv', phase = "codegen", ast' = ast, NEW n \in pos + 1 .. Len(ast), pos' = n,
         n = pos + 1 \/ (ast[n].op = "leave" /\ ast[n].block = pos + 1),
         phase' = "codegen" \/ (phase' = "idle" /\ cg' = Global)
  PROVE  \E k \in pos + 1 .. Len(Elements) : TW!PassTo(k)
<1>1. /\ TypeOK /\ Len(ast) \in Nat /\ pos \in Nat /\ TW!Whole
      /\ Len(Elements) = Len(ast)
  BY Types, WholeInCodegen, ElementsAre DEF IInv
<1>2. Elements' = Elements BY DEF Elements, AsElement
<1>3. n \in 1 .. Len(ast) /\ n \in 0 .. Len(ast) /\ n \in Nat BY <1>1
<1>4. n = pos + 1 \/ Elements[n].ends = pos + 1
  <2>1. Elements[n].ends = IF ast[n].op = "leave" THEN ast[n].block ELSE 0
    BY <1>1, <1>3, ElementsAre
  <2> QED BY <2>1
<1>5. cg' \in Nat
  <2>1. cg' \in Scopes' BY DEF IInv, TypeOK
  <2> QED BY <2>1 DEF Scopes
<1>6. n = Len(Elements) => cg' = Global
  <2>1. phase' = "codegen" => pos' < Len(ast') BY DEF IInv, Text, Progress
  <2> QED BY <1>1, <2>1
<1>7. ASSUME n < Len(Elements), ~TW!Lost(n) PROVE cg' = Elements[n + 1].at
  <2>1. \A j \in 1 .. n : ~ast[j].hidden BY <1>1, <1>3, <1>7, LostIs
  <2>2. Pure' BY <2>1 DEF Pure
  <2>3. cg' = After(pos)' BY <2>2 DEF IInv, Walk, Sync
  <2>4. n + 1 \in Events' /\ n + 1 \in 1 .. Len(ast) BY <1>1, <1>3, <1>7 DEF Events
  <2>5. \A k \in Events' : ast'[k].at = After(k - 1)' BY DEF IInv, Text, ParserPath
  <2>6. ast[n + 1].at = After(n + 1 - 1)' BY <2>4, <2>5
  <2>7. n + 1 - 1 = pos' BY <1>3
  <2>8. After(n + 1 - 1)' = After(pos)' BY <2>7 DEF After, Inside
  <2>9. Elements[n + 1].at = ast[n + 1].at BY <1>1, <2>4, ElementsAre
  <2> QED BY <2>3, <2>6, <2>8, <2>9
<1>8. TW!PassTo(n)
  BY <1>1, <1>2, <1>4, <1>5, <1>6, <1>7, Zenon DEF TW!PassTo
<1>9. n \in pos + 1 .. Len(Elements) BY <1>1
<1> QED BY <1>8, <1>9

\* A step of the generator passes elements, goes astray once lost, or is not seen.
LEMMA GenerateImplements ==
  ASSUME IInv, IInv', Generate
  PROVE  \/ \E k \in pos + 1 .. Len(Elements) : TW!PassTo(k)
         \/ TW!Stray
         \/ UNCHANGED TW!walkVars
<1>1. phase = "codegen" /\ ast' = ast /\ Elements' = Elements
  BY GeneratorReadsNothing DEF Elements, AsElement
<1>2. /\ TypeOK /\ pos + 1 \in Events /\ pos \in Nat /\ Len(ast) \in Nat
      /\ Next1 = ast[pos + 1] /\ pos < Len(ast) /\ open = << >>
      /\ Len(Elements) = Len(ast)
  BY <1>1, Upcoming, ElementsAre DEF IInv
<1>3. PICK p \in pos + 1 .. Len(ast) : p = pos + 1 BY <1>2
<1>4. ASSUME pos' = pos + 1, phase' = "codegen" \/ (phase' = "idle" /\ cg' = Global)
      PROVE  \E k \in pos + 1 .. Len(Elements) : TW!PassTo(k)
  BY <1>1, <1>3, <1>4, PassImplements
<1>5. CASE VisitModule
  <2>1. /\ NextIs("enter", {"module"}) /\ phase' = phase
    BY <1>5 DEF VisitModule, Pass
  <2>2. PICK there \in BOOLEAN :
          /\ there <=> \/ scopes[NextScope(scopes, cg)].kind = "module"
                       \/ scopes[NextScope(scopes, cg)].name = Next1.name
          /\ pos' = pos + IF there THEN 1 ELSE 0
    BY <1>5 DEF VisitModule, Pass
  <2>3. CASE there BY <1>1, <1>4, <2>1, <2>2, <2>3
  <2>4. CASE ~there
    <3>1. pos' = pos BY <1>2, <2>2, <2>4
    <3>2. ~Pure
      <4> SUFFICES ASSUME Pure PROVE FALSE OBVIOUS
      <4>1. Next1.op = "enter" /\ Next1.kind = "module" BY <2>1 DEF NextIs
      <4>2. Makes(pos + 1) BY <1>2, <4>1 DEF IInv, Text, HiddenScopes, Scoped
      <4>3. NextScope(scopes, cg) = Next1.scope BY <1>1, <4>2, NextScopeFinds
      <4>4. scopes[Next1.scope].kind = "module"
        BY <1>2, <4>1, <4>2, MadeFields DEF IInv, Tree
      <4> QED BY <2>2, <2>4, <4>3, <4>4
    <3>3. TW!Lost(pos)
      <4>1. pos \in 0 .. Len(ast) BY <1>2
      <4> QED BY <1>2, <3>2, <4>1, LostIs DEF Pure
    <3>4. cg' \in Nat
      <4>1. cg' \in Scopes' BY DEF IInv, TypeOK
      <4> QED BY <4>1 DEF Scopes
    <3>5. TW!Whole BY <1>1, WholeInCodegen
    <3>6. pos < Len(Elements) BY <1>2
    <3> QED BY <1>1, <3>1, <3>3, <3>4, <3>5, <3>6, Zenon DEF TW!Stray
  <2> QED BY <2>3, <2>4
<1>6. CASE VisitScoped \/ VisitEnd \/ VisitVar \/ VisitUse \/ VisitReturn \/ VisitNothing
  <2>1. pos' = pos + 1 /\ phase' = phase
    BY <1>6 DEF VisitScoped, VisitEnd, VisitVar, VisitUse, VisitReturn, VisitNothing, Pass
  <2> QED BY <1>1, <1>4, <2>1
<1>7. CASE EndModule
  <2>1. pos' = pos + 1 /\ phase' = "idle" /\ cg' = Global BY <1>7 DEF EndModule
  <2> QED BY <1>4, <2>1
<1>8. CASE VisitUnscoped
  <2>1. PICK n : n = CHOOSE j \in pos + 1 .. Len(ast) :
                       ast[j].op = "leave" /\ ast[j].block = pos + 1
    OBVIOUS
  <2>2. /\ Next1.op = "enter" /\ phase' = phase /\ pos' = pos + (n - pos)
    BY <1>8, <2>1 DEF VisitUnscoped, NextIs, Pass
  <2>3. \E l \in pos + 1 .. Len(ast) : ast[l].op = "leave" /\ ast[l].block = pos + 1
    <3>1. \/ \E i \in 1 .. Len(open) : open[i] = pos + 1
          \/ \E l \in pos + 1 + 1 .. Len(ast) : ast[l].op = "leave" /\ ast[l].block = pos + 1
      BY <1>2, <2>2 DEF IInv, Text, LeavesMatch
    <3>2. Len(open) = 0 BY <1>2
    <3>3. PICK l \in pos + 1 + 1 .. Len(ast) : ast[l].op = "leave" /\ ast[l].block = pos + 1
      BY <3>1, <3>2
    <3>4. l \in pos + 1 .. Len(ast) BY <1>2
    <3> QED BY <3>3, <3>4
  <2>4. n \in pos + 1 .. Len(ast) /\ ast[n].op = "leave" /\ ast[n].block = pos + 1
    BY <2>1, <2>3
  <2>5. pos' = n BY <1>2, <2>2, <2>4
  <2> QED BY <1>1, <2>2, <2>4, <2>5, PassImplements
<1>9. CASE VisitLost \/ VisitEndLost \/ VisitUseLost \/ VisitReturnLost
  <2>1. Fail BY <1>9 DEF VisitLost, VisitEndLost, VisitUseLost, VisitReturnLost
  <2>2. pos' = pos /\ cg' = cg BY <2>1 DEF Fail
  <2> QED BY <1>1, <2>2 DEF TW!walkVars
<1> QED BY <1>5, <1>6, <1>7, <1>8, <1>9 DEF Generate

-----------------------------------------------------------------------------
(***************************************************************************)
(* The theorems.                                                           *)
(***************************************************************************)

\* Parser and generator walk the text of every program in step: the parser reads one
\* element after the other, and the generator, with the cursors alone, passes them
\* where they were read, file by file (Scope::nextScope, Scope::prevScope).
THEOREM Refinement == Spec => WalksTheText
<1>1. Init => TW!WalkInit /\ Behind
  <2> SUFFICES ASSUME Init PROVE TW!WalkInit /\ Behind OBVIOUS
  <2>1. ast = << >> /\ open = << >> /\ pos = 0 /\ cg = Global BY DEF Init
  <2>2. Elements = << >>
    <3>1. Len(ast) = 0 BY <2>1
    <3> QED BY <3>1 DEF Elements
  <2> QED BY <2>1, <2>2 DEF TW!WalkInit, Behind
<1>2. IInv /\ IInv' /\ Behind /\ [Next]_vars => Behind' /\ [TW!WalkNext]_(TW!walkVars)
  <2> SUFFICES ASSUME IInv, IInv', Behind, [Next]_vars
               PROVE  Behind' /\ [TW!WalkNext]_(TW!walkVars)
    OBVIOUS
  <2>1. CASE Parse BY <2>1, ParseImplements DEF TW!WalkNext
  <2>2. CASE Generate
    <3>1. phase = "codegen" /\ open' = open BY <2>2, GeneratorReadsNothing
    <3>2. open = << >> BY <3>1, Upcoming
    <3>3. Behind' BY <3>1, <3>2 DEF Behind
    <3> QED BY <2>2, <3>3, GenerateImplements DEF TW!WalkNext
  <2>3. CASE UNCHANGED vars
    <3>1. ast' = ast /\ pos' = pos /\ cg' = cg /\ open' = open BY <2>3 DEF vars
    <3>2. Elements' = Elements BY <3>1 DEF Elements, AsElement
    <3> QED BY <3>1, <3>2 DEF Behind, TW!walkVars
  <2> QED BY <2>1, <2>2, <2>3 DEF Next
<1> QED BY <1>1, <1>2, Invariant, PTL DEF Spec, WalksTheText, TW!WalkSpec
-----------------------------------------------------------------------------
(***************************************************************************)
(* What is read later leaves the nesting of what was read before alone.    *)
(***************************************************************************)

\* The constructs that the parser is in.
Opened == {open[i] : i \in 1 .. Len(open)}

\* One more event of the text, as every handler of the parser reads it.
TextGrows ==
  /\ OneMore /\ New'.block = Innermost /\ New'.at = current /\ pos' = pos
  /\ \/ open' = open /\ New'.op \notin {"enter", "leave"}
     \/ open' = Append(open, Len(ast) + 1) /\ New'.op = "enter"
     \/ open # << >> /\ open' = SubSeq(open, 1, Len(open) - 1) /\ New'.op = "leave"
  /\ New'.op \in {"var", "return"} => Innermost # 0
  /\ New'.op = "use" => VisibleAt(Len(ast), Opened, New'.name) # {}

\* What encloses an event, and what a name means there, is a matter of what is
\* before it.
LEMMA BeforeKept ==
  ASSUME TypeOK, OneMore
  PROVE  /\ \A l \in Events : \A b : Ends(l, b)' <=> Ends(l, b)
         /\ \A u \in 1 .. Len(ast) + 1 : Around(u)' = Around(u)
         /\ \A k \in 0 .. Len(ast) : \A X, m : VisibleAt(k, X, m)' = VisibleAt(k, X, m)
<1>1. Len(ast) \in Nat BY Types
<1>2. \A j \in Events : ast'[j] = ast[j] BY DEF OneMore
<1>3. \A l \in Events : \A b : Ends(l, b)' <=> Ends(l, b) BY <1>2 DEF Ends
<1>4. ASSUME NEW u \in 1 .. Len(ast) + 1 PROVE Around(u)' = Around(u)
  <2>1. \A j \in 1 .. u - 1 : ast'[j] = ast[j] BY <1>1, <1>2 DEF Events
  <2>2. \A b \in 1 .. u - 1 : \A j \in b .. u - 1 : ast'[j] = ast[j] BY <1>1, <2>1
  <2> QED BY <2>1, <2>2 DEF Around
<1>5. ASSUME NEW k \in 0 .. Len(ast), NEW X, NEW m
      PROVE  VisibleAt(k, X, m)' = VisibleAt(k, X, m)
  <2>1. \A j \in 1 .. k : ast'[j] = ast[j] BY <1>1, <1>2 DEF Events
  <2>2. \A j \in 1 .. k : \A i \in j .. k : ast'[i] = ast[i] BY <1>1, <2>1
  <2> QED BY <2>1, <2>2 DEF VisibleAt
<1> QED BY <1>3, <1>4, <1>5

\* What encloses the next event is what is open.
LEMMA AroundNext ==
  ASSUME TypeOK, Text, LeftOnce
  PROVE  /\ Around(Len(ast) + 1) = Opened
         /\ \A i \in 1 .. Len(open) : open[i] <= open[Len(open)]
<1>1. Len(ast) \in Nat /\ Len(open) \in Nat /\ \A i \in 1 .. Len(open) : open[i] \in Events
  BY Types
<1>2. ASSUME NEW i \in 1 .. Len(open) PROVE open[i] \in Around(Len(ast) + 1)
  <2>1. open[i] \in 1 .. Len(ast) BY <1>1 DEF Events
  <2>2. ast[open[i]].op = "enter" BY DEF Text, OpenNests
  <2>3. \A l \in open[i] .. Len(ast) : ~Ends(l, open[i])
    BY <1>1, <2>1 DEF LeftOnce, Events
  <2>4. Len(ast) + 1 - 1 = Len(ast) BY <1>1
  <2> QED BY <2>1, <2>2, <2>3, <2>4 DEF Around, Ends
<1>3. ASSUME NEW b \in Around(Len(ast) + 1) PROVE b \in Opened
  <2>1. /\ b \in Events /\ ast[b].op = "enter"
        /\ \A l \in b .. Len(ast) : ~Ends(l, b)
    BY <1>1 DEF Around, Ends, Events
  <2>2. \A l \in b + 1 .. Len(ast) : l \in b .. Len(ast) BY <2>1 DEF Events
  <2>3. \E i \in 1 .. Len(open) : open[i] = b
    BY <2>1, <2>2 DEF Text, LeavesMatch, Ends
  <2> QED BY <2>3 DEF Opened
<1>4. ASSUME NEW i \in 1 .. Len(open) PROVE open[i] <= open[Len(open)]
  <2>1. Len(open) \in 1 .. Len(open) /\ open[i] \in Nat BY <1>1 DEF Events
  <2>2. CASE i = Len(open) BY <2>1, <2>2
  <2>3. CASE i # Len(open)
    <3>1. i < Len(open) BY <1>1, <2>3
    <3>2. open[i] < open[Len(open)] BY <2>1, <3>1 DEF LeftOnce
    <3> QED BY <1>1, <2>1, <3>2 DEF Events
  <2> QED BY <2>2, <2>3
<1> QED BY <1>2, <1>3, <1>4 DEF Opened

\* An event of the parser leaves the constructs nested.
LEMMA NestingGrows ==
  ASSUME TypeOK, TypeOK', Text, Nesting, TextGrows
  PROVE  Nesting'
<1>0. PICK n : n = Len(ast) OBVIOUS
<1>1. /\ n \in Nat /\ Len(ast') = n + 1 /\ New' = ast'[n + 1] /\ n = Len(ast)
      /\ Events = 1 .. n /\ Events' = 1 .. n + 1
      /\ \A j \in Events : j \in Events' /\ ast'[j] = ast[j] /\ j # n + 1 /\ j \in Nat
      /\ \A j \in Events' : j \in Events \/ j = n + 1
  BY <1>0, Reads DEF TextGrows, Events
<1>2. /\ \A l \in Events : \A b : Ends(l, b)' <=> Ends(l, b)
      /\ \A u \in 1 .. n + 1 : Around(u)' = Around(u)
      /\ \A k \in 0 .. n : \A X, m : VisibleAt(k, X, m)' = VisibleAt(k, X, m)
  BY <1>0, BeforeKept DEF TextGrows
<1>3. /\ Around(n + 1) = Opened
      /\ \A i \in 1 .. Len(open) : open[i] <= open[Len(open)]
  BY <1>0, AroundNext DEF Nesting
<1>4. /\ Len(open) \in Nat /\ \A i \in 1 .. Len(open) : open[i] \in Events
      /\ open \in Seq(Events)
  BY Types
<1>5. /\ \A i, j \in 1 .. Len(open) : i < j => open[i] < open[j]
      /\ \A l \in Events, i \in 1 .. Len(open) : ~Ends(l, open[i])
      /\ \A k, l \in Events : Ends(k, ast[l].block) /\ ast[l].op = "leave" => k = l
  BY DEF Nesting, LeftOnce
<1> DEFINE e == ast'[n + 1]
<1>6. n \in Nat /\ e = New' /\ n = Len(ast) /\ Events = 1 .. n BY <1>1
<1>7. \A l \in Events : ast[l].op = "leave" => ast[l].block \in Nat /\ ast[l].block < l /\ l <= n
  BY <1>6 DEF Text, LeavesMatch
<1>8. open # << >> => Innermost = open[Len(open)] /\ Len(open) \in 1 .. Len(open)
  BY <1>4 DEF Innermost
<1>9. \A b : Ends(n + 1, b)' <=> e.op = "leave" /\ Innermost = b
  BY <1>6 DEF TextGrows, Ends
<1>10. LeftOnce'
  <2>1. ASSUME NEW i \in 1 .. Len(open'), NEW j \in 1 .. Len(open'), i < j
        PROVE  open'[i] < open'[j]
    <3>1. CASE open' = open BY <1>5, <2>1, <3>1
    <3>2. CASE open' = Append(open, n + 1)
      <4>1. /\ Len(open') = Len(open) + 1 /\ open'[Len(open) + 1] = n + 1
            /\ \A k \in 1 .. Len(open) : open'[k] = open[k]
        BY <1>4, <3>2
      <4>2. CASE j = Len(open) + 1
        <5>1. i \in 1 .. Len(open) BY <1>4, <2>1, <4>1, <4>2
        <5>2. open[i] \in 1 .. n BY <1>4, <1>6, <5>1
        <5> QED BY <1>6, <4>1, <4>2, <5>1, <5>2
      <4>3. CASE j # Len(open) + 1
        <5>1. i \in 1 .. Len(open) /\ j \in 1 .. Len(open) BY <1>4, <2>1, <4>1, <4>3
        <5> QED BY <1>5, <2>1, <4>1, <5>1
      <4> QED BY <4>2, <4>3
    <3>3. CASE open # << >> /\ open' = SubSeq(open, 1, Len(open) - 1)
      <4>1. /\ Len(open') = Len(open) - 1 /\ \A k \in 1 .. Len(open) - 1 : open'[k] = open[k]
        BY <1>4, <3>3
      <4>2. i \in 1 .. Len(open) /\ j \in 1 .. Len(open) BY <1>4, <4>1
      <4> QED BY <1>4, <1>5, <2>1, <4>1, <4>2
    <3> QED BY <1>6, <3>1, <3>2, <3>3 DEF TextGrows
  <2>2. ASSUME NEW l \in Events', NEW i \in 1 .. Len(open'), Ends(l, open[i])'
        PROVE  FALSE
    <3>1. CASE open' = open /\ New'.op # "leave"
      <4>1. l \in Events BY <1>1, <1>6, <1>9, <2>2, <3>1
      <4> QED BY <1>2, <1>5, <2>2, <3>1, <4>1
    <3>2. CASE open' = Append(open, n + 1) /\ New'.op # "leave"
      <4>1. l \in Events BY <1>1, <1>6, <1>9, <2>2, <3>2
      <4>2. /\ Len(open') = Len(open) + 1 /\ open'[Len(open) + 1] = n + 1
            /\ \A k \in 1 .. Len(open) : open'[k] = open[k]
        BY <1>4, <3>2
      <4>3. i \in 1 .. Len(open) \/ i = Len(open) + 1 BY <1>4, <4>2
      <4>4. Ends(l, open'[i]) BY <1>2, <2>2, <4>1 DEF Ends
      <4>5. open'[i] # n + 1 BY <1>6, <1>7, <4>1, <4>4 DEF Ends
      <4> QED BY <1>5, <4>1, <4>2, <4>3, <4>4, <4>5
    <3>3. CASE open # << >> /\ open' = SubSeq(open, 1, Len(open) - 1)
      <4>1. /\ Len(open') = Len(open) - 1 /\ \A k \in 1 .. Len(open) - 1 : open'[k] = open[k]
        BY <1>4, <3>3
      <4>2. i \in 1 .. Len(open) /\ i < Len(open) /\ open'[i] = open[i] BY <1>4, <4>1
      <4>3. l = n + 1 BY <1>1, <1>2, <1>5, <2>2, <4>2 DEF Ends
      <4>4. open[Len(open)] = open[i] BY <1>8, <1>9, <2>2, <3>3, <4>2, <4>3 DEF Ends
      <4>5. open[i] < open[Len(open)] BY <1>5, <1>8, <3>3, <4>2
      <4>6. open[i] \in Nat BY <1>4, <1>6, <4>2
      <4> QED BY <4>4, <4>5, <4>6
    <3> QED BY <1>6, <3>1, <3>2, <3>3 DEF TextGrows
  <2>3. ASSUME NEW k \in Events', NEW l \in Events', ast'[l].op = "leave",
               ast'[k].op = "leave", ast'[k].block = ast'[l].block
        PROVE  k = l
    <3>1. CASE k \in Events /\ l \in Events BY <1>1, <1>5, <2>3, <3>1 DEF Ends
    <3>2. ASSUME NEW h \in Events, ast'[h].op = "leave", e.op = "leave", ast'[h].block = e.block
          PROVE  FALSE
      <4>1. open # << >> /\ e.block = open[Len(open)] BY <1>6, <1>8, <3>2 DEF TextGrows
      <4>2. Ends(h, open[Len(open)]) BY <1>1, <3>2, <4>1 DEF Ends
      <4> QED BY <1>5, <1>8, <4>1, <4>2
    <3> QED BY <1>1, <2>3, <3>1, <3>2
  <2> QED BY <2>1, <2>2, <2>3 DEF LeftOnce, Ends
<1>11. LeftWithin'
  <2> SUFFICES ASSUME NEW l \in Events', ast'[l].op = "leave",
                      NEW b \in ast'[l].block + 1 .. l - 1, ast'[b].op = "enter"
               PROVE  \E k \in b + 1 .. l - 1 : Ends(k, b)'
    BY DEF LeftWithin
  <2>1. CASE l \in Events
    <3>1. ast[l].op = "leave" /\ ast[l].block = ast'[l].block BY <1>1, <2>1
    <3>2. b \in Events BY <1>1, <1>7, <2>1, <3>1
    <3>3. PICK k \in b + 1 .. l - 1 : Ends(k, b)
      BY <1>1, <2>1, <3>1, <3>2 DEF Nesting, LeftWithin
    <3>4. k \in Events BY <1>6, <2>1, <3>2, <3>3
    <3> QED BY <1>2, <3>3, <3>4
  <2>2. CASE l = n + 1
    <3>1. open # << >> /\ ast'[l].block = open[Len(open)]
      BY <1>6, <1>8, <2>2 DEF TextGrows
    <3>2. open[Len(open)] \in 1 .. n BY <1>4, <1>6, <1>8, <3>1
    <3>3. b \in Events /\ b > open[Len(open)] BY <1>6, <2>2, <3>1, <3>2
    <3>4. ast[b].op = "enter" BY <1>1, <3>3
    <3>5. ~\E i \in 1 .. Len(open) : open[i] = b BY <1>3, <3>2, <3>3
    <3>6. PICK k \in b + 1 .. n : Ends(k, b)
      BY <1>6, <3>3, <3>4, <3>5 DEF Text, LeavesMatch, Ends
    <3>7. k \in Events /\ k \in b + 1 .. l - 1 BY <1>6, <2>2, <3>3, <3>6
    <3> QED BY <1>2, <3>6, <3>7
  <2> QED BY <1>1, <2>1, <2>2
<1>12. BlocksAround'
  <2>1. ASSUME NEW j \in Events
        PROVE  /\ \A b \in Around(j)' : b <= ast'[j].block
               /\ ast'[j].block # 0 => /\ ast'[j].block \in Around(j)'
                                       /\ ast'[j].at = Inside(ast[j].block)'
               /\ ast'[j].op \in {"var", "return"} => ast'[j].block # 0
    <3>1. j \in 1 .. n + 1 /\ Around(j)' = Around(j) /\ ast'[j] = ast[j]
      BY <1>1, <1>2
    <3>2. /\ \A b \in Around(j) : b <= ast[j].block
          /\ ast[j].block # 0 => /\ ast[j].block \in Around(j)
                                 /\ ast[j].at = Inside(ast[j].block)
          /\ ast[j].op \in {"var", "return"} => ast[j].block # 0
      BY DEF Nesting, BlocksAround
    <3>3. ASSUME ast[j].block # 0
          PROVE  Inside(ast[j].block)' = Inside(ast[j].block)
      <4>1. ast[j].block \in Events BY <1>1, <3>2, <3>3 DEF Around
      <4>2. ast'[ast[j].block] = ast[ast[j].block] BY <1>1, <4>1
      <4> QED BY <3>1, <4>2 DEF Inside
    <3> QED BY <3>1, <3>2, <3>3
  <2>2. /\ \A b \in Around(n + 1)' : b <= e.block
        /\ e.block # 0 => e.block \in Around(n + 1)' /\ e.at = Inside(ast[n + 1].block)'
        /\ e.op \in {"var", "return"} => e.block # 0
    <3>1. Around(n + 1)' = Opened /\ e.block = Innermost /\ e.at = current
      BY <1>1, <1>2, <1>3 DEF TextGrows
    <3>2. e.op \in {"var", "return"} => e.block # 0 BY <1>6, <3>1 DEF TextGrows
    <3>3. CASE open = << >>
      <4>1. Innermost = 0 /\ Opened = {} BY <3>3 DEF Innermost, Opened
      <4> QED BY <3>1, <3>2, <4>1
    <3>4. CASE open # << >>
      <4>1. Innermost = open[Len(open)] /\ Innermost \in Opened BY <1>8, <3>4 DEF Opened
      <4>2. \A b \in Opened : b <= Innermost BY <1>3, <4>1 DEF Opened
      <4>3. current = Inside(Innermost) BY <3>4, <4>1 DEF Text, OpenNests
      <4>4. Innermost \in Events BY <1>4, <1>8, <3>4
      <4>5. Inside(ast[n + 1].block)' = Inside(Innermost) BY <1>1, <3>1, <4>4 DEF Inside
      <4> QED BY <3>1, <3>2, <4>1, <4>2, <4>3, <4>5
    <3> QED BY <3>3, <3>4
  <2> QED BY <1>1, <2>1, <2>2 DEF BlocksAround
<1>13. UsesDeclared'
  <2>1. ASSUME NEW u \in Events, ast'[u].op = "use" PROVE LexicalDecls(u)' # {}
    <3>1. u \in 1 .. n + 1 /\ u - 1 \in 0 .. n /\ ast'[u] = ast[u]
      BY <1>1
    <3>2. LexicalDecls(u) # {} BY <2>1, <3>1 DEF Nesting, UsesDeclared
    <3>4. PICK X, m : X = Around(u) /\ m = ast[u].name OBVIOUS
    <3>5. LexicalDecls(u)' = VisibleAt(u - 1, X, m)'
      BY <1>2, <3>1, <3>4 DEF LexicalDecls, VisibleAt
    <3>6. LexicalDecls(u) = VisibleAt(u - 1, X, m) BY <3>4 DEF LexicalDecls
    <3> QED BY <1>2, <3>1, <3>2, <3>5, <3>6
  <2>2. ASSUME e.op = "use" PROVE LexicalDecls(n + 1)' # {}
    <3>1. PICK X, m : X = Opened /\ m = e.name OBVIOUS
    <3>2. LexicalDecls(n + 1)' = VisibleAt(n, X, m)'
      <4>1. PICK u : u = n + 1 OBVIOUS
      <4>2. u - 1 = n /\ Around(u)' = X /\ ast'[u].name = m BY <1>2, <1>3, <1>6, <3>1, <4>1
      <4>3. LexicalDecls(u)' = VisibleAt(n, X, m)' BY <4>2 DEF LexicalDecls, VisibleAt
      <4> QED BY <4>1, <4>3
    <3>3. VisibleAt(n, X, m) # {} BY <1>6, <2>2, <3>1 DEF TextGrows
    <3>4. n \in 0 .. Len(ast) BY <1>6
    <3> QED BY <1>2, <3>2, <3>3, <3>4
  <2> QED BY <1>1, <2>1, <2>2 DEF UsesDeclared
<1>14. PassedWhole'
  <2> SUFFICES ASSUME NEW b \in 1 .. pos, ast'[b].op = "enter", ast'[b].kind \in Unscoped
               PROVE  \E l \in b + 1 .. pos : Ends(l, b)'
    BY DEF TextGrows, PassedWhole
  <2>1. pos \in Nat /\ pos <= n BY <1>6, Types
  <2>2. b \in Events BY <1>6, <2>1
  <2>3. PICK l \in b + 1 .. pos : Ends(l, b) BY <1>1, <2>2 DEF Nesting, PassedWhole
  <2>4. l \in Events BY <1>6, <2>1, <2>2, <2>3
  <2> QED BY <1>2, <2>3, <2>4
<1> QED BY <1>10, <1>11, <1>12, <1>13, <1>14 DEF Nesting

-----------------------------------------------------------------------------
(***************************************************************************)
(* The scopes and the symbol maps, while the parser adds to them.          *)
(***************************************************************************)

\* What an event does to the scopes: the old ones keep name, parent and slots, the new
\* ones are behind their parents, and every symbol is a declaration of its name.
TreeGrows ==
  /\ Len(scopes) <= Len(scopes')
  /\ \A s \in Scopes :
       /\ scopes'[s].name = scopes[s].name /\ scopes'[s].parent = scopes[s].parent
       /\ scopes'[s].alloca = scopes[s].alloca
  /\ \A s \in Len(scopes) + 1 .. Len(scopes') :
       scopes'[s].parent < s /\ scopes'[s].alloca = NoSymbols
  /\ \A s \in 1 .. Len(scopes'), n \in Symbol :
       scopes'[s].decl[n] # NoDecl =>
         \/ \E t \in Scopes : scopes'[s].decl[n] = scopes[t].decl[n]
         \/ LET d == scopes'[s].decl[n]
            IN  d \in 1 .. Len(ast') /\ ast'[d].op \in {"enter", "var", "enum"} /\ ast'[d].name = n
  /\ \A s \in Scopes, n \in Symbol : scopes[s].decl[n] # NoDecl => scopes'[s].decl[n] # NoDecl

\* What an event does to the tables of names: it declares what it says.
NamesGrow ==
  /\ New'.scope # None =>
       New'.scope \in Len(scopes) + 1 .. Len(scopes') /\ scopes'[New'.scope].name = New'.name
  /\ New'.op = "var" => New'.name \in Symbol /\ scopes'[current].decl[New'.name] # NoDecl
  /\ New'.op = "enter" /\ New'.kind \in Callable => New'.name \in Symbol
  /\ New'.op = "leave" /\ ast[Innermost].kind \in Callable =>
       scopes'[ast[Innermost].at].decl[ast[Innermost].name] # NoDecl

\* An event of the parser leaves names as they were, and its own in order.
LEMMA NamingGrows ==
  ASSUME TypeOK, TypeOK', Text, MadeScopes, Nesting, Naming, TextGrows, TreeGrows, NamesGrow
  PROVE  Naming'
<1>0. PICK n : n = Len(ast) OBVIOUS
<1> DEFINE e == ast'[n + 1]
<1>1. /\ n \in Nat /\ Len(ast') = n + 1 /\ New' = e /\ n = Len(ast)
      /\ Events = 1 .. n /\ Events' = 1 .. n + 1
      /\ \A j \in Events : j \in Events' /\ ast'[j] = ast[j] /\ j # n + 1 /\ j \in Nat
      /\ \A j \in Events' : j \in Events \/ j = n + 1
  BY <1>0, Reads DEF TextGrows, Events
<1>2. \A u \in 1 .. n + 1 : Around(u)' = Around(u) BY <1>0, BeforeKept DEF TextGrows
<1>3. /\ Len(scopes) \in Nat /\ Len(scopes') \in Nat /\ Scopes = 1 .. Len(scopes)
      /\ Scopes' = 1 .. Len(scopes') /\ \A s \in Scopes : s \in Scopes'
      /\ \A s \in Scopes' : s \in Scopes \/ s \in Len(scopes) + 1 .. Len(scopes')
      /\ current \in Scopes
  <2>1. Len(scopes) \in Nat /\ current \in Scopes BY Types
  <2>2. IsTree(scopes') BY DEF TypeOK
  <2>3. Len(scopes') \in Nat BY <2>2 DEF IsTree
  <2>4. Len(scopes) <= Len(scopes') BY DEF TreeGrows
  <2> QED BY <2>1, <2>3, <2>4 DEF Scopes
<1>4. \A s \in Scopes :
        /\ scopes'[s].name = scopes[s].name /\ scopes'[s].parent = scopes[s].parent
        /\ scopes'[s].alloca = scopes[s].alloca
        /\ \A m \in Symbol : scopes[s].decl[m] # NoDecl => scopes'[s].decl[m] # NoDecl
  BY <1>3 DEF TreeGrows
<1>5. ParentsBefore'
  <2> SUFFICES ASSUME NEW s \in Scopes' PROVE scopes'[s].parent < s BY DEF ParentsBefore
  <2>1. CASE s \in Scopes BY <1>4, <2>1 DEF Naming, ParentsBefore
  <2>2. CASE s \in Len(scopes) + 1 .. Len(scopes') BY <2>2 DEF TreeGrows
  <2> QED BY <1>3, <2>1, <2>2
<1>6. \A j \in Events : Makes(j) => ast[j].scope \in Scopes BY DEF MadeScopes
<1>7. \A j \in Events : Makes(j)' <=> Makes(j) BY <1>1 DEF Makes
<1>8. Makes(n + 1)' => e.scope \in Len(scopes) + 1 .. Len(scopes') /\ scopes'[e.scope].name = e.name
  <2>1. New'.scope # None => e.scope \in Len(scopes) + 1 .. Len(scopes')
                             /\ scopes'[e.scope].name = e.name
    BY <1>1 DEF NamesGrow
  <2> QED BY <1>1, <2>1 DEF Makes
<1>9. ScopesApart'
  <2>1. ASSUME NEW i \in Events', NEW j \in Events', i < j, Makes(i)', Makes(j)'
        PROVE  ast'[i].scope < ast'[j].scope
    <3>1. i \in Events BY <1>1, <2>1
    <3>2. Makes(i) /\ ast'[i] = ast[i] /\ ast[i].scope \in Scopes BY <1>1, <1>6, <1>7, <2>1, <3>1
    <3>3. CASE j \in Events BY <1>1, <1>7, <2>1, <3>1, <3>2, <3>3 DEF Naming, ScopesApart
    <3>4. CASE j = n + 1
      <4>1. ast'[j].scope \in Len(scopes) + 1 .. Len(scopes') BY <1>8, <2>1, <3>4
      <4> QED BY <1>3, <3>2, <4>1
    <3> QED BY <1>1, <3>3, <3>4
  <2>2. ASSUME NEW j \in Events', Makes(j)' PROVE scopes'[ast'[j].scope].name = ast'[j].name
    <3>1. CASE j \in Events
      <4>1. Makes(j) /\ ast'[j] = ast[j] /\ ast[j].scope \in Scopes BY <1>1, <1>6, <1>7, <2>2, <3>1
      <4> QED BY <1>4, <3>1, <4>1 DEF Naming, ScopesApart
    <3>2. CASE j = n + 1 BY <1>8, <2>2, <3>2
    <3> QED BY <1>1, <3>1, <3>2
  <2> QED BY <2>1, <2>2 DEF ScopesApart
<1>10. DeclsNamed'
  <2> SUFFICES ASSUME NEW s \in Scopes', NEW m \in Symbol, scopes'[s].decl[m] # NoDecl
               PROVE  LET d == scopes'[s].decl[m]
                      IN  d \in Events' /\ ast'[d].op \in {"enter", "var", "enum"}
                          /\ ast'[d].name = m
    BY DEF DeclsNamed
  <2>1. PICK d : d = scopes'[s].decl[m] OBVIOUS
  <2>2. CASE \E t \in Scopes : scopes'[s].decl[m] = scopes[t].decl[m]
    <3>1. PICK t \in Scopes : d = scopes[t].decl[m] BY <2>1, <2>2
    <3>2. d \in Events /\ ast[d].op \in {"enter", "var", "enum"} /\ ast[d].name = m
      BY <2>1, <3>1 DEF Naming, DeclsNamed
    <3> QED BY <1>1, <2>1, <3>2
  <2>3. CASE d \in 1 .. Len(ast') /\ ast'[d].op \in {"enter", "var", "enum"} /\ ast'[d].name = m
    BY <1>1, <2>1, <2>3
  <2>4. \/ \E t \in Scopes : scopes'[s].decl[m] = scopes[t].decl[m]
        \/ d \in 1 .. Len(ast') /\ ast'[d].op \in {"enter", "var", "enum"} /\ ast'[d].name = m
    BY <1>3, <2>1 DEF TreeGrows
  <2> QED BY <2>2, <2>3, <2>4
<1>11. Declared'
  <2>1. ASSUME NEW j \in Events' PROVE ast'[j].at \in Scopes
    <3>1. CASE j \in Events BY <1>1, <3>1 DEF Naming, Declared
    <3>2. CASE j = n + 1 BY <1>1, <1>3, <3>2 DEF TextGrows
    <3> QED BY <1>1, <3>1, <3>2
  <2>2. ASSUME NEW j \in Events', ast'[j].op = "var"
        PROVE  ast'[j].name \in Symbol /\ scopes'[ast'[j].at].decl[ast'[j].name] # NoDecl
    <3>1. CASE j \in Events
      <4>1. ast'[j] = ast[j] /\ ast[j].at \in Scopes BY <1>1, <3>1 DEF Naming, Declared
      <4>2. ast[j].name \in Symbol /\ scopes[ast[j].at].decl[ast[j].name] # NoDecl
        BY <2>2, <3>1, <4>1 DEF Naming, Declared
      <4> QED BY <1>4, <4>1, <4>2
    <3>2. CASE j = n + 1 BY <1>1, <2>2, <3>2 DEF TextGrows, NamesGrow
    <3> QED BY <1>1, <3>1, <3>2
  <2>3. ASSUME NEW l \in Events', NEW b \in Events', ast'[l].op = "leave", ast'[l].block = b,
               ast'[b].kind \in Callable
        PROVE  scopes'[ast'[b].at].decl[ast'[b].name] # NoDecl
    <3>1. CASE l \in Events
      <4>1. ast[l].op = "leave" /\ b = ast[l].block BY <1>1, <2>3, <3>1
      <4>2. b \in 1 .. l - 1 BY <3>1, <4>1 DEF Text, LeavesMatch
      <4>3. b \in Events BY <1>1, <3>1, <4>2
      <4>4. ast[b].name \in Symbol /\ scopes[ast[b].at].decl[ast[b].name] # NoDecl
            /\ ast[b].at \in Scopes /\ ast[b].op = "enter"
        BY <1>1, <2>3, <3>1, <4>1, <4>3 DEF Naming, Declared, Ends, Text, LeavesMatch
      <4> QED BY <1>1, <1>4, <4>3, <4>4
    <3>2. CASE l = n + 1
      <4>1. New'.op = "leave" /\ b = Innermost /\ open # << >>
        BY <1>1, <2>3, <3>2 DEF TextGrows
      <4>2. b \in Events
        <5>1. Len(open) \in Nat /\ \A i \in 1 .. Len(open) : open[i] \in Events
              /\ open \in Seq(Events)
          BY Types
        <5>2. Len(open) \in 1 .. Len(open) BY <4>1, <5>1
        <5> QED BY <4>1, <5>1, <5>2 DEF Innermost
      <4>3. scopes'[ast[b].at].decl[ast[b].name] # NoDecl
        BY <1>1, <2>3, <4>1, <4>2 DEF NamesGrow
      <4> QED BY <1>1, <4>2, <4>3
    <3> QED BY <1>1, <3>1, <3>2
  <2>4. \A j \in Events' : ast'[j].at \in Scopes' BY <1>3, <2>1
  <2>5. ASSUME NEW b \in Events', ast'[b].op = "enter", ast'[b].kind \in Callable
        PROVE  ast'[b].name \in Symbol
    <3>1. CASE b \in Events BY <1>1, <2>5, <3>1 DEF Naming, Declared
    <3>2. CASE b = n + 1 BY <1>1, <2>5, <3>2 DEF NamesGrow
    <3> QED BY <1>1, <3>1, <3>2
  <2> QED BY <2>2, <2>3, <2>4, <2>5 DEF Declared, Ends
<1>12. SlotsLatest'
  <2> SUFFICES ASSUME Pure'
               PROVE  /\ \A s \in Scopes', m \in Symbol : scopes'[s].alloca[m] \in 0 .. pos
                      /\ \A s \in Scopes', m \in Symbol, d \in 1 .. pos :
                           scopes'[s].alloca[m] = d =>
                             Visited(d)' /\ ast'[d].at = s /\ ast'[d].name = m
                      /\ \A j \in 1 .. pos : Visited(j)' =>
                           scopes'[ast'[j].at].alloca[ast'[j].name] >= j
    BY DEF SlotsLatest, TextGrows
  <2>1. pos \in Nat /\ pos <= n /\ pos' = pos BY <1>1, Types DEF TextGrows
  <2>2. \A j \in 1 .. pos : j \in Events BY <1>1, <2>1
  <2>3. Pure BY <1>1, <2>1, <2>2 DEF Pure
  <2>4. ASSUME NEW j \in 1 .. pos PROVE Visited(j)' <=> Visited(j)
    <3>1. j \in 1 .. n + 1 /\ ast'[j] = ast[j] /\ Around(j)' = Around(j) BY <1>1, <1>2, <2>1, <2>2
    <3>2. \A b \in Around(j) : ast'[b] = ast[b]
      <4>1. \A b \in Around(j) : b \in Events BY <1>1, <3>1 DEF Around
      <4> QED BY <1>1, <4>1
    <3> QED BY <3>1, <3>2 DEF Visited, Local
  <2>5. /\ \A s \in Scopes, m \in Symbol : scopes[s].alloca[m] \in 0 .. pos
        /\ \A s \in Scopes, m \in Symbol, d \in 1 .. pos :
             scopes[s].alloca[m] = d => Visited(d) /\ ast[d].at = s /\ ast[d].name = m
        /\ \A j \in 1 .. pos : Visited(j) => scopes[ast[j].at].alloca[ast[j].name] >= j
    BY <2>3 DEF Naming, SlotsLatest
  <2>6. ASSUME NEW s \in Scopes', NEW m \in Symbol
        PROVE  \/ scopes'[s].alloca[m] = 0
               \/ s \in Scopes /\ scopes'[s].alloca[m] = scopes[s].alloca[m]
    <3>1. CASE s \in Scopes BY <1>4, <3>1
    <3>2. CASE s \in Len(scopes) + 1 .. Len(scopes')
      <4>1. scopes'[s].alloca = NoSymbols BY <3>2 DEF TreeGrows
      <4> QED BY <4>1 DEF NoSymbols, NoDecl
    <3> QED BY <1>3, <3>1, <3>2
  <2>7. ASSUME NEW j \in 1 .. pos, Visited(j)'
        PROVE  scopes'[ast'[j].at].alloca[ast'[j].name] >= j
    <3>1. j \in Events /\ ast'[j] = ast[j] BY <1>1, <2>2
    <3>2. ast[j].at \in Scopes BY <3>1 DEF Naming, Declared
    <3> QED BY <1>4, <2>4, <2>5, <2>7, <3>1, <3>2
  <2>8. \A s \in Scopes', m \in Symbol : scopes'[s].alloca[m] \in 0 .. pos
    BY <2>1, <2>5, <2>6
  <2>9. ASSUME NEW s \in Scopes', NEW m \in Symbol, NEW d \in 1 .. pos, scopes'[s].alloca[m] = d
        PROVE  Visited(d)' /\ ast'[d].at = s /\ ast'[d].name = m
    <3>1. s \in Scopes /\ scopes[s].alloca[m] = d BY <2>1, <2>6, <2>9
    <3>2. Visited(d) /\ ast[d].at = s /\ ast[d].name = m BY <2>5, <3>1
    <3> QED BY <1>1, <2>2, <2>4, <3>2
  <2> QED BY <2>7, <2>8, <2>9
<1> QED BY <1>5, <1>9, <1>10, <1>11, <1>12 DEF Naming

-----------------------------------------------------------------------------
(***************************************************************************)
(* Every handler of the parser adds one event in that way.                 *)
(***************************************************************************)

Grows == TextGrows /\ TreeGrows /\ NamesGrow

\* An event without a scope, appended.
LEMMA EventRead ==
  ASSUME TypeOK, NEW op \in Op, NEW kind \in EventKind, NEW name \in EventName,
         ast' = Append(ast, Event(op, kind, name))
  PROVE  /\ OneMore /\ New'.op = op /\ New'.kind = kind /\ New'.name = name
         /\ New'.block = Innermost /\ New'.at = current /\ New'.scope = None
<1>1. PICK e : e = Event(op, kind, name) OBVIOUS
<1>2. e \in EventType BY <1>1, EventTyped
<1>3. /\ e.op = op /\ e.kind = kind /\ e.name = name
      /\ e.block = Innermost /\ e.at = current /\ e.scope = None
  BY <1>1, <1>2 DEF Event
<1>4. ast' = Append(ast, e) BY <1>1
<1>5. OneMore /\ New' = e BY <1>2, <1>4, Appended
<1> QED BY <1>3, <1>5

\* Somewhere is inside of a construct.
LEMMA InsideSome ==
  ASSUME TypeOK, open # << >>
  PROVE  Innermost \in Events /\ Innermost # 0 /\ \E i \in 1 .. Len(open) : Innermost = open[i]
<1>1. Len(open) \in Nat /\ open \in Seq(Events) /\ \A i \in 1 .. Len(open) : open[i] \in Events
  BY Types
<1>2. Len(open) \in 1 .. Len(open) BY <1>1
<1>3. Innermost = open[Len(open)] BY DEF Innermost
<1> QED BY <1>1, <1>2, <1>3 DEF Events

\* The names and symbols of scopes that carry over from a to b.
LEMMA CarriedGrow ==
  ASSUME Carries(scopes, scopes')
  PROVE  TreeGrows
BY DEF Carries, TreeGrows, Scopes

LEMMA SameGrow ==
  ASSUME TypeOK, scopes' = scopes
  PROVE  TreeGrows
<1>1. Len(scopes) \in Nat BY Types
<1>2. \A s \in Len(scopes) + 1 .. Len(scopes') : FALSE BY <1>1
<1>3. Len(scopes) <= Len(scopes') BY <1>1
<1>4. \A s \in 1 .. Len(scopes') : s \in Scopes BY DEF Scopes
<1> QED BY <1>2, <1>3, <1>4 DEF TreeGrows

\* A declaration d of the name n, added to a scope.
LEMMA AddedGrow ==
  ASSUME TypeOK, NEW sc, IsTree(sc), Carries(scopes, sc),
         NEW s \in 1 .. Len(sc), NEW n, NEW d \in 1 .. Len(ast'),
         ast'[d].op \in {"enter", "var", "enum"}, ast'[d].name = n,
         scopes' = AddDecl(sc, s, n, d)
  PROVE  /\ TreeGrows
         /\ \A t \in 1 .. Len(sc) : scopes'[t].name = sc[t].name
         /\ n \in Symbol => scopes'[s].decl[n] # NoDecl
<1>1. d \in Nat OBVIOUS
<1>2. PICK sc2 : sc2 = scopes' OBVIOUS
<1>3. /\ Len(sc2) = Len(sc)
      /\ \A t \in 1 .. Len(sc) :
           /\ sc2[t].name = sc[t].name /\ sc2[t].parent = sc[t].parent
           /\ sc2[t].alloca = sc[t].alloca
           /\ \A m \in Symbol :
                sc2[t].decl[m] = IF t = s /\ m = n THEN d ELSE sc[t].decl[m]
  BY <1>1, <1>2, AddDeclNames
<1>4. Len(scopes) \in Nat /\ Len(sc) \in Nat /\ Len(scopes) <= Len(sc)
  BY Types DEF Carries, IsTree
<1>5. \A t \in 1 .. Len(scopes) : t \in 1 .. Len(sc) BY <1>4
<1>6. d # NoDecl BY DEF NoDecl
<1>7. \A t \in Scopes :
        /\ sc2[t].name = scopes[t].name /\ sc2[t].parent = scopes[t].parent
        /\ sc2[t].alloca = scopes[t].alloca
  BY <1>3, <1>5 DEF Carries, Scopes
<1>8. \A t \in Len(scopes) + 1 .. Len(sc2) : sc2[t].parent < t /\ sc2[t].alloca = NoSymbols
  <2>1. \A t \in Len(scopes) + 1 .. Len(sc) : t \in 1 .. Len(sc) BY <1>4
  <2> QED BY <1>3, <2>1 DEF Carries
<1>9. ASSUME NEW t \in 1 .. Len(sc2), NEW m \in Symbol, sc2[t].decl[m] # NoDecl
      PROVE  \/ \E u \in Scopes : sc2[t].decl[m] = scopes[u].decl[m]
             \/ sc2[t].decl[m] = d /\ m = n
  <2>1. t \in 1 .. Len(sc) BY <1>3
  <2>2. CASE t = s /\ m = n BY <1>3, <2>1, <2>2
  <2>3. CASE ~(t = s /\ m = n)
    <3>1. sc2[t].decl[m] = sc[t].decl[m] BY <1>3, <2>1, <2>3
    <3> QED BY <1>9, <2>1, <3>1 DEF Carries, Scopes
  <2> QED BY <2>2, <2>3
<1>10. ASSUME NEW t \in Scopes, NEW m \in Symbol, scopes[t].decl[m] # NoDecl
       PROVE  sc2[t].decl[m] # NoDecl
  <2>1. t \in 1 .. Len(sc) /\ sc[t].decl[m] # NoDecl BY <1>5, <1>10 DEF Carries, Scopes
  <2> QED BY <1>3, <1>6, <2>1
<1>11. TreeGrows BY <1>2, <1>3, <1>4, <1>7, <1>8, <1>9, <1>10 DEF TreeGrows
<1> QED BY <1>2, <1>3, <1>6, <1>11

LEMMA CarriesSame ==
  ASSUME NEW sc, IsTree(sc)
  PROVE  Carries(sc, sc)
<1>1. Len(sc) \in Nat BY DEF IsTree
<1>2. \A s \in Len(sc) + 1 .. Len(sc) : FALSE BY <1>1
<1> QED BY <1>1, <1>2 DEF Carries

\* Imports, declarations, uses, returns, an else.
LEMMA ReadsGrow ==
  ASSUME TypeOK, NEW n, NEW kind \in {"value", "bare"}, NEW form \in {"closed", "unclosed"},
         \/ n \in VarName /\ (ParseVar(n) \/ ParseField(n) \/ ParseUse(n))
         \/ ParseReturn(kind) \/ ParseElse(form)
  PROVE  Grows
<1>1. {"var", "use", "return", "else"} \subseteq Op BY DEF Op
<1>2. {"local", "field", "plain", "value", "bare", "closed", "unclosed"} \subseteq EventKind
  BY DEF EventKind
<1>3. /\ n \in VarName => n \in EventName /\ n \in Symbol
      /\ "else" \in EventName /\ kind \in EventName
  BY DEF EventName, Name, Symbol
<1>4. IsTree(scopes) /\ current \in 1 .. Len(scopes) /\ Len(ast) \in Nat BY Types DEF Scopes
<1>5. ASSUME NEW op \in {"use", "return", "else"}, NEW k \in EventKind, NEW name \in EventName,
             Read(op, k, name), scopes' = scopes,
             op = "return" => open # << >>,
             op = "use" => VisibleAt(Len(ast), Opened, name) # {}
      PROVE  Grows
  <2>1. ast' = Append(ast, Event(op, k, name)) /\ open' = open /\ pos' = pos BY <1>5 DEF Read
  <2>2. /\ OneMore /\ New'.op = op /\ New'.kind = k /\ New'.name = name
        /\ New'.block = Innermost /\ New'.at = current /\ New'.scope = None
    BY <1>1, <2>1, EventRead
  <2>3. TextGrows BY <1>5, <2>1, <2>2, InsideSome DEF TextGrows
  <2>4. TreeGrows BY <1>5, SameGrow
  <2>5. NamesGrow BY <2>2 DEF NamesGrow
  <2> QED BY <2>3, <2>4, <2>5 DEF Grows
<1>6. ASSUME NEW k \in EventKind, n \in VarName, Read("var", k, n), open # << >>,
             scopes' = AddDecl(scopes, current, n, Len(ast) + 1)
      PROVE  Grows
  <2>1. ast' = Append(ast, Event("var", k, n)) /\ open' = open /\ pos' = pos BY <1>6 DEF Read
  <2>2. /\ OneMore /\ New'.op = "var" /\ New'.kind = k /\ New'.name = n
        /\ New'.block = Innermost /\ New'.at = current /\ New'.scope = None
    BY <1>1, <1>3, <1>6, <2>1, EventRead
  <2>3. TextGrows BY <1>6, <2>1, <2>2, InsideSome DEF TextGrows
  <2>4. New' = ast'[Len(ast) + 1] /\ Len(ast) + 1 \in 1 .. Len(ast') BY <1>4, <2>2, Reads
  <2>5. PICK d : d = Len(ast) + 1 OBVIOUS
  <2>6. /\ d \in 1 .. Len(ast') /\ ast'[d].op \in {"enter", "var", "enum"} /\ ast'[d].name = n
        /\ scopes' = AddDecl(scopes, current, n, d)
    BY <1>6, <2>2, <2>4, <2>5
  <2>7. TreeGrows /\ scopes'[current].decl[n] # NoDecl
    BY <1>3, <1>4, <1>6, <2>6, AddedGrow, CarriesSame
  <2>8. NamesGrow BY <1>3, <1>6, <2>2, <2>7 DEF NamesGrow
  <2> QED BY <2>3, <2>7, <2>8 DEF Grows
<1>7. CASE n \in VarName /\ ParseVar(n) BY <1>2, <1>6, <1>7 DEF ParseVar, In
<1>8. CASE n \in VarName /\ ParseField(n) BY <1>2, <1>6, <1>8 DEF ParseField, In
<1>9. CASE n \in VarName /\ ParseUse(n)
  BY <1>1, <1>2, <1>3, <1>5, <1>9 DEF ParseUse, Opened
<1>10. CASE ParseReturn(kind)
  BY <1>2, <1>3, <1>5, <1>10 DEF ParseReturn, In
<1>11. CASE ParseElse(form)
  BY <1>2, <1>3, <1>5, <1>11 DEF ParseElse
<1> QED BY <1>7, <1>8, <1>9, <1>10, <1>11

\* An import line.
LEMMA ImportGrows ==
  ASSUME IInv, NEW m \in ModuleName, ParseImport(m)
  PROVE  Grows
<1>1. /\ scopes' = CopyModule(scopes, m, scopes[current].name)
      /\ ast' = Append(ast, Event("import", "plain", m))
      /\ open' = open /\ pos' = pos
  BY DEF ParseImport
<1>2. "import" \in Op /\ "plain" \in EventKind /\ m \in EventName
  BY DEF Op, EventKind, EventName, Name
<1>3. /\ OneMore /\ New'.op = "import" /\ New'.kind = "plain" /\ New'.name = m
      /\ New'.block = Innermost /\ New'.at = current /\ New'.scope = None
  BY <1>1, <1>2, EventRead DEF IInv
<1>4. TextGrows BY <1>1, <1>3 DEF TextGrows
<1>5. Carries(scopes, scopes')
  <2>1. PICK sc2 : sc2 = scopes' OBVIOUS
  <2> QED BY <1>1, <2>1, Root, CopyModuleCarries
<1>6. NamesGrow BY <1>3 DEF NamesGrow
<1> QED BY <1>4, <1>5, <1>6, CarriedGrow DEF Grows

\* A construct with a scope.
LEMMA EnterGrows ==
  ASSUME TypeOK, NEW kind \in Scoped \ {"module"},
         NEW scopeKind \in {"class", "method", "loop"}, NEW name \in Name,
         kind \in Callable => name \in Symbol, Enter(kind, scopeKind, name)
  PROVE  Grows
<1>1. IsTree(scopes) /\ current \in 1 .. Len(scopes) /\ Len(scopes) \in Nat
  BY Types DEF Scopes
<1>2. /\ pos' = pos /\ scopes' = CreateChild(scopes, current, scopeKind, name)
      /\ open' = Append(open, Len(ast) + 1)
      /\ ast' = Append(ast, Creating("enter", kind, name))
  BY DEF Enter, EnterScope
<1>3. PICK e : e = Creating("enter", kind, name) OBVIOUS
<1>4. /\ e \in EventType /\ e.op = "enter" /\ e.kind = kind /\ e.name = name
      /\ e.at = current /\ e.block = Innermost /\ e.scope = Len(scopes) + 1
  <2>1. "enter" \in Op /\ kind \in EventKind /\ name \in EventName
    BY DEF Op, EventKind, EventName
  <2> QED BY <1>3, <2>1, CreatingIs
<1>5. OneMore /\ New' = e
  <2>1. ast' = Append(ast, e) BY <1>2, <1>3
  <2> QED BY <1>4, <2>1, Appended
<1>6. TextGrows BY <1>2, <1>4, <1>5 DEF TextGrows
<1>7. scopeKind \in Kind BY DEF Kind
<1>8. PICK sc2 : sc2 = scopes' OBVIOUS
<1>9. Carries(scopes, sc2) BY <1>1, <1>2, <1>7, <1>8, CreateChildCarries
<1>10. sc2[Len(scopes) + 1].name = name /\ Len(scopes) + 1 <= Len(sc2) /\ Len(sc2) \in Nat
  <2>1. /\ IsTree(sc2) /\ sc2[Len(scopes) + 1].name = name
        /\ Made(scopes, sc2, current, Len(scopes) + 1, Len(scopes[current].children) + 1)
    BY <1>1, <1>2, <1>7, <1>8, CreateChildMakes
  <2>2. Len(sc2) \in Nat BY <2>1 DEF IsTree
  <2>3. Len(scopes) + 1 <= Len(sc2) BY <1>1, <2>1, <2>2 DEF Made
  <2> QED BY <2>1, <2>2, <2>3
<1>11. Len(scopes) + 1 \in Len(scopes) + 1 .. Len(sc2) BY <1>1, <1>10
<1>12. NamesGrow BY <1>4, <1>5, <1>8, <1>10, <1>11 DEF NamesGrow
<1> QED BY <1>6, <1>8, <1>9, <1>12, CarriedGrow DEF Grows

\* A class has a name that mangled names can be made of.
LEMMA ClassNamed ==
  ASSUME IInv, In({"class"})
  PROVE  scopes[current].name \in VarName
<1>1. TypeOK /\ Text /\ MadeScopes BY DEF IInv, Tree
<1>2. open # << >> /\ ast[Innermost].kind = "class" BY DEF In
<1>3. Innermost \in Events /\ Innermost = open[Len(open)] BY <1>1, <1>2, InsideSome DEF Innermost
<1>4. ast[Innermost].op = "enter" /\ current = Inside(Innermost)
  BY <1>1, <1>2, <1>3, InsideSome DEF Text, OpenNests
<1>5. Makes(Innermost) /\ current = ast[Innermost].scope
  BY <1>1, <1>2, <1>3, <1>4 DEF Text, HiddenScopes, Inside, Scoped
<1> QED BY <1>1, <1>2, <1>3, <1>5, MadeFields

\* The constructs that open a scope.
LEMMA EntersGrow ==
  ASSUME IInv, NEW n,
         \/ n \in VarName /\ (EnterClass(n) \/ EnterFunction(n) \/ EnterMethod(n))
         \/ EnterConstructor \/ EnterIf \/ EnterFor
  PROVE  Grows
<1>1. TypeOK BY DEF IInv
<1>2. /\ VarName \subseteq Name /\ MethodName \subseteq Name
      /\ "Create" \in Name /\ "if_else" \in Name /\ "for_loop" \in Name
      /\ VarName \subseteq Symbol /\ MethodName \subseteq Symbol
  BY DEF Name, Symbol, FixedName
<1>3. {"class", "func", "method", "constructor", "if", "for"} \subseteq Scoped \ {"module"}
      /\ \A k \in {"class", "constructor", "if", "for"} : k \notin Callable
  BY DEF Scoped, Callable
<1>4. CASE n \in VarName /\ EnterClass(n) BY <1>1, <1>2, <1>3, <1>4, EnterGrows DEF EnterClass
<1>5. CASE n \in VarName /\ EnterFunction(n)
  BY <1>1, <1>2, <1>3, <1>5, EnterGrows DEF EnterFunction
<1>6. CASE n \in VarName /\ EnterMethod(n)
  <2>1. In({"class"}) /\ Enter("method", "method", Mangled[<<scopes[current].name, n>>])
    BY <1>6 DEF EnterMethod
  <2>2. Mangled[<<scopes[current].name, n>>] \in MethodName
    BY <1>6, <2>1, ClassNamed, WalkAssumption
  <2> QED BY <1>1, <1>2, <1>3, <2>1, <2>2, EnterGrows
<1>7. CASE EnterConstructor BY <1>1, <1>2, <1>3, <1>7, EnterGrows DEF EnterConstructor
<1>8. CASE EnterIf BY <1>1, <1>2, <1>3, <1>8, EnterGrows DEF EnterIf
<1>9. CASE EnterFor BY <1>1, <1>2, <1>3, <1>9, EnterGrows DEF EnterFor
<1> QED BY <1>4, <1>5, <1>6, <1>7, <1>8, <1>9

\* A while or a switch.
LEMMA EnterUnscopedGrows ==
  ASSUME TypeOK, NEW kind \in Unscoped, EnterUnscoped(kind)
  PROVE  Grows
<1>1. /\ ast' = Append(ast, Event("enter", kind, kind)) /\ open' = Append(open, Len(ast) + 1)
      /\ scopes' = scopes /\ pos' = pos
  BY DEF EnterUnscoped
<1>2. "enter" \in Op /\ kind \in EventKind /\ kind \in EventName
  BY DEF Op, EventKind, EventName
<1>3. /\ OneMore /\ New'.op = "enter" /\ New'.kind = kind /\ New'.name = kind
      /\ New'.block = Innermost /\ New'.at = current /\ New'.scope = None
  BY <1>1, <1>2, EventRead
<1>4. TextGrows BY <1>1, <1>3 DEF TextGrows
<1>5. TreeGrows BY <1>1, SameGrow
<1>6. kind \notin Callable BY DEF Unscoped, Callable
<1>7. NamesGrow BY <1>3, <1>6 DEF NamesGrow
<1> QED BY <1>4, <1>5, <1>7 DEF Grows

\* An enum: its scope, and its name in the scope around.
LEMMA EnumGrows ==
  ASSUME TypeOK, NEW n \in VarName, ParseEnum(n)
  PROVE  Grows
<1>1. /\ IsTree(scopes) /\ current \in 1 .. Len(scopes) /\ Len(scopes) \in Nat
      /\ Len(ast) \in Nat
  BY Types DEF Scopes
<1>2. n \in Name /\ n \in Symbol BY DEF Name, Symbol
<1>3. PICK sc : sc = CreateChild(scopes, current, "enum", n) OBVIOUS
<1>4. /\ pos' = pos /\ open' = open /\ scopes' = AddDecl(sc, current, n, Len(ast) + 1)
      /\ ast' = Append(ast, Creating("enum", "plain", n))
  BY <1>3 DEF ParseEnum
<1>5. PICK e : e = Creating("enum", "plain", n) OBVIOUS
<1>6. /\ e \in EventType /\ e.op = "enum" /\ e.kind = "plain" /\ e.name = n
      /\ e.at = current /\ e.block = Innermost /\ e.scope = Len(scopes) + 1
  <2>1. "enum" \in Op /\ "plain" \in EventKind /\ n \in EventName
    BY <1>2 DEF Op, EventKind, EventName
  <2> QED BY <1>5, <2>1, CreatingIs
<1>7. OneMore /\ New' = e
  <2>1. ast' = Append(ast, e) BY <1>4, <1>5
  <2> QED BY <1>6, <2>1, Appended
<1>8. TextGrows BY <1>4, <1>6, <1>7 DEF TextGrows
<1>9. "enum" \in Kind BY DEF Kind
<1>10. Carries(scopes, sc) BY <1>1, <1>2, <1>3, <1>9, CreateChildCarries
<1>11. /\ IsTree(sc) /\ sc[Len(scopes) + 1].name = n
       /\ Made(scopes, sc, current, Len(scopes) + 1, Len(scopes[current].children) + 1)
  BY <1>1, <1>2, <1>3, <1>9, CreateChildMakes
<1>12. Len(sc) \in Nat /\ Len(scopes) + 1 <= Len(sc)
  <2>1. Len(sc) \in Nat BY <1>11 DEF IsTree
  <2> QED BY <1>1, <1>11, <2>1 DEF Made
<1>13. current \in 1 .. Len(sc) /\ Len(scopes) + 1 \in 1 .. Len(sc) BY <1>1, <1>12
<1>14. PICK d : d = Len(ast) + 1 OBVIOUS
<1>15. /\ d \in 1 .. Len(ast') /\ ast'[d].op \in {"enter", "var", "enum"} /\ ast'[d].name = n
       /\ scopes' = AddDecl(sc, current, n, d)
  <2>1. New' = ast'[Len(ast) + 1] /\ Len(ast) + 1 \in 1 .. Len(ast') BY <1>1, <1>7, Reads
  <2> QED BY <1>4, <1>6, <1>7, <1>14, <2>1
<1>16. TreeGrows /\ \A t \in 1 .. Len(sc) : scopes'[t].name = sc[t].name
  BY <1>10, <1>11, <1>13, <1>15, AddedGrow
<1>17. Len(scopes') = Len(sc)
  <2>1. d \in Nat BY <1>15
  <2>2. PICK sc2 : sc2 = scopes' OBVIOUS
  <2> QED BY <1>11, <1>13, <1>15, <2>1, <2>2, AddDeclNames
<1>18. /\ New'.scope \in Len(scopes) + 1 .. Len(scopes')
       /\ scopes'[New'.scope].name = New'.name
  BY <1>1, <1>6, <1>7, <1>11, <1>12, <1>13, <1>16, <1>17
<1>19. NamesGrow BY <1>6, <1>7, <1>18 DEF NamesGrow
<1> QED BY <1>8, <1>16, <1>19 DEF Grows

\* The end of a construct, whose name the scope around it takes in when it has one.
LEMMA LeavesGrow ==
  ASSUME IInv, Naming, LeaveNamed \/ LeaveAnonymous \/ LeaveUnscoped \/ EndProgram \/ EndProgramLost
  PROVE  Grows
<1>1. TypeOK /\ Text BY DEF IInv
<1>2. PICK kinds :
        /\ phase = "parse" /\ Leave(kinds)
        /\ \/ kinds = {"class"} \cup Callable
              /\ scopes' = AddDecl(scopes, ExitScope(current), ast[Innermost].name, Innermost)
           \/ kinds \cap Callable = {} /\ scopes' = scopes
  <2>1. CASE LeaveNamed BY <2>1 DEF LeaveNamed
  <2>2. CASE LeaveAnonymous BY <2>2 DEF LeaveAnonymous, Callable
  <2>3. CASE LeaveUnscoped BY <2>3 DEF LeaveUnscoped, Callable, Unscoped
  <2>4. CASE EndProgram BY <2>4 DEF EndProgram, Callable
  <2>5. CASE EndProgramLost BY <2>5 DEF EndProgramLost, Callable
  <2> QED BY <2>1, <2>2, <2>3, <2>4, <2>5
<1>3. /\ open # << >> /\ Innermost \in Events /\ ast[Innermost].kind \in kinds
      /\ ast[Innermost].at \in Scopes
      /\ kinds \subseteq Scoped => ExitScope(current) = ast[Innermost].at
  BY <1>2, Leaving
<1>4. ast[Innermost].op = "enter" BY <1>1, <1>3, InsideSome DEF Text, OpenNests
<1>5. ast[Innermost] \in EventType BY <1>1, <1>3, Types
<1>6. PICK kind, name : kind = ast[Innermost].kind /\ name = ast[Innermost].name OBVIOUS
<1>7. "leave" \in Op /\ kind \in EventKind /\ name \in EventName
  BY <1>5, <1>6 DEF EventType, Op, EventKind, EventName
<1>8. /\ ast' = Append(ast, Event("leave", kind, name))
      /\ open' = SubSeq(open, 1, Len(open) - 1) /\ pos' = pos
  BY <1>2, <1>6 DEF Leave
<1>9. /\ OneMore /\ New'.op = "leave" /\ New'.kind = kind /\ New'.name = name
      /\ New'.block = Innermost /\ New'.at = current /\ New'.scope = None
  BY <1>1, <1>7, <1>8, EventRead
<1>10. TextGrows BY <1>3, <1>8, <1>9 DEF TextGrows
<1>11. CASE kinds \cap Callable = {} /\ scopes' = scopes
  <2>1. TreeGrows BY <1>1, <1>11, SameGrow
  <2>2. NamesGrow BY <1>3, <1>9, <1>11 DEF NamesGrow
  <2> QED BY <1>10, <2>1, <2>2 DEF Grows
<1>12. CASE /\ kinds = {"class"} \cup Callable
            /\ scopes' = AddDecl(scopes, ExitScope(current), ast[Innermost].name, Innermost)
  <2>1. ExitScope(current) = ast[Innermost].at BY <1>3, <1>12 DEF Callable, Scoped
  <2>2. PICK d, s : d = Innermost /\ s = ast[Innermost].at OBVIOUS
  <2>3. /\ IsTree(scopes) /\ Carries(scopes, scopes) /\ s \in 1 .. Len(scopes)
    BY <1>1, <1>3, <2>2, Types, CarriesSame DEF Scopes
  <2>4. /\ d \in 1 .. Len(ast') /\ ast'[d].op \in {"enter", "var", "enum"} /\ ast'[d].name = name
    <3>1. d \in Events' /\ ast'[d] = ast[d] BY <1>1, <1>3, <1>9, <2>2, Reads
    <3> QED BY <1>4, <1>6, <2>2, <3>1 DEF Events
  <2>5. scopes' = AddDecl(scopes, s, name, d) BY <1>6, <1>12, <2>1, <2>2
  <2>6. TreeGrows /\ (name \in Symbol => scopes'[s].decl[name] # NoDecl)
    BY <1>1, <2>3, <2>4, <2>5, AddedGrow
  <2>7. ast[Innermost].kind \in Callable => name \in Symbol
    BY <1>3, <1>4, <1>6 DEF Naming, Declared
  <2>8. NamesGrow BY <1>6, <1>9, <2>2, <2>6, <2>7 DEF NamesGrow
  <2> QED BY <1>10, <2>6, <2>8 DEF Grows
<1> QED BY <1>2, <1>11, <1>12

\* A file: the builtins and the module's scope.
LEMMA ProgramGrows ==
  ASSUME IInv, NEW m \in ModuleName, ParseProgram(m)
  PROVE  Grows
<1>1. /\ TypeOK /\ IsTree(scopes) /\ current \in 1 .. Len(scopes) /\ Len(scopes) \in Nat
  BY Types DEF IInv, Scopes
<1>2. PICK wb : wb = InitBuiltins(scopes, current) OBVIOUS
<1>3. /\ scopes' = CreateChild(wb, current, "module", m)
      /\ open' = Append(open, Len(ast) + 1) /\ pos' = pos
      /\ ast' = Append(ast, [Event("enter", "module", m) EXCEPT
                               !.scope = Len(wb) + 1,
                               !.ord = Len(wb[current].children) + 1])
  BY <1>2 DEF ParseProgram, EnterScope
<1>4. /\ IsTree(wb) /\ current \in 1 .. Len(wb)
      /\ Len(wb) \in Nat /\ Len(wb[current].children) \in Nat /\ Len(scopes) <= Len(wb)
  <2>1. IsTree(wb) /\ Len(wb) = Len(scopes) + 8 BY <1>1, <1>2, InitBuiltinsTree
  <2>2. current \in 1 .. Len(wb) /\ Len(wb) \in Nat /\ Len(scopes) <= Len(wb) BY <1>1, <2>1
  <2> QED BY <2>1, <2>2, ScopeFields
<1>5. "module" \in Kind /\ m \in Name BY DEF Kind, Name
<1>6. PICK sc2 : sc2 = scopes' OBVIOUS
<1>7. Carries(scopes, wb) BY <1>1, <1>2, InitBuiltinsCarries
<1>8. Carries(wb, sc2) BY <1>3, <1>4, <1>5, <1>6, CreateChildCarries
<1>9. /\ IsTree(sc2) /\ sc2[Len(wb) + 1].name = m
      /\ Made(wb, sc2, current, Len(wb) + 1, Len(wb[current].children) + 1)
  BY <1>3, <1>4, <1>5, <1>6, CreateChildMakes
<1>10. Len(sc2) \in Nat /\ Len(wb) + 1 <= Len(sc2)
  <2>1. Len(sc2) \in Nat BY <1>9 DEF IsTree
  <2> QED BY <1>4, <1>9, <2>1 DEF Made
<1>11. Carries(scopes, sc2) BY <1>1, <1>4, <1>7, <1>8, <1>10, CarriesTwice
<1>12. PICK d : d = Event("enter", "module", m) OBVIOUS
<1>13. /\ d \in EventType /\ d.op = "enter" /\ d.kind = "module" /\ d.at = current
       /\ d.name = m /\ d.block = Innermost
  <2>1. "enter" \in Op /\ "module" \in EventKind /\ m \in EventName
    BY DEF Op, EventKind, EventName, Scoped, Name
  <2>2. d \in EventType BY <1>1, <1>12, <2>1, EventTyped
  <2> QED BY <1>12, <2>2 DEF Event
<1>14. PICK c \in Nat, o \in Nat : c = Len(wb) + 1 /\ o = Len(wb[current].children) + 1
  BY <1>4
<1>15. PICK e : e = [d EXCEPT !.scope = c, !.ord = o] OBVIOUS
<1>16. /\ e \in EventType /\ e.op = "enter" /\ e.kind = "module" /\ e.at = current
       /\ e.name = m /\ e.block = Innermost /\ e.scope = c
  <2>1. /\ e \in EventType /\ e.op = d.op /\ e.kind = d.kind /\ e.at = d.at
        /\ e.name = d.name /\ e.block = d.block /\ e.scope = c
    BY ONLY <1>13, <1>14, <1>15, c \in Nat, o \in Nat DEF EventType
  <2> QED BY <1>13, <2>1
<1>17. OneMore /\ New' = e
  <2>1. ast' = Append(ast, e) BY <1>3, <1>12, <1>14, <1>15
  <2> QED BY <1>1, <1>16, <2>1, Appended
<1>18. TextGrows BY <1>3, <1>16, <1>17 DEF TextGrows
<1>19. TreeGrows BY <1>6, <1>11, CarriedGrow
<1>20. NamesGrow
  <2>1. c \in Len(scopes) + 1 .. Len(sc2) BY <1>1, <1>4, <1>10, <1>14
  <2> QED BY <1>6, <1>9, <1>14, <1>16, <1>17, <2>1 DEF NamesGrow, Callable
<1> QED BY <1>18, <1>19, <1>20 DEF Grows

-----------------------------------------------------------------------------
(***************************************************************************)
(* What every step of the parser, and of the generator, keeps.             *)
(***************************************************************************)

\* An event of the parser keeps what the properties of names rest on.
LEMMA EventsGrow ==
  ASSUME NInv, TypeOK', Grows
  PROVE  Nesting' /\ Naming'
<1>1. TypeOK /\ Text /\ MadeScopes /\ Nesting /\ Naming BY DEF NInv, IInv, Tree
<1>2. TextGrows /\ TreeGrows /\ NamesGrow BY DEF Grows
<1> QED BY <1>1, <1>2, NestingGrows, NamingGrows

\* When no event is added, the text means what it meant.
LEMMA TextSame ==
  ASSUME ast' = ast
  PROVE  /\ Events' = Events
         /\ \A l, b : Ends(l, b)' <=> Ends(l, b)
         /\ \A u : Around(u)' = Around(u)
         /\ \A u : Inside(u)' = Inside(u) /\ (Makes(u)' <=> Makes(u))
         /\ \A u : LexicalDecls(u)' = LexicalDecls(u)
         /\ \A u : Visited(u)' <=> Visited(u)
<1>1. Events' = Events BY DEF Events
<1>2. \A l, b : Ends(l, b)' <=> Ends(l, b) BY DEF Ends
<1>3. \A u : Around(u)' = Around(u) BY DEF Around
<1>4. \A u : Inside(u)' = Inside(u) /\ (Makes(u)' <=> Makes(u)) BY DEF Inside, Makes
<1>5. \A u : LexicalDecls(u)' = LexicalDecls(u) BY DEF LexicalDecls, VisibleAt, Around
<1>6. \A u : Visited(u)' <=> Visited(u) BY <1>3 DEF Visited, Local
<1> QED BY <1>1, <1>2, <1>3, <1>4, <1>5, <1>6

LEMMA NestingStays ==
  ASSUME TypeOK, Nesting, ast' = ast, open' = open, pos' \in pos .. Len(ast),
         \A b \in pos + 1 .. pos' : ast[b].op = "enter" /\ ast[b].kind \in Unscoped =>
           \E l \in b + 1 .. pos' : Ends(l, b)
  PROVE  Nesting'
<1>1. /\ Events' = Events
      /\ \A l, b : Ends(l, b)' <=> Ends(l, b)
      /\ \A u : Around(u)' = Around(u)
      /\ \A u : Inside(u)' = Inside(u)
      /\ \A u : LexicalDecls(u)' = LexicalDecls(u)
  BY TextSame
<1>2. LeftOnce /\ LeftWithin /\ BlocksAround /\ UsesDeclared /\ PassedWhole BY DEF Nesting
<1>3. LeftOnce' BY <1>1, <1>2 DEF LeftOnce, Ends
<1>4. LeftWithin' BY <1>1, <1>2 DEF LeftWithin, Ends
<1>5. BlocksAround'
  <2>1. \A j \in Events : Inside(ast[j].block)' = Inside(ast[j].block) BY DEF Inside
  <2> QED BY <1>1, <1>2, <2>1 DEF BlocksAround
<1>6. UsesDeclared' BY <1>1, <1>2 DEF UsesDeclared
<1>7. PassedWhole'
  <2> SUFFICES ASSUME NEW b \in 1 .. pos', ast[b].op = "enter", ast[b].kind \in Unscoped
               PROVE  \E l \in b + 1 .. pos' : Ends(l, b)
    BY <1>1 DEF PassedWhole
  <2>1. pos \in Nat /\ pos' \in Nat /\ pos <= pos' BY Types
  <2>2. CASE b \in 1 .. pos
    <3>1. PICK l \in b + 1 .. pos : Ends(l, b) BY <1>2, <2>2 DEF PassedWhole
    <3>2. l \in b + 1 .. pos' BY <2>1, <3>1
    <3> QED BY <3>1, <3>2
  <2>3. CASE b \notin 1 .. pos
    <3>1. b \in pos + 1 .. pos' BY <2>1, <2>3
    <3> QED BY <3>1
  <2> QED BY <2>2, <2>3
<1> QED BY <1>3, <1>4, <1>5, <1>6, <1>7 DEF Nesting

\* No scope is made and no declaration lost or made up.
NamesStay ==
  /\ Len(scopes') = Len(scopes)
  /\ \A s \in Scopes : scopes'[s].name = scopes[s].name /\ scopes'[s].parent = scopes[s].parent
  /\ \A s \in Scopes, n \in Symbol :
       /\ scopes'[s].decl[n] # NoDecl => \E t \in Scopes : scopes'[s].decl[n] = scopes[t].decl[n]
       /\ scopes[s].decl[n] # NoDecl => scopes'[s].decl[n] # NoDecl

LEMMA NamingStays ==
  ASSUME TypeOK, Text, MadeScopes, Naming, ast' = ast, NamesStay, SlotsLatest'
  PROVE  Naming'
<1>1. Events' = Events /\ Scopes' = Scopes BY TextSame DEF NamesStay, Scopes
<1>2. /\ \A u : Makes(u)' <=> Makes(u)
      /\ \A l, b : Ends(l, b)' <=> Ends(l, b)
  BY TextSame
<1>3. ParentsBefore' BY <1>1 DEF Naming, ParentsBefore, NamesStay
<1>4. ScopesApart'
  <2>1. \A j \in Events : Makes(j) => ast[j].scope \in Scopes BY DEF MadeScopes
  <2>2. \A j \in Events : Makes(j) => scopes'[ast[j].scope].name = ast[j].name
    BY <2>1 DEF Naming, ScopesApart, NamesStay
  <2> QED BY <1>1, <1>2, <2>2 DEF Naming, ScopesApart
<1>5. DeclsNamed'
  <2> SUFFICES ASSUME NEW s \in Scopes, NEW m \in Symbol, scopes'[s].decl[m] # NoDecl
               PROVE  LET d == scopes'[s].decl[m]
                      IN  d \in Events /\ ast[d].op \in {"enter", "var", "enum"} /\ ast[d].name = m
    BY <1>1 DEF DeclsNamed
  <2>1. PICK t \in Scopes : scopes'[s].decl[m] = scopes[t].decl[m] BY DEF NamesStay
  <2> QED BY <2>1 DEF Naming, DeclsNamed
<1>6. Declared'
  <2>1. /\ \A j \in Events : ast[j].at \in Scopes
        /\ \A j \in Events : ast[j].op = "var" =>
             ast[j].name \in Symbol /\ scopes[ast[j].at].decl[ast[j].name] # NoDecl
        /\ \A b \in Events : ast[b].op = "enter" /\ ast[b].kind \in Callable => ast[b].name \in Symbol
        /\ \A l, b \in Events : Ends(l, b) /\ ast[b].kind \in Callable =>
             scopes[ast[b].at].decl[ast[b].name] # NoDecl
    BY DEF Naming, Declared
  <2>2. \A j \in Events : ast[j].op = "var" => scopes'[ast[j].at].decl[ast[j].name] # NoDecl
    BY <2>1 DEF NamesStay
  <2>3. \A l, b \in Events : Ends(l, b) /\ ast[b].kind \in Callable =>
          scopes'[ast[b].at].decl[ast[b].name] # NoDecl
    <3> SUFFICES ASSUME NEW l \in Events, NEW b \in Events, Ends(l, b), ast[b].kind \in Callable
                 PROVE  scopes'[ast[b].at].decl[ast[b].name] # NoDecl
      OBVIOUS
    <3>1. ast[b].name \in Symbol
      <4>1. ast[l].op = "leave" /\ ast[l].block = b BY DEF Ends
      <4>2. ast[b].op = "enter" BY <4>1 DEF Text, LeavesMatch
      <4> QED BY <2>1, <4>2
    <3>2. scopes[ast[b].at].decl[ast[b].name] # NoDecl /\ ast[b].at \in Scopes BY <2>1
    <3> QED BY <3>1, <3>2 DEF NamesStay
  <2> QED BY <1>1, <1>2, <2>1, <2>2, <2>3 DEF Declared
<1> QED BY <1>3, <1>4, <1>5, <1>6 DEF Naming

\* The slots stay when no variable is visited.
LEMMA SlotsStay ==
  ASSUME TypeOK, Naming, ast' = ast, Len(scopes') = Len(scopes),
         \A s \in Scopes : scopes'[s].alloca = scopes[s].alloca,
         pos' \in pos .. Len(ast),
         \A j \in pos + 1 .. pos' : ~Visited(j)
  PROVE  SlotsLatest'
<1> SUFFICES ASSUME Pure' PROVE SlotsLatest' BY DEF SlotsLatest
<1>1. Pure BY PureBefore
<1>2. /\ \A s \in Scopes, n \in Symbol : scopes[s].alloca[n] \in 0 .. pos
      /\ \A s \in Scopes, n \in Symbol, d \in 1 .. pos :
           scopes[s].alloca[n] = d => Visited(d) /\ ast[d].at = s /\ ast[d].name = n
      /\ \A j \in 1 .. pos : Visited(j) => scopes[ast[j].at].alloca[ast[j].name] >= j
  BY <1>1 DEF Naming, SlotsLatest
<1>3. \A u : Visited(u)' <=> Visited(u) BY TextSame
<1>4. Scopes' = Scopes BY DEF Scopes
<1>5. pos \in Nat /\ pos' \in Nat /\ pos <= pos' /\ pos' <= Len(ast) /\ Len(ast) \in Nat BY Types
<1>6. \A s \in Scopes, n \in Symbol : scopes'[s].alloca[n] \in 0 .. pos /\ 0 .. pos \subseteq 0 .. pos'
  BY <1>2, <1>5
<1>7. ASSUME NEW s \in Scopes, NEW n \in Symbol, NEW d \in 1 .. pos', scopes'[s].alloca[n] = d
      PROVE  Visited(d) /\ ast[d].at = s /\ ast[d].name = n
  <2>1. d \in 1 .. pos BY <1>5, <1>6, <1>7
  <2> QED BY <1>2, <1>7, <2>1
<1>8. ASSUME NEW j \in 1 .. pos', Visited(j)
      PROVE  scopes'[ast[j].at].alloca[ast[j].name] >= j
  <2>1. j \in 1 .. pos \/ j \in pos + 1 .. pos' BY <1>5
  <2>2. j \in 1 .. pos BY <1>8, <2>1
  <2>3. j \in Events BY <1>5, <2>2 DEF Events
  <2>4. ast[j].at \in Scopes BY <2>3 DEF Naming, Declared
  <2> QED BY <1>2, <1>8, <2>2, <2>4
<1> QED BY <1>3, <1>4, <1>6, <1>7, <1>8 DEF SlotsLatest

\* The imports of Integer and Real.
LEMMA ImportBuiltinsNames ==
  ASSUME NInv, ImportBuiltins
  PROVE  Nesting' /\ Naming'
<1>1. PICK name, mid : name = scopes[current].name /\ mid = CopyModule(scopes, "Integer", name)
  OBVIOUS
<1>2. PICK sc : sc = CopyModule(mid, "Real", name) OBVIOUS
<1>3. /\ scopes' = sc /\ ast' = ast /\ open' = open /\ pos' = pos
  BY <1>1, <1>2 DEF ImportBuiltins, parserVars
<1>4. IInv /\ TypeOK /\ Text /\ MadeScopes /\ Nesting /\ Naming BY DEF NInv, IInv, Tree
<1>5. IsTree(scopes) /\ Len(scopes) >= 1 /\ GlobalIsRoot(scopes) BY <1>4, Root
<1>6. IsTree(mid) /\ Copied(scopes, mid) /\ Carries(scopes, mid)
  BY <1>1, <1>5, CopyModuleTree, CopyModuleCarries
<1>7. Len(mid) >= 1 /\ GlobalIsRoot(mid) BY <1>5, <1>6, CopiedRoot DEF Copied
<1>8. IsTree(sc) /\ Copied(mid, sc) /\ Carries(mid, sc)
  BY <1>2, <1>6, <1>7, CopyModuleTree, CopyModuleCarries
<1>9. Len(scopes) \in Nat /\ Len(mid) = Len(scopes) /\ Len(sc) = Len(scopes)
  BY <1>5, <1>6, <1>8 DEF IsTree, Copied
<1>10. Carries(scopes, sc) BY <1>6, <1>8, <1>9, CarriesTwice
<1>11. NamesStay BY <1>3, <1>9, <1>10 DEF NamesStay, Carries, Scopes
<1>12. pos \in Nat /\ pos' \in pos .. Len(ast) /\ \A j \in pos + 1 .. pos' : FALSE
  BY <1>3, <1>4, Types
<1>13. Nesting' BY <1>3, <1>4, <1>12, NestingStays
<1>14. SlotsLatest' BY <1>3, <1>4, <1>9, <1>10, <1>12, SlotsStay DEF Carries, Scopes
<1> QED BY <1>3, <1>4, <1>11, <1>13, <1>14, NamingStays

\* A body without parts.
LEMMA BodyLostNames ==
  ASSUME NInv, BodyLost
  PROVE  Nesting' /\ Naming'
<1>1. /\ scopes' = scopes /\ ast' = ast /\ open' = open /\ pos' = pos
  BY OnlyThePhase
<1>2. TypeOK /\ Text /\ MadeScopes /\ Nesting /\ Naming BY DEF NInv, IInv, Tree
<1>3. pos \in Nat /\ pos' \in pos .. Len(ast) /\ \A j \in pos + 1 .. pos' : FALSE
  BY <1>1, <1>2, Types
<1>4. NamesStay BY <1>1 DEF NamesStay
<1>5. Nesting' BY <1>1, <1>2, <1>3, NestingStays
<1>6. SlotsLatest' BY <1>1, <1>2, <1>3, SlotsStay
<1> QED BY <1>1, <1>2, <1>4, <1>5, <1>6, NamingStays

\* Every step of the parser.
LEMMA ParseNames ==
  ASSUME NInv, Parse
  PROVE  NInv'
<1>1. IInv /\ TypeOK /\ Naming BY DEF NInv, IInv
<1>2. IInv' /\ TypeOK' BY <1>1, ParseSteps DEF IInv
<1>3. PICK kind \in {"value", "bare"} : TRUE OBVIOUS
<1>4. PICK form \in {"closed", "unclosed"} : TRUE OBVIOUS
<1>5. CASE ImportBuiltins BY <1>2, <1>5, ImportBuiltinsNames DEF NInv
<1>6. CASE Grows BY <1>2, <1>6, EventsGrow DEF NInv
<1>7. CASE \E m \in ModuleName : ParseProgram(m) \/ ParseImport(m)
  BY <1>1, <1>6, <1>7, ProgramGrows, ImportGrows
<1>8. CASE \E n \in VarName :
             \/ EnterClass(n) \/ EnterFunction(n) \/ EnterMethod(n)
             \/ ParseEnum(n) \/ ParseVar(n) \/ ParseField(n) \/ ParseUse(n)
  <2>1. PICK n \in VarName :
             \/ EnterClass(n) \/ EnterFunction(n) \/ EnterMethod(n)
             \/ ParseEnum(n) \/ ParseVar(n) \/ ParseField(n) \/ ParseUse(n)
    BY <1>8
  <2>2. CASE EnterClass(n) \/ EnterFunction(n) \/ EnterMethod(n) BY <1>1, <1>6, <2>2, EntersGrow
  <2>3. CASE ParseEnum(n) BY <1>1, <1>6, <2>3, EnumGrows
  <2>4. CASE ParseVar(n) \/ ParseField(n) \/ ParseUse(n)
    BY <1>1, <1>3, <1>4, <1>6, <2>4, ReadsGrow
  <2> QED BY <2>1, <2>2, <2>3, <2>4
<1>9. CASE EnterConstructor \/ EnterIf \/ EnterFor BY <1>1, <1>6, <1>9, EntersGrow
<1>10. CASE \E k \in Unscoped : EnterUnscoped(k) BY <1>1, <1>6, <1>10, EnterUnscopedGrows
<1>11. CASE \E k \in {"value", "bare"} : ParseReturn(k) BY <1>1, <1>4, <1>6, <1>11, ReadsGrow
<1>12. CASE \E f \in {"closed", "unclosed"} : ParseElse(f) BY <1>1, <1>3, <1>6, <1>12, ReadsGrow
<1>13. CASE LeaveNamed \/ LeaveAnonymous \/ LeaveUnscoped \/ EndProgram \/ EndProgramLost
  BY <1>1, <1>6, <1>13, LeavesGrow
<1>14. CASE BodyLost BY <1>2, <1>14, BodyLostNames DEF NInv
<1> QED BY <1>5, <1>7, <1>8, <1>9, <1>10, <1>11, <1>12, <1>13, <1>14 DEF Parse

-----------------------------------------------------------------------------
(***************************************************************************)
(* The steps of the generator, and the inductive invariant.                *)
(***************************************************************************)

\* A step of the generator that records no slot.
LEMMA PassNames ==
  ASSUME NInv, ast' = ast, open' = open, pos' \in pos .. Len(ast),
         Len(scopes') = Len(scopes),
         \A s \in Scopes :
           /\ scopes'[s].name = scopes[s].name /\ scopes'[s].parent = scopes[s].parent
           /\ scopes'[s].decl = scopes[s].decl /\ scopes'[s].alloca = scopes[s].alloca,
         \A b \in pos + 1 .. pos' : ast[b].op = "enter" /\ ast[b].kind \in Unscoped =>
           \E l \in b + 1 .. pos' : Ends(l, b),
         \A j \in pos + 1 .. pos' : ~Visited(j)
  PROVE  Nesting' /\ Naming'
<1>1. TypeOK /\ Text /\ MadeScopes /\ Nesting /\ Naming BY DEF NInv, IInv, Tree
<1>2. NamesStay BY DEF NamesStay
<1>3. Nesting' BY <1>1, NestingStays
<1>4. SlotsLatest' BY <1>1, SlotsStay
<1> QED BY <1>1, <1>2, <1>3, <1>4, NamingStays

\* The same for one event at most.
LEMMA PassOneNames ==
  ASSUME NInv, phase = "codegen", ast' = ast, open' = open, pos' \in {pos, pos + 1},
         ~(Next1.op = "enter" /\ Next1.kind \in Unscoped),
         ~(Next1.op = "var" /\ Next1.kind = "local"),
         Len(scopes') = Len(scopes),
         \A s \in Scopes :
           /\ scopes'[s].name = scopes[s].name /\ scopes'[s].parent = scopes[s].parent
           /\ scopes'[s].decl = scopes[s].decl /\ scopes'[s].alloca = scopes[s].alloca
  PROVE  Nesting' /\ Naming'
<1>1. IInv BY DEF NInv
<1>2. /\ pos \in Nat /\ Len(ast) \in Nat /\ Next1 = ast[pos + 1]
      /\ pos + 1 \in pos .. Len(ast) /\ pos \in pos .. Len(ast)
  BY <1>1, Upcoming
<1>3. pos' \in pos .. Len(ast) /\ \A j \in pos + 1 .. pos' : j = pos + 1 BY <1>2
<1>4. \A b \in pos + 1 .. pos' : ~(ast[b].op = "enter" /\ ast[b].kind \in Unscoped)
  BY <1>2, <1>3
<1>5. \A j \in pos + 1 .. pos' : ~Visited(j) BY <1>2, <1>3 DEF Visited, Local
<1> QED BY <1>3, <1>4, <1>5, PassNames

LEMMA DescendNames ==
  ASSUME NInv, NextIs("enter", Scoped), Descend, ast' = ast, open' = open,
         pos' \in {pos, pos + 1}
  PROVE  Nesting' /\ Naming'
<1>1. IsTree(scopes) /\ cg \in 1 .. Len(scopes) /\ scopes' = Advance(scopes, cg)
  BY Types DEF NInv, IInv, Scopes, Descend
<1>2. PassedTo(scopes, cg) \in Nat BY <1>1, NextScopeInTree
<1>3. PICK sc2 : sc2 = scopes' OBVIOUS
<1>4. sc2 = Advance(scopes, cg) BY <1>1, <1>3
<1>5. /\ Carries(scopes, sc2) /\ Len(sc2) = Len(scopes)
      /\ \A t \in 1 .. Len(scopes) : sc2[t].decl = scopes[t].decl
  BY <1>1, <1>2, <1>4, AdvanceCarries
<1>6. phase = "codegen" /\ Next1.op = "enter" /\ Next1.kind \in Scoped BY DEF NextIs
<1>7. Next1.kind \notin Unscoped BY <1>6 DEF Scoped, Unscoped
<1>8. \A s \in Scopes :
        /\ scopes'[s].name = scopes[s].name /\ scopes'[s].parent = scopes[s].parent
        /\ scopes'[s].decl = scopes[s].decl /\ scopes'[s].alloca = scopes[s].alloca
  BY <1>3, <1>5 DEF Carries, Scopes
<1> QED BY <1>3, <1>5, <1>6, <1>7, <1>8, PassOneNames

\* A while or a switch is passed with all that it holds.
LEMMA UnscopedNames ==
  ASSUME NInv, VisitUnscoped
  PROVE  Nesting' /\ Naming'
<1>1. PICK p : p = CHOOSE j \in pos + 1 .. Len(ast) :
                     ast[j].op = "leave" /\ ast[j].block = pos + 1
  OBVIOUS
<1>2. /\ phase = "codegen" /\ Next1.op = "enter" /\ Next1.kind \in Unscoped
      /\ pos' = pos + (p - pos) /\ scopes' = scopes /\ ast' = ast /\ open' = open
  BY <1>1 DEF VisitUnscoped, NextIs, Pass, parserVars
<1>3. /\ pos + 1 \in Events /\ pos \in Nat /\ Next1 = ast[pos + 1] /\ Len(ast) \in Nat
      /\ open = << >>
  BY <1>2, Upcoming DEF NInv
<1>4. TypeOK /\ Text /\ Nesting BY DEF NInv, IInv
<1>5. \E l \in pos + 1 .. Len(ast) : ast[l].op = "leave" /\ ast[l].block = pos + 1
  <2>1. \/ \E i \in 1 .. Len(open) : open[i] = pos + 1
        \/ \E l \in pos + 1 + 1 .. Len(ast) : ast[l].op = "leave" /\ ast[l].block = pos + 1
    BY <1>2, <1>3, <1>4 DEF Text, LeavesMatch
  <2>2. Len(open) = 0 BY <1>3
  <2>3. PICK l \in pos + 1 + 1 .. Len(ast) : ast[l].op = "leave" /\ ast[l].block = pos + 1
    BY <2>1, <2>2
  <2>4. l \in pos + 1 .. Len(ast) BY <1>3
  <2> QED BY <2>3, <2>4
<1>6. p \in pos + 1 .. Len(ast) /\ ast[p].op = "leave" /\ ast[p].block = pos + 1
  BY <1>1, <1>5
<1>7. p \in Events /\ p \in Nat /\ pos' = p /\ p \in pos .. Len(ast)
  BY <1>2, <1>3, <1>6 DEF Events
<1>8. p \in pos + 1 + 1 .. p BY <1>3, <1>4, <1>6, <1>7 DEF Text, LeavesMatch
<1>9. ASSUME NEW b \in pos + 1 .. p, ast[b].op = "enter"
      PROVE  \E l \in b + 1 .. p : Ends(l, b)
  <2>1. CASE b = pos + 1 BY <1>6, <1>8, <2>1 DEF Ends
  <2>2. CASE b # pos + 1
    <3>1. b # p BY <1>6, <1>9
    <3>2. b \in ast[p].block + 1 .. p - 1 BY <1>3, <1>6, <1>7, <2>2, <3>1
    <3>3. PICK k \in b + 1 .. p - 1 : Ends(k, b)
      BY <1>4, <1>6, <1>7, <1>9, <3>2 DEF Nesting, LeftWithin
    <3>4. k \in b + 1 .. p BY <1>3, <1>7, <3>3
    <3> QED BY <3>3, <3>4
  <2> QED BY <2>1, <2>2
<1>10. ASSUME NEW j \in pos + 1 .. p
       PROVE  ~Visited(j)
  <2>1. CASE j = pos + 1 BY <1>2, <1>3, <2>1 DEF Visited, Local
  <2>2. CASE j # pos + 1
    <3>1. pos + 1 \in 1 .. j - 1 BY <1>3, <1>7, <2>2
    <3>2. ASSUME NEW i \in pos + 1 .. j - 1, Ends(i, pos + 1) PROVE FALSE
      <4>1. i \in Events /\ i # p BY <1>3, <1>7 DEF Events
      <4>2. Ends(i, ast[p].block) BY <1>6, <3>2
      <4> QED BY <1>4, <1>6, <1>7, <4>1, <4>2 DEF Nesting, LeftOnce
    <3>3. pos + 1 \in Around(j) BY <1>2, <1>3, <3>1, <3>2 DEF Around, Ends
    <3> QED BY <1>2, <1>3, <3>3 DEF Visited
  <2> QED BY <2>1, <2>2
<1> QED BY <1>2, <1>7, <1>9, <1>10, PassNames

\* A variable is visited in its scope.
LEMMA VarNames ==
  ASSUME NInv, VisitVar
  PROVE  Nesting' /\ Naming'
<1>1. /\ phase = "codegen" /\ Next1.op = "var" /\ Next1.kind = "local" /\ pos' = pos + 1
      /\ scopes' = AddAlloca(scopes, cg, Next1.name, pos + 1) /\ ast' = ast /\ open' = open
  BY DEF VisitVar, NextIs, Pass, parserVars
<1>2. /\ pos + 1 \in Events /\ pos \in Nat /\ Next1 = ast[pos + 1] /\ Len(ast) \in Nat
      /\ pos + 1 \in pos .. Len(ast)
      /\ Pure => cg = Next1.at
  BY <1>1, Upcoming DEF NInv
<1>3. TypeOK /\ Text /\ MadeScopes /\ Nesting /\ Naming BY DEF NInv, IInv, Tree
<1>4. IsTree(scopes) /\ cg \in 1 .. Len(scopes) BY <1>3, Types DEF Scopes
<1>5. PICK n, d, sc2 : n = Next1.name /\ d = pos + 1 /\ sc2 = scopes' OBVIOUS
<1>6. d \in Nat /\ sc2 = AddAlloca(scopes, cg, n, d) BY <1>1, <1>2, <1>5
<1>7. /\ Len(sc2) = Len(scopes)
      /\ \A t \in 1 .. Len(scopes) :
           /\ sc2[t].name = scopes[t].name /\ sc2[t].parent = scopes[t].parent
           /\ sc2[t].decl = scopes[t].decl
           /\ \A m \in Symbol :
                sc2[t].alloca[m] = IF t = cg /\ m = n /\ scopes[cg].decl[n] # NoDecl THEN d
                                   ELSE scopes[t].alloca[m]
  BY <1>4, <1>6, AddAllocaNames
<1>8. NamesStay BY <1>5, <1>7 DEF NamesStay, Scopes
<1>9. Nesting'
  <2>1. \A b \in pos + 1 .. pos' : ast[b].op # "enter" BY <1>1, <1>2
  <2> QED BY <1>1, <1>2, <1>3, <2>1, NestingStays
<1>10. SlotsLatest'
  <2> SUFFICES ASSUME Pure' PROVE SlotsLatest' BY DEF SlotsLatest
  <2>1. Pure BY <1>1, <1>2, <1>3, PureBefore
  <2>2. /\ \A s \in Scopes, m \in Symbol : scopes[s].alloca[m] \in 0 .. pos
        /\ \A s \in Scopes, m \in Symbol, i \in 1 .. pos :
             scopes[s].alloca[m] = i => Visited(i) /\ ast[i].at = s /\ ast[i].name = m
        /\ \A j \in 1 .. pos : Visited(j) => scopes[ast[j].at].alloca[ast[j].name] >= j
    BY <1>3, <2>1 DEF Naming, SlotsLatest
  <2>3. /\ cg = ast[d].at /\ n = ast[d].name /\ n \in Symbol /\ cg \in Scopes
        /\ scopes[cg].decl[n] # NoDecl
    BY <1>1, <1>2, <1>3, <1>5, <2>1 DEF Naming, Declared
  <2>4. \A t \in Scopes, m \in Symbol :
          scopes'[t].alloca[m] = IF t = cg /\ m = n THEN d ELSE scopes[t].alloca[m]
    BY <1>5, <1>7, <2>3 DEF Scopes
  <2>5. Visited(d)
    <3>1. ASSUME NEW b \in Around(d), ast[b].kind \in Unscoped PROVE FALSE
      <4>1. b \in 1 .. pos /\ ast[b].op = "enter" BY <1>2, <1>5, <3>1 DEF Around
      <4>2. PICK l \in b + 1 .. pos : Ends(l, b)
        BY <1>3, <3>1, <4>1 DEF Nesting, PassedWhole
      <4>3. l \in b .. d - 1 BY <1>2, <1>5, <4>1
      <4> QED BY <3>1, <4>2, <4>3 DEF Around, Ends
    <3> QED BY <1>1, <1>2, <1>5, <3>1 DEF Visited, Local
  <2>6. pos' = d /\ d = pos + 1 /\ Scopes' = Scopes BY <1>1, <1>5, <1>7 DEF Scopes
  <2>7. ASSUME NEW s \in Scopes, NEW m \in Symbol
        PROVE  scopes'[s].alloca[m] \in 0 .. d
    <3>1. scopes[s].alloca[m] \in 0 .. pos BY <2>2
    <3> QED BY <1>2, <1>6, <2>4, <2>6, <3>1
  <2>8. ASSUME NEW s \in Scopes, NEW m \in Symbol, NEW i \in 1 .. d, scopes'[s].alloca[m] = i
        PROVE  Visited(i) /\ ast[i].at = s /\ ast[i].name = m
    <3>1. CASE s = cg /\ m = n BY <2>3, <2>4, <2>5, <2>8, <3>1
    <3>2. CASE ~(s = cg /\ m = n)
      <4>1. scopes[s].alloca[m] = i /\ scopes[s].alloca[m] \in 0 .. pos
        BY <2>2, <2>4, <2>8, <3>2
      <4>2. i \in 1 .. pos BY <1>2, <4>1
      <4> QED BY <2>2, <4>1, <4>2
    <3> QED BY <3>1, <3>2
  <2>9. ASSUME NEW j \in 1 .. d, Visited(j)
        PROVE  scopes'[ast[j].at].alloca[ast[j].name] >= j
    <3>1. j \in Events /\ j \in Nat BY <1>2, <2>6 DEF Events
    <3>2. ast[j].at \in Scopes /\ ast[j].name \in Symbol
      BY <1>3, <2>9, <3>1 DEF Naming, Declared, Visited, Local
    <3>3. PICK a \in Nat : a = scopes[ast[j].at].alloca[ast[j].name]
      BY <1>2, <2>2, <3>2
    <3>4. scopes'[ast[j].at].alloca[ast[j].name] = d \/ scopes'[ast[j].at].alloca[ast[j].name] = a
      BY <2>4, <3>2, <3>3
    <3>5. j = d => scopes'[ast[j].at].alloca[ast[j].name] = d BY <2>3, <2>4
    <3>6. j # d => a >= j
      <4>1. j # d => j \in 1 .. pos BY <1>2, <2>6, <3>1
      <4> QED BY <2>2, <2>9, <3>3, <4>1
    <3>7. j <= d BY <1>2, <2>6
    <3> QED BY <1>6, <3>1, <3>3, <3>4, <3>5, <3>6, <3>7
  <2>10. \A u : Visited(u)' <=> Visited(u) BY <1>1, TextSame
  <2> QED BY <1>1, <2>6, <2>7, <2>8, <2>9, <2>10 DEF SlotsLatest
<1> QED BY <1>1, <1>3, <1>8, <1>9, <1>10, NamingStays

\* Every step of the generator.
LEMMA GenerateNames ==
  ASSUME NInv, Generate
  PROVE  NInv'
<1>1. IInv' BY GenerateSteps DEF NInv
<1>2. CASE VisitModule
  <2>1. PICK there \in BOOLEAN : pos' = pos + IF there THEN 1 ELSE 0
    BY <1>2 DEF VisitModule, Pass
  <2>2. pos \in Nat BY Types DEF NInv, IInv
  <2>3. pos' \in {pos, pos + 1} BY <2>1, <2>2
  <2>4. NextIs("enter", Scoped) /\ Descend /\ ast' = ast /\ open' = open
    BY <1>2 DEF VisitModule, NextIs, Pass, parserVars, Scoped
  <2> QED BY <1>1, <2>3, <2>4, DescendNames DEF NInv
<1>3. CASE VisitScoped
  <2>1. NextIs("enter", Scoped) /\ Descend /\ ast' = ast /\ open' = open
        /\ pos' \in {pos, pos + 1}
    BY <1>3 DEF VisitScoped, NextIs, Pass, parserVars
  <2> QED BY <1>1, <2>1, DescendNames DEF NInv
<1>4. CASE VisitUnscoped BY <1>1, <1>4, UnscopedNames DEF NInv
<1>5. CASE VisitVar BY <1>1, <1>5, VarNames DEF NInv
<1>6. CASE VisitEnd \/ EndModule
  <2>1. /\ phase = "codegen" /\ Next1.op = "leave" /\ scopes' = scopes
        /\ pos' \in {pos, pos + 1} /\ ast' = ast /\ open' = open
    BY <1>6 DEF VisitEnd, EndModule, NextIs, Pass, parserVars
  <2> QED BY <1>1, <2>1, PassOneNames DEF NInv
<1>7. CASE VisitUse \/ VisitReturn \/ VisitNothing
  <2>1. /\ phase = "codegen" /\ Next1.op # "enter"
        /\ ~(Next1.op = "var" /\ Next1.kind = "local")
        /\ scopes' = scopes /\ pos' \in {pos, pos + 1} /\ ast' = ast /\ open' = open
    BY <1>7 DEF VisitUse, VisitReturn, VisitNothing, NextIs, Pass, parserVars
  <2> QED BY <1>1, <2>1, PassOneNames DEF NInv
<1>8. CASE VisitLost \/ VisitEndLost \/ VisitUseLost \/ VisitReturnLost
  <2>1. phase = "codegen" /\ Fail
    BY <1>8 DEF VisitLost, VisitEndLost, VisitUseLost, VisitReturnLost, NextIs
  <2>2. scopes' = scopes /\ pos' = pos /\ ast' = ast /\ open' = open
    BY <2>1 DEF Fail, parserVars
  <2>3. pos \in Nat /\ pos \in pos .. Len(ast) BY <2>1, Upcoming DEF NInv
  <2>4. \A j \in pos + 1 .. pos' : FALSE BY <2>2, <2>3
  <2> QED BY <1>1, <2>2, <2>3, <2>4, PassNames DEF NInv
<1> QED BY <1>2, <1>3, <1>4, <1>5, <1>6, <1>7, <1>8 DEF Generate

\* The names at the start.
LEMMA InitNames ==
  ASSUME Init
  PROVE  NInv
<1>1. IInv BY InitIInv
<1>2. /\ scopes = << NewScope("global", "Global", None) >> /\ ast = << >> /\ open = << >>
      /\ pos = 0
  BY DEF Init
<1>3. Events = {} /\ Scopes = {1} /\ Len(open) = 0 /\ 1 .. pos = {} BY <1>2 DEF Events, Scopes
<1>4. scopes[1] = NewScope("global", "Global", None) BY <1>2
<1>5. /\ scopes[1].parent = 0
      /\ \A n \in Symbol : scopes[1].decl[n] = NoDecl /\ scopes[1].alloca[n] = 0
  BY <1>4 DEF NewScope, None, NoSymbols, NoDecl
<1>6. Nesting
  <2>1. LeftOnce BY <1>3 DEF LeftOnce
  <2>2. LeftWithin /\ BlocksAround /\ UsesDeclared
    BY <1>3 DEF LeftWithin, BlocksAround, UsesDeclared
  <2>3. PassedWhole BY <1>3 DEF PassedWhole
  <2> QED BY <2>1, <2>2, <2>3 DEF Nesting
<1>7. Naming
  <2>1. ParentsBefore BY <1>3, <1>5 DEF ParentsBefore
  <2>2. ScopesApart /\ Declared BY <1>3 DEF ScopesApart, Declared
  <2>3. DeclsNamed BY <1>3, <1>5 DEF DeclsNamed
  <2>4. SlotsLatest BY <1>2, <1>3, <1>5 DEF SlotsLatest
  <2> QED BY <2>1, <2>2, <2>3, <2>4 DEF Naming
<1> QED BY <1>1, <1>6, <1>7 DEF NInv

LEMMA StutterNames ==
  ASSUME NInv, UNCHANGED vars
  PROVE  NInv'
<1>1. IInv' BY StutterIInv DEF NInv
<1>2. scopes' = scopes /\ ast' = ast /\ open' = open /\ pos' = pos BY DEF vars
<1>3. pos \in Nat /\ pos \in pos .. Len(ast)
  <2>1. pos \in 0 .. Len(ast) /\ pos \in Nat /\ Len(ast) \in Nat BY Types DEF NInv, IInv
  <2> QED BY <2>1
<1>4. \A j \in pos + 1 .. pos' : FALSE BY <1>2, <1>3
<1> QED BY <1>1, <1>2, <1>3, <1>4, PassNames DEF NInv

\* Names and scopes keep to each other.
THEOREM NamesInvariant == Spec => []NInv
<1>1. Init => NInv BY InitNames
<1>2. NInv /\ [Next]_vars => NInv'
  <2> SUFFICES ASSUME NInv, [Next]_vars PROVE NInv' OBVIOUS
  <2>1. CASE Next BY <2>1, ParseNames, GenerateNames DEF Next
  <2>2. CASE UNCHANGED vars BY <2>2, StutterNames
  <2> QED BY <2>1, <2>2
<1> QED BY <1>1, <1>2, PTL DEF Spec

-----------------------------------------------------------------------------
(***************************************************************************)
(* What it says of variables, of returns and of failures.                  *)
(***************************************************************************)

\* Greatest is the greatest, of events.
LEMMA GreatestIsGreatest ==
  ASSUME NEW k \in Nat, NEW S \in SUBSET (1 .. k), S # {}
  PROVE  Greatest(S) \in S /\ \A j \in S : Greatest(S) >= j
<1> DEFINE Bounds == {b \in Nat : \A j \in S : j <= b}
<1>1. k \in Bounds /\ Bounds \in SUBSET Nat /\ Bounds # {} BY DEF Bounds
<1>2. PICK b \in Bounds : \A c \in Bounds : b <= c
  <2> HIDE DEF Bounds
  <2> QED BY <1>1, LeastIsLeast
<1>3. b \in Nat /\ \A j \in S : j <= b BY <1>2
<1>4. b \in S
  <2> SUFFICES ASSUME b \notin S PROVE FALSE OBVIOUS
  <2>1. \A j \in S : j \in Nat /\ j >= 1 /\ j <= b /\ j # b BY <1>3
  <2>2. PICK j \in S : TRUE OBVIOUS
  <2>3. b - 1 \in Nat BY <1>3, <2>1, <2>2
  <2>4. \A i \in S : i <= b - 1 BY <1>3, <2>1
  <2>5. b - 1 \in Bounds BY <2>3, <2>4
  <2>6. b <= b - 1
    <3> HIDE DEF Bounds
    <3> QED BY <1>2, <2>5
  <2> QED BY <1>3, <2>6
<1>5. \E i \in S : \A j \in S : i >= j BY <1>3, <1>4
<1> QED BY <1>5 DEF Greatest

\* Slots stay with their variables.
LEMMA SlotsInPlace ==
  ASSUME NInv
  PROVE  SlotInItsScope
<1> SUFFICES ASSUME Pure, NEW s \in Scopes, NEW n \in Symbol, scopes[s].alloca[n] # NoDecl
             PROVE  ast[scopes[s].alloca[n]].at = s /\ ast[scopes[s].alloca[n]].name = n
  BY DEF SlotInItsScope
<1>1. PICK d : d = scopes[s].alloca[n] OBVIOUS
<1>2. SlotsLatest /\ pos \in Nat BY Types DEF NInv, IInv, Naming
<1>3. d \in 0 .. pos /\ d # 0 BY <1>1, <1>2 DEF SlotsLatest, NoDecl
<1>4. d \in 1 .. pos BY <1>2, <1>3
<1> QED BY <1>1, <1>2, <1>4 DEF SlotsLatest

\* The reader looks at what is before the next event.
LEMMA ReaderLooksBack ==
  ASSUME pos \in Nat
  PROVE  /\ Around(pos + 1) = {b \in 1 .. pos : ast[b].op = "enter"
                                /\ \A i \in b .. pos : ~Ends(i, b)}
         /\ LexicalDecls(pos + 1) = VisibleAt(pos, Around(pos + 1), ast[pos + 1].name)
<1>1. PICK p : p = pos + 1 - 1 OBVIOUS
<1>2. p = pos BY <1>1
<1>3. LexicalDecls(pos + 1) = VisibleAt(p, Around(pos + 1), ast[pos + 1].name)
  BY <1>1 DEF LexicalDecls
<1>4. Around(pos + 1) = {b \in 1 .. p : ast[b].op = "enter"
                            /\ \A i \in b .. p : ~Ends(i, b)}
  BY <1>1 DEF Around, Ends
<1> QED BY <1>2, <1>3, <1>4

\* The declaration that a reader takes the next event to use is one that the generator
\* has visited: it is not in a while or a switch, which would still be open.
LEMMA ReaderTakesVisited ==
  ASSUME NInv, NextIs("use", {"plain"}), NEW j \in LexicalDecls(pos + 1)
  PROVE  j \in 1 .. pos /\ Visited(j) /\ ast[j].block \in Around(j)
         /\ ast[j].at = Inside(ast[j].block)
<1>1. phase = "codegen" /\ Next1.op = "use" BY DEF NextIs
<1>2. pos + 1 \in Events /\ pos \in Nat /\ Next1 = ast[pos + 1] /\ Len(ast) \in Nat
  BY <1>1, Upcoming DEF NInv
<1>3. TypeOK /\ Nesting BY DEF NInv, IInv
<1>4. /\ Around(pos + 1) = {b \in 1 .. pos : ast[b].op = "enter"
                                /\ \A i \in b .. pos : ~Ends(i, b)}
      /\ LexicalDecls(pos + 1) = VisibleAt(pos, Around(pos + 1), ast[pos + 1].name)
  BY <1>2, ReaderLooksBack
<1>5. /\ j \in 1 .. pos /\ ast[j].op = "var" /\ ast[j].kind = "local"
      /\ ast[j].block \in Around(pos + 1)
  BY <1>4 DEF VisibleAt
<1>6. j \in Events /\ j \in Nat BY <1>2, <1>5 DEF Events
<1>7. PICK c : c = ast[j].block OBVIOUS
<1>8. c # 0 BY <1>3, <1>5, <1>6, <1>7 DEF Nesting, BlocksAround
<1>9. c \in Around(j) /\ ast[j].at = Inside(c) /\ \A b \in Around(j) : b <= c
  BY <1>3, <1>6, <1>7, <1>8 DEF Nesting, BlocksAround
<1>10. c \in 1 .. j - 1 /\ ast[c].op = "enter" BY <1>9 DEF Around
<1>11. \A i \in c .. pos : ~Ends(i, c) BY <1>4, <1>5, <1>7
<1>12. ASSUME NEW b \in Around(j), ast[b].kind \in Unscoped PROVE FALSE
  <2>1. b \in 1 .. j - 1 /\ ast[b].op = "enter" /\ \A i \in b .. j - 1 : ~Ends(i, b)
    BY <1>12 DEF Around, Ends
  <2>2. b \in 1 .. pos /\ b <= c BY <1>2, <1>5, <1>6, <1>9, <2>1
  <2>3. PICK l \in b + 1 .. pos : Ends(l, b)
    BY <1>3, <1>12, <2>1, <2>2 DEF Nesting, PassedWhole
  <2>4. l # j /\ ast[l].op = "leave" /\ ast[l].block = b BY <1>5, <2>3 DEF Ends
  <2>5. l > j /\ l \in Events
    <3>1. l \in Nat /\ b \in Nat /\ l >= b BY <1>2, <2>2, <2>3
    <3>2. l >= j BY <1>6, <2>1, <2>3, <3>1
    <3> QED BY <1>2, <1>6, <2>3, <2>4, <3>1, <3>2 DEF Events
  <2>6. CASE b = c
    <3>1. l \in c .. pos BY <1>2, <2>2, <2>3, <2>6
    <3> QED BY <1>11, <2>3, <2>6, <3>1
  <2>7. CASE b # c
    <3>1. c \in ast[l].block + 1 .. l - 1 BY <1>2, <1>6, <1>10, <2>2, <2>3, <2>4, <2>5, <2>7
    <3>2. PICK k \in c + 1 .. l - 1 : Ends(k, c)
      BY <1>3, <1>10, <2>4, <2>5, <3>1 DEF Nesting, LeftWithin
    <3>3. k \in c .. pos BY <1>2, <1>10, <2>3, <3>2
    <3> QED BY <1>11, <3>2, <3>3
  <2> QED BY <2>6, <2>7
<1> QED BY <1>5, <1>7, <1>9, <1>12 DEF Visited, Local

\* Two visited variables of one scope stand directly in one construct.
LEMMA SameScopeSameBlock ==
  ASSUME NInv, Pure, NEW i \in 1 .. pos, NEW j \in 1 .. pos, Visited(i), Visited(j),
         ast[i].at = ast[j].at
  PROVE  ast[i].block = ast[j].block
<1>1. TypeOK /\ Text /\ Nesting /\ ScopesApart BY DEF NInv, IInv, Naming
<1>2. pos \in Nat /\ Len(ast) \in Nat /\ pos <= Len(ast) BY <1>1, Types
<1>3. i \in Events /\ j \in Events BY <1>2 DEF Events
<1>4. PICK b, c : b = ast[i].block /\ c = ast[j].block OBVIOUS
<1>5. /\ b \in Around(i) /\ ast[i].at = Inside(b)
      /\ c \in Around(j) /\ ast[j].at = Inside(c)
  BY <1>1, <1>3, <1>4 DEF Nesting, BlocksAround, Visited, Local
<1>6. /\ b \in Events /\ ast[b].op = "enter" /\ ast[b].kind \notin Unscoped
      /\ c \in Events /\ ast[c].op = "enter" /\ ast[c].kind \notin Unscoped
  BY <1>2, <1>3, <1>5 DEF Around, Visited, Events
<1>7. ast[b].kind \in Scoped /\ ast[c].kind \in Scoped BY <1>1, <1>6 DEF Text, HiddenScopes
<1>8. Makes(b) /\ Makes(c) BY <1>1, <1>6, <1>7 DEF Text, HiddenScopes
<1>9. ast[b].scope = ast[c].scope BY <1>5, <1>7 DEF Inside
<1>10. /\ ~(b < c) /\ ~(c < b)
  <2>1. ast[b].scope \in Nat BY <1>1, <1>6, Types, EventFields
  <2> QED BY <1>1, <1>6, <1>8, <1>9, <2>1 DEF ScopesApart
<1>11. b = c BY <1>6, <1>10 DEF Events
<1> QED BY <1>4, <1>11

\* A use reads the slot of the declaration that the reader takes it to mean.
LEMMA UseReads ==
  ASSUME NInv, NextIs("use", {"plain"}), Pure, ~Masked(pos + 1)
  PROVE  Slot(Next1.name) = LexicalDecl(pos + 1) /\ LexicalDecl(pos + 1) \in 1 .. pos
<1>1. phase = "codegen" /\ Next1.op = "use" BY DEF NextIs
<1>2. /\ pos + 1 \in Events /\ pos \in Nat /\ Next1 = ast[pos + 1] /\ Len(ast) \in Nat
      /\ cg = Next1.at
  BY <1>1, Upcoming DEF NInv
<1>3. TypeOK /\ Nesting /\ Naming BY DEF NInv, IInv
<1>4. PICK S : S = LexicalDecls(pos + 1) OBVIOUS
<1>5. S = VisibleAt(pos, Around(pos + 1), ast[pos + 1].name)
  BY <1>2, <1>4, ReaderLooksBack
<1>6. S \in SUBSET (1 .. pos) /\ S # {}
  <2>1. S # {} BY <1>1, <1>2, <1>3, <1>4 DEF Nesting, UsesDeclared
  <2> QED BY <1>5, <2>1 DEF VisibleAt
<1>7. PICK j : j = Greatest(S) OBVIOUS
<1>8. j \in S /\ \A i \in S : j >= i BY <1>2, <1>6, <1>7, GreatestIsGreatest
<1>9. j = LexicalDecl(pos + 1) BY <1>4, <1>7 DEF LexicalDecl
<1>10. PICK n, h : n = Next1.name /\ h = ast[j].at OBVIOUS
<1>11. /\ j \in 1 .. pos /\ Visited(j) /\ ast[j].block \in Around(pos + 1)
       /\ ast[j].op = "var" /\ ast[j].name = n
       /\ \A i \in j .. pos : ast[i].op = "else" => ast[i].block # ast[j].block
  <2>1. j \in LexicalDecls(pos + 1) BY <1>4, <1>8
  <2>2. j \in 1 .. pos /\ Visited(j) BY <2>1, ReaderTakesVisited
  <2> QED BY <1>2, <1>4, <1>5, <1>10, <2>1, <2>2 DEF VisibleAt
<1>12. j \in Events BY <1>2, <1>6, <1>8 DEF Events
<1>13. h \in Scopes /\ n \in Symbol BY <1>3, <1>10, <1>11, <1>12 DEF Naming, Declared
<1>14. Holder(n) = h BY <1>2, <1>9, <1>10 DEF Masked, Holder
<1>15. h # None BY <1>13 DEF Scopes, None
<1>16. PICK d : d = scopes[h].alloca[n] OBVIOUS
<1>17. Slot(n) = d BY <1>14, <1>15, <1>16 DEF Slot
<1>18. SlotsLatest BY <1>3 DEF Naming
<1>19. d \in 0 .. pos /\ d >= j BY <1>10, <1>11, <1>13, <1>16, <1>18 DEF SlotsLatest
<1>20. d \in 1 .. pos /\ j \in Nat /\ d \in Nat BY <1>2, <1>11, <1>19
<1>21. Visited(d) /\ ast[d].at = h /\ ast[d].name = n
  BY <1>13, <1>16, <1>18, <1>20 DEF SlotsLatest
<1>22. ast[d].block = ast[j].block
  BY <1>10, <1>11, <1>20, <1>21, SameScopeSameBlock
<1>23. d \in S
  <2>1. d .. pos \subseteq j .. pos BY <1>2, <1>19, <1>20
  <2>2. \A i \in d .. pos : ast[i].op = "else" => ast[i].block # ast[d].block
    BY <1>11, <1>22, <2>1
  <2>3. ast[d].op = "var" /\ ast[d].kind = "local" BY <1>21 DEF Visited, Local
  <2> QED BY <1>2, <1>5, <1>10, <1>11, <1>20, <1>21, <1>22, <2>2, <2>3 DEF VisibleAt
<1>24. d = j BY <1>8, <1>19, <1>20, <1>23
<1> QED BY <1>9, <1>10, <1>11, <1>17, <1>24

\* A return finds the declaration of the callable that it stands in.
LEMMA ReturnFinds ==
  ASSUME NInv, NextIs("return", {"value", "bare"}), Pure, ast[Next1.block].kind \in Callable,
         Unique(Next1.block)
  PROVE  Returning = Next1.block /\ ast[Next1.block].op = "enter" /\ Next1.block # NoDecl
<1>1. phase = "codegen" /\ Next1.op = "return" BY DEF NextIs
<1>2. /\ pos + 1 \in Events /\ pos \in Nat /\ Next1 = ast[pos + 1] /\ Len(ast) \in Nat
      /\ cg = Next1.at /\ open = << >>
  BY <1>1, Upcoming DEF NInv
<1>3. TypeOK /\ Text /\ MadeScopes /\ Nesting /\ Naming BY DEF NInv, IInv, Tree
<1>4. PICK b : b = Next1.block OBVIOUS
<1>5. b # 0 /\ b \in Around(pos + 1) /\ cg = Inside(b)
  <2>1. b # 0 BY <1>1, <1>2, <1>3, <1>4 DEF Nesting, BlocksAround
  <2> QED BY <1>2, <1>3, <1>4, <2>1 DEF Nesting, BlocksAround
<1>6. b \in Events /\ ast[b].op = "enter" BY <1>2, <1>5 DEF Around, Events
<1>7. ast[b].kind \in Callable /\ ast[b].kind \in Scoped BY <1>4 DEF Callable, Scoped
<1>8. Makes(b) /\ cg = ast[b].scope
  BY <1>3, <1>5, <1>6, <1>7 DEF Text, HiddenScopes, Inside
<1>9. PICK n, p : n = ast[b].name /\ p = ast[b].at OBVIOUS
<1>10. /\ scopes[cg].name = n /\ n \in Symbol /\ cg \in Scopes /\ p \in Scopes
       /\ scopes[cg].parent = p
  BY <1>3, <1>6, <1>7, <1>8, <1>9, MadeFields DEF Naming, ScopesApart, Declared
<1>11. scopes[p].decl[n] # NoDecl
  <2>1. \E l \in b + 1 .. Len(ast) : ast[l].op = "leave" /\ ast[l].block = b
    <3>1. Len(open) = 0 BY <1>2
    <3> QED BY <1>3, <1>6, <3>1 DEF Text, LeavesMatch
  <2>2. PICK l \in Events : Ends(l, b) BY <1>2, <1>6, <2>1 DEF Ends, Events
  <2> QED BY <1>3, <1>6, <1>7, <1>9, <2>2 DEF Naming, Declared
<1>12. /\ Len(scopes) \in Nat
       /\ \A t \in 1 .. Len(scopes) : scopes[t].parent \in 0 .. t - 1
  <2>1. IsTree(scopes) /\ Len(scopes) \in Nat BY <1>3, Types
  <2>2. ASSUME NEW t \in 1 .. Len(scopes) PROVE scopes[t].parent \in 0 .. t - 1
    <3>1. scopes[t].parent \in 0 .. Len(scopes) BY <2>1, ScopeFields
    <3>2. scopes[t].parent < t BY <1>3 DEF Naming, ParentsBefore, Scopes
    <3> QED BY <2>1, <3>1, <3>2
  <2> QED BY <2>1, <2>2
<1>13. GetSymbol(scopes, p, n) = p
  BY <1>10, <1>11, <1>12, GetSymbolSteps DEF Scopes
<1>14. PICK h : h = GetSymbol(scopes, cg, n) OBVIOUS
<1>15. h \in Scopes /\ scopes[h].decl[n] # NoDecl
  <2>1. p # None BY <1>10 DEF Scopes, None
  <2>2. h = IF scopes[cg].decl[n] # NoDecl THEN cg
            ELSE IF scopes[cg].parent = None THEN None
                 ELSE GetSymbol(scopes, scopes[cg].parent, n)
    BY <1>10, <1>12, <1>14, GetSymbolSteps DEF Scopes
  <2> QED BY <1>10, <1>11, <1>13, <2>1, <2>2
<1>16. h # None BY <1>15 DEF Scopes, None
<1>17. Returning = scopes[h].decl[n] BY <1>10, <1>14, <1>16 DEF Returning, Decl, Holder
<1>18. /\ Returning \in Events /\ ast[Returning].op \in {"enter", "var", "enum"}
       /\ ast[Returning].name = n
  BY <1>3, <1>10, <1>15, <1>17 DEF Naming, DeclsNamed
<1>19. Returning = b BY <1>4, <1>9, <1>18 DEF Unique
<1> QED BY <1>4, <1>5, <1>6, <1>19 DEF NoDecl

\* No slot is ever recorded in another scope than that of its variable.
THEOREM SlotsInTheirScopes == Spec => []SlotInItsScope
<1>1. NInv => SlotInItsScope BY SlotsInPlace
<1> QED BY <1>1, NamesInvariant, PTL

\* A variable reference that is not masked reads the slot of the declaration that the
\* text of the program gives it, whatever other variables of that name there are.
THEOREM UsesReadTheirVariables == Spec => []UseReadsItsVariable
<1>1. NInv => UseReadsItsVariable BY UseReads DEF UseReadsItsVariable
<1> QED BY <1>1, NamesInvariant, PTL

\* A return in the body of a callable whose name is its own takes its type from it.
THEOREM ReturnsFindTheirCallables == Spec => []ReturnFindsItsCallable
<1>1. NInv => ReturnFindsItsCallable
  <2> SUFFICES ASSUME NInv, NextIs("return", {"value"}), Pure,
                      ast[Next1.block].kind \in Callable, Unique(Next1.block)
               PROVE  Returning = Next1.block
    BY DEF ReturnFindsItsCallable
  <2>1. NextIs("return", {"value", "bare"}) BY DEF NextIs
  <2> QED BY <2>1, ReturnFinds
<1> QED BY <1>1, NamesInvariant, PTL

\* The generator gives up for one of the reasons named, and for no other.
LEMMA FailsForAReason ==
  ASSUME NInv, Next, phase' \in {"lost", "failed"}
  PROVE  FailureExplained'
<1>1. TypeOK /\ Text /\ MadeScopes /\ IInv BY DEF NInv, IInv, Tree
<1> SUFFICES ASSUME Pure'
             PROVE  (\/ In(Body \cup {"class"}) /\ WithoutParts
                     \/ Unclosed
                     \/ Next1.op = "use" /\ Masked(pos + 1)
                     \/ /\ Next1.op = "return"
                        /\ \/ Next1.kind = "bare"
                           \/ ast[Next1.block].kind \notin Callable
                           \/ ~Unique(Next1.block))'
  BY DEF FailureExplained
<1>2. CASE EndProgramLost
  <2>1. Unclosed /\ ast' \in {Append(ast, e) : e \in {Event("leave", ast[Innermost].kind, ast[Innermost].name)}}
        /\ pos' = pos
    BY <1>2 DEF EndProgramLost, Leave
  <2>2. PICK j \in pos + 1 .. Len(ast) : ast[j].op = "else" /\ ast[j].kind = "unclosed"
    BY <2>1 DEF Unclosed
  <2>3. PICK e : ast' = Append(ast, e) BY <2>1
  <2>4. ast \in Seq(EventType) /\ Len(ast) \in Nat /\ pos \in Nat BY <1>1, Types
  <2>5. Len(ast') = Len(ast) + 1 /\ \A i \in 1 .. Len(ast) : ast'[i] = ast[i]
    <3>1. Len(Append(ast, e)) = Len(ast) + 1 /\ \A i \in 1 .. Len(ast) : Append(ast, e)[i] = ast[i]
      BY <2>4
    <3> QED BY <2>3, <3>1
  <2>6. j \in 1 .. Len(ast) /\ j \in pos' + 1 .. Len(ast') BY <2>1, <2>2, <2>4, <2>5
  <2>7. Unclosed' BY <2>2, <2>5, <2>6 DEF Unclosed
  <2> QED BY <2>7
<1>3. CASE VisitLost \/ VisitEndLost \/ VisitUseLost \/ VisitReturnLost
  <2>1. phase = "codegen" /\ Fail
    BY <1>3 DEF VisitLost, VisitEndLost, VisitUseLost, VisitReturnLost, NextIs
  <2>2. scopes' = scopes /\ pos' = pos /\ ast' = ast BY <2>1 DEF Fail, parserVars
  <2>3. Pure BY <2>2 DEF Pure
  <2>4. /\ pos + 1 \in Events /\ pos \in Nat /\ Next1 = ast[pos + 1] /\ cg = Next1.at
    BY <1>1, <2>1, <2>3, Upcoming
  <2>5. Next1' = Next1 BY <2>2 DEF Next1
  <2>6. CASE VisitLost
    <3>1. Next1.op = "enter" /\ Next1.kind \in Scoped /\ NextScope(scopes, cg) = None
      BY <2>6 DEF VisitLost, NextIs
    <3>2. Makes(pos + 1) BY <1>1, <2>4, <3>1 DEF Text, HiddenScopes
    <3>3. NextScope(scopes, cg) = Next1.scope BY <1>1, <2>1, <2>3, <3>2, NextScopeFinds
    <3> QED BY <2>4, <3>1, <3>2, <3>3 DEF Makes
  <2>7. CASE VisitEndLost
    <3>1. Next1.op = "leave" /\ Next1.kind \in Scoped /\ scopes[cg].parent = None
      BY <2>7 DEF VisitEndLost, NextIs
    <3>2. PICK b : b = Next1.block OBVIOUS
    <3>3. /\ b \in 1 .. pos + 1 - 1 /\ ast[b].op = "enter" /\ ast[b].kind \in Scoped
          /\ cg = Inside(b)
      BY <1>1, <2>4, <3>1, <3>2 DEF Text, LeavesMatch
    <3>4. b \in Events BY <2>4, <3>3 DEF Events
    <3>5. Makes(b) /\ cg = ast[b].scope BY <1>1, <3>3, <3>4 DEF Text, HiddenScopes, Inside
    <3>6. scopes[cg].parent \in Scopes BY <1>1, <3>4, <3>5, MadeFields
    <3> QED BY <3>1, <3>6 DEF Scopes, None
  <2>8. CASE VisitUseLost
    <3>1. NextIs("use", {"plain"}) /\ Slot(Next1.name) = NoDecl BY <2>8 DEF VisitUseLost
    <3>2. Masked(pos + 1)
      <4> SUFFICES ASSUME ~Masked(pos + 1) PROVE FALSE OBVIOUS
      <4>1. Slot(Next1.name) \in 1 .. pos BY <2>3, <3>1, UseReads
      <4> QED BY <2>4, <3>1, <4>1 DEF NoDecl
    <3>3. Masked(pos + 1)'
      <4>1. LexicalDecls(pos + 1)' = LexicalDecls(pos + 1)
        BY <2>2 DEF LexicalDecls, VisibleAt, Around
      <4> QED BY <2>2, <3>2, <4>1 DEF Masked, LexicalDecl
    <3> QED BY <2>5, <3>1, <3>3 DEF NextIs
  <2>9. CASE VisitReturnLost
    <3>1. NextIs("return", {"value", "bare"}) /\ (Next1.kind = "bare" \/ ~Returns)
      BY <2>9 DEF VisitReturnLost
    <3>2. \/ Next1.kind = "bare" \/ ast[Next1.block].kind \notin Callable
          \/ ~Unique(Next1.block)
      <4> SUFFICES ASSUME Next1.kind # "bare", ast[Next1.block].kind \in Callable,
                          Unique(Next1.block)
                   PROVE FALSE
        OBVIOUS
      <4>1. Returning = Next1.block /\ ast[Next1.block].op = "enter" /\ Next1.block # NoDecl
        BY <2>3, <3>1, ReturnFinds
      <4> QED BY <3>1, <4>1 DEF Returns
    <3>3. Unique(Next1.block)' <=> Unique(Next1.block) BY <2>2, <2>5 DEF Unique, Events
    <3> QED BY <2>2, <2>5, <3>1, <3>2, <3>3 DEF NextIs
  <2> QED BY <1>3, <2>6, <2>7, <2>8, <2>9
<1>6. CASE BodyLost
  <2>1. In(Body \cup {"class"}) /\ WithoutParts BY <1>6 DEF BodyLost
  <2>2. ast' = ast /\ open' = open BY <1>6, OnlyThePhase
  <2> QED BY <2>1, <2>2 DEF In, Innermost, WithoutParts
<1>4. CASE Parse /\ ~EndProgramLost /\ ~BodyLost
  <2>1. phase' \notin {"lost", "failed"}
    BY <1>4 DEF Parse, ParseProgram, ParseImport, ImportBuiltins, EnterClass, EnterFunction,
       EnterMethod, EnterConstructor, EnterIf, EnterFor, Enter, EnterUnscoped, ParseEnum,
       ParseVar, ParseField, ParseUse, ParseReturn, ParseElse, Read, LeaveNamed,
       LeaveAnonymous, LeaveUnscoped, EndProgram
  <2> QED BY <2>1
<1>5. CASE VisitModule \/ VisitScoped \/ VisitUnscoped \/ VisitEnd \/ EndModule
           \/ VisitVar \/ VisitUse \/ VisitReturn \/ VisitNothing
  <2>1. phase' \notin {"lost", "failed"}
    BY <1>5 DEF VisitModule, VisitScoped, VisitUnscoped, VisitEnd, EndModule, VisitVar,
       VisitUse, VisitReturn, VisitNothing, NextIs, Pass
  <2> QED BY <2>1
<1> QED BY <1>2, <1>3, <1>4, <1>5, <1>6 DEF Next, Generate

\* As far as scopes and symbols go, every program compiles but for the exceptions named:
\* whatever its length and its names.
THEOREM FailuresExplained == Spec => []FailureExplained
<1>1. Init => FailureExplained BY DEF Init, FailureExplained
<1>2. NInv /\ FailureExplained /\ [Next]_vars => FailureExplained'
  <2> SUFFICES ASSUME NInv, FailureExplained, [Next]_vars, phase' \in {"lost", "failed"}
               PROVE  FailureExplained'
    BY DEF FailureExplained
  <2>1. CASE Next BY <2>1, FailsForAReason
  <2>2. CASE UNCHANGED vars
    <3>1. phase' = phase /\ pos' = pos /\ ast' = ast /\ scopes' = scopes /\ open' = open
      BY <2>2 DEF vars
    <3>5. (In(Body \cup {"class"}) /\ WithoutParts)' <=> In(Body \cup {"class"}) /\ WithoutParts
      BY <3>1 DEF In, Innermost, WithoutParts
    <3>2. Next1' = Next1 /\ Events' = Events /\ (Pure' <=> Pure) /\ (Unclosed' <=> Unclosed)
      BY <3>1 DEF Next1, Events, Pure, Unclosed
    <3>3. Masked(pos + 1)' <=> Masked(pos + 1)
      <4>1. LexicalDecls(pos + 1)' = LexicalDecls(pos + 1)
        BY <3>1 DEF LexicalDecls, VisibleAt, Around
      <4> QED BY <3>1, <4>1 DEF Masked, LexicalDecl
    <3>4. Unique(Next1.block)' <=> Unique(Next1.block) BY <3>1, <3>2 DEF Unique
    <3> QED BY <3>1, <3>2, <3>3, <3>4, <3>5 DEF FailureExplained
  <2> QED BY <2>1, <2>2
<1> QED BY <1>1, <1>2, NamesInvariant, PTL DEF Spec

=============================================================================
