----------------------------- MODULE Calls_proofs -----------------------------
(***************************************************************************)
(* The calls of an expression are read and generated as they are written:  *)
(* proof of TypeOK, ReadsAsWritten and RunsOnce of Calls, for expressions  *)
(* of any length.                                                          *)
(*                                                                         *)
(* The first part says of the author what was open and complete behind     *)
(* each token (Story).  The second follows the parser along it.            *)
(***************************************************************************)
EXTENDS Calls, WellFoundedInduction, TLAPS

-----------------------------------------------------------------------------
(***************************************************************************)
(* Numbers and sequences.                                                  *)
(***************************************************************************)

\* A set of numbers has a least.
LEMMA LeastNatural ==
  ASSUME NEW T, T \subseteq Nat, T # {}
  PROVE  \E x \in T : \A y \in T : x <= y
<1> DEFINE R == {ss \in Nat \X Nat : ss[1] < ss[2]}
<1>1. R = OpToRel(<, Nat)
  BY DEF OpToRel
<1>2. IsWellFoundedOn(R, Nat)
  BY NatLessThanWellFounded, <1>1
<1>3. \E x \in T : \A y \in T : <<y, x>> \notin R
  <2> HIDE DEF R
  <2> QED BY <1>2, WFMin
<1>4. PICK x \in T : \A y \in T : <<y, x>> \notin R
  BY <1>3
<1>5. \A y \in T : x <= y
  <2> TAKE y \in T
  <2>1. <<y, x>> \in Nat \X Nat => ~(y < x)
    BY <1>4
  <2>2. QED
    BY <2>1
<1>6. QED
  BY <1>5

\* What holds of 0, and of a number after each it holds of, holds of all numbers.
LEMMA Counting ==
  ASSUME NEW K, 0 \in K, \A d \in Nat : d \in K => d + 1 \in K
  PROVE  \A d \in Nat : d \in K
<1>1. PICK T : T = {d \in Nat : d \notin K} OBVIOUS
<1>2. SUFFICES ASSUME T # {} PROVE FALSE BY <1>1
<1>3. T \subseteq Nat BY <1>1
<1>4. PICK d \in T : \A c \in T : d <= c BY <1>2, <1>3, LeastNatural
<1>5. d \in Nat /\ d # 0 /\ d \notin K BY <1>1, <1>4
<1>6. d - 1 \in Nat /\ d - 1 \in K BY <1>1, <1>4, <1>5
<1> QED BY <1>5, <1>6

\* A sequence without its last element.
LEMMA FrontFacts ==
  ASSUME NEW T, NEW s \in Seq(T), s # << >>
  PROVE  /\ Front(s) \in Seq(T) /\ Len(Front(s)) = Len(s) - 1
         /\ \A i \in 1 .. Len(s) - 1 : Front(s)[i] = s[i]
<1>1. Len(s) \in Nat \ {0}
  OBVIOUS
<1>2. \A i \in 1 .. Len(s) - 1 : s[i] \in T
  BY <1>1
<1>3. Front(s) = [i \in 1 .. Len(s) - 1 |-> s[i]]
  BY <1>1 DEF Front
<1>4. QED
  BY ONLY <1>1, <1>2, <1>3

\* A sequence with one element more.
LEMMA AppendFacts ==
  ASSUME NEW T, NEW s \in Seq(T), NEW e \in T
  PROVE  /\ Append(s, e) \in Seq(T) /\ Len(Append(s, e)) = Len(s) + 1 /\ Len(s) \in Nat
         /\ Append(s, e)[Len(s) + 1] = e /\ Append(s, e) # << >>
         /\ \A i \in 1 .. Len(s) : Append(s, e)[i] = s[i]
OBVIOUS

-----------------------------------------------------------------------------
(***************************************************************************)
(* The author.                                                             *)
(***************************************************************************)

\* What is open and what is complete behind a token, and the places of the calls among
\* what is complete.
CallRecord == [at : Nat, args : Nat]
Behind == [ins : Seq(CallRecord), mea : Seq(CallRecord), gen : Seq(Nat)]
Nothing == [ins |-> << >>, mea |-> << >>, gen |-> << >>]

\* What a token follows.
Placed(x, i) ==
  /\ x[i] \in {"v", "f"} => i = 1 \/ (i > 1 /\ x[i - 1] \in {"(", ","})
  /\ x[i] = "b" => i > 1 /\ x[i - 1] \in {"v", ")"}
  /\ x[i] = "u" => i > 1 /\ x[i - 1] = "v"
  /\ x[i] = "(" => i > 1 /\ x[i - 1] \in Callee
  /\ x[i] = "," => i > 1 /\ x[i - 1] \in {"v", ")"}
  /\ x[i] = ")" => i > 1 /\ x[i - 1] \in {"v", ")", "("}

\* What each token does to what is before it.
ByOperand(x, i, r, s) ==
  x[i] = "v" => s = [r EXCEPT !.mea = Append(r.mea, [at |-> i, args |-> 0])]
ByName(x, i, r, s) == x[i] \in Callee => s = r
ByFirst(x, i, r) ==
  x[i] \in {"v", "f"} /\ i > 1 /\ x[i - 1] = "(" => r.ins # << >> /\ LastOf(r.ins).args = 1
ByOpening(x, i, r, s) ==
  x[i] = "(" =>
    \E a \in {0, 1} : s = [r EXCEPT !.ins = Append(r.ins, [at |-> i - 1, args |-> a])]
ByComma(x, i, r, s) ==
  x[i] = "," =>
    /\ r.ins # << >> /\ x[LastOf(r.ins).at] # "b"
    /\ s = [r EXCEPT !.ins = [r.ins EXCEPT ![Len(r.ins)].args = @ + 1]]
ByClosing(x, i, r, s) ==
  x[i] = ")" =>
    /\ r.ins # << >> /\ (LastOf(r.ins).args = 0 <=> x[i - 1] = "(")
    /\ s.ins = Front(r.ins) /\ s.mea = Append(r.mea, LastOf(r.ins))
    /\ s.gen = Append(r.gen, LastOf(r.ins).at)

StepAt(x, i, r, s) ==
  /\ Placed(x, i) /\ ByOperand(x, i, r, s) /\ ByName(x, i, r, s) /\ ByFirst(x, i, r)
  /\ ByOpening(x, i, r, s) /\ ByComma(x, i, r, s) /\ ByClosing(x, i, r, s)

\* The calls that are open; those of builtin methods have one argument at most.
Sane(x, i, s) ==
  \A k \in 1 .. Len(s.ins) :
    /\ s.ins[k].at \in 1 .. i /\ x[s.ins[k].at] \in Callee
    /\ x[s.ins[k].at] = "b" => s.ins[k].args <= 1

Story(x, h) ==
  /\ x \in Seq(Token)
  /\ h \in [0 .. Len(x) -> Behind] /\ h[0] = Nothing
  /\ \A i \in 1 .. Len(x) : StepAt(x, i, h[i - 1], h[i]) /\ Sane(x, i, h[i])

\* The calls of what is meant are those in g, in their order.
CountsTo(x, m, g, c) ==
  /\ c \in [0 .. Len(m) -> Seq(Nat)] /\ c[0] = << >> /\ c[Len(m)] = g
  /\ \A k \in 1 .. Len(m) :
       c[k] = IF x[m[k].at] = "v" THEN c[k - 1] ELSE Append(c[k - 1], m[k].at)
PlacesIn(x, m) == \A k \in 1 .. Len(m) : m[k].at \in 1 .. Len(x)
Counted(x, r) == PlacesIn(x, r.mea) /\ \E c : CountsTo(x, r.mea, r.gen, c)

Told(x, r) == Counted(x, r) /\ \E h : Story(x, h) /\ h[Len(x)] = r

\* One token more.
LEMMA OneMore ==
  ASSUME NEW x, NEW r, Told(x, r), NEW w \in Token, NEW x1, x1 = Append(x, w), NEW s \in Behind,
         StepAt(x1, Len(x1), r, s), Sane(x1, Len(x1), s), Counted(x1, s)
  PROVE  Told(x1, s)
<1>1. PICK h : Story(x, h) /\ h[Len(x)] = r BY DEF Told
<1>2. PICK n \in Nat, e \in Nat : n = Len(x) /\ e = n + 1 BY <1>1 DEF Story
<1>3. /\ x \in Seq(Token) /\ Len(x1) = e /\ x1 \in Seq(Token) /\ x1[e] = w
      /\ \A i \in 1 .. n : x1[i] = x[i]
      /\ 0 .. e = (0 .. n) \cup {e} /\ e \notin 0 .. n /\ e # 0
      /\ 1 .. e = (1 .. n) \cup {e} /\ 0 \in 0 .. n /\ n \in 0 .. n
      /\ \A i \in 1 .. n : i \in 0 .. n /\ i - 1 \in 0 .. n
      /\ e - 1 = n
  BY <1>1, <1>2 DEF Story
<1>4. PICK g : g = [i \in 0 .. e |-> IF i = e THEN s ELSE h[i]] OBVIOUS
<1>5. /\ g \in [0 .. e -> Behind] /\ g[e] = s /\ \A i \in 0 .. n : g[i] = h[i]
      /\ g[0] = Nothing
  BY <1>1, <1>2, <1>3, <1>4 DEF Story
<1>6. ASSUME NEW i \in 1 .. e PROVE StepAt(x1, i, g[i - 1], g[i]) /\ Sane(x1, i, g[i])
  <2>1. CASE i = e BY <1>1, <1>2, <1>3, <1>5, <2>1
  <2>2. CASE i \in 1 .. n
    <3>1. PICK a, b : a = g[i - 1] /\ b = g[i] OBVIOUS
    <3>2. a = h[i - 1] /\ b = h[i] /\ a \in Behind /\ b \in Behind
      BY <1>1, <1>2, <1>3, <1>5, <2>2, <3>1 DEF Story
    <3>3. StepAt(x, i, a, b) /\ Sane(x, i, b) BY <1>1, <1>2, <2>2, <3>2 DEF Story
    <3>4. x1[i] = x[i] /\ (i > 1 => x1[i - 1] = x[i - 1]) BY <1>3, <2>2
    <3>5. Sane(x1, i, b)
      <4> SUFFICES ASSUME NEW k \in 1 .. Len(b.ins)
                   PROVE  /\ b.ins[k].at \in 1 .. i /\ x1[b.ins[k].at] \in Callee
                          /\ x1[b.ins[k].at] = "b" => b.ins[k].args <= 1
        BY DEF Sane
      <4>1. /\ b.ins[k].at \in 1 .. i /\ x[b.ins[k].at] \in Callee
            /\ x[b.ins[k].at] = "b" => b.ins[k].args <= 1
        BY <3>3 DEF Sane
      <4>2. b.ins[k].at \in 1 .. n BY <1>3, <2>2, <4>1
      <4>3. x1[b.ins[k].at] = x[b.ins[k].at] BY <1>3, <4>2
      <4> QED BY ONLY <4>1, <4>3
    <3>6. ByComma(x1, i, a, b)
      <4> SUFFICES ASSUME x[i] = "," PROVE ByComma(x1, i, a, b) BY <3>4 DEF ByComma
      <4>1. /\ a.ins # << >> /\ x[LastOf(a.ins).at] # "b"
            /\ b = [a EXCEPT !.ins = [a.ins EXCEPT ![Len(a.ins)].args = @ + 1]]
        BY <3>3 DEF StepAt, ByComma
      <4>0. i - 1 \in 0 .. n /\ i \in Nat BY ONLY <2>2, n \in Nat
      <4>2. PICK m \in 0 .. n : m = i - 1 BY <4>0
      <4>13. PICK l : l = a.ins OBVIOUS
      <4>3. a = h[m] BY <3>2, <4>2
      <4>4. m # 0
        <5>1. Nothing.ins = << >> /\ h[0] = Nothing BY <1>1 DEF Story, Nothing
        <5> QED BY <4>1, <4>3, <5>1
      <4>5. m \in 1 .. n /\ m < i
        BY ONLY <4>0, <4>2, <4>4, n \in Nat, m \in 0 .. n
      <4>6. Sane(x, m, a) BY <1>1, <1>2, <4>3, <4>5 DEF Story
      <4>8. l \in Seq(CallRecord) /\ l # << >> BY <3>2, <4>1, <4>13 DEF Behind
      <4>9. Len(l) \in 1 .. Len(l) BY ONLY <4>8
      <4>10. l[Len(l)].at \in 1 .. m BY <4>6, <4>9, <4>13 DEF Sane
      <4>11. l[Len(l)].at \in 1 .. n
        <5>1. PICK k \in 1 .. m : k = l[Len(l)].at BY <4>10
        <5>2. k \in 1 .. n BY ONLY <4>5, k \in 1 .. m, n \in Nat, m \in 0 .. n
        <5> QED BY <5>1, <5>2
      <4>12. a.ins[Len(a.ins)].at \in 1 .. n BY <4>11, <4>13
      <4>7. x1[LastOf(a.ins).at] # "b" BY <1>3, <4>1, <4>12 DEF LastOf
      <4> QED BY <4>1, <4>7 DEF ByComma
    <3>7. StepAt(x1, i, a, b)
      <4>1. Placed(x1, i) BY <3>3, <3>4 DEF StepAt, Placed
      <4>2. ByOperand(x1, i, a, b) /\ ByName(x1, i, a, b) BY <3>3, <3>4 DEF StepAt, ByOperand, ByName
      <4>3. ByFirst(x1, i, a) BY <3>3, <3>4 DEF StepAt, ByFirst
      <4>4. ByOpening(x1, i, a, b) BY <3>3, <3>4 DEF StepAt, ByOpening
      <4>5. ByClosing(x1, i, a, b) BY <3>3, <3>4, <4>1 DEF StepAt, ByClosing, Placed
      <4> QED BY ONLY <3>6, <4>1, <4>2, <4>3, <4>4, <4>5 DEF StepAt
    <3> QED BY <3>1, <3>5, <3>7
  <2> QED BY <1>3, <2>1, <2>2
<1>7. Story(x1, g) BY <1>3, <1>5, <1>6 DEF Story
<1> QED BY <1>3, <1>5, <1>7 DEF Told

\* What is known of all that is told.
LEMMA ToldFacts ==
  ASSUME NEW x, NEW r, Told(x, r)
  PROVE  x \in Seq(Token) /\ r \in Behind /\ Sane(x, Len(x), r) /\ Counted(x, r)
<1>1. PICK h : Story(x, h) /\ h[Len(x)] = r BY DEF Told
<1>2. PICK n \in Nat : n = Len(x) BY <1>1 DEF Story
<1>3. n \in 0 .. n /\ (n # 0 => n \in 1 .. n) OBVIOUS
<1>4. /\ x \in Seq(Token) /\ h \in [0 .. n -> Behind] /\ h[0] = Nothing /\ h[n] = r
      /\ \A i \in 1 .. n : Sane(x, i, h[i])
  BY <1>1, <1>2 DEF Story
<1>5. r \in Behind BY ONLY <1>3, <1>4
<1>6. Sane(x, n, r)
  <2>1. CASE n = 0
    <3>1. r.ins = << >> BY ONLY <1>4, <2>1 DEF Nothing
    <3>2. Len(r.ins) = 0 BY ONLY <3>1
    <3>3. \A k \in 1 .. Len(r.ins) : FALSE BY ONLY <3>2
    <3> QED BY ONLY <3>3 DEF Sane
  <2>2. CASE n # 0 BY ONLY <1>3, <1>4, <2>2
  <2> QED BY <2>1, <2>2
<1> QED BY <1>2, <1>4, <1>5, <1>6 DEF Told

\* A token that completes nothing.
LEMMA CountedStays ==
  ASSUME NEW x \in Seq(Token), NEW r \in Behind, Counted(x, r), NEW w \in Token,
         NEW x1, x1 = Append(x, w), NEW s, s.mea = r.mea, s.gen = r.gen
  PROVE  Counted(x1, s)
<1>1. PICK c : CountsTo(x, r.mea, r.gen, c) BY DEF Counted
<1>2. PICK m : m = r.mea OBVIOUS
<1>3. m \in Seq(CallRecord) /\ Len(m) \in Nat BY <1>2 DEF Behind
<1>4. PICK n \in Nat : n = Len(x) OBVIOUS
<1>5. Len(x1) = n + 1 /\ \A i \in 1 .. n : x1[i] = x[i] BY <1>4
<1>6. \A k \in 1 .. Len(m) : m[k].at \in 1 .. n BY <1>2, <1>4 DEF Counted, PlacesIn
<1>7. \A k \in 1 .. Len(m) : m[k].at \in 1 .. Len(x1) /\ x1[m[k].at] = x[m[k].at]
  BY ONLY <1>5, <1>6, n \in Nat
<1>8. CountsTo(x1, m, r.gen, c) BY ONLY <1>1, <1>2, <1>7 DEF CountsTo
<1> QED BY <1>2, <1>7, <1>8 DEF Counted, PlacesIn

\* A token that completes an operand or a call.
LEMMA CountedMore ==
  ASSUME NEW x \in Seq(Token), NEW r \in Behind, Counted(x, r), NEW w \in Token,
         NEW x1, x1 = Append(x, w), NEW s, NEW e \in CallRecord, s.mea = Append(r.mea, e),
         e.at \in 1 .. Len(x1),
         s.gen = IF x1[e.at] = "v" THEN r.gen ELSE Append(r.gen, e.at)
  PROVE  Counted(x1, s)
<1>1. PICK c : CountsTo(x, r.mea, r.gen, c) BY DEF Counted
<1>2. PICK m, t : m = r.mea /\ t = Append(m, e) OBVIOUS
<1>3. m \in Seq(CallRecord) BY <1>2 DEF Behind
<1>4. PICK n \in Nat, l \in Nat : n = Len(x) /\ l = Len(m) BY <1>3
<1>5. Len(x1) = n + 1 /\ \A i \in 1 .. n : x1[i] = x[i] BY <1>4
<1>6. \A k \in 1 .. l : m[k].at \in 1 .. n BY <1>2, <1>4 DEF Counted, PlacesIn
<1>7. \A k \in 1 .. l : m[k].at \in 1 .. Len(x1) /\ x1[m[k].at] = x[m[k].at]
  BY ONLY <1>5, <1>6, n \in Nat
<1>8. PICK u \in Nat : u = l + 1 OBVIOUS
<1>9. /\ Len(t) = u /\ t[u] = e /\ \A k \in 1 .. l : t[k] = m[k]
  BY ONLY <1>2, <1>3, <1>4, <1>8, e \in CallRecord
<1>10. /\ 0 .. u = (0 .. l) \cup {u} /\ u \notin 0 .. l /\ 1 .. u = (1 .. l) \cup {u} /\ u - 1 = l
       /\ 0 \in 0 .. l /\ l \in 0 .. l /\ \A k \in 1 .. l : k \in 0 .. l /\ k - 1 \in 0 .. l
  BY ONLY <1>8, l \in Nat
<1>11. PICK d : d = [k \in 0 .. u |-> IF k = u THEN s.gen ELSE c[k]] OBVIOUS
<1>12. /\ c \in [0 .. l -> Seq(Nat)] /\ c[0] = << >> /\ c[l] = r.gen
       /\ \A k \in 1 .. l :
            c[k] = IF x[m[k].at] = "v" THEN c[k - 1] ELSE Append(c[k - 1], m[k].at)
  BY <1>1, <1>2, <1>4 DEF CountsTo
<1>13. s.gen \in Seq(Nat)
  <2>1. r.gen \in Seq(Nat) /\ e.at \in Nat BY DEF Behind, CallRecord
  <2>2. Append(r.gen, e.at) \in Seq(Nat) BY <2>1
  <2> QED BY <2>1, <2>2
<1>14. /\ d \in [0 .. u -> Seq(Nat)] /\ d[u] = s.gen /\ \A k \in 0 .. l : d[k] = c[k]
  BY ONLY <1>10, <1>11, <1>12, <1>13
<1>15. ASSUME NEW k \in 1 .. u
       PROVE  /\ t[k].at \in 1 .. Len(x1)
              /\ d[k] = IF x1[t[k].at] = "v" THEN d[k - 1] ELSE Append(d[k - 1], t[k].at)
  <2>1. CASE k = u
    <3>1. d[k - 1] = r.gen /\ t[k] = e /\ d[k] = s.gen BY ONLY <1>9, <1>10, <1>12, <1>14, <2>1
    <3> QED BY <3>1
  <2>2. CASE k \in 1 .. l
    <3>1. d[k] = c[k] /\ d[k - 1] = c[k - 1] /\ t[k] = m[k] BY ONLY <1>9, <1>10, <1>14, <2>2
    <3>2. m[k].at \in 1 .. Len(x1) /\ x1[m[k].at] = x[m[k].at] BY ONLY <1>7, <2>2
    <3> QED BY ONLY <1>12, <2>2, <3>1, <3>2
  <2> QED BY ONLY <1>10, <2>1, <2>2, k \in 1 .. u
<1>16. CountsTo(x1, t, s.gen, d)
  <2>1. d[0] = << >> BY ONLY <1>10, <1>12, <1>14
  <2> QED BY ONLY <1>9, <1>14, <1>15, <2>1 DEF CountsTo
<1>17. PlacesIn(x1, t) BY ONLY <1>9, <1>15 DEF PlacesIn
<1>18. s.mea = t BY <1>2
<1> QED BY ONLY <1>16, <1>17, <1>18 DEF Counted
-----------------------------------------------------------------------------
(***************************************************************************)
(* The tokens one by one.                                                  *)
(***************************************************************************)

\* The tokens differ.
LEMMA Tokens ==
  /\ "v" \notin Callee \cup {"(", ")", ","} /\ "(" \notin Callee \cup {")", ","}
  /\ ")" \notin Callee \cup {","} /\ "," \notin Callee
  /\ Callee = {"f", "b", "u"} /\ Token = {"f", "b", "u", "v", "(", ")", ","}
BY DEF Callee, Token

\* Calls that were open before are still as they should be.
LEMMA SaneStays ==
  ASSUME NEW x \in Seq(Token), NEW r, Sane(x, Len(x), r), NEW w \in Token,
         NEW x1, x1 = Append(x, w), NEW s, s.ins = r.ins
  PROVE  Sane(x1, Len(x1), s)
<1>1. PICK n \in Nat : n = Len(x) OBVIOUS
<1>2. Len(x1) = n + 1 /\ \A i \in 1 .. n : x1[i] = x[i] BY <1>1
<1>3. ASSUME NEW k \in 1 .. Len(s.ins)
      PROVE  /\ s.ins[k].at \in 1 .. Len(x1) /\ x1[s.ins[k].at] \in Callee
             /\ x1[s.ins[k].at] = "b" => s.ins[k].args <= 1
  <2>1. PICK d : d = s.ins[k] OBVIOUS
  <2>2. d.at \in 1 .. n /\ x[d.at] \in Callee /\ (x[d.at] = "b" => d.args <= 1)
    BY <1>1, <2>1 DEF Sane
  <2>3. d.at \in 1 .. Len(x1) /\ x1[d.at] = x[d.at] BY ONLY <1>2, <2>2, n \in Nat
  <2> QED BY ONLY <2>1, <2>2, <2>3
<1> QED BY ONLY <1>3 DEF Sane

\* The parts of what is behind a token.
LEMMA Parts ==
  ASSUME NEW r \in Behind
  PROVE  r.ins \in Seq(CallRecord) /\ r.mea \in Seq(CallRecord) /\ r.gen \in Seq(Nat)
BY DEF Behind

\* One part of it is another.
LEMMA OtherOpen ==
  ASSUME NEW r \in Behind, NEW t \in Seq(CallRecord), NEW s, s = [r EXCEPT !.ins = t]
  PROVE  s \in Behind /\ s.ins = t /\ s.mea = r.mea /\ s.gen = r.gen
BY DEF Behind

LEMMA OtherMeant ==
  ASSUME NEW r \in Behind, NEW t \in Seq(CallRecord), NEW s, s = [r EXCEPT !.mea = t]
  PROVE  s \in Behind /\ s.mea = t /\ s.ins = r.ins /\ s.gen = r.gen
BY DEF Behind

\* An operand comes first, or behind a bracket or a comma.
Awaits(x, r) ==
  \/ x = << >>
  \/ x # << >> /\ x[Len(x)] = ","
  \/ x # << >> /\ x[Len(x)] = "(" /\ r.ins # << >> /\ LastOf(r.ins).args = 1

\* The words of the places, one before the other.
LEMMA LastPlaces ==
  ASSUME NEW x \in Seq(Token), NEW w \in Token, NEW x1, x1 = Append(x, w)
  PROVE  /\ x1 \in Seq(Token) /\ x1[Len(x1)] = w /\ Len(x1) \in 1 .. Len(x1)
         /\ Len(x1) - 1 = Len(x) /\ (Len(x1) > 1 <=> x # << >>) /\ (Len(x1) = 1 <=> x = << >>)
         /\ x # << >> => x1[Len(x1) - 1] = x[Len(x)]
         /\ \A i \in 1 .. Len(x) : i \in 1 .. Len(x1) /\ x1[i] = x[i]
OBVIOUS

\* An operand that is awaited is in its place.
Longer(x, x1, n, m, w) ==
  /\ x1[m] = w /\ m \in Nat /\ n = Len(x)
  /\ (m > 1 <=> x # << >>) /\ (m = 1 <=> x = << >>) /\ (x # << >> => x1[m - 1] = x[n])
LEMMA AwaitsPlaces ==
  ASSUME NEW x, NEW r, Awaits(x, r), NEW n, NEW m, NEW x1, NEW w, w \in {"v", "f"},
         Longer(x, x1, n, m, w)
  PROVE  Placed(x1, m) /\ ByFirst(x1, m, r)
<1>1. PICK d, e : d = x1[m] /\ e = x1[m - 1] OBVIOUS
<1>2. d \notin {"b", "u", "(", ")", ","} BY <1>1 DEF Longer
<1>3. m = 1 \/ (m > 1 /\ e \in {"(", ","}) BY <1>1 DEF Awaits, Longer
<1>4. Placed(x1, m) BY ONLY <1>1, <1>2, <1>3 DEF Placed
<1>5. ASSUME m > 1, e = "(" PROVE r.ins # << >> /\ LastOf(r.ins).args = 1
  <2>1. x # << >> /\ x[n] = "(" /\ n = Len(x) BY <1>1, <1>5 DEF Longer
  <2> QED BY <2>1 DEF Awaits
<1>6. ByFirst(x1, m, r) BY ONLY <1>1, <1>5 DEF ByFirst
<1> QED BY <1>4, <1>6

\* A variable.
LEMMA MoreOperand ==
  ASSUME NEW x, NEW r, Told(x, r), Awaits(x, r), NEW x1, x1 = Append(x, "v"),
         NEW s, s = [r EXCEPT !.mea = Append(r.mea, [at |-> Len(x1), args |-> 0])]
  PROVE  Told(x1, s)
<1>1. x \in Seq(Token) /\ r \in Behind /\ Sane(x, Len(x), r) /\ Counted(x, r) BY ToldFacts
<1>2. "v" \in Token BY Tokens
<1>3. PICK n \in Nat, m \in Nat : n = Len(x) /\ m = Len(x1) BY <1>1, <1>2
<1>4. /\ x1[m] = "v" /\ m \in 1 .. m /\ m - 1 = n /\ (m > 1 <=> x # << >>)
      /\ (m = 1 <=> x = << >>) /\ x # << >> => x1[m - 1] = x[n]
  BY <1>1, <1>2, <1>3, LastPlaces
<1>5. PICK e : e = [at |-> m, args |-> 0] OBVIOUS
<1>6. e \in CallRecord /\ e.at = m BY <1>5 DEF CallRecord
<1>7. s.mea = Append(r.mea, e) /\ s.ins = r.ins /\ s.gen = r.gen /\ s \in Behind
  <2>1. PICK t : t = Append(r.mea, e) OBVIOUS
  <2>2. t \in Seq(CallRecord) BY ONLY <1>1, <1>6, <2>1, Parts, AppendFacts
  <2>3. s = [r EXCEPT !.mea = t] BY <1>3, <1>5, <2>1
  <2> QED BY ONLY <1>1, <2>1, <2>2, <2>3, OtherMeant
<1>8. Counted(x1, s)
  <2>1. e.at \in 1 .. Len(x1) /\ x1[e.at] = "v" BY <1>3, <1>4, <1>6
  <2> QED BY <1>1, <1>2, <1>6, <1>7, <2>1, CountedMore
<1>9. Sane(x1, Len(x1), s) BY <1>1, <1>2, <1>7, SaneStays
<1>10. StepAt(x1, m, r, s)
  <2>1. Placed(x1, m) /\ ByFirst(x1, m, r) 
    <3>1. Longer(x, x1, n, m, "v") BY <1>3, <1>4 DEF Longer
    <3>2. "v" \in {"v", "f"} OBVIOUS
    <3> QED BY ONLY <3>1, <3>2, Awaits(x, r), AwaitsPlaces
  <2>2. ByOperand(x1, m, r, s) BY <1>3 DEF ByOperand
  <2>3. ByName(x1, m, r, s) /\ ByOpening(x1, m, r, s) /\ ByComma(x1, m, r, s)
        /\ ByClosing(x1, m, r, s)
    BY <1>4, Tokens DEF ByName, ByOpening, ByComma, ByClosing
  <2> QED BY <2>1, <2>2, <2>3 DEF StepAt
<1> QED BY <1>2, <1>3, <1>7, <1>8, <1>9, <1>10, OneMore

\* The name of a function where an operand is due, or of a method behind one.
LEMMA MoreName ==
  ASSUME NEW x, NEW r, Told(x, r), NEW w \in Callee, NEW x1, x1 = Append(x, w),
         w = "f" => Awaits(x, r),
         w = "b" => x # << >> /\ x[Len(x)] \in {"v", ")"},
         w = "u" => x # << >> /\ x[Len(x)] = "v"
  PROVE  Told(x1, r)
<1>1. x \in Seq(Token) /\ r \in Behind /\ Sane(x, Len(x), r) /\ Counted(x, r) BY ToldFacts
<1>2. w \in Token BY Tokens
<1>3. PICK n \in Nat, m \in Nat : n = Len(x) /\ m = Len(x1) BY <1>1, <1>2
<1>4. /\ x1[m] = w /\ m \in 1 .. m /\ m - 1 = n /\ (m > 1 <=> x # << >>)
      /\ (m = 1 <=> x = << >>) /\ x # << >> => x1[m - 1] = x[n]
  BY <1>1, <1>2, <1>3, LastPlaces
<1>5. Counted(x1, r) BY <1>1, <1>2, CountedStays
<1>6. Sane(x1, Len(x1), r) BY <1>1, <1>2, SaneStays
<1>7. StepAt(x1, m, r, r)
  <2>1. Placed(x1, m) /\ ByFirst(x1, m, r)
    <3>1. CASE w = "f"
      <4>1. Longer(x, x1, n, m, "f") BY <1>3, <1>4, <3>1 DEF Longer
      <4>2. "f" \in {"v", "f"} /\ Awaits(x, r) BY <3>1
      <4> QED BY ONLY <4>1, <4>2, AwaitsPlaces
    <3>2. CASE w # "f"
      <4>1. w \in {"b", "u"} BY <3>2, Tokens
      <4>2. PICK d, e : d = x1[m] /\ e = x1[m - 1] OBVIOUS
      <4>6. x # << >> BY <4>1
      <4>3. d = w /\ m > 1 /\ e = x[n] BY ONLY <1>4, <4>2, <4>6
      <4>4. (d = "b" => e \in {"v", ")"}) /\ (d = "u" => e = "v") BY <1>3, <4>3
      <4>5. d \notin {"v", "f", "(", ")", ","} BY <4>1, <4>3
      <4> QED BY ONLY <4>2, <4>3, <4>4, <4>5 DEF Placed, ByFirst
    <3> QED BY <3>1, <3>2
  <2>2. ByName(x1, m, r, r) BY DEF ByName
  <2>3. ByOperand(x1, m, r, r) /\ ByOpening(x1, m, r, r) /\ ByComma(x1, m, r, r)
        /\ ByClosing(x1, m, r, r)
    BY <1>4, Tokens DEF ByOperand, ByOpening, ByComma, ByClosing
  <2> QED BY <2>1, <2>2, <2>3 DEF StepAt
<1> QED BY <1>1, <1>2, <1>3, <1>5, <1>6, <1>7, OneMore

\* The bracket behind a name.
LEMMA MoreOpening ==
  ASSUME NEW x, NEW r, Told(x, r), x # << >>, x[Len(x)] \in Callee, NEW a \in {0, 1},
         NEW x1, x1 = Append(x, "("),
         NEW s, s = [r EXCEPT !.ins = Append(r.ins, [at |-> Len(x), args |-> a])]
  PROVE  Told(x1, s)
<1>1. x \in Seq(Token) /\ r \in Behind /\ Sane(x, Len(x), r) /\ Counted(x, r) BY ToldFacts
<1>2. "(" \in Token BY Tokens
<1>3. PICK n \in Nat, m \in Nat : n = Len(x) /\ m = Len(x1) BY <1>1, <1>2
<1>4. /\ x1[m] = "(" /\ m \in 1 .. m /\ m - 1 = n /\ m > 1 /\ x1[m - 1] = x[n] /\ n \in 1 .. n
      /\ x1 \in Seq(Token)
  BY <1>1, <1>2, <1>3, LastPlaces
<1>5. PICK e : e = [at |-> n, args |-> a] OBVIOUS
<1>6. e \in CallRecord /\ e.at = n /\ e.args = a BY <1>5 DEF CallRecord
<1>7. s.mea = r.mea /\ s.ins = Append(r.ins, e) /\ s.gen = r.gen /\ s \in Behind
  <2>1. PICK t : t = Append(r.ins, e) OBVIOUS
  <2>2. t \in Seq(CallRecord) BY ONLY <1>1, <1>6, <2>1, Parts, AppendFacts
  <2>3. s = [r EXCEPT !.ins = t] BY <1>3, <1>5, <2>1
  <2> QED BY ONLY <1>1, <2>1, <2>2, <2>3, OtherOpen
<1>8. Counted(x1, s) BY <1>1, <1>2, <1>7, CountedStays
<1>9. Sane(x1, Len(x1), s)
  <2>1. PICK l \in Nat : l = Len(r.ins)
    <3>1. r.ins \in Seq(CallRecord) BY <1>1, Parts
    <3> QED BY ONLY <3>1
  <2>2. /\ Len(s.ins) = l + 1 /\ s.ins[l + 1] = e /\ \A k \in 1 .. l : s.ins[k] = r.ins[k]
    BY <1>1, <1>6, <1>7, <2>1 DEF Behind
  <2>3. Sane(x1, Len(x1), r) BY <1>1, <1>2, SaneStays
  <2>4. ASSUME NEW k \in 1 .. Len(s.ins)
        PROVE  /\ s.ins[k].at \in 1 .. Len(x1) /\ x1[s.ins[k].at] \in Callee
               /\ x1[s.ins[k].at] = "b" => s.ins[k].args <= 1
    <3>1. CASE k = l + 1
      <4>1. s.ins[k] = e /\ x1[n] \in Callee /\ n \in 1 .. m BY <1>3, <1>4, <2>2, <3>1
      <4>2. a <= 1 OBVIOUS
      <4> QED BY <1>3, <1>6, <4>1, <4>2
    <3>2. CASE k # l + 1
      <4>1. k \in 1 .. l BY ONLY <2>2, <3>2, k \in 1 .. Len(s.ins), l \in Nat
      <4>2. s.ins[k] = r.ins[k] BY <2>2, <4>1
      <4> QED BY ONLY <2>1, <2>3, <4>1, <4>2 DEF Sane
    <3> QED BY <3>1, <3>2
  <2> QED BY ONLY <2>4 DEF Sane
<1>10. StepAt(x1, m, r, s)
  <2>1. Placed(x1, m) /\ ByFirst(x1, m, r) BY <1>3, <1>4, Tokens DEF Placed, ByFirst
  <2>2. ByOpening(x1, m, r, s) BY <1>3, <1>4 DEF ByOpening
  <2>3. ByName(x1, m, r, s) /\ ByOperand(x1, m, r, s) /\ ByComma(x1, m, r, s)
        /\ ByClosing(x1, m, r, s)
    BY <1>4, Tokens DEF ByName, ByOperand, ByComma, ByClosing
  <2> QED BY <2>1, <2>2, <2>3 DEF StepAt
<1> QED BY <1>2, <1>3, <1>7, <1>8, <1>9, <1>10, OneMore

\* A comma behind an argument.
LEMMA MoreComma ==
  ASSUME NEW x, NEW r, Told(x, r), x # << >>, x[Len(x)] \in {"v", ")"}, r.ins # << >>,
         x[LastOf(r.ins).at] # "b", NEW x1, x1 = Append(x, ","),
         NEW s, s = [r EXCEPT !.ins = [r.ins EXCEPT ![Len(r.ins)].args = @ + 1]]
  PROVE  Told(x1, s)
<1>1. x \in Seq(Token) /\ r \in Behind /\ Sane(x, Len(x), r) /\ Counted(x, r) BY ToldFacts
<1>2. "," \in Token BY Tokens
<1>3. PICK n \in Nat, m \in Nat : n = Len(x) /\ m = Len(x1)
  <2>1. x1 \in Seq(Token) BY <1>1, <1>2, LastPlaces
  <2> QED BY ONLY <1>1, <2>1
<1>4. /\ x1[m] = "," /\ m \in 1 .. m /\ m - 1 = n /\ m > 1 /\ x1[m - 1] = x[n] /\ n \in 1 .. n
      /\ x1 \in Seq(Token) /\ \A i \in 1 .. n : i \in 1 .. m /\ x1[i] = x[i]
  <2>5. PICK w \in Token : w = "," BY <1>2
  <2>3. x1 = Append(x, w) BY <2>5
  <2>4. x \in Seq(Token) BY <1>1
  <2>1. /\ x1 \in Seq(Token) /\ x1[Len(x1)] = w /\ Len(x1) \in 1 .. Len(x1)
        /\ Len(x1) - 1 = Len(x) /\ (Len(x1) > 1 <=> x # << >>)
        /\ x # << >> => x1[Len(x1) - 1] = x[Len(x)]
        /\ \A i \in 1 .. Len(x) : i \in 1 .. Len(x1) /\ x1[i] = x[i]
    BY ONLY <2>3, <2>4, LastPlaces, w \in Token
  <2>2. Len(x) \in 1 .. Len(x) BY ONLY <1>1, x # << >>
  <2> QED BY ONLY <1>3, <2>1, <2>2, <2>5, x # << >>
<1>5. PICK t, l : t = r.ins /\ l = Len(t) OBVIOUS
<1>6. t \in Seq(CallRecord) /\ l \in Nat /\ l \in 1 .. l
  <2>1. t \in Seq(CallRecord) /\ t # << >> BY <1>1, <1>5, Parts
  <2> QED BY ONLY <1>5, <2>1
<1>7. PICK u : u = [t EXCEPT ![l].args = @ + 1] OBVIOUS
<1>8. /\ u \in Seq(CallRecord) /\ Len(u) = l /\ u[l] = [t[l] EXCEPT !.args = @ + 1]
      /\ \A k \in 1 .. l : k # l => u[k] = t[k]
  <2>1. t[l] \in CallRecord BY ONLY <1>5, <1>6
  <2>2. [t[l] EXCEPT !.args = @ + 1] \in CallRecord BY ONLY <2>1 DEF CallRecord
  <2> QED BY ONLY <1>5, <1>6, <1>7, <2>2
<1>9. s.mea = r.mea /\ s.ins = u /\ s.gen = r.gen /\ s \in Behind
  BY <1>1, <1>5, <1>7, <1>8 DEF Behind
<1>10. Counted(x1, s) BY <1>1, <1>2, <1>9, CountedStays
<1>11. x[t[l].at] # "b" BY <1>5 DEF LastOf
<1>12. \A k \in 1 .. l : t[k].at \in 1 .. n /\ x[t[k].at] \in Callee
                         /\ (x[t[k].at] = "b" => t[k].args <= 1)
  BY <1>1, <1>3, <1>5 DEF Sane
<1>13. Sane(x1, Len(x1), s)
  <2>1. ASSUME NEW k \in 1 .. l
        PROVE  u[k].at = t[k].at /\ (k # l => u[k].args = t[k].args)
    <3>1. t[l] \in CallRecord BY ONLY <1>5, <1>6
    <3>2. u[l].at = t[l].at BY ONLY <1>8, <3>1 DEF CallRecord
    <3> QED BY ONLY <1>8, <3>2, k \in 1 .. l
  <2>2. ASSUME NEW k \in 1 .. l
        PROVE  /\ u[k].at \in 1 .. m /\ x1[u[k].at] \in Callee
               /\ x1[u[k].at] = "b" => u[k].args <= 1
    <3>1. PICK p : p = t[k].at OBVIOUS
    <3>2. p \in 1 .. n /\ x[p] \in Callee /\ (k = l => x[p] # "b") BY <1>11, <1>12, <3>1
    <3>3. p \in 1 .. m /\ x1[p] = x[p] BY <1>4, <3>2
    <3>4. u[k].at = p BY <2>1, <3>1
    <3>5. CASE k = l BY <3>2, <3>3, <3>4, <3>5
    <3>6. CASE k # l
      <4>1. u[k].args = t[k].args BY <2>1, <3>6
      <4> QED BY <1>12, <3>1, <3>2, <3>3, <3>4, <4>1
    <3> QED BY <3>5, <3>6
  <2> QED BY <1>3, <1>8, <1>9, <2>2 DEF Sane
<1>14. StepAt(x1, m, r, s)
  <2>1. Placed(x1, m) /\ ByFirst(x1, m, r) BY <1>3, <1>4, Tokens DEF Placed, ByFirst
  <2>2. ByComma(x1, m, r, s)
    <3>1. l \in 1 .. l /\ t[l].at \in 1 .. n BY <1>6, <1>12
    <3>2. x1[t[l].at] # "b" BY <1>4, <1>11, <3>1
    <3> QED BY <1>5, <3>2 DEF ByComma, LastOf
  <2>3. ByName(x1, m, r, s) /\ ByOperand(x1, m, r, s) /\ ByOpening(x1, m, r, s)
        /\ ByClosing(x1, m, r, s)
    BY <1>4, Tokens DEF ByName, ByOperand, ByOpening, ByClosing
  <2> QED BY <2>1, <2>2, <2>3 DEF StepAt
<1> QED BY <1>2, <1>3, <1>9, <1>10, <1>13, <1>14, OneMore

\* The bracket that ends a call: one without arguments, right behind the opening one, or
\* one behind the last argument.
LEMMA MoreClosing ==
  ASSUME NEW x, NEW r, Told(x, r), x # << >>, r.ins # << >>,
         x[Len(x)] \in {"v", ")", "("}, LastOf(r.ins).args = 0 <=> x[Len(x)] = "(",
         NEW x1, x1 = Append(x, ")"),
         NEW s, s = [ins |-> Front(r.ins), mea |-> Append(r.mea, LastOf(r.ins)),
                     gen |-> Append(r.gen, LastOf(r.ins).at)]
  PROVE  Told(x1, s)
<1>1. x \in Seq(Token) /\ r \in Behind /\ Sane(x, Len(x), r) /\ Counted(x, r) BY ToldFacts
<1>2. ")" \in Token BY Tokens
<1>3. PICK n \in Nat, m \in Nat : n = Len(x) /\ m = Len(x1) BY <1>1, <1>2
<1>4. /\ x1[m] = ")" /\ m \in 1 .. m /\ m - 1 = n /\ m > 1 /\ x1[m - 1] = x[n] /\ n \in 1 .. n
      /\ x1 \in Seq(Token) /\ \A i \in 1 .. n : i \in 1 .. m /\ x1[i] = x[i]
  BY <1>1, <1>2, <1>3, LastPlaces
<1>5. PICK t, l : t = r.ins /\ l = Len(t) OBVIOUS
<1>6. t \in Seq(CallRecord) /\ l \in Nat /\ l \in 1 .. l /\ t # << >> BY <1>1, <1>5 DEF Behind
<1>7. PICK e : e = t[l] OBVIOUS
<1>8. e \in CallRecord /\ e = LastOf(r.ins) BY <1>5, <1>6, <1>7 DEF LastOf
<1>9. PICK u : u = Front(t) OBVIOUS
<1>10. u \in Seq(CallRecord) /\ Len(u) = l - 1 /\ \A k \in 1 .. l - 1 : u[k] = t[k]
  BY ONLY <1>5, <1>6, <1>9, FrontFacts
<1>11. s.mea = Append(r.mea, e) /\ s.ins = u /\ s.gen = Append(r.gen, e.at)
  BY <1>5, <1>8, <1>9
<1>12. s \in Behind
  <2>1. r.mea \in Seq(CallRecord) /\ r.gen \in Seq(Nat) /\ e.at \in Nat
    BY <1>1, <1>8 DEF Behind, CallRecord
  <2>2. Append(r.mea, e) \in Seq(CallRecord) /\ Append(r.gen, e.at) \in Seq(Nat) BY <1>8, <2>1
  <2> QED BY <1>10, <1>11, <2>2 DEF Behind
<1>13. \A k \in 1 .. l : t[k].at \in 1 .. n /\ x[t[k].at] \in Callee
                         /\ (x[t[k].at] = "b" => t[k].args <= 1)
  BY <1>1, <1>3, <1>5 DEF Sane
<1>14. e.at \in 1 .. m /\ x1[e.at] # "v"
  <2>1. e.at \in 1 .. n /\ x[e.at] \in Callee BY <1>6, <1>7, <1>13
  <2> QED BY <1>4, <2>1, Tokens
<1>15. Counted(x1, s) BY <1>1, <1>2, <1>3, <1>8, <1>11, <1>14, CountedMore
<1>16. Sane(x1, Len(x1), s)
  <2>1. ASSUME NEW k \in 1 .. l - 1
        PROVE  /\ u[k].at \in 1 .. m /\ x1[u[k].at] \in Callee
               /\ x1[u[k].at] = "b" => u[k].args <= 1
    <3>1. u[k] = t[k] /\ k \in 1 .. l BY <1>6, <1>10
    <3>2. PICK p : p = t[k].at OBVIOUS
    <3>3. p \in 1 .. n /\ x[p] \in Callee BY <1>13, <3>1, <3>2
    <3>4. p \in 1 .. m /\ x1[p] = x[p] BY <1>4, <3>3
    <3> QED BY <1>13, <3>1, <3>2, <3>3, <3>4
  <2> QED BY <1>3, <1>10, <1>11, <2>1 DEF Sane
<1>17. StepAt(x1, m, r, s)
  <2>1. Placed(x1, m) /\ ByFirst(x1, m, r) BY <1>3, <1>4, Tokens DEF Placed, ByFirst
  <2>2. ByClosing(x1, m, r, s) BY <1>3, <1>4 DEF ByClosing
  <2>3. ByName(x1, m, r, s) /\ ByOperand(x1, m, r, s) /\ ByOpening(x1, m, r, s)
        /\ ByComma(x1, m, r, s)
    BY <1>4, Tokens DEF ByName, ByOperand, ByOpening, ByComma
  <2> QED BY <2>1, <2>2, <2>3 DEF StepAt
<1> QED BY <1>2, <1>3, <1>12, <1>15, <1>16, <1>17, OneMore

-----------------------------------------------------------------------------
(***************************************************************************)
(* What the author has written is told, in every state.                    *)
(***************************************************************************)

Author(x, ins, mea, m, r) ==
  /\ Told(x, r) /\ r.ins = ins /\ r.mea = mea
  /\ m = "write operand" => Awaits(x, r)
  /\ m # "write operand" => x # << >> /\ x[Len(x)] \in {"v", ")"}
  /\ m \notin {"write operand", "written"} => ins = << >>
  /\ \A k \in 1 .. Len(ins) : ins[k].args # 0
  /\ Len(x) + Len(ins) <= MaxToken

AuthorInv == \E r : Author(text, inside, meant, mode, r)

\* One element behind a sequence.
LEMMA OneBehind ==
  ASSUME NEW T, NEW s \in Seq(T), NEW e \in T
  PROVE  s \o <<e>> = Append(s, e)
OBVIOUS

LEMMA TwoBehind ==
  ASSUME NEW T, NEW s \in Seq(T), NEW e \in T, NEW f \in T
  PROVE  s \o <<e, f>> = Append(Append(s, e), f)
OBVIOUS

LEMMA ThreeBehind ==
  ASSUME NEW T, NEW s \in Seq(T), NEW e \in T, NEW f \in T, NEW g \in T
  PROVE  s \o <<e, f, g>> = Append(Append(Append(s, e), f), g)
<1>1. s \o <<e, f, g>> \in Seq(T) /\ Append(Append(Append(s, e), f), g) \in Seq(T)
  OBVIOUS
<1>2. Len(s \o <<e, f, g>>) = Len(Append(Append(Append(s, e), f), g))
  OBVIOUS
<1>3. ASSUME NEW i \in 1 .. Len(s \o <<e, f, g>>)
      PROVE  (s \o <<e, f, g>>)[i] = Append(Append(Append(s, e), f), g)[i]
  OBVIOUS
<1> QED BY <1>1, <1>2, <1>3

LEMMA FrontAppend ==
  ASSUME NEW T, NEW s \in Seq(T), NEW e \in T
  PROVE  Front(Append(s, e)) = s /\ LastOf(Append(s, e)) = e
<1>1. PICK t : t = Append(s, e) OBVIOUS
<1>2. t \in Seq(T) /\ t # << >> /\ Len(t) = Len(s) + 1 /\ t[Len(t)] = e
      /\ \A i \in 1 .. Len(s) : t[i] = s[i]
  BY <1>1
<1>3. Front(t) \in Seq(T) /\ Len(Front(t)) = Len(t) - 1
      /\ \A i \in 1 .. Len(t) - 1 : Front(t)[i] = t[i]
  BY ONLY <1>2, FrontFacts
<1>4. Front(t) = s BY ONLY <1>2, <1>3, s \in Seq(T)
<1> QED BY <1>1, <1>2, <1>4 DEF LastOf

\* Nothing is told before the author begins.
LEMMA FirstTold == Told(<< >>, Nothing)
<1>1. Nothing \in Behind BY DEF Nothing, Behind
<1>2. PICK h : h = [i \in 0 .. 0 |-> Nothing] OBVIOUS
<1>3. Len(<< >>) = 0 /\ << >> \in Seq(Token) OBVIOUS
<1>4. h \in [0 .. 0 -> Behind] /\ h[0] = Nothing BY <1>1, <1>2
<1>5. \A i \in 1 .. 0 : FALSE OBVIOUS
<1>6. Story(<< >>, h) BY <1>3, <1>4, <1>5 DEF Story
<1>7. Nothing.mea = << >> /\ Nothing.gen = << >> BY DEF Nothing
<1>8. PICK c : c = [i \in 0 .. 0 |-> << >>] OBVIOUS
<1>9. c \in [0 .. 0 -> Seq(Nat)] /\ c[0] = << >> BY <1>8
<1>10. CountsTo(<< >>, << >>, << >>, c) BY ONLY <1>3, <1>5, <1>9 DEF CountsTo
<1>11. Counted(<< >>, Nothing) BY ONLY <1>3, <1>5, <1>7, <1>10 DEF Counted, PlacesIn
<1> QED BY <1>3, <1>4, <1>6, <1>11 DEF Told

\* A variable.
LEMMA VariableWritten ==
  ASSUME NEW x, NEW ins, NEW mea, NEW r, Author(x, ins, mea, "write operand", r),
         Len(x) + Len(ins) + 1 <= MaxToken
  PROVE  \E s : Author(x \o <<"v">>, ins, mea \o << [at |-> Len(x) + 1, args |-> 0] >>, "written", s)
<1>1. x \in Seq(Token) /\ r \in Behind BY ToldFacts DEF Author
<1>2. "v" \in Token BY Tokens
<1>3. PICK w \in Token : w = "v" BY <1>2
<1>4. PICK x1, n : x1 = Append(x, w) /\ n = Len(x) OBVIOUS
<1>5. /\ x1 \in Seq(Token) /\ Len(x1) = n + 1 /\ x1[Len(x1)] = w /\ n \in Nat /\ x1 # << >>
  BY ONLY <1>1, <1>3, <1>4
<1>6. PICK e : e = [at |-> n + 1, args |-> 0] OBVIOUS
<1>7. e \in CallRecord BY ONLY <1>5, <1>6 DEF CallRecord
<1>8. PICK t : t = Append(r.mea, e) OBVIOUS
<1>9. PICK s : s = [r EXCEPT !.mea = t] OBVIOUS
<1>10. t \in Seq(CallRecord) BY <1>1, <1>7, <1>8, Parts, AppendFacts
<1>11. s.mea = t /\ s.ins = r.ins BY ONLY <1>1, <1>9, <1>10, OtherMeant
<1>12. Told(x1, s)
  <2>1. Told(x, r) /\ Awaits(x, r) BY DEF Author
  <2>2. s = [r EXCEPT !.mea = Append(r.mea, [at |-> Len(x1), args |-> 0])]
    BY ONLY <1>5, <1>6, <1>8, <1>9
  <2>3. x1 = Append(x, "v") BY <1>3, <1>4
  <2> QED BY ONLY <2>1, <2>2, <2>3, MoreOperand
<1>13. x \o <<"v">> = x1 BY ONLY <1>1, <1>3, <1>4, OneBehind
<1>14. mea \o << [at |-> Len(x) + 1, args |-> 0] >> = t
  <2>1. r.mea \in Seq(CallRecord) /\ r.mea = mea BY <1>1, Parts DEF Author
  <2> QED BY ONLY <1>4, <1>6, <1>7, <1>8, <2>1, OneBehind
<1>15. /\ r.ins = ins /\ \A k \in 1 .. Len(ins) : ins[k].args # 0
  BY DEF Author
<1>16. Len(ins) \in Nat
  <2>1. ins \in Seq(CallRecord) BY <1>1, <1>15, Parts
  <2> QED BY ONLY <2>1
<1>17. Len(x1) + Len(ins) <= MaxToken
  <2>1. Len(x) + Len(ins) + 1 <= MaxToken OBVIOUS
  <2> QED BY ONLY <1>4, <1>5, <1>16, <2>1, CallsAssumption
<1>18. x1[Len(x1)] \in {"v", ")"} BY <1>3, <1>5
<1>19. Author(x1, ins, t, "written", s)
  BY ONLY <1>5, <1>11, <1>12, <1>15, <1>17, <1>18 DEF Author
<1> QED BY <1>13, <1>14, <1>19

\* A name with its opening bracket.
Names(x, r, w) ==
  /\ w = "f" => Awaits(x, r)
  /\ w = "b" => x # << >> /\ x[Len(x)] \in {"v", ")"}
  /\ w = "u" => x # << >> /\ x[Len(x)] = "v"

Begun(x, r, w, a, y, s) ==
  /\ Told(y, s) /\ y = x \o <<w, "(">> /\ y \in Seq(Token) /\ Len(y) = Len(x) + 2
  /\ y[Len(y)] = "("
  /\ s.ins = Append(r.ins, [at |-> Len(x) + 1, args |-> a]) /\ s.mea = r.mea

LEMMA NameWritten ==
  ASSUME NEW x, NEW r, Told(x, r), NEW w \in Callee, Names(x, r, w), NEW a \in {0, 1}
  PROVE  \E y, s : Begun(x, r, w, a, y, s)
<1>1. x \in Seq(Token) /\ r \in Behind BY ToldFacts
<1>2. "(" \in Token /\ w \in Token BY Tokens
<1>3. PICK x1, n : x1 = Append(x, w) /\ n = Len(x) OBVIOUS
<1>4. x1 \in Seq(Token) /\ Len(x1) = n + 1 /\ x1[Len(x1)] = w /\ n \in Nat /\ x1 # << >>
  BY ONLY <1>1, <1>2, <1>3
<1>5. Told(x1, r)
  <2>1. w = "f" => Awaits(x, r) BY DEF Names
  <2>2. w = "b" => x # << >> /\ x[Len(x)] \in {"v", ")"} BY DEF Names
  <2>3. w = "u" => x # << >> /\ x[Len(x)] = "v" BY DEF Names
  <2> QED BY ONLY <1>3, <2>1, <2>2, <2>3, Told(x, r), w \in Callee, MoreName
<1>6. PICK p \in Token : p = "(" BY <1>2
<1>7. PICK y : y = Append(x1, p) OBVIOUS
<1>8. y \in Seq(Token) /\ Len(y) = Len(x1) + 1 /\ y[Len(y)] = p BY ONLY <1>4, <1>6, <1>7
<1>9. PICK e : e = [at |-> n + 1, args |-> a] OBVIOUS
<1>10. e \in CallRecord BY ONLY <1>4, <1>9, a \in {0, 1} DEF CallRecord
<1>11. PICK t : t = Append(r.ins, e) OBVIOUS
<1>12. PICK s : s = [r EXCEPT !.ins = t] OBVIOUS
<1>13. t \in Seq(CallRecord) BY ONLY <1>1, <1>10, <1>11, Parts, AppendFacts
<1>14. s.mea = r.mea /\ s.ins = t BY ONLY <1>1, <1>12, <1>13, OtherOpen
<1>15. Told(y, s)
  <2>1. x1[Len(x1)] \in Callee BY <1>4
  <2>2. s = [r EXCEPT !.ins = Append(r.ins, [at |-> Len(x1), args |-> a])]
    BY ONLY <1>4, <1>9, <1>11, <1>12
  <2>3. y = Append(x1, "(") BY ONLY <1>6, <1>7
  <2> QED BY ONLY <1>4, <1>5, <2>1, <2>2, <2>3, a \in {0, 1}, MoreOpening
<1>16. y = x \o <<w, "(">> BY ONLY <1>1, <1>2, <1>3, <1>6, <1>7, TwoBehind
<1>17. Len(y) = Len(x) + 2 BY ONLY <1>3, <1>4, <1>8
<1>18. s.ins = Append(r.ins, [at |-> Len(x) + 1, args |-> a]) BY ONLY <1>3, <1>9, <1>11, <1>14
<1>19. y[Len(y)] = "(" BY ONLY <1>6, <1>8
<1> QED BY ONLY <1>8, <1>14, <1>15, <1>16, <1>17, <1>18, <1>19 DEF Begun

\* A call without arguments.
LEMMA EmptyWritten ==
  ASSUME NEW x, NEW ins, NEW mea, NEW m, NEW r, Author(x, ins, mea, m, r),
         NEW w \in Callee, Names(x, r, w), Len(x) + Len(ins) + 3 <= MaxToken
  PROVE  \E s : Author(x \o <<w, "(", ")">>, ins,
                       mea \o << [at |-> Len(x) + 1, args |-> 0] >>, "written", s)
<1>1. Told(x, r) /\ r.ins = ins /\ r.mea = mea /\ \A k \in 1 .. Len(ins) : ins[k].args # 0
  BY DEF Author
<1>2. x \in Seq(Token) /\ r \in Behind BY <1>1, ToldFacts
<1>3. 0 \in {0, 1} OBVIOUS
<1>4. PICK y, q : Begun(x, r, w, 0, y, q)
  BY ONLY <1>1, <1>3, w \in Callee, Names(x, r, w), NameWritten
<1>5. PICK e, n : e = [at |-> n + 1, args |-> 0] /\ n = Len(x) OBVIOUS
<1>6. /\ Told(y, q) /\ y = x \o <<w, "(">> /\ y \in Seq(Token) /\ Len(y) = n + 2
      /\ y[Len(y)] = "(" /\ q.ins = Append(ins, e) /\ q.mea = mea
  BY ONLY <1>1, <1>4, <1>5 DEF Begun
<1>7. n \in Nat /\ ins \in Seq(CallRecord) /\ mea \in Seq(CallRecord)
  BY <1>1, <1>2, <1>5, Parts
<1>8. e \in CallRecord /\ e.args = 0 BY ONLY <1>5, <1>7 DEF CallRecord
<1>9. Front(q.ins) = ins /\ LastOf(q.ins) = e BY ONLY <1>6, <1>7, <1>8, FrontAppend
<1>10. PICK p \in Token : p = ")" BY Tokens
<1>11. PICK z : z = Append(y, p) OBVIOUS
<1>12. z \in Seq(Token) /\ Len(z) = Len(y) + 1 /\ z[Len(z)] = p /\ z # << >>
  <2>1. y \in Seq(Token) BY <1>6
  <2> QED BY ONLY <2>1, <1>11, p \in Token
<1>13. PICK s : s = [ins |-> Front(q.ins), mea |-> Append(q.mea, LastOf(q.ins)),
                     gen |-> Append(q.gen, LastOf(q.ins).at)]
  OBVIOUS
<1>14. Told(z, s)
  <2>1. y # << >> /\ y[Len(y)] \in {"v", ")", "("} BY ONLY <1>6, <1>7
  <2>2. q.ins # << >>
    <3>1. q.ins = Append(ins, e) BY <1>6
    <3>2. Append(ins, e) # << >> BY ONLY <1>7, <1>8, AppendFacts
    <3> QED BY ONLY <3>1, <3>2
  <2>3. LastOf(q.ins).args = 0 <=> y[Len(y)] = "(" BY ONLY <1>6, <1>8, <1>9
  <2>4. z = Append(y, ")") BY ONLY <1>10, <1>11
  <2> QED BY ONLY <1>6, <1>13, <2>1, <2>2, <2>3, <2>4, MoreClosing
<1>15. s.ins = ins /\ s.mea = Append(mea, e) BY ONLY <1>6, <1>9, <1>13
<1>16. z = x \o <<w, "(", ")">>
  <2>1. w \in Token /\ "(" \in Token /\ ")" \in Token BY Tokens
  <2>2. y = Append(Append(x, w), "(") BY ONLY <1>2, <1>6, <2>1, TwoBehind
  <2>3. x \o <<w, "(", ")">> = Append(Append(Append(x, w), "("), ")")
    BY ONLY <1>2, <2>1, ThreeBehind
  <2> QED BY ONLY <1>10, <1>11, <2>2, <2>3
<1>17. mea \o <<e>> = Append(mea, e) BY ONLY <1>7, <1>8, OneBehind
<1>18. Len(z) + Len(ins) <= MaxToken
  <2>1. Len(x) + Len(ins) + 3 <= MaxToken /\ Len(ins) \in Nat BY <1>7
  <2> QED BY ONLY <1>5, <1>6, <1>7, <1>12, <2>1, CallsAssumption
<1>19. z[Len(z)] \in {"v", ")"} BY ONLY <1>10, <1>12
<1>20. Author(z, ins, mea \o <<e>>, "written", s)
  BY ONLY <1>1, <1>12, <1>14, <1>15, <1>17, <1>18, <1>19 DEF Author
<1>21. mea \o <<e>> = mea \o << [at |-> Len(x) + 1, args |-> 0] >> BY ONLY <1>5
<1> QED BY <1>16, <1>20, <1>21

\* A call with arguments begins.
LEMMA OpeningWritten ==
  ASSUME NEW x, NEW ins, NEW mea, NEW m, NEW r, Author(x, ins, mea, m, r),
         NEW w \in Callee, Names(x, r, w), Len(x) + Len(ins) + 4 <= MaxToken
  PROVE  \E s : Author(x \o <<w, "(">>, Append(ins, [at |-> Len(x) + 1, args |-> 1]),
                       mea \o << >>, "write operand", s)
<1>1. Told(x, r) /\ r.ins = ins /\ r.mea = mea /\ \A k \in 1 .. Len(ins) : ins[k].args # 0
  BY DEF Author
<1>2. x \in Seq(Token) /\ r \in Behind BY <1>1, ToldFacts
<1>3. 1 \in {0, 1} OBVIOUS
<1>4. PICK y, q : Begun(x, r, w, 1, y, q)
  BY ONLY <1>1, <1>3, w \in Callee, Names(x, r, w), NameWritten
<1>5. PICK e, n : e = [at |-> n + 1, args |-> 1] /\ n = Len(x) OBVIOUS
<1>6. /\ Told(y, q) /\ y = x \o <<w, "(">> /\ y \in Seq(Token) /\ Len(y) = n + 2
      /\ y[Len(y)] = "(" /\ q.ins = Append(ins, e) /\ q.mea = mea
  BY ONLY <1>1, <1>4, <1>5 DEF Begun
<1>7. n \in Nat /\ ins \in Seq(CallRecord) /\ mea \in Seq(CallRecord)
  BY <1>1, <1>2, <1>5, Parts
<1>8. e \in CallRecord /\ e.args = 1 BY ONLY <1>5, <1>7 DEF CallRecord
<1>9. PICK t : t = Append(ins, e) OBVIOUS
<1>10. /\ t \in Seq(CallRecord) /\ Len(t) = Len(ins) + 1 /\ LastOf(t) = e /\ t # << >>
       /\ \A k \in 1 .. Len(ins) : t[k] = ins[k]
       /\ t[Len(t)] = e /\ Len(ins) \in Nat
  BY ONLY <1>7, <1>8, <1>9 DEF LastOf
<1>11. \A k \in 1 .. Len(t) : t[k].args # 0
  <2> TAKE k \in 1 .. Len(t)
  <2>1. CASE k = Len(t) BY ONLY <1>8, <1>10, <2>1
  <2>2. CASE k # Len(t)
    <3>1. k \in 1 .. Len(ins) BY ONLY <1>10, <2>2, k \in 1 .. Len(t)
    <3> QED BY ONLY <1>1, <1>10, <3>1
  <2> QED BY <2>1, <2>2
<1>12. Awaits(y, q)
  <2>1. y # << >> BY ONLY <1>6, <1>7
  <2>2. q.ins # << >> /\ LastOf(q.ins).args = 1 BY ONLY <1>6, <1>8, <1>9, <1>10
  <2> QED BY ONLY <1>6, <2>1, <2>2 DEF Awaits
<1>13. mea \o << >> = mea BY ONLY <1>7
<1>14. Len(y) + Len(t) <= MaxToken
  <2>1. Len(x) + Len(ins) + 4 <= MaxToken OBVIOUS
  <2> QED BY ONLY <1>5, <1>6, <1>7, <1>10, <2>1, CallsAssumption
<1>15. q.ins = t /\ q.mea = mea BY ONLY <1>6, <1>9
<1>16. Author(y, t, mea \o << >>, "write operand", q)
  BY ONLY <1>6, <1>11, <1>12, <1>13, <1>14, <1>15 DEF Author
<1> QED BY <1>5, <1>6, <1>9, <1>16

\* A comma.
LEMMA CommaWritten ==
  ASSUME NEW x, NEW ins, NEW mea, NEW r, Author(x, ins, mea, "written", r),
         ins # << >>, x[LastOf(ins).at] # "b", Len(x) + Len(ins) + 2 <= MaxToken
  PROVE  \E s : Author(x \o <<",">>, [ins EXCEPT ![Len(ins)].args = @ + 1],
                       mea \o << >>, "write operand", s)
<1>1. /\ Told(x, r) /\ r.ins = ins /\ r.mea = mea /\ \A k \in 1 .. Len(ins) : ins[k].args # 0
      /\ x # << >> /\ x[Len(x)] \in {"v", ")"}
  BY DEF Author
<1>2. x \in Seq(Token) /\ r \in Behind BY <1>1, ToldFacts
<1>3. ins \in Seq(CallRecord) /\ mea \in Seq(CallRecord) /\ ins # << >> BY <1>1, <1>2, Parts
<1>4. PICK l \in Nat : l = Len(ins) BY <1>3
<1>5. PICK t : t = [ins EXCEPT ![l].args = @ + 1] OBVIOUS
<1>6. l \in 1 .. l BY ONLY <1>3, <1>4
<1>7. ins[l] \in CallRecord BY ONLY <1>3, <1>4, <1>6
<1>8. [ins[l] EXCEPT !.args = @ + 1] \in CallRecord /\ [ins[l] EXCEPT !.args = @ + 1].args # 0
  BY ONLY <1>7 DEF CallRecord
<1>9. /\ t \in Seq(CallRecord) /\ Len(t) = l /\ t[l] = [ins[l] EXCEPT !.args = @ + 1]
      /\ \A k \in 1 .. l : k # l => t[k] = ins[k]
  BY ONLY <1>3, <1>4, <1>5, <1>6, <1>8
<1>10. \A k \in 1 .. Len(t) : t[k].args # 0 BY ONLY <1>1, <1>4, <1>8, <1>9
<1>11. PICK p \in Token : p = "," BY Tokens
<1>12. PICK y : y = Append(x, p) OBVIOUS
<1>13. y \in Seq(Token) /\ Len(y) = Len(x) + 1 /\ y[Len(y)] = p /\ y # << >> /\ Len(x) \in Nat
  BY ONLY <1>2, <1>12, p \in Token
<1>14. PICK s : s = [r EXCEPT !.ins = t] OBVIOUS
<1>15. s.ins = t /\ s.mea = mea BY ONLY <1>1, <1>2, <1>9, <1>14, OtherOpen
<1>16. Told(y, s)
  <2>1. s = [r EXCEPT !.ins = [r.ins EXCEPT ![Len(r.ins)].args = @ + 1]]
    BY ONLY <1>1, <1>4, <1>5, <1>14
  <2>2. y = Append(x, ",") BY ONLY <1>11, <1>12
  <2>3. r.ins # << >> /\ x[LastOf(r.ins).at] # "b" BY <1>1
  <2> QED BY ONLY <1>1, <2>1, <2>2, <2>3, MoreComma
<1>17. Awaits(y, s) BY ONLY <1>11, <1>13 DEF Awaits
<1>18. Len(y) + Len(t) <= MaxToken
  <2>1. Len(x) + Len(ins) + 2 <= MaxToken OBVIOUS
  <2> QED BY ONLY <1>4, <1>9, <1>13, <2>1, CallsAssumption
<1>19. x \o <<",">> = y BY ONLY <1>2, <1>11, <1>12, OneBehind
<1>20. mea \o << >> = mea BY ONLY <1>3
<1>21. Author(y, t, mea \o << >>, "write operand", s)
  BY ONLY <1>10, <1>15, <1>16, <1>17, <1>18, <1>20 DEF Author
<1> QED BY <1>4, <1>5, <1>19, <1>21

\* The bracket behind the last argument.
LEMMA CloseWritten ==
  ASSUME NEW x, NEW ins, NEW mea, NEW r, Author(x, ins, mea, "written", r), ins # << >>
  PROVE  \E s : Author(x \o <<")">>, Front(ins), mea \o <<LastOf(ins)>>, "written", s)
<1>1. /\ Told(x, r) /\ r.ins = ins /\ r.mea = mea /\ \A k \in 1 .. Len(ins) : ins[k].args # 0
      /\ x # << >> /\ x[Len(x)] \in {"v", ")"} /\ Len(x) + Len(ins) <= MaxToken
  BY DEF Author
<1>2. x \in Seq(Token) /\ r \in Behind BY <1>1, ToldFacts
<1>3. ins \in Seq(CallRecord) /\ mea \in Seq(CallRecord) /\ ins # << >> BY <1>1, <1>2, Parts
<1>4. PICK l \in Nat : l = Len(ins) BY <1>3
<1>5. PICK t : t = Front(ins) OBVIOUS
<1>6. t \in Seq(CallRecord) /\ Len(t) = l - 1 /\ \A k \in 1 .. l - 1 : t[k] = ins[k]
  BY ONLY <1>3, <1>4, <1>5, FrontFacts
<1>7. l \in 1 .. l BY ONLY <1>3, <1>4
<1>8. PICK e : e = LastOf(ins) OBVIOUS
<1>9. e \in CallRecord /\ e.args # 0 BY ONLY <1>1, <1>3, <1>4, <1>7, <1>8 DEF LastOf
<1>10. \A k \in 1 .. Len(t) : t[k].args # 0
  <2> TAKE k \in 1 .. Len(t)
  <2>1. k \in 1 .. l - 1 /\ k \in 1 .. l BY ONLY <1>6, l \in Nat, k \in 1 .. Len(t)
  <2> QED BY ONLY <1>1, <1>4, <1>6, <2>1
<1>11. PICK p \in Token : p = ")" BY Tokens
<1>12. PICK y : y = Append(x, p) OBVIOUS
<1>13. y \in Seq(Token) /\ Len(y) = Len(x) + 1 /\ y[Len(y)] = p /\ y # << >> /\ Len(x) \in Nat
  BY ONLY <1>2, <1>11, <1>12
<1>14. PICK s : s = [ins |-> Front(r.ins), mea |-> Append(r.mea, LastOf(r.ins)),
                     gen |-> Append(r.gen, LastOf(r.ins).at)]
  OBVIOUS
<1>15. s.ins = t /\ s.mea = Append(mea, e) BY ONLY <1>1, <1>5, <1>8, <1>14
<1>16. Told(y, s)
  <2>1. y = Append(x, ")") BY ONLY <1>11, <1>12
  <2>2. r.ins # << >> BY <1>1
  <2>3. x[Len(x)] \in {"v", ")", "("} BY ONLY <1>1
  <2>4. LastOf(r.ins).args = 0 <=> x[Len(x)] = "(" BY ONLY <1>1, <1>8, <1>9
  <2> QED BY ONLY <1>1, <1>14, <2>1, <2>2, <2>3, <2>4, MoreClosing
<1>17. Len(y) + Len(t) <= MaxToken BY ONLY <1>1, <1>4, <1>6, <1>13, CallsAssumption
<1>18. x \o <<")">> = y BY ONLY <1>2, <1>11, <1>12, OneBehind
<1>19. mea \o <<e>> = Append(mea, e) BY ONLY <1>3, <1>9, OneBehind
<1>20. y[Len(y)] \in {"v", ")"} BY ONLY <1>11, <1>13
<1>21. Author(y, t, mea \o <<e>>, "written", s)
  BY ONLY <1>10, <1>13, <1>15, <1>16, <1>17, <1>19, <1>20 DEF Author
<1> QED BY <1>5, <1>8, <1>18, <1>21

Writing == {"write operand", "written"}

LEMMA AuthorReads ==
  ASSUME NEW x, NEW ins, NEW mea, NEW m, NEW r, Author(x, ins, mea, m, r), m # "write operand",
         ins = << >>, NEW m1, m1 # "write operand"
  PROVE  Author(x, ins, mea, m1, r)
BY DEF Author

\* The author leaves the parser as it is.
LEMMA AuthorKeeps ==
  ASSUME WriteVariable \/ WriteCall \/ WriteMethod \/ WriteComma \/ WriteClose
  PROVE  mode \in Writing /\ mode' \in Writing /\ UNCHANGED parserVars
<1>1. CASE WriteVariable BY <1>1 DEF WriteVariable, Writes, Writing
<1>2. CASE WriteCall
  <2>1. PICK empty \in BOOLEAN : Opens("f", empty) BY <1>2 DEF WriteCall
  <2>2. mode = "write operand" BY <1>2 DEF WriteCall
  <2> QED BY <2>1, <2>2 DEF Opens, Writes, Writing
<1>3. CASE WriteMethod
  <2>1. PICK empty \in BOOLEAN : Opens("b", empty) \/ Opens("u", empty)
    BY <1>3 DEF WriteMethod
  <2>2. mode = "written" BY <1>3 DEF WriteMethod
  <2> QED BY <2>1, <2>2 DEF Opens, Writes, Writing
<1>4. CASE WriteComma BY <1>4 DEF WriteComma, Writes, Writing
<1>5. CASE WriteClose BY <1>5 DEF WriteClose, Writes, Writing
<1> QED BY <1>1, <1>2, <1>3, <1>4, <1>5

\* The parser leaves what is written as it is.
LEMMA ParserKeeps ==
  ASSUME Parse
  PROVE  mode \notin Writing /\ mode' \notin Writing /\ UNCHANGED <<text, inside, meant>>
<1>1. CASE ReadOperand BY <1>1 DEF ReadOperand, Writing
<1>2. CASE ParseCallExpression BY <1>2 DEF ParseCallExpression, ReadName, Writing
<1>3. CASE ParsePrimary BY <1>3 DEF ParsePrimary, ReadName, Writing
<1>4. CASE ParseMemberAccess BY <1>4 DEF ParseMemberAccess, ReadName, Writing
<1>5. CASE NoArguments
  <2>1. mode = "arguments" /\ mode' \in {"expression", "member"}
        /\ UNCHANGED <<text, inside, meant>>
    BY <1>5 DEF NoArguments, Returns
  <2> QED BY ONLY <2>1 DEF Writing
<1>6. CASE FirstArgument BY <1>6 DEF FirstArgument, Writing
<1>7. CASE NextArgument
  <2>1. mode = "expression" /\ mode' = "operand" /\ UNCHANGED <<text, inside, meant>>
    BY <1>7 DEF NextArgument
  <2> QED BY ONLY <2>1 DEF Writing
<1>8. CASE LastArgument
  <2>1. mode = "expression" /\ mode' \in {"expression", "member"}
        /\ UNCHANGED <<text, inside, meant>>
    BY <1>8 DEF LastArgument, Returns
  <2> QED BY ONLY <2>1 DEF Writing
<1>9. CASE EndOfExpression
  <2>1. mode \in {"primary", "member"} /\ mode' = "expression" /\ UNCHANGED <<text, inside, meant>>
    BY <1>9 DEF EndOfExpression
  <2> QED BY ONLY <2>1 DEF Writing
<1>10. CASE EndOfStatement BY <1>10 DEF EndOfStatement, Writing
<1> QED BY <1>1, <1>2, <1>3, <1>4, <1>5, <1>6, <1>7, <1>8, <1>9, <1>10 DEF Parse

\* A call is written with arguments or without.
LEMMA CallWritten ==
  ASSUME NEW r, Author(text, inside, meant, mode, r), NEW w \in Callee, Names(text, r, w),
         NEW empty \in BOOLEAN, Opens(w, empty)
  PROVE  \E s : Author(text', inside', meant', mode', s)
<1>0. PICK x, ins, mea, m : x = text /\ ins = inside /\ mea = meant /\ m = mode OBVIOUS
<1>1. Author(x, ins, mea, m, r) /\ Names(x, r, w) BY <1>0
<1>2. CASE empty
  <2>1. Len(x) + Len(ins) + 3 <= MaxToken BY <1>0, <1>2 DEF Opens, Fits
  <2>2. \E s : Author(x \o <<w, "(", ")">>, ins, mea \o << [at |-> Len(x) + 1, args |-> 0] >>,
                      "written", s)
    BY ONLY <1>1, <2>1, w \in Callee, EmptyWritten
  <2>3. /\ text' = x \o <<w, "(", ")">> /\ inside' = ins /\ mode' = "written"
        /\ meant' = mea \o << [at |-> Len(x) + 1, args |-> 0] >>
    BY <1>0, <1>2 DEF Opens, Writes
  <2> QED BY <2>2, <2>3
<1>3. CASE ~empty
  <2>1. Len(x) + Len(ins) + 4 <= MaxToken BY <1>0, <1>3 DEF Opens, Fits
  <2>2. \E s : Author(x \o <<w, "(">>, Append(ins, [at |-> Len(x) + 1, args |-> 1]),
                      mea \o << >>, "write operand", s)
    BY ONLY <1>1, <2>1, w \in Callee, OpeningWritten
  <2>3. /\ text' = x \o <<w, "(">> /\ inside' = Append(ins, [at |-> Len(x) + 1, args |-> 1])
        /\ mode' = "write operand" /\ meant' = mea \o << >>
    BY <1>0, <1>3 DEF Opens, Writes
  <2> QED BY <2>2, <2>3
<1> QED BY <1>2, <1>3

LEMMA AuthorStep ==
  ASSUME AuthorInv, [Next]_vars
  PROVE  AuthorInv'
<1>0. PICK r : Author(text, inside, meant, mode, r) BY DEF AuthorInv
<1>1. SUFFICES \E s : Author(text', inside', meant', mode', s) BY DEF AuthorInv
<1>2. CASE UNCHANGED vars BY <1>0, <1>2 DEF vars
<1>3. CASE Parse
  <2>1. mode \notin Writing /\ mode' \notin Writing /\ UNCHANGED <<text, inside, meant>>
    BY <1>3, ParserKeeps
  <2>2. inside = << >> /\ mode # "write operand" /\ mode' # "write operand"
    BY <1>0, <2>1 DEF Author, Writing
  <2>3. PICK m : m = mode' OBVIOUS
  <2>4. Author(text, inside, meant, m, r) BY <1>0, <2>2, <2>3, AuthorReads
  <2> QED BY <2>1, <2>3, <2>4
<1>4. CASE WriteVariable
  <2>1. /\ mode = "write operand" /\ Len(text) + Len(inside) + 1 <= MaxToken
        /\ text' = text \o <<"v">> /\ inside' = inside
        /\ meant' = meant \o << [at |-> Len(text) + 1, args |-> 0] >> /\ mode' = "written"
    BY <1>4 DEF WriteVariable, Fits, Writes
  <2>2. Author(text, inside, meant, "write operand", r) BY <1>0, <2>1
  <2>3. \E s : Author(text \o <<"v">>, inside, meant \o << [at |-> Len(text) + 1, args |-> 0] >>,
                      "written", s)
    BY ONLY <2>1, <2>2, VariableWritten
  <2> QED BY ONLY <2>1, <2>3
<1>5. CASE WriteCall
  <2>1. PICK empty \in BOOLEAN : Opens("f", empty) BY <1>5 DEF WriteCall
  <2>2. PICK w \in Callee : w = "f" BY Tokens
  <2>3. Awaits(text, r) BY <1>0, <1>5 DEF WriteCall, Author
  <2>4. Names(text, r, w) BY ONLY <2>2, <2>3 DEF Names
  <2>5. Opens(w, empty) BY <2>1, <2>2
  <2> QED BY ONLY <1>0, <2>4, <2>5, w \in Callee, empty \in BOOLEAN, CallWritten
<1>6. CASE WriteMethod
  <2>1. mode = "written" BY <1>6 DEF WriteMethod
  <2>2. text # << >> /\ text[Len(text)] \in {"v", ")"} BY <1>0, <2>1 DEF Author
  <2>3. PICK empty \in BOOLEAN, w \in Callee : Opens(w, empty) /\ w \in {"b", "u"}
                                              /\ (w = "u" => text[Len(text)] = "v")
    <3>1. PICK empty \in BOOLEAN :
            Opens("b", empty) \/ (LastOf(text) = "v" /\ Opens("u", empty))
      BY <1>6 DEF WriteMethod
    <3>2. CASE Opens("b", empty)
      <4>1. "b" \in Callee /\ "b" \in {"b", "u"} /\ "b" # "u" BY Tokens
      <4> QED BY <3>2, <4>1
    <3>3. CASE LastOf(text) = "v" /\ Opens("u", empty)
      <4>1. "u" \in Callee /\ "u" \in {"b", "u"} /\ text[Len(text)] = "v"
        BY <3>3, Tokens DEF LastOf
      <4> QED BY <3>3, <4>1
    <3> QED BY <3>1, <3>2, <3>3
  <2>4. Names(text, r, w) BY <2>2, <2>3 DEF Names
  <2> QED BY ONLY <1>0, <2>3, <2>4, w \in Callee, empty \in BOOLEAN, CallWritten
<1>7. CASE WriteComma
  <2>1. /\ mode = "written" /\ inside # << >> /\ text[LastOf(inside).at] # "b"
        /\ Len(text) + Len(inside) + 2 <= MaxToken
        /\ text' = text \o <<",">> /\ inside' = [inside EXCEPT ![Len(inside)].args = @ + 1]
        /\ meant' = meant \o << >> /\ mode' = "write operand"
    BY <1>7 DEF WriteComma, Fits, Writes
  <2>2. Author(text, inside, meant, "written", r) BY <1>0, <2>1
  <2>3. \E s : Author(text \o <<",">>, [inside EXCEPT ![Len(inside)].args = @ + 1],
                      meant \o << >>, "write operand", s)
    BY ONLY <2>1, <2>2, CommaWritten
  <2> QED BY ONLY <2>1, <2>3
<1>8. CASE WriteClose
  <2>1. /\ mode = "written" /\ inside # << >>
        /\ text' = text \o <<")">> /\ inside' = Front(inside)
        /\ meant' = meant \o <<LastOf(inside)>> /\ mode' = "written"
    BY <1>8 DEF WriteClose, Writes
  <2>2. Author(text, inside, meant, "written", r) BY <1>0, <2>1
  <2>3. \E s : Author(text \o <<")">>, Front(inside), meant \o <<LastOf(inside)>>, "written", s)
    BY ONLY <2>1, <2>2, CloseWritten
  <2> QED BY ONLY <2>1, <2>3
<1>9. CASE Finish
  <2>1. mode = "written" /\ inside = << >> /\ mode' = "operand" /\ UNCHANGED <<text, inside, meant>>
    BY <1>9 DEF Finish
  <2>2. Author(text, inside, meant, "operand", r) BY <1>0, <2>1, AuthorReads
  <2> QED BY <2>1, <2>2
<1> QED BY <1>2, <1>3, <1>4, <1>5, <1>6, <1>7, <1>8, <1>9 DEF Next, Write

LEMMA AuthorInit == Init => AuthorInv
<1> SUFFICES ASSUME Init PROVE Author(text, inside, meant, mode, Nothing)
  BY DEF AuthorInv
<1>1. text = << >> /\ inside = << >> /\ meant = << >> /\ mode = "write operand" BY DEF Init
<1>2. Told(<< >>, Nothing) BY FirstTold
<1>3. Awaits(<< >>, Nothing) BY DEF Awaits
<1>4. Len(<< >>) = 0 /\ \A k \in 1 .. 0 : FALSE OBVIOUS
<1>5. Nothing.ins = << >> /\ Nothing.mea = << >> BY DEF Nothing
<1>6. Len(<< >>) + Len(<< >>) <= MaxToken BY CallsAssumption
<1> QED BY ONLY <1>1, <1>2, <1>3, <1>4, <1>5, <1>6 DEF Author

-----------------------------------------------------------------------------
(***************************************************************************)
(* FlattenSeq: one sequence behind the other.                              *)
(***************************************************************************)

FlatAt(s, f, i) == IF i = 1 THEN s[i] ELSE f[i - 1] \o s[i]
Flats(s, f) == f = [i \in 1 .. Len(s) |-> FlatAt(s, f, i)]

LEMMA FlatThere ==
  ASSUME NEW s, Len(s) \in Nat
  PROVE  \E f : Flats(s, f)
<1>1. PICK n \in Nat : n = Len(s) OBVIOUS
<1>2. PICK K : K = {d \in Nat : \E f : \A i \in 1 .. n : i <= d => f[i] = FlatAt(s, f, i)} OBVIOUS
<1>3. 0 \in K
  <2>1. \A i \in 1 .. n : ~(i <= 0) OBVIOUS
  <2>2. PICK f : f = 0 OBVIOUS
  <2>3. \A i \in 1 .. n : i <= 0 => f[i] = FlatAt(s, f, i) BY ONLY <2>1
  <2> QED BY ONLY <1>2, <2>3
<1>4. ASSUME NEW d \in Nat, d \in K PROVE d + 1 \in K
  <2>1. PICK f : \A i \in 1 .. n : i <= d => f[i] = FlatAt(s, f, i) BY ONLY <1>2, <1>4
  <2>2. PICK g : g = [i \in 1 .. n |-> IF i <= d THEN f[i] ELSE FlatAt(s, f, i)] OBVIOUS
  <2>3. \A i \in 1 .. n : i <= d => g[i] = f[i] BY ONLY <2>2
  <2>4. ASSUME NEW i \in 1 .. n, i <= d + 1 PROVE g[i] = FlatAt(s, g, i)
    <3>1. i # 1 => i - 1 \in 1 .. n /\ i - 1 <= d
      BY ONLY <2>4, n \in Nat, d \in Nat, i \in 1 .. n
    <3>2. i # 1 => g[i - 1] = f[i - 1] BY ONLY <2>3, <3>1
    <3>3. FlatAt(s, g, i) = FlatAt(s, f, i) BY ONLY <3>2 DEF FlatAt
    <3>4. CASE i <= d BY ONLY <2>1, <2>3, <3>3, <3>4, i \in 1 .. n
    <3>5. CASE ~(i <= d) BY ONLY <2>2, <3>3, <3>5, i \in 1 .. n
    <3> QED BY <3>4, <3>5
  <2>5. d + 1 \in Nat OBVIOUS
  <2> QED BY ONLY <1>2, <2>4, <2>5
<1>5. \A d \in Nat : d \in K BY ONLY <1>3, <1>4, Counting
<1>6. PICK f : \A i \in 1 .. n : i <= n => f[i] = FlatAt(s, f, i) BY ONLY <1>2, <1>5, n \in Nat
<1>7. PICK g : g = [i \in 1 .. n |-> f[i]] OBVIOUS
<1>8. ASSUME NEW i \in 1 .. n PROVE g[i] = FlatAt(s, g, i)
  <2>1. i <= n OBVIOUS
  <2>2. i # 1 => i - 1 \in 1 .. n OBVIOUS
  <2>3. i # 1 => g[i - 1] = f[i - 1] BY ONLY <1>7, <2>2
  <2>4. FlatAt(s, g, i) = FlatAt(s, f, i) BY ONLY <2>3 DEF FlatAt
  <2> QED BY ONLY <1>6, <1>7, <2>1, <2>4, i \in 1 .. n
<1>9. g = [i \in 1 .. n |-> FlatAt(s, g, i)] BY ONLY <1>7, <1>8
<1> QED BY ONLY <1>1, <1>9 DEF Flats

Alike(s, t, n) == \A i \in 1 .. n : s[i] = t[i]

LEMMA FlatSame ==
  ASSUME NEW s, NEW t, NEW f, NEW g, Flats(s, f), Flats(t, g), NEW n \in Nat, n = Len(s),
         Len(t) \in Nat, n <= Len(t), Alike(s, t, n)
  PROVE  Alike(f, g, n)
<1>0. (\A i \in 1 .. n : s[i] = t[i]) /\ Alike(s, t, n) BY DEF Alike
<1>1. PICK T : T = {i \in 1 .. n : f[i] # g[i]} OBVIOUS
<1>2. SUFFICES ASSUME NEW i \in 1 .. n, f[i] # g[i] PROVE FALSE BY DEF Alike
<1>3. T \subseteq Nat /\ T # {} BY ONLY <1>1, <1>2, i \in 1 .. n
<1>4. PICK k \in T : \A m \in T : k <= m BY ONLY <1>3, LeastNatural
<1>5. k \in 1 .. n /\ k \in 1 .. Len(t) /\ f[k] # g[k] BY <1>1, <1>4
<1>6. f[k] = FlatAt(s, f, k) /\ g[k] = FlatAt(t, g, k) BY <1>5 DEF Flats
<1>7. s[k] = t[k] BY <1>0, <1>5
<1>8. CASE k = 1 BY ONLY <1>5, <1>6, <1>7, <1>8 DEF FlatAt
<1>9. CASE k # 1
  <2>1. k - 1 \in 1 .. n /\ ~(k <= k - 1) BY ONLY <1>5, <1>9, n \in Nat
  <2>2. k - 1 \notin T BY ONLY <1>4, <2>1
  <2>3. f[k - 1] = g[k - 1] BY ONLY <1>1, <2>1, <2>2
  <2> QED BY ONLY <1>5, <1>6, <1>7, <1>9, <2>3 DEF FlatAt
<1> QED BY <1>8, <1>9

LEMMA FlatTyped ==
  ASSUME NEW T, NEW s \in Seq(Seq(T)), NEW f, Flats(s, f)
  PROVE  \A i \in 1 .. Len(s) : f[i] \in Seq(T)
<1>1. PICK n \in Nat : n = Len(s) OBVIOUS
<1>2. PICK B : B = {i \in 1 .. n : f[i] \notin Seq(T)} OBVIOUS
<1>3. SUFFICES ASSUME NEW i \in 1 .. n, f[i] \notin Seq(T) PROVE FALSE BY <1>1
<1>4. B \subseteq Nat /\ B # {} BY ONLY <1>2, <1>3, i \in 1 .. n
<1>5. PICK k \in B : \A m \in B : k <= m BY ONLY <1>4, LeastNatural
<1>6. k \in 1 .. n /\ f[k] \notin Seq(T) BY <1>2, <1>5
<1>7. f[k] = FlatAt(s, f, k) BY <1>1, <1>6 DEF Flats
<1>8. s[k] \in Seq(T) BY ONLY <1>1, <1>6, s \in Seq(Seq(T))
<1>9. CASE k = 1 BY ONLY <1>6, <1>7, <1>8, <1>9 DEF FlatAt
<1>10. CASE k # 1
  <2>1. k - 1 \in 1 .. n /\ ~(k <= k - 1) BY ONLY <1>6, <1>10, n \in Nat
  <2>2. k - 1 \notin B BY ONLY <1>5, <2>1
  <2>3. f[k - 1] \in Seq(T) BY ONLY <1>2, <2>1, <2>2
  <2>4. f[k - 1] \o s[k] \in Seq(T) BY ONLY <1>8, <2>3
  <2> QED BY ONLY <1>6, <1>7, <1>10, <2>4 DEF FlatAt
<1> QED BY <1>9, <1>10

LEMMA FlatIs ==
  ASSUME NEW s, Len(s) \in Nat, Len(s) # 0
  PROVE  \E f : Flats(s, f) /\ FlattenSeq(s) = f[Len(s)]
<1>1. PICK g : g = CHOOSE f : f = [i \in 1 .. Len(s) |-> FlatAt(s, f, i)] OBVIOUS
<1>2. FlattenSeq(s) = g[Len(s)] BY <1>1 DEF FlattenSeq, FlatAt
<1>3. \E f : f = [i \in 1 .. Len(s) |-> FlatAt(s, f, i)] BY FlatThere DEF Flats
<1>4. g = [i \in 1 .. Len(s) |-> FlatAt(s, g, i)] BY ONLY <1>1, <1>3
<1> QED BY ONLY <1>2, <1>4 DEF Flats

LEMMA FlattenNone == FlattenSeq(<< >>) = << >>
BY DEF FlattenSeq

LEMMA FlattenTyped ==
  ASSUME NEW T, NEW s \in Seq(Seq(T))
  PROVE  FlattenSeq(s) \in Seq(T)
<1>1. CASE s = << >>
  <2>1. << >> \in Seq(T) OBVIOUS
  <2> QED BY ONLY <1>1, <2>1, FlattenNone
<1>2. CASE s # << >>
  <2>1. Len(s) \in Nat /\ Len(s) # 0 /\ Len(s) \in 1 .. Len(s) BY ONLY <1>2, s \in Seq(Seq(T))
  <2>2. PICK f : Flats(s, f) /\ FlattenSeq(s) = f[Len(s)] BY ONLY <2>1, FlatIs
  <2>3. \A i \in 1 .. Len(s) : f[i] \in Seq(T) BY ONLY <2>2, s \in Seq(Seq(T)), FlatTyped
  <2> QED BY ONLY <2>1, <2>2, <2>3
<1> QED BY <1>1, <1>2

LEMMA FlattenMore ==
  ASSUME NEW T, NEW s \in Seq(Seq(T)), NEW e \in Seq(T)
  PROVE  FlattenSeq(Append(s, e)) = FlattenSeq(s) \o e
<1>1. PICK t, n : t = Append(s, e) /\ n = Len(s) OBVIOUS
<1>2. /\ n \in Nat /\ Len(t) = n + 1 /\ t[n + 1] = e /\ \A i \in 1 .. n : t[i] = s[i]
  BY <1>1
<1>3. Len(t) \in Nat /\ Len(t) # 0 /\ n <= Len(t) /\ n + 1 \in 1 .. Len(t) BY ONLY <1>2
<1>4. PICK g : Flats(t, g) /\ FlattenSeq(t) = g[Len(t)] BY ONLY <1>3, FlatIs
<1>5. g[n + 1] = FlatAt(t, g, n + 1) BY ONLY <1>3, <1>4 DEF Flats
<1>6. CASE n = 0
  <2>1. s = << >>
    <3>1. Len(s) = 0 BY <1>1, <1>6
    <3> QED BY ONLY <3>1, s \in Seq(Seq(T))
  <2>2. << >> \o e = e OBVIOUS
  <2>3. g[1] = e BY ONLY <1>2, <1>5, <1>6 DEF FlatAt
  <2> QED BY ONLY <1>1, <1>2, <1>4, <1>6, <2>1, <2>2, <2>3, FlattenNone
<1>7. CASE n # 0
  <2>1. Len(s) \in Nat /\ Len(s) # 0 /\ n \in 1 .. n BY ONLY <1>1, <1>2, <1>7
  <2>2. PICK f : Flats(s, f) /\ FlattenSeq(s) = f[n] BY ONLY <1>1, <2>1, FlatIs
  <2>3. Alike(f, g, n)
    <3>1. Alike(s, t, n) BY <1>2 DEF Alike
    <3>2. n = Len(s) BY <1>1
    <3>3. Flats(s, f) /\ Flats(t, g) BY <1>4, <2>2
    <3>4. n \in Nat /\ Len(t) \in Nat /\ n <= Len(t) BY <1>2, <1>3
    <3> QED BY ONLY <3>1, <3>2, <3>3, <3>4, FlatSame
  <2>4. n + 1 # 1 /\ n + 1 - 1 = n BY ONLY <1>2, <1>7
  <2>6. PICK m \in Nat : m = n + 1 /\ m # 1 /\ m - 1 = n
    <3>1. n \in Nat /\ n # 0 BY <1>2, <1>7
    <3> QED BY ONLY <3>1
  <2>7. g[m] = g[m - 1] \o t[m] BY ONLY <1>5, <2>6 DEF FlatAt
  <2>5. g[n + 1] = g[n] \o t[n + 1] BY ONLY <2>6, <2>7
  <2>8. f[n] = g[n] BY ONLY <2>1, <2>3 DEF Alike
  <2> QED BY ONLY <1>1, <1>2, <1>4, <2>2, <2>5, <2>8
<1> QED BY <1>6, <1>7

-----------------------------------------------------------------------------
(***************************************************************************)
(* What follows a token, and the types of the parser.                      *)
(***************************************************************************)

FollowsAt(x, i) ==
  /\ x[i] \in Callee => i < Len(x) /\ x[i + 1] = "("
  /\ x[i] = "(" => i < Len(x) /\ x[i + 1] \in {"v", "f", ")"}
  /\ x[i] = "," => i < Len(x) /\ x[i + 1] \in {"v", "f"}
  /\ x[i] \in {"v", ")"} /\ i < Len(x) =>
       x[i + 1] \in {"b", "u", ",", ")"} /\ (x[i + 1] = "u" => x[i] = "v")

Follows(x) ==
  /\ x \in Seq(Token) /\ x # << >> /\ x[Len(x)] \in {"v", ")"} /\ x[1] \in {"v", "f"}
  /\ \A i \in 1 .. Len(x) : FollowsAt(x, i)

LEMMA StoryFollows ==
  ASSUME NEW x, NEW h, Story(x, h), x # << >>, x[Len(x)] \in {"v", ")"}
  PROVE  Follows(x)
<1>1. PICK n \in Nat : n = Len(x) BY DEF Story
<1>2. x \in Seq(Token) /\ n >= 1 BY <1>1 DEF Story
<1>3. \A i \in 1 .. n : Placed(x, i) /\ x[i] \in Token BY <1>1, <1>2 DEF Story, StepAt
<1>4. x[1] \in {"v", "f"}
  <2>1. 1 \in 1 .. n BY <1>2
  <2>2. Placed(x, 1) /\ x[1] \in Token BY <1>3, <2>1
  <2>3. PICK d \in Token : d = x[1] BY <2>2
  <2>4. ~(1 > 1) OBVIOUS
  <2>5. d \notin {"b", "u", "(", ",", ")"} BY ONLY <2>2, <2>3, <2>4, Tokens DEF Placed
  <2> QED BY ONLY <2>3, <2>5, d \in Token, Tokens
<1>5. ASSUME NEW i \in 1 .. n PROVE FollowsAt(x, i)
  <2>1. x[i] \in Token BY <1>3
  <2>2. i = n => x[i] \in {"v", ")"} BY <1>1
  <2>3. CASE i = n
    <3>2. ~(i < Len(x)) BY <1>1, <2>3
    <3>3. x[i] \in {"v", ")"} BY <2>2, <2>3
    <3>1. ~(i < Len(x)) /\ x[i] \notin Callee /\ x[i] # "(" /\ x[i] # ","
      BY ONLY <3>2, <3>3, Tokens
    <3> QED BY ONLY <3>1 DEF FollowsAt
  <2>4. CASE i # n
    <3>1. i + 1 \in 1 .. n /\ i < Len(x) /\ i + 1 > 1 /\ i + 1 # 1 /\ i + 1 - 1 = i
      BY <1>1, <2>4
    <3>6. PICK k : k = i + 1 /\ k > 1 /\ k # 1 /\ k - 1 = i BY <3>1
    <3>2. PICK d, e : d = x[i] /\ e = x[k] OBVIOUS
    <3>3. Placed(x, k) /\ e \in Token /\ d \in Token BY <1>3, <3>1, <3>2, <3>6
    <3>4. /\ e \in {"v", "f"} => d \in {"(", ","}
          /\ e = "b" => d \in {"v", ")"}
          /\ e = "u" => d = "v"
          /\ e = "(" => d \in Callee
          /\ e = "," => d \in {"v", ")"}
          /\ e = ")" => d \in {"v", ")", "("}
      BY ONLY <3>2, <3>3, <3>6 DEF Placed
    <3>5. /\ d \in Callee => e = "("
          /\ d = "(" => e \in {"v", "f", ")"}
          /\ d = "," => e \in {"v", "f"}
          /\ d \in {"v", ")"} => e \in {"b", "u", ",", ")"} /\ (e = "u" => d = "v")
      BY ONLY <3>3, <3>4, Tokens
    <3> QED BY ONLY <3>1, <3>2, <3>5, <3>6 DEF FollowsAt
  <2> QED BY <2>3, <2>4
<1> QED BY <1>1, <1>2, <1>4, <1>5 DEF Follows

LEMMA AuthorFollows ==
  ASSUME NEW x, NEW ins, NEW mea, NEW m, NEW r, Author(x, ins, mea, m, r), m # "write operand"
  PROVE  Follows(x)
<1>1. x # << >> /\ x[Len(x)] \in {"v", ")"} /\ Told(x, r) BY DEF Author
<1>2. PICK h : Story(x, h) BY <1>1 DEF Told
<1> QED BY ONLY <1>1, <1>2, StoryFollows

Modes == {"write operand", "written", "operand", "primary", "arguments", "member",
          "expression", "end"}
Hows == {"call", "method", "link"}
FrameOf(P) == [at : P, how : Hows, left : Seq(Seq(P)), args : Seq(Seq(P))]
CallOf(P) == [at : P, args : Nat]

ModeFacts(x, m, i, fs, v) ==
  /\ m = "operand" => i <= Len(x) /\ x[i] \in {"v", "f"}
  /\ m = "arguments" => fs # << >> /\ 1 < i /\ i <= Len(x) /\ x[i - 1] = "("
  /\ m = "primary" => v = << << >> >>
  /\ m = "member" => v # << >>
  /\ m = "expression" => Len(v) = 1

HasLeft(f) == f.how # "call" => f.left # << >>
HaveLeft(fs) == \A k \in 1 .. Len(fs) : HasLeft(fs[k])

Shaped(P, fs, v, rd) == fs \in Seq(FrameOf(P)) /\ v \in Seq(Seq(P)) /\ rd \in Seq(CallOf(P))

Parsed(x, m, i, fs, v, rd) ==
  /\ m \in Modes /\ i \in 1 .. Len(x) + 1
  /\ Shaped(1 .. Len(x), fs, v, rd) /\ ModeFacts(x, m, i, fs, v) /\ HaveLeft(fs)
  /\ m \in Writing => i = 1 /\ fs = << >> /\ v = << >> /\ rd = << >>

ParserInv == Parsed(text, mode, at, frames, value, read)

\* The call on top of the others, and without it.
LEMMA FramesMore ==
  ASSUME NEW P, NEW fs \in Seq(FrameOf(P)), HaveLeft(fs), NEW f \in FrameOf(P), HasLeft(f)
  PROVE  Append(fs, f) \in Seq(FrameOf(P)) /\ HaveLeft(Append(fs, f)) /\ Append(fs, f) # << >>
<1>1. PICK t, n : t = Append(fs, f) /\ n = Len(fs) OBVIOUS
<1>2. /\ t \in Seq(FrameOf(P)) /\ Len(t) = n + 1 /\ n \in Nat /\ t[n + 1] = f /\ t # << >>
      /\ \A i \in 1 .. n : t[i] = fs[i]
  BY ONLY <1>1, fs \in Seq(FrameOf(P)), f \in FrameOf(P), AppendFacts
<1>3. ASSUME NEW k \in 1 .. Len(t) PROVE HasLeft(t[k])
  <2>1. CASE k = n + 1 BY ONLY <1>2, <2>1, HasLeft(f)
  <2>2. CASE k # n + 1
    <3>1. k \in 1 .. n BY ONLY <1>2, <2>2, k \in 1 .. Len(t)
    <3>2. HasLeft(fs[k]) BY <1>1, <3>1 DEF HaveLeft
    <3> QED BY ONLY <1>2, <3>1, <3>2
  <2> QED BY <2>1, <2>2
<1> QED BY ONLY <1>1, <1>2, <1>3 DEF HaveLeft

LEMMA FramesLess ==
  ASSUME NEW P, NEW fs \in Seq(FrameOf(P)), HaveLeft(fs), fs # << >>
  PROVE  /\ Front(fs) \in Seq(FrameOf(P)) /\ HaveLeft(Front(fs))
         /\ LastOf(fs) \in FrameOf(P) /\ HasLeft(LastOf(fs))
<1>1. PICK t, n : t = Front(fs) /\ n = Len(fs) OBVIOUS
<1>2. n \in Nat /\ n \in 1 .. n BY ONLY <1>1, fs \in Seq(FrameOf(P)), fs # << >>
<1>3. t \in Seq(FrameOf(P)) /\ Len(t) = n - 1 /\ \A i \in 1 .. n - 1 : t[i] = fs[i]
  BY ONLY <1>1, fs \in Seq(FrameOf(P)), fs # << >>, FrontFacts
<1>4. ASSUME NEW k \in 1 .. Len(t) PROVE HasLeft(t[k])
  <2>1. k \in 1 .. n - 1 /\ k \in 1 .. n BY ONLY <1>2, <1>3, k \in 1 .. Len(t)
  <2>2. HasLeft(fs[k]) BY <1>1, <2>1 DEF HaveLeft
  <2> QED BY ONLY <1>3, <2>1, <2>2
<1>5. LastOf(fs) = fs[n] BY <1>1 DEF LastOf
<1>6. fs[n] \in FrameOf(P) BY ONLY <1>1, <1>2, fs \in Seq(FrameOf(P))
<1>7. HasLeft(fs[n]) BY <1>1, <1>2 DEF HaveLeft
<1> QED BY ONLY <1>1, <1>3, <1>4, <1>5, <1>6, <1>7 DEF HaveLeft

\* An argument more.
LEMMA ArgumentMore ==
  ASSUME NEW P, NEW f \in FrameOf(P), NEW e \in Seq(P), NEW g, g = [f EXCEPT !.args = Append(@, e)]
  PROVE  /\ g \in FrameOf(P) /\ g.at = f.at /\ g.how = f.how /\ g.left = f.left
         /\ g.args = Append(f.args, e) /\ (HasLeft(f) => HasLeft(g))
<1>1. PICK t : t = Append(f.args, e) OBVIOUS
<1>2. f.args \in Seq(Seq(P)) BY DEF FrameOf
<1>3. t \in Seq(Seq(P)) BY ONLY <1>1, <1>2, e \in Seq(P)
<1>4. g = [f EXCEPT !.args = t] BY <1>1
<1>5. /\ g \in FrameOf(P) /\ g.at = f.at /\ g.how = f.how /\ g.left = f.left /\ g.args = t
  BY ONLY <1>3, <1>4, f \in FrameOf(P) DEF FrameOf
<1> QED BY ONLY <1>1, <1>5 DEF HasLeft

LEMMA FramesArgument ==
  ASSUME NEW P, NEW fs \in Seq(FrameOf(P)), HaveLeft(fs), fs # << >>, NEW e \in Seq(P),
         NEW gs, gs = [fs EXCEPT ![Len(fs)] = [fs[Len(fs)] EXCEPT !.args = Append(@, e)]]
  PROVE  gs \in Seq(FrameOf(P)) /\ HaveLeft(gs)
<1>1. PICK n : n = Len(fs) OBVIOUS
<1>2. n \in Nat /\ n \in 1 .. n BY ONLY <1>1, fs \in Seq(FrameOf(P)), fs # << >>
<1>3. fs[n] \in FrameOf(P) BY ONLY <1>1, <1>2, fs \in Seq(FrameOf(P))
<1>4. PICK g : g = [fs[n] EXCEPT !.args = Append(@, e)] OBVIOUS
<1>5. HasLeft(fs[n]) BY <1>1, <1>2 DEF HaveLeft
<1>6. g \in FrameOf(P) /\ HasLeft(g)
  <2>1. PICK f \in FrameOf(P) : f = fs[n] BY <1>3
  <2>2. g = [f EXCEPT !.args = Append(@, e)] BY <1>4, <2>1
  <2> QED BY ONLY <1>5, <2>1, <2>2, f \in FrameOf(P), e \in Seq(P), ArgumentMore
<1>7. gs = [fs EXCEPT ![n] = g] BY <1>1, <1>4
<1>8. /\ gs \in Seq(FrameOf(P)) /\ Len(gs) = n /\ gs[n] = g
      /\ \A k \in 1 .. n : k # n => gs[k] = fs[k]
  BY ONLY <1>1, <1>2, <1>6, <1>7, fs \in Seq(FrameOf(P))
<1>9. ASSUME NEW k \in 1 .. n PROVE HasLeft(gs[k])
  <2>1. CASE k = n BY ONLY <1>6, <1>8, <2>1
  <2>2. CASE k # n
    <3>1. HasLeft(fs[k]) BY <1>1 DEF HaveLeft
    <3> QED BY ONLY <1>8, <2>2, <3>1, k \in 1 .. n
  <2> QED BY <2>1, <2>2
<1> QED BY ONLY <1>8, <1>9 DEF HaveLeft

\* What the calls of a frame are generated as.
LeftOf(f) == IF f.left = << >> THEN << >> ELSE LastOf(f.left)
Runs(f) ==
  IF f.how = "call" THEN FunctionRuns(f.at, f.args) ELSE MethodRuns(f.at, LeftOf(f), f.args)

LEMMA RunsTyped ==
  ASSUME NEW P, NEW f \in FrameOf(P)
  PROVE  Runs(f) \in Seq(P)
<1>1. f.at \in P /\ f.left \in Seq(Seq(P)) /\ f.args \in Seq(Seq(P)) BY DEF FrameOf
<1>2. FlattenSeq(f.args) \in Seq(P) BY ONLY <1>1, FlattenTyped
<1>3. <<f.at>> \in Seq(P) BY ONLY <1>1
<1>4. FunctionRuns(f.at, f.args) \in Seq(P) BY ONLY <1>2, <1>3 DEF FunctionRuns
<1>5. << >> \in Seq(P) OBVIOUS
<1>6. LeftOf(f) \in Seq(P)
  <2>1. CASE f.left = << >> BY ONLY <1>5, <2>1 DEF LeftOf
  <2>2. CASE f.left # << >>
    <3>1. PICK s \in Seq(Seq(P)) : s = f.left BY <1>1
    <3>2. s[Len(s)] \in Seq(P) BY ONLY <2>2, <3>1, s \in Seq(Seq(P))
    <3> QED BY ONLY <2>2, <3>1, <3>2 DEF LeftOf, LastOf
  <2> QED BY <2>1, <2>2
<1>7. PICK l \in Seq(P), c \in Seq(P) : l = LeftOf(f) /\ c = <<f.at>> BY <1>3, <1>6
<1>8. PICK a : a = IF f.args = << >> THEN << >> ELSE f.args[1] OBVIOUS
<1>9. a \in Seq(P)
  <2>1. CASE f.args = << >> BY ONLY <1>5, <1>8, <2>1
  <2>2. CASE f.args # << >>
    <3>1. PICK s \in Seq(Seq(P)) : s = f.args BY <1>1
    <3>2. s[1] \in Seq(P) BY ONLY <2>2, <3>1, s \in Seq(Seq(P))
    <3> QED BY ONLY <1>8, <2>2, <3>1, <3>2
  <2> QED BY <2>1, <2>2
<1>10. l \o a \o c \in Seq(P) BY ONLY <1>9, l \in Seq(P), c \in Seq(P)
<1>11. MethodRuns(f.at, LeftOf(f), f.args) \in Seq(P)
  <2>1. CASE text[f.at] = "u" BY <1>4, <2>1 DEF MethodRuns
  <2>2. CASE text[f.at] # "u" BY ONLY <1>7, <1>8, <1>10, <2>2 DEF MethodRuns
  <2> QED BY <2>1, <2>2
<1> QED BY ONLY <1>4, <1>11 DEF Runs

LEMMA ChainTyped ==
  ASSUME NEW P, NEW v \in Seq(Seq(P))
  PROVE  ChainRuns(v) \in Seq(P)
<1>1. CASE Len(v) = 2
  <2>1. v[2] \in Seq(P) BY <1>1
  <2> QED BY ONLY <1>1, <2>1 DEF ChainRuns
<1>2. CASE Len(v) # 2
  <2>1. FlattenSeq(v) \in Seq(P) BY FlattenTyped
  <2> QED BY ONLY <1>2, <2>1 DEF ChainRuns
<1> QED BY <1>1, <1>2

LEMMA ReturnsAre ==
  ASSUME NEW f, Returns(f)
  PROVE  /\ at' = PastCall(f, at) /\ frames' = Front(frames)
         /\ value' = IF f.how = "link" THEN Append(f.left, Runs(f)) ELSE <<Runs(f)>>
         /\ read' = Append(read, [at |-> f.at, args |-> Len(f.args)])
         /\ mode' = (IF f.how = "call" THEN "expression" ELSE "member")
         /\ UNCHANGED <<text, inside, meant>>
BY DEF Returns, Runs, LeftOf

LEMMA PastFacts ==
  ASSUME NEW n \in Nat, n = Len(text), NEW i \in 1 .. n + 1
  PROVE  /\ Past(i) \in 1 .. n + 1 /\ Past(i) \in {i, i + 1}
         /\ (Past(i) = i + 1 <=> i <= n /\ text[i] = ")")
<1>1. Peek(i) = ")" <=> i <= n /\ text[i] = ")"
  <2>1. "end" # ")" OBVIOUS
  <2>2. CASE i <= n
    <3>1. i \in 1 .. Len(text) BY <2>2
    <3> QED BY ONLY <2>2, <3>1 DEF Peek
  <2>3. CASE ~(i <= n)
    <3>1. i \notin 1 .. Len(text) BY <2>3
    <3> QED BY ONLY <2>1, <2>3, <3>1 DEF Peek
  <2> QED BY <2>2, <2>3
<1>2. i + 1 # i /\ (i <= n => i + 1 \in 1 .. n + 1) OBVIOUS
<1> QED BY ONLY <1>1, <1>2, i \in 1 .. n + 1 DEF Past

LEMMA PastCallFacts ==
  ASSUME NEW n \in Nat, n = Len(text), NEW i \in 1 .. n + 1, NEW f
  PROVE  PastCall(f, i) \in 1 .. n + 1
<1>1. Past(i) \in 1 .. n + 1 BY PastFacts
<1>2. \A k \in 1 .. n + 1 : Past(k) \in 1 .. n + 1 BY PastFacts
<1>3. PICK b : b = IF f.args = << >> \/ f.how # "call" THEN Past(i) ELSE i OBVIOUS
<1>4. b \in 1 .. n + 1 BY <1>1, <1>3
<1>5. PastCall(f, i) = IF f.how = "method" THEN b ELSE Past(b) BY ONLY <1>3 DEF PastCall
<1> QED BY ONLY <1>2, <1>4, <1>5

\* What the parser sees.
LEMMA PeekIs ==
  ASSUME NEW n \in Nat, n = Len(text), NEW i \in 1 .. n + 1
  PROVE  Peek(i) = IF i <= n THEN text[i] ELSE "end"
<1>1. CASE i <= n
  <2>1. i \in 1 .. Len(text) BY <1>1
  <2> QED BY ONLY <1>1, <2>1 DEF Peek
<1>2. CASE ~(i <= n)
  <2>1. i \notin 1 .. Len(text) BY <1>2
  <2> QED BY ONLY <1>2, <2>1 DEF Peek
<1> QED BY <1>1, <1>2

\* A name is read.
LEMMA NameParsed ==
  ASSUME NEW x, NEW m, NEW i, NEW fs, NEW v, NEW rd, Parsed(x, m, i, fs, v, rd), Follows(x),
         i <= Len(x), x[i] \in Callee, NEW how \in Hows, NEW left \in Seq(Seq(1 .. Len(x))),
         how # "call" => left # << >>
  PROVE  Parsed(x, "arguments", i + 2,
                Append(fs, [at |-> i, how |-> how, left |-> left, args |-> << >>]), v, rd)
<1>1. PICK n, P : n = Len(x) /\ P = 1 .. n OBVIOUS
<1>2. n \in Nat /\ i \in 1 .. n
  <2>1. x \in Seq(Token) BY DEF Follows
  <2>2. i \in 1 .. Len(x) + 1 BY DEF Parsed
  <2>3. i <= Len(x) OBVIOUS
  <2> QED BY ONLY <1>1, <2>1, <2>2, <2>3
<1>3. /\ fs \in Seq(FrameOf(P)) /\ v \in Seq(Seq(P)) /\ rd \in Seq(CallOf(P)) /\ HaveLeft(fs)
  BY <1>1 DEF Parsed, Shaped
<1>4. i + 1 <= n /\ x[i + 1] = "("
  <2>1. FollowsAt(x, i) BY <1>1, <1>2 DEF Follows
  <2>2. i < n /\ x[i + 1] = "(" BY <1>1, <2>1 DEF FollowsAt
  <2> QED BY ONLY <1>2, <2>2
<1>5. i + 2 <= n
  <2>1. FollowsAt(x, i + 1) BY ONLY <1>1, <1>2, <1>4, Follows(x) DEF Follows
  <2>2. i + 1 < n BY ONLY <1>1, <1>4, <2>1 DEF FollowsAt
  <2> QED BY ONLY <1>2, <2>2
<1>6. PICK f : f = [at |-> i, how |-> how, left |-> left, args |-> << >>] OBVIOUS
<1>7. f \in FrameOf(P) /\ HasLeft(f)
  <2>1. << >> \in Seq(Seq(P)) OBVIOUS
  <2>2. i \in P /\ left \in Seq(Seq(P)) /\ how \in Hows BY <1>1, <1>2
  <2>3. how # "call" => left # << >> OBVIOUS
  <2>4. f.how = how /\ f.left = left BY <1>6
  <2>5. f \in FrameOf(P) BY ONLY <1>6, <2>1, <2>2 DEF FrameOf
  <2> QED BY ONLY <2>3, <2>4, <2>5 DEF HasLeft
<1>8. PICK gs : gs = Append(fs, f) OBVIOUS
<1>9. gs \in Seq(FrameOf(P)) /\ HaveLeft(gs) /\ gs # << >>
  BY ONLY <1>3, <1>7, <1>8, FramesMore
<1>10. PICK k \in Nat : k = i + 2 BY <1>2
<1>13. k \in 1 .. Len(x) + 1 /\ k <= Len(x) /\ 1 < k /\ k - 1 = i + 1
  BY ONLY <1>1, <1>2, <1>5, <1>10
<1>14. x[k - 1] = "(" BY ONLY <1>4, <1>13
<1>11. Shaped(1 .. Len(x), gs, v, rd) BY ONLY <1>1, <1>3, <1>9 DEF Shaped
<1>15. ModeFacts(x, "arguments", k, gs, v) BY ONLY <1>9, <1>13, <1>14 DEF ModeFacts
<1>12. Parsed(x, "arguments", k, gs, v, rd)
  BY ONLY <1>9, <1>11, <1>13, <1>15 DEF Parsed, Modes, Writing
<1> QED BY ONLY <1>6, <1>8, <1>10, <1>12

\* A call is complete.
LEMMA ReturnParsed ==
  ASSUME ParserInv, text \in Seq(Token), frames # << >>, NEW f \in FrameOf(1 .. Len(text)),
         HasLeft(f), Returns(f)
  PROVE  ParserInv'
<1>1. PICK n, P : n = Len(text) /\ P = 1 .. n OBVIOUS
<1>2. n \in Nat BY <1>1
<1>3. /\ at' = PastCall(f, at) /\ frames' = Front(frames)
      /\ value' = (IF f.how = "link" THEN Append(f.left, Runs(f)) ELSE <<Runs(f)>>)
      /\ read' = Append(read, [at |-> f.at, args |-> Len(f.args)])
      /\ mode' = (IF f.how = "call" THEN "expression" ELSE "member")
      /\ UNCHANGED <<text, inside, meant>>
  BY ReturnsAre
<1>4. /\ frames \in Seq(FrameOf(P)) /\ read \in Seq(CallOf(P)) /\ HaveLeft(frames)
      /\ at \in 1 .. n + 1
  BY <1>1 DEF ParserInv, Parsed, Shaped
<1>5. at' \in 1 .. n + 1 BY ONLY <1>1, <1>2, <1>3, <1>4, PastCallFacts
<1>6. frames' \in Seq(FrameOf(P)) /\ HaveLeft(frames')
  <2>1. Front(frames) \in Seq(FrameOf(P)) /\ HaveLeft(Front(frames))
    BY ONLY <1>4, frames # << >>, FramesLess
  <2> QED BY ONLY <1>3, <2>1
<1>7. f \in FrameOf(P) BY <1>1
<1>8. f.at \in P /\ f.left \in Seq(Seq(P)) /\ f.args \in Seq(Seq(P)) BY <1>7 DEF FrameOf
<1>9. PICK u \in Seq(P) : u = Runs(f) BY <1>7, RunsTyped
<1>10. value' \in Seq(Seq(P)) /\ (f.how = "call" => Len(value') = 1) /\ value' # << >>
  <2>1. CASE f.how = "link"
    <3>1. value' = Append(f.left, u) /\ f.how # "call" BY <1>3, <1>9, <2>1
    <3>2. Append(f.left, u) \in Seq(Seq(P)) /\ Append(f.left, u) # << >>
      <4>1. PICK t \in Seq(Seq(P)) : t = f.left BY <1>8
      <4>2. Append(t, u) \in Seq(Seq(P)) /\ Append(t, u) # << >>
        BY ONLY t \in Seq(Seq(P)), u \in Seq(P), AppendFacts
      <4> QED BY ONLY <4>1, <4>2
    <3> QED BY ONLY <3>1, <3>2
  <2>2. CASE f.how # "link"
    <3>1. value' = <<u>> BY <1>3, <1>9, <2>2
    <3>2. <<u>> \in Seq(Seq(P)) /\ Len(<<u>>) = 1 /\ <<u>> # << >> BY ONLY u \in Seq(P)
    <3> QED BY ONLY <3>1, <3>2
  <2> QED BY <2>1, <2>2
<1>11. read' \in Seq(CallOf(P))
  <2>1. PICK e : e = [at |-> f.at, args |-> Len(f.args)] OBVIOUS
  <2>2. Len(f.args) \in Nat BY ONLY <1>8
  <2>3. e \in CallOf(P) BY ONLY <1>8, <2>1, <2>2 DEF CallOf
  <2>4. read' = Append(read, e) BY <1>3, <2>1
  <2> QED BY ONLY <1>4, <2>3, <2>4, AppendFacts
<1>12. /\ mode' \in {"expression", "member"} /\ mode' \in Modes
       /\ (mode' = "expression" => f.how = "call")
  BY ONLY <1>3 DEF Modes
<1>13. Shaped(P, frames', value', read') BY ONLY <1>6, <1>10, <1>11 DEF Shaped
<1>14. ModeFacts(text, mode', at', frames', value') BY ONLY <1>10, <1>12 DEF ModeFacts
<1>15. mode' \notin Writing BY ONLY <1>12 DEF Writing
<1>16. Parsed(text, mode', at', frames', value', read')
  BY ONLY <1>1, <1>5, <1>6, <1>12, <1>13, <1>14, <1>15 DEF Parsed
<1> QED BY <1>3, <1>16 DEF ParserInv

\* The top frame with the argument that was read.
LEMMA WithArgumentTyped ==
  ASSUME ParserInv, mode = "expression", frames # << >>
  PROVE  /\ WithArgument(LastOf(frames)) \in FrameOf(1 .. Len(text))
         /\ HasLeft(WithArgument(LastOf(frames))) /\ value[1] \in Seq(1 .. Len(text))
<1>1. PICK P : P = 1 .. Len(text) OBVIOUS
<1>2. frames \in Seq(FrameOf(P)) /\ HaveLeft(frames) /\ value \in Seq(Seq(P)) /\ Len(value) = 1
  BY <1>1 DEF ParserInv, Parsed, Shaped, ModeFacts
<1>3. value[1] \in Seq(P)
  <2>1. value \in Seq(Seq(P)) /\ Len(value) = 1 BY <1>2
  <2> QED BY ONLY <2>1
<1>4. LastOf(frames) \in FrameOf(P) /\ HasLeft(LastOf(frames))
  BY ONLY <1>2, frames # << >>, FramesLess
<1>5. PICK f, g : f = LastOf(frames) /\ f \in FrameOf(P) /\ g = WithArgument(f) BY <1>4
<1>5a. f \in FrameOf(P) BY ONLY <1>5
<1>6. g = [f EXCEPT !.args = Append(@, value[1])] BY <1>5 DEF WithArgument
<1>7. g \in FrameOf(P) /\ (HasLeft(f) => HasLeft(g))
  BY ONLY <1>3, <1>6, <1>5a, ArgumentMore
<1> QED BY <1>1, <1>3, <1>4, <1>5, <1>7

LEMMA ParserStep ==
  ASSUME AuthorInv, ParserInv, [Next]_vars
  PROVE  ParserInv'
<1>0. PICK r : Author(text, inside, meant, mode, r) BY DEF AuthorInv
<1>1. text \in Seq(Token) BY <1>0, ToldFacts DEF Author
<1>2. mode # "write operand" => Follows(text) BY <1>0, AuthorFollows
<1>3. PICK n, P : n = Len(text) /\ P = 1 .. n OBVIOUS
<1>4. n \in Nat BY <1>1, <1>3
<1>5. /\ mode \in Modes /\ at \in 1 .. n + 1 /\ frames \in Seq(FrameOf(P))
      /\ value \in Seq(Seq(P)) /\ read \in Seq(CallOf(P)) /\ HaveLeft(frames)
      /\ ModeFacts(text, mode, at, frames, value)
      /\ mode \in Writing => at = 1 /\ frames = << >> /\ value = << >> /\ read = << >>
  BY <1>3 DEF ParserInv, Parsed, Shaped
<1>6. CASE UNCHANGED vars
  <2>1. ParserInv' = ParserInv BY ONLY <1>6 DEF vars, ParserInv
  <2> QED BY ONLY <2>1, ParserInv
<1>7. CASE WriteVariable \/ WriteCall \/ WriteMethod \/ WriteComma \/ WriteClose
  <2>1. mode \in Writing /\ mode' \in Writing /\ UNCHANGED parserVars BY <1>7, AuthorKeeps
  <2>2. AuthorInv' BY AuthorStep
  <2>3. PICK q : Author(text', inside', meant', mode', q) BY <2>2 DEF AuthorInv
  <2>4. PICK y : y = text' OBVIOUS
  <2>5. y \in Seq(Token) BY <2>3, <2>4, ToldFacts DEF Author
  <2>6. Len(y) \in Nat BY ONLY <2>5
  <2>7. at' = 1 /\ frames' = << >> /\ value' = << >> /\ read' = << >>
    BY ONLY <1>5, <2>1 DEF parserVars
  <2>8. PICK Q : Q = 1 .. Len(y) OBVIOUS
  <2>9. Shaped(Q, << >>, << >>, << >>) BY ONLY TRUE DEF Shaped
  <2>10. HaveLeft(<< >>) BY DEF HaveLeft
  <2>11. ModeFacts(y, mode', 1, << >>, << >>) BY ONLY <2>1 DEF ModeFacts, Writing
  <2>12. 1 \in 1 .. Len(y) + 1 BY ONLY <2>6
  <2>13. mode' \in Modes BY ONLY <2>1 DEF Modes, Writing
  <2>14. Parsed(y, mode', 1, << >>, << >>, << >>)
    BY ONLY <2>8, <2>9, <2>10, <2>11, <2>12, <2>13 DEF Parsed
  <2> QED BY ONLY <2>4, <2>7, <2>14 DEF ParserInv
<1>8. CASE Finish
  <2>1. mode = "written" /\ mode' = "operand" /\ UNCHANGED <<text, parserVars>>
    BY <1>8 DEF Finish
  <2>2. at = 1 /\ frames = << >> /\ value = << >> /\ read = << >> BY ONLY <1>5, <2>1 DEF Writing
  <2>3. Follows(text) BY ONLY <1>2, <2>1
  <2>4. 1 <= n /\ text[1] \in {"v", "f"}
    <3>1. text # << >> /\ text[1] \in {"v", "f"} BY <2>3 DEF Follows
    <3> QED BY ONLY <1>1, <1>3, <3>1
  <2>5. ModeFacts(text, "operand", 1, << >>, << >>) BY ONLY <1>3, <2>4 DEF ModeFacts
  <2>6. Shaped(P, << >>, << >>, << >>) BY ONLY TRUE DEF Shaped
  <2>7. HaveLeft(<< >>) BY DEF HaveLeft
  <2>8. 1 \in 1 .. n + 1 BY ONLY <1>4
  <2>9. Parsed(text, "operand", 1, << >>, << >>, << >>)
    BY ONLY <1>3, <2>5, <2>6, <2>7, <2>8 DEF Parsed, Modes, Writing
  <2> QED BY ONLY <2>1, <2>2, <2>9 DEF ParserInv, parserVars
<1>9. CASE Parse
  <2>0. mode \notin Writing /\ mode' \notin Writing /\ UNCHANGED <<text, inside, meant>>
    BY <1>9, ParserKeeps
  <2>1. Follows(text) BY <1>2, <2>0 DEF Writing
  <2>2. Peek(at) = IF at <= n THEN text[at] ELSE "end" BY ONLY <1>3, <1>4, <1>5, PeekIs
  <2>3. SUFFICES Parsed(text, mode', at', frames', value', read') BY <2>0 DEF ParserInv
  <2>4. SUFFICES /\ mode' \in Modes /\ at' \in 1 .. n + 1
                 /\ frames' \in Seq(FrameOf(P)) /\ value' \in Seq(Seq(P))
                 /\ read' \in Seq(CallOf(P))
                 /\ ModeFacts(text, mode', at', frames', value') /\ HaveLeft(frames')
    <3>1. PICK m, i, fs, v, rd : m = mode' /\ i = at' /\ fs = frames' /\ v = value' /\ rd = read'
      OBVIOUS
    <3>2. m \notin Writing BY <2>0, <3>1
    <3>3. ASSUME m \in Modes /\ i \in 1 .. n + 1 /\ fs \in Seq(FrameOf(P)) /\ v \in Seq(Seq(P))
                 /\ rd \in Seq(CallOf(P)) /\ ModeFacts(text, m, i, fs, v) /\ HaveLeft(fs)
          PROVE  Parsed(text, m, i, fs, v, rd)
      BY ONLY <1>3, <3>2, <3>3 DEF Parsed, Shaped
    <3> QED BY <3>1, <3>3
  <2>5. CASE ReadOperand
    <3>1. /\ mode = "operand" /\ at' = at + 1 /\ value' = << << >> >> /\ mode' = "primary"
          /\ read' = Append(read, [at |-> at, args |-> 0]) /\ frames' = frames
      BY <2>5 DEF ReadOperand
    <3>2. at <= n BY ONLY <1>3, <1>5, <3>1 DEF ModeFacts
    <3>3. at' \in 1 .. n + 1 /\ at \in P BY ONLY <1>3, <1>4, <1>5, <3>1, <3>2
    <3>4. read' \in Seq(CallOf(P))
      <4>1. PICK e : e = [at |-> at, args |-> 0] OBVIOUS
      <4>2. e \in CallOf(P) BY ONLY <3>3, <4>1 DEF CallOf
      <4> QED BY ONLY <1>5, <3>1, <4>1, <4>2, AppendFacts
    <3>5. << << >> >> \in Seq(Seq(P)) OBVIOUS
    <3>6. ModeFacts(text, "primary", at', frames, << << >> >>) BY DEF ModeFacts
    <3> QED BY ONLY <1>5, <3>1, <3>3, <3>4, <3>5, <3>6 DEF Modes
  <2>6. ASSUME NEW how \in Hows, NEW left \in Seq(Seq(P)), how # "call" => left # << >>,
               Peek(at) \in Callee, ReadName(how, left)
        PROVE  Parsed(text, mode', at', frames', value', read')
    <3>1. at <= n /\ text[at] \in Callee
      <4>1. "end" \notin Callee BY DEF Callee
      <4> QED BY ONLY <2>2, <2>6, <4>1
    <3>2. /\ at' = at + 2 /\ mode' = "arguments" /\ value' = value /\ read' = read
          /\ frames' = Append(frames, [at |-> at, how |-> how, left |-> left, args |-> << >>])
      BY <2>6 DEF ReadName
    <3>3. Parsed(text, "arguments", at + 2,
                 Append(frames, [at |-> at, how |-> how, left |-> left, args |-> << >>]),
                 value, read)
      <4>1. Parsed(text, mode, at, frames, value, read) BY DEF ParserInv
      <4>2. left \in Seq(Seq(1 .. Len(text))) /\ at <= Len(text) BY <1>3, <3>1
      <4> QED BY ONLY <2>1, <2>6, <3>1, <4>1, <4>2, how \in Hows, NameParsed
    <3> QED BY <3>2, <3>3
  <2>7. CASE ParseCallExpression
    <3>1. ReadName("call", << >>) /\ Peek(at) \in Callee BY <2>7, Tokens DEF ParseCallExpression
    <3>2. "call" \in Hows /\ << >> \in Seq(Seq(P)) BY DEF Hows
    <3>3. Parsed(text, mode', at', frames', value', read') BY <2>6, <3>1, <3>2
    <3> QED BY ONLY <1>3, <3>3 DEF Parsed, Shaped
  <2>8. CASE ParsePrimary
    <3>1. ReadName("method", value) /\ Peek(at) \in Callee /\ mode = "primary"
      BY <2>8, Tokens DEF ParsePrimary
    <3>2. value = << << >> >> BY ONLY <1>5, <3>1 DEF ModeFacts
    <3>3. value # << >> /\ "method" \in Hows BY ONLY <3>2 DEF Hows
    <3>4. Parsed(text, mode', at', frames', value', read') BY ONLY <1>5, <2>6, <3>1, <3>3
    <3> QED BY ONLY <1>3, <3>4 DEF Parsed, Shaped
  <2>9. CASE ParseMemberAccess
    <3>1. ReadName("link", value) /\ Peek(at) \in Callee /\ mode = "member"
      BY <2>9, Tokens DEF ParseMemberAccess
    <3>2. value # << >> /\ "link" \in Hows BY ONLY <1>5, <3>1 DEF ModeFacts, Hows
    <3>4. Parsed(text, mode', at', frames', value', read') BY ONLY <1>5, <2>6, <3>1, <3>2
    <3> QED BY ONLY <1>3, <3>4 DEF Parsed, Shaped
  <2>10. CASE NoArguments
    <3>1. mode = "arguments" /\ Returns(LastOf(frames)) BY <2>10 DEF NoArguments
    <3>2. frames # << >> BY ONLY <1>5, <3>1 DEF ModeFacts
    <3>3. LastOf(frames) \in FrameOf(P) /\ HasLeft(LastOf(frames))
      BY ONLY <1>5, <3>2, FramesLess
    <3>4. LastOf(frames) \in FrameOf(1 .. Len(text)) BY <1>3, <3>3
    <3>5. ParserInv' BY ONLY <1>1, <3>1, <3>2, <3>3, <3>4, ParserInv, ReturnParsed
    <3> QED BY ONLY <1>3, <2>0, <3>5 DEF ParserInv, Parsed, Shaped
  <2>11. CASE FirstArgument
    <3>1. /\ mode = "arguments" /\ Peek(at) # ")" /\ mode' = "operand"
          /\ at' = at /\ frames' = frames /\ value' = value /\ read' = read
      BY <2>11 DEF FirstArgument, parserVars
    <3>2. /\ 1 < at /\ at <= n /\ text[at - 1] = "(" BY ONLY <1>3, <1>5, <3>1 DEF ModeFacts
    <3>3. at \in 1 .. n + 1 BY <1>5
    <3>4. PICK k \in 1 .. n : k = at - 1 BY ONLY <1>4, <3>2, <3>3
    <3>5. at = k + 1 BY ONLY <3>3, <3>4, <1>4
    <3>6. FollowsAt(text, k) BY ONLY <1>3, <2>1, <3>4 DEF Follows
    <3>7. text[k] = "(" BY <3>2, <3>4
    <3>8. text[k + 1] \in {"v", "f", ")"} BY ONLY <3>6, <3>7 DEF FollowsAt
    <3>9. text[at] \in {"v", "f"} BY ONLY <2>2, <3>1, <3>2, <3>5, <3>8
    <3>10. ModeFacts(text, "operand", at, frames, value) BY ONLY <1>3, <3>2, <3>9 DEF ModeFacts
    <3> QED BY ONLY <1>5, <3>1, <3>10 DEF Modes
  <2>12. CASE NextArgument
    <3>1. /\ mode = "expression" /\ frames # << >> /\ Peek(at) = "," /\ at' = at + 1
          /\ frames' = [frames EXCEPT ![Len(frames)] = WithArgument(frames[Len(frames)])]
          /\ mode' = "operand" /\ value' = value /\ read' = read
      BY <2>12 DEF NextArgument
    <3>2. at <= n /\ text[at] = "," BY ONLY <2>2, <3>1
    <3>3. at + 1 <= n /\ text[at + 1] \in {"v", "f"} /\ at + 1 \in 1 .. n + 1
      <4>4. at \in 1 .. n + 1 BY <1>5
      <4>5. at <= n BY <3>2
      <4>1. at \in 1 .. n BY ONLY <1>4, <4>4, <4>5
      <4>2. FollowsAt(text, at) BY ONLY <1>3, <2>1, <4>1 DEF Follows
      <4>3. at < n /\ text[at + 1] \in {"v", "f"} BY ONLY <1>3, <3>2, <4>2 DEF FollowsAt
      <4> QED BY ONLY <1>4, <4>1, <4>3
    <3>4. frames' \in Seq(FrameOf(P)) /\ HaveLeft(frames')
      <4>1. value[1] \in Seq(P) BY <1>3, <3>1, WithArgumentTyped
      <4>2. PICK e \in Seq(P) : e = value[1] BY <4>1
      <4>3. frames' = [frames EXCEPT ![Len(frames)] = [frames[Len(frames)] EXCEPT !.args = Append(@, e)]]
        BY <3>1, <4>2 DEF WithArgument
      <4> QED BY ONLY <1>5, <3>1, <4>3, e \in Seq(P), FramesArgument
    <3>5. ModeFacts(text, "operand", at + 1, frames', value) BY ONLY <1>3, <3>3 DEF ModeFacts
    <3> QED BY ONLY <1>5, <3>1, <3>3, <3>4, <3>5 DEF Modes
  <2>13. CASE LastArgument
    <3>1. mode = "expression" /\ frames # << >> /\ Returns(WithArgument(LastOf(frames)))
      BY <2>13 DEF LastArgument
    <3>2. /\ WithArgument(LastOf(frames)) \in FrameOf(1 .. Len(text))
          /\ HasLeft(WithArgument(LastOf(frames)))
      BY ONLY <3>1, ParserInv, WithArgumentTyped
    <3>5. ParserInv' BY ONLY <1>1, <3>1, <3>2, ParserInv, ReturnParsed
    <3> QED BY ONLY <1>3, <2>0, <3>5 DEF ParserInv, Parsed, Shaped
  <2>14. CASE EndOfExpression
    <3>1. /\ mode' = "expression" /\ value' = <<ChainRuns(value)>>
          /\ at' = at /\ frames' = frames /\ read' = read
      BY <2>14 DEF EndOfExpression
    <3>2. PICK u \in Seq(P) : u = ChainRuns(value) BY ONLY <1>5, ChainTyped
    <3>3. value' = <<u>> BY <3>1, <3>2
    <3>4. <<u>> \in Seq(Seq(P)) /\ Len(<<u>>) = 1 BY ONLY u \in Seq(P)
    <3>5. ModeFacts(text, "expression", at, frames, <<u>>) BY ONLY <3>4 DEF ModeFacts
    <3> QED BY ONLY <1>5, <3>1, <3>3, <3>4, <3>5 DEF Modes
  <2>15. CASE EndOfStatement
    <3>1. /\ mode' = "end" /\ at' = at /\ frames' = frames /\ value' = value /\ read' = read
      BY <2>15 DEF EndOfStatement, parserVars
    <3>5. ModeFacts(text, "end", at, frames, value) BY DEF ModeFacts
    <3> QED BY ONLY <1>5, <3>1, <3>5 DEF Modes
  <2> QED BY <1>9, <2>5, <2>7, <2>8, <2>9, <2>10, <2>11, <2>12, <2>13, <2>14, <2>15 DEF Parse
<1> QED BY <1>6, <1>7, <1>8, <1>9 DEF Next, Write

LEMMA ParserInit == Init => ParserInv
<1> SUFFICES ASSUME Init PROVE ParserInv OBVIOUS
<1>1. /\ text = << >> /\ mode = "write operand" /\ at = 1 /\ frames = << >>
      /\ value = << >> /\ read = << >>
  BY DEF Init
<1>2. 1 \in 1 .. Len(<< >>) + 1 OBVIOUS
<1>3. PICK P : P = 1 .. Len(<< >>) OBVIOUS
<1>4. Shaped(P, << >>, << >>, << >>) BY ONLY TRUE DEF Shaped
<1>5. HaveLeft(<< >>) BY DEF HaveLeft
<1>6. ModeFacts(<< >>, "write operand", 1, << >>, << >>) BY DEF ModeFacts
<1>7. Parsed(<< >>, "write operand", 1, << >>, << >>, << >>)
  BY ONLY <1>2, <1>3, <1>4, <1>5, <1>6 DEF Parsed, Modes, Writing
<1> QED BY ONLY <1>1, <1>7 DEF ParserInv

\* The parts of TypeOK.
LEMMA TypesHold == AuthorInv /\ ParserInv => TypeOK
<1> SUFFICES ASSUME AuthorInv, ParserInv PROVE TypeOK OBVIOUS
<1>1. PICK r : Author(text, inside, meant, mode, r) BY DEF AuthorInv
<1>2. Told(text, r) /\ r.ins = inside /\ r.mea = meant /\ Len(text) + Len(inside) <= MaxToken
  BY <1>1 DEF Author
<1>3. text \in Seq(Token) /\ r \in Behind /\ Sane(text, Len(text), r) /\ Counted(text, r)
  BY <1>2, ToldFacts
<1>4. PICK n, P : n \in Nat /\ n = Len(text) /\ P = 1 .. n BY <1>3
<1>5. inside \in Seq(CallRecord) /\ meant \in Seq(CallRecord) BY ONLY <1>2, <1>3, Parts
<1>6. Call = [at : P, args : Nat] BY <1>4 DEF Call, Places
<1>7. \A k \in 1 .. Len(inside) : inside[k].at \in P
  BY ONLY <1>2, <1>3, <1>4 DEF Sane
<1>8. \A k \in 1 .. Len(meant) : meant[k].at \in P
  BY ONLY <1>2, <1>3, <1>4 DEF Counted, PlacesIn
<1>9. ASSUME NEW s \in Seq(CallRecord), \A k \in 1 .. Len(s) : s[k].at \in P
      PROVE  s \in Seq(Call)
  <2>1. ASSUME NEW k \in 1 .. Len(s) PROVE s[k] \in Call
    <3>1. s[k] \in CallRecord /\ s[k].at \in P BY ONLY <1>9, s \in Seq(CallRecord), k \in 1 .. Len(s)
    <3> QED BY ONLY <1>6, <3>1 DEF CallRecord
  <2> QED BY ONLY <2>1, s \in Seq(CallRecord)
<1>10. inside \in Seq(Call) /\ meant \in Seq(Call) BY ONLY <1>5, <1>7, <1>8, <1>9
<1>11. /\ mode \in Modes /\ at \in 1 .. n + 1 /\ frames \in Seq(FrameOf(P))
       /\ value \in Seq(Seq(P)) /\ read \in Seq(CallOf(P))
  BY <1>4 DEF ParserInv, Parsed, Shaped
<1>12. FrameOf(P) = Frame BY <1>4 DEF FrameOf, Frame, Hows, Places
<1>13. CallOf(P) = Call BY <1>6 DEF CallOf
<1>14. Len(text) <= MaxToken
  <2>1. Len(inside) \in Nat BY ONLY <1>5
  <2>2. n + Len(inside) <= MaxToken BY <1>2, <1>4
  <2> QED BY ONLY <1>4, <2>1, <2>2, CallsAssumption
<1>15. P = Places /\ n = Len(text) BY <1>4 DEF Places
<1>16. mode \in {"write operand", "written", "operand", "primary", "arguments", "member",
                 "expression", "end"}
  BY <1>11 DEF Modes
<1> QED BY ONLY <1>3, <1>10, <1>11, <1>12, <1>13, <1>14, <1>15, <1>16 DEF TypeOK

Inductive == AuthorInv /\ ParserInv

LEMMA InductiveHolds == Spec => []Inductive
<1>1. Init => Inductive BY AuthorInit, ParserInit DEF Inductive
<1>2. Inductive /\ [Next]_vars => Inductive' BY AuthorStep, ParserStep DEF Inductive
<1> QED BY <1>1, <1>2, PTL DEF Spec

\* The types of the author and of the parser (parseArguments never runs past the text).
THEOREM TypeCorrect == Spec => []TypeOK
<1>1. Inductive => TypeOK BY TypesHold DEF Inductive
<1> QED BY <1>1, InductiveHolds, PTL

-----------------------------------------------------------------------------
(***************************************************************************)
(* The parser follows the author.                                          *)
(***************************************************************************)

\* The name of the call that the bracket p closes, and Readable along the author's history.
CalleeAt(h, p) == LastOf(h[p - 1].ins).at
Trails(x, j) == \A q \in j + 1 .. Len(x) : x[q] = ")"
Greedy(x, h, p) ==
  \/ x[CalleeAt(h, p)] = "f" /\ x[p - 1] = "("
  \/ x[CalleeAt(h, p)] # "f" /\ x[CalleeAt(h, p) - 1] = ")"
PlainAt(x, h, p) ==
  x[p] = ")" /\ p < Len(x) =>
    /\ Greedy(x, h, p) /\ x[p + 1] = ")" => Trails(x, p)
    /\ x[CalleeAt(h, p)] = "f" => x[p + 1] \notin {"b", "u"}
Plain(x, h) == \A p \in 1 .. Len(x) : PlainAt(x, h, p)

\* The parser has read the first j tokens, and behind them closing brackets at most.
Position(x, j, m, i) ==
  /\ j \in 0 .. Len(x)
  /\ i = j + 1 \/ (i > j + 1 /\ m \in {"member", "expression", "end"} /\ Trails(x, j))
  /\ m = "primary" => j > 0 /\ x[j] = "v"
  /\ m = "arguments" => j > 0 /\ x[j] = "("
  /\ m = "member" => j > 0 /\ x[j] = ")"
  /\ m = "expression" =>
       j > 0 /\ x[j] \in {"v", ")"} /\ (j < Len(x) => x[j + 1] \notin {"b", "u"})
  /\ m = "end" => j = Len(x)

\* A frame and the call that it is of.
FrameOfCall(x, f, c) ==
  /\ f.at = c.at /\ (f.how = "call" <=> x[f.at] = "f")
  /\ f.how = "method" => f.at > 1 /\ x[f.at - 1] = "v"
  /\ f.how = "link" => f.at > 1 /\ x[f.at - 1] = ")"
OneMoreArgument(f, c) == c.args = Len(f.args) + 1

FramesOfCalls(x, fs, ins) ==
  Len(fs) = Len(ins) /\ \A k \in 1 .. Len(fs) : FrameOfCall(x, fs[k], ins[k])
ArgumentsTo(fs, ins, l) == \A k \in 1 .. l : OneMoreArgument(fs[k], ins[k])

Stacked(x, fs, ins, m) ==
  /\ FramesOfCalls(x, fs, ins)
  /\ m # "arguments" => ArgumentsTo(fs, ins, Len(fs))
  /\ m = "arguments" => fs # << >> /\ LastOf(fs).args = << >> /\ ArgumentsTo(fs, ins, Len(fs) - 1)

Match(x, h, j, m, i, fs, rd) ==
  Position(x, j, m, i) /\ Stacked(x, fs, h[j].ins, m) /\ rd = h[j].mea

\* What a token does, by the history.
VariableDoes(i, r, s) ==
  s.ins = r.ins /\ s.mea = Append(r.mea, [at |-> i, args |-> 0]) /\ s.gen = r.gen
OpeningDoes(i, r, s) ==
  /\ \E a \in {0, 1} : s.ins = Append(r.ins, [at |-> i - 1, args |-> a])
  /\ s.mea = r.mea /\ s.gen = r.gen
CommaDoes(r, s) ==
  /\ r.ins # << >> /\ s.ins = [r.ins EXCEPT ![Len(r.ins)].args = @ + 1]
  /\ s.mea = r.mea /\ s.gen = r.gen
ClosingDoes(x, i, r, s) ==
  /\ r.ins # << >> /\ (LastOf(r.ins).args = 0 <=> x[i - 1] = "(")
  /\ s.ins = Front(r.ins) /\ s.mea = Append(r.mea, LastOf(r.ins))
  /\ s.gen = Append(r.gen, LastOf(r.ins).at)

Does(x, i, r, s) ==
  /\ r \in Behind /\ s \in Behind
  /\ x[i] = "v" => VariableDoes(i, r, s)
  /\ x[i] \in Callee => s = r
  /\ x[i] = "(" => OpeningDoes(i, r, s)
  /\ x[i] = "," => CommaDoes(r, s)
  /\ x[i] = ")" => ClosingDoes(x, i, r, s)
  /\ ByFirst(x, i, r)

LEMMA StoryDoes ==
  ASSUME NEW x, NEW h, Story(x, h), NEW i \in 1 .. Len(x)
  PROVE  Does(x, i, h[i - 1], h[i])
<1>1. PICK n \in Nat : n = Len(x) BY DEF Story
<1>2. i - 1 \in 0 .. n /\ i \in 0 .. n BY <1>1
<1>3. PICK r, s : r = h[i - 1] /\ s = h[i] OBVIOUS
<1>4. r \in Behind /\ s \in Behind BY <1>1, <1>2, <1>3 DEF Story
<1>5. StepAt(x, i, r, s) BY <1>3 DEF Story
<1>6. PICK d : d = x[i] OBVIOUS
<1>7. d = "v" => VariableDoes(i, r, s)
  <2> SUFFICES ASSUME d = "v" PROVE VariableDoes(i, r, s) OBVIOUS
  <2>1. s = [r EXCEPT !.mea = Append(r.mea, [at |-> i, args |-> 0])]
    BY <1>5, <1>6 DEF StepAt, ByOperand
  <2> QED BY ONLY <1>4, <2>1 DEF Behind, VariableDoes
<1>8. d \in Callee => s = r BY <1>5, <1>6 DEF StepAt, ByName
<1>9. d = "(" => OpeningDoes(i, r, s)
  <2> SUFFICES ASSUME d = "(" PROVE OpeningDoes(i, r, s) OBVIOUS
  <2>1. PICK a \in {0, 1} : s = [r EXCEPT !.ins = Append(r.ins, [at |-> i - 1, args |-> a])]
    BY <1>5, <1>6 DEF StepAt, ByOpening
  <2>2. PICK t : t = Append(r.ins, [at |-> i - 1, args |-> a]) OBVIOUS
  <2>3. s = [r EXCEPT !.ins = t] BY <2>1, <2>2
  <2>4. s.ins = t /\ s.mea = r.mea /\ s.gen = r.gen BY ONLY <1>4, <2>3 DEF Behind
  <2> QED BY ONLY <2>2, <2>4, a \in {0, 1} DEF OpeningDoes
<1>10. d = "," => CommaDoes(r, s)
  <2> SUFFICES ASSUME d = "," PROVE CommaDoes(r, s) OBVIOUS
  <2>1. r.ins # << >> /\ s = [r EXCEPT !.ins = [r.ins EXCEPT ![Len(r.ins)].args = @ + 1]]
    BY <1>5, <1>6 DEF StepAt, ByComma
  <2>2. PICK t : t = [r.ins EXCEPT ![Len(r.ins)].args = @ + 1] OBVIOUS
  <2>3. s = [r EXCEPT !.ins = t] BY <2>1, <2>2
  <2>4. s.ins = t /\ s.mea = r.mea /\ s.gen = r.gen BY ONLY <1>4, <2>3 DEF Behind
  <2> QED BY ONLY <2>1, <2>2, <2>4 DEF CommaDoes
<1>11. d = ")" => ClosingDoes(x, i, r, s)
  <2> SUFFICES ASSUME d = ")" PROVE ClosingDoes(x, i, r, s) OBVIOUS
  <2>1. ByClosing(x, i, r, s) /\ x[i] = ")" BY <1>5, <1>6 DEF StepAt
  <2> QED BY ONLY <2>1 DEF ByClosing, ClosingDoes
<1>12. ByFirst(x, i, r) BY <1>5 DEF StepAt
<1> QED BY ONLY <1>3, <1>4, <1>6, <1>7, <1>8, <1>9, <1>10, <1>11, <1>12 DEF Does

\* An operand is read.
LEMMA MatchOperand ==
  ASSUME NEW x \in Seq(Token), NEW h, Story(x, h), NEW j \in 0 .. Len(x), NEW i, NEW fs, NEW rd,
         Match(x, h, j, "operand", i, fs, rd), i <= Len(x), x[i] = "v"
  PROVE  Match(x, h, i, "primary", i + 1, fs, Append(rd, [at |-> i, args |-> 0]))
<1>1. PICK n \in Nat : n = Len(x) OBVIOUS
<1>2. i = j + 1 /\ Stacked(x, fs, h[j].ins, "operand") /\ rd = h[j].mea
  BY DEF Match, Position
<1>3. i \in 1 .. n /\ i - 1 = j /\ i > 0 /\ i \in 0 .. n BY ONLY <1>1, <1>2, i <= Len(x), j \in 0 .. Len(x)
<1>4. Does(x, i, h[j], h[i])
  <2>1. Does(x, i, h[i - 1], h[i]) BY <1>1, <1>3, StoryDoes
  <2> QED BY ONLY <1>3, <2>1
<1>5. VariableDoes(i, h[j], h[i]) BY <1>4 DEF Does
<1>6. Position(x, i, "primary", i + 1) BY ONLY <1>1, <1>3, x[i] = "v" DEF Position
<1>7. Stacked(x, fs, h[i].ins, "primary") BY ONLY <1>2, <1>5 DEF VariableDoes, Stacked
<1>8. Append(rd, [at |-> i, args |-> 0]) = h[i].mea BY ONLY <1>2, <1>5 DEF VariableDoes
<1> QED BY ONLY <1>6, <1>7, <1>8 DEF Match

\* Two stacks grow.
LEMMA StackMore ==
  ASSUME NEW x, NEW P, NEW fs \in Seq(FrameOf(P)), NEW ins \in Seq(CallRecord), NEW m,
         m # "arguments", Stacked(x, fs, ins, m), NEW f \in FrameOf(P), NEW c \in CallRecord,
         FrameOfCall(x, f, c), f.args = << >>
  PROVE  Stacked(x, Append(fs, f), Append(ins, c), "arguments")
<1>1. PICK t, u, l : t = Append(fs, f) /\ u = Append(ins, c) /\ l = Len(fs) OBVIOUS
<1>2. l = Len(ins) /\ \A k \in 1 .. l : FrameOfCall(x, fs[k], ins[k])
  BY <1>1 DEF Stacked, FramesOfCalls
<1>3. \A k \in 1 .. l : OneMoreArgument(fs[k], ins[k]) BY <1>1 DEF Stacked, ArgumentsTo
<1>4. /\ Len(t) = l + 1 /\ l \in Nat /\ t[l + 1] = f /\ t # << >> /\ \A k \in 1 .. l : t[k] = fs[k]
  BY ONLY <1>1, fs \in Seq(FrameOf(P)), f \in FrameOf(P), AppendFacts
<1>5. /\ Len(u) = l + 1 /\ u[l + 1] = c /\ \A k \in 1 .. l : u[k] = ins[k]
  BY ONLY <1>1, <1>2, ins \in Seq(CallRecord), c \in CallRecord, AppendFacts
<1>6. ASSUME NEW k \in 1 .. Len(t) PROVE FrameOfCall(x, t[k], u[k])
  <2>1. CASE k = l + 1 BY ONLY <1>4, <1>5, <2>1, FrameOfCall(x, f, c)
  <2>2. CASE k # l + 1
    <3>1. k \in 1 .. l BY ONLY <1>4, <2>2, k \in 1 .. Len(t)
    <3> QED BY ONLY <1>2, <1>4, <1>5, <3>1
  <2> QED BY <2>1, <2>2
<1>7. FramesOfCalls(x, t, u) BY ONLY <1>4, <1>5, <1>6 DEF FramesOfCalls
<1>8. Len(t) - 1 = l BY ONLY <1>4
<1>9. ArgumentsTo(t, u, l) BY ONLY <1>3, <1>4, <1>5 DEF ArgumentsTo
<1>10. LastOf(t) = f BY ONLY <1>4 DEF LastOf
<1>11. Stacked(x, t, u, "arguments")
  BY ONLY <1>4, <1>7, <1>8, <1>9, <1>10, f.args = << >> DEF Stacked
<1> QED BY <1>1, <1>11

\* Two stacks shrink.
LEMMA StackLess ==
  ASSUME NEW x, NEW P, NEW fs \in Seq(FrameOf(P)), NEW ins \in Seq(CallRecord), fs # << >>,
         NEW m, Stacked(x, fs, ins, m), NEW m1, m1 # "arguments"
  PROVE  Stacked(x, Front(fs), Front(ins), m1) /\ ins # << >>
         /\ FrameOfCall(x, LastOf(fs), LastOf(ins))
<1>1. PICK t, u, l : t = Front(fs) /\ u = Front(ins) /\ l = Len(fs) OBVIOUS
<1>2. l = Len(ins) /\ \A k \in 1 .. l : FrameOfCall(x, fs[k], ins[k])
  BY <1>1 DEF Stacked, FramesOfCalls
<1>3. l \in Nat /\ l \in 1 .. l /\ l - 1 \in Nat BY ONLY <1>1, fs \in Seq(FrameOf(P)), fs # << >>
<1>4. ins # << >> BY ONLY <1>2, <1>3, ins \in Seq(CallRecord)
<1>5. Len(t) = l - 1 /\ \A k \in 1 .. l - 1 : t[k] = fs[k]
  BY ONLY <1>1, fs \in Seq(FrameOf(P)), fs # << >>, FrontFacts
<1>6. Len(u) = l - 1 /\ \A k \in 1 .. l - 1 : u[k] = ins[k]
  BY ONLY <1>1, <1>2, <1>4, ins \in Seq(CallRecord), FrontFacts
<1>7. ASSUME NEW k \in 1 .. l - 1 PROVE OneMoreArgument(fs[k], ins[k])
  <2>1. k \in 1 .. l BY ONLY <1>3, k \in 1 .. l - 1
  <2>2. CASE m = "arguments"
    <3>1. ArgumentsTo(fs, ins, l - 1) BY <1>1, <2>2 DEF Stacked
    <3> QED BY <3>1 DEF ArgumentsTo
  <2>3. CASE m # "arguments"
    <3>1. ArgumentsTo(fs, ins, l) BY <1>1, <2>3 DEF Stacked
    <3> QED BY <2>1, <3>1 DEF ArgumentsTo
  <2> QED BY <2>2, <2>3
<1>8. ASSUME NEW k \in 1 .. l - 1 PROVE FrameOfCall(x, t[k], u[k]) /\ OneMoreArgument(t[k], u[k])
  <2>1. k \in 1 .. l BY ONLY <1>3, k \in 1 .. l - 1
  <2> QED BY ONLY <1>2, <1>5, <1>6, <1>7, <2>1, k \in 1 .. l - 1
<1>9. FramesOfCalls(x, t, u) /\ ArgumentsTo(t, u, Len(t))
  BY ONLY <1>5, <1>6, <1>8 DEF FramesOfCalls, ArgumentsTo
<1>10. Stacked(x, t, u, m1) BY ONLY <1>9, m1 # "arguments" DEF Stacked
<1>11. FrameOfCall(x, LastOf(fs), LastOf(ins)) BY ONLY <1>1, <1>2, <1>3 DEF LastOf
<1> QED BY <1>1, <1>4, <1>10, <1>11

LEMMA StackTop ==
  ASSUME NEW x, NEW P, NEW fs \in Seq(FrameOf(P)), NEW ins \in Seq(CallRecord), fs # << >>,
         NEW m, Stacked(x, fs, ins, m), NEW f, f = LastOf(fs), NEW c, c = LastOf(ins)
  PROVE  FrameOfCall(x, f, c)
<1>1. PICK m1 : m1 = "end" OBVIOUS
<1>2. m1 # "arguments" BY <1>1
<1>3. Stacked(x, Front(fs), Front(ins), m1) /\ FrameOfCall(x, f, c) BY <1>2, StackLess
<1> QED BY <1>3

\* A name is read, with its bracket.
LEMMA MatchName ==
  ASSUME NEW x \in Seq(Token), NEW h, Story(x, h), Follows(x), NEW j \in 0 .. Len(x), NEW m,
         m # "arguments", NEW i, NEW fs \in Seq(FrameOf(1 .. Len(x))), NEW rd,
         Match(x, h, j, m, i, fs, rd), i <= Len(x), x[i] \in Callee,
         NEW f \in FrameOf(1 .. Len(x)), f.at = i, f.args = << >>,
         f.how = "call" <=> x[i] = "f",
         f.how = "method" => m = "primary", f.how = "link" => m = "member"
  PROVE  Match(x, h, i + 1, "arguments", i + 2, Append(fs, f), rd)
<1>1. PICK n \in Nat : n = Len(x) OBVIOUS
<1>2. Position(x, j, m, i) /\ Stacked(x, fs, h[j].ins, m) /\ rd = h[j].mea BY DEF Match
<1>3. i = j + 1
  <2> SUFFICES ASSUME i # j + 1 PROVE FALSE OBVIOUS
  <2>1. i > j + 1 /\ Trails(x, j) BY <1>2 DEF Position
  <2>2. f.at \in 1 .. Len(x) BY DEF FrameOf
  <2>3. i \in 1 .. n BY <1>1, <2>2
  <2>4. i \in j + 1 .. Len(x) BY ONLY <1>1, <2>1, <2>3, j \in 0 .. Len(x)
  <2>5. x[i] = ")" BY ONLY <2>1, <2>4 DEF Trails
  <2> QED BY <2>5, Tokens
<1>4. i \in 1 .. n /\ i - 1 = j BY ONLY <1>1, <1>3, i <= Len(x), j \in 0 .. Len(x)
<1>5. i < n /\ x[i + 1] = "("
  <2>1. FollowsAt(x, i) BY <1>1, <1>4 DEF Follows
  <2> QED BY <1>1, <2>1 DEF FollowsAt
<1>6. PICK k \in Nat : k = i + 1 BY <1>4
<1>7. k \in 1 .. n /\ k - 1 = i /\ k > 0 /\ i + 2 = k + 1 /\ k \in 0 .. n BY ONLY <1>4, <1>5, <1>6, n \in Nat
<1>8. h[i] = h[j]
  <2>1. Does(x, i, h[i - 1], h[i]) BY <1>1, <1>4, StoryDoes
  <2>2. h[i] = h[i - 1] BY <2>1 DEF Does
  <2> QED BY ONLY <1>4, <2>2
<1>9. Does(x, k, h[j], h[k])
  <2>1. Does(x, k, h[k - 1], h[k]) BY <1>1, <1>7, StoryDoes
  <2> QED BY ONLY <1>7, <1>8, <2>1
<1>10. x[k] = "(" BY <1>5, <1>6
<1>11. OpeningDoes(k, h[j], h[k]) /\ h[j] \in Behind BY ONLY <1>9, <1>10 DEF Does
<1>12. PICK a \in {0, 1} : h[k].ins = Append(h[j].ins, [at |-> i, args |-> a])
  <2>1. PICK a \in {0, 1} : h[k].ins = Append(h[j].ins, [at |-> k - 1, args |-> a])
    BY ONLY <1>11 DEF OpeningDoes
  <2> QED BY ONLY <1>7, <2>1, a \in {0, 1}
<1>13. PICK c : c = [at |-> i, args |-> a] OBVIOUS
<1>14. c \in CallRecord /\ c.at = i BY ONLY <1>4, <1>13, a \in {0, 1} DEF CallRecord
<1>15. FrameOfCall(x, f, c)
  <2>1. f.how = "method" => i > 1 /\ x[i - 1] = "v"
    <3> SUFFICES ASSUME f.how = "method" PROVE i > 1 /\ x[i - 1] = "v" OBVIOUS
    <3>1. j > 0 /\ x[j] = "v" BY <1>2 DEF Position
    <3> QED BY ONLY <1>3, <1>4, <3>1, j \in 0 .. Len(x)
  <2>2. f.how = "link" => i > 1 /\ x[i - 1] = ")"
    <3> SUFFICES ASSUME f.how = "link" PROVE i > 1 /\ x[i - 1] = ")" OBVIOUS
    <3>1. j > 0 /\ x[j] = ")" BY <1>2 DEF Position
    <3> QED BY ONLY <1>3, <1>4, <3>1, j \in 0 .. Len(x)
  <2>3. f.at = i /\ (f.how = "call" <=> x[i] = "f") OBVIOUS
  <2> QED BY ONLY <1>14, <2>1, <2>2, <2>3 DEF FrameOfCall
<1>16. h[j].ins \in Seq(CallRecord) BY ONLY <1>11, Parts
<1>17. Stacked(x, Append(fs, f), Append(h[j].ins, c), "arguments")
  BY ONLY <1>2, <1>14, <1>15, <1>16, m # "arguments", f.args = << >>,
          fs \in Seq(FrameOf(1 .. Len(x))), f \in FrameOf(1 .. Len(x)), StackMore
<1>18. Stacked(x, Append(fs, f), h[k].ins, "arguments") BY ONLY <1>12, <1>13, <1>17
<1>19. Position(x, k, "arguments", k + 1) BY ONLY <1>1, <1>7, <1>10 DEF Position
<1>20. rd = h[k].mea BY ONLY <1>2, <1>11 DEF OpeningDoes
<1> QED BY ONLY <1>6, <1>7, <1>18, <1>19, <1>20 DEF Match

\* The closing brackets that the end of a call reads.
BracketsRead(x, f, i, e) ==
  /\ e \in 1 .. Len(x) + 1 /\ e >= i
  /\ i <= Len(x) /\ x[i] = ")" =>
       \/ e = i + 1
       \/ /\ e = i + 2 /\ i + 1 <= Len(x) /\ x[i + 1] = ")"
          /\ f.how = "link" \/ (f.how = "call" /\ f.args = << >>)

LEMMA PastCallReads ==
  ASSUME text \in Seq(Token), NEW i \in 1 .. Len(text) + 1, NEW f, f.how \in Hows
  PROVE  BracketsRead(text, f, i, PastCall(f, i))
<1>1. PICK n \in Nat : n = Len(text) OBVIOUS
<1>2. PICK a, b : a = Past(i) /\ b = IF f.args = << >> \/ f.how # "call" THEN a ELSE i OBVIOUS
<1>3. PICK e : e = PastCall(f, i) OBVIOUS
<1>4. e = IF f.how = "method" THEN b ELSE Past(b) BY <1>2, <1>3 DEF PastCall
<1>5. i \in 1 .. n + 1 BY <1>1
<1>6. a \in 1 .. n + 1 /\ a \in {i, i + 1} /\ (a = i + 1 <=> i <= n /\ text[i] = ")")
  BY ONLY <1>1, <1>2, <1>5, PastFacts
<1>7. b \in 1 .. n + 1 /\ b \in {i, a} BY ONLY <1>2, <1>5, <1>6
<1>8. PICK p : p = Past(b) OBVIOUS
<1>9. p \in 1 .. n + 1 /\ p \in {b, b + 1} /\ (p = b + 1 <=> b <= n /\ text[b] = ")")
  BY ONLY <1>1, <1>7, <1>8, PastFacts
<1>10. e \in {b, p} BY ONLY <1>4, <1>8
<1>11. e \in 1 .. n + 1 /\ e >= i BY ONLY <1>5, <1>6, <1>7, <1>9, <1>10
<1>12. ASSUME i <= n, text[i] = ")"
       PROVE  \/ e = i + 1
              \/ /\ e = i + 2 /\ i + 1 <= n /\ text[i + 1] = ")"
                 /\ f.how = "link" \/ (f.how = "call" /\ f.args = << >>)
  <2>1. a = i + 1 BY ONLY <1>6, <1>12
  <2>2. CASE f.how = "method" BY ONLY <1>2, <1>4, <2>1, <2>2
  <2>3. CASE f.how = "call" /\ f.args # << >>
    <3>1. b = i /\ e = p BY ONLY <1>2, <1>4, <1>8, <2>3
    <3>2. p = i + 1 BY ONLY <1>9, <1>12, <3>1
    <3> QED BY ONLY <3>1, <3>2
  <2>4. CASE f.how = "link" \/ (f.how = "call" /\ f.args = << >>)
    <3>1. b = a /\ e = p BY ONLY <1>2, <1>4, <1>8, <2>4
    <3>2. b = i + 1 /\ b + 1 = i + 2 BY ONLY <1>5, <2>1, <3>1
    <3>3. CASE p = b BY ONLY <3>1, <3>2, <3>3
    <3>4. CASE p # b
      <4>1. p = b + 1 BY ONLY <1>9, <3>4
      <4>2. b <= n /\ text[b] = ")" BY ONLY <1>9, <4>1
      <4>3. e = i + 2 /\ i + 1 <= n /\ text[i + 1] = ")" BY ONLY <3>1, <3>2, <4>1, <4>2
      <4> QED BY ONLY <2>4, <4>3
    <3> QED BY <3>3, <3>4
  <2> QED BY <2>2, <2>3, <2>4 DEF Hows
<1> QED BY ONLY <1>1, <1>3, <1>11, <1>12 DEF BracketsRead

\* The end of a call is read.
LEMMA MatchReturn ==
  ASSUME NEW x \in Seq(Token), NEW h, Story(x, h), Plain(x, h), NEW j \in 0 .. Len(x), NEW m,
         NEW i \in 1 .. Len(x) + 1, NEW fs \in Seq(FrameOf(1 .. Len(x))), NEW rd,
         Match(x, h, j, m, i, fs, rd), fs # << >>, j < Len(x), x[j + 1] = ")",
         NEW f \in FrameOf(1 .. Len(x)), f.at = LastOf(fs).at, f.how = LastOf(fs).how,
         LastOf(h[j].ins).args = Len(f.args), NEW e, BracketsRead(x, f, i, e)
  PROVE  Match(x, h, j + 1, IF f.how = "call" THEN "expression" ELSE "member", e, Front(fs),
               Append(rd, [at |-> f.at, args |-> Len(f.args)]))
<1>1. PICK n \in Nat, p \in Nat : n = Len(x) /\ p = j + 1 OBVIOUS
<1>2. Position(x, j, m, i) /\ Stacked(x, fs, h[j].ins, m) /\ rd = h[j].mea BY DEF Match
<1>3. p \in 1 .. n /\ p - 1 = j /\ p \in 0 .. n BY ONLY <1>1, j < Len(x), j \in 0 .. Len(x)
<1>4. Does(x, p, h[j], h[p])
  <2>1. Does(x, p, h[p - 1], h[p]) BY <1>1, <1>3, StoryDoes
  <2> QED BY ONLY <1>3, <2>1
<1>5. x[p] = ")" BY <1>1
<1>6. ClosingDoes(x, p, h[j], h[p]) /\ h[j] \in Behind BY ONLY <1>4, <1>5 DEF Does
<1>7. PICK c, l, g : c = LastOf(h[j].ins) /\ l = LastOf(fs) /\ g = CalleeAt(h, p) OBVIOUS
<1>8. PICK m1 : m1 = IF f.how = "call" THEN "expression" ELSE "member" OBVIOUS
<1>9. m1 # "arguments" BY <1>8
<1>10. h[j].ins \in Seq(CallRecord) /\ h[j].ins # << >>
  BY ONLY <1>6, Parts DEF ClosingDoes
<1>11. Stacked(x, Front(fs), Front(h[j].ins), m1) /\ FrameOfCall(x, l, c)
  BY ONLY <1>2, <1>7, <1>9, <1>10, fs \in Seq(FrameOf(1 .. Len(x))), fs # << >>, StackLess
<1>12. Stacked(x, Front(fs), h[p].ins, m1) BY ONLY <1>6, <1>11 DEF ClosingDoes
<1>13. g = c.at /\ c.at = f.at
  <2>1. g = c.at BY ONLY <1>3, <1>7 DEF CalleeAt
  <2>2. l.at = c.at BY ONLY <1>11 DEF FrameOfCall
  <2>3. f.at = l.at BY <1>7
  <2> QED BY ONLY <2>1, <2>2, <2>3
<1>14. c \in CallRecord
  <2>1. PICK s \in Seq(CallRecord) : s = h[j].ins BY <1>10
  <2>2. s[Len(s)] \in CallRecord BY ONLY <1>10, <2>1, s \in Seq(CallRecord)
  <2> QED BY ONLY <1>7, <2>1, <2>2 DEF LastOf
<1>15. Append(rd, [at |-> f.at, args |-> Len(f.args)]) = h[p].mea
  <2>1. c.args = Len(f.args) BY <1>7
  <2>2. c = [at |-> f.at, args |-> Len(f.args)] BY ONLY <1>13, <1>14, <2>1 DEF CallRecord
  <2>3. h[p].mea = Append(rd, c) BY ONLY <1>2, <1>6, <1>7 DEF ClosingDoes
  <2> QED BY ONLY <2>2, <2>3
<1>16. /\ f.how = "call" <=> x[g] = "f"
       /\ f.how = "link" => x[g - 1] = ")"
  <2>1. /\ l.how = "call" <=> x[l.at] = "f"
        /\ l.how = "link" => x[l.at - 1] = ")"
    BY ONLY <1>11 DEF FrameOfCall
  <2>2. f.how = l.how /\ f.at = l.at BY <1>7
  <2> QED BY ONLY <1>13, <2>1, <2>2
<1>17. f.args = << >> => x[p - 1] = "("
  <2> SUFFICES ASSUME f.args = << >> PROVE x[p - 1] = "(" OBVIOUS
  <2>1. c.args = Len(f.args) BY <1>7
  <2>2. Len(f.args) = 0 OBVIOUS
  <2>3. LastOf(h[j].ins).args = 0 BY ONLY <1>7, <2>1, <2>2
  <2> QED BY ONLY <1>6, <2>3 DEF ClosingDoes
<1>18. PlainAt(x, h, p) BY ONLY <1>1, <1>3, Plain(x, h) DEF Plain
<1>19. (f.how = "link" \/ (f.how = "call" /\ f.args = << >>)) => Greedy(x, h, p)
  BY ONLY <1>7, <1>16, <1>17 DEF Greedy
<1>20. e = p + 1 \/ (e > p + 1 /\ Trails(x, p))
  <2>1. CASE i = j + 1
    <3>1. i = p /\ i <= n /\ x[i] = ")" BY ONLY <1>1, <1>3, <1>5, <2>1
    <3>2. \/ e = p + 1
          \/ /\ e = p + 2 /\ p + 1 <= n /\ x[p + 1] = ")"
             /\ f.how = "link" \/ (f.how = "call" /\ f.args = << >>)
      BY ONLY <1>1, <3>1, BracketsRead(x, f, i, e) DEF BracketsRead
    <3>3. CASE e = p + 1 BY <3>3
    <3>4. CASE e # p + 1
      <4>1. e = p + 2 /\ p + 1 <= n /\ x[p + 1] = ")" /\ Greedy(x, h, p) BY ONLY <1>19, <3>2, <3>4
      <4>2. p < n /\ e > p + 1 BY ONLY <1>3, <4>1, n \in Nat
      <4>3. Trails(x, p) BY ONLY <1>1, <1>5, <1>18, <4>1, <4>2 DEF PlainAt
      <4> QED BY <4>2, <4>3
    <3> QED BY <3>3, <3>4
  <2>2. CASE i # j + 1
    <3>1. i > j + 1 /\ Trails(x, j) BY ONLY <1>2, <2>2 DEF Position
    <3>2. ASSUME NEW q \in p + 1 .. Len(x) PROVE x[q] = ")"
      <4>1. q \in j + 1 .. Len(x) BY ONLY <1>1, q \in p + 1 .. Len(x), j \in 0 .. Len(x), n \in Nat
      <4> QED BY ONLY <3>1, <4>1 DEF Trails
    <3>3. Trails(x, p) BY ONLY <3>2 DEF Trails
    <3>4. e >= i /\ e \in 1 .. n + 1 BY ONLY <1>1, BracketsRead(x, f, i, e) DEF BracketsRead
    <3>5. e >= p + 1
      <4>1. i \in 1 .. n + 1 BY <1>1
      <4> QED BY ONLY <1>1, <3>1, <3>4, <4>1, p \in Nat
    <3>6. e = p + 1 \/ e > p + 1 BY ONLY <3>4, <3>5, p \in Nat
    <3> QED BY <3>3, <3>6
  <2> QED BY <2>1, <2>2
<1>21. p > 0 /\ x[p] \in {"v", ")"} BY ONLY <1>3, <1>5
<1>22. ASSUME m1 = "expression", p < n PROVE x[p + 1] \notin {"b", "u"}
  <2>1. f.how = "call" BY ONLY <1>8, <1>22
  <2>2. x[CalleeAt(h, p)] = "f" BY ONLY <1>7, <1>16, <2>1
  <2> QED BY ONLY <1>1, <1>5, <1>18, <1>22, <2>2 DEF PlainAt
<1>23. m1 \in {"member", "expression"} BY ONLY <1>8
<1>24. Position(x, p, m1, e)
  BY ONLY <1>1, <1>3, <1>5, <1>20, <1>21, <1>22, <1>23 DEF Position
<1> QED BY ONLY <1>1, <1>8, <1>12, <1>15, <1>24 DEF Match

\* An argument begins.
LEMMA MatchFirst ==
  ASSUME NEW x \in Seq(Token), NEW h, Story(x, h), Follows(x), NEW j \in 0 .. Len(x), NEW i,
         NEW fs \in Seq(FrameOf(1 .. Len(x))), NEW rd,
         Match(x, h, j, "arguments", i, fs, rd), i <= Len(x), x[i] \in {"v", "f"}
  PROVE  Match(x, h, j, "operand", i, fs, rd)
<1>1. PICK n \in Nat : n = Len(x) OBVIOUS
<1>2. Position(x, j, "arguments", i) /\ Stacked(x, fs, h[j].ins, "arguments") /\ rd = h[j].mea
  BY DEF Match
<1>3. i = j + 1 /\ j > 0 /\ x[j] = "(" BY ONLY <1>2 DEF Position
<1>4. i \in 1 .. n /\ i - 1 = j /\ i > 1 BY ONLY <1>1, <1>3, i <= Len(x), j \in 0 .. Len(x)
<1>5. Does(x, i, h[j], h[i])
  <2>1. Does(x, i, h[i - 1], h[i]) BY <1>1, <1>4, StoryDoes
  <2> QED BY ONLY <1>4, <2>1
<1>6. h[j].ins # << >> /\ LastOf(h[j].ins).args = 1
  <2>1. ByFirst(x, i, h[j]) BY ONLY <1>5 DEF Does
  <2>2. x[i - 1] = "(" BY ONLY <1>3, <1>4
  <2> QED BY ONLY <1>4, <2>1, <2>2, x[i] \in {"v", "f"} DEF ByFirst
<1>7. PICK l : l = Len(fs) OBVIOUS
<1>8. /\ FramesOfCalls(x, fs, h[j].ins) /\ fs # << >> /\ LastOf(fs).args = << >>
      /\ ArgumentsTo(fs, h[j].ins, l - 1)
  BY ONLY <1>2, <1>7 DEF Stacked
<1>9. l \in Nat /\ l \in 1 .. l BY ONLY <1>7, <1>8, fs \in Seq(FrameOf(1 .. Len(x)))
<1>10. Len(h[j].ins) = l BY ONLY <1>7, <1>8 DEF FramesOfCalls
<1>11. ASSUME NEW k \in 1 .. l PROVE OneMoreArgument(fs[k], h[j].ins[k])
  <2>1. CASE k = l
    <3>1. fs[k].args = << >> BY ONLY <1>7, <1>8, <2>1 DEF LastOf
    <3>2. h[j].ins[k].args = 1 BY ONLY <1>6, <1>10, <2>1 DEF LastOf
    <3>3. Len(<< >>) + 1 = 1 OBVIOUS
    <3> QED BY ONLY <3>1, <3>2, <3>3 DEF OneMoreArgument
  <2>2. CASE k # l
    <3>1. k \in 1 .. l - 1 BY ONLY <1>9, <2>2, k \in 1 .. l
    <3> QED BY ONLY <1>8, <3>1 DEF ArgumentsTo
  <2> QED BY <2>1, <2>2
<1>12. Stacked(x, fs, h[j].ins, "operand") BY ONLY <1>7, <1>8, <1>11 DEF Stacked, ArgumentsTo
<1>13. Position(x, j, "operand", i) BY ONLY <1>1, <1>2, <1>3 DEF Position
<1> QED BY ONLY <1>2, <1>12, <1>13 DEF Match

\* Nothing of an expression is left.
LEMMA MatchEndOfExpression ==
  ASSUME NEW x \in Seq(Token), NEW h, NEW j \in 0 .. Len(x), NEW m, m \in {"primary", "member"},
         NEW i, NEW fs, NEW rd, Match(x, h, j, m, i, fs, rd), i <= Len(x) => x[i] \notin {"b", "u"}
  PROVE  Match(x, h, j, "expression", i, fs, rd)
<1>1. PICK n \in Nat : n = Len(x) OBVIOUS
<1>2. Position(x, j, m, i) /\ Stacked(x, fs, h[j].ins, m) /\ rd = h[j].mea BY DEF Match
<1>3. j > 0 /\ x[j] \in {"v", ")"} BY ONLY <1>2, m \in {"primary", "member"} DEF Position
<1>4. ASSUME j < n PROVE x[j + 1] \notin {"b", "u"}
  <2>1. CASE i = j + 1
    <3>1. i <= n BY ONLY <1>4, <2>1, n \in Nat, j \in 0 .. Len(x), <1>1
    <3> QED BY ONLY <1>1, <2>1, <3>1, i <= Len(x) => x[i] \notin {"b", "u"}
  <2>2. CASE i # j + 1
    <3>1. Trails(x, j) BY ONLY <1>2, <2>2 DEF Position
    <3>2. j + 1 \in j + 1 .. Len(x) BY ONLY <1>1, <1>4, n \in Nat, j \in 0 .. Len(x)
    <3>3. x[j + 1] = ")" BY ONLY <3>1, <3>2 DEF Trails
    <3> QED BY ONLY <3>3
  <2> QED BY <2>1, <2>2
<1>5. Position(x, j, "expression", i)
  <2>1. i = j + 1 \/ (i > j + 1 /\ Trails(x, j)) BY ONLY <1>2 DEF Position
  <2> QED BY ONLY <1>1, <1>3, <1>4, <2>1, j \in 0 .. Len(x) DEF Position
<1>6. Stacked(x, fs, h[j].ins, "expression")
  BY ONLY <1>2, m \in {"primary", "member"} DEF Stacked
<1> QED BY ONLY <1>2, <1>5, <1>6 DEF Match

\* The token behind an argument.
LEMMA BehindExpression ==
  ASSUME NEW x \in Seq(Token), NEW h, Story(x, h), Follows(x), h[Len(x)].ins = << >>,
         NEW j \in 0 .. Len(x), NEW i \in 1 .. Len(x) + 1, NEW fs, NEW rd,
         Match(x, h, j, "expression", i, fs, rd)
  PROVE  /\ h[j].ins # << >> => j < Len(x)
         /\ j < Len(x) => x[j + 1] \in {",", ")"} /\ h[j].ins # << >>
         /\ j < Len(x) /\ x[j + 1] = "," => i = j + 1
<1>1. PICK n \in Nat : n = Len(x) OBVIOUS
<1>2. Position(x, j, "expression", i) BY DEF Match
<1>3. j > 0 /\ x[j] \in {"v", ")"} /\ (j < n => x[j + 1] \notin {"b", "u"})
  BY ONLY <1>1, <1>2 DEF Position
<1>4. h[j].ins # << >> => j < n
  <2> SUFFICES ASSUME h[j].ins # << >> PROVE j < n OBVIOUS
  <2>1. j # n BY <1>1
  <2> QED BY ONLY <1>1, <2>1, n \in Nat, j \in 0 .. Len(x)
<1>5. ASSUME j < n PROVE x[j + 1] \in {",", ")"} /\ h[j].ins # << >>
  <2>1. j \in 1 .. n BY ONLY <1>1, <1>3, <1>5, n \in Nat, j \in 0 .. Len(x)
  <2>2. FollowsAt(x, j) BY ONLY <1>1, <2>1, Follows(x) DEF Follows
  <2>3. x[j + 1] \in {"b", "u", ",", ")"} BY ONLY <1>1, <1>3, <1>5, <2>2 DEF FollowsAt
  <2>4. x[j + 1] \in {",", ")"} BY ONLY <1>3, <1>5, <2>3
  <2>5. PICK p \in Nat : p = j + 1 BY <2>1
  <2>6. p \in 1 .. n /\ p - 1 = j BY ONLY <1>5, <2>1, <2>5, n \in Nat
  <2>7. Does(x, p, h[j], h[p])
    <3>1. Does(x, p, h[p - 1], h[p]) BY ONLY <1>1, <2>6, Story(x, h), StoryDoes
    <3> QED BY ONLY <2>6, <3>1
  <2>8. x[p] \in {",", ")"} BY ONLY <2>4, <2>5
  <2>9. h[j].ins # << >> BY ONLY <2>7, <2>8 DEF Does, CommaDoes, ClosingDoes
  <2> QED BY <2>4, <2>9
<1>6. ASSUME j < n, x[j + 1] = "," PROVE i = j + 1
  <2> SUFFICES ASSUME i # j + 1 PROVE FALSE OBVIOUS
  <2>1. Trails(x, j) BY ONLY <1>2, i # j + 1 DEF Position
  <2>4. j < n BY <1>6
  <2>2. j + 1 \in j + 1 .. Len(x) BY ONLY <1>1, <2>4, n \in Nat, j \in 0 .. Len(x)
  <2>3. x[j + 1] = ")" BY ONLY <2>1, <2>2 DEF Trails
  <2> QED BY <1>6, <2>3
<1> QED BY ONLY <1>1, <1>4, <1>5, <1>6

\* A comma is read.
LEMMA MatchComma ==
  ASSUME NEW x \in Seq(Token), NEW h, Story(x, h), NEW j \in 0 .. Len(x), NEW i,
         NEW fs \in Seq(FrameOf(1 .. Len(x))), NEW rd, i = j + 1, i <= Len(x), x[i] = ",",
         Match(x, h, j, "expression", i, fs, rd), NEW e \in Seq(1 .. Len(x)),
         NEW gs, gs = [fs EXCEPT ![Len(fs)] = [fs[Len(fs)] EXCEPT !.args = Append(@, e)]]
  PROVE  Match(x, h, i, "operand", i + 1, gs, rd)
<1>27. PICK n \in Nat : n = Len(x) BY ONLY x \in Seq(Token)
<1>28. PICK P : P = 1 .. Len(x) OBVIOUS
<1>1. n = Len(x) /\ P = 1 .. Len(x) BY <1>27, <1>28
<1>2. Stacked(x, fs, h[j].ins, "expression") /\ rd = h[j].mea BY DEF Match
<1>3. i \in 1 .. n /\ i - 1 = j /\ i \in 0 .. n BY ONLY <1>1, i = j + 1, i <= Len(x), j \in 0 .. Len(x)
<1>4. Does(x, i, h[j], h[i])
  <2>1. Does(x, i, h[i - 1], h[i]) BY ONLY <1>1, <1>3, Story(x, h), StoryDoes
  <2> QED BY ONLY <1>3, <2>1
<1>5. CommaDoes(h[j], h[i]) /\ h[j] \in Behind BY ONLY <1>4, x[i] = "," DEF Does
<1>6. PICK ins, l : ins = h[j].ins /\ l = Len(fs) OBVIOUS
<1>7. ins \in Seq(CallRecord) /\ ins # << >> BY ONLY <1>5, <1>6, Parts DEF CommaDoes
<1>8. FramesOfCalls(x, fs, ins) /\ ArgumentsTo(fs, ins, l) BY ONLY <1>2, <1>6 DEF Stacked
<1>9. Len(ins) = l BY ONLY <1>6, <1>8 DEF FramesOfCalls
<1>10. l \in Nat /\ l \in 1 .. l BY ONLY <1>7, <1>9
<1>11. ins[l] \in CallRecord BY ONLY <1>7, <1>9, <1>10
<1>12. PICK c : c = [ins[l] EXCEPT !.args = @ + 1] OBVIOUS
<1>13. c \in CallRecord /\ c.at = ins[l].at /\ c.args = ins[l].args + 1 /\ ins[l].args \in Nat
  <2>1. PICK d \in CallRecord : d = ins[l] BY <1>11
  <2>2. c = [d EXCEPT !.args = d.args + 1] BY <1>12, <2>1
  <2>3. c \in CallRecord /\ c.at = d.at /\ c.args = d.args + 1 /\ d.args \in Nat
    BY ONLY <2>2, d \in CallRecord DEF CallRecord
  <2> QED BY ONLY <2>1, <2>3
<1>14. h[i].ins = [ins EXCEPT ![l] = c]
  <2>1. h[i].ins = [ins EXCEPT ![Len(ins)].args = @ + 1] BY ONLY <1>5, <1>6 DEF CommaDoes
  <2> QED BY ONLY <1>9, <1>12, <2>1
<1>15. PICK new : new = h[i].ins OBVIOUS
<1>16. Len(new) = l /\ new[l] = c /\ \A k \in 1 .. l : k # l => new[k] = ins[k]
  BY ONLY <1>7, <1>9, <1>10, <1>13, <1>14, <1>15
<1>17. fs[l] \in FrameOf(P) BY ONLY <1>1, <1>6, <1>10, fs \in Seq(FrameOf(1 .. Len(x)))
<1>18. PICK f, g : f \in FrameOf(P) /\ f = fs[l] /\ g = [f EXCEPT !.args = Append(@, e)] BY <1>17
<1>18a. f \in FrameOf(P) BY ONLY <1>18
<1>19. /\ g \in FrameOf(P) /\ g.at = f.at /\ g.how = f.how /\ g.args = Append(f.args, e)
  <2>1. PICK e1 \in Seq(P) : e1 = e BY <1>1
  <2>2. PICK t : t = Append(f.args, e1) OBVIOUS
  <2>3. f.args \in Seq(Seq(P)) BY ONLY <1>18a DEF FrameOf
  <2>4. t \in Seq(Seq(P)) BY ONLY <2>2, <2>3, e1 \in Seq(P)
  <2>5. g = [f EXCEPT !.args = t] BY ONLY <1>18, <2>1, <2>2
  <2>6. g \in FrameOf(P) /\ g.at = f.at /\ g.how = f.how /\ g.args = t
    BY ONLY <2>4, <2>5, <1>18a DEF FrameOf
  <2> QED BY ONLY <2>1, <2>2, <2>6
<1>20. gs = [fs EXCEPT ![l] = g] BY <1>6, <1>18
<1>21. /\ Len(gs) = l /\ gs[l] = g /\ \A k \in 1 .. l : k # l => gs[k] = fs[k]
  BY ONLY <1>1, <1>6, <1>10, <1>19, <1>20, fs \in Seq(FrameOf(1 .. Len(x)))
<1>22. Len(g.args) = Len(f.args) + 1 /\ Len(f.args) \in Nat
  <2>1. f.args \in Seq(Seq(P)) BY ONLY <1>18a DEF FrameOf
  <2>2. e \in Seq(P) BY <1>1
  <2> QED BY ONLY <1>19, <2>1, <2>2, AppendFacts
<1>23. ASSUME NEW k \in 1 .. l PROVE FrameOfCall(x, gs[k], new[k]) /\ OneMoreArgument(gs[k], new[k])
  <2>1. FrameOfCall(x, fs[k], ins[k]) /\ OneMoreArgument(fs[k], ins[k])
    BY ONLY <1>6, <1>8, k \in 1 .. l DEF FramesOfCalls, ArgumentsTo
  <2>2. CASE k = l
    <3>1. FrameOfCall(x, f, ins[l]) /\ OneMoreArgument(f, ins[l]) BY ONLY <1>18, <2>1, <2>2
    <3>2. FrameOfCall(x, g, c) BY ONLY <1>13, <1>19, <3>1 DEF FrameOfCall
    <3>3. OneMoreArgument(g, c)
      <4>1. ins[l].args = Len(f.args) + 1 BY ONLY <3>1 DEF OneMoreArgument
      <4> QED BY ONLY <1>13, <1>22, <4>1 DEF OneMoreArgument
    <3> QED BY ONLY <1>16, <1>21, <2>2, <3>2, <3>3
  <2>3. CASE k # l BY ONLY <1>16, <1>21, <2>1, <2>3, k \in 1 .. l
  <2> QED BY <2>2, <2>3
<1>24. Stacked(x, gs, new, "operand")
  BY ONLY <1>16, <1>21, <1>23 DEF Stacked, FramesOfCalls, ArgumentsTo
<1>25. Position(x, i, "operand", i + 1) BY ONLY <1>1, <1>3 DEF Position
<1>26. rd = h[i].mea BY ONLY <1>2, <1>5 DEF CommaDoes
<1> QED BY ONLY <1>15, <1>24, <1>25, <1>26 DEF Match

\* The expression is read.
LEMMA MatchEnd ==
  ASSUME NEW x \in Seq(Token), NEW h, Story(x, h), Follows(x), h[Len(x)].ins = << >>,
         NEW j \in 0 .. Len(x), NEW i \in 1 .. Len(x) + 1, NEW rd,
         Match(x, h, j, "expression", i, << >>, rd)
  PROVE  Match(x, h, j, "end", i, << >>, rd)
<1>1. PICK n \in Nat : n = Len(x) OBVIOUS
<1>2. Position(x, j, "expression", i) /\ Stacked(x, << >>, h[j].ins, "expression") /\ rd = h[j].mea
  BY DEF Match
<1>3. PICK p \in Nat : p = j BY <1>1
<1>4. h[j].ins = << >>
  <2>1. Len(<< >>) = Len(h[j].ins) BY ONLY <1>2 DEF Stacked, FramesOfCalls
  <2>2. h[j] \in Behind BY DEF Story
  <2>3. h[j].ins \in Seq(CallRecord) BY ONLY <2>2, Parts
  <2> QED BY ONLY <2>1, <2>3
<1>5. j < Len(x) => h[j].ins # << >> BY BehindExpression
<1>6. j = Len(x) BY ONLY <1>1, <1>4, <1>5, j \in 0 .. Len(x)
<1>7. Position(x, j, "end", i)
  <2>1. i = j + 1 \/ (i > j + 1 /\ Trails(x, j)) BY ONLY <1>2 DEF Position
  <2> QED BY ONLY <1>6, <2>1, j \in 0 .. Len(x) DEF Position
<1>8. Stacked(x, << >>, h[j].ins, "end") BY ONLY <1>2 DEF Stacked
<1> QED BY ONLY <1>2, <1>7, <1>8 DEF Match

\* The author's history, and where the parser is in it.
Known(h) == Story(text, h) /\ Plain(text, h) /\ Follows(text) /\ h[Len(text)].ins = << >>
Here(h, j) == Match(text, h, j, mode, at, frames, read)

LEMMA HereFacts ==
  ASSUME ParserInv, NEW h, Known(h), NEW j, Here(h, j)
  PROVE  /\ text \in Seq(Token) /\ Story(text, h) /\ Plain(text, h) /\ Follows(text)
         /\ h[Len(text)].ins = << >> /\ j \in 0 .. Len(text) /\ at \in 1 .. Len(text) + 1
         /\ frames \in Seq(FrameOf(1 .. Len(text))) /\ value \in Seq(Seq(1 .. Len(text)))
         /\ Match(text, h, j, mode, at, frames, read)
         /\ Peek(at) = IF at <= Len(text) THEN text[at] ELSE "end"
<1>1. /\ text \in Seq(Token) /\ Story(text, h) /\ Plain(text, h) /\ Follows(text)
      /\ h[Len(text)].ins = << >>
  BY ONLY Known(h) DEF Known, Follows
<1>2. Match(text, h, j, mode, at, frames, read) BY DEF Here
<1>3. j \in 0 .. Len(text) BY ONLY <1>2 DEF Match, Position
<1>4. /\ at \in 1 .. Len(text) + 1 /\ frames \in Seq(FrameOf(1 .. Len(text)))
      /\ value \in Seq(Seq(1 .. Len(text)))
  BY ONLY ParserInv DEF ParserInv, Parsed, Shaped
<1>5. PICK n \in Nat : n = Len(text) BY ONLY <1>1
<1>6. at \in 1 .. n + 1 BY <1>4, <1>5
<1>7. Peek(at) = IF at <= n THEN text[at] ELSE "end" BY ONLY <1>5, <1>6, PeekIs
<1> QED BY ONLY <1>1, <1>2, <1>3, <1>4, <1>5, <1>7

LEMMA ReadOperandMatches ==
  ASSUME ParserInv, NEW h, Known(h), NEW j, Here(h, j), ReadOperand
  PROVE  Match(text, h, at, mode', at', frames', read')
<1>1. /\ mode = "operand" /\ Peek(at) = "v" /\ at' = at + 1 /\ mode' = "primary"
      /\ read' = Append(read, [at |-> at, args |-> 0]) /\ frames' = frames
  BY DEF ReadOperand
<1>2. /\ text \in Seq(Token) /\ Story(text, h) /\ j \in 0 .. Len(text)
      /\ Match(text, h, j, mode, at, frames, read)
      /\ Peek(at) = IF at <= Len(text) THEN text[at] ELSE "end"
  BY HereFacts
<1>3. at <= Len(text) /\ text[at] = "v"
  <2>1. "end" # "v" OBVIOUS
  <2> QED BY ONLY <1>1, <1>2, <2>1
<1>4. Match(text, h, j, "operand", at, frames, read) BY ONLY <1>1, <1>2
<1>5. Match(text, h, at, "primary", at + 1, frames, Append(read, [at |-> at, args |-> 0]))
  BY ONLY <1>2, <1>3, <1>4, MatchOperand
<1> QED BY ONLY <1>1, <1>5

LEMMA ReadNameMatches ==
  ASSUME ParserInv, NEW h, Known(h), NEW j, Here(h, j), mode # "arguments", Peek(at) \in Callee,
         NEW how \in Hows, NEW left \in Seq(Seq(1 .. Len(text))), ReadName(how, left),
         how = "call" <=> Peek(at) = "f",
         how = "method" => mode = "primary", how = "link" => mode = "member"
  PROVE  Match(text, h, at + 1, mode', at', frames', read')
<1>1. PICK f : f = [at |-> at, how |-> how, left |-> left, args |-> << >>] OBVIOUS
<1>2. at' = at + 2 /\ mode' = "arguments" /\ read' = read /\ frames' = Append(frames, f)
  BY <1>1 DEF ReadName
<1>3. /\ text \in Seq(Token) /\ Story(text, h) /\ Follows(text) /\ j \in 0 .. Len(text)
      /\ Match(text, h, j, mode, at, frames, read) /\ at \in 1 .. Len(text) + 1
      /\ frames \in Seq(FrameOf(1 .. Len(text)))
      /\ Peek(at) = IF at <= Len(text) THEN text[at] ELSE "end"
  BY HereFacts
<1>4. at <= Len(text) /\ text[at] = Peek(at) /\ text[at] \in Callee
  <2>1. "end" \notin Callee BY DEF Callee
  <2> QED BY ONLY <1>3, <2>1, Peek(at) \in Callee
<1>5. at \in 1 .. Len(text)
  <2>1. PICK n \in Nat : n = Len(text) BY ONLY <1>3
  <2>2. at \in 1 .. n + 1 /\ at <= n BY <1>3, <1>4, <2>1
  <2> QED BY ONLY <2>1, <2>2
<1>6. f \in FrameOf(1 .. Len(text)) /\ f.at = at /\ f.how = how /\ f.args = << >>
  <2>1. << >> \in Seq(Seq(1 .. Len(text))) OBVIOUS
  <2> QED BY ONLY <1>1, <1>5, <2>1, how \in Hows, left \in Seq(Seq(1 .. Len(text))) DEF FrameOf
<1>7. /\ f.how = "call" <=> text[at] = "f"
      /\ f.how = "method" => mode = "primary"
      /\ f.how = "link" => mode = "member"
  BY <1>4, <1>6
<1>8. Match(text, h, at + 1, "arguments", at + 2, Append(frames, f), read)
  BY ONLY <1>3, <1>4, <1>6, <1>7, mode # "arguments", MatchName
<1> QED BY ONLY <1>2, <1>8

\* The end of the list of arguments is a closing bracket, and the call has all of them.
LEMMA ReturnMatches ==
  ASSUME ParserInv, NEW h, Known(h), NEW j, Here(h, j), frames # << >>, j < Len(text),
         text[j + 1] = ")", NEW f \in FrameOf(1 .. Len(text)), f.at = LastOf(frames).at,
         f.how = LastOf(frames).how, LastOf(h[j].ins).args = Len(f.args), Returns(f)
  PROVE  Match(text, h, j + 1, mode', at', frames', read')
<1>1. /\ at' = PastCall(f, at) /\ frames' = Front(frames)
      /\ read' = Append(read, [at |-> f.at, args |-> Len(f.args)])
      /\ mode' = (IF f.how = "call" THEN "expression" ELSE "member")
  BY ReturnsAre
<1>2. /\ text \in Seq(Token) /\ Story(text, h) /\ Plain(text, h) /\ j \in 0 .. Len(text)
      /\ Match(text, h, j, mode, at, frames, read) /\ at \in 1 .. Len(text) + 1
      /\ frames \in Seq(FrameOf(1 .. Len(text)))
  BY HereFacts
<1>3. f.how \in Hows BY DEF FrameOf
<1>4. PICK e : e = PastCall(f, at) OBVIOUS
<1>5. BracketsRead(text, f, at, e) BY ONLY <1>2, <1>3, <1>4, PastCallReads
<1>6. Match(text, h, j + 1, IF f.how = "call" THEN "expression" ELSE "member", e, Front(frames),
            Append(read, [at |-> f.at, args |-> Len(f.args)]))
  BY ONLY <1>2, <1>5, frames # << >>, j < Len(text), text[j + 1] = ")",
          f \in FrameOf(1 .. Len(text)), f.at = LastOf(frames).at, f.how = LastOf(frames).how,
          LastOf(h[j].ins).args = Len(f.args), MatchReturn
<1> QED BY ONLY <1>1, <1>4, <1>6

\* Where the end of a call without arguments is.
LEMMA NoArgumentsThere ==
  ASSUME ParserInv, NEW h, Known(h), NEW j, Here(h, j), NoArguments
  PROVE  /\ frames # << >> /\ j < Len(text) /\ text[j + 1] = ")" /\ LastOf(frames).args = << >>
         /\ LastOf(frames) \in FrameOf(1 .. Len(text)) /\ Returns(LastOf(frames))
         /\ LastOf(h[j].ins).args = Len(LastOf(frames).args)
<1>1. mode = "arguments" /\ Peek(at) = ")" /\ Returns(LastOf(frames)) BY DEF NoArguments
<1>2. /\ text \in Seq(Token) /\ Story(text, h) /\ j \in 0 .. Len(text)
      /\ Match(text, h, j, mode, at, frames, read)
      /\ frames \in Seq(FrameOf(1 .. Len(text)))
      /\ Peek(at) = IF at <= Len(text) THEN text[at] ELSE "end"
  BY HereFacts
<1>3. Position(text, j, "arguments", at) /\ Stacked(text, frames, h[j].ins, "arguments")
  BY ONLY <1>1, <1>2 DEF Match
<1>4. at = j + 1 /\ j > 0 /\ text[j] = "(" BY ONLY <1>3 DEF Position
<1>5. frames # << >> /\ LastOf(frames).args = << >> BY ONLY <1>3 DEF Stacked
<1>6. at <= Len(text) /\ text[at] = ")"
  <2>1. "end" # ")" OBVIOUS
  <2> QED BY ONLY <1>1, <1>2, <2>1
<1>7. PICK n \in Nat : n = Len(text) BY ONLY <1>2
<1>8. at \in 1 .. n /\ at - 1 = j /\ j < n BY ONLY <1>2, <1>4, <1>6, <1>7
<1>9. ClosingDoes(text, at, h[j], h[at])
  <2>1. Does(text, at, h[at - 1], h[at]) BY ONLY <1>2, <1>7, <1>8, StoryDoes
  <2> QED BY ONLY <1>6, <1>8, <2>1 DEF Does
<1>10. LastOf(h[j].ins).args = 0
  <2>1. text[at - 1] = "(" BY ONLY <1>4, <1>8
  <2> QED BY ONLY <1>9, <2>1 DEF ClosingDoes
<1>11. LastOf(frames) \in FrameOf(1 .. Len(text))
  <2>1. PICK l : l = Len(frames) OBVIOUS
  <2>2. frames[l] \in FrameOf(1 .. Len(text)) BY ONLY <1>2, <1>5, <2>1
  <2> QED BY ONLY <2>1, <2>2 DEF LastOf
<1>12. Len(<< >>) = 0 OBVIOUS
<1> QED BY ONLY <1>1, <1>4, <1>5, <1>6, <1>7, <1>8, <1>10, <1>11, <1>12

\* Where the end of a call with arguments is, and its frame with the last of them.
LEMMA LastArgumentThere ==
  ASSUME ParserInv, NEW h, Known(h), NEW j, Here(h, j), LastArgument
  PROVE  LET l == LastOf(frames)  f == WithArgument(l)
         IN  /\ frames # << >> /\ j < Len(text) /\ text[j + 1] = ")"
             /\ l \in FrameOf(1 .. Len(text)) /\ f \in FrameOf(1 .. Len(text)) /\ Returns(f)
             /\ f.at = l.at /\ f.how = l.how /\ f.left = l.left
             /\ f.args = Append(l.args, value[1]) /\ value[1] \in Seq(1 .. Len(text))
             /\ LastOf(h[j].ins).args = Len(f.args)
<1>1. /\ mode = "expression" /\ frames # << >> /\ Peek(at) # ","
      /\ Returns(WithArgument(LastOf(frames)))
  BY DEF LastArgument
<1>2. /\ text \in Seq(Token) /\ Story(text, h) /\ Follows(text) /\ j \in 0 .. Len(text)
      /\ h[Len(text)].ins = << >> /\ Match(text, h, j, mode, at, frames, read)
      /\ frames \in Seq(FrameOf(1 .. Len(text))) /\ at \in 1 .. Len(text) + 1
      /\ Peek(at) = IF at <= Len(text) THEN text[at] ELSE "end"
  BY HereFacts
<1>3. Match(text, h, j, "expression", at, frames, read) BY ONLY <1>1, <1>2
<1>4. /\ h[j].ins # << >> => j < Len(text)
      /\ j < Len(text) => text[j + 1] \in {",", ")"} /\ h[j].ins # << >>
      /\ j < Len(text) /\ text[j + 1] = "," => at = j + 1
  BY ONLY <1>2, <1>3, BehindExpression
<1>5. PICK l, f, n : l = LastOf(frames) /\ f = WithArgument(l) /\ n = Len(frames) OBVIOUS
<1>6. FramesOfCalls(text, frames, h[j].ins) /\ ArgumentsTo(frames, h[j].ins, n)
  BY ONLY <1>3, <1>5 DEF Match, Stacked
<1>7. n \in Nat /\ n \in 1 .. n /\ Len(h[j].ins) = n /\ l = frames[n]
  <2>1. frames \in Seq(FrameOf(1 .. Len(text))) /\ frames # << >> BY ONLY <1>1, <1>2
  <2>2. n \in Nat /\ n \in 1 .. n BY ONLY <1>5, <2>1
  <2> QED BY ONLY <1>5, <1>6, <2>2 DEF FramesOfCalls, LastOf
<1>8. h[j].ins # << >>
  <2>1. Len(<< >>) = 0 /\ 0 \notin 1 .. 0 OBVIOUS
  <2> QED BY ONLY <1>7, <2>1
<1>9. j < Len(text) /\ text[j + 1] \in {",", ")"} BY ONLY <1>4, <1>8
<1>10. text[j + 1] = ")"
  <2> SUFFICES ASSUME text[j + 1] = "," PROVE FALSE BY <1>9
  <2>1. at = j + 1 BY ONLY <1>4, <1>9, text[j + 1] = ","
  <2>2. PICK m \in Nat : m = Len(text) BY ONLY <1>2
  <2>4. j < m /\ j \in 0 .. m BY ONLY <1>2, <1>9, <2>2
  <2>5. at <= m BY ONLY <2>1, <2>4, m \in Nat
  <2>3. at <= Len(text) BY ONLY <2>2, <2>5
  <2> QED BY ONLY <1>1, <1>2, <2>1, <2>3, text[j + 1] = ","
<1>11. /\ WithArgument(LastOf(frames)) \in FrameOf(1 .. Len(text))
       /\ value[1] \in Seq(1 .. Len(text))
  BY ONLY <1>1, ParserInv, WithArgumentTyped
<1>12. PICK P : P = 1 .. Len(text) OBVIOUS
<1>13. l \in FrameOf(P)
  <2>1. frames \in Seq(FrameOf(P)) BY ONLY <1>2, <1>12
  <2>2. frames[n] \in FrameOf(P) BY ONLY <1>5, <1>7, <2>1
  <2> QED BY ONLY <1>7, <2>2
<1>14. PICK e \in Seq(P) : e = value[1] BY <1>11, <1>12
<1>15. l.args \in Seq(Seq(P)) BY ONLY <1>13 DEF FrameOf
<1>16. PICK t : t = Append(l.args, e) OBVIOUS
<1>17. t \in Seq(Seq(P)) /\ Len(t) = Len(l.args) + 1 BY ONLY <1>15, <1>16, e \in Seq(P), AppendFacts
<1>18. f = [l EXCEPT !.args = t] BY ONLY <1>5, <1>14, <1>16 DEF WithArgument
<1>19. f.at = l.at /\ f.how = l.how /\ f.left = l.left /\ f.args = t
  BY ONLY <1>13, <1>17, <1>18 DEF FrameOf
<1>20. LastOf(h[j].ins).args = Len(t)
  <2>1. OneMoreArgument(frames[n], h[j].ins[n]) BY ONLY <1>6, <1>7 DEF ArgumentsTo
  <2>2. LastOf(h[j].ins) = h[j].ins[n] BY ONLY <1>7 DEF LastOf
  <2> QED BY ONLY <1>7, <1>17, <2>1, <2>2 DEF OneMoreArgument
<1>21. /\ frames # << >> /\ j < Len(text) /\ text[j + 1] = ")"
       /\ l \in FrameOf(1 .. Len(text)) /\ f \in FrameOf(1 .. Len(text)) /\ Returns(f)
       /\ f.at = l.at /\ f.how = l.how /\ f.left = l.left
       /\ f.args = Append(l.args, value[1]) /\ value[1] \in Seq(1 .. Len(text))
       /\ LastOf(h[j].ins).args = Len(f.args)
  BY ONLY <1>1, <1>5, <1>9, <1>10, <1>11, <1>12, <1>13, <1>14, <1>16, <1>19, <1>20
<1> QED BY ONLY <1>5, <1>21

LEMMA NoArgumentsMatches ==
  ASSUME ParserInv, NEW h, Known(h), NEW j, Here(h, j), NoArguments
  PROVE  Match(text, h, j + 1, mode', at', frames', read')
<1>1. PICK f : f = LastOf(frames) OBVIOUS
<1>2. /\ frames # << >> /\ j < Len(text) /\ text[j + 1] = ")"
      /\ f \in FrameOf(1 .. Len(text)) /\ Returns(f) /\ LastOf(h[j].ins).args = Len(f.args)
  BY ONLY <1>1, ParserInv, Known(h), Here(h, j), NoArguments, NoArgumentsThere
<1>3. f.at = LastOf(frames).at /\ f.how = LastOf(frames).how BY <1>1
<1> QED BY ONLY <1>2, <1>3, ParserInv, Known(h), Here(h, j), ReturnMatches

LEMMA LastArgumentMatches ==
  ASSUME ParserInv, NEW h, Known(h), NEW j, Here(h, j), LastArgument
  PROVE  Match(text, h, j + 1, mode', at', frames', read')
<1>1. PICK f : f = WithArgument(LastOf(frames)) OBVIOUS
<1>2. /\ frames # << >> /\ j < Len(text) /\ text[j + 1] = ")"
      /\ f \in FrameOf(1 .. Len(text)) /\ Returns(f) /\ LastOf(h[j].ins).args = Len(f.args)
      /\ f.at = LastOf(frames).at /\ f.how = LastOf(frames).how
  BY ONLY <1>1, ParserInv, Known(h), Here(h, j), LastArgument, LastArgumentThere
<1> QED BY ONLY <1>2, ParserInv, Known(h), Here(h, j), ReturnMatches

LEMMA FirstArgumentMatches ==
  ASSUME ParserInv, NEW h, Known(h), NEW j, Here(h, j), FirstArgument
  PROVE  Match(text, h, j, mode', at', frames', read')
<1>1. /\ mode = "arguments" /\ Peek(at) # ")" /\ mode' = "operand"
      /\ at' = at /\ frames' = frames /\ read' = read
  BY DEF FirstArgument, parserVars
<1>2. /\ text \in Seq(Token) /\ Story(text, h) /\ Follows(text) /\ j \in 0 .. Len(text)
      /\ Match(text, h, j, mode, at, frames, read)
      /\ frames \in Seq(FrameOf(1 .. Len(text)))
      /\ Peek(at) = IF at <= Len(text) THEN text[at] ELSE "end"
  BY HereFacts
<1>3. Match(text, h, j, "arguments", at, frames, read) BY ONLY <1>1, <1>2
<1>4. at = j + 1 /\ j > 0 /\ text[j] = "(" BY ONLY <1>3 DEF Match, Position
<1>5. PICK n \in Nat : n = Len(text) BY ONLY <1>2
<1>6. FollowsAt(text, j)
  <2>1. j \in 0 .. n BY <1>2, <1>5
  <2>2. j \in 1 .. n BY ONLY <1>4, <2>1
  <2> QED BY ONLY <1>2, <1>5, <2>2 DEF Follows
<1>7. j < n /\ text[j + 1] \in {"v", "f", ")"} BY ONLY <1>4, <1>5, <1>6 DEF FollowsAt
<1>8. at <= n
  <2>1. j \in 0 .. n BY <1>2, <1>5
  <2> QED BY ONLY <1>4, <1>7, <2>1
<1>9. at <= Len(text) /\ text[at] \in {"v", "f"} BY ONLY <1>1, <1>2, <1>4, <1>5, <1>7, <1>8
<1>10. Match(text, h, j, "operand", at, frames, read) BY ONLY <1>2, <1>3, <1>9, MatchFirst
<1> QED BY ONLY <1>1, <1>10

LEMMA NextArgumentMatches ==
  ASSUME ParserInv, NEW h, Known(h), NEW j, Here(h, j), NextArgument
  PROVE  Match(text, h, at, mode', at', frames', read') /\ at = j + 1 /\ at <= Len(text)
         /\ text[at] = "," /\ value[1] \in Seq(1 .. Len(text))
<1>1. /\ mode = "expression" /\ frames # << >> /\ Peek(at) = "," /\ at' = at + 1
      /\ frames' = [frames EXCEPT ![Len(frames)] = WithArgument(frames[Len(frames)])]
      /\ mode' = "operand" /\ read' = read
  BY DEF NextArgument
<1>2. /\ text \in Seq(Token) /\ Story(text, h) /\ j \in 0 .. Len(text)
      /\ Match(text, h, j, mode, at, frames, read)
      /\ frames \in Seq(FrameOf(1 .. Len(text))) /\ at \in 1 .. Len(text) + 1
      /\ Peek(at) = IF at <= Len(text) THEN text[at] ELSE "end"
  BY HereFacts
<1>3. Match(text, h, j, "expression", at, frames, read) BY ONLY <1>1, <1>2
<1>4. at <= Len(text) /\ text[at] = ","
  <2>1. "end" # "," OBVIOUS
  <2> QED BY ONLY <1>1, <1>2, <2>1
<1>5. at = j + 1
  <2> SUFFICES ASSUME at # j + 1 PROVE FALSE OBVIOUS
  <2>1. at > j + 1 /\ Trails(text, j) BY ONLY <1>3, at # j + 1 DEF Match, Position
  <2>2. PICK n \in Nat : n = Len(text) BY ONLY <1>2
  <2>3. j \in 0 .. n /\ at <= n /\ at \in 1 .. n + 1 BY ONLY <1>2, <1>4, <2>2
  <2>5. at > j + 1 BY <2>1
  <2>6. at \in j + 1 .. n BY ONLY <2>3, <2>5, n \in Nat
  <2>4. text[at] = ")" BY ONLY <2>1, <2>2, <2>6 DEF Trails
  <2> QED BY ONLY <1>4, <2>4
<1>6. value[1] \in Seq(1 .. Len(text)) BY ONLY <1>1, ParserInv, WithArgumentTyped
<1>7. PICK e \in Seq(1 .. Len(text)) : e = value[1] BY <1>6
<1>8. PICK gs : gs = [frames EXCEPT ![Len(frames)]
                        = [frames[Len(frames)] EXCEPT !.args = Append(@, e)]]
  OBVIOUS
<1>9. frames' = gs BY ONLY <1>1, <1>7, <1>8 DEF WithArgument
<1>10. Match(text, h, at, "operand", at + 1, gs, read)
  BY ONLY <1>2, <1>3, <1>4, <1>5, <1>8, e \in Seq(1 .. Len(text)), MatchComma
<1> QED BY ONLY <1>1, <1>4, <1>5, <1>6, <1>9, <1>10

LEMMA EndOfExpressionMatches ==
  ASSUME ParserInv, NEW h, Known(h), NEW j, Here(h, j), EndOfExpression
  PROVE  Match(text, h, j, mode', at', frames', read')
<1>1. /\ mode \in {"primary", "member"} /\ Peek(at) \notin {"b", "u"} /\ mode' = "expression"
      /\ at' = at /\ frames' = frames /\ read' = read
  BY DEF EndOfExpression
<1>2. /\ text \in Seq(Token) /\ j \in 0 .. Len(text)
      /\ Match(text, h, j, mode, at, frames, read)
      /\ Peek(at) = IF at <= Len(text) THEN text[at] ELSE "end"
  BY HereFacts
<1>3. at <= Len(text) => text[at] \notin {"b", "u"} BY ONLY <1>1, <1>2
<1>4. PICK m : m = mode OBVIOUS
<1>5. Match(text, h, j, "expression", at, frames, read)
  BY ONLY <1>1, <1>2, <1>3, MatchEndOfExpression
<1> QED BY ONLY <1>1, <1>5

LEMMA EndOfStatementMatches ==
  ASSUME ParserInv, NEW h, Known(h), NEW j, Here(h, j), EndOfStatement
  PROVE  Match(text, h, j, mode', at', frames', read')
<1>1. /\ mode = "expression" /\ frames = << >> /\ mode' = "end"
      /\ at' = at /\ frames' = frames /\ read' = read
  BY DEF EndOfStatement, parserVars
<1>2. /\ text \in Seq(Token) /\ Story(text, h) /\ Follows(text) /\ j \in 0 .. Len(text)
      /\ h[Len(text)].ins = << >> /\ Match(text, h, j, mode, at, frames, read)
      /\ at \in 1 .. Len(text) + 1
  BY HereFacts
<1>3. Match(text, h, j, "expression", at, << >>, read) BY ONLY <1>1, <1>2
<1>4. Match(text, h, j, "end", at, << >>, read) BY ONLY <1>2, <1>3, MatchEnd
<1> QED BY ONLY <1>1, <1>4

\* The names: of a function, of the method of a variable, of a further method.
LEMMA NameMatches ==
  ASSUME ParserInv, NEW h, Known(h), NEW j, Here(h, j),
         ParseCallExpression \/ ParsePrimary \/ ParseMemberAccess
  PROVE  Match(text, h, at + 1, mode', at', frames', read')
<1>1. value \in Seq(Seq(1 .. Len(text))) BY HereFacts
<1>2. "f" # "b" /\ "f" # "u" OBVIOUS
<1>3. CASE ParseCallExpression
  <2>1. mode = "operand" /\ Peek(at) = "f" /\ ReadName("call", << >>)
    BY <1>3 DEF ParseCallExpression
  <2>2. << >> \in Seq(Seq(1 .. Len(text))) OBVIOUS
  <2>3. "call" \in Hows /\ Peek(at) \in Callee BY ONLY <2>1 DEF Hows, Callee
  <2>4. /\ mode # "arguments" /\ ("call" = "call" <=> Peek(at) = "f")
        /\ "call" = "method" => mode = "primary"
        /\ "call" = "link" => mode = "member"
    BY ONLY <2>1
  <2> QED BY ONLY <2>1, <2>2, <2>3, <2>4, ParserInv, Known(h), Here(h, j), ReadNameMatches
<1>4. CASE ParsePrimary
  <2>1. mode = "primary" /\ Peek(at) \in {"b", "u"} /\ ReadName("method", value)
    BY <1>4 DEF ParsePrimary
  <2>3. "method" \in Hows /\ Peek(at) \in Callee BY ONLY <2>1 DEF Hows, Callee
  <2>4. /\ mode # "arguments" /\ ("method" = "call" <=> Peek(at) = "f")
        /\ "method" = "method" => mode = "primary"
        /\ "method" = "link" => mode = "member"
    BY ONLY <1>2, <2>1
  <2> QED BY ONLY <1>1, <2>1, <2>3, <2>4, ParserInv, Known(h), Here(h, j), ReadNameMatches
<1>5. CASE ParseMemberAccess
  <2>1. mode = "member" /\ Peek(at) \in {"b", "u"} /\ ReadName("link", value)
    BY <1>5 DEF ParseMemberAccess
  <2>3. "link" \in Hows /\ Peek(at) \in Callee BY ONLY <2>1 DEF Hows, Callee
  <2>4. /\ mode # "arguments" /\ ("link" = "call" <=> Peek(at) = "f")
        /\ "link" = "method" => mode = "primary"
        /\ "link" = "link" => mode = "member"
    BY ONLY <1>2, <2>1
  <2> QED BY ONLY <1>1, <2>1, <2>3, <2>4, ParserInv, Known(h), Here(h, j), ReadNameMatches
<1> QED BY <1>3, <1>4, <1>5

\* Where the parser is in what the author has written, while it reads.
MatchInv == mode \notin Writing => \A h : Known(h) => \E j : Here(h, j)

LEMMA MatchStep ==
  ASSUME AuthorInv, ParserInv, MatchInv, [Next]_vars
  PROVE  MatchInv'
<1>1. CASE UNCHANGED vars
  <2>1. MatchInv' = MatchInv BY ONLY <1>1 DEF vars, MatchInv, Known, Here
  <2> QED BY ONLY <2>1, MatchInv
<1>2. CASE WriteVariable \/ WriteCall \/ WriteMethod \/ WriteComma \/ WriteClose
  <2>1. mode' \in Writing BY <1>2, AuthorKeeps
  <2> QED BY ONLY <2>1 DEF MatchInv
<1>3. CASE Finish
  <2>1. mode = "written" /\ mode' = "operand" /\ UNCHANGED <<text, inside, meant, parserVars>>
    BY <1>3 DEF Finish
  <2>2. at = 1 /\ frames = << >> /\ read = << >>
    BY ONLY <2>1, ParserInv DEF ParserInv, Parsed, Writing
  <2>3. at' = 1 /\ frames' = << >> /\ read' = << >> /\ text' = text
    BY ONLY <2>1, <2>2 DEF parserVars
  <2>4. ASSUME NEW h, Known(h)' PROVE Here(h, 0)'
    <3>1. Story(text, h) BY ONLY <2>3, <2>4 DEF Known
    <3>2. h[0] = Nothing /\ text \in Seq(Token) BY ONLY <3>1 DEF Story
    <3>3. h[0].ins = << >> /\ h[0].mea = << >> BY ONLY <3>2 DEF Nothing
    <3>4. PICK n \in Nat : n = Len(text) BY ONLY <3>2
    <3>5. 0 \in 0 .. n /\ 1 = 0 + 1 BY ONLY n \in Nat
    <3>6. Position(text, 0, "operand", 1) BY ONLY <3>4, <3>5 DEF Position
    <3>7. Stacked(text, << >>, << >>, "operand")
      BY DEF Stacked, FramesOfCalls, ArgumentsTo
    <3>8. Match(text, h, 0, "operand", 1, << >>, << >>) BY ONLY <3>3, <3>6, <3>7 DEF Match
    <3> QED BY ONLY <2>1, <2>3, <3>8 DEF Here
  <2> QED BY ONLY <2>4 DEF MatchInv
<1>4. CASE Parse
  <2>1. mode \notin Writing /\ mode' \notin Writing /\ UNCHANGED <<text, inside, meant>>
    BY <1>4, ParserKeeps
  <2>2. ASSUME NEW h, Known(h)' PROVE \E k : Here(h, k)'
    <3>1. Known(h) BY ONLY <2>1, <2>2 DEF Known
    <3>2. PICK j : Here(h, j) BY ONLY <2>1, <3>1, MatchInv DEF MatchInv
    <3>3. \E k : Match(text, h, k, mode', at', frames', read')
      <4>1. CASE ReadOperand BY ONLY <3>1, <3>2, <4>1, ParserInv, ReadOperandMatches
      <4>2. CASE ParseCallExpression \/ ParsePrimary \/ ParseMemberAccess
        BY ONLY <3>1, <3>2, <4>2, ParserInv, NameMatches
      <4>3. CASE NoArguments BY ONLY <3>1, <3>2, <4>3, ParserInv, NoArgumentsMatches
      <4>4. CASE FirstArgument BY ONLY <3>1, <3>2, <4>4, ParserInv, FirstArgumentMatches
      <4>5. CASE NextArgument BY ONLY <3>1, <3>2, <4>5, ParserInv, NextArgumentMatches
      <4>6. CASE LastArgument BY ONLY <3>1, <3>2, <4>6, ParserInv, LastArgumentMatches
      <4>7. CASE EndOfExpression BY ONLY <3>1, <3>2, <4>7, ParserInv, EndOfExpressionMatches
      <4>8. CASE EndOfStatement BY ONLY <3>1, <3>2, <4>8, ParserInv, EndOfStatementMatches
      <4> QED BY ONLY <1>4, <4>1, <4>2, <4>3, <4>4, <4>5, <4>6, <4>7, <4>8 DEF Parse
    <3> QED BY ONLY <2>1, <3>3 DEF Here
  <2> QED BY ONLY <2>2 DEF MatchInv
<1> QED BY <1>1, <1>2, <1>3, <1>4 DEF Next, Write

LEMMA MatchInit == Init => MatchInv
BY DEF Init, MatchInv, Writing

-----------------------------------------------------------------------------
(***************************************************************************)
(* Readable is what Plain says of the history.                             *)
(***************************************************************************)

\* The brackets that are open, by the history.
OpenPlaces(r) == [k \in 1 .. Len(r.ins) |-> r.ins[k].at + 1]
OpenAlong(h) == [i \in 0 .. Len(text) |-> OpenPlaces(h[i])]

LEMMA OpenPlacesFacts ==
  ASSUME NEW r \in Behind
  PROVE  /\ OpenPlaces(r) \in Seq(Nat) /\ Len(OpenPlaces(r)) = Len(r.ins)
         /\ \A k \in 1 .. Len(r.ins) : OpenPlaces(r)[k] = r.ins[k].at + 1
<1>1. r.ins \in Seq(CallRecord) BY Parts
<1>2. PICK n \in Nat : n = Len(r.ins) BY <1>1
<1>3. \A k \in 1 .. n : r.ins[k].at \in Nat
  <2>1. \A k \in 1 .. n : r.ins[k] \in CallRecord BY ONLY <1>1, <1>2
  <2> QED BY ONLY <2>1 DEF CallRecord
<1>4. OpenPlaces(r) = [k \in 1 .. n |-> r.ins[k].at + 1] BY <1>2 DEF OpenPlaces
<1> QED BY ONLY <1>2, <1>3, <1>4

LEMMA OpenAlongIs ==
  ASSUME NEW h, Story(text, h), NEW i \in 0 .. Len(text)
  PROVE  OpenAlong(h)[i] = OpenBehind(i, OpenAlong(h))
<1>1. PICK o, n : o = OpenAlong(h) /\ n = Len(text) OBVIOUS
<1>2. n \in Nat /\ i \in 0 .. n BY <1>1 DEF Story
<1>3. \A k \in 0 .. n : o[k] = OpenPlaces(h[k]) BY ONLY <1>1 DEF OpenAlong
<1>4. CASE i = 0
  <2>1. h[0] = Nothing BY DEF Story
  <2>2. h[0].ins = << >> BY ONLY <2>1 DEF Nothing
  <2>3. OpenPlaces(h[0]) = << >> BY ONLY <2>2 DEF OpenPlaces
  <2>4. o[0] = << >> BY ONLY <1>2, <1>3, <1>4, <2>3
  <2> QED BY ONLY <1>1, <1>4, <2>4 DEF OpenBehind
<1>5. CASE i # 0
  <2>1. i \in 1 .. n /\ i - 1 \in 0 .. n BY ONLY <1>2, <1>5
  <2>2. PICK r, s : r = h[i - 1] /\ s = h[i] OBVIOUS
  <2>3. Does(text, i, r, s)
    <3>1. Does(text, i, h[i - 1], h[i]) BY ONLY <1>1, <2>1, Story(text, h), StoryDoes
    <3> QED BY ONLY <2>2, <3>1
  <2>4. r \in Behind /\ s \in Behind BY ONLY <2>3 DEF Does
  <2>5. r.ins \in Seq(CallRecord) BY ONLY <2>4, Parts
  <2>6. PICK a, b, l : a = OpenPlaces(r) /\ b = OpenPlaces(s) /\ l = Len(r.ins) OBVIOUS
  <2>7. o[i - 1] = a /\ o[i] = b BY ONLY <1>2, <1>3, <2>1, <2>2, <2>6
  <2>8. /\ a \in Seq(Nat) /\ Len(a) = l /\ \A k \in 1 .. l : a[k] = r.ins[k].at + 1
    BY ONLY <2>4, <2>6, OpenPlacesFacts
  <2>9. /\ b \in Seq(Nat) /\ Len(b) = Len(s.ins)
        /\ \A k \in 1 .. Len(s.ins) : b[k] = s.ins[k].at + 1
    BY ONLY <2>4, <2>6, OpenPlacesFacts
  <2>10. l \in Nat BY ONLY <2>5, <2>6
  <2>11. CASE text[i] = "("
    <3>1. OpeningDoes(i, r, s) BY ONLY <2>3, <2>11 DEF Does
    <3>2. PICK z \in {0, 1} : s.ins = Append(r.ins, [at |-> i - 1, args |-> z])
      BY ONLY <3>1 DEF OpeningDoes
    <3>3. PICK c : c = [at |-> i - 1, args |-> z] OBVIOUS
    <3>4. c \in CallRecord /\ c.at + 1 = i
      <4>1. i - 1 \in Nat /\ z \in Nat /\ i - 1 + 1 = i BY ONLY <2>1, <1>2, z \in {0, 1}
      <4> QED BY ONLY <3>3, <4>1 DEF CallRecord
    <3>5. /\ Len(s.ins) = l + 1 /\ s.ins[l + 1] = c /\ \A k \in 1 .. l : s.ins[k] = r.ins[k]
      BY ONLY <2>5, <2>6, <3>2, <3>3, <3>4, AppendFacts
    <3>9. ASSUME NEW k \in 1 .. l PROVE b[k] = a[k]
      <4>1. k \in 1 .. Len(s.ins) BY ONLY <2>10, <3>5, k \in 1 .. l
      <4>2. b[k] = s.ins[k].at + 1 BY ONLY <2>9, <4>1
      <4>3. s.ins[k] = r.ins[k] BY ONLY <3>5, k \in 1 .. l
      <4> QED BY ONLY <2>8, <4>2, <4>3, k \in 1 .. l
    <3>10. b[l + 1] = i
      <4>1. l + 1 \in 1 .. Len(s.ins) BY ONLY <2>10, <3>5
      <4>2. b[l + 1] = s.ins[l + 1].at + 1 BY ONLY <2>9, <4>1
      <4> QED BY ONLY <3>4, <3>5, <4>2
    <3>6. Len(b) = l + 1 /\ b[l + 1] = i /\ \A k \in 1 .. l : b[k] = a[k]
      BY ONLY <2>9, <3>5, <3>9, <3>10
    <3>7. i \in Nat BY ONLY <2>1, <1>2
    <3>8. b = Append(a, i)
      <4>1. PICK t : t = Append(a, i) OBVIOUS
      <4>2. /\ t \in Seq(Nat) /\ Len(t) = l + 1 /\ t[l + 1] = i /\ \A k \in 1 .. l : t[k] = a[k]
        BY ONLY <2>8, <3>7, <4>1, AppendFacts
      <4>3. \A k \in 1 .. l + 1 : b[k] = t[k] BY ONLY <2>10, <3>6, <4>2
      <4>4. b = t BY ONLY <2>9, <3>6, <4>2, <4>3
      <4> QED BY ONLY <4>1, <4>4
    <3> QED BY ONLY <1>1, <1>5, <2>7, <2>11, <3>8 DEF OpenBehind
  <2>12. CASE text[i] = ")"
    <3>1. ClosingDoes(text, i, r, s) BY ONLY <2>3, <2>12 DEF Does
    <3>2. r.ins # << >> /\ s.ins = Front(r.ins) BY ONLY <3>1 DEF ClosingDoes
    <3>3. Len(s.ins) = l - 1 /\ \A k \in 1 .. l - 1 : s.ins[k] = r.ins[k]
      BY ONLY <2>5, <2>6, <3>2, FrontFacts
    <3>4. l >= 1 BY ONLY <2>5, <2>6, <3>2
    <3>8. ASSUME NEW k \in 1 .. l - 1 PROVE b[k] = a[k]
      <4>1. k \in 1 .. Len(s.ins) /\ k \in 1 .. l BY ONLY <2>10, <3>3, <3>4, k \in 1 .. l - 1
      <4>2. b[k] = s.ins[k].at + 1 BY ONLY <2>9, <4>1
      <4>3. s.ins[k] = r.ins[k] BY ONLY <3>3, k \in 1 .. l - 1
      <4> QED BY ONLY <2>8, <4>1, <4>2, <4>3
    <3>5. Len(b) = l - 1 /\ \A k \in 1 .. l - 1 : b[k] = a[k] BY ONLY <2>9, <3>3, <3>8
    <3>6. b = Front(a)
      <4>1. PICK t : t = Front(a) OBVIOUS
      <4>2. a # << >> BY ONLY <2>8, <3>4
      <4>3. t \in Seq(Nat) /\ Len(t) = l - 1 /\ \A k \in 1 .. l - 1 : t[k] = a[k]
        BY ONLY <2>8, <4>1, <4>2, FrontFacts
      <4>4. b = t BY ONLY <2>9, <3>5, <4>3
      <4> QED BY ONLY <4>1, <4>4
    <3>7. text[i] # "(" BY ONLY <2>12
    <3> QED BY ONLY <1>1, <1>5, <2>7, <2>12, <3>6, <3>7 DEF OpenBehind
  <2>13. CASE text[i] \notin {"(", ")"}
    <3>1. Len(s.ins) = l /\ \A k \in 1 .. l : s.ins[k].at = r.ins[k].at
      <4>1. CASE text[i] = ","
        <5>1. CommaDoes(r, s) BY ONLY <2>3, <4>1 DEF Does
        <5>2. r.ins # << >> /\ s.ins = [r.ins EXCEPT ![Len(r.ins)].args = @ + 1]
          BY ONLY <5>1 DEF CommaDoes
        <5>3. l \in 1 .. l BY ONLY <2>5, <2>6, <5>2
        <5>4. r.ins[l] \in CallRecord BY ONLY <2>5, <2>6, <5>3
        <5>5. PICK c : c = [r.ins[l] EXCEPT !.args = @ + 1] OBVIOUS
        <5>6. c.at = r.ins[l].at
          <6>1. PICK d \in CallRecord : d = r.ins[l] BY <5>4
          <6>2. c = [d EXCEPT !.args = d.args + 1] BY <5>5, <6>1
          <6>3. c.at = d.at BY ONLY <6>2, d \in CallRecord DEF CallRecord
          <6> QED BY ONLY <6>1, <6>3
        <5>7. s.ins = [r.ins EXCEPT ![l] = c] BY ONLY <2>6, <5>2, <5>5
        <5>8. Len(s.ins) = l /\ \A k \in 1 .. l : s.ins[k] = IF k = l THEN c ELSE r.ins[k]
          BY ONLY <2>5, <2>6, <5>7
        <5> QED BY ONLY <5>6, <5>8
      <4>2. CASE text[i] # ","
        <5>1. text \in Seq(Token) BY DEF Story
        <5>2. text[i] \in Token BY ONLY <1>1, <2>1, <5>1
        <5>3. text[i] = "v" \/ text[i] \in Callee BY ONLY <2>13, <4>2, <5>2 DEF Token
        <5>4. s.ins = r.ins
          <6>1. CASE text[i] = "v" BY ONLY <2>3, <6>1 DEF Does, VariableDoes
          <6>2. CASE text[i] \in Callee BY ONLY <2>3, <6>2 DEF Does
          <6> QED BY ONLY <5>3, <6>1, <6>2
        <5> QED BY ONLY <2>6, <5>4
      <4> QED BY <4>1, <4>2
    <3>4. ASSUME NEW k \in 1 .. l PROVE b[k] = a[k]
      <4>1. k \in 1 .. Len(s.ins) BY ONLY <3>1, k \in 1 .. l
      <4>2. b[k] = s.ins[k].at + 1 BY ONLY <2>9, <4>1
      <4>3. s.ins[k].at = r.ins[k].at BY ONLY <3>1, k \in 1 .. l
      <4> QED BY ONLY <2>8, <4>2, <4>3, k \in 1 .. l
    <3>5. Len(b) = l /\ Len(a) = l BY ONLY <2>8, <2>9, <3>1
    <3>6. a \in Seq(Nat) /\ b \in Seq(Nat) BY ONLY <2>8, <2>9
    <3>2. b = a BY ONLY <3>4, <3>5, <3>6
    <3>3. text[i] # "(" /\ text[i] # ")" BY ONLY <2>13
    <3> QED BY ONLY <1>1, <1>5, <2>7, <3>2, <3>3 DEF OpenBehind
  <2> QED BY <2>11, <2>12, <2>13
<1> QED BY <1>4, <1>5

LEMMA OpenedIs ==
  ASSUME NEW h, Story(text, h), NEW i \in 0 .. Len(text)
  PROVE  Opened[i] = OpenPlaces(h[i])
<1>1. PICK n : n = Len(text) OBVIOUS
<1>2. n \in Nat /\ i \in 0 .. n BY <1>1 DEF Story
<1>3. PICK o : o = OpenAlong(h) OBVIOUS
<1>4. \A k \in 0 .. n : o[k] = OpenBehind(k, o) BY ONLY <1>1, <1>3, Story(text, h), OpenAlongIs
<1>5. o = [k \in 0 .. n |-> OpenPlaces(h[k])] BY ONLY <1>1, <1>3 DEF OpenAlong
<1>6. o = [k \in 0 .. n |-> OpenBehind(k, o)] BY ONLY <1>4, <1>5
<1>7. PICK g : g = CHOOSE f : f = [k \in 0 .. Len(text) |-> OpenBehind(k, f)] OBVIOUS
<1>8. Opened = g BY ONLY <1>7 DEF Opened
<1>9. g = [k \in 0 .. n |-> OpenBehind(k, g)] BY ONLY <1>1, <1>6, <1>7
<1>10. PICK T : T = {k \in 0 .. n : g[k] # o[k]} OBVIOUS
<1>11. T = {}
  <2> SUFFICES ASSUME T # {} PROVE FALSE OBVIOUS
  <2>1. T \subseteq Nat BY ONLY <1>2, <1>10
  <2>2. PICK k \in T : \A c \in T : k <= c BY ONLY <2>1, T # {}, LeastNatural
  <2>3. k \in 0 .. n /\ g[k] # o[k] BY ONLY <1>10, k \in T
  <2>4. g[k] = OpenBehind(k, g) /\ o[k] = OpenBehind(k, o) BY ONLY <1>6, <1>9, <2>3
  <2>5. k # 0 => g[k - 1] = o[k - 1]
    <3> SUFFICES ASSUME k # 0 PROVE g[k - 1] = o[k - 1] OBVIOUS
    <3>1. k - 1 \in 0 .. n /\ ~(k <= k - 1) BY ONLY <1>2, <2>3, k # 0
    <3>2. k - 1 \notin T BY ONLY <2>2, <3>1
    <3> QED BY ONLY <1>10, <3>1, <3>2
  <2>6. OpenBehind(k, g) = OpenBehind(k, o) BY ONLY <2>5 DEF OpenBehind
  <2> QED BY ONLY <2>3, <2>4, <2>6
<1>12. g[i] = o[i] BY ONLY <1>2, <1>10, <1>11
<1> QED BY ONLY <1>2, <1>5, <1>8, <1>12

\* The name that a closing bracket belongs to.
LEMMA CalleeIs ==
  ASSUME NEW h, Story(text, h), NEW p \in 1 .. Len(text), text[p] = ")"
  PROVE  CalleeOf(p) = CalleeAt(h, p) /\ p \in Closings
<1>1. PICK n \in Nat : n = Len(text) BY DEF Story
<1>2. p - 1 \in 0 .. n /\ p \in 1 .. n BY <1>1
<1>3. Does(text, p, h[p - 1], h[p]) BY StoryDoes
<1>4. PICK r : r = h[p - 1] OBVIOUS
<1>5. ClosingDoes(text, p, r, h[p]) /\ r \in Behind BY ONLY <1>3, <1>4, text[p] = ")" DEF Does
<1>6. r.ins # << >> /\ r.ins \in Seq(CallRecord) BY ONLY <1>5, Parts DEF ClosingDoes
<1>7. Opened[p - 1] = OpenPlaces(r) BY ONLY <1>1, <1>2, <1>4, Story(text, h), OpenedIs
<1>8. PICK l, o : l = Len(r.ins) /\ o = OpenPlaces(r) OBVIOUS
<1>9. l \in Nat /\ l \in 1 .. l BY ONLY <1>6, <1>8
<1>10. Len(o) = l /\ o[l] = r.ins[l].at + 1 BY ONLY <1>5, <1>8, <1>9, OpenPlacesFacts
<1>11. r.ins[l].at \in Nat
  <2>1. r.ins[l] \in CallRecord BY ONLY <1>6, <1>8, <1>9
  <2> QED BY ONLY <2>1 DEF CallRecord
<1>12. LastOf(o) - 1 = LastOf(r.ins).at BY ONLY <1>8, <1>10, <1>11 DEF LastOf
<1>13. CalleeOf(p) = LastOf(o) - 1 BY ONLY <1>7, <1>8 DEF CalleeOf
<1>14. CalleeAt(h, p) = LastOf(r.ins).at BY ONLY <1>4 DEF CalleeAt
<1>15. p \in Closings BY DEF Closings, Places
<1> QED BY ONLY <1>12, <1>13, <1>14, <1>15

LEMMA ReadableIsPlain ==
  ASSUME NEW h, Story(text, h), Readable
  PROVE  Plain(text, h)
<1>1. PICK n \in Nat : n = Len(text) BY DEF Story
<1>2. SUFFICES ASSUME NEW p \in 1 .. n PROVE PlainAt(text, h, p) BY <1>1 DEF Plain
<1>3. SUFFICES ASSUME text[p] = ")", p < n
               PROVE  /\ Greedy(text, h, p) /\ text[p + 1] = ")" => Trails(text, p)
                      /\ text[CalleeAt(h, p)] = "f" => text[p + 1] \notin {"b", "u"}
  BY <1>1 DEF PlainAt
<1>4. CalleeOf(p) = CalleeAt(h, p) /\ p \in Closings
  BY ONLY <1>1, Story(text, h), p \in 1 .. n, text[p] = ")", CalleeIs
<1>5. p + 1 \in 1 .. n /\ p + 1 <= n BY <1>3
<1>6. Peek(p + 1) = text[p + 1] BY ONLY <1>1, <1>5 DEF Peek
<1>7. /\ \A q \in Closings : Grasping(q) /\ Peek(q + 1) = ")" =>
           \A k \in q + 1 .. Len(text) : text[k] = ")"
      /\ \A q \in Closings : text[CalleeOf(q)] = "f" => Peek(q + 1) \notin {"b", "u"}
  BY ONLY Readable DEF Readable
<1>8. Greedy(text, h, p) => Grasping(p) BY ONLY <1>4 DEF Greedy, Grasping
<1>9. Greedy(text, h, p) /\ text[p + 1] = ")" => Trails(text, p)
  BY ONLY <1>4, <1>6, <1>7, <1>8 DEF Trails
<1>10. text[CalleeAt(h, p)] = "f" => text[p + 1] \notin {"b", "u"}
  BY ONLY <1>4, <1>6, <1>7
<1> QED BY ONLY <1>9, <1>10

ReadInductive == Inductive /\ MatchInv

LEMMA ReadInductiveHolds == Spec => []ReadInductive
<1>1. Init => ReadInductive BY AuthorInit, ParserInit, MatchInit DEF ReadInductive, Inductive
<1>2. ReadInductive /\ [Next]_vars => ReadInductive'
  BY AuthorStep, ParserStep, MatchStep DEF ReadInductive, Inductive
<1> QED BY <1>1, <1>2, PTL DEF Spec

\* At the end the parser knows the history, and it is there.
LEMMA EndHere ==
  ASSUME Inductive, MatchInv, mode \notin Writing, Readable
  PROVE  \E h, j : Known(h) /\ Here(h, j) /\ h[Len(text)].mea = meant
                   /\ Counted(text, h[Len(text)])
<1>1. PICK r : Author(text, inside, meant, mode, r) BY DEF Inductive, AuthorInv
<1>2. /\ Told(text, r) /\ r.ins = inside /\ r.mea = meant /\ inside = << >>
  BY <1>1 DEF Author, Writing
<1>3. mode # "write operand" BY DEF Writing
<1>4. Follows(text) BY ONLY <1>1, <1>3, AuthorFollows
<1>5. PICK h : Story(text, h) /\ h[Len(text)] = r BY ONLY <1>2 DEF Told
<1>6. Plain(text, h) BY ONLY <1>5, Readable, ReadableIsPlain
<1>7. Known(h) BY ONLY <1>2, <1>4, <1>5, <1>6 DEF Known
<1>8. PICK j : Here(h, j) BY <1>7 DEF MatchInv
<1>9. Counted(text, r) BY ONLY <1>2 DEF Told
<1> QED BY ONLY <1>2, <1>5, <1>7, <1>8, <1>9

\* The tree that the parser builds is that of the text, every call with its arguments, and
\* nothing is left unread, for all readable expressions (the three variants of
\* parseArguments and their callers).
THEOREM TreeAsWritten == Spec => []ReadsAsWritten
<1>1. ASSUME Inductive, MatchInv PROVE ReadsAsWritten
  <2> SUFFICES ASSUME mode = "end", Readable PROVE read = meant /\ at = Len(text) + 1
    BY DEF ReadsAsWritten
  <2>1. mode \notin Writing BY DEF Writing
  <2>2. PICK h, j : Known(h) /\ Here(h, j) /\ h[Len(text)].mea = meant
    BY ONLY <1>1, <2>1, Readable, EndHere
  <2>3. ParserInv BY <1>1 DEF Inductive
  <2>4. /\ text \in Seq(Token) /\ at \in 1 .. Len(text) + 1
        /\ Match(text, h, j, mode, at, frames, read)
    BY ONLY <2>2, <2>3, HereFacts
  <2>5. Match(text, h, j, "end", at, frames, read) BY ONLY <2>4, mode = "end"
  <2>6. j = Len(text) /\ read = h[j].mea /\ (at = j + 1 \/ at > j + 1)
    BY ONLY <2>5 DEF Match, Position
  <2>7. PICK n \in Nat : n = Len(text) BY ONLY <2>4
  <2>8. at = n + 1 BY ONLY <2>4, <2>6, <2>7
  <2> QED BY ONLY <2>2, <2>6, <2>7, <2>8
<1>2. ReadInductive => ReadsAsWritten BY <1>1 DEF ReadInductive
<1> QED BY <1>2, ReadInductiveHolds, PTL

-----------------------------------------------------------------------------
(***************************************************************************)
(* What is generated.                                                      *)
(***************************************************************************)

LEMMA Assoc ==
  ASSUME NEW T, NEW s \in Seq(T), NEW t \in Seq(T), NEW u \in Seq(T)
  PROVE  (s \o t) \o u = s \o (t \o u)
OBVIOUS

LEMMA AssocNat == \A s, t, u \in Seq(Nat) : (s \o t) \o u = s \o (t \o u)
BY Assoc

LEMMA ConcatFacts ==
  ASSUME NEW T, NEW s \in Seq(T), NEW t \in Seq(T), NEW e \in T
  PROVE  s \o t \in Seq(T) /\ s \o << >> = s /\ << >> \o s = s /\ Append(s, e) = s \o <<e>>
OBVIOUS

LEMMA Wider ==
  ASSUME NEW P, P \subseteq Nat, NEW s \in Seq(P)
  PROVE  s \in Seq(Nat)
<1>1. PICK n \in Nat : n = Len(s) OBVIOUS
<1>2. ASSUME NEW k \in 1 .. n PROVE s[k] \in Nat
  <2>1. s[k] \in P BY ONLY <1>1, k \in 1 .. n, s \in Seq(P)
  <2> QED BY ONLY <2>1, P \subseteq Nat
<1> QED BY ONLY <1>1, <1>2, s \in Seq(P)

LEMMA WiderParts ==
  ASSUME NEW P, P \subseteq Nat, NEW s \in Seq(Seq(P))
  PROVE  s \in Seq(Seq(Nat))
<1>1. PICK n \in Nat : n = Len(s) OBVIOUS
<1>2. ASSUME NEW k \in 1 .. n PROVE s[k] \in Seq(Nat)
  <2>1. s[k] \in Seq(P) BY ONLY <1>1, k \in 1 .. n, s \in Seq(Seq(P))
  <2> QED BY ONLY <2>1, P \subseteq Nat, Wider
<1> QED BY ONLY <1>1, <1>2, s \in Seq(Seq(P))

LEMMA WiderFrame ==
  ASSUME NEW P, P \subseteq Nat, NEW f \in FrameOf(P)
  PROVE  f \in FrameOf(Nat)
<1>1. f.left \in Seq(Seq(P)) /\ f.args \in Seq(Seq(P)) /\ f.at \in P BY DEF FrameOf
<1>2. f.left \in Seq(Seq(Nat)) /\ f.args \in Seq(Seq(Nat)) /\ f.at \in Nat
  BY ONLY <1>1, P \subseteq Nat, WiderParts
<1> QED BY ONLY <1>2, f \in FrameOf(P) DEF FrameOf

LEMMA WiderFrames ==
  ASSUME NEW P, P \subseteq Nat, NEW fs \in Seq(FrameOf(P))
  PROVE  fs \in Seq(FrameOf(Nat))
<1>1. PICK n \in Nat : n = Len(fs) OBVIOUS
<1>2. ASSUME NEW k \in 1 .. n PROVE fs[k] \in FrameOf(Nat)
  <2>1. fs[k] \in FrameOf(P) BY ONLY <1>1, k \in 1 .. n, fs \in Seq(FrameOf(P))
  <2> QED BY ONLY <2>1, P \subseteq Nat, WiderFrame
<1> QED BY ONLY <1>1, <1>2, fs \in Seq(FrameOf(P))

LEMMA FlattenOne ==
  ASSUME NEW T, NEW s \in Seq(Seq(T)), Len(s) = 1
  PROVE  FlattenSeq(s) = s[1] /\ LastOf(s) = s[1] /\ s[1] \in Seq(T)
<1>1. s[1] \in Seq(T) BY ONLY s \in Seq(Seq(T)), Len(s) = 1
<1>2. PICK e \in Seq(T) : e = s[1] BY <1>1
<1>3. << >> \in Seq(Seq(T)) /\ << >> \in Seq(T) OBVIOUS
<1>4. s = Append(<< >>, e)
  <2>1. PICK t : t = Append(<< >>, e) OBVIOUS
  <2>2. t \in Seq(Seq(T)) /\ Len(t) = 1 /\ t[1] = e BY ONLY <2>1, e \in Seq(T)
  <2>3. s = t BY ONLY <1>2, <2>2, s \in Seq(Seq(T)), Len(s) = 1
  <2> QED BY ONLY <2>1, <2>3
<1>5. FlattenSeq(s) = FlattenSeq(<< >>) \o e BY ONLY <1>3, <1>4, e \in Seq(T), FlattenMore
<1>6. << >> \o e = e BY ONLY e \in Seq(T)
<1> QED BY ONLY <1>1, <1>2, <1>5, <1>6, FlattenNone, Len(s) = 1 DEF LastOf

\* What is generated for what a call has, before itself.
Worth(f) == LeftOf(f) \o FlattenSeq(f.args)
LeftIs(f) ==
  /\ f.how = "call" => f.left = << >>
  /\ f.how = "method" => f.left = << << >> >>
  /\ f.how = "link" => Len(f.left) = 1
LeftsAre(fs) == \A k \in 1 .. Len(fs) : LeftIs(fs[k])

LEMMA WorthTyped ==
  ASSUME NEW P, NEW f \in FrameOf(P)
  PROVE  Worth(f) \in Seq(P) /\ LeftOf(f) \in Seq(P) /\ FlattenSeq(f.args) \in Seq(P)
<1>1. f.left \in Seq(Seq(P)) /\ f.args \in Seq(Seq(P)) BY DEF FrameOf
<1>2. FlattenSeq(f.args) \in Seq(P) BY ONLY <1>1, FlattenTyped
<1>3. LeftOf(f) \in Seq(P)
  <2>1. CASE f.left = << >>
    <3>1. << >> \in Seq(P) OBVIOUS
    <3> QED BY ONLY <2>1, <3>1 DEF LeftOf
  <2>2. CASE f.left # << >>
    <3>1. PICK s \in Seq(Seq(P)) : s = f.left BY <1>1
    <3>2. s[Len(s)] \in Seq(P) BY ONLY <2>2, <3>1, s \in Seq(Seq(P))
    <3> QED BY ONLY <2>2, <3>1, <3>2 DEF LeftOf, LastOf
  <2> QED BY <2>1, <2>2
<1>4. LeftOf(f) \o FlattenSeq(f.args) \in Seq(P) BY ONLY <1>2, <1>3
<1> QED BY ONLY <1>2, <1>3, <1>4 DEF Worth

LEMMA WorthArgument ==
  ASSUME NEW P, NEW f \in FrameOf(P), NEW g \in FrameOf(P), NEW e \in Seq(P),
         g.left = f.left, g.args = Append(f.args, e)
  PROVE  Worth(g) = Worth(f) \o e
<1>1. f.args \in Seq(Seq(P)) BY DEF FrameOf
<1>2. FlattenSeq(g.args) = FlattenSeq(f.args) \o e
  BY ONLY <1>1, e \in Seq(P), g.args = Append(f.args, e), FlattenMore
<1>3. LeftOf(g) = LeftOf(f) BY DEF LeftOf
<1>4. PICK l \in Seq(P), a \in Seq(P) : l = LeftOf(f) /\ a = FlattenSeq(f.args)
  BY WorthTyped
<1>5. (l \o a) \o e = l \o (a \o e)
  BY ONLY l \in Seq(P), a \in Seq(P), e \in Seq(P), Assoc
<1> QED BY ONLY <1>2, <1>3, <1>4, <1>5 DEF Worth

\* Nothing but a name.
LEMMA WorthName ==
  ASSUME NEW P, NEW f \in FrameOf(P), f.args = << >>
  PROVE  Worth(f) = LeftOf(f)
<1>1. LeftOf(f) \in Seq(P) BY WorthTyped
<1>2. LeftOf(f) \o << >> = LeftOf(f) BY ONLY <1>1
<1> QED BY ONLY <1>2, f.args = << >>, FlattenNone DEF Worth

\* What a complete call is generated as: what it has, and then itself.
LEMMA RunsIs ==
  ASSUME NEW f \in FrameOf(Nat), LeftIs(f), text[f.at] \in Callee,
         f.how = "call" <=> text[f.at] = "f", text[f.at] = "u" => f.how = "method",
         text[f.at] = "b" => Len(f.args) <= 1
  PROVE  Runs(f) = Append(Worth(f), f.at)
<1>1. PICK c \in Nat : c = f.at BY DEF FrameOf
<1>2. f.args \in Seq(Seq(Nat)) /\ f.how \in Hows BY DEF FrameOf
<1>3. PICK l \in Seq(Nat), a \in Seq(Nat) : l = LeftOf(f) /\ a = FlattenSeq(f.args)
  BY WorthTyped
<1>4. Worth(f) = l \o a BY ONLY <1>3 DEF Worth
<1>5. Append(l \o a, c) = (l \o a) \o <<c>> /\ (l = << >> => l \o a = a)
  BY ONLY l \in Seq(Nat), a \in Seq(Nat), c \in Nat
<1>6. FunctionRuns(c, f.args) = a \o <<c>> BY ONLY <1>3 DEF FunctionRuns
<1>7. CASE f.how = "call"
  <2>1. l = << >> BY ONLY <1>3, <1>7, LeftIs(f) DEF LeftIs, LeftOf
  <2>2. Runs(f) = FunctionRuns(c, f.args) BY ONLY <1>1, <1>7 DEF Runs
  <2> QED BY ONLY <1>1, <1>4, <1>5, <1>6, <2>1, <2>2
<1>8. CASE f.how # "call" /\ text[c] = "u"
  <2>1. f.how = "method" BY <1>1, <1>8
  <2>2. f.left = << << >> >> BY ONLY <2>1, LeftIs(f) DEF LeftIs
  <2>3. << << >> >> # << >> /\ Len(<< << >> >>) = 1 /\ << << >> >>[1] = << >> OBVIOUS
  <2>4. l = << >> BY ONLY <1>3, <2>2, <2>3 DEF LeftOf, LastOf
  <2>5. Runs(f) = FunctionRuns(c, f.args) BY ONLY <1>1, <1>8 DEF Runs, MethodRuns
  <2> QED BY ONLY <1>1, <1>4, <1>5, <1>6, <2>4, <2>5
<1>9. CASE f.how # "call" /\ text[c] # "u"
  <2>1. text[c] = "b" BY <1>1, <1>9 DEF Callee
  <2>2. Len(f.args) <= 1 BY <1>1, <2>1
  <2>3. PICK d : d = IF f.args = << >> THEN << >> ELSE f.args[1] OBVIOUS
  <2>4. Runs(f) = l \o d \o <<c>> BY ONLY <1>1, <1>3, <1>9, <2>3 DEF Runs, MethodRuns
  <2>5. d = a
    <3>1. CASE f.args = << >> BY ONLY <1>3, <2>3, <3>1, FlattenNone
    <3>2. CASE f.args # << >>
      <4>1. PICK s \in Seq(Seq(Nat)) : s = f.args BY <1>2
      <4>4. Len(s) <= 1 /\ s # << >> BY ONLY <2>2, <3>2, <4>1
      <4>5. PICK m \in Nat : m = Len(s) BY ONLY s \in Seq(Seq(Nat))
      <4>6. m # 0 BY ONLY <4>4, <4>5, s \in Seq(Seq(Nat))
      <4>7. m <= 1 BY <4>4, <4>5
      <4>2. Len(s) = 1 BY ONLY <4>5, <4>6, <4>7, m \in Nat
      <4>3. FlattenSeq(s) = s[1] BY ONLY <4>2, s \in Seq(Seq(Nat)), FlattenOne
      <4> QED BY ONLY <1>3, <2>3, <3>2, <4>1, <4>3
    <3> QED BY <3>1, <3>2
  <2> QED BY ONLY <1>1, <1>4, <1>5, <2>4, <2>5
<1> QED BY <1>7, <1>8, <1>9

\* What is generated for the calls whose arguments are being read amounts to g.
BasesAre(fs, b) ==
  /\ b \in [0 .. Len(fs) -> Seq(Nat)] /\ b[0] = << >>
  /\ \A k \in 1 .. Len(fs) : b[k] = b[k - 1] \o Worth(fs[k])
Base(fs, g) == \E b : BasesAre(fs, b) /\ b[Len(fs)] = g

LEMMA BaseNone == \A g : Base(<< >>, g) <=> g = << >>
<1>1. ASSUME NEW g, Base(<< >>, g) PROVE g = << >>
  <2>1. Len(<< >>) = 0 OBVIOUS
  <2>2. PICK b : BasesAre(<< >>, b) /\ b[Len(<< >>)] = g BY <1>1 DEF Base
  <2> QED BY ONLY <2>1, <2>2 DEF BasesAre
<1>2. Base(<< >>, << >>)
  <2>1. PICK b : b = [k \in 0 .. 0 |-> << >>] OBVIOUS
  <2>2. Len(<< >>) = 0 /\ 0 \in 0 .. 0 /\ << >> \in Seq(Nat) OBVIOUS
  <2>3. b \in [0 .. 0 -> Seq(Nat)] /\ b[0] = << >> BY ONLY <2>1, <2>2
  <2>4. \A k \in 1 .. 0 : b[k] = b[k - 1] \o Worth(<< >>[k]) OBVIOUS
  <2>5. BasesAre(<< >>, b) BY ONLY <2>2, <2>3, <2>4 DEF BasesAre
  <2> QED BY ONLY <2>2, <2>3, <2>5 DEF Base
<1> QED BY <1>1, <1>2

LEMMA BaseTyped ==
  ASSUME NEW fs, Len(fs) \in Nat, NEW g, Base(fs, g)
  PROVE  g \in Seq(Nat)
<1>1. PICK b : BasesAre(fs, b) /\ b[Len(fs)] = g BY DEF Base
<1>2. b \in [0 .. Len(fs) -> Seq(Nat)] BY ONLY <1>1 DEF BasesAre
<1>3. Len(fs) \in 0 .. Len(fs) BY ONLY Len(fs) \in Nat
<1> QED BY ONLY <1>1, <1>2, <1>3

LEMMA BaseMore ==
  ASSUME NEW fs \in Seq(FrameOf(Nat)), NEW g, Base(fs, g), NEW f \in FrameOf(Nat), NEW d,
         d = g \o Worth(f)
  PROVE  Base(Append(fs, f), d)
<1>1. PICK n, t : n = Len(fs) /\ t = Append(fs, f) OBVIOUS
<1>2. /\ n \in Nat /\ Len(t) = n + 1 /\ t[n + 1] = f /\ \A k \in 1 .. n : t[k] = fs[k]
  BY ONLY <1>1, fs \in Seq(FrameOf(Nat)), f \in FrameOf(Nat), AppendFacts
<1>3. PICK b : BasesAre(fs, b) /\ b[n] = g BY <1>1 DEF Base
<1>4. /\ b \in [0 .. n -> Seq(Nat)] /\ b[0] = << >>
      /\ \A k \in 1 .. n : b[k] = b[k - 1] \o Worth(fs[k])
  BY ONLY <1>1, <1>3 DEF BasesAre
<1>5. Worth(f) \in Seq(Nat) BY WorthTyped
<1>6. d \in Seq(Nat)
  <2>1. n \in 0 .. n BY ONLY <1>2
  <2>2. g \in Seq(Nat) BY ONLY <1>3, <1>4, <2>1
  <2> QED BY ONLY <1>5, <2>2, d = g \o Worth(f)
<1>7. PICK c : c = [k \in 0 .. n + 1 |-> IF k = n + 1 THEN d ELSE b[k]] OBVIOUS
<1>8. c \in [0 .. n + 1 -> Seq(Nat)]
  <2>1. ASSUME NEW k \in 0 .. n + 1, k # n + 1 PROVE b[k] \in Seq(Nat)
    <3>1. k \in 0 .. n BY ONLY <1>2, <2>1
    <3> QED BY ONLY <1>4, <3>1
  <2> QED BY ONLY <1>6, <1>7, <2>1
<1>9. c[n + 1] = d /\ \A k \in 0 .. n : c[k] = b[k] BY ONLY <1>2, <1>7
<1>10. ASSUME NEW k \in 1 .. n + 1 PROVE c[k] = c[k - 1] \o Worth(t[k])
  <2>1. CASE k = n + 1
    <3>1. n \in 0 .. n /\ n + 1 - 1 = n BY ONLY <1>2
    <3>2. c[n] = g BY ONLY <1>3, <1>9, <3>1
    <3>3. c[k] = d /\ t[k] = f /\ k - 1 = n BY ONLY <1>2, <1>9, <2>1, <3>1
    <3> QED BY ONLY <3>2, <3>3, d = g \o Worth(f)
  <2>2. CASE k # n + 1
    <3>1. k \in 1 .. n /\ k \in 0 .. n /\ k - 1 \in 0 .. n BY ONLY <1>2, <2>2, k \in 1 .. n + 1
    <3> QED BY ONLY <1>2, <1>4, <1>9, <3>1
  <2> QED BY <2>1, <2>2
<1>11. c[0] = << >>
  <2>1. 0 \in 0 .. n BY ONLY <1>2
  <2> QED BY ONLY <1>4, <1>9, <2>1
<1>12. BasesAre(t, c) BY ONLY <1>2, <1>8, <1>10, <1>11 DEF BasesAre
<1> QED BY ONLY <1>1, <1>2, <1>9, <1>12 DEF Base

LEMMA BaseLess ==
  ASSUME NEW fs \in Seq(FrameOf(Nat)), fs # << >>, NEW g, Base(fs, g)
  PROVE  \E d \in Seq(Nat) : Base(Front(fs), d) /\ g = d \o Worth(LastOf(fs))
<1>1. PICK n, t : n = Len(fs) /\ t = Front(fs) OBVIOUS
<1>2. n \in Nat /\ n >= 1 /\ n \in 1 .. n /\ n - 1 \in 0 .. n /\ n - 1 \in Nat
  BY ONLY <1>1, fs \in Seq(FrameOf(Nat)), fs # << >>
<1>3. Len(t) = n - 1 /\ \A k \in 1 .. n - 1 : t[k] = fs[k]
  BY ONLY <1>1, fs \in Seq(FrameOf(Nat)), fs # << >>, FrontFacts
<1>4. PICK b : BasesAre(fs, b) /\ b[n] = g BY <1>1 DEF Base
<1>5. /\ b \in [0 .. n -> Seq(Nat)] /\ b[0] = << >>
      /\ \A k \in 1 .. n : b[k] = b[k - 1] \o Worth(fs[k])
  BY ONLY <1>1, <1>4 DEF BasesAre
<1>6. PICK c : c = [k \in 0 .. n - 1 |-> b[k]] OBVIOUS
<1>7. \A k \in 0 .. n - 1 : c[k] = b[k] /\ k \in 0 .. n BY ONLY <1>2, <1>6
<1>8. c \in [0 .. n - 1 -> Seq(Nat)] BY ONLY <1>5, <1>6, <1>7
<1>9. ASSUME NEW k \in 1 .. n - 1 PROVE c[k] = c[k - 1] \o Worth(t[k])
  <2>1. k \in 0 .. n - 1 /\ k - 1 \in 0 .. n - 1 /\ k \in 1 .. n
    BY ONLY <1>2, k \in 1 .. n - 1
  <2> QED BY ONLY <1>3, <1>5, <1>7, <2>1, k \in 1 .. n - 1
<1>10. c[0] = << >>
  <2>1. 0 \in 0 .. n - 1 BY ONLY <1>2
  <2> QED BY ONLY <1>5, <1>7, <2>1
<1>11. BasesAre(t, c) BY ONLY <1>3, <1>8, <1>9, <1>10 DEF BasesAre
<1>12. PICK d : d = b[n - 1] OBVIOUS
<1>13. d \in Seq(Nat) BY ONLY <1>2, <1>5, <1>12
<1>14. c[n - 1] = d
  <2>1. n - 1 \in 0 .. n - 1 BY ONLY <1>2
  <2> QED BY ONLY <1>7, <1>12, <2>1
<1>15. Base(t, d) BY ONLY <1>3, <1>11, <1>14 DEF Base
<1>16. g = d \o Worth(fs[n]) BY ONLY <1>2, <1>4, <1>5, <1>12
<1> QED BY ONLY <1>1, <1>13, <1>15, <1>16 DEF LastOf

\* What the parser has read so far is generated as far as the author's calls are complete.
LongAt(x, h, j) == CalleeAt(h, j) > 1 /\ x[CalleeAt(h, j) - 1] = ")"
Short(x, h) ==
  \A q \in 1 .. Len(x) : x[q] = ")" /\ q < Len(x) /\ x[q + 1] = "b" => ~LongAt(x, h, q)

Answers == {"primary", "member", "expression", "end"}
Answered(fs, v, g) == \E d \in Seq(Nat) : Base(fs, d) /\ d \o LastOf(v) = g

Valued(x, h, j, m, fs, v) ==
  /\ LeftsAre(fs)
  /\ m \in {"operand", "arguments"} => Base(fs, h[j].gen)
  /\ m \in Answers => v # << >> /\ Answered(fs, v, h[j].gen)
  /\ m = "member" => Len(v) <= 2 /\ (Len(v) = 2 => LongAt(x, h, j))
  /\ m = "end" => Len(v) = 1

LEMMA LeftsMore ==
  ASSUME NEW fs \in Seq(FrameOf(Nat)), LeftsAre(fs), NEW f \in FrameOf(Nat), LeftIs(f)
  PROVE  LeftsAre(Append(fs, f))
<1>1. PICK n, t : n = Len(fs) /\ t = Append(fs, f) OBVIOUS
<1>2. /\ n \in Nat /\ Len(t) = n + 1 /\ t[n + 1] = f /\ \A k \in 1 .. n : t[k] = fs[k]
  BY ONLY <1>1, fs \in Seq(FrameOf(Nat)), f \in FrameOf(Nat), AppendFacts
<1>3. ASSUME NEW k \in 1 .. Len(t) PROVE LeftIs(t[k])
  <2>1. CASE k = n + 1 BY ONLY <1>2, <2>1, LeftIs(f)
  <2>2. CASE k # n + 1
    <3>1. k \in 1 .. n BY ONLY <1>2, <2>2, k \in 1 .. Len(t)
    <3> QED BY ONLY <1>1, <1>2, <3>1, LeftsAre(fs) DEF LeftsAre
  <2> QED BY <2>1, <2>2
<1> QED BY ONLY <1>1, <1>3 DEF LeftsAre

LEMMA LeftsLess ==
  ASSUME NEW fs \in Seq(FrameOf(Nat)), fs # << >>, LeftsAre(fs)
  PROVE  LeftsAre(Front(fs)) /\ LeftIs(LastOf(fs)) /\ LastOf(fs) \in FrameOf(Nat)
<1>1. PICK n, t : n = Len(fs) /\ t = Front(fs) OBVIOUS
<1>2. n \in Nat /\ n \in 1 .. n BY ONLY <1>1, fs \in Seq(FrameOf(Nat)), fs # << >>
<1>3. Len(t) = n - 1 /\ \A k \in 1 .. n - 1 : t[k] = fs[k]
  BY ONLY <1>1, fs \in Seq(FrameOf(Nat)), fs # << >>, FrontFacts
<1>4. ASSUME NEW k \in 1 .. Len(t) PROVE LeftIs(t[k])
  <2>1. k \in 1 .. n - 1 /\ k \in 1 .. n BY ONLY <1>2, <1>3, k \in 1 .. Len(t)
  <2> QED BY ONLY <1>1, <1>3, <2>1, LeftsAre(fs) DEF LeftsAre
<1>5. LeftIs(fs[n]) /\ fs[n] \in FrameOf(Nat)
  BY ONLY <1>1, <1>2, LeftsAre(fs), fs \in Seq(FrameOf(Nat)) DEF LeftsAre
<1> QED BY ONLY <1>1, <1>4, <1>5 DEF LeftsAre, LastOf

\* The types in which the values are put together.
LEMMA ValueTypes ==
  ASSUME ParserInv, NEW h, Known(h), NEW j, Here(h, j)
  PROVE  /\ frames \in Seq(FrameOf(Nat)) /\ value \in Seq(Seq(Nat)) /\ 1 .. Len(text) \subseteq Nat
         /\ j \in 0 .. Len(text) /\ h[j] \in Behind /\ h[j].gen \in Seq(Nat)
<1>1. /\ text \in Seq(Token) /\ Story(text, h) /\ j \in 0 .. Len(text)
      /\ frames \in Seq(FrameOf(1 .. Len(text))) /\ value \in Seq(Seq(1 .. Len(text)))
  BY HereFacts
<1>2. PICK n \in Nat : n = Len(text) BY ONLY <1>1
<1>3. 1 .. Len(text) \subseteq Nat BY <1>2
<1>4. frames \in Seq(FrameOf(Nat)) BY ONLY <1>1, <1>3, WiderFrames
<1>5. value \in Seq(Seq(Nat)) BY ONLY <1>1, <1>3, WiderParts
<1>6. h[j] \in Behind BY ONLY <1>1 DEF Story
<1>7. h[j].gen \in Seq(Nat) BY ONLY <1>6 DEF Behind
<1> QED BY ONLY <1>1, <1>3, <1>4, <1>5, <1>6, <1>7

\* What the tokens do that complete nothing.
LEMMA GenStays ==
  ASSUME NEW x, NEW h, Story(x, h), NEW i \in 1 .. Len(x), x[i] # ")"
  PROVE  h[i].gen = h[i - 1].gen
<1>1. Does(x, i, h[i - 1], h[i]) BY StoryDoes
<1>2. PICK r, s : r = h[i - 1] /\ s = h[i] OBVIOUS
<1>3. Does(x, i, r, s) BY <1>1, <1>2
<1>4. x[i] \in Token
  <2>1. x \in Seq(Token) BY DEF Story
  <2> QED BY ONLY <2>1, i \in 1 .. Len(x)
<1>5. CASE x[i] = "v" BY ONLY <1>2, <1>3, <1>5 DEF Does, VariableDoes
<1>6. CASE x[i] \in Callee BY ONLY <1>2, <1>3, <1>6 DEF Does
<1>7. CASE x[i] = "(" BY ONLY <1>2, <1>3, <1>7 DEF Does, OpeningDoes
<1>8. CASE x[i] = "," BY ONLY <1>2, <1>3, <1>8 DEF Does, CommaDoes
<1> QED BY ONLY <1>4, <1>5, <1>6, <1>7, <1>8, x[i] # ")" DEF Token

LEMMA ReadOperandValued ==
  ASSUME ParserInv, NEW h, Known(h), NEW j, Here(h, j), ReadOperand,
         Valued(text, h, j, mode, frames, value)
  PROVE  Valued(text, h, at, mode', frames', value')
<1>1. /\ mode = "operand" /\ Peek(at) = "v" /\ value' = << << >> >> /\ mode' = "primary"
      /\ frames' = frames
  BY DEF ReadOperand
<1>2. /\ text \in Seq(Token) /\ Story(text, h) /\ j \in 0 .. Len(text)
      /\ at \in 1 .. Len(text) + 1 /\ Match(text, h, j, mode, at, frames, read)
      /\ Peek(at) = IF at <= Len(text) THEN text[at] ELSE "end"
  BY HereFacts
<1>3. at <= Len(text) /\ text[at] = "v"
  <2>1. "end" # "v" OBVIOUS
  <2> QED BY ONLY <1>1, <1>2, <2>1
<1>4. at = j + 1 BY ONLY <1>1, <1>2 DEF Match, Position
<1>5. PICK n \in Nat : n = Len(text) BY ONLY <1>2
<1>6. at \in 1 .. Len(text) /\ at - 1 = j
  <2>1. at \in 1 .. n + 1 /\ at <= n /\ j \in 0 .. n BY ONLY <1>2, <1>3, <1>5
  <2> QED BY ONLY <1>4, <1>5, <2>1
<1>7. h[at].gen = h[j].gen
  <2>1. text[at] # ")" BY ONLY <1>3
  <2>2. h[at].gen = h[at - 1].gen BY ONLY <1>2, <1>6, <2>1, GenStays
  <2> QED BY ONLY <1>6, <2>2
<1>8. PICK g \in Seq(Nat) : g = h[j].gen BY ValueTypes
<1>9. Base(frames, g) /\ LeftsAre(frames)
  BY ONLY <1>1, <1>8, Valued(text, h, j, mode, frames, value) DEF Valued
<1>10. PICK v : v = << << >> >> OBVIOUS
<1>11. v # << >> /\ LastOf(v) = << >> BY ONLY <1>10 DEF LastOf
<1>12. g \o << >> = g BY ONLY g \in Seq(Nat)
<1>13. Answered(frames, v, g) BY ONLY <1>9, <1>11, <1>12, g \in Seq(Nat) DEF Answered
<1>14. value' = v BY ONLY <1>1, <1>10
<1> QED BY ONLY <1>1, <1>7, <1>8, <1>9, <1>11, <1>13, <1>14 DEF Valued

LEMMA ReadNameValued ==
  ASSUME ParserInv, NEW h, Known(h), NEW j, Here(h, j), LeftsAre(frames), Peek(at) \in Callee,
         NEW how \in Hows, NEW left \in Seq(Seq(Nat)), ReadName(how, left),
         mode \notin {"arguments", "end"}, NEW d \in Seq(Nat), Base(frames, d),
         NEW f, f = [at |-> at, how |-> how, left |-> left, args |-> << >>],
         LeftIs(f), d \o LeftOf(f) = h[j].gen
  PROVE  Valued(text, h, at + 1, mode', frames', value')
<1>1. mode' = "arguments" /\ frames' = Append(frames, f) BY DEF ReadName
<1>2. /\ text \in Seq(Token) /\ Story(text, h) /\ Follows(text) /\ j \in 0 .. Len(text)
      /\ at \in 1 .. Len(text) + 1 /\ Match(text, h, j, mode, at, frames, read)
      /\ Peek(at) = IF at <= Len(text) THEN text[at] ELSE "end"
  BY HereFacts
<1>3. at <= Len(text) /\ text[at] \in Callee
  <2>1. "end" \notin Callee BY DEF Callee
  <2> QED BY ONLY <1>2, <2>1, Peek(at) \in Callee
<1>4. PICK n \in Nat : n = Len(text) BY ONLY <1>2
<1>5. at \in 1 .. n
  <2>1. at \in 1 .. n + 1 /\ at <= n BY ONLY <1>2, <1>3, <1>4
  <2> QED BY ONLY <2>1, n \in Nat
<1>6. at = j + 1
  <2> SUFFICES ASSUME at # j + 1 PROVE FALSE OBVIOUS
  <2>1. at > j + 1 /\ Trails(text, j) BY ONLY <1>2, at # j + 1 DEF Match, Position
  <2>2. j \in 0 .. n BY <1>2, <1>4
  <2>5. at > j + 1 BY <2>1
  <2>3. at \in j + 1 .. n BY ONLY <1>5, <2>2, <2>5, n \in Nat
  <2>4. text[at] = ")" BY ONLY <1>4, <2>1, <2>3 DEF Trails
  <2>6. ")" \notin Callee BY DEF Callee
  <2> QED BY ONLY <1>3, <2>4, <2>6
<1>7. at < n /\ text[at + 1] = "("
  <2>1. FollowsAt(text, at) BY ONLY <1>2, <1>4, <1>5 DEF Follows
  <2> QED BY ONLY <1>3, <1>4, <2>1 DEF FollowsAt
<1>8. PICK k \in Nat : k = at + 1 BY <1>5
<1>9. k \in 1 .. n /\ k - 1 = at BY ONLY <1>5, <1>7, <1>8, n \in Nat
<1>10. h[k].gen = h[j].gen
  <2>1. text[at] # ")" /\ text[k] # ")"
    <3>1. ")" \notin Callee BY DEF Callee
    <3> QED BY ONLY <1>3, <1>7, <1>8, <3>1
  <2>2. h[k].gen = h[k - 1].gen BY ONLY <1>2, <1>4, <1>9, <2>1, GenStays
  <2>3. h[at].gen = h[at - 1].gen BY ONLY <1>2, <1>4, <1>5, <2>1, GenStays
  <2>4. at - 1 = j
    <3>1. j \in 0 .. n BY ONLY <1>2, <1>4
    <3> QED BY ONLY <1>6, <3>1
  <2> QED BY ONLY <1>9, <2>2, <2>3, <2>4
<1>11. frames \in Seq(FrameOf(Nat)) BY ValueTypes
<1>12. f \in FrameOf(Nat) /\ f.args = << >>
  <2>1. << >> \in Seq(Seq(Nat)) /\ at \in Nat BY ONLY <1>5, n \in Nat
  <2> QED BY ONLY <2>1, how \in Hows, left \in Seq(Seq(Nat)),
            f = [at |-> at, how |-> how, left |-> left, args |-> << >>] DEF FrameOf
<1>13. Worth(f) = LeftOf(f) BY ONLY <1>12, WorthName
<1>14. PICK g : g = h[j].gen OBVIOUS
<1>15. g = d \o Worth(f) BY <1>13, <1>14
<1>16. Base(Append(frames, f), g)
  BY ONLY <1>11, <1>12, <1>15, Base(frames, d), BaseMore
<1>17. LeftsAre(Append(frames, f)) BY ONLY <1>11, <1>12, LeftsAre(frames), LeftIs(f), LeftsMore
<1>18. Base(frames', h[k].gen) /\ LeftsAre(frames') BY ONLY <1>1, <1>10, <1>14, <1>16, <1>17
<1>19. Valued(text, h, k, mode', frames', value') BY ONLY <1>1, <1>18 DEF Valued, Answers
<1> QED BY ONLY <1>8, <1>19

\* What the expression read so far is worth.
LEMMA AnswerIs ==
  ASSUME NEW fs, NEW v, NEW g, Answered(fs, v, g), Len(fs) \in Nat
  PROVE  \E d \in Seq(Nat) : Base(fs, d) /\ d \o LastOf(v) = g
BY DEF Answered

LEMMA NameValued ==
  ASSUME ParserInv, NEW h, Known(h), NEW j, Here(h, j), Short(text, h),
         ParseCallExpression \/ ParsePrimary \/ ParseMemberAccess,
         Valued(text, h, j, mode, frames, value)
  PROVE  Valued(text, h, at + 1, mode', frames', value')
<1>1. /\ frames \in Seq(FrameOf(Nat)) /\ value \in Seq(Seq(Nat)) /\ h[j].gen \in Seq(Nat)
  BY ValueTypes
<1>2. LeftsAre(frames) BY DEF Valued
<1>3. PICK g \in Seq(Nat) : g = h[j].gen BY <1>1
<1>4. CASE ParseCallExpression
  <2>1. mode = "operand" /\ Peek(at) = "f" /\ ReadName("call", << >>)
    BY <1>4 DEF ParseCallExpression
  <2>2. "call" \in Hows /\ Peek(at) \in Callee /\ mode \notin {"arguments", "end"}
    BY ONLY <2>1 DEF Hows, Callee
  <2>3. << >> \in Seq(Seq(Nat)) OBVIOUS
  <2>4. PICK f : f = [at |-> at, how |-> "call", left |-> << >>, args |-> << >>] OBVIOUS
  <2>5. f.how = "call" /\ f.left = << >> BY ONLY <2>4
  <2>6. LeftIs(f) /\ LeftOf(f) = << >> BY ONLY <2>5 DEF LeftIs, LeftOf
  <2>7. Base(frames, g)
    BY ONLY <1>3, <2>1, Valued(text, h, j, mode, frames, value) DEF Valued
  <2>8. g \o << >> = g BY ONLY g \in Seq(Nat)
  <2>9. g \o LeftOf(f) = h[j].gen BY ONLY <1>3, <2>6, <2>8
  <2> QED BY ONLY <1>2, <2>1, <2>2, <2>3, <2>4, <2>6, <2>7, <2>9, g \in Seq(Nat), ParserInv,
                  Known(h), Here(h, j), ReadNameValued
<1>5. ASSUME NEW how \in {"method", "link"}, ReadName(how, value), Peek(at) \in Callee,
             mode \in {"primary", "member"},
             how = "method" => value = << << >> >>, how = "link" => Len(value) = 1
      PROVE  Valued(text, h, at + 1, mode', frames', value')
  <2>1. value # << >> /\ Answered(frames, value, g)
    BY ONLY <1>3, <1>5, Valued(text, h, j, mode, frames, value) DEF Valued, Answers
  <2>2. PICK d \in Seq(Nat) : Base(frames, d) /\ d \o LastOf(value) = g
    BY ONLY <2>1 DEF Answered
  <2>3. PICK f : f = [at |-> at, how |-> how, left |-> value, args |-> << >>] OBVIOUS
  <2>4. f.how = how /\ f.left = value BY ONLY <2>3
  <2>5. LeftOf(f) = LastOf(value) BY ONLY <2>1, <2>4 DEF LeftOf
  <2>6. LeftIs(f)
    <3>1. how # "call" BY ONLY how \in {"method", "link"}
    <3>2. /\ how = "method" => value = << << >> >>
          /\ how = "link" => Len(value) = 1
      BY <1>5
    <3> QED BY ONLY <2>4, <3>1, <3>2 DEF LeftIs
  <2>7. d \o LeftOf(f) = h[j].gen BY ONLY <1>3, <2>2, <2>5
  <2>8. how \in Hows /\ mode \notin {"arguments", "end"} BY ONLY <1>5, how \in {"method", "link"} DEF Hows
  <2> QED BY ONLY <1>1, <1>2, <1>5, <2>2, <2>3, <2>6, <2>7, <2>8, d \in Seq(Nat), ParserInv,
                  Known(h), Here(h, j), ReadNameValued
<1>6. CASE ParsePrimary
  <2>1. mode = "primary" /\ Peek(at) \in {"b", "u"} /\ ReadName("method", value)
    BY <1>6 DEF ParsePrimary
  <2>2. value = << << >> >> BY ONLY <2>1, ParserInv DEF ParserInv, Parsed, ModeFacts
  <2>3. Peek(at) \in Callee /\ mode \in {"primary", "member"} BY ONLY <2>1 DEF Callee
  <2>4. "method" \in {"method", "link"} /\ "method" # "link" OBVIOUS
  <2> QED BY ONLY <1>5, <2>1, <2>2, <2>3, <2>4
<1>7. CASE ParseMemberAccess
  <2>1. mode = "member" /\ Peek(at) \in {"b", "u"} /\ ReadName("link", value)
    BY <1>7 DEF ParseMemberAccess
  <2>2. Peek(at) \in Callee /\ mode \in {"primary", "member"} BY ONLY <2>1 DEF Callee
  <2>3. value # << >> /\ Len(value) <= 2 /\ (Len(value) = 2 => LongAt(text, h, j))
    BY ONLY <2>1, Valued(text, h, j, mode, frames, value) DEF Valued, Answers
  <2>4. /\ text \in Seq(Token) /\ Story(text, h) /\ Follows(text) /\ j \in 0 .. Len(text)
        /\ at \in 1 .. Len(text) + 1 /\ Match(text, h, j, mode, at, frames, read)
        /\ Peek(at) = IF at <= Len(text) THEN text[at] ELSE "end"
    BY HereFacts
  <2>5. Position(text, j, "member", at) BY ONLY <2>1, <2>4 DEF Match
  <2>6. at <= Len(text) /\ text[at] \in {"b", "u"} BY ONLY <2>1, <2>4
  <2>7. PICK n \in Nat : n = Len(text) BY ONLY <2>4
  <2>8. j > 0 /\ text[j] = ")" BY ONLY <2>5 DEF Position
  <2>9. at = j + 1
    <3> SUFFICES ASSUME at # j + 1 PROVE FALSE OBVIOUS
    <3>1. at > j + 1 /\ Trails(text, j) BY ONLY <2>5, at # j + 1 DEF Position
    <3>2. at <= n /\ at \in 1 .. n + 1 /\ j \in 0 .. n BY ONLY <2>4, <2>6, <2>7
    <3>3. at > j + 1 BY <3>1
    <3>4. at \in j + 1 .. n BY ONLY <3>2, <3>3, n \in Nat
    <3>5. text[at] = ")" BY ONLY <2>7, <3>1, <3>4 DEF Trails
    <3> QED BY ONLY <2>6, <3>5
  <2>10. j \in 1 .. n /\ j < n
    <3>1. at <= n /\ j \in 0 .. n BY ONLY <2>4, <2>6, <2>7
    <3> QED BY ONLY <2>8, <2>9, <3>1, n \in Nat
  <2>11. text[j + 1] = "b"
    <3>1. FollowsAt(text, j) BY ONLY <2>4, <2>7, <2>10 DEF Follows
    <3>2. text[j + 1] = "u" => text[j] = "v" BY ONLY <2>7, <2>8, <2>10, <3>1 DEF FollowsAt
    <3> QED BY ONLY <2>6, <2>8, <2>9, <3>2
  <2>12. ~LongAt(text, h, j) BY ONLY <2>7, <2>8, <2>10, <2>11, Short(text, h) DEF Short
  <2>13. Len(value) = 1
    <3>1. PICK s, m : s \in Seq(Seq(Nat)) /\ s = value /\ m = Len(s) BY <1>1
    <3>1a. s \in Seq(Seq(Nat)) BY ONLY <3>1
    <3>2. m \in Nat /\ m # 0
      <4>1. s # << >> BY <2>3, <3>1
      <4>2. m = Len(s) BY <3>1
      <4> QED BY ONLY <4>1, <4>2, <3>1a
    <3>3. m <= 2 /\ m # 2 BY ONLY <2>3, <2>12, <3>1
    <3>4. m = 1 BY ONLY <3>2, <3>3
    <3> QED BY ONLY <3>1, <3>4
  <2>14. "link" \in {"method", "link"} /\ "method" # "link" OBVIOUS
  <2> QED BY ONLY <1>5, <2>1, <2>2, <2>13, <2>14
<1> QED BY <1>4, <1>6, <1>7

\* The end of a call is read: f is the call with all its arguments.
LEMMA ReturnValued ==
  ASSUME ParserInv, NEW h, Known(h), NEW j, Here(h, j), frames # << >>, j < Len(text),
         text[j + 1] = ")", NEW f \in FrameOf(1 .. Len(text)), f.at = LastOf(frames).at,
         f.how = LastOf(frames).how, f.left = LastOf(frames).left,
         LastOf(h[j].ins).args = Len(f.args), Returns(f), LeftsAre(frames),
         NEW d \in Seq(Nat), Base(Front(frames), d), d \o Worth(f) = h[j].gen
  PROVE  Valued(text, h, j + 1, mode', frames', value')
<1>1. /\ frames' = Front(frames)
      /\ value' = (IF f.how = "link" THEN Append(f.left, Runs(f)) ELSE <<Runs(f)>>)
      /\ mode' = (IF f.how = "call" THEN "expression" ELSE "member")
  BY ReturnsAre
<1>2. /\ text \in Seq(Token) /\ Story(text, h) /\ j \in 0 .. Len(text)
      /\ Match(text, h, j, mode, at, frames, read)
      /\ frames \in Seq(FrameOf(1 .. Len(text)))
  BY HereFacts
<1>3. /\ frames \in Seq(FrameOf(Nat)) /\ h[j] \in Behind /\ h[j].gen \in Seq(Nat)
      /\ 1 .. Len(text) \subseteq Nat
  BY ValueTypes
<1>4. f \in FrameOf(Nat) BY ONLY <1>3, f \in FrameOf(1 .. Len(text)), WiderFrame
<1>5. LeftsAre(Front(frames)) /\ LeftIs(LastOf(frames))
  BY ONLY <1>3, LeftsAre(frames), frames # << >>, LeftsLess
<1>6. LeftIs(f)
  <2>1. PICK l : l = LastOf(frames) OBVIOUS
  <2>2. f.how = l.how /\ f.left = l.left /\ LeftIs(l) BY <1>5, <2>1
  <2> QED BY ONLY <2>2 DEF LeftIs
<1>7. PICK n \in Nat, p \in Nat : n = Len(text) /\ p = j + 1 BY ONLY <1>2
<1>8. p \in 1 .. n /\ p - 1 = j /\ j \in 0 .. n
  <2>1. j < n /\ j \in 0 .. n BY <1>2, <1>7
  <2> QED BY ONLY <1>7, <2>1
<1>9. text[p] = ")" BY <1>7
<1>10. ClosingDoes(text, p, h[j], h[p])
  <2>1. Does(text, p, h[p - 1], h[p]) BY ONLY <1>2, <1>7, <1>8, StoryDoes
  <2> QED BY ONLY <1>8, <1>9, <2>1 DEF Does
<1>11. PICK ins, l : ins = h[j].ins /\ l = Len(ins) OBVIOUS
<1>12. ins \in Seq(CallRecord) /\ ins # << >> BY ONLY <1>3, <1>10, <1>11, Parts DEF ClosingDoes
<1>13. l \in Nat /\ l \in 1 .. l BY ONLY <1>11, <1>12
<1>14. PICK c : c = LastOf(ins) OBVIOUS
<1>15. c = ins[l] BY ONLY <1>11, <1>14 DEF LastOf
<1>16. Stacked(text, frames, ins, mode) BY ONLY <1>2, <1>11 DEF Match
<1>17. FrameOfCall(text, LastOf(frames), c)
  <2>4. frames \in Seq(FrameOf(1 .. Len(text))) BY ONLY <1>2
  <2>5. PICK fs, md, P : fs = frames /\ md = mode /\ P = 1 .. Len(text) OBVIOUS
  <2>6. fs \in Seq(FrameOf(P)) /\ fs # << >> /\ Stacked(text, fs, ins, md)
    BY ONLY <1>16, <2>4, <2>5, frames # << >>
  <2>2. PICK q : q = LastOf(fs) OBVIOUS
  <2>7. FrameOfCall(text, q, c) BY ONLY <1>12, <1>14, <2>2, <2>6, StackTop
  <2> QED BY ONLY <2>2, <2>5, <2>7
<1>18. /\ f.at = c.at /\ (f.how = "call" <=> text[f.at] = "f")
       /\ f.how = "link" => f.at > 1 /\ text[f.at - 1] = ")"
  <2>1. PICK q : q = LastOf(frames) OBVIOUS
  <2>2. f.at = q.at /\ f.how = q.how /\ FrameOfCall(text, q, c) BY <1>17, <2>1
  <2> QED BY ONLY <2>2 DEF FrameOfCall
<1>19. j > 0
  <2> SUFFICES ASSUME j = 0 PROVE FALSE BY <1>8
  <2>1. h[0] = Nothing BY ONLY <1>2 DEF Story
  <2>2. ins = << >> BY ONLY <1>11, <2>1, j = 0 DEF Nothing
  <2> QED BY ONLY <1>12, <2>2
<1>20. /\ c.at \in 1 .. j /\ text[c.at] \in Callee
       /\ text[c.at] = "b" => c.args <= 1
  <2>1. j \in 1 .. n BY ONLY <1>8, <1>19
  <2>2. Sane(text, j, h[j]) BY ONLY <1>2, <1>7, <2>1 DEF Story
  <2>3. l \in 1 .. Len(h[j].ins) BY ONLY <1>11, <1>13
  <2>4. h[j].ins[l] = c BY ONLY <1>11, <1>15
  <2> QED BY ONLY <2>2, <2>3, <2>4 DEF Sane
<1>21. c.args = Len(f.args) BY <1>11, <1>14
<1>22. PICK a : a = f.at OBVIOUS
<1>23. a \in 1 .. n /\ a = c.at /\ a \in 1 .. j BY ONLY <1>8, <1>18, <1>20, <1>22
<1>24. text[a] = "u" => f.how = "method"
  <2> SUFFICES ASSUME text[a] = "u" PROVE f.how = "method" OBVIOUS
  <2>1. StepAt(text, a, h[a - 1], h[a]) BY ONLY <1>2, <1>7, <1>23 DEF Story
  <2>2. text[a - 1] = "v" BY ONLY <2>1, text[a] = "u" DEF StepAt, Placed
  <2>3. f.how # "link" BY ONLY <1>18, <1>22, <2>2
  <2>4. f.how # "call" BY ONLY <1>18, <1>22, text[a] = "u"
  <2>5. f.how \in Hows BY ONLY <1>4 DEF FrameOf
  <2> QED BY ONLY <2>3, <2>4, <2>5 DEF Hows
<1>25. Runs(f) = Append(Worth(f), a)
  <2>1. text[f.at] \in Callee /\ (text[f.at] = "b" => Len(f.args) <= 1)
    BY ONLY <1>18, <1>20, <1>21
  <2>2. f.how = "call" <=> text[f.at] = "f" BY <1>18
  <2>3. text[f.at] = "u" => f.how = "method" BY <1>22, <1>24
  <2>4. Runs(f) = Append(Worth(f), f.at) BY ONLY <1>4, <1>6, <2>1, <2>2, <2>3, RunsIs
  <2> QED BY ONLY <1>22, <2>4
<1>26. PICK w, r : w \in Seq(Nat) /\ w = Worth(f) /\ r = Runs(f) BY <1>4, WorthTyped
<1>26a. w \in Seq(Nat) BY ONLY <1>26
<1>27. r = Append(w, a) /\ a \in Nat BY ONLY <1>7, <1>23, <1>25, <1>26
<1>28. r \in Seq(Nat) BY ONLY <1>27, <1>26a
<1>29. d \o r = h[p].gen
  <2>1. PICK g : g = h[j].gen OBVIOUS
  <2>2. h[p].gen = Append(g, a)
    BY ONLY <1>10, <1>11, <1>14, <1>23, <2>1 DEF ClosingDoes
  <2>3. g = d \o w BY <1>26, <2>1
  <2>4. d \o Append(w, a) = Append(d \o w, a)
    BY ONLY <1>27, d \in Seq(Nat), <1>26a
  <2> QED BY ONLY <1>27, <2>2, <2>3, <2>4
<1>30. PICK v : v = value' OBVIOUS
<1>31. v # << >> /\ LastOf(v) = r /\ (f.how # "link" => Len(v) = 1)
       /\ (f.how = "link" => Len(v) = 2)
  <2>1. CASE f.how = "link"
    <3>1. PICK t : t = f.left OBVIOUS
    <3>2. t \in Seq(Seq(Nat)) /\ Len(t) = 1
      <4>1. f.left \in Seq(Seq(Nat)) BY ONLY <1>4 DEF FrameOf
      <4>2. Len(f.left) = 1 BY ONLY <1>6, <2>1 DEF LeftIs
      <4> QED BY ONLY <3>1, <4>1, <4>2
    <3>3. v = Append(t, r) BY ONLY <1>1, <1>26, <1>30, <2>1, <3>1
    <3>4. Len(v) = 2 /\ v[2] = r /\ v # << >>
      <4>1. PICK T : T = Seq(Nat) OBVIOUS
      <4>2. PICK e \in T : e = r BY <1>28, <4>1
      <4>3. PICK s \in Seq(T) : s = t /\ Len(s) = 1 BY <3>2, <4>1
      <4>4. /\ Len(Append(s, e)) = Len(s) + 1 /\ Append(s, e)[Len(s) + 1] = e
            /\ Append(s, e) # << >>
        BY ONLY s \in Seq(T), e \in T, AppendFacts
      <4>5. 1 + 1 = 2 OBVIOUS
      <4> QED BY ONLY <3>3, <4>2, <4>3, <4>4, <4>5
    <3> QED BY ONLY <2>1, <3>4 DEF LastOf
  <2>2. CASE f.how # "link"
    <3>1. v = <<r>> BY ONLY <1>1, <1>26, <1>30, <2>2
    <3> QED BY ONLY <2>2, <3>1 DEF LastOf
  <2> QED BY <2>1, <2>2
<1>32. Answered(frames', v, h[p].gen)
  BY ONLY <1>1, <1>29, <1>31, d \in Seq(Nat), Base(Front(frames), d) DEF Answered
<1>33. f.how = "link" => LongAt(text, h, p)
  <2>1. CalleeAt(h, p) = a BY ONLY <1>8, <1>11, <1>14, <1>23 DEF CalleeAt
  <2> QED BY ONLY <1>18, <1>22, <2>1 DEF LongAt
<1>34. /\ LeftsAre(frames') /\ mode' \notin {"operand", "arguments", "end"}
       /\ mode' = "member" => Len(v) <= 2 /\ (Len(v) = 2 => LongAt(text, h, p))
  <2>1. 1 <= 2 /\ 2 <= 2 /\ 1 # 2 OBVIOUS
  <2> QED BY ONLY <1>1, <1>5, <1>31, <1>33, <2>1
<1>35. Valued(text, h, p, mode', frames', value')
  BY ONLY <1>30, <1>31, <1>32, <1>34 DEF Valued
<1> QED BY ONLY <1>7, <1>35

LEMMA NoArgumentsValued ==
  ASSUME ParserInv, NEW h, Known(h), NEW j, Here(h, j), NoArguments,
         Valued(text, h, j, mode, frames, value)
  PROVE  Valued(text, h, j + 1, mode', frames', value')
<1>1. PICK f : f = LastOf(frames) OBVIOUS
<1>2. /\ frames # << >> /\ j < Len(text) /\ text[j + 1] = ")"
      /\ f \in FrameOf(1 .. Len(text)) /\ Returns(f) /\ LastOf(h[j].ins).args = Len(f.args)
  BY ONLY <1>1, ParserInv, Known(h), Here(h, j), NoArguments, NoArgumentsThere
<1>3. f.at = LastOf(frames).at /\ f.how = LastOf(frames).how /\ f.left = LastOf(frames).left
  BY <1>1
<1>4. frames \in Seq(FrameOf(Nat)) BY ValueTypes
<1>5. mode = "arguments" BY DEF NoArguments
<1>6. Base(frames, h[j].gen) /\ LeftsAre(frames)
  BY ONLY <1>5, Valued(text, h, j, mode, frames, value) DEF Valued
<1>7. PICK d \in Seq(Nat) : Base(Front(frames), d) /\ h[j].gen = d \o Worth(LastOf(frames))
  BY ONLY <1>2, <1>4, <1>6, BaseLess
<1>8. d \o Worth(f) = h[j].gen BY ONLY <1>1, <1>7
<1> QED BY ONLY <1>2, <1>3, <1>6, <1>7, <1>8, d \in Seq(Nat), ParserInv, Known(h), Here(h, j),
              ReturnValued

\* What a call has once an argument more is read.
LEMMA ArgumentValued ==
  ASSUME ParserInv, NEW h, Known(h), NEW j, Here(h, j), mode = "expression", frames # << >>,
         Valued(text, h, j, mode, frames, value),
         NEW f \in FrameOf(1 .. Len(text)), f.left = LastOf(frames).left,
         f.args = Append(LastOf(frames).args, value[1])
  PROVE  \E d \in Seq(Nat) : Base(Front(frames), d) /\ d \o Worth(f) = h[j].gen
<1>1. /\ frames \in Seq(FrameOf(Nat)) /\ value \in Seq(Seq(Nat)) /\ h[j].gen \in Seq(Nat)
      /\ 1 .. Len(text) \subseteq Nat
  BY ValueTypes
<1>2. f \in FrameOf(Nat) BY ONLY <1>1, f \in FrameOf(1 .. Len(text)), WiderFrame
<1>3. Len(value) = 1 BY ONLY mode = "expression", ParserInv DEF ParserInv, Parsed, ModeFacts
<1>4. LastOf(value) = value[1] /\ value[1] \in Seq(Nat) BY ONLY <1>1, <1>3, FlattenOne
<1>5. PICK e \in Seq(Nat) : e = value[1] BY <1>4
<1>6. PICK g \in Seq(Nat) : g = h[j].gen BY <1>1
<1>7. Answered(frames, value, g) /\ LeftsAre(frames)
  BY ONLY <1>6, mode = "expression", Valued(text, h, j, mode, frames, value) DEF Valued, Answers
<1>8. PICK c \in Seq(Nat) : Base(frames, c) /\ c \o LastOf(value) = g BY ONLY <1>7 DEF Answered
<1>9. PICK d \in Seq(Nat) : Base(Front(frames), d) /\ c = d \o Worth(LastOf(frames))
  BY ONLY <1>1, <1>8, frames # << >>, BaseLess
<1>10. LastOf(frames) \in FrameOf(Nat) BY ONLY <1>1, <1>7, frames # << >>, LeftsLess
<1>11. PICK l \in FrameOf(Nat) : l = LastOf(frames) BY <1>10
<1>12. f.left = l.left /\ f.args = Append(l.args, e) BY <1>5, <1>11
<1>13. Worth(f) = Worth(l) \o e
  BY ONLY <1>2, <1>12, l \in FrameOf(Nat), e \in Seq(Nat), WorthArgument
<1>14. PICK w \in Seq(Nat) : w = Worth(l) BY WorthTyped
<1>15. (d \o w) \o e = d \o (w \o e)
  BY ONLY d \in Seq(Nat), w \in Seq(Nat), e \in Seq(Nat), AssocNat
<1>16. d \o Worth(f) = g BY ONLY <1>4, <1>5, <1>8, <1>9, <1>11, <1>13, <1>14, <1>15
<1> QED BY ONLY <1>6, <1>9, <1>16, d \in Seq(Nat)

LEMMA LastArgumentValued ==
  ASSUME ParserInv, NEW h, Known(h), NEW j, Here(h, j), LastArgument,
         Valued(text, h, j, mode, frames, value)
  PROVE  Valued(text, h, j + 1, mode', frames', value')
<1>1. PICK l, f : l = LastOf(frames) /\ f = WithArgument(l) OBVIOUS
<1>2. /\ frames # << >> /\ j < Len(text) /\ text[j + 1] = ")"
      /\ f \in FrameOf(1 .. Len(text)) /\ Returns(f)
      /\ f.at = l.at /\ f.how = l.how /\ f.left = l.left
      /\ f.args = Append(l.args, value[1]) /\ LastOf(h[j].ins).args = Len(f.args)
  BY ONLY <1>1, ParserInv, Known(h), Here(h, j), LastArgument, LastArgumentThere
<1>3. /\ f.at = LastOf(frames).at /\ f.how = LastOf(frames).how /\ f.left = LastOf(frames).left
      /\ f.args = Append(LastOf(frames).args, value[1])
  BY ONLY <1>1, <1>2
<1>4. mode = "expression" BY DEF LastArgument
<1>5. PICK d \in Seq(Nat) : Base(Front(frames), d) /\ d \o Worth(f) = h[j].gen
  BY ONLY <1>2, <1>3, <1>4, ParserInv, Known(h), Here(h, j),
          Valued(text, h, j, mode, frames, value), ArgumentValued
<1>6. LeftsAre(frames) BY DEF Valued
<1> QED BY ONLY <1>2, <1>3, <1>5, <1>6, d \in Seq(Nat), ParserInv, Known(h), Here(h, j),
              ReturnValued

LEMMA NextArgumentValued ==
  ASSUME ParserInv, NEW h, Known(h), NEW j, Here(h, j), NextArgument,
         Valued(text, h, j, mode, frames, value)
  PROVE  Valued(text, h, at, mode', frames', value')
<1>1. /\ mode = "expression" /\ frames # << >> /\ mode' = "operand"
      /\ frames' = [frames EXCEPT ![Len(frames)] = WithArgument(frames[Len(frames)])]
  BY DEF NextArgument
<1>2. /\ at = j + 1 /\ at <= Len(text) /\ text[at] = "," /\ value[1] \in Seq(1 .. Len(text))
  BY NextArgumentMatches
<1>3. /\ text \in Seq(Token) /\ Story(text, h) /\ j \in 0 .. Len(text)
      /\ frames \in Seq(FrameOf(1 .. Len(text)))
  BY HereFacts
<1>4. frames \in Seq(FrameOf(Nat)) /\ 1 .. Len(text) \subseteq Nat BY ValueTypes
<1>5. PICK n \in Nat : n = Len(text) BY ONLY <1>3
<1>6. h[at].gen = h[j].gen
  <2>1. at <= n /\ j \in 0 .. n BY ONLY <1>2, <1>3, <1>5
  <2>5. at = j + 1 BY <1>2
  <2>6. at \in 1 .. n /\ at - 1 = j BY ONLY <2>1, <2>5, n \in Nat
  <2>2. at \in 1 .. Len(text) /\ at - 1 = j BY ONLY <1>5, <2>6
  <2>3. text[at] # ")" BY ONLY <1>2
  <2>4. h[at].gen = h[at - 1].gen BY ONLY <1>3, <2>2, <2>3, GenStays
  <2> QED BY ONLY <2>2, <2>4
<1>7. PICK P, l, f : P = 1 .. Len(text) /\ l = LastOf(frames) /\ f = WithArgument(l) OBVIOUS
<1>8. f \in FrameOf(P)
  <2>1. WithArgument(LastOf(frames)) \in FrameOf(1 .. Len(text))
    BY ONLY <1>1, ParserInv, WithArgumentTyped
  <2> QED BY ONLY <1>7, <2>1
<1>9. LeftsAre(frames) BY DEF Valued
<1>10. l \in FrameOf(Nat) /\ LeftIs(l) /\ LeftsAre(Front(frames))
  BY ONLY <1>1, <1>4, <1>7, <1>9, LeftsLess
<1>11. f.left = l.left /\ f.how = l.how /\ f.args = Append(l.args, value[1])
  <2>1. f = [l EXCEPT !.args = Append(@, value[1])] BY <1>7 DEF WithArgument
  <2>2. PICK t : t = Append(l.args, value[1]) OBVIOUS
  <2>3. f = [l EXCEPT !.args = t] BY ONLY <2>1, <2>2
  <2>4. f.left = l.left /\ f.how = l.how /\ f.args = t BY ONLY <1>10, <2>3 DEF FrameOf
  <2> QED BY ONLY <2>2, <2>4
<1>12. PICK d \in Seq(Nat) : Base(Front(frames), d) /\ d \o Worth(f) = h[j].gen
  <2>1. f \in FrameOf(1 .. Len(text)) BY ONLY <1>7, <1>8
  <2>2. f.left = LastOf(frames).left /\ f.args = Append(LastOf(frames).args, value[1])
    BY ONLY <1>7, <1>11
  <2> QED BY ONLY <1>1, <2>1, <2>2, ParserInv, Known(h), Here(h, j),
          Valued(text, h, j, mode, frames, value), ArgumentValued
<1>13. f \in FrameOf(Nat) /\ LeftIs(f)
  <2>1. P \subseteq Nat BY ONLY <1>4, <1>7
  <2>2. f \in FrameOf(Nat) BY ONLY <1>8, <2>1, WiderFrame
  <2> QED BY ONLY <1>10, <1>11, <2>2 DEF LeftIs
<1>14. PICK fr : fr = Front(frames) OBVIOUS
<1>15. fr \in Seq(FrameOf(Nat)) BY ONLY <1>1, <1>4, <1>14, FrontFacts
<1>16. PICK g : g = h[j].gen OBVIOUS
<1>17. Base(Append(fr, f), g)
  <2>1. g = d \o Worth(f) /\ Base(fr, d) BY ONLY <1>12, <1>14, <1>16
  <2> QED BY ONLY <1>13, <1>15, <2>1, BaseMore
<1>18. LeftsAre(Append(fr, f)) BY ONLY <1>10, <1>13, <1>14, <1>15, LeftsMore
<1>19. frames' = Append(fr, f)
  <2>1. PICK m : m = Len(frames) OBVIOUS
  <2>2. m \in Nat /\ m \in 1 .. m BY ONLY <1>1, <1>4, <2>1
  <2>3. frames' = [frames EXCEPT ![m] = f] BY ONLY <1>1, <1>7, <2>1 DEF LastOf
  <2>4. PICK s : s = Append(fr, f) OBVIOUS
  <2>5. Len(fr) = m - 1 /\ \A k \in 1 .. m - 1 : fr[k] = frames[k]
    BY ONLY <1>1, <1>4, <1>14, <2>1, FrontFacts
  <2>6. s \in Seq(FrameOf(Nat)) /\ Len(s) = Len(fr) + 1 /\ s[Len(fr) + 1] = f
        /\ \A k \in 1 .. Len(fr) : s[k] = fr[k]
    BY ONLY <1>13, <1>15, <2>4, AppendFacts
  <2>7. Len(s) = m /\ s[m] = f /\ \A k \in 1 .. m - 1 : s[k] = frames[k]
    BY ONLY <2>2, <2>5, <2>6
  <2>8. PICK z : z = [frames EXCEPT ![m] = f] OBVIOUS
  <2>9. z \in Seq(FrameOf(Nat)) /\ Len(z) = m /\ \A k \in 1 .. m : z[k] = IF k = m THEN f ELSE frames[k]
    BY ONLY <1>4, <1>13, <2>1, <2>2, <2>8
  <2>10. ASSUME NEW k \in 1 .. m PROVE z[k] = s[k]
    <3>1. k # m => k \in 1 .. m - 1 BY ONLY <2>2, k \in 1 .. m
    <3> QED BY ONLY <2>7, <2>9, <3>1, k \in 1 .. m
  <2>11. z = s BY ONLY <2>6, <2>7, <2>9, <2>10
  <2> QED BY ONLY <2>3, <2>4, <2>8, <2>11
<1>20. Base(frames', h[at].gen) /\ LeftsAre(frames') BY ONLY <1>6, <1>16, <1>17, <1>18, <1>19
<1> QED BY ONLY <1>1, <1>20 DEF Valued, Answers

LEMMA FirstArgumentValued ==
  ASSUME NEW h, NEW j, FirstArgument, Valued(text, h, j, mode, frames, value)
  PROVE  Valued(text, h, j, mode', frames', value')
<1>1. mode = "arguments" /\ mode' = "operand" /\ frames' = frames /\ value' = value
  BY DEF FirstArgument, parserVars
<1> QED BY ONLY <1>1, Valued(text, h, j, mode, frames, value) DEF Valued, Answers

LEMMA EndOfExpressionValued ==
  ASSUME ParserInv, NEW h, Known(h), NEW j, Here(h, j), EndOfExpression,
         Valued(text, h, j, mode, frames, value)
  PROVE  Valued(text, h, j, mode', frames', value')
<1>1. /\ mode \in {"primary", "member"} /\ mode' = "expression"
      /\ frames' = frames /\ value' = <<ChainRuns(value)>>
  BY DEF EndOfExpression
<1>2. value \in Seq(Seq(Nat)) BY ValueTypes
<1>3. PICK v, m : v \in Seq(Seq(Nat)) /\ v = value /\ m = Len(v) BY <1>2
<1>3a. v \in Seq(Seq(Nat)) BY ONLY <1>3
<1>4. m = 1 \/ m = 2
  <2>1. CASE mode = "primary"
    <3>1. v = << << >> >> BY ONLY <1>3, <2>1, ParserInv DEF ParserInv, Parsed, ModeFacts
    <3> QED BY ONLY <1>3, <3>1
  <2>2. CASE mode = "member"
    <3>1. v # << >> /\ m <= 2
      BY ONLY <1>3, <2>2, Valued(text, h, j, mode, frames, value) DEF Valued, Answers
    <3>2. m \in Nat /\ m # 0 BY ONLY <1>3, <3>1, <1>3a
    <3>3. m <= 2 BY <3>1
    <3> QED BY ONLY <3>2, <3>3
  <2> QED BY ONLY <1>1, <2>1, <2>2
<1>5. ChainRuns(v) = LastOf(v)
  <2>1. CASE m = 1
    <3>1. Len(v) = 1 /\ 1 # 2 BY <1>3, <2>1
    <3>2. FlattenSeq(v) = LastOf(v) BY ONLY <3>1, <1>3a, FlattenOne
    <3> QED BY ONLY <3>1, <3>2 DEF ChainRuns
  <2>2. CASE m = 2 BY ONLY <1>3, <2>2 DEF ChainRuns, LastOf
  <2> QED BY <1>4, <2>1, <2>2
<1>6. PICK g : g = h[j].gen OBVIOUS
<1>7. Answered(frames, v, g) /\ LeftsAre(frames)
  BY ONLY <1>1, <1>3, <1>6, Valued(text, h, j, mode, frames, value) DEF Valued, Answers
<1>8. PICK w : w = <<ChainRuns(v)>> OBVIOUS
<1>9. LastOf(w) = LastOf(v) /\ w # << >> BY ONLY <1>5, <1>8 DEF LastOf
<1>10. Answered(frames, w, g) BY ONLY <1>7, <1>9 DEF Answered
<1>11. value' = w BY ONLY <1>1, <1>3, <1>8
<1> QED BY ONLY <1>1, <1>6, <1>7, <1>9, <1>10, <1>11 DEF Valued

LEMMA EndOfStatementValued ==
  ASSUME ParserInv, NEW h, NEW j, EndOfStatement, Valued(text, h, j, mode, frames, value)
  PROVE  Valued(text, h, j, mode', frames', value')
<1>1. mode = "expression" /\ mode' = "end" /\ frames' = frames /\ value' = value
  BY DEF EndOfStatement, parserVars
<1>2. Len(value) = 1 BY ONLY <1>1, ParserInv DEF ParserInv, Parsed, ModeFacts
<1> QED BY ONLY <1>1, <1>2, Valued(text, h, j, mode, frames, value) DEF Valued, Answers

\* Where the parser is, and what is generated for what it has read.
ValueInv ==
  mode \notin Writing =>
    \A h : Known(h) /\ Short(text, h) =>
      \E j : Here(h, j) /\ Valued(text, h, j, mode, frames, value)

LEMMA ValueStep ==
  ASSUME AuthorInv, ParserInv, ValueInv, [Next]_vars
  PROVE  ValueInv'
<1>1. CASE UNCHANGED vars
  <2>1. ValueInv' = ValueInv BY ONLY <1>1 DEF vars, ValueInv, Known, Here
  <2> QED BY ONLY <2>1, ValueInv
<1>2. CASE WriteVariable \/ WriteCall \/ WriteMethod \/ WriteComma \/ WriteClose
  <2>1. mode' \in Writing BY <1>2, AuthorKeeps
  <2> QED BY ONLY <2>1 DEF ValueInv
<1>3. CASE Finish
  <2>1. mode = "written" /\ mode' = "operand" /\ UNCHANGED <<text, inside, meant, parserVars>>
    BY <1>3 DEF Finish
  <2>2. at = 1 /\ frames = << >> /\ read = << >>
    BY ONLY <2>1, ParserInv DEF ParserInv, Parsed, Writing
  <2>3. at' = 1 /\ frames' = << >> /\ read' = << >> /\ text' = text
    BY ONLY <2>1, <2>2 DEF parserVars
  <2>4. ASSUME NEW h, Known(h)' PROVE Here(h, 0)' /\ Valued(text, h, 0, mode, frames, value)'
    <3>1. Story(text, h) BY ONLY <2>3, <2>4 DEF Known
    <3>2. h[0] = Nothing /\ text \in Seq(Token) BY ONLY <3>1 DEF Story
    <3>3. h[0].ins = << >> /\ h[0].mea = << >> /\ h[0].gen = << >> BY ONLY <3>2 DEF Nothing
    <3>4. PICK n \in Nat : n = Len(text) BY ONLY <3>2
    <3>5. 0 \in 0 .. n /\ 1 = 0 + 1 BY ONLY n \in Nat
    <3>6. Position(text, 0, "operand", 1) BY ONLY <3>4, <3>5 DEF Position
    <3>7. Stacked(text, << >>, << >>, "operand")
      BY DEF Stacked, FramesOfCalls, ArgumentsTo
    <3>8. Match(text, h, 0, "operand", 1, << >>, << >>) BY ONLY <3>3, <3>6, <3>7 DEF Match
    <3>9. LeftsAre(<< >>) BY DEF LeftsAre
    <3>10. Base(<< >>, h[0].gen) BY ONLY <3>3, BaseNone
    <3>11. PICK v : v = value' OBVIOUS
    <3>12. Valued(text, h, 0, "operand", << >>, v) BY ONLY <3>9, <3>10 DEF Valued, Answers
    <3> QED BY ONLY <2>1, <2>3, <3>8, <3>11, <3>12 DEF Here
  <2> QED BY ONLY <2>4 DEF ValueInv
<1>4. CASE Parse
  <2>1. mode \notin Writing /\ mode' \notin Writing /\ UNCHANGED <<text, inside, meant>>
    BY <1>4, ParserKeeps
  <2>2. ASSUME NEW h, Known(h)', Short(text', h)
        PROVE  \E k : Here(h, k)' /\ Valued(text, h, k, mode, frames, value)'
    <3>1. Known(h) /\ Short(text, h) BY ONLY <2>1, <2>2 DEF Known
    <3>2. PICK j : Here(h, j) /\ Valued(text, h, j, mode, frames, value)
      BY ONLY <2>1, <3>1, ValueInv DEF ValueInv
    <3>3. \E k : /\ Match(text, h, k, mode', at', frames', read')
                 /\ Valued(text, h, k, mode', frames', value')
      <4>1. CASE ReadOperand
        BY ONLY <3>1, <3>2, <4>1, ParserInv, ReadOperandMatches, ReadOperandValued
      <4>2. CASE ParseCallExpression \/ ParsePrimary \/ ParseMemberAccess
        BY ONLY <3>1, <3>2, <4>2, ParserInv, NameMatches, NameValued
      <4>3. CASE NoArguments
        BY ONLY <3>1, <3>2, <4>3, ParserInv, NoArgumentsMatches, NoArgumentsValued
      <4>4. CASE FirstArgument
        BY ONLY <3>1, <3>2, <4>4, ParserInv, FirstArgumentMatches, FirstArgumentValued
      <4>5. CASE NextArgument
        BY ONLY <3>1, <3>2, <4>5, ParserInv, NextArgumentMatches, NextArgumentValued
      <4>6. CASE LastArgument
        BY ONLY <3>1, <3>2, <4>6, ParserInv, LastArgumentMatches, LastArgumentValued
      <4>7. CASE EndOfExpression
        BY ONLY <3>1, <3>2, <4>7, ParserInv, EndOfExpressionMatches, EndOfExpressionValued
      <4>8. CASE EndOfStatement
        BY ONLY <3>1, <3>2, <4>8, ParserInv, EndOfStatementMatches, EndOfStatementValued
      <4> QED BY ONLY <1>4, <4>1, <4>2, <4>3, <4>4, <4>5, <4>6, <4>7, <4>8 DEF Parse
    <3> QED BY ONLY <2>1, <3>3 DEF Here
  <2> QED BY ONLY <2>2 DEF ValueInv
<1> QED BY <1>1, <1>2, <1>3, <1>4 DEF Next, Write

LEMMA ValueInit == Init => ValueInv
BY DEF Init, ValueInv, Writing

\* The calls that are meant are those that the history counts.
LEMMA CallsMeantIs ==
  ASSUME meant \in Seq(CallRecord), NEW g, NEW c, CountsTo(text, meant, g, c)
  PROVE  CallsMeant = g
<1>1. PICK n \in Nat : n = Len(meant) OBVIOUS
<1>2. /\ c \in [0 .. n -> Seq(Nat)] /\ c[0] = << >> /\ c[n] = g
      /\ \A k \in 1 .. n :
           c[k] = IF text[meant[k].at] = "v" THEN c[k - 1] ELSE Append(c[k - 1], meant[k].at)
  BY ONLY <1>1, CountsTo(text, meant, g, c) DEF CountsTo
<1>3. ASSUME NEW k \in 0 .. n PROVE c[k] = CallsTo(k, c)
  <2>1. CASE k = 0 BY ONLY <1>2, <2>1 DEF CallsTo
  <2>2. CASE k # 0
    <3>1. k \in 1 .. n BY ONLY <2>2, n \in Nat, k \in 0 .. n
    <3> QED BY ONLY <1>2, <2>2, <3>1 DEF CallsTo
  <2> QED BY <2>1, <2>2
<1>4. c = [k \in 0 .. n |-> CallsTo(k, c)] BY ONLY <1>2, <1>3
<1>5. PICK q : q = CHOOSE f : f = [k \in 0 .. Len(meant) |-> CallsTo(k, f)] OBVIOUS
<1>6. CallsMeant = q[Len(meant)] BY ONLY <1>5 DEF CallsMeant
<1>7. q = [k \in 0 .. n |-> CallsTo(k, q)] BY ONLY <1>1, <1>4, <1>5
<1>8. PICK T : T = {k \in 0 .. n : q[k] # c[k]} OBVIOUS
<1>9. T = {}
  <2> SUFFICES ASSUME T # {} PROVE FALSE OBVIOUS
  <2>1. T \subseteq Nat BY ONLY <1>8, n \in Nat
  <2>2. PICK k \in T : \A d \in T : k <= d BY ONLY <2>1, T # {}, LeastNatural
  <2>3. k \in 0 .. n /\ q[k] # c[k] BY ONLY <1>8, k \in T
  <2>4. q[k] = CallsTo(k, q) /\ c[k] = CallsTo(k, c) BY ONLY <1>4, <1>7, <2>3
  <2>5. k # 0 => q[k - 1] = c[k - 1]
    <3> SUFFICES ASSUME k # 0 PROVE q[k - 1] = c[k - 1] OBVIOUS
    <3>1. k - 1 \in 0 .. n /\ ~(k <= k - 1) BY ONLY <2>3, k # 0, n \in Nat
    <3>2. k - 1 \notin T BY ONLY <2>2, <3>1
    <3> QED BY ONLY <1>8, <3>1, <3>2
  <2>6. CallsTo(k, q) = CallsTo(k, c) BY ONLY <2>5 DEF CallsTo
  <2> QED BY ONLY <2>3, <2>4, <2>6
<1>10. n \in 0 .. n OBVIOUS
<1>11. q[n] = c[n] BY ONLY <1>8, <1>9, <1>10
<1> QED BY ONLY <1>1, <1>2, <1>6, <1>11

\* Without long chains, the history has none.
LEMMA ShortIs ==
  ASSUME NEW h, Known(h), ~LongChain
  PROVE  Short(text, h)
<1>1. Story(text, h) /\ Plain(text, h) /\ Follows(text) /\ text \in Seq(Token)
  BY DEF Known, Follows
<1>2. PICK n \in Nat : n = Len(text) BY ONLY <1>1
<1>3. SUFFICES ASSUME NEW q \in 1 .. n, text[q] = ")", q < n, text[q + 1] = "b", LongAt(text, h, q)
               PROVE  FALSE
  BY <1>2 DEF Short
<1>4. CalleeOf(q) = CalleeAt(h, q) /\ q \in Closings
  BY ONLY <1>1, <1>2, <1>3, q \in 1 .. n, CalleeIs
<1>5. q + 1 \in 1 .. n BY ONLY <1>3, q \in 1 .. n, n \in Nat
<1>6. Peek(q + 1) = "b" BY ONLY <1>2, <1>3, <1>5 DEF Peek
<1>7. PICK a : a = CalleeAt(h, q) OBVIOUS
<1>8. a > 1 /\ text[a - 1] = ")" BY ONLY <1>3, <1>7 DEF LongAt
<1>9. a \in 1 .. n /\ text[a] \in Callee
  <2>1. q - 1 \in 0 .. n /\ q \in 0 .. n BY ONLY q \in 1 .. n, n \in Nat
  <2>2. Does(text, q, h[q - 1], h[q]) BY ONLY <1>1, <1>2, q \in 1 .. n, StoryDoes
  <2>3. PICK r : r = h[q - 1] OBVIOUS
  <2>4. ClosingDoes(text, q, r, h[q]) /\ r \in Behind BY ONLY <1>3, <2>2, <2>3 DEF Does
  <2>5. r.ins # << >> /\ r.ins \in Seq(CallRecord) BY ONLY <2>4, Parts DEF ClosingDoes
  <2>6. PICK l : l = Len(r.ins) OBVIOUS
  <2>7. l \in 1 .. l BY ONLY <2>5, <2>6
  <2>8. q - 1 # 0
    <3> SUFFICES ASSUME q - 1 = 0 PROVE FALSE OBVIOUS
    <3>1. h[0] = Nothing BY ONLY <1>1 DEF Story
    <3>2. r.ins = << >> BY ONLY <2>3, <3>1, q - 1 = 0 DEF Nothing
    <3> QED BY ONLY <2>5, <3>2
  <2>9. PICK p \in 1 .. n : p = q - 1
    <3>1. q - 1 \in 1 .. n BY ONLY <2>1, <2>8, n \in Nat
    <3> QED BY <3>1
  <2>10. Sane(text, p, r) BY ONLY <1>1, <1>2, <2>3, <2>9, p \in 1 .. n DEF Story
  <2>11. r.ins[l].at \in 1 .. p /\ text[r.ins[l].at] \in Callee BY ONLY <2>6, <2>7, <2>10 DEF Sane
  <2>12. a = r.ins[l].at BY ONLY <1>7, <2>3, <2>6 DEF CalleeAt, LastOf
  <2>13. a \in 1 .. p BY ONLY <2>11, <2>12
  <2>14. a \in 1 .. n BY ONLY <2>13, p \in 1 .. n, n \in Nat
  <2> QED BY ONLY <2>11, <2>12, <2>14
<1>10. PICK p \in Nat : p = a - 1 BY <1>9
<1>11. p \in 1 .. n /\ p < n /\ p + 1 = a /\ text[p] = ")"
  <2>1. a > 1 BY <1>8
  <2>2. p \in 1 .. n /\ p < n /\ p + 1 = a BY ONLY <1>9, <1>10, <2>1, n \in Nat
  <2> QED BY ONLY <1>8, <1>10, <2>2
<1>12. CalleeOf(p) = CalleeAt(h, p) /\ p \in Closings
  BY ONLY <1>1, <1>2, <1>11, CalleeIs
<1>13. text[p + 1] = "b"
  <2>1. FollowsAt(text, p) BY ONLY <1>1, <1>2, <1>11 DEF Follows
  <2>2. text[p + 1] \in {"b", "u", ",", ")"} /\ (text[p + 1] = "u" => text[p] = "v")
    BY ONLY <1>2, <1>11, <2>1 DEF FollowsAt
  <2>3. text[p + 1] \in Callee BY ONLY <1>9, <1>11
  <2> QED BY ONLY <1>11, <2>2, <2>3 DEF Callee
<1>14. Peek(p + 1) = "b"
  <2>1. p + 1 \in 1 .. Len(text) BY ONLY <1>2, <1>9, <1>11
  <2> QED BY ONLY <1>13, <2>1 DEF Peek
<1>15. text[CalleeOf(p)] # "f"
  <2>1. PlainAt(text, h, p) BY ONLY <1>1, <1>2, <1>11 DEF Plain
  <2>2. text[CalleeAt(h, p)] = "f" => text[p + 1] \notin {"b", "u"}
    BY ONLY <1>2, <1>11, <2>1 DEF PlainAt
  <2> QED BY ONLY <1>12, <1>13, <2>2
<1>16. CalleeOf(q) = p + 1 BY ONLY <1>4, <1>7, <1>11
<1>17. LongChain BY ONLY <1>4, <1>6, <1>12, <1>14, <1>15, <1>16 DEF LongChain
<1> QED BY <1>17

\* As EndHere, with what is generated.
LEMMA EndValued ==
  ASSUME Inductive, ValueInv, mode = "end", Readable, ~LongChain
  PROVE  \E g : value = <<g>> /\ \E c : CountsTo(text, meant, g, c)
<1>0. mode \notin Writing BY DEF Writing
<1>1. PICK r : Author(text, inside, meant, mode, r) BY DEF Inductive, AuthorInv
<1>2. /\ Told(text, r) /\ r.ins = inside /\ r.mea = meant /\ inside = << >>
  BY <1>1 DEF Author, Writing
<1>3. mode # "write operand" BY DEF Writing
<1>4. Follows(text) BY ONLY <1>1, <1>3, AuthorFollows
<1>5. PICK h : Story(text, h) /\ h[Len(text)] = r BY ONLY <1>2 DEF Told
<1>6. Plain(text, h) BY ONLY <1>5, Readable, ReadableIsPlain
<1>7. Known(h) BY ONLY <1>2, <1>4, <1>5, <1>6 DEF Known
<1>8. Short(text, h) BY ONLY <1>7, ~LongChain, ShortIs
<1>9. PICK j : Here(h, j) /\ Valued(text, h, j, mode, frames, value)
  BY ONLY <1>0, <1>7, <1>8, ValueInv DEF ValueInv
<1>10. ParserInv BY DEF Inductive
<1>11. frames = << >> /\ j = Len(text)
  <2>1. Match(text, h, j, "end", at, frames, read) BY ONLY <1>9, mode = "end" DEF Here
  <2>2. j = Len(text) /\ FramesOfCalls(text, frames, h[j].ins)
    BY ONLY <2>1 DEF Match, Position, Stacked
  <2>3. h[j].ins = << >> BY ONLY <1>2, <1>5, <2>2
  <2>4. Len(frames) = 0 BY ONLY <2>2, <2>3 DEF FramesOfCalls
  <2>5. frames \in Seq(FrameOf(Nat)) BY ONLY <1>7, <1>9, <1>10, ValueTypes
  <2> QED BY ONLY <2>2, <2>4, <2>5
<1>12. value \in Seq(Seq(Nat)) BY ONLY <1>7, <1>9, <1>10, ValueTypes
<1>13. Len(value) = 1 /\ Answered(<< >>, value, r.gen)
  BY ONLY <1>5, <1>9, <1>11, mode = "end" DEF Valued, Answers
<1>14. PICK d \in Seq(Nat) : Base(<< >>, d) /\ d \o LastOf(value) = r.gen
  BY ONLY <1>13 DEF Answered
<1>15. d = << >> BY ONLY <1>14, BaseNone
<1>16. LastOf(value) = value[1] /\ value[1] \in Seq(Nat) BY ONLY <1>12, <1>13, FlattenOne
<1>17. PICK e \in Seq(Nat) : e = value[1] BY <1>16
<1>18. << >> \o e = e BY ONLY e \in Seq(Nat)
<1>19. r.gen = e BY ONLY <1>14, <1>15, <1>16, <1>17, <1>18
<1>20. value = <<e>>
  <2>1. PICK s \in Seq(Seq(Nat)) : s = value BY <1>12
  <2>2. Len(s) = 1 /\ s[1] = e BY ONLY <1>13, <1>17, <2>1
  <2>3. s = <<e>> BY ONLY <2>2, s \in Seq(Seq(Nat)), e \in Seq(Nat)
  <2> QED BY ONLY <2>1, <2>3
<1>21. \E c : CountsTo(text, meant, e, c)
  <2>1. Counted(text, r) BY ONLY <1>2 DEF Told
  <2> QED BY ONLY <1>2, <1>19, <2>1 DEF Counted
<1> QED BY <1>20, <1>21

GenerationInductive == Inductive /\ ValueInv

LEMMA GenerationInductiveHolds == Spec => []GenerationInductive
<1>1. Init => GenerationInductive BY AuthorInit, ParserInit, ValueInit DEF GenerationInductive, Inductive
<1>2. GenerationInductive /\ [Next]_vars => GenerationInductive'
  BY AuthorStep, ParserStep, ValueStep DEF GenerationInductive, Inductive
<1> QED BY <1>1, <1>2, PTL DEF Spec

\* Every call of a readable expression without long chains is generated, once, after its
\* receiver and its arguments (the visits of the call expressions).
THEOREM EveryCallOnce == Spec => []RunsOnce
<1>1. ASSUME Inductive, ValueInv PROVE RunsOnce
  <2> SUFFICES ASSUME mode = "end", Readable, ~LongChain PROVE value = <<CallsMeant>>
    BY DEF RunsOnce
  <2>1. PICK g : value = <<g>> /\ \E c : CountsTo(text, meant, g, c)
    BY ONLY <1>1, mode = "end", Readable, ~LongChain, EndValued
  <2>2. PICK c : CountsTo(text, meant, g, c) BY <2>1
  <2>3. meant \in Seq(CallRecord)
    <3>1. PICK r : Author(text, inside, meant, mode, r) BY <1>1 DEF Inductive, AuthorInv
    <3>2. Told(text, r) /\ r.mea = meant BY <3>1 DEF Author
    <3>3. r \in Behind BY ONLY <3>2, ToldFacts
    <3> QED BY ONLY <3>2, <3>3, Parts
  <2>4. CallsMeant = g BY ONLY <2>2, <2>3, CallsMeantIs
  <2> QED BY ONLY <2>1, <2>4
<1>2. GenerationInductive => RunsOnce BY <1>1 DEF GenerationInductive
<1> QED BY <1>2, GenerationInductiveHolds, PTL
=============================================================================
