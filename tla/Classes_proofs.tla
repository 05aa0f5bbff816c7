---------------------------- MODULE Classes_proofs ----------------------------
(***************************************************************************)
(* Classes with a base class: proof of TypeOK, MethodInItsScope,           *)
(* FailureExplained and MethodsAreNearest of Classes, for any number of    *)
(* classes and members.                                                    *)
(*                                                                         *)
(* The invariant says where the scopes of member functions, made or copied,*)
(* stand among the children of their classes' scopes (Lined).  After what  *)
(* each operator does to the scopes, one part follows for the head of a    *)
(* class, one for its members, two for its end, and one for the generator. *)
(* The last part is about the methods that a class ends up with: what it   *)
(* copies from its base is the nearest there, and so here (AreNearest).    *)
(***************************************************************************)
EXTENDS Classes, FiniteSetTheorems, WellFoundedInduction, TLAPS

-----------------------------------------------------------------------------
(***************************************************************************)
(* Numbers and sequences.                                                  *)
(***************************************************************************)

\* A set of numbers has a least.
LEMMA LeastNatural ==
  ASSUME NEW T, T \subseteq Nat, T # {}
  PROVE  \E x \in T : \A y \in T : x <= y
<1> DEFINE R == {ss \in Nat \X Nat : ss[1] < ss[2]}
<1>1. R = OpToRel(<, Nat) BY DEF OpToRel
<1>2. IsWellFoundedOn(R, Nat) BY NatLessThanWellFounded, <1>1
<1>3. \E x \in T : \A y \in T : <<y, x>> \notin R
  <2> HIDE DEF R
  <2> QED BY <1>2, WFMin
<1>4. PICK x \in T : \A y \in T : <<y, x>> \notin R BY <1>3
<1>5. \A y \in T : x <= y
  <2> TAKE y \in T
  <2>1. <<y, x>> \in Nat \X Nat => ~(y < x) BY <1>4
  <2> QED BY <2>1
<1> QED BY <1>5

LEMMA LeastIsLeast ==
  ASSUME NEW S \in SUBSET Nat, S # {}
  PROVE  Least(S) \in S /\ \A j \in S : Least(S) <= j
<1>1. \E x \in S : \A y \in S : x <= y BY LeastNatural
<1> QED BY <1>1 DEF Least

\* What holds of 0, and of a number after each it holds of, holds of all numbers.
LEMMA Counting ==
  ASSUME NEW K, 0 \in K, \A d \in Nat : d \in K => d + 1 \in K
  PROVE  \A d \in Nat : d \in K
<1>1. PICK T : T = {d \in Nat : d \notin K} OBVIOUS
<1>2. SUFFICES ASSUME T # {} PROVE FALSE BY <1>1
<1>3. PICK d \in T : \A e \in T : d <= e BY <1>1, <1>2, LeastNatural
<1>4. d # 0 /\ d \in Nat BY <1>1
<1>5. d - 1 \in Nat /\ d - 1 \notin T BY <1>1, <1>3, <1>4
<1>6. d - 1 \in K BY <1>1, <1>5
<1>7. (d - 1) + 1 \in K BY ONLY <1>5, <1>6, \A e \in Nat : e \in K => e + 1 \in K
<1>8. (d - 1) + 1 = d BY <1>4
<1> QED BY <1>1, <1>7, <1>8

LEMMA AppendFacts ==
  ASSUME NEW T, NEW s \in Seq(T), NEW e \in T
  PROVE  /\ Append(s, e) \in Seq(T) /\ Len(Append(s, e)) = Len(s) + 1 /\ Len(s) \in Nat
         /\ Append(s, e)[Len(s) + 1] = e
         /\ \A i \in 1 .. Len(s) : Append(s, e)[i] = s[i]
OBVIOUS

LEMMA Wider ==
  ASSUME NEW T, NEW s \in Seq(T), NEW U, \A k \in 1 .. Len(s) : s[k] \in U
  PROVE  s \in Seq(U)
OBVIOUS

LEMMA Joined ==
  ASSUME NEW T, NEW s \in Seq(T), NEW t \in Seq(T)
  PROVE  /\ s \o t \in Seq(T) /\ Len(s \o t) = Len(s) + Len(t)
         /\ Len(s) \in Nat /\ Len(t) \in Nat
         /\ \A i \in 1 .. Len(s) : (s \o t)[i] = s[i]
         /\ \A i \in 1 .. Len(t) : (s \o t)[Len(s) + i] = t[i]
OBVIOUS

-----------------------------------------------------------------------------
(***************************************************************************)
(* Among.                                                                  *)
(***************************************************************************)

AmongAt(s, set, f, k) ==
  IF k = 0 THEN << >> ELSE IF s[k] \in set THEN Append(f[k - 1], s[k]) ELSE f[k - 1]

AmongTo(s, set, f, n) == \A k \in 0 .. n : f[k] = AmongAt(s, set, f, k)

LEMMA AmongIs ==
  ASSUME NEW s, Len(s) \in Nat, NEW set
  PROVE  \E f : AmongTo(s, set, f, Len(s)) /\ Among(s, set) = f[Len(s)]
<1>1. PICK n \in Nat : n = Len(s) OBVIOUS
<1>2. PICK K : K = {d \in Nat : \E f : AmongTo(s, set, f, d)} OBVIOUS
<1>3. 0 \in K
  <2>1. PICK f : f = [k \in 0 .. 0 |-> << >>] OBVIOUS
  <2>2. \A k \in 0 .. 0 : f[k] = AmongAt(s, set, f, k) BY <2>1 DEF AmongAt
  <2>3. AmongTo(s, set, f, 0) BY <2>2 DEF AmongTo
  <2> QED BY <1>2, <2>3
<1>4. ASSUME NEW d \in Nat, d \in K PROVE d + 1 \in K
  <2>1. PICK f : AmongTo(s, set, f, d) BY <1>2, <1>4
  <2>2. PICK e : e = IF s[d + 1] \in set THEN Append(f[d], s[d + 1]) ELSE f[d] OBVIOUS
  <2>3. PICK g : g = [k \in 0 .. d + 1 |-> IF k = d + 1 THEN e ELSE f[k]] OBVIOUS
  <2>4. \A k \in 0 .. d : g[k] = f[k] BY ONLY <2>3, d \in Nat
  <2>5. g[d + 1] = e BY ONLY <2>3, d \in Nat
  <2>6. \A k \in 0 .. d + 1 : g[k] = AmongAt(s, set, g, k)
    <3> TAKE k \in 0 .. d + 1
    <3>1. CASE k = 0
      <4>1. g[0] = f[0] /\ f[0] = << >> BY <2>1, <2>4 DEF AmongTo, AmongAt
      <4> QED BY <3>1, <4>1 DEF AmongAt
    <3>2. CASE k = d + 1
      <4>1. k # 0 /\ k - 1 = d BY <3>2
      <4>2. g[k - 1] = f[d] /\ g[k] = e BY <2>4, <2>5, <3>2, <4>1
      <4> QED BY <2>2, <3>2, <4>1, <4>2 DEF AmongAt
    <3>3. CASE k # 0 /\ k # d + 1
      <4>1. k \in 0 .. d /\ k - 1 \in 0 .. d BY <3>3
      <4>2. g[k] = f[k] /\ g[k - 1] = f[k - 1] /\ f[k] = AmongAt(s, set, f, k)
        BY <2>1, <2>4, <4>1 DEF AmongTo
      <4> QED BY <3>3, <4>2 DEF AmongAt
    <3> QED BY <3>1, <3>2, <3>3
  <2>7. AmongTo(s, set, g, d + 1) BY <2>6 DEF AmongTo
  <2> QED BY <1>2, <2>7
<1>5. n \in K
  <2>1. \A d \in Nat : d \in K => d + 1 \in K BY <1>4
  <2>2. \A d \in Nat : d \in K BY ONLY <1>3, <2>1, Counting
  <2> QED BY <2>2
<1>6. PICK f : AmongTo(s, set, f, n) BY <1>2, <1>5
<1>7. PICK g : g = [k \in 0 .. n |-> f[k]] OBVIOUS
<1>8. g = [k \in 0 .. n |-> AmongAt(s, set, g, k)]
  <2>1. \A k \in 0 .. n : g[k] = AmongAt(s, set, g, k)
    <3> TAKE k \in 0 .. n
    <3>1. k # 0 => k - 1 \in 0 .. n OBVIOUS
    <3>2. g[k] = f[k] /\ (k # 0 => g[k - 1] = f[k - 1]) BY <1>7, <3>1
    <3>3. f[k] = AmongAt(s, set, f, k) BY <1>6 DEF AmongTo
    <3> QED BY <3>2, <3>3 DEF AmongAt
  <2> QED BY <1>7, <2>1
<1>9. PICK h : h = CHOOSE x : x = [k \in 0 .. n |-> AmongAt(s, set, x, k)] OBVIOUS
<1>10. h = [k \in 0 .. n |-> AmongAt(s, set, h, k)] BY <1>8, <1>9
<1>11. Among(s, set) = h[n] BY <1>1, <1>9 DEF Among, AmongAt
<1>12. AmongTo(s, set, h, n) BY <1>10 DEF AmongTo
<1> QED BY <1>1, <1>11, <1>12

\* Sequences that agree, with sets that agree about them.
LEMMA AmongAlike ==
  ASSUME NEW s, NEW t, NEW A, NEW B, NEW f, NEW g, NEW n \in Nat,
         AmongTo(s, A, f, n), AmongTo(t, B, g, n),
         \A k \in 1 .. n : s[k] = t[k] /\ (s[k] \in A <=> t[k] \in B)
  PROVE  \A k \in 0 .. n : f[k] = g[k]
<1>1. PICK T : T = {k \in 0 .. n : f[k] # g[k]} OBVIOUS
<1>2. SUFFICES ASSUME T # {} PROVE FALSE BY <1>1
<1>3. PICK k \in T : \A j \in T : k <= j BY <1>1, <1>2, LeastNatural
<1>4. k \in 0 .. n /\ f[k] # g[k] BY <1>1
<1>5. f[k] = AmongAt(s, A, f, k) /\ g[k] = AmongAt(t, B, g, k) BY <1>4 DEF AmongTo
<1>6. k # 0 BY <1>4, <1>5 DEF AmongAt
<1>7. k - 1 \in 0 .. n /\ k - 1 \notin T BY <1>3, <1>4, <1>6
<1>8. f[k - 1] = g[k - 1] BY <1>1, <1>7
<1>9. s[k] = t[k] /\ (s[k] \in A <=> t[k] \in B) BY <1>4, <1>6
<1> QED BY <1>4, <1>5, <1>6, <1>8, <1>9 DEF AmongAt

LEMMA AmongSame ==
  ASSUME NEW s, Len(s) \in Nat, NEW A, NEW B, \A k \in 1 .. Len(s) : s[k] \in A <=> s[k] \in B
  PROVE  Among(s, A) = Among(s, B)
<1>1. PICK f : AmongTo(s, A, f, Len(s)) /\ Among(s, A) = f[Len(s)] BY AmongIs
<1>2. PICK g : AmongTo(s, B, g, Len(s)) /\ Among(s, B) = g[Len(s)] BY AmongIs
<1>3. PICK n \in Nat : n = Len(s) OBVIOUS
<1>4. \A k \in 1 .. n : s[k] = s[k] /\ (s[k] \in A <=> s[k] \in B) BY <1>3
<1>5. \A k \in 0 .. n : f[k] = g[k] BY ONLY <1>1, <1>2, <1>3, <1>4, AmongAlike
<1> QED BY <1>1, <1>2, <1>3, <1>5

LEMMA AmongMore ==
  ASSUME NEW T, NEW s \in Seq(T), NEW e \in T, NEW A
  PROVE  Among(Append(s, e), A) = IF e \in A THEN Append(Among(s, A), e) ELSE Among(s, A)
<1>0. Len(s) \in Nat /\ Append(s, e) \in Seq(T) BY AppendFacts
<1>1. PICK n \in Nat, t \in Seq(T) : n = Len(s) /\ t = Append(s, e) BY <1>0
<1>2. Len(t) = n + 1 /\ t[n + 1] = e /\ \A k \in 1 .. n : t[k] = s[k] BY <1>1
<1>3. PICK f : AmongTo(s, A, f, n) /\ Among(s, A) = f[n] BY <1>1, AmongIs
<1>4. Len(t) \in Nat BY <1>2
<1>5. PICK g : AmongTo(t, A, g, Len(t)) /\ Among(t, A) = g[Len(t)] BY <1>4, AmongIs
<1>6. AmongTo(t, A, g, n)
  <2>1. \A k \in 0 .. n : k \in 0 .. n + 1 OBVIOUS
  <2> QED BY <1>2, <1>5, <2>1 DEF AmongTo
<1>7. \A k \in 1 .. n : t[k] = s[k] /\ (t[k] \in A <=> s[k] \in A) BY <1>2
<1>8. \A k \in 0 .. n : g[k] = f[k] BY ONLY <1>3, <1>6, <1>7, AmongAlike
<1>9. g[n] = f[n] BY <1>8
<1>10. g[n + 1] = AmongAt(t, A, g, n + 1) BY <1>2, <1>5 DEF AmongTo
<1>11. n + 1 # 0 /\ (n + 1) - 1 = n OBVIOUS
<1>12. g[n + 1] = IF e \in A THEN Append(f[n], e) ELSE f[n]
  BY <1>2, <1>9, <1>10, <1>11 DEF AmongAt
<1>13. Among(t, A) = g[n + 1] BY <1>2, <1>5
<1> QED BY <1>1, <1>3, <1>12, <1>13

\* What is among a sequence is in its order.
Picks(s, A, t, h) ==
  /\ \A i \in 1 .. Len(t) : h[i] \in 1 .. Len(s) /\ t[i] = s[h[i]] /\ t[i] \in A
  /\ \A i, j \in 1 .. Len(t) : i < j => h[i] < h[j]
  /\ \A k \in 1 .. Len(s) : s[k] \in A => \E i \in 1 .. Len(t) : h[i] = k

LEMMA AmongPicks ==
  ASSUME NEW T, NEW s \in Seq(T), NEW A
  PROVE  /\ Among(s, A) \in Seq(T)
         /\ \E h : Picks(s, A, Among(s, A), h)
<1>1. PICK n \in Nat : n = Len(s) BY Len(s) \in Nat
<1>2. PICK f : AmongTo(s, A, f, n) /\ Among(s, A) = f[n] BY <1>1, AmongIs
<1> DEFINE To(d, t, h) ==
      /\ \A i \in 1 .. Len(t) : h[i] \in 1 .. d /\ t[i] = s[h[i]] /\ t[i] \in A
      /\ \A i, j \in 1 .. Len(t) : i < j => h[i] < h[j]
      /\ \A k \in 1 .. d : s[k] \in A => \E i \in 1 .. Len(t) : h[i] = k
<1>3. PICK K : K = {d \in Nat : d <= n => f[d] \in Seq(T) /\ \E h : To(d, f[d], h)} OBVIOUS
<1>4. 0 \in K
  <2>1. 0 \in 0 .. n OBVIOUS
  <2>2. f[0] = << >> BY <1>2, <2>1 DEF AmongTo, AmongAt
  <2>3. PICK t : t = f[0] OBVIOUS
  <2>4. t \in Seq(T) /\ Len(t) = 0 BY <2>2, <2>3
  <2>5. \A h : To(0, t, h) BY ONLY <2>4
  <2> QED BY <1>3, <2>3, <2>4, <2>5
<1>5. ASSUME NEW d \in Nat, d \in K PROVE d + 1 \in K
  <2>0. (d + 1 <= n => f[d + 1] \in Seq(T) /\ \E h : To(d + 1, f[d + 1], h)) => d + 1 \in K
    <3> HIDE DEF To
    <3> QED BY <1>3
  <2> SUFFICES ASSUME d + 1 <= n PROVE f[d + 1] \in Seq(T) /\ \E h : To(d + 1, f[d + 1], h)
    <3> HIDE DEF To
    <3> QED BY <2>0
  <2>1. d <= n OBVIOUS
  <2>2. PICK h : f[d] \in Seq(T) /\ To(d, f[d], h) BY <1>3, <1>5, <2>1
  <2>3. PICK t \in Seq(T) : t = f[d] BY <2>2
  <2>4. d + 1 \in 0 .. n /\ d + 1 # 0 /\ (d + 1) - 1 = d BY <2>1
  <2>5. f[d + 1] = AmongAt(s, A, f, d + 1) BY <1>2, <2>4 DEF AmongTo
  <2>6. f[d + 1] = IF s[d + 1] \in A THEN Append(t, s[d + 1]) ELSE t
    BY <2>3, <2>4, <2>5 DEF AmongAt
  <2>7. To(d, t, h) BY <2>2, <2>3
  <2>8. CASE s[d + 1] \notin A
    <3>1. To(d + 1, t, h)
      <4>1. \A k \in 1 .. d + 1 : k \in 1 .. d \/ k = d + 1 BY d \in Nat
      <4>2. \A k \in 1 .. d : k \in 1 .. d + 1 BY d \in Nat
      <4> QED BY <2>7, <2>8, <4>1, <4>2
    <3> QED BY <2>3, <2>6, <2>8, <3>1
  <2>9. CASE s[d + 1] \in A
    <3>1. PICK e \in T : e = s[d + 1]
      <4>1. d + 1 \in 1 .. Len(s) BY <1>1, <2>4
      <4> QED BY ONLY <4>1, s \in Seq(T)
    <3>2. PICK u \in Seq(T), l \in Nat : u = Append(t, e) /\ l = Len(t) BY AppendFacts
    <3>3. Len(u) = l + 1 /\ u[l + 1] = e /\ \A i \in 1 .. l : u[i] = t[i]
      BY ONLY <3>2, t \in Seq(T), e \in T, AppendFacts
    <3>4. PICK g : g = [i \in 1 .. l + 1 |-> IF i = l + 1 THEN d + 1 ELSE h[i]] OBVIOUS
    <3>5. g[l + 1] = d + 1 /\ \A i \in 1 .. l : g[i] = h[i] BY ONLY <3>4, l \in Nat
    <3>6. \A i \in 1 .. l + 1 : i \in 1 .. l \/ i = l + 1 BY ONLY l \in Nat
    <3>7. \A i \in 1 .. l : h[i] \in 1 .. d /\ t[i] = s[h[i]] /\ t[i] \in A BY <2>7, <3>2
    <3>8. \A i \in 1 .. l + 1 : g[i] \in 1 .. d + 1 /\ u[i] = s[g[i]] /\ u[i] \in A
      <4>1. \A i \in 1 .. l : g[i] \in 1 .. d + 1 /\ u[i] = s[g[i]] /\ u[i] \in A
        BY ONLY <3>3, <3>5, <3>7, d \in Nat
      <4>2. g[l + 1] \in 1 .. d + 1 /\ u[l + 1] = s[g[l + 1]] /\ u[l + 1] \in A
        BY ONLY <2>9, <3>1, <3>3, <3>5, d \in Nat
      <4> QED BY ONLY <3>6, <4>1, <4>2
    <3>9. \A i, j \in 1 .. l + 1 : i < j => g[i] < g[j]
      <4> TAKE i, j \in 1 .. l + 1
      <4> HAVE i < j
      <4>1. i \in 1 .. l BY ONLY i \in 1 .. l + 1, j \in 1 .. l + 1, i < j, l \in Nat
      <4>2. g[i] = h[i] /\ h[i] \in 1 .. d BY <3>5, <3>7, <4>1
      <4>3. CASE j = l + 1 BY ONLY <3>5, <4>2, <4>3, d \in Nat
      <4>4. CASE j \in 1 .. l
        <5>1. h[i] < h[j] BY <2>7, <3>2, <4>1, <4>4
        <5> QED BY ONLY <3>5, <4>2, <4>4, <5>1
      <4> QED BY ONLY <3>6, <4>3, <4>4, j \in 1 .. l + 1
    <3>10. ASSUME NEW k \in 1 .. d + 1, s[k] \in A PROVE \E i \in 1 .. l + 1 : g[i] = k
      <4>1. CASE k = d + 1
        <5>1. l + 1 \in 1 .. l + 1 BY ONLY l \in Nat
        <5> QED BY ONLY <3>5, <4>1, <5>1
      <4>2. CASE k # d + 1
        <5>1. k \in 1 .. d BY ONLY <4>2, d \in Nat, k \in 1 .. d + 1
        <5>2. PICK i \in 1 .. l : h[i] = k BY <2>7, <3>2, <3>10, <5>1
        <5>3. i \in 1 .. l + 1 BY ONLY i \in 1 .. l, l \in Nat
        <5> QED BY ONLY <3>5, <5>2, <5>3, i \in 1 .. l
      <4> QED BY ONLY <4>1, <4>2
    <3>11. To(d + 1, u, g) BY ONLY <3>3, <3>8, <3>9, <3>10
    <3>12. u = f[d + 1] BY ONLY <2>6, <2>9, <3>1, <3>2
    <3> QED BY ONLY <3>11, <3>12, u \in Seq(T), ZenonT(40)
  <2> QED BY <2>8, <2>9
<1>6. n \in K
  <2>1. \A d \in Nat : d \in K => d + 1 \in K BY <1>5
  <2>2. \A d \in Nat : d \in K BY ONLY <1>4, <2>1, Counting
  <2> QED BY <2>2
<1>7. PICK h : f[n] \in Seq(T) /\ To(n, f[n], h) BY <1>3, <1>6
<1>8. PICK t : t = f[n] OBVIOUS
<1>9. t \in Seq(T) /\ To(n, t, h) BY <1>7, <1>8
<1>10. Picks(s, A, t, h) BY <1>1, <1>9 DEF Picks
<1> QED BY <1>2, <1>8, <1>9, <1>10

LEMMA AmongAll ==
  ASSUME NEW T, NEW s \in Seq(T), NEW A, \A k \in 1 .. Len(s) : s[k] \in A
  PROVE  Among(s, A) = s
<1>1. PICK n \in Nat : n = Len(s) BY Len(s) \in Nat
<1>2. PICK t \in Seq(T) : t = Among(s, A) BY AmongPicks
<1>3. PICK h : Picks(s, A, t, h) BY <1>2, AmongPicks
<1>4. PICK m \in Nat : m = Len(t) BY Len(t) \in Nat
<1>5. PICK K : K = {i \in Nat : i \in 1 .. m /\ i <= n => h[i] = i} OBVIOUS
<1>6. \A i \in 1 .. m : h[i] \in 1 .. n /\ t[i] = s[h[i]] BY <1>1, <1>3, <1>4 DEF Picks
<1>7. \A i, j \in 1 .. m : i < j => h[i] < h[j] BY <1>3, <1>4 DEF Picks
<1>8. \A k \in 1 .. n : \E i \in 1 .. m : h[i] = k BY <1>1, <1>3, <1>4 DEF Picks
<1>9. 0 \in K BY <1>5
<1>10. ASSUME NEW i \in Nat, i \in K PROVE i + 1 \in K
  <2> SUFFICES ASSUME i + 1 \in 1 .. m, i + 1 <= n PROVE h[i + 1] = i + 1 BY <1>5
  <2>1. i = 0 \/ (i \in 1 .. m /\ h[i] = i) BY <1>5, <1>10
  <2>2. h[i + 1] >= i + 1
    <3>1. CASE i = 0 BY <1>6, <3>1
    <3>2. CASE i \in 1 .. m /\ h[i] = i
      <4>1. h[i] < h[i + 1] BY <1>7, <3>2
      <4> QED BY <1>6, <3>2, <4>1
    <3> QED BY <2>1, <3>1, <3>2
  <2>3. PICK j \in 1 .. m : h[j] = i + 1 BY <1>8
  <2>4. ~ (j < i + 1)
    <3> SUFFICES ASSUME j < i + 1 PROVE FALSE OBVIOUS
    <3>1. i # 0 /\ i \in 1 .. m /\ h[i] = i BY <2>1
    <3>2. j = i \/ j < i OBVIOUS
    <3>3. h[j] <= i BY <1>6, <1>7, <3>1, <3>2
    <3> QED BY <2>3, <3>3
  <2>5. j = i + 1 \/ i + 1 < j BY <2>4
  <2>6. i + 1 < j => h[i + 1] < i + 1 BY <1>7, <2>3
  <2>7. h[i + 1] \in Nat BY <1>6
  <2> QED BY <2>2, <2>3, <2>5, <2>6, <2>7
<1>11. \A i \in Nat : i \in K
  <2>1. \A i \in Nat : i \in K => i + 1 \in K BY <1>10
  <2> QED BY ONLY <1>9, <2>1, Counting
<1>12. m <= n
  <2> SUFFICES ASSUME m > n PROVE FALSE OBVIOUS
  <2>1. CASE n = 0 BY <1>6, <2>1
  <2>2. CASE n # 0
    <3>1. n \in 1 .. m /\ n + 1 \in 1 .. m /\ n < n + 1 BY <2>2
    <3>2. h[n] = n BY <1>5, <1>11, <3>1
    <3>3. h[n] < h[n + 1] BY <1>7, <3>1
    <3>4. h[n + 1] \in 1 .. n BY <1>6, <3>1
    <3> QED BY <3>2, <3>3, <3>4
  <2> QED BY <2>1, <2>2
<1>13. \A i \in 1 .. m : h[i] = i BY <1>5, <1>11, <1>12
<1>14. n <= m
  <2> SUFFICES ASSUME n > m PROVE FALSE OBVIOUS
  <2>1. PICK i \in 1 .. m : h[i] = n BY <1>8
  <2> QED BY <1>13, <2>1
<1>15. \A i \in 1 .. n : t[i] = s[i] BY <1>6, <1>12, <1>13, <1>14
<1>16. t = s BY <1>1, <1>4, <1>12, <1>14, <1>15
<1> QED BY <1>2, <1>16

-----------------------------------------------------------------------------
(***************************************************************************)
(* Scopes.                                                                 *)
(***************************************************************************)

\* The types of a scope's fields, one by one.
LEMMA ScopeFields ==
  ASSUME NEW sc, IsTree(sc), NEW s \in 1 .. Len(sc)
  PROVE  /\ Len(sc) \in Nat
         /\ sc[s] \in ScopeType
         /\ sc[s].kind \in Kind /\ sc[s].name \in Name
         /\ sc[s].parent \in 0 .. Len(sc)
         /\ sc[s].children \in Seq(Nat) /\ sc[s].children \in Seq(1 .. Len(sc))
         /\ Len(sc[s].children) \in Nat
         /\ \A k \in 1 .. Len(sc[s].children) : sc[s].children[k] \in 1 .. Len(sc)
         /\ sc[s].external \in BOOLEAN /\ sc[s].cursor \in Nat
         /\ sc[s].decl \in [Symbol -> Nat]
<1>1. sc \in Seq(ScopeType) BY DEF IsTree
<1>2. Len(sc) \in Nat /\ sc[s] \in ScopeType BY <1>1
<1>3. /\ sc[s].kind \in Kind /\ sc[s].name \in Name
      /\ sc[s].children \in Seq(Nat)
      /\ sc[s].external \in BOOLEAN /\ sc[s].cursor \in Nat
      /\ sc[s].decl \in [Symbol -> Nat]
  BY <1>2 DEF ScopeType
<1>4. Len(sc[s].children) \in Nat BY <1>3
<1>5. /\ sc[s].parent \in 0 .. Len(sc)
      /\ \A k \in 1 .. Len(sc[s].children) : sc[s].children[k] \in 1 .. Len(sc)
  BY DEF IsTree
<1>6. sc[s].children \in Seq(1 .. Len(sc))
  <2>1. PICK t, P : t \in Seq(Nat) /\ t = sc[s].children /\ P = 1 .. Len(sc) BY <1>3
  <2>2. \A k \in 1 .. Len(t) : t[k] \in P BY <1>5, <2>1
  <2>3. t \in Seq(P) BY ONLY <2>1, <2>2
  <2> QED BY <2>1, <2>3
<1> QED BY <1>2, <1>3, <1>4, <1>5, <1>6

\* The fields of a scope.
IsScope(q, kind, name, parent, children, external, cursor, decl) ==
  /\ q \in ScopeType
  /\ q.kind = kind /\ q.name = name /\ q.parent = parent /\ q.children = children
  /\ q.external = external /\ q.cursor = cursor /\ q.decl = decl

\* A scope that differs from r in its children, its symbols or its cursor.
LEMMA ScopeWith ==
  ASSUME NEW r \in ScopeType
  PROVE  /\ \A c \in Seq(Nat) : IsScope([r EXCEPT !.children = c], r.kind, r.name, r.parent, c,
                                        r.external, r.cursor, r.decl)
         /\ \A d \in [Symbol -> Nat] :
              IsScope([r EXCEPT !.decl = d], r.kind, r.name, r.parent, r.children, r.external,
                      r.cursor, d)
         /\ \A n \in Nat : IsScope([r EXCEPT !.cursor = n], r.kind, r.name, r.parent, r.children,
                                   r.external, n, r.decl)
         /\ IsScope([r EXCEPT !.external = TRUE], r.kind, r.name, r.parent, r.children, TRUE,
                    r.cursor, r.decl)
<1>1. \A c \in Seq(Nat) : IsScope([r EXCEPT !.children = c], r.kind, r.name, r.parent, c,
                                        r.external, r.cursor, r.decl)
  BY DEF ScopeType, IsScope
<1>2. \A d \in [Symbol -> Nat] :
              IsScope([r EXCEPT !.decl = d], r.kind, r.name, r.parent, r.children, r.external,
                      r.cursor, d)
  BY DEF ScopeType, IsScope
<1>3. \A n \in Nat : IsScope([r EXCEPT !.cursor = n], r.kind, r.name, r.parent, r.children,
                                   r.external, n, r.decl)
  BY DEF ScopeType, IsScope
<1>4. IsScope([r EXCEPT !.external = TRUE], r.kind, r.name, r.parent, r.children, TRUE,
                    r.cursor, r.decl)
  BY DEF ScopeType, IsScope
<1> QED BY <1>1, <1>2, <1>3, <1>4

LEMMA NewScopeIs ==
  ASSUME NEW kind \in Kind, NEW name \in Name, NEW p \in Nat
  PROVE  IsScope(NewScope(kind, name, p), kind, name, p, << >>, FALSE, 0, NoSymbols)
BY DEF NewScope, ScopeType, IsScope, NoSymbols, NoDecl

\* Trees are made of scopes whose pointers are in range.
Points(n, r) ==
  /\ r \in ScopeType /\ r.parent \in 0 .. n
  /\ \A k \in 1 .. Len(r.children) : r.children[k] \in 1 .. n

LEMMA TreeIs ==
  ASSUME NEW sc, NEW N \in Nat,
         sc = [t \in 1 .. N |-> sc[t]], \A t \in 1 .. N : Points(N, sc[t])
  PROVE  IsTree(sc) /\ Len(sc) = N
<1>1. \A t \in 1 .. N : sc[t] \in ScopeType BY DEF Points
<1>2. sc \in Seq(ScopeType) /\ Len(sc) = N BY <1>1
<1> QED BY <1>2 DEF IsTree, Points

\* A tree with one scope replaced.
LEMMA PutScope ==
  ASSUME NEW sc, IsTree(sc), NEW s \in 1 .. Len(sc), NEW r, NEW N \in Nat, N >= Len(sc),
         Points(N, r)
  PROVE  /\ [sc EXCEPT ![s] = r] \in Seq(ScopeType) /\ Len([sc EXCEPT ![s] = r]) = Len(sc)
         /\ \A t \in 1 .. Len(sc) :
              /\ [sc EXCEPT ![s] = r][t] = IF t = s THEN r ELSE sc[t]
              /\ Points(N, [sc EXCEPT ![s] = r][t])
<1>0. PICK n \in Nat : n = Len(sc) BY DEF IsTree
<1>1. PICK sc2 : n = Len(sc) /\ sc2 = [sc EXCEPT ![s] = r] BY <1>0
<1>2. sc \in Seq(ScopeType) /\ r \in ScopeType BY DEF IsTree, Points
<1>3. sc2 \in Seq(ScopeType) /\ Len(sc2) = n /\ \A t \in 1 .. n : sc2[t] = IF t = s THEN r ELSE sc[t]
  BY <1>1, <1>2
<1>4. \A t \in 1 .. n : Points(N, sc[t])
  <2> TAKE t \in 1 .. n
  <2>1. /\ sc[t] \in ScopeType /\ sc[t].parent \in 0 .. n
        /\ \A k \in 1 .. Len(sc[t].children) : sc[t].children[k] \in 1 .. n
    BY <1>1, ScopeFields
  <2>2. \A x \in 0 .. n : x \in 0 .. N BY <1>1
  <2>3. \A x \in 1 .. n : x \in 1 .. N BY <1>1
  <2> QED BY <2>1, <2>2, <2>3 DEF Points
<1>5. \A t \in 1 .. n : Points(N, sc2[t]) BY <1>3, <1>4
<1> QED BY <1>1, <1>3, <1>5

\* Scope::createChild
ChildMade(sc, s, kind, name, sc2) ==
  /\ IsTree(sc2) /\ Len(sc2) = Len(sc) + 1
  /\ IsScope(sc2[Len(sc) + 1], kind, name, s, << >>, FALSE, 0, NoSymbols)
  /\ IsScope(sc2[s], sc[s].kind, sc[s].name, sc[s].parent, Append(sc[s].children, Len(sc) + 1),
             sc[s].external, sc[s].cursor, sc[s].decl)
  /\ \A t \in 1 .. Len(sc) : t # s => sc2[t] = sc[t]

LEMMA CreateChildIs ==
  ASSUME NEW sc, IsTree(sc), NEW s \in 1 .. Len(sc), NEW kind \in Kind, NEW name \in Name,
         NEW sc2, sc2 = CreateChild(sc, s, kind, name)
  PROVE  ChildMade(sc, s, kind, name, sc2)
<1>1. PICK n \in Nat : n = Len(sc) BY DEF IsTree
<1>2. PICK c : c = sc[s].children OBVIOUS
<1>3. c \in Seq(Nat) /\ (\A k \in 1 .. Len(c) : c[k] \in 1 .. n) /\ sc[s] \in ScopeType
      /\ sc[s].parent \in 0 .. n
  BY <1>1, <1>2, ScopeFields
<1>4. PICK d : d = Append(c, n + 1) OBVIOUS
<1>5. /\ d \in Seq(Nat) /\ Len(d) = Len(c) + 1 /\ d[Len(c) + 1] = n + 1 /\ Len(c) \in Nat
      /\ \A k \in 1 .. Len(c) : d[k] = c[k]
  BY ONLY <1>3, <1>4, n \in Nat, n + 1 \in Nat, AppendFacts
<1>6. PICK r : r = [sc[s] EXCEPT !.children = d] OBVIOUS
<1>7. IsScope(r, sc[s].kind, sc[s].name, sc[s].parent, d, sc[s].external, sc[s].cursor,
              sc[s].decl)
  BY ONLY <1>3, <1>5, <1>6, ScopeWith
<1>8. Points(n + 1, r)
  <2>1. r \in ScopeType /\ r.parent = sc[s].parent /\ r.children = d BY <1>7 DEF IsScope
  <2>2. r.parent \in 0 .. n + 1 BY ONLY <1>3, <2>1, n \in Nat
  <2>3. \A k \in 1 .. Len(d) : d[k] \in 1 .. n + 1
    <3> TAKE k \in 1 .. Len(d)
    <3>1. k \in 1 .. Len(c) \/ k = Len(c) + 1 BY ONLY <1>5, k \in 1 .. Len(d)
    <3>2. CASE k \in 1 .. Len(c)
      <4>1. d[k] = c[k] /\ c[k] \in 1 .. n BY ONLY <1>3, <1>5, <3>2
      <4> QED BY ONLY <4>1, n \in Nat
    <3>3. CASE k = Len(c) + 1 BY ONLY <1>5, <3>3, n \in Nat
    <3> QED BY ONLY <3>1, <3>2, <3>3
  <2> QED BY ONLY <2>1, <2>2, <2>3 DEF Points
<1>9. PICK mid : mid = [sc EXCEPT ![s] = r] OBVIOUS
<1>10. n + 1 \in Nat /\ n + 1 >= Len(sc) BY <1>1
<1>11. /\ mid \in Seq(ScopeType) /\ Len(mid) = n
       /\ \A t \in 1 .. n : mid[t] = (IF t = s THEN r ELSE sc[t]) /\ Points(n + 1, mid[t])
  <2>1. /\ mid \in Seq(ScopeType) /\ Len(mid) = Len(sc)
        /\ \A t \in 1 .. Len(sc) : mid[t] = (IF t = s THEN r ELSE sc[t]) /\ Points(n + 1, mid[t])
    BY ONLY <1>8, <1>9, <1>10, IsTree(sc), s \in 1 .. Len(sc), PutScope
  <2> QED BY ONLY <1>1, <2>1
<1>12. PICK new : new = NewScope(kind, name, s) OBVIOUS
<1>13. IsScope(new, kind, name, s, << >>, FALSE, 0, NoSymbols)
  <2>1. s \in Nat BY <1>1
  <2> QED BY ONLY <1>12, <2>1, kind \in Kind, name \in Name, NewScopeIs
<1>14. Points(n + 1, new)
  <2>1. new \in ScopeType /\ new.parent = s /\ new.children = << >> BY <1>13 DEF IsScope
  <2>2. s \in 0 .. n + 1 BY ONLY <1>1, s \in 1 .. Len(sc), n \in Nat
  <2> QED BY ONLY <2>1, <2>2 DEF Points
<1>15. sc2 = Append(mid, new)
  BY <1>1, <1>2, <1>4, <1>6, <1>9, <1>12 DEF CreateChild
<1>16. /\ sc2 \in Seq(ScopeType) /\ Len(sc2) = n + 1 /\ sc2[n + 1] = new
       /\ \A t \in 1 .. n : sc2[t] = mid[t]
  <2>1. new \in ScopeType BY <1>14 DEF Points
  <2> QED BY ONLY <1>11, <1>15, <2>1, AppendFacts
<1>17. \A t \in 1 .. n + 1 : Points(n + 1, sc2[t])
  <2> TAKE t \in 1 .. n + 1
  <2>1. t \in 1 .. n \/ t = n + 1 BY ONLY t \in 1 .. n + 1, n \in Nat
  <2> QED BY ONLY <1>11, <1>14, <1>16, <2>1
<1>18. IsTree(sc2) BY ONLY <1>16, <1>17 DEF IsTree, Points
<1>19. sc2[s] = r /\ \A t \in 1 .. n : t # s => sc2[t] = sc[t] BY <1>1, <1>11, <1>16
<1> QED BY <1>1, <1>2, <1>4, <1>7, <1>13, <1>16, <1>18, <1>19 DEF ChildMade

\* Scope::addSymbol
DeclAdded(sc, s, n, d, sc2) ==
  /\ IsTree(sc2) /\ Len(sc2) = Len(sc)
  /\ IsScope(sc2[s], sc[s].kind, sc[s].name, sc[s].parent, sc[s].children, sc[s].external,
             sc[s].cursor, [sc[s].decl EXCEPT ![n] = d])
  /\ \A t \in 1 .. Len(sc) : t # s => sc2[t] = sc[t]

LEMMA AddDeclIs ==
  ASSUME NEW sc, IsTree(sc), NEW s \in 1 .. Len(sc), NEW n, NEW d \in Nat,
         NEW sc2, sc2 = AddDecl(sc, s, n, d)
  PROVE  DeclAdded(sc, s, n, d, sc2)
<1>1. sc[s] \in ScopeType /\ sc[s].decl \in [Symbol -> Nat] BY ScopeFields
<1>2. PICK e : e = [sc[s].decl EXCEPT ![n] = d] OBVIOUS
<1>3. e \in [Symbol -> Nat] BY <1>1, <1>2
<1>4. PICK r : r = [sc[s] EXCEPT !.decl = e] OBVIOUS
<1>5. IsScope(r, sc[s].kind, sc[s].name, sc[s].parent, sc[s].children, sc[s].external,
              sc[s].cursor, e)
  BY ONLY <1>1, <1>3, <1>4, ScopeWith
<1>6. Points(Len(sc), r)
  <2>1. r \in ScopeType /\ r.parent = sc[s].parent /\ r.children = sc[s].children
    BY <1>5 DEF IsScope
  <2>2. /\ sc[s].parent \in 0 .. Len(sc)
        /\ \A k \in 1 .. Len(sc[s].children) : sc[s].children[k] \in 1 .. Len(sc)
    BY ScopeFields
  <2> QED BY ONLY <2>1, <2>2 DEF Points
<1>7. sc2 = [sc EXCEPT ![s] = r] BY <1>2, <1>4 DEF AddDecl
<1>8. Len(sc) \in Nat /\ Len(sc) >= Len(sc) BY ScopeFields
<1>9. /\ sc2 \in Seq(ScopeType) /\ Len(sc2) = Len(sc)
      /\ \A t \in 1 .. Len(sc) : sc2[t] = (IF t = s THEN r ELSE sc[t]) /\ Points(Len(sc), sc2[t])
  BY ONLY <1>6, <1>7, <1>8, IsTree(sc), s \in 1 .. Len(sc), PutScope
<1>10. IsTree(sc2) BY ONLY <1>9 DEF IsTree, Points
<1> QED BY <1>2, <1>5, <1>9, <1>10 DEF DeclAdded

\* Scope::nextScope
LEMMA AdvanceIs ==
  ASSUME NEW sc, IsTree(sc), NEW s \in 1 .. Len(sc), NEW sc2, sc2 = Advance(sc, s)
  PROVE  /\ IsTree(sc2) /\ Len(sc2) = Len(sc)
         /\ NextScope(sc, s) \in 0 .. Len(sc)
         /\ IsScope(sc2[s], sc[s].kind, sc[s].name, sc[s].parent, sc[s].children,
                    sc[s].external, PassedTo(sc, s), sc[s].decl)
         /\ \A t \in 1 .. Len(sc) : t # s => sc2[t] = sc[t]
<1>1. /\ Len(sc) \in Nat /\ Len(sc[s].children) \in Nat /\ sc[s].cursor \in Nat
      /\ sc[s].parent \in 0 .. Len(sc) /\ sc[s] \in ScopeType
      /\ \A k \in 1 .. Len(sc[s].children) : sc[s].children[k] \in 1 .. Len(sc)
  BY ScopeFields
<1>2. PICK W : W = Waiting(sc, s) OBVIOUS
<1>3. W \in SUBSET Nat /\ \A k \in W : k \in 1 .. Len(sc[s].children)
  BY <1>1, <1>2 DEF Waiting
<1>4. W # {} => Least(W) \in 1 .. Len(sc[s].children) BY <1>3, LeastIsLeast
<1>5. NextScope(sc, s) \in 0 .. Len(sc) BY <1>1, <1>2, <1>4 DEF NextScope, None
<1>6. PassedTo(sc, s) \in Nat BY <1>1, <1>2, <1>4 DEF PassedTo
<1>7. PICK r, u : r = [sc[s] EXCEPT !.cursor = u] /\ u = PassedTo(sc, s) OBVIOUS
<1>8. IsScope(r, sc[s].kind, sc[s].name, sc[s].parent, sc[s].children, sc[s].external,
              u, sc[s].decl)
  BY ONLY <1>1, <1>6, <1>7, ScopeWith
<1>9. Points(Len(sc), r)
  <2>1. r \in ScopeType /\ r.parent = sc[s].parent /\ r.children = sc[s].children
    BY <1>8 DEF IsScope
  <2> QED BY ONLY <1>1, <2>1 DEF Points
<1>10. sc2 = [sc EXCEPT ![s] = r] BY <1>7 DEF Advance
<1>11. Len(sc) \in Nat /\ Len(sc) >= Len(sc) BY ScopeFields
<1>12. /\ sc2 \in Seq(ScopeType) /\ Len(sc2) = Len(sc)
      /\ \A t \in 1 .. Len(sc) : sc2[t] = (IF t = s THEN r ELSE sc[t]) /\ Points(Len(sc), sc2[t])
  BY ONLY <1>9, <1>10, <1>11, IsTree(sc), s \in 1 .. Len(sc), PutScope
<1>13. IsTree(sc2) BY ONLY <1>12 DEF IsTree, Points
<1> QED BY <1>5, <1>7, <1>8, <1>12, <1>13

\* The next scope is the child at k when k is ahead of the cursor, is not stepped
\* over, and everything between is.
LEMMA NextScopeIs ==
  ASSUME NEW sc, IsTree(sc), NEW s \in 1 .. Len(sc),
         NEW k \in 1 .. Len(sc[s].children), sc[s].cursor < k,
         ~Skippable(sc, sc[s].children[k]),
         \A i \in sc[s].cursor + 1 .. k - 1 : Skippable(sc, sc[s].children[i])
  PROVE  NextScope(sc, s) = sc[s].children[k] /\ PassedTo(sc, s) = k
<1>0. PICK W : W = Waiting(sc, s) OBVIOUS
<1>1. Len(sc[s].children) \in Nat /\ sc[s].cursor \in Nat BY ScopeFields
<1>2. W \in SUBSET Nat /\ k \in W BY <1>0, <1>1 DEF Waiting
<1>3. \A i \in W : i >= k
  <2> SUFFICES ASSUME NEW i \in W, i < k PROVE FALSE BY <1>1, <1>2
  <2>1. i \in sc[s].cursor + 1 .. k - 1 /\ ~Skippable(sc, sc[s].children[i])
    BY <1>0, <1>1 DEF Waiting
  <2> QED BY <2>1
<1>4. Least(W) = k
  <2>1. Least(W) \in W /\ Least(W) <= k BY <1>2, LeastIsLeast
  <2>2. Least(W) \in Nat /\ Least(W) >= k BY <1>2, <1>3, <2>1
  <2> QED BY <2>1, <2>2
<1>5. ~Exhausted(sc, s) /\ W # {} BY <1>1, <1>2 DEF Exhausted
<1> QED BY <1>0, <1>4, <1>5 DEF NextScope, PassedTo

-----------------------------------------------------------------------------
(***************************************************************************)
(* The invariant.  The scopes of the classes are the row of the module's   *)
(* children; the scopes of member functions, copies included, are theirs.  *)
(***************************************************************************)

Row == scopes[Module].children
Kids(s) == scopes[s].children

Rows ==
  /\ Len(scopes) >= Module /\ scopes[Module].kind = "module"
  /\ Len(Row) = Len(classes) + (IF InClass THEN 1 ELSE 0) /\ Len(Row) <= Len(ClassName)
  /\ \A k \in 1 .. Len(Row) :
       LET s == Row[k]
       IN  /\ s > Module /\ scopes[s].kind = "class" /\ ~scopes[s].external
           /\ scopes[s].name = ClassName[k] /\ scopes[s].parent = Module
  /\ InClass => current = Row[Len(Row)] /\ phase = "parse"

\* The classes that were read; a base is one that was read before.
ClassesRead ==
  \A k \in 1 .. Len(classes) :
    LET c == decls[classes[k]]
    IN  /\ c.kind = "class" /\ c.name = ClassName[k]
        /\ c.class # NoDecl => \E j \in 1 .. k - 1 : classes[j] = c.class

\* Every member is one that was read, or a copy of one that was read before.
MethodsNamed ==
  \A d \in 1 .. Len(decls) :
    decls[d].origin <= d /\ (decls[d].kind = "method" => decls[d].real \in Method)

\* Member functions have scopes in one class each.
KidsAreMethods ==
  \A k \in 1 .. Len(Row) : \A i \in 1 .. Len(Kids(Row[k])) :
    scopes[Kids(Row[k])[i]].kind = "method"

KidsApart ==
  \A j, k \in 1 .. Len(Row) :
    \A i \in 1 .. Len(Kids(Row[j])), l \in 1 .. Len(Kids(Row[k])) :
      Kids(Row[j])[i] = Kids(Row[k])[l] => j = k /\ i = l

\* The scope of member function d in the class with scope s, and that of its if.
BodyIn(d, s) ==
  LET h == decls[d].home
  IN  /\ h \in 1 .. Len(scopes)
      /\ ~scopes[h].external /\ scopes[h].parent = s /\ scopes[h].name = decls[d].name
      /\ decls[d].nested =>
           /\ Len(Kids(h)) = 1
           /\ LET l == Kids(h)[1]
              IN  scopes[l].kind = "loop" /\ ~scopes[l].external /\ scopes[l].parent = h

\* The scopes of the member functions ms are among the children of s in their order, at
\* the places g, and all other children are external.
Lined(ms, s, g) ==
  /\ \A i \in 1 .. Len(ms) : Kids(s)[g[i]] = decls[ms[i]].home /\ BodyIn(ms[i], s)
  /\ \A i, j \in 1 .. Len(ms) : i < j => g[i] < g[j]
  /\ \A k \in 1 .. Len(Kids(s)) :
       (\A i \in 1 .. Len(ms) : g[i] # k) => scopes[Kids(s)[k]].external

Places(ms, s) == [1 .. Len(ms) -> 1 .. Len(Kids(s))]

StraightTo(k) == \A j \in 1 .. k : ~Tangled(classes[j])

ClassesLined ==
  \A k \in 1 .. Len(classes) :
    StraightTo(k) =>
      \E g \in Places(decls[classes[k]].methods, Row[k]) :
        Lined(decls[classes[k]].methods, Row[k], g)

Body == {"method", "constructor"}

\* The class at hand: its own member functions behind those that were copied.
PartsRead ==
  InClass =>
    /\ base # NoDecl => \E j \in 1 .. Len(classes) : classes[j] = base
    /\ \A k \in 1 .. Len(parts) :
         /\ decls[parts[k]].kind \in Body \cup {"field"}
         /\ decls[parts[k]].origin = parts[k]

OwnLined ==
  InClass =>
    \E g \in Places(Own(Body), current) :
      /\ Lined(Own(Body), current, g)
      /\ \A k \in 1 .. Len(Kids(current)), i \in 1 .. Len(Own(Body)) :
           scopes[Kids(current)[k]].external => k < g[i]

BaseCopied ==
  InClass =>
    \A j \in 1 .. Len(classes) : classes[j] = base =>
      \A i \in 1 .. Len(Kids(Row[j])) :
        \E k \in 1 .. Len(Kids(current)) :
          /\ scopes[Kids(current)[k]].external
          /\ scopes[Kids(current)[k]].name = scopes[Kids(Row[j])[i]].name

\* The generator has not begun.
Still ==
  phase = "parse" =>
    cls = 0 /\ cg = Module /\ visited = {} /\ \A s \in 1 .. Len(scopes) : scopes[s].cursor = 0

\* The generator, as long as no class was tangled.
Ahead ==
  \A k \in cls + 1 .. Len(Row) :
    /\ scopes[Row[k]].cursor = 0
    /\ \A i \in 1 .. Len(Kids(Row[k])) : scopes[Kids(Row[k])[i]].cursor = 0

InStep ==
  StraightTo(cls) =>
    /\ phase # "failed" /\ cg = Module /\ scopes[Module].cursor = cls
    /\ Ahead
    /\ \A v \in visited : v[2] = decls[v[1]].home

CInv ==
  /\ TypeOK /\ Rows /\ ClassesRead /\ MethodsNamed /\ KidsAreMethods /\ KidsApart
  /\ ClassesLined /\ PartsRead /\ OwnLined /\ BaseCopied /\ Still /\ InStep

-----------------------------------------------------------------------------
(***************************************************************************)
(* What the head of a class does to the scopes.                            *)
(***************************************************************************)

LEMMA ChildNamedIs ==
  ASSUME NEW sc, NEW s, Len(sc[s].children) \in Nat, NEW k \in 1 .. Len(sc[s].children),
         NEW name, name = sc[sc[s].children[k]].name,
         \A j \in 1 .. Len(sc[s].children) : sc[sc[s].children[j]].name = name => j = k
  PROVE  ChildNamed(sc, s, name) = sc[s].children[k]
<1>1. PICK S : S = {j \in 1 .. Len(sc[s].children) : sc[sc[s].children[j]].name = name}
  OBVIOUS
<1>2. S = {k} BY <1>1
<1>3. S \in SUBSET Nat /\ S # {} BY <1>2
<1>4. Least(S) \in S BY ONLY <1>3, LeastIsLeast
<1>5. Least(S) = k BY <1>2, <1>4
<1> QED BY <1>1, <1>5 DEF ChildNamed

\* A tree whose class dst got copies of the scopes in src.
Copied(sc, src, dst, sc2) ==
  /\ IsTree(sc2) /\ Len(sc2) = Len(sc) + Len(sc[src].children)
  /\ \E c \in Seq(Nat) :
       /\ IsScope(sc2[dst], sc[dst].kind, sc[dst].name, sc[dst].parent, c,
                  sc[dst].external, sc[dst].cursor, sc[src].decl)
       /\ Len(c) = Len(sc[src].children)
       /\ \A k \in 1 .. Len(c) : c[k] = Len(sc) + k
  /\ \A t \in 1 .. Len(sc) : t # dst => sc2[t] = sc[t]
  /\ \A k \in 1 .. Len(sc[src].children) :
       LET o == sc[sc[src].children[k]]
       IN  IsScope(sc2[Len(sc) + k], o.kind, o.name, o.parent, o.children, TRUE, o.cursor,
                   o.decl)

\* SymbolTable::copySymbolsAndChildren, into a class that has just been made.
LEMMA CopyClassIs ==
  ASSUME NEW sc, IsTree(sc), NEW src \in 1 .. Len(sc), NEW dst \in 1 .. Len(sc), src # dst,
         NEW from, NEW to, ChildNamed(sc, Module, from) = src, ChildNamed(sc, Module, to) = dst,
         \A k \in 1 .. Len(sc[src].children) : sc[sc[src].children[k]].kind = "method",
         sc[dst].children = << >>, sc[dst].decl = NoSymbols,
         NEW sc2, sc2 = CopyClass(sc, from, to)
  PROVE  Copied(sc, src, dst, sc2)
<1>1. PICK n \in Nat : n = Len(sc) BY DEF IsTree
<1>2. PICK ks : ks = sc[src].children OBVIOUS
<1>3. PICK m : m = Len(ks) OBVIOUS
<1>4. /\ ks \in Seq(1 .. n) /\ m \in Nat /\ \A k \in 1 .. m : ks[k] \in 1 .. n
  BY <1>1, <1>2, <1>3, ScopeFields
<1>5. Among(ks, MethodsIn(sc)) = ks
  <2>1. \A k \in 1 .. Len(ks) : ks[k] \in MethodsIn(sc) BY <1>1, <1>2, <1>3, <1>4 DEF MethodsIn
  <2> QED BY ONLY <1>4, <2>1, AmongAll
<1>6. PICK new : new = [k \in 1 .. m |-> n + k] OBVIOUS
<1>7. new \in Seq(Nat) /\ Len(new) = m /\ \A k \in 1 .. m : new[k] = n + k
  BY ONLY <1>4, <1>6, n \in Nat
<1>8. PICK d : d = sc[src].decl OBVIOUS
<1>9. d \in [Symbol -> Nat] BY <1>8, ScopeFields
<1>10. PICK r : r = [sc[dst] EXCEPT !.children = @ \o new,
                 !.decl = [x \in Symbol |-> IF d[x] # NoDecl THEN d[x] ELSE @[x]]] OBVIOUS
<1>11. sc[dst] \in ScopeType /\ sc[dst].parent \in 0 .. n BY <1>1, ScopeFields
<1>12. << >> \o new = new BY ONLY <1>7
<1>13. [x \in Symbol |-> IF d[x] # NoDecl THEN d[x] ELSE NoSymbols[x]] = d
  <2>1. \A x \in Symbol : (IF d[x] # NoDecl THEN d[x] ELSE NoSymbols[x]) = d[x] BY DEF NoSymbols
  <2> QED BY <1>9, <2>1
<1>14. r = [[sc[dst] EXCEPT !.children = new] EXCEPT !.decl = d]
  <2>1. r = [sc[dst] EXCEPT !.children = new, !.decl = d]
    BY ONLY <1>10, <1>11, <1>12, <1>13, sc[dst].children = << >>, sc[dst].decl = NoSymbols
    DEF ScopeType
  <2> QED BY ONLY <1>11, <2>1 DEF ScopeType
<1>15. IsScope(r, sc[dst].kind, sc[dst].name, sc[dst].parent, new, sc[dst].external,
               sc[dst].cursor, d)
  <2>1. PICK q : q = [sc[dst] EXCEPT !.children = new] OBVIOUS
  <2>2. IsScope(q, sc[dst].kind, sc[dst].name, sc[dst].parent, new, sc[dst].external,
                sc[dst].cursor, sc[dst].decl)
    BY ONLY <1>7, <1>11, <2>1, ScopeWith
  <2>3. q \in ScopeType BY <2>2 DEF IsScope
  <2>4. IsScope(r, q.kind, q.name, q.parent, q.children, q.external, q.cursor, d)
    BY ONLY <1>9, <1>14, <2>1, <2>3, ScopeWith
  <2> QED BY ONLY <2>2, <2>4 DEF IsScope
<1>16. n + m \in Nat /\ n + m >= Len(sc) BY <1>1, <1>4
<1>17. Points(n + m, r)
  <2>1. r \in ScopeType /\ r.parent = sc[dst].parent /\ r.children = new BY <1>15 DEF IsScope
  <2>2. r.parent \in 0 .. n + m BY ONLY <1>4, <1>11, <2>1, n \in Nat
  <2>3. \A k \in 1 .. m : n + k \in 1 .. n + m BY ONLY <1>4, n \in Nat
  <2>4. \A k \in 1 .. Len(new) : new[k] \in 1 .. n + m BY ONLY <1>7, <2>3
  <2> QED BY ONLY <2>1, <2>2, <2>4 DEF Points
<1>18. PICK mid : mid = [sc EXCEPT ![dst] = r] OBVIOUS
<1>19. /\ mid \in Seq(ScopeType) /\ Len(mid) = n
       /\ \A t \in 1 .. n : mid[t] = (IF t = dst THEN r ELSE sc[t]) /\ Points(n + m, mid[t])
  <2>1. /\ mid \in Seq(ScopeType) /\ Len(mid) = Len(sc)
        /\ \A t \in 1 .. Len(sc) :
             mid[t] = (IF t = dst THEN r ELSE sc[t]) /\ Points(n + m, mid[t])
    BY ONLY <1>16, <1>17, <1>18, IsTree(sc), dst \in 1 .. Len(sc), PutScope
  <2> QED BY ONLY <1>1, <2>1
<1>20. PICK ex : ex = [k \in 1 .. m |-> [sc[ks[k]] EXCEPT !.external = TRUE]] OBVIOUS
<1>21. ASSUME NEW k \in 1 .. m
       PROVE  /\ IsScope(ex[k], sc[ks[k]].kind, sc[ks[k]].name, sc[ks[k]].parent,
                         sc[ks[k]].children, TRUE, sc[ks[k]].cursor, sc[ks[k]].decl)
              /\ Points(n + m, ex[k]) /\ ex[k] \in ScopeType
  <2>1. PICK t : t = ks[k] /\ t \in 1 .. Len(sc) BY <1>1, <1>4
  <2>2. /\ sc[t] \in ScopeType /\ sc[t].parent \in 0 .. n
        /\ \A j \in 1 .. Len(sc[t].children) : sc[t].children[j] \in 1 .. n
    BY <1>1, <2>1, ScopeFields
  <2>3. ex[k] = [sc[t] EXCEPT !.external = TRUE] BY <1>20, <2>1
  <2>4. IsScope(ex[k], sc[t].kind, sc[t].name, sc[t].parent, sc[t].children, TRUE,
                sc[t].cursor, sc[t].decl)
    BY ONLY <2>2, <2>3, ScopeWith
  <2>5. /\ ex[k] \in ScopeType /\ ex[k].parent = sc[t].parent
        /\ ex[k].children = sc[t].children
    BY <2>4 DEF IsScope
  <2>6. (\A x \in 0 .. n : x \in 0 .. n + m) /\ \A x \in 1 .. n : x \in 1 .. n + m
    BY ONLY <1>4, n \in Nat
  <2>7. Points(n + m, ex[k]) BY ONLY <2>2, <2>5, <2>6 DEF Points
  <2> QED BY <2>1, <2>4, <2>5, <2>7
<1>22. ex \in Seq(ScopeType) /\ Len(ex) = m
  <2>1. \A k \in 1 .. m : [sc[ks[k]] EXCEPT !.external = TRUE] \in ScopeType BY <1>20, <1>21
  <2> QED BY ONLY <1>4, <1>20, <2>1, SMTT(40)
<1>23. sc2 = mid \o ex
  BY <1>1, <1>2, <1>3, <1>5, <1>6, <1>8, <1>10, <1>18, <1>20, Zenon DEF CopyClass
<1>24. /\ sc2 \in Seq(ScopeType) /\ Len(sc2) = n + m
       /\ \A t \in 1 .. n : sc2[t] = mid[t]
       /\ \A k \in 1 .. m : sc2[n + k] = ex[k]
  <2>1. mid \in Seq(ScopeType) /\ ex \in Seq(ScopeType) BY ONLY <1>19, <1>22
  <2>2. /\ mid \o ex \in Seq(ScopeType) /\ Len(mid \o ex) = Len(mid) + Len(ex)
        /\ \A i \in 1 .. Len(mid) : (mid \o ex)[i] = mid[i]
        /\ \A i \in 1 .. Len(ex) : (mid \o ex)[Len(mid) + i] = ex[i]
    BY ONLY <2>1, Joined
  <2> QED BY ONLY <1>19, <1>22, <1>23, <2>2
<1>25. \A t \in 1 .. n + m : Points(n + m, sc2[t])
  <2> TAKE t \in 1 .. n + m
  <2>1. CASE t \in 1 .. n BY ONLY <1>19, <1>24, <2>1
  <2>2. CASE t \notin 1 .. n
    <3>1. PICK k \in 1 .. m : t = n + k
      <4>1. t - n \in 1 .. m /\ t = n + (t - n) BY ONLY <1>4, <2>2, t \in 1 .. n + m, n \in Nat
      <4> QED BY ONLY <4>1
    <3> QED BY ONLY <1>21, <1>24, <3>1
  <2> QED BY ONLY <2>1, <2>2
<1>26. IsTree(sc2) BY ONLY <1>24, <1>25 DEF IsTree, Points
<1>27. sc2[dst] = r /\ \A t \in 1 .. n : t # dst => sc2[t] = sc[t] BY <1>1, <1>19, <1>24
<1>28. \A k \in 1 .. m : IsScope(sc2[n + k], sc[ks[k]].kind, sc[ks[k]].name, sc[ks[k]].parent,
                                 sc[ks[k]].children, TRUE, sc[ks[k]].cursor, sc[ks[k]].decl)
  BY ONLY <1>21, <1>24
<1>29. \E c \in Seq(Nat) :
              /\ IsScope(sc2[dst], sc[dst].kind, sc[dst].name, sc[dst].parent, c,
                         sc[dst].external, sc[dst].cursor, sc[src].decl)
              /\ Len(c) = Len(sc[src].children)
              /\ \A k \in 1 .. Len(c) : c[k] = Len(sc) + k
  <2>1. IsScope(sc2[dst], sc[dst].kind, sc[dst].name, sc[dst].parent, new,
                sc[dst].external, sc[dst].cursor, sc[src].decl)
    BY ONLY <1>8, <1>15, <1>27
  <2> QED BY ONLY <1>1, <1>2, <1>3, <1>7, <2>1
<1> QED BY <1>1, <1>2, <1>3, <1>24, <1>26, <1>27, <1>28, <1>29 DEF Copied

LEMMA ClassNames ==
  /\ Len(ClassName) \in Nat
  /\ \A k \in 1 .. Len(ClassName) :
       ClassName[k] \in VarName /\ ClassName[k] \in Symbol /\ ClassName[k] \in Name
  /\ \A j, k \in 1 .. Len(ClassName) : ClassName[j] = ClassName[k] => j = k
<1>1. ClassName \in Seq(VarName \ FieldName) BY ClassesAssumption, Zenon DEF ClassesAssumption
<1>2. \A j, k \in 1 .. Len(ClassName) : ClassName[j] = ClassName[k] => j = k
  BY ClassesAssumption, Zenon DEF ClassesAssumption
<1>3. PICK T : T = VarName \ FieldName OBVIOUS
<1>4. ClassName \in Seq(T) BY <1>1, <1>3
<1>5. Len(ClassName) \in Nat /\ \A k \in 1 .. Len(ClassName) : ClassName[k] \in T BY ONLY <1>4
<1> QED BY <1>2, <1>3, <1>5 DEF Symbol, Name

\* What the invariant says of the scopes.
LEMMA TreeFacts ==
  ASSUME CInv
  PROVE  /\ IsTree(scopes) /\ Len(scopes) \in Nat /\ Module \in 1 .. Len(scopes)
         /\ scopes[Module].kind = "module"
         /\ Len(Row) \in Nat /\ Row \in Seq(Nat)
         /\ Len(Row) = Len(classes) + (IF InClass THEN 1 ELSE 0) /\ Len(Row) <= Len(ClassName)
         /\ \A k \in 1 .. Len(Row) :
              /\ Row[k] \in 1 .. Len(scopes) /\ Row[k] # Module
              /\ scopes[Row[k]].kind = "class" /\ ~scopes[Row[k]].external
              /\ scopes[Row[k]].name = ClassName[k] /\ scopes[Row[k]].parent = Module
         /\ \A j, k \in 1 .. Len(Row) : Row[j] = Row[k] => j = k
         /\ \A s \in 1 .. Len(scopes) :
              /\ Kids(s) \in Seq(Nat) /\ Len(Kids(s)) \in Nat
              /\ \A i \in 1 .. Len(Kids(s)) : Kids(s)[i] \in 1 .. Len(scopes)
         /\ \A k \in 1 .. Len(Row) : \A i \in 1 .. Len(Kids(Row[k])) :
              scopes[Kids(Row[k])[i]].kind = "method"
<1>1. IsTree(scopes) BY DEF CInv, TypeOK
<1>2. PICK n : n = Len(scopes) OBVIOUS
<1>3. n >= 2 /\ scopes[Module].kind = "module" BY <1>2 DEF CInv, Rows, Module
<1>4. n \in Nat BY <1>1, <1>2 DEF IsTree
<1>5. Module \in 1 .. Len(scopes) BY <1>2, <1>3, <1>4 DEF Module
<1>6. \A s \in 1 .. Len(scopes) :
        /\ Kids(s) \in Seq(Nat) /\ Len(Kids(s)) \in Nat
        /\ \A i \in 1 .. Len(Kids(s)) : Kids(s)[i] \in 1 .. Len(scopes)
  BY <1>1, ScopeFields DEF Kids
<1>7. Row \in Seq(Nat) /\ Len(Row) \in Nat /\ \A i \in 1 .. Len(Row) : Row[i] \in 1 .. Len(scopes)
  BY <1>5, <1>6 DEF Kids, Row
<1>8. \A k \in 1 .. Len(Row) :
        /\ Row[k] > Module /\ scopes[Row[k]].kind = "class" /\ ~scopes[Row[k]].external
        /\ scopes[Row[k]].name = ClassName[k] /\ scopes[Row[k]].parent = Module
  BY DEF CInv, Rows
<1>9. \A k \in 1 .. Len(Row) : Row[k] # Module BY <1>7, <1>8 DEF Module
<1>10. Len(Row) <= Len(ClassName) /\ Len(ClassName) \in Nat
  BY ClassNames DEF CInv, Rows
<1>11. ASSUME NEW j \in 1 .. Len(Row), NEW k \in 1 .. Len(Row), Row[j] = Row[k] PROVE j = k
  <2>1. ClassName[j] = ClassName[k] BY <1>8, <1>11
  <2>2. j \in 1 .. Len(ClassName) /\ k \in 1 .. Len(ClassName) BY <1>7, <1>10
  <2> QED BY <2>1, <2>2, ClassNames
<1>12. \A k \in 1 .. Len(Row) : \A i \in 1 .. Len(Kids(Row[k])) :
              scopes[Kids(Row[k])[i]].kind = "method"
  BY DEF CInv, KidsAreMethods
<1>13. Len(Row) = Len(classes) + (IF InClass THEN 1 ELSE 0) BY DEF CInv, Rows
<1> QED BY ONLY <1>1, <1>2, <1>3, <1>4, <1>5, <1>6, <1>7, <1>8, <1>9, <1>10, <1>11, <1>12, <1>13

\* What it says of the heap.
LEMMA HeapFacts ==
  ASSUME CInv
  PROVE  /\ decls \in Seq(DeclType) /\ Len(decls) \in Nat
         /\ \A d \in 1 .. Len(decls) :
              /\ decls[d] \in DeclType
              /\ Elements(decls[d].fields) \cup Elements(decls[d].methods) \subseteq 1 .. Len(decls)
              /\ decls[d].class \in 0 .. d - 1 /\ decls[d].home \in 0 .. Len(scopes)
              /\ decls[d].origin <= d /\ (decls[d].kind = "method" => decls[d].real \in Method)
         /\ classes \in Seq(1 .. Len(decls)) /\ Len(classes) \in Nat
         /\ \A k \in 1 .. Len(classes) :
              /\ classes[k] \in 1 .. Len(decls) /\ decls[classes[k]].kind = "class"
              /\ decls[classes[k]].name = ClassName[k]
         /\ parts \in Seq(1 .. Len(decls)) /\ Len(parts) \in Nat
         /\ \A k \in 1 .. Len(parts) : parts[k] \in 1 .. Len(decls)
         /\ base \in 0 .. Len(decls)
         /\ visited \subseteq (1 .. Len(decls)) \X (0 .. Len(scopes))
         /\ cls \in 0 .. Len(classes) /\ cg \in 1 .. Len(scopes) /\ current \in 1 .. Len(scopes)
<1>1. decls \in Seq(DeclType) /\ classes \in Seq(1 .. Len(decls)) /\ parts \in Seq(1 .. Len(decls))
  BY DEF CInv, TypeOK
<1>2. /\ \A d \in 1 .. Len(decls) :
           /\ Elements(decls[d].fields) \cup Elements(decls[d].methods) \subseteq 1 .. Len(decls)
           /\ decls[d].class \in 0 .. d - 1 /\ decls[d].home \in 0 .. Len(scopes)
      /\ base \in 0 .. Len(decls)
      /\ visited \subseteq (1 .. Len(decls)) \X (0 .. Len(scopes))
      /\ cls \in 0 .. Len(classes) /\ cg \in 1 .. Len(scopes) /\ current \in 1 .. Len(scopes)
  BY DEF CInv, TypeOK
<1>3. \A d \in 1 .. Len(decls) :
        decls[d].origin <= d /\ (decls[d].kind = "method" => decls[d].real \in Method)
  BY DEF CInv, MethodsNamed
<1>4. \A k \in 1 .. Len(classes) :
        decls[classes[k]].kind = "class" /\ decls[classes[k]].name = ClassName[k]
  BY DEF CInv, ClassesRead
<1>5. Len(decls) \in Nat /\ \A d \in 1 .. Len(decls) : decls[d] \in DeclType BY ONLY <1>1
<1>6. Len(classes) \in Nat /\ \A k \in 1 .. Len(classes) : classes[k] \in 1 .. Len(decls)
  BY ONLY <1>1
<1>7. Len(parts) \in Nat /\ \A k \in 1 .. Len(parts) : parts[k] \in 1 .. Len(decls)
  BY ONLY <1>1
<1> QED BY ONLY <1>1, <1>2, <1>3, <1>4, <1>5, <1>6, <1>7

LEMMA ClassInRow ==
  ASSUME CInv
  PROVE  \A k \in 1 .. Len(classes) : k \in 1 .. Len(Row)
<1>1. Len(Row) \in Nat /\ Len(Row) = Len(classes) + (IF InClass THEN 1 ELSE 0) BY TreeFacts
<1>2. Len(classes) \in Nat BY HeapFacts
<1> QED BY ONLY <1>1, <1>2

\* The head of a class: the new scope is the last of the row, and has copies of the
\* scopes in that of the base.
LEMMA EnterScopes ==
  ASSUME CInv, NEW b \in 0 .. Len(decls), EnterClass(b)
  PROVE  \E m \in Nat, j \in 0 .. Len(classes) :
           /\ b = NoDecl => m = 0
           /\ b # NoDecl => j # 0 /\ classes[j] = b /\ m = Len(Kids(Row[j]))
           /\ IsTree(scopes') /\ Len(scopes') = Len(scopes) + 1 + m
           /\ IsScope(scopes'[Module], scopes[Module].kind, scopes[Module].name,
                      scopes[Module].parent, Append(Row, Len(scopes) + 1),
                      scopes[Module].external, scopes[Module].cursor, scopes[Module].decl)
           /\ \E c, d :
                /\ IsScope(scopes'[Len(scopes) + 1], "class", ClassName[Len(classes) + 1],
                           Module, c, FALSE, 0, d)
                /\ Len(c) = m /\ \A k \in 1 .. m : c[k] = Len(scopes) + 1 + k
           /\ \A t \in 1 .. Len(scopes) : t # Module => scopes'[t] = scopes[t]
           /\ \A k \in 1 .. m :
                LET o == scopes[Kids(Row[j])[k]]
                IN  IsScope(scopes'[Len(scopes) + 1 + k], "method", o.name, o.parent,
                            o.children, TRUE, o.cursor, o.decl)
<1>1. PICK n \in Nat : n = Len(scopes) BY TreeFacts
<1>2. PICK l \in Nat : l = Len(classes) BY HeapFacts
<1>3. l < Len(ClassName) /\ ~InClass BY <1>2 DEF EnterClass
<1>4. PICK nm : nm = ClassName[l + 1] OBVIOUS
<1>5. PICK N \in Nat : N = Len(ClassName) BY ClassNames
<1>6. nm \in Name
  <2>1. l + 1 \in 1 .. N BY <1>3, <1>5
  <2> QED BY <1>4, <1>5, <2>1, ClassNames
<1>7. PICK e, kd, M, sc : /\ e = CreateChild(sc, M, kd, nm)
                           /\ kd = "class" /\ M = Module /\ sc = scopes
  OBVIOUS
<1>8. /\ IsTree(sc) /\ M \in 1 .. Len(sc) /\ IsTree(scopes) /\ Module \in 1 .. Len(scopes)
  BY <1>7, TreeFacts
<1>9. kd \in Kind BY <1>7 DEF Kind
<1>10. /\ IsTree(e) /\ Len(e) = n + 1
       /\ IsScope(e[n + 1], "class", nm, Module, << >>, FALSE, 0, NoSymbols)
       /\ IsScope(e[Module], scopes[Module].kind, scopes[Module].name, scopes[Module].parent,
                  Append(Row, n + 1), scopes[Module].external, scopes[Module].cursor,
                  scopes[Module].decl)
       /\ \A t \in 1 .. n : t # Module => e[t] = scopes[t]
  <2>0. e = CreateChild(sc, M, kd, nm) /\ IsTree(sc) /\ M \in 1 .. Len(sc) BY ONLY <1>7, <1>8
  <2>1. ChildMade(sc, M, kd, nm, e)
    BY ONLY <1>6, <1>9, <2>0, CreateChildIs
  <2> QED BY ONLY <1>1, <1>7, <2>1 DEF Row, ChildMade
<1>11. scopes' = IF b = NoDecl THEN e ELSE CopyClass(e, decls[b].name, nm)
  BY <1>2, <1>4, <1>7 DEF EnterClass
<1>12. CASE b = NoDecl
  <2>1. scopes' = e BY <1>11, <1>12
  <2>2. Len(<< >>) = 0 /\ 0 \in Nat /\ 0 \in 0 .. Len(classes) /\ n + 1 + 0 = n + 1 BY <1>2
  <2>3. \A k \in 1 .. 0 : FALSE OBVIOUS
  <2> WITNESS 0 \in Nat, 0 \in 0 .. Len(classes)
  <2>4. \E c, d :
          /\ IsScope(scopes'[Len(scopes) + 1], "class", ClassName[Len(classes) + 1],
                     Module, c, FALSE, 0, d)
          /\ Len(c) = 0 /\ \A k \in 1 .. 0 : c[k] = Len(scopes) + 1 + k
    BY ONLY <1>1, <1>2, <1>4, <1>10, <2>1, <2>2, <2>3
  <2> QED BY ONLY <1>1, <1>10, <1>12, <2>1, <2>2, <2>3, <2>4
<1>13. CASE b # NoDecl
  <2>1. PICK j \in 1 .. l : classes[j] = b BY <1>2, <1>13 DEF EnterClass
  <2>2. decls[b].name = ClassName[j] BY <1>2, <2>1, HeapFacts
  <2>3. Len(Row) = l
    BY <1>2, <1>3, TreeFacts
  <2>4. Row \in Seq(Nat) BY TreeFacts
  <2>5. PICK r : r = Append(Row, n + 1) OBVIOUS
  <2>6. Len(r) = l + 1 /\ r[l + 1] = n + 1 /\ \A k \in 1 .. l : r[k] = Row[k]
    <3>1. n + 1 \in Nat OBVIOUS
    <3> QED BY ONLY <2>3, <2>4, <2>5, <3>1, AppendFacts
  <2>7. e[Module].children = r BY <1>10, <2>5 DEF IsScope
  <2>8. \A k \in 1 .. l : Row[k] \in 1 .. n /\ Row[k] # Module /\ scopes[Row[k]].name = ClassName[k]
                          /\ scopes[Row[k]].kind = "class"
    BY <1>1, <2>3, TreeFacts
  <2>9. \A k \in 1 .. l + 1 : e[r[k]].name = ClassName[k]
    <3> TAKE k \in 1 .. l + 1
    <3>1. CASE k = l + 1 BY <1>4, <1>10, <2>6, <3>1 DEF IsScope
    <3>2. CASE k # l + 1
      <4>1. k \in 1 .. l BY <3>2
      <4> QED BY <1>10, <2>6, <2>8, <4>1
    <3> QED BY <3>1, <3>2
  <2>10. \A i, k \in 1 .. l + 1 : ClassName[i] = ClassName[k] => i = k
    <3>1. \A i \in 1 .. l + 1 : i \in 1 .. N BY <1>3, <1>5
    <3> QED BY <1>5, <3>1, ClassNames
  <2>11. \A i \in 1 .. l + 1 : ChildNamed(e, Module, ClassName[i]) = r[i]
    <3> TAKE i \in 1 .. l + 1
    <3>1. PICK name : name = ClassName[i] OBVIOUS
    <3>2. i \in 1 .. Len(e[Module].children) /\ Len(e[Module].children) \in Nat BY <2>6, <2>7
    <3>3. name = e[e[Module].children[i]].name BY <2>7, <2>9, <3>1
    <3>4. \A k \in 1 .. Len(e[Module].children) : e[e[Module].children[k]].name = name => k = i
      BY <2>6, <2>7, <2>9, <2>10, <3>1
    <3>5. ChildNamed(e, Module, name) = e[Module].children[i]
      BY ONLY <3>2, <3>3, <3>4, ChildNamedIs
    <3> QED BY <2>7, <3>1, <3>5
  <2>12. PICK s : s = Row[j] OBVIOUS
  <2>13. s \in 1 .. n /\ s # Module /\ e[s] = scopes[s] BY <1>10, <2>1, <2>8, <2>12
  <2>14. ChildNamed(e, Module, decls[b].name) = s
    <3>1. j \in 1 .. l + 1 BY <2>1
    <3> QED BY <2>1, <2>2, <2>6, <2>11, <2>12, <3>1
  <2>15. ChildNamed(e, Module, nm) = n + 1 BY <1>4, <2>6, <2>11
  <2>16. /\ s \in 1 .. Len(e) /\ n + 1 \in 1 .. Len(e) /\ s # n + 1
         /\ e[n + 1].children = << >> /\ e[n + 1].decl = NoSymbols
    BY <1>10, <2>13 DEF IsScope
  <2>17. \A k \in 1 .. Len(e[s].children) :
           /\ e[s].children[k] \in 1 .. n /\ e[e[s].children[k]] = scopes[Kids(Row[j])[k]]
           /\ e[e[s].children[k]].kind = "method"
    <3> TAKE k \in 1 .. Len(e[s].children)
    <3>1. k \in 1 .. Len(Kids(Row[j])) /\ e[s].children[k] = Kids(Row[j])[k]
      BY <2>12, <2>13 DEF Kids
    <3>2. Row[j] \in 1 .. Len(scopes) /\ j \in 1 .. Len(Row) BY <1>1, <2>3, <2>8
    <3>3. Kids(Row[j])[k] \in 1 .. n /\ scopes[Kids(Row[j])[k]].kind = "method"
      BY <1>1, <3>1, <3>2, TreeFacts
    <3>4. Kids(Row[j])[k] # Module BY <3>3, TreeFacts
    <3> QED BY <1>10, <3>1, <3>3, <3>4
  <2>18. scopes' = CopyClass(e, decls[b].name, nm) BY <1>11, <1>13
  <2>19. PICK m \in Nat : m = Len(e[s].children) BY <2>12, <2>13, <1>1, TreeFacts DEF Kids
  <2>20. /\ IsTree(scopes') /\ Len(scopes') = Len(e) + Len(e[s].children)
         /\ \E c \in Seq(Nat) :
              /\ IsScope(scopes'[n + 1], e[n + 1].kind, e[n + 1].name, e[n + 1].parent, c,
                         e[n + 1].external, e[n + 1].cursor, e[s].decl)
              /\ Len(c) = Len(e[s].children)
              /\ \A k \in 1 .. Len(c) : c[k] = Len(e) + k
         /\ \A t \in 1 .. Len(e) : t # n + 1 => scopes'[t] = e[t]
         /\ \A k \in 1 .. Len(e[s].children) :
              LET o == e[e[s].children[k]]
              IN  IsScope(scopes'[Len(e) + k], o.kind, o.name, o.parent, o.children, TRUE,
                          o.cursor, o.decl)
    <3>1. PICK sc2 : sc2 = scopes' OBVIOUS
    <3>2. PICK from : /\ from = decls[b].name /\ sc2 = CopyClass(e, from, nm)
                      /\ ChildNamed(e, Module, from) = s
      BY <2>14, <2>18, <3>1
    <3>3. IsTree(e) BY <1>10
    <3>4. PICK dst : dst = n + 1 OBVIOUS
    <3>5. \A k \in 1 .. Len(e[s].children) : e[e[s].children[k]].kind = "method" BY <2>17
    <3>6. dst \in 1 .. Len(e) /\ s # dst /\ e[dst].children = << >> /\ e[dst].decl = NoSymbols
          /\ s \in 1 .. Len(e) /\ ChildNamed(e, Module, nm) = dst
      BY <2>15, <2>16, <3>4
    <3>7. Copied(e, s, dst, sc2)
      <4>1. dst \in 1 .. Len(e) /\ s \in 1 .. Len(e) /\ s # dst BY ONLY <3>6
      <4>2. e[dst].children = << >> /\ e[dst].decl = NoSymbols /\ ChildNamed(e, Module, nm) = dst
        BY ONLY <3>6
      <4>3. sc2 = CopyClass(e, from, nm) /\ ChildNamed(e, Module, from) = s BY ONLY <3>2
      <4> QED BY ONLY <3>3, <3>5, <4>1, <4>2, <4>3, CopyClassIs
    <3> QED BY ONLY <3>1, <3>4, <3>7 DEF Copied
  <2>21. n + 1 \in 1 .. Len(e) /\ Module \in 1 .. Len(e) /\ Module # n + 1 /\ \A t \in 1 .. n : t \in 1 .. Len(e) /\ t # n + 1
    BY <1>1, <1>8, <1>10
  <2>22. /\ e[n + 1].kind = "class" /\ e[n + 1].name = nm /\ e[n + 1].parent = Module
         /\ e[n + 1].external = FALSE /\ e[n + 1].cursor = 0
    BY <1>10 DEF IsScope
  <2>23. \E c, d :
           /\ IsScope(scopes'[n + 1], "class", nm, Module, c, FALSE, 0, d)
           /\ Len(c) = m /\ \A k \in 1 .. m : c[k] = n + 1 + k
    BY ONLY <1>10, <2>19, <2>20, <2>22, ZenonT(40)
  <2>24. scopes'[Module] = e[Module] BY ONLY <2>20, <2>21
  <2>25. \A t \in 1 .. n : t # Module => scopes'[t] = scopes[t]
    BY ONLY <1>10, <2>20, <2>21
  <2>26. ASSUME NEW k \in 1 .. m
         PROVE  LET o == scopes[Kids(Row[j])[k]]
                IN  IsScope(scopes'[n + 1 + k], "method", o.name, o.parent, o.children, TRUE,
                            o.cursor, o.decl)
    BY ONLY <1>10, <2>17, <2>19, <2>20, k \in 1 .. m
  <2>27. m = Len(Kids(Row[j])) BY <2>12, <2>13, <2>19 DEF Kids
  <2>28. j \in 0 .. Len(classes) /\ j # 0 BY <1>2, <2>1
  <2>29. /\ IsTree(scopes') /\ Len(scopes') = n + 1 + m BY ONLY <1>10, <2>19, <2>20
  <2>30. IsScope(scopes'[Module], scopes[Module].kind, scopes[Module].name,
                      scopes[Module].parent, Append(Row, n + 1),
                      scopes[Module].external, scopes[Module].cursor, scopes[Module].decl)
    BY ONLY <1>10, <2>24
  <2>31. \A k \in 1 .. m :
           LET o == scopes[Kids(Row[j])[k]]
           IN  IsScope(scopes'[n + 1 + k], "method", o.name, o.parent, o.children, TRUE,
                       o.cursor, o.decl)
    BY ONLY <2>26
  <2>32. j \in 0 .. Len(classes) BY <2>28
  <2> WITNESS m \in Nat, j \in 0 .. Len(classes)
  <2> QED BY ONLY <1>1, <1>2, <1>4, <1>13, <2>1, <2>23, <2>25, <2>27, <2>28, <2>29, <2>30, <2>31
<1> QED BY <1>12, <1>13

-----------------------------------------------------------------------------
(***************************************************************************)
(* What a step leaves as it was.                                           *)
(***************************************************************************)

\* Scopes that differ in cursors and symbols only, and declarations in numbers only.
Alike(r, q) ==
  /\ q.kind = r.kind /\ q.name = r.name /\ q.parent = r.parent /\ q.children = r.children
  /\ q.external = r.external

SameDecl(d, e) ==
  /\ e.kind = d.kind /\ e.name = d.name /\ e.fields = d.fields /\ e.methods = d.methods
  /\ e.class = d.class /\ e.real = d.real /\ e.nested = d.nested /\ e.home = d.home
  /\ e.origin = d.origin

DeclsKept == \A d \in 1 .. Len(decls) : SameDecl(decls[d], decls'[d])

LoopsKept ==
  /\ Len(scopes') >= Len(scopes) /\ Len(scopes') \in Nat
  /\ \A t \in 1 .. Len(scopes) : scopes[t].kind = "loop" => Alike(scopes[t], scopes'[t])

KidsKept(s) ==
  /\ scopes'[s].children = scopes[s].children
  /\ \A i \in 1 .. Len(Kids(s)) : Alike(scopes[Kids(s)[i]], scopes'[Kids(s)[i]])

LEMMA BodyKept ==
  ASSUME CInv, DeclsKept, LoopsKept, NEW d \in 1 .. Len(decls), NEW s, BodyIn(d, s),
         Alike(scopes[decls[d].home], scopes'[decls[d].home])
  PROVE  BodyIn(d, s)'
<1>1. /\ decls'[d].home = decls[d].home /\ decls'[d].name = decls[d].name
      /\ decls'[d].nested = decls[d].nested
  BY DEF DeclsKept, SameDecl
<1>2. PICK h : h = decls[d].home OBVIOUS
<1>3. /\ h \in 1 .. Len(scopes) /\ ~scopes[h].external /\ scopes[h].parent = s
      /\ scopes[h].name = decls[d].name
  BY <1>2 DEF BodyIn
<1>4. Alike(scopes[h], scopes'[h]) BY <1>2
<1>5. /\ h \in 1 .. Len(scopes') /\ ~scopes'[h].external /\ scopes'[h].parent = s
      /\ scopes'[h].name = decls[d].name
  <2>1. h \in 1 .. Len(scopes')
    <3>1. Len(scopes) \in Nat BY TreeFacts
    <3> QED BY <1>3, <3>1 DEF LoopsKept
  <2> QED BY ONLY <1>3, <1>4, <2>1 DEF Alike
<1>6. ASSUME decls[d].nested
      PROVE  /\ Len(scopes'[h].children) = 1
             /\ scopes'[scopes'[h].children[1]].kind = "loop"
             /\ ~scopes'[scopes'[h].children[1]].external
             /\ scopes'[scopes'[h].children[1]].parent = h
  <2>1. PICK l : l = scopes[h].children[1] OBVIOUS
  <2>2. /\ Len(scopes[h].children) = 1 /\ scopes[l].kind = "loop" /\ ~scopes[l].external
        /\ scopes[l].parent = h
    BY <1>2, <1>6, <2>1 DEF BodyIn, Kids
  <2>3. l \in 1 .. Len(scopes)
    <3>1. \A i \in 1 .. Len(scopes[h].children) : scopes[h].children[i] \in 1 .. Len(scopes)
      BY <1>3, TreeFacts DEF Kids
    <3> QED BY <2>1, <2>2, <3>1
  <2>4. Alike(scopes[l], scopes'[l]) BY <2>2, <2>3 DEF LoopsKept
  <2>5. scopes'[h].children = scopes[h].children BY <1>4 DEF Alike
  <2> QED BY ONLY <2>1, <2>2, <2>4, <2>5 DEF Alike
<1> QED BY ONLY <1>1, <1>2, <1>5, <1>6 DEF BodyIn, Kids

LEMMA LinedKept ==
  ASSUME CInv, DeclsKept, LoopsKept, NEW ms, NEW s \in 1 .. Len(scopes), NEW g \in Places(ms, s),
         Lined(ms, s, g), \A i \in 1 .. Len(ms) : ms[i] \in 1 .. Len(decls), KidsKept(s)
  PROVE  Lined(ms, s, g)' /\ g \in Places(ms, s)'
<1>1. PICK c : c = scopes[s].children OBVIOUS
<1>2. /\ c = Kids(s) /\ c = scopes'[s].children
  BY <1>1 DEF KidsKept, Kids
<1>3. \A i \in 1 .. Len(c) : Alike(scopes[c[i]], scopes'[c[i]]) BY <1>2 DEF KidsKept
<1>4. \A i \in 1 .. Len(ms) : g[i] \in 1 .. Len(c) BY <1>2 DEF Places
<1>5. \A i \in 1 .. Len(ms) : c[g[i]] = decls[ms[i]].home /\ BodyIn(ms[i], s)
  BY <1>2, SMTT(40) DEF Lined
<1>6. ASSUME NEW i \in 1 .. Len(ms)
      PROVE  c[g[i]] = decls'[ms[i]].home /\ BodyIn(ms[i], s)'
  <2>1. PICK d \in 1 .. Len(decls) : d = ms[i] OBVIOUS
  <2>2. Alike(scopes[decls[d].home], scopes'[decls[d].home])
    BY ONLY <1>3, <1>4, <1>5, <2>1, i \in 1 .. Len(ms)
  <2>3. BodyIn(d, s) BY <1>5, <2>1
  <2>4. BodyIn(d, s)' BY <2>2, <2>3, BodyKept
  <2>5. decls'[d].home = decls[d].home BY DEF DeclsKept, SameDecl
  <2> QED BY ONLY <1>5, <2>1, <2>4, <2>5, i \in 1 .. Len(ms), Zenon DEF BodyIn, Kids
<1>7. \A i, j \in 1 .. Len(ms) : i < j => g[i] < g[j] BY DEF Lined
<1>8. \A k \in 1 .. Len(c) : (\A i \in 1 .. Len(ms) : g[i] # k) => scopes[c[k]].external
  BY <1>2 DEF Lined
<1>9. \A k \in 1 .. Len(c) : (\A i \in 1 .. Len(ms) : g[i] # k) => scopes'[c[k]].external
  BY ONLY <1>3, <1>8 DEF Alike
<1>10. \A i \in 1 .. Len(ms) : c[g[i]] = decls'[ms[i]].home BY <1>6
<1>11. \A i \in 1 .. Len(ms) : BodyIn(ms[i], s)' BY <1>6
<1>12. g \in Places(ms, s)' BY <1>2 DEF Places, Kids
<1>13. Kids(s)' = c BY <1>2 DEF Kids
<1>14. Lined(ms, s, g)' BY <1>7, <1>9, <1>10, <1>11, <1>13 DEF Lined
<1> QED BY <1>12, <1>14

LEMMA TangledKept ==
  ASSUME CInv, DeclsKept, NEW c \in 1 .. Len(decls)
  PROVE  Tangled(c)' <=> Tangled(c)
<1>1. PICK M : M = Elements(decls[c].methods) OBVIOUS
<1>2. Elements(decls'[c].methods) = M BY <1>1 DEF DeclsKept, SameDecl, Elements
<1>3. M \subseteq 1 .. Len(decls) BY <1>1, HeapFacts
<1>4. \A d \in M : decls'[d].origin = decls[d].origin /\ decls'[d].nested = decls[d].nested
  BY <1>3 DEF DeclsKept, SameDecl
<1>5. {d \in M : decls'[d].origin # d} = {d \in M : decls[d].origin # d} BY <1>4
<1>6. PICK C : C = {d \in M : decls[d].origin # d} OBVIOUS
<1>7. \A d \in C : decls'[d].nested = decls[d].nested BY <1>4, <1>6
<1>8. Tangled(c) <=> Cardinality(C) > 1 \/ \E d \in C : decls[d].nested
  BY ONLY <1>1, <1>6 DEF Tangled
<1>9. Tangled(c)' <=> Cardinality(C) > 1 \/ \E d \in C : decls'[d].nested
  <2>1. Elements(decls[c].methods)' = M BY <1>2 DEF Elements
  <2> QED BY ONLY <1>5, <1>6, <2>1 DEF Tangled, Elements
<1> QED BY ONLY <1>7, <1>8, <1>9

ClassesKept ==
  /\ Len(classes') >= Len(classes) /\ Len(classes') \in Nat
  /\ \A k \in 1 .. Len(classes) :
       classes'[k] = classes[k] /\ scopes'[Module].children[k] = Row[k] /\ KidsKept(Row[k])

LEMMA StraightKept ==
  ASSUME CInv, DeclsKept, ClassesKept, NEW k \in 0 .. Len(classes)
  PROVE  StraightTo(k)' <=> StraightTo(k)
<1>1. k \in Nat /\ \A j \in 1 .. k : j \in 1 .. Len(classes) BY HeapFacts
<1>2. \A j \in 1 .. k : classes'[j] = classes[j] /\ classes[j] \in 1 .. Len(decls)
  BY <1>1, HeapFacts DEF ClassesKept
<1>3. ASSUME NEW j \in 1 .. k PROVE Tangled(classes[j])' <=> Tangled(classes[j])
  <2>1. PICK c \in 1 .. Len(decls) : c = classes[j] BY <1>2
  <2>2. Tangled(c)' <=> Tangled(c) BY TangledKept
  <2>3. classes'[j] = c BY <1>2, <2>1
  <2>4. Tangled(classes[j])' <=> Tangled(c)' BY <2>3 DEF Tangled, Elements
  <2> QED BY ONLY <2>1, <2>2, <2>4
<1> QED BY ONLY <1>3 DEF StraightTo

\* The classes that were read stay in line.
LEMMA ClassesLinedKept ==
  ASSUME CInv, DeclsKept, LoopsKept, ClassesKept, NEW k \in 1 .. Len(classes), StraightTo(k)'
  PROVE  (\E g \in Places(decls[classes[k]].methods, Row[k]) :
            Lined(decls[classes[k]].methods, Row[k], g))'
<1>1. k \in 0 .. Len(classes) BY HeapFacts
<1>2. StraightTo(k) BY <1>1, StraightKept
<1>3. PICK ms, s : ms = decls[classes[k]].methods /\ s = Row[k] OBVIOUS
<1>4. PICK g \in Places(ms, s) : Lined(ms, s, g) BY <1>2, <1>3 DEF CInv, ClassesLined
<1>5. k \in 1 .. Len(Row) BY ClassInRow
<1>6. s \in 1 .. Len(scopes) BY <1>3, <1>5, TreeFacts
<1>7. classes[k] \in 1 .. Len(decls) BY HeapFacts
<1>8. \A i \in 1 .. Len(ms) : ms[i] \in 1 .. Len(decls)
  BY <1>3, <1>7, HeapFacts, ZenonT(40) DEF Elements
<1>9. KidsKept(s) /\ classes'[k] = classes[k] /\ scopes'[Module].children[k] = s
  BY <1>3 DEF ClassesKept
<1>10. Lined(ms, s, g)' /\ g \in Places(ms, s)' BY <1>4, <1>6, <1>8, <1>9, LinedKept
<1>11. decls'[classes'[k]].methods = ms BY <1>3, <1>7, <1>9 DEF DeclsKept, SameDecl
<1>12. Row'[k] = s BY <1>9 DEF Row
<1>13. \E f \in Places(ms, s)' : Lined(ms, s, f)' BY ONLY <1>10
<1>14. ASSUME NEW f PROVE Lined(decls[classes[k]].methods, Row[k], f)' <=> Lined(ms, s, f)'
  <2>1. ASSUME NEW i
        PROVE  BodyIn(decls[classes[k]].methods[i], Row[k])' <=> BodyIn(ms[i], s)'
    BY ONLY <1>11, <1>12 DEF BodyIn
  <2> QED BY ONLY <1>11, <1>12, <2>1 DEF Lined, Kids
<1>15. Places(decls[classes[k]].methods, Row[k])' = Places(ms, s)'
  BY ONLY <1>11, <1>12 DEF Places, Kids
<1> QED BY ONLY <1>13, <1>14, <1>15

LEMMA RowsKept ==
  ASSUME CInv, Len(scopes') >= Len(scopes), Len(scopes') \in Nat,
         scopes'[Module].kind = scopes[Module].kind,
         scopes'[Module].children = scopes[Module].children,
         \A k \in 1 .. Len(Row) :
           /\ scopes'[Row[k]].kind = "class" /\ ~scopes'[Row[k]].external
           /\ scopes'[Row[k]].name = scopes[Row[k]].name
           /\ scopes'[Row[k]].parent = scopes[Row[k]].parent,
         Len(Row) = Len(classes') + (IF current' # Module THEN 1 ELSE 0),
         current' # Module => InClass /\ current' = current /\ phase' = "parse"
  PROVE  Rows'
<1>1. PICK r : r = Row OBVIOUS
<1>2. Row' = r BY <1>1 DEF Row
<1>3. /\ Len(scopes) >= Module /\ scopes[Module].kind = "module" /\ Len(scopes) \in Nat
      /\ Len(r) <= Len(ClassName)
      /\ InClass => current = r[Len(r)]
      /\ \A k \in 1 .. Len(r) :
           r[k] > Module /\ scopes[r[k]].name = ClassName[k] /\ scopes[r[k]].parent = Module
  BY <1>1, TreeFacts DEF CInv, Rows
<1>4. Module \in Nat BY DEF Module
<1>5. Len(scopes') >= Module BY <1>3, <1>4
<1>6. \A k \in 1 .. Len(r) :
        LET s == r[k]
        IN  /\ s > Module /\ scopes'[s].kind = "class" /\ ~scopes'[s].external
            /\ scopes'[s].name = ClassName[k] /\ scopes'[s].parent = Module
  BY <1>1, <1>3
<1>7. current' # Module => current' = r[Len(r)] /\ phase' = "parse" BY <1>3
<1>8. Len(r) = Len(classes') + (IF current' # Module THEN 1 ELSE 0) BY <1>1
<1>9. scopes'[Module].kind = "module" BY <1>3
<1> QED BY ONLY <1>2, <1>3, <1>5, <1>6, <1>7, <1>8, <1>9 DEF Rows, InClass

\* The children of the classes r are those there were, and scopes that were just made.
KidsOldOrNew(r, n) ==
  /\ \A k \in 1 .. Len(r) : \A i \in 1 .. Len(scopes'[r[k]].children) :
       /\ scopes'[scopes'[r[k]].children[i]].kind = "method"
       /\ \/ /\ k \in 1 .. Len(Row) /\ i \in 1 .. Len(Kids(Row[k]))
             /\ scopes'[r[k]].children[i] = Kids(Row[k])[i]
          \/ scopes'[r[k]].children[i] > n
  /\ \A j, k \in 1 .. Len(r) :
       \A i \in 1 .. Len(scopes'[r[j]].children), l \in 1 .. Len(scopes'[r[k]].children) :
         /\ scopes'[r[j]].children[i] > n
         /\ scopes'[r[j]].children[i] = scopes'[r[k]].children[l]
         => j = k /\ i = l

LEMMA KidsStayApart ==
  ASSUME CInv, NEW r, r = scopes'[Module].children, KidsOldOrNew(r, Len(scopes))
  PROVE  KidsAreMethods' /\ KidsApart'
<1>0. PICK n : n = Len(scopes) OBVIOUS
<1>1. Row' = r BY DEF Row
<1>2. \A s : Kids(s)' = scopes'[s].children BY DEF Kids
<1>3. KidsAreMethods' BY <1>1, <1>2 DEF KidsAreMethods, Kids, KidsOldOrNew
<1>4. \A j, k \in 1 .. Len(Row) :
        \A i \in 1 .. Len(Kids(Row[j])), l \in 1 .. Len(Kids(Row[k])) :
          Kids(Row[j])[i] = Kids(Row[k])[l] => j = k /\ i = l
  BY DEF CInv, KidsApart
<1>n. KidsOldOrNew(r, n) BY ONLY <1>0, KidsOldOrNew(r, Len(scopes))
<1>a. \A k \in 1 .. Len(r) : \A i \in 1 .. Len(scopes'[r[k]].children) :
        \/ /\ k \in 1 .. Len(Row) /\ i \in 1 .. Len(Kids(Row[k]))
           /\ scopes'[r[k]].children[i] = Kids(Row[k])[i]
        \/ scopes'[r[k]].children[i] > n
  BY ONLY <1>n DEF KidsOldOrNew
<1>b. \A j, k \in 1 .. Len(r) :
        \A i \in 1 .. Len(scopes'[r[j]].children), l \in 1 .. Len(scopes'[r[k]].children) :
          /\ scopes'[r[j]].children[i] > n
          /\ scopes'[r[j]].children[i] = scopes'[r[k]].children[l]
          => j = k /\ i = l
  BY ONLY <1>n DEF KidsOldOrNew
<1>5. ASSUME NEW j \in 1 .. Len(r), NEW k \in 1 .. Len(r),
             NEW i \in 1 .. Len(scopes'[r[j]].children), NEW l \in 1 .. Len(scopes'[r[k]].children),
             scopes'[r[j]].children[i] = scopes'[r[k]].children[l]
      PROVE  j = k /\ i = l
  <2>1. PICK c : c = scopes'[r[j]].children[i] OBVIOUS
  <2>2. CASE c > n
    <3>1. \A x \in 1 .. Len(scopes'[r[j]].children), y \in 1 .. Len(scopes'[r[k]].children) :
            /\ scopes'[r[j]].children[x] > n
            /\ scopes'[r[j]].children[x] = scopes'[r[k]].children[y]
            => j = k /\ x = y
      BY ONLY <1>b, j \in 1 .. Len(r), k \in 1 .. Len(r)
    <3> QED BY ONLY <1>5, <2>1, <2>2, <3>1
  <2>3. CASE ~(c > n)
    <3>1. j \in 1 .. Len(Row) /\ i \in 1 .. Len(Kids(Row[j])) /\ c = Kids(Row[j])[i]
      BY ONLY <1>a, <2>1, <2>3, j \in 1 .. Len(r), i \in 1 .. Len(scopes'[r[j]].children)
    <3>2. k \in 1 .. Len(Row) /\ l \in 1 .. Len(Kids(Row[k])) /\ c = Kids(Row[k])[l]
      <4>1. scopes'[r[k]].children[l] = c BY ONLY <1>5, <2>1
      <4> QED BY ONLY <1>a, <2>3, <4>1
    <3>3. \A x \in 1 .. Len(Kids(Row[j])), y \in 1 .. Len(Kids(Row[k])) :
            Kids(Row[j])[x] = Kids(Row[k])[y] => j = k /\ x = y
      BY ONLY <1>4, <3>1, <3>2
    <3>4. Kids(Row[j])[i] = Kids(Row[k])[l] BY ONLY <3>1, <3>2
    <3> QED BY ONLY <3>1, <3>2, <3>3, <3>4
  <2> QED BY <2>2, <2>3
<1>6. \A j, k \in 1 .. Len(r) :
        \A i \in 1 .. Len(scopes'[r[j]].children), l \in 1 .. Len(scopes'[r[k]].children) :
          scopes'[r[j]].children[i] = scopes'[r[k]].children[l] => j = k /\ i = l
  BY ONLY <1>5
<1>7. KidsApart' BY ONLY <1>1, <1>2, <1>6 DEF KidsApart, Kids
<1> QED BY <1>3, <1>7

\* When no class got further scopes, in particular.
LEMMA KidsStay ==
  ASSUME CInv, scopes'[Module].children = scopes[Module].children,
         \A k \in 1 .. Len(Row) : KidsKept(Row[k])
  PROVE  KidsAreMethods' /\ KidsApart'
<1>1. PICK r, n : r = scopes'[Module].children /\ n = Len(scopes) OBVIOUS
<1>2. r = Row BY <1>1 DEF Row
<1>3. \A k \in 1 .. Len(r) : scopes'[r[k]].children = Kids(r[k]) BY <1>2 DEF KidsKept, Kids
<1>4. \A k \in 1 .. Len(r) : \A i \in 1 .. Len(Kids(r[k])) :
        /\ Kids(r[k])[i] \in 1 .. n /\ scopes[Kids(r[k])[i]].kind = "method"
  <2>1. \A k \in 1 .. Len(Row) : Row[k] \in 1 .. Len(scopes) BY TreeFacts
  <2>2. \A s \in 1 .. Len(scopes) : \A i \in 1 .. Len(Kids(s)) : Kids(s)[i] \in 1 .. Len(scopes)
    BY TreeFacts
  <2>3. \A k \in 1 .. Len(Row) : \A i \in 1 .. Len(Kids(Row[k])) :
          scopes[Kids(Row[k])[i]].kind = "method"
    BY TreeFacts
  <2> QED BY ONLY <1>1, <1>2, <2>1, <2>2, <2>3
<1>5. n \in Nat BY <1>1, TreeFacts
<1>6. \A k \in 1 .. Len(r) : \A i \in 1 .. Len(Kids(r[k])) :
        ~(Kids(r[k])[i] > n) /\ scopes'[Kids(r[k])[i]].kind = "method"
  <2>1. \A k \in 1 .. Len(r) : \A i \in 1 .. Len(Kids(r[k])) :
          Alike(scopes[Kids(r[k])[i]], scopes'[Kids(r[k])[i]])
    BY <1>2 DEF KidsKept
  <2>2. \A k \in 1 .. Len(r) : \A i \in 1 .. Len(Kids(r[k])) :
          scopes'[Kids(r[k])[i]].kind = "method"
    BY ONLY <1>4, <2>1 DEF Alike
  <2>3. \A x \in 1 .. n : ~(x > n) BY ONLY <1>5
  <2> QED BY ONLY <1>4, <2>2, <2>3
<1>7. \A k \in 1 .. Len(r) : \A i \in 1 .. Len(scopes'[r[k]].children) :
        /\ scopes'[scopes'[r[k]].children[i]].kind = "method"
        /\ k \in 1 .. Len(Row) /\ i \in 1 .. Len(Kids(Row[k]))
        /\ scopes'[r[k]].children[i] = Kids(Row[k])[i]
        /\ ~(scopes'[r[k]].children[i] > n)
  BY ONLY <1>2, <1>3, <1>6
<1>8. \A j, k \in 1 .. Len(r) :
        \A i \in 1 .. Len(scopes'[r[j]].children), l \in 1 .. Len(scopes'[r[k]].children) :
          /\ scopes'[r[j]].children[i] > n
          /\ scopes'[r[j]].children[i] = scopes'[r[k]].children[l]
          => j = k /\ i = l
  BY ONLY <1>7
<1>9. \A k \in 1 .. Len(r) : \A i \in 1 .. Len(scopes'[r[k]].children) :
        /\ scopes'[scopes'[r[k]].children[i]].kind = "method"
        /\ \/ /\ k \in 1 .. Len(Row) /\ i \in 1 .. Len(Kids(Row[k]))
              /\ scopes'[r[k]].children[i] = Kids(Row[k])[i]
           \/ scopes'[r[k]].children[i] > n
  BY ONLY <1>7
<1>10. KidsOldOrNew(r, n) BY ONLY <1>8, <1>9 DEF KidsOldOrNew
<1> QED BY <1>1, <1>10, KidsStayApart

\* Before anything is generated the generator is in step.
LEMMA StillInStep ==
  ASSUME IsTree(scopes'), Rows', Still', phase' = "parse"
  PROVE  InStep'
<1>1. /\ cls' = 0 /\ cg' = Module /\ visited' = {}
      /\ \A s \in 1 .. Len(scopes') : scopes'[s].cursor = 0
  BY DEF Still
<1>2. /\ Len(scopes') >= 2 /\ Module = 2
  BY DEF Rows, Module
<1>3. Len(scopes') \in Nat BY DEF IsTree
<1>4. Module \in 1 .. Len(scopes') BY <1>2, <1>3
<1>5. \A s \in 1 .. Len(scopes') : \A i \in 1 .. Len(scopes'[s].children) :
        scopes'[s].children[i] \in 1 .. Len(scopes')
  BY DEF IsTree
<1>6. PICK r : r = scopes'[Module].children OBVIOUS
<1>7. \A k \in 1 .. Len(r) : r[k] \in 1 .. Len(scopes') BY <1>4, <1>5, <1>6
<1>8. \A k \in 0 + 1 .. Len(r) : k \in 1 .. Len(r) OBVIOUS
<1>9. Ahead' BY <1>1, <1>5, <1>6, <1>7, <1>8 DEF Ahead, Row, Kids
<1>10. scopes'[Module].cursor = cls' BY <1>1, <1>4
<1> QED BY <1>1, <1>9, <1>10 DEF InStep

-----------------------------------------------------------------------------
(***************************************************************************)
(* The members of a class.                                                 *)
(***************************************************************************)

\* A tree whose class s got the scope of a member function.
BodyMade(sc, s, name, nested, sc2) ==
  /\ IsTree(sc2) /\ Len(sc2) = Len(sc) + 1 + (IF nested THEN 1 ELSE 0)
  /\ sc2[s].kind = sc[s].kind /\ sc2[s].name = sc[s].name /\ sc2[s].parent = sc[s].parent
  /\ sc2[s].external = sc[s].external /\ sc2[s].cursor = sc[s].cursor
  /\ sc2[s].children = Append(sc[s].children, Len(sc) + 1)
  /\ \A x \in FieldName : sc2[s].decl[x] = sc[s].decl[x]
  /\ \A t \in 1 .. Len(sc) : t # s => sc2[t] = sc[t]
  /\ LET h == Len(sc) + 1
     IN  /\ sc2[h].kind = "method" /\ sc2[h].name = name /\ sc2[h].parent = s
         /\ ~sc2[h].external /\ sc2[h].cursor = 0
         /\ nested =>
              /\ sc2[h].children = <<h + 1>>
              /\ sc2[h + 1].kind = "loop" /\ sc2[h + 1].parent = h
              /\ ~sc2[h + 1].external /\ sc2[h + 1].cursor = 0

LEMMA WithBodyIs ==
  ASSUME NEW sc, IsTree(sc), current \in 1 .. Len(sc), NEW name \in Name,
         NEW nested \in BOOLEAN, NEW sc2, sc2 = WithBody(sc, name, nested)
  PROVE  BodyMade(sc, current, name, nested, sc2)
<1>1. PICK n \in Nat : n = Len(sc) BY DEF IsTree
<1>2. PICK s : s = current OBVIOUS
<1>3. PICK kd \in Kind, e \in {CreateChild(sc, s, "method", name)} :
        kd = "method" /\ e = CreateChild(sc, s, kd, name)
  BY DEF Kind
<1>4. /\ IsTree(e) /\ Len(e) = Len(sc) + 1
      /\ IsScope(e[Len(sc) + 1], kd, name, s, << >>, FALSE, 0, NoSymbols)
      /\ IsScope(e[s], sc[s].kind, sc[s].name, sc[s].parent,
                 Append(sc[s].children, Len(sc) + 1), sc[s].external, sc[s].cursor, sc[s].decl)
      /\ \A t \in 1 .. Len(sc) : t # s => e[t] = sc[t]
  <2>1. e = CreateChild(sc, s, kd, name) BY <1>3
  <2>2. IsTree(sc) /\ s \in 1 .. Len(sc) BY <1>2
  <2>3. ChildMade(sc, s, kd, name, e)
    BY ONLY <2>1, <2>2, kd \in Kind, name \in Name, CreateChildIs
  <2> QED BY ONLY <2>3 DEF ChildMade
<1>5. s \in 1 .. n BY <1>1, <1>2
<1>6. CASE ~nested
  <2>1. sc2 = e BY <1>2, <1>3, <1>6 DEF WithBody
  <2>2. Len(e) = Len(sc) + 1 + 0 BY <1>1, <1>4
  <2> QED BY ONLY <1>2, <1>3, <1>4, <1>6, <2>1, <2>2 DEF BodyMade, IsScope
<1>7. CASE nested
  <2>1. PICK ld \in Kind, nm \in Name, h \in {n + 1} : ld = "loop" /\ nm = "if_else" /\ h = n + 1
    <3>1. "loop" \in Kind BY DEF Kind
    <3>2. "if_else" \in Name BY DEF Name, FixedName
    <3> QED BY <3>1, <3>2
  <2>2. sc2 = CreateChild(e, h, ld, nm) BY <1>1, <1>2, <1>3, <1>7, <2>1 DEF WithBody
  <2>3. IsTree(e) /\ h \in 1 .. Len(e) /\ Len(e) = h BY <1>1, <1>4, <2>1
  <2>4. /\ IsTree(sc2) /\ Len(sc2) = Len(e) + 1
        /\ IsScope(sc2[Len(e) + 1], ld, nm, h, << >>, FALSE, 0, NoSymbols)
        /\ IsScope(sc2[h], e[h].kind, e[h].name, e[h].parent,
                   Append(e[h].children, Len(e) + 1), e[h].external, e[h].cursor, e[h].decl)
        /\ \A t \in 1 .. Len(e) : t # h => sc2[t] = e[t]
    <3>1. ChildMade(e, h, ld, nm, sc2)
      <4>1. IsTree(e) /\ h \in 1 .. Len(e) BY ONLY <2>3
      <4> QED BY ONLY <2>2, <4>1, ld \in Kind, nm \in Name, CreateChildIs
    <3> QED BY ONLY <3>1 DEF ChildMade
  <2>5. \A t \in 1 .. n : t # h /\ t \in 1 .. Len(e) BY <1>1, <2>1, <2>3
  <2>6. sc2[s] = e[s] /\ \A t \in 1 .. n : t # s => sc2[t] = sc[t]
    BY ONLY <1>1, <1>4, <1>5, <2>4, <2>5
  <2>7. /\ e[h].kind = "method" /\ e[h].name = name /\ e[h].parent = s /\ e[h].children = << >>
        /\ ~e[h].external /\ e[h].cursor = 0
    BY <1>1, <1>3, <1>4, <2>1 DEF IsScope
  <2>8. Append(<< >>, h + 1) = <<h + 1>> BY <2>3
  <2>9. /\ sc2[h].kind = "method" /\ sc2[h].name = name /\ sc2[h].parent = s
        /\ ~sc2[h].external /\ sc2[h].cursor = 0 /\ sc2[h].children = <<h + 1>>
    BY ONLY <2>3, <2>4, <2>7, <2>8 DEF IsScope
  <2>10. /\ sc2[h + 1].kind = "loop" /\ sc2[h + 1].parent = h
         /\ ~sc2[h + 1].external /\ sc2[h + 1].cursor = 0
    BY ONLY <2>1, <2>3, <2>4 DEF IsScope
  <2>11. IsTree(sc2) /\ Len(sc2) = n + 1 + 1 BY <2>1, <2>3, <2>4
  <2>12. /\ sc2[s].kind = sc[s].kind /\ sc2[s].name = sc[s].name /\ sc2[s].parent = sc[s].parent
         /\ sc2[s].external = sc[s].external /\ sc2[s].cursor = sc[s].cursor
         /\ sc2[s].children = Append(sc[s].children, n + 1) /\ sc2[s].decl = sc[s].decl
    BY ONLY <1>1, <1>4, <2>6 DEF IsScope
  <2> QED BY ONLY <1>1, <1>2, <1>7, <2>1, <2>6, <2>9, <2>10, <2>11, <2>12 DEF BodyMade
<1> QED BY <1>6, <1>7

LEMMA BodyAdded ==
  ASSUME NEW sc, IsTree(sc), NEW s \in 1 .. Len(sc), NEW name, NEW nested \in BOOLEAN,
         NEW mid, BodyMade(sc, s, name, nested, mid), NEW n, n \notin FieldName, NEW d \in Nat,
         NEW sc2, sc2 = AddDecl(mid, s, n, d)
  PROVE  BodyMade(sc, s, name, nested, sc2)
<1>1. PICK l \in Nat : l = Len(sc) BY DEF IsTree
<1>2. IsTree(mid) /\ Len(mid) = l + 1 + (IF nested THEN 1 ELSE 0) BY <1>1 DEF BodyMade
<1>3. Len(mid) \in Nat /\ Len(mid) > l /\ (nested => Len(mid) = l + 2) BY <1>1, <1>2
<1>4. s \in 1 .. Len(mid) BY <1>1, <1>3
<1>5. /\ IsTree(sc2) /\ Len(sc2) = Len(mid)
      /\ IsScope(sc2[s], mid[s].kind, mid[s].name, mid[s].parent, mid[s].children,
                 mid[s].external, mid[s].cursor, [mid[s].decl EXCEPT ![n] = d])
      /\ \A t \in 1 .. Len(mid) : t # s => sc2[t] = mid[t]
  <2>1. IsTree(mid) BY ONLY <1>2
  <2>2. DeclAdded(mid, s, n, d, sc2)
    BY ONLY <1>4, <2>1, d \in Nat, sc2 = AddDecl(mid, s, n, d), AddDeclIs
  <2> QED BY ONLY <2>2 DEF DeclAdded
<1>6. \A t \in 1 .. l : t \in 1 .. Len(mid) BY <1>3
<1>7. l + 1 \in 1 .. Len(mid) /\ l + 1 # s /\ (nested => l + 2 \in 1 .. Len(mid) /\ l + 2 # s)
      /\ (l + 1) + 1 = l + 2
  BY <1>1, <1>3
<1>8. sc2[l + 1] = mid[l + 1] /\ (nested => sc2[l + 2] = mid[l + 2]) BY ONLY <1>5, <1>7
<1>9. \A t \in 1 .. l : t # s => sc2[t] = mid[t] BY ONLY <1>5, <1>6
<1>10. /\ mid[s].kind = sc[s].kind /\ mid[s].name = sc[s].name /\ mid[s].parent = sc[s].parent
       /\ mid[s].external = sc[s].external /\ mid[s].cursor = sc[s].cursor
       /\ mid[s].children = Append(sc[s].children, l + 1)
       /\ \A t \in 1 .. l : t # s => mid[t] = sc[t]
  BY <1>1 DEF BodyMade
<1>11. /\ sc2[s].kind = sc[s].kind /\ sc2[s].name = sc[s].name /\ sc2[s].parent = sc[s].parent
       /\ sc2[s].external = sc[s].external /\ sc2[s].cursor = sc[s].cursor
       /\ sc2[s].children = Append(sc[s].children, l + 1)
  BY ONLY <1>5, <1>10 DEF IsScope
<1>14. \A x \in FieldName : sc2[s].decl[x] = sc[s].decl[x]
  <2>1. \A x \in FieldName : mid[s].decl[x] = sc[s].decl[x] BY DEF BodyMade
  <2>2. PICK e : e = mid[s].decl OBVIOUS
  <2>3. e \in [Symbol -> Nat] BY <1>2, <1>4, <2>2, ScopeFields
  <2>4. \A x \in FieldName : x \in Symbol BY ClassesAssumption, Zenon DEF ClassesAssumption, Symbol
  <2>5. sc2[s].decl = [e EXCEPT ![n] = d] BY ONLY <1>5, <2>2 DEF IsScope
  <2>6. \A x \in FieldName : sc2[s].decl[x] = e[x]
    BY ONLY <2>3, <2>4, <2>5, n \notin FieldName
  <2> QED BY ONLY <2>1, <2>2, <2>6
<1>12. \A t \in 1 .. l : t # s => sc2[t] = sc[t] BY ONLY <1>9, <1>10
<1>13. /\ mid[l + 1].kind = "method" /\ mid[l + 1].name = name /\ mid[l + 1].parent = s
       /\ ~mid[l + 1].external /\ mid[l + 1].cursor = 0
       /\ nested =>
            /\ mid[l + 1].children = <<(l + 1) + 1>>
            /\ mid[l + 1 + 1].kind = "loop" /\ mid[l + 1 + 1].parent = l + 1
            /\ ~mid[l + 1 + 1].external /\ mid[l + 1 + 1].cursor = 0
  BY <1>1 DEF BodyMade
<1> QED BY ONLY <1>1, <1>2, <1>5, <1>7, <1>8, <1>11, <1>12, <1>13, <1>14 DEF BodyMade

\* A member d was read; the class at hand may have got a scope for it.
Grown ==
  /\ IsTree(scopes') /\ Len(scopes') >= Len(scopes)
  /\ scopes'[current].kind = scopes[current].kind /\ scopes'[current].name = scopes[current].name
  /\ scopes'[current].parent = scopes[current].parent
  /\ scopes'[current].external = scopes[current].external
  /\ scopes'[current].cursor = scopes[current].cursor
  /\ \A t \in 1 .. Len(scopes) : t # current => scopes'[t] = scopes[t]
  /\ \A t \in 1 .. Len(scopes') : t > Len(scopes) => scopes'[t].cursor = 0

MemberIs(d) ==
  /\ d \in DeclType /\ d.kind \in Body \cup {"field"}
  /\ d.fields = << >> /\ d.methods = << >> /\ d.class = NoDecl
  /\ d.home \in 0 .. Len(scopes') /\ d.origin = Len(decls) + 1
  /\ d.kind = "method" => d.real \in Method

MemberStep(d) ==
  /\ phase = "parse" /\ InClass
  /\ MemberIs(d)
  /\ decls' = Append(decls, d) /\ parts' = Append(parts, Len(decls) + 1)
  /\ Grown
  /\ UNCHANGED <<current, base, classes, phase, generatorVars>>

\* No member of the class has its name; of a field, its number and its symbol.
NewMember(d) ==
  /\ d.real \in Method <=> d.kind = "method"
  /\ d.kind = "method" => d.name = Mangled[<<ClassAtHand, d.real>>]
  /\ d.kind # "constructor" => \A k \in 1 .. Len(parts) : decls[parts[k]].name # d.name
  /\ d.kind = "field" =>
       /\ d.name \in FieldName
       /\ d.index = Len(Own({"field"})) + (IF base = NoDecl THEN 0 ELSE 1)
  /\ \A n \in FieldName :
       scopes'[current].decl[n] = IF d.kind = "field" /\ n = d.name THEN Len(decls) + 1
                                  ELSE scopes[current].decl[n]

\* The fields of a declaration.
IsDecl(d, kind, name, index, fields, methods, class, real, nested, home, origin) ==
  /\ d \in DeclType
  /\ d.kind = kind /\ d.name = name /\ d.index = index /\ d.fields = fields
  /\ d.methods = methods /\ d.class = class /\ d.real = real /\ d.nested = nested
  /\ d.home = home /\ d.origin = origin

LEMMA NewDeclIs ==
  ASSUME NEW kind \in {"class", "field", "method", "constructor"}, NEW name \in Symbol \cup {"Create"}
  PROVE  IsDecl(NewDecl(kind, name), kind, name, 0, << >>, << >>, NoDecl, "", FALSE, None, NoDecl)
<1>1. PICK K, N, R, Q, q, r :
        /\ K = {"class", "field", "method", "constructor"} /\ N = Symbol \cup {"Create"}
        /\ R = Method \cup {""} /\ Q = Seq(Nat) /\ q = << >> /\ r = ""
  OBVIOUS
<1>2. kind \in K /\ name \in N /\ q \in Q /\ r \in R
  <2>1. kind \in K /\ name \in N BY <1>1, Zenon
  <2>2. q \in Q
    <3>1. << >> \in Seq(Nat) OBVIOUS
    <3> QED BY ONLY <1>1, <3>1, Zenon
  <2>3. r \in R BY ONLY <1>1, Zenon
  <2> QED BY ONLY <2>1, <2>2, <2>3
<1>3. PICK d : d = [kind |-> kind, name |-> name, index |-> 0, fields |-> q, methods |-> q,
                    class |-> NoDecl, real |-> r, nested |-> FALSE, home |-> None,
                    origin |-> NoDecl]
  OBVIOUS
<1>4. d \in [kind : K, name : N, index : Nat, fields : Q, methods : Q, class : Nat,
             real : R, nested : BOOLEAN, home : Nat, origin : Nat]
  BY ONLY <1>2, <1>3 DEF NoDecl, None
<1>5. d \in DeclType BY ONLY <1>1, <1>4, Zenon DEF DeclType
<1>6. /\ d.kind = kind /\ d.name = name /\ d.index = 0 /\ d.fields = q
      /\ d.methods = q /\ d.class = NoDecl /\ d.real = r /\ d.nested = FALSE
      /\ d.home = None /\ d.origin = NoDecl
  BY ONLY <1>3
<1>7. d = NewDecl(kind, name) BY ONLY <1>1, <1>3, ZenonT(40) DEF NewDecl
<1> QED BY ONLY <1>1, <1>5, <1>6, <1>7, Zenon DEF IsDecl

\* Declarations that differ from d in something.
LEMMA DeclWith ==
  ASSUME NEW d \in DeclType
  PROVE  /\ \A i \in Nat :
              IsDecl([d EXCEPT !.index = i], d.kind, d.name, i, d.fields, d.methods, d.class,
                     d.real, d.nested, d.home, d.origin)
         /\ \A o \in Nat :
              IsDecl([d EXCEPT !.origin = o], d.kind, d.name, d.index, d.fields, d.methods,
                     d.class, d.real, d.nested, d.home, o)
         /\ \A h \in Nat :
              IsDecl([d EXCEPT !.home = h], d.kind, d.name, d.index, d.fields, d.methods,
                     d.class, d.real, d.nested, h, d.origin)
         /\ \A r \in Method \cup {""}, b \in BOOLEAN, h \in Nat :
              IsDecl([d EXCEPT !.real = r, !.nested = b, !.home = h], d.kind, d.name, d.index,
                     d.fields, d.methods, d.class, r, b, h, d.origin)
         /\ \A n \in Symbol \cup {"Create"}, h \in Nat :
              IsDecl([d EXCEPT !.name = n, !.home = h], d.kind, n, d.index, d.fields, d.methods,
                     d.class, d.real, d.nested, h, d.origin)
         /\ \A c \in Nat :
              IsDecl([d EXCEPT !.class = c], d.kind, d.name, d.index, d.fields, d.methods,
                     c, d.real, d.nested, d.home, d.origin)
         /\ \A f, m \in Seq(Nat) :
              IsDecl([d EXCEPT !.fields = f, !.methods = m], d.kind, d.name, d.index, f, m,
                     d.class, d.real, d.nested, d.home, d.origin)
         /\ \A c \in Nat, f, m \in Seq(Nat) :
              IsDecl([d EXCEPT !.class = c, !.fields = f, !.methods = m], d.kind, d.name,
                     d.index, f, m, c, d.real, d.nested, d.home, d.origin)
<1>1. \A i \in Nat :
              IsDecl([d EXCEPT !.index = i], d.kind, d.name, i, d.fields, d.methods, d.class,
                     d.real, d.nested, d.home, d.origin)
  BY Zenon DEF IsDecl, DeclType
<1>2. \A o \in Nat :
              IsDecl([d EXCEPT !.origin = o], d.kind, d.name, d.index, d.fields, d.methods,
                     d.class, d.real, d.nested, d.home, o)
  BY Zenon DEF IsDecl, DeclType
<1>3. \A h \in Nat :
              IsDecl([d EXCEPT !.home = h], d.kind, d.name, d.index, d.fields, d.methods,
                     d.class, d.real, d.nested, h, d.origin)
  BY Zenon DEF IsDecl, DeclType
<1>4. ASSUME NEW r \in Method \cup {""}, NEW b \in BOOLEAN, NEW h \in Nat
      PROVE  IsDecl([d EXCEPT !.real = r, !.nested = b, !.home = h], d.kind, d.name, d.index,
                    d.fields, d.methods, d.class, r, b, h, d.origin)
  <2>1. PICK e : e = [d EXCEPT !.real = r, !.nested = b, !.home = h] OBVIOUS
  <2>2. e \in DeclType BY <2>1, Zenon DEF DeclType
  <2>3. /\ e.kind = d.kind /\ e.name = d.name /\ e.index = d.index /\ e.fields = d.fields
        /\ e.methods = d.methods /\ e.class = d.class /\ e.origin = d.origin
    BY <2>1, Zenon DEF DeclType
  <2>4. e.real = r /\ e.nested = b /\ e.home = h BY <2>1, Zenon DEF DeclType
  <2> QED BY ONLY <2>1, <2>2, <2>3, <2>4, Zenon DEF IsDecl
<1>5. \A n \in Symbol \cup {"Create"}, h \in Nat :
              IsDecl([d EXCEPT !.name = n, !.home = h], d.kind, n, d.index, d.fields, d.methods,
                     d.class, d.real, d.nested, h, d.origin)
  BY Zenon DEF IsDecl, DeclType
<1>6. \A c \in Nat :
              IsDecl([d EXCEPT !.class = c], d.kind, d.name, d.index, d.fields, d.methods,
                     c, d.real, d.nested, d.home, d.origin)
  BY Zenon DEF IsDecl, DeclType
<1>7. \A f, m \in Seq(Nat) :
              IsDecl([d EXCEPT !.fields = f, !.methods = m], d.kind, d.name, d.index, f, m,
                     d.class, d.real, d.nested, d.home, d.origin)
  BY Zenon DEF IsDecl, DeclType
<1>8. ASSUME NEW c \in Nat, NEW f \in Seq(Nat), NEW m \in Seq(Nat)
      PROVE  IsDecl([d EXCEPT !.class = c, !.fields = f, !.methods = m], d.kind, d.name,
                    d.index, f, m, c, d.real, d.nested, d.home, d.origin)
  <2>1. PICK e : e = [d EXCEPT !.class = c, !.fields = f, !.methods = m] OBVIOUS
  <2>2. e \in DeclType BY <2>1, Zenon DEF DeclType
  <2>3. /\ e.kind = d.kind /\ e.name = d.name /\ e.index = d.index /\ e.real = d.real
        /\ e.nested = d.nested /\ e.home = d.home /\ e.origin = d.origin
    BY <2>1, Zenon DEF DeclType
  <2>4. e.class = c /\ e.fields = f /\ e.methods = m BY <2>1, Zenon DEF DeclType
  <2> QED BY ONLY <2>1, <2>2, <2>3, <2>4 DEF IsDecl
<1> QED BY ONLY <1>1, <1>2, <1>3, <1>4, <1>5, <1>6, <1>7, <1>8

LEMMA OwnCounted ==
  ASSUME CInv, NEW kinds
  PROVE  /\ Own(kinds) \in Seq(1 .. Len(decls)) /\ Len(Own(kinds)) \in Nat
         /\ \A i \in 1 .. Len(Own(kinds)) :
              /\ Own(kinds)[i] \in 1 .. Len(decls) /\ decls[Own(kinds)[i]].kind \in kinds
              /\ \E k \in 1 .. Len(parts) : parts[k] = Own(kinds)[i]
<1>1. PICK T, s, A, t : /\ T = 1 .. Len(decls) /\ s = parts /\ A = DeclOf(kinds)
                        /\ t = Among(s, A)
  OBVIOUS
<1>2. s \in Seq(T) BY <1>1, HeapFacts
<1>3. Among(s, A) \in Seq(T) /\ \E h : Picks(s, A, Among(s, A), h) BY ONLY <1>2, AmongPicks
<1>4. PICK h : Picks(s, A, t, h) BY ONLY <1>1, <1>3
<1>5. t \in Seq(T) BY ONLY <1>1, <1>3
<1>6. Len(t) \in Nat /\ \A i \in 1 .. Len(t) : t[i] \in T BY ONLY <1>5
<1>7. \A i \in 1 .. Len(t) : h[i] \in 1 .. Len(s) /\ t[i] = s[h[i]] /\ t[i] \in A
  BY <1>4 DEF Picks
<1>8. t = Own(kinds) BY <1>1 DEF Own
<1>9. \A i \in 1 .. Len(t) : decls[t[i]].kind \in kinds BY <1>1, <1>7 DEF DeclOf
<1>10. \A i \in 1 .. Len(t) : \E k \in 1 .. Len(parts) : parts[k] = t[i] BY ONLY <1>1, <1>7
<1> QED BY ONLY <1>1, <1>5, <1>6, <1>8, <1>9, <1>10

LEMMA FieldIsMember ==
  ASSUME CInv, NEW n \in FieldName, ParseField(n)
  PROVE  \E d : /\ MemberStep(d) /\ d.kind = "field" /\ NewMember(d)
                /\ Len(scopes') = Len(scopes)
                /\ scopes'[current].children = scopes[current].children
<1>1. PICK id \in Nat : id = Len(decls) + 1
  <2>1. Len(decls) \in Nat BY HeapFacts
  <2> QED BY ONLY <2>1
<1>2. PICK i \in Nat : i = Len(Own({"field"})) + (IF base = NoDecl THEN 0 ELSE 1)
  <2>1. Len(Own({"field"})) \in Nat BY OwnCounted
  <2> QED BY ONLY <2>1
<1>3. n \in Symbol \cup {"Create"}
  BY ClassesAssumption, Zenon DEF ClassesAssumption, Symbol
<1>4. PICK kind : kind = "field" /\ kind \in {"class", "field", "method", "constructor"} OBVIOUS
<1>5. PICK e, f, d : /\ e = NewDecl(kind, n) /\ f = [e EXCEPT !.index = i]
                     /\ d = [f EXCEPT !.origin = id]
  OBVIOUS
<1>6. /\ d \in DeclType /\ d.kind = "field" /\ d.fields = << >> /\ d.methods = << >>
      /\ d.class = NoDecl /\ d.home = None /\ d.origin = id /\ d.real = "" /\ d.name = n
      /\ d.index = i
  <2>1. IsDecl(NewDecl(kind, n), kind, n, 0, << >>, << >>, NoDecl, "", FALSE, None, NoDecl)
    BY ONLY <1>3, <1>4, NewDeclIs, Zenon
  <2>2. e \in DeclType BY ONLY <1>5, <2>1, Zenon DEF IsDecl
  <2>3. IsDecl(f, e.kind, e.name, i, e.fields, e.methods, e.class, e.real, e.nested, e.home,
               e.origin)
    BY ONLY <1>5, <2>2, i \in Nat, DeclWith
  <2>4. f \in DeclType BY ONLY <2>3 DEF IsDecl
  <2>5. IsDecl(d, f.kind, f.name, f.index, f.fields, f.methods, f.class, f.real, f.nested,
               f.home, id)
    BY ONLY <1>5, <2>4, id \in Nat, DeclWith
  <2> QED BY ONLY <1>4, <1>5, <2>1, <2>3, <2>5, ZenonT(40) DEF IsDecl
<1>7. /\ phase = "parse" /\ InClass /\ decls' = Append(decls, d) /\ parts' = Append(parts, id)
      /\ scopes' = AddDecl(scopes, current, n, id)
      /\ UNCHANGED <<current, base, classes, phase, generatorVars>>
  BY <1>1, <1>2, <1>4, <1>5 DEF ReadMember, ParseField
<1>8. DeclAdded(scopes, current, n, id, scopes')
  <2>1. PICK sc, s, sc2 : sc = scopes /\ s = current /\ sc2 = scopes' OBVIOUS
  <2>2. IsTree(sc) /\ s \in 1 .. Len(sc) BY <2>1, TreeFacts, HeapFacts
  <2>3. sc2 = AddDecl(sc, s, n, id) BY <1>7, <2>1
  <2>4. DeclAdded(sc, s, n, id, sc2) BY ONLY <2>2, <2>3, id \in Nat, AddDeclIs
  <2> QED BY ONLY <2>1, <2>4
<1>9. Len(scopes) \in Nat /\ current \in 1 .. Len(scopes) BY TreeFacts, HeapFacts
<1>10. Len(scopes') = Len(scopes) /\ scopes'[current].children = scopes[current].children
  BY ONLY <1>8 DEF DeclAdded, IsScope
<1>11. Grown BY ONLY <1>8, <1>9 DEF DeclAdded, IsScope, Grown
<1>12. MemberIs(d)
  <2>1. "field" # "method" OBVIOUS
  <2>2. d.home = 0 BY ONLY <1>6 DEF None
  <2>3. 0 \in 0 .. Len(scopes') BY ONLY <1>9, <1>10
  <2> QED BY ONLY <1>1, <1>6, <2>1, <2>2, <2>3 DEF MemberIs
<1>13. MemberStep(d) BY ONLY <1>1, <1>7, <1>11, <1>12 DEF MemberStep
<1>14. NewMember(d)
  <2>1. d.real \notin Method BY ONLY <1>6, ClassesAssumption DEF ClassesAssumption
  <2>2. \A k \in 1 .. Len(parts) : decls[parts[k]].name # d.name
    BY ONLY <1>6, ParseField(n) DEF ParseField
  <2>3. ASSUME NEW x \in FieldName
        PROVE  scopes'[current].decl[x] = IF x = n THEN id ELSE scopes[current].decl[x]
    <3>1. PICK symbols : symbols = scopes[current].decl OBVIOUS
    <3>2. symbols \in [Symbol -> Nat]
      <4>1. IsTree(scopes) /\ current \in 1 .. Len(scopes) BY <1>9, TreeFacts
      <4> QED BY <3>1, <4>1, ScopeFields
    <3>3. x \in Symbol /\ n \in Symbol BY ClassesAssumption, Zenon DEF ClassesAssumption, Symbol
    <3>4. scopes'[current].decl = [symbols EXCEPT ![n] = id] BY ONLY <1>8, <3>1 DEF DeclAdded, IsScope
    <3>5. scopes'[current].decl[x] = IF x = n THEN id ELSE symbols[x] BY ONLY <3>2, <3>3, <3>4
    <3> QED BY ONLY <3>1, <3>5
  <2>4. "field" # "method" /\ "field" # "constructor" OBVIOUS
  <2>5. d.index = Len(Own({"field"})) + (IF base = NoDecl THEN 0 ELSE 1) BY ONLY <1>2, <1>6
  <2> QED BY ONLY <1>1, <1>6, <2>1, <2>2, <2>3, <2>4, <2>5, n \in FieldName DEF NewMember
<1> QED BY ONLY <1>6, <1>10, <1>13, <1>14

LEMMA BodyGrown ==
  ASSUME CInv, NEW name, NEW nested \in BOOLEAN, BodyMade(scopes, current, name, nested, scopes')
  PROVE  Grown /\ Len(scopes) + 1 \in 1 .. Len(scopes')
<1>1. PICK n \in Nat : n = Len(scopes) BY TreeFacts
<1>2. Len(scopes') = n + 1 + (IF nested THEN 1 ELSE 0) BY <1>1 DEF BodyMade
<1>3. Len(scopes') >= n /\ n + 1 \in 1 .. Len(scopes') BY ONLY <1>2, n \in Nat
<1>4. scopes'[n + 1].cursor = 0 /\ (nested => scopes'[n + 1 + 1].cursor = 0)
  BY <1>1 DEF BodyMade
<1>5. ASSUME NEW t \in 1 .. Len(scopes'), t > n PROVE scopes'[t].cursor = 0
  <2>1. t = n + 1 \/ (nested /\ t = n + 1 + 1)
    BY ONLY <1>2, <1>5, n \in Nat, nested \in BOOLEAN
  <2> QED BY ONLY <1>4, <2>1
<1> QED BY ONLY <1>1, <1>3, <1>5, BodyMade(scopes, current, name, nested, scopes')
  DEF BodyMade, Grown

LEMMA BodyRead ==
  ASSUME CInv, phase = "parse", InClass, NEW d \in DeclType, d.kind \in Body,
         d.kind = "method" => d.real \in Method, d.fields = << >>, d.methods = << >>,
         d.class = NoDecl, d.home = Len(scopes) + 1, d.origin = Len(decls) + 1,
         BodyMade(scopes, current, d.name, d.nested, scopes'),
         decls' = Append(decls, d), parts' = Append(parts, Len(decls) + 1),
         UNCHANGED <<current, base, classes, phase, generatorVars>>
  PROVE  MemberStep(d)
<1>1. d.nested \in BOOLEAN BY Zenon DEF DeclType
<1>2. Grown /\ Len(scopes) + 1 \in 1 .. Len(scopes') BY <1>1, BodyGrown
<1>3. d.home \in 0 .. Len(scopes') BY <1>2
<1>4. MemberIs(d) BY <1>3 DEF MemberIs
<1> QED BY <1>2, <1>4 DEF MemberStep

LEMMA MethodIsMember ==
  ASSUME CInv, NEW m \in Method, NEW nested \in BOOLEAN, ParseMethod(m, nested)
  PROVE  \E d : /\ MemberStep(d) /\ d.kind \in Body /\ d.home = Len(scopes) + 1 /\ NewMember(d)
                /\ BodyMade(scopes, current, d.name, d.nested, scopes')
<1>1. PICK id \in Nat : id = Len(decls) + 1
  <2>1. Len(decls) \in Nat BY HeapFacts
  <2> QED BY ONLY <2>1
<1>2. PICK h \in Nat : h = Len(scopes) + 1
  <2>1. Len(scopes) \in Nat BY TreeFacts
  <2> QED BY ONLY <2>1
<1>3. PICK name : name = Mangled[<<ClassAtHand, m>>] OBVIOUS
<1>4. ReadMember(AddDecl(WithBody(scopes, name, nested), current, name, id),
                 [NewDecl("method", name) EXCEPT !.real = m, !.nested = nested, !.home = h])
      /\ InClass
  BY <1>1, <1>2, <1>3 DEF ParseMethod
<1>5. name \in MethodName
  <2>1. ClassAtHand = ClassName[Len(Row)] /\ Len(Row) \in 1 .. Len(ClassName)
    <3>1. current = Row[Len(Row)] BY <1>4 DEF CInv, Rows
    <3>2. Len(Row) >= 1 BY <1>4, TreeFacts, HeapFacts
    <3>3. Len(Row) \in Nat /\ Len(Row) <= Len(ClassName) BY TreeFacts
    <3>4. Len(Row) \in 1 .. Len(Row) BY <3>2, <3>3
    <3>5. scopes[Row[Len(Row)]].name = ClassName[Len(Row)] BY <3>4, TreeFacts
    <3> QED BY <3>1, <3>2, <3>3, <3>5, ClassNames DEF ClassAtHand
  <2>2. ClassAtHand \in VarName BY <2>1, ClassNames
  <2>3. Mangled \in [VarName \X Method -> MethodName] BY ClassesAssumption, Zenon DEF ClassesAssumption
  <2> QED BY <1>3, <2>2, <2>3
<1>6. name \in Symbol \cup {"Create"} /\ name \in Name BY <1>5 DEF Name, Symbol
<1>7. PICK kind : kind = "method" /\ kind \in {"class", "field", "method", "constructor"} OBVIOUS
<1>8. PICK e, f, d : /\ e = NewDecl(kind, name)
                     /\ f = [e EXCEPT !.real = m, !.nested = nested, !.home = h]
                     /\ d = [f EXCEPT !.origin = id]
  OBVIOUS
<1>9. /\ d \in DeclType /\ d.kind = kind /\ d.fields = << >> /\ d.methods = << >>
      /\ d.class = NoDecl /\ d.home = h /\ d.origin = id /\ d.real = m /\ d.name = name
      /\ d.nested = nested
  <2>1. IsDecl(NewDecl(kind, name), kind, name, 0, << >>, << >>, NoDecl, "", FALSE, None, NoDecl)
    BY ONLY <1>6, <1>7, NewDeclIs, Zenon
  <2>2. e \in DeclType BY ONLY <1>8, <2>1, ZenonT(40) DEF IsDecl
  <2>3. IsDecl(f, e.kind, e.name, e.index, e.fields, e.methods, e.class, m, nested, h, e.origin)
    <3>1. m \in Method \cup {""} OBVIOUS
    <3> QED BY ONLY <1>8, <2>2, <3>1, nested \in BOOLEAN, h \in Nat, DeclWith, ZenonT(40)
  <2>4. f \in DeclType BY ONLY <2>3 DEF IsDecl
  <2>5. IsDecl(d, f.kind, f.name, f.index, f.fields, f.methods, f.class, f.real, f.nested,
               f.home, id)
    BY ONLY <1>8, <2>4, id \in Nat, DeclWith
  <2> QED BY ONLY <1>8, <2>1, <2>3, <2>5, Zenon DEF IsDecl
<1>10. /\ phase = "parse" /\ InClass /\ decls' = Append(decls, d) /\ parts' = Append(parts, id)
       /\ scopes' = AddDecl(WithBody(scopes, name, nested), current, name, id)
       /\ UNCHANGED <<current, base, classes, phase, generatorVars>>
  BY <1>1, <1>4, <1>7, <1>8 DEF ReadMember
<1>11. BodyMade(scopes, current, name, nested, scopes')
  <2>1. PICK sc, s, mid, sc2 : /\ sc = scopes /\ s = current /\ mid = WithBody(scopes, name, nested)
                               /\ sc2 = scopes'
    OBVIOUS
  <2>2. IsTree(sc) /\ s \in 1 .. Len(sc) BY <2>1, TreeFacts, HeapFacts
  <2>3. BodyMade(sc, current, name, nested, mid)
    <3>1. IsTree(sc) /\ current \in 1 .. Len(sc) /\ mid = WithBody(sc, name, nested)
      BY <2>1, <2>2
    <3>2. name \in Name BY <1>6
    <3> QED BY ONLY <3>1, <3>2, nested \in BOOLEAN, WithBodyIs
  <2>4. BodyMade(sc, s, name, nested, mid) BY <2>1, <2>3
  <2>5. sc2 = AddDecl(mid, s, name, id) BY <1>10, <2>1
  <2>6. BodyMade(sc, s, name, nested, sc2)
    <3>1. name \notin FieldName BY <1>5, ClassesAssumption DEF ClassesAssumption
    <3> QED BY ONLY <2>2, <2>4, <2>5, <3>1, nested \in BOOLEAN, id \in Nat, BodyAdded
  <2> QED BY ONLY <2>1, <2>6
<1>12. d.kind \in Body BY <1>7, <1>9 DEF Body
<1>13. BodyMade(scopes, current, d.name, d.nested, scopes') BY <1>9, <1>11
<1>14. MemberStep(d)
  <2>1. d.origin = Len(decls) + 1 /\ d.home = Len(scopes) + 1 BY <1>1, <1>2, <1>9
  <2>2. d.kind = "method" => d.real \in Method BY <1>9
  <2>3. d \in DeclType /\ d.fields = << >> /\ d.methods = << >> /\ d.class = NoDecl BY <1>9
  <2>4. parts' = Append(parts, Len(decls) + 1) BY <1>1, <1>10
  <2> QED BY ONLY CInv, <1>10, <1>12, <1>13, <2>1, <2>2, <2>3, <2>4, BodyRead
<1>15. NewMember(d)
  <2>1. \A k \in 1 .. Len(parts) : decls[parts[k]].name # name
    BY ONLY <1>3, ParseMethod(m, nested) DEF ParseMethod
  <2>2. \A n \in FieldName : scopes'[current].decl[n] = scopes[current].decl[n]
    BY ONLY <1>11 DEF BodyMade
  <2>3. "method" # "field" OBVIOUS
  <2> QED BY ONLY <1>3, <1>7, <1>9, <2>1, <2>2, <2>3, m \in Method DEF NewMember
<1> QED BY ONLY <1>2, <1>9, <1>12, <1>13, <1>14, <1>15

LEMMA ConstructorIsMember ==
  ASSUME CInv, ParseConstructor, InClass
  PROVE  \E d : /\ MemberStep(d) /\ d.kind \in Body /\ d.home = Len(scopes) + 1 /\ NewMember(d)
                /\ BodyMade(scopes, current, d.name, d.nested, scopes')
<1>1. PICK id \in Nat : id = Len(decls) + 1
  <2>1. Len(decls) \in Nat BY HeapFacts
  <2> QED BY ONLY <2>1
<1>2. PICK h \in Nat : h = Len(scopes) + 1
  <2>1. Len(scopes) \in Nat BY TreeFacts
  <2> QED BY ONLY <2>1
<1>3. PICK name \in Name, no \in BOOLEAN : name = "Create" /\ no = FALSE
  BY DEF Name, FixedName
<1>4. ReadMember(WithBody(scopes, name, no), [NewDecl("constructor", name) EXCEPT !.home = h])
  BY <1>1, <1>2, <1>3 DEF ParseConstructor
<1>6. name \in Symbol \cup {"Create"} BY <1>3
<1>7. PICK kind : kind = "constructor" /\ kind \in {"class", "field", "method", "constructor"}
  OBVIOUS
<1>8. PICK e, f, d : /\ e = NewDecl(kind, name) /\ f = [e EXCEPT !.home = h]
                     /\ d = [f EXCEPT !.origin = id]
  OBVIOUS
<1>9. /\ d \in DeclType /\ d.kind = kind /\ d.fields = << >> /\ d.methods = << >>
      /\ d.class = NoDecl /\ d.home = h /\ d.origin = id /\ d.name = name
      /\ d.nested = FALSE /\ d.real = ""
  <2>1. IsDecl(NewDecl(kind, name), kind, name, 0, << >>, << >>, NoDecl, "", FALSE, None, NoDecl)
    BY ONLY <1>6, <1>7, NewDeclIs, Zenon
  <2>2. e \in DeclType BY ONLY <1>8, <2>1, ZenonT(40) DEF IsDecl
  <2>3. IsDecl(f, e.kind, e.name, e.index, e.fields, e.methods, e.class, e.real, e.nested, h,
               e.origin)
    BY ONLY <1>8, <2>2, h \in Nat, DeclWith
  <2>4. f \in DeclType BY ONLY <2>3 DEF IsDecl
  <2>5. IsDecl(d, f.kind, f.name, f.index, f.fields, f.methods, f.class, f.real, f.nested,
               f.home, id)
    BY ONLY <1>8, <2>4, id \in Nat, DeclWith
  <2> QED BY ONLY <1>8, <2>1, <2>3, <2>5, Zenon DEF IsDecl
<1>10. /\ phase = "parse" /\ InClass /\ decls' = Append(decls, d) /\ parts' = Append(parts, id)
       /\ scopes' = WithBody(scopes, name, no)
       /\ UNCHANGED <<current, base, classes, phase, generatorVars>>
  BY <1>1, <1>4, <1>7, <1>8 DEF ReadMember
<1>11. BodyMade(scopes, current, name, no, scopes')
  <2>1. PICK sc, sc2 : sc = scopes /\ sc2 = scopes' OBVIOUS
  <2>2. IsTree(sc) /\ current \in 1 .. Len(sc) BY <2>1, TreeFacts, HeapFacts
  <2>3. sc2 = WithBody(sc, name, no) BY <1>10, <2>1
  <2>4. BodyMade(sc, current, name, no, sc2)
    BY ONLY <2>2, <2>3, name \in Name, no \in BOOLEAN, WithBodyIs
  <2> QED BY ONLY <2>1, <2>4
<1>12. d.kind \in Body BY <1>7, <1>9 DEF Body
<1>13. BodyMade(scopes, current, d.name, d.nested, scopes') BY <1>3, <1>9, <1>11
<1>14. MemberStep(d)
  <2>1. d.origin = Len(decls) + 1 /\ d.home = Len(scopes) + 1 BY <1>1, <1>2, <1>9
  <2>2. d.kind = "method" => d.real \in Method BY <1>7, <1>9
  <2>3. d \in DeclType /\ d.fields = << >> /\ d.methods = << >> /\ d.class = NoDecl BY <1>9
  <2>4. parts' = Append(parts, Len(decls) + 1) BY <1>1, <1>10
  <2> QED BY ONLY CInv, <1>10, <1>12, <1>13, <2>1, <2>2, <2>3, <2>4, BodyRead
<1>15. NewMember(d)
  <2>1. d.real \notin Method BY ONLY <1>9, ClassesAssumption DEF ClassesAssumption
  <2>2. \A n \in FieldName : scopes'[current].decl[n] = scopes[current].decl[n]
    BY ONLY <1>11 DEF BodyMade
  <2>3. "constructor" # "field" /\ "constructor" # "method" OBVIOUS
  <2> QED BY ONLY <1>7, <1>9, <2>1, <2>2, <2>3 DEF NewMember
<1> QED BY ONLY <1>2, <1>9, <1>12, <1>13, <1>14, <1>15

-----------------------------------------------------------------------------
(***************************************************************************)
(* The parser keeps the invariant.                                         *)
(***************************************************************************)

DeclInRange(x) ==
  /\ Elements(decls'[x].fields) \cup Elements(decls'[x].methods) \subseteq 1 .. Len(decls')
  /\ decls'[x].class \in 0 .. x - 1
  /\ decls'[x].home \in 0 .. Len(scopes')

LEMMA TypesKept ==
  ASSUME CInv, IsTree(scopes'), Len(scopes') >= Len(scopes), DeclsKept,
         decls' \in Seq(DeclType), Len(decls') >= Len(decls),
         \A x \in 1 .. Len(decls') : x > Len(decls) => DeclInRange(x),
         parts' \in Seq(1 .. Len(decls')), classes' \in Seq(1 .. Len(decls')),
         Len(classes') >= Len(classes), base' \in 0 .. Len(decls'),
         phase' \in {"parse", "codegen", "failed"}, current' \in 1 .. Len(scopes'),
         UNCHANGED generatorVars
  PROVE  TypeOK'
<1>1. cls' = cls /\ cg' = cg /\ visited' = visited BY DEF generatorVars
<1>2. PICK n \in Nat, m \in Nat, l \in Nat : n = Len(scopes) /\ m = Len(scopes') /\ l = Len(decls)
  BY TreeFacts, HeapFacts, SMTT(40) DEF IsTree
<1>3. n <= m /\ l <= Len(decls') /\ Len(decls') \in Nat /\ Len(classes') \in Nat
      /\ Len(classes) \in Nat
  BY <1>2, HeapFacts
<1>4. cg' \in 1 .. m
  <2>1. cg \in 1 .. n BY <1>2, HeapFacts
  <2> QED BY ONLY <1>1, <1>3, <2>1, n \in Nat, m \in Nat
<1>5. cls' \in 0 .. Len(classes')
  <2>1. cls \in 0 .. Len(classes) BY HeapFacts
  <2>2. Len(classes') >= Len(classes) OBVIOUS
  <2> QED BY ONLY <1>1, <1>3, <2>1, <2>2
<1>6. visited' \subseteq (1 .. Len(decls')) \X (0 .. m)
  <2>1. visited \subseteq (1 .. l) \X (0 .. n) BY <1>2, HeapFacts
  <2>2. 1 .. l \subseteq 1 .. Len(decls') /\ 0 .. n \subseteq 0 .. m
    BY ONLY <1>3, n \in Nat, m \in Nat, l \in Nat
  <2> QED BY ONLY <1>1, <2>1, <2>2
<1>7. ASSUME NEW x \in 1 .. Len(decls') PROVE DeclInRange(x)
  <2>1. CASE x > l BY <1>2, <2>1
  <2>2. CASE ~(x > l)
    <3>1. x \in 1 .. l BY ONLY <1>3, <2>2, l \in Nat, x \in 1 .. Len(decls')
    <3>2. /\ Elements(decls[x].fields) \cup Elements(decls[x].methods) \subseteq 1 .. l
          /\ decls[x].class \in 0 .. x - 1 /\ decls[x].home \in 0 .. n
      BY <1>2, <3>1, HeapFacts
    <3>3. /\ decls'[x].fields = decls[x].fields /\ decls'[x].methods = decls[x].methods
          /\ decls'[x].class = decls[x].class /\ decls'[x].home = decls[x].home
      BY <1>2, <3>1 DEF DeclsKept, SameDecl
    <3>4. 1 .. l \subseteq 1 .. Len(decls') /\ 0 .. n \subseteq 0 .. m
      BY ONLY <1>3, n \in Nat, m \in Nat, l \in Nat
    <3> QED BY ONLY <1>2, <3>2, <3>3, <3>4 DEF DeclInRange
  <2> QED BY <2>1, <2>2
<1>8. \A x \in 1 .. Len(decls') :
       /\ Elements(decls'[x].fields) \cup Elements(decls'[x].methods) \subseteq 1 .. Len(decls')
       /\ decls'[x].class \in 0 .. x - 1
       /\ decls'[x].home \in 0 .. Len(scopes')
  BY ONLY <1>7 DEF DeclInRange
<1>9. /\ IsTree(scopes') /\ decls' \in Seq(DeclType)
      /\ parts' \in Seq(1 .. Len(decls')) /\ classes' \in Seq(1 .. Len(decls'))
      /\ base' \in 0 .. Len(decls') /\ phase' \in {"parse", "codegen", "failed"}
      /\ current' \in 1 .. Len(scopes')
  OBVIOUS
<1> QED BY ONLY <1>2, <1>4, <1>5, <1>6, <1>8, <1>9 DEF TypeOK, Elements

\* What a member step does to the heap.
LEMMA MemberHeap ==
  ASSUME CInv, NEW d, MemberStep(d)
  PROVE  /\ decls' \in Seq(DeclType) /\ Len(decls') = Len(decls) + 1
         /\ decls'[Len(decls) + 1] = d /\ \A x \in 1 .. Len(decls) : decls'[x] = decls[x]
         /\ parts' \in Seq(1 .. Len(decls')) /\ Len(parts') = Len(parts) + 1
         /\ parts'[Len(parts) + 1] = Len(decls) + 1
         /\ \A k \in 1 .. Len(parts) : parts'[k] = parts[k]
         /\ DeclsKept
<1>1. d \in DeclType /\ decls' = Append(decls, d) /\ parts' = Append(parts, Len(decls) + 1)
  BY DEF MemberStep, MemberIs
<1>2. PICK l \in Nat, T \in {1 .. Len(decls)}, U \in {1 .. Len(decls) + 1} :
        l = Len(decls) /\ T = 1 .. l /\ U = 1 .. l + 1
  BY HeapFacts
<1>3. decls \in Seq(DeclType) /\ parts \in Seq(T) BY <1>2, HeapFacts
<1>4. /\ decls' \in Seq(DeclType) /\ Len(decls') = l + 1
      /\ decls'[l + 1] = d /\ \A x \in 1 .. l : decls'[x] = decls[x]
  <2>1. /\ Append(decls, d) \in Seq(DeclType) /\ Len(Append(decls, d)) = Len(decls) + 1
        /\ Append(decls, d)[Len(decls) + 1] = d
        /\ \A i \in 1 .. Len(decls) : Append(decls, d)[i] = decls[i]
    <3>1. decls \in Seq(DeclType) /\ d \in DeclType BY <1>1, <1>3
    <3> QED BY ONLY <3>1, AppendFacts
  <2> QED BY ONLY <1>1, <1>2, <2>1
<1>5. /\ parts' \in Seq(U) /\ Len(parts') = Len(parts) + 1
      /\ parts'[Len(parts) + 1] = l + 1
      /\ \A k \in 1 .. Len(parts) : parts'[k] = parts[k]
  <2>1. T \subseteq U /\ l + 1 \in U BY ONLY <1>2, l \in Nat
  <2>2. parts \in Seq(U) BY ONLY <1>3, <2>1
  <2>3. /\ Append(parts, l + 1) \in Seq(U) /\ Len(Append(parts, l + 1)) = Len(parts) + 1
        /\ Append(parts, l + 1)[Len(parts) + 1] = l + 1
        /\ \A i \in 1 .. Len(parts) : Append(parts, l + 1)[i] = parts[i]
    BY ONLY <2>1, <2>2, AppendFacts
  <2> QED BY ONLY <1>1, <1>2, <2>3
<1>6. DeclsKept BY ONLY <1>2, <1>4 DEF DeclsKept, SameDecl
<1> QED BY ONLY <1>2, <1>4, <1>5, <1>6

LEMMA MemberTypes ==
  ASSUME CInv, NEW d, MemberStep(d)
  PROVE  TypeOK' /\ MethodsNamed' /\ ClassesRead' /\ PartsRead'
<1>1. PICK l \in Nat : l = Len(decls) BY HeapFacts
<1>2. /\ decls' \in Seq(DeclType) /\ Len(decls') = l + 1
      /\ decls'[l + 1] = d /\ (\A x \in 1 .. l : decls'[x] = decls[x])
      /\ parts' \in Seq(1 .. Len(decls')) /\ Len(parts') = Len(parts) + 1
      /\ parts'[Len(parts) + 1] = l + 1
      /\ (\A k \in 1 .. Len(parts) : parts'[k] = parts[k])
      /\ DeclsKept
  BY <1>1, MemberHeap
<1>3. /\ classes' = classes /\ base' = base /\ phase' = phase /\ current' = current
      /\ UNCHANGED generatorVars /\ phase = "parse" /\ InClass
  BY DEF MemberStep
<1>4. IsTree(scopes') /\ Len(scopes') >= Len(scopes) BY DEF MemberStep, Grown
<1>5. \A x \in 1 .. l + 1 : x \in 1 .. l \/ x = l + 1 BY ONLY l \in Nat
<1>6. /\ d.fields = << >> /\ d.methods = << >> /\ d.class = 0 /\ d.home \in 0 .. Len(scopes')
      /\ d.origin = l + 1 /\ d.kind \in Body \cup {"field"} /\ d.kind # "class"
      /\ (d.kind = "method" => d.real \in Method)
  BY <1>1 DEF MemberStep, MemberIs, NoDecl, Body
<1>7. TypeOK'
  <2>1. \A x \in 1 .. Len(decls') : x > Len(decls) => DeclInRange(x)
    <3> SUFFICES ASSUME NEW x \in 1 .. Len(decls'), x > Len(decls) PROVE DeclInRange(x)
      OBVIOUS
    <3>1. x = l + 1 BY <1>1, <1>2
    <3>2. Elements(<< >>) = {} BY DEF Elements
    <3>3. 0 \in 0 .. x - 1 BY <3>1
    <3> QED BY ONLY <1>2, <1>6, <3>1, <3>2, <3>3 DEF DeclInRange
  <2>2. classes' \in Seq(1 .. Len(decls'))
    <3>1. PICK T, U : T = 1 .. l /\ U = 1 .. Len(decls') OBVIOUS
    <3>2. classes \in Seq(T) BY <1>1, <3>1, HeapFacts
    <3>3. T \subseteq U BY ONLY <1>2, <3>1, l \in Nat
    <3>4. classes \in Seq(U) BY ONLY <3>2, <3>3
    <3> QED BY ONLY <1>3, <3>1, <3>4
  <2>3. base' \in 0 .. Len(decls') /\ Len(classes') >= Len(classes) /\ Len(decls') >= Len(decls)
    BY <1>1, <1>2, <1>3, HeapFacts
  <2>4. current' \in 1 .. Len(scopes')
    <3>1. current \in 1 .. Len(scopes) /\ Len(scopes) \in Nat BY TreeFacts, HeapFacts
    <3>2. Len(scopes') \in Nat BY <1>4 DEF IsTree
    <3> QED BY ONLY <1>3, <1>4, <3>1, <3>2
  <2>5. phase' \in {"parse", "codegen", "failed"} BY <1>3
  <2> QED BY ONLY CInv, <1>2, <1>3, <1>4, <2>1, <2>2, <2>3, <2>4, <2>5, TypesKept
<1>8. MethodsNamed'
  <2>1. \A x \in 1 .. l :
          decls[x].origin <= x /\ (decls[x].kind = "method" => decls[x].real \in Method)
    BY <1>1, HeapFacts
  <2>2. l + 1 <= l + 1 OBVIOUS
  <2>3. \A x \in 1 .. l + 1 :
          decls'[x].origin <= x /\ (decls'[x].kind = "method" => decls'[x].real \in Method)
    BY ONLY <1>2, <1>5, <1>6, <2>1, <2>2
  <2> QED BY ONLY <1>2, <2>3 DEF MethodsNamed
<1>9. ClassesRead'
  <2>1. \A k \in 1 .. Len(classes) : decls'[classes[k]] = decls[classes[k]]
    BY <1>1, <1>2, HeapFacts
  <2>2. ClassesRead BY DEF CInv
  <2> QED BY ONLY <1>3, <2>1, <2>2 DEF ClassesRead
<1>10. PartsRead'
  <2>1. /\ base # NoDecl => \E j \in 1 .. Len(classes) : classes[j] = base
        /\ \A k \in 1 .. Len(parts) :
             /\ decls[parts[k]].kind \in Body \cup {"field"}
             /\ decls[parts[k]].origin = parts[k]
    BY <1>3 DEF CInv, PartsRead
  <2>2. Len(parts) \in Nat /\ \A k \in 1 .. Len(parts) : parts[k] \in 1 .. l
    BY <1>1, HeapFacts
  <2>3. \A k \in 1 .. Len(parts) + 1 : k \in 1 .. Len(parts) \/ k = Len(parts) + 1
    BY ONLY <2>2
  <2>4. \A k \in 1 .. Len(parts) + 1 :
          /\ decls'[parts'[k]].kind \in Body \cup {"field"}
          /\ decls'[parts'[k]].origin = parts'[k]
    BY ONLY <1>2, <1>6, <2>1, <2>2, <2>3
  <2> QED BY ONLY <1>2, <1>3, <2>1, <2>4 DEF PartsRead
<1> QED BY ONLY <1>7, <1>8, <1>9, <1>10

LEMMA AtHand ==
  ASSUME CInv, InClass
  PROVE  /\ Len(Row) = Len(classes) + 1 /\ Len(classes) \in Nat
         /\ current = Row[Len(classes) + 1]
         /\ current \in 1 .. Len(scopes) /\ current # Module /\ scopes[current].kind = "class"
         /\ scopes[current].name = ClassName[Len(classes) + 1]
         /\ Len(classes) + 1 \in 1 .. Len(ClassName)
         /\ \A k \in 1 .. Len(Row) : k \in 1 .. Len(classes) \/ k = Len(classes) + 1
         /\ \A k \in 1 .. Len(classes) : k \in 1 .. Len(Row) /\ Row[k] # current
<1>1. PICK l \in Nat : l = Len(classes) BY HeapFacts
<1>2. Len(Row) = l + 1 /\ current = Row[l + 1] /\ l + 1 <= Len(ClassName)
  BY <1>1, TreeFacts DEF CInv, Rows
<1>3. l + 1 \in 1 .. l + 1 /\ \A k \in 1 .. l : k \in 1 .. l + 1 /\ k # l + 1 BY ONLY l \in Nat
<1>4. current \in 1 .. Len(scopes) /\ current # Module /\ scopes[current].kind = "class"
      /\ scopes[current].name = ClassName[l + 1]
  BY <1>2, <1>3, TreeFacts
<1>5. \A k \in 1 .. l : Row[k] # current BY <1>2, <1>3, TreeFacts
<1>6. \A k \in 1 .. l + 1 : k \in 1 .. l \/ k = l + 1 BY ONLY l \in Nat
<1>7. l + 1 \in 1 .. Len(ClassName) BY <1>2, ClassNames
<1> QED BY ONLY <1>1, <1>2, <1>3, <1>4, <1>5, <1>6, <1>7

LEMMA GrownKeeps ==
  ASSUME CInv, InClass, Grown
  PROVE  /\ LoopsKept /\ scopes'[Module] = scopes[Module]
         /\ \A k \in 1 .. Len(classes) : KidsKept(Row[k]) /\ scopes'[Row[k]] = scopes[Row[k]]
         /\ \A i \in 1 .. Len(Kids(current)) :
              /\ Kids(current)[i] \in 1 .. Len(scopes)
              /\ scopes'[Kids(current)[i]] = scopes[Kids(current)[i]]
<1>1. PICK n \in Nat : n = Len(scopes) BY TreeFacts
<1>2. \A t \in 1 .. n : t # current => scopes'[t] = scopes[t] BY <1>1 DEF Grown
<1>3. scopes[current].kind = "class" /\ current # Module BY AtHand
<1>4. \A t \in 1 .. n : scopes[t].kind = "loop" \/ scopes[t].kind = "method" => scopes'[t] = scopes[t]
  BY ONLY <1>2, <1>3
<1>5. Len(scopes') >= n /\ Len(scopes') \in Nat BY <1>1 DEF Grown, IsTree
<1>6. \A t : scopes'[t] = scopes[t] => Alike(scopes[t], scopes'[t]) BY DEF Alike
<1>7. LoopsKept BY ONLY <1>1, <1>4, <1>5, <1>6 DEF LoopsKept
<1>8. scopes'[Module] = scopes[Module]
  <2>1. Module \in 1 .. n BY <1>1, TreeFacts
  <2> QED BY ONLY <1>2, <1>3, <2>1
<1>9. ASSUME NEW k \in 1 .. Len(Row), NEW i \in 1 .. Len(Kids(Row[k]))
      PROVE  Kids(Row[k])[i] \in 1 .. n /\ scopes'[Kids(Row[k])[i]] = scopes[Kids(Row[k])[i]]
  <2>1. Row[k] \in 1 .. Len(scopes) BY TreeFacts
  <2>2. Kids(Row[k])[i] \in 1 .. n /\ scopes[Kids(Row[k])[i]].kind = "method"
    BY <1>1, <2>1, TreeFacts
  <2> QED BY ONLY <1>4, <2>2
<1>10. ASSUME NEW k \in 1 .. Len(classes) PROVE KidsKept(Row[k]) /\ scopes'[Row[k]] = scopes[Row[k]]
  <2>1. k \in 1 .. Len(Row) /\ Row[k] # current BY AtHand
  <2>2. Row[k] \in 1 .. n BY <1>1, <2>1, TreeFacts
  <2>3. scopes'[Row[k]] = scopes[Row[k]] BY ONLY <1>2, <2>1, <2>2
  <2> QED BY ONLY <1>6, <1>9, <2>1, <2>3 DEF KidsKept
<1>11. Len(classes) + 1 \in 1 .. Len(Row) /\ current = Row[Len(classes) + 1] BY AtHand
<1> QED BY ONLY <1>1, <1>7, <1>8, <1>9, <1>10, <1>11

\* The class at hand got at most one scope of a member function.
OneKid ==
  \/ scopes'[current].children = Kids(current)
  \/ /\ scopes'[current].children = Append(Kids(current), Len(scopes) + 1)
     /\ scopes'[Len(scopes) + 1].kind = "method"

LEMMA OneKidMore ==
  ASSUME CInv, InClass, Grown, OneKid
  PROVE  \A i \in 1 .. Len(Kids(current)) :
           i \in 1 .. Len(scopes'[current].children) /\ scopes'[current].children[i] = Kids(current)[i]
<1>1. PICK c \in Seq(Nat) : c = Kids(current) BY TreeFacts, AtHand
<1>2. PICK n \in Nat : n = Len(scopes) BY TreeFacts
<1>3. CASE scopes'[current].children = c BY ONLY <1>1, <1>3
<1>4. CASE scopes'[current].children = Append(c, n + 1)
  <2>1. Len(Append(c, n + 1)) = Len(c) + 1 /\ \A i \in 1 .. Len(c) : Append(c, n + 1)[i] = c[i]
    BY ONLY n + 1 \in Nat, c \in Seq(Nat), AppendFacts
  <2>2. Len(c) \in Nat BY ONLY c \in Seq(Nat)
  <2> QED BY ONLY <1>1, <1>4, <2>1, <2>2
<1> QED BY ONLY <1>1, <1>2, <1>3, <1>4, OneKid DEF OneKid

LEMMA MemberScopes ==
  ASSUME CInv, NEW d, MemberStep(d), OneKid
  PROVE  /\ Rows' /\ KidsAreMethods' /\ KidsApart' /\ ClassesLined' /\ BaseCopied'
         /\ Still' /\ InStep'
<1>1. /\ classes' = classes /\ base' = base /\ phase' = phase /\ current' = current
      /\ cls' = cls /\ cg' = cg /\ visited' = visited /\ phase = "parse" /\ InClass /\ Grown
  BY DEF MemberStep, generatorVars
<1>2. IsTree(scopes') /\ Len(scopes') >= Len(scopes) BY <1>1 DEF Grown
<1>3. Len(scopes') \in Nat BY <1>2 DEF IsTree
<1>4. /\ LoopsKept /\ scopes'[Module] = scopes[Module]
      /\ (\A k \in 1 .. Len(classes) : KidsKept(Row[k]) /\ scopes'[Row[k]] = scopes[Row[k]])
      /\ \A i \in 1 .. Len(Kids(current)) :
              /\ Kids(current)[i] \in 1 .. Len(scopes)
              /\ scopes'[Kids(current)[i]] = scopes[Kids(current)[i]]
  BY <1>1, GrownKeeps
<1>5. DeclsKept BY MemberHeap
<1>6. PICK l \in Nat : l = Len(classes) BY HeapFacts
<1>7. /\ Len(Row) = l + 1 /\ current = Row[l + 1]
      /\ (\A k \in 1 .. Len(Row) : k \in 1 .. l \/ k = l + 1)
      /\ scopes[current].kind = "class" /\ current # Module
  BY <1>1, <1>6, AtHand
<1>8. /\ scopes'[current].kind = scopes[current].kind /\ scopes'[current].name = scopes[current].name
      /\ scopes'[current].parent = scopes[current].parent
      /\ scopes'[current].external = scopes[current].external
      /\ scopes'[current].cursor = scopes[current].cursor
  BY <1>1 DEF Grown
<1>9. Rows'
  <2>1. ASSUME NEW k \in 1 .. Len(Row)
        PROVE  /\ scopes'[Row[k]].kind = "class" /\ ~scopes'[Row[k]].external
               /\ scopes'[Row[k]].name = scopes[Row[k]].name
               /\ scopes'[Row[k]].parent = scopes[Row[k]].parent
    <3>1. scopes[Row[k]].kind = "class" /\ ~scopes[Row[k]].external BY TreeFacts
    <3> QED BY ONLY <1>4, <1>6, <1>7, <1>8, <3>1, k \in 1 .. Len(Row)
  <2>2. Len(Row) = Len(classes') + (IF current' # Module THEN 1 ELSE 0) BY <1>1, <1>6, <1>7
  <2>3. current' # Module => InClass /\ current' = current /\ phase' = "parse" BY <1>1
  <2>4. scopes'[Module].kind = scopes[Module].kind /\ scopes'[Module].children = scopes[Module].children
    BY <1>4
  <2> QED BY ONLY CInv, <1>2, <1>3, <2>1, <2>2, <2>3, <2>4, RowsKept
<1>10. PICK n \in Nat, r \in {Row}, c \in {Kids(current)} :
         n = Len(scopes) /\ r = Row /\ c = Kids(current)
  BY TreeFacts
<1>11. c \in Seq(Nat) /\ \A i \in 1 .. Len(c) : c[i] \in 1 .. n BY <1>7, <1>10, TreeFacts, HeapFacts
<1>12. KidsAreMethods' /\ KidsApart'
  <2>1. r = scopes'[Module].children BY <1>4, <1>10 DEF Row
  <2>2. ASSUME NEW k \in 1 .. Len(r), NEW i \in 1 .. Len(scopes'[r[k]].children)
        PROVE  /\ scopes'[scopes'[r[k]].children[i]].kind = "method"
               /\ \/ /\ k \in 1 .. Len(Row) /\ i \in 1 .. Len(Kids(Row[k]))
                     /\ scopes'[r[k]].children[i] = Kids(Row[k])[i]
                  \/ /\ scopes'[r[k]].children[i] = n + 1 /\ k = l + 1 /\ i = Len(c) + 1
    <3>1. CASE k \in 1 .. l
      <4>1. scopes'[r[k]].children = Kids(Row[k]) BY <1>4, <1>6, <1>10, <3>1 DEF KidsKept, Kids
      <4>2. Alike(scopes[Kids(Row[k])[i]], scopes'[Kids(Row[k])[i]])
        BY <1>4, <1>6, <3>1, <4>1 DEF KidsKept
      <4>3. scopes[Kids(Row[k])[i]].kind = "method" BY <1>10, <4>1, TreeFacts
      <4> QED BY ONLY <1>10, <4>1, <4>2, <4>3, k \in 1 .. Len(r), i \in 1 .. Len(scopes'[r[k]].children)
            DEF Alike
    <3>2. CASE k = l + 1
      <4>1. r[k] = current BY <1>7, <1>10, <3>2
      <4>2. ASSUME i \in 1 .. Len(c), scopes'[current].children[i] = c[i]
            PROVE  scopes'[c[i]].kind = "method"
        <5>1. scopes[Kids(Row[k])[i]].kind = "method" BY <1>10, <4>1, <4>2, TreeFacts
        <5>2. scopes'[c[i]] = scopes[c[i]] BY <1>4, <1>10, <4>2
        <5> QED BY ONLY <1>10, <4>1, <5>1, <5>2
      <4>3. CASE scopes'[current].children = c
        BY ONLY <1>10, <4>1, <4>2, <4>3, k \in 1 .. Len(r), i \in 1 .. Len(scopes'[r[k]].children)
      <4>4. CASE scopes'[current].children = Append(c, n + 1) /\ scopes'[n + 1].kind = "method"
        <5>1. /\ Len(Append(c, n + 1)) = Len(c) + 1 /\ Len(c) \in Nat
              /\ Append(c, n + 1)[Len(c) + 1] = n + 1
              /\ \A x \in 1 .. Len(c) : Append(c, n + 1)[x] = c[x]
          BY ONLY <1>11, n + 1 \in Nat, AppendFacts
        <5>2. i \in 1 .. Len(c) + 1 BY ONLY <4>1, <4>4, <5>1, i \in 1 .. Len(scopes'[r[k]].children)
        <5>3. i \in 1 .. Len(c) \/ i = Len(c) + 1 BY ONLY <5>1, <5>2
        <5> QED BY ONLY <1>10, <3>2, <4>1, <4>2, <4>4, <5>1, <5>3, k \in 1 .. Len(r)
      <4> QED BY ONLY <1>10, <4>3, <4>4, OneKid DEF OneKid
    <3> QED BY <1>7, <1>10, <3>1, <3>2
  <2>3. n + 1 > n BY ONLY n \in Nat
  <2>4. ASSUME NEW k \in 1 .. Len(Row), NEW i \in 1 .. Len(Kids(Row[k])) PROVE ~(Kids(Row[k])[i] > n)
    <3>1. Kids(Row[k])[i] \in 1 .. n BY <1>10, TreeFacts
    <3> QED BY ONLY <3>1, n \in Nat
  <2>5. ASSUME NEW j \in 1 .. Len(r), NEW k \in 1 .. Len(r),
               NEW i \in 1 .. Len(scopes'[r[j]].children),
               NEW x \in 1 .. Len(scopes'[r[k]].children),
               scopes'[r[j]].children[i] > n,
               scopes'[r[j]].children[i] = scopes'[r[k]].children[x]
        PROVE  j = k /\ i = x
    <3>1. j = l + 1 /\ i = Len(c) + 1 BY ONLY <2>2, <2>4, <2>5
    <3>2. scopes'[r[k]].children[x] > n BY ONLY <2>5
    <3>3. k = l + 1 /\ x = Len(c) + 1 BY ONLY <2>2, <2>4, <3>2
    <3> QED BY ONLY <3>1, <3>3
  <2>6. KidsOldOrNew(r, n) BY ONLY <2>2, <2>3, <2>5 DEF KidsOldOrNew
  <2> QED BY <1>10, <2>1, <2>6, KidsStayApart
<1>13. ClassesLined'
  <2>1. ClassesKept
    <3>1. Len(classes) \in Nat /\ scopes'[Module].children = Row BY <1>4, <1>6 DEF Row
    <3> QED BY ONLY <1>1, <1>4, <3>1 DEF ClassesKept
  <2>2. ASSUME NEW k \in 1 .. Len(classes), StraightTo(k)'
        PROVE  (\E g \in Places(decls[classes[k]].methods, Row[k]) :
                  Lined(decls[classes[k]].methods, Row[k], g))'
    BY <1>4, <1>5, <2>1, <2>2, ClassesLinedKept
  <2> QED BY ONLY <1>1, <2>2 DEF ClassesLined
<1>14. BaseCopied'
  <2>1. Row' = Row /\ \A k \in 1 .. Len(classes) : Kids(Row[k])' = Kids(Row[k])
    BY ONLY <1>4 DEF Row, Kids
  <2>2. ASSUME NEW j \in 1 .. Len(classes), classes[j] = base, NEW i \in 1 .. Len(Kids(Row[j]))
        PROVE  \E k \in 1 .. Len(scopes'[current].children) :
                 /\ scopes'[scopes'[current].children[k]].external
                 /\ scopes'[scopes'[current].children[k]].name = scopes'[Kids(Row[j])[i]].name
    <3>1. PICK k \in 1 .. Len(c) :
            scopes[c[k]].external /\ scopes[c[k]].name = scopes[Kids(Row[j])[i]].name
      BY <1>1, <1>10, <2>2 DEF CInv, BaseCopied
    <3>2. k \in 1 .. Len(scopes'[current].children) /\ scopes'[current].children[k] = c[k]
      BY <1>1, <1>10, OneKidMore
    <3>3. scopes'[c[k]] = scopes[c[k]] BY <1>4, <1>10
    <3>4. Alike(scopes[Kids(Row[j])[i]], scopes'[Kids(Row[j])[i]]) BY <1>4 DEF KidsKept
    <3> QED BY ONLY <3>1, <3>2, <3>3, <3>4 DEF Alike
  <2>3. \A j \in 1 .. Len(classes) : Row'[j] = Row[j] /\ scopes'[Row[j]].children = Kids(Row[j])
    BY ONLY <1>4, <2>1 DEF KidsKept, Kids
  <2>4. \A j \in 1 .. Len(classes) : classes[j] = base =>
          \A i \in 1 .. Len(scopes'[Row'[j]].children) :
            \E k \in 1 .. Len(scopes'[current].children) :
              /\ scopes'[scopes'[current].children[k]].external
              /\ scopes'[scopes'[current].children[k]].name
                 = scopes'[scopes'[Row'[j]].children[i]].name
    BY ONLY <2>2, <2>3
  <2> QED BY ONLY <1>1, <2>4 DEF BaseCopied, Kids
<1>15. Still'
  <2>1. /\ cls = 0 /\ cg = Module /\ visited = {}
        /\ \A s \in 1 .. n : scopes[s].cursor = 0
    BY <1>1, <1>10 DEF CInv, Still
  <2>2. ASSUME NEW t \in 1 .. Len(scopes') PROVE scopes'[t].cursor = 0
    <3>1. CASE t > n BY <1>1, <1>10, <3>1 DEF Grown
    <3>2. CASE ~(t > n)
      <4>1. t \in 1 .. n BY ONLY <3>2, n \in Nat, t \in 1 .. Len(scopes'), <1>3
      <4>2. t # current => scopes'[t] = scopes[t] BY <1>1, <1>10, <4>1 DEF Grown
      <4> QED BY ONLY <1>8, <2>1, <4>1, <4>2
    <3> QED BY <3>1, <3>2
  <2> QED BY ONLY <1>1, <2>1, <2>2 DEF Still
<1>16. InStep' BY <1>1, <1>2, <1>9, <1>15, StillInStep
<1> QED BY ONLY <1>9, <1>12, <1>13, <1>14, <1>15, <1>16

LEMMA OwnGrows ==
  ASSUME CInv, NEW d, MemberStep(d), NEW kinds
  PROVE  Own(kinds)' = IF d.kind \in kinds THEN Append(Own(kinds), Len(decls) + 1) ELSE Own(kinds)
<1>1. PICK l \in Nat, U \in {1 .. Len(decls) + 1} : l = Len(decls) /\ U = 1 .. l + 1 BY HeapFacts
<1>2. /\ Len(decls') = l + 1 /\ decls'[l + 1] = d /\ (\A x \in 1 .. l : decls'[x] = decls[x])
      /\ parts' = Append(parts, l + 1)
  BY <1>1, MemberHeap DEF MemberStep
<1>3. PICK s, A, B, e : /\ s = parts /\ A = DeclOf(kinds) /\ B = DeclOf(kinds)'
                        /\ e = l + 1 /\ e \in U
  <2>1. l + 1 \in U BY ONLY <1>1, l \in Nat
  <2> QED BY <2>1
<1>4. s \in Seq(U)
  <2>1. PICK T : T = 1 .. l OBVIOUS
  <2>2. s \in Seq(T) BY <1>1, <1>3, <2>1, HeapFacts
  <2>3. T \subseteq U BY ONLY <1>1, <2>1, l \in Nat
  <2>4. \A k \in 1 .. Len(s) : s[k] \in U
    <3>1. \A k \in 1 .. Len(s) : s[k] \in T BY ONLY <2>2
    <3> QED BY ONLY <2>3, <3>1
  <2> QED BY ONLY <2>2, <2>4, Wider
<1>5. Among(Append(s, e), B) = IF e \in B THEN Append(Among(s, B), e) ELSE Among(s, B)
  <2>1. e \in U BY ONLY <1>3
  <2> QED BY ONLY <1>4, <2>1, AmongMore
<1>6. B = {x \in 1 .. l + 1 : decls'[x].kind \in kinds} BY <1>2, <1>3 DEF DeclOf
<1>7. e \in B <=> d.kind \in kinds BY ONLY <1>2, <1>3, <1>6, l \in Nat
<1>8. Among(s, B) = Among(s, A)
  <2>1. Len(s) \in Nat /\ \A k \in 1 .. Len(s) : s[k] \in 1 .. l BY <1>1, <1>3, HeapFacts
  <2>2. A = {x \in 1 .. l : decls[x].kind \in kinds} BY <1>1, <1>3 DEF DeclOf
  <2>3. \A x \in 1 .. l : x \in 1 .. l + 1 BY ONLY l \in Nat
  <2>4. \A k \in 1 .. Len(s) : s[k] \in B <=> s[k] \in A BY ONLY <1>2, <1>6, <2>1, <2>2, <2>3
  <2> QED BY ONLY <2>1, <2>4, AmongSame
<1>9. Own(kinds)' = Among(Append(s, e), B) BY <1>2, <1>3 DEF Own
<1>10. Own(kinds) = Among(s, A) BY <1>3 DEF Own
<1> QED BY ONLY <1>1, <1>3, <1>5, <1>7, <1>8, <1>9, <1>10

LEMMA FieldOwnLined ==
  ASSUME CInv, NEW d, MemberStep(d), d.kind = "field",
         scopes'[current].children = scopes[current].children
  PROVE  OwnLined'
<1>1. InClass /\ Grown /\ current' = current BY DEF MemberStep
<1>2. PICK ms : ms = Own(Body) OBVIOUS
<1>3. Own(Body)' = ms
  <2>1. d.kind \notin Body BY DEF Body
  <2> QED BY <1>2, <2>1, OwnGrows
<1>4. PICK s \in 1 .. Len(scopes) : s = current BY HeapFacts
<1>5. PICK g \in Places(ms, s) :
        /\ Lined(ms, s, g)
        /\ \A k \in 1 .. Len(Kids(s)), i \in 1 .. Len(ms) :
             scopes[Kids(s)[k]].external => k < g[i]
  BY <1>1, <1>2, <1>4 DEF CInv, OwnLined
<1>6. \A i \in 1 .. Len(ms) : ms[i] \in 1 .. Len(decls) BY <1>2, OwnCounted
<1>7. /\ LoopsKept
      /\ \A i \in 1 .. Len(Kids(current)) : scopes'[Kids(current)[i]] = scopes[Kids(current)[i]]
  BY <1>1, GrownKeeps
<1>8. KidsKept(s) BY <1>4, <1>7 DEF KidsKept, Alike
<1>9. DeclsKept BY MemberHeap
<1>10. Lined(ms, s, g)' /\ g \in Places(ms, s)' BY <1>5, <1>6, <1>7, <1>8, <1>9, LinedKept
<1>11. Kids(s)' = Kids(s) BY <1>4 DEF Kids
<1>12. \A k \in 1 .. Len(Kids(s)'), i \in 1 .. Len(ms) :
         scopes'[Kids(s)'[k]].external => k < g[i]
  BY ONLY <1>4, <1>5, <1>7, <1>11
<1>13. current' = s /\ Own(Body)' = ms BY <1>1, <1>3, <1>4
<1>14. (\E f \in Places(ms, s) :
           /\ Lined(ms, s, f)
           /\ \A k \in 1 .. Len(Kids(s)), i \in 1 .. Len(ms) :
                scopes[Kids(s)[k]].external => k < f[i])'
  BY ONLY <1>10, <1>12
<1>15. \A f : Lined(Own(Body), current, f)' <=> Lined(ms, s, f)'
  <2>1. ASSUME NEW i PROVE BodyIn(Own(Body)[i], current)' <=> BodyIn(ms[i], s)'
    BY ONLY <1>13 DEF BodyIn
  <2> QED BY ONLY <1>13, <2>1 DEF Lined, Kids
<1>16. Places(Own(Body), current)' = Places(ms, s)' BY ONLY <1>13 DEF Places, Kids
<1> QED BY ONLY <1>13, <1>14, <1>15, <1>16 DEF OwnLined, Kids

LEMMA BodyOwnLined ==
  ASSUME CInv, NEW d, MemberStep(d), d.kind \in Body, d.home = Len(scopes) + 1,
         BodyMade(scopes, current, d.name, d.nested, scopes')
  PROVE  OwnLined'
<1>1. InClass /\ Grown /\ current' = current BY DEF MemberStep
<1>2. PICK ms, L : ms = Own(Body) /\ L = Len(ms) OBVIOUS
<1>3. PICK id \in Nat, n \in Nat : id = Len(decls) + 1 /\ n = Len(scopes)
  <2>1. Len(decls) \in Nat BY HeapFacts
  <2>2. Len(decls) + 1 \in Nat BY ONLY <2>1
  <2>3. Len(scopes) \in Nat BY TreeFacts
  <2> QED BY ONLY <2>2, <2>3
<1>4. PICK T : T = 1 .. Len(decls) OBVIOUS
<1>5. /\ ms \in Seq(T) /\ L \in Nat /\ \A i \in 1 .. L : ms[i] \in 1 .. Len(decls)
  BY <1>2, <1>4, OwnCounted
<1>6. PICK ms2 : ms2 = Append(ms, id) OBVIOUS
<1>7. Own(Body)' = ms2 BY <1>2, <1>3, <1>6, OwnGrows
<1>8. Len(ms2) = L + 1 /\ ms2[L + 1] = id /\ \A i \in 1 .. L : ms2[i] = ms[i]
  <2>1. ms \in Seq(Nat)
    <3>1. \A i \in 1 .. Len(ms) : ms[i] \in Nat BY <1>2, <1>4, <1>5
    <3> QED BY ONLY <1>5, <3>1
  <2> QED BY ONLY <1>2, <1>6, <2>1, id \in Nat, AppendFacts
<1>9. PICK s \in 1 .. Len(scopes) : s = current BY HeapFacts
<1>10. PICK g \in Places(ms, s) :
        /\ Lined(ms, s, g)
        /\ \A k \in 1 .. Len(Kids(s)), i \in 1 .. Len(ms) :
             scopes[Kids(s)[k]].external => k < g[i]
  BY <1>1, <1>2, <1>9 DEF CInv, OwnLined
<1>11. PICK c \in Seq(Nat), K \in Nat : c = Kids(s) /\ K = Len(c) BY TreeFacts
<1>12. /\ LoopsKept
       /\ \A i \in 1 .. K : scopes'[c[i]] = scopes[c[i]]
  BY <1>1, <1>9, <1>11, GrownKeeps
<1>13. PICK c2 : c2 = scopes'[s].children OBVIOUS
<1>14. Len(c2) = K + 1 /\ c2[K + 1] = n + 1 /\ \A i \in 1 .. K : c2[i] = c[i]
  <2>1. c2 = Append(c, n + 1) BY <1>3, <1>9, <1>11, <1>13 DEF BodyMade, Kids
  <2> QED BY ONLY <1>11, <2>1, c \in Seq(Nat), n + 1 \in Nat, n \in Nat, AppendFacts
<1>15. PICK g2 : g2 = [i \in 1 .. L + 1 |-> IF i = L + 1 THEN K + 1 ELSE g[i]] OBVIOUS
<1>16. g2[L + 1] = K + 1 /\ \A i \in 1 .. L : g2[i] = g[i] BY ONLY <1>5, <1>15
<1>17. \A i \in 1 .. L + 1 : i \in 1 .. L \/ i = L + 1 BY ONLY <1>5
<1>18. \A k \in 1 .. K + 1 : k \in 1 .. K \/ k = K + 1 BY ONLY K \in Nat
<1>19. \A i \in 1 .. L : g[i] \in 1 .. K BY <1>2, <1>11 DEF Places
<1>20. g2 \in [1 .. L + 1 -> 1 .. K + 1]
  <2>1. \A i \in 1 .. L + 1 : g2[i] \in 1 .. K + 1
    <3>1. K + 1 \in 1 .. K + 1 /\ \A k \in 1 .. K : k \in 1 .. K + 1 BY ONLY K \in Nat
    <3> QED BY ONLY <1>16, <1>17, <1>19, <3>1
  <2> QED BY ONLY <1>15, <2>1
<1>21. \A i \in 1 .. L : c[g[i]] = decls[ms[i]].home /\ BodyIn(ms[i], s)
  BY <1>2, <1>10, <1>11 DEF Lined
<1>22. DeclsKept /\ decls'[id] = d BY <1>3, MemberHeap
<1>23. ASSUME NEW i \in 1 .. L PROVE c2[g2[i]] = decls'[ms2[i]].home /\ BodyIn(ms2[i], s)'
  <2>1. PICK x \in 1 .. Len(decls) : x = ms[i] BY <1>5
  <2>2. c[g[i]] = decls[x].home /\ BodyIn(x, s) BY <1>21, <2>1
  <2>3. scopes'[c[g[i]]] = scopes[c[g[i]]] BY <1>12, <1>19
  <2>4. Alike(scopes[decls[x].home], scopes'[decls[x].home]) BY ONLY <2>2, <2>3 DEF Alike
  <2>5. BodyIn(x, s)' BY <1>12, <1>22, <2>2, <2>4, BodyKept
  <2>6. decls'[x].home = decls[x].home BY <1>22 DEF DeclsKept, SameDecl
  <2>7. ms2[i] = x /\ c2[g2[i]] = c[g[i]] BY <1>8, <1>14, <1>16, <1>19, <2>1
  <2>8. BodyIn(ms2[i], s)' BY ONLY <2>5, <2>7 DEF BodyIn
  <2> QED BY ONLY <2>2, <2>6, <2>7, <2>8
<1>24. c2[g2[L + 1]] = decls'[ms2[L + 1]].home /\ BodyIn(ms2[L + 1], s)'
  <2>1. c2[g2[L + 1]] = n + 1 BY ONLY <1>14, <1>16
  <2>2. PICK x, h : x = ms2[L + 1] /\ h = n + 1 OBVIOUS
  <2>3. decls'[x] = d /\ d.home = h BY <1>3, <1>8, <1>22, <2>2
  <2>4. d.nested \in BOOLEAN BY Zenon DEF MemberStep, MemberIs, DeclType
  <2>5. h \in 1 .. Len(scopes') BY <1>3, <2>2, <2>4, BodyGrown
  <2>6. /\ scopes'[h].name = d.name /\ scopes'[h].parent = s /\ ~scopes'[h].external
        /\ d.nested =>
             /\ scopes'[h].children = <<h + 1>>
             /\ scopes'[h + 1].kind = "loop" /\ scopes'[h + 1].parent = h
             /\ ~scopes'[h + 1].external
    BY <1>3, <1>9, <2>2 DEF BodyMade
  <2>7. Len(<<h + 1>>) = 1 /\ <<h + 1>>[1] = h + 1 OBVIOUS
  <2>8. BodyIn(x, s)' BY ONLY <2>3, <2>5, <2>6, <2>7 DEF BodyIn, Kids
  <2>9. BodyIn(ms2[L + 1], s)' BY ONLY <2>2, <2>8 DEF BodyIn
  <2> QED BY ONLY <2>1, <2>2, <2>3, <2>9
<1>25. \A i, j \in 1 .. L + 1 : i < j => g2[i] < g2[j]
  <2> TAKE i, j \in 1 .. L + 1
  <2> HAVE i < j
  <2>1. i \in 1 .. L BY ONLY <1>5, i \in 1 .. L + 1, j \in 1 .. L + 1, i < j
  <2>2. CASE j = L + 1 BY ONLY <1>16, <1>19, <2>1, <2>2, K \in Nat
  <2>3. CASE j \in 1 .. L
    <3>1. \A x, y \in 1 .. L : x < y => g[x] < g[y] BY <1>2, <1>10 DEF Lined
    <3> QED BY ONLY <1>16, <2>1, <2>3, <3>1, i < j
  <2> QED BY ONLY <1>17, <2>2, <2>3, j \in 1 .. L + 1
<1>26. ASSUME NEW k \in 1 .. K + 1, \A i \in 1 .. L + 1 : g2[i] # k PROVE scopes'[c2[k]].external
  <2>1. L + 1 \in 1 .. L + 1 /\ \A i \in 1 .. L : i \in 1 .. L + 1 BY ONLY <1>5
  <2>2. k \in 1 .. K BY ONLY <1>16, <1>18, <1>26, <2>1
  <2>3. \A i \in 1 .. L : g[i] # k BY ONLY <1>16, <1>26, <2>1
  <2>4. scopes[c[k]].external BY <1>2, <1>10, <1>11, <2>2, <2>3 DEF Lined
  <2> QED BY ONLY <1>12, <1>14, <2>2, <2>4
<1>27. ASSUME NEW k \in 1 .. K + 1, NEW i \in 1 .. L + 1, scopes'[c2[k]].external PROVE k < g2[i]
  <2>1. k # K + 1
    <3>1. ~scopes'[n + 1].external BY <1>3 DEF BodyMade
    <3> QED BY ONLY <1>14, <1>27, <3>1
  <2>2. k \in 1 .. K /\ scopes[c[k]].external
    <3>1. k \in 1 .. K BY ONLY <1>18, <2>1, k \in 1 .. K + 1
    <3>2. c2[k] = c[k] BY ONLY <1>14, <3>1
    <3>3. scopes'[c[k]] = scopes[c[k]] BY ONLY <1>12, <3>1
    <3> QED BY ONLY <1>27, <3>1, <3>2, <3>3
  <2>3. CASE i = L + 1 BY ONLY <1>16, <2>2, <2>3, K \in Nat
  <2>4. CASE i \in 1 .. L
    <3>1. k < g[i] BY <1>2, <1>10, <1>11, <2>2, <2>4
    <3> QED BY ONLY <1>16, <2>4, <3>1
  <2> QED BY ONLY <1>17, <2>3, <2>4, i \in 1 .. L + 1
<1>28. current' = s /\ Own(Body)' = ms2 /\ scopes'[s].children = c2 BY <1>1, <1>7, <1>9, <1>13
<1>29. g2 \in Places(Own(Body), current)' BY ONLY <1>8, <1>14, <1>20, <1>28 DEF Places, Kids
<1>30. Lined(Own(Body), current, g2)'
  <2>1. \A i \in 1 .. L + 1 : c2[g2[i]] = decls'[ms2[i]].home /\ BodyIn(ms2[i], s)'
    BY ONLY <1>17, <1>23, <1>24
  <2>2. \A i : BodyIn(Own(Body)[i], current)' <=> BodyIn(ms2[i], s)' BY ONLY <1>28 DEF BodyIn
  <2>3. Kids(current)' = c2 BY ONLY <1>28 DEF Kids
  <2>4. \A k \in 1 .. K + 1 : (\A i \in 1 .. L + 1 : g2[i] # k) => scopes'[c2[k]].external
    BY ONLY <1>26
  <2> QED BY ONLY <1>8, <1>14, <1>25, <1>28, <2>1, <2>2, <2>3, <2>4 DEF Lined
<1>31. \A k \in 1 .. K + 1, i \in 1 .. L + 1 : scopes'[c2[k]].external => k < g2[i]
  BY ONLY <1>27
<1>32. (\A k \in 1 .. Len(Kids(current)), i \in 1 .. Len(Own(Body)) :
           scopes[Kids(current)[k]].external => k < g2[i])'
  BY ONLY <1>8, <1>14, <1>28, <1>31 DEF Kids
<1> QED BY ONLY <1>29, <1>30, <1>32 DEF OwnLined

\* A member keeps the invariant.
LEMMA FieldKeeps ==
  ASSUME CInv, NEW n \in FieldName, ParseField(n)
  PROVE  CInv'
<1>1. PICK d : /\ MemberStep(d) /\ d.kind = "field"
               /\ scopes'[current].children = scopes[current].children
  BY FieldIsMember
<1>2. OneKid BY <1>1 DEF OneKid, Kids
<1>3. TypeOK' /\ MethodsNamed' /\ ClassesRead' /\ PartsRead' BY <1>1, MemberTypes
<1>4. /\ Rows' /\ KidsAreMethods' /\ KidsApart' /\ ClassesLined' /\ BaseCopied'
      /\ Still' /\ InStep'
  BY <1>1, <1>2, MemberScopes
<1>5. OwnLined' BY <1>1, FieldOwnLined
<1> QED BY ONLY <1>3, <1>4, <1>5 DEF CInv

LEMMA BodyKeeps ==
  ASSUME CInv, NEW d, MemberStep(d), d.kind \in Body, d.home = Len(scopes) + 1,
         BodyMade(scopes, current, d.name, d.nested, scopes')
  PROVE  CInv'
<1>1. OneKid BY DEF OneKid, Kids, BodyMade
<1>2. TypeOK' /\ MethodsNamed' /\ ClassesRead' /\ PartsRead' BY MemberTypes
<1>3. /\ Rows' /\ KidsAreMethods' /\ KidsApart' /\ ClassesLined' /\ BaseCopied'
      /\ Still' /\ InStep'
  BY <1>1, MemberScopes
<1>4. OwnLined' BY BodyOwnLined
<1> QED BY ONLY <1>2, <1>3, <1>4 DEF CInv

LEMMA MethodKeeps ==
  ASSUME CInv, NEW m \in Method, NEW nested \in BOOLEAN, ParseMethod(m, nested)
  PROVE  CInv'
<1>1. PICK d : /\ MemberStep(d) /\ d.kind \in Body /\ d.home = Len(scopes) + 1
               /\ BodyMade(scopes, current, d.name, d.nested, scopes')
  BY MethodIsMember
<1> QED BY <1>1, BodyKeeps

LEMMA ConstructorKeeps ==
  ASSUME CInv, ParseConstructor
  PROVE  CInv'
<1>1. InClass BY DEF ParseConstructor, ReadMember
<1>2. PICK d : /\ MemberStep(d) /\ d.kind \in Body /\ d.home = Len(scopes) + 1
               /\ BodyMade(scopes, current, d.name, d.nested, scopes')
  BY <1>1, ConstructorIsMember
<1> QED BY <1>2, BodyKeeps

\* Nothing is among nothing.
LEMMA AmongNone ==
  ASSUME NEW s, s = << >>, NEW A
  PROVE  Among(s, A) = << >>
<1>1. s \in Seq(Nat) /\ Len(s) = 0 OBVIOUS
<1>2. PICK t \in Seq(Nat) : t = Among(s, A) BY <1>1, AmongPicks
<1>3. PICK h : Picks(s, A, t, h) BY <1>1, <1>2, AmongPicks
<1>4. Len(t) \in Nat BY <1>2
<1>5. \A i \in 1 .. Len(t) : FALSE BY <1>1, <1>3 DEF Picks
<1>6. Len(t) = 0 BY ONLY <1>4, <1>5
<1> QED BY ONLY <1>2, <1>6

\* The head of a class made this scope; d, c and m are its symbols, its children and
\* how many they are, j is the place of the base.
Entered(b, m, j) ==
  /\ b = NoDecl => m = 0
  /\ b # NoDecl => j # 0 /\ classes[j] = b /\ m = Len(Kids(Row[j]))
  /\ IsTree(scopes') /\ Len(scopes') = Len(scopes) + 1 + m
  /\ scopes'[Module].kind = "module" /\ scopes'[Module].cursor = scopes[Module].cursor
  /\ scopes'[Module].children = Append(Row, Len(scopes) + 1)
  /\ LET q == scopes'[Len(scopes) + 1]
     IN  /\ q.kind = "class" /\ q.name = ClassName[Len(classes) + 1] /\ q.parent = Module
         /\ ~q.external /\ q.cursor = 0
         /\ Len(q.children) = m /\ \A k \in 1 .. m : q.children[k] = Len(scopes) + 1 + k
  /\ \A t \in 1 .. Len(scopes) : t # Module => scopes'[t] = scopes[t]
  /\ \A k \in 1 .. m :
       LET o == scopes[Kids(Row[j])[k]]
           q == scopes'[Len(scopes) + 1 + k]
       IN  q.kind = "method" /\ q.external /\ q.name = o.name /\ q.cursor = o.cursor

LEMMA EnterIs ==
  ASSUME CInv, NEW b \in 0 .. Len(decls), EnterClass(b)
  PROVE  \E m \in Nat, j \in 0 .. Len(classes) : Entered(b, m, j)
<1>1. PICK m \in Nat, j \in 0 .. Len(classes) :
           /\ b = NoDecl => m = 0
           /\ b # NoDecl => j # 0 /\ classes[j] = b /\ m = Len(Kids(Row[j]))
           /\ IsTree(scopes') /\ Len(scopes') = Len(scopes) + 1 + m
           /\ IsScope(scopes'[Module], scopes[Module].kind, scopes[Module].name,
                      scopes[Module].parent, Append(Row, Len(scopes) + 1),
                      scopes[Module].external, scopes[Module].cursor, scopes[Module].decl)
           /\ \E c, d :
                /\ IsScope(scopes'[Len(scopes) + 1], "class", ClassName[Len(classes) + 1],
                           Module, c, FALSE, 0, d)
                /\ Len(c) = m /\ \A k \in 1 .. m : c[k] = Len(scopes) + 1 + k
           /\ \A t \in 1 .. Len(scopes) : t # Module => scopes'[t] = scopes[t]
           /\ \A k \in 1 .. m :
                LET o == scopes[Kids(Row[j])[k]]
                IN  IsScope(scopes'[Len(scopes) + 1 + k], "method", o.name, o.parent,
                            o.children, TRUE, o.cursor, o.decl)
  BY EnterScopes
<1>2. scopes[Module].kind = "module" BY TreeFacts
<1>3. /\ scopes'[Module].kind = "module" /\ scopes'[Module].cursor = scopes[Module].cursor
      /\ scopes'[Module].children = Append(Row, Len(scopes) + 1)
  BY <1>1, <1>2 DEF IsScope
<1>4. LET q == scopes'[Len(scopes) + 1]
      IN  /\ q.kind = "class" /\ q.name = ClassName[Len(classes) + 1] /\ q.parent = Module
          /\ ~q.external /\ q.cursor = 0
          /\ Len(q.children) = m /\ \A k \in 1 .. m : q.children[k] = Len(scopes) + 1 + k
  BY <1>1 DEF IsScope
<1>5. \A k \in 1 .. m :
       LET o == scopes[Kids(Row[j])[k]]
           q == scopes'[Len(scopes) + 1 + k]
       IN  q.kind = "method" /\ q.external /\ q.name = o.name /\ q.cursor = o.cursor
  BY <1>1 DEF IsScope
<1>6. Entered(b, m, j) BY ONLY <1>1, <1>3, <1>4, <1>5 DEF Entered
<1> QED BY <1>6

\* Where the scopes of the classes are, behind the head of a class.
Placed(m, n, l) ==
  /\ Len(scopes') = n + 1 + m /\ Len(Row) = l /\ l < Len(ClassName)
  /\ Len(scopes'[Module].children) = l + 1 /\ scopes'[Module].children[l + 1] = n + 1
  /\ \A k \in 1 .. l :
       /\ scopes'[Module].children[k] = Row[k] /\ Row[k] \in 1 .. n /\ Row[k] # Module
       /\ scopes'[Row[k]] = scopes[Row[k]]
  /\ \A k \in 1 .. l : \A i \in 1 .. Len(Kids(Row[k])) :
       /\ Kids(Row[k])[i] \in 1 .. n /\ scopes[Kids(Row[k])[i]].kind = "method"
       /\ scopes'[Kids(Row[k])[i]] = scopes[Kids(Row[k])[i]]
  /\ Len(scopes'[n + 1].children) = m
  /\ \A i \in 1 .. m :
       /\ scopes'[n + 1].children[i] = n + 1 + i
       /\ scopes'[n + 1 + i].kind = "method" /\ scopes'[n + 1 + i].external

LEMMA EnterPlaces ==
  ASSUME CInv, NEW b \in 0 .. Len(decls), EnterClass(b), NEW m \in Nat,
         NEW j \in 0 .. Len(classes), Entered(b, m, j),
         NEW n \in Nat, n = Len(scopes), NEW l \in Nat, l = Len(classes)
  PROVE  Placed(m, n, l)
<1>1. l < Len(ClassName) /\ ~InClass BY DEF EnterClass
<1>2. Len(Row) = l /\ Row \in Seq(Nat) BY <1>1, TreeFacts
<1>3. PICK r : r = scopes'[Module].children OBVIOUS
<1>4. r = Append(Row, n + 1) BY <1>3 DEF Entered
<1>5. Len(r) = l + 1 /\ r[l + 1] = n + 1 /\ \A k \in 1 .. l : r[k] = Row[k]
  BY ONLY <1>2, <1>4, n + 1 \in Nat, AppendFacts
<1>6. \A t \in 1 .. n : t # Module => scopes'[t] = scopes[t] BY DEF Entered
<1>7. \A k \in 1 .. l : Row[k] \in 1 .. n /\ Row[k] # Module BY <1>2, TreeFacts
<1>8. ASSUME NEW k \in 1 .. l, NEW i \in 1 .. Len(Kids(Row[k]))
      PROVE  /\ Kids(Row[k])[i] \in 1 .. n /\ scopes[Kids(Row[k])[i]].kind = "method"
             /\ scopes'[Kids(Row[k])[i]] = scopes[Kids(Row[k])[i]]
  <2>1. k \in 1 .. Len(Row) BY <1>2
  <2>2. scopes[Kids(Row[k])[i]].kind = "method" BY <2>1, TreeFacts
  <2>3. Kids(Row[k])[i] \in 1 .. n BY <1>7, TreeFacts
  <2>4. scopes[Module].kind = "module" BY TreeFacts
  <2>5. Kids(Row[k])[i] # Module BY <2>2, <2>4
  <2> QED BY ONLY <1>6, <2>2, <2>3, <2>5
<1>9. /\ Len(scopes') = n + 1 + m /\ Len(scopes'[n + 1].children) = m
      /\ \A i \in 1 .. m : scopes'[n + 1].children[i] = n + 1 + i
  BY DEF Entered
<1>10. \A i \in 1 .. m : scopes'[n + 1 + i].kind = "method" /\ scopes'[n + 1 + i].external
  BY DEF Entered
<1> QED BY ONLY <1>1, <1>2, <1>3, <1>5, <1>6, <1>7, <1>8, <1>9, <1>10 DEF Placed

LEMMA EnterRows ==
  ASSUME CInv, NEW b \in 0 .. Len(decls), EnterClass(b), NEW m \in Nat,
         NEW j \in 0 .. Len(classes), Entered(b, m, j),
         NEW n \in Nat, n = Len(scopes), NEW l \in Nat, l = Len(classes), Placed(m, n, l)
  PROVE  Rows' /\ InClass'
<1>1. classes' = classes /\ current' = n + 1 /\ phase' = phase /\ phase = "parse"
  BY DEF EnterClass
<1>2. n >= 2 BY DEF CInv, Rows, Module
<1>3. n + 1 # Module BY <1>2 DEF Module
<1>4. Len(scopes') >= Module BY <1>2 DEF Placed, Module
<1>5. PICK r : r = scopes'[Module].children OBVIOUS
<1>6. /\ Len(r) = l + 1 /\ r[l + 1] = n + 1
      /\ \A k \in 1 .. l : r[k] = Row[k] /\ scopes'[Row[k]] = scopes[Row[k]] /\ k \in 1 .. Len(Row)
  BY <1>5 DEF Placed
<1>7. l + 1 <= Len(ClassName)
  <2>1. PICK N \in Nat : N = Len(ClassName) BY ClassNames
  <2>2. l < N BY <2>1 DEF Placed
  <2> QED BY ONLY <2>1, <2>2, l \in Nat
<1>8. ASSUME NEW k \in 1 .. l + 1
      PROVE  /\ r[k] > Module /\ scopes'[r[k]].kind = "class" /\ ~scopes'[r[k]].external
             /\ scopes'[r[k]].name = ClassName[k] /\ scopes'[r[k]].parent = Module
  <2>1. CASE k = l + 1
    <3>1. LET q == scopes'[n + 1]
          IN  q.kind = "class" /\ q.name = ClassName[l + 1] /\ q.parent = Module /\ ~q.external
      BY DEF Entered
    <3>2. n + 1 > Module BY <1>2 DEF Module
    <3> QED BY ONLY <1>6, <2>1, <3>1, <3>2
  <2>2. CASE k # l + 1
    <3>1. k \in 1 .. l BY ONLY <2>2, l \in Nat, k \in 1 .. l + 1
    <3>2. /\ Row[k] > Module /\ scopes[Row[k]].kind = "class" /\ ~scopes[Row[k]].external
          /\ scopes[Row[k]].name = ClassName[k] /\ scopes[Row[k]].parent = Module
      BY <1>6, <3>1 DEF CInv, Rows
    <3> QED BY ONLY <1>6, <3>1, <3>2
  <2> QED BY <2>1, <2>2
<1>9. scopes'[Module].kind = "module" BY DEF Entered
<1>10. InClass' /\ (current' # Module) BY <1>1, <1>3 DEF InClass
<1>11. Row' = r /\ Len(classes') = l BY <1>1, <1>5 DEF Row
<1>12. InClass' => current' = r[Len(r)] /\ phase' = "parse" BY <1>1, <1>6
<1> QED BY ONLY <1>4, <1>6, <1>7, <1>8, <1>9, <1>10, <1>11, <1>12 DEF Rows

LEMMA EnterKids ==
  ASSUME CInv, NEW m \in Nat, NEW n \in Nat, n = Len(scopes), NEW l \in Nat, Placed(m, n, l)
  PROVE  KidsAreMethods' /\ KidsApart'
<1>1. PICK r : r = scopes'[Module].children OBVIOUS
<1>2. Len(r) = l + 1 /\ r[l + 1] = n + 1 /\ Len(Row) = l BY <1>1 DEF Placed
<1>3. \A k \in 1 .. l + 1 : k \in 1 .. l \/ k = l + 1 BY ONLY l \in Nat
<1>4. \A k \in 1 .. l : scopes'[r[k]].children = Kids(Row[k]) BY <1>1 DEF Placed, Kids
<1>5. \A k \in 1 .. l : \A i \in 1 .. Len(Kids(Row[k])) :
        /\ Kids(Row[k])[i] \in 1 .. n /\ scopes'[Kids(Row[k])[i]].kind = "method"
  <2>1. \A k \in 1 .. l : \A i \in 1 .. Len(Kids(Row[k])) :
          /\ Kids(Row[k])[i] \in 1 .. n /\ scopes[Kids(Row[k])[i]].kind = "method"
          /\ scopes'[Kids(Row[k])[i]] = scopes[Kids(Row[k])[i]]
    BY DEF Placed
  <2> QED BY ONLY <2>1
<1>6. /\ Len(scopes'[n + 1].children) = m
      /\ \A i \in 1 .. m :
           /\ scopes'[n + 1].children[i] = n + 1 + i
           /\ scopes'[n + 1 + i].kind = "method"
  BY DEF Placed
<1>7. \A i \in 1 .. m : n + 1 + i > n BY ONLY n \in Nat, m \in Nat
<1>8. \A x \in 1 .. n : ~(x > n) BY ONLY n \in Nat
<1>9. ASSUME NEW k \in 1 .. Len(r), NEW i \in 1 .. Len(scopes'[r[k]].children)
      PROVE  /\ scopes'[scopes'[r[k]].children[i]].kind = "method"
             /\ \/ /\ k \in 1 .. Len(Row) /\ i \in 1 .. Len(Kids(Row[k]))
                   /\ scopes'[r[k]].children[i] = Kids(Row[k])[i]
                   /\ ~(scopes'[r[k]].children[i] > n)
                \/ /\ scopes'[r[k]].children[i] > n
                   /\ k = l + 1 /\ i \in 1 .. m /\ scopes'[r[k]].children[i] = n + 1 + i
  <2>1. CASE k = l + 1 BY ONLY <1>2, <1>6, <1>7, <2>1, i \in 1 .. Len(scopes'[r[k]].children)
  <2>2. CASE k \in 1 .. l
    BY ONLY <1>2, <1>4, <1>5, <1>8, <2>2, i \in 1 .. Len(scopes'[r[k]].children)
  <2> QED BY ONLY <1>2, <1>3, <2>1, <2>2, k \in 1 .. Len(r)
<1>10. ASSUME NEW j \in 1 .. Len(r), NEW k \in 1 .. Len(r),
              NEW i \in 1 .. Len(scopes'[r[j]].children),
              NEW x \in 1 .. Len(scopes'[r[k]].children),
              scopes'[r[j]].children[i] > n,
              scopes'[r[j]].children[i] = scopes'[r[k]].children[x]
       PROVE  j = k /\ i = x
  <2>1. j = l + 1 /\ i \in 1 .. m /\ scopes'[r[j]].children[i] = n + 1 + i BY ONLY <1>9, <1>10
  <2>2. scopes'[r[k]].children[x] > n BY ONLY <1>10
  <2>3. k = l + 1 /\ x \in 1 .. m /\ scopes'[r[k]].children[x] = n + 1 + x BY ONLY <1>9, <2>2
  <2>4. n + 1 + i = n + 1 + x BY ONLY <1>10, <2>1, <2>3
  <2>5. i = x BY ONLY <2>1, <2>3, <2>4, n \in Nat, m \in Nat
  <2> QED BY ONLY <2>1, <2>3, <2>5
<1>11. KidsOldOrNew(r, n) BY ONLY <1>9, <1>10 DEF KidsOldOrNew
<1> QED BY <1>1, <1>11, KidsStayApart

LEMMA EnterLines ==
  ASSUME CInv, NEW b \in 0 .. Len(decls), EnterClass(b), NEW m \in Nat,
         NEW j \in 0 .. Len(classes), Entered(b, m, j),
         NEW n \in Nat, n = Len(scopes), NEW l \in Nat, l = Len(classes), Placed(m, n, l)
  PROVE  /\ ClassesLined' /\ OwnLined' /\ BaseCopied' /\ PartsRead'
<1>1. /\ classes' = classes /\ current' = n + 1 /\ base' = b /\ parts' = << >>
      /\ decls' = decls
  BY DEF EnterClass
<1>2. DeclsKept BY <1>1 DEF DeclsKept, SameDecl
<1>3. LoopsKept
  <2>1. Len(scopes') >= Len(scopes) /\ Len(scopes') \in Nat BY DEF Placed
  <2>2. ASSUME NEW t \in 1 .. Len(scopes), scopes[t].kind = "loop"
        PROVE  Alike(scopes[t], scopes'[t])
    <3>1. t # Module BY <2>2, TreeFacts
    <3>2. scopes'[t] = scopes[t] BY <3>1 DEF Entered
    <3> QED BY ONLY <3>2 DEF Alike
  <2> QED BY ONLY <2>1, <2>2 DEF LoopsKept
<1>4. \A k \in 1 .. l : KidsKept(Row[k]) BY DEF Placed, KidsKept, Alike
<1>5. ClassesKept
  <2>1. \A k \in 1 .. l : scopes'[Module].children[k] = Row[k] BY DEF Placed
  <2> QED BY ONLY <1>1, <1>4, <2>1, l = Len(classes), l \in Nat DEF ClassesKept
<1>6. ClassesLined'
  <2>1. ASSUME NEW k \in 1 .. Len(classes), StraightTo(k)'
        PROVE  (\E g \in Places(decls[classes[k]].methods, Row[k]) :
                  Lined(decls[classes[k]].methods, Row[k], g))'
    BY <1>2, <1>3, <1>5, <2>1, ClassesLinedKept
  <2> QED BY ONLY <1>1, <2>1 DEF ClassesLined
<1>7. PICK c : c = scopes'[n + 1].children OBVIOUS
<1>8. /\ Len(c) = m
      /\ \A i \in 1 .. m : c[i] = n + 1 + i /\ scopes'[c[i]].external
  BY <1>7 DEF Placed
<1>9. OwnLined'
  <2>1. Own(Body)' = << >> BY <1>1, AmongNone DEF Own
  <2>2. Kids(current)' = c BY <1>1, <1>7 DEF Kids
  <2>3. PICK g : g = [i \in 1 .. 0 |-> 1] OBVIOUS
  <2>4. Len(<< >>) = 0 /\ (\A i \in 1 .. 0 : FALSE) /\ g \in [1 .. 0 -> 1 .. m] BY ONLY <2>3
  <2>5. g \in Places(Own(Body), current)' BY ONLY <1>8, <2>1, <2>2, <2>4 DEF Places
  <2>6. Lined(Own(Body), current, g)' BY ONLY <1>8, <2>1, <2>2, <2>4 DEF Lined
  <2>7. (\A k \in 1 .. Len(Kids(current)), i \in 1 .. Len(Own(Body)) :
           scopes[Kids(current)[k]].external => k < g[i])'
    BY ONLY <2>1, <2>4
  <2> QED BY ONLY <2>5, <2>6, <2>7 DEF OwnLined
<1>10. PartsRead'
  <2>1. b # NoDecl => j \in 1 .. Len(classes) /\ classes[j] = b BY DEF Entered
  <2>2. Len(parts') = 0 BY <1>1
  <2> QED BY ONLY <1>1, <2>1, <2>2 DEF PartsRead
<1>11. BaseCopied'
  <2>1. ASSUME NEW x \in 1 .. l, classes[x] = b, NEW i \in 1 .. Len(Kids(Row[x]))
        PROVE  \E k \in 1 .. m :
                 /\ scopes'[c[k]].external
                 /\ scopes'[c[k]].name = scopes'[Kids(Row[x])[i]].name
    <3>1. b # NoDecl BY <2>1, HeapFacts DEF NoDecl
    <3>2. j \in 1 .. l /\ classes[j] = b /\ m = Len(Kids(Row[j])) BY <3>1 DEF Entered
    <3>3. ClassName[j] = ClassName[x] BY <2>1, <3>2, HeapFacts
    <3>4. j \in 1 .. Len(ClassName) /\ x \in 1 .. Len(ClassName)
      <4>1. PICK N \in Nat : N = Len(ClassName) BY ClassNames
      <4>2. l < N BY <4>1 DEF Placed
      <4> QED BY ONLY <3>2, <4>1, <4>2, l \in Nat, x \in 1 .. l
    <3>5. j = x BY <3>3, <3>4, ClassNames
    <3>6. i \in 1 .. m BY <3>2, <3>5
    <3>7. scopes'[n + 1 + i].name = scopes[Kids(Row[j])[i]].name BY <3>6 DEF Entered
    <3>8. scopes'[Kids(Row[x])[i]] = scopes[Kids(Row[x])[i]] BY Zenon DEF Placed
    <3> QED BY ONLY <1>8, <3>5, <3>6, <3>7, <3>8
  <2>2. \A x \in 1 .. l : Row'[x] = Row[x] /\ scopes'[Row'[x]].children = Kids(Row[x])
    BY ZenonT(40) DEF Placed, Row, Kids
  <2>3. \A x \in 1 .. l : classes[x] = b =>
          \A i \in 1 .. Len(scopes'[Row'[x]].children) :
            \E k \in 1 .. Len(c) :
              /\ scopes'[c[k]].external
              /\ scopes'[c[k]].name = scopes'[scopes'[Row'[x]].children[i]].name
    <3> TAKE x \in 1 .. l
    <3> HAVE classes[x] = b
    <3>1. scopes'[Row'[x]].children = Kids(Row[x]) BY ONLY <2>2, x \in 1 .. l
    <3>2. \A i \in 1 .. Len(Kids(Row[x])) :
            \E k \in 1 .. Len(c) :
              scopes'[c[k]].external /\ scopes'[c[k]].name = scopes'[Kids(Row[x])[i]].name
      BY ONLY <1>8, <2>1, x \in 1 .. l, classes[x] = b
    <3> QED BY ONLY <3>1, <3>2
  <2>4. scopes'[current'].children = c BY ONLY <1>1, <1>7
  <2> QED BY ONLY <1>1, <2>3, <2>4, l = Len(classes) DEF BaseCopied, Kids
<1> QED BY ONLY <1>6, <1>9, <1>10, <1>11

\* The head of a class keeps the invariant.
LEMMA EnterKeeps ==
  ASSUME CInv, NEW b \in 0 .. Len(decls), EnterClass(b)
  PROVE  CInv'
<1>1. PICK m \in Nat, j \in 0 .. Len(classes) : Entered(b, m, j) BY EnterIs
<1>2. PICK n \in Nat : n = Len(scopes) BY TreeFacts
<1>3. PICK l \in Nat : l = Len(classes) BY HeapFacts
<1>4. Placed(m, n, l) BY <1>1, <1>2, <1>3, EnterPlaces
<1>5. /\ classes' = classes /\ current' = n + 1 /\ base' = b /\ parts' = << >>
      /\ decls' = decls /\ phase' = phase /\ phase = "parse"
      /\ cls' = cls /\ cg' = cg /\ visited' = visited
  BY <1>2 DEF EnterClass, generatorVars
<1>6. Rows' /\ InClass' BY <1>1, <1>2, <1>3, <1>4, EnterRows
<1>7. KidsAreMethods' /\ KidsApart' BY <1>2, <1>4, EnterKids
<1>8. ClassesLined' /\ OwnLined' /\ BaseCopied' /\ PartsRead'
  BY <1>1, <1>2, <1>3, <1>4, EnterLines
<1>9. TypeOK'
  <2>1. IsTree(scopes') /\ Len(scopes') = n + 1 + m BY <1>1, <1>2 DEF Entered
  <2>2. Len(scopes') >= Len(scopes) /\ current' \in 1 .. Len(scopes') BY ONLY <1>2, <1>5, <2>1
  <2>3. DeclsKept BY <1>5 DEF DeclsKept, SameDecl
  <2>4. /\ decls' \in Seq(DeclType) /\ Len(decls') >= Len(decls)
        /\ \A x \in 1 .. Len(decls') : x > Len(decls) => DeclInRange(x)
    <3>1. decls \in Seq(DeclType) /\ Len(decls) \in Nat BY HeapFacts
    <3>2. \A x \in 1 .. Len(decls) : ~(x > Len(decls)) BY ONLY <3>1
    <3> QED BY ONLY <1>5, <3>1, <3>2
  <2>5. parts' \in Seq(1 .. Len(decls')) BY <1>5
  <2>6. classes' \in Seq(1 .. Len(decls')) /\ Len(classes') >= Len(classes)
        /\ base' \in 0 .. Len(decls')
    BY <1>3, <1>5, HeapFacts
  <2>7. phase' \in {"parse", "codegen", "failed"} BY <1>5
  <2>8. UNCHANGED generatorVars BY <1>5 DEF generatorVars
  <2> QED BY ONLY CInv, <2>1, <2>2, <2>3, <2>4, <2>5, <2>6, <2>7, <2>8, TypesKept
<1>10. MethodsNamed' /\ ClassesRead'
  <2>1. MethodsNamed /\ ClassesRead BY DEF CInv
  <2> QED BY ONLY <1>5, <2>1 DEF MethodsNamed, ClassesRead
<1>11. Still'
  <2>1. cls = 0 /\ cg = Module /\ visited = {} /\ \A s \in 1 .. n : scopes[s].cursor = 0
    BY <1>2, <1>5 DEF CInv, Still
  <2>2. ASSUME NEW t \in 1 .. Len(scopes') PROVE scopes'[t].cursor = 0
    <3>1. Len(scopes') = n + 1 + m BY <1>4 DEF Placed
    <3>2. CASE t \in 1 .. n
      <4>1. scopes[t].cursor = 0 BY <2>1, <3>2
      <4>2. scopes'[t].cursor = scopes[t].cursor
        <5>1. CASE t = Module BY <1>1, <5>1 DEF Entered
        <5>2. CASE t # Module BY <1>1, <1>2, <3>2, <5>2 DEF Entered
        <5> QED BY <5>1, <5>2
      <4> QED BY <4>1, <4>2
    <3>3. CASE t = n + 1 BY <1>1, <1>2, <3>3 DEF Entered
    <3>4. CASE t > n + 1
      <4>1. PICK k \in 1 .. m : t = n + 1 + k
        <5>1. t - (n + 1) \in 1 .. m /\ t = n + 1 + (t - (n + 1))
          BY ONLY <3>1, <3>4, n \in Nat, m \in Nat, t \in 1 .. Len(scopes')
        <5> QED BY <5>1
      <4>2. b # NoDecl /\ j \in 1 .. l /\ m = Len(Kids(Row[j]))
        BY <1>1, <1>3, <4>1 DEF Entered
      <4>3. Kids(Row[j])[k] \in 1 .. n BY <1>4, <4>1, <4>2 DEF Placed
      <4>4. scopes'[n + 1 + k].cursor = scopes[Kids(Row[j])[k]].cursor
        BY <1>1, <1>2, <4>1 DEF Entered
      <4> QED BY ONLY <2>1, <4>1, <4>3, <4>4
    <3> QED BY ONLY <3>1, <3>2, <3>3, <3>4, n \in Nat, m \in Nat, t \in 1 .. Len(scopes')
  <2> QED BY ONLY <1>5, <2>1, <2>2 DEF Still
<1>12. InStep'
  <2>1. IsTree(scopes') BY <1>1 DEF Entered
  <2>2. phase' = "parse" BY <1>5
  <2> QED BY ONLY <1>6, <1>11, <2>1, <2>2, StillInStep
<1> QED BY ONLY <1>6, <1>7, <1>8, <1>9, <1>10, <1>11, <1>12 DEF CInv

\* The end of a class: id is its declaration, and only the scopes of its member
\* functions may have changed.
Left(id) ==
  /\ phase = "parse" /\ InClass
  /\ DeclsKept /\ decls' \in Seq(DeclType) /\ Len(decls') >= Len(decls)
  /\ \A x \in 1 .. Len(decls') : x > Len(decls) =>
       /\ DeclInRange(x) /\ decls'[x].origin <= x
       /\ decls'[x].kind = "method" => decls'[x].real \in Method
  /\ id \in 1 .. Len(decls')
  /\ decls'[id].kind = "class" /\ decls'[id].name = ClassName[Len(classes) + 1]
  /\ decls'[id].class # NoDecl => \E j \in 1 .. Len(classes) : classes[j] = decls'[id].class
  /\ IsTree(scopes') /\ Len(scopes') = Len(scopes)
  /\ \A t \in 1 .. Len(scopes) :
       /\ scopes'[t].kind = scopes[t].kind /\ scopes'[t].children = scopes[t].children
       /\ scopes'[t].cursor = scopes[t].cursor
       /\ (\A i \in 1 .. Len(Kids(current)) : Kids(current)[i] # t) => Alike(scopes[t], scopes'[t])
  /\ classes' = Append(classes, id) /\ current' = Module
  /\ UNCHANGED <<parts, base, phase, generatorVars>>

LastLined(l, ms, s) ==
  StraightTo(l + 1)' => \E g \in Places(ms, s)' : Lined(ms, s, g)'

LEMMA LeftAlike ==
  ASSUME CInv, NEW id, Left(id)
  PROVE  /\ LoopsKept /\ Alike(scopes[Module], scopes'[Module])
         /\ \A k \in 1 .. Len(Row) : Alike(scopes[Row[k]], scopes'[Row[k]])
         /\ \A k \in 1 .. Len(classes) : KidsKept(Row[k])
<1>1. InClass BY DEF Left
<1>2. PICK l \in Nat : l = Len(classes) BY HeapFacts
<1>3. PICK s, K \in Nat : s = current /\ K = Len(Kids(s)) BY <1>1, AtHand, TreeFacts
<1>4. Len(Row) = l + 1 /\ s = Row[l + 1] BY <1>1, <1>2, <1>3, AtHand
<1>5. \A i \in 1 .. K : scopes[Kids(s)[i]].kind = "method" BY <1>3, <1>4, TreeFacts
<1>6. \A t \in 1 .. Len(scopes) : (\A i \in 1 .. K : Kids(s)[i] # t) => Alike(scopes[t], scopes'[t])
  BY <1>3 DEF Left
<1>7. \A t \in 1 .. Len(scopes) : scopes[t].kind # "method" => Alike(scopes[t], scopes'[t])
  BY <1>5, <1>6
<1>8. Alike(scopes[Module], scopes'[Module]) BY <1>7, TreeFacts
<1>9. ASSUME NEW k \in 1 .. Len(Row) PROVE Alike(scopes[Row[k]], scopes'[Row[k]])
  BY <1>7, TreeFacts
<1>10. LoopsKept
  <2>1. Len(scopes') >= Len(scopes) /\ Len(scopes') \in Nat BY TreeFacts DEF Left
  <2> QED BY <1>7, <2>1 DEF LoopsKept
<1>11. ASSUME NEW k \in 1 .. l PROVE KidsKept(Row[k])
  <2>1. k \in 1 .. Len(Row) /\ l + 1 \in 1 .. Len(Row) /\ k # l + 1 BY ONLY <1>4, l \in Nat, k \in 1 .. l
  <2>2. Row[k] \in 1 .. Len(scopes) BY <2>1, TreeFacts
  <2>3. scopes'[Row[k]].children = scopes[Row[k]].children BY <1>9, <2>1 DEF Alike
  <2>4. ASSUME NEW i \in 1 .. Len(Kids(Row[k]))
        PROVE  Alike(scopes[Kids(Row[k])[i]], scopes'[Kids(Row[k])[i]])
    <3>1. Kids(Row[k])[i] \in 1 .. Len(scopes) BY <2>2, TreeFacts
    <3>2. \A x \in 1 .. K : Kids(s)[x] # Kids(Row[k])[i]
      <4>1. \A x \in 1 .. Len(Kids(Row[l + 1])) :
              Kids(Row[l + 1])[x] = Kids(Row[k])[i] => l + 1 = k
        BY <2>1 DEF CInv, KidsApart
      <4> QED BY ONLY <1>3, <1>4, <2>1, <4>1
    <3> QED BY ONLY <1>6, <3>1, <3>2
  <2> QED BY ONLY <2>3, <2>4 DEF KidsKept
<1> QED BY ONLY <1>2, <1>8, <1>9, <1>10, <1>11

LEMMA LeftKeeps ==
  ASSUME CInv, NEW id, Left(id), NEW l \in Nat, l = Len(classes), NEW s, s = current,
         NEW ms, ms = decls'[id].methods, LastLined(l, ms, s)
  PROVE  CInv'
<1>1. InClass /\ phase = "parse" BY DEF Left
<1>2. l \in Nat /\ l = Len(classes) OBVIOUS
<1>3. s = current /\ ms = decls'[id].methods OBVIOUS
<1>4. /\ Len(Row) = l + 1 /\ s = Row[l + 1]
      /\ \A k \in 1 .. Len(Row) : k \in 1 .. l \/ k = l + 1
  BY <1>1, <1>2, <1>3, AtHand
<1>5. /\ LoopsKept /\ Alike(scopes[Module], scopes'[Module])
      /\ (\A k \in 1 .. Len(Row) : Alike(scopes[Row[k]], scopes'[Row[k]]))
      /\ \A k \in 1 .. Len(classes) : KidsKept(Row[k])
  BY LeftAlike
<1>6. /\ classes' = Append(classes, id) /\ current' = Module /\ parts' = parts /\ base' = base
      /\ phase' = phase /\ cls' = cls /\ cg' = cg /\ visited' = visited
      /\ IsTree(scopes') /\ Len(scopes') = Len(scopes) /\ id \in 1 .. Len(decls')
      /\ UNCHANGED generatorVars
  BY DEF Left, generatorVars
<1>7. DeclsKept /\ decls' \in Seq(DeclType) /\ Len(decls') >= Len(decls) BY DEF Left
<1>8. PICK N \in Nat, M \in Nat, P \in {1 .. Len(decls')} : N = Len(decls) /\ M = Len(decls') /\ P = 1 .. M
  BY <1>7, HeapFacts
<1>9. \A x \in 1 .. N : x \in 1 .. M BY <1>7, <1>8
<1>10. classes \in Seq(P) /\ parts \in Seq(P) /\ base \in 0 .. M
  <2>1. /\ classes \in Seq(1 .. N) /\ parts \in Seq(1 .. N) /\ base \in 0 .. N
        /\ (\A k \in 1 .. Len(classes) : classes[k] \in 1 .. N)
        /\ \A k \in 1 .. Len(parts) : parts[k] \in 1 .. N
    BY <1>8, HeapFacts
  <2>2. classes \in Seq(P)
    <3>1. \A k \in 1 .. Len(classes) : classes[k] \in P BY ONLY <1>8, <1>9, <2>1
    <3> QED BY ONLY <2>1, <3>1, Wider
  <2>3. parts \in Seq(P)
    <3>1. \A k \in 1 .. Len(parts) : parts[k] \in P BY ONLY <1>8, <1>9, <2>1
    <3> QED BY ONLY <2>1, <3>1, Wider
  <2>4. base \in 0 .. M BY ONLY <1>7, <1>8, <2>1
  <2> QED BY ONLY <2>2, <2>3, <2>4
<1>11. /\ classes' \in Seq(P) /\ Len(classes') = l + 1 /\ classes'[l + 1] = id
       /\ \A k \in 1 .. l : classes'[k] = classes[k]
  <2>1. id \in P BY <1>6, <1>8
  <2> QED BY ONLY <1>2, <1>6, <1>10, <2>1, AppendFacts
<1>12. TypeOK'
  <2>1. Len(scopes') >= Len(scopes) /\ Len(classes') >= Len(classes)
    BY <1>2, <1>6, <1>11, TreeFacts
  <2>2. \A x \in 1 .. Len(decls') : x > Len(decls) => DeclInRange(x) BY DEF Left
  <2>3. parts' \in Seq(1 .. Len(decls')) /\ classes' \in Seq(1 .. Len(decls'))
        /\ base' \in 0 .. Len(decls')
    BY ONLY <1>6, <1>8, <1>10, <1>11
  <2>4. phase' \in {"parse", "codegen", "failed"} BY <1>1, <1>6
  <2>5. current' \in 1 .. Len(scopes') BY <1>6, TreeFacts
  <2> QED BY ONLY CInv, <1>6, <1>7, <2>1, <2>2, <2>3, <2>4, <2>5, TypesKept
<1>13. \A k \in 1 .. l + 1 : k \in 1 .. l \/ k = l + 1 BY ONLY l \in Nat
<1>14. Rows'
  <2>1. /\ scopes'[Module].kind = scopes[Module].kind
        /\ scopes'[Module].children = scopes[Module].children
    BY ONLY <1>5 DEF Alike
  <2>2. ASSUME NEW k \in 1 .. Len(Row)
        PROVE  /\ scopes'[Row[k]].kind = "class" /\ ~scopes'[Row[k]].external
               /\ scopes'[Row[k]].name = scopes[Row[k]].name
               /\ scopes'[Row[k]].parent = scopes[Row[k]].parent
    <3>1. scopes[Row[k]].kind = "class" /\ ~scopes[Row[k]].external BY TreeFacts
    <3> QED BY ONLY <1>5, <3>1, k \in 1 .. Len(Row) DEF Alike
  <2>3. Len(Row) = Len(classes') + (IF current' # Module THEN 1 ELSE 0) BY <1>4, <1>6, <1>11
  <2>4. current' # Module => InClass /\ current' = current /\ phase' = "parse" BY <1>6
  <2>5. Len(scopes') >= Len(scopes) /\ Len(scopes') \in Nat BY <1>6, TreeFacts
  <2> QED BY ONLY CInv, <2>1, <2>2, <2>3, <2>4, <2>5, RowsKept
<1>15. ClassesRead'
  <2>1. ASSUME NEW k \in 1 .. l
        PROVE  LET c == decls'[classes'[k]]
               IN  /\ c.kind = "class" /\ c.name = ClassName[k]
                   /\ c.class # NoDecl => \E j \in 1 .. k - 1 : classes'[j] = c.class
    <3>1. PICK x \in 1 .. N : x = classes[k] BY <1>2, <1>8, HeapFacts
    <3>2. SameDecl(decls[x], decls'[x]) BY <1>7, <1>8 DEF DeclsKept
    <3>3. /\ decls[x].kind = "class" /\ decls[x].name = ClassName[k]
          /\ decls[x].class # NoDecl => \E j \in 1 .. k - 1 : classes[j] = decls[x].class
      BY <1>2, <3>1 DEF CInv, ClassesRead
    <3>4. classes'[k] = x BY <1>11, <3>1
    <3>5. \A j \in 1 .. k - 1 : classes'[j] = classes[j]
      <4>1. \A j \in 1 .. k - 1 : j \in 1 .. l BY ONLY l \in Nat, k \in 1 .. l
      <4> QED BY ONLY <1>11, <4>1
    <3> QED BY ONLY <3>2, <3>3, <3>4, <3>5 DEF SameDecl
  <2>2. /\ decls'[id].kind = "class" /\ decls'[id].name = ClassName[l + 1]
        /\ decls'[id].class # NoDecl => \E j \in 1 .. l : classes[j] = decls'[id].class
    BY <1>2 DEF Left
  <2>3. LET c == decls'[classes'[l + 1]]
        IN  /\ c.kind = "class" /\ c.name = ClassName[l + 1]
            /\ c.class # NoDecl => \E j \in 1 .. (l + 1) - 1 : classes'[j] = c.class
    <3>1. (l + 1) - 1 = l BY ONLY l \in Nat
    <3> QED BY ONLY <1>11, <2>2, <3>1
  <2> QED BY ONLY <1>11, <1>13, <2>1, <2>3 DEF ClassesRead
<1>16. MethodsNamed'
  <2> SUFFICES ASSUME NEW x \in 1 .. M
               PROVE  /\ decls'[x].origin <= x
                      /\ decls'[x].kind = "method" => decls'[x].real \in Method
    BY <1>8 DEF MethodsNamed
  <2>1. CASE x > N BY <1>8, <2>1 DEF Left
  <2>2. CASE ~(x > N)
    <3>1. x \in 1 .. N BY <1>8, <2>2
    <3>2. SameDecl(decls[x], decls'[x]) BY <1>7, <1>8, <3>1 DEF DeclsKept
    <3>3. decls[x].origin <= x /\ (decls[x].kind = "method" => decls[x].real \in Method)
      BY <1>8, <3>1, HeapFacts
    <3> QED BY ONLY <3>2, <3>3 DEF SameDecl
  <2> QED BY <2>1, <2>2
<1>17. KidsAreMethods' /\ KidsApart'
  <2>1. PICK r, n : r = scopes'[Module].children /\ n = Len(scopes) OBVIOUS
  <2>2. r = Row /\ n \in Nat BY <1>5, <2>1, TreeFacts DEF Alike, Row
  <2>3. \A t \in 1 .. n : scopes'[t].kind = scopes[t].kind /\ scopes'[t].children = Kids(t)
    BY <2>1 DEF Left, Kids
  <2>4. \A k \in 1 .. Len(r) : r[k] \in 1 .. n BY <2>1, <2>2, TreeFacts
  <2>5. \A k \in 1 .. Len(r) : \A i \in 1 .. Len(Kids(r[k])) :
          /\ Kids(r[k])[i] \in 1 .. n /\ scopes[Kids(r[k])[i]].kind = "method"
    BY <2>1, <2>2, TreeFacts, SMTT(40)
  <2>6. ASSUME NEW k \in 1 .. Len(r), NEW i \in 1 .. Len(scopes'[r[k]].children)
        PROVE  /\ scopes'[scopes'[r[k]].children[i]].kind = "method"
               /\ k \in 1 .. Len(Row) /\ i \in 1 .. Len(Kids(Row[k]))
               /\ scopes'[r[k]].children[i] = Kids(Row[k])[i]
               /\ ~(scopes'[r[k]].children[i] > n)
    <3>1. scopes'[r[k]].children = Kids(r[k]) BY ONLY <2>3, <2>4, k \in 1 .. Len(r)
    <3>2. PICK x \in 1 .. n : x = Kids(r[k])[i] /\ scopes[x].kind = "method"
      BY ONLY <2>5, <3>1, k \in 1 .. Len(r), i \in 1 .. Len(scopes'[r[k]].children)
    <3>3. ~(x > n) BY ONLY <2>2, x \in 1 .. n
    <3>4. scopes'[x].kind = "method" BY ONLY <2>3, <3>2, x \in 1 .. n
    <3> QED BY ONLY <2>2, <3>1, <3>2, <3>3, <3>4, k \in 1 .. Len(r), i \in 1 .. Len(scopes'[r[k]].children)
  <2>7. KidsOldOrNew(r, n) BY ONLY <2>6 DEF KidsOldOrNew
  <2> QED BY <2>1, <2>7, KidsStayApart
<1>18. ClassesLined'
  <2>1. ClassesKept
    <3>1. scopes'[Module].children = Row BY <1>5 DEF Alike, Row
    <3>2. Len(classes') >= Len(classes) /\ Len(classes') \in Nat BY ONLY <1>2, <1>11
    <3> QED BY ONLY <1>2, <1>5, <1>11, <3>1, <3>2 DEF ClassesKept
  <2>2. ASSUME NEW k \in 1 .. l, StraightTo(k)'
        PROVE  (\E g \in Places(decls[classes[k]].methods, Row[k]) :
                  Lined(decls[classes[k]].methods, Row[k], g))'
    BY <1>2, <1>5, <1>7, <2>1, <2>2, ClassesLinedKept
  <2>3. ASSUME StraightTo(l + 1)'
        PROVE  (\E g \in Places(decls[classes[l + 1]].methods, Row[l + 1]) :
                  Lined(decls[classes[l + 1]].methods, Row[l + 1], g))'
    <3>1. PICK g \in Places(ms, s)' : Lined(ms, s, g)' BY <2>3 DEF LastLined
    <3>2. Row'[l + 1] = s /\ decls'[classes'[l + 1]].methods = ms
      BY <1>3, <1>4, <1>5, <1>11 DEF Alike, Row
    <3>3. PICK u, x : u = Row'[l + 1] /\ x = classes'[l + 1] OBVIOUS
    <3>4. u = s /\ decls'[x].methods = ms BY <3>2, <3>3
    <3>5. \A i : BodyIn(decls[classes[l + 1]].methods[i], Row[l + 1])' <=> BodyIn(ms[i], s)'
      BY ONLY <3>2 DEF BodyIn
    <3>6. Lined(decls[classes[l + 1]].methods, Row[l + 1], g)'
      BY ONLY <3>1, <3>2, <3>5 DEF Lined, Kids
    <3>7. g \in Places(decls[classes[l + 1]].methods, Row[l + 1])'
      BY ONLY <3>1, <3>2 DEF Places, Kids
    <3> QED BY ONLY <3>6, <3>7
  <2> QED BY ONLY <1>11, <1>13, <2>2, <2>3 DEF ClassesLined
<1>19. PartsRead' /\ OwnLined' /\ BaseCopied'
  BY <1>6 DEF PartsRead, OwnLined, BaseCopied, InClass
<1>20. Still'
  <2>1. /\ cls = 0 /\ cg = Module /\ visited = {}
        /\ \A t \in 1 .. Len(scopes) : scopes[t].cursor = 0
    BY <1>1 DEF CInv, Still
  <2>2. \A t \in 1 .. Len(scopes) : scopes'[t].cursor = scopes[t].cursor BY DEF Left
  <2> QED BY ONLY <1>6, <2>1, <2>2 DEF Still
<1>21. InStep'
  <2>1. phase' = "parse" BY <1>1, <1>6
  <2> QED BY ONLY <1>6, <1>14, <1>20, <2>1, StillInStep
<1> QED BY ONLY <1>12, <1>14, <1>15, <1>16, <1>17, <1>18, <1>19, <1>20, <1>21 DEF CInv

\* The member functions of the class at hand are sequences of declarations.
LEMMA OwnPlain ==
  ASSUME CInv, NEW kinds
  PROVE  /\ Own(kinds) \in Seq(Nat)
         /\ \A i \in 1 .. Len(Own(kinds)) : Own(kinds)[i] \in 1 .. Len(decls)
<1>1. PICK s, n : s = Own(kinds) /\ n = Len(decls) /\ n \in Nat BY HeapFacts
<1>2. s \in Seq(1 .. n) /\ \A i \in 1 .. Len(s) : s[i] \in 1 .. n BY <1>1, OwnCounted
<1>3. \A i \in 1 .. Len(s) : s[i] \in Nat BY ONLY <1>2
<1>4. s \in Seq(Nat) BY ONLY <1>2, <1>3, Wider
<1> QED BY <1>1, <1>2, <1>4

\* What LeaveClass makes of the heap.
LeftPlain(id) ==
  /\ Left(id) /\ id = Len(decls) + 1 /\ Len(decls') = id
  /\ decls'[id].methods = Own(Body) /\ decls'[id].fields = Own({"field"})
  /\ decls'[id].class = NoDecl /\ decls'[id].real = ""
  /\ \A t \in 1 .. Len(scopes) : Alike(scopes[t], scopes'[t])
  /\ \A t \in 1 .. Len(scopes), x \in FieldName : scopes'[t].decl[x] = scopes[t].decl[x]

LEMMA LeaveClassIs ==
  ASSUME CInv, LeaveClass
  PROVE  LeftPlain(Len(decls) + 1)
<1>1. PICK l \in Nat, N \in Nat, id \in Nat : l = Len(classes) /\ N = Len(decls) /\ id = N + 1
  <2>1. Len(classes) \in Nat /\ Len(decls) \in Nat BY HeapFacts
  <2>2. Len(decls) + 1 \in Nat BY ONLY <2>1
  <2> QED BY ONLY <2>1, <2>2
<1>2. PICK s, nm, F, ms : /\ s = current /\ nm = ClassAtHand /\ F = Own({"field"})
                          /\ ms = Own(Body)
  OBVIOUS
<1>3. phase = "parse" /\ InClass BY DEF LeaveClass
<1>4. nm = ClassName[l + 1] /\ nm \in Symbol \cup {"Create"} /\ s \in 1 .. Len(scopes)
  BY <1>1, <1>2, <1>3, AtHand, ClassNames DEF ClassAtHand
<1>5. /\ F \in Seq(Nat) /\ ms \in Seq(Nat)
      /\ (\A i \in 1 .. Len(F) : F[i] \in 1 .. N) /\ (\A i \in 1 .. Len(ms) : ms[i] \in 1 .. N)
  BY <1>1, <1>2, OwnPlain
<1>6. PICK kind : kind = "class" /\ kind \in {"class", "field", "method", "constructor"} OBVIOUS
<1>7. PICK e, d : e = NewDecl(kind, nm) /\ d = [e EXCEPT !.fields = F, !.methods = ms] OBVIOUS
<1>8. /\ d \in DeclType /\ d.kind = "class" /\ d.name = nm /\ d.fields = F /\ d.methods = ms
      /\ d.class = NoDecl /\ d.home = None /\ d.origin = NoDecl /\ d.real = ""
  <2>1. IsDecl(NewDecl(kind, nm), kind, nm, 0, << >>, << >>, NoDecl, "", FALSE, None, NoDecl)
    BY ONLY <1>4, <1>6, NewDeclIs, Zenon
  <2>2. e \in DeclType BY ONLY <1>7, <2>1, Zenon DEF IsDecl
  <2>3. IsDecl(d, e.kind, e.name, e.index, F, ms, e.class, e.real, e.nested, e.home, e.origin)
    BY ONLY <1>5, <1>7, <2>2, DeclWith
  <2> QED BY ONLY <1>6, <1>7, <2>1, <2>3, ZenonT(40) DEF IsDecl
<1>9. /\ decls' = Append(decls, d) /\ scopes' = AddDecl(scopes, Module, nm, id)
      /\ classes' = Append(classes, id) /\ current' = Module
      /\ UNCHANGED <<parts, base, phase, generatorVars>>
  BY <1>1, <1>2, <1>6, <1>7 DEF LeaveClass, Body
<1>10. DeclAdded(scopes, Module, nm, id, scopes')
  <2>1. PICK sc, t, sc2 : sc = scopes /\ t = Module /\ sc2 = scopes' OBVIOUS
  <2>2. IsTree(sc) /\ t \in 1 .. Len(sc) BY <2>1, TreeFacts
  <2>3. sc2 = AddDecl(sc, t, nm, id) BY <1>9, <2>1
  <2>4. DeclAdded(sc, t, nm, id, sc2) BY ONLY <2>2, <2>3, id \in Nat, AddDeclIs
  <2> QED BY ONLY <2>1, <2>4
<1>11. /\ decls' \in Seq(DeclType) /\ Len(decls') = id /\ decls'[id] = d
       /\ \A x \in 1 .. N : decls'[x] = decls[x]
  <2>1. decls \in Seq(DeclType) /\ d \in DeclType BY <1>8, HeapFacts
  <2>2. decls' = Append(decls, d) BY <1>9
  <2> QED BY ONLY <1>1, <2>1, <2>2, AppendFacts
<1>12. DeclsKept BY ONLY <1>1, <1>11 DEF DeclsKept, SameDecl
<1>13. ASSUME NEW t \in 1 .. Len(scopes)
       PROVE  Alike(scopes[t], scopes'[t]) /\ scopes'[t].cursor = scopes[t].cursor
  BY ONLY <1>10, t \in 1 .. Len(scopes) DEF DeclAdded, IsScope, Alike
<1>14. Left(id)
  <2>1. Len(decls') >= Len(decls) /\ id \in 1 .. Len(decls') BY ONLY <1>1, <1>11
  <2>2. ASSUME NEW x \in 1 .. Len(decls'), x > Len(decls)
        PROVE  /\ DeclInRange(x) /\ decls'[x].origin <= x
               /\ decls'[x].kind = "method" => decls'[x].real \in Method
    <3>1. x = id BY ONLY <1>1, <1>11, <2>2, x \in 1 .. Len(decls')
    <3>2. decls'[x] = d BY <1>11, <3>1
    <3>3. \A i \in 1 .. N : i \in 1 .. id BY ONLY <1>1
    <3>4. Elements(F) \cup Elements(ms) \subseteq 1 .. id BY ONLY <1>5, <3>3 DEF Elements
    <3>5. 0 \in 0 .. id - 1 /\ 0 <= id BY ONLY <1>1
    <3>6. 0 \in 0 .. Len(scopes') BY <1>10, TreeFacts DEF DeclAdded
    <3>7. DeclInRange(x)
      BY ONLY <1>8, <1>11, <3>1, <3>2, <3>4, <3>5, <3>6 DEF DeclInRange, NoDecl, None
    <3> QED BY ONLY <1>8, <3>1, <3>2, <3>5, <3>7 DEF NoDecl
  <2>3. \A t \in 1 .. Len(scopes) :
          /\ scopes'[t].kind = scopes[t].kind /\ scopes'[t].children = scopes[t].children
          /\ scopes'[t].cursor = scopes[t].cursor
          /\ (\A i \in 1 .. Len(Kids(current)) : Kids(current)[i] # t)
             => Alike(scopes[t], scopes'[t])
    BY ONLY <1>13 DEF Alike
  <2>4. IsTree(scopes') /\ Len(scopes') = Len(scopes) BY ONLY <1>10 DEF DeclAdded
  <2>5. /\ decls'[id].kind = "class" /\ decls'[id].name = ClassName[Len(classes) + 1]
        /\ decls'[id].class = NoDecl
    BY ONLY <1>1, <1>4, <1>8, <1>11
  <2> QED BY ONLY <1>3, <1>9, <1>11, <1>12, <2>1, <2>2, <2>3, <2>4, <2>5 DEF Left
<1>15. ASSUME NEW t \in 1 .. Len(scopes), NEW x \in FieldName
       PROVE  scopes'[t].decl[x] = scopes[t].decl[x]
  <2>1. CASE t # Module BY ONLY <1>10, <2>1, t \in 1 .. Len(scopes) DEF DeclAdded
  <2>2. CASE t = Module
    <3>1. PICK q : q = scopes[Module].decl OBVIOUS
    <3>2. q \in [Symbol -> Nat] BY <2>2, <3>1, TreeFacts, ScopeFields
    <3>3. x \in Symbol BY ClassesAssumption, Zenon DEF ClassesAssumption, Symbol
    <3>4. nm # x
      <4>1. Len(classes) + 1 \in 1 .. Len(ClassName) BY <1>3, AtHand
      <4>2. PICK P, j : P = VarName \ FieldName /\ j = l + 1 OBVIOUS
      <4>3. ClassName \in Seq(P) BY <4>2, ClassesAssumption, Zenon DEF ClassesAssumption
      <4>4. nm \in P BY ONLY <1>1, <1>4, <4>1, <4>2, <4>3
      <4> QED BY ONLY <4>2, <4>4, x \in FieldName
    <3>5. scopes'[Module].decl = [q EXCEPT ![nm] = id]
      BY ONLY <1>10, <3>1 DEF DeclAdded, IsScope
    <3> QED BY ONLY <2>2, <3>1, <3>2, <3>3, <3>4, <3>5
  <2> QED BY <2>1, <2>2
<1> QED BY ONLY <1>1, <1>2, <1>8, <1>11, <1>13, <1>14, <1>15 DEF LeftPlain

\* The end of a class without a base keeps the invariant.
LEMMA LeaveClassKeeps ==
  ASSUME CInv, LeaveClass
  PROVE  CInv'
<1>1. PICK id, l, s, ms : /\ id = Len(decls) + 1 /\ l = Len(classes) /\ s = current
                          /\ ms = Own(Body)
  OBVIOUS
<1>2. LeftPlain(id) BY <1>1, LeaveClassIs
<1>3. /\ Left(id) /\ ms = decls'[id].methods
      /\ \A t \in 1 .. Len(scopes) : Alike(scopes[t], scopes'[t])
  BY ONLY <1>1, <1>2 DEF LeftPlain
<1>4. l \in Nat /\ s \in 1 .. Len(scopes) BY <1>1, HeapFacts
<1>5. InClass /\ DeclsKept BY <1>3 DEF Left
<1>6. PICK g \in Places(ms, s) : Lined(ms, s, g) BY <1>1, <1>5 DEF CInv, OwnLined
<1>7. LoopsKept BY <1>3, LeftAlike
<1>8. KidsKept(s)
  <2>1. \A i \in 1 .. Len(Kids(s)) : Kids(s)[i] \in 1 .. Len(scopes) BY <1>4, TreeFacts
  <2> QED BY ONLY <1>3, <1>4, <2>1 DEF KidsKept, Alike
<1>9. \A i \in 1 .. Len(ms) : ms[i] \in 1 .. Len(decls) BY <1>1, OwnPlain
<1>10. Lined(ms, s, g)' /\ g \in Places(ms, s)'
  BY <1>4, <1>5, <1>6, <1>7, <1>8, <1>9, LinedKept
<1>11. LastLined(l, ms, s) BY ONLY <1>10 DEF LastLined
<1> QED BY <1>1, <1>3, <1>4, <1>11, LeftKeeps

-----------------------------------------------------------------------------
(***************************************************************************)
(* The end of a class with a base.                                         *)
(***************************************************************************)

\* A set of places has a last.
LEMMA LastOfPlaces ==
  ASSUME NEW n \in Nat, NEW S, S \subseteq 1 .. n, S # {}
  PROVE  (CHOOSE i \in S : \A j \in S : j <= i) \in S
<1>1. PICK T : T = {n - i : i \in S} OBVIOUS
<1>2. T \subseteq Nat /\ T # {}
  <2>1. \A i \in S : n - i \in Nat BY ONLY n \in Nat, S \subseteq 1 .. n
  <2> QED BY ONLY <1>1, <2>1, S # {}
<1>3. PICK x \in T : \A y \in T : x <= y BY <1>2, LeastNatural
<1>4. PICK i \in S : x = n - i BY <1>1
<1>5. \A j \in S : j <= i
  <2> TAKE j \in S
  <2>1. n - i <= n - j BY <1>1, <1>3, <1>4
  <2> QED BY <2>1
<1> QED BY <1>5

\* What is among a sequence stands no further back than it does there.
LEMMA AmongShorter ==
  ASSUME NEW T, NEW s \in Seq(T), NEW A
  PROVE  Len(Among(s, A)) <= Len(s)
<1>1. PICK n \in Nat : n = Len(s) BY Len(s) \in Nat
<1>2. PICK t \in Seq(T) : t = Among(s, A) BY AmongPicks
<1>3. PICK h : Picks(s, A, t, h) BY <1>2, AmongPicks
<1>4. PICK m \in Nat : m = Len(t) BY Len(t) \in Nat
<1>5. \A i \in 1 .. m : h[i] \in 1 .. n BY <1>1, <1>3, <1>4 DEF Picks
<1>6. \A i, j \in 1 .. m : i < j => h[i] < h[j] BY <1>3, <1>4 DEF Picks
<1>7. PICK K : K = {i \in Nat : i \in 1 .. m => i <= h[i]} OBVIOUS
<1>8. 0 \in K BY <1>7
<1>9. ASSUME NEW i \in Nat, i \in K PROVE i + 1 \in K
  <2> SUFFICES ASSUME i + 1 \in 1 .. m PROVE i + 1 <= h[i + 1] BY <1>7
  <2>1. CASE i = 0 BY ONLY <1>5, <2>1, i + 1 \in 1 .. m, n \in Nat
  <2>2. CASE i # 0
    <3>1. i \in 1 .. m BY <2>2
    <3>2. i <= h[i] /\ h[i] < h[i + 1] BY <1>6, <1>7, <1>9, <3>1
    <3>3. h[i] \in Nat /\ h[i + 1] \in Nat BY <1>5, <3>1
    <3> QED BY ONLY <3>2, <3>3, i \in Nat
  <2> QED BY <2>1, <2>2
<1>10. \A i \in Nat : i \in K
  <2>1. \A i \in Nat : i \in K => i + 1 \in K BY <1>9
  <2> QED BY ONLY <1>8, <2>1, Counting
<1>11. m <= n
  <2>1. CASE m = 0 BY <2>1
  <2>2. CASE m # 0
    <3>1. m \in 1 .. m BY <2>2
    <3>2. m <= h[m] /\ h[m] \in 1 .. n BY <1>5, <1>7, <1>10, <3>1
    <3> QED BY ONLY <3>2, m \in Nat, n \in Nat
  <2> QED BY <2>1, <2>2
<1> QED BY <1>1, <1>2, <1>4, <1>11

\* Only the numbers of declarations change.
LEMMA NumberedIs ==
  ASSUME CInv
  PROVE  /\ Numbered \in Seq(DeclType) /\ Len(Numbered) = Len(decls)
         /\ \A x \in 1 .. Len(decls) : SameDecl(decls[x], Numbered[x])
<1>1. PICK n \in Nat : n = Len(decls) BY HeapFacts
<1>2. PICK A, t : A = DeclOf({"field"}) /\ t = Own({"field"}) OBVIOUS
<1>3. PICK p, K : p = Len(parts) /\ K = 1 .. p OBVIOUS
<1>4. p \in Nat /\ parts \in Seq(1 .. n) BY <1>1, <1>3, HeapFacts
<1>5. ASSUME NEW x \in 1 .. n
      PROVE  Numbered[x] \in DeclType /\ SameDecl(decls[x], Numbered[x])
  <2>1. decls[x] \in DeclType BY <1>1, HeapFacts
  <2>2. CASE x \in {parts[k] : k \in 1 .. Len(parts)} /\ decls[x].kind = "field"
    <3>1. PICK i : i = CHOOSE k \in 1 .. Len(parts) : Own({"field"})[k] = x OBVIOUS
    <3>2. Numbered[x] = [decls[x] EXCEPT !.index = i]
      BY ONLY <1>1, <2>2, <3>1, x \in 1 .. n DEF Numbered
    <3>3. PICK k \in K : parts[k] = x BY <1>3, <2>2
    <3>4. x \in A BY <1>1, <1>2, <2>2 DEF DeclOf
    <3>5. t = Among(parts, A) BY <1>2 DEF Own
    <3>6. PICK h : Picks(parts, A, t, h) BY <1>4, <3>5, AmongPicks
    <3>7. PICK y \in 1 .. Len(t) : h[y] = k /\ t[y] = parts[h[y]]
      BY <1>3, <3>3, <3>4, <3>6 DEF Picks
    <3>8. Len(t) <= p /\ Len(t) \in Nat
      <4>1. Len(t) <= p BY <1>3, <1>4, <3>5, AmongShorter
      <4> QED BY <1>2, <4>1, OwnCounted
    <3>9. y \in 1 .. Len(parts) /\ Own({"field"})[y] = x
      BY <1>2, <1>3, <1>4, <3>3, <3>7, <3>8
    <3>10. i \in 1 .. Len(parts) BY ONLY <3>1, <3>9
    <3>11. i \in Nat BY <1>3, <1>4, <3>10
    <3>12. IsDecl(Numbered[x], decls[x].kind, decls[x].name, i, decls[x].fields,
                  decls[x].methods, decls[x].class, decls[x].real, decls[x].nested,
                  decls[x].home, decls[x].origin)
      <4>1. PICK d : d = decls[x] OBVIOUS
      <4>2. d \in DeclType /\ Numbered[x] = [d EXCEPT !.index = i] BY <2>1, <3>2, <4>1
      <4>3. IsDecl([d EXCEPT !.index = i], d.kind, d.name, i, d.fields, d.methods, d.class,
                   d.real, d.nested, d.home, d.origin)
        BY ONLY <3>11, <4>2, DeclWith
      <4> QED BY ONLY <4>1, <4>2, <4>3
    <3> QED BY ONLY <3>12 DEF IsDecl, SameDecl
  <2>3. CASE ~(x \in {parts[k] : k \in 1 .. Len(parts)} /\ decls[x].kind = "field")
    <3>1. Numbered[x] = decls[x] BY ONLY <1>1, <2>3, x \in 1 .. n DEF Numbered
    <3> QED BY ONLY <2>1, <3>1 DEF SameDecl
  <2> QED BY <2>2, <2>3
<1>6. Numbered = [x \in 1 .. n |-> Numbered[x]] BY ONLY <1>1 DEF Numbered
<1>7. PICK f : f = Numbered OBVIOUS
<1>8. f = [x \in 1 .. n |-> f[x]] /\ \A x \in 1 .. n : f[x] \in DeclType BY <1>5, <1>6, <1>7
<1>9. f \in Seq(DeclType) /\ Len(f) = n BY ONLY <1>8, n \in Nat
<1> QED BY <1>1, <1>5, <1>7, <1>9

Overridden(d) == \E x \in 1 .. Len(parts) : decls[parts[x]].real = decls[d].real

\* The methods that are inherited, in the order in which the base has them: none that is
\* overridden, and all of them if no method is.
InheritedBy(ms, h) ==
  /\ Inherited \in Seq(Nat) /\ Len(Inherited) \in Nat
  /\ \A k \in 1 .. Len(Inherited) :
       /\ h[k] \in 1 .. Len(ms) /\ Inherited[k] = ms[h[k]]
       /\ Inherited[k] \in 1 .. Len(decls) /\ decls[Inherited[k]].kind = "method"
       /\ ~Overridden(Inherited[k])
  /\ \A i, j \in 1 .. Len(Inherited) : i < j => h[i] < h[j]
  /\ (\A i \in 1 .. Len(ms) : decls[ms[i]].kind = "method" => ~Overridden(ms[i])) =>
       \A i \in 1 .. Len(ms) : ms[i] \in 1 .. Len(decls) /\ decls[ms[i]].kind = "method" =>
         \E k \in 1 .. Len(Inherited) : Inherited[k] = ms[i]

LEMMA InheritedFrom ==
  ASSUME CInv, base \in 1 .. Len(decls), NEW ms, ms = decls[base].methods
  PROVE  \E h : InheritedBy(ms, h)
<1>1. PICK A : A = DeclOf({"method"}) OBVIOUS
<1>2. ms \in Seq(Nat) BY HeapFacts, Zenon DEF DeclType
<1>3. PICK t \in Seq(Nat) : t = Among(ms, A) BY <1>2, AmongPicks
<1>4. PICK h : Picks(ms, A, t, h) BY <1>2, <1>3, AmongPicks
<1>5. \A x : x \in A <=> x \in 1 .. Len(decls) /\ decls[x].kind = "method" BY <1>1 DEF DeclOf
<1>6. \A k \in 1 .. Len(t) :
        /\ h[k] \in 1 .. Len(ms) /\ t[k] = ms[h[k]]
        /\ t[k] \in 1 .. Len(decls) /\ decls[t[k]].kind = "method"
  BY ONLY <1>4, <1>5 DEF Picks
<1>7. \A i, j \in 1 .. Len(t) : i < j => h[i] < h[j] BY ONLY <1>4 DEF Picks
<1>8. PICK at : at = {k \in 1 .. Len(t) : Overridden(t[k])} OBVIOUS
<1>9. Inherited = IF at = {} THEN t ELSE SubSeq(t, 1, Least(at) - 1)
  BY <1>1, <1>3, <1>8 DEF Inherited, Overridden
<1>10. Len(t) \in Nat BY <1>3
<1>11. CASE at = {}
  <2>1. \A k \in 1 .. Len(t) : ~Overridden(t[k]) BY ONLY <1>8, <1>11
  <2>2. ASSUME NEW i \in 1 .. Len(ms), ms[i] \in 1 .. Len(decls), decls[ms[i]].kind = "method"
        PROVE  \E k \in 1 .. Len(t) : t[k] = ms[i]
    <3>1. ms[i] \in A BY ONLY <1>5, <2>2
    <3>2. \E k \in 1 .. Len(t) : h[k] = i BY ONLY <1>4, <3>1, i \in 1 .. Len(ms) DEF Picks
    <3> QED BY ONLY <1>6, <3>2
  <2>3. Inherited = t BY <1>9, <1>11
  <2>4. InheritedBy(ms, h)
    BY ONLY <1>6, <1>7, <1>10, <2>1, <2>2, <2>3, t \in Seq(Nat) DEF InheritedBy
  <2> QED BY <2>4
<1>12. CASE at # {}
  <2>1. at \in SUBSET Nat BY <1>8, <1>10
  <2>2. Least(at) \in at /\ \A k \in at : Least(at) <= k BY ONLY <1>12, <2>1, LeastIsLeast
  <2>3. PICK l : l = Least(at) OBVIOUS
  <2>4. l \in 1 .. Len(t) /\ Overridden(t[l]) BY ONLY <1>8, <2>2, <2>3
  <2>5. PICK b \in Nat : b = l - 1 /\ b <= Len(t) BY ONLY <1>10, <2>4
  <2>6. PICK u : u = SubSeq(t, 1, b) OBVIOUS
  <2>7. /\ u \in Seq(Nat) /\ Len(u) = b /\ \A k \in 1 .. b : u[k] = t[k] /\ k \in 1 .. Len(t)
    BY ONLY <1>10, <2>5, <2>6, t \in Seq(Nat)
  <2>8. Inherited = u BY <1>9, <1>12, <2>3, <2>5, <2>6
  <2>9. \A k \in 1 .. b : ~Overridden(t[k])
    <3>1. \A k \in 1 .. b : k \notin at BY ONLY <2>1, <2>2, <2>3, <2>4, <2>5
    <3> QED BY ONLY <1>8, <2>7, <3>1
  <2>10. ~ \A i \in 1 .. Len(ms) : decls[ms[i]].kind = "method" => ~Overridden(ms[i])
    BY ONLY <1>6, <2>4
  <2>11. \A k \in 1 .. Len(u) :
           /\ h[k] \in 1 .. Len(ms) /\ u[k] = ms[h[k]]
           /\ u[k] \in 1 .. Len(decls) /\ decls[u[k]].kind = "method" /\ ~Overridden(u[k])
    BY ONLY <1>6, <2>7, <2>9
  <2>12. \A i, j \in 1 .. Len(u) : i < j => h[i] < h[j] BY ONLY <1>7, <2>7
  <2>13. InheritedBy(ms, h)
    BY ONLY <2>5, <2>7, <2>8, <2>10, <2>11, <2>12 DEF InheritedBy
  <2> QED BY <2>13
<1> QED BY <1>11, <1>12

\* What is inherited are methods of the base.
LEMMA InheritedIs ==
  ASSUME CInv, base \in 1 .. Len(decls)
  PROVE  /\ Inherited \in Seq(Nat) /\ Len(Inherited) \in Nat
         /\ \A k \in 1 .. Len(Inherited) :
              /\ Inherited[k] \in 1 .. Len(decls) /\ decls[Inherited[k]].kind = "method"
              /\ \E i \in 1 .. Len(decls[base].methods) : decls[base].methods[i] = Inherited[k]
<1>1. PICK ms : ms = decls[base].methods OBVIOUS
<1>2. PICK h : InheritedBy(ms, h) BY <1>1, InheritedFrom
<1> QED BY ONLY <1>1, <1>2 DEF InheritedBy

\* The scope that was copied for a method.
LEMMA CopiedScopeIs ==
  ASSUME CInv, InClass, NEW d
  PROVE  /\ CopiedScope(d) \in 0 .. Len(scopes)
         /\ CopiedScope(d) # None =>
              \E a \in 1 .. Len(Kids(current)) :
                /\ CopiedScope(d) = Kids(current)[a]
                /\ scopes[CopiedScope(d)].external
         /\ CopiedScope(d) = None =>
              \A a \in 1 .. Len(Kids(current)) :
                scopes[Kids(current)[a]].external => scopes[Kids(current)[a]].name # decls[d].name
<1>1. PICK s, c : s = current /\ c = Kids(s) OBVIOUS
<1>2. s \in 1 .. Len(scopes) BY <1>1, HeapFacts
<1>3. Len(c) \in Nat /\ \A a \in 1 .. Len(c) : c[a] \in 1 .. Len(scopes) BY <1>1, <1>2, TreeFacts
<1>4. \A a \in 1 .. Len(c) : scopes[c[a]].kind = "method"
  <2>1. PICK l \in Nat : l = Len(classes) BY HeapFacts
  <2>2. Len(Row) = l + 1 /\ s = Row[l + 1] BY <1>1, <2>1, AtHand
  <2>3. l + 1 \in 1 .. Len(Row) BY ONLY <2>2, l \in Nat
  <2> QED BY <1>1, <2>2, <2>3, TreeFacts, SMTT(40)
<1>5. PICK at : at = {k \in 1 .. Len(c) : /\ scopes[c[k]].kind = "method" /\ scopes[c[k]].external
                                          /\ scopes[c[k]].name = decls[d].name}
  OBVIOUS
<1>6. CopiedScope(d) = IF at = {} THEN None ELSE c[Least(at)]
  BY <1>1, <1>5 DEF CopiedScope, Kids
<1>7. CASE at = {}
  <2>1. CopiedScope(d) = None BY <1>6, <1>7
  <2>2. \A a \in 1 .. Len(c) : scopes[c[a]].external => scopes[c[a]].name # decls[d].name
    BY <1>4, <1>5, <1>7
  <2>3. None \in 0 .. Len(scopes) BY TreeFacts DEF None
  <2> QED BY <1>1, <2>1, <2>2, <2>3
<1>8. CASE at # {}
  <2>1. at \in SUBSET Nat BY <1>3, <1>5
  <2>2. PICK a \in at : a = Least(at) BY <1>8, <2>1, LeastIsLeast
  <2>3. a \in 1 .. Len(c) /\ scopes[c[a]].external /\ c[a] \in 1 .. Len(scopes)
    BY <1>3, <1>5
  <2>4. CopiedScope(d) = c[a] BY <1>6, <1>8, <2>2
  <2>5. c[a] \in 0 .. Len(scopes) /\ c[a] # None
    <3>1. PICK x, n : x = c[a] /\ n = Len(scopes) /\ n \in Nat BY TreeFacts, Zenon
    <3>2. x \in 1 .. n BY <2>3, <3>1
    <3>3. x \in 0 .. n /\ x # 0 BY ONLY <3>1, <3>2
    <3> QED BY ONLY <3>1, <3>3 DEF None
  <2> QED BY <1>1, <2>3, <2>4, <2>5
<1> QED BY <1>7, <1>8

\* The parts of LeaveDerived.
Copies ==
  [k \in 1 .. Len(Inherited) |->
     [decls[Inherited[k]] EXCEPT
        !.name = NewName(Inherited[k]), !.home = CopiedScope(Inherited[k])]]

Adopted(s) ==
  [scopes[s] EXCEPT !.name = Copies[CHOOSE k \in 1 .. Len(Copies) : Copies[k].home = s].name,
                    !.external = FALSE, !.parent = current]

Symbols(old) ==
  [n \in Symbol |->
     LET k == {i \in 1 .. Len(Copies) : Copies[i].name = n}
         f == {i \in 1 .. Len(decls[base].fields) : decls[decls[base].fields[i]].name = n}
     IN  IF k # {} THEN Len(decls) + 1 + Least(k)
         ELSE IF f # {} THEN decls[base].fields[CHOOSE i \in f : \A j \in f : j <= i]
         ELSE old[n]]

BaseField == [NewDecl("field", decls[base].name) EXCEPT !.class = base]

Derived ==
  [NewDecl("class", ClassAtHand) EXCEPT
     !.class = base,
     !.fields = FieldsOf(Len(decls) + 1),
     !.methods = Reverse([k \in 1 .. Len(Copies) |-> Len(decls) + 1 + k])
                 \o Own({"method", "constructor"})]

AdoptedTree ==
  [s \in 1 .. Len(scopes) |->
     IF \E k \in 1 .. Len(Copies) : Copies[k].home = s THEN Adopted(s)
     ELSE IF s = current
     THEN [scopes[s] EXCEPT !.decl = Symbols(@)]
     ELSE IF s = Module
     THEN [scopes[s] EXCEPT !.decl[ClassAtHand] = Len(decls) + 1 + Len(Copies) + 1]
     ELSE scopes[s]]

LEMMA LeaveDerivedIs ==
  ASSUME LeaveDerived
  PROVE  /\ phase = "parse" /\ InClass /\ base # NoDecl
         /\ decls' = Append(Numbered, BaseField) \o Copies \o <<Derived>>
         /\ scopes' = AdoptedTree
         /\ classes' = Append(classes, Len(decls) + 1 + Len(Copies) + 1)
         /\ current' = Module
         /\ UNCHANGED <<parts, base, phase, generatorVars>>
BY Zenon DEF LeaveDerived, Copies, Adopted, Symbols, BaseField, Derived, AdoptedTree

\* The base is a class that was read.
LEMMA BaseIs ==
  ASSUME CInv, InClass, base # NoDecl
  PROVE  /\ base \in 1 .. Len(decls) /\ decls[base] \in DeclType
         /\ \E j \in 1 .. Len(classes) : classes[j] = base
<1>1. PICK j \in 1 .. Len(classes) : classes[j] = base BY DEF CInv, PartsRead
<1>2. base \in 1 .. Len(decls) BY <1>1, HeapFacts
<1> QED BY <1>1, <1>2, HeapFacts

CopyIs(q, d, name, home) ==
  /\ q \in DeclType /\ q.kind = "method" /\ q.name = name /\ q.home = home
  /\ q.fields = d.fields /\ q.methods = d.methods /\ q.class = d.class
  /\ q.real = d.real /\ q.nested = d.nested /\ q.origin = d.origin

LEMMA CopiesAre ==
  ASSUME CInv, InClass, base # NoDecl
  PROVE  /\ Len(Copies) = Len(Inherited) /\ Len(Copies) \in Nat /\ Copies \in Seq(DeclType)
         /\ \A k \in 1 .. Len(Copies) :
              /\ CopyIs(Copies[k], decls[Inherited[k]], NewName(Inherited[k]),
                        CopiedScope(Inherited[k]))
              /\ NewName(Inherited[k]) \in Symbol
<1>1. base \in 1 .. Len(decls) BY BaseIs
<1>2. PICK q, I : q = Len(I) /\ I = Inherited OBVIOUS
<1>3. /\ q \in Nat
      /\ \A k \in 1 .. q : I[k] \in 1 .. Len(decls) /\ decls[I[k]].kind = "method"
  BY <1>1, <1>2, InheritedIs
<1>4. PICK C : C = Copies OBVIOUS
<1>5. C = [k \in 1 .. q |-> [decls[I[k]] EXCEPT !.name = NewName(I[k]), !.home = CopiedScope(I[k])]]
  BY <1>2, <1>4 DEF Copies
<1>6. ASSUME NEW k \in 1 .. q
      PROVE  /\ CopyIs(C[k], decls[I[k]], NewName(I[k]), CopiedScope(I[k]))
             /\ NewName(I[k]) \in Symbol
  <2>1. PICK d, nm, h : d = decls[I[k]] /\ nm = NewName(I[k]) /\ h = CopiedScope(I[k]) OBVIOUS
  <2>2. d \in DeclType /\ d.kind = "method" /\ d.real \in Method BY <1>3, <2>1, HeapFacts
  <2>3. nm \in Symbol
    <3>1. ClassAtHand \in VarName
      <4>1. PICK l : l = Len(classes) + 1 OBVIOUS
      <4>2. scopes[current].name = ClassName[l] /\ l \in 1 .. Len(ClassName) BY <4>1, AtHand
      <4> QED BY <4>2, ClassNames DEF ClassAtHand
    <3>2. PICK p : p = <<ClassAtHand, d.real>> OBVIOUS
    <3>3. p \in VarName \X Method BY ONLY <2>2, <3>1, <3>2
    <3>4. Mangled[p] \in MethodName BY ONLY <3>3, ClassesAssumption, Zenon DEF ClassesAssumption
    <3>5. nm = Mangled[p] BY <2>1, <3>2 DEF NewName
    <3> QED BY ONLY <3>4, <3>5 DEF Symbol
  <2>4. h \in Nat
    <3>1. h \in 0 .. Len(scopes) BY <2>1, CopiedScopeIs
    <3> QED BY ONLY <3>1
  <2>5. C[k] = [d EXCEPT !.name = nm, !.home = h] BY <1>5, <2>1
  <2>6. IsDecl(C[k], d.kind, nm, d.index, d.fields, d.methods, d.class, d.real, d.nested, h,
               d.origin)
    <3>1. nm \in Symbol \cup {"Create"} BY ONLY <2>3
    <3>2. d \in DeclType BY ONLY <2>2
    <3>3. \A n \in Symbol \cup {"Create"}, x \in Nat :
            IsDecl([d EXCEPT !.name = n, !.home = x], d.kind, n, d.index, d.fields, d.methods,
                   d.class, d.real, d.nested, x, d.origin)
      BY ONLY <3>2, DeclWith
    <3>4. IsDecl([d EXCEPT !.name = nm, !.home = h], d.kind, nm, d.index, d.fields, d.methods,
                 d.class, d.real, d.nested, h, d.origin)
      BY ONLY <2>4, <3>1, <3>3
    <3> QED BY ONLY <2>5, <3>4
  <2>7. CopyIs(C[k], d, nm, h) BY ONLY <2>2, <2>6 DEF IsDecl, CopyIs
  <2> QED BY ONLY <2>1, <2>3, <2>7
<1>7. \A k \in 1 .. q : C[k] \in DeclType BY <1>6 DEF CopyIs
<1>8. C \in Seq(DeclType) /\ Len(C) = q
  <2>1. C = [k \in 1 .. q |-> C[k]] BY ONLY <1>5
  <2> QED BY ONLY <1>3, <1>7, <2>1
<1> QED BY ONLY <1>2, <1>3, <1>4, <1>6, <1>8

LEMMA BaseFieldIs ==
  ASSUME CInv, InClass, base # NoDecl
  PROVE  /\ BaseField \in DeclType /\ BaseField.kind = "field" /\ BaseField.fields = << >>
         /\ BaseField.methods = << >> /\ BaseField.class = base /\ BaseField.home = None
         /\ BaseField.origin = NoDecl
<1>1. PICK kind, nm, c : kind = "field" /\ nm = decls[base].name /\ c = base OBVIOUS
<1>2. c \in Nat /\ nm \in Symbol \cup {"Create"}
  <2>1. base \in 1 .. Len(decls) /\ decls[base] \in DeclType BY BaseIs
  <2>2. Len(decls) \in Nat BY HeapFacts
  <2>3. decls[base].name \in Symbol \cup {"Create"} BY ONLY <2>1, Zenon DEF DeclType
  <2>4. base \in Nat BY ONLY <2>1, <2>2
  <2> QED BY ONLY <1>1, <2>3, <2>4
<1>3. PICK e, d : e = NewDecl(kind, nm) /\ d = [e EXCEPT !.class = c] OBVIOUS
<1>4. kind \in {"class", "field", "method", "constructor"} BY <1>1
<1>5. IsDecl(NewDecl(kind, nm), kind, nm, 0, << >>, << >>, NoDecl, "", FALSE, None, NoDecl)
  BY ONLY <1>2, <1>4, NewDeclIs, Zenon
<1>6. e \in DeclType BY ONLY <1>3, <1>5, Zenon DEF IsDecl
<1>7. IsDecl(d, e.kind, e.name, e.index, e.fields, e.methods, c, e.real, e.nested, e.home,
             e.origin)
  BY ONLY <1>2, <1>3, <1>6, DeclWith
<1>8. BaseField = d BY <1>1, <1>3 DEF BaseField
<1> QED BY ONLY <1>1, <1>3, <1>5, <1>7, <1>8, Zenon DEF IsDecl

\* The methods of the class: the copies, from the last to the first, and its own.
LEMMA DerivedIs ==
  ASSUME CInv, InClass, base # NoDecl, NEW q \in Nat, q = Len(Copies), NEW id \in Nat, id = Len(decls) + 1
  PROVE  /\ Derived \in DeclType /\ Derived.kind = "class" /\ Derived.name = ClassAtHand
         /\ Derived.class = base /\ Derived.home = None /\ Derived.origin = NoDecl
         /\ Elements(Derived.fields) \subseteq 1 .. id
         /\ Len(Derived.methods) = q + Len(Own(Body))
         /\ \A k \in 1 .. q : Derived.methods[k] = id + q + 1 - k
         /\ \A k \in 1 .. Len(Own(Body)) : Derived.methods[q + k] = Own(Body)[k]
<1>1. PICK kind, nm, c : kind = "class" /\ nm = ClassAtHand /\ c = base OBVIOUS
<1>2. c \in Nat /\ nm \in Symbol \cup {"Create"}
  <2>1. base \in 1 .. Len(decls) BY BaseIs
  <2>2. Len(decls) \in Nat BY HeapFacts
  <2>3. PICK l : l = Len(classes) + 1 OBVIOUS
  <2>4. scopes[current].name = ClassName[l] /\ l \in 1 .. Len(ClassName) BY <2>3, AtHand
  <2>5. nm \in Symbol BY <1>1, <2>4, ClassNames DEF ClassAtHand
  <2> QED BY ONLY <1>1, <2>1, <2>2, <2>5
<1>3. PICK ms, of, bf : ms = Own(Body) /\ of = Own({"field"}) /\ bf = decls[base].fields OBVIOUS
<1>4. /\ ms \in Seq(Nat) /\ of \in Seq(Nat)
      /\ \A k \in 1 .. Len(of) : of[k] \in 1 .. Len(decls)
  BY <1>3, OwnPlain
<1>5. /\ bf \in Seq(Nat) /\ \A k \in 1 .. Len(bf) : bf[k] \in 1 .. Len(decls)
  <2>1. base \in 1 .. Len(decls) /\ decls[base] \in DeclType BY BaseIs
  <2>2. bf \in Seq(Nat) BY ONLY <1>3, <2>1, Zenon DEF DeclType
  <2>3. Elements(bf) \subseteq 1 .. Len(decls) BY <1>3, <2>1, HeapFacts
  <2> QED BY ONLY <2>2, <2>3 DEF Elements
<1>6. PICK rs : rs = Reverse([k \in 1 .. Len(Copies) |-> Len(decls) + 1 + k]) OBVIOUS
<1>7. rs \in Seq(Nat) /\ Len(rs) = q /\ \A k \in 1 .. q : rs[k] = id + q + 1 - k
  <2>1. PICK u : u = [k \in 1 .. q |-> id + k] OBVIOUS
  <2>2. u \in Seq(Nat) /\ Len(u) = q /\ \A k \in 1 .. q : u[k] = id + k
    BY ONLY <2>1, q \in Nat, id \in Nat
  <2>3. rs = [i \in 1 .. q |-> u[(q - i) + 1]] BY <1>6, <2>1, <2>2 DEF Reverse
  <2>4. \A i \in 1 .. q : (q - i) + 1 \in 1 .. q BY ONLY q \in Nat
  <2>5. \A i \in 1 .. q : u[(q - i) + 1] = id + q + 1 - i /\ u[(q - i) + 1] \in Nat
    BY ONLY <2>2, <2>4, q \in Nat, id \in Nat
  <2>6. rs \in Seq(Nat) /\ Len(rs) = q BY ONLY <2>3, <2>5, q \in Nat
  <2> QED BY ONLY <2>3, <2>5, <2>6
<1>8. PICK m : m = rs \o ms OBVIOUS
<1>9. /\ m \in Seq(Nat) /\ Len(m) = q + Len(ms)
      /\ (\A k \in 1 .. q : m[k] = rs[k])
      /\ \A k \in 1 .. Len(ms) : m[q + k] = ms[k]
  <2>1. rs \in Seq(Nat) /\ ms \in Seq(Nat) BY ONLY <1>4, <1>7
  <2>2. /\ rs \o ms \in Seq(Nat) /\ Len(rs \o ms) = Len(rs) + Len(ms)
        /\ (\A i \in 1 .. Len(rs) : (rs \o ms)[i] = rs[i])
        /\ \A i \in 1 .. Len(ms) : (rs \o ms)[Len(rs) + i] = ms[i]
    BY ONLY <2>1, Joined
  <2> QED BY ONLY <1>7, <1>8, <2>2
<1>10. PICK f : f = <<id>> \o of \o bf OBVIOUS
<1>11. f \in Seq(Nat) /\ Elements(f) \subseteq 1 .. id
  <2>1. PICK P : P = 1 .. id OBVIOUS
  <2>2. \A x \in 1 .. Len(decls) : x \in P BY HeapFacts, <2>1
  <2>3. id \in P BY HeapFacts, <2>1
  <2>4. <<id>> \in Seq(P) BY ONLY <2>3
  <2>5. \A k \in 1 .. Len(of) : of[k] \in P BY ONLY <1>4, <2>2
  <2>6. \A k \in 1 .. Len(bf) : bf[k] \in P BY ONLY <1>5, <2>2
  <2>7. of \in Seq(P) BY ONLY <1>4, <2>5, Wider
  <2>8. bf \in Seq(P) BY ONLY <1>5, <2>6, Wider
  <2>9. <<id>> \o of \in Seq(P) BY ONLY <2>4, <2>7, Joined
  <2>10. f \in Seq(P) BY ONLY <1>10, <2>8, <2>9, Joined
  <2>11. Len(f) \in Nat /\ \A k \in 1 .. Len(f) : f[k] \in P BY ONLY <2>10
  <2>12. \A k \in 1 .. Len(f) : f[k] \in Nat BY ONLY <2>1, <2>11, id \in Nat
  <2>13. f \in Seq(Nat) BY ONLY <2>10, <2>12, Wider
  <2> QED BY ONLY <2>1, <2>11, <2>13 DEF Elements
<1>12. PICK e, d : e = NewDecl(kind, nm) /\ d = [e EXCEPT !.class = c, !.fields = f, !.methods = m]
  OBVIOUS
<1>13. kind \in {"class", "field", "method", "constructor"} BY <1>1
<1>14. IsDecl(NewDecl(kind, nm), kind, nm, 0, << >>, << >>, NoDecl, "", FALSE, None, NoDecl)
  BY ONLY <1>2, <1>13, NewDeclIs, Zenon
<1>15. e \in DeclType BY ONLY <1>12, <1>14, ZenonT(40) DEF IsDecl
<1>16. IsDecl(d, e.kind, e.name, e.index, f, m, c, e.real, e.nested, e.home, e.origin)
  BY ONLY <1>2, <1>9, <1>11, <1>12, <1>15, DeclWith
<1>17. Derived = d
  <2>1. FieldsOf(Len(decls) + 1) = f BY <1>3, <1>10 DEF FieldsOf
  <2>2. Own({"method", "constructor"}) = ms BY <1>3 DEF Body
  <2> QED BY ONLY <1>1, <1>6, <1>8, <1>12, <2>1, <2>2 DEF Derived
<1>18. /\ Derived \in DeclType /\ Derived.kind = "class" /\ Derived.name = nm
       /\ Derived.class = c /\ Derived.home = None /\ Derived.origin = NoDecl
       /\ Derived.fields = f /\ Derived.methods = m
  BY ONLY <1>1, <1>12, <1>14, <1>16, <1>17, Zenon DEF IsDecl
<1> QED BY ONLY <1>1, <1>3, <1>7, <1>9, <1>11, <1>18

LEMMA DerivedHeap ==
  ASSUME CInv, LeaveDerived, NEW q \in Nat, q = Len(Copies), NEW id \in Nat, id = Len(decls) + 1
  PROVE  /\ decls' \in Seq(DeclType) /\ Len(decls') = id + q + 1 /\ DeclsKept
         /\ decls'[id] = BaseField /\ decls'[id + q + 1] = Derived
         /\ \A k \in 1 .. q : decls'[id + k] = Copies[k]
<1>1. /\ InClass /\ base # NoDecl
      /\ decls' = Append(Numbered, BaseField) \o Copies \o <<Derived>>
  BY LeaveDerivedIs
<1>2. PICK A, B, nb, bf, cs, de :
        /\ nb = Numbered /\ bf = BaseField /\ cs = Copies /\ de = Derived
        /\ A = Append(nb, bf) /\ B = A \o cs
  OBVIOUS
<1>3. /\ nb \in Seq(DeclType) /\ Len(nb) + 1 = id /\ Len(nb) \in Nat
      /\ \A x \in 1 .. Len(decls) : SameDecl(decls[x], nb[x])
  <2>1. Len(decls) \in Nat BY HeapFacts
  <2>2. /\ nb \in Seq(DeclType) /\ Len(nb) = Len(decls)
        /\ \A x \in 1 .. Len(decls) : SameDecl(decls[x], nb[x])
    BY <1>2, NumberedIs
  <2> QED BY ONLY <2>1, <2>2, id = Len(decls) + 1
<1>4. bf \in DeclType BY <1>1, <1>2, BaseFieldIs
<1>5. cs \in Seq(DeclType) /\ Len(cs) = q BY <1>1, <1>2, CopiesAre
<1>6. de \in DeclType BY <1>1, <1>2, DerivedIs
<1>7. /\ A \in Seq(DeclType) /\ Len(A) = id /\ A[id] = bf
      /\ \A x \in 1 .. Len(nb) : A[x] = nb[x]
  BY ONLY <1>2, <1>3, <1>4, AppendFacts
<1>8. /\ B \in Seq(DeclType) /\ Len(B) = id + q
      /\ (\A x \in 1 .. id : B[x] = A[x])
      /\ \A k \in 1 .. q : B[id + k] = cs[k]
  <2>1. A \in Seq(DeclType) /\ cs \in Seq(DeclType) BY ONLY <1>5, <1>7
  <2>2. /\ A \o cs \in Seq(DeclType) /\ Len(A \o cs) = Len(A) + Len(cs)
        /\ (\A i \in 1 .. Len(A) : (A \o cs)[i] = A[i])
        /\ \A i \in 1 .. Len(cs) : (A \o cs)[Len(A) + i] = cs[i]
    BY ONLY <2>1, Joined
  <2>3. B = A \o cs BY <1>2
  <2>4. Len(A) = id /\ Len(cs) = q BY <1>5, <1>7
  <2> QED BY ONLY <2>2, <2>3, <2>4
<1>9. decls' = Append(B, de)
  <2>1. decls' = B \o <<de>> BY <1>1, <1>2
  <2> QED BY ONLY <1>6, <1>8, <2>1
<1>10. /\ decls' \in Seq(DeclType) /\ Len(decls') = id + q + 1 /\ decls'[id + q + 1] = de
       /\ \A x \in 1 .. id + q : decls'[x] = B[x]
  BY ONLY <1>6, <1>8, <1>9, AppendFacts
<1>11. ASSUME NEW x \in 1 .. Len(decls) PROVE SameDecl(decls[x], decls'[x])
  <2>1. x \in 1 .. Len(nb) /\ x \in 1 .. id /\ x \in 1 .. id + q
    <3>1. PICK n \in Nat : n = Len(decls) BY HeapFacts
    <3> QED BY ONLY <1>3, <3>1, id = Len(decls) + 1, q \in Nat, x \in 1 .. Len(decls)
  <2>2. decls'[x] = nb[x] BY ONLY <1>7, <1>8, <1>10, <2>1
  <2> QED BY <1>3, <2>2
<1>12. decls'[id] = bf
  <2>1. id \in 1 .. id /\ id \in 1 .. id + q
    <3>1. Len(decls) \in Nat BY HeapFacts
    <3> QED BY ONLY <3>1, id = Len(decls) + 1, q \in Nat
  <2> QED BY ONLY <1>7, <1>8, <1>10, <2>1
<1>13. ASSUME NEW k \in 1 .. q PROVE decls'[id + k] = cs[k]
  <2>1. id + k \in 1 .. id + q BY ONLY id \in Nat, q \in Nat, k \in 1 .. q
  <2> QED BY ONLY <1>8, <1>10, <2>1, k \in 1 .. q
<1> QED BY ONLY <1>2, <1>10, <1>11, <1>12, <1>13 DEF DeclsKept

LEMMA ScopeAdopted ==
  ASSUME NEW r \in ScopeType, NEW nm \in Name, NEW p \in Nat,
         NEW q, q = [r EXCEPT !.name = nm, !.external = FALSE, !.parent = p]
  PROVE  IsScope(q, r.kind, nm, p, r.children, FALSE, r.cursor, r.decl)
BY DEF ScopeType, IsScope

LEMMA SymbolsAre ==
  ASSUME CInv, InClass, base # NoDecl, NEW old \in [Symbol -> Nat]
  PROVE  Symbols(old) \in [Symbol -> Nat]
<1>1. PICK q, m, N, bf : /\ q = Len(Copies) /\ N = Len(decls)
                         /\ bf = decls[base].fields /\ m = Len(bf)
  OBVIOUS
<1>2. q \in Nat BY <1>1, CopiesAre
<1>3. N \in Nat BY <1>1, HeapFacts
<1>4. bf \in Seq(Nat)
  <2>1. decls[base] \in DeclType BY BaseIs
  <2> QED BY ONLY <1>1, <2>1, Zenon DEF DeclType
<1>5. m \in Nat /\ \A i \in 1 .. m : bf[i] \in Nat BY ONLY <1>1, <1>4
<1>6. ASSUME NEW n \in Symbol PROVE Symbols(old)[n] \in Nat
  <2>1. PICK k, f : /\ k = {i \in 1 .. q : Copies[i].name = n}
                    /\ f = {i \in 1 .. m : decls[bf[i]].name = n}
    OBVIOUS
  <2>2. PICK x : x = CHOOSE i \in f : \A j \in f : j <= i OBVIOUS
  <2>3. Symbols(old)[n] = IF k # {} THEN N + 1 + Least(k) ELSE IF f # {} THEN bf[x] ELSE old[n]
    BY ONLY <1>1, <2>1, <2>2, n \in Symbol DEF Symbols
  <2>4. ASSUME k # {} PROVE Least(k) \in Nat
    <3>1. k \in SUBSET Nat BY ONLY <1>2, <2>1
    <3>2. Least(k) \in k BY ONLY <2>4, <3>1, LeastIsLeast
    <3> QED BY ONLY <3>1, <3>2
  <2>5. ASSUME f # {} PROVE bf[x] \in Nat
    <3>1. f \subseteq 1 .. m BY ONLY <2>1
    <3>2. x \in f BY ONLY <1>5, <2>2, <2>5, <3>1, LastOfPlaces
    <3> QED BY ONLY <1>5, <3>1, <3>2
  <2>6. old[n] \in Nat OBVIOUS
  <2>7. k # {} => N + 1 + Least(k) \in Nat BY ONLY <1>3, <2>4
  <2> QED BY ONLY <2>3, <2>5, <2>6, <2>7
<1>7. Symbols(old) = [n \in Symbol |-> Symbols(old)[n]] BY DEF Symbols
<1>8. PICK g : g = Symbols(old) OBVIOUS
<1>9. g = [n \in Symbol |-> g[n]] /\ \A n \in Symbol : g[n] \in Nat BY <1>6, <1>7, <1>8
<1> QED BY ONLY <1>8, <1>9

\* What the end of a class does to scope t: some copy's becomes one of the class.
AdoptedOrNot(t) ==
  /\ scopes'[t].kind = scopes[t].kind /\ scopes'[t].children = scopes[t].children
  /\ scopes'[t].cursor = scopes[t].cursor
  /\ (\A k \in 1 .. Len(Copies) : Copies[k].home # t) => Alike(scopes[t], scopes'[t])
  /\ (\E k \in 1 .. Len(Copies) : Copies[k].home = t) =>
       /\ ~scopes'[t].external /\ scopes'[t].parent = current
       /\ \E k \in 1 .. Len(Copies) : Copies[k].home = t /\ scopes'[t].name = Copies[k].name

LEMMA DerivedTree ==
  ASSUME CInv, LeaveDerived
  PROVE  /\ IsTree(scopes') /\ Len(scopes') = Len(scopes)
         /\ \A t \in 1 .. Len(scopes) : AdoptedOrNot(t)
<1>1. /\ InClass /\ base # NoDecl /\ scopes' = AdoptedTree
  BY LeaveDerivedIs
<1>2. PICK n \in Nat : n = Len(scopes) BY TreeFacts
<1>3. IsTree(scopes) /\ current \in 1 .. n BY <1>2, TreeFacts, HeapFacts
<1>4. PICK q : q = Len(Copies) OBVIOUS
<1>5. q \in Nat /\ \A k \in 1 .. q : Copies[k].name \in Symbol
  BY <1>1, <1>4, CopiesAre DEF CopyIs
<1>6. ASSUME NEW t \in 1 .. n PROVE Points(n, scopes'[t]) /\ AdoptedOrNot(t)
  <2>1. PICK r : r = scopes[t] OBVIOUS
  <2>2. /\ r \in ScopeType /\ r.parent \in 0 .. n /\ r.decl \in [Symbol -> Nat]
        /\ \A k \in 1 .. Len(r.children) : r.children[k] \in 1 .. n
    BY <1>2, <1>3, <2>1, ScopeFields
  <2>3. CASE \E k \in 1 .. q : Copies[k].home = t
    <3>1. PICK k : k = CHOOSE j \in 1 .. q : Copies[j].home = t OBVIOUS
    <3>2. k \in 1 .. q /\ Copies[k].home = t BY ONLY <2>3, <3>1
    <3>3. PICK nm, p, u : /\ nm = Copies[k].name /\ p = current
                          /\ u = [r EXCEPT !.name = nm, !.external = FALSE, !.parent = p]
      OBVIOUS
    <3>4. scopes'[t] = u
      <4>1. scopes'[t] = Adopted(t)
        BY ONLY <1>1, <1>2, <1>4, <2>3, t \in 1 .. n DEF AdoptedTree
      <4> QED BY ONLY <1>4, <2>1, <3>1, <3>3, <4>1 DEF Adopted
    <3>5. nm \in Name /\ p \in Nat /\ p \in 0 .. n
      <4>1. nm \in Symbol BY <1>5, <3>2, <3>3
      <4> QED BY ONLY <1>3, <3>3, <4>1, n \in Nat DEF Name
    <3>6. IsScope(u, r.kind, nm, p, r.children, FALSE, r.cursor, r.decl)
      BY ONLY <2>2, <3>3, <3>5, ScopeAdopted
    <3>7. Points(n, u) BY ONLY <2>2, <3>5, <3>6 DEF IsScope, Points
    <3>8. AdoptedOrNot(t)
      BY ONLY <1>4, <2>1, <3>2, <3>3, <3>4, <3>6 DEF IsScope, AdoptedOrNot
    <3> QED BY ONLY <3>4, <3>7, <3>8
  <2>4. CASE ~(\E k \in 1 .. q : Copies[k].home = t)
    <3>1. \E d \in [Symbol -> Nat] : scopes'[t] = [r EXCEPT !.decl = d]
      <4>1. CASE t = current
        <5>1. scopes'[t] = [r EXCEPT !.decl = Symbols(r.decl)]
          BY ONLY <1>1, <1>2, <1>4, <2>1, <2>4, <4>1, t \in 1 .. n DEF AdoptedTree
        <5>2. Symbols(r.decl) \in [Symbol -> Nat] BY <1>1, <2>2, SymbolsAre
        <5> QED BY ONLY <5>1, <5>2
      <4>2. CASE t # current /\ t = Module
        <5>1. PICK d, x, y : /\ d = [r.decl EXCEPT ![x] = y]
                             /\ x = ClassAtHand /\ y = Len(decls) + 1 + Len(Copies) + 1
          OBVIOUS
        <5>2. scopes'[t] = [r EXCEPT !.decl = d]
          BY ONLY <1>1, <1>2, <1>4, <2>1, <2>4, <4>2, <5>1, t \in 1 .. n DEF AdoptedTree
        <5>3. y \in Nat
          <6>1. Len(decls) \in Nat BY HeapFacts
          <6> QED BY ONLY <1>4, <1>5, <5>1, <6>1
        <5>4. d \in [Symbol -> Nat] BY ONLY <2>2, <5>1, <5>3
        <5> QED BY ONLY <5>2, <5>4
      <4>3. CASE t # current /\ t # Module
        <5>1. scopes'[t] = r
          BY ONLY <1>1, <1>2, <1>4, <2>1, <2>4, <4>3, t \in 1 .. n DEF AdoptedTree
        <5>2. r = [r EXCEPT !.decl = r.decl] BY ONLY <2>2 DEF ScopeType
        <5> QED BY ONLY <2>2, <5>1, <5>2
      <4> QED BY <4>1, <4>2, <4>3
    <3>2. PICK d \in [Symbol -> Nat] : scopes'[t] = [r EXCEPT !.decl = d] BY <3>1
    <3>3. PICK u : u = [r EXCEPT !.decl = d] OBVIOUS
    <3>4. IsScope(u, r.kind, r.name, r.parent, r.children, r.external, r.cursor, d)
      BY ONLY <2>2, <3>3, ScopeWith
    <3>5. scopes'[t] = u BY <3>2, <3>3
    <3>6. Points(n, u) BY ONLY <2>2, <3>4 DEF IsScope, Points
    <3>7. AdoptedOrNot(t)
      BY ONLY <1>4, <2>1, <2>4, <3>4, <3>5 DEF IsScope, AdoptedOrNot, Alike
    <3> QED BY ONLY <3>5, <3>6, <3>7
  <2> QED BY <2>3, <2>4
<1>7. scopes' = [t \in 1 .. n |-> scopes'[t]] BY ONLY <1>1, <1>2 DEF AdoptedTree
<1>8. PICK sc : sc = scopes' OBVIOUS
<1>9. sc = [t \in 1 .. n |-> sc[t]] /\ \A t \in 1 .. n : Points(n, sc[t]) BY <1>6, <1>7, <1>8
<1>10. IsTree(sc) /\ Len(sc) = n BY ONLY <1>9, n \in Nat, TreeIs
<1> QED BY <1>2, <1>6, <1>8, <1>10

LEMMA DerivedLeft ==
  ASSUME CInv, LeaveDerived, NEW q \in Nat, q = Len(Copies), NEW id \in Nat, id = Len(decls) + 1
  PROVE  Left(id + q + 1)
<1>1. /\ phase = "parse" /\ InClass /\ base # NoDecl
      /\ classes' = Append(classes, id + q + 1) /\ current' = Module
      /\ UNCHANGED <<parts, base, phase, generatorVars>>
  BY LeaveDerivedIs
<1>2. PICK N \in Nat : N = Len(decls) /\ id = N + 1 BY HeapFacts
<1>3. /\ decls' \in Seq(DeclType) /\ Len(decls') = id + q + 1 /\ DeclsKept
      /\ decls'[id] = BaseField /\ decls'[id + q + 1] = Derived
      /\ \A k \in 1 .. q : decls'[id + k] = Copies[k]
  BY DerivedHeap
<1>4. IsTree(scopes') /\ Len(scopes') = Len(scopes) /\ \A t \in 1 .. Len(scopes) : AdoptedOrNot(t)
  BY DerivedTree
<1>5. base \in 1 .. N /\ \E j \in 1 .. Len(classes) : classes[j] = base BY <1>1, <1>2, BaseIs
<1>6. PICK n \in Nat, cid \in Nat : n = Len(scopes) /\ cid = id + q + 1
  <2>1. Len(scopes) \in Nat BY TreeFacts
  <2>2. id + q + 1 \in Nat BY ONLY id \in Nat, q \in Nat
  <2> QED BY ONLY <2>1, <2>2
<1>7. /\ Derived.kind = "class" /\ Derived.name = ClassAtHand
      /\ Derived.class = base /\ Derived.home = None /\ Derived.origin = NoDecl
      /\ Elements(Derived.fields) \subseteq 1 .. id
      /\ Len(Derived.methods) = q + Len(Own(Body))
      /\ (\A k \in 1 .. q : Derived.methods[k] = id + q + 1 - k)
      /\ \A k \in 1 .. Len(Own(Body)) : Derived.methods[q + k] = Own(Body)[k]
  BY <1>1, DerivedIs
<1>8. DeclInRange(id) /\ decls'[id].origin <= id /\ decls'[id].kind # "method"
  <2>1. /\ BaseField.kind = "field" /\ BaseField.fields = << >>
        /\ BaseField.methods = << >> /\ BaseField.class = base /\ BaseField.home = None
        /\ BaseField.origin = NoDecl
    BY <1>1, BaseFieldIs
  <2>2. Elements(<< >>) = {} BY DEF Elements
  <2>3. base \in 0 .. id - 1 /\ 0 \in 0 .. n /\ 0 <= id BY ONLY <1>2, <1>5, n \in Nat
  <2> QED BY ONLY <1>3, <1>4, <1>6, <2>1, <2>2, <2>3 DEF DeclInRange, None, NoDecl
<1>9. ASSUME NEW k \in 1 .. q
      PROVE  /\ DeclInRange(id + k) /\ decls'[id + k].origin <= id + k
             /\ decls'[id + k].real \in Method
  <2>1. PICK x, d, c : x = Inherited[k] /\ d = decls[x] /\ c = Copies[k] OBVIOUS
  <2>2. CopyIs(c, d, NewName(x), CopiedScope(x)) BY <1>1, <2>1, CopiesAre
  <2>3. x \in 1 .. N /\ d.kind = "method"
    <3>1. q = Len(Inherited) BY <1>1, CopiesAre
    <3> QED BY <1>2, <1>5, <2>1, <3>1, InheritedIs
  <2>4. /\ Elements(d.fields) \cup Elements(d.methods) \subseteq 1 .. N
        /\ d.class \in 0 .. x - 1 /\ d.origin <= x /\ d.real \in Method /\ d \in DeclType
    BY <1>2, <2>1, <2>3, HeapFacts
  <2>5. CopiedScope(x) \in 0 .. n BY <1>1, <1>6, CopiedScopeIs
  <2>6. d.origin \in Nat /\ d.class \in Nat BY ONLY <2>4, Zenon DEF DeclType
  <2>7. (\A y \in 1 .. N : y \in 1 .. cid) /\ \A y \in 0 .. x - 1 : y \in 0 .. id + k - 1
    BY ONLY <1>2, <1>6, <2>3, q \in Nat, k \in 1 .. q
  <2>8. d.origin <= id + k BY ONLY <1>2, <2>3, <2>4, <2>6, q \in Nat, k \in 1 .. q
  <2>9. decls'[id + k] = c /\ Len(decls') = cid BY <1>3, <1>6, <2>1
  <2>10. /\ c.fields = d.fields /\ c.methods = d.methods /\ c.class = d.class
         /\ c.home = CopiedScope(x) /\ c.origin = d.origin /\ c.real = d.real
    BY ONLY <2>2 DEF CopyIs
  <2>11. Elements(c.fields) \cup Elements(c.methods) \subseteq 1 .. cid
    BY ONLY <2>4, <2>7, <2>10
  <2>12. c.class \in 0 .. id + k - 1 /\ c.home \in 0 .. Len(scopes')
    BY ONLY <1>4, <1>6, <2>4, <2>5, <2>7, <2>10
  <2>13. DeclInRange(id + k) BY ONLY <2>9, <2>11, <2>12 DEF DeclInRange
  <2> QED BY ONLY <2>4, <2>8, <2>9, <2>10, <2>13
<1>10. DeclInRange(cid) /\ decls'[cid].origin <= cid
  <2>1. PICK ms, m : ms = Derived.methods /\ m = Len(Own(Body)) OBVIOUS
  <2>2. m \in Nat /\ \A k \in 1 .. m : Own(Body)[k] \in 1 .. N BY <1>2, <2>1, OwnCounted
  <2>3. ASSUME NEW k \in 1 .. q + m PROVE ms[k] \in 1 .. cid
    <3>1. CASE k \in 1 .. q
      <4>1. ms[k] = id + q + 1 - k BY <1>7, <2>1, <3>1
      <4>2. id + q + 1 - k \in 1 .. cid BY ONLY <1>2, <1>6, <3>1, q \in Nat
      <4> QED BY <4>1, <4>2
    <3>2. CASE k \notin 1 .. q
      <4>1. PICK i \in 1 .. m : k = q + i
        <5>1. k - q \in 1 .. m /\ k = q + (k - q)
          BY ONLY <2>2, <3>2, q \in Nat, k \in 1 .. q + m
        <5> QED BY <5>1
      <4>2. ms[k] = Own(Body)[i] BY <1>7, <2>1, <4>1
      <4>3. \A y \in 1 .. N : y \in 1 .. cid BY ONLY <1>2, <1>6, q \in Nat
      <4> QED BY ONLY <2>2, <4>2, <4>3, i \in 1 .. m
    <3> QED BY <3>1, <3>2
  <2>4. Elements(ms) \subseteq 1 .. cid BY <1>7, <2>1, <2>3 DEF Elements
  <2>5. \A y \in 1 .. id : y \in 1 .. cid BY ONLY <1>2, <1>6, q \in Nat
  <2>6. Elements(Derived.fields) \subseteq 1 .. cid BY ONLY <1>7, <2>5
  <2>7. base \in 0 .. cid - 1 /\ 0 \in 0 .. n /\ 0 <= cid
    BY ONLY <1>2, <1>5, <1>6, n \in Nat, q \in Nat
  <2>8. decls'[cid] = Derived /\ Len(decls') = cid BY <1>3, <1>6
  <2> QED BY ONLY <1>4, <1>6, <1>7, <2>1, <2>4, <2>6, <2>7, <2>8 DEF DeclInRange, None, NoDecl
<1>11. decls'[cid].kind # "method" BY <1>3, <1>6, <1>7
<1>12. ASSUME NEW x \in 1 .. Len(decls'), x > Len(decls)
       PROVE  /\ DeclInRange(x) /\ decls'[x].origin <= x
              /\ decls'[x].kind = "method" => decls'[x].real \in Method
  <2>1. x = id \/ x = cid \/ (x - id \in 1 .. q /\ x = id + (x - id))
    BY ONLY <1>2, <1>3, <1>6, <1>12, q \in Nat, x \in 1 .. Len(decls')
  <2>2. CASE x = id BY ONLY <1>8, <2>2
  <2>3. CASE x = cid BY ONLY <1>10, <1>11, <2>3
  <2>4. CASE x - id \in 1 .. q /\ x = id + (x - id)
    <3>1. PICK k \in 1 .. q : x = id + k BY ONLY <2>4
    <3> QED BY ONLY <1>9, <3>1
  <2> QED BY <2>1, <2>2, <2>3, <2>4
<1>13. ASSUME NEW t \in 1 .. Len(scopes)
       PROVE  /\ scopes'[t].kind = scopes[t].kind /\ scopes'[t].children = scopes[t].children
              /\ scopes'[t].cursor = scopes[t].cursor
              /\ (\A i \in 1 .. Len(Kids(current)) : Kids(current)[i] # t)
                 => Alike(scopes[t], scopes'[t])
  <2>1. AdoptedOrNot(t) BY <1>4
  <2>2. ASSUME \A i \in 1 .. Len(Kids(current)) : Kids(current)[i] # t,
               NEW k \in 1 .. q, Copies[k].home = t
        PROVE  FALSE
    <3>1. PICK x : x = Inherited[k] OBVIOUS
    <3>2. CopyIs(Copies[k], decls[x], NewName(x), CopiedScope(x)) BY <1>1, <3>1, CopiesAre
    <3>3. CopiedScope(x) = t BY <2>2, <3>2 DEF CopyIs
    <3>4. t # None BY TreeFacts DEF None
    <3>5. PICK a \in 1 .. Len(Kids(current)) : CopiedScope(x) = Kids(current)[a]
      BY <1>1, <3>3, <3>4, CopiedScopeIs
    <3> QED BY <2>2, <3>3, <3>5
  <2> QED BY <2>1, <2>2 DEF AdoptedOrNot
<1>14. ClassAtHand = ClassName[Len(classes) + 1] BY <1>1, AtHand DEF ClassAtHand
<1>15. /\ decls'[cid].kind = "class" /\ decls'[cid].name = ClassName[Len(classes) + 1]
       /\ \E j \in 1 .. Len(classes) : classes[j] = decls'[cid].class
  BY ONLY <1>3, <1>5, <1>6, <1>7, <1>14
<1>16. Len(decls') >= Len(decls) /\ cid \in 1 .. Len(decls') BY ONLY <1>2, <1>3, <1>6, q \in Nat
<1>17. Left(cid)
  <2>1. classes' = Append(classes, cid) BY <1>1, <1>6
  <2> QED BY ONLY <1>1, <1>3, <1>4, <1>12, <1>13, <1>15, <1>16, <2>1 DEF Left
<1> QED BY <1>6, <1>17

LEMMA TwoElements ==
  ASSUME NEW S, IsFiniteSet(S), NEW a \in S, NEW b \in S, a # b
  PROVE  Cardinality(S) > 1
<1>1. PICK T : T = {a} \cup {b} OBVIOUS
<1>2. IsFiniteSet({a}) /\ Cardinality({a}) = 1 BY FS_Singleton
<1>3. b \notin {a} OBVIOUS
<1>4. IsFiniteSet(T) /\ Cardinality(T) = 2
  <2>1. PICK U : U = {a} OBVIOUS
  <2>2. IsFiniteSet(U) /\ Cardinality(U) = 1 /\ b \notin U /\ T = U \cup {b}
    BY ONLY <1>1, <1>2, <1>3, <2>1
  <2>3. /\ IsFiniteSet(U \cup {b})
        /\ Cardinality(U \cup {b}) = IF b \in U THEN Cardinality(U) ELSE Cardinality(U) + 1
    BY ONLY <2>2, FS_AddElement
  <2> QED BY ONLY <2>2, <2>3
<1>5. T \subseteq S BY <1>1
<1>6. Cardinality(T) <= Cardinality(S) BY <1>4, <1>5, FS_Subset
<1>7. Cardinality(S) \in Nat BY FS_CardinalityType
<1> QED BY <1>4, <1>6, <1>7

\* A class that is not tangled has inherited one method at most, without an if.
LEMMA OneCopy ==
  ASSUME CInv, LeaveDerived, NEW q \in Nat, q = Len(Copies), NEW id \in Nat, id = Len(decls) + 1,
         NEW l \in Nat, l = Len(classes), StraightTo(l + 1)'
  PROVE  /\ q <= 1
         /\ \A k \in 1 .. q : ~decls'[id + k].nested
<1>1. /\ InClass /\ base # NoDecl BY LeaveDerivedIs
<1>2. PICK cid \in Nat, N \in Nat : cid = id + q + 1 /\ id = N + 1 /\ N = Len(decls)
  <2>1. Len(decls) \in Nat BY HeapFacts
  <2>2. id + q + 1 \in Nat BY ONLY id \in Nat, q \in Nat
  <2> QED BY ONLY <2>1, <2>2, id = Len(decls) + 1
<1>3. Left(cid) BY <1>2, DerivedLeft
<1>4. classes' = Append(classes, cid) /\ classes \in Seq(1 .. N)
  BY <1>2, <1>3, HeapFacts DEF Left
<1>5. classes'[l + 1] = cid
  <2>1. PICK T : T = 1 .. cid OBVIOUS
  <2>2. \A k \in 1 .. Len(classes) : classes[k] \in T
    <3>1. \A k \in 1 .. Len(classes) : classes[k] \in 1 .. N BY <1>2, HeapFacts
    <3>2. \A y \in 1 .. N : y \in 1 .. cid BY ONLY <1>2, q \in Nat
    <3> QED BY ONLY <2>1, <3>1, <3>2
  <2>3. classes \in Seq(T) BY ONLY <1>4, <2>2, Wider
  <2>4. cid \in T BY ONLY <1>2, <2>1, q \in Nat
  <2> QED BY ONLY <1>4, <2>3, <2>4, l = Len(classes), AppendFacts
<1>6. ~Tangled(classes[l + 1])'
  <2>1. l + 1 \in 1 .. l + 1 BY ONLY l \in Nat
  <2> QED BY ONLY <2>1, StraightTo(l + 1)' DEF StraightTo
<1>7. PICK ms, S : /\ ms = decls'[cid].methods
                   /\ S = {d \in Elements(ms) : decls'[d].origin # d}
  OBVIOUS
<1>8. ~(Cardinality(S) > 1) /\ \A d \in S : ~decls'[d].nested
  BY ONLY <1>5, <1>6, <1>7 DEF Tangled, Elements
<1>9. ms = Derived.methods BY <1>2, <1>7, DerivedHeap
<1>10. Len(ms) = q + Len(Own(Body)) /\ \A k \in 1 .. q : ms[k] = id + q + 1 - k
  BY <1>1, <1>9, DerivedIs
<1>11. Len(Own(Body)) \in Nat BY OwnCounted
<1>12. ASSUME NEW k \in 1 .. q PROVE id + k \in S
  <2>1. q + 1 - k \in 1 .. q /\ q + 1 - k \in 1 .. Len(ms) BY ONLY <1>10, <1>11, q \in Nat, k \in 1 .. q
  <2>2. ms[q + 1 - k] = id + q + 1 - (q + 1 - k) BY ONLY <1>10, <2>1
  <2>3. id + q + 1 - (q + 1 - k) = id + k BY ONLY q \in Nat, id \in Nat, k \in 1 .. q
  <2>4. id + k \in Elements(ms) BY ONLY <2>1, <2>2, <2>3 DEF Elements
  <2>5. decls'[id + k].origin # id + k
    <3>1. PICK x, d : x = Inherited[k] /\ d = decls[x] OBVIOUS
    <3>2. CopyIs(Copies[k], d, NewName(x), CopiedScope(x)) BY <1>1, <3>1, CopiesAre
    <3>3. x \in 1 .. N
      <4>1. q = Len(Inherited) BY <1>1, CopiesAre
      <4> QED BY <1>1, <1>2, <3>1, <4>1, BaseIs, InheritedIs
    <3>4. d.origin <= x /\ d \in DeclType BY <1>2, <3>1, <3>3, HeapFacts
    <3>5. d.origin \in Nat BY ONLY <3>4, Zenon DEF DeclType
    <3>6. decls'[id + k] = Copies[k] BY DerivedHeap
    <3>7. decls'[id + k].origin = d.origin BY ONLY <3>2, <3>6 DEF CopyIs
    <3>8. d.origin # id + k BY ONLY <1>2, <3>3, <3>4, <3>5, k \in 1 .. q
    <3> QED BY ONLY <3>7, <3>8
  <2> QED BY ONLY <1>7, <2>4, <2>5
<1>13. IsFiniteSet(S)
  <2>1. DeclInRange(cid) /\ Len(decls') = cid
    <3>1. cid > Len(decls) BY ONLY <1>2, q \in Nat
    <3>2. Len(decls') = cid BY <1>2, DerivedHeap
    <3>3. cid \in 1 .. Len(decls') BY ONLY <1>2, <3>2, q \in Nat
    <3> QED BY <1>3, <3>1, <3>2, <3>3 DEF Left
  <2>2. Elements(ms) \subseteq 1 .. cid BY <1>7, <2>1 DEF DeclInRange
  <2>3. S \subseteq 1 .. cid BY <1>7, <2>2
  <2>4. 1 \in Int /\ cid \in Int BY <1>2
  <2>5. IsFiniteSet(1 .. cid) BY ONLY <2>4, FS_Interval
  <2> QED BY ONLY <2>3, <2>5, FS_Subset
<1>14. q <= 1
  <2> SUFFICES ASSUME q > 1 PROVE FALSE OBVIOUS
  <2>1. 1 \in 1 .. q /\ 2 \in 1 .. q OBVIOUS
  <2>2. id + 1 \in S /\ id + 2 \in S BY ONLY <1>12, <2>1
  <2>3. id + 1 # id + 2 OBVIOUS
  <2>4. Cardinality(S) > 1 BY ONLY <1>13, <2>2, <2>3, TwoElements
  <2> QED BY ONLY <1>8, <2>4
<1>15. \A k \in 1 .. q : ~decls'[id + k].nested BY ONLY <1>8, <1>12
<1> QED BY <1>14, <1>15

LEMMA LeftClasses ==
  ASSUME CInv, NEW id, Left(id)
  PROVE  ClassesKept /\ classes'[Len(classes) + 1] = id
<1>1. PICK l, P : l = Len(classes) /\ P = 1 .. Len(decls') /\ l \in Nat BY HeapFacts
<1>2. /\ Alike(scopes[Module], scopes'[Module])
      /\ \A k \in 1 .. Len(classes) : KidsKept(Row[k])
  BY LeftAlike
<1>3. classes' = Append(classes, id) /\ id \in P BY <1>1 DEF Left
<1>4. classes \in Seq(P)
  <2>1. Len(decls') >= Len(decls) /\ Len(decls') \in Nat BY DEF Left
  <2>2. PICK N, M : N = Len(decls) /\ M = Len(decls') /\ N \in Nat BY HeapFacts
  <2>3. classes \in Seq(1 .. N) /\ \A k \in 1 .. Len(classes) : classes[k] \in 1 .. N
    BY <2>2, HeapFacts
  <2>4. \A y \in 1 .. N : y \in P BY ONLY <1>1, <2>1, <2>2
  <2>5. \A k \in 1 .. Len(classes) : classes[k] \in P BY ONLY <2>3, <2>4
  <2> QED BY ONLY <2>3, <2>5, Wider
<1>5. /\ Len(classes') = l + 1 /\ classes'[l + 1] = id
      /\ \A k \in 1 .. l : classes'[k] = classes[k]
  BY ONLY <1>1, <1>3, <1>4, AppendFacts
<1>6. scopes'[Module].children = Row BY <1>2 DEF Alike, Row
<1>7. Len(classes') >= Len(classes) /\ Len(classes') \in Nat BY ONLY <1>1, <1>5
<1> QED BY ONLY <1>1, <1>2, <1>5, <1>6, <1>7 DEF ClassesKept

\* The one scope that was copied for an inherited method, in front of the class's own.
LEMMA CopyMade ==
  ASSUME CInv, LeaveDerived, NEW l \in Nat, l = Len(classes), StraightTo(l + 1)',
         NEW x, x = Inherited[1], Len(Inherited) # 0, NEW id, Left(id)
  PROVE  \E a \in 1 .. Len(Kids(current)) :
           CopiedScope(x) = Kids(current)[a] /\ scopes[CopiedScope(x)].external
<1>1. /\ InClass /\ base # NoDecl BY LeaveDerivedIs
<1>2. PICK j \in 1 .. l : classes[j] = base BY <1>1, BaseIs
<1>3. base \in 1 .. Len(decls) BY <1>1, BaseIs
<1>4. 1 \in 1 .. Len(Inherited) BY <1>3, InheritedIs
<1>5. PICK ms : ms = decls[base].methods OBVIOUS
<1>6. PICK i \in 1 .. Len(ms) : ms[i] = x BY <1>3, <1>4, <1>5, InheritedIs
<1>7. StraightTo(j)
  <2>1. DeclsKept BY DEF Left
  <2>2. ClassesKept BY LeftClasses
  <2>3. StraightTo(j)'
    <3>1. \A y \in 1 .. j : y \in 1 .. l + 1 BY ONLY l \in Nat, j \in 1 .. l
    <3>2. \A y \in 1 .. l + 1 : ~Tangled(classes[y])' BY DEF StraightTo
    <3>3. \A y \in 1 .. j : ~Tangled(classes[y])' BY ONLY <3>1, <3>2
    <3> QED BY ONLY <3>3 DEF StraightTo
  <2>4. j \in 0 .. Len(classes) BY ONLY l \in Nat, l = Len(classes), j \in 1 .. l
  <2> QED BY <2>1, <2>2, <2>3, <2>4, StraightKept
<1>8. PICK g \in Places(ms, Row[j]) : Lined(ms, Row[j], g)
  BY <1>2, <1>5, <1>7 DEF CInv, ClassesLined
<1>9. Kids(Row[j])[g[i]] = decls[x].home /\ BodyIn(x, Row[j]) BY <1>6, <1>8 DEF Lined
<1>10. scopes[Kids(Row[j])[g[i]]].name = decls[x].name BY <1>9 DEF BodyIn
<1>11. g[i] \in 1 .. Len(Kids(Row[j])) BY <1>6, <1>8 DEF Places
<1>12. PICK k \in 1 .. Len(Kids(current)) :
         /\ scopes[Kids(current)[k]].external
         /\ scopes[Kids(current)[k]].name = scopes[Kids(Row[j])[g[i]]].name
  BY <1>1, <1>2, <1>11 DEF CInv, BaseCopied
<1>13. scopes[Kids(current)[k]].name = decls[x].name BY <1>10, <1>12
<1>14. CopiedScope(x) # None BY <1>1, <1>12, <1>13, CopiedScopeIs
<1> QED BY <1>1, <1>14, CopiedScopeIs

LEMMA DerivedLined ==
  ASSUME CInv, LeaveDerived, NEW q \in Nat, q = Len(Copies), NEW id \in Nat, id = Len(decls) + 1,
         NEW l \in Nat, l = Len(classes), NEW s, s = current, NEW ms, ms = Derived.methods
  PROVE  LastLined(l, ms, s)
<1> SUFFICES ASSUME StraightTo(l + 1)'
             PROVE  \E g \in Places(ms, s)' : Lined(ms, s, g)'
  BY DEF LastLined
<1>1. /\ InClass /\ base # NoDecl BY LeaveDerivedIs
<1>2. Left(id + q + 1) BY DerivedLeft
<1>3. LoopsKept /\ DeclsKept BY <1>2, LeftAlike DEF Left
<1>4. q <= 1 /\ \A k \in 1 .. q : ~decls'[id + k].nested BY OneCopy
<1>5. PICK om, L : om = Own(Body) /\ L = Len(om) OBVIOUS
<1>6. L \in Nat /\ \A k \in 1 .. L : om[k] \in 1 .. Len(decls) BY <1>5, OwnCounted
<1>7. PICK c, K : c = Kids(s) /\ K = Len(c) OBVIOUS
<1>8. s \in 1 .. Len(scopes) BY HeapFacts
<1>9. K \in Nat /\ \A i \in 1 .. K : c[i] \in 1 .. Len(scopes) BY <1>7, <1>8, TreeFacts
<1>10. \A a, b \in 1 .. K : c[a] = c[b] => a = b
  <2>1. Len(Row) = l + 1 /\ s = Row[l + 1] BY <1>1, AtHand
  <2>2. l + 1 \in 1 .. Len(Row) BY ONLY <2>1, l \in Nat
  <2> QED BY <1>7, <2>1, <2>2 DEF CInv, KidsApart
<1>11. PICK g0 \in Places(om, s) :
         /\ Lined(om, s, g0)
         /\ \A k \in 1 .. Len(Kids(s)), i \in 1 .. Len(om) :
              scopes[Kids(s)[k]].external => k < g0[i]
  BY <1>1, <1>5 DEF CInv, OwnLined
<1>12. \A i \in 1 .. L : /\ g0[i] \in 1 .. K /\ c[g0[i]] = decls[om[i]].home
                         /\ BodyIn(om[i], s)
  BY <1>5, <1>7, <1>11 DEF Lined, Places
<1>13. /\ \A i, j \in 1 .. L : i < j => g0[i] < g0[j]
       /\ \A k \in 1 .. K : (\A i \in 1 .. L : g0[i] # k) => scopes[c[k]].external
       /\ \A k \in 1 .. K, i \in 1 .. L : scopes[c[k]].external => k < g0[i]
  BY <1>5, <1>7, <1>11 DEF Lined
<1>14. \A t \in 1 .. Len(scopes) : AdoptedOrNot(t) BY DerivedTree
<1>15. scopes'[s].children = c BY <1>7, <1>8, <1>14 DEF AdoptedOrNot, Kids
<1>16. /\ Len(ms) = q + L
       /\ (\A k \in 1 .. q : ms[k] = id + q + 1 - k)
       /\ \A k \in 1 .. L : ms[q + k] = om[k]
  BY <1>1, <1>5, DerivedIs
<1>17. ASSUME NEW i \in 1 .. L, \A k \in 1 .. q : Copies[k].home # c[g0[i]]
       PROVE  c[g0[i]] = decls'[om[i]].home /\ BodyIn(om[i], s)'
  <2>1. PICK d \in 1 .. Len(decls) : d = om[i] BY <1>6
  <2>2. c[g0[i]] = decls[d].home /\ BodyIn(d, s) BY <1>12, <2>1
  <2>3. AdoptedOrNot(c[g0[i]]) BY <1>9, <1>12, <1>14
  <2>4. Alike(scopes[decls[d].home], scopes'[decls[d].home])
    BY <1>17, <2>2, <2>3 DEF AdoptedOrNot
  <2>5. BodyIn(d, s)' BY <1>3, <2>2, <2>4, BodyKept
  <2>6. decls'[d].home = decls[d].home BY <1>3 DEF DeclsKept, SameDecl
  <2>7. BodyIn(om[i], s)' BY ONLY <2>1, <2>5 DEF BodyIn
  <2> QED BY ONLY <2>1, <2>2, <2>6, <2>7
<1>18. ASSUME NEW k \in 1 .. K, scopes[c[k]].external, \A i \in 1 .. q : Copies[i].home # c[k]
       PROVE  scopes'[c[k]].external
  BY <1>9, <1>14, <1>18 DEF AdoptedOrNot, Alike
<1>19. CASE q = 0
  <2>1. Len(ms) = L /\ \A k \in 1 .. L : ms[k] = om[k] BY ONLY <1>6, <1>16, <1>19
  <2>2. \A i \in 1 .. L : c[g0[i]] = decls'[om[i]].home /\ BodyIn(om[i], s)'
    BY ONLY <1>17, <1>19
  <2>3. \A k \in 1 .. K : scopes[c[k]].external => scopes'[c[k]].external
    BY ONLY <1>18, <1>19
  <2>4. \A i \in 1 .. L : c[g0[i]] = decls'[ms[i]].home /\ BodyIn(ms[i], s)'
    <3> TAKE i \in 1 .. L
    <3>1. ms[i] = om[i] BY <2>1
    <3>2. BodyIn(om[i], s)' /\ c[g0[i]] = decls'[om[i]].home BY <2>2
    <3>3. BodyIn(ms[i], s)' BY ONLY <3>1, <3>2 DEF BodyIn
    <3> QED BY ONLY <3>1, <3>2, <3>3
  <2>5. Lined(ms, s, g0)' BY ONLY <1>7, <1>13, <1>15, <2>1, <2>3, <2>4 DEF Lined, Kids
  <2>6. g0 \in Places(ms, s)' BY ONLY <1>5, <1>7, <1>11, <1>15, <2>1 DEF Places, Kids
  <2> QED BY ONLY <2>5, <2>6
<1>20. CASE q = 1
  <2>1. PICK x : x = Inherited[1] OBVIOUS
  <2>2. q = Len(Inherited) BY <1>1, CopiesAre
  <2>3. PICK a \in 1 .. K : CopiedScope(x) = c[a] /\ scopes[c[a]].external
    <3>1. PICK cid : cid = id + q + 1 OBVIOUS
    <3>2. Left(cid) BY <1>2, <3>1
    <3>3. Len(Inherited) # 0 BY <1>20, <2>2
    <3>4. \E a \in 1 .. Len(Kids(current)) :
            CopiedScope(x) = Kids(current)[a] /\ scopes[CopiedScope(x)].external
      BY <2>1, <3>2, <3>3, CopyMade
    <3>5. PICK a \in 1 .. Len(Kids(current)) :
            CopiedScope(x) = Kids(current)[a] /\ scopes[CopiedScope(x)].external
      BY <3>4
    <3>6. Kids(current) = c BY <1>7
    <3>7. a \in 1 .. K BY <1>7, <3>5, <3>6
    <3>8. CopiedScope(x) = c[a] /\ scopes[c[a]].external BY ONLY <3>5, <3>6
    <3> QED BY ONLY <3>7, <3>8
  <2>4. CopyIs(Copies[1], decls[x], NewName(x), CopiedScope(x))
    <3>1. 1 \in 1 .. Len(Copies) BY <1>20
    <3> QED BY <1>1, <2>1, <3>1, CopiesAre
  <2>5. Copies[1].home = c[a] /\ decls'[id + 1] = Copies[1]
    BY <1>20, <2>3, <2>4, DerivedHeap DEF CopyIs
  <2>6. \A k \in 1 .. K : k # a => \A i \in 1 .. q : Copies[i].home # c[k]
    <3>1. \A i \in 1 .. q : i = 1 BY <1>20
    <3> QED BY ONLY <1>10, <2>5, <3>1, a \in 1 .. K
  <2>7. \A i \in 1 .. L : a < g0[i] BY ONLY <1>13, <2>3
  <2>8. \A i \in 1 .. L : g0[i] # a BY ONLY <1>9, <1>12, <2>7
  <2>9. PICK g : g = [i \in 1 .. L + 1 |-> IF i = 1 THEN a ELSE g0[i - 1]] OBVIOUS
  <2>10. g[1] = a /\ \A i \in 1 .. L : g[i + 1] = g0[i]
    <3>1. 1 \in 1 .. L + 1 BY ONLY <1>6
    <3>2. \A i \in 1 .. L : i + 1 \in 1 .. L + 1 /\ i + 1 # 1 /\ (i + 1) - 1 = i BY ONLY <1>6
    <3> QED BY ONLY <2>9, <3>1, <3>2
  <2>11. \A i \in 1 .. L + 1 : i = 1 \/ \E y \in 1 .. L : i = y + 1
    <3> TAKE i \in 1 .. L + 1
    <3>1. i # 1 => i - 1 \in 1 .. L /\ i = (i - 1) + 1 BY ONLY <1>6, i \in 1 .. L + 1
    <3> QED BY ONLY <3>1
  <2>12. Len(ms) = L + 1 /\ ms[1] = id + 1 /\ \A i \in 1 .. L : ms[i + 1] = om[i]
    <3>1. 1 \in 1 .. q BY <1>20
    <3>2. id + q + 1 - 1 = id + 1 /\ q + L = L + 1 BY ONLY <1>6, <1>20, id \in Nat
    <3>3. \A i \in 1 .. L : q + i = i + 1 BY ONLY <1>20
    <3> QED BY ONLY <1>16, <3>1, <3>2, <3>3
  <2>13. c[g[1]] = decls'[ms[1]].home /\ BodyIn(ms[1], s)'
    <3>1. PICK d, h : d = ms[1] /\ h = c[a] OBVIOUS
    <3>2. decls'[d] = Copies[1] /\ Copies[1].home = h BY <2>5, <2>12, <3>1
    <3>3. h \in 1 .. Len(scopes) BY <1>9, <3>1
    <3>4. /\ ~scopes'[h].external /\ scopes'[h].parent = s
          /\ \E k \in 1 .. Len(Copies) : Copies[k].home = h /\ scopes'[h].name = Copies[k].name
      <4>1. 1 \in 1 .. Len(Copies) BY <1>20
      <4> QED BY <1>14, <3>2, <3>3, <4>1 DEF AdoptedOrNot
    <3>5. scopes'[h].name = decls'[d].name
      <4>1. \A k \in 1 .. Len(Copies) : k = 1 BY <1>20
      <4> QED BY ONLY <3>2, <3>4, <4>1
    <3>6. ~decls'[d].nested
      <4>1. 1 \in 1 .. q BY <1>20
      <4> QED BY ONLY <1>4, <2>12, <3>1, <4>1
    <3>7. h \in 1 .. Len(scopes') BY <1>2, <3>3 DEF Left
    <3>8. BodyIn(d, s)' BY ONLY <3>2, <3>4, <3>5, <3>6, <3>7 DEF BodyIn
    <3>9. BodyIn(ms[1], s)' BY ONLY <3>1, <3>8 DEF BodyIn
    <3> QED BY ONLY <2>10, <3>1, <3>2, <3>9
  <2>14. ASSUME NEW i \in 1 .. L
         PROVE  c[g[i + 1]] = decls'[ms[i + 1]].home /\ BodyIn(ms[i + 1], s)'
    <3>1. \A k \in 1 .. q : Copies[k].home # c[g0[i]] BY ONLY <1>12, <2>6, <2>8, i \in 1 .. L
    <3>2. c[g0[i]] = decls'[om[i]].home /\ BodyIn(om[i], s)' BY ONLY <1>17, <3>1, i \in 1 .. L
    <3>3. ms[i + 1] = om[i] /\ g[i + 1] = g0[i] BY ONLY <2>10, <2>12, i \in 1 .. L
    <3>4. BodyIn(ms[i + 1], s)' BY ONLY <3>2, <3>3 DEF BodyIn
    <3> QED BY ONLY <3>2, <3>3, <3>4
  <2>15. \A i \in 1 .. L + 1 : c[g[i]] = decls'[ms[i]].home /\ BodyIn(ms[i], s)'
    <3> TAKE i \in 1 .. L + 1
    <3>1. CASE i = 1 BY ONLY <2>13, <3>1 DEF BodyIn
    <3>2. CASE \E y \in 1 .. L : i = y + 1
      <4>1. PICK y \in 1 .. L : i = y + 1 BY <3>2
      <4> QED BY ONLY <2>14, <4>1, y \in 1 .. L DEF BodyIn
    <3> QED BY ONLY <2>11, <3>1, <3>2, i \in 1 .. L + 1
  <2>16. \A i, j \in 1 .. L + 1 : i < j => g[i] < g[j]
    <3> TAKE i, j \in 1 .. L + 1
    <3> HAVE i < j
    <3>1. j # 1 BY ONLY i \in 1 .. L + 1, j \in 1 .. L + 1, i < j
    <3>2. PICK y \in 1 .. L : j = y + 1 BY ONLY <2>11, <3>1, j \in 1 .. L + 1
    <3>3. g[j] = g0[y] BY ONLY <2>10, <3>2
    <3>4. CASE i = 1 BY ONLY <2>7, <2>10, <3>3, <3>4, y \in 1 .. L
    <3>5. CASE i # 1
      <4>1. PICK z \in 1 .. L : i = z + 1 BY ONLY <2>11, <3>5, i \in 1 .. L + 1
      <4>2. z < y BY ONLY <1>6, <3>2, <4>1, i < j, y \in 1 .. L, z \in 1 .. L
      <4>3. g0[z] < g0[y] BY ONLY <1>13, <4>2, y \in 1 .. L, z \in 1 .. L
      <4>4. g[i] = g0[z] BY ONLY <2>10, <4>1
      <4> QED BY ONLY <3>3, <4>3, <4>4
    <3> QED BY <3>4, <3>5
  <2>17. ASSUME NEW k \in 1 .. K, \A i \in 1 .. L + 1 : g[i] # k PROVE scopes'[c[k]].external
    <3>1. k # a
      <4>1. 1 \in 1 .. L + 1 BY ONLY <1>6
      <4> QED BY ONLY <2>10, <2>17, <4>1
    <3>2. \A i \in 1 .. L : g0[i] # k
      <4>1. \A i \in 1 .. L : i + 1 \in 1 .. L + 1 BY ONLY <1>6
      <4> QED BY ONLY <2>10, <2>17, <4>1
    <3>3. scopes[c[k]].external BY ONLY <1>13, <3>2, k \in 1 .. K
    <3>4. \A i \in 1 .. q : Copies[i].home # c[k] BY ONLY <2>6, <3>1, k \in 1 .. K
    <3> QED BY ONLY <1>18, <3>3, <3>4, k \in 1 .. K
  <2>18. Lined(ms, s, g)' BY ONLY <1>7, <1>15, <2>12, <2>15, <2>16, <2>17 DEF Lined, Kids
  <2>19. g \in [1 .. L + 1 -> 1 .. K]
    <3>1. \A i \in 1 .. L + 1 : g[i] \in 1 .. K
      <4> TAKE i \in 1 .. L + 1
      <4>1. CASE i = 1 BY ONLY <2>10, <4>1, a \in 1 .. K
      <4>2. CASE \E y \in 1 .. L : i = y + 1
        <5>1. PICK y \in 1 .. L : i = y + 1 BY <4>2
        <5> QED BY ONLY <1>12, <2>10, <5>1, y \in 1 .. L
      <4> QED BY ONLY <2>11, <4>1, <4>2, i \in 1 .. L + 1
    <3> QED BY ONLY <2>9, <3>1
  <2>20. g \in Places(ms, s)' BY ONLY <1>7, <1>15, <2>12, <2>19 DEF Places, Kids
  <2> QED BY ONLY <2>18, <2>20
<1> QED BY ONLY <1>4, <1>19, <1>20, q \in Nat

\* The end of a class with a base keeps the invariant.
LEMMA LeaveDerivedKeeps ==
  ASSUME CInv, LeaveDerived
  PROVE  CInv'
<1>1. /\ InClass /\ base # NoDecl BY LeaveDerivedIs
<1>2. PICK q : q \in Nat /\ q = Len(Copies) BY <1>1, CopiesAre
<1>3. PICK id : id \in Nat /\ id = Len(decls) + 1
  <2>1. Len(decls) \in Nat BY HeapFacts
  <2>2. Len(decls) + 1 \in Nat BY ONLY <2>1
  <2> QED BY ONLY <2>2
<1>4. PICK l : l \in Nat /\ l = Len(classes) BY HeapFacts
<1>5. PICK s, ms, cid : s = current /\ ms = Derived.methods /\ cid = id + q + 1 OBVIOUS
<1>6. Left(cid) BY <1>2, <1>3, <1>5, DerivedLeft
<1>7. LastLined(l, ms, s) BY <1>2, <1>3, <1>4, <1>5, DerivedLined
<1>8. ms = decls'[cid].methods BY <1>2, <1>3, <1>5, DerivedHeap
<1> QED BY <1>4, <1>5, <1>6, <1>7, <1>8, LeftKeeps

-----------------------------------------------------------------------------
(***************************************************************************)
(* The other steps, and the start.                                         *)
(***************************************************************************)

\* A step that leaves what the parser made as it is.
ShapeKept ==
  /\ IsTree(scopes') /\ Len(scopes') = Len(scopes)
  /\ \A t \in 1 .. Len(scopes) : Alike(scopes[t], scopes'[t])
  /\ UNCHANGED parserVars

LEMMA ShapeFacts ==
  ASSUME CInv, ShapeKept
  PROVE  /\ DeclsKept /\ LoopsKept /\ ClassesKept
         /\ \A t \in 1 .. Len(scopes) : KidsKept(t) /\ scopes'[t].children = scopes[t].children
         /\ scopes'[Module].children = Row
         /\ current' = current /\ decls' = decls /\ parts' = parts /\ base' = base
         /\ classes' = classes
<1>1. /\ current' = current /\ decls' = decls /\ parts' = parts /\ base' = base
      /\ classes' = classes
  BY DEF ShapeKept, parserVars
<1>2. DeclsKept BY ONLY <1>1 DEF DeclsKept, SameDecl
<1>3. \A t \in 1 .. Len(scopes) : Alike(scopes[t], scopes'[t]) BY DEF ShapeKept
<1>4. Len(scopes') = Len(scopes) /\ Len(scopes) \in Nat BY TreeFacts DEF ShapeKept
<1>5. LoopsKept BY ONLY <1>3, <1>4 DEF LoopsKept
<1>6. \A t \in 1 .. Len(scopes) : \A i \in 1 .. Len(Kids(t)) : Kids(t)[i] \in 1 .. Len(scopes)
  BY TreeFacts
<1>7. \A t \in 1 .. Len(scopes) : scopes'[t].children = scopes[t].children
  BY ONLY <1>3 DEF Alike
<1>8. \A t \in 1 .. Len(scopes) : KidsKept(t) BY ONLY <1>3, <1>6, <1>7 DEF KidsKept
<1>9. scopes'[Module].children = Row BY <1>7, TreeFacts DEF Row
<1>10. ClassesKept
  <2>1. \A k \in 1 .. Len(classes) : k \in 1 .. Len(Row) BY ClassInRow
  <2>2. \A k \in 1 .. Len(classes) : Row[k] \in 1 .. Len(scopes) BY <2>1, TreeFacts
  <2>3. Len(classes') = Len(classes) /\ Len(classes) \in Nat BY <1>1, HeapFacts
  <2> QED BY ONLY <1>1, <1>8, <1>9, <2>2, <2>3 DEF ClassesKept
<1> QED BY ONLY <1>1, <1>2, <1>5, <1>7, <1>8, <1>9, <1>10

LEMMA TypesStay ==
  ASSUME CInv, ShapeKept, cg' \in 1 .. Len(scopes), cls' \in 0 .. Len(classes),
         phase' \in {"parse", "codegen", "failed"},
         visited' \subseteq (1 .. Len(decls)) \X (0 .. Len(scopes))
  PROVE  TypeOK'
<1>1. TypeOK BY DEF CInv
<1>2. IsTree(scopes') /\ Len(scopes') = Len(scopes) BY DEF ShapeKept
<1>3. /\ current' = current /\ decls' = decls /\ parts' = parts /\ base' = base
      /\ classes' = classes
  BY DEF ShapeKept, parserVars
<1>4. PICK D, l, n : D = decls /\ l = Len(D) /\ n = Len(scopes) OBVIOUS
<1>5. /\ current \in 1 .. n /\ D \in Seq(DeclType)
      /\ \A d \in 1 .. l :
           /\ Elements(D[d].fields) \cup Elements(D[d].methods) \subseteq 1 .. l
           /\ D[d].class \in 0 .. d - 1 /\ D[d].home \in 0 .. n
      /\ parts \in Seq(1 .. l) /\ classes \in Seq(1 .. l) /\ base \in 0 .. l
  BY ONLY <1>1, <1>4 DEF TypeOK
<1>6. decls' = D /\ Len(scopes') = n BY ONLY <1>3, <1>2, <1>4
<1>7. /\ current' \in 1 .. n /\ parts' \in Seq(1 .. l) /\ classes' \in Seq(1 .. l)
       /\ base' \in 0 .. l /\ cls' \in 0 .. Len(classes')
       /\ cg' \in 1 .. n /\ visited' \subseteq (1 .. l) \X (0 .. n)
  BY <1>3, <1>4, <1>5
<1>8. \A d \in 1 .. Len(decls') :
         /\ Elements(decls'[d].fields) \cup Elements(decls'[d].methods)
              \subseteq 1 .. Len(decls')
         /\ decls'[d].class \in 0 .. d - 1 /\ decls'[d].home \in 0 .. Len(scopes')
  BY ONLY <1>4, <1>5, <1>6
<1>9. /\ IsTree(scopes') /\ current' \in 1 .. Len(scopes') /\ cg' \in 1 .. Len(scopes')
       /\ decls' \in Seq(DeclType)
       /\ parts' \in Seq(1 .. Len(decls')) /\ classes' \in Seq(1 .. Len(decls'))
       /\ base' \in 0 .. Len(decls') /\ cls' \in 0 .. Len(classes')
       /\ visited' \subseteq (1 .. Len(decls')) \X (0 .. Len(scopes'))
  BY ONLY <1>2, <1>4, <1>5, <1>6, <1>7
<1> QED BY <1>8, <1>9 DEF TypeOK, Elements

LEMMA ShapeKeeps ==
  ASSUME CInv, ShapeKept, InClass => phase' = "parse"
  PROVE  /\ Rows' /\ ClassesRead' /\ MethodsNamed' /\ KidsAreMethods' /\ KidsApart'
         /\ ClassesLined' /\ PartsRead'
<1>1. /\ DeclsKept /\ LoopsKept /\ ClassesKept
      /\ scopes'[Module].children = Row
      /\ current' = current /\ decls' = decls /\ parts' = parts /\ base' = base
      /\ classes' = classes
  BY ShapeFacts
<1>2. \A t \in 1 .. Len(scopes) : KidsKept(t) /\ Alike(scopes[t], scopes'[t])
  BY ShapeFacts DEF ShapeKept
<1>3. \A k \in 1 .. Len(Row) : Row[k] \in 1 .. Len(scopes) BY TreeFacts
<1>4. scopes'[Module].children = scopes[Module].children BY <1>1 DEF Row
<1>5. Rows'
  <2>1. Len(scopes') >= Len(scopes) /\ Len(scopes') \in Nat BY TreeFacts DEF ShapeKept
  <2>2. scopes'[Module].kind = scopes[Module].kind BY <1>2, TreeFacts DEF Alike
  <2>3. \A k \in 1 .. Len(Row) :
          /\ scopes'[Row[k]].kind = "class" /\ ~scopes'[Row[k]].external
          /\ scopes'[Row[k]].name = scopes[Row[k]].name
          /\ scopes'[Row[k]].parent = scopes[Row[k]].parent
    <3>1. \A k \in 1 .. Len(Row) : scopes[Row[k]].kind = "class" /\ ~scopes[Row[k]].external
      BY TreeFacts
    <3> QED BY ONLY <1>2, <1>3, <3>1 DEF Alike
  <2>4. Len(Row) = Len(classes') + (IF current' # Module THEN 1 ELSE 0)
    BY <1>1, TreeFacts DEF InClass
  <2>5. current' # Module => InClass /\ current' = current /\ phase' = "parse"
    BY <1>1 DEF InClass
  <2> QED BY ONLY CInv, <1>4, <2>1, <2>2, <2>3, <2>4, <2>5, RowsKept
<1>6. ClassesRead'
  <2>1. ClassesRead BY DEF CInv
  <2> QED BY ONLY <1>1, <2>1 DEF ClassesRead
<1>7. MethodsNamed'
  <2>1. MethodsNamed BY DEF CInv
  <2> QED BY ONLY <1>1, <2>1 DEF MethodsNamed
<1>8. KidsAreMethods' /\ KidsApart' BY ONLY CInv, <1>2, <1>3, <1>4, KidsStay
<1>9. ClassesLined'
  <2>1. ASSUME NEW k \in 1 .. Len(classes), StraightTo(k)'
        PROVE  (\E g \in Places(decls[classes[k]].methods, Row[k]) :
                  Lined(decls[classes[k]].methods, Row[k], g))'
    BY <1>1, <2>1, ClassesLinedKept
  <2>2. Len(classes') = Len(classes) BY <1>1
  <2> QED BY ONLY <2>1, <2>2 DEF ClassesLined
<1>10. PartsRead'
  <2>1. PartsRead BY DEF CInv
  <2> QED BY ONLY <1>1, <2>1 DEF PartsRead, InClass
<1> QED BY ONLY <1>5, <1>6, <1>7, <1>8, <1>9, <1>10

\* The end of the program, and a step that changes nothing, keep the invariant.
LEMMA EndKeeps ==
  ASSUME CInv, EndProgram
  PROVE  CInv'
<1>1. UNCHANGED <<scopes, parserVars, generatorVars>> /\ phase = "parse" /\ phase' = "codegen"
  BY DEF EndProgram
<1>2. /\ scopes' = scopes /\ current' = current /\ decls' = decls /\ parts' = parts
      /\ base' = base /\ classes' = classes /\ cls' = cls /\ cg' = cg /\ visited' = visited
  BY ONLY <1>1 DEF parserVars, generatorVars
<1>3. ~InClass BY DEF EndProgram
<1>4. ~InClass' BY <1>2, <1>3 DEF InClass
<1>5. ShapeKept
  <2>1. IsTree(scopes) BY TreeFacts
  <2> QED BY ONLY <1>1, <1>2, <2>1 DEF ShapeKept, Alike, parserVars
<1>6. TypeOK'
  <2>1. phase' \in {"parse", "codegen", "failed"} BY <1>1
  <2>2. /\ cg' \in 1 .. Len(scopes) /\ cls' \in 0 .. Len(classes)
        /\ visited' \subseteq (1 .. Len(decls)) \X (0 .. Len(scopes))
    BY <1>2, HeapFacts
  <2> QED BY <1>5, <2>1, <2>2, TypesStay
<1>7. /\ Rows' /\ ClassesRead' /\ MethodsNamed' /\ KidsAreMethods' /\ KidsApart'
      /\ ClassesLined' /\ PartsRead'
  BY <1>3, <1>5, ShapeKeeps
<1>8. OwnLined' /\ BaseCopied' BY <1>4 DEF OwnLined, BaseCopied
<1>9. Still' BY <1>1 DEF Still
<1>10. InStep'
  <2>1. PICK k : k = cls OBVIOUS
  <2>2. k \in 0 .. Len(classes) BY <2>1, HeapFacts
  <2>3. StraightTo(k)' => StraightTo(k) BY <1>5, <2>2, ShapeFacts, StraightKept
  <2>4. StraightTo(cls)' => StraightTo(k) BY ONLY <1>2, <2>1, <2>3 DEF StraightTo
  <2>5. InStep BY DEF CInv
  <2>6. StraightTo(k) =>
          /\ cg = Module /\ scopes[Module].cursor = cls /\ Ahead
          /\ \A v \in visited : v[2] = decls[v[1]].home
    BY ONLY <2>1, <2>5 DEF InStep
  <2>7. Ahead => Ahead' BY ONLY <1>2 DEF Ahead, Row, Kids
  <2> QED BY ONLY <1>1, <1>2, <2>4, <2>6, <2>7 DEF InStep
<1> QED BY <1>6, <1>7, <1>8, <1>9, <1>10 DEF CInv

LEMMA StutterKeeps ==
  ASSUME CInv, UNCHANGED vars
  PROVE  CInv'
<1>1. /\ scopes' = scopes /\ current' = current /\ decls' = decls /\ parts' = parts
      /\ base' = base /\ classes' = classes /\ cls' = cls /\ cg' = cg /\ visited' = visited
      /\ phase' = phase
  BY DEF vars
<1>2. ShapeKept
  <2>1. IsTree(scopes) BY TreeFacts
  <2> QED BY ONLY <1>1, <2>1 DEF ShapeKept, Alike, parserVars
<1>3. TypeOK'
  <2>1. phase' \in {"parse", "codegen", "failed"} BY <1>1 DEF CInv, TypeOK
  <2>2. /\ cg' \in 1 .. Len(scopes) /\ cls' \in 0 .. Len(classes)
        /\ visited' \subseteq (1 .. Len(decls)) \X (0 .. Len(scopes))
    BY <1>1, HeapFacts
  <2> QED BY <1>2, <2>1, <2>2, TypesStay
<1>4. InClass => phase' = "parse"
  <2>1. Rows BY DEF CInv
  <2> QED BY ONLY <1>1, <2>1 DEF Rows
<1>5. /\ Rows' /\ ClassesRead' /\ MethodsNamed' /\ KidsAreMethods' /\ KidsApart'
      /\ ClassesLined' /\ PartsRead'
  BY <1>2, <1>4, ShapeKeeps
<1>6. OwnLined'
  <2>1. SUFFICES ASSUME InClass
                 PROVE  (\E g \in Places(Own(Body), current) :
                           /\ Lined(Own(Body), current, g)
                           /\ \A k \in 1 .. Len(Kids(current)), i \in 1 .. Len(Own(Body)) :
                                scopes[Kids(current)[k]].external => k < g[i])'
    BY <1>1 DEF OwnLined, InClass
  <2>2. PICK o, s : o = Own(Body) /\ s = current OBVIOUS
  <2>3. PICK g \in Places(o, s) :
          /\ Lined(o, s, g)
          /\ \A k \in 1 .. Len(Kids(s)), i \in 1 .. Len(o) : scopes[Kids(s)[k]].external => k < g[i]
    BY <2>1, <2>2 DEF CInv, OwnLined
  <2>4. s \in 1 .. Len(scopes) /\ \A i \in 1 .. Len(o) : o[i] \in 1 .. Len(decls)
    BY <2>2, HeapFacts, OwnCounted
  <2>5. Lined(o, s, g)' /\ g \in Places(o, s)'
    BY <1>2, <2>3, <2>4, ShapeFacts, LinedKept
  <2>6. Own(Body)' = o /\ current' = s BY ONLY <1>1, <2>2 DEF Own, DeclOf, Body
  <2>7. Kids(current)' = Kids(s) BY ONLY <1>1, <2>2 DEF Kids
  <2>8. g \in Places(Own(Body), current)' BY ONLY <2>5, <2>6 DEF Places, Kids
  <2>9. Lined(Own(Body), current, g)'
    <3>1. ASSUME NEW i PROVE BodyIn(o[i], s)' <=> BodyIn(Own(Body)[i], current)'
      BY ONLY <2>6 DEF BodyIn
    <3> QED BY ONLY <2>5, <2>6, <3>1 DEF Lined, Kids
  <2>10. (\A k \in 1 .. Len(Kids(current)), i \in 1 .. Len(Own(Body)) :
            scopes[Kids(current)[k]].external => k < g[i])'
    BY ONLY <1>1, <2>3, <2>6, <2>7
  <2> QED BY ONLY <2>8, <2>9, <2>10
<1>7. BaseCopied'
  <2>1. BaseCopied BY DEF CInv
  <2>2. scopes' = scopes /\ base' = base /\ classes' = classes /\ current' = current BY <1>1
  <2>3. PICK sc, b, cl, cu : sc = scopes /\ b = base /\ cl = classes /\ cu = current OBVIOUS
  <2>4. ASSUME cu # Module, NEW j \in 1 .. Len(cl), cl[j] = b,
               NEW i \in 1 .. Len(sc[sc[Module].children[j]].children)
        PROVE  \E k \in 1 .. Len(sc[cu].children) :
                 /\ sc[sc[cu].children[k]].external
                 /\ sc[sc[cu].children[k]].name
                      = sc[sc[sc[Module].children[j]].children[i]].name
    BY ONLY <2>1, <2>3, <2>4 DEF BaseCopied, InClass, Row, Kids
  <2>5. scopes' = sc /\ base' = b /\ classes' = cl /\ current' = cu BY ONLY <2>2, <2>3
  <2> QED BY ONLY <2>4, <2>5 DEF BaseCopied, InClass, Row, Kids
<1>8. Still'
  <2>1. Still BY DEF CInv
  <2> QED BY ONLY <1>1, <2>1 DEF Still
<1>9. InStep'
  <2>1. PICK k : k = cls OBVIOUS
  <2>2. k \in 0 .. Len(classes) BY <2>1, HeapFacts
  <2>3. StraightTo(k)' => StraightTo(k) BY <1>2, <2>2, ShapeFacts, StraightKept
  <2>4. StraightTo(cls)' => StraightTo(k) BY ONLY <1>1, <2>1, <2>3 DEF StraightTo
  <2>5. InStep BY DEF CInv
  <2>6. StraightTo(k) =>
          /\ phase # "failed" /\ cg = Module /\ scopes[Module].cursor = cls /\ Ahead
          /\ \A v \in visited : v[2] = decls[v[1]].home
    BY ONLY <2>1, <2>5 DEF InStep
  <2>7. Ahead => Ahead' BY ONLY <1>1 DEF Ahead, Row, Kids
  <2> QED BY ONLY <1>1, <2>4, <2>6, <2>7 DEF InStep
<1> QED BY <1>3, <1>5, <1>6, <1>7, <1>8, <1>9 DEF CInv

\* The first scopes are the global one and that of the module.
LEMMA InitHolds ==
  ASSUME Init
  PROVE  CInv
<1>1. PICK m : m = CHOOSE n \in ModuleName : TRUE OBVIOUS
<1>2. m \in ModuleName BY <1>1, ClassesAssumption, Zenon DEF ClassesAssumption
<1>3. PICK g : g = NewScope("global", "Global", None) OBVIOUS
<1>4. IsScope(g, "global", "Global", None, << >>, FALSE, 0, NoSymbols)
  <2>1. "global" \in Kind /\ "Global" \in Name /\ None \in Nat
    BY DEF Kind, Name, FixedName, None
  <2> QED BY ONLY <1>3, <2>1, NewScopeIs
<1>5. PICK sc : sc = <<g>> OBVIOUS
<1>6. sc \in Seq(ScopeType) /\ Len(sc) = 1 /\ sc[1] = g BY <1>4, <1>5 DEF IsScope
<1>7. IsTree(sc)
  <2>1. g.parent = 0 /\ g.children = << >> BY <1>4 DEF IsScope, None
  <2> QED BY ONLY <1>6, <2>1 DEF IsTree
<1>8. scopes = CreateChild(sc, Global, "module", m) BY <1>1, <1>3, <1>5 DEF Init
<1>9. ChildMade(sc, Global, "module", m, scopes)
  <2>1. Global \in 1 .. Len(sc) BY <1>6 DEF Global
  <2>2. "module" \in Kind /\ m \in Name BY <1>2 DEF Kind, Name
  <2> QED BY ONLY <1>7, <1>8, <2>1, <2>2, CreateChildIs
<1>10. /\ IsTree(scopes) /\ Len(scopes) = 2 /\ scopes[2].kind = "module"
       /\ scopes[2].children = << >> /\ scopes[2].cursor = 0 /\ scopes[1].cursor = 0
  <2>1. IsTree(scopes) /\ Len(scopes) = 2 /\ Len(sc) + 1 = 2
    BY <1>6, <1>9 DEF ChildMade
  <2>2. scopes[2].kind = "module" /\ scopes[2].children = << >> /\ scopes[2].cursor = 0
    BY ONLY <1>9, <2>1 DEF ChildMade, IsScope
  <2>3. scopes[1].cursor = sc[1].cursor BY ONLY <1>9 DEF ChildMade, IsScope, Global
  <2>4. sc[1].cursor = 0 BY ONLY <1>4, <1>6 DEF IsScope
  <2> QED BY ONLY <2>1, <2>2, <2>3, <2>4
<1>11. /\ current = 2 /\ decls = << >> /\ parts = << >> /\ base = 0 /\ classes = << >>
       /\ phase = "parse" /\ cls = 0 /\ cg = 2 /\ visited = {}
  BY DEF Init, Module, NoDecl
<1>12. ~InClass BY <1>11 DEF InClass, Module
<1>13. Row = << >> /\ Len(Row) = 0 BY <1>10 DEF Row, Module
<1>14. TypeOK
  <2>1. Len(decls) = 0 /\ Len(classes) = 0 /\ decls \in Seq(DeclType) BY <1>11
  <2>2. parts \in Seq(1 .. Len(decls)) /\ classes \in Seq(1 .. Len(decls)) BY <1>11
  <2> QED BY ONLY <1>10, <1>11, <2>1, <2>2 DEF TypeOK
<1>15. Rows
  <2>1. Len(ClassName) \in Nat BY ClassNames
  <2>2. Len(classes) = 0 BY <1>11
  <2> QED BY ONLY <1>10, <1>12, <1>13, <2>1, <2>2 DEF Rows, Module
<1>16. ClassesRead /\ MethodsNamed /\ ClassesLined
  <2>1. Len(decls) = 0 /\ Len(classes) = 0 BY <1>11
  <2> QED BY ONLY <2>1 DEF ClassesRead, MethodsNamed, ClassesLined
<1>17. KidsAreMethods /\ KidsApart BY ONLY <1>13 DEF KidsAreMethods, KidsApart
<1>18. PartsRead /\ OwnLined /\ BaseCopied BY ONLY <1>12 DEF PartsRead, OwnLined, BaseCopied
<1>19. Still
  <2>1. \A s \in 1 .. 2 : s = 1 \/ s = 2 OBVIOUS
  <2>2. \A s \in 1 .. Len(scopes) : scopes[s].cursor = 0 BY ONLY <1>10, <2>1
  <2> QED BY ONLY <1>11, <2>2 DEF Still, Module
<1>20. InStep
  <2>1. Ahead BY ONLY <1>11, <1>13 DEF Ahead
  <2> QED BY ONLY <1>10, <1>11, <2>1 DEF InStep, Module
<1> QED BY <1>14, <1>15, <1>16, <1>17, <1>18, <1>19, <1>20 DEF CInv

-----------------------------------------------------------------------------
(***************************************************************************)
(* The code generator.                                                     *)
(***************************************************************************)

Walk(sc, s, m) == [tree |-> sc, at |-> s, seen |-> m]

LEMMA WalkIs ==
  ASSUME NEW sc, NEW s, NEW m
  PROVE  /\ Walk(sc, s, m).tree = sc /\ Walk(sc, s, m).at = s /\ Walk(sc, s, m).seen = m
         /\ s = None => Down(Walk(sc, s, m)) = Walk(sc, s, m) /\ Up(Walk(sc, s, m)) = Walk(sc, s, m)
         /\ s # None => /\ Down(Walk(sc, s, m)) = Walk(Advance(sc, s), NextScope(sc, s), m)
                        /\ Up(Walk(sc, s, m)) = Walk(sc, sc[s].parent, m)
<1>1. PICK w : w = [tree |-> sc, at |-> s, seen |-> m] OBVIOUS
<1>2. w = Walk(sc, s, m) BY <1>1 DEF Walk
<1>3. w.tree = sc /\ w.at = s /\ w.seen = m BY ONLY <1>1
<1>4. s = None => Down(w) = w /\ Up(w) = w BY ONLY <1>3 DEF Down, Up
<1>5. ASSUME s # None
      PROVE  /\ Down(w) = Walk(Advance(sc, s), NextScope(sc, s), m)
             /\ Up(w) = Walk(sc, sc[s].parent, m)
  <2>1. PICK a, b, p : a = Advance(sc, s) /\ b = NextScope(sc, s) /\ p = sc[s].parent OBVIOUS
  <2>2. [w EXCEPT !.tree = a, !.at = b] = [tree |-> a, at |-> b, seen |-> m]
    <3>1. PICK w1 : w1 = [w EXCEPT !.tree = a] OBVIOUS
    <3>2. w1 = [tree |-> a, at |-> s, seen |-> m] BY ONLY <1>1, <3>1
    <3>3. [w1 EXCEPT !.at = b] = [tree |-> a, at |-> b, seen |-> m] BY ONLY <3>2
    <3>4. [w EXCEPT !.tree = a, !.at = b] = [w1 EXCEPT !.at = b] BY ONLY <3>1
    <3> QED BY ONLY <3>3, <3>4
  <2>3. [w EXCEPT !.at = p] = [tree |-> sc, at |-> p, seen |-> m] BY ONLY <1>1
  <2>4. Down(w) = [w EXCEPT !.tree = a, !.at = b] BY ONLY <1>3, <1>5, <2>1 DEF Down
  <2>5. Up(w) = [w EXCEPT !.at = p] BY ONLY <1>3, <1>5, <2>1 DEF Up
  <2> QED BY ONLY <2>1, <2>2, <2>3, <2>4, <2>5 DEF Walk
<1> QED BY ONLY <1>2, <1>3, <1>4, <1>5

Meet(w, d) == [w EXCEPT !.seen = @ \cup {<<d, w.at>>}]

LEMMA WalkSeen ==
  ASSUME NEW sc, NEW s, NEW m, NEW d, NEW i, i = Walk(sc, s, m)
  PROVE  Meet(i, d) = Walk(sc, s, m \cup {<<d, s>>})
<1>1. i = [tree |-> sc, at |-> s, seen |-> m] BY DEF Walk
<1>2. PICK u : u = m \cup {<<d, s>>} OBVIOUS
<1>3. [i EXCEPT !.seen = u] = [tree |-> sc, at |-> s, seen |-> u] BY ONLY <1>1
<1>4. i.seen = m /\ i.at = s BY ONLY <1>1
<1>5. i.seen \cup {<<d, i.at>>} = u BY ONLY <1>2, <1>4
<1>6. Meet(i, d) = [i EXCEPT !.seen = u] BY ONLY <1>5 DEF Meet
<1> QED BY ONLY <1>2, <1>3, <1>6 DEF Walk

\* The tree with the cursors moved.
Moved(sc) ==
  /\ IsTree(sc) /\ Len(sc) = Len(scopes)
  /\ \A t \in 1 .. Len(scopes) : Alike(scopes[t], sc[t])

Met == (1 .. Len(decls)) \X (0 .. Len(scopes))

WalkOK(w) ==
  \E sc, s, m : w = Walk(sc, s, m) /\ Moved(sc) /\ s \in 0 .. Len(scopes) /\ m \subseteq Met

LEMMA MovedOn ==
  ASSUME NEW sc, Moved(sc), NEW s \in 1 .. Len(scopes)
  PROVE  Moved(Advance(sc, s)) /\ NextScope(sc, s) \in 0 .. Len(scopes)
<1>1. IsTree(sc) /\ Len(sc) = Len(scopes) BY DEF Moved
<1>2. PICK sc2 : sc2 = Advance(sc, s) OBVIOUS
<1>3. s \in 1 .. Len(sc) BY <1>1
<1>4. /\ IsTree(sc2) /\ Len(sc2) = Len(sc)
      /\ NextScope(sc, s) \in 0 .. Len(sc)
      /\ IsScope(sc2[s], sc[s].kind, sc[s].name, sc[s].parent, sc[s].children,
                 sc[s].external, PassedTo(sc, s), sc[s].decl)
      /\ \A t \in 1 .. Len(sc) : t # s => sc2[t] = sc[t]
  BY ONLY <1>1, <1>2, <1>3, AdvanceIs
<1>5. \A t \in 1 .. Len(scopes) : Alike(scopes[t], sc[t]) BY DEF Moved
<1>6. \A t \in 1 .. Len(scopes) : Alike(scopes[t], sc2[t])
  <2> TAKE t \in 1 .. Len(scopes)
  <2>1. CASE t = s
    <3>1. Alike(scopes[s], sc[s]) BY <1>5
    <3> QED BY ONLY <1>4, <2>1, <3>1 DEF Alike, IsScope
  <2>2. CASE t # s
    <3>1. sc2[t] = sc[t] BY ONLY <1>1, <1>4, <2>2, t \in 1 .. Len(scopes)
    <3> QED BY <1>5, <3>1
  <2> QED BY <2>1, <2>2
<1> QED BY <1>1, <1>2, <1>4, <1>6 DEF Moved

LEMMA DownOK ==
  ASSUME CInv, NEW w, WalkOK(w)
  PROVE  WalkOK(Down(w))
<1>1. PICK sc, s, m : w = Walk(sc, s, m) /\ Moved(sc) /\ s \in 0 .. Len(scopes) /\ m \subseteq Met
  BY DEF WalkOK
<1>2. CASE s = None
  <2>1. Down(Walk(sc, s, m)) = Walk(sc, s, m) BY ONLY <1>2, WalkIs
  <2> QED BY <1>1, <2>1
<1>3. CASE s # None
  <2>1. Down(Walk(sc, s, m)) = Walk(Advance(sc, s), NextScope(sc, s), m) BY ONLY <1>3, WalkIs
  <2>2. s \in 1 .. Len(scopes) BY <1>1, <1>3, TreeFacts DEF None
  <2>3. Moved(Advance(sc, s)) /\ NextScope(sc, s) \in 0 .. Len(scopes)
    BY ONLY <1>1, <2>2, MovedOn
  <2> QED BY <1>1, <2>1, <2>3 DEF WalkOK
<1> QED BY <1>2, <1>3

LEMMA UpOK ==
  ASSUME CInv, NEW w, WalkOK(w)
  PROVE  WalkOK(Up(w))
<1>1. PICK sc, s, m : w = Walk(sc, s, m) /\ Moved(sc) /\ s \in 0 .. Len(scopes) /\ m \subseteq Met
  BY DEF WalkOK
<1>2. CASE s = None
  <2>1. Up(Walk(sc, s, m)) = Walk(sc, s, m) BY ONLY <1>2, WalkIs
  <2> QED BY <1>1, <2>1
<1>3. CASE s # None
  <2>1. Up(Walk(sc, s, m)) = Walk(sc, sc[s].parent, m) BY ONLY <1>3, WalkIs
  <2>2. s \in 1 .. Len(scopes) BY <1>1, <1>3, TreeFacts DEF None
  <2>3. sc[s].parent \in 0 .. Len(scopes)
    <3>1. IsTree(sc) /\ s \in 1 .. Len(sc) BY <1>1, <2>2 DEF Moved
    <3>2. sc[s].parent \in 0 .. Len(sc) BY ONLY <3>1, ScopeFields
    <3> QED BY <1>1, <3>2 DEF Moved
  <2> QED BY <1>1, <2>1, <2>3 DEF WalkOK
<1> QED BY <1>2, <1>3

LEMMA VisitOK ==
  ASSUME CInv, NEW w, WalkOK(w), NEW d \in 1 .. Len(decls)
  PROVE  WalkOK(VisitMethod(w, d))
<1>1. PICK i : i = Down(w) OBVIOUS
<1>2. WalkOK(i) BY <1>1, DownOK
<1>3. PICK sc, s, m : i = Walk(sc, s, m) /\ Moved(sc) /\ s \in 0 .. Len(scopes) /\ m \subseteq Met
  BY <1>2 DEF WalkOK
<1>4. PICK e : e = Meet(i, d) OBVIOUS
<1>5. e = Walk(sc, s, m \cup {<<d, s>>})
  <2>1. i = Walk(sc, s, m) BY <1>3
  <2> QED BY ONLY <1>4, <2>1, WalkSeen
<1>6. m \cup {<<d, s>>} \subseteq Met BY <1>3 DEF Met
<1>7. WalkOK(e) BY <1>3, <1>5, <1>6 DEF WalkOK
<1>8. WalkOK(Up(Down(e))) BY <1>7, DownOK, UpOK
<1>9. PICK x : x = IF decls[d].nested THEN Up(Down(e)) ELSE e OBVIOUS
<1>10. WalkOK(x) BY <1>7, <1>8, <1>9
<1>11. VisitMethod(w, d) = Up(x) BY ONLY <1>1, <1>4, <1>9 DEF VisitMethod, Meet
<1> QED BY <1>10, <1>11, UpOK

\* The walk over the methods, one by one.
WalkAt(ms, w, k) ==
  IF k = 0 THEN Down([tree |-> scopes, at |-> cg, seen |-> visited])
  ELSE VisitMethod(w[k - 1], ms[k])

WalkTo(ms, w, n) == \A k \in 0 .. n : w[k] = WalkAt(ms, w, k)

LEMMA WalkedIs ==
  ASSUME NEW ms, Len(ms) \in Nat
  PROVE  \E w : WalkTo(ms, w, Len(ms)) /\ Walked(ms) = w[Len(ms)]
<1>1. PICK n \in Nat : n = Len(ms) OBVIOUS
<1>2. PICK K : K = {d \in Nat : \E f : WalkTo(ms, f, d)} OBVIOUS
<1>3. 0 \in K
  <2>1. PICK a : a = Down([tree |-> scopes, at |-> cg, seen |-> visited]) OBVIOUS
  <2>2. PICK f : f = [k \in 0 .. 0 |-> a] OBVIOUS
  <2>3. \A k \in 0 .. 0 : f[k] = WalkAt(ms, f, k) BY <2>1, <2>2 DEF WalkAt
  <2>4. WalkTo(ms, f, 0) BY <2>3 DEF WalkTo
  <2> QED BY <1>2, <2>4
<1>4. ASSUME NEW d \in Nat, d \in K PROVE d + 1 \in K
  <2>1. PICK f : WalkTo(ms, f, d) BY <1>2, <1>4
  <2>2. PICK e : e = VisitMethod(f[d], ms[d + 1]) OBVIOUS
  <2>3. PICK g : g = [k \in 0 .. d + 1 |-> IF k = d + 1 THEN e ELSE f[k]] OBVIOUS
  <2>4. \A k \in 0 .. d : g[k] = f[k] BY ONLY <2>3, d \in Nat
  <2>5. g[d + 1] = e BY ONLY <2>3, d \in Nat
  <2>6. \A k \in 0 .. d + 1 : g[k] = WalkAt(ms, g, k)
    <3> TAKE k \in 0 .. d + 1
    <3>1. CASE k = 0
      <4>1. 0 \in 0 .. d OBVIOUS
      <4>2. f[0] = WalkAt(ms, f, 0) BY <2>1, <4>1 DEF WalkTo
      <4>3. WalkAt(ms, f, 0) = WalkAt(ms, g, 0) BY DEF WalkAt
      <4> QED BY ONLY <2>4, <3>1, <4>1, <4>2, <4>3
    <3>2. CASE k = d + 1
      <4>1. k # 0 /\ k - 1 = d /\ d \in 0 .. d BY <3>2
      <4>2. g[k - 1] = f[d] /\ g[k] = e BY <2>4, <2>5, <3>2, <4>1
      <4> QED BY ONLY <2>2, <3>2, <4>1, <4>2 DEF WalkAt
    <3>3. CASE k # 0 /\ k # d + 1
      <4>1. k \in 0 .. d /\ k - 1 \in 0 .. d BY <3>3
      <4>2. g[k] = f[k] /\ g[k - 1] = f[k - 1] /\ f[k] = WalkAt(ms, f, k)
        BY <2>1, <2>4, <4>1 DEF WalkTo
      <4> QED BY ONLY <3>3, <4>2 DEF WalkAt
    <3> QED BY <3>1, <3>2, <3>3
  <2>7. WalkTo(ms, g, d + 1) BY <2>6 DEF WalkTo
  <2> QED BY <1>2, <2>7
<1>5. n \in K
  <2>1. \A d \in Nat : d \in K => d + 1 \in K BY <1>4
  <2>2. \A d \in Nat : d \in K BY ONLY <1>3, <2>1, Counting
  <2> QED BY <2>2
<1>6. PICK f : WalkTo(ms, f, n) BY <1>2, <1>5
<1>7. PICK g : g = [k \in 0 .. n |-> f[k]] OBVIOUS
<1>8. g = [k \in 0 .. n |-> WalkAt(ms, g, k)]
  <2>1. \A k \in 0 .. n : g[k] = WalkAt(ms, g, k)
    <3> TAKE k \in 0 .. n
    <3>1. k # 0 => k - 1 \in 0 .. n OBVIOUS
    <3>2. g[k] = f[k] /\ (k # 0 => g[k - 1] = f[k - 1]) BY <1>7, <3>1
    <3>3. f[k] = WalkAt(ms, f, k) BY <1>6 DEF WalkTo
    <3> QED BY ONLY <3>2, <3>3 DEF WalkAt
  <2> QED BY ONLY <1>7, <2>1
<1>9. PICK h : h = CHOOSE x : x = [k \in 0 .. n |-> WalkAt(ms, x, k)] OBVIOUS
<1>10. h = [k \in 0 .. n |-> WalkAt(ms, h, k)] BY ONLY <1>8, <1>9
<1>11. Walked(ms) = h[n] BY ONLY <1>1, <1>9 DEF Walked, WalkAt
<1>12. WalkTo(ms, h, n) BY ONLY <1>10 DEF WalkTo
<1> QED BY <1>1, <1>11, <1>12

\* What holds at the start, and after a method when it held before, holds in the end.
LEMMA Stepwise ==
  ASSUME NEW n \in Nat, NEW K, 0 \in K, \A k \in 1 .. n : k - 1 \in K => k \in K
  PROVE  n \in K
<1>1. PICK T : T = {k \in Nat : k <= n => k \in K} OBVIOUS
<1>2. 0 \in T BY <1>1
<1>3. \A d \in Nat : d \in T => d + 1 \in T
  <2> TAKE d \in Nat
  <2> HAVE d \in T
  <2>1. ASSUME d + 1 <= n PROVE d + 1 \in K
    <3>1. d \in K BY ONLY <1>1, <2>1, d \in T, d \in Nat, n \in Nat
    <3>2. d + 1 \in 1 .. n /\ (d + 1) - 1 = d BY ONLY <2>1, d \in Nat, n \in Nat
    <3> QED BY ONLY <3>1, <3>2, \A k \in 1 .. n : k - 1 \in K => k \in K
  <2> QED BY ONLY <1>1, <2>1, d \in Nat
<1>4. \A d \in Nat : d \in T BY ONLY <1>2, <1>3, Counting
<1> QED BY ONLY <1>1, <1>4, n \in Nat

LEMMA WalkedOK ==
  ASSUME CInv, NEW ms, Len(ms) \in Nat, \A k \in 1 .. Len(ms) : ms[k] \in 1 .. Len(decls)
  PROVE  WalkOK(Walked(ms))
<1>1. PICK n \in Nat : n = Len(ms) OBVIOUS
<1>2. PICK w : WalkTo(ms, w, n) /\ Walked(ms) = w[n] BY <1>1, WalkedIs
<1>3. PICK K : K = {k \in 0 .. n : WalkOK(w[k])} OBVIOUS
<1>4. 0 \in K
  <2>1. WalkOK(Walk(scopes, cg, visited))
    <3>1. Moved(scopes) BY TreeFacts DEF Moved, Alike
    <3>2. cg \in 1 .. Len(scopes) /\ visited \subseteq Met BY HeapFacts DEF Met
    <3>3. cg \in 0 .. Len(scopes) BY ONLY <3>2
    <3> QED BY ONLY <3>1, <3>2, <3>3 DEF WalkOK
  <2>2. w[0] = Down(Walk(scopes, cg, visited)) BY <1>2 DEF WalkTo, WalkAt, Walk
  <2>3. WalkOK(w[0]) BY <2>1, <2>2, DownOK
  <2> QED BY <1>3, <2>3
<1>5. \A k \in 1 .. n : k - 1 \in K => k \in K
  <2> TAKE k \in 1 .. n
  <2> HAVE k - 1 \in K
  <2>1. WalkOK(w[k - 1]) BY <1>3
  <2>2. k \in 0 .. n /\ k # 0 OBVIOUS
  <2>3. w[k] = VisitMethod(w[k - 1], ms[k]) BY ONLY <1>2, <2>2 DEF WalkTo, WalkAt
  <2>4. ms[k] \in 1 .. Len(decls) BY <1>1
  <2>5. WalkOK(w[k]) BY <2>1, <2>3, <2>4, VisitOK
  <2> QED BY <1>3, <2>2, <2>5
<1>6. n \in K BY ONLY <1>4, <1>5, n \in Nat, Stepwise
<1> QED BY <1>2, <1>3, <1>6

\* A method is visited in its scope, the next one that nextScope does not step over.
VisitedIn(sc, s, m, d, h, q) ==
  \E sc2 :
    /\ VisitMethod(Walk(sc, s, m), d) = Walk(sc2, s, m \cup {<<d, h>>})
    /\ Moved(sc2) /\ sc2[s].cursor = q
    /\ \A t \in 1 .. Len(scopes) : t # s /\ t # h => sc2[t] = sc[t]

LEMMA VisitIs ==
  ASSUME CInv, NEW d, NEW s \in 1 .. Len(scopes), BodyIn(d, s),
         NEW sc, Moved(sc), NEW m, NEW q \in 1 .. Len(Kids(s)),
         NEW h, h = decls[d].home, h = Kids(s)[q], h # s, scopes[h].kind = "method",
         sc[s].cursor < q, sc[h].cursor = 0,
         \A i \in sc[s].cursor + 1 .. q - 1 : scopes[Kids(s)[i]].external
  PROVE  VisitedIn(sc, s, m, d, h, q)
<1>1. PICK n : n \in Nat /\ n = Len(scopes) BY TreeFacts
<1>2. /\ IsTree(sc) /\ Len(sc) = n /\ \A t \in 1 .. n : Alike(scopes[t], sc[t])
  BY <1>1 DEF Moved
<1>3. /\ h \in 1 .. n /\ ~scopes[h].external /\ scopes[h].parent = s
      /\ decls[d].nested =>
           /\ Len(Kids(h)) = 1
           /\ scopes[Kids(h)[1]].kind = "loop" /\ ~scopes[Kids(h)[1]].external
           /\ scopes[Kids(h)[1]].parent = h
  BY <1>1 DEF BodyIn
<1>4. PICK c : c = Kids(s) OBVIOUS
<1>5. sc[s].children = c /\ s \in 1 .. n BY <1>1, <1>2, <1>4 DEF Alike, Kids
<1>6. \A i \in 1 .. Len(c) : c[i] \in 1 .. n BY <1>1, <1>4, TreeFacts
<1>7. sc[s].cursor \in Nat BY <1>2, <1>5, ScopeFields
<1>8. ~Skippable(sc, h)
  <2>1. sc[h].kind = "method" /\ ~sc[h].external BY <1>2, <1>3 DEF Alike
  <2> QED BY ONLY <2>1 DEF Skippable, BuiltinKind
<1>9. \A i \in sc[s].cursor + 1 .. q - 1 : Skippable(sc, c[i])
  <2> TAKE i \in sc[s].cursor + 1 .. q - 1
  <2>1. q \in 1 .. Len(c) /\ Len(c) \in Nat BY <1>1, <1>4, TreeFacts
  <2>2. i \in 1 .. Len(c) BY ONLY <1>7, <2>1, i \in sc[s].cursor + 1 .. q - 1
  <2>3. c[i] \in 1 .. n BY ONLY <1>6, <2>2
  <2>4. scopes[c[i]].external BY <1>4
  <2>5. sc[c[i]].external BY ONLY <1>2, <2>3, <2>4 DEF Alike
  <2> QED BY ONLY <2>5 DEF Skippable
<1>10. NextScope(sc, s) = h /\ PassedTo(sc, s) = q
  <2>1. s \in 1 .. Len(sc) /\ q \in 1 .. Len(sc[s].children) BY <1>2, <1>4, <1>5
  <2>2. sc[s].children[q] = h BY <1>4, <1>5
  <2>3. ~Skippable(sc, sc[s].children[q]) BY <1>8, <2>2
  <2>4. \A i \in sc[s].cursor + 1 .. q - 1 : Skippable(sc, sc[s].children[i]) BY <1>5, <1>9
  <2>5. NextScope(sc, s) = sc[s].children[q] /\ PassedTo(sc, s) = q
    BY ONLY <1>2, <2>1, <2>3, <2>4, sc[s].cursor < q, NextScopeIs
  <2> QED BY ONLY <2>2, <2>5
<1>11. PICK sc1 : sc1 = Advance(sc, s) OBVIOUS
<1>12. Moved(sc1) BY <1>1, <1>5, <1>11, MovedOn
<1>13. sc1[s].cursor = q /\ \A t \in 1 .. n : t # s => sc1[t] = sc[t]
  <2>1. s \in 1 .. Len(sc) BY <1>2, <1>5
  <2>2. /\ IsScope(sc1[s], sc[s].kind, sc[s].name, sc[s].parent, sc[s].children,
                    sc[s].external, PassedTo(sc, s), sc[s].decl)
        /\ \A t \in 1 .. Len(sc) : t # s => sc1[t] = sc[t]
    BY ONLY <1>2, <1>11, <2>1, AdvanceIs
  <2> QED BY ONLY <1>2, <1>10, <2>2 DEF IsScope
<1>14. PICK m2 : m2 = m \cup {<<d, h>>} OBVIOUS
<1>15. s # None /\ h # None BY <1>1, <1>3, <1>5 DEF None
<1>16. Down(Walk(sc, s, m)) = Walk(sc1, h, m)
  BY ONLY <1>10, <1>11, <1>15, WalkIs
<1>17. Meet(Walk(sc1, h, m), d) = Walk(sc1, h, m2) BY ONLY <1>14, WalkSeen
<1>18. VisitMethod(Walk(sc, s, m), d) =
         Up(IF decls[d].nested THEN Up(Down(Walk(sc1, h, m2))) ELSE Walk(sc1, h, m2))
  BY ONLY <1>16, <1>17 DEF VisitMethod, Meet
<1>19. ASSUME NEW x, Moved(x) PROVE Up(Walk(x, h, m2)) = Walk(x, s, m2)
  <2>1. x[h].parent = s BY <1>1, <1>3, <1>19 DEF Moved, Alike
  <2> QED BY ONLY <1>15, <2>1, WalkIs
<1>20. CASE ~decls[d].nested
  <2>1. VisitMethod(Walk(sc, s, m), d) = Walk(sc1, s, m2)
    BY ONLY <1>12, <1>18, <1>19, <1>20
  <2> QED BY ONLY <1>1, <1>12, <1>13, <1>14, <2>1 DEF VisitedIn
<1>21. CASE decls[d].nested
  <2>1. PICK l : l = Kids(h)[1] OBVIOUS
  <2>2. /\ Len(Kids(h)) = 1 /\ scopes[l].kind = "loop" /\ ~scopes[l].external
        /\ scopes[l].parent = h
    BY ONLY <1>3, <1>21, <2>1
  <2>3. l \in 1 .. n
    <3>1. 1 \in 1 .. Len(Kids(h)) BY ONLY <2>2
    <3> QED BY <1>1, <1>3, <2>1, <3>1, TreeFacts
  <2>4. /\ IsTree(sc1) /\ Len(sc1) = n /\ \A t \in 1 .. n : Alike(scopes[t], sc1[t])
    BY <1>1, <1>12 DEF Moved
  <2>5. sc1[h].children = Kids(h) /\ sc1[h].cursor = 0
    <3>1. sc1[h] = sc[h] BY <1>3, <1>13
    <3>2. sc1[h].children = scopes[h].children BY ONLY <1>3, <2>4 DEF Alike
    <3> QED BY <3>1, <3>2 DEF Kids
  <2>6. NextScope(sc1, h) = l
    <3>0. 1 \in 1 .. Len(Kids(h)) BY ONLY <2>2
    <3>1. h \in 1 .. Len(sc1) /\ 1 \in 1 .. Len(sc1[h].children)
      BY ONLY <1>3, <2>4, <2>5, <3>0
    <3>2. sc1[h].children[1] = l BY ONLY <2>1, <2>5
    <3>3. ~Skippable(sc1, l)
      <4>1. sc1[l].kind = "loop" /\ ~sc1[l].external BY ONLY <2>2, <2>3, <2>4 DEF Alike
      <4> QED BY ONLY <4>1 DEF Skippable, BuiltinKind
    <3>4. ~Skippable(sc1, sc1[h].children[1]) BY ONLY <3>2, <3>3
    <3>5. \A i \in sc1[h].cursor + 1 .. 1 - 1 : Skippable(sc1, sc1[h].children[i])
      BY ONLY <2>5
    <3>6. sc1[h].cursor < 1 BY ONLY <2>5
    <3>7. NextScope(sc1, h) = sc1[h].children[1]
      BY ONLY <2>4, <3>1, <3>4, <3>5, <3>6, NextScopeIs
    <3> QED BY ONLY <3>2, <3>7
  <2>7. PICK sc2 : sc2 = Advance(sc1, h) OBVIOUS
  <2>8. Moved(sc2) BY <1>1, <1>3, <1>12, <2>7, MovedOn
  <2>9. \A t \in 1 .. n : t # h => sc2[t] = sc1[t]
    <3>1. h \in 1 .. Len(sc1) BY ONLY <1>3, <2>4
    <3>2. \A t \in 1 .. Len(sc1) : t # h => sc2[t] = sc1[t]
      BY ONLY <2>4, <2>7, <3>1, AdvanceIs
    <3> QED BY ONLY <2>4, <3>2
  <2>10. Down(Walk(sc1, h, m2)) = Walk(sc2, l, m2) BY ONLY <1>15, <2>6, <2>7, WalkIs
  <2>11. Up(Walk(sc2, l, m2)) = Walk(sc2, h, m2)
    <3>1. sc2[l].parent = h BY <1>1, <2>2, <2>3, <2>8 DEF Moved, Alike
    <3>2. l # None BY ONLY <1>1, <2>3 DEF None
    <3> QED BY ONLY <3>1, <3>2, WalkIs
  <2>12. VisitMethod(Walk(sc, s, m), d) = Walk(sc2, s, m2)
    <3>1. Up(Walk(sc2, h, m2)) = Walk(sc2, s, m2) BY <1>19, <2>8
    <3> QED BY ONLY <1>18, <1>21, <2>10, <2>11, <3>1
  <2>13. sc2[s].cursor = q BY ONLY <1>5, <1>13, <2>9, h # s
  <2>14. \A t \in 1 .. n : t # s /\ t # h => sc2[t] = sc[t] BY ONLY <1>13, <2>9
  <2> QED BY ONLY <1>1, <1>14, <2>8, <2>12, <2>13, <2>14 DEF VisitedIn
<1> QED BY <1>20, <1>21

\* In class c, with the children of its scope s passed up to p.
Behind(sc, c) ==
  \A j \in c + 1 .. Len(Row) :
    /\ sc[Row[j]].cursor = 0
    /\ \A i \in 1 .. Len(Kids(Row[j])) : sc[Kids(Row[j])[i]].cursor = 0

Ready(sc, c, s, p) ==
  /\ Moved(sc) /\ sc[Module].cursor = c /\ sc[s].cursor = p
  /\ \A i \in 1 .. Len(Kids(s)) : i > p => sc[Kids(s)[i]].cursor = 0
  /\ Behind(sc, c)

AtHome(m) == \A v \in m : v[2] = decls[v[1]].home

Within(w, c, s, p) == \E sc, m : w = Walk(sc, s, m) /\ Ready(sc, c, s, p) /\ AtHome(m)

LEMMA VisitWithin ==
  ASSUME CInv, NEW c \in 1 .. Len(classes), NEW s, s = Row[c], NEW ms,
         NEW g \in Places(ms, s), Lined(ms, s, g), Len(ms) \in Nat, NEW k \in 1 .. Len(ms),
         NEW p, p = IF k = 1 THEN 0 ELSE g[k - 1], NEW w, Within(w, c, s, p)
  PROVE  Within(VisitMethod(w, ms[k]), c, s, g[k])
<1>1. PICK sc, m : w = Walk(sc, s, m) /\ Ready(sc, c, s, p) /\ AtHome(m) BY DEF Within
<1>2. PICK n : n \in Nat /\ n = Len(scopes) BY TreeFacts
<1>3. c \in 1 .. Len(Row) /\ Len(Row) \in Nat BY ClassInRow, TreeFacts
<1>4. s \in 1 .. n /\ s # Module /\ scopes[s].kind = "class" BY <1>2, <1>3, TreeFacts
<1>5. PICK d, h, q : d = ms[k] /\ h = decls[d].home /\ q = g[k] OBVIOUS
<1>6. BodyIn(d, s) /\ h = Kids(s)[q] BY <1>5 DEF Lined
<1>7. q \in 1 .. Len(Kids(s)) BY <1>5 DEF Places
<1>8. h \in 1 .. n /\ scopes[h].kind = "method" /\ h # s /\ h # Module
  <2>1. scopes[h].kind = "method" BY <1>3, <1>6, <1>7, TreeFacts
  <2>2. h \in 1 .. n BY <1>2, <1>4, <1>6, <1>7, TreeFacts
  <2>3. scopes[Module].kind = "module" BY TreeFacts
  <2> QED BY ONLY <1>4, <2>1, <2>2, <2>3
<1>9. Len(Kids(s)) \in Nat BY <1>2, <1>4, TreeFacts
<1>10. p \in 0 .. Len(Kids(s)) /\ p < q
  <2>1. CASE k = 1 BY <1>7, <1>9, <2>1
  <2>2. CASE k # 1
    <3>1. k - 1 \in 1 .. Len(ms) /\ k - 1 < k BY <2>2
    <3>2. g[k - 1] < q BY <1>5, <3>1 DEF Lined
    <3>3. g[k - 1] \in 1 .. Len(Kids(s)) BY <3>1 DEF Places
    <3> QED BY ONLY <1>9, <2>2, <3>2, <3>3, p = IF k = 1 THEN 0 ELSE g[k - 1]
  <2> QED BY <2>1, <2>2
<1>11. sc[s].cursor = p /\ Moved(sc) BY <1>1 DEF Ready
<1>12. sc[h].cursor = 0 BY <1>1, <1>6, <1>7, <1>9, <1>10 DEF Ready
<1>13. \A i \in p + 1 .. q - 1 : scopes[Kids(s)[i]].external
  <2> TAKE i \in p + 1 .. q - 1
  <2>1. i \in 1 .. Len(Kids(s)) /\ p < i /\ i < q /\ i \in Nat
    BY ONLY <1>7, <1>9, <1>10, i \in p + 1 .. q - 1
  <2>2. \A x \in 1 .. Len(ms) : g[x] # i
    <3> SUFFICES ASSUME NEW x \in 1 .. Len(ms), g[x] = i PROVE FALSE OBVIOUS
    <3>1. \A y, z \in 1 .. Len(ms) : y < z => g[y] < g[z] BY DEF Lined
    <3>2. CASE x = k BY ONLY <1>5, <2>1, <3>2, g[x] = i
    <3>3. CASE k < x
      <4>1. q < g[x] BY ONLY <1>5, <3>1, <3>3, k \in 1 .. Len(ms), x \in 1 .. Len(ms)
      <4> QED BY ONLY <1>7, <2>1, <4>1, g[x] = i
    <3>4. CASE x < k
      <4>1. k # 1 /\ k - 1 \in 1 .. Len(ms) /\ (x = k - 1 \/ x < k - 1)
        BY ONLY <3>4, k \in 1 .. Len(ms), x \in 1 .. Len(ms), Len(ms) \in Nat
      <4>2. p = g[k - 1] BY ONLY <4>1, p = IF k = 1 THEN 0 ELSE g[k - 1]
      <4>3. g[x] = p \/ g[x] < p BY ONLY <3>1, <4>1, <4>2, x \in 1 .. Len(ms)
      <4> QED BY ONLY <1>10, <2>1, <4>3, g[x] = i
    <3> QED BY ONLY <3>2, <3>3, <3>4, k \in 1 .. Len(ms), x \in 1 .. Len(ms), Len(ms) \in Nat
  <2> QED BY <2>1, <2>2 DEF Lined
<1>14. PICK sc2 :
         /\ VisitMethod(Walk(sc, s, m), d) = Walk(sc2, s, m \cup {<<d, h>>})
         /\ Moved(sc2) /\ sc2[s].cursor = q
         /\ \A t \in 1 .. Len(scopes) : t # s /\ t # h => sc2[t] = sc[t]
  <2>1. s \in 1 .. Len(scopes) BY <1>2, <1>4
  <2>2. sc[s].cursor < q BY <1>10, <1>11
  <2>3. \A i \in sc[s].cursor + 1 .. q - 1 : scopes[Kids(s)[i]].external BY <1>11, <1>13
  <2>4. h # s /\ scopes[h].kind = "method" BY <1>8
  <2>5. h = decls[d].home /\ h = Kids(s)[q] /\ BodyIn(d, s) BY <1>5, <1>6
  <2>6. Moved(sc) BY <1>11
  <2>7. VisitedIn(sc, s, m, d, h, q)
    BY ONLY CInv, <1>7, <1>12, <2>1, <2>2, <2>3, <2>4, <2>5, <2>6, VisitIs
  <2> QED BY ONLY <2>7 DEF VisitedIn
<1>15. AtHome(m \cup {<<d, h>>})
  <2>1. AtHome(m) BY <1>1
  <2> QED BY ONLY <1>5, <2>1 DEF AtHome
<1>16. Ready(sc2, c, s, q)
  <2>1. \A t \in 1 .. n : t # s /\ t # h => sc2[t] = sc[t] BY <1>2, <1>14
  <2>2. sc2[Module].cursor = c
    <3>1. Module \in 1 .. n BY <1>2, TreeFacts
    <3>2. sc[Module].cursor = c BY <1>1 DEF Ready
    <3> QED BY ONLY <1>4, <1>8, <2>1, <3>1, <3>2
  <2>3. ASSUME NEW i \in 1 .. Len(Kids(s)), i > q PROVE sc2[Kids(s)[i]].cursor = 0
    <3>1. Kids(s)[i] \in 1 .. n /\ scopes[Kids(s)[i]].kind = "method"
      BY <1>2, <1>3, <1>4, TreeFacts
    <3>2. Kids(s)[i] # s BY <1>4, <3>1
    <3>3. Kids(s)[i] # h
      <4>1. i # q BY ONLY <1>7, <2>3, <1>9
      <4> QED BY <1>3, <1>6, <1>7, <4>1 DEF CInv, KidsApart
    <3>4. i > p BY ONLY <1>7, <1>9, <1>10, <2>3
    <3>5. sc[Kids(s)[i]].cursor = 0 BY <1>1, <3>4 DEF Ready
    <3> QED BY ONLY <2>1, <3>1, <3>2, <3>3, <3>5
  <2>4. Behind(sc2, c)
    <3>1. Behind(sc, c) BY <1>1 DEF Ready
    <3>2. SUFFICES ASSUME NEW j \in c + 1 .. Len(Row)
                   PROVE  /\ sc2[Row[j]].cursor = 0
                          /\ \A i \in 1 .. Len(Kids(Row[j])) : sc2[Kids(Row[j])[i]].cursor = 0
      BY DEF Behind
    <3>3. j \in 1 .. Len(Row) /\ j # c BY ONLY <1>3, j \in c + 1 .. Len(Row)
    <3>4. Row[j] \in 1 .. n /\ Row[j] # s /\ scopes[Row[j]].kind = "class"
      BY <1>2, <1>3, <3>3, TreeFacts
    <3>5. sc2[Row[j]].cursor = 0
      <4>1. Row[j] # h BY <1>8, <3>4
      <4>2. sc[Row[j]].cursor = 0 BY <3>1 DEF Behind
      <4> QED BY ONLY <2>1, <3>4, <4>1, <4>2
    <3>6. ASSUME NEW i \in 1 .. Len(Kids(Row[j])) PROVE sc2[Kids(Row[j])[i]].cursor = 0
      <4>1. Kids(Row[j])[i] \in 1 .. n /\ scopes[Kids(Row[j])[i]].kind = "method"
        BY <1>2, <3>3, <3>4, TreeFacts
      <4>2. Kids(Row[j])[i] # s BY <1>4, <4>1
      <4>3. Kids(Row[j])[i] # h BY <1>3, <1>6, <1>7, <3>3 DEF CInv, KidsApart
      <4>4. sc[Kids(Row[j])[i]].cursor = 0 BY <3>1 DEF Behind
      <4> QED BY ONLY <2>1, <4>1, <4>2, <4>3, <4>4
    <3> QED BY <3>5, <3>6
  <2> QED BY ONLY <1>14, <2>2, <2>3, <2>4 DEF Ready
<1> QED BY <1>1, <1>5, <1>14, <1>15, <1>16 DEF Within

\* From the module the generator goes down into class c.
LEMMA DownWithin ==
  ASSUME CInv, NEW c \in 1 .. Len(classes), c = cls + 1, NEW s, s = Row[c],
         cg = Module, scopes[Module].cursor = cls, Ahead, AtHome(visited)
  PROVE  Within(Down(Walk(scopes, cg, visited)), c, s, 0)
<1>1. PICK n : n \in Nat /\ n = Len(scopes) BY TreeFacts
<1>2. c \in 1 .. Len(Row) /\ Len(Row) \in Nat BY ClassInRow, TreeFacts
<1>3. IsTree(scopes) /\ Module \in 1 .. Len(scopes) BY TreeFacts
<1>4. s \in 1 .. n /\ s # Module /\ scopes[s].kind = "class" /\ ~scopes[s].external
  BY <1>1, <1>2, TreeFacts
<1>5. cls \in Nat /\ cls < c BY HeapFacts
<1>6. NextScope(scopes, Module) = s /\ PassedTo(scopes, Module) = c
  <2>1. scopes[Module].children = Row BY DEF Row
  <2>2. ~Skippable(scopes, scopes[Module].children[c])
    BY ONLY <1>4, <2>1, s = Row[c] DEF Skippable, BuiltinKind
  <2>3. c \in 1 .. Len(scopes[Module].children) BY <1>2, <2>1
  <2>4. scopes[Module].cursor < c BY <1>5
  <2>5. \A i \in scopes[Module].cursor + 1 .. c - 1 : Skippable(scopes, scopes[Module].children[i])
    BY ONLY <1>5, c = cls + 1, scopes[Module].cursor = cls
  <2>6. NextScope(scopes, Module) = scopes[Module].children[c] /\ PassedTo(scopes, Module) = c
    BY ONLY <1>3, <2>2, <2>3, <2>4, <2>5, NextScopeIs
  <2> QED BY ONLY <2>1, <2>6, s = Row[c]
<1>7. PICK sc : sc = Advance(scopes, Module) OBVIOUS
<1>8. Moved(sc)
  <2>1. Moved(scopes) BY TreeFacts DEF Moved, Alike
  <2> QED BY ONLY <1>3, <1>7, <2>1, MovedOn
<1>9. sc[Module].cursor = c /\ \A t \in 1 .. n : t # Module => sc[t] = scopes[t]
  <2>1. /\ IsScope(sc[Module], scopes[Module].kind, scopes[Module].name, scopes[Module].parent,
                    scopes[Module].children, scopes[Module].external,
                    PassedTo(scopes, Module), scopes[Module].decl)
        /\ \A t \in 1 .. Len(scopes) : t # Module => sc[t] = scopes[t]
    BY ONLY <1>3, <1>7, AdvanceIs
  <2> QED BY ONLY <1>1, <1>6, <2>1 DEF IsScope
<1>10. Down(Walk(scopes, cg, visited)) = Walk(sc, s, visited)
  <2>1. Module # None BY DEF Module, None
  <2>2. Down(Walk(scopes, Module, visited)) = Walk(sc, s, visited)
    BY ONLY <1>6, <1>7, <2>1, WalkIs
  <2> QED BY ONLY <2>2, cg = Module
<1>11. ASSUME NEW j \in c .. Len(Row)
       PROVE  /\ sc[Row[j]].cursor = 0
              /\ \A i \in 1 .. Len(Kids(Row[j])) : sc[Kids(Row[j])[i]].cursor = 0
  <2>1. j \in 1 .. Len(Row) /\ j \in cls + 1 .. Len(Row)
    BY ONLY <1>2, c = cls + 1, j \in c .. Len(Row)
  <2>2. scopes[Row[j]].cursor = 0
        /\ \A i \in 1 .. Len(Kids(Row[j])) : scopes[Kids(Row[j])[i]].cursor = 0
    BY <2>1 DEF Ahead
  <2>3. Row[j] \in 1 .. n /\ Row[j] # Module BY <1>1, <2>1, TreeFacts
  <2>4. \A i \in 1 .. Len(Kids(Row[j])) :
          Kids(Row[j])[i] \in 1 .. n /\ scopes[Kids(Row[j])[i]].kind = "method"
    BY <1>1, <2>1, <2>3, TreeFacts
  <2>5. scopes[Module].kind = "module" BY TreeFacts
  <2>6. \A i \in 1 .. Len(Kids(Row[j])) : Kids(Row[j])[i] # Module BY ONLY <2>4, <2>5
  <2> QED BY ONLY <1>9, <2>2, <2>3, <2>4, <2>6
<1>12. Ready(sc, c, s, 0)
  <2>1. c \in c .. Len(Row) BY ONLY <1>2
  <2>2. sc[s].cursor = 0 /\ \A i \in 1 .. Len(Kids(s)) : sc[Kids(s)[i]].cursor = 0
    BY ONLY <1>11, <2>1, s = Row[c]
  <2>3. \A j \in c + 1 .. Len(Row) : j \in c .. Len(Row) BY ONLY <1>2
  <2>4. Behind(sc, c) BY ONLY <1>11, <2>3 DEF Behind
  <2> QED BY ONLY <1>8, <1>9, <2>2, <2>4 DEF Ready
<1> QED BY ONLY <1>10, <1>12, AtHome(visited) DEF Within

\* A class that is lined up is walked in step.
LEMMA WalkedWithin ==
  ASSUME CInv, NEW c \in 1 .. Len(classes), c = cls + 1, NEW s, s = Row[c],
         cg = Module, scopes[Module].cursor = cls, Ahead, AtHome(visited),
         NEW ms, Len(ms) \in Nat, NEW g \in Places(ms, s), Lined(ms, s, g)
  PROVE  \E p : Within(Walked(ms), c, s, p)
<1>1. PICK n : n \in Nat /\ n = Len(ms) OBVIOUS
<1>2. PICK w : WalkTo(ms, w, n) /\ Walked(ms) = w[n] BY <1>1, WalkedIs
<1>3. PICK K : K = {k \in 0 .. n : Within(w[k], c, s, IF k = 0 THEN 0 ELSE g[k])} OBVIOUS
<1>4. 0 \in K
  <2>1. w[0] = Down(Walk(scopes, cg, visited))
    <3>1. 0 \in 0 .. n BY ONLY <1>1
    <3>2. w[0] = WalkAt(ms, w, 0) BY ONLY <1>2, <3>1 DEF WalkTo
    <3> QED BY ONLY <3>2 DEF WalkAt, Walk
  <2>2. Within(w[0], c, s, 0) BY <2>1, DownWithin
  <2> QED BY ONLY <1>1, <1>3, <2>2
<1>5. \A k \in 1 .. n : k - 1 \in K => k \in K
  <2> TAKE k \in 1 .. n
  <2> HAVE k - 1 \in K
  <2>1. PICK p : p = IF k = 1 THEN 0 ELSE g[k - 1] OBVIOUS
  <2>2. Within(w[k - 1], c, s, p)
    <3>1. Within(w[k - 1], c, s, IF k - 1 = 0 THEN 0 ELSE g[k - 1])
      BY ONLY <1>3, k - 1 \in K
    <3>2. k - 1 = 0 <=> k = 1 BY ONLY <1>1, k \in 1 .. n
    <3>3. (IF k - 1 = 0 THEN 0 ELSE g[k - 1]) = p BY ONLY <2>1, <3>2
    <3> QED BY ONLY <3>1, <3>3
  <2>3. k \in 0 .. n /\ k # 0 BY <1>1
  <2>4. w[k] = VisitMethod(w[k - 1], ms[k]) BY ONLY <1>2, <2>3 DEF WalkTo, WalkAt
  <2>5. PICK v : v = w[k - 1] OBVIOUS
  <2>6. Within(VisitMethod(v, ms[k]), c, s, g[k])
    <3>1. Within(v, c, s, p) BY ONLY <2>2, <2>5
    <3>2. k \in 1 .. Len(ms) BY <1>1
    <3> QED BY <2>1, <3>1, <3>2, VisitWithin
  <2>7. Within(w[k], c, s, g[k]) BY ONLY <2>4, <2>5, <2>6
  <2> QED BY ONLY <1>3, <2>3, <2>7
<1>6. n \in K BY ONLY <1>1, <1>4, <1>5, Stepwise
<1> QED BY ONLY <1>2, <1>3, <1>6

\* The generator keeps the invariant.
LEMMA VisitKeeps ==
  ASSUME CInv, VisitClass
  PROVE  CInv'
<1>1. PICK c : c = cls + 1 OBVIOUS
<1>2. PICK ms : ms = decls[classes[c]].methods OBVIOUS
<1>3. PICK w : w = Up(Walked(ms)) OBVIOUS
<1>4. /\ phase = "codegen" /\ cls < Len(classes)
      /\ scopes' = w.tree /\ cg' = (IF w.at = None THEN cg ELSE w.at) /\ visited' = w.seen
      /\ cls' = c /\ phase' = (IF w.at = None THEN "failed" ELSE phase)
      /\ UNCHANGED parserVars
  BY ONLY <1>1, <1>2, <1>3, VisitClass DEF VisitClass
<1>5. c \in 1 .. Len(classes) /\ cls \in Nat /\ Len(classes) \in Nat
  <2>1. cls \in 0 .. Len(classes) /\ Len(classes) \in Nat BY HeapFacts
  <2> QED BY ONLY <1>1, <1>4, <2>1
<1>6. classes[c] \in 1 .. Len(decls) BY <1>5, HeapFacts
<1>7. Len(ms) \in Nat /\ \A k \in 1 .. Len(ms) : ms[k] \in 1 .. Len(decls)
  <2>1. ms \in Seq(Nat) BY <1>2, <1>6, HeapFacts, Zenon DEF DeclType
  <2>2. Elements(ms) \subseteq 1 .. Len(decls) BY <1>2, <1>6, HeapFacts
  <2>3. Len(ms) \in Nat BY ONLY <2>1
  <2> QED BY ONLY <2>2, <2>3 DEF Elements
<1>8. WalkOK(w)
  <2>1. WalkOK(Walked(ms)) BY <1>7, WalkedOK
  <2> QED BY <1>3, <2>1, UpOK
<1>9. PICK sc, t, m : w = Walk(sc, t, m) /\ Moved(sc) /\ t \in 0 .. Len(scopes) /\ m \subseteq Met
  BY <1>8 DEF WalkOK
<1>10. scopes' = sc /\ w.at = t /\ visited' = m
  <2>1. w.tree = sc /\ w.at = t /\ w.seen = m BY ONLY <1>9, WalkIs
  <2> QED BY ONLY <1>4, <2>1
<1>11. ShapeKept
  <2>1. IsTree(scopes') /\ Len(scopes') = Len(scopes)
        /\ \A x \in 1 .. Len(scopes) : Alike(scopes[x], scopes'[x])
    BY ONLY <1>9, <1>10 DEF Moved
  <2> QED BY ONLY <1>4, <2>1 DEF ShapeKept
<1>12. ~InClass
  <2>1. Rows BY DEF CInv
  <2> QED BY ONLY <1>4, <2>1 DEF Rows
<1>13. /\ current' = current /\ decls' = decls /\ parts' = parts /\ base' = base
       /\ classes' = classes
  BY ONLY <1>4 DEF parserVars
<1>14. ~InClass' BY ONLY <1>12, <1>13 DEF InClass
<1>15. TypeOK'
  <2>3. cg' \in 1 .. Len(scopes)
    <3>1. cg \in 1 .. Len(scopes) BY HeapFacts
    <3>2. t # None => t \in 1 .. Len(scopes) BY ONLY <1>9 DEF None
    <3> QED BY ONLY <1>4, <1>10, <3>1, <3>2
  <2>4. phase' \in {"parse", "codegen", "failed"} BY ONLY <1>4
  <2>5. cls' \in 0 .. Len(classes) BY ONLY <1>4, <1>5
  <2>6. visited' \subseteq (1 .. Len(decls)) \X (0 .. Len(scopes))
    BY ONLY <1>9, <1>10 DEF Met
  <2> QED BY ONLY CInv, <1>11, <2>3, <2>4, <2>5, <2>6, TypesStay
<1>16. /\ Rows' /\ ClassesRead' /\ MethodsNamed' /\ KidsAreMethods' /\ KidsApart'
       /\ ClassesLined' /\ PartsRead'
  BY <1>11, <1>12, ShapeKeeps
<1>17. OwnLined' /\ BaseCopied' BY ONLY <1>14 DEF OwnLined, BaseCopied
<1>18. Still'
  <2>1. phase' # "parse" BY ONLY <1>4
  <2> QED BY ONLY <2>1 DEF Still
<1>19. InStep'
  <2>1. SUFFICES ASSUME StraightTo(cls)'
                 PROVE  /\ phase' # "failed" /\ cg' = Module /\ scopes'[Module].cursor = cls'
                        /\ Ahead'
                        /\ \A v \in visited' : v[2] = decls'[v[1]].home
    BY DEF InStep
  <2>2. StraightTo(c)
    <3>1. StraightTo(c)' BY ONLY <1>4, <2>1 DEF StraightTo
    <3>2. c \in 0 .. Len(classes) BY ONLY <1>5
    <3> QED BY <1>11, <3>1, <3>2, ShapeFacts, StraightKept
  <2>3. StraightTo(cls)
    <3>1. \A j \in 1 .. cls : j \in 1 .. c BY ONLY <1>1, <1>5
    <3> QED BY ONLY <2>2, <3>1 DEF StraightTo
  <2>4. /\ cg = Module /\ scopes[Module].cursor = cls /\ Ahead /\ AtHome(visited)
    BY <2>3 DEF CInv, InStep, AtHome
  <2>5. PICK s : s = Row[c] OBVIOUS
  <2>6. PICK g \in Places(ms, s) : Lined(ms, s, g)
    BY <1>2, <1>5, <2>2, <2>5 DEF CInv, ClassesLined
  <2>7. PICK p : Within(Walked(ms), c, s, p)
    BY <1>1, <1>5, <1>7, <2>4, <2>5, <2>6, WalkedWithin
  <2>8. PICK sc2, m2 : Walked(ms) = Walk(sc2, s, m2) /\ Ready(sc2, c, s, p) /\ AtHome(m2)
    BY <2>7 DEF Within
  <2>9. Up(Walk(sc2, s, m2)) = Walk(sc2, Module, m2)
    <3>1. c \in 1 .. Len(Row) BY <1>5, ClassInRow
    <3>2. s \in 1 .. Len(scopes) /\ scopes[s].parent = Module BY <2>5, <3>1, TreeFacts
    <3>3. sc2[s].parent = Module BY <2>8, <3>2 DEF Ready, Moved, Alike
    <3>4. s # None BY ONLY <3>2 DEF None
    <3> QED BY ONLY <3>3, <3>4, WalkIs
  <2>10. w = Walk(sc2, Module, m2) BY ONLY <1>3, <2>8, <2>9
  <2>11. w.tree = sc2 /\ w.at = Module /\ w.seen = m2 BY ONLY <2>10, WalkIs
  <2>12. scopes' = sc2 /\ visited' = m2 /\ cg' = Module /\ phase' = "codegen"
    <3>1. Module # None BY DEF Module, None
    <3> QED BY ONLY <1>4, <2>11, <3>1
  <2>13. scopes'[Module].cursor = cls' BY ONLY <1>4, <2>8, <2>12 DEF Ready
  <2>14. Ahead'
    <3>1. Behind(sc2, c) BY <2>8 DEF Ready
    <3>2. Row' = Row BY <1>11, ShapeFacts DEF Row
    <3>3. \A x \in 1 .. Len(scopes) : scopes'[x].children = scopes[x].children
      BY <1>11, ShapeFacts
    <3>4. \A j \in c + 1 .. Len(Row) : Row[j] \in 1 .. Len(scopes)
      <4>1. \A j \in c + 1 .. Len(Row) : j \in 1 .. Len(Row) BY ONLY <1>5
      <4> QED BY <4>1, TreeFacts
    <3>5. \A j \in c + 1 .. Len(Row) : scopes'[Row[j]].children = Kids(Row[j])
      BY ONLY <3>3, <3>4 DEF Kids
    <3>6. \A j \in c + 1 .. Len(Row) :
            /\ scopes'[Row[j]].cursor = 0
            /\ \A i \in 1 .. Len(scopes'[Row[j]].children) :
                 scopes'[scopes'[Row[j]].children[i]].cursor = 0
      BY ONLY <2>12, <3>1, <3>5 DEF Behind
    <3> QED BY ONLY <1>4, <3>2, <3>6 DEF Ahead, Kids
  <2>15. \A v \in visited' : v[2] = decls'[v[1]].home
    BY ONLY <1>13, <2>8, <2>12 DEF AtHome
  <2> QED BY ONLY <2>12, <2>13, <2>14, <2>15
<1> QED BY ONLY <1>15, <1>16, <1>17, <1>18, <1>19 DEF CInv

-----------------------------------------------------------------------------
(***************************************************************************)
(* The theorems.                                                           *)
(***************************************************************************)

LEMMA NextKeeps ==
  ASSUME CInv, [Next]_vars
  PROVE  CInv'
<1>1. ASSUME NEW b \in 0 .. Len(decls), EnterClass(b) PROVE CInv' BY <1>1, EnterKeeps
<1>2. ASSUME NEW n \in FieldName, ParseField(n) PROVE CInv' BY <1>2, FieldKeeps
<1>3. ASSUME NEW m \in Method, NEW nested \in BOOLEAN, ParseMethod(m, nested) PROVE CInv'
  BY <1>3, MethodKeeps
<1>4. CASE ParseConstructor BY <1>4, ConstructorKeeps
<1>5. CASE LeaveClass BY <1>5, LeaveClassKeeps
<1>6. CASE LeaveDerived BY <1>6, LeaveDerivedKeeps
<1>7. CASE EndProgram BY <1>7, EndKeeps
<1>8. CASE VisitClass BY <1>8, VisitKeeps
<1>9. CASE UNCHANGED vars BY <1>9, StutterKeeps
<1> QED BY ONLY <1>1, <1>2, <1>3, <1>4, <1>5, <1>6, <1>7, <1>8, <1>9, [Next]_vars DEF Next

LEMMA Invariant == Spec => []CInv
BY InitHolds, NextKeeps, PTL DEF Spec

\* Of any number of classes, with any members, every pointer of the scopes and of the
\* heap stays in range (the whole of parseClassDecl, and the walk of visit(ClassDecl&)).
THEOREM TypeCorrect == Spec => []TypeOK
<1>1. CInv => TypeOK BY DEF CInv
<1> QED BY <1>1, Invariant, PTL

\* Whatever the classes inherit, and in whatever order, the generator visits each
\* method in the scope that was made for it as long as no class was tangled.
THEOREM MethodsInTheirScopes == Spec => []MethodInItsScope
<1>1. CInv => MethodInItsScope
  BY DEF CInv, InStep, MethodInItsScope, Straight, StraightTo
<1> QED BY <1>1, Invariant, PTL

\* The classes of a program never fail to generate before one that is tangled.
THEOREM FailuresExplained == Spec => []FailureExplained
<1>1. CInv => FailureExplained
  BY DEF CInv, InStep, FailureExplained, Straight, StraightTo
<1> QED BY <1>1, Invariant, PTL

-----------------------------------------------------------------------------
(***************************************************************************)
(* Functions that are defined from their values at smaller numbers.        *)
(***************************************************************************)

LooksBack(n, F, H) ==
  \A c \in 1 .. n : \A f, g \in F :
    (\A b \in 1 .. c - 1 : f[b] = g[b]) => H[<<c, f>>] = H[<<c, g>>]

Solution(n, F, H) == \E f \in F : \A c \in 1 .. n : f[c] = H[<<c, f>>]

\* H says what the value at a number is, given a function, and looks at its values at
\* smaller numbers only: there is a function with these values.
LEMMA Recursion ==
  ASSUME NEW n \in Nat, NEW V, NEW v \in V, NEW F, F = [1 .. n -> V],
         NEW H, H \in [(1 .. n) \X F -> V], LooksBack(n, F, H)
  PROVE  Solution(n, F, H)
<1> DEFINE To(d) == \E f \in F : \A c \in 1 .. n : c <= d => f[c] = H[<<c, f>>]
<1>0. \A c \in 1 .. n : \A f, g \in F :
        (\A b \in 1 .. c - 1 : f[b] = g[b]) => H[<<c, f>>] = H[<<c, g>>]
  BY DEF LooksBack
<1>1. PICK K : K = {d \in Nat : d <= n => To(d)} OBVIOUS
<1>2. 0 \in K
  <2>1. PICK f : f = [c \in 1 .. n |-> v] OBVIOUS
  <2>2. f \in F BY <2>1
  <2>3. \A c \in 1 .. n : ~(c <= 0) OBVIOUS
  <2> QED BY <1>1, <2>2, <2>3
<1>3. ASSUME NEW d \in Nat, d \in K PROVE d + 1 \in K
  <2> SUFFICES ASSUME d + 1 <= n PROVE To(d + 1)
    <3> HIDE DEF To
    <3> QED BY <1>1
  <2>1. d <= n OBVIOUS
  <2>2. PICK f \in F : \A c \in 1 .. n : c <= d => f[c] = H[<<c, f>>]
    BY <1>1, <1>3, <2>1
  <2>3. d + 1 \in 1 .. n OBVIOUS
  <2>4. PICK e \in V : e = H[<<d + 1, f>>] BY <2>3
  <2>5. PICK g \in F : g = [f EXCEPT ![d + 1] = e] BY <2>4
  <2>6. g[d + 1] = e /\ \A c \in 1 .. n : c # d + 1 => g[c] = f[c] BY <2>3, <2>5
  <2>7. ASSUME NEW c \in 1 .. n, c <= d + 1 PROVE g[c] = H[<<c, g>>]
    <3>1. \A b \in 1 .. c - 1 : b \in 1 .. n /\ b # d + 1 BY <2>7
    <3>2. \A b \in 1 .. c - 1 : f[b] = g[b] BY <2>6, <3>1
    <3>3. H[<<c, f>>] = H[<<c, g>>] BY <1>0, <3>2
    <3>4. CASE c = d + 1 BY <2>4, <2>6, <3>3, <3>4
    <3>5. CASE c # d + 1
      <4>1. c <= d BY <2>7, <3>5
      <4> QED BY <2>2, <2>6, <3>3, <3>5, <4>1
    <3> QED BY <3>4, <3>5
  <2> QED BY <2>7
<1>4. \A d \in Nat : d \in K
  <2>1. \A d \in Nat : d \in K => d + 1 \in K BY <1>3
  <2> QED BY ONLY <1>2, <2>1, Counting
<1>5. To(n)
  <2>1. n \in K /\ n <= n BY <1>4
  <2> HIDE DEF To
  <2> QED BY <1>1, <2>1
<1>6. PICK f \in F : \A c \in 1 .. n : c <= n => f[c] = H[<<c, f>>] BY <1>5
<1>7. \A c \in 1 .. n : c <= n OBVIOUS
<1> QED BY <1>6, <1>7 DEF Solution

-----------------------------------------------------------------------------
(***************************************************************************)
(* The nearest methods, and the lines without overriding.                  *)
(***************************************************************************)

OwnOf(r, c) ==
  {d \in Elements(decls[c].methods) : decls[d].origin = d /\ decls[d].real = r}

NearAt(r, f, c) ==
  LET own == {d \in Elements(decls[c].methods) :
                decls[d].origin = d /\ decls[d].real = r}
  IN  IF own # {} THEN CHOOSE d \in own : TRUE
      ELSE IF decls[c].class = NoDecl THEN NoDecl
      ELSE f[decls[c].class]

NearTo(r, f) == \A c \in 1 .. Len(decls) : f[c] = NearAt(r, f, c)

\* Classes point back in the heap, and their members are in it.
Backward ==
  /\ Len(decls) \in Nat
  /\ \A c \in 1 .. Len(decls) :
       /\ decls[c].class \in 0 .. c - 1
       /\ Elements(decls[c].methods) \subseteq 1 .. Len(decls)

LEMMA HeapBackward ==
  ASSUME TypeOK
  PROVE  Backward
<1>1. decls \in Seq(DeclType) BY DEF TypeOK
<1>2. Len(decls) \in Nat BY <1>1
<1>3. \A d \in 1 .. Len(decls) :
       /\ Elements(decls[d].fields) \cup Elements(decls[d].methods) \subseteq 1 .. Len(decls)
       /\ decls[d].class \in 0 .. d - 1
  BY DEF TypeOK
<1> QED BY <1>2, <1>3, Zenon DEF Backward

LEMMA NearestIs ==
  ASSUME Backward, NEW r
  PROVE  NearTo(r, Nearest(r))
<1>1. PICK n \in Nat : n = Len(decls) BY DEF Backward
<1>2. \A c \in 1 .. n : decls[c].class \in 0 .. c - 1 /\ Elements(decls[c].methods) \subseteq Nat
  <2>1. 1 .. n \subseteq Nat OBVIOUS
  <2> QED BY <1>1, <2>1, Zenon DEF Backward
<1>3. PICK F : F = [1 .. n -> Nat] OBVIOUS
<1>4. PICK H : H = [x \in (1 .. n) \X F |-> NearAt(r, x[2], x[1])] OBVIOUS
<1>5. \A c \in 1 .. n : \A f \in F : H[<<c, f>>] = NearAt(r, f, c) BY ONLY <1>4
<1>6. ASSUME NEW c \in 1 .. n, NEW f \in F PROVE NearAt(r, f, c) \in Nat
  <2>1. PICK own : own = {d \in Elements(decls[c].methods) :
                            decls[d].origin = d /\ decls[d].real = r}
    OBVIOUS
  <2>2. own # {} => (CHOOSE d \in own : TRUE) \in Nat
    <3>1. own \subseteq Nat BY <1>2, <2>1
    <3> QED BY ONLY <3>1
  <2>3. decls[c].class # NoDecl => decls[c].class \in 1 .. n BY <1>2 DEF NoDecl
  <2>4. decls[c].class # NoDecl => f[decls[c].class] \in Nat BY ONLY <1>3, <2>3, f \in F
  <2>5. NoDecl \in Nat BY DEF NoDecl
  <2> QED BY ONLY <2>1, <2>2, <2>4, <2>5 DEF NearAt
<1>7. H \in [(1 .. n) \X F -> Nat]
  <2>1. \A x \in (1 .. n) \X F : x[1] \in 1 .. n /\ x[2] \in F OBVIOUS
  <2>2. \A x \in (1 .. n) \X F : NearAt(r, x[2], x[1]) \in Nat BY ONLY <1>6, <2>1
  <2> QED BY ONLY <1>4, <2>2
<1>8. ASSUME NEW c \in 1 .. n, NEW f \in F, NEW g \in F, \A b \in 1 .. c - 1 : f[b] = g[b]
      PROVE  H[<<c, f>>] = H[<<c, g>>]
  <2>1. decls[c].class # NoDecl => decls[c].class \in 1 .. c - 1 BY <1>2 DEF NoDecl
  <2>2. NearAt(r, f, c) = NearAt(r, g, c) BY ONLY <1>8, <2>1 DEF NearAt
  <2> QED BY <1>5, <2>2
<1>9. Solution(n, F, H)
  <2>1. LooksBack(n, F, H) BY <1>8 DEF LooksBack
  <2> QED BY ONLY <1>3, <1>7, <2>1, 0 \in Nat, n \in Nat, Recursion
<1>10. PICK f \in F : \A c \in 1 .. n : f[c] = NearAt(r, f, c) BY <1>5, <1>9 DEF Solution
<1>11. f = [c \in 1 .. n |-> NearAt(r, f, c)] BY ONLY <1>3, <1>10, f \in F
<1>12. PICK h : h = CHOOSE x : x = [c \in 1 .. n |-> NearAt(r, x, c)] OBVIOUS
<1>13. h = [c \in 1 .. n |-> NearAt(r, h, c)] BY ONLY <1>11, <1>12
<1>14. Nearest(r) = h BY <1>1, <1>12 DEF Nearest, NearAt
<1>15. \A c \in 1 .. n : h[c] = NearAt(r, h, c) BY ONLY <1>13
<1> QED BY ONLY <1>1, <1>14, <1>15 DEF NearTo

PlainAt(p, c) ==
  decls[c].class # NoDecl =>
    /\ p[decls[c].class]
    /\ \A d \in Elements(decls[c].methods) :
         decls[d].kind = "method" /\ decls[d].origin = d =>
           Nearest(decls[d].real)[decls[c].class] = NoDecl

PlainTo(p) == \A c \in 1 .. Len(decls) : p[c] = PlainAt(p, c)

LEMMA PlainIs ==
  ASSUME Backward
  PROVE  PlainTo(OverridesNothing)
<1>1. PICK n \in Nat : n = Len(decls) BY DEF Backward
<1>2. \A c \in 1 .. n : decls[c].class \in 0 .. c - 1 BY <1>1 DEF Backward
<1>3. PICK F : F = [1 .. n -> BOOLEAN] OBVIOUS
<1>4. PICK H : H = [x \in (1 .. n) \X F |-> PlainAt(x[2], x[1])] OBVIOUS
<1>5. \A c \in 1 .. n : \A f \in F : H[<<c, f>>] = PlainAt(f, c)
  <2> TAKE c \in 1 .. n
  <2> TAKE f \in F
  <2>1. PICK x : x = <<c, f>> OBVIOUS
  <2>2. x \in (1 .. n) \X F /\ x[1] = c /\ x[2] = f BY <2>1
  <2>3. H[x] = PlainAt(x[2], x[1]) BY ONLY <1>4, <2>2, Zenon
  <2> QED BY ONLY <2>1, <2>2, <2>3, Zenon
<1>6. ASSUME NEW c \in 1 .. n, NEW f \in F PROVE PlainAt(f, c) \in BOOLEAN
  BY Zenon DEF PlainAt
<1>7. H \in [(1 .. n) \X F -> BOOLEAN]
  <2>1. \A x \in (1 .. n) \X F : x[1] \in 1 .. n /\ x[2] \in F OBVIOUS
  <2>2. \A x \in (1 .. n) \X F : PlainAt(x[2], x[1]) \in BOOLEAN BY ONLY <1>6, <2>1, Zenon
  <2> QED BY ONLY <1>4, <2>2, Zenon
<1>8. ASSUME NEW c \in 1 .. n, NEW f \in F, NEW g \in F, \A b \in 1 .. c - 1 : f[b] = g[b]
      PROVE  H[<<c, f>>] = H[<<c, g>>]
  <2>1. decls[c].class # NoDecl => decls[c].class \in 1 .. c - 1 BY <1>2 DEF NoDecl
  <2>2. PICK a : a = decls[c].class OBVIOUS
  <2>3. a # NoDecl => f[a] = g[a] BY ONLY <1>8, <2>1, <2>2
  <2>4. PlainAt(f, c) = PlainAt(g, c) BY ONLY <2>2, <2>3, Zenon DEF PlainAt
  <2> QED BY ONLY <1>5, <2>4, c \in 1 .. n, f \in F, g \in F, Zenon
<1>9. Solution(n, F, H)
  <2>1. LooksBack(n, F, H) BY <1>8 DEF LooksBack
  <2>2. TRUE \in BOOLEAN OBVIOUS
  <2> QED BY ONLY <1>3, <1>7, <2>1, <2>2, n \in Nat, Recursion
<1>10. PICK f \in F : \A c \in 1 .. n : f[c] = PlainAt(f, c) BY ONLY <1>5, <1>9, Zenon DEF Solution
<1>11. f = [c \in 1 .. n |-> PlainAt(f, c)] BY ONLY <1>3, <1>10, f \in F, Zenon
<1>12. PICK h : h = CHOOSE x : x = [c \in 1 .. n |-> PlainAt(x, c)] OBVIOUS
<1>13. h = [c \in 1 .. n |-> PlainAt(h, c)] BY ONLY <1>11, <1>12, Zenon
<1>14. OverridesNothing = h BY <1>1, <1>12 DEF OverridesNothing, PlainAt
<1>15. \A c \in 1 .. n : h[c] = PlainAt(h, c) BY ONLY <1>13, Zenon
<1> QED BY ONLY <1>1, <1>14, <1>15, Zenon DEF PlainTo
-----------------------------------------------------------------------------
(***************************************************************************)
(* Methods are nearest.                                                    *)
(***************************************************************************)

\* What the definitions of the properties mean, of declarations that are in order.
Basis ==
  /\ CInv /\ Backward
  /\ \A r \in Method : NearTo(r, Nearest(r))
  /\ PlainTo(OverridesNothing)

LEMMA BasisHolds ==
  ASSUME CInv
  PROVE  Basis
<1>1. Backward BY HeapBackward DEF CInv
<1>2. \A r \in Method : NearTo(r, Nearest(r)) BY <1>1, NearestIs, Zenon
<1>3. PlainTo(OverridesNothing) BY <1>1, PlainIs
<1> QED BY <1>1, <1>2, <1>3 DEF Basis

\* No two of the declarations are methods with one name.
Once(ms) ==
  \A i, j \in 1 .. Len(ms) :
    decls[ms[i]].real \in Method /\ decls[ms[i]].real = decls[ms[j]].real => i = j

\* The methods of class c are the nearest, and none is lost where none is overridden.
AreNearest(c) ==
  /\ \A d \in Elements(decls[c].methods) :
       decls[d].real \in Method => decls[d].origin = Nearest(decls[d].real)[c]
  /\ \A r \in Method :
       OverridesNothing[c] /\ Nearest(r)[c] # NoDecl =>
         \E d \in Elements(decls[c].methods) : decls[d].real = r

NearestSoFar ==
  \A k \in 1 .. Len(classes) : Once(decls[classes[k]].methods) /\ AreNearest(classes[k])

\* Methods, and nothing else, have names that calls use, and were declared somewhere.
RealNames ==
  \A d \in 1 .. Len(decls) :
    /\ decls[d].real \in Method => decls[d].kind = "method"
    /\ decls[d].kind = "method" => decls[d].origin # NoDecl

PartsApart ==
  InClass =>
    /\ \A k \in 1 .. Len(parts) :
         decls[parts[k]].kind = "method" =>
           decls[parts[k]].name = Mangled[<<ClassName[Len(classes) + 1], decls[parts[k]].real>>]
    /\ Once(parts)

MInv == NearestSoFar /\ RealNames /\ PartsApart

\* What the classes have is the same as long as their declarations are.
LEMMA NearestKept ==
  ASSUME Basis, Basis', DeclsKept, Len(decls') >= Len(decls), NEW r \in Method
  PROVE  \A c \in 1 .. Len(decls) : Nearest(r)'[c] = Nearest(r)[c]
<1>1. PICK n \in Nat : n = Len(decls) BY DEF Basis, Backward
<1>2. PICK f, g : f = Nearest(r) /\ g = Nearest(r)' OBVIOUS
<1>3. PICK T : T = {c \in 1 .. n : g[c] # f[c]} OBVIOUS
<1>4. SUFFICES ASSUME T # {} PROVE FALSE BY <1>1, <1>2, <1>3
<1>5. T \subseteq Nat BY <1>1, <1>3
<1>6. PICK c \in T : \A b \in T : c <= b BY <1>4, <1>5, LeastNatural
<1>7. c \in 1 .. n /\ c \in Nat /\ g[c] # f[c] BY <1>3, <1>5
<1>8. c \in 1 .. Len(decls') BY <1>1, <1>7 DEF Basis, Backward
<1>9. PICK a, own : /\ a = decls[c].class
                    /\ own = {d \in Elements(decls[c].methods) :
                                decls[d].origin = d /\ decls[d].real = r}
  OBVIOUS
<1>10. f[c] = IF own # {} THEN CHOOSE d \in own : TRUE ELSE IF a = NoDecl THEN NoDecl ELSE f[a]
  <2>1. NearTo(r, f) BY <1>2 DEF Basis
  <2> QED BY ONLY <1>1, <1>7, <1>9, <2>1 DEF NearTo, NearAt
<1>11. SameDecl(decls[c], decls'[c]) BY <1>1, <1>7 DEF DeclsKept
<1>12. a = decls'[c].class BY ONLY <1>9, <1>11 DEF SameDecl
<1>13. own = {d \in Elements(decls'[c].methods) : decls'[d].origin = d /\ decls'[d].real = r}
  <2>1. Elements(decls'[c].methods) = Elements(decls[c].methods) BY ONLY <1>11 DEF SameDecl
  <2>2. \A d \in Elements(decls[c].methods) : d \in 1 .. Len(decls)
    BY <1>1, <1>7 DEF Basis, Backward
  <2>3. \A d \in Elements(decls[c].methods) :
          decls'[d].origin = decls[d].origin /\ decls'[d].real = decls[d].real
    BY ONLY <2>2, DeclsKept DEF DeclsKept, SameDecl
  <2> QED BY ONLY <1>9, <2>1, <2>3
<1>14. g[c] = IF own # {} THEN CHOOSE d \in own : TRUE ELSE IF a = NoDecl THEN NoDecl ELSE g[a]
  <2>1. NearTo(r, g)' BY <1>2 DEF Basis
  <2>2. g[c] = NearAt(r, g, c)'
    <3>1. (\A x \in 1 .. Len(decls) : g[x] = NearAt(r, g, x))' BY ONLY <2>1 DEF NearTo
    <3> QED BY ONLY <1>8, <3>1
  <2> QED BY ONLY <1>12, <1>13, <2>2 DEF NearAt
<1>15. a # NoDecl => g[a] = f[a]
  <2>1. a \in 0 .. c - 1 BY <1>1, <1>7, <1>9 DEF Basis, Backward
  <2>2. a # NoDecl => a \in 1 .. n /\ ~(c <= a) BY ONLY <1>1, <1>7, <2>1 DEF NoDecl
  <2> QED BY ONLY <1>3, <1>6, <2>2
<1> QED BY ONLY <1>7, <1>10, <1>14, <1>15

LEMMA PlainKept ==
  ASSUME Basis, Basis', DeclsKept, Len(decls') >= Len(decls)
  PROVE  \A c \in 1 .. Len(decls) : OverridesNothing'[c] = OverridesNothing[c]
<1>1. PICK n \in Nat : n = Len(decls) BY DEF Basis, Backward
<1>2. PICK f, g : f = OverridesNothing /\ g = OverridesNothing' OBVIOUS
<1>3. PICK T : T = {c \in 1 .. n : g[c] # f[c]} OBVIOUS
<1>4. SUFFICES ASSUME T # {} PROVE FALSE BY <1>1, <1>2, <1>3
<1>5. T \subseteq Nat BY <1>1, <1>3
<1>6. PICK c \in T : \A b \in T : c <= b BY <1>4, <1>5, LeastNatural
<1>7. c \in 1 .. n /\ c \in Nat /\ g[c] # f[c] BY <1>3, <1>5
<1>8. c \in 1 .. Len(decls') BY <1>1, <1>7 DEF Basis, Backward
<1>9. PICK a, ms : a = decls[c].class /\ ms = Elements(decls[c].methods) OBVIOUS
<1>10. f[c] = PlainAt(f, c)
  <2>1. PlainTo(f) BY <1>2 DEF Basis
  <2> QED BY ONLY <1>1, <1>7, <2>1, Zenon DEF PlainTo
<1>11. SameDecl(decls[c], decls'[c]) BY <1>1, <1>7 DEF DeclsKept
<1>12. a = decls'[c].class /\ ms = Elements(decls'[c].methods)
  BY ONLY <1>9, <1>11 DEF SameDecl
<1>13. \A d \in ms : d \in 1 .. Len(decls) BY <1>1, <1>7, <1>9 DEF Basis, Backward
<1>14. \A d \in ms : /\ decls'[d].origin = decls[d].origin /\ decls'[d].real = decls[d].real
                     /\ decls'[d].kind = decls[d].kind
  BY ONLY <1>13, DeclsKept DEF DeclsKept, SameDecl
<1>15. a # NoDecl => a \in 1 .. n /\ ~(c <= a)
  <2>1. a \in 0 .. c - 1 BY <1>1, <1>7, <1>9 DEF Basis, Backward
  <2> QED BY ONLY <1>1, <1>7, <2>1 DEF NoDecl
<1>16. a # NoDecl => g[a] = f[a] BY ONLY <1>3, <1>6, <1>15
<1>17. ASSUME a # NoDecl, NEW d \in ms, decls[d].kind = "method", NEW r, r = decls[d].real
       PROVE  Nearest(r)'[a] = Nearest(r)[a]
  <2>1. r \in Method BY <1>13, <1>17, HeapFacts DEF Basis
  <2> QED BY <1>1, <1>15, <1>17, <2>1, NearestKept
<1>18. PICK N, M : /\ N = [d \in ms |-> Nearest(decls[d].real)[a]]
                   /\ M = [d \in ms |-> Nearest(decls[d].real)'[a]]
  OBVIOUS
<1>19. ASSUME a # NoDecl, NEW d \in ms, decls[d].kind = "method" PROVE M[d] = N[d]
  <2>1. PICK r : r = decls[d].real OBVIOUS
  <2>2. r = decls'[d].real BY <1>14, <2>1
  <2>3. Nearest(r)'[a] = Nearest(r)[a] BY <1>17, <1>19, <2>1
  <2> QED BY ONLY <1>18, <2>1, <2>2, <2>3
<1>20. PlainAt(f, c) <=>
         (a # NoDecl => f[a] /\ \A d \in ms : decls[d].kind = "method" /\ decls[d].origin = d =>
                                  N[d] = NoDecl)
  <2>1. \A d \in ms : N[d] = Nearest(decls[d].real)[a] BY ONLY <1>18
  <2> QED BY ONLY <1>9, <2>1, Zenon DEF PlainAt
<1>21. g[c] = PlainAt(g, c)'
  <2>1. PlainTo(g)' BY <1>2 DEF Basis
  <2>2. (\A x \in 1 .. Len(decls) : g[x] = PlainAt(g, x))' BY ONLY <2>1 DEF PlainTo
  <2> QED BY ONLY <1>8, <2>2, Zenon
<1>22. PlainAt(g, c)' <=>
         (a # NoDecl => g[a] /\ \A d \in ms : decls'[d].kind = "method" /\ decls'[d].origin = d =>
                                  M[d] = NoDecl)
  <2>1. \A d \in ms : M[d] = Nearest(decls[d].real)'[a] BY ONLY <1>18
  <2> QED BY ONLY <1>12, <2>1, Zenon DEF PlainAt
<1>23. PlainAt(f, c) <=> PlainAt(g, c)' BY ONLY <1>14, <1>16, <1>19, <1>20, <1>22, Zenon
<1>24. PlainAt(f, c) \in BOOLEAN /\ PlainAt(g, c)' \in BOOLEAN BY ONLY Zenon DEF PlainAt
<1> QED BY ONLY <1>7, <1>10, <1>21, <1>23, <1>24, Zenon

LEMMA AreNearestKept ==
  ASSUME Basis, Basis', DeclsKept, Len(decls') >= Len(decls), NEW c \in 1 .. Len(decls),
         Once(decls[c].methods), AreNearest(c)
  PROVE  Once(decls[c].methods)' /\ AreNearest(c)'
<1>1. PICK ms : ms = decls[c].methods OBVIOUS
<1>2. decls'[c].methods = ms BY <1>1 DEF DeclsKept, SameDecl
<1>3. \A d \in Elements(ms) : d \in 1 .. Len(decls) BY <1>1 DEF Basis, Backward
<1>4. \A d \in Elements(ms) : decls'[d].real = decls[d].real /\ decls'[d].origin = decls[d].origin
  BY <1>3 DEF DeclsKept, SameDecl
<1>5. \A i \in 1 .. Len(ms) : decls'[ms[i]].real = decls[ms[i]].real BY ONLY <1>4 DEF Elements
<1>6. Once(decls[c].methods)'
  <2>1. Once(ms) BY <1>1
  <2>2. \A i, j \in 1 .. Len(ms) :
          decls'[ms[i]].real \in Method /\ decls'[ms[i]].real = decls'[ms[j]].real => i = j
    BY ONLY <1>5, <2>1 DEF Once
  <2> QED BY ONLY <1>2, <2>2 DEF Once
<1>7. PICK F : F = [r \in Method |-> Nearest(r)'[c]] OBVIOUS
<1>8. \A r \in Method : F[r] = Nearest(r)'[c] BY ONLY <1>7
<1>9. \A r \in Method : F[r] = Nearest(r)[c] BY ONLY <1>8, NearestKept, Basis, Basis', DeclsKept, Len(decls') >= Len(decls), c \in 1 .. Len(decls)
<1>10. OverridesNothing'[c] = OverridesNothing[c] BY PlainKept
<1>11. \A d \in Elements(decls'[c].methods) :
         decls'[d].real \in Method => decls'[d].origin = Nearest(decls[d].real)'[c]
  <2> TAKE d \in Elements(decls'[c].methods)
  <2> HAVE decls'[d].real \in Method
  <2>1. PICK r \in Method : r = decls[d].real /\ r = decls'[d].real BY <1>2, <1>4
  <2>2. d \in Elements(ms) BY <1>2
  <2>3. decls[d].origin = Nearest(r)[c]
    <3>1. \A x \in Elements(ms) : decls[x].real \in Method => decls[x].origin = Nearest(decls[x].real)[c]
      BY <1>1 DEF AreNearest
    <3> QED BY ONLY <2>1, <2>2, <3>1
  <2>4. decls'[d].origin = Nearest(r)'[c] BY ONLY <1>4, <1>8, <1>9, <2>2, <2>3, r \in Method
  <2> QED BY ONLY <2>1, <2>4
<1>12. \A r \in Method :
         OverridesNothing'[c] /\ Nearest(r)'[c] # NoDecl =>
           \E d \in Elements(decls'[c].methods) : decls'[d].real = r
  <2> TAKE r \in Method
  <2> HAVE OverridesNothing'[c] /\ Nearest(r)'[c] # NoDecl
  <2>1. OverridesNothing[c] BY ONLY <1>10, OverridesNothing'[c]
  <2>2. Nearest(r)[c] # NoDecl BY ONLY <1>8, <1>9, r \in Method, Nearest(r)'[c] # NoDecl
  <2>3. PICK d \in Elements(ms) : decls[d].real = r BY <1>1, <2>1, <2>2 DEF AreNearest
  <2> QED BY ONLY <1>2, <1>4, <2>3
<1> QED BY ONLY <1>6, <1>11, <1>12 DEF AreNearest

LEMMA SoFarKept ==
  ASSUME Basis, Basis', DeclsKept, Len(decls') >= Len(decls), NearestSoFar,
         NEW k \in 1 .. Len(classes), classes'[k] = classes[k]
  PROVE  Once(decls[classes[k]].methods)' /\ AreNearest(classes[k])'
<1>1. PICK c : c = classes[k] OBVIOUS
<1>2. c \in 1 .. Len(decls) BY <1>1, HeapFacts DEF Basis
<1>3. Once(decls[c].methods) /\ AreNearest(c) BY <1>1 DEF NearestSoFar
<1>4. Once(decls[c].methods)' /\ AreNearest(c)' BY <1>2, <1>3, AreNearestKept
<1> QED BY ONLY <1>1, <1>4, classes'[k] = classes[k]

\* A member of the class at hand has a name of its own.
LEMMA MemberNearest ==
  ASSUME Basis, Basis', MInv, NEW d, MemberStep(d), NewMember(d)
  PROVE  MInv'
<1>1. PICK id \in Nat, p \in Nat : id = Len(decls) + 1 /\ p = Len(parts)
  <2>1. Len(decls) \in Nat /\ Len(parts) \in Nat BY HeapFacts DEF Basis
  <2> QED BY ONLY <2>1
<1>2. /\ Len(decls') = id /\ decls'[id] = d /\ \A x \in 1 .. Len(decls) : decls'[x] = decls[x]
      /\ Len(parts') = p + 1 /\ parts'[p + 1] = id /\ \A k \in 1 .. p : parts'[k] = parts[k]
      /\ DeclsKept
  BY <1>1, MemberHeap DEF Basis
<1>3. Len(decls') >= Len(decls) BY ONLY <1>1, <1>2
<1>4. classes' = classes /\ current' = current /\ InClass BY DEF MemberStep
<1>5. NearestSoFar'
  <2>1. ASSUME NEW k \in 1 .. Len(classes)
        PROVE  Once(decls[classes[k]].methods)' /\ AreNearest(classes[k])'
    BY <1>2, <1>3, <1>4, SoFarKept DEF MInv
  <2> QED BY ONLY <1>4, <2>1 DEF NearestSoFar
<1>6. d.origin = id BY <1>1 DEF MemberStep, MemberIs
<1>7. RealNames'
  <2>1. \A x \in 1 .. id : x \in 1 .. Len(decls) \/ x = id BY ONLY <1>1
  <2>2. \A x \in 1 .. Len(decls) : /\ decls[x].real \in Method => decls[x].kind = "method"
                                   /\ decls[x].kind = "method" => decls[x].origin # NoDecl
    BY DEF MInv, RealNames
  <2>3. (d.real \in Method => d.kind = "method") /\ d.origin # NoDecl
    <3>1. id # NoDecl BY <1>1, HeapFacts DEF NoDecl, Basis
    <3> QED BY <1>6, <3>1 DEF NewMember
  <2> QED BY ONLY <1>2, <2>1, <2>2, <2>3 DEF RealNames
<1>8. PICK n : n = ClassName[Len(classes) + 1] OBVIOUS
<1>9. ClassAtHand = n BY <1>4, <1>8, AtHand DEF ClassAtHand, Basis
<1>10. \A k \in 1 .. p : parts[k] \in 1 .. Len(decls) BY <1>1, HeapFacts DEF Basis
<1>11. \A k \in 1 .. p : decls'[parts'[k]] = decls[parts[k]] BY ONLY <1>2, <1>10
<1>12. decls'[parts'[p + 1]] = d BY ONLY <1>2
<1>13. \A k \in 1 .. p + 1 : k \in 1 .. p \/ k = p + 1 BY ONLY p \in Nat
<1>14. /\ \A k \in 1 .. p : decls[parts[k]].kind = "method" =>
            decls[parts[k]].name = Mangled[<<n, decls[parts[k]].real>>]
       /\ Once(parts)
  BY <1>1, <1>4, <1>8 DEF MInv, PartsApart
<1>15. d.kind = "method" => d.name = Mangled[<<n, d.real>>] BY <1>9 DEF NewMember
<1>16. \A k \in 1 .. p : decls[parts[k]].real \in Method => decls[parts[k]].kind = "method"
  BY <1>10 DEF MInv, RealNames
<1>17. ASSUME NEW k \in 1 .. p, d.real \in Method PROVE decls[parts[k]].real # d.real
  <2>1. d.kind = "method" BY <1>17 DEF NewMember
  <2>2. decls[parts[k]].name # d.name BY <1>1, <2>1 DEF NewMember
  <2> QED BY ONLY <1>14, <1>15, <1>16, <1>17, <2>1, <2>2
<1>18. Once(parts)'
  <2>1. ASSUME NEW i \in 1 .. p + 1, NEW j \in 1 .. p + 1, decls'[parts'[i]].real \in Method,
               decls'[parts'[i]].real = decls'[parts'[j]].real
        PROVE  i = j
    <3>1. CASE i \in 1 .. p /\ j \in 1 .. p BY ONLY <1>1, <1>11, <1>14, <2>1, <3>1 DEF Once
    <3>2. CASE i \in 1 .. p /\ j = p + 1 BY ONLY <1>11, <1>12, <1>17, <2>1, <3>2
    <3>3. CASE i = p + 1 /\ j \in 1 .. p BY ONLY <1>11, <1>12, <1>17, <2>1, <3>3
    <3> QED BY ONLY <1>13, <3>1, <3>2, <3>3, i \in 1 .. p + 1, j \in 1 .. p + 1
  <2> QED BY ONLY <1>2, <2>1 DEF Once
<1>19. PartsApart'
  <2>1. \A k \in 1 .. p + 1 : decls'[parts'[k]].kind = "method" =>
          decls'[parts'[k]].name = Mangled[<<n, decls'[parts'[k]].real>>]
    BY ONLY <1>11, <1>12, <1>13, <1>14, <1>15
  <2> QED BY ONLY <1>2, <1>4, <1>8, <1>18, <2>1 DEF PartsApart
<1> QED BY ONLY <1>5, <1>7, <1>19 DEF MInv

\* The member functions of the class at hand have names of their own, and no method is
\* missing.
LEMMA OwnOnce ==
  ASSUME CInv, InClass, RealNames, PartsApart, NEW ms, ms = Own(Body)
  PROVE  /\ Once(ms) /\ Len(ms) \in Nat
         /\ \A i \in 1 .. Len(ms) : ms[i] \in 1 .. Len(decls) /\ decls[ms[i]].origin = ms[i]
                                    /\ \E k \in 1 .. Len(parts) : parts[k] = ms[i]
         /\ \A k \in 1 .. Len(parts) : decls[parts[k]].real \in Method =>
              \E i \in 1 .. Len(ms) : ms[i] = parts[k]
<1>1. PICK A : A = DeclOf(Body) OBVIOUS
<1>2. ms = Among(parts, A) BY <1>1 DEF Own
<1>3. parts \in Seq(1 .. Len(decls)) BY HeapFacts
<1>4. PICK h : Picks(parts, A, ms, h) BY <1>2, <1>3, AmongPicks
<1>5. Len(ms) \in Nat BY OwnCounted
<1>6. \A i \in 1 .. Len(ms) : h[i] \in 1 .. Len(parts) /\ ms[i] = parts[h[i]] BY <1>4 DEF Picks
<1>7. Once(ms)
  <2>1. Once(parts) BY DEF PartsApart
  <2>2. ASSUME NEW i \in 1 .. Len(ms), NEW j \in 1 .. Len(ms), decls[ms[i]].real \in Method,
               decls[ms[i]].real = decls[ms[j]].real
        PROVE  i = j
    <3>1. h[i] = h[j] BY ONLY <1>6, <2>1, <2>2 DEF Once
    <3>2. ~(i < j) /\ ~(j < i)
      <4>1. h[i] \in Nat /\ h[j] \in Nat BY <1>6, HeapFacts
      <4>2. i < j => h[i] < h[j] BY <1>4 DEF Picks
      <4>3. j < i => h[j] < h[i] BY <1>4 DEF Picks
      <4> QED BY ONLY <3>1, <4>1, <4>2, <4>3
    <3> QED BY ONLY <1>5, <3>2, i \in 1 .. Len(ms), j \in 1 .. Len(ms)
  <2> QED BY ONLY <2>2 DEF Once
<1>8. \A i \in 1 .. Len(ms) : ms[i] \in 1 .. Len(decls) /\ decls[ms[i]].origin = ms[i]
                                    /\ \E k \in 1 .. Len(parts) : parts[k] = ms[i]
  <2>1. \A k \in 1 .. Len(parts) : decls[parts[k]].origin = parts[k] BY DEF CInv, PartsRead
  <2>2. \A k \in 1 .. Len(parts) : parts[k] \in 1 .. Len(decls) BY HeapFacts
  <2> QED BY ONLY <1>6, <2>1, <2>2
<1>9. ASSUME NEW k \in 1 .. Len(parts), decls[parts[k]].real \in Method
      PROVE  \E i \in 1 .. Len(ms) : ms[i] = parts[k]
  <2>1. parts[k] \in 1 .. Len(decls) BY HeapFacts
  <2>2. decls[parts[k]].kind = "method" BY <1>9, <2>1 DEF RealNames
  <2>3. parts[k] \in A BY <1>1, <2>1, <2>2 DEF DeclOf, Body
  <2>4. \E i \in 1 .. Len(ms) : h[i] = k BY ONLY <1>4, <2>3, k \in 1 .. Len(parts) DEF Picks
  <2> QED BY ONLY <1>6, <2>4
<1> QED BY <1>5, <1>7, <1>8, <1>9

\* The nearest methods of a class that was just read, in terms of its own methods and
\* its base.
NearBy(c, r, own) ==
  /\ own # {} => Nearest(r)'[c] \in own
  /\ own = {} => Nearest(r)'[c] = IF decls'[c].class = NoDecl THEN NoDecl
                                  ELSE Nearest(r)'[decls'[c].class]

LEMMA NewNearest ==
  ASSUME Basis', NEW c \in 1 .. Len(decls'), NEW r \in Method,
         NEW own, own = {d \in Elements(decls'[c].methods) :
                           decls'[d].origin = d /\ decls'[d].real = r}
  PROVE  NearBy(c, r, own)
<1>1. PICK g : g = Nearest(r)' OBVIOUS
<1>2. NearTo(r, g)' BY <1>1 DEF Basis
<1>3. (\A x \in 1 .. Len(decls) : g[x] = NearAt(r, g, x))' BY ONLY <1>2 DEF NearTo
<1>4. g[c] = NearAt(r, g, c)' BY ONLY <1>3, c \in 1 .. Len(decls')
<1>5. g[c] = IF own # {} THEN CHOOSE d \in own : TRUE
             ELSE IF decls'[c].class = NoDecl THEN NoDecl ELSE g[decls'[c].class]
  BY ONLY <1>4, own = {d \in Elements(decls'[c].methods) :
                           decls'[d].origin = d /\ decls'[d].real = r} DEF NearAt
<1>6. own # {} => (CHOOSE d \in own : TRUE) \in own OBVIOUS
<1> QED BY ONLY <1>1, <1>5, <1>6 DEF NearBy

\* A method that the class just read declares itself is the nearest.
LEMMA OwnIsNearest ==
  ASSUME Basis', NEW c \in 1 .. Len(decls'), Once(decls[c].methods)',
         NEW d, d \in Elements(decls'[c].methods), decls'[d].origin = d,
         NEW r \in Method, r = decls'[d].real
  PROVE  Nearest(r)'[c] = d
<1>1. PICK ms, own : /\ ms = decls'[c].methods
                     /\ own = {x \in Elements(decls'[c].methods) :
                                 decls'[x].origin = x /\ decls'[x].real = r}
  OBVIOUS
<1>2. NearBy(c, r, own) BY <1>1, NewNearest
<1>3. d \in own BY <1>1
<1>4. PICK e \in own : e = Nearest(r)'[c] BY ONLY <1>2, <1>3 DEF NearBy
<1>5. PICK i \in 1 .. Len(ms), j \in 1 .. Len(ms) : ms[i] = d /\ ms[j] = e
  BY <1>1, <1>3, <1>4 DEF Elements
<1>6. Once(ms)' BY <1>1
<1>7. \A x, y \in 1 .. Len(ms) :
        decls'[ms[x]].real \in Method /\ decls'[ms[x]].real = decls'[ms[y]].real => x = y
  BY ONLY <1>6 DEF Once
<1>8. decls'[e].real = r BY <1>1, <1>4
<1>9. i = j BY ONLY <1>5, <1>7, <1>8, r = decls'[d].real, r \in Method
<1> QED BY ONLY <1>4, <1>5, <1>9

\* When a class is read, the rest of the invariant stays.
LEMMA LeftNearest ==
  ASSUME Basis, Basis', MInv, NEW id, Left(id), Once(decls[id].methods)', AreNearest(id)',
         \A x \in 1 .. Len(decls') : x > Len(decls) =>
           /\ decls'[x].real \in Method => decls'[x].kind = "method"
           /\ decls'[x].kind = "method" => decls'[x].origin # NoDecl
  PROVE  MInv'
<1>1. DeclsKept /\ Len(decls') >= Len(decls) /\ current' = Module BY DEF Left
<1>2. ClassesKept /\ classes'[Len(classes) + 1] = id BY LeftClasses DEF Basis
<1>3. classes' = Append(classes, id) BY DEF Left
<1>4. classes \in Seq(1 .. Len(decls)) /\ Len(classes) \in Nat BY HeapFacts DEF Basis
<1>5. Len(classes') = Len(classes) + 1 BY ONLY <1>3, <1>4
<1>6. ASSUME NEW k \in 1 .. Len(classes')
      PROVE  Once(decls[classes[k]].methods)' /\ AreNearest(classes[k])'
  <2>1. k \in 1 .. Len(classes) \/ k = Len(classes) + 1
    BY ONLY <1>4, <1>5, k \in 1 .. Len(classes')
  <2>2. CASE k \in 1 .. Len(classes)
    <3>1. classes'[k] = classes[k] BY <1>2, <2>2 DEF ClassesKept
    <3>2. Once(decls[classes[k]].methods)' /\ AreNearest(classes[k])'
      BY <1>1, <2>2, <3>1, SoFarKept DEF MInv
    <3> QED BY ONLY <3>2
  <2>3. CASE k = Len(classes) + 1
    <3>1. classes'[k] = id BY <1>2, <2>3
    <3> QED BY ONLY <3>1, Once(decls[id].methods)', AreNearest(id)'
  <2> QED BY ONLY <2>1, <2>2, <2>3
<1>7. NearestSoFar' BY ONLY <1>6 DEF NearestSoFar
<1>8. RealNames'
  <2>1. ASSUME NEW x \in 1 .. Len(decls')
        PROVE  /\ decls'[x].real \in Method => decls'[x].kind = "method"
               /\ decls'[x].kind = "method" => decls'[x].origin # NoDecl
    <3>1. CASE x > Len(decls) BY <3>1
    <3>2. CASE ~(x > Len(decls))
      <4>1. Len(decls) \in Nat /\ Len(decls') \in Nat BY HeapFacts DEF Basis, Left
      <4>2. x \in 1 .. Len(decls) BY ONLY <3>2, <4>1, x \in 1 .. Len(decls')
      <4>3. /\ decls[x].real \in Method => decls[x].kind = "method"
            /\ decls[x].kind = "method" => decls[x].origin # NoDecl
        BY <4>2 DEF MInv, RealNames
      <4>4. SameDecl(decls[x], decls'[x]) BY ONLY <1>1, <4>2 DEF DeclsKept
      <4> QED BY ONLY <4>3, <4>4 DEF SameDecl
    <3> QED BY <3>1, <3>2
  <2> QED BY ONLY <2>1 DEF RealNames
<1>9. PartsApart' BY ONLY <1>1 DEF PartsApart, InClass
<1> QED BY ONLY <1>7, <1>8, <1>9 DEF MInv

LEMMA PlainNearest ==
  ASSUME Basis, Basis', MInv, LeaveClass
  PROVE  MInv'
<1>1. PICK id : id = Len(decls) + 1 /\ LeftPlain(id) BY LeaveClassIs DEF Basis
<1>2. Left(id) /\ DeclsKept /\ InClass BY <1>1 DEF LeftPlain, Left
<1>3. PICK ms : ms = Own(Body) OBVIOUS
<1>4. decls'[id].methods = ms /\ decls'[id].class = NoDecl /\ id \in 1 .. Len(decls')
  BY ONLY <1>1, <1>2, <1>3 DEF LeftPlain, Left
<1>5. /\ Once(ms) /\ Len(ms) \in Nat
      /\ \A i \in 1 .. Len(ms) : ms[i] \in 1 .. Len(decls) /\ decls[ms[i]].origin = ms[i]
  BY <1>2, <1>3, OwnOnce DEF Basis, MInv
<1>6. \A i \in 1 .. Len(ms) : /\ decls'[ms[i]].origin = decls[ms[i]].origin
                              /\ decls'[ms[i]].real = decls[ms[i]].real
  BY ONLY <1>2, <1>5 DEF DeclsKept, SameDecl
<1>7. Once(ms)' BY ONLY <1>5, <1>6 DEF Once
<1>8. Once(decls[id].methods)' BY ONLY <1>4, <1>7
<1>9. \A d \in Elements(ms) : decls'[d].origin = d BY ONLY <1>5, <1>6 DEF Elements
<1>10. ASSUME NEW d \in Elements(ms), decls'[d].real \in Method
       PROVE  decls'[d].origin = Nearest(decls[d].real)'[id]
  <2>1. PICK r \in Method : r = decls'[d].real BY <1>10
  <2>2. Nearest(r)'[id] = d BY <1>4, <1>8, <1>9, <2>1, OwnIsNearest
  <2> QED BY ONLY <1>9, <2>1, <2>2, d \in Elements(ms)
<1>11. ASSUME NEW r \in Method, Nearest(r)'[id] # NoDecl
       PROVE  \E d \in Elements(ms) : decls'[d].real = r
  <2>1. PICK own : own = {d \in Elements(ms) : decls'[d].origin = d /\ decls'[d].real = r} OBVIOUS
  <2>2. NearBy(id, r, own) BY <1>4, <2>1, NewNearest
  <2>3. own # {} BY ONLY <1>4, <1>11, <2>2 DEF NearBy
  <2> QED BY ONLY <2>1, <2>3
<1>12. AreNearest(id)' BY ONLY <1>4, <1>10, <1>11 DEF AreNearest
<1>13. ASSUME NEW x \in 1 .. Len(decls'), x > Len(decls)
       PROVE  /\ decls'[x].real \in Method => decls'[x].kind = "method"
              /\ decls'[x].kind = "method" => decls'[x].origin # NoDecl
  <2>1. Len(decls) \in Nat BY HeapFacts DEF Basis
  <2>2. Len(decls') = id BY ONLY <1>1 DEF LeftPlain
  <2>3. x = id BY ONLY <1>1, <1>13, <2>1, <2>2, x \in 1 .. Len(decls')
  <2>4. decls'[id].kind = "class" /\ decls'[id].real = "" BY ONLY <1>1, <1>2 DEF LeftPlain, Left
  <2>5. decls'[x].real \notin Method BY <2>3, <2>4, ClassesAssumption DEF ClassesAssumption
  <2>6. "class" # "method" OBVIOUS
  <2> QED BY ONLY <2>3, <2>4, <2>5, <2>6
<1> QED BY <1>2, <1>8, <1>12, <1>13, LeftNearest

LEMMA BaseRealIs == BaseField.real = ""
BY DEF BaseField, NewDecl

LEMMA DerivedRealIs == Derived.real = ""
BY DEF Derived, NewDecl

\* The methods of a class with a base: copies of what is inherited by h, the last first,
\* and behind them its own.
Composed(id, q, c, bm, ms, h) ==
  /\ Left(c) /\ c = id + q + 1 /\ id = Len(decls) + 1 /\ Len(decls') = c
  /\ base \in 1 .. Len(decls) /\ bm = decls[base].methods /\ ms = Own(Body)
  /\ InheritedBy(bm, h) /\ q = Len(Inherited)
  /\ decls'[c].class = base /\ decls'[c].real = "" /\ decls'[id].real = ""
  /\ \A k \in 1 .. q :
       LET e == decls'[id + k]
           d == decls[Inherited[k]]
       IN  e.kind = "method" /\ e.real = d.real /\ e.origin = d.origin
  /\ Len(decls'[c].methods) = q + Len(ms)
  /\ \A k \in 1 .. q : decls'[c].methods[k] = id + q + 1 - k
  /\ \A k \in 1 .. Len(ms) : decls'[c].methods[q + k] = ms[k]

LEMMA LeaveDerivedComposed ==
  ASSUME Basis, LeaveDerived
  PROVE  \E id \in Nat, q \in Nat : \E c, bm, ms, h : Composed(id, q, c, bm, ms, h)
<1>1. InClass /\ base # NoDecl BY LeaveDerivedIs
<1>2. CInv BY DEF Basis
<1>3. base \in 1 .. Len(decls) BY <1>1, <1>2, BaseIs
<1>4. PICK bm, ms : bm = decls[base].methods /\ ms = Own(Body) OBVIOUS
<1>5. PICK h : InheritedBy(bm, h) BY <1>2, <1>3, <1>4, InheritedFrom
<1>6. Len(Copies) = Len(Inherited) /\ Len(Copies) \in Nat BY <1>1, <1>2, CopiesAre
<1>7. PICK q \in Nat : q = Len(Copies) BY <1>6
<1>8. PICK id \in Nat : id = Len(decls) + 1
  <2>1. Len(decls) \in Nat BY <1>2, HeapFacts
  <2> QED BY ONLY <2>1
<1>9. PICK c : c = id + q + 1 OBVIOUS
<1>10. Left(c) BY <1>2, <1>7, <1>8, <1>9, DerivedLeft
<1>11. /\ Len(decls') = c /\ decls'[id] = BaseField /\ decls'[c] = Derived
       /\ \A k \in 1 .. q : decls'[id + k] = Copies[k]
  BY <1>2, <1>7, <1>8, <1>9, DerivedHeap
<1>12. \A k \in 1 .. q :
         CopyIs(Copies[k], decls[Inherited[k]], NewName(Inherited[k]), CopiedScope(Inherited[k]))
  BY <1>1, <1>2, <1>7, CopiesAre
<1>13. ASSUME NEW k \in 1 .. q
       PROVE  /\ decls'[id + k].kind = "method"
              /\ decls'[id + k].real = decls[Inherited[k]].real
              /\ decls'[id + k].origin = decls[Inherited[k]].origin
  <2>1. CopyIs(Copies[k], decls[Inherited[k]], NewName(Inherited[k]), CopiedScope(Inherited[k]))
    BY ONLY <1>12, k \in 1 .. q
  <2>2. decls'[id + k] = Copies[k] BY ONLY <1>11, k \in 1 .. q
  <2> QED BY ONLY <2>1, <2>2, Zenon DEF CopyIs
<1>14. /\ Derived.class = base
       /\ Len(Derived.methods) = q + Len(Own(Body))
       /\ \A k \in 1 .. q : Derived.methods[k] = id + q + 1 - k
       /\ \A k \in 1 .. Len(Own(Body)) : Derived.methods[q + k] = Own(Body)[k]
  BY <1>1, <1>2, <1>7, <1>8, DerivedIs
<1>15. BaseField.real = "" /\ Derived.real = "" BY BaseRealIs, DerivedRealIs
<1>16. Composed(id, q, c, bm, ms, h)
  BY ONLY <1>3, <1>4, <1>5, <1>6, <1>7, <1>8, <1>9, <1>10, <1>11, <1>13, <1>14, <1>15
     DEF Composed
<1> QED BY <1>16

\* Each of the methods u is a copy or the class's own.
CopiesAndOwn(u, id, q, ms) ==
  /\ \A i \in 1 .. Len(u) :
       \/ i \in 1 .. q /\ \E k \in 1 .. q : k = q + 1 - i /\ u[i] = id + k
       \/ \E k \in 1 .. Len(ms) : i = q + k /\ u[i] = ms[k]
  /\ \A k \in 1 .. q : id + k \in Elements(u)
  /\ \A k \in 1 .. Len(ms) : ms[k] \in Elements(u)
  /\ Once(ms) /\ Len(ms) \in Nat
  /\ \A k \in 1 .. Len(ms) :
       /\ ms[k] \in 1 .. Len(decls)
       /\ decls'[ms[k]].real = decls[ms[k]].real /\ decls'[ms[k]].origin = ms[k]
       /\ decls'[ms[k]].kind = decls[ms[k]].kind
       /\ \E x \in 1 .. Len(parts) : parts[x] = ms[k]
  /\ \A k \in 1 .. Len(parts) : decls[parts[k]].real \in Method =>
       \E i \in 1 .. Len(ms) : ms[i] = parts[k]

LEMMA ComposedElements ==
  ASSUME Basis, MInv, NEW id \in Nat, NEW q \in Nat, NEW c, NEW bm, NEW ms, NEW h,
         Composed(id, q, c, bm, ms, h), NEW u, u = decls'[c].methods
  PROVE  CopiesAndOwn(u, id, q, ms)
<1>1. Left(c) /\ ms = Own(Body) BY DEF Composed
<1>2. InClass /\ DeclsKept BY <1>1 DEF Left
<1>3. /\ Once(ms) /\ Len(ms) \in Nat
      /\ \A i \in 1 .. Len(ms) : ms[i] \in 1 .. Len(decls) /\ decls[ms[i]].origin = ms[i]
                                 /\ \E k \in 1 .. Len(parts) : parts[k] = ms[i]
      /\ \A k \in 1 .. Len(parts) : decls[parts[k]].real \in Method =>
           \E i \in 1 .. Len(ms) : ms[i] = parts[k]
  BY <1>1, <1>2, OwnOnce DEF Basis, MInv
<1>4. \A k \in 1 .. Len(ms) : SameDecl(decls[ms[k]], decls'[ms[k]])
  BY ONLY <1>2, <1>3 DEF DeclsKept
<1>5. \A k \in 1 .. Len(ms) :
        /\ decls'[ms[k]].real = decls[ms[k]].real /\ decls'[ms[k]].origin = ms[k]
        /\ decls'[ms[k]].kind = decls[ms[k]].kind
  BY ONLY <1>3, <1>4 DEF SameDecl
<1>7. /\ Len(u) = q + Len(ms) /\ (\A k \in 1 .. q : u[k] = id + q + 1 - k)
      /\ \A k \in 1 .. Len(ms) : u[q + k] = ms[k]
  BY ONLY u = decls'[c].methods, Composed(id, q, c, bm, ms, h) DEF Composed
<1>8. ASSUME NEW i \in 1 .. Len(u)
      PROVE  \/ i \in 1 .. q /\ \E k \in 1 .. q : k = q + 1 - i /\ u[i] = id + k
             \/ \E k \in 1 .. Len(ms) : i = q + k /\ u[i] = ms[k]
  <2>1. CASE i \in 1 .. q
    <3>1. PICK k \in 1 .. q : k = q + 1 - i BY ONLY <2>1, q \in Nat
    <3>2. u[i] = id + k BY ONLY <1>7, <2>1, <3>1, id \in Nat, q \in Nat
    <3> QED BY ONLY <2>1, <3>1, <3>2
  <2>2. CASE i \notin 1 .. q
    <3>1. PICK k \in 1 .. Len(ms) : i = q + k
      <4>1. i - q \in 1 .. Len(ms) /\ i = q + (i - q)
        BY ONLY <1>3, <1>7, <2>2, q \in Nat, i \in 1 .. Len(u)
      <4> QED BY ONLY <4>1
    <3> QED BY ONLY <1>7, <3>1
  <2> QED BY ONLY <2>1, <2>2
<1>9. ASSUME NEW k \in 1 .. q PROVE id + k \in Elements(u)
  <2>1. PICK i \in 1 .. q : i = q + 1 - k BY ONLY q \in Nat, k \in 1 .. q
  <2>2. u[i] = id + k /\ i \in 1 .. Len(u)
    BY ONLY <1>3, <1>7, <2>1, id \in Nat, q \in Nat, k \in 1 .. q
  <2> QED BY ONLY <2>2 DEF Elements
<1>10. ASSUME NEW k \in 1 .. Len(ms) PROVE ms[k] \in Elements(u)
  <2>1. q + k \in 1 .. Len(u) BY ONLY <1>3, <1>7, q \in Nat, k \in 1 .. Len(ms)
  <2> QED BY ONLY <1>7, <2>1, k \in 1 .. Len(ms) DEF Elements
<1> QED BY ONLY <1>3, <1>5, <1>8, <1>9, <1>10 DEF CopiesAndOwn

\* An inherited method is not one of the class's own, nor another inherited one.
LEMMA ComposedOnce ==
  ASSUME Basis, MInv, NEW id \in Nat, NEW q \in Nat, NEW c, NEW bm, NEW ms, NEW h,
         Composed(id, q, c, bm, ms, h)
  PROVE  /\ Once(decls[c].methods)'
         /\ \A k \in 1 .. q, j \in 1 .. Len(ms) : decls'[id + k].real # decls'[ms[j]].real
<1>2. PICK u : u = decls'[c].methods OBVIOUS
<1>0. CopiesAndOwn(u, id, q, ms) BY <1>2, ComposedElements
<1>1. /\ Once(ms) /\ Len(ms) \in Nat
      /\ \A k \in 1 .. Len(ms) : /\ decls'[ms[k]].real = decls[ms[k]].real
                                 /\ \E x \in 1 .. Len(parts) : parts[x] = ms[k]
  BY ONLY <1>0 DEF CopiesAndOwn
<1>3. \A i \in 1 .. Len(u) :
        \/ i \in 1 .. q /\ \E k \in 1 .. q : k = q + 1 - i /\ u[i] = id + k
        \/ \E k \in 1 .. Len(ms) : i = q + k /\ u[i] = ms[k]
  BY ONLY <1>0 DEF CopiesAndOwn
<1>4. InheritedBy(bm, h) /\ q = Len(Inherited) /\ base \in 1 .. Len(decls) /\ bm = decls[base].methods
  BY DEF Composed
<1>5. \A k \in 1 .. q : /\ decls'[id + k].real = decls[Inherited[k]].real
                        /\ Inherited[k] = bm[h[k]] /\ h[k] \in 1 .. Len(bm)
                        /\ Inherited[k] \in 1 .. Len(decls)
                        /\ decls[Inherited[k]].kind = "method" /\ ~Overridden(Inherited[k])
  BY ONLY <1>4, Composed(id, q, c, bm, ms, h) DEF Composed, InheritedBy
<1>6. \A i, j \in 1 .. q : i < j => h[i] < h[j] BY ONLY <1>4 DEF InheritedBy
<1>7. ASSUME NEW k \in 1 .. q, NEW j \in 1 .. Len(ms)
      PROVE  decls'[id + k].real # decls'[ms[j]].real
  <2>1. PICK x \in 1 .. Len(parts) : parts[x] = ms[j] BY <1>1
  <2>2. ~Overridden(Inherited[k]) BY <1>5
  <2>3. decls[ms[j]].real # decls[Inherited[k]].real BY ONLY <2>1, <2>2 DEF Overridden
  <2> QED BY ONLY <1>1, <1>5, <2>3, k \in 1 .. q, j \in 1 .. Len(ms)
<1>8. Once(bm)
  <2>1. PICK x \in 1 .. Len(classes) : classes[x] = base
    <3>1. InClass BY DEF Composed, Left
    <3>2. base # NoDecl BY <1>4, HeapFacts DEF NoDecl, Basis
    <3> QED BY <3>1, <3>2, BaseIs DEF Basis
  <2> QED BY <1>4, <2>1 DEF MInv, NearestSoFar
<1>9. ASSUME NEW i \in 1 .. q, NEW j \in 1 .. q, decls'[id + i].real \in Method,
             decls'[id + i].real = decls'[id + j].real
      PROVE  i = j
  <2>1. decls[bm[h[i]]].real \in Method /\ decls[bm[h[i]]].real = decls[bm[h[j]]].real
    BY ONLY <1>5, <1>9
  <2>2. h[i] = h[j] BY ONLY <1>5, <1>8, <2>1, i \in 1 .. q, j \in 1 .. q DEF Once
  <2>3. ~(h[i] < h[j]) /\ ~(h[j] < h[i])
    <3>1. h[i] \in 1 .. Len(bm) /\ h[j] \in 1 .. Len(bm) BY ONLY <1>5, i \in 1 .. q, j \in 1 .. q
    <3>2. PICK x, y : x = h[i] /\ y = h[j] OBVIOUS
    <3>3. x \in Int /\ y = x BY ONLY <2>2, <3>1, <3>2
    <3>4. ~(x < x) BY ONLY <3>3
    <3> QED BY ONLY <3>2, <3>3, <3>4
  <2> QED BY ONLY <1>6, <2>3, q \in Nat, i \in 1 .. q, j \in 1 .. q
<1>10. ASSUME NEW i \in 1 .. Len(u), NEW j \in 1 .. Len(u), decls'[u[i]].real \in Method,
              decls'[u[i]].real = decls'[u[j]].real
       PROVE  i = j
  <2> DEFINE Copy(n, k) == k = q + 1 - n /\ u[n] = id + k
  <2> DEFINE Mine(n, k) == n = q + k /\ u[n] = ms[k]
  <2>1. \/ i \in 1 .. q /\ \E k \in 1 .. q : Copy(i, k)
        \/ \E k \in 1 .. Len(ms) : Mine(i, k)
    BY ONLY <1>3, i \in 1 .. Len(u)
  <2>2. \/ j \in 1 .. q /\ \E k \in 1 .. q : Copy(j, k)
        \/ \E k \in 1 .. Len(ms) : Mine(j, k)
    BY ONLY <1>3, j \in 1 .. Len(u)
  <2>3. ASSUME NEW k \in 1 .. q, NEW l \in 1 .. q, Copy(i, k), Copy(j, l) PROVE i = j
    <3>0. i \in Int /\ j \in Int BY ONLY i \in 1 .. Len(u), j \in 1 .. Len(u)
    <3>1. k = l BY ONLY <1>9, <1>10, <2>3
    <3> QED BY ONLY <2>3, <3>0, <3>1, q \in Nat
  <2>4. ASSUME NEW k \in 1 .. Len(ms), NEW l \in 1 .. Len(ms), Mine(i, k), Mine(j, l) PROVE i = j
    <3>0. decls[ms[k]].real \in Method /\ decls[ms[k]].real = decls[ms[l]].real
      BY ONLY <1>1, <1>10, <2>4
    <3>1. k = l BY ONLY <1>1, <3>0, k \in 1 .. Len(ms), l \in 1 .. Len(ms) DEF Once
    <3> QED BY ONLY <2>4, <3>1
  <2>5. ASSUME NEW k \in 1 .. q, NEW l \in 1 .. Len(ms), Copy(i, k), Mine(j, l) PROVE FALSE
    BY ONLY <1>7, <1>10, <2>5
  <2>6. ASSUME NEW k \in 1 .. Len(ms), NEW l \in 1 .. q, Mine(i, k), Copy(j, l) PROVE FALSE
    BY ONLY <1>7, <1>10, <2>6
  <2> HIDE DEF Copy, Mine
  <2> QED BY ONLY <2>1, <2>2, <2>3, <2>4, <2>5, <2>6
<1>11. Once(decls[c].methods)' BY ONLY <1>2, <1>10 DEF Once
<1> QED BY <1>7, <1>11

LEMMA ComposedNearest ==
  ASSUME Basis, Basis', MInv, NEW id \in Nat, NEW q \in Nat, NEW c, NEW bm, NEW ms, NEW h,
         Composed(id, q, c, bm, ms, h)
  PROVE  AreNearest(c)'
<1>1. PICK u : u = decls'[c].methods OBVIOUS
<1>0. CopiesAndOwn(u, id, q, ms) BY <1>1, ComposedElements
<1>2. /\ \A k \in 1 .. Len(ms) : /\ decls'[ms[k]].real = decls[ms[k]].real
                                 /\ decls'[ms[k]].origin = ms[k]
                                 /\ decls'[ms[k]].kind = decls[ms[k]].kind
                                 /\ ms[k] \in 1 .. Len(decls)
                                 /\ ms[k] \in Elements(u)
      /\ \A k \in 1 .. Len(parts) : decls[parts[k]].real \in Method =>
              \E i \in 1 .. Len(ms) : ms[i] = parts[k]
      /\ \A k \in 1 .. q : id + k \in Elements(u)
  BY ONLY <1>0 DEF CopiesAndOwn
<1>3. \A d \in Elements(u) : \/ \E k \in 1 .. q : d = id + k
                             \/ \E k \in 1 .. Len(ms) : d = ms[k]
  <2>1. \A i \in 1 .. Len(u) : \/ \E k \in 1 .. q : u[i] = id + k
                               \/ \E k \in 1 .. Len(ms) : u[i] = ms[k]
    BY ONLY <1>0 DEF CopiesAndOwn
  <2> QED BY ONLY <2>1 DEF Elements
<1>4. /\ Once(decls[c].methods)'
      /\ \A k \in 1 .. q, j \in 1 .. Len(ms) : decls'[id + k].real # decls'[ms[j]].real
  BY ComposedOnce
<1>5. /\ InheritedBy(bm, h) /\ q = Len(Inherited)
      /\ base \in 1 .. Len(decls) /\ bm = decls[base].methods
      /\ Left(c) /\ c \in 1 .. Len(decls') /\ decls'[c].class = base /\ id = Len(decls) + 1
  BY DEF Composed, Left
<1>6. base # NoDecl /\ Len(decls) \in Nat BY <1>5, HeapFacts DEF NoDecl, Basis
<1>7. \A k \in 1 .. q : /\ decls'[id + k].real = decls[Inherited[k]].real
                        /\ decls'[id + k].origin = decls[Inherited[k]].origin
                        /\ Inherited[k] = bm[h[k]] /\ h[k] \in 1 .. Len(bm)
                        /\ Inherited[k] \in 1 .. Len(decls)
  BY ONLY <1>5, Composed(id, q, c, bm, ms, h) DEF Composed, InheritedBy
<1>8. \A k \in 1 .. q : decls'[id + k].origin # id + k
  <2> TAKE k \in 1 .. q
  <2>1. decls[Inherited[k]].origin <= Inherited[k] /\ Inherited[k] <= Len(decls)
    <3>1. PICK d : d = Inherited[k] OBVIOUS
    <3>2. d \in 1 .. Len(decls) BY ONLY <1>7, <3>1, k \in 1 .. q
    <3>3. decls[d].origin <= d BY <3>2, HeapFacts DEF Basis
    <3>4. d <= Len(decls) BY ONLY <1>6, <3>2
    <3> QED BY ONLY <3>1, <3>3, <3>4, Zenon
  <2>2. decls[Inherited[k]].origin \in Nat
    <3>1. decls[Inherited[k]] \in DeclType BY <1>7, HeapFacts DEF Basis
    <3> QED BY ONLY <3>1, Zenon DEF DeclType
  <2>3. Inherited[k] \in Nat BY ONLY <1>6, <1>7, k \in 1 .. q
  <2> QED BY ONLY <1>5, <1>6, <1>7, <2>1, <2>2, <2>3, k \in 1 .. q, q \in Nat
<1>9. PICK x \in 1 .. Len(classes) : classes[x] = base
  <2>1. InClass BY <1>5 DEF Left
  <2> QED BY <1>6, <2>1, BaseIs DEF Basis
<1>10. AreNearest(base) BY <1>9 DEF MInv, NearestSoFar
<1>11. DeclsKept /\ Len(decls') >= Len(decls) BY <1>5 DEF Left
<1>12. \A r \in Method : Nearest(r)'[base] = Nearest(r)[base]
  BY <1>5, <1>11, NearestKept
<1>13. ASSUME NEW r \in Method, \A j \in 1 .. Len(ms) : decls'[ms[j]].real # r
       PROVE  Nearest(r)'[c] = Nearest(r)[base]
  <2>1. PICK own : own = {d \in Elements(u) : decls'[d].origin = d /\ decls'[d].real = r} OBVIOUS
  <2>2. NearBy(c, r, own) BY <1>1, <1>5, <2>1, NewNearest
  <2>3. own = {} BY ONLY <1>3, <1>8, <1>13, <2>1
  <2>4. Nearest(r)'[c] = Nearest(r)'[base] BY ONLY <1>5, <1>6, <2>2, <2>3 DEF NearBy
  <2> QED BY <1>12, <2>4
<1>14. ASSUME NEW d \in Elements(u), decls'[d].real \in Method
       PROVE  decls'[d].origin = Nearest(decls[d].real)'[c]
  <2>1. PICK r \in Method : r = decls'[d].real BY <1>14
  <2>2. ASSUME NEW k \in 1 .. Len(ms), d = ms[k] PROVE decls'[d].origin = Nearest(r)'[c]
    <3>1. decls'[d].origin = d BY ONLY <1>2, <2>2
    <3>2. Nearest(r)'[c] = d BY <1>1, <1>4, <1>5, <2>1, <3>1, OwnIsNearest
    <3> QED BY ONLY <3>1, <3>2
  <2>3. ASSUME NEW k \in 1 .. q, d = id + k PROVE decls'[d].origin = Nearest(r)'[c]
    <3>1. \A j \in 1 .. Len(ms) : decls'[ms[j]].real # r BY ONLY <1>4, <2>1, <2>3
    <3>2. Nearest(r)'[c] = Nearest(r)[base] BY ONLY <1>13, <3>1, r \in Method
    <3>3. PICK y : y = Inherited[k] OBVIOUS
    <3>4. y \in Elements(decls[base].methods) /\ decls[y].real = r
      BY ONLY <1>5, <1>7, <2>1, <2>3, <3>3 DEF Elements
    <3>5. decls[y].origin = Nearest(r)[base] BY ONLY <1>10, <3>4, r \in Method DEF AreNearest
    <3> QED BY ONLY <1>7, <2>3, <3>2, <3>3, <3>5
  <2>4. decls'[d].origin = Nearest(r)'[c] BY ONLY <1>3, <2>2, <2>3, d \in Elements(u)
  <2> QED BY ONLY <2>1, <2>4
<1>15. OverridesNothing'[c] =>
         /\ OverridesNothing[base]
         /\ \A d \in Elements(u) : decls'[d].kind = "method" /\ decls'[d].origin = d =>
              Nearest(decls[d].real)'[base] = NoDecl
  <2>1. PICK p : p = OverridesNothing' OBVIOUS
  <2>2. PlainTo(p)' BY <2>1 DEF Basis
  <2>3. (\A y \in 1 .. Len(decls) : p[y] = PlainAt(p, y))' BY ONLY <2>2 DEF PlainTo
  <2>4. p[c] = PlainAt(p, c)' BY ONLY <1>5, <2>3, Zenon
  <2>5. p[c] => PlainAt(p, c)' BY ONLY <2>4, Zenon
  <2>6. PlainAt(p, c)' =>
         /\ p[base]
         /\ \A d \in Elements(u) : decls'[d].kind = "method" /\ decls'[d].origin = d =>
              Nearest(decls[d].real)'[base] = NoDecl
    BY ONLY <1>1, <1>5, <1>6, Zenon DEF PlainAt
  <2>7. p[base] = OverridesNothing[base] BY <1>5, <1>11, <2>1, PlainKept
  <2> QED BY ONLY <2>1, <2>5, <2>6, <2>7, Zenon
<1>16. ASSUME NEW r \in Method, OverridesNothing'[c], Nearest(r)'[c] # NoDecl
       PROVE  \E d \in Elements(u) : decls'[d].real = r
  <2>1. CASE \E j \in 1 .. Len(ms) : decls'[ms[j]].real = r BY ONLY <1>2, <2>1
  <2>2. CASE \A j \in 1 .. Len(ms) : decls'[ms[j]].real # r
    <3>1. Nearest(r)[base] # NoDecl BY ONLY <1>13, <1>16, <2>2, r \in Method
    <3>2. OverridesNothing[base] BY ONLY <1>15, <1>16, Zenon
    <3>3. PICK d \in Elements(bm) : decls[d].real = r
      BY ONLY <1>5, <1>10, <3>1, <3>2, r \in Method DEF AreNearest
    <3>4. PICK i \in 1 .. Len(bm) : bm[i] = d BY ONLY <3>3 DEF Elements
    <3>5. \A y \in Elements(bm) : y \in 1 .. Len(decls) BY <1>5 DEF Basis, Backward
    <3>6. d \in 1 .. Len(decls) /\ decls[d].kind = "method" BY <3>3, <3>5 DEF MInv, RealNames
    <3>7. ASSUME NEW j \in 1 .. Len(bm), decls[bm[j]].kind = "method"
          PROVE  ~Overridden(bm[j])
      <4>1. SUFFICES ASSUME NEW z \in 1 .. Len(parts), decls[parts[z]].real = decls[bm[j]].real
            PROVE  FALSE
        BY DEF Overridden
      <4>2. bm[j] \in Elements(bm) BY DEF Elements
      <4>3. bm[j] \in 1 .. Len(decls) BY <3>5, <4>2
      <4>4. PICK s \in Method : s = decls[bm[j]].real
        BY <3>7, <4>3, HeapFacts DEF Basis
      <4>5. decls[bm[j]].origin # NoDecl BY <3>7, <4>3 DEF MInv, RealNames
      <4>6. decls[bm[j]].origin = Nearest(s)[base]
        BY ONLY <1>5, <1>10, <4>2, <4>4 DEF AreNearest
      <4>7. PICK k \in 1 .. Len(ms) : ms[k] = parts[z] BY ONLY <1>2, <4>1, <4>4
      <4>8. PICK e : e = ms[k] OBVIOUS
      <4>9. /\ e \in Elements(u) /\ decls'[e].origin = e /\ decls'[e].real = s
            /\ e \in 1 .. Len(decls) /\ decls[e].real = s
        BY ONLY <1>2, <4>1, <4>4, <4>7, <4>8
      <4>10. decls[e].kind = "method" BY <4>9 DEF MInv, RealNames
      <4>11. decls'[e].kind = "method" BY ONLY <1>2, <4>8, <4>10
      <4>12. Nearest(decls[e].real)'[base] = NoDecl BY ONLY <1>15, <1>16, <4>9, <4>11, Zenon
      <4>13. Nearest(s)'[base] = NoDecl BY ONLY <4>9, <4>12
      <4> QED BY <1>12, <4>5, <4>6, <4>13
    <3>8. PICK k \in 1 .. q : Inherited[k] = bm[i]
      BY ONLY <1>5, <3>4, <3>6, <3>7 DEF InheritedBy
    <3>9. decls'[id + k].real = r BY ONLY <1>7, <3>3, <3>4, <3>8
    <3> QED BY ONLY <1>2, <3>9
  <2> QED BY ONLY <2>1, <2>2
<1> QED BY ONLY <1>1, <1>14, <1>16 DEF AreNearest

LEMMA DerivedNearest ==
  ASSUME Basis, Basis', MInv, LeaveDerived
  PROVE  MInv'
<1>0. PICK id \in Nat, q \in Nat : \E c, bm, ms, h : Composed(id, q, c, bm, ms, h)
  BY LeaveDerivedComposed
<1>1. PICK c, bm, ms, h : Composed(id, q, c, bm, ms, h) BY <1>0
<1>2. Once(decls[c].methods)' BY <1>1, ComposedOnce
<1>3. AreNearest(c)' BY <1>1, ComposedNearest
<1>4. /\ Left(c) /\ c = id + q + 1 /\ id = Len(decls) + 1 /\ Len(decls') = c
      /\ InheritedBy(bm, h) /\ q = Len(Inherited)
      /\ decls'[c].real = "" /\ decls'[id].real = ""
      /\ \A k \in 1 .. q : /\ decls'[id + k].kind = "method"
                           /\ decls'[id + k].origin = decls[Inherited[k]].origin
  BY ONLY <1>1 DEF Composed
<1>5. ASSUME NEW x \in 1 .. Len(decls'), x > Len(decls)
      PROVE  /\ decls'[x].real \in Method => decls'[x].kind = "method"
             /\ decls'[x].kind = "method" => decls'[x].origin # NoDecl
  <2>1. Len(decls) \in Nat BY HeapFacts DEF Basis
  <2>2. x = id \/ x = c \/ x - id \in 1 .. q
    <3>1. PICK n, m : n = Len(decls) /\ m = Len(decls') OBVIOUS
    <3>2. n \in Nat /\ id = n + 1 /\ m = id + q + 1 /\ c = m /\ x \in 1 .. m /\ x > n
      BY ONLY <1>4, <1>5, <2>1, <3>1, x \in 1 .. Len(decls')
    <3> QED BY ONLY <3>2, q \in Nat
  <2>3. CASE x = id
    <3>1. "" \notin Method BY ClassesAssumption DEF ClassesAssumption
    <3>2. decls'[id].kind = "field"
      <4>1. InClass /\ base # NoDecl BY LeaveDerivedIs
      <4>2. BaseField.kind = "field" BY <4>1, BaseFieldIs DEF Basis
      <4>3. q = Len(Copies) BY <1>4, <4>1, CopiesAre DEF Basis
      <4>4. decls'[id] = BaseField BY <1>4, <4>3, DerivedHeap DEF Basis
      <4> QED BY <4>2, <4>4
    <3>3. "field" # "method" OBVIOUS
    <3> QED BY ONLY <1>4, <2>3, <3>1, <3>2, <3>3
  <2>4. CASE x = c
    <3>1. "" \notin Method BY ClassesAssumption DEF ClassesAssumption
    <3>2. decls'[c].kind = "class" BY ONLY <1>4 DEF Left
    <3>3. "class" # "method" OBVIOUS
    <3> QED BY ONLY <1>4, <2>4, <3>1, <3>2, <3>3
  <2>5. CASE x - id \in 1 .. q
    <3>1. PICK k \in 1 .. q : x = id + k
      <4>1. x = id + (x - id) BY ONLY id \in Nat, x \in 1 .. Len(decls')
      <4> QED BY ONLY <2>5, <4>1
    <3>2. Inherited[k] \in 1 .. Len(decls) /\ decls[Inherited[k]].kind = "method"
      BY ONLY <1>4, k \in 1 .. q DEF InheritedBy
    <3>3. decls[Inherited[k]].origin # NoDecl BY <3>2 DEF MInv, RealNames
    <3> QED BY ONLY <1>4, <3>1, <3>3
  <2> QED BY <2>2, <2>3, <2>4, <2>5
<1> QED BY <1>2, <1>3, <1>4, <1>5, LeftNearest

\* Steps that declare nothing.
LEMMA SameNearest ==
  ASSUME Basis, Basis', MInv, decls' = decls, classes' = classes,
         parts' = << >> \/ (parts' = parts /\ current' = current)
  PROVE  MInv'
<1>1. DeclsKept BY DEF DeclsKept, SameDecl
<1>2. Len(decls') >= Len(decls)
  <2>1. Len(decls) \in Nat BY HeapFacts DEF Basis
  <2> QED BY <2>1
<1>3. NearestSoFar'
  <2>1. ASSUME NEW k \in 1 .. Len(classes)
        PROVE  Once(decls[classes[k]].methods)' /\ AreNearest(classes[k])'
    BY <1>1, <1>2, SoFarKept DEF MInv
  <2> QED BY ONLY <2>1, classes' = classes DEF NearestSoFar
<1>4. RealNames' BY DEF MInv, RealNames
<1>5. PartsApart'
  <2>1. CASE parts' = << >>
    <3>1. \A k \in 1 .. Len(parts') : FALSE BY <2>1
    <3>2. Once(parts)' BY ONLY <3>1 DEF Once
    <3> QED BY ONLY <3>1, <3>2 DEF PartsApart
  <2>2. CASE parts' = parts /\ current' = current
    BY <2>2 DEF MInv, PartsApart, InClass, Once
  <2> QED BY <2>1, <2>2
<1> QED BY ONLY <1>3, <1>4, <1>5 DEF MInv

LEMMA StepNearest ==
  ASSUME Basis, Basis', MInv, [Next]_vars
  PROVE  MInv'
<1>0. CInv BY DEF Basis
<1>1. ASSUME NEW b \in 0 .. Len(decls), EnterClass(b) PROVE MInv'
  BY <1>1, SameNearest DEF EnterClass
<1>2. ASSUME NEW n \in FieldName, ParseField(n) PROVE MInv'
  BY <1>0, <1>2, FieldIsMember, MemberNearest
<1>3. ASSUME NEW m \in Method, NEW nested \in BOOLEAN, ParseMethod(m, nested) PROVE MInv'
  BY <1>0, <1>3, MethodIsMember, MemberNearest
<1>4. CASE ParseConstructor
  <2>1. InClass BY <1>4 DEF ParseConstructor, ReadMember
  <2> QED BY <1>0, <1>4, <2>1, ConstructorIsMember, MemberNearest
<1>5. CASE LeaveClass BY <1>5, PlainNearest
<1>6. CASE LeaveDerived BY <1>6, DerivedNearest
<1>7. CASE EndProgram BY <1>7, SameNearest DEF EndProgram, parserVars
<1>8. CASE VisitClass BY <1>8, SameNearest DEF VisitClass, parserVars
<1>9. CASE UNCHANGED vars BY <1>9, SameNearest DEF vars
<1> QED BY <1>1, <1>2, <1>3, <1>4, <1>5, <1>6, <1>7, <1>8, <1>9 DEF Next

LEMMA InitNearest ==
  ASSUME Init
  PROVE  MInv
<1>1. decls = << >> /\ classes = << >> /\ current = Module BY DEF Init
<1>2. \A k \in 1 .. 0 : FALSE OBVIOUS
<1>3. Len(decls) = 0 /\ Len(classes) = 0 BY <1>1
<1> QED BY ONLY <1>1, <1>2, <1>3 DEF MInv, NearestSoFar, RealNames, PartsApart, InClass

LEMMA NearestInvariant == Spec => [](Basis /\ MInv)
<1>1. CInv => Basis BY BasisHolds
<1>2. Init => MInv BY InitNearest
<1>3. Basis /\ Basis' /\ MInv /\ [Next]_vars => MInv' BY StepNearest
<1>4. Spec => []CInv BY Invariant
<1> QED BY <1>1, <1>2, <1>3, <1>4, PTL DEF Spec

LEMMA NearestFound ==
  ASSUME Basis, MInv
  PROVE  MethodsAreNearest
<1>1. ASSUME NEW c \in Classes, NEW r \in Method,
             NEW found, found = {d \in Elements(decls[c].methods) : decls[d].real = r}
      PROVE  /\ Cardinality(found) <= 1
             /\ \A d \in found : decls[d].origin = Nearest(r)[c]
             /\ OverridesNothing[c] /\ Nearest(r)[c] # NoDecl => found # {}
  <2>1. Once(decls[c].methods) /\ AreNearest(c) BY DEF Classes, MInv, NearestSoFar
  <2>2. PICK ms : ms = decls[c].methods OBVIOUS
  <2>3. ASSUME NEW d \in found, NEW e \in found PROVE d = e
    <3>1. PICK i \in 1 .. Len(ms), j \in 1 .. Len(ms) : ms[i] = d /\ ms[j] = e
      BY ONLY <1>1, <2>2, d \in found, e \in found DEF Elements
    <3>2. decls[d].real = r /\ decls[e].real = r BY ONLY <1>1, d \in found, e \in found
    <3>3. Once(ms) BY <2>1, <2>2
    <3>4. i = j BY ONLY <3>1, <3>2, <3>3, r \in Method DEF Once
    <3> QED BY ONLY <3>1, <3>4
  <2>4. Cardinality(found) <= 1
    <3>1. CASE found = {} BY <3>1, FS_EmptySet
    <3>2. CASE found # {}
      <4>1. PICK d : d \in found BY <3>2
      <4>2. found = {d} BY <2>3, <4>1
      <4>3. Cardinality({d}) = 1 BY FS_Singleton
      <4> QED BY <4>2, <4>3
    <3> QED BY <3>1, <3>2
  <2>5. \A d \in found : decls[d].origin = Nearest(r)[c]
    BY ONLY <1>1, <2>1, r \in Method DEF AreNearest
  <2>6. OverridesNothing[c] /\ Nearest(r)[c] # NoDecl => found # {}
    BY ONLY <1>1, <2>1, r \in Method DEF AreNearest
  <2> QED BY <2>4, <2>5, <2>6
<1> QED BY <1>1 DEF MethodsAreNearest

\* The function <Class>_<method> that a call names is the nearest method of that name in
\* the object's line of classes, there is one of it at most, and one in a line that
\* overrides nothing (inheritance in parseClassDecl, visit(MethodCallEXP&)).
THEOREM MethodsNearest == Spec => []MethodsAreNearest
<1>1. Basis /\ MInv => MethodsAreNearest BY NearestFound
<1> QED BY <1>1, NearestInvariant, PTL
=============================================================================
