---------------------------- MODULE Expr_proofs ----------------------------
(***************************************************************************)
(* Expr: for any expression, of any length and nesting, the stacks of      *)
(* parseBinaryOp have what is taken from them, the parser stays inside the *)
(* expression, and of an expression that it can read at all it drops       *)
(* nothing and builds the tree that is written.                            *)
(***************************************************************************)
EXTENDS Expr, SequenceTheorems, FiniteSetTheorems, WellFoundedInduction, TLAPS

Stacks ==
  [ops : Seq(Nat), exprs : Seq(Seq(Int)), wait : {"none", "group", "binary", "unary"}, op : Nat]

\* A call that waits for a nested expression may lack that one; the innermost call
\* lacks none, unless it is about to read one.
Supplied ==
  /\ \A f \in 1 .. Len(frames) : Len(frames[f].ops) <= Len(frames[f].exprs)
  /\ phase = "loop" =>
       /\ frames # << >>
       /\ Peek \in UnaryToken \cup {"("} \/ Len(Top.exprs) > Len(Top.ops)

EInv ==
  /\ pos \in Nat /\ value \in Seq(Int) /\ frames \in Seq(Stacks)
  /\ Supplied

\* All but the last element.
LEMMA FrontType ==
  ASSUME NEW S, NEW s \in Seq(S), s # << >>
  PROVE  /\ Front(s) \in Seq(S) /\ Len(Front(s)) = Len(s) - 1
         /\ Len(s) \in Nat /\ Len(s) >= 1
         /\ \A k \in 1 .. Len(s) - 1 : Front(s)[k] = s[k]
         /\ LastOf(s) \in S
<1>1. Len(s) \in Nat /\ Len(s) >= 1
  BY EmptySeq, LenProperties
<1>2. \A k \in 1 .. Len(s) : s[k] \in S
  BY <1>1, ElementOfSeq
<1>3. SubSeq(s, 1, Len(s) - 1) \in Seq(S) /\ Len(SubSeq(s, 1, Len(s) - 1)) = Len(s) - 1
  <2> DEFINE n == Len(s) - 1
  <2>1. n \in Nat /\ \A i \in 1 .. n : s[i] \in S
    BY <1>1, <1>2
  <2> HIDE DEF n
  <2>2. /\ SubSeq(s, 1, n) \in Seq(S)
        /\ Len(SubSeq(s, 1, n)) = IF 1 <= n THEN n - 1 + 1 ELSE 0
    BY <2>1, SubSeqProperties
  <2>3. Len(SubSeq(s, 1, n)) = n
    BY <2>1, <2>2
  <2>4. QED
    BY <2>2, <2>3 DEF n
<1>4. \A k \in 1 .. Len(s) - 1 : SubSeq(s, 1, Len(s) - 1)[k] = s[k]
  BY <1>1, <1>2, SubSeqProperties
<1>5. QED
  BY <1>1, <1>2, <1>3, <1>4 DEF Front, LastOf

\* A sequence with another last element.
LEMMA ReplaceLast ==
  ASSUME NEW S, NEW s \in Seq(S), s # << >>, NEW x \in S
  PROVE  LET t == Append(Front(s), x)
         IN  /\ t \in Seq(S) /\ Len(t) = Len(s) /\ t # << >>
             /\ t[Len(t)] = x
             /\ \A k \in 1 .. Len(t) - 1 : t[k] = s[k]
<1>1. /\ Front(s) \in Seq(S) /\ Len(Front(s)) = Len(s) - 1 /\ Len(s) \in Nat /\ Len(s) >= 1
      /\ \A k \in 1 .. Len(s) - 1 : Front(s)[k] = s[k]
  BY FrontType
<1> DEFINE r == Front(s)
<1> HIDE DEF r
<1>2. r \in Seq(S) /\ Len(r) = Len(s) - 1 /\ \A k \in 1 .. Len(s) - 1 : r[k] = s[k]
  BY <1>1 DEF r
<1>3. LET t == Append(r, x)
      IN  /\ t \in Seq(S) /\ Len(t) = Len(s) /\ t # << >>
          /\ t[Len(t)] = x
          /\ \A k \in 1 .. Len(t) - 1 : t[k] = s[k]
  BY <1>1, <1>2
<1>4. QED
  BY <1>3 DEF r

\* The innermost call is one of the frames.
LEMMA TopType ==
  ASSUME EInv, frames # << >>
  PROVE  Top \in Stacks /\ Len(Top.ops) <= Len(Top.exprs)
         /\ Len(Top.ops) \in Nat /\ Len(Top.exprs) \in Nat
<1>1. frames \in Seq(Stacks) /\ Len(frames) \in 1 .. Len(frames)
  BY DEF EInv
<1>2. Top \in Stacks
  BY <1>1 DEF Top
<1>3. QED
  BY <1>1, <1>2 DEF EInv, Supplied, Top, Stacks

\* The innermost call goes on with the stacks of fr, which is well supplied; the calls
\* around it stay as they are.
LEMMA TopReplaced ==
  ASSUME EInv, frames # << >>, NEW fr \in Stacks, Len(fr.ops) <= Len(fr.exprs),
         frames' = Append(Front(frames), fr),
         pos' \in Nat, value' \in Seq(Int),
         phase' = "loop" => (Len(fr.exprs) > Len(fr.ops) \/ Peek' \in UnaryToken \cup {"("})
  PROVE  EInv'
<1>1. frames \in Seq(Stacks)
  BY DEF EInv
<1>2. /\ frames' \in Seq(Stacks) /\ Len(frames') = Len(frames) /\ frames' # << >>
      /\ frames'[Len(frames')] = fr
      /\ \A k \in 1 .. Len(frames') - 1 : frames'[k] = frames[k]
  BY <1>1, ReplaceLast
<1>3. \A f \in 1 .. Len(frames') : Len(frames'[f].ops) <= Len(frames'[f].exprs)
  <2> TAKE f \in 1 .. Len(frames')
  <2>1. CASE f = Len(frames')
    BY <1>2, <2>1
  <2>2. CASE f # Len(frames')
    <3>1. f \in 1 .. Len(frames') - 1 /\ f \in 1 .. Len(frames)
      BY <1>1, <1>2, <2>2
    <3>2. QED
      BY <1>2, <3>1 DEF EInv, Supplied
  <2>3. QED
    BY <2>1, <2>2
<1>4. Top' = fr
  BY <1>2 DEF Top
<1>5. QED
  BY <1>2, <1>3, <1>4 DEF EInv, Supplied

\* A new innermost call begins with the stacks of fr.
LEMMA FramePushed ==
  ASSUME EInv, NEW fr \in Stacks, Len(fr.ops) <= Len(fr.exprs),
         frames' = Append(frames, fr),
         pos' \in Nat, value' \in Seq(Int),
         phase' = "loop" => (Len(fr.exprs) > Len(fr.ops) \/ Peek' \in UnaryToken \cup {"("})
  PROVE  EInv'
<1>1. frames \in Seq(Stacks)
  BY DEF EInv
<1>2. /\ frames' \in Seq(Stacks) /\ Len(frames') = Len(frames) + 1 /\ frames' # << >>
      /\ frames'[Len(frames')] = fr
      /\ \A k \in 1 .. Len(frames) : frames'[k] = frames[k]
  BY <1>1
<1>3. \A f \in 1 .. Len(frames') : Len(frames'[f].ops) <= Len(frames'[f].exprs)
  <2> TAKE f \in 1 .. Len(frames')
  <2>1. CASE f = Len(frames')
    BY <1>2, <2>1
  <2>2. CASE f # Len(frames')
    <3>1. f \in 1 .. Len(frames)
      BY <1>1, <1>2, <2>2
    <3>2. QED
      BY <1>2, <3>1 DEF EInv, Supplied
  <2>3. QED
    BY <2>1, <2>2
<1>4. Top' = fr
  BY <1>2 DEF Top
<1>5. QED
  BY <1>2, <1>3, <1>4 DEF EInv, Supplied

\* The steps that touch neither stack, and do not go back to the loop.
LEMMA StacksUntouched ==
  ASSUME EInv, UNCHANGED frames, pos' \in Nat, value' \in Seq(Int), phase' # "loop"
  PROVE  EInv'
BY DEF EInv, Supplied

\* An operator and its operand: one more expression on the stack, or a call that waits.
LEMMA OperandRead ==
  ASSUME EInv, frames # << >>, NEW fr \in Stacks, NEW wait \in {"binary", "unary"},
         NEW unary \in Seq(Int),
         Len(fr.ops) <= Len(fr.exprs), ReadOperand(fr, wait, unary)
  PROVE  EInv'
<1>1. pos \in Nat /\ pos' = pos + 2 /\ pos' \in Nat /\ value' \in Seq(Int)
  BY DEF ReadOperand, EInv
<1>2. Len(fr.ops) \in Nat /\ Len(fr.exprs) \in Nat
  BY DEF Stacks
<1>3. CASE tokens[pos + 2] = "("
  <2> DEFINE new == [fr EXCEPT !.wait = wait, !.op = pos + 1]
  <2>1. new \in Stacks /\ new.ops = fr.ops /\ new.exprs = fr.exprs
    <3>1. pos + 1 \in Nat /\ wait \in {"none", "group", "binary", "unary"}
      BY <1>1
    <3>2. QED
      BY <3>1 DEF Stacks
  <2>2. frames' = Append(Front(frames), new) /\ phase' = "expression"
    BY <1>3 DEF ReadOperand
  <2> HIDE DEF new
  <2>3. QED
    BY <1>1, <2>1, <2>2, TopReplaced
<1>4. CASE tokens[pos + 2] # "("
  <2> DEFINE e == IF tokens[pos + 2] \in Operand THEN <<pos + 2>> ELSE <<0>>
             new == [fr EXCEPT !.exprs = Append(@, e \o unary)]
  <2>1. e \o unary \in Seq(Int)
    <3>1. e \in Seq(Int)
      BY <1>1
    <3> HIDE DEF e
    <3>2. QED
      BY <3>1
  <2>2. frames' = Append(Front(frames), new)
    BY <1>4 DEF ReadOperand
  <2> HIDE DEF e
  <2>3. Append(fr.exprs, e \o unary) \in Seq(Seq(Int))
        /\ Len(Append(fr.exprs, e \o unary)) = Len(fr.exprs) + 1
    BY <2>1 DEF Stacks
  <2>4. new \in Stacks /\ new.ops = fr.ops /\ Len(new.exprs) = Len(fr.exprs) + 1
    BY <2>3 DEF Stacks
  <2> HIDE DEF new
  <2>5. Len(new.exprs) > Len(new.ops)
    BY <1>2, <2>4
  <2>6. QED
    BY <1>1, <1>2, <2>2, <2>4, <2>5, TopReplaced
<1>5. QED
  BY <1>3, <1>4

\* Init: no call is under way.
LEMMA InitInv == Init => EInv
BY DEF Init, EInv, Supplied

\* The author changes neither stack.
LEMMA WriteInv ==
  ASSUME EInv, (\E t \in Token : Write(t)) \/ Start
  PROVE  EInv'
<1>1. UNCHANGED <<pos, frames, value>> /\ phase' # "loop"
  BY DEF Write, Start
<1>2. QED
  BY <1>1, StacksUntouched DEF EInv

\* parseBinaryOp(nullptr) has nothing on its stacks and an operand to read.
LEMMA BeginWithOperatorInv ==
  ASSUME EInv, BeginWithOperator
  PROVE  EInv'
<1> DEFINE fr == NewFrame(<< >>)
<1>1. fr \in Stacks /\ fr.ops = << >> /\ fr.exprs = << >>
  BY DEF NewFrame, Stacks
<1>2. frames' = Append(frames, fr) /\ Peek' \in UnaryToken \cup {"("}
  BY DEF BeginWithOperator, Peek
<1>3. pos' \in Nat /\ value' \in Seq(Int)
  BY DEF BeginWithOperator, EInv
<1> HIDE DEF fr
<1>4. QED
  BY <1>1, <1>2, <1>3, FramePushed

\* parseBinaryOp(node) has node.
LEMMA BeginWithOperandInv ==
  ASSUME EInv, BeginWithOperand
  PROVE  EInv'
<1> DEFINE leaf == <<pos + 1>>
           fr == NewFrame(<<leaf>>)
<1>1. leaf \in Seq(Int) /\ pos' \in Nat
  BY DEF EInv, BeginWithOperand
<1>2. value' \in Seq(Int)
  BY <1>1 DEF EInv, BeginWithOperand
<1>3. fr \in Stacks /\ Len(fr.ops) = 0 /\ Len(fr.exprs) = 1
  BY <1>1 DEF NewFrame, Stacks
<1>4. CASE frames' = Append(frames, fr)
  <2>1. Len(fr.exprs) > Len(fr.ops) /\ Len(fr.ops) <= Len(fr.exprs)
    BY <1>3
  <2> HIDE DEF fr, leaf
  <2>2. QED
    BY <1>1, <1>2, <1>3, <1>4, <2>1, FramePushed
<1>5. CASE frames' = frames /\ phase' = "return"
  BY <1>1, <1>2, <1>5, StacksUntouched
<1>6. QED
  BY <1>4, <1>5 DEF BeginWithOperand

\* A unary operator and its operand.
LEMMA ReadUnaryInv ==
  ASSUME EInv, ReadUnary
  PROVE  EInv'
<1>1. frames # << >>
  BY DEF ReadUnary, EInv, Supplied
<1>2. Top \in Stacks /\ Len(Top.ops) <= Len(Top.exprs)
  BY <1>1, TopType
<1>3. <<-(pos + 1)>> \in Seq(Int)
  BY DEF EInv
<1>4. QED
  BY <1>1, <1>2, <1>3, OperandRead DEF ReadUnary

\* tokenToOperator throws.
LEMMA ThrowInv ==
  ASSUME EInv, Throw
  PROVE  EInv'
BY StacksUntouched DEF Throw, EInv

\* The call waits for what is in the bracket.
LEMMA ReadGroupInv ==
  ASSUME EInv, ReadGroup
  PROVE  EInv'
<1> DEFINE fr == [Top EXCEPT !.wait = "group"]
<1>1. frames # << >>
  BY DEF ReadGroup, EInv, Supplied
<1>2. Top \in Stacks /\ Len(Top.ops) <= Len(Top.exprs)
  BY <1>1, TopType
<1>3. fr \in Stacks /\ fr.ops = Top.ops /\ fr.exprs = Top.exprs
  BY <1>2 DEF Stacks
<1>4. frames' = Append(Front(frames), fr) /\ phase' = "expression" /\ pos' \in Nat
      /\ value' \in Seq(Int)
  BY DEF ReadGroup, EInv
<1> HIDE DEF fr
<1>5. QED
  BY <1>1, <1>2, <1>3, <1>4, TopReplaced

\* The loop of parseBinaryOp, where it does not read an operand: one expression more
\* than operators.
LEMMA BinarySupplied ==
  ASSUME EInv, AtBinary
  PROVE  /\ frames # << >> /\ Top \in Stacks /\ Len(Top.exprs) > Len(Top.ops)
         /\ Len(Top.ops) \in Nat /\ Len(Top.exprs) \in Nat
<1>1. frames # << >> /\ Len(Top.exprs) > Len(Top.ops)
  BY DEF AtBinary, EInv, Supplied
<1>2. QED
  BY <1>1, TopType

\* What BinaryOpEXP leaves on the expression stack.
LEMMA CombineType ==
  ASSUME NEW exprs \in Seq(Seq(Int)), Len(exprs) >= 2, NEW op \in Int
  PROVE  Combine(exprs, op) \in Seq(Seq(Int)) /\ Len(Combine(exprs, op)) = Len(exprs) - 1
<1> DEFINE n == Len(exprs)
           e == exprs[n - 1] \o exprs[n]
           s == SubSeq(exprs, 1, n - 2)
<1>1. n \in Nat /\ n >= 2 /\ n - 1 \in 1 .. n /\ n \in 1 .. n
  BY LenProperties
<1>2. exprs[n - 1] \in Seq(Int) /\ exprs[n] \in Seq(Int)
  BY <1>1, ElementOfSeq
<1>3. Append(e, op) \in Seq(Int)
  BY <1>2
<1>4. s \in Seq(Seq(Int)) /\ Len(s) = n - 2
  <2> DEFINE m == n - 2
  <2>1. m \in Nat /\ \A i \in 1 .. m : exprs[i] \in Seq(Int)
    BY <1>1, ElementOfSeq
  <2> HIDE DEF m
  <2>2. /\ SubSeq(exprs, 1, m) \in Seq(Seq(Int))
        /\ Len(SubSeq(exprs, 1, m)) = IF 1 <= m THEN m - 1 + 1 ELSE 0
    BY <2>1, SubSeqProperties
  <2>3. Len(SubSeq(exprs, 1, m)) = m
    BY <2>1, <2>2
  <2>4. QED
    BY <2>2, <2>3 DEF m
<1>5. Combine(exprs, op) = Append(s, Append(e, op))
  BY DEF Combine
<1> HIDE DEF s, e
<1>6. Append(s, Append(e, op)) \in Seq(Seq(Int)) /\ Len(Append(s, Append(e, op))) = n - 2 + 1
  BY <1>3, <1>4, AppendProperties
<1>7. QED
  BY <1>1, <1>5, <1>6

\* One operator less, and one expression less.
LEMMA ReduceInv ==
  ASSUME EInv, Reduce
  PROVE  EInv'
<1> DEFINE ops == Front(Top.ops)
           exprs == Combine(Top.exprs, LastOf(Top.ops))
           fr == [Top EXCEPT !.ops = ops, !.exprs = exprs]
<1>1. /\ frames # << >> /\ Top \in Stacks /\ Len(Top.exprs) > Len(Top.ops)
      /\ Len(Top.ops) \in Nat /\ Len(Top.exprs) \in Nat
  BY BinarySupplied DEF Reduce
<1>2. Top.ops \in Seq(Nat) /\ Top.exprs \in Seq(Seq(Int)) /\ Top.ops # << >>
  BY <1>1 DEF Stacks, Reduce, Yields
<1>3. ops \in Seq(Nat) /\ Len(ops) = Len(Top.ops) - 1 /\ LastOf(Top.ops) \in Nat
      /\ Len(Top.ops) >= 1
  BY <1>2, FrontType
<1>4. exprs \in Seq(Seq(Int)) /\ Len(exprs) = Len(Top.exprs) - 1
  <2>1. Len(Top.exprs) >= 2 /\ LastOf(Top.ops) \in Int
    BY <1>1, <1>3
  <2>2. QED
    BY <1>2, <2>1, CombineType
<1>5. frames' = Append(Front(frames), fr) /\ pos' \in Nat /\ value' \in Seq(Int)
  BY DEF Reduce, EInv
<1> HIDE DEF ops, exprs
<1>6. fr \in Stacks /\ fr.ops = ops /\ fr.exprs = exprs
  BY <1>1, <1>3, <1>4 DEF Stacks
<1>7. Len(fr.exprs) > Len(fr.ops) /\ Len(fr.ops) <= Len(fr.exprs)
  BY <1>1, <1>3, <1>4, <1>6
<1> HIDE DEF fr
<1>8. QED
  BY <1>1, <1>5, <1>6, <1>7, TopReplaced

\* A binary operator, and its right operand or a call that waits for it.
LEMMA ReadBinaryInv ==
  ASSUME EInv, ReadBinary
  PROVE  EInv'
<1> DEFINE fr == [Top EXCEPT !.ops = Append(@, pos + 1)]
<1>1. /\ frames # << >> /\ Top \in Stacks /\ Len(Top.exprs) > Len(Top.ops)
      /\ Len(Top.ops) \in Nat /\ Len(Top.exprs) \in Nat
  BY BinarySupplied DEF ReadBinary
<1>2. Append(Top.ops, pos + 1) \in Seq(Nat) /\ Len(Append(Top.ops, pos + 1)) = Len(Top.ops) + 1
  BY <1>1 DEF Stacks, EInv
<1>3. fr \in Stacks /\ Len(fr.ops) = Len(Top.ops) + 1 /\ fr.exprs = Top.exprs
  BY <1>1, <1>2 DEF Stacks
<1>4. ReadOperand(fr, "binary", << >>)
  BY DEF ReadBinary
<1> HIDE DEF fr
<1>5. Len(fr.ops) <= Len(fr.exprs)
  BY <1>1, <1>3
<1>6. << >> \in Seq(Int)
  OBVIOUS
<1>7. QED
  BY <1>1, <1>3, <1>4, <1>5, <1>6, OperandRead

\* The innermost call returns.
LEMMA EndBinaryInv ==
  ASSUME EInv, EndBinary
  PROVE  EInv'
<1>1. /\ frames # << >> /\ Top \in Stacks /\ Len(Top.exprs) > Len(Top.ops)
      /\ Len(Top.ops) \in Nat /\ Len(Top.exprs) \in Nat
  BY BinarySupplied DEF EndBinary
<1>2. Top.exprs \in Seq(Seq(Int)) /\ Top.exprs # << >>
  BY <1>1 DEF Stacks
<1>3. value' \in Seq(Int)
  BY <1>2, FrontType DEF EndBinary
<1>4. /\ frames' \in Seq(Stacks) /\ Len(frames') = Len(frames) - 1
      /\ \A k \in 1 .. Len(frames) - 1 : frames'[k] = frames[k]
      /\ Len(frames) \in Nat
  BY <1>1, FrontType DEF EndBinary, EInv
<1>5. \A f \in 1 .. Len(frames') : Len(frames'[f].ops) <= Len(frames'[f].exprs)
  <2> TAKE f \in 1 .. Len(frames')
  <2>1. f \in 1 .. Len(frames) /\ frames'[f] = frames[f]
    BY <1>4
  <2>2. QED
    BY <2>1 DEF EInv, Supplied
<1>6. pos' \in Nat /\ phase' # "loop"
  BY DEF EndBinary, EInv
<1>7. QED
  BY <1>3, <1>4, <1>5, <1>6 DEF EInv, Supplied

\* The call that waited has what it waited for.
LEMMA EndBracketInv ==
  ASSUME EInv, EndBracket
  PROVE  EInv'
<1> DEFINE e == IF Top.wait = "unary" THEN Append(value, -Top.op) ELSE value
<1>1. frames # << >>
  BY DEF EndBracket
<1>2. Top \in Stacks /\ Len(Top.ops) <= Len(Top.exprs)
      /\ Len(Top.ops) \in Nat /\ Len(Top.exprs) \in Nat
  BY <1>1, TopType
<1>3. e \in Seq(Int)
  BY <1>2 DEF EInv, Stacks
<1>4. Resumed = [Top EXCEPT !.exprs = Append(@, e), !.wait = "none", !.op = 0]
  BY DEF Resumed
<1> HIDE DEF e
<1>5. Append(Top.exprs, e) \in Seq(Seq(Int)) /\ Len(Append(Top.exprs, e)) = Len(Top.exprs) + 1
  BY <1>2, <1>3 DEF Stacks
<1>6. Resumed \in Stacks /\ Resumed.ops = Top.ops /\ Len(Resumed.exprs) = Len(Top.exprs) + 1
  BY <1>2, <1>4, <1>5 DEF Stacks
<1>7. Len(Resumed.exprs) > Len(Resumed.ops) /\ Len(Resumed.ops) <= Len(Resumed.exprs)
  BY <1>2, <1>6
<1>8. frames' = Append(Front(frames), Resumed) /\ pos' \in Nat /\ value' \in Seq(Int)
  BY DEF EndBracket, EInv
<1>9. QED
  BY <1>1, <1>6, <1>7, <1>8, TopReplaced

\* The outermost call has returned.
LEMMA FinishInv ==
  ASSUME EInv, Finish
  PROVE  EInv'
BY StacksUntouched DEF Finish, EInv

\* Every step keeps the stacks supplied.
LEMMA NextInv ==
  ASSUME EInv, [Next]_vars
  PROVE  EInv'
<1>1. CASE UNCHANGED vars
  BY <1>1 DEF vars, EInv, Supplied, Peek, Top
<1>2. CASE (\E t \in Token : Write(t)) \/ Start
  BY <1>2, WriteInv
<1>3. CASE Parse
  BY <1>3, BeginWithOperatorInv, BeginWithOperandInv, ReadUnaryInv, ThrowInv,
     ReadGroupInv, ReduceInv, ReadBinaryInv, EndBinaryInv, EndBracketInv, FinishInv
     DEF Parse
<1>4. QED
  BY <1>1, <1>2, <1>3 DEF Next

\* Every state of the parser has its stacks supplied.
THEOREM Invariant == Spec => []EInv
BY InitInv, NextInv, PTL DEF Spec

\* OperandsSuffice: neither stack of parseBinaryOp is ever asked for an element that it
\* does not have, for expressions of any length.
THEOREM NeverUnderflows == Spec => []OperandsSuffice
<1>1. EInv => OperandsSuffice
  BY BinarySupplied DEF OperandsSuffice
<1>2. QED
  BY <1>1, Invariant, PTL

-----------------------------------------------------------------------------
(***************************************************************************)
(* The parser stays inside the expression.                                 *)
(***************************************************************************)

\* How many brackets are open after p tokens.
Openings(p) == {k \in 1 .. p : tokens[k] = "("}
Closings(p) == {k \in 1 .. p : tokens[k] = ")"}
Depth(p) == Cardinality(Openings(p)) - Cardinality(Closings(p))

\* An operator is followed by an operand or by what begins one, and what is parsed is
\* a whole expression.
Written ==
  /\ tokens \in Seq(Token) /\ Len(tokens) <= MaxToken
  /\ \A k \in 1 .. Len(tokens) - 1 : tokens[k] \notin Operand \cup {")"} => tokens[k + 1] # ")"
  /\ phase \in {"write", "expression", "loop", "return", "done", "failed"}
  /\ phase = "write" => pos = 0 /\ frames = << >>
  /\ phase # "write" => Brackets(tokens) = 0 /\ ~Expecting

\* Every call that waits for a nested expression has a bracket of its own that was read
\* and not closed: only the innermost call, in the loop, does not wait.
Bracketed ==
  /\ pos \in 0 .. Len(tokens)
  /\ phase \in {"expression", "return"} => Len(frames) <= Depth(pos)
  /\ phase = "loop" => Len(frames) - 1 <= Depth(pos)

PlacesOf(fr) ==
  \A k \in 1 .. Len(fr.ops) : fr.ops[k] \in At /\ tokens[fr.ops[k]] \in BinaryToken

Places == \A f \in 1 .. Len(frames) : PlacesOf(frames[f])

RInv == Written /\ Bracketed /\ Places

Sign(t) == IF t = "(" THEN 1 ELSE IF t = ")" THEN -1 ELSE 0

\* What a token does to the depth.
LEMMA DepthNext ==
  ASSUME NEW p \in Nat
  PROVE  /\ Depth(p) \in Int /\ Depth(p + 1) = Depth(p) + Sign(tokens[p + 1])
<1> DEFINE q == p + 1
<1>1. q \in Nat /\ q \notin 1 .. p /\ \A k : k \in 1 .. q <=> k \in 1 .. p \/ k = q OBVIOUS
<1>2. IsFiniteSet(1 .. p) BY FS_Interval
<1> HIDE DEF q
<1>3. IsFiniteSet(Openings(p)) /\ IsFiniteSet(Closings(p))
  <2>1. Openings(p) \subseteq 1 .. p /\ Closings(p) \subseteq 1 .. p BY DEF Openings, Closings
  <2> QED BY <1>2, <2>1, FS_Subset
<1>4. /\ q \notin Openings(p) /\ q \notin Closings(p) BY <1>1 DEF Openings, Closings
<1>5. /\ Openings(q) = IF tokens[q] = "(" THEN Openings(p) \cup {q} ELSE Openings(p)
      /\ Closings(q) = IF tokens[q] = ")" THEN Closings(p) \cup {q} ELSE Closings(p)
  BY <1>1 DEF Openings, Closings
<1>6. /\ Cardinality(Openings(p) \cup {q}) = Cardinality(Openings(p)) + 1
      /\ Cardinality(Closings(p) \cup {q}) = Cardinality(Closings(p)) + 1
  BY <1>3, <1>4, FS_AddElement
<1>7. Cardinality(Openings(p)) \in Nat /\ Cardinality(Closings(p)) \in Nat
  BY <1>3, FS_CardinalityType
<1>8. Depth(p) \in Int /\ Depth(q) = Depth(p) + Sign(tokens[q])
  BY <1>5, <1>6, <1>7 DEF Depth, Sign
<1> QED BY <1>8 DEF q

LEMMA DepthStep ==
  ASSUME NEW p \in Nat
  PROVE  /\ Depth(p) \in Int /\ Depth(p + 1) \in Int
         /\ Depth(p + 1) >= Depth(p) - 1
         /\ tokens[p + 1] # ")" => Depth(p + 1) >= Depth(p)
         /\ tokens[p + 1] = "(" => Depth(p + 1) >= Depth(p) + 1
<1>1. Depth(p) \in Int /\ Depth(p + 1) = Depth(p) + Sign(tokens[p + 1]) BY DepthNext
<1> QED BY <1>1 DEF Sign

LEMMA DepthEnds ==
  /\ Depth(0) = 0 /\ Depth(Len(tokens)) = Brackets(tokens)
<1>1. Openings(0) = {} /\ Closings(0) = {} BY DEF Openings, Closings
<1>2. Depth(0) = 0 BY <1>1, FS_EmptySet DEF Depth
<1>3. Depth(Len(tokens)) = Brackets(tokens) BY DEF Depth, Brackets, Openings, Closings
<1> QED BY <1>2, <1>3

\* The tokens that an action reads are there.
LEMMA PeekIsThere ==
  ASSUME RInv, Peek # "stop"
  PROVE  pos + 1 \in At /\ pos \in Nat /\ Peek = tokens[pos + 1]
BY DEF Peek, At, RInv, Bracketed, Written

\* A whole expression does not end with an operator.
LEMMA OperatorIsNotLast ==
  ASSUME RInv, phase # "write", Peek \in BinaryToken \cup UnaryToken
  PROVE  /\ pos \in Nat /\ pos + 1 \in At /\ pos + 2 \in 0 .. Len(tokens)
         /\ tokens[pos + 1] # ")" /\ tokens[pos + 2] # ")"
<1>1. Peek # "stop" /\ Peek # ")" /\ Peek \notin Operand \cup {")"}
  BY DEF BinaryToken, UnaryToken, Operand
<1>2. pos + 1 \in At /\ pos \in Nat /\ Peek = tokens[pos + 1] BY <1>1, PeekIsThere
<1>3. tokens \in Seq(Token) /\ Len(tokens) \in Nat BY DEF RInv, Written
<1>4. pos + 1 # Len(tokens)
  <2>1. tokens[Len(tokens)] \in Operand \cup {")"}
    BY DEF RInv, Written, Expecting, LastOf
  <2> QED BY <1>1, <1>2, <2>1
<1>5. pos + 1 \in 1 .. Len(tokens) - 1 BY <1>2, <1>3, <1>4 DEF At
<1>6. tokens[pos + 1 + 1] # ")" BY <1>1, <1>2, <1>5 DEF RInv, Written
<1>7. pos + 1 + 1 = pos + 2 BY <1>2
<1> QED BY <1>1, <1>2, <1>3, <1>5, <1>6, <1>7

\* The innermost call goes on as fr.
LEMMA TopPlaced ==
  ASSUME EInv, Places, frames # << >>, NEW fr \in Stacks, PlacesOf(fr),
         frames' = Append(Front(frames), fr), tokens' = tokens
  PROVE  Places' /\ Len(frames') = Len(frames)
<1>1. frames \in Seq(Stacks) BY DEF EInv
<1>2. /\ frames' \in Seq(Stacks) /\ Len(frames') = Len(frames) /\ frames' # << >>
      /\ frames'[Len(frames')] = fr
      /\ \A k \in 1 .. Len(frames') - 1 : frames'[k] = frames[k]
  BY <1>1, ReplaceLast
<1>3. \A f \in 1 .. Len(frames') : PlacesOf(frames'[f])
  <2> TAKE f \in 1 .. Len(frames')
  <2>1. f = Len(frames') \/ f \in 1 .. Len(frames') - 1 BY <1>1, <1>2
  <2> QED BY <1>2, <2>1 DEF Places
<1> QED BY <1>2, <1>3 DEF Places, PlacesOf, At

\* A call begins.
LEMMA PushedPlaced ==
  ASSUME EInv, Places, NEW fr \in Stacks, fr.ops = << >>,
         frames' = Append(frames, fr), tokens' = tokens
  PROVE  Places' /\ Len(frames') = Len(frames) + 1
<1>1. frames \in Seq(Stacks) BY DEF EInv
<1>2. /\ Len(frames') = Len(frames) + 1 /\ frames'[Len(frames')] = fr
      /\ \A k \in 1 .. Len(frames) : frames'[k] = frames[k]
  BY <1>1
<1>3. PlacesOf(fr) BY DEF PlacesOf
<1>4. \A f \in 1 .. Len(frames') : PlacesOf(frames'[f])
  <2> TAKE f \in 1 .. Len(frames')
  <2>1. f = Len(frames') \/ f \in 1 .. Len(frames) BY <1>1, <1>2
  <2> QED BY <1>2, <1>3, <2>1 DEF Places
<1> QED BY <1>2, <1>4 DEF Places, PlacesOf, At

\* The parser writes no token.
LEMMA WrittenStays ==
  ASSUME RInv, phase # "write", tokens' = tokens,
         phase' \in {"expression", "loop", "return", "done", "failed"}
  PROVE  Written' /\ Len(tokens) \in Nat /\ pos \in Nat
BY DEF RInv, Written, Bracketed, Brackets, Expecting, LastOf

\* An operator and what follows it.
LEMMA OperandPlaced ==
  ASSUME EInv, RInv, phase = "loop", Peek \in BinaryToken \cup UnaryToken,
         NEW fr \in Stacks, PlacesOf(fr), NEW wait \in {"binary", "unary"},
         NEW unary \in Seq(Int), ReadOperand(fr, wait, unary)
  PROVE  RInv'
<1>1. /\ pos \in Nat /\ pos + 1 \in At /\ pos + 2 \in 0 .. Len(tokens)
      /\ tokens[pos + 1] # ")" /\ tokens[pos + 2] # ")"
  BY OperatorIsNotLast
<1>2. frames # << >> BY DEF EInv, Supplied
<1>3. /\ tokens' = tokens /\ pos' = pos + 2 /\ value' = value
      /\ phase' = IF tokens[pos + 2] = "(" THEN "expression" ELSE "loop"
  BY DEF ReadOperand
<1>4. Written' BY <1>3, WrittenStays
<1>5. PICK new \in Stacks : new.ops = fr.ops /\ frames' = Append(Front(frames), new)
  <2>1. CASE tokens[pos + 2] = "("
    <3> DEFINE new == [fr EXCEPT !.wait = wait, !.op = pos + 1]
    <3>1. pos + 1 \in Nat BY <1>1
    <3>2. new \in Stacks /\ new.ops = fr.ops BY <3>1 DEF Stacks
    <3>3. frames' = Append(Front(frames), new) BY <2>1 DEF ReadOperand
    <3> QED BY <3>2, <3>3
  <2>2. CASE tokens[pos + 2] # "("
    <3> DEFINE e == IF tokens[pos + 2] \in Operand THEN <<pos + 2>> ELSE <<0>>
               new == [fr EXCEPT !.exprs = Append(@, e \o unary)]
    <3>1. e \in Seq(Int) BY <1>1
    <3>2. frames' = Append(Front(frames), new) BY <2>2 DEF ReadOperand
    <3> HIDE DEF e
    <3>3. e \o unary \in Seq(Int) BY <3>1
    <3>4. Append(fr.exprs, e \o unary) \in Seq(Seq(Int)) BY <3>3 DEF Stacks
    <3>5. new \in Stacks /\ new.ops = fr.ops BY <3>4 DEF Stacks
    <3> QED BY <3>2, <3>5
  <2> QED BY <2>1, <2>2
<1>6. PlacesOf(new) BY <1>5 DEF PlacesOf
<1>7. Places' /\ Len(frames') = Len(frames)
  BY <1>2, <1>3, <1>5, <1>6, TopPlaced DEF RInv
<1>8. /\ Depth(pos) \in Int /\ Depth(pos + 1) >= Depth(pos)
      /\ Depth(pos + 1) \in Int
  BY <1>1, DepthStep
<1>9. /\ Depth(pos + 2) \in Int /\ Depth(pos + 2) >= Depth(pos + 1)
      /\ tokens[pos + 2] = "(" => Depth(pos + 2) >= Depth(pos + 1) + 1
  <2>1. PICK p \in Nat : p = pos + 1 BY <1>1
  <2>2. p + 1 = pos + 2 BY <1>1, <2>1
  <2> QED BY <1>1, <2>1, <2>2, DepthStep
<1>10. Len(frames) - 1 <= Depth(pos) /\ Len(frames) \in Nat BY DEF RInv, Bracketed, EInv
<1>11. Depth(pos)' = Depth(pos + 2)
  BY <1>3 DEF Depth, Openings, Closings
<1>12. Bracketed'
  <2>1. CASE tokens[pos + 2] = "("
    <3>1. Len(frames) <= Depth(pos + 2) BY <1>8, <1>9, <1>10, <2>1
    <3> QED BY <1>1, <1>3, <1>7, <1>11, <2>1, <3>1 DEF Bracketed
  <2>2. CASE tokens[pos + 2] # "("
    <3>1. Len(frames) - 1 <= Depth(pos + 2) BY <1>8, <1>9, <1>10
    <3> QED BY <1>1, <1>3, <1>7, <1>11, <2>2, <3>1 DEF Bracketed
  <2> QED BY <2>1, <2>2
<1> QED BY <1>4, <1>7, <1>12 DEF RInv

\* What the author writes.
LEMMA WritePlaces ==
  ASSUME RInv, NEW t \in Token, Write(t)
  PROVE  RInv'
<1>1. /\ tokens \in Seq(Token) /\ Len(tokens) \in Nat /\ Len(tokens) < MaxToken
      /\ tokens' = Append(tokens, t) /\ pos' = pos /\ frames' = frames /\ phase' = phase
      /\ phase = "write" /\ pos = 0 /\ frames = << >>
  BY DEF RInv, Written, Write
<1>2. /\ tokens' \in Seq(Token) /\ Len(tokens') = Len(tokens) + 1
      /\ tokens'[Len(tokens) + 1] = t
      /\ \A k \in 1 .. Len(tokens) : tokens'[k] = tokens[k]
  BY <1>1
<1>3. ASSUME NEW k \in 1 .. Len(tokens') - 1, tokens'[k] \notin Operand \cup {")"}
      PROVE  tokens'[k + 1] # ")"
  <2>1. CASE k = Len(tokens)
    <3>1. Expecting BY <1>1, <1>2, <1>3, <2>1 DEF Expecting, LastOf
    <3>2. t # ")" BY <3>1 DEF Write, Operand
    <3> QED BY <1>2, <2>1, <3>2
  <2>2. CASE k # Len(tokens)
    <3>1. k \in 1 .. Len(tokens) - 1 /\ k \in 1 .. Len(tokens) /\ k + 1 \in 1 .. Len(tokens)
      BY <1>1, <1>2, <2>2
    <3>2. tokens[k + 1] # ")" BY <1>2, <1>3, <3>1 DEF RInv, Written
    <3> QED BY <1>2, <3>1, <3>2
  <2> QED BY <2>1, <2>2
<1>4. MaxToken \in Nat BY ExprAssumption
<1>5. Written' BY <1>1, <1>2, <1>3, <1>4 DEF Written
<1>6. Bracketed' BY <1>1, <1>2 DEF Bracketed
<1>7. Places' BY <1>1 DEF Places
<1> QED BY <1>5, <1>6, <1>7 DEF RInv

\* The end, of the expression or of the program.
LEMMA NothingRead ==
  ASSUME RInv, UNCHANGED <<tokens, pos, frames>>, Written',
         phase' \in {"done", "failed"}
  PROVE  RInv'
<1>1. Places' BY DEF RInv, Places, PlacesOf, At
<1>2. pos' \in 0 .. Len(tokens') BY DEF RInv, Bracketed
<1> QED BY <1>1, <1>2 DEF RInv, Bracketed

LEMMA StartPlaces ==
  ASSUME RInv, Start
  PROVE  RInv'
<1>1. UNCHANGED <<tokens, pos, frames>> /\ phase' = "expression" /\ phase = "write"
      /\ pos = 0 /\ frames = << >> /\ ~Expecting /\ Brackets(tokens) = 0
  BY DEF Start, RInv, Written
<1>2. Written' BY <1>1 DEF RInv, Written, Brackets, Expecting, LastOf
<1>3. Places' BY <1>1 DEF Places
<1>4. Depth(pos)' = 0 BY <1>1, DepthEnds DEF Depth, Openings, Closings
<1>5. Bracketed' BY <1>1, <1>4 DEF RInv, Bracketed
<1> QED BY <1>2, <1>3, <1>5 DEF RInv

LEMMA BeginWithOperatorPlaces ==
  ASSUME EInv, RInv, BeginWithOperator
  PROVE  RInv'
<1> DEFINE fr == NewFrame(<< >>)
<1>1. fr \in Stacks /\ fr.ops = << >> BY DEF NewFrame, Stacks
<1>2. /\ phase = "expression" /\ UNCHANGED <<tokens, pos>> /\ frames' = Append(frames, fr)
      /\ phase' = "loop"
  BY DEF BeginWithOperator
<1> HIDE DEF fr
<1>3. Places' /\ Len(frames') = Len(frames) + 1 BY <1>1, <1>2, PushedPlaced DEF RInv
<1>4. Written' BY <1>2, WrittenStays
<1>5. Depth(pos)' = Depth(pos) BY <1>2 DEF Depth, Openings, Closings
<1>6. Len(frames) \in Nat BY DEF EInv
<1>7. Bracketed' BY <1>2, <1>3, <1>5, <1>6 DEF RInv, Bracketed
<1> QED BY <1>3, <1>4, <1>7 DEF RInv

LEMMA BeginWithOperandPlaces ==
  ASSUME EInv, RInv, BeginWithOperand
  PROVE  RInv'
<1> DEFINE fr == NewFrame(<< <<pos + 1>> >>)
<1>1. Peek \in Operand /\ phase = "expression" /\ tokens' = tokens /\ pos' = pos + 1
      /\ \/ frames' = Append(frames, fr) /\ phase' = "loop"
         \/ frames' = frames /\ phase' = "return"
  BY DEF BeginWithOperand
<1>2. Peek # "stop" BY <1>1 DEF Operand
<1>3. pos + 1 \in At /\ pos \in Nat /\ tokens[pos + 1] # ")"
  BY <1>1, <1>2, PeekIsThere DEF Operand
<1>4. fr \in Stacks /\ fr.ops = << >>
  <2>1. <<pos + 1>> \in Seq(Int) BY <1>3
  <2> QED BY <2>1 DEF NewFrame, Stacks
<1> HIDE DEF fr
<1>5. Depth(pos) \in Int /\ Depth(pos + 1) \in Int /\ Depth(pos + 1) >= Depth(pos)
  BY <1>3, DepthStep
<1>6. Depth(pos)' = Depth(pos + 1) BY <1>1 DEF Depth, Openings, Closings
<1>7. Len(frames) \in Nat /\ Len(frames) <= Depth(pos) BY <1>1 DEF EInv, RInv, Bracketed
<1>8. Written' BY <1>1, WrittenStays
<1>9. pos + 1 \in 0 .. Len(tokens) BY <1>3 DEF At
<1>10. CASE frames' = Append(frames, fr) /\ phase' = "loop"
  <2>1. Places' /\ Len(frames') = Len(frames) + 1 BY <1>1, <1>4, <1>10, PushedPlaced DEF RInv
  <2>2. Bracketed' BY <1>1, <1>5, <1>6, <1>7, <1>9, <1>10, <2>1 DEF Bracketed
  <2> QED BY <1>8, <2>1, <2>2 DEF RInv
<1>11. CASE frames' = frames /\ phase' = "return"
  <2>1. Places' BY <1>1, <1>11 DEF RInv, Places, PlacesOf, At
  <2>2. Bracketed' BY <1>1, <1>5, <1>6, <1>7, <1>9, <1>11 DEF Bracketed
  <2> QED BY <1>8, <2>1, <2>2 DEF RInv
<1> QED BY <1>1, <1>10, <1>11

LEMMA ReadUnaryPlaces ==
  ASSUME EInv, RInv, ReadUnary
  PROVE  RInv'
<1>1. phase = "loop" /\ Peek \in BinaryToken \cup UnaryToken
      /\ ReadOperand(Top, "unary", <<-(pos + 1)>>)
  BY DEF ReadUnary
<1>2. frames # << >> BY <1>1 DEF EInv, Supplied
<1>3. Top \in Stacks BY <1>2, TopType
<1>4. PlacesOf(Top)
  <2>1. Len(frames) \in 1 .. Len(frames) BY <1>2 DEF EInv
  <2> QED BY <2>1 DEF RInv, Places, Top
<1>5. <<-(pos + 1)>> \in Seq(Int) BY DEF EInv
<1> QED BY <1>1, <1>3, <1>4, <1>5, OperandPlaced

LEMMA ReadGroupPlaces ==
  ASSUME EInv, RInv, ReadGroup
  PROVE  RInv'
<1> DEFINE fr == [Top EXCEPT !.wait = "group"]
<1>1. phase = "loop" /\ Peek = "(" /\ tokens' = tokens /\ pos' = pos + 1
      /\ frames' = Append(Front(frames), fr) /\ phase' = "expression"
  BY DEF ReadGroup
<1>2. frames # << >> BY <1>1 DEF EInv, Supplied
<1>3. Top \in Stacks BY <1>2, TopType
<1>4. PlacesOf(Top)
  <2>1. Len(frames) \in 1 .. Len(frames) BY <1>2 DEF EInv
  <2> QED BY <2>1 DEF RInv, Places, Top
<1>5. fr \in Stacks /\ fr.ops = Top.ops BY <1>3 DEF Stacks
<1> HIDE DEF fr
<1>6. PlacesOf(fr) BY <1>4, <1>5 DEF PlacesOf
<1>7. Places' /\ Len(frames') = Len(frames) BY <1>1, <1>2, <1>5, <1>6, TopPlaced DEF RInv
<1>8. pos + 1 \in At /\ pos \in Nat /\ tokens[pos + 1] = "(" BY <1>1, PeekIsThere
<1>9. Depth(pos) \in Int /\ Depth(pos + 1) \in Int /\ Depth(pos + 1) >= Depth(pos) + 1
  BY <1>8, DepthStep
<1>10. Depth(pos)' = Depth(pos + 1) BY <1>1 DEF Depth, Openings, Closings
<1>11. Len(frames) \in Nat /\ Len(frames) - 1 <= Depth(pos) BY <1>1 DEF EInv, RInv, Bracketed
<1>12. pos + 1 \in 0 .. Len(tokens) BY <1>8 DEF At
<1>13. Bracketed' BY <1>1, <1>7, <1>9, <1>10, <1>11, <1>12 DEF Bracketed
<1>14. Written' BY <1>1, WrittenStays
<1> QED BY <1>7, <1>13, <1>14 DEF RInv

LEMMA ReducePlaces ==
  ASSUME EInv, RInv, Reduce
  PROVE  RInv'
<1> DEFINE ops == Front(Top.ops)
           exprs == Combine(Top.exprs, LastOf(Top.ops))
           fr == [Top EXCEPT !.ops = ops, !.exprs = exprs]
<1>1. /\ frames # << >> /\ Top \in Stacks /\ Len(Top.exprs) > Len(Top.ops)
      /\ Len(Top.ops) \in Nat /\ Len(Top.exprs) \in Nat
  BY BinarySupplied DEF Reduce
<1>2. Top.ops \in Seq(Nat) /\ Top.exprs \in Seq(Seq(Int)) /\ Top.ops # << >>
  BY <1>1 DEF Stacks, Reduce, Yields
<1>3. ops \in Seq(Nat) /\ Len(ops) = Len(Top.ops) - 1 /\ LastOf(Top.ops) \in Nat
      /\ Len(Top.ops) >= 1 /\ \A k \in 1 .. Len(Top.ops) - 1 : ops[k] = Top.ops[k]
  BY <1>2, FrontType
<1>4. exprs \in Seq(Seq(Int))
  <2>1. Len(Top.exprs) >= 2 /\ LastOf(Top.ops) \in Int BY <1>1, <1>3
  <2> QED BY <1>2, <2>1, CombineType
<1>5. frames' = Append(Front(frames), fr) /\ phase = "loop" /\ UNCHANGED <<tokens, pos, phase>>
  BY DEF Reduce, AtBinary
<1> HIDE DEF ops, exprs
<1>6. fr \in Stacks /\ fr.ops = ops BY <1>1, <1>3, <1>4 DEF Stacks
<1>7. PlacesOf(Top)
  <2>1. Len(frames) \in 1 .. Len(frames) BY <1>1 DEF EInv
  <2> QED BY <2>1 DEF RInv, Places, Top
<1> HIDE DEF fr
<1>8. PlacesOf(fr)
  <2>1. \A k \in 1 .. Len(ops) : k \in 1 .. Len(Top.ops) /\ ops[k] = Top.ops[k] BY <1>1, <1>3
  <2> QED BY <1>6, <1>7, <2>1 DEF PlacesOf
<1>9. Places' /\ Len(frames') = Len(frames) BY <1>1, <1>5, <1>6, <1>8, TopPlaced DEF RInv
<1>10. Depth(pos)' = Depth(pos) BY <1>5 DEF Depth, Openings, Closings
<1>11. Bracketed' BY <1>5, <1>9, <1>10 DEF RInv, Bracketed
<1>12. Written' BY <1>5, WrittenStays
<1> QED BY <1>9, <1>11, <1>12 DEF RInv

LEMMA ReadBinaryPlaces ==
  ASSUME EInv, RInv, ReadBinary
  PROVE  RInv'
<1> DEFINE fr == [Top EXCEPT !.ops = Append(@, pos + 1)]
<1>1. /\ frames # << >> /\ Top \in Stacks /\ Len(Top.ops) \in Nat
      /\ phase = "loop" /\ Peek \in BinaryToken
  BY BinarySupplied DEF ReadBinary, AtBinary
<1>2. Peek # "stop" BY <1>1 DEF BinaryToken
<1>3. pos + 1 \in At /\ tokens[pos + 1] \in BinaryToken BY <1>1, <1>2, PeekIsThere
<1>4. PICK ops : ops = Append(Top.ops, pos + 1) OBVIOUS
<1>5. /\ ops \in Seq(Nat) /\ Len(ops) = Len(Top.ops) + 1 /\ ops[Len(Top.ops) + 1] = pos + 1
      /\ \A k \in 1 .. Len(Top.ops) : ops[k] = Top.ops[k]
  BY <1>1, <1>4 DEF Stacks, EInv
<1>6. fr \in Stacks /\ fr.ops = ops BY <1>1, <1>4, <1>5 DEF Stacks
<1>7. ReadOperand(fr, "binary", << >>) BY DEF ReadBinary
<1>8. PlacesOf(Top)
  <2>1. Len(frames) \in 1 .. Len(frames) BY <1>1 DEF EInv
  <2> QED BY <2>1 DEF RInv, Places, Top
<1> HIDE DEF fr
<1>9. PlacesOf(fr)
  <2> SUFFICES ASSUME NEW k \in 1 .. Len(ops) PROVE ops[k] \in At /\ tokens[ops[k]] \in BinaryToken
    BY <1>6 DEF PlacesOf
  <2>1. k = Len(Top.ops) + 1 \/ k \in 1 .. Len(Top.ops) BY <1>1, <1>5
  <2> QED BY <1>3, <1>5, <1>8, <2>1 DEF PlacesOf
<1>10. << >> \in Seq(Int) OBVIOUS
<1> QED BY <1>1, <1>6, <1>7, <1>9, <1>10, OperandPlaced

LEMMA EndBinaryPlaces ==
  ASSUME EInv, RInv, EndBinary
  PROVE  RInv'
<1>1. /\ frames # << >> /\ phase = "loop" /\ UNCHANGED <<tokens, pos>>
      /\ frames' = Front(frames) /\ phase' = "return"
  BY BinarySupplied DEF EndBinary, AtBinary
<1>2. /\ Len(frames') = Len(frames) - 1 /\ Len(frames) \in Nat
      /\ \A k \in 1 .. Len(frames) - 1 : frames'[k] = frames[k]
  BY <1>1, FrontType DEF EInv
<1>3. \A f \in 1 .. Len(frames') : PlacesOf(frames'[f])
  <2> TAKE f \in 1 .. Len(frames')
  <2>1. f \in 1 .. Len(frames) /\ frames'[f] = frames[f] BY <1>2
  <2> QED BY <2>1 DEF RInv, Places
<1>4. Places' BY <1>1, <1>3 DEF Places, PlacesOf, At
<1>5. Depth(pos)' = Depth(pos) BY <1>1 DEF Depth, Openings, Closings
<1>6. Bracketed' BY <1>1, <1>2, <1>5 DEF RInv, Bracketed
<1>7. Written' BY <1>1, WrittenStays
<1> QED BY <1>4, <1>6, <1>7 DEF RInv

\* A call that waits has an open bracket, so the expression goes on.
LEMMA EndBracketPlaces ==
  ASSUME EInv, RInv, EndBracket
  PROVE  RInv'
<1>1. /\ frames # << >> /\ phase = "return" /\ tokens' = tokens
      /\ pos' = pos \/ pos' = pos + 1
      /\ frames' = Append(Front(frames), Resumed) /\ phase' = "loop"
  BY DEF EndBracket
<1>2. Len(frames) \in Nat /\ Len(frames) >= 1 /\ Len(frames) <= Depth(pos)
      /\ pos \in Nat /\ pos <= Len(tokens) /\ Len(tokens) \in Nat
  BY <1>1 DEF EInv, RInv, Bracketed, Written
<1>3. pos # Len(tokens)
  <2>1. Depth(Len(tokens)) = 0 BY <1>1, DepthEnds DEF RInv, Written
  <2> QED BY <1>2, <2>1
<1>4. pos + 1 \in 0 .. Len(tokens) /\ pos \in 0 .. Len(tokens) BY <1>2, <1>3
<1>5. Depth(pos) \in Int /\ Depth(pos + 1) \in Int /\ Depth(pos + 1) >= Depth(pos) - 1
  BY <1>2, DepthStep
<1>6. Top \in Stacks BY <1>1, TopType
<1>7. PlacesOf(Top)
  <2>1. Len(frames) \in 1 .. Len(frames) BY <1>2
  <2> QED BY <2>1 DEF RInv, Places, Top
<1>8. Resumed \in Stacks /\ Resumed.ops = Top.ops
  <2> DEFINE e == IF Top.wait = "unary" THEN Append(value, -Top.op) ELSE value
  <2>1. e \in Seq(Int) BY <1>6 DEF EInv, Stacks
  <2>2. Resumed = [Top EXCEPT !.exprs = Append(@, e), !.wait = "none", !.op = 0] BY DEF Resumed
  <2> HIDE DEF e
  <2>3. Append(Top.exprs, e) \in Seq(Seq(Int)) BY <1>6, <2>1 DEF Stacks
  <2> QED BY <1>6, <2>2, <2>3 DEF Stacks
<1>9. PlacesOf(Resumed) BY <1>7, <1>8 DEF PlacesOf
<1>10. Places' /\ Len(frames') = Len(frames) BY <1>1, <1>8, <1>9, TopPlaced DEF RInv
<1>11. Written' BY <1>1, WrittenStays
<1>12. CASE pos' = pos
  <2>1. Depth(pos)' = Depth(pos) BY <1>1, <1>12 DEF Depth, Openings, Closings
  <2>2. Bracketed' BY <1>1, <1>2, <1>4, <1>5, <1>10, <1>12, <2>1 DEF Bracketed
  <2> QED BY <1>10, <1>11, <2>2 DEF RInv
<1>13. CASE pos' = pos + 1
  <2>1. Depth(pos)' = Depth(pos + 1) BY <1>1, <1>13 DEF Depth, Openings, Closings
  <2>2. Bracketed' BY <1>1, <1>2, <1>4, <1>5, <1>10, <1>13, <2>1 DEF Bracketed
  <2> QED BY <1>10, <1>11, <2>2 DEF RInv
<1> QED BY <1>1, <1>12, <1>13

\* Each step of the author and of the parser.
LEMMA NextPlaces ==
  ASSUME EInv, RInv, [Next]_vars
  PROVE  RInv'
<1>1. CASE UNCHANGED vars
  BY <1>1 DEF vars, RInv, Written, Bracketed, Places, PlacesOf, Brackets, Expecting, LastOf, At,
              Depth, Openings, Closings
<1>2. CASE Throw \/ Finish
  <2>1. /\ phase \in {"loop", "return"} /\ phase' \in {"failed", "done"}
        /\ UNCHANGED <<tokens, pos, frames>>
    BY <1>2 DEF Throw, Finish
  <2>2. Written' BY <2>1, WrittenStays
  <2> QED BY <2>1, <2>2, NothingRead
<1>3. CASE \E t \in Token : Write(t) BY <1>3, WritePlaces
<1>4. CASE Start BY <1>4, StartPlaces
<1> QED
  BY <1>1, <1>2, <1>3, <1>4, BeginWithOperatorPlaces, BeginWithOperandPlaces, ReadUnaryPlaces,
     ReadGroupPlaces, ReducePlaces, ReadBinaryPlaces, EndBinaryPlaces, EndBracketPlaces
     DEF Next, Parse

\* TypeOK: for an expression of any length and nesting the parser reads no token that
\* the expression does not have, whatever it takes the tokens for, and every operator on
\* its stacks is a binary one of the expression.
THEOREM TypeCorrect == Spec => []TypeOK
<1>1. Init => EInv /\ RInv
  <2> SUFFICES ASSUME Init PROVE RInv BY InitInv
  <2>1. tokens = << >> /\ pos = 0 /\ frames = << >> /\ phase = "write" BY DEF Init
  <2>2. MaxToken \in Nat BY ExprAssumption
  <2> QED BY <2>1, <2>2 DEF RInv, Written, Bracketed, Places
<1>2. EInv /\ RInv /\ [Next]_vars => EInv' /\ RInv'
  BY NextPlaces, NextInv
<1>3. EInv /\ RInv => TypeOK
  BY DEF EInv, RInv, Written, Bracketed, Places, PlacesOf, TypeOK, FrameType, Stacks
<1> QED BY <1>1, <1>2, <1>3, PTL DEF Spec

-----------------------------------------------------------------------------
(***************************************************************************)
(* Brackets.                                                               *)
(***************************************************************************)

\* What is said of all natural numbers is false of a least one, if of any.
LEMMA LeastNatural ==
  ASSUME NEW S \in SUBSET Nat, S # {}
  PROVE  \E n \in S : \A m \in S : n <= m
<1>1. PICK R : R = OpToRel(<, Nat) OBVIOUS
<1>2. IsWellFoundedOn(R, Nat) BY <1>1, NatLessThanWellFounded
<1>3. PICK n \in S : \A m \in S : ~(<<m, n>> \in R) BY <1>2, WFMin
<1>4. \A m, k \in Nat : m < k => <<m, k>> \in R BY <1>1 DEF OpToRel
<1>5. \A m \in S : ~(m < n) BY ONLY <1>3, <1>4, S \subseteq Nat, Zenon
<1>6. \A m \in S : n <= m BY ONLY <1>5, S \subseteq Nat, n \in S
<1> QED BY <1>6

\* Counting up from zero reaches every number.
LEMMA Counting ==
  ASSUME NEW K, 0 \in K, \A n \in Nat : n \in K => n + 1 \in K
  PROVE  \A n \in Nat : n \in K
<1>1. PICK B : B = {n \in Nat : n \notin K} OBVIOUS
<1>2. B = {}
  <2> SUFFICES ASSUME B # {} PROVE FALSE OBVIOUS
  <2>1. PICK n \in B : \A j \in B : n <= j BY <1>1, LeastNatural
  <2>2. n \in Nat /\ n # 0 BY <1>1, <2>1
  <2>3. PICK i : i = n - 1 OBVIOUS
  <2>4. i \in Nat /\ n = i + 1 /\ ~(n <= i) BY <2>2, <2>3
  <2>5. i \in K BY <1>1, <2>1, <2>4
  <2> QED BY <1>1, <2>4, <2>5
<1> QED BY <1>1, <1>2

\* One more token, of any sequence.
LEMMA BracketsAppend ==
  ASSUME NEW S, NEW s \in Seq(S), NEW t \in S
  PROVE  /\ Brackets(s) \in Int
         /\ Brackets(Append(s, t)) = Brackets(s) + Sign(t)
<1> DEFINE In(r, c) == {k \in 1 .. Len(r) : r[k] = c}
<1>1. PICK n : n = Len(s) OBVIOUS
<1>2. PICK r : r = Append(s, t) OBVIOUS
<1>3. /\ n \in Nat /\ Len(r) = n + 1 /\ r[n + 1] = t /\ \A k \in 1 .. n : r[k] = s[k]
      /\ \A k : k \in 1 .. n + 1 <=> k \in 1 .. n \/ k = n + 1
      /\ n + 1 \notin 1 .. n
  BY <1>1, <1>2
<1>4. ASSUME NEW c
      PROVE  /\ Cardinality(In(s, c)) \in Nat
             /\ Cardinality(In(r, c)) = Cardinality(In(s, c)) + (IF t = c THEN 1 ELSE 0)
  <2>1. IsFiniteSet(In(s, c))
    <3>1. IsFiniteSet(1 .. n) BY <1>3, FS_Interval
    <3>2. In(s, c) \subseteq 1 .. n BY <1>1
    <3> QED BY <3>1, <3>2, FS_Subset
  <2>2. n + 1 \notin In(s, c) BY <1>1, <1>3
  <2>3. In(r, c) = IF t = c THEN In(s, c) \cup {n + 1} ELSE In(s, c) BY <1>1, <1>3
  <2> HIDE DEF In
  <2>4. Cardinality(In(s, c) \cup {n + 1}) = Cardinality(In(s, c)) + 1
    BY <2>1, <2>2, FS_AddElement
  <2>5. Cardinality(In(s, c)) \in Nat BY <2>1, FS_CardinalityType
  <2> QED BY <2>3, <2>4, <2>5
<1>5. \A q : Brackets(q) = Cardinality(In(q, "(")) - Cardinality(In(q, ")")) BY DEF Brackets
<1> HIDE DEF In
<1>6. /\ Cardinality(In(s, "(")) \in Nat /\ Cardinality(In(s, ")")) \in Nat
      /\ Cardinality(In(r, "(")) = Cardinality(In(s, "(")) + (IF t = "(" THEN 1 ELSE 0)
      /\ Cardinality(In(r, ")")) = Cardinality(In(s, ")")) + (IF t = ")" THEN 1 ELSE 0)
  BY <1>4
<1> QED BY <1>2, <1>5, <1>6 DEF Sign

\* The brackets of a piece.
LEMMA BracketsBetween ==
  ASSUME tokens \in Seq(Token), NEW i \in 1 .. Len(tokens)
  PROVE  \A k \in i .. Len(tokens) : Brackets(SubSeq(tokens, i, k)) = Depth(k) - Depth(i - 1)
<1>1. Len(tokens) \in Nat /\ i \in Nat OBVIOUS
<1>2. PICK h : h = i - 1 OBVIOUS
<1>3. h \in Nat /\ i = h + 1 BY <1>1, <1>2
<1>4. Depth(h) \in Int BY <1>3, DepthNext
<1> DEFINE P(d) == h + d <= Len(tokens) => Brackets(SubSeq(tokens, i, h + d)) = Depth(h + d) - Depth(h)
<1>5. PICK K : K = {d \in Nat : P(d)} OBVIOUS
<1>6. 0 \in K
  <2>1. SubSeq(tokens, i, h) = << >> BY <1>1, <1>3
  <2>2. Brackets(<< >>) = 0
    <3>1. \A c : {k \in 1 .. Len(<< >>) : << >>[k] = c} = {} OBVIOUS
    <3> QED BY <3>1, FS_EmptySet DEF Brackets
  <2>3. h + 0 = h BY <1>3
  <2>4. Brackets(SubSeq(tokens, i, h + 0)) = 0 BY ONLY <2>1, <2>2, <2>3
  <2>5. Depth(h + 0) - Depth(h) = 0 BY ONLY <1>4, <2>3
  <2>6. P(0) BY ONLY <2>4, <2>5
  <2> QED BY <1>5, <2>6
<1>7. ASSUME NEW d \in Nat, d \in K PROVE d + 1 \in K
  <2>1. PICK p : p = h + d OBVIOUS
  <2>2. p \in Nat /\ h + (d + 1) = p + 1 BY <1>3, <2>1
  <2>3. ASSUME p + 1 <= Len(tokens)
        PROVE  Brackets(SubSeq(tokens, i, p + 1)) = Depth(p + 1) - Depth(h)
    <3>1. Brackets(SubSeq(tokens, i, p)) = Depth(p) - Depth(h)
      BY <1>1, <1>5, <1>7, <2>1, <2>2, <2>3
    <3>2. PICK s : s = SubSeq(tokens, i, p) OBVIOUS
    <3>3. s \in Seq(Token) /\ tokens[p + 1] \in Token
      BY <1>1, <1>3, <2>1, <2>2, <2>3, <3>2
    <3>4. SubSeq(tokens, i, p + 1) = Append(s, tokens[p + 1])
      BY <1>1, <1>3, <2>1, <2>2, <2>3, <3>2
    <3>5. Brackets(Append(s, tokens[p + 1])) = Brackets(s) + Sign(tokens[p + 1]) /\ Brackets(s) \in Int
      BY <3>3, BracketsAppend
    <3>6. Depth(p) \in Int /\ Depth(p + 1) = Depth(p) + Sign(tokens[p + 1]) BY <2>2, DepthNext
    <3>7. Sign(tokens[p + 1]) \in Int BY DEF Sign
    <3>8. Brackets(s) = Depth(p) - Depth(h) BY ONLY <3>1, <3>2
    <3>9. Brackets(SubSeq(tokens, i, p + 1)) = Brackets(s) + Sign(tokens[p + 1]) BY ONLY <3>4, <3>5
    <3> QED BY ONLY <1>4, <3>5, <3>6, <3>7, <3>8, <3>9
  <2>4. P(d + 1) BY <2>2, <2>3
  <2> QED BY <1>5, <2>4
<1>8. \A d \in Nat : d \in K BY ONLY <1>6, <1>7, Counting
<1>9. ASSUME NEW k \in i .. Len(tokens)
      PROVE  Brackets(SubSeq(tokens, i, k)) = Depth(k) - Depth(i - 1)
  <2>1. PICK d : d = k - h OBVIOUS
  <2>2. d \in Nat /\ h + d = k BY <1>1, <1>3, <2>1
  <2>3. P(d) BY <1>5, <1>8, <2>2
  <2> QED BY <1>1, <1>2, <2>2, <2>3
<1> QED BY <1>9

LEMMA SplitsAre ==
  ASSUME tokens \in Seq(Token), NEW i \in 1 .. Len(tokens) + 1, NEW j \in 0 .. Len(tokens)
  PROVE  Splits(i, j) = {k \in i .. j : tokens[k] \in BinaryToken /\ Depth(k) = Depth(i - 1)}
<1>1. Len(tokens) \in Nat /\ i \in Nat /\ j \in Nat OBVIOUS
<1>2. ASSUME NEW k \in i .. j
      PROVE  Brackets(SubSeq(tokens, i, k)) = 0 <=> Depth(k) = Depth(i - 1)
  <2>1. i \in 1 .. Len(tokens) /\ k \in i .. Len(tokens) /\ k \in Nat /\ i - 1 \in Nat BY <1>1
  <2>2. Brackets(SubSeq(tokens, i, k)) = Depth(k) - Depth(i - 1) BY <2>1, BracketsBetween
  <2>3. Depth(k) \in Int /\ Depth(i - 1) \in Int BY <2>1, DepthNext
  <2> QED BY <2>2, <2>3
<1> QED BY <1>2 DEF Splits

-----------------------------------------------------------------------------
(***************************************************************************)
(* Pieces whose brackets close.                                            *)
(***************************************************************************)

Balanced(i, j) ==
  /\ i \in At /\ j \in At /\ i <= j
  /\ Depth(j) = Depth(i - 1) /\ \A k \in i .. j : Depth(k) >= Depth(i - 1)

\* Operands, also of what is negated or in brackets.
LEMMA BalancedOne ==
  ASSUME tokens \in Seq(Token), NEW i \in At, tokens[i] \in Operand
  PROVE  Balanced(i, i) /\ Splits(i, i) = {}
<1>1. i \in Nat /\ i >= 1 /\ Len(tokens) \in Nat /\ i <= Len(tokens) BY DEF At
<1>2. PICK h : h = i - 1 OBVIOUS
<1>3. h \in Nat /\ h + 1 = i BY <1>1, <1>2
<1>4. Depth(h) \in Int /\ Depth(i) = Depth(h)
  <2>1. Depth(h) \in Int /\ Depth(h + 1) = Depth(h) + Sign(tokens[h + 1]) BY <1>3, DepthNext
  <2> QED BY <1>3, <2>1 DEF Sign, Operand
<1>5. \A k \in i .. i : k = i BY <1>1
<1>6. Balanced(i, i) BY <1>1, <1>2, <1>4, <1>5 DEF Balanced
<1>7. tokens[i] \notin BinaryToken BY DEF Operand, BinaryToken
<1>8. Splits(i, i) = {} BY <1>5, <1>7 DEF Splits
<1> QED BY <1>6, <1>8

LEMMA BalancedNot ==
  ASSUME tokens \in Seq(Token), NEW i \in At, tokens[i] = "!", NEW j, Balanced(i + 1, j),
         Splits(i + 1, j) = {}
  PROVE  Balanced(i, j) /\ Splits(i, j) = {}
<1>1. i \in Nat /\ i >= 1 /\ Len(tokens) \in Nat /\ i <= Len(tokens)
      /\ j \in At /\ j \in Nat /\ i + 1 <= j /\ i + 1 \in At /\ j <= Len(tokens)
  BY DEF At, Balanced
<1>2. PICK h : h = i - 1 OBVIOUS
<1>3. h \in Nat /\ h + 1 = i /\ (i + 1) - 1 = i BY <1>1, <1>2
<1>4. Depth(h) \in Int /\ Depth(i) = Depth(h)
  <2>1. Depth(h) \in Int /\ Depth(h + 1) = Depth(h) + Sign(tokens[h + 1]) BY <1>3, DepthNext
  <2> QED BY <1>3, <2>1 DEF Sign
<1>5. \A k \in i .. j : k = i \/ k \in i + 1 .. j BY <1>1
<1>6. Balanced(i, j) BY <1>1, <1>2, <1>3, <1>4, <1>5 DEF Balanced
<1>7. tokens[i] \notin BinaryToken BY DEF BinaryToken
<1>8. i \in 1 .. Len(tokens) + 1 /\ i + 1 \in 1 .. Len(tokens) + 1 /\ j \in 0 .. Len(tokens)
  BY <1>1
<1>9. Splits(i, j) = {k \in i .. j : tokens[k] \in BinaryToken /\ Depth(k) = Depth(i - 1)}
  BY <1>8, SplitsAre
<1>10. Splits(i + 1, j) = {k \in i + 1 .. j : tokens[k] \in BinaryToken /\ Depth(k) = Depth((i + 1) - 1)}
  BY <1>8, SplitsAre
<1>11. Splits(i, j) = {} BY <1>2, <1>3, <1>4, <1>5, <1>7, <1>9, <1>10
<1> QED BY <1>6, <1>11

LEMMA BalancedGroup ==
  ASSUME tokens \in Seq(Token), NEW i \in At, tokens[i] = "(", NEW j \in At, tokens[j] = ")",
         Balanced(i + 1, j - 1)
  PROVE  Balanced(i, j) /\ Splits(i, j) = {}
<1>1. i \in Nat /\ i >= 1 /\ Len(tokens) \in Nat /\ i <= Len(tokens)
      /\ j \in Nat /\ i + 1 <= j - 1 /\ j <= Len(tokens)
  BY DEF At, Balanced
<1>2. PICK h, l : h = i - 1 /\ l = j - 1 OBVIOUS
<1>3. h \in Nat /\ h + 1 = i /\ l \in Nat /\ l + 1 = j /\ (i + 1) - 1 = i BY <1>1, <1>2
<1>4. Depth(h) \in Int /\ Depth(i) = Depth(h) + 1 BY <1>3, DepthNext DEF Sign
<1>5. Depth(l) \in Int /\ Depth(j) = Depth(l) - 1 BY <1>3, DepthNext DEF Sign
<1>6. Depth(l) = Depth(i) /\ \A k \in i + 1 .. l : Depth(k) >= Depth(i)
  BY <1>2, <1>3 DEF Balanced
<1>7. \A k \in i .. j : k = i \/ k = j \/ k \in i + 1 .. l BY <1>1, <1>2
<1>8. \A k \in i + 1 .. l : Depth(k) \in Int
  <2>1. \A k \in i + 1 .. l : k \in Nat BY <1>1
  <2> QED BY <2>1, DepthNext
<1>9. Balanced(i, j) BY <1>1, <1>2, <1>4, <1>5, <1>6, <1>7, <1>8 DEF Balanced
<1>10. tokens[i] \notin BinaryToken /\ tokens[j] \notin BinaryToken BY DEF BinaryToken
<1>11. i \in 1 .. Len(tokens) + 1 /\ j \in 0 .. Len(tokens) BY <1>1
<1>12. Splits(i, j) = {k \in i .. j : tokens[k] \in BinaryToken /\ Depth(k) = Depth(i - 1)}
  BY <1>11, SplitsAre
<1>13. ASSUME NEW k \in i .. j, tokens[k] \in BinaryToken PROVE Depth(k) # Depth(h)
  <2>1. k \in i + 1 .. l BY <1>7, <1>10, <1>13
  <2> QED BY <1>4, <1>6, <1>8, <2>1
<1>14. Splits(i, j) = {} BY <1>2, <1>12, <1>13
<1> QED BY <1>9, <1>14

\* Two operands and the operator between them.
Between(i, k, j) ==
  Balanced(i, j) /\ Splits(i, j) = Splits(i, k - 1) \cup {k} \cup Splits(k + 1, j)
  /\ i < k /\ k < j

LEMMA BalancedJoin ==
  ASSUME tokens \in Seq(Token), NEW i, NEW j, NEW k \in At, tokens[k] \in BinaryToken,
         Balanced(i, k - 1), Balanced(k + 1, j)
  PROVE  Between(i, k, j)
<1>1. i \in Nat /\ i >= 1 /\ Len(tokens) \in Nat /\ i <= k - 1 /\ k \in Nat /\ i \in At
      /\ j \in Nat /\ k + 1 <= j /\ j <= Len(tokens) /\ j \in At /\ k <= Len(tokens)
  BY DEF At, Balanced
<1>2. PICK h, l : h = i - 1 /\ l = k - 1 OBVIOUS
<1>3. h \in Nat /\ h + 1 = i /\ l \in Nat /\ l + 1 = k /\ (k + 1) - 1 = k BY <1>1, <1>2
<1>4. tokens[k] # "(" /\ tokens[k] # ")" BY DEF BinaryToken
<1>5. Depth(h) \in Int /\ Depth(l) \in Int /\ Depth(k) = Depth(l)
  <2>1. Depth(l) \in Int /\ Depth(l + 1) = Depth(l) + Sign(tokens[l + 1]) BY <1>3, DepthNext
  <2>2. Depth(h) \in Int BY <1>3, DepthNext
  <2> QED BY <1>3, <1>4, <2>1, <2>2 DEF Sign
<1>6. Depth(l) = Depth(h) /\ \A x \in i .. l : Depth(x) >= Depth(h) BY <1>2 DEF Balanced
<1>7. Depth(j) = Depth(k) /\ \A x \in k + 1 .. j : Depth(x) >= Depth(k)
  BY <1>3 DEF Balanced
<1>8. \A x \in i .. j : x \in i .. l \/ x = k \/ x \in k + 1 .. j BY <1>1, <1>2
<1>9. Balanced(i, j) BY <1>1, <1>2, <1>5, <1>6, <1>7, <1>8 DEF Balanced
<1>10. i \in 1 .. Len(tokens) + 1 /\ j \in 0 .. Len(tokens) /\ l \in 0 .. Len(tokens)
       /\ k + 1 \in 1 .. Len(tokens) + 1
  BY <1>1, <1>2
<1>11. Splits(i, j) = {x \in i .. j : tokens[x] \in BinaryToken /\ Depth(x) = Depth(h)}
  BY <1>2, <1>10, SplitsAre
<1>12. Splits(i, l) = {x \in i .. l : tokens[x] \in BinaryToken /\ Depth(x) = Depth(h)}
  BY <1>2, <1>10, SplitsAre
<1>13. Splits(k + 1, j) = {x \in k + 1 .. j : tokens[x] \in BinaryToken /\ Depth(x) = Depth(k)}
  BY <1>3, <1>10, SplitsAre
<1>14. \A x : x \in i .. j <=> (x \in i .. l \/ x = k \/ x \in k + 1 .. j) BY <1>1, <1>2
<1>15. Splits(i, j) = Splits(i, l) \cup {k} \cup Splits(k + 1, j)
  BY <1>5, <1>6, <1>11, <1>12, <1>13, <1>14
<1> QED BY <1>1, <1>2, <1>9, <1>15 DEF Between

-----------------------------------------------------------------------------
(***************************************************************************)
(* The root of a piece, and its tree.                                      *)
(***************************************************************************)

Prec(k) == Precedence(Operator(k))

\* Every operator has its group.
LEMMA GroupType ==
  ASSUME NEW op \in BinaryToken \cup {"u-"}
  PROVE  GroupOf(op) \in 1 .. 11 /\ Precedence(op) \in Nat
<1>1. Len(Group) = 11 BY DEF Group
<1>2. \E g \in 1 .. 11 : op \in Group[g]
  <2>1. CASE op \in {"u-", "*", "/", "%", "+", "-", "<<", ">>"}
    <3>1. op \in Group[1] \/ op \in Group[2] \/ op \in Group[3] \/ op \in Group[4]
      BY <2>1 DEF Group
    <3> QED BY <3>1
  <2>2. CASE op \in {"<", "<=", ">", ">=", "==", "!=", "&"}
    <3>1. op \in Group[5] \/ op \in Group[6] \/ op \in Group[7] BY <2>2 DEF Group
    <3> QED BY <3>1
  <2>3. CASE op \in {"^", "|", "&&", "||"}
    <3>1. op \in Group[8] \/ op \in Group[9] \/ op \in Group[10] \/ op \in Group[11]
      BY <2>3 DEF Group
    <3> QED BY <3>1
  <2> QED BY <2>1, <2>2, <2>3 DEF BinaryToken
<1>3. GroupOf(op) \in 1 .. 11 BY <1>1, <1>2 DEF GroupOf
<1>4. PICK g \in 1 .. 11 : g = GroupOf(op) BY <1>3
<1>5. <<2, 4, 3, 5, 6, 7, 8, 9, 10, 11, 12>>[g] \in Nat OBVIOUS
<1> QED BY <1>3, <1>4, <1>5 DEF Precedence

LEMMA PrecType ==
  ASSUME NEW k, tokens[k] \in BinaryToken
  PROVE  Prec(k) \in Nat /\ GroupOf(tokens[k]) \in 1 .. 11
<1>1. Operator(k) \in BinaryToken \cup {"u-"} BY DEF Operator
<1> QED BY <1>1, GroupType DEF Prec

\* The loosest of the operators, and the last of these.
Loosest(k, S) ==
  \A l \in S :
      \/ GroupOf(tokens[l]) < GroupOf(tokens[k])
      \/ GroupOf(tokens[l]) = GroupOf(tokens[k]) /\ l <= k

LEMMA LoosestIs ==
  ASSUME NEW N \in Nat, NEW S \in SUBSET (1 .. N), S # {}, \A k \in S : tokens[k] \in BinaryToken
  PROVE  \E k \in S : Loosest(k, S)
<1>1. \A l \in S : GroupOf(tokens[l]) \in 1 .. 11 /\ l \in 1 .. N BY PrecType
<1>2. PICK A : A = {a \in 0 .. 11 : \E l \in S : a = 11 - GroupOf(tokens[l])} OBVIOUS
<1>3. A \in SUBSET Nat BY <1>2
<1>4. \A l \in S : 11 - GroupOf(tokens[l]) \in A BY <1>1, <1>2
<1>5. PICK a \in A : \A c \in A : a <= c
  <2>1. A # {} BY <1>4
  <2> QED BY <1>3, <2>1, LeastNatural
<1>6. PICK B : B = {c \in 0 .. N : \E l \in S : 11 - GroupOf(tokens[l]) = a /\ c = N - l} OBVIOUS
<1>7. B \in SUBSET Nat BY <1>6
<1>8. \A l \in S : 11 - GroupOf(tokens[l]) = a => N - l \in B BY <1>1, <1>6
<1>9. PICK c \in B : \A d \in B : c <= d
  <2>1. B # {} BY <1>2, <1>5, <1>8
  <2> QED BY <1>7, <2>1, LeastNatural
<1>10. PICK k \in S : 11 - GroupOf(tokens[k]) = a /\ c = N - k BY <1>6, <1>9
<1>11. ASSUME NEW l \in S
       PROVE  \/ GroupOf(tokens[l]) < GroupOf(tokens[k])
              \/ GroupOf(tokens[l]) = GroupOf(tokens[k]) /\ l <= k
  <2>1. a <= 11 - GroupOf(tokens[l]) BY <1>4, <1>5
  <2>2. 11 - GroupOf(tokens[l]) = a => c <= N - l BY <1>8, <1>9
  <2>3. /\ GroupOf(tokens[l]) \in Int /\ GroupOf(tokens[k]) \in Int /\ l \in Int /\ k \in Int
    BY <1>1
  <2> QED BY ONLY <1>10, <2>1, <2>2, <2>3, N \in Nat
<1> QED BY <1>11 DEF Loosest

LEMMA RootIn ==
  ASSUME tokens \in Seq(Token), NEW i \in Nat \ {0}, NEW j \in 0 .. Len(tokens), Splits(i, j) # {}
  PROVE  Root(i, j) \in Splits(i, j) /\ Root(i, j) \in i .. j
         /\ Loosest(Root(i, j), Splits(i, j))
<1>1. Splits(i, j) \in SUBSET (1 .. Len(tokens)) /\ Len(tokens) \in Nat
      /\ Splits(i, j) \subseteq i .. j
  BY DEF Splits
<1>2. \A k \in Splits(i, j) : tokens[k] \in BinaryToken BY DEF Splits
<1>3. \E k \in Splits(i, j) : Loosest(k, Splits(i, j)) BY <1>1, <1>2, LoosestIs
<1>4. Root(i, j) = CHOOSE k \in Splits(i, j) : Loosest(k, Splits(i, j)) BY DEF Root, Loosest
<1> QED BY <1>1, <1>3, <1>4

\* Where the numbers agree with the groups, they say which operator is the root.
LEMMA RootIs ==
  ASSUME tokens \in Seq(Token), Agreeing, NEW i \in Nat \ {0}, NEW j \in 0 .. Len(tokens),
         NEW k \in Splits(i, j),
         \A l \in Splits(i, j) :
           (l < k => Prec(l) >= Prec(k)) /\ (l > k => Prec(l) > Prec(k))
  PROVE  Root(i, j) = k
<1>1. PICK r : r = Root(i, j) OBVIOUS
<1>2. r \in Splits(i, j) /\ Loosest(r, Splits(i, j)) BY <1>1, RootIn
<1>3. Splits(i, j) \subseteq At /\ \A l \in Splits(i, j) : tokens[l] \in BinaryToken
  BY DEF Splits, At
<1>4. /\ \/ GroupOf(tokens[k]) < GroupOf(tokens[r])
         \/ GroupOf(tokens[k]) = GroupOf(tokens[r]) /\ k <= r
      /\ GroupOf(tokens[k]) \in Int /\ GroupOf(tokens[r]) \in Int /\ k \in Int /\ r \in Int
      /\ Prec(k) \in Int /\ Prec(r) \in Int
  <2>1. tokens[k] \in BinaryToken /\ tokens[r] \in BinaryToken /\ k \in Int /\ r \in Int
    BY <1>2, <1>3 DEF At
  <2>2. /\ GroupOf(tokens[k]) \in Int /\ GroupOf(tokens[r]) \in Int
        /\ Prec(k) \in Int /\ Prec(r) \in Int
    <3>1. Prec(k) \in Nat /\ GroupOf(tokens[k]) \in 1 .. 11 BY <2>1, PrecType
    <3>2. Prec(r) \in Nat /\ GroupOf(tokens[r]) \in 1 .. 11 BY <2>1, PrecType
    <3> QED BY ONLY <3>1, <3>2
  <2> QED BY <1>2, <2>1, <2>2 DEF Loosest
<1>5. GroupOf(tokens[k]) <= GroupOf(tokens[r]) <=> Prec(k) >= Prec(r)
  BY <1>2, <1>3 DEF Agreeing, Prec
<1>6. GroupOf(tokens[r]) <= GroupOf(tokens[k]) <=> Prec(r) >= Prec(k)
  BY <1>2, <1>3 DEF Agreeing, Prec
<1>7. (r < k => Prec(r) >= Prec(k)) /\ (r > k => Prec(r) > Prec(k)) BY <1>2
<1> QED BY <1>1, <1>4, <1>5, <1>6, <1>7

\* What trees says of tokens i to j.
TreeOf(trees, i, j) ==
  IF i > j THEN << >>
  ELSE IF Splits(i, j) # {}
  THEN trees[<<i, Root(i, j) - 1>>] \o trees[<<Root(i, j) + 1, j>>] \o <<Root(i, j)>>
  ELSE IF tokens[i] \in {"!", "~"} THEN trees[<<i + 1, j>>] \o <<-i>>
  ELSE IF tokens[i] = "(" THEN trees[<<i + 1, j - 1>>]
  ELSE <<i>>

Pieces == (1 .. Len(tokens) + 1) \X (0 .. Len(tokens))

AlikeBelow(f, g, d) == \A ij \in Pieces : ij[2] - ij[1] < d => f[ij] = g[ij]

LEMMA TreesAlike ==
  ASSUME tokens \in Seq(Token), NEW i \in 1 .. Len(tokens) + 1, NEW j \in 0 .. Len(tokens),
         NEW f, NEW g, AlikeBelow(f, g, j - i)
  PROVE  TreeOf(f, i, j) = TreeOf(g, i, j)
<1>1. Len(tokens) \in Nat /\ i \in Nat \ {0} /\ j \in Nat OBVIOUS
<1>2. ASSUME NEW a \in 1 .. Len(tokens) + 1, NEW c \in 0 .. Len(tokens), c - a < j - i
      PROVE  f[<<a, c>>] = g[<<a, c>>]
  <2>1. PICK ij : ij = <<a, c>> OBVIOUS
  <2>2. ij \in Pieces /\ ij[1] = a /\ ij[2] = c BY <2>1 DEF Pieces
  <2> QED BY <1>2, <2>1, <2>2 DEF AlikeBelow
<1>3. CASE i <= j
  <2>1. f[<<i + 1, j>>] = g[<<i + 1, j>>]
    <3>1. i + 1 \in 1 .. Len(tokens) + 1 /\ j - (i + 1) < j - i BY <1>1, <1>3
    <3> QED BY <1>2, <3>1
  <2>2. f[<<i + 1, j - 1>>] = g[<<i + 1, j - 1>>]
    <3>1. i + 1 \in 1 .. Len(tokens) + 1 /\ j - 1 \in 0 .. Len(tokens) /\ (j - 1) - (i + 1) < j - i
      BY <1>1, <1>3
    <3> QED BY <1>2, <3>1
  <2>3. ASSUME Splits(i, j) # {}, NEW k, k = Root(i, j)
        PROVE  f[<<i, k - 1>>] = g[<<i, k - 1>>] /\ f[<<k + 1, j>>] = g[<<k + 1, j>>]
    <3>1. k \in i .. j BY <1>1, <2>3, RootIn
    <3>2. /\ k - 1 \in 0 .. Len(tokens) /\ (k - 1) - i < j - i
          /\ k + 1 \in 1 .. Len(tokens) + 1 /\ j - (k + 1) < j - i
      BY <1>1, <3>1
    <3> QED BY <1>2, <3>2
  <2> QED BY <1>1, <1>3, <2>1, <2>2, <2>3 DEF TreeOf
<1>4. CASE ~(i <= j) BY <1>1, <1>4 DEF TreeOf
<1> QED BY <1>3, <1>4

ReadsBelow(f, d) == \A ij \in Pieces : ij[2] - ij[1] < d => f[ij] = TreeOf(f, ij[1], ij[2])

LEMMA TreesThere ==
  ASSUME tokens \in Seq(Token)
  PROVE  \E f : f = [ij \in Pieces |-> TreeOf(f, ij[1], ij[2])]
<1>1. \A ij \in Pieces : ij[1] \in 1 .. Len(tokens) + 1 /\ ij[2] \in 0 .. Len(tokens) BY DEF Pieces
<1>2. Len(tokens) \in Nat OBVIOUS
<1>3. PICK K : K = {d \in Nat : \E f : ReadsBelow(f, d)} OBVIOUS
<1>4. 0 \in K
  <2>1. PICK f : f = [ij \in Pieces |-> IF ij[2] < ij[1] THEN << >> ELSE << >>] OBVIOUS
  <2>2. ASSUME NEW ij \in Pieces, ij[2] - ij[1] < 0 PROVE f[ij] = TreeOf(f, ij[1], ij[2])
    <3>1. ij[1] > ij[2] BY <1>1, <1>2, <2>2
    <3> QED BY <2>1, <3>1 DEF TreeOf
  <2>3. ReadsBelow(f, 0) BY <2>2 DEF ReadsBelow
  <2> QED BY <1>3, <2>3
<1>5. ASSUME NEW d \in Nat, d \in K PROVE d + 1 \in K
  <2>1. PICK f : ReadsBelow(f, d) BY <1>3, <1>5
  <2>2. PICK g : g = [ij \in Pieces |-> IF ij[2] - ij[1] < d THEN f[ij] ELSE TreeOf(f, ij[1], ij[2])]
    OBVIOUS
  <2>3. \A ij \in Pieces : ij[2] - ij[1] < d => g[ij] = f[ij] BY <2>2
  <2>4. AlikeBelow(f, g, d) BY <2>3 DEF AlikeBelow
  <2>5. ASSUME NEW ij \in Pieces, ij[2] - ij[1] < d + 1 PROVE g[ij] = TreeOf(g, ij[1], ij[2])
    <3>1. PICK i, j : i = ij[1] /\ j = ij[2] OBVIOUS
    <3>2. i \in 1 .. Len(tokens) + 1 /\ j \in 0 .. Len(tokens) /\ j - i <= d BY <1>1, <1>2, <2>5, <3>1
    <3>3. g[ij] = TreeOf(f, i, j)
      <4>1. CASE ij[2] - ij[1] < d BY <2>1, <2>3, <3>1, <4>1 DEF ReadsBelow
      <4>2. CASE ~(ij[2] - ij[1] < d) BY <2>2, <3>1, <4>2
      <4> QED BY <4>1, <4>2
    <3>4. AlikeBelow(f, g, j - i)
      <4>1. \A x \in Pieces : x[2] - x[1] < j - i => x[2] - x[1] < d BY <1>1, <1>2, <3>2
      <4> QED BY <2>4, <4>1 DEF AlikeBelow
    <3>5. TreeOf(f, i, j) = TreeOf(g, i, j) BY <3>2, <3>4, TreesAlike
    <3> QED BY <3>1, <3>3, <3>5
  <2>6. ReadsBelow(g, d + 1) BY <2>5 DEF ReadsBelow
  <2> QED BY <1>3, <2>6
<1>6. \A d \in Nat : d \in K BY ONLY <1>4, <1>5, Counting
<1>7. PICK f : ReadsBelow(f, Len(tokens)) BY <1>2, <1>3, <1>6
<1>8. PICK g : g = [ij \in Pieces |-> TreeOf(f, ij[1], ij[2])] OBVIOUS
<1>9. \A ij \in Pieces : ij[2] - ij[1] < Len(tokens) BY <1>1, <1>2
<1>10. AlikeBelow(f, g, Len(tokens)) BY <1>7, <1>8 DEF AlikeBelow, ReadsBelow
<1>11. ASSUME NEW ij \in Pieces PROVE TreeOf(f, ij[1], ij[2]) = TreeOf(g, ij[1], ij[2])
  <2>1. AlikeBelow(f, g, ij[2] - ij[1]) BY <1>9, <1>10 DEF AlikeBelow
  <2> QED BY <1>1, <2>1, TreesAlike
<1>12. g = [ij \in Pieces |-> TreeOf(g, ij[1], ij[2])] BY <1>8, <1>11
<1> QED BY <1>12

LEMMA TreesAre ==
  ASSUME tokens \in Seq(Token), NEW i \in 1 .. Len(tokens) + 1, NEW j \in 0 .. Len(tokens)
  PROVE  Trees[<<i, j>>] = TreeOf(Trees, i, j)
<1>1. Trees = CHOOSE f : f = [ij \in Pieces |-> TreeOf(f, ij[1], ij[2])]
  BY DEF Trees, Pieces, TreeOf
<1>2. Trees = [ij \in Pieces |-> TreeOf(Trees, ij[1], ij[2])] BY <1>1, TreesThere
<1>3. PICK ij : ij = <<i, j>> OBVIOUS
<1>4. ij \in Pieces /\ ij[1] = i /\ ij[2] = j BY <1>3 DEF Pieces
<1>5. PICK f : f = Trees OBVIOUS
<1>6. f = [x \in Pieces |-> TreeOf(f, x[1], x[2])] BY <1>2, <1>5
<1>7. f[ij] = TreeOf(f, ij[1], ij[2]) BY <1>4, <1>6
<1> QED BY <1>3, <1>4, <1>5, <1>7

-----------------------------------------------------------------------------
(***************************************************************************)
(* A tree holds what its piece is made of.                                 *)
(***************************************************************************)

Mark(k) == IF tokens[k] = "!" THEN -k ELSE k
Inside(i, j) == {k \in i .. j : tokens[k] \notin {"(", ")"}}

LeftToRight(e) ==
  \A x, y \in 1 .. Len(e) :
    x < y /\ e[x] > 0 /\ e[y] > 0 /\ tokens[e[x]] \in Operand /\ tokens[e[y]] \in Operand
      => e[x] < e[y]

Whole(e, i, j) ==
  /\ e \in Seq(Int)
  /\ Len(e) = Cardinality(Inside(i, j))
  /\ \A x \in 1 .. Len(e) : \E k \in Inside(i, j) : e[x] = Mark(k)
  /\ \A k \in Inside(i, j) : \E x \in 1 .. Len(e) : e[x] = Mark(k)
  /\ LeftToRight(e)

LEMMA InsideFinite ==
  ASSUME NEW i \in Int, NEW j \in Int
  PROVE  IsFiniteSet(Inside(i, j)) /\ Cardinality(Inside(i, j)) \in Nat
<1>1. IsFiniteSet(i .. j) BY FS_Interval
<1>2. Inside(i, j) \subseteq i .. j BY DEF Inside
<1> QED BY <1>1, <1>2, FS_Subset, FS_CardinalityType

LEMMA WholeOne ==
  ASSUME NEW i \in Nat \ {0}, tokens[i] \in Operand
  PROVE  Whole(<<i>>, i, i)
<1>1. Inside(i, i) = {i} BY DEF Inside, Operand
<1>2. Cardinality({i}) = 1 BY FS_Singleton
<1>3. PICK e : e = <<i>> OBVIOUS
<1>4. e \in Seq(Int) /\ Len(e) = 1 /\ e[1] = i /\ \A x \in 1 .. Len(e) : x = 1 /\ 1 \in 1 .. Len(e)
  BY <1>3
<1>5. Mark(i) = i BY DEF Mark, Operand
<1>6. LeftToRight(e)
  <2>1. \A x, y \in 1 .. Len(e) : ~(x < y) BY <1>4
  <2> QED BY <2>1 DEF LeftToRight
<1>7. Whole(e, i, i) BY <1>1, <1>2, <1>4, <1>5, <1>6 DEF Whole
<1> QED BY <1>3, <1>7

\* What is appended is marked.
LEMMA Appended ==
  ASSUME NEW e \in Seq(Int), NEW z \in Int
  PROVE  /\ Append(e, z) \in Seq(Int) /\ Len(Append(e, z)) = Len(e) + 1 /\ Len(e) \in Nat
         /\ Append(e, z)[Len(e) + 1] = z
         /\ \A x \in 1 .. Len(e) : Append(e, z)[x] = e[x]
         /\ e \o <<z>> = Append(e, z)
OBVIOUS

LEMMA WholeAppend ==
  ASSUME NEW e, NEW k \in Nat, NEW S, NEW i \in Int, NEW j \in Int,
         e \in Seq(Int), LeftToRight(e), IsFiniteSet(S), k \notin S,
         Len(e) = Cardinality(S),
         \A x \in 1 .. Len(e) : \E l \in S : e[x] = Mark(l),
         \A l \in S : \E x \in 1 .. Len(e) : e[x] = Mark(l),
         Inside(i, j) = S \cup {k}, tokens[k] \notin Operand
  PROVE  Whole(Append(e, Mark(k)), i, j)
<1>1. PICK r : r = Append(e, Mark(k)) OBVIOUS
<1>2. PICK n : n = Len(e) OBVIOUS
<1>3. Mark(k) \in Int BY DEF Mark
<1>4. /\ r \in Seq(Int) /\ Len(r) = n + 1 /\ n \in Nat /\ r[n + 1] = Mark(k)
      /\ \A x \in 1 .. n : r[x] = e[x]
      /\ \A x : x \in 1 .. n + 1 <=> x \in 1 .. n \/ x = n + 1
  BY <1>1, <1>2, <1>3, Appended
<1>5. Len(r) = Cardinality(S \cup {k}) BY <1>2, <1>4, FS_AddElement
<1>6. \A x \in 1 .. n + 1 : \E l \in S \cup {k} : r[x] = Mark(l) BY <1>2, <1>4
<1>7. ASSUME NEW l \in S \cup {k} PROVE \E x \in 1 .. n + 1 : r[x] = Mark(l)
  <2>1. CASE l = k BY <1>4, <2>1
  <2>2. CASE l \in S
    <3>1. PICK x \in 1 .. n : e[x] = Mark(l) BY <1>2, <2>2
    <3> QED BY <1>4, <3>1
  <2> QED BY <2>1, <2>2
<1>8. ASSUME NEW x \in 1 .. n + 1, NEW y \in 1 .. n + 1, x < y, r[x] > 0, r[y] > 0,
             tokens[r[x]] \in Operand, tokens[r[y]] \in Operand
      PROVE  r[x] < r[y]
  <2>1. x \in 1 .. n BY <1>4, <1>8
  <2>2. y # n + 1
    <3> SUFFICES ASSUME y = n + 1 PROVE FALSE OBVIOUS
    <3>1. r[y] = Mark(k) BY <1>4
    <3>2. Mark(k) = k BY <1>8, <3>1 DEF Mark
    <3> QED BY <1>8, <3>1, <3>2
  <2>3. y \in 1 .. n BY <1>4, <2>2
  <2>4. r[x] = e[x] /\ r[y] = e[y] BY <1>4, <2>1, <2>3
  <2> QED BY <1>2, <1>8, <2>1, <2>3, <2>4 DEF LeftToRight
<1>9. LeftToRight(r) BY ONLY <1>4, <1>8, Zenon DEF LeftToRight
<1>10. Whole(r, i, j) BY <1>4, <1>5, <1>6, <1>7, <1>9 DEF Whole
<1> QED BY <1>1, <1>10

LEMMA WholeNot ==
  ASSUME NEW i \in Nat \ {0}, NEW j \in Nat, i < j, tokens[i] = "!", NEW e, Whole(e, i + 1, j)
  PROVE  Whole(Append(e, -i), i, j)
<1>1. PICK S : S = Inside(i + 1, j) OBVIOUS
<1>2. IsFiniteSet(S) BY <1>1, InsideFinite
<1>3. i \notin S /\ Inside(i, j) = S \cup {i} BY <1>1 DEF Inside
<1>4. tokens[i] \notin Operand /\ Mark(i) = -i BY DEF Operand, Mark
<1>5. /\ e \in Seq(Int) /\ LeftToRight(e) /\ Len(e) = Cardinality(S)
      /\ \A x \in 1 .. Len(e) : \E l \in S : e[x] = Mark(l)
      /\ \A l \in S : \E x \in 1 .. Len(e) : e[x] = Mark(l)
  BY <1>1 DEF Whole
<1>6. Whole(Append(e, Mark(i)), i, j) BY <1>2, <1>3, <1>4, <1>5, WholeAppend
<1> QED BY <1>4, <1>6

LEMMA WholeGroup ==
  ASSUME NEW i \in Nat, NEW j \in Nat, i < j, tokens[i] = "(", tokens[j] = ")",
         NEW e, Whole(e, i + 1, j - 1)
  PROVE  Whole(e, i, j)
<1>1. Inside(i, j) = Inside(i + 1, j - 1)
  <2>1. \A k : k \in i .. j <=> k = i \/ k = j \/ k \in i + 1 .. j - 1 OBVIOUS
  <2> QED BY <2>1 DEF Inside
<1> QED BY <1>1 DEF Whole

\* Two pieces side by side.
LEMMA Joined ==
  ASSUME NEW a \in Seq(Int), NEW c \in Seq(Int)
  PROVE  /\ a \o c \in Seq(Int) /\ Len(a \o c) = Len(a) + Len(c)
         /\ Len(a) \in Nat /\ Len(c) \in Nat
         /\ \A x \in 1 .. Len(a) : (a \o c)[x] = a[x]
         /\ \A x \in 1 .. Len(c) : (a \o c)[Len(a) + x] = c[x]
OBVIOUS

LEMMA WholeJoin ==
  ASSUME NEW i \in Nat \ {0}, NEW j \in Nat, NEW k \in Nat, i < k, k < j,
         tokens[k] \in BinaryToken,
         NEW a, NEW c, Whole(a, i, k - 1), Whole(c, k + 1, j)
  PROVE  Whole(Append(a \o c, k), i, j)
<1>1. PICK A, C : A = Inside(i, k - 1) /\ C = Inside(k + 1, j) OBVIOUS
<1>2. IsFiniteSet(A) /\ IsFiniteSet(C)
      /\ Cardinality(A) \in Nat /\ Cardinality(C) \in Nat BY <1>1, InsideFinite
<1>3. tokens[k] \notin Operand /\ Mark(k) = k /\ tokens[k] \notin {"(", ")"}
  BY DEF Operand, Mark, BinaryToken
<1>4. k \notin A \cup C /\ Inside(i, j) = (A \cup C) \cup {k} /\ A \cap C = {}
      /\ \A l \in A : l \in Nat /\ l > 0 /\ l < k
  BY <1>1, <1>3 DEF Inside
<1>4a. \A l \in C : l \in Nat /\ l > k BY <1>1 DEF Inside
<1>5. Cardinality(A \cup C) = Cardinality(A) + Cardinality(C) /\ IsFiniteSet(A \cup C)
  <2>1. Cardinality({}) = 0 BY FS_EmptySet
  <2>2. Cardinality(A \cup C) = Cardinality(A) + Cardinality(C) - Cardinality(A \cap C)
    BY <1>2, FS_Union
  <2>3. IsFiniteSet(A \cup C) BY <1>2, FS_Union
  <2>4. Cardinality(A \cap C) = 0 BY <1>4, <2>1
  <2> QED BY ONLY <1>2, <2>2, <2>3, <2>4
<1>6. PICK r : r = a \o c OBVIOUS
<1>7. /\ a \in Seq(Int) /\ LeftToRight(a) /\ Len(a) = Cardinality(A)
      /\ \A x \in 1 .. Len(a) : \E l \in A : a[x] = Mark(l)
      /\ \A l \in A : \E x \in 1 .. Len(a) : a[x] = Mark(l)
  BY <1>1 DEF Whole
<1>8. /\ c \in Seq(Int) /\ LeftToRight(c) /\ Len(c) = Cardinality(C)
      /\ \A x \in 1 .. Len(c) : \E l \in C : c[x] = Mark(l)
      /\ \A l \in C : \E x \in 1 .. Len(c) : c[x] = Mark(l)
  BY <1>1 DEF Whole
<1>9. PICK n, m : n = Len(a) /\ m = Len(c) OBVIOUS
<1>10. /\ r \in Seq(Int) /\ Len(r) = n + m /\ n \in Nat /\ m \in Nat
       /\ \A x \in 1 .. n : r[x] = a[x]
       /\ \A x \in 1 .. m : r[n + x] = c[x]
  BY <1>6, <1>7, <1>8, <1>9, Joined
<1>10a. n \in Nat /\ m \in Nat BY <1>10
<1>11. \A x \in 1 .. n + m : x \in 1 .. n \/ (x - n \in 1 .. m /\ x = n + (x - n))
  BY ONLY <1>10a
<1>12. ASSUME NEW x \in 1 .. n + m PROVE \E l \in A \cup C : r[x] = Mark(l)
  <2>1. CASE x \in 1 .. n BY <1>7, <1>9, <1>10, <2>1
  <2>2. CASE x - n \in 1 .. m /\ x = n + (x - n)
    <3>1. PICK y : y = x - n OBVIOUS
    <3>2. r[x] = c[y] /\ y \in 1 .. m BY <1>10, <2>2, <3>1
    <3> QED BY <1>8, <1>9, <3>2
  <2> QED BY <1>11, <2>1, <2>2
<1>13. ASSUME NEW l \in A \cup C PROVE \E x \in 1 .. n + m : r[x] = Mark(l)
  <2>1. CASE l \in A
    <3>1. PICK x \in 1 .. n : a[x] = Mark(l) BY <1>7, <1>9, <2>1
    <3>2. x \in 1 .. n + m BY <1>10
    <3> QED BY <1>10, <3>1, <3>2
  <2>2. CASE l \in C
    <3>1. PICK x \in 1 .. m : c[x] = Mark(l) BY <1>8, <1>9, <2>2
    <3>2. n + x \in 1 .. n + m BY <1>10
    <3> QED BY <1>10, <3>1, <3>2
  <2> QED BY <2>1, <2>2
<1>14. ASSUME NEW x \in 1 .. n, r[x] > 0 PROVE r[x] < k
  <2>1. PICK l \in A : r[x] = Mark(l) BY <1>7, <1>9, <1>10
  <2>2. Mark(l) = l \/ Mark(l) = -l BY DEF Mark
  <2> QED BY <1>4, <1>14, <2>1, <2>2
<1>15. ASSUME NEW y \in 1 .. m, c[y] > 0 PROVE c[y] > k
  <2>1. PICK l \in C : c[y] = Mark(l) BY <1>8, <1>9
  <2>2. Mark(l) = l \/ Mark(l) = -l BY DEF Mark
  <2> QED BY <1>4a, <1>15, <2>1, <2>2
<1>16. ASSUME NEW x \in 1 .. n + m, NEW y \in 1 .. n + m, x < y, r[x] > 0, r[y] > 0,
              tokens[r[x]] \in Operand, tokens[r[y]] \in Operand
       PROVE  r[x] < r[y]
  <2>0. r[x] \in Int /\ r[y] \in Int BY <1>10
  <2>1. CASE y \in 1 .. n
    <3>1. x \in 1 .. n BY <1>10, <1>16, <2>1
    <3>2. r[x] = a[x] /\ r[y] = a[y] BY <1>10, <2>1, <3>1
    <3> QED BY <1>7, <1>9, <1>16, <2>1, <3>1, <3>2 DEF LeftToRight
  <2>2. CASE x \in 1 .. n /\ y - n \in 1 .. m /\ y = n + (y - n)
    <3>1. PICK z : z = y - n OBVIOUS
    <3>2. r[y] = c[z] /\ z \in 1 .. m BY <1>10, <2>2, <3>1
    <3>3. c[z] > k BY <1>15, <1>16, <3>2
    <3>4. r[x] < k BY <1>14, <1>16, <2>2
    <3> QED BY <2>0, <3>2, <3>3, <3>4
  <2>3. CASE x - n \in 1 .. m /\ x = n + (x - n) /\ y - n \in 1 .. m /\ y = n + (y - n)
    <3>1. PICK w, z : w = x - n /\ z = y - n OBVIOUS
    <3>2. r[x] = c[w] /\ r[y] = c[z] /\ w \in 1 .. m /\ z \in 1 .. m /\ w < z
      <4>1. w \in 1 .. m /\ z \in 1 .. m /\ x = n + w /\ y = n + z BY <2>3, <3>1
      <4>2. r[n + w] = c[w] /\ r[n + z] = c[z] BY <1>10, <4>1
      <4>3. w < z BY <1>10, <1>16, <4>1
      <4> QED BY <4>1, <4>2, <4>3
    <3> QED BY <1>8, <1>9, <1>16, <3>2 DEF LeftToRight
  <2> QED BY <1>11, <2>1, <2>2, <2>3
<1>17. LeftToRight(r) BY ONLY <1>10, <1>16, Zenon DEF LeftToRight
<1>18. Len(r) = Cardinality(A \cup C) BY <1>5, <1>7, <1>8, <1>9, <1>10
<1>19. Whole(Append(r, Mark(k)), i, j)
  <2>1. PICK S : S = A \cup C OBVIOUS
  <2>2. /\ \A x \in 1 .. Len(r) : \E l \in S : r[x] = Mark(l)
        /\ \A l \in S : \E x \in 1 .. Len(r) : r[x] = Mark(l)
    BY <1>10, <1>12, <1>13, <2>1
  <2>3. k \notin S /\ Inside(i, j) = S \cup {k} /\ IsFiniteSet(S) /\ Len(r) = Cardinality(S)
    BY <1>4, <1>5, <1>18, <2>1
  <2>4. i \in Int /\ j \in Int OBVIOUS
  <2> QED BY ONLY k \in Nat, <1>3, <1>10, <1>17, <2>2, <2>3, <2>4, WholeAppend, Zenon
<1> QED BY <1>3, <1>6, <1>19

-----------------------------------------------------------------------------
(***************************************************************************)
(* A piece that was read, with its tree.                                   *)
(***************************************************************************)

Ends(j) == tokens[j] \in Operand \cup {")"}

Part(e, i, j) ==
  Balanced(i, j) /\ Whole(e, i, j) /\ Ends(j) /\ (Agreeing => e = Trees[<<i, j>>])

AtLeast(i, j, k) == \A l \in Splits(i, j) : Prec(l) >= Prec(k)
Above(i, j, k) == \A l \in Splits(i, j) : Prec(l) > Prec(k)

LEMMA PartOne ==
  ASSUME tokens \in Seq(Token), NEW i \in At, tokens[i] \in Operand
  PROVE  Part(<<i>>, i, i) /\ Splits(i, i) = {}
<1>1. i \in Nat \ {0} /\ i \in 1 .. Len(tokens) + 1 /\ i \in 0 .. Len(tokens) BY DEF At
<1>2. Balanced(i, i) /\ Splits(i, i) = {} BY BalancedOne
<1>3. Trees[<<i, i>>] = TreeOf(Trees, i, i) BY <1>1, TreesAre
<1>4. TreeOf(Trees, i, i) = <<i>>
  <2>1. tokens[i] \notin {"!", "~", "("} BY DEF Operand
  <2> QED BY <1>1, <1>2, <2>1 DEF TreeOf
<1>5. Whole(<<i>>, i, i) BY <1>1, WholeOne
<1> QED BY <1>2, <1>3, <1>4, <1>5 DEF Part, Ends

LEMMA PartNot ==
  ASSUME tokens \in Seq(Token), NEW i \in At, tokens[i] = "!", NEW j, NEW e,
         Part(e, i + 1, j), Splits(i + 1, j) = {}
  PROVE  Part(Append(e, -i), i, j) /\ Splits(i, j) = {}
<1>1. i \in Nat \ {0} /\ i \in 1 .. Len(tokens) + 1 /\ j \in 0 .. Len(tokens) /\ i < j /\ j \in Nat
  BY DEF At, Part, Balanced
<1>2. Balanced(i, j) /\ Splits(i, j) = {} BY BalancedNot DEF Part
<1>3. Trees[<<i, j>>] = TreeOf(Trees, i, j) BY <1>1, TreesAre
<1>4. TreeOf(Trees, i, j) = Trees[<<i + 1, j>>] \o <<-i>> BY <1>1, <1>2 DEF TreeOf
<1>5. Whole(Append(e, -i), i, j) BY <1>1, WholeNot DEF Part
<1>6. e \o <<-i>> = Append(e, -i)
  <2>1. e \in Seq(Int) /\ -i \in Int BY <1>1 DEF Part, Whole
  <2> QED BY <2>1, Appended
<1> QED BY <1>2, <1>3, <1>4, <1>5, <1>6 DEF Part

LEMMA PartGroup ==
  ASSUME tokens \in Seq(Token), NEW i \in At, tokens[i] = "(", NEW j \in At, tokens[j] = ")",
         NEW e, Part(e, i + 1, j - 1)
  PROVE  Part(e, i, j) /\ Splits(i, j) = {}
<1>1. i \in Nat \ {0} /\ i \in 1 .. Len(tokens) + 1 /\ j \in 0 .. Len(tokens) /\ i < j /\ j \in Nat
  BY DEF At, Part, Balanced
<1>2. Balanced(i, j) /\ Splits(i, j) = {} BY BalancedGroup DEF Part
<1>3. Trees[<<i, j>>] = TreeOf(Trees, i, j) BY <1>1, TreesAre
<1>4. TreeOf(Trees, i, j) = Trees[<<i + 1, j - 1>>] BY <1>1, <1>2 DEF TreeOf
<1>5. Whole(e, i, j) BY <1>1, WholeGroup DEF Part
<1> QED BY <1>2, <1>3, <1>4, <1>5 DEF Part, Ends

LEMMA PartJoin ==
  ASSUME tokens \in Seq(Token), NEW i, NEW j, NEW k \in At, tokens[k] \in BinaryToken,
         NEW a, NEW c, Part(a, i, k - 1), Part(c, k + 1, j),
         AtLeast(i, k - 1, k), Above(k + 1, j, k), NEW e, e = Append(a \o c, k)
  PROVE  Part(e, i, j) /\ Between(i, k, j)
<1>0. Between(i, k, j)
  <2>1. Balanced(i, k - 1) /\ Balanced(k + 1, j) BY DEF Part
  <2> QED BY <2>1, BalancedJoin
<1>1. /\ Balanced(i, j) /\ Splits(i, j) = Splits(i, k - 1) \cup {k} \cup Splits(k + 1, j)
      /\ i < k /\ k < j
  BY <1>0 DEF Between
<1>2. i \in Nat \ {0} /\ i \in 1 .. Len(tokens) + 1 /\ j \in 0 .. Len(tokens) /\ j \in Nat
      /\ k \in Nat /\ i < j
  BY <1>1 DEF At, Balanced
<1>3. Trees[<<i, j>>] = TreeOf(Trees, i, j) BY <1>2, TreesAre
<1>4. ASSUME NEW l \in Splits(i, j)
      PROVE  (l < k => Prec(l) >= Prec(k)) /\ (l > k => Prec(l) > Prec(k))
  <2>1. \A x \in Splits(i, k - 1) : x \in Int /\ x < k BY <1>2 DEF Splits
  <2>2. \A x \in Splits(k + 1, j) : x \in Int /\ x > k BY <1>2 DEF Splits
  <2> QED BY <1>1, <1>2, <2>1, <2>2 DEF AtLeast, Above
<1>5. Agreeing => Root(i, j) = k
  <2> SUFFICES ASSUME Agreeing PROVE Root(i, j) = k OBVIOUS
  <2>1. k \in Splits(i, j) BY <1>1
  <2> QED BY <1>2, <1>4, <2>1, RootIs
<1>6. Agreeing => TreeOf(Trees, i, j) = (Trees[<<i, k - 1>>] \o Trees[<<k + 1, j>>]) \o <<k>>
  <2> SUFFICES ASSUME Agreeing
               PROVE  TreeOf(Trees, i, j) = (Trees[<<i, k - 1>>] \o Trees[<<k + 1, j>>]) \o <<k>>
    OBVIOUS
  <2>1. Splits(i, j) # {} BY <1>1
  <2>2. ~(i > j) BY <1>2
  <2>3. TreeOf(Trees, i, j) = (Trees[<<i, Root(i, j) - 1>>] \o Trees[<<Root(i, j) + 1, j>>]) \o <<Root(i, j)>>
    BY ONLY <2>1, <2>2, Zenon DEF TreeOf
  <2> QED BY ONLY <1>5, <2>3, Agreeing, Zenon
<1>7. Whole(Append(a \o c, k), i, j) BY <1>1, <1>2, WholeJoin DEF Part
<1>8. (a \o c) \o <<k>> = Append(a \o c, k)
  <2>1. a \in Seq(Int) /\ c \in Seq(Int) /\ k \in Int BY <1>2 DEF Part, Whole
  <2>2. a \o c \in Seq(Int) BY <2>1
  <2> QED BY <2>1, <2>2, Appended
<1>9. Agreeing => Append(a \o c, k) = Trees[<<i, j>>]
  <2>1. Agreeing => a = Trees[<<i, k - 1>>] /\ c = Trees[<<k + 1, j>>] BY DEF Part
  <2> QED BY <1>3, <1>6, <1>8, <2>1
<1> QED BY <1>0, <1>1, <1>7, <1>9 DEF Part

-----------------------------------------------------------------------------
(***************************************************************************)
(* The calls that are under way.                                           *)
(***************************************************************************)

Ahead(p) == IF p < Len(tokens) THEN tokens[p + 1] ELSE "stop"

\* What may follow what, as the author writes it; no bracket closes that was not opened.
Spelled ==
  /\ \A k \in 1 .. Len(tokens) - 1 :
       /\ tokens[k] \in Operand \cup {")"} => tokens[k + 1] \in BinaryToken \cup {")"}
       /\ tokens[k] \notin Operand \cup {")"} => tokens[k + 1] \in Operand \cup {"!", "~", "("}
  /\ tokens # << >> => tokens[1] \in Operand \cup {"!", "~", "("}
  /\ \A p \in 0 .. Len(tokens) : Depth(p) >= 0

\* Where the q-th expression of a call begins that began itself at token b.
Begin(ops, b, q) == IF q = 1 THEN b ELSE ops[q - 1] + 1

\* The operators on the stack bind tighter from one to the next, and each has behind it
\* the expression to its left.
Stacked(ops, exprs, b) ==
  /\ \A q \in 1 .. Len(ops) :
       /\ ops[q] \in At /\ tokens[ops[q]] \in BinaryToken
       /\ Part(exprs[q], Begin(ops, b, q), ops[q] - 1)
       /\ AtLeast(Begin(ops, b, q), ops[q] - 1, ops[q])
  /\ \A q \in 1 .. Len(ops) - 1 : Prec(ops[q]) < Prec(ops[q + 1])

\* A call that began at token b and waits for the expression in brackets at token n.
Waits(fr, b, n) ==
  /\ Stacked(fr.ops, fr.exprs, b) /\ Len(fr.exprs) = Len(fr.ops)
  /\ n - 1 \in At /\ tokens[n - 1] = "("
  /\ \/ fr.wait = "group" /\ fr.ops = << >> /\ n = b + 1
     \/ fr.wait = "unary" /\ fr.ops = << >> /\ n = b + 2 /\ tokens[b] = "!" /\ fr.op = b
     \/ fr.wait = "binary" /\ fr.ops # << >> /\ n = LastOf(fr.ops) + 2

\* The expression on top, of tokens i to p, may be the right operand of the operator
\* before it, and the left one of what comes next.
OnTop(ops, e, i, p) ==
  /\ Part(e, i, p)
  /\ ops # << >> => Above(i, p, LastOf(ops))
  /\ Ahead(p) \in BinaryToken => AtLeast(i, p, p + 1)

\* A call in its loop.
Runs(fr, b, p) ==
  /\ Stacked(fr.ops, fr.exprs, b)
  /\ \/ fr.ops = << >> /\ fr.exprs = << >> /\ p = b - 1 /\ Ahead(p) \in {"!", "("}
     \/ /\ Len(fr.exprs) = Len(fr.ops) + 1
        /\ OnTop(fr.ops, fr.exprs[Len(fr.ops) + 1], Begin(fr.ops, b, Len(fr.ops) + 1), p)

\* The expressions under way began at the tokens b, the innermost last.
UnderWay(b, fs, p, v, ph) ==
  /\ b \in Seq(At) /\ b # << >> /\ b[1] = 1
  /\ Len(b) = IF ph = "loop" THEN Len(fs) ELSE Len(fs) + 1
  /\ \A f \in 1 .. Len(b) - 1 : Waits(fs[f], b[f], b[f + 1])
  /\ ph = "expression" => p = b[Len(b)] - 1
  /\ ph = "loop" => Runs(fs[Len(b)], b[Len(b)], p)
  /\ ph \in {"return", "done"} => Part(v, b[Len(b)], p) /\ Ahead(p) \notin BinaryToken
  /\ ph = "done" => fs = << >>

Parsing == phase \in {"expression", "loop", "return", "done"}

Following ==
  \E b, fs, p, v, ph :
    /\ fs = frames /\ p = pos /\ v = value /\ ph = phase
    /\ UnderWay(b, fs, p, v, ph)

PInv == Spelled /\ (Parsing /\ Readable => Following)

-----------------------------------------------------------------------------
\* The parser does not write: what is said of the tokens stays.
LEMMA SamePart ==
  ASSUME tokens' = tokens, NEW CONSTANT e, NEW CONSTANT i, NEW CONSTANT j
  PROVE  Part(e, i, j)' <=> Part(e, i, j)
<1>1. Balanced(i, j)' <=> Balanced(i, j) BY DEF Balanced, At, Depth, Openings, Closings
<1>2. Whole(e, i, j)' <=> Whole(e, i, j)
  <2>1. Inside(i, j)' = Inside(i, j) BY DEF Inside
  <2>2. \A k : Mark(k)' = Mark(k) BY DEF Mark
  <2>3. LeftToRight(e)' <=> LeftToRight(e) BY DEF LeftToRight
  <2> QED BY <2>1, <2>2, <2>3 DEF Whole
<1>3. Ends(j)' <=> Ends(j) BY DEF Ends
<1>4. Agreeing' <=> Agreeing BY DEF Agreeing, At, Operator
<1>5. Trees' = Trees BY DEF Trees, Root, Splits
<1> QED BY <1>1, <1>2, <1>3, <1>4, <1>5 DEF Part

LEMMA SamePrec ==
  ASSUME tokens' = tokens, NEW CONSTANT i, NEW CONSTANT j, NEW CONSTANT k
  PROVE  (AtLeast(i, j, k)' <=> AtLeast(i, j, k)) /\ (Above(i, j, k)' <=> Above(i, j, k))
         /\ Prec(k)' = Prec(k)
<1>1. Splits(i, j)' = Splits(i, j) BY DEF Splits
<1>2. \A l : Prec(l)' = Prec(l) BY DEF Prec, Operator
<1> QED BY <1>1, <1>2 DEF AtLeast, Above

LEMMA SameStack ==
  ASSUME tokens' = tokens, NEW CONSTANT ops, NEW CONSTANT exprs, NEW CONSTANT b
  PROVE  Stacked(ops, exprs, b)' <=> Stacked(ops, exprs, b)
<1>1. \A e, i, j : Part(e, i, j)' <=> Part(e, i, j) BY SamePart
<1>2. \A i, j, k : (AtLeast(i, j, k)' <=> AtLeast(i, j, k)) /\ Prec(k)' = Prec(k) BY SamePrec
<1> QED BY <1>1, <1>2 DEF Stacked, At, Begin

LEMMA SameUnderWay ==
  ASSUME tokens' = tokens, NEW CONSTANT b, NEW CONSTANT fs, NEW CONSTANT p, NEW CONSTANT v,
         NEW CONSTANT ph
  PROVE  UnderWay(b, fs, p, v, ph)' <=> UnderWay(b, fs, p, v, ph)
<1>1. \A e, i, j : Part(e, i, j)' <=> Part(e, i, j) BY SamePart
<1>2. \A ops, exprs, c : Stacked(ops, exprs, c)' <=> Stacked(ops, exprs, c) BY SameStack
<1>3. \A fr, c, n : Waits(fr, c, n)' <=> Waits(fr, c, n) BY <1>2 DEF Waits, At, LastOf
<1>4. Ahead(p)' = Ahead(p) BY DEF Ahead
<1>5. \A ops, e, i : OnTop(ops, e, i, p)' <=> OnTop(ops, e, i, p)
  <2>1. \A i, j, k : (AtLeast(i, j, k)' <=> AtLeast(i, j, k)) /\ (Above(i, j, k)' <=> Above(i, j, k))
    BY SamePrec
  <2> QED BY <1>1, <1>4, <2>1 DEF OnTop, LastOf
<1>6. \A fr, c : Runs(fr, c, p)' <=> Runs(fr, c, p) BY <1>2, <1>4, <1>5 DEF Runs, Begin
<1> QED BY <1>1, <1>3, <1>4, <1>6 DEF UnderWay, At

\* The parser's step leads to such calls again.
LEMMA FollowsOn ==
  ASSUME tokens' = tokens, Spelled, NEW b, UnderWay(b, frames', pos', value', phase')
  PROVE  PInv'
<1>1. PICK fs, p, v, ph : fs = frames' /\ p = pos' /\ v = value' /\ ph = phase' OBVIOUS
<1>2. UnderWay(b, fs, p, v, ph) BY <1>1
<1>3. UnderWay(b, fs, p, v, ph)' BY <1>2, SameUnderWay
<1>4. Following' BY <1>1, <1>3 DEF Following
<1>5. Spelled' BY DEF Spelled, Depth, Openings, Closings
<1> QED BY <1>4, <1>5 DEF PInv

\* What the parser can rely on while it reads.
Reading == EInv /\ RInv /\ Spelled /\ Parsing /\ Readable

LEMMA ReadingFacts ==
  ASSUME Reading
  PROVE  /\ tokens \in Seq(Token) /\ Len(tokens) \in Nat /\ At = 1 .. Len(tokens) /\ At \subseteq Nat
         /\ pos \in 0 .. Len(tokens) /\ frames \in Seq(Stacks) /\ value \in Seq(Int)
         /\ Depth(0) = 0 /\ Depth(Len(tokens)) = 0
         /\ 1 \in At /\ tokens[Len(tokens)] \in Operand \cup {")"}
         /\ Peek = Ahead(pos)
<1>1. tokens \in Seq(Token) /\ Len(tokens) \in Nat /\ At = 1 .. Len(tokens) /\ At \subseteq Nat
      /\ pos \in 0 .. Len(tokens) /\ frames \in Seq(Stacks) /\ value \in Seq(Int)
  BY DEF Reading, EInv, RInv, Written, Bracketed, At
<1>2. phase # "write" BY DEF Reading, Parsing
<1>3. Brackets(tokens) = 0 /\ ~Expecting BY <1>2 DEF Reading, RInv, Written
<1>4. Depth(0) = 0 /\ Depth(Len(tokens)) = 0 BY <1>3, DepthEnds
<1>5. tokens # << >> /\ tokens[Len(tokens)] \in Operand \cup {")"} BY <1>3 DEF Expecting, LastOf
<1>6. 1 \in At BY <1>1, <1>5
<1>7. Peek = Ahead(pos) BY DEF Peek, Ahead
<1> QED BY <1>1, <1>4, <1>5, <1>6, <1>7

\* Behind an operator, and at the beginning of a bracket, comes an operand.
LEMMA OperandFollows ==
  ASSUME Reading, NEW k \in At, tokens[k] \in BinaryToken \cup {"!"}
  PROVE  k + 1 \in At /\ tokens[k + 1] \in Operand \cup {"("}
<1>1. tokens[k] \notin Operand \cup {")"} /\ tokens[k] # "(" BY DEF BinaryToken, Operand
<1>2. k # Len(tokens) BY <1>1, ReadingFacts
<1>3. k \in 1 .. Len(tokens) - 1 /\ k + 1 \in At /\ k \in Nat BY <1>2, ReadingFacts
<1>4. tokens[k + 1] \in Operand \cup {"!", "~", "("} BY <1>1, <1>3 DEF Reading, Spelled
<1>5. tokens[k + 1] # "~" /\ (tokens[k + 1] = "!" /\ k + 1 > 1 => tokens[(k + 1) - 1] = "(")
  BY <1>3 DEF Reading, Readable
<1>6. (k + 1) - 1 = k /\ k + 1 > 1 BY <1>3, ReadingFacts
<1> QED BY <1>1, <1>3, <1>4, <1>5, <1>6

LEMMA BracketOpens ==
  ASSUME Reading, NEW k \in At, tokens[k] = "("
  PROVE  k + 1 \in At
<1>1. k # Len(tokens) BY ReadingFacts DEF Operand
<1> QED BY <1>1, ReadingFacts

\* Behind an operand comes an operator, a closing bracket or the end.
LEMMA PartEnds ==
  ASSUME Reading, NEW e, NEW i, NEW p, Part(e, i, p)
  PROVE  /\ i \in At /\ p \in At /\ i <= p
         /\ Ahead(p) \in BinaryToken \/ (Ahead(p) = ")" /\ p + 1 \in At) \/ (Ahead(p) = "stop" /\ p = Len(tokens))
         /\ Ahead(p) \notin UnaryToken \cup {"("}
         /\ Ahead(p) \in BinaryToken => p + 1 \in At /\ tokens[p + 1] \in BinaryToken
<1>1. i \in At /\ p \in At /\ i <= p /\ tokens[p] \in Operand \cup {")"} BY DEF Part, Balanced, Ends
<1>2. p \in Nat /\ Len(tokens) \in Nat /\ p <= Len(tokens) BY <1>1, ReadingFacts
<1>3. CASE p < Len(tokens)
  <2>1. Ahead(p) = tokens[p + 1] /\ p + 1 \in At /\ p \in 1 .. Len(tokens) - 1
    BY <1>1, <1>2, <1>3, ReadingFacts DEF Ahead
  <2>2. tokens[p + 1] \in BinaryToken \cup {")"} BY <1>1, <2>1 DEF Reading, Spelled
  <2>3. tokens[p + 1] # "^" BY <2>1 DEF Reading, Readable
  <2> QED BY <1>1, <2>1, <2>2, <2>3 DEF BinaryToken, UnaryToken
<1>4. CASE ~(p < Len(tokens))
  <2>1. Ahead(p) = "stop" /\ p = Len(tokens) BY <1>2, <1>4 DEF Ahead
  <2> QED BY <1>1, <2>1 DEF BinaryToken, UnaryToken
<1> QED BY <1>3, <1>4

\* The operators do not know what is pushed onto the expressions.
LEMMA StackedOn ==
  ASSUME NEW ops \in Seq(Nat), NEW exprs \in Seq(Seq(Int)), NEW e \in Seq(Int), NEW b,
         Len(exprs) = Len(ops), Stacked(ops, exprs, b)
  PROVE  LET r == Append(exprs, e)
         IN  Stacked(ops, r, b) /\ Len(r) = Len(ops) + 1 /\ r[Len(ops) + 1] = e /\ r \in Seq(Seq(Int))
<1>1. PICK r : r = Append(exprs, e) OBVIOUS
<1>2. /\ Len(r) = Len(ops) + 1 /\ r[Len(ops) + 1] = e /\ r \in Seq(Seq(Int))
      /\ \A q \in 1 .. Len(ops) : r[q] = exprs[q]
  BY <1>1
<1>3. Stacked(ops, r, b) BY <1>2 DEF Stacked
<1> QED BY <1>1, <1>2, <1>3

\* An operand is pushed.
LEMMA OperandPushed ==
  ASSUME NEW fr \in Stacks, NEW b, NEW e, NEW p, NEW new,
         Stacked(fr.ops, fr.exprs, b), Len(fr.exprs) = Len(fr.ops),
         Part(e, Begin(fr.ops, b, Len(fr.ops) + 1), p),
         Splits(Begin(fr.ops, b, Len(fr.ops) + 1), p) = {},
         new.ops = fr.ops, new.exprs = Append(fr.exprs, e)
  PROVE  Runs(new, b, p)
<1>1. fr.ops \in Seq(Nat) /\ fr.exprs \in Seq(Seq(Int)) BY DEF Stacks
<1>2. e \in Seq(Int) BY DEF Part, Whole
<1>3. Stacked(new.ops, new.exprs, b) /\ Len(new.exprs) = Len(new.ops) + 1
      /\ new.exprs[Len(new.ops) + 1] = e
  BY <1>1, <1>2, StackedOn
<1>4. PICK i : i = Begin(fr.ops, b, Len(fr.ops) + 1) OBVIOUS
<1>5. OnTop(new.ops, e, i, p) BY <1>4 DEF OnTop, Above, AtLeast
<1> QED BY <1>3, <1>4, <1>5 DEF Runs

\* The innermost call goes on.
LEMMA GoesOn ==
  ASSUME Reading, frames # << >>, NEW fr \in Stacks, NEW b, NEW p, NEW v,
         b \in Seq(At), b # << >>, b[1] = 1, Len(b) = Len(frames),
         \A f \in 1 .. Len(b) - 1 : Waits(frames[f], b[f], b[f + 1]),
         Runs(fr, b[Len(b)], p)
  PROVE  UnderWay(b, Append(Front(frames), fr), p, v, "loop")
<1>1. PICK fs : fs = Append(Front(frames), fr) OBVIOUS
<1>2. frames \in Seq(Stacks) BY ReadingFacts
<1>3. /\ Len(fs) = Len(frames) /\ fs[Len(fs)] = fr
      /\ \A f \in 1 .. Len(fs) - 1 : fs[f] = frames[f]
  BY <1>1, <1>2, ReplaceLast
<1>4. UnderWay(b, fs, p, v, "loop") BY <1>3 DEF UnderWay
<1> QED BY <1>1, <1>4

\* It waits.
LEMMA GoesIn ==
  ASSUME Reading, frames # << >>, NEW fr \in Stacks, NEW b, NEW n, NEW v,
         b \in Seq(At), b # << >>, b[1] = 1, Len(b) = Len(frames),
         \A f \in 1 .. Len(b) - 1 : Waits(frames[f], b[f], b[f + 1]),
         Waits(fr, b[Len(b)], n), n \in At
  PROVE  UnderWay(Append(b, n), Append(Front(frames), fr), n - 1, v, "expression")
<1>1. PICK fs : fs = Append(Front(frames), fr) OBVIOUS
<1>2. frames \in Seq(Stacks) BY ReadingFacts
<1>3. /\ Len(fs) = Len(frames) /\ fs[Len(fs)] = fr
      /\ \A f \in 1 .. Len(fs) - 1 : fs[f] = frames[f]
  BY <1>1, <1>2, ReplaceLast
<1>4. PICK c : c = Append(b, n) OBVIOUS
<1>5. PICK m : m = Len(b) OBVIOUS
<1>6. /\ c \in Seq(At) /\ Len(c) = m + 1 /\ c[m + 1] = n /\ m \in Nat /\ m >= 1
      /\ \A f \in 1 .. m : c[f] = b[f]
  BY <1>4, <1>5
<1>7. c[1] = 1 /\ c # << >> BY <1>6
<1>8. ASSUME NEW f \in 1 .. m PROVE Waits(fs[f], c[f], c[f + 1])
  <2>1. CASE f = m BY <1>3, <1>5, <1>6, <2>1
  <2>2. CASE f # m
    <3>1. f \in 1 .. m - 1 /\ f + 1 \in 1 .. m BY <1>6, <2>2
    <3>2. fs[f] = frames[f] /\ c[f] = b[f] /\ c[f + 1] = b[f + 1] BY <1>3, <1>5, <1>6, <3>1
    <3> QED BY <1>5, <3>1, <3>2
  <2> QED BY <2>1, <2>2
<1>9. UnderWay(c, fs, n - 1, v, "expression") BY <1>3, <1>5, <1>6, <1>7, <1>8 DEF UnderWay
<1> QED BY <1>1, <1>4, <1>9

-----------------------------------------------------------------------------
(***************************************************************************)
(* Each step of the parser.                                                *)
(***************************************************************************)

LEMMA BeginWithOperatorFollows ==
  ASSUME Reading, NEW b, UnderWay(b, frames, pos, value, phase), BeginWithOperator
  PROVE  UnderWay(b, frames', pos', value', phase')
<1> DEFINE fr == NewFrame(<< >>)
<1>1. /\ phase = "expression" /\ Peek \in UnaryToken \cup {"("} /\ frames' = Append(frames, fr)
      /\ phase' = "loop" /\ pos' = pos /\ value' = value
  BY DEF BeginWithOperator
<1>2. fr.ops = << >> /\ fr.exprs = << >> BY DEF NewFrame
<1> HIDE DEF fr
<1>3. frames \in Seq(Stacks) /\ Len(frames) \in Nat BY ReadingFacts
<1>4. /\ Len(frames') = Len(frames) + 1 /\ frames'[Len(frames) + 1] = fr
      /\ \A f \in 1 .. Len(frames) : frames'[f] = frames[f]
  BY <1>1, <1>3
<1>5. /\ b \in Seq(At) /\ b # << >> /\ b[1] = 1 /\ Len(b) = Len(frames) + 1
      /\ \A f \in 1 .. Len(b) - 1 : Waits(frames[f], b[f], b[f + 1])
      /\ pos = b[Len(b)] - 1
  BY <1>1 DEF UnderWay
<1>6. \A f \in 1 .. Len(b) - 1 : Waits(frames'[f], b[f], b[f + 1]) BY <1>3, <1>4, <1>5
<1>7. Ahead(pos) \in {"!", "("}
  <2>1. Ahead(pos) \in UnaryToken \cup {"("} BY <1>1, ReadingFacts
  <2>2. pos + 1 \in At /\ Ahead(pos) = tokens[pos + 1]
    <3>1. Ahead(pos) # "stop" BY <2>1 DEF UnaryToken
    <3> QED BY <3>1, ReadingFacts DEF Ahead
  <2>3. Ahead(pos) \notin {"^", "~"} BY <2>2 DEF Reading, Readable
  <2> QED BY <2>1, <2>3 DEF UnaryToken
<1>8. Stacked(fr.ops, fr.exprs, b[Len(b)]) BY <1>2 DEF Stacked
<1>9. Runs(fr, b[Len(b)], pos) BY <1>2, <1>5, <1>7, <1>8 DEF Runs
<1> QED BY <1>1, <1>4, <1>5, <1>6, <1>9 DEF UnderWay

LEMMA BeginWithOperandFollows ==
  ASSUME Reading, NEW b, UnderWay(b, frames, pos, value, phase), BeginWithOperand
  PROVE  UnderWay(b, frames', pos', value', phase')
<1>1. /\ b \in Seq(At) /\ b # << >> /\ b[1] = 1 /\ Len(b) = Len(frames) + 1
      /\ \A f \in 1 .. Len(b) - 1 : Waits(frames[f], b[f], b[f + 1])
      /\ pos = b[Len(b)] - 1
  BY DEF UnderWay, BeginWithOperand
<1>2. PICK p : p = pos + 1 OBVIOUS
<1>3. p \in At /\ tokens[p] \in Operand /\ pos' = p /\ b[Len(b)] = p /\ p \in Nat
  <2>1. Ahead(pos) \in Operand /\ pos' = pos + 1 BY ReadingFacts DEF BeginWithOperand
  <2>2. Ahead(pos) # "stop" BY <2>1 DEF Operand
  <2>3. pos + 1 \in At /\ Ahead(pos) = tokens[pos + 1] BY <2>2, ReadingFacts DEF Ahead
  <2>4. b[Len(b)] \in At /\ b[Len(b)] \in Int BY <1>1, ReadingFacts
  <2> QED BY <1>1, <1>2, <2>1, <2>3, <2>4, ReadingFacts
<1>4. Part(<<p>>, p, p) /\ Splits(p, p) = {} BY <1>3, PartOne, ReadingFacts
<1>5. CASE pos + 2 <= Len(tokens) /\ tokens[pos + 2] \in BinaryToken
  <2> DEFINE fr == NewFrame(<< <<p>> >>)
  <2>1. frames' = Append(frames, fr) /\ phase' = "loop" BY <1>2, <1>5 DEF BeginWithOperand
  <2>2. fr.ops = << >> /\ fr.exprs = << <<p>> >> BY DEF NewFrame
  <2> HIDE DEF fr
  <2>3. frames \in Seq(Stacks) /\ Len(frames) \in Nat BY ReadingFacts
  <2>4. /\ Len(frames') = Len(frames) + 1 /\ frames'[Len(frames) + 1] = fr
        /\ \A f \in 1 .. Len(frames) : frames'[f] = frames[f]
    BY <2>1, <2>3
  <2>5. \A f \in 1 .. Len(b) - 1 : Waits(frames'[f], b[f], b[f + 1]) BY <1>1, <2>3, <2>4
  <2>6. Stacked(fr.ops, fr.exprs, p) /\ Len(fr.exprs) = 1 /\ fr.exprs[1] = <<p>> /\ Len(fr.ops) = 0
    BY <2>2 DEF Stacked
  <2>7. OnTop(fr.ops, <<p>>, p, p) BY <1>4, <2>2 DEF OnTop, AtLeast, Above
  <2>8. Runs(fr, p, p) BY <2>6, <2>7 DEF Runs, Begin
  <2> QED BY <1>1, <1>3, <2>1, <2>4, <2>5, <2>8 DEF UnderWay
<1>6. CASE ~(pos + 2 <= Len(tokens) /\ tokens[pos + 2] \in BinaryToken)
  <2>1. frames' = frames /\ value' = <<p>> /\ phase' = "return" BY <1>2, <1>6 DEF BeginWithOperand
  <2>2. Ahead(p) \notin BinaryToken
    <3>1. p < Len(tokens) => pos + 2 <= Len(tokens) /\ p + 1 = pos + 2
      BY <1>2, <1>3, ReadingFacts
    <3>2. "stop" \notin BinaryToken BY DEF BinaryToken
    <3> QED BY <1>6, <3>1, <3>2 DEF Ahead
  <2> QED BY <1>1, <1>3, <1>4, <2>1, <2>2 DEF UnderWay
<1> QED BY <1>5, <1>6

\* A call in its loop that looks at "!" or a bracket has read nothing yet.
LEMMA FreshLoop ==
  ASSUME Reading, phase = "loop", NEW b, UnderWay(b, frames, pos, value, phase),
         Peek \in UnaryToken \cup {"("}
  PROVE  /\ Top.ops = << >> /\ Top.exprs = << >> /\ pos = b[Len(b)] - 1
         /\ Peek \in {"!", "("} /\ tokens[b[Len(b)]] = Peek /\ b[Len(b)] = pos + 1
         /\ b[Len(b)] \in At /\ b[Len(b)] \in Nat
<1>1. /\ b \in Seq(At) /\ b # << >> /\ Len(b) = Len(frames)
      /\ Runs(frames[Len(b)], b[Len(b)], pos)
  BY DEF UnderWay
<1>2. Runs(Top, b[Len(b)], pos) BY <1>1 DEF Top
<1>3. b[Len(b)] \in At /\ b[Len(b)] \in Nat BY <1>1, ReadingFacts
<1>4. Ahead(pos) \in UnaryToken \cup {"("} /\ Peek = Ahead(pos) BY ReadingFacts
<1>5. Top.ops = << >> /\ Top.exprs = << >> /\ pos = b[Len(b)] - 1 /\ Ahead(pos) \in {"!", "("}
  BY <1>2, <1>4, PartEnds DEF Runs, OnTop
<1>6. Ahead(pos) # "stop" BY <1>5
<1>7. Ahead(pos) = tokens[pos + 1] BY <1>6 DEF Ahead
<1>8. b[Len(b)] = pos + 1 BY <1>3, <1>5
<1> QED BY <1>3, <1>4, <1>5, <1>7, <1>8

\* The calls around the innermost one.
LEMMA InLoop ==
  ASSUME Reading, phase = "loop", NEW b, UnderWay(b, frames, pos, value, phase)
  PROVE  /\ frames # << >> /\ b \in Seq(At) /\ b # << >> /\ b[1] = 1 /\ Len(b) = Len(frames)
         /\ \A f \in 1 .. Len(b) - 1 : Waits(frames[f], b[f], b[f + 1])
         /\ Runs(Top, b[Len(b)], pos) /\ Top \in Stacks
<1>1. frames # << >> BY DEF Reading, EInv, Supplied
<1>2. Top \in Stacks BY <1>1, TopType DEF Reading
<1> QED BY <1>1, <1>2 DEF UnderWay, Top

LEMMA ReadUnaryFollows ==
  ASSUME Reading, NEW b, UnderWay(b, frames, pos, value, phase), ReadUnary
  PROVE  \E c : UnderWay(c, frames', pos', value', phase')
<1>1. phase = "loop" /\ Peek \in UnaryToken \ {"~"} /\ ReadOperand(Top, "unary", <<-(pos + 1)>>)
  BY DEF ReadUnary
<1>2. PICK a : a = b[Len(b)] OBVIOUS
<1>3. /\ Top.ops = << >> /\ Top.exprs = << >> /\ a \in At /\ a \in Nat /\ a = pos + 1
      /\ tokens[a] = "!" /\ pos + 2 = a + 1
  <2>1. /\ Top.ops = << >> /\ Top.exprs = << >> /\ a \in At /\ a \in Nat /\ a = pos + 1
        /\ tokens[a] = Peek /\ Peek \in {"!", "("}
    BY <1>1, <1>2, FreshLoop
  <2>2. Peek # "(" BY <1>1 DEF UnaryToken
  <2>3. pos \in Nat BY ReadingFacts
  <2> QED BY <2>1, <2>2, <2>3
<1>4. a + 1 \in At /\ tokens[a + 1] \in Operand \cup {"("} BY <1>3, OperandFollows
<1>5. /\ frames # << >> /\ b \in Seq(At) /\ b # << >> /\ b[1] = 1 /\ Len(b) = Len(frames)
      /\ \A f \in 1 .. Len(b) - 1 : Waits(frames[f], b[f], b[f + 1])
      /\ Runs(Top, b[Len(b)], pos) /\ Top \in Stacks
  BY <1>1, InLoop
<1>6. Stacked(Top.ops, Top.exprs, a) /\ Len(Top.ops) = 0 /\ Len(Top.exprs) = 0
  BY <1>3 DEF Stacked
<1>7. CASE tokens[a + 1] = "("
  <2> DEFINE fr == [Top EXCEPT !.wait = "unary", !.op = pos + 1]
  <2>1. frames' = Append(Front(frames), fr) /\ pos' = pos + 2 /\ value' = value /\ phase' = "expression"
    BY <1>1, <1>3, <1>7 DEF ReadOperand
  <2>2. fr \in Stacks /\ fr.ops = << >> /\ fr.exprs = << >> /\ fr.wait = "unary" /\ fr.op = a
    BY <1>3, <1>5 DEF Stacks
  <2> HIDE DEF fr
  <2>3. PICK n : n = a + 2 OBVIOUS
  <2>4. n - 1 = a + 1 /\ pos' = n - 1 BY <1>3, <2>1, <2>3
  <2>5. n \in At
    <3>1. (a + 1) + 1 \in At BY <1>4, <1>7, BracketOpens
    <3>2. (a + 1) + 1 = n BY <1>3, <2>3
    <3> QED BY <3>1, <3>2
  <2>6. Waits(fr, a, n) BY <1>3, <1>4, <1>6, <1>7, <2>2, <2>3, <2>4 DEF Waits
  <2>7. UnderWay(Append(b, n), Append(Front(frames), fr), n - 1, value, "expression")
    BY <1>2, <1>5, <2>2, <2>5, <2>6, GoesIn
  <2> QED BY <2>1, <2>4, <2>7
<1>8. CASE tokens[a + 1] \in Operand
  <2> DEFINE e == <<a + 1>> \o <<-a>>
             fr == [Top EXCEPT !.exprs = Append(@, e)]
  <2>1. frames' = Append(Front(frames), fr) /\ pos' = pos + 2 /\ value' = value /\ phase' = "loop"
    <3>1. tokens[a + 1] # "(" BY <1>8 DEF Operand
    <3> QED BY <1>1, <1>3, <1>8, <3>1 DEF ReadOperand
  <2>2. e \in Seq(Int) /\ e = Append(<<a + 1>>, -a)
    <3>1. <<a + 1>> \in Seq(Int) /\ -a \in Int BY <1>3
    <3> QED BY <3>1, Appended
  <2> HIDE DEF e
  <2>3. Append(Top.exprs, e) \in Seq(Seq(Int)) BY <1>5, <2>2 DEF Stacks
  <2>4. fr \in Stacks /\ fr.ops = Top.ops /\ fr.exprs = Append(Top.exprs, e)
    BY <1>5, <2>3 DEF Stacks
  <2> HIDE DEF fr
  <2>5. Part(<<a + 1>>, a + 1, a + 1) /\ Splits(a + 1, a + 1) = {}
    BY <1>4, <1>8, PartOne, ReadingFacts
  <2>6. Part(e, a, a + 1) /\ Splits(a, a + 1) = {}
    BY <1>3, <2>2, <2>5, PartNot, ReadingFacts
  <2>7. Begin(Top.ops, a, Len(Top.ops) + 1) = a BY <1>6 DEF Begin
  <2>8. Runs(fr, a, a + 1) BY <1>5, <1>6, <2>4, <2>6, <2>7, OperandPushed
  <2>9. UnderWay(b, Append(Front(frames), fr), a + 1, value, "loop")
    BY <1>2, <1>5, <2>4, <2>8, GoesOn
  <2> QED BY <1>3, <2>1, <2>9
<1> QED BY <1>4, <1>7, <1>8

LEMMA ReadGroupFollows ==
  ASSUME Reading, NEW b, UnderWay(b, frames, pos, value, phase), ReadGroup
  PROVE  \E c : UnderWay(c, frames', pos', value', phase')
<1> DEFINE fr == [Top EXCEPT !.wait = "group"]
<1>1. /\ phase = "loop" /\ Peek = "(" /\ pos' = pos + 1 /\ phase' = "expression" /\ value' = value
      /\ frames' = Append(Front(frames), fr)
  BY DEF ReadGroup
<1>2. PICK a : a = b[Len(b)] OBVIOUS
<1>3. /\ Top.ops = << >> /\ Top.exprs = << >> /\ a \in At /\ a \in Nat /\ a = pos + 1
      /\ tokens[a] = "("
  BY <1>1, <1>2, FreshLoop
<1>4. /\ frames # << >> /\ b \in Seq(At) /\ b # << >> /\ b[1] = 1 /\ Len(b) = Len(frames)
      /\ \A f \in 1 .. Len(b) - 1 : Waits(frames[f], b[f], b[f + 1])
      /\ Runs(Top, b[Len(b)], pos) /\ Top \in Stacks
  BY <1>1, InLoop
<1>5. Stacked(Top.ops, Top.exprs, a) /\ Len(Top.ops) = 0 /\ Len(Top.exprs) = 0
  BY <1>3 DEF Stacked
<1>6. fr \in Stacks /\ fr.ops = << >> /\ fr.exprs = << >> /\ fr.wait = "group"
  BY <1>3, <1>4 DEF Stacks
<1> HIDE DEF fr
<1>7. PICK n : n = a + 1 OBVIOUS
<1>8. n - 1 = a /\ pos' = n - 1 BY <1>1, <1>3, <1>7
<1>9. n \in At BY <1>3, <1>7, BracketOpens
<1>10. Waits(fr, a, n) BY <1>3, <1>5, <1>6, <1>7, <1>8 DEF Waits
<1>11. UnderWay(Append(b, n), Append(Front(frames), fr), n - 1, value, "expression")
  BY <1>2, <1>4, <1>6, <1>9, <1>10, GoesIn
<1> QED BY <1>1, <1>8, <1>11

\* What the loop looks at when it asks for a binary operator.
LEMMA LoadedLoop ==
  ASSUME Reading, NEW b, UnderWay(b, frames, pos, value, phase), AtBinary
  PROVE  /\ phase = "loop" /\ Len(Top.exprs) = Len(Top.ops) + 1
         /\ Top.ops \in Seq(Nat) /\ Top.exprs \in Seq(Seq(Int))
         /\ Len(Top.ops) \in Nat
         /\ Stacked(Top.ops, Top.exprs, b[Len(b)])
         /\ OnTop(Top.ops, Top.exprs[Len(Top.ops) + 1], Begin(Top.ops, b[Len(b)], Len(Top.ops) + 1), pos)
         /\ Peek = Ahead(pos)
<1>1. phase = "loop" /\ Peek \notin UnaryToken \cup {"("} BY DEF AtBinary
<1>2. Runs(Top, b[Len(b)], pos) /\ Top \in Stacks BY <1>1, InLoop
<1>3. Ahead(pos) \notin {"!", "("} /\ Peek = Ahead(pos) BY <1>1, ReadingFacts DEF UnaryToken
<1>4. Top.ops \in Seq(Nat) /\ Top.exprs \in Seq(Seq(Int)) BY <1>2 DEF Stacks
<1> QED BY <1>1, <1>2, <1>3, <1>4 DEF Runs

\* The expression stack behind an operation.
Merged(exprs, x, e, m) == Len(x) = m /\ x[m] = e /\ \A q \in 1 .. m - 1 : x[q] = exprs[q]

LEMMA Combined ==
  ASSUME NEW exprs \in Seq(Seq(Int)), NEW m \in Nat, m >= 1, Len(exprs) = m + 1, NEW op \in Int,
         NEW x, x = Combine(exprs, op), NEW e, e = Append(exprs[m] \o exprs[m + 1], op)
  PROVE  Merged(exprs, x, e, m)
<1>1. e \in Seq(Int)
  <2>1. exprs[m] \in Seq(Int) /\ exprs[m + 1] \in Seq(Int) OBVIOUS
  <2>2. exprs[m] \o exprs[m + 1] \in Seq(Int) BY <2>1, Joined
  <2> QED BY <2>2, Appended
<1>2. PICK s : s = SubSeq(exprs, 1, m - 1) OBVIOUS
<1>3. Len(s) = m - 1 /\ \A q \in 1 .. m - 1 : s[q] = exprs[q]
  <2>1. PICK l : l = m - 1 OBVIOUS
  <2>2. l \in Nat /\ l <= Len(exprs) BY <2>1
  <2>3. \A q \in 1 .. l : exprs[q] \in Seq(Int) BY <2>2
  <2>4. Len(SubSeq(exprs, 1, l)) = l /\ \A q \in 1 .. l : SubSeq(exprs, 1, l)[q] = exprs[q]
    BY <2>2, <2>3
  <2> QED BY <1>2, <2>1, <2>4
<1>4. s \in Seq(Seq(Int))
  <2>1. \A q \in 1 .. m - 1 : exprs[q] \in Seq(Int) BY Len(exprs) = m + 1
  <2> QED BY <1>2, <2>1
<1>5. PICK r : r = Append(s, e) OBVIOUS
<1>6. Combine(exprs, op) = r
  <2>1. (m + 1) - 2 = m - 1 /\ (m + 1) - 1 = m OBVIOUS
  <2> QED BY <1>2, <1>5, <2>1 DEF Combine
<1>7. Len(r) = m /\ r[m] = e /\ \A q \in 1 .. m - 1 : r[q] = s[q]
  <2>1. PICK l : l = m - 1 OBVIOUS
  <2>2. l \in Nat /\ m = l + 1 /\ Len(s) = l BY <1>3, <2>1
  <2>3. PICK S : S = Seq(Int) OBVIOUS
  <2>4. s \in Seq(S) /\ e \in S BY <1>1, <1>4, <2>3
  <2>5. Len(r) = l + 1 /\ r[l + 1] = e /\ \A q \in 1 .. l : r[q] = s[q]
    BY ONLY <1>5, <2>2, <2>4
  <2> QED BY <2>1, <2>2, <2>5
<1> QED BY <1>3, <1>6, <1>7 DEF Merged

LEMMA ReduceFollows ==
  ASSUME Reading, NEW b, UnderWay(b, frames, pos, value, phase), Reduce
  PROVE  UnderWay(b, frames', pos', value', phase')
<1>1. /\ AtBinary /\ Yields /\ UNCHANGED <<pos, value, phase>>
      /\ frames' = Append(Front(frames), [Top EXCEPT !.ops = Front(@),
                                                     !.exprs = Combine(@, LastOf(Top.ops))])
  BY DEF Reduce
<1>2. /\ phase = "loop" /\ Len(Top.exprs) = Len(Top.ops) + 1
      /\ Top.ops \in Seq(Nat) /\ Top.exprs \in Seq(Seq(Int))
      /\ Len(Top.ops) \in Nat
      /\ Stacked(Top.ops, Top.exprs, b[Len(b)])
      /\ OnTop(Top.ops, Top.exprs[Len(Top.ops) + 1], Begin(Top.ops, b[Len(b)], Len(Top.ops) + 1), pos)
      /\ Peek = Ahead(pos)
  BY <1>1, LoadedLoop
<1>3. /\ frames # << >> /\ b \in Seq(At) /\ b # << >> /\ b[1] = 1 /\ Len(b) = Len(frames)
      /\ \A f \in 1 .. Len(b) - 1 : Waits(frames[f], b[f], b[f + 1])
      /\ Top \in Stacks
  BY <1>2, InLoop
<1>4. PICK ops, exprs, a, m : ops = Top.ops /\ exprs = Top.exprs /\ a = b[Len(b)] /\ m = Len(Top.ops)
  OBVIOUS
<1>5. Top.ops # << >> BY <1>1 DEF Yields
<1>6. PICK k, i : k = ops[m] /\ i = Begin(ops, a, m) OBVIOUS
<1>7. /\ m \in Nat /\ m >= 1 /\ ops \in Seq(Nat) /\ Len(ops) = m /\ exprs \in Seq(Seq(Int))
      /\ Len(exprs) = m + 1 /\ Stacked(ops, exprs, a) /\ LastOf(ops) = k
      /\ LastOf(Top.ops) = k
  BY <1>2, <1>4, <1>5, <1>6 DEF LastOf
<1>8. k \in At /\ tokens[k] \in BinaryToken /\ Part(exprs[m], i, k - 1) /\ AtLeast(i, k - 1, k)
      /\ k \in Nat
  <2>1. m \in 1 .. Len(ops) BY <1>7
  <2> QED BY <1>6, <1>7, <2>1, ReadingFacts DEF Stacked
<1>9. Begin(ops, a, m + 1) = k + 1
  <2>1. m + 1 # 1 /\ (m + 1) - 1 = m BY <1>7
  <2> QED BY <1>6, <2>1 DEF Begin
<1>10. Part(exprs[m + 1], k + 1, pos) /\ Above(k + 1, pos, k)
  <2>1. OnTop(ops, exprs[m + 1], k + 1, pos) BY <1>2, <1>4, <1>9
  <2> QED BY <1>4, <1>5, <1>7, <2>1 DEF OnTop
<1>11. PICK e : e = Append(exprs[m] \o exprs[m + 1], k) OBVIOUS
<1>12. /\ Part(e, i, pos)
       /\ Splits(i, pos) = Splits(i, k - 1) \cup {k} \cup Splits(k + 1, pos)
  <2>1. Part(e, i, pos) /\ Between(i, k, pos) BY <1>8, <1>10, <1>11, PartJoin, ReadingFacts
  <2> QED BY <2>1 DEF Between
<1>13. \A l \in Splits(i, pos) : Prec(l) >= Prec(k) /\ Prec(l) \in Nat /\ Prec(k) \in Nat
  <2>1. \A l \in Splits(i, pos) : tokens[l] \in BinaryToken BY DEF Splits
  <2>2. \A l \in Splits(i, pos) : Prec(l) \in Nat /\ Prec(k) \in Nat BY <1>8, <2>1, PrecType
  <2> QED BY <1>8, <1>10, <1>12, <2>2 DEF AtLeast, Above
<1> DEFINE fr == [Top EXCEPT !.ops = Front(@), !.exprs = Combine(@, LastOf(Top.ops))]
<1>14. fr.ops = Front(ops) /\ fr.exprs = Combine(exprs, k) BY <1>3, <1>4, <1>7 DEF Stacks
<1>15. fr \in Stacks
  <2>1. Front(ops) \in Seq(Nat) BY <1>4, <1>5, <1>7, FrontType
  <2>2. Combine(exprs, k) \in Seq(Seq(Int)) BY <1>7, <1>8, m + 1 >= 2, k \in Int, CombineType
  <2>3. fr = [Top EXCEPT !.ops = Front(ops), !.exprs = Combine(exprs, k)] BY <1>4, <1>7
  <2> HIDE DEF fr
  <2> QED BY <1>3, <2>1, <2>2, <2>3 DEF Stacks
<1> HIDE DEF fr
<1>16. PICK o, x : o = Front(ops) /\ x = Combine(exprs, k) OBVIOUS
<1>17. /\ Len(o) = m - 1 /\ o \in Seq(Nat) /\ \A q \in 1 .. m - 1 : o[q] = ops[q]
  BY <1>4, <1>5, <1>7, <1>16, FrontType
<1>18. Len(x) = m /\ x[m] = e /\ \A q \in 1 .. m - 1 : x[q] = exprs[q]
  <2>1. k \in Int BY <1>8
  <2>2. Merged(exprs, x, e, m) BY <1>7, <1>11, <1>16, <2>1, Combined
  <2> QED BY <2>2 DEF Merged
<1>19. ASSUME NEW q \in 1 .. m PROVE Begin(o, a, q) = Begin(ops, a, q)
  <2>1. CASE q = 1 BY <2>1 DEF Begin
  <2>2. CASE q # 1
    <3>1. q - 1 \in 1 .. m - 1 BY <1>7, <2>2
    <3> QED BY <1>17, <2>2, <3>1 DEF Begin
  <2> QED BY <2>1, <2>2
<1>20. Stacked(o, x, a)
  <2>1. \A q \in 1 .. m - 1 : q \in 1 .. m /\ q \in 1 .. Len(ops) BY <1>7
  <2>2. ASSUME NEW q \in 1 .. m - 1
        PROVE  /\ o[q] \in At /\ tokens[o[q]] \in BinaryToken
               /\ Part(x[q], Begin(o, a, q), o[q] - 1)
               /\ AtLeast(Begin(o, a, q), o[q] - 1, o[q])
    <3>1. /\ ops[q] \in At /\ tokens[ops[q]] \in BinaryToken
          /\ Part(exprs[q], Begin(ops, a, q), ops[q] - 1)
          /\ AtLeast(Begin(ops, a, q), ops[q] - 1, ops[q])
      BY <1>7, <2>1 DEF Stacked
    <3>2. o[q] = ops[q] /\ x[q] = exprs[q] /\ Begin(o, a, q) = Begin(ops, a, q)
      BY <1>17, <1>18, <1>19, <2>1
    <3> QED BY <3>1, <3>2
  <2>3. ASSUME NEW q \in 1 .. Len(o) - 1 PROVE Prec(o[q]) < Prec(o[q + 1])
    <3>1. q \in 1 .. Len(ops) - 1 /\ q \in 1 .. m - 1 /\ q + 1 \in 1 .. m - 1 BY <1>7, <1>17
    <3>2. Prec(ops[q]) < Prec(ops[q + 1]) BY <1>7, <3>1 DEF Stacked
    <3> QED BY <1>17, <3>1, <3>2
  <2> QED BY <1>17, <2>2, <2>3 DEF Stacked
<1>21. OnTop(o, e, i, pos)
  <2>1. ASSUME o # << >> PROVE Above(i, pos, LastOf(o))
    <3>1. m - 1 \in 1 .. m - 1 /\ m - 1 \in 1 .. Len(ops) - 1 /\ (m - 1) + 1 = m
      BY <1>7, <1>17, <2>1
    <3>2. LastOf(o) = ops[m - 1] BY <1>17, <3>1 DEF LastOf
    <3>3. Prec(ops[m - 1]) < Prec(k) BY <1>6, <1>7, <3>1 DEF Stacked
    <3>4. Prec(ops[m - 1]) \in Nat
      <4>1. tokens[ops[m - 1]] \in BinaryToken
        <5>1. m - 1 \in 1 .. Len(ops) BY <1>7, <3>1
        <5> QED BY <1>7, <5>1 DEF Stacked
      <4> QED BY <4>1, PrecType
    <3> QED BY <1>13, <3>2, <3>3, <3>4 DEF Above
  <2>2. ASSUME Ahead(pos) \in BinaryToken PROVE AtLeast(i, pos, pos + 1)
    <3>1. Prec(k) >= Prec(pos + 1) BY <1>1, <1>2, <1>7, <2>2 DEF Yields, Prec
    <3>2. tokens[pos + 1] \in BinaryToken BY <1>12, <2>2, PartEnds
    <3>3. Prec(pos + 1) \in Nat BY <3>2, PrecType
    <3> QED BY <1>13, <3>1, <3>3 DEF AtLeast
  <2> QED BY <1>12, <2>1, <2>2 DEF OnTop
<1>22. Runs(fr, a, pos)
  <2>1. Begin(o, a, Len(o) + 1) = i /\ Len(o) + 1 = m
    <3>1. Len(o) + 1 = m /\ m \in 1 .. m BY <1>7, <1>17
    <3> QED BY <1>6, <1>19, <3>1
  <2>2. OnTop(o, x[Len(o) + 1], Begin(o, a, Len(o) + 1), pos) BY <1>18, <1>21, <2>1
  <2> QED BY <1>14, <1>16, <1>18, <1>20, <2>1, <2>2 DEF Runs
<1>23. UnderWay(b, Append(Front(frames), fr), pos, value, "loop")
  BY <1>3, <1>4, <1>15, <1>22, GoesOn
<1>24. frames' = Append(Front(frames), fr) BY <1>1 DEF fr
<1> QED BY <1>1, <1>2, <1>23, <1>24

LEMMA ReadBinaryFollows ==
  ASSUME Reading, NEW b, UnderWay(b, frames, pos, value, phase), ReadBinary
  PROVE  \E c : UnderWay(c, frames', pos', value', phase')
<1>1. /\ AtBinary /\ Peek \in BinaryToken /\ ~Yields
      /\ ReadOperand([Top EXCEPT !.ops = Append(@, pos + 1)], "binary", << >>)
  BY DEF ReadBinary
<1>2. /\ phase = "loop" /\ Len(Top.exprs) = Len(Top.ops) + 1
      /\ Top.ops \in Seq(Nat) /\ Top.exprs \in Seq(Seq(Int))
      /\ Len(Top.ops) \in Nat
      /\ Stacked(Top.ops, Top.exprs, b[Len(b)])
      /\ OnTop(Top.ops, Top.exprs[Len(Top.ops) + 1], Begin(Top.ops, b[Len(b)], Len(Top.ops) + 1), pos)
      /\ Peek = Ahead(pos)
  BY <1>1, LoadedLoop
<1>3. /\ frames # << >> /\ b \in Seq(At) /\ b # << >> /\ b[1] = 1 /\ Len(b) = Len(frames)
      /\ \A f \in 1 .. Len(b) - 1 : Waits(frames[f], b[f], b[f + 1])
      /\ Top \in Stacks
  BY <1>2, InLoop
<1>4. PICK ops, exprs, a, m, k :
        ops = Top.ops /\ exprs = Top.exprs /\ a = b[Len(b)] /\ m = Len(Top.ops) /\ k = pos + 1
  OBVIOUS
<1>5. PICK i : i = Begin(ops, a, m + 1) OBVIOUS
<1>6. /\ m \in Nat /\ ops \in Seq(Nat) /\ Len(ops) = m /\ exprs \in Seq(Seq(Int))
      /\ Len(exprs) = m + 1 /\ Stacked(ops, exprs, a) /\ OnTop(ops, exprs[m + 1], i, pos)
  BY <1>2, <1>4, <1>5
<1>7. /\ k \in At /\ tokens[k] \in BinaryToken /\ Part(exprs[m + 1], i, pos) /\ AtLeast(i, pos, k)
      /\ k \in Nat /\ k - 1 = pos /\ pos + 2 = k + 1
  <2>1. Ahead(pos) \in BinaryToken BY <1>1, <1>2
  <2>2. Part(exprs[m + 1], i, pos) /\ AtLeast(i, pos, k) BY <1>4, <1>6, <2>1 DEF OnTop
  <2>3. k \in At /\ tokens[k] \in BinaryToken BY <1>4, <2>1, <2>2, PartEnds
  <2>4. pos \in Nat BY ReadingFacts
  <2>5. k \in Nat /\ k - 1 = pos /\ pos + 2 = k + 1 BY <1>4, <2>4
  <2> QED BY <1>4, <2>2, <2>3, <2>5
<1>8. k + 1 \in At /\ tokens[k + 1] \in Operand \cup {"("} BY <1>7, OperandFollows
<1>9. PICK o : o = Append(ops, k) OBVIOUS
<1>10. /\ o \in Seq(Nat) /\ Len(o) = m + 1 /\ o[m + 1] = k /\ \A q \in 1 .. m : o[q] = ops[q]
       /\ o # << >> /\ LastOf(o) = k
  <2>1. /\ o \in Seq(Nat) /\ Len(o) = m + 1 /\ o[m + 1] = k /\ \A q \in 1 .. m : o[q] = ops[q]
    BY ONLY <1>6, <1>7, <1>9
  <2>2. o # << >> BY <1>6, <2>1
  <2> QED BY <2>1, <2>2 DEF LastOf
<1>11. ASSUME NEW q \in 1 .. m + 1 PROVE Begin(o, a, q) = Begin(ops, a, q)
  <2>1. CASE q = 1 BY <2>1 DEF Begin
  <2>2. CASE q # 1
    <3>1. q - 1 \in 1 .. m BY <1>6, <2>2
    <3> QED BY <1>10, <2>2, <3>1 DEF Begin
  <2> QED BY <2>1, <2>2
<1>12. Stacked(o, exprs, a)
  <2>1. ASSUME NEW q \in 1 .. m + 1
        PROVE  /\ o[q] \in At /\ tokens[o[q]] \in BinaryToken
               /\ Part(exprs[q], Begin(o, a, q), o[q] - 1)
               /\ AtLeast(Begin(o, a, q), o[q] - 1, o[q])
    <3>1. CASE q = m + 1
      <4>1. m + 1 \in 1 .. m + 1 BY <1>6
      <4>2. Begin(o, a, q) = i /\ o[q] = k BY <1>5, <1>10, <1>11, <3>1, <4>1
      <4> QED BY <1>7, <3>1, <4>2
    <3>2. CASE q \in 1 .. m
      <4>1. /\ ops[q] \in At /\ tokens[ops[q]] \in BinaryToken
            /\ Part(exprs[q], Begin(ops, a, q), ops[q] - 1)
            /\ AtLeast(Begin(ops, a, q), ops[q] - 1, ops[q])
        BY <1>6, <3>2 DEF Stacked
      <4>2. o[q] = ops[q] /\ Begin(o, a, q) = Begin(ops, a, q) BY <1>10, <1>11, <3>2
      <4> QED BY <4>1, <4>2
    <3> QED BY <1>6, <3>1, <3>2
  <2>2. ASSUME NEW q \in 1 .. Len(o) - 1 PROVE Prec(o[q]) < Prec(o[q + 1])
    <3>1. q \in 1 .. m /\ q + 1 \in 1 .. m + 1 BY <1>6, <1>10
    <3>2. CASE q = m
      <4>1. o[q] = LastOf(ops) /\ o[q + 1] = k /\ ops # << >>
        BY <1>6, <1>10, <3>1, <3>2 DEF LastOf
      <4>2. ~(Prec(LastOf(ops)) >= Prec(k)) BY <1>1, <1>4, <4>1 DEF Yields, Prec
      <4>3. tokens[o[q]] \in BinaryToken
        <5>1. q \in 1 .. m + 1 BY <1>6, <3>1
        <5> QED BY <2>1, <5>1
      <4>4. Prec(o[q]) \in Nat /\ Prec(k) \in Nat BY <1>7, <4>3, PrecType
      <4> QED BY <4>1, <4>2, <4>4
    <3>3. CASE q # m
      <4>1. q \in 1 .. Len(ops) - 1 /\ q + 1 \in 1 .. m BY <1>6, <3>1, <3>3
      <4>2. Prec(ops[q]) < Prec(ops[q + 1]) BY <1>6, <4>1 DEF Stacked
      <4> QED BY <1>10, <3>1, <4>1, <4>2
    <3> QED BY <3>2, <3>3
  <2> QED BY <1>10, <2>1, <2>2 DEF Stacked
<1> DEFINE mid == [Top EXCEPT !.ops = Append(@, pos + 1)]
<1>13. /\ mid \in Stacks /\ mid.ops = o /\ mid.exprs = exprs
       /\ ReadOperand(mid, "binary", << >>)
  <2>1. mid = [Top EXCEPT !.ops = o] BY <1>4, <1>9
  <2> QED BY <1>1, <1>3, <1>4, <1>10, <2>1 DEF Stacks
<1> HIDE DEF mid
<1>14. CASE tokens[k + 1] = "("
  <2> DEFINE fr == [mid EXCEPT !.wait = "binary", !.op = pos + 1]
  <2>1. frames' = Append(Front(frames), fr) /\ pos' = pos + 2 /\ value' = value /\ phase' = "expression"
    BY <1>7, <1>13, <1>14 DEF ReadOperand
  <2>2. fr \in Stacks /\ fr.ops = o /\ fr.exprs = exprs /\ fr.wait = "binary"
    BY <1>4, <1>7, <1>13 DEF Stacks
  <2> HIDE DEF fr
  <2>3. PICK n : n = k + 2 OBVIOUS
  <2>4. n - 1 = k + 1 /\ pos' = n - 1 BY <1>7, <2>1, <2>3
  <2>5. n \in At
    <3>1. (k + 1) + 1 \in At BY <1>8, <1>14, BracketOpens
    <3>2. (k + 1) + 1 = n BY <1>7, <2>3
    <3> QED BY <3>1, <3>2
  <2>6. Waits(fr, a, n)
    <3>1. Len(exprs) = Len(o) BY <1>6, <1>10
    <3> QED BY <1>8, <1>10, <1>12, <1>14, <2>2, <2>3, <2>4, <3>1 DEF Waits
  <2>7. UnderWay(Append(b, n), Append(Front(frames), fr), n - 1, value, "expression")
    BY <1>3, <1>4, <2>2, <2>5, <2>6, GoesIn
  <2> QED BY <2>1, <2>4, <2>7
<1>15. CASE tokens[k + 1] \in Operand
  <2> DEFINE e == <<k + 1>> \o << >>
             fr == [mid EXCEPT !.exprs = Append(@, e)]
  <2>1. frames' = Append(Front(frames), fr) /\ pos' = pos + 2 /\ value' = value /\ phase' = "loop"
    <3>1. tokens[k + 1] # "(" BY <1>15 DEF Operand
    <3> QED BY <1>7, <1>13, <1>15, <3>1 DEF ReadOperand
  <2>2. e \in Seq(Int) /\ e = <<k + 1>> BY <1>7
  <2> HIDE DEF e
  <2>3. Append(exprs, e) \in Seq(Seq(Int)) BY <1>6, <2>2
  <2>4. fr \in Stacks /\ fr.ops = mid.ops /\ fr.exprs = Append(mid.exprs, e)
    BY <1>13, <2>3 DEF Stacks
  <2> HIDE DEF fr
  <2>5. Part(e, k + 1, k + 1) /\ Splits(k + 1, k + 1) = {}
    BY <1>8, <1>15, <2>2, PartOne, ReadingFacts
  <2>6. Begin(mid.ops, a, Len(mid.ops) + 1) = k + 1
    <3>1. (m + 1) + 1 # 1 /\ ((m + 1) + 1) - 1 = m + 1 BY <1>6
    <3> QED BY <1>10, <1>13, <3>1 DEF Begin
  <2>7. Stacked(mid.ops, mid.exprs, a) /\ Len(mid.exprs) = Len(mid.ops) BY <1>6, <1>10, <1>12, <1>13
  <2>8. Runs(fr, a, k + 1) BY <1>13, <2>4, <2>5, <2>6, <2>7, OperandPushed
  <2>9. UnderWay(b, Append(Front(frames), fr), k + 1, value, "loop")
    BY <1>3, <1>4, <2>4, <2>8, GoesOn
  <2> QED BY <1>7, <2>1, <2>9
<1> QED BY <1>8, <1>14, <1>15

LEMMA EndBinaryFollows ==
  ASSUME Reading, NEW b, UnderWay(b, frames, pos, value, phase), EndBinary
  PROVE  UnderWay(b, frames', pos', value', phase')
<1>1. /\ AtBinary /\ Peek \notin BinaryToken /\ Top.ops = << >> /\ value' = LastOf(Top.exprs)
      /\ frames' = Front(frames) /\ phase' = "return" /\ pos' = pos
  BY DEF EndBinary
<1>2. /\ phase = "loop" /\ Len(Top.exprs) = Len(Top.ops) + 1
      /\ OnTop(Top.ops, Top.exprs[Len(Top.ops) + 1], Begin(Top.ops, b[Len(b)], Len(Top.ops) + 1), pos)
      /\ Peek = Ahead(pos)
  BY <1>1, LoadedLoop
<1>3. /\ frames # << >> /\ b \in Seq(At) /\ b # << >> /\ b[1] = 1 /\ Len(b) = Len(frames)
      /\ \A f \in 1 .. Len(b) - 1 : Waits(frames[f], b[f], b[f + 1])
  BY <1>2, InLoop
<1>4. Len(Top.ops) = 0 /\ Len(Top.exprs) = 1 BY <1>1, <1>2
<1>5. Part(value', b[Len(b)], pos) BY <1>1, <1>2, <1>4 DEF OnTop, Begin, LastOf
<1>6. frames \in Seq(Stacks) BY ReadingFacts
<1>7. /\ Len(frames') = Len(frames) - 1 /\ Len(frames) \in Nat
      /\ \A k \in 1 .. Len(frames) - 1 : frames'[k] = frames[k]
  BY <1>1, <1>3, <1>6, FrontType
<1>8. Len(b) = Len(frames') + 1 /\ \A f \in 1 .. Len(b) - 1 : Waits(frames'[f], b[f], b[f + 1])
  BY <1>3, <1>7
<1> QED BY <1>1, <1>2, <1>3, <1>5, <1>8 DEF UnderWay

LEMMA EndBracketFollows ==
  ASSUME Reading, NEW b, UnderWay(b, frames, pos, value, phase), EndBracket
  PROVE  \E c : UnderWay(c, frames', pos', value', phase')
<1>1. /\ phase = "return" /\ frames # << >> /\ value' = value /\ phase' = "loop"
      /\ pos' = IF Top.wait = "group" /\ Peek # ")" THEN pos ELSE pos + 1
      /\ frames' = Append(Front(frames), Resumed)
  BY DEF EndBracket
<1>2. frames \in Seq(Stacks) /\ Len(frames) \in Nat /\ Len(frames) >= 1 /\ Top \in Stacks
  <2>1. Top \in Stacks BY <1>1, TopType DEF Reading
  <2> QED BY <1>1, <2>1, ReadingFacts
<1>3. PICK m, n, a : m = Len(frames) /\ n = b[m + 1] /\ a = b[m] OBVIOUS
<1>4. /\ b \in Seq(At) /\ b # << >> /\ b[1] = 1 /\ Len(b) = m + 1
      /\ \A f \in 1 .. m : Waits(frames[f], b[f], b[f + 1])
      /\ Part(value, n, pos) /\ Ahead(pos) \notin BinaryToken
  BY <1>1, <1>2, <1>3 DEF UnderWay
<1>5. Waits(Top, a, n)
  <2>1. m \in 1 .. m BY <1>2, <1>3
  <2> QED BY <1>3, <1>4, <2>1 DEF Top
<1>6. n - 1 \in At /\ tokens[n - 1] = "(" /\ n \in At /\ n \in Nat /\ a \in At /\ a \in Nat
      /\ (n - 1) + 1 = n
  <2>1. n \in At /\ a \in At
    <3>1. m \in 1 .. Len(b) /\ m + 1 \in 1 .. Len(b) BY <1>2, <1>3, <1>4
    <3> QED BY <1>3, <1>4, <3>1
  <2> QED BY <1>5, <2>1, ReadingFacts DEF Waits
<1>7. pos + 1 \in At /\ tokens[pos + 1] = ")" /\ Peek = ")" /\ pos \in Nat
  <2>1. \/ Ahead(pos) = ")" /\ pos + 1 \in At
        \/ Ahead(pos) = "stop" /\ pos = Len(tokens)
    BY <1>4, PartEnds
  <2>2. pos # Len(tokens)
    <3>1. Depth(pos) = Depth(n - 1) BY <1>4 DEF Part, Balanced
    <3>2. PICK h : h = n - 2 OBVIOUS
    <3>3. h \in 0 .. Len(tokens) /\ h \in Nat /\ h + 1 = n - 1 BY <1>6, <3>2, ReadingFacts
    <3>4. Depth(h) >= 0 BY <3>3 DEF Reading, Spelled
    <3>5. Depth(h) \in Int /\ Depth(h + 1) = Depth(h) + Sign(tokens[h + 1]) BY <3>3, DepthNext
    <3>6. Depth(n - 1) = Depth(h) + 1 BY <1>6, <3>3, <3>5 DEF Sign
    <3> QED BY <3>1, <3>4, <3>5, <3>6, ReadingFacts
  <2>3. Ahead(pos) = ")" /\ pos + 1 \in At BY <2>1, <2>2
  <2> QED BY <2>3, ReadingFacts DEF Ahead
<1>8. pos' = pos + 1 BY <1>1, <1>7
<1>9. Part(value, n - 1, pos + 1) /\ Splits(n - 1, pos + 1) = {}
  <2>1. (pos + 1) - 1 = pos BY <1>7
  <2>2. Part(value, (n - 1) + 1, (pos + 1) - 1) BY <1>4, <1>6, <2>1
  <2> QED BY <1>6, <1>7, <2>2, PartGroup, ReadingFacts
<1>10. PICK e : e = IF Top.wait = "unary" THEN Append(value, -Top.op) ELSE value OBVIOUS
<1>11. e \in Seq(Int)
  <2>1. value \in Seq(Int) /\ -Top.op \in Int BY <1>2, ReadingFacts DEF Stacks
  <2>2. Append(value, -Top.op) \in Seq(Int) BY <2>1, Appended
  <2> QED BY <1>10, <2>1, <2>2
<1>12. Resumed \in Stacks /\ Resumed.ops = Top.ops /\ Resumed.exprs = Append(Top.exprs, e)
  <2>1. Resumed = [Top EXCEPT !.exprs = Append(@, e), !.wait = "none", !.op = 0] BY <1>10 DEF Resumed
  <2>2. Append(Top.exprs, e) \in Seq(Seq(Int)) BY <1>2, <1>11 DEF Stacks
  <2> QED BY <1>2, <2>1, <2>2 DEF Stacks
<1>13. PICK i : i = Begin(Top.ops, a, Len(Top.ops) + 1) OBVIOUS
<1>14. Part(e, i, pos + 1) /\ Splits(i, pos + 1) = {}
  <2>1. CASE Top.wait = "group" /\ Top.ops = << >> /\ n = a + 1
    <3>1. i = n - 1 BY <1>6, <1>13, <2>1 DEF Begin
    <3> QED BY <1>9, <1>10, <2>1, <3>1
  <2>2. CASE Top.wait = "unary" /\ Top.ops = << >> /\ n = a + 2 /\ tokens[a] = "!" /\ Top.op = a
    <3>1. i = a /\ n - 1 = a + 1 BY <1>6, <1>13, <2>2 DEF Begin
    <3>2. e = Append(value, -a) BY <1>10, <2>2
    <3>3. Part(value, a + 1, pos + 1) /\ Splits(a + 1, pos + 1) = {} BY <1>9, <3>1
    <3> QED BY <1>6, <2>2, <3>1, <3>2, <3>3, PartNot, ReadingFacts
  <2>3. CASE Top.wait = "binary" /\ Top.ops # << >> /\ n = LastOf(Top.ops) + 2
    <3>1. Top.ops \in Seq(Nat) BY <1>2 DEF Stacks
    <3>2. PICK l : l = Len(Top.ops) OBVIOUS
    <3>3. l \in Nat /\ l >= 1 /\ l + 1 # 1 /\ (l + 1) - 1 = l BY <2>3, <3>1, <3>2
    <3>4. i = LastOf(Top.ops) + 1 BY <1>13, <3>2, <3>3 DEF Begin, LastOf
    <3>5. LastOf(Top.ops) \in Nat BY <3>1, <3>2, <3>3 DEF LastOf
    <3>6. i = n - 1 BY <2>3, <3>4, <3>5
    <3> QED BY <1>9, <1>10, <2>3, <3>6
  <2> QED BY <1>5, <2>1, <2>2, <2>3 DEF Waits
<1>15. Stacked(Top.ops, Top.exprs, a) /\ Len(Top.exprs) = Len(Top.ops) BY <1>5 DEF Waits
<1>16. Runs(Resumed, a, pos + 1) BY <1>2, <1>12, <1>13, <1>14, <1>15, OperandPushed
<1>17. PICK c : c = Front(b) OBVIOUS
<1>18. /\ c \in Seq(At) /\ Len(c) = m /\ c # << >> /\ m \in Nat /\ m >= 1
       /\ \A f \in 1 .. m : c[f] = b[f]
  <2>1. Len(b) - 1 = m BY <1>2, <1>3, <1>4
  <2>2. m \in Nat /\ m >= 1 BY <1>2, <1>3
  <2>3. c \in Seq(At) /\ Len(c) = Len(b) - 1 /\ \A f \in 1 .. Len(b) - 1 : c[f] = b[f]
    BY <1>4, <1>17, FrontType
  <2>4. c # << >> BY <2>1, <2>2, <2>3
  <2> QED BY <2>1, <2>2, <2>3, <2>4
<1>19. c[1] = 1 /\ c[m] = a
  <2>1. 1 \in 1 .. m /\ m \in 1 .. m BY <1>18
  <2> QED BY <1>3, <1>4, <1>18, <2>1
<1>20. ASSUME NEW f \in 1 .. Len(c) - 1 PROVE Waits(frames[f], c[f], c[f + 1])
  <2>1. f \in 1 .. m /\ f + 1 \in 1 .. m BY <1>18
  <2> QED BY <1>4, <1>18, <2>1
<1>21. UnderWay(c, Append(Front(frames), Resumed), pos + 1, value, "loop")
  BY <1>1, <1>3, <1>12, <1>16, <1>18, <1>19, <1>20, GoesOn
<1> QED BY <1>1, <1>8, <1>21

LEMMA FinishFollows ==
  ASSUME Reading, NEW b, UnderWay(b, frames, pos, value, phase), Finish
  PROVE  UnderWay(b, frames', pos', value', phase')
<1>1. /\ phase = "return" /\ frames = << >> /\ phase' = "done"
      /\ frames' = frames /\ pos' = pos /\ value' = value
  BY DEF Finish
<1> QED BY <1>1 DEF UnderWay

\* The expression is written, and the first token begins it.
LEMMA StartFollows ==
  ASSUME RInv, Start
  PROVE  \E c : UnderWay(c, frames', pos', value', phase')
<1>1. /\ phase = "write" /\ ~Expecting /\ phase' = "expression"
      /\ frames' = frames /\ pos' = pos /\ value' = value /\ tokens \in Seq(Token)
      /\ frames = << >> /\ pos = 0
  BY DEF Start, RInv, Written
<1>2. 1 \in At BY <1>1 DEF Expecting, At
<1>3. PICK c : c = <<1>> OBVIOUS
<1>4. c \in Seq(At) /\ c # << >> /\ c[1] = 1 /\ Len(c) = 1 BY <1>2, <1>3
<1>5. UnderWay(c, frames', pos', value', phase') BY <1>1, <1>4 DEF UnderWay
<1> QED BY <1>5

\* What the author writes can be followed by what may be written next.
LEMMA WriteSpells ==
  ASSUME RInv, Spelled, NEW t \in Token, Write(t)
  PROVE  Spelled'
<1>1. /\ tokens \in Seq(Token) /\ Len(tokens) \in Nat /\ tokens' = Append(tokens, t)
      /\ t \in IF Expecting THEN Operand \cup {"!", "~", "("} ELSE BinaryToken \cup {")"}
      /\ t = ")" => Brackets(tokens) > 0
  BY DEF RInv, Written, Write
<1>2. PICK n : n = Len(tokens) OBVIOUS
<1>3. /\ n \in Nat /\ Len(tokens') = n + 1 /\ tokens'[n + 1] = t
      /\ \A k \in 1 .. n : tokens'[k] = tokens[k]
  BY <1>1, <1>2
<1>4. ASSUME NEW k \in 1 .. n
      PROVE  /\ tokens'[k] \in Operand \cup {")"} => tokens'[k + 1] \in BinaryToken \cup {")"}
             /\ tokens'[k] \notin Operand \cup {")"} => tokens'[k + 1] \in Operand \cup {"!", "~", "("}
  <2>1. CASE k = n
    <3>1. tokens'[k] = LastOf(tokens) /\ tokens # << >> /\ tokens'[k + 1] = t
      BY <1>1, <1>2, <1>3, <2>1 DEF LastOf
    <3> QED BY <1>1, <3>1 DEF Expecting
  <2>2. CASE k # n
    <3>1. k \in 1 .. Len(tokens) - 1 /\ k + 1 \in 1 .. n BY <1>2, <1>3, <2>2
    <3>2. tokens'[k] = tokens[k] /\ tokens'[k + 1] = tokens[k + 1] BY <1>3, <3>1
    <3> QED BY <3>1, <3>2 DEF Spelled
  <2> QED BY <2>1, <2>2
<1>5. tokens'[1] \in Operand \cup {"!", "~", "("}
  <2>1. CASE n = 0
    <3>1. tokens = << >> BY <1>1, <1>2, <2>1, EmptySeq
    <3> QED BY <1>1, <1>3, <2>1, <3>1 DEF Expecting
  <2>2. CASE n # 0
    <3>1. tokens # << >> /\ 1 \in 1 .. n BY <1>1, <1>2, <1>3, <2>2
    <3> QED BY <1>3, <3>1 DEF Spelled
  <2> QED BY <2>1, <2>2
<1>6. ASSUME NEW p \in 0 .. n + 1 PROVE Depth(p)' >= 0
  <2>1. CASE p = n + 1
    <3>1. Depth(p)' = Brackets(tokens')
      BY <1>3, <2>1 DEF Depth, Openings, Closings, Brackets
    <3>2. Brackets(tokens) \in Int /\ Brackets(tokens') = Brackets(tokens) + Sign(t)
      BY <1>1, BracketsAppend
    <3>3. Brackets(tokens) >= 0
      <4>1. Depth(n) >= 0 BY <1>2, <1>3 DEF Spelled
      <4> QED BY <1>2, <4>1, DepthEnds
    <3> QED BY <1>1, <3>1, <3>2, <3>3 DEF Sign
  <2>2. CASE p # n + 1
    <3>1. p \in 0 .. Len(tokens) /\ \A k \in 1 .. p : k \in 1 .. n BY <1>2, <1>3, <2>2
    <3>2. Depth(p)' = Depth(p)
      <4>1. \A k \in 1 .. p : tokens'[k] = tokens[k] BY <1>3, <3>1
      <4> QED BY <4>1 DEF Depth, Openings, Closings
    <3> QED BY <3>1, <3>2 DEF Spelled
  <2> QED BY <2>1, <2>2
<1>7. Len(tokens') - 1 = n BY <1>3
<1>8. \A p \in 0 .. Len(tokens') : Depth(p)' >= 0 BY <1>3, <1>6
<1> QED BY <1>3, <1>4, <1>5, <1>7, <1>8 DEF Spelled

LEMMA StartsFollowed == Init => PInv
<1> SUFFICES ASSUME Init PROVE PInv OBVIOUS
<1>1. tokens = << >> /\ phase = "write" BY DEF Init
<1>2. Depth(0) = 0 BY DepthEnds
<1>3. \A p \in 0 .. Len(tokens) : p = 0 BY <1>1
<1>4. Spelled BY <1>1, <1>2, <1>3 DEF Spelled
<1> QED BY <1>1, <1>4 DEF PInv, Parsing

LEMMA NextFollows ==
  ASSUME EInv, RInv, PInv, [Next]_vars
  PROVE  PInv'
<1>1. Spelled BY DEF PInv
<1>2. ASSUME UNCHANGED vars PROVE PInv'
  <2>1. tokens' = tokens /\ frames' = frames /\ pos' = pos /\ value' = value /\ phase' = phase
    BY <1>2 DEF vars
  <2>2. CASE Following
    <3>1. PICK b, fs, p, v, ph : fs = frames /\ p = pos /\ v = value /\ ph = phase
                               /\ UnderWay(b, fs, p, v, ph)
      BY <2>2 DEF Following
    <3>2. UnderWay(b, frames', pos', value', phase') BY <2>1, <3>1
    <3> QED BY <1>1, <2>1, <3>2, FollowsOn
  <2>3. CASE ~(Parsing /\ Readable)
    <3>1. ~(Parsing /\ Readable)' BY <2>1, <2>3 DEF Parsing, Readable, At
    <3>2. Spelled' BY <1>1, <2>1 DEF Spelled, Depth, Openings, Closings
    <3> QED BY <3>1, <3>2 DEF PInv
  <2> QED BY <2>2, <2>3 DEF PInv
<1>3. ASSUME NEW t \in Token, Write(t) PROVE PInv'
  <2>1. Spelled' BY <1>1, <1>3, WriteSpells
  <2>2. phase' = "write" BY <1>3 DEF Write
  <2> QED BY <2>1, <2>2 DEF PInv, Parsing
<1>4. CASE Start
  <2>1. tokens' = tokens BY <1>4 DEF Start
  <2> QED BY <1>1, <1>4, <2>1, StartFollows, FollowsOn
<1>5. CASE Parse
  <2>1. tokens' = tokens /\ Parsing
    BY <1>5 DEF Parse, BeginWithOperator, BeginWithOperand, ReadUnary, Throw, ReadGroup, Reduce,
                ReadBinary, EndBinary, EndBracket, Finish, ReadOperand, AtBinary, Parsing
  <2>2. Spelled' BY <1>1, <2>1 DEF Spelled, Depth, Openings, Closings
  <2>3. CASE ~Readable
    <3>1. ~Readable' BY <2>1, <2>3 DEF Readable, At
    <3> QED BY <2>2, <3>1 DEF PInv
  <2>4. CASE Throw
    <3>1. phase' = "failed" BY <2>4 DEF Throw
    <3> QED BY <2>2, <3>1 DEF PInv, Parsing
  <2>5. CASE Readable /\ ~Throw
    <3>1. Reading BY <1>1, <2>1, <2>5 DEF Reading
    <3>2. PICK b : UnderWay(b, frames, pos, value, phase) BY <2>1, <2>5 DEF PInv, Following
    <3>3. \E c : UnderWay(c, frames', pos', value', phase')
      <4>1. CASE BeginWithOperator BY <3>1, <3>2, <4>1, BeginWithOperatorFollows
      <4>2. CASE BeginWithOperand BY <3>1, <3>2, <4>2, BeginWithOperandFollows
      <4>3. CASE ReadUnary BY <3>1, <3>2, <4>3, ReadUnaryFollows
      <4>4. CASE ReadGroup BY <3>1, <3>2, <4>4, ReadGroupFollows
      <4>5. CASE Reduce BY <3>1, <3>2, <4>5, ReduceFollows
      <4>6. CASE ReadBinary BY <3>1, <3>2, <4>6, ReadBinaryFollows
      <4>7. CASE EndBinary BY <3>1, <3>2, <4>7, EndBinaryFollows
      <4>8. CASE EndBracket BY <3>1, <3>2, <4>8, EndBracketFollows
      <4>9. CASE Finish BY <3>1, <3>2, <4>9, FinishFollows
      <4> QED BY <1>5, <2>5, <4>1, <4>2, <4>3, <4>4, <4>5, <4>6, <4>7, <4>8, <4>9 DEF Parse
    <3> QED BY <1>1, <2>1, <3>3, FollowsOn
  <2> QED BY <2>3, <2>4, <2>5
<1> QED BY <1>2, <1>3, <1>4, <1>5 DEF Next

LEMMA WholeRead ==
  ASSUME EInv, RInv, PInv, phase = "done", Readable
  PROVE  Part(value, 1, Len(tokens)) /\ pos = Len(tokens)
<1>1. Reading BY DEF Reading, PInv, Parsing
<1>2. PICK b : UnderWay(b, frames, pos, value, phase) BY <1>1 DEF Reading, PInv, Following
<1>3. frames = << >> /\ Len(b) = 1 /\ b[1] = 1 BY <1>2 DEF UnderWay
<1>4. Part(value, 1, pos) /\ Ahead(pos) \notin BinaryToken BY <1>2, <1>3 DEF UnderWay
<1>5. \/ Ahead(pos) = ")" /\ pos + 1 \in At
      \/ Ahead(pos) = "stop" /\ pos = Len(tokens)
  BY <1>1, <1>4, PartEnds
<1>6. ~(Ahead(pos) = ")" /\ pos + 1 \in At)
  <2> SUFFICES ASSUME Ahead(pos) = ")", pos + 1 \in At PROVE FALSE OBVIOUS
  <2>1. pos \in Nat /\ pos + 1 \in 0 .. Len(tokens) /\ Depth(0) = 0 BY <1>1, ReadingFacts
  <2>2. tokens[pos + 1] = ")" BY DEF Ahead
  <2>3. Depth(pos) = 0
    <3>1. Depth(pos) = Depth(1 - 1) BY <1>4 DEF Part, Balanced
    <3> QED BY <2>1, <3>1
  <2>4. Depth(pos + 1) = Depth(pos) + Sign(tokens[pos + 1]) BY <2>1, DepthNext
  <2>5. Depth(pos + 1) = -1 BY <2>2, <2>3, <2>4 DEF Sign
  <2>6. Depth(pos + 1) >= 0 BY <1>1, <2>1 DEF Reading, Spelled
  <2> QED BY <2>5, <2>6
<1> QED BY <1>4, <1>5, <1>6

LEMMA Read == Spec => [](EInv /\ RInv /\ PInv)
<1>1. Init => EInv /\ RInv /\ PInv
  <2> SUFFICES ASSUME Init PROVE RInv BY InitInv, StartsFollowed
  <2>1. tokens = << >> /\ pos = 0 /\ frames = << >> /\ phase = "write" BY DEF Init
  <2>2. MaxToken \in Nat BY ExprAssumption
  <2> QED BY <2>1, <2>2 DEF RInv, Written, Bracketed, Places
<1>2. EInv /\ RInv /\ PInv /\ [Next]_vars => EInv' /\ RInv' /\ PInv'
  BY NextInv, NextPlaces, NextFollows
<1> QED BY <1>1, <1>2, PTL DEF Spec

\* NothingDropped: of a readable expression of any length and nesting the parser reads every
\* token, and each operand and operator is in the tree once, the operands from left to right.
THEOREM NoneDropped == Spec => []NothingDropped
<1>1. EInv /\ RInv /\ PInv => NothingDropped
  <2> SUFFICES ASSUME EInv, RInv, PInv, phase = "done", Readable
               PROVE  /\ pos = Len(tokens)
                      /\ Len(value) = Cardinality(Nodes)
                      /\ \A k \in Nodes : \E i \in 1 .. Len(value) :
                           value[i] = IF tokens[k] = "!" THEN -k ELSE k
                      /\ LeftToRight(value)
    BY DEF NothingDropped, LeftToRight
  <2>1. pos = Len(tokens) /\ Whole(value, 1, Len(tokens)) BY WholeRead DEF Part
  <2>2. Nodes = Inside(1, Len(tokens)) BY DEF Nodes, Inside, At
  <2> QED BY <2>1, <2>2 DEF Whole, Mark
<1> QED BY <1>1, Read, PTL

\* ReadsAsWritten: whenever the numbers of getPrecedence put the operators in the order of
\* its groups, the two stacks of parseBinaryOp build the tree that precedence and
\* association to the left give the expression.
THEOREM TreeAsWritten == Spec => []ReadsAsWritten
<1>1. EInv /\ RInv /\ PInv => ReadsAsWritten
  BY WholeRead DEF ReadsAsWritten, Part, Meaning
<1> QED BY <1>1, Read, PTL
=============================================================================
