----------------------------- MODULE Flow_proofs -----------------------------
(***************************************************************************)
(* What holds of the blocks of every body, of any length and any nesting.  *)
(***************************************************************************)
EXTENDS Flow, WellFoundedInduction, TLAPS

\* The blocks that are created and have yet to be inserted in: the merge block of an if
\* and the block after a for, and the else block while the then part is visited.
Waiting(r) == {r.last} \cup (IF r.word = "if" THEN {r.first} ELSE {})
Pending == UNION {Waiting(open[k]) : k \in 1 .. Len(open)}

\* They are told apart by the order in which they were created.
Shape ==
  /\ insert \in Block
  /\ \A k \in 1 .. Len(open) : open[k].first < open[k].last
  /\ \A j, k \in 1 .. Len(open) : j < k => open[j].last < open[k].first
  /\ \A k \in 1 .. Len(open) : insert \notin Waiting(open[k]) /\ \A b \in Waiting(open[k]) : blocks[b] = << >>

\* A block that goes on, and one that goes on behind its end.
Goes(code) == \A k \in 1 .. Len(code) : code[k].op \notin Terminator
Stuck(code) == \E k \in 1 .. Len(code) - 1 : code[k].op \in Terminator

OthersClosed == \A b \in Block \ (Pending \cup {insert}) : Closed(blocks[b])

\* While nothing has returned, the builder inserts in the one block that goes on; after
\* the return nothing is left to do; whatever is done makes a block that cannot be saved.
Ends ==
  \/ NeverReturns /\ Goes(blocks[insert]) /\ OthersClosed
  \/ ReturnsLast /\ open = << >> /\ AllClosed
  \/ (\E i \in 1 .. Len(text) - 1 : text[i] = "return") /\ \E b \in Block : Stuck(blocks[b])

FInv ==
  /\ TypeOK
  /\ phase = "start" => text = << >> /\ open = << >> /\ blocks = << >> /\ from = {}
  /\ phase = "body" => Shape /\ Ends
  /\ Verifies

-----------------------------------------------------------------------------
(***************************************************************************)
(* Code.                                                                   *)
(***************************************************************************)

\* Code that goes on, behind code that does.
LEMMA GoesOn ==
  ASSUME NEW S, NEW s \in Seq(S), NEW c \in Seq(S), Goes(s), Goes(c)
  PROVE  Goes(s \o c)
BY DEF Goes

\* A block ends with the code that ends.
LEMMA ClosesOff ==
  ASSUME NEW S, NEW s \in Seq(S), NEW c \in Seq(S), Goes(s), Closed(c)
  PROVE  Closed(s \o c)
<1>1. s \o c # << >>
  BY DEF Closed
<1>2. ASSUME NEW k \in 1 .. Len(s \o c)
      PROVE  (s \o c)[k].op \in Terminator <=> k = Len(s \o c)
  <2>1. CASE k \in 1 .. Len(s)
    <3>1. (s \o c)[k] = s[k]
      BY <2>1
    <3>2. Len(c) > 0 /\ Len(s \o c) = Len(s) + Len(c)
      BY DEF Closed
    <3>3. QED
      BY <2>1, <3>1, <3>2 DEF Goes
  <2>2. CASE k \notin 1 .. Len(s)
    <3>1. (s \o c)[k] = c[k - Len(s)] /\ k - Len(s) \in 1 .. Len(c)
      BY <2>2
    <3>2. Len(s \o c) = Len(s) + Len(c)
      OBVIOUS
    <3>3. QED
      BY <3>1, <3>2 DEF Closed
  <2>3. QED
    BY <2>1, <2>2
<1>3. QED
  BY <1>1, <1>2 DEF Closed

\* Code behind the end of a block.
LEMMA GetsStuck ==
  ASSUME NEW S, NEW s \in Seq(S), NEW c \in Seq(S), Closed(s) \/ Stuck(s), c # << >>
  PROVE  Stuck(s \o c)
<1>1. PICK k \in 1 .. Len(s) : s[k].op \in Terminator
  BY DEF Closed, Stuck
<1>2. (s \o c)[k] = s[k] /\ k \in 1 .. Len(s \o c) - 1
  BY <1>1
<1>3. QED
  BY <1>1, <1>2 DEF Stuck

\* It stays there.
LEMMA StuckIsNotClosed ==
  ASSUME NEW S, NEW s \in Seq(S) PROVE ~(Stuck(s) /\ Closed(s))
BY DEF Stuck, Closed

\* The elements of two sequences put together.
LEMMA Concatenation ==
  ASSUME NEW T, NEW s \in Seq(T), NEW t \in Seq(T)
  PROVE  /\ s \o t \in Seq(T) /\ Len(s \o t) = Len(s) + Len(t)
         /\ \A i \in 1 .. Len(s) : (s \o t)[i] = s[i]
         /\ \A i \in Len(s) + 1 .. Len(s) + Len(t) : (s \o t)[i] = t[i - Len(s)]
OBVIOUS

\* A sequence without its last element.
LEMMA FrontFacts ==
  ASSUME NEW T, NEW s \in Seq(T), s # << >>
  PROVE  /\ Front(s) \in Seq(T) /\ Len(Front(s)) = Len(s) - 1
         /\ \A i \in 1 .. Len(s) - 1 : Front(s)[i] = s[i]
<1>1. Len(s) \in Nat \ {0}
  OBVIOUS
<1>2. \A i \in 1 .. Len(s) - 1 : s[i] \in T
  BY <1>1
<1>3. Front(s) = [i \in 1 .. Len(s) - 1 |-> s[i]]
  BY <1>1 DEF Front
<1>4. QED
  BY ONLY <1>1, <1>2, <1>3

\* What Emits does to the blocks.
LEMMA EmitsFacts ==
  ASSUME NEW S, blocks \in Seq(Seq(S)), insert \in Block, NEW c \in Seq(S), NEW n \in Nat,
         Emits(c, n)
  PROVE  /\ blocks' \in Seq(Seq(S))
         /\ Len(blocks') = Len(blocks) + n
         /\ Block \subseteq Block'
         /\ blocks'[insert] = blocks[insert] \o c
         /\ \A b \in Block : b # insert => blocks'[b] = blocks[b]
         /\ \A b \in Len(blocks) + 1 .. Len(blocks) + n : blocks'[b] = << >>
<1> DEFINE old == [blocks EXCEPT ![insert] = @ \o c]
           new == [k \in 1 .. n |-> << >>]
<1>1. /\ old \in Seq(Seq(S)) /\ Len(old) = Len(blocks)
      /\ old[insert] = blocks[insert] \o c
      /\ \A b \in Block : b # insert => old[b] = blocks[b]
  BY DEF Block
<1>2. new \in Seq(Seq(S)) /\ Len(new) = n /\ \A k \in 1 .. n : new[k] = << >>
  OBVIOUS
<1>3. blocks' = old \o new
  BY DEF Emits
<1> HIDE DEF old, new
<1>4. /\ old \o new \in Seq(Seq(S)) /\ Len(old \o new) = Len(blocks) + n
      /\ \A b \in Block : (old \o new)[b] = old[b]
      /\ \A b \in Len(blocks) + 1 .. Len(blocks) + n : (old \o new)[b] = new[b - Len(blocks)]
  <2>1. DEFINE T == Seq(S)
  <2>2. old \in Seq(T) /\ new \in Seq(T)
    BY <1>1, <1>2
  <2> HIDE DEF T
  <2>3. /\ old \o new \in Seq(T) /\ Len(old \o new) = Len(old) + Len(new)
        /\ \A i \in 1 .. Len(old) : (old \o new)[i] = old[i]
        /\ \A i \in Len(old) + 1 .. Len(old) + Len(new) : (old \o new)[i] = new[i - Len(old)]
    BY ONLY <2>2, Concatenation
  <2>4. QED
    BY <1>1, <1>2, <2>3 DEF Block, T
<1>5. \A b \in Len(blocks) + 1 .. Len(blocks) + n : b - Len(blocks) \in 1 .. n
  BY <1>1
<1>6. \A b \in Len(blocks) + 1 .. Len(blocks) + n : (old \o new)[b] = << >>
  BY <1>2, <1>4, <1>5
<1>7. blocks' \in Seq(Seq(S)) /\ Len(blocks') = Len(blocks) + n
  BY ONLY <1>3, <1>4
<1>8. Block \subseteq Block'
  <2>1. Len(blocks) \in Nat
    OBVIOUS
  <2>2. QED
    BY ONLY <2>1, <1>7, n \in Nat DEF Block
<1>9. QED
  BY ONLY insert \in Block, <1>1, <1>3, <1>4, <1>6, <1>7, <1>8

\* The text before and after a word.
LEMMA TextGrows ==
  ASSUME text \in Seq(Word), NEW w \in Word, text' = Append(text, w)
  PROVE  /\ text' \in Seq(Word) /\ Len(text') = Len(text) + 1
         /\ NeverReturns /\ w # "return" => NeverReturns'
         /\ NeverReturns /\ w = "return" => ReturnsLast'
         /\ ReturnsLast \/ (\E i \in 1 .. Len(text) - 1 : text[i] = "return") =>
              (\E i \in 1 .. Len(text) - 1 : text[i] = "return")'
<1>1. /\ text' \in Seq(Word) /\ Len(text') = Len(text) + 1 /\ text' # << >>
      /\ text'[Len(text')] = w
      /\ \A i \in 1 .. Len(text) : text'[i] = text[i]
  OBVIOUS
<1>2. QED
  BY <1>1 DEF NeverReturns, ReturnsLast, LastOf

-----------------------------------------------------------------------------
(***************************************************************************)
(* Steps that insert code.                                                 *)
(***************************************************************************)

\* Instructions that may branch anywhere.
Loose == [op : {"code"} \cup Terminator, at : Nat, part : Part, to : SUBSET Nat]

\* Emits keeps the blocks well-typed when the code branches to blocks that there are.
LEMMA EmitsTyped ==
  ASSUME TypeOK, insert \in Block, NEW c \in Seq(Loose), NEW n \in Nat, Emits(c, n),
         \A k \in 1 .. Len(c) : c[k].to \subseteq 1 .. Len(blocks) + n
  PROVE  /\ (blocks \in Seq(Seq(Instruction)))'
         /\ Len(blocks') = Len(blocks) + n
         /\ Block \subseteq Block'
         /\ blocks'[insert] = blocks[insert] \o c
         /\ \A b \in Block : b # insert => blocks'[b] = blocks[b]
         /\ \A b \in Len(blocks) + 1 .. Len(blocks) + n : blocks'[b] = << >>
<1>1. Len(blocks) \in Nat /\ blocks \in Seq(Seq(Instruction)) /\ Block \subseteq Nat
  BY DEF TypeOK, Block
<1> DEFINE I == [op : {"code"} \cup Terminator, at : Nat, part : Part,
                 to : SUBSET (1 .. Len(blocks) + n)]
<1>2. Block \subseteq 1 .. Len(blocks) + n
  BY <1>1 DEF Block
<1>3. Instruction \subseteq I
  BY ONLY <1>2 DEF Instruction
<1>4. c \in Seq(I)
  <2>1. \A k \in 1 .. Len(c) : c[k] \in I
    <3> SUFFICES ASSUME NEW k \in 1 .. Len(c) PROVE c[k] \in I
      OBVIOUS
    <3>1. c[k] \in Loose /\ c[k].to \subseteq 1 .. Len(blocks) + n
      OBVIOUS
    <3>2. QED
      BY ONLY <3>1 DEF Loose
  <2> HIDE DEF I
  <2>2. QED
    BY ONLY <2>1, c \in Seq(Loose)
<1> HIDE DEF I
<1>5. blocks \in Seq(Seq(I))
  <2>1. Seq(Instruction) \subseteq Seq(I)
    BY ONLY <1>3
  <2> DEFINE A == Seq(Instruction)
             B == Seq(I)
  <2>2. blocks \in Seq(A) /\ A \subseteq B
    BY ONLY <1>1, <2>1
  <2> HIDE DEF A, B
  <2>3. blocks \in Seq(B)
    BY ONLY <2>2
  <2>4. QED
    BY ONLY <2>3 DEF B
<1>6. /\ blocks' \in Seq(Seq(I))
      /\ Len(blocks') = Len(blocks) + n
      /\ Block \subseteq Block'
      /\ blocks'[insert] = blocks[insert] \o c
      /\ \A b \in Block : b # insert => blocks'[b] = blocks[b]
      /\ \A b \in Len(blocks) + 1 .. Len(blocks) + n : blocks'[b] = << >>
  BY <1>4, <1>5, EmitsFacts
<1>7. I = Instruction'
  BY <1>6 DEF I, Instruction, Block
<1>8. QED
  BY ONLY <1>6, <1>7

\* A text that has returned, and goes on: a block is stuck.
LEMMA GoesOnAfterReturn ==
  ASSUME FInv, phase = "body", NEW w \in Word, text' = Append(text, w),
         NEW c \in Seq(Loose), c # << >>, NEW n \in Nat, Emits(c, n),
         \A k \in 1 .. Len(c) : c[k].to \subseteq 1 .. Len(blocks) + n,
         ~NeverReturns
  PROVE  Ends'
<1>1. TypeOK /\ insert \in Block
  BY DEF FInv, Shape
<1>2. text \in Seq(Word) /\ blocks \in Seq(Seq(Instruction))
  BY <1>1 DEF TypeOK
<1>3. (\E i \in 1 .. Len(text) - 1 : text[i] = "return")'
  BY <1>2, TextGrows DEF FInv, Ends
<1>4. /\ Block \subseteq Block'
      /\ blocks'[insert] = blocks[insert] \o c
      /\ \A b \in Block : b # insert => blocks'[b] = blocks[b]
  BY <1>1, EmitsTyped
<1>5. PICK b \in Block : Stuck(blocks[b]) \/ (b = insert /\ Closed(blocks[b]))
  BY <1>1 DEF FInv, Ends, AllClosed
<1>6. Stuck(blocks'[b])
  <2>1. CASE b = insert
    <3>1. blocks[b] \in Seq(Loose)
      <4>1. blocks[b] \in Seq(Instruction)
        BY <1>2 DEF Block
      <4>2. Instruction \subseteq Loose
        BY <1>2 DEF Instruction, Loose, Block
      <4>3. QED
        BY ONLY <4>1, <4>2
    <3>2. QED
      BY <1>4, <1>5, <2>1, <3>1, GetsStuck
  <2>2. CASE b # insert
    BY <1>4, <1>5, <2>2
  <2>3. QED
    BY <2>1, <2>2
<1>7. QED
  BY <1>3, <1>4, <1>6 DEF Ends

\* A statement that runs straight through stays in its block.
LEMMA StepOn ==
  ASSUME FInv, phase = "body", NEW w \in Word, w # "return", text' = Append(text, w),
         NEW c \in Seq(Loose), c # << >>, Goes(c), Emits(c, 0),
         \A k \in 1 .. Len(c) : c[k].to = {},
         UNCHANGED <<typed, isVoid, open, insert, from, phase>>
  PROVE  FInv'
<1>1. TypeOK /\ Shape /\ Ends /\ insert \in Block
  BY DEF FInv, Shape
<1>2. text \in Seq(Word) /\ blocks \in Seq(Seq(Instruction)) /\ open \in Seq(Statement)
  BY <1>1 DEF TypeOK
<1>3. \A k \in 1 .. Len(c) : c[k].to \subseteq 1 .. Len(blocks) + 0
  OBVIOUS
<1>4. /\ (blocks \in Seq(Seq(Instruction)))'
      /\ Len(blocks') = Len(blocks) + 0
      /\ blocks'[insert] = blocks[insert] \o c
      /\ \A b \in Block : b # insert => blocks'[b] = blocks[b]
  BY <1>1, <1>3, EmitsTyped
<1>5. Block' = Block
  BY <1>2, <1>4 DEF Block
<1>6. /\ text' \in Seq(Word) /\ Len(text') = Len(text) + 1
      /\ NeverReturns => NeverReturns'
  BY <1>2, TextGrows
<1>7. TypeOK'
  <2>1. Statement \subseteq Statement'
    BY <1>2, <1>5, <1>6 DEF Statement
  <2>2. (open \in Seq(Statement))'
    BY ONLY <1>2, <2>1, open' = open
  <2>3. QED
    BY <1>1, <1>4, <1>5, <1>6, <2>2 DEF TypeOK
<1>8. Shape'
  <2>1. open' = open /\ insert' = insert
    OBVIOUS
  <2>2. \A k \in 1 .. Len(open) : Waiting(open[k]) \subseteq Block
    <3>1. \A k \in 1 .. Len(open) : open[k] \in Statement
      BY <1>2
    <3>2. QED
      BY ONLY <3>1 DEF Waiting, Statement
  <2>3. QED
    BY <1>1, <1>4, <1>5, <2>1, <2>2 DEF Shape
<1>9. Ends'
  <2>1. CASE NeverReturns
    <3>1. Goes(blocks[insert]) /\ OthersClosed
      BY <1>1, <1>2, <2>1 DEF Ends, NeverReturns, ReturnsLast, LastOf
    <3>2. Goes(blocks'[insert'])
      <4>1. blocks[insert] \in Seq(Loose)
        <5>1. blocks[insert] \in Seq(Instruction)
          BY <1>1, <1>2 DEF Block
        <5>2. Instruction \subseteq Loose
          BY <1>2 DEF Instruction, Loose, Block
        <5>3. QED
          BY ONLY <5>1, <5>2
      <4>2. QED
        BY <1>4, <3>1, <4>1, GoesOn
    <3>3. Pending' = Pending
      BY DEF Pending, Waiting
    <3>4. OthersClosed'
      BY <1>4, <1>5, <3>1, <3>3 DEF OthersClosed
    <3>5. QED
      BY <1>6, <2>1, <3>2, <3>4 DEF Ends
  <2>2. CASE ~NeverReturns
    BY <1>3, <2>2, GoesOnAfterReturn
  <2>3. QED
    BY <2>1, <2>2
<1>10. QED
  BY <1>7, <1>8, <1>9 DEF FInv, Verifies

\* A statement that branches ends its block and goes on in an empty one.
LEMMA StepOff ==
  ASSUME FInv, phase = "body", NEW w \in Word, w # "return", text' = Append(text, w),
         NEW c \in Seq(Loose), Closed(c), NEW n \in Nat, Emits(c, n),
         \A k \in 1 .. Len(c) : c[k].to \subseteq 1 .. Len(blocks) + n,
         UNCHANGED <<typed, isVoid, phase>>,
         (open \in Seq(Statement))', (from \in SUBSET (Block \X Block))',
         Shape', blocks'[insert'] = << >>,
         \A b \in Block' \ (Pending' \cup {insert'}) :
           b = insert \/ b \in Block \ (Pending \cup {insert})
  PROVE  FInv'
<1>1. TypeOK /\ Ends /\ insert \in Block /\ c # << >>
  BY DEF FInv, Shape, Closed
<1>2. text \in Seq(Word) /\ blocks \in Seq(Seq(Instruction))
  BY <1>1 DEF TypeOK
<1>3. /\ (blocks \in Seq(Seq(Instruction)))'
      /\ blocks'[insert] = blocks[insert] \o c
      /\ \A b \in Block : b # insert => blocks'[b] = blocks[b]
  BY <1>1, EmitsTyped
<1>4. /\ text' \in Seq(Word)
      /\ NeverReturns => NeverReturns'
  BY <1>2, TextGrows
<1>5. TypeOK'
  <2>1. insert' \in Block' /\ insert' # 0
    BY DEF Shape, Block
  <2>2. QED
    BY <1>1, <1>3, <1>4, <2>1 DEF TypeOK
<1>6. Ends'
  <2>1. CASE NeverReturns
    <3>1. Goes(blocks[insert]) /\ OthersClosed
      BY <1>1, <1>2, <2>1 DEF Ends, NeverReturns, ReturnsLast, LastOf
    <3>2. Goes(blocks'[insert'])
      BY DEF Goes
    <3>3. Closed(blocks'[insert])
      <4>1. blocks[insert] \in Seq(Loose)
        <5>1. blocks[insert] \in Seq(Instruction)
          BY <1>1, <1>2 DEF Block
        <5>2. Instruction \subseteq Loose
          BY <1>2 DEF Instruction, Loose, Block
        <5>3. QED
          BY ONLY <5>1, <5>2
      <4>2. QED
        BY <1>3, <3>1, <4>1, ClosesOff
    <3>4. OthersClosed'
      BY <1>3, <3>1, <3>3 DEF OthersClosed
    <3>5. QED
      BY <1>4, <2>1, <3>2, <3>4 DEF Ends
  <2>2. CASE ~NeverReturns
    BY <1>1, <2>2, GoesOnAfterReturn
  <2>3. QED
    BY <2>1, <2>2
<1>7. QED
  BY <1>5, <1>6 DEF FInv, Verifies

\* A statement that opens: the blocks that it creates are new.
LEMMA Opens ==
  ASSUME FInv, phase = "body", NEW w \in Word, w # "return", text' = Append(text, w),
         NEW c \in Seq(Loose), Closed(c), NEW n \in Nat, Emits(c, n), n >= 1,
         \A k \in 1 .. Len(c) : c[k].to \subseteq 1 .. Len(blocks) + n,
         UNCHANGED <<typed, isVoid, phase>>,
         NEW r \in Statement', open' = Append(open, r),
         r.first > Len(blocks), r.first < r.last, insert' = Len(blocks) + 1,
         {r.last} \cup (IF r.word = "if" THEN {r.first} ELSE {}) = Len(blocks) + 2 .. Len(blocks) + n,
         (from \in SUBSET (Block \X Block))'
  PROVE  FInv'
<1>1. TypeOK /\ Shape /\ insert \in Block
  BY DEF FInv, Shape
<1>2. text \in Seq(Word) /\ open \in Seq(Statement) /\ Len(blocks) \in Nat
  BY <1>1 DEF TypeOK
<1>3. /\ Len(blocks') = Len(blocks) + n
      /\ Block \subseteq Block'
      /\ \A b \in Block : b # insert => blocks'[b] = blocks[b]
      /\ \A b \in Len(blocks) + 1 .. Len(blocks) + n : blocks'[b] = << >>
  BY <1>1, EmitsTyped
<1>4. Len(text') = Len(text) + 1 /\ Len(text) \in Nat
  BY <1>2
<1>5. Statement \subseteq Statement'
  BY ONLY <1>3, <1>4 DEF Statement
<1>6. (open \in Seq(Statement))'
  <2>1. open \in Seq(Statement')
    BY ONLY <1>2, <1>5
  <2>2. QED
    BY ONLY <2>1, open' = Append(open, r), r \in Statement'
<1>7. /\ Len(open) \in Nat /\ Len(open') = Len(open) + 1
      /\ \A k \in 1 .. Len(open) : open'[k] = open[k] /\ open[k] \in Statement
      /\ open'[Len(open) + 1] = r
  BY ONLY <1>2, open' = Append(open, r)
<1>8. \A k \in 1 .. Len(open) : Waiting(open[k]) \subseteq Block
  BY ONLY <1>7 DEF Waiting, Statement
<1>9. Waiting(r) = Len(blocks) + 2 .. Len(blocks) + n
  BY DEF Waiting
<1> DEFINE m == Len(open) + 1
           old == Len(blocks)
<1>10. \A b \in Block : b \in 1 .. old
  BY DEF Block
<1>11. Shape'
  <2>1. insert' \in Block'
    BY <1>2, <1>3, old + n >= old + 1 DEF Block
  <2>2. \A k \in 1 .. Len(open') : open'[k].first < open'[k].last
    BY <1>1, <1>7 DEF Shape
  <2>3. ASSUME NEW j \in 1 .. Len(open'), NEW k \in 1 .. Len(open'), j < k
        PROVE  open'[j].last < open'[k].first
    <3>1. j \in 1 .. Len(open)
      BY <1>7, <2>3
    <3>2. CASE k \in 1 .. Len(open)
      BY <1>1, <1>7, <2>3, <3>1, <3>2 DEF Shape
    <3>3. CASE k \notin 1 .. Len(open)
      <4>1. open'[k] = r
        BY <1>7, <3>3
      <4>2. open[j].last \in 1 .. old
        BY <1>7, <1>10, <3>1 DEF Statement
      <4>3. r.first \in Nat
        BY <1>3, r \in Statement' DEF Statement, Block
      <4>4. QED
        BY <1>2, <1>7, <3>1, <4>1, <4>2, <4>3, SMTT(30)
    <3>4. QED
      BY <3>2, <3>3
  <2>4. ASSUME NEW k \in 1 .. Len(open')
        PROVE  insert' \notin Waiting(open'[k]) /\ \A b \in Waiting(open'[k]) : blocks'[b] = << >>
    <3>1. CASE k \in 1 .. Len(open)
      <4>1. open'[k] = open[k] /\ Waiting(open[k]) \subseteq 1 .. old
        BY <1>7, <1>8, <1>10, <3>1
      <4>2. insert' \notin 1 .. old
        BY <1>2
      <4>3. insert \notin Waiting(open[k]) /\ \A b \in Waiting(open[k]) : blocks[b] = << >>
        BY <1>1, <3>1 DEF Shape
      <4>4. QED
        BY <1>3, <1>8, <3>1, <4>1, <4>2, <4>3
    <3>2. CASE k \notin 1 .. Len(open)
      <4>1. open'[k] = r
        BY <1>7, <3>2
      <4>2. QED
        BY <1>2, <1>3, <1>9, <4>1
    <3>3. QED
      BY <3>1, <3>2
  <2>5. QED
    BY <2>1, <2>2, <2>3, <2>4 DEF Shape
<1>12. blocks'[insert'] = << >>
  BY <1>2, <1>3
<1>13. ASSUME NEW b \in Block' \ (Pending' \cup {insert'}), b # insert
       PROVE  b \in Block \ (Pending \cup {insert})
  <2>1. r = open'[Len(open')] /\ Len(open') \in 1 .. Len(open')
    BY <1>7
  <2>2. Waiting(r) \subseteq Pending'
    BY ONLY <2>1 DEF Pending
  <2>3. \A k \in 1 .. Len(open) : open[k] = open'[k] /\ k \in 1 .. Len(open')
    BY <1>7
  <2>4. Pending \subseteq Pending'
    BY ONLY <2>3 DEF Pending
  <2>5. b \in 1 .. old + n /\ b # old + 1 /\ b \notin old + 2 .. old + n
    BY <1>3, <1>9, <1>13, <2>2 DEF Block
  <2>6. b \in Block
    BY <1>2, <2>5 DEF Block
  <2>7. QED
    BY <1>13, <2>4, <2>6
<1>14. QED
  BY <1>6, <1>11, <1>12, <1>13, StepOff

\* The end of a statement: the builder goes on in the block behind it.
LEMMA Closes ==
  ASSUME FInv, phase = "body", NEW w \in Word, w # "return", text' = Append(text, w),
         open # << >>, Top.word # "if",
         NEW c \in Seq(Loose), Closed(c), Emits(c, 0),
         \A k \in 1 .. Len(c) : c[k].to \subseteq 1 .. Len(blocks) + 0,
         UNCHANGED <<typed, isVoid, phase>>,
         open' = Front(open), insert' = Top.last,
         (from \in SUBSET (Block \X Block))'
  PROVE  FInv'
<1>1. TypeOK /\ Shape /\ insert \in Block
  BY DEF FInv, Shape
<1>2. /\ text \in Seq(Word) /\ open \in Seq(Statement)
      /\ Len(open) \in Nat \ {0} /\ Top = open[Len(open)]
  BY <1>1 DEF TypeOK, Top, LastOf
<1>3. /\ Block' = Block
      /\ \A b \in Block : b # insert => blocks'[b] = blocks[b]
  <2>1. blocks \in Seq(Seq(Instruction))
    BY <1>1 DEF TypeOK
  <2>2. Len(blocks) \in Nat
    BY <2>1
  <2>3. /\ Len(blocks') = Len(blocks) + 0
        /\ \A b \in Block : b # insert => blocks'[b] = blocks[b]
    BY <1>1, EmitsTyped
  <2>4. QED
    BY ONLY <2>2, <2>3 DEF Block
<1> DEFINE n == Len(open)
<1>4. /\ Len(open') = n - 1 /\ open' \in Seq(Statement)
      /\ \A k \in 1 .. n - 1 : open'[k] = open[k]
      /\ \A k \in 1 .. n : open[k] \in Statement
  <2>1. open # << >>
    OBVIOUS
  <2>2. /\ Len(Front(open)) = n - 1 /\ Front(open) \in Seq(Statement)
        /\ \A k \in 1 .. n - 1 : Front(open)[k] = open[k]
    BY ONLY <1>2, <2>1, FrontFacts
  <2>3. QED
    BY ONLY <1>2, <2>2, open' = Front(open)
<1>5. Statement \subseteq Statement'
  <2>1. Len(text') = Len(text) + 1 /\ Len(text) \in Nat
    BY <1>2
  <2>2. QED
    BY ONLY <1>3, <2>1 DEF Statement
<1>6. (open \in Seq(Statement))'
  BY ONLY <1>4, <1>5
<1>7. \A k \in 1 .. n : Waiting(open[k]) \subseteq Block
  BY ONLY <1>4 DEF Waiting, Statement
<1>8. Waiting(Top) = {Top.last} /\ n \in 1 .. n
  BY <1>2 DEF Waiting
<1>9. insert' \in Block /\ insert' # insert /\ blocks'[insert'] = << >>
  BY <1>1, <1>2, <1>3, <1>7, <1>8 DEF Shape
<1>10. Shape'
  <2> HIDE DEF n
  <2>0. ASSUME NEW k \in 1 .. Len(open') PROVE k \in 1 .. Len(open) /\ open'[k] = open[k]
    BY ONLY <1>2, <1>4, k \in 1 .. Len(open') DEF n
  <2>1. \A k \in 1 .. Len(open') : open'[k].first < open'[k].last
    BY <1>1, <2>0 DEF Shape
  <2>2. \A j, k \in 1 .. Len(open') : j < k => open'[j].last < open'[k].first
    BY <1>1, <2>0 DEF Shape
  <2> USE DEF n
  <2>3. ASSUME NEW k \in 1 .. Len(open')
        PROVE  insert' \notin Waiting(open'[k]) /\ \A b \in Waiting(open'[k]) : blocks'[b] = << >>
    <3>1. open'[k] = open[k] /\ k \in 1 .. n /\ k < n
      BY <1>2, <1>4
    <3>2. open[k].first < open[k].last /\ open[k].last < Top.first /\ Top.first < Top.last
      BY <1>1, <1>2, <3>1 DEF Shape
    <3>3. open[k] \in Statement /\ Top \in Statement
      BY <1>2, <1>4, <3>1
    <3>4. open[k].first # Top.last /\ open[k].last # Top.last
      BY ONLY <3>2, <3>3, <1>1 DEF Statement, Block
    <3>5. insert' \notin Waiting(open[k])
      BY <3>4 DEF Waiting
    <3>6. insert \notin Waiting(open[k]) /\ \A b \in Waiting(open[k]) : blocks[b] = << >>
      BY <1>1, <3>1 DEF Shape
    <3>7. QED
      BY <1>3, <1>7, <3>1, <3>5, <3>6
  <2>4. QED
    BY <1>3, <1>9, <2>1, <2>2, <2>3 DEF Shape
<1>11. ASSUME NEW b \in Block' \ (Pending' \cup {insert'}), b # insert
       PROVE  b \in Block \ (Pending \cup {insert})
  <2>1. ASSUME NEW k \in 1 .. n PROVE b \notin Waiting(open[k])
    <3>1. CASE k = n
      BY <1>2, <1>8, <1>11, <3>1
    <3>2. CASE k # n
      <4>1. open[k] = open'[k] /\ k \in 1 .. Len(open')
        BY <1>2, <1>4, <3>2
      <4>2. QED
        BY ONLY <1>11, <4>1 DEF Pending
    <3>3. QED
      BY <3>1, <3>2
  <2>2. b \notin Pending
    BY <2>1 DEF Pending
  <2>3. QED
    BY <1>3, <1>11, <2>2
<1>12. QED
  BY <1>6, <1>9, <1>10, <1>11, StepOff

-----------------------------------------------------------------------------
(***************************************************************************)
(* The steps of the generator.                                             *)
(***************************************************************************)

\* The instructions that the visits insert.
LEMMA CodeTypes ==
  ASSUME TypeOK
  PROVE  /\ Len(text) \in Nat /\ Here \in Nat /\ Here = Len(text) + 1 /\ Len(blocks) \in Nat
         /\ \A i \in Nat, part \in Part : Code(i, part) \in Loose /\ Code(i, part).op = "code"
              /\ Code(i, part).to = {}
         /\ \A to \in SUBSET Nat : Branch(to) \in Loose /\ Branch(to).op = "branch"
              /\ Branch(to).to = to
         /\ Ret \in Loose /\ Ret.op = "ret" /\ Ret.to = {}
BY DEF TypeOK, Here, Code, Branch, Ret, Loose, Part, Terminator

\* Nothing is inserted yet.
LEMMA InitInv == Init => FInv
<1> SUFFICES ASSUME Init PROVE FInv
  OBVIOUS
<1>1. /\ typed = FALSE /\ isVoid = FALSE /\ phase = "start"
      /\ text = << >> /\ open = << >> /\ blocks = << >> /\ insert = 0 /\ from = {}
  BY DEF Init
<1>2. typed \in BOOLEAN /\ isVoid \in BOOLEAN
  BY ONLY <1>1
<1>3. text \in Seq(Word) /\ open \in Seq(Statement) /\ blocks \in Seq(Seq(Instruction))
  BY ONLY <1>1
<1>4. from \in SUBSET (Block \X Block)
  BY ONLY <1>1
<1>5. TypeOK
  BY ONLY <1>1, <1>2, <1>3, <1>4 DEF TypeOK
<1>6. QED
  BY ONLY <1>1, <1>5 DEF FInv, Verifies

\* The entry block.
LEMMA EnterInv == FInv /\ Enter => FInv'
<1> SUFFICES ASSUME FInv, Enter PROVE FInv'
  OBVIOUS
<1>1. /\ text' = << >> /\ open' = << >> /\ blocks' = << << >> >> /\ from' = {}
      /\ insert' = 1 /\ phase' = "body"
  BY DEF FInv, Enter
<1>2. typed' \in BOOLEAN /\ isVoid' \in BOOLEAN
  BY DEF Enter
<1>3. Block' = {1} /\ blocks'[1] = << >>
  BY <1>1 DEF Block
<1>4. TypeOK'
  <2>1. (blocks \in Seq(Seq(Instruction)))' /\ (open \in Seq(Statement))' /\ (text \in Seq(Word))'
    BY <1>1
  <2>2. QED
    BY <1>1, <1>2, <1>3, <2>1 DEF TypeOK
<1>5. Shape'
  BY <1>1, <1>3 DEF Shape
<1>6. Ends'
  BY <1>1, <1>3 DEF Ends, NeverReturns, Goes, OthersClosed
<1>7. QED
  BY <1>1, <1>4, <1>5, <1>6 DEF FInv, Verifies

\* A statement without blocks.
LEMMA VisitStraight ==
  ASSUME FInv, phase = "body", NEW w \in {"do", "var"}, text' = Append(text, w),
         Emits(<<Code(Here, "run")>>, 0),
         UNCHANGED <<typed, isVoid, open, insert, from, phase>>
  PROVE  FInv'
<1> DEFINE c == <<Code(Here, "run")>>
<1>1. Code(Here, "run") \in Loose /\ Code(Here, "run").op = "code" /\ Code(Here, "run").to = {}
  BY CodeTypes DEF FInv, Part
<1>2. c \in Seq(Loose) /\ c # << >> /\ Len(c) = 1 /\ c[1] = Code(Here, "run")
  BY <1>1
<1>3. Goes(c) /\ \A k \in 1 .. Len(c) : c[k].to = {}
  BY <1>1, <1>2 DEF Goes, Terminator
<1>4. w \in Word /\ w # "return"
  BY DEF Word
<1> HIDE DEF c
<1>5. Emits(c, 0)
  BY DEF c
<1>6. QED
  BY <1>2, <1>3, <1>4, <1>5, StepOn

\* A return of a value closes the block; of no value there is no type.
LEMMA VisitReturnInv == FInv /\ VisitReturn => FInv'
<1> SUFFICES ASSUME FInv, VisitReturn PROVE FInv'
  OBVIOUS
<1>1. /\ phase = "body" /\ open = << >> /\ text' = Append(text, "return") /\ "return" \in Word
      /\ UNCHANGED <<typed, isVoid, open, insert, from>>
  BY DEF VisitReturn, InBody, Reads, Word
<1>2. TypeOK /\ insert \in Block /\ Ends /\ text \in Seq(Word) /\ blocks \in Seq(Seq(Instruction))
  BY <1>1 DEF FInv, Shape, TypeOK
<1>3. /\ text' \in Seq(Word)
      /\ NeverReturns => ReturnsLast'
  BY <1>1, <1>2, TextGrows
<1>4. CASE ~typed
  <2>1. phase' = "crashed" /\ blocks' = blocks
    BY <1>4 DEF VisitReturn
  <2>2. (open \in Seq(Statement))'
    BY <1>1
  <2>3. Block' = Block /\ Instruction' = Instruction
    BY <2>1 DEF Block, Instruction
  <2>4. insert' # 0
    BY <1>1, <1>2 DEF Block
  <2>5. TypeOK'
    BY <1>1, <1>2, <1>3, <2>1, <2>2, <2>3, <2>4 DEF TypeOK
  <2>6. QED
    BY <2>1, <2>5 DEF FInv, Verifies
<1>5. CASE typed
  <2> DEFINE c == <<Code(Here, "run"), Ret>>
  <2>1. Emits(c, 0) /\ phase' = phase
    BY <1>5 DEF VisitReturn
  <2>2. /\ Code(Here, "run") \in Loose /\ Code(Here, "run").op = "code" /\ Code(Here, "run").to = {}
        /\ Ret \in Loose /\ Ret.op = "ret" /\ Ret.to = {}
    BY CodeTypes DEF FInv, Part
  <2>3. c \in Seq(Loose) /\ c # << >> /\ Len(c) = 2 /\ c[1] = Code(Here, "run") /\ c[2] = Ret
    BY <2>2
  <2>4. Closed(c) /\ \A k \in 1 .. Len(c) : c[k].to \subseteq 1 .. Len(blocks) + 0
    BY <2>2, <2>3 DEF Closed, Terminator
  <2> HIDE DEF c
  <2>5. /\ (blocks \in Seq(Seq(Instruction)))'
        /\ Len(blocks') = Len(blocks) + 0
        /\ blocks'[insert] = blocks[insert] \o c
        /\ \A b \in Block : b # insert => blocks'[b] = blocks[b]
    BY <1>2, <2>1, <2>3, <2>4, EmitsTyped
  <2>6. Block' = Block
    BY <1>2, <2>5 DEF Block
  <2>7. (open \in Seq(Statement))'
    BY <1>1
  <2>8. TypeOK'
    BY <1>1, <1>2, <1>3, <2>1, <2>5, <2>6, <2>7 DEF TypeOK
  <2>9. Shape'
    BY <1>1, <1>2, <2>6 DEF Shape
  <2>10. Ends'
    <3>1. CASE NeverReturns
      <4>1. Goes(blocks[insert]) /\ OthersClosed
        BY <1>2, <3>1 DEF Ends, NeverReturns, ReturnsLast, LastOf
      <4>2. blocks[insert] \in Seq(Loose)
        <5>1. blocks[insert] \in Seq(Instruction)
          BY <1>2 DEF Block
        <5>2. Instruction \subseteq Loose
          BY <1>2 DEF Instruction, Loose, Block
        <5>3. QED
          BY ONLY <5>1, <5>2
      <4>3. Closed(blocks'[insert])
        BY <2>3, <2>4, <2>5, <4>1, <4>2, ClosesOff
      <4>4. Pending = {}
        BY <1>1 DEF Pending
      <4>5. AllClosed'
        BY <2>5, <2>6, <4>1, <4>3, <4>4 DEF AllClosed, OthersClosed
      <4>6. QED
        BY <1>1, <1>3, <3>1, <4>5 DEF Ends
    <3>2. CASE ~NeverReturns
      BY <1>1, <2>1, <2>3, <2>4, <3>2, GoesOnAfterReturn
    <3>3. QED
      BY <3>1, <3>2
  <2>11. QED
    BY <1>1, <2>1, <2>8, <2>9, <2>10 DEF FInv, Verifies
<1>6. QED
  BY <1>2, <1>4, <1>5 DEF TypeOK

\* An if opens with three blocks.
LEMMA VisitIfInv == FInv /\ VisitIf => FInv'
<1> SUFFICES ASSUME FInv, VisitIf PROVE FInv'
  OBVIOUS
<1>0. phase = "body" BY DEF VisitIf, InBody
<1> DEFINE n == Len(blocks)
           c == <<Code(Here, "test"), Branch({n + 1, n + 2})>>
           r == [word |-> "if", at |-> Here, first |-> n + 2, last |-> n + 3]
<1>1. /\ text' = Append(text, "if") /\ "if" \in Word
      /\ Emits(c, 3) /\ insert' = n + 1 /\ open' = Append(open, r)
      /\ UNCHANGED <<typed, isVoid, from, phase>>
  BY DEF VisitIf, Reads, Word
<1>2. TypeOK /\ insert \in Block /\ text \in Seq(Word) /\ n \in Nat /\ from \in SUBSET (Block \X Block)
  BY <1>0 DEF FInv, Shape, TypeOK
<1>3. /\ Code(Here, "test") \in Loose /\ Code(Here, "test").op = "code" /\ Code(Here, "test").to = {}
      /\ Branch({n + 1, n + 2}) \in Loose /\ Branch({n + 1, n + 2}).op = "branch"
      /\ Branch({n + 1, n + 2}).to = {n + 1, n + 2}
      /\ Here = Len(text) + 1 /\ Len(text) \in Nat
  <2>1. {n + 1, n + 2} \in SUBSET Nat
    BY ONLY <1>2
  <2>2. "test" \in Part
    BY DEF Part
  <2>3. QED
    BY ONLY <1>2, <2>1, <2>2, CodeTypes
<1>4. c \in Seq(Loose) /\ c # << >> /\ Len(c) = 2 /\ c[1] = Code(Here, "test")
      /\ c[2] = Branch({n + 1, n + 2})
  BY <1>3
<1> HIDE DEF c
<1>5. Closed(c)
  BY <1>3, <1>4 DEF Closed, Terminator
<1>6. ASSUME NEW k \in 1 .. Len(c) PROVE c[k].to \subseteq 1 .. n + 3
  <2>1. k = 1 \/ k = 2
    BY ONLY <1>4, k \in 1 .. Len(c)
  <2>2. {n + 1, n + 2} \subseteq 1 .. n + 3
    BY ONLY <1>2
  <2>3. QED
    BY ONLY <1>3, <1>4, <2>1, <2>2
<1>7. Len(blocks') = n + 3 /\ Block \subseteq Block'
  BY <1>1, <1>2, <1>4, <1>6, EmitsTyped
<1>8. Len(text') = Len(text) + 1
  BY <1>1, <1>2
<1>9. r \in Statement'
  BY <1>2, <1>3, <1>7, <1>8 DEF Statement, Block
<1>10. (from \in SUBSET (Block \X Block))'
  BY <1>1, <1>2, <1>7
<1>11. {r.last} \cup (IF r.word = "if" THEN {r.first} ELSE {}) = n + 2 .. n + 3
  BY <1>2
<1>12. r.first > n /\ r.first < r.last
  BY <1>2
<1> HIDE DEF r
<1>13. "if" # "return" /\ 3 \in Nat /\ 3 >= 1
  OBVIOUS
<1>14. QED
  BY <1>0, <1>1, <1>4, <1>5, <1>6, <1>9, <1>10, <1>11, <1>12, <1>13, Opens

\* A for opens with the block of the loop and the one after it.
LEMMA VisitForInv == FInv /\ VisitFor => FInv'
<1> SUFFICES ASSUME FInv, VisitFor PROVE FInv'
  OBVIOUS
<1> DEFINE n == Len(blocks)
           c == <<Branch({n + 1})>>
           r == [word |-> "for", at |-> Here, first |-> n + 1, last |-> n + 1 + 1]
<1>1. /\ phase = "body" /\ text' = Append(text, "for") /\ "for" \in Word
      /\ Emits(c, 2) /\ insert' = n + 1 /\ open' = Append(open, r)
      /\ from' = from \cup {<<n + 1, insert>>}
      /\ UNCHANGED <<typed, isVoid, phase>>
  BY DEF VisitFor, InBody, Reads, Word
<1>2. TypeOK /\ insert \in Block /\ text \in Seq(Word) /\ n \in Nat /\ from \in SUBSET (Block \X Block)
  BY <1>1 DEF FInv, Shape, TypeOK
<1>3. /\ Branch({n + 1}) \in Loose /\ Branch({n + 1}).op = "branch" /\ Branch({n + 1}).to = {n + 1}
      /\ Here = Len(text) + 1 /\ Len(text) \in Nat
  BY <1>2, CodeTypes
<1>4. c \in Seq(Loose) /\ c # << >> /\ Len(c) = 1 /\ c[1] = Branch({n + 1})
  BY <1>3
<1> HIDE DEF c
<1>5. Closed(c)
  BY <1>3, <1>4 DEF Closed, Terminator
<1>6. ASSUME NEW k \in 1 .. Len(c) PROVE c[k].to \subseteq 1 .. n + 2
  <2>1. k = 1
    BY ONLY <1>4, k \in 1 .. Len(c)
  <2>2. {n + 1} \subseteq 1 .. n + 2
    BY ONLY <1>2
  <2>3. c[k] = Branch({n + 1})
    BY ONLY <1>4, <2>1
  <2>4. c[k].to = {n + 1}
    BY ONLY <1>3, <2>3, Zenon
  <2>5. QED
    BY ONLY <2>2, <2>4
<1>7. Len(blocks') = n + 2 /\ Block \subseteq Block'
  BY <1>1, <1>2, <1>4, <1>6, EmitsTyped
<1>8. Len(text') = Len(text) + 1
  BY <1>1, <1>2
<1>9. r \in Statement'
  BY <1>2, <1>3, <1>7, <1>8 DEF Statement, Block
<1>10. (from \in SUBSET (Block \X Block))'
  <2>1. n + 1 \in Block'
    BY <1>2, <1>7 DEF Block
  <2>2. QED
    BY <1>1, <1>2, <1>7, <2>1
<1>11. {r.last} \cup (IF r.word = "if" THEN {r.first} ELSE {}) = n + 2 .. n + 2
  BY <1>2
<1>12. r.first > n /\ r.first < r.last
  BY <1>2
<1> HIDE DEF r
<1>13. "for" # "return" /\ 2 \in Nat /\ 2 >= 1
  OBVIOUS
<1>14. QED
  BY <1>1, <1>4, <1>5, <1>6, <1>9, <1>10, <1>11, <1>12, <1>13, Opens

\* The statement that is visited, and its blocks.
LEMMA TopFacts ==
  ASSUME TypeOK, open # << >>
  PROVE  /\ Len(open) \in Nat \ {0} /\ Top = open[Len(open)] /\ Top \in Statement
         /\ Top.at \in Nat /\ Top.first \in Block /\ Top.last \in Block
         /\ Block = 1 .. Len(blocks) + 0 /\ Block \subseteq Nat
<1>1. open \in Seq(Statement) /\ Len(blocks) \in Nat /\ Len(text) \in Nat
  BY DEF TypeOK
<1>2. Len(open) \in Nat \ {0} /\ Top = open[Len(open)] /\ Top \in Statement
  BY <1>1 DEF Top, LastOf
<1>3. Block = 1 .. Len(blocks) + 0 /\ Block \subseteq Nat
  BY <1>1 DEF Block
<1>4. QED
  BY <1>1, <1>2, <1>3 DEF Statement

\* The end of an if.
LEMMA VisitEndIfInv == FInv /\ VisitEndIf => FInv'
<1> SUFFICES ASSUME FInv, VisitEndIf PROVE FInv'
  OBVIOUS
<1> DEFINE c == <<Branch({Top.last})>>
<1>1. /\ phase = "body" /\ text' = Append(text, "endif") /\ "endif" \in Word
      /\ open # << >> /\ Top.word # "if" /\ Emits(c, 0)
      /\ insert' = Top.last /\ open' = Front(open)
      /\ UNCHANGED <<typed, isVoid, from, phase>>
  BY DEF VisitEndIf, Reads, Word
<1>2. TypeOK /\ insert \in Block /\ from \in SUBSET (Block \X Block)
  BY <1>1 DEF FInv, Shape, TypeOK
<1>3. Top.last \in Block /\ Block = 1 .. Len(blocks) + 0 /\ Block \subseteq Nat
  BY <1>1, <1>2, TopFacts
<1>4. /\ Branch({Top.last}) \in Loose /\ Branch({Top.last}).op = "branch"
      /\ Branch({Top.last}).to = {Top.last}
  BY <1>2, <1>3, CodeTypes
<1>5. c \in Seq(Loose) /\ c # << >> /\ Len(c) = 1 /\ c[1] = Branch({Top.last})
  BY <1>4
<1> HIDE DEF c
<1>6. Closed(c) /\ \A k \in 1 .. Len(c) : c[k].to \subseteq 1 .. Len(blocks) + 0
  <2>1. Closed(c)
    BY ONLY <1>4, <1>5 DEF Closed, Terminator
  <2>2. {Top.last} \subseteq 1 .. Len(blocks) + 0
    BY ONLY <1>3
  <2>3. ASSUME NEW k \in 1 .. Len(c) PROVE c[k].to \subseteq {Top.last}
    <3>1. k = 1
      BY ONLY <1>5, k \in 1 .. Len(c)
    <3>2. QED
      BY ONLY <1>4, <1>5, <3>1
  <2>4. QED
    BY ONLY <2>1, <2>2, <2>3
<1>7. Block \subseteq Block'
  BY <1>1, <1>2, <1>5, <1>6, EmitsTyped
<1>8. (from \in SUBSET (Block \X Block))'
  BY <1>1, <1>2, <1>7
<1>9. QED
  BY <1>1, <1>5, <1>6, <1>8, Closes

\* The end of a for.
LEMMA VisitEndForInv == FInv /\ VisitEndFor => FInv'
<1> SUFFICES ASSUME FInv, VisitEndFor PROVE FInv'
  OBVIOUS
<1> DEFINE to == {Top.first, Top.last}
           c == <<Code(Top.at, "step"), Code(Top.at, "test"), Branch(to)>>
<1>1. /\ phase = "body" /\ text' = Append(text, "endfor") /\ "endfor" \in Word
      /\ open # << >> /\ Top.word # "if" /\ Emits(c, 0)
      /\ insert' = Top.last /\ open' = Front(open)
      /\ from' = from \cup {<<Top.first, insert>>}
      /\ UNCHANGED <<typed, isVoid, phase>>
  BY DEF VisitEndFor, Reads, Word
<1>2. TypeOK /\ insert \in Block /\ from \in SUBSET (Block \X Block)
  BY <1>1 DEF FInv, Shape, TypeOK
<1>3. /\ Top.at \in Nat /\ Top.first \in Block /\ Top.last \in Block
      /\ Block = 1 .. Len(blocks) + 0 /\ Block \subseteq Nat
  BY <1>1, <1>2, TopFacts
<1>4. /\ Code(Top.at, "step") \in Loose /\ Code(Top.at, "step").op = "code" /\ Code(Top.at, "step").to = {}
      /\ Code(Top.at, "test") \in Loose /\ Code(Top.at, "test").op = "code" /\ Code(Top.at, "test").to = {}
      /\ Branch(to) \in Loose /\ Branch(to).op = "branch" /\ Branch(to).to = to
  <2>1. Code(Top.at, "step") \in Loose /\ Code(Top.at, "step").op = "code" /\ Code(Top.at, "step").to = {}
    BY <1>2, <1>3, CodeTypes DEF Part
  <2>2. Code(Top.at, "test") \in Loose /\ Code(Top.at, "test").op = "code" /\ Code(Top.at, "test").to = {}
    BY <1>2, <1>3, CodeTypes DEF Part
  <2>3. to \in SUBSET Nat BY <1>3
  <2> HIDE DEF to
  <2>4. Branch(to) \in Loose /\ Branch(to).op = "branch" /\ Branch(to).to = to
    BY <1>2, <2>3, CodeTypes
  <2> QED BY <2>1, <2>2, <2>4
<1>5. c \in Seq(Loose) /\ c # << >> /\ Len(c) = 3 /\ c[1] = Code(Top.at, "step")
      /\ c[2] = Code(Top.at, "test") /\ c[3] = Branch(to)
  BY <1>4
<1> HIDE DEF c
<1>6. Closed(c) /\ \A k \in 1 .. Len(c) : c[k].to \subseteq 1 .. Len(blocks) + 0
  <2>1. Closed(c)
    BY ONLY <1>4, <1>5 DEF Closed, Terminator
  <2>2. {Top.first, Top.last} \subseteq 1 .. Len(blocks) + 0
    BY ONLY <1>3
  <2>3. ASSUME NEW k \in 1 .. Len(c) PROVE c[k].to \subseteq {Top.first, Top.last}
    <3>1. k = 1 \/ k = 2 \/ k = 3
      BY ONLY <1>5, k \in 1 .. Len(c)
    <3>2. QED
      BY ONLY <1>4, <1>5, <3>1
  <2>4. QED
    BY ONLY <2>1, <2>2, <2>3
<1>7. Block \subseteq Block'
  BY <1>1, <1>2, <1>5, <1>6, EmitsTyped
<1>8. (from \in SUBSET (Block \X Block))'
  BY <1>1, <1>2, <1>3, <1>7
<1>9. QED
  BY <1>1, <1>5, <1>6, <1>8, Closes

\* From the then part to the else part: the builder goes on in the else block.
LEMMA VisitElseInv == FInv /\ VisitElse => FInv'
<1> SUFFICES ASSUME FInv, VisitElse PROVE FInv'
  OBVIOUS
<1> DEFINE c == <<Branch({Top.last})>>
           n == Len(open)
<1>1. /\ phase = "body" /\ text' = Append(text, "else") /\ "else" \in Word
      /\ open # << >> /\ Top.word = "if" /\ Emits(c, 0)
      /\ insert' = Top.first /\ open' = [open EXCEPT ![n].word = "else"]
      /\ UNCHANGED <<typed, isVoid, from, phase>>
  BY DEF VisitElse, Reads, Word
<1>2. /\ TypeOK /\ Shape /\ insert \in Block /\ from \in SUBSET (Block \X Block)
      /\ open \in Seq(Statement) /\ text \in Seq(Word)
  BY <1>1 DEF FInv, Shape, TypeOK
<1>3. /\ n \in Nat \ {0} /\ Top = open[n] /\ Top \in Statement
      /\ Top.first \in Block /\ Top.last \in Block
      /\ Block = 1 .. Len(blocks) + 0 /\ Block \subseteq Nat
  BY <1>1, <1>2, TopFacts
<1>4. /\ Branch({Top.last}) \in Loose /\ Branch({Top.last}).op = "branch"
      /\ Branch({Top.last}).to = {Top.last}
  BY <1>2, <1>3, CodeTypes
<1>5. c \in Seq(Loose) /\ c # << >> /\ Len(c) = 1 /\ c[1] = Branch({Top.last})
  BY <1>4
<1> HIDE DEF c
<1>6. Closed(c) /\ \A k \in 1 .. Len(c) : c[k].to \subseteq 1 .. Len(blocks) + 0
  <2>1. Closed(c)
    BY ONLY <1>4, <1>5 DEF Closed, Terminator
  <2>2. {Top.last} \subseteq 1 .. Len(blocks) + 0
    BY ONLY <1>3
  <2>3. ASSUME NEW k \in 1 .. Len(c) PROVE c[k].to \subseteq {Top.last}
    <3>1. k = 1
      BY ONLY <1>5, k \in 1 .. Len(c)
    <3>2. QED
      BY ONLY <1>4, <1>5, <3>1
  <2>4. QED
    BY ONLY <2>1, <2>2, <2>3
<1>7. /\ Block' = Block
      /\ \A b \in Block : b # insert => blocks'[b] = blocks[b]
  <2>1. Len(blocks) \in Nat
    BY <1>2 DEF TypeOK
  <2>2. /\ Len(blocks') = Len(blocks) + 0
        /\ \A b \in Block : b # insert => blocks'[b] = blocks[b]
    BY <1>1, <1>2, <1>5, <1>6, EmitsTyped
  <2>3. QED
    BY ONLY <2>1, <2>2 DEF Block
<1>8. (from \in SUBSET (Block \X Block))'
  BY <1>1, <1>2, <1>7
<1>9. Statement \subseteq Statement'
  <2>1. Len(text') = Len(text) + 1 /\ Len(text) \in Nat
    BY <1>1, <1>2
  <2>2. QED
    BY ONLY <1>7, <2>1 DEF Statement
<1> HIDE DEF n
<1>10. /\ Len(open') = n
       /\ \A k \in 1 .. n : k # n => open'[k] = open[k]
       /\ open'[n] = [Top EXCEPT !.word = "else"]
  BY <1>1, <1>2, <1>3 DEF n
<1>11. /\ [Top EXCEPT !.word = "else"] \in Statement
       /\ open'[n].word = "else" /\ open'[n].first = Top.first /\ open'[n].last = Top.last
  BY ONLY <1>3, <1>10 DEF Statement
<1>12. (open \in Seq(Statement))'
  <2>1. open' \in Seq(Statement)
    <3>1. \A k \in 1 .. n : open'[k] \in Statement
      BY <1>2, <1>10, <1>11 DEF n
    <3>2. open = [k \in 1 .. n |-> open[k]]
      BY ONLY <1>2 DEF n
    <3>3. open' = [open EXCEPT ![n] = [open[n] EXCEPT !.word = "else"]]
      BY ONLY <1>1
    <3>4. open' = [k \in 1 .. n |-> open'[k]]
      BY ONLY <1>3, <3>2, <3>3
    <3>5. QED
      BY ONLY <1>3, <3>1, <3>4
  <2>2. QED
    BY ONLY <1>9, <2>1
<1>13. \A k \in 1 .. n : open[k] \in Statement /\ Waiting(open[k]) \subseteq Block
  <2>1. \A k \in 1 .. n : open[k] \in Statement
    BY <1>2 DEF n
  <2>2. QED
    BY ONLY <2>1 DEF Waiting, Statement
<1>14. Waiting(Top) = {Top.last, insert'} /\ Waiting(open'[n]) = {Top.last} /\ n \in 1 .. n
  BY <1>1, <1>3, <1>11 DEF Waiting
<1>15. /\ insert' \in Block /\ insert' # insert /\ blocks'[insert'] = << >>
       /\ insert' # Top.last /\ Top.last # insert /\ blocks'[Top.last] = << >>
  <2>1. /\ insert \notin Waiting(Top) /\ \A b \in Waiting(Top) : blocks[b] = << >>
        /\ Top.first < Top.last
    BY <1>2, <1>3, <1>14 DEF Shape, n
  <2>2. Top.first \in Nat /\ Top.last \in Nat /\ Top.first \in Block /\ Top.last \in Block
    BY ONLY <1>3
  <2>3. Top.first # Top.last
    BY ONLY <2>1, <2>2
  <2>4. insert' = Top.first
    BY <1>1
  <2>5. QED
    BY ONLY <1>7, <1>14, <2>1, <2>2, <2>3, <2>4
<1>16. \A k \in 1 .. n : open'[k].first = open[k].first /\ open'[k].last = open[k].last
  BY <1>3, <1>10, <1>11
<1>17. Shape'
  <2>1. ASSUME NEW k \in 1 .. n
        PROVE  insert' \notin Waiting(open'[k]) /\ \A b \in Waiting(open'[k]) : blocks'[b] = << >>
    <3>1. CASE k = n
      BY <1>14, <1>15, <3>1
    <3>2. CASE k # n
      <4>1. open'[k] = open[k] /\ k < n
        BY <1>3, <1>10, <3>2
      <4>2. open[k].first < open[k].last /\ open[k].last < Top.first
        BY <1>2, <1>3, <1>14, <4>1 DEF Shape, n
      <4>3. open[k].first \in Nat /\ open[k].last \in Nat /\ Top.first \in Nat
        BY <1>3, <1>13 DEF Statement
      <4>4. insert' \notin Waiting(open[k])
        BY <1>1, <4>2, <4>3 DEF Waiting
      <4>5. insert \notin Waiting(open[k]) /\ \A b \in Waiting(open[k]) : blocks[b] = << >>
        BY <1>2 DEF Shape, n
      <4>6. QED
        BY <1>7, <1>13, <4>1, <4>4, <4>5
    <3>3. QED
      BY <3>1, <3>2
  <2>2. \A k \in 1 .. n : open[k].first < open[k].last
    BY <1>2 DEF Shape, n
  <2>3. \A j, k \in 1 .. n : j < k => open[j].last < open[k].first
    BY <1>2 DEF Shape, n
  <2>4. QED
    BY <1>7, <1>10, <1>15, <1>16, <2>1, <2>2, <2>3 DEF Shape
<1>18. ASSUME NEW b \in Block' \ (Pending' \cup {insert'}), b # insert
       PROVE  b \in Block \ (Pending \cup {insert})
  <2>1. ASSUME NEW k \in 1 .. n PROVE b \notin Waiting(open[k])
    <3>1. b \notin Waiting(open'[k])
      BY ONLY <1>10, <1>18 DEF Pending
    <3>2. CASE k = n
      BY <1>3, <1>14, <1>18, <3>1, <3>2
    <3>3. CASE k # n
      BY <1>10, <3>1, <3>3
    <3>4. QED
      BY <3>2, <3>3
  <2>2. b \notin Pending
    BY <2>1 DEF Pending, n
  <2>3. QED
    BY <1>7, <1>18, <2>2
<1>19. QED
  BY <1>1, <1>5, <1>6, <1>8, <1>12, <1>15, <1>17, <1>18, StepOff

\* The end of the callable: whether its blocks can be saved is settled.
LEMMA LeaveInv == FInv /\ Leave => FInv'
<1> SUFFICES ASSUME FInv, Leave PROVE FInv'
  OBVIOUS
<1>1. /\ phase = "body" /\ phase' = "done" /\ open = << >>
      /\ UNCHANGED <<typed, isVoid, text, open, insert, from>>
  BY DEF Leave
<1>2. /\ TypeOK /\ Ends /\ insert \in Block /\ text \in Seq(Word)
      /\ blocks \in Seq(Seq(Instruction)) /\ Len(blocks) \in Nat
  BY <1>1 DEF FInv, Shape, TypeOK
<1>3. Pending = {}
  BY <1>1 DEF Pending
<1>4. Instruction \subseteq Loose
  BY <1>2 DEF Instruction, Loose, Block
<1>5. ASSUME NEW b \in Block PROVE blocks[b] \in Seq(Loose)
  <2>1. blocks[b] \in Seq(Instruction)
    BY <1>2 DEF Block
  <2>2. QED
    BY ONLY <2>1, <1>4
<1>6. /\ NeverReturns => ~ReturnsLast
      /\ ReturnsLast => ~NeverReturns
      /\ (\E i \in 1 .. Len(text) - 1 : text[i] = "return") => ~NeverReturns /\ ~ReturnsLast
  BY <1>2 DEF NeverReturns, ReturnsLast, LastOf
<1>7. CASE isVoid
  <2> DEFINE c == <<Ret>>
  <2>1. Emits(c, 0)
    BY <1>7 DEF Leave
  <2>2. Ret \in Loose /\ Ret.op = "ret" /\ Ret.to = {}
    BY <1>2, CodeTypes
  <2>3. c \in Seq(Loose) /\ c # << >> /\ Len(c) = 1 /\ c[1] = Ret
    BY <2>2
  <2> HIDE DEF c
  <2>4. Closed(c) /\ \A k \in 1 .. Len(c) : c[k].to \subseteq 1 .. Len(blocks) + 0
    BY <2>2, <2>3 DEF Closed, Terminator
  <2>5. /\ (blocks \in Seq(Seq(Instruction)))'
        /\ Len(blocks') = Len(blocks) + 0
        /\ blocks'[insert] = blocks[insert] \o c
        /\ \A b \in Block : b # insert => blocks'[b] = blocks[b]
    BY <1>2, <2>1, <2>3, <2>4, EmitsTyped
  <2>6. Block' = Block
    BY <1>2, <2>5 DEF Block
  <2>7. (open \in Seq(Statement))'
    BY <1>1
  <2>8. TypeOK'
    BY <1>1, <1>2, <2>5, <2>6, <2>7 DEF TypeOK
  <2>9. AllClosed' <=> NeverReturns
    <3>1. CASE NeverReturns
      <4>1. Goes(blocks[insert]) /\ OthersClosed
        BY <1>2, <1>6, <3>1 DEF Ends
      <4>2. Closed(blocks'[insert])
        BY <1>2, <1>5, <2>3, <2>4, <2>5, <4>1, ClosesOff
      <4>3. QED
        BY <1>3, <2>5, <2>6, <3>1, <4>1, <4>2 DEF AllClosed, OthersClosed
    <3>2. CASE ~NeverReturns
      <4>1. PICK b \in Block : Stuck(blocks[b]) \/ (b = insert /\ Closed(blocks[b]))
        BY <1>2, <3>2 DEF Ends, AllClosed
      <4>2. Stuck(blocks'[b])
        <5>1. CASE b = insert
          BY <1>5, <2>3, <2>5, <4>1, <5>1, GetsStuck
        <5>2. CASE b # insert
          BY <2>5, <4>1, <5>2
        <5>3. QED
          BY <5>1, <5>2
      <4>3. \E k \in 1 .. Len(blocks'[b]) - 1 : blocks'[b][k].op \in Terminator
        BY <4>2 DEF Stuck
      <4>4. blocks'[b] \in Seq(Instruction')
        BY <2>5, <2>6 DEF Block
      <4>5. ~Closed(blocks'[b])
        BY <4>2, <4>4, StuckIsNotClosed
      <4>6. QED
        BY <2>6, <3>2, <4>5 DEF AllClosed
    <3>3. QED
      BY <3>1, <3>2
  <2>10. NeverReturns' = NeverReturns /\ isVoid' = isVoid
    BY <1>1 DEF NeverReturns
  <2>11. QED
    BY <1>1, <1>7, <2>8, <2>9, <2>10 DEF FInv, Verifies
<1>8. CASE ~isVoid
  <2>1. blocks' = blocks
    BY <1>8 DEF Leave
  <2>2. Block' = Block /\ Instruction' = Instruction
    BY <2>1 DEF Block, Instruction
  <2>3. (open \in Seq(Statement))'
    BY <1>1
  <2>4. TypeOK'
    BY <1>1, <1>2, <2>1, <2>2, <2>3 DEF TypeOK
  <2>5. AllClosed <=> ReturnsLast
    <3>1. CASE NeverReturns
      <4>1. Goes(blocks[insert])
        BY <1>2, <1>6, <3>1 DEF Ends
      <4>2. ~Closed(blocks[insert])
        <5>1. blocks[insert] \in Seq(Loose)
          BY <1>2, <1>5
        <5>2. QED
          BY <4>1, <5>1 DEF Goes, Closed
      <4>3. QED
        BY <1>2, <1>6, <3>1, <4>2 DEF AllClosed
    <3>2. CASE ReturnsLast
      BY <1>2, <1>6, <3>2 DEF Ends
    <3>3. CASE ~NeverReturns /\ ~ReturnsLast
      <4>1. PICK b \in Block : Stuck(blocks[b])
        BY <1>2, <3>3 DEF Ends
      <4>2. ~Closed(blocks[b])
        BY <1>5, <4>1, StuckIsNotClosed
      <4>3. QED
        BY <3>3, <4>2 DEF AllClosed
    <3>4. QED
      BY <3>1, <3>2, <3>3
  <2>6. AllClosed' = AllClosed /\ ReturnsLast' = ReturnsLast /\ isVoid' = isVoid
    BY <1>1, <2>1, <2>2 DEF AllClosed, ReturnsLast, LastOf
  <2>7. QED
    BY <1>1, <1>8, <2>4, <2>5, <2>6 DEF FInv, Verifies
<1>9. QED
  BY <1>7, <1>8

\* Steps of something else.
LEMMA Stutters == FInv /\ UNCHANGED vars => FInv'
<1> SUFFICES ASSUME FInv, UNCHANGED vars PROVE FInv'
  OBVIOUS
<1>1. UNCHANGED <<typed, isVoid, text, open, blocks, insert, from, phase>>
  BY DEF vars
<1>2. Block' = Block /\ Instruction' = Instruction /\ Statement' = Statement
  BY ONLY <1>1 DEF Block, Instruction, Statement
<1>3. TypeOK'
  BY <1>1, <1>2 DEF FInv, TypeOK
<1>4. Shape' <=> Shape
  BY ONLY <1>1, <1>2 DEF Shape, Waiting
<1>5. Pending' = Pending
  BY ONLY <1>1 DEF Pending, Waiting
<1>6. AllClosed' = AllClosed /\ OthersClosed' = OthersClosed
  BY ONLY <1>1, <1>2, <1>5 DEF AllClosed, OthersClosed
<1>7. NeverReturns' = NeverReturns /\ ReturnsLast' = ReturnsLast
  BY ONLY <1>1 DEF NeverReturns, ReturnsLast, LastOf
<1>8. Ends' <=> Ends
  BY ONLY <1>1, <1>2, <1>6, <1>7 DEF Ends, Goes, Stuck
<1>9. Verifies' <=> Verifies
  BY ONLY <1>1, <1>6, <1>7 DEF Verifies
<1>10. QED
  BY <1>1, <1>3, <1>4, <1>8, <1>9 DEF FInv

\* Every step keeps the invariant.
LEMMA NextInv == FInv /\ [Next]_vars => FInv'
<1> SUFFICES ASSUME FInv, [Next]_vars PROVE FInv'
  OBVIOUS
<1>1. CASE Enter
  BY <1>1, EnterInv
<1>2. CASE Leave
  BY <1>2, LeaveInv
<1>3. CASE VisitDo
  BY <1>3, VisitStraight DEF VisitDo, InBody, Reads
<1>4. CASE VisitVar
  BY <1>4, VisitStraight DEF VisitVar, InBody, Reads
<1>5. CASE VisitReturn
  BY <1>5, VisitReturnInv
<1>6. CASE VisitIf
  BY <1>6, VisitIfInv
<1>7. CASE VisitElse
  BY <1>7, VisitElseInv
<1>9. CASE VisitEndIf
  BY <1>9, VisitEndIfInv
<1>10. CASE VisitFor
  BY <1>10, VisitForInv
<1>11. CASE VisitEndFor
  BY <1>11, VisitEndForInv
<1>12. CASE UNCHANGED vars
  BY <1>12, Stutters
<1>13. QED
  BY <1>1, <1>2, <1>3, <1>4, <1>5, <1>6, <1>7, <1>9, <1>10, <1>11, <1>12 DEF Next

-----------------------------------------------------------------------------
\* The invariant holds of every body.
THEOREM Invariant == Spec => []FInv
BY InitInv, NextInv, PTL DEF Spec

\* The blocks that the generator branches to, and takes the values of phis from, exist,
\* whatever the body is.
THEOREM TypeCorrect == Spec => []TypeOK
<1>1. FInv => TypeOK
  BY DEF FInv
<1>2. QED
  BY <1>1, Invariant, PTL

\* The module of a callable is saved exactly when the callable ends as isVoid says it
\* does: without a return when it is set, with one that is the last statement when not.
THEOREM VerifiesAlways == Spec => []Verifies
<1>1. FInv => Verifies
  BY DEF FInv
<1>2. QED
  BY <1>1, Invariant, PTL

-----------------------------------------------------------------------------
(***************************************************************************)
(* The phis.                                                               *)
(***************************************************************************)

\* The blocks that have a phi, and what branches to a block.
Loops == {p[1] : p \in from}
GoesTo(code, b) == \E k \in 1 .. Len(code) : b \in code[k].to

\* A loop block has a value for each block that branches to it, at any time: for the
\* block before it while its body is visited.  No merge block, nor a block after a for,
\* is a loop.
FromBranches == \A loop \in Loops, b \in Block : <<loop, b>> \in from <=> GoesTo(blocks[b], loop)
LoopsApart ==
  \A i \in 1 .. Len(open) :
    open[i].last \notin Loops /\ (open[i].word = "for" => open[i].first \in Loops)
OnlyBranches ==
  \A b \in Block : \A k \in 1 .. Len(blocks[b]) :
    blocks[b][k].to # {} => blocks[b][k].op \in Terminator

Phis == FromBranches /\ LoopsApart /\ OnlyBranches

\* What is inserted, where.
LEMMA Inserts ==
  ASSUME TypeOK, insert \in Block, NEW c \in Seq(Loose), NEW n \in Nat, Emits(c, n)
  PROVE  /\ Len(blocks) \in Nat /\ Block = 1 .. Len(blocks) /\ Block' = 1 .. Len(blocks) + n
         /\ \A b \in Block : b # insert => blocks'[b] = blocks[b]
         /\ \A b \in Block' \ Block : blocks'[b] = << >>
         /\ \A l : GoesTo(blocks'[insert], l) <=> GoesTo(blocks[insert], l) \/ GoesTo(c, l)
         /\ \A k \in 1 .. Len(blocks'[insert]) :
              \/ \E i \in 1 .. Len(blocks[insert]) : blocks'[insert][k] = blocks[insert][i]
              \/ \E i \in 1 .. Len(c) : blocks'[insert][k] = c[i]
<1>1. blocks \in Seq(Seq(Instruction)) /\ Len(blocks) \in Nat BY DEF TypeOK
<1>2. Instruction \subseteq Loose BY <1>1 DEF Instruction, Loose, Block
<1>3. blocks \in Seq(Seq(Loose))
  <2> DEFINE A == Seq(Instruction)
             B == Seq(Loose)
  <2>1. blocks \in Seq(A) /\ A \subseteq B BY ONLY <1>1, <1>2
  <2> HIDE DEF A, B
  <2>2. blocks \in Seq(B) BY ONLY <2>1
  <2> QED BY ONLY <2>2 DEF B
<1>4. /\ Len(blocks') = Len(blocks) + n
      /\ blocks'[insert] = blocks[insert] \o c
      /\ \A b \in Block : b # insert => blocks'[b] = blocks[b]
      /\ \A b \in Len(blocks) + 1 .. Len(blocks) + n : blocks'[b] = << >>
  BY <1>3, EmitsFacts
<1>5. Block = 1 .. Len(blocks) /\ Block' = 1 .. Len(blocks) + n BY <1>4 DEF Block
<1>6. \A b \in Block' \ Block : blocks'[b] = << >>
  <2>1. \A b \in Block' \ Block : b \in Len(blocks) + 1 .. Len(blocks) + n BY <1>1, <1>5
  <2> QED BY <1>4, <2>1
<1>7. PICK s : s = blocks[insert] OBVIOUS
<1>8. s \in Seq(Loose) BY <1>3, <1>7 DEF Block
<1>9. PICK t : t = s \o c OBVIOUS
<1>10. /\ Len(t) = Len(s) + Len(c) /\ Len(s) \in Nat /\ Len(c) \in Nat
       /\ \A i \in 1 .. Len(s) : t[i] = s[i]
       /\ \A i \in Len(s) + 1 .. Len(s) + Len(c) : t[i] = c[i - Len(s)]
  BY <1>8, <1>9, Concatenation
<1>11. \A k \in 1 .. Len(t) :
         \/ k \in 1 .. Len(s) /\ t[k] = s[k]
         \/ k - Len(s) \in 1 .. Len(c) /\ t[k] = c[k - Len(s)]
  BY <1>10
<1>12. \A k \in 1 .. Len(c) : t[Len(s) + k] = c[k] /\ Len(s) + k \in 1 .. Len(t)
  BY <1>10
<1>13. \A k \in 1 .. Len(s) : t[k] = s[k] /\ k \in 1 .. Len(t)
  BY <1>10
<1>14. \A l : GoesTo(t, l) <=> GoesTo(s, l) \/ GoesTo(c, l)
  <2> SUFFICES ASSUME NEW l PROVE GoesTo(t, l) <=> GoesTo(s, l) \/ GoesTo(c, l) OBVIOUS
  <2>1. GoesTo(t, l) => GoesTo(s, l) \/ GoesTo(c, l) BY <1>11, Zenon DEF GoesTo
  <2>2. GoesTo(s, l) => GoesTo(t, l) BY <1>13, Zenon DEF GoesTo
  <2>3. GoesTo(c, l) => GoesTo(t, l)
    <3> SUFFICES ASSUME NEW k \in 1 .. Len(c), l \in c[k].to PROVE GoesTo(t, l) BY DEF GoesTo
    <3>1. l \in t[Len(s) + k].to /\ Len(s) + k \in 1 .. Len(t) BY <1>12
    <3> QED BY <3>1 DEF GoesTo
  <2> QED BY <2>1, <2>2, <2>3
<1>15. \A k \in 1 .. Len(t) :
         \/ \E i \in 1 .. Len(s) : t[k] = s[i]
         \/ \E i \in 1 .. Len(c) : t[k] = c[i]
  BY <1>11
<1>16. blocks'[insert] = t BY <1>4, <1>7, <1>9, Zenon
<1>17. \A l : GoesTo(blocks'[insert], l) <=> GoesTo(blocks[insert], l) \/ GoesTo(c, l)
  BY ONLY <1>7, <1>14, <1>16, Zenon
<1>18. \A k \in 1 .. Len(blocks'[insert]) :
         \/ \E i \in 1 .. Len(blocks[insert]) : blocks'[insert][k] = blocks[insert][i]
         \/ \E i \in 1 .. Len(c) : blocks'[insert][k] = c[i]
  BY ONLY <1>7, <1>15, <1>16, Zenon
<1> QED BY ONLY <1>1, <1>4, <1>5, <1>6, <1>17, <1>18, Zenon

\* Values and branches come together: N is the loop, if any, that gets a value from the
\* block at hand, which then branches to it.
LEMMA PhisFollow ==
  ASSUME TypeOK, Phis, insert \in Block, NEW c \in Seq(Loose), NEW n \in Nat, Emits(c, n),
         \A k \in 1 .. Len(c) : c[k].to # {} => c[k].op \in Terminator,
         NEW N, from' = from \cup {<<l, insert>> : l \in N},
         \A l \in N : l \in Loops \/ l \notin Block,
         \A l \in Loops \cup N : GoesTo(c, l) <=> l \in N
  PROVE  FromBranches' /\ OnlyBranches' /\ Loops' = Loops \cup N
<1>1. /\ Len(blocks) \in Nat /\ Block = 1 .. Len(blocks) /\ Block' = 1 .. Len(blocks) + n
      /\ \A b \in Block : b # insert => blocks'[b] = blocks[b]
      /\ \A b \in Block' \ Block : blocks'[b] = << >>
      /\ \A l : GoesTo(blocks'[insert], l) <=> GoesTo(blocks[insert], l) \/ GoesTo(c, l)
      /\ \A k \in 1 .. Len(blocks'[insert]) :
           \/ \E i \in 1 .. Len(blocks[insert]) : blocks'[insert][k] = blocks[insert][i]
           \/ \E i \in 1 .. Len(c) : blocks'[insert][k] = c[i]
  BY Inserts
<1>2. /\ FromBranches /\ OnlyBranches
      /\ from \in SUBSET (Block \X Block)
  BY DEF Phis, TypeOK
<1>3. Loops' = Loops \cup N
  <2>1. \A l : l \in Loops' <=> \E p \in from' : l = p[1] BY DEF Loops
  <2>2. \A l : l \in Loops <=> \E p \in from : l = p[1] BY DEF Loops
  <2>3. \A l \in N : <<l, insert>>[1] = l OBVIOUS
  <2>4. \A p : p \in from' <=> p \in from \/ \E l \in N : p = <<l, insert>> OBVIOUS
  <2>5. ASSUME NEW l PROVE l \in Loops' <=> l \in Loops \/ l \in N
    <3>1. ASSUME l \in Loops' PROVE l \in Loops \/ l \in N
      <4>1. PICK p \in from' : l = p[1] BY <2>1, <3>1, Zenon
      <4>2. CASE p \in from BY ONLY <2>2, <4>1, <4>2, Zenon
      <4>3. CASE p \notin from
        <5>1. PICK m \in N : p = <<m, insert>> BY ONLY <2>4, <4>1, <4>3, Zenon
        <5>2. l = m BY <2>3, <4>1, <5>1
        <5> QED BY <5>2
      <4> QED BY <4>2, <4>3
    <3>2. ASSUME l \in Loops PROVE l \in Loops'
      <4>1. PICK p \in from : l = p[1] BY ONLY <2>2, <3>2, Zenon
      <4> QED BY ONLY <2>1, <2>4, <4>1, Zenon
    <3>3. ASSUME l \in N PROVE l \in Loops'
      <4>1. <<l, insert>> \in from' BY ONLY <2>4, <3>3, Zenon
      <4>2. l = <<l, insert>>[1] OBVIOUS
      <4> QED BY ONLY <2>1, <4>1, <4>2, Zenon
    <3> QED BY ONLY <3>1, <3>2, <3>3, Zenon
  <2> QED BY <2>5
<1>4. FromBranches'
  <2> SUFFICES ASSUME NEW l \in Loops \cup N, NEW b \in Block'
               PROVE  <<l, b>> \in from' <=> GoesTo(blocks'[b], l)
    BY <1>3 DEF FromBranches
  <2>1. <<l, b>> \in from' <=> <<l, b>> \in from \/ (l \in N /\ b = insert) OBVIOUS
  <2>2. CASE b \in Block
    <3>1. <<l, b>> \in from <=> GoesTo(blocks[b], l)
      <4>1. CASE l \in Loops BY <1>2, <2>2, <4>1 DEF FromBranches
      <4>2. CASE l \notin Loops
        <5>1. l \notin Block BY <4>2
        <5>2. <<l, b>> \notin from BY <1>2, <5>1
        <5>3. \A k \in 1 .. Len(blocks[b]) : blocks[b][k].to \subseteq Block
          <6>1. blocks[b] \in Seq(Instruction) BY <1>1, <2>2 DEF TypeOK
          <6>2. \A k \in 1 .. Len(blocks[b]) : blocks[b][k] \in Instruction BY ONLY <6>1
          <6>3. \A i \in Instruction : i.to \subseteq Block BY ONLY DEF Instruction
          <6> QED BY ONLY <6>2, <6>3, Zenon
        <5> QED BY <5>1, <5>2, <5>3 DEF GoesTo
      <4> QED BY <4>1, <4>2
    <3>2. CASE b = insert BY <1>1, <2>1, <3>1, <3>2
    <3>3. CASE b # insert BY <1>1, <2>1, <2>2, <3>1, <3>3
    <3> QED BY <3>2, <3>3
  <2>3. CASE b \notin Block
    <3>1. blocks'[b] = << >> /\ b # insert BY <1>1, <2>3
    <3>2. <<l, b>> \notin from BY <1>2, <2>3
    <3> QED BY <2>1, <3>1, <3>2 DEF GoesTo
  <2> QED BY <2>2, <2>3
<1>5. OnlyBranches'
  <2> SUFFICES ASSUME NEW b \in Block', NEW k \in 1 .. Len(blocks'[b]), blocks'[b][k].to # {}
               PROVE  blocks'[b][k].op \in Terminator
    BY DEF OnlyBranches
  <2>1. CASE b = insert BY <1>1, <1>2, <2>1 DEF OnlyBranches
  <2>2. CASE b \in Block /\ b # insert
    <3>1. blocks'[b] = blocks[b] BY <1>1, <2>2
    <3> QED BY <1>2, <2>2, <3>1 DEF OnlyBranches
  <2>3. CASE b \notin Block
    <3>1. blocks'[b] = << >> BY <1>1, <2>3
    <3> QED BY <3>1
  <2> QED BY <2>1, <2>2, <2>3
<1> QED BY <1>3, <1>4, <1>5

\* The same when no phi gets a value.
LEMMA PhisStay ==
  ASSUME TypeOK, Phis, insert \in Block, NEW c \in Seq(Loose), NEW n \in Nat, Emits(c, n),
         \A k \in 1 .. Len(c) : c[k].to # {} => c[k].op \in Terminator,
         \A l \in Loops : ~GoesTo(c, l), from' = from
  PROVE  FromBranches' /\ OnlyBranches' /\ Loops' = Loops
<1>1. PICK N : N = {} OBVIOUS
<1>2. from' = from \cup {<<l, insert>> : l \in N} BY <1>1
<1>3. \A l \in Loops \cup N : GoesTo(c, l) <=> l \in N BY <1>1
<1>4. FromBranches' /\ OnlyBranches' /\ Loops' = Loops \cup N BY <1>1, <1>2, <1>3, PhisFollow
<1> QED BY <1>1, <1>4

\* Loops are blocks.
LEMMA LoopsAreBlocks ==
  ASSUME TypeOK PROVE Loops \subseteq Block
BY DEF TypeOK, Loops

\* Code that goes straight on, or returns.
LEMMA PhisStraight ==
  ASSUME TypeOK, Phis, insert \in Block, NEW c \in Seq(Loose), Emits(c, 0),
         \A k \in 1 .. Len(c) : c[k].to = {}, from' = from, open' = open
  PROVE  Phis'
<1>1. \A l \in Loops : ~GoesTo(c, l) BY DEF GoesTo
<1>2. FromBranches' /\ OnlyBranches' /\ Loops' = Loops BY <1>1, PhisStay
<1> QED BY <1>2 DEF Phis, LoopsApart

\* The end of a statement closes it.
LEMMA ClosedApart ==
  ASSUME TypeOK, LoopsApart, open # << >>, open' = Front(open), Loops' = Loops
  PROVE  LoopsApart'
<1>1. open \in Seq(Statement) BY DEF TypeOK
<1>2. Len(open) \in Nat \ {0} BY <1>1
<1>3. Len(open') = Len(open) - 1 /\ \A i \in 1 .. Len(open) - 1 : open'[i] = open[i]
  BY <1>1, FrontFacts
<1>4. \A i \in 1 .. Len(open') : i \in 1 .. Len(open) /\ open'[i] = open[i] BY <1>2, <1>3
<1> QED BY <1>4 DEF LoopsApart

\* A statement opens with new blocks.
LEMMA OpenedApart ==
  ASSUME TypeOK, LoopsApart, NEW r, open' = Append(open, r), NEW N, Loops' = Loops \cup N,
         r.last \notin Loops, r.last \notin N, r.word = "for" => r.first \in N,
         \A l \in N : l \notin Block
  PROVE  LoopsApart'
<1>1. open \in Seq(Statement) BY DEF TypeOK
<1>2. /\ Len(open) \in Nat /\ Len(open') = Len(open) + 1 /\ open'[Len(open) + 1] = r
      /\ \A i \in 1 .. Len(open) : open'[i] = open[i] /\ open[i] \in Statement
  BY <1>1
<1>3. \A i \in 1 .. Len(open) : open[i].last \in Block BY <1>2 DEF Statement
<1>4. \A i \in 1 .. Len(open') :
        \/ i \in 1 .. Len(open) /\ open'[i] = open[i]
        \/ open'[i] = r
  BY <1>2
<1> SUFFICES ASSUME NEW i \in 1 .. Len(open')
             PROVE  open'[i].last \notin Loops' /\ (open'[i].word = "for" => open'[i].first \in Loops')
  BY DEF LoopsApart
<1>5. CASE i \in 1 .. Len(open) /\ open'[i] = open[i] BY <1>3, <1>5 DEF LoopsApart
<1>6. CASE open'[i] = r BY <1>6
<1> QED BY <1>4, <1>5, <1>6

\* The start of an if takes no phi.
LEMMA VisitIfPhis ==
  ASSUME TypeOK, Phis, insert \in Block, VisitIf
  PROVE  Phis'
<1>1. PICK n : n = Len(blocks) OBVIOUS
<1> DEFINE c == <<Code(Here, "test"), Branch({n + 1, n + 2})>>
           r == [word |-> "if", at |-> Here, first |-> n + 2, last |-> n + 3]
<1>2. Emits(c, 3) /\ open' = Append(open, r) /\ from' = from BY <1>1 DEF VisitIf
<1>3. n \in Nat /\ Block = 1 .. n /\ {n + 1, n + 2} \in SUBSET Nat
  BY <1>1, CodeTypes DEF Block
<1>4. /\ Code(Here, "test") \in Loose /\ Code(Here, "test").to = {}
      /\ Branch({n + 1, n + 2}) \in Loose /\ Branch({n + 1, n + 2}).op = "branch"
      /\ Branch({n + 1, n + 2}).to = {n + 1, n + 2}
  BY <1>3, CodeTypes DEF Part
<1>5. c \in Seq(Loose) /\ Len(c) = 2 /\ c[1] = Code(Here, "test") /\ c[2] = Branch({n + 1, n + 2})
  BY <1>4
<1>6. r.last = n + 3 /\ r.word = "if" OBVIOUS
<1> HIDE DEF c, r
<1>7. \A k \in 1 .. Len(c) : k = 1 \/ k = 2 BY <1>5
<1>8. \A k \in 1 .. Len(c) : c[k].to # {} => c[k].op \in Terminator
  BY <1>4, <1>5, <1>7 DEF Terminator
<1>9. \A l \in Block : l # n + 1 /\ l # n + 2 /\ l # n + 3 BY <1>3
<1>10. Loops \subseteq Block BY LoopsAreBlocks
<1>11. \A l \in Loops : ~GoesTo(c, l) BY <1>4, <1>5, <1>7, <1>9, <1>10 DEF GoesTo
<1>12. FromBranches' /\ OnlyBranches' /\ Loops' = Loops BY <1>2, <1>5, <1>8, <1>11, PhisStay
<1>13. PICK N : N = {} OBVIOUS
<1>14. Loops' = Loops \cup N /\ r.last \notin Loops /\ r.last \notin N /\ \A l \in N : l \notin Block
  BY <1>6, <1>9, <1>10, <1>12, <1>13
<1>15. LoopsApart' BY <1>2, <1>6, <1>14, OpenedApart DEF Phis
<1> QED BY <1>12, <1>15 DEF Phis

\* The start of a for gives its phi the block before.
LEMMA VisitForPhis ==
  ASSUME TypeOK, Phis, insert \in Block, VisitFor
  PROVE  Phis'
<1>1. PICK n : n = Len(blocks) OBVIOUS
<1> DEFINE c == <<Branch({n + 1})>>
           r == [word |-> "for", at |-> Here, first |-> n + 1, last |-> n + 1 + 1]
<1>2. /\ Emits(c, 2) /\ open' = Append(open, r) /\ from' = from \cup {<<n + 1, insert>>}
  BY <1>1 DEF VisitFor
<1>3. n \in Nat /\ Block = 1 .. n /\ {n + 1} \in SUBSET Nat
  BY <1>1, CodeTypes DEF Block
<1>4. /\ Branch({n + 1}) \in Loose /\ Branch({n + 1}).op = "branch" /\ Branch({n + 1}).to = {n + 1}
  BY <1>3, CodeTypes
<1>5. c \in Seq(Loose) /\ Len(c) = 1 /\ c[1] = Branch({n + 1})
  BY <1>4
<1>6. r.last = n + 1 + 1 /\ r.word = "for" /\ r.first = n + 1 OBVIOUS
<1> HIDE DEF c, r
<1>7. \A k \in 1 .. Len(c) : k = 1 BY <1>5
<1>8. \A k \in 1 .. Len(c) : c[k].to # {} => c[k].op \in Terminator
  BY <1>4, <1>5, <1>7 DEF Terminator
<1>9. \A l \in Block : l # n + 1 /\ l # n + 1 + 1 BY <1>3
<1>10. Loops \subseteq Block BY LoopsAreBlocks
<1>11. \A l : GoesTo(c, l) <=> l = n + 1
  <2>1. 1 \in 1 .. Len(c) BY ONLY <1>5
  <2>2. c[1].to = {n + 1} BY ONLY <1>4, <1>5, Zenon
  <2>3. PICK m : m = n + 1 OBVIOUS
  <2>4. \A l : l \in c[1].to <=> l = m BY ONLY <2>2, <2>3
  <2>5. \A l : GoesTo(c, l) <=> l \in c[1].to BY ONLY <1>7, <2>1, Zenon DEF GoesTo
  <2> QED BY ONLY <2>3, <2>4, <2>5
<1>12. PICK N : N = {n + 1} OBVIOUS
<1>13. from' = from \cup {<<l, insert>> : l \in N} BY <1>2, <1>12
<1>14. \A l \in N : l \notin Block BY <1>9, <1>12
<1>15. \A l \in Loops \cup N : GoesTo(c, l) <=> l \in N BY <1>11, <1>12
<1>16. FromBranches' /\ OnlyBranches' /\ Loops' = Loops \cup N
  BY <1>2, <1>5, <1>8, <1>13, <1>14, <1>15, PhisFollow
<1>17. r.last \notin Loops /\ r.last \notin N /\ r.first \in N BY <1>3, <1>6, <1>9, <1>10, <1>12
<1>18. LoopsApart' BY <1>2, <1>14, <1>16, <1>17, OpenedApart DEF Phis
<1> QED BY <1>16, <1>18 DEF Phis

\* The end of a for gives its phi the block where the body ends.
LEMMA VisitEndForPhis ==
  ASSUME TypeOK, Phis, insert \in Block, VisitEndFor
  PROVE  Phis'
<1>1. PICK to : to = {Top.first, Top.last} OBVIOUS
<1> DEFINE c == <<Code(Top.at, "step"), Code(Top.at, "test"), Branch(to)>>
<1>2. /\ open # << >> /\ Top.word = "for" /\ Emits(c, 0) /\ open' = Front(open)
      /\ from' = from \cup {<<Top.first, insert>>}
  BY <1>1 DEF VisitEndFor
<1>3. /\ Top.at \in Nat /\ Top.first \in Block /\ Top.last \in Block /\ Block \subseteq Nat
      /\ Len(open) \in 1 .. Len(open) /\ Top = open[Len(open)]
  BY <1>2, TopFacts
<1>4. /\ Code(Top.at, "step") \in Loose /\ Code(Top.at, "step").to = {}
      /\ Code(Top.at, "test") \in Loose /\ Code(Top.at, "test").to = {}
      /\ Branch(to) \in Loose /\ Branch(to).op = "branch" /\ Branch(to).to = to
  BY <1>1, <1>3, CodeTypes DEF Part
<1>5. c \in Seq(Loose) /\ Len(c) = 3 /\ c[1] = Code(Top.at, "step")
      /\ c[2] = Code(Top.at, "test") /\ c[3] = Branch(to)
  BY <1>4
<1> HIDE DEF c
<1>6. \A k \in 1 .. Len(c) : k = 1 \/ k = 2 \/ k = 3 BY <1>5
<1>7. \A k \in 1 .. Len(c) : c[k].to # {} => c[k].op \in Terminator
  BY <1>4, <1>5, <1>6 DEF Terminator
<1>8. Top.first \in Loops /\ Top.last \notin Loops BY <1>2, <1>3 DEF Phis, LoopsApart
<1>9. \A l : GoesTo(c, l) <=> l \in to
  <2>1. 3 \in 1 .. Len(c) BY <1>5
  <2> QED BY <1>4, <1>5, <1>6, <2>1 DEF GoesTo
<1>10. PICK N : N = {Top.first} OBVIOUS
<1>11. from' = from \cup {<<l, insert>> : l \in N} BY <1>2, <1>10
<1>12. \A l \in Loops \cup N : GoesTo(c, l) <=> l \in N BY <1>1, <1>8, <1>9, <1>10
<1>13. \A l \in N : l \in Loops BY <1>8, <1>10
<1>14. FromBranches' /\ OnlyBranches' /\ Loops' = Loops \cup N
  BY <1>2, <1>5, <1>7, <1>11, <1>12, <1>13, PhisFollow
<1>15. Loops' = Loops BY <1>13, <1>14
<1>16. LoopsApart' BY <1>2, <1>15, ClosedApart DEF Phis
<1> QED BY <1>14, <1>16 DEF Phis

\* A branch to the merge block of an if.
LEMMA PhisMerge ==
  ASSUME TypeOK, Phis, insert \in Block, open # << >>, Emits(<<Branch({Top.last})>>, 0),
         from' = from
  PROVE  FromBranches' /\ OnlyBranches' /\ Loops' = Loops
<1>1. PICK to : to = {Top.last} OBVIOUS
<1> DEFINE c == <<Branch(to)>>
<1>2. Top.last \in Nat /\ Top.last \notin Loops
  <2>1. Len(open) \in 1 .. Len(open) /\ Top = open[Len(open)] /\ Top.last \in Block
        /\ Block \subseteq Nat
    BY TopFacts
  <2> QED BY <2>1 DEF Phis, LoopsApart
<1>3. Branch(to) \in Loose /\ Branch(to).op = "branch" /\ Branch(to).to = to
  BY <1>1, <1>2, CodeTypes
<1>4. c \in Seq(Loose) /\ Len(c) = 1 /\ c[1] = Branch(to) /\ Emits(c, 0)
  BY <1>1, <1>3
<1> HIDE DEF c
<1>5. \A k \in 1 .. Len(c) : k = 1 BY <1>4
<1>6. \A k \in 1 .. Len(c) : c[k].to # {} => c[k].op \in Terminator
  BY <1>3, <1>4, <1>5 DEF Terminator
<1>7. \A l \in Loops : ~GoesTo(c, l) BY <1>1, <1>2, <1>3, <1>4, <1>5 DEF GoesTo
<1> QED BY <1>4, <1>6, <1>7, PhisStay

\* The else part takes no phi.
LEMMA VisitElsePhis ==
  ASSUME TypeOK, Phis, insert \in Block, VisitElse
  PROVE  Phis'
<1>1. /\ open # << >> /\ Top.word = "if" /\ Emits(<<Branch({Top.last})>>, 0)
      /\ open' = [open EXCEPT ![Len(open)].word = "else"] /\ from' = from
  BY DEF VisitElse
<1>2. FromBranches' /\ OnlyBranches' /\ Loops' = Loops BY <1>1, PhisMerge
<1>3. open \in Seq(Statement) BY DEF TypeOK
<1>4. /\ Len(open') = Len(open)
      /\ \A i \in 1 .. Len(open) :
           open'[i].last = open[i].last /\ open'[i].first = open[i].first
           /\ (open'[i].word = open[i].word \/ open'[i].word = "else")
  BY <1>1, <1>3 DEF Statement
<1>5. LoopsApart' BY <1>2, <1>4 DEF Phis, LoopsApart
<1> QED BY <1>2, <1>5 DEF Phis

\* Every step keeps the phis and the branches together.
LEMMA NextPhis ==
  ASSUME FInv, Phis, [Next]_vars
  PROVE  Phis'
<1>1. TypeOK /\ (phase = "body" => insert \in Block) BY DEF FInv, Shape
<1>2. /\ Code(Here, "run") \in Loose /\ Code(Here, "run").to = {}
      /\ Ret \in Loose /\ Ret.to = {}
  BY <1>1, CodeTypes DEF Part
<1>3. CASE Enter
  <2>1. open' = << >> /\ blocks' = << << >> >> /\ from' = {} BY <1>3 DEF Enter, FInv
  <2>2. Loops' = {} BY <2>1 DEF Loops
  <2>3. Block' = {1} /\ blocks'[1] = << >> BY <2>1 DEF Block
  <2> QED BY <2>1, <2>2, <2>3 DEF Phis, FromBranches, LoopsApart, OnlyBranches
<1>4. CASE UNCHANGED vars
  <2>1. blocks' = blocks /\ from' = from /\ open' = open BY <1>4 DEF vars
  <2> QED BY <2>1 DEF Phis, FromBranches, LoopsApart, OnlyBranches, Loops, Block
<1>5. CASE Leave
  <2>1. phase = "body" /\ from' = from /\ open' = open BY <1>5 DEF Leave
  <2>2. CASE isVoid
    <3> DEFINE c == <<Ret>>
    <3>1. c \in Seq(Loose) /\ \A k \in 1 .. Len(c) : c[k].to = {} BY <1>2
    <3>2. Emits(c, 0) BY <1>5, <2>2 DEF Leave
    <3> HIDE DEF c
    <3> QED BY <1>1, <2>1, <3>1, <3>2, PhisStraight
  <2>3. CASE ~isVoid
    <3>1. blocks' = blocks BY <1>5, <2>3 DEF Leave
    <3> QED BY <2>1, <3>1 DEF Phis, FromBranches, LoopsApart, OnlyBranches, Loops, Block
  <2> QED BY <2>2, <2>3
<1>6. CASE VisitDo \/ VisitVar
  <2> DEFINE c == <<Code(Here, "run")>>
  <2>1. phase = "body" /\ from' = from /\ open' = open /\ Emits(c, 0)
    BY <1>6 DEF VisitDo, VisitVar, InBody
  <2>2. c \in Seq(Loose) /\ \A k \in 1 .. Len(c) : c[k].to = {} BY <1>2
  <2> HIDE DEF c
  <2> QED BY <1>1, <2>1, <2>2, PhisStraight
<1>7. CASE VisitReturn
  <2>1. phase = "body" /\ from' = from /\ open' = open BY <1>7 DEF VisitReturn, InBody
  <2>2. CASE typed
    <3> DEFINE c == <<Code(Here, "run"), Ret>>
    <3>1. c \in Seq(Loose) /\ Len(c) = 2 /\ c[1] = Code(Here, "run") /\ c[2] = Ret BY <1>2
    <3>2. Emits(c, 0) BY <1>7, <2>2 DEF VisitReturn
    <3> HIDE DEF c
    <3>3. \A k \in 1 .. Len(c) : c[k].to = {}
      <4>1. \A k \in 1 .. Len(c) : k = 1 \/ k = 2 BY <3>1
      <4> QED BY <1>2, <3>1, <4>1
    <3> QED BY <1>1, <2>1, <3>1, <3>2, <3>3, PhisStraight
  <2>3. CASE ~typed
    <3>1. blocks' = blocks BY <1>7, <2>3 DEF VisitReturn
    <3> QED BY <2>1, <3>1 DEF Phis, FromBranches, LoopsApart, OnlyBranches, Loops, Block
  <2> QED BY <2>2, <2>3
<1>8. CASE VisitIf
  <2>1. phase = "body" BY <1>8 DEF VisitIf, InBody
  <2> QED BY <1>1, <1>8, <2>1, VisitIfPhis
<1>9. CASE VisitElse
  <2>1. phase = "body" BY <1>9 DEF VisitElse, Reads
  <2> QED BY <1>1, <1>9, <2>1, VisitElsePhis
<1>10. CASE VisitEndIf
  <2>1. /\ phase = "body" /\ open # << >> /\ Emits(<<Branch({Top.last})>>, 0)
        /\ open' = Front(open) /\ from' = from
    BY <1>10 DEF VisitEndIf, Reads
  <2>2. FromBranches' /\ OnlyBranches' /\ Loops' = Loops BY <1>1, <2>1, PhisMerge
  <2>3. LoopsApart' BY <1>1, <2>1, <2>2, ClosedApart DEF Phis
  <2> QED BY <2>2, <2>3 DEF Phis
<1>11. CASE VisitFor
  <2>1. phase = "body" BY <1>11 DEF VisitFor, InBody
  <2> QED BY <1>1, <1>11, <2>1, VisitForPhis
<1>12. CASE VisitEndFor
  <2>1. phase = "body" BY <1>12 DEF VisitEndFor, Reads
  <2> QED BY <1>1, <1>12, <2>1, VisitEndForPhis
<1> QED BY <1>3, <1>4, <1>5, <1>6, <1>7, <1>8, <1>9, <1>10, <1>11, <1>12 DEF Next

\* In closed blocks the branches are the last instructions.
LEMMA PhisOfClosed ==
  ASSUME TypeOK, Phis
  PROVE  PhisMatch
<1> SUFFICES ASSUME Verified, NEW loop \in Loops
             PROVE  {p[2] : p \in {q \in from : q[1] = loop}}
                      = {b \in Block : loop \in LastOf(blocks[b]).to}
  BY DEF PhisMatch, Loops
<1>1. from \in SUBSET (Block \X Block) BY DEF TypeOK
<1>2. ASSUME NEW b \in Block
      PROVE  GoesTo(blocks[b], loop) <=> loop \in LastOf(blocks[b]).to
  <2>1. Closed(blocks[b]) BY DEF Verified, AllClosed
  <2>2. blocks[b] \in Seq(Instruction) BY DEF TypeOK, Block
  <2>3. Len(blocks[b]) \in 1 .. Len(blocks[b]) /\ blocks[b] # << >> BY <2>1, <2>2 DEF Closed
  <2>4. LastOf(blocks[b]) = blocks[b][Len(blocks[b])] BY DEF LastOf
  <2>5. \A k \in 1 .. Len(blocks[b]) : loop \in blocks[b][k].to => k = Len(blocks[b])
    BY <2>1 DEF Phis, OnlyBranches, Closed
  <2> QED BY <2>3, <2>4, <2>5 DEF GoesTo
<1>3. \A b \in Block : <<loop, b>> \in from <=> GoesTo(blocks[b], loop)
  BY DEF Phis, FromBranches
<1>4. \A b : b \in {p[2] : p \in {q \in from : q[1] = loop}} <=> b \in Block /\ <<loop, b>> \in from
  <2>1. \A p \in from : p = <<p[1], p[2]>> /\ p[2] \in Block BY <1>1
  <2>2. \A b : <<loop, b>>[1] = loop /\ <<loop, b>>[2] = b OBVIOUS
  <2> QED BY <2>1, <2>2
<1> QED BY <1>2, <1>3, <1>4

\* A phi has a value for each block that branches to its own, in bodies of any length
\* and nesting.
THEOREM PhisAlwaysMatch == Spec => []PhisMatch
<1>1. Init => FInv /\ Phis
  <2> SUFFICES ASSUME Init PROVE Phis BY InitInv
  <2>1. Loops = {} /\ Block = {} /\ Len(open) = 0 BY DEF Init, Loops, Block
  <2> QED BY <2>1 DEF Phis, FromBranches, LoopsApart, OnlyBranches
<1>2. FInv /\ Phis /\ [Next]_vars => FInv' /\ Phis'
  BY NextInv, NextPhis
<1>3. FInv /\ Phis => PhisMatch BY PhisOfClosed DEF FInv
<1> QED BY <1>1, <1>2, <1>3, PTL DEF Spec

-----------------------------------------------------------------------------
(***************************************************************************)
(* Where the instructions stand.  A block is made by a statement and begins *)
(* with its body, with its else part or behind it; nothing else needs to be *)
(* said of a block that is yet to be inserted in.  x is the text, who are   *)
(* the owners of its words, B the blocks, own their makers, s what is open. *)
(***************************************************************************)

Role == {"body", "else", "end"}
Made(i, role) == [at |-> i, role |-> role]
Straight == {"do", "var", "return"}

\* The words of the text: ends and elses belong to statements, one to one.
OwnersKnown(x, who) ==
  /\ who \in [1 .. Len(x) -> Nat]
  /\ \A j \in 1 .. Len(x) : x[j] \in {"else"} \cup Closer =>
       who[j] \in 1 .. j - 1 /\ x[who[j]] = IF x[j] = "endfor" THEN "for" ELSE "if"
  /\ \A j, k \in 1 .. Len(x) : who[j] = who[k] =>
       /\ x[j] \in Closer /\ x[k] \in Closer => j = k
       /\ x[j] = "else" /\ x[k] = "else" => j = k
       /\ x[j] = "else" /\ x[k] \in Closer => j < k

\* What is open has no end, and what is not has one.
OpenKnown(x, s, who) ==
  /\ \A m \in 1 .. Len(s) :
       s[m].at \in 1 .. Len(x) /\ x[s[m].at] = IF s[m].word = "for" THEN "for" ELSE "if"
  /\ \A l, m \in 1 .. Len(s) : l < m => s[l].at < s[m].at
  /\ \A m \in 1 .. Len(s), j \in 1 .. Len(x) : who[j] = s[m].at =>
       x[j] \notin Closer /\ (x[j] = "else" => s[m].word = "else")
  /\ \A i \in 1 .. Len(x) :
       /\ x[i] \in Opener =>
            (\E m \in 1 .. Len(s) : s[m].at = i)
            \/ (\E j \in 1 .. Len(x) : x[j] \in Closer /\ who[j] = i)
       /\ x[i] = "if" =>
            (\E m \in 1 .. Len(s) : s[m].at = i /\ s[m].word = "if")
            \/ (\E j \in 1 .. Len(x) : x[j] = "else" /\ who[j] = i)

\* The blocks are made by statements of the text.
MakersKnown(x, B, s, own) ==
  /\ own \in [1 .. Len(B) -> [at : Nat, role : Role]]
  /\ Len(B) # 0 /\ own[1] = Made(0, "body")
  /\ \A c \in 1 .. Len(B) :
       IF own[c].at = 0 THEN own[c].role = "body"
       ELSE /\ own[c].at \in 1 .. Len(x) /\ x[own[c].at] \in Opener
            /\ own[c].role = "else" => x[own[c].at] = "if"
  /\ \A m \in 1 .. Len(s) :
       /\ own[s[m].last] = Made(s[m].at, "end")
       /\ s[m].word = "if" => own[s[m].first] = Made(s[m].at, "else")
       /\ s[m].word = "for" => own[s[m].first] = Made(s[m].at, "body")

\* Block c begins at the place p of the text.
Starts(x, own, who, c, p) ==
  \/ own[c].role = "body" /\ p = own[c].at + 1
  \/ /\ own[c].role # "body" /\ p \in 2 .. Len(x) + 1 /\ who[p - 1] = own[c].at
     /\ x[p - 1] \in IF own[c].role = "else" THEN {"else"} ELSE Closer

\* Instruction k of block b is that of the place p.
AtPlace(x, B, own, who, b, k, p) ==
  IF k = 1 THEN Starts(x, own, who, b, p) ELSE B[b][k - 1] = Code(p - 1, "run")

\* The instructions that there are.
Runs(x, B, own, who, b, k) ==
  \E p \in 1 .. Len(x) :
    x[p] \in Straight /\ AtPlace(x, B, own, who, b, k, p) /\ B[b][k] = Code(p, "run")

Tests(x, B, own, who, b, k) ==
  \E p \in 1 .. Len(x), c, d \in 1 .. Len(B) :
    /\ x[p] = "if" /\ AtPlace(x, B, own, who, b, k, p) /\ B[b][k] = Code(p, "test")
    /\ k + 1 <= Len(B[b]) /\ B[b][k + 1] = Branch({c, d})
    /\ own[c] = Made(p, "body") /\ own[d] = Made(p, "else")

Steps(x, B, own, who, b, k) ==
  \E p \in 1 .. Len(x), c, d \in 1 .. Len(B) :
    /\ x[p] = "endfor" /\ AtPlace(x, B, own, who, b, k, p)
    /\ B[b][k] = Code(who[p], "step")
    /\ k + 2 <= Len(B[b]) /\ B[b][k + 1] = Code(who[p], "test") /\ B[b][k + 2] = Branch({c, d})
    /\ own[c] = Made(who[p], "body") /\ own[d] = Made(who[p], "end")

Jumps(x, B, own, who, b, k) ==
  \E p \in 1 .. Len(x), c \in 1 .. Len(B) :
    /\ AtPlace(x, B, own, who, b, k, p) /\ B[b][k] = Branch({c})
    /\ \/ x[p] = "for" /\ own[c] = Made(p, "body")
       \/ x[p] \in {"else", "endif"} /\ own[c] = Made(who[p], "end")

Returns(x, B, b, k) ==
  /\ B[b][k] = Ret /\ k # 1
  /\ \E p \in 1 .. Len(x) : x[p] = "return" /\ B[b][k - 1] = Code(p, "run")

Leaves(x, B, own, who, over, b, k) ==
  B[b][k] = Ret /\ over /\ AtPlace(x, B, own, who, b, k, Len(x) + 1)

Known(x, B, own, who, over, b, k) ==
  \/ Runs(x, B, own, who, b, k)
  \/ Tests(x, B, own, who, b, k) \/ (k > 1 /\ Tests(x, B, own, who, b, k - 1))
  \/ Steps(x, B, own, who, b, k) \/ (k > 1 /\ Steps(x, B, own, who, b, k - 1))
     \/ (k > 2 /\ Steps(x, B, own, who, b, k - 2))
  \/ Jumps(x, B, own, who, b, k)
  \/ Returns(x, B, b, k) \/ Leaves(x, B, own, who, over, b, k)

AllKnown(x, B, own, who, over) ==
  \A b \in 1 .. Len(B) : \A k \in 1 .. Len(B[b]) : Known(x, B, own, who, over, b, k)

\* The words that make code, which is somewhere.
CodeOf(x, who, i) ==
  IF x[i] = "if" THEN Code(i, "test")
  ELSE IF x[i] = "endfor" THEN Code(who[i], "step") ELSE Code(i, "run")
Coded(x, B, who) ==
  \A i \in 1 .. Len(x) : x[i] \in Straight \cup {"if", "endfor"} =>
    \E b \in 1 .. Len(B) : \E k \in 1 .. Len(B[b]) : B[b][k] = CodeOf(x, who, i)

Written(x, B, s, own, who, over) ==
  /\ OwnersKnown(x, who) /\ OpenKnown(x, s, who) /\ MakersKnown(x, B, s, own)
  /\ AllKnown(x, B, own, who, over) /\ Coded(x, B, who)

\* The next instruction, while nothing has returned, is that of the next word.
Going(x, B, own, who, n) == AtPlace(x, B, own, who, n, Len(B[n]) + 1, Len(x) + 1)

OwnersOf(words) ==
  [j \in 1 .. Len(words) |->
     IF words[j] \in {"else"} \cup Closer THEN LastOf(Nesting(words)[j - 1]) ELSE 0]
Owners == OwnersOf(text)
OpenOf(s) == [m \in 1 .. Len(s) |-> s[m].at]
Open == OpenOf(open)

\* Bodies that may still verify.
Sound == (NeverReturns \/ ReturnsLast) /\ (phase = "done" /\ isVoid => NeverReturns)

Meets ==
  /\ Nesting(text)[Len(text)] = Open
  /\ phase = "done" => open = << >>
  /\ phase \in {"body", "done"} /\ Sound =>
       \E x, B, s, own, who, n, over :
         /\ x = text /\ B = blocks /\ s = open /\ who = Owners /\ n = insert
         /\ over = (phase = "done")
         /\ Written(x, B, s, own, who, over)
         /\ phase = "body" /\ NeverReturns => Going(x, B, own, who, n)
-----------------------------------------------------------------------------
(***************************************************************************)
(* More text, blocks and instructions.                                     *)
(***************************************************************************)

\* The lengths are numbers.
Sizes(x, B) == Len(x) \in Nat /\ Len(B) \in Nat /\ \A b \in 1 .. Len(B) : Len(B[b]) \in Nat

Later(x, B, own, who, x1, B1, own1, who1) ==
  /\ Len(x) <= Len(x1) /\ \A i \in 1 .. Len(x) : x1[i] = x[i] /\ who1[i] = who[i]
  /\ Len(B) <= Len(B1)
  /\ \A b \in 1 .. Len(B) :
       /\ own1[b] = own[b] /\ Len(B[b]) <= Len(B1[b])
       /\ \A k \in 1 .. Len(B[b]) : B1[b][k] = B[b][k]

\* An instruction has its place in more text and more blocks.
LEMMA AtStays ==
  ASSUME NEW x, NEW B, NEW own, NEW who, NEW x1, NEW B1, NEW own1, NEW who1,
         Sizes(x, B), Sizes(x1, B1), Later(x, B, own, who, x1, B1, own1, who1),
         NEW b \in 1 .. Len(B), NEW k \in 1 .. Len(B[b]) + 1, NEW p \in 1 .. Len(x) + 1,
         AtPlace(x, B, own, who, b, k, p)
  PROVE  AtPlace(x1, B1, own1, who1, b, k, p)
<1>1. PICK n, l : n = Len(x) /\ l = Len(B[b]) OBVIOUS
<1>2. n \in Nat /\ l \in Nat BY <1>1 DEF Sizes
<1>3. CASE k = 1
  <2>1. Starts(x, own, who, b, p) BY <1>3 DEF AtPlace
  <2>2. own1[b] = own[b] BY DEF Later
  <2>3. CASE p \in 2 .. n + 1
    <3>1. p - 1 \in 1 .. n BY <1>2, <2>3
    <3>2. x1[p - 1] = x[p - 1] /\ who1[p - 1] = who[p - 1] BY <1>1, <3>1 DEF Later
    <3>3. p \in 2 .. Len(x1) + 1
      <4>1. Len(x1) \in Nat /\ n <= Len(x1) BY <1>1 DEF Later, Sizes
      <4> QED BY <1>2, <2>3, <4>1
    <3> QED BY <1>3, <2>1, <2>2, <3>2, <3>3 DEF AtPlace, Starts
  <2>4. CASE p \notin 2 .. n + 1
    BY <1>1, <1>3, <2>1, <2>2, <2>4 DEF AtPlace, Starts
  <2> QED BY <2>3, <2>4
<1>4. CASE k # 1
  <2>1. k - 1 \in 1 .. l BY <1>1, <1>2, <1>4
  <2>2. B1[b][k - 1] = B[b][k - 1] BY <1>1, <2>1 DEF Later
  <2> QED BY <1>4, <2>2 DEF AtPlace
<1> QED BY <1>3, <1>4

\* Whatever there is stays what it is.
LEMMA RunsStay ==
  ASSUME NEW x, NEW B, NEW own, NEW who, NEW x1, NEW B1, NEW own1, NEW who1,
         Sizes(x, B), Sizes(x1, B1), Later(x, B, own, who, x1, B1, own1, who1),
         NEW b \in 1 .. Len(B), NEW k \in 1 .. Len(B[b])
  PROVE  /\ Runs(x, B, own, who, b, k) => Runs(x1, B1, own1, who1, b, k)
         /\ Tests(x, B, own, who, b, k) => Tests(x1, B1, own1, who1, b, k)
         /\ Steps(x, B, own, who, b, k) => Steps(x1, B1, own1, who1, b, k)
         /\ Jumps(x, B, own, who, b, k) => Jumps(x1, B1, own1, who1, b, k)
         /\ Returns(x, B, b, k) => Returns(x1, B1, b, k)
<1>1. PICK n, l, q : n = Len(x) /\ l = Len(B[b]) /\ q = Len(B) OBVIOUS
<1>2. n \in Nat /\ l \in Nat /\ q \in Nat BY <1>1 DEF Sizes
<1>3. \A p \in 1 .. n : p \in 1 .. Len(x1) /\ x1[p] = x[p] /\ who1[p] = who[p]
  <2>1. Len(x1) \in Nat /\ n <= Len(x1) BY <1>1 DEF Later, Sizes
  <2> QED BY <1>1, <1>2, <2>1 DEF Later
<1>4. \A c \in 1 .. q : c \in 1 .. Len(B1) /\ own1[c] = own[c]
  <2>1. Len(B1) \in Nat /\ q <= Len(B1) BY <1>1 DEF Later, Sizes
  <2> QED BY <1>1, <1>2, <2>1 DEF Later
<1>5. \A i \in 1 .. l : B1[b][i] = B[b][i] BY <1>1 DEF Later
<1>6. Len(B1[b]) \in Nat /\ l <= Len(B1[b]) BY <1>1, <1>4 DEF Later, Sizes
<1>7. B1[b][k] = B[b][k] /\ k \in 1 .. l BY <1>1, <1>5
<1>8. ASSUME NEW p \in 1 .. n, AtPlace(x, B, own, who, b, k, p)
      PROVE  AtPlace(x1, B1, own1, who1, b, k, p)
  <2>1. p \in 1 .. Len(x) + 1 /\ k \in 1 .. Len(B[b]) + 1 BY <1>1, <1>2
  <2> QED BY <1>8, <2>1, AtStays
<1>9. k + 1 <= l => B1[b][k + 1] = B[b][k + 1] /\ k + 1 <= Len(B1[b])
  <2>1. k + 1 <= l => k + 1 \in 1 .. l BY <1>2, <1>7
  <2> QED BY <1>2, <1>5, <1>6, <1>7, <2>1
<1>10. k + 2 <= l => B1[b][k + 2] = B[b][k + 2] /\ k + 2 <= Len(B1[b])
  <2>1. k + 2 <= l => k + 2 \in 1 .. l BY <1>2, <1>7
  <2> QED BY <1>2, <1>5, <1>6, <1>7, <2>1
<1>11. k + 2 <= l => k + 1 <= l BY <1>2, <1>7
<1>12. ASSUME Runs(x, B, own, who, b, k) PROVE Runs(x1, B1, own1, who1, b, k)
  <2>1. PICK p \in 1 .. n :
          x[p] \in Straight /\ AtPlace(x, B, own, who, b, k, p) /\ B[b][k] = Code(p, "run")
    BY <1>1, <1>12 DEF Runs
  <2> QED BY <1>3, <1>7, <1>8, <2>1 DEF Runs
<1>13. ASSUME Tests(x, B, own, who, b, k) PROVE Tests(x1, B1, own1, who1, b, k)
  <2>1. PICK p \in 1 .. n, c \in 1 .. q, d \in 1 .. q :
          /\ x[p] = "if" /\ AtPlace(x, B, own, who, b, k, p) /\ B[b][k] = Code(p, "test")
          /\ k + 1 <= Len(B[b]) /\ B[b][k + 1] = Branch({c, d})
          /\ own[c] = Made(p, "body") /\ own[d] = Made(p, "else")
    BY <1>1, <1>13 DEF Tests
  <2>2. p \in 1 .. Len(x1) /\ c \in 1 .. Len(B1) /\ d \in 1 .. Len(B1) BY <1>3, <1>4
  <2>3. /\ x1[p] = "if" /\ AtPlace(x1, B1, own1, who1, b, k, p) /\ B1[b][k] = Code(p, "test")
        /\ k + 1 <= Len(B1[b]) /\ B1[b][k + 1] = Branch({c, d})
        /\ own1[c] = Made(p, "body") /\ own1[d] = Made(p, "else")
    BY <1>1, <1>3, <1>4, <1>7, <1>8, <1>9, <2>1
  <2> QED BY <2>2, <2>3 DEF Tests
<1>14. ASSUME Steps(x, B, own, who, b, k) PROVE Steps(x1, B1, own1, who1, b, k)
  <2>1. PICK p \in 1 .. n, c \in 1 .. q, d \in 1 .. q :
          /\ x[p] = "endfor" /\ AtPlace(x, B, own, who, b, k, p)
          /\ B[b][k] = Code(who[p], "step")
          /\ k + 2 <= Len(B[b]) /\ B[b][k + 1] = Code(who[p], "test")
          /\ B[b][k + 2] = Branch({c, d})
          /\ own[c] = Made(who[p], "body") /\ own[d] = Made(who[p], "end")
    BY <1>1, <1>14 DEF Steps
  <2>2. p \in 1 .. Len(x1) /\ c \in 1 .. Len(B1) /\ d \in 1 .. Len(B1) /\ who1[p] = who[p]
    BY <1>3, <1>4
  <2>3. /\ x1[p] = "endfor" /\ AtPlace(x1, B1, own1, who1, b, k, p)
        /\ B1[b][k] = Code(who1[p], "step")
        /\ k + 2 <= Len(B1[b]) /\ B1[b][k + 1] = Code(who1[p], "test")
        /\ B1[b][k + 2] = Branch({c, d})
        /\ own1[c] = Made(who1[p], "body") /\ own1[d] = Made(who1[p], "end")
    BY <1>1, <1>3, <1>4, <1>7, <1>8, <1>9, <1>10, <1>11, <2>1, <2>2
  <2> QED BY <2>2, <2>3 DEF Steps
<1>15. ASSUME Jumps(x, B, own, who, b, k) PROVE Jumps(x1, B1, own1, who1, b, k)
  <2>1. PICK p \in 1 .. n, c \in 1 .. q :
          /\ AtPlace(x, B, own, who, b, k, p) /\ B[b][k] = Branch({c})
          /\ \/ x[p] = "for" /\ own[c] = Made(p, "body")
             \/ x[p] \in {"else", "endif"} /\ own[c] = Made(who[p], "end")
    BY <1>1, <1>15 DEF Jumps
  <2>2. p \in 1 .. Len(x1) /\ c \in 1 .. Len(B1) /\ who1[p] = who[p] /\ x1[p] = x[p]
    BY <1>3, <1>4
  <2>3. AtPlace(x1, B1, own1, who1, b, k, p) /\ B1[b][k] = Branch({c}) /\ own1[c] = own[c]
    BY <1>4, <1>7, <1>8, <2>1
  <2> QED BY <2>1, <2>2, <2>3 DEF Jumps
<1>16. ASSUME Returns(x, B, b, k) PROVE Returns(x1, B1, b, k)
  <2>1. PICK p \in 1 .. n : x[p] = "return" /\ B[b][k - 1] = Code(p, "run")
    BY <1>1, <1>16 DEF Returns
  <2>2. k # 1 /\ B[b][k] = Ret BY <1>16 DEF Returns
  <2>3. k - 1 \in 1 .. l BY <1>2, <1>7, <2>2
  <2>4. B1[b][k - 1] = B[b][k - 1] BY <1>5, <2>3
  <2> QED BY <1>3, <1>7, <2>1, <2>2, <2>4 DEF Returns
<1> QED BY <1>12, <1>13, <1>14, <1>15, <1>16

\* An instruction that is known stays known.
LEMMA KnownStays ==
  ASSUME NEW x, NEW B, NEW own, NEW who, NEW x1, NEW B1, NEW own1, NEW who1, NEW over,
         Sizes(x, B), Sizes(x1, B1), Later(x, B, own, who, x1, B1, own1, who1),
         NEW b \in 1 .. Len(B), NEW k \in 1 .. Len(B[b]),
         Known(x, B, own, who, FALSE, b, k)
  PROVE  Known(x1, B1, own1, who1, over, b, k)
<1>1. PICK l : l = Len(B[b]) OBVIOUS
<1>2. l \in Nat /\ k \in 1 .. l BY <1>1 DEF Sizes
<1>3. k > 1 => k - 1 \in 1 .. l BY <1>2
<1>4. k > 2 => k - 2 \in 1 .. l BY <1>2
<1>5. ~Leaves(x, B, own, who, FALSE, b, k) BY DEF Leaves
<1>6. /\ k > 1 /\ Tests(x, B, own, who, b, k - 1) => Tests(x1, B1, own1, who1, b, k - 1)
      /\ k > 1 /\ Steps(x, B, own, who, b, k - 1) => Steps(x1, B1, own1, who1, b, k - 1)
  BY <1>1, <1>3, RunsStay
<1>7. k > 2 /\ Steps(x, B, own, who, b, k - 2) => Steps(x1, B1, own1, who1, b, k - 2)
  BY <1>1, <1>4, RunsStay
<1>8. /\ Runs(x, B, own, who, b, k) => Runs(x1, B1, own1, who1, b, k)
      /\ Tests(x, B, own, who, b, k) => Tests(x1, B1, own1, who1, b, k)
      /\ Steps(x, B, own, who, b, k) => Steps(x1, B1, own1, who1, b, k)
      /\ Jumps(x, B, own, who, b, k) => Jumps(x1, B1, own1, who1, b, k)
      /\ Returns(x, B, b, k) => Returns(x1, B1, b, k)
  BY RunsStay
<1> QED BY <1>5, <1>6, <1>7, <1>8 DEF Known
-----------------------------------------------------------------------------
(***************************************************************************)
(* One word more.                                                          *)
(***************************************************************************)

Grows(x, who, x1, who1, w) ==
  /\ Len(x) \in Nat /\ Len(x1) = Len(x) + 1 /\ who1 \in [1 .. Len(x1) -> Nat]
  /\ \A i \in 1 .. Len(x) : x1[i] = x[i] /\ who1[i] = who[i]
  /\ x1[Len(x1)] = w

\* Words of the language are told apart.
LEMMA Words ==
  /\ "else" \notin Closer \cup Opener \cup Straight
  /\ \A w \in Straight : w \notin Closer \cup Opener \cup {"else"}
  /\ \A w \in Opener : w \notin Closer \cup Straight \cup {"else"}
  /\ \A w \in Closer : w \notin Opener \cup Straight \cup {"else"}
  /\ "if" \in Opener /\ "for" \in Opener /\ "endif" \in Closer /\ "endfor" \in Closer
BY DEF Closer, Opener, Straight

\* A word that neither opens nor closes changes nothing of what is open.
LEMMA PlainWord ==
  ASSUME NEW x, NEW s, NEW who, NEW x1, NEW who1, NEW w \in Straight,
         Grows(x, who, x1, who1, w), OwnersKnown(x, who), OpenKnown(x, s, who)
  PROVE  OwnersKnown(x1, who1) /\ OpenKnown(x1, s, who1)
<1>1. PICK n, h : n = Len(x) /\ h = n + 1 OBVIOUS
<1>2. /\ n \in Nat /\ Len(x1) = h /\ 1 .. h = (1 .. n) \cup {h} /\ h \notin 1 .. n
      /\ who1 \in [1 .. h -> Nat] /\ x1[h] = w
      /\ \A i \in 1 .. n : x1[i] = x[i] /\ who1[i] = who[i]
  BY <1>1 DEF Grows
<1>3. w \notin Closer \cup Opener \cup {"else"} /\ w # "if" BY Words
<1>4. /\ \A j \in 1 .. n : x[j] \in {"else"} \cup Closer =>
           who[j] \in 1 .. j - 1 /\ x[who[j]] = IF x[j] = "endfor" THEN "for" ELSE "if"
      /\ \A j, k \in 1 .. n : who[j] = who[k] =>
           /\ x[j] \in Closer /\ x[k] \in Closer => j = k
           /\ x[j] = "else" /\ x[k] = "else" => j = k
           /\ x[j] = "else" /\ x[k] \in Closer => j < k
  BY <1>1 DEF OwnersKnown
<1>5. OwnersKnown(x1, who1)
  <2>1. ASSUME NEW j \in 1 .. h, x1[j] \in {"else"} \cup Closer
        PROVE  who1[j] \in 1 .. j - 1 /\ x1[who1[j]] = IF x1[j] = "endfor" THEN "for" ELSE "if"
    <3>1. j \in 1 .. n BY <1>2, <1>3, <2>1
    <3>2. who[j] \in 1 .. j - 1 BY <1>2, <1>4, <2>1, <3>1
    <3>3. who[j] \in 1 .. n BY <1>2, <3>1, <3>2
    <3> QED BY <1>2, <1>4, <2>1, <3>1, <3>2, <3>3
  <2>2. ASSUME NEW j \in 1 .. h, NEW k \in 1 .. h, who1[j] = who1[k]
        PROVE  /\ x1[j] \in Closer /\ x1[k] \in Closer => j = k
               /\ x1[j] = "else" /\ x1[k] = "else" => j = k
               /\ x1[j] = "else" /\ x1[k] \in Closer => j < k
    BY <1>2, <1>3, <1>4, <2>2
  <2> QED BY <1>2, <2>1, <2>2 DEF OwnersKnown
<1>6. OpenKnown(x1, s, who1)
  <2>1. \A m \in 1 .. Len(s) :
          s[m].at \in 1 .. Len(x1) /\ x1[s[m].at] = IF s[m].word = "for" THEN "for" ELSE "if"
    BY <1>1, <1>2 DEF OpenKnown
  <2>2. \A l, m \in 1 .. Len(s) : l < m => s[l].at < s[m].at BY DEF OpenKnown
  <2>3. \A m \in 1 .. Len(s), j \in 1 .. Len(x1) : who1[j] = s[m].at =>
          x1[j] \notin Closer /\ (x1[j] = "else" => s[m].word = "else")
    BY <1>1, <1>2, <1>3 DEF OpenKnown
  <2>4. ASSUME NEW i \in 1 .. Len(x1)
        PROVE  /\ x1[i] \in Opener =>
                    (\E m \in 1 .. Len(s) : s[m].at = i)
                    \/ (\E j \in 1 .. Len(x1) : x1[j] \in Closer /\ who1[j] = i)
               /\ x1[i] = "if" =>
                    (\E m \in 1 .. Len(s) : s[m].at = i /\ s[m].word = "if")
                    \/ (\E j \in 1 .. Len(x1) : x1[j] = "else" /\ who1[j] = i)
    <3>1. CASE i = h BY <1>2, <1>3, <3>1
    <3>2. CASE i # h
      <4>1. i \in 1 .. n /\ x1[i] = x[i] BY <1>2, <3>2
      <4>2. /\ x[i] \in Opener =>
                 (\E m \in 1 .. Len(s) : s[m].at = i)
                 \/ (\E j \in 1 .. n : x[j] \in Closer /\ who[j] = i)
            /\ x[i] = "if" =>
                 (\E m \in 1 .. Len(s) : s[m].at = i /\ s[m].word = "if")
                 \/ (\E j \in 1 .. n : x[j] = "else" /\ who[j] = i)
        BY <1>1, <4>1 DEF OpenKnown
      <4>3. \A j \in 1 .. n : j \in 1 .. Len(x1) /\ x1[j] = x[j] /\ who1[j] = who[j]
        BY <1>2
      <4> QED BY ONLY <4>1, <4>2, <4>3
    <3> QED BY <3>1, <3>2
  <2> QED BY <2>1, <2>2, <2>3, <2>4 DEF OpenKnown
<1> QED BY <1>5, <1>6

\* A word that opens a statement is owned by nothing, and is open.
LEMMA OpenerWord ==
  ASSUME NEW x, NEW s, NEW who, NEW x1, NEW s1, NEW who1, NEW w \in Opener,
         Grows(x, who, x1, who1, w), OwnersKnown(x, who), OpenKnown(x, s, who),
         Len(s) \in Nat, Len(s1) = Len(s) + 1, \A m \in 1 .. Len(s) : s1[m] = s[m],
         s1[Len(s1)].at = Len(x1), s1[Len(s1)].word = w
  PROVE  OwnersKnown(x1, who1) /\ OpenKnown(x1, s1, who1)
<1>1. PICK n, h : n = Len(x) /\ h = n + 1 OBVIOUS
<1>2. /\ n \in Nat /\ Len(x1) = h /\ 1 .. h = (1 .. n) \cup {h} /\ h \notin 1 .. n
      /\ who1 \in [1 .. h -> Nat] /\ x1[h] = w
      /\ \A i \in 1 .. n : x1[i] = x[i] /\ who1[i] = who[i]
  BY <1>1 DEF Grows
<1>3. w \notin Closer \cup {"else"} /\ (w = "if" \/ w = "for") BY Words DEF Opener
<1>4. /\ \A j \in 1 .. n : x[j] \in {"else"} \cup Closer =>
           who[j] \in 1 .. j - 1 /\ x[who[j]] = IF x[j] = "endfor" THEN "for" ELSE "if"
      /\ \A j, k \in 1 .. n : who[j] = who[k] =>
           /\ x[j] \in Closer /\ x[k] \in Closer => j = k
           /\ x[j] = "else" /\ x[k] = "else" => j = k
           /\ x[j] = "else" /\ x[k] \in Closer => j < k
  BY <1>1 DEF OwnersKnown
<1>5. OwnersKnown(x1, who1)
  <2>1. ASSUME NEW j \in 1 .. h, x1[j] \in {"else"} \cup Closer
        PROVE  who1[j] \in 1 .. j - 1 /\ x1[who1[j]] = IF x1[j] = "endfor" THEN "for" ELSE "if"
    <3>1. j \in 1 .. n BY <1>2, <1>3, <2>1
    <3>2. who[j] \in 1 .. j - 1 BY <1>2, <1>4, <2>1, <3>1
    <3>3. who[j] \in 1 .. n BY <1>2, <3>1, <3>2
    <3> QED BY <1>2, <1>4, <2>1, <3>1, <3>2, <3>3
  <2>2. ASSUME NEW j \in 1 .. h, NEW k \in 1 .. h, who1[j] = who1[k]
        PROVE  /\ x1[j] \in Closer /\ x1[k] \in Closer => j = k
               /\ x1[j] = "else" /\ x1[k] = "else" => j = k
               /\ x1[j] = "else" /\ x1[k] \in Closer => j < k
    <3>1. CASE j = h BY <1>2, <1>3, <3>1
    <3>2. CASE k = h BY <1>2, <1>3, <3>2
    <3>3. CASE j # h /\ k # h
      <4>1. j \in 1 .. n /\ k \in 1 .. n BY <1>2, <3>3
      <4>2. x1[j] = x[j] /\ x1[k] = x[k] /\ who[j] = who[k] BY <1>2, <2>2, <4>1
      <4> QED BY <1>4, <4>1, <4>2
    <3> QED BY <3>1, <3>2, <3>3
  <2> QED BY <1>2, <2>1, <2>2 DEF OwnersKnown
<1>6. PICK t, u : t = Len(s) /\ u = t + 1 OBVIOUS
<1>7. /\ t \in Nat /\ Len(s1) = u /\ 1 .. u = (1 .. t) \cup {u} /\ u \notin 1 .. t
      /\ s1[u].at = h /\ s1[u].word = w /\ \A m \in 1 .. t : s1[m] = s[m] /\ m < u
      /\ \A l \in 1 .. u : ~(u < l)
  BY <1>1, <1>2, <1>6
<1>8. /\ \A m \in 1 .. t :
           s[m].at \in 1 .. n /\ x[s[m].at] = IF s[m].word = "for" THEN "for" ELSE "if"
      /\ \A l, m \in 1 .. t : l < m => s[l].at < s[m].at
      /\ \A m \in 1 .. t, j \in 1 .. n : who[j] = s[m].at =>
           x[j] \notin Closer /\ (x[j] = "else" => s[m].word = "else")
  BY <1>1, <1>6 DEF OpenKnown
<1>9. OpenKnown(x1, s1, who1)
  <2>1. ASSUME NEW m \in 1 .. u
        PROVE  s1[m].at \in 1 .. h /\ x1[s1[m].at] = IF s1[m].word = "for" THEN "for" ELSE "if"
    <3>1. CASE m = u BY <1>2, <1>3, <1>7, <3>1
    <3>2. CASE m # u
      <4>1. m \in 1 .. t /\ s1[m] = s[m] BY <1>7, <3>2
      <4>2. s[m].at \in 1 .. n /\ x[s[m].at] = IF s[m].word = "for" THEN "for" ELSE "if"
        BY <1>8, <4>1
      <4>3. s[m].at \in 1 .. h /\ x1[s[m].at] = x[s[m].at] BY <1>2, <4>2
      <4> QED BY <4>1, <4>2, <4>3
    <3> QED BY <3>1, <3>2
  <2>2. ASSUME NEW l \in 1 .. u, NEW m \in 1 .. u, l < m PROVE s1[l].at < s1[m].at
    <3>1. l # u /\ l \in 1 .. t BY <1>7, <2>2
    <3>2. s1[l].at = s[l].at /\ s[l].at \in 1 .. n BY <1>7, <1>8, <3>1
    <3>3. CASE m = u
      <4>1. \A i \in 1 .. n : i < h BY <1>1, <1>2
      <4> QED BY <1>7, <3>2, <3>3, <4>1
    <3>4. CASE m # u BY <1>7, <1>8, <2>2, <3>1, <3>4
    <3> QED BY <3>3, <3>4
  <2>3. ASSUME NEW m \in 1 .. u, NEW j \in 1 .. h, who1[j] = s1[m].at
        PROVE  x1[j] \notin Closer /\ (x1[j] = "else" => s1[m].word = "else")
    <3>1. CASE j = h BY <1>2, <1>3, <3>1
    <3>2. CASE j # h /\ m = u
      <4>1. j \in 1 .. n /\ x1[j] = x[j] /\ who[j] = h BY <1>2, <1>7, <2>3, <3>2
      <4>2. h \notin 1 .. j - 1 BY <1>1, <1>2, <4>1
      <4> QED BY <1>4, <4>1, <4>2
    <3>3. CASE j # h /\ m # u
      <4>1. j \in 1 .. n /\ m \in 1 .. t BY <1>2, <1>7, <3>3
      <4>2. x1[j] = x[j] /\ s1[m] = s[m] /\ who[j] = s[m].at BY <1>2, <1>7, <2>3, <4>1
      <4> QED BY <1>8, <4>1, <4>2
    <3> QED BY <3>1, <3>2, <3>3
  <2>4. ASSUME NEW i \in 1 .. h
        PROVE  /\ x1[i] \in Opener =>
                    (\E m \in 1 .. u : s1[m].at = i)
                    \/ (\E j \in 1 .. h : x1[j] \in Closer /\ who1[j] = i)
               /\ x1[i] = "if" =>
                    (\E m \in 1 .. u : s1[m].at = i /\ s1[m].word = "if")
                    \/ (\E j \in 1 .. h : x1[j] = "else" /\ who1[j] = i)
    <3>1. CASE i = h BY <1>2, <1>7, <3>1
    <3>2. CASE i # h
      <4>1. i \in 1 .. n /\ x1[i] = x[i] BY <1>2, <3>2
      <4>2. /\ x[i] \in Opener =>
                 (\E m \in 1 .. t : s[m].at = i)
                 \/ (\E j \in 1 .. n : x[j] \in Closer /\ who[j] = i)
            /\ x[i] = "if" =>
                 (\E m \in 1 .. t : s[m].at = i /\ s[m].word = "if")
                 \/ (\E j \in 1 .. n : x[j] = "else" /\ who[j] = i)
        BY <1>1, <1>6, <4>1 DEF OpenKnown
      <4> QED BY <1>2, <1>7, <4>1, <4>2
    <3> QED BY <3>1, <3>2
  <2> QED BY <1>2, <1>7, <2>1, <2>2, <2>3, <2>4 DEF OpenKnown
<1> QED BY <1>5, <1>9

\* An else or an end, of the statement that is open last.
LEMMA PartWord ==
  ASSUME NEW x, NEW s, NEW who, NEW x1, NEW who1, NEW w \in {"else"} \cup Closer,
         Grows(x, who, x1, who1, w), OwnersKnown(x, who), OpenKnown(x, s, who),
         Len(s) \in Nat \ {0}, who1[Len(x1)] = s[Len(s)].at,
         s[Len(s)].word = IF w = "else" THEN "if" ELSE IF w = "endif" THEN "else" ELSE "for"
  PROVE  OwnersKnown(x1, who1)
<1>1. PICK n, h, r : n = Len(x) /\ h = n + 1 /\ r = s[Len(s)] OBVIOUS
<1>2. /\ n \in Nat /\ Len(x1) = h /\ 1 .. h = (1 .. n) \cup {h} /\ h \notin 1 .. n
      /\ who1 \in [1 .. h -> Nat] /\ x1[h] = w /\ h - 1 = n
      /\ \A i \in 1 .. n : x1[i] = x[i] /\ who1[i] = who[i]
  BY <1>1 DEF Grows
<1>3. w = "else" \/ w = "endif" \/ w = "endfor" BY DEF Closer
<1>4. /\ \A j \in 1 .. n : x[j] \in {"else"} \cup Closer =>
           who[j] \in 1 .. j - 1 /\ x[who[j]] = IF x[j] = "endfor" THEN "for" ELSE "if"
      /\ \A j, k \in 1 .. n : who[j] = who[k] =>
           /\ x[j] \in Closer /\ x[k] \in Closer => j = k
           /\ x[j] = "else" /\ x[k] = "else" => j = k
           /\ x[j] = "else" /\ x[k] \in Closer => j < k
  BY <1>1 DEF OwnersKnown
<1>5. Len(s) \in 1 .. Len(s) OBVIOUS
<1>6. /\ r.at \in 1 .. n /\ x[r.at] = IF r.word = "for" THEN "for" ELSE "if"
      /\ \A j \in 1 .. n : who[j] = r.at =>
           x[j] \notin Closer /\ (x[j] = "else" => r.word = "else")
  BY <1>1, <1>5 DEF OpenKnown
<1>7. who1[h] = r.at /\ r.word = IF w = "else" THEN "if" ELSE IF w = "endif" THEN "else" ELSE "for"
  BY <1>1, <1>2
<1>8. ASSUME NEW j \in 1 .. h, x1[j] \in {"else"} \cup Closer
      PROVE  who1[j] \in 1 .. j - 1 /\ x1[who1[j]] = IF x1[j] = "endfor" THEN "for" ELSE "if"
  <2>1. CASE j = h BY <1>2, <1>3, <1>6, <1>7, <2>1
  <2>2. CASE j # h
    <3>1. j \in 1 .. n BY <1>2, <2>2
    <3>2. who[j] \in 1 .. j - 1 BY <1>2, <1>4, <1>8, <3>1
    <3>3. who[j] \in 1 .. n BY <1>2, <3>1, <3>2
    <3> QED BY <1>2, <1>4, <1>8, <3>1, <3>2, <3>3
  <2> QED BY <2>1, <2>2
<1>9. \A j \in 1 .. n : j < h /\ ~(h < j) BY <1>1, <1>2
<1>10. ASSUME NEW j \in 1 .. h, NEW k \in 1 .. h, who1[j] = who1[k]
       PROVE  /\ x1[j] \in Closer /\ x1[k] \in Closer => j = k
              /\ x1[j] = "else" /\ x1[k] = "else" => j = k
              /\ x1[j] = "else" /\ x1[k] \in Closer => j < k
  <2>1. CASE j # h /\ k # h BY <1>2, <1>4, <1>10, <2>1
  <2>2. CASE j = h /\ k = h BY <1>2, <2>2, Words
  <2>3. CASE j = h /\ k # h
    <3>1. k \in 1 .. n /\ x1[k] = x[k] /\ who[k] = r.at BY <1>2, <1>7, <1>10, <2>3
    <3> QED BY <1>2, <1>6, <1>7, <2>3, <3>1
  <2>4. CASE j # h /\ k = h
    <3>1. j \in 1 .. n /\ x1[j] = x[j] /\ who[j] = r.at BY <1>2, <1>7, <1>10, <2>4
    <3> QED BY <1>2, <1>6, <1>7, <1>9, <2>4, <3>1
  <2> QED BY <2>1, <2>2, <2>3, <2>4
<1> QED BY <1>2, <1>8, <1>10 DEF OwnersKnown

\* An else is owned by the innermost if, which goes on in its else part.
LEMMA ElseWord ==
  ASSUME NEW x, NEW s, NEW who, NEW x1, NEW s1, NEW who1,
         Grows(x, who, x1, who1, "else"), OwnersKnown(x, who), OpenKnown(x, s, who),
         Len(s) \in Nat \ {0}, Len(s1) = Len(s), who1[Len(x1)] = s[Len(s)].at,
         \A m \in 1 .. Len(s) : s1[m].at = s[m].at,
         \A m \in 1 .. Len(s) - 1 : s1[m].word = s[m].word,
         s[Len(s)].word = "if", s1[Len(s)].word = "else"
  PROVE  OpenKnown(x1, s1, who1)
<1>1. PICK n, h, t : n = Len(x) /\ h = n + 1 /\ t = Len(s) OBVIOUS
<1>2. /\ n \in Nat /\ Len(x1) = h /\ 1 .. h = (1 .. n) \cup {h} /\ h \notin 1 .. n
      /\ x1[h] = "else" /\ \A i \in 1 .. n : x1[i] = x[i] /\ who1[i] = who[i]
  BY <1>1 DEF Grows
<1>3. /\ t \in Nat /\ Len(s1) = t /\ t \in 1 .. t /\ 1 .. t = (1 .. t - 1) \cup {t}
      /\ t \notin 1 .. t - 1 /\ s[t].word = "if" /\ s1[t].word = "else" /\ who1[h] = s[t].at
      /\ (\A m \in 1 .. t : s1[m].at = s[m].at) /\ \A m \in 1 .. t - 1 : s1[m].word = s[m].word
  BY <1>1, <1>2
<1>4. /\ \A m \in 1 .. t :
           s[m].at \in 1 .. n /\ x[s[m].at] = IF s[m].word = "for" THEN "for" ELSE "if"
      /\ \A l, m \in 1 .. t : l < m => s[l].at < s[m].at
      /\ \A m \in 1 .. t, j \in 1 .. n : who[j] = s[m].at =>
           x[j] \notin Closer /\ (x[j] = "else" => s[m].word = "else")
  BY <1>1 DEF OpenKnown
<1>5. \A m \in 1 .. t : s[m].at = s[t].at => m = t
  <2> SUFFICES ASSUME NEW m \in 1 .. t, m # t PROVE s[m].at # s[t].at OBVIOUS
  <2>1. m < t BY <1>3
  <2>2. s[m].at < s[t].at /\ s[m].at \in Nat /\ s[t].at \in Nat BY <1>3, <1>4, <2>1
  <2> QED BY <2>2
<1>6. ASSUME NEW m \in 1 .. t
      PROVE  s1[m].at \in 1 .. h /\ x1[s1[m].at] = IF s1[m].word = "for" THEN "for" ELSE "if"
  <2>1. CASE m = t BY <1>2, <1>3, <1>4, <2>1
  <2>2. CASE m # t
    <3>1. s1[m].word = s[m].word /\ s1[m].at = s[m].at BY <1>3, <2>2
    <3>2. s[m].at \in 1 .. n BY <1>4
    <3>3. x1[s[m].at] = x[s[m].at] /\ s[m].at \in 1 .. h BY <1>2, <3>2
    <3> QED BY <1>4, <3>1, <3>3
  <2> QED BY <2>1, <2>2
<1>7. \A l, m \in 1 .. t : l < m => s1[l].at < s1[m].at BY <1>3, <1>4
<1>8. ASSUME NEW m \in 1 .. t, NEW j \in 1 .. h, who1[j] = s1[m].at
      PROVE  x1[j] \notin Closer /\ (x1[j] = "else" => s1[m].word = "else")
  <2>1. CASE j = h
    <3>1. m = t BY <1>3, <1>5, <1>8, <2>1
    <3> QED BY <1>2, <1>3, <2>1, <3>1, Words
  <2>2. CASE j # h
    <3>1. j \in 1 .. n /\ x1[j] = x[j] /\ who[j] = s[m].at BY <1>2, <1>3, <1>8, <2>2
    <3>2. x[j] \notin Closer /\ (x[j] = "else" => s[m].word = "else") BY <1>4, <3>1
    <3> QED BY <1>3, <3>1, <3>2
  <2> QED BY <2>1, <2>2
<1>9. ASSUME NEW i \in 1 .. h
      PROVE  /\ x1[i] \in Opener =>
                  (\E m \in 1 .. t : s1[m].at = i)
                  \/ (\E j \in 1 .. h : x1[j] \in Closer /\ who1[j] = i)
             /\ x1[i] = "if" =>
                  (\E m \in 1 .. t : s1[m].at = i /\ s1[m].word = "if")
                  \/ (\E j \in 1 .. h : x1[j] = "else" /\ who1[j] = i)
  <2>1. CASE i = h BY <1>2, <2>1, Words
  <2>2. CASE i # h
    <3>1. i \in 1 .. n /\ x1[i] = x[i] BY <1>2, <2>2
    <3>2. /\ x[i] \in Opener =>
               (\E m \in 1 .. t : s[m].at = i)
               \/ (\E j \in 1 .. n : x[j] \in Closer /\ who[j] = i)
          /\ x[i] = "if" =>
               (\E m \in 1 .. t : s[m].at = i /\ s[m].word = "if")
               \/ (\E j \in 1 .. n : x[j] = "else" /\ who[j] = i)
      BY <1>1, <3>1 DEF OpenKnown
    <3>3. x1[i] \in Opener =>
            (\E m \in 1 .. t : s1[m].at = i)
            \/ (\E j \in 1 .. h : x1[j] \in Closer /\ who1[j] = i)
      BY <1>2, <1>3, <3>1, <3>2, SMTT(40)
    <3>4. ASSUME x1[i] = "if"
          PROVE  (\E m \in 1 .. t : s1[m].at = i /\ s1[m].word = "if")
                 \/ (\E j \in 1 .. h : x1[j] = "else" /\ who1[j] = i)
      <4>1. CASE \E j \in 1 .. n : x[j] = "else" /\ who[j] = i BY <1>2, <4>1
      <4>2. CASE \E m \in 1 .. t : s[m].at = i /\ s[m].word = "if"
        <5>1. PICK m \in 1 .. t : s[m].at = i /\ s[m].word = "if" BY <4>2
        <5>2. CASE m = t BY <1>2, <1>3, <5>1, <5>2
        <5>3. CASE m # t
          <6>1. m \in 1 .. t - 1 BY <1>3, <5>3
          <6> QED BY <1>3, <5>1, <6>1
        <5> QED BY <5>2, <5>3
      <4> QED BY <3>1, <3>2, <3>4, <4>1, <4>2
    <3> QED BY <3>3, <3>4
  <2> QED BY <2>1, <2>2
<1> QED BY <1>2, <1>3, <1>6, <1>7, <1>8, <1>9 DEF OpenKnown

\* An end is owned by the innermost statement, which is open no more.
LEMMA CloserWord ==
  ASSUME NEW x, NEW s, NEW who, NEW x1, NEW s1, NEW who1, NEW w \in Closer,
         Grows(x, who, x1, who1, w), OwnersKnown(x, who), OpenKnown(x, s, who),
         Len(s) \in Nat \ {0}, Len(s1) = Len(s) - 1, who1[Len(x1)] = s[Len(s)].at,
         \A m \in 1 .. Len(s) - 1 : s1[m] = s[m], s[Len(s)].word # "if"
  PROVE  OpenKnown(x1, s1, who1)
<1>1. PICK n, h, t, v : n = Len(x) /\ h = n + 1 /\ t = Len(s) /\ v = Len(s1) OBVIOUS
<1>2. /\ n \in Nat /\ Len(x1) = h /\ 1 .. h = (1 .. n) \cup {h} /\ h \notin 1 .. n
      /\ x1[h] = w /\ \A i \in 1 .. n : x1[i] = x[i] /\ who1[i] = who[i]
  BY <1>1 DEF Grows
<1>3. /\ t \in Nat /\ Len(s1) = v /\ t \in 1 .. t /\ 1 .. t = (1 .. v) \cup {t}
      /\ s[t].word # "if" /\ who1[h] = s[t].at /\ \A m \in 1 .. v : s1[m] = s[m] /\ m < t
  BY <1>1, <1>2
<1>4. /\ \A m \in 1 .. t :
           s[m].at \in 1 .. n /\ x[s[m].at] = IF s[m].word = "for" THEN "for" ELSE "if"
      /\ \A l, m \in 1 .. t : l < m => s[l].at < s[m].at
      /\ \A m \in 1 .. t, j \in 1 .. n : who[j] = s[m].at =>
           x[j] \notin Closer /\ (x[j] = "else" => s[m].word = "else")
  BY <1>1 DEF OpenKnown
<1>5. w # "else" /\ w \notin Opener /\ w # "if" BY Words
<1>6. ASSUME NEW m \in 1 .. v
      PROVE  s1[m].at \in 1 .. h /\ x1[s1[m].at] = IF s1[m].word = "for" THEN "for" ELSE "if"
  <2>1. m \in 1 .. t /\ s1[m] = s[m] BY <1>3
  <2>2. s[m].at \in 1 .. n BY <1>4, <2>1
  <2>3. x1[s[m].at] = x[s[m].at] /\ s[m].at \in 1 .. h BY <1>2, <2>2
  <2> QED BY <1>4, <2>1, <2>3
<1>7. \A l, m \in 1 .. v : l < m => s1[l].at < s1[m].at BY <1>3, <1>4
<1>8. ASSUME NEW m \in 1 .. v, NEW j \in 1 .. h, who1[j] = s1[m].at
      PROVE  x1[j] \notin Closer /\ (x1[j] = "else" => s1[m].word = "else")
  <2>1. CASE j = h
    <3>1. s[m].at < s[t].at /\ s[m].at \in Nat /\ s[t].at \in Nat /\ s[m].at = s[t].at
      BY <1>3, <1>4, <1>8, <2>1
    <3> QED BY <3>1
  <2>2. CASE j # h
    <3>1. m \in 1 .. t /\ s1[m] = s[m] BY <1>3
    <3>2. j \in 1 .. n /\ x1[j] = x[j] /\ who[j] = s[m].at BY <1>2, <1>8, <2>2, <3>1
    <3> QED BY <1>4, <3>1, <3>2
  <2> QED BY <2>1, <2>2
<1>9. ASSUME NEW i \in 1 .. h
      PROVE  /\ x1[i] \in Opener =>
                  (\E m \in 1 .. v : s1[m].at = i)
                  \/ (\E j \in 1 .. h : x1[j] \in Closer /\ who1[j] = i)
             /\ x1[i] = "if" =>
                  (\E m \in 1 .. v : s1[m].at = i /\ s1[m].word = "if")
                  \/ (\E j \in 1 .. h : x1[j] = "else" /\ who1[j] = i)
  <2>1. CASE i = h BY <1>2, <1>5, <2>1
  <2>2. CASE i # h
    <3>1. i \in 1 .. n /\ x1[i] = x[i] BY <1>2, <2>2
    <3>2. /\ x[i] \in Opener =>
               (\E m \in 1 .. t : s[m].at = i)
               \/ (\E j \in 1 .. n : x[j] \in Closer /\ who[j] = i)
          /\ x[i] = "if" =>
               (\E m \in 1 .. t : s[m].at = i /\ s[m].word = "if")
               \/ (\E j \in 1 .. n : x[j] = "else" /\ who[j] = i)
      BY <1>1, <3>1 DEF OpenKnown
    <3>3. (\E m \in 1 .. t : s[m].at = i) =>
            (\E m \in 1 .. v : s1[m].at = i) \/ (x1[h] \in Closer /\ who1[h] = i)
      BY <1>2, <1>3
    <3>4. (\E m \in 1 .. t : s[m].at = i /\ s[m].word = "if") =>
            \E m \in 1 .. v : s1[m].at = i /\ s1[m].word = "if"
      BY <1>3
    <3> QED BY <1>2, <3>1, <3>2, <3>3, <3>4
  <2> QED BY <2>1, <2>2
<1>10. v = Len(s1) /\ h = Len(x1) BY <1>1, <1>2
<1> QED BY ONLY <1>6, <1>7, <1>8, <1>9, <1>10 DEF OpenKnown
-----------------------------------------------------------------------------
(***************************************************************************)
(* The brackets of a text, as a function of the text alone.                *)
(***************************************************************************)

\* A set of numbers has a least.
LEMMA LeastNatural ==
  ASSUME NEW T, T \subseteq Nat, T # {}
  PROVE  \E x \in T : \A y \in T : x <= y
<1> DEFINE R == {ss \in Nat \X Nat : ss[1] < ss[2]}
<1>1. R = OpToRel(<, Nat)
  BY DEF OpToRel
<1>2. IsWellFoundedOn(R, Nat)
  BY NatLessThanWellFounded, <1>1
<1>3. \E x \in T : \A y \in T : <<y, x>> \notin R
  <2> HIDE DEF R
  <2> QED BY <1>2, WFMin
<1>4. PICK x \in T : \A y \in T : <<y, x>> \notin R
  BY <1>3
<1>5. \A y \in T : x <= y
  <2> TAKE y \in T
  <2>1. <<y, x>> \in Nat \X Nat => ~(y < x)
    BY <1>4
  <2>2. QED
    BY <2>1
<1>6. QED
  BY <1>5

\* What holds of 0, and of a number after each it holds of, holds of all numbers.
LEMMA Counting ==
  ASSUME NEW K, 0 \in K, \A d \in Nat : d \in K => d + 1 \in K
  PROVE  \A d \in Nat : d \in K
<1>1. PICK T : T = {d \in Nat : d \notin K} OBVIOUS
<1>2. SUFFICES ASSUME T # {} PROVE FALSE BY <1>1
<1>3. T \subseteq Nat BY <1>1
<1>4. PICK d \in T : \A c \in T : d <= c BY <1>2, <1>3, LeastNatural
<1>5. d \in Nat /\ d # 0 /\ d \notin K BY <1>1, <1>4
<1>6. d - 1 \in Nat /\ d - 1 \in K BY <1>1, <1>4, <1>5
<1> QED BY <1>5, <1>6

\* What is open behind word k, when f says what is open behind the one before.
NestAt(words, f, k) ==
  IF k = 0 THEN << >>
  ELSE IF words[k] \in Opener THEN Append(f[k - 1], k)
  ELSE IF words[k] \in Closer THEN Front(f[k - 1])
  ELSE f[k - 1]

NestsTo(words, f, n) == \A k \in 0 .. Len(words) : k <= n => f[k] = NestAt(words, f, k)

\* There is a function of the words that follows the rule of each.
LEMMA NestingThere ==
  ASSUME NEW words, Len(words) \in Nat
  PROVE  \E f : f = [k \in 0 .. Len(words) |-> NestAt(words, f, k)]
<1>1. PICK n : n = Len(words) OBVIOUS
<1>2. n \in Nat BY <1>1
<1>3. PICK K : K = {d \in Nat : \E f : NestsTo(words, f, d)} OBVIOUS
<1>4. 0 \in K
  <2>1. PICK f : f = [k \in 0 .. n |-> << >>] OBVIOUS
  <2>2. \A k \in 0 .. n : k <= 0 => k = 0 BY <1>2
  <2>3. f[0] = << >> BY <1>2, <2>1
  <2>4. NestsTo(words, f, 0) BY <1>1, <2>2, <2>3 DEF NestsTo, NestAt
  <2> QED BY <1>3, <2>4
<1>5. ASSUME NEW d \in Nat, d \in K PROVE d + 1 \in K
  <2>1. PICK f : NestsTo(words, f, d) BY <1>3, <1>5
  <2>2. PICK g : g = [k \in 0 .. n |-> IF k <= d THEN f[k] ELSE NestAt(words, f, k)] OBVIOUS
  <2>3. \A k \in 0 .. n : k <= d => g[k] = f[k] BY <2>2
  <2>4. ASSUME NEW k \in 0 .. n, k <= d + 1 PROVE g[k] = NestAt(words, g, k)
    <3>1. k # 0 => k - 1 \in 0 .. n /\ k - 1 <= d BY <1>2, <2>4
    <3>2. k # 0 => g[k - 1] = f[k - 1] BY <2>3, <3>1
    <3>3. NestAt(words, g, k) = NestAt(words, f, k) BY <3>2 DEF NestAt
    <3>4. CASE k <= d BY <1>1, <2>1, <2>3, <3>3, <3>4 DEF NestsTo
    <3>5. CASE ~(k <= d) BY <2>2, <3>3, <3>5
    <3> QED BY <3>4, <3>5
  <2>5. NestsTo(words, g, d + 1) BY <1>1, <2>4 DEF NestsTo
  <2> QED BY <1>3, <2>5
<1>6. \A d \in Nat : d \in K BY ONLY <1>4, <1>5, Counting
<1>7. PICK f : NestsTo(words, f, n) BY <1>2, <1>3, <1>6
<1>8. PICK g : g = [k \in 0 .. n |-> f[k]] OBVIOUS
<1>9. ASSUME NEW k \in 0 .. n PROVE g[k] = NestAt(words, g, k)
  <2>1. k <= n BY <1>2
  <2>2. k # 0 => k - 1 \in 0 .. n BY <1>2
  <2>3. k # 0 => g[k - 1] = f[k - 1] BY <1>8, <2>2
  <2> QED BY <1>1, <1>7, <1>8, <2>1, <2>3 DEF NestsTo, NestAt
<1>10. g = [k \in 0 .. n |-> NestAt(words, g, k)] BY <1>8, <1>9
<1> QED BY <1>1, <1>10

\* Nesting follows the rule of each word.
LEMMA NestingIs ==
  ASSUME NEW words, Len(words) \in Nat, NEW k \in 0 .. Len(words)
  PROVE  Nesting(words)[k] = NestAt(words, Nesting(words), k)
<1>1. PICK g : g = CHOOSE f : f = [i \in 0 .. Len(words) |-> NestAt(words, f, i)] OBVIOUS
<1>0. Nesting(words) = g
  BY ONLY <1>1 DEF Nesting, NestAt
<1>2. Nesting(words) = [i \in 0 .. Len(words) |-> NestAt(words, Nesting(words), i)]
  BY <1>0, <1>1, NestingThere
<1>3. PICK f : f = Nesting(words) OBVIOUS
<1>4. f = [i \in 0 .. Len(words) |-> NestAt(words, f, i)] BY <1>2, <1>3
<1>5. f[k] = NestAt(words, f, k) BY <1>4
<1> QED BY <1>3, <1>5

\* What is open in the text and after one word more.
NestedAlike(x, x1) == \A k \in 0 .. Len(x) : Nesting(x1)[k] = Nesting(x)[k]
NestedOn(x, w, x1) ==
  Nesting(x1)[Len(x1)] =
    IF w \in Opener THEN Append(Nesting(x)[Len(x)], Len(x1))
    ELSE IF w \in Closer THEN Front(Nesting(x)[Len(x)]) ELSE Nesting(x)[Len(x)]

\* A word more changes nothing of what was open before.
LEMMA NestingGrows ==
  ASSUME NEW x \in Seq(Word), NEW w \in Word, NEW x1, x1 = Append(x, w)
  PROVE  NestedAlike(x, x1) /\ NestedOn(x, w, x1)
<1>1. PICK n, f, g : n = Len(x) /\ f = Nesting(x) /\ g = Nesting(x1) OBVIOUS
<1>2. /\ n \in Nat /\ Len(x1) = n + 1 /\ x1[n + 1] = w /\ \A i \in 1 .. n : x1[i] = x[i]
  BY <1>1
<1>3. \A k \in 0 .. n : f[k] = NestAt(x, f, k) BY <1>1, <1>2, NestingIs
<1>4. \A k \in 0 .. n + 1 : g[k] = NestAt(x1, g, k)
  <2>1. Len(x1) \in Nat BY <1>2
  <2>2. \A k \in 0 .. Len(x1) : Nesting(x1)[k] = NestAt(x1, Nesting(x1), k) BY ONLY <2>1, NestingIs
  <2> QED BY ONLY <1>1, <1>2, <2>2
<1>5. PICK T : T = {k \in 0 .. n : g[k] # f[k]} OBVIOUS
<1>6. T = {}
  <2> SUFFICES ASSUME T # {} PROVE FALSE OBVIOUS
  <2>1. T \subseteq Nat BY <1>2, <1>5
  <2>2. PICK k \in T : \A m \in T : k <= m BY <2>1, LeastNatural
  <2>3. k \in 0 .. n /\ k \in 0 .. n + 1 /\ g[k] # f[k] BY <1>2, <1>5, <2>2
  <2>4. CASE k = 0
    <3>1. f[k] = << >> BY <1>3, <2>3, <2>4 DEF NestAt
    <3>2. g[k] = << >> BY <1>4, <2>3, <2>4 DEF NestAt
    <3> QED BY <2>3, <3>1, <3>2
  <2>5. CASE k # 0
    <3>1. k - 1 \in 0 .. n /\ k \in 1 .. n /\ k - 1 < k BY <1>2, <2>3, <2>5
    <3>2. k - 1 \notin T BY <2>1, <2>2, <3>1
    <3>3. g[k - 1] = f[k - 1] /\ x1[k] = x[k] BY <1>2, <1>5, <3>1, <3>2
    <3>4. NestAt(x, f, k) = NestAt(x1, g, k) BY <3>3 DEF NestAt
    <3> QED BY <1>3, <1>4, <2>3, <3>4
  <2> QED BY <2>4, <2>5
<1>7. \A k \in 0 .. n : g[k] = f[k] BY <1>5, <1>6
<1>8. g[n + 1] = NestAt(x1, g, n + 1) /\ n + 1 # 0 /\ n + 1 - 1 = n /\ n \in 0 .. n
  BY <1>2, <1>4
<1>9. g[n] = f[n] BY <1>7, <1>8
<1>10. g[n + 1] = IF w \in Opener THEN Append(f[n], n + 1)
                  ELSE IF w \in Closer THEN Front(f[n]) ELSE f[n]
  BY <1>2, <1>8, <1>9 DEF NestAt
<1> QED BY <1>1, <1>2, <1>7, <1>10 DEF NestedAlike, NestedOn
-----------------------------------------------------------------------------
(***************************************************************************)
(* Code c is inserted in block n, and m blocks are new.                     *)
(***************************************************************************)

Emitted(B, n, c, m, B1) ==
  /\ Len(B) \in Nat /\ m \in Nat /\ Len(B1) = Len(B) + m /\ n \in 1 .. Len(B)
  /\ \A b \in 1 .. Len(B) : Len(B[b]) \in Nat
  /\ Len(c) \in Nat /\ Len(B1[n]) = Len(B[n]) + Len(c)
  /\ \A k \in 1 .. Len(B[n]) : B1[n][k] = B[n][k]
  /\ \A k \in 1 .. Len(c) : B1[n][Len(B[n]) + k] = c[k]
  /\ \A b \in 1 .. Len(B) : b # n => B1[b] = B[b]
  /\ \A b \in Len(B) + 1 .. Len(B) + m : B1[b] = << >>

\* The makers of the blocks that there were.
Keeps(B, own, own1) == \A b \in 1 .. Len(B) : own1[b] = own[b]

\* What Emitted does leaves the instructions that there were.
LEMMA LaterThen ==
  ASSUME NEW x, NEW B, NEW own, NEW who, NEW x1, NEW B1, NEW own1, NEW who1,
         NEW n, NEW c, NEW m, Emitted(B, n, c, m, B1),
         Len(x) \in Nat, Len(x1) \in Nat, Len(x) <= Len(x1),
         \A i \in 1 .. Len(x) : x1[i] = x[i] /\ who1[i] = who[i],
         \A b \in 1 .. Len(B) : own1[b] = own[b]
  PROVE  Sizes(x, B) /\ Sizes(x1, B1) /\ Later(x, B, own, who, x1, B1, own1, who1)
<1>1. PICK q, l, r : q = Len(B) /\ l = Len(B[n]) /\ r = Len(c) OBVIOUS
<1>2. /\ q \in Nat /\ m \in Nat /\ Len(B1) = q + m /\ n \in 1 .. q /\ l \in Nat /\ r \in Nat
      /\ Len(B1[n]) = l + r
      /\ \A k \in 1 .. l : B1[n][k] = B[n][k]
      /\ \A b \in 1 .. q : b # n => B1[b] = B[b]
      /\ \A b \in 1 .. q : Len(B[b]) \in Nat
      /\ \A b \in q + 1 .. q + m : B1[b] = << >>
  BY <1>1 DEF Emitted
<1>3. Sizes(x, B) BY <1>1, <1>2 DEF Sizes
<1>4. ASSUME NEW b \in 1 .. Len(B1) PROVE Len(B1[b]) \in Nat
  <2>1. b = n \/ (b \in 1 .. q /\ b # n) \/ b \in q + 1 .. q + m BY <1>2
  <2>2. CASE b = n BY <1>2, <2>2
  <2>3. CASE b \in 1 .. q /\ b # n BY <1>2, <2>3
  <2>4. CASE b \in q + 1 .. q + m BY <1>2, <2>4
  <2> QED BY <2>1, <2>2, <2>3, <2>4
<1>5. Sizes(x1, B1)
  <2>1. Len(B1) \in Nat BY <1>2
  <2> QED BY <1>4, <2>1 DEF Sizes
<1>6. ASSUME NEW b \in 1 .. q
      PROVE  /\ own1[b] = own[b] /\ Len(B[b]) <= Len(B1[b])
             /\ \A k \in 1 .. Len(B[b]) : B1[b][k] = B[b][k]
  <2>1. CASE b = n BY <1>1, <1>2, <2>1
  <2>2. CASE b # n
    <3>1. B1[b] = B[b] /\ Len(B[b]) \in Nat BY <1>2, <2>2
    <3> QED BY <1>1, <3>1
  <2> QED BY <2>1, <2>2
<1>7. Len(B) <= Len(B1) BY <1>1, <1>2
<1>8. \A i \in 1 .. Len(x) : x1[i] = x[i] /\ who1[i] = who[i] OBVIOUS
<1>9. Len(x) <= Len(x1) OBVIOUS
<1>10. Later(x, B, own, who, x1, B1, own1, who1)
  BY ONLY <1>1, <1>6, <1>7, <1>8, <1>9 DEF Later
<1> QED BY <1>3, <1>5, <1>10

\* The instructions that are new are known.
NewKnown(x1, B1, own1, who1, over, n, B, c) ==
  \A k \in 1 .. Len(c) : Known(x1, B1, own1, who1, over, n, Len(B[n]) + k)

\* So all are.
LEMMA AllKnownAfter ==
  ASSUME NEW x, NEW B, NEW own, NEW who, NEW x1, NEW B1, NEW own1, NEW who1, NEW over,
         NEW n, NEW c, NEW m, Emitted(B, n, c, m, B1), Sizes(x, B), Sizes(x1, B1),
         Later(x, B, own, who, x1, B1, own1, who1), AllKnown(x, B, own, who, FALSE),
         NewKnown(x1, B1, own1, who1, over, n, B, c)
  PROVE  AllKnown(x1, B1, own1, who1, over)
<1> USE DEF NewKnown
<1>1. PICK q, l, r : q = Len(B) /\ l = Len(B[n]) /\ r = Len(c) OBVIOUS
<1>2. /\ q \in Nat /\ m \in Nat /\ Len(B1) = q + m /\ n \in 1 .. q /\ l \in Nat /\ r \in Nat
      /\ Len(B1[n]) = l + r
      /\ \A b \in 1 .. q : b # n => B1[b] = B[b]
      /\ \A b \in q + 1 .. q + m : B1[b] = << >>
  BY <1>1 DEF Emitted
<1>3. \A b \in 1 .. q : \A k \in 1 .. Len(B[b]) : Known(x, B, own, who, FALSE, b, k)
  BY <1>1 DEF AllKnown
<1>4. \A b \in 1 .. q : \A k \in 1 .. Len(B[b]) : Known(x1, B1, own1, who1, over, b, k)
  BY <1>1, <1>3, KnownStays
<1>5. ASSUME NEW b \in 1 .. Len(B1), NEW k \in 1 .. Len(B1[b])
      PROVE  Known(x1, B1, own1, who1, over, b, k)
  <2>1. b = n \/ (b \in 1 .. q /\ b # n) \/ b \in q + 1 .. q + m BY <1>2
  <2>2. CASE b = n
    <3>1. k \in 1 .. l + r BY <1>2, <2>2
    <3>2. CASE k <= l
      <4>1. k \in 1 .. l BY <1>2, <3>1, <3>2
      <4> QED BY <1>1, <1>2, <1>4, <2>2, <4>1
    <3>3. CASE ~(k <= l)
      <4>1. k - l \in 1 .. r /\ k = l + (k - l) BY <1>2, <3>1, <3>3
      <4>2. Known(x1, B1, own1, who1, over, n, l + (k - l)) BY <1>1, <4>1
      <4> QED BY <2>2, <4>1, <4>2
    <3> QED BY <3>2, <3>3
  <2>3. CASE b \in 1 .. q /\ b # n BY <1>2, <1>4, <2>3
  <2>4. CASE b \in q + 1 .. q + m
    <3>1. Len(B1[b]) = 0 BY <1>2, <2>4
    <3> QED BY <3>1
  <2> QED BY <2>1, <2>2, <2>3, <2>4
<1> QED BY <1>5 DEF AllKnown

\* The words are coded when the new one is.
LEMMA CodedAfter ==
  ASSUME NEW x, NEW B, NEW own, NEW who, NEW x1, NEW B1, NEW own1, NEW who1, NEW n,
         Sizes(x, B), Sizes(x1, B1), Later(x, B, own, who, x1, B1, own1, who1),
         Len(x1) = Len(x) + 1, n \in 1 .. Len(B), Coded(x, B, who),
         x1[Len(x1)] \in Straight \cup {"if", "endfor"} =>
           \E k \in 1 .. Len(B1[n]) : B1[n][k] = CodeOf(x1, who1, Len(x1))
  PROVE  Coded(x1, B1, who1)
<1>1. PICK h, q : h = Len(x1) /\ q = Len(B) OBVIOUS
<1>2. /\ Len(x) = h - 1 /\ h \in Nat /\ h # 0 /\ q \in Nat /\ \A b \in 1 .. q : b \in 1 .. Len(B1)
  BY <1>1 DEF Sizes, Later
<1>3. SUFFICES ASSUME NEW i \in 1 .. h, x1[i] \in Straight \cup {"if", "endfor"}
               PROVE  \E b \in 1 .. Len(B1) : \E k \in 1 .. Len(B1[b]) : B1[b][k] = CodeOf(x1, who1, i)
  BY <1>1 DEF Coded
<1>4. CASE i = h BY <1>1, <1>2, <1>3, <1>4
<1>5. CASE i # h
  <2>1. i \in 1 .. Len(x) BY <1>2, <1>5
  <2>2. x1[i] = x[i] /\ who1[i] = who[i] BY <2>1 DEF Later
  <2>3. PICK b \in 1 .. q : \E k \in 1 .. Len(B[b]) : B[b][k] = CodeOf(x, who, i)
    BY <1>1, <1>3, <2>1, <2>2 DEF Coded
  <2>4. PICK k \in 1 .. Len(B[b]) : B[b][k] = CodeOf(x, who, i) BY <2>3
  <2>5. B1[b][k] = B[b][k] /\ k \in 1 .. Len(B1[b])
    <3>1. Len(B[b]) \in Nat /\ Len(B1[b]) \in Nat BY <1>1, <1>2 DEF Sizes
    <3> QED BY <1>1, <3>1 DEF Later
  <2>6. CodeOf(x1, who1, i) = CodeOf(x, who, i) BY <2>2 DEF CodeOf
  <2> QED BY <1>2, <2>4, <2>5, <2>6
<1> QED BY <1>4, <1>5

\* No block is new: the makers are what they were.
LEMMA MakersStay ==
  ASSUME NEW x, NEW B, NEW s, NEW own, NEW x1, NEW B1, NEW s1,
         MakersKnown(x, B, s, own), Len(B) \in Nat, Len(B1) = Len(B), Len(B1) # 0,
         Len(x) \in Nat, Len(x1) \in Nat, Len(x) <= Len(x1), \A i \in 1 .. Len(x) : x1[i] = x[i],
         \A m \in 1 .. Len(s1) : \E k \in 1 .. Len(s) :
           /\ s1[m].at = s[k].at /\ s1[m].last = s[k].last
           /\ s1[m].word \in {"if", "for"} => s1[m].word = s[k].word /\ s1[m].first = s[k].first
  PROVE  MakersKnown(x1, B1, s1, own)
<1>1. /\ own \in [1 .. Len(B1) -> [at : Nat, role : Role]]
      /\ own[1] = Made(0, "body")
  BY DEF MakersKnown
<1>2. ASSUME NEW c \in 1 .. Len(B1)
      PROVE  IF own[c].at = 0 THEN own[c].role = "body"
             ELSE /\ own[c].at \in 1 .. Len(x1) /\ x1[own[c].at] \in Opener
                  /\ own[c].role = "else" => x1[own[c].at] = "if"
  <2>1. CASE own[c].at = 0 BY <2>1 DEF MakersKnown
  <2>2. CASE own[c].at # 0
    <3>1. /\ own[c].at \in 1 .. Len(x) /\ x[own[c].at] \in Opener
          /\ own[c].role = "else" => x[own[c].at] = "if"
      BY <2>2 DEF MakersKnown
    <3>2. own[c].at \in 1 .. Len(x1) /\ x1[own[c].at] = x[own[c].at] BY <3>1
    <3> QED BY <2>2, <3>1, <3>2
  <2> QED BY <2>1, <2>2
<1>3. ASSUME NEW m \in 1 .. Len(s1)
      PROVE  /\ own[s1[m].last] = Made(s1[m].at, "end")
             /\ s1[m].word = "if" => own[s1[m].first] = Made(s1[m].at, "else")
             /\ s1[m].word = "for" => own[s1[m].first] = Made(s1[m].at, "body")
  <2>1. PICK k \in 1 .. Len(s) :
          /\ s1[m].at = s[k].at /\ s1[m].last = s[k].last
          /\ s1[m].word \in {"if", "for"} => s1[m].word = s[k].word /\ s1[m].first = s[k].first
    OBVIOUS
  <2> QED BY <2>1 DEF MakersKnown
<1> QED BY <1>1, <1>2, <1>3 DEF MakersKnown

\* An if or a for makes new blocks.
NewMakers(B, own, B1, own1, h, w) ==
  /\ own1 \in [1 .. Len(B1) -> [at : Nat, role : Role]]
  /\ \A b \in 1 .. Len(B) : own1[b] = own[b]
  /\ \A b \in Len(B) + 1 .. Len(B1) : own1[b].at = h /\ (own1[b].role = "else" => w = "if")

OneOpened(B, s, s1, own1) ==
  /\ Len(s) \in Nat /\ Len(s1) = Len(s) + 1
  /\ \A k \in 1 .. Len(s) :
       s1[k] = s[k] /\ s[k].last \in 1 .. Len(B) /\ s[k].first \in 1 .. Len(B)
  /\ own1[s1[Len(s1)].last] = Made(s1[Len(s1)].at, "end")
  /\ s1[Len(s1)].word = "if" => own1[s1[Len(s1)].first] = Made(s1[Len(s1)].at, "else")
  /\ s1[Len(s1)].word = "for" => own1[s1[Len(s1)].first] = Made(s1[Len(s1)].at, "body")

\* The blocks that an if or a for creates are made by it.
LEMMA MakersOpen ==
  ASSUME NEW x, NEW B, NEW s, NEW own, NEW x1, NEW B1, NEW s1, NEW own1, NEW m \in Nat,
         NEW w \in Opener, MakersKnown(x, B, s, own), Len(B) \in Nat \ {0}, Len(B1) = Len(B) + m,
         Len(x) \in Nat, Len(x1) = Len(x) + 1, \A i \in 1 .. Len(x) : x1[i] = x[i],
         x1[Len(x1)] = w, NewMakers(B, own, B1, own1, Len(x1), w), OneOpened(B, s, s1, own1)
  PROVE  MakersKnown(x1, B1, s1, own1)
<1>0. /\ own1 \in [1 .. Len(B1) -> [at : Nat, role : Role]]
      /\ \A b \in 1 .. Len(B) : own1[b] = own[b]
      /\ \A b \in Len(B) + 1 .. Len(B1) :
           own1[b].at = Len(x1) /\ (own1[b].role = "else" => w = "if")
      /\ Len(s) \in Nat /\ Len(s1) = Len(s) + 1
      /\ \A k \in 1 .. Len(s) :
           s1[k] = s[k] /\ s[k].last \in 1 .. Len(B) /\ s[k].first \in 1 .. Len(B)
      /\ own1[s1[Len(s1)].last] = Made(s1[Len(s1)].at, "end")
      /\ s1[Len(s1)].word = "if" => own1[s1[Len(s1)].first] = Made(s1[Len(s1)].at, "else")
      /\ s1[Len(s1)].word = "for" => own1[s1[Len(s1)].first] = Made(s1[Len(s1)].at, "body")
  BY DEF NewMakers, OneOpened
<1>1. PICK n, h, t, u, q, p : n = Len(x) /\ h = Len(x1) /\ t = Len(s) /\ u = Len(s1)
        /\ q = Len(B) /\ p = Len(B1)
  OBVIOUS
<1>2. /\ n \in Nat /\ h = n + 1 /\ t \in Nat /\ u = t + 1 /\ q \in Nat /\ p = q + m
      /\ 1 .. p = (1 .. q) \cup (q + 1 .. p) /\ 1 .. u = (1 .. t) \cup {u}
  BY <1>0, <1>1
<1>3. q # 0 /\ 1 \in 1 .. q BY <1>0, <1>1, <1>2
<1>4. own[1] = Made(0, "body") /\ own1[1] = Made(0, "body") BY <1>0, <1>1, <1>3 DEF MakersKnown
<1>5. ASSUME NEW c \in 1 .. p
      PROVE  IF own1[c].at = 0 THEN own1[c].role = "body"
             ELSE /\ own1[c].at \in 1 .. h /\ x1[own1[c].at] \in Opener
                  /\ own1[c].role = "else" => x1[own1[c].at] = "if"
  <2>1. CASE c \in q + 1 .. p
    <3>1. own1[c].at = h /\ (own1[c].role = "else" => w = "if") BY <1>0, <1>1, <2>1
    <3>2. h \in 1 .. h /\ h # 0 BY <1>2
    <3> QED BY <1>0, <1>1, <3>1, <3>2
  <2>2. CASE c \in 1 .. q /\ own[c].at = 0
    <3>1. own[c].role = "body" BY <1>0, <1>1, <2>2 DEF MakersKnown
    <3> QED BY <1>0, <1>1, <2>2, <3>1
  <2>3. CASE c \in 1 .. q /\ own[c].at # 0
    <3>1. /\ own[c].at \in 1 .. n /\ x[own[c].at] \in Opener
          /\ own[c].role = "else" => x[own[c].at] = "if"
      BY <1>0, <1>1, <2>3 DEF MakersKnown
    <3>2. own[c].at \in 1 .. h /\ x1[own[c].at] = x[own[c].at] BY <1>0, <1>1, <1>2, <3>1
    <3> QED BY <1>0, <1>1, <2>3, <3>1, <3>2
  <2> QED BY <1>2, <2>1, <2>2, <2>3
<1>6. ASSUME NEW k \in 1 .. u
      PROVE  /\ own1[s1[k].last] = Made(s1[k].at, "end")
             /\ s1[k].word = "if" => own1[s1[k].first] = Made(s1[k].at, "else")
             /\ s1[k].word = "for" => own1[s1[k].first] = Made(s1[k].at, "body")
  <2>1. CASE k = u BY <1>0, <1>1, <2>1
  <2>2. CASE k \in 1 .. t
    <3>1. s1[k] = s[k] /\ s[k].last \in 1 .. q /\ s[k].first \in 1 .. q BY <1>0, <1>1, <2>2
    <3>2. /\ own[s[k].last] = Made(s[k].at, "end")
          /\ s[k].word = "if" => own[s[k].first] = Made(s[k].at, "else")
          /\ s[k].word = "for" => own[s[k].first] = Made(s[k].at, "body")
      BY <1>0, <1>1, <2>2 DEF MakersKnown
    <3>3. own1[s[k].last] = own[s[k].last] /\ own1[s[k].first] = own[s[k].first]
      BY <1>0, <1>1, <3>1
    <3> QED BY ONLY <3>1, <3>2, <3>3
  <2> QED BY <1>2, <2>1, <2>2
<1>7. own1 \in [1 .. p -> [at : Nat, role : Role]] /\ Len(B1) # 0 BY <1>0, <1>1, <1>2
<1> QED BY ONLY <1>0, <1>1, <1>4, <1>5, <1>6, <1>7 DEF MakersKnown
-----------------------------------------------------------------------------
(***************************************************************************)
(* The words, one by one.                                                  *)
(***************************************************************************)

\* The text is at its end, and so are the blocks: the word that comes is coded in block n.
Ready(x, B, s, own, who, n) ==
  Written(x, B, s, own, who, FALSE) /\ Going(x, B, own, who, n)

\* The word has its place in block n.
Placed(x, B, own, who, n, x1, B1, own1, who1, w) ==
  /\ Sizes(x, B) /\ Sizes(x1, B1) /\ Later(x, B, own, who, x1, B1, own1, who1)
  /\ AtPlace(x1, B1, own1, who1, n, Len(B[n]) + 1, Len(x1))
  /\ Len(x1) \in 1 .. Len(x1) /\ x1[Len(x1)] = w

\* The next word has its place where the next instruction comes.
LEMMA WordComes ==
  ASSUME NEW x, NEW B, NEW s, NEW own, NEW who, NEW n, NEW x1, NEW B1, NEW own1, NEW who1,
         NEW w, NEW c, NEW m, Ready(x, B, s, own, who, n), Grows(x, who, x1, who1, w),
         Emitted(B, n, c, m, B1), Keeps(B, own, own1)
  PROVE  Placed(x, B, own, who, n, x1, B1, own1, who1, w)
<1>1. Len(x) \in Nat /\ Len(x1) = Len(x) + 1 /\ \A i \in 1 .. Len(x) : x1[i] = x[i] /\ who1[i] = who[i]
  BY DEF Grows
<1>2. Len(x1) \in Nat /\ Len(x) <= Len(x1) /\ Len(x1) \in 1 .. Len(x1) BY <1>1
<1>3. Sizes(x, B) /\ Sizes(x1, B1) /\ Later(x, B, own, who, x1, B1, own1, who1)
  <2>1. \A b \in 1 .. Len(B) : own1[b] = own[b] BY DEF Keeps
  <2> QED BY ONLY <1>1, <1>2, <2>1, Emitted(B, n, c, m, B1), LaterThen
<1>4. AtPlace(x, B, own, who, n, Len(B[n]) + 1, Len(x) + 1) BY DEF Ready, Going
<1>5. n \in 1 .. Len(B) /\ Len(B[n]) \in Nat BY DEF Emitted
<1>6. Len(B[n]) + 1 \in 1 .. Len(B[n]) + 1 /\ Len(x) + 1 \in 1 .. Len(x) + 1 BY <1>1, <1>5
<1>7. AtPlace(x1, B1, own1, who1, n, Len(B[n]) + 1, Len(x) + 1) BY <1>3, <1>4, <1>5, <1>6, AtStays
<1>8. x1[Len(x1)] = w BY DEF Grows
<1> QED BY <1>1, <1>2, <1>3, <1>7, <1>8 DEF Placed

\* do, var, return.
LEMMA StraightComes ==
  ASSUME NEW x, NEW B, NEW s, NEW own, NEW who, NEW n, NEW x1, NEW B1, NEW who1,
         NEW w \in Straight, NEW c, Ready(x, B, s, own, who, n), Grows(x, who, x1, who1, w),
         Emitted(B, n, c, 0, B1), Len(B) # 0,
         w = "return" => Len(c) = 2 /\ c[2] = Ret, w # "return" => Len(c) = 1,
         c[1] = Code(Len(x1), "run")
  PROVE  /\ Written(x1, B1, s, own, who1, FALSE)
         /\ w # "return" => Going(x1, B1, own, who1, n)
<1>1. PICK h, l, r : h = Len(x1) /\ l = Len(B[n]) /\ r = Len(c) OBVIOUS
<1>2. /\ Sizes(x, B) /\ Sizes(x1, B1) /\ Later(x, B, own, who, x1, B1, own, who1)
      /\ AtPlace(x1, B1, own, who1, n, l + 1, h) /\ h \in 1 .. Len(x1) /\ x1[h] = w
  <2>1. Keeps(B, own, own) BY DEF Keeps
  <2>2. Placed(x, B, own, who, n, x1, B1, own, who1, w) BY <2>1, WordComes
  <2> QED BY <1>1, <2>2 DEF Placed
<1>3. /\ l \in Nat /\ Len(B1[n]) = l + r /\ Len(B1) = Len(B) + 0 /\ n \in 1 .. Len(B)
      /\ \A k \in 1 .. r : B1[n][l + k] = c[k]
      /\ r \in {1, 2} /\ (w # "return" => r = 1) /\ (w = "return" => c[2] = Ret)
      /\ Len(B) \in Nat
  BY <1>1 DEF Emitted
<1>4. B1[n][l + 1] = Code(h, "run") /\ l + 1 \in 1 .. Len(B1[n]) BY <1>1, <1>3
<1>5. Runs(x1, B1, own, who1, n, l + 1) BY <1>2, <1>4 DEF Runs
<1>6. ASSUME NEW k \in 1 .. r PROVE Known(x1, B1, own, who1, FALSE, n, l + k)
  <2>1. CASE k = 1 BY <1>5, <2>1 DEF Known
  <2>2. CASE k # 1
    <3>2. k = 2 /\ w = "return" /\ r = 2 BY <1>3, <2>2
    <3>3. B1[n][l + 2] = Ret /\ l + 2 - 1 = l + 1 /\ l + 2 # 1
      <4>1. 2 \in 1 .. r /\ c[2] = Ret BY <1>3, <3>2
      <4> QED BY <1>3, <4>1
    <3>4. Returns(x1, B1, n, l + 2)
      <4>1. PICK e : e = l + 2 OBVIOUS
      <4>2. B1[n][e] = Ret /\ e # 1 /\ B1[n][e - 1] = Code(h, "run") /\ x1[h] = "return"
        <5>1. e - 1 = l + 1 /\ e # 1 BY <1>3, <4>1
        <5> QED BY <1>2, <1>4, <3>2, <3>3, <4>1, <5>1
      <4>3. Returns(x1, B1, n, e) BY <1>2, <4>2 DEF Returns
      <4> QED BY <4>1, <4>3
    <3> QED BY <3>2, <3>4 DEF Known
  <2> QED BY <2>1, <2>2
<1>7. AllKnown(x, B, own, who, FALSE) /\ Coded(x, B, who) /\ OwnersKnown(x, who)
      /\ OpenKnown(x, s, who) /\ MakersKnown(x, B, s, own)
  BY DEF Ready, Written
<1>8. AllKnown(x1, B1, own, who1, FALSE)
  <2>1. NewKnown(x1, B1, own, who1, FALSE, n, B, c) BY <1>1, <1>2, <1>6 DEF NewKnown
  <2>2. Sizes(x, B) /\ Sizes(x1, B1) /\ Later(x, B, own, who, x1, B1, own, who1)
        /\ Emitted(B, n, c, 0, B1)
    BY <1>1, <1>2
  <2> QED BY ONLY <1>7, <2>1, <2>2, AllKnownAfter
<1>9. Coded(x1, B1, who1)
  <2>1. CodeOf(x1, who1, h) = Code(h, "run")
    <3>1. w # "if" /\ w # "endfor" BY DEF Straight
    <3> QED BY <1>2, <3>1 DEF CodeOf
  <2>2. Len(x1) = Len(x) + 1 BY DEF Grows
  <2> QED BY <1>1, <1>2, <1>3, <1>4, <1>7, <2>1, <2>2, CodedAfter
<1>10. OwnersKnown(x1, who1) /\ OpenKnown(x1, s, who1) BY <1>7, PlainWord
<1>11. MakersKnown(x1, B1, s, own)
  <2>1. /\ Len(x) \in Nat /\ Len(x1) \in Nat /\ Len(x) <= Len(x1)
        /\ \A i \in 1 .. Len(x) : x1[i] = x[i]
    BY DEF Grows
  <2>2. Len(B1) = Len(B) /\ Len(B1) # 0 BY <1>3
  <2> QED BY <1>3, <1>7, <2>1, <2>2, MakersStay
<1>12. ASSUME w # "return" PROVE Going(x1, B1, own, who1, n)
  <2>1. Len(B1[n]) = l + 1 BY <1>3, <1>12
  <2>2. l + 1 + 1 # 1 /\ l + 1 + 1 - 1 = l + 1 /\ h + 1 - 1 = h BY <1>1, <1>2, <1>3
  <2> QED BY <1>1, <1>4, <2>1, <2>2 DEF Going, AtPlace
<1> QED BY <1>8, <1>9, <1>10, <1>11, <1>12 DEF Written

\* An empty block that begins behind the word.
LEMMA GoesOnIn ==
  ASSUME NEW x1, NEW B1, NEW own1, NEW who1, NEW d, B1[d] = << >>,
         Starts(x1, own1, who1, d, Len(x1) + 1)
  PROVE  Going(x1, B1, own1, who1, d)
<1>1. Len(B1[d]) + 1 = 1 OBVIOUS
<1> QED BY <1>1 DEF Going, AtPlace

\* The blocks and the code of an if at h.
IfOpens(B, s, c, h, d, e, f, s1) ==
  /\ d = Len(B) + 1 /\ e = Len(B) + 2 /\ f = Len(B) + 3
  /\ Len(c) = 2 /\ c[1] = Code(h, "test") /\ c[2] = Branch({d, e})
  /\ Len(s) \in Nat /\ Len(s1) = Len(s) + 1
  /\ \A k \in 1 .. Len(s) :
       s1[k] = s[k] /\ s[k].last \in 1 .. Len(B) /\ s[k].first \in 1 .. Len(B)
  /\ s1[Len(s1)] = [word |-> "if", at |-> h, first |-> e, last |-> f]

\* An if: the test, the branch to the two parts, the three blocks.
LEMMA IfComes ==
  ASSUME NEW x, NEW B, NEW s, NEW own, NEW who, NEW n, NEW x1, NEW B1, NEW s1, NEW who1, NEW c,
         NEW d, NEW e, NEW f, IfOpens(B, s, c, Len(x1), d, e, f, s1),
         Ready(x, B, s, own, who, n), Grows(x, who, x1, who1, "if"),
         Emitted(B, n, c, 3, B1), Len(B) # 0
  PROVE  \E own1 : Ready(x1, B1, s1, own1, who1, d)
<1>0. /\ d = Len(B) + 1 /\ e = Len(B) + 2 /\ f = Len(B) + 3
      /\ Len(c) = 2 /\ c[1] = Code(Len(x1), "test") /\ c[2] = Branch({d, e})
      /\ Len(s) \in Nat /\ Len(s1) = Len(s) + 1
      /\ \A k \in 1 .. Len(s) :
           s1[k] = s[k] /\ s[k].last \in 1 .. Len(B) /\ s[k].first \in 1 .. Len(B)
      /\ s1[Len(s1)] = [word |-> "if", at |-> Len(x1), first |-> e, last |-> f]
  BY DEF IfOpens
<1> USE <1>0
<1>1. PICK h, l, q : h = Len(x1) /\ l = Len(B[n]) /\ q = Len(B) OBVIOUS
<1>2. /\ l \in Nat /\ Len(B1[n]) = l + 2 /\ Len(B1) = q + 3 /\ n \in 1 .. q
      /\ \A k \in 1 .. 2 : B1[n][l + k] = c[k]
      /\ q \in Nat /\ q # 0
      /\ \A b \in q + 1 .. q + 3 : B1[b] = << >>
  BY <1>1 DEF Emitted
<1>3. /\ d = q + 1 /\ e = q + 2 /\ f = q + 3 /\ Len(B1) = f /\ f \in Nat
      /\ d \in 1 .. f /\ e \in 1 .. f /\ f \in 1 .. f /\ d \notin 1 .. q /\ e \notin 1 .. q
      /\ f \notin 1 .. q /\ d # e /\ d # f /\ e # f /\ 1 .. f = (1 .. q) \cup {d, e, f}
      /\ q + 1 .. f = {d, e, f}
  <2>1. d = q + 1 /\ e = q + 2 /\ f = q + 3 /\ Len(B1) = f /\ q \in Nat BY <1>1, <1>2
  <2> QED BY ONLY <2>1
<1>4. PICK own1 : own1 = [b \in 1 .. f |-> IF b \in 1 .. q THEN own[b]
                            ELSE Made(h, IF b = d THEN "body" ELSE IF b = e THEN "else" ELSE "end")]
  OBVIOUS
<1>5. /\ \A b \in 1 .. q : own1[b] = own[b]
      /\ own1[d] = Made(h, "body") /\ own1[e] = Made(h, "else") /\ own1[f] = Made(h, "end")
  BY <1>3, <1>4
<1>6. Placed(x, B, own, who, n, x1, B1, own1, who1, "if")
  <2>1. Keeps(B, own, own1) BY <1>1, <1>5 DEF Keeps
  <2> QED BY <2>1, WordComes
<1>7. /\ Sizes(x, B) /\ Sizes(x1, B1) /\ Later(x, B, own, who, x1, B1, own1, who1)
      /\ AtPlace(x1, B1, own1, who1, n, l + 1, h) /\ h \in 1 .. Len(x1) /\ x1[h] = "if"
  BY <1>1, <1>6 DEF Placed
<1>8. Tests(x1, B1, own1, who1, n, l + 1)
  <2>1. B1[n][l + 1] = Code(h, "test") /\ B1[n][l + 2] = Branch({d, e}) BY <1>1, <1>2
  <2>2. l + 1 + 1 = l + 2 /\ l + 1 + 1 <= Len(B1[n]) BY <1>2
  <2>3. d \in 1 .. Len(B1) /\ e \in 1 .. Len(B1) BY <1>3
  <2>4. B1[n][l + 1 + 1] = Branch({d, e}) BY <2>1, <2>2
  <2> QED BY <1>5, <1>7, <2>1, <2>2, <2>3, <2>4 DEF Tests
<1>9. ASSUME NEW k \in 1 .. Len(c) PROVE Known(x1, B1, own1, who1, FALSE, n, l + k)
  <2>1. CASE k = 1 BY <1>8, <2>1 DEF Known
  <2>2. CASE k # 1
    <3>1. PICK i : i = l + k OBVIOUS
    <3>2. i > 1 /\ i - 1 = l + 1 BY <1>2, <2>2, <3>1
    <3>3. Known(x1, B1, own1, who1, FALSE, n, i) BY ONLY <1>8, <3>2 DEF Known
    <3> QED BY <3>1, <3>3
  <2> QED BY <2>1, <2>2
<1>10. AllKnown(x, B, own, who, FALSE) /\ Coded(x, B, who) /\ OwnersKnown(x, who)
       /\ OpenKnown(x, s, who) /\ MakersKnown(x, B, s, own)
  BY DEF Ready, Written
<1>11. AllKnown(x1, B1, own1, who1, FALSE)
  <2>1. NewKnown(x1, B1, own1, who1, FALSE, n, B, c) BY <1>1, <1>9 DEF NewKnown
  <2> QED BY ONLY <1>7, <1>10, <2>1, Emitted(B, n, c, 3, B1), AllKnownAfter
<1>12. Len(x) \in Nat /\ Len(x1) = Len(x) + 1 /\ \A i \in 1 .. Len(x) : x1[i] = x[i] BY DEF Grows
<1>13. Coded(x1, B1, who1)
  <2>1. CodeOf(x1, who1, h) = Code(h, "test") BY <1>7 DEF CodeOf
  <2>2. l + 1 \in 1 .. Len(B1[n]) /\ B1[n][l + 1] = Code(h, "test")
    <3>1. c[1] = Code(h, "test") BY <1>1
    <3>2. 1 \in 1 .. 2 /\ l + 1 \in 1 .. Len(B1[n]) BY ONLY <1>2
    <3>3. B1[n][l + 1] = c[1] BY ONLY <1>2, <3>2
    <3> QED BY ONLY <3>1, <3>2, <3>3
  <2>3. x1[Len(x1)] \in Straight \cup {"if", "endfor"} =>
          \E k \in 1 .. Len(B1[n]) : B1[n][k] = CodeOf(x1, who1, Len(x1))
    BY ONLY <1>1, <2>1, <2>2
  <2>4. n \in 1 .. Len(B) BY <1>1, <1>2
  <2> QED BY ONLY <1>7, <1>10, <1>12, <2>3, <2>4, CodedAfter
<1>14. OwnersKnown(x1, who1) /\ OpenKnown(x1, s1, who1)
  <2>1. s1[Len(s1)].at = Len(x1) /\ s1[Len(s1)].word = "if" /\ "if" \in Opener BY Words
  <2> QED BY <1>10, <2>1, OpenerWord
<1>15. MakersKnown(x1, B1, s1, own1)
  <2>1. own1 \in [1 .. f -> [at : Nat, role : Role]]
    <3>1. own \in [1 .. q -> [at : Nat, role : Role]] BY <1>1, <1>10 DEF MakersKnown
    <3>2. h \in Nat BY <1>1, <1>12
    <3>3. \A b \in {d, e, f} : own1[b] \in [at : Nat, role : Role]
      BY <1>5, <3>2 DEF Made, Role
    <3> QED BY <1>3, <1>4, <1>5, <3>1, <3>3
  <2>2. \A b \in q + 1 .. f : own1[b].at = h
    BY ONLY <1>3, <1>5 DEF Made
  <2>3. /\ s1[Len(s1)].last = f /\ s1[Len(s1)].first = e /\ s1[Len(s1)].at = h
        /\ s1[Len(s1)].word = "if"
    BY <1>1
  <2>4. /\ own1[s1[Len(s1)].last] = Made(s1[Len(s1)].at, "end")
        /\ own1[s1[Len(s1)].first] = Made(s1[Len(s1)].at, "else")
    BY <1>5, <2>3
  <2>5. "if" \in Opener /\ 3 \in Nat /\ Len(B) \in Nat \ {0} /\ Len(B1) = Len(B) + 3 /\ Len(B1) # 0
    BY <1>1, <1>2, Words
  <2>6. OneOpened(B, s, s1, own1)
    <3>1. /\ Len(s) \in Nat /\ Len(s1) = Len(s) + 1
          /\ \A k \in 1 .. Len(s) :
               s1[k] = s[k] /\ s[k].last \in 1 .. Len(B) /\ s[k].first \in 1 .. Len(B)
          /\ s1[Len(s1)].word = "if" => own1[s1[Len(s1)].first] = Made(s1[Len(s1)].at, "else")
          /\ s1[Len(s1)].word = "for" => own1[s1[Len(s1)].first] = Made(s1[Len(s1)].at, "body")
          /\ own1[s1[Len(s1)].last] = Made(s1[Len(s1)].at, "end")
      BY <2>3, <2>4
    <3> QED BY ONLY <3>1 DEF OneOpened
  <2>7. NewMakers(B, own, B1, own1, Len(x1), "if")
    BY ONLY <1>1, <1>3, <1>5, <2>1, <2>2 DEF NewMakers
  <2>8. x1[Len(x1)] = "if" BY <1>1, <1>7
  <2> QED BY ONLY <1>10, <1>12, <2>5, <2>6, <2>7, <2>8, MakersOpen
<1>16. Going(x1, B1, own1, who1, d)
  <2>1. B1[d] = << >> BY <1>2, <1>3
  <2>2. Starts(x1, own1, who1, d, Len(x1) + 1) BY <1>1, <1>5 DEF Starts, Made
  <2> QED BY <2>1, <2>2, GoesOnIn
<1> QED BY <1>11, <1>13, <1>14, <1>15, <1>16 DEF Ready, Written

\* The blocks and the code of a for at h.
ForOpens(B, s, c, h, d, f, s1) ==
  /\ d = Len(B) + 1 /\ f = Len(B) + 2 /\ Len(c) = 1 /\ c[1] = Branch({d})
  /\ Len(s) \in Nat /\ Len(s1) = Len(s) + 1
  /\ \A k \in 1 .. Len(s) :
       s1[k] = s[k] /\ s[k].last \in 1 .. Len(B) /\ s[k].first \in 1 .. Len(B)
  /\ s1[Len(s1)] = [word |-> "for", at |-> h, first |-> d, last |-> f]

\* A for: the branch to the loop block, the two blocks.
LEMMA ForComes ==
  ASSUME NEW x, NEW B, NEW s, NEW own, NEW who, NEW n, NEW x1, NEW B1, NEW s1, NEW who1, NEW c,
         NEW d, NEW f, ForOpens(B, s, c, Len(x1), d, f, s1),
         Ready(x, B, s, own, who, n), Grows(x, who, x1, who1, "for"),
         Emitted(B, n, c, 2, B1), Len(B) # 0
  PROVE  \E own1 : Ready(x1, B1, s1, own1, who1, d)
<1>0. /\ d = Len(B) + 1 /\ f = Len(B) + 2 /\ Len(c) = 1 /\ c[1] = Branch({d})
      /\ Len(s) \in Nat /\ Len(s1) = Len(s) + 1
      /\ \A k \in 1 .. Len(s) :
           s1[k] = s[k] /\ s[k].last \in 1 .. Len(B) /\ s[k].first \in 1 .. Len(B)
      /\ s1[Len(s1)] = [word |-> "for", at |-> Len(x1), first |-> d, last |-> f]
  BY DEF ForOpens
<1> USE <1>0
<1>1. PICK h, l, q : h = Len(x1) /\ l = Len(B[n]) /\ q = Len(B) OBVIOUS
<1>2. /\ l \in Nat /\ Len(B1[n]) = l + 1 /\ Len(B1) = q + 2 /\ n \in 1 .. q
      /\ \A k \in 1 .. 1 : B1[n][l + k] = c[k]
      /\ q \in Nat /\ q # 0
      /\ \A b \in q + 1 .. q + 2 : B1[b] = << >>
  BY <1>1 DEF Emitted
<1>3. /\ d = q + 1 /\ f = q + 2 /\ Len(B1) = f /\ f \in Nat
      /\ d \in 1 .. f /\ f \in 1 .. f /\ d \notin 1 .. q /\ f \notin 1 .. q /\ d # f
      /\ 1 .. f = (1 .. q) \cup {d, f} /\ q + 1 .. f = {d, f}
  <2>1. d = q + 1 /\ f = q + 2 /\ Len(B1) = f /\ q \in Nat BY <1>1, <1>2
  <2> QED BY ONLY <2>1
<1>4. PICK own1 : own1 = [b \in 1 .. f |-> IF b \in 1 .. q THEN own[b]
                            ELSE Made(h, IF b = d THEN "body" ELSE "end")]
  OBVIOUS
<1>5. /\ \A b \in 1 .. q : own1[b] = own[b]
      /\ own1[d] = Made(h, "body") /\ own1[f] = Made(h, "end")
  BY <1>3, <1>4
<1>6. Placed(x, B, own, who, n, x1, B1, own1, who1, "for")
  <2>1. Keeps(B, own, own1) BY <1>1, <1>5 DEF Keeps
  <2> QED BY <2>1, WordComes
<1>7. /\ Sizes(x, B) /\ Sizes(x1, B1) /\ Later(x, B, own, who, x1, B1, own1, who1)
      /\ AtPlace(x1, B1, own1, who1, n, l + 1, h) /\ h \in 1 .. Len(x1) /\ x1[h] = "for"
  BY <1>1, <1>6 DEF Placed
<1>8. Known(x1, B1, own1, who1, FALSE, n, l + 1)
  <2>1. B1[n][l + 1] = Branch({d}) BY <1>1, <1>2
  <2>2. d \in 1 .. Len(B1) BY <1>3
  <2>3. Jumps(x1, B1, own1, who1, n, l + 1) BY <1>5, <1>7, <2>1, <2>2 DEF Jumps
  <2> QED BY <2>3 DEF Known
<1>9. \A k \in 1 .. Len(c) : Known(x1, B1, own1, who1, FALSE, n, Len(B[n]) + k)
  <2>1. \A k \in 1 .. Len(c) : k = 1 OBVIOUS
  <2> QED BY ONLY <1>1, <1>8, <2>1
<1>10. AllKnown(x, B, own, who, FALSE) /\ Coded(x, B, who) /\ OwnersKnown(x, who)
       /\ OpenKnown(x, s, who) /\ MakersKnown(x, B, s, own)
  BY DEF Ready, Written
<1>11. AllKnown(x1, B1, own1, who1, FALSE)
  <2>1. NewKnown(x1, B1, own1, who1, FALSE, n, B, c) BY <1>9 DEF NewKnown
  <2> QED BY ONLY <1>7, <1>10, <2>1, Emitted(B, n, c, 2, B1), AllKnownAfter
<1>12. Len(x) \in Nat /\ Len(x1) = Len(x) + 1 /\ \A i \in 1 .. Len(x) : x1[i] = x[i] BY DEF Grows
<1>13. Coded(x1, B1, who1)
  <2>1. "for" \notin Straight \cup {"if", "endfor"} BY DEF Straight
  <2>2. x1[Len(x1)] \in Straight \cup {"if", "endfor"} =>
          \E k \in 1 .. Len(B1[n]) : B1[n][k] = CodeOf(x1, who1, Len(x1))
    BY ONLY <1>1, <1>7, <2>1
  <2>3. n \in 1 .. Len(B) BY <1>1, <1>2
  <2> QED BY ONLY <1>7, <1>10, <1>12, <2>2, <2>3, CodedAfter
<1>14. OwnersKnown(x1, who1) /\ OpenKnown(x1, s1, who1)
  <2>1. s1[Len(s1)].at = Len(x1) /\ s1[Len(s1)].word = "for" /\ "for" \in Opener BY Words
  <2> QED BY <1>10, <2>1, OpenerWord
<1>15. MakersKnown(x1, B1, s1, own1)
  <2>1. own1 \in [1 .. f -> [at : Nat, role : Role]]
    <3>1. own \in [1 .. q -> [at : Nat, role : Role]] BY <1>1, <1>10 DEF MakersKnown
    <3>2. h \in Nat BY <1>1, <1>12
    <3>3. \A b \in {d, f} : own1[b] \in [at : Nat, role : Role]
      BY <1>5, <3>2 DEF Made, Role
    <3> QED BY <1>3, <1>4, <1>5, <3>1, <3>3
  <2>2. \A b \in q + 1 .. f : own1[b].at = h /\ own1[b].role # "else"
    BY ONLY <1>3, <1>5 DEF Made
  <2>3. /\ s1[Len(s1)].last = f /\ s1[Len(s1)].first = d /\ s1[Len(s1)].at = h
        /\ s1[Len(s1)].word = "for"
    BY <1>1
  <2>4. /\ own1[s1[Len(s1)].last] = Made(s1[Len(s1)].at, "end")
        /\ own1[s1[Len(s1)].first] = Made(s1[Len(s1)].at, "body")
    BY <1>5, <2>3
  <2>5. "for" \in Opener /\ 2 \in Nat /\ Len(B) \in Nat \ {0} /\ Len(B1) = Len(B) + 2 /\ Len(B1) # 0
    BY <1>1, <1>2, Words
  <2>6. OneOpened(B, s, s1, own1)
    <3>1. /\ Len(s) \in Nat /\ Len(s1) = Len(s) + 1
          /\ \A k \in 1 .. Len(s) :
               s1[k] = s[k] /\ s[k].last \in 1 .. Len(B) /\ s[k].first \in 1 .. Len(B)
          /\ s1[Len(s1)].word = "if" => own1[s1[Len(s1)].first] = Made(s1[Len(s1)].at, "else")
          /\ s1[Len(s1)].word = "for" => own1[s1[Len(s1)].first] = Made(s1[Len(s1)].at, "body")
          /\ own1[s1[Len(s1)].last] = Made(s1[Len(s1)].at, "end")
      BY <2>3, <2>4
    <3> QED BY ONLY <3>1 DEF OneOpened
  <2>7. NewMakers(B, own, B1, own1, Len(x1), "for")
    BY ONLY <1>1, <1>3, <1>5, <2>1, <2>2 DEF NewMakers
  <2>8. x1[Len(x1)] = "for" BY <1>1, <1>7
  <2> QED BY ONLY <1>10, <1>12, <2>5, <2>6, <2>7, <2>8, MakersOpen
<1>16. Going(x1, B1, own1, who1, d)
  <2>1. B1[d] = << >> BY <1>2, <1>3
  <2>2. Starts(x1, own1, who1, d, Len(x1) + 1) BY <1>1, <1>5 DEF Starts, Made
  <2> QED BY <2>1, <2>2, GoesOnIn
<1> QED BY <1>11, <1>13, <1>14, <1>15, <1>16 DEF Ready, Written

\* The statement that an else or an end belongs to, the code of its step, which is first,
\* and the block that is filled from there.
WordFor(w, r) == r.word = IF w = "else" THEN "if" ELSE IF w = "endif" THEN "else" ELSE "for"
StepFirst(w, c, at) == w = "endfor" => Len(c) # 0 /\ c[1] = Code(at, "step")
FilledFor(w, own, d, at) == own[d] = Made(at, IF w = "else" THEN "else" ELSE "end")

\* The statement r that an else or an end is of, its code, and what is open behind it.
PartCode(c, w, r) ==
  IF w = "endfor"
  THEN /\ Len(c) = 3 /\ c[1] = Code(r.at, "step") /\ c[2] = Code(r.at, "test")
       /\ c[3] = Branch({r.first, r.last})
  ELSE Len(c) = 1 /\ c[1] = Branch({r.last})
OpenAfter(w, s, s1) ==
  /\ \A m \in 1 .. Len(s) - 1 : s1[m] = s[m]
  /\ IF w = "else"
     THEN /\ Len(s1) = Len(s) /\ s1[Len(s)].word = "else"
          /\ s1[Len(s)].at = s[Len(s)].at /\ s1[Len(s)].last = s[Len(s)].last
     ELSE Len(s1) = Len(s) - 1
Within(s, s1) ==
  \A m \in 1 .. Len(s1) : \E k \in 1 .. Len(s) :
    /\ s1[m].at = s[k].at /\ s1[m].last = s[k].last
    /\ s1[m].word \in {"if", "for"} => s1[m].word = s[k].word /\ s1[m].first = s[k].first

\* An else or an end: its code is known, and the next block is that behind it.
LEMMA PartComes ==
  ASSUME NEW x, NEW B, NEW s, NEW own, NEW who, NEW n, NEW x1, NEW B1, NEW s1, NEW who1, NEW c,
         NEW w \in {"else"} \cup Closer, NEW d,
         Ready(x, B, s, own, who, n), Grows(x, who, x1, who1, w),
         Emitted(B, n, c, 0, B1), Len(B) # 0, Len(s) \in Nat \ {0},
         who1[Len(x1)] = s[Len(s)].at,
         WordFor(w, s[Len(s)]), NewKnown(x1, B1, own, who1, FALSE, n, B, c),
         StepFirst(w, c, s[Len(s)].at), OpenKnown(x1, s1, who1), Within(s, s1),
         B1[d] = << >>, FilledFor(w, own, d, s[Len(s)].at)
  PROVE  Ready(x1, B1, s1, own, who1, d)
<1> USE DEF WordFor, StepFirst, FilledFor, Within
<1>1. PICK h, l, q, r : h = Len(x1) /\ l = Len(B[n]) /\ q = Len(B) /\ r = Len(c) OBVIOUS
<1>2. /\ l \in Nat /\ r \in Nat /\ Len(B1[n]) = l + r /\ Len(B1) = q + 0 /\ n \in 1 .. q
      /\ \A k \in 1 .. r : B1[n][l + k] = c[k]
      /\ q \in Nat /\ q # 0
  BY <1>1 DEF Emitted
<1>3. Placed(x, B, own, who, n, x1, B1, own, who1, w)
  <2>1. Keeps(B, own, own) BY DEF Keeps
  <2> QED BY <2>1, WordComes
<1>4. /\ Sizes(x, B) /\ Sizes(x1, B1) /\ Later(x, B, own, who, x1, B1, own, who1)
      /\ AtPlace(x1, B1, own, who1, n, l + 1, h) /\ h \in 1 .. Len(x1) /\ x1[h] = w
  BY <1>1, <1>3 DEF Placed
<1>5. AllKnown(x, B, own, who, FALSE) /\ Coded(x, B, who) /\ OwnersKnown(x, who)
       /\ OpenKnown(x, s, who) /\ MakersKnown(x, B, s, own)
  BY DEF Ready, Written
<1>6. AllKnown(x1, B1, own, who1, FALSE)
  BY ONLY <1>4, <1>5, NewKnown(x1, B1, own, who1, FALSE, n, B, c), Emitted(B, n, c, 0, B1),
          AllKnownAfter
<1>7. Len(x) \in Nat /\ Len(x1) = Len(x) + 1 /\ \A i \in 1 .. Len(x) : x1[i] = x[i] BY DEF Grows
<1>8. Coded(x1, B1, who1)
  <2>1. w \in Straight \cup {"if", "endfor"} => w = "endfor" BY Words
  <2>2. ASSUME w = "endfor" PROVE \E k \in 1 .. Len(B1[n]) : B1[n][k] = CodeOf(x1, who1, h)
    <3>1. CodeOf(x1, who1, h) = Code(s[Len(s)].at, "step") BY <1>1, <1>4, <2>2 DEF CodeOf
    <3>2. r # 0 /\ c[1] = Code(s[Len(s)].at, "step") BY <1>1, <2>2
    <3>3. 1 \in 1 .. r /\ l + 1 \in 1 .. Len(B1[n]) BY <1>2, <3>2
    <3> QED BY <1>2, <3>1, <3>2, <3>3
  <2>3. x1[Len(x1)] \in Straight \cup {"if", "endfor"} =>
          \E k \in 1 .. Len(B1[n]) : B1[n][k] = CodeOf(x1, who1, Len(x1))
    BY ONLY <1>1, <1>4, <2>1, <2>2
  <2>4. n \in 1 .. Len(B) BY <1>1, <1>2
  <2> QED BY ONLY <1>4, <1>5, <1>7, <2>3, <2>4, CodedAfter
<1>9. OwnersKnown(x1, who1) BY <1>5, PartWord
<1>10. MakersKnown(x1, B1, s1, own)
  <2>1. Len(B) \in Nat /\ Len(B1) = Len(B) /\ Len(B1) # 0 BY <1>1, <1>2
  <2>2. Len(x1) \in Nat /\ Len(x) <= Len(x1) BY <1>7
  <2> QED BY <1>5, <1>7, <2>1, <2>2, MakersStay
<1>11. Going(x1, B1, own, who1, d)
  <2>1. own[d].at = s[Len(s)].at /\ own[d].role = IF w = "else" THEN "else" ELSE "end"
    BY DEF Made
  <2>2. PICK p : p = Len(x1) + 1 OBVIOUS
  <2>3. p \in 2 .. Len(x1) + 1 /\ p - 1 = h BY <1>1, <1>7, <2>2
  <2>4. own[d].role # "body" /\ who1[p - 1] = own[d].at
        /\ x1[p - 1] \in IF own[d].role = "else" THEN {"else"} ELSE Closer
    <3>1. w = "else" \/ w \in Closer OBVIOUS
    <3> QED BY <1>1, <1>4, <2>1, <2>3, <3>1
  <2>5. Starts(x1, own, who1, d, p) BY <2>3, <2>4 DEF Starts
  <2> QED BY <2>2, <2>5, GoesOnIn
<1> QED BY <1>6, <1>8, <1>9, <1>10, <1>11 DEF Ready, Written

\* The block of an else, and that behind an if: both are come to from the merge block.
LEMMA JoinKnown ==
  ASSUME NEW x, NEW B, NEW s, NEW own, NEW who, NEW n, NEW x1, NEW B1, NEW who1, NEW c,
         NEW w \in {"else", "endif"}, NEW r,
         Ready(x, B, s, own, who, n), Grows(x, who, x1, who1, w),
         Emitted(B, n, c, 0, B1), Len(s) \in Nat \ {0}, r = s[Len(s)],
         who1[Len(x1)] = r.at, r.last \in 1 .. Len(B), Len(c) = 1, c[1] = Branch({r.last})
  PROVE  \A k \in 1 .. Len(c) : Known(x1, B1, own, who1, FALSE, n, Len(B[n]) + k)
<1>1. PICK h, l : h = Len(x1) /\ l = Len(B[n]) OBVIOUS
<1>2. B1[n][l + 1] = Branch({r.last}) /\ Len(B1) = Len(B) + 0 /\ Len(B) \in Nat
  <2>1. 1 \in 1 .. Len(c) OBVIOUS
  <2> QED BY <1>1, <2>1 DEF Emitted
<1>3. Placed(x, B, own, who, n, x1, B1, own, who1, w)
  <2>1. Keeps(B, own, own) BY DEF Keeps
  <2> QED BY <2>1, WordComes
<1>4. AtPlace(x1, B1, own, who1, n, l + 1, h) /\ h \in 1 .. Len(x1) /\ x1[h] = w
  BY <1>1, <1>3 DEF Placed
<1>5. own[r.last] = Made(r.at, "end")
  <2>1. MakersKnown(x, B, s, own) /\ Len(s) \in 1 .. Len(s) BY DEF Ready, Written
  <2> QED BY <2>1 DEF MakersKnown
<1>6. r.last \in 1 .. Len(B1) BY <1>2
<1>7. Jumps(x1, B1, own, who1, n, l + 1) BY <1>1, <1>2, <1>4, <1>5, <1>6 DEF Jumps
<1>8. Known(x1, B1, own, who1, FALSE, n, l + 1) BY <1>7 DEF Known
<1>9. \A k \in 1 .. Len(c) : k = 1 OBVIOUS
<1> QED BY ONLY <1>1, <1>8, <1>9

\* The end of a for: the step, the test, and the branch back or out.
LEMMA RoundKnown ==
  ASSUME NEW x, NEW B, NEW s, NEW own, NEW who, NEW n, NEW x1, NEW B1, NEW who1, NEW c, NEW r,
         Ready(x, B, s, own, who, n), Grows(x, who, x1, who1, "endfor"),
         Emitted(B, n, c, 0, B1), Len(s) \in Nat \ {0}, r = s[Len(s)], r.word = "for",
         who1[Len(x1)] = r.at, r.first \in 1 .. Len(B), r.last \in 1 .. Len(B), Len(c) = 3,
         c[1] = Code(r.at, "step"), c[2] = Code(r.at, "test"), c[3] = Branch({r.first, r.last})
  PROVE  \A k \in 1 .. Len(c) : Known(x1, B1, own, who1, FALSE, n, Len(B[n]) + k)
<1>1. PICK h, l : h = Len(x1) /\ l = Len(B[n]) OBVIOUS
<1>2. /\ B1[n][l + 1] = Code(r.at, "step") /\ B1[n][l + 2] = Code(r.at, "test")
      /\ B1[n][l + 3] = Branch({r.first, r.last})
      /\ Len(B1) = Len(B) + 0 /\ Len(B) \in Nat /\ l \in Nat /\ Len(B1[n]) = l + 3
  <2>1. 1 \in 1 .. Len(c) /\ 2 \in 1 .. Len(c) /\ 3 \in 1 .. Len(c) OBVIOUS
  <2> QED BY <1>1, <2>1 DEF Emitted
<1>3. Placed(x, B, own, who, n, x1, B1, own, who1, "endfor")
  <2>1. Keeps(B, own, own) BY DEF Keeps
  <2> QED BY <2>1, WordComes
<1>4. AtPlace(x1, B1, own, who1, n, l + 1, h) /\ h \in 1 .. Len(x1) /\ x1[h] = "endfor"
  BY <1>1, <1>3 DEF Placed
<1>5. own[r.last] = Made(r.at, "end") /\ own[r.first] = Made(r.at, "body")
  <2>1. MakersKnown(x, B, s, own) /\ Len(s) \in 1 .. Len(s) BY DEF Ready, Written
  <2> QED BY <2>1 DEF MakersKnown
<1>6. r.last \in 1 .. Len(B1) /\ r.first \in 1 .. Len(B1) BY <1>2
<1>7. PICK i : i = l + 1 OBVIOUS
<1>8. /\ i + 1 = l + 2 /\ i + 2 = l + 3 /\ i + 2 <= Len(B1[n])
      /\ l + 2 > 1 /\ l + 2 - 1 = i /\ l + 3 > 2 /\ l + 3 - 2 = i
  BY <1>2, <1>7
<1>9. Steps(x1, B1, own, who1, n, i)
  <2>1. B1[n][i] = Code(r.at, "step") /\ B1[n][i + 1] = Code(r.at, "test")
        /\ B1[n][i + 2] = Branch({r.first, r.last})
    BY <1>2, <1>7, <1>8
  <2> QED BY <1>1, <1>4, <1>5, <1>6, <1>7, <1>8, <2>1 DEF Steps
<1>10. Known(x1, B1, own, who1, FALSE, n, l + 1) BY <1>7, <1>9 DEF Known
<1>11. Known(x1, B1, own, who1, FALSE, n, l + 2)
  <2>1. PICK j : j = l + 2 OBVIOUS
  <2>2. j > 1 /\ j - 1 = i BY <1>2, <1>7, <2>1
  <2> QED BY ONLY <1>9, <2>1, <2>2 DEF Known
<1>12. Known(x1, B1, own, who1, FALSE, n, l + 3)
  <2>1. PICK j : j = l + 3 OBVIOUS
  <2>2. j > 2 /\ j - 2 = i BY <1>2, <1>7, <2>1
  <2> QED BY ONLY <1>9, <2>1, <2>2 DEF Known
<1>13. \A k \in 1 .. Len(c) : k = 1 \/ k = 2 \/ k = 3 OBVIOUS
<1> QED BY ONLY <1>1, <1>10, <1>11, <1>12, <1>13

\* The end of the callable.
LEMMA LeaveKnown ==
  ASSUME NEW x, NEW B, NEW s, NEW own, NEW who, NEW n, NEW B1, NEW c,
         Ready(x, B, s, own, who, n), Emitted(B, n, c, 0, B1), Len(B) # 0,
         Len(x) \in Nat, Len(c) = 1, c[1] = Ret
  PROVE  Written(x, B1, s, own, who, TRUE)
<1>1. PICK l : l = Len(B[n]) OBVIOUS
<1>2. /\ B1[n][l + 1] = Ret /\ Len(B1) = Len(B) + 0 /\ Len(B) \in Nat /\ l \in Nat
      /\ n \in 1 .. Len(B)
  <2>1. 1 \in 1 .. Len(c) OBVIOUS
  <2> QED BY <1>1, <2>1 DEF Emitted
<1>3. Sizes(x, B) /\ Sizes(x, B1) /\ Later(x, B, own, who, x, B1, own, who)
  <2>1. /\ Len(x) <= Len(x) /\ \A i \in 1 .. Len(x) : x[i] = x[i] /\ who[i] = who[i]
        /\ \A b \in 1 .. Len(B) : own[b] = own[b]
    OBVIOUS
  <2> QED BY <2>1, LaterThen
<1>4. AtPlace(x, B1, own, who, n, l + 1, Len(x) + 1)
  <2>1. AtPlace(x, B, own, who, n, Len(B[n]) + 1, Len(x) + 1) BY DEF Ready, Going
  <2>2. Len(B[n]) + 1 \in 1 .. Len(B[n]) + 1 /\ Len(x) + 1 \in 1 .. Len(x) + 1 BY <1>1, <1>2
  <2>3. AtPlace(x, B1, own, who, n, Len(B[n]) + 1, Len(x) + 1)
    BY <1>2, <1>3, <2>1, <2>2, AtStays
  <2> QED BY <1>1, <2>3
<1>5. Known(x, B1, own, who, TRUE, n, l + 1) BY <1>2, <1>4 DEF Known, Leaves
<1>6. AllKnown(x, B, own, who, FALSE) /\ Coded(x, B, who) /\ OwnersKnown(x, who)
       /\ OpenKnown(x, s, who) /\ MakersKnown(x, B, s, own)
  BY DEF Ready, Written
<1>7. \A k \in 1 .. Len(c) : Known(x, B1, own, who, TRUE, n, Len(B[n]) + k)
  <2>1. \A k \in 1 .. Len(c) : k = 1 OBVIOUS
  <2> QED BY ONLY <1>1, <1>5, <2>1
<1>8. AllKnown(x, B1, own, who, TRUE)
  <2>1. NewKnown(x, B1, own, who, TRUE, n, B, c) BY <1>7 DEF NewKnown
  <2> QED BY <1>3, <1>6, <2>1, AllKnownAfter
<1>9. Coded(x, B1, who)
  <2> SUFFICES ASSUME NEW i \in 1 .. Len(x), x[i] \in Straight \cup {"if", "endfor"}
               PROVE  \E b \in 1 .. Len(B1) : \E k \in 1 .. Len(B1[b]) : B1[b][k] = CodeOf(x, who, i)
    BY DEF Coded
  <2>1. PICK b \in 1 .. Len(B) : \E k \in 1 .. Len(B[b]) : B[b][k] = CodeOf(x, who, i)
    BY <1>6 DEF Coded
  <2>2. PICK k \in 1 .. Len(B[b]) : B[b][k] = CodeOf(x, who, i) BY <2>1
  <2>3. b \in 1 .. Len(B1) BY <1>2
  <2>4. B1[b][k] = B[b][k] /\ k \in 1 .. Len(B1[b])
    <3>1. Len(B[b]) \in Nat /\ Len(B1[b]) \in Nat BY <1>3, <2>3 DEF Sizes
    <3> QED BY <1>3, <3>1 DEF Later
  <2> QED BY <2>2, <2>3, <2>4
<1>10. MakersKnown(x, B1, s, own)
  <2>1. Len(B1) = Len(B) BY <1>2
  <2> QED BY <1>6, <2>1 DEF MakersKnown
<1> QED BY <1>6, <1>8, <1>9, <1>10 DEF Written

\* No more is written: the function that has a type.
LEMMA LeaveStill ==
  ASSUME NEW x, NEW B, NEW s, NEW own, NEW who, Sizes(x, B), Written(x, B, s, own, who, FALSE)
  PROVE  Written(x, B, s, own, who, TRUE)
<1>1. Later(x, B, own, who, x, B, own, who) BY DEF Sizes, Later
<1>2. AllKnown(x, B, own, who, TRUE)
  <2>1. \A b \in 1 .. Len(B) : \A k \in 1 .. Len(B[b]) : Known(x, B, own, who, FALSE, b, k)
    BY DEF Written, AllKnown
  <2>2. \A b \in 1 .. Len(B) : \A k \in 1 .. Len(B[b]) : Known(x, B, own, who, TRUE, b, k)
    BY <1>1, <2>1, KnownStays
  <2> QED BY <2>2 DEF AllKnown
<1> QED BY <1>2 DEF Written
-----------------------------------------------------------------------------
(***************************************************************************)
(* The steps of the generator keep what is known.                          *)
(***************************************************************************)

\* One word more has the owner that the nesting gives it, the others theirs.
LEMMA OwnersGrow ==
  ASSUME NEW x \in Seq(Word), NEW w \in Word, NEW x1, x1 = Append(x, w),
         OwnersOf(x) \in [1 .. Len(x) -> Nat],
         w \in {"else"} \cup Closer => LastOf(Nesting(x)[Len(x)]) \in Nat
  PROVE  /\ Grows(x, OwnersOf(x), x1, OwnersOf(x1), w)
         /\ w \in {"else"} \cup Closer => OwnersOf(x1)[Len(x1)] = LastOf(Nesting(x)[Len(x)])
<1>1. PICK n, h : n = Len(x) /\ h = n + 1 OBVIOUS
<1>2. /\ n \in Nat /\ Len(x1) = h /\ 1 .. h = (1 .. n) \cup {h} /\ h \notin 1 .. n /\ h - 1 = n
      /\ x1[h] = w /\ \A i \in 1 .. n : x1[i] = x[i]
      /\ n \in 0 .. n /\ \A i \in 1 .. n : i - 1 \in 0 .. n
  BY <1>1
<1>3. PICK f, g : f = Nesting(x) /\ g = Nesting(x1) OBVIOUS
<1>4. \A k \in 0 .. n : g[k] = f[k]
  <2>1. NestedAlike(x, x1) BY NestingGrows
  <2> QED BY <1>1, <1>3, <2>1 DEF NestedAlike
<1>5. PICK who, who1 : who = OwnersOf(x) /\ who1 = OwnersOf(x1) OBVIOUS
<1>6. /\ who = [j \in 1 .. n |-> IF x[j] \in {"else"} \cup Closer THEN LastOf(f[j - 1]) ELSE 0]
      /\ who1 = [j \in 1 .. h |-> IF x1[j] \in {"else"} \cup Closer THEN LastOf(g[j - 1]) ELSE 0]
  BY <1>1, <1>2, <1>3, <1>5 DEF OwnersOf
<1>7. ASSUME NEW i \in 1 .. n PROVE who1[i] = who[i]
  <2>1. g[i - 1] = f[i - 1] BY <1>2, <1>4
  <2> QED BY <1>2, <1>6, <2>1
<1>8. who1[h] = IF w \in {"else"} \cup Closer THEN LastOf(f[n]) ELSE 0
  <2>1. g[h - 1] = f[n] /\ h \in 1 .. h BY <1>2, <1>4
  <2> QED BY <1>2, <1>6, <2>1
<1>9. who1 \in [1 .. h -> Nat]
  <2>1. \A i \in 1 .. n : who[i] \in Nat BY <1>1, <1>5
  <2>2. who1[h] \in Nat BY <1>1, <1>3, <1>8
  <2> QED BY <1>2, <1>6, <1>7, <2>1, <2>2
<1>10. Grows(x, who, x1, who1, w) BY ONLY <1>1, <1>2, <1>7, <1>9 DEF Grows
<1> QED BY <1>1, <1>2, <1>3, <1>5, <1>8, <1>10

\* What Emits does, in the words of the lemmas.
LEMMA EmittedHere ==
  ASSUME TypeOK, insert \in Block, NEW c \in Seq(Loose), NEW m \in Nat, Emits(c, m),
         \A k \in 1 .. Len(c) : c[k].to \subseteq 1 .. Len(blocks) + m
  PROVE  Emitted(blocks, insert, c, m, blocks') /\ Len(blocks) \in Nat \ {0} /\ Len(c) \in Nat
<1>1. /\ (blocks \in Seq(Seq(Instruction)))'
      /\ Len(blocks') = Len(blocks) + m
      /\ blocks'[insert] = blocks[insert] \o c
      /\ \A b \in Block : b # insert => blocks'[b] = blocks[b]
      /\ \A b \in Len(blocks) + 1 .. Len(blocks) + m : blocks'[b] = << >>
  BY EmitsTyped
<1>2. blocks \in Seq(Seq(Instruction)) BY DEF TypeOK
<1>3. Len(blocks) \in Nat \ {0} BY <1>2 DEF Block
<1>4. \A b \in 1 .. Len(blocks) : blocks[b] \in Seq(Instruction) BY <1>2
<1>5. \A b \in 1 .. Len(blocks) : Len(blocks[b]) \in Nat BY ONLY <1>4
<1>6. blocks[insert] \in Seq(Loose)
  <2>1. Instruction \subseteq Loose BY <1>3 DEF Instruction, Loose, Block
  <2>2. blocks[insert] \in Seq(Instruction) BY <1>4 DEF Block
  <2> QED BY ONLY <2>1, <2>2
<1>7. PICK l, r : l = Len(blocks[insert]) /\ r = Len(c) OBVIOUS
<1>8. l \in Nat /\ r \in Nat BY <1>6, <1>7
<1>9. /\ Len(blocks'[insert]) = l + r
      /\ \A k \in 1 .. l : blocks'[insert][k] = blocks[insert][k]
      /\ \A k \in l + 1 .. l + r : blocks'[insert][k] = c[k - l]
  BY ONLY <1>1, <1>6, <1>7, c \in Seq(Loose), Concatenation
<1>10. ASSUME NEW k \in 1 .. r PROVE blocks'[insert][l + k] = c[k]
  <2>1. PICK i : i = l + k OBVIOUS
  <2>2. i \in l + 1 .. l + r /\ i - l = k BY <1>8, <2>1
  <2>3. blocks'[insert][i] = c[k] BY <1>9, <2>2
  <2> QED BY <2>1, <2>3
<1>11. \A k \in 1 .. r : blocks'[insert][l + k] = c[k] BY <1>10
<1>12. insert \in 1 .. Len(blocks) BY DEF Block
<1>13. \A b \in 1 .. Len(blocks) : b # insert => blocks'[b] = blocks[b] BY <1>1 DEF Block
<1>14. Emitted(blocks, insert, c, m, blocks')
  BY ONLY <1>1, <1>3, <1>5, <1>7, <1>8, <1>9, <1>11, <1>12, <1>13, m \in Nat DEF Emitted
<1> QED BY <1>3, <1>7, <1>8, <1>14

\* The places of the statements that are open.
Placeable(s) == Len(s) \in Nat /\ \A m \in 1 .. Len(s) : s[m].at \in Nat

\* The places of what is open are as many as the statements.
LEMMA OpenPlaces ==
  ASSUME NEW s, Placeable(s)
  PROVE  /\ OpenOf(s) \in Seq(Nat) /\ Len(OpenOf(s)) = Len(s)
         /\ \A m \in 1 .. Len(s) : OpenOf(s)[m] = s[m].at
<1>1. PICK t, o : t = Len(s) /\ o = OpenOf(s) OBVIOUS
<1>2. o = [m \in 1 .. t |-> s[m].at] /\ t \in Nat /\ \A m \in 1 .. t : s[m].at \in Nat
  BY <1>1 DEF OpenOf, Placeable
<1>3. o \in [1 .. t -> Nat] BY ONLY <1>2
<1>4. o \in Seq(Nat) /\ Len(o) = t BY ONLY <1>2, <1>3
<1>5. \A m \in 1 .. t : o[m] = s[m].at BY ONLY <1>2
<1> QED BY ONLY <1>1, <1>4, <1>5

\* A statement that goes on keeps its place.
LEMMA OpenSame ==
  ASSUME NEW s, NEW s1, Len(s1) = Len(s), \A m \in 1 .. Len(s) : s1[m].at = s[m].at
  PROVE  OpenOf(s1) = OpenOf(s)
BY DEF OpenOf

\* One statement more is open.
LEMMA OpenMore ==
  ASSUME NEW s, NEW s1, Placeable(s), Len(s1) = Len(s) + 1,
         \A m \in 1 .. Len(s) : s1[m] = s[m], s1[Len(s1)].at \in Nat
  PROVE  OpenOf(s1) = Append(OpenOf(s), s1[Len(s1)].at)
<1>1. PICK t, u, o, p, a : t = Len(s) /\ u = t + 1 /\ o = OpenOf(s) /\ p = OpenOf(s1) /\ a = s1[u].at
  OBVIOUS
<1>2. t \in Nat /\ Len(s1) = u /\ a \in Nat /\ 1 .. u = (1 .. t) \cup {u} /\ u \notin 1 .. t
  BY <1>1 DEF Placeable
<1>3. o \in Seq(Nat) /\ Len(o) = t /\ \A m \in 1 .. t : o[m] = s[m].at BY <1>1, OpenPlaces
<1>4. p = [m \in 1 .. u |-> s1[m].at] BY <1>1, <1>2 DEF OpenOf
<1>5. \A m \in 1 .. t : s1[m].at = o[m]
  <2>1. \A m \in 1 .. t : s1[m] = s[m] BY <1>1
  <2> QED BY <1>3, <2>1
<1>6. PICK q : q = Append(o, a) OBVIOUS
<1>7. q \in Seq(Nat) /\ Len(q) = u /\ q[u] = a /\ \A m \in 1 .. t : q[m] = o[m]
  BY ONLY <1>1, <1>2, <1>3, <1>6
<1>8. q = [m \in 1 .. u |-> q[m]] BY ONLY <1>7
<1>9. \A m \in 1 .. u : q[m] = s1[m].at BY ONLY <1>1, <1>2, <1>5, <1>7
<1>10. p = q BY ONLY <1>4, <1>8, <1>9
<1> QED BY ONLY <1>1, <1>2, <1>6, <1>10

\* One statement less is open.
LEMMA OpenLess ==
  ASSUME NEW s, NEW s1, Placeable(s), Len(s) # 0, Len(s1) = Len(s) - 1,
         \A m \in 1 .. Len(s) - 1 : s1[m] = s[m]
  PROVE  OpenOf(s1) = Front(OpenOf(s))
<1>1. PICK t, v, o, p : t = Len(s) /\ v = t - 1 /\ o = OpenOf(s) /\ p = OpenOf(s1) OBVIOUS
<1>2. t \in Nat \ {0} /\ Len(s1) = v /\ v \in Nat /\ \A m \in 1 .. v : m \in 1 .. t
  BY <1>1 DEF Placeable
<1>3. o \in Seq(Nat) /\ Len(o) = t /\ \A m \in 1 .. t : o[m] = s[m].at BY <1>1, OpenPlaces
<1>4. p = [m \in 1 .. v |-> s1[m].at] BY <1>1, <1>2 DEF OpenOf
<1>5. \A m \in 1 .. v : s1[m].at = o[m]
  <2>1. \A m \in 1 .. v : s1[m] = s[m] BY <1>1
  <2> QED BY <1>2, <1>3, <2>1
<1>6. PICK q : q = Front(o) OBVIOUS
<1>7. q \in Seq(Nat) /\ Len(q) = v /\ \A m \in 1 .. v : q[m] = o[m]
  <2>1. o # << >> BY ONLY <1>2, <1>3
  <2> QED BY ONLY <1>1, <1>3, <1>6, <2>1, FrontFacts, SMTT(30)
<1>8. q = [m \in 1 .. v |-> q[m]] BY ONLY <1>7
<1>9. p = q BY ONLY <1>4, <1>5, <1>7, <1>8
<1> QED BY ONLY <1>1, <1>6, <1>9

\* What is open behind the next word.
LEMMA NestingNext ==
  ASSUME TypeOK, NEW w \in Word, text' = Append(text, w), Nesting(text)[Len(text)] = Open,
         Open' = IF w \in Opener THEN Append(Open, Len(text'))
                 ELSE IF w \in Closer THEN Front(Open) ELSE Open
  PROVE  (Nesting(text)[Len(text)] = Open)'
<1>1. text \in Seq(Word) BY DEF TypeOK
<1>2. PICK x, x1 : x = text /\ x1 = text' OBVIOUS
<1>3. Nesting(x1)[Len(x1)] =
              IF w \in Opener THEN Append(Nesting(x)[Len(x)], Len(x1))
              ELSE IF w \in Closer THEN Front(Nesting(x)[Len(x)]) ELSE Nesting(x)[Len(x)]
  <2>1. NestedOn(x, w, x1) BY <1>1, <1>2, NestingGrows
  <2> QED BY <2>1 DEF NestedOn
<1>4. Nesting(text')[Len(text')] = Open' BY <1>2, <1>3
<1> QED BY <1>4

\* While it goes on well, nothing has returned before a word.
LEMMA WordBefore ==
  ASSUME FInv, Meets, phase = "body", NEW w \in Word, text' = Append(text, w), Sound'
  PROVE  NeverReturns /\ \E own : Ready(text, blocks, open, own, Owners, insert)
<1>1. text \in Seq(Word) /\ Ends BY DEF FInv, TypeOK
<1>2. NeverReturns
  <2>1. text' \in Seq(Word) BY <1>1, TextGrows
  <2>2. ~NeverReturns => (\E i \in 1 .. Len(text) - 1 : text[i] = "return")'
    BY <1>1, TextGrows DEF Ends
  <2>3. (\E i \in 1 .. Len(text) - 1 : text[i] = "return")' => ~NeverReturns' /\ ~ReturnsLast'
    BY <2>1 DEF NeverReturns, ReturnsLast, LastOf
  <2>4. NeverReturns' \/ ReturnsLast' BY DEF Sound
  <2> QED BY <2>2, <2>3, <2>4
<1>3. Sound BY <1>2 DEF Sound
<1>4. PICK x, B, s, own, who, n, over :
         /\ x = text /\ B = blocks /\ s = open /\ who = Owners /\ n = insert
         /\ over = (phase = "done")
         /\ Written(x, B, s, own, who, over)
         /\ phase = "body" /\ NeverReturns => Going(x, B, own, who, n)
  BY <1>3 DEF Meets
<1>5. over = FALSE BY <1>4
<1>6. Ready(x, B, s, own, who, n) BY <1>2, <1>4, <1>5 DEF Ready
<1> QED BY <1>2, <1>4, <1>6

\* What has to be shown of a word that is read, for Meets to hold behind it.
LEMMA WordAfter ==
  ASSUME phase' = "body", (Nesting(text)[Len(text)] = Open)',
         NEW x1, NEW B1, NEW s1, NEW who1, NEW n1,
         x1 = text', B1 = blocks', s1 = open', who1 = OwnersOf(text'), n1 = insert',
         Sound' => \E own1 : /\ Written(x1, B1, s1, own1, who1, FALSE)
                             /\ NeverReturns' => Going(x1, B1, own1, who1, n1)
  PROVE  Meets'
<1>1. ASSUME Sound'
      PROVE  \E x, B, s, own, who, n, over :
               /\ x = text' /\ B = blocks' /\ s = open' /\ who = Owners' /\ n = insert'
               /\ over = (phase' = "done")
               /\ Written(x, B, s, own, who, over)
               /\ phase' = "body" /\ NeverReturns' => Going(x, B, own, who, n)
  <2>1. PICK own1 : /\ Written(x1, B1, s1, own1, who1, FALSE)
                    /\ NeverReturns' => Going(x1, B1, own1, who1, n1)
    BY <1>1
  <2>2. who1 = Owners' BY DEF Owners
  <2>3. FALSE = (phase' = "done") OBVIOUS
  <2>4. /\ x1 = text' /\ B1 = blocks' /\ s1 = open' /\ who1 = Owners' /\ n1 = insert'
        /\ FALSE = (phase' = "done")
        /\ Written(x1, B1, s1, own1, who1, FALSE)
        /\ phase' = "body" /\ NeverReturns' => Going(x1, B1, own1, who1, n1)
    BY <2>1, <2>2, <2>3
  <2> QED BY ONLY <2>4
<1> QED BY <1>1 DEF Meets

\* What is open stands in the text and has its blocks.
LEMMA OpenHere ==
  ASSUME TypeOK
  PROVE  /\ Placeable(open)
         /\ open # << >> => /\ Len(open) \in Nat \ {0} /\ Top = open[Len(open)]
                            /\ LastOf(Open) = Top.at /\ Top.at \in Nat
         /\ \A k \in 1 .. Len(open) :
              open[k].last \in 1 .. Len(blocks) /\ open[k].first \in 1 .. Len(blocks)
<1>1. open \in Seq(Statement) /\ text \in Seq(Word) BY DEF TypeOK
<1>2. \A m \in 1 .. Len(open) : open[m] \in Statement BY <1>1
<1>3. Len(text) \in Nat /\ Len(open) \in Nat BY <1>1
<1>4. \A r \in Statement : r.at \in Nat /\ r.last \in 1 .. Len(blocks) /\ r.first \in 1 .. Len(blocks)
  BY <1>3 DEF Statement, Block
<1>5. Placeable(open) BY <1>2, <1>3, <1>4 DEF Placeable
<1>6. ASSUME open # << >>
      PROVE  /\ Len(open) \in Nat \ {0} /\ Top = open[Len(open)]
             /\ LastOf(Open) = Top.at /\ Top.at \in Nat
  <2>1. Len(open) \in Nat \ {0} /\ Top = open[Len(open)] /\ Top.at \in Nat BY <1>6, TopFacts
  <2>2. Len(open) \in 1 .. Len(open) BY <2>1
  <2>3. Len(OpenOf(open)) = Len(open) /\ OpenOf(open)[Len(open)] = open[Len(open)].at
    BY <1>5, <2>2, OpenPlaces
  <2>4. LastOf(Open) = Top.at BY <2>1, <2>3 DEF LastOf, Open
  <2> QED BY <2>1, <2>4
<1> QED BY <1>2, <1>4, <1>5, <1>6

\* The text grows by a word, whose owner is what is open.
LEMMA GrowsHere ==
  ASSUME TypeOK, NEW own, Ready(text, blocks, open, own, Owners, insert),
         Nesting(text)[Len(text)] = Open, NEW w \in Word, text' = Append(text, w),
         w \in {"else"} \cup Closer => open # << >>
  PROVE  /\ Grows(text, Owners, text', OwnersOf(text'), w)
         /\ w \in {"else"} \cup Closer => OwnersOf(text')[Len(text')] = Top.at
<1>1. text \in Seq(Word) BY DEF TypeOK
<1>2. Owners \in [1 .. Len(text) -> Nat] BY DEF Ready, Written, OwnersKnown
<1>3. w \in {"else"} \cup Closer => LastOf(Open) = Top.at /\ Top.at \in Nat BY OpenHere
<1>4. PICK x, x1, o : x = text /\ x1 = text' /\ o = Nesting(x)[Len(x)] OBVIOUS
<1>5. x \in Seq(Word) /\ x1 = Append(x, w) BY <1>1, <1>4
<1>6. OwnersOf(x) \in [1 .. Len(x) -> Nat] BY <1>2, <1>4 DEF Owners
<1>7. w \in {"else"} \cup Closer => LastOf(Nesting(x)[Len(x)]) \in Nat BY <1>3, <1>4
<1>8. /\ Grows(x, OwnersOf(x), x1, OwnersOf(x1), w)
      /\ w \in {"else"} \cup Closer => OwnersOf(x1)[Len(x1)] = LastOf(Nesting(x)[Len(x)])
  BY <1>5, <1>6, <1>7, OwnersGrow
<1> QED BY <1>3, <1>4, <1>8 DEF Owners

\* An assignment, an expression, the declaration of a variable.
LEMMA StraightMeets ==
  ASSUME FInv, Meets, phase = "body", NEW w \in {"do", "var"}, text' = Append(text, w),
         Emits(<<Code(Here, "run")>>, 0),
         UNCHANGED <<typed, isVoid, open, insert, from, phase>>
  PROVE  Meets'
<1>1. TypeOK /\ insert \in Block /\ Nesting(text)[Len(text)] = Open BY DEF FInv, Shape, Meets
<1>2. w \in Word /\ w \in Straight /\ w # "return" BY DEF Word, Straight
<1>3. w \notin Opener /\ w \notin Closer /\ w \notin {"else"} \cup Closer BY <1>2, Words
<1>4. (Nesting(text)[Len(text)] = Open)'
  <2>1. Open' = Open BY DEF Open
  <2> QED BY <1>1, <1>2, <1>3, <2>1, NestingNext
<1>5. PICK c : c = <<Code(Here, "run")>> OBVIOUS
<1>6. /\ Code(Here, "run") \in Loose /\ Code(Here, "run").to = {}
      /\ Here = Len(text) + 1 /\ Len(text) \in Nat
  BY <1>1, CodeTypes DEF Part
<1>7. c \in Seq(Loose) /\ Len(c) = 1 /\ c[1] = Code(Here, "run") BY <1>5, <1>6
<1>8. \A k \in 1 .. Len(c) : c[k].to \subseteq 1 .. Len(blocks) + 0 BY <1>6, <1>7
<1>9. Emitted(blocks, insert, c, 0, blocks') /\ Len(blocks) # 0
  BY <1>1, <1>5, <1>7, <1>8, EmittedHere
<1>10. text' \in Seq(Word) /\ Len(text') = Here BY <1>1, <1>2, <1>6, TextGrows DEF TypeOK
<1>11. ASSUME Sound'
       PROVE  \E own1 : /\ Written(text', blocks', open', own1, OwnersOf(text'), FALSE)
                        /\ NeverReturns' => Going(text', blocks', own1, OwnersOf(text'), insert')
  <2>1. PICK own : Ready(text, blocks, open, own, Owners, insert)
    BY <1>2, <1>11, WordBefore
  <2>2. Grows(text, Owners, text', OwnersOf(text'), w) BY <1>1, <1>2, <1>3, <2>1, GrowsHere
  <2>3. c[1] = Code(Len(text'), "run") BY <1>7, <1>10
  <2>4. /\ Written(text', blocks', open, own, OwnersOf(text'), FALSE)
        /\ w # "return" => Going(text', blocks', own, OwnersOf(text'), insert)
    BY ONLY <1>2, <1>7, <1>9, <2>1, <2>2, <2>3, StraightComes
  <2> QED BY <1>2, <2>4
<1> QED BY <1>4, <1>11, WordAfter

\* A return, which is the last statement or makes the body one that cannot verify.
LEMMA VisitReturnMeets == FInv /\ Meets /\ VisitReturn => Meets'
<1> SUFFICES ASSUME FInv, Meets, VisitReturn PROVE Meets' OBVIOUS
<1>1. /\ phase = "body" /\ text' = Append(text, "return") /\ open' = open /\ insert' = insert
      /\ isVoid' = isVoid /\ TypeOK /\ insert \in Block /\ Nesting(text)[Len(text)] = Open
  BY DEF FInv, Shape, Meets, VisitReturn, InBody, Reads
<1>2. "return" \in Word /\ "return" \in Straight BY DEF Word, Straight
<1>3. "return" \notin Opener /\ "return" \notin Closer /\ "return" \notin {"else"} \cup Closer
  BY <1>2, Words
<1>4. (Nesting(text)[Len(text)] = Open)'
  <2>1. Open' = Open BY <1>1 DEF Open
  <2> QED BY <1>1, <1>2, <1>3, <2>1, NestingNext
<1>5. CASE ~typed
  <2>1. phase' = "crashed" BY <1>5 DEF VisitReturn
  <2> QED BY <1>4, <2>1 DEF Meets
<1>6. CASE typed
  <2>1. phase' = "body" /\ Emits(<<Code(Here, "run"), Ret>>, 0) BY <1>1, <1>6 DEF VisitReturn
  <2>2. PICK c : c = <<Code(Here, "run"), Ret>> OBVIOUS
  <2>3. /\ Code(Here, "run") \in Loose /\ Code(Here, "run").to = {}
        /\ Ret \in Loose /\ Ret.to = {} /\ Here = Len(text) + 1 /\ Len(text) \in Nat
    BY <1>1, CodeTypes DEF Part
  <2>4. c \in Seq(Loose) /\ Len(c) = 2 /\ c[1] = Code(Here, "run") /\ c[2] = Ret BY <2>2, <2>3
  <2>5. \A k \in 1 .. Len(c) : c[k].to \subseteq 1 .. Len(blocks) + 0
    <3>1. \A k \in 1 .. Len(c) : k = 1 \/ k = 2 BY <2>4
    <3> QED BY <2>3, <2>4, <3>1
  <2>6. Emitted(blocks, insert, c, 0, blocks') /\ Len(blocks) # 0
    BY <1>1, <2>1, <2>2, <2>4, <2>5, EmittedHere
  <2>7. text' \in Seq(Word) /\ Len(text') = Here BY <1>1, <1>2, <2>3, TextGrows DEF TypeOK
  <2>8. ASSUME Sound'
        PROVE  \E own1 : /\ Written(text', blocks', open', own1, OwnersOf(text'), FALSE)
                         /\ NeverReturns' => Going(text', blocks', own1, OwnersOf(text'), insert')
    <3>1. PICK own : Ready(text, blocks, open, own, Owners, insert)
      BY <1>1, <1>2, <2>8, WordBefore
    <3>2. Grows(text, Owners, text', OwnersOf(text'), "return")
      BY <1>1, <1>2, <1>3, <3>1, GrowsHere
    <3>3. c[1] = Code(Len(text'), "run") BY <2>4, <2>7
    <3>4. Written(text', blocks', open, own, OwnersOf(text'), FALSE)
      BY ONLY <1>2, <2>4, <2>6, <3>1, <3>2, <3>3, StraightComes
    <3>5. ~NeverReturns'
      <4>1. Len(text') \in 1 .. Len(text') /\ text'[Len(text')] = "return" BY <1>1, <2>3, <2>7
      <4> QED BY <4>1 DEF NeverReturns
    <3> QED BY <1>1, <3>4, <3>5
  <2> QED BY <1>4, <2>1, <2>8, WordAfter
<1> QED BY <1>1, <1>5, <1>6 DEF TypeOK

\* The start of an if.
LEMMA VisitIfMeets == FInv /\ Meets /\ VisitIf => Meets'
<1> SUFFICES ASSUME FInv, Meets, VisitIf PROVE Meets' OBVIOUS
<1>0. phase = "body" BY DEF VisitIf, InBody
<1>1. TypeOK /\ insert \in Block /\ Nesting(text)[Len(text)] = Open BY <1>0 DEF FInv, Shape, Meets
<1>2. PICK n, d, e, f, c, r : /\ n = Len(blocks) /\ d = n + 1 /\ e = n + 2 /\ f = n + 3
        /\ c = <<Code(Here, "test"), Branch({d, e})>>
        /\ r = [word |-> "if", at |-> Here, first |-> e, last |-> f]
  OBVIOUS
<1>3. /\ text' = Append(text, "if") /\ Emits(c, 3) /\ insert' = d /\ open' = Append(open, r)
      /\ phase' = "body"
  BY <1>0, <1>2 DEF VisitIf, Reads
<1>4. "if" \in Word /\ "if" \in Opener /\ "if" \notin {"else"} \cup Closer BY Words DEF Word
<1>5. /\ Code(Here, "test") \in Loose /\ Code(Here, "test").to = {}
      /\ Here = Len(text) + 1 /\ Len(text) \in Nat /\ n \in Nat
  BY <1>1, <1>2, CodeTypes DEF Part
<1>6. Branch({d, e}) \in Loose /\ Branch({d, e}).to = {d, e} /\ {d, e} \subseteq 1 .. n + 3
  <2>1. {d, e} \in SUBSET Nat /\ {d, e} \subseteq 1 .. n + 3 BY <1>2, <1>5
  <2> QED BY <1>1, <2>1, CodeTypes
<1>7. c \in Seq(Loose) /\ Len(c) = 2 /\ c[1] = Code(Here, "test") /\ c[2] = Branch({d, e})
  BY <1>2, <1>5, <1>6
<1>8. \A k \in 1 .. Len(c) : c[k].to \subseteq 1 .. Len(blocks) + 3
  <2>1. \A k \in 1 .. Len(c) : k = 1 \/ k = 2 BY <1>7
  <2>2. c[1].to \subseteq 1 .. Len(blocks) + 3 BY <1>5, <1>7
  <2>3. c[2].to \subseteq 1 .. Len(blocks) + 3 BY <1>2, <1>6, <1>7
  <2> QED BY ONLY <2>1, <2>2, <2>3
<1>9. Emitted(blocks, insert, c, 3, blocks') /\ Len(blocks) # 0
  BY <1>1, <1>3, <1>7, <1>8, EmittedHere
<1>10. text' \in Seq(Word) /\ Len(text') = Here BY <1>1, <1>3, <1>4, <1>5, TextGrows DEF TypeOK
<1>11. /\ Len(open) \in Nat /\ Len(open') = Len(open) + 1 /\ open'[Len(open')] = r
       /\ \A k \in 1 .. Len(open) : open'[k] = open[k]
  <2>1. open \in Seq(Statement) BY <1>1 DEF TypeOK
  <2> QED BY <1>3, <2>1
<1>12. (Nesting(text)[Len(text)] = Open)'
  <2>1. Placeable(open) BY <1>1, OpenHere
  <2>2. open'[Len(open')].at = Here /\ Here \in Nat BY <1>2, <1>5, <1>11
  <2>3. OpenOf(open') = Append(OpenOf(open), Here) BY <1>11, <2>1, <2>2, OpenMore
  <2>4. Open' = Append(Open, Len(text')) BY <1>10, <2>3 DEF Open
  <2> QED BY <1>1, <1>3, <1>4, <2>4, NestingNext
<1>13. ASSUME Sound'
       PROVE  \E own1 : /\ Written(text', blocks', open', own1, OwnersOf(text'), FALSE)
                        /\ NeverReturns' => Going(text', blocks', own1, OwnersOf(text'), insert')
  <2>1. PICK own : Ready(text, blocks, open, own, Owners, insert)
    BY <1>0, <1>3, <1>4, <1>13, WordBefore
  <2>2. Grows(text, Owners, text', OwnersOf(text'), "if") BY <1>1, <1>3, <1>4, <2>1, GrowsHere
  <2>3. c[1] = Code(Len(text'), "test") BY <1>7, <1>10
  <2>4. open'[Len(open')] = [word |-> "if", at |-> Len(text'), first |-> e, last |-> f]
    BY <1>2, <1>10, <1>11
  <2>5. \A k \in 1 .. Len(open) : open'[k] = open[k] /\ open[k].last \in 1 .. Len(blocks)
                                    /\ open[k].first \in 1 .. Len(blocks)
    BY <1>1, <1>11, OpenHere
  <2>6. \E own1 : Ready(text', blocks', open', own1, OwnersOf(text'), d)
    <3>1. IfOpens(blocks, open, c, Len(text'), d, e, f, open')
      BY ONLY <1>2, <1>7, <1>11, <2>3, <2>4, <2>5 DEF IfOpens
    <3> QED BY ONLY <1>9, <2>1, <2>2, <3>1, IfComes
  <2> QED BY <1>3, <2>6 DEF Ready
<1> QED BY <1>3, <1>12, <1>13, WordAfter

\* The start of a for.
LEMMA VisitForMeets == FInv /\ Meets /\ VisitFor => Meets'
<1> SUFFICES ASSUME FInv, Meets, VisitFor PROVE Meets' OBVIOUS
<1>0. phase = "body" BY DEF VisitFor, InBody
<1>1. TypeOK /\ insert \in Block /\ Nesting(text)[Len(text)] = Open BY <1>0 DEF FInv, Shape, Meets
<1>2. PICK n, d, f, c, r : /\ n = Len(blocks) /\ d = n + 1 /\ f = d + 1
        /\ c = <<Branch({d})>>
        /\ r = [word |-> "for", at |-> Here, first |-> d, last |-> f]
  OBVIOUS
<1>3. /\ text' = Append(text, "for") /\ Emits(c, 2) /\ insert' = d /\ open' = Append(open, r)
      /\ phase' = "body"
  BY <1>0, <1>2 DEF VisitFor, Reads
<1>4. "for" \in Word /\ "for" \in Opener /\ "for" \notin {"else"} \cup Closer BY Words DEF Word
<1>5. Here = Len(text) + 1 /\ Len(text) \in Nat /\ n \in Nat BY <1>1, <1>2, CodeTypes
<1>6. Branch({d}) \in Loose /\ Branch({d}).to = {d} /\ {d} \subseteq 1 .. n + 2
  <2>1. {d} \in SUBSET Nat /\ {d} \subseteq 1 .. n + 2 BY <1>2, <1>5
  <2> QED BY <1>1, <2>1, CodeTypes
<1>7. c \in Seq(Loose) /\ Len(c) = 1 /\ c[1] = Branch({d}) BY <1>2, <1>6
<1>8. \A k \in 1 .. Len(c) : c[k].to \subseteq 1 .. Len(blocks) + 2
  <2>1. \A k \in 1 .. Len(c) : k = 1 BY <1>7
  <2> QED BY ONLY <1>2, <1>6, <1>7, <2>1
<1>9. Emitted(blocks, insert, c, 2, blocks') /\ Len(blocks) # 0
  BY <1>1, <1>3, <1>7, <1>8, EmittedHere
<1>10. text' \in Seq(Word) /\ Len(text') = Here BY <1>1, <1>3, <1>4, <1>5, TextGrows DEF TypeOK
<1>11. /\ Len(open) \in Nat /\ Len(open') = Len(open) + 1 /\ open'[Len(open')] = r
       /\ \A k \in 1 .. Len(open) : open'[k] = open[k]
  <2>1. open \in Seq(Statement) BY <1>1 DEF TypeOK
  <2> QED BY <1>3, <2>1
<1>12. (Nesting(text)[Len(text)] = Open)'
  <2>1. Placeable(open) BY <1>1, OpenHere
  <2>2. open'[Len(open')].at = Here /\ Here \in Nat BY <1>2, <1>5, <1>11
  <2>3. OpenOf(open') = Append(OpenOf(open), Here) BY <1>11, <2>1, <2>2, OpenMore
  <2>4. Open' = Append(Open, Len(text')) BY <1>10, <2>3 DEF Open
  <2> QED BY <1>1, <1>3, <1>4, <2>4, NestingNext
<1>13. ASSUME Sound'
       PROVE  \E own1 : /\ Written(text', blocks', open', own1, OwnersOf(text'), FALSE)
                        /\ NeverReturns' => Going(text', blocks', own1, OwnersOf(text'), insert')
  <2>1. PICK own : Ready(text, blocks, open, own, Owners, insert)
    BY <1>0, <1>3, <1>4, <1>13, WordBefore
  <2>2. Grows(text, Owners, text', OwnersOf(text'), "for") BY <1>1, <1>3, <1>4, <2>1, GrowsHere
  <2>3. open'[Len(open')] = [word |-> "for", at |-> Len(text'), first |-> d, last |-> f]
    BY <1>2, <1>10, <1>11
  <2>4. \A k \in 1 .. Len(open) : open'[k] = open[k] /\ open[k].last \in 1 .. Len(blocks)
                                    /\ open[k].first \in 1 .. Len(blocks)
    BY <1>1, <1>11, OpenHere
  <2>5. d = Len(blocks) + 1 /\ f = Len(blocks) + 2 BY <1>2, <1>5
  <2>6. \E own1 : Ready(text', blocks', open', own1, OwnersOf(text'), d)
    <3>1. ForOpens(blocks, open, c, Len(text'), d, f, open')
      BY ONLY <1>7, <1>11, <2>3, <2>4, <2>5 DEF ForOpens
    <3> QED BY ONLY <1>9, <2>1, <2>2, <3>1, ForComes
  <2> QED BY <1>3, <2>6 DEF Ready
<1> QED BY <1>3, <1>12, <1>13, WordAfter

\* What is open behind an else or an end.
LEMMA PartOpen ==
  ASSUME NEW x, NEW s, NEW who, NEW x1, NEW s1, NEW who1, NEW w \in {"else"} \cup Closer,
         Grows(x, who, x1, who1, w), OwnersKnown(x, who), OpenKnown(x, s, who),
         Len(s) \in Nat \ {0}, who1[Len(x1)] = s[Len(s)].at, WordFor(w, s[Len(s)]),
         OpenAfter(w, s, s1)
  PROVE  OpenKnown(x1, s1, who1) /\ Within(s, s1)
<1>1. PICK t : t = Len(s) OBVIOUS
<1>2. t \in Nat \ {0} /\ t \in 1 .. t /\ 1 .. t = (1 .. t - 1) \cup {t} /\ t \notin 1 .. t - 1
  BY <1>1
<1>3. \A m \in 1 .. t - 1 : s1[m] = s[m] /\ m \in 1 .. t BY <1>1, <1>2 DEF OpenAfter
<1>4. CASE w = "else"
  <2>1. /\ Len(s1) = t /\ s1[t].word = "else" /\ s1[t].at = s[t].at /\ s1[t].last = s[t].last
        /\ s[t].word = "if"
    BY <1>1, <1>4 DEF OpenAfter, WordFor
  <2>2. \A m \in 1 .. t : s1[m].at = s[m].at BY ONLY <1>2, <1>3, <2>1
  <2>3. \A m \in 1 .. t - 1 : s1[m].word = s[m].word BY ONLY <1>3
  <2>4. OpenKnown(x1, s1, who1) BY <1>1, <1>2, <1>4, <2>1, <2>2, <2>3, ElseWord
  <2>5. ASSUME NEW m \in 1 .. t
        PROVE  \E k \in 1 .. t :
                 /\ s1[m].at = s[k].at /\ s1[m].last = s[k].last
                 /\ s1[m].word \in {"if", "for"} => s1[m].word = s[k].word /\ s1[m].first = s[k].first
    <3>1. CASE m = t BY ONLY <1>2, <2>1, <3>1
    <3>2. CASE m # t BY ONLY <1>2, <1>3, <3>2, m \in 1 .. t
    <3> QED BY <3>1, <3>2
  <2> QED BY <1>1, <2>1, <2>4, <2>5 DEF Within
<1>5. CASE w # "else"
  <2>1. /\ Len(s1) = t - 1 /\ s[t].word # "if" /\ w \in Closer
    BY <1>1, <1>5 DEF OpenAfter, WordFor
  <2>2. OpenKnown(x1, s1, who1)
    <3>1. Len(s1) = Len(s) - 1 /\ s[Len(s)].word # "if" /\ \A m \in 1 .. Len(s) - 1 : s1[m] = s[m]
      BY ONLY <1>1, <1>3, <2>1
    <3> QED BY <2>1, <3>1, CloserWord
  <2>3. \A m \in 1 .. t - 1 : \E k \in 1 .. t :
          /\ s1[m].at = s[k].at /\ s1[m].last = s[k].last
          /\ s1[m].word \in {"if", "for"} => s1[m].word = s[k].word /\ s1[m].first = s[k].first
    BY ONLY <1>3
  <2> QED BY <1>1, <2>1, <2>2, <2>3 DEF Within
<1> QED BY <1>4, <1>5

\* The code of an else or an end, and the block that is gone on with.
LEMMA PartReady ==
  ASSUME NEW x, NEW B, NEW s, NEW own, NEW who, NEW n, NEW x1, NEW B1, NEW s1, NEW who1, NEW c,
         NEW w \in {"else"} \cup Closer, NEW d, NEW r, r = s[Len(s)],
         Ready(x, B, s, own, who, n), Grows(x, who, x1, who1, w),
         Emitted(B, n, c, 0, B1), Len(B) # 0, Len(s) \in Nat \ {0},
         who1[Len(x1)] = r.at, WordFor(w, r), PartCode(c, w, r), OpenAfter(w, s, s1),
         r.first \in 1 .. Len(B), r.last \in 1 .. Len(B),
         d = IF w = "else" THEN r.first ELSE r.last, B1[d] = << >>
  PROVE  Ready(x1, B1, s1, own, who1, d)
<1>1. OwnersKnown(x, who) /\ OpenKnown(x, s, who) /\ MakersKnown(x, B, s, own)
  BY DEF Ready, Written
<1>2. OpenKnown(x1, s1, who1) /\ Within(s, s1)
  <2>1. r.at = s[Len(s)].at /\ WordFor(w, s[Len(s)]) OBVIOUS
  <2> QED BY <1>1, <2>1, PartOpen
<1>3. /\ own[r.last] = Made(r.at, "end")
      /\ r.word = "if" => own[r.first] = Made(r.at, "else")
  <2>1. Len(s) \in 1 .. Len(s) OBVIOUS
  <2> QED BY <1>1, <2>1 DEF MakersKnown
<1>4. own[d] = Made(r.at, IF w = "else" THEN "else" ELSE "end") BY <1>3 DEF WordFor
<1>5. w = "else" \/ w = "endif" \/ w = "endfor" BY DEF Closer
<1>6. r.word = IF w = "else" THEN "if" ELSE IF w = "endif" THEN "else" ELSE "for" BY DEF WordFor
<1>7. \A k \in 1 .. Len(c) : Known(x1, B1, own, who1, FALSE, n, Len(B[n]) + k)
  <2>1. CASE w = "endfor"
    <3>1. r.word = "for" BY <1>6, <2>1
    <3>2. /\ Len(c) = 3 /\ c[1] = Code(r.at, "step") /\ c[2] = Code(r.at, "test")
          /\ c[3] = Branch({r.first, r.last})
      BY <2>1 DEF PartCode
    <3> QED BY <2>1, <3>1, <3>2, RoundKnown
  <2>2. CASE w # "endfor"
    <3>1. Len(c) = 1 /\ c[1] = Branch({r.last}) BY <2>2 DEF PartCode
    <3>2. w \in {"else", "endif"} BY <1>5, <2>2
    <3> QED BY <3>1, <3>2, JoinKnown
  <2> QED BY <2>1, <2>2
<1>8. w = "endfor" => Len(c) # 0 /\ c[1] = Code(r.at, "step")
  <2>1. ASSUME w = "endfor" PROVE Len(c) # 0 /\ c[1] = Code(r.at, "step")
    <3>1. Len(c) = 3 /\ c[1] = Code(r.at, "step") BY <2>1 DEF PartCode
    <3>2. PICK z : z = Len(c) OBVIOUS
    <3>3. z = 3 BY ONLY <3>1, <3>2
    <3>4. z # 0 BY ONLY <3>3
    <3> QED BY ONLY <3>1, <3>2, <3>4
  <2> QED BY <2>1
<1>9. PICK at : at = s[Len(s)].at OBVIOUS
<1>10. WordFor(w, s[Len(s)]) /\ who1[Len(x1)] = at /\ r.at = at BY <1>9
<1>11. NewKnown(x1, B1, own, who1, FALSE, n, B, c) BY ONLY <1>7 DEF NewKnown
<1>12. StepFirst(w, c, at) BY ONLY <1>8, <1>10 DEF StepFirst
<1>13. FilledFor(w, own, d, at) BY ONLY <1>4, <1>10 DEF FilledFor
<1> QED
  BY ONLY <1>2, <1>9, <1>10, <1>11, <1>12, <1>13, PartComes, w \in {"else"} \cup Closer,
          Ready(x, B, s, own, who, n), Grows(x, who, x1, who1, w), Emitted(B, n, c, 0, B1),
          Len(B) # 0, Len(s) \in Nat \ {0}, B1[d] = << >>

\* An else or an end.
LEMMA PartMeets ==
  ASSUME FInv, Meets, phase = "body", phase' = "body", NEW w \in {"else"} \cup Closer,
         text' = Append(text, w), open # << >>, NEW c \in Seq(Loose), Emits(c, 0),
         \A k \in 1 .. Len(c) : c[k].to \subseteq 1 .. Len(blocks) + 0,
         WordFor(w, Top), PartCode(c, w, Top), OpenAfter(w, open, open'),
         insert' = IF w = "else" THEN Top.first ELSE Top.last
  PROVE  Meets'
<1>1. TypeOK /\ insert \in Block /\ Shape /\ Nesting(text)[Len(text)] = Open
  BY DEF FInv, Shape, Meets
<1>2. w \in Word /\ w \notin Opener /\ w # "return"
  BY Words DEF Word, Closer
<1>3. PICK t : t = Len(open) OBVIOUS
<1>4. t \in Nat \ {0} /\ Top = open[t] /\ t \in 1 .. t /\ Placeable(open)
  BY <1>1, <1>3, OpenHere
<1>5. Top.first \in 1 .. Len(blocks) /\ Top.last \in 1 .. Len(blocks)
  BY <1>1, <1>3, <1>4, OpenHere
<1>6. (Nesting(text)[Len(text)] = Open)'
  <2>1. CASE w = "else"
    <3>1. Len(open') = t /\ \A m \in 1 .. t - 1 : open'[m].at = open[m].at
      BY <1>3, <2>1 DEF OpenAfter
    <3>2. open'[t].at = open[t].at BY <1>3, <2>1 DEF OpenAfter
    <3>3. \A m \in 1 .. t : open'[m].at = open[m].at BY ONLY <1>4, <3>1, <3>2
    <3>4. OpenOf(open') = OpenOf(open) BY ONLY <1>3, <3>1, <3>3, OpenSame
    <3>5. Open' = Open BY <3>4 DEF Open
    <3>6. w \notin Closer BY <2>1, Words
    <3> QED BY <1>1, <1>2, <3>5, <3>6, NestingNext
  <2>2. CASE w # "else"
    <3>1. Len(open') = t - 1 /\ \A m \in 1 .. t - 1 : open'[m] = open[m]
      BY <1>3, <2>2 DEF OpenAfter
    <3>2. OpenOf(open') = Front(OpenOf(open)) BY <1>3, <1>4, <3>1, OpenLess
    <3>3. Open' = Front(Open) BY <3>2 DEF Open
    <3> QED BY <1>1, <1>2, <2>2, <3>3, NestingNext
  <2> QED BY <2>1, <2>2
<1>7. Emitted(blocks, insert, c, 0, blocks') /\ Len(blocks) # 0
  BY <1>1, EmittedHere
<1>8. insert' \in Waiting(Top) BY DEF Waiting, WordFor
<1>9. blocks'[insert'] = << >>
  <2>1. insert # insert' /\ blocks[insert'] = << >> BY <1>1, <1>3, <1>4, <1>8 DEF Shape
  <2>2. insert' \in 1 .. Len(blocks) BY <1>5
  <2> QED BY <1>7, <2>1, <2>2 DEF Emitted
<1>10. ASSUME Sound'
       PROVE  \E own1 : /\ Written(text', blocks', open', own1, OwnersOf(text'), FALSE)
                        /\ NeverReturns' => Going(text', blocks', own1, OwnersOf(text'), insert')
  <2>1. PICK own : Ready(text, blocks, open, own, Owners, insert)
    BY <1>2, <1>10, WordBefore
  <2>2. /\ Grows(text, Owners, text', OwnersOf(text'), w)
        /\ OwnersOf(text')[Len(text')] = Top.at
    BY <1>1, <1>2, <2>1, GrowsHere
  <2>3. Ready(text', blocks', open', own, OwnersOf(text'), insert')
    <3>1. PICK x1, B1, s1, who1, d, s, r :
            /\ x1 = text' /\ B1 = blocks' /\ s1 = open' /\ who1 = OwnersOf(text')
            /\ d = insert' /\ s = open /\ r = Top
      OBVIOUS
    <3>2. /\ r = s[Len(s)] /\ Len(s) \in Nat \ {0}
          /\ Ready(text, blocks, s, own, Owners, insert)
          /\ Grows(text, Owners, x1, who1, w) /\ Emitted(blocks, insert, c, 0, B1)
          /\ Len(blocks) # 0 /\ who1[Len(x1)] = r.at /\ WordFor(w, r) /\ PartCode(c, w, r)
          /\ OpenAfter(w, s, s1) /\ r.first \in 1 .. Len(blocks) /\ r.last \in 1 .. Len(blocks)
          /\ d = (IF w = "else" THEN r.first ELSE r.last) /\ B1[d] = << >>
      BY <1>3, <1>4, <1>5, <1>7, <1>9, <2>1, <2>2, <3>1
    <3>3. Ready(x1, B1, s1, own, who1, d) BY ONLY <3>2, w \in {"else"} \cup Closer, PartReady
    <3> QED BY <3>1, <3>3
  <2> QED BY <2>3 DEF Ready
<1> QED BY <1>6, <1>10, WordAfter

\* From the then part to the else part.
LEMMA VisitElseMeets == FInv /\ Meets /\ VisitElse => Meets'
<1> SUFFICES ASSUME FInv, Meets, VisitElse PROVE Meets' OBVIOUS
<1> DEFINE c == <<Branch({Top.last})>>
<1>1. /\ phase = "body" /\ phase' = "body" /\ text' = Append(text, "else") /\ open # << >>
      /\ Top.word = "if" /\ Emits(c, 0) /\ insert' = Top.first
      /\ open' = [open EXCEPT ![Len(open)].word = "else"]
  BY DEF VisitElse, Reads
<1>2. TypeOK /\ open \in Seq(Statement) BY DEF FInv, TypeOK
<1>3. /\ Len(open) \in Nat \ {0} /\ Top = open[Len(open)] /\ Top \in Statement
      /\ Top.last \in Block /\ Block = 1 .. Len(blocks) + 0 /\ Block \subseteq Nat
  BY <1>1, <1>2, TopFacts
<1>4. Branch({Top.last}) \in Loose /\ Branch({Top.last}).to = {Top.last}
  BY <1>2, <1>3, CodeTypes
<1>5. c \in Seq(Loose) /\ Len(c) = 1 /\ c[1] = Branch({Top.last}) BY <1>4
<1> HIDE DEF c
<1>6. \A k \in 1 .. Len(c) : c[k].to \subseteq 1 .. Len(blocks) + 0
  <2>1. \A k \in 1 .. Len(c) : k = 1 BY ONLY <1>5
  <2>2. {Top.last} \subseteq 1 .. Len(blocks) + 0 BY <1>3
  <2> QED BY ONLY <1>4, <1>5, <2>1, <2>2
<1>7. OpenAfter("else", open, open')
  <2>1. Len(open') = Len(open) /\ \A m \in 1 .. Len(open) - 1 : open'[m] = open[m]
    BY <1>1, <1>2, <1>3
  <2>2. open'[Len(open)] = [open[Len(open)] EXCEPT !.word = "else"] BY <1>1, <1>2, <1>3
  <2>3. /\ open'[Len(open)].word = "else" /\ open'[Len(open)].at = open[Len(open)].at
        /\ open'[Len(open)].last = open[Len(open)].last
    BY ONLY <1>3, <2>2 DEF Statement
  <2> QED BY <2>1, <2>3 DEF OpenAfter
<1>8. WordFor("else", Top) BY <1>1 DEF WordFor
<1>9. PartCode(c, "else", Top) BY <1>5 DEF PartCode
<1> QED BY <1>1, <1>5, <1>6, <1>7, <1>8, <1>9, PartMeets

\* The end of an if.
LEMMA VisitEndIfMeets == FInv /\ Meets /\ VisitEndIf => Meets'
<1> SUFFICES ASSUME FInv, Meets, VisitEndIf PROVE Meets' OBVIOUS
<1> DEFINE c == <<Branch({Top.last})>>
<1>1. /\ phase = "body" /\ phase' = "body" /\ text' = Append(text, "endif") /\ open # << >>
      /\ Top.word = "else" /\ Emits(c, 0) /\ insert' = Top.last /\ open' = Front(open)
  BY DEF VisitEndIf, Reads
<1>2. TypeOK /\ open \in Seq(Statement) BY DEF FInv, TypeOK
<1>3. Top.last \in Block /\ Block = 1 .. Len(blocks) + 0 /\ Block \subseteq Nat
  BY <1>1, <1>2, TopFacts
<1>4. Branch({Top.last}) \in Loose /\ Branch({Top.last}).to = {Top.last}
  BY <1>2, <1>3, CodeTypes
<1>5. c \in Seq(Loose) /\ Len(c) = 1 /\ c[1] = Branch({Top.last}) BY <1>4
<1> HIDE DEF c
<1>6. \A k \in 1 .. Len(c) : c[k].to \subseteq 1 .. Len(blocks) + 0
  <2>1. \A k \in 1 .. Len(c) : k = 1 BY ONLY <1>5
  <2>2. {Top.last} \subseteq 1 .. Len(blocks) + 0 BY <1>3
  <2> QED BY ONLY <1>4, <1>5, <2>1, <2>2
<1>7. OpenAfter("endif", open, open') BY <1>1, <1>2, FrontFacts DEF OpenAfter
<1>8. WordFor("endif", Top) BY <1>1 DEF WordFor
<1>9. PartCode(c, "endif", Top) BY <1>5 DEF PartCode
<1>10. "endif" \in {"else"} \cup Closer BY DEF Closer
<1> QED BY <1>1, <1>5, <1>6, <1>7, <1>8, <1>9, <1>10, PartMeets

\* The end of a for.
LEMMA VisitEndForMeets == FInv /\ Meets /\ VisitEndFor => Meets'
<1> SUFFICES ASSUME FInv, Meets, VisitEndFor PROVE Meets' OBVIOUS
<1> DEFINE to == {Top.first, Top.last}
           c == <<Code(Top.at, "step"), Code(Top.at, "test"), Branch(to)>>
<1>1. /\ phase = "body" /\ phase' = "body" /\ text' = Append(text, "endfor") /\ open # << >>
      /\ Top.word = "for" /\ Emits(c, 0) /\ insert' = Top.last /\ open' = Front(open)
  BY DEF VisitEndFor, Reads
<1>2. TypeOK /\ open \in Seq(Statement) BY DEF FInv, TypeOK
<1>3. /\ Top.at \in Nat /\ Top.first \in Block /\ Top.last \in Block
      /\ Block = 1 .. Len(blocks) + 0 /\ Block \subseteq Nat
  BY <1>1, <1>2, TopFacts
<1>4. /\ Code(Top.at, "step") \in Loose /\ Code(Top.at, "step").to = {}
      /\ Code(Top.at, "test") \in Loose /\ Code(Top.at, "test").to = {}
      /\ Branch(to) \in Loose /\ Branch(to).to = to
  <2>1. /\ Code(Top.at, "step") \in Loose /\ Code(Top.at, "step").to = {}
        /\ Code(Top.at, "test") \in Loose /\ Code(Top.at, "test").to = {}
    BY <1>2, <1>3, CodeTypes DEF Part
  <2>2. to \in SUBSET Nat BY <1>3
  <2> HIDE DEF to
  <2>3. Branch(to) \in Loose /\ Branch(to).to = to BY <1>2, <2>2, CodeTypes
  <2> QED BY <2>1, <2>3
<1>5. /\ c \in Seq(Loose) /\ Len(c) = 3 /\ c[1] = Code(Top.at, "step")
      /\ c[2] = Code(Top.at, "test") /\ c[3] = Branch(to)
  BY <1>4
<1> HIDE DEF c
<1>6. \A k \in 1 .. Len(c) : c[k].to \subseteq 1 .. Len(blocks) + 0
  <2>1. \A k \in 1 .. Len(c) : k = 1 \/ k = 2 \/ k = 3 BY ONLY <1>5
  <2>2. to \subseteq 1 .. Len(blocks) + 0 BY <1>3
  <2> HIDE DEF to
  <2> QED BY ONLY <1>4, <1>5, <2>1, <2>2
<1>7. OpenAfter("endfor", open, open') BY <1>1, <1>2, FrontFacts DEF OpenAfter
<1>8. WordFor("endfor", Top) BY <1>1 DEF WordFor
<1>9. PartCode(c, "endfor", Top) BY <1>5 DEF PartCode
<1>10. "endfor" \in {"else"} \cup Closer BY DEF Closer
<1> QED BY <1>1, <1>5, <1>6, <1>7, <1>8, <1>9, <1>10, PartMeets

\* Nothing is read yet, and nothing is open.
LEMMA NothingOpen ==
  ASSUME NEW x, NEW s, x = << >>, s = << >>
  PROVE  Nesting(x)[Len(x)] = OpenOf(s)
<1>1. Len(x) = 0 /\ Len(s) = 0 OBVIOUS
<1>2. 0 \in 0 .. Len(x) /\ Len(x) \in Nat BY <1>1
<1>3. Nesting(x)[0] = NestAt(x, Nesting(x), 0) BY <1>2, NestingIs
<1>4. Nesting(x)[0] = << >> BY <1>3 DEF NestAt
<1>5. OpenOf(s) = [m \in 1 .. 0 |-> s[m].at] BY <1>1 DEF OpenOf
<1>6. OpenOf(s) = << >> BY <1>5
<1> QED BY <1>1, <1>4, <1>6

\* Nothing is generated yet.
LEMMA InitMeets == Init => Meets
<1> SUFFICES ASSUME Init PROVE Meets OBVIOUS
<1>1. text = << >> /\ open = << >> /\ phase = "start" BY DEF Init
<1>2. Nesting(text)[Len(text)] = Open BY <1>1, NothingOpen DEF Open
<1> QED BY <1>1, <1>2 DEF Meets

\* The entry block begins with the body of the callable.
LEMMA FirstReady ==
  ASSUME NEW x, NEW B, NEW s, NEW own, NEW who, x = << >>, B = << << >> >>, s = << >>,
         own = <<Made(0, "body")>>, who \in [1 .. Len(x) -> Nat]
  PROVE  Ready(x, B, s, own, who, 1)
<1>1. /\ Len(x) = 0 /\ Len(B) = 1 /\ Len(s) = 0 /\ B[1] = << >> /\ Len(B[1]) = 0
      /\ 1 .. 0 = {} /\ 1 .. 1 = {1}
  OBVIOUS
<1>2. own[1] = Made(0, "body") /\ own \in [1 .. 1 -> {Made(0, "body")}] OBVIOUS
<1>3. Made(0, "body") \in [at : Nat, role : Role] /\ Made(0, "body").at = 0
      /\ Made(0, "body").role = "body"
  BY DEF Made, Role
<1>4. OwnersKnown(x, who) BY <1>1 DEF OwnersKnown
<1>5. OpenKnown(x, s, who) BY ONLY <1>1 DEF OpenKnown
<1>6. MakersKnown(x, B, s, own)
  <2>1. own \in [1 .. Len(B) -> [at : Nat, role : Role]] BY <1>1, <1>2, <1>3
  <2>2. \A c \in 1 .. Len(B) : own[c].at = 0 /\ own[c].role = "body" BY <1>1, <1>2, <1>3
  <2>3. \A m \in 1 .. Len(s) : FALSE BY ONLY <1>1
  <2>4. Len(B) # 0 BY <1>1
  <2> QED BY ONLY <1>2, <2>1, <2>2, <2>3, <2>4 DEF MakersKnown
<1>7. AllKnown(x, B, own, who, FALSE)
  <2>1. \A b \in 1 .. Len(B) : \A k \in 1 .. Len(B[b]) : FALSE BY ONLY <1>1
  <2> QED BY ONLY <2>1 DEF AllKnown
<1>8. Coded(x, B, who) BY ONLY <1>1 DEF Coded
<1>9. Going(x, B, own, who, 1)
  <2>1. Len(B[1]) + 1 = 1 /\ Len(x) + 1 = 1 /\ own[1].at + 1 = 1 BY <1>1, <1>2, <1>3
  <2> QED BY <1>2, <1>3, <2>1 DEF Going, AtPlace, Starts
<1> QED BY <1>4, <1>5, <1>6, <1>7, <1>8, <1>9 DEF Ready, Written

\* The callable is entered.
LEMMA EnterMeets == FInv /\ Enter => Meets'
<1> SUFFICES ASSUME FInv, Enter PROVE Meets' OBVIOUS
<1>1. /\ text' = << >> /\ open' = << >> /\ blocks' = << << >> >> /\ insert' = 1
      /\ phase' = "body"
  BY DEF FInv, Enter
<1>2. (Nesting(text)[Len(text)] = Open)' BY <1>1, NothingOpen DEF Open
<1>3. OwnersOf(text') \in [1 .. Len(text') -> Nat]
  <2>1. Len(text') = 0 /\ 1 .. 0 = {} BY <1>1
  <2>2. PICK x : x = text' OBVIOUS
  <2>3. Len(x) = 0 BY <2>1, <2>2
  <2>4. OwnersOf(x) \in [1 .. Len(x) -> Nat] BY ONLY <2>1, <2>3 DEF OwnersOf
  <2> QED BY <2>2, <2>4
<1>4. PICK own : own = <<Made(0, "body")>> OBVIOUS
<1>5. Ready(text', blocks', open', own, OwnersOf(text'), insert')
  <2>1. Ready(text', blocks', open', own, OwnersOf(text'), 1)
    BY ONLY <1>1, <1>3, <1>4, FirstReady
  <2> QED BY <1>1, <2>1
<1>6. \E own1 : /\ Written(text', blocks', open', own1, OwnersOf(text'), FALSE)
                /\ NeverReturns' => Going(text', blocks', own1, OwnersOf(text'), insert')
  BY <1>5 DEF Ready
<1> QED BY <1>1, <1>2, <1>6, WordAfter

\* The callable is left, with a return that the generator adds or without.
LEMMA LeaveMeets == FInv /\ Meets /\ Leave => Meets'
<1> SUFFICES ASSUME FInv, Meets, Leave PROVE Meets' OBVIOUS
<1>1. /\ phase = "body" /\ phase' = "done" /\ open = << >> /\ open' = open /\ text' = text
      /\ insert' = insert /\ isVoid' = isVoid
  BY DEF Leave
<1>2. /\ TypeOK /\ insert \in Block /\ Nesting(text)[Len(text)] = Open /\ text \in Seq(Word)
      /\ blocks \in Seq(Seq(Instruction))
  BY <1>1 DEF FInv, Shape, TypeOK, Meets
<1>3. (Nesting(text)[Len(text)] = Open)' BY <1>1, <1>2 DEF Open
<1>4. NeverReturns' = NeverReturns /\ ReturnsLast' = ReturnsLast
  BY <1>1 DEF NeverReturns, ReturnsLast
<1>5. ASSUME Sound'
      PROVE  \E own1 : Written(text, blocks', open, own1, Owners, TRUE)
  <2>1. (NeverReturns \/ ReturnsLast) /\ (isVoid => NeverReturns) BY <1>1, <1>4, <1>5 DEF Sound
  <2>2. Sound BY <1>1, <2>1 DEF Sound
  <2>3. PICK x, B, s, own, who, n, over :
         /\ x = text /\ B = blocks /\ s = open /\ who = Owners /\ n = insert
         /\ over = (phase = "done")
         /\ Written(x, B, s, own, who, over)
         /\ phase = "body" /\ NeverReturns => Going(x, B, own, who, n)
    BY <1>1, <2>2 DEF Meets
  <2>4. over = FALSE BY <1>1, <2>3
  <2>5. CASE isVoid
    <3>1. Ready(x, B, s, own, who, n) BY <1>1, <2>1, <2>3, <2>4, <2>5 DEF Ready
    <3>2. Emits(<<Ret>>, 0) BY <2>5 DEF Leave
    <3>3. PICK c : c = <<Ret>> OBVIOUS
    <3>4. Ret \in Loose /\ Ret.to = {} BY <1>2, CodeTypes
    <3>5. c \in Seq(Loose) /\ Len(c) = 1 /\ c[1] = Ret BY <3>3, <3>4
    <3>6. \A k \in 1 .. Len(c) : c[k].to \subseteq 1 .. Len(blocks) + 0
      <4>1. \A k \in 1 .. Len(c) : k = 1 BY <3>5
      <4> QED BY <3>4, <3>5, <4>1
    <3>7. Emitted(blocks, insert, c, 0, blocks') /\ Len(blocks) # 0
      BY <1>2, <3>2, <3>3, <3>5, <3>6, EmittedHere
    <3>8. PICK B1 : B1 = blocks' OBVIOUS
    <3>9. Emitted(B, n, c, 0, B1) /\ Len(B) # 0 BY <2>3, <3>7, <3>8
    <3>10. Len(x) \in Nat BY <1>2, <2>3
    <3>11. Written(x, B1, s, own, who, TRUE) BY ONLY <3>1, <3>5, <3>9, <3>10, LeaveKnown
    <3> QED BY <2>3, <3>8, <3>11
  <2>6. CASE ~isVoid
    <3>1. blocks' = blocks BY <2>6 DEF Leave
    <3>2. Sizes(x, B)
      <4>1. Len(text) \in Nat /\ Len(blocks) \in Nat BY <1>2
      <4>2. \A b \in 1 .. Len(blocks) : blocks[b] \in Seq(Instruction) BY <1>2
      <4>3. \A b \in 1 .. Len(blocks) : Len(blocks[b]) \in Nat BY ONLY <4>2
      <4> QED BY <2>3, <4>1, <4>3 DEF Sizes
    <3>3. Written(x, B, s, own, who, TRUE) BY <2>3, <2>4, <3>2, LeaveStill
    <3> QED BY <2>3, <3>1, <3>3
  <2> QED BY <2>5, <2>6
<1>6. ASSUME Sound'
      PROVE  \E x, B, s, own, who, n, over :
               /\ x = text' /\ B = blocks' /\ s = open' /\ who = Owners' /\ n = insert'
               /\ over = (phase' = "done")
               /\ Written(x, B, s, own, who, over)
               /\ phase' = "body" /\ NeverReturns' => Going(x, B, own, who, n)
  <2>1. PICK own1 : Written(text, blocks', open, own1, Owners, TRUE) BY <1>5, <1>6
  <2>2. Owners' = Owners BY <1>1 DEF Owners
  <2>3. PICK B1, n1 : B1 = blocks' /\ n1 = insert' OBVIOUS
  <2>4. /\ text = text' /\ B1 = blocks' /\ open = open' /\ Owners = Owners' /\ n1 = insert'
        /\ TRUE = (phase' = "done")
        /\ Written(text, B1, open, own1, Owners, TRUE)
        /\ phase' = "body" /\ NeverReturns' => Going(text, B1, own1, Owners, n1)
    BY <1>1, <2>1, <2>2, <2>3
  <2> QED BY ONLY <2>4
<1> QED BY <1>1, <1>3, <1>6 DEF Meets

\* Steps of something else.
LEMMA StutterMeets == Meets /\ UNCHANGED vars => Meets'
<1> SUFFICES ASSUME Meets, UNCHANGED vars PROVE Meets' OBVIOUS
<1>1. UNCHANGED <<typed, isVoid, text, open, blocks, insert, from, phase>> BY DEF vars
<1> QED BY <1>1 DEF Meets, Sound, NeverReturns, ReturnsLast, Owners, Open

\* Every step keeps it.
LEMMA NextMeets == FInv /\ Meets /\ [Next]_vars => Meets'
<1> SUFFICES ASSUME FInv, Meets, [Next]_vars PROVE Meets' OBVIOUS
<1>1. CASE Enter BY <1>1, EnterMeets
<1>2. CASE Leave BY <1>2, LeaveMeets
<1>3. CASE VisitDo BY <1>3, StraightMeets DEF VisitDo, InBody, Reads
<1>4. CASE VisitVar BY <1>4, StraightMeets DEF VisitVar, InBody, Reads
<1>5. CASE VisitReturn BY <1>5, VisitReturnMeets
<1>6. CASE VisitIf BY <1>6, VisitIfMeets
<1>7. CASE VisitElse BY <1>7, VisitElseMeets
<1>9. CASE VisitEndIf BY <1>9, VisitEndIfMeets
<1>10. CASE VisitFor BY <1>10, VisitForMeets
<1>11. CASE VisitEndFor BY <1>11, VisitEndForMeets
<1>12. CASE UNCHANGED vars BY <1>12, StutterMeets
<1> QED BY <1>1, <1>2, <1>3, <1>4, <1>5, <1>6, <1>7, <1>9, <1>10, <1>11, <1>12 DEF Next
-----------------------------------------------------------------------------
(***************************************************************************)
(* What runs, of blocks that are known from the first to the last.         *)
(***************************************************************************)

\* Every statement has its parts.
Matched(x, who) ==
  \A i \in 1 .. Len(x) :
    /\ x[i] \in Opener => \E j \in 1 .. Len(x) : x[j] \in Closer /\ who[j] = i
    /\ x[i] = "if" => \E j \in 1 .. Len(x) : x[j] = "else" /\ who[j] = i

\* No block is empty, or ends with code.
Ended(B) ==
  \A b \in 1 .. Len(B) :
    Len(B[b]) # 0 /\ \A k \in 1 .. Len(B[b]) : B[b][k].op = "code" => k # Len(B[b])

Whole(x, B, own, who) ==
  /\ Sizes(x, B) /\ OwnersKnown(x, who) /\ Matched(x, who)
  /\ \E s : MakersKnown(x, B, s, own)
  /\ AllKnown(x, B, own, who, TRUE) /\ Coded(x, B, who) /\ Ended(B)
  /\ \A i \in 1 .. Len(x) - 1 : x[i] # "return"

\* What control comes to at each word.
Arriving(x, who, arr) ==
  /\ arr[Len(x) + 1] = End
  /\ \A p \in 1 .. Len(x) :
       /\ x[p] \in Straight => arr[p] = <<p, "run">>
       /\ x[p] = "if" => arr[p] = <<p, "test">>
       /\ x[p] = "endfor" => arr[p] = <<who[p], "step">>
       /\ x[p] \in {"for", "endif"} => arr[p] = arr[p + 1]
       /\ x[p] = "else" =>
            \A j \in 1 .. Len(x) : x[j] \in Closer /\ who[j] = who[p] => arr[p] = arr[j + 1]

\* The parts of the instructions.
LEMMA Instructions ==
  /\ \A i, part : Code(i, part).op = "code" /\ Code(i, part).at = i /\ Code(i, part).part = part
  /\ \A to : Branch(to).op = "branch" /\ Branch(to).to = to
  /\ Ret.op = "ret"
BY DEF Code, Branch, Ret

\* What control comes to at each kind of instruction.
LEMMA ComesToCode ==
  ASSUME NEW it, NEW enter, NEW i, NEW part, it = Code(i, part)
  PROVE  Comes(it, enter) = {<<i, part>>}
<1>1. it.op = "code" /\ it.at = i /\ it.part = part BY Instructions
<1> QED BY <1>1 DEF Comes

\* At a return it comes to the end.
LEMMA ComesToRet == \A enter : Comes(Ret, enter) = {End}
BY Instructions DEF Comes

\* Every block begins somewhere in the text.
LEMMA StartThere ==
  ASSUME NEW x, NEW B, NEW own, NEW who, Whole(x, B, own, who), NEW c \in 1 .. Len(B)
  PROVE  \E p \in 1 .. Len(x) + 1 : Starts(x, own, who, c, p)
<1>1. PICK n : n = Len(x) OBVIOUS
<1>2. n \in Nat /\ Matched(x, who) BY <1>1 DEF Whole, Sizes
<1>3. /\ own \in [1 .. Len(B) -> [at : Nat, role : Role]]
      /\ IF own[c].at = 0 THEN own[c].role = "body"
         ELSE /\ own[c].at \in 1 .. n /\ x[own[c].at] \in Opener
              /\ own[c].role = "else" => x[own[c].at] = "if"
  BY <1>1 DEF Whole, MakersKnown
<1>4. own[c].role \in Role /\ own[c].at \in Nat BY <1>3
<1>5. CASE own[c].role = "body"
  <2>1. own[c].at + 1 \in 1 .. n + 1 BY <1>2, <1>3, <1>4
  <2> QED BY <1>1, <1>5, <2>1 DEF Starts
<1>6. CASE own[c].role # "body"
  <2>1. own[c].at \in 1 .. n /\ x[own[c].at] \in Opener BY <1>3, <1>6
  <2>2. PICK j \in 1 .. n :
          who[j] = own[c].at /\ x[j] \in IF own[c].role = "else" THEN {"else"} ELSE Closer
    BY <1>1, <1>2, <1>3, <2>1 DEF Matched
  <2>3. PICK p : p = j + 1 OBVIOUS
  <2>4. p \in 2 .. n + 1 /\ p \in 1 .. n + 1 /\ p - 1 = j BY <1>2, <2>3
  <2> QED BY <1>1, <1>6, <2>2, <2>4 DEF Starts
<1> QED BY <1>5, <1>6

\* A block begins in one place.
LEMMA StartIs ==
  ASSUME NEW x, NEW B, NEW own, NEW who, Whole(x, B, own, who), NEW c \in 1 .. Len(B),
         NEW p, NEW q, Starts(x, own, who, c, p), Starts(x, own, who, c, q)
  PROVE  p = q
<1>1. PICK n : n = Len(x) OBVIOUS
<1>2. n \in Nat BY <1>1 DEF Whole, Sizes
<1>3. CASE own[c].role = "body" BY <1>3 DEF Starts
<1>4. CASE own[c].role # "body"
  <2>1. p \in 2 .. n + 1 /\ q \in 2 .. n + 1 BY <1>1, <1>4 DEF Starts
  <2>2. PICK i, j : i = p - 1 /\ j = q - 1 OBVIOUS
  <2>3. i \in 1 .. n /\ j \in 1 .. n /\ (i = j => p = q) BY <1>2, <2>1, <2>2
  <2>4. /\ who[i] = own[c].at /\ who[j] = own[c].at
        /\ x[i] \in IF own[c].role = "else" THEN {"else"} ELSE Closer
        /\ x[j] \in IF own[c].role = "else" THEN {"else"} ELSE Closer
    BY <1>4, <2>2 DEF Starts
  <2>5. i = j BY <1>1, <2>3, <2>4 DEF Whole, OwnersKnown
  <2> QED BY <2>3, <2>5
<1> QED BY <1>3, <1>4

\* An instruction has one place.
LEMMA PlaceIs ==
  ASSUME NEW x, NEW B, NEW own, NEW who, Whole(x, B, own, who), NEW b \in 1 .. Len(B), NEW k,
         NEW p \in Int, NEW q \in Int, AtPlace(x, B, own, who, b, k, p), AtPlace(x, B, own, who, b, k, q)
  PROVE  p = q
<1>1. CASE k = 1 BY <1>1, StartIs DEF AtPlace
<1>2. CASE k # 1
  <2>1. Code(p - 1, "run") = Code(q - 1, "run") BY <1>2 DEF AtPlace
  <2>2. p - 1 = q - 1 BY <2>1, Instructions
  <2> QED BY <2>2
<1> QED BY <1>1, <1>2

\* What the blocks begin with that begin behind the place p.
BegunBehind(x, B, own, who, arr, enter, p) ==
  \A c \in 1 .. Len(B), q \in 1 .. Len(x) + 1 :
    p < q /\ Starts(x, own, who, c, q) => enter[c] = {arr[q]}

\* The instruction of a place comes to what the place is come to at, when the blocks that
\* begin behind the place do.
LEMMA ComesAt ==
  ASSUME NEW x, NEW B, NEW own, NEW who, Whole(x, B, own, who),
         NEW arr, Arriving(x, who, arr), NEW enter, NEW p \in 1 .. Len(x) + 1,
         BegunBehind(x, B, own, who, arr, enter, p),
         NEW b \in 1 .. Len(B), NEW k \in 1 .. Len(B[b]), AtPlace(x, B, own, who, b, k, p)
  PROVE  Comes(B[b][k], enter) = {arr[p]}
<1>1. PICK n, l : n = Len(x) /\ l = Len(B[b]) OBVIOUS
<1>2. n \in Nat /\ l \in Nat /\ p \in 1 .. n + 1 /\ k \in 1 .. l BY <1>1 DEF Whole, Sizes
<1>3. Known(x, B, own, who, TRUE, b, k) BY DEF Whole, AllKnown
<1>4. k > 1 => B[b][k - 1] = Code(p - 1, "run") BY <1>2 DEF AtPlace
<1>5. /\ arr[n + 1] = End
      /\ \A i \in 1 .. n :
           /\ x[i] \in Straight => arr[i] = <<i, "run">>
           /\ x[i] = "if" => arr[i] = <<i, "test">>
           /\ x[i] = "endfor" => arr[i] = <<who[i], "step">>
           /\ x[i] \in {"for", "endif"} => arr[i] = arr[i + 1]
           /\ x[i] = "else" =>
                \A j \in 1 .. n : x[j] \in Closer /\ who[j] = who[i] => arr[i] = arr[j + 1]
  BY <1>1 DEF Arriving
<1>6. \A q \in Int : AtPlace(x, B, own, who, b, k, q) => q = p BY <1>2, PlaceIs
<1>7. CASE Runs(x, B, own, who, b, k)
  <2>1. PICK q \in 1 .. n :
          x[q] \in Straight /\ AtPlace(x, B, own, who, b, k, q) /\ B[b][k] = Code(q, "run")
    BY <1>1, <1>7 DEF Runs
  <2>2. q = p BY <1>6, <2>1
  <2>3. Comes(B[b][k], enter) = {<<q, "run">>} BY <2>1, ComesToCode
  <2>4. arr[q] = <<q, "run">> BY <1>5, <2>1
  <2> QED BY <2>2, <2>3, <2>4
<1>8. CASE Tests(x, B, own, who, b, k)
  <2>1. PICK q \in 1 .. n :
          x[q] = "if" /\ AtPlace(x, B, own, who, b, k, q) /\ B[b][k] = Code(q, "test")
    BY <1>1, <1>8 DEF Tests
  <2>2. q = p BY <1>6, <2>1
  <2>3. Comes(B[b][k], enter) = {<<q, "test">>} BY <2>1, ComesToCode
  <2>4. arr[q] = <<q, "test">> BY <1>5, <2>1
  <2> QED BY <2>2, <2>3, <2>4
<1>9. CASE Steps(x, B, own, who, b, k)
  <2>1. PICK q \in 1 .. n :
          x[q] = "endfor" /\ AtPlace(x, B, own, who, b, k, q) /\ B[b][k] = Code(who[q], "step")
    BY <1>1, <1>9 DEF Steps
  <2>2. q = p BY <1>6, <2>1
  <2>3. Comes(B[b][k], enter) = {<<who[q], "step">>} BY <2>1, ComesToCode
  <2>4. arr[q] = <<who[q], "step">> BY <1>5, <2>1
  <2> QED BY <2>2, <2>3, <2>4
<1>10. ~(k > 1 /\ Tests(x, B, own, who, b, k - 1))
  <2> SUFFICES ASSUME k > 1, Tests(x, B, own, who, b, k - 1) PROVE FALSE OBVIOUS
  <2>1. PICK q : B[b][k - 1] = Code(q, "test") BY DEF Tests
  <2>2. B[b][k - 1].part = "test" /\ B[b][k - 1].part = "run" BY <1>4, <2>1, Instructions
  <2> QED BY <2>2
<1>11. ~(k > 1 /\ Steps(x, B, own, who, b, k - 1))
  <2> SUFFICES ASSUME k > 1, Steps(x, B, own, who, b, k - 1) PROVE FALSE OBVIOUS
  <2>1. PICK q : B[b][k - 1] = Code(who[q], "step") BY DEF Steps
  <2>2. B[b][k - 1].part = "step" /\ B[b][k - 1].part = "run" BY <1>4, <2>1, Instructions
  <2> QED BY <2>2
<1>12. ~(k > 2 /\ Steps(x, B, own, who, b, k - 2))
  <2> SUFFICES ASSUME k > 2, Steps(x, B, own, who, b, k - 2) PROVE FALSE OBVIOUS
  <2>1. PICK j : j = k - 2 OBVIOUS
  <2>2. j + 1 = k - 1 /\ k > 1 BY <1>2, <2>1
  <2>3. PICK q : B[b][j + 1] = Code(who[q], "test") BY <2>1 DEF Steps
  <2>4. B[b][k - 1].part = "test" /\ B[b][k - 1].part = "run" BY <1>4, <2>2, <2>3, Instructions
  <2> QED BY <2>4
<1>13. CASE Jumps(x, B, own, who, b, k)
  <2>1. PICK i \in 1 .. n, c \in 1 .. Len(B) :
          /\ AtPlace(x, B, own, who, b, k, i) /\ B[b][k] = Branch({c})
          /\ \/ x[i] = "for" /\ own[c] = Made(i, "body")
             \/ x[i] \in {"else", "endif"} /\ own[c] = Made(who[i], "end")
    BY <1>1, <1>13 DEF Jumps
  <2>2. i = p /\ p \in 1 .. n BY <1>6, <2>1
  <2>3. Comes(B[b][k], enter) = enter[c]
    <3>1. PICK it : it = B[b][k] OBVIOUS
    <3>2. it = Branch({c}) BY <2>1, <3>1
    <3>3. it.op = "branch" /\ it.to = {c} BY ONLY <3>2, Instructions
    <3>4. Comes(it, enter) = UNION {enter[e] : e \in it.to} BY ONLY <3>3 DEF Comes
    <3>5. UNION {enter[e] : e \in {c}} = enter[c] OBVIOUS
    <3> QED BY ONLY <3>1, <3>3, <3>4, <3>5
  <2>4. PICK q \in 1 .. Len(x) + 1 : Starts(x, own, who, c, q) BY StartThere
  <2>5. CASE x[p] = "for"
    <3>1. own[c] = Made(p, "body") BY <2>1, <2>2, <2>5
    <3>2. own[c].role = "body" /\ own[c].at = p BY <3>1 DEF Made
    <3>3. q = p + 1 BY <2>4, <3>2 DEF Starts
    <3>4. p < q /\ arr[p] = arr[q] BY <1>5, <2>2, <2>5, <3>3
    <3>5. enter[c] = {arr[q]} BY <2>4, <3>4 DEF BegunBehind
    <3> QED BY <2>3, <3>4, <3>5
  <2>6. CASE x[p] # "for"
    <3>1. x[p] \in {"else", "endif"} /\ own[c] = Made(who[p], "end") BY <2>1, <2>2, <2>6
    <3>2. own[c].role = "end" /\ own[c].at = who[p] BY <3>1 DEF Made
    <3>3. q \in 2 .. n + 1 /\ who[q - 1] = who[p] /\ x[q - 1] \in Closer
      BY <1>1, <2>4, <3>2 DEF Starts
    <3>4. PICK j : j = q - 1 OBVIOUS
    <3>5. j \in 1 .. n /\ j + 1 = q BY <1>2, <3>3, <3>4
    <3>6. who[j] = who[p] /\ x[j] \in Closer BY <3>3, <3>4
    <3>7. p < q /\ arr[p] = arr[q]
      <4>1. CASE x[p] = "else"
        <5>1. p < j BY <1>1, <2>2, <3>5, <3>6, <4>1 DEF Whole, OwnersKnown
        <5>2. arr[p] = arr[j + 1] BY <1>5, <2>2, <3>5, <3>6, <4>1
        <5> QED BY <1>2, <3>5, <5>1, <5>2
      <4>2. CASE x[p] = "endif"
        <5>1. x[p] \in Closer BY <4>2 DEF Closer
        <5>2. p = j BY <1>1, <2>2, <3>5, <3>6, <5>1 DEF Whole, OwnersKnown
        <5>3. arr[p] = arr[p + 1] BY <1>5, <2>2, <4>2
        <5> QED BY <1>2, <3>5, <5>2, <5>3
      <4> QED BY <3>1, <4>1, <4>2
    <3>8. enter[c] = {arr[q]} BY <2>4, <3>7 DEF BegunBehind
    <3> QED BY <2>3, <3>7, <3>8
  <2> QED BY <2>5, <2>6
<1>14. CASE Returns(x, B, b, k)
  <2>1. PICK q \in 1 .. n : x[q] = "return" /\ B[b][k - 1] = Code(q, "run")
    BY <1>1, <1>14 DEF Returns
  <2>2. k # 1 /\ B[b][k] = Ret BY <1>14 DEF Returns
  <2>3. k > 1 BY <1>2, <2>2
  <2>4. p - 1 = q BY <1>4, <2>1, <2>3, Instructions
  <2>5. q \notin 1 .. n - 1 BY <1>1, <2>1 DEF Whole
  <2>6. p = n + 1 BY <1>2, <2>4, <2>5
  <2> QED BY <1>5, <2>2, <2>6, ComesToRet
<1>15. CASE Leaves(x, B, own, who, TRUE, b, k)
  <2>1. B[b][k] = Ret /\ AtPlace(x, B, own, who, b, k, n + 1) BY <1>1, <1>15 DEF Leaves
  <2>2. p = n + 1 BY <1>2, <1>6, <2>1
  <2> QED BY <1>5, <2>1, <2>2, ComesToRet
<1> QED BY <1>3, <1>7, <1>8, <1>9, <1>10, <1>11, <1>12, <1>13, <1>14, <1>15 DEF Known

\* The beginnings of the blocks, after n steps over branches.
EntersTo(B, win, h) ==
  \A n \in 0 .. h : \A b \in 1 .. Len(B) : n # 0 => win[n][b] = Comes(B[b][1], win[n - 1])

\* What the place p comes to is found in as many steps as there are words behind it.
Found(x, B, own, who, arr, win, h, p) ==
  \A n \in 0 .. h : h <= n + p =>
    \A b \in 1 .. Len(B) : \A k \in 1 .. Len(B[b]) :
      AtPlace(x, B, own, who, b, k, p) => Comes(B[b][k], win[n]) = {arr[p]}

\* What is found behind a place gives what is found at it.
LEMMA FoundBehind ==
  ASSUME NEW x, NEW B, NEW own, NEW who, Whole(x, B, own, who),
         NEW arr, Arriving(x, who, arr), NEW h, h = Len(x) + 1, NEW win, EntersTo(B, win, h),
         NEW p \in 1 .. h, \A q \in 1 .. h : p < q => Found(x, B, own, who, arr, win, h, q)
  PROVE  Found(x, B, own, who, arr, win, h, p)
<1>1. h \in Nat /\ 1 .. Len(x) + 1 = 1 .. h BY DEF Whole, Sizes
<1> SUFFICES ASSUME NEW n \in 0 .. h, h <= n + p, NEW b \in 1 .. Len(B),
                    NEW k \in 1 .. Len(B[b]), AtPlace(x, B, own, who, b, k, p)
             PROVE  Comes(B[b][k], win[n]) = {arr[p]}
  BY DEF Found
<1>2. PICK enter : enter = win[n] OBVIOUS
<1>3. ASSUME NEW c \in 1 .. Len(B), NEW q \in 1 .. h, p < q, Starts(x, own, who, c, q)
      PROVE  enter[c] = {arr[q]}
  <2>1. PICK m : m = n - 1 OBVIOUS
  <2>2. n # 0 /\ m \in 0 .. h /\ h <= m + q BY <1>1, <1>3, <2>1
  <2>3. win[n][c] = Comes(B[c][1], win[m]) BY <2>1, <2>2 DEF EntersTo
  <2>4. 1 \in 1 .. Len(B[c]) BY DEF Whole, Ended, Sizes
  <2>5. AtPlace(x, B, own, who, c, 1, q) BY <1>3 DEF AtPlace
  <2>6. Found(x, B, own, who, arr, win, h, q) BY <1>3
  <2>7. Comes(B[c][1], win[m]) = {arr[q]} BY <2>2, <2>4, <2>5, <2>6 DEF Found
  <2> QED BY <1>2, <2>3, <2>7
<1>4. BegunBehind(x, B, own, who, arr, enter, p) BY <1>1, <1>3 DEF BegunBehind
<1>5. p \in 1 .. Len(x) + 1 BY <1>1
<1>6. Comes(B[b][k], enter) = {arr[p]}
  BY ONLY <1>4, <1>5, ComesAt, Whole(x, B, own, who), Arriving(x, who, arr), b \in 1 .. Len(B),
          k \in 1 .. Len(B[b]), AtPlace(x, B, own, who, b, k, p), SMTT(30)
<1> QED BY <1>2, <1>6

\* It is found at every place, from the last to the first.
LEMMA FoundAll ==
  ASSUME NEW x, NEW B, NEW own, NEW who, Whole(x, B, own, who),
         NEW arr, Arriving(x, who, arr), NEW h, h = Len(x) + 1, NEW win, EntersTo(B, win, h),
         NEW p \in 1 .. h
  PROVE  Found(x, B, own, who, arr, win, h, p)
<1>1. h \in Nat BY DEF Whole, Sizes
<1>2. PICK T : T = {d \in 0 .. h : \E q \in 1 .. h : q = h - d /\ ~Found(x, B, own, who, arr, win, h, q)}
  OBVIOUS
<1>3. T = {}
  <2> SUFFICES ASSUME T # {} PROVE FALSE OBVIOUS
  <2>1. T \subseteq Nat BY <1>1, <1>2
  <2>2. PICK d \in T : \A e \in T : d <= e BY <2>1, LeastNatural
  <2>3. PICK q \in 1 .. h : q = h - d /\ ~Found(x, B, own, who, arr, win, h, q) BY <1>2, <2>2
  <2>4. ASSUME NEW r \in 1 .. h, q < r PROVE Found(x, B, own, who, arr, win, h, r)
    <3>1. PICK e : e = h - r OBVIOUS
    <3>2. e \in 0 .. h /\ r = h - e /\ ~(d <= e) BY <1>1, <2>1, <2>3, <2>4, <3>1
    <3>3. e \notin T BY <2>2, <3>2
    <3> QED BY <1>2, <3>2, <3>3
  <2>5. Found(x, B, own, who, arr, win, h, q) BY <2>4, FoundBehind
  <2> QED BY <2>3, <2>5
<1>4. PICK d : d = h - p OBVIOUS
<1>5. d \in 0 .. h /\ p = h - d BY <1>1, <1>4
<1> QED BY <1>2, <1>3, <1>5

\* What the blocks begin with.
Begun(x, B, own, who, arr, enter) ==
  \A c \in 1 .. Len(B), q \in 1 .. Len(x) + 1 : Starts(x, own, who, c, q) => enter[c] = {arr[q]}

\* The beginning of each block is found in as many steps as there are words.
LEMMA EnterIs ==
  ASSUME NEW x, NEW B, NEW own, NEW who, Whole(x, B, own, who),
         NEW arr, Arriving(x, who, arr), NEW h, h = Len(x) + 1, NEW win, EntersTo(B, win, h)
  PROVE  Begun(x, B, own, who, arr, win[h])
<1>1. PICK m : m = h - 1 OBVIOUS
<1>2. h \in Nat /\ h # 0 /\ m \in 0 .. h /\ h \in 0 .. h /\ m + 1 = h BY <1>1 DEF Whole, Sizes
<1> SUFFICES ASSUME NEW c \in 1 .. Len(B), NEW q \in 1 .. h, Starts(x, own, who, c, q)
             PROVE  win[h][c] = {arr[q]}
  BY DEF Begun
<1>3. win[h][c] = Comes(B[c][1], win[m]) BY <1>1, <1>2 DEF EntersTo
<1>4. Found(x, B, own, who, arr, win, h, q) BY FoundAll
<1>5. 1 \in 1 .. Len(B[c]) BY DEF Whole, Ended, Sizes
<1>6. AtPlace(x, B, own, who, c, 1, q) BY DEF AtPlace
<1>7. h <= m + q BY <1>2
<1> QED BY <1>2, <1>3, <1>4, <1>5, <1>6, <1>7 DEF Found

\* The parts of a statement, and what its code leads to.
PartsOf(x, who, i, words) == {j \in 1 .. Len(x) : x[j] \in words /\ who[j] = i}
LeadsIn(x, who, arr, i) ==
  IF x[i] \in Straight THEN {<< <<i, "run">>, arr[i + 1]>>}
  ELSE IF x[i] = "if"
  THEN {<< <<i, "test">>, arr[i + 1]>>}
       \cup {<< <<i, "test">>, arr[j + 1]>> : j \in PartsOf(x, who, i, {"else"})}
  ELSE IF x[i] = "for"
  THEN {<< <<i, "step">>, <<i, "test">> >>, << <<i, "test">>, arr[i + 1]>>}
       \cup {<< <<i, "test">>, arr[j + 1]>> : j \in PartsOf(x, who, i, Closer)}
  ELSE {}
AfterIn(B, b, enter) ==
  UNION {{<< <<B[b][k].at, B[b][k].part>>, c>> : c \in Comes(B[b][k + 1], enter)} :
           k \in {k \in 1 .. Len(B[b]) - 1 : B[b][k].op = "code"}}

\* What runs after the code in a block, one by one.
LEMMA AfterOf ==
  ASSUME NEW B, NEW b, NEW enter, NEW u
  PROVE  u \in AfterIn(B, b, enter) <=>
           \E k \in 1 .. Len(B[b]) - 1 : \E c \in Comes(B[b][k + 1], enter) :
             B[b][k].op = "code" /\ u = << <<B[b][k].at, B[b][k].part>>, c>>
BY SMTT(30) DEF AfterIn

\* What runs after the code of a straight statement, after a test and after a step.
RunsOn(x, B, arr, enter, b, k) ==
  \E p \in 1 .. Len(x) :
    x[p] \in Straight /\ B[b][k] = Code(p, "run") /\ Comes(B[b][k + 1], enter) = {arr[p + 1]}
TestsOn(x, B, who, arr, enter, b, k) ==
  \E p \in 1 .. Len(x), j \in 1 .. Len(x) :
    /\ x[p] = "if" /\ B[b][k] = Code(p, "test") /\ j \in PartsOf(x, who, p, {"else"})
    /\ Comes(B[b][k + 1], enter) = {arr[p + 1], arr[j + 1]}
StepsOn(x, B, who, arr, enter, b, k) ==
  \E p \in 1 .. Len(x), j \in 1 .. Len(x) :
    /\ x[p] = "for" /\ B[b][k] = Code(p, "step") /\ j \in PartsOf(x, who, p, Closer)
    /\ Comes(B[b][k + 1], enter) = {<<p, "test">>}
    /\ k + 1 < Len(B[b]) /\ B[b][k + 1] = Code(p, "test")
    /\ Comes(B[b][k + 2], enter) = {arr[p + 1], arr[j + 1]}

\* After a straight statement runs what is come to behind it.
LEMMA RunsGoOn ==
  ASSUME NEW x, NEW B, NEW own, NEW who, Whole(x, B, own, who),
         NEW arr, Arriving(x, who, arr), NEW enter, Begun(x, B, own, who, arr, enter),
         NEW b \in 1 .. Len(B), NEW k \in 1 .. Len(B[b]), Runs(x, B, own, who, b, k)
  PROVE  k < Len(B[b]) /\ RunsOn(x, B, arr, enter, b, k)
<1>1. PICK l, n : l = Len(B[b]) /\ n = Len(x) OBVIOUS
<1>2. l \in Nat /\ n \in Nat /\ k \in 1 .. l BY <1>1 DEF Whole, Sizes
<1>3. PICK p \in 1 .. n : x[p] \in Straight /\ B[b][k] = Code(p, "run") BY <1>1 DEF Runs
<1>4. B[b][k].op = "code" BY <1>3, Instructions
<1>5. k # l BY <1>1, <1>4 DEF Whole, Ended
<1>6. PICK i \in 1 .. Len(B[b]), q \in 1 .. Len(x) + 1 : i = k + 1 /\ q = p + 1
  <2>1. k + 1 \in 1 .. Len(B[b]) /\ p + 1 \in 1 .. Len(x) + 1 BY <1>1, <1>2, <1>5
  <2> QED BY <2>1
<1>7. i # 1 /\ i - 1 = k /\ q - 1 = p /\ k < l BY <1>2, <1>5, <1>6
<1>8. AtPlace(x, B, own, who, b, i, q) BY <1>3, <1>7 DEF AtPlace
<1>9. BegunBehind(x, B, own, who, arr, enter, q) BY DEF Begun, BegunBehind
<1>10. Comes(B[b][i], enter) = {arr[q]}
  BY ONLY <1>8, <1>9, ComesAt, Whole(x, B, own, who), Arriving(x, who, arr), b \in 1 .. Len(B),
          i \in 1 .. Len(B[b]), q \in 1 .. Len(x) + 1, SMTT(30)
<1> QED BY <1>1, <1>3, <1>6, <1>7, <1>10 DEF RunsOn

\* The beginnings of the blocks that a statement made.
LEMMA MadeBegins ==
  ASSUME NEW x, NEW B, NEW own, NEW who, Whole(x, B, own, who),
         NEW arr, NEW enter, Begun(x, B, own, who, arr, enter), NEW p \in 1 .. Len(x),
         NEW c \in 1 .. Len(B), NEW role, own[c] = Made(p, role)
  PROVE  /\ role = "body" => enter[c] = {arr[p + 1]}
         /\ role = "else" => \E j \in PartsOf(x, who, p, {"else"}) : enter[c] = {arr[j + 1]}
         /\ role = "end" => \E j \in PartsOf(x, who, p, Closer) : enter[c] = {arr[j + 1]}
<1>1. PICK n : n = Len(x) OBVIOUS
<1>2. n \in Nat BY <1>1 DEF Whole, Sizes
<1>3. own[c].at = p /\ own[c].role = role BY DEF Made
<1>4. PICK q \in 1 .. Len(x) + 1 : Starts(x, own, who, c, q) BY StartThere
<1>5. enter[c] = {arr[q]} BY <1>4 DEF Begun
<1>6. CASE role = "body"
  <2>1. q = p + 1 BY <1>3, <1>4, <1>6 DEF Starts
  <2> QED BY <1>5, <1>6, <2>1
<1>7. ASSUME NEW words, role # "body", words = IF role = "else" THEN {"else"} ELSE Closer
      PROVE  \E j \in PartsOf(x, who, p, words) : enter[c] = {arr[j + 1]}
  <2>1. q \in 2 .. n + 1 /\ who[q - 1] = p /\ x[q - 1] \in words
    BY <1>1, <1>3, <1>4, <1>7 DEF Starts
  <2>2. PICK j : j = q - 1 OBVIOUS
  <2>3. j \in 1 .. n /\ j + 1 = q BY <1>2, <2>1, <2>2
  <2>4. j \in PartsOf(x, who, p, words) BY <1>1, <2>1, <2>2, <2>3 DEF PartsOf
  <2> QED BY <1>5, <2>3, <2>4
<1> QED BY <1>6, <1>7

\* After a test runs what is come to in the then part or the else part.
LEMMA TestsGoOn ==
  ASSUME NEW x, NEW B, NEW own, NEW who, Whole(x, B, own, who),
         NEW arr, NEW enter, Begun(x, B, own, who, arr, enter),
         NEW b \in 1 .. Len(B), NEW k \in 1 .. Len(B[b]), Tests(x, B, own, who, b, k)
  PROVE  k < Len(B[b]) /\ TestsOn(x, B, who, arr, enter, b, k)
<1>1. PICK p \in 1 .. Len(x), c \in 1 .. Len(B), d \in 1 .. Len(B) :
        /\ x[p] = "if" /\ B[b][k] = Code(p, "test")
        /\ k + 1 <= Len(B[b]) /\ B[b][k + 1] = Branch({c, d})
        /\ own[c] = Made(p, "body") /\ own[d] = Made(p, "else")
  BY DEF Tests
<1>2. k < Len(B[b]) BY <1>1 DEF Whole, Sizes
<1>3. enter[c] = {arr[p + 1]}
  <2>1. own[c] = Made(p, "body") BY <1>1
  <2> QED BY <2>1, MadeBegins
<1>4. PICK j \in PartsOf(x, who, p, {"else"}) : enter[d] = {arr[j + 1]} BY <1>1, MadeBegins
<1>5. j \in 1 .. Len(x) BY DEF PartsOf
<1>6. Comes(B[b][k + 1], enter) = enter[c] \cup enter[d]
  <2>1. PICK it : it = B[b][k + 1] OBVIOUS
  <2>2. it = Branch({c, d}) BY <1>1, <2>1
  <2>3. it.op = "branch" /\ it.to = {c, d} BY ONLY <2>2, Instructions
  <2>4. Comes(it, enter) = UNION {enter[e] : e \in it.to} BY ONLY <2>3 DEF Comes
  <2>5. UNION {enter[e] : e \in {c, d}} = enter[c] \cup enter[d] OBVIOUS
  <2> QED BY ONLY <2>1, <2>3, <2>4, <2>5
<1>7. Comes(B[b][k + 1], enter) = {arr[p + 1], arr[j + 1]} BY <1>3, <1>4, <1>6
<1> QED BY <1>1, <1>2, <1>5, <1>7 DEF TestsOn

\* After a step runs its test, and then the body again or what is behind the for.
LEMMA StepsGoOn ==
  ASSUME NEW x, NEW B, NEW own, NEW who, Whole(x, B, own, who),
         NEW arr, NEW enter, Begun(x, B, own, who, arr, enter),
         NEW b \in 1 .. Len(B), NEW k \in 1 .. Len(B[b]), Steps(x, B, own, who, b, k)
  PROVE  k < Len(B[b]) /\ StepsOn(x, B, who, arr, enter, b, k)
<1>1. PICK q \in 1 .. Len(x), c \in 1 .. Len(B), d \in 1 .. Len(B) :
        /\ x[q] = "endfor" /\ B[b][k] = Code(who[q], "step")
        /\ k + 2 <= Len(B[b]) /\ B[b][k + 1] = Code(who[q], "test") /\ B[b][k + 2] = Branch({c, d})
        /\ own[c] = Made(who[q], "body") /\ own[d] = Made(who[q], "end")
  BY DEF Steps
<1>2. PICK p, n : p = who[q] /\ n = Len(x) OBVIOUS
<1>3. n \in Nat BY <1>2 DEF Whole, Sizes
<1>4. p \in 1 .. n /\ x[p] = "for"
  <2>1. x[q] \in {"else"} \cup Closer BY <1>1 DEF Closer
  <2>2. who[q] \in 1 .. q - 1 /\ x[who[q]] = "for" BY <1>1, <2>1 DEF Whole, OwnersKnown
  <2> QED BY <1>2, <1>3, <2>2
<1>5. k < Len(B[b]) /\ k + 1 < Len(B[b])
  <2>1. PICK l : l = Len(B[b]) OBVIOUS
  <2>2. l \in Nat /\ k + 2 <= l /\ k \in 1 .. l BY <1>1, <2>1 DEF Whole, Sizes
  <2>3. k < l /\ k + 1 < l BY ONLY <2>2
  <2> QED BY <2>1, <2>3
<1>6. enter[c] = {arr[p + 1]}
  <2>1. own[c] = Made(p, "body") /\ p \in 1 .. Len(x) BY <1>1, <1>2, <1>4
  <2> QED BY <2>1, MadeBegins
<1>7. PICK j \in PartsOf(x, who, p, Closer) : enter[d] = {arr[j + 1]}
  <2>1. own[d] = Made(p, "end") /\ p \in 1 .. Len(x) BY <1>1, <1>2, <1>4
  <2> QED BY <2>1, MadeBegins
<1>8. j \in 1 .. n BY <1>2 DEF PartsOf
<1>9. Comes(B[b][k + 2], enter) = enter[c] \cup enter[d]
  <2>1. PICK it : it = B[b][k + 2] OBVIOUS
  <2>2. it = Branch({c, d}) BY <1>1, <2>1
  <2>3. it.op = "branch" /\ it.to = {c, d} BY ONLY <2>2, Instructions
  <2>4. Comes(it, enter) = UNION {enter[e] : e \in it.to} BY ONLY <2>3 DEF Comes
  <2>5. UNION {enter[e] : e \in {c, d}} = enter[c] \cup enter[d] OBVIOUS
  <2> QED BY ONLY <2>1, <2>3, <2>4, <2>5
<1>10. Comes(B[b][k + 2], enter) = {arr[p + 1], arr[j + 1]} BY <1>6, <1>7, <1>9
<1>11. Comes(B[b][k + 1], enter) = {<<p, "test">>} BY <1>1, <1>2, ComesToCode
<1> QED BY <1>1, <1>2, <1>4, <1>5, <1>7, <1>8, <1>10, <1>11 DEF StepsOn

\* Code is that of a straight statement, a test or a step.
LEMMA CodeGoesOn ==
  ASSUME NEW x, NEW B, NEW own, NEW who, Whole(x, B, own, who),
         NEW arr, Arriving(x, who, arr), NEW enter, Begun(x, B, own, who, arr, enter),
         NEW b \in 1 .. Len(B), NEW k \in 1 .. Len(B[b]), B[b][k].op = "code"
  PROVE  /\ k < Len(B[b])
         /\ \/ RunsOn(x, B, arr, enter, b, k)
            \/ TestsOn(x, B, who, arr, enter, b, k)
            \/ StepsOn(x, B, who, arr, enter, b, k)
            \/ \E m \in 1 .. Len(B[b]) : m + 1 = k /\ StepsOn(x, B, who, arr, enter, b, m)
<1>1. PICK l : l = Len(B[b]) OBVIOUS
<1>2. l \in Nat /\ k \in 1 .. l BY <1>1 DEF Whole, Sizes
<1>3. Known(x, B, own, who, TRUE, b, k) BY DEF Whole, AllKnown
<1>4. k # l BY <1>1 DEF Whole, Ended
<1>5. k < Len(B[b]) BY <1>1, <1>2, <1>4
<1>6. CASE Runs(x, B, own, who, b, k) BY <1>6, RunsGoOn
<1>7. CASE Tests(x, B, own, who, b, k) BY <1>7, TestsGoOn
<1>8. CASE Steps(x, B, own, who, b, k) BY <1>8, StepsGoOn
<1>9. CASE k > 1 /\ Steps(x, B, own, who, b, k - 1)
  <2>1. PICK m : m = k - 1 OBVIOUS
  <2>2. m \in 1 .. Len(B[b]) /\ m + 1 = k BY <1>1, <1>2, <1>9, <2>1
  <2>3. StepsOn(x, B, who, arr, enter, b, m) BY <1>9, <2>1, <2>2, StepsGoOn
  <2> QED BY <1>5, <2>2, <2>3
<1>10. ~(k > 1 /\ Tests(x, B, own, who, b, k - 1))
  <2> SUFFICES ASSUME k > 1, Tests(x, B, own, who, b, k - 1) PROVE FALSE OBVIOUS
  <2>1. PICK m : m = k - 1 OBVIOUS
  <2>2. m + 1 = k BY <1>2, <2>1
  <2>3. PICK c, d : B[b][m + 1] = Branch({c, d}) BY <2>1 DEF Tests
  <2> QED BY <2>2, <2>3, Instructions
<1>11. ~(k > 2 /\ Steps(x, B, own, who, b, k - 2))
  <2> SUFFICES ASSUME k > 2, Steps(x, B, own, who, b, k - 2) PROVE FALSE OBVIOUS
  <2>1. PICK m : m = k - 2 OBVIOUS
  <2>2. m + 2 = k BY <1>2, <2>1
  <2>3. PICK c, d : B[b][m + 2] = Branch({c, d}) BY <2>1 DEF Steps
  <2> QED BY <2>2, <2>3, Instructions
<1>12. ~Jumps(x, B, own, who, b, k) BY Instructions DEF Jumps
<1>13. ~Returns(x, B, b, k) BY Instructions DEF Returns
<1>14. ~Leaves(x, B, own, who, TRUE, b, k) BY Instructions DEF Leaves
<1> QED BY <1>3, <1>5, <1>6, <1>7, <1>8, <1>9, <1>10, <1>11, <1>12, <1>13, <1>14 DEF Known

\* A statement has one part of a kind.
LEMMA PartOne ==
  ASSUME NEW x, NEW who, OwnersKnown(x, who), NEW i, NEW words \in {{"else"}, Closer},
         NEW j \in PartsOf(x, who, i, words), NEW k \in PartsOf(x, who, i, words)
  PROVE  j = k
<1>1. j \in 1 .. Len(x) /\ k \in 1 .. Len(x) /\ x[j] \in words /\ x[k] \in words /\ who[j] = who[k]
  BY DEF PartsOf
<1> QED BY <1>1 DEF OwnersKnown

\* Nothing runs after code but what its statement leads to.
LEMMA AfterLeads ==
  ASSUME NEW x, NEW B, NEW own, NEW who, Whole(x, B, own, who),
         NEW arr, Arriving(x, who, arr), NEW enter, Begun(x, B, own, who, arr, enter),
         NEW b \in 1 .. Len(B), NEW u \in AfterIn(B, b, enter)
  PROVE  \E i \in 1 .. Len(x) : u \in LeadsIn(x, who, arr, i)
<1>1. PICK k \in 1 .. Len(B[b]) - 1 : \E c \in Comes(B[b][k + 1], enter) :
        B[b][k].op = "code" /\ u = << <<B[b][k].at, B[b][k].part>>, c>>
  BY AfterOf
<1>2. PICK c \in Comes(B[b][k + 1], enter) :
        B[b][k].op = "code" /\ u = << <<B[b][k].at, B[b][k].part>>, c>>
  BY <1>1
<1>3. k \in 1 .. Len(B[b]) BY DEF Whole, Sizes
<1>4. \/ RunsOn(x, B, arr, enter, b, k)
      \/ TestsOn(x, B, who, arr, enter, b, k)
      \/ StepsOn(x, B, who, arr, enter, b, k)
      \/ \E m \in 1 .. Len(B[b]) : m + 1 = k /\ StepsOn(x, B, who, arr, enter, b, m)
  BY <1>2, <1>3, CodeGoesOn
<1>5. CASE RunsOn(x, B, arr, enter, b, k)
  <2>1. PICK p \in 1 .. Len(x) : x[p] \in Straight /\ B[b][k] = Code(p, "run")
                                 /\ Comes(B[b][k + 1], enter) = {arr[p + 1]}
    BY <1>5 DEF RunsOn
  <2>2. u = << <<p, "run">>, arr[p + 1]>> BY <1>2, <2>1, Instructions
  <2> QED BY <2>1, <2>2 DEF LeadsIn
<1>6. CASE TestsOn(x, B, who, arr, enter, b, k)
  <2>1. PICK p \in 1 .. Len(x), j \in 1 .. Len(x) :
          /\ x[p] = "if" /\ B[b][k] = Code(p, "test") /\ j \in PartsOf(x, who, p, {"else"})
          /\ Comes(B[b][k + 1], enter) = {arr[p + 1], arr[j + 1]}
    BY <1>6 DEF TestsOn
  <2>2. u = << <<p, "test">>, arr[p + 1]>> \/ u = << <<p, "test">>, arr[j + 1]>>
    BY <1>2, <2>1, Instructions
  <2>3. x[p] \notin Straight BY <2>1 DEF Straight
  <2> QED BY <2>1, <2>2, <2>3 DEF LeadsIn
<1>7. CASE StepsOn(x, B, who, arr, enter, b, k)
  <2>1. PICK p \in 1 .. Len(x) :
          /\ x[p] = "for" /\ B[b][k] = Code(p, "step")
          /\ Comes(B[b][k + 1], enter) = {<<p, "test">>}
    BY <1>7 DEF StepsOn
  <2>2. u = << <<p, "step">>, <<p, "test">> >> BY <1>2, <2>1, Instructions
  <2>3. x[p] \notin Straight BY <2>1 DEF Straight
  <2> QED BY <2>1, <2>2, <2>3 DEF LeadsIn
<1>8. ASSUME NEW m \in 1 .. Len(B[b]), m + 1 = k, StepsOn(x, B, who, arr, enter, b, m)
      PROVE  \E i \in 1 .. Len(x) : u \in LeadsIn(x, who, arr, i)
  <2>1. PICK p \in 1 .. Len(x), j \in 1 .. Len(x) :
          /\ x[p] = "for" /\ j \in PartsOf(x, who, p, Closer)
          /\ B[b][m + 1] = Code(p, "test") /\ Comes(B[b][m + 2], enter) = {arr[p + 1], arr[j + 1]}
    BY <1>8 DEF StepsOn
  <2>2. m + 2 = k + 1 BY <1>3, <1>8
  <2>3. B[b][k] = Code(p, "test") /\ Comes(B[b][k + 1], enter) = {arr[p + 1], arr[j + 1]}
    BY <1>8, <2>1, <2>2
  <2>4. u = << <<p, "test">>, arr[p + 1]>> \/ u = << <<p, "test">>, arr[j + 1]>>
    BY <1>2, <2>3, Instructions
  <2>5. x[p] \notin Straight BY <2>1 DEF Straight
  <2> QED BY <2>1, <2>4, <2>5 DEF LeadsIn
<1> QED BY <1>4, <1>5, <1>6, <1>7, <1>8

\* Instruction k of block b is the code of word j.
GoesOnAs(x, B, who, arr, enter, b, k, j) ==
  /\ B[b][k] = CodeOf(x, who, j) /\ k < Len(B[b])
  /\ \/ RunsOn(x, B, arr, enter, b, k)
     \/ TestsOn(x, B, who, arr, enter, b, k)
     \/ StepsOn(x, B, who, arr, enter, b, k)
     \/ \E m \in 1 .. Len(B[b]) : m + 1 = k /\ StepsOn(x, B, who, arr, enter, b, m)

\* All that a statement leads to runs after its code.
LEMMA LeadsAfter ==
  ASSUME NEW x, NEW B, NEW own, NEW who, Whole(x, B, own, who),
         NEW arr, Arriving(x, who, arr), NEW enter, Begun(x, B, own, who, arr, enter),
         NEW i \in 1 .. Len(x), NEW u \in LeadsIn(x, who, arr, i)
  PROVE  \E b \in 1 .. Len(B) : u \in AfterIn(B, b, enter)
<1>1. Coded(x, B, who) /\ OwnersKnown(x, who) /\ Matched(x, who)
      /\ \A b \in 1 .. Len(B) : Len(B[b]) \in Nat
  BY DEF Whole, Sizes
<1>2. ASSUME NEW b \in 1 .. Len(B), NEW k \in 1 .. Len(B[b]), k < Len(B[b]),
             NEW c \in Comes(B[b][k + 1], enter), NEW a, NEW part, B[b][k] = Code(a, part),
             u = << <<a, part>>, c>>
      PROVE  \E e \in 1 .. Len(B) : u \in AfterIn(B, e, enter)
  <2>1. k \in 1 .. Len(B[b]) - 1 BY <1>1, <1>2
  <2>2. B[b][k].op = "code" /\ B[b][k].at = a /\ B[b][k].part = part BY <1>2, Instructions
  <2>3. u \in AfterIn(B, b, enter) BY <1>2, <2>1, <2>2, AfterOf
  <2> QED BY <2>3
<1>3. ASSUME NEW j \in 1 .. Len(x), x[j] \in Straight \cup {"if", "endfor"}
      PROVE  \E b \in 1 .. Len(B) : \E k \in 1 .. Len(B[b]) : GoesOnAs(x, B, who, arr, enter, b, k, j)
  <2>1. PICK b \in 1 .. Len(B) : \E k \in 1 .. Len(B[b]) : B[b][k] = CodeOf(x, who, j)
    BY <1>1, <1>3 DEF Coded
  <2>2. PICK k \in 1 .. Len(B[b]) : B[b][k] = CodeOf(x, who, j) BY <2>1
  <2>3. B[b][k].op = "code" BY <2>2, Instructions DEF CodeOf
  <2> QED BY <2>2, <2>3, CodeGoesOn DEF GoesOnAs
<1>4. CASE x[i] \in Straight
  <2>0. PICK b \in 1 .. Len(B) : \E k \in 1 .. Len(B[b]) : GoesOnAs(x, B, who, arr, enter, b, k, i)
    BY <1>3, <1>4
  <2>1. PICK k \in 1 .. Len(B[b]) :
          /\ B[b][k] = CodeOf(x, who, i) /\ k < Len(B[b])
          /\ \/ RunsOn(x, B, arr, enter, b, k)
             \/ TestsOn(x, B, who, arr, enter, b, k)
             \/ StepsOn(x, B, who, arr, enter, b, k)
             \/ \E m \in 1 .. Len(B[b]) : m + 1 = k /\ StepsOn(x, B, who, arr, enter, b, m)
    BY <2>0 DEF GoesOnAs
  <2>2. x[i] # "if" /\ x[i] # "endfor" BY <1>4 DEF Straight
  <2>3. B[b][k] = Code(i, "run") /\ B[b][k].part = "run" /\ B[b][k].at = i
    BY <2>1, <2>2, Instructions DEF CodeOf
  <2>4. RunsOn(x, B, arr, enter, b, k)
    <3>1. ~TestsOn(x, B, who, arr, enter, b, k) BY <2>3, Instructions DEF TestsOn
    <3>2. ~StepsOn(x, B, who, arr, enter, b, k) BY <2>3, Instructions DEF StepsOn
    <3>3. \A m : m + 1 = k => ~StepsOn(x, B, who, arr, enter, b, m)
      BY <2>3, Instructions DEF StepsOn
    <3> QED BY <2>1, <3>1, <3>2, <3>3
  <2>5. Comes(B[b][k + 1], enter) = {arr[i + 1]} BY <2>3, <2>4, Instructions DEF RunsOn
  <2>6. u = << <<i, "run">>, arr[i + 1]>> BY <1>4 DEF LeadsIn
  <2> QED BY <1>2, <2>1, <2>3, <2>5, <2>6
<1>5. CASE x[i] = "if"
  <2>0. PICK b \in 1 .. Len(B) : \E k \in 1 .. Len(B[b]) : GoesOnAs(x, B, who, arr, enter, b, k, i)
    BY <1>3, <1>5
  <2>1. PICK k \in 1 .. Len(B[b]) :
          /\ B[b][k] = CodeOf(x, who, i) /\ k < Len(B[b])
          /\ \/ RunsOn(x, B, arr, enter, b, k)
             \/ TestsOn(x, B, who, arr, enter, b, k)
             \/ StepsOn(x, B, who, arr, enter, b, k)
             \/ \E m \in 1 .. Len(B[b]) : m + 1 = k /\ StepsOn(x, B, who, arr, enter, b, m)
    BY <2>0 DEF GoesOnAs
  <2>2. B[b][k] = Code(i, "test") /\ B[b][k].part = "test" /\ B[b][k].at = i
    BY <1>5, <2>1, Instructions DEF CodeOf
  <2>3. TestsOn(x, B, who, arr, enter, b, k)
    <3>1. ~RunsOn(x, B, arr, enter, b, k) BY <2>2, Instructions DEF RunsOn
    <3>2. ~StepsOn(x, B, who, arr, enter, b, k) BY <2>2, Instructions DEF StepsOn
    <3>3. ASSUME NEW m, m + 1 = k, StepsOn(x, B, who, arr, enter, b, m) PROVE FALSE
      <4>1. PICK p : x[p] = "for" /\ B[b][m + 1] = Code(p, "test") BY <3>3 DEF StepsOn
      <4>2. p = i BY <2>2, <3>3, <4>1, Instructions
      <4> QED BY <1>5, <4>1, <4>2
    <3> QED BY <2>1, <3>1, <3>2, <3>3
  <2>4. PICK j \in PartsOf(x, who, i, {"else"}) :
          Comes(B[b][k + 1], enter) = {arr[i + 1], arr[j + 1]}
    <3>1. PICK p \in 1 .. Len(x), j \in 1 .. Len(x) :
            /\ B[b][k] = Code(p, "test") /\ j \in PartsOf(x, who, p, {"else"})
            /\ Comes(B[b][k + 1], enter) = {arr[p + 1], arr[j + 1]}
      BY <2>3 DEF TestsOn
    <3>2. p = i BY <2>2, <3>1, Instructions
    <3> QED BY <3>1, <3>2
  <2>5. x[i] \notin Straight BY <1>5 DEF Straight
  <2>6. \/ u = << <<i, "test">>, arr[i + 1]>>
        \/ \E k1 \in PartsOf(x, who, i, {"else"}) : u = << <<i, "test">>, arr[k1 + 1]>>
    BY <1>5, <2>5 DEF LeadsIn
  <2>7. \A k1 \in PartsOf(x, who, i, {"else"}) : k1 = j BY <1>1, PartOne
  <2>8. \E c \in Comes(B[b][k + 1], enter) : u = << <<i, "test">>, c>> BY <2>4, <2>6, <2>7
  <2> QED BY <1>2, <2>1, <2>2, <2>8
<1>6. CASE x[i] = "for"
  <2>1. PICK q \in 1 .. Len(x) : x[q] \in Closer /\ who[q] = i
    BY <1>1, <1>6 DEF Matched, Opener
  <2>2. x[q] = "endfor"
    <3>1. x[i] = IF x[q] = "endfor" THEN "for" ELSE "if" BY <1>1, <2>1 DEF OwnersKnown
    <3> QED BY <1>6, <3>1
  <2>0. PICK b \in 1 .. Len(B) : \E k \in 1 .. Len(B[b]) : GoesOnAs(x, B, who, arr, enter, b, k, q)
    BY <1>3, <2>2
  <2>3. PICK k \in 1 .. Len(B[b]) :
          /\ B[b][k] = CodeOf(x, who, q) /\ k < Len(B[b])
          /\ \/ RunsOn(x, B, arr, enter, b, k)
             \/ TestsOn(x, B, who, arr, enter, b, k)
             \/ StepsOn(x, B, who, arr, enter, b, k)
             \/ \E m \in 1 .. Len(B[b]) : m + 1 = k /\ StepsOn(x, B, who, arr, enter, b, m)
    BY <2>0 DEF GoesOnAs
  <2>4. B[b][k] = Code(i, "step") /\ B[b][k].part = "step" /\ B[b][k].at = i
    BY <2>1, <2>2, <2>3, Instructions DEF CodeOf
  <2>5. StepsOn(x, B, who, arr, enter, b, k)
    <3>1. ~RunsOn(x, B, arr, enter, b, k) BY <2>4, Instructions DEF RunsOn
    <3>2. ~TestsOn(x, B, who, arr, enter, b, k) BY <2>4, Instructions DEF TestsOn
    <3>3. \A m : m + 1 = k => ~StepsOn(x, B, who, arr, enter, b, m)
      BY <2>4, Instructions DEF StepsOn
    <3> QED BY <2>3, <3>1, <3>2, <3>3
  <2>6. PICK j \in PartsOf(x, who, i, Closer) :
          /\ Comes(B[b][k + 1], enter) = {<<i, "test">>}
          /\ k + 1 < Len(B[b]) /\ B[b][k + 1] = Code(i, "test")
          /\ Comes(B[b][k + 2], enter) = {arr[i + 1], arr[j + 1]}
    <3>1. PICK p \in 1 .. Len(x), j \in 1 .. Len(x) :
            /\ B[b][k] = Code(p, "step") /\ j \in PartsOf(x, who, p, Closer)
            /\ Comes(B[b][k + 1], enter) = {<<p, "test">>}
            /\ k + 1 < Len(B[b]) /\ B[b][k + 1] = Code(p, "test")
            /\ Comes(B[b][k + 2], enter) = {arr[p + 1], arr[j + 1]}
      BY <2>5 DEF StepsOn
    <3>2. p = i BY <2>4, <3>1, Instructions
    <3> QED BY <3>1, <3>2
  <2>7. x[i] \notin Straight /\ x[i] # "if" BY <1>6 DEF Straight
  <2>8. \/ u = << <<i, "step">>, <<i, "test">> >>
        \/ u = << <<i, "test">>, arr[i + 1]>>
        \/ \E k1 \in PartsOf(x, who, i, Closer) : u = << <<i, "test">>, arr[k1 + 1]>>
    BY <1>6, <2>7 DEF LeadsIn
  <2>9. \A k1 \in PartsOf(x, who, i, Closer) : k1 = j BY <1>1, PartOne
  <2>10. CASE u = << <<i, "step">>, <<i, "test">> >>
    <3>1. <<i, "test">> \in Comes(B[b][k + 1], enter) BY <2>6
    <3> QED BY <1>2, <2>3, <2>4, <2>10, <3>1
  <2>11. CASE u # << <<i, "step">>, <<i, "test">> >>
    <3>1. PICK m : m = k + 1 OBVIOUS
    <3>2. m \in 1 .. Len(B[b]) /\ m < Len(B[b]) /\ m + 1 = k + 2 BY <1>1, <2>6, <3>1
    <3>3. B[b][m] = Code(i, "test") /\ Comes(B[b][m + 1], enter) = {arr[i + 1], arr[j + 1]}
      BY <2>6, <3>1, <3>2
    <3>4. \E c \in Comes(B[b][m + 1], enter) : u = << <<i, "test">>, c>>
      BY <2>8, <2>9, <2>11, <3>3
    <3> QED BY <1>2, <3>2, <3>3, <3>4
  <2> QED BY <2>8, <2>10, <2>11
<1> QED BY <1>4, <1>5, <1>6 DEF LeadsIn
-----------------------------------------------------------------------------
(***************************************************************************)
(* The text and the blocks of a callable that verifies.                    *)
(***************************************************************************)

\* A callable that verifies is written from the first word to the last.
LEMMA WholeNow ==
  ASSUME FInv, Meets, Verified
  PROVE  \E own : Whole(text, blocks, own, Owners)
<1>1. phase = "done" /\ AllClosed /\ TypeOK /\ open = << >> BY DEF Verified, FInv, Meets
<1>2. IF isVoid THEN NeverReturns ELSE ReturnsLast BY <1>1 DEF FInv, Verifies
<1>3. Sound BY <1>1, <1>2 DEF Sound
<1>4. PICK x, B, s, own, who, n, over :
         /\ x = text /\ B = blocks /\ s = open /\ who = Owners /\ n = insert
         /\ over = (phase = "done")
         /\ Written(x, B, s, own, who, over)
         /\ phase = "body" /\ NeverReturns => Going(x, B, own, who, n)
  BY <1>1, <1>3 DEF Meets
<1>5. over = TRUE BY <1>1, <1>4
<1>6. /\ OwnersKnown(x, who) /\ OpenKnown(x, s, who) /\ MakersKnown(x, B, s, own)
      /\ AllKnown(x, B, own, who, TRUE) /\ Coded(x, B, who)
  BY <1>4, <1>5 DEF Written
<1>7. Sizes(x, B)
  <2>1. text \in Seq(Word) /\ blocks \in Seq(Seq(Instruction)) BY <1>1 DEF TypeOK
  <2>2. Len(text) \in Nat /\ Len(blocks) \in Nat BY <2>1
  <2>3. \A b \in 1 .. Len(blocks) : blocks[b] \in Seq(Instruction) BY <2>1
  <2>4. \A b \in 1 .. Len(blocks) : Len(blocks[b]) \in Nat BY ONLY <2>3
  <2> QED BY <1>4, <2>2, <2>4 DEF Sizes
<1>8. Matched(x, who)
  <2>1. Len(s) = 0 BY <1>1, <1>4
  <2>2. \A m \in 1 .. Len(s) : FALSE BY <2>1
  <2> QED BY <1>6, <2>2 DEF OpenKnown, Matched
<1>9. Ended(B)
  <2> SUFFICES ASSUME NEW b \in 1 .. Len(B)
               PROVE  Len(B[b]) # 0 /\ \A k \in 1 .. Len(B[b]) : B[b][k].op = "code" => k # Len(B[b])
    BY DEF Ended
  <2>1. Closed(B[b]) BY <1>1, <1>4 DEF AllClosed, Block
  <2>2. B[b] \in Seq(Instruction) /\ B[b] # << >>
    <3>1. blocks \in Seq(Seq(Instruction)) BY <1>1 DEF TypeOK
    <3>2. b \in 1 .. Len(blocks) BY <1>4
    <3>3. blocks[b] \in Seq(Instruction) BY <3>1, <3>2
    <3> QED BY <1>4, <2>1, <3>3 DEF Closed
  <2>3. Len(B[b]) # 0 BY ONLY <2>2
  <2>4. \A k \in 1 .. Len(B[b]) : B[b][k].op = "code" => k # Len(B[b])
    BY <2>1 DEF Closed, Terminator
  <2> QED BY <2>3, <2>4
<1>10. \A i \in 1 .. Len(x) - 1 : x[i] # "return"
  <2>1. \A i \in 1 .. Len(text) - 1 : text[i] # "return"
    <3>1. CASE NeverReturns
      <4>1. Len(text) \in Nat BY <1>1 DEF TypeOK
      <4>2. \A i \in 1 .. Len(text) - 1 : i \in 1 .. Len(text) BY <4>1
      <4> QED BY <3>1, <4>2 DEF NeverReturns
    <3>2. CASE ReturnsLast BY <3>2 DEF ReturnsLast
    <3> QED BY <1>2, <3>1, <3>2
  <2> QED BY <1>4, <2>1
<1>11. Whole(x, B, own, who) BY <1>6, <1>7, <1>8, <1>9, <1>10 DEF Whole
<1> QED BY <1>4, <1>11

\* The owners, as the meaning of the text names them.
LEMMA OwnerIs ==
  ASSUME NEW j \in 1 .. Len(text), text[j] \in {"else"} \cup Closer
  PROVE  OwnerOf(j) = Owners[j]
BY DEF OwnerOf, Owners, OwnersOf

\* A statement that has a part of a kind has the one that the meaning names.
LEMMA PartIs ==
  ASSUME NEW i, NEW words \in {{"else"}, Closer}, NEW j \in PartsOf(text, Owners, i, words)
  PROVE  PartOf(i, words) \in PartsOf(text, Owners, i, words)
<1>1. \A k \in 1 .. Len(text) : text[k] \in words => OwnerOf(k) = Owners[k] BY OwnerIs
<1>2. j \in 1 .. Len(text) /\ text[j] \in words /\ OwnerOf(j) = i BY <1>1 DEF PartsOf
<1>3. PICK k : k = PartOf(i, words) OBVIOUS
<1>4. k \in 1 .. Len(text) /\ text[k] \in words /\ OwnerOf(k) = i BY <1>2, <1>3 DEF PartOf
<1> QED BY <1>1, <1>3, <1>4 DEF PartsOf

\* The end of the if that an else is of.
LEMMA EndBehind ==
  ASSUME NEW B, NEW own, Whole(text, B, own, Owners), NEW i \in 1 .. Len(text), text[i] = "else"
  PROVE  /\ EndOf(OwnerOf(i)) \in PartsOf(text, Owners, Owners[i], Closer)
         /\ EndOf(OwnerOf(i)) \in i + 1 .. Len(text)
<1>1. Len(text) \in Nat BY DEF Whole, Sizes
<1>2. OwnerOf(i) = Owners[i] BY OwnerIs
<1>3. text[i] # "endfor" OBVIOUS
<1>4. Owners[i] \in 1 .. i - 1 /\ text[Owners[i]] = "if" BY <1>3 DEF Whole, OwnersKnown
<1>5. Owners[i] \in 1 .. Len(text) BY <1>1, <1>4
<1>6. PICK j \in 1 .. Len(text) : text[j] \in Closer /\ Owners[j] = Owners[i]
  BY <1>4, <1>5 DEF Whole, Matched, Opener
<1>7. j \in PartsOf(text, Owners, Owners[i], Closer) BY <1>6 DEF PartsOf
<1>8. PICK e : e = EndOf(OwnerOf(i)) OBVIOUS
<1>9. e \in PartsOf(text, Owners, Owners[i], Closer) BY <1>2, <1>7, <1>8, PartIs DEF EndOf
<1>10. e \in 1 .. Len(text) /\ text[e] \in Closer /\ Owners[e] = Owners[i] BY <1>9 DEF PartsOf
<1>11. i < e BY <1>10 DEF Whole, OwnersKnown
<1>12. e \in i + 1 .. Len(text) BY <1>1, <1>10, <1>11
<1> QED BY <1>8, <1>9, <1>12

\* What is come to at i depends on what is come to behind it.
LEMMA ArriveSame ==
  ASSUME NEW B, NEW own, Whole(text, B, own, Owners), text \in Seq(Word), NEW f, NEW g,
         NEW i \in 1 .. Here, \A j \in 1 .. Here : i < j => f[j] = g[j]
  PROVE  ArriveAt(i, f) = ArriveAt(i, g)
<1>1. Len(text) \in Nat /\ Here = Len(text) + 1 BY DEF Here
<1>2. CASE i = Here BY <1>2 DEF ArriveAt
<1>3. CASE i # Here
  <2>1. i \in 1 .. Len(text) /\ i + 1 \in 1 .. Here /\ i < i + 1 BY <1>1, <1>3
  <2>2. text[i] \in Word BY <2>1
  <2>3. f[i + 1] = g[i + 1] BY <2>1
  <2>4. text[i] = "else" => f[EndOf(OwnerOf(i)) + 1] = g[EndOf(OwnerOf(i)) + 1]
    <3>1. ASSUME text[i] = "else" PROVE f[EndOf(OwnerOf(i)) + 1] = g[EndOf(OwnerOf(i)) + 1]
      <4>1. PICK e : e = EndOf(OwnerOf(i)) OBVIOUS
      <4>2. e \in i + 1 .. Len(text) BY <2>1, <3>1, <4>1, EndBehind
      <4>3. e + 1 \in 1 .. Here /\ i < e + 1 BY <1>1, <2>1, <4>2
      <4> QED BY <4>1, <4>3
    <3> QED BY <3>1
  <2>5. CASE text[i] = "else" BY <1>3, <2>4, <2>5 DEF ArriveAt
  <2>6. CASE text[i] # "else"
    <3>1. \/ text[i] \in {"do", "var", "return"} \/ text[i] = "if" \/ text[i] = "endfor"
          \/ text[i] \in {"for", "endif"}
      BY <2>2, <2>6 DEF Word
    <3> QED BY <1>3, <2>3, <2>6, <3>1 DEF ArriveAt
  <2> QED BY <2>5, <2>6
<1> QED BY <1>2, <1>3

\* From the end of the text to i.
ArrivesFrom(f, d) == \A i \in 1 .. Here : Here <= i + d => f[i] = ArriveAt(i, f)

\* There is a function that says what is come to, from the last word to the first.
LEMMA ArrivesThere ==
  ASSUME NEW B, NEW own, Whole(text, B, own, Owners), text \in Seq(Word)
  PROVE  \E f : f = [i \in 1 .. Here |-> ArriveAt(i, f)]
<1>1. Here \in Nat /\ Here # 0 BY DEF Here
<1>2. PICK K : K = {d \in Nat : \E f : ArrivesFrom(f, d)} OBVIOUS
<1>3. 0 \in K
  <2>1. PICK f : f = [i \in 1 .. Here |-> End] OBVIOUS
  <2>2. \A i \in 1 .. Here : Here <= i + 0 => i = Here BY <1>1
  <2>3. ArriveAt(Here, f) = End BY DEF ArriveAt
  <2>4. f[Here] = End BY <1>1, <2>1
  <2>5. ArrivesFrom(f, 0) BY <2>2, <2>3, <2>4 DEF ArrivesFrom
  <2> QED BY <1>2, <2>5
<1>4. ASSUME NEW d \in Nat, d \in K PROVE d + 1 \in K
  <2>1. PICK f : ArrivesFrom(f, d) BY <1>2, <1>4
  <2>2. PICK g : g = [i \in 1 .. Here |-> IF Here <= i + d THEN f[i] ELSE ArriveAt(i, f)] OBVIOUS
  <2>3. ASSUME NEW i \in 1 .. Here, Here <= i + (d + 1) PROVE g[i] = ArriveAt(i, g)
    <3>1. \A j \in 1 .. Here : i < j => Here <= j + d BY <1>1, <2>3
    <3>2. \A j \in 1 .. Here : i < j => f[j] = g[j] BY <2>2, <3>1
    <3>3. ArriveAt(i, f) = ArriveAt(i, g) BY <3>2, ArriveSame
    <3>4. CASE Here <= i + d
      <4>1. g[i] = f[i] BY <2>2, <3>4
      <4>2. f[i] = ArriveAt(i, f) BY <2>1, <3>4 DEF ArrivesFrom
      <4> QED BY <3>3, <4>1, <4>2
    <3>5. CASE ~(Here <= i + d) BY <2>2, <3>3, <3>5
    <3> QED BY <3>4, <3>5
  <2>4. ArrivesFrom(g, d + 1) BY <2>3 DEF ArrivesFrom
  <2> QED BY <1>2, <2>4
<1>5. \A d \in Nat : d \in K BY ONLY <1>3, <1>4, Counting
<1>6. PICK f : ArrivesFrom(f, Here) BY <1>1, <1>2, <1>5
<1>7. PICK g : g = [i \in 1 .. Here |-> f[i]] OBVIOUS
<1>8. ASSUME NEW i \in 1 .. Here PROVE g[i] = ArriveAt(i, g)
  <2>1. Here <= i + Here BY <1>1
  <2>2. f[i] = ArriveAt(i, f) BY <1>6, <2>1 DEF ArrivesFrom
  <2>3. \A j \in 1 .. Here : i < j => f[j] = g[j] BY <1>7
  <2>4. ArriveAt(i, f) = ArriveAt(i, g) BY <2>3, ArriveSame
  <2> QED BY <1>7, <2>2, <2>4
<1>9. g = [i \in 1 .. Here |-> ArriveAt(i, g)]
  <2>1. g = [i \in 1 .. Here |-> g[i]] BY <1>7
  <2> QED BY ONLY <1>8, <2>1
<1> QED BY <1>9

\* Arrives is one.
LEMMA ArrivesIs ==
  ASSUME NEW B, NEW own, Whole(text, B, own, Owners), text \in Seq(Word)
  PROVE  \A i \in 1 .. Here : Arrives[i] = ArriveAt(i, Arrives)
<1>1. PICK g : g = CHOOSE f : f = [i \in 1 .. Here |-> ArriveAt(i, f)] OBVIOUS
<1>2. Arrives = g BY ONLY <1>1 DEF Arrives
<1>3. g = [i \in 1 .. Here |-> ArriveAt(i, g)] BY <1>1, ArrivesThere
<1>4. \A i \in 1 .. Here : g[i] = ArriveAt(i, g)
  <2> SUFFICES ASSUME NEW i \in 1 .. Here PROVE g[i] = ArriveAt(i, g) OBVIOUS
  <2>1. PICK v : v = ArriveAt(i, g) OBVIOUS
  <2> QED BY <1>3
<1> QED BY <1>2, <1>4

\* Arrives, in the words of the lemmas.
LEMMA ArrivingNow ==
  ASSUME NEW B, NEW own, Whole(text, B, own, Owners), text \in Seq(Word)
  PROVE  Arriving(text, Owners, Arrives)
<1>1. PICK f : f = Arrives OBVIOUS
<1>2. \A i \in 1 .. Here : f[i] = ArriveAt(i, f) BY <1>1, ArrivesIs
<1>3. Len(text) \in Nat /\ Here = Len(text) + 1 /\ Here \in 1 .. Here BY DEF Here
<1>4. f[Len(text) + 1] = End
  <2>1. f[Here] = ArriveAt(Here, f) BY <1>2, <1>3
  <2>2. ArriveAt(Here, f) = End BY DEF ArriveAt
  <2> QED BY <1>3, <2>1, <2>2
<1>5. ASSUME NEW p \in 1 .. Len(text)
      PROVE  /\ text[p] \in Straight => f[p] = <<p, "run">>
             /\ text[p] = "if" => f[p] = <<p, "test">>
             /\ text[p] = "endfor" => f[p] = <<Owners[p], "step">>
             /\ text[p] \in {"for", "endif"} => f[p] = f[p + 1]
             /\ text[p] = "else" =>
                  \A j \in 1 .. Len(text) : text[j] \in Closer /\ Owners[j] = Owners[p] => f[p] = f[j + 1]
  <2>1. p \in 1 .. Here /\ p # Here BY <1>3
  <2>2. f[p] = ArriveAt(p, f) BY <1>2, <2>1
  <2>3. text[p] \in Straight => f[p] = <<p, "run">> BY <2>1, <2>2 DEF ArriveAt, Straight
  <2>4. text[p] = "if" => f[p] = <<p, "test">> BY <2>1, <2>2 DEF ArriveAt
  <2>5. text[p] = "endfor" => f[p] = <<OwnerOf(p), "step">> BY <2>1, <2>2 DEF ArriveAt
  <2>6. text[p] = "endfor" => OwnerOf(p) = Owners[p] BY OwnerIs DEF Closer
  <2>7. text[p] \in {"for", "endif"} => f[p] = f[p + 1] BY <2>1, <2>2 DEF ArriveAt
  <2>8. ASSUME text[p] = "else", NEW j \in 1 .. Len(text), text[j] \in Closer, Owners[j] = Owners[p]
        PROVE  f[p] = f[j + 1]
    <3>1. f[p] = f[EndOf(OwnerOf(p)) + 1] BY <2>1, <2>2, <2>8 DEF ArriveAt
    <3>2. EndOf(OwnerOf(p)) \in PartsOf(text, Owners, Owners[p], Closer) BY <2>8, EndBehind
    <3>3. j \in PartsOf(text, Owners, Owners[p], Closer) BY <2>8 DEF PartsOf
    <3>4. EndOf(OwnerOf(p)) = j BY <3>2, <3>3, PartOne DEF Whole
    <3> QED BY <3>1, <3>4
  <2> QED BY <2>3, <2>4, <2>5, <2>6, <2>7, <2>8
<1> QED BY <1>1, <1>4, <1>5 DEF Arriving

\* What the blocks begin with after n steps, when f says it for the steps before.
WithinAt(f, n) == [b \in Block |-> IF n = 0 THEN {} ELSE Comes(blocks[b][1], f[n - 1])]
EntersFor(f, d) == \A n \in 0 .. Here : n <= d => f[n] = WithinAt(f, n)

\* There is a function that says what the blocks begin with, step by step.
LEMMA EntersThere ==
  ASSUME text \in Seq(Word)
  PROVE  \E f : f = [n \in 0 .. Here |-> WithinAt(f, n)]
<1>1. PICK h : h = Here OBVIOUS
<1>2. h \in Nat BY <1>1 DEF Here
<1>3. PICK K : K = {d \in Nat : \E f : EntersFor(f, d)} OBVIOUS
<1>4. ASSUME NEW f, NEW g, NEW n, n # 0 => f[n - 1] = g[n - 1]
      PROVE  WithinAt(f, n) = WithinAt(g, n)
  BY <1>4 DEF WithinAt
<1>5. 0 \in K
  <2>1. PICK f : f = [n \in 0 .. h |-> WithinAt(<< >>, 0)] OBVIOUS
  <2>2. \A n \in 0 .. h : n <= 0 => n = 0 BY <1>2
  <2>3. WithinAt(f, 0) = WithinAt(<< >>, 0) BY <1>4
  <2>4. f[0] = WithinAt(<< >>, 0) BY <1>2, <2>1
  <2>5. EntersFor(f, 0) BY <1>1, <2>2, <2>3, <2>4 DEF EntersFor
  <2> QED BY <1>3, <2>5
<1>6. ASSUME NEW d \in Nat, d \in K PROVE d + 1 \in K
  <2>1. PICK f : EntersFor(f, d) BY <1>3, <1>6
  <2>2. PICK g : g = [n \in 0 .. h |-> IF n <= d THEN f[n] ELSE WithinAt(f, n)] OBVIOUS
  <2>3. ASSUME NEW n \in 0 .. h, n <= d + 1 PROVE g[n] = WithinAt(g, n)
    <3>1. n # 0 => n - 1 \in 0 .. h /\ n - 1 <= d BY <1>2, <2>3
    <3>2. n # 0 => g[n - 1] = f[n - 1] BY <2>2, <3>1
    <3>3. WithinAt(g, n) = WithinAt(f, n) BY <1>4, <3>2
    <3>4. CASE n <= d
      <4>1. g[n] = f[n] BY <2>2, <3>4
      <4>2. f[n] = WithinAt(f, n) BY <1>1, <2>1, <3>4 DEF EntersFor
      <4> QED BY <3>3, <4>1, <4>2
    <3>5. CASE ~(n <= d) BY <2>2, <3>3, <3>5
    <3> QED BY <3>4, <3>5
  <2>4. EntersFor(g, d + 1) BY <1>1, <2>3 DEF EntersFor
  <2> QED BY <1>3, <2>4
<1>7. \A d \in Nat : d \in K BY ONLY <1>5, <1>6, Counting
<1>8. PICK f : EntersFor(f, h) BY <1>2, <1>3, <1>7
<1>9. PICK g : g = [n \in 0 .. h |-> f[n]] OBVIOUS
<1>10. ASSUME NEW n \in 0 .. h PROVE g[n] = WithinAt(g, n)
  <2>1. n <= h /\ (n # 0 => n - 1 \in 0 .. h) BY <1>2
  <2>2. f[n] = WithinAt(f, n) BY <1>1, <1>8, <2>1 DEF EntersFor
  <2>3. n # 0 => g[n - 1] = f[n - 1] BY <1>9, <2>1
  <2>4. WithinAt(g, n) = WithinAt(f, n) BY <1>4, <2>3
  <2> QED BY <1>9, <2>2, <2>4
<1>11. g = [n \in 0 .. h |-> WithinAt(g, n)]
  <2>1. g = [n \in 0 .. h |-> g[n]] BY <1>9
  <2> QED BY ONLY <1>10, <2>1
<1> QED BY <1>1, <1>11

\* Enters is what it says of the last step.
LEMMA EntersIs ==
  ASSUME text \in Seq(Word)
  PROVE  \E win : EntersTo(blocks, win, Here) /\ Enters = win[Here]
<1>1. PICK g : g = CHOOSE f : f = [n \in 0 .. Here |-> WithinAt(f, n)] OBVIOUS
<1>2. Enters = g[Here] BY ONLY <1>1 DEF Enters, WithinAt
<1>3. g = [n \in 0 .. Here |-> WithinAt(g, n)] BY <1>1, EntersThere
<1>4. ASSUME NEW n \in 0 .. Here, NEW b \in 1 .. Len(blocks), n # 0
      PROVE  g[n][b] = Comes(blocks[b][1], g[n - 1])
  <2>1. PICK v : v = WithinAt(g, n) OBVIOUS
  <2>2. g[n] = v BY <1>3, <2>1
  <2>3. v[b] = Comes(blocks[b][1], g[n - 1]) BY <1>4, <2>1 DEF WithinAt, Block
  <2> QED BY <2>2, <2>3
<1>5. EntersTo(blocks, g, Here) BY <1>4 DEF EntersTo
<1> QED BY <1>2, <1>5

\* What the code of a statement leads to, in both ways of writing it.
LEMMA LeadsIs ==
  ASSUME NEW B, NEW own, Whole(text, B, own, Owners), text \in Seq(Word),
         NEW arr, arr[Len(text) + 1] = End, NEW i \in 1 .. Len(text)
  PROVE  Leads(i, arr) = LeadsIn(text, Owners, arr, i)
<1>1. text[i] \in Word OBVIOUS
<1>2. Matched(text, Owners) /\ OwnersKnown(text, Owners) BY DEF Whole
<1>3. CASE text[i] = "return"
  <2>1. i = Len(text)
    <3>1. Len(text) \in Nat /\ i \notin 1 .. Len(text) - 1 BY <1>3 DEF Whole, Sizes
    <3> QED BY <3>1
  <2>2. Leads(i, arr) = {<< <<i, "run">>, End>>} BY <1>3 DEF Leads
  <2>3. LeadsIn(text, Owners, arr, i) = {<< <<i, "run">>, arr[i + 1]>>}
    BY <1>3 DEF LeadsIn, Straight
  <2> QED BY <2>1, <2>2, <2>3
<1>4. CASE text[i] \in {"do", "var"}
  <2>1. Leads(i, arr) = {<< <<i, "run">>, arr[i + 1]>>} BY <1>4 DEF Leads
  <2>2. LeadsIn(text, Owners, arr, i) = {<< <<i, "run">>, arr[i + 1]>>}
    BY <1>4 DEF LeadsIn, Straight
  <2> QED BY <2>1, <2>2
<1>5. CASE text[i] = "if"
  <2>1. Leads(i, arr) = {<< <<i, "test">>, arr[i + 1]>>, << <<i, "test">>, arr[ElseOf(i) + 1]>>}
    BY <1>5 DEF Leads
  <2>2. LeadsIn(text, Owners, arr, i) =
          {<< <<i, "test">>, arr[i + 1]>>}
          \cup {<< <<i, "test">>, arr[j + 1]>> : j \in PartsOf(text, Owners, i, {"else"})}
    BY <1>5 DEF LeadsIn, Straight
  <2>3. PICK j \in 1 .. Len(text) : text[j] = "else" /\ Owners[j] = i BY <1>2, <1>5 DEF Matched
  <2>4. j \in PartsOf(text, Owners, i, {"else"}) BY <2>3 DEF PartsOf
  <2>5. ElseOf(i) \in PartsOf(text, Owners, i, {"else"}) BY <2>4, PartIs DEF ElseOf
  <2>6. \A k \in PartsOf(text, Owners, i, {"else"}) : k = ElseOf(i) BY <1>2, <2>5, PartOne
  <2>7. PartsOf(text, Owners, i, {"else"}) = {ElseOf(i)} BY <2>5, <2>6
  <2> QED BY <2>1, <2>2, <2>7
<1>6. CASE text[i] = "for"
  <2>1. Leads(i, arr) = {<< <<i, "step">>, <<i, "test">> >>, << <<i, "test">>, arr[i + 1]>>,
                         << <<i, "test">>, arr[EndOf(i) + 1]>>}
    BY <1>6 DEF Leads
  <2>2. LeadsIn(text, Owners, arr, i) =
          {<< <<i, "step">>, <<i, "test">> >>, << <<i, "test">>, arr[i + 1]>>}
          \cup {<< <<i, "test">>, arr[j + 1]>> : j \in PartsOf(text, Owners, i, Closer)}
    BY <1>6 DEF LeadsIn, Straight
  <2>3. PICK j \in 1 .. Len(text) : text[j] \in Closer /\ Owners[j] = i
    BY <1>2, <1>6 DEF Matched, Opener
  <2>4. j \in PartsOf(text, Owners, i, Closer) BY <2>3 DEF PartsOf
  <2>5. EndOf(i) \in PartsOf(text, Owners, i, Closer) BY <2>4, PartIs DEF EndOf
  <2>6. \A k \in PartsOf(text, Owners, i, Closer) : k = EndOf(i) BY <1>2, <2>5, PartOne
  <2>7. PartsOf(text, Owners, i, Closer) = {EndOf(i)} BY <2>5, <2>6
  <2> QED BY <2>1, <2>2, <2>7
<1>7. CASE text[i] \in {"else", "endif", "endfor"}
  <2>1. Leads(i, arr) = {} BY <1>7 DEF Leads
  <2>2. LeadsIn(text, Owners, arr, i) = {} BY <1>7 DEF LeadsIn, Straight
  <2> QED BY <2>1, <2>2
<1> QED BY <1>1, <1>3, <1>4, <1>5, <1>6, <1>7 DEF Word

\* The code of a body that verifies runs as it is written.
LEMMA MeetsRuns == FInv /\ Meets => RunsAsWritten
<1> SUFFICES ASSUME FInv, Meets, Verified PROVE Generated = Meant BY DEF RunsAsWritten
<1>1. text \in Seq(Word) /\ Len(text) \in Nat BY DEF FInv, TypeOK
<1>2. PICK own : Whole(text, blocks, own, Owners) BY WholeNow
<1>3. PICK arr : arr = Arrives OBVIOUS
<1>4. Arriving(text, Owners, arr) BY <1>1, <1>2, <1>3, ArrivingNow
<1>5. PICK win : EntersTo(blocks, win, Here) /\ Enters = win[Here] BY <1>1, EntersIs
<1>6. PICK enter : enter = Enters OBVIOUS
<1>7. Begun(text, blocks, own, Owners, arr, enter)
  <2>1. PICK h : h = Here OBVIOUS
  <2>2. h = Len(text) + 1 /\ EntersTo(blocks, win, h) BY <1>5, <2>1 DEF Here
  <2>3. Begun(text, blocks, own, Owners, arr, win[h]) BY ONLY <1>2, <1>4, <2>2, EnterIs
  <2> QED BY <1>5, <1>6, <2>1, <2>3
<1>8. enter[1] = {arr[1]}
  <2>1. PICK s : MakersKnown(text, blocks, s, own) BY <1>2 DEF Whole
  <2>2. own[1] = Made(0, "body") /\ Len(blocks) # 0 BY <2>1 DEF MakersKnown
  <2>3. own[1].at + 1 = 1 /\ own[1].role = "body" BY <2>2 DEF Made
  <2>4. Starts(text, own, Owners, 1, 1) BY <2>3 DEF Starts
  <2>5. Len(blocks) \in Nat BY <1>2 DEF Whole, Sizes
  <2>6. 1 \in 1 .. Len(blocks) /\ 1 \in 1 .. Len(text) + 1 BY <1>1, <2>2, <2>5
  <2> QED BY <1>7, <2>4, <2>6 DEF Begun
<1>9. \A i \in 1 .. Len(text) : Leads(i, arr) = LeadsIn(text, Owners, arr, i)
  <2>1. arr[Len(text) + 1] = End BY <1>4 DEF Arriving
  <2> QED BY <1>1, <1>2, <2>1, LeadsIs
<1>10. \A b \in Block : After(b, enter) = AfterIn(blocks, b, enter) BY DEF After, AfterIn
<1>11. Meant = {<<End, arr[1]>>} \cup UNION {Leads(i, arr) : i \in 1 .. Len(text)}
  BY <1>3 DEF Meant
<1>12. Generated = {<<End, c>> : c \in enter[1]} \cup UNION {After(b, enter) : b \in Block}
  BY <1>6 DEF Generated
<1>13. {<<End, c>> : c \in enter[1]} = {<<End, arr[1]>>} BY <1>8
<1>14. UNION {After(b, enter) : b \in Block} \subseteq UNION {Leads(i, arr) : i \in 1 .. Len(text)}
  <2> SUFFICES ASSUME NEW b \in Block, NEW u \in After(b, enter)
               PROVE  \E i \in 1 .. Len(text) : u \in Leads(i, arr)
    OBVIOUS
  <2>1. b \in 1 .. Len(blocks) /\ u \in AfterIn(blocks, b, enter) BY <1>10 DEF Block
  <2>2. PICK i \in 1 .. Len(text) : u \in LeadsIn(text, Owners, arr, i)
    BY <1>2, <1>4, <1>7, <2>1, AfterLeads
  <2> QED BY <1>9, <2>2
<1>15. UNION {Leads(i, arr) : i \in 1 .. Len(text)} \subseteq UNION {After(b, enter) : b \in Block}
  <2> SUFFICES ASSUME NEW i \in 1 .. Len(text), NEW u \in Leads(i, arr)
               PROVE  \E b \in Block : u \in After(b, enter)
    OBVIOUS
  <2>1. u \in LeadsIn(text, Owners, arr, i) BY <1>9
  <2>2. PICK b \in 1 .. Len(blocks) : u \in AfterIn(blocks, b, enter)
    BY <1>2, <1>4, <1>7, <2>1, LeadsAfter
  <2>3. b \in Block BY DEF Block
  <2> QED BY <1>10, <2>2, <2>3
<1> QED BY <1>11, <1>12, <1>13, <1>14, <1>15

\* The code of every callable that verifies runs in the order of its text, whatever its
\* statements are and however deep they nest (the visits of the statements in
\* CodegenVisitor.cc).
THEOREM BodiesRun == Spec => []RunsAsWritten
<1>1. Init => FInv /\ Meets BY InitInv, InitMeets
<1>2. FInv /\ Meets /\ [Next]_vars => (FInv /\ Meets)' BY NextInv, NextMeets
<1>3. FInv /\ Meets => RunsAsWritten BY MeetsRuns
<1> QED BY <1>1, <1>2, <1>3, PTL DEF Spec
=============================================================================
