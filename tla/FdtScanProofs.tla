----------------------------- MODULE FdtScanProofs -----------------------------
(* For every device tree whose nodes nest: every node's done callback is called *)
(* once.  For every tidy one besides: the callback sees what its node says of   *)
(* itself, and the UART that is set up is the first the tree describes.         *)
EXTENDS FdtScan, SequenceTheorems, FiniteSetTheorems, WellFoundedInduction, TLAPS

--------------------------------------------------------------------------------
(* How a token changes the number of nodes that enclose the next one.          *)

\* How many of the tokens before the p-th are of kind t.
Count(toks, t, p) == Cardinality({k \in 1..(p - 1) : toks[k].t = t})

\* Passing a token counts it, if it is of that kind.
LEMMA CountStep ==
  ASSUME NEW toks, NEW t, NEW p \in Nat \ {0}
  PROVE  /\ Count(toks, t, 1) = 0
         /\ Count(toks, t, p) \in Nat
         /\ Count(toks, t, p + 1) = Count(toks, t, p) + (IF toks[p].t = t THEN 1 ELSE 0)
<1> DEFINE S == {k \in 1..(p - 1) : toks[k].t = t}
           R == {k \in 1..((p + 1) - 1) : toks[k].t = t}
<1>1. {k \in 1..(1 - 1) : toks[k].t = t} = {}
  OBVIOUS
<1>2. IsFiniteSet(S) /\ Cardinality(S) \in Nat
  <2>1. IsFiniteSet(1..(p - 1))
    BY FS_Interval
  <2>2. S \in SUBSET (1..(p - 1))
    OBVIOUS
  <2> QED BY <2>1, <2>2, FS_Subset, FS_CardinalityType
<1>3. CASE toks[p].t = t
  <2>1. R = S \cup {p} /\ p \notin S
    BY <1>3
  <2> HIDE DEF S, R
  <2>2. Cardinality(R) = Cardinality(S) + 1
    BY <1>2, <2>1, FS_AddElement
  <2> QED BY <1>1, <1>2, <1>3, <2>2, FS_EmptySet DEF Count, S, R
<1>4. CASE toks[p].t # t
  <2>1. R = S
    BY <1>4
  <2> HIDE DEF S, R
  <2>2. Cardinality(R) = Cardinality(S)
    BY <2>1
  <2> QED BY <1>1, <1>2, <1>4, <2>2, FS_EmptySet DEF Count, S, R
<1> QED BY <1>3, <1>4

\* A token that begins a node encloses the rest, one that ends a node does not.
LEMMA EnclosingStep ==
  ASSUME NEW toks, NEW p \in Nat \ {0}
  PROVE  /\ Enclosing(toks, 1) = 0
         /\ Enclosing(toks, p) \in Int
         /\ Enclosing(toks, p + 1) =
              Enclosing(toks, p) + (IF toks[p].t = "begin" THEN 1
                                    ELSE IF toks[p].t = "end" THEN -1 ELSE 0)
<1>1. \A q : Enclosing(toks, q) = Count(toks, "begin", q) - Count(toks, "end", q)
  BY DEF Enclosing, Count
<1>2. /\ Count(toks, "begin", 1) = 0 /\ Count(toks, "begin", p) \in Nat
      /\ Count(toks, "begin", p + 1)
           = Count(toks, "begin", p) + (IF toks[p].t = "begin" THEN 1 ELSE 0)
  BY CountStep
<1>3. /\ Count(toks, "end", 1) = 0 /\ Count(toks, "end", p) \in Nat
      /\ Count(toks, "end", p + 1)
           = Count(toks, "end", p) + (IF toks[p].t = "end" THEN 1 ELSE 0)
  BY CountStep
<1> QED BY <1>1, <1>2, <1>3

--------------------------------------------------------------------------------
(* What fdt_get_address makes of a property's cells.                           *)

\* The least number of a set: the prover's form of induction.
LEMMA Least ==
  ASSUME NEW T \in SUBSET Nat, T # {}
  PROVE  \E m \in T : \A k \in T : m <= k
<1> DEFINE Less == {q \in Nat \X Nat : q[1] < q[2]}
<1>1. IsWellFoundedOn(Less, Nat)
  BY NatLessThanWellFounded DEF OpToRel
<1>2. \A x, y \in Nat : <<y, x>> \in Less <=> y < x
  <2> TAKE x, y \in Nat
  <2>1. <<y, x>> \in Nat \X Nat /\ <<y, x>>[1] = y /\ <<y, x>>[2] = x
    OBVIOUS
  <2> QED BY <2>1, Zenon
<1> HIDE DEF Less
<1>3. \E x \in T : \A y \in T : <<y, x>> \notin Less
  BY <1>1, WFMin
<1>4. \A x, y \in Nat : ~(y < x) => x <= y
  OBVIOUS
<1> QED BY <1>2, <1>3, <1>4, Zenon

\* The remainder is the number below m that is a multiple of m away.
LEMMA Remainder ==
  ASSUME NEW m \in Nat \ {0}, NEW q \in Nat, NEW r \in 0..(m - 1)
  PROVE  (m * q + r) % m = r
<1> DEFINE a == m * q + r
           p == a \div m
           s == a % m
<1>1. a \in Nat
  OBVIOUS
<1>2. p \in Int /\ s \in 0..(m - 1) /\ a = m * p + s
  <2> HIDE DEF a
  <2>1. s \in 0..(m - 1)
    BY <1>1, SMT
  <2>2. p \in Int
    BY <1>1, SMT
  <2>3. a = m * p + s
    BY <1>1, SMT
  <2> QED BY <2>1, <2>2, <2>3
<1> HIDE DEF p, s
<1>3. m * (q - p) = s - r
  BY <1>2
<1>4. q - p = 0
  <2>1. CASE q - p >= 1
    <3>1. m * (q - p) >= m
      BY <1>2, <2>1
    <3> QED BY <1>2, <1>3, <3>1
  <2>2. CASE q - p <= -1
    <3>1. m * (q - p) <= -m
      BY <1>2, <2>2
    <3> QED BY <1>2, <1>3, <3>1
  <2> QED BY <1>2, <2>1, <2>2
<1>5. s = r
  BY <1>2, <1>3, <1>4
<1> QED BY <1>5 DEF s

\* One more cell pushes out the one before the last.
LEMMA NextCell ==
  ASSUME NEW x \in 0..(Cell - 1), NEW y \in 0..(Cell - 1), NEW z \in 0..(Cell - 1)
  PROVE  ((y + x * Cell) * Cell + z) % (Cell * Cell) = z + y * Cell
<1>1. Cell \in Nat \ {0} /\ x \in Nat /\ y \in Nat /\ z \in Nat
  BY FdtAssumption
<1> DEFINE m == Cell * Cell
           r == z + y * Cell
<1>2. m \in Nat \ {0}
  BY <1>1
<1>3. r \in 0..(m - 1)
  <2>1. y * Cell <= (Cell - 1) * Cell
    BY <1>1
  <2>2. (Cell - 1) * Cell = m - Cell
    BY <1>1
  <2> QED BY <1>1, <1>2, <2>1, <2>2
<1>4. (y + x * Cell) * Cell + z = m * x + r
  BY <1>1
<1> HIDE DEF m, r
<1>5. (m * x + r) % m = r
  BY <1>1, <1>2, <1>3, Remainder
<1> QED BY <1>4, <1>5 DEF m, r

\* fdt_get_address reads what the last two of the cells say.
LEMMA AddressFolds ==
  ASSUME NEW v \in Seq(0..(Cell - 1)), NEW n \in Nat, n <= Len(v)
  PROVE  get_address(n, v) = Address(n, v) /\ Address(n, v) \in Nat
<1> DEFINE Next_(g, m) == IF m = 0 THEN 0 ELSE (g[m - 1] * Cell + v[m]) % (Cell * Cell)
           Q(g) == g = [m \in 0..n |-> Next_(g, m)]
           f == [m \in 0..n |-> Address(m, v)]
           result == CHOOSE g : Q(g)
<1>1. \A m \in 1..n : v[m] \in 0..(Cell - 1) /\ v[m] \in Nat
  BY FdtAssumption
<1>2. \A m \in 0..n : Address(m, v) \in Nat
  BY <1>1, FdtAssumption, SMTT(30) DEF Address
<1>3. ASSUME NEW m \in 1..n
      PROVE  (Address(m - 1, v) * Cell + v[m]) % (Cell * Cell) = Address(m, v)
  <2> DEFINE y == IF m > 1 THEN v[m - 1] ELSE 0
             x == IF m > 2 THEN v[m - 2] ELSE 0
  <2>1. x \in 0..(Cell - 1) /\ y \in 0..(Cell - 1) /\ v[m] \in 0..(Cell - 1)
    BY <1>1, FdtAssumption
  <2>2. Address(m - 1, v) = y + x * Cell /\ Address(m, v) = v[m] + y * Cell
    BY <1>1, FdtAssumption DEF Address
  <2> HIDE DEF x, y
  <2> QED BY <2>1, <2>2, NextCell
<1>4. Q(f)
  <2>1. \A m \in 0..n : Next_(f, m) = Address(m, v)
    <3> TAKE m \in 0..n
    <3>1. CASE m = 0
      BY <3>1 DEF Address
    <3>2. CASE m # 0
      <4>1. m \in 1..n /\ m - 1 \in 0..n
        BY <3>2
      <4> QED BY <1>3, <3>2, <4>1
    <3> QED BY <3>1, <3>2
  <2> HIDE DEF Next_
  <2> QED BY <2>1
<1>5. Q(result)
  <2> HIDE DEF Q, f
  <2> QED BY <1>4
<1>6. \A m \in 0..n : result[m] = Address(m, v)
  <2> DEFINE T == {m \in 0..n : result[m] # Address(m, v)}
  <2>1. SUFFICES ASSUME T # {} PROVE FALSE
    BY DEF T
  <2>2. PICK m \in T : \A k \in T : m <= k
    <3>1. T \in SUBSET Nat
      OBVIOUS
    <3> HIDE DEF T
    <3> QED BY <2>1, <3>1, Least
  <2>3. result[m] = Next_(result, m)
    <3> HIDE DEF Next_, result
    <3> QED BY <1>5
  <2> HIDE DEF result
  <2>4. CASE m = 0
    BY <2>2, <2>3, <2>4 DEF Address
  <2>5. CASE m # 0
    <3>1. m \in 1..n /\ m - 1 \in 0..n /\ ~(m <= m - 1)
      BY <2>5
    <3>2. result[m - 1] = Address(m - 1, v)
      BY <2>2, <3>1
    <3> QED BY <1>3, <2>2, <2>3, <3>1, <3>2
  <2> QED BY <2>4, <2>5
<1>7. get_address(n, v) = result[n]
  BY DEF get_address
<1> HIDE DEF result
<1> QED BY <1>2, <1>6, <1>7

--------------------------------------------------------------------------------
(* The stack of activations.                                                   *)

Frame == [last : {0, 1}, at : 0..Len(Tok), cells : Nat]

\* What the assumption says of this board's tree.
LEMMA Tree ==
  ASSUME blob \in Blobs
  PROVE  /\ Len(Tok) \in Nat \ {0} /\ DOMAIN Tok = 1..Len(Tok)
         /\ Nesting(Len(Tok)) = 0
         /\ \A k \in DOMAIN Tok :
              /\ Tok[k].t = "stop" <=> k = Len(Tok)
              /\ Tok[k].t = "end" => Nesting(k) > 0
              /\ Tok[k].t = "prop" => Tok[k].value[1] \in Nat
BY FdtAssumption DEF Tok, Nesting

\* Cut to a pointer, an address is an address, and what was none still is none.
LEMMA PointerCuts ==
  ASSUME blob \in Blobs, NEW r \in Nat
  PROVE  Pointer(r) \in Nat /\ (Pointer(r) # 0 => r # 0)
<1>1. Cell \in Nat \ {0} /\ blob.pointers \in {Cell, Cell * Cell}
  BY FdtAssumption
<1>2. Cell * Cell \in Nat \ {0}
  <2>1. Cell * Cell >= Cell
    BY <1>1
  <2> QED BY <1>1, <2>1
<1>3. ASSUME NEW m \in Nat \ {0}
      PROVE  r % m \in Nat /\ 0 % m = 0
  <2>1. r % m \in 0..(m - 1)
    OBVIOUS
  <2>2. (m * 0 + 0) % m = 0
    BY Remainder
  <2>3. m * 0 + 0 = 0
    OBVIOUS
  <2> QED BY <2>1, <2>2, <2>3
<1>4. r % blob.pointers \in Nat /\ 0 % blob.pointers = 0
  BY <1>1, <1>2, <1>3
<1> QED BY <1>4 DEF Pointer

\* CallDone, when the activation's node still waits for its callback, calls it,
\* and touches no other node.
LEMMA DoneStep ==
  ASSUME StackInv, pc = "scan", CallDone
  PROVE  /\ dones' \in [Begins -> {0, 1}]
         /\ Depth > 1 => dones'[stack[Depth - 1].at] = 1
         /\ \A b \in Begins : Depth = 1 \/ b # stack[Depth - 1].at => dones'[b] = dones[b]
<1>1. Depth \in Nat /\ (Depth >= 1 => Top \in Frame)
  <2>1. stack \in Seq(Frame)
    BY DEF StackInv, Frame
  <2>2. Len(stack) \in Nat
    BY <2>1, LenProperties
  <2> QED BY <2>1, <2>2, ElementOfSeq DEF Depth, Top
<1>2. ASSUME Depth > 1
      PROVE  /\ stack[Depth - 1].at \in Begins
             /\ dones[stack[Depth - 1].at] = Top.last
             /\ Top.last \in {0, 1}
  <2>1. Depth - 1 \in 1..(Depth - 1) /\ (Depth - 1) + 1 = Depth
    BY <1>1, <1>2
  <2> QED BY <1>1, <1>2, <2>1 DEF StackInv, Top, Frame
<1>3. dones' = IF MayBeDone THEN [dones EXCEPT ![stack[Depth - 1].at] = @ + 1] ELSE dones
  BY DEF CallDone
<1>4. dones \in [Begins -> {0, 1}]
  BY DEF StackInv
<1>5. CASE MayBeDone
  BY <1>1, <1>2, <1>3, <1>4, <1>5 DEF MayBeDone
<1>6. CASE ~MayBeDone
  BY <1>1, <1>2, <1>3, <1>4, <1>6 DEF MayBeDone
<1> QED BY <1>5, <1>6

\* The stack after a node begins at p.
Opened(st, d, p) == Append([st EXCEPT ![d].at = p, ![d].last = 1], Activation)

\* Opening a child: one activation more, and the one below is no longer the last.
LEMMA PushStep ==
  ASSUME NEW st \in Seq(Frame), NEW d, d = Len(st), d >= 1, NEW p \in 0..Len(Tok),
         NEW new, new = Opened(st, d, p)
  PROVE  /\ new \in Seq(Frame) /\ Len(new) = d + 1
         /\ \A k \in 1..(d - 1) : new[k] = st[k]
         /\ new[d].at = p /\ new[d].last = 1
         /\ new[d + 1] = Activation
<1> DEFINE mid == [st EXCEPT ![d].at = p, ![d].last = 1]
           top == [st[d] EXCEPT !.at = p, !.last = 1]
<1>1. Len(st) \in Nat /\ d \in 1..Len(st) /\ DOMAIN st = 1..Len(st)
  BY LenProperties
<1>2. st[d] \in Frame
  BY <1>1, ElementOfSeq
<1>3. top \in Frame /\ top.at = p /\ top.last = 1
  BY <1>2 DEF Frame
<1>4. mid = [st EXCEPT ![d] = top]
  BY <1>1
<1> HIDE DEF mid, top
<1>5. /\ mid \in Seq(Frame) /\ Len(mid) = d
      /\ \A j \in 1..d : mid[j] = IF j = d THEN top ELSE st[j]
  BY <1>1, <1>3, <1>4, ExceptSeq
<1>6. Activation \in Frame
  BY <1>1 DEF Activation, Frame
<1>7. /\ Append(mid, Activation) \in Seq(Frame)
      /\ Len(Append(mid, Activation)) = d + 1
      /\ \A j \in 1..d : Append(mid, Activation)[j] = mid[j]
      /\ Append(mid, Activation)[d + 1] = Activation
  BY <1>1, <1>5, <1>6, AppendProperties
<1> QED BY <1>1, <1>3, <1>5, <1>7 DEF mid, Opened

\* Returning: one activation less, the others as they were.
LEMMA PopStep ==
  ASSUME NEW st \in Seq(Frame), NEW d, d = Len(st), d >= 1
  PROVE  /\ Front(st) \in Seq(Frame) /\ Len(Front(st)) = d - 1
         /\ \A k \in 1..(d - 1) : Front(st)[k] = st[k]
<1>1. d \in Nat /\ \A k \in 1..(d - 1) : st[k] \in Frame
  BY LenProperties, ElementOfSeq
<1>2. /\ SubSeq(st, 1, d - 1) \in Seq(Frame)
      /\ Len(SubSeq(st, 1, d - 1)) = IF 1 <= d - 1 THEN (d - 1) - 1 + 1 ELSE 0
      /\ \A k \in 1..((d - 1) - 1 + 1) : SubSeq(st, 1, d - 1)[k] = st[1 + k - 1]
  BY <1>1, SubSeqProperties
<1> QED BY <1>1, <1>2 DEF Front

--------------------------------------------------------------------------------
(* Every step preserves StackInv.                                              *)

\* What holds while a tree is scanned: the position's nesting, before and after
\* its token, and the frames and nodes that nesting stands for.
LEMMA Scanning ==
  ASSUME StackInv, pc = "scan"
  PROVE  /\ lex \in Nat \ {0} /\ Nesting(lex) \in Nat
         /\ stack \in Seq(Frame) /\ Depth = Nesting(lex) + 1
         /\ Nesting(lex + 1) = Nesting(lex) + (IF Tok[lex].t = "begin" THEN 1
                                               ELSE IF Tok[lex].t = "end" THEN -1 ELSE 0)
         /\ Tok[lex].t # "stop" => lex + 1 \in DOMAIN Tok
<1>1. lex \in Nat \ {0} /\ (Tok[lex].t # "stop" => lex + 1 \in DOMAIN Tok)
  BY Tree DEF StackInv
<1>2. stack \in Seq(Frame) /\ Depth = Nesting(lex) + 1 /\ Depth \in Nat \ {0}
  BY LenProperties DEF StackInv, Frame, Depth
<1>3. /\ Enclosing(Tok, lex) \in Int
      /\ Enclosing(Tok, lex + 1) =
           Enclosing(Tok, lex) + (IF Tok[lex].t = "begin" THEN 1
                                  ELSE IF Tok[lex].t = "end" THEN -1 ELSE 0)
  BY <1>1, EnclosingStep
<1>4. Nesting(lex) = Enclosing(Tok, lex) /\ Nesting(lex + 1) = Enclosing(Tok, lex + 1)
  BY DEF Nesting
<1>5. Nesting(lex) \in Nat
  BY <1>2, <1>3, <1>4
<1> QED BY <1>1, <1>2, <1>3, <1>4, <1>5, Zenon

LEMMA NopStep == ASSUME StackInv, Nop PROVE StackInv'
<1>1. Tok' = Tok /\ Begins' = Begins /\ Depth' = Depth /\ Open' = Open
  BY DEF Nop, Tok, Begins, Depth, Open
<1>2. Nesting(lex)' = Nesting(lex) /\ lex' \in DOMAIN Tok
  BY Scanning, <1>1 DEF Nop, Nesting
<1>3. lex \notin Begins
  BY DEF Nop, Begins
<1>4. lex \in Nat /\ \A b \in Begins : b \in Nat
  BY Scanning, Tree DEF Nop, StackInv, Begins
<1> QED BY <1>1, <1>2, <1>3, <1>4 DEF StackInv, Nop

\* A property leaves the activations as they are, but for the cells of the last node.
LEMMA PropStack ==
  ASSUME StackInv, Prop
  PROVE  /\ stack' \in Seq(Frame) /\ Depth' = Depth /\ Depth \in Nat /\ Depth > 1
         /\ \A k \in 1..Depth : stack'[k].last = stack[k].last /\ stack'[k].at = stack[k].at
         /\ \A k \in 1..Depth : k # Depth - 1 => stack'[k] = stack[k]
         /\ IF Tok[lex].name = "#address-cells"
            THEN stack'[Depth - 1].cells = Tok[lex].value[1] ELSE stack' = stack
<1>1. /\ stack \in Seq(Frame) /\ Depth = Len(stack)
      /\ Depth \in Nat /\ Depth > 1 /\ Depth - 1 \in 1..Len(stack)
  BY Scanning, LenProperties DEF Prop, Depth
<1>2. CASE Tok[lex].name = "#address-cells"
  <2> DEFINE low == [stack[Depth - 1] EXCEPT !.cells = Tok[lex].value[1]]
  <2>1. stack[Depth - 1] \in Frame
    BY <1>1, ElementOfSeq
  <2>2. Tok[lex].value[1] \in Nat
    BY Tree DEF Prop, StackInv
  <2>3. /\ low \in Frame /\ low.last = stack[Depth - 1].last /\ low.at = stack[Depth - 1].at
        /\ low.cells = Tok[lex].value[1]
    BY <2>1, <2>2 DEF Frame
  <2>4. stack' = [stack EXCEPT ![Depth - 1] = low]
    BY <1>2 DEF Prop
  <2> HIDE DEF low
  <2> QED BY <1>1, <1>2, <2>3, <2>4, ExceptSeq DEF Depth
<1>3. CASE Tok[lex].name # "#address-cells"
  BY <1>1, <1>3 DEF Prop, Depth
<1> QED BY <1>2, <1>3

LEMMA PropStep == ASSUME StackInv, Prop PROVE StackInv'
<1>1. Tok' = Tok /\ Begins' = Begins
  BY DEF Prop, Tok, Begins
<1>2. Nesting(lex)' = Nesting(lex) /\ lex' \in DOMAIN Tok
  BY Scanning, <1>1 DEF Prop, Nesting
<1>3. lex \notin Begins /\ lex \in Nat /\ \A b \in Begins : b \in Nat
  <2>1. lex \in Nat
    BY Scanning DEF Prop
  <2> QED BY <2>1, Tree DEF Prop, StackInv, Begins
<1>4. /\ stack' \in Seq(Frame) /\ Depth' = Depth
      /\ \A k \in 1..Depth : stack'[k].last = stack[k].last /\ stack'[k].at = stack[k].at
  BY PropStack
<1>5. Open' = Open
  BY <1>4, Scanning DEF Open, Prop
<1>6. Frame' = Frame
  BY <1>1 DEF Frame
<1>7. \A k \in 1..(Depth - 1) :
        k \in 1..Depth /\ k + 1 \in 1..Depth /\ (\A j \in 1..(k - 1) : j \in 1..Depth)
  BY Scanning DEF Prop
<1>8. /\ blob' = blob /\ dones' = dones /\ pc = "scan" /\ pc' = "scan" /\ lex' = lex + 1
  BY DEF Prop
<1>9. \A k \in 1..(Depth' - 1) :
        /\ stack'[k].last = 1
        /\ stack'[k].at \in Begins /\ stack'[k].at < lex'
        /\ \A j \in 1..(k - 1) : stack'[j].at < stack'[k].at
        /\ dones'[stack'[k].at] = stack'[k + 1].last
  <2> SUFFICES ASSUME NEW k \in 1..(Depth' - 1)
               PROVE  /\ stack'[k].last = 1
                      /\ stack'[k].at \in Begins /\ stack'[k].at < lex'
                      /\ \A j \in 1..(k - 1) : stack'[j].at < stack'[k].at
                      /\ dones'[stack'[k].at] = stack'[k + 1].last
    OBVIOUS
  <2>1. k \in 1..(Depth - 1)
    BY <1>4
  <2>2. /\ stack'[k].last = stack[k].last /\ stack'[k].at = stack[k].at
        /\ stack'[k + 1].last = stack[k + 1].last
        /\ \A j \in 1..(k - 1) : stack'[j].at = stack[j].at
    BY <1>4, <1>7, <2>1
  <2>3. /\ stack[k].last = 1 /\ stack[k].at \in Begins /\ stack[k].at < lex
        /\ \A j \in 1..(k - 1) : stack[j].at < stack[k].at
        /\ dones[stack[k].at] = stack[k + 1].last
    BY <1>8, <2>1 DEF StackInv
  <2>4. stack[k].at < lex + 1
    BY <1>3, <2>3
  <2> QED BY <1>8, <2>2, <2>3, <2>4
<1> QED BY <1>1, <1>2, <1>3, <1>4, <1>5, <1>6, <1>8, <1>9 DEF StackInv, Frame

\* A node that begins opens an activation, and is where the one below it is now.
LEMMA BeginStack ==
  ASSUME StackInv, BeginNode
  PROVE  /\ stack' \in Seq(Frame) /\ Depth' = Depth + 1 /\ Depth \in Nat /\ Depth >= 1
         /\ \A k \in 1..(Depth - 1) : stack'[k] = stack[k]
         /\ stack'[Depth].at = lex /\ stack'[Depth].last = 1
         /\ stack'[Depth + 1].last = 0
<1>1. stack \in Seq(Frame) /\ Depth = Len(stack) /\ Depth \in Nat /\ Depth >= 1
  BY Scanning DEF BeginNode, Depth
<1>2. lex \in 0..Len(Tok)
  BY Scanning, Tree DEF BeginNode, StackInv
<1>3. stack' = Opened(stack, Depth, lex)
  BY DEF BeginNode, Opened
<1>4. /\ stack' \in Seq(Frame) /\ Len(stack') = Depth + 1
      /\ \A k \in 1..(Depth - 1) : stack'[k] = stack[k]
      /\ stack'[Depth].at = lex /\ stack'[Depth].last = 1
      /\ stack'[Depth + 1] = Activation
  <2>1. stack \in Seq(Frame)
    BY <1>1
  <2>2. Depth = Len(stack) /\ Depth >= 1
    BY <1>1
  <2> QED BY <1>2, <1>3, <2>1, <2>2, PushStep, SMTT(30)
<1>5. Depth' = Len(stack')
  BY DEF Depth
<1> QED BY <1>1, <1>4, <1>5 DEF Activation

\* The node that was innermost has had its callback, the new one has not.
LEMMA BeginStep == ASSUME StackInv, BeginNode PROVE StackInv'
<1>1. Tok' = Tok /\ Begins' = Begins /\ pc = "scan" /\ pc' = "scan" /\ lex' = lex + 1
  BY DEF BeginNode, Tok, Begins
<1>2. /\ lex \in Begins /\ lex \in Nat /\ (\A b \in Begins : b \in Nat)
      /\ lex' \in DOMAIN Tok /\ lex \in 0..Len(Tok)
  BY Scanning, Tree DEF BeginNode, StackInv, Begins
<1>3. /\ stack \in Seq(Frame) /\ Depth = Len(stack) /\ Depth \in Nat /\ Depth >= 1
      /\ Nesting(lex)' = Depth
  BY Scanning, <1>1 DEF BeginNode, Nesting, Depth
<1>4. /\ stack' \in Seq(Frame) /\ Depth' = Depth + 1
      /\ \A k \in 1..(Depth - 1) : stack'[k] = stack[k]
      /\ stack'[Depth].at = lex /\ stack'[Depth].last = 1
      /\ stack'[Depth + 1].last = 0
  BY BeginStack
<1>5. /\ dones' \in [Begins -> {0, 1}]
      /\ Depth > 1 => dones'[stack[Depth - 1].at] = 1
      /\ \A b \in Begins : Depth = 1 \/ b # stack[Depth - 1].at => dones'[b] = dones[b]
  BY DoneStep DEF BeginNode
<1>6. \A k \in 1..(Depth - 1) :
        /\ stack[k].last = 1 /\ stack[k].at \in Begins /\ stack[k].at < lex
        /\ \A j \in 1..(k - 1) : stack[j].at < stack[k].at
        /\ dones[stack[k].at] = stack[k + 1].last
  BY <1>1 DEF StackInv
<1>7. \A b \in Begins : b < lex => b \in Nat /\ b < lex'
  <2>1. \A b \in Nat : b < lex => b < lex + 1
    BY <1>2
  <2> QED BY <1>1, <1>2, <2>1, Zenon
<1>8. Open \subseteq Open' /\ lex \in Open'
  BY <1>3, <1>4 DEF Open
<1>9. ASSUME NEW k \in 1..(Depth' - 1)
      PROVE  /\ stack'[k].last = 1
             /\ stack'[k].at \in Begins /\ stack'[k].at < lex'
             /\ \A j \in 1..(k - 1) : stack'[j].at < stack'[k].at
             /\ dones'[stack'[k].at] = stack'[k + 1].last
  <2>1. CASE k = Depth
    <3>1. dones[lex] = 0
      BY <1>1, <1>2 DEF StackInv
    <3>2. Depth > 1 => stack[Depth - 1].at # lex
      BY <1>2, <1>3, <1>6
    <3> QED BY <1>1, <1>2, <1>3, <1>4, <1>5, <1>6, <2>1, <3>1, <3>2, SMTT(30)
  <2>2. CASE k = Depth - 1
    <3>1. k \in 1..(Depth - 1) /\ Depth > 1 /\ k + 1 = Depth /\ stack'[k] = stack[k]
      BY <1>3, <1>4, <2>2
    <3>2. \A j \in 1..(k - 1) : stack'[j] = stack[j]
      BY <1>3, <1>4, <2>2
    <3>3. dones'[stack'[k].at] = stack'[k + 1].last
      BY <1>4, <1>5, <2>2, <3>1
    <3>4. /\ stack[k].last = 1 /\ stack[k].at \in Begins /\ stack[k].at < lex'
          /\ \A j \in 1..(k - 1) : stack[j].at < stack[k].at
      <4>1. /\ stack[k].last = 1 /\ stack[k].at \in Begins /\ stack[k].at < lex
            /\ \A j \in 1..(k - 1) : stack[j].at < stack[k].at
        BY <1>6, <3>1, Zenon
      <4>2. stack[k].at < lex'
        BY <1>7, <4>1
      <4> QED BY <4>1, <4>2
    <3> QED BY <3>1, <3>2, <3>3, <3>4
  <2>3. CASE k < Depth - 1
    <3>1. /\ k \in 1..(Depth - 1) /\ stack'[k] = stack[k]
          /\ k + 1 \in 1..(Depth - 1) /\ stack'[k + 1] = stack[k + 1]
          /\ Depth - 1 \in 1..(Depth - 1) /\ k \in 1..((Depth - 1) - 1)
      BY <1>3, <1>4, <2>3
    <3>2. \A j \in 1..(k - 1) : stack'[j] = stack[j]
      BY <1>3, <1>4, <2>3
    <3>3. stack[k].at < stack[Depth - 1].at /\ stack[k].at \in Nat
      BY <1>2, <1>6, <3>1
    <3>4. dones'[stack[k].at] = dones[stack[k].at]
      BY <1>2, <1>5, <1>6, <3>1, <3>3
    <3>5. /\ stack[k].last = 1 /\ stack[k].at \in Begins /\ stack[k].at < lex
          /\ \A j \in 1..(k - 1) : stack[j].at < stack[k].at
          /\ dones[stack[k].at] = stack[k + 1].last
      BY <1>6, <3>1, Zenon
    <3>6. stack[k].at < lex'
      BY <1>7, <3>5
    <3> QED BY <3>1, <3>2, <3>4, <3>5, <3>6
  <2> QED BY <1>3, <1>4, <2>1, <2>2, <2>3
<1>10. ASSUME NEW b \in Begins
       PROVE  /\ b >= lex' => dones'[b] = 0
              /\ b < lex' /\ b \notin Open' => dones'[b] = 1
  <2>1. Depth > 1 => /\ stack[Depth - 1].at \in Open /\ stack[Depth - 1].at < lex
                     /\ stack[Depth - 1].at \in Nat
    <3> SUFFICES ASSUME Depth > 1
                 PROVE  /\ stack[Depth - 1].at \in Open /\ stack[Depth - 1].at < lex
                        /\ stack[Depth - 1].at \in Nat
      OBVIOUS
    <3>1. Depth - 1 \in 1..(Depth - 1)
      BY <1>3
    <3> QED BY <1>6, <1>7, <3>1, Zenon DEF Open
  <2>2. /\ b >= lex => dones[b] = 0
        /\ b < lex /\ b \notin Open => dones[b] = 1
    BY <1>1 DEF StackInv
  <2>3. CASE b >= lex'
    <3>1. b >= lex /\ (Depth = 1 \/ b # stack[Depth - 1].at)
      BY <1>1, <1>2, <1>3, <2>1, <2>3
    <3>2. dones'[b] = 0
      BY <1>5, <2>2, <3>1
    <3> QED BY <1>1, <1>2, <2>3, <3>2
  <2>4. CASE b < lex' /\ b \notin Open'
    BY <1>1, <1>2, <1>3, <1>5, <1>8, <2>1, <2>2, <2>4
  <2> QED BY <1>1, <1>2, <2>3, <2>4
<1>11. blob' = blob /\ Frame' = Frame /\ blob \in Blobs
  BY <1>1 DEF BeginNode, Frame, StackInv
<1>12. Depth' > 0 /\ Depth' = Nesting(lex)' + 1
  BY <1>3, <1>4
<1> QED BY <1>1, <1>2, <1>4, <1>5, <1>9, <1>10, <1>11, <1>12 DEF StackInv, Frame

\* A node that ends closes its activation.
LEMMA EndStack ==
  ASSUME StackInv, EndNode
  PROVE  /\ stack' \in Seq(Frame) /\ Depth' = Depth - 1 /\ Depth \in Nat /\ Depth > 1
         /\ Nesting(lex + 1) = Depth - 2
         /\ \A k \in 1..(Depth - 1) : stack'[k] = stack[k]
<1>1. /\ stack \in Seq(Frame) /\ Depth = Nesting(lex) + 1 /\ Nesting(lex) \in Nat
      /\ Nesting(lex + 1) = Nesting(lex) - 1
  BY Scanning DEF EndNode
<1>2. Nesting(lex) > 0
  BY Tree DEF EndNode, StackInv
<1>3. Depth = Len(stack) /\ Depth >= 1
  BY <1>1 DEF Depth
<1>4. stack' = Front(stack) /\ Depth' = Len(stack')
  BY DEF EndNode, Depth
<1>5. stack' \in Seq(Frame) /\ Depth' = Depth - 1 /\ \A k \in 1..(Depth - 1) : stack'[k] = stack[k]
  BY <1>1, <1>3, <1>4, PopStep
<1> QED BY <1>1, <1>2, <1>5

\* The node that ends has had its callback, at its first child or now.
LEMMA EndStep == ASSUME StackInv, EndNode PROVE StackInv'
<1>1. Tok' = Tok /\ Begins' = Begins /\ pc = "scan" /\ pc' = "scan" /\ lex' = lex + 1
  BY DEF EndNode, Tok, Begins
<1>2. /\ lex \notin Begins /\ lex \in Nat /\ (\A b \in Begins : b \in Nat)
      /\ lex' \in DOMAIN Tok
  BY Scanning, Tree DEF EndNode, StackInv, Begins
<1>3. /\ Depth \in Nat /\ Depth > 1 /\ Nesting(lex)' = Depth - 2
      /\ stack' \in Seq(Frame) /\ Depth' = Depth - 1
      /\ \A k \in 1..(Depth - 1) : stack'[k] = stack[k]
  BY EndStack, <1>1 DEF Nesting
<1>4. /\ stack' \in Seq(Frame) /\ Depth' = Depth - 1
      /\ \A k \in 1..(Depth - 1) : stack'[k] = stack[k]
  BY <1>3
<1>5. /\ dones' \in [Begins -> {0, 1}]
      /\ dones'[stack[Depth - 1].at] = 1
      /\ \A b \in Begins : b # stack[Depth - 1].at => dones'[b] = dones[b]
  BY <1>3, DoneStep DEF EndNode
<1>6. \A k \in 1..(Depth - 1) :
        /\ stack[k].last = 1 /\ stack[k].at \in Begins /\ stack[k].at < lex
        /\ \A j \in 1..(k - 1) : stack[j].at < stack[k].at
        /\ dones[stack[k].at] = stack[k + 1].last
  BY <1>1 DEF StackInv
<1>7. \A b \in Open : b \in Open' \/ b = stack[Depth - 1].at
  BY <1>3, <1>4 DEF Open
<1>8. stack[Depth - 1].at \in Begins /\ stack[Depth - 1].at < lex
  BY <1>3, <1>6
<1>9. ASSUME NEW k \in 1..(Depth' - 1)
      PROVE  /\ stack'[k].last = 1
             /\ stack'[k].at \in Begins /\ stack'[k].at < lex'
             /\ \A j \in 1..(k - 1) : stack'[j].at < stack'[k].at
             /\ dones'[stack'[k].at] = stack'[k + 1].last
  <2>1. /\ k \in 1..(Depth - 1) /\ stack'[k] = stack[k]
        /\ k + 1 \in 1..(Depth - 1) /\ stack'[k + 1] = stack[k + 1]
        /\ Depth - 1 \in 1..(Depth - 1) /\ k \in 1..((Depth - 1) - 1)
    BY <1>3, <1>4
  <2>2. \A j \in 1..(k - 1) : stack'[j] = stack[j]
    BY <1>3, <1>4
  <2>3. stack[k].at < stack[Depth - 1].at /\ stack[k].at \in Nat
    BY <1>2, <1>6, <2>1
  <2>4. dones'[stack[k].at] = dones[stack[k].at]
    BY <1>2, <1>5, <1>6, <1>8, <2>1, <2>3
  <2> QED BY <1>1, <1>2, <1>6, <2>1, <2>2, <2>3, <2>4
<1>10. ASSUME NEW b \in Begins
       PROVE  /\ b >= lex' => dones'[b] = 0
              /\ b < lex' /\ b \notin Open' => dones'[b] = 1
  <2>1. /\ b >= lex => dones[b] = 0
        /\ b < lex /\ b \notin Open => dones[b] = 1
    BY <1>1 DEF StackInv
  <2>2. CASE b >= lex'
    BY <1>1, <1>2, <1>5, <1>8, <2>1, <2>2
  <2>3. CASE b < lex' /\ b \notin Open'
    BY <1>1, <1>2, <1>5, <1>7, <2>1, <2>3
  <2> QED BY <1>1, <1>2, <2>2, <2>3
<1>11. blob' = blob /\ Frame' = Frame
  BY <1>1 DEF EndNode, Frame
<1> QED BY <1>1, <1>2, <1>3, <1>4, <1>5, <1>9, <1>10, <1>11, SMTT(30) DEF StackInv, Frame

\* FDT_END is met outside every node: nothing is open and all have been called.
LEMMA StopStep == ASSUME StackInv, Stop PROVE StackInv'
<1>1. Tok' = Tok /\ Begins' = Begins /\ pc = "scan"
  BY DEF Stop, Tok, Begins
<1>2. lex = Len(Tok) /\ Nesting(lex) = 0
  BY Tree DEF Stop, StackInv
<1>3. stack \in Seq(Frame) /\ Depth = Len(stack) /\ Depth = 1
  BY <1>1, <1>2, Scanning DEF Depth
<1>4. stack' \in Seq(Frame) /\ pc' = "query"
  <2>1. stack' = Front(stack) /\ pc' = "query"
    BY <1>3 DEF Stop
  <2>2. Depth >= 1
    BY <1>3
  <2> QED BY <1>3, <2>1, <2>2, PopStep, Zenon
<1>5. dones' = dones
  BY <1>3 DEF Stop, CallDone, MayBeDone
<1>6. Open = {}
  BY <1>3 DEF Open
<1>7. \A b \in Begins : b < lex
  BY <1>2, Tree DEF Begins, Stop, StackInv
<1>8. \A b \in Begins : dones[b] = 1
  BY <1>1, <1>6, <1>7 DEF StackInv
<1>9. blob' = blob /\ Frame' = Frame /\ lex' = lex
  BY <1>1 DEF Stop, Frame
<1> QED BY <1>1, <1>4, <1>5, <1>8, <1>9 DEF StackInv, Frame

\* Before the first token the outermost activation has no node.
LEMMA Start ==
  ASSUME Init
  PROVE  StackInv
<1>1. /\ blob \in Blobs /\ pc = "header" /\ lex = 1 /\ stack = <<Activation>>
      /\ dones = [b \in Begins |-> 0]
  BY DEF Init
<1>2. lex \in DOMAIN Tok /\ \A b \in Begins : b \in Nat /\ b >= 1
  BY <1>1, Tree DEF Begins
<1>3. Nesting(lex) = 0
  BY <1>1, EnclosingStep DEF Nesting
<1>4. <<Activation>> \in Seq(Frame) /\ Depth = 1
  <2>1. Activation \in Frame
    BY <1>1, Tree DEF Activation, Frame
  <2> QED BY <1>1, <2>1 DEF Depth
<1>5. 1..(Depth - 1) = {} /\ dones \in [Begins -> {0, 1}]
  BY <1>1, <1>4
<1> QED BY <1>1, <1>2, <1>3, <1>4, <1>5 DEF StackInv, Frame

\* StackInv holds always.
THEOREM StackAlways == Spec => []StackInv
<1>1. Init => StackInv
  BY Start
<1>2. StackInv /\ [Next]_vars => StackInv'
  <2> SUFFICES ASSUME StackInv, [Next]_vars PROVE StackInv'
    OBVIOUS
  <2>1. CASE ReadHeader
    <3>1. /\ Tok' = Tok /\ Begins' = Begins /\ Depth' = Depth /\ Open' = Open
          /\ Nesting(lex)' = Nesting(lex)
      BY <2>1 DEF ReadHeader, Tok, Begins, Depth, Open, Nesting
    <3> QED BY <2>1, <3>1 DEF ReadHeader, StackInv
  <2>2. CASE Nop
    BY <2>2, NopStep
  <2>3. CASE Prop
    BY <2>3, PropStep
  <2>4. CASE BeginNode
    BY <2>4, BeginStep
  <2>5. CASE EndNode
    BY <2>5, EndStep
  <2>6. CASE Stop
    BY <2>6, StopStep
  <2>7. CASE Query
    <3>1. Tok' = Tok /\ Begins' = Begins
      BY <2>7 DEF Query, Tok, Begins
    <3> QED BY <2>7, <3>1 DEF Query, StackInv
  <2>8. CASE UNCHANGED vars
    <3>1. /\ Tok' = Tok /\ Begins' = Begins /\ Depth' = Depth /\ Open' = Open
          /\ Nesting(lex)' = Nesting(lex)
      BY <2>8 DEF vars, Tok, Begins, Depth, Open, Nesting
    <3> QED BY <2>8, <3>1 DEF vars, StackInv
  <2> QED BY <2>1, <2>2, <2>3, <2>4, <2>5, <2>6, <2>7, <2>8 DEF Next
<1> QED BY <1>1, <1>2, PTL DEF Spec

\* Every node's done callback is called once, however the nodes are laid out.
THEOREM DoneCalledOnce == Spec => []DoneOnce
<1>1. StackInv => DoneOnce
  BY DEF StackInv, DoneOnce
<1> QED BY <1>1, StackAlways, PTL

--------------------------------------------------------------------------------
(* Which node an activation is in.                                             *)

\* While a tree is scanned: positions are numbers, and the nodes begun so far.
LEMMA Positions ==
  ASSUME StackInv, pc = "scan"
  PROVE  /\ lex \in Nat /\ (\A b \in Begins : b \in Nat)
         /\ Depth \in Nat /\ Depth >= 1 /\ Nesting(lex) = Depth - 1
         /\ \A k \in 1..(Depth - 1) :
              /\ stack[k].last = 1
              /\ stack[k].at \in Begins /\ stack[k].at < lex
              /\ \A j \in 1..(k - 1) : stack[j].at < stack[k].at
         /\ Top.last \in {0, 1}
<1>1. lex \in Nat /\ (\A b \in Begins : b \in Nat)
  BY Scanning, Tree DEF StackInv, Begins
<1>2. /\ stack \in Seq(Frame) /\ Depth = Nesting(lex) + 1 /\ Nesting(lex) \in Nat
      /\ Depth = Len(stack)
  BY Scanning DEF Depth
<1>3. Depth \in Nat /\ Depth >= 1 /\ Nesting(lex) = Depth - 1
  BY <1>2
<1>4. Top \in Frame
  <2>1. Depth \in 1..Len(stack)
    BY <1>2, <1>3
  <2> QED BY <1>2, <2>1, ElementOfSeq DEF Top
<1> QED BY <1>1, <1>3, <1>4 DEF StackInv, Frame

LEMMA SkipNest ==
  ASSUME StackInv, StackInv', NestInv, pc = "scan", Tok[lex].t \in {"prop", "nop"},
         blob' = blob, pc' = pc, lex' = lex + 1, Depth' = Depth,
         \A k \in 1..Depth : stack'[k].last = stack[k].last /\ stack'[k].at = stack[k].at
  PROVE  NestInv'
<1>1. Tok' = Tok /\ Begins' = Begins
  BY DEF Tok, Begins
<1>2. lex \in Nat /\ (\A b \in Begins : b \in Nat) /\ Depth \in Nat /\ Depth >= 1
  BY Positions
<1>3. \A b \in Begins : b < lex + 1 => b < lex
  <2>1. lex \notin Begins
    BY DEF Begins
  <2> QED BY <1>2, <2>1
<1>4. /\ \A k \in 1..(Depth - 1) : Nesting(stack[k].at) = k - 1
      /\ \A b \in Begins : b < lex => Nesting(b) \in Nat
      /\ \A b \in Begins : b < lex /\ Nesting(b) < Depth - 1 => b <= stack[Nesting(b) + 1].at
      /\ MayBeDone =>
           \A q \in (stack[Depth - 1].at + 1)..(lex - 1) : Tok[q].t \in {"prop", "nop"}
      /\ blob.magic
  BY DEF NestInv
<1>5. \A x : Nesting(x)' = Enclosing(Tok, x') /\ Nesting(x) = Enclosing(Tok, x)
  BY <1>1 DEF Nesting
<1>6. \A k \in 1..(Depth' - 1) : Nesting(stack[k].at)' = k - 1
  <2> TAKE k \in 1..(Depth' - 1)
  <2>1. k \in 1..(Depth - 1) /\ stack'[k].at = stack[k].at
    BY <1>2
  <2> QED BY <1>1, <1>4, <2>1 DEF Nesting
<1>7. \A b \in Begins : Nesting(b)' = Nesting(b)
  BY <1>1 DEF Nesting
<1>8. ASSUME NEW b \in Begins, b < lex', Nesting(b) < Depth - 1
      PROVE  b <= stack'[Nesting(b) + 1].at
  <2>1. b < lex
    BY <1>3, <1>8
  <2>2. Nesting(b) + 1 \in 1..Depth
    BY <1>2, <1>4, <1>8, <2>1
  <2> QED BY <1>4, <1>8, <2>1, <2>2
<1>9. ASSUME MayBeDone'
      PROVE  \A q \in (stack'[Depth' - 1].at + 1)..(lex' - 1) : Tok[q].t \in {"prop", "nop"}
  <2>1. Depth \in 1..Depth /\ (Depth > 1 => Depth - 1 \in 1..Depth)
    BY <1>2
  <2>2. Top.last = 0 /\ Depth > 1
    BY <1>9, <2>1 DEF MayBeDone, Top
  <2>3. stack'[Depth' - 1].at = stack[Depth - 1].at
    BY <2>1, <2>2
  <2>4. \A q \in (stack[Depth - 1].at + 1)..lex : q = lex \/ q \in (stack[Depth - 1].at + 1)..(lex - 1)
    BY <1>2, Positions, <2>2
  <2> QED BY <1>2, <1>4, <2>2, <2>3, <2>4 DEF MayBeDone
<1> QED BY <1>1, <1>3, <1>4, <1>6, <1>7, <1>8, <1>9 DEF NestInv

LEMMA BeginNest ==
  ASSUME StackInv, NestInv, BeginNode
  PROVE  NestInv'
<1>1. /\ Tok' = Tok /\ Begins' = Begins /\ pc = "scan" /\ lex' = lex + 1
      /\ lex \in Begins /\ blob' = blob
  BY DEF BeginNode, Tok, Begins, StackInv
<1>2. /\ lex \in Nat /\ (\A b \in Begins : b \in Nat) /\ Depth \in Nat /\ Depth >= 1
      /\ Nesting(lex) = Depth - 1
  BY <1>1, Positions
<1>3. /\ Depth' = Depth + 1
      /\ \A k \in 1..(Depth - 1) : stack'[k] = stack[k]
      /\ stack'[Depth].at = lex
  BY BeginStack
<1>4. /\ \A k \in 1..(Depth - 1) : Nesting(stack[k].at) = k - 1
      /\ \A b \in Begins : b < lex => Nesting(b) \in Nat
      /\ \A b \in Begins : b < lex /\ Nesting(b) < Depth - 1 => b <= stack[Nesting(b) + 1].at
      /\ blob.magic
  BY <1>1 DEF NestInv
<1>5. \A b \in Begins : Nesting(b)' = Nesting(b)
  BY <1>1 DEF Nesting
<1>6. \A b \in Begins : b < lex' => b < lex \/ b = lex
  BY <1>1, <1>2
<1>7. \A k \in 1..(Depth' - 1) : Nesting(stack[k].at)' = k - 1
  <2> TAKE k \in 1..(Depth' - 1)
  <2>1. CASE k = Depth
    <3>1. Nesting(stack[k].at)' = Nesting(lex)
      BY <1>1, <1>3, <2>1 DEF Nesting
    <3> QED BY <1>2, <2>1, <3>1
  <2>2. CASE k # Depth
    <3>1. k \in 1..(Depth - 1)
      BY <1>2, <1>3, <2>2
    <3>2. Nesting(stack[k].at)' = Nesting(stack[k].at)
      BY <1>1, <1>3, <3>1 DEF Nesting
    <3> QED BY <1>4, <3>1, <3>2
  <2> QED BY <2>1, <2>2
<1>8. ASSUME NEW b \in Begins, b < lex'
      PROVE  Nesting(b) \in Nat /\ (Nesting(b) < Depth' - 1 => b <= stack'[Nesting(b) + 1].at)
  <2>1. CASE b = lex
    <3>1. Nesting(b) = Depth - 1 /\ Nesting(b) + 1 = Depth
      BY <1>2, <2>1
    <3> QED BY <1>2, <1>3, <2>1, <3>1
  <2>2. CASE b < lex
    <3>1. Nesting(b) \in Nat
      BY <1>4, <2>2
    <3>2. CASE Nesting(b) = Depth - 1
      <4>1. Nesting(b) + 1 = Depth
        BY <1>2, <3>2
      <4> QED BY <1>2, <1>3, <2>2, <3>1, <4>1
    <3>3. CASE Nesting(b) < Depth - 1
      <4>1. Nesting(b) + 1 \in 1..(Depth - 1)
        BY <1>2, <3>1, <3>3
      <4>2. stack'[Nesting(b) + 1] = stack[Nesting(b) + 1]
        BY <1>3, <4>1
      <4> QED BY <1>4, <2>2, <3>1, <3>3, <4>2
    <3> QED BY <1>2, <1>3, <3>1, <3>2, <3>3
  <2> QED BY <1>6, <1>8, <2>1, <2>2
<1>9. \A q \in (stack'[Depth' - 1].at + 1)..(lex' - 1) : FALSE
  <2>1. stack'[Depth' - 1].at = lex
    BY <1>2, <1>3
  <2> QED BY <1>1, <1>2, <2>1
<1> QED BY <1>1, <1>4, <1>5, <1>7, <1>8, <1>9 DEF NestInv

LEMMA EndNest ==
  ASSUME StackInv, NestInv, EndNode
  PROVE  NestInv'
<1>1. /\ Tok' = Tok /\ Begins' = Begins /\ pc = "scan" /\ lex' = lex + 1
      /\ lex \notin Begins /\ blob' = blob
  BY DEF EndNode, Tok, Begins
<1>2. /\ lex \in Nat /\ (\A b \in Begins : b \in Nat) /\ Depth \in Nat /\ Depth >= 1
      /\ \A k \in 1..(Depth - 1) : stack[k].last = 1
  BY <1>1, Positions
<1>3. /\ Depth' = Depth - 1 /\ Depth > 1
      /\ \A k \in 1..(Depth - 1) : stack'[k] = stack[k]
  BY EndStack
<1>4. /\ \A k \in 1..(Depth - 1) : Nesting(stack[k].at) = k - 1
      /\ \A b \in Begins : b < lex => Nesting(b) \in Nat
      /\ \A b \in Begins : b < lex /\ Nesting(b) < Depth - 1 => b <= stack[Nesting(b) + 1].at
      /\ blob.magic
  BY <1>1 DEF NestInv
<1>5. \A b \in Begins : Nesting(b)' = Nesting(b)
  BY <1>1 DEF Nesting
<1>6. \A b \in Begins : b < lex' => b < lex
  BY <1>1, <1>2
<1>7. \A k \in 1..(Depth' - 1) : Nesting(stack[k].at)' = k - 1
  <2> TAKE k \in 1..(Depth' - 1)
  <2>1. k \in 1..(Depth - 1)
    BY <1>2, <1>3
  <2>2. Nesting(stack[k].at)' = Nesting(stack[k].at)
    BY <1>1, <1>3, <2>1 DEF Nesting
  <2> QED BY <1>4, <2>1, <2>2
<1>8. ASSUME NEW b \in Begins, b < lex'
      PROVE  Nesting(b) \in Nat /\ (Nesting(b) < Depth' - 1 => b <= stack'[Nesting(b) + 1].at)
  <2>1. Nesting(b) \in Nat /\ b < lex
    BY <1>4, <1>6, <1>8
  <2>2. ASSUME Nesting(b) < Depth' - 1
        PROVE  b <= stack'[Nesting(b) + 1].at
    <3>1. Nesting(b) + 1 \in 1..(Depth - 1) /\ Nesting(b) < Depth - 1
      BY <1>2, <1>3, <2>1, <2>2
    <3> QED BY <1>3, <1>4, <2>1, <3>1
  <2> QED BY <2>1, <2>2
<1>9. ~MayBeDone'
  <2>1. Depth - 1 \in 1..(Depth - 1)
    BY <1>2, <1>3
  <2>2. Top'.last = 1
    BY <1>2, <1>3, <2>1 DEF Top
  <2> QED BY <2>2 DEF MayBeDone
<1> QED BY <1>1, <1>4, <1>5, <1>7, <1>8, <1>9 DEF NestInv

LEMMA NestStep ==
  ASSUME StackInv, StackInv', NestInv, [Next]_vars
  PROVE  NestInv'
<1>1. CASE ReadHeader
  <2>1. stack' = <<Activation>> /\ lex' = 1 /\ blob' = blob /\ (pc' = "scan" => blob'.magic)
    BY <1>1 DEF ReadHeader, StackInv
  <2>2. Depth' = 1
    BY <2>1 DEF Depth
  <2>3. \A b \in Begins' : b \in Nat /\ b >= 1
    <3>1. Begins' \subseteq DOMAIN Tok /\ DOMAIN Tok \subseteq Nat \ {0}
      BY <2>1, Tree DEF Begins, Tok, StackInv
    <3> QED BY <3>1
  <2>4. 1..(Depth' - 1) = {} /\ ~MayBeDone' /\ \A b \in Begins' : ~(b < lex')
    BY <2>1, <2>2, <2>3 DEF MayBeDone
  <2> QED BY <2>1, <2>4 DEF NestInv
<1>2. CASE Nop
  BY <1>2, SkipNest DEF Nop, Depth
<1>3. CASE Prop
  BY <1>3, SkipNest, PropStack DEF Prop
<1>4. CASE BeginNode
  BY <1>4, BeginNest
<1>5. CASE EndNode
  BY <1>5, EndNest
<1>6. CASE Stop
  <2>1. pc' = "query"
    <3>1. lex = Len(Tok) /\ Nesting(Len(Tok)) = 0 /\ pc = "scan"
      BY <1>6, Tree DEF Stop, StackInv
    <3>2. Depth = 1
      BY <3>1, Positions
    <3> QED BY <1>6, <3>2 DEF Stop
  <2> QED BY <2>1 DEF NestInv
<1>7. CASE Query
  BY <1>7 DEF Query, NestInv
<1>8. CASE UNCHANGED vars
  <2>1. /\ Tok' = Tok /\ Begins' = Begins /\ Depth' = Depth /\ (MayBeDone' <=> MayBeDone)
        /\ pc' = pc /\ blob' = blob /\ stack' = stack /\ lex' = lex
    BY <1>8 DEF vars, Tok, Begins, Depth, MayBeDone, Top
  <2> QED BY <2>1 DEF NestInv, Nesting
<1> QED BY <1>1, <1>2, <1>3, <1>4, <1>5, <1>6, <1>7, <1>8 DEF Next

\* The node a position is directly in: nobody begun later is as deep.
LEMMA Innermost ==
  ASSUME NEW p, NEW b \in Begins, b < p, Nesting(b) + 1 = Nesting(p),
         \A c \in Begins : c \in Nat,
         \A c \in Begins : c < p /\ Nesting(c) + 1 = Nesting(p) => c <= b
  PROVE  Inner(p) = b
<1> DEFINE S == {c \in Begins : c < p /\ Nesting(c) + 1 = Nesting(p)}
<1>1. b \in S /\ \A c \in S : c \in Nat /\ b >= c
  OBVIOUS
<1>2. \A c \in S : (\A d \in S : c >= d) => c = b
  BY <1>1
<1> HIDE DEF S
<1>3. (CHOOSE c \in S : \A d \in S : c >= d) = b
  BY <1>1, <1>2
<1> QED BY <1>3 DEF Inner, Max, S

\* The position is directly in the node of the last activation but one, and each
\* node in that of the activation before.
LEMMA InnerIs ==
  ASSUME StackInv, NestInv, pc = "scan", NEW k \in 1..(Depth - 1)
  PROVE  /\ k = Depth - 1 => Inner(lex) = stack[k].at
         /\ k > 1 => Inner(stack[k].at) = stack[k - 1].at
<1>1. /\ lex \in Nat /\ (\A b \in Begins : b \in Nat)
      /\ Depth \in Nat /\ Depth >= 1 /\ Nesting(lex) = Depth - 1
      /\ \A j \in 1..(Depth - 1) :
           /\ stack[j].at \in Begins /\ stack[j].at < lex
           /\ \A n \in 1..(j - 1) : stack[n].at < stack[j].at
  BY Positions
<1>2. /\ \A j \in 1..(Depth - 1) : Nesting(stack[j].at) = j - 1
      /\ \A b \in Begins : b < lex => Nesting(b) \in Nat
      /\ \A b \in Begins : b < lex /\ Nesting(b) < Depth - 1 => b <= stack[Nesting(b) + 1].at
  BY DEF NestInv
<1>3. ASSUME k = Depth - 1
      PROVE  Inner(lex) = stack[k].at
  <2>1. stack[k].at \in Begins /\ stack[k].at < lex /\ Nesting(stack[k].at) + 1 = Nesting(lex)
    BY <1>1, <1>2, <1>3
  <2>2. ASSUME NEW c \in Begins, c < lex, Nesting(c) + 1 = Nesting(lex)
        PROVE  c <= stack[k].at
    <3>1. Nesting(c) < Depth - 1 /\ Nesting(c) + 1 = k
      BY <1>1, <1>2, <1>3, <2>2
    <3> QED BY <1>2, <2>2, <3>1
  <2> QED BY <1>1, <2>1, <2>2, Innermost
<1>4. ASSUME k > 1
      PROVE  Inner(stack[k].at) = stack[k - 1].at
  <2>1. /\ k - 1 \in 1..(Depth - 1) /\ k - 1 \in 1..(k - 1)
        /\ stack[k - 1].at \in Begins /\ stack[k - 1].at < stack[k].at
        /\ Nesting(stack[k - 1].at) + 1 = Nesting(stack[k].at)
    <3>1. k - 1 \in 1..(Depth - 1) /\ k - 1 \in 1..(k - 1)
      BY <1>1, <1>4
    <3>2. Nesting(stack[k - 1].at) = (k - 1) - 1 /\ Nesting(stack[k].at) = k - 1
      BY <1>2, <3>1
    <3> QED BY <1>1, <3>1, <3>2
  <2>2. ASSUME NEW c \in Begins, c < stack[k].at, Nesting(c) + 1 = Nesting(stack[k].at)
        PROVE  c <= stack[k - 1].at
    <3>1. c < lex
      BY <1>1, <2>2
    <3>2. Nesting(stack[k].at) = k - 1
      BY <1>2
    <3>3. Nesting(c) \in Nat
      BY <1>2, <3>1
    <3>4. Nesting(c) < Depth - 1 /\ Nesting(c) + 1 = k - 1
      BY <1>1, <2>2, <3>2, <3>3
    <3> QED BY <1>2, <2>2, <3>1, <3>4
  <2> QED BY <1>1, <2>1, <2>2, Innermost
<1> QED BY <1>3, <1>4

--------------------------------------------------------------------------------
(* What a tidy tree says of its nodes.                                         *)

LEMMA PropOf ==
  ASSUME Tidy, NEW b, NEW p \in Own(b)
  PROVE  /\ p \in DOMAIN Tok /\ Tok[p].t = "prop" /\ b < p /\ Inner(p) = b
         /\ \A q \in (b + 1)..(p - 1) : Tok[q].t \in {"prop", "nop"}
         /\ \A q \in Own(b) : Tok[q].name = Tok[p].name => q = p
         /\ Tok[p].value \in Seq(0..(Cell - 1)) /\ Len(Tok[p].value) >= 1
         /\ Tok[p].value[1] \in 0..(Cell - 1)
         /\ Tok[p].name = "compatible" => Tok[p].value \in {<<0>>, <<1>>}
         /\ Tok[p].name = "current-speed" => 16 * Tok[p].value[1] \in 1..(Cell - 1)
         /\ Tok[p].name = "reg" =>
              /\ Nesting(b) > 0 /\ Has(Inner(b), "#address-cells")
              /\ AddressCells(Inner(b)) <= Len(Tok[p].value)
<1>1. p \in DOMAIN Tok /\ Tok[p].t = "prop" /\ b < p /\ Inner(p) = b
  BY DEF Own
<1>2. /\ \A q \in (b + 1)..(p - 1) : Tok[q].t \in {"prop", "nop"}
      /\ \A q \in Own(b) : Tok[q].name = Tok[p].name => q = p
      /\ Tok[p].value \in Seq(0..(Cell - 1)) /\ Len(Tok[p].value) >= 1
      /\ Tok[p].name = "compatible" => Tok[p].value \in {<<0>>, <<1>>}
      /\ Tok[p].name = "current-speed" => 16 * Tok[p].value[1] \in 1..(Cell - 1)
      /\ Tok[p].name = "reg" =>
           /\ Nesting(b) > 0 /\ Has(Inner(b), "#address-cells")
           /\ AddressCells(Inner(b)) <= Len(Tok[p].value)
  BY <1>1 DEF Tidy
<1>3. ASSUME NEW v \in Seq(0..(Cell - 1)), Len(v) >= 1
      PROVE  v[1] \in 0..(Cell - 1)
  <2>1. 1 \in 1..Len(v)
    BY <1>3, LenProperties
  <2> QED BY <2>1, ElementOfSeq
<1>4. Tok[p].value[1] \in 0..(Cell - 1)
  BY <1>2, <1>3
<1> QED BY <1>1, <1>2, <1>4

\* What a node says under a name is what its property of that name says.
LEMMA ValueIs ==
  ASSUME Tidy, NEW b, NEW p \in Own(b)
  PROVE  Has(b, Tok[p].name) /\ Value(b, Tok[p].name) = Tok[p].value
<1> DEFINE name == Tok[p].name
<1>1. \A q \in Own(b) : Tok[q].name = name => q = p
  BY PropOf
<1>2. Tok[p].name = name
  OBVIOUS
<1> HIDE DEF name
<1>3. (CHOOSE q \in Own(b) : Tok[q].name = name) = p
  BY <1>1, <1>2
<1>4. Has(b, name) /\ Value(b, name) = Tok[p].value
  BY <1>2, <1>3 DEF Has, Value
<1> QED BY <1>4 DEF name

\* The property the scanner is at is the innermost node's own.
LEMMA HereOwn ==
  ASSUME StackInv, NestInv, pc = "scan", Tok[lex].t = "prop", Depth > 1
  PROVE  lex \in Own(stack[Depth - 1].at)
<1>1. Depth - 1 \in 1..(Depth - 1)
  BY Positions
<1>2. Inner(lex) = stack[Depth - 1].at /\ stack[Depth - 1].at < lex
  BY <1>1, InnerIs, Positions
<1> QED BY <1>2 DEF Own, StackInv

\* The tree does not change, nor what it says.
LEMMA Static ==
  ASSUME blob' = blob
  PROVE  /\ Tok' = Tok /\ Begins' = Begins /\ (Tidy' <=> Tidy) /\ Uarts' = Uarts
         /\ \A b : /\ Own(b)' = Own(b) /\ Inner(b)' = Inner(b) /\ Meaning(b)' = Meaning(b)
                   /\ AddressCells(b)' = AddressCells(b)
                   /\ Pointer(Meaning(b).reg)' = Pointer(Meaning(b).reg)
<1>1. Tok' = Tok /\ Begins' = Begins
  BY DEF Tok, Begins
<1>2. \A b : Nesting(b)' = Nesting(b) /\ Inner(b)' = Inner(b)
  BY <1>1 DEF Nesting, Inner
<1>3. \A b : Own(b)' = Own(b)
  BY <1>1, <1>2 DEF Own
<1>4. \A b, n : Has(b, n)' = Has(b, n) /\ Value(b, n)' = Value(b, n)
  BY <1>1, <1>3 DEF Has, Value
<1>5. \A b : AddressCells(b)' = AddressCells(b)
  BY <1>4 DEF AddressCells
<1>6. \A b : Meaning(b)' = Meaning(b)
  BY <1>2, <1>4, <1>5 DEF Meaning
<1>9. \A b : Pointer(Meaning(b).reg)' = Pointer(Meaning(b).reg)
  BY <1>6 DEF Pointer
<1>7. Uarts' = Uarts
  BY <1>1, <1>6, <1>9 DEF Uarts
<1>8. Tidy' <=> Tidy
  BY <1>1, <1>2, <1>3, <1>4, <1>5 DEF Tidy
<1> QED BY <1>1, <1>2, <1>3, <1>5, <1>6, <1>7, <1>8, <1>9

\* The address a tidy tree gives a node is a number.
LEMMA RegIs ==
  ASSUME Tidy, NEW b
  PROVE  Meaning(b).reg \in Nat
<1>1. CASE Has(b, "reg")
  <2>1. PICK p \in Own(b) : Tok[p].name = "reg"
    BY <1>1 DEF Has
  <2>2. Value(b, "reg") = Tok[p].value
    BY <2>1, ValueIs
  <2>3. /\ Has(Inner(b), "#address-cells")
        /\ AddressCells(Inner(b)) <= Len(Tok[p].value)
        /\ Tok[p].value \in Seq(0..(Cell - 1))
    BY <2>1, PropOf
  <2>4. PICK q \in Own(Inner(b)) : Tok[q].name = "#address-cells"
    BY <2>3 DEF Has
  <2>5. AddressCells(Inner(b)) = Tok[q].value[1] /\ Tok[q].value[1] \in 0..(Cell - 1)
    <3>1. Value(Inner(b), "#address-cells") = Tok[q].value
      BY <2>4, ValueIs
    <3>2. Tok[q].value[1] \in 0..(Cell - 1)
      BY <2>4, PropOf
    <3> QED BY <2>3, <3>1, <3>2 DEF AddressCells
  <2>6. AddressCells(Inner(b)) \in Nat
    BY <2>5, FdtAssumption
  <2>7. Address(AddressCells(Inner(b)), Tok[p].value) \in Nat
    BY <2>3, <2>6, AddressFolds
  <2> QED BY <1>1, <2>2, <2>7 DEF Meaning
<1>2. CASE ~Has(b, "reg")
  BY <1>2 DEF Meaning
<1> QED BY <1>1, <1>2

\* The cells of the buses around the position, as they are told.
LEMMA CellsStep ==
  ASSUME StackInv, NestInv, Tidy, CellsInv, [Next]_vars, StackInv'
  PROVE  CellsInv'
<1>1. blob' = blob
  BY DEF Next, ReadHeader, Nop, Prop, BeginNode, EndNode, Stop, Query, vars
<1>2. Tok' = Tok /\ \A b : Own(b)' = Own(b)
  BY <1>1, Static
<1>3. CASE ReadHeader
  <2>1. Depth' = 1
    BY <1>3 DEF ReadHeader, StackInv, Depth
  <2>2. 1..(Depth' - 1) = {}
    BY <2>1
  <2> QED BY <2>2 DEF CellsInv
<1>4. CASE Nop
  <2>1. /\ pc = "scan" /\ stack' = stack /\ Depth' = Depth /\ lex' = lex + 1 /\ Tok[lex].t = "nop"
    BY <1>4 DEF Nop, Depth
  <2>2. \A b : \A p \in Own(b) : p < lex + 1 => p < lex
    BY <2>1, Positions, Tree DEF Own, StackInv
  <2> QED BY <1>2, <2>1, <2>2 DEF CellsInv
<1>5. CASE Prop
  <2>1. /\ pc = "scan" /\ Depth' = Depth /\ lex' = lex + 1 /\ Depth > 1 /\ Depth \in Nat
        /\ \A k \in 1..Depth : stack'[k].at = stack[k].at
        /\ \A k \in 1..Depth : k # Depth - 1 => stack'[k] = stack[k]
        /\ IF Tok[lex].name = "#address-cells"
           THEN stack'[Depth - 1].cells = Tok[lex].value[1] ELSE stack' = stack
    BY <1>5, PropStack DEF Prop
  <2>2. lex \in Own(stack[Depth - 1].at)
    BY <1>5, <2>1, HereOwn DEF Prop
  <2>3. \A b : \A p \in Own(b) : p < lex + 1 => p < lex \/ p = lex
    BY <2>1, Positions, Tree DEF Own, StackInv
  <2>4. ASSUME NEW k \in 1..(Depth - 1), NEW p \in Own(stack[k].at), p < lex + 1,
               Tok[p].name = "#address-cells"
        PROVE  stack'[k].cells = Tok[p].value[1]
    <3>1. CASE p = lex
      <4>1. Inner(lex) = stack[k].at /\ Inner(lex) = stack[Depth - 1].at
        BY <2>2, <3>1 DEF Own
      <4>2. Depth - 1 \in 1..(Depth - 1) /\ (k < Depth - 1 => k \in 1..((Depth - 1) - 1))
        BY <2>1
      <4>3. k < Depth - 1 => stack[k].at < stack[Depth - 1].at
        BY <2>1, <4>2, Positions
      <4>4. stack[k].at \in Nat
        BY <2>1, Positions
      <4>5. k = Depth - 1
        BY <2>1, <4>1, <4>3, <4>4
      <4> QED BY <2>1, <2>4, <3>1, <4>5
    <3>2. CASE p < lex
      <4>1. stack[k].cells = Tok[p].value[1]
        BY <2>1, <2>4, <3>2 DEF CellsInv
      <4>2. CASE k = Depth - 1 /\ Tok[lex].name = "#address-cells"
        <5>1. lex = p
          BY <2>2, <2>4, <4>2, PropOf
        <5> QED BY <2>1, <3>2, <5>1, Positions
      <4>3. CASE ~(k = Depth - 1 /\ Tok[lex].name = "#address-cells")
        <5>1. stack'[k] = stack[k]
          BY <2>1, <4>3
        <5> QED BY <4>1, <5>1
      <4> QED BY <4>2, <4>3
    <3> QED BY <2>3, <2>4, <3>1, <3>2
  <2>5. \A k \in 1..(Depth - 1) : Own(stack[k].at)' = Own(stack[k].at)
    <3> TAKE k \in 1..(Depth - 1)
    <3>1. stack'[k].at = stack[k].at
      BY <2>1
    <3> QED BY <1>2, <3>1
  <2> QED BY <1>2, <2>1, <2>4, <2>5 DEF CellsInv
<1>6. CASE BeginNode
  <2>1. /\ pc = "scan" /\ Depth' = Depth + 1 /\ lex' = lex + 1 /\ Depth \in Nat
        /\ \A k \in 1..(Depth - 1) : stack'[k] = stack[k]
        /\ stack'[Depth].at = lex /\ Tok[lex].t = "begin"
    BY <1>6, BeginStack DEF BeginNode
  <2>2. \A b : \A p \in Own(b) : b < p /\ (p < lex + 1 => p < lex)
    BY <2>1, Positions, Tree DEF Own, StackInv
  <2>3. ASSUME NEW k \in 1..Depth, NEW p \in Own(stack[k].at)', p < lex + 1,
               Tok[p].name = "#address-cells"
        PROVE  stack'[k].cells = Tok[p].value[1]
    <3>1. p < lex
      BY <1>2, <2>2, <2>3
    <3>2. k # Depth
      <4>1. k = Depth => lex < p
        BY <1>2, <2>1, <2>2, <2>3
      <4>2. p \in Nat /\ lex \in Nat
        BY <1>2, <2>1, <2>3, Positions, Tree DEF Own, StackInv
      <4> QED BY <3>1, <4>1, <4>2
    <3>3. k \in 1..(Depth - 1) /\ stack'[k] = stack[k]
      BY <2>1, <3>2
    <3>4. p \in Own(stack[k].at)
      BY <1>2, <2>3, <3>3
    <3> QED BY <2>1, <2>3, <3>1, <3>3, <3>4 DEF CellsInv
  <2>4. Depth' - 1 = Depth
    BY <2>1
  <2> QED BY <1>2, <2>1, <2>3, <2>4 DEF CellsInv
<1>7. CASE EndNode
  <2>1. /\ pc = "scan" /\ Depth' = Depth - 1 /\ lex' = lex + 1 /\ Depth \in Nat
        /\ \A k \in 1..(Depth - 1) : stack'[k] = stack[k]
        /\ Tok[lex].t = "end"
    BY <1>7, EndStack DEF EndNode
  <2>2. \A b : \A p \in Own(b) : p < lex + 1 => p < lex
    <3> SUFFICES ASSUME NEW b, NEW p \in Own(b), p < lex + 1
                 PROVE  p < lex
      OBVIOUS
    <3>1. p \in DOMAIN Tok /\ Tok[p].t = "prop"
      BY DEF Own
    <3>2. p \in Nat /\ lex \in Nat /\ p # lex
      BY <2>1, <3>1, Positions, Tree DEF StackInv
    <3> QED BY <3>2
  <2>3. ASSUME NEW k \in 1..(Depth' - 1), NEW p \in Own(stack[k].at)', p < lex + 1,
               Tok[p].name = "#address-cells"
        PROVE  stack'[k].cells = Tok[p].value[1]
    <3>1. k \in 1..(Depth - 1) /\ stack'[k] = stack[k]
      BY <2>1
    <3>2. p \in Own(stack[k].at) /\ p < lex
      BY <1>2, <2>2, <2>3, <3>1
    <3> QED BY <2>1, <2>3, <3>1, <3>2 DEF CellsInv
  <2> QED BY <1>2, <2>1, <2>3 DEF CellsInv
<1>8. CASE Stop
  <2>1. Depth = 1
    <3>1. lex = Len(Tok) /\ Nesting(Len(Tok)) = 0 /\ pc = "scan"
      BY <1>8, Tree DEF Stop, StackInv
    <3> QED BY <3>1, Positions
  <2> QED BY <1>8, <2>1 DEF Stop, CellsInv
<1>9. CASE Query
  BY <1>9 DEF Query, CellsInv
<1>10. CASE UNCHANGED vars
  <2>1. stack' = stack /\ Depth' = Depth /\ lex' = lex /\ pc' = pc
    BY <1>10 DEF vars, Depth
  <2> QED BY <1>2, <2>1 DEF CellsInv
<1> QED BY <1>3, <1>4, <1>5, <1>6, <1>7, <1>8, <1>9, <1>10 DEF Next

\* A reg property is read with the cells its bus asks for.
LEMMA RegRead ==
  ASSUME StackInv, NestInv, Tidy, CellsInv, Prop, Tok[lex].name = "reg"
  PROVE  /\ Depth > 2
         /\ get_address(stack[Depth - 2].cells, Tok[lex].value)
              = Address(AddressCells(Inner(stack[Depth - 1].at)), Tok[lex].value)
         /\ get_address(stack[Depth - 2].cells, Tok[lex].value) \in Nat
<1> DEFINE b == stack[Depth - 1].at
           bus == stack[Depth - 2].at
<1>1. pc = "scan" /\ Depth \in Nat /\ Depth > 1 /\ Tok[lex].t = "prop" /\ lex \in Own(b)
  BY HereOwn, Positions DEF Prop
<1>2. /\ Nesting(b) > 0 /\ Has(Inner(b), "#address-cells")
      /\ AddressCells(Inner(b)) <= Len(Tok[lex].value)
      /\ Tok[lex].value \in Seq(0..(Cell - 1))
  BY <1>1, PropOf
<1>3. Depth > 2
  <2>1. Depth - 1 \in 1..(Depth - 1)
    BY <1>1
  <2>2. Nesting(b) = (Depth - 1) - 1
    BY <1>1, <2>1 DEF NestInv
  <2> QED BY <1>1, <1>2, <2>2
<1>4. Inner(b) = bus
  <2>1. Depth - 1 \in 1..(Depth - 1) /\ Depth - 1 > 1 /\ (Depth - 1) - 1 = Depth - 2
    BY <1>1, <1>3
  <2> QED BY <1>1, <2>1, InnerIs
<1>5. bus \in Nat /\ b \in Nat /\ lex \in Nat /\ b \in Begins /\ bus < b /\ b < lex
  <2>1. /\ Depth - 1 \in 1..(Depth - 1) /\ Depth - 2 \in 1..(Depth - 1)
        /\ Depth - 2 \in 1..((Depth - 1) - 1)
    BY <1>1, <1>3
  <2> QED BY <1>1, <2>1, Positions
<1> HIDE DEF b, bus
<1>6. PICK p \in Own(bus) : Tok[p].name = "#address-cells"
  BY <1>2, <1>4 DEF Has
<1>7. p < lex
  <2>1. \A q \in (bus + 1)..(p - 1) : Tok[q].t \in {"prop", "nop"}
    BY PropOf
  <2>2. Tok[b].t = "begin"
    BY <1>5 DEF Begins
  <2>3. b \notin (bus + 1)..(p - 1)
    BY <2>1, <2>2
  <2>4. p \in Nat
    BY Tree DEF Own, StackInv
  <2> QED BY <1>5, <2>3, <2>4
<1>8. stack[Depth - 2].cells = Tok[p].value[1]
  <2>1. Depth - 2 \in 1..(Depth - 1)
    BY <1>1, <1>3
  <2> QED BY <1>1, <1>6, <1>7, <2>1 DEF CellsInv, bus
<1>9. AddressCells(bus) = Tok[p].value[1]
  BY <1>2, <1>4, <1>6, ValueIs DEF AddressCells
<1>10. Tok[p].value[1] \in Nat
  <2>1. Tok[p].value[1] \in 0..(Cell - 1)
    BY PropOf
  <2> QED BY <2>1, FdtAssumption
<1>11. /\ get_address(Tok[p].value[1], Tok[lex].value) = Address(Tok[p].value[1], Tok[lex].value)
       /\ Address(Tok[p].value[1], Tok[lex].value) \in Nat
  BY <1>2, <1>4, <1>9, <1>10, AddressFolds
<1> QED BY <1>3, <1>4, <1>8, <1>9, <1>11 DEF b

--------------------------------------------------------------------------------
(* The types of the scan structure and of the UART's registers.                *)

Registers == [ier : 0..255, lcr : 0..255, dll : 0..255, dlm : 0..255, fcr : 0..255,
              sent : Seq(0..255)]
Scan == [compat : {0, 1}, reg : Nat, speed : Nat \cup {Null}, freq : Nat \cup {Null}]

\* Whatever is written to it, a register holds a byte.
LEMMA WriteByte ==
  ASSUME NEW d \in Registers, NEW reg, NEW value \in Nat
  PROVE  Write(d, <<reg, value>>) \in Registers
<1> DEFINE v == value % 256
           w == Write(d, <<reg, value>>)
<1>1. v \in 0..255
  OBVIOUS
<1>2. /\ d.ier \in 0..255 /\ d.lcr \in 0..255 /\ d.dll \in 0..255
      /\ d.dlm \in 0..255 /\ d.fcr \in 0..255 /\ d.sent \in Seq(0..255)
  BY DEF Registers
<1>3. Append(d.sent, v) \in Seq(0..255)
  BY <1>1, <1>2, AppendProperties
<1>4. w = [ier |-> w.ier, lcr |-> w.lcr, dll |-> w.dll, dlm |-> w.dlm, fcr |-> w.fcr,
           sent |-> w.sent]
  BY DEF Write
<1>5. /\ w.ier \in {v, d.ier} /\ w.lcr \in {v, d.lcr} /\ w.dll \in {v, d.dll}
      /\ w.dlm \in {v, d.dlm} /\ w.fcr \in {v, d.fcr}
      /\ w.sent \in {Append(d.sent, v), d.sent}
  BY DEF Write
<1> HIDE DEF v, w
<1>6. /\ w.ier \in 0..255 /\ w.lcr \in 0..255 /\ w.dll \in 0..255
      /\ w.dlm \in 0..255 /\ w.fcr \in 0..255
  <2>1. w.ier \in 0..255
    BY <1>1, <1>2, <1>5
  <2>2. w.lcr \in 0..255
    BY <1>1, <1>2, <1>5
  <2>3. w.dll \in 0..255
    BY <1>1, <1>2, <1>5
  <2>4. w.dlm \in 0..255
    BY <1>1, <1>2, <1>5
  <2>5. w.fcr \in 0..255
    BY <1>1, <1>2, <1>5
  <2>6. QED
    BY <2>1, <2>2, <2>3, <2>4, <2>5
<1>7. w.sent \in Seq(0..255)
  BY <1>2, <1>3, <1>5
<1>8. w \in Registers
  BY <1>4, <1>6, <1>7 DEF Registers
<1> QED BY <1>8 DEF w

\* The quotient of natural numbers is one.
LEMMA Quotient ==
  ASSUME NEW a \in Nat, NEW m \in Nat \ {0}
  PROVE  a \div m \in Nat
<1> DEFINE p == a \div m
           s == a % m
<1>1. p \in Int /\ s \in 0..(m - 1) /\ a = m * p + s
  <2>1. s \in 0..(m - 1)
    BY SMT
  <2>2. p \in Int
    BY SMT
  <2>3. a = m * p + s
    BY SMT
  <2> QED BY <2>1, <2>2, <2>3
<1> HIDE DEF p, s
<1>2. ~(p <= -1)
  <2> SUFFICES ASSUME p <= -1 PROVE FALSE
    OBVIOUS
  <2>1. m * p <= -m
    BY <1>1
  <2> QED BY <1>1, <2>1
<1>3. p \in Nat
  BY <1>1, <1>2
<1> QED BY <1>3 DEF p

\* The two bytes of the divisor, or 45 when the tree does not rate the UART.
LEMMA DivisorBytes ==
  ASSUME NEW s \in Scan
  PROVE  DivisorLo(s) \in Nat /\ DivisorHi(s) \in Nat
<1>1. CASE Rated(s)
  <2> DEFINE by == (16 * s.speed) % Cell
  <2>1. s.speed \in Nat /\ s.freq \in Nat
    BY <1>1 DEF Rated, Scan
  <2>2. by \in Nat
    <3>1. Cell \in Nat \ {0} /\ 16 * s.speed \in Nat
      BY <2>1, FdtAssumption
    <3> QED BY <3>1
  <2>3. Divisor(s) = IF by = 0 THEN Cell - 1 ELSE s.freq \div by
    BY DEF Divisor
  <2> HIDE DEF by
  <2>4. Divisor(s) \in Nat
    <3>1. by # 0 => s.freq \div by \in Nat
      BY <2>1, <2>2, Quotient
    <3>2. Cell - 1 \in Nat
      BY FdtAssumption
    <3> QED BY <2>3, <3>1, <3>2
  <2>5. \A n \in Nat : n % 256 \in Nat /\ n \div 256 \in Nat
    OBVIOUS
  <2> QED BY <1>1, <2>4, <2>5 DEF DivisorLo, DivisorHi
<1>2. CASE ~Rated(s)
  BY <1>2 DEF DivisorLo, DivisorHi
<1> QED BY <1>1, <1>2

\* Setting up is one write after the other.
LEMMA Six ==
  ASSUME NEW d, NEW s, NEW d1, NEW d2, NEW d3, NEW d4, NEW d5, NEW d6,
         d1 = Write(d, <<1, 0>>), d2 = Write(d1, <<3, 128>>),
         d3 = Write(d2, <<0, DivisorLo(s)>>), d4 = Write(d3, <<1, DivisorHi(s)>>),
         d5 = Write(d4, <<3, 3>>), d6 = Write(d5, <<2, 199>>)
  PROVE  Configure(d, s) = d6
<1> DEFINE W == Writes(s)
           Q(g) == g = [n \in 0..6 |-> IF n = 0 THEN d ELSE Write(g[n - 1], W[n])]
           f == [n \in 0..6 |-> IF n = 0 THEN d ELSE IF n = 1 THEN d1 ELSE IF n = 2 THEN d2
                   ELSE IF n = 3 THEN d3 ELSE IF n = 4 THEN d4 ELSE IF n = 5 THEN d5 ELSE d6]
           after == CHOOSE g : Q(g)
<1>1. /\ W[1] = <<1, 0>> /\ W[2] = <<3, 128>> /\ W[3] = <<0, DivisorLo(s)>>
      /\ W[4] = <<1, DivisorHi(s)>> /\ W[5] = <<3, 3>> /\ W[6] = <<2, 199>>
  BY DEF Writes
<1> HIDE DEF W
<1>2. Q(f)
  <2>1. \A n \in 0..6 : f[n] = IF n = 0 THEN d ELSE Write(f[n - 1], W[n])
    <3> TAKE n \in 0..6
    <3>1. n = 0 \/ n = 1 \/ n = 2 \/ n = 3 \/ n = 4 \/ n = 5 \/ n = 6
      OBVIOUS
    <3>2. /\ f[0] = d /\ f[1] = d1 /\ f[2] = d2 /\ f[3] = d3 /\ f[4] = d4 /\ f[5] = d5
          /\ f[6] = d6
      OBVIOUS
    <3> HIDE DEF f
    <3> QED BY <1>1, <3>1, <3>2
  <2>2. f = [n \in 0..6 |-> f[n]]
    OBVIOUS
  <2> HIDE DEF f
  <2> QED BY <2>1, <2>2
<1>3. Q(after)
  <2> HIDE DEF Q, f
  <2> QED BY <1>2
<1>4. Configure(d, s) = after[6]
  BY DEF Configure, W
<1> HIDE DEF after
<1>5. after[0] = d /\ \A n \in 1..6 : after[n] = Write(after[n - 1], W[n])
  BY <1>3
<1>6. after[1] = d1 /\ after[2] = Write(after[1], W[2])
  BY <1>1, <1>5
<1>7. after[2] = d2 /\ after[3] = Write(after[2], W[3])
  BY <1>1, <1>5, <1>6
<1>8. after[3] = d3 /\ after[4] = Write(after[3], W[4])
  BY <1>1, <1>5, <1>7
<1>9. after[4] = d4 /\ after[5] = Write(after[4], W[5])
  BY <1>1, <1>5, <1>8
<1>10. after[5] = d5 /\ after[6] = Write(after[5], W[6])
  BY <1>1, <1>5, <1>9
<1> QED BY <1>1, <1>4, <1>10

LEMMA ConfigureBytes ==
  ASSUME NEW d \in Registers, NEW s \in Scan
  PROVE  Configure(d, s) \in Registers
<1> DEFINE quiet == Write(d, <<1, 0>>)
           dlab  == Write(quiet, <<3, 128>>)
           low   == Write(dlab, <<0, DivisorLo(s)>>)
           high  == Write(low, <<1, DivisorHi(s)>>)
           mode  == Write(high, <<3, 3>>)
           fifo  == Write(mode, <<2, 199>>)
<1>1. DivisorLo(s) \in Nat /\ DivisorHi(s) \in Nat
  BY DivisorBytes
<1>2. quiet \in Registers
  BY WriteByte
<1>3. quiet \in Registers => dlab \in Registers
  <2> HIDE DEF quiet
  <2> QED BY WriteByte
<1>4. dlab \in Registers => low \in Registers
  <2> HIDE DEF dlab
  <2> QED BY <1>1, WriteByte
<1>5. low \in Registers => high \in Registers
  <2> HIDE DEF low
  <2> QED BY <1>1, WriteByte
<1>6. high \in Registers => mode \in Registers
  <2> HIDE DEF high
  <2> QED BY WriteByte
<1>7. mode \in Registers => fifo \in Registers
  <2> HIDE DEF mode
  <2> QED BY WriteByte
<1>8. Configure(d, s) = fifo
  BY Six
<1> HIDE DEF quiet, dlab, low, high, mode, fifo
<1> QED BY <1>2, <1>3, <1>4, <1>5, <1>6, <1>7, <1>8

\* What setting up makes of a UART as it is found: the divisor goes to the divisor
\* latch, for DLAB is on before it is written and off after.
LEMMA ConfigureIs ==
  ASSUME NEW s \in Scan
  PROVE  Configure(FoundDev, s) =
           [ier |-> 0, lcr |-> 3, dll |-> DivisorLo(s) % 256, dlm |-> DivisorHi(s) % 256,
            fcr |-> 199, sent |-> <<>>]
<1> DEFINE lo == DivisorLo(s)
           hi == DivisorHi(s)
           low == lo % 256
           high == hi % 256
<1>1. lo \in Nat /\ hi \in Nat
  BY DivisorBytes
<1> HIDE DEF lo, hi
<1>2. Write(FoundDev, <<1, 0>>) =
        [ier |-> 0, lcr |-> 3, dll |-> 1, dlm |-> 1, fcr |-> 0, sent |-> <<>>]
  BY DEF Write, FoundDev
<1>3. Write([ier |-> 0, lcr |-> 3, dll |-> 1, dlm |-> 1, fcr |-> 0, sent |-> <<>>], <<3, 128>>) =
        [ier |-> 0, lcr |-> 128, dll |-> 1, dlm |-> 1, fcr |-> 0, sent |-> <<>>]
  BY DEF Write
<1>4. Write([ier |-> 0, lcr |-> 128, dll |-> 1, dlm |-> 1, fcr |-> 0, sent |-> <<>>], <<0, lo>>) =
        [ier |-> 0, lcr |-> 128, dll |-> low, dlm |-> 1, fcr |-> 0, sent |-> <<>>]
  BY DEF Write
<1>5. Write([ier |-> 0, lcr |-> 128, dll |-> low, dlm |-> 1, fcr |-> 0, sent |-> <<>>], <<1, hi>>) =
        [ier |-> 0, lcr |-> 128, dll |-> low, dlm |-> high, fcr |-> 0, sent |-> <<>>]
  BY DEF Write
<1>6. Write([ier |-> 0, lcr |-> 128, dll |-> low, dlm |-> high, fcr |-> 0, sent |-> <<>>], <<3, 3>>) =
        [ier |-> 0, lcr |-> 3, dll |-> low, dlm |-> high, fcr |-> 0, sent |-> <<>>]
  BY DEF Write
<1>7. Write([ier |-> 0, lcr |-> 3, dll |-> low, dlm |-> high, fcr |-> 0, sent |-> <<>>], <<2, 199>>) =
        [ier |-> 0, lcr |-> 3, dll |-> low, dlm |-> high, fcr |-> 199, sent |-> <<>>]
  BY DEF Write
<1> HIDE DEF low, high
<1>8. Configure(FoundDev, s) =
        [ier |-> 0, lcr |-> 3, dll |-> low, dlm |-> high, fcr |-> 199, sent |-> <<>>]
  BY <1>2, <1>3, <1>4, <1>5, <1>6, <1>7, Six DEF lo, hi
<1> QED BY <1>8 DEF lo, hi, low, high

--------------------------------------------------------------------------------
(* What the prop callback remembers.                                           *)

\* A property changes the field of its name, if it has one.
LEMMA Remembers ==
  ASSUME NEW s \in Scan, NEW p, NEW n,
         p.name = "reg" => get_address(n, p.value) \in Nat,
         p.value[1] \in Nat
  PROVE  LET r == Remember(s, p, n)
         IN  /\ r \in Scan
             /\ r.compat = IF p.name = "compatible" /\ p.value = <<1>> THEN 1 ELSE s.compat
             /\ r.reg = IF p.name = "reg" THEN get_address(n, p.value) ELSE s.reg
             /\ r.speed = IF p.name = "current-speed" THEN p.value[1] ELSE s.speed
             /\ r.freq = IF p.name = "clock-frequency" THEN p.value[1] ELSE s.freq
<1> DEFINE r == Remember(s, p, n)
           a == get_address(n, p.value)
           v == p.value[1]
<1>1. CASE p.name = "compatible" /\ p.value = <<1>>
  <2>1. r = [s EXCEPT !.compat = 1]
    BY <1>1 DEF Remember
  <2> QED BY <1>1, <2>1 DEF Scan
<1>2. CASE p.name = "reg"
  <2>1. r = [s EXCEPT !.reg = a] /\ a \in Nat
    BY <1>2 DEF Remember
  <2> HIDE DEF a, r
  <2>2. r \in Scan /\ r.compat = s.compat /\ r.reg = a /\ r.speed = s.speed /\ r.freq = s.freq
    BY <2>1 DEF Scan
  <2> QED BY <1>2, <2>2 DEF a, r
<1>3. CASE p.name = "current-speed"
  <2>1. r = [s EXCEPT !.speed = v] /\ v \in Nat
    BY <1>3 DEF Remember
  <2> HIDE DEF v, r
  <2>2. r \in Scan /\ r.compat = s.compat /\ r.reg = s.reg /\ r.speed = v /\ r.freq = s.freq
    BY <2>1 DEF Scan
  <2> QED BY <1>3, <2>2 DEF v, r
<1>4. CASE p.name = "clock-frequency"
  <2>1. r = [s EXCEPT !.freq = v] /\ v \in Nat
    BY <1>4 DEF Remember
  <2> HIDE DEF v, r
  <2>2. r \in Scan /\ r.compat = s.compat /\ r.reg = s.reg /\ r.speed = s.speed /\ r.freq = v
    BY <2>1 DEF Scan
  <2> QED BY <1>4, <2>2 DEF v, r
<1>5. CASE /\ ~(p.name = "compatible" /\ p.value = <<1>>)
           /\ p.name \notin {"reg", "current-speed", "clock-frequency"}
  <2>1. r = s
    BY <1>5 DEF Remember
  <2> QED BY <1>5, <2>1
<1> QED BY <1>1, <1>2, <1>3, <1>4, <1>5

\* What the callback is given at the property the scanner is at.
LEMMA HereRemembered ==
  ASSUME StackInv, NestInv, Tidy, CellsInv, Prop, scan \in Scan
  PROVE  LET p == Tok[lex]
         IN  /\ scan' \in Scan
             /\ scan'.compat = IF p.name = "compatible" /\ p.value = <<1>> THEN 1
                               ELSE scan.compat
             /\ p.name = "reg" => scan'.reg = Address(AddressCells(Inner(stack[Depth - 1].at)), p.value)
             /\ p.name # "reg" => scan'.reg = scan.reg
             /\ scan'.speed = IF p.name = "current-speed" THEN p.value[1] ELSE scan.speed
             /\ scan'.freq = IF p.name = "clock-frequency" THEN p.value[1] ELSE scan.freq
<1> DEFINE p == Tok[lex]
<1>1. PICK n \in ParentCells : scan' = Remember(scan, p, n)
  BY DEF Prop
<1>2. lex \in Own(stack[Depth - 1].at)
  BY HereOwn DEF Prop
<1>3. p.value[1] \in 0..(Cell - 1) /\ (p.name = "compatible" => p.value \in {<<0>>, <<1>>})
  BY <1>2, PropOf
<1>4. p.value[1] \in Nat
  BY <1>3, FdtAssumption
<1>5. p.name = "reg" => /\ get_address(n, p.value) \in Nat
                        /\ get_address(n, p.value)
                             = Address(AddressCells(Inner(stack[Depth - 1].at)), p.value)
  <2> SUFFICES ASSUME p.name = "reg"
               PROVE  /\ get_address(n, p.value) \in Nat
                      /\ get_address(n, p.value)
                           = Address(AddressCells(Inner(stack[Depth - 1].at)), p.value)
    OBVIOUS
  <2>1. Depth > 2
    BY RegRead
  <2>2. n = stack[Depth - 2].cells
    BY <1>1, <2>1 DEF ParentCells
  <2> QED BY <2>2, RegRead
<1> HIDE DEF p
<1>6. /\ scan' \in Scan
      /\ scan'.compat = IF p.name = "compatible" /\ p.value = <<1>> THEN 1 ELSE scan.compat
      /\ scan'.reg = IF p.name = "reg" THEN get_address(n, p.value) ELSE scan.reg
      /\ scan'.speed = IF p.name = "current-speed" THEN p.value[1] ELSE scan.speed
      /\ scan'.freq = IF p.name = "clock-frequency" THEN p.value[1] ELSE scan.freq
  BY <1>1, <1>3, <1>4, <1>5, Remembers
<1> QED BY <1>5, <1>6 DEF p

--------------------------------------------------------------------------------
(* The scan structure, the UART and its registers, step by step.               *)

\* Before the last activation returns, FDT_END leaves nothing to do.
LEMMA StopDepth ==
  ASSUME StackInv, Stop
  PROVE  /\ pc = "scan" /\ Depth = 1 /\ pc' = "query" /\ dones' = dones
         /\ uart16550' = uart16550 /\ dev' = dev
<1>1. lex = Len(Tok) /\ Nesting(Len(Tok)) = 0 /\ pc = "scan"
  BY Tree DEF Stop, StackInv
<1>2. Depth = 1
  BY <1>1, Positions
<1>3. ~MayBeDone
  BY <1>2 DEF MayBeDone
<1> QED BY <1>1, <1>2, <1>3 DEF Stop, CallDone

\* CallDone takes an address and sets registers, or neither.
LEMMA DoneTypes ==
  ASSUME CallDone, blob \in Blobs, scan \in Scan, uart16550 \in Nat, dev \in Registers
  PROVE  uart16550' \in Nat /\ dev' \in Registers
<1>1. uart16550' \in {Pointer(scan.reg), uart16550} /\ dev' \in {Configure(dev, scan), dev}
  BY DEF CallDone
<1>2. Pointer(scan.reg) \in Nat
  BY PointerCuts DEF Scan
<1>3. Configure(dev, scan) \in Registers
  BY ConfigureBytes
<1> QED BY <1>1, <1>2, <1>3

LEMMA TypeStep ==
  ASSUME StackInv, StackInv', NestInv, Tidy, CellsInv, TypeOK, [Next]_vars
  PROVE  TypeOK'
<1>1. /\ pc \in {"header", "scan", "query", "ready"} /\ scan \in Scan
      /\ uart16550 \in Nat /\ dev \in Registers /\ blob \in Blobs
  BY DEF TypeOK, Scan, Registers
<1>2. ASSUME pc' \in {"header", "scan", "query", "ready"}, scan' \in Scan,
             uart16550' \in Nat, dev' \in Registers
      PROVE  TypeOK'
  <2>1. dones' \in [Begins' -> Nat]
    BY DEF StackInv
  <2> QED BY <1>2, <2>1 DEF StackInv, TypeOK, Scan, Registers
<1>3. EmptyScan \in Scan
  BY DEF EmptyScan, Scan
<1>4. CASE ReadHeader
  BY <1>1, <1>2, <1>4 DEF ReadHeader
<1>5. CASE Nop
  BY <1>1, <1>2, <1>5 DEF Nop
<1>6. CASE Prop
  <2>1. scan' \in Scan
    BY <1>1, <1>6, HereRemembered
  <2> QED BY <1>1, <1>2, <1>6, <2>1 DEF Prop
<1>7. CASE BeginNode
  <2>1. CallDone /\ pc' = pc /\ scan' = EmptyScan
    BY <1>7 DEF BeginNode
  <2> QED BY <1>1, <1>2, <1>3, <2>1, DoneTypes
<1>8. CASE EndNode
  <2>1. CallDone /\ pc' = pc /\ scan' = scan
    BY <1>8 DEF EndNode
  <2> QED BY <1>1, <1>2, <2>1, DoneTypes
<1>9. CASE Stop
  <2>1. scan' = scan
    BY <1>9 DEF Stop
  <2> QED BY <1>1, <1>2, <1>9, <2>1, StopDepth
<1>10. CASE Query
  <2>1. uart16550' \in Nat
    BY <1>1, <1>10, FdtAssumption DEF Query
  <2> QED BY <1>1, <1>2, <1>10, <2>1 DEF Query
<1>11. CASE UNCHANGED vars
  BY <1>1, <1>2, <1>11 DEF vars
<1> QED BY <1>4, <1>5, <1>6, <1>7, <1>8, <1>9, <1>10, <1>11 DEF Next

\* At its done callback a node has told all it has to say: its properties came first.
LEMMA AllTold ==
  ASSUME StackInv, NestInv, Tidy, pc = "scan", Tok[lex].t \in {"begin", "end"}, MayBeDone,
         NEW p \in Own(stack[Depth - 1].at)
  PROVE  p < lex
<1> DEFINE b == stack[Depth - 1].at
<1>1. b \in Nat /\ lex \in Nat /\ b < lex /\ p \in Nat /\ b < p
  <2>1. Depth - 1 \in 1..(Depth - 1)
    BY Positions DEF MayBeDone
  <2>2. p \in DOMAIN Tok /\ b < p
    BY PropOf
  <2> QED BY <2>1, <2>2, Positions, Tree DEF StackInv
<1>2. Tok[p].t = "prop" /\ \A q \in (b + 1)..(p - 1) : Tok[q].t \in {"prop", "nop"}
  BY PropOf
<1>3. p # lex /\ lex \notin (b + 1)..(p - 1)
  BY <1>2
<1> HIDE DEF b
<1> QED BY <1>1, <1>3

\* ScanInv at such a moment is ScanIsOwn.
LEMMA OwnScan ==
  ASSUME StackInv, NestInv, Tidy, ScanInv, TypeOK
  PROVE  ScanIsOwn
<1> SUFFICES ASSUME pc = "scan", Tok[lex].t \in {"begin", "end"}, MayBeDone
             PROVE  scan = Meaning(stack[Depth - 1].at)
  BY DEF ScanIsOwn
<1> DEFINE b == stack[Depth - 1].at
<1>1. \A p \in Own(b) : p < lex
  BY AllTold
<1>2. /\ \A p \in Told(b, "compatible") : scan.compat = Tok[p].value[1]
      /\ \A p \in Told(b, "reg") : scan.reg = Address(AddressCells(Inner(b)), Tok[p].value)
      /\ \A p \in Told(b, "current-speed") : scan.speed = Tok[p].value[1]
      /\ \A p \in Told(b, "clock-frequency") : scan.freq = Tok[p].value[1]
      /\ Told(b, "compatible") = {} => scan.compat = 0
      /\ Told(b, "reg") = {} => scan.reg = 0
      /\ Told(b, "current-speed") = {} => scan.speed = Null
      /\ Told(b, "clock-frequency") = {} => scan.freq = Null
  BY DEF ScanInv
<1> HIDE DEF b
<1>3. ASSUME NEW name
      PROVE  IF Has(b, name)
             THEN \E p \in Told(b, name) : Tok[p].value = Value(b, name)
             ELSE Told(b, name) = {}
  <2>1. CASE Has(b, name)
    <3>1. PICK p \in Own(b) : Tok[p].name = name
      BY <2>1 DEF Has
    <3>2. p \in Told(b, name)
      BY <1>1, <3>1 DEF Told
    <3>3. Tok[p].value = Value(b, name)
      BY <3>1, ValueIs
    <3> QED BY <2>1, <3>2, <3>3
  <2>2. CASE ~Has(b, name)
    BY <2>2 DEF Has, Told
  <2> QED BY <2>1, <2>2
<1>4. scan.compat = Meaning(b).compat
  BY <1>2, <1>3 DEF Meaning
<1>5. scan.reg = Meaning(b).reg
  BY <1>2, <1>3 DEF Meaning
<1>6. scan.speed = Meaning(b).speed
  BY <1>2, <1>3 DEF Meaning
<1>7. scan.freq = Meaning(b).freq
  BY <1>2, <1>3 DEF Meaning
<1>8. scan = [compat |-> scan.compat, reg |-> scan.reg, speed |-> scan.speed, freq |-> scan.freq]
  BY DEF TypeOK
<1>9. Meaning(b) = [compat |-> Meaning(b).compat, reg |-> Meaning(b).reg,
                    speed |-> Meaning(b).speed, freq |-> Meaning(b).freq]
  BY DEF Meaning
<1>10. scan = Meaning(b)
  BY <1>4, <1>5, <1>6, <1>7, <1>8, <1>9
<1> QED BY <1>10 DEF b

\* A property is told of the innermost node, under its own name and no other.
LEMMA ToldMore ==
  ASSUME StackInv, NestInv, Tidy, Prop, NEW name
  PROVE  LET b == stack[Depth - 1].at
         IN  IF Tok[lex].name = name THEN Told(b, name) = {} /\ Told(b, name)' = {lex}
             ELSE Told(b, name)' = Told(b, name)
<1> DEFINE b == stack[Depth - 1].at
<1>1. /\ pc = "scan" /\ lex' = lex + 1 /\ blob' = blob /\ lex \in Own(b)
      /\ Depth \in Nat /\ Depth > 1
  BY HereOwn, Positions DEF Prop
<1>2. Depth' = Depth /\ stack'[Depth - 1].at = stack[Depth - 1].at
  <2>1. Depth - 1 \in 1..Depth
    BY <1>1
  <2> QED BY <2>1, PropStack
<1>3. Tok' = Tok /\ Own(b)' = Own(b) /\ b' = b
  <2>1. b' = b
    BY <1>2
  <2>2. Tok' = Tok /\ \A c : Own(c)' = Own(c)
    BY <1>1, Static
  <2> HIDE DEF b
  <2> QED BY <2>1, <2>2 DEF Own
<1>4. \A p \in Own(b) : p \in Nat /\ lex \in Nat
  BY <1>1, Positions, Tree DEF Own, StackInv
<1>5. Told(b, name)' = {p \in Own(b) : p < lex + 1 /\ Tok[p].name = name}
  BY <1>1, <1>3 DEF Told
<1>6. \A p \in Own(b) : p < lex + 1 <=> p < lex \/ p = lex
  BY <1>4
<1>7. \A p \in Own(b) : Tok[lex].name = Tok[p].name => p = lex
  BY <1>1, PropOf
<1>8. Told(b, name) = {p \in Own(b) : p < lex /\ Tok[p].name = name}
  BY DEF Told
<1> HIDE DEF b
<1>9. CASE Tok[lex].name = name
  <2>1. Told(b, name)' = {lex}
    BY <1>1, <1>5, <1>6, <1>7, <1>9
  <2>2. Told(b, name) = {}
    BY <1>4, <1>7, <1>8, <1>9
  <2> QED BY <1>9, <2>1, <2>2 DEF b
<1>10. CASE Tok[lex].name # name
  BY <1>5, <1>6, <1>8, <1>10 DEF b
<1> QED BY <1>9, <1>10

\* Only the steps that begin or end a node, or tell of it, touch what is remembered.
LEMMA ScanStep ==
  ASSUME StackInv, NestInv, Tidy, CellsInv, TypeOK, ScanInv, [Next]_vars
  PROVE  ScanInv'
<1>1. blob' = blob
  BY DEF Next, ReadHeader, Nop, Prop, BeginNode, EndNode, Stop, Query, vars
<1>2. /\ Tok' = Tok
      /\ \A b : Own(b)' = Own(b) /\ Inner(b)' = Inner(b) /\ AddressCells(b)' = AddressCells(b)
  BY <1>1, Static
<1>3. CASE ReadHeader
  <2>1. Depth' = 1
    BY <1>3 DEF ReadHeader, StackInv, Depth
  <2> QED BY <2>1 DEF ScanInv, MayBeDone
<1>4. CASE Nop
  <2>1. /\ pc = "scan" /\ stack' = stack /\ Depth' = Depth /\ Top' = Top /\ lex' = lex + 1
        /\ Tok[lex].t = "nop" /\ scan' = scan /\ (MayBeDone' <=> MayBeDone)
    BY <1>4 DEF Nop, Depth, Top, MayBeDone
  <2>2. \A b, name : Told(b, name)' = Told(b, name)
    <3>1. \A b : \A p \in Own(b) : p < lex + 1 <=> p < lex
      BY <2>1, Positions, Tree DEF Own, StackInv
    <3> QED BY <1>2, <2>1, <3>1 DEF Told
  <2> QED BY <1>2, <2>1, <2>2 DEF ScanInv
<1>5. CASE Prop
  <2> DEFINE b == stack[Depth - 1].at
  <2>1. /\ pc = "scan" /\ Depth' = Depth /\ Depth \in Nat /\ Depth > 1
        /\ b' = b /\ (MayBeDone' <=> MayBeDone)
    <3>1. /\ Depth' = Depth /\ Depth \in Nat /\ Depth > 1
          /\ \A k \in 1..Depth : stack'[k].last = stack[k].last /\ stack'[k].at = stack[k].at
      BY <1>5, PropStack
    <3>2. Depth \in 1..Depth /\ Depth - 1 \in 1..Depth
      BY <3>1
    <3>3. b' = b /\ Top'.last = Top.last
      BY <3>1, <3>2 DEF Top
    <3> QED BY <1>5, <3>1, <3>3 DEF Prop, MayBeDone
  <2>2. SUFFICES ASSUME MayBeDone
        PROVE  /\ \A p \in Told(b, "compatible")' : scan'.compat = Tok[p].value[1]
               /\ \A p \in Told(b, "reg")' :
                    scan'.reg = Address(AddressCells(Inner(b)), Tok[p].value)
               /\ \A p \in Told(b, "current-speed")' : scan'.speed = Tok[p].value[1]
               /\ \A p \in Told(b, "clock-frequency")' : scan'.freq = Tok[p].value[1]
               /\ Told(b, "compatible")' = {} => scan'.compat = 0
               /\ Told(b, "reg")' = {} => scan'.reg = 0
               /\ Told(b, "current-speed")' = {} => scan'.speed = Null
               /\ Told(b, "clock-frequency")' = {} => scan'.freq = Null
    <3>1. AddressCells(Inner(b))' = AddressCells(Inner(b))
      <4> HIDE DEF b
      <4>1. Inner(b)' = Inner(b)
        BY <1>2, <2>1 DEF Inner
      <4> QED BY <1>2, <4>1 DEF AddressCells
    <3> QED BY <1>2, <2>1, <3>1 DEF ScanInv
  <2>3. /\ \A p \in Told(b, "compatible") : scan.compat = Tok[p].value[1]
        /\ \A p \in Told(b, "reg") : scan.reg = Address(AddressCells(Inner(b)), Tok[p].value)
        /\ \A p \in Told(b, "current-speed") : scan.speed = Tok[p].value[1]
        /\ \A p \in Told(b, "clock-frequency") : scan.freq = Tok[p].value[1]
        /\ Told(b, "compatible") = {} => scan.compat = 0
        /\ Told(b, "reg") = {} => scan.reg = 0
        /\ Told(b, "current-speed") = {} => scan.speed = Null
        /\ Told(b, "clock-frequency") = {} => scan.freq = Null
    BY <2>1, <2>2 DEF ScanInv
  <2>4. \A name : IF Tok[lex].name = name THEN Told(b, name) = {} /\ Told(b, name)' = {lex}
                  ELSE Told(b, name)' = Told(b, name)
    BY <1>5, ToldMore
  <2>5. LET p == Tok[lex]
        IN  /\ scan'.compat = IF p.name = "compatible" /\ p.value = <<1>> THEN 1 ELSE scan.compat
            /\ p.name = "reg" => scan'.reg = Address(AddressCells(Inner(b)), p.value)
            /\ p.name # "reg" => scan'.reg = scan.reg
            /\ scan'.speed = IF p.name = "current-speed" THEN p.value[1] ELSE scan.speed
            /\ scan'.freq = IF p.name = "clock-frequency" THEN p.value[1] ELSE scan.freq
    BY <1>5, HereRemembered DEF TypeOK, Scan
  <2>6. Tok[lex].name = "compatible" => Tok[lex].value \in {<<0>>, <<1>>}
    <3>1. lex \in Own(b)
      BY <1>5, HereOwn DEF Prop
    <3> QED BY <3>1, PropOf
  <2> HIDE DEF b
  <2>7. /\ \A p \in Told(b, "compatible")' : scan'.compat = Tok[p].value[1]
        /\ Told(b, "compatible")' = {} => scan'.compat = 0
    <3>1. CASE Tok[lex].name = "compatible"
      <4>1. Told(b, "compatible")' = {lex} /\ scan.compat = 0
        BY <2>3, <2>4, <3>1
      <4>2. CASE Tok[lex].value = <<1>>
        BY <2>5, <3>1, <4>1, <4>2
      <4>3. CASE Tok[lex].value = <<0>>
        <5>1. Tok[lex].value # <<1>> /\ Tok[lex].value[1] = 0
          BY <4>3
        <5> QED BY <2>5, <4>1, <5>1
      <4> QED BY <2>6, <3>1, <4>2, <4>3
    <3>2. CASE Tok[lex].name # "compatible"
      BY <2>3, <2>4, <2>5, <3>2
    <3> QED BY <3>1, <3>2
  <2>8. /\ \A p \in Told(b, "reg")' : scan'.reg = Address(AddressCells(Inner(b)), Tok[p].value)
        /\ Told(b, "reg")' = {} => scan'.reg = 0
    <3>1. CASE Tok[lex].name = "reg"
      BY <2>4, <2>5, <3>1
    <3>2. CASE Tok[lex].name # "reg"
      BY <2>3, <2>4, <2>5, <3>2
    <3> QED BY <3>1, <3>2
  <2>9. /\ \A p \in Told(b, "current-speed")' : scan'.speed = Tok[p].value[1]
        /\ Told(b, "current-speed")' = {} => scan'.speed = Null
    <3>1. CASE Tok[lex].name = "current-speed"
      BY <2>4, <2>5, <3>1
    <3>2. CASE Tok[lex].name # "current-speed"
      BY <2>3, <2>4, <2>5, <3>2
    <3> QED BY <3>1, <3>2
  <2>10. /\ \A p \in Told(b, "clock-frequency")' : scan'.freq = Tok[p].value[1]
         /\ Told(b, "clock-frequency")' = {} => scan'.freq = Null
    <3>1. CASE Tok[lex].name = "clock-frequency"
      BY <2>4, <2>5, <3>1
    <3>2. CASE Tok[lex].name # "clock-frequency"
      BY <2>3, <2>4, <2>5, <3>2
    <3> QED BY <3>1, <3>2
  <2> QED BY <2>7, <2>8, <2>9, <2>10
<1>6. CASE BeginNode
  <2>1. /\ pc = "scan" /\ Depth' = Depth + 1 /\ Depth \in Nat /\ stack'[Depth].at = lex
        /\ lex' = lex + 1 /\ Tok[lex].t = "begin" /\ scan' = EmptyScan
    BY <1>6, BeginStack DEF BeginNode
  <2>2. stack'[Depth' - 1].at = lex
    BY <2>1
  <2>3. \A name : Told(stack[Depth - 1].at, name)' = {}
    <3>1. \A p \in Own(lex) : lex < p /\ p \in Nat /\ lex \in Nat
      BY <2>1, Positions, Tree DEF Own, StackInv
    <3>2. \A p \in Own(lex) : ~(p < lex + 1)
      BY <3>1
    <3>3. Own(stack[Depth - 1].at)' = Own(lex)
      BY <1>2, <2>2 DEF Own
    <3> QED BY <2>1, <3>2, <3>3 DEF Told
  <2>4. /\ scan'.compat = 0 /\ scan'.reg = 0 /\ scan'.speed = Null /\ scan'.freq = Null
    BY <2>1 DEF EmptyScan
  <2> QED BY <2>3, <2>4 DEF ScanInv
<1>7. CASE EndNode
  <2>1. Depth' = Depth - 1 /\ Depth \in Nat /\ Depth > 1 /\ stack'[Depth - 1] = stack[Depth - 1]
    <3>1. /\ Depth' = Depth - 1 /\ Depth \in Nat /\ Depth > 1
          /\ \A k \in 1..(Depth - 1) : stack'[k] = stack[k]
      BY <1>7, EndStack
    <3>2. Depth - 1 \in 1..(Depth - 1)
      BY <3>1
    <3> QED BY <3>1, <3>2
  <2>2. stack[Depth - 1].last = 1
    <3>1. Depth - 1 \in 1..(Depth - 1)
      BY <2>1
    <3> QED BY <1>7, <3>1, Positions DEF EndNode
  <2>3. ~MayBeDone'
    BY <2>1, <2>2 DEF MayBeDone, Top
  <2> QED BY <2>3 DEF ScanInv
<1>8. CASE Stop
  <2>1. pc' = "query"
    BY <1>8, StopDepth
  <2> QED BY <2>1 DEF ScanInv
<1>9. CASE Query
  BY <1>9 DEF Query, ScanInv
<1>10. CASE UNCHANGED vars
  <2>1. /\ stack' = stack /\ Depth' = Depth /\ lex' = lex /\ pc' = pc /\ scan' = scan
        /\ (MayBeDone' <=> MayBeDone)
    BY <1>10 DEF vars, Depth, MayBeDone, Top
  <2>2. \A b, name : Told(b, name)' = Told(b, name)
    BY <1>2, <2>1 DEF Told
  <2> QED BY <1>2, <2>1, <2>2 DEF ScanInv
<1> QED BY <1>3, <1>4, <1>5, <1>6, <1>7, <1>8, <1>9, <1>10 DEF Next

\* CallDone sets up the node's UART if it describes one and none is set up.
LEMMA UartDone ==
  ASSUME StackInv, NestInv, Tidy, TypeOK, ScanInv, UartInv, CallDone, blob' = blob,
         pc = "scan", Tok[lex].t \in {"begin", "end"}
  PROVE  \/ uart16550' = 0 /\ dev' = FoundDev /\ \A b \in Uarts : dones'[b] = 0
         \/ \E b \in Uarts :
              /\ \A c \in Uarts : b <= c
              /\ uart16550' = Pointer(Meaning(b).reg) /\ dev' = Configure(FoundDev, Meaning(b))
<1> DEFINE b == stack[Depth - 1].at
           First(c) == /\ \A d \in Uarts : c <= d
                       /\ uart16550 = Pointer(Meaning(c).reg) /\ dev = Configure(FoundDev, Meaning(c))
<1>1. CASE uart16550 = 0 /\ MayBeDone
  <2>1. dev = FoundDev /\ \A c \in Uarts : dones[c] = 0
    BY <1>1 DEF UartInv, Uarts
  <2>2. scan = Meaning(b)
    BY OwnScan, <1>1 DEF ScanIsOwn
  <2>3. /\ Depth \in Nat /\ Depth > 1 /\ b \in Begins /\ b \in Nat /\ b < lex /\ lex \in Nat
        /\ \A k \in 1..(Depth - 2) : k \in 1..(Depth - 1) /\ k + 1 \in 1..(Depth - 1)
    <3>1. Depth \in Nat /\ Depth > 1
      BY <1>1, Positions DEF MayBeDone
    <3>2. Depth - 1 \in 1..(Depth - 1)
      BY <3>1
    <3> QED BY <3>1, <3>2, Positions
  <2>4. /\ dones' = [dones EXCEPT ![b] = @ + 1]
        /\ scan.compat = 1 /\ Pointer(scan.reg) # 0 =>
             uart16550' = Pointer(scan.reg) /\ dev' = Configure(dev, scan)
        /\ ~(scan.compat = 1 /\ Pointer(scan.reg) # 0) => uart16550' = 0 /\ dev' = dev
    <3>1. Pointer(scan.reg) # 0 => scan.reg # 0
      BY PointerCuts DEF TypeOK
    <3>2. /\ dones' = [dones EXCEPT ![b] = @ + 1]
          /\ scan.compat = 1 /\ scan.reg # 0 =>
               /\ uart16550' = Pointer(scan.reg)
               /\ dev' = IF Pointer(scan.reg) # 0 THEN Configure(dev, scan) ELSE dev
          /\ ~(scan.compat = 1 /\ scan.reg # 0) => uart16550' = 0 /\ dev' = dev
      BY <1>1 DEF CallDone
    <3> HIDE DEF b
    <3> QED BY <3>1, <3>2
  <2>5. b \in Uarts <=> scan.compat = 1 /\ Pointer(scan.reg) # 0
    <3>1. blob.magic
      BY DEF NestInv
    <3> HIDE DEF b
    <3> QED BY <2>2, <2>3, <3>1 DEF Uarts
  <2>6. CASE b \in Uarts
    <3>1. ASSUME NEW c \in Uarts, c < b
          PROVE  FALSE
      <4>1. c \in Begins /\ c \in Nat /\ c < lex /\ dones[c] = 0
        BY <2>1, <2>3, <3>1, Positions DEF Uarts
      <4>2. c \in Open
        BY <4>1 DEF StackInv
      <4>3. PICK k \in 1..(Depth - 1) : c = stack[k].at
        BY <4>2 DEF Open
      <4>4. k \in 1..(Depth - 2)
        <5>1. k # Depth - 1
          BY <2>3, <3>1, <4>3
        <5> QED BY <2>3, <5>1
      <4>5. dones[stack[k].at] = stack[k + 1].last
        BY DEF StackInv
      <4>6. stack[k + 1].last = 1
        BY <2>3, <4>4, Positions
      <4> QED BY <4>1, <4>3, <4>5, <4>6
    <3>2. \A c \in Uarts : b <= c
      <4>1. \A c \in Uarts : c \in Nat
        BY Positions DEF Uarts
      <4> QED BY <2>3, <3>1, <4>1
    <3>3. uart16550' = Pointer(Meaning(b).reg) /\ dev' = Configure(FoundDev, Meaning(b))
      BY <2>1, <2>2, <2>4, <2>5, <2>6
    <3> HIDE DEF b
    <3> QED BY <2>6, <3>2, <3>3
  <2>7. CASE b \notin Uarts
    <3>1. uart16550' = 0 /\ dev' = FoundDev
      BY <1>1, <2>1, <2>4, <2>5, <2>7
    <3>2. \A c \in Uarts : c \in Begins /\ c # b
      BY <2>7 DEF Uarts
    <3>3. dones \in [Begins -> {0, 1}]
      BY DEF StackInv
    <3>4. \A c \in Uarts : dones'[c] = 0
      BY <2>1, <2>4, <3>2, <3>3
    <3> QED BY <3>1, <3>4
  <2> QED BY <2>6, <2>7
<1>2. CASE uart16550 = 0 /\ ~MayBeDone
  <2>1. dev = FoundDev /\ \A c \in Uarts : dones[c] = 0
    BY <1>2 DEF UartInv, Uarts
  <2>2. uart16550' = 0 /\ dev' = dev /\ dones' = dones
    BY <1>2 DEF CallDone
  <2> QED BY <2>1, <2>2
<1>3. CASE uart16550 # 0
  <2>1. \E c \in Uarts : First(c)
    BY <1>3 DEF UartInv
  <2>2. uart16550' = uart16550 /\ dev' = dev
    BY <1>3 DEF CallDone
  <2> QED BY <2>1, <2>2
<1> QED BY <1>1, <1>2, <1>3

LEMMA UartStep ==
  ASSUME StackInv, NestInv, Tidy, TypeOK, ScanInv, UartInv, [Next]_vars
  PROVE  UartInv'
<1> DEFINE Goal == \/ uart16550' = 0 /\ dev' = FoundDev /\ \A b \in Uarts : dones'[b] = 0
                   \/ \E b \in Uarts :
                        /\ \A c \in Uarts : b <= c
                        /\ uart16550' = Pointer(Meaning(b).reg) /\ dev' = Configure(FoundDev, Meaning(b))
<1>1. blob' = blob
  BY DEF Next, ReadHeader, Nop, Prop, BeginNode, EndNode, Stop, Query, vars
<1>2. Goal => UartInv'
  <2>1. /\ Uarts' = Uarts /\ \A b : Meaning(b)' = Meaning(b)
        /\ \A b : Pointer(Meaning(b).reg)' = Pointer(Meaning(b).reg)
    BY <1>1, Static
  <2>2. FoundDev' = FoundDev /\ \A b : Configure(FoundDev, Meaning(b))' = Configure(FoundDev, Meaning(b))
    <3>1. \A b : Meaning(b)' = Meaning(b)
      BY <2>1
    <3> QED BY <3>1 DEF FoundDev, Configure
  <2> QED BY <2>1, <2>2 DEF UartInv
<1>3. ASSUME pc # "ready", uart16550' = uart16550, dev' = dev, dones' = dones
      PROVE  Goal
  BY <1>3 DEF UartInv
<1> HIDE DEF Goal
<1>4. CASE ReadHeader
  BY <1>2, <1>3, <1>4 DEF ReadHeader
<1>5. CASE Nop
  BY <1>2, <1>3, <1>5 DEF Nop
<1>6. CASE Prop
  BY <1>2, <1>3, <1>6 DEF Prop
<1>7. CASE BeginNode
  <2>1. CallDone /\ pc = "scan" /\ Tok[lex].t = "begin"
    BY <1>7 DEF BeginNode
  <2> QED BY <1>1, <1>2, <2>1, UartDone DEF Goal
<1>8. CASE EndNode
  <2>1. CallDone /\ pc = "scan" /\ Tok[lex].t = "end"
    BY <1>8 DEF EndNode
  <2> QED BY <1>1, <1>2, <2>1, UartDone DEF Goal
<1>9. CASE Stop
  BY <1>2, <1>3, <1>9, StopDepth
<1>10. CASE Query
  BY <1>10 DEF Query, UartInv
<1>11. CASE UNCHANGED vars
  <2>1. CASE pc = "ready"
    BY <1>11, <2>1 DEF vars, UartInv
  <2>2. CASE pc # "ready"
    BY <1>2, <1>3, <1>11, <2>2 DEF vars
  <2> QED BY <2>1, <2>2
<1> QED BY <1>4, <1>5, <1>6, <1>7, <1>8, <1>9, <1>10, <1>11 DEF Next

\* The least of the nodes that describe a UART is the first one.
LEMMA FirstIs ==
  ASSUME StackInv, NEW b \in Uarts, \A c \in Uarts : b <= c
  PROVE  (CHOOSE d \in Uarts : \A c \in Uarts : d <= c) = b
<1>1. \A c \in Uarts : c \in Nat
  BY Tree DEF Uarts, Begins, StackInv
<1>2. \A d \in Uarts : (\A c \in Uarts : d <= c) => d = b
  BY <1>1
<1> QED BY <1>2

\* What a tidy tree says of a node is what a scan structure may hold, and its baud
\* rate, if it gives one, can be divided by.
LEMMA Rates ==
  ASSUME StackInv, Tidy, NEW b, Rated(Meaning(b))
  PROVE  /\ Meaning(b).freq \in Nat /\ Meaning(b).speed \in Nat
         /\ 16 * Meaning(b).speed \in 1..(Cell - 1)
<1>1. Has(b, "current-speed") /\ Has(b, "clock-frequency")
  BY DEF Rated, Meaning
<1>2. /\ Meaning(b).speed = Value(b, "current-speed")[1]
      /\ Meaning(b).freq = Value(b, "clock-frequency")[1]
  BY <1>1 DEF Meaning
<1>3. PICK p \in Own(b) : Tok[p].name = "current-speed"
  BY <1>1 DEF Has
<1>4. PICK q \in Own(b) : Tok[q].name = "clock-frequency"
  BY <1>1 DEF Has
<1>5. Value(b, "current-speed") = Tok[p].value /\ Value(b, "clock-frequency") = Tok[q].value
  BY <1>3, <1>4, ValueIs
<1>6. Tok[p].value[1] \in 0..(Cell - 1) /\ 16 * Tok[p].value[1] \in 1..(Cell - 1)
  BY <1>3, PropOf
<1>7. Tok[q].value[1] \in 0..(Cell - 1)
  BY PropOf
<1> QED BY <1>2, <1>5, <1>6, <1>7, FdtAssumption

\* The two bytes written make up the quotient of clock and 16 times the rate.
LEMMA DivisorIs ==
  ASSUME NEW s, Rated(s), s.freq \in Nat, s.speed \in Nat, 16 * s.speed \in 1..(Cell - 1)
  PROVE  (DivisorLo(s) % 256) + 256 * (DivisorHi(s) % 256) = (s.freq \div (16 * s.speed)) % 65536
<1> DEFINE by == 16 * s.speed
           q == s.freq \div by
<1>1. Cell \in Nat \ {0} /\ by \in 0..(Cell - 1) /\ by \in Nat \ {0} /\ by # 0
  BY FdtAssumption
<1> HIDE DEF by
<1>2. by % Cell = by
  <2>1. (Cell * 0 + by) % Cell = by
    BY <1>1, Remainder
  <2>2. Cell * 0 + by = by
    BY <1>1
  <2> QED BY <2>1, <2>2
<1>3. Divisor(s) = q
  BY <1>1, <1>2 DEF Divisor, by
<1>4. q \in Nat
  BY <1>1, Quotient
<1> HIDE DEF q
<1>5. DivisorLo(s) = q % 256 /\ DivisorHi(s) = q \div 256
  BY <1>3 DEF DivisorLo, DivisorHi
<1>6. ((q % 256) % 256) + 256 * ((q \div 256) % 256) = q % 65536
  BY <1>4
<1> QED BY <1>5, <1>6 DEF q, by

\* When the search ends the UART in use is the first one, set up, or the fallback.
LEMMA QueryStep ==
  ASSUME StackInv, Tidy, TypeOK, UartInv, Query
  PROVE  ReadyInv'
<1>1. /\ blob' = blob /\ pc = "query" /\ dev' = dev
      /\ uart16550' = IF uart16550 = 0 THEN Fallback ELSE uart16550
  BY DEF Query
<1>2. Uarts' = Uarts /\ \A b : Meaning(b)' = Meaning(b)
  BY <1>1, Static
<1>3. ASSUME NEW b \in Uarts, \A c \in Uarts : b <= c,
             uart16550 = Pointer(Meaning(b).reg), dev = Configure(FoundDev, Meaning(b))
      PROVE  ReadyInv'
  <2> DEFINE m == Meaning(b)
  <2>1. (CHOOSE d \in Uarts : \A c \in Uarts : d <= c) = b
    BY <1>3, FirstIs
  <2>2. uart16550' = Pointer(m.reg)
    BY <1>1, <1>3 DEF Uarts
  <2>3. m \in Scan
    <3>1. blob.magic /\ b \in Begins /\ m.compat = 1
      BY <1>3 DEF Uarts
    <3>2. \A name : Has(b, name) => Value(b, name)[1] \in Nat
      <4> TAKE name
      <4>1. ASSUME NEW p \in Own(b), Tok[p].name = name
            PROVE  Value(b, name)[1] \in Nat
        <5>1. Tok[p].value[1] \in 0..(Cell - 1) /\ Value(b, name) = Tok[p].value
          BY <4>1, PropOf, ValueIs
        <5> QED BY <5>1, FdtAssumption
      <4> QED BY <4>1 DEF Has
    <3>3. m.speed \in Nat \cup {Null} /\ m.freq \in Nat \cup {Null}
      BY <3>2 DEF Meaning
    <3>4. m.reg \in Nat
      BY RegIs
    <3>5. m = [compat |-> m.compat, reg |-> m.reg, speed |-> m.speed, freq |-> m.freq]
      BY DEF Meaning
    <3> HIDE DEF m
    <3> QED BY <3>1, <3>3, <3>4, <3>5 DEF Scan
  <2>4. dev = [ier |-> 0, lcr |-> 3, dll |-> DivisorLo(m) % 256, dlm |-> DivisorHi(m) % 256,
               fcr |-> 199, sent |-> <<>>]
    BY <1>3, <2>3, ConfigureIs
  <2>5. /\ dev.ier = 0 /\ dev.lcr = 3 /\ dev.sent = <<>>
        /\ dev.dll = DivisorLo(m) % 256 /\ dev.dlm = DivisorHi(m) % 256
    <3> HIDE DEF m
    <3> QED BY <2>4
  <2>6. Rated(m) => dev.dll + 256 * dev.dlm = (m.freq \div (16 * m.speed)) % 65536
    <3> SUFFICES ASSUME Rated(m)
                 PROVE  dev.dll + 256 * dev.dlm = (m.freq \div (16 * m.speed)) % 65536
      OBVIOUS
    <3>1. m.freq \in Nat /\ m.speed \in Nat /\ 16 * m.speed \in 1..(Cell - 1)
      BY Rates
    <3> HIDE DEF m
    <3> QED BY <2>5, <3>1, DivisorIs
  <2> DEFINE first == CHOOSE d \in Uarts : \A c \in Uarts : d <= c
  <2>7. Meaning(first) = m /\ Uarts # {}
    <3>1. first = b
      BY <2>1
    <3> HIDE DEF first
    <3> QED BY <3>1
  <2>8. /\ uart16550' = IF Uarts = {} THEN Fallback ELSE Pointer(Meaning(first).reg)
        /\ dev.sent = <<>> /\ dev.ier = 0 /\ dev.lcr = 3
        /\ Rated(Meaning(first)) => dev.dll + 256 * dev.dlm
             = (Meaning(first).freq \div (16 * Meaning(first).speed)) % 65536
    <3> HIDE DEF first, m
    <3> QED BY <2>2, <2>5, <2>6, <2>7
  <2>9. FirstUart'
    <3>1. Pointer(Meaning(first).reg)' = Pointer(Meaning(first).reg)
      <4>1. first' = first
        BY <1>2
      <4> HIDE DEF first
      <4> QED BY <1>1, <4>1, Static DEF Pointer
    <3> QED BY <1>2, <2>8, <3>1 DEF FirstUart
  <2>10. SetUpQuietly'
    BY <1>1, <1>2, <2>8 DEF SetUpQuietly, Rated
  <2> QED BY <2>9, <2>10 DEF ReadyInv
<1>4. ASSUME uart16550 = 0, \A b \in Uarts : dones[b] = 0
      PROVE  ReadyInv'
  <2>1. Uarts = {}
    <3>1. ASSUME NEW b \in Uarts PROVE FALSE
      <4>1. b \in Begins /\ blob.magic
        BY DEF Uarts
      <4> QED BY <1>1, <1>4, <4>1 DEF StackInv
    <3> QED BY <3>1
  <2>2. Uarts' = {} /\ uart16550' = Fallback
    BY <1>1, <1>2, <1>4, <2>1
  <2> QED BY <2>2 DEF ReadyInv, FirstUart, SetUpQuietly
<1> QED BY <1>1, <1>3, <1>4 DEF UartInv

LEMMA ReadyStep ==
  ASSUME StackInv, Tidy, TypeOK, UartInv, ReadyInv, [Next]_vars
  PROVE  ReadyInv'
<1>1. CASE Query
  BY <1>1, QueryStep
<1>2. CASE ReadHeader \/ Nop \/ Prop \/ BeginNode \/ EndNode \/ Stop
  <2>1. pc' # "ready"
    BY <1>2 DEF ReadHeader, Nop, Prop, BeginNode, EndNode, Stop
  <2> QED BY <2>1 DEF ReadyInv
<1>3. CASE UNCHANGED vars
  <2>1. blob' = blob /\ pc' = pc /\ uart16550' = uart16550 /\ dev' = dev
    BY <1>3 DEF vars
  <2> DEFINE first == CHOOSE b \in Uarts : \A c \in Uarts : b <= c
  <2>2. Uarts' = Uarts /\ first' = first /\ (Tidy' <=> Tidy)
    BY <2>1, Static
  <2>3. Meaning(first)' = Meaning(first) /\ Pointer(Meaning(first).reg)' = Pointer(Meaning(first).reg)
    <3> HIDE DEF first
    <3>1. Meaning(first)' = Meaning(first)
      BY <2>1, <2>2, Static DEF Meaning
    <3> QED BY <2>1, <3>1 DEF Pointer
  <2>4. FirstUart => FirstUart'
    BY <2>1, <2>2, <2>3 DEF FirstUart
  <2>5. SetUpQuietly => SetUpQuietly'
    BY <2>1, <2>2, <2>3 DEF SetUpQuietly, Rated
  <2> QED BY <2>1, <2>4, <2>5 DEF ReadyInv
<1> QED BY <1>1, <1>2, <1>3 DEF Next

--------------------------------------------------------------------------------
(* The theorems about tidy trees.                                              *)

\* At the start nothing is scanned, remembered or set up.
LEMMA StartTidy ==
  ASSUME Init
  PROVE  IInv
<1>1. StackInv
  BY Start
<1>2. NestInv /\ CellsInv /\ ScanInv /\ ReadyInv
  BY DEF Init, NestInv, CellsInv, ScanInv, ReadyInv
<1>3. UartInv
  <2>1. \A b \in Uarts : b \in Begins
    BY DEF Uarts
  <2> QED BY <2>1 DEF Init, UartInv
<1>4. TypeOK
  <2>1. EmptyScan \in Scan
    BY DEF EmptyScan, Scan
  <2>2. FoundDev \in Registers
    BY DEF FoundDev, Registers
  <2>3. dones \in [Begins -> Nat]
    BY DEF Init
  <2> QED BY <1>1, <2>1, <2>2, <2>3 DEF Init, StackInv, TypeOK, Scan, Registers
<1> QED BY <1>1, <1>2, <1>3, <1>4 DEF IInv

\* The inductive invariant: of every tree, that the activations nest as its nodes
\* do; of a tidy one, that the scan structure holds what the node being scanned has
\* said of itself so far, and that the UART set up is the first one.
THEOREM InvariantHolds == Spec => []IInv
<1>1. Init => IInv
  BY StartTidy
<1>2. IInv /\ StackInv' /\ [Next]_vars => IInv'
  <2> SUFFICES ASSUME IInv, StackInv', [Next]_vars PROVE IInv'
    OBVIOUS
  <2>1. StackInv /\ NestInv
    BY DEF IInv
  <2>2. NestInv'
    BY <2>1, NestStep
  <2>3. ASSUME Tidy'
        PROVE  TypeOK' /\ CellsInv' /\ ScanInv' /\ UartInv' /\ ReadyInv'
    <3>1. blob' = blob
      BY DEF Next, ReadHeader, Nop, Prop, BeginNode, EndNode, Stop, Query, vars
    <3>2. Tidy
      BY <2>3, <3>1, Static
    <3>3. TypeOK /\ CellsInv /\ ScanInv /\ UartInv /\ ReadyInv
      BY <3>2 DEF IInv
    <3> QED BY <2>1, <3>2, <3>3, TypeStep, CellsStep, ScanStep, UartStep, ReadyStep
  <2> QED BY <2>2, <2>3 DEF IInv
<1> QED BY <1>1, <1>2, StackAlways, PTL DEF Spec

\* Of a tidy tree, when a node's done callback is due the scan structure holds what
\* that node says of itself.
THEOREM ScanOwn == Spec => []ScanIsOwn
<1>1. IInv => ScanIsOwn
  BY OwnScan DEF IInv, ScanIsOwn
<1> QED BY <1>1, InvariantHolds, PTL

\* The UART used is the first one a tidy tree describes to whose address a pointer of
\* the build, 32 or 64 bits wide, can point; else the fallback.
THEOREM FirstUsed == Spec => []FirstUart
<1>1. IInv => FirstUart
  BY DEF IInv, ReadyInv, FirstUart
<1> QED BY <1>1, InvariantHolds, PTL

\* A UART a tidy tree describes is set up with the divisor of its own speed and
\* clock, and nothing is transmitted meanwhile.
THEOREM QuietlySetUp == Spec => []SetUpQuietly
<1>1. IInv => SetUpQuietly
  BY DEF IInv, ReadyInv, SetUpQuietly
<1> QED BY <1>1, InvariantHolds, PTL
================================================================================
