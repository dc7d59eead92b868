--------------------------- MODULE MeasureLoopProofs ---------------------------
(* Proofs about MeasureLoop, for words and registers of any width, loops of    *)
(* any length, any cost of any instruction and any values of the counters.     *)
EXTENDS MeasureLoop, TLAPS

--------------------------------------------------------------------------------
(* Arithmetic modulo the width of a register and of a word.                    *)

LEMMA Division ==
  ASSUME NEW a \in Int, NEW m \in Int, m > 0
  PROVE  /\ a % m \in 0..(m - 1) /\ a \div m \in Int
         /\ a = m * (a \div m) + (a % m)
  <1>1. a % m \in 0..(m - 1)
    BY SMT
  <1>2. a \div m \in Int
    BY SMT
  <1>3. a = m * (a \div m) + (a % m)
    BY SMT
  <1>4. QED
    BY <1>1, <1>2, <1>3

\* A multiple of m strictly between -m and m is zero.
LEMMA SmallMultiple ==
  ASSUME NEW m \in Int, m > 0, NEW d \in Int, m * d < m, -m < m * d
  PROVE  d = 0
  <1>1. CASE d >= 1
    <2>1. m * d >= m
      BY <1>1
    <2>2. QED BY <2>1
  <1>2. CASE d <= -1
    <2>1. m * d <= -m
      BY <1>2
    <2>2. QED BY <2>1
  <1>3. QED
    BY <1>1, <1>2

LEMMA Remainder ==
  ASSUME NEW a \in Int, NEW m \in Int, m > 0, NEW q \in Int, NEW r \in 0..(m - 1),
         a = m * q + r
  PROVE  a % m = r
  <1> DEFINE p == a \div m
             s == a % m
  <1>1. p \in Int /\ s \in 0..(m - 1) /\ a = m * p + s
    BY Division
  <1> HIDE DEF p, s
  <1>2. m * (q - p) = s - r
    BY <1>1
  <1>3. q - p = 0
    BY <1>1, <1>2, SmallMultiple
  <1>4. s = r
    BY <1>1, <1>2, <1>3
  <1>5. QED
    BY <1>4 DEF s

\* a and b are a multiple of m apart.
Apart(a, b, m) == \E k \in Int : a = b + m * k

LEMMA Congruent ==
  ASSUME NEW a \in Int, NEW b \in Int, NEW m \in Int, m > 0, Apart(a, b, m)
  PROVE  a % m = b % m
  <1> PICK k \in Int : a = b + m * k
    BY DEF Apart
  <1> DEFINE p == b \div m
             r == b % m
  <1>1. p \in Int /\ r \in 0..(m - 1) /\ b = m * p + r
    BY Division
  <1> HIDE DEF p, r
  <1>2. a = m * (p + k) + r
    BY <1>1
  <1>3. a % m = r
    BY <1>1, <1>2, Remainder
  <1>4. QED
    BY <1>3 DEF r

\* Reducing a summand first makes no difference.
LEMMA ReducedSum ==
  ASSUME NEW a \in Int, NEW b \in Int, NEW m \in Int, m > 0
  PROVE  ((a % m) + b) % m = (a + b) % m
  <1> DEFINE p == a \div m
             r == a % m
  <1>1. p \in Int /\ r \in 0..(m - 1) /\ a = m * p + r
    BY Division
  <1> HIDE DEF p, r
  <1>2. a + b = (r + b) + m * p /\ a + b \in Int /\ r + b \in Int
    BY <1>1
  <1>3. Apart(a + b, r + b, m)
    BY <1>1, <1>2 DEF Apart
  <1>4. (a + b) % m = (r + b) % m
    BY <1>2, <1>3, Congruent
  <1>5. QED
    BY <1>4 DEF r

\* a and b leave the same remainder.
Same(a, b, m) == a % m = b % m

\* Nor does reducing make a difference in a difference.
LEMMA ReducedDifference ==
  ASSUME NEW a \in Int, NEW b \in Int, NEW c \in Int, NEW d \in Int,
         NEW m \in Int, m > 0, Same(a, c, m), Same(b, d, m)
  PROVE  Same(a - b, c - d, m)
  <1> DEFINE p == a \div m
             q == b \div m
             s == c \div m
             t == d \div m
  <1>1. /\ p \in Int /\ a = m * p + (a % m)
        /\ q \in Int /\ b = m * q + (b % m)
        /\ s \in Int /\ c = m * s + (c % m)
        /\ t \in Int /\ d = m * t + (d % m)
        /\ a % m \in Int /\ b % m \in Int
    BY Division
  <1>2. a % m = c % m /\ b % m = d % m
    BY DEF Same
  <1> HIDE DEF p, q, s, t
  <1>3. /\ a - b = (c - d) + m * ((p - s) - (q - t))
        /\ a - b \in Int /\ c - d \in Int /\ (p - s) - (q - t) \in Int
    BY <1>1, <1>2
  <1>4. Apart(a - b, c - d, m)
    BY <1>3 DEF Apart
  <1>5. QED
    BY <1>3, <1>4, Congruent DEF Same

LEMMA SmallRemainder ==
  ASSUME NEW m \in Int, m > 0, NEW a \in 0..(m - 1)
  PROVE  a % m = a
  <1>1. a = m * 0 + a
    OBVIOUS
  <1>2. QED
    BY <1>1, Remainder

--------------------------------------------------------------------------------
(* The widths, and what subw and printf make of a difference.                  *)

LEMMA Widths ==
  /\ Word \in Int /\ Word > 0
  /\ Word \div 2 \in Int /\ Word \div 2 < Word
  /\ driver \in Drivers =>
       /\ driver.name \in Names /\ Last[driver.name] \in Nat
       /\ 4 * Last[driver.name] + 8 < Word \div 2
       /\ Size \in Int /\ Size >= Word
       /\ \E j \in Int : Size = Word * j
       /\ driver.name = "double" => Size = Reg
  <1>1. Word \in Int /\ Word > 0
    BY MeasureAssumption
  <1>2. Word \div 2 \in Int /\ Word \div 2 < Word
    BY <1>1
  <1>3. ASSUME driver \in Drivers
        PROVE  /\ driver.name \in Names /\ Last[driver.name] \in Nat
               /\ 4 * Last[driver.name] + 8 < Word \div 2
               /\ driver.name = "double" => Size = Reg
    BY <1>3, MeasureAssumption DEF Drivers, Names, Size
  <1>4. PICK k \in 1..Reg : Reg = k * Word
    BY MeasureAssumption
  <1>5. Reg \in Int
    BY <1>4, MeasureAssumption
  <1>6. Reg = Word * k /\ Reg >= Word /\ Reg \in Int /\ k \in Int
    BY <1>1, <1>4, <1>5
  <1>7. /\ Size \in Int /\ Size >= Word
        /\ \E j \in Int : Size = Word * j
    <2>1. CASE Size = Reg
      BY <1>6, <2>1
    <2>2. CASE Size = Word
      <3>1. Word = Word * 1
        BY <1>1
      <3>2. 1 \in Int /\ Size = Word * 1
        BY <2>2, <3>1
      <3>3. QED
        BY <1>1, <2>2, <3>2
    <2>3. QED
      BY <2>1, <2>2 DEF Size
  <1>8. QED
    BY <1>1, <1>2, <1>3, <1>7

\* subw of two readings n apart, however often the counter wrapped.
LEMMA SubWCuts ==
  ASSUME driver \in Drivers, NEW a \in Int, NEW b \in Int, NEW n \in Nat,
         (a - b) % Size = n % Size
  PROVE  SubW(a, b) \in 0..(Size - 1) /\ Cut(SubW(a, b), n)
  <1> DEFINE w == (a - b) % Word
             p == (a - b) \div Size
             q == n \div Size
  <1>1. /\ Word \in Int /\ Word > 0 /\ Size \in Int /\ Size >= Word
        /\ Word \div 2 \in Int /\ Word \div 2 < Word
    BY Widths
  <1>2. PICK j \in Int : Size = Word * j
    BY Widths
  <1>3. /\ p \in Int /\ a - b = Size * p + (n % Size)
        /\ q \in Int /\ n = Size * q + (n % Size)
        /\ n % Size \in Int
    BY <1>1, Division
  <1>4. w \in 0..(Word - 1)
    BY <1>1, Division
  <1>5. w = n % Word
    <2> HIDE DEF p, q
    <2>1. a - b = n + Word * (j * (p - q)) /\ j * (p - q) \in Int
      BY <1>1, <1>2, <1>3
    <2>2. Apart(a - b, n, Word)
      BY <2>1 DEF Apart
    <2>3. QED
      BY <1>1, <2>2, Congruent
  <1>6. w % Word = w
    BY <1>1, <1>4, SmallRemainder
  <1>7. n < Word \div 2 => n % Word = n
    BY <1>1, SmallRemainder
  <1> DEFINE r == (w - Word) % Size
             d == (w - Word) \div Size
  <1>8. r \in 0..(Size - 1) /\ r % Word = w
    <2>1. r \in 0..(Size - 1) /\ d \in Int /\ w - Word = Size * d + r
      BY <1>1, <1>4, Division
    <2> HIDE DEF r, d, w
    <2>2. r = w + Word * (-1 - j * d) /\ -1 - j * d \in Int
      BY <1>1, <1>2, <1>4, <2>1
    <2>3. Apart(r, w, Word)
      BY <2>2 DEF Apart
    <2>4. r % Word = w % Word
      BY <1>1, <1>4, <2>1, <2>3, Congruent
    <2>5. QED
      BY <1>6, <2>1, <2>4
  <1>9. SubW(a, b) = IF w < Word \div 2 THEN w ELSE r
    BY DEF SubW
  <1> HIDE DEF w, r
  <1>10. QED
    BY <1>1, <1>4, <1>5, <1>6, <1>7, <1>8, <1>9 DEF Cut

LEMMA ShownFits ==
  ASSUME driver \in Drivers, NEW v \in Int
  PROVE  /\ Shown(v) \in 0..(Size - 1)
         /\ v \in 0..(Word - 1) => Shown(v) = v
         /\ driver.name # "double" => Shown(v) = v % Word
         /\ driver.name = "double" => Shown(v) = v % Reg
  <1>1. /\ Word \in Int /\ Word > 0 /\ Size \in Int /\ Size >= Word
        /\ driver.name = "double" => Size = Reg
    BY Widths
  <1>2. v % Word \in 0..(Word - 1) /\ v % Size \in 0..(Size - 1)
    BY <1>1, Division
  <1>3. v \in 0..(Word - 1) => v % Word = v /\ v % Size = v
    BY <1>1, SmallRemainder
  <1>4. QED
    BY <1>1, <1>2, <1>3 DEF Shown

\* A reading n ahead of s, less s, is n.
LEMMA Ahead ==
  ASSUME NEW s \in Int, NEW n \in Int, NEW m \in Int, m > 0
  PROVE  (((s + n) % m) - s) % m = n % m
  <1> DEFINE r == (s + n) % m
             p == (s + n) \div m
  <1>1. p \in Int /\ r \in 0..(m - 1) /\ s + n = m * p + r
    <2>1. s + n \in Int
      OBVIOUS
    <2>2. QED
      BY <2>1, Division
  <1> HIDE DEF r, p
  <1>2. r - s = n + m * (-p) /\ -p \in Int /\ r - s \in Int
    BY <1>1
  <1>3. Apart(r - s, n, m)
    BY <1>2 DEF Apart
  <1>4. (r - s) % m = n % m
    BY <1>2, <1>3, Congruent
  <1>5. QED
    BY <1>4 DEF r

--------------------------------------------------------------------------------
(* The inductive invariant.                                                    *)

LEMMA RetiredIsNat ==
  ASSUME TypeOK
  PROVE  /\ Retired \in Nat /\ Turns \in Nat /\ Lead \in Nat
         /\ \A l : InTurns(l, Turns) \in Nat
  <1>1. /\ x20 \in Nat /\ Last[driver.name] \in Nat
    BY Widths DEF TypeOK
  <1>2. /\ Turns \in Nat /\ Lead \in {1, 2}
        /\ \A l : InTurns(l, Turns) \in Nat /\ InTurns(l, x20) \in Nat
    BY <1>1 DEF Turns, Lead, InTurns
  <1>3. Retired \in Nat
    BY <1>2 DEF Retired
  <1>4. QED
    BY <1>2, <1>3

LEMMA CountersStep ==
  ASSUME TypeOK, NEW cost \in Nat, NEW a \in Nat, NEW b \in Nat, NEW there,
         Retire(there, cost),
         mcycle = a % Size, minstret = b % Size
  PROVE  /\ mcycle' \in 0..(Size - 1) /\ minstret' \in 0..(Size - 1)
         /\ mcycle' = (a + cost) % Size /\ minstret' = (b + 1) % Size
         /\ spent' \in [{"empty", "busy"} -> Nat]
         /\ spent'[loop] = spent[loop] + cost
         /\ \A l \in {"empty", "busy"} : l # loop => spent'[l] = spent[l]
         /\ pc' = there
  <1>1. Size \in Int /\ Size > 0
    BY Widths DEF TypeOK
  <1>2. /\ mcycle' = ((a % Size) + cost) % Size
        /\ minstret' = ((b % Size) + 1) % Size
        /\ spent' = [spent EXCEPT ![loop] = @ + cost] /\ pc' = there
    BY DEF Retire
  <1>3. mcycle' = (a + cost) % Size /\ minstret' = (b + 1) % Size
    <2>1. a \in Int /\ b \in Int /\ cost \in Int /\ 1 \in Int
      OBVIOUS
    <2>2. ((a % Size) + cost) % Size = (a + cost) % Size
      BY <1>1, <2>1, ReducedSum, Zenon
    <2>3. ((b % Size) + 1) % Size = (b + 1) % Size
      BY <1>1, <2>1, ReducedSum, Zenon
    <2>4. QED
      BY <1>2, <2>2, <2>3
  <1>4. mcycle' \in 0..(Size - 1) /\ minstret' \in 0..(Size - 1)
    BY <1>1, <1>3, Division
  <1>5. /\ spent' \in [{"empty", "busy"} -> Nat]
        /\ spent'[loop] = spent[loop] + cost
        /\ \A l \in {"empty", "busy"} : l # loop => spent'[l] = spent[l]
    BY <1>2 DEF TypeOK
  <1>6. QED
    BY <1>2, <1>3, <1>4, <1>5

\* An instruction of a timed loop.
LEMMA TimedStep ==
  ASSUME IInv, pc \in Timed, NEW there \in Timed, NEW cost \in Costs,
         Retire(there, cost),
         UNCHANGED <<driver, loop, start, taken, printed>>,
         x20' \in 0..(Last[driver.name] + 1),
         Retired' = Retired + 1, ControlInv'
  PROVE  IInv'
  <1> USE DEF Timed
  <1>1. /\ TypeOK /\ TimedInv /\ TakenInv /\ cost \in Nat
        /\ start.cycles \in Nat /\ start.instrs \in Nat /\ spent[loop] \in Nat
        /\ Retired \in Nat
    BY RetiredIsNat, Widths, MeasureAssumption DEF IInv, TypeOK
  <1>2. /\ mcycle' \in 0..(Size - 1) /\ minstret' \in 0..(Size - 1)
        /\ mcycle' = (start.cycles + spent[loop] + cost) % Size
        /\ minstret' = (start.instrs + Retired + 1) % Size
        /\ spent' \in [{"empty", "busy"} -> Nat]
        /\ spent'[loop] = spent[loop] + cost
        /\ \A l \in {"empty", "busy"} : l # loop => spent'[l] = spent[l]
        /\ pc' = there
    <2>1. /\ mcycle = (start.cycles + spent[loop]) % Size
          /\ minstret = (start.instrs + Retired) % Size
          /\ start.cycles + spent[loop] \in Nat /\ start.instrs + Retired \in Nat
      BY <1>1 DEF TimedInv
    <2>2. QED
      BY <1>1, <2>1, CountersStep
  <1>3. Size' = Size /\ Turns' = Turns /\ Lead' = Lead
    BY DEF Size, Turns, Lead
  <1>4. TypeOK'
    BY <1>1, <1>2, <1>3 DEF TypeOK
  <1>5. TimedInv'
    <2>1. /\ start.cycles + spent[loop] + cost = start.cycles + spent'[loop]
          /\ start.instrs + Retired + 1 = start.instrs + Retired'
      BY <1>1, <1>2
    <2>2. QED
      BY <1>2, <1>3, <2>1 DEF TimedInv
  <1>6. TakenInv'
    <2> SUFFICES ASSUME NEW l \in {"empty", "busy"}, Finished(l)'
                 PROVE  /\ Cut(taken[l].cycles, spent'[l])
                        /\ Cut(taken[l].instrs, Lead + 2 + InTurns(l, Turns))
      BY <1>3 DEF TakenInv, Cut, InTurns
    <2>1. Finished(l) /\ l # loop
      BY <1>2 DEF Finished
    <2>2. QED
      BY <1>1, <1>2, <2>1 DEF TakenInv
  <1>7. InstrsExact' /\ CyclesExact'
    BY <1>2 DEF InstrsExact, CyclesExact
  <1>8. QED
    BY <1>4, <1>5, <1>6, <1>7 DEF IInv

LEMMA InitInv == Init => IInv
  <1> SUFFICES ASSUME Init PROVE IInv
    OBVIOUS
  <1>1. /\ driver \in Drivers /\ Size \in Int /\ Size > 0
        /\ Last[driver.name] \in Nat
    BY Widths DEF Init
  <1>2. TypeOK
    BY <1>1 DEF Init, TypeOK, Zero
  <1>3. ControlInv /\ TimedInv /\ TakenInv /\ InstrsExact /\ CyclesExact
    BY DEF Init, ControlInv, TimedInv, Timed, TakenInv, Finished, InstrsExact, CyclesExact
  <1>4. QED
    BY <1>2, <1>3 DEF IInv

LEMMA NextInv == IInv /\ [Next]_vars => IInv'
  <1> SUFFICES ASSUME IInv, [Next]_vars PROVE IInv'
    OBVIOUS
  <1>1. /\ TypeOK /\ ControlInv /\ TimedInv /\ TakenInv
        /\ Size \in Int /\ Size > 0 /\ Last[driver.name] \in Nat
        /\ Last[driver.name] + 1 < Size /\ x20 \in Nat
        /\ loop \in {"empty", "busy"} /\ driver \in Drivers
    BY Widths DEF IInv, TypeOK
  <1>2. CASE Setup
    <2>1. PICK c \in Starts, n \in Starts : mcycle' = c % Size /\ minstret' = n % Size
      BY <1>2 DEF Setup
    <2>2. mcycle' \in 0..(Size - 1) /\ minstret' \in 0..(Size - 1)
      <3>1. c \in Int /\ n \in Int
        BY MeasureAssumption
      <3>2. QED
        BY <1>1, <2>1, <3>1, Division
    <2>3. /\ pc = "setup" /\ pc' = "csrr" /\ x20' = 0
          /\ UNCHANGED <<driver, loop, start, taken, printed, spent>>
      BY <1>2 DEF Setup
    <2>4. TypeOK'
      BY <1>1, <2>2, <2>3 DEF TypeOK, Size
    <2>5. ControlInv'
      BY <1>1, <2>3 DEF ControlInv
    <2>6. TakenInv'
      BY <1>1, <2>3 DEF TakenInv, Finished, Cut, Lead, InTurns, Turns
    <2>7. QED
      BY <2>3, <2>4, <2>5, <2>6 DEF IInv, TimedInv, Timed, InstrsExact, CyclesExact
  <1>3. CASE ReadStart
    <2>1. PICK cost \in Costs :
            /\ mcycle' = (mcycle + cost) % Size
            /\ spent' = [spent EXCEPT ![loop] = @ + cost]
      BY <1>3 DEF ReadStart
    <2>2. /\ pc = "csrr" /\ pc' = IF driver.name = "latency" THEN "fence" ELSE "jal"
          /\ start' = [cycles |-> mcycle, instrs |-> (minstret + 1) % Size]
          /\ minstret' = (minstret + 2) % Size
          /\ UNCHANGED <<driver, loop, x20, taken, printed>>
      BY <1>3 DEF ReadStart
    <2>3. /\ cost \in Nat /\ mcycle \in 0..(Size - 1) /\ minstret \in 0..(Size - 1)
          /\ spent[loop] = 0 /\ x20 = 0 /\ spent'[loop] = cost
          /\ spent' \in [{"empty", "busy"} -> Nat]
          /\ \A l \in {"empty", "busy"} : l # loop => spent'[l] = spent[l]
      BY <1>1, <2>1, <2>2, MeasureAssumption DEF TypeOK, ControlInv
    <2>4. /\ mcycle' \in 0..(Size - 1) /\ minstret' \in 0..(Size - 1)
          /\ (minstret + 1) % Size \in 0..(Size - 1)
      BY <1>1, <2>1, <2>2, <2>3, Division
    <2>5. TypeOK'
      BY <1>1, <2>2, <2>3, <2>4 DEF TypeOK, Size
    <2>6. ControlInv'
      BY <1>1, <2>2, <2>3 DEF ControlInv
    <2>7. TimedInv'
      <3>1. Retired' = 1
        BY <1>1, <2>2, <2>3, <2>6 DEF Retired, Lead, InTurns, ControlInv
      <3>2. minstret' = (start'.instrs + 1) % Size
        <4>1. minstret + 1 \in Int /\ 1 \in Int /\ (minstret + 1) + 1 = minstret + 2
          BY <2>3
        <4>2. (((minstret + 1) % Size) + 1) % Size = ((minstret + 1) + 1) % Size
          BY <1>1, <4>1, ReducedSum, Zenon
        <4>3. QED
          BY <2>2, <4>1, <4>2
      <3>3. mcycle' = (start'.cycles + spent'[loop]) % Size
        BY <2>1, <2>2, <2>3
      <3>4. Size' = Size /\ loop' = loop
        BY <2>2 DEF Size
      <3>5. QED
        BY <3>1, <3>2, <3>3, <3>4 DEF TimedInv, Timed
    <2>8. TakenInv'
      BY <1>1, <2>2, <2>3 DEF TakenInv, Finished, Cut, Lead, InTurns, Turns
    <2>9. QED
      BY <2>2, <2>5, <2>6, <2>7, <2>8 DEF IInv, InstrsExact, CyclesExact
  <1>4. CASE Jal
    <2>1. PICK cost \in Costs : Retire(LoopStart, cost)
      BY <1>4 DEF Jal, Plain
    <2>2. /\ pc = "jal" /\ pc' = LoopStart /\ pc \in Timed /\ LoopStart \in Timed
          /\ UNCHANGED <<driver, loop, x20, start, taken, printed>>
      BY <1>4, <2>1 DEF Jal, Plain, Retire, Timed, LoopStart
    <2>3. Retired' = Retired + 1 /\ x20' \in 0..(Last[driver.name] + 1)
      BY <1>1, <2>2 DEF Retired, Lead, InTurns, ControlInv, TypeOK, LoopStart
    <2>4. ControlInv'
      BY <1>1, <2>1, <2>2 DEF ControlInv, Retire, TypeOK, LoopStart
    <2>5. QED
      BY <2>1, <2>2, <2>3, <2>4, TimedStep
  <1>5. CASE Inst
    <2>1. PICK cost \in Costs : Retire("fence", cost)
      BY <1>5 DEF Inst, Plain
    <2>2. /\ pc = "inst" /\ pc' = "fence" /\ pc \in Timed /\ "fence" \in Timed
          /\ UNCHANGED <<driver, loop, x20, start, taken, printed>>
      BY <1>5, <2>1 DEF Inst, Plain, Retire, Timed
    <2>3. Retired' = Retired + 1 /\ x20' \in 0..(Last[driver.name] + 1)
      BY <1>1, <2>2 DEF Retired, Lead, InTurns, ControlInv, TypeOK
    <2>4. ControlInv'
      BY <1>1, <2>1, <2>2 DEF ControlInv, Retire, TypeOK
    <2>5. QED
      BY <2>1, <2>2, <2>3, <2>4, TimedStep
  <1>6. CASE Fence
    <2>1. PICK cost \in Costs : Retire("addi", cost)
      BY <1>6 DEF Fence, Plain
    <2>2. /\ pc = "fence" /\ pc' = "addi" /\ pc \in Timed /\ "addi" \in Timed
          /\ UNCHANGED <<driver, loop, x20, start, taken, printed>>
      BY <1>6, <2>1 DEF Fence, Plain, Retire, Timed
    <2>3. Retired' = Retired + 1 /\ x20' \in 0..(Last[driver.name] + 1)
      BY <1>1, <2>2 DEF Retired, Lead, InTurns, ControlInv, TypeOK
    <2>4. ControlInv'
      BY <1>1, <2>1, <2>2 DEF ControlInv, Retire, TypeOK
    <2>5. QED
      BY <2>1, <2>2, <2>3, <2>4, TimedStep
  <1>7. CASE Addi
    <2>1. PICK cost \in Costs : Retire("bleu", cost)
      BY <1>7 DEF Addi
    <2>2. /\ pc = "addi" /\ pc' = "bleu" /\ pc \in Timed /\ "bleu" \in Timed
          /\ UNCHANGED <<driver, loop, start, taken, printed>>
      BY <1>7, <2>1 DEF Addi, Retire, Timed
    <2>3. x20' = x20 + 1
      <3>1. x20 + 1 \in 0..(Size - 1)
        BY <1>1, <2>2 DEF ControlInv
      <3>2. QED
        BY <1>1, <1>7, <3>1, SmallRemainder DEF Addi
    <2>4. Retired' = Retired + 1 /\ x20' \in 0..(Last[driver.name] + 1)
      BY <1>1, <2>2, <2>3 DEF Retired, Lead, InTurns, ControlInv, TypeOK
    <2>5. ControlInv'
      BY <1>1, <2>1, <2>2, <2>3 DEF ControlInv, Retire, TypeOK
    <2>6. QED
      BY <2>1, <2>2, <2>4, <2>5, TimedStep
  <1>8. CASE Bleu
    <2> DEFINE there == IF x20 <= Last[driver.name] THEN LoopStart ELSE "term"
    <2>1. PICK cost \in Costs : Retire(there, cost)
      BY <1>8 DEF Bleu
    <2>2. /\ pc = "bleu" /\ pc' = there /\ pc \in Timed /\ there \in Timed
          /\ UNCHANGED <<driver, loop, x20, start, taken, printed>>
      BY <1>8, <2>1 DEF Bleu, Retire, Timed, LoopStart
    <2>3. Retired' = Retired + 1 /\ x20' \in 0..(Last[driver.name] + 1)
      BY <1>1, <2>2 DEF Retired, Lead, InTurns, ControlInv, TypeOK, LoopStart
    <2>4. ControlInv'
      BY <1>1, <2>1, <2>2 DEF ControlInv, Retire, TypeOK, LoopStart
    <2> HIDE DEF there
    <2>5. QED
      BY <2>1, <2>2, <2>3, <2>4, TimedStep
  <1>9. CASE JalTerm
    <2>1. PICK cost \in Costs : Retire("read", cost)
      BY <1>9 DEF JalTerm, Plain
    <2>2. /\ pc = "term" /\ pc' = "read" /\ pc \in Timed /\ "read" \in Timed
          /\ UNCHANGED <<driver, loop, x20, start, taken, printed>>
      BY <1>9, <2>1 DEF JalTerm, Plain, Retire, Timed
    <2>3. Retired' = Retired + 1 /\ x20' \in 0..(Last[driver.name] + 1)
      BY <1>1, <2>2 DEF Retired, Lead, InTurns, ControlInv, TypeOK
    <2>4. ControlInv'
      BY <1>1, <2>1, <2>2 DEF ControlInv, Retire, TypeOK
    <2>5. QED
      BY <2>1, <2>2, <2>3, <2>4, TimedStep
  <1>10. CASE ReadEnd
    <2>1. /\ pc = "read"
          /\ taken' = [taken EXCEPT ![loop] =
               [cycles |-> SubW(mcycle, start.cycles),
                instrs |-> SubW((minstret + 1) % Size, start.instrs)]]
          /\ IF loop = "empty" /\ driver.name # "latency"
             THEN loop' = "busy" /\ pc' = "setup"
             ELSE loop' = loop /\ pc' = "print"
          /\ UNCHANGED <<driver, x20, mcycle, minstret, start, printed, spent>>
      BY <1>10 DEF ReadEnd
    <2> DEFINE n == Lead + 2 + InTurns(loop, Turns)
               cy == SubW(mcycle, start.cycles)
               in == SubW((minstret + 1) % Size, start.instrs)
    <2>2. /\ start.cycles \in Int /\ start.instrs \in Int /\ mcycle \in Int /\ minstret \in Int
          /\ spent[loop] \in Nat /\ n \in Nat /\ Retired \in Int /\ Retired + 1 = n
      <3>1. x20 = Turns
        BY <2>1, <1>1 DEF ControlInv, Turns
      <3>2. Retired + 1 = n /\ Lead \in Nat /\ InTurns(loop, Turns) \in Nat /\ Retired \in Int
        BY <1>1, <2>1, <3>1, RetiredIsNat DEF Retired
      <3>3. QED
        BY <1>1, <3>2 DEF TypeOK
    <2>3. /\ mcycle = (start.cycles + spent[loop]) % Size
          /\ minstret = (start.instrs + Retired) % Size
      BY <1>1, <2>1 DEF TimedInv, Timed
    <2> HIDE DEF n
    <2>4. cy \in 0..(Size - 1) /\ Cut(cy, spent[loop])
      <3>1. (mcycle - start.cycles) % Size = spent[loop] % Size
        BY <1>1, <2>2, <2>3, Ahead
      <3>2. QED
        BY <1>1, <2>2, <3>1, SubWCuts
    <2>5. in \in 0..(Size - 1) /\ Cut(in, n)
      <3>1. (minstret + 1) % Size = (start.instrs + n) % Size
        <4>1. start.instrs + Retired \in Int /\ 1 \in Int
          BY <2>2
        <4>2. (((start.instrs + Retired) % Size) + 1) % Size = ((start.instrs + Retired) + 1) % Size
          BY <1>1, <4>1, ReducedSum, Zenon
        <4>3. (start.instrs + Retired) + 1 = start.instrs + n
          BY <2>2
        <4>4. QED
          BY <2>3, <4>2, <4>3
      <3>2. ((minstret + 1) % Size) \in Int
        BY <1>1, <2>2, Division
      <3>3. (((minstret + 1) % Size) - start.instrs) % Size = n % Size
        <4>1. (((start.instrs + n) % Size) - start.instrs) % Size = n % Size
          <5>1. n \in Int /\ start.instrs \in Int /\ Size \in Int /\ Size > 0
            BY <1>1, <2>2
          <5>2. QED
            BY <5>1, Ahead, Zenon
        <4>2. QED
          BY <3>1, <4>1
      <3>4. QED
        BY <1>1, <2>2, <3>2, <3>3, SubWCuts
    <2> HIDE DEF cy, in
    <2>6. /\ taken' \in [{"empty", "busy"} -> [cycles : 0..(Size - 1), instrs : 0..(Size - 1)]]
          /\ taken'[loop] = [cycles |-> cy, instrs |-> in]
          /\ \A l \in {"empty", "busy"} : l # loop => taken'[l] = taken[l]
      <3>1. taken' = [taken EXCEPT ![loop] = [cycles |-> cy, instrs |-> in]]
        BY <2>1 DEF cy, in
      <3>2. QED
        BY <1>1, <2>4, <2>5, <3>1 DEF TypeOK
    <2>7. Size' = Size /\ Turns' = Turns /\ Lead' = Lead
      BY <2>1 DEF Size, Turns, Lead
    <2>8. TypeOK'
      BY <1>1, <2>1, <2>6, <2>7 DEF TypeOK
    <2>9. ControlInv'
      BY <1>1, <2>1 DEF ControlInv
    <2>10. TakenInv'
      <3> SUFFICES ASSUME NEW l \in {"empty", "busy"}, Finished(l)'
                   PROVE  /\ Cut(taken'[l].cycles, spent[l])
                          /\ Cut(taken'[l].instrs, Lead + 2 + InTurns(l, Turns))
        BY <2>1, <2>7 DEF TakenInv, Cut, InTurns
      <3>1. CASE l = loop
        BY <2>4, <2>5, <2>6, <3>1 DEF n
      <3>2. CASE l # loop
        <4>1. Finished(l)
          BY <1>1, <2>1, <3>2 DEF Finished
        <4>2. QED
          BY <1>1, <2>6, <3>2, <4>1 DEF TakenInv
      <3>3. QED
        BY <3>1, <3>2
    <2>11. QED
      BY <2>1, <2>8, <2>9, <2>10 DEF IInv, TimedInv, Timed, InstrsExact, CyclesExact
  <1>11. CASE Report
    <2>1. /\ pc = "print" /\ pc' = "done"
          /\ UNCHANGED <<driver, loop, x20, mcycle, minstret, start, taken, spent>>
          /\ driver.name = "latency" =>
               printed' = [cycles |-> Shown(taken["empty"].cycles),
                           instrs |-> Shown(taken["empty"].instrs)]
          /\ driver.name # "latency" =>
               printed' = [cycles |-> Shown(taken["busy"].cycles - taken["empty"].cycles),
                           instrs |-> Shown(taken["busy"].instrs - taken["empty"].instrs)]
      BY <1>11 DEF Report
    <2>2. /\ \A l \in {"empty", "busy"} :
               taken[l].cycles \in Int /\ taken[l].instrs \in Int /\ spent[l] \in Nat
          /\ Word \in Int /\ Word > 0 /\ Word \div 2 \in Int /\ Word \div 2 < Word
          /\ Turns \in Nat /\ Turns = Last[driver.name] + 1
          /\ 4 * Turns + 4 < Word \div 2
      BY <1>1, Widths DEF TypeOK, Turns
    <2>3. /\ Cut(taken["empty"].cycles, spent["empty"])
          /\ taken["empty"].instrs = Lead + 2 + 3 * Turns
          /\ Finished("empty")
      <3>1. Finished("empty")
        BY <1>1, <2>1 DEF Finished, ControlInv
      <3>2. Lead + 2 + 3 * Turns < Word \div 2
        BY <2>2 DEF Lead
      <3>3. QED
        BY <1>1, <3>1, <3>2 DEF TakenInv, InTurns, Cut
    <2>4. ASSUME driver.name # "latency"
          PROVE  /\ Cut(taken["busy"].cycles, spent["busy"])
                 /\ taken["busy"].instrs = 4 + 4 * Turns
                 /\ Lead = 2
      <3>1. Finished("busy")
        BY <1>1, <2>1, <2>4 DEF Finished, ControlInv
      <3>2. Lead = 2 /\ Lead + 2 + 4 * Turns = 4 + 4 * Turns
        BY <2>2, <2>4 DEF Lead
      <3>3. QED
        BY <1>1, <2>2, <3>1, <3>2 DEF TakenInv, InTurns, Cut
    <2>5. /\ printed' \in [cycles : 0..(Size - 1), instrs : 0..(Size - 1)]
          /\ InstrsExact' /\ CyclesExact'
      <3>1. CASE driver.name = "latency"
        <4>1. taken["empty"].instrs = 3 * Turns + 3 /\ 3 * Turns + 3 \in 0..(Word - 1)
          BY <2>2, <2>3, <3>1 DEF Lead
        <4>2. /\ printed'.instrs = 3 * Turns + 3
              /\ printed'.cycles = taken["empty"].cycles % Word
              /\ printed' \in [cycles : 0..(Size - 1), instrs : 0..(Size - 1)]
          <5> DEFINE c == taken["empty"].cycles
                     i == taken["empty"].instrs
          <5>1. printed' = [cycles |-> Shown(c), instrs |-> Shown(i)] /\ c \in Int
            BY <2>1, <2>2, <3>1
          <5>2. i = 3 * Turns + 3 /\ i \in 0..(Word - 1) /\ i \in Int
            BY <2>2, <4>1
          <5> HIDE DEF c, i
          <5>3. Shown(i) = i /\ Shown(c) = c % Word
            BY <1>1, <3>1, <5>1, <5>2, ShownFits
          <5>4. Shown(i) \in 0..(Size - 1) /\ Shown(c) \in 0..(Size - 1)
            BY <1>1, <5>1, <5>2, ShownFits
          <5>5. QED
            BY <5>1, <5>2, <5>3, <5>4 DEF c
        <4>3. printed'.cycles = spent["empty"] % Word
          BY <2>3, <4>2 DEF Cut
        <4>4. QED
          BY <2>1, <3>1, <4>2, <4>3 DEF InstrsExact, CyclesExact, Turns
      <3>2. CASE driver.name # "latency"
        <4> DEFINE i == taken["busy"].instrs - taken["empty"].instrs
                   c == taken["busy"].cycles - taken["empty"].cycles
                   longer == spent["busy"] - spent["empty"]
        <4>1. i = Turns /\ i \in 0..(Word - 1) /\ c \in Int /\ longer \in Int
          BY <2>2, <2>3, <2>4, <3>2
        <4>2. printed' = [cycles |-> Shown(c), instrs |-> Shown(i)]
          BY <2>1, <3>2
        <4>3. c % Word = longer % Word
          <5>1. /\ Same(taken["busy"].cycles, spent["busy"], Word)
                /\ Same(taken["empty"].cycles, spent["empty"], Word)
            BY <2>3, <2>4, <3>2 DEF Cut, Same
          <5>2. Same(taken["busy"].cycles - taken["empty"].cycles,
                     spent["busy"] - spent["empty"], Word)
            BY <2>2, <5>1, ReducedDifference
          <5>3. QED
            BY <5>2 DEF Same
        <4>4. spent["busy"] < Word \div 2 /\ spent["empty"] < Word \div 2 => c = longer
          BY <2>3, <2>4, <3>2 DEF Cut
        <4> HIDE DEF c, i, longer
        <4>5. /\ Shown(i) = Turns
              /\ Shown(c) \in 0..(Size - 1) /\ Shown(i) \in 0..(Size - 1)
              /\ driver.name # "double" => Shown(c) = longer % Word
              /\ driver.name = "double" => Shown(c) = c % Reg
          BY <1>1, <4>1, <4>3, ShownFits
        <4>6. InstrsExact'
          BY <2>1, <3>2, <4>2, <4>5 DEF InstrsExact, Turns
        <4>7. CyclesExact'
          BY <2>1, <3>2, <4>2, <4>4, <4>5 DEF CyclesExact, longer
        <4>8. QED
          BY <4>2, <4>5, <4>6, <4>7
      <3>3. QED
        BY <3>1, <3>2
    <2>6. TypeOK'
      BY <1>1, <2>1, <2>5 DEF TypeOK, Size
    <2>7. ControlInv'
      BY <1>1, <2>1 DEF ControlInv
    <2>8. TakenInv'
      BY <1>1, <2>1 DEF TakenInv, Finished, Cut, Lead, InTurns, Turns
    <2>9. QED
      BY <2>1, <2>5, <2>6, <2>7, <2>8 DEF IInv, TimedInv, Timed
  <1>12. CASE UNCHANGED vars
    BY <1>12 DEF vars, IInv, TypeOK, Size, ControlInv, TimedInv, Timed, Retired, Lead,
       InTurns, TakenInv, Finished, Cut, Turns, InstrsExact, CyclesExact, Shown
  <1>13. QED
    BY <1>2, <1>3, <1>4, <1>5, <1>6, <1>7, <1>8, <1>9, <1>10, <1>11, <1>12 DEF Next

--------------------------------------------------------------------------------
\* In every reachable state the counters are ahead of their readings by exactly
\* what the loop of the driver has executed and spent (int-driver.c and its kin),
\* and what a finished loop has measured is that, cut to a word by subw.
THEOREM InvariantHolds == Spec => []IInv
  <1>1. QED
    BY InitInv, NextInv, PTL DEF Spec

\* The instruction count printed is the number of tested instructions executed,
\* whatever the counters started from, for any width, cost and length of the loop.
THEOREM InstructionsCounted == Spec => []InstrsExact
  <1>1. IInv => InstrsExact
    BY DEF IInv
  <1>2. QED
    BY <1>1, InvariantHolds, PTL

\* The cycles printed are the difference of the loops, modulo what printf shows.
THEOREM CyclesCounted == Spec => []CyclesExact
  <1>1. IInv => CyclesExact
    BY DEF IInv
  <1>2. QED
    BY <1>1, InvariantHolds, PTL
================================================================================
