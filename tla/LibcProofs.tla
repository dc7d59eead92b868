------------------------------- MODULE LibcProofs ------------------------------
(* That the memory and string routines keep their promises, for every memory,  *)
(* every legal call and both word sizes, and that vprintfmt writes what ISO C  *)
(* says for every format on which it can be expected to and every argument.    *)
EXTENDS Libc, SequenceTheorems, WellFoundedInduction, TLAPS

--------------------------------------------------------------------------------
(* Memory.                                                                     *)

\* What the store of v at x makes of memory.
LEMMA PutBytes ==
  ASSUME NEW m \in Nat, NEW v \in [1..m -> Int], NEW x \in Nat, mem \in [Cells -> Int], Put(x, v)
  PROVE  /\ mem' = [y \in Cells |-> IF y \in x..(x + m - 1) THEN v[y - x + 1] ELSE mem[y]]
         /\ mem' \in [Cells -> Int]
<1>1. v \in Seq(Int) /\ Len(v) = m
  OBVIOUS
<1>2. DOMAIN mem = Cells
  OBVIOUS
<1>3. mem' = [y \in Cells |-> IF y \in x..(x + m - 1) THEN v[y - x + 1] ELSE mem[y]]
  BY <1>1, <1>2, Zenon DEF Put
<1>4. \A y \in Cells : (IF y \in x..(x + m - 1) THEN v[y - x + 1] ELSE mem[y]) \in Int
  BY DEF Cells
<1> QED BY <1>3, <1>4

\* Storing the next n bytes of the source extends what has been filled.
LEMMA FillMore ==
  ASSUME NEW n \in Nat, i \in Nat, call.a \in Nat, mem \in [Cells -> Int],
         NEW v \in [1..n -> Int], Put(call.a + i, v), Filled(i),
         \A k \in 1..n : v[k] = Source(i + k - 1)
  PROVE  /\ mem' = [y \in Cells |->
                      IF y \in call.a..(call.a + (i + n) - 1) THEN Source(y - call.a) ELSE call.mem[y]]
         /\ mem' \in [Cells -> Int]
<1>1. /\ mem' = [y \in Cells |-> IF y \in (call.a + i)..(call.a + i + n - 1)
                                THEN v[y - (call.a + i) + 1] ELSE mem[y]]
      /\ mem' \in [Cells -> Int]
  <2> DEFINE x == call.a + i
  <2>1. x \in Nat
    OBVIOUS
  <2> HIDE DEF x
  <2>2. Put(x, v) => /\ mem' = [y \in Cells |-> IF y \in x..(x + n - 1)
                                                THEN v[y - x + 1] ELSE mem[y]]
                     /\ mem' \in [Cells -> Int]
    BY <2>1, PutBytes, Zenon
  <2> QED BY <2>2 DEF x
<1>2. \A y \in Cells : mem[y] = IF y \in call.a..(call.a + i - 1) THEN Source(y - call.a) ELSE call.mem[y]
  BY Zenon DEF Filled
<1>3. ASSUME NEW y \in Cells
      PROVE  (IF y \in (call.a + i)..(call.a + i + n - 1) THEN v[y - (call.a + i) + 1] ELSE mem[y])
               = IF y \in call.a..(call.a + (i + n) - 1) THEN Source(y - call.a) ELSE call.mem[y]
  <2>1. y \in Nat
    BY MemoryAssumption DEF Cells
  <2>2. CASE y \in (call.a + i)..(call.a + i + n - 1)
    <3>1. y - (call.a + i) + 1 \in 1..n /\ i + (y - (call.a + i) + 1) - 1 = y - call.a
      BY <2>1, <2>2
    <3>2. v[y - (call.a + i) + 1] = Source(y - call.a)
      BY <3>1
    <3> QED BY <2>1, <2>2, <3>2, SMTT(30)
  <2>3. CASE y \notin (call.a + i)..(call.a + i + n - 1)
    BY <1>2, <2>1, <2>3, SMTT(30)
  <2> QED BY <2>2, <2>3
<1> QED BY <1>1, <1>3

\* A word whose first e bytes are c.
Block(c, e) == [k \in 1..WordBytes |-> IF k <= e THEN c ELSE 0]

\* A block or-ed with itself n bytes further on is n bytes longer.
LEMMA OrShift ==
  ASSUME NEW c \in Nat, NEW d \in Nat, NEW n \in Nat, n <= d
  PROVE  Or(Block(c, d), ShiftedBytes(Block(c, d), n)) = Block(c, d + n)
<1>1. \A k \in 1..WordBytes :
        ShiftedBytes(Block(c, d), n)[k] = IF k > n /\ k - n <= d THEN c ELSE 0
  BY MemoryAssumption DEF ShiftedBytes, Block
<1>2. DOMAIN Block(c, d) = 1..WordBytes
  BY DEF Block
<1>3. \A k \in 1..WordBytes :
        (IF Block(c, d)[k] = 0 THEN ShiftedBytes(Block(c, d), n)[k] ELSE Block(c, d)[k])
          = IF k <= d + n THEN c ELSE 0
  BY <1>1, MemoryAssumption DEF Block
<1> QED BY <1>2, <1>3 DEF Or, Block

\* Whatever the width of the word, memset fills it with the byte.
LEMMA SpreadFills ==
  ASSUME NEW byte \in Int
  PROVE  Spread(byte) = [k \in 1..WordBytes |-> byte % 256]
<1> DEFINE c == byte % 256
<1>1. c \in Nat
  OBVIOUS
<1> HIDE DEF c
<1>2. [k \in 1..WordBytes |-> IF k = 1 THEN c ELSE 0] = Block(c, 1)
  BY MemoryAssumption DEF Block
<1>3. /\ Or(Block(c, 1), ShiftedBytes(Block(c, 1), 1)) = Block(c, 1 + 1)
      /\ Or(Block(c, 2), ShiftedBytes(Block(c, 2), 2)) = Block(c, 2 + 2)
      /\ Or(Block(c, 4), ShiftedBytes(Block(c, 4), 4)) = Block(c, 4 + 4)
  BY <1>1, OrShift
<1>4. ShiftedBytes(ShiftedBytes(Block(c, 4), 2), 2) = ShiftedBytes(Block(c, 4), 4)
  BY MemoryAssumption DEF ShiftedBytes, Block
<1>5. Block(c, 8) = [k \in 1..WordBytes |-> c]
  BY MemoryAssumption DEF Block
<1>6. 1 + 1 = 2 /\ 2 + 2 = 4 /\ 4 + 4 = 8
  OBVIOUS
<1>7. Spread(byte) =
        LET low  == [k \in 1..WordBytes |-> IF k = 1 THEN c ELSE 0]
            half == Or(low, ShiftedBytes(low, 1))
            word == Or(half, ShiftedBytes(half, 2))
        IN  Or(word, ShiftedBytes(ShiftedBytes(word, 2), 2))
  BY DEF Spread, c
<1> QED BY <1>2, <1>3, <1>4, <1>5, <1>6, <1>7 DEF c

\* A loop that takes whole words of a whole number of words does not overrun it.
LEMMA WholeWords ==
  ASSUME NEW j \in Nat, NEW n \in Nat, j % WordBytes = 0
  PROVE  /\ (j + WordBytes) % WordBytes = 0
         /\ j < n /\ n % WordBytes = 0 => j + WordBytes <= n
         /\ j < (n \div WordBytes) * WordBytes => j + WordBytes <= n
<1>1. CASE WordBytes = 4
  BY <1>1
<1>2. CASE WordBytes = 8
  BY <1>2
<1> QED BY <1>1, <1>2, MemoryAssumption

--------------------------------------------------------------------------------
(* The routines that fill.                                                     *)

\* A call that has not returned has promised nothing yet.
LEMMA Unreturned ==
  ASSUME ret' = Running
  PROVE  ResultExact' /\ MemoryExact'
BY DEF ResultExact, MemoryExact

LEMMA WordAtBytes ==
  ASSUME mem \in [Cells -> Int], NEW x \in Nat, NEW n, Within(x, n), WordBytes <= n
  PROVE  WordAt(x) \in [1..WordBytes -> Int] /\ \A k \in 1..WordBytes : WordAt(x)[k] = mem[x + k - 1]
<1>1. \A k \in 1..WordBytes : x + k - 1 \in Cells
  BY MemoryAssumption DEF Within, Cells
<1> QED BY <1>1 DEF WordAt

\* What memcpy has not copied yet is what it was called with: the copies do not overlap it.
LEMMA SourceIntact ==
  ASSUME StrInv, ret = Running, call.f \in {"memcpy"}, NEW k \in i..(call.n - 1)
  PROVE  mem[call.b + k] = Source(k) /\ call.b + k \in Cells
<1>1. /\ call.a \in Nat /\ call.b \in Nat /\ call.n \in Nat /\ i \in Nat
      /\ call.b + call.n <= MemSize
      /\ call.a + call.n <= call.b \/ call.b + call.n <= call.a
      /\ i <= call.n /\ Filled(i)
  BY DEF StrInv, Legal, LoopInv, Within
<1>2. call.b + k \in Cells /\ call.b + k \notin call.a..(call.a + i - 1)
  BY <1>1, MemoryAssumption DEF Cells
<1> QED BY <1>1, <1>2 DEF Filled, Source

\* One turn of memcpy or memset, however many bytes it moves.
LEMMA FillStep ==
  ASSUME StrInv, ret = Running, call.f \in {"memcpy", "memset"},
         NEW n \in Nat, i + n <= call.n, phase = "words" => (i + n) % WordBytes = 0,
         NEW v \in [1..n -> Int], \A k \in 1..n : v[k] = Source(i + k - 1),
         Put(call.a + i, v), i' = i + n, call' = call, phase' = phase, ret' = ret
  PROVE  StrInv'
<1>1. /\ mem \in [Cells -> Int] /\ Legal(call) /\ i \in Nat /\ Filled(i)
      /\ Within(call.a, call.n)
      /\ phase = "words" => call.n % WordBytes = 0
  BY DEF StrInv, LoopInv, Legal
<1>2. /\ mem' = [y \in Cells |-> IF y \in call.a..(call.a + (i + n) - 1)
                                THEN Source(y - call.a) ELSE call.mem[y]]
      /\ mem' \in [Cells -> Int]
  BY <1>1, FillMore DEF Within
<1>3. Filled(i)'
  BY <1>2 DEF Filled, Source
<1> QED BY <1>1, <1>2, <1>3, Unreturned DEF StrInv, LoopInv

LEMMA CopyWordStep == ASSUME StrInv, CopyWord PROVE StrInv'
<1>1. /\ call.f = "memcpy" /\ ret = Running /\ phase = "words" /\ i < call.n
      /\ Put(call.a + i, WordAt(call.b + i)) /\ i' = i + WordBytes
      /\ call' = call /\ phase' = phase /\ ret' = ret
  BY DEF CopyWord, Calling
<1>2. /\ mem \in [Cells -> Int] /\ i \in Nat
      /\ Within(call.a, call.n) /\ Within(call.b, call.n)
      /\ i % WordBytes = 0 /\ call.n % WordBytes = 0
  BY <1>1 DEF StrInv, LoopInv, Legal
<1>3. WordBytes \in Nat /\ i + WordBytes <= call.n /\ (i + WordBytes) % WordBytes = 0
  <2>1. call.n \in Nat
    BY <1>2 DEF Within
  <2> QED BY <1>1, <1>2, <2>1, WholeWords, MemoryAssumption
<1>4. /\ WordAt(call.b + i) \in [1..WordBytes -> Int]
      /\ \A k \in 1..WordBytes : WordAt(call.b + i)[k] = mem[call.b + i + k - 1]
  <2>1. call.b + i \in Nat /\ Within(call.b + i, call.n - i) /\ WordBytes <= call.n - i
    BY <1>1, <1>2, <1>3 DEF Within
  <2> QED BY <1>2, <2>1, WordAtBytes
<1>5. \A k \in 1..WordBytes : WordAt(call.b + i)[k] = Source(i + k - 1)
  <2> TAKE k \in 1..WordBytes
  <2> DEFINE j == i + k - 1
  <2>1. j \in i..(call.n - 1)
    BY <1>1, <1>2, <1>3 DEF Within
  <2>2. mem[call.b + j] = Source(j)
    <3> HIDE DEF j
    <3> QED BY <1>1, <2>1, SourceIntact
  <2>3. call.b + j = call.b + i + k - 1
    <3>1. call.b \in Nat /\ i \in Nat /\ k \in Nat
      BY <1>2, <1>3 DEF Within
    <3> QED BY <3>1
  <2> QED BY <1>4, <2>2, <2>3
<1> QED BY <1>1, <1>3, <1>4, <1>5, FillStep

LEMMA CopyByteStep == ASSUME StrInv, CopyByte PROVE StrInv'
<1>1. /\ call.f = "memcpy" /\ ret = Running /\ phase = "bytes" /\ i < call.n
      /\ Put(call.a + i, <<mem[call.b + i]>>) /\ i' = i + 1
      /\ call' = call /\ phase' = phase /\ ret' = ret
  BY DEF CopyByte, Calling
<1>2. mem \in [Cells -> Int] /\ i \in Nat /\ Within(call.a, call.n)
  BY <1>1 DEF StrInv, Legal
<1>3. i \in i..(call.n - 1)
  BY <1>1, <1>2 DEF Within
<1>4. mem[call.b + i] = Source(i) /\ mem[call.b + i] \in Int
  BY <1>1, <1>2, <1>3, SourceIntact
<1>5. <<mem[call.b + i]>> \in [1..1 -> Int] /\ \A k \in 1..1 : <<mem[call.b + i]>>[k] = Source(i + k - 1)
  BY <1>2, <1>4
<1>6. i + 1 <= call.n
  BY <1>1, <1>2 DEF Within
<1> QED BY <1>1, <1>5, <1>6, FillStep

LEMMA FillWordStep == ASSUME StrInv, FillWord PROVE StrInv'
<1>1. /\ call.f = "memset" /\ ret = Running /\ phase = "words" /\ i < call.n
      /\ Put(call.a + i, Spread(call.b)) /\ i' = i + WordBytes
      /\ call' = call /\ phase' = phase /\ ret' = ret
  BY DEF FillWord, Calling
<1>2. /\ i \in Nat /\ Within(call.a, call.n) /\ call.b \in Int
      /\ i % WordBytes = 0 /\ call.n % WordBytes = 0
  BY <1>1 DEF StrInv, LoopInv, Legal
<1>3. WordBytes \in Nat /\ i + WordBytes <= call.n /\ (i + WordBytes) % WordBytes = 0
  BY <1>1, <1>2, WholeWords, MemoryAssumption DEF Within
<1>4. /\ Spread(call.b) \in [1..WordBytes -> Int]
      /\ \A k \in 1..WordBytes : Spread(call.b)[k] = Source(i + k - 1)
  <2>1. Spread(call.b) = [k \in 1..WordBytes |-> call.b % 256]
    BY <1>2, SpreadFills
  <2>2. call.b % 256 \in Int
    BY <1>2
  <2> QED BY <1>1, <2>1, <2>2 DEF Source
<1> QED BY <1>1, <1>3, <1>4, FillStep

LEMMA FillByteStep == ASSUME StrInv, FillByte PROVE StrInv'
<1>1. /\ call.f = "memset" /\ ret = Running /\ phase = "bytes" /\ i < call.n
      /\ Put(call.a + i, <<call.b % 256>>) /\ i' = i + 1
      /\ call' = call /\ phase' = phase /\ ret' = ret
  BY DEF FillByte, Calling
<1>2. i \in Nat /\ Within(call.a, call.n) /\ call.b \in Int
  BY <1>1 DEF StrInv, Legal
<1>3. <<call.b % 256>> \in [1..1 -> Int] /\ \A k \in 1..1 : <<call.b % 256>>[k] = Source(i + k - 1)
  BY <1>1, <1>2 DEF Source
<1>4. i + 1 <= call.n
  BY <1>1, <1>2 DEF Within
<1> QED BY <1>1, <1>3, <1>4, FillStep

--------------------------------------------------------------------------------
(* Where a search without a loop ends.                                         *)

LEMMA FirstDiffers ==
  ASSUME call.n \in Nat, NEW r \in 0..call.n, Equal(r), r = call.n \/ Differ(r)
  PROVE  FirstDifference = r
<1> DEFINE Q(k) == (k = call.n \/ Differ(k)) /\ \A j \in 0..(k - 1) : ~Differ(j)
<1>1. Q(r)
  BY DEF Equal
<1>2. ASSUME NEW k \in 0..call.n, Q(k)
      PROVE  k = r
  <2>1. CASE k < r
    BY <1>2, <2>1 DEF Equal
  <2>2. CASE r < k
    BY <1>2, <2>2
  <2> QED BY <2>1, <2>2
<1> HIDE DEF Q
<1>3. (CHOOSE k \in 0..call.n : Q(k)) = r
  BY <1>1, <1>2
<1> QED BY <1>3 DEF FirstDifference, First, Q

LEMMA LengthIs ==
  ASSUME NEW x \in Nat, NEW r \in 0..(MemSize - x), NonZero(x, r),
         r = MemSize - x \/ call.mem[x + r] = 0
  PROVE  Length(x) = r
<1> DEFINE Q(k) == (k = MemSize - x \/ call.mem[x + k] = 0)
                     /\ \A j \in 0..(k - 1) : call.mem[x + j] # 0
<1>1. Q(r)
  BY DEF NonZero
<1>2. ASSUME NEW k \in 0..(MemSize - x), Q(k)
      PROVE  k = r
  <2>1. CASE k < r
    BY <1>2, <2>1, MemoryAssumption DEF NonZero
  <2>2. CASE r < k
    BY <1>2, <2>2, MemoryAssumption
  <2> QED BY <2>1, <2>2
<1> HIDE DEF Q
<1>3. (CHOOSE k \in 0..(MemSize - x) : Q(k)) = r
  BY <1>1, <1>2
<1> QED BY <1>3 DEF Length, First, Q

\* The least number of a set: the prover's form of induction.
LEMMA Least ==
  ASSUME NEW T \in SUBSET Nat, T # {}
  PROVE  \E m \in T : \A k \in T : m <= k
<1> DEFINE Less == {q \in Nat \X Nat : q[1] < q[2]}
<1>1. IsWellFoundedOn(Less, Nat)
  BY NatLessThanWellFounded DEF OpToRel
<1>2. \A x, y \in Nat : <<y, x>> \in Less <=> y < x
  <2> TAKE x, y \in Nat
  <2>1. <<y, x>> \in Nat \X Nat /\ <<y, x>>[1] = y /\ <<y, x>>[2] = x
    OBVIOUS
  <2> QED BY <2>1, Zenon
<1> HIDE DEF Less
<1>3. \E x \in T : \A y \in T : <<y, x>> \notin Less
  BY <1>1, WFMin
<1>4. \A x, y \in Nat : ~(y < x) => x <= y
  OBVIOUS
<1> QED BY <1>2, <1>3, <1>4, Zenon

\* A string whose first n characters are not its end is at least n long.
LEMMA LengthAtLeast ==
  ASSUME NEW x \in Nat, NEW n \in Nat, x + n <= MemSize, NonZero(x, n)
  PROVE  Length(x) \in Nat /\ Length(x) >= n
<1> DEFINE T == {k \in 0..(MemSize - x) : k = MemSize - x \/ call.mem[x + k] = 0}
<1>1. MemSize - x \in Nat /\ MemSize - x \in T /\ T \in SUBSET Nat
  BY MemoryAssumption
<1>2. PICK m \in T : \A k \in T : m <= k
  <2> HIDE DEF T
  <2> QED BY <1>1, Least
<1>3. NonZero(x, m)
  BY <1>1, <1>2 DEF NonZero
<1>4. Length(x) = m
  BY <1>2, <1>3, LengthIs
<1>5. m >= n
  <2>1. m \in 0..(n - 1) => call.mem[x + m] # 0
    BY DEF NonZero
  <2>2. m \in Nat /\ (m = MemSize - x \/ call.mem[x + m] = 0)
    BY <1>1, <1>2
  <2> QED BY <2>1, <2>2, MemoryAssumption
<1> QED BY <1>1, <1>2, <1>4, <1>5

--------------------------------------------------------------------------------
(* The end of memcpy, memset and memcmp, and the turns of memcmp.              *)

\* A routine that stores nothing leaves memory exact.
LEMMA ReadOnly ==
  ASSUME StrInv, call.f \notin {"memcpy", "memset", "strcpy", "printhex"},
         call' = call, mem' = mem
  PROVE  MemoryExact' /\ mem' \in [Cells -> Int]
<1>1. mem = call.mem /\ mem \in [Cells -> Int]
  BY DEF StrInv
<1>2. Stored' = <<>>
  BY DEF Stored
<1>3. mem' = [y \in DOMAIN mem' |-> mem'[y]]
  BY <1>1
<1> QED BY <1>1, <1>2, <1>3 DEF MemoryExact

\* A destination filled with all that was to be sent is as promised.
LEMMA FilledExact ==
  ASSUME NEW n \in Nat, call.a \in Nat, call.mem \in [Cells -> Int], call' = call,
         Stored' = [k \in 1..n |-> Source(k - 1)],
         mem' = [y \in Cells |-> IF y \in call.a..(call.a + n - 1)
                                 THEN Source(y - call.a) ELSE call.mem[y]]
  PROVE  MemoryExact'
<1>1. ASSUME NEW y \in Cells
      PROVE  (IF y \in call.a..(call.a + n - 1) THEN Source(y - call.a) ELSE call.mem[y])
               = IF y - call.a + 1 \in 1..n
                 THEN [k \in 1..n |-> Source(k - 1)][y - call.a + 1] ELSE call.mem[y]
  <2>1. y \in Nat
    BY MemoryAssumption DEF Cells
  <2>2. CASE y \in call.a..(call.a + n - 1)
    <3>1. y - call.a + 1 \in 1..n /\ (y - call.a + 1) - 1 = y - call.a
      BY <2>1, <2>2
    <3> QED BY <2>2, <3>1
  <2>3. CASE y \notin call.a..(call.a + n - 1)
    BY <2>1, <2>3
  <2> QED BY <2>2, <2>3
<1>2. mem' = [y \in Cells |-> IF y - call.a + 1 \in DOMAIN Stored' THEN Stored'[y - call.a + 1] ELSE call.mem[y]]
  BY <1>1
<1> QED BY <1>2 DEF MemoryExact

LEMMA EndOfRangeStep == ASSUME StrInv, EndOfRange PROVE StrInv'
<1>1. /\ ret = Running /\ i >= call.n
      /\ call' = call /\ mem' = mem /\ i' = i /\ phase' = phase
      /\ ret' = IF call.f = "memcmp" THEN 0 ELSE call.a
  BY DEF EndOfRange, Calling
<1>2. ret' # Running
  BY <1>1, MemoryAssumption DEF EndOfRange, Calling, StrInv, Legal, Within
<1>3. CASE call.f \in {"memcpy", "memset"}
  <2>1. MemoryExact'
    <3>1. /\ i = call.n /\ call.n \in Nat /\ call.a \in Nat /\ Filled(call.n)
          /\ call.mem \in [Cells -> Int]
      BY <1>1, <1>3 DEF StrInv, LoopInv, Legal, Within
    <3>2. Stored' = [k \in 1..call.n |-> Source(k - 1)]
      BY <1>1, <1>3 DEF Stored, Source
    <3>3. mem' = [y \in Cells |-> IF y \in call.a..(call.a + call.n - 1)
                                 THEN Source(y - call.a) ELSE call.mem[y]]
      BY <1>1, <3>1 DEF Filled
    <3> QED BY <1>1, <3>1, <3>2, <3>3, FilledExact
  <2>2. ResultExact'
    BY <1>1, <1>3 DEF ResultExact
  <2> QED BY <1>1, <1>2, <1>3, <2>1, <2>2 DEF StrInv
<1>4. CASE call.f = "memcmp"
  <2>1. MemoryExact' /\ mem' \in [Cells -> Int]
    BY <1>1, <1>4, ReadOnly
  <2>2. FirstDifference = call.n /\ FirstDifference' = FirstDifference
    <3>1. i = call.n /\ call.n \in Nat /\ Equal(call.n)
      BY <1>1, <1>4 DEF StrInv, LoopInv, Legal, Within
    <3>2. FirstDifference' = FirstDifference
      BY <1>1 DEF FirstDifference, First, Differ
    <3> QED BY <3>1, <3>2, FirstDiffers
  <2>3. ResultExact'
    BY <1>1, <1>4, <2>2 DEF ResultExact, Sign
  <2> QED BY <1>1, <1>2, <1>4, <2>1, <2>3 DEF StrInv
<1> QED BY <1>3, <1>4 DEF EndOfRange, Calling

\* The operands of memcmp and verify lie in memory.
LEMMA Operands ==
  ASSUME StrInv, call.f \in {"memcmp", "verify", "verifyDouble"}
  PROVE  /\ call.a \in Nat /\ call.b \in Nat /\ call.n \in Nat
         /\ mem = call.mem /\ mem \in [Cells -> Int]
         /\ \A k \in 0..(call.n - 1) : call.a + k \in Cells /\ call.b + k \in Cells
<1>1. Within(call.a, call.n) /\ Within(call.b, call.n) /\ mem = call.mem /\ mem \in [Cells -> Int]
  BY DEF StrInv, Legal
<1>2. /\ call.a \in Nat /\ call.b \in Nat /\ call.n \in Nat
      /\ call.a + call.n <= MemSize /\ call.b + call.n <= MemSize
  BY <1>1 DEF Within
<1>3. ASSUME NEW k \in 0..(call.n - 1)
      PROVE  call.a + k \in Cells /\ call.b + k \in Cells
  BY <1>2, MemoryAssumption DEF Cells
<1> QED BY <1>1, <1>2, <1>3

\* The search for a difference goes on the same before and after a step.
LEMMA SameSearch ==
  ASSUME call' = call
  PROVE  FirstDifference' = FirstDifference /\ FirstDecisive' = FirstDecisive
BY DEF FirstDifference, FirstDecisive, First, Differ

LEMMA CompareWordStep == ASSUME StrInv, CompareWord PROVE StrInv'
<1>1. /\ call.f = "memcmp" /\ ret = Running /\ phase = "words"
      /\ call' = call /\ mem' = mem /\ ret' = ret
  BY DEF CompareWord, Calling
<1>2. MemoryExact' /\ mem' \in [Cells -> Int]
  BY <1>1, ReadOnly
<1>3. i \in Nat /\ i <= call.n /\ Equal(i) /\ i % WordBytes = 0
  BY <1>1 DEF StrInv, LoopInv
<1>4. CASE /\ i < (call.n \div WordBytes) * WordBytes
           /\ WordAt(call.a + i) = WordAt(call.b + i)
  <2>1. i' = i + WordBytes /\ phase' = phase
    BY <1>4 DEF CompareWord
  <2>2. WordBytes \in Nat /\ i' \in Nat /\ i' <= call.n /\ i' % WordBytes = 0
    BY <1>1, <1>3, <1>4, <2>1, WholeWords, Operands, MemoryAssumption
  <2>3. ASSUME NEW k \in i..(i + WordBytes - 1)
        PROVE  ~Differ(k)
    <3>1. k - i + 1 \in 1..WordBytes
      BY <1>3, <2>2
    <3>2. WordAt(call.a + i)[k - i + 1] = WordAt(call.b + i)[k - i + 1]
      BY <1>4
    <3>3. mem[call.a + i + (k - i + 1) - 1] = mem[call.b + i + (k - i + 1) - 1]
      BY <3>1, <3>2 DEF WordAt
    <3>4. /\ call.a + i + (k - i + 1) - 1 = call.a + k
          /\ call.b + i + (k - i + 1) - 1 = call.b + k
      BY <1>1, <1>3, <2>2, Operands
    <3> QED BY <1>1, <3>3, <3>4, Operands DEF Differ
  <2>4. Equal(i)'
    BY <1>1, <1>3, <2>1, <2>2, <2>3 DEF Equal, Differ
  <2> QED BY <1>1, <1>2, <2>1, <2>2, <2>4, Unreturned DEF StrInv, LoopInv
<1>5. CASE ~(/\ i < (call.n \div WordBytes) * WordBytes
             /\ WordAt(call.a + i) = WordAt(call.b + i))
  <2>1. i' = i /\ phase' = "bytes"
    BY <1>5 DEF CompareWord
  <2>2. Equal(i)'
    BY <1>1, <1>3, <2>1 DEF Equal, Differ
  <2> QED BY <1>1, <1>2, <1>3, <2>1, <2>2, Unreturned DEF StrInv, LoopInv
<1> QED BY <1>4, <1>5

LEMMA CompareByteStep == ASSUME StrInv, CompareByte PROVE StrInv'
<1>1. /\ call.f = "memcmp" /\ ret = Running /\ phase = "bytes" /\ i < call.n
      /\ call' = call /\ mem' = mem /\ phase' = phase
  BY DEF CompareByte, Calling
<1>2. MemoryExact' /\ mem' \in [Cells -> Int]
  BY <1>1, ReadOnly
<1>3. i \in Nat /\ i <= call.n /\ Equal(i)
  BY <1>1 DEF StrInv, LoopInv
<1>4. CASE mem[call.a + i] = mem[call.b + i]
  <2>1. i' = i + 1 /\ ret' = ret
    BY <1>4 DEF CompareByte
  <2>2. Equal(i)'
    BY <1>1, <1>3, <1>4, <2>1, Operands DEF Equal, Differ
  <2>3. i + 1 <= call.n
    BY <1>1, <1>3, Operands
  <2> QED BY <1>1, <1>2, <1>3, <2>1, <2>2, <2>3, Unreturned DEF StrInv, LoopInv
<1>5. CASE mem[call.a + i] # mem[call.b + i]
  <2>1. i' = i /\ ret' = mem[call.a + i] - mem[call.b + i]
    BY <1>5 DEF CompareByte
  <2>2. mem = call.mem /\ ret' \in Int
    BY <1>1, <1>3, <2>1, Operands
  <2>3. FirstDifference = i
    BY <1>1, <1>3, <1>5, <2>2, FirstDiffers, Operands DEF Differ
  <2>4. ResultExact'
    <3>1. FirstDifference' = i /\ i # call.n
      BY <1>1, <1>3, <2>3, SameSearch, Operands
    <3>2. ret' = call.mem[call.a + i] - call.mem[call.b + i]
      BY <2>1, <2>2
    <3> QED BY <1>1, <3>1, <3>2 DEF ResultExact
  <2> QED BY <1>1, <1>2, <1>3, <2>1, <2>2, <2>4, MemoryAssumption DEF StrInv
<1> QED BY <1>4, <1>5

--------------------------------------------------------------------------------
(* Strings.                                                                    *)

\* A string that ends in memory and has not ended yet: its next character is in memory.
LEMMA NextCharacter ==
  ASSUME NEW m, NEW x, Ends(m, x), NEW k \in Nat, \A j \in 0..(k - 1) : m[x + j] # 0
  PROVE  x + k \in Cells
<1>1. PICK y \in Cells : x <= y /\ m[y] = 0
  BY DEF Ends
<1>2. x \in Nat /\ y \in Nat /\ y <= MemSize - 1
  BY <1>1, MemoryAssumption DEF Ends, Cells
<1>3. y - x \in Nat /\ x + (y - x) = y
  BY <1>1, <1>2
<1>4. y - x \notin 0..(k - 1)
  BY <1>1, <1>3
<1> QED BY <1>2, <1>3, <1>4, MemoryAssumption DEF Cells

LEMMA MeasureStep == ASSUME StrInv, Measure PROVE StrInv'
<1>1. /\ call.f \in {"strlen", "strnlen"} /\ ret = Running
      /\ call' = call /\ mem' = mem /\ phase' = phase
  BY DEF Measure, Calling
<1>2. MemoryExact' /\ mem' \in [Cells -> Int] /\ mem = call.mem /\ Length(call.a)' = Length(call.a)
  BY <1>1, ReadOnly DEF StrInv, Length, First
<1>3. i \in Nat /\ NonZero(call.a, i) /\ (call.f = "strnlen" => i <= call.n)
  BY <1>1 DEF StrInv, LoopInv
<1>4. /\ call.a \in Nat /\ (call.f = "strnlen" => call.n \in Nat)
      /\ Ends(call.mem, call.a) \/ (call.f = "strnlen" /\ Within(call.a, call.n))
  BY <1>1 DEF StrInv, Legal, Ends
<1>5. (call.f = "strnlen" => i < call.n) => call.a + i \in Cells
  <2>1. CASE Ends(call.mem, call.a)
    BY <1>3, <2>1, NextCharacter DEF NonZero
  <2>2. CASE call.f = "strnlen" /\ Within(call.a, call.n)
    BY <1>3, <1>4, <2>2, MemoryAssumption DEF Within, Cells
  <2> QED BY <1>4, <2>1, <2>2
<1>6. CASE (call.f = "strnlen" => i < call.n) /\ mem[call.a + i] # 0
  <2>1. i' = i + 1 /\ ret' = ret
    BY <1>6 DEF Measure
  <2>2. NonZero(call.a, i)'
    BY <1>1, <1>2, <1>3, <1>6, <2>1 DEF NonZero
  <2>3. call.f = "strnlen" => i + 1 <= call.n
    BY <1>3, <1>4, <1>6
  <2> QED BY <1>1, <1>2, <1>3, <2>1, <2>2, <2>3, Unreturned DEF StrInv, LoopInv
<1>7. CASE (call.f = "strnlen" => i < call.n) /\ mem[call.a + i] = 0
  <2>1. i' = i /\ ret' = i
    BY <1>7 DEF Measure
  <2>2. Length(call.a) = i
    <3>1. i \in 0..(MemSize - call.a)
      BY <1>3, <1>4, <1>5, <1>7, MemoryAssumption DEF Cells
    <3> QED BY <1>2, <1>3, <1>4, <1>7, <3>1, LengthIs
  <2>3. ResultExact'
    BY <1>1, <1>2, <1>7, <2>1, <2>2 DEF ResultExact
  <2> QED BY <1>1, <1>2, <1>3, <2>1, <2>3, MemoryAssumption DEF StrInv
<1>8. CASE call.f = "strnlen" /\ i >= call.n
  <2>1. i' = i /\ ret' = i
    BY <1>3, <1>4, <1>8 DEF Measure
  <2>2. call.a + i <= MemSize
    <3>1. i = call.n
      BY <1>3, <1>4, <1>8
    <3>2. CASE Ends(call.mem, call.a)
      <4>1. call.a + i \in Cells
        BY <1>3, <3>2, NextCharacter DEF NonZero
      <4> QED BY <4>1, MemoryAssumption DEF Cells
    <3>3. CASE Within(call.a, call.n)
      BY <3>1, <3>3 DEF Within
    <3> QED BY <1>4, <3>2, <3>3
  <2>3. Length(call.a) \in Nat /\ Length(call.a) >= i
    BY <1>3, <1>4, <2>2, LengthAtLeast
  <2>4. ResultExact'
    BY <1>1, <1>2, <1>3, <1>4, <1>8, <2>1, <2>3 DEF ResultExact
  <2> QED BY <1>1, <1>2, <1>3, <2>1, <2>4, MemoryAssumption DEF StrInv
<1>9. call.f = "strnlen" => call.n \in Nat /\ i \in Nat
  BY <1>3, <1>4
<1> QED BY <1>1, <1>6, <1>7, <1>8, <1>9

LEMMA DecisiveIs ==
  ASSUME NEW r \in 0..(MemSize - 1), Equal(r), NonZero(call.a, r),
         Differ(r) \/ call.mem[call.a + r] = 0
  PROVE  FirstDecisive = r
<1> DEFINE Q(k) == /\ k = MemSize \/ Differ(k) \/ call.mem[call.a + k] = 0
                   /\ \A j \in 0..(k - 1) : ~(Differ(j) \/ call.mem[call.a + j] = 0)
<1>1. Q(r) /\ r \in 0..MemSize
  BY MemoryAssumption DEF Equal, NonZero
<1>2. ASSUME NEW k \in 0..MemSize, Q(k)
      PROVE  k = r
  <2>1. CASE k < r
    BY <1>2, <2>1, MemoryAssumption DEF Equal, NonZero
  <2>2. CASE r < k
    BY <1>2, <2>2, MemoryAssumption
  <2> QED BY <2>1, <2>2, MemoryAssumption
<1> HIDE DEF Q
<1>3. (CHOOSE k \in 0..MemSize : Q(k)) = r
  BY <1>1, <1>2
<1> QED BY <1>3 DEF FirstDecisive, First, Q

LEMMA StrcmpStep == ASSUME StrInv, Strcmp PROVE StrInv'
<1>1. /\ call.f = "strcmp" /\ ret = Running
      /\ call' = call /\ mem' = mem /\ phase' = phase
  BY DEF Strcmp, Calling
<1>2. MemoryExact' /\ mem' \in [Cells -> Int] /\ mem = call.mem
  BY <1>1, ReadOnly DEF StrInv
<1>3. i \in Nat /\ Equal(i) /\ NonZero(call.a, i)
  BY <1>1 DEF StrInv, LoopInv
<1>4. Ends(call.mem, call.a) /\ Ends(call.mem, call.b)
  BY <1>1 DEF StrInv, Legal
<1>5. call.a + i \in Cells /\ call.b + i \in Cells
  <2>1. \A j \in 0..(i - 1) : call.mem[call.a + j] # 0 /\ call.mem[call.b + j] # 0
    BY <1>1, <1>3 DEF NonZero, Equal, Differ
  <2> QED BY <1>3, <1>4, <2>1, NextCharacter
<1>6. CASE mem[call.a + i] # 0 /\ mem[call.a + i] = mem[call.b + i]
  <2>1. i' = i + 1 /\ ret' = ret
    BY <1>6 DEF Strcmp
  <2>2. NonZero(call.a, i)' /\ Equal(i)'
    BY <1>1, <1>2, <1>3, <1>6, <2>1 DEF NonZero, Equal, Differ
  <2> QED BY <1>1, <1>2, <1>3, <2>1, <2>2, Unreturned DEF StrInv, LoopInv
<1>7. CASE ~(mem[call.a + i] # 0 /\ mem[call.a + i] = mem[call.b + i])
  <2>1. i' = i /\ ret' = call.mem[call.a + i] - call.mem[call.b + i]
    BY <1>2, <1>7 DEF Strcmp
  <2>2. ret' \in Int
    BY <1>2, <1>5, <2>1
  <2>3. FirstDecisive = i
    <3>1. i \in 0..(MemSize - 1)
      BY <1>3, <1>4, <1>5, MemoryAssumption DEF Cells, Ends
    <3>2. Differ(i) \/ call.mem[call.a + i] = 0
      BY <1>2, <1>7 DEF Differ
    <3> QED BY <1>3, <3>1, <3>2, DecisiveIs
  <2>4. ResultExact'
    BY <1>1, <2>1, <2>3, SameSearch DEF ResultExact
  <2> QED BY <1>1, <1>2, <1>3, <2>1, <2>2, <2>4, MemoryAssumption DEF StrInv
<1> QED BY <1>6, <1>7

LEMMA StrcpyStep == ASSUME StrInv, Strcpy PROVE StrInv'
<1>1. /\ call.f = "strcpy" /\ ret = Running
      /\ Put(call.a + i, <<mem[call.b + i]>>) /\ i' = i + 1
      /\ ret' = IF mem[call.b + i] = 0 THEN call.a ELSE ret
      /\ call' = call /\ phase' = phase
  BY DEF Strcpy, Calling
<1>2. /\ mem \in [Cells -> Int] /\ i \in Nat /\ Filled(i) /\ NonZero(call.b, i)
      /\ call.mem \in [Cells -> Int]
  BY <1>1 DEF StrInv, LoopInv, Legal
<1>3. PICK k \in Cells : /\ Within(call.a, k + 1) /\ Within(call.b, k + 1)
                         /\ call.mem[call.b + k] = 0
                         /\ call.a + k < call.b \/ call.b + k < call.a
  BY <1>1 DEF StrInv, Legal
<1>4. /\ k \in Nat /\ call.a \in Nat /\ call.b \in Nat
      /\ call.a + k + 1 <= MemSize /\ call.b + k + 1 <= MemSize
  BY <1>3, MemoryAssumption DEF Within, Cells
<1>5. i <= k
  <2>1. k \notin 0..(i - 1)
    BY <1>2, <1>3 DEF NonZero
  <2> QED BY <1>2, <1>4, <2>1
<1>6. mem[call.b + i] = call.mem[call.b + i] /\ call.b + i \in Cells
  <2>1. call.b + i \in Cells /\ call.b + i \notin call.a..(call.a + i - 1)
    <3>1. call.b + i \in Cells
      <4>1. call.b + i <= MemSize - 1 /\ call.b + i \in Nat
        BY <1>2, <1>4, <1>5, MemoryAssumption
      <4> QED BY <4>1, MemoryAssumption DEF Cells
    <3>2. call.a + k < call.b \/ call.b + k < call.a
      BY <1>3
    <3>3. call.b + i \notin call.a..(call.a + i - 1)
      BY <1>2, <1>4, <1>5, <3>2
    <3> QED BY <3>1, <3>3
  <2> QED BY <1>2, <2>1 DEF Filled
<1>7. /\ <<mem[call.b + i]>> \in [1..1 -> Int]
      /\ \A j \in 1..1 : <<mem[call.b + i]>>[j] = Source(i + j - 1)
  BY <1>1, <1>2, <1>6 DEF Source
<1>8. /\ mem' = [y \in Cells |-> IF y \in call.a..(call.a + (i + 1) - 1)
                                THEN Source(y - call.a) ELSE call.mem[y]]
      /\ mem' \in [Cells -> Int]
  BY <1>1, <1>2, <1>4, <1>7, FillMore
<1>9. CASE mem[call.b + i] # 0
  <2>1. NonZero(call.b, i)'
    BY <1>1, <1>2, <1>6, <1>9 DEF NonZero
  <2>2. Filled(i)'
    BY <1>1, <1>8 DEF Filled, Source
  <2> QED BY <1>1, <1>2, <1>8, <1>9, <2>1, <2>2, Unreturned DEF StrInv, LoopInv
<1>10. CASE mem[call.b + i] = 0
  <2>1. ret' = call.a
    BY <1>1, <1>10
  <2>2. ResultExact'
    BY <1>1, <2>1 DEF ResultExact
  <2>3. Length(call.b) = i
    <3>1. i \in 0..(MemSize - call.b)
      BY <1>2, <1>4, <1>5, MemoryAssumption
    <3> QED BY <1>2, <1>4, <1>6, <1>10, <3>1, LengthIs
  <2>4. Stored' = [j \in 1..(i + 1) |-> Source(j - 1)]
    <3>1. Length(call.b)' = i
      BY <1>1, <2>3 DEF Length, First
    <3>2. \A j \in 1..(i + 1) : call.b + j - 1 = call.b + (j - 1)
      BY <1>2, <1>4
    <3> QED BY <1>1, <3>1, <3>2 DEF Stored, Source
  <2>5. MemoryExact'
    <3>1. i + 1 \in Nat
      BY <1>2
    <3> QED BY <1>1, <1>2, <1>4, <1>8, <2>4, <3>1, FilledExact
  <2> QED BY <1>1, <1>2, <1>4, <1>8, <2>1, <2>2, <2>5, MemoryAssumption DEF StrInv
<1> QED BY <1>9, <1>10

--------------------------------------------------------------------------------
(* atol.                                                                       *)

\* g is what a linear recursion says.
Solves(g, n, c, A, B) == \A k \in 0..n : g[k] = IF k = 0 THEN c ELSE A[k] * g[k - 1] + B[k]

\* A linear recursion defines a function.
LEMMA Recursion ==
  ASSUME NEW n \in Nat, NEW c \in Int, NEW A \in [0..n -> Int], NEW B \in [0..n -> Int]
  PROVE  \E g \in [0..n -> Int] : Solves(g, n, c, A, B)
<1> DEFINE Upto(m) == \E g \in [0..m -> Int] :
                        \A k \in 0..m : g[k] = IF k = 0 THEN c ELSE A[k] * g[k - 1] + B[k]
           T == {m \in 0..n : ~Upto(m)}
<1>1. Upto(0)
  <2> DEFINE g == [k \in 0..0 |-> c]
  <2>1. g \in [0..0 -> Int] /\ \A k \in 0..0 : k = 0 /\ g[k] = c
    OBVIOUS
  <2> QED BY <2>1
<1>2. ASSUME NEW m \in 1..n, Upto(m - 1)
      PROVE  Upto(m)
  <2>1. PICK g \in [0..(m - 1) -> Int] :
          \A k \in 0..(m - 1) : g[k] = IF k = 0 THEN c ELSE A[k] * g[k - 1] + B[k]
    BY <1>2
  <2> DEFINE last == A[m] * g[m - 1] + B[m]
             h == [k \in 0..m |-> IF k = m THEN last ELSE g[k]]
  <2>2. last \in Int
    <3>1. A[m] \in Int /\ B[m] \in Int /\ g[m - 1] \in Int
      OBVIOUS
    <3> QED BY <3>1
  <2>3. h[m] = last /\ h[m - 1] = g[m - 1] /\ m # 0
    OBVIOUS
  <2> HIDE DEF last
  <2>4. h \in [0..m -> Int] /\ \A k \in 0..(m - 1) : h[k] = g[k]
    BY <2>2
  <2>5. \A k \in 0..(m - 1) : k # 0 => h[k - 1] = g[k - 1]
    OBVIOUS
  <2> HIDE DEF h
  <2>6. ASSUME NEW k \in 0..m
        PROVE  h[k] = IF k = 0 THEN c ELSE A[k] * h[k - 1] + B[k]
    <3>1. CASE k = m
      BY <2>3, <3>1 DEF last
    <3>2. CASE k \in 0..(m - 1)
      BY <2>1, <2>4, <2>5, <3>2, Zenon
    <3> QED BY <3>1, <3>2
  <2> QED BY <2>4, <2>6
<1> HIDE DEF Upto
<1>3. T = {}
  <2>1. SUFFICES ASSUME T # {} PROVE FALSE
    OBVIOUS
  <2>2. T \in SUBSET Nat
    OBVIOUS
  <2>3. PICK m \in T : \A k \in T : m <= k
    <3> HIDE DEF T
    <3> QED BY <2>1, <2>2, Least
  <2>4. m \in 1..n /\ m - 1 \notin T /\ m - 1 \in 0..n
    BY <1>1, <2>3
  <2> QED BY <1>2, <2>3, <2>4
<1>4. Upto(n)
  BY <1>3
<1> QED BY <1>4 DEF Upto, Solves

\* The weights are the powers of ten.
LEMMA WeightIs ==
  /\ Weight \in [0..MemSize -> Int] /\ Weight[0] = 1
  /\ \A k \in 1..MemSize : Weight[k] = 10 * Weight[k - 1]
<1> DEFINE A == [k \in 0..MemSize |-> 10]
           B == [k \in 0..MemSize |-> 0]
<1>1. MemSize \in Nat /\ A \in [0..MemSize -> Int] /\ B \in [0..MemSize -> Int]
  BY MemoryAssumption
<1>2. PICK g \in [0..MemSize -> Int] : Solves(g, MemSize, 1, A, B)
  <2>1. 1 \in Int
    OBVIOUS
  <2> HIDE DEF A, B
  <2> QED BY <1>1, <2>1, Recursion, Zenon
<1>3. \A k \in 0..MemSize : g[k] = IF k = 0 THEN 1 ELSE 10 * g[k - 1]
  <2> TAKE k \in 0..MemSize
  <2>1. k # 0 => k - 1 \in 0..MemSize
    BY <1>1
  <2> QED BY <1>2, <2>1 DEF Solves
<1>4. g = [k \in 0..MemSize |-> IF k = 0 THEN 1 ELSE 10 * g[k - 1]]
  BY <1>3
<1>5. Weight = [k \in 0..MemSize |-> IF k = 0 THEN 1 ELSE 10 * Weight[k - 1]]
  BY <1>4 DEF Weight
<1>6. Weight[0] = 1 /\ \A k \in 1..MemSize : Weight[k] = 10 * Weight[k - 1]
  <2>1. 0 \in 0..MemSize /\ \A k \in 1..MemSize : k \in 0..MemSize /\ k # 0
    BY <1>1
  <2> QED BY <1>5, <2>1, Zenon
<1> DEFINE T == {k \in 0..MemSize : Weight[k] \notin Int}
<1>7. T = {}
  <2>1. SUFFICES ASSUME T # {} PROVE FALSE
    OBVIOUS
  <2>2. T \in SUBSET Nat
    OBVIOUS
  <2>3. PICK m \in T : \A k \in T : m <= k
    <3> HIDE DEF T
    <3> QED BY <2>1, <2>2, Least
  <2>4. m \in 1..MemSize /\ m - 1 \notin T /\ m - 1 \in 0..MemSize
    BY <1>1, <1>6, <2>3
  <2> QED BY <1>6, <2>3, <2>4
<1> QED BY <1>5, <1>6, <1>7

\* The value of the last k characters.
LEMMA ValueIs ==
  ASSUME Length(call.a) \in Nat, Length(call.a) <= MemSize
  PROVE  /\ ValueOf \in [0..Length(call.a) -> Int] /\ ValueOf[0] = 0
         /\ \A k \in 1..Length(call.a) :
              ValueOf[k] = ValueOf[k - 1] + DigitAt(call.a + Length(call.a) - k) * Weight[k - 1]
<1> DEFINE n == Length(call.a)
           D(k) == DigitAt(call.a + n - k)
           A == [k \in 0..n |-> 1]
           B == [k \in 0..n |-> IF k = 0 THEN 0 ELSE D(k) * Weight[k - 1]]
<1>0. n \in Nat /\ n <= MemSize
  OBVIOUS
<1>1. \A k : D(k) \in Int
  BY DEF DigitAt, Decimals, Zero
<1>2. \A k \in 1..n : k - 1 \in 0..n /\ Weight[k - 1] \in Int
  BY <1>0, WeightIs, MemoryAssumption
<1>v. ValueOf = CHOOSE f : f = [k \in 0..n |-> IF k = 0 THEN 0 ELSE f[k - 1] + D(k) * Weight[k - 1]]
  BY DEF ValueOf
<1> HIDE DEF n, D
<1>3. A \in [0..n -> Int] /\ B \in [0..n -> Int]
  BY <1>0, <1>1, <1>2
<1>4. PICK g \in [0..n -> Int] : Solves(g, n, 0, A, B)
  <2>1. 0 \in Int
    OBVIOUS
  <2> HIDE DEF A, B
  <2> QED BY <1>0, <1>3, <2>1, Recursion, Zenon
<1>5. \A k \in 0..n : g[k] = IF k = 0 THEN 0 ELSE g[k - 1] + D(k) * Weight[k - 1]
  <2> TAKE k \in 0..n
  <2>1. k # 0 => k - 1 \in 0..n
    BY <1>0
  <2>2. k # 0 => A[k] = 1 /\ B[k] = D(k) * Weight[k - 1]
    OBVIOUS
  <2> HIDE DEF A, B
  <2>3. k # 0 => g[k] = 1 * g[k - 1] + D(k) * Weight[k - 1] /\ g[k - 1] \in Int
    BY <1>4, <2>1, <2>2 DEF Solves
  <2> QED BY <1>4, <2>3 DEF Solves
<1>6. g = [k \in 0..n |-> IF k = 0 THEN 0 ELSE g[k - 1] + D(k) * Weight[k - 1]]
  BY <1>5
<1>7. ValueOf = [k \in 0..n |-> IF k = 0 THEN 0 ELSE ValueOf[k - 1] + D(k) * Weight[k - 1]]
  BY <1>v, <1>6
<1>8. ValueOf[0] = 0 /\ \A k \in 1..n : ValueOf[k] = ValueOf[k - 1] + D(k) * Weight[k - 1]
  <2>1. 0 \in 0..n /\ \A k \in 1..n : k \in 0..n /\ k # 0
    BY <1>0
  <2> QED BY <1>7, <2>1, Zenon
<1> DEFINE T == {k \in 0..n : ValueOf[k] \notin Int}
<1>9. T = {}
  <2>1. SUFFICES ASSUME T # {} PROVE FALSE
    OBVIOUS
  <2>2. T \in SUBSET Nat
    BY <1>0
  <2>3. PICK m \in T : \A k \in T : m <= k
    <3> HIDE DEF T
    <3> QED BY <2>1, <2>2, Least
  <2>4. m \in 1..n /\ m - 1 \notin T /\ m - 1 \in 0..n
    BY <1>0, <1>8, <2>3
  <2>5. ValueOf[m - 1] \in Int /\ D(m) \in Int /\ Weight[m - 1] \in Int
    BY <1>1, <1>2, <2>4
  <2>6. ValueOf[m] = ValueOf[m - 1] + D(m) * Weight[m - 1]
    BY <1>8, <2>4
  <2> QED BY <2>3, <2>5, <2>6
<1>10. ValueOf \in [0..n -> Int]
  BY <1>7, <1>9
<1> QED BY <1>8, <1>10 DEF n, D

\* One more digit, by Horner's rule: the characters left are one fewer.
LEMMA HornerStep ==
  ASSUME NEW r \in Int, NEW d \in Int, NEW w \in Int, NEW all \in Int, NEW left \in Int,
         r * (10 * w) = all - (left + d * w)
  PROVE  (r * 10 + d) * w = all - left
<1>1. r * (10 * w) = (r * 10) * w
  OBVIOUS
<1>2. (r * 10 + d) * w = (r * 10) * w + d * w
  OBVIOUS
<1>3. d * w \in Int /\ (r * 10) * w \in Int
  OBVIOUS
<1> QED BY <1>1, <1>2, <1>3

\* What atol is given: t spaces, then perhaps a sign, then digits to the terminator.
LEMMA NumeralShape ==
  ASSUME Legal(call), call.f = "atol"
  PROVE  /\ call.a \in Nat /\ Length(call.a) \in Nat /\ call.a + Length(call.a) < MemSize
         /\ call.mem[call.a + Length(call.a)] = 0
         /\ \E t \in 0..Length(call.a) :
              /\ \A k \in 0..(t - 1) : call.mem[call.a + k] = Space
              /\ \A k \in t..(Length(call.a) - 1) :
                   \/ call.mem[call.a + k] \in Decimals
                   \/ k = t /\ call.mem[call.a + k] \in {Plus, Dash}
<1>1. PICK s \in Cells, e \in Cells :
        /\ call.a <= s /\ s <= e /\ call.mem[e] = 0
        /\ \A y \in call.a..(s - 1) : call.mem[y] = Space
        /\ \A y \in s..(e - 1) : call.mem[y] \in Decimals \/ (y = s /\ call.mem[y] \in {Plus, Dash})
  BY Zenon DEF Legal, NumeralAt
<1> DEFINE n == e - call.a
           t == s - call.a
<1>2. /\ call.a \in Nat /\ MemSize \in Nat /\ s \in Nat /\ e \in Nat /\ e < MemSize
  BY MemoryAssumption DEF Legal, NumeralAt, Cells
<1>3. n \in Nat /\ t \in 0..n /\ call.a + n = e /\ call.a + t = s
  BY <1>1, <1>2
<1>4. \A k \in 0..(t - 1) : call.a + k \in call.a..(s - 1) /\ call.mem[call.a + k] = Space
  BY <1>1, <1>2
<1>5. \A k \in t..(n - 1) :
        call.mem[call.a + k] \in Decimals \/ (k = t /\ call.mem[call.a + k] \in {Plus, Dash})
  <2> TAKE k \in t..(n - 1)
  <2>1. call.a + k \in s..(e - 1) /\ (call.a + k = s => k = t)
    BY <1>2
  <2> QED BY <1>1, <2>1
<1> HIDE DEF n, t
<1>6. Length(call.a) = n
  <2>1. 0 \notin Decimals /\ Space # 0 /\ Plus # 0 /\ Dash # 0
    BY DEF Decimals, Zero, Space, Plus, Dash
  <2>2. \A k \in 0..(n - 1) : k \in 0..(t - 1) \/ k \in t..(n - 1)
    BY <1>3
  <2>3. NonZero(call.a, n)
    BY <1>4, <1>5, <2>1, <2>2, Zenon DEF NonZero
  <2>4. n \in 0..(MemSize - call.a) /\ call.mem[call.a + n] = 0
    BY <1>1, <1>2, <1>3
  <2> QED BY <1>2, <2>3, <2>4, LengthIs
<1> QED BY <1>1, <1>2, <1>3, <1>4, <1>5, <1>6

\* The text does not change while it is read.
LEMMA SameNumeral ==
  ASSUME call' = call
  PROVE  /\ Length(call.a)' = Length(call.a) /\ ValueOf' = ValueOf
         /\ Negative' = Negative /\ Parsed' = Parsed
<1>1. Length(call.a)' = Length(call.a)
  BY DEF Length, First
<1>2. ValueOf' = ValueOf
  BY <1>1 DEF ValueOf, DigitAt
<1>3. Negative' = Negative
  BY <1>1 DEF Negative
<1> QED BY <1>1, <1>2, <1>3 DEF Parsed

\* What atol's invariant says, with n for the length of the text.
LEMMA AtolFacts ==
  ASSUME StrInv, call.f = "atol", ret = Running, NEW n, n = Length(call.a)
  PROVE  /\ call.a \in Nat /\ MemSize \in Nat /\ i \in 0..n /\ n \in Nat /\ call.a + n < MemSize
         /\ mem = call.mem /\ call.mem[call.a + n] = 0 /\ Legal(call)
         /\ acc \in Int /\ acc * Weight[n - i] = ValueOf[n] - ValueOf[n - i]
         /\ ValueOf \in [0..n -> Int] /\ ValueOf[0] = 0
         /\ \A k \in 1..n : ValueOf[k] = ValueOf[k - 1] + DigitAt(call.a + n - k) * Weight[k - 1]
         /\ Weight \in [0..MemSize -> Int] /\ Weight[0] = 1
         /\ \A k \in 1..n : Weight[k] = 10 * Weight[k - 1]
         /\ phase = "spaces" => acc = 0 /\ \A k \in 0..(i - 1) : call.mem[call.a + k] = Space
         /\ phase = "digits" => /\ neg = Negative
                                /\ \A k \in i..(n - 1) : call.mem[call.a + k] \in Decimals
<1>1. /\ Legal(call) /\ mem = call.mem /\ i \in Nat /\ AtolInv
  BY DEF StrInv, LoopInv
<1>2. call.a \in Nat /\ MemSize \in Nat
  BY <1>1, NumeralShape, MemoryAssumption
<1>3. /\ n \in Nat /\ i <= n /\ call.a + n < MemSize /\ call.mem[call.a + n] = 0
      /\ acc \in Int /\ acc * Weight[n - i] = ValueOf[n] - ValueOf[n - i]
      /\ phase = "spaces" => acc = 0 /\ \A k \in 0..(i - 1) : call.mem[call.a + k] = Space
      /\ phase = "digits" => /\ neg = Negative
                             /\ \A k \in i..(n - 1) : call.mem[call.a + k] \in Decimals
  BY <1>1, Zenon DEF AtolInv
<1>4. i \in 0..n /\ n <= MemSize /\ \A k \in 1..n : k \in 1..MemSize
  BY <1>1, <1>2, <1>3
<1>5. /\ ValueOf \in [0..n -> Int] /\ ValueOf[0] = 0
      /\ \A k \in 1..n : ValueOf[k] = ValueOf[k - 1] + DigitAt(call.a + n - k) * Weight[k - 1]
  BY <1>3, <1>4, ValueIs, Zenon
<1>6. /\ Weight \in [0..MemSize -> Int] /\ Weight[0] = 1
      /\ \A k \in 1..n : Weight[k] = 10 * Weight[k - 1]
  BY <1>4, WeightIs, Zenon
<1> QED BY <1>1, <1>2, <1>3, <1>4, <1>5, <1>6, Zenon

\* A step of atol that keeps its invariant keeps everything.
LEMMA AtolKeeps ==
  ASSUME StrInv, call.f = "atol", call' = call, mem' = mem, i' \in Nat,
         ret' = Running => AtolInv', ret' # Running => ret' = Parsed
  PROVE  StrInv'
<1>1. MemoryExact' /\ mem' \in [Cells -> Int] /\ mem' = call'.mem
  BY ReadOnly DEF StrInv
<1>2. ResultExact'
  BY SameNumeral DEF ResultExact
<1>3. ret' = Running => LoopInv'
  BY DEF LoopInv
<1> QED BY <1>1, <1>2, <1>3 DEF StrInv

LEMMA AtolSignStep == ASSUME StrInv, AtolSign PROVE StrInv'
<1> DEFINE n == Length(call.a)
           c == call.mem[call.a + i]
<1>1. /\ call.f = "atol" /\ ret = Running /\ phase = "spaces"
      /\ call' = call /\ mem' = mem /\ acc' = acc /\ ret' = ret
      /\ neg' = (mem[call.a + i] = Dash)
      /\ i' = IF mem[call.a + i] \in {Space, Dash, Plus} THEN i + 1 ELSE i
      /\ phase' = IF mem[call.a + i] = Space THEN "spaces" ELSE "digits"
  BY DEF AtolSign, Calling
<1>2. n = Length(call.a)
  OBVIOUS
<1>3. PICK t \in 0..n :
        /\ \A k \in 0..(t - 1) : call.mem[call.a + k] = Space
        /\ \A k \in t..(n - 1) : \/ call.mem[call.a + k] \in Decimals
                                 \/ k = t /\ call.mem[call.a + k] \in {Plus, Dash}
  BY <1>1, NumeralShape, Zenon DEF StrInv
<1>4. Negative <=> \E k \in 0..(n - 1) : call.mem[call.a + k] = Dash
  BY DEF Negative
<1>5. Length(call.a)' = n /\ Negative' = Negative /\ ValueOf' = ValueOf
  BY <1>1, SameNumeral
<1> HIDE DEF n
<1>6. /\ call.a \in Nat /\ MemSize \in Nat /\ i \in 0..n /\ n \in Nat /\ call.a + n < MemSize
      /\ mem = call.mem /\ call.mem[call.a + n] = 0
      /\ acc * Weight[n - i] = ValueOf[n] - ValueOf[n - i] /\ acc = 0
      /\ ValueOf \in [0..n -> Int]
      /\ \A k \in 1..n : ValueOf[k] = ValueOf[k - 1] + DigitAt(call.a + n - k) * Weight[k - 1]
      /\ Weight \in [0..MemSize -> Int]
      /\ \A k \in 0..(i - 1) : call.mem[call.a + k] = Space
  BY <1>1, <1>2, AtolFacts, Zenon
<1>7. /\ i' = IF c \in {Space, Dash, Plus} THEN i + 1 ELSE i
      /\ phase' = IF c = Space THEN "spaces" ELSE "digits"
      /\ neg' = (c = Dash)
  BY <1>1, <1>6
<1>8. /\ 0 \notin Decimals /\ Space \notin Decimals /\ Plus \notin Decimals /\ Dash \notin Decimals
      /\ Space \notin {0, Plus, Dash} /\ Plus \notin {0, Dash} /\ Dash # 0
  BY DEF Decimals, Zero, Space, Plus, Dash
<1>9. i' \in 0..n /\ (c \in {Space, Dash, Plus} => i < n)
  <2>1. c \in {Space, Dash, Plus} => i # n
    BY <1>6, <1>8
  <2>2. i \in 0..n /\ n \in Nat
    BY <1>6
  <2>3. CASE c \in {Space, Dash, Plus}
    <3>1. i' = i + 1
      BY <1>7, <2>3
    <3> QED BY <2>1, <2>2, <2>3, <3>1
  <2>4. CASE c \notin {Space, Dash, Plus}
    <3>1. i' = i
      BY <1>7, <2>4
    <3> QED BY <2>2, <2>4, <3>1
  <2> QED BY <2>3, <2>4
<1>10. ValueOf[n] = ValueOf[n - i']
  <2>1. ValueOf[n] = ValueOf[n - i]
    <3>1. n - i \in 0..n /\ n - i \in 0..MemSize /\ n \in 0..n
      BY <1>6
    <3>2. Weight[n - i] \in Int /\ ValueOf[n] \in Int /\ ValueOf[n - i] \in Int
      BY <1>6, <3>1
    <3>3. 0 * Weight[n - i] = ValueOf[n] - ValueOf[n - i]
      BY <1>6, Zenon
    <3>4. \A x, y, w \in Int : 0 * w = x - y => x = y
      OBVIOUS
    <3> QED BY <3>2, <3>3, <3>4, Zenon
  <2>2. CASE c \in {Space, Dash, Plus}
    <3>1. n - i \in 1..n /\ n - i - 1 = n - i' /\ n - i' \in 0..n /\ n - i' \in 0..MemSize
          /\ call.a + n - (n - i) = call.a + i
      BY <1>6, <1>7, <1>9, <2>2
    <3>2. DigitAt(call.a + i) = 0
      BY <1>8, <2>2 DEF DigitAt
    <3>3. ValueOf[n - i] = ValueOf[n - i'] + 0 * Weight[n - i']
      BY <1>6, <3>1, <3>2
    <3>4. ValueOf[n - i'] \in Int /\ Weight[n - i'] \in Int
      BY <1>6, <3>1
    <3> QED BY <2>1, <3>3, <3>4
  <2>3. CASE c \notin {Space, Dash, Plus}
    BY <1>7, <2>1, <2>3
  <2> QED BY <2>2, <2>3
<1>11. acc' \in Int /\ acc' * Weight[n - i'] = ValueOf[n] - ValueOf[n - i']
  <2>1. n - i' \in 0..n /\ n - i' \in 0..MemSize
    <3>1. i' \in 0..n /\ n \in Nat /\ MemSize \in Nat /\ call.a \in Nat /\ call.a + n < MemSize
      BY <1>6, <1>9, Zenon
    <3>2. \A x, y, m, a \in Nat : x \in 0..y /\ a + y < m => y - x \in 0..y /\ y - x \in 0..m
      OBVIOUS
    <3>3. i' \in Nat
      BY <3>1
    <3> QED BY <3>1, <3>2, <3>3, Zenon
  <2>2. Weight[n - i'] \in Int /\ ValueOf[n - i'] \in Int
    BY <1>6, <2>1
  <2>3. acc' = 0
    BY <1>1, <1>6
  <2> QED BY <1>10, <2>2, <2>3
<1>12. ASSUME phase' = "spaces"
       PROVE  acc' = 0 /\ \A k \in 0..(i' - 1) : call.mem[call.a + k] = Space
  <2>1. c = Space
    BY <1>7, <1>12
  <2>2. \A k \in 0..(i' - 1) : k \in 0..(i - 1) \/ k = i
    BY <1>6, <1>7, <2>1
  <2> QED BY <1>1, <1>6, <2>1, <2>2
<1>13. ASSUME phase' = "digits"
       PROVE  /\ neg' = Negative
              /\ \A k \in i'..(n - 1) : call.mem[call.a + k] \in Decimals
  <2>1. c # Space
    BY <1>7, <1>13
  <2>2. i \in Nat /\ n \in Nat /\ t \in Nat
    BY <1>6
  <2>3. t <= i
    <3>1. i \notin 0..(t - 1)
      BY <1>3, <2>1
    <3> QED BY <1>6, <2>2, <3>1
  <2>4. c \in {Dash, Plus} => i = t
    <3>1. c \in {Dash, Plus} => i \in t..(n - 1)
      BY <1>9, <2>2, <2>3, SMT
    <3>2. c \in {Dash, Plus} => call.mem[call.a + i] \notin Decimals
      BY <1>8, Zenon
    <3> QED BY <1>3, <3>1, <3>2, Zenon
  <2>5. /\ i' \in {i, i + 1} /\ (c \in {Dash, Plus} => i' = i + 1)
        /\ \A k \in i'..(n - 1) : k \in t..(n - 1) /\ (k = t => k = i)
    <3>1. i' \in {i, i + 1} /\ (c \in {Dash, Plus} => i' = i + 1)
      BY <1>7, Zenon
    <3> QED BY <2>3, <2>2, <3>1
  <2>6. ASSUME NEW k \in i'..(n - 1)
        PROVE  call.mem[call.a + k] \in Decimals
    <3>1. CASE c \in {Dash, Plus}
      <4>1. k # t
        BY <2>4, <2>5, <2>2, <3>1
      <4> QED BY <1>3, <2>5, <4>1
    <3>2. CASE c \notin {Dash, Plus}
      BY <1>3, <2>5, <3>2
    <3> QED BY <3>1, <3>2
  <2>7. ASSUME NEW k \in 0..(n - 1), call.mem[call.a + k] = Dash
        PROVE  c = Dash
    <3>1. k \notin 0..(i - 1)
      BY <1>6, <1>8, <2>7
    <3>2. k \in t..(n - 1) /\ k = t
      <4>1. k \in t..(n - 1)
        BY <1>6, <2>3, <2>7, <3>1
      <4> QED BY <1>3, <1>8, <2>7, <4>1
    <3>3. k = i
      BY <1>6, <2>3, <3>1, <3>2
    <3> QED BY <2>7, <3>3
  <2>8. c = Dash => i \in 0..(n - 1)
    BY <1>6, <1>9
  <2>9. Negative <=> c = Dash
    BY <1>4, <2>7, <2>8
  <2>10. neg' = Negative
    BY <1>7, <2>9, Zenon DEF Negative
  <2> QED BY <2>6, <2>10
<1>14. phase' \in {"spaces", "digits"} /\ i' <= n /\ i' \in Nat
  BY <1>6, <1>7, <1>9
<1>15. AtolInv'
  BY <1>1, <1>5, <1>6, <1>11, <1>12, <1>13, <1>14, Zenon DEF AtolInv
<1> QED BY <1>1, <1>14, <1>15, AtolKeeps

LEMMA AtolDigitStep == ASSUME StrInv, AtolDigit PROVE StrInv'
<1> DEFINE n == Length(call.a)
           c == call.mem[call.a + i]
<1>1. /\ call.f = "atol" /\ ret = Running /\ phase = "digits"
      /\ call' = call /\ mem' = mem /\ phase' = phase /\ neg' = neg
      /\ mem[call.a + i] # 0 => acc' = acc * 10 + (mem[call.a + i] - Zero) /\ i' = i + 1 /\ ret' = ret
      /\ mem[call.a + i] = 0 => acc' = acc /\ i' = i /\ ret' = IF neg THEN -acc ELSE acc
  BY DEF AtolDigit, Calling
<1>2. n = Length(call.a)
  OBVIOUS
<1>3. Length(call.a)' = n /\ Negative' = Negative /\ ValueOf' = ValueOf
  BY <1>1, SameNumeral
<1>4. Parsed = IF Negative THEN -ValueOf[n] ELSE ValueOf[n]
  BY DEF Parsed
<1> HIDE DEF n
<1>5. /\ call.a \in Nat /\ MemSize \in Nat /\ i \in 0..n /\ n \in Nat /\ call.a + n < MemSize
      /\ mem = call.mem /\ call.mem[call.a + n] = 0
      /\ acc \in Int /\ acc * Weight[n - i] = ValueOf[n] - ValueOf[n - i]
      /\ ValueOf \in [0..n -> Int] /\ ValueOf[0] = 0
      /\ \A k \in 1..n : ValueOf[k] = ValueOf[k - 1] + DigitAt(call.a + n - k) * Weight[k - 1]
      /\ Weight \in [0..MemSize -> Int] /\ Weight[0] = 1
      /\ \A k \in 1..n : Weight[k] = 10 * Weight[k - 1]
      /\ neg = Negative
      /\ \A k \in i..(n - 1) : call.mem[call.a + k] \in Decimals
  BY <1>1, <1>2, AtolFacts, Zenon
<1>6. CASE c # 0
  <2>1. i < n
    BY <1>5, <1>6
  <2>2. i \in i..(n - 1) /\ c \in Decimals
    BY <1>5, <2>1
  <2>3. DigitAt(call.a + i) = c - Zero /\ c - Zero \in Int
    BY <2>2 DEF DigitAt, Decimals, Zero
  <2>4. acc' = acc * 10 + (c - Zero) /\ i' = i + 1 /\ ret' = Running
    BY <1>1, <1>5, <1>6
  <2>5. /\ n - i \in 1..n /\ n - i \in 0..n /\ n - i - 1 = n - i' /\ n - i' \in 0..n
        /\ n - i' \in 0..MemSize /\ n \in 0..n /\ call.a + n - (n - i) = call.a + i
    <3>1. /\ i \in Nat /\ n \in Nat /\ i < n /\ n < MemSize /\ MemSize \in Nat
          /\ call.a \in Nat /\ i' = i + 1
      <4>1. i \in 0..n /\ n \in Nat /\ MemSize \in Nat /\ call.a \in Nat /\ call.a + n < MemSize
        BY <1>5, Zenon
      <4> QED BY <2>1, <2>4, <4>1
    <3> QED BY <3>1
  <2>6. /\ Weight[n - i] = 10 * Weight[n - i']
        /\ ValueOf[n - i] = ValueOf[n - i'] + (c - Zero) * Weight[n - i']
    <3>1. /\ \A k \in 1..n : Weight[k] = 10 * Weight[k - 1]
          /\ \A k \in 1..n : ValueOf[k] = ValueOf[k - 1] + DigitAt(call.a + n - k) * Weight[k - 1]
      BY <1>5, Zenon
    <3>2. /\ Weight[n - i] = 10 * Weight[n - i - 1]
          /\ ValueOf[n - i] = ValueOf[n - i - 1] + DigitAt(call.a + n - (n - i)) * Weight[n - i - 1]
      BY <2>5, <3>1, Zenon
    <3>3. n - i - 1 = n - i' /\ DigitAt(call.a + n - (n - i)) = c - Zero
      BY <2>3, <2>5, Zenon
    <3> QED BY <3>2, <3>3, Zenon
  <2>7. Weight[n - i'] \in Int /\ ValueOf[n - i'] \in Int /\ ValueOf[n] \in Int
    BY <1>5, <2>5
  <2>8. acc * (10 * Weight[n - i']) = ValueOf[n] - (ValueOf[n - i'] + (c - Zero) * Weight[n - i'])
    <3>1. acc * Weight[n - i] = ValueOf[n] - ValueOf[n - i]
      BY <1>5, Zenon
    <3> QED BY <2>6, <3>1, Zenon
  <2>9. (acc * 10 + (c - Zero)) * Weight[n - i'] = ValueOf[n] - ValueOf[n - i']
    <3> DEFINE w == Weight[n - i']
               d == c - Zero
               left == ValueOf[n - i']
               all == ValueOf[n]
    <3>1. w \in Int /\ d \in Int /\ left \in Int /\ all \in Int /\ acc \in Int
      BY <1>5, <2>3, <2>7
    <3>2. acc * (10 * w) = all - (left + d * w)
      BY <2>8
    <3> HIDE DEF w, d, left, all
    <3>3. (acc * 10 + d) * w = all - left
      BY <3>1, <3>2, HornerStep
    <3> QED BY <3>3 DEF w, d, left, all
  <2>10. acc' \in Int /\ acc' * Weight[n - i'] = ValueOf[n] - ValueOf[n - i']
    BY <1>5, <2>3, <2>4, <2>9
  <2>11. /\ i' \in Nat /\ i' <= n
         /\ \A k \in i'..(n - 1) : call.mem[call.a + k] \in Decimals
    <3>1. i \in Nat /\ n \in Nat /\ i < n /\ i' = i + 1
      BY <1>5, <2>1, <2>4
    <3>2. i' \in Nat /\ i' <= n /\ \A k \in i'..(n - 1) : k \in i..(n - 1)
      BY <3>1
    <3> QED BY <1>5, <3>2, Zenon
  <2>12. phase' # "spaces" /\ phase' \in {"spaces", "digits"} /\ neg' = Negative
    BY <1>1, <1>5
  <2>13. AtolInv'
    BY <1>1, <1>3, <1>5, <2>10, <2>11, <2>12, Zenon DEF AtolInv
  <2> QED BY <1>1, <2>4, <2>11, <2>13, AtolKeeps
<1>7. CASE c = 0
  <2>1. i = n
    <3>1. 0 \notin Decimals
      BY DEF Decimals, Zero
    <3>2. i \notin i..(n - 1)
      BY <1>5, <1>7, <3>1
    <3> QED BY <1>5, <3>2
  <2>2. acc = ValueOf[n]
    <3>1. n - i = 0 /\ n \in 0..n
      BY <1>5, <2>1
    <3>2. /\ acc * Weight[n - i] = ValueOf[n] - ValueOf[n - i]
          /\ Weight[0] = 1 /\ ValueOf[0] = 0 /\ ValueOf \in [0..n -> Int]
      BY <1>5, Zenon
    <3>3. acc * 1 = ValueOf[n] - 0
      BY <3>1, <3>2, Zenon
    <3>4. acc \in Int /\ ValueOf[n] \in Int
      <4>1. acc \in Int
        BY <1>5, Zenon
      <4> QED BY <3>1, <3>2, <4>1
    <3> QED BY <3>3, <3>4
  <2>3. ret' = Parsed /\ Parsed \in Int
    BY <1>1, <1>4, <1>5, <1>7, <2>2
  <2>4. ret' # Running /\ i' \in Nat
    BY <1>1, <1>5, <1>7, <2>3, MemoryAssumption
  <2> QED BY <1>1, <2>3, <2>4, AtolKeeps
<1> QED BY <1>6, <1>7

--------------------------------------------------------------------------------
(* verify and verifyDouble.                                                    *)

LEMMA EqIsSame ==
  ASSUME StrInv, call.f \in {"verify", "verifyDouble"}, NEW k \in 0..(call.n - 1)
  PROVE  mem[call.a + k] = mem[call.b + k] <=> ~Differ(k)
BY Operands DEF Differ

LEMMA VerifyPairStep == ASSUME StrInv, VerifyPair PROVE StrInv'
<1>1. /\ call.f \in {"verify", "verifyDouble"} /\ ret = Running
      /\ i < (call.n \div 2) * 2
      /\ call' = call /\ mem' = mem /\ phase' = phase
  BY DEF VerifyPair, Calling
<1>2. MemoryExact' /\ mem' \in [Cells -> Int]
  BY <1>1, ReadOnly
<1>3. i \in Nat /\ Equal(i) /\ i % 2 = 0 /\ call.n \in Nat /\ call.a \in Nat /\ call.b \in Nat
  BY <1>1, Operands DEF StrInv, LoopInv
<1>4. i + 2 <= (call.n \div 2) * 2 /\ (i + 2) % 2 = 0 /\ i + 2 <= call.n
  BY <1>1, <1>3
<1>5. /\ mem[call.a + i] = mem[call.b + i] <=> ~Differ(i)
      /\ mem[call.a + i + 1] = mem[call.b + i + 1] <=> ~Differ(i + 1)
  <2>1. i \in 0..(call.n - 1) /\ i + 1 \in 0..(call.n - 1)
    BY <1>3, <1>4
  <2>2. call.a + i + 1 = call.a + (i + 1) /\ call.b + i + 1 = call.b + (i + 1)
    BY <1>3
  <2> QED BY <1>1, <2>1, <2>2, EqIsSame
<1>6. CASE ~Differ(i) /\ ~Differ(i + 1)
  <2>1. i' = i + 2 /\ ret' = ret
    BY <1>5, <1>6 DEF VerifyPair
  <2>2. Equal(i + 2)
    <3>1. \A k \in 0..(i + 2 - 1) : k \in 0..(i - 1) \/ k = i \/ k = i + 1
      BY <1>3
    <3> QED BY <1>3, <1>6, <3>1 DEF Equal
  <2>3. Equal(i)'
    BY <1>1, <2>1, <2>2 DEF Equal, Differ
  <2> QED BY <1>1, <1>2, <1>3, <1>4, <2>1, <2>3, Unreturned DEF StrInv, LoopInv
<1>7. CASE Differ(i)
  <2>1. i' = i /\ ret' = i + 1
    BY <1>5, <1>7 DEF VerifyPair
  <2>2. FirstDifference = i
    BY <1>3, <1>4, <1>7, FirstDiffers
  <2>3. ResultExact'
    BY <1>1, <1>3, <1>4, <2>1, <2>2, SameSearch DEF ResultExact
  <2> QED BY <1>1, <1>2, <1>3, <2>1, <2>3, MemoryAssumption DEF StrInv
<1>8. CASE ~Differ(i) /\ Differ(i + 1)
  <2>1. i' = i /\ ret' = i + 2
    BY <1>5, <1>8 DEF VerifyPair
  <2>2. Equal(i + 1)
    <3>1. \A k \in 0..(i + 1 - 1) : k \in 0..(i - 1) \/ k = i
      BY <1>3
    <3> QED BY <1>3, <1>8, <3>1 DEF Equal
  <2>3. FirstDifference = i + 1
    BY <1>3, <1>4, <1>8, <2>2, FirstDiffers
  <2>4. ResultExact'
    BY <1>1, <1>3, <1>4, <2>1, <2>3, SameSearch DEF ResultExact
  <2> QED BY <1>1, <1>2, <1>3, <2>1, <2>4, MemoryAssumption DEF StrInv
<1> QED BY <1>6, <1>7, <1>8

LEMMA VerifyLastStep == ASSUME StrInv, VerifyLast PROVE StrInv'
<1>1. /\ call.f \in {"verify", "verifyDouble"} /\ ret = Running
      /\ i >= (call.n \div 2) * 2
      /\ call' = call /\ mem' = mem /\ i' = i
      /\ ret' = IF call.n % 2 # 0 /\ mem[call.a + call.n - 1] # mem[call.b + call.n - 1]
                THEN call.n ELSE 0
  BY DEF VerifyLast, Calling
<1>2. MemoryExact' /\ mem' \in [Cells -> Int]
  BY <1>1, ReadOnly
<1>3. /\ i \in Nat /\ Equal(i) /\ call.n \in Nat /\ call.a \in Nat /\ call.b \in Nat
      /\ i = (call.n \div 2) * 2
  BY <1>1, Operands DEF StrInv, LoopInv
<1>4. CASE call.n % 2 # 0
  <2>1. i = call.n - 1 /\ i \in 0..(call.n - 1)
    BY <1>3, <1>4
  <2>2. call.a + call.n - 1 = call.a + i /\ call.b + call.n - 1 = call.b + i
    BY <1>3, <2>1
  <2>3. ret' = IF Differ(i) THEN call.n ELSE 0
    BY <1>1, <1>4, <2>1, <2>2, EqIsSame
  <2>4. FirstDifference = IF Differ(i) THEN i ELSE call.n
    <3>1. CASE Differ(i)
      BY <1>3, <2>1, <3>1, FirstDiffers
    <3>2. CASE ~Differ(i)
      <4>1. \A k \in 0..(call.n - 1) : k \in 0..(i - 1) \/ k = i
        BY <1>3, <2>1
      <4>2. Equal(call.n) /\ call.n \in 0..call.n
        BY <1>3, <3>2, <4>1 DEF Equal
      <4> QED BY <1>3, <3>2, <4>2, FirstDiffers
    <3> QED BY <3>1, <3>2
  <2>5. ResultExact'
    BY <1>1, <1>3, <2>1, <2>3, <2>4, SameSearch DEF ResultExact
  <2> QED BY <1>1, <1>2, <1>3, <2>3, <2>5, MemoryAssumption DEF StrInv
<1>5. CASE call.n % 2 = 0
  <2>1. i = call.n /\ ret' = 0
    BY <1>1, <1>3, <1>5
  <2>2. FirstDifference = call.n
    BY <1>3, <2>1, FirstDiffers
  <2>3. ResultExact'
    BY <1>1, <2>1, <2>2, SameSearch DEF ResultExact
  <2> QED BY <1>1, <1>2, <1>3, <2>1, <2>3, MemoryAssumption DEF StrInv
<1> QED BY <1>4, <1>5

--------------------------------------------------------------------------------
(* printhex.                                                                   *)

\* Dropping a digit and dropping the digits below it.
LEMMA DropDigit ==
  ASSUME NEW n \in Nat, NEW j \in 0..6
  PROVE  (n \div 16^j) \div 16 = n \div 16^(j + 1)
<1>1. j = 0 \/ j = 1 \/ j = 2 \/ j = 3 \/ j = 4 \/ j = 5 \/ j = 6
  OBVIOUS
<1>2. /\ 16^0 = 1 /\ 16^1 = 16 /\ 16^2 = 256 /\ 16^3 = 4096 /\ 16^4 = 65536
      /\ 16^5 = 1048576 /\ 16^6 = 16777216 /\ 16^7 = 268435456
  OBVIOUS
<1>3. CASE j = 0
  BY <1>2, <1>3
<1>4. CASE j = 1
  BY <1>2, <1>4
<1>5. CASE j = 2
  BY <1>2, <1>5
<1>6. CASE j = 3
  BY <1>2, <1>6
<1>7. CASE j = 4
  BY <1>2, <1>7
<1>8. CASE j = 5
  BY <1>2, <1>8
<1>9. CASE j = 6
  BY <1>2, <1>9
<1> QED BY <1>1, <1>3, <1>4, <1>5, <1>6, <1>7, <1>8, <1>9

\* The next digit of a number, and what is left of it.
LEMMA NextDigit ==
  ASSUME call.n \in Nat, NEW j \in 0..14
  PROVE  Without(j) \div 16 = Without(j + 1)
<1>1. CASE j < 7
  <2>1. j \in 0..6 /\ ~(j > 7) /\ ~(j + 1 > 7)
    BY <1>1
  <2> QED BY <2>1, DropDigit DEF Without
<1>2. CASE j = 7
  <2> DEFINE high == (call.n \div 16^7) \div 16
  <2>1. high \div 1 = high
    <3>1. high \in Int
      <4>1. call.n \div 268435456 \in Int
        OBVIOUS
      <4>2. (call.n \div 268435456) \div 16 \in Int
        BY <4>1
      <4> QED BY <4>2
    <3> HIDE DEF high
    <3> QED BY <3>1
  <2>2. Without(8) = high
    <3>1. 16^(8 - 8) = 1
      OBVIOUS
    <3> QED BY <2>1, <3>1 DEF Without
  <2>3. Without(7) \div 16 = high
    BY DEF Without
  <2> QED BY <1>2, <2>2, <2>3
<1>3. CASE j > 7
  <2> DEFINE high == (call.n \div 16^7) \div 16
  <2>1. high \in Nat
    <3>1. call.n \div 268435456 \in Nat
      OBVIOUS
    <3>2. (call.n \div 268435456) \div 16 \in Nat
      BY <3>1
    <3> QED BY <3>2
  <2>2. j - 8 \in 0..6 /\ (j + 1) - 8 = (j - 8) + 1 /\ j + 1 > 7
    BY <1>3
  <2>3. (high \div 16^(j - 8)) \div 16 = high \div 16^((j - 8) + 1)
    <3> HIDE DEF high
    <3> QED BY <2>1, <2>2, DropDigit
  <2> QED BY <1>3, <2>2, <2>3 DEF Without
<1> QED BY <1>1, <1>2, <1>3

LEMMA AsciiInt ==
  ASSUME NEW d \in Nat
  PROVE  Ascii(d) \in Int
BY DEF Ascii, Zero

LEMMA NibbleStep == ASSUME StrInv, Nibble PROVE StrInv'
<1>1. call.f = "printhex" /\ ret = Running /\ call' = call /\ phase' = phase
  BY DEF Nibble, Calling
<1>2. /\ mem \in [Cells -> Int] /\ i \in Nat /\ i <= 16 /\ HexFilled /\ acc \in Nat
      /\ i < 16 => acc = Without(i)
      /\ Within(call.a, 17) /\ call.n \in Nat /\ call.mem \in [Cells -> Int]
      /\ call.a \in Nat
  BY <1>1 DEF StrInv, LoopInv, Legal, Nibbles, Within
<1>3. \A y \in Cells :
        mem[y] = IF y \in (call.a + 16 - i)..(call.a + 15)
                 THEN HexDigit(call.a + 15 - y) ELSE call.mem[y]
  <2>1. \A y \in Cells :
          mem[y] = IF y \in (call.a + 16 - i)..(call.a + 16 - 1)
                   THEN HexDigit(call.a + 16 - 1 - y) ELSE call.mem[y]
    BY <1>2, Zenon DEF HexFilled, Nibbles
  <2>2. call.a + 16 - 1 = call.a + 15
    BY <1>2
  <2> QED BY <2>1, <2>2
<1>4. CASE i < 16
  <2>1. /\ Put(call.a + 16 - 1 - i, <<Ascii(acc % 16)>>)
        /\ acc' = acc \div 16 /\ i' = i + 1 /\ ret' = ret
    BY <1>4 DEF Nibble, Nibbles
  <2> DEFINE x == call.a + 16 - 1 - i
             d == Ascii(acc % 16)
  <2>2. x \in Nat /\ x = call.a + 15 - i
    BY <1>2, <1>4
  <2>3. d \in Int /\ d = HexDigit(i)
    <3>1. acc % 16 \in Nat
      BY <1>2
    <3>2. d \in Int
      BY <3>1, AsciiInt
    <3> QED BY <1>2, <1>4, <3>2 DEF HexDigit
  <2>4. /\ mem' = [y \in Cells |-> IF y \in x..(x + 1 - 1) THEN <<d>>[y - x + 1] ELSE mem[y]]
        /\ mem' \in [Cells -> Int]
    <3> HIDE DEF x, d
    <3>1. <<d>> \in [1..1 -> Int]
      BY <2>3
    <3>2. Put(x, <<d>>)
      BY <2>1 DEF x, d
    <3>3. mem \in [Cells -> Int] /\ x \in Nat
      BY <1>2, <2>2
    <3> HIDE DEF x, d
    <3> QED BY <3>1, <3>2, <3>3, PutBytes
  <2>5. ASSUME NEW y \in Cells
        PROVE  mem'[y] = IF y \in (call.a + 16 - (i + 1))..(call.a + 16 - 1)
                         THEN HexDigit(call.a + 16 - 1 - y) ELSE call.mem[y]
    <3>1. y \in Nat
      BY MemoryAssumption DEF Cells
    <3>2. CASE y = x
      <4>1. mem'[y] = d
        <5>1. y \in x..(x + 1 - 1) /\ y - x + 1 = 1
          BY <2>2, <3>1, <3>2
        <5> HIDE DEF d
        <5> QED BY <2>4, <5>1
      <4>2. call.a + 16 - 1 - y = i /\ y \in (call.a + 16 - (i + 1))..(call.a + 16 - 1)
        BY <1>2, <2>2, <3>2
      <4> QED BY <2>3, <4>1, <4>2
    <3>3. CASE y # x
      <4>1. mem'[y] = mem[y]
        <5>1. y \notin x..(x + 1 - 1)
          BY <2>2, <3>1, <3>3
        <5> HIDE DEF d
        <5> QED BY <2>4, <5>1
      <4>2. /\ y \in (call.a + 16 - (i + 1))..(call.a + 16 - 1)
                 <=> y \in (call.a + 16 - i)..(call.a + 15)
            /\ call.a + 16 - 1 - y = call.a + 15 - y
        BY <1>2, <1>4, <2>2, <3>1, <3>3
      <4> QED BY <1>3, <4>1, <4>2
    <3> QED BY <3>2, <3>3
  <2>6. HexFilled'
    <3>1. DOMAIN mem' = Cells
      BY <2>4
    <3>2. mem' = [y \in Cells |-> IF y \in (call.a + 16 - (i + 1))..(call.a + 16 - 1)
                                 THEN HexDigit(call.a + 16 - 1 - y) ELSE call.mem[y]]
      BY <2>4, <2>5
    <3> QED BY <1>1, <2>1, <3>2 DEF HexFilled, HexDigit, Without, Nibbles
  <2>7. acc' \in Nat /\ (i + 1 < 16 => acc' = Without(i + 1))
    <3>1. acc' \in Nat
      BY <1>2, <2>1
    <3>2. i + 1 < 16 => i \in 0..14
      BY <1>2
    <3> QED BY <1>2, <1>4, <2>1, <3>1, <3>2, NextDigit
  <2>8. i' \in Nat /\ i' <= 16
    BY <1>2, <1>4, <2>1
  <2>9. i' < Nibbles => acc' = Without(i)'
    BY <1>1, <2>1, <2>7 DEF Without, Nibbles
  <2> QED BY <1>1, <1>2, <2>1, <2>4, <2>6, <2>7, <2>8, <2>9, Unreturned DEF StrInv, LoopInv, Nibbles
<1>5. CASE i = 16
  <2>1. Put(call.a + 16, <<0>>) /\ i' = i /\ ret' = call.a
    BY <1>5 DEF Nibble, Nibbles
  <2> DEFINE x == call.a + 16
  <2>2. /\ mem' = [y \in Cells |-> IF y \in x..(x + 1 - 1) THEN <<0>>[y - x + 1] ELSE mem[y]]
        /\ mem' \in [Cells -> Int]
    <3>1. x \in Nat /\ <<0>> \in [1..1 -> Int]
      BY <1>2
    <3>2. Put(x, <<0>>)
      BY <2>1
    <3> HIDE DEF x
    <3> QED BY <1>2, <3>1, <3>2, PutBytes
  <2>3. Stored' = [k \in 1..17 |-> IF k > 16 THEN 0 ELSE HexDigit(16 - k)]
    BY <1>1 DEF Stored, HexDigit, Without, Nibbles
  <2>4. ASSUME NEW y \in Cells
        PROVE  mem'[y] = IF y - call.a + 1 \in 1..17 THEN Stored'[y - call.a + 1] ELSE call.mem[y]
    <3>1. y \in Nat
      BY MemoryAssumption DEF Cells
    <3>2. CASE y = x
      <4>1. mem'[y] = 0
        BY <1>2, <2>2, <3>2
      <4>2. y - call.a + 1 = 17
        BY <1>2, <3>2
      <4> QED BY <2>3, <4>1, <4>2
    <3>3. CASE y \in call.a..(call.a + 15)
      <4>1. mem'[y] = mem[y]
        BY <1>2, <2>2, <3>1, <3>3
      <4>2. mem[y] = HexDigit(call.a + 15 - y)
        BY <1>2, <1>3, <1>5, <3>1, <3>3
      <4>3. y - call.a + 1 \in 1..16 /\ 16 - (y - call.a + 1) = call.a + 15 - y
        BY <1>2, <3>1, <3>3
      <4> QED BY <2>3, <4>1, <4>2, <4>3
    <3>4. CASE y \notin call.a..(call.a + 16)
      <4>1. mem'[y] = mem[y]
        BY <1>2, <2>2, <3>1, <3>4
      <4>2. mem[y] = call.mem[y]
        BY <1>2, <1>3, <1>5, <3>1, <3>4
      <4>3. y - call.a + 1 \notin 1..17
        BY <1>2, <3>1, <3>4
      <4> QED BY <4>1, <4>2, <4>3
    <3> QED BY <1>2, <3>1, <3>2, <3>3, <3>4
  <2>5. MemoryExact'
    <3>1. DOMAIN Stored' = 1..17 /\ DOMAIN call'.mem = Cells /\ call'.mem = call.mem /\ call'.a = call.a
      BY <1>1, <1>2, <2>3
    <3>2. mem' = [y \in Cells |-> IF y - call.a + 1 \in DOMAIN Stored'
                                 THEN Stored'[y - call.a + 1] ELSE call.mem[y]]
      BY <2>2, <2>4, <3>1
    <3> QED BY <3>1, <3>2 DEF MemoryExact
  <2>6. ResultExact'
    BY <1>1, <2>1 DEF ResultExact
  <2> QED BY <1>1, <1>2, <2>1, <2>2, <2>5, <2>6, MemoryAssumption DEF StrInv
<1> QED BY <1>2, <1>4, <1>5

--------------------------------------------------------------------------------
(* Every call, from where it starts.                                           *)

\* A legal call at its start.
LEMMA StrStart ==
  ASSUME StrInit
  PROVE  StrInv
<1>1. /\ Legal(call) /\ mem = call.mem /\ mem \in [Cells -> Int] /\ i = 0 /\ ret = Running
      /\ phase = IF ByWords(call) THEN "words" ELSE IF call.f = "atol" THEN "spaces" ELSE "bytes"
      /\ acc = IF call.f = "printhex" THEN call.n ELSE 0
  BY MemoryAssumption DEF StrInit, Legal
<1>2. ResultExact /\ MemoryExact
  BY <1>1 DEF ResultExact, MemoryExact
<1>3. Equal(0) /\ \A x : NonZero(x, 0)
  BY DEF Equal, NonZero
<1>4. ASSUME call.f \in {"memcpy", "memset", "strcpy"}
      PROVE  Filled(0)
  <2>1. call.a \in Nat
    BY <1>1, <1>4 DEF Legal, Within
  <2>2. \A y \in Cells : y \notin call.a..(call.a + 0 - 1)
    BY <2>1, MemoryAssumption DEF Cells
  <2> QED BY <1>1, <2>2 DEF Filled
<1>5. ASSUME call.f = "printhex"
      PROVE  HexFilled /\ call.n \in Nat /\ Without(0) = call.n
  <2>1. call.a \in Nat /\ call.n \in Nat
    BY <1>1, <1>5 DEF Legal, Within
  <2>2. \A y \in Cells : y \notin (call.a + 16 - 0)..(call.a + 16 - 1)
    BY <2>1, MemoryAssumption DEF Cells
  <2>3. call.n \div 16^0 = call.n
    <3>1. 16^0 = 1
      OBVIOUS
    <3> QED BY <2>1, <3>1
  <2> QED BY <1>1, <2>1, <2>2, <2>3 DEF HexFilled, Without, Nibbles
<1>6. 0 % WordBytes = 0 /\ 0 % 2 = 0
  BY MemoryAssumption
<1>7. phase = "words" /\ call.f \in {"memcpy", "memset"} => call.n % WordBytes = 0
  BY <1>1 DEF ByWords, AllAligned
<1>8. /\ call.f \in {"memcpy", "memset", "memcmp", "verify", "verifyDouble", "strnlen"} =>
           call.n \in Nat
      /\ call.n \in Nat => 0 <= call.n /\ 0 <= (call.n \div 2) * 2
  BY <1>1 DEF Legal, Within
<1>9. call.f = "atol" => AtolInv
  <2> DEFINE n == Length(call.a)
  <2>1. SUFFICES ASSUME call.f = "atol" PROVE AtolInv
    OBVIOUS
  <2>2. /\ n \in Nat /\ call.a \in Nat /\ call.a + n < MemSize /\ call.mem[call.a + n] = 0
        /\ MemSize \in Nat
    BY <1>1, <2>1, NumeralShape, MemoryAssumption
  <2>3. acc = 0 /\ phase = "spaces" /\ \A k \in 0..(0 - 1) : FALSE
    BY <1>1, <2>1 DEF ByWords
  <2>4. n <= MemSize /\ n \in 0..n /\ n \in 0..MemSize /\ n - 0 = n
    BY <2>2
  <2>5. ValueOf[n] \in Int /\ Weight[n] \in Int
    BY <2>2, <2>4, ValueIs, WeightIs
  <2>6. 0 * Weight[n] = ValueOf[n] - ValueOf[n] /\ 0 \in Int /\ 0 <= n
    BY <2>2, <2>5
  <2> HIDE DEF n
  <2>7. acc * Weight[n - i] = ValueOf[n] - ValueOf[n - i]
    BY <1>1, <2>3, <2>4, <2>6, Zenon
  <2> USE DEF n
  <2>8. i <= n
    BY <1>1, <2>6
  <2> QED BY <1>1, <2>2, <2>3, <2>6, <2>7, <2>8, Zenon DEF AtolInv
<1>10. LoopInv
  BY <1>1, <1>3, <1>4, <1>5, <1>6, <1>7, <1>8, <1>9 DEF LoopInv, Nibbles
<1> QED BY <1>1, <1>2, <1>10 DEF StrInv

\* No call of these, while printf runs: the empty string has been measured.
LEMMA StrRest ==
  ASSUME StrIdle
  PROVE  StrInv
<1>1. /\ call.f = "strlen" /\ call.a = 0 /\ call.mem = [x \in Cells |-> 0] /\ mem = call.mem
      /\ i = 0 /\ ret = 0
  BY DEF StrIdle, CallOf
<1>2. 0 \in Cells
  BY MemoryAssumption DEF Cells
<1>3. Legal(call)
  <2>1. Ends(call.mem, 0)
    BY <1>1, <1>2 DEF Ends
  <2> QED BY <1>1, <2>1 DEF Legal
<1>4. ResultExact
  <2>1. NonZero(0, 0)
    BY DEF NonZero
  <2>2. 0 \in 0..(MemSize - 0) /\ call.mem[0 + 0] = 0
    BY <1>1, <1>2, MemoryAssumption
  <2>3. Length(0) = 0
    BY <2>1, <2>2, LengthIs
  <2> QED BY <1>1, <2>3 DEF ResultExact
<1>5. MemoryExact
  <2>1. Stored = <<>>
    BY <1>1 DEF Stored
  <2> QED BY <1>1, <2>1 DEF MemoryExact
<1> QED BY <1>1, <1>3, <1>4, <1>5, MemoryAssumption DEF StrInv

LEMMA StrKept ==
  ASSUME StrInv, UNCHANGED strvars
  PROVE  StrInv'
<1>1. /\ call' = call /\ mem' = mem /\ i' = i /\ phase' = phase /\ acc' = acc /\ neg' = neg
      /\ ret' = ret
  BY DEF strvars
<1>2. AtolInv' <=> AtolInv
  BY <1>1, SameNumeral DEF AtolInv
<1>3. LoopInv' <=> LoopInv
  BY <1>1, <1>2 DEF LoopInv, Filled, Source, HexFilled, HexDigit, Without, Equal, NonZero, Differ
<1>4. MemoryExact'
  <2>1. Length(call.b)' = Length(call.b)
    BY <1>1 DEF Length, First
  <2>2. Stored' = Stored
    BY <1>1, <2>1 DEF Stored, HexDigit, Without
  <2> QED BY <1>1, <2>2 DEF StrInv, MemoryExact
<1>5. ResultExact'
  <2>1. Length(call.a)' = Length(call.a)
    BY <1>1 DEF Length, First
  <2> QED BY <1>1, <2>1, SameSearch, SameNumeral DEF StrInv, ResultExact
<1> QED BY <1>1, <1>3, <1>4, <1>5 DEF StrInv

\* The loop invariants hold throughout: of every routine, for every legal call of
\* it, over memory of every size.
THEOREM LoopsRight == Spec => []StrInv
<1>1. Init => StrInv
  BY StrStart, StrRest DEF Init
<1>2. ASSUME StrInv, [Next]_libvars
      PROVE  StrInv'
  <2>1. CASE CopyWord
    BY <1>2, <2>1, CopyWordStep
  <2>2. CASE CopyByte
    BY <1>2, <2>2, CopyByteStep
  <2>3. CASE FillWord
    BY <1>2, <2>3, FillWordStep
  <2>4. CASE FillByte
    BY <1>2, <2>4, FillByteStep
  <2>5. CASE CompareWord
    BY <1>2, <2>5, CompareWordStep
  <2>6. CASE CompareByte
    BY <1>2, <2>6, CompareByteStep
  <2>7. CASE EndOfRange
    BY <1>2, <2>7, EndOfRangeStep
  <2>8. CASE Measure
    BY <1>2, <2>8, MeasureStep
  <2>9. CASE Strcmp
    BY <1>2, <2>9, StrcmpStep
  <2>10. CASE Strcpy
    BY <1>2, <2>10, StrcpyStep
  <2>11. CASE AtolSign \/ AtolDigit
    BY <1>2, <2>11, AtolSignStep, AtolDigitStep
  <2>12. CASE Nibble
    BY <1>2, <2>12, NibbleStep
  <2>13. CASE VerifyPair
    BY <1>2, <2>13, VerifyPairStep
  <2>14. CASE VerifyLast
    BY <1>2, <2>14, VerifyLastStep
  <2>15. CASE UNCHANGED strvars
    BY <1>2, <2>15, StrKept
  <2> QED BY <1>2, <2>1, <2>2, <2>3, <2>4, <2>5, <2>6, <2>7, <2>8, <2>9, <2>10, <2>11, <2>12,
             <2>13, <2>14, <2>15 DEF Next, StrNext, libvars
<1> QED BY <1>1, <1>2, PTL DEF Spec

\* Whichever loop or alignment a call of memcpy, memset, strcpy or printhex takes, when
\* it returns its destination holds what it should and nothing else has changed.
THEOREM MemoryKept == Spec => []MemoryExact
<1>1. StrInv => MemoryExact
  BY DEF StrInv
<1> QED BY <1>1, LoopsRight, PTL

\* The comparisons order by the first difference, lengths stop at the first zero or the
\* limit, verify and verifyDouble number the first wrong element, and atol returns what
\* the digits of its numeral are worth in their places.
THEOREM ResultsRight == Spec => []ResultExact
<1>1. StrInv => ResultExact
  BY DEF StrInv
<1> QED BY <1>1, LoopsRight, PTL

--------------------------------------------------------------------------------
(* Numerals.                                                                   *)

\* One quotient of a number is the only one.
LEMMA Quotient ==
  ASSUME NEW v \in Nat, NEW c \in Nat, c > 0, NEW q \in Nat, q * c <= v, v < q * c + c
  PROVE  v \div c = q
OBVIOUS

\* Dividing twice is dividing by the product.
LEMMA DivDiv ==
  ASSUME NEW v \in Nat, NEW b \in Nat, NEW c \in Nat, b > 0, c > 0
  PROVE  (v \div b) \div c = v \div (b * c) /\ (v \div c) \div b = v \div (b * c)
<1>1. ASSUME NEW x \in Nat, NEW y \in Nat, x > 0, y > 0
      PROVE  (v \div x) \div y = v \div (x * y)
  <2> DEFINE u == v \div x
             q == u \div y
  <2>1. u \in Nat /\ x * u <= v /\ v < x * u + x
    BY <1>1
  <2>2. u \in Nat => q \in Nat /\ y * q <= u /\ u < y * q + y
    BY <1>1
  <2> HIDE DEF u
  <2>3. q \in Nat /\ y * q <= u /\ u + 1 <= y * q + y
    BY <2>1, <2>2
  <2> HIDE DEF q
  <2>4. x * (y * q) <= x * u /\ x * (u + 1) <= x * (y * q + y)
    <3>1. \A r, s \in Nat : r <= s => x * r <= x * s
      OBVIOUS
    <3>2. y * q \in Nat /\ y * q + y \in Nat /\ u + 1 \in Nat
      BY <2>1, <2>3
    <3> QED BY <2>1, <2>3, <3>1, <3>2
  <2>5. x * (u + 1) = x * u + x /\ x * (y * q + y) = x * (y * q) + x * y /\ x * (y * q) = q * (x * y)
    BY <2>1, <2>3
  <2>6. x * y \in Nat /\ x * y > 0 /\ q * (x * y) \in Nat /\ x * u \in Nat
    BY <1>1, <2>1, <2>3
  <2>7. q * (x * y) <= v /\ v < q * (x * y) + x * y
    BY <2>1, <2>4, <2>5, <2>6
  <2> DEFINE xy == x * y
  <2>8. v \div xy = q
    <3> HIDE DEF xy
    <3>1. xy \in Nat /\ xy > 0 /\ q * xy <= v /\ v < q * xy + xy
      BY <2>6, <2>7 DEF xy
    <3> QED BY <2>3, <3>1, Quotient
  <2> QED BY <2>8 DEF q, u
<1>2. b * c = c * b
  OBVIOUS
<1> QED BY <1>1, <1>2

\* The powers of a base, as a function, and one more factor.
LEMMA PowerIs ==
  ASSUME NEW b \in Nat, b > 1
  PROVE  /\ Power(b) \in [Nat -> Nat \ {0}] /\ Power(b)[0] = 1
         /\ \A k \in Nat : Power(b)[k + 1] = b * Power(b)[k]
<1> DEFINE Up(g, n) == g \in [0..n -> Int] /\ \A k \in 0..n : g[k] = IF k = 0 THEN 1 ELSE b * g[k - 1]
           G(n) == CHOOSE g : Up(g, n)
           pow == [k \in Nat |-> G(k)[k]]
<1>1. \A n \in Nat : Up(G(n), n)
  <2> TAKE n \in Nat
  <2> DEFINE A == [k \in 0..n |-> b]
             B == [k \in 0..n |-> 0]
  <2>1. A \in [0..n -> Int] /\ B \in [0..n -> Int] /\ 1 \in Int
    OBVIOUS
  <2>2. PICK g \in [0..n -> Int] : Solves(g, n, 1, A, B)
    <3> HIDE DEF A, B
    <3> QED BY <2>1, Recursion, Zenon
  <2>3. \A k \in 0..n : g[k] = IF k = 0 THEN 1 ELSE b * g[k - 1]
    <3> TAKE k \in 0..n
    <3>1. k # 0 => k - 1 \in 0..n
      OBVIOUS
    <3>2. g[k] = IF k = 0 THEN 1 ELSE b * g[k - 1] + 0
      BY <2>2 DEF Solves
    <3>3. k # 0 => b * g[k - 1] \in Int
      BY <3>1
    <3> QED BY <3>2, <3>3
  <2>4. Up(g, n)
    BY <2>3
  <2> HIDE DEF Up
  <2> QED BY <2>4, Zenon
<1>2. ASSUME NEW n \in Nat, NEW f, NEW g, Up(f, n), Up(g, n + 1)
      PROVE  \A k \in 0..n : f[k] = g[k]
  <2> DEFINE T == {k \in 0..n : f[k] # g[k]}
  <2>1. SUFFICES ASSUME T # {} PROVE FALSE
    OBVIOUS
  <2>2. PICK m \in T : \A k \in T : m <= k
    <3>1. T \in SUBSET Nat
      OBVIOUS
    <3> HIDE DEF T
    <3> QED BY <2>1, <3>1, Least
  <2>3. m \in 0..n /\ m \in 0..(n + 1) /\ (m # 0 => m - 1 \in 0..n /\ m - 1 \notin T)
    BY <2>2
  <2>4. f[m] = (IF m = 0 THEN 1 ELSE b * f[m - 1]) /\ g[m] = (IF m = 0 THEN 1 ELSE b * g[m - 1])
    BY <1>2, <2>3
  <2>5. m # 0 => f[m - 1] = g[m - 1]
    BY <2>3
  <2> QED BY <2>2, <2>4, <2>5
<1>3. \A k \in Nat : pow[k] = IF k = 0 THEN 1 ELSE b * pow[k - 1]
  <2> TAKE k \in Nat
  <2>1. Up(G(k), k) /\ k \in 0..k
    <3>1. k \in 0..k
      OBVIOUS
    <3> HIDE DEF G, Up
    <3> QED BY <1>1, <3>1
  <2>2. G(k)[k] = IF k = 0 THEN 1 ELSE b * G(k)[k - 1]
    <3> HIDE DEF G
    <3> QED BY <2>1
  <2>3. k # 0 => G(k)[k - 1] = G(k - 1)[k - 1]
    <3>1. k # 0 => k - 1 \in Nat /\ (k - 1) + 1 = k /\ k - 1 \in 0..(k - 1)
      OBVIOUS
    <3> HIDE DEF G, Up
    <3> QED BY <1>1, <1>2, <3>1
  <2>4. k # 0 => k - 1 \in Nat
    OBVIOUS
  <2> HIDE DEF G, Up
  <2> QED BY <2>2, <2>3, <2>4
<1>4. pow = [k \in Nat |-> IF k = 0 THEN 1 ELSE b * pow[k - 1]]
  <2> HIDE DEF G, Up
  <2> QED BY <1>3, Zenon
<1>5. Power(b) = [k \in Nat |-> IF k = 0 THEN 1 ELSE b * Power(b)[k - 1]]
  <2> HIDE DEF pow
  <2> QED BY <1>4, Zenon DEF Power
<1>6. Power(b)[0] = 1 /\ \A k \in Nat \ {0} : Power(b)[k] = b * Power(b)[k - 1]
  <2>1. 0 \in Nat /\ \A k \in Nat \ {0} : k \in Nat /\ k # 0
    OBVIOUS
  <2> QED BY <1>5, <2>1, Zenon
<1>7. \A k \in Nat : Power(b)[k + 1] = b * Power(b)[k]
  <2> TAKE k \in Nat
  <2>1. k + 1 \in Nat \ {0} /\ (k + 1) - 1 = k
    OBVIOUS
  <2> QED BY <1>6, <2>1
<1> DEFINE T == {k \in Nat : Power(b)[k] \notin Nat \ {0}}
<1>8. T = {}
  <2>1. SUFFICES ASSUME T # {} PROVE FALSE
    OBVIOUS
  <2>2. PICK m \in T : \A k \in T : m <= k
    <3>1. T \in SUBSET Nat
      OBVIOUS
    <3> HIDE DEF T
    <3> QED BY <2>1, <3>1, Least
  <2>3. m \in Nat \ {0} /\ m - 1 \in Nat /\ m - 1 \notin T
    BY <1>6, <2>2
  <2>4. Power(b)[m] = b * Power(b)[m - 1] /\ Power(b)[m - 1] \in Nat \ {0}
    BY <1>6, <2>3
  <2>5. \A x \in Nat \ {0} : b * x \in Nat \ {0}
    OBVIOUS
  <2> QED BY <2>2, <2>4, <2>5
<1>9. Power(b) \in [Nat -> Nat \ {0}]
  BY <1>5, <1>8
<1> QED BY <1>6, <1>7, <1>9

\* The powers grow, and the k-th is more than k.
LEMMA PowerGrows ==
  ASSUME NEW b \in Nat, b > 1
  PROVE  /\ \A k \in Nat : Power(b)[k] > k
         /\ \A j, k \in Nat : j <= k => Power(b)[j] <= Power(b)[k]
<1> DEFINE P == Power(b)
           T == {k \in Nat : ~(P[k] > k)}
<1>1. P \in [Nat -> Nat \ {0}] /\ P[0] = 1 /\ \A k \in Nat : P[k + 1] = b * P[k]
  BY PowerIs
<1> HIDE DEF P
<1>2. \A k \in Nat \ {0} : k - 1 \in Nat /\ P[k] = b * P[k - 1] /\ P[k] >= 2 * P[k - 1] /\ P[k - 1] \in Nat \ {0}
  <2> TAKE k \in Nat \ {0}
  <2>1. k - 1 \in Nat /\ (k - 1) + 1 = k
    OBVIOUS
  <2>2. P[k] = b * P[k - 1] /\ P[k - 1] \in Nat \ {0}
    BY <1>1, <2>1
  <2>3. \A x \in Nat \ {0} : b * x >= 2 * x
    OBVIOUS
  <2> QED BY <2>1, <2>2, <2>3
<1>3. T = {}
  <2>1. SUFFICES ASSUME T # {} PROVE FALSE
    OBVIOUS
  <2>2. PICK m \in T : \A k \in T : m <= k
    <3>1. T \in SUBSET Nat
      OBVIOUS
    <3> HIDE DEF T
    <3> QED BY <2>1, <3>1, Least
  <2>3. m \in Nat \ {0} /\ m - 1 \in Nat /\ m - 1 \notin T
    BY <1>1, <2>2
  <2>4. P[m - 1] > m - 1 /\ P[m] >= 2 * P[m - 1] /\ P[m - 1] \in Nat /\ P[m] \in Nat
    BY <1>1, <1>2, <2>3
  <2> QED BY <2>2, <2>3, <2>4
<1>4. ASSUME NEW j \in Nat
      PROVE  \A k \in Nat : j <= k => P[j] <= P[k]
  <2> DEFINE S == {k \in Nat : j <= k /\ ~(P[j] <= P[k])}
  <2>1. SUFFICES ASSUME S # {} PROVE FALSE
    OBVIOUS
  <2>2. PICK m \in S : \A k \in S : m <= k
    <3>1. S \in SUBSET Nat
      OBVIOUS
    <3> HIDE DEF S
    <3> QED BY <2>1, <3>1, Least
  <2>3. m \in Nat \ {0} /\ m # j /\ j <= m - 1 /\ m - 1 \in Nat /\ m - 1 \notin S
    <3>1. m \in Nat /\ j <= m /\ ~(P[j] <= P[m]) /\ P[j] \in Nat /\ P[m] \in Nat
      BY <1>1, <2>2
    <3>2. m # j
      BY <3>1
    <3> HIDE DEF S
    <3> QED BY <2>2, <3>1, <3>2
  <2>4. P[j] <= P[m - 1] /\ P[m] >= 2 * P[m - 1] /\ P[m - 1] \in Nat /\ P[m] \in Nat /\ P[j] \in Nat
    BY <1>1, <1>2, <2>3
  <2> QED BY <2>2, <2>4
<1>5. \A k \in Nat : P[k] > k
  BY <1>3
<1> QED BY <1>4, <1>5 DEF P

\* A number m is the number of digits of v.
Digited(v, b, m) == m \in Nat \ {0} /\ Power(b)[m] > v /\ (m = 1 \/ Power(b)[m - 1] <= v)

\* Every number has a number of digits, and DigitCount finds it.
LEMMA DigitCountIs ==
  ASSUME NEW b \in Nat, b > 1, NEW v \in Nat
  PROVE  Digited(v, b, DigitCount(v, b))
<1> DEFINE T == {m \in Nat \ {0} : Power(b)[m] > v}
<1>1. Power(b)[v + 1] > v
  <2>1. v + 1 \in Nat
    OBVIOUS
  <2>2. Power(b)[v + 1] > v + 1 /\ Power(b)[v + 1] \in Nat
    BY <2>1, PowerGrows, PowerIs
  <2> QED BY <2>2
<1>2. PICK m \in T : \A k \in T : m <= k
  <2>1. T \in SUBSET Nat /\ v + 1 \in T
    BY <1>1
  <2> HIDE DEF T
  <2> QED BY <2>1, Least
<1>3. m = 1 \/ Power(b)[m - 1] <= v
  <2>1. SUFFICES ASSUME m # 1 PROVE Power(b)[m - 1] <= v
    OBVIOUS
  <2>2. m - 1 \in Nat \ {0} /\ ~(m <= m - 1)
    BY <1>2, <2>1
  <2>3. Power(b)[m - 1] \in Nat
    BY <2>2, PowerIs
  <2> QED BY <1>2, <2>2, <2>3
<1>4. m \in 1..(v + 1)
  BY <1>1, <1>2
<1> DEFINE Q(k) == Power(b)[k] > v /\ (k = 1 \/ Power(b)[k - 1] <= v)
<1>5. Q(m)
  BY <1>2, <1>3
<1> HIDE DEF Q
<1>6. (CHOOSE k \in 1..(v + 1) : Q(k)) \in 1..(v + 1) /\ Q(CHOOSE k \in 1..(v + 1) : Q(k))
  BY <1>4, <1>5, Zenon
<1>7. DigitCount(v, b) \in 1..(v + 1) /\ Q(DigitCount(v, b))
  BY <1>6, Zenon DEF DigitCount, Q
<1> QED BY <1>7 DEF Q, Digited

\* It is the only one.
LEMMA DigitCountOnly ==
  ASSUME NEW b \in Nat, b > 1, NEW v \in Nat, NEW m, Digited(v, b, m)
  PROVE  DigitCount(v, b) = m
<1>1. ASSUME NEW h, NEW j, Digited(v, b, h), Digited(v, b, j) PROVE ~(h < j)
  <2>1. SUFFICES ASSUME h < j PROVE FALSE
    OBVIOUS
  <2>2. h \in Nat /\ j \in Nat /\ j # 1 /\ j - 1 \in Nat /\ h <= j - 1
    BY <1>1, <2>1 DEF Digited
  <2>3. Power(b)[h] <= Power(b)[j - 1] /\ Power(b)[h] \in Nat /\ Power(b)[j - 1] \in Nat
    BY <2>2, PowerGrows, PowerIs
  <2> QED BY <1>1, <2>2, <2>3 DEF Digited
<1>2. Digited(v, b, DigitCount(v, b))
  BY DigitCountIs
<1>3. m \in Nat /\ DigitCount(v, b) \in Nat
  BY <1>2 DEF Digited
<1>4. ~(m < DigitCount(v, b)) /\ ~(DigitCount(v, b) < m)
  BY <1>1, <1>2, Zenon
<1> QED BY <1>3, <1>4

\* A digit below ten is one to IsDigit and Value, and all sixteen are characters.
LEMMA DigitCharacter ==
  /\ \A x \in 0..15 : Digit(x) \in Character
  /\ \A x \in 0..9 : IsDigit(Digit(x)) /\ Value(Digit(x)) = x
<1>1. ASSUME NEW x \in 0..9 PROVE IsDigit(Digit(x)) /\ Value(Digit(x)) = x /\ Digit(x) \in Character
  <2>1. \A y \in 0..9 : Digit(y) = Digit(x) => y = x
    BY DEF Digit
  <2>2. IsDigit(Digit(x)) /\ Digit(x) \in Character
    BY DEF IsDigit, Character
  <2>3. Value(Digit(x)) \in 0..9 /\ Digit(Value(Digit(x))) = Digit(x)
    BY Zenon DEF Value
  <2> QED BY <2>1, <2>2, <2>3, Zenon
<1>2. ASSUME NEW x \in 10..15 PROVE Digit(x) \in Character
  <2>1. x \in {10, 11, 12, 13, 14, 15}
    OBVIOUS
  <2>2. Digit(x) \in {"a", "b", "c", "d", "e", "f"}
    BY <2>1 DEF Digit
  <2>3. {"a", "b", "e", "f"} \subseteq Others /\ {"c", "d"} \subseteq Cases
    BY PrintfAssumption DEF Cases
  <2> QED BY <2>2, <2>3 DEF Character
<1>3. \A x \in 0..15 : x \in 0..9 \/ x \in 10..15
  OBVIOUS
<1> QED BY <1>1, <1>2, <1>3

\* A numeral as a sequence of characters.
LEMMA PositionalIs ==
  ASSUME NEW b \in 2..16, NEW v \in Nat
  PROVE  /\ DigitCount(v, b) \in Nat \ {0}
         /\ Positional(v, b) \in Seq(Character)
         /\ Len(Positional(v, b)) = DigitCount(v, b)
         /\ \A j \in 1..DigitCount(v, b) :
              Positional(v, b)[j] = Digit((v \div Power(b)[DigitCount(v, b) - j]) % b)
<1> DEFINE m == DigitCount(v, b)
<1>0. b \in Nat /\ b > 1
  OBVIOUS
<1>1. m \in Nat \ {0}
  BY <1>0, DigitCountIs DEF Digited
<1> HIDE DEF m
<1>2. ASSUME NEW j \in 1..m PROVE Digit((v \div Power(b)[m - j]) % b) \in Character
  <2>1. m - j \in Nat
    BY <1>1
  <2>2. Power(b)[m - j] \in Nat \ {0}
    BY <1>0, <2>1, PowerIs
  <2>3. v \div Power(b)[m - j] \in Nat
    BY <2>2
  <2>4. \A x \in Nat : x % b \in 0..15
    BY <1>0
  <2> QED BY <2>3, <2>4, DigitCharacter
<1>3. Positional(v, b) = [j \in 1..m |-> Digit((v \div Power(b)[m - j]) % b)]
  BY DEF Positional, m
<1>4. Positional(v, b) \in [1..m -> Character]
  BY <1>2, <1>3
<1>5. Positional(v, b) \in Seq(Character) /\ Len(Positional(v, b)) = m
  BY <1>1, <1>4
<1>6. \A j \in 1..m : Positional(v, b)[j] = Digit((v \div Power(b)[m - j]) % b)
  BY <1>3
<1> QED BY <1>1, <1>5, <1>6 DEF m

\* A number has one digit more than its quotient by the base.
LEMMA DigitCountStep ==
  ASSUME NEW b \in 2..16, NEW v \in Nat
  PROVE  DigitCount(v, b) = IF v < b THEN 1 ELSE DigitCount(v \div b, b) + 1
<1>0. b \in Nat /\ b > 1 /\ 0 \in Nat /\ 1 \in Nat
  OBVIOUS
<1> DEFINE P == Power(b)
<1>1. P[0] = 1 /\ P[1] = b
  <2>1. P[0 + 1] = b * P[0] /\ P[0] = 1
    BY <1>0, PowerIs
  <2> QED BY <2>1
<1>2. CASE v < b
  <2>1. Digited(v, b, 1)
    BY <1>1, <1>2 DEF Digited
  <2> QED BY <1>0, <1>2, <2>1, DigitCountOnly
<1>3. CASE ~(v < b)
  <2> DEFINE u == v \div b
             m == DigitCount(u, b)
  <2>1. u \in Nat /\ b * u <= v /\ v < b * u + b
    BY <1>0
  <2> HIDE DEF u
  <2>2. Digited(u, b, m)
    BY <1>0, <2>1, DigitCountIs
  <2> HIDE DEF m
  <2>3. m \in Nat \ {0} /\ P[m] > u /\ (m = 1 \/ P[m - 1] <= u)
    BY <2>2 DEF Digited
  <2>4. P[m + 1] = b * P[m] /\ P[m] \in Nat
    BY <1>0, <2>3, PowerIs
  <2>t. \A x, y \in Nat : x <= y => b * x <= b * y
    BY <1>0
  <2>5. P[m + 1] > v
    <3>1. b * (u + 1) <= b * P[m]
      BY <2>1, <2>3, <2>4, <2>t
    <3>2. b * (u + 1) = b * u + b /\ b * u \in Nat /\ b * P[m] \in Nat
      BY <1>0, <2>1, <2>4
    <3> HIDE DEF P
    <3> QED BY <1>0, <2>1, <2>4, <3>1, <3>2
  <2>6. P[m] <= v
    <3>1. CASE m = 1
      BY <1>1, <1>3, <3>1
    <3>2. CASE m # 1
      <4>1. m - 1 \in Nat /\ P[m - 1] <= u /\ (m - 1) + 1 = m
        BY <2>3, <3>2
      <4>2. P[(m - 1) + 1] = b * P[m - 1] /\ P[m - 1] \in Nat
        BY <1>0, <4>1, PowerIs
      <4>3. b * P[m - 1] <= b * u
        BY <2>1, <2>t, <4>1, <4>2
      <4> HIDE DEF P
      <4> QED BY <1>0, <2>1, <2>4, <4>1, <4>2, <4>3
    <3> QED BY <3>1, <3>2
  <2>7. Digited(v, b, m + 1)
    <3>1. m + 1 \in Nat \ {0} /\ (m + 1) - 1 = m
      BY <2>3
    <3> QED BY <2>5, <2>6, <3>1 DEF Digited
  <2>8. DigitCount(v, b) = m + 1
    BY <1>0, <2>7, DigitCountOnly
  <2> QED BY <1>3, <2>8 DEF m, u
<1> QED BY <1>2, <1>3

\* One digit more is one step of the loop of printnum.
LEMMA PositionalStep ==
  ASSUME NEW b \in 2..16, NEW v \in Nat
  PROVE  Positional(v, b) = IF v < b THEN <<Digit(v)>>
                            ELSE Append(Positional(v \div b, b), Digit(v % b))
<1>0. b \in Nat /\ b > 1 /\ v % b \in 0..15 /\ v \div b \in Nat /\ v \div 1 = v
  OBVIOUS
<1> DEFINE P == Power(b)
<1>1. P[0] = 1 /\ \A k \in Nat : P[k] \in Nat \ {0} /\ P[k + 1] = b * P[k]
  BY <1>0, PowerIs
<1> HIDE DEF P
<1>2. CASE v < b
  <2>1. DigitCount(v, b) = 1
    BY <1>2, DigitCountStep
  <2>2. Positional(v, b)[1] = Digit(v) /\ Len(Positional(v, b)) = 1 /\ Positional(v, b) \in Seq(Character)
    <3>1. 1 \in 1..1 /\ 1 - 1 = 0
      OBVIOUS
    <3>p. \A j \in 1..DigitCount(v, b) :
            Positional(v, b)[j] = Digit((v \div P[DigitCount(v, b) - j]) % b)
      BY PositionalIs DEF P
    <3>2. Positional(v, b)[1] = Digit((v \div P[0]) % b)
      BY <2>1, <3>1, <3>p
    <3>3. v % b = v
      BY <1>0, <1>2
    <3> QED BY <1>0, <1>1, <2>1, <3>2, <3>3, PositionalIs
  <2> QED BY <1>2, <2>2
<1>3. CASE ~(v < b)
  <2> DEFINE u == v \div b
             m == DigitCount(u, b)
             s == Positional(v, b)
             t == Positional(u, b)
             d == Digit(v % b)
  <2>1. DigitCount(v, b) = m + 1 /\ u \in Nat
    BY <1>0, <1>3, DigitCountStep
  <2>2. /\ m \in Nat \ {0} /\ t \in Seq(Character) /\ Len(t) = m
        /\ \A j \in 1..m : t[j] = Digit((u \div P[m - j]) % b)
    BY <2>1, PositionalIs DEF P
  <2>3. /\ s \in Seq(Character) /\ Len(s) = m + 1
        /\ \A j \in 1..(m + 1) : s[j] = Digit((v \div P[(m + 1) - j]) % b)
    BY <2>1, PositionalIs DEF P
  <2>4. d \in Character
    BY <1>0, DigitCharacter
  <2>5. \A j \in 1..m : u \div P[m - j] = v \div P[(m + 1) - j]
    <3> TAKE j \in 1..m
    <3>1. m - j \in Nat /\ (m + 1) - j = (m - j) + 1
      BY <2>2
    <3>2. P[m - j] \in Nat /\ P[m - j] > 0 /\ P[(m - j) + 1] = b * P[m - j]
      BY <1>1, <3>1
    <3>3. (v \div b) \div P[m - j] = v \div (b * P[m - j])
      BY <1>0, <3>2, DivDiv
    <3> QED BY <3>1, <3>2, <3>3
  <2>6. s[m + 1] = d
    <3>1. m + 1 \in 1..(m + 1) /\ (m + 1) - (m + 1) = 0
      BY <2>2
    <3>2. s[m + 1] = Digit((v \div P[(m + 1) - (m + 1)]) % b)
      BY <2>3, <3>1
    <3> QED BY <1>0, <1>1, <3>1, <3>2
  <2>h. v \div b = u /\ Positional(v, b) = s /\ Positional(u, b) = t /\ Digit(v % b) = d
    OBVIOUS
  <2> HIDE DEF u, m, s, t, d
  <2>7. Append(t, d) \in Seq(Character) /\ Len(Append(t, d)) = m + 1 /\ Append(t, d)[m + 1] = d
        /\ \A j \in 1..m : Append(t, d)[j] = t[j]
    BY <2>2, <2>4, AppendProperties
  <2>8. \A j \in 1..m : s[j] = t[j]
    <3> TAKE j \in 1..m
    <3>1. j \in 1..(m + 1)
      BY <2>2
    <3> QED BY <2>2, <2>3, <2>5, <3>1
  <2>9. \A j \in 1..(m + 1) : s[j] = Append(t, d)[j]
    BY <2>2, <2>6, <2>7, <2>8
  <2>10. s = Append(t, d)
    BY <2>3, <2>7, <2>9, SeqEqual
  <2> QED BY <1>3, <2>10, <2>h
<1> QED BY <1>2, <1>3

\* printnum finds the digits from the last one on, and puts out the numeral whose digits
\* stand for the powers of the base, in any base and for any number.
THEOREM DigitsIs ==
  ASSUME NEW b \in 2..16, NEW v \in Nat
  PROVE  Digits(v, b) = Positional(v, b)
<1> DEFINE h == [n \in 0..v |-> Positional(n, b)]
           Eqn(f) == f = [n \in 0..v |-> IF n < b THEN <<Digit(n)>>
                                         ELSE Append(f[n \div b], Digit(n % b))]
<1>1. \A n \in 0..v : n \div b \in 0..v /\ (n >= b => n \div b < n)
  OBVIOUS
<1>2. \A n \in 0..v : h[n] = IF n < b THEN <<Digit(n)>> ELSE Append(h[n \div b], Digit(n % b))
  <2> TAKE n \in 0..v
  <2>1. h[n] = Positional(n, b) /\ h[n \div b] = Positional(n \div b, b) /\ n \in Nat
    BY <1>1
  <2> QED BY <2>1, PositionalStep
<1>3. Eqn(h)
  <2>1. h = [n \in 0..v |-> h[n]]
    OBVIOUS
  <2> HIDE DEF h
  <2> QED BY <1>2, <2>1
<1> DEFINE digs == CHOOSE f : Eqn(f)
<1>4. Eqn(digs)
  <2> HIDE DEF h, Eqn
  <2> QED BY <1>3, Zenon
<1>5. Digits(v, b) = digs[v]
  BY Zenon DEF Digits
<1> HIDE DEF digs
<1>6. \A n \in 0..v : digs[n] = IF n < b THEN <<Digit(n)>> ELSE Append(digs[n \div b], Digit(n % b))
  BY <1>4
<1> DEFINE T == {n \in 0..v : digs[n] # Positional(n, b)}
<1>7. T = {}
  <2>1. SUFFICES ASSUME T # {} PROVE FALSE
    OBVIOUS
  <2>2. PICK n \in T : \A k \in T : n <= k
    <3>1. T \in SUBSET Nat
      OBVIOUS
    <3> HIDE DEF T
    <3> QED BY <2>1, <3>1, Least
  <2>3. n \in 0..v /\ n \in Nat /\ digs[n] # Positional(n, b)
    BY <2>2
  <2>4. n >= b => digs[n \div b] = Positional(n \div b, b)
    <3>1. n >= b => n \div b \in 0..v /\ n \div b < n
      BY <1>1, <2>3
    <3>2. n >= b => n \div b \notin T
      <4> HIDE DEF T
      <4> QED BY <2>2, <2>3, <3>1
    <3> QED BY <3>1, <3>2
  <2>5. Positional(n, b) = IF n < b THEN <<Digit(n)>> ELSE Append(Positional(n \div b, b), Digit(n % b))
    BY <2>3, PositionalStep
  <2>6. digs[n] = IF n < b THEN <<Digit(n)>> ELSE Append(digs[n \div b], Digit(n % b))
    BY <1>6, <2>3
  <2>7. n < b \/ n >= b
    BY <2>3
  <2> QED BY <2>3, <2>4, <2>5, <2>6, <2>7
<1>8. v \in 0..v
  OBVIOUS
<1> QED BY <1>5, <1>7, <1>8

\* The number read off the digits of a numeral in the format is that number.
LEMMA NumberRead ==
  ASSUME NEW v \in Nat, p \in Nat,
         \A j \in 1..DigitCount(v, 10) : fmt[p + j - 1] = Positional(v, 10)[j]
  PROVE  NumberTo(p + DigitCount(v, 10) - 1) = v
<1> DEFINE m == DigitCount(v, 10)
           P == Power(10)
           at(x) == v \div P[m - (x - p + 1)]
           e == p + m - 1
           h == [x \in (p - 1)..e |-> at(x)]
           Eqn(f) == f = [x \in (p - 1)..e |-> IF x = p - 1 THEN 0 ELSE f[x - 1] * 10 + Value(fmt[x])]
<1>1. m \in Nat \ {0} /\ \A j \in 1..m : fmt[p + j - 1] = Digit((v \div P[m - j]) % 10)
  BY PositionalIs
<1>2. P[0] = 1 /\ P[m] > v /\ \A k \in Nat : P[k] \in Nat \ {0} /\ P[k + 1] = 10 * P[k]
  <2>1. 10 \in Nat /\ 10 > 1
    OBVIOUS
  <2>2. P \in [Nat -> Nat \ {0}] /\ P[0] = 1 /\ \A k \in Nat : P[k + 1] = 10 * P[k]
    BY <2>1, PowerIs
  <2>3. P[m] > v
    BY <2>1, DigitCountIs DEF Digited
  <2> QED BY <2>2, <2>3
<1> HIDE DEF m, P
<1>3. at(p - 1) = 0
  <2>1. (p - 1) - p + 1 = 0 /\ m - 0 = m
    BY <1>1
  <2>2. P[m] \in Nat /\ P[m] > 0
    BY <1>1, <1>2
  <2>3. v \div P[m] = 0
    <3> DEFINE c == P[m]
    <3>1. c \in Nat /\ c > 0 /\ v < c
      BY <1>2, <2>2
    <3> HIDE DEF c
    <3>2. 0 * c <= v /\ v < 0 * c + c
      BY <3>1
    <3>3. v \div c = 0
      BY <3>1, <3>2, Quotient
    <3> QED BY <3>3 DEF c
  <2> QED BY <2>1, <2>3
<1>4. ASSUME NEW x \in p..e PROVE at(x) = at(x - 1) * 10 + Value(fmt[x]) /\ at(x) \in Nat
  <2> DEFINE j == x - p + 1
             u == v \div P[m - j]
  <2>1. j \in 1..m /\ x = p + j - 1 /\ m - j \in Nat /\ m - ((x - 1) - p + 1) = (m - j) + 1
    BY <1>1
  <2>2. P[m - j] \in Nat /\ P[m - j] > 0 /\ P[(m - j) + 1] = 10 * P[m - j]
    BY <1>2, <2>1
  <2>3. u \in Nat /\ at(x - 1) = u \div 10
    <3> DEFINE c == P[m - j]
    <3>1. c \in Nat /\ c > 0 /\ P[(m - j) + 1] = 10 * c
      BY <2>2
    <3> HIDE DEF c
    <3>2. v \div c \in Nat /\ (v \div c) \div 10 = v \div (10 * c)
      BY <3>1, DivDiv
    <3>3. at(x - 1) = v \div (10 * c)
      BY <2>1, <3>1
    <3> QED BY <3>2, <3>3 DEF c
  <2>4. fmt[x] = Digit(u % 10)
    BY <1>1, <2>1
  <2> HIDE DEF u
  <2>5. Value(fmt[x]) = u % 10
    <3>1. u % 10 \in 0..9
      BY <2>3
    <3> QED BY <2>4, <3>1, DigitCharacter
  <2>6. u = (u \div 10) * 10 + (u % 10)
    <3>1. \A y \in Nat : y = (y \div 10) * 10 + (y % 10)
      OBVIOUS
    <3> QED BY <2>3, <3>1, Zenon
  <2>7. at(x) = u
    BY DEF u
  <2> HIDE DEF at
  <2> QED BY <2>3, <2>5, <2>6, <2>7
<1>5. Eqn(h)
  <2>1. \A x \in (p - 1)..e : at(x) = IF x = p - 1 THEN 0 ELSE h[x - 1] * 10 + Value(fmt[x])
    <3> TAKE x \in (p - 1)..e
    <3>1. x # p - 1 => x \in p..e /\ x - 1 \in (p - 1)..e
      BY <1>1
    <3>2. x # p - 1 => h[x - 1] = at(x - 1)
      BY <3>1
    <3> HIDE DEF h, at, e
    <3> QED BY <1>3, <1>4, <3>1, <3>2
  <2> HIDE DEF at
  <2> QED BY <2>1
<1> DEFINE number == CHOOSE f : Eqn(f)
<1>6. Eqn(number)
  <2> HIDE DEF h, Eqn
  <2> QED BY <1>5, Zenon
<1>7. NumberTo(e) = number[e]
  BY Zenon DEF NumberTo
<1> HIDE DEF number
<1>8. \A x \in (p - 1)..e : number[x] = IF x = p - 1 THEN 0 ELSE number[x - 1] * 10 + Value(fmt[x])
  <2> HIDE DEF e
  <2> QED BY <1>6
<1> HIDE DEF h, Eqn, at
<1> DEFINE T == {k \in 0..m : number[p - 1 + k] # at(p - 1 + k)}
<1>9. T = {}
  <2>1. SUFFICES ASSUME T # {} PROVE FALSE
    OBVIOUS
  <2>2. PICK k \in T : \A n \in T : k <= n
    <3>1. T \in SUBSET Nat
      BY <1>1
    <3> HIDE DEF T
    <3> QED BY <2>1, <3>1, Least
  <2> DEFINE x == p - 1 + k
  <2>3. k \in 0..m /\ k \in Nat /\ x \in (p - 1)..e /\ number[x] # at(x)
    BY <1>1, <2>2
  <2>4. k # 0
    <3>1. p - 1 + 0 = p - 1
      OBVIOUS
    <3> HIDE DEF e
    <3> QED BY <1>3, <1>8, <2>3, <3>1
  <2>5. k - 1 \in 0..m /\ p - 1 + (k - 1) = x - 1 /\ x \in p..e /\ x # p - 1
    BY <1>1, <2>3, <2>4
  <2>6. number[x - 1] = at(x - 1)
    BY <2>2, <2>3, <2>5
  <2> HIDE DEF x, e, T
  <2> QED BY <1>4, <1>8, <2>3, <2>5, <2>6
<1>10. m \in 0..m /\ p - 1 + m = e /\ m - (e - p + 1) = 0
  BY <1>1
<1>11. at(e) = v
  <2>1. v \div 1 = v
    OBVIOUS
  <2> QED BY <1>2, <1>10, <2>1 DEF at
<1>12. number[e] = v
  BY <1>9, <1>10, <1>11
<1> QED BY <1>7, <1>12 DEF m

\* The digits of a numeral in the format end where the numeral does.
LEMMA RunEndIs ==
  ASSUME p \in Nat, NEW e \in p..(Len(fmt) + 1), Len(fmt) \in Nat, \A j \in p..(e - 1) : IsDigit(fmt[j]),
         e = Len(fmt) + 1 \/ ~IsDigit(fmt[e])
  PROVE  RunEnd = e
<1> DEFINE Q(x) == (\A j \in p..(x - 1) : IsDigit(fmt[j])) /\ (x = Len(fmt) + 1 \/ ~IsDigit(fmt[x]))
<1>1. Q(e)
  OBVIOUS
<1>2. ASSUME NEW x \in p..(Len(fmt) + 1), Q(x) PROVE x = e
  <2>1. x < e => x \in p..(e - 1) /\ x # Len(fmt) + 1
    OBVIOUS
  <2>2. e < x => e \in p..(x - 1) /\ e # Len(fmt) + 1
    OBVIOUS
  <2> QED BY <1>2, <2>1, <2>2
<1> HIDE DEF Q
<1>3. (CHOOSE x \in p..(Len(fmt) + 1) : Q(x)) = e
  BY <1>1, <1>2
<1> QED BY <1>3 DEF RunEnd, Q

\* A numeral is a sequence of digits, and the first is not 0 unless it is the only one.
LEMMA NumeralDigits ==
  ASSUME NEW v \in Nat
  PROVE  /\ \A j \in 1..DigitCount(v, 10) : IsDigit(Positional(v, 10)[j])
         /\ v > 0 => Positional(v, 10)[1] # "0"
<1> DEFINE m == DigitCount(v, 10)
           P == Power(10)
<1>1. m \in Nat \ {0} /\ \A j \in 1..m : Positional(v, 10)[j] = Digit((v \div P[m - j]) % 10)
  BY PositionalIs
<1>2. P[m] > v /\ (m = 1 \/ P[m - 1] <= v) /\ P[0] = 1 /\ \A k \in Nat : P[k] \in Nat \ {0} /\ P[k + 1] = 10 * P[k]
  BY PowerIs, DigitCountIs DEF Digited
<1> HIDE DEF m, P
<1>3. ASSUME NEW j \in 1..m PROVE IsDigit(Positional(v, 10)[j])
  <2>1. m - j \in Nat
    BY <1>1
  <2>2. P[m - j] \in Nat \ {0}
    BY <1>2, <2>1
  <2>3. v \div P[m - j] \in Nat
    BY <2>2
  <2>4. (v \div P[m - j]) % 10 \in 0..9
    BY <2>3
  <2> QED BY <1>1, <2>4, DigitCharacter
<1>4. ASSUME v > 0 PROVE Positional(v, 10)[1] # "0"
  <2> DEFINE c == P[m - 1]
             q == v \div c
  <2>1. m - 1 \in Nat /\ (m - 1) + 1 = m
    BY <1>1
  <2>2. c \in Nat \ {0} /\ P[m] = 10 * c
    BY <1>2, <2>1
  <2>3. c <= v
    BY <1>1, <1>2, <1>4, <2>1
  <2> HIDE DEF c
  <2>4. q \in Nat /\ c * q <= v /\ v < c * q + c
    BY <2>2
  <2> HIDE DEF q
  <2>5. q # 0
    BY <2>2, <2>3, <2>4
  <2>6. q < 10
    <3>1. SUFFICES ASSUME q >= 10 PROVE FALSE
      BY <2>4
    <3>2. \A x, y \in Nat : x <= y => c * x <= c * y
      BY <2>2
    <3>3. c * 10 <= c * q
      BY <2>4, <3>1, <3>2
    <3>4. c * q \in Nat
      BY <2>2, <2>4
    <3> QED BY <1>2, <2>2, <2>4, <3>3, <3>4
  <2>7. Positional(v, 10)[1] = Digit(q % 10)
    <3>1. 1 \in 1..m
      BY <1>1
    <3> QED BY <1>1, <3>1 DEF q, c
  <2>8. q % 10 = q /\ q \in 1..9
    BY <2>4, <2>5, <2>6
  <2>9. \A x \in 1..9 : Digit(x) # "0"
    BY DEF Digit
  <2> QED BY <2>7, <2>8, <2>9
<1> QED BY <1>3, <1>4 DEF m

--------------------------------------------------------------------------------
(* Formats, arguments and output, one directive after the other.               *)

Flat(s) == CHOOSE f : f = [h \in 1..Len(s) |-> IF h = 1 THEN s[h] ELSE f[h - 1] \o s[h]]

\* The first k of the sequences of s, one after the other.
Upto(s, k) == IF k = 0 THEN <<>> ELSE Flat(s)[k]

\* FlattenSeq goes through the sequences one by one.
LEMMA UptoIs ==
  ASSUME NEW C, NEW s \in Seq(Seq(C))
  PROVE  /\ FlattenSeq(s) = Upto(s, Len(s)) /\ Upto(s, 0) = <<>>
         /\ \A k \in 0..Len(s) : Upto(s, k) \in Seq(C)
         /\ \A k \in 1..Len(s) : Upto(s, k) = Upto(s, k - 1) \o s[k]
<1> DEFINE Eqn(f) == f = [k \in 1..Len(s) |-> IF k = 1 THEN s[k] ELSE f[k - 1] \o s[k]]
           Solved(n) == \E f \in [1..n -> Seq(C)] :
                          \A k \in 1..n : f[k] = IF k = 1 THEN s[k] ELSE f[k - 1] \o s[k]
           T == {n \in 0..Len(s) : ~Solved(n)}
<1>1. Len(s) \in Nat /\ \A k \in 1..Len(s) : s[k] \in Seq(C)
  OBVIOUS
<1>c. \A u, v \in Seq(C) : u \o v \in Seq(C)
  OBVIOUS
<1>2. Solved(0)
  <2>1. \A f : \A k \in 1..0 : f[k] = IF k = 1 THEN s[k] ELSE f[k - 1] \o s[k]
    OBVIOUS
  <2>2. [k \in 1..0 |-> <<>>] \in [1..0 -> Seq(C)]
    OBVIOUS
  <2> QED BY <2>1, <2>2
<1>3. ASSUME NEW n \in 1..Len(s), Solved(n - 1)
      PROVE  Solved(n)
  <2>1. PICK f \in [1..(n - 1) -> Seq(C)] :
          \A k \in 1..(n - 1) : f[k] = IF k = 1 THEN s[k] ELSE f[k - 1] \o s[k]
    BY <1>3
  <2> DEFINE last == IF n = 1 THEN s[n] ELSE f[n - 1] \o s[n]
             g == [k \in 1..n |-> IF k = n THEN last ELSE f[k]]
  <2>2. last \in Seq(C)
    <3>1. n # 1 => n - 1 \in 1..(n - 1)
      OBVIOUS
    <3>2. n # 1 => f[n - 1] \in Seq(C)
      BY <2>1, <3>1
    <3> QED BY <1>1, <1>c, <3>2
  <2>3. g[n] = last /\ (n # 1 => g[n - 1] = f[n - 1])
    OBVIOUS
  <2> HIDE DEF last
  <2>4. g \in [1..n -> Seq(C)]
    BY <2>2
  <2>5. \A k \in 1..(n - 1) : g[k] = f[k] /\ (k # 1 => g[k - 1] = f[k - 1])
    OBVIOUS
  <2> HIDE DEF g
  <2>6. ASSUME NEW k \in 1..n PROVE g[k] = IF k = 1 THEN s[k] ELSE g[k - 1] \o s[k]
    <3>1. CASE k = n
      BY <2>3, <3>1 DEF last
    <3>2. CASE k # n
      <4>1. k \in 1..(n - 1)
        BY <3>2
      <4> QED BY <2>1, <2>5, <4>1
    <3> QED BY <3>1, <3>2
  <2> QED BY <2>4, <2>6
<1>4. T = {}
  <2> HIDE DEF Solved
  <2>1. SUFFICES ASSUME T # {} PROVE FALSE
    OBVIOUS
  <2>2. PICK m \in T : \A k \in T : m <= k
    <3>1. T \in SUBSET Nat
      BY <1>1
    <3> HIDE DEF T
    <3> QED BY <2>1, <3>1, Least
  <2>3. m \in 1..Len(s) /\ m - 1 \notin T /\ m - 1 \in 0..Len(s)
    BY <1>1, <1>2, <2>2
  <2> QED BY <1>3, <2>2, <2>3
<1>5. PICK f \in [1..Len(s) -> Seq(C)] :
        \A k \in 1..Len(s) : f[k] = IF k = 1 THEN s[k] ELSE f[k - 1] \o s[k]
  <2>1. Len(s) \in 0..Len(s)
    BY <1>1
  <2>2. Solved(Len(s))
    <3> HIDE DEF Solved
    <3> QED BY <1>4, <2>1
  <2> QED BY <2>2
<1>6. Eqn(f)
  BY <1>5
<1>7. Eqn(Flat(s))
  <2> HIDE DEF Eqn
  <2>1. Eqn(CHOOSE g : Eqn(g))
    BY <1>6, Zenon
  <2> USE DEF Eqn
  <2> QED BY <2>1, Zenon DEF Flat
<1>8. \A k \in 1..Len(s) : Flat(s)[k] = IF k = 1 THEN s[k] ELSE Flat(s)[k - 1] \o s[k]
  BY <1>7
<1> HIDE DEF Eqn, Solved, T
<1> DEFINE S == {k \in 0..Len(s) : Upto(s, k) \notin Seq(C)}
<1>9. \A k \in 1..Len(s) : Upto(s, k) = Upto(s, k - 1) \o s[k]
  <2> TAKE k \in 1..Len(s)
  <2>1. CASE k = 1
    <3>1. s[1] = <<>> \o s[1]
      <4>1. s[1] \in Seq(C)
        BY <1>1, <2>1
      <4> QED BY <4>1, ConcatEmptySeq
    <3>2. Upto(s, 1) = s[1] /\ Upto(s, 1 - 1) = <<>>
      BY <1>8, <2>1 DEF Upto
    <3> QED BY <2>1, <3>1, <3>2
  <2>2. CASE k # 1
    <3>1. k # 0 /\ k - 1 # 0
      BY <2>2
    <3> QED BY <1>8, <2>2, <3>1 DEF Upto
  <2> QED BY <2>1, <2>2
<1>10. Upto(s, 0) = <<>>
  BY DEF Upto
<1>11. S = {}
  <2>1. SUFFICES ASSUME S # {} PROVE FALSE
    OBVIOUS
  <2>2. PICK m \in S : \A k \in S : m <= k
    <3>1. S \in SUBSET Nat
      BY <1>1
    <3> HIDE DEF S
    <3> QED BY <2>1, <3>1, Least
  <2>e. <<>> \in Seq(C)
    OBVIOUS
  <2>m. m \in 0..Len(s) /\ Upto(s, m) \notin Seq(C)
    BY <2>2
  <2>z. m # 0
    BY <1>10, <2>m, <2>e
  <2>3. m \in 1..Len(s) /\ m - 1 \notin S /\ m - 1 \in 0..Len(s)
    <3> HIDE DEF S
    <3> QED BY <1>1, <2>2, <2>m, <2>z
  <2>4. Upto(s, m - 1) \in Seq(C) /\ s[m] \in Seq(C)
    BY <1>1, <2>3
  <2>5. Upto(s, m) = Upto(s, m - 1) \o s[m]
    BY <1>9, <2>3
  <2> QED BY <1>c, <2>m, <2>4, <2>5
<1>12. FlattenSeq(s) = Upto(s, Len(s))
  <2>1. CASE Len(s) = 0
    <3>1. s = <<>>
      BY <2>1
    <3> QED BY <2>1, <3>1, Zenon DEF FlattenSeq, Upto
  <2>2. CASE Len(s) # 0
    <3>1. FlattenSeq(s) = Flat(s)[Len(s)]
      BY <2>2 DEF FlattenSeq, Flat
    <3> QED BY <2>2, <3>1 DEF Upto
  <2> QED BY <2>1, <2>2
<1> QED BY <1>9, <1>10, <1>11, <1>12

\* Where the k-th sequence lies in the whole.
LEMMA Located ==
  ASSUME NEW C, NEW s \in Seq(Seq(C)), NEW k \in 1..Len(s)
  PROVE  /\ Len(Upto(s, k - 1)) \in Nat
         /\ Len(Upto(s, k)) = Len(Upto(s, k - 1)) + Len(s[k])
         /\ Len(Upto(s, k)) <= Len(FlattenSeq(s))
         /\ \A q \in 1..Len(s[k]) : FlattenSeq(s)[Len(Upto(s, k - 1)) + q] = s[k][q]
<1> DEFINE n == Len(s)
           U == [j \in 0..n |-> Upto(s, j)]
<1>0. /\ n \in Nat /\ k \in 1..n /\ n \in 0..n /\ k \in 0..n
      /\ \A j \in 1..n : s[j] \in Seq(C) /\ j - 1 \in 0..n /\ j \in 0..n
  OBVIOUS
<1>1. /\ FlattenSeq(s) = U[n] /\ U \in [0..n -> Seq(C)]
      /\ \A j \in 1..n : U[j] = U[j - 1] \o s[j]
  <2>1. FlattenSeq(s) = Upto(s, n)
    BY UptoIs
  <2>2. \A j \in 0..n : Upto(s, j) \in Seq(C)
    BY UptoIs, Zenon
  <2>3. \A j \in 1..n : Upto(s, j) = Upto(s, j - 1) \o s[j]
    BY UptoIs, Zenon
  <2> HIDE DEF n
  <2>4. \A j \in 0..n : U[j] = Upto(s, j)
    OBVIOUS
  <2>5. U \in [0..n -> Seq(C)]
    BY <2>2
  <2> HIDE DEF U
  <2> QED BY <1>0, <2>1, <2>3, <2>4, <2>5
<1>u. U[k - 1] = Upto(s, k - 1) /\ U[k] = Upto(s, k)
  BY <1>0
<1> HIDE DEF n, U
<1>2. ASSUME NEW j \in 1..n
      PROVE  /\ Len(U[j - 1]) \in Nat /\ Len(s[j]) \in Nat /\ Len(U[j]) = Len(U[j - 1]) + Len(s[j])
             /\ \A q \in 1..Len(s[j]) : U[j][Len(U[j - 1]) + q] = s[j][q]
             /\ \A x \in 1..Len(U[j - 1]) : U[j][x] = U[j - 1][x]
  <2>1. U[j - 1] \in Seq(C) /\ s[j] \in Seq(C) /\ U[j] = U[j - 1] \o s[j]
    BY <1>0, <1>1
  <2> DEFINE a == U[j - 1]
             b == s[j]
  <2>2. a \in Seq(C) /\ b \in Seq(C)
    BY <2>1
  <2> HIDE DEF a, b
  <2>3. /\ Len(a) \in Nat /\ Len(b) \in Nat /\ Len(a \o b) = Len(a) + Len(b)
        /\ \A q \in 1..Len(b) : (a \o b)[Len(a) + q] = b[q]
        /\ \A x \in 1..Len(a) : (a \o b)[x] = a[x]
    BY <2>2, ConcatProperties
  <2> QED BY <2>1, <2>3 DEF a, b
<1> DEFINE Kept(j) == Len(U[k]) <= Len(U[j]) /\ \A x \in 1..Len(U[k]) : U[j][x] = U[k][x]
           T == {j \in k..n : ~Kept(j)}
<1>3. Len(U[k]) \in Nat /\ Kept(k)
  BY <1>0, <1>1, <1>2
<1>4. ASSUME NEW j \in (k + 1)..n, Kept(j - 1) PROVE Kept(j)
  <2>1. /\ j \in 1..n /\ Len(U[j - 1]) \in Nat /\ Len(s[j]) \in Nat
        /\ Len(U[j]) = Len(U[j - 1]) + Len(s[j])
        /\ \A x \in 1..Len(U[j - 1]) : U[j][x] = U[j - 1][x]
    <3>1. j \in 1..n
      BY <1>0
    <3> QED BY <1>2, <3>1, Zenon
  <2>2. U[k] \in Seq(C) /\ Kept(j - 1)
    BY <1>0, <1>1, <1>4
  <2>3. Len(U[j - 1]) <= Len(U[j]) /\ Len(U[j]) \in Nat
    <3>1. \A a, b \in Nat : a <= a + b /\ a + b \in Nat
      OBVIOUS
    <3> QED BY <2>1, <3>1, Zenon
  <2>t. \A a, b, c \in Nat : a <= b /\ b <= c => a <= c /\ \A x \in 1..a : x \in 1..b
    OBVIOUS
  <2>4. Len(U[k]) <= Len(U[j]) /\ \A x \in 1..Len(U[k]) : x \in 1..Len(U[j - 1])
    BY <1>3, <2>1, <2>2, <2>3, <2>t, Zenon
  <2>5. \A x \in 1..Len(U[k]) : U[j][x] = U[k][x]
    BY <2>1, <2>2, <2>4, Zenon
  <2> QED BY <2>4, <2>5
<1>5. T = {}
  <2> HIDE DEF Kept
  <2>1. SUFFICES ASSUME T # {} PROVE FALSE
    OBVIOUS
  <2>2. PICK m \in T : \A h \in T : m <= h
    <3>1. T \in SUBSET Nat
      BY <1>0
    <3> HIDE DEF T
    <3> QED BY <2>1, <3>1, Least
  <2>3. m \in (k + 1)..n /\ m - 1 \notin T /\ m - 1 \in k..n
    BY <1>0, <1>3, <2>2
  <2> QED BY <1>4, <2>2, <2>3
<1>6. Kept(n)
  <2>1. n \in k..n
    BY <1>0
  <2> HIDE DEF Kept
  <2> QED BY <1>5, <2>1
<1>7. /\ Len(U[k - 1]) \in Nat /\ Len(s[k]) \in Nat /\ Len(U[k]) = Len(U[k - 1]) + Len(s[k])
      /\ \A q \in 1..Len(s[k]) : U[k][Len(U[k - 1]) + q] = s[k][q]
  BY <1>0, <1>1, <1>2
<1>8. \A q \in 1..Len(s[k]) : Len(U[k - 1]) + q \in 1..Len(U[k])
  <2>1. \A a, b \in Nat : \A q \in 1..b : a + q \in 1..(a + b)
    OBVIOUS
  <2> QED BY <1>7, <2>1, Zenon
<1>9. \A q \in 1..Len(s[k]) : U[n][Len(U[k - 1]) + q] = s[k][q]
  BY <1>6, <1>7, <1>8
<1> QED BY <1>0, <1>1, <1>6, <1>7, <1>9, <1>u

\* The format, the arguments and the output, directive by directive.
Formats(ds) == [j \in DOMAIN ds |-> Between \o Render(ds[j])]
Passes(ds) == [j \in DOMAIN ds |-> Passed(ds[j])]
Shown(d) == IF Known(d) THEN Field(d) ELSE Render(d)
Outputs(ds) == [j \in DOMAIN ds |-> Between \o Shown(ds[j])]

\* How much of the format and of the arguments the first k directives are, and what
\* they should have put out.
At(k) == Len(Upto(Formats(asked), k))
Used(k) == Len(Upto(Passes(asked), k))
Due(k) == Upto(Outputs(asked), k)

\* The parts of a directive.
Wide(d) == Len(Written(d.width, d.star))
Precise(d) == IF d.prec = Unset THEN 0 ELSE 1 + Len(Written(d.prec, d.star))
WideArgs(d) == Len(Starred(d.width, d.star))
PreciseArgs(d) == Len(Starred(d.prec, d.star))
Point(d) == IF d.prec = Unset THEN <<>> ELSE <<".">> \o Written(d.prec, d.star)
Pad(d) == IF d.flag = <<>> THEN " " ELSE d.flag[1]
OrZero(n) == IF n = Unset THEN 0 ELSE n

\* Where vprintfmt is: between directives, before the `%' of one, r characters into one
\* it does not know, or n characters after a `%' and t arguments on.
Boundary(k) == <<At(k) + 1, Used(k) + 1, Due(k), NoSpec>>
Opening(k) == <<At(k) + 2, Used(k) + 1, Due(k) \o Between, NoSpec>>
Echoing(k, d, r) ==
  <<At(k) + 2 + r, Used(k) + 1, (Due(k) \o Between) \o SubSeq(Render(d), 1, r), NoSpec>>
Reading(k, n, t, padc, width, precision, lflag) ==
  <<At(k) + 3 + n, Used(k) + 1 + t, Due(k) \o Between,
    [padc |-> padc, width |-> width, precision |-> precision, lflag |-> lflag,
     last_fmt |-> At(k) + 3]>>

\* Inside a directive: what comes next is its flag, its width, its point, its precision,
\* or an l or the conversion, j l's having been read.
AfterFlag(k, d) == Reading(k, Len(d.flag), 0, Pad(d), Unset, Unset, 0)
AfterWidth(k, d) == Reading(k, Len(d.flag) + Wide(d), WideArgs(d), Pad(d), d.width, Unset, 0)
AfterDot(k, d) ==
  Reading(k, Len(d.flag) + Wide(d) + 1, WideArgs(d), Pad(d), OrZero(d.width), Unset, 0)
AfterPrec(k, d, j) ==
  Reading(k, Len(d.flag) + Wide(d) + Precise(d) + j, WideArgs(d) + PreciseArgs(d), Pad(d),
          IF d.prec = Unset THEN d.width ELSE OrZero(d.width), d.prec, j)
Inside(x, k, d) ==
  \/ d.flag # <<>> /\ x = Reading(k, 0, 0, " ", Unset, Unset, 0)
  \/ d.width # Unset /\ x = AfterFlag(k, d)
  \/ d.prec # Unset /\ x = AfterWidth(k, d)
  \/ d.prec # Unset /\ x = AfterDot(k, d)
  \/ \E j \in 0..d.l : x = AfterPrec(k, d, j)

Reached(x, k) ==
  \/ x = Boundary(k)
  \/ /\ k < Len(asked)
     /\ \/ x = Opening(k)
        \/ Inside(x, k, asked[k + 1])
        \/ /\ ~Known(asked[k + 1])
           /\ \E r \in 1..(Len(Render(asked[k + 1])) - 1) : x = Echoing(k, asked[k + 1], r)

place == <<p, ap, out, spec>>
Given == asked \in Seq(Directive) /\ fmt = Format(asked) /\ args = FlattenSeq(Passes(asked))
AllConform == \A j \in DOMAIN asked : Conforms(asked[j])

FmtInv ==
  /\ Given /\ FormatExact
  /\ AllConform /\ written = Unset => \E k \in 0..Len(asked) : Reached(place, k)

\* Two sequences, one after the other.
LEMMA Join ==
  ASSUME NEW C, NEW a \in Seq(C), NEW b \in Seq(C)
  PROVE  /\ a \o b \in Seq(C) /\ Len(a) \in Nat /\ Len(b) \in Nat /\ Len(a \o b) = Len(a) + Len(b)
         /\ \A q \in 1..Len(a) : (a \o b)[q] = a[q]
         /\ \A q \in 1..Len(b) : (a \o b)[Len(a) + q] = b[q]
<1>1. Len(a) \in Nat /\ Len(b) \in Nat
  OBVIOUS
<1>2. a \o b \in Seq(C) /\ Len(a \o b) = Len(a) + Len(b)
      /\ \A h \in 1..(Len(a) + Len(b)) : (a \o b)[h] = IF h <= Len(a) THEN a[h] ELSE b[h - Len(a)]
  BY ConcatProperties
<1>3. \A m, n \in Nat : /\ \A q \in 1..m : q \in 1..(m + n) /\ q <= m
                        /\ \A q \in 1..n : m + q \in 1..(m + n) /\ ~(m + q <= m) /\ (m + q) - m = q
  OBVIOUS
<1>4. \A q \in 1..Len(a) : (a \o b)[q] = a[q]
  BY <1>1, <1>2, <1>3, Zenon
<1>5. \A q \in 1..Len(b) : (a \o b)[Len(a) + q] = b[q]
  <2> TAKE q \in 1..Len(b)
  <2>1. Len(a) + q \in 1..(Len(a) + Len(b)) /\ ~(Len(a) + q <= Len(a)) /\ (Len(a) + q) - Len(a) = q
    BY <1>1, <1>3, Zenon
  <2>2. (a \o b)[Len(a) + q] = IF Len(a) + q <= Len(a) THEN a[Len(a) + q] ELSE b[(Len(a) + q) - Len(a)]
    BY <1>2, <2>1, Zenon
  <2> QED BY <2>1, <2>2
<1> QED BY <1>1, <1>2, <1>4, <1>5

\* The same, with names for the lengths.
LEMMA Extend ==
  ASSUME NEW C, NEW a \in Seq(C), NEW b \in Seq(C), NEW s, s = a \o b,
         NEW h, h = Len(a), NEW j, j = h + Len(b)
  PROVE  /\ s \in Seq(C) /\ Len(s) = j /\ h \in Nat /\ j \in Nat /\ Len(b) \in Nat /\ h <= j
         /\ \A q \in 1..h : s[q] = a[q]
         /\ \A q \in 1..Len(b) : s[h + q] = b[q]
<1>1. \A x, y \in Nat : x + y \in Nat /\ x <= x + y
  OBVIOUS
<1>2. /\ a \o b \in Seq(C) /\ Len(a) \in Nat /\ Len(b) \in Nat /\ Len(a \o b) = Len(a) + Len(b)
      /\ \A q \in 1..Len(a) : (a \o b)[q] = a[q]
      /\ \A q \in 1..Len(b) : (a \o b)[Len(a) + q] = b[q]
  BY Join
<1> QED BY <1>1, <1>2

\* Six sequences, one after the other, and where each of them is in the whole.
Six(C, s, a, b, c, d, e, f, h, j, k, l, m, n) ==
  /\ a \in Seq(C) /\ b \in Seq(C) /\ c \in Seq(C) /\ d \in Seq(C) /\ e \in Seq(C) /\ f \in Seq(C)
  /\ s = a \o b \o c \o d \o e \o f
  /\ h = Len(a) /\ j = h + Len(b) /\ k = j + Len(c) /\ l = k + Len(d)
  /\ m = l + Len(e) /\ n = m + Len(f)

Placed(C, s, a, b, c, d, e, f, h, j, k, l, m, n) ==
  /\ s \in Seq(C) /\ Len(s) = n
  /\ \A q \in 1..h : s[q] = a[q]
  /\ \A q \in 1..Len(b) : s[h + q] = b[q]
  /\ \A q \in 1..Len(c) : s[j + q] = c[q]
  /\ \A q \in 1..Len(d) : s[k + q] = d[q]
  /\ \A q \in 1..Len(e) : s[l + q] = e[q]
  /\ \A q \in 1..Len(f) : s[m + q] = f[q]

\* Each of six sequences is where it should be in the whole.
LEMMA SixPlaced ==
  ASSUME NEW C, NEW s, NEW a, NEW b, NEW c, NEW d, NEW e, NEW f,
         NEW h, NEW j, NEW k, NEW l, NEW m, NEW n, Six(C, s, a, b, c, d, e, f, h, j, k, l, m, n)
  PROVE  Placed(C, s, a, b, c, d, e, f, h, j, k, l, m, n)
<1>0. /\ a \in Seq(C) /\ b \in Seq(C) /\ c \in Seq(C) /\ d \in Seq(C) /\ e \in Seq(C) /\ f \in Seq(C)
      /\ s = a \o b \o c \o d \o e \o f
      /\ h = Len(a) /\ j = h + Len(b) /\ k = j + Len(c) /\ l = k + Len(d)
      /\ m = l + Len(e) /\ n = m + Len(f)
  BY DEF Six
<1>p. PICK ab, ac, ad, ae : ab = a \o b /\ ac = ab \o c /\ ad = ac \o d /\ ae = ad \o e
  OBVIOUS
<1>1. /\ ab \in Seq(C) /\ Len(ab) = j /\ h \in Nat /\ j \in Nat /\ Len(b) \in Nat /\ h <= j
      /\ \A q \in 1..h : ab[q] = a[q]
      /\ \A q \in 1..Len(b) : ab[h + q] = b[q]
  <2>1. a \in Seq(C) /\ b \in Seq(C) /\ h = Len(a) /\ j = h + Len(b) /\ ab = a \o b
    BY <1>0, <1>p
  <2> QED BY <2>1, Extend
<1>2. /\ ac \in Seq(C) /\ Len(ac) = k /\ j \in Nat /\ k \in Nat /\ Len(c) \in Nat /\ j <= k
      /\ \A q \in 1..j : ac[q] = ab[q]
      /\ \A q \in 1..Len(c) : ac[j + q] = c[q]
  <2>1. ab \in Seq(C) /\ c \in Seq(C) /\ j = Len(ab) /\ k = j + Len(c) /\ ac = ab \o c
    BY <1>0, <1>p, <1>1
  <2> QED BY <2>1, Extend
<1>3. /\ ad \in Seq(C) /\ Len(ad) = l /\ k \in Nat /\ l \in Nat /\ Len(d) \in Nat /\ k <= l
      /\ \A q \in 1..k : ad[q] = ac[q]
      /\ \A q \in 1..Len(d) : ad[k + q] = d[q]
  <2>1. ac \in Seq(C) /\ d \in Seq(C) /\ k = Len(ac) /\ l = k + Len(d) /\ ad = ac \o d
    BY <1>0, <1>p, <1>2
  <2> QED BY <2>1, Extend
<1>4. /\ ae \in Seq(C) /\ Len(ae) = m /\ l \in Nat /\ m \in Nat /\ Len(e) \in Nat /\ l <= m
      /\ \A q \in 1..l : ae[q] = ad[q]
      /\ \A q \in 1..Len(e) : ae[l + q] = e[q]
  <2>1. ad \in Seq(C) /\ e \in Seq(C) /\ l = Len(ad) /\ m = l + Len(e) /\ ae = ad \o e
    BY <1>0, <1>p, <1>3
  <2> QED BY <2>1, Extend
<1>5. /\ s \in Seq(C) /\ Len(s) = n /\ m \in Nat /\ n \in Nat /\ Len(f) \in Nat /\ m <= n
      /\ \A q \in 1..m : s[q] = ae[q]
      /\ \A q \in 1..Len(f) : s[m + q] = f[q]
  <2>1. ae \in Seq(C) /\ f \in Seq(C) /\ m = Len(ae) /\ n = m + Len(f) /\ s = ae \o f
    BY <1>0, <1>p, <1>4
  <2> QED BY <2>1, Extend
<1>t. \A x, y, z \in Nat : x <= y /\ y <= z => x <= z
  OBVIOUS
<1>h. \A x, y \in Nat : x <= y => \A q \in 1..x : q \in 1..y
  OBVIOUS
<1>s. \A x, y, z \in Nat : z = x + y => \A q \in 1..y : x + q \in 1..z
  OBVIOUS
<1>7. \A q \in 1..l : s[q] = ad[q]
  BY <1>3, <1>4, <1>5, <1>h, Zenon
<1>8. \A q \in 1..k : s[q] = ac[q]
  BY <1>2, <1>3, <1>7, <1>h, Zenon
<1>9. \A q \in 1..j : s[q] = ab[q]
  BY <1>1, <1>2, <1>8, <1>h, Zenon
<1>10. \A q \in 1..h : s[q] = a[q]
  BY <1>1, <1>9, <1>h, Zenon
<1>11. \A q \in 1..Len(b) : s[h + q] = b[q]
  <2> TAKE q \in 1..Len(b)
  <2>1. h + q \in 1..j
    BY <1>1, <1>2, <1>3, <1>4, <1>5, <1>s, <1>0, Zenon
  <2> QED BY <1>1, <1>9, <2>1
<1>12. \A q \in 1..Len(c) : s[j + q] = c[q]
  <2> TAKE q \in 1..Len(c)
  <2>1. j + q \in 1..k
    BY <1>1, <1>2, <1>3, <1>4, <1>5, <1>s, <1>0, Zenon
  <2> QED BY <1>1, <1>2, <1>8, <2>1
<1>13. \A q \in 1..Len(d) : s[k + q] = d[q]
  <2> TAKE q \in 1..Len(d)
  <2>1. k + q \in 1..l
    BY <1>1, <1>2, <1>3, <1>4, <1>5, <1>s, <1>0, Zenon
  <2> QED BY <1>2, <1>3, <1>7, <2>1
<1>14. \A q \in 1..Len(e) : s[l + q] = e[q]
  <2> TAKE q \in 1..Len(e)
  <2>1. l + q \in 1..m
    BY <1>1, <1>2, <1>3, <1>4, <1>5, <1>s, <1>0, Zenon
  <2> QED BY <1>3, <1>4, <1>5, <2>1
<1> QED BY <1>1, <1>2, <1>3, <1>4, <1>5, <1>10, <1>11, <1>12, <1>13, <1>14, Zenon DEF Placed

\* The characters of a directive.
LEMMA Characters ==
  /\ {"%", "*", ".", "l", "-", "0", " ", "="} \subseteq Character
  /\ \A c \in Conversions : c \in Character /\ c \in Cases
  /\ \A c \in Others : c \in Character
BY PrintfAssumption DEF Character, Cases, Conversions

\* The fields of a directive, and its parts as sequences of characters.
LEMMA Parts ==
  ASSUME NEW d \in Directive
  PROVE  /\ d.flag \in {<<>>, <<"-">>, <<"0">>} /\ d.width \in Size /\ d.prec \in Size
         /\ d.star \in BOOLEAN /\ d.l \in 0..2
         /\ d.conv = <<>> \/ \E c \in Conversions \cup Others : d.conv = <<c>>
         /\ d.arg.num \in 0..(Reg - 1) /\ d.arg.str \in Seq(Character)
         /\ d.flag \in Seq(Character) /\ Written(d.width, d.star) \in Seq(Character)
         /\ Written(d.prec, d.star) \in Seq(Character) /\ Point(d) \in Seq(Character)
         /\ Repeat("l", d.l) \in Seq(Character) /\ d.conv \in Seq(Character)
<1>1. /\ d.flag \in {<<>>, <<"-">>, <<"0">>} /\ d.width \in Size /\ d.prec \in Size
      /\ d.star \in BOOLEAN /\ d.l \in 0..2
      /\ d.conv \in {<<>>} \cup {<<c>> : c \in Conversions \cup Others}
      /\ d.arg \in [num : 0..(Reg - 1), str : Seq(Character)]
  BY DEF Directive
<1>2. d.arg.num \in 0..(Reg - 1) /\ d.arg.str \in Seq(Character)
  BY <1>1
<1>3. "-" \in Character /\ "0" \in Character /\ "*" \in Character /\ "." \in Character /\ "l" \in Character
  BY Characters
<1>4. d.flag \in Seq(Character)
  <2>1. <<>> \in Seq(Character) /\ <<"-">> \in Seq(Character) /\ <<"0">> \in Seq(Character)
    BY <1>3
  <2> QED BY <1>1, <2>1
<1>5. ASSUME NEW n \in Size PROVE Written(n, d.star) \in Seq(Character)
  <2>1. <<>> \in Seq(Character) /\ <<"*">> \in Seq(Character)
    BY <1>3
  <2>2. CASE n # Unset
    <3>1. n \in Nat
      <4>1. Word \in Nat
        BY PrintfAssumption
      <4>2. Word \div 2 - 1 \in Int
        BY <4>1
      <4> QED BY <2>2, <4>2 DEF Size, Unset
    <3>2. Positional(n, 10) \in Seq(Character)
      <4>1. 10 \in 2..16
        OBVIOUS
      <4> QED BY <3>1, <4>1, PositionalIs
    <3> QED BY <2>1, <3>2 DEF Written
  <2>3. CASE n = Unset
    BY <2>1, <2>3 DEF Written
  <2> QED BY <2>2, <2>3
<1>6. Point(d) \in Seq(Character)
  <2>1. <<".">> \in Seq(Character) /\ <<>> \in Seq(Character)
    BY <1>3
  <2>2. Written(d.prec, d.star) \in Seq(Character)
    BY <1>1, <1>5
  <2>3. \A u, v \in Seq(Character) : u \o v \in Seq(Character)
    OBVIOUS
  <2> QED BY <2>1, <2>2, <2>3 DEF Point
<1>7. Repeat("l", d.l) \in Seq(Character)
  <2>1. d.l \in Nat
    BY <1>1
  <2>2. [j \in 1..d.l |-> "l"] \in Seq(Character)
    BY <2>1, <1>3
  <2> QED BY <2>2 DEF Repeat
<1>8. d.conv \in Seq(Character)
  <2>1. \A c \in Conversions \cup Others : c \in Character
    BY Characters
  <2>2. \A c \in Character : <<c>> \in Seq(Character)
    OBVIOUS
  <2>3. <<>> \in Seq(Character)
    OBVIOUS
  <2> QED BY <1>1, <2>1, <2>2, <2>3
<1>9. d.conv = <<>> \/ \E c \in Conversions \cup Others : d.conv = <<c>>
  BY <1>1
<1> QED BY <1>1, <1>2, <1>4, <1>5, <1>6, <1>7, <1>8, <1>9

\* Where the parts of a directive are in it.
LEMMA RenderIs ==
  ASSUME NEW d \in Directive
  PROVE  /\ Render(d) \in Seq(Character)
         /\ Len(d.flag) \in 0..1 /\ Wide(d) \in Nat /\ Precise(d) \in Nat /\ Len(d.conv) \in 0..1
         /\ Len(Render(d)) = 1 + Len(d.flag) + Wide(d) + Precise(d) + d.l + Len(d.conv)
         /\ Render(d)[1] = "%"
         /\ \A q \in 1..Len(d.flag) : Render(d)[1 + q] = d.flag[q]
         /\ \A q \in 1..Wide(d) :
              Render(d)[1 + Len(d.flag) + q] = Written(d.width, d.star)[q]
         /\ Precise(d) = Len(Point(d))
         /\ \A q \in 1..Precise(d) :
              Render(d)[1 + Len(d.flag) + Wide(d) + q] = Point(d)[q]
         /\ \A q \in 1..d.l :
              Render(d)[1 + Len(d.flag) + Wide(d) + Precise(d) + q] = "l"
         /\ \A q \in 1..Len(d.conv) :
              Render(d)[1 + Len(d.flag) + Wide(d) + Precise(d) + d.l + q] = d.conv[q]
<1> DEFINE W == Written(d.width, d.star)
           P == Point(d)
           L == Repeat("l", d.l)
           h == 1
           j == h + Len(d.flag)
           k == j + Len(W)
           l == k + Len(P)
           m == l + Len(L)
           n == m + Len(d.conv)
<1>1. /\ d.flag \in Seq(Character) /\ W \in Seq(Character) /\ P \in Seq(Character)
      /\ L \in Seq(Character) /\ d.conv \in Seq(Character) /\ <<"%">> \in Seq(Character)
  <2>1. <<"%">> \in Seq(Character)
    <3>1. "%" \in Character
      BY Characters
    <3> QED BY <3>1
  <2> QED BY <2>1, Parts
<1>2. Render(d) = <<"%">> \o d.flag \o W \o P \o L \o d.conv
  BY DEF Render, Point
<1>3. h = Len(<<"%">>)
  OBVIOUS
<1>4. /\ Render(d) \in Seq(Character) /\ Len(Render(d)) = n
      /\ \A q \in 1..h : Render(d)[q] = <<"%">>[q]
      /\ \A q \in 1..Len(d.flag) : Render(d)[h + q] = d.flag[q]
      /\ \A q \in 1..Len(W) : Render(d)[j + q] = W[q]
      /\ \A q \in 1..Len(P) : Render(d)[k + q] = P[q]
      /\ \A q \in 1..Len(L) : Render(d)[l + q] = L[q]
      /\ \A q \in 1..Len(d.conv) : Render(d)[m + q] = d.conv[q]
  <2>1. j = h + Len(d.flag) /\ k = j + Len(W) /\ l = k + Len(P) /\ m = l + Len(L) /\ n = m + Len(d.conv)
    OBVIOUS
  <2> DEFINE x == <<"%">>
             y == d.flag
             z == d.conv
             r == Render(d)
  <2>2. Six(Character, r, x, y, W, P, L, z, h, j, k, l, m, n)
    BY <1>1, <1>2, <1>3, <2>1 DEF Six
  <2> HIDE DEF W, P, L, x, y, z, r, h, j, k, l, m, n
  <2>3. Placed(Character, r, x, y, W, P, L, z, h, j, k, l, m, n)
    BY <2>2, SixPlaced
  <2> QED BY <2>3 DEF Placed, x, y, z, r
<1>5. Wide(d) = Len(W)
  BY DEF Wide
<1>6. Precise(d) = Len(P)
  <2>1. CASE d.prec = Unset
    BY <2>1 DEF Precise, Point
  <2>2. CASE d.prec # Unset
    <3> DEFINE V == Written(d.prec, d.star)
    <3>1. <<".">> \in Seq(Character) /\ V \in Seq(Character)
      <4>1. "." \in Character
        BY Characters
      <4> QED BY <4>1, Parts
    <3> HIDE DEF V
    <3>2. Len(<<".">> \o V) = Len(<<".">>) + Len(V) /\ Len(<<".">>) = 1
      BY <3>1, Join
    <3> QED BY <2>2, <3>2 DEF Precise, Point, V
  <2> QED BY <2>1, <2>2
<1>7. Len(L) = d.l /\ \A q \in 1..d.l : L[q] = "l"
  <2>1. d.l \in 0..2
    BY Parts
  <2>2. L = [q \in 1..d.l |-> "l"]
    BY DEF Repeat
  <2>3. \A q \in 1..d.l : L[q] = "l"
    BY <2>2
  <2>4. Len(L) = d.l
    <3> DEFINE a == d.l
    <3>1. a \in Nat
      BY <2>1
    <3> HIDE DEF a
    <3>2. Len([q \in 1..a |-> "l"]) = a
      BY <3>1
    <3> QED BY <2>2, <3>2 DEF a
  <2> QED BY <2>3, <2>4
<1>8. Len(d.flag) \in 0..1 /\ Len(d.conv) \in 0..1
  <2>1. Len(<<>>) = 0 /\ \A c : Len(<<c>>) = 1
    OBVIOUS
  <2>2. d.flag \in {<<>>, <<"-">>, <<"0">>} /\ (d.conv = <<>> \/ \E c \in Conversions \cup Others : d.conv = <<c>>)
    BY Parts
  <2>3. Len(d.conv) = 0 \/ Len(d.conv) = 1
    BY <2>1, <2>2, Zenon
  <2>4. Len(d.flag) = 0 \/ Len(d.flag) = 1
    BY <2>1, <2>2, Zenon
  <2> QED BY <2>3, <2>4
<1>9. Len(W) \in Nat /\ Len(P) \in Nat
  <2> HIDE DEF W, P
  <2> QED BY <1>1
<1>10. Render(d)[1] = "%"
  <2>1. 1 \in 1..h /\ <<"%">>[1] = "%"
    OBVIOUS
  <2> QED BY <1>4, <2>1
<1>11. /\ Len(Render(d)) = 1 + Len(d.flag) + Len(W) + Len(P) + d.l + Len(d.conv)
       /\ \A q \in 1..Len(d.flag) : Render(d)[1 + q] = d.flag[q]
       /\ \A q \in 1..Len(W) : Render(d)[1 + Len(d.flag) + q] = W[q]
       /\ \A q \in 1..Len(P) : Render(d)[1 + Len(d.flag) + Len(W) + q] = P[q]
       /\ \A q \in 1..d.l : Render(d)[1 + Len(d.flag) + Len(W) + Len(P) + q] = L[q]
       /\ \A q \in 1..Len(d.conv) : Render(d)[1 + Len(d.flag) + Len(W) + Len(P) + d.l + q] = d.conv[q]
  <2> HIDE DEF W, P, L
  <2> QED BY <1>4, <1>7, Zenon
<1> HIDE DEF W, P, L, h, j, k, l, m, n
<1>12. \A q \in 1..d.l : Render(d)[1 + Len(d.flag) + Len(W) + Len(P) + q] = "l"
  BY <1>7, <1>11, Zenon
<1>13. W = Written(d.width, d.star) /\ P = Point(d)
  BY DEF W, P
<1>14. Render(d) \in Seq(Character)
  BY <1>4
<1> QED BY <1>5, <1>6, <1>8, <1>9, <1>10, <1>11, <1>12, <1>13, <1>14, ZenonT(30)

\* An argument.
Argument == [num : 0..(Reg - 1), str : Seq(Character)]

\* A sequence built from another, element by element, is as long.
LEMMA Built ==
  ASSUME NEW D, NEW s \in Seq(D), NEW C, NEW G, G = [j \in DOMAIN s |-> G[j]],
         \A j \in 1..Len(s) : G[j] \in C
  PROVE  G \in Seq(C) /\ Len(G) = Len(s)
BY SMTT(30)

\* Padding as a sequence.
LEMMA Repeated ==
  ASSUME NEW C, NEW c \in C, NEW n \in Int
  PROVE  Repeat(c, n) \in Seq(C) /\ Len(Repeat(c, n)) = IF n < 0 THEN 0 ELSE n
<1>1. CASE n >= 0
  <2>1. [j \in 1..n |-> c] \in Seq(C) /\ Len([j \in 1..n |-> c]) = n
    BY <1>1
  <2> QED BY <1>1, <2>1 DEF Repeat
<1>2. CASE n < 0
  <2>1. 1..n = {}
    BY <1>2
  <2>2. Repeat(c, n) = <<>>
    BY <2>1 DEF Repeat
  <2> QED BY <1>2, <2>2
<1> QED BY <1>1, <1>2

\* What %s prints for a null pointer.
LEMMA NullTextIs == NullText \in Seq(Character) /\ Len(NullText) = 6
<1>1. "(" \in Character /\ "n" \in Character /\ "u" \in Character /\ "l" \in Character /\ ")" \in Character
  <2>1. {"(", "n", ")"} \subseteq Others
    BY PrintfAssumption
  <2> QED BY <2>1 DEF Character, Cases
<1> QED BY <1>1 DEF NullText

\* A number of a directive, within its width.
LEMMA DenotedIs ==
  ASSUME NEW d \in Directive
  PROVE  Denoted(d) \in Nat /\ d.arg.num % Reg = d.arg.num /\ d.arg.num \in Nat
         /\ (IF d.l = 0 THEN Word ELSE Reg) \in Nat
         /\ Denoted(d) < (IF d.l = 0 THEN Word ELSE Reg)
<1>1. Word \in Nat \ {0, 1} /\ Reg \in Nat /\ Reg >= Word
  BY PrintfAssumption
<1>2. d.arg.num \in 0..(Reg - 1)
  BY Parts
<1>3. \A n \in 0..(Reg - 1) : n % Word \in Nat /\ n % Word < Word /\ n % Reg = n /\ n \in Nat /\ n < Reg
  BY <1>1
<1> QED BY <1>1, <1>2, <1>3 DEF Denoted

\* What a conversion stands for, case by case.
LEMMA BodyAs ==
  ASSUME NEW d
  PROVE  /\ d.conv = <<"s">> => Body(d) = LET t == IF d.arg.num = 0 THEN NullText ELSE d.arg.str
                                         IN  IF d.prec \in 0..Len(t) THEN SubSeq(t, 1, d.prec) ELSE t
         /\ d.conv = <<"c">> => Body(d) = d.arg.str
         /\ d.conv = <<"%">> => Body(d) = <<"%">>
         /\ d.conv = <<"u">> => Body(d) = Positional(Denoted(d), 10)
         /\ d.conv = <<"o">> => Body(d) = Positional(Denoted(d), 8)
         /\ d.conv = <<"x">> => Body(d) = Positional(Denoted(d), 16)
         /\ d.conv = <<"p">> => Body(d) = <<"0", "x">> \o Positional(d.arg.num % Reg, 16)
         /\ d.conv = <<"d">> /\ Minus(d) =>
              Body(d) = <<"-">> \o Positional((IF d.l = 0 THEN Word ELSE Reg) - Denoted(d), 10)
         /\ d.conv = <<"d">> /\ ~Minus(d) => Body(d) = Positional(Denoted(d), 10)
<1>1. \A c, e : <<c>> = <<e>> => c = e
  OBVIOUS
<1>2. d.conv = <<"s">> => Body(d) = LET t == IF d.arg.num = 0 THEN NullText ELSE d.arg.str
                                    IN  IF d.prec \in 0..Len(t) THEN SubSeq(t, 1, d.prec) ELSE t
  BY <1>1 DEF Body
<1>3. d.conv = <<"c">> => Body(d) = d.arg.str
  BY <1>1, Zenon DEF Body
<1>4. d.conv = <<"%">> => Body(d) = <<"%">>
  BY <1>1, Zenon DEF Body
<1>5. d.conv = <<"u">> => Body(d) = Positional(Denoted(d), 10)
  BY <1>1, Zenon DEF Body
<1>6. d.conv = <<"o">> => Body(d) = Positional(Denoted(d), 8)
  BY <1>1, Zenon DEF Body
<1>7. d.conv = <<"x">> => Body(d) = Positional(Denoted(d), 16)
  BY <1>1, Zenon DEF Body
<1>8. d.conv = <<"p">> => Body(d) = <<"0", "x">> \o Positional(d.arg.num % Reg, 16)
  BY <1>1, Zenon DEF Body
<1>9. d.conv = <<"d">> /\ Minus(d) => Body(d) = <<"-">> \o Positional((IF d.l = 0 THEN Word ELSE Reg) - Denoted(d), 10)
  BY <1>1, Zenon DEF Body
<1>10. d.conv = <<"d">> /\ ~Minus(d) => Body(d) = Positional(Denoted(d), 10)
  BY <1>1, Zenon DEF Body
<1> QED BY <1>2, <1>3, <1>4, <1>5, <1>6, <1>7, <1>8, <1>9, <1>10, Zenon

\* What a conversion stands for is a sequence of characters.
LEMMA BodyIs ==
  ASSUME NEW d \in Directive, Known(d)
  PROVE  Body(d) \in Seq(Character)
<1>1. /\ \A c \in Character : <<c>> \in Seq(Character)
      /\ \A u, v \in Seq(Character) : u \o v \in Seq(Character)
  OBVIOUS
<1>2. "0" \in Character /\ "x" \in Character /\ "-" \in Character /\ "%" \in Character
  BY Characters DEF Conversions
<1>p. ASSUME NEW n \in Nat, NEW b \in {8, 10, 16} PROVE Positional(n, b) \in Seq(Character)
  <2>1. b \in 2..16
    OBVIOUS
  <2> QED BY <2>1, PositionalIs
<1>3. /\ d.arg.str \in Seq(Character) /\ d.arg.num \in Nat /\ d.arg.num % Reg = d.arg.num
      /\ Denoted(d) \in Nat
  BY Parts, DenotedIs
<1>4. d.conv \in {<<"s">>, <<"c">>, <<"%">>, <<"u">>, <<"o">>, <<"x">>, <<"p">>, <<"d">>}
  BY DEF Known, Conversions
<1>5. CASE d.conv = <<"s">>
  <2> DEFINE t == IF d.arg.num = 0 THEN NullText ELSE d.arg.str
  <2>1. t \in Seq(Character)
    BY <1>3, NullTextIs
  <2>2. ASSUME NEW n \in 0..Len(t) PROVE SubSeq(t, 1, n) \in Seq(Character)
    <3> HIDE DEF t
    <3> QED BY <2>1, <2>2
  <2>3. Body(d) = IF d.prec \in 0..Len(t) THEN SubSeq(t, 1, d.prec) ELSE t
    BY <1>5, BodyAs, Zenon
  <2> HIDE DEF t
  <2> QED BY <2>1, <2>2, <2>3
<1>6. CASE d.conv = <<"c">>
  <2>1. Body(d) = d.arg.str
    BY <1>6, BodyAs
  <2> QED BY <1>3, <2>1
<1>7. CASE d.conv = <<"%">>
  <2>1. Body(d) = <<"%">>
    BY <1>7, BodyAs
  <2> QED BY <1>1, <1>2, <2>1
<1>8. CASE d.conv \in {<<"u">>, <<"o">>, <<"x">>}
  <2>1. \E b \in {8, 10, 16} : Body(d) = Positional(Denoted(d), b)
    BY <1>8, BodyAs
  <2> QED BY <1>3, <1>p, <2>1
<1>9. CASE d.conv = <<"p">>
  <2>1. Body(d) = <<"0", "x">> \o Positional(d.arg.num, 16)
    BY <1>3, <1>9, BodyAs
  <2>2. <<"0", "x">> \in Seq(Character)
    BY <1>2
  <2>3. Positional(d.arg.num, 16) \in Seq(Character)
    BY <1>3, <1>p
  <2> QED BY <1>1, <2>1, <2>2, <2>3
<1>10. CASE d.conv = <<"d">>
  <2> DEFINE m == IF d.l = 0 THEN Word ELSE Reg
  <2>1. m \in Nat /\ Denoted(d) \in Nat /\ m - Denoted(d) \in Nat
    <3>1. m \in Nat /\ Denoted(d) \in Nat /\ Denoted(d) < m
      BY DenotedIs
    <3> HIDE DEF m
    <3> QED BY <3>1
  <2>2. Minus(d) => Body(d) = <<"-">> \o Positional(m - Denoted(d), 10)
    BY <1>10, BodyAs
  <2>3. ~Minus(d) => Body(d) = Positional(Denoted(d), 10)
    BY <1>10, BodyAs
  <2> HIDE DEF m
  <2>4. Positional(m - Denoted(d), 10) \in Seq(Character) /\ Positional(Denoted(d), 10) \in Seq(Character)
    BY <1>p, <2>1
  <2>5. <<"-">> \in Seq(Character)
    BY <1>1, <1>2
  <2> QED BY <1>1, <2>2, <2>3, <2>4, <2>5
<1> QED BY <1>4, <1>5, <1>6, <1>7, <1>8, <1>9, <1>10

\* So is what a directive puts out.
LEMMA ShownIs ==
  ASSUME NEW d \in Directive
  PROVE  Shown(d) \in Seq(Character)
<1>1. CASE ~Known(d)
  BY <1>1, RenderIs DEF Shown
<1>2. CASE Known(d)
  <2> DEFINE body == Body(d)
             padc == IF d.flag = <<"0">> THEN "0" ELSE " "
             pad == Repeat(padc, d.width - Len(body))
  <2>1. body \in Seq(Character)
    BY <1>2, BodyIs
  <2>2. padc \in Character
    BY Characters
  <2>3. d.width \in Int
    <3>1. d.width \in Size
      BY Parts
    <3>2. Size \subseteq Int
      BY DEF Size, Unset
    <3> QED BY <3>1, <3>2
  <2>4. Field(d) = IF d.flag = <<"-">> THEN body \o pad ELSE pad \o body
    BY DEF Field
  <2> HIDE DEF body, padc
  <2>5. d.width - Len(body) \in Int
    BY <2>1, <2>3
  <2>6. pad \in Seq(Character)
    BY <2>2, <2>5, Repeated
  <2> HIDE DEF pad
  <2>7. \A u, v \in Seq(Character) : u \o v \in Seq(Character)
    OBVIOUS
  <2> QED BY <1>2, <2>1, <2>4, <2>6, <2>7 DEF Shown
<1> QED BY <1>1, <1>2

\* The arguments a directive takes.
LEMMA PassedIs ==
  ASSUME NEW d \in Directive
  PROVE  /\ Passed(d) \in Seq(Argument)
         /\ WideArgs(d) = (IF d.star /\ d.width # Unset THEN 1 ELSE 0)
         /\ PreciseArgs(d) = (IF d.star /\ d.prec # Unset THEN 1 ELSE 0)
         /\ Len(Passed(d)) = WideArgs(d) + PreciseArgs(d) + (IF Known(d) /\ d.conv # <<"%">> THEN 1 ELSE 0)
         /\ d.star /\ d.width # Unset => Passed(d)[1] = Number(d.width)
         /\ d.star /\ d.prec # Unset => Passed(d)[WideArgs(d) + 1] = Number(d.prec)
         /\ Known(d) /\ d.conv # <<"%">> => Passed(d)[WideArgs(d) + PreciseArgs(d) + 1] = d.arg
<1> DEFINE a == Starred(d.width, d.star)
           b == Starred(d.prec, d.star)
           c == IF Known(d) /\ d.conv # <<"%">> THEN <<d.arg>> ELSE <<>>
<1>1. ASSUME NEW n \in Size
      PROVE  Starred(n, d.star) \in Seq(Argument)
             /\ (d.star /\ n # Unset => Starred(n, d.star) = <<Number(n)>>)
             /\ (~(d.star /\ n # Unset) => Starred(n, d.star) = <<>>)
  <2>1. CASE d.star /\ n # Unset
    <3>1. Reg \in Nat \ {0} /\ n \in Int
      <4>1. Word \in Nat \ {0, 1} /\ Reg \in Nat /\ Reg >= Word
        BY PrintfAssumption
      <4>2. Reg # 0
        BY <4>1
      <4> QED BY <4>1, <4>2 DEF Size, Unset
    <3>2. n % Reg \in 0..(Reg - 1)
      BY <3>1
    <3>3. <<>> \in Seq(Character)
      OBVIOUS
    <3>4. Number(n) \in Argument
      BY <3>2, <3>3 DEF Number, Arg, Argument
    <3>5. Starred(n, d.star) = <<Number(n)>>
      BY <2>1 DEF Starred
    <3>6. \A x \in Argument : <<x>> \in Seq(Argument)
      OBVIOUS
    <3>7. Starred(n, d.star) \in Seq(Argument)
      BY <3>4, <3>5, <3>6
    <3> QED BY <2>1, <3>5, <3>7
  <2>2. CASE ~(d.star /\ n # Unset)
    BY <2>2 DEF Starred
  <2> QED BY <2>1, <2>2
<1>2. d.width \in Size /\ d.prec \in Size
  BY Parts
<1>3. d.arg \in Argument
  BY DEF Directive, Argument
<1>4. a \in Seq(Argument) /\ b \in Seq(Argument) /\ c \in Seq(Argument)
  <2>1. <<d.arg>> \in Seq(Argument) /\ <<>> \in Seq(Argument)
    BY <1>3
  <2> QED BY <1>1, <1>2, <2>1
<1>5. Len(a) = (IF d.star /\ d.width # Unset THEN 1 ELSE 0) /\ (d.star /\ d.width # Unset => a[1] = Number(d.width))
  <2>1. (d.star /\ d.width # Unset => a = <<Number(d.width)>>) /\ (~(d.star /\ d.width # Unset) => a = <<>>)
    BY <1>1, <1>2
  <2>2. \A x : Len(<<x>>) = 1 /\ <<x>>[1] = x
    OBVIOUS
  <2>3. Len(<<>>) = 0
    OBVIOUS
  <2> HIDE DEF a
  <2> QED BY <2>1, <2>2, <2>3
<1>6. Len(b) = (IF d.star /\ d.prec # Unset THEN 1 ELSE 0) /\ (d.star /\ d.prec # Unset => b[1] = Number(d.prec))
  <2>1. (d.star /\ d.prec # Unset => b = <<Number(d.prec)>>) /\ (~(d.star /\ d.prec # Unset) => b = <<>>)
    BY <1>1, <1>2
  <2>2. \A x : Len(<<x>>) = 1 /\ <<x>>[1] = x
    OBVIOUS
  <2>3. Len(<<>>) = 0
    OBVIOUS
  <2> HIDE DEF b
  <2> QED BY <2>1, <2>2, <2>3
<1>7. Len(c) = (IF Known(d) /\ d.conv # <<"%">> THEN 1 ELSE 0) /\ (Known(d) /\ d.conv # <<"%">> => c[1] = d.arg)
  OBVIOUS
<1>8. WideArgs(d) = Len(a) /\ PreciseArgs(d) = Len(b) /\ Passed(d) = (a \o b) \o c
  BY DEF WideArgs, PreciseArgs, Passed
<1> HIDE DEF a, b, c
<1>9. /\ a \o b \in Seq(Argument) /\ Len(a) \in Nat /\ Len(b) \in Nat /\ Len(a \o b) = Len(a) + Len(b)
      /\ \A q \in 1..Len(a) : (a \o b)[q] = a[q]
      /\ \A q \in 1..Len(b) : (a \o b)[Len(a) + q] = b[q]
  BY <1>4, Join
<1> DEFINE ab == a \o b
<1>n. ab \in Seq(Argument)
  BY <1>9
<1>h. HIDE DEF ab
<1>10. /\ ab \o c \in Seq(Argument) /\ Len(ab \o c) = Len(ab) + Len(c)
       /\ \A q \in 1..Len(ab) : (ab \o c)[q] = ab[q]
       /\ \A q \in 1..Len(c) : (ab \o c)[Len(ab) + q] = c[q]
  BY <1>4, <1>n, Join
<1>11. Passed(d) \in Seq(Argument) /\ Len(Passed(d)) = Len(a) + Len(b) + Len(c)
  BY <1>8, <1>9, <1>10 DEF ab
<1>12. d.star /\ d.width # Unset => Passed(d)[1] = Number(d.width)
  <2>1. d.star /\ d.width # Unset => 1 \in 1..Len(a) /\ 1 \in 1..Len(ab)
    BY <1>5, <1>9 DEF ab
  <2> QED BY <1>5, <1>8, <1>9, <1>10, <2>1 DEF ab
<1>13. d.star /\ d.prec # Unset => Passed(d)[Len(a) + 1] = Number(d.prec)
  <2>1. d.star /\ d.prec # Unset => 1 \in 1..Len(b) /\ Len(a) + 1 \in 1..Len(ab)
    BY <1>6, <1>9 DEF ab
  <2> QED BY <1>6, <1>8, <1>9, <1>10, <2>1 DEF ab
<1>14. Known(d) /\ d.conv # <<"%">> => Passed(d)[Len(a) + Len(b) + 1] = d.arg
  <2>1. Known(d) /\ d.conv # <<"%">> => 1 \in 1..Len(c)
    BY <1>7
  <2>2. Len(ab) = Len(a) + Len(b)
    BY <1>9 DEF ab
  <2> QED BY <1>7, <1>8, <1>10, <2>1, <2>2 DEF ab
<1> QED BY <1>5, <1>6, <1>7, <1>8, <1>11, <1>12, <1>13, <1>14

\* The text between two directives.
LEMMA BetweenIs == Between \in Seq(Character) /\ Len(Between) = 1 /\ Between[1] = "="
<1>1. "=" \in Character
  BY Characters
<1> QED BY <1>1 DEF Between

\* The format, the arguments and the output as sequences of sequences.
LEMMA Sequences ==
  ASSUME asked \in Seq(Directive)
  PROVE  /\ Len(asked) \in Nat
         /\ Formats(asked) \in Seq(Seq(Character)) /\ Len(Formats(asked)) = Len(asked)
         /\ Passes(asked) \in Seq(Seq(Argument)) /\ Len(Passes(asked)) = Len(asked)
         /\ Outputs(asked) \in Seq(Seq(Character)) /\ Len(Outputs(asked)) = Len(asked)
         /\ \A j \in 1..Len(asked) : /\ Formats(asked)[j] = Between \o Render(asked[j])
                                     /\ Passes(asked)[j] = Passed(asked[j])
                                     /\ Outputs(asked)[j] = Between \o Shown(asked[j])
<1>1. Len(asked) \in Nat /\ DOMAIN asked = 1..Len(asked) /\ \A j \in 1..Len(asked) : asked[j] \in Directive
  OBVIOUS
<1>2. \A u, v \in Seq(Character) : u \o v \in Seq(Character)
  OBVIOUS
<1>3. ASSUME NEW j \in 1..Len(asked)
      PROVE  /\ Formats(asked)[j] = Between \o Render(asked[j]) /\ Formats(asked)[j] \in Seq(Character)
             /\ Passes(asked)[j] = Passed(asked[j]) /\ Passes(asked)[j] \in Seq(Argument)
             /\ Outputs(asked)[j] = Between \o Shown(asked[j]) /\ Outputs(asked)[j] \in Seq(Character)
  <2>1. /\ Formats(asked)[j] = Between \o Render(asked[j]) /\ Passes(asked)[j] = Passed(asked[j])
        /\ Outputs(asked)[j] = Between \o Shown(asked[j])
    BY <1>1 DEF Formats, Passes, Outputs
  <2>2. asked[j] \in Directive
    BY <1>1
  <2>3. /\ Render(asked[j]) \in Seq(Character) /\ Passed(asked[j]) \in Seq(Argument)
        /\ Shown(asked[j]) \in Seq(Character) /\ Between \in Seq(Character)
    BY <2>2, RenderIs, PassedIs, ShownIs, BetweenIs
  <2> QED BY <1>2, <2>1, <2>3
<1>4. /\ Formats(asked) = [j \in DOMAIN asked |-> Formats(asked)[j]]
      /\ Passes(asked) = [j \in DOMAIN asked |-> Passes(asked)[j]]
      /\ Outputs(asked) = [j \in DOMAIN asked |-> Outputs(asked)[j]]
  BY DEF Formats, Passes, Outputs
<1>5. Formats(asked) \in Seq(Seq(Character)) /\ Len(Formats(asked)) = Len(asked)
  BY <1>3, <1>4, Built
<1>6. Passes(asked) \in Seq(Seq(Argument)) /\ Len(Passes(asked)) = Len(asked)
  BY <1>3, <1>4, Built
<1>7. Outputs(asked) \in Seq(Seq(Character)) /\ Len(Outputs(asked)) = Len(asked)
  BY <1>3, <1>4, Built
<1> QED BY <1>1, <1>3, <1>5, <1>6, <1>7

\* At the ends.
LEMMA Limits ==
  ASSUME Given
  PROVE  /\ Len(asked) \in Nat /\ Len(fmt) \in Nat /\ fmt \in Seq(Character)
         /\ At(0) = 0 /\ Used(0) = 0 /\ Due(0) = <<>>
         /\ At(Len(asked)) = Len(fmt) /\ Due(Len(asked)) = FlattenSeq(Outputs(asked))
         /\ \A k \in 0..Len(asked) : At(k) \in Nat /\ Used(k) \in Nat /\ Due(k) \in Seq(Character)
<1>1. asked \in Seq(Directive) /\ fmt = FlattenSeq(Formats(asked)) /\ args = FlattenSeq(Passes(asked))
  BY DEF Given, Format, Formats
<1> DEFINE n == Len(asked)
           F == Formats(asked)
           A == Passes(asked)
           O == Outputs(asked)
<1>2. /\ n \in Nat /\ F \in Seq(Seq(Character)) /\ A \in Seq(Seq(Argument)) /\ O \in Seq(Seq(Character))
      /\ Len(F) = n /\ Len(A) = n /\ Len(O) = n
  BY <1>1, Sequences
<1>n. n \in 0..n
  BY <1>2
<1>u. /\ \A k \in 0..n : At(k) = Len(Upto(F, k)) /\ Used(k) = Len(Upto(A, k)) /\ Due(k) = Upto(O, k)
      /\ 0 \in 0..n
  BY <1>2 DEF At, Used, Due
<1>0. fmt = FlattenSeq(F) /\ Outputs(asked) = O /\ Len(asked) = n
  BY <1>1
<1> HIDE DEF n, F, A, O
<1>3. /\ FlattenSeq(F) = Upto(F, n) /\ Upto(F, 0) = <<>>
      /\ \A k \in 0..n : Upto(F, k) \in Seq(Character)
  BY <1>2, UptoIs
<1>4. Upto(A, 0) = <<>> /\ \A k \in 0..n : Upto(A, k) \in Seq(Argument)
  BY <1>2, UptoIs
<1>5. /\ FlattenSeq(O) = Upto(O, n) /\ Upto(O, 0) = <<>>
      /\ \A k \in 0..n : Upto(O, k) \in Seq(Character)
  BY <1>2, UptoIs
<1>6. Len(<<>>) = 0 /\ (\A s \in Seq(Character) : Len(s) \in Nat) /\ \A s \in Seq(Argument) : Len(s) \in Nat
  OBVIOUS
<1>7. \A k \in 0..n : At(k) \in Nat /\ Used(k) \in Nat /\ Due(k) \in Seq(Character)
  BY <1>3, <1>4, <1>5, <1>6, <1>u, Zenon
<1>8. fmt \in Seq(Character) /\ Len(fmt) \in Nat
  BY <1>0, <1>3, <1>6, <1>n
<1>9. At(0) = 0 /\ Used(0) = 0 /\ Due(0) = <<>>
  BY <1>3, <1>4, <1>5, <1>6, <1>u, Zenon
<1>10. At(n) = Len(fmt) /\ Due(n) = FlattenSeq(O)
  BY <1>0, <1>3, <1>5, <1>n, <1>u, Zenon
<1> QED BY <1>0, <1>2, <1>7, <1>8, <1>9, <1>10

\* Where the directive after the k-th is in the format, what it should put out, and
\* which arguments are its own.
Laid(k, d) ==
  /\ d \in Directive /\ k \in 0..Len(asked) /\ k + 1 \in 0..Len(asked)
  /\ At(k + 1) = At(k) + 1 + Len(Render(d)) /\ At(k + 1) <= Len(fmt)
  /\ fmt[At(k) + 1] = "=" /\ \A q \in 1..Len(Render(d)) : fmt[At(k) + 1 + q] = Render(d)[q]
  /\ Used(k + 1) = Used(k) + Len(Passed(d))
  /\ \A q \in 1..Len(Passed(d)) : args[Used(k) + q] = Passed(d)[q]
  /\ Due(k + 1) = (Due(k) \o Between) \o Shown(d)

\* Every directive lies so.
LEMMA Layout ==
  ASSUME Given, NEW k \in 0..(Len(asked) - 1), NEW d, d = asked[k + 1]
  PROVE  Laid(k, d)
<1>1. asked \in Seq(Directive) /\ fmt = FlattenSeq(Formats(asked)) /\ args = FlattenSeq(Passes(asked))
  BY DEF Given, Format, Formats
<1> DEFINE n == Len(asked)
           F == Formats(asked)
           A == Passes(asked)
           O == Outputs(asked)
           h == k + 1
<1>2. /\ n \in Nat /\ F \in Seq(Seq(Character)) /\ A \in Seq(Seq(Argument)) /\ O \in Seq(Seq(Character))
      /\ Len(F) = n /\ Len(A) = n /\ Len(O) = n
      /\ \A j \in 1..n : /\ F[j] = Between \o Render(asked[j]) /\ A[j] = Passed(asked[j])
                         /\ O[j] = Between \o Shown(asked[j])
  BY <1>1, Sequences
<1>3. h \in 1..n /\ h - 1 = k /\ k \in 0..n /\ h \in 0..n /\ d = asked[h]
  BY <1>2
<1>4. d \in Directive
  BY <1>1, <1>3
<1>5. F[h] = Between \o Render(d) /\ A[h] = Passed(d) /\ O[h] = Between \o Shown(d)
  BY <1>2, <1>3
<1>u. /\ At(k) = Len(Upto(F, k)) /\ Used(k) = Len(Upto(A, k)) /\ Due(k) = Upto(O, k)
      /\ At(h) = Len(Upto(F, h)) /\ Used(h) = Len(Upto(A, h)) /\ Due(h) = Upto(O, h)
  BY DEF At, Used, Due
<1>0. fmt = FlattenSeq(F) /\ args = FlattenSeq(A) /\ h = k + 1 /\ n = Len(asked)
  BY <1>1
<1>6. At(k) \in Nat /\ Used(k) \in Nat /\ Due(k) \in Seq(Character)
  BY <1>3, Limits
<1> HIDE DEF n, F, A, O, h
<1>7. /\ At(h) = At(k) + Len(F[h]) /\ At(h) <= Len(fmt)
      /\ \A q \in 1..Len(F[h]) : fmt[At(k) + q] = F[h][q]
  <2>0. F \in Seq(Seq(Character)) /\ h \in 1..Len(F)
    BY <1>2, <1>3
  <2>1. /\ Len(Upto(F, h)) = Len(Upto(F, h - 1)) + Len(F[h]) /\ Len(Upto(F, h)) <= Len(FlattenSeq(F))
        /\ \A q \in 1..Len(F[h]) : FlattenSeq(F)[Len(Upto(F, h - 1)) + q] = F[h][q]
    BY <2>0, Located, Zenon
  <2> QED BY <1>0, <1>3, <1>u, <2>1
<1>8. /\ Used(h) = Used(k) + Len(A[h])
      /\ \A q \in 1..Len(A[h]) : args[Used(k) + q] = A[h][q]
  <2>0. A \in Seq(Seq(Argument)) /\ h \in 1..Len(A)
    BY <1>2, <1>3
  <2>1. /\ Len(Upto(A, h)) = Len(Upto(A, h - 1)) + Len(A[h])
        /\ \A q \in 1..Len(A[h]) : FlattenSeq(A)[Len(Upto(A, h - 1)) + q] = A[h][q]
    BY <2>0, Located, Zenon
  <2> QED BY <1>0, <1>3, <1>u, <2>1
<1>9. Due(h) = Due(k) \o O[h]
  <2>1. Upto(O, h) = Upto(O, h - 1) \o O[h]
    BY <1>2, <1>3, UptoIs
  <2> QED BY <1>3, <1>u, <2>1
<1>10. Render(d) \in Seq(Character) /\ Shown(d) \in Seq(Character)
  BY <1>4, RenderIs, ShownIs
<1>11. /\ Len(F[h]) = 1 + Len(Render(d)) /\ Len(Render(d)) \in Nat
       /\ F[h][1] = "=" /\ \A q \in 1..Len(Render(d)) : F[h][1 + q] = Render(d)[q]
  <2> DEFINE b == Between
             r == Render(d)
  <2>1. b \in Seq(Character) /\ r \in Seq(Character) /\ Len(b) = 1 /\ b[1] = "=" /\ F[h] = b \o r
    BY <1>5, <1>10, BetweenIs
  <2> HIDE DEF b, r
  <2>m. b \in Seq(Character) /\ r \in Seq(Character)
    BY <2>1
  <2>2. /\ b \o r \in Seq(Character) /\ Len(b) \in Nat /\ Len(r) \in Nat
        /\ Len(b \o r) = Len(b) + Len(r)
        /\ \A q \in 1..Len(b) : (b \o r)[q] = b[q]
        /\ \A q \in 1..Len(r) : (b \o r)[Len(b) + q] = r[q]
    BY <2>m, Join
  <2>3. 1 \in 1..Len(b)
    BY <2>1
  <2> QED BY <2>1, <2>2, <2>3 DEF r
<1>12. /\ At(h) = At(k) + 1 + Len(Render(d)) /\ fmt[At(k) + 1] = "="
       /\ \A q \in 1..Len(Render(d)) : fmt[At(k) + 1 + q] = Render(d)[q]
  <2> DEFINE l == Len(Render(d))
  <2>1. l \in Nat /\ 1 \in 1..(1 + l) /\ \A q \in 1..l : 1 + q \in 1..(1 + l) /\ At(k) + (1 + q) = At(k) + 1 + q
    BY <1>6, <1>11
  <2>2. Len(F[h]) = 1 + l
    BY <1>11
  <2>3. At(h) = At(k) + 1 + l
    BY <1>6, <1>7, <2>1, <2>2
  <2>4. \A q \in 1..l : F[h][1 + q] = Render(d)[q]
    BY <1>11
  <2> HIDE DEF l
  <2>5. ASSUME NEW q \in 1..l PROVE fmt[At(k) + 1 + q] = Render(d)[q]
    <3>1. fmt[At(k) + (1 + q)] = F[h][1 + q]
      BY <1>7, <2>1, <2>2
    <3> QED BY <2>1, <2>4, <3>1
  <2>6. fmt[At(k) + 1] = "="
    BY <1>7, <1>11, <2>1, <2>2
  <2> QED BY <2>3, <2>5, <2>6 DEF l
<1>13. Due(h) = (Due(k) \o Between) \o Shown(d)
  <2> DEFINE a == Due(k)
             b == Between
             c == Shown(d)
  <2>1. a \in Seq(Character) /\ b \in Seq(Character) /\ c \in Seq(Character)
    BY <1>6, <1>10, BetweenIs
  <2>2. Due(h) = a \o (b \o c)
    BY <1>5, <1>9
  <2> HIDE DEF a, b, c
  <2>3. (a \o b) \o c = a \o (b \o c)
    BY <2>1, ConcatAssociative, SMTT(30)
  <2> QED BY <2>2, <2>3 DEF a, b, c
<1> QED BY <1>0, <1>3, <1>4, <1>5, <1>7, <1>8, <1>12, <1>13 DEF Laid

\* How the directive after the k-th lies in the format.
Spelled(k, d) ==
  /\ d \in Directive /\ At(k) \in Nat /\ Len(fmt) \in Nat
  /\ Len(d.flag) \in 0..1 /\ Wide(d) \in Nat /\ Precise(d) \in Nat /\ d.l \in 0..2
  /\ Len(d.conv) \in 0..1
  /\ At(k + 1) = At(k) + 2 + Len(d.flag) + Wide(d) + Precise(d) + d.l + Len(d.conv)
  /\ At(k + 1) <= Len(fmt)
  /\ fmt[At(k) + 2] = "%"
  /\ \A q \in 1..Len(d.flag) : fmt[At(k) + 2 + q] = d.flag[q]
  /\ \A q \in 1..Wide(d) :
       fmt[At(k) + 2 + Len(d.flag) + q] = Written(d.width, d.star)[q]
  /\ \A q \in 1..Precise(d) : fmt[At(k) + 2 + Len(d.flag) + Wide(d) + q] = Point(d)[q]
  /\ \A q \in 1..d.l :
       fmt[At(k) + 2 + Len(d.flag) + Wide(d) + Precise(d) + q] = "l"
  /\ \A q \in 1..Len(d.conv) :
       fmt[At(k) + 2 + Len(d.flag) + Wide(d) + Precise(d) + d.l + q] = d.conv[q]

\* Every directive lies in the format so.
LEMMA SpelledIs ==
  ASSUME Given, NEW k \in 0..(Len(asked) - 1), NEW d, d = asked[k + 1]
  PROVE  Spelled(k, d)
<1> DEFINE a == At(k)
           f == Len(d.flag)
           w == Wide(d)
           r == Precise(d)
           l == d.l
           c == Len(d.conv)
           R == Render(d)
<1>1. /\ d \in Directive /\ k \in 0..Len(asked)
      /\ At(k + 1) = a + 1 + Len(R) /\ At(k + 1) <= Len(fmt)
      /\ \A q \in 1..Len(R) : fmt[a + 1 + q] = R[q]
  <2>1. Laid(k, d)
    BY Layout
  <2> QED BY <2>1, Zenon DEF Laid
<1>2. a \in Nat /\ Len(fmt) \in Nat
  BY <1>1, Limits
<1>3. l \in 0..2
  BY <1>1, Parts
<1>4. /\ f \in 0..1 /\ w \in Nat /\ r \in Nat /\ c \in 0..1
      /\ Len(R) = 1 + f + w + r + l + c
      /\ R[1] = "%"
      /\ \A q \in 1..f : R[1 + q] = d.flag[q]
      /\ \A q \in 1..w : R[1 + f + q] = Written(d.width, d.star)[q]
      /\ \A q \in 1..r : R[1 + f + w + q] = Point(d)[q]
      /\ \A q \in 1..l : R[1 + f + w + r + q] = "l"
      /\ \A q \in 1..c : R[1 + f + w + r + l + q] = d.conv[q]
  BY <1>1, RenderIs
<1> HIDE DEF a, f, w, r, l, c, R
<1>5. \A n \in 1..(1 + f + w + r + l + c) : fmt[a + 1 + n] = R[n]
  BY <1>1, <1>4
<1>6. At(k + 1) = a + 2 + f + w + r + l + c
  BY <1>1, <1>2, <1>3, <1>4
<1>n. a \in Nat /\ f \in Nat /\ w \in Nat /\ r \in Nat /\ l \in Nat /\ c \in Nat
  BY <1>2, <1>3, <1>4
<1>7. fmt[a + 2] = "%"
  <2>1. 1 \in 1..(1 + f + w + r + l + c) /\ a + 1 + 1 = a + 2
    BY <1>n
  <2> QED BY <1>4, <1>5, <2>1
<1>8. \A q \in 1..f : fmt[a + 2 + q] = d.flag[q]
  <2> TAKE q \in 1..f
  <2>1. 1 + q \in 1..(1 + f + w + r + l + c) /\ a + 1 + (1 + q) = a + 2 + q
    BY <1>n
  <2> QED BY <1>4, <1>5, <2>1
<1>9. \A q \in 1..w : fmt[a + 2 + f + q] = Written(d.width, d.star)[q]
  <2> TAKE q \in 1..w
  <2>1. 1 + f + q \in 1..(1 + f + w + r + l + c) /\ a + 1 + (1 + f + q) = a + 2 + f + q
    BY <1>n
  <2> QED BY <1>4, <1>5, <2>1
<1>10. \A q \in 1..r : fmt[a + 2 + f + w + q] = Point(d)[q]
  <2> TAKE q \in 1..r
  <2>1. 1 + f + w + q \in 1..(1 + f + w + r + l + c) /\ a + 1 + (1 + f + w + q) = a + 2 + f + w + q
    BY <1>n
  <2> QED BY <1>4, <1>5, <2>1
<1>11. \A q \in 1..l : fmt[a + 2 + f + w + r + q] = "l"
  <2> TAKE q \in 1..l
  <2>1. /\ 1 + f + w + r + q \in 1..(1 + f + w + r + l + c)
        /\ a + 1 + (1 + f + w + r + q) = a + 2 + f + w + r + q
    BY <1>n
  <2> QED BY <1>4, <1>5, <2>1
<1>12. \A q \in 1..c : fmt[a + 2 + f + w + r + l + q] = d.conv[q]
  <2> TAKE q \in 1..c
  <2>1. /\ 1 + f + w + r + l + q \in 1..(1 + f + w + r + l + c)
        /\ a + 1 + (1 + f + w + r + l + q) = a + 2 + f + w + r + l + q
    BY <1>n
  <2> QED BY <1>4, <1>5, <2>1
<1> QED
  BY <1>1, <1>2, <1>3, <1>4, <1>6, <1>7, <1>8, <1>9, <1>10, <1>11, <1>12, Zenon
     DEF Spelled, a, f, w, r, l, c

\* The character x of the format, as ch is the one at p.
CharAt(x) == IF x <= Len(fmt) THEN fmt[x] ELSE NUL

\* After the k-th directive comes the text between two, or the end.
LEMMA AtBoundary ==
  ASSUME Given, NEW k \in 0..Len(asked)
  PROVE  CharAt(At(k) + 1) = IF k = Len(asked) THEN NUL ELSE "="
<1>1. CASE k = Len(asked)
  <2>1. At(k) = Len(fmt) /\ Len(fmt) \in Nat
    BY <1>1, Limits
  <2>2. ~(At(k) + 1 <= Len(fmt))
    BY <2>1
  <2> QED BY <1>1, <2>2 DEF CharAt
<1>2. CASE k # Len(asked)
  <2>1. k \in 0..(Len(asked) - 1)
    <3>1. Len(asked) \in Nat
      BY Limits
    <3> QED BY <1>2, <3>1
  <2>2. /\ At(k + 1) = At(k) + 1 + Len(Render(asked[k + 1])) /\ At(k + 1) <= Len(fmt)
        /\ fmt[At(k) + 1] = "=" /\ asked[k + 1] \in Directive
    <3>1. Laid(k, asked[k + 1])
      BY <2>1, Layout
    <3> QED BY <3>1 DEF Laid
  <2>3. At(k) \in Nat /\ Len(fmt) \in Nat
    BY Limits
  <2>4. Len(Render(asked[k + 1])) \in Nat
    BY <2>2, RenderIs
  <2>5. At(k) + 1 <= Len(fmt)
    BY <2>2, <2>3, <2>4
  <2> QED BY <1>2, <2>2, <2>5 DEF CharAt
<1> QED BY <1>1, <1>2

\* Where the parts of the directive after the k-th begin in the format, and how its
\* characters there steer vprintfmt.
WidthAt(k, d) == At(k) + 3 + Len(d.flag)
PointAt(k, d) == At(k) + 3 + Len(d.flag) + Wide(d)
LsAt(k, d) == At(k) + 3 + Len(d.flag) + Wide(d) + Precise(d)
ConvAt(k, d) == At(k) + 3 + Len(d.flag) + Wide(d) + Precise(d) + d.l
Steered(k, d) ==
  /\ d.flag # <<>> => CharAt(At(k) + 3) = d.flag[1]
  /\ \A q \in 1..Wide(d) : CharAt(WidthAt(k, d) + q - 1) = Written(d.width, d.star)[q]
  /\ d.prec # Unset => CharAt(PointAt(k, d)) = "."
  /\ d.prec # Unset => Precise(d) = Len(Written(d.prec, d.star)) + 1
  /\ d.prec # Unset =>
       \A q \in 1..Len(Written(d.prec, d.star)) :
         CharAt(PointAt(k, d) + q) = Written(d.prec, d.star)[q]
  /\ \A j \in 0..(d.l - 1) : CharAt(LsAt(k, d) + j) = "l"
  /\ IF d.conv = <<>> THEN CharAt(ConvAt(k, d)) \in {"=", NUL} ELSE d.conv = <<CharAt(ConvAt(k, d))>>
  /\ ~IsDigit(CharAt(PointAt(k, d))) /\ ~IsDigit(CharAt(LsAt(k, d)))

\* No flag, conversion or other character is a digit; 0 is one.
LEMMA NotDigits ==
  /\ \A c \in Conversions \cup Others \cup {".", "l", "*", "-", "#", "=", NUL} : ~IsDigit(c)
  /\ "0" # "-" /\ IsDigit("0")
<1>1. \A n \in 0..9 : Digit(n) \in {"0", "1", "2", "3", "4", "5", "6", "7", "8", "9"} /\ Digit(0) = "0"
  BY DEF Digit
<1>2. \A c \in Conversions \cup {".", "l", "*", "-", "#", "=", NUL} :
        c \notin {"0", "1", "2", "3", "4", "5", "6", "7", "8", "9"}
  BY DEF Conversions, NUL
<1>3. \A c \in Others : ~IsDigit(c)
  BY PrintfAssumption
<1> QED BY <1>1, <1>2, <1>3 DEF IsDigit

\* Every directive steers vprintfmt so.
LEMMA SteeredIs ==
  ASSUME Given, NEW k \in 0..(Len(asked) - 1), NEW d, d = asked[k + 1]
  PROVE  Steered(k, d)
<1> DEFINE a == At(k)
           f == Len(d.flag)
           w == Wide(d)
           r == Precise(d)
           l == d.l
           c == d.conv
           W == Written(d.width, d.star)
           P == Written(d.prec, d.star)
           F == d.flag
           prec == d.prec
           end == At(k + 1)
           n == Len(fmt)
<1>0. Spelled(k, d)
  BY SpelledIs
<1>1. /\ d \in Directive /\ a \in Nat /\ n \in Nat
      /\ f \in 0..1 /\ w \in Nat /\ r \in Nat /\ l \in 0..2 /\ Len(c) \in 0..1
      /\ end = a + 2 + f + w + r + l + Len(c) /\ end <= n
      /\ \A q \in 1..f : fmt[a + 2 + q] = F[q]
      /\ \A q \in 1..w : fmt[a + 2 + f + q] = W[q]
      /\ \A q \in 1..r : fmt[a + 2 + f + w + q] = Point(d)[q]
      /\ \A q \in 1..l : fmt[a + 2 + f + w + r + q] = "l"
      /\ \A q \in 1..Len(c) : fmt[a + 2 + f + w + r + l + q] = c[q]
  BY <1>0 DEF Spelled
<1>2. c = <<>> \/ \E e \in Conversions \cup Others : c = <<e>>
  BY <1>1, Parts, Zenon
<1>f. F # <<>> => f = 1
  <2>1. F \in {<<>>, <<"-">>, <<"0">>}
    BY <1>1, Parts
  <2> QED BY <2>1
<1>3. k + 1 \in 0..Len(asked)
  <2>1. Len(asked) \in Nat
    BY Limits
  <2> QED BY <2>1
<1>4. CharAt(end + 1) \in {"=", NUL}
  BY <1>3, AtBoundary
<1>5. r = IF prec = Unset THEN 0 ELSE 1 + Len(P)
  BY DEF Precise
<1>6. Point(d) = IF prec = Unset THEN <<>> ELSE <<".">> \o P
  BY DEF Point
<1>7. P \in Seq(Character)
  BY <1>1, Parts
<1>8. WidthAt(k, d) = a + 3 + f /\ PointAt(k, d) = a + 3 + f + w /\ LsAt(k, d) = a + 3 + f + w + r
      /\ ConvAt(k, d) = a + 3 + f + w + r + l
  BY DEF WidthAt, PointAt, LsAt, ConvAt
<1> HIDE DEF a, f, w, r, l, c, W, P, F, prec, end, n
<1>t. \A q \in 1..n : CharAt(q) = fmt[q]
  BY <1>1 DEF CharAt, n
<1>n. a \in Nat /\ f \in Nat /\ w \in Nat /\ r \in Nat /\ l \in Nat /\ Len(c) \in Nat /\ n \in Nat
      /\ a + 2 + f + w + r + l + Len(c) <= n
  BY <1>1
<1>9. F # <<>> => CharAt(a + 3) = F[1]
  <2>1. f = 1 => 1 \in 1..f /\ a + 2 + 1 = a + 3 /\ a + 3 \in 1..n
    BY <1>n
  <2> QED BY <1>1, <1>f, <1>t, <2>1
<1>10. \A q \in 1..w : CharAt(a + 3 + f + q - 1) = W[q]
  <2> TAKE q \in 1..w
  <2>1. a + 3 + f + q - 1 = a + 2 + f + q /\ a + 2 + f + q \in 1..n
    BY <1>n
  <2> QED BY <1>1, <1>t, <2>1
<1>11. prec # Unset => CharAt(a + 3 + f + w) = "." /\ r = Len(P) + 1
                       /\ \A q \in 1..Len(P) : CharAt(a + 3 + f + w + q) = P[q]
  <2> SUFFICES ASSUME prec # Unset
               PROVE  /\ CharAt(a + 3 + f + w) = "." /\ r = Len(P) + 1
                      /\ \A q \in 1..Len(P) : CharAt(a + 3 + f + w + q) = P[q]
    OBVIOUS
  <2> DEFINE b == <<".">>
  <2>1. b \in Seq(Character) /\ Len(b) = 1 /\ b[1] = "."
    <3>1. "." \in Character
      BY Characters
    <3> QED BY <3>1
  <2>2. Point(d) = b \o P /\ r = 1 + Len(P)
    BY <1>5, <1>6
  <2> HIDE DEF b
  <2>3. /\ b \o P \in Seq(Character) /\ Len(b) \in Nat /\ Len(P) \in Nat
        /\ Len(b \o P) = Len(b) + Len(P)
        /\ \A q \in 1..Len(b) : (b \o P)[q] = b[q]
        /\ \A q \in 1..Len(P) : (b \o P)[Len(b) + q] = P[q]
    <3>1. b \in Seq(Character) /\ P \in Seq(Character)
      BY <1>7, <2>1
    <3> QED BY <3>1, Join
  <2>l. Len(P) \in Nat /\ r = 1 + Len(P)
    BY <2>2, <2>3
  <2>4. 1 \in 1..r /\ a + 2 + f + w + 1 = a + 3 + f + w /\ a + 3 + f + w \in 1..n /\ 1 \in 1..1
    BY <1>n, <2>l
  <2>5. CharAt(a + 3 + f + w) = "."
    <3>1. fmt[a + 3 + f + w] = Point(d)[1]
      BY <1>1, <2>4
    <3>2. Point(d)[1] = "."
      BY <2>1, <2>2, <2>3, <2>4
    <3> QED BY <1>t, <2>4, <3>1, <3>2
  <2>6. ASSUME NEW q \in 1..Len(P) PROVE CharAt(a + 3 + f + w + q) = P[q]
    <3>1. /\ 1 + q \in 1..r /\ a + 2 + f + w + (1 + q) = a + 3 + f + w + q
          /\ a + 3 + f + w + q \in 1..n
      BY <1>n, <2>l
    <3>2. fmt[a + 3 + f + w + q] = Point(d)[1 + q]
      BY <1>1, <3>1
    <3>3. Point(d)[1 + q] = P[q]
      BY <2>1, <2>2, <2>3
    <3> QED BY <1>t, <3>1, <3>2, <3>3
  <2>7. r = Len(P) + 1
    BY <2>l
  <2> QED BY <2>5, <2>6, <2>7
<1>12. \A j \in 0..(l - 1) : CharAt(a + 3 + f + w + r + j) = "l"
  <2> TAKE j \in 0..(l - 1)
  <2>1. /\ j + 1 \in 1..l /\ a + 2 + f + w + r + (j + 1) = a + 3 + f + w + r + j
        /\ a + 3 + f + w + r + j \in 1..n
    BY <1>n
  <2>2. fmt[a + 2 + f + w + r + (j + 1)] = "l"
    BY <1>1, <2>1, Zenon
  <2> QED BY <1>t, <2>1, <2>2
<1>13. IF c = <<>> THEN CharAt(a + 3 + f + w + r + l) \in {"=", NUL}
                   ELSE c = <<CharAt(a + 3 + f + w + r + l)>>
  <2>1. CASE c = <<>>
    <3>1. Len(c) = 0
      BY <2>1
    <3>2. a + 3 + f + w + r + l = end + 1
      BY <1>1, <1>n, <3>1
    <3> QED BY <1>4, <2>1, <3>2
  <2>2. CASE c # <<>>
    <3>1. PICK e : c = <<e>>
      BY <1>2, <2>2
    <3>2. Len(c) = 1 /\ c[1] = e
      BY <3>1
    <3>3. /\ 1 \in 1..Len(c) /\ a + 2 + f + w + r + l + 1 = a + 3 + f + w + r + l
          /\ a + 3 + f + w + r + l \in 1..n
      BY <1>n, <3>2
    <3>4. CharAt(a + 3 + f + w + r + l) = e
      BY <1>1, <1>t, <3>2, <3>3
    <3> QED BY <2>2, <3>1, <3>4
  <2> QED BY <2>1, <2>2
<1>14. ~IsDigit(CharAt(a + 3 + f + w + r))
  <2>1. CASE l = 0
    <3>1. a + 3 + f + w + r = a + 3 + f + w + r + l
      BY <1>n, <2>1
    <3>2. \A x, y : <<x>> = <<y>> => x = y
      OBVIOUS
    <3>3. CharAt(a + 3 + f + w + r + l) \in {"=", NUL} \cup Conversions \cup Others
      BY <1>2, <1>13, <3>2
    <3> QED BY <3>1, <3>3, NotDigits
  <2>2. CASE l # 0
    <3>1. 0 \in 0..(l - 1) /\ a + 3 + f + w + r + 0 = a + 3 + f + w + r
      BY <1>n, <2>2
    <3>2. CharAt(a + 3 + f + w + r) = "l"
      BY <1>12, <3>1
    <3> QED BY <3>2, NotDigits
  <2> QED BY <2>1, <2>2
<1>15. ~IsDigit(CharAt(a + 3 + f + w))
  <2>1. CASE prec = Unset
    <3>1. a + 3 + f + w + r = a + 3 + f + w
      BY <1>5, <1>n, <2>1
    <3> QED BY <1>14, <3>1
  <2>2. CASE prec # Unset
    BY <1>11, <2>2, NotDigits
  <2> QED BY <2>1, <2>2
<1> QED
  BY <1>8, <1>9, <1>10, <1>11, <1>12, <1>13, <1>14, <1>15 DEF Steered, a, f, w, r, l, c, W, P, F, prec

--------------------------------------------------------------------------------
(* The steps.                                                                  *)

\* In a directive the character decides which action there is.
Dispatched ==
  /\ ch \in {"-", "0", ".", "#", "l"} => Modifier
  /\ IsDigit(ch) /\ ch # "0" => InFormat
  /\ ch = "*" => Star
  /\ ch = "c" => Char
  /\ ch = "s" => String
  /\ ch = "d" => Decimal
  /\ ch \in {"u", "o", "x", "p"} => Unsigned
  /\ ch = "%" => Escaped
  /\ ch \notin Cases /\ ~IsDigit(ch) => Default

\* The cases of the switch exclude one another.
LEMMA DispatchedIs ==
  ASSUME FmtNext, spec # NoSpec
  PROVE  Dispatched
<1>1. \/ ch \in {"-", "0", ".", "#", "l"} /\ Modifier
      \/ (IsDigit(ch) /\ ch # "0") /\ InFormat
      \/ ch = "*" /\ Star
      \/ ch = "c" /\ Char
      \/ ch = "s" /\ String
      \/ ch = "d" /\ Decimal
      \/ ch \in {"u", "o", "x", "p"} /\ Unsigned
      \/ ch = "%" /\ Escaped
      \/ (ch \notin Cases /\ ~IsDigit(ch)) /\ Default
  <2>1. ~Literal /\ ~Percent /\ ~Return
    BY Zenon DEF Literal, Percent, Return, InText
  <2>2. /\ Modifier => ch \in {"-", "0", ".", "#", "l"}
        /\ InFormat => IsDigit(ch) /\ ch # "0"
        /\ Star => ch = "*"
    BY Zenon DEF Modifier, InFormat, Star
  <2>3. /\ Char => ch = "c"
        /\ String => ch = "s"
        /\ Decimal => ch = "d"
        /\ Unsigned => ch \in {"u", "o", "x", "p"}
        /\ Escaped => ch = "%"
    BY Zenon DEF Char, String, Decimal, Unsigned, Escaped
  <2>4. Default => ch \notin Cases /\ ~IsDigit(ch)
    BY Zenon DEF Default
  <2> QED BY <2>1, <2>2, <2>3, <2>4, Zenon DEF FmtNext
<1>2. \A c \in {"-", ".", "#", "l", "*", "c", "s", "d", "u", "o", "x", "p", "%"} : ~IsDigit(c)
  BY NotDigits DEF Conversions
<1>3. \A c \in {"-", "0", ".", "#", "l", "*", "c", "s", "d", "u", "o", "x", "p", "%"} : c \in Cases
  BY DEF Cases
<1> DEFINE e == ch
<1>4. \/ e \in {"-", "0", ".", "#", "l"} /\ Modifier
      \/ (IsDigit(e) /\ e # "0") /\ InFormat
      \/ e = "*" /\ Star
      \/ e = "c" /\ Char
      \/ e = "s" /\ String
      \/ e = "d" /\ Decimal
      \/ e \in {"u", "o", "x", "p"} /\ Unsigned
      \/ e = "%" /\ Escaped
      \/ (e \notin Cases /\ ~IsDigit(e)) /\ Default
  BY <1>1
<1> HIDE DEF e
<1> QED BY <1>2, <1>3, <1>4, SMT DEF Dispatched, e

\* A number of a directive, read off the format or taken from the arguments.
LEMMA NumberStep ==
  ASSUME FmtNext, spec # NoSpec, p \in Nat \ {0}, ap \in Nat, Len(fmt) \in Nat,
         NEW v \in 0..(Word \div 2 - 1), NEW star \in BOOLEAN, ~star => v # 0,
         star => args[ap] = Number(v),
         \A q \in 1..Len(Written(v, star)) : CharAt(p + q - 1) = Written(v, star)[q],
         ~IsDigit(CharAt(p + Len(Written(v, star))))
  PROVE  /\ ProcessPrecision(v) /\ p' = p + Len(Written(v, star))
         /\ ap' = ap + (IF star THEN 1 ELSE 0) /\ out' = out
<1>0. Dispatched /\ ch = CharAt(p) /\ v # Unset /\ v \in Nat
  <2>1. Word \in Nat
    BY PrintfAssumption
  <2>2. v \in Nat
    BY <2>1
  <2> QED BY <2>2, DispatchedIs DEF ch, CharAt, Unset
<1>1. CASE star
  <2>1. Written(v, star) = <<"*">>
    BY <1>0, <1>1 DEF Written
  <2>2. Len(Written(v, star)) = 1 /\ Written(v, star)[1] = "*" /\ p + 1 - 1 = p
    BY <2>1
  <2>3. ch = "*"
    <3>1. 1 \in 1..Len(Written(v, star))
      BY <2>2
    <3> QED BY <1>0, <2>2, <3>1
  <2>4. Star
    BY <1>0, <2>3 DEF Dispatched
  <2>5. getint(0) = v
    <3>1. Word \in Nat \ {0, 1} /\ Reg \in Nat /\ Reg >= Word
      BY PrintfAssumption
    <3>2. v % Reg = v /\ v % Word = v /\ v < Word \div 2
      BY <3>1, SMTT(30)
    <3>3. args[ap].num = v % Reg
      BY <1>1 DEF Number, Arg
    <3>4. args[ap].num = v
      BY <3>2, <3>3
    <3>5. getint(0) = Signed(v, Word)
      BY <3>4 DEF getint, Width
    <3> QED BY <3>2, <3>5 DEF Signed
  <2> QED BY <1>1, <2>2, <2>4, <2>5 DEF Star
<1>2. CASE ~star
  <2> DEFINE m == DigitCount(v, 10)
             W == Positional(v, 10)
  <2>1. Written(v, star) = W
    BY <1>0, <1>2 DEF Written
  <2>2. m \in Nat \ {0} /\ Len(W) = m
    <3>1. 10 \in 2..16
      OBVIOUS
    <3> QED BY <1>0, <3>1, PositionalIs
  <2>3. /\ \A j \in 1..m : IsDigit(W[j])
        /\ W[1] # "0"
    <3>1. v > 0
      BY <1>0, <1>2
    <3> QED BY <1>0, <3>1, NumeralDigits
  <2>4. /\ \A q \in 1..m : CharAt(p + q - 1) = W[q]
        /\ ~IsDigit(CharAt(p + m))
    BY <2>1, <2>2
  <2>5. p' = RunEnd /\ ProcessPrecision(NumberTo(RunEnd - 1)) /\ ap' = ap /\ out' = out
    <3>1. 1 \in 1..m /\ p + 1 - 1 = p
      BY <2>2
    <3>2. IsDigit(ch) /\ ch # "0"
      <4> HIDE DEF m, W
      <4> QED BY <1>0, <2>3, <2>4, <3>1
    <3>3. InFormat
      BY <1>0, <3>2 DEF Dispatched
    <3> QED BY <3>3 DEF InFormat
  <2>6. \A q \in 1..m : p + q - 1 \in 1..Len(fmt) /\ fmt[p + q - 1] = W[q]
    <3> HIDE DEF m, W
    <3> TAKE q \in 1..m
    <3>1. ~IsDigit(NUL)
      BY NotDigits
    <3>2. CharAt(p + q - 1) # NUL
      BY <2>3, <2>4, <3>1
    <3>3. p + q - 1 <= Len(fmt)
      BY <3>2 DEF CharAt
    <3>4. p + q - 1 \in Nat \ {0}
      BY <2>2
    <3> QED BY <2>4, <3>3, <3>4 DEF CharAt
  <2>7. p + m \in p..(Len(fmt) + 1)
    <3> HIDE DEF m, W
    <3>1. m \in 1..m
      BY <2>2
    <3>2. p + m - 1 \in 1..Len(fmt)
      BY <2>6, <3>1
    <3> QED BY <2>2, <3>2
  <2>8. RunEnd = p + m
    <3> DEFINE e == p + m
    <3>1. e \in p..(Len(fmt) + 1)
      BY <2>7
    <3>2. \A j \in p..(e - 1) : IsDigit(fmt[j])
      <4> TAKE j \in p..(e - 1)
      <4>1. j - p + 1 \in 1..m /\ p + (j - p + 1) - 1 = j
        <5> HIDE DEF m
        <5> QED BY <2>2
      <4> HIDE DEF m, W
      <4> QED BY <2>3, <2>6, <4>1
    <3>3. e = Len(fmt) + 1 \/ ~IsDigit(fmt[e])
      <4>1. e # Len(fmt) + 1 => e <= Len(fmt)
        BY <3>1
      <4> HIDE DEF m, W
      <4> QED BY <2>4, <4>1 DEF CharAt
    <3> HIDE DEF e
    <3>4. RunEnd = e
      BY <3>1, <3>2, <3>3, RunEndIs
    <3> QED BY <3>4 DEF e
  <2>9. NumberTo(RunEnd - 1) = v
    <3>1. \A j \in 1..DigitCount(v, 10) : fmt[p + j - 1] = Positional(v, 10)[j]
      BY <2>6
    <3>2. NumberTo(p + m - 1) = v
      <4>1. p \in Nat
        OBVIOUS
      <4>2. v \in Nat
        BY <1>0
      <4>3. NumberTo(p + DigitCount(v, 10) - 1) = v
        BY <3>1, <4>1, <4>2, NumberRead, Zenon
      <4> QED BY <4>3
    <3> HIDE DEF m
    <3>3. RunEnd - 1 = p + m - 1
      BY <2>2, <2>8
    <3> QED BY <3>2, <3>3
  <2>10. p' = p + Len(Written(v, star)) /\ ap' = ap + 0
    <3>1. ap + 0 = ap
      OBVIOUS
    <3> QED BY <2>1, <2>2, <2>5, <2>8, <3>1
  <2> QED BY <1>2, <2>5, <2>9, <2>10
<1> QED BY <1>1, <1>2

\* What a directive leaves out is skipped.
LEMMA Skips ==
  ASSUME NEW k, NEW d \in Directive
  PROVE  /\ d.flag = <<>> => Reading(k, 0, 0, " ", Unset, Unset, 0) = AfterFlag(k, d)
         /\ d.width = Unset => AfterFlag(k, d) = AfterWidth(k, d)
         /\ d.prec = Unset => AfterWidth(k, d) = AfterPrec(k, d, 0)
<1>1. Len(d.flag) \in Nat /\ Wide(d) \in Nat /\ WideArgs(d) \in Nat
  <2>1. WideArgs(d) = (IF d.star /\ d.width # Unset THEN 1 ELSE 0)
    BY PassedIs
  <2> QED BY <2>1, RenderIs
<1>2. d.flag = <<>> => Len(d.flag) = 0 /\ Pad(d) = " "
  BY DEF Pad
<1>3. d.width = Unset => Wide(d) = 0 /\ WideArgs(d) = 0
  BY DEF Wide, WideArgs, Written, Starred
<1>4. d.prec = Unset => Precise(d) = 0 /\ PreciseArgs(d) = 0
  BY DEF Precise, PreciseArgs, Starred
<1>5. \A n \in Nat : n + 0 = n
  OBVIOUS
<1>6. ASSUME d.flag = <<>> PROVE Reading(k, 0, 0, " ", Unset, Unset, 0) = AfterFlag(k, d)
  BY <1>2, <1>6 DEF AfterFlag
<1>7. ASSUME d.width = Unset PROVE AfterFlag(k, d) = AfterWidth(k, d)
  BY <1>1, <1>3, <1>5, <1>7 DEF AfterFlag, AfterWidth
<1>8. ASSUME d.prec = Unset PROVE AfterWidth(k, d) = AfterPrec(k, d, 0)
  <2>1. /\ Len(d.flag) + Wide(d) + Precise(d) + 0 = Len(d.flag) + Wide(d)
        /\ WideArgs(d) + PreciseArgs(d) = WideArgs(d)
    BY <1>1, <1>4, <1>8
  <2> QED BY <1>8, <2>1, Zenon DEF AfterWidth, AfterPrec
<1> QED BY <1>6, <1>7, <1>8

\* Every part of a directive leads into it, even when it is left out.
LEMMA InsideIs ==
  ASSUME NEW k, NEW d \in Directive, NEW x
  PROVE  /\ x = Reading(k, 0, 0, " ", Unset, Unset, 0) => Inside(x, k, d)
         /\ x = AfterFlag(k, d) => Inside(x, k, d)
         /\ x = AfterWidth(k, d) => Inside(x, k, d)
         /\ x = AfterDot(k, d) /\ d.prec # Unset => Inside(x, k, d)
         /\ \A j \in 0..d.l : x = AfterPrec(k, d, j) => Inside(x, k, d)
<1>1. 0 \in 0..d.l
  <2>1. d.l \in 0..2
    BY Parts
  <2> QED BY <2>1
<1>2. \A j \in 0..d.l : x = AfterPrec(k, d, j) => Inside(x, k, d)
  BY Zenon DEF Inside
<1>3. x = AfterWidth(k, d) => Inside(x, k, d)
  BY <1>1, <1>2, Skips, Zenon DEF Inside
<1>4. x = AfterFlag(k, d) => Inside(x, k, d)
  BY <1>3, Skips, Zenon DEF Inside
<1>5. x = Reading(k, 0, 0, " ", Unset, Unset, 0) => Inside(x, k, d)
  BY <1>4, Skips, Zenon DEF Inside
<1>6. x = AfterDot(k, d) /\ d.prec # Unset => Inside(x, k, d)
  BY Zenon DEF Inside
<1> QED BY <1>2, <1>3, <1>4, <1>5, <1>6, Zenon

\* Where reading is, one variable at a time.
LEMMA ReadingIs ==
  ASSUME NEW k, NEW n \in Nat, NEW t \in Nat, NEW padc, NEW width, NEW precision, NEW lflag,
         At(k) \in Nat, Used(k) \in Nat,
         place = Reading(k, n, t, padc, width, precision, lflag)
  PROVE  /\ p = At(k) + 3 + n /\ ap = Used(k) + 1 + t /\ out = Due(k) \o Between
         /\ spec = [padc |-> padc, width |-> width, precision |-> precision, lflag |-> lflag,
                    last_fmt |-> At(k) + 3]
         /\ p \in Nat \ {0} /\ ap \in Nat /\ spec # NoSpec
<1>1. /\ p = At(k) + 3 + n /\ ap = Used(k) + 1 + t /\ out = Due(k) \o Between
      /\ spec = [padc |-> padc, width |-> width, precision |-> precision, lflag |-> lflag,
                 last_fmt |-> At(k) + 3]
  BY DEF place, Reading
<1>2. spec.last_fmt = At(k) + 3 /\ NoSpec.last_fmt = 0
  BY <1>1 DEF NoSpec
<1>3. At(k) + 3 # 0
  OBVIOUS
<1>4. spec # NoSpec
  BY <1>2, <1>3
<1>5. p \in Nat \ {0} /\ ap \in Nat
  BY <1>1
<1> QED BY <1>1, <1>4, <1>5

\* The arguments that the directive after the k-th finds.
Supplied(k, d) ==
  /\ d.star /\ d.width # Unset => args[Used(k) + 1] = Number(d.width)
  /\ d.star /\ d.prec # Unset => args[Used(k) + 1 + WideArgs(d)] = Number(d.prec)
  /\ Known(d) /\ d.conv # <<"%">> => args[Used(k) + 1 + (WideArgs(d) + PreciseArgs(d))] = d.arg
  /\ Used(k + 1) = Used(k) + (WideArgs(d) + PreciseArgs(d))
                     + (IF Known(d) /\ d.conv # <<"%">> THEN 1 ELSE 0)

\* Every directive finds its own arguments.
LEMMA SuppliedIs ==
  ASSUME Given, NEW k \in 0..(Len(asked) - 1), NEW d, d = asked[k + 1]
  PROVE  Supplied(k, d)
<1> DEFINE u == Used(k)
           w == WideArgs(d)
           r == PreciseArgs(d)
           c == IF Known(d) /\ d.conv # <<"%">> THEN 1 ELSE 0
           P == Passed(d)
<1>1. /\ d \in Directive /\ k \in 0..Len(asked) /\ Used(k + 1) = u + Len(P)
      /\ \A q \in 1..Len(P) : args[u + q] = P[q]
  <2>1. Laid(k, d)
    BY Layout
  <2> QED BY <2>1, Zenon DEF Laid
<1>2. u \in Nat
  BY <1>1, Limits
<1>3. /\ w = (IF d.star /\ d.width # Unset THEN 1 ELSE 0)
      /\ r = (IF d.star /\ d.prec # Unset THEN 1 ELSE 0)
      /\ Len(P) = w + r + c
      /\ d.star /\ d.width # Unset => P[1] = Number(d.width)
      /\ d.star /\ d.prec # Unset => P[w + 1] = Number(d.prec)
      /\ Known(d) /\ d.conv # <<"%">> => P[w + r + 1] = d.arg
  BY <1>1, PassedIs
<1>4. c \in 0..1 /\ (Known(d) /\ d.conv # <<"%">> => c = 1)
  OBVIOUS
<1>5. w \in 0..1 /\ r \in 0..1
  BY <1>3
<1> HIDE DEF u, w, r, c, P
<1>6. Used(k + 1) = u + (w + r) + c
  BY <1>1, <1>2, <1>3, <1>4, <1>5
<1>7. d.star /\ d.width # Unset => args[u + 1] = Number(d.width)
  <2>1. w = 1 => 1 \in 1..(w + r + c)
    BY <1>4, <1>5
  <2> QED BY <1>1, <1>3, <2>1
<1>8. d.star /\ d.prec # Unset => args[u + 1 + w] = Number(d.prec)
  <2>1. u + 1 + w = u + (w + 1) /\ (r = 1 => w + 1 \in 1..(w + r + c))
    BY <1>2, <1>4, <1>5
  <2> QED BY <1>1, <1>3, <2>1
<1>9. Known(d) /\ d.conv # <<"%">> => args[u + 1 + (w + r)] = d.arg
  <2>1. u + 1 + (w + r) = u + (w + r + 1) /\ (c = 1 => w + r + 1 \in 1..(w + r + c))
    BY <1>2, <1>4, <1>5
  <2> QED BY <1>1, <1>3, <1>4, <2>1
<1> QED BY <1>6, <1>7, <1>8, <1>9 DEF Supplied, u, w, r, c

\* A step of a call that has asked for nothing on which the code leaves ISO C.
Going == Given /\ AllConform /\ written = Unset /\ FmtNext

\* What every step inside the directive after the k-th relies on.
Inner(k, d) ==
  /\ k \in 0..(Len(asked) - 1) /\ d = asked[k + 1] /\ d \in Directive /\ Conforms(d)
  /\ At(k) \in Nat /\ Used(k) \in Nat /\ Len(fmt) \in Nat
  /\ Len(d.flag) \in Nat /\ Wide(d) \in Nat /\ Precise(d) \in Nat /\ d.l \in Nat
  /\ WideArgs(d) \in Nat /\ PreciseArgs(d) \in Nat
  /\ Steered(k, d) /\ Supplied(k, d)

\* It holds of every directive on which the code keeps to ISO C.
LEMMA InnerIs ==
  ASSUME Going, NEW k \in 0..(Len(asked) - 1), NEW d, d = asked[k + 1]
  PROVE  Inner(k, d)
<1>1. Given /\ AllConform
  BY DEF Going
<1>2. Spelled(k, d) /\ Steered(k, d)
  BY <1>1, SpelledIs, SteeredIs
<1>3. /\ d \in Directive /\ At(k) \in Nat /\ Len(fmt) \in Nat
      /\ Len(d.flag) \in Nat /\ Wide(d) \in Nat /\ Precise(d) \in Nat /\ d.l \in Nat
  BY <1>2, SMTT(30) DEF Spelled
<1>4. WideArgs(d) \in Nat /\ PreciseArgs(d) \in Nat
  <2>1. WideArgs(d) = (IF d.star /\ d.width # Unset THEN 1 ELSE 0)
        /\ PreciseArgs(d) = (IF d.star /\ d.prec # Unset THEN 1 ELSE 0)
    BY <1>3, PassedIs
  <2> QED BY <2>1
<1>5. Used(k) \in Nat /\ k + 1 \in DOMAIN asked
  <2>1. Len(asked) \in Nat /\ asked \in Seq(Directive)
    BY <1>1, Limits DEF Given
  <2>2. k \in 0..Len(asked)
    BY <2>1
  <2> QED BY <1>1, <2>1, <2>2, Limits
<1>6. Conforms(d)
  BY <1>1, <1>5 DEF AllConform
<1>7. Supplied(k, d)
  BY <1>1, SuppliedIs
<1> QED BY <1>2, <1>3, <1>4, <1>5, <1>6, <1>7 DEF Inner

\* The flag.
LEMMA FlagStep ==
  ASSUME Going, NEW k, NEW d, Inner(k, d)
  PROVE  d.flag # <<>> /\ place = Reading(k, 0, 0, " ", Unset, Unset, 0) => place' = AfterFlag(k, d)
<1>0. SUFFICES ASSUME d.flag # <<>>, place = Reading(k, 0, 0, " ", Unset, Unset, 0)
               PROVE  place' = AfterFlag(k, d)
  OBVIOUS
<1>1. /\ d \in Directive /\ At(k) \in Nat /\ Used(k) \in Nat /\ Steered(k, d)
  BY DEF Inner
<1>2. /\ p = At(k) + 3 + 0 /\ ap = Used(k) + 1 + 0 /\ out = Due(k) \o Between
      /\ spec = [padc |-> " ", width |-> Unset, precision |-> Unset, lflag |-> 0,
                 last_fmt |-> At(k) + 3]
      /\ p \in Nat \ {0} /\ ap \in Nat /\ spec # NoSpec
  <2>1. 0 \in Nat
    OBVIOUS
  <2> QED BY <1>0, <1>1, <2>1, ReadingIs, Zenon
<1>3. Dispatched
  BY <1>2, DispatchedIs DEF Going
<1>4. d.flag \in {<<"-">>, <<"0">>}
  BY <1>0, <1>1, Parts
<1>5. Len(d.flag) = 1 /\ d.flag[1] \in {"-", "0"} /\ Pad(d) = d.flag[1]
  <2>1. \A c : Len(<<c>>) = 1 /\ <<c>>[1] = c
    OBVIOUS
  <2>2. \E c \in {"-", "0"} : d.flag = <<c>>
    BY <1>4
  <2> QED BY <1>0, <2>1, <2>2, Zenon DEF Pad
<1>6. p = At(k) + 3
  <2>1. \A a \in Nat : a + 3 + 0 = a + 3
    OBVIOUS
  <2> QED BY <1>1, <1>2, <2>1, Zenon
<1>7. ch = d.flag[1]
  BY <1>0, <1>1, <1>6 DEF Steered, ch, CharAt
<1>8. Modifier
  BY <1>3, <1>5, <1>7 DEF Dispatched
<1>9. spec' = [spec EXCEPT !.padc = ch] /\ p' = p + 1 /\ ap' = ap /\ out' = out
  BY <1>5, <1>7, <1>8 DEF Modifier
<1>10. spec' = [padc |-> Pad(d), width |-> Unset, precision |-> Unset, lflag |-> 0,
                last_fmt |-> At(k) + 3]
  BY <1>2, <1>5, <1>7, <1>9
<1>11. p' = At(k) + 3 + Len(d.flag)
  BY <1>1, <1>5, <1>6, <1>9
<1> QED BY <1>2, <1>9, <1>10, <1>11 DEF place, AfterFlag, Reading

\* The width.
LEMMA WidthStep ==
  ASSUME Going, NEW k, NEW d, Inner(k, d)
  PROVE  d.width # Unset /\ place = AfterFlag(k, d) => place' = AfterWidth(k, d)
<1>0. SUFFICES ASSUME d.width # Unset, place = AfterFlag(k, d)
               PROVE  place' = AfterWidth(k, d)
  OBVIOUS
<1>1. /\ d \in Directive /\ At(k) \in Nat /\ Used(k) \in Nat /\ Len(fmt) \in Nat /\ Conforms(d)
      /\ Len(d.flag) \in Nat /\ Wide(d) \in Nat /\ Steered(k, d) /\ Supplied(k, d)
  BY DEF Inner
<1>2. /\ p = At(k) + 3 + Len(d.flag) /\ ap = Used(k) + 1 + 0 /\ out = Due(k) \o Between
      /\ spec = [padc |-> Pad(d), width |-> Unset, precision |-> Unset, lflag |-> 0,
                 last_fmt |-> At(k) + 3]
      /\ p \in Nat \ {0} /\ ap \in Nat /\ spec # NoSpec
  <2>1. 0 \in Nat /\ place = Reading(k, Len(d.flag), 0, Pad(d), Unset, Unset, 0)
    BY <1>0 DEF AfterFlag
  <2> QED BY <1>1, <2>1, ReadingIs
<1> DEFINE v == d.width
           star == d.star
<1>3. v \in 0..(Word \div 2 - 1) /\ star \in BOOLEAN /\ (~star => v # 0)
  <2>1. v \in Size /\ star \in BOOLEAN
    BY <1>1, Parts
  <2>2. 0 = v => star
    BY <1>1 DEF Conforms
  <2> QED BY <1>0, <2>1, <2>2 DEF Size
<1>4. star => args[ap] = Number(v)
  <2>1. ap = Used(k) + 1
    BY <1>1, <1>2
  <2> QED BY <1>0, <1>1, <2>1 DEF Supplied
<1>5. \A q \in 1..Len(Written(v, star)) : CharAt(p + q - 1) = Written(v, star)[q]
  BY <1>1, <1>2 DEF Steered, WidthAt, Wide
<1>6. ~IsDigit(CharAt(p + Len(Written(v, star))))
  BY <1>1, <1>2 DEF Steered, PointAt, Wide
<1>7. WideArgs(d) = IF star THEN 1 ELSE 0
  BY <1>0, <1>1, PassedIs
<1>8. Wide(d) = Len(Written(v, star))
  BY DEF Wide
<1> HIDE DEF v, star
<1>9. /\ ProcessPrecision(v) /\ p' = p + Len(Written(v, star))
      /\ ap' = ap + (IF star THEN 1 ELSE 0) /\ out' = out
  <2>1. FmtNext
    BY DEF Going
  <2> QED BY <1>1, <1>2, <1>3, <1>4, <1>5, <1>6, <2>1, NumberStep
<1>10. spec' = [padc |-> Pad(d), width |-> v, precision |-> Unset, lflag |-> 0,
                last_fmt |-> At(k) + 3]
  <2>1. spec.width < 0
    BY <1>2 DEF Unset
  <2>2. spec' = [spec EXCEPT !.width = v, !.precision = Unset]
    BY <1>9, <2>1 DEF ProcessPrecision
  <2> QED BY <1>2, <2>2
<1>11. p' = At(k) + 3 + (Len(d.flag) + Wide(d)) /\ ap' = Used(k) + 1 + WideArgs(d)
  <2>1. /\ \A a, f, w \in Nat : (a + 3 + f) + w = a + 3 + (f + w)
        /\ \A u, g \in Nat : (u + 1 + 0) + g = u + 1 + g
    OBVIOUS
  <2>2. p' = (At(k) + 3 + Len(d.flag)) + Wide(d) /\ ap' = (Used(k) + 1 + 0) + WideArgs(d)
    BY <1>2, <1>7, <1>8, <1>9, Zenon
  <2>3. WideArgs(d) \in Nat
    BY DEF Inner
  <2> QED BY <1>1, <2>1, <2>2, <2>3, Zenon
<1> QED BY <1>2, <1>9, <1>10, <1>11 DEF place, AfterWidth, Reading, v

\* The point: the width is 0 if there was none.
LEMMA DotStep ==
  ASSUME Going, NEW k, NEW d, Inner(k, d)
  PROVE  d.prec # Unset /\ place = AfterWidth(k, d) => place' = AfterDot(k, d)
<1>0. SUFFICES ASSUME d.prec # Unset, place = AfterWidth(k, d)
               PROVE  place' = AfterDot(k, d)
  OBVIOUS
<1>1. /\ d \in Directive /\ At(k) \in Nat /\ Used(k) \in Nat /\ Steered(k, d)
      /\ Len(d.flag) \in Nat /\ Wide(d) \in Nat /\ WideArgs(d) \in Nat
  BY DEF Inner
<1>n. Len(d.flag) + Wide(d) \in Nat
  BY <1>1
<1>2. /\ p = At(k) + 3 + (Len(d.flag) + Wide(d)) /\ ap = Used(k) + 1 + WideArgs(d) /\ out = Due(k) \o Between
      /\ spec = [padc |-> Pad(d), width |-> d.width, precision |-> Unset, lflag |-> 0,
                 last_fmt |-> At(k) + 3]
      /\ p \in Nat \ {0} /\ ap \in Nat /\ spec # NoSpec
  <2>1. place = Reading(k, Len(d.flag) + Wide(d), WideArgs(d), Pad(d), d.width, Unset, 0)
    BY <1>0 DEF AfterWidth
  <2> QED BY <1>1, <1>n, <2>1, ReadingIs
<1>3. Dispatched
  BY <1>2, DispatchedIs DEF Going
<1>4. p = PointAt(k, d)
  BY <1>1, <1>2 DEF PointAt
<1>5. ch = "."
  BY <1>0, <1>1, <1>4 DEF Steered, ch, CharAt
<1>6. Modifier
  BY <1>3, <1>5 DEF Dispatched
<1>7. /\ spec' = (IF spec.width < 0 THEN [spec EXCEPT !.width = 0] ELSE spec)
      /\ p' = p + 1 /\ ap' = ap /\ out' = out
  BY <1>5, <1>6 DEF Modifier
<1>8. d.width # Unset => d.width \in Nat
  <2>1. d.width \in Size
    BY <1>1, Parts
  <2>2. \A n \in Size : n # Unset => n \in Nat
    <3>1. Word \in Nat
      BY PrintfAssumption
    <3> QED BY <3>1 DEF Size
  <2> QED BY <2>1, <2>2
<1>9. spec' = [padc |-> Pad(d), width |-> OrZero(d.width), precision |-> Unset, lflag |-> 0,
               last_fmt |-> At(k) + 3]
  <2>1. CASE d.width = Unset
    BY <1>2, <1>7, <2>1 DEF OrZero, Unset
  <2>2. CASE d.width # Unset
    <3>1. ~(d.width < 0) /\ spec.width = d.width
      BY <1>2, <1>8, <2>2
    <3>2. spec' = spec
      BY <1>7, <3>1
    <3> QED BY <1>2, <2>2, <3>2 DEF OrZero
  <2> QED BY <2>1, <2>2
<1>10. p' = At(k) + 3 + (Len(d.flag) + Wide(d) + 1)
  <2>1. \A a, f, w \in Nat : (a + 3 + (f + w)) + 1 = a + 3 + (f + w + 1)
    OBVIOUS
  <2>2. p' = (At(k) + 3 + (Len(d.flag) + Wide(d))) + 1
    BY <1>2, <1>7, Zenon
  <2> QED BY <1>1, <2>1, <2>2, Zenon
<1> QED BY <1>2, <1>7, <1>9, <1>10 DEF place, AfterDot, Reading

\* The precision.
LEMMA PrecStep ==
  ASSUME Going, NEW k, NEW d, Inner(k, d)
  PROVE  d.prec # Unset /\ place = AfterDot(k, d) => place' = AfterPrec(k, d, 0)
<1>0. SUFFICES ASSUME d.prec # Unset, place = AfterDot(k, d)
               PROVE  place' = AfterPrec(k, d, 0)
  OBVIOUS
<1>1. /\ d \in Directive /\ At(k) \in Nat /\ Used(k) \in Nat /\ Len(fmt) \in Nat /\ Conforms(d)
      /\ Len(d.flag) \in Nat /\ Wide(d) \in Nat /\ Precise(d) \in Nat
      /\ WideArgs(d) \in Nat /\ PreciseArgs(d) \in Nat
      /\ Steered(k, d) /\ Supplied(k, d)
  BY DEF Inner
<1>n. Len(d.flag) + Wide(d) + 1 \in Nat
  BY <1>1
<1>2. /\ p = At(k) + 3 + (Len(d.flag) + Wide(d) + 1) /\ ap = Used(k) + 1 + WideArgs(d)
      /\ out = Due(k) \o Between
      /\ spec = [padc |-> Pad(d), width |-> OrZero(d.width), precision |-> Unset, lflag |-> 0,
                 last_fmt |-> At(k) + 3]
      /\ p \in Nat \ {0} /\ ap \in Nat /\ spec # NoSpec
  <2>1. place = Reading(k, Len(d.flag) + Wide(d) + 1, WideArgs(d), Pad(d), OrZero(d.width), Unset, 0)
    BY <1>0 DEF AfterDot
  <2> QED BY <1>1, <1>n, <2>1, ReadingIs, SMTT(30)
<1> DEFINE v == d.prec
           star == d.star
           W == Written(v, star)
           at == PointAt(k, d)
<1>3. v \in 0..(Word \div 2 - 1) /\ star \in BOOLEAN /\ (~star => v # 0)
  <2>1. v \in Size /\ star \in BOOLEAN
    BY <1>1, Parts
  <2>2. 0 = v => star
    BY <1>1 DEF Conforms
  <2> QED BY <1>0, <2>1, <2>2 DEF Size
<1>4. star => args[ap] = Number(v)
  BY <1>0, <1>1, <1>2 DEF Supplied
<1>5. /\ \A q \in 1..Len(W) : CharAt(at + q) = W[q]
      /\ ~IsDigit(CharAt(LsAt(k, d))) /\ Precise(d) = Len(W) + 1
  BY <1>0, <1>1 DEF Steered
<1>6. Len(W) \in Nat
  <2>1. W \in Seq(Character)
    BY <1>1, Parts
  <2> HIDE DEF W
  <2> QED BY <2>1
<1>7. PreciseArgs(d) = IF star THEN 1 ELSE 0
  BY <1>0, <1>1, PassedIs
<1>8. at \in Nat /\ p = at + 1 /\ LsAt(k, d) = p + Len(W)
  <2> DEFINE a == At(k)
             f == Len(d.flag)
             w == Wide(d)
             r == Precise(d)
             l == Len(W)
             e == LsAt(k, d)
  <2>1. /\ a \in Nat /\ f \in Nat /\ w \in Nat /\ l \in Nat /\ r = l + 1
        /\ p = a + 3 + (f + w + 1) /\ at = a + 3 + f + w /\ e = a + 3 + f + w + r
    BY <1>1, <1>2, <1>5, <1>6 DEF PointAt, LsAt
  <2> HIDE DEF a, f, w, r, l, e, at
  <2>2. at \in Nat /\ p = at + 1 /\ e = p + l
    BY <2>1
  <2> QED BY <2>2 DEF l, e
<1> HIDE DEF v, star, at
<1>9. \A q \in 1..Len(W) : CharAt(p + q - 1) = W[q]
  <2> HIDE DEF W
  <2> TAKE q \in 1..Len(W)
  <2>1. p + q - 1 = at + q
    BY <1>6, <1>8
  <2> QED BY <1>5, <2>1
<1>10. /\ ProcessPrecision(v) /\ p' = p + Len(W)
       /\ ap' = ap + (IF star THEN 1 ELSE 0) /\ out' = out
  <2>1. FmtNext
    BY DEF Going
  <2>2. ~IsDigit(CharAt(p + Len(W)))
    BY <1>5, <1>8
  <2> QED BY <1>1, <1>2, <1>3, <1>4, <1>9, <2>1, <2>2, NumberStep
<1>11. spec' = [padc |-> Pad(d), width |-> OrZero(d.width), precision |-> v, lflag |-> 0,
                last_fmt |-> At(k) + 3]
  <2>1. OrZero(d.width) \in Nat
    <3>1. d.width \in Size
      BY <1>1, Parts
    <3>2. Word \in Nat
      BY PrintfAssumption
    <3> QED BY <3>1, <3>2 DEF Size, OrZero
  <2>2. ~(spec.width < 0)
    BY <1>2, <2>1
  <2>3. spec' = [spec EXCEPT !.precision = v]
    BY <1>10, <2>2 DEF ProcessPrecision
  <2> QED BY <1>2, <2>3
<1>12. /\ p' = At(k) + 3 + (Len(d.flag) + Wide(d) + Precise(d) + 0)
       /\ ap' = Used(k) + 1 + (WideArgs(d) + PreciseArgs(d))
  <2> DEFINE a == At(k)
             f == Len(d.flag)
             w == Wide(d)
             r == Precise(d)
             l == Len(W)
             u == Used(k)
             g == WideArgs(d)
             h == PreciseArgs(d)
  <2>1. /\ a \in Nat /\ f \in Nat /\ w \in Nat /\ l \in Nat /\ r = l + 1
        /\ u \in Nat /\ g \in Nat /\ h \in Nat
        /\ p' = a + 3 + (f + w + 1) + l /\ ap' = u + 1 + g + h
    BY <1>1, <1>2, <1>5, <1>6, <1>7, <1>10
  <2> HIDE DEF a, f, w, r, l, u, g, h
  <2>2. p' = a + 3 + (f + w + r + 0) /\ ap' = u + 1 + (g + h)
    BY <2>1
  <2> QED BY <2>2 DEF a, f, w, r, u, g, h
<1>13. d.prec = v /\ d.prec # Unset
  BY <1>0 DEF v
<1> QED BY <1>2, <1>10, <1>11, <1>12, <1>13 DEF place, AfterPrec, Reading

\* An l.
LEMMA LStep ==
  ASSUME Going, NEW k, NEW d, Inner(k, d), NEW j \in 0..(d.l - 1)
  PROVE  place = AfterPrec(k, d, j) => place' = AfterPrec(k, d, j + 1)
<1>0. SUFFICES ASSUME place = AfterPrec(k, d, j)
               PROVE  place' = AfterPrec(k, d, j + 1)
  OBVIOUS
<1> DEFINE n == Len(d.flag) + Wide(d) + Precise(d)
           t == WideArgs(d) + PreciseArgs(d)
           wid == IF d.prec = Unset THEN d.width ELSE OrZero(d.width)
<1>1. /\ d \in Directive /\ At(k) \in Nat /\ Used(k) \in Nat /\ Steered(k, d)
      /\ Len(d.flag) \in Nat /\ Wide(d) \in Nat /\ Precise(d) \in Nat
      /\ WideArgs(d) \in Nat /\ PreciseArgs(d) \in Nat /\ d.l \in Nat
  BY DEF Inner
<1>n. n + j \in Nat /\ t \in Nat /\ j \in Nat /\ n \in Nat
  <2>1. \A x, y, z \in Nat : x + y \in Nat /\ x + y + z \in Nat
    OBVIOUS
  <2>2. j \in Nat
    BY <1>1
  <2>3. n \in Nat /\ t \in Nat
    BY <1>1, <2>1, Zenon
  <2> HIDE DEF n, t
  <2> QED BY <2>1, <2>2, <2>3, Zenon
<1>2. /\ p = At(k) + 3 + (n + j) /\ ap = Used(k) + 1 + t
      /\ out = Due(k) \o Between
      /\ spec = [padc |-> Pad(d), width |-> wid, precision |-> d.prec, lflag |-> j,
                 last_fmt |-> At(k) + 3]
      /\ p \in Nat \ {0} /\ ap \in Nat /\ spec # NoSpec
  <2>1. place = Reading(k, n + j, t, Pad(d), wid, d.prec, j)
    BY <1>0 DEF AfterPrec
  <2> HIDE DEF n, t, wid
  <2>2. /\ n + j \in Nat /\ t \in Nat /\ At(k) \in Nat /\ Used(k) \in Nat
    BY <1>1, <1>n
  <2> QED BY <2>1, <2>2, ReadingIs, SMTT(30)
<1>3. Dispatched
  BY <1>2, DispatchedIs DEF Going
<1>4. p = LsAt(k, d) + j
  <2> DEFINE a == At(k)
             f == Len(d.flag)
             w == Wide(d)
             r == Precise(d)
             e == LsAt(k, d)
  <2>1. /\ a \in Nat /\ f \in Nat /\ w \in Nat /\ r \in Nat /\ j \in Nat
        /\ p = a + 3 + (f + w + r + j) /\ e = a + 3 + f + w + r
    BY <1>1, <1>2, <1>n DEF LsAt
  <2> HIDE DEF a, f, w, r, e
  <2>2. p = e + j
    BY <2>1
  <2> QED BY <2>2 DEF e
<1>5. ch = "l"
  BY <1>1, <1>4 DEF Steered, ch, CharAt
<1>6. Modifier
  BY <1>3, <1>5 DEF Dispatched
<1>7. spec' = [spec EXCEPT !.lflag = @ + 1] /\ p' = p + 1 /\ ap' = ap /\ out' = out
  BY <1>5, <1>6 DEF Modifier
<1>8. spec' = [padc |-> Pad(d), width |-> wid, precision |-> d.prec, lflag |-> j + 1,
               last_fmt |-> At(k) + 3]
  <2> HIDE DEF wid
  <2> QED BY <1>2, <1>7
<1>9. p' = At(k) + 3 + (n + (j + 1))
  <2> DEFINE a == At(k)
  <2>1. a \in Nat /\ p' = a + 3 + (n + j) + 1
    BY <1>1, <1>2, <1>7, Zenon
  <2> HIDE DEF n, a
  <2>2. p' = a + 3 + (n + (j + 1))
    BY <1>n, <2>1
  <2> QED BY <2>2 DEF a
<1> QED
  <2> DEFINE m == j + 1
  <2>1. place' = Reading(k, n + m, t, Pad(d), wid, d.prec, m)
    <3> HIDE DEF n, t, wid
    <3> QED BY <1>2, <1>7, <1>8, <1>9 DEF place, Reading
  <2> HIDE DEF m
  <2>2. place' = AfterPrec(k, d, m)
    BY <2>1 DEF AfterPrec
  <2> QED BY <2>2 DEF m

\* No padding at all when the text is as wide as the field.
LEMMA NoPadding ==
  ASSUME NEW c, NEW n \in Int, n <= 0
  PROVE  Repeat(c, n) = <<>>
<1>1. 1..n = {}
  OBVIOUS
<1> QED BY <1>1 DEF Repeat

\* printnum pads the numeral on the left.
LEMMA PrintNumIs ==
  ASSUME NEW num \in Nat, NEW b \in 2..16, NEW width, NEW padc
  PROVE  printnum(num, b, width, padc)
           = Repeat(padc, width - Len(Positional(num, b))) \o Positional(num, b)
BY DigitsIs, Zenon DEF printnum

\* The field of a directive other than %s, and the one that has no width.
LEMMA FieldIs ==
  ASSUME NEW d \in Directive, Known(d), Conforms(d), d.conv # <<"s">>
  PROVE  /\ Field(d) = Repeat(Pad(d), d.width - Len(Body(d))) \o Body(d)
         /\ d.width = Unset => Field(d) = Body(d)
<1>1. d.flag \in {<<>>, <<"0">>}
  BY Parts DEF Conforms
<1>2. d.flag # <<"-">> /\ Pad(d) = (IF d.flag = <<"0">> THEN "0" ELSE " ")
  <2>1. <<"0">> # <<>> /\ <<"0">>[1] = "0" /\ <<"-">> # <<>> /\ <<"-">> # <<"0">>
    OBVIOUS
  <2> QED BY <1>1, <2>1 DEF Pad
<1>3. Field(d) = Repeat(Pad(d), d.width - Len(Body(d))) \o Body(d)
  BY <1>2, Zenon DEF Field
<1>4. ASSUME d.width = Unset PROVE Field(d) = Body(d)
  <2> DEFINE b == Body(d)
  <2>1. b \in Seq(Character)
    BY BodyIs
  <2>2. Field(d) = Repeat(Pad(d), Unset - Len(b)) \o b
    BY <1>3, <1>4
  <2> HIDE DEF b
  <2>3. Unset - Len(b) \in Int /\ Unset - Len(b) <= 0
    BY <2>1 DEF Unset
  <2>4. Repeat(Pad(d), Unset - Len(b)) = <<>>
    BY <2>3, NoPadding
  <2>5. <<>> \o b = b
    BY <2>1, ConcatEmptySeq
  <2> QED BY <2>2, <2>4, <2>5 DEF b
<1> QED BY <1>3, <1>4

\* The arguments a conversion takes, and what is known before it is printed.
Taken(d) == IF d.conv # <<"%">> THEN 1 ELSE 0
AtConv(k, d) ==
  /\ p = ConvAt(k, d) /\ p = At(k + 1) /\ ap = Used(k) + 1 + (WideArgs(d) + PreciseArgs(d))
  /\ ap \in Nat /\ out = Due(k) \o Between
  /\ spec = [padc |-> Pad(d), width |-> IF d.prec = Unset THEN d.width ELSE OrZero(d.width),
             precision |-> d.prec, lflag |-> d.l, last_fmt |-> At(k) + 3]
  /\ d.conv = <<ch>> /\ Dispatched
  /\ d.conv # <<"%">> => args[ap] = d.arg

\* Before the conversion everything read so far is in spec.
LEMMA AtConvIs ==
  ASSUME Going, NEW k, NEW d, Inner(k, d), Known(d)
  PROVE  place = AfterPrec(k, d, d.l) => AtConv(k, d)
<1>0. SUFFICES ASSUME place = AfterPrec(k, d, d.l)
               PROVE  AtConv(k, d)
  OBVIOUS
<1> DEFINE a == At(k)
           f == Len(d.flag)
           w == Wide(d)
           r == Precise(d)
           l == d.l
           n == f + w + r + l
           t == WideArgs(d) + PreciseArgs(d)
           wid == IF d.prec = Unset THEN d.width ELSE OrZero(d.width)
<1>1. /\ d \in Directive /\ a \in Nat /\ Used(k) \in Nat /\ Steered(k, d) /\ Supplied(k, d)
      /\ f \in Nat /\ w \in Nat /\ r \in Nat
      /\ WideArgs(d) \in Nat /\ PreciseArgs(d) \in Nat /\ l \in Nat
  BY DEF Inner
<1>s. Spelled(k, d)
  BY SpelledIs DEF Going, Inner
<1>c. At(k + 1) = a + 2 + f + w + r + l + Len(d.conv)
  BY <1>s DEF Spelled
<1>n. n \in Nat /\ t \in Nat
  <2> HIDE DEF f, w, r, l
  <2> QED BY <1>1
<1>2. /\ p = a + 3 + n /\ ap = Used(k) + 1 + t /\ out = Due(k) \o Between
      /\ spec = [padc |-> Pad(d), width |-> wid, precision |-> d.prec, lflag |-> l,
                 last_fmt |-> a + 3]
      /\ p \in Nat \ {0} /\ ap \in Nat /\ spec # NoSpec
  <2>1. place = Reading(k, n, t, Pad(d), wid, d.prec, l)
    BY <1>0 DEF AfterPrec
  <2> HIDE DEF n, t, wid, l
  <2>2. n \in Nat /\ t \in Nat /\ At(k) \in Nat /\ Used(k) \in Nat
    BY <1>1, <1>n
  <2>3. /\ p = At(k) + 3 + n /\ ap = Used(k) + 1 + t /\ out = Due(k) \o Between
        /\ spec = [padc |-> Pad(d), width |-> wid, precision |-> d.prec, lflag |-> l,
                   last_fmt |-> At(k) + 3]
        /\ p \in Nat \ {0} /\ ap \in Nat /\ spec # NoSpec
    BY <2>1, <2>2, ReadingIs
  <2> QED BY <2>3
<1>3. Dispatched
  BY <1>2, DispatchedIs DEF Going
<1>4. d.conv # <<>> /\ Len(d.conv) = 1
  <2>1. \E c \in Conversions : d.conv = <<c>>
    BY DEF Known
  <2> QED BY <2>1
<1>5. p = ConvAt(k, d) /\ p = At(k + 1)
  <2> DEFINE e == ConvAt(k, d)
             c == At(k + 1)
  <2>1. e = a + 3 + f + w + r + l
    BY DEF ConvAt
  <2>2. c = a + 2 + f + w + r + l + 1
    BY <1>c, <1>4
  <2> HIDE DEF a, f, w, r, l, e, c
  <2>3. p = e /\ p = c
    BY <1>1, <1>2, <2>1, <2>2
  <2> QED BY <2>3 DEF e, c
<1>6. d.conv = <<ch>>
  BY <1>1, <1>4, <1>5 DEF Steered, ch, CharAt
<1>7. d.conv # <<"%">> => args[ap] = d.arg
  BY <1>1, <1>2 DEF Supplied
<1> QED BY <1>2, <1>3, <1>5, <1>6, <1>7 DEF AtConv

\* A conversion that puts the field out ends the directive.
LEMMA ConvertStep ==
  ASSUME Going, NEW k, NEW d, Inner(k, d), Known(d), AtConv(k, d), Convert(Field(d), Taken(d))
  PROVE  place' = Boundary(k + 1)
<1>1. p' = p + 1 /\ ap' = ap + Taken(d) /\ out' = out \o Field(d) /\ spec' = NoSpec
  BY DEF Convert
<1>2. p = At(k + 1) /\ ap = Used(k) + 1 + (WideArgs(d) + PreciseArgs(d)) /\ out = Due(k) \o Between
  BY DEF AtConv
<1>3. Due(k + 1) = (Due(k) \o Between) \o Field(d)
  <2>1. Due(k + 1) = (Due(k) \o Between) \o Shown(d)
    <3>1. Laid(k, d)
      BY Layout DEF Going, Inner
    <3> QED BY <3>1 DEF Laid
  <2> QED BY <2>1 DEF Shown
<1>4. ap' = Used(k + 1) + 1
  <2> DEFINE u == Used(k)
             v == Used(k + 1)
             g == WideArgs(d) + PreciseArgs(d)
             c == Taken(d)
  <2>1. v = u + g + c
    BY DEF Inner, Supplied, Taken
  <2>2. u \in Nat /\ WideArgs(d) \in Nat /\ PreciseArgs(d) \in Nat /\ c \in Nat
    BY DEF Inner, Taken
  <2>3. g \in Nat /\ ap' = u + 1 + g + c
    BY <1>1, <1>2, <2>2
  <2> HIDE DEF u, v, g, c
  <2>4. ap' = v + 1
    BY <2>1, <2>2, <2>3
  <2> QED BY <2>4 DEF v
<1> QED BY <1>1, <1>2, <1>3, <1>4 DEF place, Boundary

\* %s: the text, cut at the precision and padded to the width.
LEMMA StringStep ==
  ASSUME Going, NEW k, NEW d, Inner(k, d), Known(d), AtConv(k, d)
  PROVE  d.conv = <<"s">> => Convert(Field(d), Taken(d))
<1>0. SUFFICES ASSUME d.conv = <<"s">> PROVE Convert(Field(d), Taken(d))
  OBVIOUS
<1>1. d \in Directive /\ Conforms(d)
  BY DEF Inner
<1> DEFINE wid == IF d.prec = Unset THEN d.width ELSE OrZero(d.width)
<1>2. /\ spec.padc = Pad(d) /\ spec.width = wid /\ spec.precision = d.prec
      /\ ch = "s" /\ Dispatched /\ args[ap] = d.arg /\ Taken(d) = 1
  <2>1. <<"s">> # <<"%">> /\ \A x : <<"s">> = <<x>> => x = "s"
    OBVIOUS
  <2> QED BY <1>0, <2>1 DEF AtConv, Taken
<1>3. String
  BY <1>2 DEF Dispatched
<1> DEFINE t == IF d.arg.num = 0 THEN NullText ELSE d.arg.str
           n == strnlen(t, d.prec)
           body == SubSeq(t, 1, n)
           left == Pad(d) # "-"
<1>4. Convert((IF left THEN Repeat(Pad(d), wid - n) ELSE <<>>) \o body
                \o (IF left THEN <<>> ELSE Repeat(" ", wid - n)), 1)
  <2> HIDE DEF wid
  <2> QED BY <1>2, <1>3, Zenon DEF String
<1>5. t \in Seq(Character)
  BY <1>1, Parts, NullTextIs
<1>6. d.prec = Unset \/ d.prec \in Nat
  <2>1. d.prec \in Size /\ Word \in Nat
    BY <1>1, Parts, PrintfAssumption
  <2> QED BY <2>1 DEF Size
<1>7. n \in 0..Len(t) /\ Body(d) = body /\ body \in Seq(Character) /\ Len(body) = n
  <2>1. Body(d) = IF d.prec \in 0..Len(t) THEN SubSeq(t, 1, d.prec) ELSE t
    BY <1>0, BodyAs
  <2>2. n = IF d.prec < 0 \/ d.prec > Len(t) THEN Len(t) ELSE d.prec
    BY DEF strnlen
  <2> HIDE DEF t, n
  <2>3. Len(t) \in Nat /\ SubSeq(t, 1, Len(t)) = t
    BY <1>5
  <2>4. n \in 0..Len(t) /\ (IF d.prec \in 0..Len(t) THEN n = d.prec ELSE n = Len(t))
    BY <1>6, <2>2, <2>3 DEF Unset
  <2>5. Body(d) = body
    BY <2>1, <2>3, <2>4
  <2>6. body \in Seq(Character) /\ Len(body) = n
    <3>1. n \in 0..Len(t) /\ Len(t) \in Nat
      BY <2>3, <2>4, Zenon
    <3>2. n \in Nat /\ n <= Len(t)
      BY <3>1
    <3> QED BY <1>5, <3>2
  <2> QED BY <2>4, <2>5, <2>6
<1>8. (left <=> d.flag # <<"-">>) /\ (left => Pad(d) = " ") /\ d.flag # <<"0">>
  <2>1. d.flag \in {<<>>, <<"-">>, <<"0">>} /\ d.flag # <<"0">>
    BY <1>0, <1>1, Parts DEF Conforms
  <2>2. CASE d.flag = <<>>
    <3>1. Pad(d) = " "
      BY <2>2 DEF Pad
    <3>2. d.flag # <<"-">>
      BY <2>2
    <3> QED BY <2>1, <3>1, <3>2
  <2>3. CASE d.flag = <<"-">>
    <3>1. <<"-">>[1] = "-" /\ <<"-">> # <<>>
      OBVIOUS
    <3>2. Pad(d) = "-"
      BY <2>3, <3>1, Zenon DEF Pad
    <3> QED BY <2>1, <2>3, <3>2
  <2> QED BY <2>1, <2>2, <2>3
<1>9. Field(d) = IF left THEN Repeat(" ", d.width - n) \o body ELSE body \o Repeat(" ", d.width - n)
  <2>1. d.flag # <<"0">>
    BY <1>8
  <2> HIDE DEF body, left, n
  <2> QED BY <1>7, <1>8, <2>1 DEF Field
<1>10. Repeat(" ", wid - n) = Repeat(" ", d.width - n)
  <2>1. CASE d.prec = Unset \/ d.width # Unset
    BY <2>1 DEF OrZero
  <2>2. CASE d.prec # Unset /\ d.width = Unset
    <3>1. wid = 0 /\ d.width = -1
      BY <2>2 DEF OrZero, Unset
    <3> HIDE DEF wid, n, t
    <3>2. n \in Nat
      BY <1>5, <1>7
    <3>3. wid - n \in Int /\ wid - n <= 0 /\ d.width - n \in Int /\ d.width - n <= 0
      BY <3>1, <3>2
    <3> QED BY <3>3, NoPadding
  <2> QED BY <2>1, <2>2
<1>11. \A m : left => Repeat(Pad(d), m) = Repeat(" ", m)
  BY <1>8
<1>12. Repeat(" ", d.width - n) \in Seq(Character)
  <2>1. d.width \in Int
    <3>1. d.width \in Size /\ Word \in Nat
      BY <1>1, Parts, PrintfAssumption
    <3> QED BY <3>1 DEF Size, Unset
  <2>2. " " \in Character
    BY Characters
  <2>3. n \in Int
    <3> HIDE DEF n, t
    <3> QED BY <1>5, <1>7
  <2> HIDE DEF n
  <2>4. d.width - n \in Int
    BY <2>1, <2>3
  <2> QED BY <2>2, <2>4, Repeated
<1> HIDE DEF wid, t, n, body, left
<1>13. CASE left
  <2> DEFINE pad == Repeat(" ", d.width - n)
  <2>1. Convert(pad \o body \o <<>>, 1)
    BY <1>4, <1>10, <1>11, <1>13
  <2> HIDE DEF pad
  <2>2. pad \in Seq(Character)
    BY <1>12 DEF pad
  <2>3. pad \o body \o <<>> = pad \o body
    <3>1. pad \o body \in Seq(Character)
      BY <1>7, <2>2
    <3> QED BY <3>1, ConcatEmptySeq
  <2> QED BY <1>2, <1>9, <1>13, <2>1, <2>3 DEF pad
<1>14. CASE ~left
  <2> DEFINE pad == Repeat(" ", d.width - n)
  <2>1. Convert(<<>> \o body \o pad, 1)
    BY <1>4, <1>10, <1>14
  <2> HIDE DEF pad
  <2>2. <<>> \o body = body
    BY <1>7, ConcatEmptySeq
  <2> QED BY <1>2, <1>9, <1>14, <2>1, <2>2 DEF pad
<1> QED BY <1>13, <1>14

\* %c and %%.
LEMMA CharStep ==
  ASSUME Going, NEW k, NEW d, Inner(k, d), Known(d), AtConv(k, d)
  PROVE  d.conv \in {<<"c">>, <<"%">>} => Convert(Field(d), Taken(d))
<1>0. SUFFICES ASSUME d.conv \in {<<"c">>, <<"%">>} PROVE Convert(Field(d), Taken(d))
  OBVIOUS
<1>1. d \in Directive /\ Conforms(d)
  BY DEF Inner
<1>2. d.width = Unset /\ d.conv # <<"s">>
  BY <1>0, <1>1 DEF Conforms
<1>3. Field(d) = Body(d)
  BY <1>1, <1>2, FieldIs
<1>4. CASE d.conv = <<"c">>
  <2>1. \A x : <<"c">> = <<x>> => x = "c"
    OBVIOUS
  <2>2. d.conv # <<"%">>
    BY <1>4
  <2>3. ch = "c" /\ Dispatched /\ args[ap] = d.arg /\ Taken(d) = 1
    BY <1>4, <2>1, <2>2 DEF AtConv, Taken
  <2>4. Convert(args[ap].str, 1)
    BY <2>3 DEF Dispatched, Char
  <2>5. Body(d) = d.arg.str
    BY <1>4, BodyAs
  <2> QED BY <1>3, <2>3, <2>4, <2>5
<1>5. CASE d.conv = <<"%">>
  <2>1. \A x : <<"%">> = <<x>> => x = "%"
    OBVIOUS
  <2>2. ch = "%" /\ Dispatched /\ Taken(d) = 0
    BY <1>5, <2>1 DEF AtConv, Taken
  <2>3. Convert(<<"%">>, 0)
    BY <2>2 DEF Dispatched, Escaped
  <2>4. Body(d) = <<"%">>
    BY <1>5, BodyAs
  <2> QED BY <1>3, <2>2, <2>3, <2>4
<1> QED BY <1>0, <1>4, <1>5

\* The numbers without a sign.
LEMMA UnsignedStep ==
  ASSUME Going, NEW k, NEW d, Inner(k, d), Known(d), AtConv(k, d)
  PROVE  d.conv \in {<<"u">>, <<"o">>, <<"x">>, <<"p">>} => Convert(Field(d), Taken(d))
<1>0. SUFFICES ASSUME NEW c \in {"u", "o", "x", "p"}, d.conv = <<c>>
               PROVE  Convert(Field(d), Taken(d))
  OBVIOUS
<1>1. d \in Directive /\ Conforms(d)
  BY DEF Inner
<1>2. d.conv # <<"s">> /\ d.conv # <<"%">>
  <2>1. \A x : <<c>> = <<x>> => x = c
    OBVIOUS
  <2> QED BY <1>0, <2>1
<1>3. d.prec = Unset
  BY <1>1, <1>2 DEF Conforms
<1>4. /\ spec.padc = Pad(d) /\ spec.width = d.width /\ spec.lflag = d.l
      /\ ch = c /\ Dispatched /\ args[ap] = d.arg /\ Taken(d) = 1
  <2>1. \A x : <<c>> = <<x>> => x = c
    OBVIOUS
  <2> QED BY <1>0, <1>2, <1>3, <2>1 DEF AtConv, Taken
<1>5. Unsigned
  BY <1>4 DEF Dispatched
<1>6. getuint(spec.lflag) = Denoted(d) /\ getuint(1) = d.arg.num % Reg
  BY <1>4 DEF getuint, Width, Denoted
<1>7. Denoted(d) \in Nat /\ d.arg.num % Reg \in Nat
  BY <1>1, DenotedIs
<1>8. CASE c # "p"
  <2> DEFINE b == CASE c = "u" -> 10 [] c = "o" -> 8 [] OTHER -> 16
             P == Positional(Denoted(d), b)
  <2>1. b \in 2..16
    OBVIOUS
  <2>2. Body(d) = P
    BY <1>0, <1>8, BodyAs
  <2>3. Convert(<<>> \o printnum(Denoted(d), b, d.width, Pad(d)), 1)
    BY <1>4, <1>5, <1>6, <1>8 DEF Unsigned
  <2> HIDE DEF b
  <2>4. P \in Seq(Character)
    BY <1>7, <2>1, PositionalIs
  <2>5. printnum(Denoted(d), b, d.width, Pad(d)) = Repeat(Pad(d), d.width - Len(P)) \o P
    BY <1>7, <2>1, PrintNumIs
  <2>6. Field(d) = Repeat(Pad(d), d.width - Len(P)) \o P
    BY <1>1, <1>2, <2>2, FieldIs
  <2>7. Field(d) \in Seq(Character)
    BY <1>1, ShownIs DEF Shown
  <2>8. <<>> \o Field(d) = Field(d)
    BY <2>7, ConcatEmptySeq
  <2> QED BY <1>4, <2>3, <2>5, <2>6, <2>8
<1>9. CASE c = "p"
  <2> DEFINE v == d.arg.num % Reg
             P == Positional(v, 16)
  <2>1. d.width = Unset
    BY <1>0, <1>1, <1>9 DEF Conforms
  <2>2. Field(d) = <<"0", "x">> \o P
    <3>1. Body(d) = <<"0", "x">> \o P
      BY <1>0, <1>9, BodyAs
    <3> QED BY <1>1, <1>2, <2>1, <3>1, FieldIs
  <2>3. Convert(<<"0", "x">> \o printnum(v, 16, Unset, Pad(d)), 1)
    BY <1>4, <1>5, <1>6, <1>9, <2>1 DEF Unsigned
  <2>4. v \in Nat /\ 16 \in 2..16
    BY <1>7
  <2> HIDE DEF v
  <2>5. P \in Seq(Character)
    BY <2>4, PositionalIs
  <2>6. printnum(v, 16, Unset, Pad(d)) = Repeat(Pad(d), Unset - Len(P)) \o P
    BY <2>4, PrintNumIs
  <2> HIDE DEF P
  <2>7. Repeat(Pad(d), Unset - Len(P)) = <<>>
    <3>1. Unset - Len(P) \in Int /\ Unset - Len(P) <= 0
      BY <2>5 DEF Unset
    <3> QED BY <3>1, NoPadding
  <2>8. <<>> \o P = P
    BY <2>5, ConcatEmptySeq
  <2> QED BY <1>4, <2>2, <2>3, <2>6, <2>7, <2>8
<1> QED BY <1>8, <1>9

\* %d: the sign comes first and there is no width with one.
LEMMA DecimalStep ==
  ASSUME Going, NEW k, NEW d, Inner(k, d), Known(d), AtConv(k, d)
  PROVE  d.conv = <<"d">> => Convert(Field(d), Taken(d))
<1>0. SUFFICES ASSUME d.conv = <<"d">> PROVE Convert(Field(d), Taken(d))
  OBVIOUS
<1>1. d \in Directive /\ Conforms(d)
  BY DEF Inner
<1>2. d.conv # <<"s">> /\ d.conv # <<"%">>
  BY <1>0
<1>3. d.prec = Unset
  BY <1>1, <1>2 DEF Conforms
<1>4. /\ spec.padc = Pad(d) /\ spec.width = d.width /\ spec.lflag = d.l
      /\ ch = "d" /\ Dispatched /\ args[ap] = d.arg /\ Taken(d) = 1
  <2>1. \A x : <<"d">> = <<x>> => x = "d"
    OBVIOUS
  <2> QED BY <1>0, <1>2, <1>3, <2>1 DEF AtConv, Taken
<1>5. Decimal
  BY <1>4 DEF Dispatched
<1> DEFINE m == IF d.l = 0 THEN Word ELSE Reg
           v == Denoted(d)
           g == getint(spec.lflag)
<1>6. g = (IF v < m \div 2 THEN v ELSE v - m) /\ (Minus(d) <=> v >= m \div 2)
  <2>1. g = Signed(d.arg.num, m)
    BY <1>4 DEF getint, Width
  <2>2. v = d.arg.num % m
    BY DEF Denoted
  <2> QED BY <2>1, <2>2 DEF Signed, Minus
<1>7. m \in Nat /\ v \in Nat /\ v < m /\ m \div 2 \in Nat
  <2>1. m \in Nat /\ v \in Nat /\ v < m
    BY <1>1, DenotedIs
  <2> HIDE DEF m
  <2> QED BY <2>1
<1>8. Convert(IF g < 0 THEN <<"-">> \o printnum(-g, 10, d.width, Pad(d))
                       ELSE printnum(g, 10, d.width, Pad(d)), 1)
  BY <1>4, <1>5, Zenon DEF Decimal
<1>9. 10 \in 2..16
  OBVIOUS
<1>10. CASE Minus(d)
  <2>1. d.width = Unset
    BY <1>0, <1>1, <1>10 DEF Conforms
  <2> DEFINE x == m - v
             P == Positional(x, 10)
  <2>2. Field(d) = <<"-">> \o P
    <3>1. Body(d) = <<"-">> \o P
      BY <1>0, <1>10, BodyAs
    <3> QED BY <1>1, <1>2, <2>1, <3>1, FieldIs
  <2> HIDE DEF m, v, g
  <2>3. g < 0 /\ -g = x /\ x \in Nat
    BY <1>6, <1>7, <1>10
  <2> HIDE DEF x
  <2>4. Convert(<<"-">> \o printnum(x, 10, Unset, Pad(d)), 1)
    BY <1>8, <2>1, <2>3
  <2>5. P \in Seq(Character)
    BY <1>9, <2>3, PositionalIs
  <2>6. printnum(x, 10, Unset, Pad(d)) = Repeat(Pad(d), Unset - Len(P)) \o P
    BY <1>9, <2>3, PrintNumIs
  <2> HIDE DEF P
  <2>7. Repeat(Pad(d), Unset - Len(P)) = <<>>
    <3>1. Unset - Len(P) \in Int /\ Unset - Len(P) <= 0
      BY <2>5 DEF Unset
    <3> QED BY <3>1, NoPadding
  <2>8. <<>> \o P = P
    BY <2>5, ConcatEmptySeq
  <2> QED BY <1>4, <2>2, <2>4, <2>6, <2>7, <2>8
<1>11. CASE ~Minus(d)
  <2> DEFINE P == Positional(v, 10)
  <2>1. Body(d) = P
    BY <1>0, <1>11, BodyAs
  <2>2. Field(d) = Repeat(Pad(d), d.width - Len(P)) \o P
    BY <1>1, <1>2, <2>1, FieldIs
  <2> HIDE DEF m, v, g
  <2>3. ~(g < 0) /\ g = v
    BY <1>6, <1>7, <1>11
  <2>4. printnum(v, 10, d.width, Pad(d)) = Repeat(Pad(d), d.width - Len(P)) \o P
    BY <1>7, <1>9, PrintNumIs
  <2> QED BY <1>4, <1>8, <2>2, <2>3, <2>4
<1> QED BY <1>10, <1>11

\* The conversion.
LEMMA ConvStep ==
  ASSUME Going, NEW k, NEW d, Inner(k, d), Known(d)
  PROVE  place = AfterPrec(k, d, d.l) => place' = Boundary(k + 1)
<1>0. SUFFICES ASSUME place = AfterPrec(k, d, d.l) PROVE place' = Boundary(k + 1)
  OBVIOUS
<1>1. AtConv(k, d)
  BY <1>0, AtConvIs
<1>2. d.conv \in {<<"s">>, <<"c">>, <<"%">>, <<"u">>, <<"o">>, <<"x">>, <<"p">>, <<"d">>}
  BY DEF Known, Conversions
<1>3. Convert(Field(d), Taken(d))
  BY <1>1, <1>2, StringStep, CharStep, UnsignedStep, DecimalStep
<1> QED BY <1>1, <1>3, ConvertStep

\* Outside directives the character decides which action there is.
TextDispatched ==
  /\ ch = "%" => Percent
  /\ ch = NUL => Return
  /\ ch \notin {"%", NUL} => Literal

\* The three characters exclude one another.
LEMMA TextDispatchedIs ==
  ASSUME FmtNext, spec = NoSpec
  PROVE  TextDispatched
<1>1. /\ ~Modifier /\ ~InFormat /\ ~Star /\ ~Char /\ ~String
      /\ ~Decimal /\ ~Unsigned /\ ~Escaped /\ ~Default
  BY Zenon DEF InDirective, Modifier, InFormat, Star, Char, String, Decimal, Unsigned, Escaped, Default
<1>2. /\ Literal => ch \notin {"%", NUL}
      /\ Percent => ch = "%"
      /\ Return => ch = NUL
  BY Zenon DEF Literal, Percent, Return
<1>3. Literal \/ Percent \/ Return
  BY <1>1, Zenon DEF FmtNext
<1>4. "%" # NUL
  BY DEF NUL
<1> DEFINE c == ch
<1>5. \/ c \notin {"%", NUL} /\ Literal
      \/ c = "%" /\ Percent
      \/ c = NUL /\ Return
  BY <1>2, <1>3
<1> HIDE DEF c
<1> QED BY <1>4, <1>5 DEF TextDispatched, c

\* A directive that is not known takes no argument, and no character of it after the
\* `%' is a `%'.
LEMMA Plain ==
  ASSUME NEW d \in Directive, Conforms(d), ~Known(d)
  PROVE  /\ WideArgs(d) = 0 /\ PreciseArgs(d) = 0
         /\ \A q \in 2..Len(Render(d)) : Render(d)[q] \notin {"%", NUL}
<1>1. ~d.star
  BY DEF Conforms
<1>2. WideArgs(d) = 0 /\ PreciseArgs(d) = 0
  BY <1>1, PassedIs
<1> DEFINE Bad == {"%", NUL}
           f == Len(d.flag)
           w == Wide(d)
           r == Precise(d)
           l == d.l
           c == Len(d.conv)
           R == Render(d)
<1>d. \A x : IsDigit(x) => x \notin Bad
  BY NotDigits DEF Conversions
<1>3. ASSUME NEW n \in Size, NEW q \in 1..Len(Written(n, d.star)) PROVE Written(n, d.star)[q] \notin Bad
  <2>1. CASE n = Unset
    <3>1. Len(Written(n, d.star)) = 0
      BY <2>1 DEF Written
    <3> QED BY <3>1
  <2>2. CASE n # Unset
    <3>1. n \in Nat
      <4>1. Word \in Nat
        BY PrintfAssumption
      <4> QED BY <2>2, <4>1 DEF Size
    <3>2. Written(n, d.star) = Positional(n, 10)
      BY <1>1, <2>2 DEF Written
    <3>3. Len(Positional(n, 10)) = DigitCount(n, 10)
      <4>1. 10 \in 2..16
        OBVIOUS
      <4> QED BY <3>1, <4>1, PositionalIs
    <3>4. IsDigit(Positional(n, 10)[q])
      BY <3>1, <3>2, <3>3, NumeralDigits
    <3> QED BY <1>d, <3>2, <3>4
  <2> QED BY <2>1, <2>2
<1>4. d.width \in Size /\ d.prec \in Size /\ d.flag \in {<<>>, <<"-">>, <<"0">>}
      /\ (d.conv = <<>> \/ \E x \in Conversions \cup Others : d.conv = <<x>>)
      /\ l \in Nat
  <2>1. d.l \in 0..2
    BY Parts
  <2> QED BY <2>1, Parts
<1>p. "-" \notin Bad /\ "0" \notin Bad /\ "." \notin Bad /\ "l" \notin Bad
  BY DEF NUL
<1>5. \A q \in 1..f : d.flag[q] \notin Bad
  <2>1. CASE d.flag = <<>>
    BY <2>1
  <2>2. CASE d.flag = <<"-">>
    BY <1>p, <2>2
  <2>3. CASE d.flag = <<"0">>
    BY <1>p, <2>3
  <2> QED BY <1>4, <2>1, <2>2, <2>3
<1>6. \A q \in 1..w : Written(d.width, d.star)[q] \notin Bad
  BY <1>3, <1>4 DEF Wide
<1>7. \A q \in 1..r : Point(d)[q] \notin Bad
  <2>1. CASE d.prec = Unset
    <3>1. r = 0
      BY <2>1 DEF Precise
    <3> QED BY <3>1
  <2>2. CASE d.prec # Unset
    <3> DEFINE W == Written(d.prec, d.star)
               b == <<".">>
    <3>1. Point(d) = b \o W /\ r = 1 + Len(W) /\ \A q \in 1..Len(W) : W[q] \notin Bad
      BY <1>3, <1>4, <2>2 DEF Point, Precise
    <3>2. b \in Seq(Character) /\ W \in Seq(Character)
      <4>1. "." \in Character
        BY Characters
      <4> QED BY <4>1, Parts
    <3>3. Len(b) = 1 /\ b[1] = "."
      OBVIOUS
    <3> HIDE DEF W, b
    <3>4. /\ b \o W \in Seq(Character) /\ Len(b) \in Nat /\ Len(W) \in Nat
          /\ Len(b \o W) = Len(b) + Len(W)
          /\ \A q \in 1..Len(b) : (b \o W)[q] = b[q]
          /\ \A q \in 1..Len(W) : (b \o W)[Len(b) + q] = W[q]
      BY <3>2, Join
    <3>5. ASSUME NEW q \in 1..r PROVE Point(d)[q] \notin Bad
      <4>1. CASE q = 1
        <5>1. (b \o W)[1] = "."
          BY <3>3, <3>4
        <5> QED BY <1>p, <3>1, <4>1, <5>1
      <4>2. CASE q # 1
        <5>1. q - 1 \in 1..Len(W) /\ 1 + (q - 1) = q
          BY <3>1, <3>4, <4>2
        <5>2. (b \o W)[q] = W[q - 1]
          BY <3>3, <3>4, <5>1
        <5> QED BY <3>1, <5>1, <5>2
      <4> QED BY <4>1, <4>2
    <3> QED BY <3>5
  <2> QED BY <2>1, <2>2
<1>8. \A q \in 1..c : d.conv[q] \notin Bad
  <2>1. CASE d.conv = <<>>
    BY <2>1
  <2>2. CASE d.conv # <<>>
    <3>1. PICK x \in Conversions \cup Others : d.conv = <<x>>
      BY <1>4, <2>2
    <3>2. x \in Others
      BY <3>1 DEF Known
    <3>3. x \notin Cases \cup {NUL}
      BY <3>2, PrintfAssumption
    <3>4. x \notin Bad
      BY <3>3 DEF Cases
    <3>5. c = 1 /\ d.conv[1] = x
      BY <3>1
    <3> HIDE DEF c, Bad
    <3> QED BY <3>4, <3>5
  <2> QED BY <2>1, <2>2
<1>9. /\ f \in Nat /\ w \in Nat /\ r \in Nat /\ c \in Nat
      /\ Len(R) = 1 + f + w + r + l + c
      /\ \A q \in 1..f : R[1 + q] = d.flag[q]
      /\ \A q \in 1..w : R[1 + f + q] = Written(d.width, d.star)[q]
      /\ \A q \in 1..r : R[1 + f + w + q] = Point(d)[q]
      /\ \A q \in 1..l : R[1 + f + w + r + q] = "l"
      /\ \A q \in 1..c : R[1 + f + w + r + l + q] = d.conv[q]
  BY RenderIs
<1> HIDE DEF Bad, f, w, r, l, c, R
<1>10. ASSUME NEW q \in 2..Len(R) PROVE R[q] \notin Bad
  <2>1. \/ \E h \in 1..f : q = 1 + h
        \/ \E h \in 1..w : q = 1 + f + h
        \/ \E h \in 1..r : q = 1 + f + w + h
        \/ \E h \in 1..l : q = 1 + f + w + r + h
        \/ \E h \in 1..c : q = 1 + f + w + r + l + h
    <3>1. /\ q - 1 \in 1..f \/ q - 1 - f \in 1..w \/ q - 1 - f - w \in 1..r
             \/ q - 1 - f - w - r \in 1..l \/ q - 1 - f - w - r - l \in 1..c
          /\ q = 1 + (q - 1) /\ q = 1 + f + (q - 1 - f) /\ q = 1 + f + w + (q - 1 - f - w)
          /\ q = 1 + f + w + r + (q - 1 - f - w - r)
          /\ q = 1 + f + w + r + l + (q - 1 - f - w - r - l)
      BY <1>4, <1>9
    <3> QED BY <3>1, Zenon
  <2>2. ASSUME NEW h \in 1..f, q = 1 + h PROVE R[q] \notin Bad
    BY <1>5, <1>9, <2>2, Zenon
  <2>3. ASSUME NEW h \in 1..w, q = 1 + f + h PROVE R[q] \notin Bad
    BY <1>6, <1>9, <2>3, Zenon
  <2>4. ASSUME NEW h \in 1..r, q = 1 + f + w + h PROVE R[q] \notin Bad
    BY <1>7, <1>9, <2>4, Zenon
  <2>5. ASSUME NEW h \in 1..l, q = 1 + f + w + r + h PROVE R[q] \notin Bad
    BY <1>9, <1>p, <2>5, Zenon
  <2>6. ASSUME NEW h \in 1..c, q = 1 + f + w + r + l + h PROVE R[q] \notin Bad
    BY <1>8, <1>9, <2>6, Zenon
  <2> QED BY <2>1, <2>2, <2>3, <2>4, <2>5, <2>6, Zenon
<1>11. \A q \in 2..Len(R) : R[q] \notin Bad
  BY <1>10
<1> QED BY <1>2, <1>11 DEF R, Bad

\* Appending to the second of two sequences.
LEMMA AppendLast ==
  ASSUME NEW C, NEW a \in Seq(C), NEW s \in Seq(C), NEW c \in C
  PROVE  Append(a \o s, c) = a \o Append(s, c)
<1>1. <<c>> \in Seq(C) /\ a \o s \in Seq(C)
  OBVIOUS
<1>2. \A x \in Seq(C) : Append(x, c) = x \o <<c>>
  BY AppendIsConcat
<1>3. (a \o s) \o <<c>> = a \o (s \o <<c>>)
  BY <1>1, ConcatAssociative
<1> QED BY <1>1, <1>2, <1>3

\* One character more of a prefix.
LEMMA PrefixGrows ==
  ASSUME NEW C, NEW s \in Seq(C), NEW r \in 0..(Len(s) - 1)
  PROVE  /\ SubSeq(s, 1, r) \in Seq(C) /\ s[r + 1] \in C
         /\ SubSeq(s, 1, r + 1) = Append(SubSeq(s, 1, r), s[r + 1])
<1>1. /\ Len(s) \in Nat /\ r \in Nat /\ r + 1 \in 1..Len(s) /\ 1..r \subseteq 1..Len(s)
      /\ 1..(r + 1) \subseteq 1..Len(s)
  OBVIOUS
<1>2. s[r + 1] \in C
  BY <1>1
<1>3. SubSeq(s, 1, r) \in Seq(C) /\ Len(SubSeq(s, 1, r)) = r
      /\ \A q \in 1..r : SubSeq(s, 1, r)[q] = s[q]
  BY <1>1
<1>4. SubSeq(s, 1, r + 1) \in Seq(C) /\ Len(SubSeq(s, 1, r + 1)) = r + 1
      /\ \A q \in 1..(r + 1) : SubSeq(s, 1, r + 1)[q] = s[q]
  BY <1>1
<1> DEFINE a == SubSeq(s, 1, r)
           b == SubSeq(s, 1, r + 1)
           e == Append(a, s[r + 1])
<1>5. e \in Seq(C) /\ Len(e) = r + 1 /\ e[r + 1] = s[r + 1] /\ \A q \in 1..r : e[q] = s[q]
  <2> HIDE DEF a
  <2>1. a \in Seq(C) /\ Len(a) = r /\ \A q \in 1..r : a[q] = s[q]
    BY <1>3 DEF a
  <2> QED BY <1>1, <1>2, <2>1
<1>6. b \in Seq(C) /\ Len(b) = r + 1 /\ \A q \in 1..(r + 1) : b[q] = s[q]
  BY <1>4
<1> HIDE DEF a, b, e
<1>7. \A q \in 1..(r + 1) : b[q] = e[q]
  <2>1. \A q \in 1..(r + 1) : q = r + 1 \/ q \in 1..r
    BY <1>1
  <2> QED BY <1>5, <1>6, <2>1
<1>8. b = e
  BY <1>5, <1>6, <1>7, SeqEqual
<1> QED BY <1>2, <1>3, <1>8 DEF a, b, e

\* A directive that is not known has been put out as it stands.
LEMMA EchoEnd ==
  ASSUME Going, NEW k, NEW d, Inner(k, d), ~Known(d)
  PROVE  Echoing(k, d, Len(Render(d))) = Boundary(k + 1)
<1>1. /\ d \in Directive /\ Conforms(d) /\ At(k) \in Nat /\ Used(k) \in Nat /\ Supplied(k, d)
      /\ k \in 0..(Len(asked) - 1) /\ d = asked[k + 1] /\ Given
  BY DEF Inner, Going
<1>2. /\ At(k + 1) = At(k) + 1 + Len(Render(d))
      /\ Due(k + 1) = (Due(k) \o Between) \o Shown(d)
  <2>1. Laid(k, d)
    BY <1>1, Layout
  <2> QED BY <2>1, Zenon DEF Laid
<1>3. Render(d) \in Seq(Character)
  BY <1>1, RenderIs
<1>4. Used(k + 1) = Used(k)
  <2>1. WideArgs(d) = 0 /\ PreciseArgs(d) = 0
    BY <1>1, Plain
  <2>2. Used(k + 1) = Used(k) + (0 + 0) + 0
    BY <1>1, <2>1 DEF Supplied
  <2> QED BY <1>1, <2>2
<1>5. SubSeq(Render(d), 1, Len(Render(d))) = Shown(d)
  <2> DEFINE R == Render(d)
  <2>1. R \in Seq(Character)
    BY <1>3
  <2> HIDE DEF R
  <2>2. SubSeq(R, 1, Len(R)) = R
    BY <2>1, SubSeqFull
  <2> QED BY <2>2 DEF R, Shown
<1>6. At(k) + 2 + Len(Render(d)) = At(k + 1) + 1
  <2> DEFINE n == Len(Render(d))
             a == At(k)
             b == At(k + 1)
  <2>1. n \in Nat /\ a \in Nat /\ b = a + 1 + n
    BY <1>1, <1>2, <1>3
  <2> HIDE DEF n, a, b
  <2>2. a + 2 + n = b + 1
    BY <2>1
  <2> QED BY <2>2 DEF n, a, b
<1> QED BY <1>2, <1>4, <1>5, <1>6, Zenon DEF Echoing, Boundary

\* Where a directive that is not known takes no conversion vprintfmt goes back to the
\* character after the `%', which it puts out.
LEMMA UnknownStep ==
  ASSUME Going, NEW k, NEW d, Inner(k, d), ~Known(d)
  PROVE  place = AfterPrec(k, d, d.l) => place' = Echoing(k, d, 1)
<1>0. SUFFICES ASSUME place = AfterPrec(k, d, d.l) PROVE place' = Echoing(k, d, 1)
  OBVIOUS
<1> DEFINE a == At(k)
           f == Len(d.flag)
           w == Wide(d)
           r == Precise(d)
           l == d.l
           n == f + w + r + l
           wid == IF d.prec = Unset THEN d.width ELSE OrZero(d.width)
<1>1. /\ d \in Directive /\ a \in Nat /\ Used(k) \in Nat /\ Steered(k, d) /\ Conforms(d)
      /\ f \in Nat /\ w \in Nat /\ r \in Nat /\ l \in Nat
      /\ k \in 0..(Len(asked) - 1) /\ Given
  BY DEF Inner, Going
<1>n. n \in Nat
  <2> HIDE DEF f, w, r, l
  <2> QED BY <1>1
<1>t. WideArgs(d) + PreciseArgs(d) = 0
  <2>1. WideArgs(d) = 0 /\ PreciseArgs(d) = 0
    BY <1>1, Plain
  <2> QED BY <2>1
<1>2. /\ p = a + 3 + n /\ ap = Used(k) + 1 /\ out = Due(k) \o Between
      /\ spec.last_fmt = a + 3 /\ spec # NoSpec
  <2>1. place = Reading(k, n, 0, Pad(d), wid, d.prec, l)
    BY <1>0, <1>t DEF AfterPrec
  <2> HIDE DEF n, wid, l
  <2>2. n \in Nat /\ 0 \in Nat /\ At(k) \in Nat /\ Used(k) \in Nat
    BY <1>1, <1>n
  <2>3. /\ p = At(k) + 3 + n /\ ap = Used(k) + 1 + 0 /\ out = Due(k) \o Between
        /\ spec = [padc |-> Pad(d), width |-> wid, precision |-> d.prec, lflag |-> l,
                   last_fmt |-> At(k) + 3]
        /\ spec # NoSpec
    BY <2>1, <2>2, ReadingIs
  <2>4. Used(k) + 1 + 0 = Used(k) + 1
    BY <1>1
  <2> QED BY <2>3, <2>4
<1>3. Dispatched
  BY <1>2, DispatchedIs DEF Going
<1>4. p = ConvAt(k, d)
  <2> DEFINE e == ConvAt(k, d)
  <2>1. e = a + 3 + f + w + r + l
    BY DEF ConvAt
  <2> HIDE DEF a, f, w, r, l, e
  <2>2. p = e
    BY <1>1, <1>2, <2>1
  <2> QED BY <2>2 DEF e
<1>5. IF d.conv = <<>> THEN ch \in {"=", NUL} ELSE d.conv = <<ch>>
  BY <1>1, <1>4 DEF Steered, ch, CharAt
<1>6. ch \notin Cases /\ ~IsDigit(ch)
  <2>1. NUL \notin Cases /\ ~IsDigit(NUL)
    BY NotDigits DEF Cases, NUL
  <2>2. \A c \in Others : c \notin Cases /\ ~IsDigit(c)
    BY PrintfAssumption
  <2>3. ch \in Others \cup {NUL}
    <3>1. CASE d.conv = <<>>
      <4>1. "=" \in Others
        BY PrintfAssumption
      <4> QED BY <1>5, <3>1, <4>1
    <3>2. CASE d.conv # <<>>
      <4>1. PICK x \in Conversions \cup Others : d.conv = <<x>>
        BY <1>1, <3>2, Parts
      <4>2. x \in Others
        BY <4>1 DEF Known
      <4>3. x = ch
        <5>1. \A y, z : <<y>> = <<z>> => y = z
          OBVIOUS
        <5> QED BY <1>5, <3>2, <4>1, <5>1
      <4> QED BY <4>2, <4>3
    <3> QED BY <3>1, <3>2
  <2> QED BY <2>1, <2>2, <2>3
<1>7. Default
  BY <1>3, <1>6 DEF Dispatched
<1>8. p' = a + 3 /\ ap' = Used(k) + 1 /\ out' = Append(Due(k) \o Between, "%") /\ spec' = NoSpec
  BY <1>2, <1>7, Zenon DEF Default
<1>9. Append(Due(k) \o Between, "%") = (Due(k) \o Between) \o SubSeq(Render(d), 1, 1)
  <2>1. Due(k) \in Seq(Character) /\ Between \in Seq(Character)
    <3>1. k \in 0..Len(asked)
      <4>1. Len(asked) \in Nat
        BY <1>1, Limits
      <4> QED BY <1>1, <4>1
    <3> QED BY <1>1, <3>1, Limits, BetweenIs
  <2> DEFINE R == Render(d)
             D == Due(k)
             B == Between
  <2>2. R \in Seq(Character) /\ R[1] = "%" /\ Len(R) = 1 + f + w + r + l + Len(d.conv)
        /\ Len(d.conv) \in Nat
    BY <1>1, RenderIs
  <2>3. Len(R) \in Nat \ {0}
    <3> DEFINE c == Len(d.conv)
               m == Len(R)
    <3>1. m = 1 + f + w + r + l + c /\ c \in Nat
      BY <2>2
    <3> HIDE DEF m, f, w, r, l, c
    <3>2. m \in Nat \ {0}
      BY <1>1, <3>1
    <3> QED BY <3>2 DEF m
  <2>4. D \in Seq(Character) /\ B \in Seq(Character)
    BY <2>1
  <2> HIDE DEF R, D, B
  <2>m. R \in Seq(Character) /\ R[1] = "%" /\ Len(R) \in Nat \ {0}
    BY <2>2, <2>3 DEF R
  <2>5. SubSeq(R, 1, 1) = <<"%">>
    <3>1. 0 \in 0..(Len(R) - 1) /\ 0 + 1 = 1
      BY <2>m
    <3>2. SubSeq(R, 1, 1) = Append(SubSeq(R, 1, 0), R[1])
      BY <2>m, <3>1, PrefixGrows
    <3>3. SubSeq(R, 1, 0) = <<>> /\ Append(<<>>, "%") = <<"%">>
      BY <2>m
    <3> QED BY <2>m, <3>2, <3>3
  <2>6. D \o B \in Seq(Character) /\ "%" \in Character
    <3>1. \A x, y \in Seq(Character) : x \o y \in Seq(Character)
      OBVIOUS
    <3> QED BY <2>4, <3>1, Characters DEF D, B
  <2>7. Append(D \o B, "%") = (D \o B) \o SubSeq(R, 1, 1)
    <3> DEFINE S == D \o B
    <3>1. S \in Seq(Character)
      BY <2>6
    <3> HIDE DEF S
    <3>2. Append(S, "%") = S \o <<"%">>
      BY <2>6, <3>1, AppendIsConcat
    <3> QED BY <2>5, <3>2 DEF S
  <2> QED BY <2>7 DEF R, D, B
<1>10. a + 2 + 1 = a + 3
  BY <1>1
<1> QED BY <1>8, <1>9, <1>10, Zenon DEF place, Echoing

\* The characters of a directive that is not known are put out one by one.
LEMMA EchoStep ==
  ASSUME Going, NEW k, NEW d, Inner(k, d), ~Known(d), NEW r \in 1..(Len(Render(d)) - 1)
  PROVE  place = Echoing(k, d, r) => place' = Echoing(k, d, r + 1) /\ ~Return
<1>0. SUFFICES ASSUME place = Echoing(k, d, r) PROVE place' = Echoing(k, d, r + 1) /\ ~Return
  OBVIOUS
<1> DEFINE a == At(k)
           R == Render(d)
           D == Due(k) \o Between
<1>1. /\ d \in Directive /\ Conforms(d) /\ a \in Nat /\ Len(fmt) \in Nat
      /\ k \in 0..(Len(asked) - 1) /\ d = asked[k + 1] /\ Given
  BY DEF Inner, Going
<1>2. /\ At(k + 1) = a + 1 + Len(R) /\ At(k + 1) <= Len(fmt)
      /\ \A q \in 1..Len(R) : fmt[a + 1 + q] = R[q]
  <2>1. Laid(k, d)
    BY <1>1, Layout
  <2> QED BY <2>1, Zenon DEF Laid
<1>3. \A q \in 2..Len(R) : R[q] \notin {"%", NUL}
  BY <1>1, Plain
<1>4. R \in Seq(Character)
  BY <1>1, RenderIs
<1>5. p = a + 2 + r /\ ap = Used(k) + 1 /\ out = D \o SubSeq(R, 1, r) /\ spec = NoSpec
  BY <1>0 DEF place, Echoing
<1>6. D \in Seq(Character)
  <2>1. k \in 0..Len(asked)
    <3>1. Len(asked) \in Nat
      BY <1>1, Limits
    <3> QED BY <1>1, <3>1
  <2>2. Due(k) \in Seq(Character) /\ Between \in Seq(Character)
    BY <1>1, <2>1, Limits, BetweenIs
  <2>3. \A x, y \in Seq(Character) : x \o y \in Seq(Character)
    OBVIOUS
  <2> QED BY <2>2, <2>3
<1>r. r \in 1..(Len(R) - 1)
  OBVIOUS
<1> DEFINE b == At(k + 1)
<1>b. b = a + 1 + Len(R) /\ b <= Len(fmt)
  BY <1>2
<1>7. ch = R[r + 1] /\ r + 1 \in 2..Len(R)
  <2> HIDE DEF a, b, R, D
  <2>1. Len(R) \in Nat
    BY <1>4
  <2>2. r + 1 \in 1..Len(R) /\ r + 1 \in 2..Len(R) /\ a + 1 + (r + 1) = p /\ p <= Len(fmt)
    BY <1>1, <1>b, <1>5, <1>r, <2>1
  <2>3. fmt[p] = R[r + 1]
    BY <1>2, <2>2
  <2> QED BY <2>2, <2>3 DEF ch
<1> HIDE DEF a, b, R, D
<1>8. ch \notin {"%", NUL}
  BY <1>3, <1>7
<1>9. Literal
  <2>1. TextDispatched
    BY <1>5, TextDispatchedIs DEF Going
  <2> QED BY <1>8, <2>1 DEF TextDispatched
<1>10. out' = Append(D \o SubSeq(R, 1, r), R[r + 1]) /\ p' = (a + 2 + r) + 1 /\ ap' = Used(k) + 1
       /\ spec' = NoSpec
  BY <1>5, <1>7, <1>9, Zenon DEF Literal
<1>11. Append(D \o SubSeq(R, 1, r), R[r + 1]) = D \o SubSeq(R, 1, r + 1)
  <2>1. r \in 0..(Len(R) - 1)
    BY <1>r
  <2>2. /\ SubSeq(R, 1, r) \in Seq(Character) /\ R[r + 1] \in Character
        /\ SubSeq(R, 1, r + 1) = Append(SubSeq(R, 1, r), R[r + 1])
    BY <1>4, <2>1, PrefixGrows
  <2> DEFINE S == SubSeq(R, 1, r)
             c == R[r + 1]
  <2>m. S \in Seq(Character) /\ c \in Character
    BY <2>2
  <2> HIDE DEF S, c
  <2>3. Append(D \o S, c) = D \o Append(S, c)
    BY <1>6, <2>m, AppendLast
  <2>4. Append(D \o SubSeq(R, 1, r), R[r + 1]) = D \o Append(SubSeq(R, 1, r), R[r + 1])
    BY <2>3 DEF S, c
  <2> QED BY <2>2, <2>4
<1>12. (a + 2 + r) + 1 = a + 2 + (r + 1)
  <2>1. r \in Nat
    BY <1>r, <1>4
  <2> QED BY <1>1, <2>1
<1>13. place' = Echoing(k, d, r + 1)
  BY <1>10, <1>11, <1>12, Zenon DEF place, Echoing, a, R, D
<1>14. ~Return
  BY <1>8 DEF Return
<1> QED BY <1>13, <1>14

\* Between two directives: the text, and the `%' of the next.
LEMMA TextStep ==
  ASSUME Going, NEW k, NEW d, Inner(k, d)
  PROVE  /\ place = Boundary(k) => place' = Opening(k) /\ ~Return
         /\ place = Opening(k) => place' = Reading(k, 0, 0, " ", Unset, Unset, 0) /\ ~Return
<1>1. /\ d \in Directive /\ At(k) \in Nat /\ Used(k) \in Nat /\ Len(fmt) \in Nat
      /\ k \in 0..(Len(asked) - 1) /\ d = asked[k + 1] /\ Given
  BY DEF Inner, Going
<1> DEFINE a == At(k)
           D == Due(k)
<1>2. ASSUME place = Boundary(k) PROVE place' = Opening(k) /\ ~Return
  <2>1. p = a + 1 /\ ap = Used(k) + 1 /\ out = D /\ spec = NoSpec
    BY <1>2 DEF place, Boundary
  <2>2. ch = "="
    <3>1. k \in 0..Len(asked) /\ k # Len(asked)
      <4>1. Len(asked) \in Nat
        BY <1>1, Limits
      <4> QED BY <1>1, <4>1
    <3>2. CharAt(a + 1) = "="
      BY <1>1, <3>1, AtBoundary
    <3> QED BY <2>1, <3>2 DEF ch, CharAt
  <2>3. Literal
    <3>1. TextDispatched
      BY <2>1, TextDispatchedIs DEF Going
    <3>2. "=" \notin {"%", NUL}
      BY DEF NUL
    <3> QED BY <2>2, <3>1, <3>2 DEF TextDispatched
  <2>4. out' = Append(D, "=") /\ p' = (a + 1) + 1 /\ ap' = Used(k) + 1 /\ spec' = NoSpec
    BY <2>1, <2>2, <2>3, Zenon DEF Literal
  <2>5. Append(D, "=") = D \o Between
    <3>1. k \in 0..Len(asked)
      <4>1. Len(asked) \in Nat
        BY <1>1, Limits
      <4> QED BY <1>1, <4>1
    <3>2. D \in Seq(Character) /\ "=" \in Character
      BY <1>1, <3>1, Limits, Characters
    <3> HIDE DEF D
    <3>3. Append(D, "=") = D \o <<"=">>
      BY <3>2, AppendIsConcat
    <3> QED BY <3>3 DEF Between
  <2>6. (a + 1) + 1 = a + 2
    BY <1>1
  <2>7. place' = Opening(k)
    BY <2>4, <2>5, <2>6, Zenon DEF place, Opening
  <2>8. ~Return
    BY <2>3, Zenon DEF Literal, Return
  <2> QED BY <2>7, <2>8
<1>3. ASSUME place = Opening(k) PROVE place' = Reading(k, 0, 0, " ", Unset, Unset, 0) /\ ~Return
  <2>1. p = a + 2 /\ ap = Used(k) + 1 /\ out = D \o Between /\ spec = NoSpec
    BY <1>3 DEF place, Opening
  <2>2. ch = "%"
    <3>1. Spelled(k, d)
      BY <1>1, SpelledIs
    <3> DEFINE e == At(k + 1)
               f == Len(d.flag)
               w == Wide(d)
               r == Precise(d)
               l == d.l
               c == Len(d.conv)
               n == Len(fmt)
    <3>n. n \in Nat /\ a \in Nat
      BY <1>1
    <3>2. /\ fmt[a + 2] = "%" /\ e = a + 2 + f + w + r + l + c /\ e <= n
          /\ f \in Nat /\ w \in Nat /\ r \in Nat /\ l \in Nat /\ c \in Nat
      BY <3>1, SMTT(30) DEF Spelled
    <3> HIDE DEF a, e, f, w, r, l, c, n
    <3>3. a + 2 <= n
      BY <3>2, <3>n
    <3> QED BY <2>1, <3>2, <3>3 DEF ch, n
  <2>3. Percent
    <3>1. TextDispatched
      BY <2>1, TextDispatchedIs DEF Going
    <3> QED BY <2>2, <3>1 DEF TextDispatched
  <2>4. /\ p' = (a + 2) + 1 /\ ap' = Used(k) + 1 /\ out' = D \o Between
        /\ spec' = [padc |-> " ", width |-> Unset, precision |-> Unset, lflag |-> 0,
                    last_fmt |-> (a + 2) + 1]
    BY <2>1, <2>3, Zenon DEF Percent
  <2>5. (a + 2) + 1 = a + 3 /\ a + 3 + 0 = a + 3 /\ (Used(k) + 1) + 0 = Used(k) + 1
    BY <1>1
  <2>6. place' = Reading(k, 0, 0, " ", Unset, Unset, 0)
    BY <2>4, <2>5, Zenon DEF place, Reading
  <2>7. "%" # NUL
    BY DEF NUL
  <2>8. ~Return
    BY <2>2, <2>7 DEF Return
  <2> QED BY <2>6, <2>8
<1> QED BY <1>2, <1>3

\* Inside a directive vprintfmt does not return.
LEMMA InsideBusy ==
  ASSUME NEW k, NEW d, At(k) \in Nat, Inside(place, k, d)
  PROVE  ~Return
<1>1. \A n, t, c, w, r, l : place = Reading(k, n, t, c, w, r, l) => spec.last_fmt = At(k) + 3
  BY DEF place, Reading
<1>2. spec.last_fmt = At(k) + 3
  BY <1>1, Zenon DEF Inside, AfterFlag, AfterWidth, AfterDot, AfterPrec
<1>3. NoSpec.last_fmt = 0 /\ At(k) + 3 # 0
  BY DEF NoSpec
<1>4. spec # NoSpec
  BY <1>2, <1>3
<1> QED BY <1>4 DEF Return, InText

\* A step inside a directive.
LEMMA InsideStep ==
  ASSUME Going, NEW k, NEW d, Inner(k, d), Inside(place, k, d)
  PROVE  \/ Inside(place', k, d)
         \/ place' = Boundary(k + 1)
         \/ ~Known(d) /\ place' = Echoing(k, d, 1)
<1>1. d \in Directive /\ d.l \in Nat
  BY DEF Inner
<1>2. CASE d.flag # <<>> /\ place = Reading(k, 0, 0, " ", Unset, Unset, 0)
  <2>1. place' = AfterFlag(k, d)
    BY <1>2, FlagStep
  <2> QED BY <1>1, <2>1, InsideIs
<1>3. CASE d.width # Unset /\ place = AfterFlag(k, d)
  <2>1. place' = AfterWidth(k, d)
    BY <1>3, WidthStep
  <2> QED BY <1>1, <2>1, InsideIs
<1>4. CASE d.prec # Unset /\ place = AfterWidth(k, d)
  <2>1. place' = AfterDot(k, d)
    BY <1>4, DotStep
  <2> QED BY <1>1, <1>4, <2>1, InsideIs
<1>5. CASE d.prec # Unset /\ place = AfterDot(k, d)
  <2>1. place' = AfterPrec(k, d, 0)
    BY <1>5, PrecStep
  <2>2. 0 \in 0..d.l
    BY <1>1
  <2> QED BY <1>1, <2>1, <2>2, InsideIs
<1>6. ASSUME NEW j \in 0..d.l, place = AfterPrec(k, d, j)
      PROVE  \/ Inside(place', k, d)
             \/ place' = Boundary(k + 1)
             \/ ~Known(d) /\ place' = Echoing(k, d, 1)
  <2>1. CASE j = d.l
    <3>1. Known(d) => place' = Boundary(k + 1)
      BY <1>6, <2>1, ConvStep
    <3>2. ~Known(d) => place' = Echoing(k, d, 1)
      BY <1>6, <2>1, UnknownStep
    <3> QED BY <3>1, <3>2
  <2>2. CASE j # d.l
    <3>1. j \in 0..(d.l - 1) /\ j + 1 \in 0..d.l
      BY <1>1, <2>2
    <3>2. place' = AfterPrec(k, d, j + 1)
      BY <1>6, <3>1, LStep
    <3> QED BY <1>1, <3>1, <3>2, InsideIs
  <2> QED BY <2>1, <2>2
<1> QED BY <1>2, <1>3, <1>4, <1>5, <1>6, Zenon DEF Inside

\* From one of the places the next step leads to another one, or it is the end.
LEMMA ReachedStep ==
  ASSUME Going, NEW k \in 0..Len(asked), Reached(place, k)
  PROVE  \/ place = Boundary(Len(asked)) /\ Return
         \/ ~Return /\ \E j \in 0..Len(asked) : Reached(place', j)
<1>1. Given /\ FmtNext /\ Len(asked) \in Nat
  BY Limits DEF Going
<1>2. CASE k = Len(asked)
  <2>1. place = Boundary(k)
    BY <1>1, <1>2 DEF Reached
  <2>2. p = At(k) + 1 /\ spec = NoSpec
    BY <2>1 DEF place, Boundary
  <2>3. ch = NUL
    <3>1. CharAt(At(k) + 1) = NUL
      BY <1>1, <1>2, AtBoundary
    <3> QED BY <2>2, <3>1 DEF ch, CharAt
  <2>4. Return
    BY <1>1, <2>2, <2>3, TextDispatchedIs DEF TextDispatched
  <2> QED BY <1>2, <2>1, <2>4
<1>3. CASE k # Len(asked)
  <2> DEFINE d == asked[k + 1]
  <2>1. /\ k \in 0..(Len(asked) - 1) /\ k < Len(asked)
        /\ k \in 0..Len(asked) /\ k + 1 \in 0..Len(asked)
    BY <1>1, <1>3
  <2>2. Inner(k, d)
    BY <2>1, InnerIs
  <2>3. d \in Directive
    BY <2>2 DEF Inner
  <2> DEFINE n == Len(Render(d))
  <2>4. n \in Nat \ {0}
    <3> DEFINE f == Len(d.flag)
               w == Wide(d)
               r == Precise(d)
               l == d.l
               c == Len(d.conv)
    <3>1. n = 1 + f + w + r + l + c /\ f \in Nat /\ w \in Nat /\ r \in Nat /\ c \in Nat
      <4> HIDE DEF d
      <4> QED BY <2>3, RenderIs
    <3>2. l \in Nat
      BY <2>2 DEF Inner
    <3> HIDE DEF n, f, w, r, l, c
    <3> QED BY <3>1, <3>2
  <2>5. ASSUME ~Known(d), NEW r \in 1..n, place' = Echoing(k, d, r)
        PROVE  \E j \in 0..Len(asked) : Reached(place', j)
    <3>1. CASE r = n
      <4>1. place' = Boundary(k + 1)
        BY <2>2, <2>5, <3>1, EchoEnd
      <4> QED BY <2>1, <4>1, Zenon DEF Reached
    <3>2. CASE r # n
      <4>1. r \in 1..(n - 1)
        <5> HIDE DEF n
        <5> QED BY <2>4, <3>2
      <4>2. Reached(place', k)
        BY <2>1, <2>5, <4>1, Zenon DEF Reached
      <4> QED BY <2>1, <4>2
    <3> QED BY <3>1, <3>2
  <2>6. ASSUME place = Boundary(k)
        PROVE  ~Return /\ \E j \in 0..Len(asked) : Reached(place', j)
    <3>1. place' = Opening(k) /\ ~Return
      BY <2>2, <2>6, TextStep
    <3>2. Reached(place', k)
      BY <2>1, <3>1, Zenon DEF Reached
    <3> QED BY <3>1, <3>2
  <2>7. ASSUME place = Opening(k)
        PROVE  ~Return /\ \E j \in 0..Len(asked) : Reached(place', j)
    <3>1. place' = Reading(k, 0, 0, " ", Unset, Unset, 0) /\ ~Return
      BY <2>2, <2>7, TextStep
    <3>2. Inside(place', k, d)
      BY <2>3, <3>1, InsideIs
    <3>3. Reached(place', k)
      BY <2>1, <3>2, Zenon DEF Reached
    <3> QED BY <3>1, <3>3
  <2>8. ASSUME Inside(place, k, d)
        PROVE  ~Return /\ \E j \in 0..Len(asked) : Reached(place', j)
    <3>0. ~Return
      <4> HIDE DEF d
      <4> QED BY <2>2, <2>8, InsideBusy DEF Inner
    <3>1. \/ Inside(place', k, d)
          \/ place' = Boundary(k + 1)
          \/ ~Known(d) /\ place' = Echoing(k, d, 1)
      <4> HIDE DEF d
      <4> QED BY <2>2, <2>8, InsideStep
    <3>2. CASE Inside(place', k, d)
      <4>1. Reached(place', k)
        BY <2>1, <3>2, Zenon DEF Reached
      <4> QED BY <3>0, <4>1
    <3>3. CASE place' = Boundary(k + 1)
      <4>1. Reached(place', k + 1)
        BY <3>3, Zenon DEF Reached
      <4> QED BY <2>1, <3>0, <4>1
    <3>4. CASE ~Known(d) /\ place' = Echoing(k, d, 1)
      <4>1. 1 \in 1..n
        <5> HIDE DEF n
        <5> QED BY <2>4
      <4> QED BY <2>5, <3>0, <3>4, <4>1
    <3> QED BY <3>0, <3>1, <3>2, <3>3, <3>4
  <2>9. ASSUME ~Known(d), NEW r \in 1..(n - 1), place = Echoing(k, d, r)
        PROVE  ~Return /\ \E j \in 0..Len(asked) : Reached(place', j)
    <3>1. place' = Echoing(k, d, r + 1) /\ ~Return
      <4> HIDE DEF d
      <4> QED BY <2>2, <2>9, EchoStep
    <3>2. r + 1 \in 1..n
      <4> HIDE DEF n
      <4> QED BY <2>4
    <3> QED BY <2>5, <2>9, <3>1, <3>2
  <2>10. \/ place = Boundary(k) \/ place = Opening(k) \/ Inside(place, k, d)
         \/ ~Known(d) /\ \E r \in 1..(n - 1) : place = Echoing(k, d, r)
    BY Zenon DEF Reached
  <2> QED BY <2>6, <2>7, <2>8, <2>9, <2>10
<1> QED BY <1>2, <1>3

\* What is asked stays, and with it what the places are.
LEMMA Stays ==
  ASSUME asked' = asked, fmt' = fmt, args' = args
  PROVE  /\ Given' <=> Given
         /\ AllConform' <=> AllConform
         /\ \A k : Reached(place, k)' <=> Reached(place', k)
<1>1. Given' <=> Given
  BY DEF Given
<1>2. AllConform' <=> AllConform
  BY DEF AllConform
<1>3. \A k : At(k)' = At(k) /\ Used(k)' = Used(k) /\ Due(k)' = Due(k)
  BY DEF At, Used, Due
<1>4. \A k, n, t, padc, width, precision, lflag :
        Reading(k, n, t, padc, width, precision, lflag)' = Reading(k, n, t, padc, width, precision, lflag)
  BY <1>3, ZenonT(30) DEF Reading
<1>5. \A k, d, r : Boundary(k)' = Boundary(k) /\ Opening(k)' = Opening(k) /\ Echoing(k, d, r)' = Echoing(k, d, r)
  BY <1>3, Zenon DEF Boundary, Opening, Echoing
<1>6. \A k, d, j : /\ AfterFlag(k, d)' = AfterFlag(k, d) /\ AfterWidth(k, d)' = AfterWidth(k, d)
                   /\ AfterDot(k, d)' = AfterDot(k, d) /\ AfterPrec(k, d, j)' = AfterPrec(k, d, j)
  BY <1>4, Zenon DEF AfterFlag, AfterWidth, AfterDot, AfterPrec
<1>7. \A x, k, d : Inside(x, k, d)' <=> Inside(x, k, d)
  <2> TAKE x, k, d
  <2> DEFINE R == Reading(k, 0, 0, " ", Unset, Unset, 0)
             A == AfterFlag(k, d)
             B == AfterWidth(k, d)
             C == AfterDot(k, d)
             E(j) == AfterPrec(k, d, j)
  <2>1. R' = R /\ A' = A /\ B' = B /\ C' = C /\ \A j : E(j)' = E(j)
    BY <1>4, <1>6, Zenon
  <2>2. Inside(x, k, d) <=>
          \/ d.flag # <<>> /\ x = R
          \/ d.width # Unset /\ x = A
          \/ d.prec # Unset /\ x = B
          \/ d.prec # Unset /\ x = C
          \/ \E j \in 0..d.l : x = E(j)
    BY Zenon DEF Inside
  <2>3. Inside(x, k, d)' <=>
          \/ d.flag # <<>> /\ x = R'
          \/ d.width # Unset /\ x = A'
          \/ d.prec # Unset /\ x = B'
          \/ d.prec # Unset /\ x = C'
          \/ \E j \in 0..d.l : x = E(j)'
    BY Zenon DEF Inside
  <2> HIDE DEF R, A, B, C, E
  <2> QED BY <2>1, <2>2, <2>3, Zenon
<1>8. \A x, k : Reached(x, k)' <=> Reached(x, k)
  BY <1>5, <1>7, Zenon DEF Reached
<1> QED BY <1>1, <1>2, <1>8

\* At the start nothing has been read.
LEMMA FmtStart == FmtInit => FmtInv
<1> SUFFICES ASSUME FmtInit PROVE FmtInv
  OBVIOUS
<1>1. Given
  BY PrintfAssumption DEF FmtInit, Given, Passes
<1>2. written = Unset /\ place = <<1, 1, <<>>, NoSpec>>
  BY DEF FmtInit, place
<1>3. FormatExact
  BY <1>2 DEF FormatExact
<1>4. Reached(place, 0)
  <2>1. At(0) = 0 /\ Used(0) = 0 /\ Due(0) = <<>>
    BY <1>1, Limits
  <2>2. Boundary(0) = <<1, 1, <<>>, NoSpec>>
    BY <2>1 DEF Boundary
  <2> QED BY <1>2, <2>2, Zenon DEF Reached
<1>5. 0 \in 0..Len(asked)
  <2>1. Len(asked) \in Nat
    BY <1>1, Limits
  <2> QED BY <2>1
<1> QED BY <1>1, <1>3, <1>4, <1>5 DEF FmtInv

\* The library when it prints nothing.
LEMMA FmtRest ==
  ASSUME asked = <<>>, fmt = <<>>, args = <<>>, out = <<>>, written = 0
  PROVE  FmtInv
<1>1. asked \in Seq(Directive) /\ Len(asked) = 0
  OBVIOUS
<1>2. /\ Formats(asked) \in Seq(Seq(Character)) /\ Len(Formats(asked)) = 0
      /\ Passes(asked) \in Seq(Seq(Argument)) /\ Len(Passes(asked)) = 0
      /\ Outputs(asked) \in Seq(Seq(Character)) /\ Len(Outputs(asked)) = 0
  BY <1>1, Sequences
<1>3. ASSUME NEW C, NEW s \in Seq(Seq(C)), Len(s) = 0 PROVE FlattenSeq(s) = <<>>
  BY <1>3, UptoIs
<1>4. FlattenSeq(Formats(asked)) = <<>> /\ FlattenSeq(Passes(asked)) = <<>> /\ FlattenSeq(Outputs(asked)) = <<>>
  BY <1>2, <1>3
<1>5. Given
  BY <1>1, <1>4 DEF Given, Format, Formats
<1>6. FormatExact
  BY <1>4 DEF FormatExact, Outputs, Shown
<1>7. written # Unset
  BY DEF Unset
<1> QED BY <1>5, <1>6, <1>7 DEF FmtInv

\* What one call of printf does.
LEMMA FmtStep ==
  ASSUME FmtInv, FmtNext
  PROVE  FmtInv'
<1>1. asked' = asked /\ fmt' = fmt /\ args' = args
  BY Zenon DEF FmtNext, Literal, Percent, Modifier, InFormat, Star, Char, String, Decimal, Unsigned,
               Escaped, Default, Return, Convert
<1>2. Given /\ Len(asked) \in Nat
  BY Limits DEF FmtInv
<1>3. Given' /\ (AllConform' <=> AllConform) /\ \A k : Reached(place, k)' <=> Reached(place', k)
  BY <1>1, <1>2, Stays
<1>4. written = Unset
  BY Zenon DEF FmtNext, Literal, Percent, Modifier, InFormat, Star, Char, String, Decimal, Unsigned,
               Escaped, Default, Return, InText, InDirective
<1>5. CASE ~AllConform
  <2>1. ~AllConform'
    BY <1>3, <1>5
  <2>2. FormatExact'
    BY <2>1 DEF FormatExact, AllConform
  <2> QED BY <1>3, <2>1, <2>2 DEF FmtInv
<1>6. CASE AllConform
  <2>1. Going
    BY <1>2, <1>4, <1>6 DEF Going
  <2>2. PICK k \in 0..Len(asked) : Reached(place, k)
    BY <1>4, <1>6 DEF FmtInv
  <2>3. CASE Return
    <3>1. out' = out /\ written' = Len(out)
      BY <2>3 DEF Return
    <3>2. place = Boundary(Len(asked))
      BY <2>1, <2>2, <2>3, ReachedStep
    <3>3. out = FlattenSeq(Outputs(asked)) /\ out \in Seq(Character)
      <4>1. out = Due(Len(asked))
        BY <3>2 DEF place, Boundary
      <4>2. Len(asked) \in 0..Len(asked)
        BY <1>2
      <4> QED BY <1>2, <4>1, <4>2, Limits
    <3>4. written' # Unset
      BY <3>1, <3>3 DEF Unset
    <3>5. out' = FlattenSeq(Outputs(asked)) /\ written' = Len(out') /\ asked' = asked
      BY <1>1, <3>1, <3>3
    <3>6. FormatExact'
      BY <3>5, Zenon DEF FormatExact, Outputs, Shown
    <3> QED BY <1>3, <3>4, <3>6, Zenon DEF FmtInv
  <2>4. CASE ~Return
    <3>1. PICK j \in 0..Len(asked) : Reached(place', j)
      BY <2>1, <2>2, <2>4, ReachedStep
    <3>2. written' = Unset
      BY <1>4, <2>4, Zenon DEF FmtNext, Literal, Percent, Modifier, InFormat, Star, Char, String,
                               Decimal, Unsigned, Escaped, Default, Convert
    <3>3. FormatExact'
      BY <3>2 DEF FormatExact
    <3>4. \E h \in 0..Len(asked') : Reached(place, h)'
      <4>1. Reached(place, j)' <=> Reached(place', j)
        BY <1>3
      <4> QED BY <1>1, <3>1, <4>1
    <3> QED BY <1>3, <3>3, <3>4, Zenon DEF FmtInv
  <2> QED BY <2>3, <2>4
<1> QED BY <1>5, <1>6

\* The variables of Printf determine it.
LEMMA FmtStutter ==
  ASSUME FmtInv, UNCHANGED fmtvars
  PROVE  FmtInv'
<1>1. /\ asked' = asked /\ fmt' = fmt /\ p' = p /\ args' = args /\ ap' = ap
      /\ spec' = spec /\ out' = out /\ written' = written
  BY DEF fmtvars
<1>2. place' = place
  BY <1>1 DEF place
<1>3. FormatExact'
  BY <1>1, Zenon DEF FmtInv, FormatExact
<1>4. Given' /\ (AllConform' <=> AllConform) /\ \A k : Reached(place, k)' <=> Reached(place', k)
  BY <1>1, Stays, Zenon DEF FmtInv
<1> QED BY <1>1, <1>2, <1>3, <1>4, Zenon DEF FmtInv

--------------------------------------------------------------------------------
(* Every format.                                                               *)

\* While vprintfmt runs it is at one of the places, with out and ap as they should be
\* there; when it has returned it has written what it should.
THEOREM FormatRead == Spec => []FmtInv
<1>1. Init => FmtInv
  BY FmtStart, FmtRest DEF Init, FmtIdle
<1>2. FmtInv /\ [Next]_libvars => FmtInv'
  <2> SUFFICES ASSUME FmtInv, [Next]_libvars PROVE FmtInv'
    OBVIOUS
  <2>1. CASE FmtNext
    BY <2>1, FmtStep
  <2>2. CASE UNCHANGED fmtvars
    BY <2>2, FmtStutter
  <2> QED BY <2>1, <2>2, Zenon DEF Next, libvars
<1> QED BY <1>1, <1>2, PTL DEF Spec

\* printf and sprintf write what ISO C says of every format on which they can be expected
\* to, from the arguments that belong to each directive, and a directive they do not
\* know as it stands; sprintf returns the length.
THEOREM FormatsRight == Spec => []FormatExact
<1>1. FmtInv => FormatExact
  BY DEF FmtInv
<1> QED BY <1>1, FormatRead, PTL
================================================================================
