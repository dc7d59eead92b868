-------------------------------- MODULE CString --------------------------------
(* The memory and string routines of src/src/common/syscalls.c and             *)
(* src/src/env/v/string.c, printhex, and verify and verifyDouble of            *)
(* src/src/common/util.h: one call on a small memory, one access a step.       *)
(*                                                                             *)
(* A call is its function f and its parameters: pointers a (the destination,   *)
(* if there is one) and b, and a number n.  Bytes are 0..255 and char is       *)
(* unsigned, as on RISC-V.                                                     *)
EXTENDS Integers, SequencesExt

CONSTANTS
  WordBytes,   \* sizeof(uintptr_t)
  MemSize,
  Calls,       \* the calls and the memory each finds: records f, a, b, n, mem
  Running      \* the result of a call that has not returned

Cells == 0..(MemSize - 1)

\* The n cells from x onwards, none of them outside memory; a string that ends in it.
Within(x, n) == x \in Nat /\ n \in Nat /\ x + n <= MemSize
Ends(m, x) == x \in Nat /\ \E y \in Cells : x <= y /\ m[y] = 0

Space == 32
Plus == 43
Dash == 45
Zero == 48
Decimals == Zero..(Zero + 9)

\* A numeral at x: spaces, a sign or none, and digits up to the terminator.
NumeralAt(m, x) ==
  x \in Nat /\ \E s, e \in Cells :
    /\ x <= s /\ s <= e /\ m[e] = 0
    /\ \A y \in x..(s - 1) : m[y] = Space
    /\ \A y \in s..(e - 1) : m[y] \in Decimals \/ (y = s /\ m[y] \in {Plus, Dash})

\* What ISO C asks of a caller: operands that lie in memory, strings that end, and a
\* destination that holds what it is sent and does not overlap where that is from.
Legal(c) ==
  /\ c.f \in {"memcpy", "memset", "memcmp", "strlen", "strnlen", "strcmp", "strcpy", "atol",
              "printhex", "verify", "verifyDouble"}
  /\ c.mem \in [Cells -> Int]
  /\ c.f \in {"memcpy", "memcmp", "verify", "verifyDouble"} => Within(c.a, c.n) /\ Within(c.b, c.n)
  /\ c.f = "memcpy" => c.a + c.n <= c.b \/ c.b + c.n <= c.a
  /\ c.f = "memset" => Within(c.a, c.n) /\ c.b \in Int
  /\ c.f \in {"strlen", "strcmp"} => Ends(c.mem, c.a)
  /\ c.f = "atol" => NumeralAt(c.mem, c.a)
  /\ c.f = "strcmp" => Ends(c.mem, c.b)
  /\ c.f = "strnlen" => c.a \in Nat /\ c.n \in Nat /\ (Ends(c.mem, c.a) \/ Within(c.a, c.n))
  /\ c.f = "strcpy" => \E k \in Cells :
       Within(c.a, k + 1) /\ Within(c.b, k + 1) /\ c.mem[c.b + k] = 0
         /\ (c.a + k < c.b \/ c.b + k < c.a)
  /\ c.f = "printhex" => Within(c.a, 17) /\ c.n \in Nat

ASSUME MemoryAssumption ==
  /\ WordBytes \in {4, 8} /\ MemSize \in Nat \ {0}
  /\ Running \notin Int
  /\ \A c \in Calls : Legal(c)

VARIABLES
  call,
  mem,
  i,           \* how far the loop has come
  phase,       \* which loop the call is in: words, bytes, or atol's spaces and digits
  acc, neg,    \* res and sign of atol; x of printhex
  ret          \* the result, or Running

strvars == <<call, mem, i, phase, acc, neg, ret>>

Ascii(d) == IF d < 10 THEN Zero + d ELSE 87 + d
Nibbles == 16

\* ((x | y | n) & (sizeof(uintptr_t) - 1)) == 0
AllAligned(S) == \A x \in S : x % WordBytes = 0

\* Which calls start with a loop over words: memcmp whatever its length.
ByWords(c) ==
  \/ c.f = "memcpy" /\ AllAligned({c.a, c.b, c.n})
  \/ c.f = "memset" /\ AllAligned({c.a, c.n})
  \/ c.f = "memcmp" /\ AllAligned({c.a, c.b})

StrInit ==
  /\ call \in Calls
  /\ mem = call.mem
  /\ i = 0
  /\ phase = IF ByWords(call) THEN "words" ELSE IF call.f = "atol" THEN "spaces" ELSE "bytes"
  /\ acc = (IF call.f = "printhex" THEN call.n ELSE 0) /\ neg = FALSE
  /\ ret = Running

Calling(F) == ret = Running /\ call.f \in F

\* The bytes of v at address x onwards, the rest of memory as it is.
Put(x, v) == mem' = [y \in DOMAIN mem |-> IF y \in x..(x + Len(v) - 1) THEN v[y - x + 1] ELSE mem[y]]
WordAt(x) == [k \in 1..WordBytes |-> mem[x + k - 1]]

\* word << 8 * n and a | b, where no byte is set in both unless it is the same.
ShiftedBytes(w, n) == [k \in DOMAIN w |-> IF k > n THEN w[k - n] ELSE 0]
Or(v, w) == [k \in DOMAIN v |-> IF v[k] = 0 THEN w[k] ELSE v[k]]

\* (A deliberately wrong variant: only the first of the shifts.)
Spread_OneShift(byte) ==
  LET low == [k \in 1..WordBytes |-> IF k = 1 THEN byte % 256 ELSE 0]
  IN  Or(low, ShiftedBytes(low, 1))

\* The word memset fills with.
Spread(byte) ==
  LET low  == [k \in 1..WordBytes |-> IF k = 1 THEN byte % 256 ELSE 0]
      half == Or(low, ShiftedBytes(low, 1))
      word == Or(half, ShiftedBytes(half, 2))
  IN  Or(word, ShiftedBytes(ShiftedBytes(word, 2), 2))

--------------------------------------------------------------------------------
\* memcpy and memset, a word or a byte at a time.
CopyWord ==
  /\ Calling({"memcpy"}) /\ phase = "words" /\ i < call.n
  /\ Put(call.a + i, WordAt(call.b + i))
  /\ i' = i + WordBytes
  /\ UNCHANGED <<call, phase, acc, neg, ret>>

CopyByte ==
  /\ Calling({"memcpy"}) /\ phase = "bytes" /\ i < call.n
  /\ Put(call.a + i, <<mem[call.b + i]>>)
  /\ i' = i + 1
  /\ UNCHANGED <<call, phase, acc, neg, ret>>

FillWord ==
  /\ Calling({"memset"}) /\ phase = "words" /\ i < call.n
  /\ Put(call.a + i, Spread(call.b))
  /\ i' = i + WordBytes
  /\ UNCHANGED <<call, phase, acc, neg, ret>>

FillByte ==
  /\ Calling({"memset"}) /\ phase = "bytes" /\ i < call.n
  /\ Put(call.a + i, <<call.b % 256>>)
  /\ i' = i + 1
  /\ UNCHANGED <<call, phase, acc, neg, ret>>

\* (Deliberately wrong variants of the next definition.)
CompareWord_TakesUnequal ==
  /\ Calling({"memcmp"}) /\ phase = "words"
  /\ IF i < (call.n \div WordBytes) * WordBytes
     THEN i' = i + WordBytes /\ phase' = IF WordAt(call.a + i) = WordAt(call.b + i) THEN phase ELSE "bytes"
     ELSE i' = i /\ phase' = "bytes"
  /\ UNCHANGED <<call, mem, acc, neg, ret>>

CompareWord_NoBreak ==
  /\ Calling({"memcmp"}) /\ phase = "words"
  /\ IF i < (call.n \div WordBytes) * WordBytes
     THEN i' = (IF WordAt(call.a + i) = WordAt(call.b + i) THEN i + WordBytes ELSE i) /\ phase' = phase
     ELSE i' = i /\ phase' = "bytes"
  /\ UNCHANGED <<call, mem, acc, neg, ret>>

\* memcmp: whole words while they are equal, from there on bytes.
CompareWord ==
  /\ Calling({"memcmp"}) /\ phase = "words"
  /\ IF i < (call.n \div WordBytes) * WordBytes /\ WordAt(call.a + i) = WordAt(call.b + i)
     THEN i' = i + WordBytes /\ phase' = phase
     ELSE i' = i /\ phase' = "bytes"
  /\ UNCHANGED <<call, mem, acc, neg, ret>>

CompareByte ==
  /\ Calling({"memcmp"}) /\ phase = "bytes" /\ i < call.n
  /\ LET c1 == mem[call.a + i]
         c2 == mem[call.b + i]
     IN  IF c1 = c2 THEN i' = i + 1 /\ ret' = ret ELSE i' = i /\ ret' = c1 - c2
  /\ UNCHANGED <<call, mem, phase, acc, neg>>

\* memcpy, memset and memcmp at the end of their loops.
EndOfRange ==
  /\ Calling({"memcpy", "memset", "memcmp"}) /\ i >= call.n
  /\ call.f = "memcmp" => phase = "bytes"
  /\ ret' = IF call.f = "memcmp" THEN 0 ELSE call.a
  /\ UNCHANGED <<call, mem, i, phase, acc, neg>>

\* strlen and strnlen.
Measure ==
  /\ Calling({"strlen", "strnlen"})
  /\ IF (call.f = "strnlen" => i < call.n) /\ mem[call.a + i] # 0
     THEN i' = i + 1 /\ ret' = ret
     ELSE i' = i /\ ret' = i
  /\ UNCHANGED <<call, mem, phase, acc, neg>>

Strcmp ==
  /\ Calling({"strcmp"})
  /\ LET c1 == mem[call.a + i]
         c2 == mem[call.b + i]
     IN  IF c1 # 0 /\ c1 = c2 THEN i' = i + 1 /\ ret' = ret ELSE i' = i /\ ret' = c1 - c2
  /\ UNCHANGED <<call, mem, phase, acc, neg>>

\* The terminator is copied too.
Strcpy ==
  /\ Calling({"strcpy"})
  /\ Put(call.a + i, <<mem[call.b + i]>>)
  /\ i' = i + 1
  /\ ret' = IF mem[call.b + i] = 0 THEN call.a ELSE ret
  /\ UNCHANGED <<call, phase, acc, neg>>

\* atol: spaces, one sign, then digits, which nothing checks to be digits (a numeral
\* too big for a long overflows in C; here every numeral fits).
AtolSign ==
  /\ Calling({"atol"}) /\ phase = "spaces"
  /\ LET c == mem[call.a + i]
     IN  /\ neg' = (c = Dash)
         /\ i' = IF c \in {Space, Dash, Plus} THEN i + 1 ELSE i
         /\ phase' = IF c = Space THEN "spaces" ELSE "digits"
  /\ UNCHANGED <<call, mem, acc, ret>>

AtolDigit ==
  /\ Calling({"atol"}) /\ phase = "digits"
  /\ LET c == mem[call.a + i]
     IN  IF c # 0
         THEN acc' = acc * 10 + (c - Zero) /\ i' = i + 1 /\ ret' = ret
         ELSE UNCHANGED <<acc, i>> /\ ret' = IF neg THEN -acc ELSE acc
  /\ UNCHANGED <<call, mem, phase, neg>>

\* printhex: the last nibble first, then the terminator, then printstr.
Nibble ==
  /\ Calling({"printhex"})
  /\ IF i < Nibbles
     THEN /\ Put(call.a + Nibbles - 1 - i, <<Ascii(acc % 16)>>)
          /\ acc' = acc \div 16 /\ i' = i + 1 /\ ret' = ret
     ELSE /\ Put(call.a + Nibbles, <<0>>)
          /\ UNCHANGED <<acc, i>> /\ ret' = call.a
  /\ UNCHANGED <<call, phase, neg>>

\* verify and verifyDouble: two elements a turn, the last of an odd number alone (no
\* double is a NaN, which -ffast-math lets the compiler take for granted).
VerifyPair ==
  /\ Calling({"verify", "verifyDouble"}) /\ i < (call.n \div 2) * 2
  /\ LET eq1 == (mem[call.a + i] = mem[call.b + i])
         eq2 == (mem[call.a + i + 1] = mem[call.b + i + 1])
     IN  IF eq1 /\ eq2 THEN i' = i + 2 /\ ret' = ret
         ELSE i' = i /\ ret' = IF eq1 THEN i + 2 ELSE i + 1
  /\ UNCHANGED <<call, mem, phase, acc, neg>>

VerifyLast ==
  /\ Calling({"verify", "verifyDouble"}) /\ i >= (call.n \div 2) * 2
  /\ ret' = IF call.n % 2 # 0 /\ mem[call.a + call.n - 1] # mem[call.b + call.n - 1]
            THEN call.n ELSE 0
  /\ UNCHANGED <<call, mem, i, phase, acc, neg>>

StrNext ==
  \/ CopyWord \/ CopyByte \/ FillWord \/ FillByte \/ CompareWord \/ CompareByte \/ EndOfRange
  \/ Measure \/ Strcmp \/ Strcpy \/ AtolSign \/ AtolDigit \/ Nibble \/ VerifyPair \/ VerifyLast

--------------------------------------------------------------------------------
(* What ISO C, or the name, promises of each routine, without a loop.          *)
First(P(_), n) == CHOOSE k \in 0..n : (k = n \/ P(k)) /\ \A j \in 0..(k - 1) : ~P(j)

Length(x) == First(LAMBDA k : call.mem[x + k] = 0, MemSize - x)
Differ(k) == call.mem[call.a + k] # call.mem[call.b + k]
FirstDifference == First(Differ, call.n)
FirstDecisive == First(LAMBDA k : Differ(k) \/ call.mem[call.a + k] = 0, MemSize)
Sign(n) == IF n < 0 THEN -1 ELSE IF n > 0 THEN 1 ELSE 0

\* A number without its last j digits, reckoned in words for TLC; and its digit in
\* the place of 16^j.
Without(j) == IF j > 7 THEN ((call.n \div 16^7) \div 16) \div 16^(j - 8) ELSE call.n \div 16^j
HexDigit(j) == Ascii(Without(j) % 16)

\* The bytes a call leaves at its destination.
Stored ==
  CASE call.f = "memcpy" -> [k \in 1..call.n |-> call.mem[call.b + k - 1]]
    [] call.f = "memset" -> [k \in 1..call.n |-> call.b % 256]
    [] call.f = "strcpy" -> [k \in 1..(Length(call.b) + 1) |-> call.mem[call.b + k - 1]]
    [] call.f = "printhex" ->
         [k \in 1..(Nibbles + 1) |->
            IF k > Nibbles THEN 0 ELSE HexDigit(Nibbles - k)]
    [] OTHER -> <<>>

\* When a call has returned, its destination holds what it should, to the last
\* byte, and no byte of memory beside it has changed.
MemoryExact ==
  ret # Running =>
    mem = [y \in DOMAIN call.mem |->
             IF y - call.a + 1 \in DOMAIN Stored THEN Stored[y - call.a + 1] ELSE call.mem[y]]

\* The value of the last k characters atol reads, each digit weighed by its place
\* (anything else counts nothing); and the value of them all, with the sign.
Weight[k \in 0..MemSize] == IF k = 0 THEN 1 ELSE 10 * Weight[k - 1]
DigitAt(x) == IF call.mem[x] \in Decimals THEN call.mem[x] - Zero ELSE 0
ValueOf[k \in 0..Length(call.a)] ==
  IF k = 0 THEN 0 ELSE ValueOf[k - 1] + DigitAt(call.a + Length(call.a) - k) * Weight[k - 1]

Negative == \E k \in 0..(Length(call.a) - 1) : call.mem[call.a + k] = Dash
Parsed == IF Negative THEN -ValueOf[Length(call.a)] ELSE ValueOf[Length(call.a)]

\* Every routine returns what it should, whichever of its loops ends it: lengths,
\* the order of the first difference, the number of the first wrong element, the
\* value of a numeral.
ResultExact ==
  ret # Running =>
    CASE call.f = "memcmp" ->
           LET k == FirstDifference
           IN  Sign(ret) = IF k = call.n THEN 0 ELSE Sign(call.mem[call.a + k] - call.mem[call.b + k])
      [] call.f = "strcmp" ->
           Sign(ret) = Sign(call.mem[call.a + FirstDecisive] - call.mem[call.b + FirstDecisive])
      [] call.f = "strlen" -> ret = Length(call.a)
      [] call.f = "strnlen" -> ret = IF Length(call.a) < call.n THEN Length(call.a) ELSE call.n
      [] call.f \in {"verify", "verifyDouble"} ->
           ret = IF FirstDifference = call.n THEN 0 ELSE FirstDifference + 1
      [] call.f = "atol" -> ret = Parsed
      [] OTHER -> ret = call.a

--------------------------------------------------------------------------------
(* Why the two hold: the loop invariants, proved in LibcProofs.                *)

\* What memcpy, memset and strcpy send to the k-th cell of the destination; and
\* that they have filled n cells of it and touched nothing else.
Source(k) == IF call.f = "memset" THEN call.b % 256 ELSE call.mem[call.b + k]
Filled(n) ==
  mem = [y \in Cells |->
           IF y \in call.a..(call.a + n - 1) THEN Source(y - call.a) ELSE call.mem[y]]

\* printhex after i digits, the last of them first.
HexFilled ==
  mem = [y \in Cells |->
           IF y \in (call.a + Nibbles - i)..(call.a + Nibbles - 1)
           THEN HexDigit(call.a + Nibbles - 1 - y) ELSE call.mem[y]]

Equal(n) == \A k \in 0..(n - 1) : ~Differ(k)
NonZero(x, n) == \A k \in 0..(n - 1) : call.mem[x + k] # 0

\* atol: what it has read so far is the first i characters, whatever it has yet to
\* read comes after them, and only digits come after the sign.
AtolInv ==
  LET n == Length(call.a)
  IN  /\ n \in Nat /\ i <= n /\ call.a + n < MemSize /\ call.mem[call.a + n] = 0
      /\ acc \in Int /\ acc * Weight[n - i] = ValueOf[n] - ValueOf[n - i]
      /\ phase \in {"spaces", "digits"}
      /\ phase = "spaces" => acc = 0 /\ \A k \in 0..(i - 1) : call.mem[call.a + k] = Space
      /\ phase = "digits" =>
           /\ neg = Negative
           /\ \A k \in i..(n - 1) : call.mem[call.a + k] \in Decimals

\* Loops over words take whole words of what is asked for.
LoopInv ==
  /\ call.f \in {"memcpy", "memset"} =>
       /\ i <= call.n /\ Filled(i)
       /\ phase = "words" => i % WordBytes = 0 /\ call.n % WordBytes = 0
  /\ call.f = "memcmp" =>
       i <= call.n /\ Equal(i) /\ (phase = "words" => i % WordBytes = 0)
  /\ call.f \in {"strlen", "strnlen"} => NonZero(call.a, i)
  /\ call.f = "strnlen" => i <= call.n
  /\ call.f = "strcmp" => Equal(i) /\ NonZero(call.a, i)
  /\ call.f = "strcpy" => Filled(i) /\ NonZero(call.b, i)
  /\ call.f = "atol" => AtolInv
  /\ call.f = "printhex" =>
       i <= Nibbles /\ HexFilled /\ acc \in Nat /\ (i < Nibbles => acc = Without(i))
  /\ call.f \in {"verify", "verifyDouble"} =>
       i <= (call.n \div 2) * 2 /\ i % 2 = 0 /\ Equal(i)

StrInv ==
  /\ Legal(call) /\ mem \in [Cells -> Int] /\ i \in Nat
  /\ call.f \notin {"memcpy", "memset", "strcpy", "printhex"} => mem = call.mem
  /\ ret = Running => LoopInv
  /\ ResultExact
  /\ MemoryExact
================================================================================
