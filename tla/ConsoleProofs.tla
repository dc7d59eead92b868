----------------------------- MODULE ConsoleProofs -----------------------------
(* Proofs about Console, for any characters, any texts printed, any codes, any *)
(* size of htif_putchar's buffer and however much is printed and typed.        *)
EXTENDS Console, SequenceTheorems, WellFoundedInduction, TLAPS

LEMMA SingleChar == \A c \in Char : <<c>> \in Seq(Char) /\ Len(<<c>>) = 1
  OBVIOUS

LEMMA BytesAreChars == \A c \in Char : Bytes(c) \in Seq(Char) /\ Bytes(c) # <<>>
  BY ConsoleAssumption DEF Bytes

LEMMA ConcatChars ==
  ASSUME NEW s \in Seq(Char), NEW t \in Seq(Char), NEW u \in Seq(Char)
  PROVE  s \o (t \o u) = s \o t \o u
  BY ConcatAssociative

\* What is to be sent is its first character and the rest.
LEMMA HeadThenTail ==
  ASSUME NEW s \in Seq(Char), s # <<>>
  PROVE  s = <<Head(s)>> \o Tail(s)
  <1>1. /\ Head(s) \in Char /\ Tail(s) \in Seq(Char) /\ Len(Tail(s)) = Len(s) - 1
        /\ \A k \in 1..Len(Tail(s)) : Tail(s)[k] = s[k + 1]
    BY HeadTailProperties
  <1>2. <<Head(s)>> \in Seq(Char) /\ Len(<<Head(s)>>) = 1 /\ <<Head(s)>>[1] = s[1]
    BY <1>1
  <1>3. Len(s) \in Nat \ {0}
    BY EmptySeq
  <1> DEFINE t == <<Head(s)>> \o Tail(s)
  <1>4. /\ t \in Seq(Char) /\ Len(t) = Len(s)
        /\ \A k \in 1..Len(s) : t[k] = IF k <= 1 THEN <<Head(s)>>[k] ELSE Tail(s)[k - 1]
    BY <1>1, <1>2, <1>3, ConcatProperties
  <1>5. ASSUME NEW k \in 1..Len(s) PROVE s[k] = t[k]
    <2>1. CASE k = 1
      BY <1>2, <1>4, <2>1
    <2>2. CASE k # 1
      <3>1. k - 1 \in 1..Len(Tail(s)) /\ (k - 1) + 1 = k
        BY <1>1, <1>3, <2>2
      <3>2. QED
        BY <1>1, <1>4, <2>2, <3>1
    <2>3. QED
      BY <2>1, <2>2
  <1> HIDE DEF t
  <1>6. s = t
    BY <1>4, <1>5, SeqEqual
  <1>7. QED
    BY <1>6 DEF t

\* A sequence ends with what was put after it last.
LEMMA EndsWithLast ==
  ASSUME NEW s \in Seq(Char), NEW t \in Seq(Char)
  PROVE  EndsWith(s \o t, t)
  <1>1. /\ s \o t \in Seq(Char) /\ Len(s \o t) = Len(s) + Len(t)
        /\ Len(s) \in Nat /\ Len(t) \in Nat
    BY ConcatProperties, LenProperties
  <1>2. CASE t = <<>>
    <2>1. Len(t) = 0
      BY <1>2
    <2>2. SubSeq(s \o t, Len(s \o t) - Len(t) + 1, Len(s \o t)) = <<>>
      BY <1>1, <2>1, SubSeqEmpty
    <2>3. QED
      BY <1>1, <1>2, <2>1, <2>2 DEF EndsWith
  <1>3. CASE t # <<>>
    <2>1. Len(t) >= 1
      BY <1>1, <1>3, EmptySeq
    <2>2. SubSeq(s \o t, Len(s) + 1, Len(s) + Len(t)) = SubSeq(t, 1, Len(t))
      <3>1. /\ Len(s) + 1 \in Len(s)+1 .. Len(s)+Len(t)
            /\ Len(s) + Len(t) \in Len(s)+1 .. Len(s)+Len(t)
            /\ (Len(s) + 1) - Len(s) = 1 /\ (Len(s) + Len(t)) - Len(s) = Len(t)
        BY <1>1, <2>1
      <3>2. QED
        BY <3>1, SubSeqOfConcat2
    <2>3. SubSeq(t, 1, Len(t)) = t
      BY SubSeqFull
    <2>4. Len(s \o t) - Len(t) + 1 = Len(s) + 1
      BY <1>1
    <2>5. QED
      BY <1>1, <2>2, <2>3, <2>4 DEF EndsWith
  <1>4. QED
    BY <1>2, <1>3

\* The first part of a concatenation is a beginning of it.
LEMMA BeginsWithFirst ==
  ASSUME NEW s \in Seq(Char), NEW t \in Seq(Char)
  PROVE  \E k \in 0..Len(s \o t) : s = SubSeq(s \o t, 1, k)
  <1>1. /\ Len(s \o t) = Len(s) + Len(t) /\ Len(s) \in Nat /\ Len(t) \in Nat
    BY ConcatProperties, LenProperties
  <1>2. Len(s) \in 0..Len(s \o t)
    BY <1>1
  <1>3. CASE s = <<>>
    <2>1. Len(s) = 0
      BY <1>3
    <2>2. SubSeq(s \o t, 1, Len(s)) = <<>>
      BY <2>1, SubSeqEmpty
    <2>3. QED
      BY <1>2, <1>3, <2>2
  <1>4. CASE s # <<>>
    <2>1. Len(s) >= 1
      BY <1>1, <1>4, EmptySeq
    <2>2. SubSeq(s \o t, 1, Len(s)) = SubSeq(s, 1, Len(s))
      BY <1>1, <2>1, SubSeqOfConcat1
    <2>3. QED
      BY <1>2, <2>2, SubSeqFull
  <1>5. QED
    BY <1>3, <1>4

\* A call hands characters to the UART: the account of what it was given is kept.
LEMMA ToUartStep ==
  ASSUME IInv, NEW s \in Seq(Char), NEW then \in {"run", "read"}, pc \in {"run", "read"},
         ToUart(s, then), UNCHANGED <<buf, htif, terminal, device>>
  PROVE  /\ todo' \in Seq(Char) /\ typed' \in Seq(Char) /\ typed' = typed \o s
         /\ pc' \in {"send", then} /\ back' = then
         /\ UNCHANGED <<arg, flushing, asked>>
         /\ HandshakeInv' /\ ExitInv' /\ ShownInv' /\ SendInv' /\ BufferInv'
  <1> USE DEF ToUart, call, htif, terminal, device
  <1>1. pc' \in {"send", then}
    OBVIOUS
  <1>2. HandshakeInv' /\ ExitInv'
    BY <1>1 DEF IInv, HandshakeInv, ExitInv
  <1>3. ShownInv'
    BY <1>1 DEF IInv, ShownInv, Unserved
  <1>4. SendInv' /\ typed \o s \in Seq(Char)
    <2>1. /\ todo = <<>> /\ typed = line \o thr \o <<>>
          /\ typed \in Seq(Char) /\ line \o thr \in Seq(Char)
      BY ConcatProperties DEF IInv, TypeOK, SendInv, UartExact
    <2>2. typed = line \o thr
      BY <2>1, ConcatEmptySeq
    <2>3. typed \o s \in Seq(Char)
      BY <2>1, ConcatProperties
    <2>4. QED
      BY <2>2, <2>3 DEF SendInv, UartExact
  <1>5. BufferInv'
    BY <1>1 DEF IInv, BufferInv
  <1>6. QED
    BY <1>1, <1>2, <1>3, <1>4, <1>5

\* A call asks the host to write: everything asked for before is written.
LEMMA ToHostStep ==
  ASSUME IInv, NEW s \in Seq(Char), NEW f \in BOOLEAN, pc = "run",
         ToHost(s, f), f \/ buf' = buf, UNCHANGED <<htif, terminal, device>>
  PROVE  /\ arg' \in Seq(Char) /\ flushing' \in BOOLEAN
         /\ asked' \in Seq(Char) /\ asked' = asked \o s /\ pc' = "syscall"
         /\ UNCHANGED <<todo, typed, back>>
         /\ HandshakeInv' /\ ExitInv' /\ ShownInv' /\ SendInv' /\ BufferInv'
  <1> USE DEF ToHost, htif, terminal, device
  <1>1. HandshakeInv' /\ ExitInv'
    BY DEF IInv, HandshakeInv, ExitInv
  <1>2. ShownInv' /\ asked \o s \in Seq(Char)
    BY ConcatProperties DEF IInv, TypeOK, ShownInv, Unserved
  <1>3. SendInv'
    BY DEF IInv, SendInv, UartExact
  <1>4. BufferInv'
    BY DEF IInv, BufferInv
  <1>5. QED
    BY <1>1, <1>2, <1>3, <1>4

\* printstr, and the report of the counters: what is printed comes last.
LEMMA PrintStep ==
  ASSUME IInv, NEW s \in Seq(Char), pc = "run",
         PrintAsIs(s), UNCHANGED <<buf, htif, terminal, device>>
  PROVE  /\ todo' \in Seq(Char) /\ typed' \in Seq(Char) /\ asked' \in Seq(Char)
         /\ arg' \in Seq(Char) /\ flushing' \in BOOLEAN /\ back' \in {"run", back}
         /\ pc' \in {"run", "send", "syscall"} /\ (pc' = "send" => back' = "run")
         /\ EndsWith(asked', s) \/ EndsWith(typed', s)
         /\ HandshakeInv' /\ ExitInv' /\ ShownInv' /\ SendInv' /\ BufferInv'
  <1>1. CASE uart16550
    <2>1. ToUart(s, "run")
      BY <1>1 DEF PrintAsIs
    <2>2. EndsWith(typed \o s, s)
      BY EndsWithLast DEF IInv, TypeOK
    <2>3. QED
      BY <2>1, <2>2, ToUartStep DEF IInv, TypeOK
  <1>2. CASE ~uart16550
    <2>1. ToHost(s, FALSE)
      BY <1>2 DEF PrintAsIs
    <2>2. EndsWith(asked \o s, s)
      BY EndsWithLast DEF IInv, TypeOK
    <2>3. QED
      BY <2>1, <2>2, ToHostStep DEF IInv, TypeOK
  <1>3. QED
    BY <1>1, <1>2

LEMMA InitIInv == Init => IInv
  <1> SUFFICES ASSUME Init PROVE IInv
    OBVIOUS
  <1> USE ConsoleAssumption DEF Init
  <1>1. TypeOK
    <2>1. \A S : <<>> \in Seq(S) /\ Len(<<>>) = 0
      BY EmptySeq
    <2>2. report \in {<<>>, Named, Unnamed} /\ leaving \in Codes \cup {None}
      OBVIOUS
    <2>3. lines \in Seq([text : Seq(Char \cup {NUL}), len : Lens])
      BY <2>1
    <2>4. thr \in Seq(Char) /\ Len(thr) <= 1
      BY <2>1
    <2>5. rx \in Seq(Char) /\ Len(rx) <= RxSize /\ overrun \in BOOLEAN
      <3>1. rx = <<>> /\ overrun = FALSE
        OBVIOUS
      <3>2. rx \in Seq(Char) /\ Len(rx) = 0
        BY <2>1, <3>1
      <3>3. RxSize \in Nat
        OBVIOUS
      <3>4. Len(rx) <= RxSize
        BY ONLY <3>2, <3>3
      <3>5. overrun \in BOOLEAN
        BY ONLY <3>1
      <3>6. QED
        BY <3>2, <3>4, <3>5
    <2>6. QED
      BY <2>1, <2>2, <2>3, <2>4, <2>5 DEF TypeOK
  <1>2. HandshakeInv /\ ExitInv
    BY DEF HandshakeInv, ExitInv
  <1>3. ShownInv
    BY DEF ShownInv, Unserved
  <1>4. SendInv
    BY ConcatEmptySeq, EmptySeq DEF SendInv, UartExact
  <1>5. BufferInv /\ InputInv
    BY DEF BufferInv, InputInv
  <1>6. QED
    BY <1>1, <1>2, <1>3, <1>4, <1>5 DEF IInv

\* Every step preserves the inductive invariant.
LEMMA NextIInv == IInv /\ [Next]_vars => IInv'
  <1> SUFFICES ASSUME IInv, [Next]_vars PROVE IInv'
    OBVIOUS
  <1> USE ConsoleAssumption DEF call, input, leave, device, htif, terminal, Idle
  <1>1. ASSUME Probe PROVE IInv'
    <2> USE <1>1 DEF Probe
    <2>1. TypeOK'
      BY DEF IInv, TypeOK
    <2>2. HandshakeInv' /\ ExitInv' /\ ShownInv' /\ SendInv' /\ BufferInv' /\ InputInv'
      BY DEF IInv, TypeOK, HandshakeInv, ExitInv, ShownInv, Unserved, SendInv, UartExact,
         BufferInv, InputInv
    <2>3. QED
      BY <2>1, <2>2 DEF IInv
  <1>2. ASSUME NEW c \in Printed, Putchar(c) PROVE IInv'
    <2> USE <1>2 DEF Putchar
    <2>1. c \in Char /\ Bytes(c) \in Seq(Char) /\ Append(buf, c) \in Seq(Char)
      BY BytesAreChars, AppendProperties DEF IInv, TypeOK
    <2>2. InputInv'
      BY DEF IInv, TypeOK, SendInv, InputInv, ToUart, ToHost
    <2>3. CASE uart16550
      <3>1. ToUart(Bytes(c), "run") /\ UNCHANGED <<buf, htif, terminal, device>>
        BY <2>3
      <3>2. TypeOK'
        BY <2>1, <2>3, <3>1, ToUartStep DEF IInv, TypeOK
      <3>3. QED
        BY <2>1, <2>2, <3>1, <3>2, ToUartStep DEF IInv
    <2>4. CASE ~uart16550 /\ (c = NL \/ Len(buf') = BufSize)
      <3>1. ToHost(Append(buf, c), TRUE)
        BY <2>4
      <3>2. TypeOK'
        <4>1. /\ arg' \in Seq(Char) /\ flushing' \in BOOLEAN /\ asked' \in Seq(Char)
              /\ pc' = "syscall" /\ UNCHANGED <<todo, typed, back>>
          BY <2>1, <2>4, <3>1, ToHostStep
        <4>2. buf' \in Seq(Char)
          BY <2>1, <2>4
        <4>3. QED
          BY <4>1, <4>2, SMTT(30) DEF IInv, TypeOK
      <3>3. QED
        BY <2>1, <2>2, <3>1, <3>2, ToHostStep DEF IInv
    <2>5. CASE ~uart16550 /\ c # NL /\ Len(buf') # BufSize
      <3>1. buf' = Append(buf, c) /\ UNCHANGED <<pc, asked, todo, typed, back>>
        BY <2>5
      <3>2. TypeOK'
        <4>1. buf' \in Seq(Char) /\ UNCHANGED <<arg, flushing>>
          BY <2>1, <2>5, <3>1
        <4>2. QED
          BY <3>1, <4>1, SMTT(30) DEF IInv, TypeOK
      <3>3. HandshakeInv' /\ ExitInv' /\ ShownInv' /\ SendInv'
        BY <2>5, <3>1 DEF IInv, HandshakeInv, ExitInv, ShownInv, Unserved, SendInv, UartExact
      <3>4. BufferInv'
        <4>1. /\ Len(buf) < BufSize /\ \A k \in DOMAIN buf : buf[k] # NL
              /\ buf \in Seq(Char)
          BY DEF IInv, TypeOK, BufferInv
        <4>2. Len(buf') = Len(buf) + 1 /\ Len(buf) \in Nat /\ DOMAIN buf' = 1..(Len(buf) + 1)
          BY <2>1, <3>1, <4>1, AppendProperties, LenProperties
        <4>3. \A k \in DOMAIN buf' : buf'[k] # NL
          BY <2>1, <2>5, <3>1, <4>1, <4>2, AppendProperties, LenProperties
        <4>4. QED
          BY <2>5, <4>1, <4>2, <4>3 DEF BufferInv
      <3>5. QED
        BY <2>2, <3>2, <3>3, <3>4 DEF IInv
    <2>6. QED
      BY <2>3, <2>4, <2>5
  <1>3. ASSUME NEW s \in Strings, Printstr(s) PROVE IInv'
    <2> USE <1>3 DEF Printstr
    <2>1. s \in Seq(Char) /\ pc = "run" /\ PrintAsIs(s)
      OBVIOUS
    <2>2. TypeOK'
      BY <2>1, PrintStep, SMTT(30) DEF IInv, TypeOK
    <2>3. InputInv'
      BY <2>1, PrintStep DEF IInv, InputInv
    <2>4. QED
      BY <2>1, <2>2, <2>3, PrintStep DEF IInv
  <1>4. ASSUME NEW len \in Lens, ReadInput(len) PROVE IInv'
    <2> USE <1>4 DEF ReadInput
    <2>1. TypeOK'
      BY DEF IInv, TypeOK
    <2>2. InputInv'
      BY DEF IInv, TypeOK, SendInv, InputInv
    <2>3. HandshakeInv' /\ ExitInv' /\ ShownInv' /\ SendInv' /\ BufferInv'
      BY DEF IInv, TypeOK, HandshakeInv, ExitInv, ShownInv, Unserved, SendInv, UartExact,
         BufferInv
    <2>4. QED
      BY <2>1, <2>2, <2>3 DEF IInv
  <1>5. ASSUME NEW enable \in BOOLEAN, SetStats(enable) PROVE IInv'
    <2> USE <1>5 DEF SetStats
    <2>1. TypeOK'
      BY DEF IInv, TypeOK
    <2>2. InputInv'
      BY DEF IInv, TypeOK, SendInv, InputInv
    <2>3. HandshakeInv' /\ ExitInv' /\ ShownInv' /\ SendInv' /\ BufferInv'
      BY DEF IInv, TypeOK, HandshakeInv, ExitInv, ShownInv, Unserved, SendInv, UartExact,
         BufferInv
    <2>4. QED
      BY <2>1, <2>2, <2>3 DEF IInv
  <1>6. ASSUME NEW code \in Codes, MainReturns(code) PROVE IInv'
    <2> USE <1>6 DEF MainReturns
    <2>1. CASE report = <<>>
      <3>1. UNCHANGED <<pc, arg, flushing, asked, todo, typed, back>>
        BY <2>1
      <3>2. TypeOK'
        BY <3>1 DEF IInv, TypeOK
      <3>3. HandshakeInv' /\ ExitInv' /\ ShownInv' /\ SendInv' /\ BufferInv'
        BY <3>1 DEF IInv, HandshakeInv, ExitInv, ShownInv, Unserved, SendInv, UartExact, BufferInv
      <3>4. EndsWith(asked, <<>>)
        <4>1. asked \in Seq(Char) /\ asked \o <<>> = asked
          BY ConcatEmptySeq DEF IInv, TypeOK
        <4>2. QED
          BY <4>1, EmptySeq, EndsWithLast
      <3>5. InputInv'
        BY <2>1, <3>1, <3>4 DEF IInv, InputInv
      <3>6. QED
        BY <3>2, <3>3, <3>5 DEF IInv
    <2>2. CASE report # <<>>
      <3>1. report \in Seq(Char) /\ PrintAsIs(report) /\ pc = "run"
        BY <2>2 DEF IInv, TypeOK
      <3>2. TypeOK'
        BY <3>1, PrintStep, SMTT(30) DEF IInv, TypeOK
      <3>3. InputInv'
        BY <3>1, PrintStep DEF IInv, InputInv
      <3>4. QED
        BY <3>1, <3>2, <3>3, PrintStep DEF IInv
    <2>3. QED
      BY <2>1, <2>2
  <1>7. ASSUME NEW code \in Codes, Exit(code) PROVE IInv'
    <2> USE <1>7 DEF Exit
    <2>1. TypeOK'
      BY DEF IInv, TypeOK
    <2>2. HandshakeInv'
      BY DEF IInv, TypeOK, HandshakeInv
    <2>3. ExitInv'
      BY DEF IInv, TypeOK, HandshakeInv, ExitInv
    <2>4. ShownInv' /\ SendInv' /\ BufferInv' /\ InputInv'
      BY DEF IInv, TypeOK, HandshakeInv, ShownInv, Unserved, SendInv, UartExact, BufferInv,
         InputInv
    <2>5. QED
      BY <2>1, <2>2, <2>3, <2>4 DEF IInv
  <1>8. ASSUME Send PROVE IInv'
    <2> USE <1>8 DEF Send
    <2>1. /\ todo \in Seq(Char) /\ todo # <<>> /\ thr = <<>> /\ line \in Seq(Char)
          /\ typed = line \o thr \o todo
      BY DEF IInv, TypeOK, SendInv, UartExact
    <2>2. Head(todo) \in Char /\ Tail(todo) \in Seq(Char)
      BY <2>1, HeadTailProperties
    <2>3. TypeOK'
      <3>1. thr' \in Seq(Char) /\ Len(thr') <= 1
        BY <2>2, SingleChar
      <3>2. QED
        BY <2>2, <3>1 DEF IInv, TypeOK
    <2>4. HandshakeInv' /\ ExitInv' /\ ShownInv' /\ BufferInv'
      BY DEF IInv, TypeOK, HandshakeInv, ExitInv, ShownInv, Unserved, BufferInv
    <2>5. SendInv'
      <3>1. todo = <<Head(todo)>> \o Tail(todo)
        BY <2>1, HeadThenTail
      <3>2. line \o thr = line
        BY <2>1, ConcatEmptySeq
      <3>3. line \o (<<Head(todo)>> \o Tail(todo)) = line \o <<Head(todo)>> \o Tail(todo)
        <4> DEFINE first == <<Head(todo)>>
                   rest == Tail(todo)
        <4>1. first \in Seq(Char) /\ rest \in Seq(Char) /\ line \in Seq(Char)
          BY <2>1, <2>2, SingleChar
        <4> HIDE DEF first, rest
        <4>2. line \o (first \o rest) = line \o first \o rest
          BY ONLY <4>1, ConcatChars
        <4>3. QED
          BY <4>2 DEF first, rest
      <3>4. typed' = line' \o thr' \o todo'
        BY <2>1, <3>1, <3>2, <3>3
      <3>5. QED
        BY <3>4 DEF IInv, TypeOK, SendInv, UartExact
    <2>6. InputInv'
      BY DEF IInv, TypeOK, SendInv, InputInv
    <2>7. QED
      BY <2>3, <2>4, <2>5, <2>6 DEF IInv
  <1>9. ASSUME FillMagic PROVE IInv'
    <2> USE <1>9 DEF FillMagic
    <2>1. TypeOK'
      BY DEF IInv, TypeOK
    <2>2. HandshakeInv'
      BY DEF IInv, TypeOK, HandshakeInv
    <2>3. ExitInv' /\ ShownInv' /\ SendInv' /\ BufferInv' /\ InputInv'
      BY DEF IInv, TypeOK, HandshakeInv, ExitInv, ShownInv, Unserved, SendInv, UartExact,
         BufferInv, InputInv
    <2>4. QED
      BY <2>1, <2>2, <2>3 DEF IInv
  <1>10. ASSUME Post PROVE IInv'
    <2> USE <1>10 DEF Post
    <2>1. TypeOK'
      BY DEF IInv, TypeOK, Request
    <2>2. HandshakeInv'
      BY DEF IInv, TypeOK, HandshakeInv, Request
    <2>3. ShownInv'
      <3>1. Request # 0
        BY DEF Request
      <3>2. QED
        BY <3>1 DEF IInv, ShownInv, Unserved
    <2>4. ExitInv' /\ SendInv' /\ BufferInv' /\ InputInv'
      BY DEF IInv, TypeOK, HandshakeInv, ExitInv, SendInv, UartExact, BufferInv, InputInv
    <2>5. QED
      BY <2>1, <2>2, <2>3, <2>4 DEF IInv
  <1>11. ASSUME Return PROVE IInv'
    <2> USE <1>11 DEF Return
    <2>1. TypeOK'
      BY EmptySeq DEF IInv, TypeOK
    <2>2. HandshakeInv'
      BY DEF IInv, TypeOK, HandshakeInv
    <2>3. ShownInv'
      BY DEF IInv, TypeOK, HandshakeInv, ShownInv, Unserved
    <2>4. BufferInv'
      BY EmptySeq DEF IInv, TypeOK, BufferInv
    <2>5. ExitInv' /\ SendInv' /\ InputInv'
      BY DEF IInv, TypeOK, HandshakeInv, ExitInv, SendInv, UartExact, InputInv
    <2>6. QED
      BY <2>1, <2>2, <2>3, <2>4, <2>5 DEF IInv
  <1>12. ASSUME ReadChar PROVE IInv'
    <2> USE <1>12 DEF ReadChar
    <2> DEFINE c == Head(rx)
               over == c = CR \/ Len(rbuf) + 1 = want
               echo == Bytes(IF c = CR THEN NL ELSE c)
               then == IF over THEN "run" ELSE "read"
    <2>1. c \in Char /\ Tail(rx) \in Seq(Char) /\ Len(Tail(rx)) <= RxSize
      <3>1. rx \in Seq(Char) /\ rx # <<>> /\ Len(rx) <= RxSize
        BY DEF IInv, TypeOK
      <3>2. Tail(rx) \in Seq(Char) /\ Head(rx) \in Char /\ Len(Tail(rx)) = Len(rx) - 1
        BY <3>1, HeadTailProperties
      <3>3. Len(rx) \in Nat
        BY <3>1, LenProperties
      <3>4. QED
        BY <3>1, <3>2, <3>3
    <2>2. echo \in Seq(Char)
      BY <2>1, BytesAreChars
    <2>3. ToUart(echo, then) /\ then \in {"run", "read"}
      OBVIOUS
    <2> HIDE DEF echo, then
    <2>4. leaving = None /\ want \in Lens
      BY DEF IInv, InputInv
    <2>5. TypeOK'
      <3>1. rbuf' \in Seq(Char \cup {NUL})
        BY <2>1, AppendProperties DEF IInv, TypeOK
      <3>2. lines' \in Seq([text : Seq(Char \cup {NUL}), len : Lens])
        BY <2>4, <3>1, AppendProperties DEF IInv, TypeOK
      <3>3. QED
        <4>1. /\ rx' = Tail(rx) /\ UNCHANGED <<uart16550, buf, htif, terminal, device,
                                               want, received, keyed, overrun, leave>>
          OBVIOUS
        <4>2. /\ pc' \in {"send", then} /\ todo' \in Seq(Char) /\ typed' \in Seq(Char)
              /\ back' = then /\ UNCHANGED <<call, asked>>
          <5>1. /\ pc' \in {"send", then} /\ todo' = echo /\ typed' = typed \o echo
                /\ back' = then /\ UNCHANGED <<call, asked>>
            BY ONLY <2>3 DEF ToUart, call
          <5>2. typed \in Seq(Char)
            BY ONLY IInv DEF IInv, TypeOK
          <5>3. typed \o echo \in Seq(Char)
            BY ONLY <2>2, <5>2, ConcatProperties
          <5>4. QED
            BY ONLY <2>2, <5>1, <5>3
        <4>3. QED
          BY ONLY IInv, <2>1, <2>3, <3>1, <3>2, <4>1, <4>2 DEF IInv, TypeOK
    <2>6. InputInv'
      BY <2>4 DEF InputInv
    <2>7. QED
      BY <2>2, <2>3, <2>5, <2>6, ToUartStep DEF IInv
  <1>13. ASSUME StoresVisible PROVE IInv'
    <2> USE <1>13 DEF StoresVisible
    <2>1. TypeOK'
      BY DEF IInv, TypeOK
    <2>2. HandshakeInv'
      BY DEF IInv, TypeOK, HandshakeInv
    <2>3. ExitInv' /\ ShownInv' /\ SendInv' /\ BufferInv' /\ InputInv'
      BY DEF IInv, TypeOK, HandshakeInv, ExitInv, ShownInv, Unserved, SendInv, UartExact,
         BufferInv, InputInv
    <2>4. QED
      BY <2>1, <2>2, <2>3 DEF IInv
  <1>14. ASSUME Take PROVE IInv'
    <2> USE <1>14 DEF Take
    <2>1. Request % 2 = 0 /\ Request # 0
      BY DEF Request
    <2>2. \A code \in Codes : (code * 2 + 1) % 2 = 1 /\ (code * 2 + 1) \div 2 = code
      OBVIOUS
    <2>3. CASE pc = "wait"
      <3>1. tohost = Request /\ ~IsExit(tohost) /\ fromhost = 0
        BY <2>1, <2>3 DEF IInv, HandshakeInv, IsExit
      <3>2. host' = "serve" /\ exitcode' = exitcode
        BY <3>1
      <3>3. TypeOK'
        BY <3>2 DEF IInv, TypeOK
      <3>4. HandshakeInv' /\ ExitInv'
        BY <2>3, <3>1, <3>2 DEF IInv, HandshakeInv, ExitInv
      <3>5. ShownInv' /\ SendInv' /\ BufferInv' /\ InputInv'
        BY <2>1, <2>3, <3>1, <3>2
        DEF IInv, ShownInv, Unserved, SendInv, UartExact, BufferInv, InputInv
      <3>6. QED
        BY <3>3, <3>4, <3>5 DEF IInv
    <2>4. CASE pc = "exit"
      <3>1. PICK code \in Codes : tohost = code * 2 + 1 /\ leaving \in {None, code}
        BY <2>4 DEF IInv, ExitInv
      <3>2. host' = "over" /\ exitcode' = code
        BY <2>2, <3>1 DEF IsExit
      <3>3. TypeOK'
        BY <3>2 DEF IInv, TypeOK
      <3>4. HandshakeInv' /\ ExitInv'
        BY <2>4, <3>1, <3>2 DEF IInv, HandshakeInv, ExitInv
      <3>5. ShownInv' /\ SendInv' /\ BufferInv' /\ InputInv'
        BY <2>4 DEF IInv, ShownInv, Unserved, SendInv, UartExact, BufferInv, InputInv
      <3>6. QED
        BY <3>3, <3>4, <3>5 DEF IInv
    <2>5. QED
      BY <2>3, <2>4 DEF IInv, HandshakeInv
  <1>15. ASSUME Serve PROVE IInv'
    <2> USE <1>15 DEF Serve
    <2>1. pc = "wait" /\ memory = arg /\ tohost = 0 /\ asked = shown \o arg
      BY DEF IInv, HandshakeInv, ExitInv, ShownInv, Unserved
    <2>2. TypeOK'
      BY ConcatProperties DEF IInv, TypeOK
    <2>3. HandshakeInv' /\ ExitInv'
      BY <2>1 DEF IInv, HandshakeInv, ExitInv
    <2>4. ShownInv'
      BY <2>1 DEF ShownInv, Unserved
    <2>5. SendInv' /\ BufferInv' /\ InputInv'
      BY DEF IInv, SendInv, UartExact, BufferInv, InputInv
    <2>6. QED
      BY <2>2, <2>3, <2>4, <2>5 DEF IInv
  <1>16. ASSUME Reply PROVE IInv'
    <2> USE <1>16 DEF Reply
    <2>1. TypeOK'
      BY DEF IInv, TypeOK
    <2>2. HandshakeInv'
      BY DEF IInv, TypeOK, HandshakeInv
    <2>3. ShownInv'
      BY DEF IInv, TypeOK, HandshakeInv, ShownInv, Unserved
    <2>4. ExitInv' /\ SendInv' /\ BufferInv' /\ InputInv'
      BY DEF IInv, TypeOK, HandshakeInv, ExitInv, SendInv, UartExact, BufferInv, InputInv
    <2>5. QED
      BY <2>1, <2>2, <2>3, <2>4 DEF IInv
  <1>17. ASSUME Transmit PROVE IInv'
    <2> USE <1>17 DEF Transmit
    <2>1. TypeOK'
      BY ConcatProperties, EmptySeq DEF IInv, TypeOK
    <2>2. SendInv'
      <3>1. line \o thr \in Seq(Char) /\ typed = line \o thr \o todo
        BY ConcatProperties DEF IInv, TypeOK, SendInv, UartExact
      <3>2. typed' = line' \o thr' \o todo'
        BY <3>1, ConcatEmptySeq
      <3>3. QED
        BY <3>2 DEF IInv, SendInv, UartExact
    <2>3. HandshakeInv' /\ ExitInv' /\ ShownInv' /\ BufferInv' /\ InputInv'
      BY DEF IInv, TypeOK, HandshakeInv, ExitInv, ShownInv, Unserved, BufferInv, SendInv,
         InputInv
    <2>4. QED
      BY <2>1, <2>2, <2>3 DEF IInv
  <1>18. ASSUME NEW c \in Keys, Receive(c) PROVE IInv'
    <2> USE <1>18 DEF Receive
    <2>1. TypeOK'
      <3>1. /\ c \in Char /\ rx \in Seq(Char) /\ received \in Seq(Char)
            /\ keyed \in Seq(Char) /\ Len(rx) <= RxSize /\ Len(rx) \in Nat
        BY LenProperties DEF IInv, TypeOK
      <3>2. /\ Append(rx, c) \in Seq(Char) /\ Len(Append(rx, c)) = Len(rx) + 1
            /\ Append(received, c) \in Seq(Char) /\ Append(keyed, c) \in Seq(Char)
        BY <3>1, AppendProperties
      <3>3. /\ rx' \in Seq(Char) /\ Len(rx') <= RxSize /\ received' \in Seq(Char)
            /\ keyed' \in Seq(Char) /\ overrun' \in {overrun, TRUE}
        <4>1. CASE Len(rx) < RxSize
          <5>1. Len(rx) + 1 <= RxSize
            BY <3>1, <4>1
          <5>2. QED
            BY <3>2, <4>1, <5>1
        <4>2. CASE ~(Len(rx) < RxSize)
          BY <3>1, <3>2, <4>2
        <4>3. QED
          BY <4>1, <4>2
      <3>4. overrun' \in BOOLEAN
        BY <3>3 DEF IInv, TypeOK
      <3>5. QED
        BY <3>3, <3>4 DEF IInv, TypeOK
    <2>2. HandshakeInv' /\ ExitInv' /\ ShownInv' /\ SendInv' /\ BufferInv' /\ InputInv'
      BY DEF IInv, TypeOK, HandshakeInv, ExitInv, ShownInv, Unserved, SendInv, UartExact,
         BufferInv, InputInv
    <2>3. QED
      BY <2>1, <2>2 DEF IInv
  <1>19. CASE UNCHANGED vars
    <2> USE <1>19 DEF vars
    <2>1. TypeOK'
      BY DEF IInv, TypeOK
    <2>2. HandshakeInv' /\ ExitInv' /\ ShownInv' /\ SendInv' /\ BufferInv' /\ InputInv'
      BY DEF IInv, HandshakeInv, ExitInv, ShownInv, Unserved, SendInv, UartExact, BufferInv,
         InputInv
    <2>3. QED
      BY <2>1, <2>2 DEF IInv
  <1>20. CASE Leave
    <2>1. leaving \in Codes /\ Exit(leaving)
      BY <1>20 DEF Leave, IInv, TypeOK
    <2>2. QED
      BY <2>1, <1>7
  <1>21. QED
    BY <1>1, <1>2, <1>3, <1>4, <1>5, <1>6, <1>7, <1>8, <1>9, <1>10, <1>11, <1>12, <1>13,
       <1>14, <1>15, <1>16, <1>17, <1>18, <1>19, <1>20
    DEF Next, Call, Hart, Host

\* The console's state stays of its type, and its parts consistent with each other.
THEOREM InvariantHolds == Spec => []IInv
  <1>1. QED
    BY InitIInv, NextIInv, PTL DEF Spec

\* The host writes exactly what it is asked to write (syscall and its fence).
THEOREM HostWritesExactly == Spec => []HostExact
  <1>1. IInv => HostExact
    <2> SUFFICES ASSUME IInv PROVE HostExact
      OBVIOUS
    <2>1. pc = "run" => shown = asked
      BY DEF IInv, ShownInv, Unserved
    <2>2. \E k \in 0..Len(asked) : shown = SubSeq(asked, 1, k)
      <3>1. shown \in Seq(Char) /\ arg \in Seq(Char) /\ <<>> \in Seq(Char)
        BY EmptySeq DEF IInv, TypeOK
      <3>2. CASE Unserved
        BY <3>1, <3>2, BeginsWithFirst DEF IInv, ShownInv
      <3>3. CASE ~Unserved
        <4>1. asked = shown \o <<>>
          BY <3>1, <3>3, ConcatEmptySeq DEF IInv, ShownInv
        <4>2. QED
          BY <3>1, <4>1, BeginsWithFirst
      <3>4. QED
        BY <3>2, <3>3
    <2>3. QED
      BY <2>1, <2>2 DEF HostExact
  <1>2. QED
    BY <1>1, InvariantHolds, PTL

\* The UART sends every character, in order (uart16550_putchar's wait).
THEOREM UartSendsExactly == Spec => []UartExact
  <1>1. IInv => UartExact
    BY DEF IInv, SendInv
  <1>2. QED
    BY <1>1, InvariantHolds, PTL

\* htif_putchar never runs over the end of its buffer.
THEOREM BufferNeverFull == Spec => []BufferHasRoom
  <1>1. IInv => BufferHasRoom
    BY DEF IInv, BufferInv, BufferHasRoom
  <1>2. QED
    BY <1>1, InvariantHolds, PTL

\* What was asked of the host is not lost at exit: output, report and exit code.
THEOREM ExitAfterAllWritten == Spec => []ExitComplete
  <1>1. IInv => ExitComplete
    <2> SUFFICES ASSUME IInv, host = "over" PROVE
                   /\ exitcode \in Codes /\ shown = asked
                   /\ leaving # None =>
                        /\ exitcode = leaving
                        /\ EndsWith(shown, report) \/ EndsWith(line \o thr, report)
      BY DEF ExitComplete
    <2>1. pc = "exit"
      BY DEF IInv, HandshakeInv
    <2>2. /\ exitcode \in Codes
          /\ leaving # None => exitcode = leaving
      BY <2>1, ConsoleAssumption DEF IInv, ExitInv
    <2>3. shown = asked
      BY <2>1 DEF IInv, ShownInv, Unserved
    <2>4. typed = line \o thr
      <3>1. line \o thr \in Seq(Char) /\ typed = line \o thr \o <<>>
        BY <2>1, ConcatProperties DEF IInv, TypeOK, SendInv, UartExact
      <3>2. QED
        BY <3>1, ConcatEmptySeq
    <2>5. QED
      BY <2>2, <2>3, <2>4 DEF IInv, InputInv
  <1>2. QED
    BY <1>1, InvariantHolds, PTL

--------------------------------------------------------------------------------
(* The buffers of read_input, put together again.                              *)

\* The least number of a set: the prover's form of induction.
LEMMA Least ==
  ASSUME NEW T \in SUBSET Nat, T # {}
  PROVE  \E m \in T : \A k \in T : m <= k
  <1> DEFINE Less == {q \in Nat \X Nat : q[1] < q[2]}
  <1>1. IsWellFoundedOn(Less, Nat)
    BY NatLessThanWellFounded DEF OpToRel
  <1>2. \A x, y \in Nat : <<y, x>> \in Less <=> y < x
    <2> TAKE x, y \in Nat
    <2>1. <<y, x>> \in Nat \X Nat /\ <<y, x>>[1] = y /\ <<y, x>>[2] = x
      OBVIOUS
    <2>2. QED
      BY <2>1, Zenon
  <1> HIDE DEF Less
  <1>3. \E x \in T : \A y \in T : <<y, x>> \notin Less
    BY <1>1, WFMin
  <1>4. \A x, y \in Nat : ~(y < x) => x <= y
    OBVIOUS
  <1>5. QED
    BY <1>2, <1>3, <1>4, Zenon

\* f holds what the first n of the sequences in s make when put together.
Joins(s, n, f) == f = [i \in 1..n |-> IF i = 1 THEN s[i] ELSE f[i - 1] \o s[i]]

\* There is such a function, for any number of them.
LEMMA JoinsExist ==
  ASSUME NEW s, NEW n \in Nat
  PROVE  \E f : Joins(s, n, f)
  <1> DEFINE T == {m \in Nat : ~\E f : Joins(s, m, f)}
  <1>1. SUFFICES ASSUME T # {} PROVE FALSE
    BY DEF T
  <1>2. PICK m \in T : \A k \in T : m <= k
    <2>1. T \in SUBSET Nat
      OBVIOUS
    <2> HIDE DEF T
    <2>2. QED
      BY <1>1, <2>1, Least
  <1>3. CASE m = 0
    <2> DEFINE f == [i \in 1..0 |-> s]
    <2>1. f = [i \in 1..0 |-> IF i = 1 THEN s[i] ELSE f[i - 1] \o s[i]]
      OBVIOUS
    <2>2. Joins(s, 0, f)
      BY <2>1 DEF Joins
    <2>3. QED
      BY <1>2, <1>3, <2>2
  <1>4. CASE m # 0
    <2>1. m - 1 \in Nat /\ ~(m <= m - 1)
      BY <1>4
    <2>2. PICK g : Joins(s, m - 1, g)
      BY <1>2, <2>1
    <2> DEFINE f == [i \in 1..m |-> IF i = m THEN IF m = 1 THEN s[1] ELSE g[m - 1] \o s[m]
                                    ELSE g[i]]
    <2>3. \A i \in 1..(m - 1) : g[i] = IF i = 1 THEN s[i] ELSE g[i - 1] \o s[i]
      BY <2>2 DEF Joins
    <2>4. ASSUME NEW i \in 1..m
          PROVE  f[i] = IF i = 1 THEN s[i] ELSE f[i - 1] \o s[i]
      <3>1. i # 1 => i - 1 \in 1..m /\ i - 1 # m
        OBVIOUS
      <3>2. i # 1 => f[i - 1] = g[i - 1]
        BY <3>1
      <3>3. CASE i = m
        <4>1. f[i] = IF m = 1 THEN s[1] ELSE g[m - 1] \o s[m]
          BY <3>3
        <4> HIDE DEF f
        <4>2. QED
          BY <3>2, <3>3, <4>1
      <3>4. CASE i # m
        <4>1. f[i] = g[i] /\ i \in 1..(m - 1)
          BY <3>4
        <4> HIDE DEF f
        <4>2. QED
          BY <2>3, <3>2, <4>1
      <3>5. QED
        BY <3>3, <3>4
    <2>5. f = [i \in 1..m |-> f[i]]
      OBVIOUS
    <2> HIDE DEF f
    <2>6. f = [i \in 1..m |-> IF i = 1 THEN s[i] ELSE f[i - 1] \o s[i]]
      BY <2>4, <2>5
    <2>7. Joins(s, m, f)
      BY <2>6 DEF Joins
    <2>8. QED
      BY <1>2, <2>7
  <1>5. QED
    BY <1>3, <1>4

\* What it holds depends on nothing but the sequences so far.
LEMMA JoinsAgree ==
  ASSUME NEW s, NEW t, NEW n \in Nat, NEW m \in Nat, NEW f, NEW g, n <= m,
         Joins(s, n, f), Joins(t, m, g), \A i \in 1..n : t[i] = s[i]
  PROVE  \A i \in 1..n : f[i] = g[i]
  <1> DEFINE T == {i \in 1..n : f[i] # g[i]}
  <1>1. SUFFICES ASSUME T # {} PROVE FALSE
    BY DEF T
  <1>2. PICK i \in T : \A k \in T : i <= k
    <2>1. T \in SUBSET Nat
      OBVIOUS
    <2> HIDE DEF T
    <2>2. QED
      BY <1>1, <2>1, Least
  <1>3. i \in 1..n /\ i \in 1..m /\ f[i] # g[i]
    BY <1>2
  <1>4. f[i] = IF i = 1 THEN s[i] ELSE f[i - 1] \o s[i]
    BY <1>3 DEF Joins
  <1>5. g[i] = IF i = 1 THEN t[i] ELSE g[i - 1] \o t[i]
    BY <1>3 DEF Joins
  <1>6. i # 1 => i - 1 \in 1..n /\ ~(i <= i - 1)
    BY <1>3
  <1>7. i # 1 => f[i - 1] = g[i - 1]
    BY <1>2, <1>6
  <1>8. t[i] = s[i]
    BY <1>3
  <1>9. QED
    BY <1>3, <1>4, <1>5, <1>7, <1>8

\* FlattenSeq puts them together.
LEMMA FlattenJoins ==
  ASSUME NEW X, NEW s \in Seq(Seq(X))
  PROVE  \E f : /\ Joins(s, Len(s), f)
                /\ \A i \in 1..Len(s) : f[i] \in Seq(X)
                /\ FlattenSeq(s) = IF Len(s) = 0 THEN <<>> ELSE f[Len(s)]
  <1> DEFINE n == Len(s)
             f == CHOOSE g : Joins(s, n, g)
  <1>1. n \in Nat /\ (n = 0 => s = <<>>) /\ \A i \in 1..n : s[i] \in Seq(X)
    BY EmptySeq, LenProperties, ElementOfSeq
  <1>2. Joins(s, n, f)
    BY <1>1, JoinsExist
  <1>3. FlattenSeq(s) = IF n = 0 THEN s ELSE f[n]
    BY DEF FlattenSeq, Joins
  <1> HIDE DEF f, n
  <1>4. \A i \in 1..n : f[i] \in Seq(X)
    <2> DEFINE T == {i \in 1..n : f[i] \notin Seq(X)}
    <2>1. SUFFICES ASSUME T # {} PROVE FALSE
      BY DEF T
    <2>2. PICK i \in T : \A k \in T : i <= k
      <3>1. T \in SUBSET Nat
        BY <1>1
      <3> HIDE DEF T
      <3>2. QED
        BY <2>1, <3>1, Least
    <2>3. f[i] = IF i = 1 THEN s[i] ELSE f[i - 1] \o s[i]
      BY <1>2, <2>2 DEF Joins
    <2>4. i # 1 => i - 1 \in 1..n /\ ~(i <= i - 1)
      BY <1>1, <2>2
    <2>5. i # 1 => f[i - 1] \in Seq(X)
      BY <2>2, <2>4
    <2>6. s[i] \in Seq(X)
      BY <1>1, <2>2
    <2>7. f[i] \in Seq(X)
      BY <2>3, <2>5, <2>6, ConcatProperties
    <2>8. QED
      BY <2>2, <2>7
  <1>5. QED
    BY <1>1, <1>2, <1>3, <1>4 DEF n

\* One sequence more goes to the end.
LEMMA FlattenAppend ==
  ASSUME NEW X
  PROVE  \A s, t : s \in Seq(Seq(X)) /\ t \in Seq(X) =>
           /\ FlattenSeq(s) \in Seq(X)
           /\ FlattenSeq(Append(s, t)) = FlattenSeq(s) \o t
  <1>0. SUFFICES ASSUME NEW s, NEW t, s \in Seq(Seq(X)), t \in Seq(X)
        PROVE  /\ FlattenSeq(s) \in Seq(X)
               /\ FlattenSeq(Append(s, t)) = FlattenSeq(s) \o t
    OBVIOUS
  <1> DEFINE n == Len(s)
             u == Append(s, t)
             m == Len(u)
  <1>1. /\ u \in Seq(Seq(X)) /\ m = n + 1 /\ n \in Nat /\ m \in Nat
        /\ u[m] = t /\ \A i \in 1..n : u[i] = s[i]
    BY <1>0, AppendProperties, LenProperties
  <1>2. PICK f : /\ Joins(s, n, f)
                 /\ \A i \in 1..n : f[i] \in Seq(X)
                 /\ FlattenSeq(s) = IF n = 0 THEN <<>> ELSE f[n]
    BY <1>0, FlattenJoins
  <1> HIDE DEF u
  <1>3. PICK g : /\ Joins(u, m, g)
                 /\ FlattenSeq(u) = IF m = 0 THEN <<>> ELSE g[m]
    BY <1>1, FlattenJoins
  <1> HIDE DEF n, m
  <1>4. FlattenSeq(s) \in Seq(X)
    BY <1>1, <1>2, EmptySeq
  <1>5. FlattenSeq(u) = g[m]
    BY <1>1, <1>3
  <1>6. CASE n = 0
    <2>1. 1 \in 1..m /\ m = 1
      BY <1>1, <1>6
    <2>2. g[1] = u[1]
      BY <1>3, <2>1 DEF Joins
    <2>3. g[m] = t /\ FlattenSeq(s) = <<>>
      BY <1>1, <1>2, <1>6, <2>1, <2>2
    <2>4. <<>> \o t = t
      BY <1>0, ConcatEmptySeq
    <2>5. QED
      BY <1>4, <1>5, <2>3, <2>4 DEF u
  <1>7. CASE n # 0
    <2>1. \A i \in 1..n : f[i] = g[i]
      <3>1. Joins(s, n, f) /\ Joins(u, m, g)
        BY <1>2, <1>3
      <3>2. \A i \in 1..n : u[i] = s[i]
        BY <1>1
      <3>3. n \in Nat /\ m \in Nat /\ n <= m
        BY <1>1
      <3>4. QED
        BY <3>1, <3>2, <3>3, JoinsAgree
    <2>2. n \in 1..n /\ m \in 1..m /\ m # 1 /\ m - 1 = n
      BY <1>1, <1>7
    <2>3. g[m] = g[m - 1] \o u[m]
      BY <1>3, <2>2 DEF Joins
    <2>4. f[n] = g[n]
      BY <2>1, <2>2
    <2>5. g[m] = f[n] \o t
      BY <1>1, <2>2, <2>3, <2>4
    <2>6. QED
      BY <1>2, <1>4, <1>5, <1>7, <2>5 DEF u
  <1>8. QED
    BY <1>6, <1>7

--------------------------------------------------------------------------------
(* InputExact: what is typed is in the buffers of read_input or still unread.  *)

\* A sequence with one element more after another is the other with it more.
LEMMA ConcatAppend ==
  ASSUME NEW X, NEW s \in Seq(X), NEW t \in Seq(X), NEW x \in X
  PROVE  s \o Append(t, x) = Append(s \o t, x)
  <1>1. <<x>> \in Seq(X)
    OBVIOUS
  <1>2. Append(t, x) = t \o <<x>> /\ s \o t \in Seq(X)
    BY AppendIsConcat, ConcatProperties
  <1>3. Append(s \o t, x) = s \o t \o <<x>>
    BY <1>2, AppendIsConcat
  <1>4. s \o (t \o <<x>>) = s \o t \o <<x>>
    BY <1>1, ConcatAssociative
  <1>5. QED
    BY <1>2, <1>3, <1>4

\* What read_input stores for a character is read back as the character.
LEMMA StoredAsTyped ==
  ASSUME NEW T \in Seq(Char \cup {NUL}), \A k \in DOMAIN T : T[k] # CR,
         NEW c \in Char, NEW x, x = IF c = CR THEN NUL ELSE c
  PROVE  /\ AsTyped(T) \in Seq(Char)
         /\ AsTyped(Append(T, x)) = Append(AsTyped(T), c)
         /\ \A k \in DOMAIN Append(T, x) : Append(T, x)[k] # CR
  <1> DEFINE n == Len(T)
             A == AsTyped(T)
             U == Append(T, x)
  <1>1. CR \in Char /\ NUL \notin Char
    BY ConsoleAssumption
  <1>2. x \in Char \cup {NUL} /\ x # CR /\ (IF x = NUL THEN CR ELSE x) = c
    BY <1>1
  <1>3. n \in Nat /\ DOMAIN T = 1..n /\ \A k \in 1..n : T[k] \in Char \cup {NUL}
    BY LenProperties, ElementOfSeq
  <1>4. /\ DOMAIN U = 1..(n + 1) /\ U[n + 1] = x
        /\ \A k \in 1..n : U[k] = T[k]
    BY <1>2, <1>3, AppendProperties, LenProperties
  <1> HIDE DEF n, U
  <1>5. A = [k \in 1..n |-> IF T[k] = NUL THEN CR ELSE T[k]]
    BY <1>3 DEF AsTyped
  <1>6. A \in Seq(Char) /\ Len(A) = n
    <2>1. \A k \in 1..n : (IF T[k] = NUL THEN CR ELSE T[k]) \in Char
      BY <1>1, <1>3
    <2>2. A \in [1..n -> Char]
      BY <1>5, <2>1
    <2> HIDE DEF A
    <2>3. QED
      BY <1>3, <2>2
  <1>7. AsTyped(U) = [k \in 1..(n + 1) |-> IF U[k] = NUL THEN CR ELSE U[k]]
    BY <1>4 DEF AsTyped
  <1>8. /\ Append(A, c) = [k \in 1..(n + 1) |-> Append(A, c)[k]]
        /\ Append(A, c)[n + 1] = c
        /\ \A k \in 1..n : Append(A, c)[k] = A[k]
    <2> HIDE DEF A
    <2>1. Append(A, c) \in Seq(Char) /\ Len(Append(A, c)) = n + 1
      BY <1>6, AppendProperties
    <2>2. Append(A, c)[n + 1] = c /\ \A k \in 1..n : Append(A, c)[k] = A[k]
      BY <1>6, AppendProperties
    <2>3. Append(A, c) = [k \in 1..(n + 1) |-> Append(A, c)[k]]
      BY <2>1, LenProperties
    <2>4. QED
      BY <2>2, <2>3
  <1>9. ASSUME NEW k \in 1..(n + 1)
        PROVE  (IF U[k] = NUL THEN CR ELSE U[k]) = Append(A, c)[k]
    <2>1. CASE k = n + 1
      BY <1>2, <1>4, <1>8, <2>1
    <2>2. CASE k # n + 1
      <3>1. k \in 1..n
        BY <1>3, <2>2
      <3>2. A[k] = IF T[k] = NUL THEN CR ELSE T[k]
        BY <1>5, <3>1
      <3> HIDE DEF A
      <3>3. QED
        BY <1>4, <1>8, <3>1, <3>2
    <2>3. QED
      BY <2>1, <2>2
  <1>10. AsTyped(U) = Append(A, c)
    BY <1>7, <1>8, <1>9
  <1>11. ASSUME NEW k \in DOMAIN U PROVE U[k] # CR
    <2>1. CASE k = n + 1
      BY <1>2, <1>4, <2>1
    <2>2. CASE k # n + 1
      <3>1. k \in 1..n
        BY <1>3, <1>4, <2>2
      <3>2. QED
        BY <1>3, <1>4, <3>1
    <2>3. QED
      BY <2>1, <2>2
  <1>12. QED
    BY <1>6, <1>10, <1>11 DEF U

\* The texts returned so far, put together, are a text.
LEMMA TextsAreTexts ==
  ASSUME TypeOK
  PROVE  Texts \in Seq(Seq(Char \cup {NUL})) /\ FlattenSeq(Texts) \in Seq(Char \cup {NUL})
  <1> DEFINE n == Len(lines)
             X == Char \cup {NUL}
  <1>1. lines \in Seq([text : Seq(X), len : Lens])
    BY DEF TypeOK
  <1>2. n \in Nat /\ DOMAIN lines = 1..n /\ \A k \in 1..n : lines[k].text \in Seq(X)
    <2>1. n \in Nat /\ DOMAIN lines = 1..n
      BY <1>1, LenProperties
    <2>2. \A k \in 1..n : lines[k] \in [text : Seq(X), len : Lens]
      BY <1>1, ElementOfSeq
    <2> HIDE DEF n
    <2>3. QED
      BY <2>1, <2>2
  <1> HIDE DEF n, X
  <1>3. Texts = [k \in 1..n |-> lines[k].text]
    BY <1>2 DEF Texts
  <1>4. Texts \in [1..n -> Seq(X)]
    BY <1>2, <1>3
  <1>5. Texts \in Seq(Seq(X))
    BY <1>2, <1>4
  <1>6. <<>> \in Seq(X) /\ FlattenSeq(Texts) \in Seq(X)
    BY <1>5, EmptySeq, FlattenAppend
  <1>7. QED
    BY <1>5, <1>6 DEF X

\* One more text is returned: it comes after the others.
LEMMA TextsAppend ==
  ASSUME TypeOK, NEW t \in Seq(Char \cup {NUL}), NEW w \in Lens,
         lines' = Append(lines, [text |-> t, len |-> w])
  PROVE  Texts' = Append(Texts, t)
  <1> DEFINE n == Len(lines)
             X == Char \cup {NUL}
             r == [text |-> t, len |-> w]
  <1>1. lines \in Seq([text : Seq(X), len : Lens]) /\ r \in [text : Seq(X), len : Lens]
    BY DEF TypeOK
  <1>2. /\ n \in Nat /\ DOMAIN lines = 1..n /\ DOMAIN lines' = 1..(n + 1)
        /\ lines'[n + 1] = r /\ \A k \in 1..n : lines'[k] = lines[k]
    BY <1>1, AppendProperties, LenProperties
  <1>3. r.text = t
    OBVIOUS
  <1> HIDE DEF n, r
  <1>4. Texts = [k \in 1..n |-> lines[k].text]
    BY <1>2 DEF Texts
  <1>5. Texts' = [k \in 1..(n + 1) |-> lines'[k].text]
    BY <1>2 DEF Texts
  <1>6. Texts \in Seq(Seq(X))
    BY TextsAreTexts
  <1>7. Len(Texts) = n
    BY <1>2, <1>4, <1>6, LenProperties
  <1> DEFINE B == Append(Texts, t)
  <1>8. /\ B = [k \in 1..(n + 1) |-> B[k]] /\ B[n + 1] = t
        /\ \A k \in 1..n : B[k] = Texts[k]
    <2>1. B \in Seq(Seq(X)) /\ Len(B) = n + 1
      BY <1>6, <1>7, AppendProperties
    <2>2. B[n + 1] = t /\ \A k \in 1..n : B[k] = Texts[k]
      BY <1>6, <1>7, AppendProperties
    <2> HIDE DEF B
    <2>3. B = [k \in 1..(n + 1) |-> B[k]]
      BY <2>1, LenProperties
    <2>4. QED
      BY <2>2, <2>3
  <1> HIDE DEF B
  <1>9. ASSUME NEW k \in 1..(n + 1) PROVE lines'[k].text = B[k]
    <2>1. CASE k = n + 1
      BY <1>2, <1>3, <1>8, <2>1
    <2>2. CASE k # n + 1
      <3>1. k \in 1..n
        BY <1>2, <2>2
      <3>2. QED
        BY <1>2, <1>4, <1>8, <3>1
    <2>3. QED
      BY <2>1, <2>2
  <1>10. Texts' = B
    BY <1>5, <1>8, <1>9
  <1>11. QED
    BY <1>10 DEF B

\* Outside read_input, or with its buffer left alone, what has been taken stays
\* as it is.
LEMMA InputStays ==
  ASSUME InputExact, lines' = lines, received' = received, rx' = rx,
         keyed' = keyed, overrun' = overrun,
         Reading' = Reading, Reading => rbuf' = rbuf /\ want' = want
  PROVE  InputExact'
  <1>1. Texts' = Texts
    BY DEF Texts
  <1>2. Taken' = Taken
    BY <1>1 DEF Taken
  <1>3. AsTyped(Taken)' = AsTyped(Taken)
    BY <1>2 DEF AsTyped
  <1>4. received' = AsTyped(Taken)' \o rx'
    BY <1>3 DEF InputExact
  <1>5. \A k \in DOMAIN Taken' : Taken'[k] # CR
    BY <1>2 DEF InputExact
  <1>6. (Reading => Len(rbuf) < want /\ \A j \in DOMAIN rbuf : rbuf[j] # NUL)'
    BY DEF InputExact
  <1>7. QED
    BY <1>4, <1>5, <1>6 DEF InputExact

\* A character typed goes to the end of what is still to be read, or is lost.
LEMMA InputReceived ==
  ASSUME IInv, InputExact, NEW c \in Char, Receive(c)
  PROVE  InputExact'
  <1>1. Texts' = Texts /\ Reading' = Reading /\ UNCHANGED <<lines, rbuf, want>>
    BY DEF Texts, Reading, Receive
  <1>2. Taken' = Taken
    BY <1>1 DEF Taken
  <1>3. AsTyped(Taken)' = AsTyped(Taken)
    BY <1>2 DEF AsTyped
  <1>4. received' = AsTyped(Taken) \o rx' /\ (~overrun' => received' = keyed')
    <2>1. Taken \in Seq(Char \cup {NUL})
      BY TextsAreTexts, EmptySeq, ConcatProperties DEF IInv, TypeOK, Taken
    <2>2. AsTyped(Taken) \in Seq(Char)
      <3>1. \A k \in DOMAIN Taken : Taken[k] # CR
        BY DEF InputExact
      <3>2. QED
        BY <2>1, <3>1, StoredAsTyped
    <2>3. AsTyped(Taken) \o Append(rx, c) = Append(AsTyped(Taken) \o rx, c)
      <3>1. rx \in Seq(Char)
        BY DEF IInv, TypeOK
      <3>2. QED
        BY <2>2, <3>1, ConcatAppend
    <2>4. received = AsTyped(Taken) \o rx /\ (~overrun => received = keyed)
      BY DEF InputExact
    <2>5. CASE Len(rx) < RxSize
      <3>1. /\ rx' = Append(rx, c) /\ received' = Append(received, c)
            /\ keyed' = Append(keyed, c) /\ overrun' = overrun
        BY <2>5 DEF Receive
      <3>2. QED
        BY <2>3, <2>4, <3>1
    <2>6. CASE ~(Len(rx) < RxSize)
      <3>1. overrun' = TRUE /\ rx' = rx /\ received' = received
        BY <2>6 DEF Receive
      <3>2. QED
        BY <2>4, <3>1
    <2>7. QED
      BY <2>5, <2>6
  <1>5. \A k \in DOMAIN Taken' : Taken'[k] # CR
    BY <1>2 DEF InputExact
  <1>6. (Reading => Len(rbuf) < want /\ \A j \in DOMAIN rbuf : rbuf[j] # NUL)'
    BY <1>1 DEF InputExact
  <1>7. QED
    BY <1>1, <1>3, <1>4, <1>5, <1>6 DEF InputExact

\* A character taken by read_input: it moves from the receive buffer to rbuf, and
\* with the last one rbuf becomes the text the call returns.
LEMMA InputTaken ==
  ASSUME IInv, InputExact, ReadChar
  PROVE  InputExact'
  <1> DEFINE X == Char \cup {NUL}
             c == Head(rx)
             x == IF c = CR THEN NUL ELSE c
             over == c = CR \/ Len(rbuf) + 1 = want
             B == FlattenSeq(Texts)
  <1>1. /\ pc = "read" /\ rx # <<>> /\ rx \in Seq(Char)
        /\ rbuf \in Seq(X) /\ lines \in Seq([text : Seq(X), len : Lens])
        /\ want \in Lens /\ want \in Nat /\ TypeOK
    BY ConsoleAssumption DEF IInv, TypeOK, InputInv, ReadChar
  <1>2. c \in Char /\ x \in X /\ Tail(rx) \in Seq(Char) /\ rx = <<c>> \o Tail(rx)
    BY <1>1, HeadTailProperties, HeadThenTail
  <1>3. /\ rbuf' = Append(rbuf, x) /\ rx' = Tail(rx) /\ received' = received /\ want' = want
        /\ keyed' = keyed /\ overrun' = overrun
        /\ lines' = IF over THEN Append(lines, [text |-> rbuf', len |-> want]) ELSE lines
        /\ Reading' = ~over
    <2>1. /\ ToUart(Bytes(IF c = CR THEN NL ELSE c), IF over THEN "run" ELSE "read")
          /\ rbuf' = Append(rbuf, x) /\ rx' = Tail(rx) /\ received' = received /\ want' = want
        /\ keyed' = keyed /\ overrun' = overrun
          /\ lines' = IF over THEN Append(lines, [text |-> rbuf', len |-> want]) ELSE lines
      BY DEF ReadChar
    <2>2. CASE over
      BY <2>1, <2>2 DEF ToUart, Reading
    <2>3. CASE ~over
      BY <2>1, <2>3 DEF ToUart, Reading
    <2>4. QED
      BY <2>1, <2>2, <2>3
  <1>4. /\ Reading /\ Taken = B \o rbuf /\ B \in Seq(X)
        /\ Len(rbuf) < want /\ \A j \in DOMAIN rbuf : rbuf[j] # NUL
    BY <1>1, TextsAreTexts DEF Reading, Taken, InputExact
  <1> HIDE DEF c, x, over, B
  <1>5. /\ rbuf' \in Seq(X) /\ Len(rbuf') = Len(rbuf) + 1 /\ DOMAIN rbuf' = 1..(Len(rbuf) + 1)
        /\ Len(rbuf) \in Nat /\ DOMAIN rbuf = 1..Len(rbuf)
        /\ rbuf'[Len(rbuf) + 1] = x /\ \A j \in 1..Len(rbuf) : rbuf'[j] = rbuf[j]
    BY <1>1, <1>2, <1>3, AppendProperties, LenProperties
  <1>6. Taken' = B \o rbuf'
    <2>1. CASE over
      <3>1. lines' = Append(lines, [text |-> rbuf', len |-> want])
        BY <1>3, <2>1
      <3>2. Texts' = Append(Texts, rbuf')
        BY <1>1, <1>5, <3>1, TextsAppend
      <3>3. Texts \in Seq(Seq(X))
        BY <1>1, TextsAreTexts
      <3>4. FlattenSeq(Append(Texts, rbuf')) = FlattenSeq(Texts) \o rbuf'
        BY <1>5, <3>3, FlattenAppend
      <3>5. Taken' = FlattenSeq(Texts') \o <<>>
        BY <1>3, <2>1 DEF Taken
      <3>6. B \o rbuf' \in Seq(X)
        BY <1>4, <1>5, ConcatProperties
      <3>7. (B \o rbuf') \o <<>> = B \o rbuf'
        BY <3>6, ConcatEmptySeq
      <3>8. FlattenSeq(Texts') = B \o rbuf'
        BY <3>2, <3>4 DEF B
      <3>9. QED
        BY <3>5, <3>7, <3>8
    <2>2. CASE ~over
      <3>1. Texts' = Texts /\ Reading'
        BY <1>3, <2>2 DEF Texts
      <3>2. QED
        BY <3>1 DEF Taken, B
    <2>3. QED
      BY <2>1, <2>2
  <1>7. Taken' = Append(Taken, x)
    <2>1. B \o Append(rbuf, x) = Append(B \o rbuf, x)
      <3>1. B \in Seq(X) /\ rbuf \in Seq(X) /\ x \in X
        BY <1>1, <1>2, <1>4
      <3> HIDE DEF X
      <3>2. QED
        BY <3>1, ConcatAppend
    <2>2. QED
      BY <1>3, <1>4, <1>6, <2>1
  <1>8. Taken \in Seq(X) /\ \A k \in DOMAIN Taken : Taken[k] # CR
    BY <1>1, <1>4, ConcatProperties DEF InputExact
  <1>9. /\ AsTyped(Taken) \in Seq(Char)
        /\ AsTyped(Append(Taken, x)) = Append(AsTyped(Taken), c)
        /\ \A k \in DOMAIN Append(Taken, x) : Append(Taken, x)[k] # CR
    BY <1>2, <1>8, StoredAsTyped DEF x
  <1>10. received' = AsTyped(Taken)' \o rx'
    <2> DEFINE A == AsTyped(Taken)
    <2>1. AsTyped(Taken)' = Append(A, c)
      BY <1>7, <1>9 DEF AsTyped
    <2>2. received = A \o rx
      BY DEF InputExact
    <2> HIDE DEF A
    <2>3. A \in Seq(Char) /\ <<c>> \in Seq(Char)
      BY <1>2, <1>9 DEF A
    <2>4. Append(A, c) = A \o <<c>>
      BY <1>2, <2>3, AppendIsConcat
    <2>5. A \o (<<c>> \o Tail(rx)) = A \o <<c>> \o Tail(rx)
      BY <1>2, <2>3, ConcatAssociative
    <2>6. QED
      BY <1>2, <1>3, <2>1, <2>2, <2>4, <2>5
  <1>11. \A k \in DOMAIN Taken' : Taken'[k] # CR
    BY <1>7, <1>9
  <1>12. ~over => Len(rbuf') < want' /\ \A j \in DOMAIN rbuf' : rbuf'[j] # NUL
    <2>1. SUFFICES ASSUME ~over
                   PROVE  Len(rbuf') < want' /\ \A j \in DOMAIN rbuf' : rbuf'[j] # NUL
      OBVIOUS
    <2>2. x # NUL
      BY <1>2, <2>1, ConsoleAssumption DEF over, x
    <2>3. Len(rbuf) + 1 # want
      BY <2>1 DEF over
    <2>4. Len(rbuf') < want'
      BY <1>1, <1>3, <1>4, <1>5, <2>3
    <2>5. \A j \in DOMAIN rbuf' : rbuf'[j] # NUL
      BY <1>4, <1>5, <2>2
    <2>6. QED
      BY <2>4, <2>5
  <1> DEFINE Ends(text, len) == /\ \A j \in DOMAIN text : text[j] = NUL => j = Len(text)
                                /\ Len(text) <= len
                                /\ Len(text) = len \/ text[Len(text)] = NUL
  <1>13. \A k \in DOMAIN lines' : Ends(lines'[k].text, lines'[k].len)
    <2>1. \A k \in DOMAIN lines : Ends(lines[k].text, lines[k].len)
      BY DEF InputExact
    <2>2. CASE over
      <3>1. Ends(rbuf', want)
        <4>1. \A j \in DOMAIN rbuf' : rbuf'[j] = NUL => j = Len(rbuf')
          BY <1>4, <1>5
        <4>2. Len(rbuf') <= want
          BY <1>1, <1>4, <1>5
        <4>3. Len(rbuf') = want \/ rbuf'[Len(rbuf')] = NUL
          BY <1>5, <2>2 DEF over, x
        <4>4. QED
          BY <4>1, <4>2, <4>3
      <3> DEFINE r == [text |-> rbuf', len |-> want]
      <3>2. r.text = rbuf' /\ r.len = want /\ r \in [text : Seq(X), len : Lens]
        BY <1>1, <1>5
      <3>3. lines' = Append(lines, r)
        BY <1>3, <2>2
      <3> HIDE DEF r, Ends, X
      <3>4. /\ Len(lines) \in Nat /\ DOMAIN lines = 1..Len(lines)
            /\ DOMAIN lines' = 1..(Len(lines) + 1)
            /\ lines'[Len(lines) + 1] = r /\ \A k \in 1..Len(lines) : lines'[k] = lines[k]
        BY <1>1, <3>2, <3>3, AppendProperties, LenProperties
      <3>5. ASSUME NEW k \in DOMAIN lines' PROVE Ends(lines'[k].text, lines'[k].len)
        <4>1. CASE k = Len(lines) + 1
          <5>1. lines'[k] = r
            BY <3>4, <4>1
          <5>2. QED
            BY <3>1, <3>2, <5>1
        <4>2. CASE k # Len(lines) + 1
          <5>1. k \in DOMAIN lines /\ lines'[k] = lines[k]
            BY <3>4, <4>2
          <5>2. QED
            BY <2>1, <5>1
        <4>3. QED
          BY <4>1, <4>2
      <3>6. QED
        BY <3>5
    <2>3. CASE ~over
      <3>1. lines' = lines
        BY <1>3, <2>3
      <3>2. QED
        BY <2>1, <3>1
    <2>4. QED
      BY <2>2, <2>3
  <1>14. QED
    BY <1>3, <1>10, <1>11, <1>12, <1>13 DEF InputExact

LEMMA InitInputExact == Init => InputExact
  <1> SUFFICES ASSUME Init PROVE InputExact
    OBVIOUS
  <1>1. lines = <<>> /\ ~Reading /\ received = <<>> /\ keyed = <<>> /\ rx = <<>>
    BY DEF Init, Reading
  <1>2. DOMAIN Texts = {} /\ Texts = <<>>
    BY <1>1 DEF Texts
  <1>3. FlattenSeq(Texts) = <<>>
    <2>1. <<>> \in Seq(Seq(Char)) /\ Len(<<>>) = 0
      BY EmptySeq
    <2>2. FlattenSeq(<<>>) = <<>>
      BY <2>1, FlattenJoins
    <2>3. QED
      BY <1>2, <2>2
  <1>4. Taken = <<>>
    BY <1>1, <1>3, ConcatEmptySeq, EmptySeq DEF Taken
  <1>5. AsTyped(Taken) = <<>> /\ DOMAIN Taken = {}
    BY <1>4 DEF AsTyped
  <1>6. <<>> \o <<>> = <<>>
    BY ConcatEmptySeq, EmptySeq
  <1>7. QED
    BY <1>1, <1>5, <1>6 DEF InputExact

\* Every step keeps the account of the input.
LEMMA NextInputExact == IInv /\ InputExact /\ [Next]_vars => InputExact'
  <1> SUFFICES ASSUME IInv, InputExact, [Next]_vars PROVE InputExact'
    OBVIOUS
  <1> USE DEF call, input, leave, device, htif, terminal, Idle
  <1>1. ASSUME NEW c \in Printed, Putchar(c) PROVE InputExact'
    <2>1. ~Reading /\ Reading' = Reading /\ UNCHANGED input
      BY <1>1 DEF Putchar, ToUart, ToHost, Reading
    <2>2. QED
      BY <2>1, InputStays
  <1>2. ASSUME NEW s \in Strings, Printstr(s) PROVE InputExact'
    <2>1. ~Reading /\ Reading' = Reading /\ UNCHANGED input
      BY <1>2 DEF Printstr, PrintAsIs, ToUart, ToHost, Reading
    <2>2. QED
      BY <2>1, InputStays
  <1>3. ASSUME NEW code \in Codes, MainReturns(code) PROVE InputExact'
    <2>1. ~Reading /\ Reading' = Reading /\ UNCHANGED input
      BY <1>3 DEF MainReturns, PrintAsIs, ToUart, ToHost, Reading
    <2>2. QED
      BY <2>1, InputStays
  <1>4. ASSUME NEW len \in Lens, ReadInput(len) PROVE InputExact'
    <2>1. ~Reading /\ Reading' /\ rbuf' = <<>> /\ want' = len /\ UNCHANGED <<rx, received, keyed, overrun, lines>>
      BY <1>4 DEF ReadInput, Reading
    <2>2. Texts' = Texts
      BY <2>1 DEF Texts
    <2>3. Taken' = Taken
      BY <2>1, <2>2 DEF Taken
    <2>4. AsTyped(Taken)' = AsTyped(Taken)
      BY <2>3 DEF AsTyped
    <2>5. Len(rbuf') < want' /\ DOMAIN rbuf' = {}
      BY <2>1, ConsoleAssumption
    <2>6. received' = AsTyped(Taken)' \o rx'
      BY <2>1, <2>4 DEF InputExact
    <2>7. \A k \in DOMAIN Taken' : Taken'[k] # CR
      BY <2>3 DEF InputExact
    <2>8. QED
      BY <2>1, <2>5, <2>6, <2>7 DEF InputExact
  <1>5. ASSUME Send PROVE InputExact'
    <2>1. Reading' = Reading /\ UNCHANGED input
      BY <1>5 DEF Send, Reading
    <2>2. QED
      BY <2>1, InputStays
  <1>6. ASSUME ReadChar PROVE InputExact'
    BY <1>6, InputTaken
  <1>7. ASSUME NEW c \in Keys, Receive(c) PROVE InputExact'
    <2>1. c \in Char
      BY ConsoleAssumption
    <2>2. QED
      BY <1>7, <2>1, InputReceived
  <1>8. ASSUME \/ Probe \/ FillMagic \/ Post \/ Return \/ Host \/ StoresVisible \/ Transmit
               \/ \E enable \in BOOLEAN : SetStats(enable)
               \/ \E code : Exit(code)
               \/ UNCHANGED vars
        PROVE  InputExact'
    <2>1. Reading' = Reading /\ UNCHANGED input
      BY <1>8 DEF Probe, FillMagic, Post, Return, Host, Take, Serve, Reply, StoresVisible, Transmit,
         SetStats, Exit, vars, Reading
    <2>2. QED
      BY <2>1, InputStays
  <1>9. QED
    BY <1>1, <1>2, <1>3, <1>4, <1>5, <1>6, <1>7, <1>8 DEF Next, Call, Hart, Leave

\* What gets into the UART's receive buffer, which is everything typed unless the
\* buffer was full when something came, is neither lost, doubled nor reordered on its
\* way through read_input, and every text read_input returns ends as it should: at a
\* carriage return or when the caller's buffer is full, never later.
THEOREM InputKept == Spec => []InputExact
  <1>1. Init => IInv /\ InputExact
    BY InitIInv, InitInputExact
  <1>2. IInv /\ InputExact /\ [Next]_vars => (IInv /\ InputExact)'
    BY NextIInv, NextInputExact
  <1>3. QED
    BY <1>1, <1>2, PTL DEF Spec
================================================================================
