-------------------------------- MODULE Console --------------------------------
(* How a test program's output and exit code leave the board and its input     *)
(* gets in: putchar, printstr, syscall, exit, read_input, setStats and the end *)
(* of _init in src/src/common/syscalls.c, uart16550_putchar and                *)
(* uart16550_getchar in src/src/common/uart16550.c.                            *)
(*                                                                             *)
(* Until query_uart16550 has run, output goes to the host through tohost and   *)
(* fromhost, and putchar buffers it; from then on it goes to the UART.  The    *)
(* host (outside the repository) polls tohost, clears it, serves the request   *)
(* it points to and sets fromhost.  A hart's plain stores reach memory some    *)
(* time later, at the latest when it executes a fence.                         *)
EXTENDS Naturals, SequencesExt

CONSTANTS
  Char, NL, CR,   \* NL and CR are '\n' and '\r'
  Printed,        \* what the program may pass to putchar ...
  Strings,        \* ... and to printstr
  Codes,          \* the codes it may exit with
  BufSize,        \* sizeof(buf) in htif_putchar
  MaxChars,       \* how much the program prints (its input's echo aside)
  MaxInput, Keys, \* how much is typed to it, of which characters
  RxSize,         \* how many the UART keeps until they are read
  Lens,           \* the lengths it may pass to read_input
  Named, Unnamed, \* what _init reports of counters once stopped, and only started
  None, NUL

ASSUME ConsoleAssumption ==
  /\ NL \in Char /\ CR \in Char
  /\ Printed \subseteq Char /\ Strings \subseteq Seq(Char)
  /\ Codes \subseteq Nat
  /\ BufSize \in Nat \ {0}
  /\ MaxChars \in Nat
  /\ MaxInput \in Nat /\ Keys \subseteq Char /\ Lens \subseteq Nat \ {0}
  /\ RxSize \in Nat \ {0}
  /\ {Named, Unnamed} \subseteq Seq(Char) \ {<<>>}
  /\ None \notin Seq(Char) \cup Nat /\ NUL \notin Char

VARIABLES
  pc,          \* "run" between calls, otherwise where the hart is in a call
  uart16550,   \* whether a UART has been found (fixed once TRUE)
  todo,        \* the characters the call to the UART has still to send
  back,        \* where the hart goes on after that: "run", or "read" in read_input
  buf,         \* buf[0..buflen-1] of htif_putchar
  arg,         \* the bytes the pending call asks the host to write
  flushing,    \* that call comes from htif_putchar
  stores,      \* the stores to magic_mem and its bytes not yet in memory
  memory,      \* the request as it stands in memory
  tohost,      \* 0, the address of a request, or an exit code shifted left
  fromhost,
  host,        \* "idle", "serve", "reply", or "over" after an exit
  shown,       \* what the host has written to its terminal
  exitcode,    \* what the host takes the program's exit code to be
  thr,         \* the UART's transmitter register, empty or one character
  line,        \* what the UART has sent
  asked, typed,   \* history: the bytes given to the host and to the UART
  rx,          \* the UART's receive buffer
  rbuf, want,  \* buf and len of read_input
  received,    \* history: all that got into rx
  keyed,       \* history: all that was typed
  overrun,     \* the UART has lost some of it (a status bit the code never tests)
  lines,       \* history: what the calls of read_input returned, and their len
  report,      \* what _init would print of the counters
  leaving      \* the result of main once it has returned

call == <<arg, flushing>>
input == <<rx, rbuf, want, received, keyed, overrun, lines>>
leave == <<report, leaving>>
device == <<thr, line>>
htif == <<stores, memory, tohost, fromhost>>
terminal == <<host, shown, exitcode>>
vars == <<pc, uart16550, todo, back, buf, call, htif, terminal, device, asked, typed, input, leave>>

\* tohost as a request is an address, so even; as an exit code it is odd.
Request == 2 * 32
IsExit(w) == w % 2 = 1

\* What each part of the console holds.
TypeOK ==
  /\ pc \in {"run", "send", "read", "syscall", "post", "wait", "exit"}
  /\ uart16550 \in BOOLEAN
  /\ todo \in Seq(Char) /\ buf \in Seq(Char)
  /\ arg \in Seq(Char) /\ flushing \in BOOLEAN
  /\ stores \in Seq(Char) \cup {None}
  /\ memory \in Seq(Char)
  /\ tohost \in Nat /\ fromhost \in {0, 1}
  /\ host \in {"idle", "serve", "reply", "over"}
  /\ shown \in Seq(Char) /\ exitcode \in Nat \cup {None}
  /\ thr \in Seq(Char) /\ Len(thr) <= 1 /\ line \in Seq(Char)
  /\ asked \in Seq(Char) /\ typed \in Seq(Char)
  /\ back \in {"run", "read"}
  /\ rx \in Seq(Char) /\ Len(rx) <= RxSize /\ received \in Seq(Char)
  /\ keyed \in Seq(Char) /\ overrun \in BOOLEAN
  /\ rbuf \in Seq(Char \cup {NUL}) /\ want \in Lens \cup {0}
  /\ lines \in Seq([text : Seq(Char \cup {NUL}), len : Lens])
  /\ report \in {<<>>, Named, Unnamed} /\ leaving \in Codes \cup {None}

Init ==
  /\ pc = "run" /\ uart16550 = FALSE
  /\ todo = <<>> /\ buf = <<>> /\ arg = <<>> /\ flushing = FALSE
  /\ stores = None /\ memory = <<>>
  /\ tohost = 0 /\ fromhost = 0
  /\ host = "idle" /\ shown = <<>> /\ exitcode = None
  /\ thr = <<>> /\ line = <<>>
  /\ asked = <<>> /\ typed = <<>> /\ back = "run"
  /\ rx = <<>> /\ received = <<>> /\ keyed = <<>> /\ overrun = FALSE
  /\ rbuf = <<>> /\ want = 0 /\ lines = <<>>
  /\ report = <<>> /\ leaving = None

\* Between two calls of the program, main not yet returned.
Idle == pc = "run" /\ leaving = None
Room(n) == Len(asked) + Len(buf) + Len(typed) + n <= MaxChars

\* uart16550_putchar for each character of s, and syscall(SYS_write, 1, s).
ToUart(s, then) ==
  /\ todo' = s /\ typed' = typed \o s /\ back' = then
  /\ pc' = IF s = <<>> THEN then ELSE "send"
  /\ UNCHANGED <<call, asked>>

ToHost(s, fromPutchar) ==
  /\ arg' = s /\ flushing' = fromPutchar /\ asked' = asked \o s
  /\ pc' = "syscall"
  /\ UNCHANGED <<todo, typed, back>>

\* A newline goes to the UART with a carriage return before it.
Bytes(c) == IF c = NL THEN <<CR, NL>> ELSE <<c>>

--------------------------------------------------------------------------------
\* Deliberately wrong variants, used to show that the properties can fail.
Putchar_OnlyNewline(c) ==
  /\ Idle /\ Room(2)
  /\ IF uart16550
     THEN ToUart(Bytes(c), "run") /\ buf' = buf
     ELSE /\ buf' = Append(buf, c)
          /\ IF c = NL THEN ToHost(buf', TRUE) ELSE UNCHANGED <<pc, call, asked, todo, typed, back>>
  /\ UNCHANGED <<uart16550, htif, terminal, device, input, leave>>

Send_NotReady ==
  /\ pc = "send"
  /\ thr' = <<Head(todo)>>
  /\ todo' = Tail(todo)
  /\ pc' = IF todo' = <<>> THEN back ELSE "send"
  /\ UNCHANGED <<uart16550, back, buf, call, htif, terminal, line, asked, typed, input, leave>>

Send_NoWait ==
  /\ pc = "send"
  /\ thr' = Append(thr, Head(todo))
  /\ todo' = Tail(todo)
  /\ pc' = IF todo' = <<>> THEN back ELSE "send"
  /\ UNCHANGED <<uart16550, back, buf, call, htif, terminal, line, asked, typed, input, leave>>

Post_NoFence ==
  /\ pc = "post"
  /\ tohost' = Request
  /\ pc' = "wait"
  /\ UNCHANGED <<uart16550, todo, back, buf, call, stores, memory, fromhost, terminal, device, asked, typed, input, leave>>

Return_NotCleared ==
  /\ pc = "wait" /\ fromhost # 0
  /\ buf' = IF flushing THEN <<>> ELSE buf
  /\ pc' = "run"
  /\ UNCHANGED <<uart16550, todo, back, call, htif, terminal, device, asked, typed, input, leave>>

Exit_NotOdd(code) ==
  /\ pc = "run" /\ leaving \in {None, code}
  /\ tohost' = code * 2
  /\ pc' = "exit"
  /\ UNCHANGED <<uart16550, todo, back, buf, call, stores, memory, fromhost, terminal, device, asked, typed, input, leave>>

ReadChar_Terminated ==
  /\ pc = "read" /\ rx # <<>>
  /\ LET c    == Head(rx)
         full == Len(rbuf) = want
         over == c = CR \/ full
     IN  /\ rbuf' = Append(rbuf, IF over THEN NUL ELSE c)
         /\ lines' = IF over THEN Append(lines, [text |-> rbuf', len |-> want]) ELSE lines
         /\ ToUart(Bytes(IF c = CR THEN NL ELSE c), IF over THEN "run" ELSE "read")
  /\ rx' = Tail(rx)
  /\ UNCHANGED <<uart16550, buf, htif, terminal, device, want, received, keyed, overrun, leave>>
--------------------------------------------------------------------------------
\* putchar, with htif_putchar: flushed at a newline or when buf is full.
Putchar(c) ==
  /\ Idle /\ Room(2)
  /\ IF uart16550
     THEN ToUart(Bytes(c), "run") /\ buf' = buf
     ELSE /\ buf' = Append(buf, c)
          /\ IF c = NL \/ Len(buf') = BufSize
             THEN ToHost(buf', TRUE)
             ELSE UNCHANGED <<pc, call, asked, todo, typed, back>>
  /\ UNCHANGED <<uart16550, htif, terminal, device, input, leave>>

\* printstr (and printhex): as is, and past htif_putchar's buffer.
PrintAsIs(s) == IF uart16550 THEN ToUart(s, "run") ELSE ToHost(s, FALSE)

Printstr(s) ==
  /\ Idle /\ Room(Len(s))
  /\ PrintAsIs(s)
  /\ UNCHANGED <<uart16550, buf, htif, terminal, device, input, leave>>

\* _init: query_uart16550 leaves uart16550 set, whatever the device tree says.
Probe ==
  /\ Idle /\ ~uart16550
  /\ uart16550' = TRUE
  /\ UNCHANGED <<pc, todo, back, buf, call, htif, terminal, device, asked, typed, input, leave>>

\* uart16550_putchar: wait for the transmitter, then store the character.
Send ==
  /\ pc = "send" /\ thr = <<>>
  /\ thr' = <<Head(todo)>>
  /\ todo' = Tail(todo)
  /\ pc' = IF todo' = <<>> THEN back ELSE "send"
  /\ UNCHANGED <<uart16550, back, buf, call, htif, terminal, line, asked, typed, input, leave>>

\* syscall: fill in magic_mem ...
FillMagic ==
  /\ pc = "syscall"
  /\ stores' = arg
  /\ pc' = "post"
  /\ UNCHANGED <<uart16550, todo, back, buf, call, memory, tohost, fromhost, terminal, device, asked, typed, input, leave>>

\* ... fence, tohost = magic_mem ...
Post ==
  /\ pc = "post" /\ stores = None
  /\ tohost' = Request
  /\ pc' = "wait"
  /\ UNCHANGED <<uart16550, todo, back, buf, call, stores, memory, fromhost, terminal, device, asked, typed, input, leave>>

\* ... wait for fromhost and clear it; htif_putchar then empties its buffer.
Return ==
  /\ pc = "wait" /\ fromhost # 0
  /\ fromhost' = 0
  /\ buf' = IF flushing THEN <<>> ELSE buf
  /\ pc' = "run"
  /\ UNCHANGED <<uart16550, todo, back, call, stores, memory, tohost, terminal, device, asked, typed, input, leave>>

\* setStats: counter_names stays set once the counters have been stopped.
SetStats(enable) ==
  /\ Idle
  /\ report' = IF enable /\ report # Named THEN Unnamed ELSE Named
  /\ UNCHANGED <<pc, uart16550, todo, back, buf, call, htif, terminal, device, asked, typed, input, leaving>>

\* The end of _init: main has returned, the counters are reported.
MainReturns(code) ==
  /\ Idle
  /\ leaving' = code
  /\ IF report = <<>> THEN UNCHANGED <<pc, call, asked, todo, typed, back>> ELSE PrintAsIs(report)
  /\ UNCHANGED <<uart16550, buf, htif, terminal, device, input, report>>

\* tohost_exit, from _init's exit, or an exit, abort or handle_trap before; then
\* while (1).  (No instruction of the console's own traps, so a trap too is taken
\* between two calls.)
Exit(code) ==
  /\ pc = "run" /\ leaving \in {None, code}
  /\ tohost' = code * 2 + 1
  /\ pc' = "exit"
  /\ UNCHANGED <<uart16550, todo, back, buf, call, stores, memory, fromhost, terminal, device, asked, typed, input, leave>>

\* read_input: does nothing without a UART, which getchar needs.
ReadInput(len) ==
  /\ Idle /\ uart16550
  /\ rbuf' = <<>> /\ want' = len
  /\ pc' = "read"
  /\ UNCHANGED <<uart16550, todo, back, buf, call, htif, terminal, device, asked, typed, rx, received, keyed, overrun, lines, leave>>

\* Its loop: wait for a character, store and echo it.  A carriage return ends the
\* text and is echoed as a newline; a full buffer is not terminated.
ReadChar ==
  /\ pc = "read" /\ rx # <<>>
  /\ LET c    == Head(rx)
         over == c = CR \/ Len(rbuf) + 1 = want
     IN  /\ rbuf' = Append(rbuf, IF c = CR THEN NUL ELSE c)
         /\ lines' = IF over THEN Append(lines, [text |-> rbuf', len |-> want]) ELSE lines
         /\ ToUart(Bytes(IF c = CR THEN NL ELSE c), IF over THEN "run" ELSE "read")
  /\ rx' = Tail(rx)
  /\ UNCHANGED <<uart16550, buf, htif, terminal, device, want, received, keyed, overrun, leave>>

\* The memory system: the stores to magic_mem reach memory.
StoresVisible ==
  /\ stores # None
  /\ memory' = stores /\ stores' = None
  /\ UNCHANGED <<pc, uart16550, todo, back, buf, call, tohost, fromhost, terminal, device, asked, typed, input, leave>>

\* The host takes what is in tohost, an exit code or a request ...
Take ==
  /\ host = "idle" /\ tohost # 0
  /\ tohost' = 0
  /\ IF IsExit(tohost)
     THEN host' = "over" /\ exitcode' = tohost \div 2
     ELSE host' = "serve" /\ exitcode' = exitcode
  /\ UNCHANGED <<pc, uart16550, todo, back, buf, call, stores, memory, fromhost, shown, device, asked, typed, input, leave>>

\* ... writes what the request asks for ...
Serve ==
  /\ host = "serve"
  /\ shown' = shown \o memory
  /\ host' = "reply"
  /\ UNCHANGED <<pc, uart16550, todo, back, buf, call, htif, exitcode, device, asked, typed, input, leave>>

\* ... and answers once its last answer was taken.
Reply ==
  /\ host = "reply" /\ fromhost = 0
  /\ fromhost' = 1
  /\ host' = "idle"
  /\ UNCHANGED <<pc, uart16550, todo, back, buf, call, stores, memory, tohost, shown, exitcode, device, asked, typed, input, leave>>

\* The UART sends what is in its transmitter register.
Transmit ==
  /\ thr # <<>>
  /\ line' = line \o thr /\ thr' = <<>>
  /\ UNCHANGED <<pc, uart16550, todo, back, buf, call, htif, terminal, asked, typed, input, leave>>

\* The UART receives what somebody types, and loses it when its buffer is full.
Receive(c) ==
  /\ uart16550 /\ Len(keyed) < MaxInput
  /\ keyed' = Append(keyed, c)
  /\ IF Len(rx) < RxSize
     THEN rx' = Append(rx, c) /\ received' = Append(received, c) /\ overrun' = overrun
     ELSE overrun' = TRUE /\ UNCHANGED <<rx, received>>
  /\ UNCHANGED <<pc, uart16550, todo, back, buf, call, htif, terminal, device, asked, typed, rbuf, want, lines, leave>>

Call ==
  \/ Probe
  \/ \E c \in Printed : Putchar(c)
  \/ \E s \in Strings : Printstr(s)
  \/ \E len \in Lens : ReadInput(len)
  \/ \E enable \in BOOLEAN : SetStats(enable)
  \/ \E code \in Codes : MainReturns(code) \/ Exit(code)

Leave == leaving # None /\ Exit(leaving)
Hart == Send \/ FillMagic \/ Post \/ Return \/ ReadChar \/ Leave
Host == Take \/ Serve \/ Reply

Next == Call \/ Hart \/ StoresVisible \/ Host \/ Transmit \/ \E c \in Keys : Receive(c)

Spec == Init /\ [][Next]_vars

\* Hart, memory, host and UART keep going; nothing makes the program print, nor
\* anybody type.
FairSpec ==
  Spec /\ WF_vars(Hart) /\ WF_vars(StoresVisible) /\ WF_vars(Host) /\ WF_vars(Transmit)

--------------------------------------------------------------------------------
\* The last characters of s are t.
EndsWith(s, t) == Len(t) <= Len(s) /\ SubSeq(s, Len(s) - Len(t) + 1, Len(s)) = t

\* A call to the host returns when the host has written what was asked of it, no
\* less and nothing else, and it never writes a byte nobody asked for.
HostExact ==
  /\ pc = "run" => shown = asked
  /\ \E k \in 0..Len(asked) : shown = SubSeq(asked, 1, k)

\* The UART sends all characters in order: none is stored over one not yet sent.
UartExact == typed = line \o thr \o todo

\* htif_putchar's buffer has room for one more whenever the program runs, and a
\* finished line never stays in it.
BufferHasRoom ==
  pc = "run" => Len(buf) < BufSize /\ \A k \in DOMAIN buf : buf[k] # NL

\* When the program has exited the host knows its code, main's if main returned,
\* and has written every line it was given before; the report of the counters,
\* which comes last, is out or on its way.
ExitComplete ==
  host = "over" =>
    /\ exitcode \in Codes /\ shown = asked
    /\ leaving # None => /\ exitcode = leaving
                         /\ EndsWith(shown, report) \/ EndsWith(line \o thr, report)

\* In a call of read_input; and all such calls have taken, a carriage return as NUL.
Reading == pc = "read" \/ (pc = "send" /\ back = "read")
Texts == [k \in DOMAIN lines |-> lines[k].text]
Taken == FlattenSeq(Texts) \o (IF Reading THEN rbuf ELSE <<>>)
AsTyped(s) == [k \in DOMAIN s |-> IF s[k] = NUL THEN CR ELSE s[k]]

\* Every character the UART did not lose (every one typed, if it was never full when
\* one came) is in one buffer, in order, or still to be read, whichever calls of
\* read_input met it: a buffer ends at the first carriage return, in its place a NUL,
\* or is exactly as full as the caller allowed, and one still being filled has room.
InputExact ==
  /\ received = AsTyped(Taken) \o rx
  /\ ~overrun => received = keyed
  /\ \A k \in DOMAIN Taken : Taken[k] # CR
  /\ Reading => Len(rbuf) < want /\ \A j \in DOMAIN rbuf : rbuf[j] # NUL
  /\ \A k \in DOMAIN lines :
       LET text == lines[k].text
       IN  /\ \A j \in DOMAIN text : text[j] = NUL => j = Len(text)
           /\ Len(text) <= lines[k].len
           /\ Len(text) = lines[k].len \/ text[Len(text)] = NUL

\* No call that prints blocks for ever, reading goes on as long as there is input,
\* and every exit is noticed.
CallsReturn ==
  /\ pc \in {"send", "syscall"} ~> pc \in {"run", "read"}
  /\ (pc = "read" /\ rx # <<>>) ~> pc = "run" \/ rx = <<>>
  /\ pc = "exit" \/ leaving # None ~> host = "over"
--------------------------------------------------------------------------------
(* Why these hold: the inductive invariant of ConsoleProofs.                   *)

\* Where a request is while the hart waits for its answer: posted, in the host's
\* hands, or answered; at other times none is anywhere, and the stores of magic_mem
\* are on their way only between being made and the fence.
HandshakeInv ==
  /\ stores # None => pc = "post" /\ stores = arg
  /\ pc = "post" /\ stores = None => memory = arg
  /\ pc = "wait" =>
       /\ memory = arg
       /\ \/ tohost = Request /\ host = "idle" /\ fromhost = 0
          \/ tohost = 0 /\ host \in {"serve", "reply"} /\ fromhost = 0
          \/ tohost = 0 /\ host = "idle" /\ fromhost = 1
  /\ pc \notin {"wait", "exit"} => tohost = 0 /\ host = "idle" /\ fromhost = 0

\* An exit code is in tohost until the host takes it, and is main's if main returned.
ExitInv ==
  pc = "exit" =>
    \E code \in Codes :
      /\ leaving \in {None, code}
      /\ \/ tohost = code * 2 + 1 /\ host = "idle"
         \/ tohost = 0 /\ host = "over" /\ exitcode = code

\* The bytes asked for and not yet written are those of the call in progress.
Unserved == pc \in {"syscall", "post"} \/ (pc = "wait" /\ (tohost # 0 \/ host = "serve"))
ShownInv == asked = IF Unserved THEN shown \o arg ELSE shown

SendInv == UartExact /\ (pc = "send" <=> todo # <<>>)

\* htif_putchar's buffer has room except while it is being flushed.
BufferInv ==
  \/ pc = "exit"
  \/ pc \in {"syscall", "post", "wait"} /\ flushing
  \/ Len(buf) < BufSize /\ \A k \in DOMAIN buf : buf[k] # NL

\* read_input has a length to go by, and is not entered again once main returned;
\* from then on nothing is printed after the report.
InputInv ==
  /\ pc = "read" \/ back = "read" => want \in Lens
  /\ leaving # None =>
       /\ pc # "read" /\ (pc = "send" => back = "run")
       /\ EndsWith(asked, report) \/ EndsWith(typed, report)

IInv == TypeOK /\ HandshakeInv /\ ExitInv /\ ShownInv /\ SendInv /\ BufferInv /\ InputInv
================================================================================
