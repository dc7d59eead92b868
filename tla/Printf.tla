-------------------------------- MODULE Printf --------------------------------
(* vprintfmt and printnum of src/src/common/syscalls.c, which printf and       *)
(* sprintf call: how a format and its arguments become characters.             *)
(*                                                                             *)
(* One action per character of the format, or per case of the switch.  Word    *)
(* and Reg stand for 2^32 and 2^64, an argument for a register of RV64, where  *)
(* long and long long take one each (on RV32 a long long takes two: left out). *)
EXTENDS Integers, SequencesExt

CONSTANTS
  Word, Reg,
  Others,      \* the characters that no case of the switch takes
  Requests     \* what callers may ask for: sequences of directives

VARIABLES
  asked,       \* history: the directives of the format
  fmt, p,      \* the format and the position reached in it
  args, ap,    \* the arguments and the next one
  spec,        \* padc, width, precision, lflag, last_fmt; NoSpec in plain text
  out,         \* what putch was called with
  written      \* the result of sprintf once it has returned

fmtvars == <<asked, fmt, p, args, ap, spec, out, written>>

NUL == "\\0"
NoSpec == [last_fmt |-> 0]
Unset == -1
Digit(n) == <<"0", "1", "2", "3", "4", "5", "6", "7", "8", "9", "a", "b", "c", "d", "e", "f">>[n + 1]
IsDigit(c) == \E n \in 0..9 : Digit(n) = c
Cases == {"-", "0", ".", "#", "l", "*", "c", "s", "d", "u", "o", "x", "p", "%"}
Character == Cases \cup {Digit(n) : n \in 0..9} \cup Others
NullText == <<"(", "n", "u", "l", "l", ")">>

\* A register as an argument: a number, or a pointer to text (0 is NULL).
Arg(n, s) == [num |-> n, str |-> s]
Number(n) == Arg(n % Reg, <<>>)
Text(s) == Arg(1, s)

--------------------------------------------------------------------------------
(* What a caller asks for.  A directive is a flag, a width and a precision,    *)
(* each of them in the format or by `*', a number of l's and a conversion.     *)
Signed(v, m) == IF v % m < m \div 2 THEN v % m ELSE (v % m) - m

Power(base) == LET power[k \in Nat] == IF k = 0 THEN 1 ELSE base * power[k - 1] IN power
DigitCount(v, base) ==
  CHOOSE m \in 1..(v + 1) : Power(base)[m] > v /\ (m = 1 \/ Power(base)[m - 1] <= v)
Positional(v, base) ==
  LET m == DigitCount(v, base)
  IN  [j \in 1..m |-> Digit((v \div Power(base)[m - j]) % base)]

Size == {Unset} \cup 0..(Word \div 2 - 1)
Conversions == {"c", "s", "d", "u", "o", "x", "p", "%"}
Directive ==
  [flag : {<<>>, <<"-">>, <<"0">>}, width : Size, prec : Size, star : BOOLEAN, l : 0..2,
   conv : {<<>>} \cup {<<c>> : c \in Conversions \cup Others},
   arg : [num : 0..(Reg - 1), str : Seq(Character)]]
Known(d) == d.conv \in {<<c>> : c \in Conversions}

ASSUME PrintfAssumption ==
  /\ Word \in Nat \ {0, 1} /\ Reg \in Nat /\ Reg >= Word
  /\ {" ", "=", "(", "n", ")", "a", "b", "e", "f"} \subseteq Others
  /\ \A c \in Others : c \notin Cases \cup {NUL} /\ ~IsDigit(c)
  /\ Requests \subseteq Seq(Directive)

Written(n, star) == IF n = Unset THEN <<>> ELSE IF star THEN <<"*">> ELSE Positional(n, 10)
Repeat(c, n) == [j \in 1..n |-> c]

Render(d) ==
  <<"%">> \o d.flag \o Written(d.width, d.star)
          \o (IF d.prec = Unset THEN <<>> ELSE <<".">> \o Written(d.prec, d.star))
          \o Repeat("l", d.l) \o d.conv

Starred(n, star) == IF star /\ n # Unset THEN <<Number(n)>> ELSE <<>>
Passed(d) ==
  Starred(d.width, d.star) \o Starred(d.prec, d.star)
    \o (IF Known(d) /\ d.conv # <<"%">> THEN <<d.arg>> ELSE <<>>)

\* The text between two directives is one character.
Between == <<"=">>
Format(ds) == FlattenSeq([j \in DOMAIN ds |-> Between \o Render(ds[j])])

--------------------------------------------------------------------------------
FmtInit ==
  /\ asked \in Requests
  /\ fmt = Format(asked) /\ args = FlattenSeq([j \in DOMAIN asked |-> Passed(asked[j])])
  /\ p = 1 /\ ap = 1
  /\ spec = NoSpec /\ out = <<>> /\ written = Unset

ch == IF p <= Len(fmt) THEN fmt[p] ELSE NUL
InText == spec = NoSpec /\ written = Unset
InDirective == spec # NoSpec /\ written = Unset

\* The digits of num, most significant first; then printnum.
Digits(num, base) ==
  LET digs[n \in 0..num] ==
        IF n < base THEN <<Digit(n)>> ELSE Append(digs[n \div base], Digit(n % base))
  IN  digs[num]

\* (A deliberately wrong variant: one pad too few.)
printnum_OneShort(num, base, width, padc) ==
  LET digs == Digits(num, base) IN Repeat(padc, width - Len(digs) - 1) \o digs

printnum(num, base, width, padc) ==
  LET digs == Digits(num, base) IN Repeat(padc, width - Len(digs)) \o digs

Width(lflag) == IF lflag = 0 THEN Word ELSE Reg
getuint(lflag) == args[ap].num % Width(lflag)
getint(lflag) == Signed(args[ap].num, Width(lflag))

strnlen(s, n) == IF n < 0 \/ n > Len(s) THEN Len(s) ELSE n

--------------------------------------------------------------------------------
Literal ==
  /\ InText /\ ch \notin {"%", NUL}
  /\ out' = Append(out, ch) /\ p' = p + 1
  /\ UNCHANGED <<asked, fmt, args, ap, spec, written>>

Percent ==
  /\ InText /\ ch = "%"
  /\ p' = p + 1
  /\ spec' = [padc |-> " ", width |-> Unset, precision |-> Unset, lflag |-> 0, last_fmt |-> p + 1]
  /\ UNCHANGED <<asked, fmt, args, ap, out, written>>

\* The flags, `.' and `l'; altflag is set and never read.
Modifier ==
  /\ InDirective /\ ch \in {"-", "0", ".", "#", "l"}
  /\ spec' = CASE ch \in {"-", "0"} -> [spec EXCEPT !.padc = ch]
               [] ch = "." /\ spec.width < 0 -> [spec EXCEPT !.width = 0]
               [] ch = "l" -> [spec EXCEPT !.lflag = @ + 1]
               [] OTHER -> spec
  /\ p' = p + 1
  /\ UNCHANGED <<asked, fmt, args, ap, out, written>>

\* process_precision: the first number of a directive is its width.
ProcessPrecision(n) ==
  spec' = IF spec.width < 0
          THEN [spec EXCEPT !.width = n, !.precision = Unset]
          ELSE [spec EXCEPT !.precision = n]

Value(c) == (CHOOSE n \in 0..9 : Digit(n) = c)
RunEnd == CHOOSE e \in p..Len(fmt) + 1 :
            /\ \A j \in p..(e - 1) : IsDigit(fmt[j])
            /\ e = Len(fmt) + 1 \/ ~IsDigit(fmt[e])

NumberTo(e) ==
  LET number[x \in (p - 1)..e] == IF x = p - 1 THEN 0 ELSE number[x - 1] * 10 + Value(fmt[x])
  IN  number[e]

InFormat ==
  /\ InDirective /\ IsDigit(ch) /\ ch # "0"
  /\ ProcessPrecision(NumberTo(RunEnd - 1))
  /\ p' = RunEnd
  /\ UNCHANGED <<asked, fmt, args, ap, out, written>>

Star ==
  /\ InDirective /\ ch = "*"
  /\ ProcessPrecision(getint(0))
  /\ p' = p + 1 /\ ap' = ap + 1
  /\ UNCHANGED <<asked, fmt, args, out, written>>

\* A conversion writes s and ends the directive.
Convert(s, taken) ==
  /\ out' = out \o s
  /\ p' = p + 1 /\ ap' = ap + taken
  /\ spec' = NoSpec
  /\ UNCHANGED <<asked, fmt, args, written>>

Char == InDirective /\ ch = "c" /\ Convert(args[ap].str, 1)

\* Padded before the text unless padc is '-', otherwise with spaces after it.
String ==
  /\ InDirective /\ ch = "s"
  /\ LET text == IF args[ap].num = 0 THEN NullText ELSE args[ap].str
         n == strnlen(text, spec.precision)
         left == spec.padc # "-"
     IN  Convert((IF left THEN Repeat(spec.padc, spec.width - n) ELSE <<>>)
                   \o SubSeq(text, 1, n)
                   \o (IF left THEN <<>> ELSE Repeat(" ", spec.width - n)), 1)

\* The sign comes before the padding and does not count.
Decimal ==
  /\ InDirective /\ ch = "d"
  /\ LET v == getint(spec.lflag)
     IN  Convert(IF v < 0 THEN <<"-">> \o printnum(-v, 10, spec.width, spec.padc)
                          ELSE printnum(v, 10, spec.width, spec.padc), 1)

Unsigned ==
  /\ InDirective /\ ch \in {"u", "o", "x", "p"}
  /\ LET base == CASE ch = "u" -> 10 [] ch = "o" -> 8 [] OTHER -> 16
         num == IF ch = "p" THEN getuint(1) ELSE getuint(spec.lflag)
     IN  Convert((IF ch = "p" THEN <<"0", "x">> ELSE <<>>)
                   \o printnum(num, base, spec.width, spec.padc), 1)

Escaped == InDirective /\ ch = "%" /\ Convert(<<"%">>, 0)

\* Anything else: back to the character after the '%', printed as text.
Default ==
  /\ InDirective
  /\ ch \notin Cases /\ ~IsDigit(ch)
  /\ out' = Append(out, "%")
  /\ p' = spec.last_fmt
  /\ spec' = NoSpec
  /\ UNCHANGED <<asked, fmt, args, ap, written>>

\* The end of the format; sprintf returns how much it wrote.
Return ==
  /\ InText /\ ch = NUL
  /\ written' = Len(out)
  /\ UNCHANGED <<asked, fmt, p, args, ap, spec, out>>

FmtNext ==
  \/ Literal \/ Percent \/ Modifier \/ InFormat \/ Star
  \/ Char \/ String \/ Decimal \/ Unsigned \/ Escaped \/ Default \/ Return

--------------------------------------------------------------------------------
(* What ISO C says of a directive, read off the directive and not off the      *)
(* format.                                                                     *)
Denoted(d) == IF d.l = 0 THEN d.arg.num % Word ELSE d.arg.num % Reg
Minus(d) == Denoted(d) >= (IF d.l = 0 THEN Word ELSE Reg) \div 2

Body(d) ==
  CASE d.conv = <<"s">> -> LET t == IF d.arg.num = 0 THEN NullText ELSE d.arg.str
                           IN  IF d.prec \in 0..Len(t) THEN SubSeq(t, 1, d.prec) ELSE t
    [] d.conv = <<"c">> -> d.arg.str
    [] d.conv = <<"%">> -> <<"%">>
    [] d.conv = <<"u">> -> Positional(Denoted(d), 10)
    [] d.conv = <<"o">> -> Positional(Denoted(d), 8)
    [] d.conv = <<"x">> -> Positional(Denoted(d), 16)
    [] d.conv = <<"p">> -> <<"0", "x">> \o Positional(d.arg.num % Reg, 16)
    [] d.conv = <<"d">> /\ Minus(d) ->
         <<"-">> \o Positional((IF d.l = 0 THEN Word ELSE Reg) - Denoted(d), 10)
    [] d.conv = <<"d">> /\ ~Minus(d) -> Positional(Denoted(d), 10)

Field(d) ==
  LET body == Body(d)
      pad == Repeat(IF d.flag = <<"0">> THEN "0" ELSE " ", d.width - Len(body))
  IN  IF d.flag = <<"-">> THEN body \o pad ELSE pad \o body

\* Where the code departs from ISO C by design or by mistake: `-' with a number,
\* a width with a negative number, %c, %p or %%, a 0 in the format (which is a flag),
\* a precision of a number.
Conforms(d) ==
  /\ d.flag = <<"-">> => d.conv = <<"s">>
  /\ d.flag = <<"0">> => d.conv # <<"s">>
  /\ d.width # Unset => d.conv \notin {<<"c">>, <<"p">>, <<"%">>}
  /\ d.width # Unset /\ d.conv = <<"d">> => ~Minus(d)
  /\ 0 \in {d.width, d.prec} => d.star
  /\ d.prec # Unset => d.conv = <<"s">>
  /\ d.star => Known(d)

\* printf and sprintf write what ISO C says of the directives on which they can be
\* expected to, each from its own arguments whatever came before it in the format,
\* and a directive they do not know as it stands; sprintf returns the length.
FormatExact ==
  written # Unset /\ (\A j \in DOMAIN asked : Conforms(asked[j])) =>
    /\ out = FlattenSeq([j \in DOMAIN asked |->
                Between \o (IF Known(asked[j]) THEN Field(asked[j]) ELSE Render(asked[j]))])
    /\ written = Len(out)
================================================================================
