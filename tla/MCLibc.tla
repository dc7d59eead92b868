-------------------------------- MODULE MCLibc --------------------------------
(* What TLC asks of the runtime library.                                       *)
EXTENDS Libc

--------------------------------------------------------------------------------
(* What is asked of printf: every directive of a small grammar alone, and the  *)
(* shorter ones in pairs, so that what one leaves behind meets the next.       *)
Numbers == {Number(n) : n \in {0, 7, 10, 127, 255, 256, 1029, 2048, -1, -128}}
Texts == {Text(<<>>), Text(<<"h", "i", "!">>), Arg(0, <<>>)}
Arguments(c) ==
  CASE c = "s" -> Texts
    [] c = "c" -> {Text(<<"k">>)}
    [] c = "%" -> {Arg(0, <<>>)}
    [] OTHER -> Numbers

Directives(flags, widths, precs, stars) ==
  UNION {[flag : flags, width : widths, prec : precs, star : stars, l : 0..2,
          conv : {<<c>>}, arg : Arguments(c)] : c \in {"c", "s", "d", "u", "o", "x", "p", "%"}}

Unknown == [flag : {<<>>, <<"0">>}, width : {Unset, 12}, prec : {Unset}, star : {FALSE},
            l : {0}, conv : {<<"k">>, <<>>}, arg : {Arg(0, <<>>)}]

Alone == Directives({<<>>, <<"-">>, <<"0">>}, {Unset, 2, 12}, {Unset, 0, 2}, BOOLEAN)
Short == {d \in Directives({<<>>, <<"-">>}, {Unset, 4}, {Unset, 2}, {TRUE}) :
            d.l < 2 /\ d.arg \in Texts \cup Arguments("c") \cup {Number(-1), Number(1029)}}

Conforming(S) == {d \in S : Conforms(d)}
SomeRequests ==
  {<<d>> : d \in Alone \cup Unknown}
    \cup (Conforming(Short) \cup Conforming(Unknown)) \X (Conforming(Short) \cup Conforming(Unknown))

SomeOthers == {" ", "=", "(", "n", ")", "a", "b", "e", "f", "k", "h", "i", "!"}

--------------------------------------------------------------------------------
(* What is asked of the memory routines.                                       *)
Numbered == [x \in Cells |-> 200 + x]
Blank == [x \in Cells |-> 7]
Zeros(S) == [x \in Cells |-> IF x \in S THEN 0 ELSE 7]
Holding(s) == [x \in Cells |-> IF x \in 1..Len(s) THEN s[x] ELSE 0]

Copies ==
  {c \in {CallOf("memcpy", a, b, n, Numbered) : a \in {0, 1, 4, 12}, b \in {0, 8, 9, 12}, n \in 0..4 \cup {8}} :
     Legal(c)}
Fills == {CallOf("memset", a, b, n, Numbered) : a \in {0, 3, 4}, b \in {0, 90, 300, -1}, n \in 0..9}
Changed == {[Blank EXCEPT ![x] = v] : x \in 8..18, v \in {3, 250}}
Compares ==
  {CallOf("memcmp", a, b, n, m) : a \in {0, 1}, b \in {8, 9}, n \in 0..9, m \in {Blank} \cup Changed}
Lengths ==
  {CallOf(f, a, 0, n, Zeros({x, MemSize - 1})) :
     f \in {"strlen", "strnlen"}, a \in 0..2, n \in 0..4, x \in 2..6}
Orders ==
  {CallOf("strcmp", 0, 8, 0, [Zeros({x, y, MemSize - 1}) EXCEPT ![z] = 250]) :
     x \in 0..4, y \in 8..12, z \in {2, 10, 15}}
Strings == {CallOf("strcpy", a, 8, 0, [Numbered EXCEPT ![x] = 0]) : a \in 0..2, x \in 8..12}
Numerals ==
  {CallOf("atol", 1, 0, 0, Holding(s)) :
     s \in {<<>>, <<48>>, <<57, 48, 49>>, <<32, 32, 49, 50>>, <<45, 55>>, <<32, 45, 49, 48>>, <<43, 51, 50>>}}
Hexes == {CallOf("printhex", a, 0, n, Numbered) : a \in {0, 1}, n \in {0, 9, 10, 4011, 305419896}}
Vectors ==
  {CallOf(f, 0, 8, n, m) : f \in {"verify", "verifyDouble"}, n \in 0..5,
     m \in {Blank} \cup {[Blank EXCEPT ![x] = v] : x \in 8..12, v \in {3}}}

SomeCalls ==
  Copies \cup Fills \cup Compares \cup Lengths \cup Orders \cup Strings \cup Numerals \cup Hexes \cup Vectors
================================================================================
