--------------------------- MODULE TimingSweepProofs ---------------------------
(* Proofs about TimingSweep, for any number of tests, any layout of their      *)
(* lines, any source tree, any failure, and lines that reach the host at once  *)
(* or cut after any byte.                                                      *)
EXTENDS TimingSweep, SequenceTheorems, FiniteSetTheorems, WellFoundedInduction, TLAPS

\* The separators of the eight fields of a line are in order, with room between them.
LEMMA Order ==
  /\ \A n \in 0..8 : Sep[n] \in Nat
  /\ \A n \in 1..8 : \A m \in 0..(n - 1) : Sep[m] + 1 < Sep[n]
  <1> DEFINE P(n) == \A m \in 0..(n - 1) : Sep[m] + 1 < Sep[n]
  <1>1. \A n \in 0..8 : Sep[n] \in Nat
    BY SweepAssumption
  <1>2. ASSUME NEW n \in 1..8, n > 1 => P(n - 1) PROVE P(n)
    <2>1. Sep[n - 1] + 1 < Sep[n] /\ Sep[n] \in Nat /\ Sep[n - 1] \in Nat
      BY <1>1, SweepAssumption
    <2>2. SUFFICES ASSUME NEW m \in 0..(n - 1) PROVE Sep[m] + 1 < Sep[n]
      OBVIOUS
    <2>3. CASE m = n - 1
      BY <2>1, <2>3
    <2>4. CASE m # n - 1
      <3>1. m \in 0..((n - 1) - 1) /\ n > 1 /\ Sep[m] \in Nat
        BY <1>1, <2>4
      <3>2. Sep[m] + 1 < Sep[n - 1]
        BY <1>2, <3>1
      <3>3. QED
        BY <2>1, <3>1, <3>2
    <2>5. QED
      BY <2>3, <2>4
  <1> HIDE DEF P
  <1>3. P(1)
    <2>1. 1 \in 1..8 /\ ~(1 > 1)
      OBVIOUS
    <2>2. QED
      BY <1>2, <2>1
  <1>4. P(2)
    BY <1>2, <1>3
  <1>5. P(3)
    BY <1>2, <1>4
  <1>6. P(4)
    BY <1>2, <1>5
  <1>7. P(5)
    BY <1>2, <1>6
  <1>8. P(6)
    BY <1>2, <1>7
  <1>9. P(7)
    BY <1>2, <1>8
  <1>10. P(8)
    BY <1>2, <1>9
  <1>11. \A n \in 1..8 : P(n)
    <2>1. 1..8 = {1, 2, 3, 4, 5, 6, 7, 8}
      OBVIOUS
    <2>2. QED
      BY <1>3, <1>4, <1>5, <1>6, <1>7, <1>8, <1>9, <1>10, <2>1
  <1>12. QED
    BY <1>1, <1>11 DEF P

LEMMA SepFacts ==
  /\ Sep[0] = 0 /\ Sep[4] \in Nat /\ Sep[5] \in Nat /\ Sep[8] \in Nat /\ Sep[4] + 1 < Sep[5]
  /\ Sep[5] + 1 < Sep[8] /\ Sep[4] + 1 < Sep[8]
  /\ Marker \in Nat /\ 1 <= Marker /\ Past = Sep[4] + Marker /\ Past \in Nat /\ Past < Sep[5]
  /\ Past < Sep[8] - 1
  <1>1. Sep[0] = 0 /\ Marker \in Nat \ {0} /\ Sep[4] + Marker < Sep[5]
    BY SweepAssumption
  <1>2. /\ Sep[4] \in Nat /\ Sep[5] \in Nat /\ Sep[8] \in Nat
        /\ Sep[4] + 1 < Sep[5] /\ Sep[5] + 1 < Sep[8] /\ Sep[4] + 1 < Sep[8]
    <2>1. 4 \in 0..(5 - 1) /\ 5 \in 0..(8 - 1) /\ 4 \in 0..(8 - 1) /\ {4, 5, 8} \subseteq 0..8
      OBVIOUS
    <2>2. QED
      BY <2>1, Order
  <1>3. QED
    BY <1>1, <1>2 DEF Past

LEMMA Ends == Sep[8] \in Nat /\ 1 < Sep[8] /\ Sep[8] - 1 \in Nat /\ 1 <= Sep[8] - 1
  <1>1. 0 \in 0..(8 - 1) /\ 8 \in 0..8 /\ 8 \in 1..8
    OBVIOUS
  <1>2. Sep[0] + 1 < Sep[8] /\ Sep[8] \in Nat /\ Sep[0] = 0
    BY <1>1, Order, SepFacts
  <1>3. QED
    BY <1>2

LEMMA Difference ==
  ASSUME NEW a \in Int, NEW b \in Int, NEW c \in Int, NEW d \in Int, a = b - c
  PROVE  (c + d) - b = d - a
  OBVIOUS

LEMMA Sum3 ==
  ASSUME NEW a \in Int, NEW b \in Int, NEW c \in Int, NEW d \in Int, b + c = d
  PROVE  (a - d) + b = a - c
  OBVIOUS

LEMMA Tests ==
  N \in Nat /\ 1 <= N /\ Test = 1..N /\ MayFail \in BOOLEAN
  /\ SourceTrees \subseteq [objects : BOOLEAN, build : BOOLEAN, work : BOOLEAN]
  BY SweepAssumption DEF Test

LEMMA FunctionsAreSequences ==
  ASSUME NEW S, NEW n \in Nat
  PROVE  [1..n -> S] \subseteq Seq(S)
  <1> SUFFICES ASSUME NEW f \in [1..n -> S] PROVE f \in Seq(S)
    OBVIOUS
  <1>1. f \in UNION {[1..m -> S] : m \in Nat}
    OBVIOUS
  <1>2. QED
    BY <1>1, SeqDef

LEMMA LineFacts ==
  ASSUME NEW t \in Test
  PROVE  /\ LineOf(t) \in Seq(Byte) /\ Len(LineOf(t)) = Sep[8] /\ DOMAIN LineOf(t) = 1..Sep[8]
         /\ \A i \in 1..Sep[8] : LineOf(t)[i] = <<t, i>>
  <1>1. Sep[8] \in Nat
    BY SepFacts
  <1>2. \A i \in 1..Sep[8] : <<t, i>> \in Byte
    BY DEF Byte
  <1>3. LineOf(t) \in Seq(Byte)
    <2>1. LineOf(t) \in [1..Sep[8] -> Byte]
      BY <1>2 DEF LineOf
    <2>2. QED
      BY <1>1, <2>1, FunctionsAreSequences
  <1>4. DOMAIN LineOf(t) = 1..Sep[8] /\ \A i \in 1..Sep[8] : LineOf(t)[i] = <<t, i>>
    BY DEF LineOf
  <1>5. Len(LineOf(t)) = Sep[8]
    BY <1>1, <1>3, <1>4, LenProperties
  <1>6. QED
    BY <1>3, <1>4, <1>5

\* What is still to come, byte by byte.
LEMMA Concatenation ==
  ASSUME NEW u \in Seq(Byte), NEW v \in Seq(Byte)
  PROVE  /\ u \o v \in Seq(Byte) /\ Len(u \o v) = Len(u) + Len(v)
         /\ Len(u) \in Nat /\ Len(v) \in Nat /\ DOMAIN (u \o v) = 1..(Len(u) + Len(v))
         /\ \A j \in 1..Len(u) : (u \o v)[j] = u[j]
         /\ \A j \in (Len(u) + 1)..(Len(u) + Len(v)) : (u \o v)[j] = v[j - Len(u)]
  <1>1. /\ u \o v \in Seq(Byte) /\ Len(u \o v) = Len(u) + Len(v)
        /\ \A j \in 1..(Len(u) + Len(v)) :
             (u \o v)[j] = IF j <= Len(u) THEN u[j] ELSE v[j - Len(u)]
    BY ConcatProperties
  <1>2. Len(u) \in Nat /\ Len(v) \in Nat /\ DOMAIN (u \o v) = 1..Len(u \o v)
    BY <1>1, LenProperties
  <1>3. QED
    BY <1>1, <1>2

LEMMA Piece ==
  ASSUME NEW S, NEW s \in Seq(S), NEW a \in 1..(Len(s) + 1), NEW b \in 0..Len(s)
  PROVE  /\ SubSeq(s, a, b) \in Seq(S)
         /\ Len(SubSeq(s, a, b)) = IF a <= b THEN b - a + 1 ELSE 0
         /\ DOMAIN SubSeq(s, a, b) = 1..Len(SubSeq(s, a, b))
         /\ \A j \in 1..(b - a + 1) : SubSeq(s, a, b)[j] = s[a + j - 1]
  <1>1. Len(s) \in Nat /\ a \in Int /\ b \in Int
    BY LenProperties
  <1>2. \A j \in a..b : s[j] \in S
    BY <1>1, ElementOfSeq
  <1>3. QED
    BY <1>1, <1>2, SubSeqProperties, LenProperties

\* The bytes of a sequence are bytes.
LEMMA Bytes ==
  ASSUME NEW s \in Seq(Byte), NEW j \in 1..Len(s)
  PROVE  s[j][1] \in Test /\ s[j][2] \in 1..Sep[8]
  BY ElementOfSeq DEF Byte

\* The board's printing does not change what is to come.
LEMMA TransmitKeeps ==
  ASSUME TypeOK, Transmit
  PROVE  /\ wire' \in Seq(Byte) /\ toPrint' \in Seq(Byte)
         /\ Len(wire) \in Nat /\ Len(wire) <= Len(wire') /\ Coming' = Coming
  <1> DEFINE k == IF wholeLines THEN Len(toPrint) ELSE 1
             u == SubSeq(toPrint, 1, k)
             v == SubSeq(toPrint, k + 1, Len(toPrint))
  <1>1. /\ wire \in Seq(Byte) /\ toPrint \in Seq(Byte)
        /\ wire' = wire \o u /\ toPrint' = v
    BY DEF TypeOK, Transmit
  <1>2. k \in 1..Len(toPrint)
    BY <1>1, EmptySeq DEF Transmit
  <1>3. u \o v = toPrint
    <2>1. u \o v = SubSeq(toPrint, 1, Len(toPrint))
      <3>1. 1 \in 1..(Len(toPrint) + 1) /\ k \in (1 - 1)..Len(toPrint) /\ Len(toPrint) \in k..Len(toPrint)
        BY <1>1, <1>2, LenProperties
      <3>2. QED
        BY <1>1, <3>1, ConcatAdjacentSubSeq
    <2>2. QED
      BY <1>1, <2>1, SubSeqFull
  <1>4. u \in Seq(Byte) /\ v \in Seq(Byte)
    BY <1>1, <1>2, Piece, LenProperties
  <1> HIDE DEF k, u, v
  <1>5. (wire \o u) \o v = wire \o (u \o v)
    BY <1>1, <1>4, ConcatAssociative
  <1>6. QED
    BY <1>1, <1>3, <1>4, <1>5, Concatenation DEF Coming

\* A set of numbers that has a member has a least one.
LEMMA Smallest ==
  ASSUME NEW T \in SUBSET Nat, T # {}
  PROVE  \E m \in T : \A k \in T : m <= k
  <1> DEFINE Below == {q \in Nat \X Nat : q[1] < q[2]}
  <1>1. IsWellFoundedOn(Below, Nat)
    BY NatLessThanWellFounded DEF OpToRel
  <1>2. \A x, y \in Nat : <<y, x>> \in Below <=> y < x
    <2> TAKE x, y \in Nat
    <2>1. <<y, x>> \in Nat \X Nat /\ <<y, x>>[1] = y /\ <<y, x>>[2] = x
      OBVIOUS
    <2>2. QED
      BY <2>1, Zenon
  <1> HIDE DEF Below
  <1>3. \E x \in T : \A y \in T : <<y, x>> \notin Below
    BY <1>1, WFMin
  <1>4. \A x, y \in Nat : ~(y < x) => x <= y
    OBVIOUS
  <1>5. QED
    BY <1>2, <1>3, <1>4, Zenon

\* rstrip leaves a beginning of the chunk that does not end in a tab or newline.
LEMMA StrippedFacts ==
  ASSUME NEW c \in Seq(Byte)
  PROVE  \E b \in 0..Len(c) :
           /\ Stripped(c) = SubSeq(c, 1, b)
           /\ \A j \in (b + 1)..Len(c) : IsTab(c[j]) \/ IsNewline(c[j])
           /\ b > 0 => ~IsTab(c[b]) /\ ~IsNewline(c[b])
  <1> DEFINE T == {b \in 0..Len(c) : \A j \in (b + 1)..Len(c) : IsTab(c[j]) \/ IsNewline(c[j])}
             P(b) == /\ \A j \in (b + 1)..Len(c) : IsTab(c[j]) \/ IsNewline(c[j])
                     /\ b > 0 => ~(IsTab(c[b]) \/ IsNewline(c[b]))
  <1>1. Len(c) \in Nat
    BY LenProperties
  <1>2. Len(c) \in T /\ T \in SUBSET Nat
    BY <1>1
  <1>3. PICK m \in T : \A k \in T : m <= k
    BY <1>2, Smallest
  <1>4. P(m)
    <2>1. SUFFICES ASSUME m > 0, IsTab(c[m]) \/ IsNewline(c[m]) PROVE FALSE
      BY <1>3
    <2>2. m - 1 \in 0..Len(c) /\ \A j \in ((m - 1) + 1)..Len(c) : j = m \/ j \in (m + 1)..Len(c)
      BY <1>1, <1>3, <2>1
    <2>3. m - 1 \in T
      BY <1>3, <2>1, <2>2
    <2>4. m <= m - 1
      BY <1>3, <2>3
    <2>5. m \in Int
      BY <1>1, <1>2, <1>3
    <2>6. QED
      BY <2>4, <2>5
  <1>5. Stripped(c) = SubSeq(c, 1, CHOOSE b \in 0..Len(c) : P(b))
    BY DEF Stripped
  <1> HIDE DEF P
  <1>6. (CHOOSE b \in 0..Len(c) : P(b)) \in 0..Len(c) /\ P(CHOOSE b \in 0..Len(c) : P(b))
    BY <1>3, <1>4
  <1>7. QED
    BY <1>5, <1>6 DEF P

\* A piece of bytes that are mixed so, from place d + 1 on, is mixed so itself.
LEMMA MixedPiece ==
  ASSUME NEW s \in Seq(Byte), NEW l \in Seq(Byte), NEW d \in Nat, d + Len(l) <= Len(s),
         \A j \in 1..Len(l) : l[j] = s[d + j],
         NEW t, NEW from \in Nat, NEW g \in from..Sep[8], NEW o \in Int, Mixed(s, t, g, o)
  PROVE  \E e \in from..Sep[8] : Mixed(l, t, e, o + d)
  <1>1. Len(s) \in Nat /\ Len(l) \in Nat /\ Sep[8] \in Nat
    BY LenProperties, SepFacts
  <1>2. \A j \in 1..Len(l) : l[j] = IF (o + d) + j > 0 THEN <<t, (o + d) + j>> ELSE <<t - 1, (g + d) + j>>
    <2> TAKE j \in 1..Len(l)
    <2>1. d + j \in 1..Len(s) /\ o + (d + j) = (o + d) + j /\ g + (d + j) = (g + d) + j
      BY <1>1
    <2>2. s[d + j] = IF o + (d + j) > 0 THEN <<t, o + (d + j)>> ELSE <<t - 1, g + (d + j)>>
      BY <2>1 DEF Mixed
    <2>3. QED
      BY <2>1, <2>2
  <1>3. CASE g + d \in from..Sep[8]
    BY <1>2, <1>3 DEF Mixed
  <1>4. CASE g + d \notin from..Sep[8]
    <2>1. g + d > Sep[8]
      BY <1>1, <1>4
    <2>2. \A j \in 1..Len(l) : l[j] = <<t, (o + d) + j>> /\ (o + d) + j > 0
      <3> TAKE j \in 1..Len(l)
      <3>1. l[j][2] <= Sep[8]
        BY <1>1, Bytes
      <3>2. (g + d) + j > Sep[8]
        BY <1>1, <2>1
      <3>3. l[j] # <<t - 1, (g + d) + j>>
        BY <3>1, <3>2, <1>1
      <3>4. QED
        BY <1>2, <3>3
    <2>3. Mixed(l, t, g, o + d)
      BY <2>2 DEF Mixed
    <2>4. QED
      BY <2>3
  <1>5. QED
    BY <1>3, <1>4

\* The marker is in one place only, that of the line's own.
LEMMA MarkerIn ==
  ASSUME NEW s, NEW t, NEW g \in Nat, Past <= g, NEW o \in Int, Mixed(s, t, g, o),
         NEW k \in Int, 1 <= k, k + Marker - 1 <= Len(s), Len(s) \in Nat, MarkerAt(s, k)
  PROVE  o + k = Sep[4] + 1
  <1>1. k \in 1..Len(s) /\ 1 \in 1..Marker /\ k + 1 - 1 = k
    BY SepFacts
  <1>2. s[k][2] = Sep[4] + 1
    BY <1>1 DEF MarkerAt
  <1>3. s[k] = IF o + k > 0 THEN <<t, o + k>> ELSE <<t - 1, g + k>>
    BY <1>1 DEF Mixed
  <1>4. CASE o + k > 0
    BY <1>2, <1>3, <1>4
  <1>5. CASE ~(o + k > 0)
    <2>1. s[k][2] = g + k
      BY <1>3, <1>5
    <2>2. QED
      BY <1>1, <1>2, <2>1, SepFacts, SMTT(30)
  <1>6. QED
    BY <1>4, <1>5

\* The line collect_lines takes: the first with a marker, if there is one.
LEMMA FirstMarked ==
  ASSUME NEW c, Len(c) \in Nat, Marked(c) # {},
         \A j, k \in 1..Len(c) :
           (/\ j + Marker - 1 <= Len(c) /\ MarkerAt(c, j)
            /\ k + Marker - 1 <= Len(c) /\ MarkerAt(c, k)) => j = k
  PROVE  First(c) \in Marked(c)
  <1>1. Marker \in Nat /\ 1 <= Marker
    BY SepFacts
  <1>2. PICK s \in Marked(c) : TRUE
    OBVIOUS
  <1>3. ASSUME NEW r \in Marked(c) PROVE s[1] <= r[1]
    <2>1. /\ s[1] \in 1..Len(c) /\ s[2] \in 1..Len(c) /\ Stretch(c, s[1], s[2])
          /\ r[1] \in 1..Len(c) /\ r[2] \in 1..Len(c) /\ Stretch(c, r[1], r[2])
      BY <1>2 DEF Marked
    <2>2. PICK j \in s[1]..(s[2] + 1 - Marker) : MarkerAt(c, j)
      BY <1>2 DEF Marked, HasMarker
    <2>3. PICK k \in r[1]..(r[2] + 1 - Marker) : MarkerAt(c, k)
      BY DEF Marked, HasMarker
    <2>4. j \in s[1]..s[2] /\ k \in r[1]..r[2] /\ j = k
      <3>1. /\ j \in 1..Len(c) /\ k \in 1..Len(c) /\ j + Marker - 1 <= Len(c) /\ k + Marker - 1 <= Len(c)
            /\ j \in s[1]..s[2] /\ k \in r[1]..r[2]
        BY <1>1, <2>1, <2>2, <2>3, SMTT(30)
      <3>2. QED
        BY <2>2, <2>3, <3>1
    <2>5. SUFFICES ASSUME s[1] > r[1] PROVE FALSE
      BY <2>1
    <2>6. IsNewline(c[s[1] - 1]) /\ s[1] - 1 \in r[1]..r[2]
      BY <2>1, <2>2, <2>3, <2>4, <2>5 DEF Stretch
    <2>7. QED
      BY <2>1, <2>6 DEF Stretch
  <1>4. QED
    BY <1>2, <1>3 DEF First

\* Of a whole line nothing is stripped but the newline.
LEMMA StrippedWhole ==
  ASSUME NEW t \in Test
  PROVE  Stripped(LineOf(t)) = Whole(t)
  <1>1. PICK b \in 0..Len(LineOf(t)) :
          /\ Stripped(LineOf(t)) = SubSeq(LineOf(t), 1, b)
          /\ \A j \in (b + 1)..Len(LineOf(t)) : IsTab(LineOf(t)[j]) \/ IsNewline(LineOf(t)[j])
          /\ b > 0 => ~IsTab(LineOf(t)[b]) /\ ~IsNewline(LineOf(t)[b])
    BY LineFacts, StrippedFacts
  <1>2. Len(LineOf(t)) = Sep[8] /\ Sep[8] \in Nat /\ Sep[8] - 1 \in 1..Sep[8] /\ Sep[8] \in 1..Sep[8]
    BY LineFacts, Ends
  <1>3. LineOf(t)[Sep[8]][2] = Sep[8] /\ LineOf(t)[Sep[8] - 1][2] = Sep[8] - 1
    BY <1>2, LineFacts
  <1>4. IsNewline(LineOf(t)[Sep[8]]) /\ ~IsTab(LineOf(t)[Sep[8] - 1]) /\ ~IsNewline(LineOf(t)[Sep[8] - 1])
    <2>1. ASSUME NEW n \in 1..7 PROVE Sep[n] # Sep[8] - 1
      <3>1. n \in 0..(8 - 1) /\ n \in 0..8 /\ 8 \in 1..8
        OBVIOUS
      <3>2. Sep[n] + 1 < Sep[8] /\ Sep[n] \in Nat
        BY <3>1, Order
      <3>3. QED
        BY <1>2, <3>2
    <2>2. Sep[8] - 1 # Sep[8]
      BY <1>2
    <2>3. QED
      BY <1>3, <2>1, <2>2 DEF IsTab, IsNewline
  <1>5. b # Sep[8] /\ ~(b < Sep[8] - 1)
    <2>1. b # Sep[8]
      BY <1>1, <1>2, <1>4
    <2>2. b < Sep[8] - 1 => Sep[8] - 1 \in (b + 1)..Len(LineOf(t))
      BY <1>2
    <2>3. QED
      BY <1>1, <1>4, <2>1, <2>2
  <1>6. b = Sep[8] - 1
    BY <1>1, <1>2, <1>5
  <1>7. QED
    BY <1>1, <1>6 DEF Whole

LEMMA WholeFacts ==
  ASSUME NEW t \in Test
  PROVE  /\ Whole(t) \in Seq(Byte) /\ Len(Whole(t)) = Sep[8] - 1
         /\ \A i \in 1..(Sep[8] - 1) : Whole(t)[i] = <<t, i>>
  <1>1. /\ LineOf(t) \in Seq(Byte) /\ Len(LineOf(t)) = Sep[8] /\ Sep[8] \in Nat /\ 1 < Sep[8]
        /\ 1 \in 1..(Len(LineOf(t)) + 1) /\ Sep[8] - 1 \in 0..Len(LineOf(t))
        /\ (Sep[8] - 1) - 1 + 1 = Sep[8] - 1 /\ \A i \in 1..(Sep[8] - 1) : 1 + i - 1 = i /\ i \in 1..Sep[8]
    BY LineFacts, Ends
  <1>2. /\ Whole(t) \in Seq(Byte) /\ Len(Whole(t)) = Sep[8] - 1
        /\ \A i \in 1..(Sep[8] - 1) : Whole(t)[i] = LineOf(t)[1 + i - 1]
    BY <1>1, Piece DEF Whole
  <1>3. QED
    BY <1>1, <1>2, LineFacts

\* The one line with a marker in a whole line is all of it but the newline.
LEMMA WholeMarked ==
  ASSUME NEW t \in Test
  PROVE  Marked(Whole(t)) = {<<1, Sep[8] - 1>>} /\ First(Whole(t)) = <<1, Sep[8] - 1>>
  <1> DEFINE c == Whole(t)
             e == Sep[8] - 1
  <1>1. Len(c) = e /\ e \in Nat /\ \A i \in 1..e : c[i] = <<t, i>>
    BY WholeFacts, Ends
  <1>2. \A i \in 1..e : ~IsNewline(c[i])
    <2> TAKE i \in 1..e
    <2>1. c[i][2] = i /\ i # Sep[8]
      BY <1>1, Ends
    <2>2. QED
      BY <2>1 DEF IsNewline
  <1>3. HasMarker(c, 1, e)
    <2>1. Sep[4] + 1 \in 1..(e + 1 - Marker)
      BY SepFacts
    <2>2. \A i \in 1..Marker : (Sep[4] + 1) + i - 1 = Sep[4] + i /\ Sep[4] + i \in 1..e
      BY SepFacts
    <2>3. MarkerAt(c, Sep[4] + 1)
      BY <1>1, <2>2 DEF MarkerAt
    <2>4. QED
      BY <2>1, <2>3 DEF HasMarker
  <1>4. 1 \in 1..e /\ e \in 1..e /\ 1 <= e
    BY SepFacts
  <1> HIDE DEF c, e
  <1>5. Stretch(c, 1, e)
    BY <1>1, <1>2 DEF Stretch
  <1>6. ASSUME NEW a \in 1..e, NEW b \in 1..e, a <= b, Stretch(c, a, b)
        PROVE  a = 1 /\ b = e
    <2>1. a # 1 => a - 1 \in 1..e
      BY <1>1
    <2>2. b # e => b + 1 \in 1..e
      BY <1>1
    <2>3. QED
      BY <1>1, <1>2, <1>6, <2>1, <2>2 DEF Stretch
  <1>7. Marked(c) = {<<1, e>>}
    <2>1. <<1, e>> \in Marked(c)
      BY <1>1, <1>3, <1>4, <1>5 DEF Marked
    <2>2. \A s \in Marked(c) : s = <<1, e>>
      BY <1>1, <1>6 DEF Marked
    <2>3. QED
      BY <2>1, <2>2
  <1>8. First(c) = <<1, e>>
    BY <1>7 DEF First
  <1>9. QED
    BY <1>7, <1>8 DEF c, e

\* What was collected of a line ends past its marker, and before its newline.
LEMMA FromFacts ==
  ASSUME TypeOK, LineInv, NEW t \in 0..(Len(lines) + 1)
  PROVE  From(t) \in Nat /\ Past <= From(t) /\ From(t) <= Sep[8]
  <1>1. Past \in Nat /\ Sep[8] \in Nat /\ Past < Sep[8] - 1 /\ Len(lines) \in Nat /\ DOMAIN lines = 1..Len(lines)
    BY SepFacts, LenProperties DEF TypeOK
  <1>2. CASE t <= 1
    BY <1>1, <1>2 DEF From
  <1>3. CASE ~(t <= 1)
    <2> DEFINE l == lines[t - 1]
    <2>1. t - 1 \in DOMAIN lines /\ From(t) = l[Len(l)][2]
      BY <1>1, <1>3 DEF From, Reached
    <2>2. l \in Seq(Byte) /\ Len(l) \in Nat
      BY <1>1, <2>1, ElementOfSeq, LenProperties DEF TypeOK
    <2>3. PICK o \in (Past - Len(l))..Sep[4] :
            o + Len(l) < Sep[8] /\ \E g \in From(t - 1)..Sep[8] : Mixed(l, t - 1, g, o)
      BY <2>1 DEF LineInv
    <2>4. PICK g : Mixed(l, t - 1, g, o)
      BY <2>3
    <2> HIDE DEF l
    <2>5. o \in Int /\ Past <= o + Len(l) /\ 0 < o + Len(l) /\ Len(l) \in 1..Len(l)
      <3>1. Past \in Nat /\ Sep[4] \in Nat /\ Sep[4] < Past
        BY SepFacts
      <3>2. o \in Int /\ Past - Len(l) <= o /\ o <= Sep[4]
        BY <1>1, <2>2, <2>3, <3>1
      <3>3. QED
        BY <2>2, <3>1, <3>2
    <2>6. l[Len(l)] = <<t - 1, o + Len(l)>>
      BY <2>4, <2>5 DEF Mixed
    <2>7. From(t) = o + Len(l)
      BY <2>1, <2>6
    <2>8. QED
      BY <1>1, <2>2, <2>3, <2>5, <2>7
  <1>4. QED
    BY <1>2, <1>3

LEMMA InitIInv == Init => IInv
  <1> SUFFICES ASSUME Init PROVE IInv
    OBVIOUS
  <1> USE DEF Init, Setup
  <1>0. \A S : <<>> \in Seq(S) /\ Len(<<>>) = 0 /\ DOMAIN <<>> = {}
    BY EmptySeq
  <1>1. TypeOK
    BY <1>0, Tests DEF TypeOK
  <1>2. ComingInv
    <2>1. Coming = <<>>
      BY <1>0, ConcatEmptySeq DEF Coming
    <2>2. QED
      BY <2>1 DEF ComingInv
  <1>3. LineInv /\ WholeInv
    BY <1>0 DEF LineInv, WholeInv
  <1>4. CountInv
    BY <1>0, Tests DEF CountInv
  <1>5. QED
    BY <1>1, <1>2, <1>3, <1>4 DEF IInv

\* Neither the lines nor the parts of the invariant about them change.
LEMMA LinesKept ==
  ASSUME LineInv, lines' = lines, built \subseteq built'
  PROVE  LineInv' /\ \A t : From(t)' = From(t)
  <1>1. \A t : From(t)' = From(t)
    BY DEF From, Reached
  <1>2. QED
    BY <1>1 DEF LineInv

\* A step of the set-up, up to the build, that leaves board and lines alone.
LEMMA SetupStep ==
  ASSUME IInv, pc \in Setup, pc' \in Setup \cup {"launch", "die", "crash"},
         tree' \in [objects : BOOLEAN, build : BOOLEAN, work : BOOLEAN],
         built' \subseteq Test, UNCHANGED <<wholeLines, board, pending, lines, output>>
  PROVE  IInv'
  <1> USE DEF board
  <1>1. TypeOK'
    BY DEF IInv, TypeOK, Setup, Sweeping, Ended
  <1>2. ComingInv'
    <2>1. Coming = <<>> /\ Coming' = Coming /\ running' = running /\ running = 0 /\ Len(<<>>) = 0
      BY EmptySeq DEF IInv, ComingInv, Coming, CountInv
    <2>2. pc' \notin {"look", "fetch"}
      BY DEF Setup
    <2>3. QED
      BY <2>1, <2>2 DEF ComingInv
  <1>3. LineInv'
    BY EmptySeq DEF IInv, CountInv, LineInv
  <1>4. CountInv'
    BY EmptySeq, Tests DEF IInv, CountInv, Setup
  <1>5. WholeInv'
    BY DEF IInv, WholeInv, Setup
  <1>6. QED
    BY <1>1, <1>2, <1>3, <1>4, <1>5 DEF IInv

\* Launching a test: what is left of the line before, and its own line follows.
LEMMA LaunchStep == IInv /\ Launch => IInv'
  <1> SUFFICES ASSUME IInv, Launch PROVE IInv'
    OBVIOUS
  <1>0. /\ pc = "launch" /\ pc' = "look" /\ running' = running + 1
        /\ toPrint' = IF running' \in built THEN LineOf(running') ELSE <<>>
        /\ UNCHANGED <<wholeLines, tree, built, wire, pending, lines, output>>
    BY DEF Launch
  <1>1. running' \in Test /\ running' = Len(lines) + 1 /\ running \in Nat
    BY <1>0, LenProperties, Tests DEF IInv, TypeOK, CountInv
  <1>2. toPrint' \in Seq(Byte)
    BY <1>0, <1>1, EmptySeq, LineFacts
  <1>3. TypeOK'
    BY <1>0, <1>1, <1>2, Tests DEF IInv, TypeOK, Sweeping
  <1>4. LineInv' /\ \A t : From(t)' = From(t)
    BY <1>0, LinesKept DEF IInv
  <1>5. ComingInv'
    <2> DEFINE u == Len(wire)
               g == IF running = 0 THEN Past ELSE Sep[8] - Len(Coming)
    <2>1. /\ wire \in Seq(Byte) /\ toPrint \in Seq(Byte) /\ u \in Nat /\ Len(Coming) \in Nat
          /\ u <= Len(Coming) /\ \A j \in 1..u : wire[j] = Coming[j]
      BY Concatenation DEF IInv, TypeOK, Coming
    <2>2. /\ Len(Coming) <= IF running = 0 THEN 0 ELSE Sep[8] - From(running + 1)
          /\ \A j \in 1..Len(Coming) : Coming[j] = <<running, Sep[8] - Len(Coming) + j>>
      BY <1>0 DEF IInv, ComingInv
    <2>3. From(running') \in Nat /\ Past <= From(running') /\ From(running') <= Sep[8] /\ Sep[8] \in Nat /\ Past \in Nat
      <3>1. running' \in 0..(Len(lines) + 1)
        BY <1>1, Tests
      <3>2. QED
        BY <3>1, FromFacts, SepFacts DEF IInv
    <2>4. g \in From(running')..Sep[8]
      <3>1. CASE running = 0
        BY <1>0, <2>3, <3>1 DEF From
      <3>2. CASE running # 0
        BY <1>0, <2>1, <2>2, <2>3, <3>2
      <3>3. QED
        BY <3>1, <3>2
    <2>5. \A j \in 1..u : running # 0 /\ wire[j] = <<running, g + j>>
      BY <2>1, <2>2, <2>3
    <2> HIDE DEF g
    <2>6. /\ Len(Coming') = u + Len(toPrint')
          /\ \A j \in 1..u : Coming'[j] = wire[j]
          /\ \A j \in (u + 1)..(u + Len(toPrint')) : Coming'[j] = toPrint'[j - u]
      <3>1. Coming' = wire \o toPrint'
        BY <1>0 DEF Coming
      <3>2. QED
        BY <1>2, <2>1, <3>1, Concatenation
    <2>7. Len(toPrint') = IF running' \in built THEN Sep[8] ELSE 0
      BY <1>0, <1>1, LineFacts, EmptySeq
    <2>8. \A j \in (u + 1)..(u + Len(toPrint')) : toPrint'[j - u] = <<running', j - u>>
      <3>1. CASE running' \in built
        <4>1. toPrint' = LineOf(running')
          BY <1>0, <3>1
        <4>2. \A j \in (u + 1)..(u + Len(toPrint')) : j - u \in 1..Sep[8]
          BY <2>1, <2>3, <2>7, <3>1
        <4>3. QED
          BY <1>1, <4>1, <4>2, LineFacts
      <3>2. CASE running' \notin built
        BY <2>1, <2>7, <3>2
      <3>3. QED
        BY <3>1, <3>2
    <2>9. Mixed(Coming', running', g, 0 - u)
      <3>1. SUFFICES ASSUME NEW j \in 1..Len(Coming')
                     PROVE  Coming'[j] = IF (0 - u) + j > 0 THEN <<running', (0 - u) + j>>
                                                            ELSE <<running' - 1, g + j>>
        BY DEF Mixed
      <3>2. CASE j <= u
        <4>1. j \in 1..u /\ ~((0 - u) + j > 0) /\ running' - 1 = running
          BY <1>0, <1>1, <2>1, <3>2
        <4>2. QED
          BY <2>5, <2>6, <4>1
      <3>3. CASE ~(j <= u)
        <4>1. j \in (u + 1)..(u + Len(toPrint')) /\ (0 - u) + j > 0 /\ (0 - u) + j = j - u
          <5>1. Len(toPrint') \in Nat
            BY <1>2, LenProperties
          <5>2. QED
            BY <2>1, <2>6, <3>3, <5>1
        <4>2. QED
          BY <2>6, <2>8, <4>1
      <3>4. QED
        BY <3>2, <3>3
    <2>10. (IF running' \in built' THEN Sep[8] ELSE 0) - Len(Coming') = 0 - u
      BY <1>0, <2>1, <2>3, <2>6, <2>7
    <2>11. QED
      <3>1. From(running)' = From(running')
        BY <1>0 DEF From, Reached
      <3>2. Setup' = Setup /\ pc' \notin Setup
        BY <1>0 DEF Setup
      <3>3. QED
        BY <1>0, <2>4, <2>9, <2>10, <3>1, <3>2 DEF ComingInv
  <1>6. CountInv'
    BY <1>0, <1>1 DEF IInv, CountInv, Setup
  <1>7. WholeInv'
    BY <1>0 DEF IInv, WholeInv, Setup
  <1>8. QED
    BY <1>3, <1>4, <1>5, <1>6, <1>7 DEF IInv

LEMMA LookStep == IInv /\ Look => IInv'
  <1> SUFFICES ASSUME IInv, Look PROVE IInv'
    OBVIOUS
  <1> USE DEF Look, board
  <1>1. TypeOK'
    BY LenProperties DEF IInv, TypeOK, Sweeping
  <1>2. LineInv' /\ \A t : From(t)' = From(t)
    BY LinesKept DEF IInv
  <1>3. ComingInv'
    <2>1. Coming' = Coming /\ running' = running /\ built' = built /\ pc' = "fetch" /\ pc = "look"
      BY DEF Coming
    <2>2. From(running)' = From(running)
      BY <1>2
    <2>3. QED
      BY <2>1, <2>2 DEF IInv, ComingInv, Setup
  <1>4. CountInv'
    BY DEF IInv, CountInv, Setup
  <1>5. WholeInv'
    BY DEF IInv, WholeInv, Setup
  <1>6. QED
    BY <1>1, <1>2, <1>3, <1>4, <1>5 DEF IInv

\* What is pending of the UART, and what is left, are pieces of what is to come.
LEMMA ReadFacts ==
  ASSUME TypeOK, wire' = SubSeq(wire, pending + 1, Len(wire)), toPrint' = toPrint
  PROVE  /\ SubSeq(wire, 1, pending) \in Seq(Byte) /\ Len(SubSeq(wire, 1, pending)) = pending
         /\ \A j \in 1..pending : SubSeq(wire, 1, pending)[j] = Coming[j]
         /\ pending \in Nat /\ Coming \in Seq(Byte) /\ pending + Len(Coming') = Len(Coming)
         /\ Len(Coming) \in Nat /\ Len(Coming') \in Nat
         /\ wire' \in Seq(Byte) /\ Coming' \in Seq(Byte)
         /\ \A j \in 1..Len(Coming') : Coming'[j] = Coming[pending + j]
  <1> DEFINE c == SubSeq(wire, 1, pending)
  <1>1. /\ wire \in Seq(Byte) /\ toPrint \in Seq(Byte)
        /\ Len(wire) \in Nat /\ pending \in 0..Len(wire) /\ pending \in Nat
    BY LenProperties DEF TypeOK
  <1>2. /\ c \in Seq(Byte) /\ Len(c) = pending
        /\ \A j \in 1..pending : c[j] = wire[j]
    <2>1. 1 \in 1..(Len(wire) + 1) /\ pending - 1 + 1 = pending /\ \A j \in 1..pending : 1 + j - 1 = j
      BY <1>1
    <2>2. QED
      BY <1>1, <2>1, Piece
  <1>3. /\ wire' \in Seq(Byte) /\ Len(wire') = Len(wire) - pending
        /\ \A j \in 1..(Len(wire) - pending) : wire'[j] = wire[j + pending]
    <2>1. pending + 1 \in 1..(Len(wire) + 1) /\ Len(wire) \in 0..Len(wire)
      BY <1>1
    <2>2. QED
      BY <1>1, <2>1, Piece
  <1>4. /\ Len(Coming) = Len(wire) + Len(toPrint) /\ Coming \in Seq(Byte) /\ Len(toPrint) \in Nat
        /\ \A j \in 1..Len(wire) : Coming[j] = wire[j]
        /\ \A j \in (Len(wire) + 1)..(Len(wire) + Len(toPrint)) : Coming[j] = toPrint[j - Len(wire)]
    BY <1>1, Concatenation DEF Coming
  <1>5. Coming' = wire' \o toPrint
    BY DEF Coming
  <1> HIDE DEF c
  <1>6. /\ Len(Coming') = Len(wire') + Len(toPrint) /\ Coming' \in Seq(Byte)
        /\ \A j \in 1..Len(wire') : Coming'[j] = wire'[j]
        /\ \A j \in (Len(wire') + 1)..(Len(wire') + Len(toPrint)) : Coming'[j] = toPrint[j - Len(wire')]
    BY <1>1, <1>3, <1>5, Concatenation
  <1>7. ASSUME NEW j \in 1..Len(Coming') PROVE Coming'[j] = Coming[pending + j]
    <2>1. CASE j <= Len(wire')
      <3>1. j \in 1..Len(wire') /\ pending + j \in 1..Len(wire) /\ j + pending = pending + j
        BY <1>1, <1>3, <2>1
      <3>2. QED
        BY <1>3, <1>4, <1>6, <3>1, ZenonT(30)
    <2>2. CASE j > Len(wire')
      <3>1. /\ Len(wire) \in Nat /\ Len(toPrint) \in Nat /\ pending \in 0..Len(wire)
            /\ Len(wire') = Len(wire) - pending /\ Len(Coming') = Len(wire') + Len(toPrint)
        BY <1>1, <1>3, <1>4, <1>6
      <3>2. /\ pending + j \in (Len(wire) + 1)..(Len(wire) + Len(toPrint))
            /\ (pending + j) - Len(wire) = j - Len(wire')
            /\ j \in (Len(wire') + 1)..(Len(wire') + Len(toPrint))
        <4>1. j \in Nat /\ j <= Len(wire') + Len(toPrint) /\ Len(wire') \in Nat /\ Len(wire') + 1 <= j
          BY <2>2, <3>1
        <4>2. j \in (Len(wire') + 1)..(Len(wire') + Len(toPrint))
          BY <3>1, <4>1
        <4>3. (pending + j) - Len(wire) = j - Len(wire')
          <5>1. Len(wire') \in Int /\ Len(wire) \in Int /\ pending \in Int /\ j \in Int /\ Len(wire') = Len(wire) - pending
            BY <3>1, <4>1
          <5>2. QED
            BY ONLY <5>1, Difference
        <4>4. pending + j >= Len(wire) + 1 /\ pending + j <= Len(wire) + Len(toPrint)
          BY <3>1, <4>1
        <4>5. pending + j \in (Len(wire) + 1)..(Len(wire) + Len(toPrint))
          BY <3>1, <4>1, <4>4
        <4>6. QED
          BY ONLY <4>2, <4>3, <4>5
      <3>3. /\ Coming[pending + j] = toPrint[(pending + j) - Len(wire)]
            /\ Coming'[j] = toPrint[j - Len(wire')]
        BY <1>4, <1>6, <3>2
      <3>4. QED
        BY <3>2, <3>3
    <2>3. QED
      BY <1>1, <1>3, <2>1, <2>2
  <1>8. \A j \in 1..pending : c[j] = Coming[j]
    <2>1. \A j \in 1..pending : j \in 1..Len(wire)
      BY <1>1
    <2>2. QED
      BY <1>2, <1>4, <2>1
  <1>9. pending + Len(Coming') = Len(Coming) /\ Len(Coming) \in Nat /\ Len(Coming') \in Nat
    BY <1>1, <1>3, <1>4, <1>6
  <1>10. QED
    BY <1>1, <1>2, <1>3, <1>4, <1>6, <1>7, <1>8, <1>9 DEF c

\* Reading what was pending: either it holds no marker and is dropped, or the line
\* with the running test's marker is taken, and what is left is past it.
LEMMA FetchStep == IInv /\ Fetch => IInv'
  <1> SUFFICES ASSUME IInv, Fetch PROVE IInv'
    OBVIOUS
  <1> DEFINE w == SubSeq(wire, 1, pending)
             c == Stripped(w)
             o == (IF running \in built THEN Sep[8] ELSE 0) - Len(Coming)
  <1>0. /\ pc = "fetch" /\ pending' = 0
        /\ wire' = SubSeq(wire, pending + 1, Len(wire))
        /\ UNCHANGED <<wholeLines, tree, built, running, toPrint, output>>
        /\ IF Marked(c) = {}
           THEN pc' = "look" /\ lines' = lines
           ELSE /\ lines' = Append(lines, SubSeq(c, First(c)[1], First(c)[2]))
                /\ pc' = IF Len(lines') = N THEN "format" ELSE "launch"
    BY DEF Fetch
  <1>1. /\ w \in Seq(Byte) /\ Len(w) = pending /\ \A j \in 1..pending : w[j] = Coming[j]
        /\ pending \in Nat /\ Coming \in Seq(Byte) /\ pending + Len(Coming') = Len(Coming)
        /\ Len(Coming) \in Nat /\ Len(Coming') \in Nat /\ wire' \in Seq(Byte) /\ Coming' \in Seq(Byte)
        /\ \A j \in 1..Len(Coming') : Coming'[j] = Coming[pending + j]
    BY <1>0, ReadFacts DEF IInv
  <1>a. /\ pending \in Nat /\ Len(Coming) \in Nat /\ Len(Coming') \in Nat
        /\ pending + Len(Coming') = Len(Coming) /\ pending + Len(Coming') <= Len(Coming)
    BY <1>1
  <1>b. Sep[4] \in Nat /\ Sep[8] \in Nat /\ Past \in Nat /\ Marker \in Nat /\ 1 <= Marker /\ Past = Sep[4] + Marker
    BY SepFacts
  <1>2. /\ running \in Test /\ running = Len(lines) + 1 /\ lines \in Seq(Seq(Byte)) /\ output = <<>>
        /\ Len(lines) \in Nat /\ DOMAIN lines = 1..Len(lines) /\ running \in Nat
    BY <1>0, LenProperties, Tests DEF IInv, TypeOK, CountInv
  <1>3. From(running) \in Nat /\ Past <= From(running) /\ From(running) <= Sep[8]
    <2>1. running \in 0..(Len(lines) + 1)
      BY <1>2
    <2>2. QED
      BY <2>1, FromFacts DEF IInv
  <1> HIDE DEF w
  <1>4. c \in Seq(Byte) /\ Len(c) \in 0..pending /\ \A j \in 1..Len(c) : c[j] = Coming[j]
    <2>1. PICK b \in 0..pending : c = SubSeq(w, 1, b)
      BY <1>1, StrippedFacts
    <2>2. 1 \in 1..(Len(w) + 1) /\ b \in 0..Len(w) /\ b - 1 + 1 = b /\ \A j \in 1..b : 1 + j - 1 = j /\ j \in 1..pending
      BY <1>1, <2>1
    <2>3. /\ c \in Seq(Byte) /\ Len(c) = (IF 1 <= b THEN b - 1 + 1 ELSE 0)
          /\ \A j \in 1..(b - 1 + 1) : c[j] = w[1 + j - 1]
      BY <1>1, <2>1, <2>2, Piece
    <2>4. Len(c) = b
      BY <2>1, <2>2, <2>3
    <2>5. QED
      BY <1>1, <2>1, <2>2, <2>3, <2>4
  <1>5. /\ o \in Int /\ Sep[8] \in Nat
        /\ \E g \in From(running)..Sep[8] : Mixed(Coming, running, g, o)
    BY <1>0, <1>1, Ends DEF IInv, ComingInv
  <1>6. PICK g \in From(running)..Sep[8] : Mixed(Coming, running, g, o)
    BY <1>5
  <1>7. o = (IF running \in built THEN Sep[8] ELSE 0) - Len(Coming)
    OBVIOUS
  <1> HIDE DEF c, o
  <1>8. CASE Marked(c) = {}
    <2>1. pc' = "look" /\ lines' = lines
      BY <1>0, <1>8
    <2>2. TypeOK'
      BY <1>0, <1>1, <2>1, LenProperties DEF IInv, TypeOK, Sweeping
    <2>3. LineInv' /\ \A t : From(t)' = From(t)
      BY <1>0, <2>1, LinesKept DEF IInv
    <2>4. ComingInv'
      <3>1. PICK e \in From(running)..Sep[8] : Mixed(Coming', running, e, o + pending)
        BY <1>1, <1>a, <1>3, <1>5, <1>6, MixedPiece
      <3>2. o + pending = (IF running \in built THEN Sep[8] ELSE 0) - Len(Coming')
        BY <1>1, <1>5, <1>7
      <3>3. pc' \notin Setup /\ running' = running /\ built' = built /\ From(running)' = From(running)
        BY <1>0, <2>1, <2>3 DEF Setup
      <3>4. QED
        BY <2>1, <3>1, <3>2, <3>3 DEF ComingInv
    <2>5. CountInv'
      BY <1>0, <2>1 DEF IInv, CountInv, Setup
    <2>6. WholeInv'
      <3>1. SUFFICES ASSUME wholeLines PROVE FALSE
        BY <1>0 DEF WholeInv
      <3>2. wire = LineOf(running) /\ pending = Len(wire)
        BY <1>0, <3>1 DEF IInv, WholeInv
      <3>3. c = Whole(running)
        <4>1. w = LineOf(running)
          BY <1>2, <3>2, LineFacts, SubSeqFull DEF w
        <4>2. QED
          BY <1>2, <4>1, StrippedWhole DEF c
      <3>4. QED
        BY <1>2, <1>8, <3>3, WholeMarked
    <2>7. QED
      BY <2>2, <2>3, <2>4, <2>5, <2>6 DEF IInv
  <1>9. CASE Marked(c) # {}
    <2> DEFINE a == First(c)[1]
               b == First(c)[2]
               l == SubSeq(c, a, b)
               f == o + (a - 1)
    <2>1. /\ lines' = Append(lines, l) /\ pending' = 0
          /\ pc' = IF Len(lines') = N THEN "format" ELSE "launch"
          /\ UNCHANGED <<wholeLines, tree, built, running, toPrint, output>>
      BY <1>0, <1>9
    <2>2. \A k \in 1..Len(c) : k + Marker - 1 <= Len(c) /\ MarkerAt(c, k) => o + k = Sep[4] + 1
      <3>1. PICK e \in From(running)..Sep[8] : Mixed(c, running, e, o + 0)
        <4>1. 0 + Len(c) <= Len(Coming) /\ \A j \in 1..Len(c) : c[j] = Coming[0 + j]
          BY <1>1, <1>4
        <4>2. QED
          BY <1>1, <1>3, <1>4, <1>5, <1>6, <4>1, MixedPiece
      <3>2. o + 0 = o /\ e \in Nat /\ Past <= e /\ Len(c) \in Nat
        BY <1>a, <1>b, <1>3, <1>4, <1>5, SMTT(30)
      <3>3. Mixed(c, running, e, o)
        BY <3>1, <3>2
      <3> TAKE k \in 1..Len(c)
      <3>4. k \in Int /\ 1 <= k
        BY <3>2
      <3>5. QED
        BY <1>5, <3>2, <3>3, <3>4, MarkerIn
    <2>3. /\ a \in 1..Len(c) /\ b \in 1..Len(c) /\ a <= b
          /\ Stretch(c, a, b) /\ HasMarker(c, a, b)
      <3>1. First(c) \in Marked(c)
        <4>1. Len(c) \in Nat
          BY <1>1, <1>4
        <4>2. \A j, k \in 1..Len(c) :
                (/\ j + Marker - 1 <= Len(c) /\ MarkerAt(c, j)
                 /\ k + Marker - 1 <= Len(c) /\ MarkerAt(c, k)) => j = k
          <5> TAKE j, k \in 1..Len(c)
          <5>1. o + j = o + k => j = k
            BY <1>5, <4>1
          <5>2. SUFFICES ASSUME j + Marker - 1 <= Len(c), MarkerAt(c, j),
                                k + Marker - 1 <= Len(c), MarkerAt(c, k)
                         PROVE  j = k
            OBVIOUS
          <5>3. o + j = Sep[4] + 1
            BY <2>2, <5>2
          <5>4. o + k = Sep[4] + 1
            BY <2>2, <5>2
          <5>5. QED
            BY <5>1, <5>3, <5>4
        <4>3. QED
          BY <1>9, <4>1, <4>2, FirstMarked
      <3>2. QED
        BY <3>1 DEF Marked
    <2> HIDE DEF a, b
    <2>4. /\ l \in Seq(Byte) /\ Len(l) = b - a + 1
          /\ \A j \in 1..Len(l) : l[j] = Coming[(a - 1) + j]
          /\ Len(l) \in Nat /\ a - 1 \in Nat /\ (a - 1) + Len(l) = b /\ b <= pending
      <3>1. a \in 1..(Len(c) + 1) /\ b \in 0..Len(c)
        BY <1>1, <1>4, <2>3
      <3>2. /\ l \in Seq(Byte) /\ Len(l) = b - a + 1
            /\ \A j \in 1..(b - a + 1) : l[j] = c[a + j - 1]
        BY <1>4, <2>3, <3>1, Piece
      <3>3. \A j \in 1..(b - a + 1) : a + j - 1 = (a - 1) + j /\ (a - 1) + j \in 1..Len(c)
        BY <1>1, <1>4, <2>3
      <3>4. Len(l) \in Nat /\ a - 1 \in Nat /\ (a - 1) + Len(l) = b /\ b <= pending
        BY <1>1, <1>4, <2>3, <3>2
      <3>5. QED
        BY <1>4, <3>2, <3>3, <3>4
    <2> HIDE DEF l
    <2>5. PICK k \in a..(b + 1 - Marker) : o + k = Sep[4] + 1
      <3>1. PICK k \in a..(b + 1 - Marker) : MarkerAt(c, k)
        BY <2>3 DEF HasMarker
      <3>2. k \in 1..Len(c) /\ k + Marker - 1 <= Len(c)
        <4>1. Len(c) \in Nat /\ a \in 1..Len(c) /\ b \in 1..Len(c)
          BY <1>a, <1>4, <2>3
        <4>2. QED
          BY <1>b, <3>1, <4>1
      <3>3. QED
        BY <2>2, <3>1, <3>2
    <2>6. f \in Int /\ f + Len(l) = o + b /\ f <= Sep[4] /\ Past <= f + Len(l)
      <3>1. a \in Int /\ b \in Int /\ k \in Int /\ a <= k /\ k <= b + 1 - Marker
        BY <1>1, <1>4, <2>3, <2>5, SepFacts
      <3>2. o \in Int /\ o + k = Sep[4] + 1 /\ Len(l) = b - a + 1 /\ f = o + (a - 1)
        BY <1>5, <2>4, <2>5
      <3> HIDE DEF f
      <3>3. QED
        BY <1>b, <3>1, <3>2
    <2>7. running \in built
      <3>1. SUFFICES ASSUME running \notin built PROVE FALSE
        OBVIOUS
      <3>2. o = 0 - Len(Coming)
        BY <1>7, <3>1
      <3>3. k <= Len(Coming) /\ k \in Int
        <4>1. a \in Int /\ b \in Int /\ k <= b + 1 - Marker /\ k \in Int
          BY <1>1, <1>4, <2>3, <2>5, SepFacts
        <4>2. QED
          BY <1>1, <2>4, <4>1, SepFacts
      <3>4. QED
        BY <1>1, <2>5, <3>2, <3>3, SepFacts
    <2>8. o = Sep[8] - Len(Coming)
      BY <1>7, <2>7
    <2>9. f + Len(l) < Sep[8]
      <3>1. SUFFICES ASSUME Sep[8] <= o + b PROVE FALSE
        BY <1>1, <1>4, <1>5, <2>3, <2>6, SMTT(30)
      <3>2. Sep[8] - o \in a..b /\ Sep[8] - o \in 1..Len(Coming) /\ Sep[8] - o \in 1..Len(c)
        <4>1. a \in Int /\ b \in Int /\ a <= k /\ k \in Int /\ 1 <= a /\ b <= Len(c) /\ Len(c) \in Nat /\ Len(c) <= pending
          BY <1>1, <1>4, <2>3, <2>5, SepFacts
        <4>2. a <= Sep[8] - o
          BY <1>5, <2>5, <4>1, SepFacts, SMTT(30)
        <4>3. Sep[8] - o <= b
          BY <1>5, <3>1, <4>1
        <4>4. QED
          BY <1>1, <1>5, <4>1, <4>2, <4>3, SMTT(30)
      <3>3. Coming[Sep[8] - o] = <<running, Sep[8]>>
        <4>1. o + (Sep[8] - o) = Sep[8] /\ o + (Sep[8] - o) > 0
          BY <1>5, Ends
        <4>2. QED
          BY <1>6, <3>2, <4>1 DEF Mixed
      <3>4. IsNewline(c[Sep[8] - o])
        BY <1>4, <3>2, <3>3 DEF IsNewline
      <3>5. QED
        BY <2>3, <3>2, <3>4 DEF Stretch
    <2>10. PICK e \in From(running)..Sep[8] : Mixed(l, running, e, f)
      <3>1. (a - 1) + Len(l) <= Len(Coming)
        BY <1>1, <2>4
      <3>2. QED
        BY <1>1, <1>3, <1>5, <1>6, <2>4, <3>1, MixedPiece
    <2>11. /\ lines' \in Seq(Seq(Byte)) /\ Len(lines') = running /\ DOMAIN lines' = 1..running
           /\ lines'[running] = l /\ \A j \in 1..Len(lines) : lines'[j] = lines[j]
      BY <1>2, <2>1, <2>4, AppendProperties, LenProperties
    <2>12. \A t \in 1..running : From(t)' = From(t)
      <3> TAKE t \in 1..running
      <3>1. t <= 1 \/ t - 1 \in 1..Len(lines)
        BY <1>2
      <3>2. t <= 1 \/ lines'[t - 1] = lines[t - 1]
        BY <2>11, <3>1
      <3>3. QED
        BY <3>2 DEF From, Reached
    <2>13. TypeOK'
      <3>1. running <= N /\ Len(lines') \in 0..N
        BY <1>2, <2>11, Tests
      <3>2. pending' \in 0..Len(wire')
        BY <1>1, <2>1, LenProperties
      <3>3. QED
        BY <1>1, <2>1, <2>11, <3>1, <3>2 DEF IInv, TypeOK, Sweeping
    <2>14. ComingInv'
      <3>1. /\ f + Len(l) = o + b /\ o + pending = Sep[8] - Len(Coming') /\ b \in Int /\ o \in Int
            /\ b <= pending /\ Past <= o + b
        <4>1. b \in Int /\ b <= pending
          BY <1>a, <1>4, <2>3, <2>4
        <4>2. f + Len(l) = o + b /\ Past <= f + Len(l) /\ o \in Int
          BY <1>5, <2>6
        <4>3. o + pending = Sep[8] - Len(Coming')
          <5>1. /\ Sep[8] \in Int /\ pending \in Int /\ Len(Coming') \in Int /\ Len(Coming) \in Int
                /\ pending + Len(Coming') = Len(Coming)
            BY <1>a, <1>b
          <5>2. (Sep[8] - Len(Coming)) + pending = Sep[8] - Len(Coming')
            BY ONLY <5>1, Sum3
          <5>3. QED
            BY ONLY <2>8, <5>2
        <4> HIDE DEF f
        <4>4. QED
          BY <4>1, <4>2, <4>3
      <3>2. From(running + 1)' = o + b
        <4>1. running \in 1..N /\ running' = running /\ ~(running + 1 <= 1) /\ (running + 1) - 1 = running
          BY <1>2, <2>1, Tests
        <4>2. From(running + 1)' = l[Len(l)][2]
          <5>1. From(running + 1)' = IF running' + 1 <= 1 THEN Past ELSE Reached(running)'
            BY <4>1 DEF From, Reached
          <5>2. Reached(running)' = lines'[running'][Len(lines'[running'])][2]
            BY DEF Reached
          <5>3. QED
            BY <2>11, <4>1, <5>1, <5>2
        <4>3. Len(l) \in 1..Len(l) /\ f + Len(l) > 0
          <5>1. Len(l) >= 1 /\ Len(l) \in Nat
            BY <1>a, <1>4, <2>3, <2>4
          <5>2. o + b > 0
            BY <1>b, <3>1
          <5>3. QED
            BY <2>6, <5>1, <5>2
        <4>4. l[Len(l)] = <<running, f + Len(l)>>
          BY <2>10, <4>3 DEF Mixed
        <4>5. QED
          BY <2>6, <4>2, <4>4
      <3>3. Len(Coming') <= Sep[8] - From(running + 1)'
        BY <1>a, <1>b, <3>1, <3>2
      <3>4. \A j \in 1..Len(Coming') : Coming'[j] = <<running, Sep[8] - Len(Coming') + j>>
        <4> TAKE j \in 1..Len(Coming')
        <4>1. pending + j \in 1..Len(Coming) /\ o + (pending + j) = Sep[8] - Len(Coming') + j
          BY <1>a, <1>b, <3>1, SMTT(30)
        <4>2. o + (pending + j) > 0
          BY <1>a, <1>b, <3>1
        <4>3. Coming[pending + j] = <<running, o + (pending + j)>>
          BY <1>6, <4>1, <4>2 DEF Mixed
        <4>4. QED
          BY <1>1, <4>1, <4>3
      <3>5. pc' \in {"launch", "format"} /\ running' = running /\ running # 0
        BY <1>2, <2>1, Tests
      <3>6. /\ pc' = "launch" => Len(Coming') <= IF running' = 0 THEN 0 ELSE Sep[8] - From(running + 1)'
            /\ \A j \in 1..Len(Coming') : Coming'[j] = <<running', Sep[8] - Len(Coming') + j>>
        BY <3>3, <3>4, <3>5
      <3>7. pc' \notin {"look", "fetch"} /\ pc' \notin Setup
        BY <3>5 DEF Setup
      <3>8. QED
        BY <3>6, <3>7 DEF ComingInv
    <2>15. LineInv'
      <3>1. SUFFICES ASSUME NEW i \in 1..running
                     PROVE  /\ i \in built
                            /\ \E q \in (Past - Len(lines'[i]))..Sep[4] :
                                 /\ q + Len(lines'[i]) < Sep[8]
                                 /\ \E h \in From(i)..Sep[8] : Mixed(lines'[i], i, h, q)
        BY <2>1, <2>11, <2>12 DEF LineInv
      <3>2. CASE i = running
        <4>1. f \in (Past - Len(l))..Sep[4]
          BY <2>4, <2>6, SepFacts, SMTT(30)
        <4>2. QED
          BY <2>7, <2>9, <2>10, <2>11, <3>2, <4>1
      <3>3. CASE i # running
        <4>1. i \in 1..Len(lines)
          BY <1>2, <3>3
        <4>2. QED
          BY <1>2, <2>11, <4>1 DEF IInv, LineInv
      <3>4. QED
        BY <3>2, <3>3
    <2>16. CountInv'
      <3>1. output' = <<>> /\ running' = Len(lines') /\ Len(lines') \in 1..N /\ DOMAIN <<>> = {} /\ Len(<<>>) = 0
        BY <1>2, <2>1, <2>11, Tests, EmptySeq
      <3>2. IF Len(lines') = N THEN pc' = "format" ELSE pc' = "launch" /\ Len(lines') < N
        <4>1. Len(lines') # N => Len(lines') < N
          BY <3>1, Tests
        <4>2. QED
          BY <2>1, <4>1
      <3>3. QED
        BY <3>1, <3>2, Tests DEF CountInv, Setup
    <2>17. WholeInv'
      <3>1. SUFFICES ASSUME wholeLines PROVE WholeInv'
        BY <2>1 DEF WholeInv
      <3>2. wire = LineOf(running) /\ pending = Len(wire)
        BY <1>0, <3>1 DEF IInv, WholeInv
      <3>3. toPrint = <<>>
        BY <1>0, <1>2, <3>1, <3>2, EmptySeq, LineFacts, Ends DEF IInv, WholeInv
      <3>4. wire' = <<>> /\ toPrint' = <<>>
        <4>1. wire \in Seq(Byte) /\ Len(wire) \in Nat
          BY <1>2, <3>2, LineFacts, Ends
        <4>2. wire' = <<>>
          BY <1>0, <3>2, <4>1, SubSeqEmpty
        <4>3. QED
          BY <2>1, <3>3, <4>2
      <3>5. l = Whole(running)
        <4>1. w = LineOf(running)
          BY <1>2, <3>2, LineFacts, SubSeqFull DEF w
        <4>2. c = Whole(running) /\ a = 1 /\ b = Sep[8] - 1
          BY <1>2, <4>1, StrippedWhole, WholeMarked DEF c, a, b
        <4>3. Whole(running) \in Seq(Byte) /\ Len(Whole(running)) = Sep[8] - 1
          BY <1>2, WholeFacts
        <4>4. QED
          BY <4>2, <4>3, SubSeqFull DEF l
      <3>6. ASSUME NEW i \in 1..running PROVE lines'[i] = Whole(i)
        <4>1. CASE i = running
          BY <2>11, <3>5, <4>1
        <4>2. CASE i # running
          <5>1. i \in DOMAIN lines /\ lines'[i] = lines[i]
            BY <1>2, <2>11, <4>2
          <5>2. QED
            BY <3>1, <5>1 DEF IInv, WholeInv
        <4>3. QED
          BY <4>1, <4>2
      <3>7. pc' \in {"launch", "format"}
        BY <2>1
      <3>8. QED
        BY <2>11, <3>4, <3>6, <3>7 DEF WholeInv
    <2>18. QED
      BY <2>13, <2>14, <2>15, <2>16, <2>17 DEF IInv
  <1>10. QED
    BY <1>8, <1>9


\* The separators are met in their order.
LEMMA Before ==
  ASSUME NEW a \in 1..8, NEW b \in 1..8, Sep[a] < Sep[b]
  PROVE  a < b
  <1>1. Sep[a] \in Nat /\ Sep[b] \in Nat
    BY Order
  <1>2. ASSUME b < a PROVE FALSE
    <2>1. b \in 0..(a - 1)
      BY <1>2
    <2>2. Sep[b] + 1 < Sep[a]
      BY <2>1, Order
    <2>3. QED
      BY <1>1, <2>2
  <1>3. a # b
    BY <1>1
  <1>4. QED
    BY <1>2, <1>3

LEMMA NotBefore ==
  ASSUME NEW a \in 1..8, NEW b \in 1..8, a <= b
  PROVE  Sep[a] <= Sep[b] /\ Sep[a] \in Nat /\ Sep[b] \in Nat
  <1>1. Sep[a] \in Nat /\ Sep[b] \in Nat
    BY Order
  <1>2. a # b => a \in 0..(b - 1)
    OBVIOUS
  <1>3. a # b => Sep[a] + 1 < Sep[b]
    BY <1>2, Order
  <1>4. QED
    BY <1>1, <1>3

\* The next tab after j, if there is one.
LEMMA NextTabFacts ==
  ASSUME NEW l \in Seq(Byte), NEW j \in 0..(Len(l) + 1)
  PROVE  /\ NextTab(l)[j] \in 0..(Len(l) + 1)
         /\ j = Len(l) + 1 => NextTab(l)[j] = Len(l) + 1
         /\ NextTab(l)[j] <= Len(l) => j < NextTab(l)[j] /\ IsTab(l[NextTab(l)[j]])
  <1>1. Len(l) \in Nat
    BY LenProperties
  <1> DEFINE P(i) == IsTab(l[i]) /\ \A k \in (j + 1)..(i - 1) : ~IsTab(l[k])
             t == CHOOSE i \in (j + 1)..Len(l) : P(i)
             some == \E i \in (j + 1)..Len(l) : IsTab(l[i])
  <1>2. NextTab(l)[j] = IF some THEN t ELSE Len(l) + 1
    BY DEF NextTab
  <1>3. CASE some
    <2> DEFINE T == {i \in (j + 1)..Len(l) : IsTab(l[i])}
    <2>1. T \in SUBSET Nat /\ T # {}
      BY <1>1, <1>3
    <2>2. PICK m \in T : \A k \in T : m <= k
      BY <2>1, Smallest
    <2>3. \A k \in (j + 1)..(m - 1) : ~(m <= k) /\ k \in (j + 1)..Len(l)
      BY <1>1, <2>2
    <2>4. m \in (j + 1)..Len(l) /\ P(m)
      BY <2>2, <2>3
    <2> HIDE DEF P
    <2>5. t \in (j + 1)..Len(l) /\ P(t)
      BY <2>4
    <2>6. t \in 0..(Len(l) + 1) /\ j < t /\ IsTab(l[t]) /\ j # Len(l) + 1
      BY <1>1, <2>5 DEF P
    <2> HIDE DEF t, some
    <2>7. QED
      BY <1>2, <1>3, <2>6
  <1>4. CASE ~some
    <2> HIDE DEF t, some
    <2>1. Len(l) + 1 \in 0..(Len(l) + 1) /\ ~(Len(l) + 1 <= Len(l))
      BY <1>1
    <2>2. QED
      BY <1>2, <1>4, <2>1
  <1>5. QED
    BY <1>3, <1>4

\* One more tab: the next is behind it, and if there is none then none after that.
LEMMA TabAfter ==
  ASSUME NEW l \in Seq(Byte), NEW j \in 0..(Len(l) + 1), NextTab(l)[j] <= Len(l)
  PROVE  j \in 0..Len(l) /\ NextTab(l)[j] \in 1..Len(l) /\ j < NextTab(l)[j] /\ IsTab(l[NextTab(l)[j]])
  <1>1. Len(l) \in Nat
    BY LenProperties
  <1>2. QED
    BY <1>1, NextTabFacts

LEMMA TabFacts ==
  ASSUME NEW l \in Seq(Byte), Tab7(l) <= Len(l)
  PROVE  /\ Tab1(l) \in 1..Len(l) /\ Tab2(l) \in 1..Len(l) /\ Tab3(l) \in 1..Len(l)
         /\ Tab4(l) \in 1..Len(l) /\ Tab5(l) \in 1..Len(l) /\ Tab6(l) \in 1..Len(l)
         /\ Tab7(l) \in 1..Len(l)
         /\ Tab1(l) < Tab2(l) /\ Tab2(l) < Tab3(l) /\ Tab3(l) < Tab4(l)
         /\ Tab4(l) < Tab5(l) /\ Tab5(l) < Tab6(l) /\ Tab6(l) < Tab7(l)
         /\ IsTab(l[Tab1(l)]) /\ IsTab(l[Tab2(l)]) /\ IsTab(l[Tab3(l)]) /\ IsTab(l[Tab4(l)])
         /\ IsTab(l[Tab5(l)]) /\ IsTab(l[Tab6(l)]) /\ IsTab(l[Tab7(l)])
  <1>1. Len(l) \in Nat /\ 0 \in 0..(Len(l) + 1) /\ \A x \in 0..Len(l) : x <= Len(l)
    BY LenProperties
  <1>2. Tab1(l) \in 0..(Len(l) + 1)
    BY <1>1, NextTabFacts DEF Tab1
  <1>3. Tab2(l) \in 0..(Len(l) + 1)
    BY <1>2, NextTabFacts DEF Tab2
  <1>4. Tab3(l) \in 0..(Len(l) + 1)
    BY <1>3, NextTabFacts DEF Tab3
  <1>5. Tab4(l) \in 0..(Len(l) + 1)
    BY <1>4, NextTabFacts DEF Tab4
  <1>6. Tab5(l) \in 0..(Len(l) + 1)
    BY <1>5, NextTabFacts DEF Tab5
  <1>7. Tab6(l) \in 0..(Len(l) + 1)
    BY <1>6, NextTabFacts DEF Tab6
  <1>8. Tab6(l) \in 0..Len(l) /\ Tab7(l) \in 1..Len(l) /\ Tab6(l) < Tab7(l) /\ IsTab(l[Tab7(l)])
    BY <1>7, TabAfter DEF Tab7
  <1>9. Tab5(l) \in 0..Len(l) /\ Tab6(l) \in 1..Len(l) /\ Tab5(l) < Tab6(l) /\ IsTab(l[Tab6(l)])
    BY <1>1, <1>6, <1>8, TabAfter DEF Tab6
  <1>10. Tab4(l) \in 0..Len(l) /\ Tab5(l) \in 1..Len(l) /\ Tab4(l) < Tab5(l) /\ IsTab(l[Tab5(l)])
    BY <1>1, <1>5, <1>9, TabAfter DEF Tab5
  <1>11. Tab3(l) \in 0..Len(l) /\ Tab4(l) \in 1..Len(l) /\ Tab3(l) < Tab4(l) /\ IsTab(l[Tab4(l)])
    BY <1>1, <1>4, <1>10, TabAfter DEF Tab4
  <1>12. Tab2(l) \in 0..Len(l) /\ Tab3(l) \in 1..Len(l) /\ Tab2(l) < Tab3(l) /\ IsTab(l[Tab3(l)])
    BY <1>1, <1>3, <1>11, TabAfter DEF Tab3
  <1>13. Tab1(l) \in 0..Len(l) /\ Tab2(l) \in 1..Len(l) /\ Tab1(l) < Tab2(l) /\ IsTab(l[Tab2(l)])
    BY <1>1, <1>2, <1>12, TabAfter DEF Tab2
  <1>14. Tab1(l) \in 1..Len(l) /\ IsTab(l[Tab1(l)])
    BY <1>1, <1>13, TabAfter DEF Tab1
  <1>15. QED
    BY <1>8, <1>9, <1>10, <1>11, <1>12, <1>13, <1>14

\* Seven tabs of one line are its seven tabs.
LEMMA Seven ==
  ASSUME NEW x1 \in 1..7, NEW x2 \in 1..7, NEW x3 \in 1..7, NEW x4 \in 1..7,
         NEW x5 \in 1..7, NEW x6 \in 1..7, NEW x7 \in 1..7,
         x1 < x2, x2 < x3, x3 < x4, x4 < x5, x5 < x6, x6 < x7
  PROVE  x1 = 1 /\ x2 = 2 /\ x3 = 3 /\ x4 = 4 /\ x5 = 5 /\ x6 = 6 /\ x7 = 7
  OBVIOUS

LEMMA Five ==
  ASSUME NEW x3 \in 1..7, NEW x4 \in 1..7, NEW x5 \in 1..7, NEW x6 \in 1..7, NEW x7 \in 1..7,
         x3 < x4, x4 < x5, x5 < x6, x6 < x7
  PROVE  5 <= x7
  OBVIOUS

LEMMA Shift ==
  ASSUME NEW d \in Int, NEW a \in Int, NEW b \in Int, a < b, NEW m \in 1..8, NEW n \in 1..8,
         d + a = Sep[m], d + b = Sep[n]
  PROVE  m < n
  <1>1. d + a < d + b
    OBVIOUS
  <1>2. QED
    BY <1>1, Before

\* The first byte of a line is in a label: neither a tab nor a digit.
LEMMA FirstByte ==
  ASSUME NEW s, s[2] = 1
  PROVE  ~IsTab(s) /\ ~IsDigit(s)
  <1>1. \A n \in 1..8 : 1 < Sep[n]
    <2> TAKE n \in 1..8
    <2>1. 0 \in 0..(n - 1) /\ n \in 0..8
      OBVIOUS
    <2>2. Sep[0] + 1 < Sep[n] /\ Sep[n] \in Nat /\ Sep[0] = 0
      BY <2>1, Order, SepFacts
    <2>3. QED
      BY <2>2
  <1>2. \A n \in 1..7 : n \in 1..8
    OBVIOUS
  <1>3. \A n \in {2, 4, 6, 8} : n - 1 \in 1..8
    OBVIOUS
  <1>4. \A n \in {2, 4, 6, 8} : ~(Sep[n - 1] < 1)
    BY <1>1, <1>3, Order
  <1>5. QED
    BY <1>1, <1>2, <1>4 DEF IsTab, IsDigit

\* So is the byte after the sixth tab.
LEMMA SeventhLabel ==
  ASSUME NEW s, s[2] = Sep[6] + 1
  PROVE  ~IsDigit(s)
  <1>1. ASSUME NEW n \in {2, 4, 6} PROVE Sep[n] <= Sep[6] /\ Sep[n] \in Nat
    <2>1. n \in 1..8 /\ n <= 6 /\ 6 \in 1..8
      OBVIOUS
    <2>2. QED
      BY <2>1, NotBefore
  <1>2. Sep[6] + 1 < Sep[7] /\ Sep[6] \in Nat /\ Sep[7] \in Nat
    <2>1. 6 \in 0..(7 - 1) /\ {6, 7} \subseteq 0..8 /\ 7 \in 1..8
      OBVIOUS
    <2>2. QED
      BY <2>1, Order
  <1>3. \A n \in {2, 4, 6} : ~(Sep[6] + 1 < Sep[n])
    BY <1>1, <1>2
  <1>4. ~(Sep[8 - 1] < Sep[6] + 1)
    BY <1>2
  <1>5. QED
    BY <1>3, <1>4 DEF IsDigit

\* No number spans the boundary between two lines.
LEMMA NoBoundary ==
  ASSUME NEW l, NEW t, NEW g, NEW o \in Int, Mixed(l, t, g, o), Len(l) \in Nat,
         NEW a \in 1..Len(l), NEW b \in 1..Len(l), IsTab(l[b]), Number(l, a, b),
         o + a <= 0, o + b > 0
  PROVE  FALSE
  <1>1. 1 - o \in 1..Len(l) /\ a + 1 <= 1 - o /\ 1 - o <= b /\ o + (1 - o) = 1 /\ o + (1 - o) > 0
    OBVIOUS
  <1>2. l[1 - o] = <<t, 1>>
    BY <1>1 DEF Mixed
  <1>3. ~IsTab(l[1 - o]) /\ ~IsDigit(l[1 - o])
    BY <1>2, FirstByte
  <1>4. 1 - o # b
    BY <1>3
  <1>5. 1 - o \in (a + 1)..(b - 1)
    BY <1>1, <1>4
  <1>6. QED
    BY <1>3, <1>5 DEF Number

\* A line that can be parsed is one test's line from before its first tab on, or has
\* the end of the line before in front of it, from before the fifth tab of that on.
Clean(l, o) ==
  /\ o + Tab1(l) = Sep[1] /\ o + Tab2(l) = Sep[2] /\ o + Tab3(l) = Sep[3] /\ o + Tab4(l) = Sep[4]
  /\ o + Tab5(l) = Sep[5] /\ o + Tab6(l) = Sep[6] /\ o + Tab7(l) = Sep[7]

Shifted(l, g, o) == o < 0 /\ g < Sep[5] /\ o + Tab1(l) <= 0

LEMMA ParsedLine ==
  ASSUME NEW l \in Seq(Byte), NEW t, NEW o \in Int, NEW g \in Nat, Past <= g,
         Mixed(l, t, g, o), Parses(l)
  PROVE  (Clean(l, o) \/ Shifted(l, g, o)) /\ Sep[5] < o + Len(l)
  <1> DEFINE T1 == Tab1(l)  T2 == Tab2(l)  T3 == Tab3(l)  T4 == Tab4(l)
             T5 == Tab5(l)  T6 == Tab6(l)  T7 == Tab7(l)
  <1>1. /\ T7 <= Len(l) /\ Number(l, T1, T2) /\ Number(l, T3, T4)
        /\ Number(l, T5, T6) /\ Number(l, T7, Len(l) + 1)
    BY DEF Parses
  <1>2. /\ T1 \in 1..Len(l) /\ T2 \in 1..Len(l) /\ T3 \in 1..Len(l) /\ T4 \in 1..Len(l)
        /\ T5 \in 1..Len(l) /\ T6 \in 1..Len(l) /\ T7 \in 1..Len(l)
        /\ IsTab(l[T1]) /\ IsTab(l[T2]) /\ IsTab(l[T3]) /\ IsTab(l[T4])
        /\ IsTab(l[T5]) /\ IsTab(l[T6]) /\ IsTab(l[T7])
    BY <1>1, TabFacts
  <1>3. T1 < T2 /\ T2 < T3 /\ T3 < T4 /\ T4 < T5 /\ T5 < T6 /\ T6 < T7
    BY <1>1, TabFacts
  <1>4. Len(l) \in Nat /\ Past \in Nat /\ Past < Sep[5] /\ Sep[5] \in Nat
    BY LenProperties, SepFacts
  <1> HIDE DEF T1, T2, T3, T4, T5, T6, T7
  <1>5. ASSUME NEW b \in 1..Len(l), IsTab(l[b]), o + b > 0
        PROVE  \E m \in 1..7 : m \in 1..8 /\ o + b = Sep[m]
    <2>1. l[b] = <<t, o + b>>
      BY <1>5 DEF Mixed
    <2>2. QED
      BY <1>5, <2>1 DEF IsTab
  <1>6. ASSUME NEW b \in 1..Len(l), IsTab(l[b]), ~(o + b > 0)
        PROVE  \E m \in 5..7 : m \in 1..8 /\ g + b = Sep[m]
    <2>1. l[b] = <<t - 1, g + b>>
      BY <1>6 DEF Mixed
    <2>2. PICK m \in 1..7 : g + b = Sep[m]
      BY <1>6, <2>1 DEF IsTab
    <2>3. Sep[4] < Sep[m] /\ 4 \in 1..8 /\ m \in 1..8
      <3>1. Sep[4] \in Nat /\ Sep[4] < Past
        BY SepFacts
      <3>2. g + b > Past /\ Past \in Nat
        <4>1. b \in Nat /\ 1 <= b
          BY <1>4
        <4>2. QED
          BY <1>4, <4>1
      <3>3. Sep[m] > Past
        BY <2>2, <3>2
      <3>4. Sep[m] \in Nat
        <4>1. m \in 0..8
          BY <2>2
        <4>2. QED
          BY <4>1, Order
      <3>5. QED
        BY <3>1, <3>2, <3>3, <3>4
    <2>4. 4 < m
      BY <2>3, Before
    <2>5. QED
      BY <2>2, <2>4
  <1>7. /\ T1 \in Int /\ T2 \in Int /\ T3 \in Int /\ T4 \in Int /\ T5 \in Int /\ T6 \in Int /\ T7 \in Int
    BY <1>2, <1>4
  <1>8. CASE o + T1 > 0
    <2>1. /\ o + T2 > 0 /\ o + T3 > 0 /\ o + T4 > 0 /\ o + T5 > 0 /\ o + T6 > 0 /\ o + T7 > 0
      BY <1>3, <1>7, <1>8
    <2>2. PICK m1 \in 1..7 : m1 \in 1..8 /\ o + T1 = Sep[m1]
      BY <1>2, <1>5, <1>8
    <2>3. PICK m2 \in 1..7 : m2 \in 1..8 /\ o + T2 = Sep[m2]
      BY <1>2, <1>5, <2>1
    <2>4. PICK m3 \in 1..7 : m3 \in 1..8 /\ o + T3 = Sep[m3]
      BY <1>2, <1>5, <2>1
    <2>5. PICK m4 \in 1..7 : m4 \in 1..8 /\ o + T4 = Sep[m4]
      BY <1>2, <1>5, <2>1
    <2>6. PICK m5 \in 1..7 : m5 \in 1..8 /\ o + T5 = Sep[m5]
      BY <1>2, <1>5, <2>1
    <2>7. PICK m6 \in 1..7 : m6 \in 1..8 /\ o + T6 = Sep[m6]
      BY <1>2, <1>5, <2>1
    <2>8. PICK m7 \in 1..7 : m7 \in 1..8 /\ o + T7 = Sep[m7]
      BY <1>2, <1>5, <2>1
    <2>9. m1 < m2
      BY <1>3, <1>7, <2>2, <2>3, Shift
    <2>10. m2 < m3
      BY <1>3, <1>7, <2>3, <2>4, Shift
    <2>11. m3 < m4
      BY <1>3, <1>7, <2>4, <2>5, Shift
    <2>12. m4 < m5
      BY <1>3, <1>7, <2>5, <2>6, Shift
    <2>13. m5 < m6
      BY <1>3, <1>7, <2>6, <2>7, Shift
    <2>14. m6 < m7
      BY <1>3, <1>7, <2>7, <2>8, Shift
    <2>15. m1 = 1 /\ m2 = 2 /\ m3 = 3 /\ m4 = 4 /\ m5 = 5 /\ m6 = 6 /\ m7 = 7
      BY <2>9, <2>10, <2>11, <2>12, <2>13, <2>14, Seven
    <2>16. Clean(l, o)
      BY <2>2, <2>3, <2>4, <2>5, <2>6, <2>7, <2>8, <2>15 DEF Clean, T1, T2, T3, T4, T5, T6, T7
    <2>17. o + T5 = Sep[5] /\ T5 < Len(l)
      BY <1>2, <1>3, <1>4, <1>7, <2>6, <2>15
    <2>18. QED
      BY <1>4, <1>7, <2>16, <2>17
  <1>9. CASE ~(o + T1 > 0)
    <2>1. o + T4 > 0
      <3>1. SUFFICES ASSUME ~(o + T4 > 0) PROVE FALSE
        OBVIOUS
      <3>2. ~(o + T2 > 0) /\ ~(o + T3 > 0)
        BY <1>3, <1>7, <3>1
      <3>3. PICK m1 \in 5..7 : m1 \in 1..8 /\ g + T1 = Sep[m1]
        BY <1>2, <1>6, <1>9
      <3>4. PICK m2 \in 5..7 : m2 \in 1..8 /\ g + T2 = Sep[m2]
        BY <1>2, <1>6, <3>2
      <3>5. PICK m3 \in 5..7 : m3 \in 1..8 /\ g + T3 = Sep[m3]
        BY <1>2, <1>6, <3>2
      <3>6. PICK m4 \in 5..7 : m4 \in 1..8 /\ g + T4 = Sep[m4]
        BY <1>2, <1>6, <3>1
      <3>7. m1 < m2 /\ m2 < m3 /\ m3 < m4
        BY <1>3, <1>7, <3>3, <3>4, <3>5, <3>6, Shift
      <3>8. QED
        BY <3>7
    <2>2. ~(o + T2 > 0)
      BY <1>1, <1>2, <1>4, <1>7, <1>9, NoBoundary
    <2>3. o + T3 > 0
      BY <1>1, <1>2, <1>4, <1>7, <2>1, NoBoundary
    <2>4. o + T5 > 0 /\ o + T6 > 0 /\ o + T7 > 0
      BY <1>3, <1>7, <2>1
    <2>5. PICK m3 \in 1..7 : m3 \in 1..8 /\ o + T3 = Sep[m3]
      BY <1>2, <1>5, <2>3
    <2>6. PICK m4 \in 1..7 : m4 \in 1..8 /\ o + T4 = Sep[m4]
      BY <1>2, <1>5, <2>1
    <2>7. PICK m5 \in 1..7 : m5 \in 1..8 /\ o + T5 = Sep[m5]
      BY <1>2, <1>5, <2>4
    <2>8. PICK m6 \in 1..7 : m6 \in 1..8 /\ o + T6 = Sep[m6]
      BY <1>2, <1>5, <2>4
    <2>9. PICK m7 \in 1..7 : m7 \in 1..8 /\ o + T7 = Sep[m7]
      BY <1>2, <1>5, <2>4
    <2>10. m3 < m4 /\ m4 < m5 /\ m5 < m6 /\ m6 < m7
      BY <1>3, <1>7, <2>5, <2>6, <2>7, <2>8, <2>9, Shift
    <2>11. 5 <= m7 /\ 5 \in 1..8
      BY <2>10, Five
    <2>12. Sep[5] <= o + T7 /\ T7 < Len(l)
      <3>1. T7 + 1 < Len(l) + 1
        BY <1>1 DEF Number
      <3>2. Sep[5] <= Sep[m7]
        BY <2>9, <2>11, NotBefore
      <3>3. QED
        BY <1>4, <1>7, <2>9, <3>1, <3>2
    <2>13. PICK n1 \in 5..7 : n1 \in 1..8 /\ g + T1 = Sep[n1]
      BY <1>2, <1>6, <1>9
    <2>14. PICK n2 \in 5..7 : n2 \in 1..8 /\ g + T2 = Sep[n2]
      BY <1>2, <1>6, <2>2
    <2>15. n1 < n2
      <3>1. T1 < T2 /\ T1 \in Int /\ T2 \in Int /\ g \in Int
        BY <1>3, <1>7
      <3>2. QED
        BY <2>13, <2>14, <3>1, Shift
    <2>16. n1 # 6
      <3>1. SUFFICES ASSUME g + T1 = Sep[6] PROVE FALSE
        BY <2>13
      <3>2. T1 + 1 \in (T1 + 1)..(T2 - 1) /\ T1 + 1 \in 1..Len(l) /\ ~(o + (T1 + 1) > 0)
        <4>1. T1 + 1 < T2
          BY <1>1 DEF Number
        <4>2. QED
          BY <1>2, <1>4, <1>7, <2>2, <4>1
      <3>3. IsDigit(l[T1 + 1])
        BY <1>1, <3>2 DEF Number
      <3>4. l[T1 + 1] = <<t - 1, g + (T1 + 1)>>
        BY <3>2 DEF Mixed
      <3>5. g + (T1 + 1) = Sep[6] + 1
        BY <1>7, <3>1
      <3>6. QED
        BY <3>3, <3>4, <3>5, SeventhLabel
    <2>17. n1 = 5
      BY <2>15, <2>16
    <2>18. o < 0 /\ g < Sep[5] /\ o + T1 <= 0
      BY <1>2, <1>4, <1>7, <1>9, <2>13, <2>17
    <2>19. QED
      BY <1>4, <1>7, <2>12, <2>18 DEF Shifted, T1
  <1>10. QED
    BY <1>8, <1>9

\* What stands between two tabs is bytes of the line.
LEMMA BetweenType ==
  ASSUME NEW l \in Seq(Byte), NEW a \in 0..Len(l), NEW b \in 1..(Len(l) + 1)
  PROVE  Between(l, a, b) \in Seq(Byte)
  <1>1. a + 1 \in 1..(Len(l) + 1) /\ b - 1 \in 0..Len(l)
    BY LenProperties
  <1>2. QED
    BY <1>1, Piece DEF Between

LEMMA FormatType ==
  ASSUME NEW l \in Seq(Byte), Parses(l)
  PROVE  format_line(l) \in Result
  <1>1. Tab7(l) <= Len(l)
    BY DEF Parses
  <1>2. Len(l) \in Nat /\ Len(l) + 1 \in 1..(Len(l) + 1) /\ \A x \in 1..Len(l) : x \in 0..Len(l) /\ x \in 1..(Len(l) + 1)
    BY LenProperties
  <1>3. /\ Tab1(l) \in 1..Len(l) /\ Tab2(l) \in 1..Len(l) /\ Tab3(l) \in 1..Len(l) /\ Tab4(l) \in 1..Len(l)
        /\ Tab5(l) \in 1..Len(l) /\ Tab6(l) \in 1..Len(l) /\ Tab7(l) \in 1..Len(l)
    BY <1>1, TabFacts
  <1>4. Between(l, Tab1(l), Tab2(l)) \in Seq(Byte)
    BY <1>2, <1>3, BetweenType
  <1>5. Between(l, Tab3(l), Tab4(l)) \in Seq(Byte)
    BY <1>2, <1>3, BetweenType
  <1>6. Between(l, Tab5(l), Tab6(l)) \in Seq(Byte)
    BY <1>2, <1>3, BetweenType
  <1>7. Between(l, Tab7(l), Len(l) + 1) \in Seq(Byte)
    BY <1>2, <1>3, BetweenType
  <1>8. QED
    BY <1>4, <1>5, <1>6, <1>7 DEF format_line, Result

LEMMA FormatStep == IInv /\ Format => IInv'
  <1> SUFFICES ASSUME IInv, Format PROVE IInv'
    OBVIOUS
  <1> USE DEF Format, board
  <1>1. TypeOK'
    BY DEF IInv, TypeOK, Ended, Sweeping
  <1>2. ComingInv' /\ LineInv'
    BY DEF IInv, ComingInv, LineInv, Setup, Coming, From, Reached
  <1>3. CountInv'
    BY DEF IInv, CountInv, Setup
  <1>4. WholeInv'
    BY DEF IInv, WholeInv, Setup
  <1>5. QED
    BY <1>1, <1>2, <1>3, <1>4 DEF IInv

\* One more line of results is written, or the last was.
LEMMA WriteStep == IInv /\ Write => IInv'
  <1> SUFFICES ASSUME IInv, Write PROVE IInv'
    OBVIOUS
  <1>0. /\ pc = "write" /\ UNCHANGED <<wholeLines, tree, built, running, toPrint, wire, pending, lines>>
        /\ IF Len(output) < N
           THEN output' = Append(output, format_line(lines[Len(output) + 1])) /\ pc' = "write"
           ELSE output' = output /\ pc' = "done"
    BY DEF Write, board
  <1>1. /\ output \in Seq(Result) /\ Len(output) \in Nat /\ DOMAIN output = 1..Len(output)
        /\ Len(output) <= N /\ N \in Nat /\ Test = 1..N
        /\ lines \in Seq(Seq(Byte)) /\ Len(lines) = N /\ DOMAIN lines = 1..N
        /\ \A k \in Test : Parses(lines[k])
        /\ \A k \in DOMAIN output : output[k] = format_line(lines[k])
    BY <1>0, Tests, LenProperties DEF IInv, TypeOK, CountInv
  <1>2. /\ output' \in Seq(Result) /\ Len(output') <= N
        /\ \A k \in DOMAIN output' : output'[k] = format_line(lines[k])
        /\ pc' = "done" => Len(output') = N
    <2>1. CASE Len(output) < N
      <3> DEFINE n == Len(output) + 1
      <3>1. n \in Test /\ lines[n] \in Seq(Byte) /\ Parses(lines[n])
        BY <1>1, <2>1, ElementOfSeq
      <3>2. format_line(lines[n]) \in Result
        BY <3>1, FormatType
      <3>3. /\ output' \in Seq(Result) /\ Len(output') = n /\ DOMAIN output' = 1..n
            /\ output'[n] = format_line(lines[n]) /\ \A k \in 1..Len(output) : output'[k] = output[k]
        <4>1. output' = Append(output, format_line(lines[n])) /\ output \in Seq(Result)
          BY <1>0, <1>1, <2>1
        <4> HIDE DEF n
        <4>2. /\ output' \in Seq(Result) /\ Len(output') = Len(output) + 1
              /\ \A k \in 1..Len(output) : output'[k] = output[k]
              /\ output'[Len(output) + 1] = format_line(lines[n])
          BY ONLY <3>2, <4>1, AppendProperties
        <4>3. DOMAIN output' = 1..Len(output')
          BY <4>2, LenProperties
        <4>4. n = Len(output) + 1
          BY DEF n
        <4>5. QED
          BY ONLY <4>2, <4>3, <4>4
      <3>4. n <= N /\ \A k \in 1..n : k = n \/ k \in 1..Len(output)
        <4>1. Len(output) \in Nat /\ N \in Nat /\ Len(output) < N
          BY <1>1, <2>1
        <4>2. QED
          BY ONLY <4>1
      <3>5. pc' # "done"
        BY <1>0, <2>1
      <3> HIDE DEF n
      <3>6. QED
        BY <1>1, <3>3, <3>4, <3>5
    <2>2. CASE ~(Len(output) < N)
      <3>1. output' = output
        BY <1>0, <2>2
      <3>2. Len(output) = N
        <4>1. Len(output) \in Nat /\ N \in Nat /\ Len(output) <= N
          BY <1>1
        <4>2. QED
          BY ONLY <2>2, <4>1
      <3>3. QED
        BY <1>1, <3>1, <3>2
    <2>3. QED
      BY <2>1, <2>2
  <1>3. pc' \in {"write", "done"}
    BY <1>0
  <1>4. TypeOK'
    BY <1>0, <1>2, <1>3 DEF IInv, TypeOK, Sweeping, Ended
  <1>5. ComingInv' /\ LineInv'
    BY <1>0, <1>3 DEF IInv, ComingInv, LineInv, Setup, From, Reached
  <1>6. CountInv'
    BY <1>0, <1>1, <1>2, <1>3 DEF CountInv, Setup
  <1>7. WholeInv'
    BY <1>0, <1>3 DEF IInv, WholeInv, Setup
  <1>8. QED
    BY <1>4, <1>5, <1>6, <1>7 DEF IInv

\* What raises or kills the driver leaves its first results, or fewer.
LEMMA RaiseStep == IInv /\ Raise => IInv'
  <1> SUFFICES ASSUME IInv, Raise PROVE IInv'
    OBVIOUS
  <1>0. pc' = "failed" /\ UNCHANGED <<wholeLines, tree, built, running, toPrint, wire, pending, lines>>
    BY DEF Raise, board
  <1>1. /\ output \in Seq(Result) /\ Len(output) \in Nat /\ DOMAIN output = 1..Len(output)
        /\ Len(output) <= N /\ N \in Nat
    BY Tests, LenProperties DEF IInv, TypeOK, CountInv
  <1>2. PICK m \in 0..Len(output) : output' = SubSeq(output, 1, m)
    BY DEF Raise
  <1>3. /\ output' \in Seq(Result) /\ DOMAIN output' = 1..Len(output')
        /\ Len(output') = m /\ \A k \in 1..m : output'[k] = output[k]
    <2>1. 1 \in 1..(Len(output) + 1) /\ m - 1 + 1 = m /\ (~(1 <= m) => m = 0) /\ \A k \in 1..m : 1 + k - 1 = k
      BY <1>1, <1>2
    <2>2. /\ output' \in Seq(Result) /\ DOMAIN output' = 1..Len(output')
          /\ Len(output') = (IF 1 <= m THEN m - 1 + 1 ELSE 0)
          /\ \A k \in 1..(m - 1 + 1) : output'[k] = output[1 + k - 1]
      BY <1>1, <1>2, <2>1, Piece
    <2>3. QED
      BY <2>1, <2>2
  <1>4. Len(output') <= N /\ (output' # <<>> => output # <<>>) /\ \A k \in 1..m : k \in DOMAIN output
    <2>1. output' # <<>> => Len(output') # 0
      BY <1>3, EmptySeq
    <2>2. Len(<<>>) = 0
      BY EmptySeq
    <2>3. QED
      BY <1>1, <1>2, <1>3, <2>1, <2>2
  <1>5. TypeOK'
    BY <1>0, <1>3 DEF IInv, TypeOK, Ended
  <1>6. ComingInv' /\ LineInv'
    BY <1>0 DEF IInv, ComingInv, LineInv, Setup, From, Reached
  <1>7. CountInv'
    BY <1>0, <1>3, <1>4 DEF IInv, CountInv, Setup
  <1>8. WholeInv'
    BY <1>0 DEF IInv, WholeInv, Setup
  <1>9. QED
    BY <1>5, <1>6, <1>7, <1>8 DEF IInv

LEMMA TransmitStep == IInv /\ Transmit => IInv'
  <1> SUFFICES ASSUME IInv, Transmit PROVE IInv'
    OBVIOUS
  <1>1. /\ wire' \in Seq(Byte) /\ toPrint' \in Seq(Byte)
        /\ Len(wire) \in Nat /\ Len(wire) <= Len(wire') /\ Coming' = Coming
    BY TransmitKeeps DEF IInv
  <1>2. UNCHANGED <<wholeLines, pc, tree, built, running, pending, lines, output>>
    BY DEF Transmit
  <1>3. TypeOK'
    BY <1>1, <1>2, LenProperties DEF IInv, TypeOK
  <1>4. ComingInv' /\ LineInv' /\ CountInv'
    <2>1. LineInv' /\ \A t : From(t)' = From(t)
      BY <1>2, LinesKept DEF IInv
    <2>2. From(running)' = From(running) /\ From(running + 1)' = From(running + 1)
      BY <1>2 DEF From, Reached
    <2>3. ComingInv'
      BY <1>1, <1>2, <2>2 DEF IInv, ComingInv
    <2>4. CountInv'
      BY <1>2 DEF IInv, CountInv
    <2>5. QED
      BY <2>1, <2>3, <2>4
  <1>5. WholeInv'
    <2>1. SUFFICES ASSUME wholeLines PROVE WholeInv'
      BY <1>2 DEF WholeInv
    <2>2. toPrint # <<>> /\ pc \notin Ended
      BY DEF Transmit
    <2>3. CASE pc \in {"look", "fetch"}
      <3>1. wire = <<>> /\ toPrint = LineOf(running) /\ pc = "look" /\ running \in Test
        <4>1. running \in Test
          BY <2>3, Tests, LenProperties DEF IInv, TypeOK, CountInv
        <4>2. LineOf(running) # <<>>
          BY <4>1, LineFacts, Ends, EmptySeq
        <4>3. QED
          BY <2>1, <2>2, <2>3, <4>1, <4>2 DEF IInv, WholeInv
      <3>2. wire' = LineOf(running) /\ toPrint' = <<>>
        <4>1. /\ wire' = wire \o SubSeq(toPrint, 1, Len(toPrint))
              /\ toPrint' = SubSeq(toPrint, Len(toPrint) + 1, Len(toPrint))
          BY <2>1 DEF Transmit
        <4>2. toPrint \in Seq(Byte) /\ Len(toPrint) \in Int
          BY LenProperties DEF IInv, TypeOK
        <4>3. toPrint' = <<>>
          BY <4>1, <4>2, SubSeqEmpty
        <4>4. QED
          BY <3>1, <4>1, <4>2, <4>3, SubSeqFull, ConcatEmptySeq
      <3>3. QED
        BY <1>2, <2>1, <3>1, <3>2 DEF IInv, WholeInv, Setup
    <2>4. CASE pc \notin {"look", "fetch"}
      BY <1>2, <2>1, <2>2, <2>4 DEF IInv, WholeInv, Setup
    <2>5. QED
      BY <2>3, <2>4
  <1>6. QED
    BY <1>3, <1>4, <1>5 DEF IInv

\* Every step preserves the inductive invariant.
LEMMA NextIInv == IInv /\ [Next]_vars => IInv'
  <1> SUFFICES ASSUME IInv, [Next]_vars PROVE IInv'
    OBVIOUS
  <1>0. tree \in [objects : BOOLEAN, build : BOOLEAN, work : BOOLEAN] /\ built \subseteq Test
    BY DEF IInv, TypeOK
  <1>1. CASE Open
    BY <1>0, <1>1, SetupStep DEF Open, Proceed, Setup
  <1>2. CASE ProgramFpga
    BY <1>0, <1>2, SetupStep DEF ProgramFpga, Proceed, Setup
  <1>3. CASE CopySources
    BY <1>0, <1>3, SetupStep DEF CopySources, Setup
  <1>4. CASE MakeBuildDir
    BY <1>0, <1>4, SetupStep DEF MakeBuildDir, Setup
  <1>5. CASE RemoveObjects
    BY <1>0, <1>5, SetupStep DEF RemoveObjects, Setup
  <1>6. CASE BuildTests
    <2>1. pc \in Setup /\ pc' \in Setup \cup {"launch", "die", "crash"}
      BY <1>6 DEF BuildTests, Setup
    <2>2. built' \subseteq Test
      <3>1. built' \in SUBSET Test \/ built' \in {Test}
        BY <1>6 DEF BuildTests
      <3>2. QED
        BY <3>1
    <2>3. tree' = tree /\ UNCHANGED <<wholeLines, board, pending, lines, output>>
      BY <1>6 DEF BuildTests
    <2>4. QED
      BY <1>0, <2>1, <2>2, <2>3, SetupStep
  <1>7. CASE UNCHANGED vars
    <2> USE <1>7 DEF vars, board
    <2>1. TypeOK'
      BY DEF IInv, TypeOK
    <2>2. From(running)' = From(running) /\ From(running + 1)' = From(running + 1)
      BY DEF From, Reached
    <2>3. ComingInv'
      BY <2>2 DEF IInv, ComingInv, Coming
    <2>4. LineInv' /\ CountInv' /\ WholeInv'
      BY LinesKept DEF IInv, CountInv, WholeInv
    <2>5. QED
      BY <2>1, <2>3, <2>4 DEF IInv
  <1>8. QED
    BY <1>1, <1>2, <1>3, <1>4, <1>5, <1>6, <1>7, LaunchStep, LookStep, FetchStep,
       FormatStep, WriteStep, RaiseStep, TransmitStep
    DEF Next, Driver

\* What the driver holds, what is on its way and what it has written agree.
THEOREM InvariantHolds == Spec => []IInv
  <1>1. QED
    BY InitIInv, NextIInv, PTL DEF Spec

\* What the invariant says of one collected line.
LEMMA CollectedLine ==
  ASSUME IInv, NEW k \in DOMAIN lines
  PROVE  /\ lines[k] \in Seq(Byte) /\ Len(lines[k]) \in Nat /\ k \in Test /\ k \in built
         /\ k \in 1..Len(lines) /\ Len(lines) \in Nat
         /\ From(k) \in Nat /\ Past <= From(k) /\ From(k) <= Sep[8]
         /\ \E o \in Int :
              /\ Past <= o + Len(lines[k]) /\ o <= Sep[4] /\ o + Len(lines[k]) < Sep[8]
              /\ \E g \in From(k)..Sep[8] : Mixed(lines[k], k, g, o)
  <1>1. /\ lines \in Seq(Seq(Byte)) /\ Len(lines) \in Nat /\ DOMAIN lines = 1..Len(lines) /\ Len(lines) <= N
        /\ k \in 1..Len(lines)
    BY LenProperties, Tests DEF IInv, TypeOK
  <1>2. lines[k] \in Seq(Byte)
    BY <1>1, ElementOfSeq
  <1>3. Len(lines[k]) \in Nat /\ k \in Test /\ k \in 0..(Len(lines) + 1)
    BY <1>1, <1>2, LenProperties, Tests
  <1>4. From(k) \in Nat /\ Past <= From(k) /\ From(k) <= Sep[8]
    BY <1>3, FromFacts DEF IInv
  <1>5. /\ k \in built
        /\ \E o \in (Past - Len(lines[k]))..Sep[4] :
             /\ o + Len(lines[k]) < Sep[8]
             /\ \E g \in From(k)..Sep[8] : Mixed(lines[k], k, g, o)
    BY DEF IInv, LineInv
  <1>6. PICK o \in (Past - Len(lines[k]))..Sep[4] :
          /\ o + Len(lines[k]) < Sep[8]
          /\ \E g \in From(k)..Sep[8] : Mixed(lines[k], k, g, o)
    BY <1>5
  <1>7. o \in Int /\ Past <= o + Len(lines[k]) /\ o <= Sep[4]
    BY <1>3, SepFacts
  <1>8. QED
    BY <1>1, <1>2, <1>3, <1>4, <1>5, <1>6, <1>7

\* However the UART's stream is cut (collect_lines), the line collected for a test is that
\* test's: its marker, the bytes around it without a gap, and of the line before no byte
\* that was collected already.
THEOREM NoLineMisattributed == Spec => []LinesAttributed
  <1>1. IInv => LinesAttributed
    <2> SUFFICES ASSUME IInv, NEW k \in DOMAIN lines
                 PROVE  LET l == lines[k]
                        IN  /\ \E j \in DOMAIN l : l[j][1] = k /\ MarkerAt(l, j)
                            /\ \A j \in DOMAIN l : l[j][1] # k => l[j][1] = k - 1 /\ l[j][2] > Reached(k - 1)
                            /\ \A j \in 1..(Len(l) - 1) :
                                 \/ l[j + 1] = <<l[j][1], l[j][2] + 1>>
                                 \/ l[j][1] = k - 1 /\ l[j + 1] = <<k, 1>>
      BY DEF LinesAttributed
    <2> DEFINE l == lines[k]
    <2>1. /\ l \in Seq(Byte) /\ Len(l) \in Nat /\ k \in Test /\ k \in Nat
          /\ From(k) \in Nat /\ Sep[8] \in Nat
          /\ \E o \in Int :
               /\ Past <= o + Len(l) /\ o <= Sep[4] /\ o + Len(l) < Sep[8]
               /\ \E g \in From(k)..Sep[8] : Mixed(l, k, g, o)
      BY CollectedLine, Ends, Tests
    <2>2. PICK o \in Int :
            /\ Past <= o + Len(l) /\ o <= Sep[4]
            /\ \E g \in From(k)..Sep[8] : Mixed(l, k, g, o)
      BY <2>1
    <2>3. PICK g \in From(k)..Sep[8] : Mixed(l, k, g, o)
      BY <2>2
    <2>4. DOMAIN l = 1..Len(l)
      BY <2>1, LenProperties
    <2>5. g \in Nat /\ From(k) <= g
      BY <2>1, <2>3
    <2> HIDE DEF l
    <2>6. \A j \in 1..Len(l) : l[j] = IF o + j > 0 THEN <<k, o + j>> ELSE <<k - 1, g + j>>
      BY <2>3 DEF Mixed
    <2>7. \E j \in DOMAIN l : l[j][1] = k /\ MarkerAt(l, j)
      <3> DEFINE j == Sep[4] + 1 - o
      <3>1. /\ Sep[4] \in Nat /\ Marker \in Nat /\ 1 <= Marker /\ Past = Sep[4] + Marker
        BY SepFacts
      <3>a. /\ Sep[4] \in Nat /\ Marker \in Nat /\ 1 <= Marker /\ Len(l) \in Nat /\ o \in Int
            /\ Sep[4] + Marker <= o + Len(l) /\ o <= Sep[4]
        BY <2>1, <2>2, <3>1
      <3>b. j = Sep[4] + 1 - o
        OBVIOUS
      <3> HIDE DEF j
      <3>2. j \in 1..Len(l) /\ o + j = Sep[4] + 1 /\ o + j > 0 /\ j \in Int
        BY ONLY <3>a, <3>b, SMTT(30)
      <3>3. l[j][1] = k
        <4>1. l[j] = <<k, o + j>>
          BY <2>6, <3>2
        <4>2. QED
          BY <4>1
      <3>4. ASSUME NEW i \in 1..Marker PROVE l[j + i - 1][2] = Sep[4] + i
        <4>1. j + i - 1 \in 1..Len(l) /\ o + (j + i - 1) = Sep[4] + i /\ o + (j + i - 1) > 0
          <5>1. i \in Int /\ 1 <= i /\ i <= Marker
            BY <3>a
          <5>2. o \in Int /\ j \in Int /\ Sep[4] \in Int /\ o + j = Sep[4] + 1
            BY <3>a, <3>2
          <5>3. o + (j + i - 1) = Sep[4] + i
            BY ONLY <5>1, <5>2
          <5>4. o + (j + i - 1) > 0
            BY <3>a, <5>1, <5>3
          <5>5. j + i - 1 \in Int /\ 1 <= j + i - 1
            BY ONLY <3>a, <3>2, <5>1
          <5>6. j + i - 1 <= Len(l)
            <6>1. o + (j + i - 1) <= o + Len(l)
              BY <3>a, <5>1, <5>3
            <6>2. o \in Int /\ Len(l) \in Int
              BY <3>a
            <6>3. QED
              BY ONLY <5>5, <6>1, <6>2
          <5>7. QED
            BY <5>3, <5>4, <5>5, <5>6
        <4>2. l[j + i - 1] = <<k, o + (j + i - 1)>>
          BY <2>6, <4>1
        <4>3. QED
          BY <4>1, <4>2
      <3>5. MarkerAt(l, j)
        BY <3>4 DEF MarkerAt
      <3>6. QED
        BY <2>4, <3>2, <3>3, <3>5
    <2>8. ASSUME NEW j \in DOMAIN l, l[j][1] # k
          PROVE  l[j][1] = k - 1 /\ l[j][2] > Reached(k - 1)
      <3>1. j \in 1..Len(l) /\ j \in Nat /\ 1 <= j
        BY <2>1, <2>4
      <3>2. ~(o + j > 0) /\ l[j] = <<k - 1, g + j>>
        <4>1. l[j] = IF o + j > 0 THEN <<k, o + j>> ELSE <<k - 1, g + j>>
          BY <2>6, <3>1
        <4>2. ASSUME o + j > 0 PROVE FALSE
          <5>1. l[j] = <<k, o + j>>
            BY <4>1, <4>2
          <5>2. QED
            BY <2>8, <5>1
        <4>3. QED
          BY <4>1, <4>2
      <3>3. k - 1 \in Test
        <4>1. l[j][1] \in Test
          BY <2>1, <3>1, Bytes
        <4>2. QED
          BY <3>2, <4>1
      <3>4. From(k) = Reached(k - 1)
        <4>1. ~(k <= 1)
          BY <2>1, <3>3, Tests
        <4>2. QED
          BY <4>1 DEF From
      <3>5. g + j > From(k)
        BY <2>1, <2>5, <3>1
      <3>6. QED
        BY <3>2, <3>4, <3>5
    <2>9. ASSUME NEW j \in 1..(Len(l) - 1)
          PROVE  \/ l[j + 1] = <<l[j][1], l[j][2] + 1>>
                 \/ l[j][1] = k - 1 /\ l[j + 1] = <<k, 1>>
      <3>1. /\ j \in 1..Len(l) /\ j + 1 \in 1..Len(l) /\ j \in Nat
            /\ o + (j + 1) = (o + j) + 1 /\ g + (j + 1) = (g + j) + 1
        BY <2>1, <2>5
      <3>2. /\ l[j] = IF o + j > 0 THEN <<k, o + j>> ELSE <<k - 1, g + j>>
            /\ l[j + 1] = IF (o + j) + 1 > 0 THEN <<k, (o + j) + 1>> ELSE <<k - 1, (g + j) + 1>>
        BY <2>6, <3>1
      <3>3. CASE o + j > 0
        <4>1. (o + j) + 1 > 0
          BY <3>1, <3>3
        <4>2. QED
          BY <3>2, <3>3, <4>1
      <3>4. CASE o + j = 0
        BY <3>2, <3>4
      <3>5. CASE o + j < 0
        <4>1. ~((o + j) + 1 > 0) /\ ~(o + j > 0)
          BY <3>1, <3>5
        <4>2. QED
          BY <3>2, <4>1
      <3>6. o + j \in Int
        BY <3>1
      <3>7. o + j > 0 \/ o + j = 0 \/ o + j < 0
        BY ONLY <3>6
      <3>8. QED
        BY <3>3, <3>4, <3>5, <3>7
    <2>10. QED
      BY <2>7, <2>8, <2>9 DEF l
  <1>2. QED
    BY <1>1, InvariantHolds, PTL

\* A stretch of a collected line that is within its test's own line is that of the line.
LEMMA OwnStretch ==
  ASSUME NEW l \in Seq(Byte), NEW t \in Test, NEW g, NEW o \in Int, Mixed(l, t, g, o),
         NEW a \in 1..Len(l), NEW b \in 1..(Len(l) + 1), a < b,
         NEW x \in Nat, NEW y \in Nat, o + a = x, o + b = y, y <= Sep[8], 0 < x
  PROVE  Between(l, a, b) = SubSeq(LineOf(t), x + 1, y - 1)
  <1>1. Len(l) \in Nat /\ Sep[8] \in Nat /\ a \in Int /\ b \in Int
    BY LenProperties, SepFacts
  <1>2. LineOf(t) \in Seq(Byte) /\ Len(LineOf(t)) = Sep[8] /\ \A i \in 1..Sep[8] : LineOf(t)[i] = <<t, i>>
    BY LineFacts
  <1> DEFINE n == b - a - 1
  <1>3. /\ a + 1 \in 1..(Len(l) + 1) /\ b - 1 \in 0..Len(l)
        /\ x + 1 \in 1..(Sep[8] + 1) /\ y - 1 \in 0..Sep[8]
        /\ (b - 1) - (a + 1) + 1 = n /\ (y - 1) - (x + 1) + 1 = n /\ n \in Nat
        /\ (a + 1 <= b - 1 <=> 0 < n) /\ (x + 1 <= y - 1 <=> 0 < n)
    BY <1>1
  <1>4. \A j \in 1..n : /\ (a + 1) + j - 1 = a + j /\ (x + 1) + j - 1 = x + j
                        /\ a + j \in 1..Len(l) /\ x + j \in 1..Sep[8]
                        /\ o + (a + j) = x + j /\ o + (a + j) > 0
    BY <1>1
  <1> DEFINE u == SubSeq(l, a + 1, b - 1)
             v == SubSeq(LineOf(t), x + 1, y - 1)
  <1>5. /\ u \in Seq(Byte) /\ Len(u) = (IF a + 1 <= b - 1 THEN (b - 1) - (a + 1) + 1 ELSE 0)
        /\ \A j \in 1..((b - 1) - (a + 1) + 1) : u[j] = l[(a + 1) + j - 1]
    BY <1>3, Piece
  <1>6. /\ v \in Seq(Byte) /\ Len(v) = (IF x + 1 <= y - 1 THEN (y - 1) - (x + 1) + 1 ELSE 0)
        /\ \A j \in 1..((y - 1) - (x + 1) + 1) : v[j] = LineOf(t)[(x + 1) + j - 1]
    BY <1>2, <1>3, Piece
  <1> HIDE DEF n, u, v
  <1>7. Len(u) = n /\ Len(v) = n
    <2>1. ~(0 < n) => n = 0
      BY <1>3
    <2>2. QED
      BY <1>3, <1>5, <1>6, <2>1
  <1>8. \A j \in 1..n : u[j] = v[j]
    <2> TAKE j \in 1..n
    <2>1. u[j] = l[a + j] /\ v[j] = LineOf(t)[x + j]
      BY <1>3, <1>4, <1>5, <1>6
    <2>2. l[a + j] = <<t, o + (a + j)>>
      BY <1>4 DEF Mixed
    <2>3. QED
      BY <1>2, <1>4, <2>1, <2>2
  <1>9. u = v
    BY <1>5, <1>6, <1>7, <1>8, SeqEqual
  <1>10. QED
    BY <1>9 DEF Between, u, v

\* A clean line's numbers are its test's.
LEMMA CleanResult ==
  ASSUME NEW l \in Seq(Byte), NEW t \in Test, NEW g, NEW o \in Int, Mixed(l, t, g, o),
         Parses(l), Clean(l, o), o + Len(l) < Sep[8]
  PROVE  /\ format_line(l).op1 = FieldOf(t, 2) /\ format_line(l).op2 = FieldOf(t, 4)
         /\ format_line(l).instrs = FieldOf(t, 6) /\ format_line(l).cycles \in BeginningOf(t, 8)
  <1>1. Tab7(l) <= Len(l) /\ Number(l, Tab7(l), Len(l) + 1)
    BY DEF Parses
  <1>2. /\ Tab1(l) \in 1..Len(l) /\ Tab2(l) \in 1..Len(l) /\ Tab3(l) \in 1..Len(l) /\ Tab4(l) \in 1..Len(l)
        /\ Tab5(l) \in 1..Len(l) /\ Tab6(l) \in 1..Len(l) /\ Tab7(l) \in 1..Len(l)
        /\ Tab1(l) < Tab2(l) /\ Tab3(l) < Tab4(l) /\ Tab5(l) < Tab6(l)
    BY <1>1, TabFacts
  <1>3. Len(l) \in Nat /\ \A x \in 1..Len(l) : x \in 1..(Len(l) + 1)
    BY LenProperties
  <1>4. ASSUME NEW n \in 1..7 PROVE 0 < Sep[n] /\ Sep[n] \in Nat /\ Sep[n] <= Sep[8] /\ Sep[8] \in Nat
    <2>1. n \in 0..(8 - 1) /\ 0 \in 0..(n - 1) /\ {n, 8} \subseteq 1..8 /\ {0, n, 8} \subseteq 0..8
      OBVIOUS
    <2>2. Sep[0] + 1 < Sep[n] /\ Sep[n] + 1 < Sep[8] /\ Sep[0] = 0 /\ Sep[n] \in Nat /\ Sep[8] \in Nat
      BY <2>1, Order, SepFacts
    <2>3. QED
      BY <2>2
  <1>5. \A n \in 1..7 : 0 < Sep[n] /\ Sep[n] \in Nat /\ Sep[n] <= Sep[8]
    BY <1>4
  <1>6. Between(l, Tab1(l), Tab2(l)) = FieldOf(t, 2)
    <2>1. Between(l, Tab1(l), Tab2(l)) = SubSeq(LineOf(t), Sep[1] + 1, Sep[2] - 1)
      <3>1. 0 < Sep[1] /\ Sep[1] \in Nat /\ Sep[2] \in Nat /\ Sep[2] <= Sep[8]
        BY <1>5
      <3>2. /\ o + Tab1(l) = Sep[1] /\ o + Tab2(l) = Sep[2] /\ Tab1(l) < Tab2(l)
            /\ Tab1(l) \in 1..Len(l) /\ Tab2(l) \in 1..(Len(l) + 1)
        BY <1>2, <1>3 DEF Clean
      <3>3. QED
        BY <3>1, <3>2, OwnStretch, ZenonT(30)
    <2>2. QED
      BY <2>1 DEF FieldOf
  <1>7. Between(l, Tab3(l), Tab4(l)) = FieldOf(t, 4)
    <2>1. Between(l, Tab3(l), Tab4(l)) = SubSeq(LineOf(t), Sep[3] + 1, Sep[4] - 1)
      <3>1. 0 < Sep[3] /\ Sep[3] \in Nat /\ Sep[4] \in Nat /\ Sep[4] <= Sep[8]
        BY <1>5
      <3>2. /\ o + Tab3(l) = Sep[3] /\ o + Tab4(l) = Sep[4] /\ Tab3(l) < Tab4(l)
            /\ Tab3(l) \in 1..Len(l) /\ Tab4(l) \in 1..(Len(l) + 1)
        BY <1>2, <1>3 DEF Clean
      <3>3. QED
        BY <3>1, <3>2, OwnStretch, ZenonT(30)
    <2>2. QED
      BY <2>1 DEF FieldOf
  <1>8. Between(l, Tab5(l), Tab6(l)) = FieldOf(t, 6)
    <2>1. Between(l, Tab5(l), Tab6(l)) = SubSeq(LineOf(t), Sep[5] + 1, Sep[6] - 1)
      <3>1. 0 < Sep[5] /\ Sep[5] \in Nat /\ Sep[6] \in Nat /\ Sep[6] <= Sep[8]
        BY <1>5
      <3>2. /\ o + Tab5(l) = Sep[5] /\ o + Tab6(l) = Sep[6] /\ Tab5(l) < Tab6(l)
            /\ Tab5(l) \in 1..Len(l) /\ Tab6(l) \in 1..(Len(l) + 1)
        BY <1>2, <1>3 DEF Clean
      <3>3. QED
        BY <3>1, <3>2, OwnStretch, ZenonT(30)
    <2>2. QED
      BY <2>1 DEF FieldOf
  <1>9. Between(l, Tab7(l), Len(l) + 1) \in BeginningOf(t, 8)
    <2> DEFINE m == o + Len(l)
    <2>1. 0 < Sep[7] /\ Sep[7] \in Nat /\ Sep[8] \in Nat /\ o + Tab7(l) = Sep[7]
      BY <1>5, Ends DEF Clean
    <2>2. Tab7(l) + 1 < Len(l) + 1 /\ Tab7(l) \in Int
      BY <1>1, <1>2, <1>3 DEF Number
    <2>3. m + 1 \in Nat /\ o + (Len(l) + 1) = m + 1 /\ m + 1 <= Sep[8] /\ (m + 1) - 1 = m
          /\ m \in (Sep[7] + 1)..(Sep[8] - 1) /\ Tab7(l) < Len(l) + 1 /\ Len(l) + 1 \in 1..(Len(l) + 1)
      BY <1>3, <2>1, <2>2
    <2> HIDE DEF m
    <2>4. Between(l, Tab7(l), Len(l) + 1) = SubSeq(LineOf(t), Sep[7] + 1, (m + 1) - 1)
      <3>1. Tab7(l) \in 1..Len(l) /\ Tab7(l) < Len(l) + 1 /\ Len(l) + 1 \in 1..(Len(l) + 1)
        BY <1>2, <2>3
      <3>2. o + Tab7(l) = Sep[7] /\ o + (Len(l) + 1) = m + 1 /\ m + 1 \in Nat /\ m + 1 <= Sep[8]
        BY <2>1, <2>3
      <3>3. QED
        BY <2>1, <3>1, <3>2, OwnStretch, ZenonT(30)
    <2>5. Between(l, Tab7(l), Len(l) + 1) = SubSeq(LineOf(t), Sep[7] + 1, m)
      BY <2>3, <2>4
    <2>6. BeginningOf(t, 8) = {SubSeq(LineOf(t), Sep[7] + 1, i) : i \in (Sep[7] + 1)..(Sep[8] - 1)}
      BY DEF BeginningOf
    <2>7. QED
      BY <2>3, <2>5, <2>6
  <1>10. QED
    BY <1>6, <1>7, <1>8, <1>9 DEF format_line

\* When every line can be parsed, none has the end of the one before in front of it that
\* could pass for its own: that end is past all that was collected, its fifth tab included.
LEMMA AllClean ==
  ASSUME IInv, NEW k \in Test, Len(lines) = N, \A i \in Test : Parses(lines[i]),
         NEW o \in Int, NEW g \in From(k)..Sep[8], Mixed(lines[k], k, g, o)
  PROVE  Clean(lines[k], o)
  <1>1. DOMAIN lines = Test
    BY Tests, LenProperties DEF IInv, TypeOK
  <1>2. \A i \in Test : lines[i] \in Seq(Byte) /\ Len(lines[i]) \in Nat /\ From(i) \in Nat /\ Past <= From(i)
    BY <1>1, CollectedLine
  <1>3. g \in Nat /\ From(k) <= g /\ Past <= g /\ Past \in Nat /\ Sep[5] \in Nat
    BY <1>2, SepFacts
  <1>4. Clean(lines[k], o) \/ Shifted(lines[k], g, o)
    BY <1>2, <1>3, ParsedLine
  <1>5. SUFFICES ASSUME Shifted(lines[k], g, o) PROVE FALSE
    BY <1>4
  <1>6. k - 1 \in Test
    <2> DEFINE a == Tab1(lines[k])
    <2>1. Tab7(lines[k]) <= Len(lines[k])
      BY DEF Parses
    <2>2. a \in 1..Len(lines[k])
      BY <1>2, <2>1, TabFacts
    <2>3. ~(o + a > 0)
      <3>1. o + a <= 0 /\ a \in Int
        BY <1>2, <1>5, <2>2 DEF Shifted
      <3>2. QED
        BY <3>1
    <2> HIDE DEF a
    <2>4. lines[k][a] = <<k - 1, g + a>>
      BY <2>2, <2>3 DEF Mixed
    <2>5. lines[k][a][1] \in Test
      BY <1>2, <2>2, Bytes
    <2>6. QED
      BY <2>4, <2>5
  <1>7. From(k) = Reached(k - 1)
    <2>1. ~(k <= 1)
      BY <1>6, Tests
    <2>2. QED
      BY <2>1 DEF From
  <1>8. Sep[5] < Reached(k - 1)
    <2> DEFINE l == lines[k - 1]
    <2>1. PICK p \in Int :
            Past <= p + Len(l) /\ \E h \in From(k - 1)..Sep[8] : Mixed(l, k - 1, h, p)
      BY <1>1, <1>6, CollectedLine
    <2>2. PICK h \in From(k - 1)..Sep[8] : Mixed(l, k - 1, h, p)
      BY <2>1
    <2>3. h \in Nat /\ Past <= h /\ l \in Seq(Byte) /\ Len(l) \in Nat /\ Parses(l)
      BY <1>2, <1>3, <1>6, SepFacts
    <2>4. Reached(k - 1) = l[Len(l)][2]
      BY DEF Reached
    <2> HIDE DEF l
    <2>5. Sep[5] < p + Len(l)
      BY <2>2, <2>3, ParsedLine
    <2>6. Len(l) \in 1..Len(l)
      <3>1. Tab7(l) <= Len(l)
        BY <2>3 DEF Parses
      <3>2. Tab7(l) \in 1..Len(l)
        BY <2>3, <3>1, TabFacts
      <3>3. QED
        BY <2>3, <3>2
    <2>7. p + Len(l) > 0
      BY <1>3, <2>3, <2>5
    <2>8. l[Len(l)] = <<k - 1, p + Len(l)>>
      BY <2>2, <2>6, <2>7 DEF Mixed
    <2>9. QED
      BY <2>4, <2>5, <2>8
  <1>9. QED
    BY <1>2, <1>3, <1>5, <1>7, <1>8 DEF Shifted

\* Whenever the driver is stopped, the file holds the results of the first tests in their
\* order, each with the operands and instructions of its test and the first digits of its
\* cycles (collect_lines, format_lines and the loop that writes).
THEOREM ResultsComeInOrder == Spec => []ResultsInOrder
  <1>1. IInv => ResultsInOrder
    <2> SUFFICES ASSUME IInv PROVE ResultsInOrder
      OBVIOUS
    <2>1. /\ output \in Seq(Result) /\ Len(output) \in Nat /\ DOMAIN output = 1..Len(output)
          /\ Len(output) <= N /\ N \in Nat /\ Test = 1..N
          /\ \A k \in DOMAIN output : output[k] = format_line(lines[k])
          /\ output # <<>> => Len(lines) = N /\ \A k \in Test : Parses(lines[k])
          /\ pc = "done" => Len(output) = N
      BY Tests, LenProperties DEF IInv, TypeOK, CountInv
    <2>2. ASSUME output # <<>> PROVE built = Test
      <3>1. DOMAIN lines = Test
        BY <2>1, <2>2, LenProperties DEF IInv, TypeOK
      <3>2. QED
        BY <3>1 DEF IInv, LineInv, TypeOK
    <2>3. ASSUME NEW k \in DOMAIN output
          PROVE  /\ output[k].op1 = FieldOf(k, 2) /\ output[k].op2 = FieldOf(k, 4)
                 /\ output[k].instrs = FieldOf(k, 6) /\ output[k].cycles \in BeginningOf(k, 8)
      <3>1. output # <<>> /\ k \in Test
        <4>1. /\ k \in 1..Len(output) /\ Len(output) \in Nat /\ Len(output) <= N /\ N \in Nat
              /\ Test = 1..N
          BY <2>1
        <4>2. k \in Test /\ Len(output) # 0
          BY ONLY <4>1
        <4>3. Len(<<>>) = 0
          BY EmptySeq
        <4>4. QED
          BY ONLY <4>2, <4>3
      <3>2. Len(lines) = N /\ \A i \in Test : Parses(lines[i])
        BY <2>1, <3>1
      <3>3. DOMAIN lines = Test
        BY <2>1, <3>2, LenProperties DEF IInv, TypeOK
      <3>4. PICK o \in Int :
              /\ o + Len(lines[k]) < Sep[8]
              /\ \E g \in From(k)..Sep[8] : Mixed(lines[k], k, g, o)
        BY <3>1, <3>3, CollectedLine
      <3>5. PICK g \in From(k)..Sep[8] : Mixed(lines[k], k, g, o)
        BY <3>4
      <3>6. Clean(lines[k], o)
        BY <3>1, <3>2, <3>5, AllClean
      <3>7. lines[k] \in Seq(Byte) /\ Parses(lines[k])
        BY <3>1, <3>2, <3>3, CollectedLine
      <3>8. output[k] = format_line(lines[k])
        BY <2>1
      <3> DEFINE l == lines[k]
      <3>9. l \in Seq(Byte) /\ Parses(l) /\ Clean(l, o) /\ o + Len(l) < Sep[8] /\ Mixed(l, k, g, o)
        BY <3>4, <3>5, <3>6, <3>7
      <3> HIDE DEF l
      <3>10. /\ format_line(l).op1 = FieldOf(k, 2) /\ format_line(l).op2 = FieldOf(k, 4)
             /\ format_line(l).instrs = FieldOf(k, 6) /\ format_line(l).cycles \in BeginningOf(k, 8)
        BY <3>1, <3>9, CleanResult
      <3>11. QED
        BY <3>8, <3>10 DEF l
    <2>4. QED
      BY <2>1, <2>2, <2>3 DEF ResultsInOrder
  <1>2. QED
    BY <1>1, InvariantHolds, PTL

\* Lines that reach the host in one piece are collected whole.
THEOREM WholeLinesStayWhole == Spec => []WholeLinesKept
  <1>1. IInv => WholeLinesKept
    BY DEF IInv, WholeInv, WholeLinesKept
  <1>2. QED
    BY <1>1, InvariantHolds, PTL
================================================================================
