----------------------------- MODULE RequestProofs -----------------------------
(***************************************************************************)
(* A considerate client gets for each request the answer to that request,  *)
(* for any streams, any segments they come in, any limits, and whatever    *)
(* other clients do.                                                       *)
(***************************************************************************)
EXTENDS AnswerProofs, FiniteSetTheorems

-------------------------------------------------------------------------------
(* Where the requests of a stream begin and end *)

LEMMA Remainder ==
  ASSUME NEW a \in Nat, NEW b \in Nat, NEW d \in Nat, a + 1 + b <= d
  PROVE  \E m \in Nat : d = a + 1 + m /\ b <= m
<1>1. d - a - 1 \in Nat /\ d = a + 1 + (d - a - 1) /\ b <= d - a - 1
  OBVIOUS
<1> QED
  BY <1>1

LEMMA BegunSteps ==
  ASSUME NEW c, NEW n \in Nat
  PROVE  /\ Begun(c, n) \in Nat /\ Begun(c, 0) = 0
         /\ Begun(c, n + 1) =
              IF Stream[c][n + 1].kind = "line" THEN Begun(c, n) + 1 ELSE Begun(c, n)
<1> DEFINE Lines(m) == {i \in 1..m : Stream[c][i].kind = "line"}
<1>1. IsFiniteSet(Lines(n)) /\ Begun(c, n) = Cardinality(Lines(n))
  <2>1. Lines(n) \in SUBSET (1..n) /\ IsFiniteSet(1..n)
    BY FS_Interval
  <2> QED
    BY <2>1, FS_Subset DEF Begun
<1>2. Begun(c, n) \in Nat
  BY <1>1, FS_CardinalityType
<1>3. Begun(c, 0) = 0
  <2>1. {i \in 1..0 : Stream[c][i].kind = "line"} = {}
    OBVIOUS
  <2> QED
    BY <2>1, FS_EmptySet DEF Begun
<1>4. CASE Stream[c][n + 1].kind = "line"
  <2>1. Lines(n + 1) = Lines(n) \cup {n + 1} /\ n + 1 \notin Lines(n)
    BY <1>4
  <2>2. Cardinality(Lines(n) \cup {n + 1}) = Cardinality(Lines(n)) + 1
    BY <1>1, <2>1, FS_AddElement
  <2> QED
    BY <1>1, <1>2, <1>3, <1>4, <2>1, <2>2 DEF Begun
<1>5. CASE Stream[c][n + 1].kind # "line"
  <2>1. Lines(n + 1) = Lines(n)
    BY <1>5
  <2> QED
    BY <1>1, <1>2, <1>3, <1>5, <2>1 DEF Begun
<1> QED
  BY <1>4, <1>5

LEMMA BegunGrows ==
  ASSUME NEW c, NEW m \in Nat, NEW n \in Nat, m < n
  PROVE  /\ Begun(c, m) <= Begun(c, n)
         /\ Stream[c][n].kind = "line" => Begun(c, m) < Begun(c, n)
         /\ (\A i \in (m + 1)..n : Stream[c][i].kind # "line")
              => Begun(c, n) = Begun(c, m)
<1> DEFINE Lines(k) == {i \in 1..k : Stream[c][i].kind = "line"}
<1>1. \A k \in Nat : IsFiniteSet(Lines(k)) /\ Begun(c, k) = Cardinality(Lines(k))
  <2> SUFFICES ASSUME NEW k \in Nat
               PROVE  IsFiniteSet(Lines(k)) /\ Begun(c, k) = Cardinality(Lines(k))
    OBVIOUS
  <2>1. Lines(k) \in SUBSET (1..k) /\ IsFiniteSet(1..k)
    BY FS_Interval
  <2> QED
    BY <2>1, FS_Subset DEF Begun
<1>2. Begun(c, m) <= Begun(c, n)
  <2>1. Lines(m) \in SUBSET Lines(n)
    OBVIOUS
  <2> HIDE DEF Lines
  <2>2. Cardinality(Lines(m)) <= Cardinality(Lines(n))
    BY <1>1, <2>1, FS_Subset
  <2> QED
    BY <1>1, <2>2
<1>3. ASSUME Stream[c][n].kind = "line" PROVE Begun(c, m) < Begun(c, n)
  <2>1. Lines(m) \in SUBSET Lines(n) /\ n \in Lines(n) /\ n \notin Lines(m)
    BY <1>3
  <2> HIDE DEF Lines
  <2>2. Cardinality(Lines(m)) # Cardinality(Lines(n))
    BY <1>1, <2>1, FS_Subset
  <2>3. Begun(c, m) \in Nat /\ Begun(c, n) \in Nat
    BY BegunSteps
  <2> QED
    BY <1>1, <1>2, <2>2, <2>3
<1>4. ASSUME \A i \in (m + 1)..n : Stream[c][i].kind # "line"
      PROVE  Begun(c, n) = Begun(c, m)
  <2>1. \A i \in 1..n : i \in 1..m \/ i \in (m + 1)..n
    OBVIOUS
  <2>2. Lines(n) = Lines(m)
    BY <1>4, <2>1
  <2> QED
    BY <2>2 DEF Begun
<1> QED
  BY <1>2, <1>3, <1>4

(* The line that is the n-th of a stream is found by its number.            *)
LEMMA LineByNumber ==
  ASSUME NEW c \in Conns, NEW i \in DOMAIN Stream[c], Stream[c][i].kind = "line"
  PROVE  StartOf(c, Begun(c, i)) = i
<1> DEFINE P(j) == Stream[c][j].kind = "line" /\ Begun(c, j) = Begun(c, i)
<1>1. DOMAIN Stream[c] \subseteq Nat
  BY ConnsAssumption, LenProperties
<1>2. ASSUME NEW j \in DOMAIN Stream[c], P(j) PROVE j = i
  <2>1. i \in Nat /\ j \in Nat /\ Begun(c, i) \in Nat
    BY <1>1, BegunSteps
  <2>2. CASE i < j
    BY <1>2, <2>1, <2>2, BegunGrows
  <2>3. CASE j < i
    BY <1>2, <2>1, <2>3, BegunGrows
  <2> QED
    BY <2>1, <2>2, <2>3
<1>3. P(i)
  OBVIOUS
<1>4. StartOf(c, Begun(c, i)) = CHOOSE j \in DOMAIN Stream[c] : P(j)
  BY DEF StartOf
<1> HIDE DEF P
<1> QED
  BY <1>2, <1>3, <1>4

LEMMA NumberHasLine ==
  ASSUME NEW c \in Conns, NEW n \in 1..Begun(c, Len(Stream[c]))
  PROVE  /\ StartOf(c, n) \in 1..Len(Stream[c])
         /\ Stream[c][StartOf(c, n)].kind = "line"
         /\ Begun(c, StartOf(c, n)) = n
<1>1. PICK L \in Nat : L = Len(Stream[c]) /\ DOMAIN Stream[c] = 1..L
  BY ConnsAssumption, LenProperties
<1> DEFINE I == {i \in 0..L : n <= Begun(c, i)}
           i == First(I)
<1>2. I \in SUBSET Nat /\ L \in I
  BY <1>1
<1>3. i \in I /\ \A j \in I : i <= j
  BY <1>2, FirstType
<1>4. i \in 0..L /\ n <= Begun(c, i)
  BY <1>3
<1> HIDE DEF i
<1>5. i # 0
  <2>1. Begun(c, 0) = 0
    BY BegunSteps
  <2> QED
    BY <1>4, <2>1
<1>6. PICK k \in Nat : i = k + 1
  <2>1. i - 1 \in Nat /\ i = (i - 1) + 1
    BY <1>1, <1>4, <1>5
  <2> QED
    BY <2>1
<1>7. ~(n <= Begun(c, k))
  BY <1>1, <1>3, <1>4, <1>6
<1>8. Stream[c][i].kind = "line" /\ Begun(c, i) = n
  <2>1. Begun(c, k) \in Nat
    BY BegunSteps
  <2>2. Begun(c, i) = IF Stream[c][i].kind = "line" THEN Begun(c, k) + 1 ELSE Begun(c, k)
    BY <1>6, BegunSteps
  <2> QED
    BY <1>4, <1>7, <2>1, <2>2
<1>9. i \in DOMAIN Stream[c]
  BY <1>1, <1>4, <1>5
<1> QED
  BY <1>1, <1>8, <1>9, LineByNumber

(* What is known of the stream of a considerate client.                     *)
LEMMA ConsiderateStream ==
  ASSUME NEW c \in ConsiderateClients, NEW S, S = Stream[c], NEW L, L = Len(S)
  PROVE  /\ c \in Conns /\ c \in Patient
         /\ S \in Seq(Piece) /\ L \in Nat /\ DOMAIN S = 1..L
         /\ \A i \in 1..L : /\ S[i] \in Piece /\ S[i].pos = i
                           /\ S[i].kind \notin {"nul", "cut"}
         /\ 1 \in 1..L => S[1].kind = "line"
         /\ \A i \in 1..L : S[i].kind = "line" =>
              /\ i \notin Cuts[c] /\ i + 1 \in 1..L
              /\ S[i + 1].kind = "fields" /\ S[i + 1].req = S[i].req
<1>1. c \in Conns /\ Considerate(c)
  BY DEF ConsiderateClients
<1>2. S \in Seq(Piece) /\ L \in Nat /\ DOMAIN S = 1..L
  BY <1>1, ConnsAssumption, LenProperties
<1>3. \A i \in 1..L : S[i] \in Piece /\ S[i].pos = i
  BY <1>1, <1>2, PositionsAssumption, ElementOfSeq
<1>4. \A i \in 1..L : S[i].kind \notin {"nul", "cut"}
  BY <1>1, <1>2, PositionsAssumption DEF Considerate
<1> QED
  BY <1>1, <1>2, <1>3, <1>4 DEF Considerate

(* Between two requests of a stream, or at its end.                         *)
AtBoundary(c, g) == g = Len(Stream[c]) \/ Stream[c][g + 1].kind = "line"

(* The n-th request is what stands between its line and the next one.       *)
LEMMA RequestPlace ==
  ASSUME NEW c \in ConsiderateClients, NEW L, L = Len(Stream[c]),
         NEW n \in 1..Begun(c, L),
         NEW s, s = StartOf(c, n), NEW e, e = EndOf(c, n)
  PROVE  /\ s \in 1..L /\ e \in 1..L /\ s + 1 <= e
         /\ Stream[c][s].kind = "line" /\ Begun(c, s) = n
         /\ AtBoundary(c, e) /\ Begun(c, e) = n
         /\ \A x \in 0..L : Begun(c, x) <= n => x <= e
         /\ \A x \in 0..L : n <= Begun(c, x) => s <= x
<1>1. /\ c \in Conns /\ L \in Nat
      /\ \A i \in 1..L : Stream[c][i].kind = "line" =>
           i + 1 \in 1..L /\ Stream[c][i + 1].kind = "fields"
  BY ConsiderateStream
<1>2. s \in 1..L /\ Stream[c][s].kind = "line" /\ Begun(c, s) = n
  BY <1>1, NumberHasLine
<1>3. s + 1 \in 1..L /\ Stream[c][s + 1].kind # "line"
  BY <1>1, <1>2
<1>4. n \in Nat /\ n <= Begun(c, L) /\ Begun(c, L) \in Nat
  BY <1>1, BegunSteps
<1>5. \A x \in 0..L : n <= Begun(c, x) => s <= x
  <2> SUFFICES ASSUME NEW x \in 0..L, n <= Begun(c, x) PROVE s <= x
    OBVIOUS
  <2>1. Begun(c, x) \in Nat
    BY BegunSteps
  <2>2. x < s => Begun(c, x) < n
    BY <1>2, BegunGrows
  <2> QED
    BY <1>2, <1>4, <2>1, <2>2
<1>6. /\ e \in 1..L /\ s + 1 <= e
      /\ AtBoundary(c, e) /\ Begun(c, e) = n
      /\ \A x \in 0..L : Begun(c, x) <= n => x <= e
  <2>1. CASE n = Begun(c, L)
    BY <1>1, <1>3, <2>1 DEF EndOf, AtBoundary
  <2>2. CASE n # Begun(c, L)
    <3>1. PICK t : t = StartOf(c, n + 1)
      OBVIOUS
    <3>2. n + 1 \in 1..Begun(c, L)
      BY <1>4, <2>2
    <3>3. t \in 1..L /\ Stream[c][t].kind = "line" /\ Begun(c, t) = n + 1
      BY <1>1, <3>1, <3>2, NumberHasLine
    <3>4. s < t
      <4>1. t # s
        BY <1>2, <1>4, <3>3
      <4>2. s <= t
        BY <1>4, <1>5, <3>3
      <4> QED
        BY <1>2, <3>3, <4>1, <4>2
    <3>5. t # s + 1
      BY <1>3, <3>3
    <3>6. e = t - 1
      BY <2>2, <3>1 DEF EndOf
    <3>7. PICK k \in Nat : k = e /\ t = k + 1
      BY <1>2, <3>3, <3>4, <3>6
    <3>8. k \in 1..L /\ s + 1 <= k
      BY <1>2, <3>3, <3>4, <3>5, <3>7
    <3>9. AtBoundary(c, k)
      BY <3>3, <3>7 DEF AtBoundary
    <3>10. Begun(c, k) = n
      <4>1. Begun(c, k) \in Nat
        BY BegunSteps
      <4>2. Begun(c, k + 1) = Begun(c, k) + 1
        BY <3>3, <3>7, BegunSteps
      <4> QED
        BY <1>4, <3>3, <3>7, <4>1, <4>2
    <3>11. ASSUME NEW x \in 0..L, Begun(c, x) <= n PROVE x <= k
      <4>1. CASE x = t
        BY <1>4, <3>3, <3>11, <4>1
      <4>2. CASE t < x
        <5>1. t \in Nat /\ x \in Nat
          BY <3>3
        <5>2. Begun(c, t) <= Begun(c, x)
          BY <4>2, <5>1, BegunGrows
        <5>3. Begun(c, x) \in Nat
          BY <5>1, BegunSteps
        <5> QED
          BY <1>4, <3>3, <3>11, <5>2, <5>3
      <4> QED
        BY <3>3, <3>7, <4>1, <4>2
    <3> QED
      BY <3>7, <3>8, <3>9, <3>10, <3>11
  <2> QED
    BY <2>1, <2>2
<1> QED
  BY <1>2, <1>5, <1>6

\* The first pieces of the n-th request: its header, and k behind it.
Beginning(c, n, k) == SubSeq(Stream[c], StartOf(c, n), StartOf(c, n) + 1 + k)

LEMMA RequestText ==
  ASSUME NEW c \in ConsiderateClients, NEW n \in 1..Begun(c, Len(Stream[c])),
         NEW s, s = StartOf(c, n), NEW k \in Nat, s + 1 + k <= EndOf(c, n),
         NEW text, text = Beginning(c, n, k),
         NEW rest, rest = fetchUnparsedBody(text)
  PROVE  /\ text \in Seq(Piece) /\ Len(text) = k + 2
         /\ Stream[c][s] \in Piece /\ text[1] = Stream[c][s]
         /\ HeaderEnds(text) # {} /\ IsHeader(fetchUnparsedHeader(text))
         /\ rest \in Seq(Piece) /\ Len(rest) = k
         /\ rest = SubSeq(Stream[c], s + 2, s + 1 + k)
         /\ \A i \in 1..k : rest[i] = Stream[c][s + 1 + i] /\ rest[i].kind # "cut"
<1>1. PICK S, L : S = Stream[c] /\ L = Len(Stream[c])
  OBVIOUS
<1>2. /\ S \in Seq(Piece) /\ L \in Nat /\ DOMAIN S = 1..L
      /\ \A i \in 1..L : /\ S[i] \in Piece /\ S[i].pos = i
                        /\ S[i].kind \notin {"nul", "cut"}
      /\ \A i \in 1..L : S[i].kind = "line" =>
           /\ i + 1 \in 1..L
           /\ S[i + 1].kind = "fields" /\ S[i + 1].req = S[i].req
  <2>1. L = Len(S)
    BY <1>1
  <2>2. S \in Seq(Piece) /\ L \in Nat /\ DOMAIN S = 1..L
    BY <1>1, <2>1, ConsiderateStream
  <2>3. \A i \in 1..L : /\ S[i] \in Piece /\ S[i].pos = i
                      /\ S[i].kind \notin {"nul", "cut"}
    BY <1>1, <2>1, ConsiderateStream
  <2>4. \A i \in 1..L : S[i].kind = "line" =>
          /\ i + 1 \in 1..L
          /\ S[i + 1].kind = "fields" /\ S[i + 1].req = S[i].req
    BY <1>1, <2>1, ConsiderateStream
  <2> QED
    BY <2>2, <2>3, <2>4
<1>3. PICK e \in 1..L : s \in 1..L /\ s + 1 + k <= e /\ S[s].kind = "line"
  BY <1>1, RequestPlace
<1>4. PICK m \in Nat : s = m + 1
  <2>1. s - 1 \in Nat /\ s = (s - 1) + 1
    BY <1>2, <1>3
  <2> QED
    BY <2>1
<1>5. PICK u \in Nat : u = s + 1 + k /\ u = m + 2 + k
  BY <1>4
<1>6. L \in Nat /\ m <= u /\ u <= Len(S) /\ u <= L /\ m + 2 <= u
  BY <1>1, <1>2, <1>3, <1>4, <1>5
<1>7. text = SubSeq(S, m + 1, u)
  BY <1>1, <1>4, <1>5 DEF Beginning
<1>elements.
      /\ text \in Seq(Piece) /\ Len(text) = u - m
      /\ \A j \in 1..(u - m) : text[j] = S[m + j]
  <2>1. S \in Seq(Piece) /\ m \in Nat /\ u \in Nat /\ m <= u /\ u <= Len(S)
    BY <1>2, <1>6
  <2>2. LET sub == SubSeq(S, m + 1, u)
        IN  /\ sub \in Seq(Piece) /\ Len(sub) = u - m
            /\ \A j \in 1..(u - m) : sub[j] = S[m + j]
    BY <2>1, SubTextElements
  <2> QED
    BY <1>7, <2>2, Zenon
<1>8. text \in Seq(Piece) /\ Len(text) = u - m
  BY <1>elements
<1>9. \A j \in 1..(u - m) : text[j] = S[m + j]
  BY <1>elements
<1>10. /\ text[1] = S[s] /\ text[2] = S[s + 1]
      /\ S[s + 1].kind = "fields" /\ S[s + 1].req = S[s].req
      /\ S[s + 1].pos = s + 1 /\ S[s].pos = s
  <2>1. 1 \in 1..(u - m) /\ 2 \in 1..(u - m) /\ m + 1 = s /\ m + 2 = s + 1
    BY <1>4, <1>5, <1>6
  <2>2. text[1] = S[s] /\ text[2] = S[s + 1]
    BY <1>9, <2>1
  <2> QED
    BY <1>2, <1>3, <2>2
<1>11. Framed(text, S[s])
  BY <1>3, <1>5, <1>6, <1>8, <1>10 DEF Framed
<1>12. HeaderEnds(text) # {} /\ findHeaderEnd(text) = 2
  BY <1>8, <1>11, FramedHeaderEnd
<1>13. IsHeader(fetchUnparsedHeader(text))
  <2>1. PICK head : head = fetchUnparsedHeader(text) /\ head = SubSeq(text, 1, 2)
    BY <1>12 DEF fetchUnparsedHeader
  <2>2. Len(head) = 2 /\ \A j \in 1..2 : head[j] = text[j]
    <3>1. 2 <= Len(text)
      BY <1>5, <1>6, <1>8
    <3>2. Len(head) = 2
      BY <1>8, <2>1, <3>1, FrontElements
    <3>3. \A j \in 1..2 : head[j] = text[j]
      BY <1>8, <2>1, <3>1, FrontElements
    <3> QED
      BY <3>2, <3>3
  <2> QED
    <3>1. head[1] = S[s] /\ head[2] = S[s + 1]
      <4>1. 1 \in 1..2 /\ 2 \in 1..2
        OBVIOUS
      <4> QED
        BY <1>10, <2>2, <4>1
    <3>2. IsHeader(head)
      BY <1>3, <1>10, <2>2, <3>1 DEF IsHeader
    <3> QED
      BY <2>1, <3>2
<1>14. /\ rest \in Seq(Piece) /\ Len(rest) = Len(text) - 2
       /\ \A j \in 1..(Len(text) - 2) : rest[j] = text[2 + j]
  BY <1>8, <1>11, FramedBody, Zenon
<1>15. k = u - m - 2 /\ k = u - s - 1 /\ k = Len(text) - 2
  BY <1>4, <1>5, <1>6, <1>8, SMTT(30)
<1>16. \A j \in 1..k : rest[j] = S[s + 1 + j] /\ s + 1 + j \in 1..L
  <2> SUFFICES ASSUME NEW j \in 1..k
               PROVE  rest[j] = S[s + 1 + j] /\ s + 1 + j \in 1..L
    OBVIOUS
  <2>1. 2 + j \in 1..(u - m) /\ m + (2 + j) = s + 1 + j /\ s + 1 + j \in 1..L
    BY <1>4, <1>5, <1>6, <1>15
  <2>2. rest[j] = text[2 + j]
    BY <1>14, <1>15
  <2> QED
    BY <1>9, <2>1, <2>2
<1>17. rest = SubSeq(S, s + 2, u)
  <2>1. PICK a \in Nat : a = s + 1
    BY <1>4
  <2>2. a <= u /\ u <= Len(S)
    BY <1>4, <1>5, <1>6, <2>1
  <2>whole. S \in Seq(Piece)
    BY <1>2
  <2>3. u - a = k
    BY <1>4, <1>5, <2>1
  <2>4. PICK t : t = SubSeq(S, a + 1, u)
    OBVIOUS
  <2>5. t \in Seq(Piece) /\ Len(t) = k
    <3>1. t \in Seq(Piece) /\ Len(t) = u - a
      BY <2>2, <2>4, <2>whole, SubTextElements
    <3> QED
      BY <2>3, <3>1
  <2>6. \A j \in 1..k : t[j] = S[a + j]
    <3>1. \A j \in 1..(u - a) : t[j] = S[a + j]
      BY <2>2, <2>4, <2>whole, SubTextElements
    <3> QED
      BY <2>3, <3>1
  <2>7. Len(rest) = k /\ \A j \in 1..k : rest[j] = t[j]
    BY <1>14, <1>15, <1>16, <2>1, <2>6
  <2>8. rest = t
    BY <1>14, <2>5, <2>7, SeqEqual
  <2>9. a + 1 = s + 2
    BY <1>4, <2>1
  <2> QED
    BY <1>5, <2>4, <2>8, <2>9
<1>18. \A i \in 1..k : rest[i] = S[s + 1 + i] /\ rest[i].kind # "cut"
  BY <1>2, <1>16
<1>19. Len(text) = k + 2
  BY <1>4, <1>5, <1>6, <1>8, SMTT(30)
<1>20. S[s] \in Piece
  BY <1>2, <1>3
<1>21. Len(rest) = k
  BY <1>14, <1>15
<1> QED
  BY <1>1, <1>5, <1>8, <1>10, <1>12, <1>13, <1>14, <1>15, <1>17, <1>18, <1>19, <1>20, <1>21

-------------------------------------------------------------------------------
(* What the blocks of parse() make of a request *)

(* A length is compared as what it says; a negative one is too much.        *)
LEMMA SaneLength ==
  ASSUME SizesAreSane, NEW r \in Requests, NEW x, x = Header[r].length
  PROVE  /\ x \in Int
         /\ x >= 0 => contentLength(Header[r]) = x
         /\ x < 0 => contentLength(Header[r]) > MaxBody
<1>1. x \in Int
  BY HeaderAssumption DEF HeaderFields
<1>2. /\ SizeRange \in Nat /\ MaxBody \in Nat /\ SizeRange > 0
      /\ MaxBody - SizeRange < x /\ x < SizeRange
  BY LimitsAssumption DEF SizesAreSane
<1>3. \A b, y \in Nat : y < b => y % b = y
  OBVIOUS
<1>4. \A b, y \in Nat : 0 < y /\ y < b => (y - b) % b = y
  OBVIOUS
<1>5. x >= 0 => x % SizeRange = x
  BY <1>1, <1>2, <1>3
<1>6. x < 0 => x % SizeRange > MaxBody
  <2> SUFFICES ASSUME x < 0 PROVE x % SizeRange > MaxBody
    OBVIOUS
  <2>1. PICK y \in Nat : y = x + SizeRange
    BY <1>1, <1>2
  <2>2. 0 < y /\ y < SizeRange /\ y > MaxBody /\ x = y - SizeRange
    BY <1>1, <1>2, <2>1
  <2> QED
    BY <1>2, <1>4, <2>2
<1> QED
  BY <1>1, <1>5, <1>6 DEF contentLength

(* A header is refused for its own fault, or is the one of the request.     *)
LEMMA RequestHeaderRead ==
  ASSUME NEW c \in ConsiderateClients, NEW n \in 1..Begun(c, Len(Stream[c])),
         NEW s, s = StartOf(c, n), NEW k \in Nat, s + 1 + k <= EndOf(c, n),
         NEW text, text = Beginning(c, n, k), NEW h, h = Stream[c][s],
         NEW p \in GoodParser, p.status = "HEADER", p.header = NoHeader,
         NEW port \in ports, NEW q \in parseRequestHeader(p, text, port)
  PROVE  IF Header[h.req].code # "200"
         THEN q.status = "ERROR" /\ q.header = NoHeader
         ELSE /\ q \in Parser /\ q.header = h /\ q.chunked = <<>>
              /\ q.status = IF Header[h.req].chunked THEN "CHUNKED" ELSE "BODY"
<1>1. /\ text \in Seq(Piece) /\ h \in Piece /\ text[1] = h
      /\ HeaderEnds(text) # {} /\ IsHeader(fetchUnparsedHeader(text))
  <2>1. PICK rest : rest = fetchUnparsedBody(text)
    OBVIOUS
  <2>2. /\ text \in Seq(Piece) /\ Stream[c][s] \in Piece /\ text[1] = Stream[c][s]
        /\ HeaderEnds(text) # {} /\ IsHeader(fetchUnparsedHeader(text))
    BY <2>1, RequestText
  <2> QED
    BY <2>2
<1>2. p \in Parser
  BY DEF GoodParser
<1>3. CASE Header[h.req].code # "200"
  <2>1. q = Failed(p, Header[h.req].code)
    BY <1>1, <1>3 DEF parseRequestHeader
  <2> QED
    BY <1>2, <1>3, <2>1 DEF Failed, Parser
<1>4. CASE Header[h.req].code = "200"
  <2>1. q = [p EXCEPT
               !.header = h,
               !.conf = findServerConfig(port, Header[h.req].host),
               !.status = IF Header[h.req].chunked THEN "CHUNKED" ELSE "BODY"]
    BY <1>1, <1>4 DEF parseRequestHeader
  <2>2. q.status = (IF Header[h.req].chunked THEN "CHUNKED" ELSE "BODY") /\ q.header = h
    BY <1>2, <2>1 DEF Parser
  <2>3. q \in Parser /\ q.chunked = <<>>
    BY <1>1, <2>2, ParseHeaderType
  <2> QED
    BY <1>4, <2>2, <2>3
<1> QED
  BY <1>3, <1>4

\* HTTP lets the client make it, and getLine() can read it.
Answerable(c, n) == Acceptable(c, n) /\ Readable(c, n)

(* A body framed by its length is taken if, and only if, the request is one *)
(* that HTTP lets the client make.                                          *)
LEMMA RequestBodyRead ==
  ASSUME SizesAreSane, NEW c \in ConsiderateClients,
         NEW n \in 1..Begun(c, Len(Stream[c])),
         NEW s, s = StartOf(c, n), NEW m \in Nat, s + 1 + m = EndOf(c, n),
         NEW text, text = Beginning(c, n, m),
         NEW h, h = Stream[c][s], Header[h.req].code = "200", ~Header[h.req].chunked,
         NEW p \in Parser, p.header = h, NEW q \in parseBody(p, text)
  PROVE  /\ q.header = h /\ q.status \in {"DONE", "ERROR"}
         /\ q.status = "DONE" <=> Answerable(c, n)
<1> DEFINE rest == fetchUnparsedBody(text)
           length == Header[h.req].length
           size == contentLength(Header[h.req])
<1>1. s + 1 + m <= EndOf(c, n)
  BY ConsiderateStream, RequestPlace
<1>2. PICK r : r = rest
  OBVIOUS
<1>3. /\ h \in Piece /\ rest \in Seq(Piece) /\ Len(rest) = m
      /\ rest = Content(c, n) /\ \A i \in 1..m : rest[i].kind # "cut"
  <2>1. /\ Stream[c][s] \in Piece /\ r \in Seq(Piece) /\ Len(r) = m
        /\ r = SubSeq(Stream[c], s + 2, s + 1 + m)
        /\ \A i \in 1..m : r[i].kind # "cut"
    BY <1>1, <1>2, RequestText
  <2>2. r = Content(c, n)
    BY <2>1, Zenon DEF Content
  <2> QED
    BY <1>2, <2>1, <2>2
<1> HIDE DEF rest
<1>4. Size(rest) = m
  <2>1. DOMAIN rest = 1..m
    BY <1>3, LenProperties
  <2>2. CASE m = 0
    <3>1. rest = <<>>
      BY <1>3, <2>2, EmptySeq, SeqEqual
    <3> QED
      BY <1>3, <2>2, <3>1 DEF Size
  <2>3. CASE m # 0
    <3>1. m \in 1..m
      BY <2>3
    <3>2. rest[m].kind # "cut"
      BY <1>3, <3>1
    <3> QED
      BY <1>3, <3>2 DEF Size
  <2> QED
    BY <2>2, <2>3
<1>5. /\ length \in Int /\ size \in Nat /\ MaxBody \in Nat
      /\ length >= 0 => size = length
      /\ length < 0 => size > MaxBody
  <2>1. h.req \in Requests
    BY <1>3 DEF Piece
  <2> QED
    BY <2>1, SaneLength, ContentLengthType, LimitsAssumption
<1>6. length >= 0 => m <= length
  <2>1. ConsiderateRequest(c, n)
    BY DEF ConsiderateClients, Considerate
  <2> QED
    BY <1>3, <2>1 DEF ConsiderateRequest
<1>7. Answerable(c, n) <=> Header[h.req].numeric /\ m <= MaxBody /\ length = m
  BY <1>3 DEF Answerable, Acceptable, Readable
<1> HIDE DEF length, size
<1>8. Header[h.req].numeric /\ size <= MaxBody /\ ~(m < size) <=> Answerable(c, n)
  BY <1>5, <1>6, <1>7
<1>9. IF ~Header[h.req].numeric \/ size > MaxBody \/ m < size
      THEN \E code : q = Failed(p, code)
      ELSE q = [p EXCEPT !.status = "DONE", !.body = SubSeq(rest, 1, size)]
  BY <1>4 DEF parseBody, rest, size
<1>10. CASE \E code : q = Failed(p, code)
  <2>1. q.header = h /\ q.status = "ERROR"
    BY <1>10 DEF Failed, Parser
  <2>2. CASE ~Header[h.req].numeric \/ size > MaxBody \/ m < size
    BY <1>5, <1>8, <2>1, <2>2
  <2>3. CASE q = [p EXCEPT !.status = "DONE", !.body = SubSeq(rest, 1, size)]
    BY <2>1, <2>3 DEF Parser
  <2> QED
    BY <1>9, <2>2, <2>3
<1>11. CASE /\ ~(~Header[h.req].numeric \/ size > MaxBody \/ m < size)
            /\ q = [p EXCEPT !.status = "DONE", !.body = SubSeq(rest, 1, size)]
  <2>1. q.header = h /\ q.status = "DONE"
    BY <1>11 DEF Parser
  <2> QED
    BY <1>5, <1>8, <1>11, <2>1
<1> QED
  BY <1>9, <1>10, <1>11

\* That is all of the request; it is as much as a parser may find there.
AllOfIt(c, n, k) == StartOf(c, n) + 1 + k = EndOf(c, n)
AsMuch(c, n, k) ==
  StartOf(c, n) + 1 + k <= EndOf(c, n) /\ (Divisible(c, n) \/ AllOfIt(c, n, k))

\* With this text the chunks are what the n-th request begins with.
Continues(chunks, text, c, n, k) == chunks \o text = Beginning(c, n, k)

(* The chunks of a request are collected up to the last one; then they are  *)
(* taken if, and only if, the request is one that HTTP lets the client make *)
(* and that getLine() can read.                                             *)
LEMMA RequestChunksRead ==
  ASSUME SizesAreSane, NEW c \in ConsiderateClients,
         NEW n \in 1..Begun(c, Len(Stream[c])),
         NEW s, s = StartOf(c, n), NEW k \in Nat, AsMuch(c, n, k),
         NEW h, h = Stream[c][s], Header[h.req].code = "200", Header[h.req].chunked,
         NEW p \in Parser, p.status = "CHUNKED", p.header = h,
         NEW text, Continues(p.chunked, text, c, n, k),
         NEW q \in collectChunks(p, text)
  PROVE  /\ q.header = h
         /\ \/ q.status = "CHUNKED" /\ q.chunked = Beginning(c, n, k)
            \/ /\ q.status \in {"DONE", "ERROR"} /\ AllOfIt(c, n, k)
               /\ q.status = "DONE" <=> Answerable(c, n)
<1>1. PICK all : all = p.chunked \o text /\ all = Beginning(c, n, k)
  BY DEF Continues
<1> DEFINE r == [p EXCEPT !.chunked = all]
           rest == fetchUnparsedBody(all)
           wrong == {i \in DOMAIN rest : rest[i].kind # "data"}
           stop == First(wrong)
<1>2. PICK e \in Nat : e = EndOf(c, n) /\ s \in Nat /\ s + 1 + k <= e
  BY ConsiderateStream, RequestPlace DEF AsMuch
<1>3. PICK m \in Nat : e = s + 1 + m /\ k <= m
  BY <1>2, Remainder
<1>4. PICK content : content = Content(c, n)
  OBVIOUS
<1>5. /\ content \in Seq(Piece) /\ Len(content) = m
      /\ \A i \in 1..m : content[i] = Stream[c][s + 1 + i]
  <2>1. PICK b, t : b = Beginning(c, n, m) /\ t = fetchUnparsedBody(b)
    OBVIOUS
  <2>2. /\ t \in Seq(Piece) /\ Len(t) = m /\ t = SubSeq(Stream[c], s + 2, s + 1 + m)
        /\ \A i \in 1..m : t[i] = Stream[c][s + 1 + i]
    <3>1. s + 1 + m <= EndOf(c, n)
      BY <1>2, <1>3
    <3> QED
      BY <2>1, <3>1, RequestText
  <2> QED
    BY <1>2, <1>3, <1>4, <2>2 DEF Content
<1>6. /\ Len(all) = k + 2 /\ rest \in Seq(Piece) /\ Len(rest) = k
      /\ \A i \in 1..k : rest[i] = Stream[c][s + 1 + i]
  <2>1. PICK t : t = rest
    OBVIOUS
  <2>2. /\ Len(all) = k + 2 /\ t \in Seq(Piece) /\ Len(t) = k
        /\ \A i \in 1..k : t[i] = Stream[c][s + 1 + i]
    BY <1>1, <2>1, RequestText DEF AsMuch
  <2> QED
    BY <2>1, <2>2
<1> HIDE DEF rest
<1>7. DOMAIN content = 1..m /\ DOMAIN rest = 1..k /\ \A i \in 1..k : rest[i] = content[i]
  <2>1. DOMAIN content = 1..m /\ DOMAIN rest = 1..k
    BY <1>5, <1>6, LenProperties
  <2>2. \A i \in 1..k : i \in 1..m
    BY <1>3
  <2> QED
    BY <1>5, <1>6, <2>1, <2>2
<1>8. /\ MaxBody \in Nat /\ MaxHeader \in Nat /\ MaxHeader >= 2
      /\ m <= MaxBody \/ k = m
  <2>1. m <= MaxBody \/ s + 1 + k = e
    BY <1>2, <1>4, <1>5 DEF AsMuch, AllOfIt, Divisible
  <2>2. s + 1 + k = e => k = m
    BY <1>2, <1>3
  <2> QED
    BY <2>1, <2>2, LimitsAssumption DEF SizesAreSane
<1>9. \A i \in 1..m : /\ content[i].kind \in {"last", "crlf"} => i = m
                      /\ content[i].kind \notin {"fields", "zero", "cut"}
  <2>1. ConsiderateRequest(c, n)
    BY DEF ConsiderateClients, Considerate
  <2>2. \A i \in 1..m : /\ content[i].kind \in {"last", "crlf"} => i = m
                        /\ content[i].kind \notin {"fields", "zero"}
    BY <1>4, <1>5, <1>7, <2>1 DEF ConsiderateRequest
  <2>3. \A i \in 1..m : content[i].kind # "cut"
    <3>1. PICK L : L = Len(Stream[c])
      OBVIOUS
    <3>2. EndOf(c, n) \in 1..L /\ L \in Nat /\ s \in Nat
      BY <1>2, <3>1, ConsiderateStream, RequestPlace
    <3>3. \A i \in 1..m : s + 1 + i \in 1..L
      BY <1>2, <1>3, <3>2
    <3>4. \A j \in 1..L : Stream[c][j].kind # "cut"
      BY <3>1, ConsiderateStream
    <3>5. ASSUME NEW i \in 1..m PROVE content[i].kind # "cut"
      <4>1. s + 1 + i \in 1..L /\ content[i] = Stream[c][s + 1 + i]
        BY <1>5, <3>3
      <4> QED
        BY <3>4, <4>1
    <3> QED
      BY <3>5
  <2> QED
    BY <2>2, <2>3
<1>10. Answerable(c, n) <=>
        /\ m <= MaxBody /\ m # 0
        /\ \A i \in 1..m : content[i].kind = IF i = m THEN "last" ELSE "data"
  <2>1. content # <<>> <=> m # 0
    BY <1>5, EmptySeq, SeqEqual
  <2>2. Acceptable(c, n) <=>
          /\ m <= MaxBody /\ m # 0
          /\ \A i \in 1..m : content[i].kind \in
               IF i = m THEN {"last"} ELSE {"data", "split", "crlf"}
    BY <1>4, <1>5, <1>7, <2>1 DEF Acceptable
  <2>3. Readable(c, n) <=> \A i \in 1..m : content[i].kind \notin {"split", "crlf"}
    BY <1>4, <1>7 DEF Readable
  <2> QED
    BY <2>2, <2>3 DEF Answerable
<1>11. r \in Parser /\ r.status = "CHUNKED" /\ r.header = h /\ r.chunked = all
  <2>1. all \in Seq(Piece)
    BY <1>1, RequestText DEF AsMuch
  <2> QED
    BY <2>1 DEF Parser
<1>12. \A code : Failed(r, code).status = "ERROR" /\ Failed(r, code).header = h
  BY <1>11 DEF Failed, Parser
<1>13. q \in IF Len(all) > MaxHeader + MaxBody THEN {Failed(r, "413")}
             ELSE IF HasTerminator(rest) THEN parseChunkedBody(r, rest)
             ELSE {r}
  <2>1. MayTerminate(rest) <=> HasTerminator(rest)
    <3>1. \A i \in 1..k : rest[i].kind # "fields"
      BY <1>3, <1>7, <1>9
    <3> QED
      BY <1>7, <3>1 DEF MayTerminate
  <2> QED
    BY <1>1, <2>1 DEF collectChunks, rest
<1>14. k = m <=> AllOfIt(c, n, k)
  BY <1>2, <1>3 DEF AllOfIt
<1>15. HasTerminator(rest) => k = m /\ m # 0 /\ wrong # {}
  <2> SUFFICES ASSUME NEW i \in 1..k, rest[i].kind \in {"last", "crlf"}
               PROVE  k = m /\ m # 0 /\ wrong # {}
    BY <1>7 DEF HasTerminator
  <2>1. i \in 1..m /\ content[i].kind \in {"last", "crlf"} /\ i \in wrong
    BY <1>3, <1>7
  <2>2. i = m
    BY <1>9, <2>1
  <2> QED
    BY <1>3, <2>1, <2>2
<1>16. CASE m > MaxBody
  <2>1. ~Answerable(c, n) /\ k = m
    BY <1>8, <1>10, <1>16
  <2>2. q = r \/ q = Failed(r, "413")
    BY <1>6, <1>8, <1>13, <1>16, <2>1 DEF parseChunkedBody
  <2> QED
    BY <1>1, <1>11, <1>12, <1>14, <2>1, <2>2
<1>17. CASE m <= MaxBody /\ ~HasTerminator(rest)
  <2>1. ~(Len(all) > MaxHeader + MaxBody)
    BY <1>3, <1>6, <1>8, <1>17
  <2> QED
    BY <1>1, <1>11, <1>13, <1>17, <2>1
<1>18. CASE m <= MaxBody /\ HasTerminator(rest)
  <2>1. ~(Len(all) > MaxHeader + MaxBody) /\ ~(Len(rest) > MaxBody)
    BY <1>3, <1>6, <1>8, <1>18
  <2>2. k = m /\ m # 0 /\ stop \in 1..m /\ rest[stop].kind # "data"
        /\ \A j \in 1..m : rest[j].kind # "data" => stop <= j
    <3>1. wrong \in SUBSET Nat /\ wrong # {} /\ k = m /\ m # 0
      BY <1>7, <1>15, <1>18
    <3>2. stop \in wrong /\ \A j \in wrong : stop <= j
      BY <3>1, FirstType
    <3> QED
      BY <1>7, <3>1, <3>2
  <2>kind. rest[stop].kind \notin {"zero", "cut"}
    BY <1>7, <1>9, <2>2
  <2>3. IF rest[stop].kind # "last"
        THEN \E code \in {"400", "500"} : q = Failed(r, code)
        ELSE q = [r EXCEPT !.status = "DONE", !.body = SubSeq(rest, 1, stop - 1)]
    BY <1>13, <1>18, <2>1, <2>kind DEF parseChunkedBody
  <2> HIDE DEF stop
  <2>4. CASE rest[stop].kind # "last"
    <3>1. ~Answerable(c, n)
      BY <1>7, <1>10, <2>2, <2>4
    <3>2. q.header = h /\ q.status = "ERROR"
      BY <1>12, <2>3, <2>4
    <3> QED
      BY <1>14, <2>2, <3>1, <3>2
  <2>5. CASE rest[stop].kind = "last"
    <3>1. q.header = h /\ q.status = "DONE"
      BY <1>11, <2>3, <2>5 DEF Parser
    <3>2. stop = m
      BY <1>7, <1>9, <2>2, <2>5
    <3>3. Answerable(c, n)
      BY <1>7, <1>10, <1>18, <2>2, <2>5, <3>2
    <3> QED
      BY <1>14, <2>2, <3>1, <3>3
  <2> QED
    BY <2>4, <2>5
<1> QED
  BY <1>1, <1>8, <1>16, <1>17, <1>18

\* The parser has what the n-th request of c was found to be.
Decided(p, c, n) ==
  /\ p.header # NoHeader => p.header.pos = StartOf(c, n)
  /\ p.status = "DONE" <=> Answerable(c, n)

\* The parser collects the chunks of the n-th request of c, up to the g-th piece.
Collecting(p, c, n, g) ==
  /\ n \in 1..Begun(c, Len(Stream[c]))
  /\ p.header = Stream[c][StartOf(c, n)]
  /\ Header[p.header.req].code = "200" /\ Header[p.header.req].chunked
  /\ \E k \in Nat : /\ g = StartOf(c, n) + 1 + k /\ AsMuch(c, n, k)
                   /\ p.chunked = Beginning(c, n, k)

(* A chunked request is collected further, or is decided.                   *)
LEMMA ChunksParsed ==
  ASSUME SizesAreSane, NEW c \in ConsiderateClients,
         NEW n \in 1..Begun(c, Len(Stream[c])), NEW k \in Nat, AsMuch(c, n, k),
         NEW s, s = StartOf(c, n), NEW h, h = Stream[c][s], h \in Piece, h.pos = s,
         Header[h.req].code = "200", Header[h.req].chunked,
         NEW r \in Parser, r.status = "CHUNKED", r.header = h,
         NEW text, Continues(r.chunked, text, c, n, k),
         NEW q \in collectChunks(r, text)
  PROVE  \/ q.status = "CHUNKED" /\ Collecting(q, c, n, s + 1 + k)
         \/ /\ q.status \in {"DONE", "ERROR"} /\ AllOfIt(c, n, k)
            /\ Decided(q, c, n)
<1>1. /\ q.header = h
      /\ \/ q.status = "CHUNKED" /\ q.chunked = Beginning(c, n, k)
         \/ /\ q.status \in {"DONE", "ERROR"} /\ AllOfIt(c, n, k)
            /\ q.status = "DONE" <=> Answerable(c, n)
  BY RequestChunksRead
<1> QED
  BY <1>1 DEF Collecting, Decided

(* What parse() makes of the n-th request, or of as much of it as is there. *)
LEMMA RequestParsed ==
  ASSUME SizesAreSane, NEW c \in ConsiderateClients,
         NEW n \in 1..Begun(c, Len(Stream[c])),
         NEW s, s = StartOf(c, n), NEW k \in Nat, AsMuch(c, n, k),
         NEW h, h = Stream[c][s],
         NEW p \in GoodParser, p.status = "HEADER" => p.header = NoHeader,
         NEW text,
         IF p.status = "CHUNKED"
         THEN /\ p.header = h /\ Header[h.req].code = "200" /\ Header[h.req].chunked
              /\ Continues(p.chunked, text, c, n, k)
         ELSE text = Beginning(c, n, k),
         NEW port \in ports, NEW q \in parse(p, text, port)
  PROVE  \/ q.status = "CHUNKED" /\ Collecting(q, c, n, StartOf(c, n) + 1 + k)
         \/ /\ q.status \in {"DONE", "ERROR"} /\ AllOfIt(c, n, k)
            /\ Decided(q, c, n)
<1> DEFINE fresh == IF finished(p) \/ errorOccured(p) THEN clear(p) ELSE p
           headed == IF fresh.status = "HEADER"
                     THEN parseRequestHeader(fresh, text, port) ELSE {fresh}
<1>1. fresh \in GoodParser /\ fresh.status \in {"HEADER", "CHUNKED"}
  BY ClearGood DEF GoodParser, Parser, finished, errorOccured
<1>2. fresh.status = "HEADER" => fresh.header = NoHeader /\ p.status # "CHUNKED"
  BY DEF clear, NewParser, finished, errorOccured
<1>3. fresh.status = "CHUNKED" => fresh = p
  BY DEF clear, NewParser, finished, errorOccured
<1>4. PICK r \in headed :
        q \in IF r.status = "BODY" THEN parseBody(r, text)
              ELSE IF r.status = "CHUNKED" THEN collectChunks(r, text)
              ELSE {r}
  BY DEF parse
<1> HIDE DEF fresh
<1>5. h \in Piece /\ h.pos = s
  <2>1. PICK S, L : S = Stream[c] /\ L = Len(S) /\ L = Len(Stream[c])
    OBVIOUS
  <2>2. s \in 1..L
    BY <2>1, RequestPlace
  <2>3. \A i \in 1..L : S[i] \in Piece /\ S[i].pos = i
    BY <2>1, ConsiderateStream
  <2> QED
    BY <2>1, <2>2, <2>3
<1>6. ASSUME r \in Parser, r.status = "CHUNKED", r.header = h,
             Header[h.req].code = "200", Header[h.req].chunked,
             Continues(r.chunked, text, c, n, k)
      PROVE  \/ q.status = "CHUNKED" /\ Collecting(q, c, n, StartOf(c, n) + 1 + k)
             \/ /\ q.status \in {"DONE", "ERROR"} /\ AllOfIt(c, n, k)
                /\ Decided(q, c, n)
  <2>1. q \in collectChunks(r, text)
    BY <1>4, <1>6
  <2> QED
    BY <1>5, <1>6, <2>1, ChunksParsed
<1>7. CASE fresh.status = "CHUNKED"
  <2>1. r = p /\ p.status = "CHUNKED" /\ p \in Parser
    BY <1>3, <1>4, <1>7 DEF GoodParser
  <2> QED
    BY <1>6, <2>1
<1>8. CASE fresh.status = "HEADER"
  <2>1. text = Beginning(c, n, k) /\ text \in Seq(Piece)
    BY <1>2, <1>8, RequestText DEF AsMuch
  <2>2. IF Header[h.req].code # "200"
        THEN r.status = "ERROR" /\ r.header = NoHeader
        ELSE /\ r \in Parser /\ r.header = h /\ r.chunked = <<>>
             /\ r.status = IF Header[h.req].chunked THEN "CHUNKED" ELSE "BODY"
    <3>1. r \in parseRequestHeader(fresh, text, port)
      BY <1>4, <1>8
    <3> QED
      BY <1>1, <1>2, <1>8, <2>1, <3>1, RequestHeaderRead DEF AsMuch
  <2>3. CASE Header[h.req].code # "200"
    <3>1. q = r /\ ~Answerable(c, n) /\ ~Divisible(c, n)
      BY <1>4, <2>2, <2>3 DEF Answerable, Acceptable, Divisible
    <3> QED
      BY <2>2, <2>3, <3>1 DEF Decided, AsMuch
  <2>4. CASE Header[h.req].code = "200" /\ ~Header[h.req].chunked
    <3>1. q \in parseBody(r, text) /\ AllOfIt(c, n, k)
      BY <1>4, <2>2, <2>4 DEF Divisible, AsMuch
    <3>2. /\ q.header = h /\ q.status \in {"DONE", "ERROR"}
          /\ q.status = "DONE" <=> Answerable(c, n)
      <4>1. r \in Parser /\ r.header = h /\ s + 1 + k = EndOf(c, n)
        BY <2>2, <2>4, <3>1 DEF AllOfIt
      <4> QED
        BY <2>1, <2>4, <3>1, <4>1, RequestBodyRead
    <3> QED
      BY <1>5, <3>1, <3>2 DEF Decided
  <2>5. CASE Header[h.req].code = "200" /\ Header[h.req].chunked
    <3>1. r.chunked \o text = text
      BY <2>1, <2>2, <2>5, ConcatEmptySeq
    <3>2. Continues(r.chunked, text, c, n, k)
      BY <2>1, <3>1 DEF Continues
    <3> QED
      BY <1>6, <2>2, <2>5, <3>2
  <2> QED
    BY <2>3, <2>4, <2>5
<1> QED
  BY <1>1, <1>7, <1>8

-------------------------------------------------------------------------------
(* What is received of a request *)

(* Two parts of a stream, one behind the other.                             *)
Joins(q, a, m, n) ==
  SubSeq(q, a + 1, m) \o SubSeq(q, m + 1, n) = SubSeq(q, a + 1, n)

LEMMA PartsJoined ==
  ASSUME NEW S, NEW q \in Seq(S), NEW a \in Nat, NEW m \in Nat, NEW n \in Nat,
         a <= m, m <= n, n <= Len(q)
  PROVE  Joins(q, a, m, n)
<1>0. PICK s, t, all : /\ s = SubSeq(q, a + 1, m) /\ t = SubSeq(q, m + 1, n)
                       /\ all = SubSeq(q, a + 1, n)
  OBVIOUS
<1>1. s \in Seq(S) /\ Len(s) = m - a /\ DOMAIN s = 1..(m - a)
  BY <1>0, SubTextElements
<1>2. \A k \in 1..(m - a) : s[k] = q[a + k]
  BY <1>0, SubTextElements
<1>3. t \in Seq(S) /\ Len(t) = n - m /\ DOMAIN t = 1..(n - m)
  BY <1>0, SubTextElements
<1>4. \A k \in 1..(n - m) : t[k] = q[m + k]
  BY <1>0, SubTextElements
<1>5. a <= n
  OBVIOUS
<1>6. all \in Seq(S) /\ Len(all) = n - a
  BY <1>0, <1>5, SubTextElements
<1>7. \A k \in 1..(n - a) : all[k] = q[a + k]
  BY <1>0, <1>5, SubTextElements
<1>8. PICK b \in Nat, d \in Nat : b = m - a /\ d = n - m /\ n - a = b + d
  <2>1. m - a \in Nat /\ n - m \in Nat /\ n - a = (m - a) + (n - m)
    OBVIOUS
  <2> QED
    BY <2>1
<1>9. PICK st : st = s \o t
  OBVIOUS
<1>10. /\ st \in Seq(S) /\ Len(st) = b + d
       /\ \A k \in 1..b : st[k] = s[k]
       /\ \A k \in 1..d : st[b + k] = t[k]
  <2>1. Len(s) = b /\ Len(t) = d
    BY <1>1, <1>3, <1>8
  <2>2. st \in Seq(S) /\ Len(st) = b + d
    <3>1. s \o t \in Seq(S) /\ Len(s \o t) = Len(s) + Len(t)
      BY <1>1, <1>3, ConcatProperties, Zenon
    <3> QED
      BY <1>9, <2>1, <3>1, Zenon
  <2>3. \A k \in 1..b : st[k] = s[k]
    BY <1>1, <1>3, <1>9, <2>1, ConcatProperties
  <2>4. ASSUME NEW k \in 1..d PROVE st[b + k] = t[k]
    <3>1. PICK i \in 1..(b + d) : i = b + k /\ ~(i <= b) /\ i - b = k
      OBVIOUS
    <3>2. st[i] = t[i - b]
      BY <1>1, <1>3, <1>9, <2>1, <3>1, ConcatProperties
    <3> QED
      BY <3>1, <3>2
  <2> QED
    BY <2>2, <2>3, <2>4
<1>11. ASSUME NEW k \in 1..(b + d) PROVE st[k] = all[k]
  <2>1. CASE k <= b
    <3>1. k \in 1..b
      BY <2>1
    <3> QED
      BY <1>2, <1>7, <1>8, <1>10, <3>1
  <2>2. CASE k > b
    <3>1. PICK i \in 1..d : k = b + i
      <4>1. k - b \in 1..d /\ k = b + (k - b)
        BY <2>2
      <4> QED
        BY <4>1
    <3>2. m + i = a + k
      BY <1>8, <3>1
    <3>3. st[k] = t[i] /\ t[i] = q[m + i]
      BY <1>4, <1>8, <1>10, <3>1
    <3>4. all[k] = q[a + k]
      BY <1>7, <1>8
    <3> QED
      BY <3>2, <3>3, <3>4
  <2>3. k <= b \/ k > b
    OBVIOUS
  <2> QED
    BY <2>1, <2>2, <2>3, Zenon
<1>12. st = all
  BY <1>6, <1>8, <1>10, <1>11, SeqEqual
<1> QED
  BY <1>0, <1>9, <1>12, Zenon DEF Joins

(* Nothing is lost of what a considerate client sends.                      *)
LEMMA ReceivedWhole ==
  ASSUME IInv, NEW c \in ConsiderateClients, NEW g, g = got[c], NEW u, u = Upto(c)
  PROVE  CString(Received(c)) = SubSeq(Stream[c], g + 1, u)
<1>1. PICK S, L, b : S = Stream[c] /\ L = Len(S) /\ b = Received(c)
  OBVIOUS
<1>2. /\ c \in Conns /\ S \in Seq(Piece) /\ L \in Nat
      /\ \A i \in 1..L : S[i].kind \notin {"nul", "cut"}
  BY <1>1, ConsiderateStream
<1>3. /\ g \in Nat /\ u \in Nat /\ g <= u /\ u <= L
  <2>1. /\ g \in Nat /\ sent[c] \in Nat /\ g <= sent[c] /\ sent[c] <= L
        /\ RecvBuf \in Nat
    BY <1>1, <1>2, SizesAssumption DEF IInv, GoodState, TypeOK
  <2> QED
    BY <1>2, <2>1 DEF Upto
<1>4. b = SubSeq(S, g + 1, u)
  BY <1>1 DEF Received
<1>5. DOMAIN b = 1..(u - g)
  BY <1>1, <1>2, <1>3, <1>4, SubTextElements
<1>6. \A k \in 1..(u - g) : b[k] = S[g + k]
  BY <1>1, <1>2, <1>3, <1>4, SubTextElements
<1>7. \A k \in 1..(u - g) : g + k \in 1..L
  BY <1>2, <1>3
<1>8. Nuls(b) = {}
  BY <1>2, <1>5, <1>6, <1>7 DEF Nuls
<1> QED
  BY <1>1, <1>4, <1>8 DEF CString

(* How much there is behind the header of a request.                        *)
LEMMA ContentLength ==
  ASSUME NEW c \in ConsiderateClients, NEW n \in 1..Begun(c, Len(Stream[c])),
         NEW s, s = StartOf(c, n), NEW m \in Nat, s + 1 + m = EndOf(c, n)
  PROVE  Len(Content(c, n)) = m
<1>1. PICK e \in Nat : e = EndOf(c, n) /\ s \in Nat
  BY ConsiderateStream, RequestPlace
<1>2. PICK text, rest : text = Beginning(c, n, m) /\ rest = fetchUnparsedBody(text)
  OBVIOUS
<1>3. s + 1 + m <= EndOf(c, n)
  BY <1>1
<1>4. Len(rest) = m /\ rest = SubSeq(Stream[c], s + 2, s + 1 + m)
  BY <1>2, <1>3, RequestText
<1> QED
  BY <1>4 DEF Content

\* c awaits the answer to its n-th request.
Awaits(c, n) ==
  /\ sent[c] = 0 \/ sent[c] \in Cuts[c]
  /\ Begun(c, sent[c]) <= n

\* With g pieces the n-th request is still to come.
AtStart(c, n, g) == Begun(c, g) + 1 = n /\ AtBoundary(c, g)

LEMMA NothingBehind ==
  ASSUME NEW c \in ConsiderateClients, NEW n \in 1..Begun(c, Len(Stream[c])),
         NEW x \in 0..Len(Stream[c]), Begun(c, x) <= n
  PROVE  EndOf(c, n) \in Nat /\ x <= EndOf(c, n)
<1>1. PICK L, s, e : L = Len(Stream[c]) /\ s = StartOf(c, n) /\ e = EndOf(c, n)
  OBVIOUS
<1>2. L \in Nat
  BY <1>1, ConsiderateStream
<1>3. n \in 1..Begun(c, L) /\ x \in 0..L
  BY <1>1
<1>4. e \in 1..L
  BY <1>1, <1>3, RequestPlace
<1>5. \A y \in 0..L : Begun(c, y) <= n => y <= e
  BY <1>1, <1>3, RequestPlace
<1> QED
  BY <1>1, <1>2, <1>3, <1>4, <1>5

(* What is received first of a request begins with its whole header, and is *)
(* all of it unless it may be divided.                                      *)
LEMMA FirstReceived ==
  ASSUME IInv, SizesAreSane, NEW c \in ConsiderateClients,
         NEW g, g = got[c], g < sent[c], NEW u, u = Upto(c),
         NEW n \in Nat, Awaits(c, n), AtStart(c, n, g)
  PROVE  /\ n \in 1..Begun(c, Len(Stream[c])) /\ StartOf(c, n) = g + 1
         /\ \E k \in Nat :
              /\ u = StartOf(c, n) + 1 + k /\ AsMuch(c, n, k)
              /\ SubSeq(Stream[c], g + 1, u) = Beginning(c, n, k)
<1>1. PICK S, L : S = Stream[c] /\ L = Len(S) /\ L = Len(Stream[c])
  OBVIOUS
<1>2. /\ c \in Conns /\ L \in Nat /\ DOMAIN S = 1..L
      /\ \A i \in 1..L : S[i].kind = "line" => i \notin Cuts[c]
  BY <1>1, ConsiderateStream
<1>3. PICK v \in Nat : v = sent[c] /\ g \in Nat /\ g < v /\ v <= L
  BY <1>1, <1>2 DEF IInv, GoodState, TypeOK
<1>4. RecvBuf \in Nat /\ RecvBuf >= 2
  BY SizesAssumption DEF SizesAreSane
<1>5. u = IF g + RecvBuf < v THEN g + RecvBuf ELSE v
  BY <1>3 DEF Upto
<1>6. PICK s \in Nat : s = g + 1
  BY <1>3
<1>7. s \in 1..L /\ S[s].kind = "line"
  BY <1>1, <1>3, <1>6 DEF AtStart, AtBoundary
<1>8. Begun(c, s) = n /\ n # 0
  <2>1. Begun(c, g) \in Nat /\ Begun(c, g + 1) = Begun(c, g) + 1
    BY <1>1, <1>3, <1>6, <1>7, BegunSteps
  <2> QED
    BY <1>6, <2>1 DEF AtStart
<1>9. n \in 1..Begun(c, L)
  <2>1. Begun(c, s) <= Begun(c, L) /\ Begun(c, L) \in Nat
    <3>1. CASE s = L
      BY <1>1, <3>1, BegunSteps
    <3>2. CASE s < L
      BY <1>1, <3>2, BegunGrows, BegunSteps
    <3> QED
      BY <1>2, <1>7, <3>1, <3>2
  <2> QED
    BY <1>8, <2>1
<1>10. StartOf(c, n) = s
  BY <1>1, <1>2, <1>7, <1>8, LineByNumber
<1>11. PICK e \in 1..L : e = EndOf(c, n) /\ s + 1 <= e /\ v <= e
  <2>1. PICK e : e = EndOf(c, n)
    OBVIOUS
  <2>2. e \in 1..L /\ s + 1 <= e
    BY <1>1, <1>9, <1>10, <2>1, RequestPlace
  <2>3. v \in 0..L /\ Begun(c, v) <= n
    BY <1>3 DEF Awaits
  <2>4. v <= e
    <3>1. v \in 0..Len(Stream[c]) /\ n \in 1..Begun(c, Len(Stream[c]))
      BY <1>1, <1>9, <2>3
    <3> QED
      BY <2>1, <2>3, <3>1, NothingBehind
  <2> QED
    BY <2>1, <2>2, <2>4
<1>12. v \in Cuts[c] /\ v # s
  BY <1>1, <1>2, <1>3, <1>7 DEF Awaits
<1>13. u \in Nat /\ s + 1 <= u /\ u <= v
  BY <1>3, <1>4, <1>5, <1>6, <1>12
<1>14. PICK k \in Nat : u = s + 1 + k
  <2>1. u - s - 1 \in Nat /\ u = s + 1 + (u - s - 1)
    BY <1>13
  <2> QED
    BY <2>1
<1>15. PICK m \in Nat : e = s + 1 + m
  <2>1. e - s - 1 \in Nat /\ e = s + 1 + (e - s - 1)
    BY <1>11
  <2> QED
    BY <2>1
<1>16. Divisible(c, n) \/ u = e
  <2> SUFFICES ASSUME ~Divisible(c, n) PROVE u = e
    OBVIOUS
  <2>1. Len(Content(c, n)) = m
    <3>1. s = StartOf(c, n) /\ s + 1 + m = EndOf(c, n) /\ n \in 1..Begun(c, Len(Stream[c]))
      BY <1>1, <1>9, <1>10, <1>11, <1>15
    <3> QED
      BY <3>1, ContentLength
  <2>2. ConsiderateRequest(c, n)
    BY <1>1, <1>9 DEF ConsiderateClients, Considerate
  <2>3. m + 2 <= RecvBuf /\ (s <= v => e <= v)
    BY <1>10, <1>11, <1>12, <2>1, <2>2 DEF ConsiderateRequest
  <2> QED
    BY <1>3, <1>4, <1>5, <1>6, <1>11, <1>15, <2>3
<1>17. AsMuch(c, n, k)
  <2>1. s + 1 + k <= e
    BY <1>11, <1>13, <1>14
  <2> QED
    BY <1>10, <1>11, <1>14, <1>16, <2>1 DEF AsMuch, AllOfIt
<1>18. SubSeq(Stream[c], g + 1, u) = Beginning(c, n, k)
  BY <1>6, <1>10, <1>14 DEF Beginning
<1> QED
  BY <1>1, <1>6, <1>9, <1>10, <1>14, <1>17, <1>18

(* What is received while chunks are collected goes on with that request.   *)
LEMMA MoreReceived ==
  ASSUME IInv, NEW c \in ConsiderateClients,
         NEW g, g = got[c], g < sent[c], NEW u, u = Upto(c),
         NEW n \in Nat, Awaits(c, n), NEW p, Collecting(p, c, n, g)
  PROVE  /\ n \in 1..Begun(c, Len(Stream[c]))
         /\ \E k \in Nat :
              /\ u = StartOf(c, n) + 1 + k /\ AsMuch(c, n, k)
              /\ Continues(p.chunked, SubSeq(Stream[c], g + 1, u), c, n, k)
<1>1. PICK S, L : S = Stream[c] /\ L = Len(S) /\ L = Len(Stream[c])
  OBVIOUS
<1>2. c \in Conns /\ L \in Nat /\ S \in Seq(Piece)
  BY <1>1, ConsiderateStream
<1>3. PICK v \in Nat : v = sent[c] /\ g \in Nat /\ g < v /\ v <= L
  BY <1>1, <1>2 DEF IInv, GoodState, TypeOK
<1>4. u \in Nat /\ g < u /\ u <= v
  <2>1. u = IF g + RecvBuf < v THEN g + RecvBuf ELSE v
    BY <1>3 DEF Upto
  <2> QED
    BY <1>3, <2>1, SizesAssumption
<1>5. n \in 1..Begun(c, Len(Stream[c]))
  BY DEF Collecting
<1>6. PICK s, e : s = StartOf(c, n) /\ e = EndOf(c, n)
  OBVIOUS
<1>7. s \in 1..L /\ e \in 1..L
  BY <1>1, <1>5, <1>6, RequestPlace
<1>8. v <= e
  <2>1. v \in 0..Len(Stream[c]) /\ Begun(c, v) <= n
    BY <1>1, <1>2, <1>3 DEF Awaits
  <2> QED
    BY <1>5, <1>6, <2>1, NothingBehind
<1>9. PICK j \in Nat : /\ g = s + 1 + j /\ AsMuch(c, n, j)
                       /\ p.chunked = Beginning(c, n, j)
  BY <1>6 DEF Collecting
<1>10. PICK k \in Nat : u = s + 1 + k
  <2>1. u - s - 1 \in Nat /\ u = s + 1 + (u - s - 1)
    BY <1>4, <1>7, <1>9
  <2> QED
    BY <2>1
<1>11. Divisible(c, n)
  <2>1. s + 1 + j # e
    BY <1>2, <1>3, <1>4, <1>7, <1>8, <1>9
  <2> QED
    BY <1>6, <1>9, <2>1 DEF AsMuch, AllOfIt
<1>12. AsMuch(c, n, k)
  <2>1. s + 1 + k <= e
    BY <1>2, <1>4, <1>7, <1>8, <1>10
  <2> QED
    BY <1>6, <1>11, <2>1 DEF AsMuch
<1>13. PICK a \in Nat : s = a + 1
  <2>1. s - 1 \in Nat /\ s = (s - 1) + 1
    BY <1>2, <1>7
  <2> QED
    BY <2>1
<1>14. PICK front, back, all : /\ front = SubSeq(S, a + 1, g)
                               /\ back = SubSeq(S, g + 1, u)
                               /\ all = SubSeq(S, a + 1, u)
  OBVIOUS
<1>15. front \o back = all
  <2>1. a <= g /\ g <= u /\ u <= Len(S)
    BY <1>1, <1>2, <1>3, <1>4, <1>9, <1>13
  <2>2. Joins(S, a, g, u)
    BY <1>2, <1>3, <1>4, <2>1, PartsJoined
  <2> QED
    BY <1>14, <2>2, Zenon DEF Joins
<1>16. front = p.chunked /\ all = Beginning(c, n, k)
  BY <1>1, <1>6, <1>9, <1>10, <1>13, <1>14 DEF Beginning
<1>17. Continues(p.chunked, SubSeq(Stream[c], g + 1, u), c, n, k)
  BY <1>1, <1>14, <1>15, <1>16 DEF Continues
<1> QED
  BY <1>5, <1>6, <1>10, <1>12, <1>17

\* Where the n-th request of c is with a parser after g pieces of its stream.
Reading(p, c, n, g) ==
  IF p.status = "CHUNKED" THEN Collecting(p, c, n, g) ELSE AtStart(c, n, g)
Read(p, c, n, g) ==
  /\ p.status \in {"DONE", "ERROR"} /\ Decided(p, c, n)
  /\ Begun(c, g) = n /\ AtBoundary(c, g)

(* One recv() later the request is decided, or its chunks are collected.    *)
LEMMA ReceivedParsed ==
  ASSUME IInv, SizesAreSane, NEW c \in ConsiderateClients,
         NEW g, g = got[c], g < sent[c], NEW u, u = Upto(c),
         NEW n \in Nat, Awaits(c, n),
         NEW p \in GoodParser, p.status = "HEADER" => p.header = NoHeader,
         Reading(p, c, n, g), NEW port \in ports,
         NEW q \in parse(p, CString(Received(c)), port)
  PROVE  \/ q.status = "CHUNKED" /\ Collecting(q, c, n, u)
         \/ Read(q, c, n, u)
<1>1. PICK text : text = CString(Received(c)) /\ text = SubSeq(Stream[c], g + 1, u)
  BY ReceivedWhole
<1>2. PICK s, h : s = StartOf(c, n) /\ h = Stream[c][s]
  OBVIOUS
<1>3. n \in 1..Begun(c, Len(Stream[c]))
  BY FirstReceived, MoreReceived DEF Reading
<1>4. PICK k \in Nat :
        /\ u = s + 1 + k /\ AsMuch(c, n, k)
        /\ IF p.status = "CHUNKED"
           THEN Continues(p.chunked, text, c, n, k)
           ELSE text = Beginning(c, n, k)
  <2>1. CASE p.status = "CHUNKED"
    <3>1. Collecting(p, c, n, g)
      BY <2>1 DEF Reading
    <3>2. PICK k \in Nat :
            /\ u = StartOf(c, n) + 1 + k /\ AsMuch(c, n, k)
            /\ Continues(p.chunked, SubSeq(Stream[c], g + 1, u), c, n, k)
      BY <3>1, MoreReceived
    <3> QED
      BY <1>1, <1>2, <2>1, <3>2
  <2>2. CASE p.status # "CHUNKED"
    <3>1. AtStart(c, n, g)
      BY <2>2 DEF Reading
    <3>2. PICK k \in Nat :
            /\ u = StartOf(c, n) + 1 + k /\ AsMuch(c, n, k)
            /\ SubSeq(Stream[c], g + 1, u) = Beginning(c, n, k)
      BY <3>1, FirstReceived
    <3> QED
      BY <1>1, <1>2, <2>2, <3>2
  <2> QED
    BY <2>1, <2>2
<1>5. p.status = "CHUNKED" =>
        p.header = h /\ Header[h.req].code = "200" /\ Header[h.req].chunked
  BY <1>2 DEF Reading, Collecting
<1>6. \/ q.status = "CHUNKED" /\ Collecting(q, c, n, StartOf(c, n) + 1 + k)
      \/ /\ q.status \in {"DONE", "ERROR"} /\ AllOfIt(c, n, k)
         /\ Decided(q, c, n)
  <2>1. q \in parse(p, text, port)
    BY <1>1
  <2>2. IF p.status = "CHUNKED"
        THEN /\ p.header = h /\ Header[h.req].code = "200" /\ Header[h.req].chunked
             /\ Continues(p.chunked, text, c, n, k)
        ELSE text = Beginning(c, n, k)
    BY <1>4, <1>5
  <2> QED
    BY <1>2, <1>3, <1>4, <2>1, <2>2, RequestParsed
<1>7. AllOfIt(c, n, k) => Begun(c, u) = n /\ AtBoundary(c, u)
  BY <1>2, <1>3, <1>4, RequestPlace DEF AllOfIt
<1> QED
  BY <1>2, <1>4, <1>6, <1>7 DEF Read

-------------------------------------------------------------------------------
(* The inductive invariant *)

\* The request that the parser of fd holds is complete, and not yet answered.
Complete(fd) == clnt_socks[fd].state = "WRITE" \/ (pc = "script" /\ current = fd)

\* After g pieces of its stream a client holds its n-th request, or reads it.
ClientInStep(client, n, g, complete) ==
  IF complete THEN Read(client.parser, client.conn, n, g)
              ELSE Reading(client.parser, client.conn, n, g)

\* A considerate client is read up to the request behind its last answer, ...
InStep ==
  \A fd \in Fds :
    clnt_socks[fd] # Null /\ clnt_socks[fd].conn \in ConsiderateClients =>
      ClientInStep(clnt_socks[fd], Len(answers[clnt_socks[fd].conn]) + 1,
                   got[clnt_socks[fd].conn], Complete(fd))

\* ... and has sent nothing of the next one.
Sending ==
  \A c \in ConsiderateClients :
    /\ Awaits(c, Len(answers[c]) + 1)
    /\ link[c] \in {"new", "backlog"} => got[c] = 0 /\ answers[c] = <<>>

\* The answer to the n-th request of c.
Fitting(c, n, request) ==
  /\ request.header # NoHeader => request.header.pos = StartOf(c, n)
  /\ Answerable(c, n) <=> request.code = "200"

AnswersFit ==
  \A c \in ConsiderateClients :
    /\ Len(answers[c]) <= Begun(c, sent[c])
    /\ \A n \in DOMAIN answers[c] : Fitting(c, n, answers[c][n].request)

CInv == AnswersFit /\ (pc # "stopped" => InStep /\ Sending)

-------------------------------------------------------------------------------
(* What changes keep *)

LEMMA ConsiderateConns == ConsiderateClients \subseteq Conns
  BY DEF ConsiderateClients

LEMMA AnswersFitKept ==
  ASSUME AnswersFit, UNCHANGED <<answers, sent>>
  PROVE  AnswersFit'
  BY DEF AnswersFit

LEMMA SendingKept ==
  ASSUME Sending, UNCHANGED <<sent, answers>>,
         \A c \in Conns : link'[c] \in {"new", "backlog"} =>
           link[c] \in {"new", "backlog"} /\ got'[c] = got[c]
  PROVE  Sending'
  BY ConsiderateConns DEF Sending, Awaits

LEMMA Quiet ==
  ASSUME CInv, UNCHANGED <<clnt_socks, got, answers, sent, link>>,
         \/ pc' = "stopped"
         \/ pc # "stopped" /\ UNCHANGED <<pc, current>>
         \/ pc \notin {"script", "stopped"} /\ pc' # "script"
  PROVE  CInv'
<1>1. AnswersFit'
  BY AnswersFitKept DEF CInv
<1>2. CASE pc' = "stopped"
  BY <1>1, <1>2 DEF CInv
<1>3. CASE /\ pc # "stopped"
           /\ UNCHANGED <<pc, current>> \/ (pc # "script" /\ pc' # "script")
  <2>1. InStep'
    BY <1>3 DEF CInv, InStep, Complete
  <2>2. Sending'
    BY <1>3, SendingKept DEF CInv
  <2> QED
    BY <1>1, <2>1, <2>2 DEF CInv
<1> QED
  BY <1>2, <1>3

(* The client of one descriptor changes, and what it is read and answered.  *)
LEMMA OneInStep ==
  ASSUME InStep, TypeOK, NEW fd \in Fds, NEW c \in Conns, NEW new, new.conn = c,
         clnt_socks'[fd] = new,
         \A other \in Fds \ {fd} : clnt_socks'[other] = clnt_socks[other],
         \A other \in Fds \ {fd} : clnt_socks[other] # Null =>
           /\ clnt_socks[other].conn \in Conns \ {c}
           /\ Complete(other)' = Complete(other),
         \A d \in Conns \ {c} : got'[d] = got[d] /\ answers'[d] = answers[d],
         c \in ConsiderateClients =>
           ClientInStep(new, Len(answers'[c]) + 1, got'[c], Complete(fd)')
  PROVE  InStep'
<1> SUFFICES ASSUME NEW other \in Fds, clnt_socks'[other] # Null,
                    clnt_socks'[other].conn \in ConsiderateClients
             PROVE  ClientInStep(clnt_socks'[other],
                                 Len(answers'[clnt_socks'[other].conn]) + 1,
                                 got'[clnt_socks'[other].conn], Complete(other)')
  BY DEF InStep
<1>1. CASE other = fd
  BY <1>1
<1>2. CASE other # fd
  BY <1>2 DEF InStep
<1> QED
  BY <1>1, <1>2

(* Of the sockets only fd is that of c.                                     *)
LEMMA OtherClients ==
  ASSUME IInv, NEW fd \in Fds, clnt_socks[fd] # Null, NEW c, c = clnt_socks[fd].conn
  PROVE  \A other \in Fds \ {fd} :
           clnt_socks[other] # Null => clnt_socks[other].conn \in Conns \ {c}
  BY SocketFacts

-------------------------------------------------------------------------------
(* The steps *)

LEMMA AcceptInStep ==
  ASSUME AInv, CInv, NEW fd \in Fds, AcceptConnection(fd), pc = "read"
  PROVE  CInv'
<1>0. IInv /\ TypeOK /\ InStep /\ Sending /\ AnswersFit
  BY DEF AInv, IInv, GoodState, CInv
<1>1. PICK c \in Conns, slot \in FreeFds :
        /\ link[c] = "backlog" /\ PortOf[c] = serv_socks[fd]
        /\ clnt_socks' = [clnt_socks EXCEPT ![slot] = NewClient(c, serv_socks[fd])]
        /\ link' = [link EXCEPT ![c] = "accepted"]
  BY DEF AcceptConnection, IsLowest
<1>2. UNCHANGED <<pc, current, got, answers, sent>>
  BY DEF AcceptConnection, history
<1>3. slot \in Fds
  BY DEF FreeFds
<1>4. PICK new : new = NewClient(c, serv_socks[fd])
  OBVIOUS
<1>5. /\ new.conn = c /\ new.state = "READ" /\ new.parser.status = "HEADER"
  BY <1>4 DEF NewClient, NewParser
<1>6. /\ clnt_socks'[slot] = new
      /\ \A other \in Fds \ {slot} : clnt_socks'[other] = clnt_socks[other]
  BY <1>0, <1>1, <1>3, <1>4 DEF TypeOK
<1>7. \A other \in Fds \ {slot} : clnt_socks[other] # Null =>
        /\ clnt_socks[other].conn \in Conns \ {c}
        /\ Complete(other)' = Complete(other)
  <2> SUFFICES ASSUME NEW other \in Fds \ {slot}, clnt_socks[other] # Null
               PROVE  /\ clnt_socks[other].conn \in Conns \ {c}
                      /\ Complete(other)' = Complete(other)
    OBVIOUS
  <2>1. clnt_socks[other].conn \in Conns \ {c}
    BY <1>0, <1>1, SocketFacts
  <2>2. Complete(other)' = Complete(other)
    BY <1>2, <1>6 DEF Complete
  <2> QED
    BY <2>1, <2>2
<1>8. ASSUME c \in ConsiderateClients
      PROVE  ClientInStep(new, Len(answers'[c]) + 1, got'[c], Complete(slot)')
  <2>1. got'[c] = 0 /\ Len(answers'[c]) = 0
    BY <1>0, <1>1, <1>2, <1>8, EmptySeq DEF Sending
  <2>2. ~(Complete(slot)')
    BY <1>2, <1>5, <1>6 DEF Complete
  <2>3. AtStart(c, 1, 0)
    <3>1. Begun(c, 0) = 0
      BY BegunSteps
    <3>2. PICK S, L : S = Stream[c] /\ L = Len(S) /\ L = Len(Stream[c])
      OBVIOUS
    <3>3. L \in Nat /\ (1 \in 1..L => S[1].kind = "line")
      BY <1>8, <3>2, ConsiderateStream
    <3> QED
      BY <3>1, <3>2, <3>3 DEF AtStart, AtBoundary
  <2> QED
    BY <1>5, <2>1, <2>2, <2>3 DEF ClientInStep, Reading
<1>9. InStep'
  BY <1>0, <1>2, <1>3, <1>5, <1>6, <1>7, <1>8, OneInStep
<1>10. Sending'
  BY <1>0, <1>1, <1>2, SendingKept DEF TypeOK
<1> QED
  BY <1>0, <1>2, <1>9, <1>10, AnswersFitKept DEF CInv

LEMMA EofInStep ==
  ASSUME AInv, CInv, NEW fd \in Fds, Waiting(fd), ReceiveEof(fd), pc = "read"
  PROVE  CInv'
<1>0. IInv /\ TypeOK /\ InStep /\ Sending /\ AnswersFit
  BY DEF AInv, IInv, GoodState, CInv
<1>1. /\ clnt_socks[fd] # Null /\ clnt_socks[fd] \in Client
      /\ clnt_socks[fd].state = "READ"
  BY <1>0, SocketFacts DEF Waiting, GoodClient, isWaitingForRequest
<1>2. PICK c \in Conns : c = clnt_socks[fd].conn
  BY <1>0, <1>1, SocketFacts
<1>3. PICK new : new = [clnt_socks[fd] EXCEPT !.state = "CLOSE"]
  OBVIOUS
<1>4. new.conn = c /\ new.state = "CLOSE" /\ new.parser = clnt_socks[fd].parser
  BY <1>1, <1>2, <1>3 DEF Client
<1>5. /\ clnt_socks' = [clnt_socks EXCEPT ![fd] = new]
      /\ UNCHANGED <<pc, current, got, answers, sent, link>>
  BY <1>3 DEF ReceiveEof, kernel, history
<1>6. /\ clnt_socks'[fd] = new
      /\ \A other \in Fds \ {fd} : clnt_socks'[other] = clnt_socks[other]
  BY <1>0, <1>5 DEF TypeOK
<1>7. \A other \in Fds \ {fd} : Complete(other)' = Complete(other)
  BY <1>5, <1>6 DEF Complete
<1>8. ~Complete(fd) /\ ~(Complete(fd)')
  BY <1>1, <1>4, <1>5, <1>6 DEF Complete
<1>9. c \in ConsiderateClients =>
        ClientInStep(new, Len(answers'[c]) + 1, got'[c], Complete(fd)')
  BY <1>0, <1>1, <1>2, <1>4, <1>5, <1>8 DEF InStep, ClientInStep
<1>10. InStep'
  BY <1>0, <1>1, <1>2, <1>4, <1>5, <1>6, <1>7, <1>9, OneInStep, OtherClients
<1>11. Sending'
  BY <1>0, <1>5, SendingKept
<1> QED
  BY <1>0, <1>5, <1>10, <1>11, AnswersFitKept DEF CInv

LEMMA ReturnInStep ==
  ASSUME AInv, CInv, AnyReturn
  PROVE  CInv'
<1>0. IInv /\ TypeOK /\ pc = "script" /\ InStep /\ Sending /\ AnswersFit
  BY DEF AInv, IInv, GoodState, AnyReturn, CInv
<1>1. PICK fd \in Fds : fd = current /\ Waiting(fd)
  BY <1>0, AnyReturnEffect
<1>2. clnt_socks[fd] # Null /\ clnt_socks[fd] \in Client
  BY <1>0, <1>1, SocketFacts DEF Waiting, GoodClient
<1>3. PICK c \in Conns : c = clnt_socks[fd].conn
  BY <1>0, <1>2, SocketFacts
<1>4. PICK code, new :
        /\ code \in Codes /\ new = Answered(clnt_socks[fd], code)
        /\ clnt_socks' = [clnt_socks EXCEPT ![fd] = new]
        /\ pc' = "read" /\ UNCHANGED <<got, answers, sent, link>>
  <2>1. PICK code \in Codes : Returned(code)
    BY DEF AnyReturn
  <2> QED
    BY <1>1, <2>1 DEF Returned, kernel, history
<1>5. new.conn = c /\ new.state = "WRITE" /\ new.parser = clnt_socks[fd].parser
  BY <1>2, <1>3, <1>4 DEF Answered, Client
<1>6. /\ clnt_socks'[fd] = new
      /\ \A other \in Fds \ {fd} : clnt_socks'[other] = clnt_socks[other]
  BY <1>0, <1>4 DEF TypeOK
<1>7. \A other \in Fds \ {fd} : Complete(other)' = Complete(other)
  BY <1>1, <1>4, <1>6 DEF Complete
<1>8. Complete(fd) /\ Complete(fd)'
  BY <1>0, <1>1, <1>5, <1>6 DEF Complete
<1>9. c \in ConsiderateClients =>
        ClientInStep(new, Len(answers'[c]) + 1, got'[c], Complete(fd)')
  BY <1>0, <1>2, <1>3, <1>4, <1>5, <1>8 DEF InStep, ClientInStep
<1>10. InStep'
  BY <1>0, <1>2, <1>3, <1>4, <1>5, <1>6, <1>7, <1>9, OneInStep, OtherClients
<1>11. Sending'
  BY <1>0, <1>4, SendingKept
<1> QED
  BY <1>0, <1>4, <1>10, <1>11, AnswersFitKept DEF CInv

LEMMA DestroyInStep ==
  ASSUME AInv, CInv, DestroyClients
  PROVE  CInv'
<1>0. InStep /\ Sending /\ AnswersFit
  BY DEF CInv, DestroyClients
<1>1. /\ UNCHANGED <<got, answers, sent>> /\ pc = "destroy" /\ pc' = "select"
      /\ \A fd \in Fds : clnt_socks'[fd] \in {clnt_socks[fd], Null}
      /\ \A c \in Conns : link'[c] \in {link[c], "closed"}
  BY DEF DestroyClients, history
<1>2. InStep'
  <2> SUFFICES ASSUME NEW fd \in Fds, clnt_socks'[fd] # Null,
                      clnt_socks'[fd].conn \in ConsiderateClients
               PROVE  ClientInStep(clnt_socks'[fd],
                                   Len(answers'[clnt_socks'[fd].conn]) + 1,
                                   got'[clnt_socks'[fd].conn], Complete(fd)')
    BY DEF InStep
  <2>1. clnt_socks'[fd] = clnt_socks[fd] /\ Complete(fd)' = Complete(fd)
    BY <1>1 DEF Complete
  <2> QED
    BY <1>0, <1>1, <2>1 DEF InStep
<1>3. Sending'
  BY <1>0, <1>1, SendingKept
<1> QED
  BY <1>0, <1>1, <1>2, <1>3, AnswersFitKept DEF CInv

LEMMA GenerateParses ==
  ASSUME NEW client \in Client, NEW buffer, NEW next \in generateRequest(client, buffer)
  PROVE  /\ next.parser \in parse(client.parser, CString(buffer), client.port)
         /\ next.conn = client.conn /\ next.state = client.state
<1> DEFINE Outcomes(t) ==
      { [client EXCEPT !.parser = p,
                       !.request = IF finished(p) \/ errorOccured(p)
                                   THEN buildRequest(p) ELSE @] :
        p \in parse(client.parser, t, client.port) }
<1>1. next \in Outcomes(CString(buffer))
  <2>1. next \in UNION {Outcomes(t) : t \in {CString(buffer)}}
    BY DEF generateRequest
  <2> HIDE DEF Outcomes
  <2> QED
    BY <2>1
<1>2. PICK p \in parse(client.parser, CString(buffer), client.port) :
        next = [client EXCEPT !.parser = p,
                              !.request = IF finished(p) \/ errorOccured(p)
                                          THEN buildRequest(p) ELSE @]
  BY <1>1
<1> HIDE DEF Outcomes
<1> QED
  BY <1>2 DEF Client

LEMMA ReceiveInStep ==
  ASSUME AInv, CInv, SizesAreSane, NEW fd \in Fds, Waiting(fd), ReceiveText(fd),
         pc = "read"
  PROVE  CInv'
<1>0. IInv /\ TypeOK /\ RInv /\ InStep /\ Sending /\ AnswersFit
  BY DEF AInv, IInv, GoodState, CInv
<1>1. PICK old : /\ old = clnt_socks[fd] /\ clnt_socks[fd] # Null
                 /\ old \in GoodClient /\ old \in Client /\ old.state = "READ"
  BY <1>0, SocketFacts DEF Waiting, GoodClient, isWaitingForRequest
<1>2. PICK c \in Conns : c = old.conn /\ c = ConnAt(fd)
  BY <1>0, <1>1, SocketFacts
<1>3. PICK client \in generateRequest(old, Received(c)) :
        \/ /\ ~RequestReady(client)
           /\ clnt_socks' = [clnt_socks EXCEPT ![fd] = client]
           /\ UNCHANGED <<pc, current>>
        \/ /\ RequestReady(client) /\ UNCHANGED <<pc, current>>
           /\ \E code : clnt_socks' = [clnt_socks EXCEPT ![fd] = Answered(client, code)]
        \/ /\ RequestReady(client)
           /\ clnt_socks' = [clnt_socks EXCEPT ![fd] = client]
           /\ pc' = "script" /\ current' = fd
  BY <1>1, <1>2 DEF ReceiveText
<1>4. PICK q : /\ q = client.parser /\ client.conn = c /\ client.state = "READ"
               /\ q \in parse(old.parser, CString(Received(c)), old.port)
  BY <1>1, <1>2, GenerateParses
<1>5. /\ got[c] < sent[c] /\ got' = [got EXCEPT ![c] = Upto(c)]
      /\ UNCHANGED <<answers, sent, link>>
  BY <1>2 DEF ReceiveText, history
<1>6. got'[c] = Upto(c) /\ \A d \in Conns \ {c} : got'[d] = got[d]
  BY <1>0, <1>5 DEF TypeOK
<1>7. ASSUME c \in ConsiderateClients, NEW n, n = Len(answers[c]) + 1
      PROVE  \/ q.status = "CHUNKED" /\ Collecting(q, c, n, Upto(c))
             \/ Read(q, c, n, Upto(c))
  <2>1. n \in Nat
    BY <1>0, <1>7, LenProperties DEF TypeOK
  <2>2. Awaits(c, n)
    BY <1>0, <1>7 DEF Sending
  <2>3. ~Complete(fd)
    BY <1>1 DEF Complete
  <2>4. Reading(old.parser, c, n, got[c])
    BY <1>0, <1>1, <1>2, <1>7, <2>3 DEF InStep, ClientInStep
  <2>5. old.parser \in GoodParser /\ old.port \in ports
    BY <1>1 DEF GoodClient, Client
  <2>6. old.parser.status = "HEADER" => old.parser.header = NoHeader
    BY <1>0, <1>1 DEF RInv, RightClients, RightClient, ReadSoFar
  <2> QED
    BY <1>0, <1>4, <1>5, <1>7, <2>1, <2>2, <2>4, <2>5, <2>6, ReceivedParsed
<1>8. PICK new :
        /\ clnt_socks' = [clnt_socks EXCEPT ![fd] = new]
        /\ new.parser = q /\ new.conn = c
        /\ \/ ~RequestReady(client) /\ new.state = "READ" /\ UNCHANGED <<pc, current>>
           \/ RequestReady(client) /\ new.state = "WRITE" /\ UNCHANGED <<pc, current>>
           \/ RequestReady(client) /\ pc' = "script" /\ current' = fd
  <2>1. CASE \/ ~RequestReady(client) /\ UNCHANGED <<pc, current>>
             \/ RequestReady(client) /\ pc' = "script" /\ current' = fd
    BY <1>3, <1>4, <2>1
  <2>2. ASSUME NEW code, RequestReady(client), UNCHANGED <<pc, current>>,
               clnt_socks' = [clnt_socks EXCEPT ![fd] = Answered(client, code)]
        PROVE  \E new :
                 /\ clnt_socks' = [clnt_socks EXCEPT ![fd] = new]
                 /\ new.parser = q /\ new.conn = c /\ new.state = "WRITE"
    <3>1. client \in Client
      BY <1>0, <1>1, <1>2, <1>3, ReceivedSegment, GenerateRequestType DEF GoodClient
    <3>2. /\ Answered(client, code).parser = q /\ Answered(client, code).conn = c
          /\ Answered(client, code).state = "WRITE"
      BY <1>4, <3>1 DEF Answered, Client
    <3> QED
      BY <2>2, <3>2
  <2> QED
    BY <1>3, <2>1, <2>2
<1>9. /\ clnt_socks'[fd] = new
      /\ \A other \in Fds \ {fd} : clnt_socks'[other] = clnt_socks[other]
  BY <1>0, <1>8 DEF TypeOK
<1>10. \A other \in Fds \ {fd} : Complete(other)' = Complete(other)
  BY <1>8, <1>9 DEF Complete
<1>11. Complete(fd)' <=> RequestReady(client)
  BY <1>8, <1>9 DEF Complete
<1>12. ASSUME c \in ConsiderateClients
       PROVE  ClientInStep(new, Len(answers'[c]) + 1, got'[c], Complete(fd)')
  <2>1. PICK n : n = Len(answers[c]) + 1 /\ n = Len(answers'[c]) + 1
    BY <1>5
  <2>2. \/ q.status = "CHUNKED" /\ Collecting(q, c, n, Upto(c))
        \/ Read(q, c, n, Upto(c))
    BY <1>7, <1>12, <2>1
  <2>3. RequestReady(client) <=> q.status \in {"DONE", "ERROR"}
    BY <1>4 DEF RequestReady, finished, errorOccured
  <2> QED
    BY <1>6, <1>8, <1>11, <2>1, <2>2, <2>3 DEF ClientInStep, Reading, Read
<1>13. InStep'
  <2>1. \A other \in Fds \ {fd} :
          clnt_socks[other] # Null => clnt_socks[other].conn \in Conns \ {c}
    BY <1>0, <1>1, <1>2, OtherClients
  <2>2. \A d \in Conns \ {c} : got'[d] = got[d] /\ answers'[d] = answers[d]
    BY <1>5, <1>6
  <2>3. new.conn = c
    BY <1>8
  <2> QED
    BY <1>0, <1>9, <1>10, <1>12, <2>1, <2>2, <2>3, OneInStep
<1>14. Sending'
  <2>1. link[c] = "accepted"
    BY <1>0, <1>1, <1>2, SocketFacts
  <2> QED
    BY <1>0, <1>5, <1>6, <2>1, SendingKept
<1> QED
  BY <1>0, <1>5, <1>13, <1>14, AnswersFitKept DEF CInv

LEMMA BegunMonotone ==
  ASSUME NEW c, NEW m \in Nat, NEW n \in Nat, m <= n
  PROVE  Begun(c, m) \in Nat /\ Begun(c, n) \in Nat /\ Begun(c, m) <= Begun(c, n)
<1>1. CASE m < n
  BY <1>1, BegunSteps, BegunGrows
<1>2. CASE m = n
  BY <1>2, BegunSteps
<1> QED
  BY <1>1, <1>2

LEMMA SendResponseInStep ==
  ASSUME AInv, CInv, NEW fd \in Fds, Responding(fd), SendResponse(fd), pc = "write"
  PROVE  CInv'
<1>0. IInv /\ TypeOK /\ RInv /\ InStep /\ Sending /\ AnswersFit
  BY DEF AInv, IInv, GoodState, CInv
<1>1. /\ clnt_socks[fd] # Null /\ clnt_socks[fd] \in GoodClient
      /\ clnt_socks[fd] \in Client /\ clnt_socks[fd].state = "WRITE"
  BY <1>0, SocketFacts DEF Responding, canResponse, GoodClient
<1>2. PICK c \in Conns : c = ConnAt(fd) /\ c = clnt_socks[fd].conn
  BY <1>0, <1>1, SocketFacts
<1>3. PICK p, new, response, g :
        /\ p = clnt_socks[fd].parser /\ new = [clnt_socks[fd] EXCEPT !.state = "READ"]
        /\ response = clnt_socks[fd].response /\ g = got[c]
  OBVIOUS
<1>4. new.conn = c /\ new.state = "READ" /\ new.parser = p
  BY <1>1, <1>2, <1>3 DEF Client
<1>5. /\ clnt_socks' = [clnt_socks EXCEPT ![fd] = new]
      /\ answers' = [answers EXCEPT ![c] = Append(@, response)]
      /\ UNCHANGED <<pc, current, got, sent, link>>
  BY <1>2, <1>3 DEF SendResponse
<1>6. /\ clnt_socks'[fd] = new
      /\ \A other \in Fds \ {fd} : clnt_socks'[other] = clnt_socks[other]
  BY <1>0, <1>5 DEF TypeOK
<1>7. \A other \in Fds \ {fd} : Complete(other)' = Complete(other)
  BY <1>5, <1>6 DEF Complete
<1>8. Complete(fd) /\ ~(Complete(fd)')
  BY <1>1, <1>4, <1>5, <1>6 DEF Complete
<1>9. PICK n \in Nat :
        /\ n = Len(answers[c]) /\ DOMAIN answers[c] = 1..n
        /\ DOMAIN answers'[c] = 1..(n + 1) /\ Len(answers'[c]) = n + 1
        /\ \A i \in 1..n : answers'[c][i] = answers[c][i]
        /\ answers'[c][n + 1] = response
  <2>1. answers[c] \in Seq(Response) /\ answers'[c] = Append(answers[c], response)
    BY <1>0, <1>5 DEF TypeOK
  <2>2. Len(answers[c]) \in Nat /\ DOMAIN answers[c] = 1..Len(answers[c])
    BY <2>1, LenProperties
  <2>3. response \in Response
    BY <1>1, <1>3 DEF GoodClient, GoodResponse
  <2>4. /\ DOMAIN answers'[c] = 1..(Len(answers[c]) + 1)
        /\ Len(answers'[c]) = Len(answers[c]) + 1
        /\ \A i \in 1..Len(answers[c]) : answers'[c][i] = answers[c][i]
        /\ answers'[c][Len(answers[c]) + 1] = response
    BY <2>1, <2>2, <2>3, AppendProperties, LenProperties
  <2> QED
    BY <2>2, <2>4
<1>10. \A d \in Conns \ {c} : answers'[d] = answers[d]
  BY <1>0, <1>5 DEF TypeOK
<1>11. c \in ConsiderateClients => Read(p, c, n + 1, g)
  BY <1>0, <1>1, <1>2, <1>3, <1>8, <1>9 DEF InStep, ClientInStep
<1>12. c \in ConsiderateClients =>
         ClientInStep(new, Len(answers'[c]) + 1, got'[c], Complete(fd)')
  <2> SUFFICES ASSUME c \in ConsiderateClients PROVE Reading(p, c, (n + 1) + 1, g)
    BY <1>3, <1>4, <1>5, <1>8, <1>9 DEF ClientInStep
  <2> QED
    BY <1>11 DEF Read, Reading, AtStart
<1>13. InStep'
  BY <1>0, <1>1, <1>2, <1>4, <1>5, <1>6, <1>7, <1>10, <1>12, OneInStep, OtherClients
<1>14. Sending'
  <2> SUFFICES ASSUME NEW d \in ConsiderateClients
               PROVE  /\ Awaits(d, Len(answers'[d]) + 1)
                      /\ link'[d] \in {"new", "backlog"} =>
                           got'[d] = 0 /\ answers'[d] = <<>>
    BY <1>5 DEF Sending, Awaits
  <2>1. CASE d = c
    <3>1. link[c] = "accepted"
      BY <1>0, <1>1, <1>2, SocketFacts
    <3>2. Awaits(c, n + 1) /\ sent[c] \in Nat
      BY <1>0, <1>9, <2>1 DEF Sending, TypeOK
    <3>3. Begun(c, sent[c]) \in Nat
      BY <3>2, BegunSteps
    <3>4. Awaits(c, (n + 1) + 1)
      BY <3>2, <3>3 DEF Awaits
    <3> QED
      BY <1>5, <1>9, <2>1, <3>1, <3>4
  <2>2. CASE d # c
    BY <1>0, <1>5, <1>10, <2>2, ConsiderateConns DEF Sending
  <2> QED
    BY <2>1, <2>2
<1>15. ASSUME c \in ConsiderateClients PROVE Fitting(c, n + 1, response.request)
  <2>1. /\ response.request = buildRequest(p) /\ ReadSoFar(p, c, g)
    BY <1>0, <1>1, <1>2, <1>3 DEF RInv, RightClients, RightClient
  <2>2. p.status \in {"DONE", "ERROR"} /\ Decided(p, c, n + 1)
    BY <1>11, <1>15 DEF Read
  <2>3. /\ response.request.header = p.header
        /\ response.request.code = "200" <=> p.status = "DONE"
    BY <2>1, <2>2 DEF buildRequest, errorOccured, ReadSoFar
  <2> QED
    BY <2>2, <2>3 DEF Fitting, Decided
<1>16. AnswersFit'
  <2> SUFFICES ASSUME NEW d \in ConsiderateClients
               PROVE  /\ Len(answers'[d]) <= Begun(d, sent[d])
                      /\ \A i \in DOMAIN answers'[d] :
                           Fitting(d, i, answers'[d][i].request)
    BY <1>5 DEF AnswersFit, Fitting
  <2>1. CASE d = c
    <3>1. g \in Nat /\ sent[c] \in Nat /\ g <= sent[c]
      BY <1>0, <1>3 DEF TypeOK, IInv, GoodState
    <3>2. Begun(c, g) = n + 1
      BY <1>11, <2>1 DEF Read
    <3>3. n + 1 <= Begun(c, sent[c])
      BY <3>1, <3>2, BegunMonotone
    <3>4. \A i \in 1..n : Fitting(c, i, answers'[c][i].request)
      BY <1>0, <1>9, <2>1 DEF AnswersFit
    <3>5. \A i \in 1..(n + 1) : i \in 1..n \/ i = n + 1
      OBVIOUS
    <3> QED
      BY <1>9, <1>15, <2>1, <3>3, <3>4, <3>5
  <2>2. CASE d # c
    BY <1>0, <1>10, <2>2, ConsiderateConns DEF AnswersFit
  <2> QED
    BY <2>1, <2>2
<1> QED
  BY <1>5, <1>13, <1>14, <1>16 DEF CInv

LEMMA SendInStep ==
  ASSUME AInv, CInv, NEW d \in Conns, pc # "stopped", Send(d)
  PROVE  CInv'
<1>0. IInv /\ TypeOK /\ InStep /\ Sending /\ AnswersFit
  BY DEF AInv, IInv, GoodState, CInv
<1>1. UNCHANGED <<clnt_socks, pc, current, got, answers, link>>
  BY DEF Send, server, history
<1>2. PICK to, v :
        /\ to \in Cuts[d] /\ v = sent[d] /\ v < to /\ to <= Len(Stream[d]) /\ MaySend(d, to)
        /\ sent' = [sent EXCEPT ![d] = to]
  BY DEF Send
<1>3. v \in Nat /\ to \in Nat /\ v + 1 <= to
  BY <1>0, <1>2, ConnsAssumption DEF TypeOK
<1>4. sent'[d] = to /\ \A c \in Conns \ {d} : sent'[c] = sent[c]
  BY <1>0, <1>2 DEF TypeOK
<1>5. InStep'
  BY <1>0, <1>1 DEF InStep, Complete
<1>6. ASSUME d \in ConsiderateClients, NEW n, n = Len(answers[d]) + 1
      PROVE  Begun(d, to) <= n
  <2>1. n \in Nat /\ Begun(d, v) \in Nat /\ Begun(d, v + 1) \in Nat /\ Begun(d, v) <= n
    BY <1>0, <1>2, <1>3, <1>6, BegunSteps, LenProperties DEF Sending, Awaits, TypeOK
  <2>2. d \in Patient
    BY <1>6, ConsiderateStream
  <2>3. Begun(d, v + 1) <= n
    <3>1. CASE Stream[d][v + 1].kind = "line"
      <4>1. Begun(d, v) <= Len(answers[d]) /\ Len(answers[d]) \in Nat
        BY <1>0, <1>2, <2>2, <3>1, LenProperties DEF MaySend, AllAnswered, TypeOK
      <4>2. Begun(d, v + 1) = Begun(d, v) + 1
        BY <1>3, <3>1, BegunSteps
      <4> QED
        BY <1>6, <2>1, <4>1, <4>2
    <3>2. CASE Stream[d][v + 1].kind # "line"
      BY <1>3, <2>1, <3>2, BegunSteps
    <3> QED
      BY <3>1, <3>2
  <2>4. Begun(d, to) = Begun(d, v + 1)
    <3>1. CASE to = v + 1
      BY <3>1
    <3>2. CASE v + 1 < to
      <4>1. \A i \in ((v + 1) + 1)..to : Stream[d][i].kind # "line"
        BY <1>2, <1>3, <2>2 DEF MaySend
      <4> QED
        BY <1>3, <3>2, <4>1, BegunGrows
    <3> QED
      BY <1>3, <3>1, <3>2
  <2> QED
    BY <2>3, <2>4
<1>7. Sending'
  <2> SUFFICES ASSUME NEW c \in ConsiderateClients
               PROVE  /\ sent'[c] = 0 \/ sent'[c] \in Cuts[c]
                      /\ Begun(c, sent'[c]) <= Len(answers[c]) + 1
                      /\ link[c] \in {"new", "backlog"} => got[c] = 0 /\ answers[c] = <<>>
    BY <1>1 DEF Sending, Awaits
  <2>1. CASE c = d
    BY <1>0, <1>2, <1>4, <1>6, <2>1 DEF Sending
  <2>2. CASE c # d
    BY <1>0, <1>4, <2>2, ConsiderateConns DEF Sending, Awaits
  <2> QED
    BY <2>1, <2>2
<1>8. AnswersFit'
  <2> SUFFICES ASSUME NEW c \in ConsiderateClients
               PROVE  Len(answers[c]) <= Begun(c, sent'[c])
    BY <1>0, <1>1 DEF AnswersFit
  <2>1. Len(answers[c]) <= Begun(c, sent[c])
    BY <1>0 DEF AnswersFit
  <2>2. Len(answers[c]) \in Nat
    BY <1>0, ConsiderateConns, LenProperties DEF TypeOK
  <2>3. CASE c = d
    <3>1. /\ Begun(c, v) \in Nat /\ Begun(c, to) \in Nat
          /\ Begun(c, v) <= Begun(c, to)
      BY <1>2, <1>3, BegunMonotone
    <3> QED
      BY <1>2, <1>4, <2>1, <2>2, <2>3, <3>1
  <2>4. CASE c # d
    BY <1>4, <2>1, <2>4, ConsiderateConns
  <2> QED
    BY <2>3, <2>4
<1> QED
  BY <1>1, <1>5, <1>7, <1>8 DEF CInv

LEMMA ClientInStepKept ==
  ASSUME AInv, CInv, NEW d \in Conns, ClientStep(d)
  PROVE  CInv'
<1>0. pc # "stopped"
  BY DEF ClientStep
<1>1. CASE Connect(d)
  <2>1. /\ UNCHANGED <<clnt_socks, pc, current, got, answers, sent>>
        /\ link[d] = "new" /\ link' = [link EXCEPT ![d] = "backlog"]
    BY <1>1 DEF Connect, server, history
  <2>2. InStep /\ Sending /\ AnswersFit /\ TypeOK
    BY <1>0 DEF AInv, IInv, GoodState, CInv
  <2>3. InStep'
    BY <2>1, <2>2 DEF InStep, Complete
  <2>4. Sending'
    BY <2>1, <2>2, SendingKept DEF TypeOK
  <2> QED
    BY <2>1, <2>2, <2>3, <2>4, AnswersFitKept DEF CInv
<1>2. CASE Send(d)
  BY <1>0, <1>2, SendInStep
<1>3. CASE ReadAnswers(d) \/ HalfClose(d) \/ Leave(d)
  <2>1. UNCHANGED <<clnt_socks, pc, current, got, answers, sent, link>>
    BY <1>3 DEF ReadAnswers, HalfClose, Leave, server, history
  <2> QED
    BY <1>0, <2>1, Quiet
<1> QED
  BY <1>1, <1>2, <1>3 DEF ClientStep

LEMMA StepInStep ==
  ASSUME AInv, CInv, SizesAreSane, [AnyStep]_vars
  PROVE  CInv'
<1>0. IInv /\ TypeOK
  BY DEF AInv, IInv, GoodState
<1>1. CASE UNCHANGED vars
  <2>1. UNCHANGED <<clnt_socks, pc, current, got, answers, sent, link>>
    BY <1>1 DEF vars, server, kernel, history
  <2> QED
    BY <2>1, Quiet
<1>2. CASE \/ OpenListener \/ StartRunning \/ ReadEventsDone \/ WriteEventsDone
           \/ pc = "select" /\ SelectReturns
  <2>1. /\ UNCHANGED <<clnt_socks, current, got, answers, sent, link>>
        /\ pc \notin {"script", "stopped"} /\ pc' \notin {"script", "stopped"}
    BY <1>2 DEF OpenListener, StartRunning, ReadEventsDone, WriteEventsDone,
       SelectReturns, kernel, history
  <2> QED
    BY <2>1, Quiet
<1>3. ASSUME NEW reason, Stop(reason) PROVE CInv'
  BY <1>3, Quiet DEF Stop, kernel, history
<1>4. CASE OpenListenerFails \/ (pc = "select" /\ SelectFails) \/ AnyEnd
  BY <1>3, <1>4 DEF OpenListenerFails, SelectFails, AnyEnd
<1>5. CASE HandleReadEvent
  <2>1. PICK fd \in readable :
           \/ AcceptConnection(fd) \/ (AcceptFails(fd) /\ FreeFds = {})
           \/ /\ Waiting(fd) /\ IsReadable(ConnAt(fd))
              /\ ReceiveText(fd) \/ ReceiveEof(fd) \/ ReceiveFails(fd)
    BY <1>0, <1>5, ReadEventCases
  <2>2. fd \in Fds /\ pc = "read"
    BY <1>0, <1>5 DEF TypeOK, HandleReadEvent
  <2>3. CASE AcceptConnection(fd)
    BY <2>2, <2>3, AcceptInStep
  <2>4. CASE AcceptFails(fd) \/ ReceiveFails(fd)
    BY <1>3, <2>4 DEF AcceptFails, ReceiveFails
  <2>5. CASE Waiting(fd) /\ ReceiveText(fd)
    BY <2>2, <2>5, ReceiveInStep
  <2>6. CASE Waiting(fd) /\ ReceiveEof(fd)
    BY <2>2, <2>6, EofInStep
  <2> QED
    BY <2>1, <2>3, <2>4, <2>5, <2>6
<1>6. CASE AnyReturn
  BY <1>6, ReturnInStep
<1>7. CASE HandleWriteEvent
  <2>1. PICK fd \in writable : Responding(fd) /\ (SendResponse(fd) \/ SendFails(fd))
    BY <1>0, <1>7, WriteEventCases
  <2>2. fd \in Fds /\ pc = "write"
    BY <1>0, <1>7 DEF TypeOK, HandleWriteEvent
  <2>3. CASE SendResponse(fd)
    BY <2>1, <2>2, <2>3, SendResponseInStep
  <2>4. CASE SendFails(fd)
    BY <1>3, <2>4 DEF SendFails
  <2> QED
    BY <2>1, <2>3, <2>4
<1>8. CASE DestroyClients
  BY <1>8, DestroyInStep
<1>9. CASE \E c \in Conns : ClientStep(c)
  BY <1>9, ClientInStepKept
<1> QED
  BY <1>1, <1>2, <1>4, <1>5, <1>6, <1>7, <1>8, <1>9 DEF AnyStep, Loop, Select

-------------------------------------------------------------------------------
(* Theorem *)

QInv == AInv /\ (SizesAreSane => CInv)

LEMMA RequestInit == Init => QInv
<1> SUFFICES ASSUME Init PROVE CInv
  BY AnswerInit DEF QInv
<1>1. \A c \in Conns : Len(answers[c]) = 0 /\ DOMAIN answers[c] = {}
  BY DEF Init
<1>2. \A c \in Conns : sent[c] = 0 /\ got[c] = 0 /\ answers[c] = <<>>
  BY DEF Init
<1>3. \A c \in Conns : Begun(c, 0) = 0
  BY BegunSteps
<1>4. InStep
  BY DEF Init, InStep
<1>5. Sending
  BY <1>1, <1>2, <1>3, ConsiderateConns DEF Sending, Awaits
<1>6. AnswersFit
  BY <1>1, <1>2, <1>3, ConsiderateConns DEF AnswersFit
<1> QED
  BY <1>4, <1>5, <1>6 DEF CInv

LEMMA RequestStep == QInv /\ [AnyStep]_vars => QInv'
<1>1. SizesAreSane' = SizesAreSane
  BY DEF SizesAreSane
<1> QED
  BY <1>1, AnswerStep, StepInStep DEF QInv

LEMMA RequestFromInv == QInv => AnswersItsRequests
  BY DEF QInv, CInv, AnswersFit, Fitting, AnswersItsRequests, Answerable

(* A considerate client gets for its n-th request the answer to its n-th    *)
(* request, and is refused only what HTTP does not let it ask for.          *)
THEOREM RequestsCorrect == Spec => []AnswersItsRequests
<1>1. QInv /\ [Next]_vars => [AnyStep]_vars
  BY NextIsAnyStep DEF QInv, AInv
<1> QED
  BY <1>1, RequestInit, RequestStep, RequestFromInv, PTL DEF Spec
===============================================================================
