------------------------------ MODULE AnswerProofs ------------------------------
(***************************************************************************)
(* What is answered, in which order, and with which server block, for any  *)
(* streams, any segments they come in, and any server blocks.  The first   *)
(* part is about what the parser of a connection holds of the stream that  *)
(* was sent over it, the second about what is answered.                    *)
(***************************************************************************)
EXTENDS ServerProofs

-------------------------------------------------------------------------------
(* What the parser of a connection holds of its stream *)

\* A text has lost nothing to a NUL.
Whole(text) == \A k \in DOMAIN text : text[k].kind # "cut"

\* A piece of a text, and the piece of the stream it was: it was cut at a NUL,
\* or is the same.
ReadAs(piece, source) ==
  IF piece.kind = "cut" THEN source.kind = "nul" ELSE piece = source

\* What one recv() and CString make of the stream behind its first g pieces:
\* only its last piece can be cut.
Segment(text, c, g) ==
  \A k \in DOMAIN text :
    ReadAs(text[k], Stream[c][g + k]) /\ (k < Len(text) => text[k].kind # "cut")

\* What several of them, appended to each other, are: the stream behind its
\* first g pieces, up to the first piece that was cut.
AsSent(text, c, g) ==
  \A k \in DOMAIN text :
    (\A j \in 1..(k - 1) : text[j].kind # "cut") => ReadAs(text[k], Stream[c][g + k])

\* A text that begins with the header h.
Framed(text, h) ==
  /\ 2 <= Len(text)
  /\ text[1] = h /\ h.kind = "line" /\ text[2].kind = "fields"

\* The parser of connection c after the first g pieces of its stream.
ReadSoFar(p, c, g) ==
  /\ p.status = "HEADER" => p.header = NoHeader
  /\ p.header # NoHeader => p.header.pos <= g
  /\ p.status = "CHUNKED" =>
       /\ Header[p.header.req].chunked
       /\ Framed(p.chunked, p.header)
       /\ AsSent(p.chunked, c, p.header.pos - 1)
       /\ Whole(p.chunked) => p.header.pos - 1 + Len(p.chunked) = g
  /\ p.status = "DONE" => GoodRequest(c, buildRequest(p))
  /\ p.status = "ERROR" => p.code # "200"

-------------------------------------------------------------------------------
(* Texts *)

LEMMA SubTextElements ==
  ASSUME NEW S, NEW s \in Seq(S), NEW m \in Nat, NEW n \in Nat,
         m <= n, n <= Len(s), NEW t, t = SubSeq(s, m + 1, n)
  PROVE  /\ t \in Seq(S) /\ Len(t) = n - m /\ DOMAIN t = 1..(n - m)
         /\ \A k \in 1..(n - m) : t[k] = s[m + k]
<1>1. \A i \in (m + 1)..n : s[i] \in S
  BY LenProperties, ElementOfSeq
<1>2. /\ t \in Seq(S)
      /\ Len(t) = IF m + 1 <= n THEN n - (m + 1) + 1 ELSE 0
      /\ \A k \in 1..(n - (m + 1) + 1) : t[k] = s[m + 1 + k - 1]
  BY <1>1, SubSeqProperties
<1>3. Len(t) = n - m /\ n - (m + 1) + 1 = n - m
  BY <1>2
<1>4. ASSUME NEW k \in 1..(n - m) PROVE t[k] = s[m + k]
  <2>1. m + 1 + k - 1 = m + k
    OBVIOUS
  <2> QED
    BY <1>2, <1>3, <2>1
<1> QED
  BY <1>2, <1>3, <1>4, LenProperties

LEMMA FrontElements ==
  ASSUME NEW S, NEW s \in Seq(S), NEW n \in Nat, n <= Len(s),
         NEW t, t = SubSeq(s, 1, n)
  PROVE  t \in Seq(S) /\ Len(t) = n /\ \A k \in 1..n : t[k] = s[k]
<1>1. \A k \in 1..n : s[k] \in S
  BY LenProperties, ElementOfSeq
<1>2. /\ t \in Seq(S)
      /\ Len(t) = IF 1 <= n THEN n - 1 + 1 ELSE 0
      /\ \A k \in 1..(n - 1 + 1) : t[k] = s[1 + k - 1]
  BY <1>1, SubSeqProperties
<1> QED
  BY <1>2

LEMMA ReceivedSegment ==
  ASSUME IInv, NEW c \in Conns, NEW g, g = got[c], NEW u, u = Upto(c),
         NEW buffer, buffer = Received(c), NEW text, text = CString(buffer)
  PROVE  /\ buffer \in Seq(Piece) /\ text \in Seq(Piece)
         /\ Segment(text, c, g)
         /\ Whole(text) => g + Len(text) = u
         /\ g \in Nat /\ u \in Nat /\ g <= u
         /\ g < sent[c] => g < u
<1> DEFINE z == First(Nuls(buffer))
<1>1. /\ Stream[c] \in Seq(Piece) /\ Len(Stream[c]) \in Nat
      /\ g \in Nat /\ sent[c] \in Nat /\ g <= sent[c] /\ sent[c] <= Len(Stream[c])
  BY ConnsAssumption, LenProperties DEF IInv, GoodState, TypeOK
<1>2. /\ u \in Nat /\ g <= u /\ u <= Len(Stream[c])
      /\ g < sent[c] => g < u
  BY <1>1, SizesAssumption DEF Upto
<1>3. buffer = SubSeq(Stream[c], g + 1, u)
  BY DEF Received
<1>4. buffer \in Seq(Piece)
  BY <1>1, <1>2, <1>3, SubTextElements
<1>5. Len(buffer) = u - g /\ \A k \in 1..(u - g) : buffer[k] = Stream[c][g + k]
  <2>1. PICK s \in Seq(Piece) : s = Stream[c]
    BY <1>1
  <2>2. u <= Len(s) /\ buffer = SubSeq(s, g + 1, u)
    BY <1>2, <1>3, <2>1
  <2>3. Len(buffer) = u - g
    BY <1>1, <1>2, <2>2, SubTextElements, SMTT(20)
  <2>4. \A k \in 1..(u - g) : buffer[k] = s[g + k]
    BY <1>1, <1>2, <2>2, SubTextElements, SMTT(20)
  <2> QED
    BY <2>1, <2>3, <2>4
<1>6. /\ text \in Seq(Piece)
      /\ \A k \in 1..(u - g) : buffer[k].kind # "cut"
  <2>1. \A k \in 1..(u - g) : g + k \in DOMAIN Stream[c]
    BY <1>1, <1>2, LenProperties
  <2> QED
    BY <1>4, <1>5, <2>1, CStringType, PositionsAssumption
<1>7. CASE Nuls(buffer) = {}
  <2>1. text = buffer
    BY <1>7 DEF CString
  <2>2. DOMAIN text = 1..(u - g)
    BY <1>4, <1>5, <2>1, LenProperties
  <2>3. Segment(text, c, g)
    BY <1>5, <1>6, <2>1, <2>2 DEF Segment, ReadAs
  <2>4. g + Len(text) = u
    BY <1>1, <1>2, <1>5, <2>1
  <2> QED
    BY <1>1, <1>2, <1>4, <1>6, <2>3, <2>4
<1>8. CASE Nuls(buffer) # {}
  <2>1. z \in 1..Len(buffer) /\ buffer[z].kind = "nul"
    <3>1. Nuls(buffer) \subseteq 1..Len(buffer)
      BY <1>4, LenProperties DEF Nuls
    <3> QED
      BY <1>8, <3>1, FirstType DEF Nuls
  <2> HIDE DEF z
  <2> DEFINE front == SubSeq(buffer, 1, z - 1)
             cut == [buffer[z] EXCEPT !.kind = "cut"]
  <2>2. text = Append(front, cut)
    BY <1>8 DEF CString, z
  <2>3. cut \in Piece /\ cut.kind = "cut"
    <3>1. buffer[z] \in Piece
      BY <1>4, <2>1, ElementOfSeq
    <3> QED
      BY <3>1 DEF Piece, Kinds
  <2>4. /\ front \in Seq(Piece) /\ Len(front) = z - 1
        /\ \A k \in 1..(z - 1) : front[k] = buffer[k]
    BY <1>4, <2>1, SubTextType
  <2> HIDE DEF front, cut
  <2>5. /\ Len(text) = z /\ text[z] = cut /\ DOMAIN text = 1..z
        /\ \A k \in 1..(z - 1) : text[k] = buffer[k]
    BY <2>1, <2>2, <2>3, <2>4, AppendProperties, LenProperties
  <2>6. Segment(text, c, g)
    <3>1. ASSUME NEW k \in 1..(z - 1)
          PROVE  text[k] = Stream[c][g + k] /\ text[k].kind # "cut"
      <4>1. k \in 1..(u - g)
        BY <1>1, <1>2, <1>5, <2>1
      <4> QED
        BY <1>5, <1>6, <2>5, <4>1
    <3>2. text[z].kind = "cut" /\ Stream[c][g + z].kind = "nul"
      <4>1. z \in 1..(u - g)
        BY <1>1, <1>2, <1>5, <2>1
      <4> QED
        BY <1>5, <2>1, <2>3, <2>5, <4>1
    <3>3. \A k \in 1..z : k \in 1..(z - 1) \/ k = z
      BY <2>1
    <3> QED
      BY <2>1, <2>5, <3>1, <3>2, <3>3 DEF Segment, ReadAs
  <2>7. ~Whole(text)
    BY <2>1, <2>3, <2>5 DEF Whole
  <2> QED
    BY <1>1, <1>2, <1>4, <1>6, <2>6, <2>7
<1> QED
  BY <1>7, <1>8

(* The header in front of a text ends where its fields do.                  *)
LEMMA FramedHeaderEnd ==
  ASSUME NEW text \in Seq(Piece), NEW h, Framed(text, h)
  PROVE  HeaderEnds(text) # {} /\ findHeaderEnd(text) = 2
<1>1. Len(text) \in Nat /\ DOMAIN text = 1..Len(text) /\ 2 <= Len(text)
  BY LenProperties DEF Framed
<1>2. 2 \in HeaderEnds(text) /\ 1 \notin HeaderEnds(text)
  BY <1>1 DEF HeaderEnds, Framed
<1>3. HeaderEnds(text) \subseteq 1..Len(text) /\ HeaderEnds(text) \in SUBSET Nat
  BY <1>1 DEF HeaderEnds
<1>4. findHeaderEnd(text) \in HeaderEnds(text) /\ findHeaderEnd(text) <= 2
  BY <1>2, <1>3, FirstType DEF findHeaderEnd
<1> QED
  BY <1>2, <1>3, <1>4

LEMMA FramedBody ==
  ASSUME NEW text \in Seq(Piece), NEW h, Framed(text, h),
         NEW rest, rest = fetchUnparsedBody(text)
  PROVE  /\ rest \in Seq(Piece)
         /\ Len(text) \in Nat /\ 2 <= Len(text)
         /\ Len(rest) = Len(text) - 2 /\ DOMAIN rest = 1..(Len(text) - 2)
         /\ \A j \in 1..(Len(text) - 2) : rest[j] = text[2 + j]
<1>1. rest = SubSeq(text, 2 + 1, Len(text))
  BY FramedHeaderEnd DEF fetchUnparsedBody
<1>2. Len(text) \in Nat /\ 2 <= Len(text)
  BY LenProperties DEF Framed
<1>3. PICK n \in Nat : n = Len(text) /\ 2 <= n
  BY <1>2
<1>4. rest = SubSeq(text, 2 + 1, n) /\ n <= Len(text)
  BY <1>1, <1>3
<1>5. /\ rest \in Seq(Piece)
      /\ Len(rest) = n - 2 /\ DOMAIN rest = 1..(n - 2)
      /\ \A j \in 1..(n - 2) : rest[j] = text[2 + j]
  <2>1. rest \in Seq(Piece)
    BY <1>3, <1>4, SubTextElements
  <2>2. Len(rest) = n - 2 /\ DOMAIN rest = 1..(n - 2)
    BY <1>3, <1>4, SubTextElements
  <2>3. \A j \in 1..(n - 2) : rest[j] = text[2 + j]
    BY <1>3, <1>4, SubTextElements
  <2> QED
    BY <2>1, <2>2, <2>3
<1> QED
  BY <1>3, <1>5

(* Text that is appended to text of the same connection, in order.          *)
LEMMA AppendedAsSent ==
  ASSUME NEW s \in Seq(Piece), NEW t \in Seq(Piece), NEW c \in Conns,
         NEW a \in Int, NEW g \in Nat, NEW u \in Nat,
         AsSent(s, c, a), Whole(s) => a + Len(s) = g,
         Segment(t, c, g), Whole(t) => g + Len(t) = u
  PROVE  /\ s \o t \in Seq(Piece)
         /\ AsSent(s \o t, c, a)
         /\ Whole(s \o t) => a + Len(s \o t) = u
<1>0. PICK m \in Nat, n \in Nat, all \in Seq(Piece) :
        m = Len(s) /\ n = Len(t) /\ all = s \o t
  BY ConcatProperties, LenProperties
<1>1. /\ DOMAIN s = 1..m /\ DOMAIN t = 1..n
      /\ DOMAIN all = 1..(m + n) /\ Len(all) = m + n
      /\ \A k \in 1..m : all[k] = s[k]
      /\ \A k \in 1..n : all[m + k] = t[k]
  BY <1>0, ConcatProperties, LenProperties
<1>2. AsSent(all, c, a)
  <2> SUFFICES ASSUME NEW k \in 1..(m + n), \A j \in 1..(k - 1) : all[j].kind # "cut"
               PROVE  ReadAs(all[k], Stream[c][a + k])
    BY <1>1 DEF AsSent
  <2>1. CASE k <= m
    <3>1. k \in 1..m /\ 1..(k - 1) \subseteq 1..m
      BY <2>1
    <3>2. \A j \in 1..(k - 1) : s[j].kind # "cut"
      BY <1>1, <3>1
    <3> QED
      BY <1>1, <3>1, <3>2 DEF AsSent
  <2>2. CASE k > m
    <3>1. Whole(s)
      <4>1. 1..m \subseteq 1..(k - 1)
        BY <2>2
      <4> QED
        BY <1>1, <4>1 DEF Whole
    <3>2. PICK i \in 1..n : i = k - m
      BY <1>1, <2>2
    <3>3. all[k] = t[i]
      BY <1>1, <3>2
    <3>4. ReadAs(t[i], Stream[c][g + i])
      BY <1>1 DEF Segment
    <3>5. g + i = a + k
      <4>1. a + m = g
        BY <1>0, <3>1
      <4> QED
        BY <3>2, <4>1
    <3> QED
      BY <3>3, <3>4, <3>5
  <2> QED
    BY <1>1, <2>1, <2>2
<1>3. ASSUME Whole(all) PROVE a + (m + n) = u
  <2>1. Whole(s)
    BY <1>1, <1>3 DEF Whole
  <2>2. \A i \in 1..n : t[i].kind # "cut"
    <3> SUFFICES ASSUME NEW i \in 1..n PROVE t[i].kind # "cut"
      OBVIOUS
    <3>1. m + i \in 1..(m + n) /\ all[m + i] = t[i]
      BY <1>1
    <3> QED
      BY <1>1, <1>3, <3>1 DEF Whole
  <2>3. Whole(t)
    BY <1>1, <2>2 DEF Whole
  <2>4. a + m = g /\ g + n = u
    BY <1>0, <2>1, <2>3
  <2> QED
    BY <2>4
<1> QED
  BY <1>0, <1>1, <1>2, <1>3

LEMMA SegmentAsSent ==
  ASSUME NEW t \in Seq(Piece), NEW c, NEW g, Segment(t, c, g)
  PROVE  AsSent(t, c, g)
<1>1. DOMAIN t = 1..Len(t) /\ Len(t) \in Nat
  BY LenProperties
<1> QED
  BY <1>1 DEF AsSent, Segment

(* Text that begins with a header still does when more is appended.         *)
LEMMA FramedKept ==
  ASSUME NEW s \in Seq(Piece), NEW t \in Seq(Piece), NEW h, Framed(s, h)
  PROVE  Framed(s \o t, h)
  BY ConcatProperties, LenProperties DEF Framed

-------------------------------------------------------------------------------
(* What the blocks of parse() leave behind *)

(* A header is refused, or is the one the stream goes on with.              *)
LEMMA HeaderRead ==
  ASSUME NEW p \in GoodParser, p.status = "HEADER", p.header = NoHeader,
         NEW c \in Conns, NEW g \in Nat,
         NEW text \in Seq(Piece), Segment(text, c, g), NEW port,
         NEW q \in parseRequestHeader(p, text, port)
  PROVE  \/ q.status = "ERROR" /\ q.header = NoHeader /\ q.code # "200"
         \/ /\ q.status = IF Header[q.header.req].chunked THEN "CHUNKED" ELSE "BODY"
            /\ q.chunked = p.chunked
            /\ q.header \in Piece /\ q.header = Stream[c][g + 1]
            /\ Framed(text, q.header)
<1>0. p \in Parser
  BY DEF GoodParser
<1>1. \A code : /\ Failed(p, code).status = "ERROR"
                /\ Failed(p, code).header = NoHeader /\ Failed(p, code).code = code
  BY <1>0 DEF Failed, Parser
<1>2. CASE HeaderEnds(text) = {} \/ ~IsHeader(fetchUnparsedHeader(text))
  BY <1>1, <1>2 DEF parseRequestHeader, GarbageCodes
<1>3. CASE HeaderEnds(text) # {} /\ IsHeader(fetchUnparsedHeader(text))
  <2> DEFINE n == findHeaderEnd(text)
             head == fetchUnparsedHeader(text)
  <2>1. n \in 1..Len(text) /\ Len(text) \in Nat
    BY <1>3, HeaderEndType, LenProperties
  <2>2. Len(head) = n /\ \A k \in 1..n : head[k] = text[k]
    <3>1. head = SubSeq(text, 1, n)
      BY DEF fetchUnparsedHeader
    <3> HIDE DEF n, head
    <3>2. Len(head) = n
      BY <2>1, <3>1, FrontElements
    <3>3. \A k \in 1..n : head[k] = text[k]
      BY <2>1, <3>1, FrontElements
    <3> QED
      BY <3>2, <3>3
  <2>3. /\ Len(head) = 2 /\ head[1].kind = "line" /\ head[2].kind = "fields"
    BY <1>3 DEF IsHeader
  <2> HIDE DEF n, head
  <2>4. n = 2 /\ head[1] = text[1] /\ head[2] = text[2]
    <3>1. n = 2
      BY <2>2, <2>3
    <3> QED
      BY <2>2, <3>1
  <2>5. text[1] \in Piece /\ DOMAIN text = 1..Len(text) /\ 2 <= Len(text)
    BY <2>1, <2>4, ElementOfSeq, LenProperties
  <2>6. Framed(text, text[1])
    BY <2>3, <2>4, <2>5 DEF Framed
  <2>7. text[1] = Stream[c][g + 1]
    BY <2>3, <2>4, <2>5 DEF Segment, ReadAs
  <2>8. CASE Header[text[1].req].code # "200"
    BY <1>1, <1>3, <2>8 DEF parseRequestHeader
  <2>9. CASE Header[text[1].req].code = "200"
    <3>1. q = [p EXCEPT
                 !.header = text[1],
                 !.conf = findServerConfig(port, Header[text[1].req].host),
                 !.status = IF Header[text[1].req].chunked THEN "CHUNKED" ELSE "BODY"]
      BY <1>3, <2>9 DEF parseRequestHeader
    <3>2. /\ q.header = text[1] /\ q.chunked = p.chunked
          /\ q.status = IF Header[text[1].req].chunked THEN "CHUNKED" ELSE "BODY"
      BY <1>0, <3>1 DEF Parser
    <3> QED
      BY <2>5, <2>6, <2>7, <3>2
  <2> QED
    BY <2>8, <2>9
<1> QED
  BY <1>2, <1>3

(* A body framed by its length is refused, or is what follows the header.   *)
LEMMA BodyRead ==
  ASSUME NEW p \in Parser, p.status = "BODY",
         NEW h \in Piece, h = p.header, ~Header[h.req].chunked,
         NEW c \in Conns, NEW g \in Nat, h = Stream[c][g + 1], h.pos = g + 1,
         NEW text \in Seq(Piece), Segment(text, c, g), Framed(text, h),
         NEW q \in parseBody(p, text)
  PROVE  /\ q.header = h /\ q.status \in {"DONE", "ERROR"}
         /\ q.status = "DONE" => GoodRequest(c, buildRequest(q))
         /\ q.status = "ERROR" => q.code # "200"
<1>1. \A code : /\ Failed(p, code).status = "ERROR"
                /\ Failed(p, code).header = h /\ Failed(p, code).code = code
  BY DEF Failed, Parser
<1>2. PICK n \in Nat : n = contentLength(Header[h.req])
  BY ContentLengthType DEF Piece
<1> DEFINE rest == fetchUnparsedBody(text)
<1> HIDE DEF rest
<1>3. CASE q \in {Failed(p, "500"), Failed(p, "413"), Failed(p, "400")}
  BY <1>1, <1>3
<1>4. CASE /\ ~(Size(rest) < n)
           /\ q = [p EXCEPT !.status = "DONE", !.body = SubSeq(rest, 1, n)]
  <2>1. PICK m \in Nat :
          /\ m = Len(rest) /\ Len(text) = m + 2
          /\ rest \in Seq(Piece)
          /\ \A j \in 1..m : rest[j] = text[2 + j]
    <3>1. /\ rest \in Seq(Piece)
          /\ Len(text) \in Nat /\ 2 <= Len(text)
          /\ Len(rest) = Len(text) - 2 /\ DOMAIN rest = 1..(Len(text) - 2)
          /\ \A j \in 1..(Len(text) - 2) : rest[j] = text[2 + j]
      BY FramedBody, Zenon DEF rest
    <3>2. PICK m \in Nat : m = Len(text) - 2
      BY <3>1
    <3> QED
      BY <3>1, <3>2
  <2>2. n <= m /\ (n = m /\ m # 0 => rest[m].kind # "cut")
    BY <1>4, <2>1, EmptySeq, SeqEqual DEF Size
  <2>3. \A j \in 1..n : rest[j] = Stream[c][g + 2 + j]
    <3> SUFFICES ASSUME NEW j \in 1..n PROVE rest[j] = Stream[c][g + 2 + j]
      OBVIOUS
    <3>1. 2 + j \in DOMAIN text /\ rest[j] = text[2 + j]
      BY <2>1, <2>2, LenProperties
    <3>2. 2 + j < Len(text) \/ text[2 + j].kind # "cut"
      BY <2>1, <2>2, <3>1
    <3>3. text[2 + j] = Stream[c][g + (2 + j)]
      BY <3>1, <3>2 DEF Segment, ReadAs
    <3>4. g + (2 + j) = g + 2 + j
      OBVIOUS
    <3> QED
      BY <3>1, <3>3, <3>4
  <2>4. PICK body : body = SubSeq(rest, 1, n)
    OBVIOUS
  <2>5. Len(body) = n /\ \A j \in 1..n : body[j] = rest[j]
    <3>1. Len(body) = n
      BY <2>1, <2>2, <2>4, FrontElements
    <3>2. \A j \in 1..n : body[j] = rest[j]
      BY <2>1, <2>2, <2>4, FrontElements
    <3> QED
      BY <3>1, <3>2
  <2>6. q.header = h /\ q.status = "DONE" /\ q.body = body
    BY <1>4, <2>4 DEF Parser
  <2>7. \A j \in 1..n : body[j] = Stream[c][h.pos + 1 + j]
    BY <2>3, <2>5
  <2>8. GoodRequest(c, buildRequest(q))
    BY <1>2, <2>5, <2>6, <2>7 DEF GoodRequest, ContentUnit, buildRequest
  <2> QED
    BY <2>6, <2>8
<1> QED
  BY <1>2, <1>3, <1>4 DEF parseBody, rest

(* A chunked body is refused, collected on, or is what follows the header   *)
(* up to the line 0, or to a NUL.                                           *)
LEMMA ChunksRead ==
  ASSUME NEW p \in Parser, p.status = "CHUNKED",
         NEW h \in Piece, h = p.header, Header[h.req].chunked,
         NEW text, p.chunked \o text \in Seq(Piece), Framed(p.chunked \o text, h),
         NEW c \in Conns, AsSent(p.chunked \o text, c, h.pos - 1),
         NEW q \in collectChunks(p, text)
  PROVE  /\ q.header = h /\ q.status \in {"CHUNKED", "DONE", "ERROR"}
         /\ q.status = "CHUNKED" => q.chunked = p.chunked \o text
         /\ q.status = "DONE" => GoodRequest(c, buildRequest(q))
         /\ q.status = "ERROR" => q.code # "200"
<1>0. PICK all \in Seq(Piece) :
        all = p.chunked \o text /\ Framed(all, h) /\ AsSent(all, c, h.pos - 1)
  OBVIOUS
<1> DEFINE r == [p EXCEPT !.chunked = all]
           rest == fetchUnparsedBody(all)
           wrong == {i \in DOMAIN rest : rest[i].kind # "data"}
           stop == First(wrong)
<1>1. r \in Parser /\ r.status = "CHUNKED" /\ r.header = h /\ r.chunked = all
  BY DEF Parser
<1>2. \A code : /\ Failed(r, code).status = "ERROR"
                /\ Failed(r, code).header = h /\ Failed(r, code).code = code
  BY <1>1 DEF Failed, Parser
<1>3. CASE q = r
  BY <1>0, <1>1, <1>3
<1>4. CASE \E code \in {"400", "413", "500"} : q = Failed(r, code)
  BY <1>2, <1>4
<1>5. ASSUME MayTerminate(rest), NEW size \in (stop - 1)..Len(rest),
             \/ rest[stop].kind \in {"last", "zero"} /\ size = stop - 1
             \/ rest[stop].kind = "cut",
             q = [r EXCEPT !.status = "DONE", !.body = SubSeq(rest, 1, size)]
      PROVE  q.header = h /\ q.status = "DONE" /\ GoodRequest(c, buildRequest(q))
  <2> HIDE DEF rest
  <2>1. PICK m \in Nat :
          /\ m = Len(rest) /\ Len(all) = m + 2
          /\ rest \in Seq(Piece) /\ DOMAIN rest = 1..m
          /\ \A j \in 1..m : rest[j] = all[2 + j]
    <3>1. /\ rest \in Seq(Piece)
          /\ Len(all) \in Nat /\ 2 <= Len(all)
          /\ Len(rest) = Len(all) - 2 /\ DOMAIN rest = 1..(Len(all) - 2)
          /\ \A j \in 1..(Len(all) - 2) : rest[j] = all[2 + j]
      BY <1>0, FramedBody, Zenon DEF rest
    <3>2. PICK m \in Nat : m = Len(all) - 2
      BY <3>1
    <3>3. Len(all) = m + 2 /\ m = Len(rest) /\ DOMAIN rest = 1..m
      BY <3>1, <3>2
    <3> QED
      BY <3>1, <3>2, <3>3
  <2>2. wrong # {} /\ wrong \subseteq 1..m /\ wrong \in SUBSET Nat
    BY <1>5, <2>1 DEF MayTerminate, HasTerminator
  <2>3. stop \in wrong /\ \A i \in wrong : stop <= i
    <3> HIDE DEF wrong
    <3> QED
      BY <2>2, FirstType
  <2>4. PICK n \in Nat : /\ n = stop - 1 /\ n + 1 \in 1..m /\ stop = n + 1
                         /\ \A j \in 1..n : rest[j].kind = "data"
    <3>1. stop \in 1..m
      BY <2>2, <2>3
    <3> HIDE DEF stop
    <3>2. PICK n \in Nat : n = stop - 1
      BY <3>1
    <3>3. \A j \in 1..n : j \in 1..m /\ ~(stop <= j)
      BY <3>1, <3>2
    <3>4. \A j \in 1..n : rest[j].kind = "data"
      BY <2>1, <2>3, <3>3
    <3> QED
      BY <3>1, <3>2, <3>4
  <2>5. /\ size \in n..m
        /\ \/ rest[n + 1].kind \in {"last", "zero"} /\ size = n
           \/ rest[n + 1].kind = "cut"
    BY <1>5, <2>1, <2>4
  <2> HIDE DEF wrong, stop
  <2>6. \A k \in 1..(2 + n) : k \in DOMAIN all /\ all[k].kind # "cut"
    <3> SUFFICES ASSUME NEW k \in 1..(2 + n)
                 PROVE  k \in DOMAIN all /\ all[k].kind # "cut"
      OBVIOUS
    <3>1. k \in DOMAIN all
      BY <2>1, <2>4, LenProperties
    <3>2. CASE k \in {1, 2}
      BY <1>0, <3>1, <3>2 DEF Framed
    <3>3. CASE k \notin {1, 2}
      <4>1. PICK j \in 1..n : k = 2 + j
        <5>1. k - 2 \in 1..n /\ k = 2 + (k - 2)
          BY <3>3
        <5> QED
          BY <5>1
      <4>2. j \in 1..m /\ rest[j].kind = "data"
        BY <2>4, <4>1
      <4> QED
        BY <2>1, <3>1, <4>1, <4>2
    <3> QED
      BY <3>2, <3>3
  <2>7. \A k \in 1..(2 + (n + 1)) : ReadAs(all[k], Stream[c][h.pos - 1 + k])
    <3> SUFFICES ASSUME NEW k \in 1..(2 + (n + 1))
                 PROVE  ReadAs(all[k], Stream[c][h.pos - 1 + k])
      OBVIOUS
    <3>1. \A j \in 1..(k - 1) : j \in 1..(2 + n)
      BY <2>4
    <3>2. k \in DOMAIN all
      BY <2>1, <2>4, LenProperties
    <3> QED
      BY <1>0, <2>6, <3>1, <3>2 DEF AsSent
  <2>8. h.pos \in Nat
    BY DEF Piece
  <2>9. h = Stream[c][h.pos]
    <3>1. /\ 1 \in 1..(2 + (n + 1)) /\ 1 \in 1..(2 + n) /\ h.pos - 1 + 1 = h.pos
      BY <2>8
    <3> QED
      BY <1>0, <2>6, <2>7, <3>1 DEF Framed, ReadAs
  <2>10. \A j \in 1..(n + 1) : ReadAs(rest[j], ContentUnit(c, h, j))
    <3> SUFFICES ASSUME NEW j \in 1..(n + 1)
                 PROVE  ReadAs(rest[j], Stream[c][h.pos + 1 + j])
      BY DEF ContentUnit
    <3>1. /\ j \in 1..m /\ 2 + j \in 1..(2 + (n + 1))
          /\ h.pos - 1 + (2 + j) = h.pos + 1 + j
      <4>1. \A k \in Nat : k - 1 + (2 + j) = k + 1 + j
        BY <2>4
      <4>2. j \in 1..m /\ 2 + j \in 1..(2 + (n + 1))
        BY <2>4
      <4> QED
        BY <2>8, <4>1, <4>2
    <3> QED
      BY <2>1, <2>7, <3>1
  <2>11. PICK body : body = SubSeq(rest, 1, size)
    OBVIOUS
  <2>12. Len(body) = size /\ \A j \in 1..size : body[j] = rest[j]
    <3>0. size \in Nat /\ size <= Len(rest)
      BY <2>1, <2>5
    <3>1. Len(body) = size
      BY <2>1, <2>11, <3>0, FrontElements
    <3>2. \A j \in 1..size : body[j] = rest[j]
      BY <2>1, <2>11, <3>0, FrontElements
    <3> QED
      BY <3>1, <3>2
  <2>13. q.header = h /\ q.status = "DONE" /\ q.body = body
    BY <1>1, <1>5, <2>11 DEF Parser
  <2>14. \A j \in 1..n : body[j] = ContentUnit(c, h, j) /\ body[j].kind = "data"
    <3>1. \A j \in 1..n : j \in 1..(n + 1) /\ j \in 1..size
      BY <2>5
    <3> QED
      BY <2>4, <2>10, <2>12, <3>1 DEF ReadAs
  <2>15. \/ size = n /\ EndsChunks(c, h, n + 1)
         \/ CutsChunks(c, h, n + 1)
    <3>1. ReadAs(rest[n + 1], ContentUnit(c, h, n + 1))
      BY <2>10
    <3> QED
      BY <2>5, <3>1 DEF ReadAs, EndsChunks, CutsChunks
  <2>16. n \in 0..size
    BY <2>5
  <2>17. GoodRequest(c, buildRequest(q))
    BY <2>9, <2>12, <2>13, <2>14, <2>15, <2>16 DEF GoodRequest, buildRequest
  <2> QED
    BY <2>13, <2>17
<1>6. \/ q = r \/ \E code \in {"400", "413", "500"} : q = Failed(r, code)
      \/ MayTerminate(rest) /\ q \in parseChunkedBody(r, rest)
  BY <1>0, <1>1 DEF collectChunks
<1>7. ASSUME MayTerminate(rest), q \in parseChunkedBody(r, rest)
      PROVE  \/ \E code \in {"400", "413", "500"} : q = Failed(r, code)
             \/ \E size \in (stop - 1)..Len(rest) :
                  /\ \/ rest[stop].kind \in {"last", "zero"} /\ size = stop - 1
                     \/ rest[stop].kind = "cut"
                  /\ q = [r EXCEPT !.status = "DONE", !.body = SubSeq(rest, 1, size)]
  <2>1. stop - 1 \in (stop - 1)..Len(rest)
    <3>1. /\ Len(rest) \in Nat /\ wrong \subseteq 1..Len(rest) /\ wrong \in SUBSET Nat
          /\ wrong # {}
      <4>1. rest \in Seq(Piece)
        BY <1>0, FramedBody
      <4> HIDE DEF rest
      <4>2. Len(rest) \in Nat /\ DOMAIN rest = 1..Len(rest)
        BY <4>1, LenProperties
      <4> QED
        BY <1>7, <4>2 DEF MayTerminate, HasTerminator
    <3> HIDE DEF wrong, rest
    <3>2. stop \in 1..Len(rest)
      BY <3>1, FirstType
    <3> QED
      BY <3>1, <3>2
  <2> HIDE DEF rest
  <2>2. \/ \E code \in {"400", "413", "500"} : q = Failed(r, code)
        \/ /\ rest[stop].kind \in {"last", "zero"}
           /\ q = [r EXCEPT !.status = "DONE", !.body = SubSeq(rest, 1, stop - 1)]
        \/ /\ rest[stop].kind = "cut"
           /\ \E size \in (stop - 1)..Len(rest) :
                q = [r EXCEPT !.status = "DONE", !.body = SubSeq(rest, 1, size)]
    BY <1>7 DEF parseChunkedBody
  <2> HIDE DEF stop
  <2> QED
    BY <2>1, <2>2
<1> QED
  BY <1>0, <1>1, <1>3, <1>4, <1>5, <1>6, <1>7

(* Between two segments the parser holds what was sent so far; the header   *)
(* of what it is reading is the next one of the stream, or the one it was   *)
(* collecting chunks for.                                                   *)
LEMMA ParseRead ==
  ASSUME NEW c \in Conns, NEW g \in Nat, NEW u \in Nat,
         g < u, u <= Len(Stream[c]),
         NEW p \in GoodParser, ReadSoFar(p, c, g),
         NEW text \in Seq(Piece), Segment(text, c, g), Whole(text) => g + Len(text) = u,
         NEW port \in ports, NEW q \in parse(p, text, port)
  PROVE  /\ ReadSoFar(q, c, u)
         /\ \/ q.header = NoHeader
            \/ q.header.pos = g + 1
            \/ p.status = "CHUNKED" /\ q.header = p.header
<1> DEFINE fresh == IF finished(p) \/ errorOccured(p) THEN clear(p) ELSE p
           headed == IF fresh.status = "HEADER"
                     THEN parseRequestHeader(fresh, text, port) ELSE {fresh}
<1>1. fresh \in GoodParser /\ fresh.status \in {"HEADER", "CHUNKED"}
  BY ClearGood DEF GoodParser, Parser, finished, errorOccured
<1>2. fresh.status = "HEADER" => fresh.header = NoHeader /\ fresh.chunked = <<>>
  <2>1. clear(p).header = NoHeader
    BY DEF clear, NewParser
  <2> QED
    BY <1>1, <2>1 DEF ReadSoFar, GoodParser
<1>3. fresh.status = "CHUNKED" => fresh = p
  BY ClearGood DEF GoodParser
<1> HIDE DEF fresh
<1>4. PICK h \in headed :
        q \in IF h.status = "BODY" THEN parseBody(h, text)
              ELSE IF h.status = "CHUNKED" THEN collectChunks(h, text)
              ELSE {h}
  BY DEF parse, fresh
<1>5. CASE fresh.status = "HEADER"
  <2>1. h \in parseRequestHeader(fresh, text, port)
    BY <1>5
  <2>2. CASE h.status = "ERROR" /\ h.header = NoHeader /\ h.code # "200"
    <3>1. q = h
      BY <1>4, <2>2
    <3> QED
      BY <2>2, <3>1 DEF ReadSoFar
  <2>3. CASE /\ h.status = IF Header[h.header.req].chunked THEN "CHUNKED" ELSE "BODY"
             /\ h.chunked = <<>>
             /\ h.header \in Piece /\ h.header = Stream[c][g + 1]
             /\ Framed(text, h.header)
    <3>0. h \in Parser
      BY <1>1, <1>5, <2>1, <2>3, ParseHeaderType DEF GoodParser
    <3>1. h.header.pos = g + 1
      <4>1. Stream[c] \in Seq(Piece)
        BY ConnsAssumption
      <4>2. Len(Stream[c]) \in Nat /\ DOMAIN Stream[c] = 1..Len(Stream[c])
        BY <4>1, LenProperties
      <4>3. g + 1 \in DOMAIN Stream[c]
        BY <4>2
      <4> QED
        BY <2>3, <4>3, PositionsAssumption
    <3>2. CASE h.status = "BODY"
      <4>1. /\ q.header = h.header /\ q.status \in {"DONE", "ERROR"}
            /\ q.status = "DONE" => GoodRequest(c, buildRequest(q))
            /\ q.status = "ERROR" => q.code # "200"
        BY <1>4, <2>3, <3>0, <3>1, <3>2, BodyRead
      <4> QED
        BY <3>1, <4>1 DEF ReadSoFar
    <3>3. CASE h.status = "CHUNKED"
      <4>1. h.chunked \o text = text
        BY <2>3, ConcatEmptySeq
      <4>2. AsSent(text, c, h.header.pos - 1)
        <5>1. h.header.pos - 1 = g
          BY <3>1
        <5> QED
          BY <5>1, SegmentAsSent
      <4>3. /\ q.header = h.header /\ q.status \in {"CHUNKED", "DONE", "ERROR"}
            /\ q.status = "CHUNKED" => q.chunked = text
            /\ q.status = "DONE" => GoodRequest(c, buildRequest(q))
            /\ q.status = "ERROR" => q.code # "200"
        <5>1. PICK line \in Piece : line = h.header
          BY <2>3
        <5>2. /\ h.chunked \o text \in Seq(Piece) /\ Framed(h.chunked \o text, line)
              /\ AsSent(h.chunked \o text, c, line.pos - 1)
              /\ Header[line.req].chunked
          BY <2>3, <3>3, <4>1, <4>2, <5>1
        <5>3. q \in collectChunks(h, text)
          BY <1>4, <3>3
        <5>4. /\ q.header = line /\ q.status \in {"CHUNKED", "DONE", "ERROR"}
              /\ q.status = "CHUNKED" => q.chunked = h.chunked \o text
              /\ q.status = "DONE" => GoodRequest(c, buildRequest(q))
              /\ q.status = "ERROR" => q.code # "200"
          BY <3>0, <3>3, <5>1, <5>2, <5>3, ChunksRead
        <5> QED
          BY <4>1, <5>1, <5>4
      <4>4. h.header.pos <= u /\ (Whole(text) => h.header.pos - 1 + Len(text) = u)
        BY <3>1
      <4> QED
        BY <2>3, <3>1, <3>3, <4>2, <4>3, <4>4 DEF ReadSoFar
    <3> QED
      BY <2>3, <3>2, <3>3
  <2> QED
    BY <1>1, <1>2, <1>5, <2>1, <2>2, <2>3, HeaderRead
<1>6. CASE fresh.status = "CHUNKED"
  <2>1. h = p /\ p.status = "CHUNKED" /\ p \in Parser /\ p.header \in Piece
    BY <1>1, <1>3, <1>6 DEF GoodParser
  <2>2. q \in collectChunks(p, text)
    BY <1>4, <2>1
  <2>3. PICK a \in Int : a = p.header.pos - 1
    BY <2>1 DEF Piece
  <2>4. /\ Header[p.header.req].chunked /\ Framed(p.chunked, p.header)
        /\ AsSent(p.chunked, c, a) /\ p.chunked \in Seq(Piece)
        /\ Whole(p.chunked) => a + Len(p.chunked) = g
        /\ p.header.pos <= g
    BY <2>1, <2>3, NoHeaderAssumption DEF ReadSoFar, Parser
  <2>5. /\ p.chunked \o text \in Seq(Piece) /\ AsSent(p.chunked \o text, c, a)
        /\ Whole(p.chunked \o text) => a + Len(p.chunked \o text) = u
    BY <2>4, AppendedAsSent
  <2>6. Framed(p.chunked \o text, p.header)
    BY <2>4, FramedKept
  <2>7. PICK line \in Piece : line = p.header
    BY <2>1
  <2>8. /\ q.header = p.header /\ q.status \in {"CHUNKED", "DONE", "ERROR"}
        /\ q.status = "CHUNKED" => q.chunked = p.chunked \o text
        /\ q.status = "DONE" => GoodRequest(c, buildRequest(q))
        /\ q.status = "ERROR" => q.code # "200"
    <3>1. /\ AsSent(p.chunked \o text, c, line.pos - 1)
          /\ Framed(p.chunked \o text, line) /\ Header[line.req].chunked
      BY <2>3, <2>4, <2>5, <2>6, <2>7
    <3>2. /\ q.header = line /\ q.status \in {"CHUNKED", "DONE", "ERROR"}
          /\ q.status = "CHUNKED" => q.chunked = p.chunked \o text
          /\ q.status = "DONE" => GoodRequest(c, buildRequest(q))
          /\ q.status = "ERROR" => q.code # "200"
      <4>1. p \in Parser /\ p.status = "CHUNKED" /\ p.chunked \o text \in Seq(Piece)
        BY <2>1, <2>5
      <4> QED
        BY <2>2, <2>7, <3>1, <4>1, ChunksRead
    <3> QED
      BY <2>7, <3>2
  <2>9. p.header.pos <= u
    BY <2>1, <2>4 DEF Piece
  <2> QED
    BY <2>1, <2>3, <2>4, <2>5, <2>6, <2>8, <2>9 DEF ReadSoFar
<1> QED
  BY <1>1, <1>5, <1>6


-------------------------------------------------------------------------------
(* The inductive invariant *)

\* A client knows the port it connected to; its parser holds the first g pieces
\* of its stream; and what it is to be sent answers the request its parser holds,
\* with the server block of that port and of the host the request names.
RightClient(client, g) ==
  /\ client.port = PortOf[client.conn]
  /\ ReadSoFar(client.parser, client.conn, g)
  /\ client.state = "WRITE" =>
       /\ RequestReady(client)
       /\ client.response.request = buildRequest(client.parser)
       /\ IsBlockFor(client.response.conf, client.port,
                     HostOf(client.response.request))

RightClients ==
  \A fd \in Fds :
    clnt_socks[fd] # Null => RightClient(clnt_socks[fd], got[clnt_socks[fd].conn])

\* The request a client of the parser holds, once it is complete.
ReadyWith(client) == RequestReady(client) /\ client.request = buildRequest(client.parser)

ScriptReads == pc = "script" => ReadyWith(clnt_socks[current])

\* Everything that was answered over c stands before this header.
Newer(c, header) ==
  header # NoHeader =>
    \A i \in DOMAIN answers[c] :
      answers[c][i].request.header # NoHeader =>
        answers[c][i].request.header.pos < header.pos

\* The parser of fd holds a request that is still to be answered.
Unanswered(fd) ==
  \/ clnt_socks[fd].parser.status = "CHUNKED"
  \/ clnt_socks[fd].state = "WRITE"
  \/ pc = "script" /\ current = fd

NewerIsHeld ==
  \A fd \in Fds :
    clnt_socks[fd] # Null /\ Unanswered(fd) =>
      Newer(clnt_socks[fd].conn, clnt_socks[fd].parser.header)

AnsweredWasRead ==
  \A c \in Conns : \A i \in DOMAIN answers[c] :
    answers[c][i].request.header # NoHeader =>
      answers[c][i].request.header.pos <= got[c]

\* The part of it that is about the answers which were sent.
GoodAnswers ==
  AnsweredWasRead /\ ConfigOfAnswer /\ RequestsReadAsSent /\ AnswersInOrder

RInv == RightClients /\ ScriptReads /\ NewerIsHeld /\ GoodAnswers
AInv == IInv /\ RInv

-------------------------------------------------------------------------------
(* Single clients *)

LEMMA NewClientRight ==
  ASSUME NEW c \in Conns, NEW g
  PROVE  /\ RightClient(NewClient(c, PortOf[c]), g)
         /\ NewClient(c, PortOf[c]).parser.status = "HEADER"
  BY DEF RightClient, NewClient, NewParser, ReadSoFar

(* The search for a block finds the one that is right.                      *)
LEMMA LookupRight ==
  ASSUME NEW port \in ports, NEW host
  PROVE  IsBlockFor(findServerConfig(port, host), port, host)
<1> DEFINE named == Named(port, host)
           conf == findServerConfig(port, host)
<1>1. /\ OnPort(port) # {} /\ OnPort(port) \in SUBSET Nat /\ named \in SUBSET Nat
      /\ named \subseteq OnPort(port)
  BY ServersAssumption DEF OnPort, Named, ports
<1>2. \A j : /\ j \in OnPort(port) <=> j \in DOMAIN Servers /\ Servers[j].port = port
             /\ j \in named <=> j \in OnPort(port) /\ host \in Servers[j].names
  BY DEF OnPort, Named
<1>3. DOMAIN Servers = 1..Len(Servers) /\ Len(Servers) \in Nat
  BY ServersAssumption
<1>4. CASE named # {}
  <2>1. conf = First(named)
    BY <1>4 DEF findServerConfig
  <2> HIDE DEF named, conf
  <2>2. conf \in named /\ \A j \in named : conf <= j
    BY <1>1, <1>4, <2>1, FirstType
  <2>3. conf \in 1..Len(Servers) /\ Servers[conf].port = port /\ host \in Servers[conf].names
    BY <1>2, <1>3, <2>2
  <2>4. \A j \in 1..(conf - 1) : j \in DOMAIN Servers /\ ~(conf <= j)
    BY <1>3, <2>3
  <2>5. \A j \in 1..(conf - 1) : ~(Servers[j].port = port /\ host \in Servers[j].names)
    BY <1>2, <2>2, <2>4
  <2>6. IsBlockFor(conf, port, host)
    BY <1>3, <2>3, <2>5 DEF IsBlockFor
  <2> QED
    BY <2>6 DEF conf
<1>5. CASE named = {}
  <2>1. conf = First(OnPort(port))
    BY <1>5 DEF findServerConfig, findDefaultServerConfig
  <2> HIDE DEF named, conf
  <2>2. conf \in OnPort(port) /\ \A j \in OnPort(port) : conf <= j
    BY <1>1, <2>1, FirstType
  <2>3. conf \in 1..Len(Servers) /\ Servers[conf].port = port
    BY <1>2, <1>3, <2>2
  <2>4. \A j \in DOMAIN Servers : ~(Servers[j].port = port /\ host \in Servers[j].names)
    BY <1>2, <1>5
  <2>5. \A j \in 1..(conf - 1) : j \in DOMAIN Servers /\ ~(conf <= j)
    BY <1>3, <2>3
  <2>6. \A j \in 1..(conf - 1) : Servers[j].port # port
    BY <1>2, <2>2, <2>5
  <2>7. IsBlockFor(conf, port, host)
    BY <1>3, <2>3, <2>4, <2>6 DEF IsBlockFor
  <2> QED
    BY <2>7 DEF conf
<1> QED
  BY <1>4, <1>5

LEMMA AnsweredRight ==
  ASSUME NEW client \in Client, NEW g, RightClient(client, g), ReadyWith(client),
         NEW code
  PROVE  /\ RightClient(Answered(client, code), g)
         /\ Answered(client, code).conn = client.conn
         /\ Answered(client, code).parser = client.parser
<1> DEFINE conf == findServerConfig(client.port, HostOf(client.request))
           response == [code |-> code, conf |-> conf, request |-> client.request]
<1>1. Answered(client, code) = [client EXCEPT !.response = response, !.state = "WRITE"]
  BY DEF Answered
<1>2. /\ IsBlockFor(response.conf, client.port, HostOf(response.request))
      /\ response.request = buildRequest(client.parser)
  <2>1. client.port \in ports
    BY DEF Client
  <2> QED
    BY <2>1, LookupRight DEF ReadyWith
<1> HIDE DEF response, conf
<1>3. /\ Answered(client, code).conn = client.conn
      /\ Answered(client, code).port = client.port
      /\ Answered(client, code).parser = client.parser
      /\ Answered(client, code).response = response
  BY <1>1 DEF Client
<1> QED
  BY <1>2, <1>3 DEF RightClient, ReadyWith, RequestReady

LEMMA StateRight ==
  ASSUME NEW client \in Client, NEW g, RightClient(client, g),
         NEW state, state # "WRITE"
  PROVE  /\ RightClient([client EXCEPT !.state = state], g)
         /\ [client EXCEPT !.state = state].conn = client.conn
         /\ [client EXCEPT !.state = state].parser = client.parser
         /\ [client EXCEPT !.state = state].state = state
  BY DEF RightClient, Client

(* Receiving reads on, and a request that is complete is the next one of    *)
(* the stream, or the one whose chunks were collected.                      *)
LEMMA GenerateRead ==
  ASSUME NEW client \in GoodClient, client.state = "READ",
         NEW c \in Conns, c = client.conn, NEW g \in Nat, NEW u \in Nat,
         g < u, u <= Len(Stream[c]), RightClient(client, g),
         NEW buffer, NEW text \in Seq(Piece), text = CString(buffer),
         Segment(text, c, g), Whole(text) => g + Len(text) = u,
         NEW next \in generateRequest(client, buffer)
  PROVE  /\ RightClient(next, u) /\ next \in Client /\ next.state = "READ"
         /\ RequestReady(next) => ReadyWith(next)
         /\ \/ next.parser.header = NoHeader
            \/ next.parser.header.pos = g + 1
            \/ /\ client.parser.status = "CHUNKED"
               /\ next.parser.header = client.parser.header
<1> DEFINE Outcomes(t) ==
      { [client EXCEPT !.parser = p,
                       !.request = IF finished(p) \/ errorOccured(p)
                                   THEN buildRequest(p) ELSE @] :
        p \in parse(client.parser, t, client.port) }
<1>1. next \in Outcomes(text)
  <2>1. next \in UNION {Outcomes(t) : t \in {CString(buffer)}}
    BY DEF generateRequest
  <2> HIDE DEF Outcomes
  <2> QED
    BY <2>1
<1>2. PICK p \in parse(client.parser, text, client.port) :
        next = [client EXCEPT !.parser = p,
                              !.request = IF finished(p) \/ errorOccured(p)
                                          THEN buildRequest(p) ELSE @]
  BY <1>1
<1> HIDE DEF Outcomes
<1>3. /\ client \in Client /\ client.parser \in GoodParser /\ client.port \in ports
      /\ ReadSoFar(client.parser, c, g) /\ client.port = PortOf[c]
  BY DEF GoodClient, Client, RightClient
<1>4. /\ ReadSoFar(p, c, u)
      /\ \/ p.header = NoHeader
         \/ p.header.pos = g + 1
         \/ client.parser.status = "CHUNKED" /\ p.header = client.parser.header
  BY <1>3, ParseRead, SMTT(20)
<1>5. p \in GoodParser
  BY <1>3, ParseType
<1>6. p \in Parser /\ buildRequest(p) \in Request
  BY <1>5, BuildRequestType DEF GoodParser
<1>7. next \in Client
  BY <1>2, <1>3, <1>6 DEF Client
<1>8. /\ next.parser = p /\ next.conn = c /\ next.port = client.port
      /\ next.state = "READ"
      /\ finished(p) \/ errorOccured(p) => next.request = buildRequest(p)
  BY <1>2, <1>3 DEF Client
<1> QED
  BY <1>3, <1>4, <1>7, <1>8 DEF RightClient, ReadyWith, RequestReady

-------------------------------------------------------------------------------
(* What a change of one client keeps *)

LEMMA AnswerType ==
  ASSUME TypeOK, NEW c \in Conns, NEW i \in DOMAIN answers[c]
  PROVE  /\ answers[c][i] \in Response
         /\ answers[c][i].request.header # NoHeader =>
              answers[c][i].request.header.pos \in Nat
<1>1. answers[c] \in Seq(Response)
  BY DEF TypeOK
<1>2. answers[c][i] \in Response
  BY <1>1, LenProperties, ElementOfSeq
<1> QED
  BY <1>2 DEF Response, Request, Headers, Piece

LEMMA NothingChanged ==
  ASSUME RInv, UNCHANGED <<clnt_socks, got, answers>>,
         pc' # "script" \/ UNCHANGED <<pc, current>>
  PROVE  RInv'
<1>1. RightClients'
  BY DEF RInv, RightClients
<1>2. ScriptReads'
  BY DEF RInv, ScriptReads
<1>3. NewerIsHeld'
  BY DEF RInv, NewerIsHeld, Unanswered, Newer
<1>4. GoodAnswers'
  BY DEF RInv, GoodAnswers, AnsweredWasRead, ConfigOfAnswer, RequestsReadAsSent,
         AnswersInOrder
<1> QED
  BY <1>1, <1>2, <1>3, <1>4 DEF RInv

LEMMA StopKeepsRight ==
  ASSUME RInv, NEW reason, Stop(reason)
  PROVE  RInv'
  BY NothingChanged DEF Stop, kernel, history

(* A client is replaced by one that has read as much, or more.              *)
LEMMA OneReplaced ==
  ASSUME AInv, NEW fd \in Fds, clnt_socks[fd] # Null,
         NEW c \in Conns, c = clnt_socks[fd].conn,
         NEW g \in Nat, got[c] <= g, got' = [got EXCEPT ![c] = g],
         NEW new \in Client, new.conn = c, RightClient(new, g),
         clnt_socks' = [clnt_socks EXCEPT ![fd] = new],
         pc' = "script" => current' = fd /\ ReadyWith(new),
         \/ new.parser.status = "CHUNKED" \/ new.state = "WRITE" \/ pc' = "script"
           => Newer(c, new.parser.header),
         UNCHANGED answers
  PROVE  RInv'
<1>0. IInv /\ RInv /\ TypeOK
  BY DEF AInv, IInv, GoodState
<1>1. clnt_socks'[fd] = new /\ \A other \in Fds \ {fd} : clnt_socks'[other] = clnt_socks[other]
  BY <1>0 DEF TypeOK
<1>2. got'[c] = g /\ \A d \in Conns \ {c} : got'[d] = got[d]
  BY <1>0 DEF TypeOK
<1>3. \A other \in Fds \ {fd} :
        clnt_socks[other] # Null =>
          clnt_socks[other].conn \in Conns \ {c}
  BY <1>0, SocketFacts
<1>4. RightClients'
  <2> SUFFICES ASSUME NEW other \in Fds, clnt_socks'[other] # Null
               PROVE  RightClient(clnt_socks'[other], got'[clnt_socks'[other].conn])
    BY DEF RightClients
  <2>1. CASE other = fd
    BY <1>1, <1>2, <2>1
  <2>2. CASE other # fd
    BY <1>0, <1>1, <1>2, <1>3, <2>2 DEF RInv, RightClients
  <2> QED
    BY <2>1, <2>2
<1>5. ScriptReads'
  BY <1>1 DEF ScriptReads
<1>6. NewerIsHeld'
  <2> SUFFICES ASSUME NEW other \in Fds, clnt_socks'[other] # Null, Unanswered(other)'
               PROVE  Newer(clnt_socks[other].conn, clnt_socks[other].parser.header)'
    BY DEF NewerIsHeld
  <2>1. CASE other = fd
    <3>1. Newer(c, new.parser.header)
      BY <1>1, <2>1 DEF Unanswered
    <3> QED
      BY <1>1, <2>1, <3>1, SMTT(20) DEF Newer
  <2>2. CASE other # fd
    <3>1. clnt_socks'[other] = clnt_socks[other]
      BY <1>1, <2>2
    <3>2. Unanswered(other)
      BY <2>2, <3>1 DEF Unanswered
    <3>3. Newer(clnt_socks[other].conn, clnt_socks[other].parser.header)
      BY <1>0, <3>1, <3>2 DEF RInv, NewerIsHeld
    <3> QED
      BY <3>1, <3>3 DEF Newer
  <2> QED
    BY <2>1, <2>2
<1>7. AnsweredWasRead'
  <2> SUFFICES ASSUME NEW d \in Conns, NEW i \in DOMAIN answers[d],
                      answers[d][i].request.header # NoHeader
               PROVE  answers[d][i].request.header.pos <= got'[d]
    BY DEF AnsweredWasRead
  <2>1. answers[d][i].request.header.pos <= got[d]
    BY <1>0 DEF RInv, GoodAnswers, AnsweredWasRead
  <2>2. answers[d][i].request.header.pos \in Nat
    BY <1>0, AnswerType
  <2>3. got[d] \in Nat /\ got'[d] \in Nat /\ got[d] <= got'[d]
    BY <1>0, <1>2 DEF TypeOK
  <2> QED
    BY <2>1, <2>2, <2>3
<1>8. ConfigOfAnswer' /\ RequestsReadAsSent' /\ AnswersInOrder'
  BY <1>0 DEF RInv, GoodAnswers, ConfigOfAnswer, RequestsReadAsSent, AnswersInOrder
<1> QED
  BY <1>4, <1>5, <1>6, <1>7, <1>8 DEF RInv, GoodAnswers

-------------------------------------------------------------------------------
(* The steps *)

LEMMA AcceptRight ==
  ASSUME AInv, IInv', NEW fd \in Fds, AcceptConnection(fd), pc = "read"
  PROVE  RInv'
<1>0. IInv /\ RInv /\ TypeOK
  BY DEF AInv, IInv, GoodState
<1>1. PICK c \in Conns, new \in FreeFds :
        /\ PortOf[c] = serv_socks[fd]
        /\ clnt_socks' = [clnt_socks EXCEPT ![new] = NewClient(c, serv_socks[fd])]
  BY DEF AcceptConnection, IsLowest
<1>2. /\ UNCHANGED <<pc, current, got, answers>> /\ pc # "script"
  BY DEF AcceptConnection, history
<1>3. new \in Fds
  BY DEF FreeFds
<1>4. PICK client : client = NewClient(c, serv_socks[fd])
  OBVIOUS
<1>5. /\ RightClient(client, got[c]) /\ client.conn = c
      /\ client.parser.status = "HEADER" /\ client.state = "READ"
  BY <1>1, <1>4, NewClientRight DEF NewClient
<1>6. clnt_socks'[new] = client /\ \A other \in Fds \ {new} : clnt_socks'[other] = clnt_socks[other]
  BY <1>0, <1>1, <1>3, <1>4 DEF TypeOK
<1>7. RightClients'
  BY <1>0, <1>2, <1>5, <1>6 DEF RInv, RightClients
<1>8. NewerIsHeld'
  BY <1>0, <1>2, <1>5, <1>6 DEF RInv, NewerIsHeld, Unanswered, Newer
<1>9. ScriptReads'
  BY <1>2 DEF ScriptReads
<1>10. GoodAnswers'
  BY <1>0, <1>2 DEF RInv, GoodAnswers, AnsweredWasRead, ConfigOfAnswer,
     RequestsReadAsSent, AnswersInOrder
<1> QED
  BY <1>7, <1>8, <1>9, <1>10 DEF RInv

LEMMA ReceiveRight ==
  ASSUME AInv, NEW fd \in Fds, Waiting(fd), ReceiveText(fd), pc = "read"
  PROVE  RInv'
<1>0. IInv /\ RInv /\ TypeOK
  BY DEF AInv, IInv, GoodState
<1>1. /\ clnt_socks[fd] # Null /\ clnt_socks[fd] \in GoodClient
      /\ clnt_socks[fd].state = "READ"
  BY <1>0 DEF IInv, GoodState, Waiting, isWaitingForRequest
<1>2. PICK c \in Conns : c = ConnAt(fd) /\ c = clnt_socks[fd].conn
  BY <1>0, <1>1, SocketFacts
<1>3. PICK g, u, buffer, text, old :
        /\ g = got[c] /\ u = Upto(c) /\ buffer = Received(c)
        /\ text = CString(buffer) /\ old = clnt_socks[fd]
  OBVIOUS
<1>4. /\ buffer \in Seq(Piece) /\ text \in Seq(Piece)
      /\ Segment(text, c, g)
      /\ Whole(text) => g + Len(text) = u
      /\ g \in Nat /\ u \in Nat
      /\ g < sent[c] => g < u
  BY <1>0, <1>3, ReceivedSegment
<1>5. g < sent[c]
  BY <1>2, <1>3 DEF ReceiveText
<1>6. u <= Len(Stream[c])
  <2>1. /\ g \in Nat /\ sent[c] \in Nat /\ sent[c] <= Len(Stream[c])
        /\ Len(Stream[c]) \in Nat /\ RecvBuf \in Nat
    BY <1>0, <1>4, SizesAssumption, ConnsAssumption, LenProperties
       DEF IInv, GoodState, TypeOK
  <2> QED
    BY <1>3, <2>1 DEF Upto
<1>7. RightClient(old, g) /\ old \in GoodClient /\ old.state = "READ" /\ old.conn = c
  BY <1>0, <1>1, <1>2, <1>3 DEF RInv, RightClients
<1>8. PICK client \in generateRequest(old, buffer) :
        \/ /\ ~RequestReady(client)
           /\ clnt_socks' = [clnt_socks EXCEPT ![fd] = client]
           /\ UNCHANGED <<pc, current>>
        \/ /\ RequestReady(client)
           /\ \E code \in StatusCodes(client.request) :
                clnt_socks' = [clnt_socks EXCEPT ![fd] = Answered(client, code)]
           /\ UNCHANGED <<pc, current>>
        \/ /\ RequestReady(client)
           /\ clnt_socks' = [clnt_socks EXCEPT ![fd] = client]
           /\ pc' = "script" /\ current' = fd
  BY <1>2, <1>3 DEF ReceiveText
<1>9. /\ RightClient(client, u) /\ client \in Client /\ client.state = "READ"
      /\ RequestReady(client) => ReadyWith(client)
      /\ \/ client.parser.header = NoHeader
         \/ client.parser.header.pos = g + 1
         \/ /\ old.parser.status = "CHUNKED"
            /\ client.parser.header = old.parser.header
  <2>1. /\ old \in GoodClient /\ old.state = "READ" /\ c = old.conn
        /\ RightClient(old, g) /\ text \in Seq(Piece) /\ text = CString(buffer)
        /\ Segment(text, c, g) /\ (Whole(text) => g + Len(text) = u)
        /\ g \in Nat /\ u \in Nat /\ g < u /\ u <= Len(Stream[c])
        /\ client \in generateRequest(old, buffer)
    BY <1>3, <1>4, <1>5, <1>6, <1>7, <1>8
  <2> QED
    BY <2>1, GenerateRead
<1>10. Newer(c, client.parser.header)
  <2>1. CASE client.parser.header = NoHeader
    BY <2>1 DEF Newer
  <2>2. CASE client.parser.header.pos = g + 1
    <3> SUFFICES ASSUME NEW i \in DOMAIN answers[c],
                        answers[c][i].request.header # NoHeader
                 PROVE  answers[c][i].request.header.pos < g + 1
      BY <2>2 DEF Newer
    <3>1. answers[c][i].request.header.pos <= g
      BY <1>0, <1>3 DEF RInv, GoodAnswers, AnsweredWasRead
    <3>2. answers[c][i].request.header.pos \in Nat
      BY <1>0, AnswerType
    <3> QED
      BY <1>4, <3>1, <3>2
  <2>3. CASE /\ old.parser.status = "CHUNKED"
             /\ client.parser.header = old.parser.header
    BY <1>0, <1>1, <1>2, <1>3, <2>3 DEF RInv, NewerIsHeld, Unanswered
  <2> QED
    BY <1>9, <2>1, <2>2, <2>3
<1>11. /\ got[c] <= u /\ got' = [got EXCEPT ![c] = u] /\ UNCHANGED answers
  BY <1>2, <1>3, <1>4, <1>5 DEF ReceiveText, history
<1>12. client.conn = c
  BY <1>7, <1>8, <1>4, GenerateRequestType
<1>13. CASE /\ ~RequestReady(client)
            /\ clnt_socks' = [clnt_socks EXCEPT ![fd] = client]
            /\ UNCHANGED <<pc, current>>
  BY <1>1, <1>2, <1>4, <1>9, <1>10, <1>11, <1>12, <1>13, OneReplaced
<1>14. CASE /\ RequestReady(client)
            /\ \E code \in StatusCodes(client.request) :
                 clnt_socks' = [clnt_socks EXCEPT ![fd] = Answered(client, code)]
            /\ UNCHANGED <<pc, current>>
  <2>1. PICK code, new :
          /\ new = Answered(client, code) /\ code \in StatusCodes(client.request)
          /\ clnt_socks' = [clnt_socks EXCEPT ![fd] = new]
    BY <1>14
  <2>2. RightClient(new, u) /\ new.conn = c /\ new.parser = client.parser
    BY <1>9, <1>12, <1>14, <2>1, AnsweredRight
  <2>3. new \in Client
    <3>1. client \in GoodClient /\ client.request \in Request
      BY <1>4, <1>7, <1>8, <1>14, GenerateRequestType
    <3> QED
      BY <2>1, <3>1, StatusCodesType, AnsweredGood DEF GoodClient
  <2> QED
    BY <1>1, <1>2, <1>4, <1>10, <1>11, <1>14, <2>1, <2>2, <2>3, OneReplaced
<1>15. CASE /\ RequestReady(client)
            /\ clnt_socks' = [clnt_socks EXCEPT ![fd] = client]
            /\ pc' = "script" /\ current' = fd
  BY <1>1, <1>2, <1>4, <1>9, <1>10, <1>11, <1>12, <1>15, OneReplaced
<1> QED
  BY <1>8, <1>13, <1>14, <1>15

LEMMA EofRight ==
  ASSUME AInv, NEW fd \in Fds, Waiting(fd), ReceiveEof(fd), pc = "read"
  PROVE  RInv'
<1>0. IInv /\ RInv /\ TypeOK
  BY DEF AInv, IInv, GoodState
<1>1. clnt_socks[fd] # Null /\ clnt_socks[fd] \in Client
  BY <1>0, SocketFacts DEF Waiting, GoodClient
<1>2. PICK c \in Conns : c = clnt_socks[fd].conn
  BY <1>0, <1>1, SocketFacts
<1>3. PICK g, new : g = got[c] /\ new = [clnt_socks[fd] EXCEPT !.state = "CLOSE"]
  OBVIOUS
<1>4. RightClient(clnt_socks[fd], g) /\ g \in Nat
  BY <1>0, <1>1, <1>2, <1>3 DEF RInv, RightClients, TypeOK
<1>5. /\ RightClient(new, g) /\ new.conn = c
      /\ new.parser = clnt_socks[fd].parser /\ new.state = "CLOSE"
  BY <1>1, <1>2, <1>3, <1>4, StateRight
<1>6. new \in Client
  BY <1>1, <1>3 DEF Client
<1>7. new.parser.status = "CHUNKED" => Newer(c, new.parser.header)
  BY <1>0, <1>1, <1>2, <1>5 DEF RInv, NewerIsHeld, Unanswered
<1>8. /\ clnt_socks' = [clnt_socks EXCEPT ![fd] = new]
      /\ UNCHANGED <<pc, current, got, answers>>
  BY <1>3 DEF ReceiveEof, kernel, history
<1>9. got[c] <= g /\ got' = [got EXCEPT ![c] = g]
  BY <1>0, <1>3, <1>4, <1>8 DEF TypeOK
<1> QED
  BY <1>1, <1>2, <1>4, <1>5, <1>6, <1>7, <1>8, <1>9, OneReplaced

(* An answer that a script was awaited for is one to the request its client *)
(* was waiting with.                                                        *)
LEMMA ReturnRight ==
  ASSUME AInv, AnyReturn
  PROVE  RInv'
<1>0. IInv /\ RInv /\ TypeOK /\ pc = "script"
  BY DEF AInv, IInv, GoodState, AnyReturn
<1>1. PICK fd \in Fds : fd = current /\ Waiting(fd)
  BY <1>0, AnyReturnEffect
<1>2. clnt_socks[fd] # Null /\ clnt_socks[fd] \in Client /\ clnt_socks[fd] \in GoodClient
  BY <1>0, <1>1, SocketFacts DEF Waiting, GoodClient
<1>3. PICK c \in Conns : c = clnt_socks[fd].conn
  BY <1>0, <1>2, SocketFacts
<1>4. PICK code, g, old, new :
        /\ g = got[c] /\ old = clnt_socks[fd] /\ new = Answered(old, code)
        /\ clnt_socks' = [clnt_socks EXCEPT ![fd] = new]
        /\ pc' = "read" /\ UNCHANGED <<got, answers>>
  <2>1. PICK code \in Codes : Returned(code)
    BY DEF AnyReturn
  <2>2. /\ clnt_socks' = [clnt_socks EXCEPT ![fd] = Answered(clnt_socks[fd], code)]
        /\ pc' = "read" /\ UNCHANGED <<got, answers>>
    BY <1>1, <2>1 DEF Returned, kernel, history
  <2> QED
    BY <2>2
<1>5. RightClient(old, g) /\ g \in Nat /\ ReadyWith(old)
  BY <1>0, <1>1, <1>2, <1>3, <1>4 DEF RInv, RightClients, ScriptReads, TypeOK
<1>6. RightClient(new, g) /\ new.conn = c /\ new.parser = old.parser
  BY <1>2, <1>3, <1>4, <1>5, AnsweredRight
<1>7. new \in Client
  <2>1. PICK client \in GoodClient : clnt_socks' = [clnt_socks EXCEPT ![fd] = client]
    BY <1>0, <1>1, AnyReturnEffect
  <2>2. clnt_socks'[fd] = client /\ clnt_socks'[fd] = new
    BY <1>0, <1>4, <2>1 DEF TypeOK
  <2> QED
    BY <2>1, <2>2 DEF GoodClient
<1>8. Newer(c, new.parser.header)
  BY <1>0, <1>1, <1>2, <1>3, <1>4, <1>6 DEF RInv, NewerIsHeld, Unanswered
<1>9. got[c] <= g /\ got' = [got EXCEPT ![c] = g]
  BY <1>0, <1>4, <1>5 DEF TypeOK
<1> QED
  BY <1>2, <1>3, <1>4, <1>5, <1>6, <1>7, <1>8, <1>9, OneReplaced

(* What is sent joins the answers of its connection, and is newer than they *)
(* are.                                                                     *)
LEMMA SendRight ==
  ASSUME AInv, NEW fd \in Fds, Responding(fd), SendResponse(fd), pc = "write"
  PROVE  RInv'
<1>0. IInv /\ RInv /\ TypeOK
  BY DEF AInv, IInv, GoodState
<1>1. /\ clnt_socks[fd] # Null /\ clnt_socks[fd] \in GoodClient
      /\ clnt_socks[fd] \in Client /\ clnt_socks[fd].state = "WRITE"
  BY <1>0, SocketFacts DEF Responding, canResponse, GoodClient
<1>2. PICK c \in Conns : c = ConnAt(fd) /\ c = clnt_socks[fd].conn
  BY <1>0, <1>1, SocketFacts
<1>3. PICK old, new, response, header, g :
        /\ old = clnt_socks[fd] /\ new = [old EXCEPT !.state = "READ"]
        /\ response = old.response /\ header = response.request.header
        /\ g = got[c]
  OBVIOUS
<1>4. RightClient(old, g) /\ g \in Nat
  BY <1>0, <1>1, <1>2, <1>3 DEF RInv, RightClients, TypeOK
<1>5. /\ old.parser.status \in {"DONE", "ERROR"}
      /\ response.request = buildRequest(old.parser)
      /\ IsBlockFor(response.conf, PortOf[c], HostOf(response.request))
      /\ ReadSoFar(old.parser, c, g)
  BY <1>1, <1>2, <1>3, <1>4 DEF RightClient, RequestReady, finished, errorOccured
<1>6. header = old.parser.header
  BY <1>3, <1>5 DEF buildRequest
<1>7. /\ Newer(c, header)
      /\ header # NoHeader => header.pos <= g
      /\ response.request.code = "200" => GoodRequest(c, response.request)
  <2>1. Newer(c, header)
    BY <1>0, <1>1, <1>2, <1>3, <1>6 DEF RInv, NewerIsHeld, Unanswered
  <2>2. header # NoHeader => header.pos <= g
    BY <1>5, <1>6 DEF ReadSoFar
  <2>3. old.parser.status = "ERROR" => response.request.code # "200"
    BY <1>5 DEF ReadSoFar, buildRequest, errorOccured
  <2> QED
    BY <1>5, <2>1, <2>2, <2>3 DEF ReadSoFar
<1>8. /\ clnt_socks' = [clnt_socks EXCEPT ![fd] = new]
      /\ answers' = [answers EXCEPT ![c] = Append(@, response)]
      /\ UNCHANGED <<pc, current, got>>
  BY <1>2, <1>3 DEF SendResponse
<1>9. response \in Response
  BY <1>1, <1>3 DEF GoodClient, GoodResponse
<1>10. PICK n \in Nat :
         /\ DOMAIN answers[c] = 1..n /\ DOMAIN answers'[c] = 1..(n + 1)
         /\ \A i \in 1..n : answers'[c][i] = answers[c][i]
         /\ answers'[c][n + 1] = response
  <2>1. answers[c] \in Seq(Response) /\ answers'[c] = Append(answers[c], response)
    BY <1>0, <1>8 DEF TypeOK
  <2>2. Len(answers[c]) \in Nat /\ DOMAIN answers[c] = 1..Len(answers[c])
    BY <2>1, LenProperties
  <2>3. /\ DOMAIN answers'[c] = 1..(Len(answers[c]) + 1)
        /\ \A i \in 1..Len(answers[c]) : answers'[c][i] = answers[c][i]
        /\ answers'[c][Len(answers[c]) + 1] = response
    BY <1>9, <2>1, <2>2, AppendProperties, LenProperties
  <2> QED
    BY <2>2, <2>3
<1>11. \A d \in Conns \ {c} : answers'[d] = answers[d]
  BY <1>0, <1>8 DEF TypeOK
<1>12. clnt_socks'[fd] = new /\ \A other \in Fds \ {fd} : clnt_socks'[other] = clnt_socks[other]
  BY <1>0, <1>8 DEF TypeOK
<1>13. /\ RightClient(new, g) /\ new.conn = c
       /\ new.parser = old.parser /\ new.state = "READ"
  BY <1>1, <1>2, <1>3, <1>4, StateRight
<1>14. RightClients'
  BY <1>0, <1>3, <1>8, <1>12, <1>13 DEF RInv, RightClients
<1>15. ScriptReads'
  BY <1>8 DEF ScriptReads
<1>16. NewerIsHeld'
  <2> SUFFICES ASSUME NEW other \in Fds, clnt_socks'[other] # Null, Unanswered(other)'
               PROVE  Newer(clnt_socks[other].conn, clnt_socks[other].parser.header)'
    BY DEF NewerIsHeld
  <2>1. other # fd
    BY <1>5, <1>8, <1>12, <1>13 DEF Unanswered
  <2>2. clnt_socks'[other] = clnt_socks[other] /\ Unanswered(other)
    BY <1>8, <1>12, <2>1 DEF Unanswered
  <2>3. clnt_socks[other].conn \in Conns \ {c}
    BY <1>0, <1>1, <1>2, <2>1, <2>2, SocketFacts
  <2>4. Newer(clnt_socks[other].conn, clnt_socks[other].parser.header)
    BY <1>0, <2>2 DEF RInv, NewerIsHeld
  <2> QED
    BY <1>11, <2>2, <2>3, <2>4 DEF Newer
<1>17. GoodAnswers'
  <2>0. GoodAnswers
    BY <1>0 DEF RInv
  <2>5. ASSUME NEW d \in Conns, NEW i \in DOMAIN answers'[d]
        PROVE  \/ i \in DOMAIN answers[d] /\ answers'[d][i] = answers[d][i]
               \/ d = c /\ answers'[d][i] = response
    <3>1. CASE d # c
      BY <1>11, <2>5, <3>1
    <3>2. CASE d = c /\ i \in 1..n
      BY <1>10, <3>2
    <3>3. CASE d = c /\ i = n + 1
      BY <1>10, <3>3
    <3> QED
      BY <1>10, <2>5, <3>1, <3>2, <3>3
  <2>1. AnsweredWasRead'
    <3> SUFFICES ASSUME NEW d \in Conns, NEW i \in DOMAIN answers'[d],
                        answers'[d][i].request.header # NoHeader
                 PROVE  answers'[d][i].request.header.pos <= got[d]
      BY <1>8 DEF AnsweredWasRead
    <3> QED
      BY <1>3, <1>7, <2>0, <2>5 DEF GoodAnswers, AnsweredWasRead
  <2>2. ConfigOfAnswer'
    <3> SUFFICES ASSUME NEW d \in Conns, NEW i \in DOMAIN answers'[d]
                 PROVE  IsBlockFor(answers'[d][i].conf, PortOf[d],
                                   HostOf(answers'[d][i].request))
      BY DEF ConfigOfAnswer
    <3> QED
      BY <1>5, <2>0, <2>5 DEF GoodAnswers, ConfigOfAnswer
  <2>3. RequestsReadAsSent'
    <3> SUFFICES ASSUME NEW d \in Conns, NEW i \in DOMAIN answers'[d],
                        answers'[d][i].request.code = "200"
                 PROVE  GoodRequest(d, answers'[d][i].request)
      BY DEF RequestsReadAsSent
    <3> QED
      BY <1>7, <2>0, <2>5 DEF GoodAnswers, RequestsReadAsSent
  <2>4. AnswersInOrder'
    <3> SUFFICES ASSUME NEW d \in Conns, NEW i \in DOMAIN answers'[d],
                        NEW j \in DOMAIN answers'[d], i < j,
                        answers'[d][i].request.header # NoHeader,
                        answers'[d][j].request.header # NoHeader
                 PROVE  answers'[d][i].request.header.pos
                          < answers'[d][j].request.header.pos
      BY DEF AnswersInOrder
    <3>1. CASE d # c
      BY <1>11, <2>0, <3>1 DEF GoodAnswers, AnswersInOrder
    <3>2. CASE d = c /\ j # n + 1
      <4>1. i \in 1..n /\ j \in 1..n
        BY <1>10, <3>2
      <4> QED
        BY <1>10, <2>0, <3>2, <4>1 DEF GoodAnswers, AnswersInOrder
    <3>3. CASE d = c /\ j = n + 1
      <4>1. i \in 1..n
        BY <1>10, <3>3
      <4> QED
        BY <1>3, <1>7, <1>10, <3>3, <4>1 DEF Newer
    <3> QED
      BY <3>1, <3>2, <3>3
  <2> QED
    BY <2>1, <2>2, <2>3, <2>4 DEF GoodAnswers
<1> QED
  BY <1>14, <1>15, <1>16, <1>17 DEF RInv

LEMMA StepRight ==
  ASSUME AInv, IInv', [AnyStep]_vars
  PROVE  RInv'
<1>0. IInv /\ RInv /\ TypeOK
  BY DEF AInv, IInv, GoodState
<1>1. CASE UNCHANGED vars
  BY <1>0, <1>1, NothingChanged DEF vars, server, kernel, history
<1>2. CASE \/ OpenListener \/ StartRunning \/ ReadEventsDone \/ WriteEventsDone
           \/ pc = "select" /\ SelectReturns
  BY <1>0, <1>2, NothingChanged DEF OpenListener, StartRunning, ReadEventsDone,
     WriteEventsDone, SelectReturns, kernel, history
<1>3. CASE OpenListenerFails \/ (pc = "select" /\ SelectFails) \/ AnyEnd
  BY <1>0, <1>3, StopKeepsRight DEF OpenListenerFails, SelectFails, AnyEnd
<1>4. CASE HandleReadEvent
  <2>1. PICK fd \in readable :
           \/ AcceptConnection(fd) \/ (AcceptFails(fd) /\ FreeFds = {})
           \/ /\ Waiting(fd) /\ IsReadable(ConnAt(fd))
              /\ ReceiveText(fd) \/ ReceiveEof(fd) \/ ReceiveFails(fd)
    BY <1>0, <1>4, ReadEventCases
  <2>2. fd \in Fds /\ pc = "read"
    BY <1>0, <1>4 DEF TypeOK, HandleReadEvent
  <2>3. CASE AcceptConnection(fd)
    BY <2>2, <2>3, AcceptRight
  <2>4. CASE AcceptFails(fd) \/ ReceiveFails(fd)
    BY <1>0, <2>4, StopKeepsRight DEF AcceptFails, ReceiveFails
  <2>5. CASE Waiting(fd) /\ ReceiveText(fd)
    BY <2>2, <2>5, ReceiveRight
  <2>6. CASE Waiting(fd) /\ ReceiveEof(fd)
    BY <2>2, <2>6, EofRight
  <2> QED
    BY <2>1, <2>3, <2>4, <2>5, <2>6
<1>5. CASE AnyReturn
  BY <1>5, ReturnRight
<1>6. CASE HandleWriteEvent
  <2>1. PICK fd \in writable : Responding(fd) /\ (SendResponse(fd) \/ SendFails(fd))
    BY <1>0, <1>6, WriteEventCases
  <2>2. fd \in Fds /\ pc = "write"
    BY <1>0, <1>6 DEF TypeOK, HandleWriteEvent
  <2> QED
    BY <1>0, <2>1, <2>2, SendRight, StopKeepsRight DEF SendFails
<1>7. CASE DestroyClients
  <2>1. /\ UNCHANGED <<got, answers>> /\ pc' = "select"
        /\ \A fd \in Fds : clnt_socks'[fd] \in {clnt_socks[fd], Null}
    BY <1>7 DEF DestroyClients, history
  <2>2. RightClients' /\ ScriptReads'
    BY <1>0, <2>1 DEF RInv, RightClients, ScriptReads
  <2>3. NewerIsHeld'
    BY <1>0, <2>1 DEF RInv, NewerIsHeld, Unanswered, Newer
  <2>4. GoodAnswers'
    BY <1>0, <2>1 DEF RInv, GoodAnswers, AnsweredWasRead, ConfigOfAnswer,
       RequestsReadAsSent, AnswersInOrder
  <2> QED
    BY <2>2, <2>3, <2>4 DEF RInv
<1>8. CASE \E c \in Conns : ClientStep(c)
  BY <1>0, <1>8, ClientStepEffect, NothingChanged DEF server, history
<1> QED
  BY <1>1, <1>2, <1>3, <1>4, <1>5, <1>6, <1>7, <1>8 DEF AnyStep, Loop, Select

-------------------------------------------------------------------------------
(* Theorems *)

LEMMA AnswerInit == Init => AInv
<1> SUFFICES ASSUME Init PROVE AInv
  OBVIOUS
<1>1. \A c \in Conns : DOMAIN answers[c] = {}
  BY DEF Init
<1>2. GoodAnswers
  BY <1>1 DEF GoodAnswers, AnsweredWasRead, ConfigOfAnswer, RequestsReadAsSent,
     AnswersInOrder
<1> QED
  BY <1>2, InitInv DEF Init, AInv, RInv, RightClients, ScriptReads, NewerIsHeld

LEMMA AnswerStep == AInv /\ [AnyStep]_vars => AInv'
  BY StepInv, StepRight DEF AInv

LEMMA AnswerInv == Spec => []AInv
<1>1. AInv /\ [Next]_vars => [AnyStep]_vars
  BY NextIsAnyStep DEF AInv
<1> QED
  BY <1>1, AnswerInit, AnswerStep, PTL DEF Spec

(* A request that is answered as a good one was read as it was sent, in     *)
(* whatever segments it came, with or without a NUL in it.                  *)
THEOREM ReadingCorrect == Spec => []RequestsReadAsSent
<1>1. AInv => RequestsReadAsSent
  BY DEF AInv, RInv, GoodAnswers
<1> QED
  BY <1>1, AnswerInv, PTL

(* No request is answered twice, and answers leave in the order of the      *)
(* requests, though received text is dropped and states are reused.         *)
THEOREM OrderCorrect == Spec => []AnswersInOrder
<1>1. AInv => AnswersInOrder
  BY DEF AInv, RInv, GoodAnswers
<1> QED
  BY <1>1, AnswerInv, PTL

(* Every answer is made with the server block for the port its client       *)
(* connected to and the host its request names, also when the parser still  *)
(* holds the block of the request before.                                   *)
THEOREM ConfigCorrect == Spec => []ConfigOfAnswer
<1>1. AInv => ConfigOfAnswer
  BY DEF AInv, RInv, GoodAnswers
<1> QED
  BY <1>1, AnswerInv, PTL
=============================================================================
