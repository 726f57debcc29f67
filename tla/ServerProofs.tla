----------------------------- MODULE ServerProofs -----------------------------
(***************************************************************************)
(* The safety of the event loop, for any number of ports, descriptors,     *)
(* connections, streams and server blocks.                                 *)
(***************************************************************************)
EXTENDS Server, SequenceTheorems, WellFoundedInduction, TLAPS

-------------------------------------------------------------------------------
(* What the operators a ClientSocket is made of leave behind: the choice of *)
(* a server block, the parser and the response.                             *)

(* A loop over the server blocks that has a match finds the first one. *)
LEMMA FirstType ==
  ASSUME NEW I \in SUBSET Nat, I # {}
  PROVE  First(I) \in I /\ \A j \in I : First(I) <= j
<1>1. \E i \in I : \A j \in I : ~(<<j, i>> \in OpToRel(<, Nat))
  BY NatLessThanWellFounded, WFMin, Zenon
<1>2. \A i, j \in Nat : j < i => <<j, i>> \in OpToRel(<, Nat)
  BY Zenon DEF OpToRel
<1>3. \E i \in I : \A j \in I : ~(j < i)
  BY <1>1, <1>2
<1>4. \E i \in I : \A j \in I : i <= j
  BY <1>3
<1> QED
  BY <1>4 DEF First

(* Every port that has a socket has a block: neither search of the          *)
(* WebservConfig can run off the end of the vector.                         *)
LEMMA FindServerConfigType ==
  ASSUME NEW port \in ports, NEW host
  PROVE  findServerConfig(port, host) \in DOMAIN Servers
<1>1. OnPort(port) # {} /\ OnPort(port) \in SUBSET Nat
  BY ServersAssumption DEF OnPort, ports
<1>2. Named(port, host) \subseteq OnPort(port)
  BY DEF Named
<1>3. findDefaultServerConfig(port) \in OnPort(port)
  BY <1>1, FirstType DEF findDefaultServerConfig
<1>4. Named(port, host) # {} => First(Named(port, host)) \in OnPort(port)
  BY <1>1, <1>2, FirstType
<1> QED
  BY <1>3, <1>4 DEF findServerConfig, OnPort

-------------------------------------------------------------------------------
(* Parts of a text *)

LEMMA SubTextType ==
  ASSUME NEW S, NEW s \in Seq(S), NEW m \in Nat \ {0}, NEW n \in Int, n <= Len(s)
  PROVE  SubSeq(s, m, n) \in Seq(S)
<1>1. \A i \in m..n : s[i] \in S
  BY LenProperties, ElementOfSeq
<1> QED
  BY <1>1, SubSeqProperties

(* Where a blank line is found, it is inside the text. *)
LEMMA HeaderEndType ==
  ASSUME NEW text \in Seq(Piece), HeaderEnds(text) # {}
  PROVE  findHeaderEnd(text) \in 1..Len(text)
<1>1. HeaderEnds(text) \in SUBSET Nat /\ HeaderEnds(text) \subseteq 1..Len(text)
  BY DEF HeaderEnds
<1> QED
  BY <1>1, FirstType DEF findHeaderEnd

LEMMA FetchBodyType ==
  ASSUME NEW text \in Seq(Piece), HeaderEnds(text) # {}
  PROVE  fetchUnparsedBody(text) \in Seq(Piece)
<1>1. findHeaderEnd(text) + 1 \in Nat \ {0}
  BY HeaderEndType
<1> QED
  BY <1>1, SubTextType, LenProperties DEF fetchUnparsedBody

(* A text that begins with a header still does when more is appended. *)
LEMMA HeaderEndsKept ==
  ASSUME NEW s \in Seq(Piece), NEW t \in Seq(Piece),
         HeaderEnds(s) # {} \/ (s = <<>> /\ HeaderEnds(t) # {})
  PROVE  s \o t \in Seq(Piece) /\ HeaderEnds(s \o t) # {}
<1>1. s \o t \in Seq(Piece)
  BY ConcatProperties
<1>2. CASE HeaderEnds(s) # {}
  <2>1. PICK i \in DOMAIN s : s[i].kind \in {"fields", "crlf", "last"}
    BY <1>2 DEF HeaderEnds
  <2>2. i \in DOMAIN (s \o t) /\ (s \o t)[i] = s[i]
    BY ConcatProperties, LenProperties
  <2> QED
    BY <1>1, <2>1, <2>2 DEF HeaderEnds
<1>3. CASE s = <<>> /\ HeaderEnds(t) # {}
  BY <1>1, <1>3, ConcatEmptySeq
<1> QED
  BY <1>2, <1>3

-------------------------------------------------------------------------------
(* HttpRequestParser *)

(* What holds of a parser between two calls of parse(): a body framed by    *)
(* its length is never left half read, and the text collected for a chunked *)
(* body has its header in front.                                            *)
GoodParser ==
  {p \in Parser :
     /\ p.status # "BODY"
     /\ p.status = "CHUNKED" => p.header \in Piece /\ HeaderEnds(p.chunked) # {}
     /\ p.status = "HEADER" => p.chunked = <<>>
     /\ p.status = "DONE" => p.header \in Piece}

LEMMA NewParserGood == NewParser \in GoodParser
  BY EmptySeq DEF NewParser, GoodParser, Parser, Headers, Confs, Codes

LEMMA ClearGood ==
  ASSUME NEW p \in Parser
  PROVE  clear(p) \in GoodParser /\ clear(p).status = "HEADER"
  BY EmptySeq DEF clear, NewParser, GoodParser, Parser, Headers, Confs, Codes

LEMMA FailedGood ==
  ASSUME NEW p \in Parser, NEW code \in Codes
  PROVE  Failed(p, code) \in GoodParser
  BY DEF Failed, GoodParser, Parser

LEMMA ContentLengthType ==
  ASSUME NEW r \in Requests
  PROVE  contentLength(Header[r]) \in Nat
<1>1. Header[r].length \in Int
  BY HeaderAssumption DEF HeaderFields
<1>2. SizeRange \in Nat /\ SizeRange > 0
  BY LimitsAssumption
<1> QED
  BY <1>1, <1>2 DEF contentLength

(* The PARSE_HEADER block refuses the text, or leaves a header behind and   *)
(* the status of its framing.                                               *)
LEMMA ParseHeaderType ==
  ASSUME NEW p \in GoodParser, p.status = "HEADER",
         NEW text \in Seq(Piece), NEW port \in ports,
         NEW q \in parseRequestHeader(p, text, port)
  PROVE  \/ q \in GoodParser /\ q.status = "ERROR"
         \/ /\ q \in Parser /\ q.status \in {"BODY", "CHUNKED"}
            /\ q.header \in Piece /\ q.chunked = <<>>
            /\ HeaderEnds(text) # {}
<1>0. p \in Parser /\ p.chunked = <<>>
  BY DEF GoodParser
<1>1. \A code \in Codes : Failed(p, code) \in GoodParser /\ Failed(p, code).status = "ERROR"
  BY <1>0, FailedGood DEF Failed, Parser
<1>2. CASE HeaderEnds(text) = {}
  BY <1>1, <1>2 DEF parseRequestHeader, Codes
<1>3. CASE HeaderEnds(text) # {} /\ ~IsHeader(fetchUnparsedHeader(text))
  BY <1>1, <1>3 DEF parseRequestHeader, GarbageCodes, Codes
<1>4. CASE HeaderEnds(text) # {} /\ IsHeader(fetchUnparsedHeader(text))
  <2>1. text[1] \in Piece
    BY <1>4, HeaderEndType, ElementOfSeq, LenProperties
  <2>2. Header[text[1].req] \in HeaderFields
    BY <2>1, HeaderAssumption DEF Piece
  <2>3. CASE Header[text[1].req].code # "200"
    BY <1>1, <1>4, <2>2, <2>3 DEF parseRequestHeader, HeaderFields
  <2>4. CASE Header[text[1].req].code = "200"
    <3>1. findServerConfig(port, Header[text[1].req].host) \in Confs
      BY FindServerConfigType DEF Confs
    <3>2. q = [p EXCEPT
                 !.header = text[1],
                 !.conf = findServerConfig(port, Header[text[1].req].host),
                 !.status = IF Header[text[1].req].chunked THEN "CHUNKED" ELSE "BODY"]
      BY <1>4, <2>4 DEF parseRequestHeader
    <3> QED
      BY <1>0, <1>4, <2>1, <3>1, <3>2 DEF Parser, Headers
  <2> QED
    BY <2>3, <2>4
<1> QED
  BY <1>2, <1>3, <1>4

LEMMA ParseBodyType ==
  ASSUME NEW p \in Parser, p.header \in Piece,
         NEW text \in Seq(Piece), HeaderEnds(text) # {},
         NEW q \in parseBody(p, text)
  PROVE  q \in GoodParser
<1> DEFINE head == Header[p.header.req]
           rest == fetchUnparsedBody(text)
           n == contentLength(head)
<1>1. \A code \in Codes : Failed(p, code) \in GoodParser
  BY FailedGood
<1>2. p.header.req \in Requests
  BY DEF Piece
<1>3. n \in Nat
  BY <1>2, ContentLengthType
<1>4. CASE q \in {Failed(p, "500"), Failed(p, "413"), Failed(p, "400")}
  BY <1>1, <1>4 DEF Codes
<1>5. CASE /\ ~(Size(rest) < n)
           /\ q = [p EXCEPT !.status = "DONE", !.body = SubSeq(rest, 1, n)]
  <2>1. rest \in Seq(Piece)
    BY FetchBodyType
  <2>2. Size(rest) \in Nat /\ Size(rest) <= Len(rest)
    BY <2>1, LenProperties, EmptySeq, SeqEqual DEF Size
  <2>3. SubSeq(rest, 1, n) \in Seq(Piece)
    BY <1>3, <1>5, <2>1, <2>2, SubTextType, LenProperties
  <2> QED
    BY <1>5, <2>3 DEF Parser, GoodParser
<1> QED
  BY <1>4, <1>5 DEF parseBody

LEMMA CollectChunksType ==
  ASSUME NEW p \in Parser, p.status = "CHUNKED", p.header \in Piece,
         NEW text \in Seq(Piece),
         HeaderEnds(p.chunked) # {} \/ (p.chunked = <<>> /\ HeaderEnds(text) # {}),
         NEW q \in collectChunks(p, text)
  PROVE  q \in GoodParser
<1> DEFINE all == p.chunked \o text
           r == [p EXCEPT !.chunked = all]
           rest == fetchUnparsedBody(all)
           wrong == {i \in DOMAIN rest : rest[i].kind # "data"}
           stop == First(wrong)
<1>1. all \in Seq(Piece) /\ HeaderEnds(all) # {}
  BY HeaderEndsKept DEF Parser
<1>2. r \in Parser /\ r.status = "CHUNKED" /\ r.header \in Piece /\ r.chunked = all
  BY <1>1 DEF Parser
<1>3. \A code \in Codes : Failed(r, code) \in GoodParser
  BY <1>2, FailedGood
<1>4. rest \in Seq(Piece)
  BY <1>1, FetchBodyType
<1>5. CASE q = r
  BY <1>1, <1>2, <1>5 DEF GoodParser
<1>6. CASE \E code \in {"400", "413", "500"} : q = Failed(r, code)
  BY <1>3, <1>6 DEF Codes
<1>7. Len(rest) \in Nat /\ DOMAIN rest = 1..Len(rest)
  BY <1>4, LenProperties
<1>8. CASE \E n \in 0..Len(rest) :
             q = [r EXCEPT !.status = "DONE", !.body = SubSeq(rest, 1, n)]
  <2>1. PICK n \in 0..Len(rest) :
               q = [r EXCEPT !.status = "DONE", !.body = SubSeq(rest, 1, n)]
    BY <1>8
  <2> HIDE DEF rest
  <2>2. SubSeq(rest, 1, n) \in Seq(Piece)
    BY <1>4, <1>7, <2>1, SubTextType
  <2> QED
    BY <1>2, <2>1, <2>2 DEF Parser, GoodParser
<1>9. \/ q = r \/ \E code \in {"400", "413", "500"} : q = Failed(r, code)
      \/ MayTerminate(rest) /\ q \in parseChunkedBody(r, rest)
  BY <1>2 DEF collectChunks
<1>10. ASSUME MayTerminate(rest), q \in parseChunkedBody(r, rest)
       PROVE  \/ \E code \in {"400", "413", "500"} : q = Failed(r, code)
              \/ \E n \in 0..Len(rest) :
                   q = [r EXCEPT !.status = "DONE", !.body = SubSeq(rest, 1, n)]
  <2>1. wrong # {} /\ wrong \subseteq 1..Len(rest) /\ wrong \in SUBSET Nat
    BY <1>7, <1>10 DEF MayTerminate, HasTerminator
  <2> HIDE DEF wrong, rest
  <2>2. stop \in 1..Len(rest)
    BY <2>1, FirstType
  <2>3. stop - 1 \in 0..Len(rest) /\ (stop - 1)..Len(rest) \subseteq 0..Len(rest)
    BY <1>7, <2>2
  <2> USE DEF wrong
  <2> HIDE DEF stop
  <2>4. \/ \E code \in {"400", "413", "500"} : q = Failed(r, code)
        \/ q = [r EXCEPT !.status = "DONE", !.body = SubSeq(rest, 1, stop - 1)]
        \/ \E n \in (stop - 1)..Len(rest) :
             q = [r EXCEPT !.status = "DONE", !.body = SubSeq(rest, 1, n)]
    BY <1>10 DEF parseChunkedBody, stop
  <2> QED
    BY <2>3, <2>4
<1> QED
  BY <1>5, <1>6, <1>8, <1>9, <1>10

(* parse() leaves a good parser behind whatever text it is given.           *)
LEMMA ParseType ==
  ASSUME NEW p \in GoodParser, NEW text \in Seq(Piece), NEW port \in ports,
         NEW q \in parse(p, text, port)
  PROVE  q \in GoodParser
<1> DEFINE fresh == IF finished(p) \/ errorOccured(p) THEN clear(p) ELSE p
           headed == IF fresh.status = "HEADER"
                     THEN parseRequestHeader(fresh, text, port) ELSE {fresh}
<1>1. fresh \in GoodParser
  BY ClearGood DEF GoodParser
<1>2. fresh.status \in {"HEADER", "CHUNKED"}
  BY <1>1, ClearGood DEF GoodParser, Parser, finished, errorOccured
<1>3. PICK h \in headed :
        q \in IF h.status = "BODY" THEN parseBody(h, text)
              ELSE IF h.status = "CHUNKED" THEN collectChunks(h, text)
              ELSE {h}
  BY DEF parse
<1>4. CASE fresh.status = "HEADER"
  <2>1. h \in parseRequestHeader(fresh, text, port)
    BY <1>4
  <2>2. \/ h \in GoodParser /\ h.status = "ERROR"
        \/ /\ h \in Parser /\ h.status \in {"BODY", "CHUNKED"}
           /\ h.header \in Piece /\ h.chunked = <<>>
           /\ HeaderEnds(text) # {}
    BY <1>1, <1>4, <2>1, ParseHeaderType
  <2> QED
    BY <1>3, <2>2, ParseBodyType, CollectChunksType
<1>5. CASE fresh.status = "CHUNKED"
  <2>1. h = fresh
    BY <1>5
  <2> QED
    BY <1>1, <1>3, <1>5, <2>1, CollectChunksType DEF GoodParser
<1> QED
  BY <1>2, <1>4, <1>5

LEMMA BuildRequestType ==
  ASSUME NEW p \in GoodParser
  PROVE  buildRequest(p) \in Request
  BY DEF buildRequest, Request, GoodParser, Parser, Codes

-------------------------------------------------------------------------------
(* ClientSocket *)

(* What holds of a client between two events: its parser is a good one, and *)
(* it waits to write only with a response whose length is defined.          *)
GoodResponse ==
  {response \in Response :
     response.code = "200" => response.request.header \in Piece}

GoodClient ==
  {client \in Client :
     /\ client.parser \in GoodParser
     /\ client.state = "WRITE" => client.response \in GoodResponse}

LEMMA NewClientGood ==
  ASSUME NEW conn \in Conns, NEW port \in ports
  PROVE  NewClient(conn, port) \in GoodClient
  BY NewParserGood DEF NewClient, GoodClient, GoodParser, Client

LEMMA CStringType ==
  ASSUME NEW text \in Seq(Piece)
  PROVE  CString(text) \in Seq(Piece)
<1>1. CASE Nuls(text) = {}
  BY <1>1 DEF CString
<1>2. CASE Nuls(text) # {}
  <2> DEFINE z == First(Nuls(text))
             cut == [text[z] EXCEPT !.kind = "cut"]
  <2>1. z \in 1..Len(text)
    <3>1. Nuls(text) \subseteq 1..Len(text)
      BY LenProperties DEF Nuls
    <3> QED
      BY <1>2, <3>1, FirstType
  <2>2. text[z] \in Piece
    BY <2>1, ElementOfSeq
  <2>3. cut \in Piece
    BY <2>2 DEF Piece, Kinds
  <2> HIDE DEF z, cut
  <2>4. SubSeq(text, 1, z - 1) \in Seq(Piece)
    BY <2>1, SubTextType
  <2>5. Append(SubSeq(text, 1, z - 1), cut) \in Seq(Piece)
    BY <2>3, <2>4, AppendProperties
  <2> QED
    BY <1>2, <2>5 DEF CString, z, cut
<1> QED
  BY <1>1, <1>2

(* Receiving text changes the parser, and the request once it is complete;  *)
(* the socket, its state and its response stay.                             *)
LEMMA GenerateRequestType ==
  ASSUME NEW client \in GoodClient, NEW buffer \in Seq(Piece),
         NEW next \in generateRequest(client, buffer)
  PROVE  /\ next \in GoodClient
         /\ next.conn = client.conn /\ next.port = client.port
         /\ next.state = client.state
         /\ RequestReady(next) => next.request \in Request
<1>1. PICK p \in parse(client.parser, CString(buffer), client.port) :
        next = [client EXCEPT !.parser = p,
                              !.request = IF finished(p) \/ errorOccured(p)
                                          THEN buildRequest(p) ELSE @]
  <2> DEFINE Outcomes(text) ==
        { [client EXCEPT !.parser = p,
                         !.request = IF finished(p) \/ errorOccured(p)
                                     THEN buildRequest(p) ELSE @] :
          p \in parse(client.parser, text, client.port) }
  <2>1. next \in UNION {Outcomes(text) : text \in {CString(buffer)}}
    BY DEF generateRequest
  <2>2. next \in Outcomes(CString(buffer))
    <3> HIDE DEF Outcomes
    <3> QED
      BY <2>1
  <2> QED
    BY <2>2
<1>2. client \in Client /\ client.parser \in GoodParser /\ client.port \in ports
  BY DEF GoodClient, Client
<1>3. p \in GoodParser
  BY <1>1, <1>2, CStringType, ParseType
<1>4. buildRequest(p) \in Request
  BY <1>3, BuildRequestType
<1>5. p \in Parser
  BY <1>3 DEF GoodParser
<1>6. next \in Client
  BY <1>1, <1>2, <1>4, <1>5 DEF Client
<1>7. /\ next.parser = p /\ next.response = client.response
      /\ next.conn = client.conn /\ next.port = client.port
      /\ next.state = client.state
      /\ finished(p) \/ errorOccured(p) => next.request = buildRequest(p)
  BY <1>1, <1>2 DEF Client
<1> QED
  BY <1>3, <1>4, <1>6, <1>7 DEF GoodClient, RequestReady

(* An answer keeps the client a good one, if one of status 200 is only given *)
(* to a request with a header.                                              *)
LEMMA AnsweredGood ==
  ASSUME NEW client \in GoodClient, client.request \in Request,
         NEW code \in Codes, code = "200" => client.request.header \in Piece
  PROVE  /\ Answered(client, code) \in GoodClient
         /\ Answered(client, code).conn = client.conn
         /\ Answered(client, code).state = "WRITE"
<1> DEFINE request == client.request
           response == [code |-> code,
                        conf |-> findServerConfig(client.port, HostOf(request)),
                        request |-> request]
<1>1. client \in Client /\ client.port \in ports
  BY DEF GoodClient, Client
<1>2. findServerConfig(client.port, HostOf(request)) \in Confs
  BY <1>1, FindServerConfigType DEF Confs
<1>3. response \in GoodResponse
  BY <1>2 DEF GoodResponse, Response
<1>4. response \in Response
  BY <1>3 DEF GoodResponse
<1>5. Answered(client, code) = [client EXCEPT !.response = response, !.state = "WRITE"]
  BY DEF Answered
<1> HIDE DEF response
<1>6. /\ Answered(client, code) \in Client
      /\ Answered(client, code).conn = client.conn
      /\ Answered(client, code).state = "WRITE"
      /\ Answered(client, code).response = response
      /\ Answered(client, code).parser = client.parser
  BY <1>1, <1>4, <1>5 DEF Client
<1> QED
  BY <1>3, <1>6 DEF GoodClient

(* The statuses that build() may answer with are ones of that kind.         *)
LEMMA StatusCodesType ==
  ASSUME NEW request \in Request, NEW code \in StatusCodes(request)
  PROVE  code \in Codes /\ (code = "200" => request.header \in Piece)
<1>1. request.header = NoHeader \/ request.header \in Piece
  BY DEF Request, Headers
<1>2. request.header \in Piece => Header[request.header.req].outcome \subseteq Codes
  BY HeaderAssumption DEF HeaderFields, Piece
<1>3. request.code \in Codes
  BY DEF Request
<1> QED
  BY <1>1, <1>2, <1>3 DEF StatusCodes, HasPath, Codes

LEMMA SizeOfType ==
  ASSUME NEW response \in GoodResponse
  PROVE  SizeOf(response) \in Nat
<1>1. response.code = "200" => Header[response.request.header.req].size \in Nat
  BY HeaderAssumption DEF GoodResponse, Piece, HeaderFields
<1> QED
  BY <1>1 DEF SizeOf, ErrorSize

-------------------------------------------------------------------------------
(* The inductive invariant *)

\* The clients are good ones, and nothing is received that was not sent.
GoodState ==
  /\ TypeOK
  /\ \A fd \in Fds : clnt_socks[fd] # Null => clnt_socks[fd] \in GoodClient
  /\ \A c \in Conns : got[c] <= sent[c] /\ sent[c] <= Len(Stream[c])

\* bind() succeeds once per port.
OneListenerPerPort ==
  \A fd, other \in Fds :
    serv_socks[fd] # Null /\ serv_socks[fd] = serv_socks[other] => fd = other

\* What select() reported is ready, and still belongs to the same connection.
ReadyStaysReady ==
  pc # "stopped" =>
    /\ \A fd \in readable :
         IF serv_socks[fd] = Null
         THEN Waiting(fd) /\ IsReadable(ConnAt(fd)) /\ ConnAt(fd) = seen[fd]
         ELSE Pending(fd)
    /\ \A fd \in writable : Responding(fd) /\ ConnAt(fd) = seen[fd]

\* Between two rounds nothing is left to handle, and before select() nothing
\* is left to close.
RoundsAreComplete ==
  /\ pc \in {"listen", "select", "write", "destroy"} => readable = {}
  /\ pc \in {"listen", "select", "destroy"} => writable = {}
  /\ pc \in {"listen", "select"} => Closing = {}

\* A script runs for a client whose request is complete, and which is not
\* looked at again in this round of reading.
ScriptForRequest ==
  pc = "script" =>
    /\ current \in Fds \ readable
    /\ Waiting(current) /\ clnt_socks[current].request \in Request
    /\ RunsScript(clnt_socks[current].request)

IInv ==
  /\ GoodState
  /\ OneListenerPerPort
  /\ OneSocketPerConnection
  /\ ReadyStaysReady
  /\ RoundsAreComplete
  /\ ScriptForRequest
  /\ StopsOnlyForCause

\* The steps of the loop and its clients, with scripts that may answer anything
\* and may end the server: Next, and the steps of module Webserv, are such.
AnyReturn == pc = "script" /\ \E code \in Codes : Returned(code)
AnyEnd == pc = "script" /\ Stop("script")
AnyStep == Loop \/ AnyReturn \/ AnyEnd \/ \E c \in Conns : ClientStep(c)

LEMMA InitInv == Init => IInv
<1> SUFFICES ASSUME Init PROVE IInv
  OBVIOUS
<1>1. GoodState
  <2>1. <<>> \in Seq(Response)
    BY EmptySeq
  <2>2. \A c \in Conns : Len(Stream[c]) \in Nat
    BY ConnsAssumption, LenProperties
  <2> QED
    BY <2>1, <2>2 DEF Init, GoodState, TypeOK
<1>2. OneSocketPerConnection
  BY NullAssumption DEF Init, OneSocketPerConnection, ConnAt
<1> QED
  BY <1>1, <1>2
     DEF Init, IInv, OneListenerPerPort, ReadyStaysReady, RoundsAreComplete,
         Closing, ScriptForRequest, StopsOnlyForCause

-------------------------------------------------------------------------------
(* What single steps do *)

(* The steps of the server that handle one descriptor, by what they handle. *)
LEMMA ReadEventCases ==
  ASSUME IInv, HandleReadEvent
  PROVE  \E fd \in readable :
           \/ AcceptConnection(fd) \/ (AcceptFails(fd) /\ FreeFds = {})
           \/ /\ Waiting(fd) /\ IsReadable(ConnAt(fd))
              /\ ReceiveText(fd) \/ ReceiveEof(fd) \/ ReceiveFails(fd)
<1>1. PICK fd \in readable :
        \/ AcceptConnection(fd) \/ AcceptFails(fd)
        \/ /\ serv_socks[fd] = Null /\ clnt_socks[fd] # Null
           /\ ReceiveText(fd) \/ ReceiveEof(fd) \/ ReceiveFails(fd)
        \/ /\ serv_socks[fd] = Null /\ clnt_socks[fd] = Null
           /\ Stop("null")
  BY DEF HandleReadEvent
<1>2. IF serv_socks[fd] = Null THEN Waiting(fd) /\ IsReadable(ConnAt(fd))
                               ELSE Pending(fd)
  BY DEF IInv, ReadyStaysReady, HandleReadEvent
<1> QED
  BY <1>1, <1>2 DEF AcceptFails, Waiting

LEMMA WriteEventCases ==
  ASSUME IInv, HandleWriteEvent
  PROVE  \E fd \in writable : Responding(fd) /\ (SendResponse(fd) \/ SendFails(fd))
<1>1. PICK fd \in writable :
        \/ clnt_socks[fd] # Null /\ (SendResponse(fd) \/ SendFails(fd))
        \/ clnt_socks[fd] = Null /\ Stop("null")
  BY DEF HandleWriteEvent
<1>2. Responding(fd)
  BY DEF IInv, ReadyStaysReady, HandleWriteEvent
<1> QED
  BY <1>1, <1>2 DEF Responding

(* setFdset never meets a client it does not expect. *)
LEMMA SelectNeverFails ==
  ASSUME IInv, pc = "select"
  PROVE  \A fd \in Fds : ~Unexpected(fd)
  BY DEF IInv, GoodState, TypeOK, RoundsAreComplete, Closing, Unexpected, Waiting,
         Responding, isWaitingForRequest, canResponse, shouldClose, Client

(* Receiving replaces the client of one descriptor by one of the same       *)
(* connection.                                                              *)
LEMMA ReceiveTextEffect ==
  ASSUME IInv, NEW fd \in Fds, Waiting(fd), ReceiveText(fd)
  PROVE  /\ \E new \in GoodClient :
              /\ clnt_socks' = [clnt_socks EXCEPT ![fd] = new]
              /\ new.conn = clnt_socks[fd].conn
              /\ new.state \in {"READ", "WRITE"}
              /\ \/ pc' = pc /\ current' = current
                 \/ /\ pc' = "script" /\ current' = fd
                    /\ new.state = "READ" /\ new.request \in Request
                    /\ RunsScript(new.request)
         /\ got' = [got EXCEPT ![ConnAt(fd)] = Upto(ConnAt(fd))]
         /\ Upto(ConnAt(fd)) \in Nat
         /\ Upto(ConnAt(fd)) <= sent[ConnAt(fd)]
<1> DEFINE old == clnt_socks[fd]
           c == old.conn
<1>1. clnt_socks[fd] # Null /\ old \in GoodClient /\ old.state = "READ"
  BY DEF IInv, GoodState, Waiting, isWaitingForRequest
<1>2. c \in Conns /\ c = ConnAt(fd)
  BY <1>1 DEF ConnAt, GoodClient, Client
<1>3. got[c] \in Nat /\ sent[c] \in Nat /\ sent[c] <= Len(Stream[c]) /\ RecvBuf \in Nat
  BY <1>2, SizesAssumption DEF IInv, GoodState, TypeOK
<1>4. Upto(c) \in Nat /\ Upto(c) <= sent[c]
  BY <1>3 DEF Upto
<1>5. Received(c) \in Seq(Piece)
  <2>1. Stream[c] \in Seq(Piece)
    BY <1>2, ConnsAssumption
  <2>2. got[c] + 1 \in Nat \ {0} /\ Upto(c) \in Int /\ Upto(c) <= Len(Stream[c])
    BY <1>3, <1>4, <2>1, LenProperties
  <2> QED
    BY <2>1, <2>2, SubTextType DEF Received
<1>6. PICK client \in generateRequest(old, Received(c)) :
        \/ /\ ~RequestReady(client)
           /\ clnt_socks' = [clnt_socks EXCEPT ![fd] = client]
           /\ UNCHANGED <<pc, current>>
        \/ /\ RequestReady(client) /\ ~RunsScript(client.request)
           /\ \E code \in StatusCodes(client.request) :
                clnt_socks' = [clnt_socks EXCEPT ![fd] = Answered(client, code)]
           /\ UNCHANGED <<pc, current>>
        \/ /\ RequestReady(client) /\ RunsScript(client.request)
           /\ clnt_socks' = [clnt_socks EXCEPT ![fd] = client]
           /\ pc' = "script" /\ current' = fd
  BY <1>2 DEF ReceiveText
<1>7. /\ client \in GoodClient /\ client.conn = c /\ client.state = "READ"
      /\ RequestReady(client) => client.request \in Request
  BY <1>1, <1>5, GenerateRequestType
<1>8. \A code \in StatusCodes(client.request) :
        RequestReady(client) =>
          /\ Answered(client, code) \in GoodClient
          /\ Answered(client, code).conn = c
          /\ Answered(client, code).state = "WRITE"
  BY <1>7, AnsweredGood, StatusCodesType
<1>9. got' = [got EXCEPT ![ConnAt(fd)] = Upto(ConnAt(fd))]
  BY DEF ReceiveText
<1> HIDE DEF old, c
<1> QED
  BY <1>2, <1>4, <1>6, <1>7, <1>8, <1>9 DEF old, c

LEMMA AnyReturnEffect ==
  ASSUME IInv, AnyReturn
  PROVE  /\ current \in Fds \ readable /\ Waiting(current)
         /\ \E new \in GoodClient :
              /\ clnt_socks' = [clnt_socks EXCEPT ![current] = new]
              /\ new.conn = clnt_socks[current].conn
              /\ new.state = "WRITE"
<1> DEFINE client == clnt_socks[current]
<1>1. current \in Fds \ readable /\ Waiting(current) /\ client.request \in Request
  BY DEF IInv, ScriptForRequest, AnyReturn
<1>2. client \in GoodClient /\ current \in DOMAIN clnt_socks
  BY <1>1 DEF IInv, GoodState, TypeOK, Waiting
<1>3. client.request.header \in Piece
  BY <1>1 DEF IInv, ScriptForRequest, AnyReturn, RunsScript, HasPath, Request, Headers
<1>4. PICK code \in Codes :
        clnt_socks' = [clnt_socks EXCEPT ![current] = Answered(client, code)]
  BY DEF AnyReturn, Returned
<1> HIDE DEF client
<1>5. /\ Answered(client, code) \in GoodClient
      /\ Answered(client, code).conn = client.conn
      /\ Answered(client, code).state = "WRITE"
  BY <1>1, <1>2, <1>3, AnsweredGood
<1> QED
  BY <1>1, <1>4, <1>5 DEF client

(* One client is replaced by another of the same connection, or none is.    *)
LEMMA ConnKept ==
  ASSUME IInv, NEW fd \in Fds, clnt_socks[fd] # Null, NEW new \in GoodClient,
         clnt_socks' = [clnt_socks EXCEPT ![fd] = new],
         new.conn = clnt_socks[fd].conn
  PROVE  \A other \in Fds : ConnAt(other)' = ConnAt(other)
  BY NullAssumption DEF IInv, GoodState, TypeOK, ConnAt, GoodClient

(* The conditions a descriptor was reported for.                            *)
LEMMA SocketFacts ==
  ASSUME IInv, NEW fd \in Fds, clnt_socks[fd] # Null
  PROVE  /\ ConnAt(fd) \in Conns /\ ConnAt(fd) = clnt_socks[fd].conn
         /\ clnt_socks[fd] \in GoodClient
         /\ clnt_socks[fd].state \in {"READ", "WRITE", "CLOSE"}
         /\ clnt_socks[fd].port \in ports
         /\ link[ConnAt(fd)] = "accepted"
         /\ serv_socks[fd] = Null
         /\ \A other \in Fds : ConnAt(other) = ConnAt(fd) => other = fd
  BY DEF IInv, GoodState, ConnAt, GoodClient, Client, OneSocketPerConnection

(* What clients and kernel can do between two steps of the server: a        *)
(* connection that is ready stays ready.                                    *)
LEMMA ClientStepEffect ==
  ASSUME NEW c \in Conns, ClientStep(c)
  PROVE  /\ pc # "stopped"
         /\ UNCHANGED <<server, got, history>>
         /\ \/ /\ link[c] = "new" /\ link' = [link EXCEPT ![c] = "backlog"]
               /\ UNCHANGED <<peer, sent, unread>>
            \/ /\ \E to \in Nat : /\ sent[c] < to /\ to <= Len(Stream[c])
                                  /\ sent' = [sent EXCEPT ![c] = to]
               /\ UNCHANGED <<link, peer, unread>>
            \/ /\ unread' = [unread EXCEPT ![c] = 0]
               /\ UNCHANGED <<link, peer, sent>>
            \/ /\ \E how \in {"half", "gone", "reset"} :
                    peer' = [peer EXCEPT ![c] = how]
               /\ peer[c] \in {"open", "half"}
               /\ UNCHANGED <<link, sent, unread>>
<1>1. CASE Connect(c)
  BY <1>1 DEF ClientStep, Connect
<1>2. CASE Send(c)
  <2>1. Cuts[c] \subseteq Nat
    BY ConnsAssumption
  <2>2. PICK to \in Cuts[c] : /\ sent[c] < to /\ to <= Len(Stream[c])
                              /\ sent' = [sent EXCEPT ![c] = to]
    BY <1>2 DEF Send
  <2> QED
    BY <1>2, <2>1, <2>2 DEF ClientStep, Send
<1>3. CASE ReadAnswers(c)
  BY <1>3 DEF ClientStep, ReadAnswers
<1>4. CASE HalfClose(c)
  BY <1>4 DEF ClientStep, HalfClose
<1>5. CASE Leave(c)
  BY <1>5 DEF ClientStep, Leave
<1> QED
  BY <1>1, <1>2, <1>3, <1>4, <1>5 DEF ClientStep

-------------------------------------------------------------------------------
(* Types *)

LEMMA StepGoodState ==
  ASSUME IInv, [AnyStep]_vars
  PROVE  GoodState'
<1> USE DEF GoodState, TypeOK
<1>0. GoodState
  BY DEF IInv
<1>1. CASE UNCHANGED vars
  BY <1>0, <1>1 DEF vars, server, kernel, history
<1>2. ASSUME NEW reason \in Stops, Stop(reason) PROVE GoodState'
  BY <1>0, <1>2 DEF Stop, kernel, history
<1>3. CASE OpenListener
  BY <1>0, <1>3, PortsAssumption DEF OpenListener, kernel, history, Unopened
<1>4. CASE OpenListenerFails
  BY <1>2, <1>4 DEF OpenListenerFails, Stops
<1>15. CASE AnyEnd
  BY <1>2, <1>15 DEF AnyEnd, Stops
<1>5. CASE StartRunning
  BY <1>0, <1>5 DEF StartRunning, kernel, history
<1>6. CASE SelectReturns
  <2>1. \A fd \in Fds : ConnAt(fd) \in Conns \cup {Null}
    BY <1>0, SocketFacts DEF ConnAt
  <2> QED
    BY <1>0, <1>6, <2>1 DEF SelectReturns, kernel, history
<1>7. CASE SelectFails
  BY <1>2, <1>7 DEF SelectFails, Stops
<1>8. CASE HandleReadEvent
  <2>1. PICK fd \in readable :
           \/ AcceptConnection(fd) \/ (AcceptFails(fd) /\ FreeFds = {})
           \/ /\ Waiting(fd) /\ IsReadable(ConnAt(fd))
              /\ ReceiveText(fd) \/ ReceiveEof(fd) \/ ReceiveFails(fd)
    BY <1>8, ReadEventCases
  <2>2. fd \in Fds
    BY <1>0
  <2>3. CASE AcceptConnection(fd)
    <3>1. PICK c \in Conns, new \in Fds :
            /\ clnt_socks' = [clnt_socks EXCEPT ![new] = NewClient(c, serv_socks[fd])]
            /\ link' = [link EXCEPT ![c] = "accepted"]
      BY <2>3 DEF AcceptConnection
    <3>2. serv_socks[fd] \in ports
      BY <1>0, <2>2, <2>3 DEF AcceptConnection
    <3>3. NewClient(c, serv_socks[fd]) \in GoodClient
      BY <3>2, NewClientGood
    <3> QED
      BY <1>0, <2>3, <3>1, <3>3 DEF AcceptConnection, history, GoodClient
  <2>4. CASE Waiting(fd) /\ ReceiveText(fd)
    <3>1. PICK new \in GoodClient :
            /\ clnt_socks' = [clnt_socks EXCEPT ![fd] = new]
            /\ pc' \in {pc, "script"} /\ current' \in {current, fd}
      BY <2>2, <2>4, ReceiveTextEffect
    <3>2. /\ got' = [got EXCEPT ![ConnAt(fd)] = Upto(ConnAt(fd))]
          /\ Upto(ConnAt(fd)) \in Nat /\ Upto(ConnAt(fd)) <= sent[ConnAt(fd)]
      BY <2>2, <2>4, ReceiveTextEffect
    <3>3. ConnAt(fd) \in Conns
      BY <2>2, <2>4, SocketFacts DEF Waiting
    <3>4. /\ readable' = readable \ {fd}
          /\ UNCHANGED <<serv_socks, writable, why, link, peer, sent, unread, history>>
      BY <2>4 DEF ReceiveText
    <3>5. got' \in [Conns -> Nat] /\ \A c \in Conns : got'[c] <= sent[c]
      BY <1>0, <3>2, <3>3
    <3>6. /\ clnt_socks' \in [Fds -> Client \cup {Null}]
          /\ \A other \in Fds :
               clnt_socks'[other] # Null => clnt_socks'[other] \in GoodClient
      BY <1>0, <3>1 DEF GoodClient
    <3> QED
      BY <1>0, <2>2, <3>1, <3>4, <3>5, <3>6 DEF history
  <2>5. CASE Waiting(fd) /\ ReceiveEof(fd)
    <3>1. clnt_socks[fd] \in GoodClient
      BY <2>2, <2>5, SocketFacts DEF Waiting
    <3>2. [clnt_socks[fd] EXCEPT !.state = "CLOSE"] \in GoodClient
      BY <3>1 DEF GoodClient, Client
    <3> QED
      BY <1>0, <2>2, <2>5, <3>2 DEF ReceiveEof, kernel, history, GoodClient
  <2> QED
    BY <1>2, <2>1, <2>3, <2>4, <2>5 DEF AcceptFails, ReceiveFails, Stops
<1>9. CASE AnyReturn
  <2>1. PICK new \in GoodClient :
          clnt_socks' = [clnt_socks EXCEPT ![current] = new]
    BY <1>9, AnyReturnEffect
  <2> QED
    BY <1>0, <1>9, <2>1 DEF AnyReturn, Returned, kernel, history, GoodClient
<1>10. CASE ReadEventsDone
  BY <1>0, <1>10 DEF ReadEventsDone, kernel, history
<1>11. CASE HandleWriteEvent
  <2>1. PICK fd \in writable : Responding(fd) /\ (SendResponse(fd) \/ SendFails(fd))
    BY <1>11, WriteEventCases
  <2>2. fd \in Fds /\ clnt_socks[fd] # Null
    BY <1>0, <2>1 DEF Responding
  <2>3. CASE SendResponse(fd)
    <3> DEFINE c == ConnAt(fd)
               response == clnt_socks[fd].response
    <3>1. c \in Conns /\ clnt_socks[fd] \in GoodClient
      BY <2>2, SocketFacts
    <3>2. response \in GoodResponse /\ response \in Response
      BY <2>1, <3>1 DEF Responding, canResponse, GoodClient, GoodResponse
    <3>3. SizeOf(response) \in Nat
      BY <3>2, SizeOfType
    <3>4. Append(answers[c], response) \in Seq(Response)
      BY <1>0, <3>1, <3>2, AppendProperties
    <3>5. [clnt_socks[fd] EXCEPT !.state = "READ"] \in GoodClient
      BY <3>1 DEF GoodClient, Client
    <3>6. unread[c] + SizeOf(response) \in Nat
      BY <1>0, <3>1, <3>3
    <3> HIDE DEF c, response
    <3>7. answers' = [answers EXCEPT ![c] = Append(@, response)]
      BY <2>3 DEF SendResponse, c, response
    <3>8. unread' \in [Conns -> Nat]
      BY <1>0, <2>3, <3>1, <3>6 DEF SendResponse, c, response
    <3>9. answers' \in [Conns -> Seq(Response)]
      BY <1>0, <3>4, <3>7
    <3>10. peer' \in [Conns -> {"open", "half", "gone", "reset"}]
      BY <1>0, <2>3 DEF SendResponse
    <3>11. /\ clnt_socks' \in [Fds -> Client \cup {Null}]
           /\ \A other \in Fds :
                clnt_socks'[other] # Null => clnt_socks'[other] \in GoodClient
      BY <1>0, <2>2, <2>3, <3>5 DEF SendResponse, GoodClient
    <3> QED
      BY <1>0, <2>3, <3>8, <3>9, <3>10, <3>11 DEF SendResponse
  <2> QED
    BY <1>2, <2>1, <2>3 DEF SendFails, Stops
<1>12. CASE WriteEventsDone
  BY <1>0, <1>12 DEF WriteEventsDone, kernel, history
<1>13. CASE DestroyClients
  BY <1>0, <1>13 DEF DestroyClients, history
<1>14. ASSUME NEW c \in Conns, ClientStep(c) PROVE GoodState'
  <2>1. UNCHANGED <<server, got, history>>
    BY <1>14, ClientStepEffect
  <2>2. CASE link' = [link EXCEPT ![c] = "backlog"] /\ UNCHANGED <<peer, sent, unread>>
    BY <1>0, <2>1, <2>2 DEF server, history
  <2>3. ASSUME NEW to \in Nat, sent[c] < to, to <= Len(Stream[c]),
               sent' = [sent EXCEPT ![c] = to], UNCHANGED <<link, peer, unread>>
        PROVE  GoodState'
    <3>1. sent' \in [Conns -> Nat]
      BY <1>0, <2>3
    <3>2. \A d \in Conns : got[d] <= sent'[d] /\ sent'[d] <= Len(Stream[d])
      BY <1>0, <2>3
    <3> QED
      BY <1>0, <2>1, <2>3, <3>1, <3>2 DEF server, history
  <2>4. CASE unread' = [unread EXCEPT ![c] = 0] /\ UNCHANGED <<link, peer, sent>>
    BY <1>0, <2>1, <2>4 DEF server, history
  <2>5. ASSUME NEW how \in {"half", "gone", "reset"},
               peer' = [peer EXCEPT ![c] = how], UNCHANGED <<link, sent, unread>>
        PROVE  GoodState'
    BY <1>0, <2>1, <2>5 DEF server, history
  <2> QED
    BY <1>14, <2>2, <2>3, <2>4, <2>5, ClientStepEffect
<1> QED
  BY <1>1, <1>3, <1>4, <1>5, <1>6, <1>7, <1>8, <1>9, <1>10, <1>11, <1>12, <1>13,
     <1>14, <1>15 DEF AnyStep, Loop, Select

-------------------------------------------------------------------------------
(* Sockets *)

LEMMA ListenersKept ==
  ASSUME IInv, [AnyStep]_vars, ~OpenListener
  PROVE  UNCHANGED serv_socks
<1>1. CASE UNCHANGED vars
  BY <1>1 DEF vars, server
<1>2. ASSUME NEW reason, Stop(reason) PROVE UNCHANGED serv_socks
  BY <1>2 DEF Stop
<1>3. CASE HandleReadEvent
  BY <1>2, <1>3, ReadEventCases
     DEF AcceptConnection, AcceptFails, ReceiveText, ReceiveEof, ReceiveFails
<1>4. CASE HandleWriteEvent
  BY <1>2, <1>4, WriteEventCases DEF SendResponse, SendFails
<1>5. CASE \E c \in Conns : ClientStep(c)
  BY <1>5, ClientStepEffect DEF server
<1>6. CASE \/ OpenListenerFails \/ StartRunning \/ SelectReturns \/ SelectFails \/ AnyReturn
           \/ AnyEnd \/ ReadEventsDone \/ WriteEventsDone \/ DestroyClients
  BY <1>2, <1>6 DEF OpenListenerFails, StartRunning, SelectReturns, SelectFails,
     AnyReturn, Returned, AnyEnd, ReadEventsDone, WriteEventsDone, DestroyClients
<1> QED
  BY <1>1, <1>3, <1>4, <1>5, <1>6 DEF AnyStep, Loop, Select

LEMMA StepOneListener ==
  ASSUME IInv, [AnyStep]_vars
  PROVE  OneListenerPerPort'
<1>1. CASE OpenListener
  <2>1. PICK port \in Unopened, fd \in Fds : serv_socks' = [serv_socks EXCEPT ![fd] = port]
    BY <1>1 DEF OpenListener
  <2>2. \A other \in Fds : serv_socks[other] # port
    BY <2>1 DEF Unopened
  <2> QED
    BY <2>1, <2>2 DEF IInv, GoodState, TypeOK, OneListenerPerPort
<1>2. CASE ~OpenListener
  BY <1>2, ListenersKept DEF IInv, OneListenerPerPort
<1> QED
  BY <1>1, <1>2

LEMMA OneSocketKept ==
  ASSUME OneSocketPerConnection, UNCHANGED <<serv_socks, link>>,
         \A fd \in Fds : /\ ConnAt(fd)' = ConnAt(fd)
                         /\ clnt_socks'[fd] = Null <=> clnt_socks[fd] = Null
  PROVE  OneSocketPerConnection'
  BY DEF OneSocketPerConnection

LEMMA StepOneSocket ==
  ASSUME IInv, [AnyStep]_vars
  PROVE  OneSocketPerConnection'
<1>0. OneSocketPerConnection /\ GoodState /\ TypeOK
  BY DEF IInv, GoodState
<1>1. CASE UNCHANGED <<serv_socks, clnt_socks, link>>
  BY <1>0, <1>1 DEF OneSocketPerConnection, ConnAt
<1>2. ASSUME NEW reason, Stop(reason) PROVE OneSocketPerConnection'
  BY <1>1, <1>2 DEF Stop, kernel
<1>3. ASSUME NEW fd \in Fds, clnt_socks[fd] # Null, NEW new \in GoodClient,
             clnt_socks' = [clnt_socks EXCEPT ![fd] = new],
             new.conn = clnt_socks[fd].conn, UNCHANGED <<serv_socks, link>>
      PROVE  OneSocketPerConnection'
  <2>1. new # Null
    BY NullAssumption DEF GoodClient
  <2>2. \A other \in Fds : /\ ConnAt(other)' = ConnAt(other)
                           /\ clnt_socks'[other] = Null <=> clnt_socks[other] = Null
    BY <1>0, <1>3, <2>1, ConnKept DEF TypeOK
  <2> QED
    BY <1>0, <1>3, <2>2, OneSocketKept
<1>4. CASE OpenListener
  <2>1. PICK port \in ports, fd \in FreeFds : serv_socks' = [serv_socks EXCEPT ![fd] = port]
    BY <1>4 DEF OpenListener, Unopened, IsLowest
  <2>2. fd \in Fds /\ clnt_socks[fd] = Null
    BY <2>1 DEF FreeFds, InUse
  <2>3. UNCHANGED <<clnt_socks, link>>
    BY <1>4 DEF OpenListener, kernel
  <2> QED
    BY <1>0, <2>1, <2>2, <2>3 DEF OneSocketPerConnection, ConnAt, TypeOK
<1>5. CASE HandleReadEvent
  <2>1. PICK fd \in readable :
           \/ AcceptConnection(fd) \/ (AcceptFails(fd) /\ FreeFds = {})
           \/ /\ Waiting(fd) /\ IsReadable(ConnAt(fd))
              /\ ReceiveText(fd) \/ ReceiveEof(fd) \/ ReceiveFails(fd)
    BY <1>5, ReadEventCases
  <2>2. fd \in Fds
    BY <1>0 DEF TypeOK
  <2>3. CASE AcceptConnection(fd)
    <3>1. PICK c \in Conns, new \in FreeFds :
            /\ link[c] = "backlog"
            /\ clnt_socks' = [clnt_socks EXCEPT ![new] = NewClient(c, serv_socks[fd])]
            /\ link' = [link EXCEPT ![c] = "accepted"]
      BY <2>3 DEF AcceptConnection, IsLowest
    <3>2. UNCHANGED serv_socks
      BY <2>3 DEF AcceptConnection
    <3>3. new \in Fds /\ serv_socks[new] = Null /\ clnt_socks[new] = Null
      BY <3>1 DEF FreeFds, InUse
    <3>4. serv_socks[fd] \in ports
      BY <1>0, <2>2, <2>3 DEF AcceptConnection, TypeOK
    <3>5. NewClient(c, serv_socks[fd]) # Null /\ NewClient(c, serv_socks[fd]).conn = c
      BY <3>4, NewClientGood, NullAssumption DEF GoodClient, NewClient
    <3>6. ConnAt(new)' = c /\ clnt_socks'[new] # Null
      BY <1>0, <3>1, <3>3, <3>5 DEF ConnAt, TypeOK
    <3>7. \A other \in Fds \ {new} : /\ ConnAt(other)' = ConnAt(other)
                                     /\ clnt_socks'[other] = clnt_socks[other]
      BY <1>0, <3>1 DEF ConnAt, TypeOK
    <3>8. \A other \in Fds : ConnAt(other) # c
      BY <1>0, <3>1 DEF OneSocketPerConnection
    <3>9. \A d \in Conns : link'[d] = "accepted" <=> \E other \in Fds : ConnAt(other)' = d
      <4>1. link'[c] = "accepted"
        BY <1>0, <3>1 DEF TypeOK
      <4>2. ConnAt(new) = Null
        BY <3>3 DEF ConnAt
      <4>3. ASSUME NEW d \in Conns, d # c
            PROVE  link'[d] = "accepted" <=> \E other \in Fds : ConnAt(other)' = d
        <5>1. link'[d] = link[d]
          BY <1>0, <3>1, <4>3 DEF TypeOK
        <5>2. link[d] = "accepted" <=> \E other \in Fds : ConnAt(other) = d
          BY <1>0 DEF OneSocketPerConnection
        <5>3. \A other \in Fds : ConnAt(other)' = d <=> ConnAt(other) = d
          BY <3>6, <3>7, <4>2, <4>3, NullAssumption
        <5> QED
          BY <5>1, <5>2, <5>3
      <4> QED
        BY <3>3, <3>6, <4>1, <4>3
    <3>10. \A one, other \in Fds :
             clnt_socks'[one] # Null /\ ConnAt(one)' = ConnAt(other)' => one = other
      BY <1>0, <3>6, <3>7, <3>8 DEF OneSocketPerConnection
    <3>11. \A other \in Fds : serv_socks'[other] # Null => clnt_socks'[other] = Null
      BY <1>0, <3>2, <3>3, <3>7 DEF OneSocketPerConnection
    <3> QED
      BY <3>9, <3>10, <3>11 DEF OneSocketPerConnection
  <2>4. CASE Waiting(fd) /\ ReceiveText(fd)
    <3>1. UNCHANGED <<serv_socks, link>>
      BY <2>4 DEF ReceiveText
    <3> QED
      BY <1>3, <2>2, <2>4, <3>1, ReceiveTextEffect DEF Waiting
  <2>5. CASE Waiting(fd) /\ ReceiveEof(fd)
    <3>1. clnt_socks[fd] # Null /\ clnt_socks[fd] \in GoodClient
      BY <2>2, <2>5, SocketFacts DEF Waiting
    <3> DEFINE new == [clnt_socks[fd] EXCEPT !.state = "CLOSE"]
    <3>2. new \in GoodClient /\ new.conn = clnt_socks[fd].conn
      BY <3>1 DEF GoodClient, Client
    <3>3. clnt_socks' = [clnt_socks EXCEPT ![fd] = new] /\ UNCHANGED <<serv_socks, link>>
      BY <2>5 DEF ReceiveEof, kernel
    <3> HIDE DEF new
    <3> QED
      BY <1>3, <2>2, <3>1, <3>2, <3>3
  <2> QED
    BY <1>2, <2>1, <2>3, <2>4, <2>5 DEF AcceptFails, ReceiveFails
<1>6. CASE AnyReturn
  <2>1. UNCHANGED <<serv_socks, link>>
    BY <1>6 DEF AnyReturn, Returned, kernel
  <2> QED
    BY <1>3, <1>6, <2>1, AnyReturnEffect DEF Waiting
<1>7. CASE HandleWriteEvent
  <2>1. PICK fd \in writable : Responding(fd) /\ (SendResponse(fd) \/ SendFails(fd))
    BY <1>7, WriteEventCases
  <2>2. CASE SendResponse(fd)
    <3>1. fd \in Fds /\ clnt_socks[fd] # Null /\ clnt_socks[fd] \in GoodClient
      BY <1>0, <2>1, SocketFacts DEF Responding, TypeOK
    <3> DEFINE new == [clnt_socks[fd] EXCEPT !.state = "READ"]
    <3>2. new \in GoodClient /\ new.conn = clnt_socks[fd].conn
      BY <3>1 DEF GoodClient, Client
    <3>3. clnt_socks' = [clnt_socks EXCEPT ![fd] = new] /\ UNCHANGED <<serv_socks, link>>
      BY <2>2 DEF SendResponse
    <3> HIDE DEF new
    <3> QED
      BY <1>3, <3>1, <3>2, <3>3
  <2> QED
    BY <1>2, <2>1, <2>2 DEF SendFails
<1>8. CASE DestroyClients
  <2>1. \A fd \in Fds : clnt_socks'[fd] = IF fd \in Closing THEN Null ELSE clnt_socks[fd]
    BY <1>8 DEF DestroyClients
  <2>2. \A c \in Conns : link'[c] = IF \E fd \in Closing : ConnAt(fd) = c
                                    THEN "closed" ELSE link[c]
    BY <1>8 DEF DestroyClients
  <2>3. UNCHANGED serv_socks /\ Closing \subseteq Fds
    BY <1>8 DEF DestroyClients, Closing
  <2>4. \A fd \in Fds : ConnAt(fd)' = IF fd \in Closing THEN Null ELSE ConnAt(fd)
    BY <2>1 DEF ConnAt
  <2>5. \A fd \in Closing : clnt_socks[fd] # Null
    BY DEF Closing
  <2>6. \A c \in Conns : link'[c] = "accepted" <=> \E fd \in Fds : ConnAt(fd)' = c
    BY <1>0, <2>2, <2>3, <2>4, <2>5, NullAssumption DEF OneSocketPerConnection
  <2>7. \A fd, other \in Fds :
          clnt_socks'[fd] # Null /\ ConnAt(fd)' = ConnAt(other)' => fd = other
    <3>1. \A fd \in Fds : clnt_socks[fd] # Null => ConnAt(fd) # Null
      BY SocketFacts, NullAssumption
    <3> QED
      BY <1>0, <2>1, <2>4, <3>1 DEF OneSocketPerConnection
  <2>8. \A fd \in Fds : serv_socks'[fd] # Null => clnt_socks'[fd] = Null
    BY <1>0, <2>1, <2>3 DEF OneSocketPerConnection
  <2> QED
    BY <2>6, <2>7, <2>8 DEF OneSocketPerConnection
<1>9. ASSUME NEW c \in Conns, ClientStep(c) PROVE OneSocketPerConnection'
  <2>1. UNCHANGED <<serv_socks, clnt_socks>>
    BY <1>9, ClientStepEffect DEF server
  <2>2. CASE link[c] = "new" /\ link' = [link EXCEPT ![c] = "backlog"]
    <3>1. \A d \in Conns : link'[d] = "accepted" <=> link[d] = "accepted"
      BY <1>0, <2>2 DEF TypeOK
    <3> QED
      BY <1>0, <2>1, <3>1 DEF OneSocketPerConnection, ConnAt
  <2> QED
    BY <1>1, <1>9, <2>1, <2>2, ClientStepEffect
<1>10. CASE \/ OpenListenerFails \/ StartRunning \/ SelectReturns \/ SelectFails
            \/ AnyEnd \/ ReadEventsDone \/ WriteEventsDone \/ UNCHANGED vars
  BY <1>1, <1>2, <1>10 DEF OpenListenerFails, StartRunning, SelectReturns, SelectFails,
     AnyEnd, ReadEventsDone, WriteEventsDone, vars, server, kernel
<1> QED
  BY <1>4, <1>5, <1>6, <1>7, <1>8, <1>9, <1>10 DEF AnyStep, Loop, Select

-------------------------------------------------------------------------------
(* What was reported ready *)

(* Handling one client leaves what was reported of the others.              *)
LEMMA OthersStayReady ==
  ASSUME IInv, pc # "stopped", NEW fd \in Fds, clnt_socks[fd] # Null,
         NEW new \in GoodClient, new.conn = clnt_socks[fd].conn,
         clnt_socks' = [clnt_socks EXCEPT ![fd] = new],
         readable' \subseteq readable \ {fd}, writable' \subseteq writable \ {fd},
         UNCHANGED <<serv_socks, seen, link, sent>>,
         \A c \in Conns \ {ConnAt(fd)} : got'[c] = got[c],
         \A c \in Conns : peer'[c] = "open" => peer[c] = "open"
  PROVE  ReadyStaysReady'
<1>0. ReadyStaysReady /\ readable \subseteq Fds /\ writable \subseteq Fds
  BY DEF IInv, GoodState, TypeOK
<1>1. \A other \in Fds \ {fd} :
        ConnAt(other)' = ConnAt(other) /\ clnt_socks'[other] = clnt_socks[other]
  BY ConnKept DEF IInv, GoodState, TypeOK
<1>2. ASSUME NEW other \in readable', serv_socks[other] = Null
      PROVE  (Waiting(other) /\ IsReadable(ConnAt(other)) /\ ConnAt(other) = seen[other])'
  <2>1. other \in Fds \ {fd} /\ other \in readable
    BY <1>0, <1>2
  <2>2. Waiting(other) /\ IsReadable(ConnAt(other)) /\ ConnAt(other) = seen[other]
    BY <1>0, <1>2, <2>1 DEF ReadyStaysReady
  <2>3. ConnAt(other) \in Conns \ {ConnAt(fd)}
    BY <2>1, <2>2, SocketFacts DEF Waiting
  <2> QED
    BY <1>1, <2>1, <2>2, <2>3 DEF Waiting, IsReadable
<1>3. ASSUME NEW other \in readable', serv_socks[other] # Null
      PROVE  Pending(other)'
  BY <1>0, <1>3 DEF ReadyStaysReady, Pending
<1>4. ASSUME NEW other \in writable'
      PROVE  (Responding(other) /\ ConnAt(other) = seen[other])'
  BY <1>0, <1>1, <1>4 DEF ReadyStaysReady, Responding
<1> QED
  BY <1>2, <1>3, <1>4 DEF ReadyStaysReady

(* A client that waits to be read is not among those reported writable.     *)
LEMMA WaitingNotWritable ==
  ASSUME IInv, pc # "stopped", NEW fd \in Fds, Waiting(fd)
  PROVE  fd \notin writable
  BY DEF IInv, ReadyStaysReady, Waiting, Responding, isWaitingForRequest, canResponse

LEMMA StepReady ==
  ASSUME IInv, [AnyStep]_vars
  PROVE  ReadyStaysReady'
<1>0. ReadyStaysReady /\ GoodState /\ TypeOK
  BY DEF IInv, GoodState
<1>1. CASE /\ UNCHANGED <<serv_socks, clnt_socks, readable, writable, seen, link,
                          sent, got, peer>>
           /\ pc # "stopped"
  BY <1>0, <1>1 DEF ReadyStaysReady, Waiting, Responding, IsReadable, Pending, ConnAt
<1>2. ASSUME NEW reason, Stop(reason) PROVE ReadyStaysReady'
  BY <1>2 DEF Stop, ReadyStaysReady
<1>3. CASE OpenListener
  BY <1>3 DEF OpenListener, IInv, RoundsAreComplete, ReadyStaysReady
<1>4. CASE SelectReturns
  <2>1. /\ readable' = {fd \in Fds : \/ serv_socks[fd] # Null /\ Pending(fd)
                                     \/ Waiting(fd) /\ IsReadable(ConnAt(fd))}
        /\ writable' = {fd \in Fds : Responding(fd) /\ IsWritable(ConnAt(fd))}
        /\ seen' = [fd \in Fds |-> ConnAt(fd)]
        /\ UNCHANGED <<serv_socks, clnt_socks, kernel>>
    BY <1>4 DEF SelectReturns
  <2>2. \A fd \in Fds : serv_socks[fd] # Null => ~Waiting(fd)
    BY DEF IInv, OneSocketPerConnection, Waiting
  <2> QED
    BY <2>1, <2>2
       DEF ReadyStaysReady, Waiting, Responding, IsReadable, Pending, ConnAt, kernel
<1>5. CASE HandleReadEvent
  <2>1. PICK fd \in readable :
           \/ AcceptConnection(fd) \/ (AcceptFails(fd) /\ FreeFds = {})
           \/ /\ Waiting(fd) /\ IsReadable(ConnAt(fd))
              /\ ReceiveText(fd) \/ ReceiveEof(fd) \/ ReceiveFails(fd)
    BY <1>5, ReadEventCases
  <2>2. fd \in Fds /\ pc # "stopped"
    BY <1>0, <1>5 DEF TypeOK, HandleReadEvent
  <2>3. CASE AcceptConnection(fd)
    <3>1. PICK c \in Conns, new \in FreeFds :
            /\ link[c] = "backlog" /\ PortOf[c] = serv_socks[fd]
            /\ clnt_socks' = [clnt_socks EXCEPT ![new] = NewClient(c, serv_socks[fd])]
            /\ link' = [link EXCEPT ![c] = "accepted"]
      BY <2>3 DEF AcceptConnection, IsLowest
    <3>2. /\ readable' = readable \ {fd} /\ serv_socks[fd] # Null
          /\ UNCHANGED <<serv_socks, writable, peer, sent, got, seen>>
      BY <2>3 DEF AcceptConnection, history
    <3>3. new \in Fds /\ serv_socks[new] = Null /\ clnt_socks[new] = Null
      BY <3>1 DEF FreeFds, InUse
    <3>4. new \notin readable /\ new \notin writable
      BY <1>0, <2>2, <3>3 DEF ReadyStaysReady, Waiting, Responding
    <3>5. \A other \in Fds \ {new} : /\ ConnAt(other)' = ConnAt(other)
                                     /\ clnt_socks'[other] = clnt_socks[other]
      BY <1>0, <3>1 DEF ConnAt, TypeOK
    <3>6. ASSUME NEW other \in readable', serv_socks[other] = Null
          PROVE  (Waiting(other) /\ IsReadable(ConnAt(other)) /\ ConnAt(other) = seen[other])'
      <4>1. other \in Fds \ {new} /\ other \in readable
        BY <1>0, <3>2, <3>4, <3>6 DEF TypeOK
      <4>2. Waiting(other) /\ IsReadable(ConnAt(other)) /\ ConnAt(other) = seen[other]
        BY <1>0, <2>2, <3>6, <4>1 DEF ReadyStaysReady
      <4> QED
        BY <3>2, <3>5, <4>1, <4>2 DEF Waiting, IsReadable
    <3>7. ASSUME NEW other \in readable', serv_socks[other] # Null
          PROVE  Pending(other)'
      <4>1. other \in Fds /\ other # fd /\ Pending(other)
        BY <1>0, <2>2, <3>2, <3>7 DEF ReadyStaysReady, TypeOK
      <4>2. serv_socks[other] # serv_socks[fd]
        BY <2>2, <3>2, <4>1 DEF IInv, OneListenerPerPort
      <4>3. PICK d \in Conns : link[d] = "backlog" /\ PortOf[d] = serv_socks[other]
        BY <4>1 DEF Pending
      <4>4. d # c
        BY <3>1, <4>2, <4>3
      <4>5. link'[d] = "backlog"
        BY <1>0, <3>1, <4>3, <4>4 DEF TypeOK
      <4> QED
        BY <3>2, <4>3, <4>5 DEF Pending
    <3>8. ASSUME NEW other \in writable'
          PROVE  (Responding(other) /\ ConnAt(other) = seen[other])'
      <4>1. other \in Fds \ {new} /\ other \in writable
        BY <1>0, <3>2, <3>4, <3>8 DEF TypeOK
      <4>2. Responding(other) /\ ConnAt(other) = seen[other]
        BY <1>0, <2>2, <4>1 DEF ReadyStaysReady
      <4> QED
        BY <3>2, <3>5, <4>1, <4>2 DEF Responding
    <3> QED
      BY <3>2, <3>6, <3>7, <3>8 DEF ReadyStaysReady
  <2>4. CASE Waiting(fd) /\ ReceiveText(fd)
    <3>1. /\ readable' = readable \ {fd}
          /\ UNCHANGED <<serv_socks, writable, link, peer, sent, seen>>
      BY <2>4 DEF ReceiveText, history
    <3>2. fd \notin writable /\ clnt_socks[fd] # Null
      BY <2>2, <2>4, WaitingNotWritable DEF Waiting
    <3>3. got' = [got EXCEPT ![ConnAt(fd)] = Upto(ConnAt(fd))]
      BY <2>2, <2>4, ReceiveTextEffect
    <3>4. \A c \in Conns \ {ConnAt(fd)} : got'[c] = got[c]
      BY <1>0, <3>3 DEF TypeOK
    <3>5. PICK new \in GoodClient :
            /\ clnt_socks' = [clnt_socks EXCEPT ![fd] = new]
            /\ new.conn = clnt_socks[fd].conn
      BY <2>2, <2>4, ReceiveTextEffect
    <3> QED
      BY <2>2, <3>1, <3>2, <3>4, <3>5, OthersStayReady
  <2>5. CASE Waiting(fd) /\ ReceiveEof(fd)
    <3>1. clnt_socks[fd] # Null /\ clnt_socks[fd] \in GoodClient /\ fd \notin writable
      BY <2>2, <2>5, SocketFacts, WaitingNotWritable DEF Waiting
    <3> DEFINE new == [clnt_socks[fd] EXCEPT !.state = "CLOSE"]
    <3>2. new \in GoodClient /\ new.conn = clnt_socks[fd].conn
      BY <3>1 DEF GoodClient, Client
    <3>3. /\ clnt_socks' = [clnt_socks EXCEPT ![fd] = new]
          /\ readable' = readable \ {fd}
          /\ UNCHANGED <<serv_socks, writable, link, peer, sent, got, seen>>
      BY <2>5 DEF ReceiveEof, kernel, history
    <3> HIDE DEF new
    <3> QED
      BY <2>2, <3>1, <3>2, <3>3, OthersStayReady
  <2> QED
    BY <1>2, <2>1, <2>3, <2>4, <2>5 DEF AcceptFails, ReceiveFails
<1>6. CASE AnyReturn
  <2>1. current \in Fds \ readable /\ Waiting(current)
    BY <1>6, AnyReturnEffect
  <2>2. PICK new \in GoodClient : /\ clnt_socks' = [clnt_socks EXCEPT ![current] = new]
                                  /\ new.conn = clnt_socks[current].conn
    BY <1>6, AnyReturnEffect
  <2>3. /\ pc # "stopped"
        /\ UNCHANGED <<serv_socks, readable, writable, link, peer, sent, got, seen>>
    BY <1>6 DEF AnyReturn, Returned, kernel, history
  <2>4. current \notin writable /\ clnt_socks[current] # Null
    BY <2>1, <2>3, WaitingNotWritable DEF Waiting
  <2>5. /\ current \in Fds /\ UNCHANGED <<serv_socks, seen, link, sent>>
        /\ readable' \subseteq readable \ {current} /\ writable' \subseteq writable \ {current}
        /\ \A c \in Conns \ {ConnAt(current)} : got'[c] = got[c]
        /\ \A c \in Conns : peer'[c] = "open" => peer[c] = "open"
    BY <2>1, <2>3, <2>4
  <2> QED
    BY <2>2, <2>3, <2>4, <2>5, OthersStayReady
<1>7. CASE HandleWriteEvent
  <2>1. PICK fd \in writable : Responding(fd) /\ (SendResponse(fd) \/ SendFails(fd))
    BY <1>7, WriteEventCases
  <2>2. CASE SendResponse(fd)
    <3>1. /\ fd \in Fds /\ clnt_socks[fd] # Null /\ clnt_socks[fd] \in GoodClient
          /\ ConnAt(fd) \in Conns
      BY <1>0, <2>1, SocketFacts DEF Responding, TypeOK
    <3> DEFINE new == [clnt_socks[fd] EXCEPT !.state = "READ"]
    <3>2. new \in GoodClient /\ new.conn = clnt_socks[fd].conn
      BY <3>1 DEF GoodClient, Client
    <3>3. /\ clnt_socks' = [clnt_socks EXCEPT ![fd] = new]
          /\ writable' = writable \ {fd}
          /\ UNCHANGED <<serv_socks, readable, link, sent, got, seen>>
      BY <2>2 DEF SendResponse
    <3>4. \A c \in Conns : peer'[c] = "open" => peer[c] = "open"
      BY <1>0, <2>2, <3>1 DEF SendResponse, TypeOK
    <3>5. readable = {} /\ pc # "stopped"
      BY <1>7 DEF HandleWriteEvent, IInv, RoundsAreComplete
    <3> HIDE DEF new
    <3> QED
      BY <3>1, <3>2, <3>3, <3>4, <3>5, OthersStayReady
  <2> QED
    BY <1>2, <2>1, <2>2 DEF SendFails
<1>8. CASE DestroyClients
  BY <1>8 DEF DestroyClients, IInv, RoundsAreComplete, ReadyStaysReady
<1>9. ASSUME NEW c \in Conns, ClientStep(c) PROVE ReadyStaysReady'
  <2>1. /\ pc # "stopped"
        /\ UNCHANGED <<serv_socks, clnt_socks, readable, writable, seen, got>>
    BY <1>9, ClientStepEffect DEF server, history
  <2>2. \A d \in Conns : link[d] = "backlog" => link'[d] = "backlog"
    BY <1>0, <1>9, ClientStepEffect DEF TypeOK
  <2>3. \A d \in Conns : got[d] < sent[d] => got'[d] < sent'[d]
    <3>1. CASE UNCHANGED sent
      BY <2>1, <3>1
    <3>2. ASSUME NEW to \in Nat, sent[c] < to, sent' = [sent EXCEPT ![c] = to]
          PROVE  \A d \in Conns : got[d] < sent[d] => got'[d] < sent'[d]
      BY <1>0, <2>1, <3>2 DEF TypeOK
    <3> QED
      BY <1>9, <3>1, <3>2, ClientStepEffect
  <2>4. \A d \in Conns : peer[d] # "open" => peer'[d] # "open"
    BY <1>0, <1>9, ClientStepEffect DEF TypeOK
  <2>5. \A fd \in Fds : /\ ConnAt(fd)' = ConnAt(fd)
                        /\ Waiting(fd)' = Waiting(fd) /\ Responding(fd)' = Responding(fd)
                        /\ Pending(fd) => Pending(fd)'
    BY <2>1, <2>2 DEF ConnAt, Waiting, Responding, Pending
  <2>6. \A d \in Conns : IsReadable(d) => IsReadable(d)'
    BY <2>3, <2>4 DEF IsReadable
  <2>7. \A fd \in Fds : Waiting(fd) => ConnAt(fd) \in Conns
    BY SocketFacts DEF Waiting
  <2>8. readable \subseteq Fds /\ writable \subseteq Fds
    BY <1>0 DEF TypeOK
  <2>9. \A fd \in readable :
          IF serv_socks'[fd] = Null
          THEN (Waiting(fd) /\ IsReadable(ConnAt(fd)) /\ ConnAt(fd) = seen[fd])'
          ELSE Pending(fd)'
    <3> SUFFICES ASSUME NEW fd \in readable
                 PROVE  IF serv_socks'[fd] = Null
                        THEN (Waiting(fd) /\ IsReadable(ConnAt(fd)) /\ ConnAt(fd) = seen[fd])'
                        ELSE Pending(fd)'
      OBVIOUS
    <3>1. IF serv_socks[fd] = Null
          THEN Waiting(fd) /\ IsReadable(ConnAt(fd)) /\ ConnAt(fd) = seen[fd]
          ELSE Pending(fd)
      BY <1>0, <2>1 DEF ReadyStaysReady
    <3>2. CASE serv_socks[fd] = Null
      <4>1. IsReadable(ConnAt(fd))'
        BY <2>5, <2>6, <2>7, <2>8, <3>1, <3>2 DEF IsReadable
      <4> QED
        BY <2>1, <2>5, <2>8, <3>1, <3>2, <4>1
    <3>3. CASE serv_socks[fd] # Null
      BY <2>1, <2>5, <2>8, <3>1, <3>3
    <3> QED
      BY <3>2, <3>3
  <2>10. \A fd \in writable : (Responding(fd) /\ ConnAt(fd) = seen[fd])'
    BY <1>0, <2>1, <2>5, <2>8 DEF ReadyStaysReady
  <2> QED
    BY <2>1, <2>9, <2>10 DEF ReadyStaysReady
<1>10. CASE StartRunning \/ ReadEventsDone \/ WriteEventsDone
  BY <1>1, <1>10 DEF StartRunning, ReadEventsDone, WriteEventsDone, kernel, history
<1>11. CASE UNCHANGED vars
  BY <1>0, <1>1, <1>11 DEF vars, server, kernel, history, ReadyStaysReady
<1>12. CASE OpenListenerFails \/ SelectFails \/ AnyEnd
  BY <1>2, <1>12 DEF OpenListenerFails, SelectFails, AnyEnd
<1> QED
  BY <1>3, <1>4, <1>5, <1>6, <1>7, <1>8, <1>9, <1>10, <1>11, <1>12 DEF AnyStep, Loop, Select

-------------------------------------------------------------------------------
(* The rounds of the loop *)

LEMMA StepRounds ==
  ASSUME IInv, [AnyStep]_vars
  PROVE  RoundsAreComplete'
<1>0. RoundsAreComplete /\ TypeOK
  BY DEF IInv, GoodState
<1>1. CASE UNCHANGED <<pc, clnt_socks, readable, writable>>
  BY <1>0, <1>1 DEF RoundsAreComplete, Closing
<1>2. ASSUME NEW reason, Stop(reason) PROVE RoundsAreComplete'
  BY <1>2 DEF Stop, RoundsAreComplete
<1>3. CASE OpenListenerFails \/ SelectFails \/ AnyEnd
  BY <1>2, <1>3 DEF OpenListenerFails, SelectFails, AnyEnd
<1>4. CASE OpenListener \/ UNCHANGED vars \/ \E c \in Conns : ClientStep(c)
  BY <1>1, <1>4, ClientStepEffect DEF OpenListener, vars, server
<1>5. CASE StartRunning
  BY <1>0, <1>5 DEF StartRunning, RoundsAreComplete, Closing
<1>6. CASE SelectReturns
  BY <1>6 DEF SelectReturns, RoundsAreComplete
<1>7. CASE HandleReadEvent
  <2>1. \/ pc' \in {"read", "script"}
        \/ \E reason : Stop(reason)
    <3>1. PICK fd \in readable :
           \/ AcceptConnection(fd) \/ (AcceptFails(fd) /\ FreeFds = {})
           \/ /\ Waiting(fd) /\ IsReadable(ConnAt(fd))
              /\ ReceiveText(fd) \/ ReceiveEof(fd) \/ ReceiveFails(fd)
      BY <1>7, ReadEventCases
    <3>2. pc = "read" /\ fd \in Fds
      BY <1>0, <1>7 DEF HandleReadEvent, TypeOK
    <3>3. Waiting(fd) /\ ReceiveText(fd) => pc' \in {pc, "script"}
      BY <3>2, ReceiveTextEffect
    <3> QED
      BY <3>1, <3>2, <3>3 DEF AcceptConnection, AcceptFails, ReceiveEof, ReceiveFails
  <2> QED
    BY <1>2, <2>1 DEF RoundsAreComplete
<1>8. CASE AnyReturn
  BY <1>8 DEF AnyReturn, Returned, RoundsAreComplete
<1>9. CASE ReadEventsDone
  BY <1>9 DEF ReadEventsDone, RoundsAreComplete
<1>10. CASE HandleWriteEvent
  <2>1. \/ pc' = "write" /\ UNCHANGED readable
        \/ \E reason : Stop(reason)
    <3>1. PICK fd \in writable : Responding(fd) /\ (SendResponse(fd) \/ SendFails(fd))
      BY <1>10, WriteEventCases
    <3> QED
      BY <1>10, <3>1 DEF HandleWriteEvent, SendResponse, SendFails
  <2> QED
    BY <1>0, <1>2, <1>10, <2>1 DEF HandleWriteEvent, RoundsAreComplete
<1>11. CASE WriteEventsDone
  BY <1>0, <1>11 DEF WriteEventsDone, RoundsAreComplete
<1>12. CASE DestroyClients
  <2>1. /\ pc' = "select" /\ readable' = {} /\ writable' = {}
        /\ clnt_socks' = [fd \in Fds |-> IF fd \in Closing THEN Null
                                                           ELSE clnt_socks[fd]]
    BY <1>0, <1>12 DEF DestroyClients, RoundsAreComplete
  <2>2. Closing' = {}
    BY <2>1 DEF Closing
  <2> QED
    BY <2>1, <2>2 DEF RoundsAreComplete
<1> QED
  BY <1>3, <1>4, <1>5, <1>6, <1>7, <1>8, <1>9, <1>10, <1>11, <1>12 DEF AnyStep, Loop, Select

LEMMA StepScript ==
  ASSUME IInv, [AnyStep]_vars
  PROVE  ScriptForRequest'
<1>0. ScriptForRequest /\ GoodState /\ TypeOK
  BY DEF IInv, GoodState
<1>1. CASE UNCHANGED <<pc, clnt_socks, readable, current>>
  BY <1>0, <1>1 DEF ScriptForRequest, Waiting
<1>2. CASE UNCHANGED vars \/ \E c \in Conns : ClientStep(c)
  BY <1>1, <1>2, ClientStepEffect DEF vars, server
<1>3. CASE HandleReadEvent
  <2>1. PICK fd \in readable :
           \/ AcceptConnection(fd) \/ (AcceptFails(fd) /\ FreeFds = {})
           \/ /\ Waiting(fd) /\ IsReadable(ConnAt(fd))
              /\ ReceiveText(fd) \/ ReceiveEof(fd) \/ ReceiveFails(fd)
    BY <1>3, ReadEventCases
  <2>2. fd \in Fds /\ pc = "read"
    BY <1>0, <1>3 DEF HandleReadEvent, TypeOK
  <2>3. CASE Waiting(fd) /\ ReceiveText(fd)
    <3>1. PICK new \in GoodClient :
            /\ clnt_socks' = [clnt_socks EXCEPT ![fd] = new]
            /\ \/ pc' = pc
               \/ /\ pc' = "script" /\ current' = fd
                  /\ new.state = "READ" /\ new.request \in Request
                  /\ RunsScript(new.request)
      BY <2>2, <2>3, ReceiveTextEffect
    <3>2. readable' = readable \ {fd}
      BY <2>3 DEF ReceiveText
    <3>3. clnt_socks'[fd] = new /\ new # Null
      BY <1>0, <2>2, <3>1, NullAssumption DEF TypeOK, GoodClient
    <3> QED
      BY <2>2, <3>1, <3>2, <3>3 DEF ScriptForRequest, Waiting, isWaitingForRequest
  <2>4. CASE ~(Waiting(fd) /\ ReceiveText(fd))
    BY <2>1, <2>2, <2>4
       DEF AcceptConnection, AcceptFails, ReceiveEof, ReceiveFails, Stop, ScriptForRequest
  <2> QED
    BY <2>3, <2>4
<1>4. CASE HandleWriteEvent
  <2>1. pc' # "script"
    BY <1>4, WriteEventCases DEF HandleWriteEvent, SendResponse, SendFails, Stop
  <2> QED
    BY <2>1 DEF ScriptForRequest
<1>5. CASE \/ OpenListener \/ OpenListenerFails \/ StartRunning \/ SelectReturns \/ SelectFails
           \/ AnyReturn \/ AnyEnd
           \/ ReadEventsDone \/ WriteEventsDone \/ DestroyClients
  <2>1. pc' # "script"
    BY <1>5 DEF OpenListener, OpenListenerFails, StartRunning, SelectReturns, SelectFails,
       AnyReturn, Returned, AnyEnd, ReadEventsDone, WriteEventsDone, DestroyClients, Stop
  <2> QED
    BY <2>1 DEF ScriptForRequest
<1> QED
  BY <1>2, <1>3, <1>4, <1>5 DEF AnyStep, Loop, Select

-------------------------------------------------------------------------------
(* The end of the process *)

LEMMA StepCause ==
  ASSUME IInv, [AnyStep]_vars
  PROVE  StopsOnlyForCause'
<1>0. StopsOnlyForCause /\ GoodState /\ TypeOK
  BY DEF IInv, GoodState
<1>1. CASE UNCHANGED vars
  BY <1>0, <1>1 DEF vars, server, kernel, history, StopsOnlyForCause, FreeFds,
     InUse, Waiting, Responding, ConnAt, Fits
<1>2. CASE pc' # "stopped"
  BY <1>2 DEF StopsOnlyForCause
<1>3. CASE OpenListenerFails
  <2>1. CASE Unopened # {} /\ FreeFds = {} /\ Stop("socket")
    BY <2>1 DEF Stop, StopsOnlyForCause, FreeFds, InUse
  <2>2. CASE Unopened \cap Taken # {} /\ Stop("bind")
    BY <2>2 DEF Stop, StopsOnlyForCause, Unopened
  <2> QED
    BY <1>3, <2>1, <2>2 DEF OpenListenerFails
<1>4. CASE pc = "select" /\ SelectFails
  BY <1>4, SelectNeverFails DEF SelectFails
<1>5. CASE HandleReadEvent
  <2>1. PICK fd \in readable :
           \/ AcceptConnection(fd) \/ (AcceptFails(fd) /\ FreeFds = {})
           \/ /\ Waiting(fd) /\ IsReadable(ConnAt(fd))
              /\ ReceiveText(fd) \/ ReceiveEof(fd) \/ ReceiveFails(fd)
    BY <1>5, ReadEventCases
  <2>2. fd \in Fds /\ pc = "read"
    BY <1>0, <1>5 DEF HandleReadEvent, TypeOK
  <2>3. CASE AcceptFails(fd) /\ FreeFds = {}
    BY <2>3 DEF AcceptFails, Stop, StopsOnlyForCause, FreeFds, InUse
  <2>4. CASE Waiting(fd) /\ IsReadable(ConnAt(fd)) /\ ReceiveFails(fd)
    <3> DEFINE c == ConnAt(fd)
    <3>1. c \in Conns /\ link[c] = "accepted"
      BY <2>2, <2>4, SocketFacts DEF Waiting
    <3>2. peer[c] = "reset"
      BY <1>0, <2>4, <3>1 DEF ReceiveFails, IsReadable, HasEof, TypeOK
    <3>3. why' = "recv" /\ link' = link /\ peer' = peer
      BY <2>4 DEF ReceiveFails, Stop, kernel
    <3> HIDE DEF c
    <3> QED
      BY <3>1, <3>2, <3>3 DEF StopsOnlyForCause
  <2>5. Waiting(fd) /\ ReceiveText(fd) => pc' \in {pc, "script"}
    BY <2>2, ReceiveTextEffect
  <2>6. AcceptConnection(fd) \/ ReceiveEof(fd) => pc' = pc
    BY DEF AcceptConnection, ReceiveEof
  <2> QED
    BY <1>2, <2>1, <2>2, <2>3, <2>4, <2>5, <2>6
<1>6. CASE HandleWriteEvent
  <2>1. PICK fd \in writable : Responding(fd) /\ (SendResponse(fd) \/ SendFails(fd))
    BY <1>6, WriteEventCases
  <2>2. CASE SendFails(fd)
    <3>1. fd \in Fds /\ (peer[ConnAt(fd)] = "reset" \/ ~Fits(fd))
      BY <1>0, <2>1, <2>2 DEF SendFails, TypeOK
    <3>2. why' = "send" /\ UNCHANGED <<clnt_socks, peer, unread>>
      BY <2>2 DEF SendFails, Stop, kernel
    <3>3. Responding(fd)' /\ ((peer[ConnAt(fd)])' = "reset" \/ ~Fits(fd)')
      BY <2>1, <3>1, <3>2 DEF Responding, ConnAt, Fits
    <3> QED
      BY <3>1, <3>2, <3>3 DEF StopsOnlyForCause
  <2>3. CASE SendResponse(fd)
    BY <1>2, <1>6, <2>3 DEF HandleWriteEvent, SendResponse
  <2> QED
    BY <2>1, <2>2, <2>3
<1>7. CASE \E c \in Conns : ClientStep(c)
  BY <1>2, <1>7, ClientStepEffect DEF server
<1>9. CASE AnyEnd
  <2>1. Waiting(current) /\ RunsScript(clnt_socks[current].request)
    BY <1>9 DEF AnyEnd, IInv, ScriptForRequest
  <2>2. why' = "script" /\ UNCHANGED <<clnt_socks, current>>
    BY <1>9 DEF AnyEnd, Stop
  <2> QED
    BY <2>1, <2>2 DEF StopsOnlyForCause, Waiting
<1>8. CASE \/ OpenListener \/ StartRunning \/ SelectReturns \/ AnyReturn
           \/ ReadEventsDone \/ WriteEventsDone \/ DestroyClients
  BY <1>2, <1>8 DEF OpenListener, StartRunning, SelectReturns, AnyReturn, Returned,
     ReadEventsDone, WriteEventsDone, DestroyClients
<1> QED
  BY <1>1, <1>3, <1>4, <1>5, <1>6, <1>7, <1>8, <1>9 DEF AnyStep, Loop, Select

-------------------------------------------------------------------------------
(* Theorems *)

LEMMA StepInv == IInv /\ [AnyStep]_vars => IInv'
  BY StepGoodState, StepOneListener, StepOneSocket, StepReady, StepRounds,
     StepScript, StepCause DEF IInv

LEMMA NextIsAnyStep == IInv /\ [Next]_vars => [AnyStep]_vars
<1> SUFFICES ASSUME IInv, ScriptReturns PROVE AnyReturn
  BY DEF Next, AnyStep, AnyEnd, ScriptEndsServer
<1>1. clnt_socks[current].request \in Request
  BY DEF IInv, ScriptForRequest, ScriptReturns
<1> QED
  BY <1>1, StatusCodesType DEF ScriptReturns, AnyReturn

LEMMA SpecInv == Spec => []IInv
  BY InitInv, StepInv, NextIsAnyStep, PTL DEF Spec

(* Every variable keeps to its type: no search of the configuration leaves  *)
(* the vector, every response has a length, no more is received than sent.  *)
THEOREM TypeCorrect == Spec => []TypeOK
<1>1. IInv => TypeOK
  BY DEF IInv, GoodState
<1> QED
  BY <1>1, SpecInv, PTL

(* The connections accepted and not closed are exactly those of clnt_socks_.*)
THEOREM SocketsCorrect == Spec => []OneSocketPerConnection
<1>1. IInv => OneSocketPerConnection
  BY DEF IInv
<1> QED
  BY <1>1, SpecInv, PTL

LEMMA FreshFromInv == IInv => SnapshotFresh
<1> SUFFICES ASSUME IInv, pc \in {"read", "script", "write"}
             PROVE  /\ \A fd \in readable :
                         serv_socks[fd] = Null =>
                           /\ clnt_socks[fd] # Null /\ clnt_socks[fd].state = "READ"
                           /\ clnt_socks[fd].conn = seen[fd]
                    /\ \A fd \in writable :
                         /\ clnt_socks[fd] # Null /\ clnt_socks[fd].state = "WRITE"
                         /\ clnt_socks[fd].conn = seen[fd]
  BY DEF SnapshotFresh
<1> QED
  BY DEF IInv, ReadyStaysReady, Waiting, Responding, isWaitingForRequest,
     canResponse, ConnAt

(* What select() reported is still true when its turn comes.                *)
THEOREM SnapshotsCorrect == Spec => []SnapshotFresh
  BY FreshFromInv, SpecInv, PTL

(* The process ends only for a reason outside its own logic.                *)
THEOREM StopsCorrect == Spec => []StopsOnlyForCause
<1>1. IInv => StopsOnlyForCause
  BY DEF IInv
<1> QED
  BY <1>1, SpecInv, PTL

-------------------------------------------------------------------------------
(* The promise: every step of the process, seen through PhaseOf and OwedTo, *)
(* is a step of RequestResponse or none.                                    *)

(* The mapping, connection by connection *)

\* A connection without a socket is owed nothing.
UnservedView(c) ==
  link[c] # "accepted" =>
    /\ \A fd \in Fds : ConnAt(fd) # c
    /\ PhaseOf(c) = IF link[c] = "closed" THEN "closed" ELSE "none"
    /\ OwedTo(c) = NoResponse

\* The socket of a connection decides what it is owed.
ServedView(c, fd) ==
  /\ link[c] = "accepted"
  /\ PhaseOf(c) = IF Responding(fd) THEN "owing" ELSE "open"
  /\ OwedTo(c) = IF Responding(fd) THEN clnt_socks[fd].response ELSE NoResponse

View ==
  \A c \in Conns :
    /\ UnservedView(c)
    /\ link[c] = "accepted" => \E fd \in Fds : ConnAt(fd) = c
    /\ \A fd \in Fds : ConnAt(fd) = c => ServedView(c, fd)

LEMMA ViewFromInv == IInv => View
<1> SUFFICES ASSUME IInv, NEW c \in Conns
             PROVE  /\ UnservedView(c)
                    /\ link[c] = "accepted" => \E fd \in Fds : ConnAt(fd) = c
                    /\ \A fd \in Fds : ConnAt(fd) = c => ServedView(c, fd)
  BY DEF View
<1>1. link[c] \in {"new", "backlog", "accepted", "closed"}
  BY DEF IInv, GoodState, TypeOK
<1>2. link[c] = "accepted" <=> \E fd \in Fds : ConnAt(fd) = c
  BY DEF IInv, OneSocketPerConnection
<1>3. UnservedView(c)
  BY <1>1, <1>2 DEF UnservedView, PhaseOf, OwedTo, Owing, SocketsOf
<1>4. ASSUME NEW fd \in Fds, ConnAt(fd) = c PROVE ServedView(c, fd)
  <2>1. clnt_socks[fd] # Null
    BY <1>4, NullAssumption DEF ConnAt
  <2>2. SocketsOf(c) = {fd}
    BY <1>4, <2>1, SocketFacts DEF SocketsOf
  <2>3. Owing(c) <=> Responding(fd)
    BY <2>2 DEF Owing
  <2> QED
    BY <1>2, <1>4, <2>2, <2>3 DEF ServedView, PhaseOf, OwedTo
<1> QED
  BY <1>2, <1>3, <1>4

LEMMA ViewFromInvNext == IInv' => View'
  BY ViewFromInv, PTL

-------------------------------------------------------------------------------
(* What a change of sockets changes of the promise *)

LEMMA NothingPromised ==
  ASSUME \A c \in Conns : PhaseOf(c)' = PhaseOf(c) /\ OwedTo(c)' = OwedTo(c),
         UNCHANGED answers, pc # "stopped", pc' # "stopped"
  PROVE  UNCHANGED Promise!vars
  BY DEF Promise!vars

(* Nothing is promised where the sockets and what they owe stay.            *)
LEMMA SocketsStay ==
  ASSUME View, View', TypeOK, TypeOK',
         \A c \in Conns : link'[c] = "accepted" <=> link[c] = "accepted",
         \A c \in Conns : link'[c] = "closed" <=> link[c] = "closed",
         UNCHANGED clnt_socks
  PROVE  \A c \in Conns : PhaseOf(c)' = PhaseOf(c) /\ OwedTo(c)' = OwedTo(c)
<1> SUFFICES ASSUME NEW c \in Conns
             PROVE  PhaseOf(c)' = PhaseOf(c) /\ OwedTo(c)' = OwedTo(c)
  OBVIOUS
<1>1. CASE link[c] = "accepted"
  <2>1. PICK fd \in Fds : ConnAt(fd) = c
    BY <1>1 DEF View
  <2>2. ConnAt(fd)' = c /\ Responding(fd)' = Responding(fd)
    BY <2>1 DEF ConnAt, Responding
  <2>3. ServedView(c, fd) /\ ServedView(c, fd)'
    BY <2>1, <2>2 DEF View
  <2> QED
    BY <2>2, <2>3 DEF ServedView
<1>2. CASE link[c] # "accepted"
  <2>1. UnservedView(c) /\ UnservedView(c)'
    BY DEF View
  <2> QED
    BY <1>2, <2>1 DEF UnservedView
<1> QED
  BY <1>1, <1>2

(* One client is replaced: the promise to the other connections stays.      *)
LEMMA ClientReplaced ==
  ASSUME IInv, IInv', NEW fd \in Fds, clnt_socks[fd] # Null,
         NEW new \in GoodClient, new.conn = clnt_socks[fd].conn,
         clnt_socks' = [clnt_socks EXCEPT ![fd] = new],
         UNCHANGED link
  PROVE  /\ ConnAt(fd) \in Conns
         /\ PhaseOf(ConnAt(fd)) = IF Responding(fd) THEN "owing" ELSE "open"
         /\ OwedTo(ConnAt(fd)) =
              IF Responding(fd) THEN clnt_socks[fd].response ELSE NoResponse
         /\ \A c \in Conns :
              IF c = ConnAt(fd)
              THEN /\ PhaseOf(c)' = IF new.state = "WRITE" THEN "owing" ELSE "open"
                   /\ OwedTo(c)' =
                        IF new.state = "WRITE" THEN new.response ELSE NoResponse
              ELSE PhaseOf(c)' = PhaseOf(c) /\ OwedTo(c)' = OwedTo(c)
<1>1. View /\ View'
  BY ViewFromInv, ViewFromInvNext
<1>2. \A other \in Fds : ConnAt(other)' = ConnAt(other)
  BY ConnKept
<1>3. ConnAt(fd) \in Conns
  BY SocketFacts
<1>4. ServedView(ConnAt(fd), fd)
  BY <1>1, <1>3 DEF View
<1>5. clnt_socks'[fd] = new /\ \A other \in Fds \ {fd} : clnt_socks'[other] = clnt_socks[other]
  BY DEF IInv, GoodState, TypeOK
<1>6. Responding(fd)' <=> new.state = "WRITE"
  BY <1>5, NullAssumption DEF Responding, canResponse, GoodClient
<1>7. ASSUME NEW c \in Conns, c = ConnAt(fd)
      PROVE  /\ PhaseOf(c)' = IF new.state = "WRITE" THEN "owing" ELSE "open"
             /\ OwedTo(c)' = IF new.state = "WRITE" THEN new.response ELSE NoResponse
  <2>1. ServedView(c, fd)'
    BY <1>1, <1>2, <1>7 DEF View
  <2> QED
    BY <1>5, <1>6, <2>1 DEF ServedView
<1>8. ASSUME NEW c \in Conns, c # ConnAt(fd)
      PROVE  PhaseOf(c)' = PhaseOf(c) /\ OwedTo(c)' = OwedTo(c)
  <2>1. CASE link[c] = "accepted"
    <3>1. PICK other \in Fds : ConnAt(other) = c
      BY <1>1, <2>1 DEF View
    <3>2. other # fd /\ Responding(other)' = Responding(other)
      BY <1>5, <1>8, <3>1 DEF Responding
    <3>3. ServedView(c, other) /\ ServedView(c, other)'
      BY <1>1, <1>2, <3>1 DEF View
    <3> QED
      BY <1>5, <3>2, <3>3 DEF ServedView
  <2>2. CASE link[c] # "accepted"
    <3>1. UnservedView(c) /\ UnservedView(c)'
      BY <1>1 DEF View
    <3> QED
      BY <2>2, <3>1 DEF UnservedView
  <2> QED
    BY <2>1, <2>2
<1> QED
  BY <1>3, <1>4, <1>7, <1>8 DEF ServedView

-------------------------------------------------------------------------------
(* The steps of the promise *)

LEMMA StopEnds ==
  ASSUME NEW reason, pc # "stopped", Stop(reason)
  PROVE  Promise!Next
<1>1. \A c \in Conns : PhaseOf(c)' = PhaseOf(c) /\ OwedTo(c)' = OwedTo(c)
  BY DEF Stop, kernel, PhaseOf, OwedTo, Owing, SocketsOf, Responding, ConnAt
<1>2. UNCHANGED answers /\ pc' = "stopped"
  BY DEF Stop, history
<1> QED
  BY <1>1, <1>2 DEF Promise!Next, Promise!End

(* A response that was built is owed from then on.                          *)
LEMMA ResponseDecided ==
  ASSUME IInv, IInv', NEW fd \in Fds, Waiting(fd),
         NEW new \in GoodClient, new.conn = clnt_socks[fd].conn,
         new.state = "WRITE",
         clnt_socks' = [clnt_socks EXCEPT ![fd] = new],
         UNCHANGED <<link, answers>>, pc # "stopped", pc' # "stopped"
  PROVE  Promise!Next
<1>1. clnt_socks[fd] # Null /\ ~Responding(fd)
  BY DEF Waiting, Responding, isWaitingForRequest, canResponse
<1>2. PICK c \in Conns : c = ConnAt(fd) /\ PhaseOf(c) = "open"
  BY <1>1, ClientReplaced
<1>3. PhaseOf(c)' = "owing" /\ OwedTo(c)' = new.response
  BY <1>1, <1>2, ClientReplaced
<1>4. \A d \in Conns \ {c} : PhaseOf(d)' = PhaseOf(d) /\ OwedTo(d)' = OwedTo(d)
  BY <1>1, <1>2, ClientReplaced
<1>5. new.response \in Response
  BY DEF GoodClient, GoodResponse
<1>6. Promise!Decide(c)
  BY <1>2, <1>3, <1>4, <1>5 DEF Promise!Decide
<1> QED
  BY <1>2, <1>6 DEF Promise!Next

(* Reading without an answer promises nothing.                              *)
LEMMA NothingDecided ==
  ASSUME IInv, IInv', NEW fd \in Fds, Waiting(fd),
         NEW new \in GoodClient, new.conn = clnt_socks[fd].conn,
         new.state # "WRITE",
         clnt_socks' = [clnt_socks EXCEPT ![fd] = new],
         UNCHANGED <<link, answers>>, pc # "stopped", pc' # "stopped"
  PROVE  UNCHANGED Promise!vars
<1>1. clnt_socks[fd] # Null /\ ~Responding(fd)
  BY DEF Waiting, Responding, isWaitingForRequest, canResponse
<1>2. \A c \in Conns : PhaseOf(c)' = PhaseOf(c) /\ OwedTo(c)' = OwedTo(c)
  BY <1>1, ClientReplaced
<1> QED
  BY <1>2, NothingPromised

LEMMA AcceptOpens ==
  ASSUME IInv, IInv', NEW fd, AcceptConnection(fd), pc # "stopped"
  PROVE  Promise!Next
<1>1. PICK c \in Conns, new \in FreeFds :
        /\ link[c] = "backlog"
        /\ clnt_socks' = [clnt_socks EXCEPT ![new] = NewClient(c, serv_socks[fd])]
        /\ link' = [link EXCEPT ![c] = "accepted"]
  BY DEF AcceptConnection, IsLowest
<1>2. UNCHANGED <<pc, answers>>
  BY DEF AcceptConnection, history
<1>3. View /\ View' /\ TypeOK /\ TypeOK'
  BY ViewFromInv, ViewFromInvNext DEF IInv, GoodState
<1>4. new \in Fds /\ clnt_socks[new] = Null
  BY <1>1 DEF FreeFds, InUse
<1>5. clnt_socks'[new] = NewClient(c, serv_socks[fd])
  BY <1>1, <1>3, <1>4 DEF TypeOK
<1>6. clnt_socks'[new] # Null /\ ConnAt(new)' = c /\ ~Responding(new)'
  <2>1. ConnAt(new)' \in {Null, c}
    BY <1>5 DEF ConnAt, NewClient
  <2>2. link'[c] = "accepted"
    BY <1>1, <1>3 DEF TypeOK
  <2>3. clnt_socks'[new] # Null
    <3>1. PICK other \in Fds : ConnAt(other)' = c
      BY <1>3, <2>2 DEF View
    <3>2. \A one \in Fds : ConnAt(one) # c
      BY <1>1, <1>3 DEF View, UnservedView
    <3>3. other = new
      BY <1>1, <1>3, <3>1, <3>2 DEF ConnAt, TypeOK
    <3> QED
      BY <3>1, <3>3, NullAssumption DEF ConnAt
  <2> QED
    BY <1>5, <2>1, <2>3, NullAssumption DEF ConnAt, NewClient, Responding, canResponse
<1>7. \A other \in Fds \ {new} : /\ ConnAt(other)' = ConnAt(other)
                                 /\ clnt_socks'[other] = clnt_socks[other]
  BY <1>1, <1>3 DEF ConnAt, TypeOK
<1>8. /\ PhaseOf(c) = "none" /\ OwedTo(c) = NoResponse
      /\ PhaseOf(c)' = "open" /\ OwedTo(c)' = NoResponse
  BY <1>1, <1>3, <1>4, <1>6 DEF View, UnservedView, ServedView
<1>9. ASSUME NEW d \in Conns \ {c}
      PROVE  PhaseOf(d)' = PhaseOf(d) /\ OwedTo(d)' = OwedTo(d)
  <2>1. link'[d] = link[d]
    BY <1>1, <1>3 DEF TypeOK
  <2>2. CASE link[d] = "accepted"
    <3>1. PICK other \in Fds : ConnAt(other) = d
      BY <1>3, <2>2 DEF View
    <3>2. other # new
      BY <1>4, <3>1, NullAssumption DEF ConnAt
    <3>3. ServedView(d, other) /\ ServedView(d, other)'
      BY <1>3, <1>7, <3>1, <3>2 DEF View
    <3> QED
      BY <1>7, <3>2, <3>3 DEF ServedView, Responding
  <2>3. CASE link[d] # "accepted"
    <3>1. UnservedView(d) /\ UnservedView(d)'
      BY <1>3 DEF View
    <3> QED
      BY <2>1, <2>3, <3>1 DEF UnservedView
  <2> QED
    BY <2>2, <2>3
<1>10. Promise!Open(c)
  BY <1>2, <1>8, <1>9 DEF Promise!Open
<1> QED
  BY <1>10 DEF Promise!Next

(* A response is sent as it was built, and no longer owed.                  *)
LEMMA SendDelivers ==
  ASSUME IInv, IInv', NEW fd \in Fds, Responding(fd), SendResponse(fd), pc # "stopped"
  PROVE  Promise!Next
<1> DEFINE new == [clnt_socks[fd] EXCEPT !.state = "READ"]
<1>1. clnt_socks[fd] # Null /\ clnt_socks[fd] \in GoodClient
  BY SocketFacts DEF Responding
<1>2. new \in GoodClient /\ new.conn = clnt_socks[fd].conn /\ new.state = "READ"
  BY <1>1 DEF GoodClient, Client
<1>3. clnt_socks' = [clnt_socks EXCEPT ![fd] = new] /\ UNCHANGED <<pc, link>>
  BY DEF SendResponse
<1> HIDE DEF new
<1>4. PICK c \in Conns : /\ c = ConnAt(fd)
                         /\ PhaseOf(c) = "owing" /\ OwedTo(c) = clnt_socks[fd].response
  BY <1>1, <1>2, <1>3, ClientReplaced
<1>5. /\ PhaseOf(c)' = "open" /\ OwedTo(c)' = NoResponse
      /\ \A d \in Conns \ {c} : PhaseOf(d)' = PhaseOf(d) /\ OwedTo(d)' = OwedTo(d)
  BY <1>1, <1>2, <1>3, <1>4, ClientReplaced
<1>6. answers' = [answers EXCEPT ![c] = Append(@, clnt_socks[fd].response)]
  BY <1>4 DEF SendResponse
<1>7. Promise!Deliver(c)
  BY <1>3, <1>4, <1>5, <1>6 DEF Promise!Deliver
<1> QED
  BY <1>7 DEF Promise!Next

(* Only connections that are owed nothing are closed.                       *)
LEMMA DestroyCloses ==
  ASSUME IInv, IInv', DestroyClients
  PROVE  [Promise!Next]_(Promise!vars)
<1> DEFINE C == {c \in Conns : \E fd \in Closing : ConnAt(fd) = c}
<1>1. View /\ View' /\ TypeOK
  BY ViewFromInv, ViewFromInvNext DEF IInv, GoodState
<1>2. /\ \A c \in Conns : link'[c] = IF c \in C THEN "closed" ELSE link[c]
      /\ pc # "stopped" /\ pc' # "stopped" /\ UNCHANGED answers
  BY DEF DestroyClients, history
<1>3. ASSUME NEW c \in C
      PROVE  /\ PhaseOf(c) = "open" /\ OwedTo(c) = NoResponse
             /\ PhaseOf(c)' = "closed" /\ OwedTo(c)' = NoResponse
  <2>1. PICK fd \in Closing : ConnAt(fd) = c
    OBVIOUS
  <2>2. fd \in Fds /\ ~Responding(fd)
    BY DEF Closing, Responding, shouldClose, canResponse
  <2>3. ServedView(c, fd) /\ UnservedView(c)'
    BY <1>1, <2>1, <2>2 DEF View
  <2> QED
    BY <1>2, <2>2, <2>3 DEF ServedView, UnservedView
<1>4. ASSUME NEW c \in Conns \ C
      PROVE  PhaseOf(c)' = PhaseOf(c) /\ OwedTo(c)' = OwedTo(c)
  <2>1. link'[c] = link[c]
    BY <1>2
  <2>2. CASE link[c] = "accepted"
    <3>1. PICK fd \in Fds : ConnAt(fd) = c
      BY <1>1, <2>2 DEF View
    <3>2. fd \notin Closing
      BY <3>1
    <3>3. clnt_socks'[fd] = clnt_socks[fd]
      BY <3>2 DEF DestroyClients
    <3>4. ConnAt(fd)' = c /\ Responding(fd)' = Responding(fd)
      BY <3>1, <3>3 DEF ConnAt, Responding
    <3>5. ServedView(c, fd) /\ ServedView(c, fd)'
      BY <1>1, <3>1, <3>4 DEF View
    <3> QED
      BY <3>3, <3>4, <3>5 DEF ServedView
  <2>3. CASE link[c] # "accepted"
    <3>1. UnservedView(c) /\ UnservedView(c)'
      BY <1>1 DEF View
    <3> QED
      BY <2>1, <2>3, <3>1 DEF UnservedView
  <2> QED
    BY <2>2, <2>3
<1> HIDE DEF C
<1>5. CASE C = {}
  BY <1>2, <1>4, <1>5, NothingPromised
<1>6. CASE C # {}
  <2>1. C \in SUBSET Conns
    BY DEF C
  <2>2. Promise!Close(C)
    BY <1>2, <1>3, <1>4, <1>6, <2>1 DEF Promise!Close
  <2> QED
    BY <2>1, <2>2 DEF Promise!Next
<1> QED
  BY <1>5, <1>6

LEMMA StepKeepsPromise ==
  ASSUME IInv, IInv', [AnyStep]_vars
  PROVE  [Promise!Next]_(Promise!vars)
<1>0. View /\ View' /\ TypeOK /\ TypeOK'
  BY ViewFromInv, ViewFromInvNext DEF IInv, GoodState
<1>1. CASE UNCHANGED vars
  <2>1. \A c \in Conns : PhaseOf(c)' = PhaseOf(c) /\ OwedTo(c)' = OwedTo(c)
    BY <1>0, <1>1, SocketsStay DEF vars, server, kernel
  <2> QED
    BY <1>1, <2>1 DEF vars, server, history, Promise!vars
<1>2. ASSUME UNCHANGED <<clnt_socks, link, answers>>, pc # "stopped", pc' # "stopped"
      PROVE  UNCHANGED Promise!vars
  <2>1. \A c \in Conns : PhaseOf(c)' = PhaseOf(c) /\ OwedTo(c)' = OwedTo(c)
    BY <1>0, <1>2, SocketsStay
  <2> QED
    BY <1>2, <2>1, NothingPromised
<1>3. CASE \/ OpenListener \/ StartRunning \/ ReadEventsDone \/ WriteEventsDone
           \/ pc = "select" /\ SelectReturns
  BY <1>2, <1>3 DEF OpenListener, StartRunning, ReadEventsDone, WriteEventsDone,
     SelectReturns, kernel, history
<1>4. CASE OpenListenerFails \/ (pc = "select" /\ SelectFails) \/ AnyEnd
  BY <1>4, StopEnds DEF OpenListenerFails, SelectFails, AnyEnd
<1>5. CASE HandleReadEvent
  <2>0. pc = "read" /\ readable \subseteq Fds
    BY <1>0, <1>5 DEF HandleReadEvent, TypeOK
  <2>1. PICK fd \in readable :
           \/ AcceptConnection(fd) \/ (AcceptFails(fd) /\ FreeFds = {})
           \/ /\ Waiting(fd) /\ IsReadable(ConnAt(fd))
              /\ ReceiveText(fd) \/ ReceiveEof(fd) \/ ReceiveFails(fd)
    BY <1>5, ReadEventCases
  <2>2. CASE AcceptConnection(fd)
    BY <2>0, <2>2, AcceptOpens
  <2>3. CASE AcceptFails(fd) \/ ReceiveFails(fd)
    BY <2>0, <2>3, StopEnds DEF AcceptFails, ReceiveFails
  <2>4. CASE Waiting(fd) /\ ReceiveText(fd)
    <3>1. PICK new \in GoodClient :
            /\ clnt_socks' = [clnt_socks EXCEPT ![fd] = new]
            /\ new.conn = clnt_socks[fd].conn
            /\ pc' \in {pc, "script"}
      BY <2>0, <2>4, ReceiveTextEffect
    <3>2. UNCHANGED <<link, answers>>
      BY <2>4 DEF ReceiveText, history
    <3>3. CASE new.state = "WRITE"
      BY <2>0, <2>4, <3>1, <3>2, <3>3, ResponseDecided
    <3>4. CASE new.state # "WRITE"
      BY <2>0, <2>4, <3>1, <3>2, <3>4, NothingDecided
    <3> QED
      BY <3>3, <3>4
  <2>5. CASE Waiting(fd) /\ ReceiveEof(fd)
    <3> DEFINE new == [clnt_socks[fd] EXCEPT !.state = "CLOSE"]
    <3>1. new \in GoodClient /\ new.conn = clnt_socks[fd].conn /\ new.state = "CLOSE"
      BY <2>0, <2>5, SocketFacts DEF Waiting, GoodClient, Client
    <3>2. /\ clnt_socks' = [clnt_socks EXCEPT ![fd] = new]
          /\ UNCHANGED <<pc, link, answers>>
      BY <2>5 DEF ReceiveEof, kernel, history
    <3> HIDE DEF new
    <3> QED
      BY <2>0, <2>5, <3>1, <3>2, NothingDecided
  <2> QED
    BY <2>1, <2>2, <2>3, <2>4, <2>5
<1>6. CASE AnyReturn
  <2>1. PICK new \in GoodClient :
          /\ clnt_socks' = [clnt_socks EXCEPT ![current] = new]
          /\ new.conn = clnt_socks[current].conn /\ new.state = "WRITE"
    BY <1>6, AnyReturnEffect
  <2>2. current \in Fds /\ Waiting(current)
    BY <1>6, AnyReturnEffect
  <2>3. pc # "stopped" /\ pc' # "stopped" /\ UNCHANGED <<link, answers>>
    BY <1>6 DEF AnyReturn, Returned, kernel, history
  <2>4. PICK fd \in Fds : fd = current
    BY <2>2
  <2> QED
    BY <2>1, <2>2, <2>3, <2>4, ResponseDecided
<1>7. CASE HandleWriteEvent
  <2>0. pc = "write" /\ writable \subseteq Fds
    BY <1>0, <1>7 DEF HandleWriteEvent, TypeOK
  <2>1. PICK fd \in writable : Responding(fd) /\ (SendResponse(fd) \/ SendFails(fd))
    BY <1>7, WriteEventCases
  <2>2. CASE SendResponse(fd)
    BY <2>0, <2>1, <2>2, SendDelivers
  <2>3. CASE SendFails(fd)
    BY <2>0, <2>3, StopEnds DEF SendFails
  <2> QED
    BY <2>1, <2>2, <2>3
<1>8. CASE DestroyClients
  BY <1>8, DestroyCloses
<1>9. ASSUME NEW c \in Conns, ClientStep(c) PROVE UNCHANGED Promise!vars
  <2>1. UNCHANGED <<pc, clnt_socks, answers>> /\ pc # "stopped"
    BY <1>9, ClientStepEffect DEF server, history
  <2>2. CASE link[c] = "new" /\ link' = [link EXCEPT ![c] = "backlog"]
    <3>1. \A d \in Conns : /\ link'[d] = "accepted" <=> link[d] = "accepted"
                           /\ link'[d] = "closed" <=> link[d] = "closed"
      BY <1>0, <2>2 DEF TypeOK
    <3>2. \A d \in Conns : PhaseOf(d)' = PhaseOf(d) /\ OwedTo(d)' = OwedTo(d)
      BY <1>0, <2>1, <3>1, SocketsStay
    <3> QED
      BY <2>1, <3>2, NothingPromised
  <2> QED
    BY <1>2, <1>9, <2>1, <2>2, ClientStepEffect
<1> QED
  BY <1>1, <1>3, <1>4, <1>5, <1>6, <1>7, <1>8, <1>9 DEF AnyStep, Loop, Select

LEMMA InitKeepsPromise == Init => Promise!Init
<1> SUFFICES ASSUME Init PROVE Promise!Init
  OBVIOUS
<1>1. \A c \in Conns : PhaseOf(c) = "none" /\ OwedTo(c) = NoResponse
  BY NullAssumption
     DEF Init, PhaseOf, OwedTo, Owing, SocketsOf, Responding, ConnAt
<1> QED
  BY <1>1 DEF Init, Promise!Init

(* A response that was built is sent as it is, once, before the connection  *)
(* is read again or closed; nothing else is sent.                           *)
THEOREM PromiseKept == Spec => KeepsPromise
<1>1. IInv /\ IInv' /\ [Next]_vars => [Promise!Next]_(Promise!vars)
  BY NextIsAnyStep, StepKeepsPromise
<1> QED
  BY <1>1, InitKeepsPromise, SpecInv, PTL DEF Spec, KeepsPromise, Promise!SafeSpec
===============================================================================
