-------------------------- MODULE HttpRequestParser --------------------------
(***************************************************************************)
(* src/request/HttpRequestParser and the parsers it calls, as operators on *)
(* a record holding the parser's members.                                  *)
(*                                                                         *)
(* Text is a sequence of pieces.  A piece is a run of bytes that the       *)
(* parser's decisions do not look into; CRLF CRLF, a blank line, is in     *)
(* "fields", "crlf" and "last" and in no other, and none begins with CRLF: *)
(*   "line"    the start of a header: the request line                     *)
(*   "fields"  the rest of that header, with its blank line; no line of a  *)
(*             header is a number                                          *)
(* and a unit of content, which under chunked framing is a chunk           *)
(*   "data"    whose size line tells the truth, without CRLF in its data   *)
(*   "split"   whose size line tells the truth, with CRLF in its data      *)
(*   "crlf"    the same, with 0 CRLF CRLF in it                            *)
(*   "bad"     two lines, the first no number, or not the length of the    *)
(*             second                                                      *)
(*   "last"    the last one, 0 CRLF CRLF                                   *)
(*   "zero"    a line 0, and one that is not blank                         *)
(*   "nul"     with a NUL byte in it                                       *)
(*   "cut"     what is left of a "nul" unit in front of its NUL; the bytes *)
(*             that follow it are joined to it, whatever they are          *)
(* Every piece knows the request it belongs to and its position in the     *)
(* stream of its connection; the code sees neither, the properties do.     *)
(* One piece is one unit of length.                                        *)
(***************************************************************************)
EXTENDS WebservConfig

CONSTANTS
  Requests,    \* the requests clients send
  Header,       \* what the header of a request says, a record each
  MaxHeader,   \* kMaxHeaderLength, in pieces
  MaxBody,     \* kMaxBodyLength, in pieces
  SizeRange    \* number of values of a size_t

Codes == {"none", "200", "400", "403", "404", "413", "431", "500", "505"}

HeaderFields ==
  [code    : Codes \ {"none"},   \* "200", or how RequestHeaderParser refuses it
   slash   : BOOLEAN,            \* the path has a '/' in it
   chunked : BOOLEAN,            \* transferEncodingIsChunked()
   length  : Int,                \* Content-Length, 0 when there is none
   numeric : BOOLEAN,            \* std::stoi can read the Content-Length
   host    : Hosts,
   cgi     : BOOLEAN,            \* answered by a script
   fatal   : BOOLEAN,            \* ... which may end the server (module CGI)
   outcome : SUBSET Codes,       \* what HttpResponseBuilder may answer
   size    : Nat]                \* length of the answer when it is "200"

Kinds ==
  {"line", "fields", "data", "split", "crlf", "bad", "last", "zero", "nul", "cut"}
Piece == [req : Requests, kind : Kinds, pos : Nat]

ASSUME HeaderAssumption == Header \in [Requests -> HeaderFields]
ASSUME LimitsAssumption ==
  /\ MaxHeader \in Nat /\ MaxBody \in Nat
  /\ SizeRange \in Nat /\ SizeRange > MaxBody

CONSTANT NoHeader    \* parsed_header_ before a header was parsed
ASSUME NoHeaderAssumption == NoHeader \notin Piece

\* parsed_header_ is named by the request line it was parsed from.
Headers == Piece \cup {NoHeader}
Parser ==
  [status  : {"HEADER", "BODY", "CHUNKED", "DONE", "ERROR"},
   header  : Headers,
   body    : Seq(Piece),
   chunked : Seq(Piece),
   conf    : Confs,
   code    : Codes]

Request ==
  [header : Headers, body : Seq(Piece), conf : Confs, code : Codes]

NewParser ==
  [status |-> "HEADER", header |-> NoHeader, body |-> <<>>, chunked |-> <<>>,
   conf |-> NoConf, code |-> "none"]

finished(p) == p.status = "DONE"
errorOccured(p) == p.status = "ERROR"

\* (mutants) parse() forgets clear(); clear() forgets chunked_request_
NotCleared(p) == p
ClearedButChunks(p) == [NewParser EXCEPT !.conf = p.conf, !.chunked = p.chunked]

\* clear() leaves serv_config_ as the previous request set it.
clear(p) == [NewParser EXCEPT !.conf = p.conf]

\* The two catch blocks of parse().
Failed(p, code) == [p EXCEPT !.status = "ERROR", !.code = code]

\* The places where CRLF CRLF is found; the first one ends the header.
HeaderEnds(text) ==
  {i \in DOMAIN text : text[i].kind \in {"fields", "crlf", "last"}}
findHeaderEnd(text) == First(HeaderEnds(text))
fetchUnparsedHeader(text) == SubSeq(text, 1, findHeaderEnd(text))
fetchUnparsedBody(text) == SubSeq(text, findHeaderEnd(text) + 1, Len(text))

\* The text in front of the first blank line is a header only when it is both
\* pieces of one; anything else has no readable request line.
IsHeader(text) ==
  /\ Len(text) = 2
  /\ text[1].kind = "line" /\ text[2].kind = "fields"
  /\ text[2].req = text[1].req /\ text[2].pos = text[1].pos + 1

\* What RequestHeaderParser refuses an unreadable text with (see the module of
\* that name): 431 when it is too long, before it is looked at; 500 when
\* substr() throws.
GarbageCodes(text) == IF Len(text) > MaxHeader THEN {"431"} ELSE {"400", "500"}

\* The `if (parse_status_ == PARSE_HEADER)` block.  parsed_header_ is assigned
\* only when RequestHeaderParser returns.
parseRequestHeader(p, text, port) ==
  IF HeaderEnds(text) = {} THEN {Failed(p, "400")}
  ELSE IF ~IsHeader(fetchUnparsedHeader(text))
    THEN {Failed(p, code) : code \in GarbageCodes(fetchUnparsedHeader(text))}
  ELSE LET head == Header[text[1].req] IN
    IF head.code # "200" THEN {Failed(p, head.code)}
    ELSE {[p EXCEPT !.header = text[1],
                    !.conf = findServerConfig(port, head.host),
                    !.status = IF head.chunked THEN "CHUNKED" ELSE "BODY"]}

\* contentLength() returns the int of std::stoi as a size_t.
contentLength(head) == head.length % SizeRange

\* Bytes of a received text: a unit that a NUL cut short, always the last one
\* of a text, is less than a unit.
Size(text) ==
  IF text # <<>> /\ text[Len(text)].kind = "cut" THEN Len(text) - 1 ELSE Len(text)

parseBody(p, text) ==
  LET head == Header[p.header.req]
      rest == fetchUnparsedBody(text)
  IN  IF ~head.numeric THEN {Failed(p, "500")}
      ELSE IF contentLength(head) > MaxBody THEN {Failed(p, "413")}
      ELSE IF Size(rest) < contentLength(head) THEN {Failed(p, "400")}
      ELSE {[p EXCEPT !.status = "DONE",
                      !.body = SubSeq(rest, 1, contentLength(head))]}

\* (mutant) the loop goes on behind a line 0 that is not the last
ZeroPassed(p, rest) ==
  LET stop == First({i \in DOMAIN rest : rest[i].kind \notin {"data", "zero"}})
  IN  {[p EXCEPT !.status = "DONE", !.body = SubSeq(rest, 1, stop - 1)]}

\* The loop of MessageBodyParser takes a line for the size and a line for the
\* data.  The first piece that is not a chunk of two such lines decides: a size
\* of 0 ends the body whatever follows it, and data with a CRLF in it is shorter,
\* up to there, than its size.  Lines that a NUL has joined may be refused or be
\* chunks again, and what was read from there on has any length.
parseChunkedBody(p, rest) ==
  LET stop == First({i \in DOMAIN rest : rest[i].kind # "data"})
      Refused(codes) == {Failed(p, code) : code \in codes}
      Done(n) == [p EXCEPT !.status = "DONE", !.body = SubSeq(rest, 1, n)]
  IN  IF Len(rest) > MaxBody THEN Refused({"413"})
      ELSE IF rest[stop].kind \in {"last", "zero"} THEN {Done(stop - 1)}
      ELSE IF rest[stop].kind \in {"split", "crlf"} THEN Refused({"400"})
      ELSE IF rest[stop].kind = "cut"
        THEN Refused({"400", "500"}) \cup {Done(n) : n \in (stop - 1)..Len(rest)}
      ELSE Refused({"400", "500"})

\* 0 CRLF CRLF is searched for behind the header: where it is found, and where
\* it may be.
HasTerminator(rest) == \E i \in DOMAIN rest : rest[i].kind \in {"last", "crlf"}
MayTerminate(rest) ==
  HasTerminator(rest) \/ \E i \in DOMAIN rest : rest[i].kind = "fields"

\* The `if (parse_status_ == PARSE_CHUNKED_BODY)` block.
collectChunks(p, text) ==
  LET q == [p EXCEPT !.chunked = @ \o text]
      rest == fetchUnparsedBody(q.chunked)
  IN  IF Len(q.chunked) > MaxHeader + MaxBody THEN {Failed(q, "413")}
      ELSE (IF MayTerminate(rest) THEN parseChunkedBody(q, rest) ELSE {})
             \cup (IF HasTerminator(rest) THEN {} ELSE {q})

\* The parsers that parse() can leave behind; more than one only where the
\* status of an unreadable text depends on its bytes.
parse(p, text, port) ==
  LET fresh == IF finished(p) \/ errorOccured(p) THEN clear(p) ELSE p
      headed == IF fresh.status = "HEADER"
                THEN parseRequestHeader(fresh, text, port) ELSE {fresh}
  IN  UNION { IF q.status = "BODY" THEN parseBody(q, text)
              ELSE IF q.status = "CHUNKED" THEN collectChunks(q, text)
              ELSE {q} : q \in headed }

buildRequest(p) ==
  [header |-> p.header, body |-> p.body, conf |-> p.conf,
   code |-> IF errorOccured(p) THEN p.code ELSE "200"]
=============================================================================
