----------------------------- MODULE ClientSocket -----------------------------
(***************************************************************************)
(* src/server/ClientSocket: one accepted connection, its parser, and the   *)
(* request and response it holds.  The event loop that calls it is module  *)
(* Server.                                                                 *)
(***************************************************************************)
EXTENDS HttpRequestParser

CONSTANTS
  Conns,       \* connections, as the kernel tells them apart
  NoRequest,   \* current_request_ is NULL
  NoResponse   \* current_response_ is NULL

ASSUME NoRequestAssumption == NoRequest \notin Request

\* What a response was made from, and its status.  conf is the server block
\* that HttpResponseBuilder was given.
Response == [code : Codes, conf : Confs, request : Request]

ASSUME NoResponseAssumption == NoResponse \notin Response

\* conn is no member of the class: it is the connection fd_ stands for.
Client ==
  [conn     : Conns,
   port     : ports,
   state    : {"READ", "WRITE", "CLOSE"},
   parser   : Parser,
   request  : Request \cup {NoRequest},
   response : Response \cup {NoResponse}]

NewClient(conn, port) ==
  [conn |-> conn, port |-> port, state |-> "READ", parser |-> NewParser,
   request |-> NoRequest, response |-> NoResponse]

isWaitingForRequest(client) == client.state = "READ"
canResponse(client) == client.state = "WRITE"
shouldClose(client) == client.state = "CLOSE"

\* parse() takes a std::string made from a char pointer: the text ends at the
\* first NUL, and of the unit that holds it something is left in front.
Nuls(text) == {i \in DOMAIN text : text[i].kind = "nul"}
CString(text) ==
  IF Nuls(text) = {} THEN text
  ELSE LET z == First(Nuls(text))
       IN  Append(SubSeq(text, 1, z - 1), [text[z] EXCEPT !.kind = "cut"])

\* The clients that generateRequest can leave behind for a received buffer.
\* (The text is bound by a set, so that TLC computes it once.)
generateRequest(client, buffer) ==
  UNION { { [client EXCEPT !.parser = p,
                           !.request = IF finished(p) \/ errorOccured(p)
                                       THEN buildRequest(p) ELSE @] :
            p \in parse(client.parser, text, client.port) } :
          text \in {CString(buffer)} }

\* (mutant) only a finished request is answered
OnlyFinished(client) == finished(client.parser)

\* What handleReadEvent tests after generateRequest.
RequestReady(client) == finished(client.parser) \/ errorOccured(client.parser)

\* current_request_->header.host()
HostOf(request) ==
  IF request.header = NoHeader THEN NoHost ELSE Header[request.header.req].host

\* HttpResponseBuilder::build takes the path apart before it looks at the
\* status of the request: without a '/' in it the answer is 500.
HasPath(request) ==
  request.header # NoHeader /\ Header[request.header.req].slash

\* The statuses build() may answer with.
StatusCodes(request) ==
  IF ~HasPath(request) THEN {"500"}
  ELSE IF request.code # "200" THEN {request.code}
  ELSE Header[request.header.req].outcome

\* build() runs a script, and does not return before the script has answered.
RunsScript(request) ==
  HasPath(request) /\ request.code = "200" /\ Header[request.header.req].cgi

\* generateResponse, and the assignment that follows it in handleReadEvent.
Answered(client, code) ==
  [client EXCEPT
     !.response = [code |-> code,
                   conf |-> findServerConfig(client.port, HostOf(client.request)),
                   request |-> client.request],
     !.state = "WRITE"]

\* Length of the response on the wire.
ErrorSize == 1
SizeOf(response) ==
  IF response.code = "200" THEN Header[response.request.header.req].size
                           ELSE ErrorSize
=============================================================================
