-------------------------------- MODULE Server --------------------------------
(***************************************************************************)
(* The event loop of src/server: Server::run with the Selector, the        *)
(* listening sockets and the client sockets, together with the part of the *)
(* kernel and the clients it talks to.                                     *)
(*                                                                         *)
(* The process has one thread; an action handles one file descriptor, and  *)
(* clients and kernel take steps between any two actions.                  *)
(*                                                                         *)
(* A connection carries a stream of pieces that is fixed in advance        *)
(* (Stream).  How much of it was sent and how much was received are        *)
(* counters, so it travels in any segments that Cuts allows.               *)
(***************************************************************************)
EXTENDS ClientSocket, FiniteSets

CONSTANTS
  Null,      \* no socket under this descriptor
  MaxFd,     \* descriptors are 1 .. MaxFd (RLIMIT_NOFILE)
  RecvBuf,   \* kRecvBufferSize, in pieces
  SndBuf,    \* what the kernel buffers for a client that does not read
  Taken,     \* ports that another process listens on at times
  PortOf,    \* the port each connection is made to
  Stream,    \* the pieces each connection carries
  Cuts,      \* where each client may end a segment
  Patient,   \* clients that await an answer before the next request
  Rude       \* clients that may close at any time

ASSUME NullAssumption ==
  Null \notin Client /\ Null \notin Conns /\ Null \notin Nat
ASSUME SizesAssumption ==
  MaxFd \in Nat /\ SndBuf \in Nat /\ RecvBuf \in Nat \ {0}
ASSUME ConnsAssumption ==
  /\ PortOf \in [Conns -> ports]
  /\ Stream \in [Conns -> Seq(Piece)]
  /\ Cuts \in [Conns -> SUBSET Nat]
  /\ Taken \subseteq Ports
\* What is left in front of a NUL is made by the server, not by a client.
ASSUME PositionsAssumption ==
  \A c \in Conns : \A i \in DOMAIN Stream[c] :
    Stream[c][i].pos = i /\ Stream[c][i].kind # "cut"

VARIABLES
  pc,          \* where Server::run is
  serv_socks,  \* descriptor -> port, Null where there is no ServerSocket
  clnt_socks,  \* descriptor -> Client, Null where there is no ClientSocket
  readable,    \* readable_fds_ not handled yet (ascending order)
  writable,    \* writable_fds_ not handled yet
  current,     \* the descriptor whose script is running
  why,         \* what ended the process
  link,        \* kernel: life of a connection on the server's side
  peer,        \* kernel: what the server's end has heard of the client
  sent,        \* kernel: pieces sent by the client
  got,         \* kernel: pieces the server has taken
  unread,      \* kernel: length of the answers the client has not read
  answers,     \* history: the responses sent over each connection
  seen         \* history: the connection behind each descriptor at select()

kernel == <<link, peer, sent, got, unread>>
history == <<answers, seen>>
server == <<pc, serv_socks, clnt_socks, readable, writable, current, why>>
vars == <<server, kernel, history>>

Fds == 1..MaxFd
InUse(fd) == serv_socks[fd] # Null \/ clnt_socks[fd] # Null
FreeFds == {fd \in Fds : ~InUse(fd)}
\* POSIX gives out the lowest free descriptor; the loops of the server go
\* through descriptors and ports in ascending order.
IsLowest(n, S) == n \in S /\ \A other \in S : n <= other

Stops ==
  {"bind", "socket", "select", "accept", "recv", "script", "send", "null"}

Init ==
  /\ pc = "listen"
  /\ serv_socks = [fd \in Fds |-> Null]
  /\ clnt_socks = [fd \in Fds |-> Null]
  /\ readable = {} /\ writable = {}
  /\ current = Null
  /\ why = "running"
  /\ link = [c \in Conns |-> "new"]
  /\ peer = [c \in Conns |-> "open"]
  /\ sent = [c \in Conns |-> 0]
  /\ got = [c \in Conns |-> 0]
  /\ unread = [c \in Conns |-> 0]
  /\ answers = [c \in Conns |-> <<>>]
  /\ seen = [fd \in Fds |-> Null]

\* An exception that main() reports before it returns.
Stop(reason) ==
  /\ pc' = "stopped"
  /\ why' = reason
  /\ UNCHANGED <<serv_socks, clnt_socks, readable, writable, current,
                 kernel, history>>

-------------------------------------------------------------------------------
(* Server::Server *)

Unopened == ports \ {serv_socks[fd] : fd \in Fds}

\* new ServerSocket(port): socket(), bind(), listen(), in the set's order.
OpenListener ==
  /\ pc = "listen"
  /\ \E port \in Unopened :
       /\ IsLowest(port, Unopened)
       /\ \E fd \in Fds :
            /\ IsLowest(fd, FreeFds)
            /\ serv_socks' = [serv_socks EXCEPT ![fd] = port]
  /\ UNCHANGED <<pc, clnt_socks, readable, writable, current, why, kernel,
                 history>>

\* No descriptor is left, or the port belongs to someone else.
OpenListenerFails ==
  /\ pc = "listen"
  /\ \/ Unopened # {} /\ FreeFds = {} /\ Stop("socket")
     \/ /\ FreeFds # {}
        /\ \E port \in Unopened \cap Taken : IsLowest(port, Unopened)
        /\ Stop("bind")

StartRunning ==
  /\ pc = "listen"
  /\ Unopened = {}
  /\ pc' = "select"
  /\ UNCHANGED <<serv_socks, clnt_socks, readable, writable, current, why,
                 kernel, history>>

-------------------------------------------------------------------------------
(* Selector::select *)

Pending(fd) ==
  \E c \in Conns : link[c] = "backlog" /\ PortOf[c] = serv_socks[fd]
HasEof(c) == peer[c] \in {"half", "gone"}
IsReadable(c) == got[c] < sent[c] \/ peer[c] # "open"
IsWritable(c) == unread[c] < SndBuf \/ peer[c] \in {"gone", "reset"}

Waiting(fd) == clnt_socks[fd] # Null /\ isWaitingForRequest(clnt_socks[fd])
\* (mutant) the state is not asked for
RespondingAlways(fd) == clnt_socks[fd] # Null
Responding(fd) == clnt_socks[fd] # Null /\ canResponse(clnt_socks[fd])
Unexpected(fd) == clnt_socks[fd] # Null /\ ~Waiting(fd) /\ ~Responding(fd)

ConnAt(fd) == IF clnt_socks[fd] = Null THEN Null ELSE clnt_socks[fd].conn

\* Returns what is ready; after kTimeoutSec seconds both sets may be empty.
SelectReturns ==
  /\ \A fd \in Fds : ~Unexpected(fd)
  /\ readable' = {fd \in Fds : \/ serv_socks[fd] # Null /\ Pending(fd)
                               \/ Waiting(fd) /\ IsReadable(ConnAt(fd))}
  /\ writable' = {fd \in Fds : Responding(fd) /\ IsWritable(ConnAt(fd))}
  /\ seen' = [fd \in Fds |-> ConnAt(fd)]
  /\ pc' = "read"
  /\ UNCHANGED <<serv_socks, clnt_socks, current, why, kernel, answers>>

\* "seFdset: unexpected clnt socket state"
SelectFails ==
  /\ \E fd \in Fds : Unexpected(fd)
  /\ Stop("select")

Select == pc = "select" /\ (SelectReturns \/ SelectFails)

-------------------------------------------------------------------------------
(* Server::handleReadEvent *)

AcceptConnection(fd) ==
  /\ serv_socks[fd] # Null
  /\ \E c \in Conns, new \in Fds :
       /\ link[c] = "backlog" /\ PortOf[c] = serv_socks[fd]
       /\ IsLowest(new, FreeFds)
       /\ clnt_socks' = [clnt_socks EXCEPT ![new] = NewClient(c, serv_socks[fd])]
       /\ link' = [link EXCEPT ![c] = "accepted"]
  /\ readable' = readable \ {fd}
  /\ UNCHANGED <<pc, serv_socks, writable, current, why, peer, sent, got,
                 unread, history>>

\* accept() < 0: nothing to accept, or no descriptor to accept it with.
AcceptFails(fd) ==
  /\ serv_socks[fd] # Null
  /\ ~Pending(fd) \/ FreeFds = {}
  /\ Stop("accept")

Upto(c) == IF got[c] + RecvBuf < sent[c] THEN got[c] + RecvBuf ELSE sent[c]
Received(c) == SubSeq(Stream[c], got[c] + 1, Upto(c))

\* recv() > 0: parse, and when the request is complete build the response.
ReceiveText(fd) ==
  LET c == ConnAt(fd) IN
  /\ got[c] < sent[c]
  /\ \E client \in generateRequest(clnt_socks[fd], Received(c)) :
       \/ /\ ~RequestReady(client)
          /\ clnt_socks' = [clnt_socks EXCEPT ![fd] = client]
          /\ UNCHANGED <<pc, current>>
       \/ /\ RequestReady(client) /\ ~RunsScript(client.request)
          /\ \E code \in StatusCodes(client.request) :
               clnt_socks' = [clnt_socks EXCEPT ![fd] = Answered(client, code)]
          /\ UNCHANGED <<pc, current>>
       \/ /\ RequestReady(client) /\ RunsScript(client.request)
          /\ clnt_socks' = [clnt_socks EXCEPT ![fd] = client]
          /\ pc' = "script" /\ current' = fd
  /\ got' = [got EXCEPT ![c] = Upto(c)]
  /\ readable' = readable \ {fd}
  /\ UNCHANGED <<serv_socks, writable, why, link, peer, sent, unread, history>>

\* (mutant) recv() = 0 is taken for an empty text
EofIgnored(fd) ==
  LET c == ConnAt(fd) IN
  /\ got[c] = sent[c] /\ HasEof(c)
  /\ readable' = readable \ {fd}
  /\ UNCHANGED <<pc, serv_socks, clnt_socks, writable, current, why, kernel, history>>

\* recv() = 0
ReceiveEof(fd) ==
  LET c == ConnAt(fd) IN
  /\ got[c] = sent[c] /\ HasEof(c)
  /\ clnt_socks' = [clnt_socks EXCEPT ![fd].state = "CLOSE"]
  /\ readable' = readable \ {fd}
  /\ UNCHANGED <<pc, serv_socks, writable, current, why, kernel, history>>

\* recv() < 0: the connection was reset, or nothing was there to read.
ReceiveFails(fd) ==
  LET c == ConnAt(fd) IN
  /\ peer[c] = "reset" \/ (got[c] = sent[c] /\ ~HasEof(c))
  /\ Stop("recv")

HandleReadEvent ==
  /\ pc = "read"
  /\ \E fd \in readable :
       /\ IsLowest(fd, readable)
       /\ \/ AcceptConnection(fd) \/ AcceptFails(fd)
          \/ /\ serv_socks[fd] = Null /\ clnt_socks[fd] # Null
             /\ ReceiveText(fd) \/ ReceiveEof(fd) \/ ReceiveFails(fd)
          \/ /\ serv_socks[fd] = Null /\ clnt_socks[fd] = Null
             /\ Stop("null")

\* The script has answered, and build() returns.
Returned(code) ==
  /\ clnt_socks' = [clnt_socks EXCEPT ![current] = Answered(@, code)]
  /\ pc' = "read" /\ current' = Null
  /\ UNCHANGED <<serv_socks, readable, writable, why, kernel, history>>

ScriptReturns ==
  /\ pc = "script"
  /\ \E code \in StatusCodes(clnt_socks[current].request) : Returned(code)

\* CGI::run does not come back: a signal, or an int that nobody catches.
ScriptEndsServer ==
  /\ pc = "script"
  /\ Header[clnt_socks[current].request.header.req].fatal
  /\ Stop("script")

ReadEventsDone ==
  /\ pc = "read" /\ readable = {}
  /\ pc' = "write"
  /\ UNCHANGED <<serv_socks, clnt_socks, readable, writable, current, why,
                 kernel, history>>

-------------------------------------------------------------------------------
(* Server::handleWriteEvent *)

Fits(fd) ==
  unread[ConnAt(fd)] + SizeOf(clnt_socks[fd].response) <= SndBuf

\* (mutant) the state is left at WRITE
SendAgain(fd) ==
  LET c == ConnAt(fd)
      response == clnt_socks[fd].response
  IN
  /\ peer[c] = "open" /\ Fits(fd)
  /\ writable' = writable \ {fd}
  /\ answers' = [answers EXCEPT ![c] = Append(@, response)]
  /\ unread' = [unread EXCEPT ![c] = @ + SizeOf(response)]
  /\ UNCHANGED <<pc, serv_socks, clnt_socks, readable, current, why, link, peer,
                 sent, got, seen>>

\* send() takes the whole response; a client that has closed answers it with
\* a reset.
SendResponse(fd) ==
  LET c == ConnAt(fd)
      response == clnt_socks[fd].response
  IN
  /\ peer[c] # "reset" /\ (peer[c] = "gone" \/ Fits(fd))
  /\ clnt_socks' = [clnt_socks EXCEPT ![fd].state = "READ"]
  /\ writable' = writable \ {fd}
  /\ answers' = [answers EXCEPT ![c] = Append(@, response)]
  /\ peer' = [peer EXCEPT ![c] = IF @ = "gone" THEN "reset" ELSE @]
  /\ unread' = [unread EXCEPT ![c] = IF peer[c] = "gone" THEN @
                                     ELSE @ + SizeOf(response)]
  /\ UNCHANGED <<pc, serv_socks, readable, current, why, link, sent, got, seen>>

\* send() fails, or takes less than the whole response.
SendFails(fd) ==
  /\ peer[ConnAt(fd)] = "reset" \/ (peer[ConnAt(fd)] # "gone" /\ ~Fits(fd))
  /\ Stop("send")

HandleWriteEvent ==
  /\ pc = "write"
  /\ \E fd \in writable :
       /\ IsLowest(fd, writable)
       /\ \/ clnt_socks[fd] # Null /\ (SendResponse(fd) \/ SendFails(fd))
          \/ clnt_socks[fd] = Null /\ Stop("null")

WriteEventsDone ==
  /\ pc = "write" /\ writable = {}
  /\ pc' = "destroy"
  /\ UNCHANGED <<serv_socks, clnt_socks, readable, writable, current, why,
                 kernel, history>>

-------------------------------------------------------------------------------
(* Server::destroyClient *)

\* (mutants) nothing is destroyed; everything that is not being read is
NothingClosing == {}
ClosingAnyIdle == {fd \in Fds : clnt_socks[fd] # Null /\ ~Waiting(fd)}
Closing == {fd \in Fds : clnt_socks[fd] # Null /\ shouldClose(clnt_socks[fd])}

\* (mutant) the socket is closed, its entry in clnt_socks_ stays
DestroyWithoutErase ==
  /\ pc = "destroy"
  /\ link' = [c \in Conns |-> IF \E fd \in Closing : ConnAt(fd) = c
                              THEN "closed" ELSE link[c]]
  /\ pc' = "select"
  /\ UNCHANGED <<serv_socks, clnt_socks, readable, writable, current, why, peer,
                 sent, got, unread, history>>

DestroyClients ==
  /\ pc = "destroy"
  /\ clnt_socks' = [fd \in Fds |-> IF fd \in Closing THEN Null
                                                     ELSE clnt_socks[fd]]
  /\ link' = [c \in Conns |-> IF \E fd \in Closing : ConnAt(fd) = c
                              THEN "closed" ELSE link[c]]
  /\ pc' = "select"
  /\ UNCHANGED <<serv_socks, readable, writable, current, why, peer, sent, got,
                 unread, history>>

Loop ==
  \/ OpenListener \/ OpenListenerFails \/ StartRunning
  \/ Select
  \/ HandleReadEvent \/ ReadEventsDone
  \/ HandleWriteEvent \/ WriteEventsDone
  \/ DestroyClients

-------------------------------------------------------------------------------
(* The clients, and the kernel acting for them *)

Listening(port) == \E fd \in Fds : serv_socks[fd] = port

Connect(c) ==
  /\ link[c] = "new" /\ Listening(PortOf[c])
  /\ link' = [link EXCEPT ![c] = "backlog"]
  /\ UNCHANGED <<server, peer, sent, got, unread, history>>

\* Requests begun in the first n pieces of the stream.
Begun(c, n) == Cardinality({i \in 1..n : Stream[c][i].kind = "line"})

AllAnswered(c) == unread[c] = 0 /\ Len(answers[c]) >= Begun(c, sent[c])

MaySend(c, to) ==
  c \in Patient =>
    /\ \A i \in (sent[c] + 2)..to : Stream[c][i].kind # "line"
    /\ Stream[c][sent[c] + 1].kind = "line" => AllAnswered(c)

Send(c) ==
  /\ link[c] \in {"backlog", "accepted"} /\ peer[c] = "open"
  /\ \E to \in Cuts[c] :
       /\ sent[c] < to /\ to <= Len(Stream[c])
       /\ MaySend(c, to)
       /\ sent' = [sent EXCEPT ![c] = to]
  /\ UNCHANGED <<server, link, peer, got, unread, history>>

ReadAnswers(c) ==
  /\ unread[c] > 0 /\ peer[c] \in {"open", "half"}
  /\ unread' = [unread EXCEPT ![c] = 0]
  /\ UNCHANGED <<server, link, peer, sent, got, history>>

\* shutdown(SHUT_WR): everything was sent, answers are still awaited.
HalfClose(c) ==
  /\ link[c] \in {"backlog", "accepted"} /\ peer[c] = "open"
  /\ sent[c] = Len(Stream[c])
  /\ peer' = [peer EXCEPT ![c] = "half"]
  /\ UNCHANGED <<server, link, sent, got, unread, history>>

\* close(); what was not read turns it into a reset.
Leave(c) ==
  /\ link[c] \in {"backlog", "accepted"} /\ peer[c] \in {"open", "half"}
  /\ c \in Rude \/ (sent[c] = Len(Stream[c]) /\ AllAnswered(c))
  /\ peer' = [peer EXCEPT ![c] = IF unread[c] > 0 THEN "reset" ELSE "gone"]
  /\ UNCHANGED <<server, link, sent, got, unread, history>>

\* Nothing of interest happens to a client once the process has ended.
ClientStep(c) ==
  /\ pc # "stopped"
  /\ Connect(c) \/ Send(c) \/ ReadAnswers(c) \/ HalfClose(c) \/ Leave(c)

-------------------------------------------------------------------------------
Next ==
  Loop \/ ScriptReturns \/ ScriptEndsServer \/ \E c \in Conns : ClientStep(c)

Spec == Init /\ [][Next]_vars

\* The process keeps running its loop, scripts come to an end, and clients
\* read what arrives.
Fairness ==
  /\ WF_vars(Loop)
  /\ WF_vars(ScriptReturns)
  /\ \A c \in Conns : WF_vars(ReadAnswers(c))

FairSpec == Spec /\ Fairness

-------------------------------------------------------------------------------
TypeOK ==
  /\ pc \in {"listen", "select", "read", "script", "write", "destroy", "stopped"}
  /\ serv_socks \in [Fds -> ports \cup {Null}]
  /\ clnt_socks \in [Fds -> Client \cup {Null}]
  /\ readable \in SUBSET Fds
  /\ writable \in SUBSET Fds
  /\ current \in Fds \cup {Null}
  /\ why \in Stops \cup {"running"}
  /\ link \in [Conns -> {"new", "backlog", "accepted", "closed"}]
  /\ peer \in [Conns -> {"open", "half", "gone", "reset"}]
  /\ sent \in [Conns -> Nat]
  /\ got \in [Conns -> Nat]
  /\ unread \in [Conns -> Nat]
  /\ answers \in [Conns -> Seq(Response)]
  /\ seen \in [Fds -> Conns \cup {Null}]

(* What select() reported is still true when its turn comes: no descriptor  *)
(* has been closed, given to another connection, or moved to another state  *)
(* by the handlers that ran since (Server.cpp:33-50).                       *)
SnapshotFresh ==
  pc \in {"read", "script", "write"} =>
    /\ \A fd \in readable :
         serv_socks[fd] = Null =>
           /\ clnt_socks[fd] # Null /\ clnt_socks[fd].state = "READ"
           /\ clnt_socks[fd].conn = seen[fd]
    /\ \A fd \in writable :
         /\ clnt_socks[fd] # Null /\ clnt_socks[fd].state = "WRITE"
         /\ clnt_socks[fd].conn = seen[fd]

(* The connections the server has accepted and not closed are exactly those *)
(* in clnt_socks_, each under one descriptor, and none under a descriptor   *)
(* of a listening socket (Server.cpp:37-38, 53-65).                         *)
OneSocketPerConnection ==
  /\ \A c \in Conns :
       link[c] = "accepted" <=> \E fd \in Fds : ConnAt(fd) = c
  /\ \A fd, other \in Fds :
       clnt_socks[fd] # Null /\ ConnAt(fd) = ConnAt(other) => fd = other
  /\ \A fd \in Fds : serv_socks[fd] # Null => clnt_socks[fd] = Null

(* The process ends only for a reason outside its own logic: a reset, an    *)
(* answer the kernel cannot take whole, no descriptor left, a port already  *)
(* taken, a script that was asked for.  It never ends because a descriptor  *)
(* was not ready after all, was unknown, or was in a state that setFdset    *)
(* does not expect.                                                         *)
StopsOnlyForCause ==
  pc = "stopped" =>
    /\ why \in {"bind", "socket", "accept", "recv", "script", "send"}
    /\ why \in {"socket", "accept"} => FreeFds = {}
    /\ why = "bind" => ports \cap Taken # {}
    /\ why = "recv" => \E c \in Conns : link[c] = "accepted" /\ peer[c] = "reset"
    /\ why = "script" =>
         Waiting(current) /\ RunsScript(clnt_socks[current].request)
    /\ why = "send" =>
         \E fd \in Fds : /\ Responding(fd)
                         /\ peer[ConnAt(fd)] = "reset" \/ ~Fits(fd)

(* A request that is answered as a good one was read as it was sent: its    *)
(* header is one of this connection's, its body the pieces right behind it, *)
(* as many as its framing says, in whatever segments they came.  Under      *)
(* chunked framing the line 0 ends it, whatever follows; and a NUL ends     *)
(* what is said of it, because the chunk it cut is joined with whatever is  *)
(* received next (ClientSocket.cpp:57-58, MessageBodyParser.cpp:32-43).     *)
ContentUnit(c, h, i) == Stream[c][h.pos + 1 + i]
EndsChunks(c, h, i) == ContentUnit(c, h, i).kind \in {"last", "zero"}
CutsChunks(c, h, i) == ContentUnit(c, h, i).kind = "nul"

GoodRequest(c, request) ==
  LET h == request.header
      n == Len(request.body)
      AsSent(m) == \A j \in 1..m : request.body[j] = ContentUnit(c, h, j)
  IN  /\ h \in Piece /\ h = Stream[c][h.pos]
      /\ IF Header[h.req].chunked
         THEN \E m \in 0..n :
                /\ AsSent(m) /\ \A j \in 1..m : request.body[j].kind = "data"
                /\ \/ m = n /\ EndsChunks(c, h, m + 1)
                   \/ CutsChunks(c, h, m + 1)
         ELSE n = contentLength(Header[h.req]) /\ AsSent(n)

RequestsReadAsSent ==
  \A c \in Conns : \A i \in DOMAIN answers[c] :
    LET request == answers[c][i].request
    IN  request.code = "200" => GoodRequest(c, request)

(* No request is answered twice, and answers leave in the order of the      *)
(* requests, though received text is dropped and states are reused.         *)
AnswersInOrder ==
  \A c \in Conns : \A i, j \in DOMAIN answers[c] :
    LET first == answers[c][i].request.header
        second == answers[c][j].request.header
    IN  i < j /\ first # NoHeader /\ second # NoHeader => first.pos < second.pos

\* The first block on a port that has the name, or the first when none has.
IsBlockFor(conf, port, host) ==
  LET Serves(j) == Servers[j].port = port
      Names(j) == Serves(j) /\ host \in Servers[j].names
  IN  /\ conf \in DOMAIN Servers /\ Serves(conf)
      /\ Names(conf) \/ \A j \in DOMAIN Servers : ~Names(j)
      /\ \A j \in 1..(conf - 1) : ~Names(j) /\ (Serves(j) => Names(conf))

(* Every answer is made with a server block on the port the client came in  *)
(* by: the first of them that has the name the request asks for, or the     *)
(* first of them when none has.  It is looked up from the header of the     *)
(* request that is answered, which is empty after a refusal, while          *)
(* serv_config_ still holds the block of the request before                 *)
(* (ClientSocket.cpp:67-68).                                                *)
ConfigOfAnswer ==
  \A c \in Conns : \A i \in DOMAIN answers[c] :
    IsBlockFor(answers[c][i].conf, PortOf[c], HostOf(answers[c][i].request))

-------------------------------------------------------------------------------
(* Clients that wait for their answers, and whose segments hold a header,   *)
(* and a body framed by its length, whole.                                  *)

\* The position of the n-th request line of a stream.
StartOf(c, n) ==
  CHOOSE i \in DOMAIN Stream[c] :
    Stream[c][i].kind = "line" /\ Begun(c, i) = n
EndOf(c, n) ==
  IF n = Begun(c, Len(Stream[c])) THEN Len(Stream[c]) ELSE StartOf(c, n + 1) - 1

\* A request that HTTP lets the client make: read in one go, from its text.
Content(c, n) == SubSeq(Stream[c], StartOf(c, n) + 2, EndOf(c, n))
Acceptable(c, n) ==
  LET header == Header[Stream[c][StartOf(c, n)].req]
      content == Content(c, n)
  IN  /\ header.code = "200"
      /\ Len(content) <= MaxBody
      /\ IF header.chunked
         THEN /\ content # <<>>
              /\ \A i \in DOMAIN content :
                   content[i].kind \in IF i = Len(content) THEN {"last"}
                                      ELSE {"data", "split", "crlf"}
         ELSE header.numeric /\ header.length = Len(content)

\* One that getLine() can take apart again: no CRLF in the data of a chunk.
Readable(c, n) ==
  Header[Stream[c][StartOf(c, n)].req].chunked =>
    \A i \in DOMAIN Content(c, n) : Content(c, n)[i].kind \notin {"split", "crlf"}

\* It may be divided behind its header: it is read chunk by chunk.
Divisible(c, n) ==
  LET header == Header[Stream[c][StartOf(c, n)].req]
  IN  header.code = "200" /\ header.chunked /\ Len(Content(c, n)) <= MaxBody

\* Unless its header is refused, nothing is behind 0 CRLF CRLF, wherever that
\* stands, or behind as much content as it announces; a line 0 is the last; and
\* it is received at once, or divisible.
ConsiderateRequest(c, n) ==
  LET header == Header[Stream[c][StartOf(c, n)].req]
      content == Content(c, n)
  IN  /\ header.code = "200" =>
           IF header.chunked
           THEN \A i \in DOMAIN content :
                  /\ content[i].kind \in {"last", "crlf"} => i = Len(content)
                  /\ content[i].kind \notin {"fields", "zero"}
           ELSE header.length >= 0 => Len(content) <= header.length
      /\ \/ Divisible(c, n)
         \/ /\ Len(content) + 2 <= RecvBuf
            /\ \A cut \in Cuts[c] : StartOf(c, n) <= cut => EndOf(c, n) <= cut

\* Its stream is one request after the other, without a NUL.
Considerate(c) ==
  /\ c \in Patient
  /\ \A i \in DOMAIN Stream[c] :
       /\ Stream[c][i].kind # "nul"
       /\ i = 1 => Stream[c][i].kind = "line"
       /\ Stream[c][i].kind = "line" =>
            /\ i \notin Cuts[c] /\ i + 1 \in DOMAIN Stream[c]
            /\ Stream[c][i + 1].kind = "fields"
            /\ Stream[c][i + 1].req = Stream[c][i].req
  /\ \A n \in 1..Begun(c, Len(Stream[c])) : ConsiderateRequest(c, n)

ConsiderateClients == {c \in Conns : Considerate(c)}

\* A header fits into its limit and into the buffer, and an int stays itself,
\* or becomes more than a body may have, when it is taken for a size_t.
SizesAreSane ==
  /\ MaxHeader >= 2 /\ RecvBuf >= 2
  /\ \A req \in Requests :
       MaxBody - SizeRange < Header[req].length /\ Header[req].length < SizeRange

(* Such a client gets for its n-th request the answer to its n-th request,  *)
(* never an answer more than it has asked for, and none of its requests is  *)
(* refused but those that are wrong in themselves and those with CRLF in    *)
(* the data of a chunk (MessageBodyParser.cpp:38-41): where the segments of *)
(* a chunked body end does not matter, nor what other clients do.           *)
AnswersItsRequests ==
  SizesAreSane => \A c \in ConsiderateClients :
    /\ Len(answers[c]) <= Begun(c, sent[c])
    /\ \A n \in DOMAIN answers[c] :
         LET request == answers[c][n].request
         IN  /\ request.header # NoHeader => request.header.pos = StartOf(c, n)
             /\ Acceptable(c, n) /\ Readable(c, n) <=> request.code = "200"

(* The status a request was refused with is the status of its answer        *)
(* (HttpRequestDTO.hpp:29, response_status_code).                           *)
RefusalReported ==
  \A c \in Conns : \A i \in DOMAIN answers[c] :
    LET code == answers[c][i].request.code
    IN  code # "200" => answers[c][i].code = code

(* As long as clients behave the process does not end.                      *)
KeepsRunning == pc # "stopped"

(* Every request that was sent completely is answered.                      *)
EveryRequestAnswered ==
  \A c \in Conns : \A n \in 1..Begun(c, Len(Stream[c])) :
    link[c] # "new" /\ sent[c] >= EndOf(c, n) ~> Len(answers[c]) >= n

-------------------------------------------------------------------------------
(* The promise to each connection (RequestResponse), read off the state:    *)
(* an answer is owed while a ClientSocket is in state WRITE.                *)

SocketsOf(c) == {fd \in Fds : ConnAt(fd) = c}
Owing(c) == \E fd \in SocketsOf(c) : Responding(fd)

PhaseOf(c) ==
  CASE link[c] \in {"new", "backlog"} -> "none"
    [] link[c] = "closed" -> "closed"
    [] link[c] = "accepted" -> IF Owing(c) THEN "owing" ELSE "open"
OwedTo(c) ==
  IF Owing(c) THEN clnt_socks[CHOOSE fd \in SocketsOf(c) : TRUE].response
              ELSE NoResponse

Promise == INSTANCE RequestResponse
  WITH Answers <- Response, Nothing <- NoResponse,
       phase <- [c \in Conns |-> PhaseOf(c)],
       owed <- [c \in Conns |-> OwedTo(c)],
       delivered <- answers,
       running <- (pc # "stopped")

(* Every step of the server is a step of the promise: a response that was   *)
(* built is sent as it is, once, before the connection is read again or     *)
(* closed.                                                                  *)
KeepsPromise == Promise!SafeSpec

(* ... and it is sent in the end.                                           *)
KeepsPromiseInTheEnd == Promise!Spec
=============================================================================
