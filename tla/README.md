# webserv: a verification development

webserv is a small HTTP/1.1 server in C++98: one process, one thread, a
`select()` loop over listening sockets and client connections, scripts run
through CGI, an nginx-like configuration file. This directory models its own
logic in TLA+, checks the models with TLC on small instances, and proves the
safety of the event loop, of CGI, of the header and configuration parsers, of the
response builder and of loop and CGI together with TLAPS for all instances.

`PROJECT.json` lists the components, the runs, the mutants that show that each
property can fail, the lines of code behind each definition, the hazards and the
theorems. Paths below are relative to the repository (`src/src/...` is its
`src/` directory).

## 1. Inventory

| component | code | state | operations |
|---|---|---|---|
| event loop | `server/Server`, `Selector`, `ServerSocket` | two maps from descriptor to socket; the two lists of one round | select, accept, hand out reads and writes, destroy |
| client socket | `server/ClientSocket` | READ, WRITE or CLOSE; parser; current request and response | receive, parse, answer, send |
| request parser | `request/HttpRequestParser`, `MessageBodyParser`, `RequestHeader` | status, header, body, collected chunks, server block, error code | parse, clear, buildRequest |
| header parsers | `request/RequestHeaderParser`, `RequestLineParser`, `HeaderFieldParser` | none | text to header, or a status |
| server configuration | `config/WebservConfig` | server blocks in file order | ports, findServerConfig |
| response builder | `response/HttpResponseBuilder` | root, location found, file found, name, body text, header | build: find, check, read or run, error pages |
| CGI | `response/CGI`, `CGIParser` | four pipe ends, response text; the forked children | pipe, fork, write, read; header of the output |
| configuration parser | `config/ConfigParser` | token iterator, flags, server and location being read | one function per directive, validation |
| path | `response/Path` | directory, file, query, arguments, extension of a target | splits |
| response text, converters, MIME types, utility | `response/HttpResponse*` and others | values only | copies, formatting |

How they interact. `main` parses the configuration and constructs `Server`, which
opens one listening socket per port; from then on everything happens inside
`Server::run`. `Selector` tells which descriptors are ready. A readable
connection receives once, feeds its parser, and, when the parser is done or has
failed, builds the complete response there and then (`ClientSocket` →
`WebservConfig` for the server block → `HttpResponseBuilder` → perhaps `CGI`,
which blocks the whole process until the script has written). A writable
connection sends its whole response with one `send`. There are no callbacks and
no threads; the concurrency is that of clients and kernel with the loop, of
scripts with the server, and of other processes with the file system. Almost
every failure is an exception that ends `main`.

What is hard, and what correct means:

* **event loop, client socket**: the ready lists are worked off while the world
  moves on; descriptors are reused. Correct: the lists stay true while they are
  used, the maps mirror the kernel's connections, the process ends only for a
  cause outside it, each request is answered once and in order, with the right
  server block, and in the end.
* **request parser**: text comes in arbitrary segments, and one parser serves all
  requests of a connection. Correct: what is answered as a good request was read
  exactly as it was sent, wherever it was cut; a refused one is reported as such.
* **header parsers**: positions that may be `npos`, fields that bear on each
  other. Correct: a header is accepted when it is well formed, refused for its
  first fault otherwise, and frames its body as it is written.
* **CGI**: two processes, two pipes, no waiting for children, no time limit.
  Correct: the script gets the whole body, the answer is a prefix of its own
  output, pipe ends are not leaked, and the two wait for each other only where
  the pipes are full.
* **response builder**: looks at the file system five times while files change,
  and may fail after half of the answer is made. Correct: the answer is what the
  configuration calls for, and no file is read that the request may not have.
* **configuration parser**: an iterator moved by a dozen functions. Correct: what
  is written is what is read, and damaged text is not taken for something valid.

## 2. Plan

The order is that of importance. Written: steps 1 to 14.

1. `WebservConfig`, `HttpRequestParser`: pure operators, no variables, so that
   `ClientSocket` and the proofs can use them.
2. `ClientSocket` and `Server`: the loop with its environment; `RequestResponse`
   as the abstract promise; `MCServer` with its instances.
3. `ServerProofs`: types, sockets, snapshots, causes.
4. `CGI` with `MCCGI`.
5. `ResponseBuilder`, on top of `Path`, with `MCResponseBuilder`.
6. `ConfigParser` with `MCConfigParser`.
7. `Webserv`, which composes `Server` with `CGI`, so that the outcome of a script
   is no longer an input, with `MCWebserv` and `WebservProofs`.
8. `RequestHeaderParser` with `MCRequestHeaderParser`.
9. The promise, in `ServerProofs`: every step of `Server` is a step of
   `RequestResponse` or a stutter.
10. `AnswerProofs`: where each connection's header and collected
    chunks lie in its stream, and from that `RequestsReadAsSent`,
    `AnswersInOrder` and `ConfigOfAnswer`.
11. `CGIProofs`, `ResponseBuilderProofs`, and in `WebservProofs` the same of the
    whole process.
12. What needs induction over data: in `CGIProofs` what is answered,
    `RequestHeaderParserProofs`, and in `ResponseBuilderProofs` the answer that is
    configured and the script that is run.
13. `RequestProofs`: `AnswersItsRequests`, of `Server` and of the whole process.
14. `ConfigParserProofs`: what is accepted of a damaged text, and that a text
    which is not damaged is read as it was written.
15. (left) `ResponseBuilder` in the place of the outcomes of requests for files,
    which are still inputs of `Webserv`.

## 3. Modules and the code

**`WebservConfig`** is the lookup a running server does: server blocks are named
by their place in the file, `findServerConfig` takes the first block for the port
that has the host among its names, else the first for the port.
`ConfigOfAnswer` says which block that has to be without this lookup
(`IsBlockFor`: a block on the port the client came in by; it has the name, or no
block on the port has it; and none in front of it does as well).

**`HttpRequestParser`** gives the parser's members as a record and each method as
an operator on it. Text is a sequence of *pieces*, runs of bytes that no decision
of the parser looks into: the start of a header, its end with the blank line, a
unit of content (under chunked framing a chunk whose size line tells the truth),
one with CRLF in its data, one with `0 CRLF CRLF` in it, a wrong chunk, the last
chunk, a line 0 that is not the last chunk, content with a NUL, and what is left of
that in front of the NUL. A piece carries the request and the position in the stream it
came from: the code cannot see them, the properties can. What a header says is an
input (`Header`), the status it is refused with included. `parse` yields a set,
because the status of an unreadable text depends on its bytes: 431 when it is over
the limit, which is looked at first, else 400 or 500. `size_t` is
`0..SizeRange-1`, so a negative Content-Length wraps. `parseChunkedBody` follows
the loop of `MessageBodyParser::parseChunkedBody`, which takes a line for the size
and a line for the data: a line 0 ends the body whatever follows it; a chunk with
CRLF in its data is shorter, up to there, than its size, and is refused; and what
a NUL cut is joined with the text received next, so that it may be refused or may
be chunks again (`3 CRLF ab` and `1 CRLF 0 CRLF 0 CRLF CRLF` make the body `ab1`).
In that case the model leaves open which, and how long the body is; and since the
bytes behind a cut may make `0 CRLF CRLF` of a header's blank line, or not, so does
it leave open whether the end is found there (`MayTerminate`).

**`RequestHeaderParser`** is how a header becomes such a record: one action per
function of `RequestHeaderParser` and `HeaderFieldParser`, in the order of the
calls, because the first fault decides the status. A line is a sequence of words
and of the separators the code looks for; `find_first_of`, `substr` and `npos`
keep their arithmetic (`npos + 1` is the beginning of the line). Fields are a
function from lower-case names to values, joined with commas. `HttpRequestParser`
takes its verdict as an input; `contentLength` and `transferEncodingIsChunked`
are the two questions it asks of the result.

**`ClientSocket`** is one connection: `generateRequest` (with the cut at the first
NUL), `Answered` (the server block chosen from the *current* request's host) and
the statuses `build` may answer with. The text of a response is left out; its
length is kept, since `send` is asked to take it whole.

**`Server`** has the variables of the loop (`pc`, the two maps, the two lists,
`current`), those of the kernel (`link`, `peer`, `sent`, `got`, `unread`) and two
histories (`answers`, `seen`). One action handles one descriptor, as one turn of
the code's `for` loops does; `select`, each list's end and `destroyClient` are
actions of their own, and clients and kernel step between any two of them. Within
one descriptor's handler nothing else of the process can run, and the kernel is
asked once, so the handler is one action; the exception is a request for a script,
whose handler is cut in two (`pc = "script"`) because the script's run is long:
everything else goes on outside meanwhile, and the script may also end the server
(`ScriptEndsServer`, for the reasons module `CGI` finds). Every failure of a
system call that the code tests is an action (`OpenListenerFails`, `AcceptFails`,
`ReceiveFails`, `SendFails`), and so are the exception of `setFdset` (`SelectFails`)
and the null pointer that an unknown descriptor would give (`Stop("null")`).
Clients connect, send in any segments that `Cuts` allows, read, half-close and
leave; a client that leaves with answers unread, or that is sent one after it has
left, resets the connection.

**`Webserv`** is the process with its scripts. It extends `Server` and instantiates
`CGI` with variables of its own. A handler that comes to a script (`pc = "script"`)
calls `CGI` with the body and the script of its request (`CallScript`); from then on
`ScriptStep` is one step of `CGI::run`, and the last of them is either
`Returned(...)` with the status that the text gives or the end of the process.
Children go on beside all that (`ChildStep`), also after their answer was taken.
Pipes are denied exactly when fewer than four descriptors are left in the table
that the sockets are in (`PipesDenied`). `inherited` records which connections
each child was forked with: `accept` sets no close-on-exec flag, so a child keeps
them until it ends. `ServerAsAssumed` says that this process is a `Server`: that
what `Server` assumes of a script (any of its statuses, perhaps the end of the
process, and that it comes back) is what the code of `CGI` does.
`ScriptGetsWhatWasSent` ties the two ends together: a script that met the end of
its input has been given as many units as the framing of the request it answers
says, all of them lying behind that request's header in the client's stream; a NUL
among them ends what is said.

**`RequestResponse`** is the promise, without descriptors, `select` or parsing: per
connection, decide on an answer, owe that one and no other until it is sent, close
only when nothing is owed. `Server` implements it under the mapping at the end of
the module (a connection is *owing* while its `ClientSocket` is in WRITE).

**`CGI`** has the server's side of one request after another (`pc`, `calls`,
`text`), the pipe ends each process has open (`held`), the contents of the pipes,
and the children. `fork` copies the server's ends; each process closes its own in
its own time; a script is a list of steps that read one unit, read all, or write.
Children are never waited for and outlive their request. The body is written unit
by unit and blocks on a full pipe; the output is taken by one read. `CGIParser`
is an operator on the text.

**`ResponseBuilder`** builds one response. `setDefaultRoot`, the directory search
of each location and each index, `checkOptions`, the read, `stat`, and the error
page are steps, and `Change` lets somebody else create, remove or change a file, or
remove the working directory, between any two. A file's text is one token, its
path, so that a body says what it was made from. A path is a sequence of words and
separators, and **`Path`** takes it apart as `response/Path` does: query at the
first `?`, arguments at each `+` when there is no `=`, file at the last slash,
extension anywhere in the name. `Script` is what `CGI::createArgs` makes of it:
which command is run on which file, with which words; `ran` records it.

**`ConfigParser`** reads a token sequence with an iterator, one action per
directive. A server has a host and a port (`HostIn`, `PortIn`: the word of `listen`
at its first `:`), and what the constructors leave uninitialised, port,
`client_body_size_limit` and `autoindex`, is a value of its own (`Unset`,
`"unset"`), so that a number that was not written is not taken for a 0. `Init` takes a configuration somebody meant, lays it out as text, and
damages it: not at all, cut after any token, one token missing, one doubled.
A `return` of a URI
alone, as `docs/config.md:33` has it, is one that lost its status; the parser takes
it for the status, and the next token, the brace, for the URI. Reading past the last token is undefined in the code; here the parser then stops
in `"undefined"`, which says nothing of what a build would do next.

## 4. Runs

Deadlock is checked where the system never stops (`webserv`, `refusal`). Elsewhere
it may: the server has ended, one response was built, the file was read, or a
script and the server wait for each other, which is what those runs are about.

| run | instance | states | shows |
|---|---|---|---|
| `webserv` | 2 clients, 3 requests of which 2 run scripts, 8 descriptors, pipes of 1 unit, a read buffer of 3; one script writes its answer in two pieces; a chunked body in two parts, and one with CRLF in the data of a chunk | 49,670 | clients that keep a header whole and await each answer get the answer to each request, refused only if it is wrong in itself or has such a chunk, wherever a chunked body is cut (`AnswersItsRequests`, of every considerate client, which all here are); a script is given what its client sent; the process does not end; every request is answered in the end; who hung up is let go by the server and by every script that was forked meanwhile; `RequestResponse` and `Server` are implemented, with their fairness |
| `tangled` | 1 client, 3 requests of which 2 run scripts, cut anywhere, sent ahead, receive buffer of 3 pieces; a line 0 in front of a last chunk, a NUL in a chunk, a negative length | 1,118,752 | whatever is answered as good was read as sent, up to a NUL (`RequestsReadAsSent`), nothing twice or out of order, each with the right server block, and no script is given anything else |
| `faults` | 3 clients that may leave at any time, an answer too long for the socket, a script that may end the server, 4 descriptors of which 2 listen, a port that may be taken | 205,227 | `SnapshotFresh`, `OneSocketPerConnection`, `StopsOnlyForCause`, and the promise (safety) |
| `refusal` | 2 clients that await each answer, 5 requests, 4 descriptors of which 2 listen | (violation) | a request refused for its header is answered 500 |
| `cgi` | two requests in a row, ten kinds of script, bodies of 0, 1, 2 and 4 units, pipes of 2, buffer of 2; children that outlive their answer; a fork or a pipe that fails | 131,611 | what a script is given, what is answered, when server and script wait for each other, when a call comes back; no process keeps an end of another request's pipe |
| `builder` | 1,080 file systems that stand still, and one with two changes of its files or of the working directory; 17 requests, 5 locations | 243,535 | each answer is the one that locations, options and error pages call for, against a definition written without the code's steps; whatever changes, no file is read that the request may not have, header and body fit, and two texts are mixed only when a file vanished; the script that is run is the file that was found, where the location's root is `www/cgi-bin` |
| `builder_uncreated` | one file system | (violation) | finding, below |
| `headers` | every request line of up to 6 words and blanks, every field of up to 4, up to 3 of 13 fields that bear on each other | 59,302 | a header is accepted exactly when it is well formed, said without positions; the status names the first fault; the first Content-Length counts, one `chunked` and no second makes a body chunked, the host ends at the first colon |
| `config` | 664 configurations, undamaged and cut at, without, and with twice each of their tokens, and with each line twice | 299,373 | undamaged, the valid ones and no others are accepted, with the values written, host and port included, and no number that was not; damaged, what is still accepted is valid and closed; the parser ends |
| `config_duplicates`, `config_methods`, `config_cut` | parts of the above | (violation) | findings, below |

Why the bounds are enough. *Pieces*: the parser keeps nothing across requests but
its record, so a request behind another, a request behind a broken one, and a
chunked request cut at each boundary show everything that `clear` and the framing
can do; `Tangled` has all of these in one stream, with two traps (a line 0
that is not the last chunk, a NUL), and `ScriptStream` a chunk with CRLF in its
data. *Clients*: a round of the loop treats connections one by one;
what goes wrong between connections needs two of them and a reused descriptor,
which three clients on two free descriptors give. *Ports*: two blocks that share a
port and one alone distinguish all branches of the lookup. *Answers* are 1 or 5
long against a socket buffer of 2: one fits, two fit, one never does. *Pipes* of 2
units with bodies of 0, 1, 2 and 4 are empty, below, at and above capacity; in
`webserv` a pipe of 1 and bodies of 1 and 2 block the server in the middle of its
body. *Headers*: what the parsers decide depends on where the first separators are
and on pairs of fields; three fields, twice the same and one between, are one more
than a pair. Six words and blanks hold the longest good request line and one blank
too many at each place.
*Changes*: two, since the pattern that could mislead `build` is a file that appears
and vanishes again. *Configurations*: three locations, since one and two are not
enough for a loop that compares pairs; lists of three methods over four words.
The proofs of section 6 need none of these bounds.

### Fairness

* `Server`: `WF(Loop)`: the process is scheduled, and `select` comes back at once
  when something is ready and after five seconds otherwise (`kTimeoutSec`), so a
  round always ends. `WF(ScriptReturns)`: scripts come to an end. The code does
  not guarantee that, and `CGI` shows when it is false. `WF(ReadAnswers(c))`: a client reads
  what arrives; without it an answer to a client that never reads would wait for
  ever, as it does in the code. Nothing makes a client connect, send or leave.
* `Webserv`: in the place of `WF(ScriptReturns)`, `WF` of `LoopStep`, of `ScriptStep`
  and of each child's step: all processes are scheduled. That `ScriptReturns` is
  then fair is part of `ServerAsAssumed`, and holds for the scripts of the
  instance, which read before they write and end. A script that writes a pipe
  full first, or sleeps, would refute it and `EveryRequestAnswered` with it.
* `CGI`: both processes are scheduled. A script that sleeps for ever is excluded;
  `CallReturns` claims nothing for a body beyond the pipe and a script that writes
  first (`Cooperative`).
* `ResponseBuilder`, `ConfigParser`: the only thread goes on. Changes by others are
  not fair, and are bounded (`MaxChanges`).

## 5. Findings

Each is a run whose property is what a comment, a document or a test of the
repository says, and which TLC refutes.

* `RefusalReported`: `build` takes the path apart before it looks at the status the
  parser gave the request, so a request refused for its header, whose path was
  never stored, is answered 500 and not 505, 413 or 400.
* `BodyIsCreated`: the exception marked "should not occur" in `buildErrorHeader`
  occurs when a file was found in a location without a root of its own and an
  error page is configured; the configured page is dropped for the default one.
* `DuplicatesRefused`: `isDupLocation` compares only the first location with the
  others.
* `MethodsSupported`: `std::includes` on an unsorted range refuses `DELETE` alone.
  The lists of this run name no method twice: a list that does is refused on
  sorted ranges too, and no document promises it.
* `CutIsReported`: a file that ends inside a location is read past its end.

Things the passing runs pin down that a reader may not expect: a header in two
segments is refused; a request that arrives in the same `recv` behind another is
dropped; a body framed by its length must come in the same `recv` as its header;
one client's reset, one answer too long for the socket buffer, or one descriptor
too few ends the whole server; `deleteFile` has an empty body, so an allowed DELETE
is answered 200 and the file stays. The properties state what holds nevertheless
(`AnswersInOrder`, `RequestsReadAsSent`) and name the causes
(`StopsOnlyForCause`).

## 6. Proofs

Each theorem holds for every value of the constants that meets the named
assumptions of the modules: any configuration, any number of connections,
descriptors and requests, any streams and segments, any scripts, any files.

| theorem | of | property |
|---|---|---|
| `TypeCorrect` | `ServerProofs` | `TypeOK` |
| `SocketsCorrect` | `ServerProofs` | `OneSocketPerConnection` |
| `SnapshotsCorrect` | `ServerProofs` | `SnapshotFresh` |
| `StopsCorrect` | `ServerProofs` | `StopsOnlyForCause` |
| `PromiseKept` | `ServerProofs` | `KeepsPromise` |
| `ReadingCorrect` | `AnswerProofs` | `RequestsReadAsSent` |
| `OrderCorrect` | `AnswerProofs` | `AnswersInOrder` |
| `ConfigCorrect` | `AnswerProofs` | `ConfigOfAnswer` |
| `RequestsCorrect` | `RequestProofs` | `AnswersItsRequests` |
| `CGITypeCorrect` | `CGIProofs` | `TypeOK` |
| `PipesCorrect` | `CGIProofs` | `OwnPipesOnly` |
| `BodyCorrect` | `CGIProofs` | `ScriptGetsWholeBody` |
| `KillsCorrect` | `CGIProofs` | `KilledOnlyByEndedScript` |
| `WaitsCorrect` | `CGIProofs` | `WaitOnlyOnFullPipes` |
| `AnswersCorrect` | `CGIProofs` | `AnswerIsPrefixOfOutput` |
| `RefusalsCorrect` | `CGIProofs` | `RefusedOnlyWhenCut` |
| `HeaderTypeCorrect` | `RequestHeaderParserProofs` | `TypeOK` |
| `AcceptanceCorrect` | `RequestHeaderParserProofs` | `AcceptedIsWellFormed` |
| `RefusalCorrect` | `RequestHeaderParserProofs` | `RefusedForFirstFault` |
| `FramingCorrect` | `RequestHeaderParserProofs` | `FramedAsWritten` |
| `BuilderTypeCorrect` | `ResponseBuilderProofs` | `TypeOK` |
| `ReadsCorrect` | `ResponseBuilderProofs` | `ReadsOnlyWhatIsAllowed` |
| `OkCorrect` | `ResponseBuilderProofs` | `OkHeaderFits` |
| `MixedCorrect` | `ResponseBuilderProofs` | `MixedOnlyWhenVanished` |
| `AnswerCorrect` | `ResponseBuilderProofs` | `AnswersAsConfigured` |
| `ScriptCorrect` | `ResponseBuilderProofs` | `ScriptIsTheFileFound` |
| `TypesHold` | `ConfigParserProofs` | `TypeOK` |
| `AcceptedServersValid` | `ConfigParserProofs` | `AcceptedIsValid` |
| `AcceptedBlocksClosed` | `ConfigParserProofs` | `AcceptedIsClosed` |
| `WrittenCorrect` | `ConfigParserProofs` | `WrittenIsRead` |
| `ProcessCorrect` | `WebservProofs` | what `ServerProofs` proves, of the whole process |
| `ProcessKeepsPromise` | `WebservProofs` | `KeepsPromise` |
| `ProcessAnswersRight` | `WebservProofs` | what `AnswerProofs` proves |
| `ProcessAnswersRequests` | `WebservProofs` | `AnswersItsRequests` |
| `ProcessFeedsScripts` | `WebservProofs` | `ScriptGetsWhatWasSent` |
| `ProcessPipesCorrect` | `WebservProofs` | `OwnPipesOnly`, `KilledOnlyByEndedScript`, `WaitOnlyOnFullPipes` |

The first nine are theorems of `Spec` of `Server`, the last six of `WSpec` of
`Webserv`, for all scripts: those too that write before they read, end early or
never end.

**What the operators return** (the first part of `ServerProofs`). `findServerConfig` finds a
block of that port; `parse` keeps the record's type and never leaves `PARSE_BODY`
behind; a request was parsed before it is answered with anything but an error, so
every response has a length; a connection stays the same through
`generateRequest` and `Answered`.

**The event loop** (`ServerProofs`). The steps considered are `AnyStep`: those of
the loop and of its clients, with scripts that may answer anything and may end the
server. `Next` is one, and so is every step of `Webserv`. The inductive invariant
`IInv` joins the properties with what they need:

* `GoodState`: types, and that a client's parser and request are ones that parsing
  leaves behind, and `got <= sent <= Len(Stream)`. `TypeOK` is not inductive
  without it: `SizeOf` looks into the header of a response that says 200.
* `OneListenerPerPort`: without it, an `accept` on one listening socket could take
  the connection that another was reported readable for.
* `ReadyStaysReady`: everything in the two lists is *still* ready, for the same
  connection. This is the heart: handling one descriptor removes it from its list
  and touches no other connection (`OthersStayReady`), and clients can only make
  a connection readier (`ClientStepEffect`). It implies `SnapshotFresh`, and that
  `recv` and `accept` fail only for a reset or a lack of descriptors.
* `RoundsAreComplete`: the lists are empty outside their loops, and no client in
  CLOSE is left before `select`; hence `setFdset` never throws
  (`SelectNeverFails`).
* `ScriptForRequest`: while a script runs, its client is in READ, has a complete
  request for a script, and is not in the list any more.

Each `Step...` lemma proves one conjunct, by a case for every action.

**The promise** (the last part of `ServerProofs`). Under `IInv` a connection is seen through the
one socket that holds it, or through none (`View`). Every step changes what is
seen of at most one connection, and that as `Open`, `Decide`, `Deliver`, `Close`
or `End` of `RequestResponse` does; the other steps are stutters.

**Reading and answering** (`AnswerProofs`). `ReadSoFar` says what
a parser holds of the stream of its connection. The header is the piece at the
position it carries; the text collected of a chunked body begins with it and is
the stream from there on, up to the first NUL that cut a segment (`ReadAs`: a piece
is the one that was sent, or the rest of one with a NUL), and without such
a cut up to what the kernel has handed out; a request that is done has the header
and body that were sent, a chunked body up to the end of its chunks or to the first
with a NUL (`GoodRequest`), since what was joined there may be a good chunk again; a parser that failed never carries the status 200. A
`recv` moves one segment from stream to parser, and `parse` keeps `ReadSoFar` in
each of its branches. `RInv` adds that a client in WRITE holds an answer to exactly
the request that its parser built, with a block that is right for the port and host
of that request (`RightClient`; that the search of `findServerConfig` finds the one
that `IsBlockFor` describes is the lemma `LookupRight`), and that a header which is not answered yet is newer than
every answer of its connection (`NewerIsHeld`), hence the order of answers.

**Each request its answer** (`RequestProofs`). A client is *considerate*
(`Considerate`) when it awaits each answer, keeps a header whole, sends a body framed
by its length with its header, and neither a NUL, nor a line 0 that is not the last
chunk, nor anything behind the end of a body; it may cut a chunked body anywhere, and
its chunks may be wrong or have CRLF in their data. Requests are counted by their lines:
`Begun(c, i)` of them begin in the first `i` pieces of the stream, the n-th lies
from `StartOf` to `EndOf`. Three things are needed at once (`CInv`):

* `InStep`: the parser is where the stream is. Before a request, what was handed out
  ends between two requests (`AtStart`); while chunks are collected, the parser has
  the header of the n-th request and exactly its text so far (`Collecting`); in
  WRITE the request was taken if, and only if, it is one to take (`Decided`), and
  nothing of the next one was received (`Read`).
* `Sending`: no such client has sent more than the request that follows its last
  answer (`Awaits`), so that one `recv` never holds parts of two requests, and the
  pieces behind a complete request, which `clear()` drops, are none.
* `AnswersFit`: the claim, for every answer so far.

`ReceivedParsed` is the main lemma: one `recv` later the request is decided, and
taken exactly if it is `Answerable` (well formed, and without CRLF in the data of a
chunk), or is collected further. It needs that a length fits an `int` and a `size_t`
(`SizesAreSane`); a limit of the header below two pieces would refuse everything.
The parts of a request are found by counting, with the induction described below.

**CGI** (`CGIProofs`). `EndsHeld` says which pipe ends the server holds at each
point of `CGI::run` (`ServerEnds`) and which each child holds in each of its states
(`EndsAt`). It is what makes the rest work: only the server can feed a script, so
an end of file means that the server has closed its end, which it does after the
last write (`BodyAccounted`: no more is taken than was written, and the whole body
was written when the server comes to read); the server is killed by a write only when no reader is left,
which only the end of its own script brings about (`DeadForCause`); a script that
was told to read all has seen the end of its input before it goes on
(`DrainedToTheEnd`), so it cannot wait with a full output pipe for a server that
waits with a full input pipe unless it writes first. A second invariant on top of
that (`AnswerInv`) says what is answered: until the answer is taken, the output pipe
holds all that its script has written (`OutputSoFar`); a script whose answer is not
taken yet ends only at its end (`EndedForCause`); and exactly the calls that came
back have a text (`Answered`). What the one `read` takes is then a beginning of the
whole output, and empty only where there was nothing to read.

**The header parser** (`RequestHeaderParserProofs`). The lines in front of `at` have
been read: each was a word and a colon, none was a second `Host`, and the map has, for
every name that occurred, a value that begins with that of the first such line and
goes on with a comma if there were more (`FieldsRead`, `StartsWithFirst`), and
nothing else. The request line was well formed when fields are read (`LineRead`).
A refusal is for the length, for the request line, or, with a good line, for a
field or the host (`RefusedFor`). `WellFormedLine` and `WellFormedField` say the
grammar without positions, the code goes by them; the lemmas about the request line
and the fields are where the two meet.

**The response builder** (`ResponseBuilderProofs`). The three parts of the
invariant beyond types: a file is found at the end of the search and not before
(`FoundInTime`); it is where its location puts it, and still there if nobody
changed a file (`FoundAsAsked`); and a body is empty, an answer, an error page, or,
when the file has vanished, the one in front of the other (`BodySoFar`). For
`AnswersAsConfigured` a second one is kept while nobody changes a file
(`Undisturbed`): the matching locations in front of the present one, and the indexes
of the present one that were tried, have no file (`Searched`, `TriedHere`), and the
name that is looked for is the one that those locations have left (`NameSoFar`: an
`index.html` stays); hence what is found is what the configuration means (`Served`),
and at each point the answers that are still possible are the right ones
(`OnTheWay`). For `ScriptIsTheFileFound` the command, the file and the words of
`createArgs` are followed through `Path` (`ScriptSoFar`), and a query taken apart at
each `+` gives its own text when joined again (`Rejoined`).

**The configuration parser** (`ConfigParserProofs`). Two invariants, one for every
text and one for those that nobody damaged. The first (`IInv`) is about counting.
Among the tokens read so far are at least as many `listen` as servers that have
one, and at most that many which no directive can have taken for a word
(`ListensCounted`); and at most as many such `{` as blocks are open plus `}` were
read (`BracesCounted`). What a step reads is therefore split into the
words a directive takes and the rest (`Takes`, `Untaken`). The blocks that were closed
have been validated (`LocationsValid`, `ServersValid`); that takes `std::includes` from
its recursion to the six lists of methods that it lets through (`ValidVector`).

The second (`AsWritten`) says where in the text of which server the parser is. What
is left to be read (`Left`) is the text from one of the places where a directive
may begin, six kinds in a server and six in a location (`InServerText`,
`InLocationText`: `AtPort`, `AtNames`, ..., `AtReturns`), those of pairs and of
locations with their number. At each the record being read holds exactly what the
directives read so far mean, a map what its first pairs mean (`MapUpTo`), and
the servers read so far are the meanings of the first ones (`SoFar`). The text itself
tells which function of the parser steps there (`TopStep`, `ServerStep`,
`LocationStep`); a directive that was not written is passed over without a step (the
`Skip...` lemmas), and each `Read...` lemma leads from one place to the next, or, for an
`autoindex` that is neither `on` nor `off` and at a closing brace, to a refusal of
something that is not valid. Hence the end of the text is reached with every server
read, and the parser refuses only when `ValidDoc` does not hold.

**The process** (`WebservProofs`). The step of the composition is a step of
`Server` (`ProcessStep`) and a step of `CGI` or a stutter of it (`CgiStep`), so
both invariants hold of it. What joins them is `AskedRight`: each call was made
with the body of a request that was read as it was sent. `CGI`'s own
`ScriptGetsWholeBody` then speaks of what a client sent.

**Induction over data.** The library's induction theorems cannot be used here, since
they take an operator. Where a proof has to follow a recursive function over a text
or a list (counting requests, taking a text apart, the output a script writes, the
first of several fields, texts laid out one behind the other) it takes a least counterexample instead:
`NatLessThanWellFounded` and `WFMin` give one for any nonempty set of numbers. That
a function defined by recursion is there to be chosen at all is proved in the same
way, by extending the longest one.

Assumptions: every port of a connection is configured; streams are sequences of
pieces that carry their own positions, and what is left in front of a NUL is in none
of them, since the server makes it (`PositionsAssumption`); the receive buffer
holds at least one piece; the markers for "none" are not values; pipes and the
read buffer of `CGI` hold at least one unit; scripts are of the form that `CGI`
gives (`ScriptsAssumption`); a file of `ResponseBuilder` has a name, and is not
confused with a default error page or the output of a script
(`TokensAssumption`), and its roots are paths (`RootsAssumption`); `HTTP/1.1` is
among the versions of `RequestHeaderParser`, words and separators are different,
and two words never follow each other (`WordsAssumption`, `TextsAssumption`);
configurations are sequences of the records of `ConfigParser` (`DocsAssumption`),
damages are of the kinds it names, at a place (`DamagesAssumption`), its words for
numbers give naturals, words with a `:` two words each, an empty word is no bad root
(`WordsAssumption` of `ConfigParser`), and a number that was not assigned is none
(`UnsetAssumption`). A word of a configuration is a string; the proofs say `AnyWord`,
strings and the keywords, since the provers do not know that a literal is a string.
`AnswersItsRequests` has `SizesAreSane` as its hypothesis, and `MCWebserv` states that
it holds in the instance and that all clients there are considerate. TLC evaluates all
of them in the runs of their modules. The
parts of the inductive invariants that are no property of a run are stated only in
the modules of the proofs.

Only model-checked:

* everything under fairness (`EveryRequestAnswered`, `HungUpClientsSeeTheEnd`,
  `KeepsPromiseInTheEnd`, `ServerAsAssumed`, `CallReturns`, `BuildEnds`,
  `ParserEnds`), which is out of the prover's reach with `ENABLED`;
* `KeepsRunning` of `Server`, which is a matter of the instance too: of one with
  enough descriptors, whose clients never reset. What can be said for all is
  `StopsOnlyForCause`, which is proved.

What the proofs have corrected. A few properties said more than the code keeps,
in cases no run had: `AnswersAsConfigured` for the error page of a location without a
root, and for a location whose directory cannot be opened; `ScriptIsTheFileFound` for a path
that does not begin with `/`, which `RequestHeaderParser` lets through;
`AnswersItsRequests` for content with a NUL, for more content than was announced, and
for a chunked body of nothing at all, which is awaited for ever; `AcceptedIsValid` and
`AcceptedIsClosed` for a directive that lost its `;` and takes the `listen` or the brace
of another for a word, and for a location without a path, which takes its brace for one
(hence `Untaken`); `WrittenIsRead` for an `autoindex` that is neither `on` nor `off`,
which is refused (`ValidLocation`). Each now says what holds, and the hypotheses name the cases (`Considerate`, `ConsiderateRequest`).

What reading the code again has corrected. `MessageBodyParser` reads the data of a
chunk by lines, ends at any line 0, and joins what a NUL cut with what comes next; so
`AnswersItsRequests` excepts chunks with CRLF in their data, `RequestsReadAsSent` and
`ScriptGetsWhatWasSent` say nothing behind a NUL in a chunked body, and both hold with
a line 0 in the middle of the text. `ConfigOfAnswer` names the block an answer has to
have without the lookup. `WrittenIsRead` speaks of the host as well, and tells a
number that was not written from a 0.

## 7. Not modelled

* Which characters make a header token (`isHeaderTokenChar`): `TokenWords` is an
  input of `RequestHeaderParser`.
* Formatting of responses, dates, MIME types, reason phrases; the environment of
  scripts.
* Memory: requests, responses and sockets allocated with `new` and never deleted.
* Descriptors beyond `FD_SETSIZE`, and failures of `socket`, `fcntl`, `listen` and
  `select` for reasons other than a lack of descriptors or a taken port.
* Directives that are read and never used (`return`, `autoindex`,
  `client_body_size_limit`).
* Test clients, unit tests, example programs and the site served.
