-------------------------------- MODULE Webserv --------------------------------
(***************************************************************************)
(* The process as a whole: the event loop (Server) with the scripts it     *)
(* forks (CGI).  The one thread is in the loop, or in CGI::run on behalf   *)
(* of one client; clients, kernel and scripts go on beside it.             *)
(*                                                                         *)
(* What Server takes as an input is decided here: which status a request   *)
(* for a script is answered with (outcome), whether it ends the process    *)
(* (fatal), and that it comes back.  Requests for files keep their input.  *)
(***************************************************************************)
EXTENDS Server

CONSTANTS
  ScriptOf,   \* the script that a request runs (a Script of module CGI)
  PipeCap, BufSize, MaxRuns, NoText   \* of module CGI

VARIABLES
  cgi_pc, cgi_why,                         \* pc and why of CGI
  calls, held, written, c2p, child, text,  \* of CGI
  asked,      \* history: connection and header behind each call
  inherited   \* the connections whose descriptors each child has

\* A request for a script runs the code of CGI.  Pipes are denied only for
\* want of descriptors (ScriptStep), and fork() never fails.
Cgi == INSTANCE CGI
  WITH pc <- cgi_pc, why <- cgi_why, Scarce <- TRUE,
       BodySizes <- 0..MaxBody, Scripts <- {ScriptOf[r] : r \in DOMAIN ScriptOf}

ASSUME ScriptOfAssumption ==
  \A r \in Requests : Header[r].cgi => r \in DOMAIN ScriptOf
ASSUME ScriptsAssumption ==
  /\ \A r \in DOMAIN ScriptOf : ScriptOf[r] \in Cgi!Script
  /\ PipeCap \in Nat \ {0} /\ BufSize \in Nat \ {0} /\ MaxRuns \in Nat
  /\ NoText \notin Seq(Cgi!Units)

cgi == <<cgi_pc, cgi_why, calls, held, written, c2p, child, text>>
all == <<vars, cgi, asked, inherited>>

Runs == 1..MaxRuns
run == Len(calls)

WInit ==
  /\ Init /\ Cgi!Init
  /\ asked = <<>>
  /\ inherited = [r \in Runs |-> {}]

-------------------------------------------------------------------------------

\* HttpResponseBuilder::doCGI, from within handleReadEvent.
CallScript ==
  LET client == clnt_socks'[current']
      header == client.request.header
  IN  /\ Cgi!Call
      /\ calls'[run + 1] = [body |-> Len(client.request.body),
                            script |-> ScriptOf[header.req]]
      /\ asked' = Append(asked, [conn |-> client.conn, header |-> header])

LoopStep ==
  /\ Loop
  /\ IF pc' = "script" THEN CallScript ELSE UNCHANGED <<cgi, asked>>
  /\ UNCHANGED inherited

\* Two pipes take four descriptors, from the table that the sockets are in.
DescriptorsLeft == Cardinality(FreeFds) - Cardinality(held[Cgi!Parent])
PipesDenied == DescriptorsLeft < 4

\* CGIParser throws, or doCGI sets 200.
StatusOf(output) == IF Cgi!Throws(output) THEN "500" ELSE "200"

\* The descriptors of accept() are not closed by execve().
Inherit ==
  inherited' = IF cgi_pc = "fork" /\ cgi_pc' = "close"
               THEN [inherited EXCEPT ![run] = {c \in Conns : link[c] = "accepted"}]
               ELSE inherited

\* One step of CGI::run; it comes back, or the process is gone.
ScriptStep ==
  /\ pc = "script"
  /\ Cgi!Proceed
  /\ cgi_pc = "pipe" => (cgi_why' = "pipe" <=> PipesDenied)
  /\ cgi_why' # "fork"
  /\ \/ cgi_pc' = "idle" /\ Returned(StatusOf(text'[run]))
     \/ cgi_pc' = "dead" /\ Stop("script")
     \/ cgi_pc' \notin {"idle", "dead"} /\ UNCHANGED vars
  /\ Inherit
  /\ UNCHANGED asked

ChildStep(r) ==
  /\ Cgi!ChildProceeds(r)
  /\ UNCHANGED <<vars, asked, inherited>>

WNext ==
  \/ LoopStep \/ ScriptStep
  \/ \E c \in Conns : ClientStep(c) /\ UNCHANGED <<cgi, asked, inherited>>
  \/ \E r \in Runs : ChildStep(r)

WSpec == WInit /\ [][WNext]_all

\* The process and its children are scheduled, and clients read what arrives.
WFairness ==
  /\ WF_all(LoopStep) /\ WF_all(ScriptStep)
  /\ \A r \in Runs : WF_all(ChildStep(r))
  /\ \A c \in Conns : WF_all(ReadAnswers(c) /\ UNCHANGED <<cgi, asked, inherited>>)

WFairSpec == WSpec /\ WFairness

-------------------------------------------------------------------------------
(* The loop with real scripts does nothing that module Server, to which a   *)
(* script is a status and a promise to come back, does not: outcome, fatal  *)
(* and the fairness of ScriptReturns hold of CGI::run, for scripts that     *)
(* read before they write and write a header (response/CGI.cpp:108-150).    *)
ServerAsAssumed == FairSpec

(* A script that meets the end of its input has been given what its client  *)
(* sent behind the header of its own request, each unit of it once and as   *)
(* many as its framing says, whatever segments it came in, and whatever     *)
(* else the loop, the parser and earlier scripts did meanwhile.  A NUL in a *)
(* chunk ends what is said of it, as in GoodRequest.                        *)
SentWith(call, n) ==
  LET h == call.header
      c == call.conn
  IN  /\ h \in Piece /\ h = Stream[c][h.pos]
      /\ IF Header[h.req].chunked
         THEN \E m \in 0..n :
                /\ \A j \in 1..m : ContentUnit(c, h, j).kind = "data"
                /\ \/ m = n /\ EndsChunks(c, h, m + 1)
                   \/ CutsChunks(c, h, m + 1)
         ELSE n = contentLength(Header[h.req])
ScriptGetsWhatWasSent ==
  \A r \in DOMAIN asked :
    child[r].eof => SentWith(asked[r], child[r].taken) \/ pc = "stopped"

(* A client that has hung up is let go by the server and by every script    *)
(* that was forked while it was connected: none of them keeps the           *)
(* connection open (utils/tester/check_socket_closed.sh).                   *)
HungUpClientsSeeTheEnd ==
  \A c \in Conns :
    peer[c] \in {"half", "gone"} ~>
      /\ link[c] = "closed"
      /\ \A r \in Runs : c \in inherited[r] => child[r].at = "ended"
=============================================================================
