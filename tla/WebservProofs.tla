----------------------------- MODULE WebservProofs -----------------------------
(***************************************************************************)
(* What ServerProofs shows of the event loop holds of the whole process,   *)
(* whatever its scripts do: read or not, write, end early, outlive their   *)
(* answers, or end the server.                                             *)
(***************************************************************************)
EXTENDS Webserv, RequestProofs

(* A step of the process is one of the loop, of a client, an answer of a    *)
(* script, its end of the server, or none that the loop can see.            *)
LEMMA ProcessStep == [WNext]_all => [AnyStep]_vars
<1> SUFFICES ASSUME [WNext]_all PROVE [AnyStep]_vars
  OBVIOUS
<1>1. CASE LoopStep
  BY <1>1 DEF LoopStep, AnyStep
<1>2. CASE ScriptStep
  <2>1. CASE Returned(StatusOf(text'[run]))
    <3>1. StatusOf(text'[run]) \in Codes
      BY DEF StatusOf, Codes
    <3> QED
      BY <1>2, <2>1, <3>1 DEF ScriptStep, AnyStep, AnyReturn
  <2>2. CASE Stop("script")
    BY <1>2, <2>2 DEF ScriptStep, AnyStep, AnyEnd
  <2>3. CASE UNCHANGED vars
    BY <2>3
  <2> QED
    BY <1>2, <2>1, <2>2, <2>3 DEF ScriptStep
<1>3. ASSUME NEW c \in Conns, ClientStep(c) PROVE AnyStep
  BY <1>3 DEF AnyStep
<1>4. ASSUME NEW r \in Runs, ChildStep(r) PROVE UNCHANGED vars
  BY <1>4 DEF ChildStep
<1>5. CASE UNCHANGED all
  BY <1>5 DEF all
<1> QED
  BY <1>1, <1>2, <1>3, <1>4, <1>5 DEF WNext

LEMMA ProcessInv == WSpec => []IInv
<1>1. WInit => IInv
  BY InitInv DEF WInit
<1>2. IInv /\ [WNext]_all => IInv'
  BY ProcessStep, StepInv
<1> QED
  BY <1>1, <1>2, PTL DEF WSpec

(* While scripts run, answer, die or take the server with them, the loop's  *)
(* tables stay consistent with the kernel, what select() reported stays     *)
(* true, and the process ends only for a reason outside its own logic.      *)
THEOREM ProcessCorrect ==
  WSpec => [](TypeOK /\ OneSocketPerConnection /\ SnapshotFresh /\ StopsOnlyForCause)
<1>1. IInv => TypeOK /\ OneSocketPerConnection /\ StopsOnlyForCause
  BY DEF IInv, GoodState
<1>2. IInv => SnapshotFresh
  BY FreshFromInv
<1> QED
  BY <1>1, <1>2, ProcessInv, PTL

(* And it keeps its promise to every connection: a response is sent as it   *)
(* was built, once, whatever script it was built with.                      *)
THEOREM ProcessKeepsPromise == WSpec => KeepsPromise
<1>1. WInit => Promise!Init
  BY InitKeepsPromise DEF WInit
<1>2. IInv /\ IInv' /\ [WNext]_all => [Promise!Next]_(Promise!vars)
  BY ProcessStep, StepKeepsPromise
<1> QED
  BY <1>1, <1>2, ProcessInv, PTL DEF WSpec, KeepsPromise, Promise!SafeSpec

(* What it answers are requests as they were sent, in their order, and with *)
(* the server block each of them asks for.                                  *)
THEOREM ProcessAnswersRight ==
  WSpec => [](RequestsReadAsSent /\ AnswersInOrder /\ ConfigOfAnswer)
<1>1. WInit => AInv
  BY AnswerInit DEF WInit
<1>2. AInv /\ [WNext]_all => AInv'
  BY ProcessStep, AnswerStep
<1>3. AInv => RequestsReadAsSent /\ AnswersInOrder /\ ConfigOfAnswer
  BY DEF AInv, RInv, GoodAnswers
<1> QED
  BY <1>1, <1>2, <1>3, PTL DEF WSpec

(* And a client that waits for each answer has one for each request it was  *)
(* heard to end, refused only when the request is one to refuse.            *)
THEOREM ProcessAnswersRequests == WSpec => []AnswersItsRequests
<1>1. WInit => QInv
  BY RequestInit DEF WInit
<1>2. QInv /\ [WNext]_all => QInv'
  BY ProcessStep, RequestStep
<1> QED
  BY <1>1, <1>2, RequestFromInv, PTL DEF WSpec

-------------------------------------------------------------------------------
(* The scripts of the process *)

CgiProof == INSTANCE CGIProofs
  WITH pc <- cgi_pc, why <- cgi_why, Scarce <- TRUE,
       BodySizes <- 0..MaxBody, Scripts <- {ScriptOf[r] : r \in DOMAIN ScriptOf}

(* What module CGI assumes of its constants holds of those of the process.  *)
LEMMA CgiAssumptions ==
  /\ CgiProof!PipeAssumption /\ CgiProof!BoundsAssumption
  /\ CgiProof!ScriptsAssumption /\ CgiProof!NoTextAssumption
BY ScriptsAssumption DEF CgiProof!PipeAssumption, CgiProof!BoundsAssumption,
  CgiProof!ScriptsAssumption, CgiProof!NoTextAssumption, CgiProof!Script, Cgi!Script,
  CgiProof!Units, Cgi!Units, Cgi!Inputs, CgiProof!Inputs

(* The two instances of module CGI, with and without its proofs, have the   *)
(* same actions.                                                            *)
LEMMA SameActions ==
  /\ Cgi!Init <=> CgiProof!Init
  /\ Cgi!Call => CgiProof!Call
  /\ Cgi!Proceed <=> CgiProof!Proceed
  /\ \A r : Cgi!ChildProceeds(r) <=> CgiProof!ChildProceeds(r)
<1> USE DEF Cgi!Runs, CgiProof!Runs, Cgi!Parent, CgiProof!Parent, Cgi!run,
            CgiProof!run, Cgi!body, CgiProof!body, Cgi!script, CgiProof!script,
            Cgi!P2C, CgiProof!P2C, Cgi!C2P, CgiProof!C2P, Cgi!BothPipes,
            CgiProof!BothPipes, Cgi!IsOpen, CgiProof!IsOpen, Cgi!InPipe,
            CgiProof!InPipe, Cgi!Without, CgiProof!Without, Cgi!Die, CgiProof!Die,
            Cgi!BodyLeft, CgiProof!BodyLeft, Cgi!BodySent, CgiProof!BodySent,
            Cgi!OutputReady, CgiProof!OutputReady, Cgi!Received, CgiProof!Received,
            Cgi!UpTo, CgiProof!UpTo, Cgi!CString, CgiProof!CString, Cgi!Units,
            CgiProof!Units, Cgi!Inputs, CgiProof!Inputs, Cgi!Executable,
            CgiProof!Executable, Cgi!ChildEnds, CgiProof!ChildEnds, Cgi!Running,
            CgiProof!Running, Cgi!Op, CgiProof!Op, Cgi!Advanced, CgiProof!Advanced
<1>1. Cgi!Init <=> CgiProof!Init
  BY DEF Cgi!Init, CgiProof!Init
<1>2. Cgi!Call => CgiProof!Call
  BY DEF Cgi!Call, CgiProof!Call
<1>3. Cgi!Proceed <=> CgiProof!Proceed
  <2>1. \A t : Cgi!CString(t) = CgiProof!CString(t)
    BY DEF Cgi!ToSet, CgiProof!ToSet, Cgi!SelectInSeq, CgiProof!SelectInSeq,
           Cgi!Min, CgiProof!Min
  <2>2. Cgi!Received = CgiProof!Received
    BY DEF Cgi!Min, CgiProof!Min
  <2> HIDE DEF Cgi!CString, CgiProof!CString, Cgi!Received, CgiProof!Received
  <2>3. Cgi!ReadOutput <=> CgiProof!ReadOutput
    BY <2>1, <2>2 DEF Cgi!ReadOutput, CgiProof!ReadOutput
  <2>4. Cgi!ReadOverruns <=> CgiProof!ReadOverruns
    BY <2>2 DEF Cgi!ReadOverruns, CgiProof!ReadOverruns
  <2> QED
    BY <2>3, <2>4
       DEF Cgi!Proceed, CgiProof!Proceed, Cgi!CreatePipe, CgiProof!CreatePipe,
           Cgi!CreatePipeFails, CgiProof!CreatePipeFails, Cgi!UnknownExtension,
           CgiProof!UnknownExtension, Cgi!Fork, CgiProof!Fork, Cgi!ForkFails,
           CgiProof!ForkFails, Cgi!CloseTheirEnds, CgiProof!CloseTheirEnds,
           Cgi!WriteBody, CgiProof!WriteBody, Cgi!WriteBodyKills,
           CgiProof!WriteBodyKills, Cgi!EndBody, CgiProof!EndBody
<1>4. ASSUME NEW r PROVE Cgi!ChildProceeds(r) <=> CgiProof!ChildProceeds(r)
  BY DEF Cgi!ChildProceeds, CgiProof!ChildProceeds, Cgi!ChildStdin,
         CgiProof!ChildStdin, Cgi!ChildStdout, CgiProof!ChildStdout, Cgi!ChildExec,
         CgiProof!ChildExec, Cgi!ChildExecFails, CgiProof!ChildExecFails,
         Cgi!ScriptReads, CgiProof!ScriptReads, Cgi!ScriptReadsEof,
         CgiProof!ScriptReadsEof, Cgi!ScriptWrites, CgiProof!ScriptWrites,
         Cgi!ScriptKilled, CgiProof!ScriptKilled, Cgi!ScriptExits,
         CgiProof!ScriptExits
<1> QED
  BY <1>1, <1>2, <1>3, <1>4

(* For the code of CGI::run, a step of the process is one of its own, of a  *)
(* child, or none.                                                          *)
LEMMA ScriptsStep == [WNext]_all => [CgiProof!Next]_(CgiProof!vars)
<1> SUFFICES ASSUME [WNext]_all PROVE [CgiProof!Next]_(CgiProof!vars)
  OBVIOUS
<1> USE DEF cgi, CgiProof!vars
<1>1. CASE LoopStep
  <2>1. CASE Cgi!Call
    BY <2>1, SameActions DEF CgiProof!Next
  <2> QED
    BY <1>1, <2>1 DEF LoopStep, CallScript
<1>2. CASE ScriptStep
  <2>1. Cgi!Proceed
    BY <1>2 DEF ScriptStep
  <2> QED
    BY <2>1, SameActions DEF CgiProof!Next
<1>3. ASSUME NEW c \in Conns, UNCHANGED cgi PROVE UNCHANGED CgiProof!vars
  BY <1>3
<1>4. ASSUME NEW r \in Runs, ChildStep(r) PROVE CgiProof!Next
  <2>1. r \in CgiProof!Runs
    BY DEF Runs, CgiProof!Runs
  <2> QED
    BY <1>4, <2>1, SameActions DEF ChildStep, CgiProof!Next
<1>5. CASE UNCHANGED all
  BY <1>5 DEF all
<1> QED
  BY <1>1, <1>2, <1>3, <1>4, <1>5 DEF WNext

LEMMA CgiStep == CgiProof!IInv /\ [WNext]_all => CgiProof!IInv'
  BY ScriptsStep, CgiAssumptions, CgiProof!StepInv

LEMMA CgiInit == WInit => CgiProof!IInv
  BY SameActions, CgiAssumptions, CgiProof!InitInv DEF WInit

\* Each call was made with the body of a request, as it was sent.
AskedRight ==
  /\ asked \in Seq([conn : Conns, header : Headers]) /\ Len(asked) = Len(calls)
  /\ \A r \in DOMAIN asked : SentWith(asked[r], calls[r].body)

WInv ==
  /\ AInv /\ CgiProof!IInv
  /\ AskedRight
  /\ cgi_pc = "dead" => pc = "stopped"

(* The request a script is called for was read as it was sent.              *)
LEMMA ReadBeforeCall ==
  ASSUME AInv', pc' = "script", NEW client, client = clnt_socks'[current']
  PROVE  /\ client.conn \in Conns /\ client.request \in Request
         /\ GoodRequest(client.conn, client.request)
<1>1. /\ current' \in Fds /\ client # Null /\ client \in Client
      /\ client.request \in Request /\ client.request.code = "200"
  BY DEF AInv, IInv, GoodState, ScriptForRequest, RunsScript, Waiting, GoodClient
<1>2. /\ RequestReady(client) /\ client.request = buildRequest(client.parser)
      /\ ReadSoFar(client.parser, client.conn, got'[client.conn])
  BY <1>1 DEF AInv, RInv, ScriptReads, ReadyWith, RightClients, RightClient
<1>3. client.parser.status = "DONE"
  BY <1>1, <1>2 DEF RequestReady, buildRequest, finished, errorOccured, ReadSoFar
<1> QED
  BY <1>1, <1>2, <1>3 DEF ReadSoFar, Client

LEMMA CallKeepsRight ==
  ASSUME WInv, AInv', CallScript, pc' = "script"
  PROVE  AskedRight'
<1> DEFINE client == clnt_socks'[current']
           call == [conn |-> client.conn, header |-> client.request.header]
           n == Len(client.request.body)
<1>1. /\ client.conn \in Conns /\ client.request \in Request
      /\ GoodRequest(client.conn, client.request)
  BY ReadBeforeCall
<1>2. call \in [conn : Conns, header : Headers] /\ SentWith(call, n)
  <2> DEFINE h == client.request.header
             b == client.request.body
  <2>1. h \in Headers /\ h \in Piece /\ h = Stream[client.conn][h.pos] /\ n = Len(b)
    BY <1>1 DEF GoodRequest, Request
  <2>2. CASE Header[h.req].chunked
    <3>1. PICK m \in 0..n :
            /\ \A j \in 1..m : b[j] = ContentUnit(client.conn, h, j)
            /\ \A j \in 1..m : b[j].kind = "data"
            /\ \/ m = n /\ EndsChunks(client.conn, h, m + 1)
               \/ CutsChunks(client.conn, h, m + 1)
      BY <1>1, <2>2 DEF GoodRequest
    <3>2. \A j \in 1..m : ContentUnit(client.conn, h, j).kind = "data"
      BY <3>1
    <3>3. call.conn = client.conn /\ call.header = h
      OBVIOUS
    <3> HIDE DEF n, h, b, call
    <3>4. SentWith(call, n)
      BY <2>1, <2>2, <3>1, <3>2, <3>3, Zenon DEF SentWith
    <3> QED
      BY <1>1, <2>1, <3>4 DEF call, h
  <2>3. CASE ~Header[h.req].chunked
    <3>1. n = contentLength(Header[h.req])
      BY <1>1, <2>3 DEF GoodRequest
    <3> HIDE DEF n
    <3> QED
      BY <1>1, <2>1, <2>3, <3>1 DEF SentWith
  <2> QED
    BY <2>2, <2>3
<1>3. PICK c : calls' = Append(calls, c)
  BY DEF CallScript, Cgi!Call
<1>4. calls'[run + 1].body = n /\ asked' = Append(asked, call)
  BY DEF CallScript
<1>5. calls \in Seq([body : 0..MaxBody, script : {ScriptOf[r] : r \in DOMAIN ScriptOf}])
  BY DEF WInv, CgiProof!IInv, CgiProof!TypeOK
<1>6. /\ asked \in Seq([conn : Conns, header : Headers]) /\ Len(asked) = Len(calls)
      /\ \A r \in DOMAIN asked : SentWith(asked[r], calls[r].body)
  BY DEF WInv, AskedRight
<1> HIDE DEF call, n, client
<1>7. /\ asked' \in Seq([conn : Conns, header : Headers]) /\ Len(asked') = Len(asked) + 1
      /\ \A r \in 1..Len(asked) : asked'[r] = asked[r]
      /\ asked'[Len(asked) + 1] = call
  BY <1>2, <1>4, <1>6, AppendProperties
<1>8. Len(calls') = Len(calls) + 1 /\ \A r \in 1..Len(calls) : calls'[r] = calls[r]
  BY <1>3, <1>5, AppendProperties
<1>9. ASSUME NEW r \in DOMAIN asked' PROVE SentWith(asked'[r], calls'[r].body)
  <2>1. Len(asked) \in Nat /\ DOMAIN asked = 1..Len(asked) /\ DOMAIN asked' = 1..(Len(asked) + 1)
    BY <1>6, <1>7, LenProperties
  <2>2. CASE r \in 1..Len(asked)
    BY <1>6, <1>7, <1>8, <2>1, <2>2
  <2>3. CASE r = Len(asked) + 1
    BY <1>2, <1>4, <1>6, <1>7, <2>3 DEF run
  <2> QED
    BY <2>1, <2>2, <2>3
<1> QED
  BY <1>6, <1>7, <1>8, <1>9 DEF AskedRight, SentWith

LEMMA ProcessScriptStep == WInv /\ [WNext]_all => WInv'
<1> SUFFICES ASSUME WInv, [WNext]_all PROVE WInv'
  OBVIOUS
<1>1. AInv'
  BY ProcessStep, AnswerStep DEF WInv
<1>2. CgiProof!IInv'
  BY CgiStep DEF WInv
<1>3. AskedRight'
  <2>1. CASE UNCHANGED <<asked, calls>>
    BY <2>1 DEF WInv, AskedRight, SentWith
  <2>2. CASE LoopStep
    <3>1. CASE pc' = "script"
      BY <1>1, <2>2, <3>1, CallKeepsRight DEF LoopStep
    <3>2. CASE pc' # "script"
      BY <2>1, <2>2, <3>2 DEF LoopStep, cgi
    <3> QED
      BY <3>1, <3>2
  <2>3. CASE ScriptStep
    <3>1. UNCHANGED <<asked, calls>>
      BY <2>3
         DEF ScriptStep, Cgi!Proceed, Cgi!CreatePipe, Cgi!CreatePipeFails,
             Cgi!UnknownExtension, Cgi!Fork, Cgi!ForkFails, Cgi!CloseTheirEnds,
             Cgi!WriteBody, Cgi!WriteBodyKills, Cgi!EndBody, Cgi!ReadOutput,
             Cgi!ReadOverruns, Cgi!Die
    <3> QED
      BY <2>1, <3>1
  <2>4. ASSUME NEW r \in Runs, ChildStep(r) PROVE UNCHANGED <<asked, calls>>
    BY <2>4
       DEF ChildStep, Cgi!ChildProceeds, Cgi!ChildStdin, Cgi!ChildStdout,
           Cgi!ChildExec, Cgi!ChildExecFails, Cgi!ScriptReads, Cgi!ScriptReadsEof,
           Cgi!ScriptWrites, Cgi!ScriptKilled, Cgi!ScriptExits, Cgi!ChildEnds
  <2> QED
    BY <2>1, <2>2, <2>3, <2>4 DEF WNext, all, cgi
<1>4. cgi_pc' = "dead" => pc' = "stopped"
  <2>1. cgi_pc = "dead" => pc = "stopped"
    BY DEF WInv
  <2>2. CASE LoopStep
    <3>1. pc # "stopped"
      BY <2>2
         DEF LoopStep, Loop, OpenListener, OpenListenerFails, StartRunning, Select,
             HandleReadEvent, ReadEventsDone, HandleWriteEvent, WriteEventsDone,
             DestroyClients
    <3>2. cgi_pc' # "dead"
      BY <2>1, <2>2, <3>1 DEF LoopStep, CallScript, Cgi!Call, cgi
    <3> QED
      BY <3>2
  <2>3. CASE ScriptStep
    BY <2>3 DEF ScriptStep, Stop
  <2>4. ASSUME NEW c \in Conns, ClientStep(c), UNCHANGED cgi PROVE UNCHANGED <<cgi_pc, pc>>
    BY <2>4
       DEF cgi, ClientStep, Connect, Send, ReadAnswers, HalfClose, Leave,
           server
  <2>5. ASSUME NEW r \in Runs, ChildStep(r) PROVE UNCHANGED <<cgi_pc, pc>>
    BY <2>5
       DEF ChildStep, Cgi!ChildProceeds, Cgi!ChildStdin, Cgi!ChildStdout,
           Cgi!ChildExec, Cgi!ChildExecFails, Cgi!ScriptReads, Cgi!ScriptReadsEof,
           Cgi!ScriptWrites, Cgi!ScriptKilled, Cgi!ScriptExits, Cgi!ChildEnds,
           vars, server
  <2> QED
    BY <2>1, <2>2, <2>3, <2>4, <2>5 DEF WNext, all, cgi, vars, server
<1> QED
  BY <1>1, <1>2, <1>3, <1>4 DEF WInv

(* A script that meets the end of its input has been given the body of the  *)
(* request it was called for, as its client sent it: read in whatever       *)
(* segments, written to whatever pipe, beside other clients and scripts.    *)
THEOREM ProcessFeedsScripts == WSpec => []ScriptGetsWhatWasSent
<1>1. WInit => WInv
  BY AnswerInit, CgiInit, EmptySeq DEF WInit, WInv, AskedRight, Cgi!Init
<1>2. ASSUME WInv PROVE ScriptGetsWhatWasSent
  <2> SUFFICES ASSUME NEW r \in DOMAIN asked, child[r].eof, pc # "stopped"
               PROVE  SentWith(asked[r], child[r].taken)
    BY DEF ScriptGetsWhatWasSent
  <2>1. r \in CgiProof!Runs
    <3>1. /\ DOMAIN asked = 1..Len(asked) /\ Len(asked) \in Nat
          /\ Len(asked) = Len(calls)
      BY <1>2, LenProperties DEF WInv, AskedRight
    <3>2. Len(calls) <= MaxRuns /\ MaxRuns \in Nat
      BY <1>2, ScriptsAssumption DEF WInv, CgiProof!IInv, CgiProof!TypeOK, CgiProof!run
    <3> QED
      BY <3>1, <3>2 DEF CgiProof!Runs
  <2>2. child[r].taken = calls[r].body
    BY <1>2, <2>1 DEF WInv, CgiProof!IInv, CgiProof!ScriptGetsWholeBody, CgiProof!body
  <2> QED
    BY <1>2, <2>2 DEF WInv, AskedRight
<1> QED
  BY <1>1, <1>2, ProcessScriptStep, PTL DEF WSpec

(* With the loop around it, too, the code of CGI::run leaves no end of a    *)
(* pipe behind, dies by a write only of a script that ended early, and      *)
(* waits for a script that waits for it only with both pipes full.          *)
THEOREM ProcessPipesCorrect ==
  WSpec => [](/\ CgiProof!OwnPipesOnly
              /\ CgiProof!KilledOnlyByEndedScript
              /\ CgiProof!WaitOnlyOnFullPipes)
<1>1. CgiProof!IInv => /\ CgiProof!OwnPipesOnly
                       /\ CgiProof!KilledOnlyByEndedScript
                       /\ CgiProof!WaitOnlyOnFullPipes
  BY CgiAssumptions, CgiProof!OwnPipes, CgiProof!WaitsAreFull
     DEF CgiProof!IInv, CgiProof!DeadForCause, CgiProof!KilledOnlyByEndedScript
<1> QED
  BY <1>1, CgiInit, CgiStep, PTL DEF WSpec
=============================================================================
