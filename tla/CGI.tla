--------------------------------- MODULE CGI ---------------------------------
(***************************************************************************)
(* src/response/CGI: the server forks a script, writes the request's body  *)
(* into one pipe and takes the script's output from another with a single  *)
(* read.  Parent and child run side by side; a child is never waited for,  *)
(* so the script of one request may outlive its answer and meet the next.  *)
(*                                                                         *)
(* The body is counted in units; the output is made of units that the      *)
(* header parser of CGIParser tells apart.                                 *)
(***************************************************************************)
EXTENDS Naturals, SequencesExt

CONSTANTS
  PipeCap,    \* units that a pipe holds
  BufSize,    \* BUF_SIZE, in units
  Scarce,     \* whether descriptors and processes may run short
  BodySizes,  \* sizes of the requests' bodies
  Scripts,    \* the scripts that may be asked for
  MaxRuns,    \* bound: requests for a script
  NoText      \* no response yet

\* A field is "name" and "value", or comes in one; "text" is any other line.
Units == {"field", "name", "value", "blank", "text", "nul"}
Inputs == {"read", "drain"}

\* known: the extension is in EXEC_PATHS; exec: execve() finds the program.
\* steps: what the script does, taking one unit or all there is from its
\* standard input, and writing units.
Script == [known : BOOLEAN, exec : BOOLEAN, steps : Seq(Units \cup Inputs)]

ASSUME PipeAssumption == PipeCap \in Nat \ {0} /\ BufSize \in Nat \ {0}
ASSUME BoundsAssumption == MaxRuns \in Nat /\ Scarce \in BOOLEAN
ASSUME ScriptsAssumption == Scripts \subseteq Script /\ BodySizes \subseteq Nat
ASSUME NoTextAssumption == NoText \notin Seq(Units)

VARIABLES
  pc,       \* where buildCGIResponse is; "idle" between two requests
  calls,    \* the requests made so far; the last one is the current one
  held,     \* the pipe ends that each process has open
  written,  \* units of each body written to the script
  c2p,      \* output each script wrote and nobody read
  child,    \* the forked processes
  text,     \* cgi_response_ of each request
  why       \* what ended the server

vars == <<pc, calls, held, written, c2p, child, text, why>>

Runs == 1..MaxRuns
Parent == 0
run == Len(calls)
body(r) == calls[r].body
script(r) == calls[r].script
P2C(end) == <<run, "p2c", end>>
C2P(end) == <<run, "c2p", end>>
BothPipes == {P2C("read"), P2C("write"), C2P("read"), C2P("write")}
IsOpen(end) == \E p \in DOMAIN held : end \in held[p]
InPipe(r) == written[r] - child[r].taken
Without(p, ends) == [held EXCEPT ![p] = @ \ ends]

Init ==
  /\ pc = "idle" /\ why = "running"
  /\ calls = <<>>
  /\ held = [p \in {Parent} \cup Runs |-> {}]
  /\ written = [r \in Runs |-> 0]
  /\ c2p = [r \in Runs |-> <<>>]
  /\ child = [r \in Runs |-> [at |-> "none", step |-> 1, taken |-> 0, eof |-> FALSE]]
  /\ text = [r \in Runs |-> NoText]

\* The process is gone, by a signal or by an int that nobody catches.
Die(reason) ==
  /\ pc' = "dead" /\ why' = reason
  /\ held' = [held EXCEPT ![Parent] = {}]
  /\ UNCHANGED <<calls, written, c2p, child, text>>

-------------------------------------------------------------------------------
(* The server *)

\* A request for a script reaches CGI::run.
Call ==
  /\ pc = "idle" /\ run < MaxRuns
  /\ \E n \in BodySizes, s \in Scripts :
       calls' = Append(calls, [body |-> n, script |-> s])
  /\ pc' = "pipe"
  /\ UNCHANGED <<held, written, c2p, child, text, why>>

CreatePipe ==
  /\ pc = "pipe"
  /\ held' = [held EXCEPT ![Parent] = @ \cup BothPipes]
  /\ pc' = "fork"
  /\ UNCHANGED <<calls, written, c2p, child, text, why>>

CreatePipeFails == pc = "pipe" /\ Scarce /\ Die("pipe")

\* EXEC_PATHS.find() is end(), and is dereferenced.  The outcomes are a crash,
\* and a path that execve() will not find (ChildExecFails).
UnknownExtension == pc = "pipe" /\ ~script(run).known /\ Die("extension")

Fork ==
  /\ pc = "fork"
  /\ child' = [child EXCEPT ![run].at = "stdin"]
  /\ held' = [held EXCEPT ![run] = held[Parent]]
  /\ pc' = "close"
  /\ UNCHANGED <<calls, written, c2p, text, why>>

\* Children are never waited for and fill the process table (RLIMIT_NPROC).
ForkFails == pc = "fork" /\ Scarce /\ Die("fork")

\* (mutant) the parent keeps the end that the script writes to
CloseTheReadEnd ==
  /\ pc = "close"
  /\ held' = Without(Parent, {P2C("read")})
  /\ pc' = "write"
  /\ UNCHANGED <<calls, written, c2p, child, text, why>>

CloseTheirEnds ==
  /\ pc = "close"
  /\ held' = Without(Parent, {P2C("read"), C2P("write")})
  /\ pc' = "write"
  /\ UNCHANGED <<calls, written, c2p, child, text, why>>

\* (mutant) the NUL of c_str() is written too
BodyAndNulLeft == written[run] <= body(run)
BodyLeft == written[run] < body(run)

\* write() blocks while the pipe is full.
WriteBody ==
  /\ pc = "write" /\ BodyLeft
  /\ IsOpen(P2C("read")) /\ InPipe(run) < PipeCap
  /\ written' = [written EXCEPT ![run] = @ + 1]
  /\ UNCHANGED <<pc, calls, held, c2p, child, text, why>>

\* Nobody can read any more: SIGPIPE is not handled.
WriteBodyKills ==
  /\ pc = "write" /\ BodyLeft
  /\ ~IsOpen(P2C("read"))
  /\ Die("sigpipe")

\* (mutant) a write that does not wait for the script
PipeFilled == ~BodyLeft \/ InPipe(run) = PipeCap
BodySent == ~BodyLeft

EndBody ==
  /\ pc = "write" /\ BodySent
  /\ held' = Without(Parent, {P2C("write")})
  /\ pc' = "read"
  /\ UNCHANGED <<calls, written, c2p, child, text, why>>

\* (mutant) a read that does not wait for the script
ReadyAlways == pc = "read"

\* read() waits for some output, or for the end of it.
OutputReady ==
  /\ pc = "read"
  /\ c2p[run] # <<>> \/ ~IsOpen(C2P("write"))

\* What one read() leaves in buf, as the std::string made of it.
Received == SubSeq(c2p[run], 1, Min({BufSize, Len(c2p[run])}))
UpTo(t, mark) == SubSeq(t, 1, SelectInSeq(t, LAMBDA u : u = mark) - 1)
CString(t) == IF "nul" \in ToSet(t) THEN UpTo(t, "nul") ELSE t

\* (mutant) the pipe is not closed after the answer
ReadKeepingPipe ==
  /\ OutputReady
  /\ text' = [text EXCEPT ![run] = CString(Received)]
  /\ c2p' = [c2p EXCEPT ![run] = SubSeq(@, Len(Received) + 1, Len(@))]
  /\ pc' = "idle"
  /\ UNCHANGED <<calls, held, written, child, why>>

ReadOutput ==
  /\ OutputReady
  /\ text' = [text EXCEPT ![run] = CString(Received)]
  /\ c2p' = [c2p EXCEPT ![run] = SubSeq(@, Len(Received) + 1, Len(@))]
  /\ held' = Without(Parent, {C2P("read")})
  /\ pc' = "idle"
  /\ UNCHANGED <<calls, written, child, why>>

\* buf[read_size] lies behind buf when the buffer is full: the string is the
\* same (ReadOutput), or the process does not survive the write.
ReadOverruns ==
  /\ OutputReady /\ Len(Received) = BufSize
  /\ Die("overrun")

-------------------------------------------------------------------------------
(* A child *)

\* (mutant) the child keeps the end that the server writes to
StdinKeepingWriteEnd(r) ==
  /\ child[r].at = "stdin"
  /\ child' = [child EXCEPT ![r].at = "stdout"]
  /\ UNCHANGED <<pc, calls, held, written, c2p, text, why>>

\* (mutant) the read end is closed before it is duplicated
StdinClosedFirst(r) ==
  /\ child[r].at = "stdin"
  /\ held' = Without(r, {<<r, "p2c", "read">>, <<r, "p2c", "write">>})
  /\ child' = [child EXCEPT ![r].at = "stdout"]
  /\ UNCHANGED <<pc, calls, written, c2p, text, why>>

\* dup2() and two close(): the read end stays open as standard input.
ChildStdin(r) ==
  /\ child[r].at = "stdin"
  /\ held' = Without(r, {<<r, "p2c", "write">>})
  /\ child' = [child EXCEPT ![r].at = "stdout"]
  /\ UNCHANGED <<pc, calls, written, c2p, text, why>>

ChildStdout(r) ==
  /\ child[r].at = "stdout"
  /\ held' = Without(r, {<<r, "c2p", "read">>})
  /\ child' = [child EXCEPT ![r].at = "exec"]
  /\ UNCHANGED <<pc, calls, written, c2p, text, why>>

Executable(r) == script(r).known /\ script(r).exec

ChildExec(r) ==
  /\ child[r].at = "exec" /\ Executable(r)
  /\ child' = [child EXCEPT ![r].at = "script"]
  /\ UNCHANGED <<pc, calls, held, written, c2p, text, why>>

ChildEnds(r) ==
  /\ child' = [child EXCEPT ![r].at = "ended"]
  /\ held' = [held EXCEPT ![r] = {}]
  /\ UNCHANGED <<pc, calls, written, c2p, text, why>>

\* throw -1 in the child
ChildExecFails(r) == child[r].at = "exec" /\ ~Executable(r) /\ ChildEnds(r)

Running(r) == child[r].at = "script" /\ child[r].step <= Len(script(r).steps)
Op(r) == script(r).steps[child[r].step]
Advanced(r) == child[r].step + 1

ScriptReads(r) ==
  /\ Running(r) /\ Op(r) \in Inputs /\ InPipe(r) > 0
  /\ child' = [child EXCEPT ![r].taken = @ + 1,
                            ![r].step = IF Op(r) = "read" THEN Advanced(r) ELSE @]
  /\ UNCHANGED <<pc, calls, held, written, c2p, text, why>>

ScriptReadsEof(r) ==
  /\ Running(r) /\ Op(r) \in Inputs /\ InPipe(r) = 0
  /\ ~IsOpen(<<r, "p2c", "write">>)
  /\ child' = [child EXCEPT ![r].eof = TRUE, ![r].step = Advanced(r)]
  /\ UNCHANGED <<pc, calls, held, written, c2p, text, why>>

ScriptWrites(r) ==
  /\ Running(r) /\ Op(r) \in Units /\ Len(c2p[r]) < PipeCap
  /\ IsOpen(<<r, "c2p", "read">>)
  /\ c2p' = [c2p EXCEPT ![r] = Append(@, Op(r))]
  /\ child' = [child EXCEPT ![r].step = Advanced(r)]
  /\ UNCHANGED <<pc, calls, held, written, text, why>>

\* The server has taken its answer: SIGPIPE.
ScriptKilled(r) ==
  /\ Running(r) /\ Op(r) \in Units
  /\ ~IsOpen(<<r, "c2p", "read">>)
  /\ ChildEnds(r)

ScriptExits(r) == child[r].at = "script" /\ ~Running(r) /\ ChildEnds(r)

-------------------------------------------------------------------------------

Proceed ==
  \/ CreatePipe \/ CreatePipeFails \/ UnknownExtension \/ Fork \/ ForkFails
  \/ CloseTheirEnds \/ WriteBody \/ WriteBodyKills \/ EndBody
  \/ ReadOutput \/ ReadOverruns

ChildProceeds(r) ==
  \/ ChildStdin(r) \/ ChildStdout(r) \/ ChildExec(r) \/ ChildExecFails(r)
  \/ ScriptReads(r) \/ ScriptReadsEof(r) \/ ScriptWrites(r)
  \/ ScriptKilled(r) \/ ScriptExits(r)

Next == Call \/ Proceed \/ \E r \in Runs : ChildProceeds(r)

\* Both processes are scheduled; a script does not sleep for ever.
Fairness == WF_vars(Proceed) /\ \A r \in Runs : WF_vars(ChildProceeds(r))

Spec == Init /\ [][Next]_vars /\ Fairness

-------------------------------------------------------------------------------
(* CGIParser::parse, over the text of a response *)

\* (mutant) the empty line is taken for a field
HeaderToTheEnd(t) == t

\* parseHeaderField: the lines before the first empty one.
HeaderPart(t) == IF "blank" \in ToSet(t) THEN UpTo(t, "blank") ELSE t

\* makeHeaderFieldPair: substr() throws when the line ends at the colon.
Throws(t) ==
  LET h == HeaderPart(t)
  IN  \E i \in DOMAIN h : h[i] = "name" /\ (i = Len(h) \/ h[i + 1] # "value")

\* parseBody: what is left in the stream.
BodyPart(t) == SubSeq(t, Len(HeaderPart(t)) + 2, Len(t))

-------------------------------------------------------------------------------
(* Properties *)

Ends == Runs \X {"p2c", "c2p"} \X {"read", "write"}

\* Types of all variables; no more is written than the body has, and no pipe
\* holds more than it can.
TypeOK ==
  /\ pc \in {"idle", "pipe", "fork", "close", "write", "read", "dead"}
  /\ why \in {"running", "pipe", "extension", "fork", "sigpipe", "overrun"}
  /\ calls \in Seq([body : BodySizes, script : Scripts]) /\ run <= MaxRuns
  /\ held \in [{Parent} \cup Runs -> SUBSET Ends]
  /\ written \in [Runs -> Nat]
  /\ \A r \in Runs : written[r] <= IF r <= run THEN body(r) ELSE 0
  /\ c2p \in [Runs -> Seq(Units)]
  /\ \A r \in Runs : Len(c2p[r]) <= PipeCap
  /\ child \in [Runs -> [at : {"none", "stdin", "stdout", "exec", "script", "ended"},
                         step : Nat \ {0}, taken : Nat, eof : BOOLEAN]]
  /\ text \in [Runs -> Seq(Units) \cup {NoText}]

\* A script that meets the end of its input has been given the whole body of
\* its request, unless the server is gone.
ScriptGetsWholeBody ==
  \A r \in Runs : child[r].eof => child[r].taken = body(r) \/ pc = "dead"

\* What a script with these steps has written after the first n of them.
Emitted(steps) ==
  LET after[n \in 0..Len(steps)] ==
        IF n = 0 THEN <<>>
        ELSE IF steps[n] \in Units THEN Append(after[n - 1], steps[n])
        ELSE after[n - 1]
  IN  after

Output(r) == Emitted(script(r).steps)[Len(script(r).steps)]

\* What is answered is what the request's own script wrote, from its
\* beginning on; and nothing only where there was nothing to wait for.
AnswerIsPrefixOfOutput ==
  \A r \in Runs :
    text[r] # NoText =>
      /\ IsPrefix(text[r], Output(r))
      /\ text[r] = <<>> =>
           ~Executable(r) \/ Output(r) = <<>> \/ Output(r)[1] = "nul"

\* The server is not killed by a write to a script that still runs, nor after
\* its script has had the whole body.
KilledOnlyByEndedScript ==
  why = "sigpipe" => child[run].at = "ended" /\ child[run].taken < body(run)

\* No process keeps an end of a pipe that belongs to the request of another:
\* not the server between two requests, and not a script.
OwnPipesOnly ==
  /\ pc = "idle" => held[Parent] = {}
  /\ \A r \in Runs : \A end \in held[r] : end[1] = r

\* A script that reads before it writes, or a body that fits into the pipe.
ReadsFirst(s) ==
  \A i \in DOMAIN s.steps : s.steps[i] \in Units =>
    \E j \in 1..(i - 1) : s.steps[j] = "drain"
Cooperative(r) == body(r) <= PipeCap \/ ReadsFirst(script(r))

ServerWaits ==
  \/ pc = "write" /\ BodyLeft /\ IsOpen(P2C("read"))
     /\ InPipe(run) = PipeCap
  \/ pc = "read" /\ c2p[run] = <<>> /\ IsOpen(C2P("write"))
ScriptWaits(r) ==
  /\ Running(r)
  /\ \/ Op(r) \in Inputs /\ InPipe(r) = 0 /\ IsOpen(<<r, "p2c", "write">>)
     \/ Op(r) \in Units /\ Len(c2p[r]) = PipeCap /\ IsOpen(<<r, "c2p", "read">>)

\* Server and script wait for each other only when both pipes are full: a
\* body beyond the pipe's capacity sent to a script that writes before it has
\* read.
WaitOnlyOnFullPipes ==
  ServerWaits /\ ScriptWaits(run) =>
    /\ ~Cooperative(run)
    /\ InPipe(run) = PipeCap /\ Len(c2p[run]) = PipeCap

\* Every field in front of the first empty line has its value.
WellFormed(output) ==
  \A i \in DOMAIN output :
    output[i] = "name" /\ "blank" \notin ToSet(SubSeq(output, 1, i)) =>
      i < Len(output) /\ output[i + 1] = "value"

\* A script whose output is well formed is refused only when the one read has
\* cut that output short, whatever its body looks like.
RefusedOnlyWhenCut ==
  \A r \in Runs :
    text[r] # NoText /\ Throws(text[r]) /\ WellFormed(Output(r)) =>
      Len(text[r]) < Len(Output(r))

\* Every call comes back, or ends the server, when body and script cooperate.
CallReturns ==
  \A r \in Runs :
    (run = r /\ pc \notin {"idle", "dead"} /\ Cooperative(r))
      ~> (pc \in {"idle", "dead"})
=============================================================================
