------------------------------- MODULE MCWebserv -------------------------------
(***************************************************************************)
(* An instance of Webserv: clients that keep to one request at a time, and *)
(* scripts that go on after their answer was taken, or write it in two     *)
(* pieces.                                                                 *)
(***************************************************************************)
EXTENDS Webserv, MCServer

Steps(s) == [known |-> TRUE, exec |-> TRUE, steps |-> s]
AllScripts ==
  [chunks |-> Steps(<<"drain", "name", "value">>),
   post   |-> Steps(<<"drain", "field">>)]
MCScriptOf == [r \in Requests \ {"minus"} |-> AllScripts[r]]

WithScripts ==
  [AllHeaders EXCEPT !.chunks.cgi = TRUE, !.chunks.outcome = {"200", "500"}]
ScriptHeader == [r \in Requests |-> WithScripts[r]]
ScriptStream ==
  [c1 |-> Placed(Text("chunks", <<"data", "last">>)
                 \o Text("chunks", <<"split", "last">>)),
   c2 |-> Placed(Text("post", <<"data">>))]
\* Of the chunked bodies only the first of a stream is cut.
FirstCut ==
  [c \in Conns |->
     {i \in WholeCut[c] :
        Begun(c, i) = 1 \/ i = Len(Stream[c]) \/ Stream[c][i + 1].kind = "line"}]

\* What AnswersItsRequests says, it says of every client that is to be patient.
ASSUME ClientsAssumption == SizesAreSane /\ ConsiderateClients = Patient
=============================================================================
