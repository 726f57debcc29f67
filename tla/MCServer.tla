------------------------------- MODULE MCServer -------------------------------
(***************************************************************************)
(* Instances of Server for TLC.                                            *)
(***************************************************************************)
EXTENDS Server

\* Two blocks share a port, one between them has a port of its own.
MCServers ==
  << [port |-> 80, names |-> {"a"}],
     [port |-> 81, names |-> {"b"}],
     [port |-> 80, names |-> {"b"}] >>

Plain(host, n) ==
  [code |-> "200", slash |-> TRUE, chunked |-> FALSE, length |-> n,
   numeric |-> TRUE, host |-> host, cgi |-> FALSE,
   fatal |-> FALSE, outcome |-> {"200"}, size |-> 1]

AllHeaders ==
  [get    |-> Plain("a", 0),
   post   |-> [Plain("b", 1) EXCEPT !.cgi = TRUE],
   chunks |-> [Plain("b", 0) EXCEPT !.chunked = TRUE],
   old    |-> [Plain("a", 0) EXCEPT !.code = "505"],
   minus  |-> Plain("a", -1),
   large  |-> [Plain("a", 0) EXCEPT !.size = 5],
   fatal  |-> [Plain("a", 0) EXCEPT !.cgi = TRUE, !.fatal = TRUE]]
MCHeader == [r \in Requests |-> AllHeaders[r]]

\* The pieces of a request with this content, and of several in a row.
Text(req, content) ==
  [i \in 1..(2 + Len(content)) |->
     [req |-> req, kind |-> (<<"line", "fields">> \o content)[i], pos |-> 0]]
Placed(text) == [i \in DOMAIN text |-> [text[i] EXCEPT !.pos = i]]

AnyCut == [c \in Conns |-> DOMAIN Stream[c]]
\* A header, and a body framed by its length, is not cut.
WholeCut ==
  [c \in Conns |->
     {i \in DOMAIN Stream[c] :
        /\ Stream[c][i].kind # "line"
        /\ \/ i = Len(Stream[c]) \/ Stream[c][i + 1].kind = "line"
           \/ Header[Stream[c][i].req].chunked}]

AllPorts == [c1 |-> 80, c2 |-> 81, c3 |-> 80]
MCPort == [c \in Conns |-> AllPorts[c]]

OneByOne ==
  [c1 |-> Placed(Text("chunks", <<"data", "data", "last">>) \o Text("get", <<>>)),
   c2 |-> Placed(Text("post", <<"data">>) \o Text("minus", <<"data">>)
                \o Text("old", <<>>))]

\* A line 0 that is not the last, a NUL, and a request for another block.
Tangled ==
  [c \in Conns |->
     Placed(Text("chunks", <<"data", "zero", "last">>) \o Text("minus", <<"data">>)
            \o Text("chunks", <<"data", "nul", "data", "last">>))]

Short ==
  [c1 |-> Placed(Text("get", <<>>)),
   c2 |-> Placed(Text("large", <<>>)),
   c3 |-> Placed(Text("fatal", <<>>))]
=============================================================================
