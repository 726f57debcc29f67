------------------------ MODULE MCRequestHeaderParser ------------------------
(***************************************************************************)
(* Headers for RequestHeaderParser: every short request line in front of   *)
(* good fields and of none, every short field, and every three of a list   *)
(* of fields that bear on each other.                                      *)
(***************************************************************************)
EXTENDS RequestHeaderParser

LineWords == {"GET", "PUT", "/", "HTTP/1.1", "HTTP/1.0"}
Names == {"Host", "HOST", "host", "Content-Length", "content-length",
          "Transfer-Encoding", "transfer-encoding"}
Values == {"a", "80", "5", "7x", "x", "chunked", "Chunked", "@"}
MCWords == LineWords \cup Names \cup Values
MCTokenWords == Names \cup (Values \ {"@"})
MCVersions == {"HTTP/1.1", "HTTP/1.0"}
MCLower ==
  [w \in MCWords |->
     CASE w \in {"Host", "HOST"} -> "host"
       [] w = "Content-Length" -> "content-length"
       [] w = "Transfer-Encoding" -> "transfer-encoding"
       [] w = "Chunked" -> "chunked"
       [] OTHER -> w]
MCLeading == ("5" :> 5) @@ ("7x" :> 7) @@ ("80" :> 80)

\* Lines of up to n words and characters, with no two words side by side.
LinesUpTo(n, words, chars) ==
  {l \in UNION {[1..k -> words \cup chars] : k \in 0..n} :
     \A i \in 2..Len(l) : {l[i - 1], l[i]} \cap chars # {}}

Get == <<"GET", SP, "/", SP, "HTTP/1.1">>
A == <<"Host", COLON, SP, "a">>
Header(lines) == [long |-> FALSE, lines |-> Append(lines, <<>>)]

LineTexts ==
  {Header(<<l>> \o rest) :
     l \in UNION {LinesUpTo(6, LineWords, {SP}),
                  LinesUpTo(5, {"GET", "HTTP/1.1"}, {SP, TAB, COLON})},
     rest \in {<<>>, <<A>>}}

FieldTexts ==
  UNION {{Header(<<Get, l>>), Header(<<Get, A, l>>), Header(<<Get, l, A>>)} :
         l \in LinesUpTo(4, {"HOST", "x", "@"}, Char) \ {<<>>}}

Fields ==
  {A,
   <<"host", COLON, "a", COLON, "80">>,
   <<"HOST", COLON, TAB, COLON, "80", SP>>,
   <<"Host", COLON, SP>>,
   <<"Content-Length", COLON, SP, "5">>,
   <<"content-length", COLON, "7x", SP, "5", TAB>>,
   <<"Content-Length", COLON>>,
   <<"content-length", COLON, SP, "x">>,
   <<"Transfer-Encoding", COLON, SP, "chunked", SP>>,
   <<"transfer-encoding", COLON, SP, "Chunked">>,
   <<"Transfer-Encoding", COLON, SP, "x", COMMA, SP, "chunked">>,
   <<"x", SP, COLON, "a">>,
   <<"x", COLON, "Host", COLON>>}
SeveralFields ==
  {Header(<<Get>> \o rest) : rest \in UNION {[1..n -> Fields] : n \in 0..3}}

MCTexts ==
  UNION {LineTexts, FieldTexts, SeveralFields,
         {[long |-> TRUE, lines |-> <<Get, A, <<>>>>], [long |-> TRUE, lines |-> << <<>> >>],
          [long |-> FALSE, lines |-> << <<>> >>]}}
=============================================================================
