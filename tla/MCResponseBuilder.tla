-------------------------- MODULE MCResponseBuilder --------------------------
(***************************************************************************)
(* Instances of ResponseBuilder: one configuration with every kind of      *)
(* location, over file systems that stand still and ones that change.      *)
(***************************************************************************)
EXTENDS ResponseBuilder, TLC

RootValue == <<"srv">>
CgiRootValue == <<"cgi-bin">>
Www == <<"www">>
Top == <<"/">>
Img == <<"/", "img", "/">>
Cgi == <<"/", "cgi", "/">>
ScriptName == <<"s", ".py">>

At(location, root, indexes, methods, extensions) ==
  [location |-> location, root |-> root, indexes |-> indexes,
   methods |-> methods, cgi_extensions |-> extensions]

\* A path that cannot be opened under the first of its two roots, indexes,
\* the same path without indexes, scripts of which one is an index, and a path
\* without a root.
MCLocations ==
  <<At(Img, <<"gone">>, <<>>, {}, {}),
    At(Top, NoRoot, << <<"a">>, <<"b">> >>, {"GET", "POST", "DELETE"}, {}),
    At(Top, Www, <<>>, {}, {}),
    At(Cgi, CgiRootValue, <<ScriptName>>, {"GET", "POST"}, {".py"}),
    At(Img, Www, <<>>, {}, {})>>

MCErrorPages ==
  "404" :> <<"/", "40x">> @@ "403" :> <<"/", "40x">> @@ "500" :> <<"/", "50x">>

MCDirs == {RootValue \o Top, Www \o Top, CgiRootValue \o Cgi, Www \o Img}

A == <<"srv", "/", "a">>
B == <<"srv", "/", "b">>
OtherA == <<"www", "/", "a">>
Index == <<"www", "/", "index.html">>
S == CgiRootValue \o Cgi \o ScriptName
Page == <<"srv", "/", "40x">>
OtherPage == <<"www", "/", "40x">>
LastPage == <<"www", "/", "50x">>
MCFiles == {A, B, OtherA, Index, S, Page, OtherPage, LastPage}

AllText == [f \in MCFiles |-> "text"]
Varied ==
  {[f \in MCFiles |->
      CASE f = A -> a [] f = B -> b [] f = OtherA -> o [] f = Index -> i
        [] f = S -> s [] f = Page -> p [] OTHER -> q] :
   a \in Kinds, b \in {"absent", "text"}, o \in {"absent", "text"},
   i \in {"absent", "dir"}, s \in {"absent", "secret", "text"},
   p \in {"absent", "empty", "text"}, q \in {"absent", "secret", "text"}}
OneFileSystem == {AllText}

Ask(method, path) == [path |-> path, method |-> method, code |-> "200"]

MCRequests ==
  {Ask(m, Top \o f) : m \in Methods, f \in {<<>>, <<"a">>}}
    \cup {Ask(m, Cgi \o ScriptName) : m \in Methods}
    \cup {Ask("GET", Cgi \o ScriptName \o <<"?", "x", "+", "y">>),
          Ask("GET", Cgi \o ScriptName \o <<"?", "x", "=", "/">>),
          Ask("GET", Cgi), Ask("GET", Img \o <<"x">>), Ask("GET", <<"/", "none", "/">>)}
    \cup {[Ask("GET", Top \o <<"a">>) EXCEPT !.code = "400"],
          Ask("GET", <<"a", "?", "/">>),
          [Ask("GET", <<>>) EXCEPT !.code = "501"]}
=============================================================================
