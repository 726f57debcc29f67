---------------------------- MODULE MCConfigParser ----------------------------
(***************************************************************************)
(* Instances of ConfigParser: what may be written, and how it is damaged.  *)
(***************************************************************************)
EXTENDS ConfigParser

MCNumbers == "80" :> 80 @@ "81" :> 81 @@ "404" :> 404 @@ "600" :> 600 @@ "100" :> 100
MCAddresses == "h:80" :> <<"h", "80">> @@ "h:81" :> <<"h", "81">>
MCSlashed == {"/404", "/b", "/x"}
MCDotRoots == {"../x"}

Loc(path) == NewLocation(path)
Plain(locations) ==
  [listen |-> "h:80", names |-> <<"a", "b">>, root |-> "/x", limit |-> "",
   error_pages |-> << <<"404", "/404">> >>, locations |-> locations]

UpTo(n, S) == UNION {[1..k -> S] : k \in 0..n}

\* Up to three locations with two paths.
Paths == {<<Plain([i \in DOMAIN p |-> Loc(p[i])])>> : p \in UpTo(3, {"/", "/b"})}
\* Every list of up to three methods, and those without a repetition.
WithMethods(lists) ==
  {<<Plain(<<[Loc("/") EXCEPT !.methods = m]>>)>> : m \in lists}
MethodLists == WithMethods(UpTo(3, {"GET", "POST", "DELETE", "PUT"}))
MethodSets ==
  WithMethods({m \in UpTo(3, {"GET", "POST", "DELETE", "PUT"}) : IsInjective(m)})
\* Values that are refused, and ones that come twice.
Values ==
  {<<[Plain(<<>>) EXCEPT !.error_pages = e, !.root = r, !.listen = p, !.limit = "81"]>> :
     e \in UpTo(2, {"404", "600", "100"} \X {"/404", "/b", "x"}),
     r \in {"", "/x", "../x"}, p \in {"", "80"}}
Full ==
  [Loc("/") EXCEPT !.root = "/x", !.methods = <<"GET", "POST">>,
     !.indexes = <<"a", "b">>, !.autoindex = "on", !.cgi = <<".py">>,
     !.redirect = << <<"404", "/b">> >>]
Locations ==
  {<<Plain(<<[Full EXCEPT !.root = r, !.autoindex = a, !.redirect = << <<n, "/b">> >>]>>)>> :
     r \in {"/x", "../x"}, a \in {"unset", "on", "off", "maybe"}, n \in {"404", "600"}}
Two ==
  {<<Plain(<<Full>>), [Plain(<<Loc("/"), Loc("/b")>>) EXCEPT !.listen = p, !.limit = "81"]>> :
     p \in {"", "80", "h:81"}}

Written == Paths \cup MethodLists \cup Values \cup Locations \cup Two
Damageable == Paths \cup Locations \cup Two

None == {[kind |-> "none", at |-> 0]}
AllDamages == None \cup [kind : {"cut", "drop", "twice", "line_twice"}, at : 1..50]
Cuts == [kind : {"cut"}, at : 1..50]
=============================================================================
