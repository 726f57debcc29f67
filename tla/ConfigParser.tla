----------------------------- MODULE ConfigParser -----------------------------
(***************************************************************************)
(* src/config/ConfigParser: the configuration file, already split at white *)
(* space, is read token by token.  A read past the last token is undefined *)
(* in the code; here the parser then stops in "undefined".                 *)
(*                                                                         *)
(* A file is what somebody wrote (doc), as written, or cut short, or with  *)
(* a token missing, or with a token or a line in it twice.  A return that  *)
(* has no status, as docs/config.md:33 shows it, is one that has lost it.  *)
(***************************************************************************)
EXTENDS Integers, SequencesExt, TLC

CONSTANTS
  Docs,      \* what may be meant: sequences of servers
  Damages,   \* bound: what may happen to the text
  Numbers,   \* what ft_stoi makes of a word; 0 of the words not in it
  Addresses, \* words with ':' in them: the parts in front of it and behind
  Unset,     \* a number that nothing was assigned to; the code leaves it open
  Slashed,   \* words that start with '/'
  DotRoots   \* words with "./" in them

VARIABLES
  doc, damage,   \* what was meant, and what became of the text
  tokens, it,    \* the text, and the iterator
  pc,            \* the function that is reading; "accepted", "rejected", ...
  why,           \* the exception
  server, flag,  \* the server being read, exist_flag
  location, l_flag,
  servers        \* serverconfigs_

\* The braces, and the empty word.
OPEN == "{"
CLOSE == "}"
EMPTY == ""

\* What may be meant, and what the words of a text are taken for.
LocationDoc ==
  [location : STRING, root : STRING, methods : Seq(STRING), indexes : Seq(STRING),
   autoindex : STRING, cgi : Seq(STRING), redirect : Seq(STRING \X STRING)]
ServerDoc ==
  [listen : STRING, names : Seq(STRING), root : STRING, limit : STRING,
   error_pages : Seq(STRING \X STRING), locations : Seq(LocationDoc)]
ASSUME DocsAssumption == Docs \subseteq Seq(ServerDoc)
ASSUME DamagesAssumption ==
  Damages \subseteq [kind : {"none"}, at : {0}]
    \cup [kind : {"cut", "drop", "twice", "line_twice"}, at : Nat \ {0}]
\* The numbers of a file have no sign: port and limit are a size_t.  An empty
\* word has no "./" in it.
ASSUME WordsAssumption ==
  /\ DOMAIN Numbers \subseteq STRING
  /\ \A word \in DOMAIN Numbers : Numbers[word] \in Nat
  /\ \A word \in DOMAIN Addresses : Addresses[word] \in STRING \X STRING
  /\ EMPTY \notin DotRoots
ASSUME UnsetAssumption == Unset \notin Int

vars == <<doc, damage, tokens, it, pc, why, server, flag, location, l_flag, servers>>
file == <<doc, damage, tokens>>

\* A word, and whether a ';' is attached to it.
W(word) == [word |-> word, semi |-> FALSE]
End(word) == [word |-> word, semi |-> TRUE]

\* The constructor leaves both numbers as they are in memory.
NewServer ==
  [host |-> W(EMPTY), port |-> Unset, names |-> <<>>, root |-> EMPTY,
   error_pages |-> <<>>, limit |-> Unset, locations |-> <<>>]
\* autoindex is not initialised.
NewLocation(path) ==
  [location |-> path, root |-> EMPTY, methods |-> <<>>, indexes |-> <<>>,
   autoindex |-> "unset", cgi |-> <<>>, redirect |-> <<>>]

-------------------------------------------------------------------------------
(* The text of a configuration, as docs/config.md lays it out. *)

One(keyword, word) == <<W(keyword), End(word)>>
Optional(keyword, word) == IF word = EMPTY THEN <<>> ELSE One(keyword, word)
Several(keyword, words) ==
  IF words = <<>> THEN <<>>
  ELSE <<W(keyword)>> \o [i \in DOMAIN words |->
                            [word |-> words[i], semi |-> i = Len(words)]]
\* One line for each of a sequence of <<status, word>> pairs.
PairTexts(keyword, pairs) ==
  [i \in DOMAIN pairs |-> <<W(keyword), W(pairs[i][1]), End(pairs[i][2])>>]
Pairs(keyword, pairs) == FlattenSeq(PairTexts(keyword, pairs))

LocationText(l) ==
  <<W("location"), W(l.location), W(OPEN)>>
    \o Optional("root", l.root) \o Several("allowed_method", l.methods)
    \o Several("index", l.indexes)
    \o (IF l.autoindex = "unset" THEN <<>> ELSE One("autoindex", l.autoindex))
    \o Several("cgi_extension", l.cgi) \o Pairs("return", l.redirect)
    \o <<W(CLOSE)>>

LocationTexts(s) == [i \in DOMAIN s.locations |-> LocationText(s.locations[i])]
ServerText(s) ==
  <<W("server"), W(OPEN)>>
    \o Optional("listen", s.listen) \o Several("server_name", s.names)
    \o Optional("root", s.root) \o Pairs("error_page", s.error_pages)
    \o Optional("client_body_size_limit", s.limit)
    \o FlattenSeq(LocationTexts(s))
    \o <<W(CLOSE)>>

ServerTexts(d) == [i \in DOMAIN d |-> ServerText(d[i])]
Text(d) == FlattenSeq(ServerTexts(d))

LineStart(text, at) ==
  1 + Max({0} \cup {i \in 1..(at - 1) : text[i].semi \/ text[i].word \in {OPEN, CLOSE}})

Damaged(text, d) ==
  CASE d.kind = "none" -> text
    [] d.kind = "cut" -> SubSeq(text, 1, d.at)
    [] d.kind = "drop" -> RemoveAt(text, d.at)
    [] d.kind = "twice" -> SubSeq(text, 1, d.at) \o SubSeq(text, d.at, Len(text))
    [] d.kind = "line_twice" ->
         SubSeq(text, 1, d.at) \o SubSeq(text, LineStart(text, d.at), Len(text))

Init ==
  /\ doc \in Docs
  /\ damage \in {d \in Damages : d.at <= Len(Text(doc))}
  /\ tokens = Damaged(Text(doc), damage) /\ it = 1
  /\ pc = "parseTokens" /\ why = "none"
  /\ server = NewServer /\ flag = {}
  /\ location = NewLocation(EMPTY) /\ l_flag = {}
  /\ servers = <<>>

-------------------------------------------------------------------------------

AtEnd == it = Len(tokens) + 1
Is(word) == ~AtEnd /\ tokens[it] = W(word)
Has(n) == it + n <= Len(tokens)
Word(n) == tokens[it + n].word

ft_stoi(word) == IF word \in DOMAIN Numbers THEN Numbers[word] ELSE 0

\* What the two substr() of parseListen take from a token.  Without a ':' both
\* find() return npos: the host is the whole token, its ';' too, and so is the
\* port, because npos + 1 is 0.
HostIn(token) ==
  IF token.word \in DOMAIN Addresses THEN W(Addresses[token.word][1]) ELSE token
PortIn(word) == IF word \in DOMAIN Addresses THEN Addresses[word][2] ELSE word

\* countContents: the words up to the one with a ';'.
Semicolons == {n \in 1..(Len(tokens) - it) : tokens[it + n].semi}
\* (mutant) one less
OneContentLess == IF Cardinality(Semicolons) = 0 THEN 0 ELSE Min(Semicolons) - 1
countContents == Min(Semicolons)
Contents == [n \in 1..countContents |-> Word(n)]

\* std::map::insert keeps what is there.
Inserted(map, key, value) ==
  [k \in DOMAIN map \cup {key} |-> IF k \in DOMAIN map THEN map[k] ELSE value]

Throw(reason) ==
  /\ pc' = "rejected" /\ why' = reason
  /\ UNCHANGED <<file, it, server, flag, location, l_flag, servers>>

ReadPastEnd ==
  /\ pc' = "undefined"
  /\ UNCHANGED <<file, it, why, server, flag, location, l_flag, servers>>

-------------------------------------------------------------------------------
(* validation *)

VALID_METHODS == <<"GET", "POST", "DELETE">>
\* Order of the words; one that is no method comes last.
Rank(word) ==
  CASE word = "DELETE" -> 1 [] word = "GET" -> 2 [] word = "POST" -> 3 [] OTHER -> 4

\* What isValidVector is there for.
IsSubset(words) == ToSet(words) \subseteq ToSet(VALID_METHODS)

\* std::includes, which takes both ranges for sorted: the j from which on the
\* words are found among the valid methods from the i-th on.
isValidVector(words) ==
  LET includes[i \in 1..4] ==
        {j \in 1..(Len(words) + 1) :
           \/ j > Len(words)
           \/ /\ j <= Len(words) /\ i <= 3
              /\ Rank(words[j]) >= Rank(VALID_METHODS[i])
              /\ (IF Rank(words[j]) = Rank(VALID_METHODS[i]) THEN j + 1 ELSE j)
                   \in includes[i + 1]}
  IN  1 \in includes[1]

isValidStatus(map) == \A status \in DOMAIN map : status > 100 /\ status < 600
isValidRoot(root) == root \notin DotRoots
\* at(0) of an empty page throws, which refuses the file as well.
isValidErrorPages(map) == \A status \in DOMAIN map : map[status] \in Slashed

\* it_x is not set back: only the first location is compared with the others.
\* Without locations it_x leaves an empty vector, and is not used.
isDupLocation(s) ==
  \E i \in DOMAIN s.locations : i > 1 /\ s.locations[i].location = s.locations[1].location

LocationProblem(l) ==
  IF ~isValidVector(l.methods) THEN "Invalid_allowed_method"
  ELSE IF ~isValidStatus(l.redirect) THEN "Invalid_return"
  ELSE IF ~isValidRoot(l.root) THEN "Invalid_root" ELSE "none"

ServerProblem ==
  IF "listen" \notin flag THEN "Need_listen_setting"
  ELSE IF isDupLocation(server) THEN "Duplicated_location"
  ELSE IF ~isValidStatus(server.error_pages) \/ ~isValidErrorPages(server.error_pages)
  THEN "Invalid_error_page"
  ELSE IF ~isValidRoot(server.root) THEN "Invalid_root" ELSE "none"

-------------------------------------------------------------------------------
(* parseTokens *)

Finish ==
  /\ pc = "parseTokens" /\ AtEnd
  /\ pc' = "accepted"
  /\ UNCHANGED <<file, it, why, server, flag, location, l_flag, servers>>

\* (mutant) exist_flag is declared outside the loop
OpenServerKeepingFlag ==
  /\ pc = "parseTokens" /\ Is("server") /\ Has(1) /\ tokens[it + 1] = W(OPEN)
  /\ server' = NewServer
  /\ pc' = "parseServer" /\ it' = it + 2
  /\ UNCHANGED <<file, why, flag, location, l_flag, servers>>

OpenServer ==
  /\ pc = "parseTokens" /\ Is("server") /\ Has(1) /\ tokens[it + 1] = W(OPEN)
  /\ server' = NewServer /\ flag' = {}
  /\ pc' = "parseServer" /\ it' = it + 2
  /\ UNCHANGED <<file, why, location, l_flag, servers>>

NoServer ==
  /\ pc = "parseTokens" /\ ~AtEnd
  /\ ~Is("server") \/ (Has(1) /\ tokens[it + 1] # W(OPEN))
  /\ Throw("Wrong_syntax")

-------------------------------------------------------------------------------
(* parseServer *)

InServer(keyword) == pc = "parseServer" /\ Is(keyword)
InLocation(keyword) == pc = "parseLocation" /\ Is(keyword)

\* A directive of a server that may stand there once, and takes one word.
Once == {"listen", "root", "client_body_size_limit"}
Given(keyword) == InServer(keyword) /\ keyword \notin flag /\ Has(1)

SetServer(new, count) ==
  /\ server' = new
  /\ it' = it + 1 + count
  /\ UNCHANGED <<file, pc, why, location, l_flag, servers>>

Duplicated ==
  \/ \E keyword \in Once : InServer(keyword) /\ keyword \in flag
       /\ Throw("Duplicated_directive")
  \/ \E keyword \in {"root", "autoindex"} : InLocation(keyword) /\ keyword \in l_flag
       /\ Throw("Duplicated_directive")

parseListen ==
  /\ Given("listen") /\ flag' = flag \cup {"listen"}
  /\ SetServer([server EXCEPT !.host = HostIn(tokens[it + 1]),
                             !.port = ft_stoi(PortIn(Word(1)))], 1)

parseRoot ==
  /\ Given("root") /\ flag' = flag \cup {"root"}
  /\ SetServer([server EXCEPT !.root = Word(1)], 1)

parseClientBodySizeLimit ==
  /\ Given("client_body_size_limit") /\ flag' = flag \cup {"client_body_size_limit"}
  /\ SetServer([server EXCEPT !.limit = ft_stoi(Word(1))], 1)

parseServerName ==
  /\ InServer("server_name") /\ Semicolons # {}
  /\ SetServer([server EXCEPT !.names = @ \o Contents], countContents)
  /\ UNCHANGED flag

parseErrorPages ==
  /\ InServer("error_page") /\ Has(2)
  /\ SetServer([server EXCEPT !.error_pages = Inserted(@, ft_stoi(Word(1)), Word(2))], 2)
  /\ UNCHANGED flag

OpenLocation ==
  /\ InServer("location") /\ Has(2) /\ tokens[it + 2] = W(OPEN)
  /\ IF Has(3)
     THEN /\ location' = NewLocation(Word(1)) /\ l_flag' = {}
          /\ pc' = "parseLocation" /\ it' = it + 3
          /\ UNCHANGED <<file, why, server, flag, servers>>
     ELSE Throw("Need_to_be_closed_by_brackets")

\* Without a '{' the token that stands there is skipped.
LocationWithoutBody ==
  /\ InServer("location") /\ Has(2) /\ tokens[it + 2] # W(OPEN)
  /\ SetServer([server EXCEPT !.locations = Append(@, NewLocation(tokens[it + 1].word))], 2)
  /\ UNCHANGED flag

CloseServer ==
  /\ InServer(CLOSE)
  /\ IF ServerProblem # "none" THEN Throw(ServerProblem)
     ELSE /\ servers' = Append(servers, server)
          /\ pc' = "parseTokens" /\ it' = it + 1
          /\ UNCHANGED <<file, why, server, flag, location, l_flag>>

\* (mutant) the loop of parseServer does not ask for the end
ServerLoopsOn ==
  /\ pc = "parseServer" /\ AtEnd
  /\ UNCHANGED vars

ServerNotClosed ==
  /\ pc = "parseServer" /\ AtEnd
  /\ Throw("Need_to_be_closed_by_brackets")

-------------------------------------------------------------------------------
(* parseLocation *)

SetLocation(new, count) ==
  /\ location' = new
  /\ it' = it + 1 + count
  /\ UNCHANGED <<file, pc, why, server, flag, servers>>

parseLocationRoot ==
  /\ InLocation("root") /\ "root" \notin l_flag /\ Has(1)
  /\ l_flag' = l_flag \cup {"root"}
  /\ SetLocation([location EXCEPT !.root = Word(1)], 1)

parseLocationAutoindexes ==
  /\ InLocation("autoindex") /\ "autoindex" \notin l_flag /\ Has(1)
  /\ IF Word(1) \in {"on", "off"}
     THEN /\ l_flag' = l_flag \cup {"autoindex"}
          /\ SetLocation([location EXCEPT !.autoindex = Word(1)], 1)
     ELSE Throw("Invalid_autoindex")

Lists == {"allowed_method", "index", "cgi_extension"}

parseLocationLists ==
  /\ \E keyword \in Lists : InLocation(keyword)
  /\ Semicolons # {}
  /\ SetLocation(
       [location EXCEPT
          !.methods = IF Is("allowed_method") THEN @ \o Contents ELSE @,
          !.indexes = IF Is("index") THEN @ \o Contents ELSE @,
          !.cgi = IF Is("cgi_extension") THEN @ \o Contents ELSE @], countContents)
  /\ UNCHANGED l_flag

parseLocationRedirect ==
  /\ InLocation("return") /\ Has(2)
  /\ SetLocation([location EXCEPT !.redirect = Inserted(@, ft_stoi(Word(1)), Word(2))], 2)
  /\ UNCHANGED l_flag

CloseLocation ==
  /\ InLocation(CLOSE)
  /\ IF LocationProblem(location) # "none" THEN Throw(LocationProblem(location))
     ELSE /\ server' = [server EXCEPT !.locations = Append(@, location)]
          /\ pc' = "parseServer" /\ it' = it + 1
          /\ UNCHANGED <<file, why, flag, location, l_flag, servers>>

\* (mutant) the end of the text closes a location, and the server
EndClosesAll ==
  /\ pc = "parseLocation" /\ AtEnd
  /\ pc' = "accepted"
  /\ UNCHANGED <<file, it, why, server, flag, location, l_flag, servers>>

\* (mutant) the end is stepped over, and reading goes on
EndSteppedOver ==
  /\ pc = "parseLocation" /\ AtEnd
  /\ pc' = "parseServer" /\ it' = it + 1
  /\ UNCHANGED <<file, why, server, flag, location, l_flag, servers>>

\* The loop ends at the last token as it does at a '}'; parseServer then
\* steps over the end.
LocationNotClosed ==
  /\ pc = "parseLocation" /\ AtEnd
  /\ IF LocationProblem(location) # "none" THEN Throw(LocationProblem(location))
                                           ELSE ReadPastEnd

-------------------------------------------------------------------------------

ServerWords ==
  Once \cup {"server_name", "error_page", "location", CLOSE}
LocationWords == Lists \cup {"root", "autoindex", "return", CLOSE}

UnknownDirective ==
  /\ ~AtEnd
  /\ \/ pc = "parseServer" /\ tokens[it] \notin {W(w) : w \in ServerWords}
        /\ Throw("Wrong_syntax")
     \/ pc = "parseLocation" /\ tokens[it] \notin {W(w) : w \in LocationWords}
        /\ Throw("Syntax_error")

\* A directive whose words the text does not have.
WordsMissing ==
  /\ ~AtEnd
  /\ \/ pc = "parseTokens" /\ Is("server") /\ ~Has(1)
     \/ \E keyword \in Once : InServer(keyword) /\ keyword \notin flag /\ ~Has(1)
     \/ InServer("error_page") /\ ~Has(2)
     \/ InServer("server_name") /\ Semicolons = {}
     \/ InServer("location") /\ ~Has(2)
     \/ \E keyword \in {"root", "autoindex"} :
          InLocation(keyword) /\ keyword \notin l_flag /\ ~Has(1)
     \/ InLocation("return") /\ ~Has(2)
     \/ (\E keyword \in Lists : InLocation(keyword)) /\ Semicolons = {}
  /\ ReadPastEnd

Next ==
  \/ Finish \/ OpenServer \/ NoServer
  \/ Duplicated \/ parseListen \/ parseRoot \/ parseClientBodySizeLimit
  \/ parseServerName \/ parseErrorPages \/ OpenLocation \/ LocationWithoutBody
  \/ CloseServer \/ ServerNotClosed
  \/ parseLocationRoot \/ parseLocationAutoindexes \/ parseLocationLists
  \/ parseLocationRedirect \/ CloseLocation \/ LocationNotClosed
  \/ UnknownDirective \/ WordsMissing

Spec == Init /\ [][Next]_vars /\ WF_vars(Next)

-------------------------------------------------------------------------------
(* What a text that is not damaged should be read as. *)

MapOf(pairs) ==
  LET Of(status) == {i \in DOMAIN pairs : ft_stoi(pairs[i][1]) = status}
  IN  [status \in {ft_stoi(pairs[i][1]) : i \in DOMAIN pairs} |->
         pairs[Min(Of(status))][2]]

LocationMeaning(l) == [l EXCEPT !.redirect = MapOf(@)]
Meaning(s) ==
  [host |-> IF s.listen = EMPTY THEN W(EMPTY) ELSE HostIn(End(s.listen)),
   port |-> IF s.listen = EMPTY THEN Unset ELSE ft_stoi(PortIn(s.listen)),
   names |-> s.names, root |-> s.root, error_pages |-> MapOf(s.error_pages),
   limit |-> IF s.limit = EMPTY THEN Unset ELSE ft_stoi(s.limit),
   locations |-> [i \in DOMAIN s.locations |-> LocationMeaning(s.locations[i])]]

\* The lists of methods that VALID_METHODS "includes".
AcceptedLists ==
  {<<>>, <<"GET">>, <<"POST">>, <<"GET", "POST">>, <<"POST", "DELETE">>,
   <<"GET", "POST", "DELETE">>}

ValidLocation(l) ==
  /\ l.methods \in AcceptedLists
  /\ DOMAIN l.redirect \subseteq 101..599
  /\ l.root \notin DotRoots
  /\ l.autoindex \in {"unset", "on", "off"}

ValidServer(s) ==
  /\ \A status \in DOMAIN s.error_pages :
       status \in 101..599 /\ s.error_pages[status] \in Slashed
  /\ s.root \notin DotRoots
  /\ \A i \in DOMAIN s.locations :
       /\ i > 1 => s.locations[i].location # s.locations[1].location
       /\ ValidLocation(s.locations[i])

ValidDoc == \A i \in DOMAIN doc : doc[i].listen # EMPTY /\ ValidServer(Meaning(doc[i]))

-------------------------------------------------------------------------------
(* Properties *)

Ended == pc \in {"accepted", "rejected", "undefined"}
Tokens(t) == {i \in DOMAIN tokens : tokens[i] = t}

\* The directive at i takes the token at j for a word of its own, if it is read.
Takes(i, j) ==
  /\ i < j /\ ~tokens[i].semi
  /\ \/ /\ tokens[i].word \in Lists \cup {"server_name"}
        /\ \A k \in (i + 1)..(j - 1) : ~tokens[k].semi
     \/ tokens[i].word \in Once \cup {"autoindex", "location"} /\ j = i + 1
     \/ tokens[i].word \in {"error_page", "return"} /\ j <= i + 2
     \/ tokens[i].word = "location" /\ j = i + 2 /\ tokens[j] # W(OPEN)
\* No directive can have taken them for a word.
Untaken(t) == {j \in Tokens(t) : \A i \in DOMAIN tokens : ~Takes(i, j)}

\* Types, and the iterator: one step past the last token is all it takes.
TypeOK ==
  /\ pc \in {"parseTokens", "parseServer", "parseLocation",
             "accepted", "rejected", "undefined"}
  /\ it \in 1..(Len(tokens) + 1)
  /\ flag \subseteq Once /\ l_flag \subseteq {"root", "autoindex"}
  /\ location.autoindex \in {"unset", "on", "off"}
  /\ pc = "rejected" <=> why # "none"

\* What was written is what is read: every valid configuration, and no other,
\* is accepted, with the values it was written with; a limit that was not
\* written stays as the constructor leaves it.
WrittenIsRead ==
  Ended /\ damage.kind = "none" =>
    IF ValidDoc THEN pc = "accepted" /\ servers = [i \in DOMAIN doc |-> Meaning(doc[i])]
                ELSE pc = "rejected"

\* Whatever was lost from the text or came into it twice, servers that are
\* accepted are valid ones, each with one listen directive of its own: one that
\* is missing can hide only among the words of another directive.
AcceptedIsValid ==
  pc = "accepted" =>
    /\ \A i \in DOMAIN servers : ValidServer(servers[i])
    /\ Cardinality(Untaken(W("listen"))) <= Len(servers)
    /\ Len(servers) <= Cardinality(Tokens(W("listen")))

\* A text with a block that is not closed is not accepted, unless the brace that
\* opens it is taken for a word.
AcceptedIsClosed ==
  pc = "accepted" => Cardinality(Untaken(W(OPEN))) <= Cardinality(Tokens(W(CLOSE)))

\* Every text is accepted or refused, or read past its end.
ParserEnds == <>Ended

\* A location that is written twice in a server is refused as duplicated.
DuplicatesRefused ==
  pc = "accepted" =>
    \A i \in DOMAIN servers :
      \A j, k \in DOMAIN servers[i].locations :
        j # k => servers[i].locations[j].location # servers[i].locations[k].location

\* GET, POST and DELETE are supported: no location is refused that allows
\* nothing else.
MethodsSupported ==
  why = "Invalid_allowed_method" => ~IsSubset(location.methods)

\* A text that ends behind a whole line, with a block that is not closed, is
\* reported, and not read past its end.
EndsWithLine == Last(tokens).semi \/ Last(tokens).word \in {OPEN, CLOSE}
CutIsReported == damage.kind = "cut" /\ EndsWithLine => pc # "undefined"
=============================================================================
