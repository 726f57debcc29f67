-------------------------- MODULE RequestHeaderParser --------------------------
(***************************************************************************)
(* src/request/RequestHeaderParser with RequestLineParser and              *)
(* HeaderFieldParser: the text of a header becomes a RequestHeader, or a   *)
(* status to refuse the request with.  One action per function, in the     *)
(* order of the calls: the first fault decides the status.                 *)
(*                                                                         *)
(* A line is a sequence of words and of the characters that the parsers    *)
(* look for.  Positions count from 1, so that npos, which becomes 0 when   *)
(* one is added to it, is 0 here.                                          *)
(***************************************************************************)
EXTENDS Integers, SequencesExt

CONSTANTS
  Words,        \* runs of other characters
  TokenWords,   \* the words of which every character is a header token
  Lower,        \* toLower() on words
  Leading,      \* the int that stoi() reads from a word's beginning, if any
  Versions,     \* the words HTTP/d.d
  Texts         \* the headers that may be received

SP == " "
TAB == "tab"
COLON == ":"
COMMA == ","
Char == {SP, TAB, COLON, COMMA}
OWS == {SP, TAB}
Line == Seq(Words \cup Char)

\* long: over kMaxHeaderLength.  fetchUnparsedHeader() ends the text with the
\* first CRLF CRLF: its last line is empty, and no other but perhaps the first.
Text == [long : BOOLEAN, lines : Seq(Line)]

ASSUME WordsAssumption ==
  /\ Words \cap Char = {}
  /\ TokenWords \subseteq Words
  /\ Versions \subseteq Words /\ "HTTP/1.1" \in Versions
  /\ Lower \in [Words -> Words]
  /\ DOMAIN Leading \subseteq Words /\ \A w \in DOMAIN Leading : Leading[w] \in Int
ASSUME TextsAssumption ==
  /\ Texts \subseteq Text
  /\ \A t \in Texts :
       /\ t.lines # <<>> /\ Last(t.lines) = <<>>
       /\ \A i \in DOMAIN t.lines : t.lines[i] = <<>> => i \in {1, Len(t.lines)}
       \* two words in a row would be one
       /\ \A l \in Range(t.lines) : \A i \in 2..Len(l) : {l[i - 1], l[i]} \cap Char # {}

VARIABLES
  pc,       \* the function that is called next
  text,     \* unparsed_str
  at,       \* the line that offset points to
  line,     \* RequestLine
  fields,   \* HeaderFieldMap
  host,     \* the host without its port
  status    \* of the exception, "200" without one

vars == <<pc, text, at, line, fields, host, status>>

Statuses == {"200", "400", "431", "500", "505"}
NoLine == [method |-> <<>>, uri |-> <<>>, version |-> <<>>]

Init ==
  /\ pc = "length" /\ text \in Texts
  /\ at = 1
  /\ line = NoLine /\ fields = <<>> /\ host = <<>>
  /\ status = "200"

\* (mutant) the status of the exception is not kept
RefuseSilently(code) ==
  /\ pc' = "refused"
  /\ UNCHANGED <<text, at, line, fields, host, status>>

Refuse(code) ==
  /\ pc' = "refused" /\ status' = code
  /\ UNCHANGED <<text, at, line, fields, host>>

getLine == text.lines[at]

-------------------------------------------------------------------------------
(* std::string *)

Npos == 0
FirstIn(S) == IF S = {} THEN Npos ELSE Min(S)
find_first_of(l, chars, from) == FirstIn({i \in DOMAIN l : i >= from /\ l[i] \in chars})
find_first_not_of(l, chars, from) ==
  IF from = Npos THEN Npos
  ELSE FirstIn({i \in DOMAIN l : i >= from /\ l[i] \notin chars})
\* substr(first, pos - first), which takes the rest when there is no pos
Slice(l, first, pos) == SubSeq(l, first, IF pos = Npos THEN Len(l) ELSE pos - 1)
Before(l, pos) == Slice(l, 1, pos)

\* trimCopyIf(str, OWS)
Trimmed(l) ==
  LET kept == {i \in DOMAIN l : l[i] \notin OWS}
  IN  IF kept = {} THEN <<>> ELSE SubSeq(l, Min(kept), Max(kept))

-------------------------------------------------------------------------------
(* RequestLineParser *)

MethodEnd(l) == find_first_of(l, {SP}, 1)
UriBegin(l) == find_first_not_of(l, {SP}, MethodEnd(l))
UriEnd(l) == find_first_of(l, {SP}, UriBegin(l))

\* A line without a version has the whole of itself behind npos.
RequestLine(l) ==
  [method  |-> Before(l, MethodEnd(l)),
   uri     |-> Slice(l, UriBegin(l), UriEnd(l)),
   version |-> SubSeq(l, UriEnd(l) + 1, Len(l))]

\* (mutant) the checks of the version come first
VersionFirst(l) ==
  IF UriBegin(l) = Npos THEN "500"
  ELSE LET r == RequestLine(l) IN
    IF r.version \notin {<<v>> : v \in Versions} THEN "400"
    ELSE IF r.version # <<"HTTP/1.1">> THEN "505"
    ELSE IF r.method \notin {<<"GET">>, <<"POST">>, <<"DELETE">>} THEN "400"
    ELSE "200"

\* substr(npos) throws when nothing follows the method.
LineStatus(l) ==
  IF UriBegin(l) = Npos THEN "500"
  ELSE LET r == RequestLine(l) IN
    IF r.method \notin {<<"GET">>, <<"POST">>, <<"DELETE">>} THEN "400"
    ELSE IF r.version \notin {<<v>> : v \in Versions} THEN "400"
    ELSE IF r.version # <<"HTTP/1.1">> THEN "505"
    ELSE "200"

-------------------------------------------------------------------------------
(* HeaderFieldParser *)

ColonOf(l) == find_first_of(l, {COLON}, 1)
\* A name of one word; any other is refused by validateOneHeaderField().
FieldName(l) == Lower[l[1]]
FieldValue(l) == Trimmed(SubSeq(l, ColonOf(l) + 1, Len(l)))

\* (mutant) white space between name and colon is let through
NameTrimmed(l) ==
  /\ ColonOf(l) # Npos /\ l[1] \in TokenWords
  /\ Trimmed(Before(l, ColonOf(l))) = <<l[1]>>

ValidName(l) ==
  ColonOf(l) # Npos /\ Before(l, ColonOf(l)) \in {<<w>> : w \in TokenWords}

\* A second Host is refused.
Admissible(l, map) == ValidName(l) /\ ~(FieldName(l) = "host" /\ "host" \in DOMAIN map)

\* (mutant) the last of several fields of one name counts
LastCounts(l, map) == FieldValue(l)

\* handleSameFiledName
Joined(l, map) ==
  IF FieldName(l) \in DOMAIN map
  THEN map[FieldName(l)] \o <<COMMA>> \o FieldValue(l) ELSE FieldValue(l)

\* field_map_[name] = value
With(map, name, value) ==
  [n \in {name} \cup DOMAIN map |-> IF n = name THEN value ELSE map[n]]

-------------------------------------------------------------------------------

ValidateHeaderLength ==
  /\ pc = "length"
  /\ IF text.long THEN Refuse("431")
     ELSE pc' = "line" /\ UNCHANGED <<text, at, line, fields, host, status>>

ParseRequestLine ==
  /\ pc = "line"
  /\ IF LineStatus(getLine) # "200" THEN Refuse(LineStatus(getLine))
     ELSE /\ line' = RequestLine(getLine)
          /\ at' = at + 1 /\ pc' = "fields"
          /\ UNCHANGED <<text, fields, host, status>>

ParseHeaderField ==
  /\ pc = "fields" /\ getLine # <<>>
  /\ IF ~Admissible(getLine, fields) THEN Refuse("400")
     ELSE /\ fields' = With(fields, FieldName(getLine), Joined(getLine, fields))
          /\ at' = at + 1
          /\ UNCHANGED <<pc, text, line, host, status>>

ValidateAllHeaderFields ==
  /\ pc = "fields" /\ getLine = <<>>
  /\ IF "host" \notin DOMAIN fields \/ fields["host"] = <<>> THEN Refuse("400")
     ELSE pc' = "host" /\ UNCHANGED <<text, at, line, fields, host, status>>

ParseHost ==
  /\ pc = "host"
  /\ host' = Before(fields["host"], ColonOf(fields["host"]))
  /\ pc' = "parsed"
  /\ UNCHANGED <<text, at, line, fields, status>>

Next ==
  \/ ValidateHeaderLength \/ ParseRequestLine \/ ParseHeaderField
  \/ ValidateAllHeaderFields \/ ParseHost

Spec == Init /\ [][Next]_vars

-------------------------------------------------------------------------------
(* RequestHeader: what the request parser asks of the result *)

HasLength(map) == "content-length" \in DOMAIN map
\* stoi() reads from the beginning as far as it can, and throws when that is
\* not at all.
IsNumeric(map) ==
  HasLength(map) =>
    map["content-length"] # <<>> /\ map["content-length"][1] \in DOMAIN Leading
contentLength(map) == IF HasLength(map) THEN Leading[map["content-length"][1]] ELSE 0
transferEncodingIsChunked(map) ==
  "transfer-encoding" \in DOMAIN map /\ map["transfer-encoding"] = <<"chunked">>

-------------------------------------------------------------------------------
(* What a header means, said without positions and without a map. *)

LinesOf(t) == {i \in 2..Len(t.lines) : t.lines[i] # <<>>}

\* method, spaces, a target without spaces, one space, version
WellFormedLine(l, versions) ==
  \E i, j \in DOMAIN l :
    /\ 2 <= i /\ i < j /\ Len(l) = j + 2
    /\ l[1] \in {"GET", "POST", "DELETE"}
    /\ \A k \in 2..i : l[k] = SP
    /\ \A k \in (i + 1)..j : l[k] # SP
    /\ l[j + 1] = SP /\ l[j + 2] \in versions

WellFormedField(l) == Len(l) >= 2 /\ l[1] \in TokenWords /\ l[2] = COLON

\* The fields of a name, in any case; what is written behind their colons.
Named(t, name) == {i \in LinesOf(t) : WellFormedField(t.lines[i]) /\ Lower[t.lines[i][1]] = name}
Value(t, i) == Trimmed(SubSeq(t.lines[i], 3, Len(t.lines[i])))

WellFormed(t) ==
  /\ ~t.long
  /\ WellFormedLine(t.lines[1], {"HTTP/1.1"})
  /\ \A i \in LinesOf(t) : WellFormedField(t.lines[i])
  /\ \E i \in LinesOf(t) : Named(t, "host") = {i} /\ Value(t, i) # <<>>

-------------------------------------------------------------------------------
(* Properties *)

\* Types of all variables.
TypeOK ==
  /\ pc \in {"length", "line", "fields", "host", "parsed", "refused"}
  /\ text \in Text /\ at \in DOMAIN text.lines
  /\ line \in [method : Line, uri : Line, version : Line]
  /\ DOMAIN fields \subseteq Words /\ \A name \in DOMAIN fields : fields[name] \in Line
  /\ host \in Line
  /\ status \in Statuses /\ (status = "200" <=> pc # "refused")

\* A header is accepted when it is well formed, and refused when it is not:
\* no target that is missing, no missing version whose place the whole line
\* takes (RequestLineParser.cpp:37), no name followed by white space, and no
\* second or empty Host slips through.
AcceptedIsWellFormed ==
  /\ pc = "parsed" => WellFormed(text)
  /\ pc = "refused" => ~WellFormed(text)

\* The status tells the first thing that is wrong: 431 the length, 500 a
\* request line that ends with its method, 505 a version that is the only fault
\* of the request line; everything else is 400.
RefusedForFirstFault ==
  pc = "refused" =>
    LET l == text.lines[1]
        onlyMethod == \A i, j \in DOMAIN l : i < j /\ l[i] = SP => l[j] = SP
        otherVersion == WellFormedLine(l, Versions \ {"HTTP/1.1"})
    IN  /\ status = "431" <=> text.long
        /\ status = "500" <=> ~text.long /\ onlyMethod
        /\ status = "505" <=> ~text.long /\ otherVersion

\* How an accepted header frames its body, and for which host it asks, as it
\* is written: the first Content-Length counts, whatever follows it; the body
\* is chunked when one Transfer-Encoding, and no second, says so, in lower
\* case; the host is what stands in front of the first colon, which may be
\* nothing at all.
FramedAsWritten ==
  pc = "parsed" =>
    LET lengths == Named(text, "content-length")
        codings == Named(text, "transfer-encoding")
        first == Value(text, Min(lengths))
    IN  /\ IsNumeric(fields) <=>
             (lengths # {} => first # <<>> /\ first[1] \in DOMAIN Leading)
        /\ IsNumeric(fields) =>
             contentLength(fields) = IF lengths = {} THEN 0 ELSE Leading[first[1]]
        /\ transferEncodingIsChunked(fields) <=>
             \E i \in LinesOf(text) : codings = {i} /\ Value(text, i) = <<"chunked">>
        /\ \A i \in Named(text, "host") :
             /\ IsPrefix(host, Value(text, i)) /\ COLON \notin Range(host)
             /\ host # Value(text, i) => Value(text, i)[Len(host) + 1] = COLON
=============================================================================
