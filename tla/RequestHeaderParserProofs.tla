----------------------- MODULE RequestHeaderParserProofs -----------------------
(***************************************************************************)
(* What becomes of a header, for headers of any length and any words.      *)
(***************************************************************************)
EXTENDS RequestHeaderParser, SequenceTheorems, WellFoundedInduction, TLAPS

-------------------------------------------------------------------------------
(* The inductive invariant *)

\* The lines of fields that were read, and those with a name among them.
LinesRead == 2..(at - 1)
ReadNamed(name) == {i \in LinesRead : Lower[text.lines[i][1]] = name}

\* What the map has for a name begins with the value of the first field that
\* has it, and goes on with a comma when there are more.
StartsWithFirst(i) ==
  LET name == Lower[text.lines[i][1]]
  IN  \E more \in Line :
        /\ fields[name] = Value(text, i) \o more
        /\ more = <<>> <=> ReadNamed(name) = {i}
        /\ more # <<>> => more[1] = COMMA

FieldsRead ==
  /\ \A i \in LinesRead : WellFormedField(text.lines[i])
  /\ \A name : name \in DOMAIN fields <=> ReadNamed(name) # {}
  /\ \A i \in LinesRead :
       (\A j \in LinesRead : j < i => Lower[text.lines[j][1]] # Lower[text.lines[i][1]]) =>
         StartsWithFirst(i)
  /\ \A i, j \in ReadNamed("host") : i = j

LineRead == ~text.long /\ at # 1 /\ WellFormedLine(text.lines[1], {"HTTP/1.1"})
HostRead == getLine = <<>> /\ "host" \in DOMAIN fields /\ fields["host"] # <<>>

\* The fault that a header was refused for is one, and the first.
RefusedFor ==
  \/ status = "431" /\ text.long
  \/ ~text.long /\ status = LineStatus(text.lines[1])
  \/ status = "400" /\ LineRead /\ ~WellFormed(text)

IInv ==
  /\ TypeOK
  /\ text \in Texts
  /\ pc \in {"length", "line"} => at = 1 /\ fields = <<>>
  /\ pc = "line" => ~text.long
  /\ pc \in {"fields", "host", "parsed"} => LineRead /\ FieldsRead
  /\ pc \in {"host", "parsed"} => HostRead
  /\ pc = "parsed" => host = Before(fields["host"], ColonOf(fields["host"]))
  /\ pc = "refused" => RefusedFor

-------------------------------------------------------------------------------
(* What the operators return *)

Sign == Words \cup Char

(* Among some numbers there is a least one, which Min returns.              *)
LEMMA MinOfNats ==
  ASSUME NEW I \in SUBSET Nat, I # {}
  PROVE  Min(I) \in I /\ \A j \in I : Min(I) <= j
<1>1. \E i \in I : \A j \in I : ~(<<j, i>> \in OpToRel(<, Nat))
  BY NatLessThanWellFounded, WFMin, Zenon
<1>2. \A i, j \in Nat : j < i => <<j, i>> \in OpToRel(<, Nat)
  BY Zenon DEF OpToRel
<1>3. \E i \in I : \A j \in I : ~(j < i)
  BY <1>1, <1>2
<1>4. \E i \in I : \A j \in I : i <= j
  BY <1>3
<1> QED
  BY <1>4 DEF Min

(* Numbers up to a bound have a largest one, which Max returns.             *)
LEMMA MaxOfNats ==
  ASSUME NEW bound \in Nat, NEW I \in SUBSET (0..bound), I # {}
  PROVE  Max(I) \in I /\ \A j \in I : j <= Max(I)
<1> DEFINE Above == {u \in Nat : \A j \in I : j <= u}
<1>1. bound \in Above /\ Above \in SUBSET Nat
  OBVIOUS
<1>2. PICK u \in Above : \A v \in Above : u <= v
  BY <1>1, MinOfNats
<1>3. u \in I
  <2> SUFFICES ASSUME u \notin I PROVE FALSE
    OBVIOUS
  <2>1. \A j \in I : j < u
    <3>1. u \in Nat /\ \A j \in I : j <= u /\ j # u /\ j \in Nat
      BY <1>2
    <3> QED
      BY <3>1
  <2>2. u - 1 \in Nat /\ \A j \in I : j <= u - 1
    <3>1. u # 0 /\ u \in Nat /\ \A j \in I : j \in Nat
      <4>1. \A j \in I : j \in Nat
        OBVIOUS
      <4>2. u \in Nat
        BY <1>2
      <4>3. \E j \in I : j < u
        BY <2>1
      <4> QED
        BY <4>1, <4>2, <4>3
    <3>2. u - 1 \in Nat
      BY <3>1
    <3>3. \A j \in I : j <= u - 1
      BY <2>1, <3>1
    <3> QED
      BY <3>2, <3>3
  <2> QED
    BY <1>2, <2>2
<1>4. \E i \in I : \A j \in I : j <= i
  BY <1>2, <1>3
<1> QED
  BY <1>4 DEF Max

(* A line is a sequence of words and of characters, which are no words.     *)
LEMMA LineProperties ==
  ASSUME NEW l \in Line
  PROVE  /\ Len(l) \in Nat /\ DOMAIN l = 1..Len(l)
         /\ \A i \in 1..Len(l) : l[i] \in Sign
BY LenProperties, ElementOfSeq DEF Line, Sign

LEMMA WordsAreNoChars ==
  /\ \A w \in Words : w # SP /\ w # TAB /\ w # COLON /\ w # COMMA
  /\ TokenWords \subseteq Words /\ Versions \subseteq Words /\ "HTTP/1.1" \in Versions
  /\ DOMAIN Leading \subseteq Words
BY WordsAssumption DEF Char

(* A part of a line is a line. *)
LEMMA PartOfLine ==
  ASSUME NEW l \in Line, NEW m \in Nat \ {0}, NEW n \in 0..Len(l)
  PROVE  /\ SubSeq(l, m, n) \in Line
         /\ Len(SubSeq(l, m, n)) = IF m <= n THEN n - m + 1 ELSE 0
         /\ \A i \in 1..(n - m + 1) : SubSeq(l, m, n)[i] = l[m + i - 1]
<1>1. m \in Int /\ n \in Int /\ \A i \in m..n : l[i] \in Sign
  BY LineProperties
<1> QED
  BY <1>1, SubSeqProperties DEF Line, Sign

(* A line of one sign. *)
LEMMA OneSign ==
  ASSUME NEW l \in Line, NEW w
  PROVE  l = <<w>> <=> Len(l) = 1 /\ l[1] = w
<1>1. ASSUME l = <<w>> PROVE Len(l) = 1 /\ l[1] = w
  BY <1>1
<1>2. ASSUME Len(l) = 1, l[1] = w PROVE l = <<w>>
  <2>1. w \in Sign
    BY <1>2, LineProperties
  <2>2. <<w>> \in Seq(Sign) /\ Len(<<w>>) = 1 /\ <<w>>[1] = w
    BY <2>1
  <2>3. l \in Seq(Sign) /\ \A i \in 1..Len(l) : l[i] = <<w>>[i]
    BY <1>2, <2>2 DEF Line, Sign
  <2> QED
    BY <1>2, <2>2, <2>3, SeqEqual
<1> QED
  BY <1>1, <1>2

(* What find_first_of() and find_first_not_of() find. *)
LEMMA FoundFirst ==
  ASSUME NEW l \in Line, NEW chars, NEW from \in Nat
  PROVE  LET k == find_first_of(l, chars, from)
         IN  \/ k = 0 /\ \A i \in 1..Len(l) : i >= from => l[i] \notin chars
             \/ /\ k \in 1..Len(l) /\ k >= from /\ l[k] \in chars
                /\ \A i \in 1..Len(l) : i >= from /\ i < k => l[i] \notin chars
<1> DEFINE S == {i \in DOMAIN l : i >= from /\ l[i] \in chars}
<1>1. S \in SUBSET Nat /\ DOMAIN l = 1..Len(l) /\ Len(l) \in Nat
  BY LineProperties
<1>2. CASE S = {}
  BY <1>1, <1>2 DEF find_first_of, FirstIn, Npos
<1>3. CASE S # {}
  <2>1. Min(S) \in S /\ \A j \in S : Min(S) <= j
    BY <1>1, <1>3, MinOfNats
  <2>2. find_first_of(l, chars, from) = Min(S)
    BY <1>3 DEF find_first_of, FirstIn
  <2>3. ASSUME NEW i \in 1..Len(l), i >= from, i < Min(S) PROVE l[i] \notin chars
    <3>1. Min(S) \in Nat /\ i \in Nat
      BY <1>1, <2>1
    <3>2. i \notin S
      <4> HIDE DEF S
      <4> QED
        BY <2>1, <2>3, <3>1
    <3> QED
      BY <1>1, <2>3, <3>2
  <2> QED
    BY <1>1, <2>1, <2>2, <2>3
<1> QED
  BY <1>2, <1>3

LEMMA FoundFirstNot ==
  ASSUME NEW l \in Line, NEW chars, NEW from \in Nat \ {0}
  PROVE  LET k == find_first_not_of(l, chars, from)
         IN  \/ k = 0 /\ \A i \in 1..Len(l) : i >= from => l[i] \in chars
             \/ /\ k \in 1..Len(l) /\ k >= from /\ l[k] \notin chars
                /\ \A i \in 1..Len(l) : i >= from /\ i < k => l[i] \in chars
<1> DEFINE S == {i \in DOMAIN l : i >= from /\ l[i] \notin chars}
<1>1. S \in SUBSET Nat /\ DOMAIN l = 1..Len(l) /\ Len(l) \in Nat
  BY LineProperties
<1>2. CASE S = {}
  BY <1>1, <1>2 DEF find_first_not_of, FirstIn, Npos
<1>3. CASE S # {}
  <2>1. Min(S) \in S /\ \A j \in S : Min(S) <= j
    BY <1>1, <1>3, MinOfNats
  <2>2. find_first_not_of(l, chars, from) = Min(S)
    BY <1>3 DEF find_first_not_of, FirstIn, Npos
  <2>3. ASSUME NEW i \in 1..Len(l), i >= from, i < Min(S) PROVE l[i] \in chars
    <3>1. Min(S) \in Nat /\ i \in Nat
      BY <1>1, <2>1
    <3>2. i \notin S
      <4> HIDE DEF S
      <4> QED
        BY <2>1, <2>3, <3>1
    <3> QED
      BY <1>1, <2>3, <3>2
  <2> QED
    BY <1>1, <2>1, <2>2, <2>3
<1> QED
  BY <1>2, <1>3

LEMMA TrimmedIsLine == ASSUME NEW l \in Line PROVE Trimmed(l) \in Line
<1> DEFINE kept == {i \in DOMAIN l : l[i] \notin OWS}
<1>1. CASE kept = {}
  BY <1>1, EmptySeq DEF Trimmed, Line
<1>2. CASE kept # {}
  <2>1. Len(l) \in Nat /\ kept \in SUBSET Nat /\ kept \in SUBSET (0..Len(l)) /\ 0 \notin kept
    BY LineProperties
  <2>2. Min(kept) \in kept
    BY <1>2, <2>1, MinOfNats
  <2>3. Max(kept) \in kept
    BY <1>2, <2>1, MaxOfNats
  <2>4. Trimmed(l) = SubSeq(l, Min(kept), Max(kept))
    BY <1>2 DEF Trimmed
  <2>5. Min(kept) \in Nat \ {0} /\ Max(kept) \in 0..Len(l)
    BY <2>1, <2>2, <2>3
  <2> HIDE DEF kept
  <2> QED
    BY <2>4, <2>5, PartOfLine
<1> QED
  BY <1>1, <1>2

-------------------------------------------------------------------------------
(* The request line *)

Methods == {<<"GET">>, <<"POST">>, <<"DELETE">>}
OnlyMethod(l) == \A i, j \in DOMAIN l : i < j /\ l[i] = SP => l[j] = SP

(* Where the spaces of a line are. *)
LEMMA LineShape ==
  ASSUME NEW l \in Line
  PROVE  LET m == MethodEnd(l)  b == UriBegin(l)  e == UriEnd(l)
         IN  \/ m = 0 /\ b = 0 /\ \A i \in 1..Len(l) : l[i] # SP
             \/ /\ m \in 1..Len(l) /\ l[m] = SP /\ \A i \in 1..Len(l) : i < m => l[i] # SP
                /\ \/ b = 0 /\ \A i \in 1..Len(l) : i >= m => l[i] = SP
                   \/ /\ b \in 1..Len(l) /\ b > m /\ l[b] # SP
                      /\ \A i \in 1..Len(l) : i >= m /\ i < b => l[i] = SP
                      /\ \/ e = 0 /\ \A i \in 1..Len(l) : i >= b => l[i] # SP
                         \/ /\ e \in 1..Len(l) /\ e > b /\ l[e] = SP
                            /\ \A i \in 1..Len(l) : i >= b /\ i < e => l[i] # SP
<1> DEFINE m == MethodEnd(l)
           b == UriBegin(l)
           e == UriEnd(l)
<1>0. Len(l) \in Nat
  BY LineProperties
<1>1. \/ m = 0 /\ \A i \in 1..Len(l) : i >= 1 => l[i] \notin {SP}
      \/ /\ m \in 1..Len(l) /\ m >= 1 /\ l[m] \in {SP}
         /\ \A i \in 1..Len(l) : i >= 1 /\ i < m => l[i] \notin {SP}
  BY FoundFirst DEF MethodEnd
<1>2. m = 0 => b = 0
  BY DEF UriBegin, find_first_not_of, Npos
<1>3. ASSUME m \in 1..Len(l)
      PROVE  \/ b = 0 /\ \A i \in 1..Len(l) : i >= m => l[i] \in {SP}
             \/ /\ b \in 1..Len(l) /\ b >= m /\ l[b] \notin {SP}
                /\ \A i \in 1..Len(l) : i >= m /\ i < b => l[i] \in {SP}
  BY <1>0, <1>3, FoundFirstNot DEF UriBegin
<1>4. ASSUME b \in 1..Len(l)
      PROVE  \/ e = 0 /\ \A i \in 1..Len(l) : i >= b => l[i] \notin {SP}
             \/ /\ e \in 1..Len(l) /\ e >= b /\ l[e] \in {SP}
                /\ \A i \in 1..Len(l) : i >= b /\ i < e => l[i] \notin {SP}
  BY <1>0, <1>4, FoundFirst DEF UriEnd
<1> HIDE DEF m, b, e
<1>5. CASE m = 0
  BY <1>0, <1>1, <1>2, <1>5 DEF m, b
<1>6. CASE m # 0
  <2>1. m \in 1..Len(l) /\ l[m] = SP /\ \A i \in 1..Len(l) : i < m => l[i] # SP
    BY <1>0, <1>1, <1>6
  <2>2. \/ b = 0 /\ \A i \in 1..Len(l) : i >= m => l[i] = SP
        \/ /\ b \in 1..Len(l) /\ b > m /\ l[b] # SP
           /\ \A i \in 1..Len(l) : i >= m /\ i < b => l[i] = SP
    BY <1>0, <1>3, <2>1
  <2>3. b \in 1..Len(l) =>
          \/ e = 0 /\ \A i \in 1..Len(l) : i >= b => l[i] # SP
          \/ /\ e \in 1..Len(l) /\ e > b /\ l[e] = SP
             /\ \A i \in 1..Len(l) : i >= b /\ i < e => l[i] # SP
    BY <1>0, <1>4, <2>2
  <2> QED
    BY <1>0, <1>6, <2>1, <2>2, <2>3 DEF m, b, e
<1> QED
  BY <1>5, <1>6

(* substr(npos) throws for a line of which nothing follows the method.      *)
LEMMA OnlyMethodMeaning ==
  ASSUME NEW l \in Line
  PROVE  UriBegin(l) = 0 <=> OnlyMethod(l)
<1> DEFINE m == MethodEnd(l)
           b == UriBegin(l)
<1>0. Len(l) \in Nat /\ DOMAIN l = 1..Len(l)
  BY LineProperties
<1>1. \/ b = 0 /\ \A i \in 1..Len(l) : l[i] # SP
      \/ /\ m \in 1..Len(l) /\ l[m] = SP /\ \A i \in 1..Len(l) : i < m => l[i] # SP
         /\ \/ b = 0 /\ \A i \in 1..Len(l) : i >= m => l[i] = SP
            \/ b \in 1..Len(l) /\ b > m /\ l[b] # SP
  BY LineShape
<1> HIDE DEF m, b
<1>2. CASE b = 0
  <2>1. OnlyMethod(l)
    BY <1>0, <1>1, <1>2 DEF OnlyMethod
  <2> QED
    BY <1>2, <2>1 DEF b
<1>3. CASE b # 0
  <2>1. ~OnlyMethod(l)
    BY <1>0, <1>1, <1>3 DEF OnlyMethod
  <2> QED
    BY <1>3, <2>1 DEF b
<1> QED
  BY <1>2, <1>3

(* The three parts of a line, each of which is a line.                      *)
LEMMA RequestLineParts ==
  ASSUME NEW l \in Line, UriBegin(l) # 0
  PROVE  LET m == MethodEnd(l)  e == UriEnd(l)  r == RequestLine(l)
         IN  /\ r \in [method : Line, uri : Line, version : Line]
             /\ Len(r.method) = m - 1 /\ \A i \in 1..(m - 1) : r.method[i] = l[i]
             /\ Len(r.version) = Len(l) - e
             /\ \A i \in 1..(Len(l) - e) : r.version[i] = l[e + i]
<1> DEFINE m == MethodEnd(l)
           b == UriBegin(l)
           e == UriEnd(l)
           z == IF e = 0 THEN Len(l) ELSE e - 1
<1>1. /\ Len(l) \in Nat /\ m \in 1..Len(l) /\ b \in 1..Len(l) /\ e \in 0..Len(l)
      /\ e = 0 \/ e > b
  BY LineShape, LineProperties
<1> DEFINE method == SubSeq(l, 1, m - 1)
           uri == SubSeq(l, b, z)
           version == SubSeq(l, e + 1, Len(l))
<1>2. RequestLine(l) = [method |-> method, uri |-> uri, version |-> version]
  <2>1. Before(l, m) = SubSeq(l, 1, m - 1)
    <3>1. m # 0
      BY <1>1
    <3> QED
      BY <3>1, Zenon DEF Before, Slice, Npos
  <2>2. Slice(l, b, e) = SubSeq(l, b, z)
    BY Zenon DEF Slice, Npos
  <2>3. RequestLine(l) = [method |-> Before(l, m), uri |-> Slice(l, b, e),
                          version |-> SubSeq(l, e + 1, Len(l))]
    BY Zenon DEF RequestLine
  <2> QED
    BY <2>1, <2>2, <2>3, Zenon
<1>8. z \in 0..Len(l)
  <2> HIDE DEF b, e
  <2> QED
    BY <1>1
<1> HIDE DEF m, b, e, z
<1>3. /\ m - 1 \in 0..Len(l) /\ z \in 0..Len(l)
      /\ e + 1 \in Nat \ {0} /\ b \in Nat \ {0} /\ Len(l) \in 0..Len(l)
  BY <1>1, <1>8
<1>4. /\ method \in Line
      /\ Len(method) = IF 1 <= m - 1 THEN m - 1 - 1 + 1 ELSE 0
      /\ \A i \in 1..(m - 1 - 1 + 1) : method[i] = l[1 + i - 1]
  BY <1>3, PartOfLine
<1>5. uri \in Line
  BY <1>3, PartOfLine
<1>6. /\ version \in Line
      /\ Len(version) = IF e + 1 <= Len(l) THEN Len(l) - (e + 1) + 1 ELSE 0
      /\ \A i \in 1..(Len(l) - (e + 1) + 1) : version[i] = l[e + 1 + i - 1]
  BY <1>3, PartOfLine
<1> HIDE DEF method, uri, version
<1>7. /\ RequestLine(l).method = method /\ RequestLine(l).version = version
      /\ RequestLine(l) \in [method : Line, uri : Line, version : Line]
  BY <1>2, <1>4, <1>5, <1>6
<1>9. Len(method) = m - 1 /\ \A i \in 1..(m - 1) : method[i] = l[i]
  BY <1>1, <1>4
<1>10. Len(version) = Len(l) - e /\ \A i \in 1..(Len(l) - e) : version[i] = l[e + i]
  BY <1>1, <1>6
<1> QED
  BY <1>7, <1>9, <1>10 DEF m, e

(* What RequestLineParser makes of the line is what the line says.          *)
LEMMA LineMeaning ==
  ASSUME NEW l \in Line, NEW V \in SUBSET Versions
  PROVE  /\ UriBegin(l) # 0
         /\ RequestLine(l).method \in Methods
         /\ RequestLine(l).version \in {<<v>> : v \in V}
         <=> WellFormedLine(l, V)
<1> DEFINE m == MethodEnd(l)
           b == UriBegin(l)
           e == UriEnd(l)
           r == RequestLine(l)
           Names == {"GET", "POST", "DELETE"}
<1>0. Len(l) \in Nat /\ DOMAIN l = 1..Len(l) /\ SP \notin Names
  BY LineProperties DEF SP
<1>1. \/ m = 0 /\ b = 0 /\ \A i \in 1..Len(l) : l[i] # SP
      \/ /\ m \in 1..Len(l) /\ l[m] = SP /\ \A i \in 1..Len(l) : i < m => l[i] # SP
         /\ \/ b = 0 /\ \A i \in 1..Len(l) : i >= m => l[i] = SP
            \/ /\ b \in 1..Len(l) /\ b > m /\ l[b] # SP
               /\ \A i \in 1..Len(l) : i >= m /\ i < b => l[i] = SP
               /\ \/ e = 0 /\ \A i \in 1..Len(l) : i >= b => l[i] # SP
                  \/ /\ e \in 1..Len(l) /\ e > b /\ l[e] = SP
                     /\ \A i \in 1..Len(l) : i >= b /\ i < e => l[i] # SP
  BY LineShape
<1>2. ASSUME b # 0
      PROVE  /\ r.method \in Methods <=> m = 2 /\ l[1] \in Names
             /\ r.version \in {<<v>> : v \in V} <=> Len(l) = e + 1 /\ l[e + 1] \in V
  <2>1. /\ r.method \in Line /\ r.version \in Line
        /\ Len(r.method) = m - 1 /\ \A i \in 1..(m - 1) : r.method[i] = l[i]
        /\ Len(r.version) = Len(l) - e
        /\ \A i \in 1..(Len(l) - e) : r.version[i] = l[e + i]
    BY <1>2, RequestLineParts
  <2>2. \A w : r.method = <<w>> <=> Len(r.method) = 1 /\ r.method[1] = w
    BY <2>1, OneSign
  <2>3. \A w : r.version = <<w>> <=> Len(r.version) = 1 /\ r.version[1] = w
    BY <2>1, OneSign
  <2> HIDE DEF m, b, e, r
  <2>4. m \in Nat /\ e \in Nat
    BY <1>0, <1>1, <1>2
  <2>5. Len(r.method) = 1 <=> m = 2
    BY <2>1, <2>4
  <2>6. m = 2 => r.method[1] = l[1]
    BY <2>1, <2>4
  <2>7. Len(r.version) = 1 <=> Len(l) = e + 1
    <3>1. Len(r.version) = Len(l) - e
      BY <2>1
    <3>2. Len(l) \in Nat
      BY <1>0
    <3> QED
      BY <2>4, <3>1, <3>2
  <2>8. Len(l) = e + 1 => r.version[1] = l[e + 1]
    <3>1. Len(l) = e + 1 => 1 \in 1..(Len(l) - e)
      BY <1>0, <2>4
    <3> QED
      BY <2>1, <3>1
  <2>9. r.method \in Methods <=> m = 2 /\ l[1] \in Names
    BY <2>2, <2>5, <2>6 DEF Methods
  <2>10. r.version \in {<<v>> : v \in V} <=> Len(l) = e + 1 /\ l[e + 1] \in V
    BY <2>3, <2>7, <2>8
  <2> QED
    BY <2>9, <2>10
<1> HIDE DEF m, b, e, r
<1>3. ASSUME b # 0, r.method \in Methods, r.version \in {<<v>> : v \in V}
      PROVE  WellFormedLine(l, V)
  <2>1. m = 2 /\ l[1] \in Names /\ Len(l) = e + 1 /\ l[e + 1] \in V
    BY <1>2, <1>3
  <2>2. e # 0
    <3>1. SP \notin V
      BY WordsAreNoChars
    <3> QED
      BY <1>0, <1>1, <1>3, <2>1, <3>1
  <2>3. /\ b \in Nat /\ e \in Nat /\ b > 2 /\ e > b
        /\ \A i \in 1..Len(l) : i >= 2 /\ i < b => l[i] = SP
        /\ \A i \in 1..Len(l) : i >= b /\ i < e => l[i] # SP
        /\ l[e] = SP
    BY <1>0, <1>1, <1>3, <2>1, <2>2
  <2>4. /\ b - 1 \in DOMAIN l /\ e - 1 \in DOMAIN l
        /\ 2 <= b - 1 /\ b - 1 < e - 1 /\ Len(l) = e - 1 + 2
    BY <1>0, <2>1, <2>3
  <2>5. /\ \A k \in 2..(b - 1) : l[k] = SP
        /\ \A k \in (b - 1 + 1)..(e - 1) : l[k] # SP
        /\ l[e - 1 + 1] = SP /\ l[e - 1 + 2] \in V
    <3>1. e - 1 + 1 = e /\ e - 1 + 2 = e + 1 /\ b - 1 + 1 = b
      BY <2>3
    <3>2. /\ \A k \in 2..(b - 1) : k \in 1..Len(l) /\ k >= 2 /\ k < b
          /\ \A k \in b..(e - 1) : k \in 1..Len(l) /\ k >= b /\ k < e
      BY <1>0, <2>1, <2>3
    <3> QED
      BY <2>1, <2>3, <3>1, <3>2
  <2> QED
    BY <2>1, <2>4, <2>5 DEF WellFormedLine
<1>4. ASSUME WellFormedLine(l, V)
      PROVE  b # 0 /\ r.method \in Methods /\ r.version \in {<<v>> : v \in V}
  <2>1. PICK i, j \in DOMAIN l :
          /\ 2 <= i /\ i < j /\ Len(l) = j + 2
          /\ l[1] \in Names
          /\ \A k \in 2..i : l[k] = SP
          /\ \A k \in (i + 1)..j : l[k] # SP
          /\ l[j + 1] = SP /\ l[j + 2] \in V
    BY <1>4 DEF WellFormedLine
  <2>2. i \in Nat /\ j \in Nat /\ 2 \in 2..i /\ j \in (i + 1)..j /\ i + 1 \in (i + 1)..j
    BY <1>0, <2>1
  <2>3. l[1] # SP /\ l[2] = SP /\ l[j] # SP /\ l[i + 1] # SP /\ l[j + 1] = SP
    BY <1>0, <2>1, <2>2
  <2>4. m = 2 /\ b # 0
    BY <1>0, <1>1, <2>1, <2>2, <2>3
  <2>5. b = i + 1
    <3>1. b \in Nat /\ b > 2 /\ l[b] # SP /\ b <= i + 1
      BY <1>0, <1>1, <2>1, <2>2, <2>3, <2>4
    <3>2. ~(b <= i)
      BY <2>1, <2>2, <3>1
    <3> QED
      BY <2>2, <3>1, <3>2
  <2>6. e = j + 1
    <3>1. e \in Nat /\ e > b /\ l[e] = SP /\ e <= j + 1
      BY <1>0, <1>1, <2>1, <2>2, <2>3, <2>4, <2>5
    <3>2. ~(e <= j)
      BY <2>1, <2>2, <2>5, <3>1
    <3> QED
      BY <2>2, <3>1, <3>2
  <2>7. Len(l) = e + 1 /\ l[e + 1] \in V
    <3>1. e + 1 = j + 2
      BY <2>2, <2>6
    <3> QED
      BY <2>1, <3>1
  <2> QED
    BY <1>2, <2>1, <2>4, <2>7
<1> QED
  BY <1>3, <1>4 DEF b, r

LEMMA StatusMeaning ==
  ASSUME NEW l \in Line
  PROVE  /\ LineStatus(l) \in {"200", "400", "500", "505"}
         /\ LineStatus(l) = "200" <=> WellFormedLine(l, {"HTTP/1.1"})
         /\ LineStatus(l) = "500" <=> OnlyMethod(l)
         /\ LineStatus(l) = "505" <=> WellFormedLine(l, Versions \ {"HTTP/1.1"})
<1> DEFINE r == RequestLine(l)
           Good == UriBegin(l) # 0 /\ r.method \in Methods
           Old == Versions \ {"HTTP/1.1"}
<1>1. Good /\ r.version \in {<<v>> : v \in {"HTTP/1.1"}} <=> WellFormedLine(l, {"HTTP/1.1"})
  BY LineMeaning, WordsAreNoChars
<1>2. Good /\ r.version \in {<<v>> : v \in Old} <=> WellFormedLine(l, Old)
  BY LineMeaning
<1>3. UriBegin(l) = 0 <=> OnlyMethod(l)
  BY OnlyMethodMeaning
<1>4. /\ r.version \in {<<v>> : v \in {"HTTP/1.1"}} <=> r.version = <<"HTTP/1.1">>
      /\ r.version \in {<<v>> : v \in Old} <=>
           r.version \in {<<v>> : v \in Versions} /\ r.version # <<"HTTP/1.1">>
      /\ r.version = <<"HTTP/1.1">> => r.version \in {<<v>> : v \in Versions}
  <2>1. \A v, w : <<v>> = <<w>> <=> v = w
    OBVIOUS
  <2> HIDE DEF r
  <2> QED
    BY <2>1, WordsAreNoChars
<1>5. LineStatus(l) = IF UriBegin(l) = 0 THEN "500"
                      ELSE IF r.method \notin Methods THEN "400"
                      ELSE IF r.version \notin {<<v>> : v \in Versions} THEN "400"
                      ELSE IF r.version # <<"HTTP/1.1">> THEN "505"
                      ELSE "200"
  BY DEF LineStatus, Methods, Npos
<1> HIDE DEF r, Old
<1> QED
  BY <1>1, <1>2, <1>3, <1>4, <1>5 DEF Old

-------------------------------------------------------------------------------
(* The fields *)

(* What validateOneHeaderField() lets through begins with a word and a      *)
(* colon.                                                                   *)
LEMMA ValidNameMeaning ==
  ASSUME NEW l \in Line
  PROVE  /\ ValidName(l) <=> WellFormedField(l)
         /\ WellFormedField(l) => ColonOf(l) = 2
<1> DEFINE c == ColonOf(l)
<1>0. Len(l) \in Nat /\ COLON \notin TokenWords
  BY LineProperties, WordsAreNoChars
<1>1. \/ c = 0 /\ \A i \in 1..Len(l) : i >= 1 => l[i] \notin {COLON}
      \/ /\ c \in 1..Len(l) /\ c >= 1 /\ l[c] \in {COLON}
         /\ \A i \in 1..Len(l) : i >= 1 /\ i < c => l[i] \notin {COLON}
  BY FoundFirst DEF ColonOf
<1>2. ASSUME c # 0
      PROVE  Before(l, c) \in {<<w>> : w \in TokenWords} <=> c = 2 /\ l[1] \in TokenWords
  <2> DEFINE name == SubSeq(l, 1, c - 1)
  <2>1. Before(l, c) = name
    BY <1>2, Zenon DEF Before, Slice, Npos
  <2> HIDE DEF c
  <2>2. c \in 1..Len(l) /\ c - 1 \in 0..Len(l)
    BY <1>0, <1>1, <1>2
  <2>3. /\ name \in Line
        /\ Len(name) = IF 1 <= c - 1 THEN c - 1 - 1 + 1 ELSE 0
        /\ \A i \in 1..(c - 1 - 1 + 1) : name[i] = l[1 + i - 1]
    BY <2>2, PartOfLine
  <2> HIDE DEF name
  <2>4. \A w : name = <<w>> <=> Len(name) = 1 /\ name[1] = w
    BY <2>3, OneSign
  <2>5. (Len(name) = 1 <=> c = 2) /\ (c = 2 => name[1] = l[1])
    <3>1. Len(name) = c - 1 /\ c \in Nat
      BY <1>0, <2>2, <2>3
    <3>2. c = 2 => 1 \in 1..(c - 1 - 1 + 1)
      OBVIOUS
    <3> QED
      BY <2>3, <3>1, <3>2
  <2> QED
    BY <2>1, <2>4, <2>5
<1> HIDE DEF c
<1>3. ASSUME WellFormedField(l) PROVE c = 2
  <2>1. Len(l) >= 2 /\ l[1] \in TokenWords /\ l[2] = COLON
    BY <1>3 DEF WellFormedField
  <2> QED
    BY <1>0, <1>1, <2>1
<1>4. ASSUME ValidName(l) PROVE WellFormedField(l)
  <2>1. c # 0 /\ Before(l, c) \in {<<w>> : w \in TokenWords}
    BY <1>4 DEF ValidName, Npos, c
  <2> QED
    BY <1>0, <1>1, <1>2, <2>1 DEF WellFormedField
<1>5. ASSUME WellFormedField(l) PROVE ValidName(l)
  <2>1. c = 2 /\ l[1] \in TokenWords
    BY <1>3, <1>5 DEF WellFormedField
  <2> QED
    BY <1>2, <2>1 DEF ValidName, Npos, c
<1> QED
  BY <1>3, <1>4, <1>5 DEF c

LEMMA FieldProperties ==
  ASSUME NEW l \in Line, WellFormedField(l)
  PROVE  /\ l[1] \in TokenWords /\ FieldName(l) = Lower[l[1]] /\ FieldName(l) \in Words
         /\ FieldValue(l) \in Line
         /\ FieldValue(l) = Trimmed(SubSeq(l, 3, Len(l)))
<1>1. l[1] \in TokenWords /\ Len(l) \in 0..Len(l)
  BY LineProperties DEF WellFormedField
<1>2. FieldName(l) = Lower[l[1]] /\ FieldName(l) \in Words
  BY <1>1, WordsAssumption DEF FieldName
<1>3. ColonOf(l) + 1 = 3
  BY ValidNameMeaning
<1>4. FieldValue(l) = Trimmed(SubSeq(l, 3, Len(l)))
  BY <1>3, Zenon DEF FieldValue
<1>5. SubSeq(l, 3, Len(l)) \in Line
  BY <1>1, PartOfLine
<1> QED
  BY <1>1, <1>2, <1>4, <1>5, TrimmedIsLine

(* The lines of a text that was received. *)
LEMMA TextProperties ==
  ASSUME text \in Texts
  PROVE  /\ text \in Text /\ DOMAIN text.lines = 1..Len(text.lines)
         /\ Len(text.lines) \in Nat \ {0}
         /\ \A i \in 1..Len(text.lines) : text.lines[i] \in Line
         /\ text.lines[Len(text.lines)] = <<>>
         /\ \A i \in 1..Len(text.lines) :
              text.lines[i] = <<>> => i = 1 \/ i = Len(text.lines)
<1>1. text \in Text /\ text.lines \in Seq(Line) /\ text.lines # <<>>
  BY TextsAssumption DEF Text
<1>2. /\ DOMAIN text.lines = 1..Len(text.lines) /\ Len(text.lines) \in Nat \ {0}
      /\ \A i \in 1..Len(text.lines) : text.lines[i] \in Line
  BY <1>1, LenProperties, EmptySeq, ElementOfSeq
<1>3. /\ Last(text.lines) = <<>>
      /\ \A i \in DOMAIN text.lines : text.lines[i] = <<>> => i \in {1, Len(text.lines)}
  BY TextsAssumption
<1> QED
  BY <1>1, <1>2, <1>3 DEF Last

LEMMA JoinedIsLine ==
  ASSUME TypeOK, NEW l \in Line, WellFormedField(l)
  PROVE  Joined(l, fields) \in Line
<1>1. FieldValue(l) \in Line /\ <<COMMA>> \in Line
  BY FieldProperties DEF Line, Char
<1>2. CASE FieldName(l) \in DOMAIN fields
  <2>1. fields[FieldName(l)] \in Line
    BY <1>2 DEF TypeOK
  <2>2. fields[FieldName(l)] \o <<COMMA>> \in Line
    BY <1>1, <2>1, ConcatProperties DEF Line
  <2>3. (fields[FieldName(l)] \o <<COMMA>>) \o FieldValue(l) \in Line
    BY <1>1, <2>2, ConcatProperties DEF Line
  <2> QED
    BY <1>2, <2>3 DEF Joined
<1>3. CASE FieldName(l) \notin DOMAIN fields
  BY <1>1, <1>3 DEF Joined
<1> QED
  BY <1>2, <1>3

(* What follows the value of the first field, when one more is joined.      *)
LEMMA MoreJoined ==
  ASSUME NEW v \in Line, NEW more \in Line, NEW w \in Line,
         more # <<>> => more[1] = COMMA
  PROVE  \E m \in Line : /\ ((v \o more) \o <<COMMA>>) \o w = v \o m
                         /\ m # <<>> /\ m[1] = COMMA
<1> DEFINE c == <<COMMA>>
           m == (more \o c) \o w
<1>0. c \in Line /\ Len(c) = 1 /\ c[1] = COMMA
  BY DEF Line, Char
<1> HIDE DEF c
<1>1. more \o c \in Line /\ m \in Line
  BY <1>0, ConcatProperties DEF Line
<1>2. ((v \o more) \o c) \o w = v \o m
  <2>1. (v \o more) \o c = v \o (more \o c)
    <3>1. v \in Seq(Sign) /\ more \in Seq(Sign) /\ c \in Seq(Sign)
      BY <1>0 DEF Line, Sign
    <3> QED
      BY <3>1, ConcatAssociative
  <2>2. (v \o (more \o c)) \o w = v \o ((more \o c) \o w)
    <3> DEFINE b == more \o c
    <3>1. v \in Seq(Sign) /\ b \in Seq(Sign) /\ w \in Seq(Sign)
      BY <1>1 DEF Line, Sign
    <3> HIDE DEF b
    <3>2. (v \o b) \o w = v \o (b \o w)
      BY <3>1, ConcatAssociative
    <3> QED
      BY <3>2 DEF b
  <2> QED
    BY <2>1, <2>2, Zenon
<1>3. Len(more \o c) = Len(more) + 1 /\ Len(more) \in Nat /\ (more \o c)[1] = COMMA
  <2>1. /\ Len(more \o c) = Len(more) + Len(c)
        /\ \A i \in 1..Len(more) + Len(c) : (more \o c)[i] =
              IF i <= Len(more) THEN more[i] ELSE c[i - Len(more)]
    BY <1>0, ConcatProperties DEF Line
  <2>2. Len(more) \in Nat /\ (Len(more) = 0 \/ more # <<>>)
    BY LineProperties, EmptySeq DEF Line
  <2>3. 1 \in 1..Len(more) + Len(c)
    BY <1>0, <2>2
  <2>4. CASE Len(more) = 0
    <3>1. (more \o c)[1] = c[1 - Len(more)]
      BY <2>1, <2>3, <2>4
    <3> QED
      BY <1>0, <2>1, <2>4, <3>1
  <2>5. CASE Len(more) # 0
    BY <1>0, <2>1, <2>2, <2>3, <2>5
  <2> QED
    BY <1>0, <2>1, <2>2, <2>4, <2>5
<1>4. Len(m) >= 1 /\ m[1] = COMMA
  <2> DEFINE b == more \o c
  <2>1. b \in Line /\ Len(b) \in Nat /\ Len(b) >= 1 /\ b[1] = COMMA /\ Len(w) \in Nat
    BY <1>1, <1>3, LineProperties
  <2> HIDE DEF b
  <2>2. /\ Len(b \o w) = Len(b) + Len(w)
        /\ \A i \in 1..Len(b) + Len(w) : (b \o w)[i] =
              IF i <= Len(b) THEN b[i] ELSE w[i - Len(b)]
    BY <2>1, ConcatProperties DEF Line
  <2>3. Len(b \o w) >= 1 /\ (b \o w)[1] = COMMA
    BY <2>1, <2>2
  <2> QED
    BY <2>3 DEF b
<1>5. m # <<>>
  BY <1>1, <1>4, EmptySeq
<1> QED
  BY <1>1, <1>2, <1>4, <1>5 DEF c

-------------------------------------------------------------------------------
(* The steps *)

(* What was read stays read. *)
LEMMA FieldsKept ==
  ASSUME FieldsRead, UNCHANGED <<text, at, fields>>
  PROVE  FieldsRead'
<1>1. LinesRead' = LinesRead /\ text' = text /\ fields' = fields
  BY DEF LinesRead
<1>2. \A name : ReadNamed(name)' = ReadNamed(name)
  BY <1>1 DEF ReadNamed
<1>3. ASSUME NEW i, StartsWithFirst(i) PROVE StartsWithFirst(i)'
  <2>1. ReadNamed(Lower[text.lines[i][1]])' = ReadNamed(Lower[text.lines[i][1]])
    BY <1>1 DEF ReadNamed
  <2>2. Value(text, i)' = Value(text, i)
    BY <1>1 DEF Value
  <2> QED
    BY <1>1, <1>3, <2>1, <2>2 DEF StartsWithFirst
<1> QED
  BY <1>1, <1>2, <1>3 DEF FieldsRead

LEMMA InitInv == Init => IInv
<1> SUFFICES ASSUME Init PROVE IInv
  OBVIOUS
<1>1. text \in Text /\ at \in DOMAIN text.lines
  BY TextProperties DEF Init
<1>2. line \in [method : Line, uri : Line, version : Line] /\ host \in Line
  BY EmptySeq DEF Init, NoLine, Line
<1>3. DOMAIN fields = {}
  BY DEF Init
<1> QED
  BY <1>1, <1>2, <1>3 DEF Init, IInv, TypeOK, Statuses

(* The line that offset points to, and whether another one follows it.      *)
LEMMA CurrentLine ==
  ASSUME IInv
  PROVE  /\ at \in 1..Len(text.lines) /\ at \in Nat /\ getLine \in Line
         /\ getLine # <<>> => at + 1 \in DOMAIN text.lines
BY TextProperties DEF IInv, TypeOK, getLine

LEMMA StepLength == ASSUME IInv, ValidateHeaderLength PROVE IInv'
<1>1. CASE text.long
  BY <1>1 DEF ValidateHeaderLength, Refuse, IInv, TypeOK, RefusedFor, Statuses
<1>2. CASE ~text.long
  BY <1>2 DEF ValidateHeaderLength, IInv, TypeOK
<1> QED
  BY <1>1, <1>2

LEMMA StepLine == ASSUME IInv, ParseRequestLine PROVE IInv'
<1> DEFINE l == text.lines[1]
<1>0. /\ pc = "line" /\ at = 1 /\ fields = <<>> /\ ~text.long /\ getLine = l
      /\ l \in Line /\ status = "200" /\ TypeOK /\ text \in Texts
  BY CurrentLine DEF ParseRequestLine, IInv, TypeOK, getLine
<1>1. CASE LineStatus(l) # "200"
  <2>1. /\ pc' = "refused" /\ status' = LineStatus(l)
        /\ UNCHANGED <<text, at, line, fields, host>>
    BY <1>0, <1>1 DEF ParseRequestLine, Refuse
  <2>2. LineStatus(l) \in {"200", "400", "500", "505"}
    BY <1>0, StatusMeaning
  <2> HIDE DEF l
  <2>3. TypeOK'
    BY <1>0, <1>1, <2>1, <2>2 DEF TypeOK, Statuses
  <2>4. RefusedFor'
    BY <1>0, <2>1 DEF RefusedFor, l
  <2> QED
    BY <1>0, <2>1, <2>3, <2>4 DEF IInv
<1>2. CASE LineStatus(l) = "200"
  <2>1. /\ line' = RequestLine(l) /\ at' = at + 1 /\ pc' = "fields"
        /\ UNCHANGED <<text, fields, host, status>>
    BY <1>0, <1>2 DEF ParseRequestLine
  <2>2. WellFormedLine(l, {"HTTP/1.1"}) /\ ~OnlyMethod(l)
    BY <1>0, <1>2, StatusMeaning
  <2>3. RequestLine(l) \in [method : Line, uri : Line, version : Line]
    BY <1>0, <2>2, OnlyMethodMeaning, RequestLineParts
  <2>4. l # <<>>
    <3>1. 1 \in DOMAIN l \/ \E i \in DOMAIN l : TRUE
      BY <2>2 DEF WellFormedLine
    <3> QED
      BY <3>1
  <2>5. at' \in DOMAIN text.lines
    BY <1>0, <2>1, <2>4, CurrentLine
  <2> HIDE DEF l
  <2>6. TypeOK'
    BY <1>0, <2>1, <2>3, <2>5 DEF TypeOK
  <2>7. LineRead'
    BY <1>0, <2>1, <2>2 DEF LineRead, l
  <2>8. FieldsRead'
    <3>1. LinesRead' = {}
      BY <1>0, <2>1 DEF LinesRead
    <3>2. \A name : ReadNamed(name)' = {}
      BY <3>1 DEF ReadNamed
    <3>3. DOMAIN fields' = {}
      BY <1>0, <2>1
    <3> QED
      BY <3>1, <3>2, <3>3 DEF FieldsRead
  <2> QED
    BY <1>0, <2>1, <2>6, <2>7, <2>8 DEF IInv
<1> QED
  BY <1>1, <1>2

(* A line of a field that is none, or a second Host, makes the header one   *)
(* that is not well formed.                                                 *)
LEMMA RefusedField ==
  ASSUME IInv, pc = "fields", getLine # <<>>, ~Admissible(getLine, fields)
  PROVE  ~WellFormed(text)
<1>0. /\ at \in 1..Len(text.lines) /\ at \in Nat /\ getLine \in Line
      /\ Len(text.lines) \in Nat /\ getLine = text.lines[at]
      /\ FieldsRead /\ at # 1
  BY CurrentLine, TextProperties DEF IInv, getLine, LineRead
<1>1. at \in LinesOf(text)
  BY <1>0 DEF LinesOf
<1>2. CASE ~ValidName(getLine)
  BY <1>0, <1>1, <1>2, ValidNameMeaning DEF WellFormed
<1>3. CASE FieldName(getLine) = "host" /\ "host" \in DOMAIN fields /\ ValidName(getLine)
  <2>1. PICK i \in ReadNamed("host") : TRUE
    BY <1>0, <1>3 DEF FieldsRead
  <2>2. /\ i \in LinesRead /\ i \in Nat /\ i < at /\ i \in 2..Len(text.lines)
        /\ Lower[text.lines[i][1]] = "host"
    BY <1>0, <2>1 DEF ReadNamed, LinesRead
  <2>3. WellFormedField(text.lines[i]) /\ text.lines[i] # <<>>
    <3>1. WellFormedField(text.lines[i])
      BY <1>0, <2>2 DEF FieldsRead
    <3>2. Len(text.lines[i]) >= 2
      BY <3>1 DEF WellFormedField
    <3>3. text.lines[i] # <<>>
      BY <3>2, EmptySeq
    <3> QED
      BY <3>1, <3>3
  <2>4. WellFormedField(getLine) /\ Lower[getLine[1]] = "host"
    BY <1>0, <1>3, ValidNameMeaning, FieldProperties
  <2>5. i \in Named(text, "host") /\ at \in Named(text, "host") /\ i # at
    BY <1>0, <1>1, <2>2, <2>3, <2>4 DEF Named, LinesOf
  <2> QED
    BY <2>5 DEF WellFormed
<1> QED
  BY <1>2, <1>3 DEF Admissible

(* One more field: the map has, for its name and for every other, what the  *)
(* lines up to it say.                                                      *)
LEMMA OneMoreField ==
  ASSUME IInv, pc = "fields", getLine # <<>>, Admissible(getLine, fields),
         fields' = With(fields, FieldName(getLine), Joined(getLine, fields)),
         at' = at + 1, UNCHANGED text
  PROVE  FieldsRead' /\ DOMAIN fields' \subseteq Words
         /\ \A name \in DOMAIN fields' : fields'[name] \in Line
<1> DEFINE l == getLine
<1> PICK n : n = Lower[l[1]]
  OBVIOUS
<1> PICK v : v = FieldValue(l)
  OBVIOUS
<1>0. /\ at \in Nat /\ l \in Line /\ l = text.lines[at] /\ FieldsRead /\ at >= 2
      /\ TypeOK
  BY CurrentLine DEF IInv, getLine, LineRead
<1>1. /\ WellFormedField(l) /\ FieldName(l) = n /\ n \in Words /\ v \in Line
      /\ v = Value(text, at) /\ (n = "host" => "host" \notin DOMAIN fields)
  <2>1. WellFormedField(l)
    BY <1>0, ValidNameMeaning DEF Admissible
  <2> QED
    BY <1>0, <2>1, FieldProperties DEF Admissible, Value
<1>2. Joined(l, fields) \in Line
  BY <1>0, <1>1, JoinedIsLine
<1>3. Joined(l, fields) = IF n \in DOMAIN fields THEN (fields[n] \o <<COMMA>>) \o v ELSE v
  BY <1>1, Zenon DEF Joined
<1>4. /\ DOMAIN fields' = DOMAIN fields \cup {n}
      /\ fields'[n] = Joined(l, fields)
      /\ \A name \in DOMAIN fields : name # n => fields'[name] = fields[name]
  BY <1>1 DEF With
<1>5. /\ LinesRead' = LinesRead \cup {at} /\ at \notin LinesRead
      /\ \A i \in LinesRead : i \in Nat /\ i < at
  BY <1>0 DEF LinesRead
<1>6. \A i : text'.lines[i] = text.lines[i]
  OBVIOUS
<1> HIDE DEF l
<1>7. /\ ReadNamed(n)' = ReadNamed(n) \cup {at}
      /\ \A name : name # n => ReadNamed(name)' = ReadNamed(name)
      /\ \A name : at \notin ReadNamed(name)
  BY <1>0, <1>5, <1>6 DEF ReadNamed
<1>8. \A name : name \in DOMAIN fields <=> ReadNamed(name) # {}
  BY <1>0 DEF FieldsRead
<1>9. \A i \in LinesRead' : WellFormedField(text'.lines[i])
  BY <1>0, <1>1, <1>5, <1>6 DEF FieldsRead
<1>10. \A name : name \in DOMAIN fields' <=> ReadNamed(name)' # {}
  BY <1>4, <1>7, <1>8
<1>11. \A i, j \in ReadNamed("host")' : i = j
  <2>1. CASE n = "host"
    BY <1>1, <1>7, <1>8, <2>1
  <2>2. CASE n # "host"
    BY <1>0, <1>7, <2>2 DEF FieldsRead
  <2> QED
    BY <2>1, <2>2
<1>12. ASSUME NEW i \in LinesRead',
              \A j \in LinesRead' :
                j < i => Lower[text'.lines[j][1]] # Lower[text'.lines[i][1]]
       PROVE  StartsWithFirst(i)'
  <2>1. CASE i = at
    <3>1. ReadNamed(n) = {}
      <4>1. \A j \in LinesRead : Lower[text.lines[j][1]] # n
        BY <1>0, <1>5, <1>12, <2>1 DEF l
      <4> QED
        BY <4>1 DEF ReadNamed
    <3>2. fields'[n] = v /\ ReadNamed(n)' = {i}
      BY <1>3, <1>4, <1>7, <1>8, <2>1, <3>1
    <3>3. Value(text, i)' = v /\ Lower[text'.lines[i][1]] = n
      BY <1>0, <1>1, <2>1 DEF Value
    <3>5. ReadNamed(Lower[text.lines[i][1]])' = ReadNamed(n)'
      BY <3>3 DEF ReadNamed
    <3>4. <<>> \in Line /\ v = v \o <<>>
      BY <1>1, EmptySeq, ConcatEmptySeq DEF Line
    <3> QED
      BY <3>2, <3>3, <3>4, <3>5 DEF StartsWithFirst
  <2>2. CASE i # at
    <3> PICK m : m = Lower[text.lines[i][1]]
      OBVIOUS
    <3>1. i \in LinesRead /\ \A j \in LinesRead : j < i => Lower[text.lines[j][1]] # m
      BY <1>5, <1>12, <2>2
    <3>2. StartsWithFirst(i) /\ i \in ReadNamed(m)
      BY <1>0, <3>1 DEF FieldsRead, ReadNamed
    <3>3. PICK more \in Line : /\ fields[m] = Value(text, i) \o more
                               /\ more = <<>> <=> ReadNamed(m) = {i}
                               /\ more # <<>> => more[1] = COMMA
      BY <3>2 DEF StartsWithFirst
    <3>4. Value(text, i)' = Value(text, i) /\ Lower[text'.lines[i][1]] = m
      BY DEF Value
    <3>5. m \in DOMAIN fields /\ Value(text, i) \in Line
      <4>1. WellFormedField(text.lines[i])
        BY <1>0, <3>1 DEF FieldsRead
      <4>2. text.lines[i] \in Line
        BY <1>0, <1>5, <3>1, CurrentLine, TextProperties DEF IInv, LinesRead
      <4> QED
        BY <1>8, <3>2, <4>1, <4>2, FieldProperties DEF Value
    <3>8. ReadNamed(Lower[text.lines[i][1]])' = ReadNamed(m)'
      BY <3>4 DEF ReadNamed
    <3>6. CASE m # n
      <4>1. fields'[m] = fields[m] /\ ReadNamed(m)' = ReadNamed(m)
        BY <1>4, <1>7, <3>5, <3>6
      <4> QED
        BY <3>3, <3>4, <3>8, <4>1 DEF StartsWithFirst
    <3>7. CASE m = n
      <4>1. fields'[m] = ((Value(text, i) \o more) \o <<COMMA>>) \o v
        BY <1>3, <1>4, <3>3, <3>5, <3>7, Zenon
      <4>2. PICK w \in Line : /\ fields'[m] = Value(text, i) \o w
                              /\ w # <<>> /\ w[1] = COMMA
        <5>1. PICK w \in Line :
                /\ ((Value(text, i) \o more) \o <<COMMA>>) \o v = Value(text, i) \o w
                /\ w # <<>> /\ w[1] = COMMA
          <6>1. v \in Line /\ Value(text, i) \in Line
            BY <1>1, <3>5
          <6> QED
            BY <3>3, <6>1, MoreJoined
        <5> QED
          BY <4>1, <5>1, Zenon
      <4>3. ReadNamed(m)' # {i}
        BY <1>7, <2>2, <3>7
      <4> QED
        BY <3>4, <3>8, <4>2, <4>3 DEF StartsWithFirst
    <3> QED
      BY <3>6, <3>7
  <2> QED
    BY <2>1, <2>2
<1>13. FieldsRead'
  BY <1>9, <1>10, <1>11, <1>12 DEF FieldsRead
<1>14. /\ DOMAIN fields' \subseteq Words
       /\ \A name \in DOMAIN fields' : fields'[name] \in Line
  BY <1>0, <1>1, <1>2, <1>4 DEF TypeOK
<1> QED
  BY <1>13, <1>14

LEMMA StepField == ASSUME IInv, ParseHeaderField PROVE IInv'
<1>0. /\ pc = "fields" /\ getLine # <<>> /\ TypeOK /\ LineRead /\ text \in Texts
      /\ status = "200"
  BY DEF ParseHeaderField, IInv, TypeOK
<1>1. CASE ~Admissible(getLine, fields)
  <2>1. /\ pc' = "refused" /\ status' = "400"
        /\ UNCHANGED <<text, at, line, fields, host>>
    BY <1>1 DEF ParseHeaderField, Refuse
  <2>2. ~WellFormed(text)
    BY <1>0, <1>1, RefusedField
  <2>3. TypeOK'
    BY <1>0, <2>1 DEF TypeOK, Statuses
  <2>4. RefusedFor'
    BY <1>0, <2>1, <2>2 DEF RefusedFor, LineRead
  <2> QED
    BY <1>0, <2>1, <2>3, <2>4 DEF IInv
<1>2. CASE Admissible(getLine, fields)
  <2>1. /\ fields' = With(fields, FieldName(getLine), Joined(getLine, fields))
        /\ at' = at + 1 /\ UNCHANGED <<pc, text, line, host, status>>
    BY <1>2 DEF ParseHeaderField
  <2>2. /\ FieldsRead' /\ DOMAIN fields' \subseteq Words
        /\ \A name \in DOMAIN fields' : fields'[name] \in Line
    BY <1>0, <1>2, <2>1, OneMoreField
  <2>3. at' \in DOMAIN text.lines /\ at' # 1
    BY <1>0, <2>1, CurrentLine
  <2>4. TypeOK'
    BY <1>0, <2>1, <2>2, <2>3 DEF TypeOK
  <2>5. LineRead'
    BY <1>0, <2>1, <2>3 DEF LineRead
  <2> QED
    BY <1>0, <2>1, <2>2, <2>4, <2>5 DEF IInv
<1> QED
  BY <1>1, <1>2

(* At the empty line, every field has been read.                            *)
LEMMA AllFieldsRead ==
  ASSUME IInv, LineRead, FieldsRead, getLine = <<>>
  PROVE  /\ LinesOf(text) = LinesRead
         /\ \A i \in LinesOf(text) : WellFormedField(text.lines[i])
         /\ \A name : Named(text, name) = ReadNamed(name)
<1>1. /\ at \in Nat /\ at >= 2 /\ at = Len(text.lines) /\ text.lines[at] = <<>>
      /\ \A i \in 1..Len(text.lines) : text.lines[i] = <<>> => i = 1 \/ i = at
  BY CurrentLine, TextProperties DEF IInv, LineRead, getLine
<1>2. LinesOf(text) = LinesRead
  BY <1>1 DEF LinesOf, LinesRead
<1> QED
  BY <1>2 DEF FieldsRead, Named, ReadNamed

(* Every name has a first field.                                            *)
LEMMA FirstNamed ==
  ASSUME NEW name, ReadNamed(name) # {}, at \in Nat
  PROVE  LET i == Min(ReadNamed(name))
         IN  /\ i \in ReadNamed(name) /\ i \in LinesRead /\ Lower[text.lines[i][1]] = name
             /\ \A j \in LinesRead : j < i => Lower[text.lines[j][1]] # name
<1>1. ReadNamed(name) \in SUBSET Nat /\ LinesRead \in SUBSET Nat
  BY DEF ReadNamed, LinesRead
<1>2. /\ Min(ReadNamed(name)) \in ReadNamed(name)
      /\ \A j \in ReadNamed(name) : Min(ReadNamed(name)) <= j
  BY <1>1, MinOfNats
<1> DEFINE i == Min(ReadNamed(name))
<1> HIDE DEF i
<1>3. i \in LinesRead /\ Lower[text.lines[i][1]] = name /\ i \in Nat
  BY <1>1, <1>2 DEF ReadNamed, i
<1>4. ASSUME NEW j \in LinesRead, j < i PROVE Lower[text.lines[j][1]] # name
  <2>1. j \notin ReadNamed(name)
    BY <1>1, <1>2, <1>3, <1>4 DEF i
  <2> QED
    BY <2>1 DEF ReadNamed
<1> QED
  BY <1>2, <1>3, <1>4 DEF i

(* What the map has for a name that occurs.                                 *)
LEMMA FieldOf ==
  ASSUME IInv, FieldsRead, NEW name, ReadNamed(name) # {}
  PROVE  LET i == Min(ReadNamed(name))
         IN  /\ i \in ReadNamed(name) /\ Value(text, i) \in Line
             /\ \E more \in Line :
                  /\ fields[name] = Value(text, i) \o more
                  /\ more = <<>> <=> ReadNamed(name) = {i}
                  /\ more # <<>> => more[1] = COMMA
<1> DEFINE i == Min(ReadNamed(name))
<1>1. /\ i \in ReadNamed(name) /\ i \in LinesRead /\ Lower[text.lines[i][1]] = name
      /\ \A j \in LinesRead : j < i => Lower[text.lines[j][1]] # name
  BY CurrentLine, FirstNamed
<1> HIDE DEF i
<1>2. StartsWithFirst(i)
  BY <1>1 DEF FieldsRead
<1>3. Value(text, i) \in Line
  <2>1. WellFormedField(text.lines[i])
    BY <1>1 DEF FieldsRead
  <2>2. text.lines[i] \in Line
    BY <1>1, CurrentLine, TextProperties DEF IInv, LinesRead
  <2> QED
    BY <2>1, <2>2, FieldProperties DEF Value
<1> QED
  BY <1>1, <1>2, <1>3 DEF i, StartsWithFirst

(* The value of a Host that occurs once, as it must.                        *)
LEMMA HostField ==
  ASSUME IInv, FieldsRead, NEW i \in ReadNamed("host")
  PROVE  /\ ReadNamed("host") = {i} /\ "host" \in DOMAIN fields
         /\ fields["host"] = Value(text, i) /\ Value(text, i) \in Line
<1>1. ReadNamed("host") = {i} /\ "host" \in DOMAIN fields
  BY DEF FieldsRead
<1> DEFINE k == Min(ReadNamed("host"))
<1>2. /\ k \in ReadNamed("host") /\ Value(text, k) \in Line
      /\ \E more \in Line : /\ fields["host"] = Value(text, k) \o more
                            /\ more = <<>> <=> ReadNamed("host") = {k}
  BY <1>1, FieldOf
<1> HIDE DEF k
<1>3. k = i
  BY <1>1, <1>2
<1>4. fields["host"] = Value(text, i) \o <<>>
  BY <1>1, <1>2, <1>3
<1> QED
  BY <1>1, <1>2, <1>3, <1>4, ConcatEmptySeq DEF Line

LEMMA StepValidate == ASSUME IInv, ValidateAllHeaderFields PROVE IInv'
<1>0. /\ pc = "fields" /\ getLine = <<>> /\ TypeOK /\ LineRead /\ text \in Texts
      /\ FieldsRead /\ status = "200"
  BY DEF ValidateAllHeaderFields, IInv, TypeOK
<1>1. CASE "host" \notin DOMAIN fields \/ fields["host"] = <<>>
  <2>1. /\ pc' = "refused" /\ status' = "400"
        /\ UNCHANGED <<text, at, line, fields, host>>
    BY <1>1 DEF ValidateAllHeaderFields, Refuse
  <2>2. ~WellFormed(text)
    <3> SUFFICES ASSUME NEW i \in LinesOf(text), Named(text, "host") = {i},
                        Value(text, i) # <<>>
                 PROVE  FALSE
      BY DEF WellFormed
    <3>1. i \in ReadNamed("host")
      BY <1>0, AllFieldsRead
    <3> QED
      BY <1>0, <1>1, <3>1, HostField
  <2>3. TypeOK'
    BY <1>0, <2>1 DEF TypeOK, Statuses
  <2>4. RefusedFor'
    BY <1>0, <2>1, <2>2 DEF RefusedFor, LineRead
  <2> QED
    BY <1>0, <2>1, <2>3, <2>4 DEF IInv
<1>2. CASE ~("host" \notin DOMAIN fields \/ fields["host"] = <<>>)
  <2>1. pc' = "host" /\ UNCHANGED <<text, at, line, fields, host, status>>
    BY <1>2 DEF ValidateAllHeaderFields
  <2>2. TypeOK'
    BY <1>0, <2>1 DEF TypeOK
  <2>3. LineRead' /\ HostRead'
    BY <1>0, <1>2, <2>1 DEF LineRead, HostRead, getLine
  <2>4. FieldsRead'
    BY <1>0, <2>1, FieldsKept
  <2> QED
    BY <1>0, <2>1, <2>2, <2>3, <2>4 DEF IInv
<1> QED
  BY <1>1, <1>2

(* The host in front of the port.                                           *)
LEMMA HostPart ==
  ASSUME NEW v \in Line
  PROVE  LET h == Before(v, ColonOf(v))
         IN  /\ h \in Line /\ IsPrefix(h, v) /\ COLON \notin Range(h)
             /\ h # v => v[Len(h) + 1] = COLON
<1> DEFINE c == ColonOf(v)
           h == Before(v, c)
           z == IF c = 0 THEN Len(v) ELSE c - 1
<1>0. Len(v) \in Nat
  BY LineProperties
<1>1. \/ c = 0 /\ \A i \in 1..Len(v) : i >= 1 => v[i] \notin {COLON}
      \/ /\ c \in 1..Len(v) /\ c >= 1 /\ v[c] \in {COLON}
         /\ \A i \in 1..Len(v) : i >= 1 /\ i < c => v[i] \notin {COLON}
  BY FoundFirst DEF ColonOf
<1>2. h = SubSeq(v, 1, z)
  BY Zenon DEF Before, Slice, Npos
<1> HIDE DEF c, h
<1>3. z \in 0..Len(v) /\ \A i \in 1..z : v[i] # COLON
  BY <1>0, <1>1
<1>4. z # Len(v) => v[z + 1] = COLON
  BY <1>0, <1>1
<1> HIDE DEF z
<1>5. /\ h \in Line /\ Len(h) = IF 1 <= z THEN z - 1 + 1 ELSE 0
      /\ \A i \in 1..(z - 1 + 1) : h[i] = v[1 + i - 1]
  BY <1>2, <1>3, PartOfLine
<1>6. Len(h) = z /\ \A i \in 1..z : h[i] = v[i]
  BY <1>0, <1>3, <1>5
<1>7. DOMAIN h = 1..z
  BY <1>5, <1>6, LineProperties
<1>8. COLON \notin Range(h)
  BY <1>3, <1>6, <1>7 DEF Range
<1>9. IsPrefix(h, v)
  <2>1. SubSeq(h, 1, Len(h)) = h
    BY <1>5, SubSeqFull DEF Line
  <2>2. Len(h) <= Len(v)
    BY <1>0, <1>3, <1>6
  <2> QED
    BY <1>2, <1>6, <2>1, <2>2 DEF IsPrefix
<1>10. ASSUME h # v PROVE v[Len(h) + 1] = COLON
  <2>1. z # Len(v)
    BY <1>2, <1>10, SubSeqFull DEF Line
  <2> QED
    BY <1>4, <1>6, <2>1
<1> QED
  BY <1>5, <1>8, <1>9, <1>10 DEF h, c

LEMMA StepHost == ASSUME IInv, ParseHost PROVE IInv'
<1>0. /\ pc = "host" /\ TypeOK /\ LineRead /\ FieldsRead /\ HostRead /\ text \in Texts
      /\ status = "200"
  BY DEF ParseHost, IInv, TypeOK
<1>1. /\ host' = Before(fields["host"], ColonOf(fields["host"])) /\ pc' = "parsed"
      /\ UNCHANGED <<text, at, line, fields, status>>
  BY DEF ParseHost
<1>2. host' \in Line
  <2>1. fields["host"] \in Line
    BY <1>0 DEF HostRead, TypeOK
  <2> QED
    BY <1>1, <2>1, HostPart
<1>3. TypeOK'
  BY <1>0, <1>1, <1>2 DEF TypeOK
<1>4. LineRead' /\ HostRead'
  BY <1>0, <1>1 DEF LineRead, HostRead, getLine
<1>5. FieldsRead'
  BY <1>0, <1>1, FieldsKept
<1>6. (host = Before(fields["host"], ColonOf(fields["host"])))'
  BY <1>1
<1> QED
  BY <1>0, <1>1, <1>3, <1>4, <1>5, <1>6 DEF IInv

LEMMA StepInv == IInv /\ [Next]_vars => IInv'
<1>1. CASE UNCHANGED vars
  BY <1>1, FieldsKept DEF vars, IInv, TypeOK, LineRead, HostRead, RefusedFor, getLine
<1> QED
  BY <1>1, StepLength, StepLine, StepField, StepValidate, StepHost DEF Next

LEMMA AlwaysInv == Spec => []IInv
BY InitInv, StepInv, PTL DEF Spec

-------------------------------------------------------------------------------
(* What the invariant implies *)

LEMMA Accepted == IInv => AcceptedIsWellFormed
<1> SUFFICES ASSUME IInv PROVE AcceptedIsWellFormed
  OBVIOUS
<1>1. ASSUME pc = "parsed" PROVE WellFormed(text)
  <2>1. LineRead /\ FieldsRead /\ HostRead
    BY <1>1 DEF IInv
  <2>2. PICK i : i \in ReadNamed("host")
    BY <2>1 DEF FieldsRead, HostRead
  <2>3. Named(text, "host") = {i} /\ i \in LinesOf(text)
    BY <2>1, <2>2, AllFieldsRead, HostField DEF HostRead, ReadNamed
  <2>4. Value(text, i) # <<>>
    BY <2>1, <2>2, HostField DEF HostRead
  <2>5. \A k \in LinesOf(text) : WellFormedField(text.lines[k])
    BY <2>1, AllFieldsRead DEF HostRead
  <2> QED
    BY <2>1, <2>3, <2>4, <2>5 DEF WellFormed, LineRead
<1>2. ASSUME pc = "refused" PROVE ~WellFormed(text)
  <2>1. RefusedFor /\ status # "200" /\ text.lines[1] \in Line
    BY <1>2, TextProperties DEF IInv, TypeOK
  <2>2. LineStatus(text.lines[1]) = "200" <=> WellFormedLine(text.lines[1], {"HTTP/1.1"})
    BY <2>1, StatusMeaning
  <2> QED
    BY <2>1, <2>2 DEF RefusedFor, WellFormed
<1> QED
  BY <1>1, <1>2 DEF AcceptedIsWellFormed

LEMMA FirstFault == IInv => RefusedForFirstFault
<1> SUFFICES ASSUME IInv, pc = "refused" PROVE RefusedForFirstFault
  BY DEF RefusedForFirstFault
<1> DEFINE l == text.lines[1]
           Old == WellFormedLine(l, Versions \ {"HTTP/1.1"})
<1>1. RefusedFor /\ l \in Line
  BY TextProperties DEF IInv
<1>2. /\ LineStatus(l) \in {"200", "400", "500", "505"}
      /\ LineStatus(l) = "200" <=> WellFormedLine(l, {"HTTP/1.1"})
      /\ LineStatus(l) = "500" <=> OnlyMethod(l)
      /\ LineStatus(l) = "505" <=> Old
  BY <1>1, StatusMeaning
<1>3. /\ status = "431" <=> text.long
      /\ status = "500" <=> ~text.long /\ OnlyMethod(l)
      /\ status = "505" <=> ~text.long /\ Old
  <2> HIDE DEF Old
  <2>1. CASE status = "431" /\ text.long
    BY <2>1
  <2>2. CASE ~text.long /\ status = LineStatus(l)
    BY <1>2, <2>2
  <2>3. CASE status = "400" /\ LineRead /\ ~WellFormed(text)
    BY <1>2, <2>3 DEF LineRead
  <2> QED
    BY <1>1, <2>1, <2>2, <2>3 DEF RefusedFor
<1> QED
  BY <1>3 DEF RefusedForFirstFault, OnlyMethod

(* A value that goes on with a comma begins with a number, or is one word,  *)
(* just when it does without what follows.                                  *)
LEMMA ValueGoesOn ==
  ASSUME NEW v \in Line, NEW more \in Line, NEW o, o = v \o more,
         more # <<>> => more[1] = COMMA
  PROVE  /\ o # <<>> /\ o[1] \in DOMAIN Leading <=> v # <<>> /\ v[1] \in DOMAIN Leading
         /\ v # <<>> => o[1] = v[1]
         /\ v = <<>> => more = <<>> \/ o[1] = COMMA
         /\ o \in Line
<1>0. COMMA \notin DOMAIN Leading
  BY WordsAreNoChars
<1>1. /\ o \in Line /\ Len(o) = Len(v) + Len(more)
      /\ \A i \in 1..Len(v) + Len(more) :
           o[i] = IF i <= Len(v) THEN v[i] ELSE more[i - Len(v)]
  BY ConcatProperties DEF Line
<1>2. /\ Len(v) \in Nat /\ Len(more) \in Nat /\ Len(o) \in Nat
      /\ (v = <<>> <=> Len(v) = 0) /\ (more = <<>> <=> Len(more) = 0)
      /\ (o = <<>> <=> Len(o) = 0)
  <2>1. \A s \in Line : Len(s) \in Nat /\ (s = <<>> <=> Len(s) = 0)
    BY EmptySeq, LenProperties DEF Line
  <2> QED
    BY <1>1, <2>1
<1>3. CASE Len(v) # 0
  <2>1. o[1] = v[1] /\ Len(o) # 0
    BY <1>1, <1>2, <1>3
  <2> QED
    BY <1>1, <1>2, <1>3, <2>1
<1>4. CASE Len(v) = 0
  <2>1. CASE Len(more) = 0
    <3>1. Len(o) = 0
      BY <1>1, <1>4, <2>1
    <3>2. o = <<>> /\ v = <<>>
      BY <1>2, <1>4, <3>1
    <3> QED
      BY <1>2, <2>1, <3>2
  <2>2. CASE Len(more) # 0
    <3>1. o[1] = more[1 - Len(v)] /\ 1 - Len(v) = 1
      BY <1>1, <1>2, <1>4, <2>2
    <3>2. o[1] = COMMA
      BY <1>2, <2>2, <3>1
    <3> QED
      BY <1>0, <1>1, <1>2, <1>4, <2>2, <3>2
  <2> QED
    BY <2>1, <2>2
<1> QED
  BY <1>3, <1>4

LEMMA Framed == IInv => FramedAsWritten
<1> SUFFICES ASSUME IInv, pc = "parsed" PROVE FramedAsWritten
  BY DEF FramedAsWritten
<1>0. LineRead /\ FieldsRead /\ HostRead /\ getLine = <<>> /\ at \in Nat
  BY CurrentLine DEF IInv, HostRead
<1>1. /\ \A name : Named(text, name) = ReadNamed(name)
      /\ \A name : name \in DOMAIN fields <=> ReadNamed(name) # {}
  BY <1>0, AllFieldsRead DEF FieldsRead
<1> DEFINE lengths == Named(text, "content-length")
           first == Value(text, Min(lengths))
<1>2. /\ IsNumeric(fields) <=>
           (lengths # {} => first # <<>> /\ first[1] \in DOMAIN Leading)
      /\ IsNumeric(fields) =>
           contentLength(fields) = IF lengths = {} THEN 0 ELSE Leading[first[1]]
  <2> DEFINE o == fields["content-length"]
  <2>1. HasLength(fields) <=> lengths # {}
    BY <1>1 DEF HasLength
  <2>2. ASSUME lengths # {}
        PROVE  /\ o # <<>> /\ o[1] \in DOMAIN Leading <=>
                    first # <<>> /\ first[1] \in DOMAIN Leading
               /\ first # <<>> => o[1] = first[1]
    <3>1. /\ first \in Line
          /\ \E more \in Line : o = first \o more /\ (more # <<>> => more[1] = COMMA)
      <4>1. lengths = ReadNamed("content-length")
        BY <1>1
      <4>2. LET i == Min(ReadNamed("content-length"))
            IN  /\ Value(text, i) \in Line
                /\ \E more \in Line : o = Value(text, i) \o more
                                     /\ (more # <<>> => more[1] = COMMA)
        BY <1>0, <2>2, <4>1, FieldOf
      <4> QED
        BY <4>1, <4>2, Zenon
    <3> HIDE DEF first, o, lengths
    <3>2. PICK more \in Line : o = first \o more /\ (more # <<>> => more[1] = COMMA)
      BY <3>1
    <3> QED
      BY <3>1, <3>2, ValueGoesOn
  <2> HIDE DEF lengths, first
  <2>3. CASE lengths = {}
    BY <2>1, <2>3 DEF IsNumeric, contentLength
  <2>4. CASE lengths # {}
    BY <2>1, <2>2, <2>4 DEF IsNumeric, contentLength
  <2> QED
    BY <2>3, <2>4
<1>3. transferEncodingIsChunked(fields) <=>
        \E i \in LinesOf(text) : /\ Named(text, "transfer-encoding") = {i}
                                 /\ Value(text, i) = <<"chunked">>
  <2> DEFINE codings == Named(text, "transfer-encoding")
             o == fields["transfer-encoding"]
             k == Min(codings)
  <2>1. CASE codings = {}
    BY <1>1, <2>1 DEF transferEncodingIsChunked
  <2>2. CASE codings # {}
    <3>1. /\ k \in codings /\ Value(text, k) \in Line
          /\ \E more \in Line : /\ o = Value(text, k) \o more
                                /\ more = <<>> <=> codings = {k}
                                /\ more # <<>> => more[1] = COMMA
      <4>1. codings = ReadNamed("transfer-encoding")
        BY <1>1
      <4>2. LET i == Min(ReadNamed("transfer-encoding"))
            IN  /\ i \in ReadNamed("transfer-encoding") /\ Value(text, i) \in Line
                /\ \E more \in Line :
                     /\ o = Value(text, i) \o more
                     /\ more = <<>> <=> ReadNamed("transfer-encoding") = {i}
                     /\ more # <<>> => more[1] = COMMA
        BY <1>0, <2>2, <4>1, FieldOf
      <4> QED
        BY <4>1, <4>2, Zenon
    <3>2. "transfer-encoding" \in DOMAIN fields
      BY <1>1, <2>2
    <3>3. k \in LinesOf(text)
      BY <3>1 DEF Named
    <3> HIDE DEF k, o, codings
    <3>4. o = <<"chunked">> <=> codings = {k} /\ Value(text, k) = <<"chunked">>
      <4>1. PICK more \in Line : /\ o = Value(text, k) \o more
                                 /\ more = <<>> <=> codings = {k}
                                 /\ more # <<>> => more[1] = COMMA
        BY <3>1, Zenon
      <4>2. "chunked" # COMMA
        BY DEF COMMA
      <4> QED
        <5>1. PICK v \in Line : v = Value(text, k)
          BY <3>1
        <5>2. o = v \o more /\ (more # <<>> => more[1] = COMMA)
          BY <4>1, <5>1
        <5>3. /\ v # <<>> => o[1] = v[1] /\ (Len(o) = 1 <=> Len(more) = 0 /\ Len(v) = 1)
              /\ v = <<>> => more = <<>> \/ o[1] = COMMA
              /\ o \in Line
          <6>1. v # <<>> => o[1] = v[1]
            BY <5>2, ValueGoesOn
          <6>2. v # <<>> => (Len(o) = 1 <=> Len(more) = 0 /\ Len(v) = 1)
            <7>1. Len(o) \in Nat /\ Len(v) \in Nat /\ Len(more) \in Nat
              BY <5>2, ConcatProperties DEF Line
            <7>2. Len(o) = Len(v) + Len(more)
              BY <5>2, ConcatProperties DEF Line
            <7>3. v # <<>> => Len(v) # 0
              BY EmptySeq DEF Line
            <7>4. \A a, b \in Nat : a # 0 => (a + b = 1 <=> b = 0 /\ a = 1)
              OBVIOUS
            <7> HIDE DEF o
            <7> QED
              BY <7>1, <7>2, <7>3, <7>4
          <6>3. v = <<>> => more = <<>> \/ o[1] = COMMA
            BY <5>2, ValueGoesOn
          <6>4. o \in Line
            BY <5>2, ValueGoesOn
          <6> QED
            BY <6>1, <6>2, <6>3, <6>4, Zenon
        <5>4. /\ o = <<"chunked">> <=> Len(o) = 1 /\ o[1] = "chunked"
              /\ v = <<"chunked">> <=> Len(v) = 1 /\ v[1] = "chunked"
          BY <5>1, <5>3, OneSign
        <5>5. CASE v # <<>>
          BY <4>1, <5>1, <5>3, <5>4, <5>5
        <5>6. CASE v = <<>>
          <6>1. v # <<"chunked">>
            BY <5>4, <5>6
          <6>2. more = <<>> => Len(o) = 0
            BY <5>2, <5>6
          <6> QED
            BY <4>1, <4>2, <5>1, <5>3, <5>4, <5>6, <6>1, <6>2
        <5> QED
          BY <5>5, <5>6
    <3> QED
      BY <3>1, <3>2, <3>3, <3>4 DEF transferEncodingIsChunked, o, codings
  <2> QED
    BY <2>1, <2>2
<1>4. ASSUME NEW i \in Named(text, "host")
      PROVE  /\ IsPrefix(host, Value(text, i)) /\ COLON \notin Range(host)
             /\ host # Value(text, i) => Value(text, i)[Len(host) + 1] = COLON
  <2>1. fields["host"] = Value(text, i) /\ Value(text, i) \in Line
    BY <1>0, <1>1, HostField
  <2>2. host = Before(Value(text, i), ColonOf(Value(text, i)))
    BY <2>1 DEF IInv
  <2> QED
    BY <2>1, <2>2, HostPart
<1> HIDE DEF lengths, first
<1> QED
  BY <1>2, <1>3, <1>4, Zenon DEF FramedAsWritten, lengths, first

-------------------------------------------------------------------------------
(* The theorems *)

(* Whatever is received, the parser never leaves the lines of the header,   *)
(* and the map has lines under words.                                       *)
THEOREM HeaderTypeCorrect == Spec => []TypeOK
<1>1. IInv => TypeOK
  BY DEF IInv
<1> QED
  BY <1>1, AlwaysInv, PTL

(* A header is accepted just when it is well formed.                        *)
THEOREM AcceptanceCorrect == Spec => []AcceptedIsWellFormed
  BY AlwaysInv, Accepted, PTL

(* The status of a refusal tells the first fault.                           *)
THEOREM RefusalCorrect == Spec => []RefusedForFirstFault
  BY AlwaysInv, FirstFault, PTL

(* The length, the coding and the host of an accepted header are those of   *)
(* its lines, the first length and the only coding counting.                *)
THEOREM FramingCorrect == Spec => []FramedAsWritten
  BY AlwaysInv, Framed, PTL
===============================================================================
