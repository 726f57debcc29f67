---------------------------------- MODULE Path ----------------------------------
(***************************************************************************)
(* src/response/Path: what a request's target is taken apart into.         *)
(*                                                                         *)
(* A text is a sequence of words and of the characters / ? + = ; the       *)
(* extensions .py and .pl are words of their own, so a file name is one    *)
(* word or several.                                                        *)
(***************************************************************************)
EXTENDS Naturals, SequencesExt

Text == Seq(STRING)
SLASH == "/"
QUERY == "?"
PLUS == "+"

Places(text, char) == {i \in DOMAIN text : text[i] = char}

\* splitPathQuery
RawPath(target) ==
  IF Places(target, QUERY) = {} THEN target
  ELSE SubSeq(target, 1, Min(Places(target, QUERY)) - 1)
Query(target) == SubSeq(target, Len(RawPath(target)) + 2, Len(target))

\* splitStr: where each part starts, until no separator is found; so there is
\* one part more than separators, of an empty text as well.
Find(text, sep, from) ==
  Min({i \in Places(text, sep) : from <= i} \cup {Len(text) + 1})
Starts(text, sep) ==
  LET start_pos[k \in 1..Len(text) + 1] ==
        IF k = 1 THEN 1 ELSE Find(text, sep, start_pos[k - 1]) + 1
  IN  start_pos
Parts(text, sep) ==
  Min({k \in 1..Len(text) + 1 : Find(text, sep, Starts(text, sep)[k]) > Len(text)})
Split(text, sep) ==
  [k \in 1..Parts(text, sep) |->
     LET start_pos == Starts(text, sep)[k]
     IN  SubSeq(text, start_pos, Find(text, sep, start_pos) - 1)]

\* createArgs
Args(target) ==
  IF Places(Query(target), "=") # {} THEN <<>> ELSE Split(Query(target), PLUS)

\* parseRequestPath
HasSlash(target) == Places(RawPath(target), SLASH) # {}
LastSlash(target) == Max(Places(RawPath(target), SLASH))
PathDir(target) == SubSeq(RawPath(target), 1, LastSlash(target))
PathFile(target) ==
  SubSeq(RawPath(target), LastSlash(target) + 1, Len(RawPath(target)))

\* setExtension; .py is looked for first, anywhere in the name.
NoExtension == ""
Extension(target) ==
  IF ".py" \in Range(PathFile(target)) THEN ".py"
  ELSE IF ".pl" \in Range(PathFile(target)) THEN ".pl" ELSE NoExtension
=============================================================================
