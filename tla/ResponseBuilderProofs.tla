------------------------- MODULE ResponseBuilderProofs -------------------------
(***************************************************************************)
(* What HttpResponseBuilder::build reads and what it answers, for any      *)
(* locations, error pages, requests and file systems, and any number of    *)
(* changes that others make to the files meanwhile.                        *)
(***************************************************************************)
EXTENDS ResponseBuilder, SequenceTheorems, WellFoundedInduction, TLAPS

-------------------------------------------------------------------------------
(* The inductive invariant *)

\* Nothing is found before the search ends, and what is done with the file
\* comes after that.
FoundInTime ==
  /\ pc \in {"start", "path", "find"} => ~exists
  /\ pc \in {"check", "cgi", "delete", "read", "header"} => exists
  /\ pc \in {"path", "find"} => default_root = Root

\* What was found is where the location puts it, and stays there as long as
\* nobody changes the files.
FoundAsAsked ==
  exists =>
    /\ found \in Matching /\ filepath = DirAt(found) \o path_file
    /\ changes = 0 => KindOf(filepath) # "absent"

MayRead ==
  /\ req.method = "GET"
  /\ Locations[found].methods = {} \/ "GET" \in Locations[found].methods

\* What an answer, and an error page, may consist of.
AnswerTexts == {<<"script">>} \cup (IF exists /\ MayRead THEN {filepath} ELSE {})
PageTexts == {<<"default", code>>} \cup (IF HasPage THEN {ErrorPath} ELSE {})

OneAnswer == body = <<>> \/ \E a \in AnswerTexts : body = <<a>>

\* An answer is in the way of an error page only when its file has vanished.
Vanished == exists /\ code = "500" /\ changes > 0
LeftOver == body = <<>> \/ (Vanished /\ \E a \in AnswerTexts : body = <<a>>)
WithPage ==
  \/ \E t \in PageTexts : body = <<t>>
  \/ Vanished /\ \E a \in AnswerTexts, t \in PageTexts : body = <<a, t>>

BodySoFar ==
  /\ pc \in {"start", "path", "find", "check", "cgi", "delete", "read", "dead"} => body = <<>>
  /\ pc = "read" => MayRead
  /\ pc = "header" => OneAnswer
  /\ pc \in {"error", "errorheader"} => code # "200"
  /\ pc = "error" => LeftOver
  /\ pc = "errorheader" => LeftOver \/ WithPage
  /\ pc = "done" =>
       \/ /\ header.status = "200" /\ header.length = Len(body)
          /\ header.type = TypeFor(Locations[found], path_file)
          /\ exists /\ OneAnswer
       \/ /\ header.status = code /\ code # "200"
          /\ LeftOver \/ WithPage

IInv == TypeOK /\ FoundInTime /\ FoundAsAsked /\ BodySoFar

-------------------------------------------------------------------------------
(* Bodies of one text and of two *)

LEMMA Joined ==
  ASSUME NEW a, NEW t
  PROVE  /\ <<>> \o <<>> = <<>> /\ <<>> \o <<t>> = <<t>> /\ Append(<<>>, t) = <<t>>
         /\ <<a>> \o <<>> = <<a>> /\ <<a>> \o <<t>> = <<a, t>> /\ Append(<<a>>, t) = <<a, t>>
<1> DEFINE S == {a, t}
<1>1. <<a>> \in Seq(S) /\ <<t>> \in Seq(S) /\ <<a, t>> \in Seq(S) /\ a \in S /\ t \in S
  OBVIOUS
<1> HIDE DEF S
<1>2. <<>> \o <<>> = <<>> /\ <<>> \o <<t>> = <<t>> /\ Append(<<>>, t) = <<t>> /\ <<a>> \o <<>> = <<a>>
  OBVIOUS
<1>3. <<a>> \o <<t>> = <<a, t>>
  <2>1. <<a>> \o <<t>> \in Seq(S) /\ Len(<<a>> \o <<t>>) = 2
    BY <1>1, ConcatProperties
  <2>2. (<<a>> \o <<t>>)[1] = a /\ (<<a>> \o <<t>>)[2] = t
    BY <1>1, ConcatProperties
  <2>3. Len(<<a, t>>) = 2 /\ <<a, t>>[1] = a /\ <<a, t>>[2] = t
    OBVIOUS
  <2>4. \A i \in 1..2 : (<<a>> \o <<t>>)[i] = <<a, t>>[i]
    <3> SUFFICES ASSUME NEW i \in 1..2 PROVE (<<a>> \o <<t>>)[i] = <<a, t>>[i]
      OBVIOUS
    <3>1. i = 1 \/ i = 2
      OBVIOUS
    <3> QED
      BY <3>1, <2>2, <2>3
  <2> QED
    BY <1>1, <2>1, <2>3, <2>4, SeqEqual
<1>4. Append(<<a>>, t) = <<a>> \o <<t>>
  BY <1>1, AppendIsConcat
<1> QED
  BY <1>2, <1>3, <1>4

LEMMA Lengths ==
  ASSUME NEW a, NEW t
  PROVE  /\ Len(<<>>) = 0 /\ Len(<<a>>) = 1 /\ Len(<<a, t>>) = 2
         /\ DOMAIN <<>> = {} /\ DOMAIN <<a>> = {1} /\ DOMAIN <<a, t>> = {1, 2}
OBVIOUS

LEMMA ShortBody ==
  ASSUME body = <<>> \/ \E a : body = <<a>>
  PROVE  Len(body) <= 1 /\ ~(Len(body) > 1)
<1>1. CASE body = <<>>
  <2>1. Len(body) = 0
    BY <1>1
  <2> QED
    BY <2>1
<1>2. ASSUME NEW a, body = <<a>> PROVE Len(body) <= 1 /\ ~(Len(body) > 1)
  <2>1. Len(body) = 1
    BY <1>2
  <2> QED
    BY <2>1
<1> QED
  BY <1>1, <1>2

LEMMA InitInv == Init => IInv
<1> SUFFICES ASSUME Init PROVE IInv
  OBVIOUS
<1>1. Len(Locations) \in Nat /\ Len(Locations) + 1 \in Nat
  BY LocationsAssumption, LenProperties
<1>2. TypeOK
  <2>1. fs \in [Files -> Kinds]
    BY FilesAssumption DEF Init
  <2>2. 1 \in 1..Len(Locations) + 1
    BY <1>1
  <2>3. changes \in 0..MaxChanges
    <3>1. changes = 0
      BY DEF Init
    <3> QED
      BY <3>1, BoundAssumption
  <2>4. ~exists
    BY DEF Init, exists, Nowhere
  <2> QED
    BY <2>1, <2>2, <2>3, <2>4 DEF Init, TypeOK, Nowhere, NoRoot, Codes
<1>3. FoundInTime
  BY DEF Init, FoundInTime, exists, Nowhere
<1>4. FoundAsAsked
  BY DEF Init, FoundAsAsked, exists
<1>5. BodySoFar
  BY DEF Init, BodySoFar
<1> QED
  BY <1>2, <1>3, <1>4, <1>5 DEF IInv

-------------------------------------------------------------------------------
(* Every step keeps it *)

LEMMA LocationsTyped ==
  /\ Len(Locations) \in Nat /\ DOMAIN Locations = 1..Len(Locations)
  /\ \A i \in 1..Len(Locations) : Len(Locations[i].indexes) \in Nat
<1>1. Len(Locations) \in Nat /\ DOMAIN Locations = 1..Len(Locations)
  BY LocationsAssumption, LenProperties
<1>2. ASSUME NEW i \in 1..Len(Locations) PROVE Len(Locations[i].indexes) \in Nat
  <2>1. Locations[i] \in Location
    BY LocationsAssumption, ElementOfSeq
  <2>2. Locations[i].indexes \in Seq(Text)
    BY <2>1 DEF Location
  <2> QED
    BY <2>2, LenProperties
<1> QED
  BY <1>1, <1>2

LEMMA ReadHasKind ==
  ASSUME NEW path, KindOf(path) # "absent"
  PROVE  path \in Files
BY DEF KindOf

LEMMA FilesHaveNames ==
  ASSUME NEW path \in Files
  PROVE  path # Nowhere
BY TokensAssumption DEF Nowhere

LEMMA Bounds ==
  ASSUME TypeOK
  PROVE  /\ changes \in 0..MaxChanges /\ loc_it \in 1..Len(Locations) + 1
         /\ loc_it <= Len(Locations) => index \in 1..Len(loc.indexes) \cup {1}
BY DEF TypeOK

Points ==
  {"start", "path", "find", "check", "cgi", "delete", "read", "header",
   "error", "errorheader", "done", "dead"}

\* What is raised or decided leaves the rest as it is.
LEMMA TypeKept ==
  ASSUME TypeOK, UNCHANGED <<req, disk, default_root, loc_it, index, filepath, found, header>>,
         pc' \in Points,
         code' \in Codes
  PROVE  TypeOK'
<1>1. UNCHANGED <<loc, exists>>
  BY DEF loc, exists
<1>2. UNCHANGED <<req, fs, cwd, changes, still, default_root, loc_it, index, filepath, found, header>>
  BY DEF disk
<1> QED
  BY <1>1, <1>2, ZenonT(30) DEF TypeOK, Points

LEMMA TypeStep ==
  ASSUME IInv, [Next]_vars
  PROVE  TypeOK'
<1> USE DEF IInv
<1> USE LocationsTyped
<1>1. CASE SetDefaultRoot
  BY <1>1 DEF SetDefaultRoot, TypeOK, loc, exists, disk
<1>2. CASE ParseRequestPath
  <2>1. req.code \in Codes
    BY RequestsAssumption DEF TypeOK, Request
  <2> QED
    BY <1>2, <2>1 DEF ParseRequestPath, Raise, TypeOK, loc, exists, disk
<1>3. CASE NoSlash
  <2>1. pc' = "error" /\ code' \in Codes
    BY <1>3 DEF NoSlash, Raise, Codes
  <2> QED
    BY <1>3, <2>1, TypeKept DEF NoSlash, Points
<1>4. CASE GetCwdFails
  <2>1. pc' = "error" /\ code' \in Codes
    BY <1>4 DEF GetCwdFails, Raise, Codes
  <2> QED
    BY <1>4, <2>1, TypeKept DEF GetCwdFails, Points
<1>5. CASE NextLocation
  <2>1. loc_it + 1 \in 1..Len(Locations) + 1 /\ index' = 1
    BY <1>5, Bounds DEF NextLocation, AtLocation
  <2> QED
    BY <1>5, <2>1, ZenonT(30) DEF NextLocation, TypeOK, loc, exists, disk
<1>6. CASE FindActualFilepath
  <2>1. Target \in Files
    BY <1>6, ReadHasKind DEF FindActualFilepath
  <2>3. loc_it \in DOMAIN Locations
    BY <1>6, Bounds DEF FindActualFilepath, MayLook, Matches, AtLocation
  <2>2. loc_it # 0
    BY Bounds
  <2> QED
    BY <1>6, <2>1, <2>2, <2>3 DEF FindActualFilepath, TypeOK, loc, exists, disk
<1>7. CASE MissActualFilepath
  <2>1. loc_it \in 1..Len(Locations) /\ Len(loc.indexes) \in Nat
    BY <1>7, Bounds DEF MissActualFilepath, MayLook, Matches, AtLocation, loc
  <2>2. CASE MoreNames
    <3>1. index + 1 \in 1..Len(loc.indexes)
      BY <2>1, <2>2, Bounds DEF MoreNames
    <3> QED
      BY <1>7, <2>2, <3>1, ZenonT(30) DEF MissActualFilepath, TypeOK, loc, exists, disk
  <2>3. CASE ~MoreNames
    <3>1. loc_it + 1 \in 1..Len(Locations) + 1
      BY <2>1
    <3> QED
      BY <1>7, <2>3, <3>1, ZenonT(30) DEF MissActualFilepath, TypeOK, loc, exists, disk
  <2> QED
    BY <2>2, <2>3
<1>8. CASE DirectoryNotFound
  <2>1. pc' = "error" /\ code' \in Codes
    BY <1>8 DEF DirectoryNotFound, Raise, Codes
  <2> QED
    BY <1>8, <2>1, TypeKept DEF DirectoryNotFound, Points
<1>9. CASE FileNotFound
  <2>1. pc' = "error" /\ code' \in Codes
    BY <1>9 DEF FileNotFound, Raise, Codes
  <2> QED
    BY <1>9, <2>1, TypeKept DEF FileNotFound, Points
<1>10. CASE CheckOptions
  <2>1. pc' \in {"cgi", "delete", "read", "error"}
    BY <1>10 DEF CheckOptions, Branch, Raise
  <2>2. code' \in Codes
    BY <1>10 DEF CheckOptions, Raise, TypeOK, Codes
  <2> QED
    BY <1>10, <2>1, <2>2, TypeKept DEF CheckOptions, Points
<1>11. CASE DoCGI
  <2>1. pc' \in {"header", "error", "dead"}
    BY <1>11 DEF DoCGI, Raise
  <2>2. code' \in Codes
    BY <1>11 DEF DoCGI, Raise, TypeOK, Codes
  <2> QED
    BY <1>11, <2>1, <2>2, TypeKept DEF DoCGI, Points
<1>12. CASE DeleteFile
  BY <1>12 DEF DeleteFile, TypeOK, loc, exists, disk, build
<1>13. CASE ReadFile
  <2>1. pc' \in {"header", "error"}
    BY <1>13 DEF ReadFile, Raise
  <2>2. code' \in Codes
    BY <1>13 DEF ReadFile, Raise, TypeOK, Codes
  <2> QED
    BY <1>13, <2>1, <2>2, TypeKept DEF ReadFile, Points
<1>14. CASE BuildHeader
  <2>1. Len(body) \in Nat
    BY <1>14, Lengths DEF BuildHeader, BodySoFar, OneAnswer
  <2> QED
    BY <1>14, <2>1 DEF BuildHeader, Raise, TypeOK, loc, exists, disk, Codes
<1>15. CASE ReadErrorPage
  BY <1>15 DEF ReadErrorPage, TypeOK, loc, exists, disk
<1>16. CASE BuildErrorHeader
  BY <1>16 DEF BuildErrorHeader, ErrorHeader, TypeOK, loc, exists, disk
<1>17. CASE BuildDefaultErrorPage
  BY <1>17 DEF BuildDefaultErrorPage, ErrorHeader, TypeOK, loc, exists, disk
<1>18. CASE Change
  <2>1. changes + 1 \in 0..MaxChanges
    BY <1>18, BoundAssumption, Bounds DEF Change
  <2>2. fs' \in [Files -> Kinds] /\ cwd' \in BOOLEAN
    BY <1>18 DEF Change, TypeOK
  <2> QED
    BY <1>18, <2>1, <2>2 DEF Change, TypeOK, loc, exists, build
<1>19. CASE UNCHANGED vars
  <2>1. UNCHANGED <<req, disk, default_root, loc_it, index, filepath, found, header, pc, code>>
    BY <1>19 DEF vars, build
  <2>2. pc \in Points /\ code \in Codes
    BY DEF TypeOK, Points
  <2> QED
    BY <2>1, <2>2, TypeKept
<1> QED
  BY <1>1, <1>2, <1>3, <1>4, <1>5, <1>6, <1>7, <1>8, <1>9, <1>10, <1>11, <1>12,
     <1>13, <1>14, <1>15, <1>16, <1>17, <1>18, <1>19 DEF Next, Step

LEMMA FoundStep ==
  ASSUME IInv, [Next]_vars
  PROVE  FoundInTime' /\ FoundAsAsked'
<1> USE DEF IInv, FoundInTime, FoundAsAsked, Matching, DirAt, exists
<1>1. CASE SetDefaultRoot
  BY <1>1 DEF SetDefaultRoot
<1>2. CASE ParseRequestPath
  BY <1>2 DEF ParseRequestPath, Raise
<1>3. CASE NoSlash
  BY <1>3 DEF NoSlash, Raise
<1>4. CASE GetCwdFails
  BY <1>4 DEF GetCwdFails, Matches, AtLocation, Raise
<1>5. CASE NextLocation
  BY <1>5 DEF NextLocation, AtLocation
<1>6. CASE FindActualFilepath
  <2>1. Target \in Files /\ KindOf(Target) # "absent" /\ filepath' = Target /\ found' = loc_it
    BY <1>6, ReadHasKind DEF FindActualFilepath
  <2>2. exists'
    BY <2>1, FilesHaveNames
  <2>3. loc_it \in DOMAIN Locations /\ Locations[loc_it].location = PathDir(req.path)
    BY <1>6, Bounds, LocationsTyped DEF FindActualFilepath, MayLook, Matches, AtLocation, loc
  <2>4. UNCHANGED <<req, fs, changes>>
    BY <1>6 DEF FindActualFilepath, disk
  <2>5. found' \in Matching'
    BY <2>1, <2>3, <2>4
  <2>6. default_root = Root
    BY <1>6 DEF FindActualFilepath, MayLook, Matches, AtLocation
  <2>7. Target = DirAt(loc_it) \o Name
    BY <2>3, <2>6 DEF Target, Dir, getActualRoot, loc
  <2>8. filepath' = DirAt(found)' \o path_file'
    BY <1>6, <2>1, <2>4, <2>7 DEF FindActualFilepath
  <2>9. KindOf(filepath)' # "absent"
    BY <2>1, <2>4 DEF KindOf
  <2> QED
    BY <1>6, <2>2, <2>5, <2>8, <2>9 DEF FindActualFilepath
<1>7. CASE MissActualFilepath
  BY <1>7 DEF MissActualFilepath, MayLook, Matches, AtLocation
<1>8. CASE DirectoryNotFound
  BY <1>8 DEF DirectoryNotFound, MayLook, Matches, AtLocation, Raise
<1>9. CASE FileNotFound
  BY <1>9 DEF FileNotFound, Raise
<1>10. CASE CheckOptions
  BY <1>10 DEF CheckOptions, Branch, Raise, KindOf, disk
<1>11. CASE DoCGI
  BY <1>11 DEF DoCGI, Raise, KindOf, disk
<1>12. CASE DeleteFile
  BY <1>12 DEF DeleteFile, KindOf, disk, build
<1>13. CASE ReadFile
  BY <1>13 DEF ReadFile, Raise, KindOf, disk
<1>14. CASE BuildHeader
  BY <1>14 DEF BuildHeader, Raise, KindOf, disk
<1>15. CASE ReadErrorPage
  BY <1>15 DEF ReadErrorPage, KindOf, disk
<1>16. CASE BuildErrorHeader
  BY <1>16 DEF BuildErrorHeader, KindOf, disk
<1>17. CASE BuildDefaultErrorPage
  BY <1>17 DEF BuildDefaultErrorPage, KindOf, disk
<1>18. CASE Change
  <2>1. changes' # 0
    BY <1>18, Bounds DEF Change
  <2> QED
    BY <1>18, <2>1 DEF Change, build
<1>19. CASE UNCHANGED vars
  BY <1>19 DEF vars, KindOf, disk, build
<1> QED
  BY <1>1, <1>2, <1>3, <1>4, <1>5, <1>6, <1>7, <1>8, <1>9, <1>10, <1>11, <1>12,
     <1>13, <1>14, <1>15, <1>16, <1>17, <1>18, <1>19 DEF Next, Step

LEMMA TextsStay ==
  ASSUME UNCHANGED <<req, changes, found, filepath, default_root, code>>
  PROVE  /\ AnswerTexts' = AnswerTexts /\ PageTexts' = PageTexts /\ (Vanished' <=> Vanished)
         /\ UNCHANGED body => (LeftOver' <=> LeftOver) /\ (WithPage' <=> WithPage)
<1>1. AnswerTexts' = AnswerTexts
  BY DEF AnswerTexts, exists, MayRead
<1>2. PageTexts' = PageTexts
  BY DEF PageTexts, HasPage, ErrorPath, ErrorRoot, exists
<1>3. Vanished' <=> Vanished
  BY DEF Vanished, exists
<1> QED
  BY <1>1, <1>2, <1>3 DEF LeftOver, WithPage

\* A page comes after what is there, if anything is.
LEMMA PageJoins ==
  ASSUME LeftOver, UNCHANGED <<req, changes, found, filepath, default_root, code>>,
         NEW t \in PageTexts,
         body' \in {body, body \o <<>>, body \o <<t>>, Append(body, t)}
  PROVE  LeftOver' \/ WithPage'
<1>1. CASE body = <<>>
  <2>1. body' = <<>> \/ body' = <<t>>
    BY <1>1, Joined
  <2> QED
    BY <2>1, TextsStay DEF LeftOver, WithPage
<1>2. CASE Vanished /\ \E a \in AnswerTexts : body = <<a>>
  <2>1. PICK a \in AnswerTexts : body = <<a>>
    BY <1>2
  <2>2. body' = <<a>> \/ body' = <<a, t>>
    BY <2>1, Joined
  <2> QED
    BY <1>2, <2>2, TextsStay DEF LeftOver, WithPage
<1> QED
  BY <1>1, <1>2 DEF LeftOver

LEMMA BodyStep ==
  ASSUME IInv, [Next]_vars
  PROVE  BodySoFar'
<1> USE DEF IInv
<1>1. CASE SetDefaultRoot
  BY <1>1 DEF SetDefaultRoot, BodySoFar
<1>2. CASE ParseRequestPath
  BY <1>2 DEF ParseRequestPath, Raise, BodySoFar, LeftOver
<1>3. CASE NoSlash
  BY <1>3 DEF NoSlash, Raise, BodySoFar, LeftOver
<1>4. CASE GetCwdFails
  BY <1>4 DEF GetCwdFails, Matches, AtLocation, Raise, BodySoFar, LeftOver
<1>5. CASE NextLocation
  BY <1>5 DEF NextLocation, AtLocation, BodySoFar
<1>6. CASE FindActualFilepath
  BY <1>6 DEF FindActualFilepath, MayLook, Matches, AtLocation, BodySoFar
<1>7. CASE MissActualFilepath
  BY <1>7 DEF MissActualFilepath, MayLook, Matches, AtLocation, BodySoFar
<1>8. CASE DirectoryNotFound
  BY <1>8 DEF DirectoryNotFound, MayLook, Matches, AtLocation, Raise, BodySoFar, LeftOver
<1>9. CASE FileNotFound
  BY <1>9 DEF FileNotFound, Raise, BodySoFar, LeftOver
<1>10. CASE CheckOptions
  <2>1. body' = <<>>
    BY <1>10 DEF CheckOptions, BodySoFar
  <2>2. pc' \in {"cgi", "delete", "read"} \/ (pc' = "error" /\ code' = "403")
    BY <1>10 DEF CheckOptions, Branch, Raise
  <2>3. pc' = "read" => MayRead'
    <3> SUFFICES ASSUME pc' = "read" PROVE MayRead'
      OBVIOUS
    <3>1. /\ IsAllowedMethod(Locations[found], req.method, path_file)
          /\ Branch(Locations[found], req.method, path_file) = "read"
      BY <1>10 DEF CheckOptions, Raise
    <3>2. ~IsFileCGI(Locations[found], path_file) /\ req.method # "DELETE"
      BY <3>1 DEF Branch
    <3>3. req.method \in Methods
      BY RequestsAssumption DEF TypeOK, Request
    <3>4. MayRead
      BY <3>1, <3>2, <3>3 DEF IsAllowedMethod, MayRead, Methods
    <3> QED
      BY <1>10, <3>4 DEF CheckOptions, MayRead
  <2> QED
    BY <2>1, <2>2, <2>3 DEF BodySoFar, LeftOver
<1>11. CASE DoCGI
  <2>1. body = <<>> /\ Append(body, <<"script">>) = << <<"script">> >>
    BY <1>11, Joined DEF DoCGI, BodySoFar
  <2>2. CASE pc' = "header"
    <3>1. body' = << <<"script">> >>
      BY <1>11, <2>1, <2>2 DEF DoCGI, Raise
    <3> QED
      BY <2>2, <3>1 DEF BodySoFar, OneAnswer, AnswerTexts
  <2>3. CASE pc' = "error" /\ code' = "500" /\ body' = <<>>
    BY <2>3 DEF BodySoFar, LeftOver
  <2>4. CASE pc' = "dead" /\ body' = <<>>
    BY <2>4 DEF BodySoFar
  <2> QED
    BY <1>11, <2>1, <2>2, <2>3, <2>4 DEF DoCGI, Raise
<1>12. CASE DeleteFile
  BY <1>12 DEF DeleteFile, build, BodySoFar, OneAnswer
<1>13. CASE ReadFile
  <2>1. body = <<>> /\ MayRead /\ exists
    BY <1>13 DEF ReadFile, BodySoFar, FoundInTime
  <2>2. CASE pc' = "header"
    <3>1. body' = body \o Content(filepath)
      BY <1>13, <2>2 DEF ReadFile, Raise
    <3>2. body' = <<>> \/ body' = <<filepath>>
      BY <2>1, <3>1, Joined DEF Content
    <3>3. MayRead' /\ exists' /\ filepath' = filepath
      BY <1>13, <2>1 DEF ReadFile, MayRead, exists
    <3> QED
      BY <2>2, <3>2, <3>3 DEF BodySoFar, OneAnswer, AnswerTexts
  <2>3. CASE pc' = "error" /\ code' = "500" /\ body' = <<>>
    BY <2>3 DEF BodySoFar, LeftOver
  <2> QED
    BY <1>13, <2>1, <2>2, <2>3 DEF ReadFile, Raise
<1>14. CASE BuildHeader
  <2>1. OneAnswer /\ exists
    BY <1>14 DEF BuildHeader, BodySoFar, FoundInTime
  <2>2. /\ UNCHANGED <<req, fs, changes, found, path_file, filepath, body>>
        /\ AnswerTexts' = AnswerTexts /\ exists'
    BY <1>14, <2>1 DEF BuildHeader, disk, AnswerTexts, MayRead, exists
  <2>3. OneAnswer'
    BY <2>1, <2>2 DEF OneAnswer
  <2>4. CASE KindOf(filepath) # "absent"
    <3>1. /\ pc' = "done" /\ header'.status = "200" /\ header'.length = Len(body)
          /\ header'.type = TypeFor(Locations[found], path_file)
      BY <1>14, <2>4 DEF BuildHeader
    <3> QED
      BY <2>2, <2>3, <3>1 DEF BodySoFar
  <2>5. CASE KindOf(filepath) = "absent"
    <3>1. pc' = "error" /\ code' = "500"
      BY <1>14, <2>5 DEF BuildHeader, Raise
    <3>2. changes > 0
      <4>1. changes # 0
        BY <2>1, <2>5 DEF FoundAsAsked
      <4> QED
        BY <4>1, Bounds
    <3>3. Vanished'
      BY <2>2, <3>1, <3>2 DEF Vanished
    <3>4. LeftOver'
      BY <2>3, <3>3 DEF OneAnswer, LeftOver
    <3> QED
      BY <3>1, <3>4 DEF BodySoFar
  <2> QED
    BY <2>4, <2>5
<1>15. CASE ReadErrorPage
  <2>1. LeftOver /\ code # "200" /\ HasPage
    BY <1>15 DEF ReadErrorPage, PageReadable, BodySoFar
  <2>2. UNCHANGED <<req, changes, found, filepath, default_root, code>>
    BY <1>15 DEF ReadErrorPage, disk
  <2>3. ErrorPath \in PageTexts
    BY <2>1 DEF PageTexts
  <2>4. body' = body \/ body' = body \o <<>> \/ body' = body \o <<ErrorPath>>
    BY <1>15 DEF ReadErrorPage, Content
  <2>5. LeftOver' \/ WithPage'
    BY <2>1, <2>2, <2>3, <2>4, PageJoins
  <2> QED
    BY <1>15, <2>1, <2>2, <2>5 DEF ReadErrorPage, BodySoFar
<1>16. CASE BuildErrorHeader
  <2>1. (LeftOver \/ WithPage) /\ code # "200"
    BY <1>16 DEF BuildErrorHeader, BodySoFar
  <2>2. UNCHANGED <<req, changes, found, filepath, default_root, code, body>>
    BY <1>16 DEF BuildErrorHeader, disk
  <2>3. LeftOver' \/ WithPage'
    BY <2>1, <2>2, TextsStay
  <2> QED
    BY <1>16, <2>1, <2>2, <2>3 DEF BuildErrorHeader, ErrorHeader, BodySoFar
<1>17. CASE BuildDefaultErrorPage
  <2>1. LeftOver /\ code # "200"
    BY <1>17 DEF BuildDefaultErrorPage, BodySoFar, LeftOver
  <2>2. UNCHANGED <<req, changes, found, filepath, default_root, code>>
    BY <1>17 DEF BuildDefaultErrorPage, disk
  <2>3. <<"default", code>> \in PageTexts
    BY DEF PageTexts
  <2>4. body' = Append(body, <<"default", code>>)
    BY <1>17 DEF BuildDefaultErrorPage
  <2>5. LeftOver' \/ WithPage'
    BY <2>1, <2>2, <2>3, <2>4, PageJoins
  <2> QED
    BY <1>17, <2>1, <2>2, <2>5 DEF BuildDefaultErrorPage, ErrorHeader, BodySoFar
<1>18. CASE Change
  <2>1. changes' > 0 /\ (Vanished => Vanished')
    BY <1>18, Bounds DEF Change, build, Vanished, exists
  <2>2. UNCHANGED <<req, found, filepath, default_root, code, body, header, path_file, pc>>
    BY <1>18 DEF Change, build
  <2>3. AnswerTexts' = AnswerTexts /\ PageTexts' = PageTexts /\ (exists' <=> exists)
    BY <2>2 DEF AnswerTexts, PageTexts, MayRead, HasPage, ErrorPath, ErrorRoot, exists
  <2>4. (OneAnswer => OneAnswer') /\ (LeftOver => LeftOver') /\ (WithPage => WithPage')
    BY <2>1, <2>2, <2>3 DEF OneAnswer, LeftOver, WithPage
  <2>5. MayRead => MayRead'
    BY <2>2 DEF MayRead
  <2> QED
    BY <2>2, <2>3, <2>4, <2>5 DEF BodySoFar
<1>19. CASE UNCHANGED vars
  <2>1. UNCHANGED <<pc, req, changes, found, filepath, path_file, default_root, code, body, header>>
    BY <1>19 DEF vars, disk, build
  <2>2. /\ OneAnswer' = OneAnswer /\ LeftOver' = LeftOver /\ WithPage' = WithPage
        /\ MayRead' = MayRead /\ exists' = exists
    BY <2>1 DEF OneAnswer, LeftOver, WithPage, MayRead, exists, Vanished, AnswerTexts, PageTexts,
       HasPage, ErrorPath, ErrorRoot
  <2> QED
    BY <2>1, <2>2 DEF BodySoFar
<1> QED
  BY <1>1, <1>2, <1>3, <1>4, <1>5, <1>6, <1>7, <1>8, <1>9, <1>10, <1>11, <1>12,
     <1>13, <1>14, <1>15, <1>16, <1>17, <1>18, <1>19 DEF Next, Step

LEMMA Invariant == Spec => []IInv
<1>1. Init => IInv
  BY InitInv
<1>2. IInv /\ [Next]_vars => IInv'
  BY TypeStep, FoundStep, BodyStep DEF IInv
<1> QED
  BY <1>1, <1>2, PTL DEF Spec

-------------------------------------------------------------------------------
(* What it implies *)

\* Every variable of HttpResponseBuilder::build keeps to its type: the search
\* never looks past the last location or the last index.
THEOREM BuilderTypeCorrect == Spec => []TypeOK
<1>1. IInv => TypeOK
  BY DEF IInv
<1> QED
  BY <1>1, Invariant, PTL

\* Whatever others do to the files, what build() reads is the page of the
\* error, or the file that was found where a location for the path puts it,
\* for a GET that the location allows (readFile, buildErrorBody).
THEOREM ReadsCorrect == Spec => []ReadsOnlyWhatIsAllowed
<1>1. ASSUME IInv, NEW i \in DOMAIN body, body[i] \in Files
      PROVE  \/ /\ body[i] = filepath /\ found \in Matching
                /\ filepath = DirAt(found) \o path_file
                /\ req.method = "GET"
                /\ Locations[found].methods = {} \/ "GET" \in Locations[found].methods
             \/ pc \in {"errorheader", "done"} /\ HasPage /\ body[i] = ErrorPath
  <2> USE <1>1
  <2>1. code \in Codes
    BY DEF IInv, TypeOK
  <2>2. ASSUME NEW t \in AnswerTexts, t \in Files
        PROVE  exists /\ MayRead /\ t = filepath
    BY <2>2, TokensAssumption DEF AnswerTexts
  <2>3. ASSUME NEW t \in PageTexts, t \in Files
        PROVE  HasPage /\ t = ErrorPath
    BY <2>1, <2>3, TokensAssumption DEF PageTexts
  <2>4. body[i] \in AnswerTexts \/ (pc \in {"errorheader", "done"} /\ body[i] \in PageTexts)
    <3>1. body # <<>>
      BY Lengths
    <3>2. pc \in {"header", "error", "errorheader", "done"}
      BY <3>1 DEF IInv, TypeOK, BodySoFar
    <3>3. ASSUME NEW a \in AnswerTexts, body = <<a>> PROVE body[i] \in AnswerTexts
      BY <3>3, Lengths
    <3>4. ASSUME NEW t \in PageTexts, body = <<t>> PROVE body[i] \in PageTexts
      BY <3>4, Lengths
    <3>5. ASSUME NEW a \in AnswerTexts, NEW t \in PageTexts, body = <<a, t>>
          PROVE  body[i] \in AnswerTexts \cup PageTexts
      BY <3>5, Lengths
    <3>6. OneAnswer \/ LeftOver => body[i] \in AnswerTexts
      BY <3>1, <3>3 DEF OneAnswer, LeftOver
    <3>7. WithPage => body[i] \in AnswerTexts \cup PageTexts
      BY <3>4, <3>5 DEF WithPage
    <3>8. (OneAnswer \/ LeftOver) \/ (pc \in {"errorheader", "done"} /\ WithPage)
      BY <3>2 DEF IInv, BodySoFar
    <3> QED
      BY <3>6, <3>7, <3>8
  <2>5. CASE body[i] \in AnswerTexts
    <3>1. exists /\ MayRead /\ body[i] = filepath
      BY <2>2, <2>5
    <3> QED
      BY <3>1 DEF IInv, FoundAsAsked, MayRead
  <2>6. CASE pc \in {"errorheader", "done"} /\ body[i] \in PageTexts
    BY <2>3, <2>6
  <2> QED
    BY <2>4, <2>5, <2>6
<1>2. IInv => ReadsOnlyWhatIsAllowed
  BY <1>1 DEF ReadsOnlyWhatIsAllowed
<1> QED
  BY <1>2, Invariant, PTL

\* An answer of 200 is one text with its own length and the type of the file
\* that was found (buildHeader), whatever failed before.
THEOREM OkCorrect == Spec => []OkHeaderFits
<1>1. ASSUME IInv, pc = "done", header.status = "200"
      PROVE  /\ Len(body) <= 1 /\ header.length = Len(body)
             /\ exists /\ filepath = DirAt(found) \o path_file
             /\ header.type = TypeFor(Locations[found], path_file)
  <2>1. /\ header.length = Len(body) /\ exists /\ OneAnswer
        /\ header.type = TypeFor(Locations[found], path_file)
    BY <1>1 DEF IInv, BodySoFar
  <2>2. Len(body) <= 1
    BY <2>1, ShortBody DEF OneAnswer
  <2>3. filepath = DirAt(found) \o path_file
    BY <1>1, <2>1 DEF IInv, FoundAsAsked
  <2> QED
    BY <2>1, <2>2, <2>3
<1>2. IInv => OkHeaderFits
  BY <1>1 DEF OkHeaderFits
<1> QED
  BY <1>2, Invariant, PTL

\* An answer that was already read is left in front of an error page only when
\* somebody removed its file before stat() (buildHeader).
THEOREM MixedCorrect == Spec => []MixedOnlyWhenVanished
<1>1. ASSUME IInv, pc = "done", Len(body) > 1
      PROVE  /\ Len(body) = 2 /\ changes > 0 /\ header.status = "500"
             /\ body[1] \in {filepath, <<"script">>}
  <2>1. ~OneAnswer /\ ~LeftOver /\ ~ \E t \in PageTexts : body = <<t>>
    BY <1>1, ShortBody DEF OneAnswer, LeftOver
  <2>2. header.status = code /\ WithPage
    BY <1>1, <2>1 DEF IInv, BodySoFar
  <2>3. PICK a \in AnswerTexts, t \in PageTexts : body = <<a, t>>
    BY <2>1, <2>2 DEF WithPage
  <2>4. code = "500" /\ changes > 0
    BY <2>1, <2>2 DEF WithPage, Vanished
  <2>5. Len(body) = 2 /\ body[1] = a
    BY <2>3, Lengths
  <2>6. a \in {filepath, <<"script">>}
    BY DEF AnswerTexts
  <2> QED
    BY <2>2, <2>4, <2>5, <2>6
<1>2. IInv => MixedOnlyWhenVanished
  BY <1>1 DEF MixedOnlyWhenVanished
<1> QED
  BY <1>2, Invariant, PTL

-------------------------------------------------------------------------------
(* The search, and the answer, while nobody changes a file *)

\* Every location for the path that the search has left behind could be
\* opened, and had none of its names.
Searched ==
  \A i \in Matching : i < loc_it => DirAt(i) \in Dirs /\ Present(i) = {}

\* The name in the request; or index.html, from the first location without
\* indexes on.
NameSoFar ==
  IF PathFile(req.path) # NoName THEN PathFile(req.path)
  ELSE IF \E j \in Matching : j < loc_it /\ Locations[j].indexes = <<>>
       THEN <<"index.html">> ELSE NoName

\* So had the names of the current location that were tried.
TriedHere ==
  index > 1 =>
    /\ loc_it \in Matching /\ DirAt(loc_it) \in Dirs
    /\ path_file = NoName /\ index <= Len(Locations[loc_it].indexes)
    /\ \A k \in 1..index - 1 : k \notin Present(loc_it)

\* The answers that are left are the right ones.
OnTheWay ==
  /\ exists => found = Served /\ path_file = ServedName
  /\ ~exists => found = 0
  /\ pc \in {"start", "path"} => loc_it = 1 /\ index = 1
  /\ pc \in {"find", "check", "cgi", "delete", "read", "header"} =>
       HasSlash(req.path) /\ req.code = "200" /\ default_root = Root
  /\ pc = "find" => Searched /\ path_file = NameSoFar /\ TriedHere
  /\ pc \in {"cgi", "delete", "read"} =>
       /\ MayServe /\ Opens(filepath)
       /\ pc = Branch(Locations[found], req.method, path_file)
  /\ pc = "header" => [status |-> "200", body |-> body] \in Answers
  /\ pc \in {"error", "errorheader"} =>
       default_root = Root /\ ErrorAnswer(code, found) \in Answers
  /\ pc = "errorheader" =>
       ErrorAnswer(code, found).body = IF body = <<>> THEN << <<"default", code>> >> ELSE body
  /\ pc = "done" => [status |-> header.status, body |-> body] \in Answers

\* While nobody changes a file.
Undisturbed == changes = 0 => cwd /\ OnTheWay

\* A set of numbers that is not empty has a least one, and Min is it.
LEMMA LeastOfNats ==
  ASSUME NEW I \in SUBSET Nat, I # {}
  PROVE  Min(I) \in I /\ \A j \in I : Min(I) <= j
<1>1. \E i \in I : \A j \in I : ~(<<j, i>> \in OpToRel(<, Nat))
  BY NatLessThanWellFounded, WFMin, Zenon
<1>2. \A i, j \in Nat : j < i => <<j, i>> \in OpToRel(<, Nat)
  BY Zenon DEF OpToRel
<1>3. PICK i \in I : \A j \in I : ~(j < i)
  BY <1>1, <1>2
<1>4. \A j \in I : i <= j
  BY <1>3
<1> QED
  BY <1>4 DEF Min

\* What an answer should be depends on the request and the files alone.
LEMMA AskedStays ==
  ASSUME UNCHANGED <<req, fs>>
  PROVE  /\ Matching' = Matching /\ \A i : DirAt(i)' = DirAt(i)
         /\ \A i : NamesAt(i)' = NamesAt(i) /\ Present(i)' = Present(i)
         /\ Serving' = Serving /\ Closed' = Closed /\ Served' = Served
         /\ ServedName' = ServedName /\ ServedPath' = ServedPath
         /\ MayServe' = MayServe /\ Answers' = Answers
         /\ \A status, i : ErrorAnswer(status, i)' = ErrorAnswer(status, i)
<1>1. Matching' = Matching
  BY DEF Matching
<1>2. \A i : DirAt(i)' = DirAt(i)
  BY DEF DirAt
<1>3. \A i : NamesAt(i)' = NamesAt(i)
  BY <1>1 DEF NamesAt
<1>4. \A i : Present(i)' = Present(i)
  <2> SUFFICES ASSUME NEW i PROVE Present(i)' = Present(i)
    OBVIOUS
  <2>1. NamesAt(i)' = NamesAt(i) /\ DirAt(i)' = DirAt(i)
    BY <1>2, <1>3
  <2> QED
    BY <2>1 DEF Present, PathAt, KindOf
<1>5. Serving' = Serving /\ Closed' = Closed
  BY <1>1, <1>2, <1>4 DEF Serving, Closed
<1>6. Served' = Served
  BY <1>5 DEF Served
<1>7. ServedName' = ServedName
  <2>1. PICK i : i = Served
    OBVIOUS
  <2>2. ServedName = NamesAt(i)[Min(Present(i))] /\ ServedName' = NamesAt(i)'[Min(Present(i)')]
    BY <1>6, <2>1 DEF ServedName
  <2> QED
    BY <1>3, <1>4, <2>2
<1>8. ServedPath' = ServedPath
  BY <1>6, <1>7 DEF ServedPath, PathAt, DirAt
<1>9. MayServe' = MayServe
  BY <1>6, <1>7, <1>8 DEF MayServe, KindOf
<1>10. \A status, i : ErrorAnswer(status, i)' = ErrorAnswer(status, i)
  BY DEF ErrorAnswer, HasPageFor, PageFor, KindOf
<1>11. Answers' = Answers
  BY <1>6, <1>7, <1>8, <1>9, <1>10 DEF Answers, ErrorAnswer, HasPageFor, PageFor, KindOf, Content
<1> QED
  BY <1>1, <1>2, <1>3, <1>4, <1>5, <1>6, <1>7, <1>8, <1>9, <1>10, <1>11

\* The name looked for next is the next of the names to look for.
LEMMA CurrentName ==
  ASSUME TypeOK, Matches, default_root = Root, path_file = NameSoFar, TriedHere
  PROVE  /\ loc_it \in Matching /\ loc_it \in 1..Len(Locations) /\ index \in Nat
         /\ index \in DOMAIN NamesAt(loc_it) /\ Name = NamesAt(loc_it)[index]
         /\ DOMAIN NamesAt(loc_it) \subseteq Nat
         /\ ~MoreNames => \A k \in DOMAIN NamesAt(loc_it) : k <= index
         /\ \A k \in DOMAIN NamesAt(loc_it) : 1 <= k
         /\ Dir = DirAt(loc_it) /\ Target = PathAt(loc_it, NamesAt(loc_it)[index])
<1>1. loc_it \in Matching /\ loc_it \in 1..Len(Locations)
  BY Bounds, LocationsTyped DEF Matches, AtLocation, Matching, loc
<1>2. loc = Locations[loc_it] /\ Len(loc.indexes) \in Nat
      /\ DOMAIN loc.indexes = 1..Len(loc.indexes) /\ (loc.indexes = <<>> <=> Len(loc.indexes) = 0)
  <2>1. loc.indexes \in Seq(Text)
    <3>1. Locations[loc_it] \in Location
      BY <1>1, LocationsAssumption, ElementOfSeq
    <3> QED
      BY <3>1 DEF Location, loc
  <2> QED
    BY <2>1, LenProperties, EmptySeq DEF loc
<1>3. index \in 1..Len(loc.indexes) \cup {1} /\ index \in Nat
  BY <1>1, <1>2, Bounds
<1>4. Dir = DirAt(loc_it)
  BY <1>2 DEF Dir, DirAt, getActualRoot, Matches
<1>5. /\ index \in DOMAIN NamesAt(loc_it) /\ Name = NamesAt(loc_it)[index]
      /\ DOMAIN NamesAt(loc_it) \subseteq Nat
      /\ \A k \in DOMAIN NamesAt(loc_it) : 1 <= k
      /\ ~MoreNames => \A k \in DOMAIN NamesAt(loc_it) : k <= index
  <2>1. ASSUME NEW name, NamesAt(loc_it) = <<name>>, index = 1, Name = name
        PROVE  /\ index \in DOMAIN NamesAt(loc_it) /\ Name = NamesAt(loc_it)[index]
               /\ \A k \in DOMAIN NamesAt(loc_it) : k = index
               /\ DOMAIN NamesAt(loc_it) = {1}
    BY <2>1
  <2>2. CASE PathFile(req.path) # NoName
    <3>1. path_file # NoName /\ index = 1 /\ Name = PathFile(req.path)
      BY <1>2, <1>3, <2>2 DEF NameSoFar, TriedHere, Name
    <3> QED
      BY <2>1, <2>2, <3>1 DEF NamesAt
  <2>3. CASE /\ PathFile(req.path) = NoName
             /\ \E j \in Matching : j < loc_it /\ Locations[j].indexes = <<>>
    <3>1. path_file = <<"index.html">> /\ path_file # NoName
      BY <2>3 DEF NameSoFar, NoName
    <3>2. index = 1 /\ Name = <<"index.html">>
      BY <1>2, <1>3, <3>1 DEF TriedHere, Name
    <3>3. NamesAt(loc_it) = << <<"index.html">> >>
      <4>1. \E j \in Matching : j <= loc_it /\ Locations[j].indexes = <<>>
        BY <1>1, <2>3, LocationsTyped DEF Matching
      <4> QED
        BY <2>3, <4>1 DEF NamesAt
    <3> QED
      BY <2>1, <3>2, <3>3
  <2>4. CASE /\ PathFile(req.path) = NoName
             /\ ~ \E j \in Matching : j < loc_it /\ Locations[j].indexes = <<>>
    <3>1. path_file = NoName
      BY <2>4 DEF NameSoFar
    <3>2. CASE loc.indexes = <<>>
      <4>1. index = 1 /\ Name = <<"index.html">>
        BY <1>2, <1>3, <3>1, <3>2 DEF Name
      <4>2. NamesAt(loc_it) = << <<"index.html">> >>
        BY <1>1, <1>2, <2>4, <3>2 DEF NamesAt
      <4> QED
        BY <2>1, <4>1, <4>2
    <3>3. CASE loc.indexes # <<>>
      <4>1. \A j \in Matching : j <= loc_it => Locations[j].indexes # <<>>
        BY <1>1, <1>2, <2>4, <3>3, LocationsTyped DEF Matching
      <4>2. NamesAt(loc_it) = loc.indexes
        BY <1>2, <2>4, <4>1 DEF NamesAt
      <4>3. Name = loc.indexes[index] /\ index \in 1..Len(loc.indexes)
        BY <1>2, <1>3, <3>1, <3>3 DEF Name
      <4>4. ~MoreNames => index = Len(loc.indexes)
        BY <1>2, <3>1, <4>3 DEF MoreNames
      <4> QED
        BY <1>2, <4>2, <4>3, <4>4
    <3> QED
      BY <3>2, <3>3
  <2> QED
    BY <2>2, <2>3, <2>4
<1>6. Target = PathAt(loc_it, NamesAt(loc_it)[index])
  BY <1>4, <1>5 DEF Target, PathAt
<1> QED
  BY <1>1, <1>3, <1>4, <1>5, <1>6

\* What is right at each end of build().
LEMMA RightAnswers ==
  /\ ~HasSlash(req.path) => ErrorAnswer("500", 0) \in Answers
  /\ HasSlash(req.path) /\ req.code # "200" => ErrorAnswer(req.code, 0) \in Answers
  /\ HasSlash(req.path) /\ req.code = "200" =>
       /\ Served = 0 => ErrorAnswer("404", 0) \in Answers
       /\ Served # 0 /\ ~MayServe => ErrorAnswer("403", Served) \in Answers
       /\ Served # 0 /\ MayServe =>
            LET branch == Branch(Locations[Served], req.method, ServedName)
            IN  /\ branch = "cgi" =>
                     /\ [status |-> "200", body |-> << <<"script">> >>] \in Answers
                     /\ ErrorAnswer("500", Served) \in Answers
                /\ branch = "delete" => [status |-> "200", body |-> <<>>] \in Answers
                /\ branch = "read" => [status |-> "200", body |-> Content(ServedPath)] \in Answers
<1> HIDE DEF ErrorAnswer, Served, MayServe, ServedName, ServedPath
<1>1. ~HasSlash(req.path) => ErrorAnswer("500", 0) \in Answers
  BY DEF Answers
<1>2. HasSlash(req.path) /\ req.code # "200" => ErrorAnswer(req.code, 0) \in Answers
  BY DEF Answers
<1>3. ASSUME HasSlash(req.path), req.code = "200"
      PROVE  /\ Served = 0 => ErrorAnswer("404", 0) \in Answers
             /\ Served # 0 /\ ~MayServe => ErrorAnswer("403", Served) \in Answers
  BY <1>3 DEF Answers
<1>4. ASSUME HasSlash(req.path), req.code = "200", Served # 0, MayServe
      PROVE  LET branch == Branch(Locations[Served], req.method, ServedName)
             IN  /\ branch = "cgi" =>
                      /\ [status |-> "200", body |-> << <<"script">> >>] \in Answers
                      /\ ErrorAnswer("500", Served) \in Answers
                 /\ branch = "delete" => [status |-> "200", body |-> <<>>] \in Answers
                 /\ branch = "read" => [status |-> "200", body |-> Content(ServedPath)] \in Answers
  <2>1. CASE IsFileCGI(Locations[Served], ServedName)
    BY <1>4, <2>1 DEF Answers, Branch
  <2>2. CASE ~IsFileCGI(Locations[Served], ServedName)
    <3>1. Answers = {[status |-> "200", body |-> IF req.method = "DELETE" THEN <<>>
                                                 ELSE Content(ServedPath)]}
      BY <1>4, <2>2 DEF Answers
    <3>2. CASE req.method = "DELETE"
      BY <2>2, <3>1, <3>2 DEF Branch
    <3>3. CASE req.method # "DELETE"
      BY <2>2, <3>1, <3>3 DEF Branch
    <3> QED
      BY <3>2, <3>3
  <2> QED
    BY <2>1, <2>2
<1> QED
  BY <1>1, <1>2, <1>3, <1>4

\* The first name that is there, of the first location that has one, is
\* what should be served; and nothing, where a location before it is closed.
LEMMA SearchDecides ==
  ASSUME TypeOK, Matches, default_root = Root, path_file = NameSoFar, TriedHere, Searched
  PROVE  /\ Dir \notin Dirs => Served = 0
         /\ Dir \in Dirs /\ KindOf(Target) # "absent" => Served = loc_it /\ ServedName = Name
         /\ Dir \in Dirs /\ KindOf(Target) = "absent" =>
              /\ index \notin Present(loc_it)
              /\ ~MoreNames => Present(loc_it) = {}
<1>1. /\ loc_it \in Matching /\ loc_it \in 1..Len(Locations) /\ index \in Nat
      /\ index \in DOMAIN NamesAt(loc_it) /\ Name = NamesAt(loc_it)[index]
      /\ DOMAIN NamesAt(loc_it) \subseteq Nat
      /\ ~MoreNames => \A k \in DOMAIN NamesAt(loc_it) : k <= index
      /\ \A k \in DOMAIN NamesAt(loc_it) : 1 <= k
      /\ Dir = DirAt(loc_it) /\ Target = PathAt(loc_it, NamesAt(loc_it)[index])
  BY CurrentName
<1>2. /\ Serving \in SUBSET Nat /\ Closed \in SUBSET Nat /\ loc_it \in Nat /\ 0 \notin Serving
      /\ Matching \in SUBSET Nat
  BY <1>1, LocationsTyped DEF Serving, Closed, Matching
<1>3. \A i \in Matching : i < loc_it => i \notin Serving /\ i \notin Closed
  BY DEF Searched, Serving, Closed
<1>4. \A k \in Present(loc_it) : k \in Nat /\ 1 <= k /\ k >= index
  <2>1. \A k \in 1..index - 1 : k \notin Present(loc_it)
    <3>1. CASE index > 1
      BY <3>1 DEF TriedHere
    <3>2. CASE ~(index > 1)
      BY <1>1, <3>2
    <3> QED
      BY <3>1, <3>2
  <2>2. \A k \in Present(loc_it) : k \in DOMAIN NamesAt(loc_it)
    BY DEF Present
  <2> QED
    BY <1>1, <2>1, <2>2
<1>5. index \in Present(loc_it) <=> KindOf(Target) # "absent"
  BY <1>1 DEF Present
<1>6. ASSUME Dir \notin Dirs PROVE Served = 0
  <2>1. loc_it \in Closed
    BY <1>1, <1>6 DEF Closed
  <2>2. Serving # {} => loc_it <= Min(Serving)
    <3>1. \A i \in Serving : loc_it <= i
      BY <1>2, <1>3 DEF Serving
    <3> QED
      BY <1>2, <3>1, LeastOfNats
  <2> QED
    BY <2>1, <2>2 DEF Served
<1>7. ASSUME Dir \in Dirs, KindOf(Target) # "absent"
      PROVE  Served = loc_it /\ ServedName = Name
  <2>1. index \in Present(loc_it) /\ loc_it \in Serving
    BY <1>1, <1>5, <1>7 DEF Serving
  <2>2. Min(Serving) = loc_it
    <3>1. Min(Serving) \in Serving /\ Min(Serving) <= loc_it
      BY <1>2, <2>1, LeastOfNats
    <3>2. ~(Min(Serving) < loc_it)
      BY <1>3, <3>1 DEF Serving
    <3>3. Min(Serving) \in Nat /\ loc_it \in Nat
      BY <1>2, <3>1
    <3>4. \A m, l \in Nat : m <= l /\ ~(m < l) => m = l
      OBVIOUS
    <3> QED
      BY <3>1, <3>2, <3>3, <3>4
  <2>3. \A i \in Closed : ~(i <= loc_it)
    <3>1. loc_it \notin Closed
      BY <1>1, <1>7 DEF Closed
    <3>2. ASSUME NEW i \in Closed, i <= loc_it PROVE FALSE
      <4>1. i \in Matching /\ i \in Nat /\ i # loc_it
        BY <1>2, <3>1 DEF Closed
      <4> QED
        BY <1>2, <1>3, <3>2, <4>1
    <3> QED
      BY <3>2
  <2>4. Served = loc_it
    BY <2>1, <2>2, <2>3 DEF Served
  <2>5. Min(Present(loc_it)) = index
    <3>1. Present(loc_it) \in SUBSET Nat
      BY <1>4
    <3>2. Min(Present(loc_it)) \in Present(loc_it) /\ Min(Present(loc_it)) <= index
      BY <2>1, <3>1, LeastOfNats
    <3> QED
      BY <1>1, <1>4, <3>1, <3>2
  <2> QED
    BY <1>1, <2>4, <2>5 DEF ServedName
<1>8. ASSUME KindOf(Target) = "absent"
      PROVE  index \notin Present(loc_it) /\ (~MoreNames => Present(loc_it) = {})
  <2>1. ASSUME ~MoreNames, NEW k \in Present(loc_it) PROVE FALSE
    <3>1. k \in DOMAIN NamesAt(loc_it)
      BY DEF Present
    <3>2. k = index
      BY <1>1, <1>4, <2>1, <3>1
    <3> QED
      BY <1>5, <1>8, <3>2
  <2> QED
    BY <1>5, <1>8, <2>1
<1> QED
  BY <1>6, <1>7, <1>8

\* What a file is, and its page, as the answer has it.
LEMMA FoundIsServed ==
  ASSUME IInv, OnTheWay, exists, changes = 0
  PROVE  /\ found = Served /\ Served # 0 /\ path_file = ServedName
         /\ filepath = ServedPath /\ KindOf(filepath) # "absent"
<1>1. found = Served /\ path_file = ServedName
  BY DEF OnTheWay
<1>2. found # 0
  BY DEF IInv, TypeOK
<1>3. filepath = DirAt(found) \o path_file /\ KindOf(filepath) # "absent"
  BY DEF IInv, FoundAsAsked
<1> QED
  BY <1>1, <1>2, <1>3 DEF ServedPath, PathAt

LEMMA PageIsRight ==
  ASSUME IInv, OnTheWay, pc \in {"error", "errorheader"}
  PROVE  /\ HasPageFor(code, found) => PageReadable /\ ~(exists /\ ErrorRoot = NoRoot)
                                       /\ ErrorAnswer(code, found).body = <<ErrorPath>>
                                       /\ Content(ErrorPath) = <<ErrorPath>>
         /\ ~HasPageFor(code, found) =>
              /\ ErrorAnswer(code, found).body = << <<"default", code>> >>
              /\ PageReadable /\ ~(exists /\ ErrorRoot = NoRoot) => Content(ErrorPath) = <<>>
         /\ ErrorAnswer(code, found).status = code
         /\ \A b : b = ErrorAnswer(code, found).body =>
              [status |-> code, body |-> b] = ErrorAnswer(code, found)
<1>1. default_root = Root /\ (exists <=> found # 0)
  BY DEF IInv, TypeOK, OnTheWay
<1>2. ASSUME code \in DOMAIN ErrorPages
      PROVE  /\ ~(exists /\ ErrorRoot = NoRoot) => PageFor(code, found) = ErrorPath
             /\ (exists /\ ErrorRoot = NoRoot) <=> ~(found = 0 \/ Locations[found].root # NoRoot)
  BY <1>1 DEF PageFor, ErrorPath, ErrorRoot
<1>3. ASSUME HasPageFor(code, found)
      PROVE  PageReadable /\ ~(exists /\ ErrorRoot = NoRoot)
             /\ ErrorAnswer(code, found).body = <<ErrorPath>>
             /\ Content(ErrorPath) = <<ErrorPath>>
  BY <1>2, <1>3 DEF HasPageFor, PageReadable, HasPage, Opens, ErrorAnswer, Content
<1>4. ASSUME ~HasPageFor(code, found)
      PROVE  /\ ErrorAnswer(code, found).body = << <<"default", code>> >>
             /\ PageReadable /\ ~(exists /\ ErrorRoot = NoRoot) => Content(ErrorPath) = <<>>
  BY <1>2, <1>4 DEF HasPageFor, PageReadable, HasPage, ErrorAnswer, Content
<1>5. /\ ErrorAnswer(code, found).status = code
      /\ \A b : b = ErrorAnswer(code, found).body =>
           [status |-> code, body |-> b] = ErrorAnswer(code, found)
  BY DEF ErrorAnswer
<1> QED
  BY <1>3, <1>4, <1>5

\* Every step towards the answer keeps it right.
LEMMA UndisturbedStep ==
  ASSUME IInv, Undisturbed, [Next]_vars, changes' = 0
  PROVE  cwd' /\ OnTheWay'
<1>0. ~Change
  BY Bounds DEF IInv, Change
<1>1. UNCHANGED <<req, disk>>
  BY <1>0 DEF Next, Step, vars, SetDefaultRoot, ParseRequestPath, NoSlash, GetCwdFails,
     NextLocation, FindActualFilepath, MissActualFilepath, DirectoryNotFound, FileNotFound,
     CheckOptions, DoCGI, DeleteFile, ReadFile, BuildHeader, ReadErrorPage, BuildErrorHeader,
     BuildDefaultErrorPage
<1>2. UNCHANGED <<req, fs, cwd, changes>> /\ changes = 0 /\ cwd /\ cwd' /\ OnTheWay
  BY <1>1 DEF disk, Undisturbed
<1>3. /\ Matching' = Matching /\ Served' = Served /\ ServedName' = ServedName
      /\ ServedPath' = ServedPath /\ MayServe' = MayServe /\ Answers' = Answers
      /\ \A i : DirAt(i)' = DirAt(i) /\ NamesAt(i)' = NamesAt(i) /\ Present(i)' = Present(i)
      /\ \A status, i : ErrorAnswer(status, i)' = ErrorAnswer(status, i)
  BY <1>2, AskedStays
<1>4. /\ exists => /\ found = Served /\ Served # 0 /\ path_file = ServedName
                   /\ filepath = ServedPath /\ KindOf(filepath) # "absent"
      /\ ~exists => found = 0
  BY <1>2, FoundIsServed DEF OnTheWay
<1>5. FoundInTime /\ TypeOK
  BY DEF IInv
<1>6. /\ pc \in {"start", "path", "find", "check", "cgi", "delete", "read", "error"} => body = <<>>
      /\ pc = "errorheader" => code # "200"
  BY <1>2 DEF IInv, BodySoFar, LeftOver, Vanished
<1>9. ASSUME NEW s, NEW k, s = code', k = found', ErrorAnswer(s, k) \in Answers
      PROVE  ErrorAnswer(code, found)' \in Answers'
  <2>1. ErrorAnswer(code, found)' = ErrorAnswer(s, k)'
    BY <1>9 DEF ErrorAnswer, HasPageFor, PageFor, KindOf
  <2> QED
    BY <1>3, <1>9, <2>1
<1>7. CASE SetDefaultRoot
  BY <1>2, <1>3, <1>5, <1>7 DEF SetDefaultRoot, OnTheWay, exists
<1>8. CASE ParseRequestPath
  <2>1. UNCHANGED <<found, filepath, loc_it, index, body, header, default_root>>
        /\ ~exists /\ ~exists' /\ found = 0 /\ default_root = Root /\ loc_it = 1 /\ index = 1
    BY <1>2, <1>4, <1>5, <1>8 DEF ParseRequestPath, FoundInTime, exists, OnTheWay
  <2>2. CASE req.code = "200"
    <3>1. pc' = "find" /\ HasSlash(req.path) /\ path_file' = PathFile(req.path)
      BY <1>8, <2>2 DEF ParseRequestPath
    <3>2. \A i \in Matching : ~(i < 1)
      BY LocationsTyped DEF Matching
    <3>3. Searched' /\ TriedHere'
      BY <1>3, <2>1, <3>2 DEF Searched, TriedHere
    <3>4. path_file' = NameSoFar'
      BY <1>2, <1>3, <2>1, <3>1, <3>2 DEF NameSoFar
    <3> QED
      BY <1>2, <2>1, <2>2, <3>1, <3>3, <3>4 DEF OnTheWay
  <2>3. CASE req.code # "200"
    <3>1. pc' = "error" /\ code' = req.code /\ ErrorAnswer(req.code, 0) \in Answers
      BY <1>8, <2>3, RightAnswers DEF ParseRequestPath, Raise
    <3>2. ErrorAnswer(code, found)' \in Answers'
      BY <1>9, <2>1, <3>1
    <3> QED
      BY <1>2, <1>3, <2>1, <3>1, <3>2 DEF OnTheWay
  <2> QED
    BY <2>2, <2>3
<1>10. CASE NoSlash
  <2>1. UNCHANGED <<found, filepath, default_root>> /\ pc' = "error" /\ code' = "500"
        /\ ~exists /\ ~exists' /\ found = 0 /\ default_root = Root
        /\ ErrorAnswer("500", 0) \in Answers
    BY <1>4, <1>5, <1>10, RightAnswers DEF NoSlash, Raise, FoundInTime, exists
  <2>2. ErrorAnswer(code, found)' \in Answers'
    BY <1>9, <2>1
  <2> QED
    BY <1>2, <1>3, <2>1, <2>2 DEF OnTheWay
<1>11. CASE GetCwdFails
  BY <1>2, <1>11 DEF GetCwdFails
<1>12. ASSUME pc = "find"
       PROVE  /\ ~exists /\ found = 0 /\ default_root = Root
              /\ HasSlash(req.path) /\ req.code = "200"
              /\ Searched /\ path_file = NameSoFar /\ TriedHere
  BY <1>2, <1>4, <1>5, <1>12 DEF OnTheWay, FoundInTime
<1>13. CASE NextLocation
  <2>1. /\ pc = "find" /\ pc' = "find" /\ loc_it' = loc_it + 1 /\ index' = 1
        /\ UNCHANGED <<path_file, filepath, found, default_root>>
        /\ loc_it \notin Matching /\ loc_it \in Nat
    BY <1>5, <1>13, Bounds, LocationsTyped
       DEF NextLocation, Matches, AtLocation, Matching, loc
  <2>2. \A i \in Matching : i < loc_it + 1 <=> i < loc_it
    BY <2>1, LocationsTyped DEF Matching
  <2>3. Searched'
    BY <1>3, <1>12, <2>1, <2>2 DEF Searched
  <2>4. NameSoFar' = NameSoFar
    BY <1>2, <1>3, <2>1, <2>2 DEF NameSoFar
  <2>5. TriedHere'
    BY <2>1 DEF TriedHere
  <2> QED
    BY <1>2, <1>12, <2>1, <2>3, <2>4, <2>5 DEF OnTheWay, exists
<1>14. CASE FindActualFilepath
  <2>1. /\ Matches /\ Dir \in Dirs /\ KindOf(Target) # "absent" /\ pc = "find" /\ pc' = "check"
        /\ filepath' = Target /\ found' = loc_it /\ path_file' = Name
        /\ UNCHANGED default_root
    BY <1>14 DEF FindActualFilepath, MayLook, Matches, AtLocation
  <2>2. Served = loc_it /\ ServedName = Name
    BY <1>5, <1>12, <2>1, SearchDecides
  <2>3. exists'
    BY <2>1, ReadHasKind, FilesHaveNames DEF exists
  <2> QED
    BY <1>2, <1>3, <1>12, <2>1, <2>2, <2>3 DEF OnTheWay
<1>15. CASE MissActualFilepath
  <2>1. /\ Matches /\ Dir \in Dirs /\ KindOf(Target) = "absent" /\ pc = "find" /\ pc' = "find"
        /\ path_file' = IF NameKept THEN Name ELSE path_file
        /\ UNCHANGED <<filepath, found, default_root>>
    BY <1>15 DEF MissActualFilepath, MayLook, Matches, AtLocation
  <2>2. index \notin Present(loc_it) /\ (~MoreNames => Present(loc_it) = {})
    BY <1>5, <1>12, <2>1, SearchDecides
  <2>3. /\ loc_it \in Matching /\ loc_it \in 1..Len(Locations) /\ loc_it \in Nat /\ index \in Nat
        /\ Dir = DirAt(loc_it) /\ loc = Locations[loc_it] /\ index >= 1
    <3>1. index >= 1
      BY <1>5, Bounds, LocationsTyped, <2>1 DEF Matches, AtLocation, loc
    <3> QED
      BY <1>5, <1>12, <2>1, <3>1, CurrentName, LocationsTyped DEF loc
  <2>4. CASE MoreNames
    <3>1. /\ loc_it' = loc_it /\ index' = index + 1 /\ path_file = NoName
          /\ index < Len(loc.indexes) /\ path_file' = path_file
      <4>1. path_file = NoName /\ index < Len(loc.indexes)
        BY <2>4 DEF MoreNames
      <4>2. loc.indexes # <<>>
        BY <2>3, <4>1
      <4> QED
        BY <1>15, <2>1, <2>4, <4>1, <4>2 DEF MissActualFilepath, NameKept
    <3>2. Len(loc.indexes) \in Nat
      BY <2>3, LocationsTyped
    <3>3. TriedHere'
      <4>1. \A k \in 1..(index + 1) - 1 : k \notin Present(loc_it)
        <5>1. ASSUME NEW k \in 1..(index + 1) - 1 PROVE k = index \/ (index > 1 /\ k \in 1..index - 1)
          BY <2>3
        <5> QED
          BY <1>12, <2>1, <2>2, <5>1 DEF TriedHere
      <4>2. index + 1 <= Len(loc.indexes)
        BY <2>3, <3>1, <3>2
      <4>3. \A k \in 1..index' - 1 : k \notin Present(loc_it)'
        BY <1>3, <3>1, <4>1
      <4>4. Present(loc_it') = Present(loc_it)
        BY <3>1
      <4> QED
        BY <1>3, <2>1, <2>3, <3>1, <4>2, <4>3 DEF TriedHere
    <3>4. Searched' /\ NameSoFar' = NameSoFar
      BY <1>2, <1>3, <1>12, <2>1, <3>1 DEF Searched, NameSoFar
    <3> QED
      BY <1>2, <1>12, <2>1, <3>1, <3>3, <3>4 DEF OnTheWay, exists
  <2>5. CASE ~MoreNames
    <3>1. loc_it' = loc_it + 1 /\ index' = 1
      BY <1>15, <2>5 DEF MissActualFilepath
    <3>2. \A i \in Matching : i < loc_it + 1 <=> i < loc_it \/ i = loc_it
      BY <2>3, LocationsTyped DEF Matching
    <3>3. Searched'
      <4>1. \A i \in Matching : i < loc_it + 1 => DirAt(i) \in Dirs /\ Present(i) = {}
        BY <1>12, <2>1, <2>2, <2>3, <2>5, <3>2 DEF Searched
      <4> QED
        BY <1>3, <3>1, <4>1 DEF Searched
    <3>4. path_file' = NameSoFar'
      <4>1. NameSoFar' = IF PathFile(req.path) # NoName THEN PathFile(req.path)
                         ELSE IF \/ \E j \in Matching : j < loc_it /\ Locations[j].indexes = <<>>
                                 \/ loc.indexes = <<>>
                              THEN <<"index.html">> ELSE NoName
        BY <1>2, <1>3, <2>3, <3>1, <3>2 DEF NameSoFar
      <4>2. <<"index.html">> # NoName
        BY DEF NoName
      <4> QED
        BY <1>12, <2>1, <4>1, <4>2 DEF NameSoFar, NameKept, Name
    <3>5. TriedHere'
      BY <3>1 DEF TriedHere
    <3> QED
      BY <1>2, <1>12, <2>1, <3>3, <3>4, <3>5 DEF OnTheWay, exists
  <2> QED
    BY <2>4, <2>5
<1>16. CASE DirectoryNotFound
  <2>1. /\ Matches /\ Dir \notin Dirs /\ pc = "find" /\ pc' = "error" /\ code' = "404"
        /\ UNCHANGED <<filepath, found, default_root>>
    BY <1>16 DEF DirectoryNotFound, MayLook, Matches, AtLocation, Raise
  <2>2. Served = 0
    BY <1>5, <1>12, <2>1, SearchDecides
  <2>3. ErrorAnswer(code, found)' \in Answers'
    BY <1>9, <1>12, <2>1, <2>2, RightAnswers
  <2> QED
    BY <1>2, <1>3, <1>12, <2>1, <2>3 DEF OnTheWay, exists
<1>17. CASE FileNotFound
  <2>1. /\ loc_it > Len(Locations) /\ pc = "find" /\ pc' = "error" /\ code' = "404"
        /\ UNCHANGED <<filepath, found, default_root>>
    BY <1>17 DEF FileNotFound, Raise
  <2>2. Serving = {}
    <3>1. \A i \in Matching : i < loc_it
      BY <1>5, <2>1, Bounds, LocationsTyped DEF Matching
    <3> QED
      BY <1>12, <2>1, <3>1 DEF Searched, Serving
  <2>3. Served = 0
    BY <2>2 DEF Served
  <2>4. ErrorAnswer(code, found)' \in Answers'
    BY <1>9, <1>12, <2>1, <2>3, RightAnswers
  <2> QED
    BY <1>2, <1>3, <1>12, <2>1, <2>4 DEF OnTheWay, exists
<1>18. ASSUME pc \in {"check", "cgi", "delete", "read", "header"}
       PROVE  /\ exists /\ found = Served /\ Served # 0 /\ path_file = ServedName
              /\ filepath = ServedPath /\ KindOf(filepath) # "absent"
              /\ HasSlash(req.path) /\ req.code = "200" /\ default_root = Root
  BY <1>2, <1>4, <1>5, <1>18 DEF OnTheWay, FoundInTime
<1>19. CASE CheckOptions
  <2>1. pc = "check" /\ UNCHANGED <<filepath, found, path_file, default_root>>
    BY <1>19 DEF CheckOptions
  <2> DEFINE fine == IsAllowedMethod(Locations[found], req.method, path_file) /\ Opens(filepath)
  <2>2. fine <=> MayServe
    BY <1>18, <2>1 DEF MayServe, IsAllowedMethod, Opens
  <2>3. CASE fine
    <3>1. pc' = Branch(Locations[found], req.method, path_file) /\ pc' \in {"cgi", "delete", "read"}
      BY <1>19, <2>3 DEF CheckOptions, Branch
    <3>2. Opens(filepath)' /\ MayServe' /\ pc' = Branch(Locations[found], req.method, path_file)'
      BY <1>2, <1>3, <2>1, <2>2, <2>3, <3>1 DEF Opens, KindOf
    <3> QED
      BY <1>2, <1>3, <1>18, <2>1, <3>1, <3>2 DEF OnTheWay, exists
  <2>4. CASE ~fine
    <3>1. pc' = "error" /\ code' = "403"
      BY <1>19, <2>4 DEF CheckOptions, Raise
    <3>2. ErrorAnswer(code, found)' \in Answers'
      BY <1>9, <1>18, <2>1, <2>2, <2>4, <3>1, RightAnswers
    <3> QED
      BY <1>2, <1>3, <1>18, <2>1, <3>1, <3>2 DEF OnTheWay, exists
  <2> QED
    BY <2>3, <2>4
<1>20. ASSUME pc \in {"cgi", "delete", "read"}
       PROVE  /\ MayServe /\ Opens(filepath) /\ body = <<>>
              /\ pc = Branch(Locations[Served], req.method, ServedName)
  BY <1>2, <1>6, <1>18, <1>20 DEF OnTheWay
<1>21. CASE DoCGI
  <2>1. pc = "cgi" /\ UNCHANGED <<filepath, found, path_file, default_root>>
    BY <1>21 DEF DoCGI
  <2>2. /\ [status |-> "200", body |-> << <<"script">> >>] \in Answers
        /\ ErrorAnswer("500", Served) \in Answers
    BY <1>18, <1>20, <2>1, RightAnswers
  <2>3. CASE pc' = "header" /\ body' = Append(body, <<"script">>)
    <3>1. body' = << <<"script">> >>
      BY <1>20, <2>1, <2>3, Joined
    <3> QED
      BY <1>2, <1>3, <1>18, <2>1, <2>2, <2>3, <3>1 DEF OnTheWay, exists
  <2>4. CASE pc' = "error" /\ code' = "500"
    <3>1. ErrorAnswer(code, found)' \in Answers'
      BY <1>9, <1>18, <2>1, <2>2, <2>4
    <3> QED
      BY <1>2, <1>3, <1>18, <2>1, <2>4, <3>1 DEF OnTheWay, exists
  <2>5. CASE pc' = "dead"
    BY <1>2, <1>3, <1>18, <2>1, <2>5 DEF OnTheWay, exists
  <2> QED
    BY <1>21, <2>3, <2>4, <2>5 DEF DoCGI, Raise
<1>22. CASE DeleteFile
  <2>1. /\ pc = "delete" /\ pc' = "header"
        /\ UNCHANGED <<filepath, found, path_file, default_root, body>>
    BY <1>22 DEF DeleteFile, build
  <2>2. [status |-> "200", body |-> body] \in Answers
    BY <1>18, <1>20, <2>1, RightAnswers
  <2>3. [status |-> "200", body |-> body'] \in Answers'
    BY <1>3, <2>1, <2>2
  <2> QED
    BY <1>2, <1>3, <1>18, <2>1, <2>3 DEF OnTheWay, exists
<1>23. CASE ReadFile
  <2>1. /\ pc = "read" /\ Opens(filepath)
    BY <1>20, <1>23 DEF ReadFile
  <2>2. /\ pc' = "header" /\ body' = body \o Content(filepath)
        /\ UNCHANGED <<filepath, found, path_file, default_root>>
    BY <1>23, <2>1 DEF ReadFile
  <2>3. body' = Content(ServedPath)
    <3>1. Content(filepath) = <<>> \/ Content(filepath) = <<filepath>>
      BY DEF Content
    <3>2. <<>> \o Content(filepath) = Content(filepath)
      BY <3>1, Joined
    <3> QED
      BY <1>18, <1>20, <2>1, <2>2, <3>2
  <2>4. [status |-> "200", body |-> body'] \in Answers'
    BY <1>3, <1>18, <1>20, <2>1, <2>3, RightAnswers
  <2> QED
    BY <1>2, <1>3, <1>18, <2>1, <2>2, <2>4 DEF OnTheWay, exists
<1>24. CASE BuildHeader
  <2>1. /\ pc = "header" /\ pc' = "done" /\ header'.status = "200"
        /\ UNCHANGED <<filepath, found, path_file, body>>
    BY <1>18, <1>24 DEF BuildHeader
  <2>2. [status |-> header'.status, body |-> body'] \in Answers'
    BY <1>2, <1>3, <2>1 DEF OnTheWay
  <2> QED
    BY <1>2, <1>3, <1>18, <2>1, <2>2 DEF OnTheWay, exists
<1>25. ASSUME pc \in {"error", "errorheader"}
       PROVE  /\ default_root = Root /\ ErrorAnswer(code, found) \in Answers
              /\ exists => found = Served /\ path_file = ServedName
  BY <1>2, <1>25 DEF OnTheWay
<1>26. CASE ReadErrorPage
  <2>1. /\ pc = "error" /\ PageReadable /\ pc' = "errorheader" /\ body = <<>>
        /\ UNCHANGED <<filepath, found, path_file, default_root, code>>
        /\ body' = IF exists /\ ErrorRoot = NoRoot THEN body ELSE body \o Content(ErrorPath)
    BY <1>6, <1>26 DEF ReadErrorPage
  <2>2. body' = IF exists /\ ErrorRoot = NoRoot THEN <<>> ELSE Content(ErrorPath)
    <3>1. Content(ErrorPath) = <<>> \/ Content(ErrorPath) = <<ErrorPath>>
      BY DEF Content
    <3>2. <<>> \o Content(ErrorPath) = Content(ErrorPath)
      BY <3>1, Joined
    <3> QED
      BY <2>1, <3>2
  <2>3. ErrorAnswer(code, found).body = IF body' = <<>> THEN << <<"default", code>> >> ELSE body'
    <3>1. <<ErrorPath>> # <<>>
      OBVIOUS
    <3> QED
      BY <1>2, <2>1, <2>2, <3>1, PageIsRight
  <2>4. ErrorAnswer(code, found)' = ErrorAnswer(code, found)
    <3>1. PICK s, k : s = code /\ k = found
      OBVIOUS
    <3> QED
      BY <1>2, <2>1 DEF ErrorAnswer, HasPageFor, PageFor, KindOf
  <2> QED
    BY <1>2, <1>3, <1>25, <2>1, <2>3, <2>4 DEF OnTheWay, exists
<1>27. ASSUME pc' = "done", pc \in {"error", "errorheader"}, header' = ErrorHeader,
              UNCHANGED <<filepath, found, path_file>>,
              body' = ErrorAnswer(code, found).body
       PROVE  OnTheWay'
  <2>1. [status |-> code, body |-> body'] = ErrorAnswer(code, found) /\ header'.status = code
    BY <1>2, <1>27, PageIsRight DEF ErrorHeader
  <2>2. [status |-> header'.status, body |-> body'] \in Answers'
    BY <1>3, <1>25, <1>27, <2>1
  <2> QED
    BY <1>2, <1>3, <1>25, <1>27, <2>2 DEF OnTheWay, exists
<1>28. CASE BuildErrorHeader
  <2>1. ErrorAnswer(code, found).body = body
    BY <1>2, <1>28 DEF BuildErrorHeader, OnTheWay
  <2>2. /\ pc' = "done" /\ pc = "errorheader" /\ header' = ErrorHeader
        /\ UNCHANGED <<filepath, found, path_file, body>>
    BY <1>28 DEF BuildErrorHeader
  <2> QED
    BY <1>2, <1>27, <2>1, <2>2
<1>29. CASE BuildDefaultErrorPage
  <2>1. body = <<>> /\ pc \in {"error", "errorheader"}
    BY <1>6, <1>29 DEF BuildDefaultErrorPage
  <2>2. body' = << <<"default", code>> >>
    BY <1>29, <2>1, Joined DEF BuildDefaultErrorPage
  <2>3. ErrorAnswer(code, found).body = << <<"default", code>> >>
    <3>1. CASE pc = "error" /\ ~PageReadable
      BY <1>2, <3>1, PageIsRight
    <3>2. CASE pc = "errorheader"
      BY <1>2, <2>1, <3>2 DEF OnTheWay
    <3> QED
      BY <1>29, <3>1, <3>2 DEF BuildDefaultErrorPage
  <2>4. /\ pc' = "done" /\ header' = ErrorHeader
        /\ UNCHANGED <<filepath, found, path_file>>
    BY <1>29 DEF BuildDefaultErrorPage
  <2> QED
    BY <1>2, <1>27, <2>1, <2>2, <2>3, <2>4
<1>30. CASE UNCHANGED vars
  <2>1. UNCHANGED <<pc, req, code, header, body, loc_it, index, path_file, found, filepath, default_root>>
    BY <1>30 DEF vars, build
  <2>2. /\ Searched' = Searched /\ NameSoFar' = NameSoFar /\ TriedHere' = TriedHere
        /\ exists' = exists /\ Opens(filepath)' = Opens(filepath)
        /\ ErrorAnswer(code, found)' = ErrorAnswer(code, found)
    BY <1>2, <1>3, <2>1 DEF Searched, NameSoFar, TriedHere, exists, Opens, KindOf, ErrorAnswer,
       HasPageFor, PageFor, Present, PathAt, DirAt, NamesAt
  <2> QED
    BY <1>2, <1>3, <2>1, <2>2 DEF OnTheWay
<1> QED
  BY <1>0, <1>2, <1>7, <1>8, <1>10, <1>11, <1>13, <1>14, <1>15, <1>16, <1>17, <1>19,
     <1>21, <1>22, <1>23, <1>24, <1>26, <1>28, <1>29, <1>30 DEF Next, Step

\* So it is right at every moment.
LEMMA AlwaysUndisturbed == Spec => []Undisturbed
<1>1. Init => Undisturbed
  BY DEF Init, Undisturbed, OnTheWay, exists
<1>2. IInv /\ Undisturbed /\ [Next]_vars => Undisturbed'
  BY UndisturbedStep DEF Undisturbed
<1> QED
  BY <1>1, <1>2, Invariant, PTL DEF Spec

\* While no file changes, build() gives the answer that locations, options and
\* error pages call for: the first location for the path, its indexes in their
\* order, one page, whatever the configuration.
THEOREM AnswerCorrect == Spec => []AnswersAsConfigured
<1>1. Undisturbed => AnswersAsConfigured
  BY DEF Undisturbed, OnTheWay, AnswersAsConfigured
<1> QED
  BY <1>1, AlwaysUndisturbed, PTL

-------------------------------------------------------------------------------
(* A path and its parts (Path) *)

\* Where a character stands in a text.
LEMMA PlacesProperties ==
  ASSUME NEW S, NEW t \in Seq(S), NEW char
  PROVE  /\ Len(t) \in Nat /\ Places(t, char) \in SUBSET Nat
         /\ \A i : i \in Places(t, char) <=> i \in 1..Len(t) /\ t[i] = char
BY LenProperties DEF Places

\* A text falls apart at any place, and its parts are texts.
LEMMA TwoParts ==
  ASSUME NEW S, NEW t \in Seq(S), NEW m \in 0..Len(t)
  PROVE  /\ SubSeq(t, 1, m) \in Seq(S) /\ SubSeq(t, m + 1, Len(t)) \in Seq(S)
         /\ SubSeq(t, 1, m) \o SubSeq(t, m + 1, Len(t)) = t
         /\ Len(SubSeq(t, 1, m)) = m /\ \A i \in 1..m : SubSeq(t, 1, m)[i] = t[i]
<1>1. Len(t) \in Nat /\ m \in Nat /\ m <= Len(t)
  BY LenProperties
<1>2. \A i \in 1..Len(t) : t[i] \in S
  BY ElementOfSeq
<1>3. /\ SubSeq(t, 1, m) \in Seq(S)
      /\ Len(SubSeq(t, 1, m)) = IF 1 <= m THEN m - 1 + 1 ELSE 0
      /\ \A i \in 1..m - 1 + 1 : SubSeq(t, 1, m)[i] = t[1 + i - 1]
  <2>1. \A i \in 1..m : t[i] \in S
    BY <1>1, <1>2
  <2>2. 1 \in Int /\ m \in Int
    BY <1>1
  <2> QED
    BY <2>1, <2>2, SubSeqProperties
<1>4. SubSeq(t, m + 1, Len(t)) \in Seq(S)
  <2>1. \A i \in m + 1..Len(t) : t[i] \in S
    BY <1>1, <1>2
  <2>2. m + 1 \in Int /\ Len(t) \in Int
    BY <1>1
  <2> QED
    BY <2>1, <2>2, SubSeqProperties
<1>5. SubSeq(t, 1, m) \o SubSeq(t, m + 1, Len(t)) = t
  <2>1. SubSeq(t, 1, m) \o SubSeq(t, m + 1, Len(t)) = SubSeq(t, 1, Len(t))
    <3>1. 1 \in 1..Len(t) + 1 /\ m \in 1 - 1..Len(t) /\ Len(t) \in m..Len(t)
      BY <1>1
    <3> QED
      BY <3>1, ConcatAdjacentSubSeq
  <2> QED
    BY <2>1, SubSeqFull
<1>6. Len(SubSeq(t, 1, m)) = m /\ \A i \in 1..m : SubSeq(t, 1, m)[i] = t[i]
  BY <1>1, <1>3
<1> QED
  BY <1>3, <1>4, <1>5, <1>6

\* A set of numbers with a bound has a greatest one, and Max is it.
LEMMA GreatestOfNats ==
  ASSUME NEW I \in SUBSET Nat, I # {}, NEW n \in Nat, \A i \in I : i <= n
  PROVE  Max(I) \in I
<1> DEFINE D == {n - i : i \in I}
<1>1. D \in SUBSET Nat /\ D # {}
  <2>1. \A i \in I : n - i \in Nat
    <3>1. \A i \in Nat : i <= n => n - i \in Nat
      OBVIOUS
    <3> QED
      BY <3>1
  <2> QED
    BY <2>1
<1>2. Min(D) \in D /\ \A d \in D : Min(D) <= d
  BY <1>1, LeastOfNats
<1>3. PICK i \in I : Min(D) = n - i
  BY <1>2
<1>4. \A j \in I : n - i <= n - j
  <2>1. \A j \in I : n - j \in D
    OBVIOUS
  <2> QED
    BY <1>2, <1>3, <2>1
<1>5. \A j \in I : j <= i
  <2>1. \A a, b \in Nat : n - a <= n - b => b <= a
    OBVIOUS
  <2> QED
    BY <1>4, <2>1
<1>6. \E x \in I : \A y \in I : x >= y
  BY <1>5
<1> QED
  BY <1>6 DEF Max

\* What is in front of the query, and what lies around the last slash.
LEMMA RawPathProperties ==
  ASSUME NEW target \in Text
  PROVE  /\ RawPath(target) \in Text
         /\ \E n \in 0..Len(target) : RawPath(target) = SubSeq(target, 1, n)
<1> USE DEF Text
<1>1. CASE Places(target, QUERY) = {}
  <2>1. RawPath(target) = SubSeq(target, 1, Len(target)) /\ Len(target) \in 0..Len(target)
    BY <1>1, SubSeqFull, LenProperties DEF RawPath
  <2> QED
    BY <1>1, <2>1 DEF RawPath
<1>2. CASE Places(target, QUERY) # {}
  <2>1. Min(Places(target, QUERY)) \in Places(target, QUERY)
    BY <1>2, PlacesProperties, LeastOfNats
  <2> DEFINE n == Min(Places(target, QUERY)) - 1
  <2>2. n \in 0..Len(target)
    BY <2>1, PlacesProperties
  <2>3. RawPath(target) = SubSeq(target, 1, n)
    BY <1>2 DEF RawPath
  <2> HIDE DEF n
  <2>4. SubSeq(target, 1, n) \in Seq(STRING)
    BY <2>2, TwoParts
  <2> QED
    BY <2>2, <2>3, <2>4
<1> QED
  BY <1>1, <1>2

LEMMA PathProperties ==
  ASSUME NEW target \in Text, HasSlash(target)
  PROVE  /\ PathDir(target) \in Text /\ PathFile(target) \in Text
         /\ PathDir(target) \o PathFile(target) = RawPath(target)
         /\ RawPath(target) # <<>>
         /\ target[1] = SLASH => RawPath(target)[1] = SLASH
<1> USE DEF Text
<1> DEFINE raw == RawPath(target)
           m == LastSlash(target)
<1>0. raw \in Text
  BY RawPathProperties
<1>1. m \in Places(raw, SLASH)
  <2>1. Places(raw, SLASH) \in SUBSET Nat /\ Len(raw) \in Nat
    BY <1>0, PlacesProperties
  <2>2. \A i \in Places(raw, SLASH) : i <= Len(raw)
    BY <1>0, PlacesProperties
  <2> QED
    BY <2>1, <2>2, GreatestOfNats DEF HasSlash, LastSlash
<1>2. m \in 1..Len(raw) /\ Len(raw) \in Nat
  BY <1>0, <1>1, PlacesProperties
<1>3. PathDir(target) = SubSeq(raw, 1, m) /\ PathFile(target) = SubSeq(raw, m + 1, Len(raw))
  BY DEF PathDir, PathFile
<1>4. PICK n \in 0..Len(target) : raw = SubSeq(target, 1, n)
  BY RawPathProperties
<1> HIDE DEF raw, m
<1>5. /\ SubSeq(raw, 1, m) \in Text /\ SubSeq(raw, m + 1, Len(raw)) \in Text
      /\ SubSeq(raw, 1, m) \o SubSeq(raw, m + 1, Len(raw)) = raw
  <2>1. m \in 0..Len(raw)
    BY <1>2
  <2> QED
    BY <1>0, <2>1, TwoParts
<1>6. raw # <<>> /\ raw[1] = target[1]
  <2>1. Len(raw) # 0
    BY <1>2
  <2>2. Len(raw) = n /\ \A i \in 1..n : raw[i] = target[i]
    BY <1>4, TwoParts
  <2>3. 1 \in 1..n
    BY <1>4, <2>1, <2>2, LenProperties
  <2> QED
    BY <2>1, <2>2, <2>3
<1> QED
  BY <1>3, <1>5, <1>6 DEF raw

-------------------------------------------------------------------------------
(* Taking a text apart, and putting it together again *)

\* The next separator, or the place behind the text.
LEMMA FindProperties ==
  ASSUME NEW S, NEW t \in Seq(S), NEW sep, NEW from \in 1..Len(t) + 1
  PROVE  /\ Find(t, sep, from) \in from..Len(t) + 1
         /\ Find(t, sep, from) <= Len(t) => t[Find(t, sep, from)] = sep
         /\ \A i \in from..Find(t, sep, from) - 1 : i \in 1..Len(t) /\ t[i] # sep
<1> DEFINE I == {i \in Places(t, sep) : from <= i} \cup {Len(t) + 1}
           e == Find(t, sep, from)
<1>0. Len(t) \in Nat /\ from \in Nat
  BY LenProperties
<1>1. I \in SUBSET Nat /\ I # {} /\ e = Min(I)
  BY <1>0, PlacesProperties DEF Find
<1>2. e \in I /\ \A i \in I : e <= i
  BY <1>1, LeastOfNats
<1>3. e \in Nat
  BY <1>1, <1>2
<1>4. \A i \in I : i = Len(t) + 1 \/ (i \in 1..Len(t) /\ t[i] = sep /\ from <= i)
  BY PlacesProperties
<1>5. \A i \in 1..Len(t) : t[i] = sep /\ from <= i => i \in I
  BY PlacesProperties
<1> HIDE DEF I, e
<1>6. e \in from..Len(t) + 1 /\ (e <= Len(t) => t[e] = sep)
  BY <1>0, <1>2, <1>3, <1>4
<1>7. ASSUME NEW i \in from..e - 1 PROVE i \in 1..Len(t) /\ t[i] # sep
  <2>1. i \in 1..Len(t) /\ i < e /\ i \in Nat
    BY <1>0, <1>3, <1>6
  <2>2. i \notin I
    <3>1. \A a, b \in Nat : a < b => ~(b <= a)
      OBVIOUS
    <3> QED
      BY <1>2, <1>3, <2>1, <3>1
  <2> QED
    BY <1>5, <2>1, <2>2
<1> QED
  BY <1>6, <1>7 DEF e

\* What the sequence of starts is said to be.
StartsGo(t, sep, start) ==
  start = [k \in 1..Len(t) + 1 |-> IF k = 1 THEN 1 ELSE Find(t, sep, start[k - 1]) + 1]

\* There is such a sequence of starts, and Starts is it.
LEMMA StartsExist ==
  ASSUME NEW S, NEW t \in Seq(S), NEW sep
  PROVE  \E start : StartsGo(t, sep, start)
<1> DEFINE Further(p) == Find(t, sep, p) + 1
           IsStart(f, n) ==
             f = [k \in 1..n |-> IF k = 1 THEN 1 ELSE Further(f[k - 1])]
           Undefined == {n \in 1..Len(t) + 1 : ~\E f : IsStart(f, n)}
<1>0. Len(t) \in Nat
  BY LenProperties
<1> HIDE DEF Further
<1>1. ASSUME Undefined # {} PROVE FALSE
  <2> DEFINE n == Min(Undefined)
  <2>1. n \in Undefined /\ \A j \in Undefined : n <= j
    <3>1. Undefined \in SUBSET Nat
      BY <1>0
    <3> QED
      BY <1>1, <3>1, LeastOfNats
  <2> HIDE DEF n
  <2>2. n \in 1..Len(t) + 1 /\ n \in Nat /\ ~\E f : IsStart(f, n)
    BY <1>0, <2>1
  <2>3. n # 1
    <3> DEFINE e == [k \in 1..1 |-> 1]
    <3>1. e = [k \in 1..1 |-> IF k = 1 THEN 1 ELSE Further(e[k - 1])]
      OBVIOUS
    <3>2. \E f : IsStart(f, 1)
      BY <3>1
    <3> QED
      BY <2>2, <3>2
  <2>4. n - 1 \in 1..Len(t) + 1 /\ ~(n <= n - 1)
    BY <1>0, <2>2, <2>3
  <2>5. PICK f : IsStart(f, n - 1)
    BY <2>1, <2>4
  <2> DEFINE g == [k \in 1..n |-> IF k = n THEN Further(f[n - 1]) ELSE f[k]]
  <2>6. ASSUME NEW k \in 1..n
        PROVE  g[k] = IF k = 1 THEN 1 ELSE Further(g[k - 1])
    <3>1. CASE k = n
      <4>1. g[k] = Further(f[n - 1]) /\ g[k - 1] = f[n - 1]
        BY <2>2, <2>3, <3>1
      <4> QED
        BY <2>3, <3>1, <4>1
    <3>2. CASE k # n
      <4>1. k \in 1..n - 1 /\ g[k] = f[k]
        BY <2>2, <3>2
      <4>2. f[k] = IF k = 1 THEN 1 ELSE Further(f[k - 1])
        BY <2>5, <4>1
      <4>3. k # 1 => g[k - 1] = f[k - 1]
        BY <2>2, <4>1
      <4> QED
        BY <4>1, <4>2, <4>3
    <3> QED
      BY <3>1, <3>2
  <2>7. IsStart(g, n)
    <3>1. g = [k \in 1..n |-> g[k]]
      OBVIOUS
    <3> HIDE DEF g
    <3> QED
      BY <2>6, <3>1
  <2> QED
    BY <2>2, <2>7
<1>2. \E f : IsStart(f, Len(t) + 1)
  <2> HIDE DEF IsStart
  <2>1. Len(t) + 1 \in 1..Len(t) + 1
    BY <1>0
  <2> QED
    BY <1>1, <2>1
<1> QED
  BY <1>2 DEF Further, StartsGo

\* Each part starts behind the separator that ends the one before.
LEMMA StartsStep ==
  ASSUME NEW S, NEW t \in Seq(S), NEW sep
  PROVE  \A k \in 1..Len(t) + 1 :
           Starts(t, sep)[k] = IF k = 1 THEN 1 ELSE Find(t, sep, Starts(t, sep)[k - 1]) + 1
<1> DEFINE e == CHOOSE start : StartsGo(t, sep, start)
<1>1. Starts(t, sep) = e
  BY DEF Starts, StartsGo
<1>2. \E start : StartsGo(t, sep, start)
  BY StartsExist
<1>3. StartsGo(t, sep, e)
  BY <1>2
<1> HIDE DEF e
<1>4. \A k \in 1..Len(t) + 1 : e[k] = IF k = 1 THEN 1 ELSE Find(t, sep, e[k - 1]) + 1
  BY <1>3 DEF StartsGo
<1> QED
  BY <1>1, <1>4

\* The loop of splitStr ends, and until then it goes from one separator to
\* the next.
LEMMA PartsProperties ==
  ASSUME NEW S, NEW t \in Seq(S), NEW sep
  PROVE  LET start == Starts(t, sep)
             n == Parts(t, sep)
         IN  /\ n \in 1..Len(t) + 1 /\ start[1] = 1
             /\ \A k \in 1..n : start[k] \in 1..Len(t) + 1
             /\ \A k \in 1..n : k # n => /\ Find(t, sep, start[k]) <= Len(t)
                                         /\ start[k + 1] = Find(t, sep, start[k]) + 1
             /\ Find(t, sep, start[n]) = Len(t) + 1
<1> DEFINE start == Starts(t, sep)
           n == Parts(t, sep)
           Ends == {k \in 1..Len(t) + 1 : Find(t, sep, start[k]) > Len(t)}
<1>0. Len(t) \in Nat /\ 1 \in 1..Len(t) + 1
  BY LenProperties
<1>1. \A k \in 1..Len(t) + 1 :
        start[k] = IF k = 1 THEN 1 ELSE Find(t, sep, start[k - 1]) + 1
  BY StartsStep
<1>2. n = Min(Ends) /\ Ends \in SUBSET Nat
  BY <1>0 DEF Parts
<1>3. \A p \in 1..Len(t) + 1 : /\ Find(t, sep, p) \in p..Len(t) + 1 /\ Find(t, sep, p) \in Nat
                               /\ Find(t, sep, p) > Len(t) => Find(t, sep, p) = Len(t) + 1
  <2> SUFFICES ASSUME NEW p \in 1..Len(t) + 1
               PROVE  /\ Find(t, sep, p) \in p..Len(t) + 1 /\ Find(t, sep, p) \in Nat
                      /\ Find(t, sep, p) > Len(t) => Find(t, sep, p) = Len(t) + 1
    OBVIOUS
  <2>1. Find(t, sep, p) \in p..Len(t) + 1
    BY FindProperties
  <2> QED
    BY <1>0, <2>1
<1> HIDE DEF start
\* A first turn that is out of the text does not exist: before it, each
\* turn begins behind the one before.
<1> DEFINE Bad == {k \in 1..Len(t) + 1 :
                     /\ \A j \in 1..k - 1 : Find(t, sep, start[j]) <= Len(t)
                     /\ start[k] \notin k..Len(t) + 1}
<1>4. ASSUME NEW k \in 1..Len(t) + 1, \A j \in 1..k - 1 : Find(t, sep, start[j]) <= Len(t)
      PROVE  start[k] \in k..Len(t) + 1
  <2>1. ASSUME Bad # {} PROVE FALSE
    <3> DEFINE b == Min(Bad)
    <3>1. b \in Bad /\ \A j \in Bad : b <= j
      <4>1. Bad \in SUBSET Nat
        BY <1>0
      <4> QED
        BY <2>1, <4>1, LeastOfNats
    <3> HIDE DEF b
    <3>2. /\ b \in 1..Len(t) + 1 /\ b \in Nat
          /\ \A j \in 1..b - 1 : Find(t, sep, start[j]) <= Len(t)
          /\ start[b] \notin b..Len(t) + 1
      BY <1>0, <3>1
    <3>3. b # 1
      BY <1>0, <1>1, <3>2
    <3>4. b - 1 \in 1..Len(t) + 1 /\ ~(b <= b - 1) /\ b - 1 \in 1..b - 1
      BY <1>0, <3>2, <3>3
    <3>5. start[b - 1] \in b - 1..Len(t) + 1
      <4>1. \A j \in 1..(b - 1) - 1 : j \in 1..b - 1
        BY <3>2
      <4>2. \A j \in 1..(b - 1) - 1 : Find(t, sep, start[j]) <= Len(t)
        BY <3>2, <4>1
      <4>3. b - 1 \notin Bad
        BY <3>1, <3>4
      <4> QED
        BY <3>4, <4>2, <4>3
    <3>6. start[b] = Find(t, sep, start[b - 1]) + 1 /\ Find(t, sep, start[b - 1]) <= Len(t)
      BY <1>1, <3>2, <3>3, <3>4
    <3>7. start[b - 1] \in 1..Len(t) + 1 /\ start[b - 1] \in Nat
      BY <1>0, <3>2, <3>4, <3>5
    <3>8. Find(t, sep, start[b - 1]) \in start[b - 1]..Len(t) + 1
      BY <1>3, <3>7
    <3> QED
      BY <1>0, <3>2, <3>5, <3>6, <3>7, <3>8
  <2> QED
    BY <1>4, <2>1
<1>5. Ends # {}
  <2> SUFFICES ASSUME Ends = {} PROVE FALSE
    OBVIOUS
  <2>1. Len(t) + 1 \in 1..Len(t) + 1
    BY <1>0
  <2>2. ASSUME NEW j \in 1..Len(t) + 1 - 1 PROVE Find(t, sep, start[j]) <= Len(t)
    <3> DEFINE P == {i \in 1..Len(t) + 1 : ~(Find(t, sep, start[i]) <= Len(t))}
    <3>1. ASSUME P # {} PROVE FALSE
      <4> DEFINE i == Min(P)
      <4>1. P \in SUBSET Nat
        BY <1>0
      <4>2. i \in P /\ \A h \in P : i <= h
        BY <3>1, <4>1, LeastOfNats
      <4> HIDE DEF i
      <4>3. i \in 1..Len(t) + 1 /\ i \in Nat
        BY <1>0, <4>2
      <4>4. \A h \in 1..i - 1 : Find(t, sep, start[h]) <= Len(t)
        <5>1. \A h \in 1..i - 1 : h \in 1..Len(t) + 1 /\ ~(i <= h)
          BY <1>0, <4>3
        <5> QED
          BY <4>2, <5>1
      <4>5. start[i] \in i..Len(t) + 1
        BY <1>4, <4>3, <4>4
      <4>6. start[i] \in 1..Len(t) + 1
        BY <1>0, <4>3, <4>5
      <4>7. Find(t, sep, start[i]) \in Nat
        BY <1>3, <4>6
      <4>8. Find(t, sep, start[i]) > Len(t)
        BY <1>0, <4>2, <4>7
      <4> QED
        BY <4>3, <4>8
    <3>2. j \in 1..Len(t) + 1
      BY <1>0
    <3> QED
      BY <3>1, <3>2
  <2>3. start[Len(t) + 1] \in Len(t) + 1..Len(t) + 1
    BY <1>4, <2>1, <2>2
  <2>4. start[Len(t) + 1] = Len(t) + 1
    BY <1>0, <2>3
  <2>5. Find(t, sep, Len(t) + 1) \in Len(t) + 1..Len(t) + 1
    BY <1>3, <2>1
  <2>6. Find(t, sep, Len(t) + 1) > Len(t)
    BY <1>0, <2>5
  <2> QED
    BY <2>1, <2>4, <2>6
<1>6. n \in Ends /\ \A k \in Ends : n <= k
  BY <1>2, <1>5, LeastOfNats
<1> HIDE DEF n
<1>7. n \in 1..Len(t) + 1 /\ n \in Nat /\ Find(t, sep, start[n]) > Len(t)
  BY <1>0, <1>6
\* Until the end, each turn is in the text.
<1>8. ASSUME NEW k \in 1..n
      PROVE  \A j \in 1..k - 1 : Find(t, sep, start[j]) <= Len(t)
  <2> DEFINE P == {j \in 1..n : j # n /\ ~(Find(t, sep, start[j]) <= Len(t))}
  <2>1. ASSUME P # {} PROVE FALSE
    <3> DEFINE i == Min(P)
    <3>1. P \in SUBSET Nat
      BY <1>7
    <3>2. i \in P /\ \A h \in P : i <= h
      BY <2>1, <3>1, LeastOfNats
    <3> HIDE DEF i
    <3>3. i \in 1..n /\ i # n /\ i \in Nat /\ i \in 1..Len(t) + 1 /\ ~(n <= i)
      BY <1>0, <1>7, <3>2
    <3>4. \A h \in 1..i - 1 : Find(t, sep, start[h]) <= Len(t)
      <4>1. \A h \in 1..i - 1 : h \in 1..n /\ h # n /\ ~(i <= h)
        BY <1>7, <3>3
      <4> QED
        BY <3>2, <4>1
    <3>5. start[i] \in i..Len(t) + 1
      BY <1>4, <3>3, <3>4
    <3>6. start[i] \in 1..Len(t) + 1
      BY <1>0, <3>3, <3>5
    <3>7. Find(t, sep, start[i]) \in Nat
      BY <1>3, <3>6
    <3>8. i \in Ends
      BY <1>0, <3>2, <3>3, <3>7
    <3> QED
      BY <1>6, <3>3, <3>8
  <2>2. \A j \in 1..k - 1 : j \in 1..n /\ j # n
    BY <1>7
  <2> QED
    BY <2>1, <2>2
<1>9. ASSUME NEW k \in 1..n PROVE start[k] \in 1..Len(t) + 1
  <2>1. k \in 1..Len(t) + 1 /\ k \in Nat
    BY <1>0, <1>7
  <2>2. start[k] \in k..Len(t) + 1
    BY <1>4, <1>8, <2>1
  <2> QED
    BY <1>0, <2>1, <2>2
<1>10. ASSUME NEW k \in 1..n, k # n
       PROVE  Find(t, sep, start[k]) <= Len(t) /\ start[k + 1] = Find(t, sep, start[k]) + 1
  <2>1. k + 1 \in 1..n /\ k \in 1..(k + 1) - 1 /\ k + 1 \in 1..Len(t) + 1 /\ k + 1 # 1
        /\ (k + 1) - 1 = k
    BY <1>0, <1>7, <1>10
  <2> QED
    BY <1>1, <1>8, <2>1
<1>11. Find(t, sep, start[n]) = Len(t) + 1
  <2>1. n \in 1..n
    BY <1>7
  <2> QED
    BY <1>3, <1>7, <1>9, <2>1
<1>12. start[1] = 1
  BY <1>0, <1>1
<1> QED
  BY <1>7, <1>9, <1>10, <1>11, <1>12 DEF start, n

\* The parts are texts without the separator.
LEMMA SplitProperties ==
  ASSUME NEW S, NEW t \in Seq(S), NEW sep
  PROVE  /\ Split(t, sep) \in Seq(Seq(S)) /\ Len(Split(t, sep)) = Parts(t, sep)
         /\ \A k \in 1..Parts(t, sep) :
              Split(t, sep)[k] = SubSeq(t, Starts(t, sep)[k], Find(t, sep, Starts(t, sep)[k]) - 1)
         /\ \A k \in DOMAIN Split(t, sep) : sep \notin Range(Split(t, sep)[k])
<1> DEFINE n == Parts(t, sep)
           from(k) == Starts(t, sep)[k]
           to(k) == Find(t, sep, Starts(t, sep)[k]) - 1
<1>0. Len(t) \in Nat
  BY LenProperties
<1>1. n \in 1..Len(t) + 1 /\ n \in Nat
  BY <1>0, PartsProperties
<1>2. Split(t, sep) = [k \in 1..n |-> SubSeq(t, from(k), to(k))]
  BY DEF Split
<1>3. \A k \in 1..n : from(k) \in 1..Len(t) + 1
  BY PartsProperties
<1>4. \A i \in 1..Len(t) : t[i] \in S
  BY ElementOfSeq
<1>5. ASSUME NEW k \in 1..n
      PROVE  SubSeq(t, from(k), to(k)) \in Seq(S) /\ sep \notin Range(SubSeq(t, from(k), to(k)))
  <2> DEFINE p == from(k)
             q == to(k)
             u == SubSeq(t, p, q)
  <2>1. p \in 1..Len(t) + 1
    BY <1>3
  <2>2. q + 1 \in p..Len(t) + 1 /\ q \in Int /\ p \in Int
        /\ \A i \in p..q : i \in 1..Len(t) /\ t[i] # sep
    <3>1. Find(t, sep, p) \in p..Len(t) + 1
          /\ \A i \in p..Find(t, sep, p) - 1 : i \in 1..Len(t) /\ t[i] # sep
      BY <2>1, FindProperties
    <3>2. Find(t, sep, p) \in Int
      BY <1>0, <2>1, <3>1
    <3> HIDE DEF p
    <3> QED
      BY <1>0, <2>1, <3>1, <3>2 DEF p
  <2> HIDE DEF p, q
  <2>3. /\ u \in Seq(S) /\ Len(u) = IF p <= q THEN q - p + 1 ELSE 0
        /\ \A i \in 1..q - p + 1 : u[i] = t[p + i - 1]
    <3>1. \A i \in p..q : t[i] \in S
      BY <1>4, <2>2
    <3> QED
      BY <2>2, <3>1, SubSeqProperties
  <2> HIDE DEF u
  <2>4. ASSUME NEW i \in 1..Len(u) PROVE u[i] # sep
    <3>1. i \in 1..q - p + 1 /\ p + i - 1 \in p..q
      BY <2>2, <2>3
    <3> QED
      BY <2>2, <2>3, <3>1
  <2>5. Range(u) = {u[i] : i \in 1..Len(u)}
    BY <2>3, RangeEquality
  <2>6. sep \notin Range(u)
    BY <2>4, <2>5
  <2> QED
    BY <2>3, <2>6 DEF u, p, q
<1> HIDE DEF n, from, to
<1>6. Split(t, sep) \in [1..n -> Seq(S)]
  BY <1>2, <1>5
<1>7. Split(t, sep) \in Seq(Seq(S)) /\ Len(Split(t, sep)) = n
  BY <1>1, <1>6, IsASeq, LenProperties
<1>8. DOMAIN Split(t, sep) = 1..n /\ \A k \in 1..n : Split(t, sep)[k] = SubSeq(t, from(k), to(k))
  BY <1>2
<1> QED
  BY <1>5, <1>7, <1>8 DEF n, from, to

\* What Rejoined builds up exists.
LEMMA UpToExists ==
  ASSUME NEW S, NEW words \in Seq(S), words # <<>>
  PROVE  \E upTo : upTo = [k \in DOMAIN words |->
           IF k = 1 THEN words[1] ELSE upTo[k - 1] \o <<PLUS>> \o words[k]]
<1> DEFINE More(old, k) == old \o <<PLUS>> \o words[k]
           IsUpTo(f, n) ==
             f = [k \in 1..n |-> IF k = 1 THEN words[1] ELSE More(f[k - 1], k)]
           Undefined == {n \in 1..Len(words) : ~\E f : IsUpTo(f, n)}
<1>0. Len(words) \in Nat /\ Len(words) # 0 /\ DOMAIN words = 1..Len(words)
  BY LenProperties, EmptySeq
<1> HIDE DEF More
<1>1. ASSUME Undefined # {} PROVE FALSE
  <2> DEFINE n == Min(Undefined)
  <2>1. n \in Undefined /\ \A j \in Undefined : n <= j
    <3>1. Undefined \in SUBSET Nat
      BY <1>0
    <3> QED
      BY <1>1, <3>1, LeastOfNats
  <2> HIDE DEF n
  <2>2. n \in 1..Len(words) /\ n \in Nat /\ ~\E f : IsUpTo(f, n)
    BY <1>0, <2>1
  <2>3. n # 1
    <3> DEFINE e == [k \in 1..1 |-> words[1]]
    <3>1. e = [k \in 1..1 |-> IF k = 1 THEN words[1] ELSE More(e[k - 1], k)]
      OBVIOUS
    <3>2. \E f : IsUpTo(f, 1)
      BY <3>1
    <3> QED
      BY <2>2, <3>2
  <2>4. n - 1 \in 1..Len(words) /\ ~(n <= n - 1)
    BY <1>0, <2>2, <2>3
  <2>5. PICK f : IsUpTo(f, n - 1)
    BY <2>1, <2>4
  <2> DEFINE g == [k \in 1..n |-> IF k = n THEN More(f[n - 1], n) ELSE f[k]]
  <2>6. ASSUME NEW k \in 1..n
        PROVE  g[k] = IF k = 1 THEN words[1] ELSE More(g[k - 1], k)
    <3>1. CASE k = n
      <4>1. g[k] = More(f[n - 1], n) /\ g[k - 1] = f[n - 1]
        BY <2>2, <2>3, <3>1
      <4> QED
        BY <2>3, <3>1, <4>1
    <3>2. CASE k # n
      <4>1. k \in 1..n - 1 /\ g[k] = f[k]
        BY <2>2, <3>2
      <4>2. f[k] = IF k = 1 THEN words[1] ELSE More(f[k - 1], k)
        BY <2>5, <4>1
      <4>3. k # 1 => g[k - 1] = f[k - 1]
        BY <2>2, <4>1
      <4> QED
        BY <4>1, <4>2, <4>3
    <3> QED
      BY <3>1, <3>2
  <2>7. IsUpTo(g, n)
    <3>1. g = [k \in 1..n |-> g[k]]
      OBVIOUS
    <3> HIDE DEF g
    <3> QED
      BY <2>6, <3>1
  <2> QED
    BY <2>2, <2>7
<1>2. \E f : IsUpTo(f, Len(words))
  <2> HIDE DEF IsUpTo
  <2>1. Len(words) \in 1..Len(words)
    BY <1>0
  <2> QED
    BY <1>1, <2>1
<1>3. PICK f : f = [k \in 1..Len(words) |-> IF k = 1 THEN words[1] ELSE More(f[k - 1], k)]
  BY <1>2
<1>4. f = [k \in DOMAIN words |->
           IF k = 1 THEN words[1] ELSE f[k - 1] \o <<PLUS>> \o words[k]]
  BY <1>0, <1>3 DEF More
<1> QED
  BY <1>4

\* No word of a query is lost: put together, they are the query again.
LEMMA RejoinedSplit ==
  ASSUME NEW S, NEW t \in Seq(S)
  PROVE  Rejoined(Split(t, PLUS)) = t
<1> DEFINE words == Split(t, PLUS)
           n == Parts(t, PLUS)
           from(k) == Starts(t, PLUS)[k]
           to(k) == Find(t, PLUS, Starts(t, PLUS)[k])
           Goes(upTo) == upTo = [k \in DOMAIN words |->
             IF k = 1 THEN words[1] ELSE upTo[k - 1] \o <<PLUS>> \o words[k]]
           upTo == CHOOSE u : Goes(u)
<1>0. Len(t) \in Nat
  BY LenProperties
<1>1. n \in 1..Len(t) + 1 /\ n \in Nat /\ from(1) = 1 /\ to(n) = Len(t) + 1
  BY <1>0, PartsProperties
<1>2. /\ words \in Seq(Seq(S)) /\ Len(words) = n /\ DOMAIN words = 1..n
      /\ \A k \in 1..n : words[k] = SubSeq(t, from(k), to(k) - 1)
  BY SplitProperties, LenProperties
<1>3. \A k \in 1..n : /\ from(k) \in 1..Len(t) + 1
                      /\ k # n => to(k) <= Len(t) /\ from(k + 1) = to(k) + 1
  BY PartsProperties
<1>4. \A k \in 1..n : /\ to(k) \in from(k)..Len(t) + 1
                      /\ to(k) <= Len(t) => t[to(k)] = PLUS
  BY <1>3, FindProperties
<1>5. Rejoined(words) = upTo[n]
  BY <1>2 DEF Rejoined
<1>6. Goes(upTo)
  <2>1. words # <<>>
    <3>1. Len(words) # 0
      BY <1>1, <1>2
    <3> QED
      BY <1>2, <3>1, EmptySeq
  <2>2. \E u : Goes(u)
    BY <1>2, <2>1, UpToExists, ZenonT(30)
  <2> HIDE DEF Goes
  <2> QED
    BY <2>2
<1> HIDE DEF upTo
<1>7. \A k \in 1..n : upTo[k] = IF k = 1 THEN words[1] ELSE upTo[k - 1] \o <<PLUS>> \o words[k]
  BY <1>2, <1>6
<1> HIDE DEF words, n, from, to, Goes
<1> DEFINE Wrong == {k \in 1..n : upTo[k] # SubSeq(t, 1, to(k) - 1)}
<1>8. ASSUME Wrong # {} PROVE FALSE
  <2> DEFINE b == Min(Wrong)
  <2>1. b \in Wrong /\ \A j \in Wrong : b <= j
    <3>1. Wrong \in SUBSET Nat
      BY <1>1
    <3> QED
      BY <1>8, <3>1, LeastOfNats
  <2> HIDE DEF b
  <2>2. b \in 1..n /\ b \in Nat /\ upTo[b] # SubSeq(t, 1, to(b) - 1)
    BY <1>1, <2>1
  <2>3. b # 1
    BY <1>1, <1>2, <1>7, <2>2
  <2>4. b - 1 \in 1..n /\ b - 1 # n /\ ~(b <= b - 1) /\ (b - 1) + 1 = b
    BY <1>1, <2>2, <2>3
  <2>5. upTo[b - 1] = SubSeq(t, 1, to(b - 1) - 1)
    BY <2>1, <2>4
  <2> DEFINE e == to(b - 1)
  <2>6. /\ e <= Len(t) /\ from(b) = e + 1 /\ t[e] = PLUS
        /\ e \in from(b - 1)..Len(t) + 1 /\ from(b - 1) \in 1..Len(t) + 1
    <3>1. e <= Len(t) /\ from((b - 1) + 1) = e + 1
      BY <1>3, <2>4
    <3>2. e \in from(b - 1)..Len(t) + 1 /\ (e <= Len(t) => t[e] = PLUS)
      BY <1>4, <2>4
    <3> QED
      BY <1>3, <2>4, <3>1, <3>2
  <2>7. to(b) \in e + 1..Len(t) + 1
    BY <1>4, <2>2, <2>6
  <2> HIDE DEF e
  <2>8. e \in 1..Len(t) /\ to(b) - 1 \in e..Len(t)
    BY <1>0, <2>6, <2>7
  <2>9. upTo[b - 1] \o <<PLUS>> = SubSeq(t, 1, e)
    <3>1. 1 \in 1..Len(t) /\ e \in 1..Len(t)
      BY <1>0, <2>8
    <3>2. SubSeq(t, 1, e) = SubSeq(t, 1, e - 1) \o <<t[e]>>
      BY <3>1, SubSeqRecursiveSecond
    <3> QED
      BY <2>5, <2>6, <3>2 DEF e
  <2>10. SubSeq(t, 1, e) \o SubSeq(t, e + 1, to(b) - 1) = SubSeq(t, 1, to(b) - 1)
    <3>1. 1 \in 1..Len(t) + 1 /\ e \in 1 - 1..Len(t)
      BY <1>0, <2>8
    <3> QED
      BY <2>8, <3>1, ConcatAdjacentSubSeq
  <2>11. upTo[b] = upTo[b - 1] \o <<PLUS>> \o words[b]
    BY <1>7, <2>2, <2>3
  <2>12. words[b] = SubSeq(t, e + 1, to(b) - 1)
    BY <1>2, <2>2, <2>6
  <2> QED
    BY <2>2, <2>9, <2>10, <2>11, <2>12
<1>9. upTo[n] = SubSeq(t, 1, to(n) - 1)
  <2>1. n \in 1..n
    BY <1>1
  <2> QED
    BY <1>8, <2>1
<1>10. upTo[n] = t
  <2>1. to(n) - 1 = Len(t)
    BY <1>0, <1>1
  <2> QED
    BY <1>9, <2>1, SubSeqFull
<1> QED
  BY <1>5, <1>10 DEF words

-------------------------------------------------------------------------------
(* The script that is run *)

\* A script is run at most once, for a file that was found under the name in
\* the request; before that, the name is kept as soon as it is known.
ScriptSoFar ==
  /\ pc \in {"start", "path", "find", "check", "cgi"} => ran = <<>>
  /\ pc \in {"check", "cgi"} => exists
  /\ pc = "find" \/ exists =>
       /\ HasSlash(req.path) /\ default_root = Root
       /\ PathFile(req.path) # NoName => path_file = PathFile(req.path)
  /\ ran # <<>> =>
       /\ exists /\ ran = <<Script(req.path)>>
       /\ Extension(req.path) # NoExtension

\* build() does not change the request.
LEMMA ReqStays ==
  ASSUME [Next]_vars
  PROVE  UNCHANGED req
BY DEF Next, Step, Change, SetDefaultRoot, ParseRequestPath, NoSlash, GetCwdFails,
   NextLocation, FindActualFilepath, MissActualFilepath, DirectoryNotFound, FileNotFound,
   CheckOptions, DoCGI, DeleteFile, ReadFile, BuildHeader, ReadErrorPage, BuildErrorHeader,
   BuildDefaultErrorPage, vars

\* Every step keeps that.
LEMMA ScriptStep ==
  ASSUME IInv, ScriptSoFar, [Next]_vars
  PROVE  ScriptSoFar'
<1> USE DEF ScriptSoFar, exists
<1>0. UNCHANGED req /\ Script(req.path)' = Script(req.path)
      /\ HasSlash(req.path)' = HasSlash(req.path)
      /\ PathFile(req.path)' = PathFile(req.path)
      /\ Extension(req.path)' = Extension(req.path)
  <2>1. UNCHANGED req
    BY ReqStays
  <2> QED
    BY <2>1
<1>1. FoundInTime
  BY DEF IInv
<1>2. CASE SetDefaultRoot
  BY <1>0, <1>1, <1>2 DEF SetDefaultRoot, FoundInTime
<1>3. CASE ParseRequestPath
  BY <1>0, <1>1, <1>3 DEF ParseRequestPath, Raise, FoundInTime
<1>4. CASE NoSlash
  BY <1>0, <1>1, <1>4 DEF NoSlash, Raise, FoundInTime
<1>5. CASE GetCwdFails
  BY <1>0, <1>1, <1>5 DEF GetCwdFails, Raise, FoundInTime, Matches, AtLocation
<1>6. CASE NextLocation
  BY <1>0, <1>1, <1>6 DEF NextLocation, AtLocation
<1>7. CASE FindActualFilepath
  <2>1. pc = "find" /\ pc' = "check" /\ path_file' = Name /\ UNCHANGED <<ran, default_root>>
    BY <1>7 DEF FindActualFilepath, MayLook, Matches, AtLocation
  <2>2. filepath' # Nowhere
    <3>1. filepath' = Target /\ KindOf(Target) # "absent"
      BY <1>7 DEF FindActualFilepath
    <3> QED
      BY <3>1, ReadHasKind, FilesHaveNames
  <2>3. PathFile(req.path) # NoName => Name = PathFile(req.path)
    BY <2>1 DEF Name
  <2> QED
    BY <1>0, <2>1, <2>2, <2>3
<1>8. CASE MissActualFilepath
  BY <1>0, <1>1, <1>8 DEF MissActualFilepath, MayLook, Matches, AtLocation, NameKept, Name, NoName
<1>9. CASE DirectoryNotFound
  BY <1>0, <1>1, <1>9 DEF DirectoryNotFound, MayLook, Matches, AtLocation, Raise, FoundInTime
<1>10. CASE FileNotFound
  BY <1>0, <1>1, <1>10 DEF FileNotFound, Raise, FoundInTime
<1>11. CASE CheckOptions
  BY <1>0, <1>1, <1>11 DEF CheckOptions, Raise, FoundInTime, Branch
<1>12. CASE DoCGI
  <2>1. ran = <<>> /\ exists
    BY <1>12 DEF DoCGI
  <2>2. ran' = IF Extension(req.path) = NoExtension THEN <<>> ELSE <<Script(req.path)>>
    BY <1>12, <2>1, Joined DEF DoCGI
  <2>3. pc' \in {"header", "error", "dead"} /\ UNCHANGED <<filepath, default_root, path_file>>
    BY <1>12 DEF DoCGI, Raise
  <2> HIDE DEF exists
  <2>4. exists' = exists
    BY <2>3 DEF exists
  <2> QED
    BY <1>0, <2>1, <2>2, <2>3, <2>4
<1>13. CASE DeleteFile
  BY <1>0, <1>1, <1>13 DEF DeleteFile, build
<1>14. CASE ReadFile
  BY <1>0, <1>1, <1>14 DEF ReadFile, Raise
<1>15. CASE BuildHeader
  BY <1>0, <1>1, <1>15 DEF BuildHeader, Raise
<1>16. CASE ReadErrorPage
  BY <1>0, <1>1, <1>16 DEF ReadErrorPage
<1>17. CASE BuildErrorHeader
  BY <1>0, <1>1, <1>17 DEF BuildErrorHeader
<1>18. CASE BuildDefaultErrorPage
  BY <1>0, <1>1, <1>18 DEF BuildDefaultErrorPage
<1>19. CASE Change
  BY <1>0, <1>1, <1>19 DEF Change, build
<1>20. CASE UNCHANGED vars
  BY <1>0, <1>20 DEF vars, build
<1> QED
  BY <1>2, <1>3, <1>4, <1>5, <1>6, <1>7, <1>8, <1>9, <1>10, <1>11, <1>12, <1>13,
     <1>14, <1>15, <1>16, <1>17, <1>18, <1>19, <1>20 DEF Next, Step

\* So it holds at every moment.
LEMMA AlwaysScriptSoFar == Spec => []ScriptSoFar
<1>1. Init => ScriptSoFar
  BY DEF Init, ScriptSoFar, exists
<1>2. IInv /\ ScriptSoFar /\ [Next]_vars => ScriptSoFar'
  BY ScriptStep
<1> QED
  BY <1>1, <1>2, Invariant, PTL DEF Spec

\* Where a script was run, the name of its file was in the request.
LEMMA NameIsAsked ==
  ASSUME ScriptSoFar, ran # <<>>
  PROVE  path_file = PathFile(req.path)
<1>1. Extension(req.path) # NoExtension /\ exists
  BY DEF ScriptSoFar
<1>2. PathFile(req.path) # NoName
  <2>1. Range(<<>>) = {}
    BY DEF Range
  <2> QED
    BY <1>1, <2>1 DEF Extension, NoName
<1> QED
  BY <1>1, <1>2 DEF ScriptSoFar

\* The path of the script, and the path of the file that was found.
LEMMA SameFile ==
  ASSUME IInv, ScriptSoFar, ran # <<>>,
         req.path[1] = SLASH, getActualRoot(Locations[found]) = CgiRoot
  PROVE  Script(req.path).file = filepath
<1> DEFINE raw == RawPath(req.path)
           dir == PathDir(req.path)
           name == PathFile(req.path)
<1>1. /\ HasSlash(req.path) /\ default_root = Root /\ found \in Matching
      /\ filepath = DirAt(found) \o path_file
  BY DEF ScriptSoFar, IInv, FoundAsAsked
<1>2. path_file = name
  BY NameIsAsked
<1>3. req.path \in Text
  BY RequestsAssumption DEF IInv, TypeOK, Request
<1>4. /\ dir \in Text /\ name \in Text /\ raw \in Text /\ raw # <<>>
      /\ dir \o name = raw /\ raw[1] = SLASH
  BY <1>1, <1>3, PathProperties, RawPathProperties
<1>5. DirAt(found) = CgiRoot \o dir
  BY <1>1 DEF DirAt, getActualRoot
<1>6. CgiRoot \in Text
  BY RootsAssumption
<1>7. Script(req.path).file = (CgiRoot \o <<SLASH>>) \o Tail(raw)
  BY DEF Script
<1> HIDE DEF raw, dir, name
<1>8. filepath = CgiRoot \o raw
  <2>1. (CgiRoot \o dir) \o name = CgiRoot \o (dir \o name)
    <3>1. CgiRoot \in Seq(STRING) /\ dir \in Seq(STRING) /\ name \in Seq(STRING)
      BY <1>4, <1>6 DEF Text
    <3> HIDE DEF Text
    <3> QED
      BY <3>1, ConcatAssociative, SMTT(30)
  <2> QED
    BY <1>1, <1>2, <1>4, <1>5, <2>1
<1>9. raw = <<SLASH>> \o Tail(raw)
  <2>1. Len(raw) \in Nat /\ Len(raw) # 0
    BY <1>4, LenProperties, EmptySeq DEF Text
  <2>2. 1 \in 1..Len(raw) /\ Len(raw) \in 1..Len(raw)
    BY <2>1
  <2>3. SubSeq(raw, 1, Len(raw)) = <<raw[1]>> \o SubSeq(raw, 1 + 1, Len(raw))
    BY <1>4, <2>2, SubSeqRecursiveFirst DEF Text
  <2>4. SubSeq(raw, 1, Len(raw)) = raw
    BY <1>4, SubSeqFull DEF Text
  <2>5. Tail(raw) = SubSeq(raw, 2, Len(raw))
    BY <1>4, TailIsSubSeq DEF Text
  <2> QED
    BY <1>4, <2>3, <2>4, <2>5
<1>10. (CgiRoot \o <<SLASH>>) \o Tail(raw) = CgiRoot \o (<<SLASH>> \o Tail(raw))
  <2>1. <<SLASH>> \in Text /\ Tail(raw) \in Text
    BY <1>4, HeadTailProperties DEF Text, SLASH
  <2> QED
    BY <1>6, <2>1, ConcatAssociative DEF Text
<1> QED
  BY <1>7, <1>8, <1>9, <1>10

\* The words of a query are those between its plus signs.
LEMMA ArgsOfQuery ==
  ASSUME NEW target \in Text
  PROVE  /\ \A k \in DOMAIN Args(target) : PLUS \notin Range(Args(target)[k])
         /\ Args(target) # <<>> => Query(target) = Rejoined(Args(target))
<1>1. Query(target) \in Text
  <2>1. Len(target) \in Nat /\ Len(RawPath(target)) \in Nat
    BY RawPathProperties, LenProperties DEF Text
  <2>2. Len(RawPath(target)) + 2 \in Int /\ Len(target) \in Int
    BY <2>1
  <2>3. \A i \in Len(RawPath(target)) + 2..Len(target) : target[i] \in STRING
    BY <2>1, ElementOfSeq DEF Text
  <2> QED
    BY <2>2, <2>3, SubSeqProperties DEF Query, Text
<1>2. CASE Places(Query(target), "=") # {}
  <2>1. Args(target) = <<>>
    BY <1>2 DEF Args
  <2> QED
    BY <2>1
<1>3. CASE Places(Query(target), "=") = {}
  <2>1. Args(target) = Split(Query(target), PLUS)
    BY <1>3 DEF Args
  <2> QED
    BY <1>1, <2>1, SplitProperties, RejoinedSplit DEF Text
<1> QED
  BY <1>2, <1>3

\* The script that CGI::run executes is the file that was found, run by the
\* command for its extension with all the words of the query, whatever the
\* request, the locations and the changes to the files.
THEOREM ScriptCorrect == Spec => []ScriptIsTheFileFound
<1>1. IInv /\ ScriptSoFar => ScriptIsTheFileFound
  <2> SUFFICES ASSUME IInv, ScriptSoFar, NEW i \in DOMAIN ran
               PROVE  /\ req.path[1] = SLASH /\ getActualRoot(Locations[found]) = CgiRoot =>
                           ran[i].file = filepath
                      /\ ran[i].command \in Range(path_file)
                      /\ \A k \in DOMAIN ran[i].args : PLUS \notin Range(ran[i].args[k])
                      /\ ran[i].args # <<>> => Query(req.path) = Rejoined(ran[i].args)
    BY DEF ScriptIsTheFileFound
  <2>1. ran # <<>>
    OBVIOUS
  <2>2. ran = <<Script(req.path)>> /\ Extension(req.path) # NoExtension
    BY <2>1 DEF ScriptSoFar
  <2>3. ran[i] = Script(req.path)
    BY <2>2
  <2>4. ran[i].command = Extension(req.path) /\ ran[i].args = Args(req.path)
    BY <2>3 DEF Script
  <2>5. path_file = PathFile(req.path)
    BY <2>1, NameIsAsked
  <2>6. Extension(req.path) \in Range(PathFile(req.path))
    BY <2>2 DEF Extension
  <2>7. req.path \in Text
    BY RequestsAssumption DEF IInv, TypeOK, Request
  <2> QED
    BY <2>1, <2>3, <2>4, <2>5, <2>6, <2>7, SameFile, ArgsOfQuery
<1> QED
  BY <1>1, Invariant, AlwaysScriptSoFar, PTL
=============================================================================
