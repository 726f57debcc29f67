--------------------------- MODULE ResponseBuilder ---------------------------
(***************************************************************************)
(* src/response/HttpResponseBuilder::build: one request becomes one        *)
(* response.  Every look at the file system is a step of its own, and      *)
(* files may change between any two of them.                               *)
(*                                                                         *)
(* The text of a file is one token, its path; so the body tells which      *)
(* files it was made from.                                                 *)
(***************************************************************************)
EXTENDS Path

CONSTANTS
  Locations,   \* conf_.locations
  ErrorPages,  \* conf_.error_pages: status -> what is added to a root
  Root,        \* conf_.root made absolute
  CgiRoot,     \* www/cgi-bin in the working directory
  Dirs,        \* the directories that can be opened
  Files,       \* the paths where there may be a file
  StillFiles,  \* the file systems that stand still
  OtherFiles,  \* the file systems that others work on
  Requests,    \* what is asked for
  MaxChanges,  \* bound: changes to the file system
  Char         \* what std::string::operator=(char) makes of a length

Codes == {"200", "400", "403", "404", "500", "501"}
Methods == {"GET", "POST", "DELETE"}
Kinds == {"absent", "empty", "text", "secret", "dir"}
NoName == <<>>
NoRoot == <<>>   \* no root in a location; default_root_ before it is set

Location ==
  [location : Text, root : Text, indexes : Seq(Text),
   methods : SUBSET Methods, cgi_extensions : SUBSET STRING]

\* path: the target of the request line; code: response_status_code of the
\* parser.
Request == [path : Text, method : Methods, code : Codes]

ASSUME LocationsAssumption == Locations \in Seq(Location)
ASSUME RootsAssumption == Root \in Text /\ CgiRoot \in Text
ASSUME RequestsAssumption == Requests \subseteq Request
ASSUME FilesAssumption ==
  /\ StillFiles \cup OtherFiles \subseteq [Files -> Kinds]
  /\ \A f \in Files : \E d \in Dirs : IsPrefix(d, f)
ASSUME ErrorPagesAssumption == DOMAIN ErrorPages \subseteq Codes \ {"200"}
\* What a body is made of besides the texts of files; and a file has a name.
ASSUME TokensAssumption ==
  <<>> \notin Files /\ <<"script">> \notin Files /\ \A c \in Codes : <<"default", c>> \notin Files
ASSUME BoundAssumption == MaxChanges \in Nat

VARIABLES
  pc, req,
  fs,            \* kind of every file
  cwd,           \* the working directory still exists
  changes,
  still,         \* nobody else works on the files
  default_root,
  loc_it, index, \* the loops of findFileInServer and findIndexFilepath
  path_file,
  filepath,      \* filepath_; exists is filepath # Nowhere
  found,         \* index of found_location_, 0 before it is assigned
  code,          \* http_status_ of the exception in flight
  body,          \* res_body_str_
  header,        \* status, Content-Length and what the type comes from
  ran            \* history: the scripts that were run

build == <<default_root, loc_it, index, path_file, filepath, found, code,
           body, header>>
disk == <<fs, cwd, changes, still>>
vars == <<pc, req, ran, disk, build>>

Nowhere == <<>>
exists == filepath # Nowhere

Init ==
  /\ pc = "start" /\ req \in Requests
  /\ still \in BOOLEAN /\ fs \in (IF still THEN StillFiles ELSE OtherFiles)
  /\ cwd = TRUE /\ changes = 0
  /\ default_root = NoRoot
  /\ loc_it = 1 /\ index = 1
  /\ path_file = NoName /\ filepath = Nowhere /\ found = 0
  /\ code = "200" /\ body = <<>>
  /\ header = [status |-> "", length |-> 0, type |-> NoName]
  /\ ran = <<>>

\* Somebody else creates, removes or changes a file, or the directory that
\* the server was started in.
Change ==
  /\ ~still /\ changes < MaxChanges /\ pc # "done"
  /\ changes' = changes + 1
  /\ \/ \E f \in Files, k \in Kinds : k # fs[f] /\ fs' = [fs EXCEPT ![f] = k]
        /\ UNCHANGED cwd
     \/ cwd /\ cwd' = FALSE /\ UNCHANGED fs
  /\ UNCHANGED <<pc, req, ran, still, build>>

KindOf(path) == IF path \in Files THEN fs[path] ELSE "absent"
Opens(path) == KindOf(path) \notin {"absent", "secret"}
\* What getline() gets out of a file that was opened; nothing of a directory.
Content(path) == IF KindOf(path) = "text" THEN <<path>> ELSE <<>>

\* A ResponseException, or another exception, on its way to buildErrorResponse.
Raise(status) == pc' = "error" /\ code' = status

-------------------------------------------------------------------------------
(* setDefaultRoot and parseRequestPath *)

SetDefaultRoot ==
  /\ pc = "start" /\ cwd
  /\ default_root' = Root
  /\ pc' = "path"
  /\ UNCHANGED <<req, ran, disk, loc_it, index, path_file, filepath, found, code, body, header>>

ParseRequestPath ==
  /\ pc = "path" /\ HasSlash(req.path)
  /\ path_file' = PathFile(req.path)
  /\ IF req.code = "200" THEN pc' = "find" /\ UNCHANGED code ELSE Raise(req.code)
  /\ UNCHANGED <<req, ran, disk, default_root, loc_it, index, filepath, found, body, header>>

NoSlash ==
  /\ pc = "path" /\ ~HasSlash(req.path)
  /\ Raise("500")
  /\ UNCHANGED <<req, ran, disk, default_root, loc_it, index, path_file, filepath, found, body, header>>

-------------------------------------------------------------------------------
(* findFileInServer *)

AtLocation == pc = "find" /\ loc_it <= Len(Locations)
loc == Locations[loc_it]
Matches == AtLocation /\ loc.location = PathDir(req.path)

\* getCurrentPath() throws.
GetCwdFails ==
  /\ ~cwd
  /\ pc = "start" \/ (Matches /\ index = 1)
  /\ Raise("500")
  /\ UNCHANGED <<req, ran, disk, default_root, loc_it, index, path_file, filepath, found, body, header>>

getActualRoot(location) == IF location.root = NoRoot THEN default_root ELSE location.root

\* The name looked for next.
Name ==
  IF path_file # NoName THEN path_file
  ELSE IF loc.indexes = <<>> THEN <<"index.html">> ELSE loc.indexes[index]

\* (mutant) the last index is not tried
MoreNamesButLast == path_file = NoName /\ index + 1 < Len(loc.indexes)

\* (mutant) the loop runs past the last index
MoreNamesPastEnd == path_file = NoName /\ index <= Len(loc.indexes)

\* More names of this location are left after the current one.
MoreNames == path_file = NoName /\ index < Len(loc.indexes)

\* path_file_ is set to index.html before it is looked for, and to an index
\* of the location only when that was found.
NameKept == path_file # NoName \/ loc.indexes = <<>>

Dir == getActualRoot(loc) \o loc.location
Target == Dir \o Name

\* (mutant) the loop does not advance
StayAtLocation ==
  /\ AtLocation /\ ~Matches
  /\ UNCHANGED vars

NextLocation ==
  /\ AtLocation /\ ~Matches
  /\ loc_it' = loc_it + 1 /\ index' = 1
  /\ UNCHANGED <<pc, req, ran, disk, default_root, path_file, filepath, found, code, body, header>>

\* getcwd() is asked once for each location that matches.
MayLook == Matches /\ (cwd \/ index > 1)

\* (mutant) the name of the index is not kept
FindForgettingName ==
  /\ MayLook /\ Dir \in Dirs /\ KindOf(Target) # "absent"
  /\ filepath' = Target /\ found' = loc_it
  /\ pc' = "check"
  /\ UNCHANGED <<req, ran, disk, default_root, loc_it, index, path_file, code, body, header>>

FindActualFilepath ==
  /\ MayLook /\ Dir \in Dirs /\ KindOf(Target) # "absent"
  /\ filepath' = Target /\ path_file' = Name /\ found' = loc_it
  /\ pc' = "check"
  /\ UNCHANGED <<req, ran, disk, default_root, loc_it, index, code, body, header>>

MissActualFilepath ==
  /\ MayLook /\ Dir \in Dirs /\ KindOf(Target) = "absent"
  /\ path_file' = IF NameKept THEN Name ELSE path_file
  /\ IF MoreNames THEN index' = index + 1 /\ UNCHANGED loc_it
                  ELSE index' = 1 /\ loc_it' = loc_it + 1
  /\ UNCHANGED <<pc, req, ran, disk, default_root, filepath, found, code, body, header>>

DirectoryNotFound ==
  /\ MayLook /\ Dir \notin Dirs
  /\ path_file' = IF NameKept THEN Name ELSE path_file
  /\ Raise("404")
  /\ UNCHANGED <<req, ran, disk, default_root, loc_it, index, filepath, found, body, header>>

FileNotFound ==
  /\ pc = "find" /\ loc_it > Len(Locations)
  /\ Raise("404")
  /\ UNCHANGED <<req, ran, disk, default_root, loc_it, index, path_file, filepath, found, body, header>>

-------------------------------------------------------------------------------
(* checkOptions, and what build() does with the file *)

\* An extension anywhere in the name, but not as the whole of it.
IsFileCGI(location, name) ==
  \E extension \in location.cgi_extensions :
    extension \in Range(name) /\ name # <<extension>>

\* (mutant) POST is let through whatever the file is
AllowedByList(location, method, name) ==
  IF location.methods = {} THEN method = "GET" ELSE method \in location.methods

IsAllowedMethod(location, method, name) ==
  IF location.methods = {} THEN method = "GET"
  ELSE /\ method \in location.methods
       /\ method = "POST" => IsFileCGI(location, name)

\* is_delete is set only when DELETE is in the list.
Branch(location, method, name) ==
  IF IsFileCGI(location, name) THEN "cgi"
  ELSE IF method = "DELETE" THEN "delete" ELSE "read"

CheckOptions ==
  /\ pc = "check"
  /\ LET location == Locations[found]
     IN  IF ~IsAllowedMethod(location, req.method, path_file) \/ ~Opens(filepath)
         THEN Raise("403")
         ELSE pc' = Branch(location, req.method, path_file) /\ UNCHANGED code
  /\ UNCHANGED <<req, ran, disk, default_root, loc_it, index, path_file, filepath, found, body, header>>

\* (mutant) the script is looked for without its directory
ScriptByName(target) ==
  [command |-> Extension(target), file |-> CgiRoot \o <<SLASH>> \o PathFile(target),
   args |-> Args(target)]

\* CGI::createArgs drops the first character of the path.
Script(target) ==
  [command |-> Extension(target),
   file |-> CgiRoot \o <<SLASH>> \o Tail(RawPath(target)), args |-> Args(target)]

\* CGI::run comes back (see module CGI) with a text, or with one that
\* CGIParser throws on; or it ends the process.  It takes the script from the
\* request and not from filepath_; without an extension there, as for an
\* index, EXEC_PATHS.find() is end(), and no script is run.
DoCGI ==
  /\ pc = "cgi"
  /\ ran' = IF Extension(req.path) = NoExtension THEN ran
            ELSE Append(ran, Script(req.path))
  /\ \/ pc' = "header" /\ body' = Append(body, <<"script">>) /\ UNCHANGED code
     \/ Raise("500") /\ UNCHANGED body
     \/ pc' = "dead" /\ UNCHANGED <<body, code>>
  /\ UNCHANGED <<req, disk, default_root, loc_it, index, path_file, filepath, found, header>>

\* deleteFile() has an empty body.
DeleteFile ==
  /\ pc = "delete" /\ pc' = "header"
  /\ UNCHANGED <<req, ran, disk, build>>

ReadFile ==
  /\ pc = "read"
  /\ IF Opens(filepath)
     THEN body' = body \o Content(filepath) /\ pc' = "header" /\ UNCHANGED code
     ELSE Raise("500") /\ UNCHANGED body
  /\ UNCHANGED <<req, ran, disk, default_root, loc_it, index, path_file, filepath, found, header>>

\* The type comes from the name of the file; updateHeader() sets it for a
\* script.
TEXT_HTML == <<"text/html">>
TypeFor(location, name) == IF IsFileCGI(location, name) THEN TEXT_HTML ELSE name

\* buildHeader: the length is taken before stat() may throw.
BuildHeader ==
  /\ pc = "header"
  /\ header' = [status |-> "200", length |-> Len(body),
                type |-> TypeFor(Locations[found], path_file)]
  /\ IF KindOf(filepath) # "absent" THEN pc' = "done" /\ UNCHANGED code
                                    ELSE Raise("500")
  /\ UNCHANGED <<req, ran, disk, default_root, loc_it, index, path_file, filepath, found, body>>

-------------------------------------------------------------------------------
(* buildErrorResponse *)

HasPage == code \in DOMAIN ErrorPages

\* found_location_.root is used as it is written, default_root_ only when no
\* file was found.
ErrorRoot == IF exists THEN Locations[found].root ELSE default_root
ErrorPath == ErrorRoot \o ErrorPages[code]
PageReadable == HasPage /\ ((exists /\ ErrorRoot = NoRoot) \/ Opens(ErrorPath))

ErrorHeader == [status |-> code, length |-> Char, type |-> path_file]

ReadErrorPage ==
  /\ pc = "error" /\ PageReadable
  /\ body' = IF exists /\ ErrorRoot = NoRoot THEN body ELSE body \o Content(ErrorPath)
  /\ pc' = "errorheader"
  /\ UNCHANGED <<req, ran, disk, default_root, loc_it, index, path_file, filepath, found, code, header>>

\* (mutant) the default page is always added
BuildErrorHeaderAndPage ==
  /\ pc = "errorheader" /\ body # <<>>
  /\ body' = Append(body, <<"default", code>>)
  /\ header' = ErrorHeader /\ pc' = "done"
  /\ UNCHANGED <<req, ran, disk, default_root, loc_it, index, path_file, filepath, found, code>>

BuildErrorHeader ==
  /\ pc = "errorheader" /\ body # <<>>
  /\ header' = ErrorHeader /\ pc' = "done"
  /\ UNCHANGED <<req, ran, disk, default_root, loc_it, index, path_file, filepath, found, code, body>>

\* No page is configured, it cannot be read, or it left the body empty.
BuildDefaultErrorPage ==
  /\ \/ pc = "error" /\ ~PageReadable
     \/ pc = "errorheader" /\ body = <<>>
  /\ body' = Append(body, <<"default", code>>)
  /\ header' = ErrorHeader /\ pc' = "done"
  /\ UNCHANGED <<req, ran, disk, default_root, loc_it, index, path_file, filepath, found, code>>

-------------------------------------------------------------------------------

Step ==
  \/ SetDefaultRoot \/ ParseRequestPath \/ NoSlash \/ GetCwdFails
  \/ NextLocation \/ FindActualFilepath \/ MissActualFilepath
  \/ DirectoryNotFound \/ FileNotFound
  \/ CheckOptions \/ DoCGI \/ DeleteFile \/ ReadFile \/ BuildHeader
  \/ ReadErrorPage \/ BuildErrorHeader \/ BuildDefaultErrorPage

Next == Step \/ Change

Spec == Init /\ [][Next]_vars /\ WF_vars(Step)

-------------------------------------------------------------------------------
(* What the answer should be, of a file system that stands still.          *)

Matching ==
  {i \in DOMAIN Locations : Locations[i].location = PathDir(req.path)}

\* index.html stays in path_file_ when a location without indexes had none,
\* and is then looked for in every later location of the same path.
NamesAt(i) ==
  IF PathFile(req.path) # NoName THEN <<PathFile(req.path)>>
  ELSE IF \E j \in Matching : j <= i /\ Locations[j].indexes = <<>>
       THEN << <<"index.html">> >> ELSE Locations[i].indexes

DirAt(i) ==
  (IF Locations[i].root = NoRoot THEN Root ELSE Locations[i].root) \o PathDir(req.path)
PathAt(i, name) == DirAt(i) \o name
Present(i) == {k \in DOMAIN NamesAt(i) : KindOf(PathAt(i, NamesAt(i)[k])) # "absent"}

Serving == {i \in Matching : Present(i) # {}}
Closed == {i \in Matching : DirAt(i) \notin Dirs}
Served == IF Serving = {} \/ \E i \in Closed : i <= Min(Serving) THEN 0 ELSE Min(Serving)
ServedName == NamesAt(Served)[Min(Present(Served))]
ServedPath == PathAt(Served, ServedName)

MayServe ==
  /\ KindOf(ServedPath) # "secret"
  /\ LET location == Locations[Served]
     IN  \/ location.methods = {} /\ req.method = "GET"
         \/ /\ req.method \in location.methods
            /\ req.method # "POST" \/ IsFileCGI(location, ServedName)

\* The page for an error: of the server's root, or of the location that a
\* file was found in if that has a root.
PageFor(status, i) ==
  (IF i = 0 THEN Root ELSE Locations[i].root) \o ErrorPages[status]
HasPageFor(status, i) ==
  /\ status \in DOMAIN ErrorPages /\ (i = 0 \/ Locations[i].root # NoRoot)
  /\ KindOf(PageFor(status, i)) = "text"
ErrorAnswer(status, i) ==
  [status |-> status,
   body |-> IF HasPageFor(status, i)
            THEN <<PageFor(status, i)>> ELSE << <<"default", status>> >>]

Answers ==
  IF ~HasSlash(req.path) THEN {ErrorAnswer("500", 0)}
  ELSE IF req.code # "200" THEN {ErrorAnswer(req.code, 0)}
  ELSE IF Served = 0 THEN {ErrorAnswer("404", 0)}
  ELSE IF ~MayServe THEN {ErrorAnswer("403", Served)}
  ELSE IF IsFileCGI(Locations[Served], ServedName)
  THEN {[status |-> "200", body |-> << <<"script">> >>], ErrorAnswer("500", Served)}
  ELSE {[status |-> "200",
         body |-> IF req.method = "DELETE" THEN <<>> ELSE Content(ServedPath)]}

-------------------------------------------------------------------------------
(* Properties *)

\* Types of all variables.
TypeOK ==
  /\ pc \in {"start", "path", "find", "check", "cgi", "delete", "read", "header",
             "error", "errorheader", "done", "dead"}
  /\ req \in Requests
  /\ fs \in [Files -> Kinds] /\ cwd \in BOOLEAN /\ changes \in 0..MaxChanges
  /\ still \in BOOLEAN
  /\ default_root \in {Root, NoRoot}
  /\ loc_it \in 1..Len(Locations) + 1
  /\ loc_it <= Len(Locations) => index \in 1..Len(loc.indexes) \cup {1}
  /\ filepath \in Files \cup {Nowhere}
  /\ found \in {0} \cup DOMAIN Locations /\ (exists => found # 0)
  /\ code \in Codes
  /\ header.status \in Codes \cup {""} /\ header.length \in Nat \cup {Char}

\* While no file changes, the answer is the one that locations, options and
\* error pages call for: the first match, its indexes in order, one page.
AnswersAsConfigured ==
  pc = "done" /\ changes = 0 => [status |-> header.status, body |-> body] \in Answers

\* Whatever changes meanwhile, no file is read but the page of an error, and
\* the file that was found for the requested path in a location that matches
\* it; and that only for a GET that the location allows.
ReadsOnlyWhatIsAllowed ==
  \A i \in DOMAIN body :
    body[i] \in Files =>
      \/ /\ body[i] = filepath /\ found \in Matching
         /\ filepath = DirAt(found) \o path_file
         /\ req.method = "GET"
         /\ Locations[found].methods = {} \/ "GET" \in Locations[found].methods
      \/ pc \in {"errorheader", "done"} /\ HasPage /\ body[i] = ErrorPath

\* An answer of 200 is one text, with its length and with the type of the file
\* that was found, and it was found in a location for the requested path.
OkHeaderFits ==
  pc = "done" /\ header.status = "200" =>
    /\ Len(body) <= 1 /\ header.length = Len(body)
    /\ exists /\ filepath = DirAt(found) \o path_file
    /\ header.type = TypeFor(Locations[found], path_file)

\* Two texts end up in one body only when the file vanished between readFile()
\* and stat(): the answer is then 500, and the second is an error page.
MixedOnlyWhenVanished ==
  pc = "done" /\ Len(body) > 1 =>
    /\ Len(body) = 2 /\ changes > 0 /\ header.status = "500"
    /\ body[1] \in {filepath, <<"script">>}

\* Words with one + between each two.
Rejoined(words) ==
  LET upTo[k \in DOMAIN words] ==
        IF k = 1 THEN words[1] ELSE upTo[k - 1] \o <<PLUS>> \o words[k]
  IN  upTo[Len(words)]

\* What is run is the file that was found and looked at for permission, by the
\* command of an extension it has, and given the words of the query, none lost,
\* as long as the path begins with a slash and the root of its location is the
\* www/cgi-bin that CGI takes for granted (CGI.cpp:53-56).
ScriptIsTheFileFound ==
  \A i \in DOMAIN ran :
    /\ req.path[1] = SLASH /\ getActualRoot(Locations[found]) = CgiRoot =>
         ran[i].file = filepath
    /\ ran[i].command \in Range(path_file)
    /\ \A k \in DOMAIN ran[i].args : PLUS \notin Range(ran[i].args[k])
    /\ ran[i].args # <<>> => Query(req.path) = Rejoined(ran[i].args)

\* The exception that "should not occur" (buildErrorHeader) does not occur.
BodyIsCreated == pc = "errorheader" => body # <<>>

\* An answer is always built, unless a script ends the process.
BuildEnds == <>(pc \in {"done", "dead"})
=============================================================================
