------------------------------ MODULE Requests ------------------------------
(***************************************************************************)
(* Where tarballs are kept and how requests find them: the path under      *)
(* which a worker downloads one (npm/npm.go: Download), the path that is   *)
(* removed when the package is gone (npm/mirror.go: Start), and the path,  *)
(* document or version that the server derives from a request              *)
(* (npm/server.go).  Three places compute paths on their own; they have    *)
(* to agree.                                                               *)
(*                                                                         *)
(* A path is a sequence of segments.  The name of a package is one, or for *)
(* a scoped package two, the first of which begins with "@".               *)
(***************************************************************************)
EXTENDS VersionChoice

CONSTANTS
  Packages,     \* names, each a sequence of one or two segments
  Scopes,       \* the segments that begin with "@"
  Tarballs,     \* file names
  Label,        \* a segment that is a version or a tag
  Dotted,       \* the segments with ".." in them
  Letter(_)     \* the first character of a segment

Hyphen == "-"

NameSegments == (UNION {ToSet(p) : p \in Packages}) \cup Scopes

Segments ==
  NameSegments \cup Tarballs \cup Dotted \cup {Hyphen, Label}

ASSUME PathsAssumption ==
  /\ Packages \subseteq Seq(NameSegments)
  /\ \A p \in Packages :
       \/ Len(p) = 1 /\ p[1] \notin Scopes
       \/ Len(p) = 2 /\ p[1] \in Scopes
  /\ NameSegments \cap Dotted = {}
  /\ Tarballs \cap Dotted = {}
  /\ NameSegments \cap {Hyphen, Label} = {}
  /\ Label # Hyphen

VARIABLES
  disk,     \* the local paths of the files there are
  kept,     \* history: the tarballs downloaded and not removed, by package
  asked,    \* the path of the request, <<>> between two requests
  wanted,   \* what the label in it stands for
  listed,   \* the versions in the document that the server read for it
  answer    \* and its answer

query == <<asked, wanted, listed, answer>>
vars == <<disk, kept, query>>

NotFound == [kind |-> "none"]
Document(name) == [kind |-> "document", name |-> name]
VersionOf(name, version) ==
  IF version = NoVersion
  THEN NotFound
  ELSE [kind |-> "version", name |-> name, version |-> version]
File(local) == [kind |-> "file", local |-> local]

-----------------------------------------------------------------------------
(* The disk                                                                *)

\* Below the mirror's path there is a directory for each first character.
LocalPath(path) == <<Letter(Head(path))>> \o path

Url(p, tarball) == p \o <<Hyphen, tarball>>

\* The path is that of the URL a document gives for its tarball (npm.go:178); it
\* is assumed to be the one the registry serves, name, hyphen and file name.  A
\* request looks at the disk once, so nothing changes between its two steps here.
Download(p, tarball) ==
  /\ asked = <<>>
  /\ disk' = disk \cup {LocalPath(Url(p, tarball))}
  /\ kept' = kept \cup {<<p, tarball>>}
  /\ UNCHANGED query

\* Mutation: the directory of the scope goes with it.
RemovedWith(p) == {local \in disk : IsPrefix(SubSeq(LocalPath(p), 1, 2), local)}

\* Everything below the local path of the name.
Removed(p) == {local \in disk : IsPrefix(LocalPath(p), local)}

RemoveAll(p) ==
  /\ asked = <<>>
  /\ disk' = disk \ Removed(p)
  /\ kept' = {k \in kept : k[1] # p}
  /\ UNCHANGED query

-----------------------------------------------------------------------------
(* The server                                                              *)

IsScope(name) == Len(name) = 1 /\ name[1] \in Scopes

\* A segment that is no label begins no version.
Resolved(segment, request, vs) ==
  IF segment = Label THEN Choice(vs, request) ELSE NoVersion

\* A scope and what follows it are a name.
DocumentByVersion(name, segment, request, vs) ==
  IF IsScope(name)
  THEN Document(Append(name, segment))
  ELSE VersionOf(name, Resolved(segment, request, vs))

\* A directory of the mirror stands between the name and the tarball.
SendFile(name, middle, tarball) ==
  LET local == LocalPath(Url(name, tarball))
  IN IF /\ middle = Hyphen
        /\ ToSet(name) \cap Dotted = {} /\ tarball \notin Dotted
        /\ local \in disk
     THEN File(local)
     ELSE NotFound

\* Mutation: a scoped name is not put together.
FileOfScope(path) == SendFile(<<path[1]>>, path[3], path[4])

FileOfScoped(path) == SendFile(<<path[1], path[2]>>, path[3], path[4])

Route(path, request, vs) ==
  CASE Len(path) = 1 -> Document(path)
    [] Len(path) = 2 -> DocumentByVersion(<<path[1]>>, path[2], request, vs)
    [] Len(path) = 3 /\ IsScope(<<path[1]>>) ->
         DocumentByVersion(<<path[1], path[2]>>, path[3], request, vs)
    [] Len(path) = 3 /\ ~ IsScope(<<path[1]>>) ->
         SendFile(<<path[1]>>, path[2], path[3])
    [] Len(path) = 4 -> FileOfScoped(path)
    [] OTHER -> NotFound

Ask(path, request, vs) ==
  /\ asked' = path
  /\ wanted' = request
  /\ listed' = vs
  /\ answer' = Route(path, request, vs)
  /\ UNCHANGED <<disk, kept>>

\* Between two requests.
Idle == [by |-> "version", version |-> NoVersion]

Answered ==
  /\ asked # <<>>
  /\ asked' = <<>>
  /\ wanted' = Idle
  /\ listed' = {}
  /\ answer' = NotFound
  /\ UNCHANGED <<disk, kept>>

Init ==
  /\ disk = {}
  /\ kept = {}
  /\ asked = <<>>
  /\ wanted = Idle
  /\ listed = {}
  /\ answer = NotFound

\* Whether the last segment is looked up in a document.
ByVersion(path) ==
  /\ Last(path) = Label
  /\ Len(path) = IF Head(path) \in Scopes THEN 3 ELSE 2

AskAny ==
  /\ asked = <<>>
  /\ \E path \in UNION {[1 .. n -> Segments] : n \in 1 .. 4} :
       IF ByVersion(path)
       THEN \E request \in VersionRequests, vs \in SUBSET Versions :
              Ask(path, request, vs)
       ELSE Ask(path, Idle, {})

Next ==
  \/ \E p \in Packages, t \in Tarballs : Download(p, t)
  \/ \E p \in Packages : RemoveAll(p)
  \/ AskAny \/ Answered

Spec == Init /\ [][Next]_vars

-----------------------------------------------------------------------------
(* Properties                                                              *)

\* The files on disk are those of the packages: no two tarballs share a path,
\* and the removal of a package takes all of its files and none of another's,
\* of the same scope or with the same name under it (mirror.go:107).
DiskIsKept == disk = {LocalPath(Url(k[1], k[2])) : k \in kept}

\* A request finds what it names, whichever of the routes it takes: the
\* document of a package, a version of it that the document has, and a tarball
\* exactly when the mirror has it; and no other request is answered with a
\* tarball.
RequestsFindTheirs ==
  /\ \A p \in Packages :
       /\ asked = p => answer = Document(p)
       /\ asked = Append(p, Label) =>
            \/ answer = NotFound
            \/ answer.kind = "version" /\ answer.name = p /\ answer.version \in listed
  /\ answer.kind = "file" =>
       \E k \in kept : asked = Url(k[1], k[2]) /\ answer.local \in disk
  /\ \A k \in kept : asked = Url(k[1], k[2]) => answer.kind = "file"

\* Requests for a version of a package that are answered by number.
ByNumber ==
  /\ \E p \in Packages : asked = Append(p, Label)
  /\ \/ wanted.by \in {"above", "number"}
     \/ wanted.by = "version" /\ wanted.version \notin listed

\* Whatever the texts of the versions are, the answer to "^" or a number is
\* never of an earlier major version than the one asked for, and there is one
\* if the document has any of it.  (It may be of a later one: "1" begins "10".)
MajorAtLeast ==
  ByNumber =>
    \/ answer.kind = "version" /\ answer.version.major >= wanted.version.major
    \/ answer = NotFound /\ \A v \in listed : v.major # wanted.version.major

\* As long as no number has two digits and there are no prereleases, comparing
\* texts (server.go:269) is as good as comparing versions: the answer is the
\* newest of its major version.
NewestOfMajor ==
  /\ ByNumber
  /\ \A v \in listed : v.major < 10 /\ v.minor < 10 /\ ~ v.pre
  => \A v \in listed :
      v.major = wanted.version.major =>
        /\ answer.kind = "version"
        /\ answer.version.major = v.major
        /\ ~ Older(answer.version, v)

=============================================================================
