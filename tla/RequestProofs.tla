---------------------------- MODULE RequestProofs ----------------------------
(***************************************************************************)
(* Proofs about Requests and VersionChoice, for any packages, tarballs and *)
(* versions: the paths agree, and whatever is listed a version is chosen.  *)
(***************************************************************************)
EXTENDS Requests, SequenceTheorems, WellFoundedInduction, TLAPS

-----------------------------------------------------------------------------
(* Names and paths                                                         *)

\* A name is one segment that is no scope, or a scope and a segment.
LEMMA Names ==
  ASSUME NEW p \in Packages
  PROVE  /\ \/ Len(p) = 1 /\ p = <<p[1]>> /\ p[1] \notin Scopes
            \/ Len(p) = 2 /\ p = <<p[1], p[2]>> /\ p[1] \in Scopes
         /\ p \in Seq(ToSet(p))
         /\ ToSet(p) \cap Dotted = {}
<1>1. p \in Seq(NameSegments)
  BY PathsAssumption
<1>2. \/ Len(p) = 1 /\ p[1] \notin Scopes
      \/ Len(p) = 2 /\ p[1] \in Scopes
  BY PathsAssumption
<1>3. \/ Len(p) = 1 /\ p = <<p[1]>> /\ p[1] \notin Scopes
      \/ Len(p) = 2 /\ p = <<p[1], p[2]>> /\ p[1] \in Scopes
  BY <1>1, <1>2
<1>4. p \in Seq(ToSet(p))
  BY <1>1 DEF ToSet
<1>5. ToSet(p) \cap Dotted = {}
  <2>1. ToSet(p) \in SUBSET NameSegments
    BY <1>1 DEF ToSet
  <2> QED BY <2>1, PathsAssumption
<1> QED BY <1>3, <1>4, <1>5

\* A path of a request is a sequence of one to four segments.
Paths == UNION {[1 .. n -> Segments] : n \in 1 .. 4}

\* The paths that are asked for are short sequences of segments.
LEMMA PathsAre ==
  ASSUME NEW path \in Paths
  PROVE  /\ path \in Seq(Segments)
         /\ path # <<>>
         /\ Len(path) \in 1 .. 4
<1>1. PICK n \in 1 .. 4 : path \in [1 .. n -> Segments]
  BY DEF Paths
<1> QED BY <1>1

\* A prefix agrees with the sequence as far as it goes.
LEMMA PrefixElements ==
  ASSUME NEW S, NEW s \in Seq(S), NEW t \in Seq(S)
  PROVE  IsPrefix(s, t) <=>
           Len(s) <= Len(t) /\ \A i \in 1 .. Len(s) : s[i] = t[i]
<1>1. SubSeq(s, 1, Len(s)) = s
  OBVIOUS
<1>2. ASSUME Len(s) <= Len(t)
      PROVE  /\ SubSeq(t, 1, Len(s)) \in Seq(S)
             /\ Len(SubSeq(t, 1, Len(s))) = Len(s)
             /\ \A i \in 1 .. Len(s) : SubSeq(t, 1, Len(s))[i] = t[i]
  BY <1>2
<1>3. ASSUME Len(s) <= Len(t), \A i \in 1 .. Len(s) : s[i] = t[i]
      PROVE  SubSeq(t, 1, Len(s)) = s
  <2> DEFINE u == SubSeq(t, 1, Len(s))
  <2>1. u \in Seq(S) /\ Len(u) = Len(s) /\ \A i \in 1 .. Len(s) : u[i] = s[i]
    BY <1>2, <1>3
  <2> HIDE DEF u
  <2>2. u = s
    BY <2>1
  <2> QED BY <2>2 DEF u
<1>4. ASSUME Len(s) <= Len(t), SubSeq(t, 1, Len(s)) = s
      PROVE  \A i \in 1 .. Len(s) : s[i] = t[i]
  BY <1>2, <1>4
<1> QED BY <1>1, <1>3, <1>4 DEF IsPrefix

\* A local path is the path with the first character of it in front.
LEMMA LocalPathElements ==
  ASSUME NEW S, NEW path \in Seq(S), path # <<>>, Letter(path[1]) \in S
  PROVE  /\ LocalPath(path) \in Seq(S)
         /\ Len(LocalPath(path)) = Len(path) + 1
         /\ LocalPath(path)[1] = Letter(path[1])
         /\ \A i \in 1 .. Len(path) : LocalPath(path)[i + 1] = path[i]
<1> DEFINE letter == <<Letter(path[1])>>
<1>1. letter \in Seq(S)
  OBVIOUS
<1>2. Len(letter) = 1 /\ letter[1] = Letter(path[1])
  OBVIOUS
<1>3. LocalPath(path) = letter \o path
  BY DEF LocalPath
<1> HIDE DEF letter
<1>4. /\ LocalPath(path) \in Seq(S)
      /\ Len(LocalPath(path)) = Len(letter) + Len(path)
      /\ \A i \in 1 .. Len(letter) + Len(path) :
           LocalPath(path)[i] =
             IF i <= Len(letter) THEN letter[i] ELSE path[i - Len(letter)]
  BY <1>1, <1>3, ConcatProperties
<1>5. Len(path) \in Nat
  OBVIOUS
<1> QED BY <1>2, <1>4, <1>5

\* The path of a tarball is the name, a hyphen and the file.
LEMMA UrlElements ==
  ASSUME NEW S, NEW p \in Seq(S), Hyphen \in S, NEW t \in S
  PROVE  /\ Url(p, t) \in Seq(S)
         /\ Url(p, t) # <<>>
         /\ Len(Url(p, t)) = Len(p) + 2
         /\ \A i \in 1 .. Len(p) : Url(p, t)[i] = p[i]
         /\ Url(p, t)[Len(p) + 1] = Hyphen
         /\ Url(p, t)[Len(p) + 2] = t
<1> DEFINE tail == <<Hyphen, t>>
<1>1. tail \in Seq(S)
  OBVIOUS
<1>2. Len(tail) = 2 /\ tail[1] = Hyphen /\ tail[2] = t
  OBVIOUS
<1>3. Url(p, t) = p \o tail
  BY DEF Url
<1> HIDE DEF tail
<1>4. /\ Url(p, t) \in Seq(S)
      /\ Len(Url(p, t)) = Len(p) + Len(tail)
      /\ \A i \in 1 .. Len(p) + Len(tail) :
           Url(p, t)[i] = IF i <= Len(p) THEN p[i] ELSE tail[i - Len(p)]
  BY <1>1, <1>3, ConcatProperties
<1>5. Len(p) \in Nat
  OBVIOUS
<1> QED BY <1>2, <1>4, <1>5

\* The directory of a package holds its own tarballs and no other's.
LEMMA OwnDirectory ==
  ASSUME NEW p \in Packages, NEW q \in Packages, NEW t
  PROVE  IsPrefix(LocalPath(p), LocalPath(Url(q, t))) <=> p = q
<1> DEFINE S == ToSet(p) \cup ToSet(q) \cup {Hyphen, t, Letter(p[1]), Letter(q[1])}
           s == LocalPath(p)
           u == LocalPath(Url(q, t))
<1>1. p \in Seq(S) /\ q \in Seq(S) /\ Hyphen \in S /\ t \in S
  BY Names
<1>2. Letter(p[1]) \in S /\ Letter(q[1]) \in S
  OBVIOUS
<1> HIDE DEF S
<1>3. /\ Len(p) \in 1 .. 2 /\ Len(q) \in 1 .. 2 /\ p # <<>> /\ q # <<>>
      /\ Len(p) = 1 => p = <<p[1]>> /\ p[1] \notin Scopes
      /\ Len(q) = 1 => q = <<q[1]>> /\ q[1] \notin Scopes
      /\ Len(p) = 2 => p = <<p[1], p[2]>> /\ p[1] \in Scopes
      /\ Len(q) = 2 => q = <<q[1], q[2]>> /\ q[1] \in Scopes
  BY Names
<1>4. /\ Url(q, t) \in Seq(S)
      /\ Url(q, t) # <<>>
      /\ Len(Url(q, t)) = Len(q) + 2
      /\ \A i \in 1 .. Len(q) : Url(q, t)[i] = q[i]
  BY <1>1, UrlElements
<1>5. Url(q, t)[1] = q[1]
  BY <1>3, <1>4
<1>6. /\ s \in Seq(S)
      /\ Len(s) = Len(p) + 1
      /\ s[1] = Letter(p[1])
      /\ \A i \in 1 .. Len(p) : s[i + 1] = p[i]
  BY <1>1, <1>2, <1>3, LocalPathElements
<1>7. /\ u \in Seq(S)
      /\ Len(u) = Len(q) + 3
      /\ u[1] = Letter(q[1])
      /\ \A i \in 1 .. Len(q) : u[i + 1] = q[i]
  <2>1. Letter(Url(q, t)[1]) \in S
    BY <1>2, <1>5
  <2>2. /\ u \in Seq(S)
        /\ Len(u) = Len(Url(q, t)) + 1
        /\ u[1] = Letter(Url(q, t)[1])
        /\ \A i \in 1 .. Len(Url(q, t)) : u[i + 1] = Url(q, t)[i]
    BY <1>4, <2>1, LocalPathElements
  <2>3. \A i \in 1 .. Len(q) : i \in 1 .. Len(Url(q, t))
    BY <1>3, <1>4
  <2> HIDE DEF u
  <2> QED BY <1>3, <1>4, <1>5, <2>2, <2>3
<1> HIDE DEF s, u
<1>8. IsPrefix(s, u) <=> Len(s) <= Len(u) /\ \A i \in 1 .. Len(s) : s[i] = u[i]
  BY <1>6, <1>7, PrefixElements
<1>9. ASSUME IsPrefix(s, u) PROVE p = q
  <2>1. \A i \in 1 .. Len(s) : s[i] = u[i]
    BY <1>8, <1>9
  <2>2. s[2] = p[1] /\ u[2] = q[1] /\ s[2] = u[2]
    <3>1. s[1 + 1] = p[1] /\ u[1 + 1] = q[1] /\ 2 \in 1 .. Len(s)
      BY <1>3, <1>6, <1>7
    <3> QED BY <2>1, <3>1
  <2>3. Len(p) = Len(q)
    BY <1>3, <2>2
  <2>4. Len(p) = 2 => p[2] = q[2]
    <3> SUFFICES ASSUME Len(p) = 2 PROVE p[2] = q[2]
      OBVIOUS
    <3>1. 2 \in 1 .. Len(p) /\ 2 \in 1 .. Len(q) /\ 3 \in 1 .. Len(s)
      BY <1>6, <2>3
    <3>2. s[2 + 1] = p[2] /\ u[2 + 1] = q[2]
      BY <1>6, <1>7, <3>1
    <3> QED BY <2>1, <3>1, <3>2
  <2> QED BY <1>3, <2>2, <2>3, <2>4
<1>10. ASSUME p = q PROVE IsPrefix(s, u)
  <2>1. Len(s) <= Len(u)
    BY <1>3, <1>6, <1>7, <1>10
  <2>2. ASSUME NEW i \in 1 .. Len(s) PROVE s[i] = u[i]
    <3>1. i = 1 \/ i - 1 \in 1 .. Len(p)
      BY <1>3, <1>6
    <3>2. CASE i = 1
      BY <1>6, <1>7, <1>10, <3>2
    <3>3. CASE i - 1 \in 1 .. Len(p)
      <4>1. s[(i - 1) + 1] = p[i - 1] /\ u[(i - 1) + 1] = p[i - 1]
        BY <1>6, <1>7, <1>10, <3>3
      <4> QED BY <4>1
    <3> QED BY <3>1, <3>2, <3>3
  <2> QED BY <1>8, <2>1, <2>2
<1> QED BY <1>9, <1>10 DEF s, u

\* The local path of a tarball tells the path it was asked for by.
LEMMA LocalPathTells ==
  ASSUME NEW p \in Packages, NEW t, NEW path \in Paths,
         LocalPath(path) = LocalPath(Url(p, t))
  PROVE  path = Url(p, t)
<1> DEFINE S == Segments \cup ToSet(p)
                  \cup {Hyphen, t, Letter(path[1]), Letter(Url(p, t)[1])}
           u == Url(p, t)
<1>1. p \in Seq(S) /\ Hyphen \in S /\ t \in S /\ path \in Seq(S) /\ path # <<>>
  BY Names, PathsAre
<1>2. Letter(path[1]) \in S /\ Letter(u[1]) \in S
  OBVIOUS
<1> HIDE DEF S
<1>3. u \in Seq(S) /\ u # <<>>
  BY <1>1, UrlElements
<1> HIDE DEF u
<1>4. /\ Len(LocalPath(path)) = Len(path) + 1
      /\ \A i \in 1 .. Len(path) : LocalPath(path)[i + 1] = path[i]
  BY <1>1, <1>2, LocalPathElements
<1>5. /\ Len(LocalPath(u)) = Len(u) + 1
      /\ \A i \in 1 .. Len(u) : LocalPath(u)[i + 1] = u[i]
  BY <1>2, <1>3, LocalPathElements
<1>6. LocalPath(path) = LocalPath(u)
  BY DEF u
<1>7. Len(path) = Len(u) /\ \A i \in 1 .. Len(path) : path[i] = u[i]
  BY <1>1, <1>3, <1>4, <1>5, <1>6
<1>8. path = u
  BY <1>1, <1>3, <1>7
<1> QED BY <1>8 DEF u

-----------------------------------------------------------------------------
(* The disk                                                                *)

\* The history names packages and tarballs.
KeptOK == kept \in SUBSET (Packages \X Tarballs)

DiskInv == KeptOK /\ DiskIsKept

\* A download adds one tarball to both.
LEMMA DownloadKeeps ==
  ASSUME DiskInv, NEW p \in Packages, NEW t \in Tarballs, Download(p, t)
  PROVE  DiskInv'
<1>1. KeptOK'
  BY DEF DiskInv, KeptOK, Download
<1>2. DiskIsKept'
  <2> DEFINE local(k) == LocalPath(Url(k[1], k[2]))
  <2>1. disk = {local(k) : k \in kept}
    BY DEF DiskInv, DiskIsKept
  <2>2. local(<<p, t>>) = LocalPath(Url(p, t))
    OBVIOUS
  <2> HIDE DEF local
  <2>3. disk' = {local(k) : k \in kept'}
    BY <2>1, <2>2 DEF Download
  <2> QED BY <2>3 DEF DiskIsKept, local
<1> QED BY <1>1, <1>2 DEF DiskInv

\* Removing a package's directory takes its tarballs and no others.
LEMMA RemoveAllKeeps ==
  ASSUME DiskInv, NEW p \in Packages, RemoveAll(p)
  PROVE  DiskInv'
<1>1. KeptOK'
  BY DEF DiskInv, KeptOK, RemoveAll
<1>2. DiskIsKept'
  <2> DEFINE local(k) == LocalPath(Url(k[1], k[2]))
             own(path) == IsPrefix(LocalPath(p), path)
  <2>1. disk = {local(k) : k \in kept}
    BY DEF DiskInv, DiskIsKept
  <2>2. \A k \in kept : own(local(k)) <=> k[1] = p
    <3>1. \A k \in kept : k[1] \in Packages
      BY DEF DiskInv, KeptOK
    <3> QED BY <3>1, OwnDirectory
  <2>3. disk' = {path \in disk : ~ own(path)}
    BY DEF RemoveAll, Removed
  <2>4. kept' = {k \in kept : k[1] # p}
    BY DEF RemoveAll
  <2> HIDE DEF local, own
  <2>5. disk' = {local(k) : k \in kept'}
    BY <2>1, <2>2, <2>3, <2>4
  <2> QED BY <2>5 DEF DiskIsKept, local
<1> QED BY <1>1, <1>2 DEF DiskInv

\* Requests change neither.
LEMMA DiskStep == DiskInv /\ [Next]_vars => DiskInv'
<1> SUFFICES ASSUME DiskInv, [Next]_vars PROVE DiskInv'
  OBVIOUS
<1>1. ASSUME UNCHANGED <<disk, kept>> PROVE DiskInv'
  BY <1>1 DEF DiskInv, KeptOK, DiskIsKept
<1>2. CASE AskAny
  BY <1>1, <1>2 DEF AskAny, Ask
<1>3. CASE Answered
  BY <1>1, <1>3 DEF Answered
<1>4. CASE UNCHANGED vars
  BY <1>1, <1>4 DEF vars
<1> QED BY <1>2, <1>3, <1>4, DownloadKeeps, RemoveAllKeeps DEF Next

\* Nothing is on disk at first.
LEMMA DiskInit == Init => DiskInv
BY DEF Init, DiskInv, KeptOK, DiskIsKept

\* The tarballs downloaded and not removed are, each under a path of its own,
\* what is on disk.
THEOREM DiskKept == Spec => []DiskIsKept
<1>1. DiskInv => DiskIsKept
  BY DEF DiskInv
<1> QED BY DiskInit, DiskStep, <1>1, PTL DEF Spec

-----------------------------------------------------------------------------
(* The routes                                                              *)

\* A package's own path is answered with its document.
LEMMA RouteOfName ==
  ASSUME NEW p \in Packages, NEW request, NEW vs
  PROVE  Route(p, request, vs) = Document(p)
<1>1. CASE Len(p) = 1
  BY <1>1 DEF Route
<1>2. CASE Len(p) = 2 /\ p = <<p[1], p[2]>> /\ p[1] \in Scopes
  <2>1. Append(<<p[1]>>, p[2]) = p
    BY <1>2
  <2>2. IsScope(<<p[1]>>)
    BY <1>2 DEF IsScope
  <2>3. Route(p, request, vs) = DocumentByVersion(<<p[1]>>, p[2], request, vs)
    BY <1>2 DEF Route
  <2> QED BY <2>1, <2>2, <2>3 DEF DocumentByVersion
<1> QED BY <1>1, <1>2, Names

\* With a label behind it, with the version that the label chooses.
LEMMA RouteOfLabel ==
  ASSUME NEW p \in Packages, NEW request, NEW vs
  PROVE  /\ Append(p, Label) # <<>>
         /\ ByVersion(Append(p, Label))
         /\ Route(Append(p, Label), request, vs)
              = VersionOf(p, Choice(vs, request))
<1> DEFINE S == ToSet(p) \cup {Label}
           u == Append(p, Label)
<1>1. p \in Seq(S) /\ Label \in S
  BY Names
<1> HIDE DEF S
<1>2. /\ u \in Seq(S)
      /\ Len(u) = Len(p) + 1
      /\ \A i \in 1 .. Len(p) : u[i] = p[i]
      /\ u[Len(p) + 1] = Label
  BY <1>1
<1> HIDE DEF u
<1>3. Len(u) > 0 => u # <<>> /\ Last(u) = u[Len(u)] /\ Head(u) = u[1]
  BY <1>2 DEF Last
<1>4. CASE Len(p) = 1 /\ p = <<p[1]>> /\ p[1] \notin Scopes
  <2>1. Len(u) = 2 /\ u[1] = p[1] /\ u[2] = Label
    BY <1>2, <1>4
  <2>2. ~ IsScope(<<u[1]>>)
    BY <1>4, <2>1 DEF IsScope
  <2>3. Route(u, request, vs) = DocumentByVersion(<<u[1]>>, u[2], request, vs)
    BY <2>1 DEF Route
  <2>4. Route(u, request, vs) = VersionOf(p, Choice(vs, request))
    BY <1>4, <2>1, <2>2, <2>3 DEF DocumentByVersion, Resolved
  <2>5. u # <<>> /\ ByVersion(u)
    BY <1>3, <1>4, <2>1 DEF ByVersion
  <2> QED BY <2>4, <2>5 DEF u
<1>5. CASE Len(p) = 2 /\ p = <<p[1], p[2]>> /\ p[1] \in Scopes
  <2>1. Len(u) = 3 /\ u[1] = p[1] /\ u[2] = p[2] /\ u[3] = Label
    BY <1>2, <1>5
  <2>2. IsScope(<<u[1]>>) /\ ~ IsScope(p)
    BY <1>5, <2>1 DEF IsScope
  <2>3. Route(u, request, vs)
          = DocumentByVersion(<<u[1], u[2]>>, u[3], request, vs)
    BY <2>1, <2>2 DEF Route
  <2>4. Route(u, request, vs) = VersionOf(p, Choice(vs, request))
    BY <1>5, <2>1, <2>2, <2>3 DEF DocumentByVersion, Resolved
  <2>5. u # <<>> /\ ByVersion(u)
    BY <1>3, <1>5, <2>1 DEF ByVersion
  <2> QED BY <2>4, <2>5 DEF u
<1> QED BY <1>4, <1>5, Names

\* A path is put together again from its name, a hyphen and its tarball.
LEMMA UrlOfPath ==
  ASSUME NEW S, NEW path \in Seq(S), NEW name \in Seq(S), NEW t \in S,
         Hyphen \in S,
         Len(path) = Len(name) + 2,
         \A i \in 1 .. Len(name) : path[i] = name[i],
         path[Len(name) + 1] = Hyphen,
         path[Len(name) + 2] = t
  PROVE  Url(name, t) = path
<1> DEFINE u == Url(name, t)
<1>1. /\ u \in Seq(S)
      /\ Len(u) = Len(name) + 2
      /\ \A i \in 1 .. Len(name) : u[i] = name[i]
      /\ u[Len(name) + 1] = Hyphen
      /\ u[Len(name) + 2] = t
  BY UrlElements
<1> HIDE DEF u
<1>2. \A i \in 1 .. Len(path) :
        i \in 1 .. Len(name) \/ i = Len(name) + 1 \/ i = Len(name) + 2
  OBVIOUS
<1>3. \A i \in 1 .. Len(path) : u[i] = path[i]
  BY <1>1, <1>2
<1>4. u = path
  BY <1>1, <1>3
<1> QED BY <1>4 DEF u

\* A request is answered with a file only if its own path is one on disk.
LEMMA RouteToFile ==
  ASSUME NEW path \in Paths, NEW request, NEW vs,
         Route(path, request, vs).kind = "file"
  PROVE  /\ LocalPath(path) \in disk
         /\ Route(path, request, vs) = File(LocalPath(path))
<1> DEFINE r == Route(path, request, vs)
           S == Segments \cup {Hyphen}
<1>0. /\ path \in Seq(S)
      /\ Hyphen \in S
      /\ \A i \in 1 .. Len(path) : path[i] \in S
  BY PathsAre
<1> HIDE DEF S
<1>1. \A d : Document(d).kind # "file"
  BY DEF Document
<1>2. \A n, v : VersionOf(n, v).kind # "file"
  BY DEF VersionOf, NotFound
<1>3. \A n, s : DocumentByVersion(n, s, request, vs).kind # "file"
  BY <1>1, <1>2 DEF DocumentByVersion
<1>4. NotFound.kind # "file"
  BY DEF NotFound
<1>5. \/ Len(path) = 3 /\ r = SendFile(<<path[1]>>, path[2], path[3])
      \/ Len(path) = 4 /\ r = SendFile(<<path[1], path[2]>>, path[3], path[4])
  <2>1. Len(path) \in {1, 2, 3, 4}
    BY PathsAre
  <2>2. CASE Len(path) = 1
    BY <1>1, <2>2 DEF Route
  <2>3. CASE Len(path) = 2
    BY <1>3, <2>3 DEF Route
  <2>4. CASE Len(path) = 3 /\ IsScope(<<path[1]>>)
    BY <1>3, <2>4 DEF Route
  <2>5. CASE Len(path) = 3 /\ ~ IsScope(<<path[1]>>)
    BY <2>5 DEF Route
  <2>6. CASE Len(path) = 4
    BY <2>6 DEF Route, FileOfScoped
  <2> QED BY <2>1, <2>2, <2>3, <2>4, <2>5, <2>6
<1>6. \A n, m, t : SendFile(n, m, t).kind = "file" =>
        /\ m = Hyphen
        /\ LocalPath(Url(n, t)) \in disk
        /\ SendFile(n, m, t) = File(LocalPath(Url(n, t)))
  BY <1>4 DEF SendFile
<1>7. r.kind = "file"
  OBVIOUS
<1> HIDE DEF r
<1>8. ASSUME Len(path) = 3, r = SendFile(<<path[1]>>, path[2], path[3])
      PROVE  LocalPath(path) \in disk /\ r = File(LocalPath(path))
  <2>1. path[2] = Hyphen
    BY <1>6, <1>7, <1>8
  <2>2. PICK a, t : a = path[1] /\ t = path[3]
    OBVIOUS
  <2>3. /\ path \in Seq(S) /\ a \in S /\ t \in S /\ Hyphen \in S
        /\ Len(path) = 3
    BY <1>0, <1>8, <2>2
  <2>4. PICK name : name = <<a>>
    OBVIOUS
  <2>5. name \in Seq(S) /\ Len(name) = 1 /\ name[1] = a
    BY <2>3, <2>4
  <2>6. /\ Len(path) = Len(name) + 2
        /\ \A i \in 1 .. Len(name) : path[i] = name[i]
        /\ path[Len(name) + 1] = Hyphen
        /\ path[Len(name) + 2] = t
    BY <2>1, <2>2, <2>3, <2>5
  <2>7. Url(name, t) = path
    BY <2>3, <2>5, <2>6, UrlOfPath
  <2> QED BY <1>6, <1>7, <1>8, <2>2, <2>4, <2>7
<1>9. ASSUME Len(path) = 4,
             r = SendFile(<<path[1], path[2]>>, path[3], path[4])
      PROVE  LocalPath(path) \in disk /\ r = File(LocalPath(path))
  <2>1. path[3] = Hyphen
    BY <1>6, <1>7, <1>9
  <2>2. PICK a, b, t : a = path[1] /\ b = path[2] /\ t = path[4]
    OBVIOUS
  <2>3. /\ path \in Seq(S) /\ a \in S /\ b \in S /\ t \in S /\ Hyphen \in S
        /\ Len(path) = 4
    BY <1>0, <1>9, <2>2
  <2>4. PICK name : name = <<a, b>>
    OBVIOUS
  <2>5. name \in Seq(S) /\ Len(name) = 2 /\ name[1] = a /\ name[2] = b
    BY <2>3, <2>4
  <2>6. /\ Len(path) = Len(name) + 2
        /\ \A i \in 1 .. Len(name) : path[i] = name[i]
        /\ path[Len(name) + 1] = Hyphen
        /\ path[Len(name) + 2] = t
    BY <2>1, <2>2, <2>3, <2>5
  <2>7. Url(name, t) = path
    BY <2>3, <2>5, <2>6, UrlOfPath
  <2> QED BY <1>6, <1>7, <1>9, <2>2, <2>4, <2>7
<1> QED BY <1>5, <1>8, <1>9 DEF r

\* The path of a tarball on disk is answered with it.
LEMMA RouteOfTarball ==
  ASSUME NEW p \in Packages, NEW t \in Tarballs, NEW request, NEW vs,
         LocalPath(Url(p, t)) \in disk
  PROVE  Route(Url(p, t), request, vs).kind = "file"
<1> DEFINE S == ToSet(p) \cup {Hyphen, t}
           u == Url(p, t)
<1>1. p \in Seq(S) /\ Hyphen \in S /\ t \in S
  BY Names
<1> HIDE DEF S
<1>2. /\ u \in Seq(S)
      /\ Len(u) = Len(p) + 2
      /\ \A i \in 1 .. Len(p) : u[i] = p[i]
      /\ u[Len(p) + 1] = Hyphen
      /\ u[Len(p) + 2] = t
  BY <1>1, UrlElements
<1>3. SendFile(p, Hyphen, t).kind = "file"
  BY Names, PathsAssumption DEF SendFile, File
<1> HIDE DEF u
<1>4. CASE Len(p) = 1 /\ p = <<p[1]>> /\ p[1] \notin Scopes
  <2>1. Len(u) = 3 /\ u[1] = p[1] /\ u[2] = Hyphen /\ u[3] = t
    BY <1>2, <1>4
  <2>2. ~ IsScope(<<u[1]>>)
    BY <1>4, <2>1 DEF IsScope
  <2>3. Route(u, request, vs) = SendFile(<<u[1]>>, u[2], u[3])
    BY <2>1, <2>2 DEF Route
  <2> QED BY <1>3, <1>4, <2>1, <2>3 DEF u
<1>5. CASE Len(p) = 2 /\ p = <<p[1], p[2]>>
  <2>1. Len(u) = 4 /\ u[1] = p[1] /\ u[2] = p[2] /\ u[3] = Hyphen /\ u[4] = t
    BY <1>2, <1>5
  <2>2. Route(u, request, vs) = SendFile(<<u[1], u[2]>>, u[3], u[4])
    BY <2>1 DEF Route, FileOfScoped
  <2> QED BY <1>3, <1>5, <2>1, <2>2 DEF u
<1> QED BY <1>4, <1>5, Names

-----------------------------------------------------------------------------
(* Versions as text                                                        *)

\* The digits of a number, one or two.
LEMMA DigitsAre ==
  ASSUME NEW n \in 0 .. 99
  PROVE  /\ Digits(n) \in Seq(0 .. 9)
         /\ n < 10 => Len(Digits(n)) = 1 /\ Digits(n)[1] = n
         /\ n >= 10 =>
              /\ Len(Digits(n)) = 2
              /\ Digits(n)[1] \in 1 .. 9
              /\ n = 10 * Digits(n)[1] + Digits(n)[2]
<1>1. CASE n < 10
  BY <1>1 DEF Digits
<1>2. CASE n >= 10
  <2>1. PICK a \in 1 .. 9, b \in 0 .. 9 : a = n \div 10 /\ b = n % 10 /\ n = 10 * a + b
    BY <1>2
  <2>2. Digits(n) = <<a, b>>
    BY <1>2, <2>1 DEF Digits
  <2>3. <<a, b>> \in Seq(0 .. 9)
    OBVIOUS
  <2>4. Len(<<a, b>>) = 2 /\ <<a, b>>[1] = a /\ <<a, b>>[2] = b
    OBVIOUS
  <2>5. /\ Len(Digits(n)) = 2
        /\ Digits(n)[1] \in 1 .. 9
        /\ n = 10 * Digits(n)[1] + Digits(n)[2]
    BY <2>1, <2>2, <2>4
  <2> QED BY <1>2, <2>2, <2>3, <2>5
<1> QED BY <1>1, <1>2

Characters == -2 .. 9

\* Two texts one behind the other.
LEMMA Joined ==
  ASSUME NEW s \in Seq(Characters), NEW t \in Seq(Characters), NEW r, r = s \o t
  PROVE  /\ r \in Seq(Characters)
         /\ Len(r) = Len(s) + Len(t)
         /\ \A i \in 1 .. Len(s) : r[i] = s[i]
         /\ \A i \in 1 .. Len(t) : r[Len(s) + i] = t[i]
<1>1. /\ r \in Seq(Characters)
      /\ Len(r) = Len(s) + Len(t)
      /\ \A i \in 1 .. Len(s) + Len(t) :
           r[i] = IF i <= Len(s) THEN s[i] ELSE t[i - Len(s)]
  BY ConcatProperties
<1>2. Len(s) \in Nat /\ Len(t) \in Nat
  OBVIOUS
<1>3. \A i \in 1 .. Len(s) : r[i] = s[i]
  BY <1>1, <1>2
<1>4. \A i \in 1 .. Len(t) : r[Len(s) + i] = t[i]
  BY <1>1, <1>2
<1> QED BY <1>1, <1>3, <1>4

\* The text of a version: its first number, and all of it if the numbers are
\* of one digit.
LEMMA TextIs ==
  ASSUME NEW v \in Versions
  PROVE  /\ Text[v] \in Seq(Characters)
         /\ Len(Text[v]) \in 5 .. 8
         /\ v.major \in 0 .. 99 /\ v.minor \in 0 .. 99 /\ v.pre \in BOOLEAN
         /\ \A i \in 1 .. Len(Digits(v.major)) : Text[v][i] = Digits(v.major)[i]
         /\ v.major < 10 => Text[v][2] = Dot
         /\ v.major < 10 /\ v.minor < 10 /\ ~ v.pre =>
              /\ Len(Text[v]) = 5
              /\ Text[v][1] = v.major
              /\ Text[v][3] = v.minor
              /\ Text[v][4] = Dot
              /\ Text[v][5] = 0
<1>1. v.major \in 0 .. 99 /\ v.minor \in 0 .. 99 /\ v.pre \in BOOLEAN
  BY VersionAssumption
<1>2. PICK a : a = Digits(v.major)
  OBVIOUS
<1>3. PICK b : b = <<Dot>>
  OBVIOUS
<1>4. PICK c : c = Digits(v.minor)
  OBVIOUS
<1>5. PICK d : d = <<Dot, 0>>
  OBVIOUS
<1>6. PICK e : e = IF v.pre THEN <<Dash>> ELSE <<>>
  OBVIOUS
<1>7. /\ Digits(v.major) \in Seq(0 .. 9)
      /\ Digits(v.minor) \in Seq(0 .. 9)
  BY <1>1, DigitsAre
<1>8. a \in Seq(Characters) /\ c \in Seq(Characters)
  BY <1>2, <1>4, <1>7 DEF Characters
<1>9. b \in Seq(Characters) /\ d \in Seq(Characters)
  BY <1>3, <1>5 DEF Characters, Dot
<1>10. e \in Seq(Characters)
  <2>1. <<Dash>> \in Seq(Characters) /\ <<>> \in Seq(Characters)
    BY DEF Characters, Dash
  <2> QED BY <1>6, <2>1
<1>11. Len(a) \in 1 .. 2 /\ (v.major < 10 => Len(a) = 1 /\ a[1] = v.major)
  <2>1. /\ v.major < 10 =>
             Len(Digits(v.major)) = 1 /\ Digits(v.major)[1] = v.major
        /\ v.major >= 10 => Len(Digits(v.major)) = 2
    BY <1>1, DigitsAre
  <2> QED BY <1>1, <1>2, <2>1
<1>12. Len(b) = 1 /\ b[1] = Dot
  BY <1>3
<1>13. Len(c) \in 1 .. 2 /\ (v.minor < 10 => Len(c) = 1 /\ c[1] = v.minor)
  <2>1. /\ v.minor < 10 =>
             Len(Digits(v.minor)) = 1 /\ Digits(v.minor)[1] = v.minor
        /\ v.minor >= 10 => Len(Digits(v.minor)) = 2
    BY <1>1, DigitsAre
  <2> QED BY <1>1, <1>4, <2>1
<1>14. Len(d) = 2 /\ d[1] = Dot /\ d[2] = 0
  BY <1>5
<1>15. Len(e) \in 0 .. 1
  <2>1. Len(<<Dash>>) = 1 /\ Len(<<>>) = 0
    OBVIOUS
  <2> QED BY <1>6, <2>1
<1>16. Text[v] = a \o b \o c \o d \o e
  BY <1>2, <1>3, <1>4, <1>5, <1>6 DEF Text
<1>17. PICK ab, abc, abcd, t :
         ab = a \o b /\ abc = ab \o c /\ abcd = abc \o d /\ t = abcd \o e
  OBVIOUS
<1>18. t = Text[v]
  BY <1>16, <1>17
<1>19. /\ ab \in Seq(Characters)
       /\ Len(ab) = Len(a) + Len(b)
       /\ \A i \in 1 .. Len(a) : ab[i] = a[i]
       /\ \A i \in 1 .. Len(b) : ab[Len(a) + i] = b[i]
  BY <1>8, <1>9, <1>17, Joined
<1>20. /\ abc \in Seq(Characters)
       /\ Len(abc) = Len(ab) + Len(c)
       /\ \A i \in 1 .. Len(ab) : abc[i] = ab[i]
       /\ \A i \in 1 .. Len(c) : abc[Len(ab) + i] = c[i]
  <2>1. ab \in Seq(Characters)
    BY <1>19
  <2> QED BY <1>8, <1>17, <2>1, Joined
<1>21. /\ abcd \in Seq(Characters)
       /\ Len(abcd) = Len(abc) + Len(d)
       /\ \A i \in 1 .. Len(abc) : abcd[i] = abc[i]
       /\ \A i \in 1 .. Len(d) : abcd[Len(abc) + i] = d[i]
  <2>1. abc \in Seq(Characters)
    BY <1>20
  <2> QED BY <1>9, <1>17, <2>1, Joined
<1>22. /\ t \in Seq(Characters)
       /\ Len(t) = Len(abcd) + Len(e)
       /\ \A i \in 1 .. Len(abcd) : t[i] = abcd[i]
  <2>1. abcd \in Seq(Characters)
    BY <1>21
  <2> QED BY <1>10, <1>17, <2>1, Joined
<1>23. /\ Len(ab) = Len(a) + 1
       /\ Len(abc) = Len(a) + 1 + Len(c)
       /\ Len(abcd) = Len(a) + 3 + Len(c)
       /\ Len(t) = Len(a) + 3 + Len(c) + Len(e)
  BY <1>11, <1>12, <1>13, <1>14, <1>15, <1>19, <1>20, <1>21, <1>22
<1>24. Len(t) \in 5 .. 8
  <2>1. PICK i \in 1 .. 2, j \in 1 .. 2, k \in 0 .. 1 :
          i = Len(a) /\ j = Len(c) /\ k = Len(e)
    BY <1>11, <1>13, <1>15
  <2>2. Len(t) = i + 3 + j + k
    BY <1>23, <2>1
  <2> QED BY <2>2
<1>25. \A i \in 1 .. Len(ab) : t[i] = ab[i]
  <2> SUFFICES ASSUME NEW i \in 1 .. Len(ab) PROVE t[i] = ab[i]
    OBVIOUS
  <2>1. i \in 1 .. Len(abc) /\ i \in 1 .. Len(abcd)
    BY <1>11, <1>13, <1>23
  <2>2. abc[i] = ab[i]
    BY <1>20
  <2>3. abcd[i] = abc[i]
    BY <1>21, <2>1
  <2>4. t[i] = abcd[i]
    BY <1>22, <2>1
  <2> QED BY <2>2, <2>3, <2>4
<1>26. \A i \in 1 .. Len(a) : t[i] = a[i]
  <2> SUFFICES ASSUME NEW i \in 1 .. Len(a) PROVE t[i] = a[i]
    OBVIOUS
  <2>1. i \in 1 .. Len(ab)
    BY <1>11, <1>23
  <2> QED BY <1>19, <1>25, <2>1
<1>27. t[Len(a) + 1] = Dot
  <2>1. Len(a) + 1 \in 1 .. Len(ab)
    BY <1>11, <1>23
  <2>2. ab[Len(a) + 1] = Dot
    BY <1>12, <1>19
  <2> QED BY <1>25, <2>1, <2>2
<1>28. v.major < 10 => t[2] = Dot
  <2> SUFFICES ASSUME v.major < 10 PROVE t[2] = Dot
    OBVIOUS
  <2>1. Len(a) + 1 = 2
    <3>1. Len(a) = 1
      BY <1>11
    <3> QED BY <3>1
  <2> QED BY <1>27, <2>1
<1>29. ASSUME v.major < 10, v.minor < 10, ~ v.pre
       PROVE  /\ Len(t) = 5
              /\ t[1] = v.major
              /\ t[3] = v.minor
              /\ t[4] = Dot
              /\ t[5] = 0
  <2>1. Len(a) = 1 /\ Len(ab) = 2 /\ Len(c) = 1 /\ Len(abc) = 3 /\ Len(abcd) = 5
    <3>1. Len(a) = 1 /\ Len(c) = 1
      BY <1>11, <1>13, <1>29
    <3> QED BY <1>23, <3>1
  <2>2. e = <<>>
    BY <1>6, <1>29
  <2>3. Len(t) = 5
    <3>1. Len(e) = 0
      BY <2>2
    <3> QED BY <1>23, <2>1, <3>1
  <2>4. t[1] = v.major
    BY <1>1, <1>11, <1>26, <1>29
  <2>5. c[1] = v.minor /\ abc[Len(ab) + 1] = c[1]
    BY <1>1, <1>13, <1>20, <1>29
  <2>6. abcd[3] = abc[3]
    BY <1>21, <2>1
  <2>7. abcd[Len(abc) + 1] = d[1] /\ abcd[Len(abc) + 2] = d[2]
    BY <1>14, <1>21
  <2>8. t[3] = abcd[3] /\ t[4] = abcd[4] /\ t[5] = abcd[5]
    BY <1>22, <2>1
  <2> QED BY <1>14, <2>1, <2>3, <2>4, <2>5, <2>6, <2>7, <2>8
<1> QED BY <1>1, <1>2, <1>18, <1>22, <1>24, <1>26, <1>28, <1>29

-----------------------------------------------------------------------------
(* The latest of some texts                                                *)

\* A text as a number of eight digits to the base 16: its characters from the
\* left, and zeros behind them.
Place(s, i) == IF i \in DOMAIN s THEN s[i] + 3 ELSE 0

Rank(s) ==
  Place(s, 8) + 16 * (Place(s, 7) + 16 * (Place(s, 6) + 16 * (Place(s, 5) + 16 *
    (Place(s, 4) + 16 * (Place(s, 3) + 16 * (Place(s, 2) + 16 * Place(s, 1)))))))

MaxRank ==
  12 + 16 * (12 + 16 * (12 + 16 * (12 + 16 *
    (12 + 16 * (12 + 16 * (12 + 16 * 12))))))

\* Of two texts the one that comes before the other has a smaller digit at the
\* first place at which they differ.
LEMMA BeforeAtPlace ==
  ASSUME NEW s \in Seq(Characters), Len(s) \in 5 .. 8,
         NEW t \in Seq(Characters), Len(t) \in 5 .. 8,
         TextBefore(s, t)
  PROVE  \E i \in 1 .. 8 :
           /\ Place(s, i) < Place(t, i)
           /\ \A j \in 1 .. i - 1 : Place(s, j) = Place(t, j)
<1>1. /\ DOMAIN s = 1 .. Len(s)
      /\ DOMAIN t = 1 .. Len(t)
      /\ \A i \in 1 .. Len(s) : s[i] \in -2 .. 9
      /\ \A i \in 1 .. Len(t) : t[i] \in -2 .. 9
  BY DEF Characters
<1>2. CASE IsStrictPrefix(s, t)
  <2>1. /\ Len(s) <= Len(t)
        /\ \A i \in 1 .. Len(s) : s[i] = t[i]
        /\ s # t
    BY <1>2, PrefixElements DEF IsStrictPrefix
  <2>2. Len(s) < Len(t)
    BY <2>1
  <2>3. Len(s) + 1 \in 1 .. 8
    BY <2>2
  <2>4. Place(s, Len(s) + 1) < Place(t, Len(s) + 1)
    <3>1. Len(s) + 1 \notin DOMAIN s /\ Len(s) + 1 \in DOMAIN t
      BY <1>1, <2>2
    <3>2. t[Len(s) + 1] \in -2 .. 9
      BY <1>1, <3>1
    <3> QED BY <3>1, <3>2 DEF Place
  <2>5. \A j \in 1 .. (Len(s) + 1) - 1 : Place(s, j) = Place(t, j)
    BY <1>1, <2>1, <2>2 DEF Place
  <2> QED BY <2>3, <2>4, <2>5
<1>3. CASE \E i \in DOMAIN s \cap DOMAIN t :
             s[i] < t[i] /\ \A j \in 1 .. i - 1 : s[j] = t[j]
  <2>1. PICK i \in DOMAIN s \cap DOMAIN t :
               s[i] < t[i] /\ \A j \in 1 .. i - 1 : s[j] = t[j]
    BY <1>3
  <2>2. i \in 1 .. 8 /\ i \in 1 .. Len(s) /\ i \in 1 .. Len(t)
    BY <1>1, <2>1
  <2>3. Place(s, i) < Place(t, i)
    <3>1. s[i] \in -2 .. 9 /\ t[i] \in -2 .. 9 /\ s[i] < t[i]
      BY <1>1, <2>1, <2>2
    <3>2. Place(s, i) = s[i] + 3 /\ Place(t, i) = t[i] + 3
      BY <2>1 DEF Place
    <3> QED BY <3>1, <3>2
  <2>4. \A j \in 1 .. i - 1 : Place(s, j) = Place(t, j)
    <3>1. \A j \in 1 .. i - 1 : j \in DOMAIN s /\ j \in DOMAIN t
      BY <1>1, <2>2
    <3> QED BY <2>1, <3>1 DEF Place
  <2> QED BY <2>2, <2>3, <2>4
<1> QED BY <1>2, <1>3 DEF TextBefore

\* The digits, at most 12.
LEMMA PlacesAre ==
  ASSUME NEW s \in Seq(Characters)
  PROVE  \E a1, a2, a3, a4, a5, a6, a7, a8 \in 0 .. 12 :
        /\ a1 = Place(s, 1) /\ a2 = Place(s, 2)
        /\ a3 = Place(s, 3) /\ a4 = Place(s, 4)
        /\ a5 = Place(s, 5) /\ a6 = Place(s, 6)
        /\ a7 = Place(s, 7) /\ a8 = Place(s, 8)
<1>1. \A i \in 1 .. 8 : Place(s, i) \in 0 .. 12
  <2> SUFFICES ASSUME NEW i \in 1 .. 8 PROVE Place(s, i) \in 0 .. 12
    OBVIOUS
  <2>1. CASE i \in DOMAIN s
    <3>1. s[i] \in -2 .. 9
      BY <2>1 DEF Characters
    <3> QED BY <2>1, <3>1 DEF Place
  <2>2. CASE i \notin DOMAIN s
    BY <2>2 DEF Place
  <2> QED BY <2>1, <2>2
<1> USE <1>1
<1> WITNESS Place(s, 1) \in 0 .. 12, Place(s, 2) \in 0 .. 12,
            Place(s, 3) \in 0 .. 12, Place(s, 4) \in 0 .. 12,
            Place(s, 5) \in 0 .. 12, Place(s, 6) \in 0 .. 12,
            Place(s, 7) \in 0 .. 12, Place(s, 8) \in 0 .. 12
<1> QED OBVIOUS

\* A text before another is the smaller number.
LEMMA BeforeByRank ==
  ASSUME NEW s \in Seq(Characters), Len(s) \in 5 .. 8,
         NEW t \in Seq(Characters), Len(t) \in 5 .. 8,
         TextBefore(s, t)
  PROVE  Rank(s) < Rank(t)
<1>1. PICK i \in 1 .. 8 :
        /\ Place(s, i) < Place(t, i)
        /\ \A j \in 1 .. i - 1 : Place(s, j) = Place(t, j)
  BY BeforeAtPlace
<1>2. PICK a1, a2, a3, a4, a5, a6, a7, a8 \in 0 .. 12 :
        /\ a1 = Place(s, 1) /\ a2 = Place(s, 2)
        /\ a3 = Place(s, 3) /\ a4 = Place(s, 4)
        /\ a5 = Place(s, 5) /\ a6 = Place(s, 6)
        /\ a7 = Place(s, 7) /\ a8 = Place(s, 8)
  BY PlacesAre
<1>3. PICK b1, b2, b3, b4, b5, b6, b7, b8 \in 0 .. 12 :
        /\ b1 = Place(t, 1) /\ b2 = Place(t, 2)
        /\ b3 = Place(t, 3) /\ b4 = Place(t, 4)
        /\ b5 = Place(t, 5) /\ b6 = Place(t, 6)
        /\ b7 = Place(t, 7) /\ b8 = Place(t, 8)
  BY PlacesAre
<1>4. Rank(s) = a8 + 16 * (a7 + 16 * (a6 + 16 * (a5 + 16 *
                  (a4 + 16 * (a3 + 16 * (a2 + 16 * a1))))))
  BY <1>2 DEF Rank
<1>5. Rank(t) = b8 + 16 * (b7 + 16 * (b6 + 16 * (b5 + 16 *
                  (b4 + 16 * (b3 + 16 * (b2 + 16 * b1))))))
  BY <1>3 DEF Rank
<1>6. CASE i = 1
  <2>1. a1 < b1
    BY <1>1, <1>2, <1>3, <1>6
  <2> QED BY <1>4, <1>5, <2>1
<1>7. CASE i = 2
  <2>1. a1 = b1 /\ a2 < b2
    BY <1>1, <1>2, <1>3, <1>7
  <2> QED BY <1>4, <1>5, <2>1
<1>8. CASE i = 3
  <2>1. a1 = b1 /\ a2 = b2 /\ a3 < b3
    BY <1>1, <1>2, <1>3, <1>8
  <2> QED BY <1>4, <1>5, <2>1
<1>9. CASE i = 4
  <2>1. a1 = b1 /\ a2 = b2 /\ a3 = b3 /\ a4 < b4
    BY <1>1, <1>2, <1>3, <1>9
  <2> QED BY <1>4, <1>5, <2>1
<1>10. CASE i = 5
  <2>1. a1 = b1 /\ a2 = b2 /\ a3 = b3 /\ a4 = b4 /\ a5 < b5
    BY <1>1, <1>2, <1>3, <1>10
  <2> QED BY <1>4, <1>5, <2>1
<1>11. CASE i = 6
  <2>1. a1 = b1 /\ a2 = b2 /\ a3 = b3 /\ a4 = b4 /\ a5 = b5 /\ a6 < b6
    BY <1>1, <1>2, <1>3, <1>11
  <2> QED BY <1>4, <1>5, <2>1
<1>12. CASE i = 7
  <2>1. /\ a1 = b1 /\ a2 = b2 /\ a3 = b3 /\ a4 = b4 /\ a5 = b5
      /\ a6 = b6 /\ a7 < b7
    BY <1>1, <1>2, <1>3, <1>12
  <2> QED BY <1>4, <1>5, <2>1
<1>13. CASE i = 8
  <2>1. /\ a1 = b1 /\ a2 = b2 /\ a3 = b3 /\ a4 = b4 /\ a5 = b5
      /\ a6 = b6 /\ a7 = b7 /\ a8 < b8
    BY <1>1, <1>2, <1>3, <1>13
  <2> QED BY <1>4, <1>5, <2>1
<1> QED BY <1>6, <1>7, <1>8, <1>9, <1>10, <1>11, <1>12, <1>13

\* It is a number of eight digits.
LEMMA RankIsBounded ==
  ASSUME NEW s \in Seq(Characters)
  PROVE  Rank(s) \in 0 .. MaxRank
<1>1. PICK a1, a2, a3, a4, a5, a6, a7, a8 \in 0 .. 12 :
        /\ a1 = Place(s, 1) /\ a2 = Place(s, 2)
        /\ a3 = Place(s, 3) /\ a4 = Place(s, 4)
        /\ a5 = Place(s, 5) /\ a6 = Place(s, 6)
        /\ a7 = Place(s, 7) /\ a8 = Place(s, 8)
  BY PlacesAre
<1>2. Rank(s) = a8 + 16 * (a7 + 16 * (a6 + 16 * (a5 + 16 *
                  (a4 + 16 * (a3 + 16 * (a2 + 16 * a1))))))
  BY <1>1 DEF Rank
<1>3. Rank(s) >= 0 /\ Rank(s) \in Int
  BY <1>2
<1>4. Rank(s) <= MaxRank /\ MaxRank \in Int
  BY <1>2 DEF MaxRank
<1> QED BY <1>3, <1>4

\* Numbers are well ordered.
LEMMA NatOrder ==
  \E R : IsWellFoundedOn(R, Nat) /\ \A x, y \in Nat : x < y => <<x, y>> \in R
<1> DEFINE R == OpToRel(<, Nat)
<1>1. IsWellFoundedOn(R, Nat)
  BY NatLessThanWellFounded, Zenon
<1>2. \A x, y \in Nat : x < y => <<x, y>> \in R
  BY Zenon DEF OpToRel
<1> HIDE DEF R
<1> QED BY <1>1, <1>2, Zenon

\* Some natural numbers have a least one.
LEMMA LeastNumber ==
  ASSUME NEW T, T \subseteq Nat, T # {}
  PROVE  \E x \in T : \A y \in T : ~ (y < x)
<1>1. PICK R : IsWellFoundedOn(R, Nat) /\ \A x, y \in Nat : x < y => <<x, y>> \in R
  BY NatOrder, Zenon
<1>2. IsWellFoundedOn(R, Nat)
  BY <1>1, Zenon
<1>3. \E x \in T : \A y \in T : ~ (<<y, x>> \in R)
  BY <1>2, WFMin, Zenon
<1> QED BY <1>1, <1>3, Zenon

\* Of some versions there is one whose text no other's comes behind.
LEMMA LastText ==
  ASSUME NEW vs, vs \subseteq Versions, vs # {}
  PROVE  \E v \in vs : \A w \in vs : ~ SortsBefore(v, w)
<1> DEFINE below(v) == MaxRank - Rank(Text[v])
           T == {below(v) : v \in vs}
<1>1. \A v \in vs : Text[v] \in Seq(Characters) /\ Len(Text[v]) \in 5 .. 8
  BY TextIs
<1>2. \A v \in vs : Rank(Text[v]) \in 0 .. MaxRank
  BY <1>1, RankIsBounded
<1>3. \A v \in vs : below(v) \in Nat
  <2>1. MaxRank \in Nat
    BY DEF MaxRank
  <2> QED BY <1>2, <2>1
<1>4. \A v, w \in vs : SortsBefore(v, w) => below(w) < below(v)
  <2> SUFFICES ASSUME NEW v \in vs, NEW w \in vs, SortsBefore(v, w)
               PROVE  below(w) < below(v)
    OBVIOUS
  <2>1. PICK s, t : s = Text[v] /\ t = Text[w]
    OBVIOUS
  <2>2. /\ s \in Seq(Characters) /\ Len(s) \in 5 .. 8
        /\ t \in Seq(Characters) /\ Len(t) \in 5 .. 8
    BY <1>1, <2>1
  <2>3. TextBefore(s, t)
    BY <2>1 DEF SortsBefore
  <2>4. Rank(s) < Rank(t)
    BY <2>2, <2>3, BeforeByRank
  <2>5. MaxRank \in Nat
    BY DEF MaxRank
  <2> QED BY <1>2, <2>1, <2>4, <2>5
<1> HIDE DEF below
<1>5. T \subseteq Nat /\ T # {}
  BY <1>3
<1>6. PICK x \in T : \A y \in T : ~ (y < x)
  BY <1>5, LeastNumber
<1>7. PICK v \in vs : x = below(v)
  BY <1>6
<1>8. \A w \in vs : ~ (below(w) < below(v))
  BY <1>6, <1>7
<1> QED BY <1>4, <1>8

-----------------------------------------------------------------------------
(* The choice of a version                                                 *)

\* A version of the major number that is asked for matches it; one that
\* matches is of that number, or of a later one that begins with it.
LEMMA MatchingMajor ==
  ASSUME NEW v \in Versions, NEW m \in 0 .. 99
  PROVE  /\ v.major = m => Matches(v, Digits(m))
         /\ Matches(v, Digits(m)) => v.major >= m
         /\ Matches(v, Digits(m)) /\ v.major < 10 => v.major = m
<1>1. PICK d, e, t : d = Digits(m) /\ e = Digits(v.major) /\ t = Text[v]
  OBVIOUS
<1>2. v.major \in 0 .. 99
  BY TextIs
<1>3. PICK n \in 0 .. 99 : n = v.major
  BY <1>2
<1>4. /\ t \in Seq(Characters)
      /\ Len(t) \in 5 .. 8
      /\ \A i \in 1 .. Len(e) : t[i] = e[i]
      /\ n < 10 => t[2] = Dot
  BY <1>1, <1>3, TextIs
<1>5. /\ d \in Seq(0 .. 9)
      /\ m < 10 => Len(d) = 1 /\ d[1] = m
      /\ m >= 10 => /\ Len(d) = 2
                    /\ d[1] \in 1 .. 9
                    /\ m = 10 * d[1] + d[2]
  BY <1>1, DigitsAre
<1>6. /\ e \in Seq(0 .. 9)
      /\ n < 10 => Len(e) = 1 /\ e[1] = n
      /\ n >= 10 => /\ Len(e) = 2
                    /\ e[1] \in 1 .. 9
                    /\ n = 10 * e[1] + e[2]
  BY <1>1, <1>3, DigitsAre
<1>7. d \in Seq(Characters)
  BY <1>5 DEF Characters
<1>8. Matches(v, d) <=>
        Len(d) <= Len(t) /\ \A i \in 1 .. Len(d) : d[i] = t[i]
  BY <1>1, <1>4, <1>7, PrefixElements DEF Matches
<1>9. ASSUME n = m PROVE Matches(v, d)
  <2>1. d = e
    BY <1>1, <1>3, <1>9
  <2>2. Len(d) <= 2
    <3>1. CASE m < 10
      <4>1. Len(d) = 1
        BY <1>5, <3>1
      <4> QED BY <4>1
    <3>2. CASE m >= 10
      <4>1. Len(d) = 2
        BY <1>5, <3>2
      <4> QED BY <4>1
    <3> QED BY <3>1, <3>2
  <2> QED BY <1>4, <1>8, <2>1, <2>2
<1>10. ASSUME Matches(v, d) PROVE n = m \/ (n > m /\ n >= 10)
  <2>1. \A i \in 1 .. Len(d) : d[i] = t[i]
    BY <1>8, <1>10
  <2>2. CASE m < 10 /\ n < 10
    <3>1. d[1] = m /\ e[1] = n /\ Len(d) = 1 /\ Len(e) = 1
      BY <1>5, <1>6, <2>2
    <3>2. d[1] = t[1] /\ t[1] = e[1]
      BY <1>4, <2>1, <3>1
    <3>3. n = m
      BY <3>1, <3>2
    <3> QED BY <3>3
  <2>3. CASE m < 10 /\ n >= 10
    BY <2>3
  <2>4. CASE m >= 10 /\ n < 10
    <3>1. Len(d) = 2 /\ t[2] = Dot
      BY <1>4, <1>5, <2>4
    <3>2. d[2] = Dot
      BY <2>1, <3>1
    <3>3. d[2] \in 0 .. 9
      <4>1. d \in Seq(0 .. 9) /\ 2 \in 1 .. Len(d)
        BY <1>5, <3>1
      <4> QED BY <4>1
    <3> QED BY <3>2, <3>3 DEF Dot
  <2>5. CASE m >= 10 /\ n >= 10
    <3>1. Len(d) = 2 /\ Len(e) = 2
      BY <1>5, <1>6, <2>5
    <3>2. d[1] = e[1] /\ d[2] = e[2]
      BY <1>4, <2>1, <3>1
    <3>3. m = 10 * d[1] + d[2] /\ n = 10 * e[1] + e[2]
      BY <1>5, <1>6, <2>5
    <3>4. n = m
      BY <3>2, <3>3
    <3> QED BY <3>4
  <2> QED BY <2>2, <2>3, <2>4, <2>5
<1> QED BY <1>1, <1>3, <1>9, <1>10

\* The first match is one that no other matching version's text comes behind.
LEMMA FirstMatchIs ==
  ASSUME NEW vs, vs \subseteq Versions, NEW major
  PROVE  LET key == Digits(major)
             v == FirstMatch(vs, major)
         IN \/ /\ v = NoVersion
               /\ \A w \in vs : ~ Matches(w, key)
            \/ /\ v \in vs
               /\ Matches(v, key)
               /\ \A w \in vs : Matches(w, key) => ~ SortsBefore(v, w)
<1> DEFINE key == Digits(major)
           matching == {v \in vs : Matches(v, key)}
<1>1. CASE matching = {}
  BY <1>1 DEF FirstMatch
<1>2. CASE matching # {}
  <2>1. matching \subseteq Versions
    OBVIOUS
  <2> DEFINE last(v) == \A w \in matching : ~ SortsBefore(v, w)
  <2>2. \E v \in matching : last(v)
    BY <1>2, <2>1, LastText
  <2>3. FirstMatch(vs, major) = CHOOSE v \in matching : last(v)
    BY <1>2 DEF FirstMatch
  <2> HIDE DEF last
  <2>4. FirstMatch(vs, major) \in matching /\ last(FirstMatch(vs, major))
    BY <2>2, <2>3
  <2> QED BY <2>4 DEF last
<1> QED BY <1>1, <1>2

\* Of two versions of one major number whose texts are as long as each other
\* the one that does not come first is not the older.
LEMMA NotBeforeNotOlder ==
  ASSUME NEW v \in Versions, v.major < 10, v.minor < 10, ~ v.pre,
         NEW w \in Versions, w.major < 10, w.minor < 10, ~ w.pre,
         v.major = w.major, ~ SortsBefore(v, w)
  PROVE  ~ Older(v, w)
<1>1. PICK s, t : s = Text[v] /\ t = Text[w]
  OBVIOUS
<1>2. v.major \in 0 .. 99 /\ v.minor \in 0 .. 99 /\ w.minor \in 0 .. 99
  BY TextIs
<1>3. /\ s \in Seq(Characters)
      /\ Len(s) = 5 /\ s[1] = v.major /\ s[2] = Dot /\ s[3] = v.minor
  BY <1>1, TextIs
<1>4. /\ t \in Seq(Characters)
      /\ Len(t) = 5 /\ t[1] = w.major /\ t[2] = Dot /\ t[3] = w.minor
  BY <1>1, TextIs
<1>5. ~ TextBefore(s, t)
  BY <1>1 DEF SortsBefore
<1>6. ~ (s[3] < t[3])
  <2> SUFFICES ASSUME s[3] < t[3] PROVE FALSE
    OBVIOUS
  <2>1. 3 \in DOMAIN s \cap DOMAIN t
    BY <1>3, <1>4
  <2>2. \A j \in 1 .. 3 - 1 : s[j] = t[j]
    BY <1>3, <1>4
  <2> QED BY <1>5, <2>1, <2>2 DEF TextBefore
<1>7. ~ (v.minor < w.minor)
  BY <1>3, <1>4, <1>6
<1>8. ~ (v.major < w.major)
  BY <1>2
<1> QED BY <1>7, <1>8 DEF Older

-----------------------------------------------------------------------------
(* Requests and their answers                                              *)

\* Between a request and the next there is the answer of its route, on the
\* disk as it is: nothing changes it meanwhile.
Served ==
  IF asked = <<>>
  THEN answer = NotFound
  ELSE /\ asked \in Paths
       /\ answer = Route(asked, wanted, listed)
       /\ ByVersion(asked) => wanted \in VersionRequests /\ listed \in SUBSET Versions

RequestInv == DiskInv /\ Served

\* Nothing is asked at first.
LEMMA RequestInit == Init => RequestInv
BY DiskInit DEF Init, RequestInv, Served

\* Only a request changes what is asked, and it is answered by its route.
LEMMA RequestStep == RequestInv /\ [Next]_vars => RequestInv'
<1> SUFFICES ASSUME RequestInv, [Next]_vars PROVE RequestInv'
  OBVIOUS
<1>1. DiskInv'
  BY DiskStep DEF RequestInv
<1>2. ASSUME asked = <<>>, UNCHANGED query PROVE Served'
  BY <1>2 DEF RequestInv, Served, query
<1>3. ASSUME NEW path \in Paths, NEW request, NEW vs, Ask(path, request, vs),
             ByVersion(path) => request \in VersionRequests /\ vs \in SUBSET Versions
      PROVE  Served'
  <2>1. path # <<>>
    BY PathsAre
  <2>2. answer' = Route(asked, wanted, listed)'
    BY <1>3 DEF Ask, Route, DocumentByVersion, IsScope, FileOfScoped, SendFile
  <2>3. ByVersion(path) = ByVersion(asked)'
    BY <1>3 DEF Ask, ByVersion
  <2> QED BY <1>3, <2>1, <2>2, <2>3 DEF Served, Ask
<1>4. ASSUME AskAny PROVE Served'
  <2>1. PICK path \in Paths :
          IF ByVersion(path)
          THEN \E request \in VersionRequests, vs \in SUBSET Versions :
                 Ask(path, request, vs)
          ELSE Ask(path, Idle, {})
    BY <1>4 DEF AskAny, Paths
  <2> QED BY <1>3, <2>1
<1>5. ASSUME Answered PROVE Served'
  BY <1>5 DEF Answered, Served, NotFound
<1>6. ASSUME UNCHANGED vars PROVE Served'
  <2>1. Route(asked, wanted, listed)' = Route(asked, wanted, listed)
    BY <1>6 DEF vars, query, Route, DocumentByVersion, IsScope, FileOfScoped,
       SendFile
  <2>2. ByVersion(asked)' = ByVersion(asked)
    BY <1>6 DEF vars, query, ByVersion
  <2> QED BY <1>6, <2>1, <2>2 DEF RequestInv, Served, vars, query, NotFound
<1>7. ASSUME \E p \in Packages, t \in Tarballs : Download(p, t) PROVE Served'
  BY <1>2, <1>7 DEF Download
<1>8. ASSUME \E p \in Packages : RemoveAll(p) PROVE Served'
  BY <1>2, <1>8 DEF RemoveAll
<1>9. Served'
  BY <1>4, <1>5, <1>6, <1>7, <1>8 DEF Next
<1> QED BY <1>1, <1>9 DEF RequestInv

\* Every answer given is that of its route, on the disk the workers and the
\* handler leave.
THEOREM RequestInvariance == Spec => []RequestInv
BY RequestInit, RequestStep, PTL DEF Spec

\* A request for a version is answered by the choice among those listed.
LEMMA AnswerIsChoice ==
  ASSUME Served, NEW p \in Packages, asked = Append(p, Label)
  PROVE  /\ wanted \in VersionRequests
         /\ listed \in SUBSET Versions
         /\ answer = VersionOf(p, Choice(listed, wanted))
<1>1. asked # <<>> /\ ByVersion(asked)
  BY RouteOfLabel
<1>2. Route(asked, wanted, listed) = VersionOf(p, Choice(listed, wanted))
  BY RouteOfLabel
<1> QED BY <1>1, <1>2 DEF Served

\* The choice is a version that is listed or none.
LEMMA ChoiceIsListed ==
  ASSUME NEW vs \in SUBSET Versions, NEW request
  PROVE  Choice(vs, request) \in vs \cup {NoVersion}
<1>1. FirstMatch(vs, request.version.major) \in vs \cup {NoVersion}
  BY FirstMatchIs
<1> QED BY <1>1 DEF Choice, Found

\* Each package's path, a version's and a tarball's is answered with what it
\* names, and nothing else with a tarball.
THEOREM RequestsServed == Spec => []RequestsFindTheirs
<1>1. RequestInv => RequestsFindTheirs
  <2> SUFFICES ASSUME RequestInv PROVE RequestsFindTheirs
    OBVIOUS
  <2>1. ASSUME NEW p \in Packages, asked = p PROVE answer = Document(p)
    <3>1. asked # <<>>
      BY <2>1, Names
    <3> QED BY <2>1, <3>1, RouteOfName DEF RequestInv, Served
  <2>2. ASSUME NEW p \in Packages, asked = Append(p, Label)
        PROVE  \/ answer = NotFound
               \/ /\ answer.kind = "version"
                  /\ answer.name = p
                  /\ answer.version \in listed
    <3>1. PICK v : v = Choice(listed, wanted)
      OBVIOUS
    <3>2. /\ listed \in SUBSET Versions
          /\ answer = VersionOf(p, v)
      BY <2>2, <3>1, AnswerIsChoice DEF RequestInv
    <3>3. v \in listed \cup {NoVersion}
      BY <3>1, <3>2, ChoiceIsListed
    <3> QED BY <3>2, <3>3 DEF VersionOf
  <2>3. ASSUME answer.kind = "file"
        PROVE  \E k \in kept : asked = Url(k[1], k[2]) /\ answer.local \in disk
    <3>1. asked # <<>>
      BY <2>3 DEF RequestInv, Served, NotFound
    <3>2. asked \in Paths /\ answer = Route(asked, wanted, listed)
      BY <3>1 DEF RequestInv, Served
    <3>3. LocalPath(asked) \in disk /\ answer = File(LocalPath(asked))
      BY <2>3, <3>2, RouteToFile
    <3>4. PICK k \in kept : LocalPath(asked) = LocalPath(Url(k[1], k[2]))
      BY <3>3 DEF RequestInv, DiskInv, DiskIsKept
    <3>5. k[1] \in Packages
      BY DEF RequestInv, DiskInv, KeptOK
    <3>6. asked = Url(k[1], k[2])
      BY <3>2, <3>4, <3>5, LocalPathTells
    <3>7. answer.local \in disk
      BY <3>3 DEF File
    <3> QED BY <3>6, <3>7
  <2>4. ASSUME NEW k \in kept, asked = Url(k[1], k[2])
        PROVE  answer.kind = "file"
    <3>1. PICK p \in Packages, t \in Tarballs : p = k[1] /\ t = k[2]
      BY DEF RequestInv, DiskInv, KeptOK
    <3>2. LocalPath(Url(p, t)) \in disk
      BY <3>1 DEF RequestInv, DiskInv, DiskIsKept
    <3>3. Url(p, t) # <<>>
      <4> DEFINE S == ToSet(p) \cup {Hyphen, t}
      <4>1. p \in Seq(S) /\ Hyphen \in S /\ t \in S
        BY Names
      <4> HIDE DEF S
      <4> QED BY <4>1, UrlElements
    <3>4. answer = Route(Url(p, t), wanted, listed)
      BY <2>4, <3>1, <3>3 DEF RequestInv, Served
    <3> QED BY <3>2, <3>4, RouteOfTarball
  <2> QED BY <2>1, <2>2, <2>3, <2>4 DEF RequestsFindTheirs
<1> QED BY RequestInvariance, <1>1, PTL

\* A request by number is answered by the first match of that number.
LEMMA AnswerByNumber ==
  ASSUME Served, ByNumber
  PROVE  \E p \in Packages :
           /\ answer = VersionOf(p, FirstMatch(listed, wanted.version.major))
           /\ listed \in SUBSET Versions
           /\ wanted.version \in Versions
<1>1. PICK p \in Packages : asked = Append(p, Label)
  BY DEF ByNumber
<1>2. /\ wanted \in VersionRequests
      /\ listed \in SUBSET Versions
      /\ answer = VersionOf(p, Choice(listed, wanted))
  BY <1>1, AnswerIsChoice
<1>3. Choice(listed, wanted) = FirstMatch(listed, wanted.version.major)
  BY DEF ByNumber, Choice
<1>4. wanted.version \in Versions
  BY <1>2 DEF VersionRequests
<1> QED BY <1>2, <1>3, <1>4

\* The answer to a request by number is of that major version or of one that
\* begins with it, and there is one if any version is of it, whatever the
\* numbers are.
THEOREM MajorServed == Spec => []MajorAtLeast
<1>1. RequestInv => MajorAtLeast
  <2> SUFFICES ASSUME RequestInv, ByNumber
               PROVE  \/ /\ answer.kind = "version"
                         /\ answer.version.major >= wanted.version.major
                      \/ /\ answer = NotFound
                         /\ \A v \in listed : v.major # wanted.version.major
    BY DEF MajorAtLeast
  <2>1. PICK p \in Packages :
           /\ answer = VersionOf(p, FirstMatch(listed, wanted.version.major))
           /\ listed \in SUBSET Versions
           /\ wanted.version \in Versions
    BY AnswerByNumber DEF RequestInv
  <2>2. PICK m \in 0 .. 99 : m = wanted.version.major
    BY <2>1, TextIs
  <2>3. PICK r : r = FirstMatch(listed, m)
    OBVIOUS
  <2>4. \/ /\ r = NoVersion
           /\ \A w \in listed : ~ Matches(w, Digits(m))
        \/ r \in listed /\ Matches(r, Digits(m))
    BY <2>1, <2>3, FirstMatchIs
  <2>5. CASE r = NoVersion /\ \A w \in listed : ~ Matches(w, Digits(m))
    <3>1. answer = NotFound
      BY <2>1, <2>2, <2>3, <2>5 DEF VersionOf
    <3>2. \A v \in listed : v.major # m
      BY <2>1, <2>5, MatchingMajor
    <3> QED BY <2>2, <3>1, <3>2
  <2>6. CASE r \in listed /\ Matches(r, Digits(m))
    <3>1. r \in Versions /\ r # NoVersion
      BY <2>1, <2>6, VersionAssumption
    <3>2. answer.kind = "version" /\ answer.version = r
      BY <2>1, <2>2, <2>3, <3>1 DEF VersionOf
    <3>3. r.major >= m
      BY <2>6, <3>1, MatchingMajor
    <3> QED BY <2>2, <3>2, <3>3
  <2> QED BY <2>4, <2>5, <2>6
<1> QED BY RequestInvariance, <1>1, PTL

\* With numbers of one digit and no prereleases the answer is the newest.
THEOREM NewestServed == Spec => []NewestOfMajor
<1>1. RequestInv => NewestOfMajor
  <2> SUFFICES ASSUME RequestInv, ByNumber,
                      \A u \in listed : u.major < 10 /\ u.minor < 10 /\ ~ u.pre,
                      NEW v \in listed, v.major = wanted.version.major
               PROVE  /\ answer.kind = "version"
                      /\ answer.version.major = v.major
                      /\ ~ Older(answer.version, v)
    BY DEF NewestOfMajor
  <2>1. PICK p \in Packages :
           /\ answer = VersionOf(p, FirstMatch(listed, wanted.version.major))
           /\ listed \in SUBSET Versions
           /\ wanted.version \in Versions
    BY AnswerByNumber DEF RequestInv
  <2>2. PICK m \in 0 .. 99 : m = wanted.version.major /\ m = v.major
    BY <2>1, TextIs
  <2>3. PICK r : r = FirstMatch(listed, m)
    OBVIOUS
  <2>4. v \in Versions /\ Matches(v, Digits(m))
    BY <2>1, <2>2, MatchingMajor
  <2>5. /\ r \in listed
        /\ Matches(r, Digits(m))
        /\ ~ SortsBefore(r, v)
    BY <2>1, <2>3, <2>4, FirstMatchIs
  <2>6. r \in Versions /\ r # NoVersion
    BY <2>1, <2>5, VersionAssumption
  <2>7. r.major < 10 /\ r.minor < 10 /\ ~ r.pre
    BY <2>5
  <2>8. r.major = m
    BY <2>5, <2>6, <2>7, MatchingMajor
  <2>9. ~ Older(r, v)
    BY <2>2, <2>4, <2>5, <2>6, <2>7, <2>8, NotBeforeNotOlder
  <2>10. answer.kind = "version" /\ answer.version = r
    BY <2>1, <2>2, <2>3, <2>6 DEF VersionOf
  <2> QED BY <2>2, <2>8, <2>9, <2>10
<1> QED BY RequestInvariance, <1>1, PTL

=============================================================================
