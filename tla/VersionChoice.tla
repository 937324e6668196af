---------------------------- MODULE VersionChoice ----------------------------
(***************************************************************************)
(* Which version the server answers a request for a version with           *)
(* (npm/server.go: getDocumentByVersion).  Versions are compared as text.  *)
(*                                                                         *)
(* A version is its first two numbers and whether it is a prerelease, as   *)
(* "1.2.0" or "1.2.0-beta": a third number would add to a text what the    *)
(* second does.                                                            *)
(***************************************************************************)
EXTENDS Integers, SequencesExt

CONSTANTS
  Versions,   \* versions a package may have
  NoVersion

ASSUME VersionAssumption ==
  /\ Versions \subseteq [major : 0 .. 99, minor : 0 .. 99, pre : BOOLEAN]
  /\ NoVersion \notin Versions

-----------------------------------------------------------------------------
(* Versions as text: in the order of characters "-" < "." < "0"            *)

Dash == -2
Dot == -1

Digits(n) == IF n < 10 THEN <<n>> ELSE <<n \div 10, n % 10>>

Text ==
  [v \in Versions |->
     Digits(v.major) \o <<Dot>> \o Digits(v.minor) \o <<Dot, 0>>
       \o (IF v.pre THEN <<Dash>> ELSE <<>>)]

TextBefore(s, t) ==
  \/ IsStrictPrefix(s, t)
  \/ \E i \in DOMAIN s \cap DOMAIN t :
       s[i] < t[i] /\ \A j \in 1 .. i - 1 : s[j] = t[j]

-----------------------------------------------------------------------------
(* The choice                                                              *)

Found(vs, v) == IF v \in vs THEN v ELSE NoVersion

\* Mutation: the keys are sorted upwards.
SortsUp(v, w) == TextBefore(Text[w], Text[v])

SortsBefore(v, w) == TextBefore(Text[v], Text[w])

\* Mutation: the number is not looked for.
MatchesAny(v, key) == TRUE

Matches(v, key) == IsPrefix(key, Text[v])

\* The first of the keys, sorted downwards, that begins with the number that
\* the request begins with.
FirstMatch(vs, major) ==
  LET matching == {v \in vs : Matches(v, Digits(major))}
  IN IF matching = {}
     THEN NoVersion
     ELSE CHOOSE v \in matching :
            \A w \in matching : ~ SortsBefore(v, w)

\* A request names a version: by a tag, which stands for it; by "~" or "=" and
\* the version; by the version as it is; by "^" and the version; or by a number
\* alone, that of its major version.
Kinds == {"tag", "equal", "version", "above", "number"}

VersionRequests == [by : Kinds, version : Versions]

\* A tag and "=" take the version or nothing; a version that is not there is
\* looked for as with "^".
Choice(vs, request) ==
  LET v == request.version
  IN IF request.by \in {"tag", "equal"} \/ (request.by = "version" /\ v \in vs)
     THEN Found(vs, v)
     ELSE FirstMatch(vs, v.major)

\* The order of semantic versions.
Older(v, w) ==
  \/ v.major < w.major
  \/ v.major = w.major /\ v.minor < w.minor
  \/ v.major = w.major /\ v.minor = w.minor /\ v.pre /\ ~ w.pre

=============================================================================
