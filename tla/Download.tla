------------------------------ MODULE Download ------------------------------
(***************************************************************************)
(* The download of one tarball (npm/npm.go: Download): the file on disk    *)
(* over any number of calls, of which each may find what another left      *)
(* behind.  Mirror takes a tarball to be on disk or not; this module says  *)
(* what a call makes of a file that is there in part.                      *)
(*                                                                         *)
(* A tarball is a sequence of blocks, each of them of the version the      *)
(* registry served it in.                                                  *)
(***************************************************************************)
EXTENDS Naturals, SequencesExt

CONSTANTS
  Versions,    \* contents the tarball has in turn: a registry may republish it
  Size(_),     \* the number of its blocks in a version
  NoFile,
  MaxBlocks    \* bound on the blocks of a file

ASSUME SizeAssumption == \A v \in Versions : Size(v) \in Nat \ {0}

ASSUME NoFileAssumption == NoFile \notin Seq(Versions)

VARIABLES
  served,       \* registry: the version it serves
  republished,  \* registry: whether it has served another one
  file,         \* disk: the blocks of the file
  misread,      \* disk: whether reading this file has failed before
  step,         \* the call: idle, get or copy
  offset,       \* the call: where in the file the body is copied to
  sent,         \* the call: the version that is being sent
  known,        \* the call: whether its length was announced
  copied,       \* the call: blocks copied so far
  outcome       \* what the last call returned

registry == <<served, republished>>
transfer == <<sent, known, copied>>
reading == <<offset, misread>>
vars == <<registry, file, step, reading, transfer, outcome>>

Content(v) == [i \in 1 .. Size(v) |-> v]

\* A file never has a hole: it grows by one block at its end.
TypeOK ==
  /\ served \in Versions
  /\ republished \in BOOLEAN
  /\ file = NoFile \/ file \in Seq(Versions)
  /\ step \in {"idle", "get", "copy"}
  /\ misread \in BOOLEAN
  /\ offset \in Nat
  /\ step # "idle" => file # NoFile /\ offset <= Len(file)
  /\ sent \in Versions
  /\ known \in BOOLEAN
  /\ copied \in 0 .. Size(sent)
  /\ step = "copy" => offset + copied <= Len(file)
  /\ outcome \in {"none", "true", "false"}

Init ==
  /\ served \in Versions
  /\ republished = FALSE
  /\ file = NoFile
  /\ step = "idle"
  /\ offset = 0 /\ misread = FALSE
  /\ sent = served /\ known = FALSE /\ copied = 0
  /\ outcome = "none"

-----------------------------------------------------------------------------
(* A call                                                                  *)

Return(result) ==
  /\ step' = "idle"
  /\ outcome' = result

\* Mutation: the file is created anew in any case.
Truncated == <<>>

\* A file that is there is opened as it is.
Opened == IF file = NoFile THEN <<>> ELSE file

\* The hash is taken of the file from its beginning to its end, and the
\* position is set back to the beginning.
HasHash(blocks, listed) == blocks = Content(listed)

\* The hash is compared with the one of the document, which may be of another
\* version than the one that is served.
Call(listed) ==
  /\ step = "idle"
  /\ file' = Opened
  /\ offset' = 0
  /\ IF HasHash(file', listed)
     THEN Return("true")
     ELSE step' = "get" /\ outcome' = "none"
  /\ UNCHANGED <<registry, misread, transfer>>

\* Reading the file for its hash fails: hashSHA1 returns before it sets the
\* position back, and the body goes to where the reading stopped.
CallMisreads ==
  /\ step = "idle"
  /\ file # NoFile
  /\ offset' \in 0 .. Len(file)
  /\ \A v \in Versions : offset' + Size(v) <= MaxBlocks
  /\ misread' = TRUE
  /\ step' = "get" /\ outcome' = "none"
  /\ UNCHANGED <<registry, file, transfer>>

\* A request for a stream is made once, whatever maxAttempts says.
GetFails ==
  /\ step = "get"
  /\ Return("false")
  /\ UNCHANGED <<registry, file, reading, transfer>>

Get ==
  /\ step = "get"
  /\ step' = "copy"
  /\ sent' = served
  /\ known' \in BOOLEAN
  /\ copied' = 0
  /\ UNCHANGED <<registry, file, reading, outcome>>

\* The n-th block of the file is written.
WriteBlock(n, v) ==
  IF n <= Len(file) THEN [file EXCEPT ![n] = v] ELSE Append(file, v)

CopyBlock ==
  /\ step = "copy"
  /\ copied < Size(sent)
  /\ file' = WriteBlock(offset + copied + 1, sent)
  /\ copied' = copied + 1
  /\ UNCHANGED <<registry, step, reading, sent, known, outcome>>

\* Mutation: the number of blocks is not looked at.
AnyLength == known

\* An unknown length is -1, which no count equals.
LengthAsAnnounced == known /\ copied = Size(sent)

\* The body ends, the connection is cut, or the disk is full.
Finish ==
  /\ step = "copy"
  /\ Return(IF LengthAsAnnounced THEN "true" ELSE "false")
  /\ UNCHANGED <<registry, file, reading, transfer>>

-----------------------------------------------------------------------------
(* Beside it                                                               *)

\* The process is killed; what was written stays.
Kill ==
  /\ step # "idle"
  /\ Return("none")
  /\ UNCHANGED <<registry, file, reading, transfer>>

\* Mutation: also while the file is being downloaded.
RemoveAnyTime ==
  /\ file # NoFile
  /\ file' = NoFile
  /\ offset' = 0 /\ misread' = FALSE
  /\ outcome' = "none"
  /\ UNCHANGED <<registry, step, transfer>>

\* RemoveAll, when the package is gone: the worker that reports it has ended its
\* downloads.
RemoveFile ==
  /\ step = "idle"
  /\ file # NoFile
  /\ file' = NoFile
  /\ offset' = 0 /\ misread' = FALSE
  /\ outcome' = "none"
  /\ UNCHANGED <<registry, step, transfer>>

Republish ==
  /\ served' \in Versions \ {served}
  /\ republished' = TRUE
  /\ UNCHANGED <<file, step, reading, transfer, outcome>>

Next ==
  \/ \E v \in Versions : Call(v)
  \/ CallMisreads \/ GetFails \/ Get \/ CopyBlock \/ Finish \/ Kill \/ RemoveFile \/ Republish

Spec == Init /\ [][Next]_vars

-----------------------------------------------------------------------------
(* Properties                                                              *)

\* TRUE is returned only of a tarball that is on disk from its first block to
\* its last, whatever earlier calls, kills and cuts have left in the file
\* (npm.go:184-216), and the file begins with it, unless it could not be read
\* in this very call (utils.go:78): then it is whole too, but stands behind what
\* had been read.  The file is nothing but the tarball unless the registry has
\* replaced one, when a longer one is not cut off at its end, or reading the
\* file has failed before.
TrueMeansWhole ==
  outcome = "true" =>
    \E v \in Versions :
      /\ IsPrefix(Content(v), SubSeq(file, offset + 1, Len(file)))
      /\ ~ republished /\ ~ misread => file = Content(v)

\* A tarball that is whole stays whole while it is downloaded again under a
\* hash that does not match, however that ends: the file is opened without
\* truncation and gets the same blocks (npm.go:192).  A call that could not read
\* it and writes further behind is excepted.
WholeStaysWhole ==
  [][LET current == IF step = "copy" THEN sent ELSE served
     IN offset = 0 /\ file = Content(current) => file' \in {file, NoFile}]_vars

=============================================================================
