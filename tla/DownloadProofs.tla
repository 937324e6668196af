--------------------------- MODULE DownloadProofs ---------------------------
(***************************************************************************)
(* Proofs about Download: a call that reports success leaves a tarball     *)
(* that is whole, and a whole one is not damaged by another call, for any  *)
(* versions of any size, and any number of calls, cuts and kills.          *)
(***************************************************************************)
EXTENDS Download, SequenceTheorems, TLAPS

\* A tarball on disk is a sequence of blocks of its version.
LEMMA VersionIsSequence ==
  ASSUME NEW v \in Versions
  PROVE  /\ Content(v) \in Seq(Versions)
         /\ Len(Content(v)) = Size(v)
         /\ \A i \in 1 .. Size(v) : Content(v)[i] = v
BY SizeAssumption DEF Content

-----------------------------------------------------------------------------
(* The file                                                                *)

\* What was copied since the request is of the version that is sent; as long as
\* the registry has replaced nothing, all of the file is of the one it serves,
\* and as long as the file could be read, it is no longer than that.
FileOK ==
  /\ step # "idle" => outcome = "none"
  /\ step = "copy" => \A i \in 1 .. copied : file[offset + i] = sent
  /\ ~ misread => offset = 0
  /\ ~ republished =>
       /\ sent = served
       /\ file # NoFile =>
            /\ ~ misread => Len(file) <= Size(served)
            /\ \A i \in 1 .. Len(file) : file[i] = served

DownloadInv == TypeOK /\ FileOK

\* Nothing is on disk at first.
LEMMA InitDownload == Init => DownloadInv
<1> SUFFICES ASSUME Init PROVE DownloadInv
  OBVIOUS
<1>1. Size(sent) \in Nat /\ 0 \in 0 .. Size(sent)
  BY SizeAssumption DEF Init
<1>2. TypeOK
  BY <1>1 DEF Init, TypeOK
<1>3. FileOK
  BY DEF Init, FileOK
<1> QED BY <1>2, <1>3 DEF DownloadInv

\* A block that is written makes the file no longer than what is sent.
LEMMA Written ==
  ASSUME DownloadInv, CopyBlock
  PROVE  LET n == offset + copied
         IN /\ file' \in Seq(Versions)
            /\ file'[n + 1] = sent
            /\ Len(file') = IF n < Len(file) THEN Len(file) ELSE n + 1
            /\ \A i \in 1 .. Len(file) : i # n + 1 => file'[i] = file[i]
<1> DEFINE n == offset + copied
<1>1. /\ file \in Seq(Versions) /\ sent \in Versions
      /\ n \in Nat /\ n <= Len(file)
      /\ file' = WriteBlock(n + 1, sent)
  BY SizeAssumption DEF DownloadInv, TypeOK, CopyBlock
<1>4. offset + copied = n
  OBVIOUS
<1> HIDE DEF n
<1>2. CASE n < Len(file)
  BY <1>1, <1>2, <1>4 DEF WriteBlock
<1>3. CASE n = Len(file)
  BY <1>1, <1>3, <1>4 DEF WriteBlock
<1> QED BY <1>1, <1>2, <1>3, <1>4, LenProperties

\* Every step keeps the file so.
LEMMA NextDownload ==
  ASSUME DownloadInv, [Next]_vars
  PROVE  DownloadInv'
<1> USE DEF DownloadInv
<1>1. ASSUME NEW v \in Versions, Call(v)
      PROVE  DownloadInv'
  <2>1. /\ file' = Opened
        /\ \/ step' = "idle"
           \/ step' = "get" /\ outcome' = "none"
        /\ outcome' \in {"none", "true"}
        /\ offset' = 0
        /\ UNCHANGED <<registry, misread, transfer>>
    BY <1>1 DEF Call, Return
  <2>2. Opened \in Seq(Versions) /\ Opened # NoFile
    <3>1. <<>> \in Seq(Versions)
      OBVIOUS
    <3>2. Opened \in Seq(Versions)
      BY <3>1, Zenon DEF Opened, TypeOK
    <3> QED BY <3>2, NoFileAssumption
  <2>3. TypeOK'
    BY <2>1, <2>2, LenProperties DEF TypeOK, registry, transfer
  <2>4. \/ Opened = <<>>
        \/ file # NoFile /\ Opened = file
    BY DEF Opened
  <2> QED
    BY <2>1, <2>3, <2>4, SizeAssumption DEF FileOK, TypeOK, registry, transfer
<1>2. CASE GetFails \/ Finish \/ Kill
  BY <1>2 DEF GetFails, Finish, Kill, Return, TypeOK, FileOK, registry, reading,
     transfer
<1>3. CASE Get
  <2>1. 0 \in 0 .. Size(served)
    BY SizeAssumption DEF TypeOK
  <2> QED BY <1>3, <2>1, LenProperties DEF Get, TypeOK, FileOK, registry, reading
<1>4. CASE CopyBlock
  <2>1. /\ step = "copy" /\ copied < Size(sent) /\ copied' = copied + 1
        /\ UNCHANGED <<registry, step, offset, misread, sent, known, outcome>>
    BY <1>4 DEF CopyBlock, reading
  <2>2. /\ sent \in Versions /\ Size(sent) \in Nat
        /\ copied \in Nat /\ offset \in Nat /\ offset + copied <= Len(file)
    BY <2>1, SizeAssumption DEF TypeOK
  <2>3. file' \in Seq(Versions) /\ file' # NoFile
    BY <1>4, Written, NoFileAssumption
  <2>4. TypeOK'
    BY <1>4, <2>1, <2>2, <2>3, Written DEF TypeOK, registry
  <2>5. file \in Seq(Versions) /\ file # NoFile
    BY <2>1 DEF TypeOK
  <2>6. FileOK'
    <3>1. /\ file'[offset + copied + 1] = sent
          /\ Len(file') = IF offset + copied < Len(file)
                          THEN Len(file) ELSE offset + copied + 1
          /\ \A i \in 1 .. Len(file) :
               i # offset + copied + 1 => file'[i] = file[i]
      BY <1>4, Written
    <3>2. Len(file) \in Nat
      BY <2>5, LenProperties
    <3>3. \A i \in 1 .. copied' : file'[offset + i] = sent
      <4>1. \A i \in 1 .. copied : file[offset + i] = sent
        BY <2>1 DEF FileOK
      <4>2. ASSUME NEW i \in 1 .. copied
            PROVE  file'[offset + i] = sent
        <5>1. offset + i \in 1 .. Len(file) /\ offset + i # offset + copied + 1
          BY <2>2, <3>2
        <5>2. file'[offset + i] = file[offset + i]
          BY <3>1, <5>1
        <5> QED BY <4>1, <5>2
      <4> QED BY <2>1, <2>2, <3>1, <4>2
    <3>4. ~ misread => offset = 0
      BY DEF FileOK
    <3>5. ASSUME ~ republished
          PROVE  /\ sent = served
                 /\ ~ misread => Len(file') <= Size(served)
                 /\ \A i \in 1 .. Len(file') : file'[i] = served
      <4>1. /\ sent = served
            /\ ~ misread => Len(file) <= Size(served)
            /\ \A i \in 1 .. Len(file) : file[i] = served
        BY <2>5, <3>5 DEF FileOK
      <4>2. ASSUME NEW i \in 1 .. Len(file')
            PROVE  file'[i] = served
        <5>1. i = offset + copied + 1 \/ i \in 1 .. Len(file)
          BY <2>2, <3>1, <3>2
        <5> QED BY <3>1, <4>1, <5>1
      <4>3. ASSUME ~ misread
            PROVE  Len(file') <= Size(served)
        BY <2>1, <2>2, <3>1, <3>2, <3>4, <4>1, <4>3
      <4> QED BY <4>1, <4>2, <4>3
    <3> QED BY <2>1, <3>3, <3>4, <3>5 DEF FileOK, registry
  <2> QED BY <2>4, <2>6
<1>8. CASE CallMisreads
  BY <1>8, LenProperties DEF CallMisreads, TypeOK, FileOK, registry, transfer
<1>5. CASE RemoveFile
  BY <1>5 DEF RemoveFile, TypeOK, FileOK, registry, transfer
<1>6. CASE Republish
  BY <1>6 DEF Republish, TypeOK, FileOK, reading, transfer
<1>7. CASE UNCHANGED vars
  BY <1>7 DEF vars, TypeOK, FileOK, registry, reading, transfer
<1> QED
  BY <1>1, <1>2, <1>3, <1>4, <1>5, <1>6, <1>7, <1>8 DEF Next

\* The invariant of the file, wherever calls are cut or killed.
LEMMA DownloadInvariance == Spec => []DownloadInv
<1>1. DownloadInv /\ [Next]_vars => DownloadInv'
  BY NextDownload
<1> QED BY InitDownload, <1>1, PTL DEF Spec

\* The file and the state of the call are of their types; a call that is under
\* way has its file, and never writes past its end.
THEOREM DownloadTypeCorrect == Spec => []TypeOK
<1>1. DownloadInv => TypeOK
  BY DEF DownloadInv
<1> QED BY DownloadInvariance, <1>1, PTL

-----------------------------------------------------------------------------
(* What a call returns                                                     *)

\* A file that has all the blocks of a version begins with it.
LEMMA BeginsWith ==
  ASSUME NEW v \in Versions, NEW f \in Seq(Versions), Size(v) <= Len(f),
         \A i \in 1 .. Size(v) : f[i] = v
  PROVE  IsPrefix(Content(v), f)
<1>1. Size(v) \in Nat /\ Len(f) \in Nat
  BY SizeAssumption
<1>2. Len(Content(v)) = Size(v) /\ Content(v) \in Seq(Versions)
  BY VersionIsSequence
<1>3. SubSeq(Content(v), 1, Size(v)) = [i \in 1 .. Size(v) |-> v]
  BY <1>1, <1>2, VersionIsSequence
<1>4. SubSeq(f, 1, Size(v)) = [i \in 1 .. Size(v) |-> v]
  BY <1>1
<1> QED BY <1>2, <1>3, <1>4 DEF IsPrefix

\* The tarball is there, and whole.
Whole ==
  \E v \in Versions :
    /\ IsPrefix(Content(v), SubSeq(file, offset + 1, Len(file)))
    /\ ~ republished /\ ~ misread => file = Content(v)

\* What of a file lies behind its first blocks.
LEMMA Behind ==
  ASSUME NEW f \in Seq(Versions), NEW k \in 0 .. Len(f)
  PROVE  LET rest == SubSeq(f, k + 1, Len(f))
         IN /\ rest \in Seq(Versions) /\ Len(rest) = Len(f) - k
            /\ \A i \in 1 .. Len(f) - k : rest[i] = f[k + i]
            /\ k = 0 => rest = f
<1> DEFINE rest == SubSeq(f, k + 1, Len(f))
<1>1. Len(f) \in Nat
  BY LenProperties
<1>2. rest \in Seq(Versions) /\ Len(rest) = Len(f) - k
  BY <1>1, SubSeqProperties
<1>3. \A i \in 1 .. Len(f) - k : rest[i] = f[k + i]
  BY <1>1
<1>4. ASSUME k = 0
      PROVE  rest = f
  <2>1. f = [i \in 1 .. Len(f) |-> f[i]] /\ rest = [i \in 1 .. Len(rest) |-> rest[i]]
    BY <1>2, LenProperties
  <2> QED BY <1>1, <1>2, <1>3, <1>4, <2>1
<1> QED BY <1>2, <1>3, <1>4

\* A tarball found with its hash is whole (npm.go:198-202).
LEMMA FoundIsWhole ==
  ASSUME DownloadInv, NEW v \in Versions, Call(v), outcome' = "true"
  PROVE  Whole'
<1>1. file' = Content(v) /\ offset' = 0
  BY DEF Call, HasHash
<1>2. Content(v) \in Seq(Versions) /\ Len(Content(v)) = Size(v)
  BY VersionIsSequence
<1>3. IsPrefix(Content(v), Content(v))
  BY <1>2, VersionIsSequence, BeginsWith, SizeAssumption
<1>4. SubSeq(file', offset' + 1, Len(file')) = file'
  <2>1. 0 \in 0 .. Len(Content(v))
    BY <1>2, LenProperties
  <2>2. SubSeq(Content(v), 0 + 1, Len(Content(v))) = Content(v)
    BY <1>2, <2>1, Behind
  <2> QED BY <1>1, <2>2
<1>5. IsPrefix(Content(v), SubSeq(file', offset' + 1, Len(file')))
  BY <1>1, <1>3, <1>4
<1> QED BY <1>1, <1>5 DEF Whole

\* A transfer that is as long as announced leaves a whole tarball (npm.go:212-214).
LEMMA FinishedIsWhole ==
  ASSUME DownloadInv, Finish, outcome' = "true"
  PROVE  Whole'
<1> USE DEF DownloadInv
<1>1. /\ step = "copy" /\ copied = Size(sent)
      /\ UNCHANGED <<registry, reading, file>>
  BY DEF Finish, Return, LengthAsAnnounced
<1>2. /\ sent \in Versions /\ file \in Seq(Versions) /\ file # NoFile
      /\ Size(sent) \in Nat /\ offset \in Nat
      /\ offset + Size(sent) <= Len(file)
      /\ \A i \in 1 .. Size(sent) : file[offset + i] = sent
  BY <1>1, SizeAssumption DEF TypeOK, FileOK
<1>3. IsPrefix(Content(sent), SubSeq(file, offset + 1, Len(file)))
  <2> DEFINE rest == SubSeq(file, offset + 1, Len(file))
  <2>1. offset \in 0 .. Len(file) /\ Len(file) \in Nat
    BY <1>2, LenProperties
  <2>2. /\ rest \in Seq(Versions) /\ Len(rest) = Len(file) - offset
        /\ \A i \in 1 .. Len(file) - offset : rest[i] = file[offset + i]
    BY <1>2, <2>1, Behind
  <2>3. Size(sent) <= Len(rest) /\ \A i \in 1 .. Size(sent) : rest[i] = sent
    BY <1>2, <2>1, <2>2
  <2> HIDE DEF rest
  <2>4. IsPrefix(Content(sent), rest)
    BY <1>2, <2>2, <2>3, BeginsWith
  <2> QED BY <2>4 DEF rest
<1>4. ASSUME ~ republished, ~ misread
      PROVE  file = Content(sent)
  <2>1. Len(file) = Size(sent) /\ offset = 0
    BY <1>2, <1>4, LenProperties DEF FileOK
  <2>2. file = [i \in 1 .. Size(sent) |-> sent]
    BY <1>2, <2>1
  <2> QED BY <2>2 DEF Content
<1> QED BY <1>1, <1>2, <1>3, <1>4 DEF Whole, registry, reading

\* Success is reported of a tarball that is on disk as a whole (npm.go:184-216),
\* whatever earlier calls, kills and cuts have left in the file.
THEOREM SuccessMeansWhole == Spec => []TrueMeansWhole
<1> DEFINE Reported == outcome = "true" => Whole
<1>1. Init => Reported
  BY DEF Init
<1>2. DownloadInv /\ Reported /\ [Next]_vars => Reported'
  <2> SUFFICES ASSUME DownloadInv, Reported, [Next]_vars, outcome' = "true"
               PROVE  Whole'
    OBVIOUS
  <2>1. ASSUME NEW v \in Versions, Call(v)
        PROVE  Whole'
    BY <2>1, FoundIsWhole
  <2>2. CASE Finish
    BY <2>2, FinishedIsWhole
  <2>3. CASE GetFails \/ Kill \/ RemoveFile
    BY <2>3 DEF GetFails, Kill, RemoveFile, Return
  <2>4. CASE Get \/ CopyBlock \/ CallMisreads
    BY <2>4 DEF Get, CopyBlock, CallMisreads, DownloadInv, FileOK
  <2>5. CASE Republish \/ UNCHANGED vars
    BY <2>5 DEF Republish, vars, registry, reading, Whole
  <2> QED BY <2>1, <2>2, <2>3, <2>4, <2>5 DEF Next
<1>3. Reported <=> TrueMeansWhole
  BY DEF Whole, TrueMeansWhole
<1> QED BY DownloadInvariance, <1>1, <1>2, <1>3, PTL DEF Spec

\* Another call leaves a whole tarball whole (npm.go:192), wherever it is cut or
\* killed, although it writes into the file from its beginning.
THEOREM WholeIsKept == Spec => WholeStaysWhole
<1> DEFINE current == IF step = "copy" THEN sent ELSE served
<1>1. ASSUME DownloadInv, [Next]_vars, offset = 0, file = Content(current)
      PROVE  file' \in {file, NoFile}
  <2> USE DEF DownloadInv
  <2>1. current \in Versions
    BY <1>1 DEF TypeOK
  <2>2. file \in Seq(Versions) /\ file # NoFile
    BY <1>1, <2>1, VersionIsSequence, NoFileAssumption
  <2>3. ASSUME NEW v \in Versions, Call(v)
        PROVE  file' = file
    BY <2>2, <2>3 DEF Call, Opened
  <2>4. CASE CopyBlock
    <3>1. step = "copy" /\ copied < Size(sent) /\ file' = WriteBlock(copied + 1, sent)
      BY <1>1, <2>4, SizeAssumption DEF CopyBlock, TypeOK
    <3>2. sent \in Versions /\ copied \in Nat /\ Size(sent) \in Nat
      BY <1>1, SizeAssumption DEF TypeOK
    <3>3. Len(file) = Size(sent) /\ file[copied + 1] = sent
      BY <1>1, <3>1, <3>2, VersionIsSequence
    <3>4. file' = [file EXCEPT ![copied + 1] = sent]
      BY <3>1, <3>2, <3>3 DEF WriteBlock
    <3> QED BY <2>2, <3>3, <3>4
  <2>5. CASE GetFails \/ Get \/ Finish \/ Kill \/ Republish \/ CallMisreads
               \/ UNCHANGED vars
    BY <2>5 DEF GetFails, Get, Finish, Kill, Republish, CallMisreads, vars
  <2>6. CASE RemoveFile
    BY <2>6 DEF RemoveFile
  <2> QED BY <1>1, <2>3, <2>4, <2>5, <2>6 DEF Next
<1>2. DownloadInv /\ [Next]_vars =>
        [LET kept == IF step = "copy" THEN sent ELSE served
         IN offset = 0 /\ file = Content(kept) => file' \in {file, NoFile}]_vars
  BY <1>1
<1> QED BY DownloadInvariance, <1>2, PTL DEF Spec, WholeStaysWhole

=============================================================================
