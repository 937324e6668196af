--------------------------- MODULE SequenceProofs ---------------------------
(***************************************************************************)
(* Proofs about Mirror and its sequence: no change that the stored         *)
(* sequence has gone past is lost, as long as sequences that are set are   *)
(* saved; one of a package that exists is followed or shows even when they *)
(* are not; neither the sequence nor a revision goes back; and a mirror    *)
(* that has caught up holds exactly what the registry serves.              *)
(***************************************************************************)
EXTENDS ChangeProofs

-----------------------------------------------------------------------------
(* The sequences                                                           *)

\* The stored sequence never passes the registry's, and a process that has read
\* it goes on from the one that is stored.
SequenceInv ==
  /\ seq <= sequence
  /\ sequence <= upSeq
  /\ ~ initialized => sequence = 0 /\ pc \in {"down", "initialize"}
  /\ pc \notin {"down", "initialize", "stats"} => cachedSeq = sequence
  /\ pc = "allDocs" => sequence = 0
  /\ pc \in {"put", "setSequence"} => sequence <= lastSeq /\ lastSeq <= upSeq

\* Registry, database and process start at zero.
LEMMA InitSequence == Init => SequenceInv
BY Constants DEF Init, StoreInit, SequenceInv

\* Every step keeps the sequences in order.
LEMMA NextSequence ==
  ASSUME Inv, SequenceInv, [Next]_vars, "sequence" \notin FaultKinds
  PROVE  SequenceInv'
<1> USE DEF SequenceInv
<1>1. /\ sequence \in Nat /\ upSeq \in Nat /\ seq \in Nat
      /\ lastSeq \in 0 .. MaxSeq /\ cachedSeq \in Nat
  BY Constants DEF Inv, TypeInv, TypeOK, StoreTypeOK
<1>2. ASSUME NEW p \in Names, NEW delete \in BOOLEAN, Change(p, delete)
      PROVE  SequenceInv'
  BY <1>1, <1>2 DEF Change, storeVars, memory, pending
<1>3. CASE Restart
  BY <1>3 DEF Restart, registry, storeVars, memory, pending
<1>4. CASE Initialize
  BY <1>1, <1>4
  DEF Initialize, InitBuckets, IsInitialized, registry, storeVars, memory,
      pending
<1>5. CASE LoadStats
  BY <1>1, <1>5 DEF LoadStats, registry, storeVars, pending
<1>6. CASE GetAllDocs
  BY <1>1, <1>6 DEF GetAllDocs, registry, storeVars, memory
<1>7. CASE LoadMarks
  BY <1>7 DEF LoadMarks, registry, storeVars, pending
<1>8. CASE Gate
  BY <1>8 DEF Gate, GetSequence, registry, storeVars, pending
<1>9. CASE UpToDate
  BY <1>9 DEF UpToDate, GetSequence, registry, storeVars, pending
<1>10. CASE Poll
  BY <1>1, <1>10 DEF Poll, GetSequence, registry, storeVars
<1>11. CASE PutBatch
  BY <1>11 DEF PutBatch, PutPackages, registry, memory
<1>12. CASE SaveSequence
  <2>1. sequence' = lastSeq
    BY <1>1, <1>12, SequenceFits DEF SaveSequence, SetSequence
  <2>2. pc = "setSequence" /\ pc' = "start" /\ cachedSeq' = lastSeq
    BY <1>12 DEF SaveSequence
  <2>3. initialized' = initialized
    BY <1>12 DEF SaveSequence, SetSequence
  <2>4. seq' = seq /\ upSeq' = upSeq
    BY <1>12 DEF SaveSequence, registry
  <2> QED BY <1>1, <2>1, <2>2, <2>3, <2>4
<1>13. CASE StartRound \/ EndRound
  BY <1>13 DEF StartRound, EndRound, registry, storeVars, memory, pending
<1>14. ASSUME NEW p \in Names, Job(p)
       PROVE  SequenceInv'
  <2>1. UNCHANGED <<registry, initialized, sequence, pc, memory, pending>>
    BY <1>14
    DEF Job, GetDocument, Download, WriteCompleted, RemoveFiles, DropPackage,
        PutCompleted, PutCompletedPartly, DeletePackage, storeVars
  <2> QED BY <2>1 DEF registry, memory, pending
<1>15. CASE Die
  BY <1>1, <1>15 DEF Die, registry, storeVars
<1>16. CASE UNCHANGED vars
  BY <1>16 DEF vars, registry, storeVars, memory, pending
<1> QED
  BY <1>2, <1>3, <1>4, <1>5, <1>6, <1>7, <1>8, <1>9, <1>10, <1>11, <1>12, <1>13,
     <1>14, <1>15, <1>16
  DEF Next, Registry, Process, Fault, OneTime, Blocked, Crash, AllDocsFails,
      CommitFails, ChangesFail

-----------------------------------------------------------------------------
(* The changes                                                             *)

\* What the database says of p is no older than the last change of p, or shows
\* that it may be.
Followed(p) == marks[p] = MarkIncomplete \/ Mirrored(p) \/ FetchFailed(p)

Covered(p, s) == up[p].seq \in 1 .. s => Followed(p)

\* A database that has no sequence yet has completed nothing, so that a package
\* which the first run does not list is still incomplete or not there at all.
FirstRunOK(p) ==
  /\ marks[p] # Absent => up[p].seq >= 1
  /\ batch[p] # Absent => up[p].seq >= 1
  /\ sequence = 0 => marks[p] # MarkComplete
  /\ pc = "put" /\ lastSeq = 0 => batch[p] = Absent
  /\ \/ pc \in {"put", "setSequence"} /\ lastSeq = 0
     \/ pc \in {"start", "round"} /\ sequence = 0
     => marks[p] = Absent

\* What is under way when the registry changes is made up for by the next poll.
ChangeOK(p) ==
  /\ FirstRunOK(p)
  /\ Covered(p, sequence)
  /\ pc = "put" => batch[p] # Absent \/ Covered(p, lastSeq)
  /\ pc = "setSequence" => Covered(p, lastSeq)
  /\ at[p] \in {"fetched", "ready"} /\ fetched[p] \in Nat \ {0} =>
       fetched[p] = up[p].rev \/ up[p].seq > sequence
  /\ at[p] = "fetched" /\ fetched[p] = NotFound =>
       up[p].deleted \/ up[p].seq > sequence
  /\ at[p] = "removed" => up[p].deleted \/ up[p].seq > sequence

ChangeInv == \A p \in Names : ChangeOK(p)

AllInv == Inv /\ DocumentInv /\ SequenceInv /\ ChangeInv

\* The types that the sequences and the revisions need.
LEMMA Numbers ==
  ASSUME Inv
  PROVE  /\ sequence \in Nat /\ upSeq \in Nat /\ lastSeq \in Nat /\ seq \in Nat
         /\ \A p \in Names : up[p].seq \in Nat /\ up[p].rev \in Nat
BY Constants DEF Inv, TypeInv, TypeOK, StoreTypeOK

\* No package has changed before the first start.
LEMMA InitChanges == Init => ChangeInv
BY Constants
DEF Init, StoreInit, NoBatch, ChangeInv, ChangeOK, FirstRunOK, Covered

\* A step that leaves registry, database, batch and round alone, and goes on to
\* neither a put nor a round, keeps the changes.
LEMMA QuietChanges ==
  ASSUME ChangeInv, UNCHANGED <<registry, sequence, buckets, pending, round>>,
         pc' = pc \/ pc' \notin {"put", "setSequence", "start", "round"}
  PROVE  ChangeInv'
BY DEF ChangeInv, ChangeOK, FirstRunOK, Covered, Followed, Mirrored,
   FetchFailed, registry, buckets, pending, round

\* A change is later than every sequence the mirror knows of.
LEMMA ChangeChanges ==
  ASSUME AllInv, NEW p \in Names, NEW delete \in BOOLEAN, Change(p, delete)
  PROVE  ChangeInv'
<1> SUFFICES ASSUME NEW q \in Names PROVE ChangeOK(q)'
  BY DEF ChangeInv
<1>1. UNCHANGED <<sequence, buckets, pc, pending, round>>
  BY DEF Change, storeVars
<1>2. CASE q # p
  <2>1. up'[q] = up[q]
    BY <1>2 DEF Change, AllInv, Inv, TypeInv, TypeOK
  <2> QED
    BY <1>1, <2>1
    DEF AllInv, ChangeInv, ChangeOK, FirstRunOK, Covered, Followed, Mirrored,
        FetchFailed, buckets, pending, round
<1>3. CASE q = p
  <2>1. up'[q].seq = upSeq + 1
    BY <1>3 DEF Change, AllInv, Inv, TypeInv, TypeOK
  <2>2. /\ up'[q].seq > sequence
        /\ up'[q].seq >= 1
        /\ pc \in {"put", "setSequence"} => up'[q].seq > lastSeq
    BY <2>1, Numbers DEF AllInv, SequenceInv
  <2>3. Covered(q, sequence)' /\ FirstRunOK(q)'
    BY <1>1, <2>2, Numbers
    DEF AllInv, ChangeInv, ChangeOK, FirstRunOK, Covered, buckets, pending
  <2>4. pc \in {"put", "setSequence"} => Covered(q, lastSeq)'
    BY <1>1, <2>2, Numbers DEF AllInv, Covered, pending
  <2> QED BY <1>1, <2>2, <2>3, <2>4 DEF ChangeOK
<1> QED BY <1>2, <1>3

\* The database of a process that ends is as it was.
LEMMA DieChanges ==
  ASSUME ChangeInv, Die
  PROVE  ChangeInv'
BY DEF ChangeInv, ChangeOK, FirstRunOK, Covered, Followed, Mirrored,
   FetchFailed, Die, NoBatch, registry, storeVars, buckets

\* Continue mode starts a round only once there is a sequence.
LEMMA LoadMarksChanges ==
  ASSUME AllInv, LoadMarks
  PROVE  ChangeInv'
<1>1. UNCHANGED <<registry, sequence, buckets, pending, round>>
  BY DEF LoadMarks, storeVars
<1>2. CASE pc' = "gate"
  BY <1>1, <1>2, QuietChanges DEF AllInv
<1>3. CASE pc' = "start"
  <2>1. sequence # 0
    BY <1>3, Numbers DEF LoadMarks, Resume, AllInv, SequenceInv
  <2> QED
    BY <1>1, <1>3, <2>1
    DEF AllInv, ChangeInv, ChangeOK, FirstRunOK, Covered, Followed, Mirrored,
        FetchFailed, registry, buckets, pending, round
<1> QED BY <1>2, <1>3 DEF LoadMarks

\* The first run lists what exists; what does not is not in the database, or
\* still incomplete in it.
LEMMA GetAllDocsChanges ==
  ASSUME AllInv, GetAllDocs
  PROVE  ChangeInv'
<1> SUFFICES ASSUME NEW p \in Names PROVE ChangeOK(p)'
  BY DEF ChangeInv
<1>1. /\ UNCHANGED <<registry, sequence, buckets, round>>
      /\ pc' = "put" /\ lastSeq' = upSeq /\ sequence = 0
      /\ batch'[p] = IF up[p].deleted THEN Absent ELSE up[p].rev
  BY DEF GetAllDocs, storeVars, AllInv, SequenceInv
<1>2. /\ ~ up[p].deleted => up[p].seq >= 1 /\ up[p].rev # Absent
      /\ up[p].seq <= upSeq
  BY Numbers, Constants DEF AllInv, DocumentInv, DocumentOK
<1>3. marks[p] \in {MarkIncomplete, Absent}
  BY <1>1 DEF AllInv, Inv, TypeInv, TypeOK, StoreTypeOK, ChangeInv, ChangeOK,
     FirstRunOK
<1>4. up[p].deleted => Followed(p)
  BY <1>3 DEF AllInv, Inv, Kept, KeysAgree, Followed, Mirrored
<1>5. FirstRunOK(p)'
  BY <1>1, <1>2, <1>3, Numbers
  DEF AllInv, ChangeInv, ChangeOK, FirstRunOK, registry, buckets
<1>6. batch'[p] # Absent \/ Covered(p, upSeq)'
  BY <1>1, <1>2, <1>4
  DEF Covered, Followed, Mirrored, FetchFailed, registry, buckets
<1> QED
  BY <1>1, <1>5, <1>6
  DEF AllInv, ChangeInv, ChangeOK, Covered, Followed, Mirrored, FetchFailed,
      registry, buckets, round

\* A package whose revision is that of the registry is complete with it, or
\* still incomplete.
LEMMA UpToDateFollowed ==
  ASSUME Inv, DocumentInv, NEW p \in Names, ~ Outdated(p)
  PROVE  Followed(p)
<1>1. packages[p] = up[p].rev /\ up[p].rev # 0 /\ packages[p] # Absent
  BY Numbers, Constants DEF Outdated, GetRevision
<1>2. CASE marks[p] = MarkComplete
  BY <1>1, <1>2, Numbers
  DEF DocumentInv, DocumentOK, Recorded, FetchFailed, ServedOnce, Followed,
      Mirrored
<1>3. marks[p] \in {MarkComplete, MarkIncomplete}
  BY <1>1 DEF Inv, Kept, KeysAgree, TypeInv, TypeOK, StoreTypeOK
<1> QED BY <1>2, <1>3 DEF Followed

\* A poll takes up every change since the stored sequence, but for those whose
\* revision the database has already.
LEMMA PollChanges ==
  ASSUME AllInv, Poll
  PROVE  ChangeInv'
<1> SUFFICES ASSUME NEW p \in Names PROVE ChangeOK(p)'
  BY DEF ChangeInv
<1>1. /\ UNCHANGED <<registry, sequence, buckets, round>>
      /\ pc' = "put" /\ lastSeq' = upSeq
      /\ sequence # upSeq
      /\ batch'[p] = IF up[p].seq > sequence /\ Outdated(p)
                     THEN up[p].rev ELSE Absent
  BY DEF Poll, GetSequence, storeVars, AllInv, SequenceInv
<1>2. upSeq >= 1 /\ sequence >= 0 /\ up[p].seq <= upSeq /\ up[p].rev # Absent
  BY <1>1, Numbers, Constants DEF AllInv, SequenceInv, DocumentInv, DocumentOK
<1>3. ~ Outdated(p) => Followed(p)
  BY UpToDateFollowed DEF AllInv
<1>4. batch'[p] # Absent \/ Covered(p, upSeq)
  BY <1>1, <1>2, <1>3, Numbers DEF AllInv, ChangeInv, ChangeOK, Covered
<1>5. FirstRunOK(p)'
  BY <1>1, <1>2, Numbers
  DEF AllInv, ChangeInv, ChangeOK, FirstRunOK, registry, buckets
<1> QED
  BY <1>1, <1>4, <1>5
  DEF AllInv, ChangeInv, ChangeOK, Covered, Followed, Mirrored, FetchFailed,
      registry, buckets, round

\* What is put is incomplete, and so followed.
LEMMA PutBatchChanges ==
  ASSUME AllInv, PutBatch
  PROVE  ChangeInv'
<1> SUFFICES ASSUME NEW p \in Names PROVE ChangeOK(p)'
  BY DEF ChangeInv
<1>1. /\ UNCHANGED <<registry, sequence, documents, lastSeq, round>>
      /\ pc = "put" /\ pc' = "setSequence" /\ batch'[p] = Absent
  BY DEF PutBatch, PutPackages, NoBatch
<1>2. CASE batch[p] = Absent
  <2>1. packages'[p] = packages[p] /\ marks'[p] = marks[p]
    BY <1>2 DEF PutBatch, PutPackages
  <2> QED
    BY <1>1, <1>2, <2>1
    DEF AllInv, ChangeInv, ChangeOK, FirstRunOK, Covered, Followed, Mirrored,
        FetchFailed, registry, round
<1>3. CASE batch[p] # Absent
  <2>1. marks'[p] = MarkIncomplete
    BY <1>3 DEF PutBatch, PutPackages
  <2> QED
    BY <1>1, <1>3, <2>1, Constants
    DEF AllInv, ChangeInv, ChangeOK, FirstRunOK, Covered, Followed, registry,
        round
<1> QED BY <1>2, <1>3

\* The sequence is saved once every change up to it is followed.
LEMMA SaveSequenceChanges ==
  ASSUME AllInv, SaveSequence, "sequence" \notin FaultKinds
  PROVE  ChangeInv'
<1> SUFFICES ASSUME NEW p \in Names PROVE ChangeOK(p)'
  BY DEF ChangeInv
<1>1. lastSeq \in 0 .. MaxSeq
  BY DEF AllInv, Inv, TypeInv, TypeOK
<1>2. /\ UNCHANGED <<registry, buckets, batch, round>>
      /\ pc = "setSequence" /\ pc' = "start"
      /\ sequence' = lastSeq
  BY <1>1, SequenceFits DEF SaveSequence, SetSequence
<1>3. at[p] = "idle"
  BY <1>2, OutsideRound DEF AllInv, Inv, Kept
<1> QED
  BY <1>2, <1>3, Constants
  DEF AllInv, ChangeInv, ChangeOK, FirstRunOK, Covered, Followed, Mirrored,
      FetchFailed, registry, buckets, round

\* A round starts with nothing fetched.
LEMMA StartRoundChanges ==
  ASSUME AllInv, StartRound
  PROVE  ChangeInv'
BY DEF StartRound, AllInv, ChangeInv, ChangeOK, FirstRunOK, Covered, Followed,
   Mirrored, FetchFailed, registry, storeVars, buckets, pending

\* The answer is what the registry has at that moment.
LEMMA GetDocumentChanges ==
  ASSUME AllInv, NEW p \in Names, GetDocument(p)
  PROVE  ChangeInv'
<1>1. /\ fetched'[p] = NotFound => up[p].deleted
      /\ fetched'[p] \in Nat \ {0} => fetched'[p] = up[p].rev
      /\ at'[p] = "fetched"
  BY Constants, Numbers
  DEF AllInv, Inv, TypeInv, TypeOK, GetDocument, Answers
<1>2. \A q \in Names \ {p} : fetched'[q] = fetched[q] /\ at'[q] = at[q]
  BY DEF AllInv, Inv, TypeInv, TypeOK, GetDocument
<1> QED
  BY <1>1, <1>2
  DEF GetDocument, AllInv, ChangeInv, ChangeOK, FirstRunOK, Covered, Followed,
      Mirrored, FetchFailed, registry, storeVars, buckets, pending

\* Files are no concern of the changes.
LEMMA FileStepChanges ==
  ASSUME AllInv, NEW p \in Names, Download(p) \/ RemoveFiles(p)
  PROVE  ChangeInv'
BY DEF Download, RemoveFiles, Gone, AllInv, Inv, TypeInv, TypeOK, ChangeInv,
   ChangeOK, FirstRunOK, Covered, Followed, Mirrored, FetchFailed, registry,
   storeVars, buckets, pending

\* In a round, a package that is under way is incomplete and the database has a
\* sequence.
LEMMA SequenceInRound ==
  ASSUME AllInv, NEW p \in Names, at[p] # "idle"
  PROVE  pc = "round" /\ marks[p] = MarkIncomplete /\ sequence # 0
BY Constants
DEF AllInv, Inv, Kept, RoundKept, ChangeInv, ChangeOK, FirstRunOK

\* A package that settles with what was fetched has followed its last change, or
\* that change is later than the sequence.
LEMMA WriteCompletedChanges ==
  ASSUME AllInv, NEW p \in Names, WriteCompleted(p)
  PROVE  ChangeInv'
<1> DEFINE revision == RevisionOf(fetched[p])
<1> SUFFICES ASSUME NEW q \in Names PROVE ChangeOK(q)'
  BY DEF ChangeInv
<1> USE DEF AllInv, Inv, TypeInv, TypeOK, StoreTypeOK
<1>1. /\ at[p] = "ready" /\ packages[p] = queuedRev[p]
      /\ pc = "round" /\ pc' = pc /\ sequence # 0 /\ sequence' = sequence
      /\ marks[p] = MarkIncomplete /\ fetched[p] \in Nat \cup {StatusBody}
      /\ UNCHANGED <<registry, pending>>
  BY SequenceInRound
  DEF Kept, RoundKept, WriteCompleted, PutCompleted, PutCompletedPartly,
      storeVars
<1>2. at'[p] = "idle" /\ (q # p => fetched'[q] = fetched[q] /\ at'[q] = at[q])
  BY DEF WriteCompleted, Settle
<1>3. CASE q # p
  <2>1. /\ packages'[q] = packages[q] /\ marks'[q] = marks[q]
        /\ documents'[q] = documents[q]
    BY <1>3
    DEF WriteCompleted, PutCompleted, PutCompletedPartly, PutRevision,
        storeVars, buckets
  <2> QED
    BY <1>1, <1>2, <1>3, <2>1
    DEF ChangeInv, ChangeOK, FirstRunOK, Covered, Followed, Mirrored,
        FetchFailed, registry, pending
<1>4. CASE q = p
  <2>1. marks'[p] # Absent => up[p].seq >= 1
    BY <1>1, Constants DEF ChangeInv, ChangeOK, FirstRunOK
  <2>2. FirstRunOK(p)'
    BY <1>1, <2>1 DEF ChangeInv, ChangeOK, FirstRunOK, registry, pending
  <2>3. Covered(p, sequence)'
    <3>1. CASE marks' = marks
      BY <1>1, <3>1 DEF Covered, Followed, registry
    <3>2. CASE PutCompleted(p, queuedRev[p], fetched[p], revision, completed[p])
      <4>1. packages'[p] = revision /\ documents'[p] = fetched[p]
        BY <1>1, <3>2 DEF PutCompleted, PutRevision
      <4>2. CASE fetched[p] \in {0, StatusBody}
        BY <4>1, <4>2, Constants DEF Covered, Followed, FetchFailed, RevisionOf
      <4>3. CASE fetched[p] \in Nat \ {0}
        <5>1. fetched[p] = up[p].rev \/ up[p].seq > sequence
          BY <1>1, <4>3 DEF ChangeInv, ChangeOK
        <5>2. fetched[p] = up[p].rev => ~ up[p].deleted
          BY <1>1, <4>3 DEF DocumentInv, DocumentOK, ServedOnce
        <5>3. revision = fetched[p]
          BY <4>3 DEF RevisionOf
        <5> QED
          BY <1>1, <4>1, <5>1, <5>2, <5>3, Numbers
          DEF Covered, Followed, Mirrored, registry
      <4> QED BY <1>1, <4>2, <4>3
    <3> QED
      BY <3>1, <3>2 DEF WriteCompleted, CompletedFiles, PutCompletedPartly, storeVars, buckets
  <2> QED BY <1>1, <1>2, <1>4, <2>2, <2>3 DEF ChangeOK
<1> QED BY <1>3, <1>4

\* A package that is dropped is gone from the registry, or has come back later
\* than the sequence.
LEMMA DropPackageChanges ==
  ASSUME AllInv, NEW p \in Names, DropPackage(p)
  PROVE  ChangeInv'
<1> SUFFICES ASSUME NEW q \in Names PROVE ChangeOK(q)'
  BY DEF ChangeInv
<1> USE DEF AllInv, Inv, TypeInv, TypeOK, StoreTypeOK
<1>1. /\ at[p] = "removed" /\ pc = "round" /\ pc' = pc
      /\ sequence # 0 /\ sequence' = sequence /\ marks[p] = MarkIncomplete
      /\ UNCHANGED <<registry, pending>>
  BY SequenceInRound DEF DropPackage, DeletePackage, storeVars
<1>2. at'[p] = "idle" /\ (q # p => fetched'[q] = fetched[q] /\ at'[q] = at[q])
  BY DEF DropPackage, Settle
<1>3. CASE q # p
  <2>1. /\ packages'[q] = packages[q] /\ marks'[q] = marks[q]
        /\ documents'[q] = documents[q]
    BY <1>3 DEF DropPackage, DeletePackage, storeVars, buckets
  <2> QED
    BY <1>1, <1>2, <1>3, <2>1
    DEF ChangeInv, ChangeOK, FirstRunOK, Covered, Followed, Mirrored,
        FetchFailed, registry, pending
<1>4. CASE q = p
  <2>1. FirstRunOK(p)'
    <3>1. marks'[p] \in {marks[p], Absent}
      BY DEF DropPackage, DeletePackage, storeVars, buckets
    <3> QED
      BY <1>1, <3>1, Constants
      DEF ChangeInv, ChangeOK, FirstRunOK, registry, pending
  <2>2. up[p].deleted \/ up[p].seq > sequence
    BY <1>1 DEF ChangeInv, ChangeOK
  <2>3. Covered(p, sequence)'
    <3>1. CASE UNCHANGED storeVars
      BY <1>1, <3>1 DEF Covered, Followed, storeVars, buckets
    <3>2. CASE DeletePackage(p)
      <4>1. packages'[p] = Absent
        BY <3>2 DEF DeletePackage
      <4> QED
        BY <1>1, <2>2, <4>1, Numbers DEF Covered, Followed, Mirrored, registry
    <3> QED BY <3>1, <3>2 DEF DropPackage
  <2> QED BY <1>1, <1>2, <1>4, <2>1, <2>3 DEF ChangeOK
<1> QED BY <1>3, <1>4

\* Every step keeps the changes.
LEMMA NextChanges ==
  ASSUME AllInv, [Next]_vars, "sequence" \notin FaultKinds
  PROVE  ChangeInv'
<1>1. ASSUME NEW p \in Names, NEW delete \in BOOLEAN, Change(p, delete)
      PROVE  ChangeInv'
  BY <1>1, ChangeChanges
<1>2. CASE Restart \/ LoadStats \/ Gate \/ UpToDate \/ EndRound \/ UNCHANGED vars
  BY <1>2, QuietChanges
  DEF AllInv, Restart, LoadStats, Gate, UpToDate, EndRound, vars, storeVars
<1>3. CASE Initialize
  <2>1. sequence' = sequence /\ UNCHANGED buckets
    BY <1>3
    DEF Initialize, InitBuckets, IsInitialized, AllInv, SequenceInv, storeVars
  <2> QED BY <1>3, <2>1, QuietChanges DEF AllInv, Initialize
<1>4. CASE GetAllDocs
  BY <1>4, GetAllDocsChanges
<1>5. CASE LoadMarks
  BY <1>5, LoadMarksChanges
<1>6. CASE Poll
  BY <1>6, PollChanges
<1>7. CASE PutBatch
  BY <1>7, PutBatchChanges
<1>8. CASE SaveSequence
  BY <1>8, SaveSequenceChanges
<1>9. CASE StartRound
  BY <1>9, StartRoundChanges
<1>10. CASE Die
  BY <1>10, DieChanges DEF AllInv
<1>11. ASSUME NEW p \in Names, Job(p)
       PROVE  ChangeInv'
  BY <1>11, GetDocumentChanges, FileStepChanges, WriteCompletedChanges,
     DropPackageChanges DEF Job
<1> QED
  BY <1>1, <1>2, <1>3, <1>4, <1>5, <1>6, <1>7, <1>8, <1>9, <1>10, <1>11
  DEF Next, Registry, Process, Fault, OneTime, Blocked, Crash, AllDocsFails,
      CommitFails, ChangesFail

-----------------------------------------------------------------------------
(* What follows for the mirror                                             *)

\* The whole invariant holds, for every fault but a sequence that is not saved.
LEMMA AllInvariance ==
  ASSUME "sequence" \notin FaultKinds
  PROVE  SafeSpec => []AllInv
<1>1. Init => AllInv
  BY InitInv, InitDocuments, InitSequence, InitChanges DEF AllInv
<1>2. AllInv /\ [Next]_vars => AllInv'
  BY NextInv, NextDocuments, NextSequence, NextChanges DEF AllInv
<1> QED BY <1>1, <1>2, PTL DEF SafeSpec

\* NoLostChange, but for packages whose document could not be fetched.
FailedFetchShows ==
  \A p \in Names :
    up[p].seq \in 1 .. sequence =>
      \/ marks[p] = MarkIncomplete
      \/ Mirrored(p)
      \/ packages[p] = 0 /\ documents[p] \in {0, StatusBody}

\* Where a change up to the stored sequence is missing from the mirror, be it
\* through crashes, transactions, polls or requests that fail (npm.go:138-145),
\* the database shows it.
THEOREM MissedChangesShow ==
  ASSUME "sequence" \notin FaultKinds
  PROVE  SafeSpec => []FailedFetchShows
<1>1. AllInv => FailedFetchShows
  BY DEF AllInv, ChangeInv, ChangeOK, Covered, Followed, FetchFailed,
     FailedFetchShows
<1> QED BY AllInvariance, <1>1, PTL

\* The order of PutPackages and SetSequence (mirror.go:61-62, 209-211) loses no
\* change, wherever the process is killed, for any number of packages, of
\* workers and of changes of the registry.
THEOREM ChangesAreKept ==
  ASSUME "sequence" \notin FaultKinds, "document" \notin FaultKinds
  PROVE  SafeSpec => []NoLostChange
<1>1. FailedFetchShows /\ DocumentsAnswered => NoLostChange
  BY DEF FailedFetchShows, DocumentsAnswered, NoLostChange
<1> QED BY MissedChangesShow, AnsweredInvariance, <1>1, PTL

-----------------------------------------------------------------------------
(* The changes of packages that the registry has, whatever fails           *)

\* No sequence the mirror knows of passes the registry's.
SequencesReached ==
  /\ sequence <= upSeq /\ cachedSeq <= upSeq
  /\ pc \in {"put", "setSequence"} => lastSeq <= upSeq

LiveCovered(p, s) == ~ up[p].deleted /\ up[p].seq \in 1 .. s => Followed(p)

\* The last change of p is one that the next poll will list.
Late(p) == up[p].seq > sequence /\ up[p].seq > cachedSeq

\* As ChangeOK, for both of the sequences that a poll may start from: the one in
\* the cache is no longer the stored one when that could not be saved.
LiveOK(p) ==
  /\ LiveCovered(p, sequence) /\ LiveCovered(p, cachedSeq)
  /\ pc = "put" => batch[p] # Absent \/ LiveCovered(p, lastSeq)
  /\ pc = "setSequence" => LiveCovered(p, lastSeq)
  /\ at[p] \in {"fetched", "ready"} /\ fetched[p] \in Nat \ {0} =>
       fetched[p] = up[p].rev \/ Late(p)
  /\ at[p] = "fetched" /\ fetched[p] = NotFound => up[p].deleted \/ Late(p)
  /\ at[p] = "removed" => up[p].deleted \/ Late(p)

LiveInv == SequencesReached /\ \A p \in Names : LiveOK(p)

LiveAll == Inv /\ DocumentInv /\ LiveInv

\* Every sequence is a number.
LEMMA LiveNumbers ==
  ASSUME Inv
  PROVE  /\ sequence \in Nat /\ upSeq \in Nat
         /\ cachedSeq \in 0 .. MaxSeq /\ lastSeq \in 0 .. MaxSeq
         /\ \A p \in Names : up[p].seq \in Nat /\ up[p].rev \in Nat
BY Constants DEF Inv, TypeInv, TypeOK, StoreTypeOK

\* Nothing has changed before the first start.
LEMMA InitLive == Init => LiveInv
BY Constants
DEF Init, StoreInit, NoBatch, LiveInv, SequencesReached, LiveOK, LiveCovered

\* Outside a round a step may bring the two sequences together.
LEMMA QuietLive ==
  ASSUME LiveAll, UNCHANGED <<registry, sequence, buckets, pending, round>>,
         \/ cachedSeq' = cachedSeq
         \/ pc # "round" /\ cachedSeq' = sequence,
         pc' = pc \/ pc' \notin {"put", "setSequence"}
  PROVE  LiveInv'
<1>1. SequencesReached'
  BY DEF LiveAll, LiveInv, SequencesReached, registry, pending
<1>2. ASSUME NEW p \in Names
      PROVE  LiveOK(p)'
  <2>1. pc # "round" => at[p] = "idle"
    BY OutsideRound DEF LiveAll, Inv, Kept
  <2> QED
    BY <2>1
    DEF LiveAll, LiveInv, LiveOK, LiveCovered, Late, Followed, Mirrored,
        FetchFailed, registry, buckets, pending, round
<1> QED BY <1>1, <1>2 DEF LiveInv

\* A change is later than every sequence the mirror knows of.
LEMMA ChangeLive ==
  ASSUME LiveAll, NEW p \in Names, NEW delete \in BOOLEAN, Change(p, delete)
  PROVE  LiveInv'
<1>1. UNCHANGED <<sequence, cachedSeq, buckets, pc, pending, round>>
      /\ upSeq' = upSeq + 1
  BY DEF Change, storeVars, memory
<1>2. SequencesReached'
  BY <1>1, LiveNumbers DEF LiveAll, LiveInv, SequencesReached, pending
<1>3. ASSUME NEW q \in Names, q # p
      PROVE  LiveOK(q)'
  <2>1. up'[q] = up[q]
    BY <1>3 DEF Change, LiveAll, Inv, TypeInv, TypeOK
  <2> QED
    BY <1>1, <2>1
    DEF LiveAll, LiveInv, LiveOK, LiveCovered, Late, Followed, Mirrored,
        FetchFailed, buckets, pending, round
<1>4. LiveOK(p)'
  <2>1. up'[p].seq = upSeq + 1
    BY DEF Change, LiveAll, Inv, TypeInv, TypeOK
  <2>2. /\ up'[p].seq > sequence /\ up'[p].seq > cachedSeq
        /\ pc \in {"put", "setSequence"} => up'[p].seq > lastSeq
    BY <2>1, LiveNumbers DEF LiveAll, LiveInv, SequencesReached
  <2>3. Late(p)' /\ LiveCovered(p, sequence)' /\ LiveCovered(p, cachedSeq)'
    BY <1>1, <2>2, LiveNumbers DEF LiveAll, Late, LiveCovered
  <2>4. pc \in {"put", "setSequence"} => LiveCovered(p, lastSeq)'
    BY <1>1, <2>2, LiveNumbers DEF LiveAll, LiveCovered, pending
  <2> QED BY <1>1, <2>3, <2>4 DEF LiveOK
<1> QED BY <1>2, <1>3, <1>4 DEF LiveInv

\* A process that ends forgets its sequence, its batch and its round.
LEMMA DieLive ==
  ASSUME LiveAll, Die
  PROVE  LiveInv'
BY LiveNumbers
DEF LiveAll, LiveInv, SequencesReached, LiveOK, LiveCovered, Late, Followed,
    Mirrored, FetchFailed, Die, registry, storeVars, buckets

\* A database that is initialised has no sequence to go on from.
LEMMA InitializeLive ==
  ASSUME LiveAll, Initialize
  PROVE  LiveInv'
<1>1. /\ UNCHANGED <<registry, buckets, memory, pending, round>>
      /\ pc = "initialize" /\ pc' = "stats" /\ sequence' \in {sequence, 0}
  BY DEF Initialize, InitBuckets, storeVars
<1>2. \A p \in Names : at[p] = "idle"
  BY <1>1, OutsideRound DEF LiveAll, Inv, Kept
<1>3. SequencesReached'
  BY <1>1, LiveNumbers
  DEF LiveAll, LiveInv, SequencesReached, registry, memory
<1>4. ASSUME NEW p \in Names
      PROVE  LiveOK(p)'
  BY <1>1, <1>2
  DEF LiveAll, LiveInv, LiveOK, LiveCovered, Followed, Mirrored, FetchFailed,
      registry, buckets, memory, round
<1> QED BY <1>3, <1>4 DEF LiveInv

\* The first run lists every package that the registry has.
LEMMA GetAllDocsLive ==
  ASSUME LiveAll, GetAllDocs
  PROVE  LiveInv'
<1>1. /\ UNCHANGED <<registry, sequence, buckets, memory, round>>
      /\ pc' = "put" /\ lastSeq' = upSeq
  BY DEF GetAllDocs, storeVars
<1>2. SequencesReached'
  BY <1>1, LiveNumbers
  DEF LiveAll, LiveInv, SequencesReached, registry, memory
<1>3. ASSUME NEW p \in Names
      PROVE  LiveOK(p)'
  <2>1. batch'[p] # Absent \/ up[p].deleted
    BY LiveNumbers, Constants DEF LiveAll, GetAllDocs
  <2> QED
    BY <1>1, <2>1
    DEF LiveAll, LiveInv, LiveOK, LiveCovered, Late, Followed, Mirrored,
        FetchFailed, registry, buckets, memory, round
<1> QED BY <1>2, <1>3 DEF LiveInv

\* What a poll does not take up is followed: it was covered by the sequence that
\* the poll started from, or the database has its revision.
LEMMA PollLive ==
  ASSUME LiveAll, Poll
  PROVE  LiveInv'
<1>1. PICK since \in {cachedSeq, sequence} :
        /\ cachedSeq' = since
        /\ batch' = [p \in Names |->
                       IF up[p].seq > since /\ Outdated(p)
                       THEN up[p].rev ELSE Absent]
  BY DEF Poll, GetSequence
<1>2. /\ UNCHANGED <<registry, sequence, buckets, round>>
      /\ pc = "poll" /\ pc' = "put" /\ lastSeq' = upSeq
  BY DEF Poll, storeVars
<1>3. SequencesReached'
  BY <1>1, <1>2, LiveNumbers DEF LiveAll, LiveInv, SequencesReached, registry
<1>4. ASSUME NEW p \in Names
      PROVE  LiveOK(p)'
  <2>1. at[p] = "idle"
    BY <1>2, OutsideRound DEF LiveAll, Inv, Kept
  <2>2. LiveCovered(p, since)
    BY <1>1 DEF LiveAll, LiveInv, LiveOK
  <2>3. ~ Outdated(p) => Followed(p)
    BY UpToDateFollowed DEF LiveAll
  <2>4. batch'[p] # Absent \/ LiveCovered(p, upSeq)
    BY <1>1, <2>2, <2>3, LiveNumbers, Constants DEF LiveAll, LiveCovered
  <2> QED
    BY <1>1, <1>2, <2>1, <2>2, <2>4
    DEF LiveAll, LiveInv, LiveOK, LiveCovered, Followed, Mirrored, FetchFailed,
        registry, buckets, round
<1> QED BY <1>3, <1>4 DEF LiveInv

\* What is put is incomplete, and so followed.
LEMMA PutBatchLive ==
  ASSUME LiveAll, PutBatch
  PROVE  LiveInv'
<1>1. /\ UNCHANGED <<registry, sequence, documents, lastSeq, memory, round>>
      /\ pc = "put" /\ pc' = "setSequence"
  BY DEF PutBatch, PutPackages
<1>2. SequencesReached'
  BY <1>1 DEF LiveAll, LiveInv, SequencesReached, registry, memory
<1>3. ASSUME NEW p \in Names, batch[p] = Absent
      PROVE  LiveOK(p)'
  <2>1. packages'[p] = packages[p] /\ marks'[p] = marks[p]
    BY <1>3 DEF PutBatch, PutPackages
  <2> QED
    BY <1>1, <1>3, <2>1
    DEF LiveAll, LiveInv, LiveOK, LiveCovered, Late, Followed, Mirrored,
        FetchFailed, registry, memory, round
<1>4. ASSUME NEW p \in Names, batch[p] # Absent
      PROVE  LiveOK(p)'
  <2>1. Followed(p)'
    BY <1>4 DEF PutBatch, PutPackages, Followed
  <2> QED
    BY <1>1, <2>1
    DEF LiveAll, LiveInv, LiveOK, LiveCovered, Late, registry, memory, round
<1> QED BY <1>2, <1>3, <1>4 DEF LiveInv

\* The process goes on from the sequence that was set, saved or not.
LEMMA SaveSequenceLive ==
  ASSUME LiveAll, SaveSequence
  PROVE  LiveInv'
<1>1. lastSeq \in 0 .. MaxSeq
  BY DEF LiveAll, Inv, TypeInv, TypeOK
<1>2. /\ UNCHANGED <<registry, buckets, round>>
      /\ pc = "setSequence" /\ pc' = "start"
      /\ sequence' \in {sequence, lastSeq} /\ cachedSeq' = lastSeq
  BY <1>1, SequenceFits DEF SaveSequence, SetSequence, storeVars
<1>3. SequencesReached'
  BY <1>2 DEF LiveAll, LiveInv, SequencesReached, registry
<1>4. ASSUME NEW p \in Names
      PROVE  LiveOK(p)'
  <2>1. at[p] = "idle"
    BY <1>2, OutsideRound DEF LiveAll, Inv, Kept
  <2> QED
    BY <1>2, <2>1
    DEF LiveAll, LiveInv, LiveOK, LiveCovered, Followed, Mirrored, FetchFailed,
        registry, buckets, round
<1> QED BY <1>3, <1>4 DEF LiveInv

\* A round starts with nothing fetched.
LEMMA StartRoundLive ==
  ASSUME LiveAll, StartRound
  PROVE  LiveInv'
BY DEF StartRound, LiveAll, LiveInv, SequencesReached, LiveOK, LiveCovered,
   Followed, Mirrored, FetchFailed, registry, storeVars, buckets, memory

\* The answer is what the registry has at that moment.
LEMMA GetDocumentLive ==
  ASSUME LiveAll, NEW p \in Names, GetDocument(p)
  PROVE  LiveInv'
<1>1. /\ fetched'[p] = NotFound => up[p].deleted
      /\ fetched'[p] \in Nat \ {0} => fetched'[p] = up[p].rev
      /\ at'[p] = "fetched"
  BY Constants, LiveNumbers
  DEF LiveAll, Inv, TypeInv, TypeOK, GetDocument, Answers
<1>2. \A q \in Names \ {p} : fetched'[q] = fetched[q] /\ at'[q] = at[q]
  BY DEF LiveAll, Inv, TypeInv, TypeOK, GetDocument
<1> QED
  BY <1>1, <1>2
  DEF GetDocument, LiveAll, LiveInv, SequencesReached, LiveOK, LiveCovered,
      Late, Followed, Mirrored, FetchFailed, registry, storeVars, buckets,
      memory, pending

\* Files are no concern of the changes.
LEMMA FileStepLive ==
  ASSUME LiveAll, NEW p \in Names, Download(p) \/ RemoveFiles(p)
  PROVE  LiveInv'
BY DEF Download, RemoveFiles, Gone, LiveAll, Inv, TypeInv, TypeOK, LiveInv,
   SequencesReached, LiveOK, LiveCovered, Late, Followed, Mirrored, FetchFailed,
   registry, storeVars, buckets, memory, pending

\* A package that settles has followed its last change, was deleted by it, or
\* that change is later than both sequences.
LEMMA SettleLive ==
  ASSUME LiveAll, NEW p \in Names, WriteCompleted(p) \/ DropPackage(p),
         Followed(p)' \/ up[p].deleted \/ Late(p)
  PROVE  LiveInv'
<1> USE DEF LiveAll, Inv, TypeInv, TypeOK, StoreTypeOK
<1>1. /\ pc = "round" /\ pc' = pc
      /\ UNCHANGED <<registry, sequence, memory, pending>>
  BY DEF Kept, RoundKept, WriteCompleted, PutCompleted, PutCompletedPartly,
     DropPackage, DeletePackage, storeVars
<1>2. SequencesReached'
  BY <1>1 DEF LiveInv, SequencesReached, registry, memory, pending
<1>3. ASSUME NEW q \in Names, q # p
      PROVE  LiveOK(q)'
  <2>1. /\ packages'[q] = packages[q] /\ marks'[q] = marks[q]
        /\ documents'[q] = documents[q]
        /\ fetched'[q] = fetched[q] /\ at'[q] = at[q]
    BY <1>3
    DEF WriteCompleted, PutCompleted, PutCompletedPartly, PutRevision,
        DropPackage, DeletePackage, Settle, storeVars, buckets
  <2> QED
    BY <1>1, <2>1
    DEF LiveInv, LiveOK, LiveCovered, Late, Followed, Mirrored, FetchFailed,
        registry, memory, pending
<1>4. LiveOK(p)'
  <2>1. at'[p] = "idle"
    BY DEF WriteCompleted, DropPackage, Settle
  <2>2. Followed(p)' \/ up'[p].deleted \/ Late(p)'
    BY <1>1 DEF Late, registry, memory
  <2>3. /\ sequence' \in Nat /\ cachedSeq' \in Nat /\ up'[p].seq \in Nat
    BY <1>1, LiveNumbers DEF registry, memory
  <2>4. LiveCovered(p, sequence)' /\ LiveCovered(p, cachedSeq)'
    BY <2>2, <2>3 DEF LiveCovered, Late
  <2> QED BY <1>1, <2>1, <2>4 DEF LiveOK
<1> QED BY <1>2, <1>3, <1>4 DEF LiveInv

\* A package is completed with the document that the registry has, with none,
\* or with one whose successor is listed by the next poll.
LEMMA WriteCompletedLive ==
  ASSUME LiveAll, NEW p \in Names, WriteCompleted(p)
  PROVE  LiveInv'
<1> DEFINE revision == RevisionOf(fetched[p])
<1> USE DEF LiveAll, Inv, TypeInv, TypeOK, StoreTypeOK
<1>1. /\ at[p] = "ready" /\ packages[p] = queuedRev[p]
      /\ marks[p] = MarkIncomplete /\ fetched[p] \in Nat \cup {StatusBody}
      /\ UNCHANGED registry
  BY DEF Kept, RoundKept, WriteCompleted
<1>2. CASE marks' = marks
  BY <1>1, <1>2, SettleLive DEF Followed
<1>3. CASE PutCompleted(p, queuedRev[p], fetched[p], revision, completed[p])
  <2>1. packages'[p] = revision /\ documents'[p] = fetched[p]
    BY <1>1, <1>3 DEF PutCompleted, PutRevision
  <2>2. CASE fetched[p] \in {0, StatusBody}
    <3>1. Followed(p)'
      BY <2>1, <2>2, Constants DEF Followed, FetchFailed, RevisionOf
    <3> QED BY <3>1, SettleLive
  <2>3. CASE fetched[p] \in Nat \ {0}
    <3>1. fetched[p] = up[p].rev \/ Late(p)
      BY <1>1, <2>3 DEF LiveInv, LiveOK
    <3>2. fetched[p] = up[p].rev => ~ up[p].deleted
      BY <1>1, <2>3 DEF DocumentInv, DocumentOK, ServedOnce
    <3>3. revision = fetched[p]
      BY <2>3 DEF RevisionOf
    <3>4. Followed(p)' \/ Late(p)
      BY <1>1, <2>1, <3>1, <3>2, <3>3 DEF Followed, Mirrored, registry
    <3> QED BY <3>4, SettleLive
  <2> QED BY <1>1, <2>2, <2>3
<1> QED
  BY <1>2, <1>3 DEF WriteCompleted, CompletedFiles, PutCompletedPartly, storeVars, buckets

\* A package is dropped when the registry has dropped it, or will list it.
LEMMA DropPackageLive ==
  ASSUME LiveAll, NEW p \in Names, DropPackage(p)
  PROVE  LiveInv'
<1>1. up[p].deleted \/ Late(p)
  BY DEF DropPackage, LiveAll, LiveInv, LiveOK
<1> QED BY <1>1, SettleLive

\* Every step keeps the changes, every fault among them.
LEMMA NextLive ==
  ASSUME LiveAll, [Next]_vars
  PROVE  LiveInv'
<1>1. ASSUME NEW p \in Names, NEW delete \in BOOLEAN, Change(p, delete)
      PROVE  LiveInv'
  BY <1>1, ChangeLive
<1>2. CASE Restart \/ LoadStats \/ LoadMarks \/ Gate \/ UpToDate \/ EndRound
             \/ UNCHANGED vars
  BY <1>2, QuietLive
  DEF Restart, LoadStats, LoadMarks, Gate, GetSequence, UpToDate, EndRound,
      vars, storeVars, memory
<1>3. CASE Initialize
  BY <1>3, InitializeLive
<1>4. CASE GetAllDocs
  BY <1>4, GetAllDocsLive
<1>5. CASE Poll
  BY <1>5, PollLive
<1>6. CASE PutBatch
  BY <1>6, PutBatchLive
<1>7. CASE SaveSequence
  BY <1>7, SaveSequenceLive
<1>8. CASE StartRound
  BY <1>8, StartRoundLive
<1>9. CASE Die
  BY <1>9, DieLive
<1>10. ASSUME NEW p \in Names, Job(p)
       PROVE  LiveInv'
  BY <1>10, GetDocumentLive, FileStepLive, WriteCompletedLive, DropPackageLive
  DEF Job
<1> QED
  BY <1>1, <1>2, <1>3, <1>4, <1>5, <1>6, <1>7, <1>8, <1>9, <1>10
  DEF Next, Registry, Process, Fault, OneTime, Blocked, Crash, AllDocsFails,
      CommitFails, ChangesFail

\* No change of a package that the registry has is lost without a trace,
\* whatever fails: the order of the writes at mirror.go:61-62 and 209-211 is
\* enough even where the sequence could not be saved, or was lost.
THEOREM LiveChangesAreShown == SafeSpec => []LiveChangesShow
<1>1. Init => LiveAll
  BY InitInv, InitDocuments, InitLive DEF LiveAll
<1>2. LiveAll /\ [Next]_vars => LiveAll'
  BY NextInv, NextDocuments, NextLive DEF LiveAll
<1>3. LiveAll => LiveChangesShow
  BY LiveNumbers
  DEF LiveAll, LiveInv, LiveOK, LiveCovered, Followed, FetchFailed,
      LiveChangesShow
<1> QED BY <1>1, <1>2, <1>3, PTL DEF SafeSpec

-----------------------------------------------------------------------------
(* The mirror never goes back                                              *)

\* What the database has, what is about to be put and what was fetched follow
\* each other in the order of the registry's revisions.
RevisionOK(p) ==
  /\ packages[p] \in Nat => packages[p] <= up[p].rev
  /\ batch[p] # Absent =>
       /\ pc = "put"
       /\ batch[p] <= up[p].rev
       /\ packages[p] \in Nat => packages[p] <= batch[p]
  /\ at[p] \in {"fetched", "ready"} /\ fetched[p] \in Nat =>
       /\ packages[p] \in Nat => packages[p] <= fetched[p]
       /\ documents[p] \in Nat => documents[p] <= fetched[p]

RevisionInv == \A p \in Names : RevisionOK(p)

ForwardInv == AllInv /\ DocumentsAnswered /\ RevisionInv

\* What is needed of the types here.
LEMMA RevisionTypes ==
  ASSUME Inv, NEW p \in Names
  PROVE  /\ up[p].rev \in Nat
         /\ packages[p] \in Nat \cup {Absent}
         /\ documents[p] \in Nat \cup {StatusBody, Absent}
         /\ batch[p] \in Nat \cup {Absent}
         /\ fetched[p] \in Nat \cup {StatusBody, NotFound}
         /\ sequence \in Nat /\ lastSeq \in 0 .. MaxSeq
BY DEF Inv, TypeInv, TypeOK, StoreTypeOK

\* The registry and the mirror start empty.
LEMMA InitRevisions == Init => RevisionInv
BY Constants DEF Init, StoreInit, NoBatch, RevisionInv, RevisionOK

\* A step that leaves registry, revisions, documents, batch and round alone
\* keeps the order.
LEMMA QuietRevisions ==
  ASSUME RevisionInv, UNCHANGED <<registry, packages, documents, batch, round>>,
         pc # "put" \/ pc' = pc
  PROVE  RevisionInv'
BY DEF RevisionInv, RevisionOK, registry, round

\* A change makes the registry's revision a later one.
LEMMA ChangeRevisions ==
  ASSUME ForwardInv, NEW p \in Names, NEW delete \in BOOLEAN, Change(p, delete)
  PROVE  RevisionInv'
<1>1. UNCHANGED <<buckets, pc, pending, round>>
  BY DEF Change, storeVars
<1>2. ASSUME NEW q \in Names
      PROVE  up'[q].rev >= up[q].rev /\ up'[q].rev \in Nat
  BY DEF Change, ForwardInv, AllInv, Inv, TypeInv, TypeOK
<1>3. ASSUME NEW q \in Names
      PROVE  RevisionOK(q)'
  BY <1>1, <1>2, RevisionTypes
  DEF ForwardInv, AllInv, RevisionInv, RevisionOK, buckets, pending, round
<1> QED BY <1>3 DEF RevisionInv

\* A batch consists of revisions that the registry has.
LEMMA ListRevisions ==
  ASSUME ForwardInv, GetAllDocs \/ Poll
  PROVE  RevisionInv'
<1>1. \A p \in Names : batch'[p] \in {up[p].rev, Absent}
  BY DEF GetAllDocs, Poll
<1>2. pc' = "put" /\ UNCHANGED <<registry, packages, documents, round>>
  BY DEF GetAllDocs, Poll, storeVars, buckets
<1>3. ASSUME NEW p \in Names
      PROVE  RevisionOK(p)'
  BY <1>1, <1>2, RevisionTypes, Constants
  DEF ForwardInv, AllInv, RevisionInv, RevisionOK, registry, round
<1> QED BY <1>3 DEF RevisionInv

\* Nothing is fetched when a batch is put.
LEMMA PutBatchRevisions ==
  ASSUME ForwardInv, PutBatch
  PROVE  RevisionInv'
<1>1. pc = "put" /\ batch' = NoBatch /\ UNCHANGED <<registry, round>>
  BY DEF PutBatch
<1>2. ASSUME NEW p \in Names
      PROVE  RevisionOK(p)'
  <2>1. at[p] = "idle"
    BY <1>1, OutsideRound DEF ForwardInv, AllInv, Inv, Kept
  <2>2. packages'[p] = IF batch[p] = Absent THEN packages[p] ELSE batch[p]
    BY DEF PutBatch, PutPackages
  <2> QED
    BY <1>1, <2>1, <2>2, RevisionTypes
    DEF ForwardInv, AllInv, RevisionInv, RevisionOK, NoBatch, registry, round
<1> QED BY <1>2 DEF RevisionInv

\* A round and a process begin with nothing fetched.
LEMMA ForgetRevisions ==
  ASSUME RevisionInv, StartRound \/ Die
  PROVE  RevisionInv'
BY DEF StartRound, Die, NoBatch, RevisionInv, RevisionOK, registry, storeVars,
   buckets, pending

\* A document that is served is no older than what the mirror has.
LEMMA GetDocumentRevisions ==
  ASSUME ForwardInv, NEW p \in Names, GetDocument(p),
         "document" \notin FaultKinds
  PROVE  RevisionInv'
<1> USE DEF ForwardInv, AllInv
<1>1. UNCHANGED <<registry, packages, documents, pc, batch>>
  BY DEF GetDocument, storeVars, buckets, pending
<1>2. fetched'[p] \in Nat => fetched'[p] = up[p].rev
  BY Constants DEF Inv, TypeInv, TypeOK, GetDocument, Answers
<1>3. \A q \in Names \ {p} : fetched'[q] = fetched[q] /\ at'[q] = at[q]
  BY DEF Inv, TypeInv, TypeOK, GetDocument
<1>4. documents[p] \in Nat => documents[p] <= up[p].rev
  BY RevisionTypes DEF DocumentInv, DocumentOK, ServedOnce
<1>5. ASSUME NEW q \in Names
      PROVE  RevisionOK(q)'
  BY <1>1, <1>2, <1>3, <1>4, <1>5 DEF RevisionInv, RevisionOK, registry
<1> QED BY <1>5 DEF RevisionInv

\* Files have no revision.
LEMMA FileStepRevisions ==
  ASSUME ForwardInv, NEW p \in Names, Download(p) \/ RemoveFiles(p)
  PROVE  RevisionInv'
BY DEF Download, RemoveFiles, ForwardInv, AllInv, Inv, TypeInv, TypeOK,
   RevisionInv, RevisionOK, registry, storeVars, buckets, pending

\* What is written of a package: its old entries or those of the document that
\* was fetched, which are no older.
LEMMA WrittenRevisions ==
  ASSUME ForwardInv, NEW p \in Names, WriteCompleted(p) \/ DropPackage(p)
  PROVE  /\ \/ /\ at[p] = "ready" /\ fetched[p] \in Nat
               /\ packages'[p] \in {packages[p], fetched[p]}
               /\ documents'[p] \in {documents[p], fetched[p]}
            \/ /\ packages'[p] \in {packages[p], Absent}
               /\ documents'[p] \in {documents[p], Absent}
         /\ \A q \in Names \ {p} :
              packages'[q] = packages[q] /\ documents'[q] = documents[q]
<1> USE DEF ForwardInv, AllInv, Inv, TypeInv, TypeOK, StoreTypeOK
<1>1. CASE DropPackage(p)
  BY <1>1 DEF DropPackage, DeletePackage, storeVars, buckets
<1>2. CASE WriteCompleted(p)
  <2>1. at[p] = "ready" /\ fetched[p] \in Nat
    BY <1>2 DEF WriteCompleted, DocumentsAnswered
  <2>2. RevisionOf(fetched[p]) = fetched[p]
    BY <2>1 DEF RevisionOf
  <2> QED
    BY <1>2, <2>1, <2>2
    DEF WriteCompleted, PutCompleted, PutCompletedPartly, PutRevision,
        storeVars, buckets
<1> QED BY <1>1, <1>2

\* A package that settles is not fetched any more.
LEMMA SettleRevisions ==
  ASSUME ForwardInv, NEW p \in Names, WriteCompleted(p) \/ DropPackage(p)
  PROVE  RevisionInv'
<1> USE DEF ForwardInv, AllInv
<1>1. UNCHANGED <<registry, batch>>
  BY DEF WriteCompleted, DropPackage, pending
<1>2. /\ at'[p] = "idle"
      /\ \A q \in Names \ {p} : fetched'[q] = fetched[q] /\ at'[q] = at[q]
  BY DEF WriteCompleted, DropPackage, Settle, Inv, TypeInv, TypeOK
<1>3. at[p] = "ready" /\ fetched[p] \in Nat => fetched[p] <= up[p].rev
  BY RevisionTypes DEF DocumentInv, DocumentOK, ServedOnce
<1>4. batch[p] = Absent /\ pc' = pc
  BY DEF WriteCompleted, DropPackage, Inv, Kept, RoundKept, RevisionInv,
     RevisionOK
<1>5. RevisionOK(p)'
  BY <1>1, <1>2, <1>3, <1>4, WrittenRevisions, Constants
  DEF RevisionInv, RevisionOK, registry
<1>6. ASSUME NEW q \in Names \ {p}
      PROVE  RevisionOK(q)'
  BY <1>1, <1>2, <1>4, WrittenRevisions DEF RevisionInv, RevisionOK, registry
<1> QED BY <1>5, <1>6 DEF RevisionInv

\* Every step keeps the order, as long as requests for documents are answered
\* and sequences are saved.
LEMMA NextRevisions ==
  ASSUME ForwardInv, [Next]_vars, "document" \notin FaultKinds
  PROVE  RevisionInv'
<1>1. ASSUME NEW p \in Names, NEW delete \in BOOLEAN, Change(p, delete)
      PROVE  RevisionInv'
  BY <1>1, ChangeRevisions
<1>2. CASE Restart \/ LoadStats \/ LoadMarks \/ Gate \/ UpToDate \/ EndRound
             \/ UNCHANGED vars
  BY <1>2, QuietRevisions
  DEF ForwardInv, Restart, LoadStats, LoadMarks, Gate, UpToDate, EndRound,
      vars, storeVars, buckets, pending
<1>3. CASE Initialize \/ SaveSequence
  BY <1>3, QuietRevisions
  DEF ForwardInv, Initialize, InitBuckets, SaveSequence, SetSequence,
      storeVars, buckets, pending
<1>4. CASE GetAllDocs \/ Poll
  BY <1>4, ListRevisions
<1>5. CASE PutBatch
  BY <1>5, PutBatchRevisions
<1>6. CASE StartRound \/ Die
  BY <1>6, ForgetRevisions DEF ForwardInv
<1>7. ASSUME NEW p \in Names, Job(p)
      PROVE  RevisionInv'
  BY <1>7, GetDocumentRevisions, FileStepRevisions, SettleRevisions DEF Job
<1> QED
  BY <1>1, <1>2, <1>3, <1>4, <1>5, <1>6, <1>7
  DEF Next, Registry, Process, Fault, OneTime, Blocked, Crash, AllDocsFails,
      CommitFails, ChangesFail

\* No step goes back.
LEMMA NextForward ==
  ASSUME ForwardInv, [Next]_vars, "sequence" \notin FaultKinds
  PROVE  Forward
<1> USE DEF ForwardInv, AllInv
<1>1. CASE UNCHANGED <<sequence, packages, documents>>
  BY <1>1, RevisionTypes, Numbers DEF Forward
<1>2. CASE Restart \/ LoadStats \/ LoadMarks \/ Gate \/ UpToDate \/ EndRound
             \/ GetAllDocs \/ Poll \/ StartRound \/ Die \/ UNCHANGED vars
             \/ (\E p \in Names, delete \in BOOLEAN : Change(p, delete))
             \/ (\E p \in Names : GetDocument(p) \/ Download(p) \/ RemoveFiles(p))
  BY <1>1, <1>2
  DEF Restart, LoadStats, LoadMarks, Gate, UpToDate, EndRound, GetAllDocs,
      Poll, StartRound, Die, vars, Change, GetDocument, Download, RemoveFiles,
      storeVars, buckets
<1>3. CASE Initialize
  <2>1. sequence' = sequence /\ UNCHANGED buckets
    BY <1>3
    DEF Initialize, InitBuckets, IsInitialized, SequenceInv, storeVars
  <2> QED BY <1>1, <2>1 DEF buckets
<1>4. CASE SaveSequence
  <2>1. pc = "setSequence" /\ sequence' = lastSeq /\ UNCHANGED buckets
    BY <1>4, SequenceFits DEF SaveSequence, SetSequence, Inv, TypeInv, TypeOK
  <2>2. sequence' >= sequence
    BY <2>1 DEF SequenceInv
  <2> QED BY <2>1, <2>2, RevisionTypes DEF Forward, buckets
<1>5. CASE PutBatch
  <2>1. /\ sequence' = sequence /\ documents' = documents
        /\ \A p \in Names : packages'[p] \in {packages[p], batch[p]}
    BY <1>5 DEF PutBatch, PutPackages
  <2>2. ASSUME NEW p \in Names, packages[p] \in Nat, packages'[p] \in Nat
        PROVE  packages'[p] >= packages[p]
    BY <2>1, <2>2, RevisionTypes, Constants DEF RevisionInv, RevisionOK
  <2> QED BY <2>1, <2>2, RevisionTypes, Numbers DEF Forward
<1>6. ASSUME NEW p \in Names, WriteCompleted(p) \/ DropPackage(p)
      PROVE  Forward
  <2>1. sequence' = sequence
    BY <1>6 DEF WriteCompleted, PutCompleted, PutCompletedPartly, DropPackage,
       DeletePackage, storeVars
  <2>2. ASSUME NEW q \in Names
        PROVE  /\ packages[q] \in Nat /\ packages'[q] \in Nat =>
                    packages'[q] >= packages[q]
               /\ documents[q] \in Nat /\ documents'[q] \in Nat =>
                    documents'[q] >= documents[q]
    BY <1>6, WrittenRevisions, RevisionTypes, Constants
    DEF RevisionInv, RevisionOK
  <2> QED BY <2>1, <2>2, Numbers DEF Forward
<1> QED
  BY <1>2, <1>3, <1>4, <1>5, <1>6
  DEF Next, Registry, Process, Job, Fault, OneTime, Blocked, Crash,
      AllDocsFails, CommitFails, ChangesFail

\* Neither the sequence nor the revision or the document of a package ever goes
\* back (mirror.go:191, 209-211), although the registry changes in the middle of
\* rounds and documents are fetched later than the revisions they go with.
THEOREM MirrorGoesForward ==
  ASSUME "sequence" \notin FaultKinds, "document" \notin FaultKinds
  PROVE  SafeSpec => NeverRegress
<1>1. Init => RevisionInv
  BY InitRevisions
<1>2. ForwardInv /\ [Next]_vars => RevisionInv'
  BY NextRevisions
<1>3. ForwardInv /\ [Next]_vars => Forward
  BY NextForward
<1>4. ForwardInv <=> AllInv /\ DocumentsAnswered /\ RevisionInv
  BY DEF ForwardInv
<1>5. ForwardInv /\ [Next]_vars => [Forward]_vars
  BY <1>3
<1> QED
  BY AllInvariance, AnsweredInvariance, <1>1, <1>2, <1>4, <1>5, PTL
  DEF SafeSpec, NeverRegress

-----------------------------------------------------------------------------
(* A mirror that has caught up is exact                                    *)

\* A package that is not in the database has no file; the newest document of a
\* package, once it is completed, has all its tarballs.  (Of an older one a
\* tarball may be missing: the package was deleted before it was asked for.)
DiskOK(p) ==
  /\ packages[p] = Absent \/ at[p] = "removed" => disk[p] = {}
  /\ at[p] \in {"fetched", "ready"} /\ fetched[p] = up[p].rev =>
       Tarballs(fetched[p]) \subseteq completed[p] \cup wanted[p]
  /\ at[p] = "ready" => wanted[p] = {}
  /\ marks[p] = MarkComplete /\ documents[p] = up[p].rev =>
       Tarballs(documents[p]) \subseteq files[p]

DiskInv == \A p \in Names : DiskOK(p)

\* Nothing is there before the first start.
LEMMA InitDisk == Init => DiskInv
BY Constants DEF Init, StoreInit, DiskInv, DiskOK

\* A step that leaves registry, buckets, disk and round alone keeps the disk.
LEMMA QuietDisk ==
  ASSUME DiskInv, UNCHANGED <<registry, buckets, disk, round>>
  PROVE  DiskInv'
BY DEF DiskInv, DiskOK, registry, buckets, round

\* A change makes what there is of its package an older document.
LEMMA ChangeDisk ==
  ASSUME AllInv, DiskInv, NEW p \in Names, NEW delete \in BOOLEAN,
         Change(p, delete)
  PROVE  DiskInv'
<1> SUFFICES ASSUME NEW q \in Names PROVE DiskOK(q)'
  BY DEF DiskInv
<1> USE DEF AllInv, Inv, TypeInv, TypeOK, StoreTypeOK
<1>1. UNCHANGED <<buckets, disk, round>>
  BY DEF Change, storeVars
<1>2. CASE q # p
  <2>1. up'[q] = up[q]
    BY <1>2 DEF Change
  <2> QED BY <1>1, <2>1 DEF DiskInv, DiskOK, buckets, round
<1>3. CASE q = p
  <2>1. up'[q].rev = up[q].rev + 1 /\ up[q].rev \in Nat
    BY <1>3 DEF Change
  <2>2. at[q] \in {"fetched", "ready"} => fetched[q] # up'[q].rev
    BY <2>1, Constants DEF DocumentInv, DocumentOK, ServedOnce
  <2>3. documents[q] # up'[q].rev
    BY <2>1, Constants DEF DocumentInv, DocumentOK, ServedOnce
  <2> QED BY <1>1, <2>2, <2>3 DEF DiskInv, DiskOK, buckets, round
<1> QED BY <1>2, <1>3

\* Packages that are put are there, and incomplete.
LEMMA PutBatchDisk ==
  ASSUME AllInv, DiskInv, PutBatch
  PROVE  DiskInv'
BY Constants
DEF AllInv, Inv, TypeInv, TypeOK, StoreTypeOK, DiskInv, DiskOK, PutBatch,
    PutPackages, registry, round

\* What is under way is forgotten, or begins with nothing downloaded.
LEMMA ForgetDisk ==
  ASSUME DiskInv, UNCHANGED <<registry, buckets, disk>>,
         \A p \in Names : at'[p] \notin {"fetched", "ready", "removed"}
  PROVE  DiskInv'
BY DEF DiskInv, DiskOK, registry, buckets

\* When no request for a tarball fails, a package that was not deleted since its
\* document was fetched is served every one of them.
LEMMA DownloadDisk ==
  ASSUME AllInv, DiskInv, NEW p \in Names, Download(p),
         "tarball" \notin FaultKinds
  PROVE  DiskInv'
<1> USE DEF AllInv, Inv, TypeInv, TypeOK, StoreTypeOK
<1>1. /\ at[p] = "fetched"
      /\ \/ at' = at
         \/ at' = [at EXCEPT ![p] = "ready"] /\ wanted'[p] = {}
  BY DownloadStep
<1>2. UNCHANGED <<registry, buckets, fetched>>
  BY DEF Download, storeVars
<1>3. packages[p] # Absent
  BY <1>1, Constants DEF Kept, RoundKept
<1>4. ASSUME fetched[p] = up[p].rev, NEW t \in wanted[p],
             t \in Tarballs(fetched[p])
      PROVE  t \in Served(p)
  <2>1. CASE fetched[p] = 0
    BY <1>4, <2>1 DEF Tarballs
  <2>2. CASE fetched[p] \in Nat \ {0}
    <3>1. ~ up[p].deleted
      BY <1>1, <1>4, <2>2 DEF DocumentInv, DocumentOK, ServedOnce
    <3> QED BY <1>4, <2>2, <3>1 DEF Tarballs, Served
  <2> QED BY <1>4, <2>1, <2>2
<1>5. /\ \A q \in Names \ {p} :
           /\ disk'[q] = disk[q] /\ completed'[q] = completed[q]
           /\ wanted'[q] = wanted[q]
      /\ completed[p] \subseteq completed'[p]
  <2>1. PICK got \in SUBSET wanted[p] :
          /\ completed' = [completed EXCEPT ![p] = @ \cup got]
          /\ disk' = [disk EXCEPT ![p] = @ \cup got]
    BY DownloadStep
  <2>2. PICK rest \in SUBSET wanted[p] : wanted' = [wanted EXCEPT ![p] = rest]
    BY DownloadStep
  <2> QED BY <2>1, <2>2
<1>6. ASSUME fetched[p] = up[p].rev
      PROVE  Tarballs(fetched[p]) \subseteq completed'[p] \cup wanted'[p]
  <2>1. Tarballs(fetched[p]) \subseteq completed[p] \cup wanted[p]
    BY <1>1, <1>6 DEF DiskInv, DiskOK
  <2>2. CASE UNCHANGED <<wanted, completed, disk>>
    BY <2>1, <2>2
  <2>3. ASSUME NEW t \in wanted[p], Try(p, t)
        PROVE  Tarballs(fetched[p]) \subseteq completed'[p] \cup wanted'[p]
    <3>1. PICK got \in IF t \in disk[p] THEN {{t}} ELSE Got(p, t) :
            /\ wanted' = [wanted EXCEPT ![p] = @ \ {t}]
            /\ completed' = [completed EXCEPT ![p] = @ \cup got]
      BY <2>3 DEF Try
    <3>2. t \in Tarballs(fetched[p]) => t \in got
      BY <1>4, <1>6, <3>1 DEF Got
    <3>3. /\ wanted'[p] = wanted[p] \ {t}
          /\ completed'[p] = completed[p] \cup got
      BY <3>1
    <3> QED BY <2>1, <3>2, <3>3
  <2> QED BY <2>2, <2>3 DEF Download
<1>7. ASSUME NEW q \in Names, q # p
      PROVE  DiskOK(q)'
  BY <1>1, <1>2, <1>5, <1>7 DEF DiskInv, DiskOK, registry, buckets
<1>8. DiskOK(p)'
  BY <1>1, <1>2, <1>3, <1>6 DEF DiskInv, DiskOK, registry, buckets
<1> QED BY <1>7, <1>8 DEF DiskInv

\* Fetching a document touches no file.
LEMMA GetDocumentDisk ==
  ASSUME AllInv, DiskInv, NEW p \in Names, GetDocument(p)
  PROVE  DiskInv'
<1> USE DEF AllInv, Inv, TypeInv, TypeOK
<1>1. /\ fetched'[p] \in Nat \cup {StatusBody, NotFound}
      /\ wanted'[p] = Tarballs(fetched'[p])
      /\ \A q \in Names \ {p} : wanted'[q] = wanted[q]
  BY DEF GetDocument, Answers
<1> HIDE DEF Tarballs
<1> QED
  BY <1>1
  DEF GetDocument, DiskInv, DiskOK, registry, storeVars, buckets

\* The files of a package go before its entries.
LEMMA RemoveFilesDisk ==
  ASSUME AllInv, DiskInv, NEW p \in Names, RemoveFiles(p),
         "remove" \notin FaultKinds
  PROVE  DiskInv'
BY DEF AllInv, Inv, TypeInv, TypeOK, RemoveFiles, DiskInv, DiskOK, registry,
   storeVars, buckets

\* What is recorded of a completed package is what was fetched of it.
LEMMA WriteCompletedDisk ==
  ASSUME AllInv, DiskInv, NEW p \in Names, WriteCompleted(p)
  PROVE  DiskInv'
<1> USE DEF AllInv, Inv, TypeInv, TypeOK, StoreTypeOK
<1>1. /\ at[p] = "ready" /\ at' = [at EXCEPT ![p] = "idle"]
      /\ fetched' = [fetched EXCEPT ![p] = 0]
      /\ completed' = [completed EXCEPT ![p] = {}]
      /\ wanted' = [wanted EXCEPT ![p] = {}]
      /\ UNCHANGED <<registry, disk>>
  BY DEF WriteCompleted, Settle
<1>2. marks[p] = MarkIncomplete /\ packages[p] # Absent
  BY <1>1, Constants DEF Kept, RoundKept
<1>3. RevisionOf(fetched[p]) # Absent
  BY Constants DEF RevisionOf
<1>4. /\ packages'[p] # Absent
      /\ \/ marks'[p] # MarkComplete
         \/ documents'[p] = fetched[p] /\ files'[p] = completed[p]
      /\ \A q \in Names \ {p} :
           /\ packages'[q] = packages[q] /\ marks'[q] = marks[q]
           /\ documents'[q] = documents[q] /\ files'[q] = files[q]
  <2>1. CASE PutCompleted(p, queuedRev[p], fetched[p], RevisionOf(fetched[p]),
                          completed[p])
    BY <1>2, <1>3, <2>1 DEF PutCompleted, PutRevision
  <2>2. CASE PutCompletedPartly(p, queuedRev[p], fetched[p],
                                RevisionOf(fetched[p]), completed[p])
    BY <1>2, <1>3, <2>2, Constants DEF PutCompletedPartly, PutRevision
  <2>3. CASE UNCHANGED storeVars
    BY <1>2, <2>3, Constants DEF storeVars, buckets
  <2> QED BY <2>1, <2>2, <2>3 DEF WriteCompleted, CompletedFiles
<1>5. ASSUME NEW q \in Names, q # p
      PROVE  DiskOK(q)'
  BY <1>1, <1>4, <1>5 DEF DiskInv, DiskOK, registry
<1>6. DiskOK(p)'
  BY <1>1, <1>4 DEF DiskInv, DiskOK, registry
<1> QED BY <1>5, <1>6 DEF DiskInv

\* Entries that go leave no files behind.
LEMMA DropPackageDisk ==
  ASSUME AllInv, DiskInv, NEW p \in Names, DropPackage(p)
  PROVE  DiskInv'
<1> USE DEF AllInv, Inv, TypeInv, TypeOK, StoreTypeOK
<1>1. /\ at[p] = "removed" /\ at' = [at EXCEPT ![p] = "idle"]
      /\ fetched' = [fetched EXCEPT ![p] = 0]
      /\ completed' = [completed EXCEPT ![p] = {}]
      /\ wanted' = [wanted EXCEPT ![p] = {}]
      /\ UNCHANGED <<registry, disk>>
  BY DEF DropPackage, Settle
<1>2. /\ marks'[p] # MarkComplete
      /\ \A q \in Names \ {p} :
           /\ packages'[q] = packages[q] /\ marks'[q] = marks[q]
           /\ documents'[q] = documents[q] /\ files'[q] = files[q]
  <2>1. CASE UNCHANGED storeVars
    BY <1>1, <2>1, Constants DEF Kept, RoundKept, storeVars, buckets
  <2>2. CASE DeletePackage(p)
    BY <2>2, Constants DEF DeletePackage
  <2> QED BY <2>1, <2>2 DEF DropPackage
<1>3. ASSUME NEW q \in Names, q # p
      PROVE  DiskOK(q)'
  BY <1>1, <1>2, <1>3 DEF DiskInv, DiskOK, registry
<1>4. DiskOK(p)'
  BY <1>1, <1>2 DEF DiskInv, DiskOK
<1> QED BY <1>3, <1>4 DEF DiskInv

\* Every step keeps the disk.
LEMMA NextDisk ==
  ASSUME AllInv, DiskInv, [Next]_vars,
         "tarball" \notin FaultKinds, "remove" \notin FaultKinds
  PROVE  DiskInv'
<1>1. ASSUME NEW p \in Names, NEW delete \in BOOLEAN, Change(p, delete)
      PROVE  DiskInv'
  BY <1>1, ChangeDisk
<1>2. CASE Restart \/ Initialize \/ LoadStats \/ GetAllDocs \/ LoadMarks
             \/ Gate \/ UpToDate \/ Poll \/ SaveSequence \/ EndRound
             \/ UNCHANGED vars
  BY <1>2, QuietDisk
  DEF Restart, Initialize, InitBuckets, LoadStats, GetAllDocs, LoadMarks, Gate,
      UpToDate, Poll, SaveSequence, SetSequence, EndRound, vars, storeVars
<1>3. CASE PutBatch
  BY <1>3, PutBatchDisk
<1>4. CASE StartRound
  BY <1>4, ForgetDisk DEF StartRound, storeVars
<1>5. CASE Die
  BY <1>5, ForgetDisk DEF Die, storeVars
<1>6. ASSUME NEW p \in Names, Job(p)
      PROVE  DiskInv'
  BY <1>6, GetDocumentDisk, DownloadDisk, WriteCompletedDisk, RemoveFilesDisk,
     DropPackageDisk DEF Job
<1> QED
  BY <1>1, <1>2, <1>3, <1>4, <1>5, <1>6
  DEF Next, Registry, Process, Fault, OneTime, Blocked, Crash, AllDocsFails,
      CommitFails, ChangesFail

\* Of one package: it was mirrored, or the registry never had it.
LEMMA CaughtUpPackage ==
  ASSUME AllInv, DiskInv, NoLostChange, CaughtUp, NEW p \in Names
  PROVE  Exact(p)
<1> USE DEF AllInv, Inv, TypeInv, TypeOK, StoreTypeOK
<1>1. marks[p] # MarkIncomplete
  BY DEF CaughtUp, GetIncompletePackages
<1>2. Mirrored(p)
  <2>1. CASE up[p].seq = 0
    <3>1. up[p].deleted /\ marks[p] = Absent
      BY <2>1 DEF DocumentInv, DocumentOK, ChangeInv, ChangeOK, FirstRunOK
    <3> QED BY <3>1 DEF Mirrored, Kept, KeysAgree
  <2>2. CASE up[p].seq # 0
    <3>1. up[p].seq \in 1 .. sequence
      BY <2>2, Numbers DEF CaughtUp, DocumentInv, DocumentOK
    <3> QED BY <1>1, <3>1 DEF NoLostChange
  <2> QED BY <2>1, <2>2
<1>3. CASE up[p].deleted
  BY <1>2, <1>3 DEF Mirrored, Exact, DiskInv, DiskOK
<1>4. CASE ~ up[p].deleted
  <2>1. packages[p] = up[p].rev /\ documents[p] = up[p].rev
    BY <1>2, <1>4 DEF Mirrored
  <2>2. marks[p] = MarkComplete
    BY <1>1, <2>1, Constants DEF Kept, KeysAgree
  <2>3. Tarballs(documents[p]) \subseteq files[p] /\ files[p] \subseteq disk[p]
    BY <2>1, <2>2 DEF DiskInv, DiskOK, Kept, FilesOnDisk
  <2> QED BY <1>2, <1>4, <2>1, <2>3 DEF Exact
<1> QED BY <1>3, <1>4

\* When the mirror takes itself for done, document, tarballs and deletions are
\* those of the registry, for any number of packages, workers and changes and
\* wherever it was killed before: as long as requests for documents and tarballs
\* are answered, files that are removed go, and sequences that are set are saved.
THEOREM MirrorIsExact ==
  ASSUME "sequence" \notin FaultKinds, "document" \notin FaultKinds,
         "tarball" \notin FaultKinds, "remove" \notin FaultKinds
  PROVE  SafeSpec => []CaughtUpIsExact
<1>1. AllInv /\ DiskInv /\ [Next]_vars => DiskInv'
  BY NextDisk
<1>2. AllInv /\ DiskInv /\ NoLostChange => CaughtUpIsExact
  BY CaughtUpPackage DEF CaughtUpIsExact
<1>3. SafeSpec => []AllInv
  BY AllInvariance
<1>4. SafeSpec => []NoLostChange
  BY ChangesAreKept
<1>5. SafeSpec => []DiskInv
  BY InitDisk, <1>1, <1>3, PTL DEF SafeSpec
<1> QED BY <1>2, <1>3, <1>4, <1>5, PTL

=============================================================================
