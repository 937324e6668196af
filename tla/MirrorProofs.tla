---------------------------- MODULE MirrorProofs ----------------------------
(***************************************************************************)
(* Proofs about Mirror that hold whatever fails: its types, the agreement  *)
(* of the buckets with each other, and of the file lists with the disk;    *)
(* that the bolt database, as the mirror uses it, implements PocketStore;  *)
(* and that its rounds are those of MirrorRound.                           *)
(***************************************************************************)
EXTENDS Mirror, FiniteSetTheorems, TLAPS

-----------------------------------------------------------------------------
(* The invariant the proofs rest on                                        *)

\* What the types need: a sequence is never cut to the bytes it is stored in,
\* and the 404 of a deleted package is never stored as its document.
TypeInv ==
  /\ TypeOK
  /\ sequence <= MaxSeq
  /\ \A p \in Names : at[p] = "ready" => fetched[p] # NotFound

\* A package is under way in a round only, and stays as it was queued until it
\* is settled; what was downloaded of it stays on disk.
RoundKept ==
  \A p \in Names :
    /\ at[p] # "idle" =>
         /\ pc = "round"
         /\ marks[p] = MarkIncomplete
         /\ packages[p] = queuedRev[p]
    /\ at[p] # "removed" => completed[p] \subseteq disk[p]

Kept == RoundKept /\ KeysAgree /\ FilesOnDisk

Inv == TypeInv /\ Kept

-----------------------------------------------------------------------------
(* The constants and the queries                                           *)

\* What the assumptions of the two modules say of the values that are not
\* numbers.
LEMMA Constants ==
  /\ Absent \notin Nat /\ Absent \notin SUBSET (1 .. MaxSeq)
  /\ StatusBody \notin Nat /\ Absent # StatusBody
  /\ Absent # MarkIncomplete /\ Absent # MarkComplete
  /\ MarkIncomplete # MarkComplete
  /\ NotFound \notin Nat /\ NotFound # StatusBody /\ NotFound # Absent
  /\ MaxSeq \in Nat /\ SeqModulus \in Nat \ {0} /\ MaxSeq < SeqModulus
BY MirrorAssumption, StoreAssumption DEF MarkIncomplete, MarkComplete

\* What SeqModulus is for: a sequence that fits is stored as it is.
LEMMA SequenceFits ==
  ASSUME NEW s \in 0 .. MaxSeq
  PROVE  s % SeqModulus = s
BY Constants

\* The counts that Run compares are numbers.
LEMMA CountsAreNumbers ==
  /\ GetItemCount(packages) \in Nat
  /\ GetCountOfMarks(MarkComplete) \in Nat
<1>1. IsFiniteSet(Names)
  BY StoreAssumption
<1> QED
  BY <1>1, FS_Subset, FS_CardinalityType DEF GetItemCount, GetCountOfMarks

\* A revision that is asked for is a number, of a missing package too.
LEMMA RevisionIsNumber ==
  ASSUME StoreTypeOK, NEW p \in Names
  PROVE  GetRevision(p) \in Nat
BY DEF StoreTypeOK, GetRevision

-----------------------------------------------------------------------------
(* Types                                                                   *)

\* The database and the process are of their types before the first start.
LEMMA InitTypes == Init => TypeInv
<1> SUFFICES ASSUME Init PROVE TypeInv
  OBVIOUS
<1>1. StoreTypeOK
  <2>1. initialized \in BOOLEAN
    BY DEF Init, StoreInit
  <2>2. sequence \in 0 .. SeqModulus - 1
    BY Constants DEF Init, StoreInit
  <2>3. files \in [Names -> {Absent} \cup SUBSET Nat]
    BY DEF Init, StoreInit
  <2>4. /\ packages \in [Names -> Nat \cup {Absent}]
        /\ marks \in [Names -> {MarkIncomplete, MarkComplete, Absent}]
        /\ documents \in [Names -> Nat \cup {StatusBody, Absent}]
    BY DEF Init, StoreInit
  <2> QED BY <2>1, <2>2, <2>3, <2>4 DEF StoreTypeOK
<1>2. up \in [Names -> [rev : Nat, deleted : BOOLEAN, seq : 0 .. MaxSeq]]
  BY Constants DEF Init
<1>3. sequence <= MaxSeq
  BY Constants DEF Init, StoreInit
<1> QED BY <1>1, <1>2, <1>3, Constants DEF Init, TypeInv, TypeOK, NoBatch

\* A process that ends forgets only what is in memory.
LEMMA DieTypes ==
  ASSUME TypeInv, Die
  PROVE  TypeInv'
BY Constants DEF TypeInv, TypeOK, StoreTypeOK, Die, NoBatch, registry,
   storeVars, buckets

\* Writing a package keeps the types of the database.
LEMMA PutTypes ==
  ASSUME StoreTypeOK, NEW p \in Names, NEW old \in Nat,
         NEW document \in Nat \cup {StatusBody}, NEW got \in SUBSET Nat,
         \/ PutCompleted(p, old, document, RevisionOf(document), got)
         \/ PutCompletedPartly(p, old, document, RevisionOf(document), got)
  PROVE  StoreTypeOK' /\ sequence' = sequence
<1>1. RevisionOf(document) \in Nat
  BY DEF RevisionOf
<1>2. packages' \in [Names -> Nat \cup {Absent}]
  BY <1>1 DEF PutCompleted, PutCompletedPartly, PutRevision, StoreTypeOK
<1>3. CASE PutCompleted(p, old, document, RevisionOf(document), got)
  BY <1>2, <1>3 DEF PutCompleted, StoreTypeOK
<1>4. CASE PutCompletedPartly(p, old, document, RevisionOf(document), got)
  BY <1>2, <1>4 DEF PutCompletedPartly, StoreTypeOK
<1> QED BY <1>3, <1>4

\* A download tries a tarball, which then is on disk and reported or is not, or
\* finds that none is left.
LEMMA DownloadStep ==
  ASSUME TypeOK, NEW p \in Names, Download(p)
  PROVE  /\ at[p] = "fetched"
         /\ \/ at' = at
            \/ at' = [at EXCEPT ![p] = "ready"] /\ wanted'[p] = {}
         /\ \E got \in SUBSET wanted[p] :
              /\ completed' = [completed EXCEPT ![p] = @ \cup got]
              /\ disk' = [disk EXCEPT ![p] = @ \cup got]
         /\ \E rest \in SUBSET wanted[p] :
              wanted' = [wanted EXCEPT ![p] = rest]
<1>1. CASE wanted[p] = {} /\ UNCHANGED <<wanted, completed, disk>>
  <2>1. /\ completed = [completed EXCEPT ![p] = @ \cup {}]
        /\ disk = [disk EXCEPT ![p] = @ \cup {}]
        /\ wanted = [wanted EXCEPT ![p] = {}]
    BY <1>1 DEF TypeOK
  <2> QED BY <1>1, <2>1 DEF Download
<1>2. ASSUME NEW t \in wanted[p], Try(p, t)
      PROVE  /\ \E got \in SUBSET wanted[p] :
                  /\ completed' = [completed EXCEPT ![p] = @ \cup got]
                  /\ disk' = [disk EXCEPT ![p] = @ \cup got]
             /\ wanted' = [wanted EXCEPT ![p] = @ \ {t}]
  BY <1>2 DEF Try, Got
<1>3. \E rest \in SUBSET wanted[p] : wanted' = [wanted EXCEPT ![p] = rest]
  BY <1>1, <1>2 DEF Download, TypeOK
<1>4. /\ at[p] = "fetched"
      /\ \/ at' = at
         \/ at' = [at EXCEPT ![p] = "ready"] /\ wanted'[p] = {}
  BY DEF Download
<1>5. \E got \in SUBSET wanted[p] :
        /\ completed' = [completed EXCEPT ![p] = @ \cup got]
        /\ disk' = [disk EXCEPT ![p] = @ \cup got]
  <2>1. CASE wanted[p] = {} /\ UNCHANGED <<wanted, completed, disk>>
    <3>1. /\ completed' = [completed EXCEPT ![p] = @ \cup {}]
          /\ disk' = [disk EXCEPT ![p] = @ \cup {}]
      BY <2>1 DEF TypeOK
    <3> QED BY <3>1
  <2> QED BY <2>1, <1>2 DEF Download
<1> QED BY <1>3, <1>4, <1>5

\* Every step keeps the types.
LEMMA NextTypes ==
  ASSUME TypeInv, [Next]_vars
  PROVE  TypeInv'
<1> USE DEF TypeInv
<1>1. ASSUME NEW p \in Names, NEW delete \in BOOLEAN, Change(p, delete)
      PROVE  TypeInv'
  <2>1. upSeq' \in 0 .. MaxSeq
    BY <1>1, Constants DEF Change, TypeOK
  <2>2. up' \in [Names -> [rev : Nat, deleted : BOOLEAN, seq : 0 .. MaxSeq]]
    <3>1. [rev |-> up[p].rev + 1, deleted |-> delete, seq |-> upSeq + 1]
             \in [rev : Nat, deleted : BOOLEAN, seq : 0 .. MaxSeq]
      BY <1>1, <2>1, Constants DEF Change, TypeOK
    <3> QED BY <1>1, <3>1 DEF Change, TypeOK
  <2> QED
    BY <1>1, <2>1, <2>2
    DEF Change, TypeOK, StoreTypeOK, storeVars, buckets, memory, pending, round
<1>2. CASE Restart
  BY <1>2 DEF Restart, TypeOK, StoreTypeOK, registry, storeVars, buckets,
     memory, pending, round
<1>3. CASE Initialize
  <2>1. StoreTypeOK' /\ sequence' <= MaxSeq
    <3>1. CASE UNCHANGED storeVars
      BY <3>1 DEF TypeOK, StoreTypeOK, storeVars, buckets
    <3>2. CASE InitBuckets
      BY <3>2, Constants DEF InitBuckets, TypeOK, StoreTypeOK, buckets
    <3> QED BY <1>3, <3>1, <3>2 DEF Initialize
  <2> QED
    BY <1>3, <2>1 DEF Initialize, TypeOK, registry, memory, pending, round
<1>4. CASE LoadStats
  <2>1. seq' \in 0 .. MaxSeq /\ cachedSeq' \in 0 .. MaxSeq
    BY <1>4, Constants DEF LoadStats, TypeOK, StoreTypeOK
  <2> QED
    BY <1>4, <2>1, CountsAreNumbers
    DEF LoadStats, TypeOK, StoreTypeOK, registry, storeVars, buckets, pending,
        round
<1>5. CASE GetAllDocs
  BY <1>5 DEF GetAllDocs, TypeOK, StoreTypeOK, registry, storeVars, buckets,
     memory, round
<1>6. CASE LoadMarks
  BY <1>6, CountsAreNumbers
  DEF LoadMarks, TypeOK, StoreTypeOK, registry, storeVars, buckets, pending,
      round
<1>7. CASE Gate
  BY <1>7 DEF Gate, GetSequence, TypeOK, StoreTypeOK, registry, storeVars,
     buckets, pending, round
<1>8. CASE UpToDate
  BY <1>8 DEF UpToDate, GetSequence, TypeOK, StoreTypeOK, registry, storeVars,
     buckets, pending, round
<1>9. CASE Poll
  <2>1. PICK since \in 0 .. MaxSeq \ {upSeq} :
          /\ GetSequence(since)
          /\ batch' = [p \in Names |->
                         IF up[p].seq > since /\ Outdated(p)
                         THEN up[p].rev ELSE Absent]
    BY <1>9 DEF Poll
  <2>2. cachedSeq' \in 0 .. MaxSeq
    BY <2>1 DEF GetSequence
  <2>3. batch' \in [Names -> Nat \cup {Absent}]
    BY <2>1 DEF TypeOK
  <2> QED
    BY <1>9, <2>2, <2>3 DEF Poll, TypeOK, StoreTypeOK, registry, storeVars,
       buckets, round
<1>10. CASE PutBatch
  <2>1. StoreTypeOK' /\ sequence' = sequence
    BY <1>10 DEF PutBatch, PutPackages, TypeOK, StoreTypeOK
  <2> QED
    BY <1>10, <2>1 DEF PutBatch, TypeOK, NoBatch, registry, memory, round
<1>11. CASE SaveSequence
  <2>1. StoreTypeOK' /\ sequence' <= MaxSeq
    <3>1. CASE SetSequence(lastSeq)
      <4>1. sequence' = lastSeq /\ lastSeq \in 0 .. MaxSeq
        BY <3>1, SequenceFits DEF SetSequence, TypeOK
      <4>2. sequence' \in 0 .. SeqModulus - 1 /\ sequence' <= MaxSeq
        BY <4>1, Constants
      <4> QED BY <3>1, <4>2 DEF SetSequence, TypeOK, StoreTypeOK, buckets
    <3>2. CASE UNCHANGED storeVars
      BY <3>2 DEF storeVars, TypeOK, StoreTypeOK, buckets
    <3> QED BY <1>11, <3>1, <3>2 DEF SaveSequence
  <2> QED
    BY <1>11, <2>1, Constants DEF SaveSequence, TypeOK, registry, round
<1>12. CASE StartRound
  <2>1. queuedRev' \in [Names -> Nat]
    BY <1>12, RevisionIsNumber DEF StartRound, TypeOK
  <2> QED
    BY <1>12, <2>1
    DEF StartRound, TypeOK, StoreTypeOK, registry, storeVars, buckets, memory,
        pending
<1>13. CASE EndRound
  BY <1>13 DEF EndRound, TypeOK, StoreTypeOK, registry, storeVars, buckets,
     memory, pending, round
<1>14. ASSUME NEW p \in Names, GetDocument(p)
       PROVE  TypeInv'
  <2>1. fetched' \in [Names -> Nat \cup {StatusBody, NotFound}]
    BY <1>14 DEF GetDocument, Answers, TypeOK
  <2>2. \A q \in Names : at'[q] = "ready" => fetched'[q] # NotFound
    BY <1>14 DEF GetDocument, TypeOK
  <2>3. wanted' \in [Names -> SUBSET Nat]
    BY <1>14 DEF GetDocument, Tarballs, TypeOK
  <2> QED
    BY <1>14, <2>1, <2>2, <2>3
    DEF GetDocument, TypeOK, StoreTypeOK, registry, storeVars, buckets, memory,
        pending
<1>15. ASSUME NEW p \in Names, Download(p)
       PROVE  TypeInv'
  <2>1. wanted[p] \in SUBSET Nat
    BY DEF TypeOK
  <2>2. /\ \E got \in SUBSET wanted[p] :
             /\ completed' = [completed EXCEPT ![p] = @ \cup got]
             /\ disk' = [disk EXCEPT ![p] = @ \cup got]
        /\ \E rest \in SUBSET wanted[p] :
             wanted' = [wanted EXCEPT ![p] = rest]
        /\ at' = at \/ at' = [at EXCEPT ![p] = "ready"]
    BY <1>15, DownloadStep
  <2>3. /\ disk' \in [Names -> SUBSET Nat] /\ completed' \in [Names -> SUBSET Nat]
        /\ wanted' \in [Names -> SUBSET Nat]
    <3>1. PICK got \in SUBSET wanted[p] :
            /\ completed' = [completed EXCEPT ![p] = @ \cup got]
            /\ disk' = [disk EXCEPT ![p] = @ \cup got]
      BY <2>2
    <3>2. PICK rest \in SUBSET wanted[p] :
            wanted' = [wanted EXCEPT ![p] = rest]
      BY <2>2
    <3>3. got \in SUBSET Nat /\ rest \in SUBSET Nat
      BY <2>1
    <3>4. wanted' \in [Names -> SUBSET Nat]
      BY <3>2, <3>3 DEF TypeOK
    <3> QED BY <3>1, <3>3, <3>4 DEF TypeOK
  <2>4. \A q \in Names : at'[q] = "ready" => fetched'[q] # NotFound
    BY <1>15 DEF Download, Gone, TypeOK
  <2> QED
    BY <1>15, <2>3, <2>4
    DEF Download, TypeOK, StoreTypeOK, registry, storeVars, buckets, memory,
        pending
<1>16. ASSUME NEW p \in Names, Settle(p)
       PROVE  (at' \in [Names -> {"idle", "queued", "fetched", "ready", "removed"}]
               /\ queuedRev' \in [Names -> Nat]
               /\ fetched' \in [Names -> Nat \cup {StatusBody, NotFound}]
               /\ wanted' \in [Names -> SUBSET Nat]
               /\ completed' \in [Names -> SUBSET Nat])
  BY <1>16 DEF Settle, TypeOK
<1>17. ASSUME NEW p \in Names, WriteCompleted(p)
       PROVE  TypeInv'
  <2>1. StoreTypeOK' /\ sequence' = sequence
    <3>1. CASE UNCHANGED storeVars
      BY <3>1 DEF storeVars, TypeOK, StoreTypeOK, buckets
    <3>2. /\ queuedRev[p] \in Nat /\ completed[p] \in SUBSET Nat
          /\ fetched[p] \in Nat \cup {StatusBody}
      BY <1>17 DEF WriteCompleted, TypeOK
    <3> QED BY <1>17, <3>1, <3>2, PutTypes DEF WriteCompleted, CompletedFiles, TypeOK
  <2>2. \A q \in Names : at'[q] = "ready" => fetched'[q] # NotFound
    BY <1>17 DEF WriteCompleted, Settle, TypeOK
  <2> QED
    BY <1>17, <1>16, <2>1, <2>2
    DEF WriteCompleted, TypeOK, registry, memory, pending
<1>18. ASSUME NEW p \in Names, RemoveFiles(p)
       PROVE  TypeInv'
  BY <1>18 DEF RemoveFiles, TypeOK, StoreTypeOK, registry, storeVars, buckets,
     memory, pending
<1>19. ASSUME NEW p \in Names, DropPackage(p)
       PROVE  TypeInv'
  <2>1. StoreTypeOK' /\ sequence' = sequence
    <3>1. CASE UNCHANGED storeVars
      BY <3>1 DEF storeVars, TypeOK, StoreTypeOK, buckets
    <3>2. CASE DeletePackage(p)
      BY <3>2 DEF DeletePackage, TypeOK, StoreTypeOK
    <3> QED BY <1>19, <3>1, <3>2 DEF DropPackage
  <2>2. \A q \in Names : at'[q] = "ready" => fetched'[q] # NotFound
    BY <1>19 DEF DropPackage, Settle, TypeOK
  <2> QED
    BY <1>19, <1>16, <2>1, <2>2
    DEF DropPackage, TypeOK, registry, memory, pending
<1>20. CASE Die
  BY <1>20, DieTypes
<1>21. CASE UNCHANGED vars
  BY <1>21 DEF vars, TypeOK, StoreTypeOK, registry, storeVars, buckets, memory,
     pending, round
<1> QED
  BY <1>1, <1>2, <1>3, <1>4, <1>5, <1>6, <1>7, <1>8, <1>9, <1>10, <1>11, <1>12,
     <1>13, <1>14, <1>15, <1>17, <1>18, <1>19, <1>20, <1>21
  DEF Next, Registry, Process, Job, Fault, OneTime, Blocked, Crash,
      AllDocsFails, CommitFails, ChangesFail

\* Every variable keeps its type, whatever fails and wherever the process is
\* killed (npm/mirror.go, db/bolt_backend.go).
THEOREM TypeCorrect == SafeSpec => []TypeOK
<1>1. TypeInv /\ [Next]_vars => TypeInv'
  BY NextTypes
<1>2. TypeInv => TypeOK
  BY DEF TypeInv
<1> QED BY InitTypes, <1>1, <1>2, PTL DEF SafeSpec

-----------------------------------------------------------------------------
(* The buckets and the files                                               *)

\* Nothing is claimed of a database file that was just created.
LEMMA InitInv == Init => Inv
<1> SUFFICES ASSUME Init PROVE Inv
  OBVIOUS
<1>1. RoundKept
  BY DEF Init, RoundKept
<1>2. KeysAgree /\ FilesOnDisk
  BY Constants DEF Init, StoreInit, KeysAgree, FilesOnDisk
<1> QED BY <1>1, <1>2, InitTypes DEF Inv, Kept

\* A step that writes neither buckets nor files and starts nothing in a round
\* can only end the round, and does so when every package is settled.
LEMMA QuietStep ==
  ASSUME Inv, UNCHANGED <<buckets, disk, round>>,
         \/ pc' = pc
         \/ pc # "round"
         \/ \A p \in Names : at[p] = "idle"
  PROVE  Kept'
BY DEF Inv, Kept, RoundKept, KeysAgree, FilesOnDisk, buckets, round

\* Death settles every package: buckets and files stay as they are.
LEMMA DieKeeps ==
  ASSUME Inv, Die
  PROVE  Kept'
BY DEF Inv, Kept, RoundKept, KeysAgree, FilesOnDisk, Die, registry, storeVars,
   buckets

\* Between rounds no package is under way.
LEMMA OutsideRound ==
  ASSUME RoundKept, pc # "round", NEW p \in Names
  PROVE  at[p] = "idle"
BY DEF RoundKept

\* Settling one package leaves the others where they are in their round.
LEMMA Settled ==
  ASSUME TypeOK, RoundKept, NEW p \in Names, Settle(p), pc' = pc, disk' = disk,
         \A q \in Names \ {p} :
           marks'[q] = marks[q] /\ packages'[q] = packages[q]
  PROVE  RoundKept'
BY DEF TypeOK, RoundKept, Settle

\* A batch is put between rounds, and puts revision and mark together.
LEMMA PutBatchKeeps ==
  ASSUME Inv, PutBatch
  PROVE  Kept'
<1>1. RoundKept'
  BY OutsideRound DEF Inv, Kept, PutBatch, RoundKept, round
<1>2. KeysAgree'
  BY Constants DEF Inv, Kept, TypeInv, TypeOK, StoreTypeOK, PutBatch,
     PutPackages, KeysAgree
<1>3. FilesOnDisk'
  BY Constants DEF Inv, Kept, TypeInv, TypeOK, StoreTypeOK, PutBatch,
     PutPackages, FilesOnDisk
<1> QED BY <1>1, <1>2, <1>3 DEF Kept

\* A round starts with what is marked incomplete, under the revisions there are.
LEMMA StartRoundKeeps ==
  ASSUME Inv, StartRound
  PROVE  Kept'
<1>1. ASSUME NEW p \in Names, marks[p] = MarkIncomplete
      PROVE  GetRevision(p) = packages[p]
  BY <1>1, Constants DEF Inv, Kept, KeysAgree, GetRevision
<1>2. \A p \in Names : completed[p] \subseteq disk[p]
  BY OutsideRound DEF Inv, Kept, RoundKept, StartRound
<1>3. RoundKept'
  BY <1>1, <1>2
  DEF StartRound, RoundKept, GetIncompletePackages, storeVars, buckets
<1> QED
  BY <1>3 DEF Inv, Kept, StartRound, KeysAgree, FilesOnDisk, storeVars, buckets

\* Fetching a document touches neither the database nor the files.
LEMMA GetDocumentKeeps ==
  ASSUME Inv, NEW p \in Names, GetDocument(p)
  PROVE  Kept'
BY DEF Inv, Kept, TypeInv, TypeOK, GetDocument, RoundKept, KeysAgree,
   FilesOnDisk, storeVars, buckets

\* A download only adds files, and reports those that are there.
LEMMA DownloadKeeps ==
  ASSUME Inv, NEW p \in Names, Download(p)
  PROVE  Kept'
<1>0. /\ at[p] = "fetched"
      /\ at' = at \/ at' = [at EXCEPT ![p] = "ready"]
  BY DownloadStep DEF Inv, TypeInv
<1>1. PICK got \in SUBSET wanted[p] :
        /\ completed' = [completed EXCEPT ![p] = @ \cup got]
        /\ disk' = [disk EXCEPT ![p] = @ \cup got]
  BY DownloadStep DEF Inv, TypeInv
<1>2. \A q \in Names : disk[q] \subseteq disk'[q]
  BY <1>1 DEF Inv, Kept, TypeInv, TypeOK
<1>3. completed'[p] \subseteq disk'[p]
  BY <1>0, <1>1 DEF Inv, Kept, TypeInv, TypeOK, RoundKept
<1>4. RoundKept'
  BY <1>0, <1>1, <1>2, <1>3
  DEF Inv, Kept, TypeInv, TypeOK, RoundKept, Download, storeVars, buckets
<1> QED
  BY <1>2, <1>4
  DEF Inv, Kept, Download, KeysAgree, FilesOnDisk, storeVars, buckets

\* A completed package lists what it has just put on disk; one whose Put failed
\* stays incomplete.
LEMMA WriteCompletedKeeps ==
  ASSUME Inv, NEW p \in Names, WriteCompleted(p)
  PROVE  Kept'
<1> DEFINE old == queuedRev[p]
           document == fetched[p]
           revision == RevisionOf(fetched[p])
           downloads == completed[p]
<1>1. /\ marks[p] = MarkIncomplete
      /\ packages[p] # Absent
      /\ downloads \subseteq disk[p]
  BY Constants DEF Inv, Kept, RoundKept, KeysAgree, WriteCompleted
<1>2. /\ document \in Nat \cup {StatusBody} /\ document # Absent
      /\ revision \in Nat /\ revision # Absent
      /\ downloads \in SUBSET Nat
  BY Constants DEF Inv, Kept, TypeInv, TypeOK, WriteCompleted, RevisionOf
<1>3. CASE UNCHANGED storeVars
  <2>1. RoundKept'
    BY <1>3, Settled DEF Inv, Kept, TypeInv, WriteCompleted, storeVars, buckets
  <2> QED
    BY <1>3, <2>1
    DEF Inv, Kept, WriteCompleted, KeysAgree, FilesOnDisk, storeVars, buckets
<1> HIDE DEF document, revision, downloads, old
<1>4. ASSUME PutRevision(p, old, revision)
      PROVE  /\ packages'[p] # Absent
             /\ \A q \in Names \ {p} : packages'[q] = packages[q]
  BY <1>1, <1>2, <1>4 DEF Inv, Kept, TypeInv, TypeOK, StoreTypeOK, PutRevision
<1>5. CASE PutCompleted(p, old, document, revision, downloads)
  <2>1. /\ packages'[p] # Absent
        /\ \A q \in Names \ {p} : packages'[q] = packages[q]
    BY <1>4, <1>5 DEF PutCompleted
  <2>2. RoundKept'
    BY <1>5, <2>1, Settled
    DEF Inv, Kept, TypeInv, TypeOK, StoreTypeOK, WriteCompleted, PutCompleted
  <2>3. KeysAgree'
    BY <1>5, <1>2, <2>1, Constants
    DEF Inv, Kept, TypeInv, TypeOK, StoreTypeOK, PutCompleted, KeysAgree
  <2>4. FilesOnDisk'
    BY <1>5, <1>1
    DEF Inv, Kept, TypeInv, TypeOK, StoreTypeOK, PutCompleted, FilesOnDisk,
        WriteCompleted
  <2> QED BY <2>2, <2>3, <2>4 DEF Kept
<1>6. CASE PutCompletedPartly(p, old, document, revision, downloads)
  <2>1. /\ packages'[p] # Absent
        /\ \A q \in Names \ {p} : packages'[q] = packages[q]
    BY <1>4, <1>6 DEF PutCompletedPartly
  <2>2. RoundKept'
    BY <1>6, <2>1, Settled
    DEF Inv, Kept, TypeInv, TypeOK, StoreTypeOK, WriteCompleted,
        PutCompletedPartly
  <2>3. KeysAgree'
    BY <1>6, <1>2, <1>1, <2>1, Constants
    DEF Inv, Kept, TypeInv, TypeOK, StoreTypeOK, PutCompletedPartly, KeysAgree
  <2>4. FilesOnDisk'
    BY <1>6, <1>1, Constants
    DEF Inv, Kept, TypeInv, TypeOK, StoreTypeOK, PutCompletedPartly,
        FilesOnDisk, WriteCompleted
  <2> QED BY <2>2, <2>3, <2>4 DEF Kept
<1> QED
  BY <1>3, <1>5, <1>6
  DEF WriteCompleted, CompletedFiles, old, document, revision, downloads

\* The files that are removed belong to a package that is not complete.
LEMMA RemoveFilesKeeps ==
  ASSUME Inv, NEW p \in Names, RemoveFiles(p)
  PROVE  Kept'
<1>1. marks[p] # MarkComplete
  BY Constants DEF Inv, Kept, RoundKept, RemoveFiles
<1>2. RoundKept'
  BY DEF Inv, Kept, TypeInv, TypeOK, RoundKept, RemoveFiles, storeVars, buckets
<1> QED
  BY <1>1, <1>2
  DEF Inv, Kept, TypeInv, TypeOK, RemoveFiles, KeysAgree, FilesOnDisk,
      storeVars, buckets

\* A package that is gone leaves all four buckets at once.
LEMMA DropPackageKeeps ==
  ASSUME Inv, NEW p \in Names, DropPackage(p)
  PROVE  Kept'
<1>1. CASE UNCHANGED storeVars
  <2>1. RoundKept'
    BY <1>1, Settled DEF Inv, Kept, TypeInv, DropPackage, storeVars, buckets
  <2> QED
    BY <1>1, <2>1
    DEF Inv, Kept, DropPackage, KeysAgree, FilesOnDisk, storeVars, buckets
<1>2. CASE DeletePackage(p)
  <2>1. RoundKept'
    BY <1>2, Settled
    DEF Inv, Kept, TypeInv, TypeOK, StoreTypeOK, DropPackage, DeletePackage
  <2>2. KeysAgree'
    BY <1>2 DEF Inv, Kept, TypeInv, TypeOK, StoreTypeOK, DeletePackage,
       KeysAgree
  <2>3. FilesOnDisk'
    BY <1>2, Constants
    DEF Inv, Kept, TypeInv, TypeOK, StoreTypeOK, DropPackage, DeletePackage,
        FilesOnDisk
  <2> QED BY <2>1, <2>2, <2>3 DEF Kept
<1> QED BY <1>1, <1>2 DEF DropPackage

\* Every step keeps the invariant.
LEMMA NextInv ==
  ASSUME Inv, [Next]_vars
  PROVE  Inv'
<1>1. TypeInv'
  BY NextTypes DEF Inv
<1>2. SUFFICES Kept'
  BY <1>1 DEF Inv
<1>3. ASSUME NEW p \in Names, NEW delete \in BOOLEAN, Change(p, delete)
      PROVE  Kept'
  BY <1>3, QuietStep DEF Change, storeVars
<1>4. CASE Restart
  BY <1>4, QuietStep DEF Restart, storeVars
<1>5. CASE Initialize
  BY <1>5, QuietStep DEF Initialize, InitBuckets, storeVars
<1>6. CASE LoadStats
  BY <1>6, QuietStep DEF LoadStats, storeVars
<1>7. CASE GetAllDocs
  BY <1>7, QuietStep DEF GetAllDocs, storeVars
<1>8. CASE LoadMarks
  BY <1>8, QuietStep DEF LoadMarks, storeVars
<1>9. CASE Gate
  BY <1>9, QuietStep DEF Gate, storeVars
<1>10. CASE UpToDate
  BY <1>10, QuietStep DEF UpToDate, storeVars
<1>11. CASE Poll
  BY <1>11, QuietStep DEF Poll, storeVars
<1>12. CASE SaveSequence
  BY <1>12, QuietStep DEF SaveSequence, SetSequence, storeVars
<1>13. CASE EndRound
  BY <1>13, QuietStep DEF EndRound, storeVars
<1>14. CASE UNCHANGED vars
  BY <1>14, QuietStep DEF vars, storeVars
<1>15. CASE Die
  BY <1>15, DieKeeps
<1>16. CASE PutBatch
  BY <1>16, PutBatchKeeps
<1>17. CASE StartRound
  BY <1>17, StartRoundKeeps
<1>18. ASSUME NEW p \in Names, Job(p)
       PROVE  Kept'
  BY <1>18, GetDocumentKeeps, DownloadKeeps, WriteCompletedKeeps, RemoveFilesKeeps,
     DropPackageKeeps DEF Job
<1> QED
  BY <1>3, <1>4, <1>5, <1>6, <1>7, <1>8, <1>9, <1>10, <1>11, <1>12, <1>13,
     <1>14, <1>15, <1>16, <1>17, <1>18
  DEF Next, Registry, Process, Fault, OneTime, Blocked, Crash, AllDocsFails,
      CommitFails, ChangesFail

\* The invariant holds in every state, whatever fails.
THEOREM Invariance == SafeSpec => []Inv
<1>1. Inv /\ [Next]_vars => Inv'
  BY NextInv
<1> QED BY InitInv, <1>1, PTL DEF SafeSpec

\* The buckets of db/bolt_backend.go agree on which packages there are, however
\* the transactions of the rounds, of the updates and of the deletions
\* interleave, fail or are cut short.
THEOREM BucketsAgree == SafeSpec => []KeysAgree
<1>1. Inv => KeysAgree
  BY DEF Inv, Kept
<1> QED BY Invariance, <1>1, PTL

\* No file listed for a completed package is ever removed from the disk
\* (mirror.go:107-125), for any number of packages, workers and changes.
THEOREM CompletedOnDisk == SafeSpec => []FilesOnDisk
<1>1. Inv => FilesOnDisk
  BY DEF Inv, Kept
<1> QED BY Invariance, <1>1, PTL

-----------------------------------------------------------------------------
(* The bolt database implements PocketStore, whatever fails and wherever   *)
(* the process is killed: what the mapping needs                           *)

\* A process that is past its start-up has an initialised database.
Running == pc \notin {"down", "initialize"} => initialized

\* Only the start-up initialises a database, and nothing undoes it.
LEMMA RunningStep ==
  ASSUME Running, [Next]_vars
  PROVE  Running'
BY DEF Running, Next, vars, registry, storeVars, buckets, memory, pending, round,
   Registry, Change, Restart, Process, Job, Fault, Initialize, InitBuckets,
   IsInitialized, LoadStats, GetAllDocs, LoadMarks, OneTime, Gate, Blocked,
   Poll, UpToDate, PutBatch, PutPackages, SaveSequence, SetSequence, StartRound,
   EndRound, GetDocument, Download, WriteCompleted, PutCompleted,
   PutCompletedPartly, RemoveFiles, DropPackage, DeletePackage, Crash,
   AllDocsFails, CommitFails, ChangesFail, Die

\* Entries whose buckets are unchanged are unchanged.
LEMMA SameRow ==
  ASSUME NEW p \in Names,
         packages'[p] = packages[p], marks'[p] = marks[p],
         documents'[p] = documents[p], files'[p] = files[p]
  PROVE  Rows'[p] = Rows[p]
BY DEF Rows, Row, GetRevision

\* A step that leaves the database alone is a stutter of the store.
LEMMA StoreStutter ==
  ASSUME UNCHANGED storeVars
  PROVE  UNCHANGED Store!vars
<1>1. Rows' = Rows
  BY DEF storeVars, buckets, Rows, Row, GetRevision
<1> QED BY <1>1 DEF storeVars, Store!vars

\* A package under way is an incomplete entry.
LEMMA UnderWay ==
  ASSUME Inv, NEW p \in Names, at[p] # "idle"
  PROVE  Store!Incomplete(Rows[p]) /\ packages[p] # Absent
BY Constants DEF Inv, Kept, RoundKept, KeysAgree, Store!Incomplete, Rows, Row,
   MarkIncomplete, MarkComplete

-----------------------------------------------------------------------------
(* The transactions                                                        *)

\* The transaction of PutPackages is that of the abstract store.
LEMMA PutIsPut ==
  ASSUME Inv, Running, PutBatch
  PROVE  Store!PutPackages
<1>1. /\ packages' = [p \in Names |->
                        IF batch[p] = Absent THEN packages[p] ELSE batch[p]]
      /\ marks' = [p \in Names |->
                     IF batch[p] = Absent THEN marks[p] ELSE MarkIncomplete]
      /\ UNCHANGED <<initialized, sequence, documents, files>>
  BY DEF PutBatch, PutPackages
<1>2. ASSUME NEW p \in Names
      PROVE  Store!Queued(p) \/ Rows'[p] = Rows[p]
  <2>1. CASE batch[p] = Absent
    BY <1>1, <2>1, SameRow
  <2>2. CASE batch[p] # Absent
    <3>1. /\ packages'[p] # Absent /\ marks'[p] # MarkComplete
          /\ documents'[p] = documents[p] /\ files'[p] = files[p]
      BY <1>1, <2>2, Constants
    <3>2. Store!Incomplete(Rows'[p])
      BY <3>1 DEF Store!Incomplete, Rows, Row
    <3>3. Rows'[p].document = Rows[p].document /\ Rows'[p].files = Rows[p].files
      BY <3>1 DEF Rows, Row
    <3> QED BY <3>2, <3>3 DEF Store!Queued
  <2> QED BY <2>1, <2>2
<1> QED BY <1>1, <1>2 DEF Store!PutPackages, Running, PutBatch

\* What a transaction about one package leaves of the others.
LEMMA OnlyOne ==
  ASSUME StoreTypeOK, NEW p \in Names,
         \A q \in Names \ {p} :
           /\ packages'[q] = packages[q] /\ marks'[q] = marks[q]
           /\ documents'[q] = documents[q] /\ files'[q] = files[q]
  PROVE  Store!Others(p)
BY SameRow DEF Store!Others

\* PutCompleted, whole or failed half way, is one of the abstract store.
LEMMA WriteIsWrite ==
  ASSUME Inv, NEW p \in Names, WriteCompleted(p)
  PROVE  [Store!Next]_(Store!vars)
<1> USE DEF Inv, TypeInv, TypeOK
<1>1. Store!Incomplete(Rows[p]) /\ packages[p] # Absent /\ marks[p] = MarkIncomplete
  BY UnderWay DEF WriteCompleted, Kept, RoundKept
<1>2. RevisionOf(fetched[p]) # Absent
  BY Constants DEF RevisionOf
<1>3. CASE UNCHANGED storeVars
  BY <1>3, StoreStutter
<1>4. CASE PutCompleted(p, queuedRev[p], fetched[p], RevisionOf(fetched[p]),
                        completed[p])
  <2>1. Store!Others(p)
    BY <1>4, OnlyOne DEF PutCompleted, PutRevision, StoreTypeOK
  <2>2. packages'[p] # Absent /\ marks'[p] = MarkComplete
    BY <1>1, <1>2, <1>4 DEF PutCompleted, PutRevision, StoreTypeOK
  <2>3. Rows'[p].there /\ Rows'[p].marked
    BY <2>2 DEF Rows, Row
  <2> QED
    BY <1>1, <1>4, <2>1, <2>3 DEF PutCompleted, Store!PutCompleted, Store!Next
<1>5. CASE PutCompletedPartly(p, queuedRev[p], fetched[p],
                              RevisionOf(fetched[p]), completed[p])
  <2>1. Store!Others(p)
    BY <1>5, OnlyOne DEF PutCompletedPartly, PutRevision, StoreTypeOK
  <2>2. packages'[p] # Absent /\ marks'[p] = MarkIncomplete
    BY <1>1, <1>2, <1>5 DEF PutCompletedPartly, PutRevision, StoreTypeOK
  <2>3. Store!Incomplete(Rows'[p])
    BY <2>2, Constants DEF Rows, Row, Store!Incomplete
  <2> QED
    BY <1>1, <1>5, <2>1, <2>3
    DEF PutCompletedPartly, Store!PutCompletedFails, Store!Next
<1> QED BY <1>3, <1>4, <1>5 DEF WriteCompleted, CompletedFiles

\* DeletePackage, or its failure, is one of the abstract store.
LEMMA DropIsDelete ==
  ASSUME Inv, NEW p \in Names, DropPackage(p)
  PROVE  [Store!Next]_(Store!vars)
<1> USE DEF Inv, TypeInv, TypeOK
<1>1. Store!Incomplete(Rows[p])
  BY UnderWay DEF DropPackage
<1>2. CASE UNCHANGED storeVars
  BY <1>2, StoreStutter
<1>3. CASE DeletePackage(p)
  <2>1. Store!Others(p)
    BY <1>3, OnlyOne DEF DeletePackage, StoreTypeOK
  <2>2. /\ packages'[p] = Absent /\ marks'[p] = Absent
        /\ documents'[p] = Absent /\ files'[p] = Absent
    BY <1>3 DEF DeletePackage, StoreTypeOK
  <2>3. Rows'[p] = Store!NoRow
    BY <2>2, Constants DEF Rows, Row, GetRevision, Store!NoRow
  <2> QED
    BY <1>1, <1>3, <2>1, <2>3 DEF DeletePackage, Store!DeletePackage, Store!Next
<1> QED BY <1>2, <1>3 DEF DropPackage

-----------------------------------------------------------------------------
(* Every step                                                              *)

\* Empty buckets are an empty store.
LEMMA StoreStarts == Init => Store!Init /\ Running
<1> SUFFICES ASSUME Init PROVE Store!Init /\ Running
  OBVIOUS
<1>1. ASSUME NEW p \in Names PROVE Rows[p] = Store!NoRow
  BY Constants DEF Init, StoreInit, Rows, Row, GetRevision, Store!NoRow
<1> QED BY <1>1 DEF Init, StoreInit, Store!Init, Running

\* Every step of the mirroring process is one of the store, or leaves it alone.
LEMMA StoreStep ==
  ASSUME Inv, Running, [Next]_vars
  PROVE  [Store!Next]_(Store!vars)
<1>1. CASE UNCHANGED storeVars
  BY <1>1, StoreStutter
<1>2. CASE Initialize
  <2>1. CASE UNCHANGED storeVars
    BY <2>1, StoreStutter
  <2>2. CASE ~ initialized /\ InitBuckets
    <3>1. Rows' = Rows
      BY <2>2 DEF InitBuckets, buckets, Rows, Row, GetRevision
    <3> QED BY <2>2, <3>1 DEF InitBuckets, Store!Initialize, Store!Next
  <2> QED BY <1>2, <2>1, <2>2 DEF Initialize, IsInitialized
<1>3. CASE PutBatch
  BY <1>3, PutIsPut DEF Store!Next
<1>4. CASE SaveSequence
  <2>1. CASE UNCHANGED storeVars
    BY <2>1, StoreStutter
  <2>2. CASE SetSequence(lastSeq)
    <3>1. Rows' = Rows
      BY <2>2 DEF SetSequence, buckets, Rows, Row, GetRevision
    <3> QED
      BY <1>4, <2>2, <3>1
      DEF SaveSequence, SetSequence, Running, Store!SetSequence, Store!Next
  <2> QED BY <1>4, <2>1, <2>2 DEF SaveSequence
<1>5. ASSUME NEW p \in Names, WriteCompleted(p)
      PROVE  [Store!Next]_(Store!vars)
  BY <1>5, WriteIsWrite
<1>6. ASSUME NEW p \in Names, DropPackage(p)
      PROVE  [Store!Next]_(Store!vars)
  BY <1>6, DropIsDelete
<1>7. ASSUME NEW p \in Names, GetDocument(p) \/ Download(p) \/ RemoveFiles(p)
      PROVE  UNCHANGED storeVars
  BY <1>7 DEF GetDocument, Download, RemoveFiles
<1>8. Registry => UNCHANGED storeVars
  BY DEF Registry, Change
<1>9. Restart \/ Fault \/ Blocked \/ UpToDate => UNCHANGED storeVars
  BY DEF Restart, Fault, Blocked, UpToDate, vars, Crash, AllDocsFails,
     CommitFails, ChangesFail, Die
<1>10. LoadStats \/ GetAllDocs \/ LoadMarks \/ OneTime \/ Gate \/ Poll
         \/ StartRound \/ EndRound
         => UNCHANGED storeVars
  BY DEF LoadStats, GetAllDocs, LoadMarks, OneTime, Gate, Poll, StartRound,
     EndRound, Die
<1>11. UNCHANGED vars => UNCHANGED storeVars
  BY DEF vars
<1> QED
  BY <1>1, <1>2, <1>3, <1>4, <1>5, <1>6, <1>7, <1>8, <1>9, <1>10, <1>11
  DEF Next, Process, Job

\* The buckets keep what PocketStore promises (db/bolt_backend.go): step by
\* step, whatever fails.
THEOREM StoreRefinement == SafeSpec => ImplementsStore
<1>1. Running /\ [Next]_vars => Running'
  BY RunningStep
<1>2. Inv /\ Running /\ [Next]_vars => [Store!Next]_(Store!vars)
  BY StoreStep
<1>3. SafeSpec => []Inv
  BY Invariance
<1>4. SafeSpec => []Running
  BY StoreStarts, <1>1, PTL DEF SafeSpec
<1> QED
  BY StoreStarts, <1>2, <1>3, <1>4, PTL DEF SafeSpec, ImplementsStore, Store!Spec

-----------------------------------------------------------------------------
(* A round is one of MirrorRound                                           *)

\* The round starts with the packages that are incomplete.
LEMMA RoundStarts ==
  ASSUME TypeOK, StartRound, NEW started, started = GetIncompletePackages
  PROVE  Round(started)!Init'
<1>1. pc' = "round" /\ Queued' = started /\ InHand' = {}
  BY DEF StartRound, Queued, InHand, GetIncompletePackages
<1> QED BY <1>1 DEF Round!Init

\* Where a package is, is all that the mapping reads.
LEMMA RoundStutter ==
  ASSUME NEW started, Queued' = Queued, InHand' = InHand,
         (pc = "round") = (pc' = "round")
  PROVE  UNCHANGED Round(started)!vars
BY DEF Round!vars

\* The step of one package is its fetch, its settling, or seen by neither.
LEMMA JobFollows ==
  ASSUME TypeOK, NEW p \in Names, Job(p), pc = "round",
         NEW started, Queued \cup InHand \subseteq started
  PROVE  [Round(started)!Next]_(Round(started)!vars)
<1>1. pc' = pc
  BY DEF Job, GetDocument, Download, WriteCompleted, RemoveFiles, DropPackage
<1>2. CASE GetDocument(p)
  <2>1. at[p] = "queued" /\ at' = [at EXCEPT ![p] = "fetched"]
    BY <1>2 DEF GetDocument
  <2>2. /\ p \in Queued /\ Queued' = Queued \ {p}
        /\ p \notin InHand /\ InHand' = InHand \cup {p}
    BY <2>1 DEF Queued, InHand, TypeOK
  <2>3. Cardinality(InHand) < MaxConnections + 1
    BY <1>2 DEF GetDocument
  <2>4. started \ (Queued' \cup InHand') = started \ (Queued \cup InHand)
    BY <2>2
  <2>5. Round(started)!Fetch(p)
    BY <1>1, <2>2, <2>3, <2>4
    DEF Round!Fetch, Cardinality, Round!Cardinality
  <2> QED BY <2>2, <2>5 DEF Round!Next
<1>3. CASE Download(p) \/ RemoveFiles(p)
  <2>1. at[p] = "fetched" /\ at' \in {at, [at EXCEPT ![p] = "ready"],
                                      [at EXCEPT ![p] = "removed"]}
    BY <1>3, DownloadStep DEF RemoveFiles
  <2>2. Queued' = Queued /\ InHand' = InHand
    BY <2>1 DEF Queued, InHand, TypeOK
  <2> QED BY <1>1, <2>2, RoundStutter
<1>4. CASE WriteCompleted(p) \/ DropPackage(p)
  <2>1. at[p] \in {"ready", "removed"} /\ at' = [at EXCEPT ![p] = "idle"]
    BY <1>4 DEF WriteCompleted, DropPackage, Settle
  <2>2. /\ p \notin Queued /\ Queued' = Queued
        /\ p \in InHand /\ InHand' = InHand \ {p}
    BY <2>1 DEF Queued, InHand, TypeOK
  <2>3. started \ (Queued' \cup InHand')
          = (started \ (Queued \cup InHand)) \cup {p}
    BY <2>2
  <2>4. Round(started)!Settle(p)
    BY <1>1, <2>2, <2>3 DEF Round!Settle
  <2> QED BY <2>2, <2>4 DEF Round!Next
<1> QED BY <1>2, <1>3, <1>4 DEF Job

\* Start returns when nothing is queued or in hand.
LEMMA EndFollows ==
  ASSUME TypeOK, EndRound, NEW started
  PROVE  Round(started)!Next
<1>1. Queued = {} /\ InHand = {} /\ Queued' = {} /\ InHand' = {}
  BY DEF EndRound, Queued, InHand, round
<1>2. pc = "round" /\ pc' # "round"
  BY DEF EndRound
<1>3. Round(started)!Return
  BY <1>1, <1>2 DEF Round!Return
<1> QED BY <1>3 DEF Round!Next

\* Every other step of a process that lives leaves the round alone.
LEMMA RoundStep ==
  ASSUME TypeOK, [Next]_vars, pc = "round", pc' # "down",
         NEW started, Queued \cup InHand \subseteq started
  PROVE  [Round(started)!Next]_(Round(started)!vars)
<1>1. ASSUME UNCHANGED <<pc, at>>
      PROVE  UNCHANGED Round(started)!vars
  <2>1. Queued' = Queued /\ InHand' = InHand
    BY <1>1 DEF Queued, InHand
  <2> QED BY <1>1, <2>1, RoundStutter
<1>2. Registry => UNCHANGED <<pc, at>>
  BY DEF Registry, Change, round
<1>3. UNCHANGED vars => UNCHANGED <<pc, at>>
  BY DEF vars, round
<1>4. ~ Fault
  BY DEF Fault, Crash, AllDocsFails, CommitFails, ChangesFail, Die
<1>5. /\ ~ Restart /\ ~ Blocked /\ ~ UpToDate
      /\ ~ Initialize /\ ~ LoadStats /\ ~ GetAllDocs /\ ~ LoadMarks
      /\ ~ OneTime /\ ~ Gate /\ ~ Poll /\ ~ PutBatch /\ ~ SaveSequence
      /\ ~ StartRound
  BY DEF Restart, Blocked, UpToDate, Initialize, LoadStats, GetAllDocs,
     LoadMarks, OneTime, Gate, Poll, PutBatch, SaveSequence, StartRound
<1>6. CASE EndRound
  BY <1>6, EndFollows
<1>7. ASSUME NEW p \in Names, Job(p)
      PROVE  [Round(started)!Next]_(Round(started)!vars)
  BY <1>7, JobFollows
<1> QED
  BY <1>1, <1>2, <1>3, <1>4, <1>5, <1>6, <1>7 DEF Next, Process

\* The rounds of the mirror are those that Start, goroutine by goroutine, is
\* shown to keep to (RoundRefinement in WorkerPoolProofs), whatever fails and
\* whatever the registry does meanwhile (npm/mirror.go:153-170).
THEOREM RoundsAreRounds == SafeSpec => RoundsFollow
<1> DEFINE Follows ==
             \A started \in SUBSET Names :
               /\ StartRound /\ started = GetIncompletePackages
                    => Round(started)!Init'
               /\ pc = "round" /\ pc' # "down"
                    /\ Queued \cup InHand \subseteq started
                    => [Round(started)!Next]_(Round(started)!vars)
<1>1. TypeOK /\ [Next]_vars => Follows
  BY RoundStarts, RoundStep
<1>2. TypeOK /\ [Next]_vars => [Follows]_vars
  BY <1>1
<1>3. SafeSpec => []TypeOK
  BY TypeCorrect
<1>4. SafeSpec => [][Follows]_vars
  BY <1>2, <1>3, PTL DEF SafeSpec
<1> QED BY <1>4 DEF RoundsFollow

=============================================================================
