---------------------------- MODULE ChangeProofs ----------------------------
(***************************************************************************)
(* Proofs about Mirror: what it has of each package is what the registry   *)
(* had, and no change that the stored sequence has gone past is lost.      *)
(***************************************************************************)
EXTENDS MirrorProofs

-----------------------------------------------------------------------------
(* Documents                                                               *)

\* Document d of p was served by the registry: it is no deletion and not newer
\* than what the registry has now.
ServedOnce(p, d) == d <= up[p].rev /\ (d = up[p].rev => ~ up[p].deleted)

\* The two things a completed package can be.
Recorded(p) == packages[p] \in Nat \ {0} /\ documents[p] = packages[p]
FetchFailed(p) == packages[p] = 0 /\ documents[p] \in {0, StatusBody}

DocumentOK(p) ==
  /\ up[p].seq <= upSeq /\ up[p].rev <= upSeq
  /\ ~ up[p].deleted => up[p].rev >= 1 /\ up[p].seq >= 1
  /\ documents[p] \in Nat \ {0} => ServedOnce(p, documents[p])
  /\ at[p] \in {"fetched", "ready"} /\ fetched[p] \in Nat \ {0} =>
       ServedOnce(p, fetched[p])
  /\ wanted[p] \cup completed[p] \subseteq 1 .. MaxSeq
  /\ marks[p] = MarkComplete =>
       files[p] # Absent /\ (Recorded(p) \/ FetchFailed(p))

DocumentInv == \A p \in Names : DocumentOK(p)

\* Nothing is mirrored of a registry that is empty.
LEMMA InitDocuments == Init => DocumentInv
BY Constants DEF Init, StoreInit, DocumentInv, DocumentOK

\* A step that leaves registry, buckets and round alone keeps the documents.
LEMMA QuietDocuments ==
  ASSUME DocumentInv, UNCHANGED <<registry, buckets, round>>
  PROVE  DocumentInv'
BY DEF DocumentInv, DocumentOK, ServedOnce, Recorded, FetchFailed, registry,
   buckets, round

\* A change makes every document of its package an older one.
LEMMA ChangeDocuments ==
  ASSUME Inv, DocumentInv, NEW p \in Names, NEW delete \in BOOLEAN,
         Change(p, delete)
  PROVE  DocumentInv'
<1> SUFFICES ASSUME NEW q \in Names PROVE DocumentOK(q)'
  BY DEF DocumentInv
<1> USE DEF Inv, TypeInv, TypeOK, StoreTypeOK
<1>1. upSeq' = upSeq + 1 /\ UNCHANGED <<buckets, round>>
  BY DEF Change, storeVars
<1>2. CASE q # p
  <2>1. up'[q] = up[q]
    BY <1>2 DEF Change
  <2> QED
    BY <1>1, <2>1
    DEF DocumentInv, DocumentOK, ServedOnce, Recorded, FetchFailed, buckets,
        round
<1>3. CASE q = p
  <2>1. up'[q] = [rev |-> up[q].rev + 1, deleted |-> delete, seq |-> upSeq + 1]
    BY <1>3 DEF Change
  <2>2. up'[q].rev = up[q].rev + 1 /\ up'[q].seq = upSeq + 1 /\ up[q].rev \in Nat
    BY <2>1
  <2> QED
    BY <1>1, <2>2, Constants
    DEF DocumentInv, DocumentOK, ServedOnce, Recorded, FetchFailed, buckets,
        round
<1> QED BY <1>2, <1>3

\* A round ends with the process.
LEMMA DieDocuments ==
  ASSUME DocumentInv, Die
  PROVE  DocumentInv'
BY DEF DocumentInv, DocumentOK, ServedOnce, Recorded, FetchFailed, Die,
   registry, storeVars, buckets

\* A package that is put is incomplete from then on.
LEMMA PutBatchDocuments ==
  ASSUME Inv, DocumentInv, PutBatch
  PROVE  DocumentInv'
BY Constants
DEF Inv, TypeInv, TypeOK, StoreTypeOK, PutBatch, PutPackages, DocumentInv,
    DocumentOK, ServedOnce, Recorded, FetchFailed, registry, round

\* A round starts without documents.
LEMMA StartRoundDocuments ==
  ASSUME DocumentInv, StartRound
  PROVE  DocumentInv'
BY DEF StartRound, DocumentInv, DocumentOK, ServedOnce, Recorded, FetchFailed,
   registry, storeVars, buckets

\* The registry answers with what it has.
LEMMA GetDocumentDocuments ==
  ASSUME Inv, DocumentInv, NEW p \in Names, GetDocument(p)
  PROVE  DocumentInv'
<1>1. fetched'[p] \in Nat \ {0} => ServedOnce(p, fetched'[p])
  BY Constants DEF Inv, TypeInv, TypeOK, GetDocument, Answers, ServedOnce
<1>2. \A q \in Names \ {p} : fetched'[q] = fetched[q] /\ at'[q] = at[q]
  BY DEF Inv, TypeInv, TypeOK, GetDocument
<1>3. \A q \in Names : wanted'[q] \subseteq 1 .. MaxSeq
  <2>1. PICK document \in Answers(p) :
          wanted' = [wanted EXCEPT ![p] = Tarballs(document)]
    BY DEF GetDocument
  <2>2. Tarballs(document) \subseteq 1 .. MaxSeq
    <3>1. document \in {0, up[p].rev, StatusBody, NotFound}
      BY DEF Answers
    <3>2. up[p].rev \in Nat /\ up[p].rev <= MaxSeq
      BY Constants DEF Inv, TypeInv, TypeOK, DocumentInv, DocumentOK
    <3> QED BY <3>1, <3>2, Constants DEF Tarballs
  <2> QED
    BY <2>1, <2>2 DEF Inv, TypeInv, TypeOK, DocumentInv, DocumentOK
<1> QED
  BY <1>1, <1>2, <1>3
  DEF GetDocument, DocumentInv, DocumentOK, ServedOnce, Recorded, FetchFailed,
      registry, storeVars, buckets

\* A download leaves the document alone, and reports tarballs it lists.
LEMMA DownloadDocuments ==
  ASSUME Inv, DocumentInv, NEW p \in Names, Download(p)
  PROVE  DocumentInv'
<1> USE DEF Inv, TypeInv, TypeOK
<1>1. /\ at[p] = "fetched"
      /\ at' = at \/ at' = [at EXCEPT ![p] = "ready"]
      /\ \E got \in SUBSET wanted[p] :
           completed' = [completed EXCEPT ![p] = @ \cup got]
      /\ \E rest \in SUBSET wanted[p] :
           wanted' = [wanted EXCEPT ![p] = rest]
  BY DownloadStep
<1>2. \A q \in Names : wanted'[q] \cup completed'[q] \subseteq 1 .. MaxSeq
  <2>1. \A q \in Names : wanted[q] \cup completed[q] \subseteq 1 .. MaxSeq
    BY DEF DocumentInv, DocumentOK
  <2>2. \A q \in Names : /\ wanted'[q] \subseteq wanted[q]
                          /\ completed'[q] \subseteq completed[q] \cup wanted[q]
    <3>1. PICK got \in SUBSET wanted[p] :
            completed' = [completed EXCEPT ![p] = @ \cup got]
      BY <1>1
    <3>2. PICK rest \in SUBSET wanted[p] :
            wanted' = [wanted EXCEPT ![p] = rest]
      BY <1>1
    <3> QED BY <3>1, <3>2
  <2> QED BY <2>1, <2>2
<1> QED
  BY <1>1, <1>2
  DEF Download, DocumentInv, DocumentOK, ServedOnce, Recorded, FetchFailed,
      registry, storeVars, buckets

\* Removing files leaves document and database alone.
LEMMA RemoveFilesDocuments ==
  ASSUME Inv, DocumentInv, NEW p \in Names, RemoveFiles(p)
  PROVE  DocumentInv'
BY DEF Inv, TypeInv, TypeOK, RemoveFiles, DocumentInv, DocumentOK, ServedOnce,
   Recorded, FetchFailed, registry, storeVars, buckets

\* A completed package has the revision of the document that was stored.
LEMMA WriteCompletedDocuments ==
  ASSUME Inv, DocumentInv, NEW p \in Names, WriteCompleted(p)
  PROVE  DocumentInv'
<1> DEFINE revision == RevisionOf(fetched[p])
<1> USE DEF Inv, TypeInv, TypeOK, StoreTypeOK
<1>1. /\ packages[p] = queuedRev[p]
      /\ at[p] = "ready"
      /\ fetched[p] \in Nat \cup {StatusBody}
      /\ completed[p] # Absent
      /\ marks[p] = MarkIncomplete
  <2>1. completed[p] \in SUBSET (1 .. MaxSeq)
    BY DEF DocumentInv, DocumentOK
  <2> QED BY <2>1, Constants DEF Kept, RoundKept, WriteCompleted
<1>2. /\ UNCHANGED registry
      /\ at'[p] = "idle"
      /\ \A q \in Names \ {p} :
           /\ fetched'[q] = fetched[q]
           /\ at'[q] = at[q]
           /\ completed'[q] = completed[q]
      /\ \A q \in Names : wanted'[q] \cup completed'[q] \subseteq 1 .. MaxSeq
  BY DEF WriteCompleted, Settle, DocumentInv, DocumentOK
<1>3. ASSUME PutRevision(p, queuedRev[p], revision)
      PROVE  /\ packages'[p] = revision
             /\ \A q \in Names \ {p} : packages'[q] = packages[q]
  BY <1>1, <1>3 DEF PutRevision
<1> USE DEF DocumentInv, DocumentOK, ServedOnce, Recorded, FetchFailed,
   registry
<1>4. CASE UNCHANGED storeVars
  BY <1>1, <1>2, <1>4, Constants DEF storeVars, buckets
<1>5. CASE PutCompleted(p, queuedRev[p], fetched[p], revision, completed[p])
  <2>1. /\ packages'[p] = revision
        /\ documents'[p] = fetched[p]
        /\ files'[p] = completed[p]
        /\ \A q \in Names \ {p} :
             /\ packages'[q] = packages[q]
             /\ documents'[q] = documents[q]
             /\ files'[q] = files[q]
             /\ marks'[q] = marks[q]
    BY <1>3, <1>5 DEF PutCompleted
  <2>2. ASSUME NEW q \in Names \ {p}
        PROVE  DocumentOK(q)'
    BY <1>2, <2>1
  <2>3. DocumentOK(p)'
    BY <1>1, <1>2, <2>1, Constants DEF RevisionOf
  <2> QED BY <2>2, <2>3
<1>6. CASE PutCompletedPartly(p, queuedRev[p], fetched[p], revision,
                              completed[p])
  <2>1. /\ marks' = marks
        /\ documents'[p] \in {documents[p], fetched[p]}
        /\ \A q \in Names \ {p} :
             /\ packages'[q] = packages[q]
             /\ documents'[q] = documents[q]
             /\ files'[q] = files[q]
    BY <1>3, <1>6 DEF PutCompletedPartly
  <2>2. ASSUME NEW q \in Names \ {p}
        PROVE  DocumentOK(q)'
    BY <1>2, <2>1
  <2>3. DocumentOK(p)'
    BY <1>1, <1>2, <2>1, Constants
  <2> QED BY <2>2, <2>3
<1> QED BY <1>4, <1>5, <1>6 DEF WriteCompleted, CompletedFiles

\* A package that is dropped has no document.
LEMMA DropPackageDocuments ==
  ASSUME Inv, DocumentInv, NEW p \in Names, DropPackage(p)
  PROVE  DocumentInv'
<1> USE DEF Inv, TypeInv, TypeOK, StoreTypeOK
<1>1. /\ UNCHANGED registry
      /\ at'[p] = "idle"
      /\ \A q \in Names \ {p} :
           /\ fetched'[q] = fetched[q]
           /\ at'[q] = at[q]
           /\ completed'[q] = completed[q]
      /\ \A q \in Names : wanted'[q] \cup completed'[q] \subseteq 1 .. MaxSeq
  BY DEF DropPackage, Settle, DocumentInv, DocumentOK
<1> USE DEF DocumentInv, DocumentOK, ServedOnce, Recorded, FetchFailed,
   registry
<1>2. CASE UNCHANGED storeVars
  BY <1>1, <1>2 DEF storeVars, buckets
<1>3. CASE DeletePackage(p)
  BY <1>1, <1>3, Constants DEF DeletePackage
<1> QED BY <1>2, <1>3 DEF DropPackage

\* Every step keeps the documents.
LEMMA NextDocuments ==
  ASSUME Inv, DocumentInv, [Next]_vars
  PROVE  DocumentInv'
<1>1. ASSUME NEW p \in Names, NEW delete \in BOOLEAN, Change(p, delete)
      PROVE  DocumentInv'
  BY <1>1, ChangeDocuments
<1>2. CASE Restart \/ LoadStats \/ GetAllDocs \/ LoadMarks \/ Gate \/ UpToDate
             \/ Poll \/ EndRound \/ UNCHANGED vars
  BY <1>2, QuietDocuments
  DEF Restart, LoadStats, GetAllDocs, LoadMarks, Gate, UpToDate, Poll,
      EndRound, vars, storeVars
<1>3. CASE Initialize \/ SaveSequence
  BY <1>3, QuietDocuments
  DEF Initialize, InitBuckets, SaveSequence, SetSequence, storeVars
<1>4. CASE PutBatch
  BY <1>4, PutBatchDocuments
<1>5. CASE StartRound
  BY <1>5, StartRoundDocuments
<1>6. CASE Die
  BY <1>6, DieDocuments
<1>7. ASSUME NEW p \in Names, Job(p)
      PROVE  DocumentInv'
  BY <1>7, GetDocumentDocuments, DownloadDocuments, WriteCompletedDocuments,
     RemoveFilesDocuments, DropPackageDocuments DEF Job
<1> QED
  BY <1>1, <1>2, <1>3, <1>4, <1>5, <1>6, <1>7
  DEF Next, Registry, Process, Fault, OneTime, Blocked, Crash, AllDocsFails,
      CommitFails, ChangesFail

\* What the mirror has of a package the registry had, whatever fails.
LEMMA DocumentsInvariance == SafeSpec => []DocumentInv
<1>1. Inv /\ DocumentInv /\ [Next]_vars => DocumentInv'
  BY NextDocuments
<1> QED BY Invariance, InitDocuments, <1>1, PTL DEF SafeSpec

-----------------------------------------------------------------------------
(* When the requests for documents are answered                            *)

DocumentsAnswered ==
  \A p \in Names :
    /\ documents[p] \notin {0, StatusBody}
    /\ at[p] \in {"fetched", "ready"} => fetched[p] \notin {0, StatusBody}

\* No step but GetDocument brings in a document.
LEMMA OthersAnswered ==
  ASSUME Inv, DocumentsAnswered, [Next]_vars,
         \A p \in Names : ~ GetDocument(p)
  PROVE  DocumentsAnswered'
<1> USE DEF Inv, TypeInv, TypeOK, StoreTypeOK, DocumentsAnswered
<1>1. CASE UNCHANGED <<buckets, round>>
  BY <1>1 DEF buckets, round
<1>2. CASE Restart \/ LoadStats \/ GetAllDocs \/ LoadMarks \/ Gate \/ UpToDate
             \/ Poll \/ EndRound \/ Initialize \/ SaveSequence
             \/ (\E p \in Names, delete \in BOOLEAN : Change(p, delete))
             \/ UNCHANGED vars
  BY <1>1, <1>2
  DEF Restart, LoadStats, GetAllDocs, LoadMarks, Gate, UpToDate, Poll,
      EndRound, Change, Initialize, InitBuckets, SaveSequence, SetSequence,
      vars, storeVars
<1>3. CASE PutBatch
  BY <1>3 DEF PutBatch, PutPackages, round
<1>4. CASE StartRound
  BY <1>4 DEF StartRound, storeVars, buckets
<1>5. CASE Die
  BY <1>5 DEF Die, storeVars, buckets
<1>6. ASSUME NEW p \in Names, Download(p) \/ RemoveFiles(p)
      PROVE  DocumentsAnswered'
  BY <1>6 DEF Download, RemoveFiles, storeVars, buckets
<1>7. ASSUME NEW p \in Names, WriteCompleted(p)
      PROVE  DocumentsAnswered'
  <2>1. \A q \in Names :
          /\ documents'[q] = documents[q] \/ documents'[q] = fetched[p]
          /\ at'[q] \in {"fetched", "ready"} =>
               at'[q] = at[q] /\ fetched'[q] = fetched[q]
    BY <1>7 DEF WriteCompleted, Settle, PutCompleted, PutCompletedPartly,
       storeVars, buckets
  <2> QED BY <1>7, <2>1 DEF WriteCompleted
<1>8. ASSUME NEW p \in Names, DropPackage(p)
      PROVE  DocumentsAnswered'
  <2>1. \A q \in Names :
          /\ documents'[q] = documents[q] \/ documents'[q] = Absent
          /\ at'[q] \in {"fetched", "ready"} =>
               at'[q] = at[q] /\ fetched'[q] = fetched[q]
    BY <1>8 DEF DropPackage, Settle, DeletePackage, storeVars, buckets
  <2> QED BY <2>1, Constants
<1> QED
  BY <1>2, <1>3, <1>4, <1>5, <1>6, <1>7, <1>8
  DEF Next, Registry, Process, Job, Fault, OneTime, Blocked, Crash,
      AllDocsFails, CommitFails, ChangesFail

\* Every document is one the registry served.
LEMMA AnsweredInvariance ==
  ASSUME "document" \notin FaultKinds
  PROVE  SafeSpec => []DocumentsAnswered
<1>1. Init => DocumentsAnswered
  BY Constants DEF Init, StoreInit, DocumentsAnswered
<1>2. Inv /\ DocumentInv /\ DocumentsAnswered /\ [Next]_vars
        => DocumentsAnswered'
  <2> SUFFICES ASSUME Inv, DocumentInv, DocumentsAnswered, [Next]_vars
               PROVE  DocumentsAnswered'
    OBVIOUS
  <2>1. ASSUME NEW p \in Names, GetDocument(p)
        PROVE  DocumentsAnswered'
    <3>1. fetched'[p] \notin {0, StatusBody}
      BY <2>1, Constants
      DEF Inv, TypeInv, TypeOK, GetDocument, Answers, DocumentInv, DocumentOK
    <3> QED
      BY <2>1, <3>1
      DEF Inv, TypeInv, TypeOK, GetDocument, DocumentsAnswered, storeVars,
          buckets
  <2> QED BY <2>1, OthersAnswered
<1> QED
  BY Invariance, DocumentsInvariance, <1>1, <1>2, PTL DEF SafeSpec

\* What the "check" command looks for (database.go:130) holds at every moment
\* of every run in which documents are answered, whatever else fails.
THEOREM MarkedAreConsistent ==
  ASSUME "document" \notin FaultKinds
  PROVE  SafeSpec => []MarkedConsistent
<1>1. DocumentInv /\ DocumentsAnswered => MarkedConsistent
  BY DEF DocumentInv, DocumentOK, Recorded, FetchFailed, DocumentsAnswered,
     MarkedConsistent
<1> QED BY DocumentsInvariance, AnsweredInvariance, <1>1, PTL

=============================================================================
