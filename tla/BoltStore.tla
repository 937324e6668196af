----------------------------- MODULE BoltStore -----------------------------
(***************************************************************************)
(* The bolt database behind PocketBase (db/bolt_backend.go), one action    *)
(* per read-write transaction and one operator per query.  A bucket is a   *)
(* function from package names; Absent stands for a key that is not there. *)
(*                                                                         *)
(* A revision is the number of updates the package has seen, 0 the empty   *)
(* string.  A document is the revision it describes, 0 an empty body and   *)
(* StatusBody a body that is no document, such as the HTTP status "500".   *)
(***************************************************************************)
EXTENDS Naturals, FiniteSets

CONSTANTS
  Names,         \* package names
  Absent,        \* the value of a missing key
  StatusBody,    \* an HTTP status stored where a document should be
  SeqModulus     \* a sequence is stored in 4 bytes: 2^32 in the code

MarkIncomplete == "0"
MarkComplete == "1"

ASSUME StoreAssumption ==
  /\ IsFiniteSet(Names)
  /\ Absent \notin {MarkIncomplete, MarkComplete}
  /\ Absent \notin Nat
  /\ StatusBody \notin Nat
  /\ Absent # StatusBody
  /\ SeqModulus \in Nat \ {0}

VARIABLES
  initialized,   \* the Globals bucket holds a sequence
  sequence,      \* Globals: the registry sequence the database has reached
  packages,      \* Packages: name -> revision
  marks,         \* Marks: name -> whether the package was mirrored
  documents,     \* Documents: name -> document
  files          \* Files: name -> tarballs recorded as downloaded

buckets == <<packages, marks, documents, files>>
storeVars == <<initialized, sequence, buckets>>

StoreTypeOK ==
  /\ initialized \in BOOLEAN
  /\ sequence \in 0 .. SeqModulus - 1
  /\ packages \in [Names -> Nat \cup {Absent}]
  /\ marks \in [Names -> {MarkIncomplete, MarkComplete, Absent}]
  /\ documents \in [Names -> Nat \cup {StatusBody, Absent}]
  /\ files \in [Names -> {Absent} \cup SUBSET Nat]

\* A database file that was just created.
StoreInit ==
  /\ initialized = FALSE
  /\ sequence = 0
  /\ packages = [p \in Names |-> Absent]
  /\ marks = [p \in Names |-> Absent]
  /\ documents = [p \in Names |-> Absent]
  /\ files = [p \in Names |-> Absent]

-----------------------------------------------------------------------------
(* Queries                                                                 *)

IsInitialized == initialized

GetItemCount(bucket) == Cardinality({p \in Names : bucket[p] # Absent})

GetCountOfMarks(cond) == Cardinality({p \in Names : marks[p] = cond})

GetIncompletePackages == {p \in Names : marks[p] = MarkIncomplete}

\* A missing key reads as the empty string.
GetRevision(p) == IF packages[p] = Absent THEN 0 ELSE packages[p]

-----------------------------------------------------------------------------
(* Transactions                                                            *)

\* Buckets that exist are kept; the sequence is always written.
InitBuckets ==
  /\ initialized' = TRUE
  /\ sequence' = 0
  /\ UNCHANGED buckets

SetSequence(seq) ==
  /\ sequence' = seq % SeqModulus
  /\ UNCHANGED <<initialized, buckets>>

\* Mutation: packages that exist are not overwritten.
PutMissing(batch) ==
  /\ packages' = [p \in Names |->
                    IF packages[p] # Absent THEN packages[p] ELSE batch[p]]
  /\ marks' = [p \in Names |->
                 IF batch[p] = Absent \/ packages[p] # Absent
                 THEN marks[p] ELSE MarkIncomplete]
  /\ UNCHANGED <<initialized, sequence, documents, files>>

\* Mutation: the document of the earlier revision is dropped.
PutAfresh(batch) ==
  /\ packages' = [p \in Names |->
                    IF batch[p] = Absent THEN packages[p] ELSE batch[p]]
  /\ marks' = [p \in Names |->
                 IF batch[p] = Absent THEN marks[p] ELSE MarkIncomplete]
  /\ documents' = [p \in Names |->
                     IF batch[p] = Absent THEN documents[p] ELSE Absent]
  /\ UNCHANGED <<initialized, sequence, files>>

\* PutPackage for every package of the batch, overwriting, marked incomplete.
\* The document and the files of an earlier revision stay.
PutPackages(batch) ==
  /\ packages' = [p \in Names |->
                    IF batch[p] = Absent THEN packages[p] ELSE batch[p]]
  /\ marks' = [p \in Names |->
                 IF batch[p] = Absent THEN marks[p] ELSE MarkIncomplete]
  /\ UNCHANGED <<initialized, sequence, documents, files>>

\* Mutation: the mark of the deleted package is forgotten.
DeleteButMark(p) ==
  /\ packages' = [packages EXCEPT ![p] = Absent]
  /\ documents' = [documents EXCEPT ![p] = Absent]
  /\ files' = [files EXCEPT ![p] = Absent]
  /\ UNCHANGED <<initialized, sequence, marks>>

DeletePackage(p) ==
  /\ packages' = [packages EXCEPT ![p] = Absent]
  /\ marks' = [marks EXCEPT ![p] = Absent]
  /\ documents' = [documents EXCEPT ![p] = Absent]
  /\ files' = [files EXCEPT ![p] = Absent]
  /\ UNCHANGED <<initialized, sequence>>

\* Mutation: an empty revision is not written.
PutRevisionIfAny(p, queuedRevision, revision) ==
  packages' = IF revision \notin {0, queuedRevision}
              THEN [packages EXCEPT ![p] = revision]
              ELSE packages

\* The revision is written only when it differs from the one the package was
\* queued with.
PutRevision(p, queuedRevision, revision) ==
  packages' = IF queuedRevision # revision
              THEN [packages EXCEPT ![p] = revision]
              ELSE packages

PutCompleted(p, queuedRevision, document, revision, downloads) ==
  /\ PutRevision(p, queuedRevision, revision)
  /\ documents' = [documents EXCEPT ![p] = document]
  /\ files' = [files EXCEPT ![p] = downloads]
  /\ marks' = [marks EXCEPT ![p] = MarkComplete]
  /\ UNCHANGED <<initialized, sequence>>

\* Mutation: the mark is written before the document and the files.
MarkFirst(p, queuedRevision, document, revision, downloads) ==
  /\ PutRevision(p, queuedRevision, revision)
  /\ marks' = [marks EXCEPT ![p] = MarkComplete]
  /\ UNCHANGED <<initialized, sequence, documents, files>>

\* A Put fails after the revision, after the document or after the files.
\* PocketBase.PutCompleted commits what was written before it.
PutCompletedPartly(p, queuedRevision, document, revision, downloads) ==
  /\ PutRevision(p, queuedRevision, revision)
  /\ \/ UNCHANGED <<documents, files>>
     \/ /\ documents' = [documents EXCEPT ![p] = document]
        /\ files' \in {files, [files EXCEPT ![p] = downloads]}
  /\ UNCHANGED <<initialized, sequence, marks>>

-----------------------------------------------------------------------------
(* What the buckets show as a store                                        *)

Row(p) ==
  [there    |-> packages[p] # Absent,
   marked   |-> marks[p] = MarkComplete,
   revision |-> GetRevision(p),
   document |-> IF documents[p] = Absent THEN 0 ELSE documents[p],
   files    |-> IF files[p] = Absent THEN {} ELSE files[p]]

Rows == [p \in Names |-> Row(p)]

Store == INSTANCE PocketStore WITH rows <- Rows

=============================================================================
