------------------------------ MODULE Migrate ------------------------------
(***************************************************************************)
(* The "migrate" command (db/database.go: Migrate): copies the packages of *)
(* a bolt database one by one into an SQL database, then the sequence.     *)
(* What is called its transaction is none: every row is written at once,   *)
(* and a kill leaves those written so far.  It may be run again, on a      *)
(* database that has rows, and the mirror may have used the bolt database  *)
(* in between, or the SQL database, whatever the migration left in it.     *)
(***************************************************************************)
EXTENDS GormStore

VARIABLES
  source,      \* bolt: name -> entry
  sourceSeq,   \* bolt: its sequence
  phase,       \* of a run: open, copy or saved, or mirror
  todo,        \* packages the cursor has yet to come to
  skipped,     \* packages whose row could not be written in this run
  moved        \* history: whether either database was used since rows were copied

sourceVars == <<source, sourceSeq, moved>>
runVars == <<phase, todo, skipped>>
migrateVars == <<vars, sourceVars, runVars>>

\* An entry of the bolt database; NoValue is a file list that is not there.
Entry(revision, document, files, marked) ==
  [there |-> TRUE, marked |-> marked, revision |-> revision,
   document |-> document, files |-> files]

\* Queued for the first time, perhaps with the document that a PutCompleted
\* wrote before it failed; complete, with some or all of its tarballs; queued
\* again; complete without its document, and queued again after that.
Entries ==
  {[NoRow EXCEPT !.files = NoValue]}
    \cup {Entry(r, d, NoValue, FALSE) : r \in Revisions, d \in {0} \cup Revisions}
    \cup {Entry(r, r, f, TRUE) : r \in Revisions, f \in {{}, Revisions}}
    \cup {Entry(r, d, f, FALSE) :
            r \in Revisions, d \in {0} \cup Revisions, f \in {{}, Revisions}}
    \cup {Entry(0, 0, {}, TRUE)}

\* A document is never newer than the last revision that was queued.
Sources ==
  {s \in [Names -> Entries] :
     \A p \in Names : ~ s[p].marked => s[p].document <= s[p].revision}

\* The mirror does not go back to an earlier revision of a package.
Later(old, new) ==
  \A p \in Names :
    new[p].there /\ new[p].revision # 0 =>
      /\ new[p].revision >= old[p].revision
      /\ new[p].document >= old[p].document

MigrateInit ==
  /\ Init
  /\ source \in Sources
  /\ sourceSeq \in 1 .. MaxSeq
  /\ phase = "open"
  /\ todo = {}
  /\ skipped = {}
  /\ moved = FALSE

-----------------------------------------------------------------------------

\* The database is initialised if need be.
Prepare ==
  /\ Start \/ CreateGlobals \/ CreatePackages \/ CreateSequence
  /\ UNCHANGED <<sourceVars, runVars>>

OpenSource ==
  /\ pc = "ready"
  /\ phase = "open"
  /\ todo' = {p \in Names : source[p].there}
  /\ skipped' = {}
  /\ phase' = "copy"
  /\ UNCHANGED <<vars, sourceVars>>

FilesOf(entry) == IF entry.files = NoValue THEN {} ELSE entry.files

AsRow(entry) == [entry EXCEPT !.files = FilesOf(entry)]

UnlessBlank(new, old) == IF new = 0 THEN old ELSE new

\* Mutation: a row that is there is left as it is.
KeepRow(row, entry) == row

\* Assign updates the columns of a struct that are not blank: an empty string
\* or FALSE is not written.
Assign(row, entry) ==
  [there    |-> TRUE,
   marked   |-> entry.marked \/ row.marked,
   revision |-> UnlessBlank(entry.revision, row.revision),
   document |-> UnlessBlank(entry.document, row.document),
   files    |-> IF entry.files = NoValue THEN row.files ELSE entry.files]

\* FirstOrCreate; a row that cannot be written is logged and passed over.
CopyPackage(p) ==
  /\ phase = "copy"
  /\ p \in todo
  /\ todo' = todo \ {p}
  /\ \/ /\ rows' = [rows EXCEPT ![p] = IF @.there THEN Assign(@, source[p])
                                       ELSE AsRow(source[p])]
        /\ UNCHANGED skipped
     \/ /\ skipped' = skipped \cup {p}
        /\ UNCHANGED rows
  /\ UNCHANGED <<pc, hasGlobals, tables, seqRow, sourceVars, phase>>

\* Mutation: the sequence is not kept for the end.
AnyTime == TRUE

AllCopied == todo = {}

SaveSequence ==
  /\ phase = "copy"
  /\ AllCopied
  /\ SetSequence(sourceSeq)
  /\ phase' = "saved"
  /\ UNCHANGED <<sourceVars, todo, skipped>>

\* The process is a mirror on the SQL database instead, and makes its calls.
RunMirror ==
  /\ pc = "ready"
  /\ phase = "open"
  /\ phase' = "mirror"
  /\ UNCHANGED <<vars, sourceVars, todo, skipped>>

UseTables ==
  /\ phase = "mirror"
  /\ Calls
  /\ moved' = TRUE
  /\ UNCHANGED <<source, sourceSeq, runVars>>

\* The process ends, or is killed.
End ==
  /\ Kill
  /\ phase' = "open"
  /\ todo' = {}
  /\ skipped' = {}
  /\ UNCHANGED sourceVars

\* A mirror runs on the bolt database for a while.
UseSource ==
  /\ pc = "down"
  /\ source' \in Sources
  /\ Later(source, source')
  /\ sourceSeq' \in sourceSeq .. MaxSeq
  /\ moved' = (moved \/ \E p \in Names : rows[p].there)
  /\ UNCHANGED <<vars, runVars>>

MigrateNext ==
  \/ Prepare \/ OpenSource \/ SaveSequence \/ RunMirror \/ UseTables \/ End
  \/ UseSource
  \/ \E p \in Names : CopyPackage(p)

MigrateSpec == MigrateInit /\ [][MigrateNext]_migrateVars

-----------------------------------------------------------------------------
(* Properties                                                              *)

\* main.go:130: "Migrate the database from boltdb to gorm".  When the sequence
\* has been saved, each package was copied as it is or its failure was logged
\* (database.go:457), although runs before this one may have been killed
\* anywhere.  It holds as long as no mirror uses either database; a second run
\* after one has moved on leaves columns of the first.
MigratedOrSkipped ==
  phase = "saved" /\ ~ moved =>
    \A p \in Names :
      source[p].there => p \in skipped \/ rows[p] = AsRow(source[p])

\* What a second run does get right, whichever database was used in between:
\* every package is there with the revision of the source, unless that is empty.
\* The mirror compares revisions, so it will not notice what else the row lacks.
RevisionsMigrated ==
  phase = "saved" =>
    \A p \in Names :
      source[p].there /\ p \notin skipped =>
        /\ rows[p].there
        /\ source[p].revision \in {0, rows[p].revision}

\* Whatever a migration left, killed or complete, with rows missing or without
\* a revision, the tables then keep what PocketStore promises to a mirror: an
\* update of a package leaves the document that is served meanwhile
\* (gorm_backend.go:226-239), a kill during Init does no more than delay it.
CallsKeepStore ==
  [][phase # "copy" => [Store!Next]_(Store!vars)]_migrateVars

=============================================================================
