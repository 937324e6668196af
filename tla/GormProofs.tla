----------------------------- MODULE GormProofs -----------------------------
(***************************************************************************)
(* Proofs about the SQL database: GormStore keeps what PocketStore         *)
(* promises, wherever Init is killed and whichever statement fails, and    *)
(* the migration to it, killed and repeated, copies what there is.         *)
(***************************************************************************)
EXTENDS Migrate, TLAPS

-----------------------------------------------------------------------------
(* The tables                                                              *)

\* Init creates globals before packages, and a process that is past both finds
\* both; nothing is saved before.
TablesInv ==
  /\ tables \subseteq {"globals", "packages"}
  /\ "packages" \in tables => "globals" \in tables
  /\ pc = "packages" => "globals" \in tables
  /\ pc \in {"sequence", "ready"} => IsInitialized
  /\ "packages" \notin tables => seqRow = NoValue

\* A new database has no tables.
LEMMA InitTables == Init => TablesInv
BY DEF Init, TablesInv

\* No statement leaves a row without its table.
LEMMA NextTables ==
  ASSUME TablesInv, [Next]_vars
  PROVE  TablesInv'
<1> USE DEF TablesInv, IsInitialized
<1>1. CASE Start
  BY <1>1 DEF Start, tableVars
<1>2. CASE CreateGlobals
  BY <1>2 DEF CreateGlobals
<1>3. CASE CreatePackages
  BY <1>3 DEF CreatePackages
<1>4. CASE CreateSequence
  BY <1>4 DEF CreateSequence
<1>5. CASE Kill
  BY <1>5 DEF Kill, tableVars
<1>6. ASSUME NEW seq \in 1 .. MaxSeq, SetSequence(seq)
      PROVE  TablesInv'
  BY <1>6 DEF SetSequence
<1>7. CASE UNCHANGED <<pc, tables, seqRow>>
  BY <1>7
<1> QED
  BY <1>1, <1>2, <1>3, <1>4, <1>5, <1>6, <1>7
  DEF Next, Calls, vars, tableVars, PutPackages, PutCompleted, DeletePackage

-----------------------------------------------------------------------------
(* Types                                                                   *)

\* The record of a row that is not there has the fields of a row.
LEMMA NoRowIsRow == NoRow \in Rows
BY DEF NoRow, Rows

\* What the calls of a mirror write is a row.
LEMMA WrittenRows ==
  ASSUME NEW row \in Rows, NEW r \in Revisions
  PROVE  QueuedRow(row, r) \in Rows /\ QueuedRow(row, r).there
BY DEF QueuedRow, Rows

\* What PutCompleted may leave in a row has its type.
LEMMA CompletionTypes ==
  ASSUME NEW done \in Completions
  PROVE  done.document \in Revisions \cup {0} /\ done.files \in SUBSET Revisions
BY DEF Completions

\* Calls are made once both tables are there.
LEMMA CallTypes ==
  ASSUME TypeOK, TablesInv, pc = "ready", UNCHANGED <<pc, hasGlobals, tables>>,
         seqRow' \in 0 .. MaxSeq \cup {NoValue},
         rows' \in [Names -> Rows],
         \A p \in Names : ~ rows'[p].there => rows'[p] = NoRow
  PROVE  TypeOK'
BY DEF TypeOK, TablesInv, IsInitialized

\* Every statement keeps the types of the rows it writes.
LEMMA NextTypes ==
  ASSUME TypeOK, TablesInv, [Next]_vars
  PROVE  TypeOK'
<1>1. CASE Start
  BY <1>1 DEF Start, TypeOK, tableVars
<1>2. CASE CreateGlobals
  BY <1>2 DEF CreateGlobals, TypeOK
<1>3. CASE CreatePackages
  BY <1>3 DEF CreatePackages, TypeOK
<1>4. CASE CreateSequence
  BY <1>4, GormAssumption DEF CreateSequence, TypeOK, TablesInv, IsInitialized
<1>5. CASE Kill
  BY <1>5 DEF Kill, TypeOK, tableVars
<1>6. ASSUME NEW seq \in 1 .. MaxSeq, SetSequence(seq)
      PROVE  TypeOK'
  BY <1>6, GormAssumption, CallTypes DEF SetSequence, TypeOK
<1>7. ASSUME NEW put \in SUBSET Names, NEW revisions \in [Names -> Revisions],
             PutPackages(put, revisions)
      PROVE  TypeOK'
  <2>1. PICK failed \in SUBSET put :
          rows' = [p \in Names |-> IF p \in put \ failed
                                   THEN QueuedRow(rows[p], revisions[p])
                                   ELSE rows[p]]
    BY <1>7 DEF PutPackages
  <2>2. \A p \in Names : /\ QueuedRow(rows[p], revisions[p]) \in Rows
                         /\ QueuedRow(rows[p], revisions[p]).there
    BY WrittenRows DEF TypeOK
  <2>4. rows' \in [Names -> Rows]
    BY <2>1, <2>2 DEF TypeOK
  <2>5. \A p \in Names : ~ rows'[p].there => rows'[p] = NoRow
    BY <2>1, <2>2 DEF TypeOK
  <2> QED BY <1>7, <2>4, <2>5, CallTypes DEF PutPackages, TypeOK
<1>8. ASSUME NEW p \in Names, DeletePackage(p)
      PROVE  TypeOK'
  <2>1. rows' = [rows EXCEPT ![p] = NoRow]
    BY <1>8 DEF DeletePackage
  <2> QED
    BY <1>8, <2>1, NoRowIsRow, CallTypes DEF DeletePackage, TypeOK
<1>9. ASSUME NEW p \in Names, NEW done \in Completions,
             PutCompleted(p, done.document, done.document, done.files)
      PROVE  TypeOK'
  <2> DEFINE row == [there |-> TRUE, marked |-> TRUE,
                     revision |-> done.document, document |-> done.document,
                     files |-> done.files]
  <2>1. rows' = [rows EXCEPT ![p] = row]
    BY <1>9 DEF PutCompleted
  <2>2. row \in Rows
    BY CompletionTypes DEF Rows
  <2>3. row.there
    OBVIOUS
  <2> HIDE DEF row
  <2> QED
    BY <1>9, <2>1, <2>2, <2>3, CallTypes DEF PutCompleted, TypeOK
<1>10. CASE UNCHANGED vars
  BY <1>10 DEF vars, tableVars, TypeOK
<1> QED
  BY <1>1, <1>2, <1>3, <1>4, <1>5, <1>6, <1>7, <1>8, <1>9, <1>10
  DEF Next, Calls

\* The types hold of a new database.
LEMMA InitTypes == Init => TypeOK
BY NoRowIsRow DEF Init, TypeOK

GormInv == TypeOK /\ TablesInv

\* The types, and the tables that a process finds, for any number of packages,
\* however often it is killed.
THEOREM GormInvariance == Spec => []GormInv
<1>1. Init => GormInv
  BY InitTypes, InitTables DEF GormInv
<1>2. GormInv /\ [Next]_vars => GormInv'
  BY NextTypes, NextTables DEF GormInv
<1> QED BY <1>1, <1>2, PTL DEF Spec

-----------------------------------------------------------------------------
(* The refinement                                                          *)

\* A database without tables is an empty store.
LEMMA GormStarts == Init => Store!Init
BY DEF Init, Store!Init, IsInitialized, GetSequence, NoRow, Store!NoRow

\* The table that comes last makes the database an initialised one; the row of
\* the sequence adds nothing to it.
LEMMA CreationIsInitialize ==
  ASSUME TablesInv, CreateGlobals \/ CreatePackages \/ CreateSequence
  PROVE  [Store!Next]_(Store!vars)
<1> USE DEF TablesInv, IsInitialized, Store!vars
<1>1. CASE CreateGlobals
  <2>1. IsInitialized' = IsInitialized
    BY <1>1 DEF CreateGlobals
  <2> QED BY <1>1, <2>1 DEF CreateGlobals, GetSequence
<1>2. CASE CreatePackages
  <2>1. IsInitialized' /\ rows' = rows /\ seqRow' = seqRow
    BY <1>2 DEF CreatePackages
  <2>2. CASE IsInitialized
    BY <2>1, <2>2 DEF GetSequence
  <2>3. CASE ~ IsInitialized
    <3>1. seqRow = NoValue
      BY <1>2, <2>3 DEF CreatePackages
    <3> QED
      BY <2>1, <2>3, <3>1 DEF GetSequence, Store!Initialize, Store!Next
  <2> QED BY <2>2, <2>3
<1>3. CASE CreateSequence
  BY <1>3 DEF CreateSequence, Store!SetSequence, Store!Next
<1> QED BY <1>1, <1>2, <1>3

\* A row that is queued keeps its document and its files.
LEMMA QueuedIsQueued ==
  ASSUME GormInv, NEW put \in SUBSET Names,
         NEW revisions \in [Names -> Revisions],
         PutPackages(put, revisions)
  PROVE  Store!PutPackages
<1>1. PICK failed \in SUBSET put :
        rows' = [p \in Names |-> IF p \in put \ failed
                                 THEN QueuedRow(rows[p], revisions[p])
                                 ELSE rows[p]]
  BY DEF PutPackages
<1>2. ASSUME NEW p \in Names
      PROVE  Store!Queued(p) \/ rows'[p] = rows[p]
  <2>1. CASE p \in put \ failed
    <3>1. rows'[p] = QueuedRow(rows[p], revisions[p]) /\ rows[p] \in Rows
      BY <1>1, <2>1 DEF GormInv, TypeOK
    <3> QED
      BY <3>1 DEF QueuedRow, Rows, Store!Queued, Store!Incomplete
  <2> QED BY <1>1, <2>1
<1> QED
  BY <1>2
  DEF PutPackages, Store!PutPackages, GormInv, TablesInv, IsInitialized,
      GetSequence

\* Every step is one of the store, or leaves it alone.
LEMMA GormStep ==
  ASSUME GormInv, [Next]_vars
  PROVE  [Store!Next]_(Store!vars)
<1> USE DEF Store!vars
<1>1. CASE UNCHANGED tableVars
  BY <1>1 DEF tableVars, IsInitialized, GetSequence
<1>2. CASE CreateGlobals \/ CreatePackages \/ CreateSequence
  BY <1>2, CreationIsInitialize DEF GormInv
<1>3. ASSUME NEW seq \in 1 .. MaxSeq, SetSequence(seq)
      PROVE  Store!SetSequence
  BY <1>3
  DEF SetSequence, Store!SetSequence, GormInv, TablesInv, IsInitialized
<1>4. ASSUME NEW put \in SUBSET Names, NEW revisions \in [Names -> Revisions],
             PutPackages(put, revisions)
      PROVE  Store!PutPackages
  BY <1>4, QueuedIsQueued
<1>5. ASSUME NEW p \in Names, DeletePackage(p)
      PROVE  Store!DeletePackage(p)
  BY <1>5
  DEF DeletePackage, Incomplete, GormInv, TypeOK, NoRow, IsInitialized,
      GetSequence, Store!DeletePackage, Store!Incomplete, Store!Others,
      Store!NoRow
<1>6. ASSUME NEW p \in Names, NEW done \in Completions,
             PutCompleted(p, done.document, done.document, done.files)
      PROVE  Store!PutCompleted(p)
  BY <1>6
  DEF PutCompleted, Incomplete, GormInv, TypeOK, IsInitialized, GetSequence,
      Store!PutCompleted, Store!Incomplete, Store!Others
<1>7. Start \/ Kill \/ UNCHANGED vars => UNCHANGED tableVars
  BY DEF Start, Kill, vars
<1> QED
  BY <1>1, <1>2, <1>3, <1>4, <1>5, <1>6, <1>7
  DEF Next, Calls, Store!Next

\* The tables keep what PocketStore promises (db/gorm_backend.go), as the
\* buckets of the bolt database do, although Init is no transaction.
THEOREM GormRefinement == Spec => ImplementsStore
<1>1. GormInv /\ [Next]_vars => [Store!Next]_(Store!vars)
  BY GormStep
<1> QED
  BY GormStarts, GormInvariance, <1>1, PTL DEF Spec, ImplementsStore, Store!Spec

-----------------------------------------------------------------------------
(* The migration                                                           *)

\* What a run has come past is there as it is in the source, or with what a run
\* before it has left; without a change of the source these are the same.
MigrateInv ==
  /\ source \in Sources /\ sourceSeq \in 1 .. MaxSeq
  /\ rows = [p \in Names |-> rows[p]]
  /\ phase \in {"open", "copy", "saved", "mirror"}
  /\ phase # "open" => pc = "ready"
  /\ phase # "copy" => todo = {}
  /\ \A p \in Names :
       /\ p \in todo => source[p].there
       /\ ~ moved /\ rows[p].there => rows[p] = AsRow(source[p])
       /\ phase \in {"copy", "saved"} /\ source[p].there /\ p \notin todo \cup skipped =>
            rows[p].there /\ source[p].revision \in {0, rows[p].revision}

\* The fields of an entry.
Shaped(e) ==
  \E there, marked \in BOOLEAN, revision, document \in {0} \cup Revisions,
     files \in {NoValue, {}, Revisions} :
    e = [there |-> there, marked |-> marked, revision |-> revision,
         document |-> document, files |-> files]

\* An entry that a source may hold has the fields of one.
LEMMA EntryFields ==
  ASSUME NEW e \in Entries
  PROVE  Shaped(e)
<1> USE DEF Shaped, Entry
<1>1. CASE e = [NoRow EXCEPT !.files = NoValue]
  BY <1>1 DEF NoRow
<1>2. CASE e = Entry(0, 0, {}, TRUE)
  BY <1>2
<1>3. ASSUME NEW r \in Revisions, NEW d \in {0} \cup Revisions,
             e = Entry(r, d, NoValue, FALSE)
      PROVE  Shaped(e)
  BY <1>3
<1>4. ASSUME NEW r \in Revisions, NEW f \in {{}, Revisions},
             e = Entry(r, r, f, TRUE)
      PROVE  Shaped(e)
  BY <1>4
<1>5. ASSUME NEW r \in Revisions, NEW d \in {0} \cup Revisions,
             NEW f \in {{}, Revisions}, e = Entry(r, d, f, FALSE)
      PROVE  Shaped(e)
  BY <1>5
<1> HIDE DEF Shaped, Entry
<1>6. \/ e = [NoRow EXCEPT !.files = NoValue] \/ e = Entry(0, 0, {}, TRUE)
      \/ \E r \in Revisions, d \in {0} \cup Revisions :
           e = Entry(r, d, NoValue, FALSE)
      \/ \E r \in Revisions, f \in {{}, Revisions} : e = Entry(r, r, f, TRUE)
      \/ \E r \in Revisions, d \in {0} \cup Revisions, f \in {{}, Revisions} :
           e = Entry(r, d, f, FALSE)
  BY DEF Entries, Entry
<1> QED BY <1>1, <1>2, <1>3, <1>4, <1>5, <1>6

\* The row that an entry becomes.
LEMMA EntryShape ==
  ASSUME NEW e \in Entries
  PROVE  /\ AsRow(e) = [there |-> e.there, marked |-> e.marked,
                        revision |-> e.revision, document |-> e.document,
                        files |-> FilesOf(e)]
         /\ e.there \in BOOLEAN /\ e.marked \in BOOLEAN
BY EntryFields DEF Shaped, AsRow

\* A package that is copied over its own row stays as it is.
LEMMA AssignSame ==
  ASSUME NEW e \in Entries, e.there
  PROVE  Assign(AsRow(e), e) = AsRow(e)
BY EntryShape DEF Assign, UnlessBlank, FilesOf

\* A package that is copied has the revision of its entry, unless that is empty.
LEMMA CopyRevision ==
  ASSUME NEW e \in Entries, e.there, NEW row
  PROVE  /\ Assign(row, e).there
         /\ e.revision \in {0, Assign(row, e).revision}
         /\ AsRow(e).there /\ AsRow(e).revision = e.revision
BY EntryShape DEF Assign, UnlessBlank

\* The invariant of the migration holds before it starts.
LEMMA InitMigrate == MigrateInit => MigrateInv
BY DEF MigrateInit, Init, NoRow, MigrateInv

\* Copying a package, or failing to, keeps the invariant.
LEMMA CopyMigrate ==
  ASSUME MigrateInv, NEW p \in Names, CopyPackage(p)
  PROVE  MigrateInv'
<1>1. /\ phase = "copy" /\ p \in todo /\ todo' = todo \ {p}
      /\ UNCHANGED <<pc, phase, source, sourceSeq, moved>>
  BY DEF CopyPackage, sourceVars
<1>2. source[p] \in Entries /\ source[p].there
  BY <1>1 DEF MigrateInv, Sources
<1>3. ASSUME skipped' = skipped \cup {p}, rows' = rows
      PROVE  MigrateInv'
  BY <1>1, <1>3 DEF MigrateInv
<1>4. ASSUME skipped' = skipped,
             rows' = [rows EXCEPT ![p] = IF @.there THEN Assign(@, source[p])
                                         ELSE AsRow(source[p])]
      PROVE  MigrateInv'
  <2>1. rows'[p] = IF rows[p].there THEN Assign(rows[p], source[p])
                   ELSE AsRow(source[p])
    BY <1>4 DEF MigrateInv
  <2>2. \A q \in Names \ {p} : rows'[q] = rows[q]
    BY <1>4 DEF MigrateInv
  <2>3. rows'[p].there /\ source[p].revision \in {0, rows'[p].revision}
    BY <1>2, <2>1, CopyRevision
  <2>4. ~ moved => rows'[p] = AsRow(source[p])
    BY <1>2, <2>1, AssignSame DEF MigrateInv
  <2> QED BY <1>1, <1>4, <2>2, <2>3, <2>4 DEF MigrateInv
<1> QED BY <1>3, <1>4 DEF CopyPackage

\* Every step of a run, its end, and the use of the source between two runs.
LEMMA NextMigrate ==
  ASSUME MigrateInv, [MigrateNext]_migrateVars
  PROVE  MigrateInv'
<1>1. ASSUME UNCHANGED <<rows, source, sourceSeq, moved, phase, todo, skipped>>,
             pc = "ready" => pc' = "ready"
      PROVE  MigrateInv'
  BY <1>1 DEF MigrateInv
<1>2. CASE Prepare
  BY <1>1, <1>2
  DEF Prepare, Start, CreateGlobals, CreatePackages, CreateSequence, tableVars,
      sourceVars, runVars
<1>3. CASE OpenSource
  BY <1>3 DEF OpenSource, MigrateInv, vars, tableVars, sourceVars
<1>4. ASSUME NEW p \in Names, CopyPackage(p)
      PROVE  MigrateInv'
  BY <1>4, CopyMigrate
<1>5. CASE SaveSequence
  BY <1>5 DEF SaveSequence, AllCopied, SetSequence, MigrateInv, sourceVars
<1>6. CASE End
  BY <1>6 DEF End, Kill, MigrateInv, tableVars, sourceVars
<1>7. CASE UseSource
  <2>1. /\ phase = "open" /\ todo = {} /\ source' \in Sources
        /\ sourceSeq' \in 1 .. MaxSeq
        /\ moved' = (moved \/ \E p \in Names : rows[p].there)
        /\ UNCHANGED <<pc, rows, phase, todo, skipped>>
    BY <1>7 DEF UseSource, MigrateInv, vars, tableVars, runVars
  <2> QED BY <2>1 DEF MigrateInv
<1>8. CASE UNCHANGED migrateVars
  BY <1>1, <1>8 DEF migrateVars, vars, tableVars, sourceVars, runVars
<1>9. CASE RunMirror
  BY <1>9 DEF RunMirror, MigrateInv, vars, tableVars, sourceVars
<1>10. CASE UseTables
  <2>1. /\ phase' = "mirror" /\ moved' /\ todo' = {} /\ pc' = "ready"
        /\ UNCHANGED <<source, sourceSeq>>
    BY <1>10
    DEF UseTables, Calls, SetSequence, PutPackages, PutCompleted, DeletePackage,
        MigrateInv, runVars
  <2>2. rows' = [p \in Names |-> rows'[p]]
    BY <1>10
    DEF UseTables, Calls, SetSequence, PutPackages, PutCompleted, DeletePackage,
        MigrateInv
  <2> QED BY <2>1, <2>2 DEF MigrateInv
<1> QED
  BY <1>2, <1>3, <1>4, <1>5, <1>6, <1>7, <1>8, <1>9, <1>10 DEF MigrateNext

\* The invariant of the migration, however often it is killed.
LEMMA MigrateInvariance == MigrateSpec => []MigrateInv
<1>1. MigrateInv /\ [MigrateNext]_migrateVars => MigrateInv'
  BY NextMigrate
<1> QED BY InitMigrate, <1>1, PTL DEF MigrateSpec

\* The copy is exact, or says of which packages it is not (database.go:457),
\* for any number of packages and of runs that were killed before it, while the
\* source stays as it is.
THEOREM MigrationIsExact == MigrateSpec => []MigratedOrSkipped
<1>1. MigrateInv => MigratedOrSkipped
  BY DEF MigrateInv, MigratedOrSkipped
<1> QED BY MigrateInvariance, <1>1, PTL

\* The revisions are those of the source although it was used between runs.
THEOREM RevisionsAreMigrated == MigrateSpec => []RevisionsMigrated
<1>1. MigrateInv => RevisionsMigrated
  BY DEF MigrateInv, RevisionsMigrated
<1> QED BY MigrateInvariance, <1>1, PTL

-----------------------------------------------------------------------------
(* The tables between migrations                                           *)

\* What is copied over a row, or into a new one, has the type of a row.
LEMMA CopiedRows ==
  ASSUME NEW e \in Entries, e.there
  PROVE  /\ AsRow(e) \in Rows /\ AsRow(e).there
         /\ \A row \in Rows : Assign(row, e) \in Rows /\ Assign(row, e).there
BY EntryFields DEF Shaped, AsRow, FilesOf, Assign, UnlessBlank, Rows

\* All that a migration does to the tables but copying are steps of GormStore.
LEMMA MigrateSteps ==
  ASSUME MigrateInv, [MigrateNext]_migrateVars
  PROVE  [Next]_vars \/ \E p \in Names : CopyPackage(p)
BY DEF MigrateNext, migrateVars, MigrateInv, Prepare, OpenSource, SaveSequence,
   RunMirror, UseTables, End, UseSource, Next, Calls

\* Copying a package writes one row.
LEMMA CopyTypes ==
  ASSUME GormInv, MigrateInv, NEW p \in Names, CopyPackage(p)
  PROVE  GormInv'
<1>1. /\ pc = "ready" /\ UNCHANGED <<pc, hasGlobals, tables, seqRow>>
      /\ source[p] \in Entries /\ source[p].there
  BY DEF CopyPackage, MigrateInv, Sources
<1>2. TablesInv'
  BY <1>1 DEF GormInv, TablesInv, IsInitialized
<1>3. CASE rows' = rows
  BY <1>1, <1>2, <1>3 DEF GormInv, TypeOK
<1>4. CASE rows' = [rows EXCEPT ![p] = IF @.there THEN Assign(@, source[p])
                                       ELSE AsRow(source[p])]
  <2> DEFINE row == IF rows[p].there THEN Assign(rows[p], source[p])
                    ELSE AsRow(source[p])
  <2>1. row \in Rows /\ row.there
    BY <1>1, CopiedRows DEF GormInv, TypeOK
  <2>2. rows' = [rows EXCEPT ![p] = row]
    BY <1>4
  <2> HIDE DEF row
  <2> QED
    BY <1>1, <1>2, <2>1, <2>2, CallTypes DEF GormInv, TypeOK
<1> QED BY <1>3, <1>4 DEF CopyPackage

\* The tables are as GormStore has them, whatever a migration does to them.
LEMMA MigrateGormInvariance == MigrateSpec => []GormInv
<1>1. MigrateInit => GormInv
  BY InitTypes, InitTables DEF MigrateInit, GormInv
<1>2. GormInv /\ MigrateInv /\ [MigrateNext]_migrateVars => GormInv'
  BY MigrateSteps, CopyTypes, NextTypes, NextTables DEF GormInv
<1> QED BY <1>1, <1>2, MigrateInvariance, PTL DEF MigrateSpec

\* No row without its table, and nothing in a row that is not there, wherever
\* Init of the store (gorm_backend.go:82-96) or a migration is killed.
THEOREM GormTypeCorrect == MigrateSpec => []TypeOK
<1>1. GormInv => TypeOK
  BY DEF GormInv
<1> QED BY <1>1, MigrateGormInvariance, PTL

\* Outside the copying the tables keep what PocketStore promises, for any number
\* of packages and whatever the migrations before have left (database.go:456).
THEOREM StoreAfterMigration == MigrateSpec => CallsKeepStore
<1>1. GormInv /\ MigrateInv /\ [MigrateNext]_migrateVars =>
        [phase # "copy" => [Store!Next]_(Store!vars)]_migrateVars
  <2>1. ASSUME NEW p \in Names, CopyPackage(p)
        PROVE  phase = "copy"
    BY <2>1 DEF CopyPackage
  <2> QED BY <2>1, MigrateSteps, GormStep
<1> QED
  BY <1>1, MigrateInvariance, MigrateGormInvariance, PTL
  DEF MigrateSpec, CallsKeepStore

=============================================================================
