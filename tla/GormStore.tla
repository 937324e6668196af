----------------------------- MODULE GormStore -----------------------------
(***************************************************************************)
(* The SQL database behind PocketBase (db/gorm_backend.go): a table of     *)
(* globals, a table of packages, and one action per transaction or, where  *)
(* there is none, per statement.  The process that uses it is a mirror: it *)
(* initialises the database if it has to, and then makes the calls of its  *)
(* rounds.  It may be killed between any two statements.                   *)
(*                                                                         *)
(* Revisions and documents are as in BoltStore: 0 is the empty string, a   *)
(* document the revision it describes.                                     *)
(***************************************************************************)
EXTENDS Naturals, FiniteSets

CONSTANTS
  Names,       \* package names
  Revisions,   \* the revisions a package may have
  MaxSeq,      \* bound on the sequences that are stored
  NoValue      \* the value of a row of globals that is not there

ASSUME GormAssumption ==
  /\ IsFiniteSet(Names)
  /\ Revisions \subseteq Nat \ {0}
  /\ MaxSeq \in Nat
  /\ NoValue \notin Nat

VARIABLES
  pc,          \* the process: down, at a statement of Init, or ready
  hasGlobals,  \* Init: whether the table of globals was there
  tables,      \* the tables that exist
  seqRow,      \* globals: the value under the key "sequence"
  rows         \* packages: name -> row

tableVars == <<tables, seqRow, rows>>
vars == <<pc, hasGlobals, tableVars>>

NoRow ==
  [there |-> FALSE, marked |-> FALSE, revision |-> 0, document |-> 0,
   files |-> {}]

Rows ==
  [there : BOOLEAN, marked : BOOLEAN, revision : Revisions \cup {0},
   document : Revisions \cup {0}, files : SUBSET Revisions]

\* No row without its table, and nothing in a row that is not there.
TypeOK ==
  /\ pc \in {"down", "globals", "packages", "sequence", "ready"}
  /\ hasGlobals \in BOOLEAN
  /\ tables \subseteq {"globals", "packages"}
  /\ seqRow \in 0 .. MaxSeq \cup {NoValue}
  /\ "globals" \notin tables => seqRow = NoValue
  /\ rows \in [Names -> Rows]
  /\ \A p \in Names : ~ rows[p].there \/ "packages" \notin tables => rows[p] = NoRow

Init ==
  /\ pc = "down"
  /\ hasGlobals = FALSE
  /\ tables = {}
  /\ seqRow = NoValue
  /\ rows = [p \in Names |-> NoRow]

-----------------------------------------------------------------------------
(* Queries                                                                 *)

\* Mutation: the table of packages is not asked for.
GlobalsOnly == "globals" \in tables

\* The row of the sequence is looked for in a query that is never executed
\* (gorm_backend.go:104), so that it is never found missing.
IsInitialized == tables = {"globals", "packages"}

GetSequence == IF seqRow = NoValue THEN 0 ELSE seqRow

Incomplete(p) == rows[p].there /\ ~ rows[p].marked

-----------------------------------------------------------------------------
(* Start-up                                                                *)

Start ==
  /\ pc = "down"
  /\ hasGlobals' = ("globals" \in tables)
  /\ pc' = IF IsInitialized THEN "ready" ELSE "globals"
  /\ UNCHANGED tableVars

\* AutoMigrate creates the tables that are missing, one after the other.
CreateGlobals ==
  /\ pc = "globals"
  /\ tables' = tables \cup {"globals"}
  /\ pc' = "packages"
  /\ UNCHANGED <<hasGlobals, seqRow, rows>>

CreatePackages ==
  /\ pc = "packages"
  /\ tables' = tables \cup {"packages"}
  /\ pc' = IF hasGlobals THEN "ready" ELSE "sequence"
  /\ UNCHANGED <<hasGlobals, seqRow, rows>>

CreateSequence ==
  /\ pc = "sequence"
  /\ seqRow' = 0
  /\ pc' = "ready"
  /\ UNCHANGED <<hasGlobals, tables, rows>>

\* Killed, or a failed statement of Init or a failed commit of PutPackages.
Kill ==
  /\ pc # "down"
  /\ pc' = "down"
  /\ UNCHANGED <<hasGlobals, tableVars>>

-----------------------------------------------------------------------------
(* Calls of the mirror                                                     *)

\* Without its row the sequence is saved under a blank key, which no query
\* finds.  An error is not looked at.
SetSequence(seq) ==
  /\ pc = "ready"
  /\ seqRow' \in {seqRow, IF seqRow = NoValue THEN NoValue ELSE seq}
  /\ UNCHANGED <<pc, hasGlobals, tables, rows>>

\* Mutation: the existing row is replaced by a new one.
NewRow(row, revision) ==
  [NoRow EXCEPT !.there = TRUE, !.revision = revision]

\* A package that is queued keeps its document and its files.
QueuedRow(row, revision) ==
  [row EXCEPT !.there = TRUE, !.marked = FALSE, !.revision = revision]

\* A statement that fails is logged, or not looked at, and the others of the
\* batch are committed.  (A query for the row that fails is taken for one that
\* found it, and a row with a blank ID is saved, which is no package's: it is
\* not among Names.)
PutPackages(put, revisions) ==
  /\ pc = "ready"
  /\ \E failed \in SUBSET put :
       rows' = [p \in Names |-> IF p \in put \ failed
                                THEN QueuedRow(rows[p], revisions[p])
                                ELSE rows[p]]
  /\ UNCHANGED <<pc, hasGlobals, tables, seqRow>>

\* One statement; when it or the commit fails nothing is written.  That the
\* package is incomplete is not asked here or in DeletePackage: the calls come
\* from a round, which has incomplete packages only (mirror.go:153).
PutCompleted(p, revision, document, downloads) ==
  /\ pc = "ready"
  /\ Incomplete(p)
  /\ rows' = [rows EXCEPT ![p] =
                [there |-> TRUE, marked |-> TRUE, revision |-> revision,
                 document |-> document, files |-> downloads]]
  /\ UNCHANGED <<pc, hasGlobals, tables, seqRow>>

DeletePackage(p) ==
  /\ pc = "ready"
  /\ Incomplete(p)
  /\ rows' = [rows EXCEPT ![p] = NoRow]
  /\ UNCHANGED <<pc, hasGlobals, tables, seqRow>>

\* A document that could be fetched has its revision and lists its tarballs;
\* one that could not is empty and has none.
Completions ==
  {[document |-> d, files |-> f] : d \in Revisions, f \in {{}, Revisions}}
    \cup {[document |-> 0, files |-> {}]}

Calls ==
  \/ \E seq \in 1 .. MaxSeq : SetSequence(seq)
  \/ \E put \in SUBSET Names, revisions \in [Names -> Revisions] :
       PutPackages(put, revisions)
  \/ \E p \in Names :
       \/ DeletePackage(p)
       \/ \E done \in Completions :
            PutCompleted(p, done.document, done.document, done.files)

Next ==
  \/ Start \/ CreateGlobals \/ CreatePackages \/ CreateSequence \/ Kill
  \/ Calls

Spec == Init /\ [][Next]_vars

-----------------------------------------------------------------------------
(* Properties                                                              *)

Store == INSTANCE PocketStore
  WITH initialized <- IsInitialized, sequence <- GetSequence

\* The tables keep what PocketStore promises, as the buckets of BoltStore do:
\* an update of a package leaves the document that is served meanwhile
\* (gorm_backend.go:226-239), a kill during Init does no more than delay it.
ImplementsStore == Store!Spec

=============================================================================
