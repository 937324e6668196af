---------------------------- MODULE PocketStore ----------------------------
(***************************************************************************)
(* What a database promises the rest of the program (db/models.go:         *)
(* PocketStore, as PocketBase and the mirror use it): the life of each     *)
(* package's entry, and which of them one call may touch.                  *)
(*                                                                         *)
(*     absent <---> incomplete <---> complete                              *)
(*                                                                         *)
(* An entry is queued with a revision and keeps the document and files it  *)
(* had; only an incomplete one is completed or deleted, one at a time; a   *)
(* complete one changes only by being queued again.                        *)
(***************************************************************************)
EXTENDS Naturals

CONSTANT Names

VARIABLES
  initialized,
  sequence,
  rows        \* name -> the entry, if it is there

vars == <<initialized, sequence, rows>>

\* No entry: neither a revision nor a document, and no files.
NoRow ==
  [there |-> FALSE, marked |-> FALSE, revision |-> 0, document |-> 0,
   files |-> {}]

Init ==
  /\ ~ initialized
  /\ sequence = 0
  /\ \A p \in Names : rows[p] = NoRow

Others(p) == \A q \in Names \ {p} : rows'[q] = rows[q]

Incomplete(row) == row.there /\ ~ row.marked

Initialize ==
  /\ ~ initialized
  /\ initialized'
  /\ sequence' = 0
  /\ UNCHANGED rows

SetSequence ==
  /\ initialized
  /\ UNCHANGED <<initialized, rows>>

\* Whether the row of p has been queued: content survives, the mark does not.
Queued(p) ==
  /\ Incomplete(rows'[p])
  /\ rows'[p].document = rows[p].document
  /\ rows'[p].files = rows[p].files

PutPackages ==
  /\ initialized
  /\ \A p \in Names : Queued(p) \/ rows'[p] = rows[p]
  /\ UNCHANGED <<initialized, sequence>>

PutCompleted(p) ==
  /\ Incomplete(rows[p])
  /\ rows'[p].there /\ rows'[p].marked
  /\ Others(p)
  /\ UNCHANGED <<initialized, sequence>>

\* A failed PutCompleted may leave traces, but never a complete package.
PutCompletedFails(p) ==
  /\ Incomplete(rows[p])
  /\ Incomplete(rows'[p])
  /\ Others(p)
  /\ UNCHANGED <<initialized, sequence>>

DeletePackage(p) ==
  /\ Incomplete(rows[p])
  /\ rows'[p] = NoRow
  /\ Others(p)
  /\ UNCHANGED <<initialized, sequence>>

Next ==
  \/ Initialize \/ SetSequence \/ PutPackages
  \/ \E p \in Names :
       PutCompleted(p) \/ PutCompletedFails(p) \/ DeletePackage(p)

Spec == Init /\ [][Next]_vars

=============================================================================
