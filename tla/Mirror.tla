------------------------------- MODULE Mirror -------------------------------
(***************************************************************************)
(* The mirroring process (npm/mirror.go: Run, FirstRun, Update, Start)     *)
(* over its bolt database, its download directory and a registry that      *)
(* keeps changing.  The process can be killed between any two steps and    *)
(* started again; the database and the directory survive.                  *)
(*                                                                         *)
(* A call of Start is a round: each package that was incomplete when it    *)
(* began is fetched and settled once, in any order, and the round ends     *)
(* after the last.  WorkerPool shows that the goroutines of Start do that. *)
(***************************************************************************)
EXTENDS BoltStore

CONSTANTS
  MaxConnections,  \* workers of a round
  NotFound,        \* the body "404"
  FaultKinds,      \* what may go wrong, a subset of Faults
  MaxSeq           \* bound on the registry's changes

Faults == {"crash", "allDocs", "changes", "document", "tarball", "remove",
           "commit", "put", "sequence"}

ASSUME MirrorAssumption ==
  /\ MaxConnections \in Nat \ {0}
  /\ NotFound \notin Nat \cup {StatusBody, Absent}
  /\ FaultKinds \subseteq Faults
  /\ MaxSeq \in Nat
  /\ MaxSeq < SeqModulus
  /\ \A downloads \in SUBSET (1 .. MaxSeq) : Absent # downloads

VARIABLES
  up,              \* registry: revision, deletion and last change of a package
  upSeq,           \* registry: its update sequence
  disk,            \* tarballs of each package that are whole on disk
  pc,              \* where the process is
  caller,          \* who called Start
  seq,             \* Run: sequence read before the first run
  statPackages,    \* Run: packages counted before the first run
  markedCount,     \* Run: complete packages counted after it
  cachedSeq,       \* PocketBase: the sequence in its in-memory cache
  batch,           \* packages about to be put, Absent for the others
  lastSeq,         \* the sequence that goes with batch
  at,              \* round: how far each package is
  queuedRev,       \* round: the revision it was queued with
  fetched,         \* round: the document that was fetched
  wanted,          \* round: the tarballs of it that are still to be tried
  completed        \* round: the tarballs that were downloaded

registry == <<up, upSeq>>
memory == <<seq, statPackages, markedCount, cachedSeq>>
pending == <<batch, lastSeq>>
round == <<at, queuedRev, fetched, wanted, completed>>
vars == <<registry, storeVars, disk, pc, caller, memory, pending, round>>

NoBatch == [p \in Names |-> Absent]

TypeOK ==
  /\ StoreTypeOK
  /\ up \in [Names -> [rev : Nat, deleted : BOOLEAN, seq : 0 .. MaxSeq]]
  /\ upSeq \in 0 .. MaxSeq
  /\ disk \in [Names -> SUBSET Nat]
  /\ pc \in {"down", "initialize", "stats", "allDocs", "put", "setSequence",
             "start", "round", "marks", "gate", "poll", "blocked"}
  /\ caller \in {"nobody", "firstRun", "continue", "update"}
  /\ seq \in 0 .. MaxSeq
  /\ statPackages \in Nat
  /\ markedCount \in Nat
  /\ cachedSeq \in 0 .. MaxSeq
  /\ batch \in [Names -> Nat \cup {Absent}]
  /\ lastSeq \in 0 .. MaxSeq
  /\ at \in [Names -> {"idle", "queued", "fetched", "ready", "removed"}]
  /\ queuedRev \in [Names -> Nat]
  /\ fetched \in [Names -> Nat \cup {StatusBody, NotFound}]
  /\ wanted \in [Names -> SUBSET Nat]
  /\ completed \in [Names -> SUBSET Nat]

\* The registry starts empty and changes before the first run as it does after.
Init ==
  /\ StoreInit
  /\ up = [p \in Names |-> [rev |-> 0, deleted |-> TRUE, seq |-> 0]]
  /\ upSeq = 0
  /\ disk = [p \in Names |-> {}]
  /\ pc = "down"
  /\ caller = "nobody"
  /\ seq = 0 /\ statPackages = 0 /\ markedCount = 0 /\ cachedSeq = 0
  /\ batch = NoBatch /\ lastSeq = 0
  /\ at = [p \in Names |-> "idle"]
  /\ queuedRev = [p \in Names |-> 0]
  /\ fetched = [p \in Names |-> 0]
  /\ wanted = [p \in Names |-> {}]
  /\ completed = [p \in Names |-> {}]

-----------------------------------------------------------------------------
(* The registry                                                            *)

\* The registry accepts a change of p: the next revision, under the next
\* sequence number.  A deletion is a revision too.
Change(p, delete) ==
  /\ upSeq < MaxSeq
  /\ delete => ~ up[p].deleted
  /\ upSeq' = upSeq + 1
  /\ up' = [up EXCEPT ![p] =
              [rev |-> @.rev + 1, deleted |-> delete, seq |-> upSeq + 1]]
  /\ UNCHANGED <<storeVars, disk, pc, caller, memory, pending, round>>

\* The document of revision r lists the tarballs 1 .. r.
Tarballs(document) == IF document \in Nat THEN 1 .. document ELSE {}

Served(p) == IF up[p].deleted THEN {} ELSE 1 .. up[p].rev

-----------------------------------------------------------------------------
(* Start-up                                                                *)

\* The process ends, wherever it is: memory is lost, database and files stay.
Die ==
  /\ pc' = "down"
  /\ caller' = "nobody"
  /\ seq' = 0 /\ statPackages' = 0 /\ markedCount' = 0 /\ cachedSeq' = 0
  /\ batch' = NoBatch /\ lastSeq' = 0
  /\ at' = [p \in Names |-> "idle"]
  /\ queuedRev' = [p \in Names |-> 0]
  /\ fetched' = [p \in Names |-> 0]
  /\ wanted' = [p \in Names |-> {}]
  /\ completed' = [p \in Names |-> {}]
  /\ UNCHANGED <<registry, storeVars, disk>>

Restart ==
  /\ pc = "down"
  /\ pc' = "initialize"
  /\ UNCHANGED <<registry, storeVars, disk, caller, memory, pending, round>>

\* Mutation: the database is initialised whether it was or not.
InitializeAlways ==
  /\ pc = "initialize"
  /\ InitBuckets
  /\ pc' = "stats"
  /\ UNCHANGED <<registry, disk, caller, memory, pending, round>>

Initialize ==
  /\ pc = "initialize"
  /\ IF IsInitialized THEN UNCHANGED storeVars ELSE InitBuckets
  /\ pc' = "stats"
  /\ UNCHANGED <<registry, disk, caller, memory, pending, round>>

\* GetSequence answers from the cache, or from the database when the entry has
\* expired, and leaves the answer in the cache.  The two differ only after a
\* SetSequence that failed.
GetSequence(since) ==
  /\ since \in {cachedSeq, sequence}
  /\ cachedSeq' = since

\* The counts are read here and compared only after the first run.  The cache
\* of a process that has just started is empty.
LoadStats ==
  /\ pc = "stats"
  /\ statPackages' = GetItemCount(packages)
  /\ seq' = sequence
  /\ cachedSeq' = sequence
  /\ pc' = IF sequence = 0 THEN "allDocs" ELSE "marks"
  /\ UNCHANGED <<registry, storeVars, disk, caller, markedCount, pending,
                 round>>

\* FirstRun fetches the list of all packages that exist.
GetAllDocs ==
  /\ pc = "allDocs"
  /\ batch' = [p \in Names |-> IF up[p].deleted THEN Absent ELSE up[p].rev]
  /\ lastSeq' = upSeq
  /\ caller' = "firstRun"
  /\ pc' = "put"
  /\ UNCHANGED <<registry, storeVars, disk, memory, round>>

\* Mutation: continue mode needs a package that was mirrored before.
ResumeIfSome(marked) == seq > 0 /\ marked \in 1 .. statPackages - 1

\* Whether packages were left over when the process started.
Resume(marked) == seq > 0 /\ marked < statPackages

\* Packages left incomplete by an earlier process: continue mode.
LoadMarks ==
  /\ pc = "marks"
  /\ markedCount' = GetCountOfMarks(MarkComplete)
  /\ IF Resume(markedCount')
     THEN pc' = "start" /\ caller' = "continue"
     ELSE pc' = "gate" /\ UNCHANGED caller
  /\ UNCHANGED <<registry, storeVars, disk, seq, statPackages, cachedSeq,
                 pending, round>>

\* Run returns under -onetime, a flag that is read only here.
OneTime ==
  /\ pc = "gate"
  /\ Die

\* Otherwise the counts, by now those of before the rounds, decide whether
\* Update is started.
Gate ==
  /\ pc = "gate"
  /\ \E since \in 0 .. MaxSeq :
       /\ GetSequence(since)
       /\ pc' = IF since > 0 /\ markedCount = statPackages
                THEN "poll" ELSE "blocked"
  /\ UNCHANGED <<registry, storeVars, disk, caller, seq, statPackages,
                 markedCount, pending, round>>

\* <-exit: nothing ever sends on it.
Blocked ==
  /\ pc = "blocked"
  /\ UNCHANGED vars

-----------------------------------------------------------------------------
(* Update                                                                  *)

UpToDate ==
  /\ pc = "poll"
  /\ GetSequence(upSeq)
  /\ UNCHANGED <<registry, storeVars, disk, pc, caller, seq, statPackages,
                 markedCount, pending, round>>

\* Mutation: a package the database does not have is not an update.
OutdatedKnown(p) == GetRevision(p) \notin {0, up[p].rev}

Outdated(p) == GetRevision(p) = 0 \/ GetRevision(p) # up[p].rev

\* The changes since the sequence reached, the latest of each package, that
\* the database does not have already.
Poll ==
  /\ pc = "poll"
  /\ \E since \in 0 .. MaxSeq \ {upSeq} :
       /\ GetSequence(since)
       /\ batch' = [p \in Names |->
                      IF up[p].seq > since /\ Outdated(p)
                      THEN up[p].rev ELSE Absent]
  /\ lastSeq' = upSeq
  /\ caller' = "update"
  /\ pc' = "put"
  /\ UNCHANGED <<registry, storeVars, disk, seq, statPackages, markedCount,
                 round>>

PutBatch ==
  /\ pc = "put"
  /\ PutPackages(batch)
  /\ batch' = NoBatch
  /\ pc' = "setSequence"
  /\ UNCHANGED <<registry, disk, caller, memory, lastSeq, round>>

\* The cache takes the sequence whether the database did or not.
SaveSequence ==
  /\ pc = "setSequence"
  /\ \/ SetSequence(lastSeq)
     \/ "sequence" \in FaultKinds /\ UNCHANGED storeVars
  /\ cachedSeq' = lastSeq
  /\ lastSeq' = 0
  /\ pc' = "start"
  /\ UNCHANGED <<registry, disk, caller, seq, statPackages, markedCount, batch,
                 round>>

-----------------------------------------------------------------------------
(* Start: one round                                                        *)

StartRound ==
  /\ pc = "start"
  /\ at' = [p \in Names |->
              IF p \in GetIncompletePackages THEN "queued" ELSE "idle"]
  /\ queuedRev' = [p \in Names |->
              IF p \in GetIncompletePackages THEN GetRevision(p) ELSE 0]
  /\ pc' = "round"
  /\ UNCHANGED <<registry, storeVars, disk, caller, memory, pending, fetched,
                 wanted, completed>>

\* At most one package per worker, and one in the handler, has left the queue.
InHand == {p \in Names : at[p] \in {"fetched", "ready", "removed"}}

\* What the registry answers when it works, and what is left of a request that
\* fails, after three attempts, or is refused: an empty body or the status.
Answers(p) ==
  {IF up[p].deleted THEN NotFound ELSE up[p].rev}
    \cup IF "document" \in FaultKinds THEN {0, StatusBody} ELSE {}

GetDocument(p) ==
  /\ at[p] = "queued"
  /\ Cardinality(InHand) < MaxConnections + 1
  /\ \E document \in Answers(p) :
       /\ fetched' = [fetched EXCEPT ![p] = document]
       /\ wanted' = [wanted EXCEPT ![p] = Tarballs(document)]
  /\ at' = [at EXCEPT ![p] = "fetched"]
  /\ UNCHANGED <<registry, storeVars, disk, pc, caller, memory, pending,
                 queuedRev, completed>>

\* Mutation: the 404 of a deleted package is not told from a document.
GoneNever(document) == FALSE

Gone(document) == document = NotFound

\* Mutation: the Completed flag of a download is not looked at.
ListedFiles(p) == Tarballs(fetched[p])

\* The tarballs PutCompleted is given.
CompletedFiles(p) == completed[p]

\* What may become of a request for tarball t.
Got(p, t) ==
  (IF t \in Served(p) THEN {{t}} ELSE {{}})
    \cup IF "tarball" \in FaultKinds THEN {{}} ELSE {}

\* One tarball of the document, in any order: one that is whole on disk already
\* needs no request, one the registry no longer serves fails.
Try(p, t) ==
  \E got \in IF t \in disk[p] THEN {{t}} ELSE Got(p, t) :
    /\ wanted' = [wanted EXCEPT ![p] = @ \ {t}]
    /\ completed' = [completed EXCEPT ![p] = @ \cup got]
    /\ disk' = [disk EXCEPT ![p] = @ \cup got]

\* The worker tries one tarball after the other; after the last, or at once when
\* there is none, it has a result to hand over.
Download(p) ==
  /\ at[p] = "fetched"
  /\ ~ Gone(fetched[p])
  /\ \/ \E t \in wanted[p] : Try(p, t)
     \/ wanted[p] = {} /\ UNCHANGED <<wanted, completed, disk>>
  /\ at' = IF wanted'[p] = {} THEN [at EXCEPT ![p] = "ready"] ELSE at
  /\ UNCHANGED <<registry, storeVars, pc, caller, memory, pending, queuedRev,
                 fetched>>

\* The _rev field of a document; a body that is not one has none.
RevisionOf(document) == IF document \in Nat THEN document ELSE 0

HandlerFree == \A p \in Names : at[p] # "removed"

\* The package leaves the round.
Settle(p) ==
  /\ at' = [at EXCEPT ![p] = "idle"]
  /\ queuedRev' = [queuedRev EXCEPT ![p] = 0]
  /\ fetched' = [fetched EXCEPT ![p] = 0]
  /\ wanted' = [wanted EXCEPT ![p] = {}]
  /\ completed' = [completed EXCEPT ![p] = {}]

\* The result handler records the package.  A failed Put or commit is logged
\* and the package waits for another round.
WriteCompleted(p) ==
  /\ at[p] = "ready"
  /\ HandlerFree
  /\ \/ PutCompleted(p, queuedRev[p], fetched[p], RevisionOf(fetched[p]),
                     CompletedFiles(p))
     \/ /\ "put" \in FaultKinds
        /\ PutCompletedPartly(p, queuedRev[p], fetched[p],
                              RevisionOf(fetched[p]), CompletedFiles(p))
     \/ "commit" \in FaultKinds /\ UNCHANGED storeVars
  /\ Settle(p)
  /\ UNCHANGED <<registry, disk, pc, caller, memory, pending>>

\* Mutation: the files of a deleted package are left where they are.
RemoveNothing(p) ==
  /\ at[p] = "fetched"
  /\ Gone(fetched[p])
  /\ HandlerFree
  /\ at' = [at EXCEPT ![p] = "removed"]
  /\ UNCHANGED <<registry, storeVars, disk, pc, caller, memory, pending,
                 queuedRev, fetched, wanted, completed>>

\* The result handler removes what is on disk of a package that is gone, and
\* does not look at what RemoveAll answers when some of it could not be ...
RemoveFiles(p) ==
  /\ at[p] = "fetched"
  /\ Gone(fetched[p])
  /\ HandlerFree
  /\ \E left \in IF "remove" \in FaultKinds THEN SUBSET disk[p] ELSE {{}} :
       disk' = [disk EXCEPT ![p] = left]
  /\ at' = [at EXCEPT ![p] = "removed"]
  /\ UNCHANGED <<registry, storeVars, pc, caller, memory, pending, queuedRev,
                 fetched, wanted, completed>>

\* ... and then its entries, in a transaction whose failure is ignored.
DropPackage(p) ==
  /\ at[p] = "removed"
  /\ \/ DeletePackage(p)
     \/ "commit" \in FaultKinds /\ UNCHANGED storeVars
  /\ Settle(p)
  /\ UNCHANGED <<registry, disk, pc, caller, memory, pending>>

\* Mutation: Start does not wait for the results that are still to be written.
EndRoundEarly ==
  /\ pc = "round"
  /\ \A p \in Names : at[p] # "queued"
  /\ pc' = CASE caller = "firstRun" -> "marks"
             [] caller = "continue" -> "gate"
             [] OTHER               -> "poll"
  /\ caller' = "nobody"
  /\ UNCHANGED <<registry, storeVars, disk, memory, pending, round>>

\* Start returns to Run, before or after the marks are counted, or to Update.
EndRound ==
  /\ pc = "round"
  /\ \A p \in Names : at[p] = "idle"
  /\ pc' = CASE caller = "firstRun" -> "marks"
             [] caller = "continue" -> "gate"
             [] OTHER               -> "poll"
  /\ caller' = "nobody"
  /\ UNCHANGED <<registry, storeVars, disk, memory, pending, round>>

-----------------------------------------------------------------------------
(* Faults that end the process                                             *)

\* The process is killed, or the machine stops.
Crash ==
  /\ "crash" \in FaultKinds
  /\ pc # "down"
  /\ Die

\* log.Fatal: the list of all packages could not be had.
AllDocsFails ==
  /\ "allDocs" \in FaultKinds
  /\ pc = "allDocs"
  /\ Die

\* log.Fatal: the database could not be initialised or the batch not committed.
CommitFails ==
  /\ "commit" \in FaultKinds
  /\ \/ pc = "initialize" /\ ~ IsInitialized
     \/ pc = "put"
  /\ Die

\* GetChangesSince returns nil, which Update dereferences.
ChangesFail ==
  /\ "changes" \in FaultKinds
  /\ pc = "poll"
  /\ Die

-----------------------------------------------------------------------------

Registry == \E p \in Names, delete \in BOOLEAN : Change(p, delete)

Job(p) ==
  GetDocument(p) \/ Download(p) \/ WriteCompleted(p) \/ RemoveFiles(p)
    \/ DropPackage(p)

Process ==
  \/ Initialize \/ LoadStats \/ GetAllDocs \/ LoadMarks \/ OneTime \/ Gate
  \/ Poll \/ PutBatch \/ SaveSequence \/ StartRound \/ EndRound
  \/ \E p \in Names : Job(p)

Fault == Crash \/ AllDocsFails \/ CommitFails \/ ChangesFail

Next == Registry \/ Restart \/ Process \/ Fault \/ Blocked \/ UpToDate

SafeSpec == Init /\ [][Next]_vars

\* A process that runs keeps running: the scheduler is fair and every request
\* and transaction ends.  Neither the registry nor whoever restarts the
\* process owes anything.
Spec == SafeSpec /\ WF_vars(Process)

-----------------------------------------------------------------------------
(* Properties                                                              *)

\* The database has of p what the registry has.
Mirrored(p) ==
  IF up[p].deleted
  THEN packages[p] = Absent
  ELSE packages[p] = up[p].rev /\ documents[p] = up[p].rev

\* A change the stored sequence has gone past is never lost: the package is
\* still to be mirrored, or the database holds exactly what the registry has.
\* PutPackages comes before SetSequence (mirror.go:61-62, 209-211), so no crash
\* may leave the sequence ahead of the packages; the next poll starts there.
NoLostChange ==
  \A p \in Names :
    up[p].seq \in 1 .. sequence => marks[p] = MarkIncomplete \/ Mirrored(p)

\* Whatever fails, and in whatever order, of a package that the registry has no
\* change is lost without a trace: neither one before the sequence that is
\* stored, nor one before the sequence that the process goes on from when the
\* stored one could not be saved (bolt_backend.go:98, database.go:235).  At
\* worst a request for the document failed (npm.go:138-145); then the package
\* is left with an empty revision, which no change can equal (mirror.go:191),
\* beside the body that was taken for its document.  (A sequence that was not
\* saved costs a first run over again, which does not list what was deleted
\* meanwhile: hence only packages that the registry has.)
LiveChangesShow ==
  \A p \in Names :
    /\ up[p].seq > 0
    /\ ~ up[p].deleted
    /\ up[p].seq <= sequence \/ up[p].seq <= cachedSeq
    => \/ marks[p] = MarkIncomplete
       \/ Mirrored(p)
       \/ packages[p] = 0 /\ documents[p] \in {0, StatusBody}

\* What the "check" command looks for (database.go:130): a package marked as
\* completed has a revision, the document of that revision, and a file list.
MarkedConsistent ==
  \A p \in Names :
    marks[p] = MarkComplete =>
      /\ packages[p] \in Nat \ {0}
      /\ documents[p] = packages[p]
      /\ files[p] # Absent

\* The files listed for a completed package are on disk (mirror.go:117-125),
\* whatever was removed, crashed or downloaded again in between (107-109).
FilesOnDisk ==
  \A p \in Names : marks[p] = MarkComplete => files[p] \subseteq disk[p]

\* The buckets agree on which packages there are, although PutCompleted
\* (bolt_backend.go:279) leaves Packages alone when the revision is unchanged.
KeysAgree ==
  \A p \in Names :
    /\ packages[p] = Absent <=> marks[p] = Absent
    /\ documents[p] # Absent => packages[p] # Absent
    /\ files[p] # Absent => documents[p] # Absent

\* No step to an earlier sequence, revision or document.
Forward ==
  /\ sequence' >= sequence
  /\ \A p \in Names :
       /\ packages[p] \in Nat /\ packages'[p] \in Nat =>
            packages'[p] >= packages[p]
       /\ documents[p] \in Nat /\ documents'[p] \in Nat =>
            documents'[p] >= documents[p]

\* The mirror never goes back: not in the sequence it has reached, nor in the
\* revision or the document of a package it keeps (mirror.go:191, 209-211).
NeverRegress == [][Forward]_vars

\* The buckets together keep what PocketStore promises of each entry: the calls
\* of one round and the next never complete, change or delete an entry that is
\* complete, nor one of another package, and a failed PutCompleted that is
\* committed (database.go:387-389) leaves no complete entry.
ImplementsStore == Store!Spec

Queued == {p \in Names : at[p] = "queued"}

\* A round over the packages in started, as MirrorRound sees it.
Round(started) == INSTANCE MirrorRound WITH
  Packages <- started,
  MaxInHand <- MaxConnections + 1,
  todo <- Queued,
  inHand <- InHand,
  settled <- started \ (Queued \cup InHand),
  returned <- pc # "round"

\* A round is what WorkerPool shows Start to be: it begins as a MirrorRound of
\* the packages that were incomplete (mirror.go:153), and until it returns or
\* the process ends each of its steps is a step of it or leaves it alone.
RoundsFollow ==
  [][\A started \in SUBSET Names :
       /\ StartRound /\ started = GetIncompletePackages
            => Round(started)!Init'
       /\ pc = "round" /\ pc' # "down" /\ Queued \cup InHand \subseteq started
            => [Round(started)!Next]_(Round(started)!vars)]_vars

\* A package marked as incomplete is settled, by the round that marked it or
\* in continue mode (mirror.go:260-266), unless the process dies first.
IncompleteSettled ==
  \A p \in Names :
    marks[p] = MarkIncomplete ~> (marks[p] # MarkIncomplete \/ pc = "down")

\* The database and the directory have of p what the registry serves.
Exact(p) ==
  /\ Mirrored(p)
  /\ IF up[p].deleted
     THEN disk[p] = {}
     ELSE Tarballs(up[p].rev) \subseteq disk[p]

\* What the mirror takes for being done: the sequence of the registry, and no
\* package left for another round.
CaughtUp ==
  /\ sequence = upSeq
  /\ GetIncompletePackages = {}

\* When it takes itself for done it is: every document is the registry's, every
\* tarball of it is on disk, and of what was deleted no file is left -- although
\* a package may be changed, deleted or published anew between its change, its
\* document and its tarballs (worker.go:73-110), and its files and its entries
\* are removed one after the other (mirror.go:107-108).
CaughtUpIsExact == CaughtUp => \A p \in Names : Exact(p)

UpdateLoop ==
  \/ pc = "poll"
  \/ caller = "update"

Converged == CaughtUp /\ \A p \in Names : Exact(p)

\* A process that stays in Update (mirror.go:173) brings the mirror up to the
\* registry once the registry comes to rest, however it crashed before.
PollingConverges == <>[]UpdateLoop => <>[]Converged

-----------------------------------------------------------------------------
(* What the documentation says and the code does not do                    *)

\* README.md:24: "Once a mirror has been setup up, PocketNPM will
\* automatically sync your mirror once every interval."  It does not in the
\* process that set it up: the counts compared at mirror.go:274 were read
\* before its rounds.
SyncAfterSetup ==
  (pc = "gate" /\ sequence > 0 /\ GetIncompletePackages = {})
    ~> pc \in {"poll", "down"}

=============================================================================
