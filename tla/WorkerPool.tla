----------------------------- MODULE WorkerPool -----------------------------
(***************************************************************************)
(* One call of MirrorClient.Start (npm/mirror.go:74-171) and the workers   *)
(* of npm/worker.go: the goroutines it spawns, the channels between them   *)
(* and the sync.WaitGroup it waits on.                                     *)
(*                                                                         *)
(*   main        adds one to the WaitGroup and sends, package after        *)
(*               package, then waits, then stops the workers and waits     *)
(*               again                                                     *)
(*   dispatcher  takes a package from workQueue, a worker's channel from   *)
(*               workerQueue, and hands the one to the other               *)
(*   workers     register, then serve a package or the quit signal         *)
(*   handler     takes a result, writes it to the database, calls Done     *)
(*                                                                         *)
(* A send on an unbuffered channel and its receive are one joint step.     *)
(* Buffered channels are sequences with their capacity in the sender's     *)
(* guard.  What a result holds is left to Mirror; here it is only the      *)
(* Deleted flag, which picks the handler's branch.                         *)
(***************************************************************************)
EXTENDS Integers, Sequences, FiniteSets, Functions

CONSTANTS
  Packages,        \* what GetIncompletePackages returned
  Workers,         \* the MaxConnections workers
  QueueCapacity,   \* buffer of workQueue, 100 in the code
  None             \* no package, no worker

ASSUME PoolAssumption ==
  /\ IsFiniteSet(Packages)
  /\ IsFiniteSet(Workers)
  /\ Workers # {}
  /\ QueueCapacity \in Nat \ {0}
  /\ None \notin Packages \cup Workers

VARIABLES
  mainPC,          \* where Start's own goroutine is
  mainPkg,         \* the package added to wg and not sent yet
  unsent,          \* packages of the slice the loop has not reached
  unstopped,       \* workers the stop loop has not reached
  wg,              \* the WaitGroup counter
  workQueue,       \* chan *BarePackage, buffered
  workerQueue,     \* chan chan *BarePackage, buffered, one slot per worker
  dispPC, dispWork, dispWorker,   \* the dispatcher and its two locals
  workerPC, work,  \* the workers and the package each is serving
  deleted,         \* the Deleted flag of the result each worker holds
  stopping,        \* workers with a Stop goroutine blocked on QuitChan
  handlerPC, handPkg, handDeleted, \* the result handler and its result
  handled,         \* history: how often a result of p was written
  stage            \* history: how far p has travelled

mainVars == <<mainPC, mainPkg, unsent, unstopped>>
dispVars == <<dispPC, dispWork, dispWorker>>
workerVars == <<workerPC, work, deleted>>
handlerVars == <<handlerPC, handPkg, handDeleted>>
channels == <<workQueue, workerQueue>>
history == <<handled, stage>>
vars == <<mainVars, wg, channels, dispVars, workerVars, stopping, handlerVars,
          history>>

Stages == {"pending", "added", "queued", "dispatched", "fetching", "fetched",
           "writing", "written", "released"}

TypeOK ==
  /\ mainPC \in {"dispatch", "enqueue", "waitJobs", "stop", "waitWorkers",
                 "returned"}
  /\ mainPkg \in Packages \cup {None}
  /\ unsent \in SUBSET Packages
  /\ unstopped \in SUBSET Workers
  /\ wg \in Nat
  /\ workQueue \in Seq(Packages)
  /\ workerQueue \in Seq(Workers)
  /\ dispPC \in {"select", "acquire", "handOff"}
  /\ dispWork \in Packages \cup {None}
  /\ dispWorker \in Workers \cup {None}
  /\ workerPC \in [Workers -> {"register", "idle", "mirror", "report",
                               "quitting", "exited"}]
  /\ work \in [Workers -> Packages \cup {None}]
  /\ deleted \in [Workers -> BOOLEAN]
  /\ stopping \in SUBSET Workers
  /\ handlerPC \in {"receive", "remove", "write", "signal"}
  /\ handPkg \in Packages \cup {None}
  /\ handDeleted \in BOOLEAN
  /\ handled \in [Packages -> Nat]
  /\ stage \in [Packages -> Stages]

\* Lines 81-151 have run: every goroutine is spawned, none has moved yet.
Init ==
  /\ mainPC = "dispatch"
  /\ mainPkg = None
  /\ unsent = Packages
  /\ unstopped = Workers
  /\ wg = 0
  /\ workQueue = <<>>
  /\ workerQueue = <<>>
  /\ dispPC = "select"
  /\ dispWork = None
  /\ dispWorker = None
  /\ workerPC = [w \in Workers |-> "register"]
  /\ work = [w \in Workers |-> None]
  /\ deleted = [w \in Workers |-> FALSE]
  /\ stopping = {}
  /\ handlerPC = "receive"
  /\ handPkg = None
  /\ handDeleted = FALSE
  /\ handled = [p \in Packages |-> 0]
  /\ stage = [p \in Packages |-> "pending"]

-----------------------------------------------------------------------------
(* The WaitGroup and the buffer of workerQueue                             *)

\* Mutation: a call of wg.Add is missing.
AddNothing == wg' = wg
Add == wg' = wg + 1

\* Mutation: wg.Done is called twice, on return and before it.
DoneTwice == wg' = wg - 2

\* Mutation: a branch of the handler leaves out wg.Done.
DoneNever == wg' = wg
Done == wg' = wg - 1

\* Mutation: wg.Wait is left out.
NoWait == TRUE
Waited == wg = 0

\* Mutation: the buffer is one slot short.
OneSlotShort == Cardinality(Workers) - 1
Slots == Cardinality(Workers)

-----------------------------------------------------------------------------
(* Start's own goroutine                                                   *)

\* wg.Add(1) for the next package of the slice.  The slice's order is left
\* open: no step depends on it.
AddPackage(p) ==
  /\ mainPC = "dispatch"
  /\ p \in unsent
  /\ unsent' = unsent \ {p}
  /\ mainPkg' = p
  /\ Add
  /\ mainPC' = "enqueue"
  /\ stage' = [stage EXCEPT ![p] = "added"]
  /\ UNCHANGED <<unstopped, channels, dispVars, workerVars, stopping,
                 handlerVars, handled>>

\* workQueue <- pkg, blocked while the buffer is full.
Enqueue ==
  /\ mainPC = "enqueue"
  /\ Len(workQueue) < QueueCapacity
  /\ workQueue' = Append(workQueue, mainPkg)
  /\ mainPkg' = None
  /\ mainPC' = "dispatch"
  /\ stage' = [stage EXCEPT ![mainPkg] = "queued"]
  /\ UNCHANGED <<unsent, unstopped, wg, workerQueue, dispVars, workerVars,
                 stopping, handlerVars, handled>>

AllDispatched ==
  /\ mainPC = "dispatch"
  /\ unsent = {}
  /\ mainPC' = "waitJobs"
  /\ UNCHANGED <<mainPkg, unsent, unstopped, wg, channels, dispVars,
                 workerVars, stopping, handlerVars, history>>

\* The first wg.Wait returns.
JobsFinished ==
  /\ mainPC = "waitJobs"
  /\ Waited
  /\ mainPC' = "stop"
  /\ UNCHANGED <<mainPkg, unsent, unstopped, wg, channels, dispVars,
                 workerVars, stopping, handlerVars, history>>

\* wg.Add(1); worker.Stop(), which spawns a goroutine that sends on QuitChan.
StopWorker(w) ==
  /\ mainPC = "stop"
  /\ w \in unstopped
  /\ unstopped' = unstopped \ {w}
  /\ stopping' = stopping \cup {w}
  /\ Add
  /\ UNCHANGED <<mainPC, mainPkg, unsent, channels, dispVars, workerVars,
                 handlerVars, history>>

AllStopped ==
  /\ mainPC = "stop"
  /\ unstopped = {}
  /\ mainPC' = "waitWorkers"
  /\ UNCHANGED <<mainPkg, unsent, unstopped, wg, channels, dispVars,
                 workerVars, stopping, handlerVars, history>>

\* The second wg.Wait returns and Start with it.
WorkersFinished ==
  /\ mainPC = "waitWorkers"
  /\ Waited
  /\ mainPC' = "returned"
  /\ UNCHANGED <<mainPkg, unsent, unstopped, wg, channels, dispVars,
                 workerVars, stopping, handlerVars, history>>

-----------------------------------------------------------------------------
(* The dispatcher                                                          *)

ReceiveWork ==
  /\ dispPC = "select"
  /\ workQueue # <<>>
  /\ dispWork' = Head(workQueue)
  /\ workQueue' = Tail(workQueue)
  /\ dispPC' = "acquire"
  /\ stage' = [stage EXCEPT ![Head(workQueue)] = "dispatched"]
  /\ UNCHANGED <<mainVars, wg, workerQueue, dispWorker, workerVars, stopping,
                 handlerVars, handled>>

AcquireWorker ==
  /\ dispPC = "acquire"
  /\ workerQueue # <<>>
  /\ dispWorker' = Head(workerQueue)
  /\ workerQueue' = Tail(workerQueue)
  /\ dispPC' = "handOff"
  /\ UNCHANGED <<mainVars, wg, workQueue, dispWork, workerVars, stopping,
                 handlerVars, history>>

\* worker <- work meets <-w.Work of that worker's select.
HandOff(w) ==
  /\ dispPC = "handOff"
  /\ dispWorker = w
  /\ workerPC[w] = "idle"
  /\ work' = [work EXCEPT ![w] = dispWork]
  /\ workerPC' = [workerPC EXCEPT ![w] = "mirror"]
  /\ dispPC' = "select"
  /\ dispWork' = None
  /\ dispWorker' = None
  /\ stage' = [stage EXCEPT ![dispWork] = "fetching"]
  /\ UNCHANGED <<mainVars, wg, channels, deleted, stopping, handlerVars,
                 handled>>

-----------------------------------------------------------------------------
(* The workers                                                             *)

\* w.WorkerQueue <- w.Work, blocked while the buffer is full.
Register(w) ==
  /\ workerPC[w] = "register"
  /\ Len(workerQueue) < Slots
  /\ workerQueue' = Append(workerQueue, w)
  /\ workerPC' = [workerPC EXCEPT ![w] = "idle"]
  /\ UNCHANGED <<mainVars, wg, workQueue, dispVars, work, deleted, stopping,
                 handlerVars, history>>

\* Fetch the document, then its tarballs: the registry answered 404 or the
\* result describes a document, good or bad.
MirrorPackage(w) ==
  /\ workerPC[w] = "mirror"
  /\ \E gone \in BOOLEAN : deleted' = [deleted EXCEPT ![w] = gone]
  /\ workerPC' = [workerPC EXCEPT ![w] = "report"]
  /\ stage' = [stage EXCEPT ![work[w]] = "fetched"]
  /\ UNCHANGED <<mainVars, wg, channels, dispVars, work, stopping, handlerVars,
                 handled>>

\* Mutation: a package the registry does not have goes back to the queue.
Requeue(w) ==
  /\ workerPC[w] = "report"
  /\ handlerPC = "receive"
  /\ IF deleted[w]
     THEN /\ workQueue' = Append(workQueue, work[w])
          /\ stage' = [stage EXCEPT ![work[w]] = "queued"]
          /\ UNCHANGED handlerVars
     ELSE /\ handPkg' = work[w]
          /\ handDeleted' = FALSE
          /\ handlerPC' = "write"
          /\ stage' = [stage EXCEPT ![work[w]] = "writing"]
          /\ UNCHANGED workQueue
  /\ work' = [work EXCEPT ![w] = None]
  /\ deleted' = [deleted EXCEPT ![w] = FALSE]
  /\ workerPC' = [workerPC EXCEPT ![w] = "register"]
  /\ UNCHANGED <<mainVars, wg, workerQueue, dispVars, stopping, handled>>

\* w.ResultQueue <- result meets <-resultQueue of the handler.
Report(w) ==
  /\ workerPC[w] = "report"
  /\ handlerPC = "receive"
  /\ handPkg' = work[w]
  /\ handDeleted' = deleted[w]
  /\ handlerPC' = IF deleted[w] THEN "remove" ELSE "write"
  /\ work' = [work EXCEPT ![w] = None]
  /\ deleted' = [deleted EXCEPT ![w] = FALSE]
  /\ workerPC' = [workerPC EXCEPT ![w] = "register"]
  /\ stage' = [stage EXCEPT ![work[w]] = "writing"]
  /\ UNCHANGED <<mainVars, wg, channels, dispVars, stopping, handled>>

\* w.QuitChan <- true of a Stop goroutine meets <-w.QuitChan.
Quit(w) ==
  /\ workerPC[w] = "idle"
  /\ w \in stopping
  /\ stopping' = stopping \ {w}
  /\ workerPC' = [workerPC EXCEPT ![w] = "quitting"]
  /\ UNCHANGED <<mainVars, wg, channels, dispVars, work, deleted, handlerVars,
                 history>>

WorkerDone(w) ==
  /\ workerPC[w] = "quitting"
  /\ Done
  /\ workerPC' = [workerPC EXCEPT ![w] = "exited"]
  /\ UNCHANGED <<mainVars, channels, dispVars, work, deleted, stopping,
                 handlerVars, history>>

-----------------------------------------------------------------------------
(* The result handler                                                      *)

\* os.RemoveAll(path) of a package the registry no longer has.
RemoveFiles ==
  /\ handlerPC = "remove"
  /\ handlerPC' = "write"
  /\ UNCHANGED <<mainVars, wg, channels, dispVars, workerVars, stopping,
                 handPkg, handDeleted, history>>

\* db.DeletePackage or db.PutCompleted, whose failure is only logged.
WriteResult ==
  /\ handlerPC = "write"
  /\ handled' = [handled EXCEPT ![handPkg] = @ + 1]
  /\ handlerPC' = "signal"
  /\ stage' = [stage EXCEPT ![handPkg] = "written"]
  /\ UNCHANGED <<mainVars, wg, channels, dispVars, workerVars, stopping,
                 handPkg, handDeleted>>

SignalDone ==
  /\ handlerPC = "signal"
  /\ Done
  /\ handPkg' = None
  /\ handDeleted' = FALSE
  /\ handlerPC' = "receive"
  /\ stage' = [stage EXCEPT ![handPkg] = "released"]
  /\ UNCHANGED <<mainVars, channels, dispVars, workerVars, stopping, handled>>

-----------------------------------------------------------------------------

\* Start has returned: the dispatcher and the handler stay parked for ever.
Returned ==
  /\ mainPC = "returned"
  /\ UNCHANGED vars

Main ==
  \/ \E p \in Packages : AddPackage(p)
  \/ \E w \in Workers : StopWorker(w)
  \/ Enqueue \/ AllDispatched \/ JobsFinished \/ AllStopped \/ WorkersFinished

Dispatcher == ReceiveWork \/ AcquireWorker \/ \E w \in Workers : HandOff(w)

Worker(w) ==
  Register(w) \/ MirrorPackage(w) \/ Report(w) \/ Quit(w) \/ WorkerDone(w)

Handler == RemoveFiles \/ WriteResult \/ SignalDone

Next ==
  \/ Main
  \/ Dispatcher
  \/ \E w \in Workers : Worker(w)
  \/ Handler
  \/ Returned

\* Every goroutine that can run does: the Go scheduler, and a network that
\* answers every request in the end.
Fairness ==
  /\ WF_vars(Main)
  /\ WF_vars(Dispatcher)
  /\ \A w \in Workers : WF_vars(Worker(w))
  /\ WF_vars(Handler)

SafeSpec == Init /\ [][Next]_vars

Spec == SafeSpec /\ Fairness

-----------------------------------------------------------------------------
(* Properties                                                              *)

\* Packages the WaitGroup has been told of and not yet released from: on
\* their way through the queue, the dispatcher, a worker or the handler.
InFlight ==
  ({mainPkg, dispWork, handPkg} \cup Range(workQueue) \cup Range(work)) \ {None}

\* Workers the second wait still counts.
Stopping == stopping \cup {w \in Workers : workerPC[w] = "quitting"}

\* The WaitGroup counts exactly the packages between wg.Add (mirror.go:155)
\* and wg.Done (113, 126) and the workers between wg.Add (166) and their own
\* Done (worker.go:123): neither wait can pass early or hang, and the counter
\* cannot go negative, which would panic.
WaitGroupAccounts == wg = Cardinality(InFlight) + Cardinality(Stopping)

\* No package is written twice, and when the first wg.Wait (mirror.go:161)
\* lets Start go on to stop the workers, every package of the round has been
\* written, not merely fetched.
RoundSettledBeforeStop ==
  /\ \A p \in Packages : handled[p] <= 1
  /\ mainPC \in {"stop", "waitWorkers", "returned"} =>
       \A p \in Packages : handled[p] = 1

\* A channel taken from workerQueue belongs to a worker that is listening on
\* it, so handing the work over (mirror.go:149) cannot block the dispatcher,
\* and MaxConnections slots are enough for a worker never to block in
\* registering (worker.go:54).
WorkerSlots ==
  /\ dispPC = "handOff" => workerPC[dispWorker] = "idle"
  /\ \A w \in Workers :
       workerPC[w] = "register" => Len(workerQueue) < Slots

\* Start returns with every worker gone, no Stop goroutine left blocked on a
\* QuitChan nobody reads (worker.go:134), and the two goroutines that do not
\* end with it idle: nothing of this round can reach the next one.
NothingLeftBehind ==
  mainPC = "returned" =>
    /\ \A w \in Workers : workerPC[w] = "exited"
    /\ stopping = {}
    /\ workQueue = <<>>
    /\ dispPC = "select"
    /\ handlerPC = "receive"

\* A goroutine that is not blocked: on a full or an empty channel, on one that
\* nobody listens on, or in a wait that does not pass.
Runnable ==
  \/ mainPC \in {"dispatch", "stop"}
  \/ mainPC = "enqueue" /\ Len(workQueue) < QueueCapacity
  \/ mainPC \in {"waitJobs", "waitWorkers"} /\ Waited
  \/ dispPC = "select" /\ workQueue # <<>>
  \/ dispPC = "acquire" /\ workerQueue # <<>>
  \/ dispPC = "handOff" /\ workerPC[dispWorker] = "idle"
  \/ \E w \in Workers :
       \/ workerPC[w] = "register" /\ Len(workerQueue) < Slots
       \/ workerPC[w] \in {"mirror", "quitting"}
       \/ workerPC[w] = "report" /\ handlerPC = "receive"
       \/ workerPC[w] = "idle" /\ w \in stopping
  \/ handlerPC # "receive"

\* Until Start returns its goroutines are never all waiting for each other:
\* main on a full workQueue (mirror.go:156), the dispatcher on a worker (147),
\* a worker on the handler (worker.go:112) or for work, and both waits on all
\* of them (161, 169).
NeverAllBlocked == mainPC # "returned" => Runnable

\* How many steps of its own a package has left.
Distance ==
  [pending |-> 8, added |-> 7, queued |-> 6, dispatched |-> 5, fetching |-> 4,
   fetched |-> 3, writing |-> 2, written |-> 1, released |-> 0]

Ahead == {step \in Packages \X (1 .. 8) : step[2] <= Distance[stage[step[1]]]}

MainLeft ==
  CASE mainPC = "waitJobs"    -> 3
    [] mainPC = "stop"        -> 2
    [] mainPC = "waitWorkers" -> 1
    [] mainPC = "returned"    -> 0
    [] OTHER                  -> 4

Registering == {w \in Workers : workerPC[w] = "register"}
Living == {w \in Workers : workerPC[w] # "exited"}

\* A bound on the steps that are left.  A package that goes on may set its
\* worker to register again, and the dispatcher or the handler to a step of
\* their own: hence the factor.
Remaining ==
  3 * Cardinality(Ahead)
    + MainLeft
    + Cardinality(Registering)
    + Cardinality(unstopped)
    + Cardinality(unstopped \cup stopping)
    + Cardinality(Living)
    + (IF dispPC = "acquire" THEN 1 ELSE 0)
    + (IF handlerPC = "remove" THEN 1 ELSE 0)

\* No goroutine goes round in circles: every step, of whichever goroutine,
\* leaves fewer to take, although workers, dispatcher and handler are endless
\* loops (mirror.go:99, 141; worker.go:53).
AlwaysForward == [][Remaining' < Remaining]_vars

\* Start (mirror.go:74) returns, whichever way its goroutines interleave.
Terminates == <>(mainPC = "returned")

\* Packages fetched and not written yet.
InHand ==
  {p \in Packages :
     \/ \E w \in Workers : workerPC[w] = "report" /\ work[w] = p
     \/ handlerPC \in {"remove", "write"} /\ handPkg = p}

Settled == {p \in Packages : handled[p] > 0}

Round == INSTANCE MirrorRound WITH
  MaxInHand <- Cardinality(Workers) + 1,
  todo <- Packages \ (InHand \cup Settled),
  inHand <- InHand,
  settled <- Settled,
  returned <- mainPC = "returned"

\* Start implements MirrorRound: each package is fetched once, then settled
\* once, at most one result per worker and one in the handler are in hand,
\* and the caller resumes only after the last of them.
ImplementsRound == Round!Spec

=============================================================================
