-------------------------- MODULE WorkerPoolProofs --------------------------
(***************************************************************************)
(* Proofs about WorkerPool, for any packages, any number of workers and    *)
(* any capacity of workQueue.                                              *)
(***************************************************************************)
EXTENDS WorkerPool, FiniteSetTheorems, TLAPS

-----------------------------------------------------------------------------
(* What sending and receiving do to the contents of a buffered channel     *)

\* Sending on a channel adds one element to what it holds, and keeps a queue
\* without repetitions so when the element is new.
LEMMA AppendHolds ==
  ASSUME NEW S, NEW q \in Seq(S), NEW e \in S
  PROVE  /\ Append(q, e) \in Seq(S)
         /\ Range(Append(q, e)) = Range(q) \cup {e}
         /\ IsInjective(q) /\ e \notin Range(q) => IsInjective(Append(q, e))
<1> DEFINE r == Append(q, e)
<1>1. /\ r \in Seq(S)
      /\ DOMAIN q = 1 .. Len(q)
      /\ DOMAIN r = 1 .. Len(q) + 1
      /\ Len(q) \in Nat
      /\ \A i \in 1 .. Len(q) : r[i] = q[i]
      /\ r[Len(q) + 1] = e
  OBVIOUS
<1> HIDE DEF r
<1>2. Range(r) = Range(q) \cup {e}
  <2>1. ASSUME NEW x \in Range(r) PROVE x \in Range(q) \cup {e}
    <3>1. PICK i \in 1 .. Len(q) + 1 : x = r[i]
      BY <1>1, <2>1 DEF Range
    <3>2. i \in 1 .. Len(q) \/ i = Len(q) + 1
      BY <1>1, <3>1
    <3> QED BY <1>1, <3>1, <3>2 DEF Range
  <2>2. ASSUME NEW x \in Range(q) PROVE x \in Range(r)
    <3>1. PICK i \in 1 .. Len(q) : x = q[i]
      BY <1>1, <2>2 DEF Range
    <3>2. i \in DOMAIN r /\ r[i] = x
      BY <1>1, <3>1
    <3> QED BY <3>2 DEF Range
  <2>3. Len(q) + 1 \in DOMAIN r
    BY <1>1
  <2>4. e \in Range(r)
    BY <1>1, <2>3 DEF Range
  <2> QED BY <2>1, <2>2, <2>4
<1>3. ASSUME IsInjective(q), e \notin Range(q) PROVE IsInjective(r)
  <2>1. \A i \in 1 .. Len(q) : q[i] # e
    BY <1>1, <1>3 DEF Range
  <2>2. \A i, j \in 1 .. Len(q) : q[i] = q[j] => i = j
    BY <1>1, <1>3 DEF IsInjective
  <2>3. ASSUME NEW i \in 1 .. Len(q) + 1, NEW j \in 1 .. Len(q) + 1, r[i] = r[j]
        PROVE  i = j
    <3>1. /\ i \in 1 .. Len(q) \/ i = Len(q) + 1
          /\ j \in 1 .. Len(q) \/ j = Len(q) + 1
      BY <1>1
    <3> QED BY <1>1, <2>1, <2>2, <2>3, <3>1
  <2> QED BY <1>1, <2>3 DEF IsInjective
<1> QED BY <1>1, <1>2, <1>3 DEF r

\* Receiving from a channel takes the head out of it, and out of a queue
\* without repetitions nothing else.
LEMMA TailHolds ==
  ASSUME NEW S, NEW q \in Seq(S), q # <<>>, IsInjective(q)
  PROVE  /\ Tail(q) \in Seq(S)
         /\ Head(q) \in S
         /\ Head(q) \in Range(q)
         /\ Range(Tail(q)) = Range(q) \ {Head(q)}
         /\ IsInjective(Tail(q))
<1> DEFINE r == Tail(q)
<1>1. /\ r \in Seq(S)
      /\ DOMAIN q = 1 .. Len(q)
      /\ Len(q) \in Nat \ {0}
      /\ Len(r) = Len(q) - 1
      /\ DOMAIN r = 1 .. Len(q) - 1
      /\ \A i \in 1 .. Len(q) - 1 : r[i] = q[i + 1]
      /\ Head(q) = q[1]
      /\ Head(q) \in S
  OBVIOUS
<1> HIDE DEF r
<1>2. \A i, j \in 1 .. Len(q) : q[i] = q[j] => i = j
  BY <1>1 DEF IsInjective
<1>3. 1 \in DOMAIN q
  BY <1>1
<1>4. Head(q) \in Range(q)
  BY <1>1, <1>3 DEF Range
<1>5. Range(r) = Range(q) \ {Head(q)}
  <2>1. ASSUME NEW x \in Range(r) PROVE x \in Range(q) \ {Head(q)}
    <3>1. PICK i \in 1 .. Len(q) - 1 : x = r[i]
      BY <1>1, <2>1 DEF Range
    <3>2. i + 1 \in 1 .. Len(q) /\ i + 1 # 1 /\ x = q[i + 1]
      BY <1>1, <3>1
    <3>3. x # q[1]
      BY <1>1, <1>2, <3>2
    <3> QED BY <1>1, <3>2, <3>3 DEF Range
  <2>2. ASSUME NEW x \in Range(q), x # Head(q) PROVE x \in Range(r)
    <3>1. PICK i \in 1 .. Len(q) : x = q[i]
      BY <1>1, <2>2 DEF Range
    <3>2. i - 1 \in DOMAIN r /\ r[i - 1] = x
      BY <1>1, <2>2, <3>1
    <3> QED BY <3>2 DEF Range
  <2> QED BY <2>1, <2>2
<1>6. IsInjective(r)
  <2>1. ASSUME NEW i \in 1 .. Len(q) - 1, NEW j \in 1 .. Len(q) - 1, r[i] = r[j]
        PROVE  i = j
    <3>1. i + 1 \in 1 .. Len(q) /\ j + 1 \in 1 .. Len(q)
      BY <1>1
    <3>2. i + 1 = j + 1
      BY <1>1, <1>2, <2>1, <3>1
    <3> QED BY <3>2
  <2> QED BY <1>1, <2>1 DEF IsInjective
<1> QED BY <1>1, <1>4, <1>5, <1>6 DEF r

-----------------------------------------------------------------------------
(* The invariant the proofs rest on                                        *)

\* Where a package is and what the stage says agree: nothing is lost and
\* nothing is in two places.
Places ==
  /\ \A p \in Packages :
       /\ stage[p] = "pending" <=> p \in unsent
       /\ stage[p] = "added" <=> mainPkg = p
       /\ stage[p] = "queued" <=> p \in Range(workQueue)
       /\ stage[p] = "dispatched" <=> dispWork = p
       /\ stage[p] = "fetching" <=>
            \E w \in Workers : work[w] = p /\ workerPC[w] = "mirror"
       /\ stage[p] = "fetched" <=>
            \E w \in Workers : work[w] = p /\ workerPC[w] = "report"
       /\ stage[p] = "writing" <=>
            handPkg = p /\ handlerPC \in {"remove", "write"}
       /\ stage[p] = "written" <=> handPkg = p /\ handlerPC = "signal"
  /\ IsInjective(workQueue)
  /\ \A v, w \in Workers : work[v] = work[w] /\ work[w] # None => v = w

\* A goroutine has a package exactly while it works on one.
Holders ==
  /\ mainPC = "enqueue" <=> mainPkg # None
  /\ dispPC = "select" <=> dispWork = None
  /\ \A w \in Workers : workerPC[w] \in {"mirror", "report"} <=> work[w] # None
  /\ handlerPC = "receive" <=> handPkg = None

\* Packages between wg.Add and wg.Done, by their stage.
Active == {p \in Packages : stage[p] \notin {"pending", "released"}}

Counted == wg = Cardinality(Active) + Cardinality(Stopping)

HandledOnce ==
  \A p \in Packages :
    handled[p] = IF stage[p] \in {"written", "released"} THEN 1 ELSE 0

\* What Start's own goroutine may assume of the packages at each point.
MainProgress ==
  /\ mainPC \notin {"dispatch", "enqueue"} => unsent = {}
  /\ mainPC \in {"stop", "waitWorkers", "returned"} =>
       \A p \in Packages : stage[p] = "released"

\* A worker is stopped once, and quits once after that.
StopProgress ==
  /\ mainPC \in {"dispatch", "enqueue", "waitJobs"} => unstopped = Workers
  /\ mainPC \in {"waitWorkers", "returned"} => unstopped = {}
  /\ \A w \in Workers :
       w \in unstopped \cup stopping <=> workerPC[w] \notin {"quitting",
         "exited"}
  /\ unstopped \cap stopping = {}

Inv ==
  /\ TypeOK
  /\ Places
  /\ Holders
  /\ HandledOnce
  /\ MainProgress
  /\ StopProgress
  /\ Counted

\* The sets the WaitGroup counts are finite, now and after a step.
LEMMA FiniteCounts ==
  ASSUME Inv
  PROVE  /\ IsFiniteSet(Active) /\ Cardinality(Active) \in Nat
         /\ IsFiniteSet(Stopping) /\ Cardinality(Stopping) \in Nat
<1>1. Active \in SUBSET Packages
  BY DEF Active
<1>2. Stopping \in SUBSET Workers
  BY DEF Inv, TypeOK, Stopping
<1> QED BY <1>1, <1>2, PoolAssumption, FS_Subset, FS_CardinalityType

\* The invariant holds when every goroutine has been spawned.
LEMMA InitInv == Init => Inv
<1> SUFFICES ASSUME Init PROVE Inv
  OBVIOUS
<1>1. TypeOK
  <2>1. workQueue \in Seq(Packages) /\ workerQueue \in Seq(Workers)
    BY DEF Init
  <2>2. /\ handled \in [Packages -> Nat]
        /\ stage \in [Packages -> Stages]
        /\ workerPC \in [Workers -> {"register", "idle", "mirror", "report",
                                     "quitting", "exited"}]
        /\ work \in [Workers -> Packages \cup {None}]
        /\ deleted \in [Workers -> BOOLEAN]
    BY DEF Init, Stages
  <2> QED BY <2>1, <2>2 DEF Init, TypeOK
<1>2. Range(workQueue) = {} /\ IsInjective(workQueue)
  BY DEF Init, Range, IsInjective
<1>3. Places
  BY <1>2, PoolAssumption DEF Init, Places
<1>4. Active = {} /\ Stopping = {}
  BY DEF Init, Active, Stopping
<1>5. Counted
  BY <1>4, FS_EmptySet DEF Init, Counted
<1>6. Holders /\ HandledOnce /\ MainProgress /\ StopProgress
  BY PoolAssumption DEF Init, Holders, HandledOnce, MainProgress, StopProgress
<1> QED BY <1>1, <1>3, <1>5, <1>6 DEF Inv

-----------------------------------------------------------------------------
(* One lemma per action: it preserves the invariant                        *)

\* Start counts a package and takes it off the slice.
LEMMA AddPackageInv ==
  ASSUME Inv, NEW p \in Packages, AddPackage(p)
  PROVE  Inv'
<1>1. p \in Packages /\ stage[p] = "pending"
  BY PoolAssumption DEF Inv, TypeOK, Places, Holders, AddPackage
<1>2. Active' = Active \cup {p} /\ p \notin Active /\ Stopping' = Stopping
  BY <1>1 DEF Inv, TypeOK, StopProgress, Active, Stopping, AddPackage,
         mainVars, dispVars, workerVars, handlerVars, channels, history
<1>3. Cardinality(Active') = Cardinality(Active) + 1
  BY <1>2, FiniteCounts, FS_AddElement DEF Inv
<1>4. wg' \in Nat /\ Counted'
  BY <1>2, <1>3, FiniteCounts DEF Inv, Counted, AddPackage, Add
<1>5. TypeOK'
  BY <1>1, <1>4 DEF Inv, TypeOK, Stages, AddPackage, mainVars, dispVars,
         workerVars, handlerVars, channels, history
<1>6. Places'
  BY <1>1, PoolAssumption DEF Inv, TypeOK, Places, Holders, AddPackage,
         mainVars, dispVars, workerVars, handlerVars, channels, history
<1>7. Holders'
  BY <1>1, PoolAssumption DEF Inv, TypeOK, Holders, AddPackage, mainVars,
         dispVars, workerVars, handlerVars, channels, history
<1>8. HandledOnce'
  BY <1>1 DEF Inv, TypeOK, HandledOnce, AddPackage, mainVars, dispVars,
         workerVars, handlerVars, channels, history
<1>9. MainProgress'
  BY <1>1 DEF Inv, TypeOK, MainProgress, AddPackage, mainVars, dispVars,
         workerVars, handlerVars, channels, history
<1>10. StopProgress'
  BY DEF Inv, TypeOK, StopProgress, AddPackage, mainVars, dispVars,
         workerVars, handlerVars, channels, history
<1> QED BY <1>4, <1>5, <1>6, <1>7, <1>8, <1>9, <1>10 DEF Inv

\* The package in hand goes to the tail of workQueue.
LEMMA EnqueueInv ==
  ASSUME Inv, Enqueue
  PROVE  Inv'
<1>1. mainPkg \in Packages /\ stage[mainPkg] = "added"
  BY PoolAssumption DEF Inv, TypeOK, Places, Holders, Enqueue
<1>2. /\ workQueue' \in Seq(Packages)
      /\ Range(workQueue') = Range(workQueue) \cup {mainPkg}
      /\ IsInjective(workQueue')
  BY <1>1, AppendHolds DEF Inv, TypeOK, Places, Enqueue
<1>3. Active' = Active /\ Stopping' = Stopping
  BY <1>2, <1>1 DEF Inv, TypeOK, StopProgress, Active, Stopping, Enqueue,
         mainVars, dispVars, workerVars, handlerVars, channels, history
<1>4. wg' \in Nat /\ Counted'
  BY <1>3 DEF Inv, TypeOK, Counted, Enqueue
<1>5. TypeOK'
  BY <1>2, <1>1, <1>4 DEF Inv, TypeOK, Stages, Enqueue, mainVars, dispVars,
         workerVars, handlerVars, channels, history
<1>6. Places'
  BY <1>2, <1>1, PoolAssumption DEF Inv, TypeOK, Places, Holders, Enqueue,
         mainVars, dispVars, workerVars, handlerVars, channels, history
<1>7. Holders'
  BY <1>2, <1>1, PoolAssumption DEF Inv, TypeOK, Holders, Enqueue, mainVars,
         dispVars, workerVars, handlerVars, channels, history
<1>8. HandledOnce'
  BY <1>2, <1>1 DEF Inv, TypeOK, HandledOnce, Enqueue, mainVars, dispVars,
         workerVars, handlerVars, channels, history
<1>9. MainProgress'
  BY <1>2, <1>1 DEF Inv, TypeOK, MainProgress, Enqueue, mainVars, dispVars,
         workerVars, handlerVars, channels, history
<1>10. StopProgress'
  BY DEF Inv, TypeOK, StopProgress, Enqueue, mainVars, dispVars, workerVars,
         handlerVars, channels, history
<1> QED BY <1>4, <1>5, <1>6, <1>7, <1>8, <1>9, <1>10 DEF Inv

\* Start has reached the end of the slice.
LEMMA AllDispatchedInv ==
  ASSUME Inv, AllDispatched
  PROVE  Inv'
<1>1. Active' = Active /\ Stopping' = Stopping
  BY DEF Inv, TypeOK, StopProgress, Active, Stopping, AllDispatched,
         mainVars, dispVars, workerVars, handlerVars, channels, history
<1>2. wg' \in Nat /\ Counted'
  BY <1>1 DEF Inv, TypeOK, Counted, AllDispatched
<1>3. TypeOK'
  BY <1>2 DEF Inv, TypeOK, Stages, AllDispatched, mainVars, dispVars,
         workerVars, handlerVars, channels, history
<1>4. Places'
  BY PoolAssumption DEF Inv, TypeOK, Places, Holders, AllDispatched,
         mainVars, dispVars, workerVars, handlerVars, channels, history
<1>5. Holders'
  BY PoolAssumption DEF Inv, TypeOK, Holders, AllDispatched, mainVars,
         dispVars, workerVars, handlerVars, channels, history
<1>6. HandledOnce'
  BY DEF Inv, TypeOK, HandledOnce, AllDispatched, mainVars, dispVars,
         workerVars, handlerVars, channels, history
<1>7. MainProgress'
  BY DEF Inv, TypeOK, MainProgress, AllDispatched, mainVars, dispVars,
         workerVars, handlerVars, channels, history
<1>8. StopProgress'
  BY DEF Inv, TypeOK, StopProgress, AllDispatched, mainVars, dispVars,
         workerVars, handlerVars, channels, history
<1> QED BY <1>2, <1>3, <1>4, <1>5, <1>6, <1>7, <1>8 DEF Inv

\* A zero count means that no package is on its way any more.
LEMMA JobsFinishedInv ==
  ASSUME Inv, JobsFinished
  PROVE  Inv'
<1>1. Active' = Active /\ Stopping' = Stopping
  BY DEF Inv, TypeOK, StopProgress, Active, Stopping, JobsFinished,
         mainVars, dispVars, workerVars, handlerVars, channels, history
<1>2. wg' \in Nat /\ Counted'
  BY <1>1 DEF Inv, TypeOK, Counted, JobsFinished,
         Waited
<1>3. TypeOK'
  BY <1>2 DEF Inv, TypeOK, Stages, JobsFinished, mainVars, dispVars,
         workerVars, handlerVars, channels, history
<1>4. Places'
  BY PoolAssumption DEF Inv, TypeOK, Places, Holders, JobsFinished,
         mainVars, dispVars, workerVars, handlerVars, channels, history
<1>5. Holders'
  BY PoolAssumption DEF Inv, TypeOK, Holders, JobsFinished, mainVars,
         dispVars, workerVars, handlerVars, channels, history
<1>6. HandledOnce'
  BY DEF Inv, TypeOK, HandledOnce, JobsFinished, mainVars, dispVars,
         workerVars, handlerVars, channels, history
<1>7. Active = {}
  BY FiniteCounts, FS_EmptySet DEF Inv, Counted, JobsFinished,
         Waited
<1>8. MainProgress'
  BY <1>7 DEF Inv, TypeOK, Stages, MainProgress, Places, Active,
         JobsFinished, mainVars, dispVars, workerVars, handlerVars, channels,
         history
<1>9. StopProgress'
  BY DEF Inv, TypeOK, StopProgress, JobsFinished, mainVars, dispVars,
         workerVars, handlerVars, channels, history
<1> QED BY <1>2, <1>3, <1>4, <1>5, <1>6, <1>8, <1>9 DEF Inv

\* Start counts a worker and spawns its Stop goroutine.
LEMMA StopWorkerInv ==
  ASSUME Inv, NEW w \in Workers, StopWorker(w)
  PROVE  Inv'
<1>1. Active' = Active /\ Stopping' = Stopping \cup {w} /\ w \notin Stopping
  BY DEF Inv, TypeOK, StopProgress, Active, Stopping, StopWorker,
         mainVars, dispVars, workerVars, handlerVars, channels, history
<1>2. Cardinality(Stopping') = Cardinality(Stopping) + 1
  BY <1>1, FiniteCounts, FS_AddElement DEF Inv
<1>3. wg' \in Nat /\ Counted'
  BY <1>1, <1>2, FiniteCounts DEF Inv, Counted, StopWorker, Add
<1>4. TypeOK'
  BY <1>3 DEF Inv, TypeOK, Stages, StopWorker, mainVars, dispVars, workerVars,
         handlerVars, channels, history
<1>5. Places'
  BY PoolAssumption DEF Inv, TypeOK, Places, Holders, StopWorker,
         mainVars, dispVars, workerVars, handlerVars, channels, history
<1>6. Holders'
  BY PoolAssumption DEF Inv, TypeOK, Holders, StopWorker, mainVars, dispVars,
         workerVars, handlerVars, channels, history
<1>7. HandledOnce'
  BY DEF Inv, TypeOK, HandledOnce, StopWorker, mainVars, dispVars, workerVars,
         handlerVars, channels, history
<1>8. MainProgress'
  BY DEF Inv, TypeOK, MainProgress, StopWorker, mainVars, dispVars,
         workerVars, handlerVars, channels, history
<1>9. StopProgress'
  BY DEF Inv, TypeOK, StopProgress, StopWorker, mainVars, dispVars,
         workerVars, handlerVars, channels, history
<1> QED BY <1>3, <1>4, <1>5, <1>6, <1>7, <1>8, <1>9 DEF Inv

\* Start has stopped every worker.
LEMMA AllStoppedInv ==
  ASSUME Inv, AllStopped
  PROVE  Inv'
<1>1. Active' = Active /\ Stopping' = Stopping
  BY DEF Inv, TypeOK, StopProgress, Active, Stopping, AllStopped,
         mainVars, dispVars, workerVars, handlerVars, channels, history
<1>2. wg' \in Nat /\ Counted'
  BY <1>1 DEF Inv, TypeOK, Counted, AllStopped
<1>3. TypeOK'
  BY <1>2 DEF Inv, TypeOK, Stages, AllStopped, mainVars, dispVars, workerVars,
         handlerVars, channels, history
<1>4. Places'
  BY PoolAssumption DEF Inv, TypeOK, Places, Holders, AllStopped,
         mainVars, dispVars, workerVars, handlerVars, channels, history
<1>5. Holders'
  BY PoolAssumption DEF Inv, TypeOK, Holders, AllStopped, mainVars, dispVars,
         workerVars, handlerVars, channels, history
<1>6. HandledOnce'
  BY DEF Inv, TypeOK, HandledOnce, AllStopped, mainVars, dispVars, workerVars,
         handlerVars, channels, history
<1>7. MainProgress'
  BY DEF Inv, TypeOK, MainProgress, AllStopped, mainVars, dispVars,
         workerVars, handlerVars, channels, history
<1>8. StopProgress'
  BY DEF Inv, TypeOK, StopProgress, AllStopped, mainVars, dispVars,
         workerVars, handlerVars, channels, history
<1> QED BY <1>2, <1>3, <1>4, <1>5, <1>6, <1>7, <1>8 DEF Inv

\* The second wait passes and Start returns.
LEMMA WorkersFinishedInv ==
  ASSUME Inv, WorkersFinished
  PROVE  Inv'
<1>1. Active' = Active /\ Stopping' = Stopping
  BY DEF Inv, TypeOK, StopProgress, Active, Stopping, WorkersFinished,
         mainVars, dispVars, workerVars, handlerVars, channels, history
<1>2. wg' \in Nat /\ Counted'
  BY <1>1 DEF Inv, TypeOK, Counted, WorkersFinished
<1>3. TypeOK'
  BY <1>2 DEF Inv, TypeOK, Stages, WorkersFinished, mainVars, dispVars,
         workerVars, handlerVars, channels, history
<1>4. Places'
  BY PoolAssumption DEF Inv, TypeOK, Places, Holders, WorkersFinished,
         mainVars, dispVars, workerVars, handlerVars, channels, history
<1>5. Holders'
  BY PoolAssumption DEF Inv, TypeOK, Holders, WorkersFinished, mainVars,
         dispVars, workerVars, handlerVars, channels, history
<1>6. HandledOnce'
  BY DEF Inv, TypeOK, HandledOnce, WorkersFinished, mainVars, dispVars,
         workerVars, handlerVars, channels, history
<1>7. MainProgress'
  BY DEF Inv, TypeOK, MainProgress, WorkersFinished, mainVars, dispVars,
         workerVars, handlerVars, channels, history
<1>8. StopProgress'
  BY DEF Inv, TypeOK, StopProgress, WorkersFinished, mainVars, dispVars,
         workerVars, handlerVars, channels, history
<1> QED BY <1>2, <1>3, <1>4, <1>5, <1>6, <1>7, <1>8 DEF Inv

\* The head of workQueue goes to the dispatcher.
LEMMA ReceiveWorkInv ==
  ASSUME Inv, ReceiveWork
  PROVE  Inv'
<1>1. /\ workQueue' \in Seq(Packages)
      /\ Head(workQueue) \in Packages
      /\ Head(workQueue) \in Range(workQueue)
      /\ Range(workQueue') = Range(workQueue) \ {Head(workQueue)}
      /\ IsInjective(workQueue')
  BY TailHolds DEF Inv, TypeOK, Places, ReceiveWork
<1>2. stage[Head(workQueue)] = "queued"
  BY <1>1 DEF Inv, Places
<1>3. Active' = Active /\ Stopping' = Stopping
  BY <1>1, <1>2 DEF Inv, TypeOK, StopProgress, Active, Stopping, ReceiveWork,
         mainVars, dispVars, workerVars, handlerVars, channels, history
<1>4. wg' \in Nat /\ Counted'
  BY <1>3 DEF Inv, TypeOK, Counted, ReceiveWork
<1>5. TypeOK'
  BY <1>1, <1>2, <1>4 DEF Inv, TypeOK, Stages, ReceiveWork, mainVars,
         dispVars, workerVars, handlerVars, channels, history
<1>6. Places'
  BY <1>1, <1>2, PoolAssumption DEF Inv, TypeOK, Places, Holders, ReceiveWork,
         mainVars, dispVars, workerVars, handlerVars, channels, history
<1>7. Holders'
  BY <1>1, <1>2, PoolAssumption DEF Inv, TypeOK, Holders, ReceiveWork,
         mainVars, dispVars, workerVars, handlerVars, channels, history
<1>8. HandledOnce'
  BY <1>1, <1>2 DEF Inv, TypeOK, HandledOnce, ReceiveWork, mainVars, dispVars,
         workerVars, handlerVars, channels, history
<1>9. MainProgress'
  BY <1>1, <1>2 DEF Inv, TypeOK, MainProgress, ReceiveWork, mainVars,
         dispVars, workerVars, handlerVars, channels, history
<1>10. StopProgress'
  BY DEF Inv, TypeOK, StopProgress, ReceiveWork, mainVars, dispVars,
         workerVars, handlerVars, channels, history
<1> QED BY <1>4, <1>5, <1>6, <1>7, <1>8, <1>9, <1>10 DEF Inv

\* The dispatcher takes a channel from workerQueue.
LEMMA AcquireWorkerInv ==
  ASSUME Inv, AcquireWorker
  PROVE  Inv'
<1>1. Active' = Active /\ Stopping' = Stopping
  BY DEF Inv, TypeOK, StopProgress, Active, Stopping, AcquireWorker,
         mainVars, dispVars, workerVars, handlerVars, channels, history
<1>2. wg' \in Nat /\ Counted'
  BY <1>1 DEF Inv, TypeOK, Counted, AcquireWorker
<1>3. TypeOK'
  BY <1>2 DEF Inv, TypeOK, Stages, AcquireWorker, mainVars, dispVars,
         workerVars, handlerVars, channels, history
<1>4. Places'
  BY PoolAssumption DEF Inv, TypeOK, Places, Holders, AcquireWorker,
         mainVars, dispVars, workerVars, handlerVars, channels, history
<1>5. Holders'
  BY PoolAssumption DEF Inv, TypeOK, Holders, AcquireWorker, mainVars,
         dispVars, workerVars, handlerVars, channels, history
<1>6. HandledOnce'
  BY DEF Inv, TypeOK, HandledOnce, AcquireWorker, mainVars, dispVars,
         workerVars, handlerVars, channels, history
<1>7. MainProgress'
  BY DEF Inv, TypeOK, MainProgress, AcquireWorker, mainVars, dispVars,
         workerVars, handlerVars, channels, history
<1>8. StopProgress'
  BY DEF Inv, TypeOK, StopProgress, AcquireWorker, mainVars, dispVars,
         workerVars, handlerVars, channels, history
<1> QED BY <1>2, <1>3, <1>4, <1>5, <1>6, <1>7, <1>8 DEF Inv

\* The dispatcher's package goes to a worker that has none.
LEMMA HandOffInv ==
  ASSUME Inv, NEW w \in Workers, HandOff(w)
  PROVE  Inv'
<1>1. dispWork \in Packages /\ stage[dispWork] = "dispatched" /\ work[w] = None
  BY PoolAssumption DEF Inv, TypeOK, Places, Holders, HandOff
<1>2. Active' = Active /\ Stopping' = Stopping
  BY <1>1 DEF Inv, TypeOK, StopProgress, Active, Stopping, HandOff,
         mainVars, dispVars, workerVars, handlerVars, channels, history
<1>3. wg' \in Nat /\ Counted'
  BY <1>2 DEF Inv, TypeOK, Counted, HandOff
<1>4. TypeOK'
  BY <1>1, <1>3 DEF Inv, TypeOK, Stages, HandOff, mainVars, dispVars,
         workerVars, handlerVars, channels, history
<1>5. Places'
  <2>1. /\ stage' = [stage EXCEPT ![dispWork] = "fetching"]
        /\ work' = [work EXCEPT ![w] = dispWork]
        /\ workerPC' = [workerPC EXCEPT ![w] = "mirror"]
        /\ dispWork' = None
        /\ UNCHANGED <<unsent, mainPkg, workQueue, handPkg, handlerPC>>
    BY DEF HandOff, mainVars, handlerVars, channels, history
  <2>2. ASSUME NEW v \in Workers PROVE work[v] # dispWork
    <3> SUFFICES ASSUME work[v] = dispWork PROVE FALSE
      OBVIOUS
    <3>1. workerPC[v] \in {"mirror", "report"}
      BY <1>1, PoolAssumption DEF Inv, Holders
    <3>2. stage[dispWork] \in {"fetching", "fetched"}
      BY <1>1, <3>1 DEF Inv, Places
    <3> QED BY <1>1, <3>2
  <2>3. ASSUME NEW p \in Packages
        PROVE  /\ stage'[p] = "fetching" <=>
                    \E v \in Workers : work'[v] = p /\ workerPC'[v] = "mirror"
               /\ stage'[p] = "fetched" <=>
                    \E v \in Workers : work'[v] = p /\ workerPC'[v] = "report"
    <3>1. CASE p = dispWork
      <4>1. work'[w] = p /\ workerPC'[w] = "mirror" /\ stage'[p] = "fetching"
        BY <1>1, <2>1, <3>1 DEF Inv, TypeOK
      <4>2. \A v \in Workers : work'[v] = p => v = w
        BY <2>1, <2>2, <3>1 DEF Inv, TypeOK
      <4> QED BY <4>1, <4>2
    <3>2. CASE p # dispWork
      <4>1. stage'[p] = stage[p] /\ work[w] # p /\ work'[w] # p
        BY <1>1, <2>1, <3>2, PoolAssumption DEF Inv, TypeOK
      <4>2. \A v \in Workers \ {w} :
              work'[v] = work[v] /\ workerPC'[v] = workerPC[v]
        BY <2>1 DEF Inv, TypeOK
      <4> QED BY <4>1, <4>2 DEF Inv, Places
    <3> QED BY <3>1, <3>2
  <2>4. \A u, v \in Workers : work'[u] = work'[v] /\ work'[u] # None => u = v
    BY <2>1, <2>2 DEF Inv, TypeOK, Places
  <2> QED BY <1>1, <2>1, <2>3, <2>4, PoolAssumption DEF Inv, TypeOK, Places
<1>6. Holders'
  BY <1>1, PoolAssumption DEF Inv, TypeOK, Holders, HandOff, mainVars,
         dispVars, workerVars, handlerVars, channels, history
<1>7. HandledOnce'
  BY <1>1 DEF Inv, TypeOK, HandledOnce, HandOff, mainVars, dispVars,
         workerVars, handlerVars, channels, history
<1>8. MainProgress'
  BY <1>1 DEF Inv, TypeOK, MainProgress, HandOff, mainVars, dispVars,
         workerVars, handlerVars, channels, history
<1>9. StopProgress'
  BY DEF Inv, TypeOK, StopProgress, HandOff, mainVars, dispVars, workerVars,
         handlerVars, channels, history
<1> QED BY <1>3, <1>4, <1>5, <1>6, <1>7, <1>8, <1>9 DEF Inv

\* A worker puts its channel into workerQueue.
LEMMA RegisterInv ==
  ASSUME Inv, NEW w \in Workers, Register(w)
  PROVE  Inv'
<1>1. Active' = Active /\ Stopping' = Stopping
  BY DEF Inv, TypeOK, StopProgress, Active, Stopping, Register,
         mainVars, dispVars, workerVars, handlerVars, channels, history
<1>2. wg' \in Nat /\ Counted'
  BY <1>1 DEF Inv, TypeOK, Counted, Register
<1>3. TypeOK'
  BY <1>2 DEF Inv, TypeOK, Stages, Register, mainVars, dispVars, workerVars,
         handlerVars, channels, history
<1>4. Places'
  BY PoolAssumption DEF Inv, TypeOK, Places, Holders, Register,
         mainVars, dispVars, workerVars, handlerVars, channels, history
<1>5. Holders'
  BY PoolAssumption DEF Inv, TypeOK, Holders, Register, mainVars, dispVars,
         workerVars, handlerVars, channels, history
<1>6. HandledOnce'
  BY DEF Inv, TypeOK, HandledOnce, Register, mainVars, dispVars, workerVars,
         handlerVars, channels, history
<1>7. MainProgress'
  BY DEF Inv, TypeOK, MainProgress, Register, mainVars, dispVars, workerVars,
         handlerVars, channels, history
<1>8. StopProgress'
  BY DEF Inv, TypeOK, StopProgress, Register, mainVars, dispVars, workerVars,
         handlerVars, channels, history
<1> QED BY <1>2, <1>3, <1>4, <1>5, <1>6, <1>7, <1>8 DEF Inv

\* A worker has fetched its package.
LEMMA MirrorPackageInv ==
  ASSUME Inv, NEW w \in Workers, MirrorPackage(w)
  PROVE  Inv'
<1>1. work[w] \in Packages /\ stage[work[w]] = "fetching"
  BY PoolAssumption DEF Inv, TypeOK, Places, Holders, MirrorPackage
<1>2. Active' = Active /\ Stopping' = Stopping
  BY <1>1 DEF Inv, TypeOK, StopProgress, Active, Stopping, MirrorPackage,
         mainVars, dispVars, workerVars, handlerVars, channels, history
<1>3. wg' \in Nat /\ Counted'
  BY <1>2 DEF Inv, TypeOK, Counted, MirrorPackage
<1>4. TypeOK'
  BY <1>1, <1>3 DEF Inv, TypeOK, Stages, MirrorPackage, mainVars, dispVars,
         workerVars, handlerVars, channels, history
<1>5. Places'
  BY <1>1, PoolAssumption DEF Inv, TypeOK, Places, Holders, MirrorPackage,
         mainVars, dispVars, workerVars, handlerVars, channels, history
<1>6. Holders'
  BY <1>1, PoolAssumption DEF Inv, TypeOK, Holders, MirrorPackage, mainVars,
         dispVars, workerVars, handlerVars, channels, history
<1>7. HandledOnce'
  BY <1>1 DEF Inv, TypeOK, HandledOnce, MirrorPackage, mainVars, dispVars,
         workerVars, handlerVars, channels, history
<1>8. MainProgress'
  BY <1>1 DEF Inv, TypeOK, MainProgress, MirrorPackage, mainVars, dispVars,
         workerVars, handlerVars, channels, history
<1>9. StopProgress'
  BY DEF Inv, TypeOK, StopProgress, MirrorPackage, mainVars, dispVars,
         workerVars, handlerVars, channels, history
<1> QED BY <1>3, <1>4, <1>5, <1>6, <1>7, <1>8, <1>9 DEF Inv

\* The worker's package goes to the handler, which has none.
LEMMA ReportInv ==
  ASSUME Inv, NEW w \in Workers, Report(w)
  PROVE  Inv'
<1>1. /\ work[w] \in Packages /\ stage[work[w]] = "fetched"
      /\ handPkg = None
  BY PoolAssumption DEF Inv, TypeOK, Places, Holders, Report
<1>2. Active' = Active /\ Stopping' = Stopping
  BY <1>1 DEF Inv, TypeOK, StopProgress, Active, Stopping, Report,
         mainVars, dispVars, workerVars, handlerVars, channels, history
<1>3. wg' \in Nat /\ Counted'
  BY <1>2 DEF Inv, TypeOK, Counted, Report
<1>4. TypeOK'
  BY <1>1, <1>3 DEF Inv, TypeOK, Stages, Report, mainVars, dispVars,
         workerVars, handlerVars, channels, history
<1>5. Places'
  BY <1>1, PoolAssumption DEF Inv, TypeOK, Places, Holders, Report,
         mainVars, dispVars, workerVars, handlerVars, channels, history
<1>6. Holders'
  BY <1>1, PoolAssumption DEF Inv, TypeOK, Holders, Report, mainVars,
         dispVars, workerVars, handlerVars, channels, history
<1>7. HandledOnce'
  BY <1>1 DEF Inv, TypeOK, HandledOnce, Report, mainVars, dispVars,
         workerVars, handlerVars, channels, history
<1>8. MainProgress'
  BY <1>1 DEF Inv, TypeOK, MainProgress, Report, mainVars, dispVars,
         workerVars, handlerVars, channels, history
<1>9. StopProgress'
  BY DEF Inv, TypeOK, StopProgress, Report, mainVars, dispVars, workerVars,
         handlerVars, channels, history
<1> QED BY <1>3, <1>4, <1>5, <1>6, <1>7, <1>8, <1>9 DEF Inv

\* A worker has received the quit signal of its Stop goroutine.
LEMMA QuitInv ==
  ASSUME Inv, NEW w \in Workers, Quit(w)
  PROVE  Inv'
<1>1. Active' = Active /\ Stopping' = Stopping
  BY DEF Inv, TypeOK, StopProgress, Active, Stopping, Quit,
         mainVars, dispVars, workerVars, handlerVars, channels, history
<1>2. wg' \in Nat /\ Counted'
  BY <1>1 DEF Inv, TypeOK, Counted, Quit
<1>3. TypeOK'
  BY <1>2 DEF Inv, TypeOK, Stages, Quit, mainVars, dispVars, workerVars,
         handlerVars, channels, history
<1>4. Places'
  BY PoolAssumption DEF Inv, TypeOK, Places, Holders, Quit,
         mainVars, dispVars, workerVars, handlerVars, channels, history
<1>5. Holders'
  BY PoolAssumption DEF Inv, TypeOK, Holders, Quit, mainVars, dispVars,
         workerVars, handlerVars, channels, history
<1>6. HandledOnce'
  BY DEF Inv, TypeOK, HandledOnce, Quit, mainVars, dispVars, workerVars,
         handlerVars, channels, history
<1>7. MainProgress'
  BY DEF Inv, TypeOK, MainProgress, Quit, mainVars, dispVars, workerVars,
         handlerVars, channels, history
<1>8. StopProgress'
  BY DEF Inv, TypeOK, StopProgress, Quit, mainVars, dispVars, workerVars,
         handlerVars, channels, history
<1> QED BY <1>2, <1>3, <1>4, <1>5, <1>6, <1>7, <1>8 DEF Inv

\* A worker that quits releases itself from the WaitGroup.
LEMMA WorkerDoneInv ==
  ASSUME Inv, NEW w \in Workers, WorkerDone(w)
  PROVE  Inv'
<1>1. Active' = Active /\ Stopping' = Stopping \ {w} /\ w \in Stopping
  BY DEF Inv, TypeOK, StopProgress, Active, Stopping, WorkerDone,
         mainVars, dispVars, workerVars, handlerVars, channels, history
<1>2. Cardinality(Stopping') = Cardinality(Stopping) - 1
  BY <1>1, FiniteCounts, FS_RemoveElement DEF Inv
<1>3. Cardinality(Stopping) # 0
  BY <1>1, FiniteCounts, FS_EmptySet DEF Inv
<1>4. wg' \in Nat /\ Counted'
  BY <1>1, <1>2, <1>3, FiniteCounts DEF Inv, Counted, WorkerDone, Done
<1>5. TypeOK'
  BY <1>4 DEF Inv, TypeOK, Stages, WorkerDone, mainVars, dispVars, workerVars,
         handlerVars, channels, history
<1>6. Places'
  BY PoolAssumption DEF Inv, TypeOK, Places, Holders, WorkerDone,
         mainVars, dispVars, workerVars, handlerVars, channels, history
<1>7. Holders'
  BY PoolAssumption DEF Inv, TypeOK, Holders, WorkerDone, mainVars, dispVars,
         workerVars, handlerVars, channels, history
<1>8. HandledOnce'
  BY DEF Inv, TypeOK, HandledOnce, WorkerDone, mainVars, dispVars, workerVars,
         handlerVars, channels, history
<1>9. MainProgress'
  BY DEF Inv, TypeOK, MainProgress, WorkerDone, mainVars, dispVars,
         workerVars, handlerVars, channels, history
<1>10. StopProgress'
  BY DEF Inv, TypeOK, StopProgress, WorkerDone, mainVars, dispVars,
         workerVars, handlerVars, channels, history
<1> QED BY <1>4, <1>5, <1>6, <1>7, <1>8, <1>9, <1>10 DEF Inv

\* The handler removes the files of a deleted package.
LEMMA RemoveFilesInv ==
  ASSUME Inv, RemoveFiles
  PROVE  Inv'
<1>1. Active' = Active /\ Stopping' = Stopping
  BY DEF Inv, TypeOK, StopProgress, Active, Stopping, RemoveFiles,
         mainVars, dispVars, workerVars, handlerVars, channels, history
<1>2. wg' \in Nat /\ Counted'
  BY <1>1 DEF Inv, TypeOK, Counted, RemoveFiles
<1>3. TypeOK'
  BY <1>2 DEF Inv, TypeOK, Stages, RemoveFiles, mainVars, dispVars,
         workerVars, handlerVars, channels, history
<1>4. Places'
  BY PoolAssumption DEF Inv, TypeOK, Places, Holders, RemoveFiles,
         mainVars, dispVars, workerVars, handlerVars, channels, history
<1>5. Holders'
  BY PoolAssumption DEF Inv, TypeOK, Holders, RemoveFiles, mainVars, dispVars,
         workerVars, handlerVars, channels, history
<1>6. HandledOnce'
  BY DEF Inv, TypeOK, HandledOnce, RemoveFiles, mainVars, dispVars,
         workerVars, handlerVars, channels, history
<1>7. MainProgress'
  BY DEF Inv, TypeOK, MainProgress, RemoveFiles, mainVars, dispVars,
         workerVars, handlerVars, channels, history
<1>8. StopProgress'
  BY DEF Inv, TypeOK, StopProgress, RemoveFiles, mainVars, dispVars,
         workerVars, handlerVars, channels, history
<1> QED BY <1>2, <1>3, <1>4, <1>5, <1>6, <1>7, <1>8 DEF Inv

\* The handler writes its result for the first time.
LEMMA WriteResultInv ==
  ASSUME Inv, WriteResult
  PROVE  Inv'
<1>1. handPkg \in Packages /\ stage[handPkg] = "writing"
  BY PoolAssumption DEF Inv, TypeOK, Places, Holders, WriteResult
<1>2. Active' = Active /\ Stopping' = Stopping
  BY <1>1 DEF Inv, TypeOK, StopProgress, Active, Stopping, WriteResult,
         mainVars, dispVars, workerVars, handlerVars, channels, history
<1>3. wg' \in Nat /\ Counted'
  BY <1>2 DEF Inv, TypeOK, Counted, WriteResult
<1>4. TypeOK'
  BY <1>1, <1>3 DEF Inv, TypeOK, Stages, WriteResult, mainVars, dispVars,
         workerVars, handlerVars, channels, history
<1>5. Places'
  BY <1>1, PoolAssumption DEF Inv, TypeOK, Places, Holders, WriteResult,
         mainVars, dispVars, workerVars, handlerVars, channels, history
<1>6. Holders'
  BY <1>1, PoolAssumption DEF Inv, TypeOK, Holders, WriteResult, mainVars,
         dispVars, workerVars, handlerVars, channels, history
<1>7. HandledOnce'
  BY <1>1 DEF Inv, TypeOK, HandledOnce, WriteResult, mainVars, dispVars,
         workerVars, handlerVars, channels, history
<1>8. MainProgress'
  BY <1>1 DEF Inv, TypeOK, MainProgress, WriteResult, mainVars, dispVars,
         workerVars, handlerVars, channels, history
<1>9. StopProgress'
  BY DEF Inv, TypeOK, StopProgress, WriteResult, mainVars, dispVars,
         workerVars, handlerVars, channels, history
<1> QED BY <1>3, <1>4, <1>5, <1>6, <1>7, <1>8, <1>9 DEF Inv

\* The handler releases its package from the WaitGroup.
LEMMA SignalDoneInv ==
  ASSUME Inv, SignalDone
  PROVE  Inv'
<1>1. handPkg \in Packages /\ stage[handPkg] = "written"
  BY PoolAssumption DEF Inv, TypeOK, Places, Holders, SignalDone
<1>2. /\ Active' = Active \ {handPkg} /\ handPkg \in Active
      /\ Stopping' = Stopping
  BY <1>1 DEF Inv, TypeOK, StopProgress, Active, Stopping, SignalDone,
         mainVars, dispVars, workerVars, handlerVars, channels, history
<1>3. Cardinality(Active') = Cardinality(Active) - 1
  BY <1>2, FiniteCounts, FS_RemoveElement DEF Inv
<1>4. Cardinality(Active) # 0
  BY <1>2, FiniteCounts, FS_EmptySet DEF Inv
<1>5. wg' \in Nat /\ Counted'
  BY <1>2, <1>3, <1>4, FiniteCounts DEF Inv, Counted, SignalDone, Done
<1>6. TypeOK'
  BY <1>1, <1>5 DEF Inv, TypeOK, Stages, SignalDone, mainVars, dispVars,
         workerVars, handlerVars, channels, history
<1>7. Places'
  BY <1>1, PoolAssumption DEF Inv, TypeOK, Places, Holders, SignalDone,
         mainVars, dispVars, workerVars, handlerVars, channels, history
<1>8. Holders'
  BY <1>1, PoolAssumption DEF Inv, TypeOK, Holders, SignalDone, mainVars,
         dispVars, workerVars, handlerVars, channels, history
<1>9. HandledOnce'
  BY <1>1 DEF Inv, TypeOK, HandledOnce, SignalDone, mainVars, dispVars,
         workerVars, handlerVars, channels, history
<1>10. MainProgress'
  BY <1>1 DEF Inv, TypeOK, MainProgress, SignalDone, mainVars, dispVars,
         workerVars, handlerVars, channels, history
<1>11. StopProgress'
  BY DEF Inv, TypeOK, StopProgress, SignalDone, mainVars, dispVars,
         workerVars, handlerVars, channels, history
<1> QED BY <1>5, <1>6, <1>7, <1>8, <1>9, <1>10, <1>11 DEF Inv

-----------------------------------------------------------------------------
(* The theorems                                                            *)

\* Every step of Start preserves the invariant.
LEMMA StepInv == Inv /\ [Next]_vars => Inv'
<1> SUFFICES ASSUME Inv, [Next]_vars PROVE Inv'
  OBVIOUS
<1>1. CASE Main
  BY <1>1, AddPackageInv, StopWorkerInv, EnqueueInv, AllDispatchedInv,
     JobsFinishedInv, AllStoppedInv, WorkersFinishedInv DEF Main
<1>2. CASE Dispatcher
  BY <1>2, ReceiveWorkInv, AcquireWorkerInv, HandOffInv DEF Dispatcher
<1>3. ASSUME NEW w \in Workers, Worker(w) PROVE Inv'
  BY <1>3, RegisterInv, MirrorPackageInv, ReportInv, QuitInv, WorkerDoneInv
  DEF Worker
<1>4. CASE Handler
  BY <1>4, RemoveFilesInv, WriteResultInv, SignalDoneInv DEF Handler
<1>5. CASE UNCHANGED vars
  BY <1>5 DEF Inv, TypeOK, Places, Holders, HandledOnce, MainProgress,
     StopProgress, Counted, Active, Stopping, vars, mainVars, dispVars,
     workerVars, handlerVars, channels, history
<1> QED BY <1>1, <1>2, <1>3, <1>4, <1>5 DEF Next, Returned

\* The invariant holds throughout a call of Start.
THEOREM Invariance == SafeSpec => []Inv
BY InitInv, StepInv, PTL DEF SafeSpec

\* Every variable keeps its type; in particular no wg.Done takes the counter
\* of the WaitGroup below zero, which would panic.
THEOREM TypeCorrect == SafeSpec => []TypeOK
<1>1. Inv => TypeOK
  BY DEF Inv
<1> QED BY Invariance, <1>1, PTL

\* The WaitGroup counts what it is meant to count, at every moment.
THEOREM WaitGroupCorrect == SafeSpec => []WaitGroupAccounts
<1>1. Inv => WaitGroupAccounts
  <2> SUFFICES ASSUME Inv PROVE InFlight = Active
    BY DEF Inv, Counted, WaitGroupAccounts
  <2>1. ASSUME NEW p \in InFlight PROVE p \in Active
    <3>1. /\ p \in Packages
          /\ \/ p \in {mainPkg, dispWork, handPkg}
             \/ p \in Range(workQueue)
             \/ \E w \in Workers : work[w] = p
      BY <2>1, PoolAssumption DEF InFlight, Inv, TypeOK, Range
    <3>2. ASSUME NEW w \in Workers, work[w] = p
          PROVE  stage[p] \in {"fetching", "fetched"}
      <4>1. workerPC[w] \in {"mirror", "report"}
        BY <3>1, <3>2, PoolAssumption DEF Inv, Holders
      <4> QED BY <3>1, <3>2, <4>1 DEF Inv, Places
    <3>3. p \in {mainPkg, dispWork, handPkg} =>
            stage[p] \in {"added", "dispatched", "writing", "written"}
      <4>1. p = handPkg => handlerPC \in {"remove", "write", "signal"}
        BY <3>1, PoolAssumption DEF Inv, TypeOK, Holders
      <4> QED BY <3>1, <4>1 DEF Inv, Places
    <3>4. p \in Range(workQueue) => stage[p] = "queued"
      BY <3>1 DEF Inv, Places
    <3> QED BY <3>1, <3>2, <3>3, <3>4 DEF Active
  <2>2. ASSUME NEW p \in Active PROVE p \in InFlight
    <3>1. p \in Packages /\ p # None
      BY <2>2, PoolAssumption DEF Active
    <3>2. stage[p] \in Stages \ {"pending", "released"}
      BY <2>2 DEF Active, Inv, TypeOK
    <3>3. \/ p \in {mainPkg, dispWork, handPkg}
          \/ p \in Range(workQueue)
          \/ \E w \in Workers : work[w] = p
      BY <3>1, <3>2 DEF Stages, Inv, Places
    <3>4. (\E w \in Workers : work[w] = p) => p \in Range(work)
      BY DEF Inv, TypeOK, Range
    <3> QED BY <3>1, <3>3, <3>4 DEF InFlight
  <2> QED BY <2>1, <2>2
<1> QED BY Invariance, <1>1, PTL

\* Start stops its workers only after every package has been written, each of
\* them exactly once.
THEOREM RoundSettled == SafeSpec => []RoundSettledBeforeStop
<1>1. Inv => RoundSettledBeforeStop
  BY DEF Inv, TypeOK, HandledOnce, MainProgress, RoundSettledBeforeStop
<1> QED BY Invariance, <1>1, PTL

-----------------------------------------------------------------------------
(* Start implements MirrorRound                                            *)

\* The stages tell what is in hand and what is settled.
ByStage ==
  /\ InHand = {p \in Packages : stage[p] \in {"fetched", "writing"}}
  /\ Settled = {p \in Packages : stage[p] \in {"written", "released"}}

\* The invariant makes the stages tell that.
LEMMA InHandByStage == Inv => ByStage
<1> SUFFICES ASSUME Inv
             PROVE  \A p \in Packages :
                      /\ p \in InHand <=> stage[p] \in {"fetched", "writing"}
                      /\ p \in Settled <=> stage[p] \in {"written", "released"}
  BY DEF InHand, Settled, ByStage
<1> TAKE p \in Packages
<1>1. p \in InHand <=> stage[p] \in {"fetched", "writing"}
  BY DEF Inv, Places, InHand
<1>2. p \in Settled <=> stage[p] \in {"written", "released"}
  BY DEF Inv, HandledOnce, Settled
<1> QED BY <1>1, <1>2

\* While a worker is fetching, the other workers and the handler have at most
\* one result each.
LEMMA InHandBound ==
  ASSUME Inv, NEW w \in Workers, workerPC[w] = "mirror"
  PROVE  Cardinality(InHand) < Cardinality(Workers) + 1
<1> DEFINE reporters == {v \in Workers : workerPC[v] = "report"}
           reported  == {work[v] : v \in reporters}
           f         == [v \in reporters |-> work[v]]
<1>1. /\ IsFiniteSet(Workers \ {w})
      /\ Cardinality(Workers) \in Nat
      /\ Cardinality(Workers \ {w}) = Cardinality(Workers) - 1
  BY PoolAssumption, FS_RemoveElement, FS_CardinalityType
<1>2. reporters \in SUBSET (Workers \ {w})
  OBVIOUS
<1>3. /\ IsFiniteSet(reporters)
      /\ Cardinality(reporters) <= Cardinality(Workers \ {w})
  BY <1>1, <1>2, FS_Subset
<1>4. f \in Surjection(reporters, reported)
  BY DEF Surjection
<1>5. IsFiniteSet(reported) /\ Cardinality(reported) <= Cardinality(reporters)
  BY <1>3, <1>4, FS_Surjection
<1> HIDE DEF reported
<1>6. /\ IsFiniteSet(reported \cup {handPkg})
      /\ Cardinality(reported \cup {handPkg}) <= Cardinality(reported) + 1
  <2>1. Cardinality(reported) \in Nat
    BY <1>5, FS_CardinalityType
  <2>2. /\ IsFiniteSet(reported \cup {handPkg})
        /\ Cardinality(reported \cup {handPkg}) =
             IF handPkg \in reported
             THEN Cardinality(reported) ELSE Cardinality(reported) + 1
    BY <1>5, FS_AddElement
  <2> QED BY <2>1, <2>2
<1>7. InHand \in SUBSET (reported \cup {handPkg})
  BY DEF InHand, reported
<1>8. Cardinality(InHand) <= Cardinality(reported \cup {handPkg})
  BY <1>6, <1>7, FS_Subset
<1>9. /\ Cardinality(InHand) \in Nat
      /\ Cardinality(reported) \in Nat
      /\ Cardinality(reporters) \in Nat
      /\ Cardinality(reported \cup {handPkg}) \in Nat
  BY <1>3, <1>5, <1>6, <1>7, FS_Subset, FS_CardinalityType
<1> HIDE DEF reporters
<1> QED BY <1>1, <1>3, <1>5, <1>6, <1>8, <1>9

\* The initial state of Start is that of a round.
LEMMA RoundInit == Init => Round!Init
<1> SUFFICES ASSUME Init PROVE Round!Init
  OBVIOUS
<1>1. InHand = {} /\ Settled = {}
  BY DEF Init, InHand, Settled
<1> QED BY <1>1 DEF Init, Round!Init

\* A step of Start that neither fetches, writes nor returns is none of a round.
LEMMA RoundStutters ==
  ASSUME InHand' = InHand, Settled' = Settled,
         (mainPC' = "returned") <=> (mainPC = "returned")
  PROVE  UNCHANGED Round!vars
BY DEF Round!vars

\* Fetching, writing and returning are the three steps of a round.
LEMMA RoundStep == Inv /\ Inv' /\ [Next]_vars => [Round!Next]_(Round!vars)
<1> SUFFICES ASSUME Inv, Inv', [Next]_vars
             PROVE  [Round!Next]_(Round!vars)
  OBVIOUS
<1>1. /\ InHand = {p \in Packages : stage[p] \in {"fetched", "writing"}}
      /\ Settled = {p \in Packages : stage[p] \in {"written", "released"}}
  BY InHandByStage DEF ByStage
<1>2. /\ InHand' = {p \in Packages : stage'[p] \in {"fetched", "writing"}}
      /\ Settled' = {p \in Packages : stage'[p] \in {"written", "released"}}
  <2>1. ByStage'
    BY InHandByStage, PTL
  <2> QED BY <2>1 DEF ByStage
<1>3. CASE Main /\ ~ WorkersFinished
  <2>1. /\ \A p \in Packages :
             \/ stage'[p] = stage[p]
             \/ /\ stage[p] \in {"pending", "added"}
                /\ stage'[p] \in {"added", "queued"}
        /\ mainPC # "returned" /\ mainPC' # "returned"
    BY <1>3, PoolAssumption
    DEF Main, AddPackage, StopWorker, Enqueue, AllDispatched, JobsFinished,
        AllStopped, Inv, TypeOK, Places, Holders, history
  <2> QED BY <1>1, <1>2, <2>1, RoundStutters
<1>4. CASE WorkersFinished
  <2>1. UNCHANGED stage /\ \A p \in Packages : stage[p] = "released"
    BY <1>4 DEF WorkersFinished, Inv, MainProgress, history
  <2>2. UNCHANGED <<InHand, Settled>> /\ Settled = Packages
    BY <1>1, <1>2, <2>1
  <2>3. Round!Return
    BY <1>4, <2>2 DEF WorkersFinished, Round!Return
  <2> QED BY <2>3 DEF Round!Next
<1>5. CASE Dispatcher
  <2>1. /\ \A p \in Packages :
             \/ stage'[p] = stage[p]
             \/ /\ stage[p] \in {"queued", "dispatched"}
                /\ stage'[p] \in {"dispatched", "fetching"}
        /\ UNCHANGED mainPC
    <3>1. workQueue # <<>> => Head(workQueue) \in Range(workQueue)
      BY TailHolds DEF Inv, TypeOK, Places
    <3>2. dispPC = "handOff" => stage[dispWork] = "dispatched"
      BY DEF Inv, TypeOK, Places, Holders
    <3> QED BY <1>5, <3>1, <3>2
            DEF Dispatcher, ReceiveWork, AcquireWorker, HandOff, mainVars, Inv,
                TypeOK, Places, history
  <2> QED BY <1>1, <1>2, <2>1, RoundStutters
<1>6. ASSUME NEW w \in Workers, MirrorPackage(w)
      PROVE  [Round!Next]_(Round!vars)
  <2>1. work[w] \in Packages /\ stage[work[w]] = "fetching"
    BY <1>6, PoolAssumption DEF MirrorPackage, Inv, TypeOK, Places, Holders
  <2>2. stage' = [stage EXCEPT ![work[w]] = "fetched"] /\ UNCHANGED mainPC
    BY <1>6 DEF MirrorPackage, mainVars
  <2>3. /\ InHand' = InHand \cup {work[w]} /\ UNCHANGED Settled
        /\ work[w] \notin InHand \cup Settled
    BY <1>1, <1>2, <2>1, <2>2 DEF Inv, TypeOK
  <2>4. Cardinality(InHand) < Cardinality(Workers) + 1
    BY <1>6, InHandBound DEF MirrorPackage
  <2>5. /\ work[w] \in Packages \ (InHand \cup Settled)
        /\ Packages \ (InHand' \cup Settled')
             = (Packages \ (InHand \cup Settled)) \ {work[w]}
    BY <2>1, <2>3
  <2>6. Round!Fetch(work[w])
    BY <2>2, <2>3, <2>4, <2>5 DEF Round!Fetch, Round!Cardinality, Cardinality
  <2> QED BY <2>1, <2>6 DEF Round!Next
<1>7. ASSUME NEW w \in Workers, Worker(w), ~ MirrorPackage(w)
      PROVE  [Round!Next]_(Round!vars)
  <2>1. /\ \A p \in Packages :
             \/ stage'[p] = stage[p]
             \/ stage[p] = "fetched" /\ stage'[p] = "writing"
        /\ UNCHANGED mainPC
    <3>1. workerPC[w] = "report" => stage[work[w]] = "fetched"
      BY PoolAssumption DEF Inv, TypeOK, Places, Holders
    <3> QED BY <1>7, <3>1
            DEF Worker, Register, Report, Quit, WorkerDone, mainVars, Inv,
                TypeOK, history
  <2> QED BY <1>1, <1>2, <2>1, RoundStutters
<1>8. CASE WriteResult
  <2>1. handPkg \in Packages /\ stage[handPkg] = "writing"
    BY <1>8, PoolAssumption DEF WriteResult, Inv, TypeOK, Places, Holders
  <2>2. stage' = [stage EXCEPT ![handPkg] = "written"] /\ UNCHANGED mainPC
    BY <1>8 DEF WriteResult, mainVars
  <2>3. /\ InHand' = InHand \ {handPkg} /\ handPkg \in InHand
        /\ Settled' = Settled \cup {handPkg}
    BY <1>1, <1>2, <2>1, <2>2 DEF Inv, TypeOK
  <2>4. Round!Settle(handPkg)
    BY <2>1, <2>2, <2>3 DEF Round!Settle
  <2> QED BY <2>1, <2>4 DEF Round!Next
<1>9. CASE RemoveFiles \/ SignalDone
  <2>1. /\ \A p \in Packages :
             \/ stage'[p] = stage[p]
             \/ stage[p] = "written" /\ stage'[p] = "released"
        /\ UNCHANGED mainPC
    <3>1. handlerPC = "signal" => stage[handPkg] = "written"
      BY PoolAssumption DEF Inv, TypeOK, Places, Holders
    <3> QED BY <1>9, <3>1 DEF RemoveFiles, SignalDone, mainVars, history, Inv,
                TypeOK
  <2> QED BY <1>1, <1>2, <2>1, RoundStutters
<1>10. CASE UNCHANGED vars
  <2>1. UNCHANGED <<stage, mainPC>>
    BY <1>10 DEF vars, mainVars, history
  <2> QED BY <1>1, <1>2, <2>1, RoundStutters
<1> QED BY <1>3, <1>4, <1>5, <1>6, <1>7, <1>8, <1>9, <1>10
        DEF Next, Handler, Returned

\* Every behaviour of Start is one of MirrorRound: each package is fetched
\* once and settled once, with at most MaxConnections + 1 results in hand, and
\* Start returns only when all are settled.
THEOREM RoundRefinement == SafeSpec => Round!SafeSpec
BY RoundInit, RoundStep, Invariance, PTL DEF SafeSpec, Round!SafeSpec

-----------------------------------------------------------------------------
(* The workers: none blocks in registering or being handed a package, and  *)
(* none outlives Start.  The invariant these proofs rest on, beside Inv    *)

\* A channel is in workerQueue once at most.  While packages are about it
\* belongs to an idle worker; later, maybe to one that has quit.
Registered ==
  /\ IsInjective(workerQueue)
  /\ \A w \in Range(workerQueue) :
       /\ workerPC[w] \in {"idle", "quitting", "exited"}
       /\ dispWorker # w

\* The dispatcher has a channel exactly while it hands a package over, and the
\* worker is listening on it.
Acquired ==
  /\ dispPC = "handOff" <=> dispWorker # None
  /\ dispPC = "handOff" => workerPC[dispWorker] = "idle"

\* Start returns after the last worker.
Gone ==
  mainPC = "returned" => \A w \in Workers : workerPC[w] = "exited"

SlotInv == Registered /\ Acquired /\ Gone

\* Nobody quits while the dispatcher has a package.
LEMMA NoneStopped ==
  ASSUME Inv, dispPC # "select"
  PROVE  /\ \A w \in Workers : workerPC[w] \notin {"quitting", "exited"}
         /\ stopping = {}
         /\ mainPC \in {"dispatch", "enqueue", "waitJobs"}
<1>1. dispWork \in Packages /\ stage[dispWork] = "dispatched"
  BY PoolAssumption DEF Inv, TypeOK, Holders, Places
<1>2. mainPC \in {"dispatch", "enqueue", "waitJobs"}
  BY <1>1 DEF Inv, TypeOK, MainProgress
<1>3. unstopped = Workers
  BY <1>2 DEF Inv, StopProgress
<1>4. stopping = {}
  BY <1>3 DEF Inv, TypeOK, StopProgress
<1> QED BY <1>2, <1>3, <1>4 DEF Inv, StopProgress

\* No channel is registered and no goroutine has moved at first.
LEMMA InitSlots == Init => SlotInv
<1> SUFFICES ASSUME Init PROVE SlotInv
  OBVIOUS
<1>1. Range(workerQueue) = {} /\ IsInjective(workerQueue)
  BY DEF Init, Range, IsInjective
<1> QED BY <1>1 DEF Init, SlotInv, Registered, Acquired, Gone

-----------------------------------------------------------------------------
(* The steps that move a channel or a worker                               *)

\* The second wait passes when no worker is left to quit.
LEMMA WorkersFinishedSlots ==
  ASSUME Inv, SlotInv, WorkersFinished
  PROVE  SlotInv'
<1>1. /\ Cardinality(Active) \in Nat
      /\ IsFiniteSet(Stopping)
      /\ Cardinality(Stopping) \in Nat
  BY FiniteCounts
<1>2. Cardinality(Stopping) = 0
  BY <1>1 DEF Inv, Counted, WorkersFinished, Waited
<1>3. Stopping = {}
  BY <1>1, <1>2, FS_EmptySet
<1>4. \A w \in Workers : workerPC[w] = "exited"
  BY <1>3 DEF Stopping, Inv, TypeOK, StopProgress, WorkersFinished
<1> QED BY <1>4 DEF SlotInv, Registered, Acquired, Gone, WorkersFinished,
                    channels, dispVars, workerVars

\* The channel at the head goes from the queue to the dispatcher.
LEMMA AcquireWorkerSlots ==
  ASSUME Inv, SlotInv, AcquireWorker
  PROVE  SlotInv'
<1>1. /\ workerQueue \in Seq(Workers)
      /\ workerQueue # <<>>
      /\ IsInjective(workerQueue)
  BY DEF Inv, TypeOK, SlotInv, Registered, AcquireWorker
<1>2. /\ Head(workerQueue) \in Workers
      /\ Head(workerQueue) \in Range(workerQueue)
      /\ Range(Tail(workerQueue)) = Range(workerQueue) \ {Head(workerQueue)}
      /\ IsInjective(Tail(workerQueue))
  BY <1>1, TailHolds
<1>3. workerPC[Head(workerQueue)] = "idle"
  BY <1>2, NoneStopped DEF AcquireWorker, SlotInv, Registered
<1>4. Registered'
  BY <1>2 DEF SlotInv, Registered, AcquireWorker, workerVars
<1>5. Acquired'
  BY <1>2, <1>3, PoolAssumption DEF Acquired, AcquireWorker, workerVars
<1>6. Gone'
  BY DEF SlotInv, Gone, AcquireWorker, mainVars, workerVars
<1> QED BY <1>4, <1>5, <1>6 DEF SlotInv

\* The worker that takes the package is not in the queue.
LEMMA HandOffSlots ==
  ASSUME Inv, SlotInv, NEW w \in Workers, HandOff(w)
  PROVE  SlotInv'
<1>1. /\ workerPC \in [Workers -> {"register", "idle", "mirror", "report",
                                   "quitting", "exited"}]
      /\ w \notin Range(workerQueue)
      /\ Range(workerQueue) \in SUBSET Workers
  BY DEF Inv, TypeOK, SlotInv, Registered, HandOff, Range
<1>2. Registered'
  BY <1>1, PoolAssumption DEF SlotInv, Registered, HandOff, channels
<1>3. Acquired'
  BY DEF Acquired, HandOff
<1>4. Gone'
  BY NoneStopped DEF Gone, HandOff, mainVars
<1> QED BY <1>2, <1>3, <1>4 DEF SlotInv

\* The channel that enters the queue was neither in it nor with the dispatcher.
LEMMA RegisterSlots ==
  ASSUME Inv, SlotInv, NEW w \in Workers, Register(w)
  PROVE  SlotInv'
<1>1. /\ workerPC \in [Workers -> {"register", "idle", "mirror", "report",
                                   "quitting", "exited"}]
      /\ workerQueue \in Seq(Workers)
      /\ w \notin Range(workerQueue)
      /\ dispWorker # w
  BY PoolAssumption DEF Inv, TypeOK, SlotInv, Registered, Acquired, Register
<1>2. /\ Range(workerQueue') = Range(workerQueue) \cup {w}
      /\ IsInjective(workerQueue')
  BY <1>1, AppendHolds DEF SlotInv, Registered, Register
<1>3. Registered'
  BY <1>1, <1>2 DEF SlotInv, Registered, Register, dispVars
<1>4. Acquired'
  BY <1>1 DEF SlotInv, Acquired, Register, dispVars
<1>5. Gone'
  BY DEF SlotInv, Gone, Register, mainVars
<1> QED BY <1>3, <1>4, <1>5 DEF SlotInv

\* A worker that quits is not being handed a package.
LEMMA QuitSlots ==
  ASSUME Inv, SlotInv, NEW w \in Workers, Quit(w)
  PROVE  SlotInv'
<1>1. workerPC \in [Workers -> {"register", "idle", "mirror", "report",
                                "quitting", "exited"}]
  BY DEF Inv, TypeOK
<1>2. dispPC # "handOff"
  BY NoneStopped DEF Quit
<1>3. Registered'
  BY <1>1 DEF SlotInv, Registered, Quit, channels, dispVars
<1>4. Acquired'
  BY <1>2 DEF SlotInv, Acquired, Quit, dispVars
<1>5. Gone'
  BY DEF SlotInv, Gone, Quit, mainVars
<1> QED BY <1>3, <1>4, <1>5 DEF SlotInv

\* Nor is one that has quit.
LEMMA WorkerDoneSlots ==
  ASSUME Inv, SlotInv, NEW w \in Workers, WorkerDone(w)
  PROVE  SlotInv'
<1>1. workerPC \in [Workers -> {"register", "idle", "mirror", "report",
                                "quitting", "exited"}]
  BY DEF Inv, TypeOK
<1>2. dispPC # "handOff"
  BY NoneStopped DEF WorkerDone
<1>3. Registered'
  BY <1>1 DEF SlotInv, Registered, WorkerDone, channels, dispVars
<1>4. Acquired'
  BY <1>2 DEF SlotInv, Acquired, WorkerDone, dispVars
<1>5. Gone'
  BY <1>1 DEF SlotInv, Gone, WorkerDone, mainVars
<1> QED BY <1>3, <1>4, <1>5 DEF SlotInv

\* A worker that fetches or reports is neither registered nor acquired.
LEMMA BusySlots ==
  ASSUME Inv, SlotInv, NEW w \in Workers, MirrorPackage(w) \/ Report(w)
  PROVE  SlotInv'
<1>1. /\ workerPC \in [Workers -> {"register", "idle", "mirror", "report",
                                   "quitting", "exited"}]
      /\ w \notin Range(workerQueue)
      /\ dispPC = "handOff" => dispWorker # w
  BY DEF Inv, TypeOK, SlotInv, Registered, Acquired, MirrorPackage, Report
<1>2. /\ \A v \in Workers \ {w} : workerPC'[v] = workerPC[v]
      /\ workerPC[w] # "exited"
      /\ UNCHANGED <<mainPC, workerQueue, dispPC, dispWorker>>
  BY <1>1 DEF MirrorPackage, Report, mainVars, channels, dispVars
<1>3. Range(workerQueue) \in SUBSET Workers /\ dispWorker \in Workers \cup {None}
  BY DEF Inv, TypeOK, Range
<1>4. Registered'
  BY <1>1, <1>2, <1>3 DEF SlotInv, Registered
<1>5. Acquired'
  BY <1>1, <1>2, <1>3, PoolAssumption DEF SlotInv, Acquired
<1>6. Gone'
  BY <1>2 DEF SlotInv, Gone
<1> QED BY <1>4, <1>5, <1>6 DEF SlotInv

\* The dispatcher takes a package before it takes a channel.
LEMMA ReceiveWorkSlots ==
  ASSUME Inv, SlotInv, ReceiveWork
  PROVE  SlotInv'
BY DEF SlotInv, Registered, Acquired, Gone, ReceiveWork, mainVars, workerVars

\* No other step touches a channel, a worker or the dispatcher.
LEMMA OtherSlots ==
  ASSUME SlotInv,
         UNCHANGED <<workerQueue, dispPC, dispWorker, workerPC>>,
         mainPC' = "returned" => mainPC = "returned"
  PROVE  SlotInv'
BY DEF SlotInv, Registered, Acquired, Gone

-----------------------------------------------------------------------------
(* The theorems                                                            *)

\* Every step of Start preserves the invariant.
LEMMA SlotStep == Inv /\ SlotInv /\ [Next]_vars => SlotInv'
<1> SUFFICES ASSUME Inv, SlotInv, [Next]_vars PROVE SlotInv'
  OBVIOUS
<1>1. CASE Main
  <2>1. ASSUME NEW p \in Packages, AddPackage(p) PROVE SlotInv'
    BY <2>1, OtherSlots DEF AddPackage, channels, dispVars, workerVars
  <2>2. ASSUME NEW w \in Workers, StopWorker(w) PROVE SlotInv'
    BY <2>2, OtherSlots DEF StopWorker, channels, dispVars, workerVars
  <2>3. CASE Enqueue
    BY <2>3, OtherSlots DEF Enqueue, dispVars, workerVars
  <2>4. CASE AllDispatched \/ JobsFinished \/ AllStopped
    BY <2>4, OtherSlots
    DEF AllDispatched, JobsFinished, AllStopped, channels, dispVars, workerVars
  <2> QED BY <1>1, <2>1, <2>2, <2>3, <2>4, WorkersFinishedSlots DEF Main
<1>2. CASE Dispatcher
  BY <1>2, ReceiveWorkSlots, AcquireWorkerSlots, HandOffSlots DEF Dispatcher
<1>3. ASSUME NEW w \in Workers, Worker(w) PROVE SlotInv'
  BY <1>3, RegisterSlots, BusySlots, QuitSlots, WorkerDoneSlots DEF Worker
<1>4. CASE Handler
  BY <1>4, OtherSlots DEF Handler, RemoveFiles, WriteResult, SignalDone,
     mainVars, channels, dispVars, workerVars
<1>5. CASE UNCHANGED vars
  BY <1>5, OtherSlots DEF vars, mainVars, channels, dispVars, workerVars
<1> QED BY <1>1, <1>2, <1>3, <1>4, <1>5 DEF Next, Returned

\* The invariant holds throughout a call of Start.
THEOREM SlotInvariance == SafeSpec => []SlotInv
<1>1. Inv /\ SlotInv /\ [Next]_vars => SlotInv'
  BY SlotStep
<1> QED BY InitSlots, <1>1, Invariance, PTL DEF SafeSpec

\* A queue without repetitions that misses an element is shorter than the set
\* it is taken from.
LEMMA QueueIsShort ==
  ASSUME NEW S, IsFiniteSet(S), NEW q \in Seq(S), IsInjective(q),
         NEW e \in S, e \notin Range(q)
  PROVE  Len(q) < Cardinality(S)
<1>1. /\ Len(q) \in Nat
      /\ q \in [1 .. Len(q) -> S]
  OBVIOUS
<1>2. \A i \in 1 .. Len(q) : q[i] \in S \ {e}
  BY <1>1 DEF Range
<1>3. q \in Injection(1 .. Len(q), S \ {e})
  BY <1>1, <1>2 DEF Injection, IsInjective
<1>4. /\ IsFiniteSet(S \ {e})
      /\ Cardinality(S) \in Nat
      /\ Cardinality(S \ {e}) = Cardinality(S) - 1
  BY FS_RemoveElement, FS_CardinalityType
<1>5. IsFiniteSet(1 .. Len(q)) /\ Cardinality(1 .. Len(q)) = Len(q)
  BY <1>1, FS_Interval
<1>6. Cardinality(1 .. Len(q)) <= Cardinality(S \ {e})
  BY <1>3, <1>4, FS_Injection
<1> QED BY <1>1, <1>4, <1>5, <1>6

\* Handing a package over and registering never block: the worker listens, and
\* there is a slot for every worker.
THEOREM SlotsSuffice == SafeSpec => []WorkerSlots
<1>1. Inv /\ SlotInv => WorkerSlots
  <2> SUFFICES ASSUME Inv, SlotInv,
                      NEW w \in Workers, workerPC[w] = "register"
               PROVE  Len(workerQueue) < Slots
    BY DEF WorkerSlots, SlotInv, Acquired
  <2>1. /\ workerQueue \in Seq(Workers)
        /\ IsInjective(workerQueue)
        /\ w \notin Range(workerQueue)
    BY DEF Inv, TypeOK, SlotInv, Registered
  <2> QED BY <2>1, PoolAssumption, QueueIsShort DEF Slots
<1> QED BY Invariance, SlotInvariance, <1>1, PTL

\* When Start returns every worker is gone, no Stop goroutine waits, and the
\* dispatcher and the handler idle with nothing to do.
THEOREM NothingStays == SafeSpec => []NothingLeftBehind
<1>1. Inv /\ SlotInv => NothingLeftBehind
  <2> SUFFICES ASSUME Inv, SlotInv, mainPC = "returned"
               PROVE  /\ \A w \in Workers : workerPC[w] = "exited"
                      /\ stopping = {}
                      /\ workQueue = <<>>
                      /\ dispPC = "select"
                      /\ handlerPC = "receive"
    BY DEF NothingLeftBehind
  <2>1. \A w \in Workers : workerPC[w] = "exited"
    BY DEF SlotInv, Gone
  <2>2. stopping = {}
    BY <2>1 DEF Inv, TypeOK, StopProgress
  <2>3. \A p \in Packages : stage[p] = "released"
    BY DEF Inv, MainProgress
  <2>4. workQueue = <<>>
    <3> SUFFICES ASSUME workQueue # <<>> PROVE FALSE
      OBVIOUS
    <3>1. Head(workQueue) \in Packages /\ Head(workQueue) \in Range(workQueue)
      BY TailHolds DEF Inv, TypeOK, Places
    <3> QED BY <2>3, <3>1 DEF Inv, Places
  <2>5. dispPC = "select"
    BY NoneStopped
  <2>6. handPkg = None
    BY <2>3, PoolAssumption DEF Inv, TypeOK, Places, Holders
  <2> QED BY <2>1, <2>2, <2>4, <2>5, <2>6 DEF Inv, Holders
<1> QED BY Invariance, SlotInvariance, <1>1, PTL

-----------------------------------------------------------------------------
(* Start gets on: its goroutines never all wait for each other             *)

\* A worker that listens can be found: its channel is in workerQueue, or the
\* dispatcher has it.
Listed ==
  \A w \in Workers :
    workerPC[w] = "idle" => w \in Range(workerQueue) \/ dispWorker = w

\* A channel leaves workerQueue for the dispatcher, and the dispatcher for a
\* worker that then no longer listens.
LEMMA ListedStep == Inv /\ SlotInv /\ Listed /\ [Next]_vars => Listed'
<1> SUFFICES ASSUME Inv, SlotInv, Listed, [Next]_vars,
                    NEW w \in Workers, workerPC'[w] = "idle"
             PROVE  w \in Range(workerQueue') \/ dispWorker' = w
  BY DEF Listed
<1> USE DEF Inv, TypeOK
<1>1. CASE UNCHANGED <<workerQueue, dispWorker>> /\ workerPC[w] = "idle"
  BY <1>1 DEF Listed
<1>2. CASE AcquireWorker
  <2>1. /\ Range(workerQueue') = Range(workerQueue) \ {Head(workerQueue)}
        /\ dispWorker' = Head(workerQueue)
    BY <1>2, TailHolds DEF AcquireWorker, SlotInv, Registered
  <2>2. w \in Range(workerQueue)
    BY <1>2, PoolAssumption
    DEF Listed, AcquireWorker, workerVars, SlotInv, Acquired
  <2> QED BY <2>1, <2>2
<1>3. ASSUME NEW v \in Workers, HandOff(v)
      PROVE  w \in Range(workerQueue') \/ dispWorker' = w
  BY <1>3 DEF HandOff, Listed, channels
<1>4. ASSUME NEW v \in Workers, Register(v)
      PROVE  w \in Range(workerQueue') \/ dispWorker' = w
  <2>1. Range(workerQueue') = Range(workerQueue) \cup {v}
    BY <1>4, AppendHolds DEF Register, SlotInv, Registered
  <2> QED BY <1>4, <2>1 DEF Register, Listed, dispVars
<1>5. ASSUME NEW v \in Workers,
             MirrorPackage(v) \/ Report(v) \/ Quit(v) \/ WorkerDone(v)
      PROVE  UNCHANGED <<workerQueue, dispWorker>> /\ workerPC[w] = "idle"
  BY <1>5
  DEF MirrorPackage, Report, Quit, WorkerDone, channels, dispVars
<1>6. CASE Main \/ ReceiveWork \/ Handler \/ UNCHANGED vars
  BY <1>1, <1>6
  DEF Main, AddPackage, StopWorker, Enqueue, AllDispatched, JobsFinished,
      AllStopped, WorkersFinished, ReceiveWork, Handler, RemoveFiles,
      WriteResult, SignalDone, channels, dispVars, workerVars, vars
<1> QED
  BY <1>1, <1>2, <1>3, <1>4, <1>5, <1>6
  DEF Next, Returned, Dispatcher, Worker

\* A worker that listens is always to be found.
LEMMA ListedInvariance == SafeSpec => []Listed
<1>1. Init => Listed
  BY DEF Init, Listed
<1>2. Inv /\ SlotInv /\ Listed /\ [Next]_vars => Listed'
  BY ListedStep
<1> QED BY <1>1, <1>2, Invariance, SlotInvariance, PTL DEF SafeSpec

\* As long as nobody quits, a package on its way to a worker finds one: either
\* somebody listens, or somebody who does not is about to go on.
LEMMA DispatcherRuns ==
  ASSUME Inv, SlotInv, Listed, dispPC # "select" \/ workQueue # <<>>
  PROVE  Runnable
<1> SUFFICES ASSUME ~ Runnable PROVE FALSE
  OBVIOUS
<1> USE DEF Inv, TypeOK
<1>1. dispPC = "acquire" /\ workerQueue = <<>>
  BY DEF Runnable, SlotInv, Acquired
<1>2. PICK w \in Workers : TRUE
  BY PoolAssumption
<1>3. workerPC[w] \notin {"quitting", "exited"}
  BY <1>1, NoneStopped
<1>4. workerPC[w] # "register"
  <2>1. Len(workerQueue) = 0
    BY <1>1
  <2>2. Cardinality(Workers) \in Nat /\ Cardinality(Workers) # 0
    BY PoolAssumption, FS_CardinalityType, FS_EmptySet
  <2> QED BY <2>1, <2>2 DEF Runnable, Slots
<1>5. workerPC[w] # "idle"
  <2>1. Range(workerQueue) = {}
    BY <1>1 DEF Range
  <2>2. dispWorker = None
    BY <1>1 DEF SlotInv, Acquired
  <2> QED BY <2>1, <2>2, PoolAssumption DEF Listed
<1>6. workerPC[w] \notin {"mirror", "report"}
  BY DEF Runnable
<1> QED BY <1>3, <1>4, <1>5, <1>6

\* A package that a wait counts is on its way.
LEMMA ActiveRuns ==
  ASSUME Inv, SlotInv, Listed, NEW p \in Active, mainPC # "enqueue"
  PROVE  Runnable
<1> USE DEF Inv, TypeOK
<1>1. p \in Packages /\ p # None
  BY PoolAssumption DEF Active
<1>2. stage[p] \in Stages \ {"pending", "released", "added"}
  BY <1>1 DEF Active, Places, Holders
<1>3. CASE stage[p] = "queued"
  <2>1. workQueue # <<>>
    BY <1>1, <1>3 DEF Places, Range
  <2> QED BY <2>1, DispatcherRuns
<1>4. CASE stage[p] = "dispatched"
  <2>1. dispPC # "select"
    BY <1>1, <1>4 DEF Places, Holders
  <2> QED BY <2>1, DispatcherRuns
<1>5. CASE stage[p] \in {"fetching", "fetched"}
  <2>1. \E w \in Workers : workerPC[w] \in {"mirror", "report"}
    BY <1>1, <1>5 DEF Places
  <2> QED BY <2>1 DEF Runnable
<1>6. CASE stage[p] \in {"writing", "written"}
  <2>1. handlerPC # "receive"
    BY <1>1, <1>6 DEF Places
  <2> QED BY <2>1 DEF Runnable
<1> QED BY <1>2, <1>3, <1>4, <1>5, <1>6 DEF Stages

\* A worker that the second wait counts is on its way to quit.
LEMMA StoppingRuns ==
  ASSUME Inv, SlotInv, NEW w \in Stopping
  PROVE  Runnable
<1> USE DEF Inv, TypeOK
<1>1. w \in Workers
  BY DEF Stopping
<1>2. CASE workerPC[w] = "register"
  <2>1. /\ workerQueue \in Seq(Workers)
        /\ IsInjective(workerQueue)
        /\ w \notin Range(workerQueue)
    BY <1>2 DEF SlotInv, Registered
  <2>2. Len(workerQueue) < Slots
    BY <1>1, <2>1, PoolAssumption, QueueIsShort DEF Slots
  <2> QED BY <1>1, <1>2, <2>2 DEF Runnable
<1>3. CASE workerPC[w] = "idle"
  BY <1>1, <1>3 DEF Stopping, Runnable
<1>4. CASE workerPC[w] \in {"mirror", "report", "quitting"}
  BY <1>1, <1>4 DEF Runnable
<1>5. workerPC[w] # "exited"
  BY <1>1 DEF Stopping, StopProgress
<1> QED BY <1>1, <1>2, <1>3, <1>4, <1>5

\* Whatever the number of workers and the capacity of workQueue, somebody can
\* go on until Start returns (npm/mirror.go, npm/worker.go).
THEOREM StartGetsOn == SafeSpec => []NeverAllBlocked
<1>1. Inv /\ SlotInv /\ Listed => NeverAllBlocked
  <2> SUFFICES ASSUME Inv, SlotInv, Listed, mainPC # "returned"
               PROVE  Runnable
    BY DEF NeverAllBlocked
  <2> USE DEF Inv, TypeOK
  <2>1. CASE mainPC \in {"dispatch", "stop"}
    BY <2>1 DEF Runnable
  <2>2. CASE mainPC = "enqueue"
    <3>1. CASE workQueue = <<>>
      <4>1. Len(workQueue) < QueueCapacity
        BY <3>1, PoolAssumption
      <4> QED BY <2>2, <4>1 DEF Runnable
    <3>2. CASE workQueue # <<>>
      BY <3>2, DispatcherRuns
    <3> QED BY <3>1, <3>2
  <2>3. CASE mainPC \in {"waitJobs", "waitWorkers"}
    <3>1. CASE wg = 0
      BY <2>3, <3>1 DEF Runnable, Waited
    <3>2. CASE Active # {}
      BY <2>3, <3>2, ActiveRuns
    <3>3. CASE Stopping # {}
      BY <3>3, StoppingRuns
    <3>4. Active = {} /\ Stopping = {} => wg = 0
      BY FS_EmptySet DEF Counted
    <3> QED BY <3>1, <3>2, <3>3, <3>4
  <2> QED BY <2>1, <2>2, <2>3
<1> QED BY Invariance, SlotInvariance, ListedInvariance, <1>1, PTL

-----------------------------------------------------------------------------
(* Start gets to an end: every step leaves fewer to take                   *)

\* What Remaining adds up are numbers, and small ones beside the packages.
LEMMA Sizes ==
  ASSUME Inv
  PROVE  /\ IsFiniteSet(Ahead) /\ Cardinality(Ahead) \in Nat
         /\ IsFiniteSet(Registering) /\ Cardinality(Registering) \in Nat
         /\ IsFiniteSet(unstopped) /\ Cardinality(unstopped) \in Nat
         /\ IsFiniteSet(unstopped \cup stopping)
         /\ Cardinality(unstopped \cup stopping) \in Nat
         /\ IsFiniteSet(Living) /\ Cardinality(Living) \in Nat
         /\ MainLeft \in 0 .. 4
<1>1. IsFiniteSet(Packages \X (1 .. 8))
  <2>1. IsFiniteSet(1 .. 8)
    <3>1. 1 \in Int /\ 8 \in Int
      OBVIOUS
    <3> QED BY <3>1, FS_Interval, Zenon
  <2> QED BY <2>1, PoolAssumption, FS_Product
<1>2. /\ Ahead \in SUBSET (Packages \X (1 .. 8))
      /\ Registering \in SUBSET Workers
      /\ unstopped \in SUBSET Workers
      /\ unstopped \cup stopping \in SUBSET Workers
      /\ Living \in SUBSET Workers
  BY DEF Inv, TypeOK, Ahead, Registering, Living
<1>3. MainLeft \in 0 .. 4
  BY DEF MainLeft
<1> QED BY <1>1, <1>2, <1>3, PoolAssumption, FS_Subset, FS_CardinalityType

\* A package that goes on by one stage has one step less ahead.
LEMMA PackageMoves ==
  ASSUME Inv, NEW p \in Packages, stage[p] # "released",
         \A q \in Packages \ {p} : stage'[q] = stage[q],
         Distance[stage'[p]] = Distance[stage[p]] - 1
  PROVE  Cardinality(Ahead') = Cardinality(Ahead) - 1
<1> DEFINE d == Distance[stage[p]]
<1>1. d \in Int /\ Distance[stage'[p]] = d - 1 /\ d \in 1 .. 8
  <2>1. stage[p] \in Stages
    BY DEF Inv, TypeOK
  <2>2. d \in 1 .. 8
    BY <2>1 DEF Stages, Distance
  <2> QED BY <2>2
<1>2. ASSUME NEW q \in Packages, NEW k \in 1 .. 8
      PROVE  <<q, k>> \in Ahead <=> k <= Distance[stage[q]]
  BY DEF Ahead
<1>3. ASSUME NEW q \in Packages, NEW k \in 1 .. 8
      PROVE  <<q, k>> \in Ahead' <=> k <= Distance[stage'[q]]
  BY DEF Ahead
<1> HIDE DEF d
<1>5. <<p, d>> \in Ahead
  <2>1. d <= Distance[stage[p]]
    BY <1>1 DEF d
  <2> QED BY <1>1, <1>2, <2>1
<1>6. ASSUME NEW q \in Packages, NEW k \in 1 .. 8
      PROVE  <<q, k>> \in Ahead' <=> <<q, k>> \in Ahead \ {<<p, d>>}
  <2>1. <<q, k>> = <<p, d>> <=> q = p /\ k = d
    OBVIOUS
  <2>2. CASE q = p
    <3>1. k <= d - 1 <=> k <= d /\ k # d
      BY <1>1
    <3> QED BY <1>1, <1>2, <1>3, <2>1, <2>2, <3>1 DEF d
  <2>3. CASE q # p
    BY <1>2, <1>3, <2>1, <2>3
  <2> QED BY <2>2, <2>3
<1>7. Ahead' = Ahead \ {<<p, d>>}
  <2>1. /\ Ahead \subseteq Packages \X (1 .. 8)
        /\ Ahead' \subseteq Packages \X (1 .. 8)
    BY DEF Ahead
  <2>2. ASSUME NEW x \in Packages \X (1 .. 8)
        PROVE  x \in Ahead' <=> x \in Ahead \ {<<p, d>>}
    <3>1. PICK q \in Packages, k \in 1 .. 8 : x = <<q, k>>
      OBVIOUS
    <3> QED BY <1>6, <3>1
  <2> QED BY <2>1, <2>2
<1> QED BY <1>5, <1>7, Sizes, FS_RemoveElement

\* Where the stages stay, so do the steps ahead.
LEMMA PackagesStay ==
  ASSUME stage' = stage
  PROVE  Cardinality(Ahead') = Cardinality(Ahead)
<1>1. Ahead' = Ahead
  BY DEF Ahead
<1> QED BY <1>1

\* A worker registers again only after a package, and exits once.
LEMMA WorkerMoves ==
  ASSUME Inv, NEW w \in Workers,
         \A v \in Workers \ {w} : workerPC'[v] = workerPC[v]
  PROVE  /\ Cardinality(Registering') =
              Cardinality(Registering)
                - (IF workerPC[w] = "register" THEN 1 ELSE 0)
                + (IF workerPC'[w] = "register" THEN 1 ELSE 0)
         /\ Cardinality(Living') =
              Cardinality(Living)
                - (IF workerPC[w] # "exited" THEN 1 ELSE 0)
                + (IF workerPC'[w] # "exited" THEN 1 ELSE 0)
<1>1. ASSUME NEW S, NEW T, IsFiniteSet(S), NEW was \in BOOLEAN,
             NEW is \in BOOLEAN, w \in S <=> was, w \in T <=> is,
             S \ {w} = T \ {w}
      PROVE  Cardinality(T) = Cardinality(S) - (IF was THEN 1 ELSE 0)
                                + (IF is THEN 1 ELSE 0)
  <2> DEFINE M == S \ {w}
  <2>1. IsFiniteSet(M) /\ Cardinality(M) \in Nat
    BY <1>1, FS_RemoveElement, FS_CardinalityType
  <2>2. Cardinality(S) = Cardinality(M) + (IF was THEN 1 ELSE 0)
    <3>1. CASE was
      <4>1. S = M \cup {w} /\ w \notin M
        BY <1>1, <3>1
      <4> HIDE DEF M
      <4> QED BY <2>1, <3>1, <4>1, FS_AddElement
    <3>2. CASE ~ was
      <4>1. S = M
        BY <1>1, <3>2
      <4> HIDE DEF M
      <4> QED BY <2>1, <3>2, <4>1
    <3> QED BY <3>1, <3>2
  <2>3. Cardinality(T) = Cardinality(M) + (IF is THEN 1 ELSE 0)
    <3>1. CASE is
      <4>1. T = M \cup {w} /\ w \notin M
        BY <1>1, <3>1
      <4> HIDE DEF M
      <4> QED BY <2>1, <3>1, <4>1, FS_AddElement
    <3>2. CASE ~ is
      <4>1. T = M
        BY <1>1, <3>2
      <4> HIDE DEF M
      <4> QED BY <2>1, <3>2, <4>1
    <3> QED BY <3>1, <3>2
  <2> HIDE DEF M
  <2> QED BY <2>1, <2>2, <2>3
<1>2. /\ w \in Registering <=> workerPC[w] = "register"
      /\ w \in Registering' <=> workerPC'[w] = "register"
      /\ Registering \ {w} = Registering' \ {w}
  BY DEF Inv, TypeOK, Registering
<1>3. /\ w \in Living <=> workerPC[w] # "exited"
      /\ w \in Living' <=> workerPC'[w] # "exited"
      /\ Living \ {w} = Living' \ {w}
  BY DEF Inv, TypeOK, Living
<1>4. IsFiniteSet(Registering) /\ IsFiniteSet(Living)
  BY Sizes
<1> QED BY <1>1, <1>2, <1>3, <1>4

\* Where the workers stay, so do their numbers.
LEMMA WorkersStay ==
  ASSUME workerPC' = workerPC
  PROVE  /\ Cardinality(Registering') = Cardinality(Registering)
         /\ Cardinality(Living') = Cardinality(Living)
<1>1. Registering' = Registering /\ Living' = Living
  BY DEF Registering, Living
<1> QED BY <1>1

\* wg.Add of a package.
LEMMA AddForward ==
  ASSUME Inv, NEW p \in Packages, AddPackage(p)
  PROVE  Remaining' < Remaining
<1>1. stage[p] = "pending" /\ stage' = [stage EXCEPT ![p] = "added"]
  BY DEF Inv, AddPackage, Places
<1>2. /\ \A q \in Packages \ {p} : stage'[q] = stage[q]
      /\ Distance[stage'[p]] = Distance[stage[p]] - 1
  BY <1>1 DEF Inv, TypeOK, Distance
<1>3. Cardinality(Ahead') = Cardinality(Ahead) - 1
  BY <1>1, <1>2, PackageMoves
<1>4. /\ Cardinality(Registering') = Cardinality(Registering)
      /\ Cardinality(Living') = Cardinality(Living)
  BY WorkersStay DEF AddPackage, workerVars
<1>5. MainLeft' = MainLeft
  BY DEF AddPackage, mainVars, MainLeft
<1>6. UNCHANGED <<unstopped, stopping, dispPC, handlerPC>>
  BY DEF AddPackage, mainVars, dispVars, handlerVars
<1> QED BY <1>3, <1>4, <1>5, <1>6, Sizes DEF Remaining

\* The steps that take a package one stage further, and what else they set off.
LEMMA PackageSteps ==
  ASSUME Inv, NEW w \in Workers,
         \/ Enqueue \/ ReceiveWork \/ HandOff(w)
         \/ MirrorPackage(w) \/ Report(w)
         \/ WriteResult \/ SignalDone
  PROVE  Remaining' < Remaining
<1>1. CASE Enqueue
  <2>1. /\ mainPkg \in Packages /\ stage[mainPkg] = "added"
        /\ stage' = [stage EXCEPT ![mainPkg] = "queued"]
    BY <1>1 DEF Inv, TypeOK, Enqueue, Places, Holders
  <2>2. /\ \A q \in Packages \ {mainPkg} : stage'[q] = stage[q]
        /\ Distance[stage'[mainPkg]] = Distance[stage[mainPkg]] - 1
    BY <2>1 DEF Inv, TypeOK, Distance
  <2>3. Cardinality(Ahead') = Cardinality(Ahead) - 1
    BY <2>1, <2>2, PackageMoves
  <2>4. /\ Cardinality(Registering') = Cardinality(Registering)
        /\ Cardinality(Living') = Cardinality(Living)
    BY <1>1, WorkersStay DEF Enqueue, workerVars
  <2>5. MainLeft' = MainLeft
    BY <1>1 DEF Enqueue, mainVars, MainLeft
  <2>6. UNCHANGED <<unstopped, stopping, dispPC, handlerPC>>
    BY <1>1 DEF Enqueue, mainVars, dispVars, handlerVars
  <2> QED BY <2>3, <2>4, <2>5, <2>6, Sizes DEF Remaining
<1>2. CASE ReceiveWork
  <2>1. /\ Head(workQueue) \in Packages
        /\ Head(workQueue) \in Range(workQueue)
    BY <1>2, TailHolds DEF Inv, TypeOK, ReceiveWork, Places
  <2>2. /\ stage[Head(workQueue)] = "queued"
        /\ stage' = [stage EXCEPT ![Head(workQueue)] = "dispatched"]
    BY <1>2, <2>1 DEF Inv, ReceiveWork, Places
  <2>3. /\ \A q \in Packages \ {Head(workQueue)} : stage'[q] = stage[q]
        /\ Distance[stage'[Head(workQueue)]] = Distance[stage[Head(workQueue)]] - 1
    BY <2>1, <2>2 DEF Inv, TypeOK, Distance
  <2>4. Cardinality(Ahead') = Cardinality(Ahead) - 1
    BY <2>1, <2>2, <2>3, PackageMoves
  <2>5. /\ Cardinality(Registering') = Cardinality(Registering)
        /\ Cardinality(Living') = Cardinality(Living)
    BY <1>2, WorkersStay DEF ReceiveWork, workerVars
  <2>6. MainLeft' = MainLeft
    BY <1>2 DEF ReceiveWork, mainVars, MainLeft
  <2>7. dispPC = "select" /\ UNCHANGED <<unstopped, stopping, handlerPC>>
    BY <1>2 DEF ReceiveWork, mainVars, dispVars, handlerVars
  <2> QED BY <2>4, <2>5, <2>6, <2>7, Sizes DEF Remaining
<1>3. CASE HandOff(w)
  <2>1. /\ dispWork \in Packages /\ stage[dispWork] = "dispatched"
        /\ stage' = [stage EXCEPT ![dispWork] = "fetching"]
    BY <1>3 DEF Inv, TypeOK, HandOff, Places, Holders
  <2>2. /\ \A q \in Packages \ {dispWork} : stage'[q] = stage[q]
        /\ Distance[stage'[dispWork]] = Distance[stage[dispWork]] - 1
    BY <2>1 DEF Inv, TypeOK, Distance
  <2>3. Cardinality(Ahead') = Cardinality(Ahead) - 1
    BY <2>1, <2>2, PackageMoves
  <2>4. /\ \A v \in Workers \ {w} : workerPC'[v] = workerPC[v]
        /\ workerPC[w] = "idle" /\ workerPC'[w] = "mirror"
    BY <1>3 DEF Inv, TypeOK, HandOff
  <2>5. /\ Cardinality(Registering') = Cardinality(Registering)
        /\ Cardinality(Living') = Cardinality(Living)
    BY <2>4, Sizes, WorkerMoves
  <2>6. MainLeft' = MainLeft
    BY <1>3 DEF HandOff, mainVars, MainLeft
  <2>7. dispPC' = "select" /\ UNCHANGED <<unstopped, stopping, handlerPC>>
    BY <1>3 DEF HandOff, mainVars, dispVars, handlerVars
  <2> QED BY <2>3, <2>5, <2>6, <2>7, Sizes DEF Remaining
<1>4. CASE MirrorPackage(w)
  <2>1. /\ work[w] \in Packages /\ stage[work[w]] = "fetching"
        /\ stage' = [stage EXCEPT ![work[w]] = "fetched"]
    BY <1>4 DEF Inv, TypeOK, MirrorPackage, Places, Holders
  <2>2. /\ \A q \in Packages \ {work[w]} : stage'[q] = stage[q]
        /\ Distance[stage'[work[w]]] = Distance[stage[work[w]]] - 1
    BY <2>1 DEF Inv, TypeOK, Distance
  <2>3. Cardinality(Ahead') = Cardinality(Ahead) - 1
    BY <2>1, <2>2, PackageMoves
  <2>4. /\ \A v \in Workers \ {w} : workerPC'[v] = workerPC[v]
        /\ workerPC[w] = "mirror" /\ workerPC'[w] = "report"
    BY <1>4 DEF Inv, TypeOK, MirrorPackage
  <2>5. /\ Cardinality(Registering') = Cardinality(Registering)
        /\ Cardinality(Living') = Cardinality(Living)
    BY <2>4, Sizes, WorkerMoves
  <2>6. MainLeft' = MainLeft
    BY <1>4 DEF MirrorPackage, mainVars, MainLeft
  <2>7. UNCHANGED <<unstopped, stopping, dispPC, handlerPC>>
    BY <1>4 DEF MirrorPackage, mainVars, dispVars, handlerVars
  <2> QED BY <2>3, <2>5, <2>6, <2>7, Sizes DEF Remaining
<1>5. CASE Report(w)
  <2>1. /\ work[w] \in Packages /\ stage[work[w]] = "fetched"
        /\ stage' = [stage EXCEPT ![work[w]] = "writing"]
    BY <1>5 DEF Inv, TypeOK, Report, Places, Holders
  <2>2. /\ \A q \in Packages \ {work[w]} : stage'[q] = stage[q]
        /\ Distance[stage'[work[w]]] = Distance[stage[work[w]]] - 1
    BY <2>1 DEF Inv, TypeOK, Distance
  <2>3. Cardinality(Ahead') = Cardinality(Ahead) - 1
    BY <2>1, <2>2, PackageMoves
  <2>4. /\ \A v \in Workers \ {w} : workerPC'[v] = workerPC[v]
        /\ workerPC[w] = "report" /\ workerPC'[w] = "register"
    BY <1>5 DEF Inv, TypeOK, Report
  <2>5. /\ Cardinality(Registering') = Cardinality(Registering) + 1
        /\ Cardinality(Living') = Cardinality(Living)
    BY <2>4, Sizes, WorkerMoves
  <2>6. MainLeft' = MainLeft
    BY <1>5 DEF Report, mainVars, MainLeft
  <2>7. handlerPC = "receive" /\ UNCHANGED <<unstopped, stopping, dispPC>>
    BY <1>5 DEF Report, mainVars, dispVars, handlerVars
  <2> QED BY <2>3, <2>5, <2>6, <2>7, Sizes DEF Remaining
<1>6. CASE WriteResult
  <2>1. /\ handPkg \in Packages /\ stage[handPkg] = "writing"
        /\ stage' = [stage EXCEPT ![handPkg] = "written"]
    BY <1>6 DEF Inv, TypeOK, WriteResult, Places, Holders
  <2>2. /\ \A q \in Packages \ {handPkg} : stage'[q] = stage[q]
        /\ Distance[stage'[handPkg]] = Distance[stage[handPkg]] - 1
    BY <2>1 DEF Inv, TypeOK, Distance
  <2>3. Cardinality(Ahead') = Cardinality(Ahead) - 1
    BY <2>1, <2>2, PackageMoves
  <2>4. /\ Cardinality(Registering') = Cardinality(Registering)
        /\ Cardinality(Living') = Cardinality(Living)
    BY <1>6, WorkersStay DEF WriteResult, workerVars
  <2>5. MainLeft' = MainLeft
    BY <1>6 DEF WriteResult, mainVars, MainLeft
  <2>6. handlerPC' = "signal" /\ UNCHANGED <<unstopped, stopping, dispPC>>
    BY <1>6 DEF WriteResult, mainVars, dispVars, handlerVars
  <2> QED BY <2>3, <2>4, <2>5, <2>6, Sizes DEF Remaining
<1>7. CASE SignalDone
  <2>1. /\ handPkg \in Packages /\ stage[handPkg] = "written"
        /\ stage' = [stage EXCEPT ![handPkg] = "released"]
    BY <1>7 DEF Inv, TypeOK, SignalDone, Places, Holders
  <2>2. /\ \A q \in Packages \ {handPkg} : stage'[q] = stage[q]
        /\ Distance[stage'[handPkg]] = Distance[stage[handPkg]] - 1
    BY <2>1 DEF Inv, TypeOK, Distance
  <2>3. Cardinality(Ahead') = Cardinality(Ahead) - 1
    BY <2>1, <2>2, PackageMoves
  <2>4. /\ Cardinality(Registering') = Cardinality(Registering)
        /\ Cardinality(Living') = Cardinality(Living)
    BY <1>7, WorkersStay DEF SignalDone, workerVars
  <2>5. MainLeft' = MainLeft
    BY <1>7 DEF SignalDone, mainVars, MainLeft
  <2>6. handlerPC' = "receive" /\ UNCHANGED <<unstopped, stopping, dispPC>>
    BY <1>7 DEF SignalDone, mainVars, dispVars, handlerVars
  <2> QED BY <2>3, <2>4, <2>5, <2>6, Sizes DEF Remaining
<1> QED BY <1>1, <1>2, <1>3, <1>4, <1>5, <1>6, <1>7

\* The steps that move no package.
LEMMA OtherSteps ==
  ASSUME Inv, NEW w \in Workers,
         \/ AllDispatched \/ JobsFinished \/ StopWorker(w) \/ AllStopped
         \/ WorkersFinished
         \/ AcquireWorker \/ Register(w) \/ Quit(w) \/ WorkerDone(w)
         \/ RemoveFiles
  PROVE  Remaining' < Remaining
<1>1. CASE AllDispatched \/ JobsFinished \/ AllStopped \/ WorkersFinished
  <2>1. MainLeft' = MainLeft - 1
    BY <1>1
    DEF AllDispatched, JobsFinished, AllStopped, WorkersFinished, MainLeft
  <2>2. UNCHANGED <<stage, workerPC, unstopped, stopping, dispPC, handlerPC>>
    BY <1>1
    DEF AllDispatched, JobsFinished, AllStopped, WorkersFinished, workerVars,
        dispVars, handlerVars, history
  <2>3. Cardinality(Ahead') = Cardinality(Ahead)
    BY <2>2, PackagesStay
  <2>4. /\ Cardinality(Registering') = Cardinality(Registering)
        /\ Cardinality(Living') = Cardinality(Living)
    BY <2>2, WorkersStay
  <2> QED BY <2>1, <2>2, <2>3, <2>4, Sizes DEF Remaining
<1>2. CASE StopWorker(w)
  <2>1. MainLeft' = MainLeft
    BY <1>2 DEF StopWorker, mainVars, MainLeft
  <2>2. Cardinality(Ahead') = Cardinality(Ahead)
    BY <1>2, PackagesStay DEF StopWorker, history
  <2>3. /\ Cardinality(Registering') = Cardinality(Registering)
        /\ Cardinality(Living') = Cardinality(Living)
    BY <1>2, WorkersStay DEF StopWorker, workerVars
  <2>4. Cardinality(unstopped') = Cardinality(unstopped) - 1
    BY <1>2, Sizes, FS_RemoveElement DEF StopWorker
  <2>5. Cardinality((unstopped \cup stopping)')
          = Cardinality(unstopped \cup stopping)
    <3>1. (unstopped \cup stopping)' = unstopped \cup stopping
      BY <1>2 DEF StopWorker
    <3> QED BY <3>1
  <2>6. UNCHANGED <<dispPC, handlerPC>>
    BY <1>2 DEF StopWorker, mainVars, dispVars, handlerVars
  <2> QED BY <2>1, <2>2, <2>3, <2>4, <2>5, <2>6, Sizes DEF Remaining
<1>3. CASE AcquireWorker
  <2>1. MainLeft' = MainLeft
    BY <1>3 DEF AcquireWorker, mainVars, MainLeft
  <2>2. Cardinality(Ahead') = Cardinality(Ahead)
    BY <1>3, PackagesStay DEF AcquireWorker, history
  <2>3. /\ Cardinality(Registering') = Cardinality(Registering)
        /\ Cardinality(Living') = Cardinality(Living)
    BY <1>3, WorkersStay DEF AcquireWorker, workerVars
  <2>4. /\ dispPC = "acquire" /\ dispPC' = "handOff"
        /\ UNCHANGED <<unstopped, stopping, handlerPC>>
    BY <1>3 DEF AcquireWorker, mainVars, dispVars, handlerVars
  <2> QED BY <2>1, <2>2, <2>3, <2>4, Sizes DEF Remaining
<1>4. CASE Register(w)
  <2>1. MainLeft' = MainLeft
    BY <1>4 DEF Register, mainVars, MainLeft
  <2>2. Cardinality(Ahead') = Cardinality(Ahead)
    BY <1>4, PackagesStay DEF Register, history
  <2>3. /\ Cardinality(Registering') = Cardinality(Registering) - 1
        /\ Cardinality(Living') = Cardinality(Living)
    <3>1. /\ \A v \in Workers \ {w} : workerPC'[v] = workerPC[v]
          /\ workerPC[w] = "register" /\ workerPC'[w] = "idle"
      BY <1>4 DEF Inv, TypeOK, Register
    <3> QED BY <3>1, Sizes, WorkerMoves
  <2>4. UNCHANGED <<unstopped, stopping, dispPC, handlerPC>>
    BY <1>4 DEF Register, mainVars, dispVars, handlerVars
  <2> QED BY <2>1, <2>2, <2>3, <2>4, Sizes DEF Remaining
<1>5. CASE Quit(w)
  <2>1. MainLeft' = MainLeft
    BY <1>5 DEF Quit, mainVars, MainLeft
  <2>2. Cardinality(Ahead') = Cardinality(Ahead)
    BY <1>5, PackagesStay DEF Quit, history
  <2>3. /\ Cardinality(Registering') = Cardinality(Registering)
        /\ Cardinality(Living') = Cardinality(Living)
    <3>1. /\ \A v \in Workers \ {w} : workerPC'[v] = workerPC[v]
          /\ workerPC[w] = "idle" /\ workerPC'[w] = "quitting"
      BY <1>5 DEF Inv, TypeOK, Quit
    <3> QED BY <3>1, Sizes, WorkerMoves
  <2>4. /\ w \in unstopped \cup stopping
        /\ unstopped' \cup stopping' = (unstopped \cup stopping) \ {w}
    BY <1>5 DEF Inv, Quit, StopProgress, mainVars
  <2>5. Cardinality(unstopped' \cup stopping')
          = Cardinality(unstopped \cup stopping) - 1
    BY <2>4, Sizes, FS_RemoveElement
  <2>6. UNCHANGED <<unstopped, dispPC, handlerPC>>
    BY <1>5 DEF Quit, mainVars, dispVars, handlerVars
  <2> QED BY <2>1, <2>2, <2>3, <2>4, <2>5, <2>6, Sizes DEF Remaining
<1>6. CASE WorkerDone(w)
  <2>1. MainLeft' = MainLeft
    BY <1>6 DEF WorkerDone, mainVars, MainLeft
  <2>2. Cardinality(Ahead') = Cardinality(Ahead)
    BY <1>6, PackagesStay DEF WorkerDone, history
  <2>3. /\ Cardinality(Registering') = Cardinality(Registering)
        /\ Cardinality(Living') = Cardinality(Living) - 1
    <3>1. /\ \A v \in Workers \ {w} : workerPC'[v] = workerPC[v]
          /\ workerPC[w] = "quitting" /\ workerPC'[w] = "exited"
      BY <1>6 DEF Inv, TypeOK, WorkerDone
    <3> QED BY <3>1, Sizes, WorkerMoves
  <2>4. UNCHANGED <<unstopped, stopping, dispPC, handlerPC>>
    BY <1>6 DEF WorkerDone, mainVars, dispVars, handlerVars
  <2> QED BY <2>1, <2>2, <2>3, <2>4, Sizes DEF Remaining
<1>7. CASE RemoveFiles
  <2>1. MainLeft' = MainLeft
    BY <1>7 DEF RemoveFiles, mainVars, MainLeft
  <2>2. Cardinality(Ahead') = Cardinality(Ahead)
    BY <1>7, PackagesStay DEF RemoveFiles, history
  <2>3. /\ Cardinality(Registering') = Cardinality(Registering)
        /\ Cardinality(Living') = Cardinality(Living)
    BY <1>7, WorkersStay DEF RemoveFiles, workerVars
  <2>4. /\ handlerPC = "remove" /\ handlerPC' = "write"
        /\ UNCHANGED <<unstopped, stopping, dispPC>>
    BY <1>7 DEF RemoveFiles, mainVars, dispVars, handlerVars
  <2> QED BY <2>1, <2>2, <2>3, <2>4, Sizes DEF Remaining
<1> QED BY <1>1, <1>2, <1>3, <1>4, <1>5, <1>6, <1>7

\* Eight stages for each package and what they set off, four steps for each
\* worker and four of main's own: a call of Start cannot take more.
LEMMA RemainingAtFirst ==
  ASSUME Init
  PROVE  Remaining = 24 * Cardinality(Packages) + 4 * Cardinality(Workers) + 4
<1>1. Ahead = Packages \X (1 .. 8)
  <2>1. ASSUME NEW x \in Packages \X (1 .. 8)
        PROVE  x[2] <= Distance[stage[x[1]]]
    <3>1. x[1] \in Packages /\ x[2] \in 1 .. 8
      OBVIOUS
    <3>2. stage[x[1]] = "pending"
      BY <3>1 DEF Init
    <3> QED BY <3>1, <3>2 DEF Distance
  <2> QED BY <2>1 DEF Ahead
<1>2. Cardinality(Packages) \in Nat /\ Cardinality(Workers) \in Nat
  BY PoolAssumption, FS_CardinalityType
<1>3. Cardinality(Ahead) = 8 * Cardinality(Packages)
  <2>1. IsFiniteSet(1 .. 8) /\ Cardinality(1 .. 8) = 8
    <3>1. 1 \in Int /\ 8 \in Int /\ ~ (1 > 8) /\ 8 - 1 + 1 = 8
      OBVIOUS
    <3>2. /\ IsFiniteSet(1 .. 8)
          /\ Cardinality(1 .. 8) = IF 1 > 8 THEN 0 ELSE 8 - 1 + 1
      BY <3>1, FS_Interval, Zenon
    <3> QED BY <3>1, <3>2
  <2>2. Cardinality(Packages \X (1 .. 8))
          = Cardinality(Packages) * Cardinality(1 .. 8)
    BY <2>1, PoolAssumption, FS_Product
  <2> QED BY <1>1, <1>2, <2>1, <2>2
<1>4. /\ Registering = Workers /\ Living = Workers /\ unstopped = Workers
      /\ unstopped \cup stopping = Workers
  BY DEF Init, Registering, Living
<1>5. /\ Cardinality(Registering) = Cardinality(Workers)
      /\ Cardinality(Living) = Cardinality(Workers)
      /\ Cardinality(unstopped) = Cardinality(Workers)
      /\ Cardinality(unstopped \cup stopping) = Cardinality(Workers)
  BY <1>4
<1>6. MainLeft = 4 /\ dispPC # "acquire" /\ handlerPC # "remove"
  BY DEF Init, MainLeft
<1> QED BY <1>2, <1>3, <1>5, <1>6 DEF Remaining

\* A call of Start cannot take more steps than this.
StepsAtMost == 24 * Cardinality(Packages) + 4 * Cardinality(Workers) + 4

\* Every step of every goroutine leaves fewer steps to take, and their number
\* never falls below 0: however the goroutines interleave, a call of Start takes
\* no more than StepsAtMost of them, for any number of packages and workers
\* (npm/mirror.go:74-171).  With StartGetsOn it ends by returning.
THEOREM StartGoesForward ==
  SafeSpec => AlwaysForward /\ [](Remaining \in 0 .. StepsAtMost)
<1>1. Inv /\ [Next]_vars => [Remaining' < Remaining]_vars
  <2> SUFFICES ASSUME Inv, Next, ~ UNCHANGED vars
               PROVE  Remaining' < Remaining
    OBVIOUS
  <2>1. PICK v \in Workers : TRUE
    BY PoolAssumption
  <2>2. ASSUME NEW p \in Packages
        PROVE  AddPackage(p) => Remaining' < Remaining
    BY AddForward
  <2>3. ASSUME NEW w \in Workers
        PROVE  /\ StopWorker(w) \/ Worker(w) => Remaining' < Remaining
               /\ HandOff(w) => Remaining' < Remaining
    BY PackageSteps, OtherSteps DEF Worker
  <2> QED
    BY <2>1, <2>2, <2>3, PackageSteps, OtherSteps
    DEF Next, Main, Dispatcher, Handler, Returned
<1>2. Inv => Remaining \in Nat
  <2> SUFFICES ASSUME Inv PROVE Remaining \in Nat
    OBVIOUS
  <2> QED BY Sizes DEF Remaining
<1>3. StepsAtMost \in Nat
  BY PoolAssumption, FS_CardinalityType DEF StepsAtMost
<1>4. Init => Remaining = StepsAtMost
  BY RemainingAtFirst DEF StepsAtMost
<1>5. UNCHANGED vars => Remaining' = Remaining
  BY DEF vars, mainVars, channels, dispVars, workerVars, handlerVars, history,
         Remaining, Ahead, MainLeft, Registering, Living
<1> DEFINE Bounded == Remaining \in 0 .. StepsAtMost
<1>6. Init /\ Inv => Bounded
  BY <1>2, <1>3, <1>4
<1>7. Inv /\ (Remaining \in Nat)' /\ Bounded /\ [Next]_vars => Bounded'
  <2>1. StepsAtMost' = StepsAtMost
    BY DEF StepsAtMost
  <2>2. Inv /\ [Next]_vars => Remaining' < Remaining \/ Remaining' = Remaining
    BY <1>1, <1>5
  <2> QED BY <1>2, <1>3, <2>1, <2>2
<1> QED BY Invariance, <1>1, <1>2, <1>6, <1>7, PTL DEF SafeSpec, AlwaysForward

=============================================================================
