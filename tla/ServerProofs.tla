---------------------------- MODULE ServerProofs ----------------------------
(***************************************************************************)
(* Proofs about Server: nothing is answered before it is stored, and which *)
(* clients that are told 304 have the current document, however requests   *)
(* interleave with the transactions of the mirror.                         *)
(***************************************************************************)
EXTENDS Server, SequenceProofs

allVars == <<vars, serverVars>>

\* A request changes nothing for the mirror.
LEMMA ServerSteps ==
  ASSUME [ServerNext]_allVars
  PROVE  [Next]_vars
BY DEF ServerNext, allVars, MirrorStep, NotModified, ReadRevision, Lookup,
   ReadDocument, Fill, Evict

\* What holds of the mirror holds beside the server.
LEMMA ServerIsMirror == ServerSpec => SafeSpec
<1>1. ServerInit => Init
  BY DEF ServerInit
<1>2. [ServerNext]_<<vars, serverVars>> => [Next]_vars
  BY ServerSteps DEF allVars
<1> QED BY <1>1, <1>2, PTL DEF ServerSpec, SafeSpec

-----------------------------------------------------------------------------
(* Types                                                                   *)

RequestRecords ==
  [step : {"none", "lookup", "read", "fill"}, name : Names \cup {Absent},
   tag : Nat, settled : BOOLEAN, body : Documents]

Copies == {Absent} \cup [tag : Nat, body : Documents, source : Sources]

\* A request has a name while it is under way, and a body while it fills the
\* cache.
ServerTypes ==
  /\ cache \in [Names -> (Documents \ {0}) \cup {Absent}]
  /\ request \in [Clients -> RequestRecords]
  /\ \A c \in Clients :
       /\ request[c].step # "none" => request[c].name \in Names
       /\ request[c].body # 0 <=> request[c].step = "fill"
  /\ copy \in [Clients -> [Names -> Copies]]

\* A client that has asked nothing has a request record.
LEMMA NoRequestType == NoRequest \in RequestRecords
BY DEF NoRequest, RequestRecords, Documents

\* The types hold when the server starts.
LEMMA InitServerTypes == ServerInit => ServerTypes
BY NoRequestType
DEF ServerInit, ServerTypes, EmptyCache, NoRequest, Copies

\* The client gets a copy and its request ends.
LEMMA AnswerTypes ==
  ASSUME ServerTypes, NEW c \in Clients, NEW body \in Documents,
         NEW source \in Sources, request[c].step # "none",
         Answer(c, body, source)
  PROVE  /\ request' = [request EXCEPT ![c] = NoRequest]
         /\ copy'[c][request[c].name] =
              [tag |-> request[c].tag, body |-> body, source |-> source]
         /\ \A d \in Clients, p \in Names :
              d # c \/ p # request[c].name => copy'[d][p] = copy[d][p]
         /\ copy' \in [Clients -> [Names -> Copies]]
<1> DEFINE answered == [tag |-> request[c].tag, body |-> body, source |-> source]
<1>1. answered \in Copies /\ request[c].name \in Names
  BY DEF ServerTypes, RequestRecords, Copies
<1>2. copy' = [copy EXCEPT ![c][request[c].name] = answered]
  BY DEF Answer, AnswerTag
<1> HIDE DEF answered
<1>3. /\ copy'[c][request[c].name] = answered
      /\ \A d \in Clients, p \in Names :
           d # c \/ p # request[c].name => copy'[d][p] = copy[d][p]
      /\ copy' \in [Clients -> [Names -> Copies]]
  BY <1>1, <1>2 DEF ServerTypes
<1> QED BY <1>3 DEF answered, Answer

\* RequestRecords that end leave the other requests' types.
LEMMA EndedTypes ==
  ASSUME ServerTypes, NEW c \in Clients,
         request' = [request EXCEPT ![c] = NoRequest]
  PROVE  /\ request' \in [Clients -> RequestRecords]
         /\ \A d \in Clients :
              /\ request'[d].step # "none" => request'[d].name \in Names
              /\ request'[d].body # 0 <=> request'[d].step = "fill"
<1>1. NoRequest.step = "none" /\ NoRequest.body = 0
  BY DEF NoRequest
<1>2. \A d \in Clients : request'[d] = IF d = c THEN NoRequest ELSE request[d]
  BY DEF ServerTypes
<1> QED BY <1>1, <1>2, NoRequestType DEF ServerTypes

\* What the database has as a document can be answered.
LEMMA StoredDocuments ==
  ASSUME Inv, NEW p \in Names
  PROVE  DocumentOf(p) \in Documents /\ GetRevision(p) \in Nat
BY Constants
DEF Inv, TypeInv, TypeOK, StoreTypeOK, DocumentOf, Documents, GetRevision

\* Every step keeps the types.
LEMMA NextServerTypes ==
  ASSUME Inv, ServerTypes, [ServerNext]_allVars
  PROVE  ServerTypes'
<1>1. CASE MirrorStep
  <2>1. /\ copy' = copy
        /\ request' \in {request, [c \in Clients |-> NoRequest]}
    BY <1>1 DEF MirrorStep
  <2>2. cache' \in [Names -> (Documents \ {0}) \cup {Absent}]
    BY <1>1 DEF MirrorStep, EmptyCache, CacheAfterPut, ServerTypes
  <2>3. NoRequest.step = "none" /\ NoRequest.body = 0
    BY DEF NoRequest
  <2> QED BY <2>1, <2>2, <2>3, NoRequestType DEF ServerTypes
<1>2. CASE UNCHANGED serverVars
  BY <1>2 DEF ServerTypes, serverVars
<1>3. ASSUME NEW c \in Clients, NEW p \in Names, ReadRevision(c, p)
      PROVE  ServerTypes'
  <2> DEFINE asked == [step |-> "lookup", name |-> p, tag |-> GetRevision(p),
                       settled |-> marks[p] = MarkComplete, body |-> 0]
  <2>1. asked \in RequestRecords
    BY StoredDocuments DEF RequestRecords, Documents
  <2>2. request' = [request EXCEPT ![c] = asked] /\ UNCHANGED <<cache, copy>>
    BY <1>3 DEF ReadRevision
  <2>3. asked.name = p /\ asked.body = 0 /\ asked.step = "lookup"
    OBVIOUS
  <2> HIDE DEF asked
  <2> QED BY <2>1, <2>2, <2>3 DEF ServerTypes
<1>4. ASSUME NEW c \in Clients, Lookup(c)
      PROVE  ServerTypes'
  <2>1. request[c].name \in Names /\ cache' = cache
    BY <1>4 DEF Lookup, ServerTypes
  <2>2. CASE cache[request[c].name] # Absent
    <3>1. cache[request[c].name] \in Documents
      BY <2>1, <2>2 DEF ServerTypes
    <3>2. Answer(c, cache[request[c].name], "cache") /\ request[c].step # "none"
      BY <1>4, <2>2 DEF Lookup
    <3>3. "cache" \in Sources
      BY DEF Sources
    <3> QED BY <2>1, <3>1, <3>2, <3>3, AnswerTypes, EndedTypes DEF ServerTypes
  <2>3. CASE cache[request[c].name] = Absent
    <3>1. /\ request' = [request EXCEPT ![c].step = "read"] /\ copy' = copy
          /\ request[c].step = "lookup"
      BY <1>4, <2>3 DEF Lookup
    <3> QED BY <2>1, <3>1 DEF ServerTypes, RequestRecords
  <2> QED BY <2>2, <2>3
<1>5. ASSUME NEW c \in Clients, ReadDocument(c)
      PROVE  ServerTypes'
  <2> DEFINE p == request[c].name
  <2>1. p \in Names /\ cache' = cache /\ request[c].step = "read"
    BY <1>5 DEF ReadDocument, ServerTypes
  <2>2. /\ DocumentOf(p) \in Documents
        /\ AsTagged(c) \in BOOLEAN /\ Source(AsTagged(c)) \in Sources
    BY <2>1, StoredDocuments
    DEF ServerTypes, RequestRecords, AsTagged, Source, Sources
  <2>3. CASE request' = [request EXCEPT ![c] = NoRequest] /\ copy' = copy
    BY <2>1, <2>3, EndedTypes DEF ServerTypes
  <2>4. CASE Answer(c, DocumentOf(p), Source(AsTagged(c)))
    BY <2>1, <2>2, <2>4, AnswerTypes, EndedTypes DEF ServerTypes
  <2>5. CASE /\ DocumentOf(p) # 0
             /\ request' = [request EXCEPT ![c].step = "fill",
                                           ![c].settled = AsTagged(c),
                                           ![c].body = DocumentOf(p)]
             /\ copy' = copy
    BY <2>1, <2>2, <2>5 DEF ServerTypes, RequestRecords
  <2> QED BY <1>5, <2>3, <2>4, <2>5 DEF ReadDocument, Cacheable
<1>6. ASSUME NEW c \in Clients, Fill(c)
      PROVE  ServerTypes'
  <2>1. /\ request[c].name \in Names
        /\ request[c].body \in Documents \ {0}
        /\ Source(request[c].settled) \in Sources
        /\ request[c].step # "none"
        /\ Answer(c, request[c].body, Source(request[c].settled))
    BY <1>6 DEF Fill, ServerTypes, RequestRecords, Source, Sources
  <2>2. cache' \in [Names -> (Documents \ {0}) \cup {Absent}]
    BY <1>6, <2>1 DEF Fill, ServerTypes
  <2> QED BY <2>1, <2>2, AnswerTypes, EndedTypes DEF ServerTypes
<1>7. ASSUME NEW p \in Names, Evict(p)
      PROVE  ServerTypes'
  BY <1>7 DEF Evict, ServerTypes
<1> QED
  BY <1>1, <1>2, <1>3, <1>4, <1>5, <1>6, <1>7
  DEF ServerNext, NotModified, allVars

\* The types of mirror and server together.
LEMMA ServerTypesInvariance == ServerSpec => [](Inv /\ ServerTypes)
<1>1. Inv /\ ServerTypes /\ [ServerNext]_<<vars, serverVars>> => ServerTypes'
  BY NextServerTypes DEF allVars
<1> QED
  BY InitServerTypes, ServerIsMirror, Invariance, <1>1, PTL DEF ServerSpec

\* Nothing is kept in memory, answered or remembered by a client but documents
\* and what passes for one; an empty body never is in the cache
\* (database.go:320).
THEOREM ServerTypeCorrect == ServerSpec => []ServerTypeOK
<1>1. ServerTypes => ServerTypeOK
  BY DEF ServerTypes, ServerTypeOK, RequestRecords, Copies
<1> QED BY ServerTypesInvariance, <1>1, PTL

-----------------------------------------------------------------------------
(* What one step of the mirror does to one package                         *)

Moves(p) ==
  /\ up'[p].rev \in Nat /\ up'[p].rev >= up[p].rev
  /\ \/ documents'[p] \in {documents[p], Absent}
     \/ at[p] = "ready" /\ documents'[p] = fetched[p]
  /\ \/ packages'[p] \in {packages[p], batch[p], Absent}
     \/ at[p] = "ready" /\ packages'[p] = RevisionOf(fetched[p])
  /\ batch'[p] \in {batch[p], up[p].rev, Absent}
  /\ at'[p] \in {"fetched", "ready"} =>
       \/ at[p] \in {"fetched", "ready"} /\ fetched'[p] = fetched[p]
       \/ fetched'[p] \in {up[p].rev, 0, StatusBody, NotFound}
  /\ marks[p] = MarkComplete =>
       /\ documents'[p] = documents[p]
       /\ \/ marks'[p] = MarkComplete /\ packages'[p] = packages[p]
          \/ /\ batch[p] # Absent /\ packages'[p] = batch[p]
             /\ batch'[p] = Absent /\ at'[p] = "idle"

\* A step that leaves registry, database, batch and round alone.
LEMMA QuietMoves ==
  ASSUME Inv, NEW p \in Names,
         UNCHANGED <<registry, buckets, batch, round>>
  PROVE  Moves(p)
BY RevisionTypes DEF Moves, registry, buckets, round

\* A package that is written is not complete.
LEMMA WriteMoves ==
  ASSUME Inv, NEW p \in Names, NEW q \in Names,
         WriteCompleted(q) \/ DropPackage(q)
  PROVE  Moves(p)
<1> USE DEF Inv, TypeInv, TypeOK, StoreTypeOK
<1>1. UNCHANGED <<registry, batch>>
  BY DEF WriteCompleted, DropPackage, pending
<1>2. marks[q] # MarkComplete
  BY Constants DEF Kept, RoundKept, WriteCompleted, DropPackage
<1>3. /\ at'[q] = "idle"
      /\ p # q => at'[p] = at[p] /\ fetched'[p] = fetched[p]
  BY DEF WriteCompleted, DropPackage, Settle
<1>4. p # q => /\ packages'[p] = packages[p]
               /\ documents'[p] = documents[p]
               /\ marks'[p] = marks[p]
  BY DEF WriteCompleted, DropPackage, PutCompleted, PutCompletedPartly,
     PutRevision, DeletePackage, storeVars, buckets
<1>5. \/ documents'[q] \in {documents[q], Absent}
      \/ at[q] = "ready" /\ documents'[q] = fetched[q]
  BY DEF WriteCompleted, DropPackage, PutCompleted, PutCompletedPartly,
     DeletePackage, storeVars, buckets
<1>6. \/ packages'[q] \in {packages[q], Absent}
      \/ at[q] = "ready" /\ packages'[q] = RevisionOf(fetched[q])
  BY DEF WriteCompleted, DropPackage, PutCompleted, PutCompletedPartly,
     PutRevision, DeletePackage, storeVars, buckets
<1> QED
  BY <1>1, <1>2, <1>3, <1>4, <1>5, <1>6, RevisionTypes DEF Moves, registry

\* No step of the mirror takes a package any way but those Moves names.
LEMMA MirrorMoves ==
  ASSUME Inv, [Next]_vars, NEW p \in Names
  PROVE  Moves(p)
<1> USE DEF Inv, TypeInv, TypeOK, StoreTypeOK
<1>1. ASSUME NEW q \in Names, NEW delete \in BOOLEAN, Change(q, delete)
      PROVE  Moves(p)
  <2>1. up'[p].rev \in Nat /\ up'[p].rev >= up[p].rev
    BY <1>1 DEF Change
  <2> QED BY <1>1, <2>1 DEF Change, Moves, storeVars, buckets, pending, round
<1>2. CASE Restart \/ LoadStats \/ LoadMarks \/ Gate \/ UpToDate \/ EndRound
             \/ Initialize \/ SaveSequence \/ UNCHANGED vars
  BY <1>2, QuietMoves
  DEF Restart, LoadStats, LoadMarks, Gate, UpToDate, EndRound, Initialize,
      InitBuckets, SaveSequence, SetSequence, vars, storeVars, pending
<1>3. CASE GetAllDocs \/ Poll
  BY <1>3, RevisionTypes
  DEF GetAllDocs, Poll, Moves, registry, storeVars, buckets, round
<1>4. CASE PutBatch
  <2>1. at[p] = "idle"
    BY <1>4, OutsideRound DEF PutBatch, Kept
  <2> QED
    BY <1>4, <2>1, RevisionTypes
    DEF PutBatch, PutPackages, NoBatch, Moves, registry, round
<1>5. CASE StartRound \/ Die
  BY <1>5, RevisionTypes
  DEF StartRound, Die, NoBatch, Moves, registry, storeVars, buckets, pending
<1>6. ASSUME NEW q \in Names, GetDocument(q)
      PROVE  Moves(p)
  <2>1. UNCHANGED <<registry, buckets, batch>>
    BY <1>6 DEF GetDocument, storeVars, pending
  <2>2. p # q => at'[p] = at[p] /\ fetched'[p] = fetched[p]
    BY <1>6 DEF GetDocument
  <2>3. fetched'[q] \in {up[q].rev, 0, StatusBody, NotFound}
    BY <1>6 DEF GetDocument, Answers
  <2> QED BY <2>1, <2>2, <2>3, RevisionTypes DEF Moves, registry, buckets
<1>7. ASSUME NEW q \in Names, Download(q) \/ RemoveFiles(q)
      PROVE  Moves(p)
  <2>1. UNCHANGED <<registry, buckets, batch, fetched>>
    BY <1>7 DEF Download, RemoveFiles, storeVars, pending
  <2>2. at'[p] \in {"fetched", "ready"} => at[p] \in {"fetched", "ready"}
    BY <1>7 DEF Download, RemoveFiles
  <2> QED BY <2>1, <2>2, RevisionTypes DEF Moves, registry, buckets
<1>8. ASSUME NEW q \in Names, Job(q)
      PROVE  Moves(p)
  BY <1>6, <1>7, <1>8, WriteMoves DEF Job
<1> QED
  BY <1>1, <1>2, <1>3, <1>4, <1>5, <1>8
  DEF Next, Registry, Process, Fault, OneTime, Blocked, Crash, AllDocsFails,
      CommitFails, ChangesFail

-----------------------------------------------------------------------------
(* Nothing is served that is newer than what is stored                     *)

\* Of p nothing newer than the value d was stored or is about to be.
NotAhead(p, d) ==
  d \in Nat =>
    /\ d <= up[p].rev
    /\ documents[p] \in Nat \ {0} => d <= documents[p]
    /\ at[p] \in {"fetched", "ready"} /\ fetched[p] \in Nat \ {0} =>
         d <= fetched[p]

\* The document that is stored, the cached one, those that requests are about
\* to cache and those that clients keep.
BodiesInv ==
  /\ \A p \in Names : NotAhead(p, documents[p]) /\ NotAhead(p, cache[p])
  /\ \A c \in Clients :
       request[c].step = "fill" => NotAhead(request[c].name, request[c].body)
  /\ \A c \in Clients, p \in Names :
       copy[c][p] # Absent => NotAhead(p, copy[c][p].body)

AheadInv == Inv /\ DocumentInv /\ ServerTypes /\ BodiesInv

\* Whatever the registry changes or a request for a document answers comes
\* later, and what is stored was fetched.
LEMMA StillNotAhead ==
  ASSUME Inv, [Next]_vars, NEW p \in Names, NEW d, NotAhead(p, d)
  PROVE  NotAhead(p, d)'
BY MirrorMoves, RevisionTypes, Constants DEF Moves, NotAhead

\* What is stored was fetched before, and what is fetched later is no older.
LEMMA StoredNotAhead ==
  ASSUME Inv, DocumentInv, [Next]_vars, NEW p \in Names,
         NotAhead(p, documents[p])
  PROVE  NotAhead(p, documents[p])'
<1>1. CASE documents'[p] = documents[p]
  BY <1>1, MirrorMoves, RevisionTypes, Constants DEF Moves, NotAhead
<1>2. CASE documents'[p] = Absent
  BY <1>2, Constants DEF NotAhead
<1>3. CASE at[p] = "ready" /\ documents'[p] = fetched[p]
  <2>1. fetched[p] \in Nat \ {0} => fetched[p] <= up[p].rev
    BY <1>3 DEF DocumentInv, DocumentOK, ServedOnce
  <2>2. up'[p].rev \in Nat /\ up'[p].rev >= up[p].rev
    BY MirrorMoves DEF Moves
  <2>3. \/ fetched'[p] = fetched[p]
        \/ at'[p] \notin {"fetched", "ready"}
        \/ fetched'[p] \in {up[p].rev, 0, StatusBody, NotFound}
    BY MirrorMoves DEF Moves
  <2> QED BY <1>3, <2>1, <2>2, <2>3, RevisionTypes, Constants DEF NotAhead
<1> QED BY <1>1, <1>2, <1>3, MirrorMoves DEF Moves

\* The client that is answered gets a body that is not ahead.
LEMMA AnswerBodies ==
  ASSUME ServerTypes, BodiesInv, UNCHANGED <<vars, cache>>,
         NEW c \in Clients, NEW body \in Documents, NEW source \in Sources,
         request[c].step # "none", Answer(c, body, source),
         NotAhead(request[c].name, body)
  PROVE  BodiesInv'
<1>1. /\ request' = [request EXCEPT ![c] = NoRequest]
      /\ copy'[c][request[c].name].body = body
      /\ \A d \in Clients, p \in Names :
           d # c \/ p # request[c].name => copy'[d][p] = copy[d][p]
  <2>1. copy'[c][request[c].name] =
          [tag |-> request[c].tag, body |-> body, source |-> source]
    BY AnswerTypes
  <2> QED BY <2>1, AnswerTypes
<1>2. \A d \in Clients : request'[d] = IF d = c THEN NoRequest ELSE request[d]
  BY <1>1 DEF ServerTypes
<1>3. NoRequest.step = "none"
  BY DEF NoRequest
<1>4. UNCHANGED <<up, documents, at, fetched>>
  BY DEF vars, registry, storeVars, buckets, round
<1>5. \A p \in Names, d \in Documents \cup {Absent} :
        NotAhead(p, d) => NotAhead(p, d)'
  BY <1>4 DEF NotAhead
<1> QED BY <1>1, <1>2, <1>3, <1>4 DEF BodiesInv, NotAhead

\* No body is cached, under way or answered at first.
LEMMA InitBodies == ServerInit => BodiesInv
BY Constants DEF ServerInit, Init, StoreInit, BodiesInv, NotAhead, EmptyCache,
   NoRequest

\* Every step keeps the order in which bodies were stored.
LEMMA NextBodies ==
  ASSUME AheadInv, [ServerNext]_allVars
  PROVE  BodiesInv'
<1> USE DEF AheadInv
<1>1. CASE MirrorStep
  <2>1. /\ \A p \in Names : cache'[p] \in {Absent, cache[p]}
        /\ request' \in {request, [c \in Clients |-> NoRequest]}
        /\ copy' = copy
    BY <1>1 DEF MirrorStep, EmptyCache, CacheAfterPut
  <2>2. NoRequest.step # "fill"
    BY DEF NoRequest
  <2>3. [Next]_vars
    BY ServerSteps
  <2>4. \A p \in Names, d \in Documents \cup {Absent} :
          NotAhead(p, d) => NotAhead(p, d)'
    BY <2>3, StillNotAhead
  <2>5. ASSUME NEW p \in Names
        PROVE  NotAhead(p, documents[p])' /\ NotAhead(p, cache[p])'
    <3>1. NotAhead(p, documents[p])'
      BY <2>3, StoredNotAhead DEF BodiesInv
    <3>2. cache'[p] \in {Absent, cache[p]} /\ NotAhead(p, cache[p])
      BY <2>1 DEF BodiesInv
    <3>3. cache[p] \in Documents \cup {Absent}
      BY DEF ServerTypes
    <3>4. CASE cache'[p] = Absent
      BY <3>1, <3>4, Constants DEF NotAhead
    <3>5. CASE cache'[p] = cache[p]
      BY <2>4, <3>1, <3>2, <3>3, <3>5 DEF NotAhead
    <3> QED BY <3>2, <3>4, <3>5
  <2>6. ASSUME NEW c \in Clients, request'[c].step = "fill"
        PROVE  NotAhead(request[c].name, request[c].body)'
    <3>1. request'[c] = request[c]
      BY <2>1, <2>2, <2>6
    <3>2. /\ request[c].name \in Names /\ request[c].body \in Documents
          /\ NotAhead(request[c].name, request[c].body)
      BY <2>6, <3>1 DEF ServerTypes, RequestRecords, BodiesInv
    <3> QED BY <2>4, <3>1, <3>2 DEF NotAhead
  <2>7. ASSUME NEW c \in Clients, NEW p \in Names, copy'[c][p] # Absent
        PROVE  NotAhead(p, copy[c][p].body)'
    <3>1. copy[c][p].body \in Documents
      BY <2>1, <2>7 DEF ServerTypes, Copies
    <3> QED BY <2>1, <2>4, <2>7, <3>1 DEF BodiesInv, NotAhead
  <2> QED BY <2>5, <2>6, <2>7 DEF BodiesInv
<1>2. CASE UNCHANGED <<vars, serverVars>>
  BY <1>2 DEF vars, serverVars, registry, storeVars, buckets, round, BodiesInv,
     NotAhead
<1>3. ASSUME NEW c \in Clients, NEW p \in Names, ReadRevision(c, p)
      PROVE  BodiesInv'
  <2>1. UNCHANGED <<up, documents, at, fetched, cache, copy>>
    BY <1>3 DEF ReadRevision, vars, registry, storeVars, buckets, round
  <2>2. \A d \in Clients : request'[d].step = "fill" => request'[d] = request[d]
    BY <1>3 DEF ReadRevision, ServerTypes
  <2> QED BY <2>1, <2>2 DEF BodiesInv, NotAhead
<1>4. ASSUME NEW c \in Clients, Lookup(c)
      PROVE  BodiesInv'
  <2>1. /\ request[c].step = "lookup" /\ request[c].name \in Names
        /\ UNCHANGED <<vars, cache>>
    BY <1>4 DEF Lookup, ServerTypes
  <2>2. CASE cache[request[c].name] # Absent
    <3>1. /\ cache[request[c].name] \in Documents
          /\ NotAhead(request[c].name, cache[request[c].name])
      BY <2>1, <2>2 DEF ServerTypes, BodiesInv
    <3>2. Answer(c, cache[request[c].name], "cache")
      BY <1>4, <2>2 DEF Lookup
    <3>3. "cache" \in Sources
      BY DEF Sources
    <3> QED BY <2>1, <3>1, <3>2, <3>3, AnswerBodies
  <2>3. CASE cache[request[c].name] = Absent
    <3>1. request' = [request EXCEPT ![c].step = "read"] /\ copy' = copy
      BY <1>4, <2>3 DEF Lookup
    <3>2. \A d \in Clients : request'[d].step = "fill" => request'[d] = request[d]
      BY <3>1 DEF ServerTypes, RequestRecords
    <3> QED
      BY <2>1, <3>1, <3>2
      DEF BodiesInv, NotAhead, vars, registry, storeVars, buckets, round
  <2> QED BY <2>2, <2>3
<1>5. ASSUME NEW c \in Clients, ReadDocument(c)
      PROVE  BodiesInv'
  <2> DEFINE p == request[c].name
  <2>1. /\ request[c].step = "read" /\ p \in Names
        /\ UNCHANGED <<vars, cache>>
    BY <1>5 DEF ReadDocument, ServerTypes
  <2>2. /\ DocumentOf(p) \in Documents
        /\ AsTagged(c) \in BOOLEAN /\ Source(AsTagged(c)) \in Sources
    BY <2>1, StoredDocuments
    DEF ServerTypes, RequestRecords, AsTagged, Source, Sources
  <2>3. NotAhead(p, DocumentOf(p))
    BY <2>1, RevisionTypes DEF DocumentOf, BodiesInv, NotAhead
  <2>4. UNCHANGED <<up, documents, at, fetched>>
    BY <2>1 DEF vars, registry, storeVars, buckets, round
  <2>5. CASE request' = [request EXCEPT ![c] = NoRequest] /\ copy' = copy
    <3>1. \A d \in Clients : request'[d].step = "fill" => request'[d] = request[d]
      BY <2>5 DEF ServerTypes, NoRequest
    <3> QED BY <2>1, <2>4, <2>5, <3>1 DEF BodiesInv, NotAhead
  <2>6. CASE Answer(c, DocumentOf(p), Source(AsTagged(c)))
    BY <2>1, <2>2, <2>3, <2>6, AnswerBodies
  <2>7. CASE /\ request' = [request EXCEPT ![c].step = "fill",
                                          ![c].settled = AsTagged(c),
                                          ![c].body = DocumentOf(p)]
             /\ copy' = copy
    <3>1. request'[c].name = p /\ request'[c].body = DocumentOf(p)
      BY <2>7 DEF ServerTypes, RequestRecords
    <3>2. \A d \in Clients \ {c} : request'[d] = request[d]
      BY <2>7 DEF ServerTypes
    <3>3. \A d \in Clients :
            request'[d].step = "fill" =>
              NotAhead(request[d].name, request[d].body)'
      BY <2>3, <2>4, <3>1, <3>2 DEF BodiesInv, NotAhead
    <3> QED BY <2>1, <2>4, <2>7, <3>3 DEF BodiesInv, NotAhead
  <2> QED BY <1>5, <2>5, <2>6, <2>7 DEF ReadDocument
<1>6. ASSUME NEW c \in Clients, Fill(c)
      PROVE  BodiesInv'
  <2> DEFINE p == request[c].name
             body == request[c].body
  <2>1. request[c].step = "fill" /\ UNCHANGED vars
    BY <1>6 DEF Fill
  <2>2. /\ p \in Names /\ body \in Documents
        /\ Source(request[c].settled) \in Sources /\ NotAhead(p, body)
    BY <2>1 DEF ServerTypes, RequestRecords, BodiesInv, Source, Sources
  <2>3. Answer(c, body, Source(request[c].settled))
    BY <1>6 DEF Fill
  <2>4. UNCHANGED <<up, documents, at, fetched>>
    BY <2>1 DEF vars, registry, storeVars, buckets, round
  <2>5. \A q \in Names : cache'[q] \in {cache[q], body} /\ (q # p => cache'[q] = cache[q])
    BY <1>6 DEF Fill, ServerTypes
  <2>6. /\ copy'[c][p].body = body
        /\ \A d \in Clients, q \in Names :
             d # c \/ q # p => copy'[d][q] = copy[d][q]
        /\ request' = [request EXCEPT ![c] = NoRequest]
    <3>1. copy'[c][p] =
            [tag |-> request[c].tag, body |-> body,
             source |-> Source(request[c].settled)]
      BY <2>1, <2>2, <2>3, AnswerTypes
    <3> QED BY <2>1, <2>2, <2>3, <3>1, AnswerTypes
  <2>7. \A d \in Clients : request'[d].step = "fill" => request'[d] = request[d]
    BY <2>6 DEF ServerTypes, NoRequest
  <2>8. \A q \in Names : NotAhead(q, documents[q])' /\ NotAhead(q, cache[q])'
    BY <2>2, <2>4, <2>5 DEF BodiesInv, NotAhead
  <2>9. \A d \in Clients, q \in Names :
          copy'[d][q] # Absent => NotAhead(q, copy[d][q].body)'
    BY <2>2, <2>4, <2>6 DEF BodiesInv, NotAhead
  <2>10. \A d \in Clients :
           request'[d].step = "fill" =>
             NotAhead(request[d].name, request[d].body)'
    BY <2>4, <2>7 DEF BodiesInv, NotAhead
  <2> QED BY <2>8, <2>9, <2>10 DEF BodiesInv
<1>7. ASSUME NEW p \in Names, Evict(p)
      PROVE  BodiesInv'
  <2>1. UNCHANGED <<up, documents, at, fetched, request, copy>>
    BY <1>7 DEF Evict, vars, registry, storeVars, buckets, round
  <2>2. \A q \in Names : cache'[q] \in {cache[q], Absent}
    BY <1>7 DEF Evict, ServerTypes
  <2> QED BY <2>1, <2>2, Constants DEF BodiesInv, NotAhead
<1> QED
  BY <1>1, <1>2, <1>3, <1>4, <1>5, <1>6, <1>7
  DEF ServerNext, NotModified, allVars

\* No body that is cached or answered is newer than the document that is stored
\* (database.go:375-395, npm/server.go:178-206), however requests interleave
\* with the mirror and whatever fails: for any number of clients and packages.
THEOREM NothingServedEarly == ServerSpec => []NeverAhead
<1>1. AheadInv => NeverAhead
  <2> SUFFICES ASSUME AheadInv, NEW p \in Names, documents[p] \in Nat \ {0}
               PROVE  /\ cache[p] \in Nat => cache[p] <= documents[p]
                      /\ \A c \in Clients :
                           /\ request[c].name = p /\ request[c].body \in Nat =>
                                request[c].body <= documents[p]
                           /\ copy[c][p] # Absent /\ copy[c][p].body \in Nat =>
                                copy[c][p].body <= documents[p]
    BY DEF NeverAhead
  <2>1. ASSUME NEW c \in Clients, request[c].name = p, request[c].body \in Nat
        PROVE  request[c].body <= documents[p]
    BY <2>1 DEF AheadInv, BodiesInv, NotAhead, ServerTypes
  <2> QED BY <2>1 DEF AheadInv, BodiesInv, NotAhead
<1>2. AheadInv /\ [ServerNext]_<<vars, serverVars>> => AheadInv'
  BY NextInv, NextDocuments, NextServerTypes, NextBodies, ServerSteps
  DEF AheadInv, allVars
<1>3. ServerInit => AheadInv
  BY InitInv, InitDocuments, InitServerTypes, InitBodies DEF AheadInv, ServerInit
<1> QED BY <1>1, <1>2, <1>3, PTL DEF ServerSpec

-----------------------------------------------------------------------------
(* A client that is told 304 has the document                              *)

\* What is about to be put of a package that is complete is a later revision.
BatchOK(p) ==
  batch[p] # Absent =>
    /\ pc = "put"
    /\ batch[p] <= up[p].rev
    /\ marks[p] = MarkComplete /\ packages[p] # 0 => packages[p] < batch[p]

BatchInv == \A p \in Names : BatchOK(p)

\* No batch is open at first.
LEMMA InitBatches == Init => BatchInv
BY DEF Init, BatchInv, BatchOK, NoBatch

\* The first run lists packages of which none is complete, an update those
\* whose revision differs from the one in the database, which is no later.
LEMMA ListBatches ==
  ASSUME AllInv, GetAllDocs \/ Poll
  PROVE  BatchInv'
<1>1. pc' = "put" /\ UNCHANGED <<registry, packages, marks, documents>>
  BY DEF GetAllDocs, Poll, storeVars, buckets
<1>2. ASSUME NEW p \in Names, batch'[p] # Absent, marks[p] = MarkComplete,
             packages[p] # 0
      PROVE  packages[p] < batch'[p]
  <2>1. Recorded(p) /\ ServedOnce(p, documents[p])
    BY <1>2 DEF AllInv, DocumentInv, DocumentOK, Recorded, FetchFailed
  <2>2. packages[p] \in Nat \ {0} /\ packages[p] <= up[p].rev
    BY <2>1 DEF Recorded, ServedOnce
  <2>3. CASE GetAllDocs
    BY <1>2, <2>3 DEF GetAllDocs, AllInv, SequenceInv, ChangeInv, ChangeOK, FirstRunOK
  <2>4. CASE Poll
    <3>1. batch'[p] = up[p].rev /\ Outdated(p)
      BY <1>2, <2>4 DEF Poll
    <3>2. packages[p] # up[p].rev
      BY <2>2, <3>1, Constants DEF Outdated, GetRevision
    <3> QED BY <2>2, <3>1, <3>2, RevisionTypes DEF AllInv
  <2> QED BY <2>3, <2>4
<1>3. \A p \in Names : batch'[p] \in {up[p].rev, Absent}
  BY DEF GetAllDocs, Poll
<1> QED
  BY <1>1, <1>2, <1>3, RevisionTypes DEF AllInv, BatchInv, BatchOK, registry

\* Every step keeps the order of a batch and what it replaces.
LEMMA NextBatches ==
  ASSUME AllInv, BatchInv, [Next]_vars
  PROVE  BatchInv'
<1>1. ASSUME NEW p \in Names, NEW delete \in BOOLEAN, Change(p, delete)
      PROVE  BatchInv'
  <2>1. UNCHANGED <<buckets, pc, batch>>
    BY <1>1 DEF Change, storeVars, pending
  <2>2. \A q \in Names : up'[q].rev >= up[q].rev /\ up'[q].rev \in Nat
    BY <1>1 DEF Change, AllInv, Inv, TypeInv, TypeOK
  <2> QED
    BY <2>1, <2>2, RevisionTypes DEF AllInv, BatchInv, BatchOK, buckets
<1>2. CASE GetAllDocs \/ Poll
  BY <1>2, ListBatches
<1>3. CASE PutBatch \/ Die
  BY <1>3 DEF PutBatch, Die, BatchInv, BatchOK, NoBatch
<1>4. CASE batch' = batch /\ pc # "put"
  BY <1>4 DEF BatchInv, BatchOK
<1>5. CASE Restart \/ Initialize \/ LoadStats \/ LoadMarks \/ Gate \/ UpToDate
             \/ SaveSequence \/ StartRound \/ EndRound
  BY <1>4, <1>5
  DEF Restart, Initialize, LoadStats, LoadMarks, Gate, UpToDate, SaveSequence,
      StartRound, EndRound, pending
<1>6. ASSUME NEW p \in Names, Job(p)
      PROVE  BatchInv'
  <2>1. at[p] # "idle" /\ batch' = batch
    BY <1>6
    DEF Job, GetDocument, Download, WriteCompleted, RemoveFiles, DropPackage,
        pending
  <2>2. pc = "round"
    BY <2>1 DEF AllInv, Inv, Kept, RoundKept
  <2> QED BY <1>4, <2>1, <2>2
<1>7. CASE UNCHANGED vars
  BY <1>7 DEF vars, registry, storeVars, buckets, pending, BatchInv, BatchOK
<1> QED
  BY <1>1, <1>2, <1>3, <1>5, <1>6, <1>7
  DEF Next, Registry, Process, Fault, OneTime, Blocked, Crash, AllDocsFails,
      CommitFails, ChangesFail

\* Revision r is the one that is mirrored of p, or will never be it again.
Current(p, r) ==
  marks[p] = MarkComplete /\ packages[p] = r /\ documents[p] = r

Past(p, r) ==
  /\ r < up[p].rev
  /\ packages[p] \in Nat \ {0} => r < packages[p]
  /\ batch[p] \in Nat => r < batch[p]
  /\ at[p] \in {"fetched", "ready"} /\ fetched[p] \in Nat \ {0} => r < fetched[p]

\* A revision that is past stays past.
LEMMA StillPast ==
  ASSUME Inv, [Next]_vars, NEW p \in Names, NEW r \in Nat, Past(p, r)
  PROVE  Past(p, r)'
BY MirrorMoves, RevisionTypes, Constants DEF Moves, Past, RevisionOf

\* A revision that is current stays so, or is past from then on.
LEMMA StillCurrent ==
  ASSUME Inv, BatchInv, [Next]_vars, NEW p \in Names, NEW r \in Nat \ {0},
         Current(p, r)
  PROVE  Current(p, r)' \/ Past(p, r)'
BY MirrorMoves, RevisionTypes, Constants
DEF Moves, Current, Past, BatchInv, BatchOK

\* A package that is complete under a revision has its document.
LEMMA CompleteIsCurrent ==
  ASSUME DocumentInv, NEW p \in Names, marks[p] = MarkComplete,
         GetRevision(p) # 0
  PROVE  Current(p, GetRevision(p))
BY DEF GetRevision, DocumentInv, DocumentOK, Recorded, FetchFailed, Current

\* The ETag of a request was current when it was read, or the document was, and the body that goes
\* with it is the one of that revision unless the revision is past.
RequestOK(c) ==
  request[c].settled /\ request[c].tag # 0 =>
    /\ request[c].step \in {"lookup", "read"} =>
         \/ Current(request[c].name, request[c].tag)
         \/ Past(request[c].name, request[c].tag)
    /\ request[c].step = "fill" =>
         \/ request[c].body = request[c].tag
         \/ Past(request[c].name, request[c].tag)

CopyOK(c, p) ==
  copy[c][p] # Absent /\ copy[c][p].source = "complete" /\ copy[c][p].tag # 0 =>
    copy[c][p].body = copy[c][p].tag \/ Past(p, copy[c][p].tag)

TagInv ==
  /\ \A c \in Clients : RequestOK(c)
  /\ \A c \in Clients, p \in Names : CopyOK(c, p)

\* No copy is in the hands of a client at first.
LEMMA InitTags == ServerInit => TagInv
BY DEF ServerInit, TagInv, RequestOK, CopyOK, NoRequest

\* A request that ends as the mirror stands still leaves its copy.
LEMMA AnswerTags ==
  ASSUME ServerTypes, TagInv, UNCHANGED vars,
         NEW c \in Clients, NEW body \in Documents, NEW source \in Sources,
         request[c].step # "none", Answer(c, body, source),
         source = "complete" /\ request[c].tag # 0 =>
           body = request[c].tag \/ Past(request[c].name, request[c].tag)
  PROVE  TagInv'
<1>1. UNCHANGED <<up, packages, marks, documents, batch, at, fetched>>
  BY DEF vars, registry, storeVars, buckets, pending, round
<1>2. /\ request' = [request EXCEPT ![c] = NoRequest]
      /\ copy'[c][request[c].name] =
           [tag |-> request[c].tag, body |-> body, source |-> source]
      /\ \A d \in Clients, p \in Names :
           d # c \/ p # request[c].name => copy'[d][p] = copy[d][p]
  BY AnswerTypes
<1>3. ~ NoRequest.settled
  BY DEF NoRequest
<1>4. ASSUME NEW d \in Clients
      PROVE  RequestOK(d)'
  <2>1. request'[d] = request[d] \/ ~ request'[d].settled
    BY <1>2, <1>3 DEF ServerTypes
  <2> QED BY <1>1, <2>1 DEF TagInv, RequestOK, Current, Past
<1>5. ASSUME NEW d \in Clients, NEW p \in Names
      PROVE  CopyOK(d, p)'
  <2>1. CASE d = c /\ p = request[c].name
    <3>1. /\ copy'[d][p].tag = request[c].tag
          /\ copy'[d][p].body = body
          /\ copy'[d][p].source = source
      BY <1>2, <2>1
    <3> QED BY <1>1, <2>1, <3>1 DEF CopyOK, Past
  <2>2. CASE copy'[d][p] = copy[d][p]
    BY <1>1, <2>2 DEF TagInv, CopyOK, Past
  <2> QED BY <1>2, <2>1, <2>2
<1> QED BY <1>4, <1>5 DEF TagInv

\* One request goes on while the mirror stands still.
LEMMA RequestTags ==
  ASSUME TagInv, UNCHANGED <<vars, copy>>, NEW c \in Clients, RequestOK(c)',
         \A d \in Clients \ {c} : request'[d] = request[d]
  PROVE  TagInv'
<1>1. UNCHANGED <<up, packages, marks, documents, batch, at, fetched>>
  BY DEF vars, registry, storeVars, buckets, pending, round
<1>2. \A d \in Clients \ {c} : RequestOK(d)'
  BY <1>1 DEF TagInv, RequestOK, Current, Past
<1>3. \A d \in Clients, p \in Names : CopyOK(d, p)'
  BY <1>1 DEF TagInv, CopyOK, Past
<1> QED BY <1>2, <1>3 DEF TagInv

\* Every step of the mirror keeps the tags, and so does every request.
LEMMA NextTags ==
  ASSUME Inv, DocumentInv, BatchInv, ServerTypes, TagInv,
         [ServerNext]_allVars
  PROVE  TagInv'
<1>1. CASE MirrorStep
  <2>1. /\ request' \in {request, [c \in Clients |-> NoRequest]}
        /\ copy' = copy
    BY <1>1 DEF MirrorStep
  <2>2. ~ NoRequest.settled
    BY DEF NoRequest
  <2>3. [Next]_vars
    BY ServerSteps
  <2>4. \A p \in Names, r \in Nat : Past(p, r) => Past(p, r)'
    BY <2>3, StillPast
  <2>5. \A p \in Names, r \in Nat \ {0} :
          Current(p, r) => Current(p, r)' \/ Past(p, r)'
    BY <2>3, StillCurrent
  <2>6. ASSUME NEW c \in Clients
        PROVE  RequestOK(c)'
    <3>1. CASE ~ request'[c].settled
      BY <3>1 DEF RequestOK
    <3>2. CASE request'[c] = request[c] /\ request[c].step # "none"
      <4>1. request[c].name \in Names /\ request[c].tag \in Nat
        BY <3>2 DEF ServerTypes, RequestRecords
      <4> QED
        BY <2>4, <2>5, <3>2, <4>1 DEF TagInv, RequestOK, Current, Past
    <3>3. CASE request'[c].step = "none"
      BY <3>3 DEF RequestOK
    <3> QED BY <2>1, <2>2, <3>1, <3>2, <3>3
  <2>7. ASSUME NEW c \in Clients, NEW p \in Names
        PROVE  CopyOK(c, p)'
    <3>1. copy[c][p] # Absent => copy[c][p].tag \in Nat
      BY DEF ServerTypes, Copies
    <3> QED BY <2>1, <2>4, <3>1 DEF TagInv, CopyOK, Past
  <2> QED BY <2>6, <2>7 DEF TagInv
<1>2. CASE UNCHANGED <<vars, serverVars>>
  BY <1>2 DEF vars, serverVars, registry, storeVars, buckets, pending, round,
     TagInv, RequestOK, CopyOK, Current, Past
<1>3. ASSUME NEW c \in Clients, NEW p \in Names, ReadRevision(c, p)
      PROVE  TagInv'
  <2>1. UNCHANGED <<up, packages, marks, documents, batch, at, fetched, copy>>
    BY <1>3
    DEF ReadRevision, vars, registry, storeVars, buckets, pending, round
  <2>2. /\ request'[c] = [step |-> "lookup", name |-> p, tag |-> GetRevision(p),
                          settled |-> marks[p] = MarkComplete, body |-> 0]
        /\ \A d \in Clients \ {c} : request'[d] = request[d]
    BY <1>3 DEF ReadRevision, ServerTypes
  <2>3. /\ request'[c].step = "lookup" /\ request'[c].name = p
        /\ request'[c].tag = GetRevision(p)
        /\ request'[c].settled = (marks[p] = MarkComplete)
    BY <2>2
  <2>4. marks[p] = MarkComplete /\ GetRevision(p) # 0 =>
          Current(p, GetRevision(p))
    BY CompleteIsCurrent
  <2>5. RequestOK(c)'
    BY <2>1, <2>3, <2>4 DEF RequestOK, Current, Past
  <2> QED BY <1>3, <2>2, <2>5, RequestTags DEF ReadRevision
<1>4. ASSUME NEW c \in Clients, Lookup(c)
      PROVE  TagInv'
  <2>1. /\ request[c].step = "lookup" /\ request[c].name \in Names
        /\ UNCHANGED vars
    BY <1>4 DEF Lookup, ServerTypes
  <2>2. CASE cache[request[c].name] # Absent
    <3>1. cache[request[c].name] \in Documents
      BY <2>1, <2>2 DEF ServerTypes
    <3>2. Answer(c, cache[request[c].name], "cache")
      BY <1>4, <2>2 DEF Lookup
    <3>3. "cache" \in Sources
      BY DEF Sources
    <3> QED BY <2>1, <3>1, <3>2, <3>3, AnswerTags
  <2>3. CASE cache[request[c].name] = Absent
    <3>1. request' = [request EXCEPT ![c].step = "read"] /\ copy' = copy
      BY <1>4, <2>3 DEF Lookup
    <3>2. /\ request'[c].step = "read"
          /\ request'[c].name = request[c].name
          /\ request'[c].tag = request[c].tag
          /\ request'[c].settled = request[c].settled
          /\ \A d \in Clients \ {c} : request'[d] = request[d]
      BY <3>1 DEF ServerTypes, RequestRecords
    <3>3. RequestOK(c)'
      BY <2>1, <3>2
      DEF TagInv, RequestOK, Current, Past, vars, registry, storeVars, buckets,
          pending, round
    <3> QED BY <2>1, <3>1, <3>2, <3>3, RequestTags
  <2> QED BY <2>2, <2>3
<1>5. ASSUME NEW c \in Clients, ReadDocument(c)
      PROVE  TagInv'
  <2> DEFINE p == request[c].name
             tag == request[c].tag
  <2>1. request[c].step = "read" /\ p \in Names /\ UNCHANGED vars
    BY <1>5 DEF ReadDocument, ServerTypes
  <2>2. /\ DocumentOf(p) \in Documents /\ tag \in Nat
        /\ AsTagged(c) \in BOOLEAN /\ Source(AsTagged(c)) \in Sources
    BY <2>1, StoredDocuments
    DEF ServerTypes, RequestRecords, AsTagged, Source, Sources
  <2>3. AsTagged(c) /\ tag # 0 => DocumentOf(p) = tag \/ Past(p, tag)
    <3>1. CASE request[c].settled
      BY <2>1, <2>2, <3>1, Constants DEF TagInv, RequestOK, Current, DocumentOf
    <3>2. CASE marks[p] = MarkComplete /\ GetRevision(p) = tag
      BY <2>1, <2>2, <3>2, CompleteIsCurrent, Constants DEF Current, DocumentOf
    <3> QED BY <3>1, <3>2 DEF AsTagged
  <2>4. CASE request' = [request EXCEPT ![c] = NoRequest] /\ copy' = copy
    <3>1. ~ NoRequest.settled
      BY DEF NoRequest
    <3>2. \A d \in Clients : request'[d] = request[d] \/ ~ request'[d].settled
      BY <2>4, <3>1 DEF ServerTypes
    <3> QED
      BY <2>1, <2>4, <3>2
      DEF TagInv, RequestOK, CopyOK, Current, Past, vars, registry, storeVars,
          buckets, pending, round
  <2>5. CASE Answer(c, DocumentOf(p), Source(AsTagged(c)))
    <3>1. Source(AsTagged(c)) = "complete" => AsTagged(c)
      BY <2>2 DEF Source
    <3> QED BY <2>1, <2>2, <2>3, <2>5, <3>1, AnswerTags
  <2>6. CASE /\ request' = [request EXCEPT ![c].step = "fill",
                                          ![c].settled = AsTagged(c),
                                          ![c].body = DocumentOf(p)]
             /\ copy' = copy
    <3>1. /\ request'[c].step = "fill"
          /\ request'[c].name = p
          /\ request'[c].tag = tag
          /\ request'[c].settled = AsTagged(c)
          /\ request'[c].body = DocumentOf(p)
          /\ \A d \in Clients \ {c} : request'[d] = request[d]
      BY <2>6 DEF ServerTypes, RequestRecords
    <3>2. RequestOK(c)'
      BY <2>1, <2>3, <3>1
      DEF RequestOK, Past, vars, registry, storeVars, buckets, pending, round
    <3> QED BY <2>1, <2>6, <3>1, <3>2, RequestTags
  <2> QED BY <1>5, <2>4, <2>5, <2>6 DEF ReadDocument
<1>6. ASSUME NEW c \in Clients, Fill(c)
      PROVE  TagInv'
  <2>1. /\ request[c].step = "fill" /\ UNCHANGED vars
        /\ Answer(c, request[c].body, Source(request[c].settled))
    BY <1>6 DEF Fill
  <2>2. /\ request[c].body \in Documents
        /\ Source(request[c].settled) \in Sources
        /\ Source(request[c].settled) = "complete" => request[c].settled
    BY <2>1 DEF ServerTypes, RequestRecords, Source, Sources
  <2>3. request[c].settled /\ request[c].tag # 0 =>
          \/ request[c].body = request[c].tag
          \/ Past(request[c].name, request[c].tag)
    BY <2>1 DEF TagInv, RequestOK
  <2> QED BY <2>1, <2>2, <2>3, AnswerTags
<1>7. ASSUME NEW p \in Names, Evict(p)
      PROVE  TagInv'
  BY <1>7 DEF Evict, vars, registry, storeVars, buckets, pending, round,
     TagInv, RequestOK, CopyOK, Current, Past
<1> QED
  BY <1>1, <1>2, <1>3, <1>4, <1>5, <1>6, <1>7
  DEF ServerNext, NotModified, allVars

\* A client that is told 304, and whose copy was read from the database while the
\* package was complete under the ETag (npm/server.go:178, 191), has the document
\* that is stored, as long as sequences that are set are saved: for any number of
\* clients and packages, wherever the mirror writes between the two reads.
THEOREM NotModifiedIsCorrect ==
  ASSUME "sequence" \notin FaultKinds
  PROVE  ServerSpec => []NotModifiedIfComplete
<1>1. Inv /\ DocumentInv /\ ServerTypes /\ TagInv => NotModifiedIfComplete
  <2> SUFFICES ASSUME Inv, DocumentInv, ServerTypes, TagInv,
                      NEW c \in Clients, NEW p \in Names,
                      ToldNotModified(c, p), copy[c][p].source = "complete"
               PROVE  copy[c][p].body = documents[p]
    BY DEF NotModifiedIfComplete
  <2>1. packages[p] \in Nat \ {0} /\ documents[p] = packages[p]
    BY DEF ToldNotModified, DocumentInv, DocumentOK, Recorded, FetchFailed
  <2>2. ~ Past(p, copy[c][p].tag)
    BY <2>1 DEF ToldNotModified, Past
  <2> QED BY <2>1, <2>2 DEF ToldNotModified, TagInv, CopyOK
<1>2. BatchInv /\ AllInv /\ [ServerNext]_<<vars, serverVars>> => BatchInv'
  BY NextBatches, ServerSteps DEF allVars
<1>3. Inv /\ DocumentInv /\ BatchInv /\ ServerTypes /\ TagInv
        /\ [ServerNext]_<<vars, serverVars>> => TagInv'
  BY NextTags DEF allVars
<1>4. AllInv => Inv /\ DocumentInv
  BY DEF AllInv
<1>5. ServerInit => BatchInv /\ TagInv
  BY InitBatches, InitTags DEF ServerInit
<1>6. SafeSpec => []AllInv
  BY AllInvariance
<1> QED
  BY ServerIsMirror, ServerTypesInvariance, <1>1, <1>2, <1>3, <1>4, <1>5, <1>6,
     PTL DEF ServerSpec

=============================================================================
