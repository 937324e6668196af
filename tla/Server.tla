------------------------------- MODULE Server -------------------------------
(***************************************************************************)
(* The registry server (npm/server.go: getDocumentByName) and the document *)
(* cache of PocketBase (db/database.go: GetDocument), in one process with  *)
(* the mirror, as "start -s" runs them.  A request reads the revision for  *)
(* its ETag, looks into the cache, reads the database and fills the cache, *)
(* each a step of its own between which the mirror moves on.               *)
(***************************************************************************)
EXTENDS Mirror

CONSTANT Clients

ASSUME ClientsAssumption == IsFiniteSet(Clients)

VARIABLES
  cache,     \* PocketBase: name -> document kept in memory
  request,   \* how far the server is with each client's request
  copy       \* what each client keeps of each package: ETag and body

serverVars == <<cache, request, copy>>

Documents == Nat \cup {StatusBody}

\* Where a body came from: the cache, or the database, of a package that was
\* complete under the tag or still queued.
Sources == {"cache", "queued", "complete"}

\* settled: the package was complete under the tag when its revision was read,
\* or when its document was.
NoRequest ==
  [step |-> "none", name |-> Absent, tag |-> 0, settled |-> FALSE, body |-> 0]

\* Only what is a document, or passes for one, is ever kept in memory
\* (database.go:320): an empty body in the cache would hide the document that
\* repairs it.
ServerTypeOK ==
  /\ cache \in [Names -> (Documents \ {0}) \cup {Absent}]
  /\ request \in [Clients ->
       [step : {"none", "lookup", "read", "fill"}, name : Names \cup {Absent},
        tag : Nat, settled : BOOLEAN, body : Documents]]
  /\ \A c \in Clients, p \in Names :
       \/ copy[c][p] = Absent
       \/ copy[c][p] \in [tag : Nat, body : Documents, source : Sources]

EmptyCache == [p \in Names |-> Absent]

ServerInit ==
  /\ Init
  /\ cache = EmptyCache
  /\ request = [c \in Clients |-> NoRequest]
  /\ copy = [c \in Clients |-> [p \in Names |-> Absent]]

-----------------------------------------------------------------------------
(* A request for the document of p                                         *)

Serving == pc # "down" /\ IsInitialized

\* The client's copy has the ETag of the revision: 304, and the copy stays.
NotModified(c, p) ==
  /\ Serving
  /\ request[c].step = "none"
  /\ copy[c][p] # Absent
  /\ copy[c][p].tag = GetRevision(p)
  /\ UNCHANGED <<vars, serverVars>>

\* The revision of the ETag.  It is never in the cache.
ReadRevision(c, p) ==
  /\ Serving
  /\ request[c].step = "none"
  /\ request' = [request EXCEPT ![c] =
                   [step |-> "lookup", name |-> p, tag |-> GetRevision(p),
                    settled |-> marks[p] = MarkComplete, body |-> 0]]
  /\ UNCHANGED <<vars, cache, copy>>

\* Mutation: the ETag is read after the document.
LateTag(c) == GetRevision(request[c].name)

\* The ETag that goes with the body.
AnswerTag(c) == request[c].tag

\* 200: the client keeps the body under its ETag.
Answer(c, body, source) ==
  /\ copy' = [copy EXCEPT ![c][request[c].name] =
                [tag |-> AnswerTag(c), body |-> body, source |-> source]]
  /\ request' = [request EXCEPT ![c] = NoRequest]

Lookup(c) ==
  /\ request[c].step = "lookup"
  /\ LET cached == cache[request[c].name]
     IN IF cached # Absent
        THEN Answer(c, cached, "cache")
        ELSE /\ request' = [request EXCEPT ![c].step = "read"]
             /\ UNCHANGED copy
  /\ UNCHANGED <<vars, cache>>

\* A missing document reads as the empty string.
DocumentOf(p) == IF documents[p] = Absent THEN 0 ELSE documents[p]

\* Whether the package is there, and there is something to answer.
Available(p) ==
  /\ marks[p] # Absent
  /\ DocumentOf(p) # 0 \/ marks[p] # MarkIncomplete

\* Mutation: whatever was read is kept.
CacheAll(document) == TRUE

Cacheable(document) == document # 0

\* Whether the package was, or is now, complete under the tag of the request.
AsTagged(c) ==
  LET p == request[c].name
  IN \/ request[c].settled
     \/ marks[p] = MarkComplete /\ GetRevision(p) = request[c].tag

Source(settled) == IF settled THEN "complete" ELSE "queued"

\* 404 unless the package is available; an empty body is answered at once.
ReadDocument(c) ==
  /\ request[c].step = "read"
  /\ LET p == request[c].name
     IN \/ /\ ~ Available(p)
           /\ request' = [request EXCEPT ![c] = NoRequest]
           /\ UNCHANGED copy
        \/ /\ Available(p)
           /\ ~ Cacheable(DocumentOf(p))
           /\ Answer(c, DocumentOf(p), Source(AsTagged(c)))
        \/ /\ Available(p)
           /\ Cacheable(DocumentOf(p))
           /\ request' = [request EXCEPT ![c].step = "fill",
                                         ![c].settled = AsTagged(c),
                                         ![c].body = DocumentOf(p)]
           /\ UNCHANGED copy
  /\ UNCHANGED <<vars, cache>>

\* An entry that is too large is not kept.
Fill(c) ==
  /\ request[c].step = "fill"
  /\ cache' \in {cache, [cache EXCEPT ![request[c].name] = request[c].body]}
  /\ Answer(c, request[c].body, Source(request[c].settled))
  /\ UNCHANGED vars

\* Entries go when they are old or the cache is full, not before some other
\* entry is set.
Evict(p) ==
  /\ cache[p] # Absent
  /\ cache' = [cache EXCEPT ![p] = Absent]
  /\ UNCHANGED <<vars, request, copy>>

-----------------------------------------------------------------------------
(* The mirror beside it                                                    *)

\* Mutation: the cache is brought up to date instead, whether or not the
\* transaction was committed.
CachePut(p) == IF fetched[p] = 0 THEN cache ELSE [cache EXCEPT ![p] = fetched[p]]

\* PutCompleted drops the entry whose key is the text of the document, which
\* is no package's name.
CacheAfterPut(p) == [q \in Names |-> IF q = fetched[p] THEN Absent ELSE cache[q]]

WritesCompleted(p) == at[p] = "ready" /\ at'[p] = "idle"

\* A step of the mirror; when it ends the process, cache and requests are lost.
MirrorStep ==
  /\ Next
  /\ IF pc' = "down"
     THEN cache' = EmptyCache /\ request' = [c \in Clients |-> NoRequest]
     ELSE /\ UNCHANGED request
          /\ IF \E p \in Names : WritesCompleted(p)
             THEN \E p \in Names : WritesCompleted(p) /\ cache' = CacheAfterPut(p)
             ELSE UNCHANGED cache
  /\ UNCHANGED copy

ServerNext ==
  \/ MirrorStep
  \/ \E c \in Clients :
       \/ \E p \in Names : NotModified(c, p) \/ ReadRevision(c, p)
       \/ Lookup(c) \/ ReadDocument(c) \/ Fill(c)
  \/ \E p \in Names : Evict(p)

ServerSpec == ServerInit /\ [][ServerNext]_<<vars, serverVars>>

-----------------------------------------------------------------------------
(* Properties                                                              *)

\* Nothing is served before it is stored: a cached body, one about to be cached,
\* and one in a client's hands are never newer than the document in the database,
\* however requests interleave with transactions that fail (database.go:375-395).
NeverAhead ==
  \A p \in Names :
    documents[p] \in Nat \ {0} =>
      \A body \in {cache[p]} \cup {request[c].body : c \in {d \in Clients : request[d].name = p}}
                    \cup {copy[c][p].body : c \in {d \in Clients : copy[d][p] # Absent}} :
        body \in Nat => body <= documents[p]

\* The copy of p at client c has the ETag of the package that is complete now:
\* asked again, the server answers 304 and the client goes on with its copy.
ToldNotModified(c, p) ==
  /\ copy[c][p] # Absent
  /\ marks[p] = MarkComplete
  /\ packages[p] # 0
  /\ copy[c][p].tag = packages[p]

\* A client that is told 304 has the current document, if its copy is from the
\* database and the package was complete under the ETag when the one or the
\* other was read.  The revision is read before the document (server.go:178,
\* 191): whatever the mirror queues, writes, deletes or publishes anew in
\* between, the ETag of such a copy is never newer than its body.  Of a package
\* that was queued, and of a copy from the cache, this is not so
\* (NotModifiedIsTrue, FreshAfterPut).
NotModifiedIfComplete ==
  \A c \in Clients, p \in Names :
    /\ ToldNotModified(c, p)
    /\ copy[c][p].source = "complete"
    => copy[c][p].body = documents[p]

-----------------------------------------------------------------------------
(* What the code and its tests say and the code does not do                *)

\* server.go:183-184, 188: the answer says "must-revalidate", and 304 that the
\* client's copy is the current document.  A package that is queued has its new
\* revision and its old document (mirror.go:209): whoever asks then has the old
\* body under the ETag of the new one.
NotModifiedIsTrue ==
  \A c \in Clients, p \in Names :
    ToldNotModified(c, p) /\ copy[c][p].source # "cache" =>
      copy[c][p].body = documents[p]

\* db/database_test.go:159 expects of GetDocument, once PutCompleted has
\* returned, the document that was put.  An older one that is in the cache stays
\* there and is what GetDocument answers.
FreshAfterPut ==
  [][\A p \in Names :
       marks[p] = MarkIncomplete /\ marks'[p] = MarkComplete =>
         cache'[p] \in {Absent, documents'[p]}]_<<vars, serverVars>>

=============================================================================
