------------------------------- MODULE RmServer -------------------------------
(***************************************************************************)
(* The Requirements Management server: the REST handlers of Requirement    *)
(* and RequirementCollection, the selection dialog that searches the       *)
(* requirements, the RestDelegate they share, its two stores, the Lucene   *)
(* index with the one thread that writes it, and the TRS change log.       *)
(*                                                                         *)
(* Unlike the other servers RM keeps a synchronizedMap per service         *)
(* provider, so each get, put and remove is atomic.  What is done between  *)
(* two calls of the map is not.  Every resource is one of the one service  *)
(* provider the server has.                                                *)
(***************************************************************************)
EXTENDS TrackedHandlers

CONSTANTS Requirements,  \* URIs of requirements
          Collections    \* URIs of requirement collections

ASSUME RmAssumption ==
    /\ Uris = Requirements \cup Collections
    /\ Requirements \cap Collections = {}

VARIABLES
    toIndex,  \* the tasks submitted to the indexer thread, a queue
    docs,     \* docs[u]: the number of documents about u in the index
    hits      \* hits[r]: the documents that search r still has to look up

indexVars == <<toIndex, docs, hits>>
vars == <<resources, pc, call, seen, overwrote, status, log, toIndex, docs, hits>>

Init ==
    /\ RestInit /\ TrsInit
    /\ toIndex = <<>>
    /\ docs = [u \in Requirements |-> IF u \in Seeded THEN 1 ELSE 0]
    /\ hits = [r \in Requests |-> {}]
-----------------------------------------------------------------------------
(***************************************************************************)
(* The endpoints.                                                          *)
(***************************************************************************)
getRequirement(r) == ReceiveAny(r, "GET", Requirements, "get")
getRequirementAsHtml(r) == ReceiveAny(r, "VIEW", Requirements, "get")
getRequirementCompact(r) == ReceiveAny(r, "VIEW", Requirements, "get")
getRequirementAsHtmlSmallPreview(r) == ReceiveAny(r, "VIEW", Requirements, "get")
getRequirementAsHtmlLargePreview(r) == ReceiveAny(r, "VIEW", Requirements, "get")
getRequirementCollection(r) == ReceiveAny(r, "GET", Collections, "get")
getRequirementCollectionAsHtml(r) == ReceiveAny(r, "VIEW", Collections, "get")
getRequirementCollectionCompact(r) == ReceiveAny(r, "VIEW", Collections, "get")
getRequirementCollectionAsHtmlSmallPreview(r) == ReceiveAny(r, "VIEW", Collections, "get")
getRequirementCollectionAsHtmlLargePreview(r) == ReceiveAny(r, "VIEW", Collections, "get")

deleteRequirement(r) == ReceiveAny(r, "DELETE", Requirements, "get")
deleteRequirementCollection(r) == ReceiveAny(r, "DELETE", Collections, "get")

updateRequirement(r) == ReceivePut(r, Requirements, "get")
updateRequirementCollection(r) == ReceivePut(r, Collections, "get")

createRequirement(r) == ReceivePost(r, Requirements)
createRequirementCollection(r) == ReceivePost(r, Collections)

\* The form of the creation dialog is answered, but nothing is created.
createRequirementFromDialog(r) == ReceiveAny(r, "FORM", Requirements, "dialog")

\* The selection dialog asks for JSON, its htmx form for an HTML fragment.
RequirementSelector(r) == \E method \in {"SEARCH", "HTMX"}, u \in Requirements,
                             terms \in {"good", "bad"} :
                              Receive(r, method, u, NoETag, terms, "search")
-----------------------------------------------------------------------------
(***************************************************************************)
(* The steps of a request.                                                 *)
(***************************************************************************)
\* What the handler does with a resource it got.  The delegate has no ETags: a
\* null originalETag is dereferenced as soon as there is an If-Match header, and so is
\* the resource if the body has none.
AfterGet(r) ==
    CASE call[r].method \in {"GET", "VIEW"} -> Present(r)
      [] call[r].method = "DELETE" -> Goto(r, "remove")
      [] OTHER ->
           IF call[r].ifMatch # NoETag \/ call[r].input = "none" THEN Answer(r, 500)
           ELSE IF call[r].input = "bad" THEN Answer(r, 400)
           ELSE Goto(r, "put")

\* delegate.getX: one Map.get.
Get(r) ==
    /\ pc[r] = "get"
    /\ seen' = [seen EXCEPT ![r] = resources[call[r].uri]]
    /\ IF resources[call[r].uri] = Absent THEN Answer(r, 404) ELSE AfterGet(r)
    /\ UNCHANGED <<resources, call, overwrote, log, indexVars>>

\* delegate.createX and delegate.updateX: one Map.put, which also stores what
\* another request has removed since.
Put(r) ==
    LET u == call[r].uri IN
    /\ pc[r] = "put"
    /\ resources' = [resources EXCEPT ![u] = r]
    /\ overwrote' = [overwrote EXCEPT ![r] = resources[u]]
    /\ Goto(r, IF call[r].method = "POST" /\ u \in Requirements THEN "index" ELSE "event")
    /\ UNCHANGED <<call, seen, log, indexVars>>

\* Mutant of AddToIndex: the task is not submitted.
AddToIndexNever(r) ==
    /\ pc[r] = "index"
    /\ Goto(r, "event")
    /\ UNCHANGED <<resources, call, seen, overwrote, log, indexVars>>

\* addToIndex: hand the new requirement to the indexer thread.
AddToIndex(r) ==
    /\ pc[r] = "index"
    /\ toIndex' = Append(toIndex, call[r].uri)
    /\ Goto(r, "event")
    /\ UNCHANGED <<resources, call, seen, overwrote, log, docs, hits>>

\* Mutants of Remove: what Map.remove returned is not looked at; the log entry is
\* forgotten.
RemoveUnchecked(r) ==
    /\ pc[r] = "remove"
    /\ resources' = [resources EXCEPT ![call[r].uri] = Absent]
    /\ Goto(r, "event")
    /\ UNCHANGED <<call, seen, overwrote, log, indexVars>>

RemoveUnannounced(r) ==
    LET u == call[r].uri IN
    /\ pc[r] = "remove"
    /\ resources' = [resources EXCEPT ![u] = Absent]
    /\ Answer(r, IF resources[u] = Absent THEN 500 ELSE 200)
    /\ UNCHANGED <<call, seen, overwrote, log, indexVars>>

\* delegate.deleteX: one Map.remove; the URI for the log is asked of the removed
\* resource, a NullPointerException, 500, if another DELETE was faster.
Remove(r) ==
    LET u == call[r].uri IN
    /\ pc[r] = "remove"
    /\ resources' = [resources EXCEPT ![u] = Absent]
    /\ IF resources[u] = Absent THEN Answer(r, 500) ELSE Goto(r, "event")
    /\ UNCHANGED <<call, seen, overwrote, log, indexVars>>

\* A requirement without an identifier has no URI, 500; a missing body is refused
\* for a collection only.
Reject(r) ==
    /\ pc[r] = "reject"
    /\ Answer(r, 500) \/ (call[r].uri \in Collections /\ Answer(r, 400))
    /\ UNCHANGED <<resources, call, seen, overwrote, log, indexVars>>

\* createRequirementFromDialog of the delegate is to be implemented; a date or a URI of
\* the form that cannot be parsed is a 500.
Dialog(r) ==
    /\ pc[r] = "dialog"
    /\ Answer(r, NoContent) \/ Answer(r, 500)
    /\ UNCHANGED <<resources, call, seen, overwrote, log, indexVars>>

Indexed == {u \in Requirements : docs[u] > 0}

\* The delegate returns null if the index was never written or the terms cannot be
\* parsed.  The terms are optional beside the service provider, so all documents
\* match (there are fewer than the 100 that a search returns).
Search(r) ==
    /\ pc[r] = "search"
    /\ IF Indexed = {} \/ call[r].input = "bad" THEN Answer(r, NoContent) /\ UNCHANGED hits
       ELSE Goto(r, "lookup") /\ hits' = [hits EXCEPT ![r] = Indexed]
    /\ UNCHANGED <<resources, call, seen, overwrote, log, toIndex, docs>>

\* requirements.get(id) for each document; the handler dereferences the result,
\* the page with the HTML fragment does not.
LookUp(r) ==
    /\ pc[r] = "lookup"
    /\ \/ \E u \in hits[r] :
             /\ hits' = [hits EXCEPT ![r] = @ \ {u}]
             /\ IF resources[u] = Absent /\ call[r].method = "SEARCH"
                THEN Answer(r, 500) ELSE UNCHANGED <<pc, status>>
       \/ hits[r] = {} /\ Answer(r, 200) /\ UNCHANGED hits
    /\ UNCHANGED <<resources, call, seen, overwrote, log, toIndex, docs>>

\* The indexer thread runs the next task: a document is added, none is ever
\* replaced or deleted.
Index ==
    /\ toIndex # <<>>
    /\ toIndex' = Tail(toIndex)
    /\ docs' = [docs EXCEPT ![Head(toIndex)] = @ + 1]
    /\ UNCHANGED <<resources, pc, call, seen, overwrote, status, log, hits>>

Endpoint(r) ==
    /\ \/ getRequirement(r) \/ getRequirementAsHtml(r) \/ getRequirementCompact(r)
       \/ getRequirementAsHtmlSmallPreview(r) \/ getRequirementAsHtmlLargePreview(r)
       \/ getRequirementCollection(r) \/ getRequirementCollectionAsHtml(r)
       \/ getRequirementCollectionCompact(r)
       \/ getRequirementCollectionAsHtmlSmallPreview(r)
       \/ getRequirementCollectionAsHtmlLargePreview(r)
       \/ deleteRequirement(r) \/ deleteRequirementCollection(r)
       \/ updateRequirement(r) \/ updateRequirementCollection(r)
       \/ createRequirement(r) \/ createRequirementCollection(r)
       \/ createRequirementFromDialog(r) \/ RequirementSelector(r)
    /\ UNCHANGED <<log, indexVars>>

Step(r) ==
    \/ Get(r) \/ Put(r) \/ AddToIndex(r) \/ Remove(r) \/ Reject(r) \/ Dialog(r)
    \/ Search(r) \/ LookUp(r)
    \/ LogEvent(r) /\ UNCHANGED indexVars

Next ==
    \/ \E r \in Requests : Endpoint(r) \/ Step(r)
    \/ Index
    \/ Finished /\ UNCHANGED <<log, indexVars>>

Spec == Init /\ [][Next]_vars

\* Servlet threads and the indexer thread run on; clients need not call.
FairSpec == Spec /\ WF_vars(Index) /\ \A r \in Requests : WF_vars(Step(r))
-----------------------------------------------------------------------------
(***************************************************************************)
(* Properties.                                                             *)
(***************************************************************************)
Late == {"index", "event"}

\* No stored requirement is forgotten by the search: it has a document, or its
\* task waits, or the request that creates it is about to submit the task.
StoredIsIndexed ==
    \A u \in Requirements : resources[u] # Absent =>
        \/ docs[u] > 0
        \/ \E i \in DOMAIN toIndex : toIndex[i] = u
        \/ \E r \in Requests : pc[r] = "index" /\ call[r].uri = u

\* A search only fails over a requirement that a DELETE removed: documents of
\* requirements still to be created are never found.
SearchFailsOverDeleted ==
    \A r \in Requests :
        pc[r] = "done" /\ call[r].method = "SEARCH" /\ status[r] = 500 =>
            \E e \in ToldBy(Late) : e.kind = "Deletion" /\ e.uri \in Requirements

\* A requirement that is created will be found by searches at some time.
CreatedIsFound == \A u \in Requirements : resources[u] # Absent ~> docs[u] > 0

\* Every change of the stores is told of once in the change log, after it was made;
\* in between the request owes the entry.
Abstract == INSTANCE TrackedStore WITH
    store <- resources, owed <- OwedBy(Late), Writers <- Requests, Base <- TrsBase,
    BaseBy <- Seed, Lossy <- FALSE

ImplementsTrackedStore == Abstract!TSSpec
===============================================================================
