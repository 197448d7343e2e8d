------------------------------- MODULE AmServer -------------------------------
(***************************************************************************)
(* The Architecture Management server: the REST handlers of Resource and   *)
(* LinkType (WsResource, WsLinkType, ResourcesService, LinksService), the  *)
(* RestDelegate they all share, its two repositories and the TRS change    *)
(* log it writes.  The steps of a request are its accesses to a repository *)
(* or to the log.                                                          *)
(***************************************************************************)
EXTENDS TrackedHandlers

CONSTANTS Resources,   \* URIs of AM resources
          LinkTypes,   \* URIs of link types
          UnsafeMaps   \* see MemResourceRepository

ASSUME AmAssumption ==
    /\ Uris = Resources \cup LinkTypes
    /\ Resources \cap LinkTypes = {}
    /\ UnsafeMaps \in BOOLEAN

VARIABLE raced  \* the puts and removals that overlap another change of their HashMap

vars == <<resources, pc, call, seen, overwrote, status, log, raced>>

Repository == INSTANCE MemResourceRepository

\* The two repositories are separate maps.
Siblings(u) == IF u \in Resources THEN Resources ELSE LinkTypes

\* The puts and removals under way in the HashMap that holds u.
Changing(u) == {q \in Requests : pc[q] \in {"insert", "unlink"} /\ call[q].uri \in Siblings(u)}
Busy(u) == Changing(u) # {}
RacedWith(r, u) == IF Busy(u) THEN raced \cup {r} \cup Changing(u) ELSE raced

Found(u) == Repository!Lookups(resources, u, Busy(u))

Init == RestInit /\ TrsInit /\ raced = {}
-----------------------------------------------------------------------------
(***************************************************************************)
(* The endpoints.  Every handler first asks the delegate for the resource, *)
(* except the creation factories, which go straight to the repository.     *)
(***************************************************************************)
\* Only the RDF representations come with an ETag header.
getResource(r) == ReceiveAny(r, "GET", Resources, "has")
getResourceAsHtml(r) == ReceiveAny(r, "VIEW", Resources, "has")
getResourceCompact(r) == ReceiveAny(r, "VIEW", Resources, "has")
getResourceAsHtmlSmallPreview(r) == ReceiveAny(r, "VIEW", Resources, "has")
getResourceAsHtmlLargePreview(r) == ReceiveAny(r, "VIEW", Resources, "has")
getLinkType(r) == ReceiveAny(r, "GET", LinkTypes, "has")
getLinkTypeAsHtml(r) == ReceiveAny(r, "VIEW", LinkTypes, "has")
getLinkTypeCompact(r) == ReceiveAny(r, "VIEW", LinkTypes, "has")
getLinkTypeAsHtmlSmallPreview(r) == ReceiveAny(r, "VIEW", LinkTypes, "has")
getLinkTypeAsHtmlLargePreview(r) == ReceiveAny(r, "VIEW", LinkTypes, "has")

deleteResource(r) == ReceiveAny(r, "DELETE", Resources, "has")
deleteLinkType(r) == ReceiveAny(r, "DELETE", LinkTypes, "has")

updateResource(r) == ReceivePut(r, Resources, "has")
updateLinkType(r) == ReceivePut(r, LinkTypes, "has")

\* An identifier that is missing in the body is a random UUID, which makes one of the
\* URIs not in use.
createResource(r) == ReceivePost(r, Resources)
createLinkType(r) == ReceivePost(r, LinkTypes)
-----------------------------------------------------------------------------
(***************************************************************************)
(* The steps of a request.                                                 *)
(***************************************************************************)
\* delegate.getX, hasResource: null, and 404 from every handler, if absent.
HasResource(r) ==
    /\ pc[r] = "has"
    /\ \E c \in Found(call[r].uri) : IF c = Absent THEN Answer(r, 404) ELSE Goto(r, "get")
    /\ UNCHANGED <<resources, call, seen, overwrote, log, raced>>

\* delegate.updateX compares the URIs; null is dereferenced if the body has no resource.
CheckBody(r) == CASE call[r].input = "none" -> Answer(r, 500)
                  [] call[r].input = "bad" -> Answer(r, 400)
                  [] OTHER -> Goto(r, "update")

\* Mutant of AfterGet: the ETag is not compared.
AfterGetUnconditional(r, c) ==
    CASE call[r].method \in {"GET", "VIEW"} -> Present(r)
      [] call[r].method = "DELETE" -> Goto(r, "remove")
      [] OTHER -> CheckBody(r)

\* What the handler does with the resource it got.
AfterGet(r, c) ==
    CASE call[r].method \in {"GET", "VIEW"} -> Present(r)
      [] call[r].method = "DELETE" -> Goto(r, "remove")
      [] OTHER -> IF call[r].ifMatch \notin {NoETag, calculateETag(c)} THEN Answer(r, 412)
                  ELSE CheckBody(r)

\* delegate.getX, getResource: NoSuchElementException, 500, if absent by now.
GetResource(r) ==
    /\ pc[r] = "get"
    /\ \E c \in Found(call[r].uri) :
          /\ seen' = [seen EXCEPT ![r] = c]
          /\ IF c = Absent THEN Answer(r, 500) ELSE AfterGet(r, c)
    /\ UNCHANGED <<resources, call, overwrote, log, raced>>

\* Mutant of UpdateResource: an update of what is not there is passed over.
UpdateResourceSilently(r) ==
    /\ pc[r] = "update"
    /\ \E c \in Found(call[r].uri) : IF c = Absent THEN Answer(r, 200) ELSE Goto(r, "put")
    /\ UNCHANGED <<resources, call, seen, overwrote, log, raced>>

\* repository.updateResource looks the resource up once more.
UpdateResource(r) ==
    /\ pc[r] = "update"
    /\ \E c \in Found(call[r].uri) : IF c = Absent THEN Answer(r, 400) ELSE Goto(r, "put")
    /\ UNCHANGED <<resources, call, seen, overwrote, log, raced>>

\* The put of addResource (POST) and of updateResource (PUT).
Put(r) ==
    LET u == call[r].uri IN
    /\ pc[r] = "put"
    /\ ~UnsafeMaps \/ (resources[u] # Absent /\ ~Busy(u))
    /\ resources' \in Repository!Stores(resources, u, r, Siblings(u), FALSE)
    /\ overwrote' = [overwrote EXCEPT ![r] = resources[u]]
    /\ Goto(r, "event")
    /\ UNCHANGED <<call, seen, log, raced>>

\* Where a put inserts an entry, or another one is doing so, it takes a while.
PutStarts(r) ==
    LET u == call[r].uri IN
    /\ pc[r] = "put"
    /\ UnsafeMaps /\ (resources[u] = Absent \/ Busy(u))
    /\ raced' = RacedWith(r, u)
    /\ Goto(r, "insert")
    /\ UNCHANGED <<resources, call, seen, overwrote, log>>

PutEnds(r) ==
    LET u == call[r].uri IN
    /\ pc[r] = "insert"
    /\ resources' \in Repository!Stores(resources, u, r, Siblings(u), r \in raced)
    /\ overwrote' = [overwrote EXCEPT ![r] = resources[u]]
    /\ raced' = raced \ {r}
    /\ Goto(r, "event")
    /\ UNCHANGED <<call, seen, log>>

\* Mutants of Remove: what Map.remove returned is not looked at; the log entry is
\* forgotten; the exception is swallowed and nothing is answered.
RemoveUnchecked(r) ==
    LET u == call[r].uri IN
    /\ pc[r] = "remove" /\ ~UnsafeMaps
    /\ resources' \in Repository!Removes(resources, u, Siblings(u), FALSE)
    /\ Goto(r, "event")
    /\ UNCHANGED <<call, seen, overwrote, log, raced>>

RemoveUnannounced(r) ==
    LET u == call[r].uri IN
    /\ pc[r] = "remove" /\ ~UnsafeMaps
    /\ resources' \in Repository!Removes(resources, u, Siblings(u), FALSE)
    /\ Answer(r, IF resources[u] = Absent THEN 500 ELSE 200)
    /\ UNCHANGED <<call, seen, overwrote, log, raced>>

RemoveUnanswered(r) ==
    LET u == call[r].uri IN
    /\ pc[r] = "remove" /\ ~UnsafeMaps
    /\ resources' \in Repository!Removes(resources, u, Siblings(u), FALSE)
    /\ Goto(r, IF resources[u] = Absent THEN "done" ELSE "event")
    /\ UNCHANGED <<call, seen, overwrote, log, raced>>

\* delegate.deleteX: NoSuchElementException, 500, if another DELETE was faster.
Remove(r) ==
    LET u == call[r].uri IN
    /\ pc[r] = "remove" /\ ~UnsafeMaps
    /\ resources' \in Repository!Removes(resources, u, Siblings(u), FALSE)
    /\ IF resources[u] = Absent THEN Answer(r, 500) ELSE Goto(r, "event")
    /\ UNCHANGED <<call, seen, overwrote, log, raced>>

\* Where maps race Map.remove takes a while: first it looks the entry up, ...
RemoveStarts(r) ==
    LET u == call[r].uri IN
    /\ pc[r] = "remove" /\ UnsafeMaps
    /\ \E c \in Found(u) :
          IF c = Absent THEN Answer(r, 500) /\ UNCHANGED raced
          ELSE Goto(r, "unlink") /\ raced' = RacedWith(r, u)
    /\ UNCHANGED <<resources, call, seen, overwrote, log>>

\* Mutant of RemoveEnds: the log entry is forgotten.
RemoveEndsUnannounced(r) ==
    LET u == call[r].uri IN
    /\ pc[r] = "unlink"
    /\ resources' \in Repository!Removes(resources, u, Siblings(u), r \in raced)
    /\ raced' = raced \ {r}
    /\ Answer(r, 200)
    /\ UNCHANGED <<call, seen, overwrote, log>>

\* ... then it unlinks the entry, which another DELETE may have found as well.
RemoveEnds(r) ==
    LET u == call[r].uri IN
    /\ pc[r] = "unlink"
    /\ resources' \in Repository!Removes(resources, u, Siblings(u), r \in raced)
    /\ raced' = raced \ {r}
    /\ Goto(r, "event")
    /\ UNCHANGED <<call, seen, overwrote, log>>

\* A creation without a resource in the body: null is dereferenced.
Reject(r) ==
    /\ pc[r] = "reject"
    /\ Answer(r, 500)
    /\ UNCHANGED <<resources, call, seen, overwrote, log, raced>>

Endpoint(r) ==
    /\ \/ getResource(r) \/ getResourceAsHtml(r) \/ getResourceCompact(r)
       \/ getResourceAsHtmlSmallPreview(r) \/ getResourceAsHtmlLargePreview(r)
       \/ getLinkType(r) \/ getLinkTypeAsHtml(r) \/ getLinkTypeCompact(r)
       \/ getLinkTypeAsHtmlSmallPreview(r) \/ getLinkTypeAsHtmlLargePreview(r)
       \/ deleteResource(r) \/ deleteLinkType(r)
       \/ updateResource(r) \/ updateLinkType(r)
       \/ createResource(r) \/ createLinkType(r)
    /\ UNCHANGED <<log, raced>>

Step(r) ==
    \/ HasResource(r) \/ GetResource(r) \/ UpdateResource(r) \/ Reject(r)
    \/ Put(r) \/ PutStarts(r) \/ PutEnds(r) \/ Remove(r) \/ RemoveStarts(r) \/ RemoveEnds(r)
    \/ LogEvent(r) /\ UNCHANGED raced

Next ==
    \/ \E r \in Requests : Endpoint(r) \/ Step(r)
    \/ Finished /\ UNCHANGED <<log, raced>>

Spec == Init /\ [][Next]_vars
-----------------------------------------------------------------------------
(***************************************************************************)
(* Properties.                                                             *)
(***************************************************************************)
Steps == {"new", "has", "get", "reject", "update", "put", "insert", "remove", "unlink",
          "event", "done"}

\* Every variable has values of its type.
TypeOK ==
    /\ RestTypeOK
    /\ pc \in [Requests -> Steps]
    /\ log \in Seq(Events)
    /\ raced \subseteq {r \in Requests : pc[r] \in {"insert", "unlink"}}

Late == {"event"}

\* See StoredBySuccessOf, StoredIsTrackedBy and KeptUntilDeletedBy: after its put or remove an AM handler has the log entry left to write.
StoredBySuccess == StoredBySuccessOf(Late)
StoredIsTracked == StoredIsTrackedBy(Late)
KeptUntilDeleted == KeptUntilDeletedBy(Late)

\* Every change of the repositories is told of once in the change log, after it
\* was made; in between the request owes the entry.
Abstract == INSTANCE TrackedStore WITH
    store <- resources, owed <- OwedBy(Late), Writers <- Requests, Base <- TrsBase,
    BaseBy <- Seed, Lossy <- UnsafeMaps

ImplementsTrackedStore == Abstract!TSSpec
===============================================================================
