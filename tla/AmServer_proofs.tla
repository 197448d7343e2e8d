---------------------------- MODULE AmServer_proofs ----------------------------
(***************************************************************************)
(* Proofs about the AM server, for any number of requests and resources.   *)
(***************************************************************************)
EXTENDS AmServer, TLAPS

(***************************************************************************)
(* Which handlers are at which step, and what they know then.              *)
(***************************************************************************)
Looking == {"GET", "VIEW", "DELETE", "PUT"}

OnItsWay ==
    \A r \in Requests :
        /\ pc[r] \in {"has", "get"} => call[r].method \in Looking
        /\ pc[r] = "update" => call[r].method = "PUT"
        /\ pc[r] \in {"put", "insert"} => call[r].method \in {"PUT", "POST"}
        /\ pc[r] = "remove" => call[r].method = "DELETE"
        /\ pc[r] = "unlink" => call[r].method = "DELETE" /\ UnsafeMaps
        /\ pc[r] = "event" => call[r].method \in Changes
        /\ status[r] = 200 /\ call[r].method = "GET" => seen[r] \in Contents

\* A request that comes in, whichever the endpoint.
Comes(r) ==
    \E method \in Methods, u \in Uris, ifMatch \in ETags \cup {NoETag},
       input \in Inputs, first \in {"has", "put", "reject"} :
          /\ Receive(r, method, u, ifMatch, input, first)
          /\ \/ first # "has" /\ method = "POST" /\ ifMatch = NoETag
             \/ first = "has" /\ method \in Looking

TypeInv == TypeOK /\ OnItsWay

LEMMA KnownETagsType == TypeInv => KnownETags \subseteq ETags
  BY DEF TypeInv, TypeOK, RestTypeOK, OnItsWay, KnownETags, ETags, Answered, Success,
         Contents, calculateETag

LEMMA EndpointComes ==
  ASSUME TypeInv, NEW r \in Requests, Endpoint(r)
  PROVE  Comes(r) /\ UNCHANGED <<log, raced>>
<1>1. KnownETags \subseteq ETags
  BY KnownETagsType
<1>2. ASSUME NEW method \in Looking, NEW us \in {Resources, LinkTypes},
             ReceiveAny(r, method, us, "has")
      PROVE  Comes(r)
  BY <1>2, AmAssumption DEF ReceiveAny, Comes, Looking, Methods, Inputs
<1>3. ASSUME NEW us \in {Resources, LinkTypes}, ReceivePost(r, us)
      PROVE  Comes(r)
  BY <1>3, AmAssumption DEF ReceivePost, ReceiveAny, Comes, Methods, Inputs
<1>4. ASSUME NEW us \in {Resources, LinkTypes}, ReceivePut(r, us, "has")
      PROVE  Comes(r)
  BY <1>1, <1>4, AmAssumption DEF ReceivePut, Comes, Looking, Methods
<1>5. \/ \E us \in {Resources, LinkTypes}, method \in Looking : ReceiveAny(r, method, us, "has")
      \/ \E us \in {Resources, LinkTypes} : ReceivePost(r, us)
      \/ \E us \in {Resources, LinkTypes} : ReceivePut(r, us, "has")
  BY DEF Endpoint, Looking, getResource, getResourceAsHtml, getResourceCompact,
     getResourceAsHtmlSmallPreview, getResourceAsHtmlLargePreview, getLinkType,
     getLinkTypeAsHtml, getLinkTypeCompact, getLinkTypeAsHtmlSmallPreview,
     getLinkTypeAsHtmlLargePreview, deleteResource, deleteLinkType, updateResource,
     updateLinkType, createResource, createLinkType
<1> QED
  BY <1>2, <1>3, <1>4, <1>5 DEF Endpoint
-----------------------------------------------------------------------------
(***************************************************************************)
(* Type correctness.                                                       *)
(***************************************************************************)
LEMMA InitTypeInv == Init => TypeInv
  BY RestAssumption DEF Init, RestInit, TrsInit, TypeInv, TypeOK, RestTypeOK, OnItsWay, Contents,
     Steps, Success

LEMMA ComesTypeInv ==
  ASSUME TypeInv, NEW r \in Requests, Comes(r), UNCHANGED <<log, raced>>
  PROVE  TypeInv'
<1>1. PICK method \in Methods, u \in Uris, ifMatch \in ETags \cup {NoETag},
           input \in Inputs, first \in {"has", "put", "reject"} :
              /\ Receive(r, method, u, ifMatch, input, first)
              /\ \/ first # "has" /\ method = "POST" /\ ifMatch = NoETag
                 \/ first = "has" /\ method \in Looking
  BY DEF Comes
<1>2. call'[r] \in Calls
  BY <1>1 DEF Receive, Calls, Answered, TypeInv, TypeOK, RestTypeOK
<1>3. call' \in [Requests -> Calls \cup {NoCall}] /\ \A q \in Requests \ {r} : call'[q] = call[q]
  BY <1>1, <1>2 DEF Receive, TypeInv, TypeOK, RestTypeOK
<1>4. RestTypeOK'
  BY <1>1, <1>2, <1>3 DEF Receive, Goto, TypeInv, TypeOK, RestTypeOK
<1>5. TypeOK'
  BY <1>1, <1>4 DEF Receive, Goto, TypeInv, TypeOK, Steps
<1>6. OnItsWay'
  BY <1>1, <1>3 DEF Receive, Goto, TypeInv, TypeOK, RestTypeOK, OnItsWay, Looking
<1> QED
  BY <1>5, <1>6 DEF TypeInv

(***************************************************************************)
(* What the steps that use the repository do, whether the maps race or not.*)
(***************************************************************************)
LEMMA FindsStored ==
  ASSUME NEW u
  PROVE  /\ Found(u) \subseteq {resources[u], Absent}
         /\ ~UnsafeMaps => Found(u) = {resources[u]}
BY DEF Found, Repository!Lookups

LEMMA PutStores ==
  ASSUME TypeInv, NEW r \in Requests, Put(r) \/ PutEnds(r), call[r].uri \in Uris
  PROVE  LET u == call[r].uri IN
         /\ resources' \in [Uris -> Contents \cup {Absent}]
         /\ resources'[u] \in {r, Absent}
         /\ \A v \in Uris \ {u} : resources'[v] \in {resources[v], Absent}
         /\ ~UnsafeMaps => resources' = [resources EXCEPT ![u] = r]
<1>1. CASE Put(r)
  BY <1>1 DEF Put, Repository!Stores, TypeInv, TypeOK, RestTypeOK, Contents
<1>2. CASE PutEnds(r)
  BY <1>2 DEF PutEnds, Repository!Stores, Repository!Remains, TypeInv, TypeOK, RestTypeOK,
     Contents
<1> QED
  BY <1>1, <1>2

LEMMA RemoveRemoves ==
  ASSUME TypeInv, NEW r \in Requests, Remove(r) \/ RemoveEnds(r), call[r].uri \in Uris
  PROVE  LET u == call[r].uri IN
         /\ resources' \in [Uris -> Contents \cup {Absent}]
         /\ \A v \in Uris : resources'[v] \in {resources[v], Absent}
         /\ \/ Answer(r, 500) /\ resources[u] = Absent /\ resources' = resources
            \/ Goto(r, "event") /\ (UnsafeMaps \/ resources[u] # Absent)
         /\ ~UnsafeMaps => resources' = [resources EXCEPT ![u] = Absent]
<1>1. CASE Remove(r)
  BY <1>1 DEF Remove, Repository!Removes, TypeInv, TypeOK, RestTypeOK
<1>2. CASE RemoveEnds(r)
  <2>1. UnsafeMaps
    BY <1>2 DEF RemoveEnds, TypeInv, OnItsWay
  <2> QED
    BY <1>2, <2>1 DEF RemoveEnds, Repository!Removes, Repository!Remains, TypeInv, TypeOK, RestTypeOK
<1> QED
  BY <1>1, <1>2

LEMMA StepTypeInv ==
  ASSUME TypeInv, NEW r \in Requests, Step(r)
  PROVE  TypeInv'
<1> DEFINE u == call[r].uri
<1>0. /\ pc[r] # "new"
      /\ pc[r] # "done"
  BY DEF Step, HasResource, GetResource, UpdateResource, Put, PutStarts, PutEnds, Remove, RemoveStarts,
     RemoveEnds, Reject, LogEvent
<1>1. /\ call[r] \in Calls /\ u \in Uris
      /\ Siblings(u) \subseteq Uris
      /\ Busy(u) \in BOOLEAN
  BY <1>0, AmAssumption DEF TypeInv, TypeOK, RestTypeOK, Calls, Siblings, Busy
<1>2. CASE HasResource(r)
  BY <1>0, <1>2 DEF HasResource, Answer, Goto, TypeInv, TypeOK, RestTypeOK, OnItsWay, Steps, Failure, Success, NoContent
<1>3. CASE GetResource(r)
  <2>1. PICK c \in Found(u) :
          /\ seen' = [seen EXCEPT ![r] = c]
          /\ IF c = Absent THEN Answer(r, 500) ELSE AfterGet(r, c)
    BY <1>3 DEF GetResource
  <2>2. c \in Contents \cup {Absent}
    BY <1>1, <2>1, FindsStored DEF TypeInv, TypeOK, RestTypeOK
  <2>3. \/ c = Absent /\ Answer(r, 500)
        \/ c # Absent /\ call[r].method \in {"GET", "VIEW"} /\ Answer(r, 200)
        \/ c # Absent /\ call[r].method \in {"GET", "VIEW"} /\ Answer(r, 500)
        \/ call[r].method = "PUT" /\ \E code \in {400, 412, 500} : Answer(r, code)
        \/ call[r].method = "DELETE" /\ Goto(r, "remove")
        \/ call[r].method = "PUT" /\ Goto(r, "update")
    BY <1>0, <1>1, <1>3, <2>1 DEF AfterGet, Present, CheckBody, GetResource, TypeInv, OnItsWay, Looking
  <2> QED
    BY <1>0, <1>3, <2>1, <2>2, <2>3 DEF GetResource, Answer, Goto, TypeInv, TypeOK, RestTypeOK, OnItsWay, Steps, Failure, Success, NoContent
<1>4. CASE UpdateResource(r)
  BY <1>0, <1>4 DEF UpdateResource, Answer, Goto, TypeInv, TypeOK, RestTypeOK, OnItsWay, Steps, Failure, Success, NoContent
<1>5. CASE Put(r)
  <2>1. resources' \in [Uris -> Contents \cup {Absent}]
    BY <1>1, <1>5, PutStores
  <2> QED
    BY <1>0, <1>1, <1>5, <2>1 DEF Put, Goto, TypeInv, TypeOK, RestTypeOK, OnItsWay, Steps, Changes
<1>6. CASE PutStarts(r)
  BY <1>0, <1>6 DEF PutStarts, RacedWith, Goto, TypeInv, TypeOK, RestTypeOK, OnItsWay, Steps, Changing
<1>7. CASE PutEnds(r)
  <2>1. resources' \in [Uris -> Contents \cup {Absent}]
    BY <1>1, <1>7, PutStores
  <2> QED
    BY <1>0, <1>1, <1>7, <2>1 DEF PutEnds, Goto, TypeInv, TypeOK, RestTypeOK, OnItsWay, Steps, Changes
<1>8. CASE Remove(r) \/ RemoveEnds(r)
  <2>1. resources' \in [Uris -> Contents \cup {Absent}]
    BY <1>1, <1>8, RemoveRemoves
  <2>2. Answer(r, 500) \/ Goto(r, "event")
    BY <1>8 DEF Remove, RemoveEnds
  <2>3. /\ pc[r] \in {"remove", "unlink"}
        /\ raced' \subseteq raced
        /\ pc[r] = "unlink" => raced' = raced \ {r}
        /\ UNCHANGED <<call, seen, overwrote, log>>
    BY <1>8 DEF Remove, RemoveEnds
  <2>4. call[r].method = "DELETE"
    BY <2>3 DEF TypeInv, OnItsWay
  <2>5. RestTypeOK'
    BY <1>0, <2>1, <2>2, <2>3 DEF Goto, Answer, TypeInv, TypeOK, RestTypeOK, Success, Failure
  <2>6. raced' \subseteq {q \in Requests : pc[q] \in {"insert", "unlink"}} \ {r}
    BY <2>3 DEF TypeInv, TypeOK
  <2>7. pc' \in [Requests -> Steps] /\ \A q \in Requests \ {r} : pc'[q] = pc[q]
    BY <2>2 DEF Goto, Answer, TypeInv, TypeOK, Steps
  <2>8. TypeOK'
    BY <2>3, <2>5, <2>6, <2>7 DEF TypeInv, TypeOK
  <2>9. OnItsWay'
    BY <1>0, <2>2, <2>3, <2>4, <2>7 DEF Goto, Answer, TypeInv, TypeOK, RestTypeOK, OnItsWay, Changes
  <2> QED
    BY <2>8, <2>9 DEF TypeInv
<1>10. CASE RemoveStarts(r)
  <2>1. \/ Answer(r, 500) /\ raced' = raced
        \/ UnsafeMaps /\ Goto(r, "unlink") /\ raced' \subseteq raced \cup {r} \cup Changing(u)
    BY <1>10 DEF RemoveStarts, RacedWith
  <2>2. pc[r] = "remove" /\ UNCHANGED <<resources, call, seen, overwrote, log>>
    BY <1>10 DEF RemoveStarts
  <2> QED
    BY <1>0, <1>1, <2>1, <2>2 DEF Goto, Answer, TypeInv, TypeOK, RestTypeOK, OnItsWay, Steps, Changes, Changing, Success, Failure, NoContent
<1>11. CASE Reject(r)
  BY <1>0, <1>11 DEF Reject, Answer, TypeInv, TypeOK, RestTypeOK, OnItsWay, Steps, Failure, Success
<1>9. CASE LogEvent(r) /\ UNCHANGED raced
  <2>1. Entry(r) \in Events
    BY <1>1, <1>9 DEF Entry, Events, Kind, Kinds, Calls
  <2>2. log' \in Seq(Events)
    BY <1>9, <2>1 DEF LogEvent, TypeInv, TypeOK
  <2> QED
    BY <1>0, <1>1, <1>9, <2>2 DEF LogEvent, Answer, TypeInv, TypeOK, RestTypeOK, OnItsWay, Steps, Changes, Success
<1> QED
  BY <1>2, <1>3, <1>4, <1>5, <1>6, <1>7, <1>8, <1>9, <1>10, <1>11 DEF Step

LEMMA NextTypeInv == TypeInv /\ [Next]_vars => TypeInv'
<1> SUFFICES ASSUME TypeInv, [Next]_vars
             PROVE  TypeInv'
  OBVIOUS
<1>1. ASSUME NEW r \in Requests, Endpoint(r)
      PROVE  TypeInv'
  BY <1>1, EndpointComes, ComesTypeInv
<1>2. ASSUME NEW r \in Requests, Step(r)
      PROVE  TypeInv'
  BY <1>2, StepTypeInv
<1>3. ASSUME UNCHANGED vars
      PROVE  TypeInv'
  BY <1>3 DEF vars, TypeInv, TypeOK, RestTypeOK, OnItsWay
<1>4. ASSUME Finished /\ UNCHANGED <<log, raced>>
      PROVE  UNCHANGED vars
  BY <1>4 DEF Finished, restVars, vars
<1> QED
  BY <1>1, <1>2, <1>3, <1>4 DEF Next

\* Every variable of the AM server always has a value of its type: in particular
\* a request has a status exactly when it is done, and ETags come from the store.
THEOREM TypeCorrect == Spec => []TypeOK
<1>1. TypeInv => TypeOK
  BY DEF TypeInv
<1> QED
  BY <1>1, InitTypeInv, NextTypeInv, PTL DEF Spec
-----------------------------------------------------------------------------
(***************************************************************************)
(* The store and the log.                                                  *)
(***************************************************************************)
\* A handler that goes on to change the store has compared the ETags.
Conditional ==
    \A r \in Requests :
        /\ pc[r] \in {"update", "put", "insert", "event"} \/ status[r] \in Success
        /\ call[r].method \in {"PUT", "POST"}
        /\ call[r].ifMatch # NoETag
        => call[r].ifMatch = calculateETag(seen[r])

\* A PUT that has passed the lookup of updateResource stores what is tracked, and so
\* does a removal unlink it that has found its entry.
ChangesTracked ==
    \A r \in Requests :
        \/ pc[r] \in {"put", "insert"} /\ call[r].method = "PUT"
        \/ pc[r] = "unlink"
        => TrackedBy(Late, call[r].uri)

StoreInv ==
    /\ TypeInv
    /\ Conditional
    /\ AnswersMatchLog
    /\ StoredBySuccess
    /\ ChangesTracked
    /\ StoredIsTracked

\* What a step of a request leaves alone.
LEMMA StepOfOne ==
  ASSUME TypeInv, NEW r \in Requests, Step(r)
  PROVE  /\ call' = call
         /\ pc[r] \notin {"new", "done"}
         /\ \A q \in Requests \ {r} :
               pc'[q] = pc[q] /\ status'[q] = status[q] /\ seen'[q] = seen[q]
         /\ \/ LogEvent(r)
            \/ (Put(r) \/ PutEnds(r)) /\ Goto(r, "event") /\ log' = log
            \/ (Remove(r) \/ RemoveEnds(r)) /\ log' = log
            \/ /\ UNCHANGED <<resources, log>>
               /\ pc'[r] # "event"
               /\ status'[r] \in Success => call[r].method \in {"GET", "VIEW"}
<1>0. pc[r] \notin {"new", "done"} /\ status[r] = 0
  BY DEF Step, HasResource, GetResource, UpdateResource, Put, PutStarts, PutEnds, Remove, RemoveStarts,
     RemoveEnds, Reject, LogEvent, TypeInv, TypeOK, RestTypeOK
<1>1. CASE HasResource(r)
  BY <1>0, <1>1 DEF HasResource, Answer, Goto, TypeInv, TypeOK, RestTypeOK, Success
<1>2. CASE GetResource(r)
  <2>1. PICK c \in Found(call[r].uri) :
          /\ seen' = [seen EXCEPT ![r] = c]
          /\ IF c = Absent THEN Answer(r, 500) ELSE AfterGet(r, c)
    BY <1>2 DEF GetResource
  <2>2. \/ \E code \in {400, 412, 500} : Answer(r, code)
        \/ call[r].method \in {"GET", "VIEW"} /\ Answer(r, 200)
        \/ \E step \in {"remove", "update"} : Goto(r, step)
    BY <2>1 DEF AfterGet, Present, CheckBody
  <2> QED
    BY <1>0, <1>2, <2>1, <2>2 DEF GetResource, Answer, Goto, TypeInv, TypeOK, RestTypeOK,
       Success
<1>3. CASE UpdateResource(r)
  BY <1>0, <1>3 DEF UpdateResource, Answer, Goto, TypeInv, TypeOK, RestTypeOK, Success
<1>4. CASE Put(r) \/ PutEnds(r)
  BY <1>0, <1>4 DEF Put, PutEnds, Goto, TypeInv, TypeOK, RestTypeOK
<1>5. CASE PutStarts(r)
  BY <1>0, <1>5 DEF PutStarts, Goto, TypeInv, TypeOK, RestTypeOK, Success
<1>6. CASE Remove(r) \/ RemoveEnds(r)
  BY <1>0, <1>6 DEF Remove, RemoveEnds, Goto, Answer, TypeInv, TypeOK, RestTypeOK
<1>8. CASE RemoveStarts(r) \/ Reject(r)
  BY <1>0, <1>8 DEF RemoveStarts, Reject, Goto, Answer, TypeInv, TypeOK, RestTypeOK, Success
<1>7. CASE LogEvent(r)
  BY <1>0, <1>7 DEF LogEvent, Answer, TypeInv, TypeOK, RestTypeOK
<1> QED
  BY <1>0, <1>1, <1>2, <1>3, <1>4, <1>5, <1>6, <1>7, <1>8 DEF Step

LEMMA KindOf ==
  /\ Kind("POST") = "Creation" /\ Kind("PUT") = "Modification" /\ Kind("DELETE") = "Deletion"
  /\ \A r : Entry(r).kind = Kind(call[r].method) /\ Entry(r).uri = call[r].uri /\ Entry(r).by = r
<1>1. Kind("POST") = "Creation" /\ Kind("PUT") = "Modification" /\ Kind("DELETE") = "Deletion"
  BY DEF Kind
<1>2. \A r : Entry(r).kind = Kind(call[r].method) /\ Entry(r).uri = call[r].uri /\ Entry(r).by = r
  BY DEF Entry
<1> QED
  BY <1>1, <1>2

LEMMA LogHoldsEvents == TypeInv => \A e \in Logged : e \in Events /\ e.by \in Requests
<1>1. TypeInv => \A e \in Logged : e \in Events
  BY DEF TypeInv, TypeOK, Logged
<1>2. \A e \in Events : e.by \in Requests
  BY DEF Events
<1> QED
  BY <1>1, <1>2

LEMMA LogEventAppends ==
  ASSUME TypeInv, NEW r \in Requests, LogEvent(r)
  PROVE  /\ Entry(r) \in Events
         /\ log' = Append(log, Entry(r))
         /\ Logged' = Logged \cup {Entry(r)}
<1>1. call[r] \in Calls /\ call[r].method \in Changes
  BY DEF LogEvent, TypeInv, TypeOK, RestTypeOK, OnItsWay
<1>2. Entry(r) \in Events
  BY <1>1 DEF Entry, Events, Kind, Kinds, Calls
<1>3. log' = Append(log, Entry(r)) /\ log \in Seq(Events)
  BY DEF LogEvent, TypeInv, TypeOK
<1>4. /\ DOMAIN log' = DOMAIN log \cup {Len(log) + 1}
      /\ \A i \in DOMAIN log : log'[i] = log[i]
      /\ log'[Len(log) + 1] = Entry(r)
  BY <1>2, <1>3
<1>5. Logged' = Logged \cup {Entry(r)}
  BY <1>4 DEF Logged
<1> QED
  BY <1>2, <1>3, <1>5

\* What has been told, or is about to be, stays so.
LEMMA ToldByStep ==
  ASSUME TypeInv, NEW r \in Requests, Step(r)
  PROVE  /\ ToldBy(Late) \subseteq ToldBy(Late)'
         /\ pc'[r] = "event" => Entry(r) \in ToldBy(Late)'
         /\ ToldBy(Late)' \subseteq ToldBy(Late) \cup {Entry(r)}
         /\ pc'[r] # "event" => ToldBy(Late)' = ToldBy(Late)
         /\ \A q \in Requests : Entry(q)' = Entry(q)
<1>1. call' = call /\ \A q \in Requests \ {r} : pc'[q] = pc[q]
  BY StepOfOne
<1>2. \A q \in Requests : Entry(q)' = Entry(q)
  BY <1>1 DEF Entry
<1>3. pc'[r] = "event" => Entry(r) \in ToldBy(Late)'
  BY <1>2 DEF ToldBy, OwedBy, Late
<1>4. CASE LogEvent(r)
  <2>1. pc[r] = "event" /\ pc'[r] = "done" /\ Logged' = Logged \cup {Entry(r)}
    BY <1>4, LogEventAppends DEF LogEvent, Answer, TypeInv, TypeOK
  <2>2. OwedBy(Late) = OwedBy(Late)' \cup {Entry(r)}
    BY <1>1, <1>2, <2>1 DEF OwedBy, Late
  <2> QED
    BY <1>2, <1>3, <2>1, <2>2 DEF ToldBy
<1>5. CASE log' = log /\ pc[r] # "event"
  <2>1. pc'[r] # "event" => OwedBy(Late)' = OwedBy(Late)
    BY <1>1, <1>2, <1>5 DEF OwedBy, Late
  <2>2. pc'[r] = "event" => OwedBy(Late)' = OwedBy(Late) \cup {Entry(r)}
    BY <1>1, <1>2, <1>5 DEF OwedBy, Late
  <2> QED
    BY <1>2, <1>3, <1>5, <2>1, <2>2 DEF ToldBy, Logged
<1>6. pc[r] = "event" => LogEvent(r)
  BY DEF Step, HasResource, GetResource, UpdateResource, Put, PutStarts, PutEnds, Remove, RemoveStarts,
     RemoveEnds, Reject
<1>7. log' = log \/ LogEvent(r)
  BY StepOfOne
<1> QED
  BY <1>2, <1>3, <1>4, <1>5, <1>6, <1>7

LEMMA TrackedStays ==
  ASSUME ToldBy(Late) \subseteq ToldBy(Late)', NEW u, TrackedBy(Late, u)
  PROVE  TrackedBy(Late, u)'
BY DEF TrackedBy

LEMMA ToldByComes ==
  ASSUME TypeInv, NEW r \in Requests, Comes(r), UNCHANGED <<log, raced>>
  PROVE  /\ ToldBy(Late)' = ToldBy(Late) /\ OwedBy(Late)' = OwedBy(Late)
         /\ pc[r] = "new" /\ pc'[r] \in {"has", "put", "reject"} /\ status[r] = 0 /\ status' = status
         /\ UNCHANGED <<resources, seen, overwrote>>
         /\ \A q \in Requests \ {r} : pc'[q] = pc[q] /\ call'[q] = call[q]
         /\ pc'[r] = "put" => call'[r].method = "POST" /\ call'[r].ifMatch = NoETag
<1>1. /\ pc[r] = "new" /\ pc'[r] \in {"has", "put", "reject"} /\ status[r] = 0 /\ status' = status
      /\ UNCHANGED <<resources, seen, overwrote>>
      /\ \A q \in Requests \ {r} : pc'[q] = pc[q] /\ call'[q] = call[q]
      /\ pc'[r] = "put" => call'[r].method = "POST" /\ call'[r].ifMatch = NoETag
  BY DEF Comes, Receive, Goto, TypeInv, TypeOK, RestTypeOK
<1>2. \A q \in Requests \ {r} : Entry(q)' = Entry(q)
  BY <1>1 DEF Entry
<1>3. \A q \in Requests : pc'[q] = "event" <=> pc[q] = "event"
  BY <1>1
<1>4. OwedBy(Late)' = OwedBy(Late)
  BY <1>1, <1>2, <1>3 DEF OwedBy, Late
<1> QED
  BY <1>1, <1>4 DEF ToldBy, Logged

LEMMA InitStoreInv == Init => StoreInv
<1> SUFFICES ASSUME Init PROVE StoreInv
  OBVIOUS
<1>1. TypeInv
  BY InitTypeInv
<1>2. Logged = {} /\ OwedBy(Late) = {}
  BY DEF Init, RestInit, TrsInit, Logged, OwedBy, Late
<1>3. Conditional /\ ChangesTracked
  BY DEF Init, RestInit, Conditional, ChangesTracked, Success
<1>4. AnswersMatchLog
  BY <1>2 DEF Init, RestInit, TrsInit, AnswersMatchLog, Success
<1>5. StoredBySuccess
  BY RestAssumption DEF Init, RestInit, StoredBySuccess, StoredBySuccessOf, Contents
<1>6. StoredIsTracked
  BY DEF Init, RestInit, StoredIsTracked, StoredIsTrackedBy, TrackedBy, TrsBase
<1> QED
  BY <1>1, <1>3, <1>4, <1>5, <1>6 DEF StoreInv

LEMMA ComesStoreInv ==
  ASSUME StoreInv, NEW r \in Requests, Comes(r), UNCHANGED <<log, raced>>
  PROVE  StoreInv'
<1>1. TypeInv /\ TypeInv'
  BY ComesTypeInv DEF StoreInv
<1>2. /\ ToldBy(Late)' = ToldBy(Late)
      /\ pc[r] = "new" /\ pc'[r] \in {"has", "put", "reject"} /\ status[r] = 0 /\ status' = status
      /\ UNCHANGED <<resources, seen, overwrote>>
      /\ \A q \in Requests \ {r} : pc'[q] = pc[q] /\ call'[q] = call[q]
      /\ pc'[r] = "put" => call'[r].method = "POST" /\ call'[r].ifMatch = NoETag
  BY <1>1, ToldByComes
<1>3. Conditional'
  BY <1>2 DEF Conditional, StoreInv, Success
<1>4. AnswersMatchLog'
  <2>1. \A e \in Logged : e.by \in Requests \ {r}
    <3>1. ~ \E e \in Logged : e.by = r
      BY <1>2 DEF StoreInv, AnswersMatchLog, Success
    <3> QED
      BY <1>1, <3>1, LogHoldsEvents
  <2>2. \A e \in Logged : Entry(e.by)' = Entry(e.by)
    BY <1>2, <2>1 DEF Entry
  <2> QED
    BY <1>2, <2>1, <2>2 DEF AnswersMatchLog, StoreInv, Logged, Success
<1>5. StoredBySuccess'
  BY <1>2 DEF StoreInv, StoredBySuccess, StoredBySuccessOf, Late
<1>6. \A u : TrackedBy(Late, u)' <=> TrackedBy(Late, u)
  BY <1>2 DEF TrackedBy
<1>7. StoredIsTracked'
  BY <1>2, <1>6 DEF StoreInv, StoredIsTracked, StoredIsTrackedBy
<1>8. ChangesTracked'
  BY <1>2, <1>6 DEF StoreInv, ChangesTracked
<1> QED
  BY <1>1, <1>3, <1>4, <1>5, <1>7, <1>8 DEF StoreInv

LEMMA StepStoreInv ==
  ASSUME StoreInv, NEW r \in Requests, Step(r)
  PROVE  StoreInv'
<1> DEFINE u == call[r].uri
<1>1. TypeInv /\ TypeInv'
  BY StepTypeInv DEF StoreInv
<1>2. /\ call' = call
      /\ pc[r] \notin {"new", "done"}
      /\ status[r] = 0
      /\ u \in Uris
      /\ \A q \in Requests \ {r} :
            pc'[q] = pc[q] /\ status'[q] = status[q] /\ seen'[q] = seen[q]
  BY <1>1, StepOfOne DEF TypeInv, TypeOK, RestTypeOK, Calls
<1>3. \/ LogEvent(r)
      \/ (Put(r) \/ PutEnds(r)) /\ Goto(r, "event") /\ log' = log
      \/ (Remove(r) \/ RemoveEnds(r)) /\ log' = log
      \/ /\ UNCHANGED <<resources, log>>
         /\ pc'[r] # "event"
         /\ status'[r] \in Success => call[r].method \in {"GET", "VIEW"}
  BY <1>1, StepOfOne
<1>4. /\ \A v : TrackedBy(Late, v) => TrackedBy(Late, v)'
      /\ pc'[r] = "event" => Entry(r) \in ToldBy(Late)'
      /\ \A q \in Requests : Entry(q)' = Entry(q)
  BY <1>1, ToldByStep, TrackedStays
<1>5. Conditional'
  <2>1. CASE HasResource(r)
    BY <1>1, <1>2, <2>1 DEF HasResource, Answer, Goto, Conditional, StoreInv, TypeInv,
       TypeOK, RestTypeOK, Success
  <2>2. CASE GetResource(r)
    <3>1. PICK c \in Found(u) :
            /\ seen' = [seen EXCEPT ![r] = c]
            /\ IF c = Absent THEN Answer(r, 500) ELSE AfterGet(r, c)
      BY <2>2 DEF GetResource
    <3>2. \/ \E code \in {400, 412, 500} : Answer(r, code)
          \/ call[r].method \in {"GET", "VIEW"}
          \/ call[r].method = "DELETE"
          \/ call[r].ifMatch \in {NoETag, calculateETag(c)} /\ Goto(r, "update")
      BY <3>1 DEF AfterGet, CheckBody
    <3> QED
      BY <1>1, <1>2, <3>1, <3>2 DEF Answer, Goto, Conditional, StoreInv, TypeInv, TypeOK,
         RestTypeOK, Success
  <2>3. CASE UpdateResource(r) \/ Put(r) \/ PutStarts(r) \/ PutEnds(r) \/ LogEvent(r)
    <3>1. seen' = seen /\ pc[r] \in {"update", "put", "insert", "event"}
      BY <2>3 DEF UpdateResource, Put, PutStarts, PutEnds, LogEvent
    <3> QED
      BY <1>2, <3>1 DEF Conditional, StoreInv
  <2>4. CASE Remove(r) \/ RemoveStarts(r) \/ RemoveEnds(r)
    <3>1. call[r].method = "DELETE" /\ seen' = seen
      BY <1>1, <2>4 DEF Remove, RemoveStarts, RemoveEnds, TypeInv, OnItsWay
    <3> QED
      BY <1>2, <3>1 DEF Conditional, StoreInv
  <2>5. CASE Reject(r)
    BY <1>1, <1>2, <2>5 DEF Reject, Answer, Conditional, StoreInv, TypeInv, TypeOK, RestTypeOK,
       Success
  <2> QED
    BY <2>1, <2>2, <2>3, <2>4, <2>5 DEF Step
<1>6. AnswersMatchLog'
  <2>1. ~ \E e \in Logged : e.by = r
    BY <1>2 DEF StoreInv, AnswersMatchLog, Success
  <2>2. CASE LogEvent(r)
    <3>1. log' = Append(log, Entry(r)) /\ Logged' = Logged \cup {Entry(r)} /\ Entry(r) \in Events
      BY <1>1, <2>2, LogEventAppends
    <3>2. /\ DOMAIN log' = DOMAIN log \cup {Len(log) + 1}
          /\ \A i \in DOMAIN log : log'[i] = log[i]
          /\ log'[Len(log) + 1] = Entry(r)
      BY <1>1, <3>1 DEF TypeInv, TypeOK
    <3>3. Entry(r).by = r
      BY DEF Entry
    <3>4. \A i, j \in DOMAIN log' : log'[i].by = log'[j].by => i = j
      BY <2>1, <3>2, <3>3 DEF StoreInv, AnswersMatchLog, Logged
    <3>5. \A e \in Logged' : e = Entry(e.by)'
      <4>1. \A e \in Logged : e.by \in Requests
        BY <1>1, LogHoldsEvents
      <4> QED
        BY <1>4, <3>1, <3>3, <4>1 DEF StoreInv, AnswersMatchLog
    <3>6. status'[r] \in Success /\ call'[r].method \in Changes
      BY <1>1, <1>2, <2>2 DEF LogEvent, Answer, TypeInv, TypeOK, RestTypeOK, OnItsWay, Success
    <3>7. \A q \in Requests : (\E e \in Logged' : e.by = q)
                <=> status'[q] \in Success /\ call'[q].method \in Changes
      BY <1>2, <3>1, <3>3, <3>6 DEF StoreInv, AnswersMatchLog
    <3> QED
      BY <3>4, <3>5, <3>7 DEF AnswersMatchLog
  <2>3. CASE log' = log /\ (status'[r] \in Success => call[r].method \in {"GET", "VIEW"})
    <3>1. \A e \in Logged : e.by \in Requests
      BY <1>1, LogHoldsEvents
    <3>2. \A e \in Logged' : e = Entry(e.by)'
      BY <1>4, <2>3, <3>1 DEF StoreInv, AnswersMatchLog, Logged
    <3>3. \A q \in Requests : (\E e \in Logged' : e.by = q)
                <=> status'[q] \in Success /\ call'[q].method \in Changes
      BY <1>2, <2>1, <2>3 DEF StoreInv, AnswersMatchLog, Logged, Changes
    <3> QED
      BY <2>3, <3>2, <3>3 DEF StoreInv, AnswersMatchLog
  <2>4. CASE (Put(r) \/ PutEnds(r)) /\ Goto(r, "event") /\ log' = log
    BY <1>2, <2>3, <2>4 DEF Goto, Success
  <2>5. CASE (Remove(r) \/ RemoveEnds(r)) /\ log' = log
    BY <1>1, <1>2, <2>3, <2>5, RemoveRemoves DEF Goto, Answer, TypeInv, TypeOK, RestTypeOK, Success
  <2> QED
    BY <1>3, <2>2, <2>3, <2>4, <2>5
<1>7. StoredBySuccess'
  <2>1. CASE LogEvent(r)
    <3>1. resources' = resources /\ seen' = seen /\ pc'[r] = "done" /\ status'[r] \in Success
          /\ pc[r] = "event"
      BY <1>1, <2>1 DEF LogEvent, Answer, TypeInv, TypeOK, RestTypeOK, Success
    <3> QED
      BY <1>2, <3>1 DEF StoreInv, StoredBySuccess, StoredBySuccessOf, Late
  <2>2. CASE (Put(r) \/ PutEnds(r)) /\ Goto(r, "event") /\ log' = log
    <3>1. /\ resources'[u] \in {r, Absent}
          /\ \A v \in Uris \ {u} : resources'[v] \in {resources[v], Absent}
      BY <1>1, <1>2, <2>2, PutStores
    <3>2. /\ pc'[r] = "event" /\ seen' = seen
          /\ call[r].method \in {"POST", "PUT"}
          /\ pc[r] \in {"put", "insert"}
      BY <1>1, <2>2 DEF Put, PutEnds, Goto, TypeInv, TypeOK, OnItsWay
    <3>3. call[r].ifMatch # NoETag => call[r].ifMatch = calculateETag(seen[r])
      BY <3>2 DEF StoreInv, Conditional
    <3>4. \A v \in Uris : resources'[v] \in Requests =>
             \/ resources'[v] = r /\ v = u
             \/ resources'[v] = resources[v] /\ resources[v] # r
      <4>1. Absent \notin Requests
        BY RestAssumption DEF Contents
      <4>2. \A v \in Uris : resources[v] # r
        BY <1>2, <3>2 DEF StoreInv, StoredBySuccess, StoredBySuccessOf, Late
      <4> QED
        BY <3>1, <4>1, <4>2
    <3> QED
      BY <1>2, <3>2, <3>3, <3>4 DEF StoreInv, StoredBySuccess, StoredBySuccessOf, Late
  <2>3. CASE /\ \A v \in Uris : resources'[v] \in {resources[v], Absent}
             /\ pc[r] # "event"
    <3>1. \A v \in Uris : resources'[v] \in Requests =>
             resources'[v] = resources[v] /\ resources[v] # r
      BY <1>2, <2>3, RestAssumption DEF Contents, StoreInv, StoredBySuccess, StoredBySuccessOf, Late
    <3> QED
      BY <1>2, <3>1 DEF StoreInv, StoredBySuccess, StoredBySuccessOf, Late
  <2>4. CASE Remove(r) \/ RemoveEnds(r)
    BY <1>1, <1>2, <2>3, <2>4, RemoveRemoves DEF Remove, RemoveEnds
  <2>5. pc[r] = "event" => LogEvent(r)
    BY DEF Step, HasResource, GetResource, UpdateResource, Put, PutStarts, PutEnds, Remove, RemoveStarts,
     RemoveEnds, Reject
  <2> QED
    BY <1>3, <2>1, <2>2, <2>3, <2>4, <2>5
<1>8. ChangesTracked'
  <2>1. CASE UpdateResource(r) \/ RemoveStarts(r)
    <3>1. ASSUME pc'[r] # "done"
          PROVE  TrackedBy(Late, u)
      <4>1. PICK c \in Found(u) : c # Absent
        BY <1>1, <2>1, <3>1 DEF UpdateResource, RemoveStarts, Answer, TypeInv, TypeOK
      <4>2. resources[u] # Absent
        BY <4>1, FindsStored
      <4> QED
        BY <1>2, <4>2 DEF StoreInv, StoredIsTracked, StoredIsTrackedBy
    <3> QED
      BY <1>2, <1>4, <3>1 DEF StoreInv, ChangesTracked
  <2>2. CASE PutStarts(r)
    <3>1. pc[r] = "put"
      BY <2>2 DEF PutStarts
    <3>2. call[r].method = "PUT" => TrackedBy(Late, u)
      BY <3>1 DEF StoreInv, ChangesTracked
    <3>3. pc'[r] = "insert"
      BY <1>1, <2>2 DEF PutStarts, Goto, TypeInv, TypeOK
    <3> QED
      BY <1>2, <1>4, <3>2, <3>3 DEF StoreInv, ChangesTracked
  <2>3. CASE \E step \in {"get", "remove", "update", "event", "done"} : pc' = [pc EXCEPT ![r] = step]
    <3>1. pc'[r] \notin {"put", "insert", "unlink"}
      BY <1>1, <2>3 DEF TypeInv, TypeOK
    <3> QED
      BY <1>2, <1>4, <3>1 DEF StoreInv, ChangesTracked
  <2>4. CASE HasResource(r) \/ Reject(r) \/ LogEvent(r)
    BY <2>3, <2>4 DEF HasResource, Reject, LogEvent, Goto, Answer
  <2>5. CASE GetResource(r)
    <3>1. PICK c \in Found(u) : IF c = Absent THEN Answer(r, 500) ELSE AfterGet(r, c)
      BY <2>5 DEF GetResource
    <3> QED
      BY <2>3, <3>1 DEF AfterGet, Present, CheckBody, Goto, Answer
  <2>6. CASE Put(r) \/ PutEnds(r) \/ Remove(r) \/ RemoveEnds(r)
    BY <2>3, <2>6 DEF Put, PutEnds, Remove, RemoveEnds, Goto, Answer
  <2> QED
    BY <2>1, <2>2, <2>4, <2>5, <2>6 DEF Step
<1>9. StoredIsTracked'
  <2>1. ASSUME NEW v \in Uris, resources'[v] # Absent, resources[v] # Absent
        PROVE  TrackedBy(Late, v)'
    BY <1>4, <2>1 DEF StoreInv, StoredIsTracked, StoredIsTrackedBy
  <2>2. CASE (Put(r) \/ PutEnds(r)) /\ Goto(r, "event") /\ log' = log
    <3>1. \A v \in Uris \ {u} : resources'[v] \in {resources[v], Absent}
      BY <1>1, <1>2, <2>2, PutStores
    <3>2. pc'[r] = "event" /\ call[r].method \in {"PUT", "POST"} /\ pc[r] \in {"put", "insert"}
      BY <1>1, <2>2 DEF Put, PutEnds, Goto, TypeInv, TypeOK, OnItsWay
    <3>3. call[r].method = "PUT" => TrackedBy(Late, u)'
      BY <1>2, <1>4, <3>2 DEF StoreInv, ChangesTracked
    <3>4. call[r].method = "POST" => TrackedBy(Late, u)'
      <4>1. Entry(r) \in ToldBy(Late)' /\ Entry(r).uri = u
        BY <1>4, <3>2, KindOf
      <4>2. call[r].method = "POST" => Entry(r).kind = "Creation"
        BY KindOf
      <4> QED
        BY <1>2, <4>1, <4>2 DEF TrackedBy
    <3>5. TrackedBy(Late, u)'
      BY <3>2, <3>3, <3>4
    <3> QED
      BY <1>2, <2>1, <3>1, <3>5 DEF StoredIsTracked, StoredIsTrackedBy
  <2>3. CASE \A v \in Uris : resources'[v] \in {resources[v], Absent}
    BY <2>1, <2>3 DEF StoredIsTracked, StoredIsTrackedBy
  <2>4. CASE Remove(r) \/ RemoveEnds(r)
    BY <1>1, <1>2, <2>3, <2>4, RemoveRemoves
  <2>5. CASE LogEvent(r)
    BY <2>3, <2>5 DEF LogEvent
  <2> QED
    BY <1>3, <2>2, <2>3, <2>4, <2>5
<1> QED
  BY <1>1, <1>5, <1>6, <1>7, <1>8, <1>9 DEF StoreInv

LEMMA NextStoreInv == StoreInv /\ [Next]_vars => StoreInv'
<1> SUFFICES ASSUME StoreInv, [Next]_vars
             PROVE  StoreInv'
  OBVIOUS
<1>1. ASSUME NEW r \in Requests, Endpoint(r)
      PROVE  StoreInv'
  BY <1>1, EndpointComes, ComesStoreInv DEF StoreInv
<1>2. ASSUME NEW r \in Requests, Step(r)
      PROVE  StoreInv'
  BY <1>2, StepStoreInv
<1>3. ASSUME UNCHANGED vars
      PROVE  StoreInv'
  <2>1. TypeInv'
    BY <1>3, NextTypeInv DEF StoreInv
  <2>2. ToldBy(Late)' = ToldBy(Late) /\ Logged' = Logged /\ \A q : Entry(q)' = Entry(q)
    BY <1>3 DEF vars, ToldBy, OwedBy, Logged, Entry
  <2>3. \A u : TrackedBy(Late, u)' <=> TrackedBy(Late, u)
    BY <2>2 DEF TrackedBy
  <2>4. Conditional' /\ ChangesTracked' /\ StoredIsTracked'
    BY <1>3, <2>3 DEF vars, StoreInv, Conditional, ChangesTracked, StoredIsTracked,
       StoredIsTrackedBy
  <2>5. AnswersMatchLog' /\ StoredBySuccess'
    BY <1>3, <2>2 DEF vars, StoreInv, AnswersMatchLog, StoredBySuccess, StoredBySuccessOf
  <2> QED
    BY <2>1, <2>4, <2>5 DEF StoreInv
<1>4. ASSUME Finished /\ UNCHANGED <<log, raced>>
      PROVE  UNCHANGED vars
  BY <1>4 DEF Finished, restVars, vars
<1> QED
  BY <1>1, <1>2, <1>3, <1>4 DEF Next

\* A request is answered with success exactly if one entry of the change log tells
\* of its change, whatever the other requests do and whether the maps race or not.
THEOREM LogIsExact == Spec => []AnswersMatchLog
<1>1. StoreInv => AnswersMatchLog
  BY DEF StoreInv
<1> QED
  BY <1>1, InitStoreInv, NextStoreInv, PTL DEF Spec

\* What is stored was sent by a POST or PUT that succeeds, under its own URI, and by a
\* conditional PUT only over a version with the ETag it named when it looked.
THEOREM ErrorsStoreNothing == Spec => []StoredBySuccess
<1>1. StoreInv => StoredBySuccess
  BY DEF StoreInv
<1> QED
  BY <1>1, InitStoreInv, NextStoreInv, PTL DEF Spec

\* Whatever is stored is in the TRS base or its creation is, or is about to be, in the
\* change log, even if another request deletes it and an update brings it back.
THEOREM NothingStoredUntracked == Spec => []StoredIsTracked
<1>1. StoreInv => StoredIsTracked
  BY DEF StoreInv
<1> QED
  BY <1>1, InitStoreInv, NextStoreInv, PTL DEF Spec
-----------------------------------------------------------------------------
(***************************************************************************)
(* What holds if the calls on the maps are atomic.                         *)
(***************************************************************************)
LEMMA StepKept ==
  ASSUME ~UnsafeMaps, StoreInv, KeptUntilDeleted, NEW r \in Requests, Step(r)
  PROVE  KeptUntilDeleted'
<1> DEFINE u == call[r].uri
<1>1. /\ TypeInv
      /\ u \in Uris
      /\ u' = u
  <2>1. TypeInv
    BY DEF StoreInv
  <2> QED
    BY <2>1, StepOfOne DEF TypeInv, TypeOK, RestTypeOK, Calls
<1>2. /\ ToldBy(Late) \subseteq ToldBy(Late)'
      /\ pc'[r] = "event" => Entry(r) \in ToldBy(Late)'
      /\ ToldBy(Late)' \subseteq ToldBy(Late) \cup {Entry(r)}
      /\ pc'[r] # "event" => ToldBy(Late)' = ToldBy(Late)
  BY <1>1, ToldByStep
<1>3. \A v \in Uris \ {u} : TrackedBy(Late, v)' => TrackedBy(Late, v)
  BY <1>2, KindOf DEF TrackedBy
<1>4. CASE (Put(r) \/ PutEnds(r)) /\ Goto(r, "event") /\ log' = log
  <2>1. resources' = [resources EXCEPT ![u] = r] /\ r # Absent
    BY <1>1, <1>4, PutStores, RestAssumption DEF Contents
  <2>2. resources'[u] # Absent /\ \A v \in Uris \ {u} : resources'[v] = resources[v]
    BY <1>1, <2>1 DEF TypeInv, TypeOK, RestTypeOK
  <2> QED
    BY <1>2, <1>3, <2>2 DEF KeptUntilDeleted, KeptUntilDeletedBy
<1>5. CASE (Remove(r) \/ RemoveEnds(r)) /\ log' = log
  <2>1. resources' = [resources EXCEPT ![u] = Absent]
    BY <1>1, <1>5, RemoveRemoves
  <2>2. \A v \in Uris \ {u} : resources'[v] = resources[v]
    BY <2>1 DEF TypeInv, TypeOK, RestTypeOK
  <2>3. CASE resources[u] # Absent /\ Goto(r, "event")
    <3>1. Entry(r) \in ToldBy(Late)' /\ Entry(r).kind = "Deletion" /\ Entry(r).uri = u
      <4>1. call[r].method = "DELETE" /\ pc'[r] = "event"
        BY <1>1, <1>5, <2>3 DEF Remove, RemoveEnds, Goto, TypeInv, TypeOK, OnItsWay
      <4> QED
        BY <1>2, <4>1, KindOf
    <3> QED
      BY <1>1, <1>2, <1>3, <2>2, <3>1 DEF KeptUntilDeleted, KeptUntilDeletedBy
  <2>4. CASE resources[u] = Absent
    <3>1. resources' = resources
      BY <1>1, <2>1, <2>4 DEF TypeInv, TypeOK, RestTypeOK
    <3>2. pc'[r] # "event"
      BY <1>1, <1>5, <2>4, RemoveRemoves DEF Answer, TypeInv, TypeOK
    <3> QED
      BY <1>2, <3>1, <3>2 DEF KeptUntilDeleted, KeptUntilDeletedBy, TrackedBy
  <2> QED
    BY <1>1, <1>5, <2>3, <2>4, RemoveRemoves
<1>6. CASE resources' = resources /\ ToldBy(Late)' = ToldBy(Late)
  BY <1>6 DEF KeptUntilDeleted, KeptUntilDeletedBy, TrackedBy
<1>7. CASE LogEvent(r)
  <2>1. resources' = resources /\ pc'[r] # "event"
    BY <1>1, <1>7 DEF LogEvent, Answer, TypeInv, TypeOK
  <2> QED
    BY <1>2, <1>6, <2>1
<1> QED
  BY <1>1, <1>2, <1>4, <1>5, <1>6, <1>7, StepOfOne

\* No resource is lost: once it is created, or if it was there from the start, it is
\* stored until a DELETE that succeeds (its log entry tells of it) removes it.
THEOREM NothingLost == ASSUME ~UnsafeMaps PROVE Spec => []KeptUntilDeleted
<1>1. Init => KeptUntilDeleted
  BY RestAssumption DEF Init, RestInit, TrsInit, KeptUntilDeleted, KeptUntilDeletedBy, TrackedBy,
     TrsBase, ToldBy, OwedBy, Late, Logged, Contents
<1>2. StoreInv /\ KeptUntilDeleted /\ [Next]_vars => KeptUntilDeleted'
  <2> SUFFICES ASSUME StoreInv, KeptUntilDeleted, [Next]_vars
               PROVE  KeptUntilDeleted'
    OBVIOUS
  <2>1. ASSUME NEW r \in Requests, Endpoint(r)
        PROVE  KeptUntilDeleted'
    <3>1. ToldBy(Late)' = ToldBy(Late) /\ resources' = resources
      BY <2>1, EndpointComes, ToldByComes DEF StoreInv
    <3> QED
      BY <3>1 DEF KeptUntilDeleted, KeptUntilDeletedBy, TrackedBy
  <2>2. ASSUME NEW r \in Requests, Step(r)
        PROVE  KeptUntilDeleted'
    BY <2>2, StepKept
  <2>3. ASSUME UNCHANGED vars
        PROVE  KeptUntilDeleted'
    <3>1. ToldBy(Late)' = ToldBy(Late) /\ resources' = resources
      BY <2>3 DEF vars, ToldBy, OwedBy, Logged, Entry
    <3> QED
      BY <3>1 DEF KeptUntilDeleted, KeptUntilDeletedBy, TrackedBy
  <2>4. ASSUME Finished /\ UNCHANGED <<log, raced>>
        PROVE  UNCHANGED vars
    BY <2>4 DEF Finished, restVars, vars
  <2> QED
    BY <2>1, <2>2, <2>3, <2>4 DEF Next
<1> QED
  BY <1>1, <1>2, InitStoreInv, NextStoreInv, PTL DEF Spec
-----------------------------------------------------------------------------
(***************************************************************************)
(* What If-Match protects against.                                         *)
(***************************************************************************)
\* The version c of the resource of r is none that was settled before r came in.
NotOlder(r, c) ==
    IF c = Absent
    THEN \E q \in Requests \ call[r].after :
            /\ pc[q] = "event" \/ status[q] = 200
            /\ call[q].uri = call[r].uri /\ call[q].method = "DELETE"
    ELSE c \in Requests \ call[r].after

ConditionalPut(r) == call[r].method = "PUT" /\ call[r].ifMatch # NoETag

PastInv ==
    \A r \in Requests :
        /\ pc[r] # "new" => \A q \in call[r].after : pc[q] = "done"
        /\ pc[r] \in {"update", "put", "insert"} /\ ConditionalPut(r) =>
              \/ resources[call[r].uri] = seen[r]
              \/ NotOlder(r, resources[call[r].uri])
        /\ (pc[r] = "event" \/ status[r] = 200) /\ ConditionalPut(r) =>
              \/ overwrote[r] = seen[r]
              \/ NotOlder(r, overwrote[r])

LEMMA PastInvRespects == StoreInv /\ PastInv => IfMatchRespectsThePast
<1> SUFFICES ASSUME StoreInv, PastInv, NEW r \in Requests, status[r] = 200,
                    call[r].method = "PUT",
                    call[r].ifMatch \notin {NoETag, calculateETag(overwrote[r])}
             PROVE  NotOlder(r, overwrote[r])
  BY DEF IfMatchRespectsThePast, NotOlder
<1>1. call[r].ifMatch = calculateETag(seen[r])
  BY DEF StoreInv, Conditional, Success
<1>2. overwrote[r] # seen[r]
  BY <1>1
<1> QED
  BY <1>2 DEF PastInv, ConditionalPut

\* Versions that were not settled when r came in stay so.
LEMMA NotOlderStays ==
  ASSUME TypeInv, NEW r \in Requests, pc[r] # "new", NEW q \in Requests, Step(q),
         NEW c, NotOlder(r, c)
  PROVE  NotOlder(r, c)'
<1>1. call' = call
  BY StepOfOne
<1>2. \A p \in Requests :
         (pc[p] = "event" \/ status[p] = 200) /\ call[p].method = "DELETE" =>
             pc'[p] = "event" \/ status'[p] = 200
  <2>1. ASSUME NEW p \in Requests, p # q
        PROVE  pc'[p] = pc[p] /\ status'[p] = status[p]
    BY <2>1, StepOfOne
  <2>2. pc[q] = "event" => LogEvent(q)
    BY DEF Step, HasResource, GetResource, UpdateResource, Put, PutStarts, PutEnds, Remove, RemoveStarts,
     RemoveEnds, Reject
  <2>3. status[q] # 200
    BY StepOfOne DEF TypeInv, TypeOK, RestTypeOK
  <2>4. LogEvent(q) /\ call[q].method = "DELETE" => status'[q] = 200
    BY DEF LogEvent, Answer, TypeInv, TypeOK, RestTypeOK
  <2> QED
    BY <2>1, <2>2, <2>3, <2>4
<1> QED
  BY <1>1, <1>2 DEF NotOlder

\* How a step of q changes what the invariant says of another request r.
LEMMA OthersPast ==
  ASSUME ~UnsafeMaps, StoreInv, PastInv, NEW r \in Requests, NEW q \in Requests, q # r,
         Step(q), pc[r] # "new"
  PROVE  \/ resources'[call[r].uri] = resources[call[r].uri]
         \/ NotOlder(r, resources[call[r].uri])'
<1> DEFINE u == call[q].uri
<1>1. /\ TypeInv
      /\ u \in Uris /\ call[r].uri \in Uris
      /\ call' = call
      /\ pc[q] # "done"
  <2>1. TypeInv
    BY DEF StoreInv
  <2> QED
    BY <2>1, StepOfOne DEF TypeInv, TypeOK, RestTypeOK, Calls
<1>2. q \notin call[r].after
  BY <1>1 DEF PastInv
<1>3. CASE Put(q) \/ PutEnds(q)
  <2>1. resources' = [resources EXCEPT ![u] = q] /\ q # Absent
    BY <1>1, <1>3, PutStores, RestAssumption DEF Contents
  <2>2. CASE u = call[r].uri
    <3>1. resources'[call[r].uri] = q
      BY <1>1, <2>1, <2>2 DEF TypeInv, TypeOK, RestTypeOK
    <3> QED
      BY <1>1, <1>2, <2>1, <3>1 DEF NotOlder
  <2>3. CASE u # call[r].uri
    BY <1>1, <2>1, <2>3 DEF TypeInv, TypeOK, RestTypeOK
  <2> QED
    BY <2>2, <2>3
<1>4. CASE Remove(q) \/ RemoveEnds(q)
  <2>1. resources' = [resources EXCEPT ![u] = Absent]
    BY <1>1, <1>4, RemoveRemoves
  <2>2. CASE u = call[r].uri /\ resources[u] # Absent
    <3>1. resources'[call[r].uri] = Absent
      BY <1>1, <2>1, <2>2 DEF TypeInv, TypeOK, RestTypeOK
    <3>2. pc'[q] = "event" /\ call[q].method = "DELETE"
      BY <1>1, <1>4, <2>2, RemoveRemoves DEF Remove, RemoveEnds, Goto, TypeInv, TypeOK, OnItsWay
    <3> QED
      BY <1>1, <1>2, <2>2, <3>1, <3>2 DEF NotOlder
  <2>3. CASE u # call[r].uri \/ resources[u] = Absent
    BY <1>1, <2>1, <2>3 DEF TypeInv, TypeOK, RestTypeOK
  <2> QED
    BY <2>2, <2>3
<1>5. CASE resources' = resources
  BY <1>5
<1> QED
  BY <1>1, <1>3, <1>4, <1>5, StepOfOne DEF LogEvent

LEMMA StepPastInv ==
  ASSUME ~UnsafeMaps, StoreInv, PastInv, NEW q \in Requests, Step(q)
  PROVE  PastInv'
<1>1. /\ TypeInv
      /\ call' = call
      /\ pc[q] \notin {"new", "done"}
      /\ status[q] = 0
      /\ \A p \in Requests \ {q} :
            pc'[p] = pc[p] /\ status'[p] = status[p] /\ seen'[p] = seen[p]
  <2>1. TypeInv
    BY DEF StoreInv
  <2> QED
    BY <2>1, StepOfOne DEF TypeInv, TypeOK, RestTypeOK
<1>2. \A p \in Requests \ {q} : overwrote'[p] = overwrote[p]
  BY <1>1 DEF Step, HasResource, GetResource, UpdateResource, Put, PutStarts, PutEnds, Remove, RemoveStarts,
     RemoveEnds, Reject, LogEvent, TypeInv, TypeOK, RestTypeOK
<1>3. ASSUME NEW r \in Requests, pc'[r] # "new"
      PROVE  pc[r] # "new" /\ \A p \in call'[r].after : pc'[p] = "done"
  <2>1. pc[r] # "new"
    BY <1>1, <1>3
  <2>2. \A p \in call[r].after : p \in Requests /\ pc[p] = "done"
    BY <1>1, <2>1 DEF PastInv, TypeInv, TypeOK, RestTypeOK, Calls
  <2> QED
    BY <1>1, <2>1, <2>2
<1>4. ASSUME NEW r \in Requests, r # q
      PROVE  /\ pc'[r] \in {"update", "put", "insert"} /\ ConditionalPut(r)' =>
                   \/ resources'[call'[r].uri] = seen'[r]
                   \/ NotOlder(r, resources[call[r].uri])'
             /\ (pc'[r] = "event" \/ status'[r] = 200) /\ ConditionalPut(r)' =>
                   \/ overwrote'[r] = seen'[r]
                   \/ NotOlder(r, overwrote[r])'
  <2>1. ConditionalPut(r)' <=> ConditionalPut(r)
    BY <1>1 DEF ConditionalPut
  <2>2. ASSUME pc'[r] \in {"update", "put", "insert"}, ConditionalPut(r)
        PROVE  \/ resources'[call'[r].uri] = seen'[r]
               \/ NotOlder(r, resources[call[r].uri])'
    <3>1. pc[r] # "new" /\ (resources[call[r].uri] = seen[r] \/ NotOlder(r, resources[call[r].uri]))
      BY <1>1, <1>4, <2>2 DEF PastInv
    <3>2. CASE resources'[call[r].uri] = resources[call[r].uri]
      <4>1. NotOlder(r, resources[call[r].uri]) => NotOlder(r, resources[call[r].uri])'
        BY <1>1, <3>1, <3>2, NotOlderStays DEF NotOlder
      <4> QED
        BY <1>1, <1>4, <3>1, <3>2, <4>1
    <3> QED
      BY <1>4, <3>1, <3>2, OthersPast
  <2>3. ASSUME pc'[r] = "event" \/ status'[r] = 200, ConditionalPut(r)
        PROVE  \/ overwrote'[r] = seen'[r]
               \/ NotOlder(r, overwrote[r])'
    <3>1. pc[r] # "new" /\ (overwrote[r] = seen[r] \/ NotOlder(r, overwrote[r]))
      BY <1>1, <1>4, <2>3 DEF PastInv, TypeInv, TypeOK, RestTypeOK
    <3>2. NotOlder(r, overwrote[r]) => NotOlder(r, overwrote[r])'
      BY <1>1, <1>2, <1>4, <3>1, NotOlderStays DEF NotOlder
    <3> QED
      BY <1>1, <1>2, <1>4, <3>1, <3>2
  <2> QED
    BY <2>1, <2>2, <2>3
<1>5. pc'[q] \in {"update", "put", "insert"} /\ ConditionalPut(q)' =>
           \/ resources'[call'[q].uri] = seen'[q]
           \/ NotOlder(q, resources[call[q].uri])'
  <2>1. ConditionalPut(q)' <=> ConditionalPut(q)
    BY <1>1 DEF ConditionalPut
  <2>2. CASE GetResource(q)
    <3>1. PICK c \in Found(call[q].uri) : seen' = [seen EXCEPT ![q] = c]
      BY <2>2 DEF GetResource
    <3>2. seen'[q] = resources[call[q].uri] /\ resources' = resources
      BY <1>1, <2>2, <3>1, FindsStored DEF GetResource, TypeInv, TypeOK, RestTypeOK
    <3> QED
      BY <1>1, <3>2
  <2>3. CASE UpdateResource(q) \/ PutStarts(q)
    <3>1. /\ resources' = resources /\ seen' = seen
          /\ pc[q] \in {"update", "put"}
      BY <2>3 DEF UpdateResource, PutStarts
    <3>2. NotOlder(q, resources[call[q].uri]) => NotOlder(q, resources[call[q].uri])'
      BY <1>1, <3>1, NotOlderStays DEF NotOlder
    <3> QED
      BY <1>1, <2>1, <3>1, <3>2 DEF PastInv
  <2>4. CASE \/ HasResource(q) \/ Reject(q) \/ Put(q) \/ PutEnds(q) \/ LogEvent(q)
             \/ Remove(q) \/ RemoveStarts(q) \/ RemoveEnds(q)
    <3>1. \E step \in {"get", "unlink", "event", "done"} : pc' = [pc EXCEPT ![q] = step]
      BY <2>4 DEF HasResource, Reject, Put, PutEnds, Remove, RemoveStarts, RemoveEnds, LogEvent,
         Goto, Answer
    <3> QED
      BY <1>1, <3>1 DEF TypeInv, TypeOK
  <2> QED
    BY <2>2, <2>3, <2>4 DEF Step
<1>6. (pc'[q] = "event" \/ status'[q] = 200) /\ ConditionalPut(q)' =>
           \/ overwrote'[q] = seen'[q]
           \/ NotOlder(q, overwrote[q])'
  <2>1. ConditionalPut(q)' <=> ConditionalPut(q)
    BY <1>1 DEF ConditionalPut
  <2>2. CASE Put(q) \/ PutEnds(q)
    <3>1. /\ overwrote'[q] = resources[call[q].uri]
          /\ seen' = seen
          /\ pc[q] \in {"put", "insert"}
      BY <1>1, <2>2 DEF Put, PutEnds, TypeInv, TypeOK, RestTypeOK
    <3>2. NotOlder(q, resources[call[q].uri]) => NotOlder(q, overwrote[q])'
      BY <1>1, <3>1, NotOlderStays DEF NotOlder
    <3> QED
      BY <2>1, <3>1, <3>2 DEF PastInv
  <2>3. CASE LogEvent(q)
    <3>1. overwrote' = overwrote /\ seen' = seen /\ pc[q] = "event"
      BY <2>3 DEF LogEvent
    <3>2. NotOlder(q, overwrote[q]) => NotOlder(q, overwrote[q])'
      BY <1>1, <3>1, NotOlderStays DEF NotOlder
    <3> QED
      BY <2>1, <3>1, <3>2 DEF PastInv
  <2>4. CASE Remove(q) \/ RemoveEnds(q)
    BY <1>1, <2>4 DEF Remove, RemoveEnds, ConditionalPut, TypeInv, OnItsWay
  <2>5. CASE /\ pc'[q] # "event"
             /\ status'[q] \in Success => call[q].method \in {"GET", "VIEW"}
    BY <1>1, <2>5 DEF ConditionalPut, Success
  <2> QED
    BY <1>1, <2>2, <2>3, <2>4, <2>5, StepOfOne
<1> QED
  BY <1>3, <1>4, <1>5, <1>6 DEF PastInv

LEMMA ComesPastInv ==
  ASSUME StoreInv, PastInv, NEW q \in Requests, Comes(q), UNCHANGED <<log, raced>>
  PROVE  PastInv'
<1>1. /\ TypeInv
      /\ pc[q] = "new" /\ pc'[q] \in {"has", "put", "reject"} /\ status'[q] = 0 /\ status' = status
      /\ UNCHANGED <<resources, seen, overwrote>>
      /\ \A p \in Requests \ {q} : pc'[p] = pc[p] /\ call'[p] = call[p]
      /\ pc'[q] = "put" => call'[q].method = "POST"
      /\ call'[q].after = Answered
  <2>1. TypeInv
    BY DEF StoreInv
  <2>2. call'[q].after = Answered
    BY <2>1 DEF Comes, Receive, TypeInv, TypeOK, RestTypeOK
  <2> QED
    BY <2>1, <2>2, ToldByComes
<1>2. pc'[q] = "put" => ~ConditionalPut(q)'
  BY <1>1 DEF ConditionalPut
<1>3. \A p \in call'[q].after : pc'[p] = "done"
  BY <1>1 DEF Answered
<1>4. \A r \in Requests \ {q} : \A c : NotOlder(r, c) => NotOlder(r, c)'
  <2>1. status[q] # 200 /\ pc[q] # "event"
    BY <1>1
  <2> QED
    BY <1>1, <2>1 DEF NotOlder
<1>5. ASSUME NEW r \in Requests, r # q
      PROVE  /\ pc'[r] # "new" => \A p \in call'[r].after : pc'[p] = "done"
             /\ pc'[r] \in {"update", "put", "insert"} /\ ConditionalPut(r)' =>
                   \/ resources'[call'[r].uri] = seen'[r]
                   \/ NotOlder(r, resources[call[r].uri])'
             /\ (pc'[r] = "event" \/ status'[r] = 200) /\ ConditionalPut(r)' =>
                   \/ overwrote'[r] = seen'[r]
                   \/ NotOlder(r, overwrote[r])'
  <2>1. (ConditionalPut(r)' <=> ConditionalPut(r)) /\ call'[r] = call[r] /\ pc'[r] = pc[r]
    BY <1>1, <1>5 DEF ConditionalPut
  <2>2. pc[r] # "new" => \A p \in call[r].after : p \in Requests /\ pc[p] = "done"
    BY <1>1 DEF PastInv, TypeInv, TypeOK, RestTypeOK, Calls
  <2>3. NotOlder(r, resources[call[r].uri]) => NotOlder(r, resources[call[r].uri])'
    <3> DEFINE c == resources[call[r].uri]
    <3>1. c' = c
      BY <1>1, <2>1
    <3> QED
      BY <1>4, <1>5, <3>1
  <2>4. NotOlder(r, overwrote[r]) => NotOlder(r, overwrote[r])'
    BY <1>1, <1>4, <1>5
  <2> QED
    BY <1>1, <2>1, <2>2, <2>3, <2>4 DEF PastInv
<1> QED
  BY <1>1, <1>2, <1>3, <1>5 DEF PastInv

\* A conditional PUT replaces another version than the one it names only if that
\* version was stored, or the resource deleted, by a request that was not answered yet
\* when the PUT came in: no update that a client could know of is lost.
THEOREM IfMatchProtects == ASSUME ~UnsafeMaps PROVE Spec => []IfMatchRespectsThePast
<1>1. Init => PastInv
  BY DEF Init, RestInit, PastInv
<1>2. StoreInv /\ PastInv /\ [Next]_vars => PastInv'
  <2> SUFFICES ASSUME StoreInv, PastInv, [Next]_vars
               PROVE  PastInv'
    OBVIOUS
  <2>1. ASSUME NEW r \in Requests, Endpoint(r)
        PROVE  PastInv'
    BY <2>1, EndpointComes, ComesPastInv DEF StoreInv
  <2>2. ASSUME NEW r \in Requests, Step(r)
        PROVE  PastInv'
    BY <2>2, StepPastInv
  <2>3. ASSUME UNCHANGED vars
        PROVE  PastInv'
    BY <2>3 DEF vars, PastInv, ConditionalPut, NotOlder
  <2>4. ASSUME Finished /\ UNCHANGED <<log, raced>>
        PROVE  UNCHANGED vars
    BY <2>4 DEF Finished, restVars, vars
  <2> QED
    BY <2>1, <2>2, <2>3, <2>4 DEF Next
<1> QED
  BY <1>1, <1>2, PastInvRespects, InitStoreInv, NextStoreInv, PTL DEF Spec
-----------------------------------------------------------------------------
(***************************************************************************)
(* The server implements the abstract store with its log.                  *)
(***************************************************************************)
LEMMA OwedByStep ==
  ASSUME TypeInv, NEW r \in Requests, Step(r)
  PROVE  /\ LogEvent(r) => /\ Entry(r) \in OwedBy(Late)
                           /\ OwedBy(Late)' = OwedBy(Late) \ {Entry(r)}
         /\ ~LogEvent(r) /\ pc'[r] = "event" => OwedBy(Late)' = OwedBy(Late) \cup {Entry(r)}
         /\ ~LogEvent(r) /\ pc'[r] # "event" => OwedBy(Late)' = OwedBy(Late)
<1>1. /\ \A q \in Requests \ {r} : pc'[q] = pc[q]
      /\ \A q \in Requests : Entry(q)' = Entry(q)
  BY StepOfOne, ToldByStep
<1>2. CASE LogEvent(r)
  <2>1. pc[r] = "event" /\ pc'[r] = "done"
    BY <1>2 DEF LogEvent, Answer, TypeInv, TypeOK
  <2>2. \A q \in Requests : Entry(q) = Entry(r) => q = r
    BY KindOf
  <2> QED
    BY <1>1, <1>2, <2>1, <2>2 DEF OwedBy, Late
<1>3. CASE ~LogEvent(r)
  <2>1. pc[r] # "event"
    BY <1>3 DEF Step, HasResource, GetResource, UpdateResource, Put, PutStarts, PutEnds, Remove, RemoveStarts,
     RemoveEnds, Reject
  <2>2. CASE pc'[r] = "event"
    BY <1>1, <1>3, <2>1, <2>2 DEF OwedBy, Late
  <2>3. CASE pc'[r] # "event"
    BY <1>1, <1>3, <2>1, <2>3 DEF OwedBy, Late
  <2> QED
    BY <1>3, <2>2, <2>3
<1> QED
  BY <1>2, <1>3

\* A request that has not changed the store has not told of a change.
LEMMA NotYetTold ==
  ASSUME StoreInv, NEW r \in Requests, pc[r] \notin {"event", "done"}
  PROVE  \A e \in Abstract!Told : e.by # r
<1>1. \A e \in OwedBy(Late) : e.by # r
  BY KindOf DEF OwedBy, Late
<1>2. \A e \in Logged : e.by # r
  BY DEF StoreInv, TypeInv, TypeOK, RestTypeOK, AnswersMatchLog, Success
<1> QED
  BY <1>1, <1>2 DEF Abstract!Told, Abstract!Logged, Logged

LEMMA StepImplements ==
  ASSUME StoreInv, NEW r \in Requests, Step(r)
  PROVE  [Abstract!TSNext]_(Abstract!tsVars)
<1> DEFINE u == call[r].uri
<1>1. /\ TypeInv
      /\ u \in Uris
      /\ Entry(r) = [kind |-> Kind(call[r].method), uri |-> u, by |-> r]
  <2>1. TypeInv
    BY DEF StoreInv
  <2> QED
    BY <2>1, StepOfOne DEF TypeInv, TypeOK, RestTypeOK, Calls, Entry
<1>2. CASE LogEvent(r)
  <2>1. Abstract!Tell(Entry(r))
    BY <1>1, <1>2, OwedByStep DEF LogEvent, Abstract!Tell
  <2> QED
    BY <1>1, <1>2, <2>1, OwedByStep DEF Abstract!TSNext
<1>3. CASE (Put(r) \/ PutEnds(r)) /\ Goto(r, "event") /\ log' = log
  <2>1. /\ pc[r] \in {"put", "insert"} /\ pc'[r] = "event"
        /\ call[r].method \in {"PUT", "POST"}
    BY <1>1, <1>3 DEF Put, PutEnds, Goto, TypeInv, TypeOK, OnItsWay
  <2>2. OwedBy(Late)' = OwedBy(Late) \cup {Entry(r)}
    BY <1>1, <2>1, OwedByStep DEF LogEvent
  <2>3. Abstract!Owe(Kind(call[r].method), u, r)
    BY <1>1, <1>3, <2>1, <2>2, NotYetTold DEF Abstract!Owe
  <2>4. /\ resources' \in [Uris -> Requests \cup {Seed, Absent}]
        /\ resources'[u] = r \/ (UnsafeMaps /\ resources'[u] = Absent)
        /\ \A v \in Uris \ {u} :
              resources'[v] = resources[v] \/ (UnsafeMaps /\ resources'[v] = Absent)
    <3>1. CASE UnsafeMaps
      BY <1>1, <1>3, <3>1, PutStores DEF Contents
    <3>2. CASE ~UnsafeMaps
      BY <1>1, <1>3, <3>2, PutStores DEF Contents, TypeInv, TypeOK, RestTypeOK
    <3> QED
      BY <3>1, <3>2
  <2>5. CASE call[r].method = "POST"
    <3>1. Abstract!Write("Creation", u, r)
      BY <2>3, <2>4, <2>5, KindOf DEF Abstract!Write
    <3> QED
      BY <1>1, <3>1 DEF Abstract!TSNext
  <2>6. CASE call[r].method = "PUT"
    <3>1. Abstract!Tracked(u)
      BY <2>1, <2>6 DEF StoreInv, ChangesTracked, TrackedBy, ToldBy, Logged,
         Abstract!Tracked, Abstract!Told, Abstract!Logged
    <3>2. Abstract!Write("Modification", u, r)
      BY <2>3, <2>4, <2>6, <3>1, KindOf DEF Abstract!Write
    <3> QED
      BY <1>1, <3>2 DEF Abstract!TSNext
  <2> QED
    BY <2>1, <2>5, <2>6
<1>4. CASE (Remove(r) \/ RemoveEnds(r)) /\ log' = log
  <2>1. pc[r] \in {"remove", "unlink"} /\ call[r].method = "DELETE"
    BY <1>1, <1>4 DEF Remove, RemoveEnds, TypeInv, OnItsWay
  <2>2. CASE Goto(r, "event") /\ (UnsafeMaps \/ resources[u] # Absent)
    <3>1. OwedBy(Late)' = OwedBy(Late) \cup {Entry(r)}
      BY <1>1, <2>1, <2>2, OwedByStep DEF Goto, LogEvent, TypeInv, TypeOK
    <3>2. Abstract!Owe("Deletion", u, r)
      BY <1>1, <1>4, <2>1, <3>1, KindOf, NotYetTold DEF Abstract!Owe
    <3>3. /\ resources' \in [Uris -> Requests \cup {Seed, Absent}]
          /\ resources'[u] = Absent \/ (UnsafeMaps /\ resources'[u] = resources[u])
          /\ \A v \in Uris \ {u} :
                resources'[v] = resources[v] \/ (UnsafeMaps /\ resources'[v] = Absent)
      <4>1. CASE UnsafeMaps
        BY <1>1, <1>4, <4>1, RemoveRemoves DEF Contents
      <4>2. CASE ~UnsafeMaps
        BY <1>1, <1>4, <4>2, RemoveRemoves DEF Contents, TypeInv, TypeOK, RestTypeOK
      <4> QED
        BY <4>1, <4>2
    <3>4. UnsafeMaps => Abstract!Tracked(u)
      <4>1. UnsafeMaps => pc[r] = "unlink"
        BY <1>4 DEF Remove, RemoveEnds
      <4> QED
        BY <4>1 DEF StoreInv, ChangesTracked, TrackedBy, ToldBy, Logged,
           Abstract!Tracked, Abstract!Told, Abstract!Logged
    <3>5. Abstract!Remove(u, r)
      BY <2>2, <3>2, <3>3, <3>4 DEF Abstract!Remove
    <3> QED
      BY <1>1, <3>5 DEF Abstract!TSNext
  <2>3. CASE Answer(r, 500) /\ resources' = resources
    <3>1. OwedBy(Late)' = OwedBy(Late)
      BY <1>1, <2>1, <2>3, OwedByStep DEF Answer, LogEvent, TypeInv, TypeOK
    <3> QED
      BY <1>4, <2>3, <3>1 DEF Abstract!tsVars
  <2> QED
    BY <1>1, <1>4, <2>2, <2>3, RemoveRemoves
<1>5. CASE UNCHANGED <<resources, log>> /\ pc'[r] # "event" /\ ~LogEvent(r)
  BY <1>1, <1>5, OwedByStep DEF Abstract!tsVars
<1> QED
  BY <1>1, <1>2, <1>3, <1>4, <1>5, StepOfOne

\* Every behaviour of the AM server is one of TrackedStore: each change of the store
\* is told of exactly once, after it was made, and only what is tracked is modified.
THEOREM Implements == Spec => ImplementsTrackedStore
<1>1. Init => Abstract!TSInit
  BY DEF Init, RestInit, TrsInit, TrsBase, OwedBy, Late, Abstract!TSInit
<1>2. StoreInv /\ [Next]_vars => [Abstract!TSNext]_(Abstract!tsVars)
  <2> SUFFICES ASSUME StoreInv, [Next]_vars
               PROVE  [Abstract!TSNext]_(Abstract!tsVars)
    OBVIOUS
  <2>1. ASSUME NEW r \in Requests, Endpoint(r)
        PROVE  UNCHANGED Abstract!tsVars
    BY <2>1, EndpointComes, ToldByComes DEF StoreInv, Abstract!tsVars
  <2>2. ASSUME NEW r \in Requests, Step(r)
        PROVE  [Abstract!TSNext]_(Abstract!tsVars)
    BY <2>2, StepImplements
  <2>3. ASSUME UNCHANGED vars
        PROVE  UNCHANGED Abstract!tsVars
    BY <2>3 DEF vars, OwedBy, Entry, Abstract!tsVars
  <2>4. ASSUME Finished /\ UNCHANGED <<log, raced>>
        PROVE  UNCHANGED vars
    BY <2>4 DEF Finished, restVars, vars
  <2> QED
    BY <2>1, <2>2, <2>3, <2>4 DEF Next
<1> QED
  BY <1>1, <1>2, InitStoreInv, NextStoreInv, PTL DEF Spec, ImplementsTrackedStore, Abstract!TSSpec
===============================================================================
