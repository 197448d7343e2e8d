---------------------------- MODULE RmServer_proofs ----------------------------
(***************************************************************************)
(* Proofs about the RM server, for any number of requests, requirements    *)
(* and collections.                                                        *)
(***************************************************************************)
EXTENDS RmServer, SequenceTheorems, TLAPS

Looking == {"GET", "VIEW", "DELETE", "PUT"}
Steps == {"new", "get", "put", "index", "event", "remove", "reject", "dialog", "search",
          "lookup", "done"}

\* Which handlers are at which step.
OnItsWay ==
    \A r \in Requests :
        /\ pc[r] = "get" => call[r].method \in Looking
        /\ pc[r] = "put" => call[r].method \in {"PUT", "POST"}
        /\ pc[r] = "index" => call[r].method = "POST" /\ call[r].uri \in Requirements
        /\ pc[r] = "event" => call[r].method \in Changes
        /\ pc[r] = "remove" => call[r].method = "DELETE"
        /\ pc[r] = "reject" => call[r].method = "POST"
        /\ pc[r] = "dialog" => call[r].method = "FORM"
        /\ pc[r] \in {"search", "lookup"} => call[r].method \in {"SEARCH", "HTMX"}
        /\ status[r] = 200 /\ call[r].method = "GET" => seen[r] \in Contents

TypeInv ==
    /\ RestTypeOK
    /\ pc \in [Requests -> Steps]
    /\ log \in Seq(Events)
    /\ toIndex \in Seq(Requirements)
    /\ docs \in [Requirements -> Nat]
    /\ hits \in [Requests -> SUBSET Requirements]
    /\ OnItsWay

\* A request that comes in, whichever the endpoint.
Comes(r) ==
    \E method \in Methods, u \in Uris, ifMatch \in ETags \cup {NoETag},
       input \in Inputs, first \in Steps :
          /\ Receive(r, method, u, ifMatch, input, first)
          /\ \/ first = "get" /\ method \in Looking
             \/ first \in {"put", "reject"} /\ method = "POST"
             \/ first = "dialog" /\ method = "FORM"
             \/ first = "search" /\ method \in {"SEARCH", "HTMX"}

LEMMA KnownETagsType == TypeInv => KnownETags \subseteq ETags
  BY DEF TypeInv, RestTypeOK, OnItsWay, KnownETags, ETags, Answered, Success, Contents,
         calculateETag

LEMMA EndpointComes ==
  ASSUME NEW r \in Requests, TypeInv, Endpoint(r)
  PROVE  Comes(r) /\ UNCHANGED <<log, indexVars>>
<1>1. ASSUME NEW us \in SUBSET Uris, NEW method \in Looking, ReceiveAny(r, method, us, "get")
      PROVE  Comes(r)
  BY <1>1 DEF ReceiveAny, Inputs, Comes, Looking, Methods, Steps
<1>2. ASSUME NEW us \in SUBSET Uris, NEW first \in {"put", "reject"},
             ReceiveAny(r, "POST", us, first)
      PROVE  Comes(r)
  BY <1>2 DEF ReceiveAny, Inputs, Comes, Methods, Steps
<1>3. ASSUME NEW us \in SUBSET Uris, ReceivePut(r, us, "get") PROVE Comes(r)
  BY <1>3, KnownETagsType DEF ReceivePut, Comes, Looking, Methods, Steps
<1>4. Requirements \in SUBSET Uris /\ Collections \in SUBSET Uris
  BY RmAssumption DEF RmAssumption
<1>5. ASSUME createRequirementFromDialog(r) \/ RequirementSelector(r) PROVE Comes(r)
  BY <1>4, <1>5 DEF createRequirementFromDialog, RequirementSelector, ReceiveAny, Inputs,
     Comes, Methods, Steps
<1>6. \/ \E us \in {Requirements, Collections}, method \in Looking :
            ReceiveAny(r, method, us, "get")
      \/ \E us \in {Requirements, Collections}, first \in {"put", "reject"} :
            ReceiveAny(r, "POST", us, first)
      \/ \E us \in {Requirements, Collections} : ReceivePut(r, us, "get")
      \/ createRequirementFromDialog(r) \/ RequirementSelector(r)
  BY DEF Endpoint, Looking, getRequirement, getRequirementAsHtml, getRequirementCompact,
     getRequirementAsHtmlSmallPreview, getRequirementAsHtmlLargePreview,
     getRequirementCollection, getRequirementCollectionAsHtml,
     getRequirementCollectionCompact, getRequirementCollectionAsHtmlSmallPreview,
     getRequirementCollectionAsHtmlLargePreview, deleteRequirement,
     deleteRequirementCollection, updateRequirement, updateRequirementCollection,
     createRequirement, createRequirementCollection, ReceivePost
<1> QED
  BY <1>1, <1>2, <1>3, <1>4, <1>5, <1>6 DEF Endpoint

-----------------------------------------------------------------------------
(***************************************************************************)
(* Types.                                                                  *)
(***************************************************************************)
LEMMA InitTypeInv == Init => TypeInv
<1> SUFFICES ASSUME Init PROVE TypeInv
  OBVIOUS
<1>1. RestTypeOK /\ pc \in [Requests -> Steps] /\ OnItsWay
  BY RestAssumption DEF Init, RestInit, RestTypeOK, OnItsWay, Contents, Steps, Success
<1>2. /\ log \in Seq(Events) /\ toIndex \in Seq(Requirements)
      /\ docs \in [Requirements -> Nat] /\ hits \in [Requests -> SUBSET Requirements]
  BY DEF Init, TrsInit
<1> QED
  BY <1>1, <1>2 DEF TypeInv

LEMMA ComesFrame ==
  ASSUME TypeInv, NEW r \in Requests, Comes(r)
  PROVE  /\ pc[r] = "new" /\ pc'[r] \in Steps \ ({"new", "done"} \cup Late)
         /\ status[r] = 0 /\ call'[r] \in Calls
         /\ pc'[r] = "put" => call'[r].method = "POST"
         /\ UNCHANGED <<resources, seen, overwrote, status>>
         /\ \A q \in Requests \ {r} : pc'[q] = pc[q] /\ call'[q] = call[q]
<1>1. PICK method \in Methods, u \in Uris, ifMatch \in ETags \cup {NoETag},
           input \in Inputs, first \in Steps :
              /\ Receive(r, method, u, ifMatch, input, first)
              /\ first \in {"get", "put", "reject", "dialog", "search"}
              /\ first = "put" => method = "POST"
  BY DEF Comes
<1>2. first \notin {"new", "done"} \cup Late
  BY <1>1 DEF Late
<1>3. Answered \subseteq Requests
  BY DEF Answered
<1> QED
  BY <1>1, <1>2, <1>3 DEF Receive, Goto, TypeInv, RestTypeOK, Calls

LEMMA ComesTypeInv ==
  ASSUME TypeInv, NEW r \in Requests, Comes(r), UNCHANGED <<log, indexVars>>
  PROVE  TypeInv'
<1>1. PICK method \in Methods, u \in Uris, ifMatch \in ETags \cup {NoETag},
           input \in Inputs, first \in Steps :
              /\ Receive(r, method, u, ifMatch, input, first)
              /\ \/ first = "get" /\ method \in Looking
                 \/ first \in {"put", "reject"} /\ method = "POST"
                 \/ first = "dialog" /\ method = "FORM"
                 \/ first = "search" /\ method \in {"SEARCH", "HTMX"}
  BY DEF Comes
<1>2. pc'[r] = first /\ call'[r].method = method
  BY <1>1 DEF Receive, Goto, TypeInv, RestTypeOK
<1>3. call' \in [Requests -> Calls \cup {NoCall}] /\ pc' \in [Requests -> Steps]
  BY <1>1, ComesFrame DEF Receive, Goto, TypeInv, RestTypeOK
<1>4. RestTypeOK'
  BY <1>3, ComesFrame DEF TypeInv, RestTypeOK
<1>5. OnItsWay'
  BY <1>1, <1>2, ComesFrame DEF TypeInv, OnItsWay
<1> QED
  BY <1>3, <1>4, <1>5 DEF TypeInv, indexVars

\* A step concerns a request that has begun, and no other.
LEMMA StepFrame ==
  ASSUME TypeInv, NEW r \in Requests, Step(r)
  PROVE  /\ pc[r] \notin {"new", "done"} /\ status[r] = 0 /\ call' = call
         /\ call[r] \in Calls /\ call[r].uri \in Uris
         /\ \A q \in Requests \ {r} : /\ pc'[q] = pc[q] /\ status'[q] = status[q]
                                      /\ seen'[q] = seen[q]
<1>1. pc[r] \notin {"new", "done"} /\ call' = call
  BY DEF Step, Get, Put, AddToIndex, Remove, Reject, Dialog, Search, LookUp, LogEvent
<1>2. status[r] = 0 /\ call[r] \in Calls /\ call[r].uri \in Uris
  BY <1>1 DEF TypeInv, RestTypeOK, Calls
<1>3. \A q \in Requests \ {r} : pc'[q] = pc[q] /\ status'[q] = status[q] /\ seen'[q] = seen[q]
  BY DEF Step, Get, AfterGet, Present, Put, AddToIndex, Remove, Reject, Dialog, Search, LookUp,
     LogEvent, Answer, Goto, TypeInv, RestTypeOK
<1> QED
  BY <1>1, <1>2, <1>3

\* Answers and the steps between them keep status and program counter in step.
LEMMA Answers ==
  ASSUME TypeInv, NEW r \in Requests, NEW code \in {200, 201, NoContent, 400, 404, 500},
         Answer(r, code)
  PROVE  /\ pc'[r] = "done" /\ status'[r] = code /\ code # 0
         /\ pc' \in [Requests -> Steps]
         /\ status' \in [Requests -> {0, NoContent} \cup Success \cup Failure]
BY DEF Answer, TypeInv, RestTypeOK, Steps, Success, Failure, NoContent

LEMMA GoesOn ==
  ASSUME TypeInv, NEW r \in Requests, NEW step \in Steps, Goto(r, step)
  PROVE  pc'[r] = step /\ status' = status /\ pc' \in [Requests -> Steps]
BY DEF Goto, TypeInv, RestTypeOK

\* What a step does to a request: it goes on, or is answered.
LEMMA StepAdvances ==
  ASSUME TypeInv, NEW r \in Requests, Step(r)
  PROVE  /\ pc' \in [Requests -> Steps]
         /\ status' \in [Requests -> {0, NoContent} \cup Success \cup Failure]
         /\ (pc'[r] = "done") <=> (status'[r] # 0)
         /\ pc'[r] # "new"
<1>1. \/ \E code \in {200, 201, NoContent, 400, 404, 500} : Answer(r, code)
      \/ \E step \in Steps \ {"new", "done"} : Goto(r, step)
      \/ UNCHANGED <<pc, status>>
  BY DEF Step, Get, AfterGet, Present, Put, AddToIndex, Remove, Reject, Dialog, Search, LookUp,
     LogEvent, Steps
<1>2. CASE \E code \in {200, 201, NoContent, 400, 404, 500} : Answer(r, code)
  BY <1>2, Answers
<1>3. CASE \E step \in Steps \ {"new", "done"} : Goto(r, step)
  BY <1>3, GoesOn, StepFrame DEF TypeInv, RestTypeOK
<1>4. CASE UNCHANGED <<pc, status>>
  BY <1>4, StepFrame DEF TypeInv, RestTypeOK
<1> QED
  BY <1>1, <1>2, <1>3, <1>4

LEMMA EntryIsEvent ==
  ASSUME TypeInv, NEW r \in Requests, pc[r] = "event"
  PROVE  Entry(r) \in Events
<1>1. call[r] \in Calls /\ call[r].method \in Changes
  BY DEF TypeInv, RestTypeOK, OnItsWay
<1> QED
  BY <1>1 DEF Entry, Events, Kind, Kinds, Calls

LEMMA StepTypeInv == ASSUME TypeInv, NEW r \in Requests, Step(r) PROVE TypeInv'
<1>1. resources' \in [Uris -> Contents \cup {Absent}]
  BY StepFrame DEF Step, Get, Put, AddToIndex, Remove, Reject, Dialog, Search, LookUp,
     LogEvent, TypeInv, RestTypeOK, Contents
<1>2. /\ seen' \in [Requests -> Contents \cup {Absent}]
      /\ overwrote' \in [Requests -> Contents \cup {Absent}]
  BY StepFrame DEF Step, Get, Put, AddToIndex, Remove, Reject, Dialog, Search, LookUp,
     LogEvent, TypeInv, RestTypeOK
<1>3. RestTypeOK'
  BY <1>1, <1>2, StepFrame, StepAdvances DEF TypeInv, RestTypeOK
<1>4. log' \in Seq(Events)
  <2>1. CASE LogEvent(r)
    <3>1. Entry(r) \in Events
      BY <2>1, EntryIsEvent DEF LogEvent
    <3>2. log' = Append(log, Entry(r)) /\ log \in Seq(Events)
      BY <2>1 DEF LogEvent, TypeInv
    <3> QED
      BY <3>1, <3>2
  <2>2. CASE log' = log
    BY <2>2 DEF TypeInv
  <2> QED
    BY <2>1, <2>2 DEF Step, Get, Put, AddToIndex, Remove, Reject, Dialog, Search, LookUp
<1>5. toIndex' \in Seq(Requirements)
  <2>1. CASE AddToIndex(r)
    <3>1. call[r].uri \in Requirements
      BY <2>1 DEF AddToIndex, TypeInv, OnItsWay
    <3>2. toIndex' = Append(toIndex, call[r].uri) /\ toIndex \in Seq(Requirements)
      BY <2>1 DEF AddToIndex, TypeInv
    <3> QED
      BY <3>1, <3>2
  <2>2. CASE toIndex' = toIndex
    BY <2>2 DEF TypeInv
  <2> QED
    BY <2>1, <2>2 DEF Step, Get, Put, Remove, Reject, Dialog, Search, LookUp, indexVars
<1>6. docs' = docs
  BY DEF Step, Get, Put, AddToIndex, Remove, Reject, Dialog, Search, LookUp, LogEvent,
     indexVars
<1>7. hits' \in [Requests -> SUBSET Requirements]
  BY DEF Step, Get, Put, AddToIndex, Remove, Reject, Dialog, Search, LookUp, LogEvent,
     indexVars, Indexed, TypeInv
<1>8. OnItsWay'
  <2>1. /\ pc'[r] = "get" => call[r].method \in Looking
        /\ pc'[r] = "put" => call[r].method \in {"PUT", "POST"}
        /\ pc'[r] = "index" => call[r].method = "POST" /\ call[r].uri \in Requirements
        /\ pc'[r] = "event" => call[r].method \in Changes
        /\ pc'[r] = "remove" => call[r].method = "DELETE"
        /\ pc'[r] = "reject" => call[r].method = "POST"
        /\ pc'[r] = "dialog" => call[r].method = "FORM"
        /\ pc'[r] \in {"search", "lookup"} => call[r].method \in {"SEARCH", "HTMX"}
    BY StepFrame DEF Step, Get, AfterGet, Present, Put, AddToIndex, Remove, Reject, Dialog, Search,
       LookUp, LogEvent, Answer, Goto, TypeInv, OnItsWay, Looking, Changes
  <2>2. status'[r] = 200 /\ call[r].method = "GET" => seen'[r] \in Contents
    <3>1. CASE Get(r)
      <4>1. resources[call[r].uri] = Absent => status'[r] = 404
        BY <3>1, Answers DEF Get
      <4>2. seen'[r] = resources[call[r].uri]
        BY <3>1 DEF Get, TypeInv, RestTypeOK
      <4> QED
        BY <4>1, <4>2, StepFrame DEF TypeInv, RestTypeOK
    <3>2. CASE ~Get(r)
      <4>1. pc[r] \notin {"get"} \cup {"new", "done"}
        BY <3>2, StepFrame DEF Step, Put, AddToIndex, Remove, Reject, Dialog, Search, LookUp,
           LogEvent
      <4>2. call[r].method # "GET"
        BY <4>1 DEF TypeInv, OnItsWay, Steps, Changes
      <4> QED
        BY <4>2
    <3> QED
      BY <3>1, <3>2
  <2> QED
    BY <2>1, <2>2, StepFrame DEF TypeInv, OnItsWay
<1> QED
  BY <1>3, <1>4, <1>5, <1>6, <1>7, <1>8, StepAdvances DEF TypeInv

LEMMA IndexTypeInv == ASSUME TypeInv, Index PROVE TypeInv'
<1>1. /\ toIndex' \in Seq(Requirements) /\ Head(toIndex) \in Requirements
      /\ docs' = [docs EXCEPT ![Head(toIndex)] = @ + 1]
  BY DEF Index, TypeInv
<1>2. docs' \in [Requirements -> Nat]
  BY <1>1 DEF TypeInv
<1> QED
  BY <1>1, <1>2 DEF Index, TypeInv, RestTypeOK, OnItsWay

LEMMA InductiveTypes == TypeInv /\ [Next]_vars => TypeInv'
<1> SUFFICES ASSUME TypeInv, [Next]_vars PROVE TypeInv'
  OBVIOUS
<1>1. ASSUME NEW r \in Requests, Endpoint(r) PROVE TypeInv'
  BY <1>1, EndpointComes, ComesTypeInv
<1>2. CASE UNCHANGED vars
  BY <1>2 DEF vars, TypeInv, RestTypeOK, OnItsWay
<1>3. Finished /\ UNCHANGED <<log, indexVars>> => UNCHANGED vars
  BY DEF Finished, restVars, indexVars, vars
<1> QED
  BY <1>1, <1>2, <1>3, StepTypeInv, IndexTypeInv DEF Next
-----------------------------------------------------------------------------
(***************************************************************************)
(* What is told of changes, and what steps change the stores.              *)
(***************************************************************************)
LEMMA KindOf ==
  /\ Kind("POST") = "Creation" /\ Kind("PUT") = "Modification" /\ Kind("DELETE") = "Deletion"
  /\ \A r : Entry(r).kind = Kind(call[r].method) /\ Entry(r).uri = call[r].uri /\ Entry(r).by = r
<1>1. Kind("POST") = "Creation" /\ Kind("PUT") = "Modification" /\ Kind("DELETE") = "Deletion"
  BY DEF Kind
<1>2. \A r : Entry(r).kind = Kind(call[r].method) /\ Entry(r).uri = call[r].uri /\ Entry(r).by = r
  BY DEF Entry
<1> QED
  BY <1>1, <1>2

\* A change puts the request among those that owe an entry, which pay by writing it.
LEMMA StepOwes ==
  ASSUME TypeInv, NEW r \in Requests, Step(r)
  PROVE  /\ pc'[r] \in Late => OwedBy(Late)' = OwedBy(Late) \cup {Entry(r)}
         /\ pc'[r] \notin Late => OwedBy(Late)' = OwedBy(Late) \ {Entry(r)}
         /\ \A q \in Requests : Entry(q)' = Entry(q)
         /\ pc[r] \in Late => Entry(r) \in OwedBy(Late)
<1>1. \A q \in Requests : Entry(q)' = Entry(q)
  BY StepFrame DEF Entry
<1>2. \A q \in Requests : Entry(q) = Entry(r) => q = r
  BY KindOf
<1>3. /\ \A q \in Requests \ {r} : pc'[q] = pc[q]
  BY StepFrame
<1>4. Late' = Late
  BY DEF Late
<1> QED
  BY <1>1, <1>2, <1>3, <1>4 DEF OwedBy

LEMMA LogEventAppends ==
  ASSUME TypeInv, NEW r \in Requests, LogEvent(r)
  PROVE  Logged' = Logged \cup {Entry(r)} /\ log' = Append(log, Entry(r)) /\ pc'[r] = "done"
<1>1. Entry(r) \in Events /\ log \in Seq(Events) /\ log' = Append(log, Entry(r))
  BY EntryIsEvent DEF LogEvent, TypeInv
<1>2. /\ DOMAIN log' = DOMAIN log \cup {Len(log) + 1}
      /\ \A i \in DOMAIN log : log'[i] = log[i]
      /\ log'[Len(log) + 1] = Entry(r)
  BY <1>1
<1>3. pc'[r] = "done"
  BY DEF LogEvent, Answer, TypeInv
<1> QED
  BY <1>1, <1>2, <1>3 DEF Logged

\* The steps by what they do to the stores and the log.
LEMMA StepKinds ==
  ASSUME TypeInv, NEW r \in Requests, Step(r)
  PROVE  LET u == call[r].uri IN
         \/ /\ Put(r) /\ log' = log /\ pc[r] = "put" /\ call[r].method \in {"PUT", "POST"}
            /\ resources' = [resources EXCEPT ![u] = r] /\ r # Absent
            /\ pc'[r] = IF call[r].method = "POST" /\ u \in Requirements
                        THEN "index" ELSE "event"
         \/ /\ Remove(r) /\ log' = log /\ pc[r] = "remove" /\ call[r].method = "DELETE"
            /\ resources[u] # Absent /\ resources' = [resources EXCEPT ![u] = Absent]
            /\ pc'[r] = "event"
         \/ AddToIndex(r) /\ UNCHANGED <<resources, log>> /\ pc[r] = "index" /\ pc'[r] = "event"
         \/ LogEvent(r) /\ resources' = resources /\ pc[r] = "event" /\ pc'[r] = "done"
         \/ /\ UNCHANGED <<resources, log>> /\ pc[r] \notin Late /\ pc'[r] \notin Late
            /\ pc'[r] = "put" => pc[r] = "get" /\ call[r].method = "PUT"
                                 /\ resources[call[r].uri] # Absent
<1> DEFINE u == call[r].uri
<1>1. u \in Uris /\ r # Absent
  BY StepFrame, RestAssumption DEF RestAssumption, Contents
<1>2. CASE Put(r)
  BY <1>1, <1>2 DEF Put, Goto, TypeInv, OnItsWay
<1>3. CASE Remove(r)
  <2>1. pc[r] = "remove" /\ call[r].method = "DELETE" /\ log' = log
        /\ resources' = [resources EXCEPT ![u] = Absent]
    BY <1>3 DEF Remove, TypeInv, OnItsWay
  <2>2. CASE resources[u] = Absent
    <3>1. resources' = resources
      BY <1>1, <2>1, <2>2 DEF TypeInv, RestTypeOK
    <3>2. pc'[r] = "done"
      BY <1>3, <2>2 DEF Remove, Answer, TypeInv
    <3> QED
      BY <2>1, <3>1, <3>2 DEF Late
  <2>3. CASE resources[u] # Absent
    <3>1. pc'[r] = "event"
      BY <1>3, <2>3 DEF Remove, Goto, TypeInv
    <3> QED
      BY <1>3, <2>1, <2>3, <3>1
  <2> QED
    BY <2>2, <2>3
<1>4. CASE AddToIndex(r)
  BY <1>4 DEF AddToIndex, Goto, TypeInv
<1>5. CASE LogEvent(r)
  BY <1>5, LogEventAppends DEF LogEvent
<1>6. CASE Get(r) \/ Reject(r) \/ Dialog(r) \/ Search(r) \/ LookUp(r)
  BY <1>6 DEF Get, AfterGet, Present, Reject, Dialog, Search, LookUp, Answer, Goto, TypeInv,
     OnItsWay, Looking, Late
<1> QED
  BY <1>2, <1>3, <1>4, <1>5, <1>6 DEF Step

LEMMA ToldByStep ==
  ASSUME TypeInv, NEW r \in Requests, Step(r)
  PROVE  /\ ToldBy(Late) \subseteq ToldBy(Late)'
         /\ pc'[r] \in Late => Entry(r) \in ToldBy(Late)'
<1>1. Late = {"index", "event"}
  BY DEF Late
<1>2. CASE LogEvent(r)
  BY <1>1, <1>2, StepOwes, LogEventAppends DEF ToldBy
<1>3. CASE log' = log /\ (pc'[r] \in Late \/ pc[r] \notin Late)
  <2>1. Logged' = Logged
    BY <1>3 DEF Logged
  <2>2. pc[r] \notin Late => Entry(r) \notin OwedBy(Late)
    BY KindOf DEF OwedBy
  <2> QED
    BY <1>3, <2>1, <2>2, StepOwes DEF ToldBy
<1> QED
  BY <1>1, <1>2, <1>3, StepKinds

LEMMA ToldByComes ==
  ASSUME TypeInv, NEW r \in Requests, Comes(r), UNCHANGED <<log, indexVars>>
  PROVE  ToldBy(Late)' = ToldBy(Late) /\ OwedBy(Late)' = OwedBy(Late) /\ Logged' = Logged
<1>1. pc[r] \notin Late /\ pc'[r] \notin Late
  BY ComesFrame DEF Late
<1>2. \A q \in Requests \ {r} : pc'[q] = pc[q] /\ Entry(q)' = Entry(q)
  BY ComesFrame DEF Entry
<1>3. Late' = Late /\ Logged' = Logged
  BY DEF Late, Logged
<1> QED
  BY <1>1, <1>2, <1>3 DEF ToldBy, OwedBy
-----------------------------------------------------------------------------
(***************************************************************************)
(* The index knows of every requirement, and of nothing that never was.    *)
(***************************************************************************)
Queued(u) == \E i \in DOMAIN toIndex : toIndex[i] = u
Submits(u) == \E r \in Requests : pc[r] = "index" /\ call[r].uri = u
Gone(u) == \E e \in ToldBy(Late) : e.kind = "Deletion" /\ e.uri = u
Searchable(u) == resources[u] # Absent \/ Gone(u)

Known(u) == docs[u] > 0 \/ Queued(u) \/ Submits(u)

\* What a PUT may bring back has been found, so it was known, and stays so.
IndexInv ==
    /\ \A u \in Requirements : resources[u] # Absent => Known(u)
    /\ \A r \in Requests : /\ pc[r] = "put" /\ call[r].method = "PUT"
                           /\ call[r].uri \in Requirements
                           => Known(call[r].uri)
    /\ \A u \in Requirements : Known(u) => Searchable(u)
    /\ \A r \in Requests : \A u \in hits[r] : Searchable(u)
    /\ SearchFailsOverDeleted

LEMMA SearchableStays ==
  ASSUME TypeInv, NEW r \in Requests, Step(r), NEW u \in Requirements, Searchable(u)
  PROVE  Searchable(u)'
<1>1. u \in Uris /\ call' = call
  BY RmAssumption, StepFrame DEF RmAssumption
<1>2. Gone(u) => Gone(u)'
  BY ToldByStep DEF Gone
<1>3. CASE /\ resources' = [resources EXCEPT ![call[r].uri] = Absent]
           /\ call[r].method = "DELETE" /\ pc'[r] = "event"
  <2>1. CASE call[r].uri = u
    <3>1. Entry(r) \in ToldBy(Late)'
      BY <1>3, ToldByStep DEF Late
    <3>2. Entry(r).kind = "Deletion" /\ Entry(r).uri = u
      BY <1>3, <2>1, KindOf
    <3> QED
      BY <3>1, <3>2 DEF Searchable, Gone
  <2>2. CASE call[r].uri # u
    BY <1>1, <1>2, <1>3, <2>2 DEF Searchable, TypeInv, RestTypeOK
  <2> QED
    BY <2>1, <2>2
<1>4. CASE resources' = [resources EXCEPT ![call[r].uri] = r] /\ r # Absent
  BY <1>1, <1>2, <1>4 DEF Searchable, TypeInv, RestTypeOK
<1>5. CASE resources' = resources
  BY <1>2, <1>5 DEF Searchable
<1> QED
  BY <1>3, <1>4, <1>5, StepKinds

LEMMA AppendQueues ==
  ASSUME TypeInv, NEW r \in Requests, AddToIndex(r), NEW u
  PROVE  Queued(u)' <=> Queued(u) \/ u = call[r].uri
<1>1. /\ toIndex' = Append(toIndex, call[r].uri) /\ toIndex \in Seq(Requirements)
      /\ call[r].uri \in Requirements
  BY DEF AddToIndex, TypeInv, OnItsWay
<1>2. /\ DOMAIN toIndex' = DOMAIN toIndex \cup {Len(toIndex) + 1}
      /\ \A i \in DOMAIN toIndex : toIndex'[i] = toIndex[i]
      /\ toIndex'[Len(toIndex) + 1] = call[r].uri
  BY <1>1
<1> QED
  BY <1>2 DEF Queued

LEMMA TailQueues ==
  ASSUME TypeInv, Index, NEW u
  PROVE  Queued(u) <=> Queued(u)' \/ u = Head(toIndex)
<1>1. /\ toIndex' = Tail(toIndex) /\ toIndex \in Seq(Requirements) /\ toIndex # <<>>
  BY DEF Index, TypeInv
<1>2. /\ DOMAIN toIndex = 1..Len(toIndex) /\ DOMAIN toIndex' = 1..(Len(toIndex) - 1)
      /\ Len(toIndex) \in Nat \ {0}
      /\ \A i \in DOMAIN toIndex' : toIndex'[i] = toIndex[i + 1]
      /\ Head(toIndex) = toIndex[1]
  BY <1>1
<1>3. ASSUME Queued(u) PROVE Queued(u)' \/ u = Head(toIndex)
  <2>1. PICK i \in DOMAIN toIndex : toIndex[i] = u
    BY <1>3 DEF Queued
  <2>2. CASE i = 1
    BY <1>2, <2>1, <2>2
  <2>3. CASE i # 1
    <3>1. i - 1 \in DOMAIN toIndex' /\ toIndex'[i - 1] = u
      BY <1>2, <2>1, <2>3
    <3> QED
      BY <3>1 DEF Queued
  <2> QED
    BY <2>2, <2>3
<1>4. ASSUME Queued(u)' PROVE Queued(u)
  <2>1. PICK i \in DOMAIN toIndex' : toIndex'[i] = u
    BY <1>4 DEF Queued
  <2>2. i + 1 \in DOMAIN toIndex /\ toIndex[i + 1] = u
    BY <1>2, <2>1
  <2> QED
    BY <2>2 DEF Queued
<1>5. 1 \in DOMAIN toIndex
  BY <1>2
<1> QED
  BY <1>2, <1>3, <1>4, <1>5 DEF Queued

\* What is in the index, or on its way there, after a step of a request.
LEMMA StepQueues ==
  ASSUME TypeInv, NEW r \in Requests, Step(r), NEW u
  PROVE  /\ docs' = docs
         /\ Queued(u)' <=> Queued(u) \/ (AddToIndex(r) /\ u = call[r].uri)
         /\ Submits(u)' <=> \/ \E q \in Requests \ {r} : pc[q] = "index" /\ call[q].uri = u
                            \/ pc'[r] = "index" /\ call[r].uri = u
<1>1. docs' = docs /\ (~AddToIndex(r) => toIndex' = toIndex)
  BY DEF Step, Get, Put, AddToIndex, Remove, Reject, Dialog, Search, LookUp, LogEvent,
     indexVars
<1>2. Queued(u)' <=> Queued(u) \/ (AddToIndex(r) /\ u = call[r].uri)
  BY <1>1, AppendQueues DEF Queued
<1> QED
  BY <1>1, <1>2, StepFrame DEF Submits

LEMMA KnownStays ==
  ASSUME TypeInv, NEW r \in Requests, Step(r), NEW u, Known(u)
  PROVE  Known(u)'
<1>1. pc[r] = "index" => AddToIndex(r)
  BY StepKinds DEF Late
<1>2. Submits(u) => Submits(u)' \/ (AddToIndex(r) /\ call[r].uri = u)
  BY <1>1, StepQueues DEF Submits
<1> QED
  BY <1>2, StepQueues DEF Known

LEMMA StepIndexInv ==
  ASSUME TypeInv, IndexInv, NEW r \in Requests, Step(r)
  PROVE  IndexInv'
<1>1. call' = call /\ status[r] = 0 /\ pc[r] \notin {"new", "done"}
      /\ \A q \in Requests \ {r} : pc'[q] = pc[q] /\ status'[q] = status[q]
  BY StepFrame
<1>2. \A u \in Requirements : Searchable(u) => Searchable(u)'
  BY SearchableStays
<1>3. \A u : Known(u) => Known(u)'
  BY KnownStays
<1>4. ASSUME NEW u \in Requirements, resources'[u] # Absent PROVE Known(u)'
  <2>1. u \in Uris
    BY RmAssumption DEF RmAssumption
  <2>2. CASE resources[u] = Absent
    <3>1. /\ pc[r] = "put" /\ call[r].uri = u /\ call[r].method \in {"PUT", "POST"}
          /\ (call[r].method = "POST" => pc'[r] = "index")
      BY <1>4, <2>1, <2>2, StepKinds DEF TypeInv, RestTypeOK
    <3>2. CASE call[r].method = "POST"
      BY <3>1, <3>2, StepQueues DEF Known
    <3>3. CASE call[r].method = "PUT"
      BY <1>3, <3>1, <3>3 DEF IndexInv
    <3> QED
      BY <3>1, <3>2, <3>3
  <2> QED
    BY <1>3, <2>2 DEF IndexInv
<1>5. ASSUME NEW q \in Requests, pc'[q] = "put", call[q].method = "PUT",
             call[q].uri \in Requirements
      PROVE  Known(call[q].uri)'
  <2>1. pc[q] = "put" \/ resources[call[q].uri] # Absent
    BY <1>1, <1>5, StepKinds DEF Late
  <2>2. Known(call[q].uri)
    BY <1>5, <2>1 DEF IndexInv
  <2> QED
    BY <1>1, <1>3, <2>2 DEF Known, Queued, Submits
<1>6. ASSUME NEW u \in Requirements, Known(u)' PROVE Searchable(u)'
  <2>1. Known(u) => Searchable(u)'
    BY <1>2 DEF IndexInv
  <2>2. CASE ~Known(u)
    <3>1. CASE AddToIndex(r) /\ call[r].uri = u
      BY <2>2, <3>1, StepKinds DEF Known, Submits, AddToIndex
    <3>2. CASE pc'[r] = "index" /\ call[r].uri = u
      <4>1. /\ resources' = [resources EXCEPT ![u] = r] /\ r # Absent
        BY <3>2, StepKinds DEF Late
      <4>2. u \in Uris
        BY RmAssumption DEF RmAssumption
      <4> QED
        BY <4>1, <4>2 DEF Searchable, TypeInv, RestTypeOK
    <3> QED
      BY <1>6, <2>2, <3>1, <3>2, StepQueues DEF Known, Submits
  <2> QED
    BY <2>1, <2>2
<1>7. ASSUME NEW q \in Requests, NEW u \in hits'[q] PROVE Searchable(u)'
  <2>1. \/ u \in hits[q]
        \/ u \in Indexed
    BY <1>7 DEF Step, Get, Put, AddToIndex, Remove, Reject, Dialog, Search, LookUp, LogEvent,
       indexVars, TypeInv
  <2>2. hits[q] \subseteq Requirements
    BY DEF TypeInv
  <2>3. u \in Indexed => u \in Requirements /\ Known(u)
    BY DEF Indexed, Known
  <2> QED
    BY <1>2, <2>1, <2>2, <2>3 DEF IndexInv
<1>8. SearchFailsOverDeleted'
  <2> SUFFICES ASSUME NEW q \in Requests, pc'[q] = "done", call[q].method = "SEARCH",
                      status'[q] = 500
               PROVE  \E e \in ToldBy(Late)' : e.kind = "Deletion" /\ e.uri \in Requirements
    BY <1>1 DEF SearchFailsOverDeleted
  <2>1. CASE q # r
    <3>1. \E e \in ToldBy(Late) : e.kind = "Deletion" /\ e.uri \in Requirements
      BY <1>1, <2>1 DEF IndexInv, SearchFailsOverDeleted
    <3> QED
      BY <3>1, ToldByStep
  <2>2. CASE q = r
    <3>1. pc[r] \in {"search", "lookup"}
      BY <1>1, <2>2 DEF TypeInv, OnItsWay, Steps, Looking, Changes
    <3>2. CASE Search(r)
      <4>1. Answer(r, NoContent) \/ Goto(r, "lookup")
        BY <3>2 DEF Search
      <4> QED
        BY <1>1, <2>2, <4>1 DEF Answer, Goto, NoContent, TypeInv, RestTypeOK
    <3>3. CASE LookUp(r)
      <4>1. PICK u \in hits[r] : resources[u] = Absent
        BY <1>1, <2>2, <3>3 DEF LookUp, Answer, TypeInv, RestTypeOK
      <4>2. u \in Requirements /\ Gone(u)
        BY <4>1 DEF IndexInv, Searchable, TypeInv
      <4> QED
        BY <4>2, ToldByStep DEF Gone
    <3> QED
      BY <3>1, <3>2, <3>3 DEF Step, Get, Put, AddToIndex, Remove, Reject, Dialog, LogEvent
  <2> QED
    BY <2>1, <2>2
<1> QED
  BY <1>1, <1>4, <1>5, <1>6, <1>7, <1>8 DEF IndexInv

LEMMA IndexIndexInv == ASSUME TypeInv, IndexInv, Index PROVE IndexInv'
<1>1. UNCHANGED <<resources, pc, call, status, log, hits>>
  BY DEF Index
<1>2. /\ docs' = [docs EXCEPT ![Head(toIndex)] = @ + 1] /\ Head(toIndex) \in Requirements
      /\ docs \in [Requirements -> Nat]
  BY DEF Index, TypeInv
<1>3. \A u \in Requirements : Known(u)' <=> Known(u)
  <2> SUFFICES ASSUME NEW u \in Requirements PROVE Known(u)' <=> Known(u)
    OBVIOUS
  <2>1. Submits(u)' <=> Submits(u)
    BY <1>1 DEF Submits
  <2>2. docs'[u] > 0 <=> docs[u] > 0 \/ u = Head(toIndex)
    BY <1>2
  <2> QED
    BY <2>1, <2>2, TailQueues DEF Known
<1>4. \A u : Searchable(u)' <=> Searchable(u)
  BY <1>1 DEF Searchable, Gone, ToldBy, Logged, OwedBy, Entry, Late
<1>5. SearchFailsOverDeleted'
  BY <1>1 DEF IndexInv, SearchFailsOverDeleted, ToldBy, Logged, OwedBy, Entry, Late
<1> QED
  BY <1>1, <1>3, <1>4, <1>5 DEF IndexInv

LEMMA ComesIndexInv ==
  ASSUME TypeInv, IndexInv, NEW r \in Requests, Comes(r), UNCHANGED <<log, indexVars>>
  PROVE  IndexInv'
<1>1. /\ UNCHANGED <<resources, status, docs, toIndex, hits>>
      /\ pc[r] = "new" /\ pc'[r] \notin {"done", "index"} /\ status[r] = 0
      /\ pc'[r] = "put" => call'[r].method = "POST"
      /\ \A q \in Requests \ {r} : pc'[q] = pc[q] /\ call'[q] = call[q]
  BY ComesFrame DEF indexVars, Late
<1>2. \A u : Known(u)' <=> Known(u)
  BY <1>1 DEF Known, Queued, Submits
<1>3. \A u : Searchable(u)' <=> Searchable(u)
  BY <1>1, ToldByComes DEF Searchable, Gone
<1>4. SearchFailsOverDeleted'
  BY <1>1, ToldByComes DEF IndexInv, SearchFailsOverDeleted
<1> QED
  BY <1>1, <1>2, <1>3, <1>4 DEF IndexInv

LEMMA InductiveIndex == Spec => [](TypeInv /\ IndexInv)
<1>1. Init => IndexInv
  <2> SUFFICES ASSUME Init PROVE IndexInv
    OBVIOUS
  <2>1. \A u \in Requirements : docs[u] > 0 <=> u \in Seeded
    BY DEF Init
  <2>2. \A u \in Requirements : resources[u] # Absent <=> u \in Seeded
    BY RestAssumption, RmAssumption DEF RestAssumption, RmAssumption, Contents, Init, RestInit
  <2>3. \A u : ~Queued(u) /\ ~Submits(u)
    BY DEF Init, RestInit, Queued, Submits
  <2>4. \A r \in Requests : pc[r] = "new" /\ hits[r] = {}
    BY DEF Init, RestInit
  <2> QED
    BY <2>1, <2>2, <2>3, <2>4 DEF IndexInv, Known, Searchable, SearchFailsOverDeleted
<1>2. TypeInv /\ IndexInv /\ [Next]_vars => IndexInv'
  <2> SUFFICES ASSUME TypeInv, IndexInv, [Next]_vars PROVE IndexInv'
    OBVIOUS
  <2>1. ASSUME NEW r \in Requests, Endpoint(r) PROVE IndexInv'
    BY <2>1, EndpointComes, ComesIndexInv
  <2>2. CASE UNCHANGED vars
    BY <2>2 DEF vars, IndexInv, Known, Queued, Submits, Searchable, Gone, ToldBy, Logged,
       OwedBy, Entry, Late, SearchFailsOverDeleted
  <2>3. Finished /\ UNCHANGED <<log, indexVars>> => UNCHANGED vars
    BY DEF Finished, restVars, indexVars, vars
  <2> QED
    BY <2>1, <2>2, <2>3, StepIndexInv, IndexIndexInv DEF Next
<1> QED
  BY <1>1, <1>2, InitTypeInv, InductiveTypes, PTL DEF Spec

(***************************************************************************)
(* No stored requirement is forgotten by the search: it has a document in  *)
(* the index, or its task is in the queue of the indexer thread, or the    *)
(* request that creates it is about to submit one.                         *)
(***************************************************************************)
THEOREM NothingForgotten == Spec => []StoredIsIndexed
<1>1. IndexInv => StoredIsIndexed
  BY DEF IndexInv, Known, Queued, Submits, StoredIsIndexed
<1> QED
  BY <1>1, InductiveIndex, PTL

(***************************************************************************)
(* A search that looks up a document whose requirement is not stored, and  *)
(* fails, does so only after a DELETE of a requirement.                    *)
(***************************************************************************)
THEOREM OnlyDeletionsBreakSearches == Spec => []SearchFailsOverDeleted
<1>1. IndexInv => SearchFailsOverDeleted
  BY DEF IndexInv
<1> QED
  BY <1>1, InductiveIndex, PTL
-----------------------------------------------------------------------------
(***************************************************************************)
(* The server implements the abstract store with its log.                  *)
(***************************************************************************)
\* What is stored, or about to be updated, is tracked; only who is done is in the log.
TrackInv ==
    /\ StoredIsTrackedBy(Late)
    /\ \A r \in Requests : pc[r] = "put" /\ call[r].method = "PUT" =>
                               TrackedBy(Late, call[r].uri)
    /\ \A i \in DOMAIN log : pc[log[i].by] = "done"

LEMMA LogOfRequests == TypeInv => \A i \in DOMAIN log : log[i].by \in Requests
<1> SUFFICES ASSUME TypeInv, NEW i \in DOMAIN log PROVE log[i].by \in Requests
  OBVIOUS
<1>1. log[i] \in Events
  BY DEF TypeInv
<1> QED
  BY <1>1 DEF Events

LEMMA StepTrackInv ==
  ASSUME TypeInv, TrackInv, NEW r \in Requests, Step(r)
  PROVE  TrackInv'
<1>1. /\ call' = call /\ pc[r] \notin {"new", "done"} /\ call[r].uri \in Uris
      /\ \A q \in Requests \ {r} : pc'[q] = pc[q]
  BY StepFrame
<1>2. ASSUME NEW u, TrackedBy(Late, u) PROVE TrackedBy(Late, u)'
  <2>1. u \in TrsBase => u \in TrsBase'
    BY DEF TrsBase
  <2> QED
    BY <1>2, <2>1, ToldByStep DEF TrackedBy
<1>3. ASSUME NEW u \in Uris, resources'[u] # Absent PROVE TrackedBy(Late, u)'
  <2>1. CASE resources[u] # Absent
    BY <1>2, <2>1 DEF TrackInv, StoredIsTrackedBy
  <2>2. CASE resources[u] = Absent
    <3>1. /\ pc[r] = "put" /\ call[r].uri = u /\ call[r].method \in {"PUT", "POST"}
          /\ pc'[r] \in Late
      BY <1>3, <2>2, StepKinds DEF TypeInv, RestTypeOK, Late
    <3>2. CASE call[r].method = "PUT"
      BY <1>2, <3>1, <3>2 DEF TrackInv
    <3>3. CASE call[r].method = "POST"
      <4>1. Entry(r).kind = "Creation" /\ Entry(r).uri = u
        BY <3>1, <3>3, KindOf
      <4>2. Entry(r) \in ToldBy(Late)'
        BY <3>1, ToldByStep
      <4> QED
        BY <4>1, <4>2 DEF TrackedBy
    <3> QED
      BY <3>1, <3>2, <3>3
  <2> QED
    BY <2>1, <2>2
<1>4. ASSUME NEW q \in Requests, pc'[q] = "put", call[q].method = "PUT"
      PROVE  TrackedBy(Late, call[q].uri)'
  <2>1. pc[q] = "put" \/ (resources[call[q].uri] # Absent /\ call[q].uri \in Uris)
    BY <1>1, <1>4, StepKinds DEF Late
  <2>2. TrackedBy(Late, call[q].uri)
    BY <1>4, <2>1 DEF TrackInv, StoredIsTrackedBy
  <2> QED
    BY <1>1, <1>2, <2>2 DEF TrackedBy
<1>5. \A i \in DOMAIN log' : pc'[log'[i].by] = "done"
  <2>1. CASE LogEvent(r)
    <3>1. /\ log' = Append(log, Entry(r)) /\ pc'[r] = "done" /\ Entry(r) \in Events
          /\ log \in Seq(Events)
      BY <2>1, LogEventAppends, EntryIsEvent DEF LogEvent, TypeInv
    <3>2. /\ DOMAIN log' = DOMAIN log \cup {Len(log) + 1}
          /\ \A i \in DOMAIN log : log'[i] = log[i]
          /\ log'[Len(log) + 1] = Entry(r)
      BY <3>1
    <3> QED
      BY <1>1, <3>1, <3>2, KindOf, LogOfRequests DEF TrackInv
  <2>2. CASE log' = log
    BY <1>1, <2>2, LogOfRequests DEF TrackInv
  <2> QED
    BY <2>1, <2>2, StepKinds
<1> QED
  BY <1>1, <1>3, <1>4, <1>5 DEF TrackInv, StoredIsTrackedBy

LEMMA ComesTrackInv ==
  ASSUME TypeInv, TrackInv, NEW r \in Requests, Comes(r), UNCHANGED <<log, indexVars>>
  PROVE  TrackInv'
<1>1. /\ resources' = resources /\ log' = log
      /\ pc[r] = "new" /\ (pc'[r] = "put" => call'[r].method = "POST")
      /\ \A q \in Requests \ {r} : pc'[q] = pc[q] /\ call'[q] = call[q]
  BY ComesFrame
<1>2. \A u : TrackedBy(Late, u)' <=> TrackedBy(Late, u)
  BY ToldByComes DEF TrackedBy, TrsBase
<1>3. ASSUME NEW q \in Requests, pc'[q] = "put", call'[q].method = "PUT"
      PROVE  TrackedBy(Late, call[q].uri)'
  <2>1. q # r /\ TrackedBy(Late, call[q].uri)
    BY <1>1, <1>3 DEF TrackInv
  <2> QED
    BY <1>1, <1>2, <2>1 DEF TrackedBy
<1>4. \A i \in DOMAIN log' : pc'[log'[i].by] = "done"
  BY <1>1, LogOfRequests DEF TrackInv
<1>5. StoredIsTrackedBy(Late)'
  BY <1>1, <1>2 DEF TrackInv, StoredIsTrackedBy
<1> QED
  BY <1>3, <1>4, <1>5 DEF TrackInv

\* A request that has not changed a store has not told of a change.
LEMMA NotYetTold ==
  ASSUME TypeInv, TrackInv, NEW r \in Requests, pc[r] \notin Late \cup {"done"}
  PROVE  \A e \in Abstract!Told : e.by # r
<1>1. \A e \in OwedBy(Late) : e.by # r
  BY KindOf DEF OwedBy
<1>2. \A i \in DOMAIN log : log[i].by # r
  BY DEF TrackInv
<1> QED
  BY <1>1, <1>2 DEF Abstract!Told, Abstract!Logged

LEMMA StepImplements ==
  ASSUME TypeInv, TrackInv, NEW r \in Requests, Step(r)
  PROVE  [Abstract!TSNext]_(Abstract!tsVars)
<1> DEFINE u == call[r].uri
<1>1. /\ u \in Uris /\ Late = {"index", "event"}
      /\ Entry(r) = [kind |-> Kind(call[r].method), uri |-> u, by |-> r]
  BY StepFrame DEF Entry, Late
<1>2. CASE Put(r) /\ log' = log /\ pc[r] = "put" /\ call[r].method \in {"PUT", "POST"}
           /\ resources' = [resources EXCEPT ![u] = r] /\ pc'[r] \in Late
  <2>1. Abstract!Owe(Kind(call[r].method), u, r)
    BY <1>1, <1>2, StepOwes, NotYetTold DEF Abstract!Owe
  <2>2. /\ resources' \in [Uris -> Requests \cup {Seed, Absent}] /\ resources'[u] = r
        /\ \A v \in Uris \ {u} : resources'[v] = resources[v]
    BY <1>1, <1>2 DEF TypeInv, RestTypeOK, Contents
  <2>3. CASE call[r].method = "POST"
    <3>1. Abstract!Write("Creation", u, r)
      BY <2>1, <2>2, <2>3, KindOf DEF Abstract!Write
    <3> QED
      BY <1>1, <3>1 DEF Abstract!TSNext
  <2>4. CASE call[r].method = "PUT"
    <3>1. Abstract!Tracked(u)
      BY <1>2, <2>4 DEF TrackInv, TrackedBy, ToldBy, Logged,
         Abstract!Tracked, Abstract!Told, Abstract!Logged
    <3>2. Abstract!Write("Modification", u, r)
      BY <2>1, <2>2, <2>4, <3>1, KindOf DEF Abstract!Write
    <3> QED
      BY <1>1, <3>2 DEF Abstract!TSNext
  <2> QED
    BY <1>2, <2>3, <2>4
<1>3. CASE Remove(r) /\ log' = log /\ pc[r] = "remove" /\ call[r].method = "DELETE"
           /\ resources[u] # Absent /\ resources' = [resources EXCEPT ![u] = Absent]
           /\ pc'[r] = "event"
  <2>1. Abstract!Owe("Deletion", u, r)
    BY <1>1, <1>3, StepOwes, KindOf, NotYetTold DEF Abstract!Owe
  <2>2. /\ resources' \in [Uris -> Requests \cup {Seed, Absent}] /\ resources'[u] = Absent
        /\ \A v \in Uris \ {u} : resources'[v] = resources[v]
    BY <1>1, <1>3 DEF TypeInv, RestTypeOK, Contents
  <2>3. Abstract!Remove(u, r)
    BY <1>3, <2>1, <2>2 DEF Abstract!Remove
  <2> QED
    BY <1>1, <2>3 DEF Abstract!TSNext
<1>4. CASE AddToIndex(r) /\ UNCHANGED <<resources, log>> /\ pc[r] = "index" /\ pc'[r] = "event"
  BY <1>1, <1>4, StepOwes DEF Abstract!tsVars
<1>5. CASE LogEvent(r) /\ resources' = resources /\ pc[r] = "event" /\ pc'[r] = "done"
  <2>1. /\ Entry(r) \in OwedBy(Late) /\ OwedBy(Late)' = OwedBy(Late) \ {Entry(r)}
        /\ log' = Append(log, Entry(r))
    BY <1>1, <1>5, StepOwes, LogEventAppends
  <2>2. Abstract!Tell(Entry(r))
    BY <1>5, <2>1 DEF Abstract!Tell
  <2> QED
    BY <2>1, <2>2 DEF Abstract!TSNext
<1>6. CASE UNCHANGED <<resources, log>> /\ pc[r] \notin Late /\ pc'[r] \notin Late
  <2>1. Entry(r) \notin OwedBy(Late)
    BY <1>6, KindOf DEF OwedBy
  <2> QED
    BY <1>6, <2>1, StepOwes DEF Abstract!tsVars
<1> QED
  BY <1>1, <1>2, <1>3, <1>4, <1>5, <1>6, StepKinds

(***************************************************************************)
(* Every behaviour of the RM server is one of TrackedStore without losses: *)
(* each change of the two stores is told of exactly once in the change     *)
(* log, after it was made, and only what is tracked is modified.           *)
(***************************************************************************)
THEOREM Implements == Spec => ImplementsTrackedStore
<1>1. Init => Abstract!TSInit /\ TrackInv
  <2> SUFFICES ASSUME Init PROVE Abstract!TSInit /\ TrackInv
    OBVIOUS
  <2>1. OwedBy(Late) = {} /\ log = <<>>
    BY DEF Init, RestInit, TrsInit, OwedBy, Late
  <2>2. Abstract!TSInit
    BY <2>1 DEF Init, RestInit, TrsBase, Abstract!TSInit
  <2>3. TrackInv
    BY <2>1 DEF Init, RestInit, TrackInv, StoredIsTrackedBy, TrackedBy, TrsBase
  <2> QED
    BY <2>2, <2>3
<1>2. TypeInv /\ TrackInv /\ [Next]_vars => TrackInv' /\ [Abstract!TSNext]_(Abstract!tsVars)
  <2> SUFFICES ASSUME TypeInv, TrackInv, [Next]_vars
               PROVE  TrackInv' /\ [Abstract!TSNext]_(Abstract!tsVars)
    OBVIOUS
  <2>1. ASSUME NEW r \in Requests, Endpoint(r)
        PROVE  TrackInv' /\ UNCHANGED Abstract!tsVars
    BY <2>1, EndpointComes, ComesTrackInv, ToldByComes, ComesFrame DEF Abstract!tsVars
  <2>2. ASSUME NEW r \in Requests, Step(r)
        PROVE  TrackInv' /\ [Abstract!TSNext]_(Abstract!tsVars)
    BY <2>2, StepTrackInv, StepImplements
  <2>3. ASSUME UNCHANGED <<resources, pc, call, log>>
        PROVE  TrackInv' /\ UNCHANGED Abstract!tsVars
    BY <2>3 DEF TrackInv, StoredIsTrackedBy, TrackedBy, ToldBy, Logged, TrsBase, OwedBy,
       Entry, Late, Abstract!tsVars
  <2>4. Index \/ UNCHANGED vars \/ (Finished /\ UNCHANGED <<log, indexVars>>) =>
           UNCHANGED <<resources, pc, call, log>>
    BY DEF Index, vars, Finished, restVars
  <2> QED
    BY <2>1, <2>2, <2>3, <2>4 DEF Next
<1> QED
  BY <1>1, <1>2, InitTypeInv, InductiveTypes, PTL
     DEF Spec, ImplementsTrackedStore, Abstract!TSSpec
===============================================================================
