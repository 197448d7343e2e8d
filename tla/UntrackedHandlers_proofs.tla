------------------------ MODULE UntrackedHandlers_proofs ------------------------
(***************************************************************************)
(* What CM and QM have in common, for any number of requests, resources    *)
(* and repositories.  The theorems are in CmServer_proofs, QmServer_proofs.*)
(***************************************************************************)
EXTENDS UntrackedHandlers, FiniteSetTheorems, TLAPS

Looking == {"GET", "VIEW", "DELETE", "PUT"}
Steps == {"new", "has", "get", "update", "put", "reject", "insert", "remove", "unlink",
          "dialog", "find", "select", "done"}

\* Which handlers are at which step, and what they know then.
OnItsWay ==
    \A r \in Requests :
        /\ pc[r] \in {"has", "get"} => call[r].method \in Looking
        /\ pc[r] = "update" => call[r].method = "PUT"
        /\ pc[r] \in {"put", "insert"} => call[r].method \in {"PUT", "POST"}
        /\ pc[r] = "reject" => call[r].method = "POST"
        /\ pc[r] = "remove" => call[r].method = "DELETE"
        /\ pc[r] = "unlink" => call[r].method = "DELETE" /\ UnsafeMaps
        /\ pc[r] \in {"dialog", "find", "select"} => call[r].method \in {"FORM", "SEARCH"}
        /\ status[r] = 200 /\ call[r].method = "GET" => seen[r] \in Contents
        /\ pc[r] # "new" => \A q \in call[r].after : pc[q] = "done"

TypeInv == RestTypeOK /\ pc \in [Requests -> Steps] /\ OnItsWay

\* A request that comes in; only those for resources in "direct" are not asked about first.
Comes(r, direct) ==
    \E method \in Methods, u \in Uris, ifMatch \in ETags \cup {NoETag},
       input \in Inputs, first \in Steps :
          /\ Receive(r, method, u, ifMatch, input, first)
          /\ \/ first \in {"put", "reject"} /\ method = "POST" /\ ifMatch = NoETag
             \/ first = "has" /\ method \in Looking
             \/ first = "get" /\ method \in Looking /\ u \in direct
             \/ first \in {"dialog", "find", "select"} /\ method \in {"FORM", "SEARCH"}

\* hasResource, in QM; the dialogs and selectors of CM.
Asks(r) ==
    /\ pc[r] = "has"
    /\ \E c \in Found(call[r].uri) : IF c = Absent THEN Answer(r, 404) ELSE Goto(r, "get")
    /\ UNCHANGED <<resources, call, seen, overwrote, raced>>

Aside(r) ==
    /\ pc[r] \in {"dialog", "find", "select"}
    /\ \E code \in {200, NoContent, 500} : Answer(r, code)
    /\ UNCHANGED <<resources, call, seen, overwrote, raced>>

\* A removal has an effect at once, or where maps race at its end.
Deletes(r) == Remove(r) \/ RemoveEnds(r)

\* A step of a handler; "missing" is the status when getResource finds nothing.
Works(r, missing) == Asks(r) \/ Aside(r) \/ GetResource(r, missing) \/ StepAfterGet(r)

LEMMA KnownETagsType == TypeInv => KnownETags \subseteq ETags
  BY DEF TypeInv, RestTypeOK, OnItsWay, KnownETags, ETags, Answered, Success, Contents,
         calculateETag
-----------------------------------------------------------------------------
(***************************************************************************)
(* Types.                                                                  *)
(***************************************************************************)
LEMMA InitTypeInv == Init => TypeInv
  BY RestAssumption DEF Init, RestInit, TypeInv, RestTypeOK, OnItsWay, Contents, Steps,
     Success

LEMMA ComesTypeInv == ASSUME TypeInv, NEW r \in Requests, NEW direct, Comes(r, direct)
                      PROVE  TypeInv'
<1>1. PICK method \in Methods, u \in Uris, ifMatch \in ETags \cup {NoETag},
           input \in Inputs, first \in Steps :
              /\ Receive(r, method, u, ifMatch, input, first)
              /\ \/ first \in {"put", "reject"} /\ method = "POST"
                 \/ first \in {"has", "get"} /\ method \in Looking
                 \/ first \in {"dialog", "find", "select"} /\ method \in {"FORM", "SEARCH"}
  BY DEF Comes
<1>2. call'[r] \in Calls /\ call'[r].after = Answered
  BY <1>1 DEF Receive, Calls, Answered, TypeInv, RestTypeOK
<1>3. call' \in [Requests -> Calls \cup {NoCall}] /\ \A q \in Requests \ {r} : call'[q] = call[q]
  BY <1>1, <1>2 DEF Receive, TypeInv, RestTypeOK
<1>4. pc' = [pc EXCEPT ![r] = first] /\ pc[r] = "new" /\ first \notin {"new", "done"}
  BY <1>1 DEF Receive, Goto
<1>5. RestTypeOK'
  BY <1>1, <1>2, <1>3, <1>4 DEF Receive, Goto, TypeInv, RestTypeOK
<1>6. pc' \in [Requests -> Steps]
  BY <1>4 DEF TypeInv
<1>7. \A q \in Requests : pc[q] = "done" => pc'[q] = "done"
  BY <1>4 DEF TypeInv
<1>8. \A q \in Requests : pc'[q] # "new" => \A p \in call'[q].after : pc'[p] = "done"
  <2>1. ASSUME NEW q \in Requests \ {r}, pc'[q] # "new"
        PROVE  \A p \in call'[q].after : pc'[p] = "done"
    <3>1. pc[q] # "new" /\ call'[q] = call[q] /\ call[q] \in Calls
      BY <1>3, <1>4, <2>1 DEF TypeInv, RestTypeOK
    <3>2. \A p \in call[q].after : p \in Requests /\ pc[p] = "done"
      BY <3>1 DEF TypeInv, OnItsWay, Calls
    <3> QED
      BY <1>7, <3>1, <3>2
  <2> QED
    BY <1>2, <1>7, <2>1 DEF Answered
<1>9. OnItsWay'
  <2>1. ASSUME NEW q \in Requests \ {r}
        PROVE  pc'[q] = pc[q] /\ call'[q] = call[q] /\ status'[q] = status[q] /\ seen'[q] = seen[q]
    BY <1>1, <1>3, <1>4 DEF Receive, Goto, TypeInv
  <2>2. pc'[r] = first /\ call'[r].method = method /\ status'[r] = 0
    BY <1>1, <1>4 DEF Receive, Goto, TypeInv, RestTypeOK
  <2> QED
    BY <1>1, <1>8, <2>1, <2>2 DEF TypeInv, OnItsWay, Looking
<1> QED
  BY <1>5, <1>6, <1>9 DEF TypeInv

\* A step of a handler that has begun concerns a call.
LEMMA WorksOn ==
  ASSUME TypeInv, NEW r \in Requests, NEW missing, Works(r, missing)
  PROVE  /\ pc[r] \notin {"new", "done"} /\ status[r] = 0
         /\ call[r] \in Calls /\ call[r].uri \in Uris /\ Siblings(call[r].uri) \subseteq Uris
         /\ call' = call
<1>1. pc[r] \notin {"new", "done"} /\ call' = call
  BY DEF Works, Asks, Aside, GetResource, StepAfterGet, UpdateResource, Put, PutStarts,
     PutEnds, Remove, RemoveStarts, RemoveEnds, Reject
<1>2. status[r] = 0 /\ call[r] \in Calls
  BY <1>1 DEF TypeInv, RestTypeOK
<1>3. Siblings(call[r].uri) \subseteq Uris
  BY UntrackedAssumption DEF Siblings, UntrackedAssumption
<1> QED
  BY <1>1, <1>2, <1>3 DEF Calls

\* What becomes of a request.
LEMMA Answers ==
  ASSUME TypeInv, NEW r \in Requests, NEW code, Answer(r, code)
  PROVE  /\ pc'[r] = "done" /\ status'[r] = code
         /\ \A q \in Requests \ {r} : pc'[q] = pc[q] /\ status'[q] = status[q]
         /\ pc' \in [Requests -> Steps]
         /\ code \in {200, 201, NoContent, 400, 404, 412, 500} =>
              status' \in [Requests -> {0, NoContent} \cup Success \cup Failure]
BY DEF Answer, TypeInv, RestTypeOK, Steps, Success, Failure

LEMMA GoesOn ==
  ASSUME TypeInv, NEW r \in Requests, NEW step \in Steps, Goto(r, step)
  PROVE  /\ pc'[r] = step /\ status' = status
         /\ \A q \in Requests \ {r} : pc'[q] = pc[q]
         /\ pc' \in [Requests -> Steps]
BY DEF Goto, TypeInv, RestTypeOK

LEMMA FindsStored ==
  ASSUME NEW u
  PROVE  /\ Found(u) \subseteq {resources[u], Absent}
         /\ ~UnsafeMaps => Found(u) = {resources[u]}
         /\ Absent \in Found(u) => resources[u] = Absent \/ (UnsafeMaps /\ Busy(u))
BY DEF Found, Repository!Lookups

LEMMA PutStores ==
  ASSUME TypeInv, NEW r \in Requests, Put(r) \/ PutEnds(r), call[r].uri \in Uris,
         Siblings(call[r].uri) \subseteq Uris
  PROVE  LET u == call[r].uri IN
         /\ resources' \in [Uris -> Contents \cup {Absent}]
         /\ resources'[u] \in {r, Absent}
         /\ \A v \in Uris \ {u} : resources'[v] \in {resources[v], Absent}
         /\ \A v \in Uris \ {u} : resources'[v] # resources[v] => UnsafeMaps /\ v \in Siblings(u)
         /\ resources'[u] = Absent => UnsafeMaps /\ u \in Siblings(u)
         /\ ~UnsafeMaps => resources' = [resources EXCEPT ![u] = r]
<1> DEFINE u == call[r].uri
<1>0. r # Absent
  BY RestAssumption DEF RestAssumption, Contents
<1>1. CASE Put(r)
  BY <1>0, <1>1 DEF Put, Repository!Stores, TypeInv, RestTypeOK, Contents
<1>2. CASE PutEnds(r)
  BY <1>0, <1>2 DEF PutEnds, Repository!Stores, Repository!Remains, TypeInv, RestTypeOK, Contents
<1> QED
  BY <1>1, <1>2

LEMMA RemoveRemoves ==
  ASSUME TypeInv, NEW r \in Requests, Deletes(r), call[r].uri \in Uris,
         Siblings(call[r].uri) \subseteq Uris
  PROVE  LET u == call[r].uri IN
         /\ resources' \in [Uris -> Contents \cup {Absent}]
         /\ \A v \in Uris : resources'[v] \in {resources[v], Absent}
         /\ \A v \in Uris \ {u} : resources'[v] # resources[v] => UnsafeMaps /\ v \in Siblings(u)
         /\ \/ Answer(r, 500) /\ pc[r] = "remove" /\ resources[u] = Absent
            \/ Answer(r, 200) /\ (UnsafeMaps \/ resources[u] # Absent)
         /\ ~UnsafeMaps => resources' = [resources EXCEPT ![u] = Absent]
<1> DEFINE u == call[r].uri
<1>1. CASE Remove(r)
  <2>1. resources' = [resources EXCEPT ![u] = Absent]
    BY <1>1 DEF Remove, Repository!Removes
  <2>2. \/ Answer(r, 500) /\ pc[r] = "remove" /\ resources[u] = Absent
        \/ Answer(r, 200) /\ resources[u] # Absent
    BY <1>1 DEF Remove
  <2> QED
    BY <2>1, <2>2 DEF TypeInv, RestTypeOK
<1>2. CASE RemoveEnds(r)
  <2>1. Answer(r, 200) /\ UnsafeMaps
    BY <1>2 DEF RemoveEnds, TypeInv, OnItsWay
  <2>2. \/ resources' = [resources EXCEPT ![u] = Absent]
        \/ \E lost \in SUBSET Siblings(u) :
              resources' = [k \in Uris |-> IF k \in lost THEN Absent ELSE resources[k]]
    BY <1>2 DEF RemoveEnds, Repository!Removes, Repository!Remains, TypeInv, RestTypeOK
  <2>3. CASE resources' = [resources EXCEPT ![u] = Absent]
    BY <2>1, <2>3 DEF TypeInv, RestTypeOK
  <2>4. ASSUME NEW lost \in SUBSET Siblings(u),
               resources' = [k \in Uris |-> IF k \in lost THEN Absent ELSE resources[k]]
        PROVE  /\ resources' \in [Uris -> Contents \cup {Absent}]
               /\ \A v \in Uris : resources'[v] \in {resources[v], Absent}
               /\ \A v \in Uris \ {u} : resources'[v] # resources[v] => v \in Siblings(u)
    BY <2>4 DEF TypeInv, RestTypeOK
  <2> QED
    BY <2>1, <2>2, <2>3, <2>4
<1> QED
  BY <1>1, <1>2 DEF Deletes
-----------------------------------------------------------------------------
(***************************************************************************)
(* The steps by what they do to the request.                               *)
(***************************************************************************)
\* A step that only looks: it answers, or goes on because it found the resource.
LooksOnly(r, missing) ==
    /\ UNCHANGED <<resources, overwrote>>
    /\ seen' \in [Requests -> Contents \cup {Absent}]
    /\ \A q \in Requests \ {r} : seen'[q] = seen[q]
    /\ \/ /\ \E code \in {200, NoContent, 400, 404, 412, 500} : Answer(r, code)
          /\ status'[r] = 200 => call[r].method \notin Changes
          /\ status'[r] = 200 /\ call[r].method = "GET" => seen'[r] \in Contents
       \/ pc[r] = "has" /\ Goto(r, "get")
       \/ pc[r] = "get" /\ call[r].method = "DELETE" /\ Goto(r, "remove")
       \/ pc[r] = "remove" /\ UnsafeMaps /\ Goto(r, "unlink")
       \/ /\ pc[r] = "get" /\ call[r].method = "PUT" /\ Goto(r, "update")
          /\ call[r].ifMatch \in {NoETag, calculateETag(seen'[r])}
          /\ seen'[r] \in Found(call[r].uri)
       \/ pc[r] = "update" /\ Goto(r, "put") /\ seen' = seen
       \/ pc[r] = "put" /\ Goto(r, "insert") /\ seen' = seen
    /\ pc'[r] \in {"get", "remove", "update"} => resources[call[r].uri] # Absent
    /\ FailsOddly(r)' =>
          /\ Absent \in Found(call[r].uri)
          /\ pc[r] \in {"update", "remove"} \/ (pc[r] = "get" /\ missing = 500)

LEMMA Looked ==
  ASSUME TypeInv, NEW r \in Requests, NEW missing \in {404, 500},
         \/ Asks(r) \/ Aside(r) \/ GetResource(r, missing) \/ UpdateResource(r)
         \/ PutStarts(r) \/ RemoveStarts(r) \/ Reject(r)
  PROVE  LooksOnly(r, missing)
<1> DEFINE u == call[r].uri
<1>1. call[r] \in Calls /\ u \in Uris /\ pc[r] \notin {"new", "done"} /\ status[r] = 0
      /\ call' = call
  <2>1. Works(r, missing)
    BY DEF Works, StepAfterGet
  <2> QED
    BY <2>1, WorksOn
<1>t. UNCHANGED call /\ (status'[r] = 0 => ~FailsOddly(r)')
  BY <1>1 DEF FailsOddly
<1>2. CASE Asks(r)
  <2>1. PICK c \in Found(u) : IF c = Absent THEN Answer(r, 404) ELSE Goto(r, "get")
    BY <1>2 DEF Asks
  <2>2. c # Absent => resources[u] # Absent
    BY <2>1, FindsStored
  <2> QED
    <3>1. CASE Answer(r, 404)
      BY <1>1, <1>2, <3>1 DEF Asks, Answer, LooksOnly, FailsOddly, TypeInv, RestTypeOK
    <3>2. CASE Goto(r, "get") /\ resources[u] # Absent
      BY <1>1, <1>2, <3>2 DEF Asks, Goto, LooksOnly, FailsOddly, TypeInv, RestTypeOK
    <3> QED
      BY <2>1, <2>2, <3>1, <3>2
<1>3. CASE Aside(r)
  <2>1. call[r].method \in {"FORM", "SEARCH"}
    BY <1>3 DEF Aside, TypeInv, OnItsWay
  <2> QED
    <3>1. PICK code \in {200, NoContent, 500} : Answer(r, code)
      BY <1>3 DEF Aside
    <3>2. pc'[r] = "done" /\ UNCHANGED <<resources, seen, overwrote>>
      BY <1>3, <3>1, Answers DEF Aside
    <3>3. call[r].method \notin Changes /\ call[r].method \notin Looking
          /\ call[r].method # "GET"
      BY <2>1 DEF Changes, Looking
    <3>4. seen \in [Requests -> Contents \cup {Absent}]
      BY DEF TypeInv, RestTypeOK
    <3> QED
      BY <1>1, <2>1, <3>1, <3>2, <3>3, <3>4 DEF LooksOnly, FailsOddly
<1>4. CASE GetResource(r, missing)
  <2>1. PICK c \in Found(u) :
          /\ seen' = [seen EXCEPT ![r] = c]
          /\ IF c = Absent THEN Answer(r, missing) ELSE AfterGet(r, c)
    BY <1>4 DEF GetResource
  <2>2. pc[r] = "get" /\ call[r].method \in Looking /\ UNCHANGED <<resources, overwrote>>
    BY <1>4 DEF GetResource, TypeInv, OnItsWay
  <2>3. c \in Contents \cup {Absent} /\ (c # Absent => resources[u] # Absent /\ c \in Contents)
    BY <1>1, <2>1, FindsStored DEF TypeInv, RestTypeOK
  <2>4. /\ seen' \in [Requests -> Contents \cup {Absent}] /\ seen'[r] = c
        /\ \A q \in Requests \ {r} : seen'[q] = seen[q]
    BY <2>1, <2>3 DEF TypeInv, RestTypeOK
  <2>5. CASE c = Absent
    BY <1>1, <2>1, <2>2, <2>4, <2>5 DEF Answer, LooksOnly, FailsOddly, TypeInv, RestTypeOK
  <2>6. CASE c # Absent /\ call[r].method \in {"GET", "VIEW"}
    <3>1. Answer(r, 200) \/ Answer(r, 500)
      BY <2>1, <2>6 DEF AfterGet, Present
    <3>2. seen'[r] # Absent /\ seen'[r] \in Contents
      BY <2>3, <2>4, <2>6
    <3>3. ~FailsOddly(r)'
      BY <1>1, <2>6, <3>2 DEF FailsOddly
    <3>4. pc'[r] = "done"
      BY <3>1, Answers
    <3> QED
      BY <2>2, <2>4, <2>6, <3>1, <3>2, <3>3, <3>4 DEF LooksOnly, Changes
  <2>7. CASE c # Absent /\ call[r].method = "DELETE"
    <3>1. Goto(r, "remove")
      BY <2>1, <2>7 DEF AfterGet
    <3> QED
      BY <1>1, <1>t, <2>2, <2>3, <2>4, <2>7, <3>1 DEF Goto, LooksOnly, TypeInv, RestTypeOK
  <2>8. CASE c # Absent /\ call[r].method = "PUT"
    <3>1. \/ Answer(r, 412)
          \/ Answer(r, 400) /\ call[r].input = "bad"
          \/ Answer(r, 500) /\ call[r].input = "none"
          \/ Goto(r, "update") /\ call[r].ifMatch \in {NoETag, calculateETag(c)}
      BY <2>1, <2>8 DEF AfterGet, CheckBody
    <3>2. ASSUME NEW code \in {400, 412, 500}, Answer(r, code),
                 code = 400 => call[r].input = "bad", code = 500 => call[r].input = "none"
          PROVE  LooksOnly(r, missing)
      <4>1. pc'[r] = "done" /\ status'[r] = code
        BY <3>2, Answers
      <4>2. ~FailsOddly(r)'
        BY <1>1, <2>8, <3>2, <4>1 DEF FailsOddly
      <4> QED
        BY <2>2, <2>4, <3>2, <4>1, <4>2 DEF LooksOnly
    <3>3. CASE Goto(r, "update") /\ call[r].ifMatch \in {NoETag, calculateETag(c)}
      BY <1>1, <1>t, <2>1, <2>2, <2>3, <2>4, <2>8, <3>3 DEF Goto, LooksOnly, TypeInv, RestTypeOK
    <3> QED
      BY <3>1, <3>2, <3>3
  <2> QED
    BY <2>2, <2>5, <2>6, <2>7, <2>8 DEF Looking
<1>5. CASE UpdateResource(r)
  <2>1. PICK c \in Found(u) : IF c = Absent THEN Answer(r, 400) ELSE Goto(r, "put")
    BY <1>5 DEF UpdateResource
  <2> QED
    <3>1. CASE Answer(r, 400) /\ c = Absent
      BY <1>1, <1>5, <2>1, <3>1 DEF UpdateResource, Answer, LooksOnly, TypeInv, RestTypeOK
    <3>2. CASE Goto(r, "put")
      BY <1>1, <1>t, <1>5, <3>2 DEF UpdateResource, Goto, LooksOnly, TypeInv, RestTypeOK
    <3> QED
      BY <2>1, <3>1, <3>2
<1>6. CASE PutStarts(r)
  BY <1>1, <1>t, <1>6 DEF PutStarts, Goto, LooksOnly, TypeInv, RestTypeOK
<1>7. CASE RemoveStarts(r)
  <2>1. \/ Answer(r, 500) /\ Absent \in Found(u)
        \/ Goto(r, "unlink")
    BY <1>7 DEF RemoveStarts
  <2>2. /\ pc[r] = "remove" /\ UnsafeMaps /\ UNCHANGED <<resources, seen, overwrote>>
        /\ seen \in [Requests -> Contents \cup {Absent}]
    BY <1>7 DEF RemoveStarts, TypeInv, RestTypeOK
  <2>3. CASE Answer(r, 500) /\ Absent \in Found(u)
    <3>1. pc'[r] = "done" /\ status'[r] = 500
      BY <2>3, Answers
    <3> QED
      BY <2>2, <2>3, <3>1 DEF LooksOnly
  <2>4. CASE Goto(r, "unlink")
    BY <1>1, <1>t, <2>2, <2>4 DEF Goto, LooksOnly, TypeInv, RestTypeOK
  <2> QED
    BY <2>1, <2>3, <2>4
<1>8. CASE Reject(r)
  <2>1. /\ Answer(r, 500) /\ call[r].method = "POST" /\ UNCHANGED <<resources, seen, overwrote>>
        /\ seen \in [Requests -> Contents \cup {Absent}]
    BY <1>8 DEF Reject, TypeInv, OnItsWay, RestTypeOK
  <2>2. pc'[r] = "done" /\ status'[r] = 500
    BY <2>1, Answers
  <2>3. ~FailsOddly(r)'
    BY <1>1, <2>1 DEF FailsOddly
  <2> QED
    BY <2>1, <2>2, <2>3 DEF LooksOnly
<1> QED
  BY <1>2, <1>3, <1>4, <1>5, <1>6, <1>7, <1>8

\* What a step leaves alone, and the three kinds of steps.
LEMMA WorksKinds ==
  ASSUME TypeInv, NEW r \in Requests, NEW missing \in {404, 500}, Works(r, missing)
  PROVE  /\ \A q \in Requests \ {r} : /\ pc'[q] = pc[q] /\ status'[q] = status[q]
                                      /\ seen'[q] = seen[q] /\ overwrote'[q] = overwrote[q]
         /\ \/ LooksOnly(r, missing)
            \/ /\ Put(r) \/ PutEnds(r)
               /\ pc[r] \in {"put", "insert"} /\ call[r].method \in {"PUT", "POST"}
               /\ pc'[r] = "done" /\ status'[r] = IF call[r].method = "POST" THEN 201 ELSE 200
               /\ overwrote' = [overwrote EXCEPT ![r] = resources[call[r].uri]] /\ seen' = seen
            \/ /\ Deletes(r) /\ pc[r] \in {"remove", "unlink"} /\ call[r].method = "DELETE"
               /\ pc'[r] = "done" /\ status'[r] \in {200, 500}
               /\ UNCHANGED <<seen, overwrote>>
<1>1. CASE \/ Asks(r) \/ Aside(r) \/ GetResource(r, missing) \/ UpdateResource(r)
           \/ PutStarts(r) \/ RemoveStarts(r) \/ Reject(r)
  <2>1. LooksOnly(r, missing)
    BY <1>1, Looked
  <2> QED
    BY <2>1 DEF LooksOnly, Answer, Goto, TypeInv, RestTypeOK
<1>2. CASE Put(r) \/ PutEnds(r)
  <2>1. /\ pc[r] \in {"put", "insert"} /\ call[r].method \in {"PUT", "POST"}
        /\ Answer(r, IF call[r].method = "POST" THEN 201 ELSE 200)
        /\ overwrote' = [overwrote EXCEPT ![r] = resources[call[r].uri]] /\ seen' = seen
    BY <1>2 DEF Put, PutEnds, AnswerPut, TypeInv, OnItsWay
  <2> QED
    BY <1>2, <2>1, Answers DEF TypeInv, RestTypeOK
<1>3. CASE Deletes(r)
  <2>1. /\ pc[r] \in {"remove", "unlink"} /\ call[r].method = "DELETE"
        /\ UNCHANGED <<seen, overwrote>>
    BY <1>3 DEF Deletes, Remove, RemoveEnds, TypeInv, OnItsWay
  <2>2. Answer(r, 200) \/ Answer(r, 500)
    BY <1>3, WorksOn, RemoveRemoves
  <2> QED
    BY <1>3, <2>1, <2>2, Answers DEF TypeInv, RestTypeOK
<1> QED
  BY <1>1, <1>2, <1>3 DEF Works, StepAfterGet, Deletes

LEMMA WorksTypeInv ==
  ASSUME TypeInv, NEW r \in Requests, NEW missing \in {404, 500}, Works(r, missing)
  PROVE  TypeInv'
<1>1. /\ pc[r] \notin {"new", "done"} /\ status[r] = 0
      /\ call[r] \in Calls /\ call[r].uri \in Uris /\ Siblings(call[r].uri) \subseteq Uris
      /\ call' = call
  BY WorksOn
<1>2. \A q \in Requests \ {r} : /\ pc'[q] = pc[q] /\ status'[q] = status[q]
                                /\ seen'[q] = seen[q] /\ overwrote'[q] = overwrote[q]
  BY WorksKinds
<1>3. \A q \in Requests : pc'[q] # "new" => \A p \in call'[q].after : pc'[p] = "done"
  <2>1. ASSUME NEW q \in Requests, pc'[q] # "new" PROVE \A p \in call'[q].after : pc'[p] = "done"
    <3>1. call[q] \in Calls /\ \A p \in call[q].after : p \in Requests /\ pc[p] = "done"
      BY <1>1, <1>2, <2>1 DEF TypeInv, RestTypeOK, OnItsWay, Calls
    <3> QED
      BY <1>1, <1>2, <3>1
  <2> QED
    BY <2>1
<1>4. CASE LooksOnly(r, missing)
  <2>1. /\ UNCHANGED <<resources, overwrote>> /\ seen' \in [Requests -> Contents \cup {Absent}]
    BY <1>4 DEF LooksOnly
  <2>2. CASE /\ \E code \in {200, NoContent, 400, 404, 412, 500} : Answer(r, code)
             /\ status'[r] = 200 /\ call[r].method = "GET" => seen'[r] \in Contents
    <3>1. PICK code \in {200, NoContent, 400, 404, 412, 500} : Answer(r, code)
      BY <2>2
    <3>2. /\ pc'[r] = "done" /\ status'[r] = code /\ pc' \in [Requests -> Steps]
          /\ status' \in [Requests -> {0, NoContent} \cup Success \cup Failure]
      BY <3>1, Answers
    <3>3. code # 0
      BY DEF NoContent
    <3>4. RestTypeOK'
      BY <1>1, <1>2, <2>1, <3>2, <3>3 DEF TypeInv, RestTypeOK
    <3>5. OnItsWay'
      BY <1>1, <1>2, <1>3, <2>2, <3>2 DEF TypeInv, OnItsWay
    <3> QED
      BY <3>2, <3>4, <3>5 DEF TypeInv
  <2>3. CASE \/ pc[r] = "has" /\ Goto(r, "get")
             \/ pc[r] = "get" /\ call[r].method = "DELETE" /\ Goto(r, "remove")
             \/ pc[r] = "remove" /\ UnsafeMaps /\ Goto(r, "unlink")
             \/ pc[r] = "get" /\ call[r].method = "PUT" /\ Goto(r, "update")
             \/ pc[r] = "update" /\ Goto(r, "put")
             \/ pc[r] = "put" /\ Goto(r, "insert")
    <3>1. PICK step \in {"get", "remove", "unlink", "update", "put", "insert"} : Goto(r, step)
      BY <2>3
    <3>2. step \in Steps
      BY DEF Steps
    <3>3. pc'[r] = step /\ status' = status /\ pc' \in [Requests -> Steps]
      BY <3>1, <3>2, GoesOn
    <3>4. RestTypeOK'
      BY <1>1, <1>2, <2>1, <3>3 DEF TypeInv, RestTypeOK
    <3>5. /\ step = "get" => pc[r] = "has"
          /\ step = "remove" => call[r].method = "DELETE"
          /\ step = "unlink" => pc[r] = "remove" /\ UnsafeMaps
          /\ step = "update" => call[r].method = "PUT"
          /\ step = "put" => pc[r] = "update"
          /\ step = "insert" => pc[r] = "put"
      BY <2>3, <3>3 DEF Goto, TypeInv
    <3>6. OnItsWay'
      BY <1>1, <1>2, <1>3, <3>3, <3>5 DEF TypeInv, OnItsWay
    <3> QED
      BY <3>3, <3>4, <3>6 DEF TypeInv
  <2> QED
    BY <1>4, <2>2, <2>3 DEF LooksOnly
<1>5. CASE Put(r) \/ PutEnds(r)
  <2>1. resources' \in [Uris -> Contents \cup {Absent}]
    BY <1>1, <1>5, PutStores
  <2>2. /\ seen' = seen /\ Answer(r, IF call[r].method = "POST" THEN 201 ELSE 200)
        /\ overwrote' = [overwrote EXCEPT ![r] = resources[call[r].uri]]
    BY <1>5 DEF Put, PutEnds, AnswerPut
  <2>3. /\ pc'[r] = "done" /\ status'[r] \in {200, 201} /\ pc' \in [Requests -> Steps]
        /\ status' \in [Requests -> {0, NoContent} \cup Success \cup Failure]
    <3>1. CASE call[r].method = "POST"
      BY <2>2, <3>1, Answers
    <3>2. CASE call[r].method # "POST"
      BY <2>2, <3>2, Answers
    <3> QED
      BY <3>1, <3>2
  <2>4. call[r].method \in {"PUT", "POST"}
    BY <1>5 DEF Put, PutEnds, TypeInv, OnItsWay
  <2>5. overwrote' \in [Requests -> Contents \cup {Absent}]
    BY <1>1, <2>2 DEF TypeInv, RestTypeOK
  <2>6. RestTypeOK'
    BY <1>1, <1>2, <2>1, <2>2, <2>3, <2>5 DEF TypeInv, RestTypeOK
  <2>7. OnItsWay'
    BY <1>1, <1>2, <1>3, <2>2, <2>3, <2>4 DEF TypeInv, OnItsWay
  <2> QED
    BY <2>3, <2>6, <2>7 DEF TypeInv
<1>6. CASE Deletes(r)
  <2>1. resources' \in [Uris -> Contents \cup {Absent}]
    BY <1>1, <1>6, RemoveRemoves
  <2>2. UNCHANGED <<seen, overwrote>> /\ \E code \in {200, 500} : Answer(r, code)
    <3>1. UNCHANGED <<seen, overwrote>>
      BY <1>6 DEF Deletes, Remove, RemoveEnds
    <3>2. \E code \in {200, 500} : Answer(r, code)
      BY <1>1, <1>6, RemoveRemoves
    <3> QED
      BY <3>1, <3>2
  <2>3. /\ pc'[r] = "done" /\ status'[r] \in {200, 500} /\ pc' \in [Requests -> Steps]
        /\ status' \in [Requests -> {0, NoContent} \cup Success \cup Failure]
    BY <2>2, Answers
  <2>4. call[r].method = "DELETE"
    BY <1>6 DEF Deletes, Remove, RemoveEnds, TypeInv, OnItsWay
  <2>5. RestTypeOK'
    BY <1>1, <1>2, <2>1, <2>2, <2>3 DEF TypeInv, RestTypeOK
  <2>6. OnItsWay'
    BY <1>1, <1>2, <1>3, <2>2, <2>3, <2>4 DEF TypeInv, OnItsWay
  <2> QED
    BY <2>3, <2>5, <2>6 DEF TypeInv
<1> QED
  BY <1>4, <1>5, <1>6, WorksKinds
-----------------------------------------------------------------------------
(***************************************************************************)
(* Failures.                                                               *)
(***************************************************************************)
\* Somebody who explains why r fails.
Explains(q, r) ==
    \/ q \in Succeeded({"DELETE"}, call[r].uri)
    \/ /\ UnsafeMaps /\ pc[q] # "new"
       /\ call[q].method \in Changes /\ call[q].uri \in Siblings(call[r].uri)

Explained(r) == \E q \in Requests \ (call[r].after \cup {r}) : Explains(q, r)

Fails(r) == pc[r] = "done" /\ FailsOddly(r)

\* A handler that has found its resource finds it again, or there is an explanation.
RaceInv(us, missing) ==
    \A r \in Requests : pc[r] # "new" /\ call[r].uri \in us =>
        /\ pc[r] \in {"update", "remove"} \/ (pc[r] = "get" /\ missing = 500) =>
              resources[call[r].uri] # Absent \/ Explained(r)
        /\ Fails(r) => Explained(r)

LEMMA RaceInvSuffices ==
  ASSUME TypeInv, NEW us, NEW missing, RaceInv(us, missing)
  PROVE  FailsOnlyInARaceFor(us)
<1> SUFFICES ASSUME NEW r \in Requests, Fails(r), call[r].uri \in us
             PROVE  Explained(r)
  BY DEF FailsOnlyInARaceFor, Fails, Explained, Explains
<1> QED
  BY DEF RaceInv, Fails

LEMMA InitRaceInv == ASSUME Init, NEW us, NEW missing PROVE RaceInv(us, missing)
  BY DEF Init, RestInit, RaceInv

\* Who is changing the map is an explanation.
LEMMA BusyExplains ==
  ASSUME TypeInv, NEW r \in Requests, pc[r] \notin {"new", "insert", "unlink"}, UnsafeMaps,
         Busy(call[r].uri)
  PROVE  Explained(r)
<1>1. PICK q \in Requests : pc[q] \in {"insert", "unlink"}
                            /\ call[q].uri \in Siblings(call[r].uri)
  BY DEF Busy, Changing
<1>2. call[q].method \in Changes /\ q \notin call[r].after /\ q # r
  BY <1>1 DEF TypeInv, OnItsWay, Changes
<1> QED
  BY <1>1, <1>2 DEF Explained, Explains

\* An explanation stays one.
LEMMA ExplainedStays ==
  ASSUME TypeInv, NEW r \in Requests, pc[r] # "new", NEW q \in Requests, Explained(r),
         \/ \E missing \in {404, 500} : Works(q, missing)
         \/ \E direct : Comes(q, direct)
  PROVE  Explained(r)'
<1>1. /\ \A p \in Requests : pc[p] # "new" => call'[p] = call[p] /\ pc'[p] # "new"
      /\ \A p \in Requests : status[p] \in Success => status'[p] = status[p]
  <2>1. CASE \E missing \in {404, 500} : Works(q, missing)
    <3>1. call' = call /\ status[q] = 0 /\ pc[q] # "new"
      BY <2>1, WorksOn
    <3>2. \A p \in Requests \ {q} : pc'[p] = pc[p] /\ status'[p] = status[p]
      BY <2>1, WorksKinds
    <3>3. pc'[q] # "new"
      <4>1. PICK missing \in {404, 500} : Works(q, missing)
        BY <2>1
      <4>2. CASE LooksOnly(q, missing)
        BY <4>2 DEF LooksOnly, Answer, Goto, TypeInv
      <4> QED
        BY <4>1, <4>2, WorksKinds
    <3> QED
      BY <3>1, <3>2, <3>3 DEF Success
  <2>2. CASE \E direct : Comes(q, direct)
    <3>1. pc[q] = "new" /\ status' = status
      BY <2>2 DEF Comes, Receive, Goto
    <3>2. \A p \in Requests \ {q} : pc'[p] = pc[p] /\ call'[p] = call[p]
      BY <2>2 DEF Comes, Receive, Goto, TypeInv, RestTypeOK
    <3> QED
      BY <3>1, <3>2
  <2> QED
    BY <2>1, <2>2
<1>2. PICK p \in Requests \ (call[r].after \cup {r}) : Explains(p, r)
  BY DEF Explained
<1>3. call'[r] = call[r]
  BY <1>1
<1>4. CASE p \in Succeeded({"DELETE"}, call[r].uri)
  <2>1. pc[p] # "new" /\ status'[p] = status[p]
    BY <1>1, <1>4 DEF Succeeded, TypeInv, RestTypeOK, Success
  <2> QED
    BY <1>1, <1>2, <1>3, <1>4, <2>1 DEF Explained, Explains, Succeeded
<1>5. CASE /\ UnsafeMaps /\ pc[p] # "new"
           /\ call[p].method \in Changes /\ call[p].uri \in Siblings(call[r].uri)
  <2>1. call'[p] = call[p] /\ pc'[p] # "new" /\ Siblings(call[r].uri)' = Siblings(call[r].uri)'
    BY <1>1, <1>5
  <2> QED
    BY <1>2, <1>3, <1>5, <2>1 DEF Explained, Explains, Siblings
<1> QED
  BY <1>2, <1>4, <1>5 DEF Explains

\* Who takes the resource of r away is an explanation.
LEMMA TakersExplain ==
  ASSUME TypeInv, NEW r \in Requests, pc[r] # "new", NEW q \in Requests \ {r},
         NEW missing \in {404, 500}, Works(q, missing),
         resources[call[r].uri] # Absent, resources'[call[r].uri] = Absent
  PROVE  Explained(r)'
<1> DEFINE u == call[r].uri
           w == call[q].uri
<1>1. /\ pc[q] \notin {"new", "done"} /\ call' = call
      /\ w \in Uris /\ Siblings(w) \subseteq Uris
  BY WorksOn
<1>2. q \notin call[r].after /\ u \in Uris
  BY <1>1 DEF TypeInv, RestTypeOK, OnItsWay, Calls
<1>3. \A v, x : v \in Siblings(x) => x \in Siblings(v)
  BY DEF Siblings
<1>4. CASE LooksOnly(q, missing)
  BY <1>4 DEF LooksOnly
<1>5. CASE Put(q) \/ PutEnds(q)
  <2>1. UnsafeMaps /\ u \in Siblings(w)
    BY <1>1, <1>2, <1>5, PutStores
  <2>2. pc'[q] = "done" /\ call[q].method \in {"PUT", "POST"}
    <3>1. Answer(q, IF call[q].method = "POST" THEN 201 ELSE 200) /\ pc[q] \in {"put", "insert"}
      BY <1>5 DEF Put, PutEnds, AnswerPut
    <3> QED
      BY <3>1, Answers DEF TypeInv, OnItsWay
  <2>3. w \in Siblings(u)
    BY <1>3, <2>1
  <2>4. call'[q].uri \in Siblings(call'[r].uri)
    BY <1>1, <2>3
  <2>5. Explains(q, r)'
    BY <1>1, <2>1, <2>2, <2>4 DEF Explains, Siblings, Changes
  <2> QED
    BY <1>1, <1>2, <2>5 DEF Explained
<1>6. CASE Deletes(q)
  <2>1. call[q].method = "DELETE" /\ (Answer(q, 500) => resources[w] = Absent)
    <3>1. Answer(q, 200) => ~Answer(q, 500)
      BY Answers
    <3>2. Answer(q, 500) => resources[w] = Absent
      BY <1>1, <1>6, <3>1, RemoveRemoves
    <3>3. pc[q] \in {"remove", "unlink"}
      BY <1>6 DEF Deletes, Remove, RemoveEnds
    <3>4. call[q].method = "DELETE"
      BY <3>3 DEF TypeInv, OnItsWay
    <3> QED
      BY <3>2, <3>4
  <2>2. CASE w = u
    <3>1. Answer(q, 200)
      BY <1>1, <1>6, <2>1, <2>2, RemoveRemoves
    <3>2. status'[q] = 200
      BY <3>1, Answers
    <3> QED
      BY <1>1, <1>2, <2>1, <2>2, <3>2 DEF Explained, Explains, Succeeded, Success
  <2>3. CASE w # u
    <3>1. UnsafeMaps /\ u \in Siblings(w)
      BY <1>1, <1>2, <1>6, <2>3, RemoveRemoves
    <3>2. pc'[q] # "new"
      BY <1>1, <1>6, RemoveRemoves, Answers
    <3>3. call'[q].uri \in Siblings(call'[r].uri)
      BY <1>1, <1>3, <3>1
    <3>4. Explains(q, r)'
      BY <1>1, <2>1, <3>1, <3>2, <3>3 DEF Explains, Siblings, Changes
    <3> QED
      BY <1>1, <1>2, <3>4 DEF Explained
  <2> QED
    BY <2>2, <2>3
<1> QED
  BY <1>4, <1>5, <1>6, WorksKinds

LEMMA WorksRaceInv ==
  ASSUME TypeInv, NEW q \in Requests, NEW missing \in {404, 500}, Works(q, missing),
         NEW us, RaceInv(us, missing)
  PROVE  RaceInv(us, missing)'
<1>1. /\ pc[q] \notin {"new", "done"} /\ call' = call /\ status[q] = 0
  BY WorksOn
<1>2. \A p \in Requests \ {q} : pc'[p] = pc[p] /\ status'[p] = status[p] /\ seen'[p] = seen[p]
  BY WorksKinds
<1>3. ASSUME NEW r \in Requests \ {q}, pc'[r] # "new", call[r].uri \in us
      PROVE  /\ pc'[r] \in {"update", "remove"} \/ (pc'[r] = "get" /\ missing = 500) =>
                   resources'[call[r].uri] # Absent \/ Explained(r)'
             /\ Fails(r)' => Explained(r)'
  <2>1. Explained(r) => Explained(r)'
    BY <1>2, <1>3, ExplainedStays
  <2>2. Fails(r)' => Fails(r)
    BY <1>1, <1>2 DEF Fails, FailsOddly
  <2>3. resources[call[r].uri] # Absent => resources'[call[r].uri] # Absent \/ Explained(r)'
    BY <1>2, <1>3, TakersExplain
  <2> QED
    BY <1>2, <1>3, <2>1, <2>2, <2>3 DEF RaceInv
<1>4. ASSUME call[q].uri \in us
      PROVE  /\ pc'[q] \in {"update", "remove"} \/ (pc'[q] = "get" /\ missing = 500) =>
                   resources'[call[q].uri] # Absent \/ Explained(q)'
             /\ Fails(q)' => Explained(q)'
  <2>1. Explained(q) => Explained(q)'
    BY <1>1, ExplainedStays
  <2>2. /\ pc[q] \in {"update", "remove"} \/ (pc[q] = "get" /\ missing = 500) =>
              resources[call[q].uri] # Absent \/ Explained(q)
    BY <1>1, <1>4 DEF RaceInv
  <2>3. CASE LooksOnly(q, missing)
    <3>1. pc'[q] \in {"get", "remove", "update"} => resources'[call[q].uri] # Absent
      BY <2>3 DEF LooksOnly
    <3>2. ASSUME Fails(q)' PROVE Explained(q)
      <4>1. /\ Absent \in Found(call[q].uri)
            /\ pc[q] \in {"update", "remove"} \/ (pc[q] = "get" /\ missing = 500)
        BY <1>1, <2>3, <3>2 DEF Fails, LooksOnly
      <4>2. resources[call[q].uri] = Absent \/ (UnsafeMaps /\ Busy(call[q].uri))
        BY <4>1, FindsStored
      <4> QED
        BY <1>1, <2>2, <4>1, <4>2, BusyExplains
    <3> QED
      BY <2>1, <3>1, <3>2
  <2>4. CASE /\ pc'[q] = "done"
             /\ status'[q] \in {200, 201}
    BY <2>4 DEF Fails, FailsOddly
  <2>5. CASE Deletes(q) /\ pc'[q] = "done" /\ status'[q] = 500
    <3>1. pc[q] = "remove" /\ resources[call[q].uri] = Absent
      <4>1. ~Answer(q, 200)
        BY <2>5, Answers
      <4> QED
        BY <2>5, <4>1, WorksOn, RemoveRemoves
    <3> QED
      BY <2>1, <2>2, <2>5, <3>1
  <2> QED
    BY <2>3, <2>4, <2>5, WorksKinds
<1> QED
  BY <1>1, <1>3, <1>4 DEF RaceInv

LEMMA ComesRaceInv ==
  ASSUME TypeInv, NEW q \in Requests, NEW direct, Comes(q, direct), NEW us,
         NEW missing \in {404, 500}, missing = 404 \/ us \cap direct = {},
         RaceInv(us, missing)
  PROVE  RaceInv(us, missing)'
<1>1. PICK method \in Methods, u \in Uris, ifMatch \in ETags \cup {NoETag},
           input \in Inputs, first \in Steps :
              /\ Receive(q, method, u, ifMatch, input, first)
              /\ \/ first \in {"put", "reject"} /\ method = "POST"
                 \/ first = "has" /\ method \in Looking
                 \/ first = "get" /\ method \in Looking /\ u \in direct
                 \/ first \in {"dialog", "find", "select"} /\ method \in {"FORM", "SEARCH"}
  BY DEF Comes
<1>2. /\ pc[q] = "new" /\ pc'[q] = first /\ call'[q].uri = u
      /\ status' = status /\ resources' = resources /\ seen' = seen
      /\ \A p \in Requests \ {q} : pc'[p] = pc[p] /\ call'[p] = call[p]
  BY <1>1 DEF Receive, Goto, TypeInv, RestTypeOK
<1>3. ASSUME NEW r \in Requests \ {q}, pc'[r] # "new", call'[r].uri \in us
      PROVE  /\ pc'[r] \in {"update", "remove"} \/ (pc'[r] = "get" /\ missing = 500) =>
                   resources'[call'[r].uri] # Absent \/ Explained(r)'
             /\ Fails(r)' => Explained(r)'
  <2>1. Explained(r) => Explained(r)'
    BY <1>2, <1>3, ExplainedStays
  <2>2. Fails(r)' => Fails(r)
    BY <1>2 DEF Fails, FailsOddly
  <2> QED
    BY <1>2, <1>3, <2>1, <2>2 DEF RaceInv
<1>4. ASSUME call'[q].uri \in us
      PROVE  /\ pc'[q] \notin {"update", "remove", "done"}
             /\ pc'[q] = "get" => missing # 500
  BY <1>1, <1>2, <1>4
<1> QED
  BY <1>3, <1>4 DEF RaceInv, Fails
-----------------------------------------------------------------------------
(***************************************************************************)
(* What is stored.                                                         *)
(***************************************************************************)
\* A handler that goes on to change the store has compared the ETags.
Conditional ==
    \A r \in Requests :
        /\ pc[r] \in {"update", "put", "insert"} \/ status[r] \in Success
        /\ call[r].method \in {"PUT", "POST"}
        /\ call[r].ifMatch # NoETag
        => call[r].ifMatch = calculateETag(seen[r])

StoreInv == TypeInv /\ Conditional /\ StoredBySuccess

LEMMA InitStoreInv == Init => StoreInv
<1> SUFFICES ASSUME Init PROVE StoreInv
  OBVIOUS
<1>1. Conditional
  BY DEF Init, RestInit, Conditional, Success
<1>2. StoredBySuccess
  BY RestAssumption DEF Init, RestInit, StoredBySuccess, StoredBySuccessOf, Contents,
     RestAssumption
<1> QED
  BY <1>1, <1>2, InitTypeInv DEF StoreInv

LEMMA ComesStoreInv == ASSUME StoreInv, NEW r \in Requests, NEW direct, Comes(r, direct)
                       PROVE  StoreInv'
<1>1. TypeInv /\ TypeInv'
  BY ComesTypeInv DEF StoreInv
<1>2. PICK method \in Methods, u \in Uris, ifMatch \in ETags \cup {NoETag},
           input \in Inputs, first \in Steps :
              /\ Receive(r, method, u, ifMatch, input, first)
              /\ first = "put" => ifMatch = NoETag
              /\ first \notin {"update", "insert"}
  BY DEF Comes
<1>3. /\ pc[r] = "new" /\ pc'[r] = first /\ call'[r].ifMatch = ifMatch /\ status[r] = 0
      /\ UNCHANGED <<status, resources, seen>>
      /\ \A q \in Requests \ {r} : pc'[q] = pc[q] /\ call'[q] = call[q]
  BY <1>1, <1>2 DEF Receive, Goto, TypeInv, RestTypeOK
<1>4. Conditional'
  BY <1>2, <1>3 DEF Conditional, StoreInv, Success
<1>5. StoredBySuccess'
  BY <1>3 DEF StoreInv, StoredBySuccess, StoredBySuccessOf
<1> QED
  BY <1>1, <1>4, <1>5 DEF StoreInv

LEMMA LooksNoSuccess ==
  ASSUME TypeInv, NEW r \in Requests, NEW missing \in {404, 500}, Works(r, missing),
         LooksOnly(r, missing), status'[r] \in Success
  PROVE  call[r].method \notin Changes
<1>1. status[r] = 0
  BY WorksOn
<1>2. ASSUME NEW code \in {200, NoContent, 400, 404, 412, 500}, Answer(r, code)
      PROVE  call[r].method \notin Changes
  <2>1. status'[r] = code
    BY <1>2, Answers
  <2>2. code = 200
    BY <2>1 DEF Success, NoContent
  <2>3. status'[r] = 200 /\ status' # status
    BY <1>1, <2>1, <2>2
  <2> QED
    BY <2>3 DEF LooksOnly, Goto
<1>3. CASE status' = status
  BY <1>1, <1>3 DEF Success
<1> QED
  BY <1>2, <1>3 DEF LooksOnly, Goto

LEMMA WorksStoreInv ==
  ASSUME StoreInv, NEW r \in Requests, NEW missing \in {404, 500}, Works(r, missing)
  PROVE  StoreInv'
<1> DEFINE u == call[r].uri
<1>1. TypeInv /\ TypeInv'
  BY WorksTypeInv DEF StoreInv
<1>2. /\ call' = call /\ pc[r] \notin {"new", "done"} /\ status[r] = 0
      /\ u \in Uris /\ Siblings(u) \subseteq Uris
  BY <1>1, WorksOn
<1>3. \A q \in Requests \ {r} : pc'[q] = pc[q] /\ status'[q] = status[q] /\ seen'[q] = seen[q]
  BY <1>1, WorksKinds
<1>4. \A v \in Uris : resources[v] # r
  BY <1>2 DEF StoreInv, StoredBySuccess, StoredBySuccessOf
<1>5. Absent \notin Requests
  BY RestAssumption DEF RestAssumption, Contents
<1>6. CASE LooksOnly(r, missing)
  <2>1. status'[r] \notin Success \/ call[r].method \notin Changes
    BY <1>1, <1>6, LooksNoSuccess
  <2>2. \/ pc'[r] \notin {"update", "put", "insert"}
        \/ pc'[r] = "update" /\ call[r].ifMatch \in {NoETag, calculateETag(seen'[r])}
        \/ pc[r] \in {"update", "put"} /\ seen' = seen
    BY <1>1, <1>6 DEF LooksOnly, Answer, Goto, TypeInv
  <2>3. Conditional'
    BY <1>2, <1>3, <2>1, <2>2 DEF Conditional, StoreInv, Changes
  <2>4. StoredBySuccess'
    BY <1>2, <1>3, <1>4, <1>6 DEF LooksOnly, StoreInv, StoredBySuccess, StoredBySuccessOf
  <2> QED
    BY <1>1, <2>3, <2>4 DEF StoreInv
<1>7. CASE /\ Put(r) \/ PutEnds(r)
           /\ pc[r] \in {"put", "insert"} /\ call[r].method \in {"PUT", "POST"}
           /\ pc'[r] = "done" /\ status'[r] \in Success /\ seen' = seen
  <2>1. Conditional'
    BY <1>2, <1>3, <1>7 DEF Conditional, StoreInv
  <2>2. call[r].ifMatch # NoETag => call[r].ifMatch = calculateETag(seen[r])
    BY <1>7 DEF StoreInv, Conditional
  <2>3. \A v \in Uris : resources'[v] \in Requests =>
           \/ resources'[v] = r /\ v = u
           \/ resources'[v] = resources[v] /\ resources[v] # r
    BY <1>1, <1>2, <1>4, <1>5, <1>7, PutStores
  <2>4. StoredBySuccess'
    BY <1>2, <1>3, <1>7, <2>2, <2>3 DEF StoreInv, StoredBySuccess, StoredBySuccessOf
  <2> QED
    BY <1>1, <2>1, <2>4 DEF StoreInv
<1>8. CASE Deletes(r) /\ call[r].method = "DELETE" /\ pc'[r] = "done" /\ seen' = seen
  <2>1. Conditional'
    BY <1>2, <1>3, <1>8 DEF Conditional, StoreInv
  <2>2. \A v \in Uris : resources'[v] \in Requests =>
           resources'[v] = resources[v] /\ resources[v] # r
    BY <1>1, <1>2, <1>4, <1>5, <1>8, RemoveRemoves
  <2>3. StoredBySuccess'
    BY <1>2, <1>3, <2>2 DEF StoreInv, StoredBySuccess, StoredBySuccessOf
  <2> QED
    BY <1>1, <2>1, <2>3 DEF StoreInv
<1> QED
  BY <1>1, <1>6, <1>7, <1>8, WorksKinds DEF Success
-----------------------------------------------------------------------------
(***************************************************************************)
(* What is kept, if the calls on the maps are atomic.                      *)
(***************************************************************************)
\* A step adds the request to those that have succeeded, or nobody.
LEMMA SucceededStep ==
  ASSUME TypeInv, NEW r \in Requests, NEW missing \in {404, 500}, Works(r, missing),
         NEW methods \in SUBSET Changes, NEW u
  PROVE  /\ r \notin Succeeded(methods, u)
         /\ Succeeded(methods, u)' =
              Succeeded(methods, u) \cup
                {q \in {r} : status'[r] \in Success /\ call[r].method \in methods
                             /\ call[r].uri = u}
<1>1. call' = call /\ status[r] = 0 /\ \A q \in Requests \ {r} : status'[q] = status[q]
  BY WorksOn, WorksKinds
<1> QED
  BY <1>1 DEF Succeeded, Success

\* The three kinds of steps as changes of one resource.
LEMMA AtomicStep ==
  ASSUME TypeInv, ~UnsafeMaps, NEW r \in Requests, NEW missing \in {404, 500},
         Works(r, missing)
  PROVE  LET u == call[r].uri IN
         /\ u \in Uris /\ \A v \in Uris \ {u} : resources'[v] = resources[v]
         /\ \/ /\ resources' = resources
               /\ status'[r] \in Success => call[r].method \notin Changes
            \/ /\ resources'[u] = r /\ r # Absent /\ status'[r] \in Success
               /\ call[r].method \in {"POST", "PUT"}
            \/ /\ resources[u] # Absent /\ resources'[u] = Absent /\ status'[r] = 200
               /\ call[r].method = "DELETE"
<1> DEFINE u == call[r].uri
<1>1. u \in Uris /\ Siblings(u) \subseteq Uris /\ r # Absent
  BY WorksOn, RestAssumption DEF RestAssumption, Contents
<1>2. CASE LooksOnly(r, missing)
  BY <1>1, <1>2, LooksNoSuccess DEF LooksOnly
<1>3. CASE /\ Put(r) \/ PutEnds(r)
           /\ call[r].method \in {"PUT", "POST"} /\ status'[r] \in Success
  <2>1. resources' = [resources EXCEPT ![u] = r]
    BY <1>1, <1>3, PutStores
  <2> QED
    BY <1>1, <1>3, <2>1 DEF TypeInv, RestTypeOK
<1>4. CASE Deletes(r) /\ call[r].method = "DELETE"
  <2>1. resources' = [resources EXCEPT ![u] = Absent]
    BY <1>1, <1>4, RemoveRemoves
  <2>2. CASE resources[u] = Absent
    <3>1. resources' = resources
      BY <1>1, <2>1, <2>2 DEF TypeInv, RestTypeOK
    <3>2. status'[r] = 500
      BY <1>1, <1>4, <2>2, RemoveRemoves, Answers
    <3> QED
      BY <1>1, <3>1, <3>2 DEF Success
  <2>3. CASE resources[u] # Absent
    <3>1. status'[r] = 200
      BY <1>1, <1>4, <2>3, RemoveRemoves, Answers
    <3> QED
      BY <1>1, <1>4, <2>1, <2>3, <3>1 DEF TypeInv, RestTypeOK
  <2> QED
    BY <2>2, <2>3
<1> QED
  BY <1>2, <1>3, <1>4, WorksKinds DEF Success

LEMMA WorksKept ==
  ASSUME TypeInv, ~UnsafeMaps, NEW r \in Requests, NEW missing \in {404, 500},
         Works(r, missing), KeptUntilDeleted
  PROVE  KeptUntilDeleted'
<1> SUFFICES ASSUME NEW v \in Uris, v \in Seeded \/ Succeeded({"POST"}, v)' # {}
             PROVE  resources'[v] # Absent \/ Succeeded({"DELETE"}, v)' # {}
  BY DEF KeptUntilDeleted
<1> DEFINE u == call[r].uri
<1>1. /\ Succeeded({"POST"}, v)' = Succeeded({"POST"}, v) \cup
             {q \in {r} : status'[r] \in Success /\ call[r].method \in {"POST"} /\ u = v}
      /\ Succeeded({"DELETE"}, v)' = Succeeded({"DELETE"}, v) \cup
             {q \in {r} : status'[r] \in Success /\ call[r].method \in {"DELETE"} /\ u = v}
  BY SucceededStep DEF Changes
<1>2. CASE u # v
  BY <1>1, <1>2, AtomicStep DEF KeptUntilDeleted
<1>3. CASE u = v
  BY <1>1, <1>3, AtomicStep DEF KeptUntilDeleted, Changes, Success
<1> QED
  BY <1>2, <1>3

LEMMA SucceededComes ==
  ASSUME TypeInv, NEW r \in Requests, NEW direct, Comes(r, direct), NEW methods, NEW u
  PROVE  Succeeded(methods, u)' = Succeeded(methods, u) /\ resources' = resources
<1>1. /\ pc[r] = "new" /\ UNCHANGED <<status, resources>>
      /\ \A q \in Requests \ {r} : call'[q] = call[q]
  BY DEF Comes, Receive, Goto, TypeInv, RestTypeOK
<1>2. status[r] = 0
  BY <1>1 DEF TypeInv, RestTypeOK
<1> QED
  BY <1>1, <1>2 DEF Succeeded, Success

LEMMA WorksDeleted ==
  ASSUME TypeInv, ~UnsafeMaps, IsFiniteSet(Requests), NEW r \in Requests,
         NEW missing \in {404, 500}, Works(r, missing), DeletedOnce
  PROVE  DeletedOnce'
<1> SUFFICES ASSUME NEW v \in Uris
             PROVE  Cardinality(Succeeded({"DELETE"}, v)')
                        + (IF resources'[v] = Absent THEN 0 ELSE 1)
                      <= Cardinality(Succeeded({"POST", "PUT"}, v)')
                            + (IF v \in Seeded THEN 1 ELSE 0)
  BY DEF DeletedOnce
<1> DEFINE u == call[r].uri
           D == Succeeded({"DELETE"}, v)
           P == Succeeded({"POST", "PUT"}, v)
<1>1. /\ P' = P \cup {q \in {r} : status'[r] \in Success /\ call[r].method \in {"POST", "PUT"}
                                  /\ u = v}
      /\ D' = D \cup {q \in {r} : status'[r] \in Success /\ call[r].method \in {"DELETE"}
                                  /\ u = v}
      /\ r \notin P /\ r \notin D
  <2>1. call' = call /\ status[r] = 0 /\ \A q \in Requests \ {r} : status'[q] = status[q]
    BY WorksOn, WorksKinds
  <2> QED
    BY <2>1 DEF Succeeded, Success
<1>2. IsFiniteSet(D) /\ IsFiniteSet(P)
  BY FS_Subset DEF Succeeded
<1>3. /\ Cardinality(D) \in Nat /\ Cardinality(P) \in Nat
      /\ Cardinality(D \cup {r}) = Cardinality(D) + 1
      /\ Cardinality(P \cup {r}) = Cardinality(P) + 1
  BY <1>1, <1>2, FS_CardinalityType, FS_AddElement
<1>4. Cardinality(D) + (IF resources[v] = Absent THEN 0 ELSE 1)
         <= Cardinality(P) + (IF v \in Seeded THEN 1 ELSE 0)
  BY DEF DeletedOnce
<1> HIDE DEF D, P
<1>5. CASE u # v \/ (status'[r] \in Success => call[r].method \notin Changes)
  <2>1. P' = P /\ D' = D
    BY <1>1, <1>5 DEF Changes
  <2>2. CASE resources'[v] = resources[v]
    BY <1>4, <2>1, <2>2 DEF D, P
  <2>3. resources'[v] = resources[v]
    BY <1>5, AtomicStep DEF Changes, Success
  <2> QED
    BY <2>2, <2>3
<1>6. CASE /\ u = v /\ resources'[v] = r /\ r # Absent /\ status'[r] \in Success
           /\ call[r].method \in {"POST", "PUT"}
  <2>1. P' = P \cup {r} /\ D' = D
    BY <1>1, <1>6
  <2>2. Cardinality(D) + 1 <= Cardinality(P) + 1 + (IF v \in Seeded THEN 1 ELSE 0)
    BY <1>3, <1>4
  <2> QED
    BY <1>3, <1>6, <2>1, <2>2 DEF D, P
<1>7. CASE /\ u = v /\ resources[v] # Absent /\ resources'[v] = Absent /\ status'[r] = 200
           /\ call[r].method = "DELETE"
  <2>1. P' = P /\ D' = D \cup {r}
    BY <1>1, <1>7 DEF Success
  <2>2. Cardinality(D) + 1 + 0 <= Cardinality(P) + (IF v \in Seeded THEN 1 ELSE 0)
    BY <1>3, <1>4, <1>7
  <2> QED
    BY <1>3, <1>7, <2>1, <2>2 DEF D, P
<1> QED
  BY <1>5, <1>6, <1>7, AtomicStep
-----------------------------------------------------------------------------
(***************************************************************************)
(* What If-Match protects against, if the calls on the maps are atomic.    *)
(***************************************************************************)
\* The version c of the resource of r is none that was settled before r came in.
NotOlder(r, c) ==
    IF c = Absent
    THEN \E q \in Requests \ call[r].after :
            /\ pc[q] = "event" \/ status[q] = 200
            /\ call[q].uri = call[r].uri /\ call[q].method = "DELETE"
    ELSE c \in Requests \ call[r].after

ConditionalPut(r) == call[r].method = "PUT" /\ call[r].ifMatch # NoETag

\* What r has read is what is stored, and what it replaces, or somebody was faster.
PastInv ==
    \A r \in Requests : ConditionalPut(r) =>
        /\ pc[r] \in {"update", "put", "insert"} =>
              resources[call[r].uri] = seen[r] \/ NotOlder(r, resources[call[r].uri])
        /\ status[r] = 200 => overwrote[r] = seen[r] \/ NotOlder(r, overwrote[r])

LEMMA PastInvRespects == StoreInv /\ PastInv => IfMatchRespectsThePast
<1> SUFFICES ASSUME StoreInv, PastInv, NEW r \in Requests, status[r] = 200,
                    call[r].method = "PUT",
                    call[r].ifMatch \notin {NoETag, calculateETag(overwrote[r])}
             PROVE  NotOlder(r, overwrote[r])
  BY DEF IfMatchRespectsThePast, NotOlder
<1>1. call[r].ifMatch = calculateETag(seen[r])
  BY DEF StoreInv, Conditional, Success
<1> QED
  BY <1>1 DEF PastInv, ConditionalPut

LEMMA InitPastInv == Init => PastInv
  BY DEF Init, RestInit, PastInv

LEMMA ComesPastInv ==
  ASSUME TypeInv, PastInv, NEW q \in Requests, NEW direct, Comes(q, direct)
  PROVE  PastInv'
<1>0. PICK method \in Methods, u \in Uris, ifMatch \in ETags \cup {NoETag},
           input \in Inputs, first \in Steps :
              /\ Receive(q, method, u, ifMatch, input, first)
              /\ first = "put" => method = "POST"
              /\ first \notin {"new", "update", "insert"}
  BY DEF Comes
<1>1. /\ pc[q] = "new" /\ pc' = [pc EXCEPT ![q] = first]
      /\ first \notin {"new", "update", "insert"} /\ (first = "put" => call'[q].method = "POST")
      /\ UNCHANGED <<status, resources, seen, overwrote>>
      /\ \A r \in Requests \ {q} : call'[r] = call[r]
  BY <1>0 DEF Receive, Goto, TypeInv, RestTypeOK
<1>2. status[q] = 0
  BY <1>1 DEF TypeInv, RestTypeOK
<1>3. ASSUME NEW r \in Requests \ {q}, pc[r] # "new", NEW c, NotOlder(r, c)
      PROVE  NotOlder(r, c)'
  <2>1. CASE c = Absent
    <3>1. PICK p \in Requests \ call[r].after :
             /\ pc[p] = "event" \/ status[p] = 200
             /\ call[p].uri = call[r].uri /\ call[p].method = "DELETE"
      BY <1>3, <2>1 DEF NotOlder
    <3>2. p # q
      BY <1>1, <1>2, <3>1
    <3> QED
      BY <1>1, <2>1, <3>1, <3>2 DEF NotOlder, TypeInv
  <2> QED
    BY <1>1, <1>3, <2>1 DEF NotOlder
<1>4. ASSUME NEW r \in Requests \ {q}, ConditionalPut(r)'
      PROVE  /\ pc'[r] \in {"update", "put", "insert"} =>
                   \/ resources'[call'[r].uri] = seen'[r]
                   \/ NotOlder(r, resources[call[r].uri])'
             /\ status'[r] = 200 => overwrote'[r] = seen'[r] \/ NotOlder(r, overwrote[r])'
  <2>1. ConditionalPut(r) /\ pc'[r] = pc[r] /\ call'[r] = call[r]
    BY <1>1, <1>4 DEF ConditionalPut, TypeInv
  <2>2. status[r] = 200 => pc[r] # "new"
    BY DEF TypeInv, RestTypeOK
  <2>3. ASSUME pc[r] # "new", NotOlder(r, resources[call[r].uri])
        PROVE  NotOlder(r, resources[call[r].uri])'
    BY <1>1, <1>3, <2>1, <2>3 DEF NotOlder
  <2>4. ASSUME pc[r] # "new", NotOlder(r, overwrote[r]) PROVE NotOlder(r, overwrote[r])'
    BY <1>1, <1>3, <2>1, <2>4 DEF NotOlder
  <2> QED
    BY <1>1, <2>1, <2>2, <2>3, <2>4 DEF PastInv
<1>5. ASSUME ConditionalPut(q)'
      PROVE  pc'[q] \notin {"update", "put", "insert"} /\ status'[q] # 200
  BY <1>1, <1>2, <1>5 DEF ConditionalPut, TypeInv
<1> QED
  BY <1>4, <1>5 DEF PastInv

\* Versions that were not settled when r came in stay so.
LEMMA NotOlderStays ==
  ASSUME TypeInv, NEW r \in Requests, NEW q \in Requests, NEW missing \in {404, 500},
         Works(q, missing), NEW c, NotOlder(r, c)
  PROVE  NotOlder(r, c)'
<1>1. call' = call /\ status[q] # 200 /\ pc[q] # "event"
  BY WorksOn DEF TypeInv, Steps
<1>2. \A p \in Requests : pc[p] = "event" \/ status[p] = 200 =>
                             pc'[p] = "event" \/ status'[p] = 200
  BY <1>1, WorksKinds
<1> QED
  BY <1>1, <1>2 DEF NotOlder

\* What a step of q stores or removes was not settled when another request came in.
LEMMA OthersAreNotOlder ==
  ASSUME TypeInv, ~UnsafeMaps, NEW r \in Requests, pc[r] # "new", NEW q \in Requests \ {r},
         NEW missing \in {404, 500}, Works(q, missing)
  PROVE  \/ resources'[call[r].uri] = resources[call[r].uri]
         \/ NotOlder(r, resources[call[r].uri])'
<1> DEFINE u == call[q].uri
<1>1. call' = call /\ pc[q] # "done" /\ q # Absent
  BY WorksOn, RestAssumption DEF RestAssumption, Contents
<1>2. q \notin call[r].after /\ call[r].uri \in Uris
  BY <1>1 DEF TypeInv, RestTypeOK, OnItsWay, Calls
<1>3. CASE u # call[r].uri \/ resources' = resources
  BY <1>2, <1>3, AtomicStep
<1>4. CASE u = call[r].uri /\ resources'[u] = q
  BY <1>1, <1>2, <1>4 DEF NotOlder
<1>5. CASE /\ u = call[r].uri /\ resources'[u] = Absent /\ status'[q] = 200
           /\ call[q].method = "DELETE"
  BY <1>1, <1>2, <1>5 DEF NotOlder
<1> QED
  BY <1>3, <1>4, <1>5, AtomicStep

LEMMA WorksPastInv ==
  ASSUME TypeInv, ~UnsafeMaps, PastInv, NEW q \in Requests, NEW missing \in {404, 500},
         Works(q, missing)
  PROVE  PastInv'
<1>1. /\ call' = call /\ pc[q] \notin {"new", "done"} /\ status[q] = 0
      /\ call[q].uri \in Uris
  BY WorksOn
<1>2. \A r \in Requests \ {q} : /\ pc'[r] = pc[r] /\ status'[r] = status[r]
                                /\ seen'[r] = seen[r] /\ overwrote'[r] = overwrote[r]
  BY WorksKinds
<1>3. ASSUME NEW r \in Requests \ {q}, ConditionalPut(r)
      PROVE  /\ pc'[r] \in {"update", "put", "insert"} =>
                   \/ resources'[call'[r].uri] = seen'[r]
                   \/ NotOlder(r, resources[call[r].uri])'
             /\ status'[r] = 200 => overwrote'[r] = seen'[r] \/ NotOlder(r, overwrote[r])'
  <2>1. ASSUME pc'[r] \in {"update", "put", "insert"}, resources[call[r].uri] # seen[r],
               resources'[call[r].uri] = resources[call[r].uri]
        PROVE  NotOlder(r, resources[call[r].uri])'
    <3>1. NotOlder(r, resources[call[r].uri])
      BY <1>2, <1>3, <2>1 DEF PastInv
    <3> QED
      BY <1>1, <2>1, <3>1, NotOlderStays DEF NotOlder
  <2>2. ASSUME pc'[r] \in {"update", "put", "insert"}
        PROVE  \/ resources'[call'[r].uri] = seen'[r]
               \/ NotOlder(r, resources[call[r].uri])'
    <3>1. pc[r] # "new"
      BY <1>2, <2>2
    <3> QED
      BY <1>1, <1>2, <2>1, <2>2, <3>1, OthersAreNotOlder
  <2>3. ASSUME status'[r] = 200, overwrote'[r] # seen'[r]
        PROVE  NotOlder(r, overwrote[r])'
    <3>1. NotOlder(r, overwrote[r])
      BY <1>2, <1>3, <2>3 DEF PastInv
    <3> QED
      BY <1>1, <1>2, <3>1, NotOlderStays DEF NotOlder
  <2> QED
    BY <2>2, <2>3
<1>4. ASSUME ConditionalPut(q)
      PROVE  /\ pc'[q] \in {"update", "put", "insert"} =>
                   \/ resources'[call'[q].uri] = seen'[q]
                   \/ NotOlder(q, resources[call[q].uri])'
             /\ status'[q] = 200 => overwrote'[q] = seen'[q] \/ NotOlder(q, overwrote[q])'
  <2>1. CASE LooksOnly(q, missing)
    <3>1. status'[q] # 200 /\ resources' = resources
      BY <1>4, <2>1, LooksNoSuccess DEF ConditionalPut, Changes, Success, LooksOnly
    <3>2. ASSUME pc'[q] \in {"update", "put", "insert"}
          PROVE  \/ resources'[call'[q].uri] = seen'[q]
                 \/ NotOlder(q, resources[call[q].uri])'
      <4>1. \/ seen'[q] \in Found(call[q].uri)
            \/ pc[q] \in {"update", "put"} /\ seen' = seen
        BY <1>4, <2>1, <3>2 DEF LooksOnly, Answer, Goto, TypeInv
      <4>2. CASE seen'[q] \in Found(call[q].uri)
        BY <1>1, <3>1, <4>2, FindsStored
      <4>3. CASE pc[q] \in {"update", "put"} /\ seen' = seen
        <5>1. \/ resources[call[q].uri] = seen[q]
              \/ NotOlder(q, resources[call[q].uri])
          BY <1>4, <4>3 DEF PastInv
        <5>2. NotOlder(q, resources[call[q].uri]) => NotOlder(q, resources[call[q].uri])'
          BY <1>1, <3>1, NotOlderStays DEF NotOlder
        <5> QED
          BY <1>1, <3>1, <4>3, <5>1, <5>2
      <4> QED
        BY <4>1, <4>2, <4>3
    <3> QED
      BY <3>1, <3>2
  <2>2. CASE /\ pc[q] \in {"put", "insert"} /\ pc'[q] = "done" /\ seen' = seen
             /\ overwrote' = [overwrote EXCEPT ![q] = resources[call[q].uri]]
    <3>1. overwrote'[q] = resources[call[q].uri]
      BY <2>2 DEF TypeInv, RestTypeOK
    <3>2. \/ resources[call[q].uri] = seen[q]
          \/ NotOlder(q, resources[call[q].uri])
      BY <1>4, <2>2 DEF PastInv
    <3>3. NotOlder(q, resources[call[q].uri]) => NotOlder(q, overwrote[q])'
      BY <1>1, <3>1, NotOlderStays DEF NotOlder
    <3> QED
      BY <2>2, <3>1, <3>2, <3>3
  <2>3. CASE Deletes(q) /\ call[q].method = "DELETE"
    BY <1>4, <2>3 DEF ConditionalPut
  <2> QED
    BY <2>1, <2>2, <2>3, WorksKinds
<1>5. \A r \in Requests : ConditionalPut(r)' <=> ConditionalPut(r)
  BY <1>1 DEF ConditionalPut
<1> QED
  BY <1>3, <1>4, <1>5 DEF PastInv
===============================================================================
