---------------------------- MODULE CmServer_proofs ----------------------------
(***************************************************************************)
(* What holds of the Change Management server for any number of requests   *)
(* and resources.                                                          *)
(***************************************************************************)
EXTENDS CmServer, UntrackedHandlers_proofs

\* Every call comes in as UntrackedHandlers_proofs has it, with or without a lookup.
LEMMA EndpointComes ==
  ASSUME TypeInv, NEW r \in Requests, Endpoint(r)
  PROVE  Comes(r, Uris)
<1>1. CASE getChangeRequest(r) \/ deleteChangeRequest(r)
  BY <1>1 DEF getChangeRequest, deleteChangeRequest, ReceiveAny, Inputs, Comes, Methods, Steps,
     Looking
<1>2. CASE \/ getChangeRequestAsHtml(r) \/ getChangeRequestCompact(r)
           \/ getChangeRequestAsHtmlSmallPreview(r) \/ getChangeRequestAsHtmlLargePreview(r)
  BY <1>2 DEF getChangeRequestAsHtml, getChangeRequestCompact,
     getChangeRequestAsHtmlSmallPreview, getChangeRequestAsHtmlLargePreview,
     ReceiveAny, Inputs, Comes, Methods, Steps, Looking
<1>3. CASE updateChangeRequest(r)
  BY <1>3, KnownETagsType
     DEF updateChangeRequest, ReceivePut, Comes, Methods, Steps, Looking
<1>4. CASE createChangeRequest(r)
  BY <1>4 DEF createChangeRequest, ReceivePost, ReceiveAny, Inputs, Comes, Methods, Steps
<1>5. CASE \/ createDefectFromDialog(r) \/ createTaskFromDialog(r)
           \/ createReviewTaskFromDialog(r) \/ createChangeNoticeFromDialog(r)
           \/ createEnhancementFromDialog(r)
  BY <1>5 DEF createDefectFromDialog, createTaskFromDialog, createReviewTaskFromDialog,
     createChangeNoticeFromDialog, createEnhancementFromDialog,
     ReceiveAny, Inputs, Comes, Methods, Steps
<1>6. CASE \/ ChangeRequestSelector(r) \/ DefectSelector(r) \/ TaskSelector(r)
           \/ ReviewTaskSelector(r) \/ ChangeNoticeSelector(r) \/ EnhancementSelector(r)
  BY <1>6 DEF ChangeRequestSelector, DefectSelector, TaskSelector, ReviewTaskSelector,
     ChangeNoticeSelector, EnhancementSelector, ReceiveAny, Inputs, Comes, Methods, Steps
<1> QED
  BY <1>1, <1>2, <1>3, <1>4, <1>5, <1>6 DEF Endpoint

\* So is every step; what getResource does not find is answered with 404.
LEMMA StepWorks == ASSUME NEW r \in Requests, Step(r) PROVE Works(r, 404)
  BY DEF Step, Get, Dialog, Find, Select, Works, Aside

\* A step is one of these, or nothing that the invariants speak of changes.
LEMMA NextIs ==
  ASSUME TypeInv, [Next]_vars
  PROVE  \/ \E r \in Requests : Comes(r, Uris)
         \/ \E r \in Requests : Works(r, 404)
         \/ UNCHANGED restVars
<1>1. CASE \E r \in Requests : Endpoint(r) \/ Step(r)
  BY <1>1, EndpointComes, StepWorks
<1> QED
  BY <1>1 DEF Next, Finished, vars, restVars

LEMMA InductiveTypes == Spec => []TypeInv
<1>1. TypeInv /\ [Next]_vars => TypeInv'
  <2> SUFFICES ASSUME TypeInv, [Next]_vars PROVE TypeInv'
    OBVIOUS
  <2>1. CASE UNCHANGED restVars
    BY <2>1 DEF restVars, TypeInv, RestTypeOK, OnItsWay
  <2> QED
    BY <2>1, NextIs, ComesTypeInv, WorksTypeInv
<1> QED
  BY <1>1, InitTypeInv, PTL DEF Spec
-----------------------------------------------------------------------------
(***************************************************************************)
(* A request about a change request fails for another reason than its      *)
(* input (a DELETE or a PUT with a resource in its body is a 500, a read   *)
(* that finds nothing is a 500, a PUT of the right URI is a 400) only if a *)
(* DELETE of the resource succeeded while it was running, or another       *)
(* request changed the HashMap without synchronisation meanwhile: for      *)
(* atomic and for racing maps.                                             *)
(***************************************************************************)
THEOREM OnlyRacesFail == Spec => []FailsOnlyInARace
<1>1. TypeInv /\ RaceInv(Uris, 404) /\ [Next]_vars => RaceInv(Uris, 404)'
  <2> SUFFICES ASSUME TypeInv, RaceInv(Uris, 404), [Next]_vars PROVE RaceInv(Uris, 404)'
    OBVIOUS
  <2>1. CASE UNCHANGED restVars
    BY <2>1 DEF restVars, RaceInv, Explained, Explains, Fails, FailsOddly, Succeeded,
       Siblings
  <2>2. CASE \E r \in Requests : Comes(r, Uris)
    BY <2>2, ComesRaceInv
  <2>3. CASE \E r \in Requests : Works(r, 404)
    BY <2>3, WorksRaceInv
  <2> QED
    BY <2>1, <2>2, <2>3, NextIs
<1>2. Init => RaceInv(Uris, 404)
  BY InitRaceInv
<1>3. TypeInv /\ RaceInv(Uris, 404) => FailsOnlyInARace
  BY RaceInvSuffices DEF FailsOnlyInARace
<1> QED
  BY <1>1, <1>2, <1>3, InductiveTypes, PTL DEF Spec
-----------------------------------------------------------------------------
(***************************************************************************)
(* If the calls on the map are atomic, a change request that was created,  *)
(* or was there from the start, stays until a DELETE of it succeeds.       *)
(***************************************************************************)
THEOREM CreatedIsKept == ASSUME ~UnsafeMaps PROVE Spec => []KeptUntilDeleted
<1>1. TypeInv /\ KeptUntilDeleted /\ [Next]_vars => KeptUntilDeleted'
  <2> SUFFICES ASSUME TypeInv, KeptUntilDeleted, [Next]_vars PROVE KeptUntilDeleted'
    OBVIOUS
  <2>1. CASE UNCHANGED restVars
    BY <2>1 DEF restVars, KeptUntilDeleted, Succeeded
  <2>2. ASSUME NEW r \in Requests, Comes(r, Uris) PROVE KeptUntilDeleted'
    <3>1. \A methods, u : Succeeded(methods, u)' = Succeeded(methods, u)
      BY <2>2, SucceededComes
    <3>2. resources' = resources
      BY <2>2 DEF Comes, Receive
    <3> QED
      BY <3>1, <3>2 DEF KeptUntilDeleted
  <2>3. CASE \E r \in Requests : Works(r, 404)
    BY <2>3, WorksKept
  <2> QED
    BY <2>1, <2>2, <2>3, NextIs
<1>2. Init => KeptUntilDeleted
  BY RestAssumption
     DEF RestAssumption, Contents, Init, RestInit, KeptUntilDeleted, Succeeded, Success
<1> QED
  BY <1>1, <1>2, InductiveTypes, PTL DEF Spec

(***************************************************************************)
(* Of two DELETEs of one content, one fails: no more of them succeed than  *)
(* there was content to remove, for any finite number of requests, if the  *)
(* calls on the map are atomic.                                            *)
(***************************************************************************)
THEOREM NothingDeletedTwice ==
  ASSUME ~UnsafeMaps, IsFiniteSet(Requests) PROVE Spec => []DeletedOnce
<1>1. TypeInv /\ DeletedOnce /\ [Next]_vars => DeletedOnce'
  <2> SUFFICES ASSUME TypeInv, DeletedOnce, [Next]_vars PROVE DeletedOnce'
    OBVIOUS
  <2>1. CASE UNCHANGED restVars
    BY <2>1 DEF restVars, DeletedOnce, Succeeded
  <2>2. ASSUME NEW r \in Requests, Comes(r, Uris) PROVE DeletedOnce'
    <3>1. \A methods, u : Succeeded(methods, u)' = Succeeded(methods, u)
      BY <2>2, SucceededComes
    <3>2. resources' = resources
      BY <2>2 DEF Comes, Receive
    <3> QED
      BY <3>1, <3>2 DEF DeletedOnce
  <2>3. CASE \E r \in Requests : Works(r, 404)
    BY <2>3, WorksDeleted
  <2> QED
    BY <2>1, <2>2, <2>3, NextIs
<1>2. Init => DeletedOnce
  <2> SUFFICES ASSUME Init, NEW u \in Uris
               PROVE  Cardinality(Succeeded({"DELETE"}, u))
                          + (IF resources[u] = Absent THEN 0 ELSE 1)
                        <= Cardinality(Succeeded({"POST", "PUT"}, u))
                              + (IF u \in Seeded THEN 1 ELSE 0)
    BY DEF DeletedOnce
  <2>1. Succeeded({"DELETE"}, u) = {} /\ Succeeded({"POST", "PUT"}, u) = {}
    BY DEF Init, RestInit, Succeeded, Success
  <2>2. resources[u] = Absent <=> u \notin Seeded
    BY RestAssumption DEF RestAssumption, Contents, Init, RestInit
  <2>3. Cardinality({}) = 0
    BY FS_EmptySet
  <2> QED
    BY <2>1, <2>2, <2>3
<1> QED
  BY <1>1, <1>2, InductiveTypes, PTL DEF Spec
-----------------------------------------------------------------------------
(***************************************************************************)
(* A PUT with If-Match never undoes a change its client could have known   *)
(* of, if the calls on the map are atomic.                                 *)
(***************************************************************************)
THEOREM IfMatchProtects == ASSUME ~UnsafeMaps PROVE Spec => []IfMatchRespectsThePast
<1>1. StoreInv /\ PastInv /\ [Next]_vars => (StoreInv /\ PastInv)'
  <2> SUFFICES ASSUME StoreInv, PastInv, [Next]_vars PROVE StoreInv' /\ PastInv'
    OBVIOUS
  <2>1. TypeInv
    BY DEF StoreInv
  <2>2. CASE UNCHANGED restVars
    <3>1. TypeInv' /\ StoredBySuccess' /\ Conditional'
      BY <2>2 DEF restVars, StoreInv, TypeInv, RestTypeOK, OnItsWay, StoredBySuccess,
         StoredBySuccessOf, Conditional
    <3>2. PastInv'
      BY <2>2 DEF restVars, PastInv, ConditionalPut, NotOlder
    <3> QED
      BY <3>1, <3>2 DEF StoreInv
  <2>3. CASE \E r \in Requests : Comes(r, Uris)
    BY <2>1, <2>3, ComesStoreInv, ComesPastInv
  <2>4. CASE \E r \in Requests : Works(r, 404)
    BY <2>1, <2>4, WorksStoreInv, WorksPastInv
  <2> QED
    BY <2>1, <2>2, <2>3, <2>4, NextIs
<1> QED
  BY <1>1, InitStoreInv, InitPastInv, PastInvRespects, PTL DEF Spec
===============================================================================
