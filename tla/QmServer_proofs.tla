---------------------------- MODULE QmServer_proofs ----------------------------
(***************************************************************************)
(* What holds of the Quality Management server for any number of requests  *)
(* and resources of the five types, whether calls on its maps race or not. *)
(***************************************************************************)
EXTENDS QmServer, UntrackedHandlers_proofs

\* The resources that hasResource is asked about.
Asked == Uris \ TestExecutionRecords

LEMMA KindsType ==
  /\ TestCases \subseteq Uris /\ TestPlans \subseteq Uris /\ TestScripts \subseteq Uris
  /\ TestResults \subseteq Uris /\ TestExecutionRecords \subseteq Uris
<1>1. \A R \in Repositories \cup {{}} : R \subseteq Uris
  BY UntrackedAssumption DEF UntrackedAssumption
<1> QED
  BY <1>1, QmAssumption DEF QmAssumption

\* The endpoints of one type: without hasResource for test execution records only.
LEMMA EndpointOfComes ==
  ASSUME TypeInv, NEW r \in Requests, NEW us \in SUBSET Uris, EndpointOf(r, us)
  PROVE  Comes(r, TestExecutionRecords)
<1>1. \/ FirstStep(us) = "has"
      \/ FirstStep(us) = "get" /\ us = TestExecutionRecords
  BY DEF FirstStep
<1>2. CASE getX(r, us) \/ viewX(r, us) \/ deleteX(r, us)
  BY <1>1, <1>2 DEF getX, viewX, deleteX, ReceiveAny, Inputs, Comes, Methods, Steps,
     Looking
<1>3. CASE updateX(r, us)
  BY <1>1, <1>3, KnownETagsType DEF updateX, ReceivePut, Comes, Methods, Steps, Looking
<1>4. CASE createX(r, us)
  BY <1>4 DEF createX, ReceivePost, ReceiveAny, Inputs, Comes, Methods, Steps
<1> QED
  BY <1>2, <1>3, <1>4 DEF EndpointOf

LEMMA EndpointComes ==
  ASSUME TypeInv, NEW r \in Requests, Endpoint(r)
  PROVE  Comes(r, TestExecutionRecords)
<1>1. PICK us \in {TestCases, TestPlans, TestScripts, TestResults, TestExecutionRecords} :
         EndpointOf(r, us)
  BY DEF Endpoint, WsCases, WsPlans, WsScripts, WsResults, WsExecRecords
<1>2. us \in SUBSET Uris
  BY <1>1, KindsType
<1> QED
  BY <1>1, <1>2, EndpointOfComes

LEMMA StepWorks == ASSUME NEW r \in Requests, Step(r) PROVE Works(r, 500)
  BY DEF Step, HasResource, Get, Works, Asks

\* A step is one of these, or nothing that the invariants speak of changes.
LEMMA NextIs ==
  ASSUME TypeInv, [Next]_vars
  PROVE  \/ \E r \in Requests : Comes(r, TestExecutionRecords)
         \/ \E r \in Requests : Works(r, 500)
         \/ UNCHANGED restVars
<1>1. CASE \E r \in Requests : Endpoint(r) \/ Step(r)
  BY <1>1, EndpointComes, StepWorks
<1> QED
  BY <1>1 DEF Next, Finished, vars, restVars
-----------------------------------------------------------------------------
(***************************************************************************)
(* What a QM server stores was sent by a POST or PUT that it answered with *)
(* success, and, if the PUT was conditional, had named the version it was  *)
(* shown: also when the calls on its maps race.                            *)
(***************************************************************************)
THEOREM OnlySuccessIsStored == Spec => []StoredBySuccess
<1>1. StoreInv /\ [Next]_vars => StoreInv'
  <2> SUFFICES ASSUME StoreInv, [Next]_vars PROVE StoreInv'
    OBVIOUS
  <2>1. TypeInv
    BY DEF StoreInv
  <2>2. CASE UNCHANGED restVars
    BY <2>2 DEF restVars, StoreInv, TypeInv, RestTypeOK, OnItsWay, StoredBySuccess,
       StoredBySuccessOf, Conditional
  <2> QED
    BY <2>1, <2>2, NextIs, ComesStoreInv, WorksStoreInv
<1>2. StoreInv => StoredBySuccess
  BY DEF StoreInv
<1> QED
  BY <1>1, <1>2, InitStoreInv, PTL DEF Spec
-----------------------------------------------------------------------------
(***************************************************************************)
(* A request about a test case, plan, script or result fails for another   *)
(* reason than its input (a DELETE or a PUT with a resource in its body is *)
(* a 500, a read that finds nothing is a 500, a PUT of the right URI is a  *)
(* 400) only if a DELETE of the resource succeeded while it was running,   *)
(* or another request changed the same unsynchronised HashMap meanwhile.   *)
(* (Execution records are not asked about first: "not found" is 500.)      *)
(***************************************************************************)
THEOREM OnlyRacesFail == Spec => []FailsOnlyInARace
<1> DEFINE Inv == TypeInv /\ RaceInv(Asked, 500)
<1>1. Inv /\ [Next]_vars => Inv'
  <2> SUFFICES ASSUME TypeInv, RaceInv(Asked, 500), [Next]_vars
               PROVE  TypeInv' /\ RaceInv(Asked, 500)'
    OBVIOUS
  <2>1. CASE UNCHANGED restVars
    <3>1. TypeInv'
      BY <2>1 DEF restVars, TypeInv, RestTypeOK, OnItsWay
    <3>2. RaceInv(Asked, 500)'
      BY <2>1 DEF restVars, RaceInv, Explained, Explains, Fails, FailsOddly, Succeeded,
         Siblings, Asked
    <3> QED
      BY <3>1, <3>2
  <2>2. CASE \E r \in Requests : Comes(r, TestExecutionRecords)
    <3>1. Asked \cap TestExecutionRecords = {}
      BY DEF Asked
    <3> QED
      BY <2>2, <3>1, ComesTypeInv, ComesRaceInv
  <2>3. CASE \E r \in Requests : Works(r, 500)
    BY <2>3, WorksTypeInv, WorksRaceInv
  <2> QED
    BY <2>1, <2>2, <2>3, NextIs
<1>2. Init => Inv
  BY InitTypeInv, InitRaceInv
<1>3. Inv => FailsOnlyInARace
  BY RaceInvSuffices DEF FailsOnlyInARace, Asked
<1> QED
  BY <1>1, <1>2, <1>3, PTL DEF Spec
===============================================================================
