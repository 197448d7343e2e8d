------------------------------- MODULE QmServer -------------------------------
(***************************************************************************)
(* The Quality Management server: the REST handlers of test cases, plans,  *)
(* scripts, results and execution records (WsCases, ..., CasesService,     *)
(* ...), which are the same text for each type, and the RestDelegate with  *)
(* one repository per type.                                                *)
(*                                                                         *)
(* A URI has a service provider and an identifier.  Resources are created  *)
(* under "sp_single" only; the URIs of "Foreign" are those of others.      *)
(***************************************************************************)
EXTENDS UntrackedHandlers

CONSTANTS TestCases, TestPlans, TestScripts, TestResults, TestExecutionRecords,
          Foreign

ASSUME QmAssumption ==
    /\ Repositories \cup {{}} = {TestCases, TestPlans, TestScripts, TestResults,
                                 TestExecutionRecords, {}}
    /\ Foreign \subseteq Uris \ Seeded

\* Mutant of FirstStep: no delegate method asks hasResource.
FirstStepGet(us) == "get"

\* delegate.getTestExecutionRecord does not ask hasResource.
FirstStep(us) == IF us = TestExecutionRecords THEN "get" ELSE "has"
-----------------------------------------------------------------------------
(***************************************************************************)
(* The endpoints of the web services, one set of them for each type.       *)
(***************************************************************************)
getX(r, us) == ReceiveAny(r, "GET", us, FirstStep(us))

\* getXAsHtml, getXCompact and the two previews.
viewX(r, us) == ReceiveAny(r, "VIEW", us, FirstStep(us))
deleteX(r, us) == ReceiveAny(r, "DELETE", us, FirstStep(us))
updateX(r, us) == ReceivePut(r, us, FirstStep(us))

\* An identifier that is missing in the body is a random UUID.
createX(r, us) == ReceivePost(r, us \ Foreign)

EndpointOf(r, us) ==
    getX(r, us) \/ viewX(r, us) \/ deleteX(r, us) \/ updateX(r, us) \/ createX(r, us)

WsCases(r) == EndpointOf(r, TestCases)
WsPlans(r) == EndpointOf(r, TestPlans)
WsScripts(r) == EndpointOf(r, TestScripts)
WsResults(r) == EndpointOf(r, TestResults)
WsExecRecords(r) == EndpointOf(r, TestExecutionRecords)

Endpoint(r) ==
    /\ WsCases(r) \/ WsPlans(r) \/ WsScripts(r) \/ WsResults(r) \/ WsExecRecords(r)
    /\ UNCHANGED raced
-----------------------------------------------------------------------------
\* delegate.getX, hasResource: null, and 404 from every handler, if absent.
HasResource(r) ==
    /\ pc[r] = "has"
    /\ \E c \in Found(call[r].uri) : IF c = Absent THEN Answer(r, 404) ELSE Goto(r, "get")
    /\ UNCHANGED <<resources, call, seen, overwrote, raced>>

\* delegate.getX, getResource: its exception is a 500.
Get(r) == GetResource(r, 500)

Step(r) == HasResource(r) \/ Get(r) \/ StepAfterGet(r)

Next ==
    \/ \E r \in Requests : Endpoint(r) \/ Step(r)
    \/ Finished /\ UNCHANGED raced

Spec == Init /\ [][Next]_vars
-----------------------------------------------------------------------------
\* See FailsOnlyInARaceFor; for test execution records a 500 also says "not found".
FailsOnlyInARace == FailsOnlyInARaceFor(Uris \ TestExecutionRecords)
===============================================================================
