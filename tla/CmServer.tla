------------------------------- MODULE CmServer -------------------------------
(***************************************************************************)
(* The Change Management server: the REST handlers of ChangeRequest        *)
(* (WsChangeRequest, Change_requestsService) and the RestDelegate with its *)
(* one repository.  Of the other types (Defect, Task, ReviewTask,          *)
(* ChangeNotice, Enhancement) only the dialogs exist, and they store       *)
(* nothing.  (The queries are in QueryPaging.)                             *)
(***************************************************************************)
EXTENDS UntrackedHandlers

ASSUME CmAssumption == Repositories = {Uris}

-----------------------------------------------------------------------------
getChangeRequest(r) == ReceiveAny(r, "GET", Uris, "get")
getChangeRequestAsHtml(r) == ReceiveAny(r, "VIEW", Uris, "get")
getChangeRequestCompact(r) == ReceiveAny(r, "VIEW", Uris, "get")
getChangeRequestAsHtmlSmallPreview(r) == ReceiveAny(r, "VIEW", Uris, "get")
getChangeRequestAsHtmlLargePreview(r) == ReceiveAny(r, "VIEW", Uris, "get")
deleteChangeRequest(r) == ReceiveAny(r, "DELETE", Uris, "get")
updateChangeRequest(r) == ReceivePut(r, Uris, "get")

\* An identifier that is missing in the body is a random UUID.
createChangeRequest(r) == ReceivePost(r, Uris)

\* The dialogs of the other types.
createDefectFromDialog(r) == ReceiveAny(r, "FORM", Uris, "dialog")
createTaskFromDialog(r) == ReceiveAny(r, "FORM", Uris, "dialog")
createReviewTaskFromDialog(r) == ReceiveAny(r, "FORM", Uris, "dialog")
createChangeNoticeFromDialog(r) == ReceiveAny(r, "FORM", Uris, "dialog")
createEnhancementFromDialog(r) == ReceiveAny(r, "FORM", Uris, "dialog")
ChangeRequestSelector(r) == ReceiveAny(r, "SEARCH", Uris, "find")
DefectSelector(r) == ReceiveAny(r, "SEARCH", Uris, "select")
TaskSelector(r) == ReceiveAny(r, "SEARCH", Uris, "select")
ReviewTaskSelector(r) == ReceiveAny(r, "SEARCH", Uris, "select")
ChangeNoticeSelector(r) == ReceiveAny(r, "SEARCH", Uris, "select")
EnhancementSelector(r) == ReceiveAny(r, "SEARCH", Uris, "select")

\* Mutant of Get: the exception is not caught.
GetUncaught(r) == GetResource(r, 500)

\* delegate.getChangeRequest makes null of the exception, the handlers a 404.
Get(r) == GetResource(r, 404)

\* createXFromDialog of the delegate is to be implemented: nothing is created.  A date
\* or a URI of the form that cannot be parsed is a 500.
Dialog(r) ==
    /\ pc[r] = "dialog"
    /\ Answer(r, NoContent) \/ Answer(r, 500)
    /\ UNCHANGED <<resources, call, seen, overwrote, raced>>

\* So is the search of the other selection dialogs: the null it returns is a 500.
Select(r) ==
    /\ pc[r] = "select"
    /\ Answer(r, 500)
    /\ UNCHANGED <<resources, call, seen, overwrote, raced>>

\* findResources iterates over the repository, which fails if another request changes
\* the HashMap meanwhile.
Find(r) ==
    /\ pc[r] = "find"
    /\ \E code \in {200} \cup (IF UnsafeMaps THEN {500} ELSE {}) : Answer(r, code)
    /\ UNCHANGED <<resources, call, seen, overwrote, raced>>

Endpoint(r) ==
    /\ \/ getChangeRequest(r) \/ getChangeRequestAsHtml(r) \/ getChangeRequestCompact(r)
       \/ getChangeRequestAsHtmlSmallPreview(r) \/ getChangeRequestAsHtmlLargePreview(r)
       \/ deleteChangeRequest(r) \/ updateChangeRequest(r) \/ createChangeRequest(r)
       \/ createDefectFromDialog(r) \/ createTaskFromDialog(r)
       \/ createReviewTaskFromDialog(r) \/ createChangeNoticeFromDialog(r)
       \/ createEnhancementFromDialog(r)
       \/ ChangeRequestSelector(r) \/ DefectSelector(r) \/ TaskSelector(r) \/ ReviewTaskSelector(r)
       \/ ChangeNoticeSelector(r) \/ EnhancementSelector(r)
    /\ UNCHANGED raced

Step(r) == Get(r) \/ StepAfterGet(r) \/ Dialog(r) \/ Find(r) \/ Select(r)

Next ==
    \/ \E r \in Requests : Endpoint(r) \/ Step(r)
    \/ Finished /\ UNCHANGED raced

Spec == Init /\ [][Next]_vars
-----------------------------------------------------------------------------
\* See FailsOnlyInARaceFor: getChangeRequest never throws.
FailsOnlyInARace == FailsOnlyInARaceFor(Uris)
===============================================================================
