------------------------------ MODULE DelegatedUi ------------------------------
(***************************************************************************)
(* The delegated dialogs: selection in AM, RM (requirement collections)    *)
(* and QM, creation in RM and CM.  The page in an iframe with its server's *)
(* copy of the script delegated-ui.js, the selectors and creators of the   *)
(* servers, and the page around it, which hears of the selection or of     *)
(* what was created through delegated-ui-helper.js.                        *)
(*                                                                         *)
(* A search and a submitted form are an XMLHttpRequest; the user may start *)
(* one while others are under way.  The script keeps the request in a      *)
(* global variable, which the event handlers of all requests look at.      *)
(***************************************************************************)
EXTENDS Integers, SequencesExt

CONSTANTS Items,        \* resources
          Quoted,       \* those with a label that has a quotation mark in it
          Misread,      \* what a message about those may be read as
          Terms,        \* search terms, each as the set of the resources that match
          Tables,       \* the stores to search, sequences in the order of iteration
          Limit,        \* SELECTOR_LIMIT
          Created,      \* what the delegates of the creators may create: {} in this
                        \* repository, where they are to be implemented
          Foreign,      \* what other windows may send as if it were selected
          MaxActs       \* bound: searches, forms and messages in a behaviour

ASSUME DialogAssumption ==
    /\ Quoted \subseteq Items /\ Created \subseteq Items /\ Foreign \subseteq Items
    /\ Misread \subseteq Seq(Items) /\ Misread # {}
    /\ Terms \subseteq SUBSET Items
    /\ Tables \subseteq Seq(Items)
    /\ Limit \in Nat /\ MaxActs \in Nat

Searches == 1..MaxActs
AmDialogs == {"Resource", "LinkType"}
RmDialogs == {"RequirementCollection", "Requirement"}
CmDialogs == {"ChangeRequest"}
QmDialogs == {"TestCase", "TestPlan", "TestScript", "TestResult", "TestExecutionRecord"}
Dialogs == AmDialogs \cup RmDialogs \cup CmDialogs \cup QmDialogs
CreationDialogs == {"Requirement", "ChangeRequest"}

VARIABLES
    dialog,      \* the dialog that is open
    protocol,    \* location.hash: "postMessage", "windowName" or neither
    table,       \* the resources of the server
    xhr,         \* xhr[s]: the XMLHttpRequest of search or form s
    xmlhttp,     \* the global variable: the last of them, 0 before the first
    list,        \* the options of the list "results"
    loading,     \* the message "Pondering your search" is shown
    left,        \* the dialog has gone to another page
    sent,        \* messages on the way to the page around the dialog
    presented,   \* the resources this page presents
    count,       \* how many searches, forms and messages there were, bounded counter
    overlapped,  \* the last request started while another was under way (history)
    selections   \* what was selected, created or, the empty one, cancelled (history)

serverVars == <<dialog, protocol, table>>
scriptVars == <<xmlhttp, list, loading, overlapped>>
messageVars == <<left, sent, presented, selections>>
dialogVars == <<serverVars, xhr, scriptVars, messageVars, count>>

Idle == [ready |-> 0, matches |-> {}, answered |-> FALSE, status |-> 0, results |-> <<>>]

DialogInit ==
    /\ dialog \in Dialogs
    /\ table \in IF dialog \in CreationDialogs THEN {<<>>} ELSE Tables   \* not searched
    /\ protocol \in {"postMessage", "windowName", "none"}
    /\ xhr = [s \in Searches |-> Idle]
    /\ xmlhttp = 0 /\ list = <<>> /\ loading = FALSE /\ overlapped = FALSE
    /\ left = FALSE /\ sent = <<>> /\ presented = <<>> /\ count = 0
    /\ selections = {}
-----------------------------------------------------------------------------
(***************************************************************************)
(* The servers.                                                            *)
(***************************************************************************)
\* The resources of t that are in m, in the order of t.
Matching(t, m) ==
    LET F[n \in 0..Len(t)] ==
            IF n = 0 THEN <<>>
            ELSE IF t[n] \in m THEN Append(F[n - 1], t[n]) ELSE F[n - 1]
    IN F[Len(t)]

\* Mutant of findResources: the second page, as the CM delegate once asked for.
findResourcesOnPageOne(t, m) == Matching(SubSeq(t, Limit + 1, Len(t)), m)

\* The first Limit+1 resources are fetched, then those that do not match are left out.
findResources(t, m) == Matching(SubSeq(t, 1, Min({Limit + 1, Len(t)})), m)

\* An answer leaves the server.
Respond(s, status, results) ==
    /\ xhr[s].ready > 0 /\ ~xhr[s].answered
    /\ xhr' = [xhr EXCEPT ![s].answered = TRUE, ![s].status = status,
                          ![s].results = results]
    /\ UNCHANGED <<serverVars, scriptVars, messageVars, count>>

ResourceSelector(s) ==
    dialog = "Resource" /\ Respond(s, 200, Matching(table, xhr[s].matches))

\* The delegate is to be implemented; the null it returns is a 500.
LinkTypeSelector(s) == dialog = "LinkType" /\ Respond(s, 500, <<>>)

RequirementCollectionSelector(s) ==
    dialog = "RequirementCollection" /\ Respond(s, 200, Matching(table, xhr[s].matches))

TestCaseSelector(s) ==
    dialog = "TestCase" /\ Respond(s, 200, findResources(table, xhr[s].matches))
TestPlanSelector(s) ==
    dialog = "TestPlan" /\ Respond(s, 200, findResources(table, xhr[s].matches))
TestScriptSelector(s) ==
    dialog = "TestScript" /\ Respond(s, 200, findResources(table, xhr[s].matches))
TestResultSelector(s) ==
    dialog = "TestResult" /\ Respond(s, 200, findResources(table, xhr[s].matches))
TestExecutionRecordSelector(s) ==
    dialog = "TestExecutionRecord" /\ Respond(s, 200, findResources(table, xhr[s].matches))

\* What the delegate creates is answered with its URI and label; nothing, with 204.  A
\* date or a URI of the form that cannot be parsed is a 500.
Create(s) ==
    \/ \E i \in Created : Respond(s, 201, <<i>>)
    \/ Respond(s, 204, <<>>)
    \/ Respond(s, 500, <<>>)

createRequirementFromDialog(s) == dialog = "Requirement" /\ Create(s)

\* Of defects, tasks, review tasks, change notices and enhancements.
createChangeRequestFromDialog(s) == dialog = "ChangeRequest" /\ Create(s)

\* No answer comes: the request ends with status 0.
Lose(s) == Respond(s, 0, <<>>)

Serve(s) ==
    \/ ResourceSelector(s) \/ LinkTypeSelector(s) \/ RequirementCollectionSelector(s)
    \/ TestCaseSelector(s) \/ TestPlanSelector(s) \/ TestScriptSelector(s)
    \/ TestResultSelector(s) \/ TestExecutionRecordSelector(s)
    \/ createRequirementFromDialog(s) \/ createChangeRequestFromDialog(s)
-----------------------------------------------------------------------------
(***************************************************************************)
(* The script of the dialog.                                               *)
(***************************************************************************)
\* A new request becomes the global one.
Send(m) ==
    /\ ~left /\ count < MaxActs
    /\ count' = count + 1
    /\ xhr' = [xhr EXCEPT ![xmlhttp + 1] = [Idle EXCEPT !.ready = 1, !.matches = m]]
    /\ xmlhttp' = xmlhttp + 1
    /\ overlapped' = \E s \in 1..xmlhttp : xhr[s].ready < 4
    /\ UNCHANGED <<serverVars, messageVars>>

\* Mutant of search: the list is not cleared.
searchMore ==
    /\ \E m \in Terms : Send(m)
    /\ loading' = TRUE /\ UNCHANGED list

\* The event of open finds the new request in its first state and does nothing.
search ==
    /\ \E m \in Terms : Send(m)
    /\ list' = <<>> /\ loading' = TRUE

\* The form is posted; the page does not keep the user from posting it again.
create == Send({}) /\ UNCHANGED <<list, loading>>

\* The status that the handlers of the requests wait for.
Expected == IF dialog \in CreationDialogs THEN 201 ELSE 200

\* Mutant of populates: the handler waits for another status than that of an answer.
populatesCreated(x, s) == IF x[xmlhttp].ready = 4 /\ x[xmlhttp].status = 201
                          THEN {xmlhttp} ELSE {}

\* Mutant of populates: the handler looks at its own request.
populatesOwn(x, s) == IF x[s].ready = 4 /\ x[s].status = Expected THEN {s} ELSE {}

\* The request whose answer the handler of s takes, if any: always the global one.
populates(x, s) ==
    IF x[xmlhttp].ready = 4 /\ x[xmlhttp].status = Expected THEN {xmlhttp} ELSE {}

\* respondWithPostMessage and respondWithWindowName: the latter leaves the page.  The
\* window.name is read by whoever opened the dialog, not by code of the repository.
respond(results) ==
    /\ sent' = IF protocol = "postMessage"
               THEN Append(sent, [source |-> "iframe", results |-> results]) ELSE sent
    /\ left' = (protocol = "windowName")
    /\ selections' = selections \cup {results}
    /\ UNCHANGED presented

\* What the server says of the created resource goes on as it is.
sendRawResponse(results) == respond(results) /\ UNCHANGED <<list, loading>>

\* The items of an answer are added to the list.
Populate(results) ==
    /\ list' = list \o results /\ loading' = FALSE
    /\ UNCHANGED messageVars

\* onreadystatechange: one event for each of the states 2, 3 and 4 of a request.
readystatechange(s) ==
    /\ ~left /\ xhr[s].answered /\ xhr[s].ready < 4
    /\ xhr' = [xhr EXCEPT ![s].ready = @ + 1]
    /\ IF populates(xhr', s) = {} THEN UNCHANGED <<list, loading, messageVars>>
       ELSE \E x \in populates(xhr', s) :
                IF dialog \in CreationDialogs THEN sendRawResponse(xhr[x].results)
                ELSE Populate(xhr[x].results)
    /\ UNCHANGED <<serverVars, xmlhttp, overlapped, count>>

sendResponse(results) ==
    /\ ~left /\ count < MaxActs
    /\ count' = count + 1
    /\ respond(results)
    /\ UNCHANGED <<serverVars, xhr, scriptVars>>

\* Bound: the user marks one option or all of them.
select ==
    \/ \E i \in DOMAIN list : sendResponse(<<list[i]>>)
    \/ list # <<>> /\ sendResponse(list)

\* sendCancelResponse: the empty selection.
cancel == sendResponse(<<>>)

\* What the dialogs of each server do with its copy of the script.
Selecting == search \/ select \/ cancel \/ \E s \in Searches : readystatechange(s)
Creating == create \/ \E s \in Searches : readystatechange(s)

AmDialog == dialog \in AmDialogs /\ Selecting
RmDialog == \/ dialog = "RequirementCollection" /\ Selecting
            \/ dialog = "Requirement" /\ Creating
CmDialog == dialog \in CmDialogs /\ Creating
QmDialog == dialog \in QmDialogs /\ Selecting
-----------------------------------------------------------------------------
(***************************************************************************)
(* The page around the dialog.                                             *)
(***************************************************************************)
\* Another window sends something that looks like a response.
Intrude ==
    /\ count < MaxActs
    /\ \E i \in Foreign : sent' = Append(sent, [source |-> "other", results |-> <<i>>])
    /\ count' = count + 1
    /\ UNCHANGED <<serverVars, xhr, scriptVars, left, presented, selections>>

\* Mutant of Accepted: the source is not looked at.
AcceptedFromAll(m) == TRUE

Accepted(m) == m.source = "iframe"

Plain(results) == \A i \in DOMAIN results : results[i] \notin Quoted

\* select puts labels into the message as they are.  A quotation mark ends the string
\* of the label: what follows makes it something else than JSON, or other JSON.
Parsed(results) == IF Plain(results) THEN {results} ELSE Misread

\* Presents all results.  What cannot be parsed is an exception after the presentation
\* was emptied.
selectionListener(results) == presented' \in Parsed(results)

\* Presents the first result; throws if there is none.
creationListener(results) == presented' = IF results = <<>> THEN <<>> ELSE <<results[1]>>

\* The listeners of the page.
message ==
    /\ sent # <<>>
    /\ sent' = Tail(sent)
    /\ IF ~Accepted(Head(sent)) THEN UNCHANGED presented
       ELSE IF dialog \in CreationDialogs THEN creationListener(Head(sent).results)
       ELSE selectionListener(Head(sent).results)
    /\ UNCHANGED <<serverVars, xhr, scriptVars, left, selections, count>>

\* The sample clients, each with its server's copy of the helper.
AmClient == dialog \in AmDialogs /\ message
RmClient == dialog \in RmDialogs /\ message
CmClient == dialog \in CmDialogs /\ message
QmClient == dialog \in QmDialogs /\ message

DialogNext ==
    \/ AmDialog \/ RmDialog \/ CmDialog \/ QmDialog
    \/ AmClient \/ RmClient \/ CmClient \/ QmClient
    \/ Intrude
    \/ \E s \in Searches : Serve(s) \/ Lose(s)

DialogSpec == DialogInit /\ [][DialogNext]_dialogVars

\* Servers answer, browsers deliver events and messages; users need not do anything.
DialogFairSpec ==
    DialogSpec /\ WF_dialogVars(message)
         /\ \A s \in Searches : WF_dialogVars(Serve(s)) /\ WF_dialogVars(readystatechange(s))
-----------------------------------------------------------------------------
(***************************************************************************)
(* Properties.                                                             *)
(***************************************************************************)
Copies(t, k) == [i \in 1..(k * Len(t)) |-> t[((i - 1) % Len(t)) + 1]]

\* Whatever the order of the answers, the list shows the answer to the last search and
\* nothing of the searches before: nothing until it is there, then all of it, once if
\* the search did not start while another was under way.
ListShowsLastSearch ==
    xmlhttp > 0 /\ dialog \notin CreationDialogs =>
        LET last == xhr[xmlhttp]
            shown == last.ready = 4 /\ last.status = 200
        IN /\ loading # shown
           /\ IF shown /\ last.results # <<>>
              THEN \E k \in 1..(IF overlapped THEN 3 * xmlhttp ELSE 1) :
                       list = Copies(last.results, k)
              ELSE list = <<>>

\* The page around the dialog presents what was selected or created there, nothing that
\* another window sent, nor part of it; in a selection dialog only as long as nothing is
\* selected that has a quotation mark in its label.
PresentedWasSelected ==
    dialog \in CreationDialogs \/ (\A r \in selections : Plain(r)) =>
        presented \in selections \cup {<<>>}

\* A search that succeeds finds every match if the store has no more than Limit+1
\* resources, or if the selector has no limit.
SmallStoresAreSearchedWhole ==
    \A s \in Searches :
        /\ xhr[s].status = 200
        /\ Len(table) <= Limit + 1 \/ dialog \in {"Resource", "RequirementCollection"}
        => \A i \in DOMAIN table :
               table[i] \in xhr[s].matches =>
                   \E j \in DOMAIN xhr[s].results : xhr[s].results[j] = table[i]

\* A form may be posted again before it is answered, and the answers come in any order:
\* when all of them and all messages have come, the page around the dialog presents what
\* was created from the form posted last, if something was.
LastCreationIsPresented ==
    /\ dialog \in CreationDialogs /\ protocol = "postMessage"
    /\ xmlhttp > 0 /\ \A s \in 1..xmlhttp : xhr[s].ready = 4
    /\ xhr[xmlhttp].status = 201 /\ sent = <<>>
    => presented = xhr[xmlhttp].results

\* The user sees the answer to the last search, unless the dialog is left or the next
\* search begins.
AnswersAreShown ==
    \A s \in Searches :
        xmlhttp = s /\ xhr[s].status = 200 ~> ~loading \/ xmlhttp # s \/ left
===============================================================================
