------------------------------- MODULE Populator -------------------------------
(***************************************************************************)
(* The client that fills the servers with sample data (client-toolchain,   *)
(* Main.kt): it creates resources of each kind with concurrent POSTs that  *)
(* are retried, keeps the links it was given for them, and then links      *)
(* change requests to requirements and test plans to change requests.      *)
(*                                                                         *)
(* The servers are what the client can see of them: a POST is stored or    *)
(* not, and answered or not, whatever the other.                           *)
(***************************************************************************)
EXTENDS Integers, FiniteSets, SequencesExt

CONSTANTS Inits,       \* the sets of servers that --initServers may name
          Factories,   \* Factories[s]: the creation factories in server s for any one kind
          Count,       \* Count[k]: how many resources of kind k each of them is to
                       \* create; N_RESOURCES for all kinds in the code
          MaxRetries,  \* maxRetries
          Threads,     \* the threads of Dispatchers.IO
          Edits        \* changes that other clients make, one each: a bound

populating(s, k) == [servers |-> {s}, kind |-> k, target |-> k]
linking(S, k, t) == [servers |-> S, kind |-> k, target |-> t]

\* What main does in this order, each for servers that are all to be initialized.
Program == <<
    populating("rm", "Requirement"),
    populating("rm", "RequirementCollection"),
    populating("cm", "ChangeRequest"),
    linking({"rm", "cm"}, "ChangeRequest", "Requirement"),
    populating("qm", "TestPlan"),
    populating("qm", "TestCase"),
    populating("qm", "TestResult"),
    populating("qm", "TestExecutionRecord"),
    populating("qm", "TestScript"),
    populating("am", "Resource"),
    populating("am", "LinkType"),
    linking({"cm", "qm"}, "TestPlan", "ChangeRequest")>>

Kinds == {Program[n].kind : n \in DOMAIN Program}
Servers == {"am", "cm", "rm", "qm"}

ASSUME PopulatorAssumption ==
    /\ Inits \subseteq SUBSET Servers
    /\ Count \in [Kinds -> Nat]
    /\ MaxRetries \in Nat \ {0} /\ Threads \in Nat
    /\ \A s \in Servers :   \* else all threads may be blocked in runBlocking
          IsFiniteSet(Factories[s]) /\ Cardinality(Factories[s]) < Threads

AllFactories == UNION {Factories[s] : s \in Servers}
Resources == UNION {{k} \X AllFactories \X (1..Count[k]) : k \in Kinds}
Copies == Resources \X (1..MaxRetries)

VARIABLES
    initList,   \* the servers that are to be initialized
    step,       \* the step of main that runs
    threw,      \* an exception ended main
    providers,  \* the servers whose providers are known
    factory,    \* factory[f]: "launched", "blocked" until its POSTs are done, "returned"
    attempt,    \* attempt[r]: the POST of r that runs, 0 before the first
    done,       \* the resources whose coroutine has ended
    response,   \* response[r]: the POST of r that was answered with a Location, 0 if none
    list,       \* list[k]: the links that populate() returns for kind k
    reading,    \* the resource that is being linked, as it was read: {} or {[pair, seen]}
    claimed,    \* the links that are said to be created
    copies,     \* what the servers have stored of these resources: <<r, attempt>>
    value,      \* value[c]: what was put into copy c later, links and changes of others
    confirmed,  \* the copies that were answered with a Location (history)
    refused,    \* the links whose update the server refused (history)
    edits,      \* <<c, e>>: another client made change e of copy c (history)
    overtaken   \* the changes of a copy between its reading and its update (history)

mainVars == <<initList, step, threw, providers>>
postVars == <<factory, attempt, done, response, list>>
linkVars == <<reading, claimed>>
serverVars == <<copies, value>>
historyVars == <<confirmed, refused, edits, overtaken>>
vars == <<mainVars, postVars, linkVars, serverVars, historyVars>>

\* The conditions around the steps of main, and what follows a step: the next one whose
\* condition holds, or the end.
Runs(n) == Program[n].servers \subseteq initList
Following(n) ==
    {m \in (n + 1)..(Len(Program) + 1) :
        /\ m <= Len(Program) => Runs(m)
        /\ \A i \in (n + 1)..(m - 1) : ~Runs(i)}

Ended == threw \/ step > Len(Program)
Populating == ~Ended /\ Program[step].kind = Program[step].target
Linking == ~Ended /\ Program[step].kind # Program[step].target
kind == Program[step].kind
Found == UNION {Factories[s] : s \in Program[step].servers}

Init ==
    /\ initList \in Inits /\ step \in Following(0)
    /\ threw = FALSE /\ providers = {}
    /\ factory = [f \in AllFactories |-> "launched"]
    /\ attempt = [r \in Resources |-> 0] /\ done = {}
    /\ response = [r \in Resources |-> 0]
    /\ list = [k \in Kinds |-> {}]
    /\ reading = {} /\ claimed = {}
    /\ copies = {} /\ value = [c \in Copies |-> {}]
    /\ confirmed = {} /\ refused = {} /\ edits = {} /\ overtaken = {}
-----------------------------------------------------------------------------
(***************************************************************************)
(* populate().                                                             *)
(***************************************************************************)
\* The catalog of a server is read once; if that fails main ends.
fetchAllProviders ==
    /\ Populating /\ ~(Program[step].servers \subseteq providers)
    /\ \/ providers' = providers \cup Program[step].servers /\ UNCHANGED threw
       \/ threw' = TRUE /\ UNCHANGED providers
    /\ UNCHANGED <<initList, step, postVars, linkVars, serverVars, historyVars>>

\* A coroutine holds its thread while it sleeps between two attempts, and while
\* runBlocking waits for others.
Running == {r \in Resources : attempt[r] > 0 /\ r \notin done}
Blocked == {f \in AllFactories : factory[f] = "blocked"}
ThreadIsFree == Cardinality(Running) + Cardinality(Blocked) < Threads

Of(f) == {r \in Resources : r[1] = kind /\ r[2] = f}

\* Generates the resources and has a coroutine started for each.
postResources(f) ==
    /\ Populating /\ Program[step].servers \subseteq providers
    /\ f \in Found /\ factory[f] = "launched" /\ ThreadIsFree
    /\ factory' = [factory EXCEPT ![f] = "blocked"]
    /\ UNCHANGED <<mainVars, attempt, done, response, list, linkVars, serverVars, historyVars>>

Start(f) ==
    /\ Populating /\ factory[f] = "blocked" /\ ThreadIsFree
    /\ \E r \in Of(f) : attempt[r] = 0 /\ attempt' = [attempt EXCEPT ![r] = 1]
    /\ UNCHANGED <<mainVars, factory, done, response, list, linkVars, serverVars, historyVars>>

\* Mutant of tryAgain: after the last attempt it starts over.
tryAgainForEver(r) ==
    attempt' = [attempt EXCEPT ![r] = 1 + (@ % MaxRetries)] /\ UNCHANGED done

tryAgain(r) ==
    IF attempt[r] < MaxRetries
    THEN attempt' = [attempt EXCEPT ![r] = @ + 1] /\ UNCHANGED done
    ELSE done' = done \cup {r} /\ UNCHANGED attempt

Stored(r) == copies' = copies \cup {<<r, attempt[r]>>}

\* Status below 400, with a Location.
Created(r) ==
    /\ Stored(r) /\ confirmed' = confirmed \cup {<<r, attempt[r]>>}
    /\ response' = [response EXCEPT ![r] = attempt[r]]
    /\ done' = done \cup {r} /\ UNCHANGED attempt

\* No Location; a status of 400 to 499; an exception, for instance when the answer is cut
\* off: the loop is left.
GivenUp(r) ==
    /\ Stored(r) \/ UNCHANGED copies
    /\ done' = done \cup {r} /\ UNCHANGED <<attempt, response, confirmed>>

\* A status from 500 on, no connection, or no response object.
Unavailable(r) ==
    /\ Stored(r) \/ UNCHANGED copies
    /\ tryAgain(r) /\ UNCHANGED <<response, confirmed>>

createResource(r) ==
    /\ r \in Running
    /\ Created(r) \/ GivenUp(r) \/ Unavailable(r)
    /\ UNCHANGED <<mainVars, factory, list, linkVars, value, refused, edits, overtaken>>

\* Mutant of awaitAll: it waits for the first.
awaitAny(f) == Of(f) = {} \/ Of(f) \cap done # {}

awaitAll(f) == Of(f) \subseteq done

\* What runs in runBlocking, on a thread of its own, and the addAll after it.
addAll(f) ==
    /\ Populating /\ factory[f] = "blocked" /\ awaitAll(f) /\ ThreadIsFree
    /\ list' = [list EXCEPT ![kind] = @ \cup {<<r, response[r]>> : r \in
                                              {x \in Of(f) : response[x] > 0}}]
    /\ factory' = [factory EXCEPT ![f] = "returned"]
    /\ UNCHANGED <<mainVars, attempt, done, response, linkVars, serverVars, historyVars>>

\* populate() returns.  What the coroutines knew is gone.
populate ==
    /\ Populating /\ Program[step].servers \subseteq providers
    /\ \A f \in Found : factory[f] = "returned"
    /\ step' \in Following(step)
    /\ factory' = [f \in AllFactories |-> "launched"]
    /\ attempt' = [r \in Resources |-> 0] /\ done' = {}
    /\ response' = [r \in Resources |-> 0]
    /\ UNCHANGED <<initList, threw, providers, list, linkVars, serverVars, historyVars>>
-----------------------------------------------------------------------------
(***************************************************************************)
(* linkChangeRequestsToRequirements, linkTestPlanstoChangeRequests.        *)
(***************************************************************************)
\* Mutant of Pairs: a target is drawn for each, not taken in turn.
PairsDrawn ==
    {p \in list[kind] \X list[Program[step].target] : \A q \in claimed : q[1] # p[1]}

\* The pairs that zip may come to next.  It stops at the end of the shorter list; the
\* assertion that they are equally long is not evaluated.
Pairs ==
    {p \in list[kind] \X list[Program[step].target] :
        \A q \in claimed : q[1] # p[1] /\ (q[1][1][1] = kind => q[2] # p[2])}

\* Mutant of doGetResource: the resource as it was created.
doGetResourceOnce(p) == reading' = {[pair |-> p, seen |-> {}]} /\ UNCHANGED threw

\* A status of 400 to 499, an exception, or five times none of them: main ends.
doGetResource(p) ==
    \/ reading' = {[pair |-> p, seen |-> value[p[1]]]} /\ UNCHANGED threw
    \/ threw' = TRUE /\ UNCHANGED reading

getResource ==
    /\ Linking /\ reading = {}
    /\ \E p \in Pairs : doGetResource(p)
    /\ UNCHANGED <<initList, step, providers, postVars, claimed, serverVars, historyVars>>

\* The resource is sent back without If-Match, with the link; nobody looks at the answer.
\* If none comes main ends.
updateResource ==
    /\ Linking
    /\ \E x \in reading :
       LET p == x.pair
           put == [value EXCEPT ![p[1]] = x.seen \cup {p[2]}]
       IN \/ value' = put /\ claimed' = claimed \cup {p} /\ UNCHANGED <<refused, threw>>
          \/ claimed' = claimed \cup {p} /\ refused' = refused \cup {p}
             /\ UNCHANGED <<value, threw>>
          \/ threw' = TRUE /\ value' \in {value, put} /\ UNCHANGED <<claimed, refused>>
    /\ reading' = {}
    /\ UNCHANGED <<initList, step, providers, postVars, copies, confirmed, edits, overtaken>>

linked ==
    /\ Linking /\ reading = {} /\ Pairs = {}
    /\ step' \in Following(step)
    /\ UNCHANGED <<initList, threw, providers, postVars, linkVars, serverVars, historyVars>>
-----------------------------------------------------------------------------
\* Another client changes a resource.
Edit(c, e) ==
    /\ ~Ended /\ c \in copies /\ \A x \in edits : x[2] # e
    /\ value' = [value EXCEPT ![c] = @ \cup {e}]
    /\ edits' = edits \cup {<<c, e>>}
    /\ overtaken' = IF \E x \in reading : x.pair[1] = c
                    THEN overtaken \cup {e} ELSE overtaken
    /\ UNCHANGED <<mainVars, postVars, linkVars, copies, confirmed, refused>>

Posting(f) == postResources(f) \/ Start(f) \/ addAll(f)

Toolchain ==
    \/ fetchAllProviders \/ populate \/ getResource \/ updateResource \/ linked
    \/ \E f \in AllFactories : Posting(f)
    \/ \E r \in Resources : createResource(r)

Next == Toolchain \/ \E c \in Copies, e \in Edits : Edit(c, e)

Spec == Init /\ [][Next]_vars

\* Threads run.  Every request is answered or fails in the end: this is up to the servers,
\* as the client has no timeouts.
FairSpec == Spec /\ WF_vars(Toolchain)
-----------------------------------------------------------------------------
(***************************************************************************)
(* Properties.                                                             *)
(***************************************************************************)
\* populate() returns the links of all resources that the servers said they had created,
\* whatever happened to the POSTs of others, and of each resource one, however often it
\* was posted.
ListsAreExact ==
    \A n \in 1..(step - 1) : Runs(n) /\ Program[n].kind = Program[n].target =>
        LET k == Program[n].kind
        IN /\ list[k] = {c \in confirmed : c[1][1] = k}
           /\ \A c, d \in list[k] : c[1] = d[1] => c = d

\* Where both ends exist links are made, pair by pair: after the step of main there are as
\* many as the shorter list has members, none has two, and each that is said to be created
\* is on the server unless it refused the update.
LinksMatchUp ==
    \A n \in 1..(step - 1) : Runs(n) /\ Program[n].kind # Program[n].target =>
        LET k == Program[n].kind
            t == Program[n].target
            L == {p \in claimed : p[1][1][1] = k}
        IN /\ Cardinality(L) = Min({Cardinality(list[k]), Cardinality(list[t])})
           /\ \A p, q \in L : p[1] = q[1] \/ p[2] = q[2] => p = q
           /\ \A p \in L : p[2] \in value[p[1]] \/ p \in refused

\* A change by another client is lost only if it came between the reading and the update
\* of the resource.
EditsAreKept == \A x \in edits : x[2] \in value[x[1]] \/ x[2] \in overtaken

\* main ends: retries end, and coroutines that block threads do not wait for each other.
Ends == <>Ended
===============================================================================
