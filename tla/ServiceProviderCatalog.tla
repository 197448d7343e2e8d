-------------------------- MODULE ServiceProviderCatalog --------------------------
(***************************************************************************)
(* The service provider catalog, one and the same class in all four        *)
(* servers: a static catalog and a static map of the service providers,    *)
(* filled from the list of the delegate when a request first asks for one. *)
(* Two monitors guard them: that of the class (initServiceProviders is     *)
(* static synchronized) and that of the map "serviceProviders".  A request *)
(* for the catalog or for the collection takes the first and, to register, *)
(* the second; a request for one service provider takes the second and, if *)
(* it finds none, the first.                                               *)
(***************************************************************************)
EXTENDS Naturals, Sequences, FiniteSets

CONSTANTS Requests,  \* the requests of a behaviour, each with its own thread
          Infos,     \* getServiceProviderInfos: the identifiers, as an array
          Unknown,   \* identifiers that requests ask for and no provider has
          Nobody     \* the owner of a free monitor

Known == {Infos[i] : i \in DOMAIN Infos}
Identifiers == Known \cup Unknown
Lists == {"catalog", "collection"}

ASSUME CatalogAssumption ==
    /\ Infos \in Seq(Known)
    /\ \A i, j \in DOMAIN Infos : Infos[i] = Infos[j] => i = j
    /\ Unknown \cap Known = {} /\ Lists \cap Identifiers = {}
    /\ Nobody \notin Requests

VARIABLES
    catalog,    \* the service providers in serviceProviderCatalog, as added
    providers,  \* the keys of serviceProviders
    classLock,  \* who owns the monitor of the class
    mapLock,    \* who owns the monitor of serviceProviders
    pc,         \* pc[r]: what request r does next
    wanted,     \* wanted[r]: the identifier in the path, or which list r asks for
    info,       \* info[r]: the position of r in the loop over Infos
    answer      \* answer[r]: HTTP status and the identifiers in the answer

locks == <<classLock, mapLock>>
vars == <<catalog, providers, classLock, mapLock, pc, wanted, info, answer>>

NoAnswer == [status |-> 0, list |-> {}]

Init ==
    /\ catalog = <<>> /\ providers = {}
    /\ classLock = Nobody /\ mapLock = Nobody
    /\ pc = [r \in Requests |-> "new"]
    /\ wanted \in [Requests -> Lists \cup Identifiers]
    /\ info = [r \in Requests |-> 1]
    /\ answer = [r \in Requests |-> NoAnswer]

Goto(r, step) == pc' = [pc EXCEPT ![r] = step]

Answer(r, status, list) ==
    /\ Goto(r, "done")
    /\ answer' = [answer EXCEPT ![r] = [status |-> status, list |-> list]]

\* containsServiceProvider
Contains(id) == id \in providers
-----------------------------------------------------------------------------
(***************************************************************************)
(* The endpoints of ServiceProviderCatalogService and                      *)
(* ServiceProviderService.                                                 *)
(***************************************************************************)
getServiceProviderCatalog(r) == wanted[r] = "catalog" /\ Goto(r, "init")
getServiceProviders(r) == wanted[r] = "collection" /\ Goto(r, "init")
getServiceProvider(r) == wanted[r] \in Identifiers /\ Goto(r, "lookup")

Receive(r) ==
    /\ pc[r] = "new"
    /\ getServiceProviderCatalog(r) \/ getServiceProviders(r) \/ getServiceProvider(r)
    /\ UNCHANGED <<catalog, providers, locks, wanted, info, answer>>

\* Mutant of Lookup: the service provider it finds is not returned.
LookupUnanswered(r) ==
    /\ pc[r] = "lookup"
    /\ mapLock = Nobody
    /\ IF Contains(wanted[r]) THEN Goto(r, "done") /\ UNCHANGED mapLock
       ELSE Goto(r, "init") /\ mapLock' = r
    /\ UNCHANGED <<catalog, providers, classLock, wanted, info, answer>>

\* getServiceProvider enters the monitor of the map and looks the identifier up.
Lookup(r) ==
    /\ pc[r] = "lookup"
    /\ mapLock = Nobody
    /\ IF Contains(wanted[r])
       THEN Answer(r, 200, {wanted[r]}) /\ UNCHANGED mapLock
       ELSE Goto(r, "init") /\ mapLock' = r /\ UNCHANGED answer
    /\ UNCHANGED <<catalog, providers, classLock, wanted, info>>

\* Mutant of EnterInit: initServiceProviders is not synchronized.
EnterInitUnsynchronized(r) ==
    /\ pc[r] = "init"
    /\ Goto(r, "check")
    /\ UNCHANGED <<catalog, providers, locks, wanted, info, answer>>

\* initServiceProviders, for all endpoints: enter the monitor of the class.
EnterInit(r) ==
    /\ pc[r] = "init"
    /\ classLock = Nobody
    /\ classLock' = r
    /\ Goto(r, "check")
    /\ UNCHANGED <<catalog, providers, mapLock, wanted, info, answer>>

\* Is the next service provider of the list registered?  The map is read without
\* its monitor.
CheckInfo(r) ==
    /\ pc[r] = "check"
    /\ info[r] \in DOMAIN Infos
    /\ IF Contains(Infos[info[r]])
       THEN info' = [info EXCEPT ![r] = @ + 1] /\ UNCHANGED pc
       ELSE Goto(r, "register") /\ UNCHANGED info
    /\ UNCHANGED <<catalog, providers, locks, wanted, answer>>

\* IllegalArgumentException, which initServiceProviders makes a 500; all monitors
\* of r are left.
AlreadyRegistered(r) ==
    /\ Answer(r, 500, {})
    /\ classLock' = IF classLock = r THEN Nobody ELSE classLock
    /\ mapLock' = IF mapLock = r THEN Nobody ELSE mapLock

\* register looks first, again without the monitor of the map.
Register(r) ==
    /\ pc[r] = "register"
    /\ IF Contains(Infos[info[r]]) THEN AlreadyRegistered(r)
       ELSE Goto(r, "enter") /\ UNCHANGED <<locks, answer>>
    /\ UNCHANGED <<catalog, providers, wanted, info>>

\* register enters the monitor of the map, which getServiceProvider already has.
EnterMap(r) ==
    /\ pc[r] = "enter"
    /\ mapLock \in {Nobody, r}
    /\ mapLock' = r
    /\ Goto(r, "add")
    /\ UNCHANGED <<catalog, providers, classLock, wanted, info, answer>>

\* register looks again; registerNoSync adds to the catalog.
AddToCatalog(r) ==
    /\ pc[r] = "add"
    /\ IF Contains(Infos[info[r]])
       THEN AlreadyRegistered(r) /\ UNCHANGED catalog
       ELSE /\ catalog' = Append(catalog, Infos[info[r]])
            /\ Goto(r, "put")
            /\ UNCHANGED <<locks, answer>>
    /\ UNCHANGED <<providers, wanted, info>>

\* Mutant of PutProvider: the put is forgotten.
PutProviderForgotten(r) ==
    /\ pc[r] = "put"
    /\ mapLock' = IF wanted[r] \in Identifiers THEN r ELSE Nobody
    /\ info' = [info EXCEPT ![r] = @ + 1]
    /\ Goto(r, "check")
    /\ UNCHANGED <<catalog, providers, classLock, wanted, answer>>

\* registerNoSync puts into the map; the monitor is left unless getServiceProvider
\* entered it before.
PutProvider(r) ==
    /\ pc[r] = "put"
    /\ providers' = providers \cup {Infos[info[r]]}
    /\ mapLock' = IF wanted[r] \in Identifiers THEN r ELSE Nobody
    /\ info' = [info EXCEPT ![r] = @ + 1]
    /\ Goto(r, "check")
    /\ UNCHANGED <<catalog, classLock, wanted, answer>>

\* Mutant of LeaveInit: the last service provider of the list is left out.
LeaveInitEarly(r) ==
    /\ pc[r] = "check"
    /\ info[r] >= Len(Infos)
    /\ classLock' = Nobody
    /\ Goto(r, "read")
    /\ UNCHANGED <<catalog, providers, mapLock, wanted, info, answer>>

\* The end of initServiceProviders.
LeaveInit(r) ==
    /\ pc[r] = "check"
    /\ info[r] \notin DOMAIN Infos
    /\ classLock' = Nobody
    /\ Goto(r, "read")
    /\ UNCHANGED <<catalog, providers, mapLock, wanted, info, answer>>

Listed == {catalog[i] : i \in DOMAIN catalog}

\* Mutant of Read: getServiceProvider retries until there is something to return.
ReadUntilFound(r) ==
    /\ pc[r] = "read"
    /\ wanted[r] \in Lists \cup providers
    /\ Answer(r, 200, IF wanted[r] = "catalog" THEN Listed
                      ELSE IF wanted[r] = "collection" THEN providers ELSE {wanted[r]})
    /\ mapLock' = IF wanted[r] \in Lists THEN mapLock ELSE Nobody
    /\ UNCHANGED <<catalog, providers, classLock, wanted, info>>

\* The catalog and the collection are read outside the monitors; getServiceProvider
\* looks the identifier up again and leaves the monitor of the map.
Read(r) ==
    /\ pc[r] = "read"
    /\ \/ wanted[r] = "catalog" /\ Answer(r, 200, Listed) /\ UNCHANGED mapLock
       \/ wanted[r] = "collection" /\ Answer(r, 200, providers) /\ UNCHANGED mapLock
       \/ /\ wanted[r] \in Identifiers
          /\ IF Contains(wanted[r]) THEN Answer(r, 200, {wanted[r]}) ELSE Answer(r, 404, {})
          /\ mapLock' = Nobody
    /\ UNCHANGED <<catalog, providers, classLock, wanted, info>>

Step(r) ==
    \/ Lookup(r) \/ EnterInit(r) \/ CheckInfo(r) \/ Register(r) \/ EnterMap(r)
    \/ AddToCatalog(r) \/ PutProvider(r) \/ LeaveInit(r) \/ Read(r)

Next == \E r \in Requests : Receive(r) \/ Step(r)

Spec == Init /\ [][Next]_vars

\* Threads run on; monitors need not be fair, as each request enters them once.
FairSpec == Spec /\ \A r \in Requests : WF_vars(Step(r))
-----------------------------------------------------------------------------
(***************************************************************************)
(* Properties.                                                             *)
(***************************************************************************)
Steps == {"new", "lookup", "init", "check", "register", "enter", "add", "put",
          "read", "done"}

InInit(r) == pc[r] \in {"check", "register", "enter", "add", "put"}
Registering(r) == pc[r] \in {"add", "put"}

\* The identifiers that are in the catalog and not yet in the map.
Putting == {Infos[info[r]] : r \in {q \in Requests : pc[q] = "put"}}

\* Every variable has values of its type; a status says that a request is done.
TypeOK ==
    /\ catalog \in Seq(Known)
    /\ providers \subseteq Known
    /\ classLock \in Requests \cup {Nobody}
    /\ mapLock \in Requests \cup {Nobody}
    /\ pc \in [Requests -> Steps]
    /\ wanted \in [Requests -> Lists \cup Identifiers]
    /\ info \in [Requests -> 1..(Len(Infos) + 1)]
    /\ answer \in [Requests -> [status : {0, 200, 404, 500}, list : SUBSET Known]]
    /\ \A r \in Requests : (pc[r] = "done") <=> (answer[r].status # 0)

\* Every service provider is registered once, and the catalog agrees with the map
\* except while a registration is under way: registerNoSync of two first requests
\* never runs for the same provider.
RegisteredOnce ==
    /\ \A i, j \in DOMAIN catalog : catalog[i] = catalog[j] => i = j
    /\ Listed = providers \cup Putting

\* Catalog and map are plain collections that are read outside the monitor of the
\* map (contains, toArray, writing out the catalog): no other request ever is where
\* it reads or writes them while one is about to write.
NoRacyAccess ==
    \A r, q \in Requests :
        Registering(r) /\ q # r => pc[q] \notin {"check", "register", "add", "put", "read"}

\* No first request sees a part of the list or fails because of another: a list has
\* all service providers, each of which is found, and only others are a 404.
AnswersComplete ==
    \A r \in Requests : pc[r] = "done" =>
        IF wanted[r] \in Unknown THEN answer[r] = [status |-> 404, list |-> {}]
        ELSE answer[r] = [status |-> 200,
                          list |-> IF wanted[r] \in Lists THEN Known ELSE {wanted[r]}]

\* Once the service providers are registered, every request returns.
LaterCallsReturn ==
    \A r \in Requests : (providers = Known /\ pc[r] # "new") ~> (pc[r] = "done")

\* "The registered service providers are refreshed on each catalog or service
\* provider collection request": each such request returns the list.
RefreshedOnEachRequest ==
    \A r \in Requests :
        (pc[r] # "new" /\ wanted[r] \in Lists) ~> (pc[r] = "done" /\ answer[r].list = Known)
===============================================================================
