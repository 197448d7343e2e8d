----------------------- MODULE ServiceProviderCatalog_proofs -----------------------
(***************************************************************************)
(* Proofs about the service provider catalog, for any number of requests   *)
(* and service providers.  The inductive invariant says who owns the two   *)
(* monitors at each step (LockInv) and what a request knows of the map     *)
(* while it owns them (LoopInv): the providers before its position in the  *)
(* loop are registered, the one it is about to register is not.            *)
(***************************************************************************)
EXTENDS ServiceProviderCatalog, TLAPS

\* The steps at which a request owns the monitor of the map.
HasMap(r) ==
    \/ pc[r] \in {"add", "put"}
    \/ wanted[r] \in Identifiers /\ pc[r] \in {"init", "check", "register", "enter", "read"}

LockInv ==
    /\ \A r \in Requests : InInit(r) <=> classLock = r
    /\ \A r \in Requests : HasMap(r) <=> mapLock = r
    /\ \A r \in Requests : pc[r] = "lookup" => wanted[r] \in Identifiers

\* What request r knows about the map.
LoopOf(r) ==
    /\ pc[r] \in {"new", "lookup", "init"} => info[r] = 1
    /\ InInit(r) => \A i \in DOMAIN Infos : i < info[r] => Infos[i] \in providers
    /\ pc[r] \in {"register", "enter", "add", "put"} =>
           info[r] \in DOMAIN Infos /\ Infos[info[r]] \notin providers
    /\ pc[r] = "read" => providers = Known

LoopInv == \A r \in Requests : LoopOf(r)

IInv == TypeOK /\ LockInv /\ LoopInv /\ RegisteredOnce /\ AnswersComplete

-----------------------------------------------------------------------------
\* The list of the delegate as a sequence.
LEMMA InfosType == Len(Infos) \in Nat /\ DOMAIN Infos = 1..Len(Infos)
                   /\ \A i \in DOMAIN Infos : Infos[i] \in Known
  BY CatalogAssumption DEF Known

LEMMA InitIInv == Init => IInv
<1> SUFFICES ASSUME Init PROVE IInv
  OBVIOUS
<1> USE InfosType, CatalogAssumption DEF Init
<1>1. TypeOK
  BY DEF TypeOK, Steps, NoAnswer
<1>2. LockInv
  BY DEF LockInv, InInit, HasMap
<1>3. LoopInv
  BY DEF LoopInv, LoopOf, InInit
<1>4. RegisteredOnce
  BY DEF RegisteredOnce, Listed, Putting
<1>5. AnswersComplete
  BY DEF AnswersComplete
<1> QED
  BY <1>1, <1>2, <1>3, <1>4, <1>5 DEF IInv

-----------------------------------------------------------------------------
\* Neither exception of register is ever thrown: one request registers at a time,
\* and it has just looked.
LEMMA NeverAlreadyRegistered ==
    ASSUME IInv, NEW r \in Requests, pc[r] \in {"register", "add"}
    PROVE ~Contains(Infos[info[r]])
  BY DEF IInv, LoopInv, LoopOf, Contains

\* A request in the loop shares it with no other.
LEMMA OneInLoop ==
    ASSUME IInv, NEW r \in Requests, NEW q \in Requests, InInit(r), q # r
    PROVE ~InInit(q) /\ pc[q] # "add" /\ pc[q] # "put"
  BY DEF IInv, LockInv, InInit

\* A step of r that does not answer.
LEMMA MovesOn ==
    ASSUME TypeOK, NEW r \in Requests, NEW s \in Steps, s # "done", pc[r] # "done",
           Goto(r, s), UNCHANGED <<wanted, answer>>
    PROVE /\ pc' \in [Requests -> Steps]
          /\ wanted' \in [Requests -> Lists \cup Identifiers]
          /\ answer' \in [Requests -> [status : {0, 200, 404, 500}, list : SUBSET Known]]
          /\ \A q \in Requests : (pc'[q] = "done") <=> (answer'[q].status # 0)
<1>1. pc' \in [Requests -> Steps] /\ \A q \in Requests : pc'[q] = IF q = r THEN s ELSE pc[q]
  BY DEF TypeOK, Goto
<1> QED
  BY <1>1 DEF TypeOK

\* A step of r that answers.
LEMMA Answers ==
    ASSUME TypeOK, NEW r \in Requests, NEW status \in {200, 404, 500},
           NEW list \in SUBSET Known, Answer(r, status, list), UNCHANGED wanted
    PROVE /\ pc' \in [Requests -> Steps]
          /\ wanted' \in [Requests -> Lists \cup Identifiers]
          /\ answer' \in [Requests -> [status : {0, 200, 404, 500}, list : SUBSET Known]]
          /\ \A q \in Requests : (pc'[q] = "done") <=> (answer'[q].status # 0)
<1>1. /\ pc' \in [Requests -> Steps]
      /\ \A q \in Requests : pc'[q] = IF q = r THEN "done" ELSE pc[q]
  BY DEF TypeOK, Goto, Answer, Steps
<1>2. /\ answer' \in [Requests -> [status : {0, 200, 404, 500}, list : SUBSET Known]]
      /\ \A q \in Requests \ {r} : answer'[q] = answer[q]
      /\ answer'[r].status = status
  BY DEF TypeOK, Answer
<1> QED
  BY <1>1, <1>2 DEF TypeOK

\* The types of the variables after each step.
LEMMA TypeStep == ASSUME IInv, NEW r \in Requests, Receive(r) \/ Step(r) PROVE TypeOK'
<1> USE InfosType
<1>0. TypeOK /\ LoopInv
  BY DEF IInv
<1>1. CASE Receive(r)
  BY <1>0, <1>1, MovesOn DEF Receive, getServiceProviderCatalog, getServiceProviders,
        getServiceProvider, locks, TypeOK, Steps
<1>2. CASE Lookup(r)
  BY <1>0, <1>2, MovesOn, Answers DEF Lookup, Contains, TypeOK, Steps
<1>3. CASE EnterInit(r)
  BY <1>0, <1>3, MovesOn DEF EnterInit, TypeOK, Steps
<1>4. CASE CheckInfo(r)
  <2>1. CASE Contains(Infos[info[r]])
    <3>1. /\ info[r] \in DOMAIN Infos /\ info' = [info EXCEPT ![r] = @ + 1]
          /\ UNCHANGED <<catalog, providers, locks, pc, wanted, answer>>
      BY <1>4, <2>1 DEF CheckInfo
    <3>2. info' \in [Requests -> 1..(Len(Infos) + 1)]
      BY <1>0, <3>1 DEF TypeOK
    <3> QED
      BY <1>0, <3>1, <3>2 DEF locks, TypeOK
  <2>2. CASE ~Contains(Infos[info[r]])
    BY <1>0, <1>4, <2>2, MovesOn DEF CheckInfo, locks, TypeOK, Steps
  <2> QED
    BY <2>1, <2>2
<1>5. CASE Register(r)
  BY <1>0, <1>5, NeverAlreadyRegistered, MovesOn DEF Register, locks, TypeOK, Steps
<1>6. CASE EnterMap(r)
  BY <1>0, <1>6, MovesOn DEF EnterMap, TypeOK, Steps
<1>7. CASE AddToCatalog(r)
  <2>1. Infos[info[r]] \in Known
    BY <1>0, <1>7 DEF AddToCatalog, LoopInv, LoopOf
  <2>2. Append(catalog, Infos[info[r]]) \in Seq(Known)
    BY <1>0, <2>1 DEF TypeOK
  <2>3. /\ catalog' = Append(catalog, Infos[info[r]]) /\ Goto(r, "put") /\ pc[r] = "add"
        /\ UNCHANGED <<providers, locks, wanted, info, answer>>
    BY <1>7, NeverAlreadyRegistered DEF AddToCatalog
  <2> QED
    BY <1>0, <2>2, <2>3, MovesOn DEF locks, TypeOK, Steps
<1>8. CASE PutProvider(r)
  <2>1. info[r] \in DOMAIN Infos /\ Infos[info[r]] \in Known
    BY <1>0, <1>8 DEF PutProvider, LoopInv, LoopOf
  <2>2. info' \in [Requests -> 1..(Len(Infos) + 1)]
    BY <1>0, <1>8, <2>1 DEF PutProvider, TypeOK
  <2> QED
    BY <1>0, <1>8, <2>1, <2>2, MovesOn DEF PutProvider, TypeOK, Steps
<1>9. CASE LeaveInit(r)
  BY <1>0, <1>9, MovesOn DEF LeaveInit, TypeOK, Steps
<1>10. CASE Read(r)
  BY <1>0, <1>10, Answers DEF Read, Listed, Contains, TypeOK
<1> QED
  BY <1>1, <1>2, <1>3, <1>4, <1>5, <1>6, <1>7, <1>8, <1>9, <1>10 DEF Step

\* The owners of the monitors after each step.
LEMMA LockStep == ASSUME IInv, NEW r \in Requests, Receive(r) \/ Step(r) PROVE LockInv'
<1> USE CatalogAssumption DEF LockInv, InInit, HasMap, Goto
<1>0. LockInv /\ TypeOK
  BY DEF IInv
<1> USE DEF TypeOK
<1>1. CASE Receive(r)
  BY <1>0, <1>1 DEF Receive, getServiceProviderCatalog, getServiceProviders,
        getServiceProvider, locks, Lists
<1>2. CASE Lookup(r)
  BY <1>0, <1>2 DEF Lookup, Answer
<1>3. CASE EnterInit(r)
  BY <1>0, <1>3 DEF EnterInit
<1>4. CASE CheckInfo(r)
  <2>1. pc[r] = "check" /\ (UNCHANGED pc \/ pc' = [pc EXCEPT ![r] = "register"])
    BY <1>4 DEF CheckInfo
  <2>2. UNCHANGED <<classLock, mapLock, wanted>>
    BY <1>4 DEF CheckInfo, locks
  <2> QED
    BY <1>0, <2>1, <2>2
<1>5. CASE Register(r)
  <2>1. pc[r] = "register" /\ pc' = [pc EXCEPT ![r] = "enter"]
    BY <1>5, NeverAlreadyRegistered DEF Register
  <2>2. UNCHANGED <<classLock, mapLock, wanted>>
    BY <1>5, NeverAlreadyRegistered DEF Register, locks
  <2> QED
    BY <1>0, <2>1, <2>2
<1>6. CASE EnterMap(r)
  BY <1>0, <1>6 DEF EnterMap
<1>7. CASE AddToCatalog(r)
  BY <1>0, <1>7, NeverAlreadyRegistered DEF AddToCatalog, locks
<1>8. CASE PutProvider(r)
  BY <1>0, <1>8 DEF PutProvider
<1>9. CASE LeaveInit(r)
  BY <1>0, <1>9 DEF LeaveInit
<1>10. CASE Read(r)
  <2>1. pc[r] = "read" /\ pc' = [pc EXCEPT ![r] = "done"] /\ UNCHANGED <<classLock, wanted>>
    BY <1>10 DEF Read, Answer
  <2>2. mapLock' = IF wanted[r] \in Identifiers THEN Nobody ELSE mapLock
    BY <1>10 DEF Read, Lists
  <2> QED
    BY <1>0, <2>1, <2>2
<1> QED
  BY <1>1, <1>2, <1>3, <1>4, <1>5, <1>6, <1>7, <1>8, <1>9, <1>10 DEF Step

\* What the requests know of the map after each step.
LEMMA LoopStep == ASSUME IInv, NEW r \in Requests, Receive(r) \/ Step(r) PROVE LoopInv'
<1> USE InfosType, CatalogAssumption DEF LoopInv, LoopOf, InInit, Goto
<1>0. LoopInv /\ LockInv /\ TypeOK
  BY DEF IInv
<1> USE DEF TypeOK
<1>1. CASE Receive(r)
  BY <1>0, <1>1 DEF Receive, getServiceProviderCatalog, getServiceProviders,
        getServiceProvider, locks
<1>2. CASE Lookup(r)
  BY <1>0, <1>2 DEF Lookup, Answer
<1>3. CASE EnterInit(r)
  BY <1>0, <1>3 DEF EnterInit
<1>4. CASE CheckInfo(r)
  BY <1>0, <1>4 DEF CheckInfo, Contains
<1>5. CASE Register(r)
  BY <1>0, <1>5, NeverAlreadyRegistered DEF Register
<1>6. CASE EnterMap(r)
  BY <1>0, <1>6 DEF EnterMap
<1>7. CASE AddToCatalog(r)
  BY <1>0, <1>7, NeverAlreadyRegistered DEF AddToCatalog
<1>8. CASE PutProvider(r)
  <2>1. info[r] \in DOMAIN Infos /\ providers' = providers \cup {Infos[info[r]]}
    BY <1>0, <1>8 DEF PutProvider
  <2>2. ASSUME NEW q \in Requests, q # r PROVE ~InInit(q) /\ pc'[q] = pc[q] /\ info'[q] = info[q]
    <3>1. InInit(r)
      BY <1>8 DEF PutProvider
    <3>2. ~InInit(q)
      BY <2>2, <3>1, OneInLoop
    <3> QED
      BY <1>0, <1>8, <2>2, <3>2 DEF PutProvider
  <2>3. providers \cup {Infos[info[r]]} \subseteq Known
    BY <1>0, <2>1
  <2>4. pc'[r] = "check" /\ info'[r] = info[r] + 1
    BY <1>0, <1>8 DEF PutProvider
  <2> QED
    <3> SUFFICES ASSUME NEW q \in Requests PROVE LoopOf(q)'
      BY DEF LoopInv
    <3>1. CASE q = r
      <4>1. \A i \in DOMAIN Infos : i < info[r] + 1 => Infos[i] \in providers'
        <5>1. \A i \in DOMAIN Infos : i < info[r] => Infos[i] \in providers
          BY <1>0, <1>8 DEF PutProvider
        <5> QED
          BY <2>1, <5>1
      <4> QED
        BY <2>4, <3>1, <4>1
    <3>2. CASE q # r
      BY <1>0, <2>1, <2>2, <2>3, <3>2
    <3> QED
      BY <3>1, <3>2
<1>9. CASE LeaveInit(r)
  <2>1. Known \subseteq providers
    <3>1. info[r] = Len(Infos) + 1 /\ pc[r] = "check"
      BY <1>0, <1>9 DEF LeaveInit
    <3>2. \A i \in DOMAIN Infos : Infos[i] \in providers
      BY <1>0, <3>1
    <3> QED
      BY <3>2 DEF Known
  <2>2. providers = Known
    <3>1. providers \subseteq Known
      BY <1>0
    <3> QED
      BY <2>1, <3>1, Zenon
  <2>3. /\ pc' = [pc EXCEPT ![r] = "read"] /\ UNCHANGED <<providers, info>>
        /\ info[r] # 1 \/ pc[r] = "check"
    BY <1>9 DEF LeaveInit
  <2> QED
    BY <1>0, <2>2, <2>3
<1>10. CASE Read(r)
  BY <1>0, <1>10 DEF Read, Answer
<1> QED
  BY <1>1, <1>2, <1>3, <1>4, <1>5, <1>6, <1>7, <1>8, <1>9, <1>10 DEF Step

\* Catalog and map after each step.
LEMMA RegisteredStep ==
    ASSUME IInv, NEW r \in Requests, Receive(r) \/ Step(r)
    PROVE RegisteredOnce'
<1> USE InfosType, CatalogAssumption DEF Goto
<1>0. RegisteredOnce /\ LoopInv /\ LockInv /\ TypeOK
  BY DEF IInv
<1> USE DEF TypeOK
<1>1. CASE AddToCatalog(r)
  <2>1. catalog' = Append(catalog, Infos[info[r]]) /\ pc' = [pc EXCEPT ![r] = "put"]
        /\ providers' = providers /\ info' = info
    BY <1>0, <1>1, NeverAlreadyRegistered DEF AddToCatalog
  <2>2. Infos[info[r]] \notin providers /\ Putting = {}
    BY <1>0, <1>1, OneInLoop DEF AddToCatalog, LoopInv, LoopOf, InInit, Putting
  <2>3. Listed = providers
    BY <1>0, <2>2 DEF RegisteredOnce
  <2>4. /\ Len(catalog') = Len(catalog) + 1 /\ DOMAIN catalog' = 1..Len(catalog')
        /\ DOMAIN catalog = 1..Len(catalog) /\ Len(catalog) \in Nat
        /\ \A i \in DOMAIN catalog : catalog'[i] = catalog[i]
        /\ catalog'[Len(catalog')] = Infos[info[r]]
    BY <1>0, <1>1, <2>1, NeverAlreadyRegistered DEF AddToCatalog, LoopInv, LoopOf
  <2>5. Listed' = Listed \cup {Infos[info[r]]}
    <3>1. \A x : x \in Listed' <=> \E i \in DOMAIN catalog' : x = catalog'[i]
      BY DEF Listed
    <3>2. \A x : x \in Listed <=> \E i \in DOMAIN catalog : x = catalog[i]
      BY DEF Listed
    <3>3. \A i \in DOMAIN catalog' : i \in DOMAIN catalog \/ i = Len(catalog')
      BY <2>4
    <3>4. Len(catalog') \in DOMAIN catalog' /\ DOMAIN catalog \subseteq DOMAIN catalog'
      BY <2>4
    <3>5. /\ \A i \in DOMAIN catalog : catalog'[i] = catalog[i]
          /\ catalog'[Len(catalog')] = Infos[info[r]]
      BY <2>4
    <3> QED
      <4>1. ASSUME NEW x \in Listed' PROVE x \in Listed \/ x = Infos[info[r]]
        <5>1. PICK i \in DOMAIN catalog' : x = catalog'[i]
          BY <3>1, <4>1, Zenon
        <5>2. CASE i = Len(catalog')
          BY <3>5, <5>1, <5>2, Zenon
        <5>3. CASE i \in DOMAIN catalog
          <6>1. x = catalog[i]
            BY <3>5, <5>1, <5>3, Zenon
          <6> QED
            BY <3>2, <5>3, <6>1, Zenon
        <5> QED
          BY <3>3, <5>2, <5>3, Zenon
      <4>2. ASSUME NEW x \in Listed PROVE x \in Listed'
        <5>1. PICK i \in DOMAIN catalog : x = catalog[i]
          BY <3>2, <4>2
        <5>2. i \in DOMAIN catalog' /\ x = catalog'[i]
          BY <3>4, <3>5, <5>1, Zenon
        <5> QED
          BY <3>1, <5>2, Zenon
      <4>3. Infos[info[r]] \in Listed'
        BY <3>1, <3>4, <3>5, Zenon
      <4> QED
        BY <4>1, <4>2, <4>3, Zenon
  <2>6. Putting' = {Infos[info[r]]}
    BY <1>0, <1>1, <2>1, <2>2, OneInLoop DEF AddToCatalog, InInit, Putting
  <2>7. \A i, j \in DOMAIN catalog' : catalog'[i] = catalog'[j] => i = j
    <3>1. \A i \in DOMAIN catalog : catalog[i] # Infos[info[r]]
      BY <2>2, <2>3 DEF Listed
    <3>2. \A i, j \in DOMAIN catalog : catalog[i] = catalog[j] => i = j
      BY <1>0 DEF RegisteredOnce
    <3>3. \A i \in DOMAIN catalog' : i \in DOMAIN catalog \/ i = Len(catalog')
      BY <2>4
    <3> QED
      BY <2>4, <3>1, <3>2, <3>3, Zenon
  <2> QED
    BY <2>1, <2>3, <2>5, <2>6, <2>7 DEF RegisteredOnce
<1>2. CASE PutProvider(r)
  <2>1. catalog' = catalog /\ providers' = providers \cup {Infos[info[r]]}
        /\ pc' = [pc EXCEPT ![r] = "check"]
    BY <1>2 DEF PutProvider
  <2>2. Putting = {Infos[info[r]]} /\ Putting' = {}
    BY <1>0, <1>2, <2>1, OneInLoop DEF PutProvider, InInit, Putting
  <2> QED
    BY <1>0, <2>1, <2>2 DEF RegisteredOnce, Listed
<1>3. CASE /\ ~AddToCatalog(r) /\ ~PutProvider(r)
  <2>1. /\ UNCHANGED <<catalog, providers>>
        /\ \A q \in Requests : (pc[q] = "put") <=> (pc'[q] = "put")
        /\ \A q \in Requests : pc[q] = "put" => info'[q] = info[q]
    BY <1>0, <1>3, NeverAlreadyRegistered DEF Step, Receive, Lookup, EnterInit, CheckInfo,
        Register, EnterMap, LeaveInit, Read, Answer, getServiceProviderCatalog,
        getServiceProviders, getServiceProvider
  <2>2. Putting' = Putting
    BY <2>1 DEF Putting
  <2> QED
    BY <1>0, <2>1, <2>2 DEF RegisteredOnce, Listed
<1> QED
  BY <1>1, <1>2, <1>3

\* The answers after each step.
LEMMA AnswersStep ==
    ASSUME IInv, NEW r \in Requests, Receive(r) \/ Step(r)
    PROVE AnswersComplete'
<1> USE CatalogAssumption DEF AnswersComplete, Identifiers
<1>0. AnswersComplete /\ RegisteredOnce /\ LoopInv /\ TypeOK
  BY DEF IInv
<1>a. ASSUME NEW status, NEW list, Answer(r, status, list), UNCHANGED wanted,
             wanted[r] \in Unknown => status = 404 /\ list = {},
             wanted[r] \notin Unknown => /\ status = 200
                                        /\ list = IF wanted[r] \in Lists THEN Known ELSE {wanted[r]}
      PROVE AnswersComplete'
  <2>1. \A q \in Requests \ {r} : pc'[q] = pc[q] /\ answer'[q] = answer[q]
    BY <1>0, <1>a DEF Answer, Goto, TypeOK
  <2>2. answer'[r] = [status |-> status, list |-> list]
    BY <1>0, <1>a DEF Answer, TypeOK
  <2> SUFFICES ASSUME NEW q \in Requests, pc'[q] = "done"
               PROVE IF wanted[q] \in Unknown THEN answer'[q] = [status |-> 404, list |-> {}]
                     ELSE answer'[q] = [status |-> 200, list |->
                                        IF wanted[q] \in Lists THEN Known ELSE {wanted[q]}]
    BY <1>a
  <2>3. CASE q = r
    BY <1>a, <2>2, <2>3
  <2>4. CASE q # r
    BY <1>0, <2>1, <2>4
  <2> QED
    BY <2>3, <2>4
<1>1. CASE Lookup(r)
  <2>1. CASE Contains(wanted[r])
    <3>1. wanted[r] \notin Unknown /\ wanted[r] \notin Lists
      BY <1>0, <2>1 DEF Contains, TypeOK
    <3>2. Answer(r, 200, {wanted[r]}) /\ UNCHANGED wanted
      BY <1>1, <2>1 DEF Lookup
    <3> QED
      BY <3>1, <3>2, <1>a
  <2>2. CASE ~Contains(wanted[r])
    BY <1>0, <1>1, <2>2 DEF Lookup, Goto, TypeOK
  <2> QED
    BY <2>1, <2>2
<1>2. CASE Read(r)
  <2>1. providers = Known
    BY <1>0, <1>2 DEF Read, LoopInv, LoopOf
  <2>2. Listed = Known
    <3>1. \A q \in Requests : pc[q] # "put"
      BY <1>0, <2>1, InfosType DEF LoopInv, LoopOf
    <3> QED
      BY <1>0, <2>1, <3>1 DEF RegisteredOnce, Putting
  <2> QED
    <3>1. wanted[r] \in Lists \cup Known \cup Unknown /\ UNCHANGED wanted
      BY <1>0, <1>2 DEF Read, TypeOK
    <3>2. CASE wanted[r] \in Lists
      BY <1>2, <1>a, <2>1, <2>2, <3>1, <3>2 DEF Read
    <3>3. CASE wanted[r] \in Known
      BY <1>2, <1>a, <2>1, <3>1, <3>3 DEF Read, Contains, Lists
    <3>4. CASE wanted[r] \in Unknown
      BY <1>2, <1>a, <2>1, <3>1, <3>4 DEF Read, Contains, Lists
    <3> QED
      BY <3>1, <3>2, <3>3, <3>4
<1>3. CASE ~Lookup(r) /\ ~Read(r)
  <2>1. /\ UNCHANGED <<answer, wanted>>
        /\ \A q \in Requests : pc'[q] = "done" => pc[q] = "done"
    BY <1>0, <1>3, NeverAlreadyRegistered DEF Step, Receive, EnterInit, CheckInfo, Register,
        EnterMap, AddToCatalog, PutProvider, LeaveInit, Goto, TypeOK,
        getServiceProviderCatalog, getServiceProviders, getServiceProvider
  <2> QED
    BY <1>0, <2>1
<1> QED
  BY <1>1, <1>2, <1>3

LEMMA NextIInv == IInv /\ [Next]_vars => IInv'
<1> SUFFICES ASSUME IInv, [Next]_vars PROVE IInv'
  OBVIOUS
<1>1. CASE \E r \in Requests : Receive(r) \/ Step(r)
  BY <1>1, TypeStep, LockStep, LoopStep, RegisteredStep, AnswersStep DEF IInv
<1>2. CASE UNCHANGED vars
  BY <1>2 DEF IInv, vars, locks, TypeOK, LockInv, LoopInv, LoopOf, RegisteredOnce,
        AnswersComplete, InInit, HasMap, Listed, Putting
<1> QED
  BY <1>1, <1>2 DEF Next

-----------------------------------------------------------------------------
\* The catalog module is type correct, and a status says that a request is done.
THEOREM TypeCorrect == Spec => []TypeOK
<1>1. IInv => TypeOK
  BY DEF IInv
<1> QED
  BY <1>1, InitIInv, NextIInv, PTL DEF Spec

\* Each service provider is registered once, in the catalog and in the map.
THEOREM RegistersOnce == Spec => []RegisteredOnce
<1>1. IInv => RegisteredOnce
  BY DEF IInv
<1> QED
  BY <1>1, InitIInv, NextIInv, PTL DEF Spec

\* Nobody reads or writes catalog and map while another request registers, although
\* three of the reads are made without the monitor of the map.
THEOREM RaceFree == Spec => []NoRacyAccess
<1>1. IInv => NoRacyAccess
  <2> SUFFICES ASSUME IInv, NEW r \in Requests, NEW q \in Requests, Registering(r), q # r
               PROVE pc[q] \notin {"check", "register", "add", "put", "read"}
    BY DEF NoRacyAccess
  <2>1. ~InInit(q)
    BY OneInLoop DEF Registering, InInit
  <2>2. pc[q] # "read"
    BY InfosType DEF IInv, LoopInv, LoopOf, Registering
  <2> QED
    BY <2>1, <2>2 DEF InInit
<1> QED
  BY <1>1, InitIInv, NextIInv, PTL DEF Spec

\* Every answer is complete, also the very first ones, and none is a 500.
THEOREM CompleteAnswers == Spec => []AnswersComplete
<1>1. IInv => AnswersComplete
  BY DEF IInv
<1> QED
  BY <1>1, InitIInv, NextIInv, PTL DEF Spec
===============================================================================
