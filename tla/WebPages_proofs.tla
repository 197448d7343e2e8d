----------------------------- MODULE WebPages_proofs -----------------------------
(***************************************************************************)
(* The scripts of the web pages: the delegated dialogs with the pages      *)
(* around them, for any resources, forms, clicks, numbers of requests and  *)
(* orders of their answers, and the previews, for any links, delays, fades *)
(* and movements of the pointer.                                           *)
(***************************************************************************)
EXTENDS UiPreview, DelegatedUi, FiniteSetTheorems, SequenceTheorems, WellFoundedInduction,
        TLAPS

\* A set that has 0 and with each number the next has all of them.
LEMMA Induction ==
  ASSUME NEW S, 0 \in S, \A n \in Nat : n \in S => n + 1 \in S
  PROVE  Nat \subseteq S
  <1> DEFINE T == Nat \ S
  <1> SUFFICES ASSUME T # {} PROVE FALSE
    OBVIOUS
  <1>1. PICK x \in T : \A y \in T : ~ (<<y, x>> \in OpToRel(<, Nat))
    BY WFMin, NatLessThanWellFounded
  <1>2. x \in Nat /\ x # 0
    OBVIOUS
  <1>3. x - 1 \in Nat
    BY <1>2
  <1>4. <<x - 1, x>> \in OpToRel(<, Nat)
    BY <1>2, <1>3 DEF OpToRel
  <1>5. x - 1 \in S
    BY <1>1, <1>3, <1>4
  <1>6. QED
    BY <1>2, <1>3, <1>5
-----------------------------------------------------------------------------
(***************************************************************************)
(* What Matching finds.                                                    *)
(***************************************************************************)
\* F counts up the members of m among the first resources of t.
Finds(F, t, m, n) ==
    F = [i \in 0..n |-> IF i = 0 THEN <<>>
                        ELSE IF t[i] \in m THEN Append(F[i - 1], t[i]) ELSE F[i - 1]]

LEMMA FindsStep ==
  ASSUME NEW F, NEW t, NEW m, NEW n \in Nat, Finds(F, t, m, n)
  PROVE  /\ F[0] = <<>>
         /\ \A i \in 1..n :
               F[i] = IF t[i] \in m THEN Append(F[i - 1], t[i]) ELSE F[i - 1]
  <1> DEFINE G == [i \in 0..n |->
                      IF i = 0 THEN <<>>
                      ELSE IF t[i] \in m THEN Append(F[i - 1], t[i]) ELSE F[i - 1]]
  <1>1. F = G
    BY DEF Finds
  <1>2. /\ G[0] = <<>>
        /\ \A i \in 1..n :
              G[i] = IF t[i] \in m THEN Append(F[i - 1], t[i]) ELSE F[i - 1]
    OBVIOUS
  <1> HIDE DEF G
  <1>3. QED
    BY <1>1, <1>2

LEMMA FindsExists ==
  ASSUME NEW t, NEW m
  PROVE  \A n \in Nat : \E F : Finds(F, t, m, n)
  <1> DEFINE N == {n \in Nat : \E F : Finds(F, t, m, n)}
  <1>1. 0 \in N
    <2> DEFINE F == [i \in 0..0 |-> <<>>]
    <2>1. Finds(F, t, m, 0)
      BY DEF Finds
    <2>2. QED
      BY <2>1
  <1>2. ASSUME NEW n \in Nat, n \in N PROVE n + 1 \in N
    <2>1. PICK F : Finds(F, t, m, n)
      BY <1>2
    <2> DEFINE G == [i \in 0..(n + 1) |->
                        IF i <= n THEN F[i]
                        ELSE IF t[i] \in m THEN Append(F[i - 1], t[i]) ELSE F[i - 1]]
    <2>2. \A i \in 0..n : G[i] = F[i]
      OBVIOUS
    <2>3. \A i \in 0..(n + 1) :
             G[i] = IF i = 0 THEN <<>>
                    ELSE IF t[i] \in m THEN Append(G[i - 1], t[i]) ELSE G[i - 1]
      <3> TAKE i \in 0..(n + 1)
      <3>1. CASE i = 0
        BY <2>1, <3>1 DEF Finds
      <3>2. CASE i \in 1..n
        <4>1. F[i] = IF t[i] \in m THEN Append(F[i - 1], t[i]) ELSE F[i - 1]
          BY <2>1, <3>2, FindsStep
        <4>2. G[i] = F[i] /\ G[i - 1] = F[i - 1] /\ i # 0
          BY <2>2, <3>2
        <4>3. QED
          BY <4>1, <4>2
      <3>3. CASE i = n + 1
        <4>1. G[i - 1] = F[i - 1]
          BY <2>2, <3>3
        <4>2. G[i] = (IF t[i] \in m THEN Append(F[i - 1], t[i]) ELSE F[i - 1]) /\ i # 0
          BY <3>3
        <4>3. QED
          BY <4>1, <4>2
      <3>4. QED
        BY <3>1, <3>2, <3>3
    <2> HIDE DEF G
    <2>4. Finds(G, t, m, n + 1)
      <3>1. G = [i \in 0..(n + 1) |-> G[i]]
        BY DEF G
      <3>2. QED
        BY <2>3, <3>1 DEF Finds
    <2>5. QED
      BY <2>4
  <1> HIDE DEF N
  <1>3. Nat \subseteq N
    BY <1>1, <1>2, Induction
  <1>4. QED
    BY <1>3 DEF N

\* Every match is found, and nothing else.
LEMMA MatchingIs ==
  ASSUME NEW t \in Seq(Items), NEW m
  PROVE  /\ Matching(t, m) \in Seq(Items)
         /\ \A i \in DOMAIN t : t[i] \in m =>
                \E j \in DOMAIN Matching(t, m) : Matching(t, m)[j] = t[i]
  <1> DEFINE F == CHOOSE F : Finds(F, t, m, Len(t))
  <1>1. Matching(t, m) = F[Len(t)]
    BY DEF Matching, Finds
  <1>2. Finds(F, t, m, Len(t))
    BY FindsExists
  <1> HIDE DEF F
  <1> DEFINE Good(n) ==
        /\ F[n] \in Seq(Items)
        /\ \A i \in 1..n : t[i] \in m => \E j \in DOMAIN F[n] : F[n][j] = t[i]
  <1> DEFINE N == {n \in Nat : n <= Len(t) => Good(n)}
  <1>3. 0 \in N
    BY <1>2 DEF Finds
  <1>4. ASSUME NEW n \in Nat, n \in N PROVE n + 1 \in N
    <2> SUFFICES ASSUME n + 1 <= Len(t) PROVE Good(n + 1)
      OBVIOUS
    <2>1. Good(n)
      BY <1>4
    <2>2. F[n + 1] = IF t[n + 1] \in m THEN Append(F[n], t[n + 1]) ELSE F[n]
      BY <1>2, FindsStep
    <2>3. CASE t[n + 1] \in m
      <3>1. t[n + 1] \in Items
        OBVIOUS
      <3>2. /\ F[n + 1] \in Seq(Items)
            /\ DOMAIN F[n + 1] = 1..(Len(F[n]) + 1)
            /\ \A j \in DOMAIN F[n] : j \in DOMAIN F[n + 1] /\ F[n + 1][j] = F[n][j]
            /\ F[n + 1][Len(F[n]) + 1] = t[n + 1]
        BY <2>1, <2>2, <2>3, <3>1
      <3>3. QED
        BY <2>1, <3>2
    <2>4. CASE t[n + 1] \notin m
      BY <2>1, <2>2, <2>4
    <2>5. QED
      BY <2>3, <2>4
  <1> HIDE DEF N
  <1>5. Nat \subseteq N
    BY <1>3, <1>4, Induction
  <1>6. Good(Len(t))
    BY <1>5 DEF N
  <1>7. QED
    BY <1>1, <1>6
-----------------------------------------------------------------------------
(***************************************************************************)
(* The requests.                                                           *)
(***************************************************************************)
Statuses == {0, 200, 201, 204, 500}
RequestType == [ready : 0..4, matches : SUBSET Items, answered : BOOLEAN,
                status : Statuses, results : Seq(Items)]

RequestsTyped ==
    /\ dialog \in Dialogs /\ protocol \in {"postMessage", "windowName", "none"}
    /\ table \in Seq(Items)
    /\ xhr \in [Searches -> RequestType]
    /\ count \in 0..MaxActs /\ xmlhttp \in 0..count

\* What a search without limit finds, and one with.
Found(m) == IF dialog \in {"Resource", "RequirementCollection"} THEN Matching(table, m)
            ELSE findResources(table, m)

\* A request has events only when it is answered; only a success has results, those of a
\* search are the matches, that of a form is one resource.
RequestOK(s) ==
    /\ s > xmlhttp => xhr[s] = Idle
    /\ s <= xmlhttp => xhr[s].ready > 0
    /\ xhr[s].ready > 1 => xhr[s].answered
    /\ ~xhr[s].answered => xhr[s].status = 0
    /\ xhr[s].status = 200 => /\ dialog \notin CreationDialogs
                              /\ xhr[s].results = Found(xhr[s].matches)
    /\ xhr[s].status = 201 => /\ dialog \in CreationDialogs
                              /\ \E i \in Items : xhr[s].results = <<i>>

RequestInv == RequestsTyped /\ \A s \in Searches : RequestOK(s)

LEMMA MinIs ==
  ASSUME NEW a \in Int, NEW b \in Int
  PROVE  Min({a, b}) = IF a <= b THEN a ELSE b
  <1>1. PICK x \in {a, b} : \A y \in {a, b} : x <= y
    OBVIOUS
  <1>2. /\ Min({a, b}) \in {a, b}
        /\ \A y \in {a, b} : Min({a, b}) <= y
    BY <1>1 DEF Min
  <1>3. QED
    BY <1>2

LEMMA FoundIs ==
  ASSUME table \in Seq(Items), NEW m
  PROVE  /\ Found(m) \in Seq(Items)
         /\ \/ Len(table) <= Limit + 1
            \/ dialog \in {"Resource", "RequirementCollection"}
            => Found(m) = Matching(table, m)
  <1> DEFINE n == Min({Limit + 1, Len(table)})
  <1>1. n = IF Limit + 1 <= Len(table) THEN Limit + 1 ELSE Len(table)
    BY MinIs, DialogAssumption DEF DialogAssumption
  <1>2. n \in 0..Len(table)
    BY <1>1, DialogAssumption DEF DialogAssumption
  <1> HIDE DEF n
  <1>3. SubSeq(table, 1, n) \in Seq(Items)
    BY <1>2, SubSeqProperties
  <1>4. n = Len(table) => SubSeq(table, 1, n) = table
    BY SubSeqFull
  <1>5. Len(table) <= Limit + 1 => n = Len(table)
    BY <1>1, DialogAssumption DEF DialogAssumption
  <1>6. findResources(table, m) = Matching(SubSeq(table, 1, n), m)
    BY DEF findResources, n
  <1>7. /\ findResources(table, m) \in Seq(Items)
        /\ Matching(table, m) \in Seq(Items)
    BY <1>3, <1>6, MatchingIs
  <1>8. QED
    BY <1>4, <1>5, <1>6, <1>7 DEF Found

\* What the servers may say of a request.
Right(m, status, results) ==
    /\ status \in Statuses /\ results \in Seq(Items)
    /\ status = 200 => dialog \notin CreationDialogs /\ results = Found(m)
    /\ status = 201 => dialog \in CreationDialogs /\ \E i \in Items : results = <<i>>

Responding(s) ==
    \E status \in Statuses, results \in Seq(Items) :
        Right(xhr[s].matches, status, results) /\ Respond(s, status, results)

LEMMA AnswersAreRight ==
  ASSUME RequestInv, NEW s \in Searches, Serve(s) \/ Lose(s)
  PROVE  Responding(s)
  <1> DEFINE m == xhr[s].matches
  <1>1. table \in Seq(Items) /\ Found(m) \in Seq(Items)
    BY FoundIs DEF RequestInv, RequestsTyped
  <1>2. ASSUME NEW status \in {0, 204, 500}, Respond(s, status, <<>>) PROVE Responding(s)
    <2>1. Right(m, status, <<>>) /\ <<>> \in Seq(Items) /\ status \in Statuses
      BY EmptySeq DEF Right, Statuses
    <2>2. QED
      BY <1>2, <2>1 DEF Responding
  <1>3. ASSUME dialog \notin CreationDialogs, Respond(s, 200, Found(m)) PROVE Responding(s)
    BY <1>1, <1>3 DEF Responding, Right, Statuses
  <1>4. ASSUME dialog \in CreationDialogs, Create(s) PROVE Responding(s)
    <2>1. ASSUME NEW i \in Created, Respond(s, 201, <<i>>) PROVE Responding(s)
      <3>1. i \in Items /\ <<i>> \in Seq(Items)
        BY DialogAssumption DEF DialogAssumption
      <3>2. Right(m, 201, <<i>>) /\ 201 \in Statuses
        BY <1>4, <3>1 DEF Right, Statuses
      <3>3. QED
        BY <2>1, <3>1, <3>2 DEF Responding
    <2>2. QED
      BY <1>2, <1>4, <2>1 DEF Create
  <1>5. CASE Lose(s)
    BY <1>2, <1>5 DEF Lose
  <1>6. CASE ResourceSelector(s) \/ RequirementCollectionSelector(s)
    BY <1>3, <1>6 DEF ResourceSelector, RequirementCollectionSelector, Found, CreationDialogs
  <1>7. CASE LinkTypeSelector(s)
    BY <1>2, <1>7 DEF LinkTypeSelector
  <1>8. CASE \/ TestCaseSelector(s) \/ TestPlanSelector(s) \/ TestScriptSelector(s)
             \/ TestResultSelector(s) \/ TestExecutionRecordSelector(s)
    BY <1>3, <1>8 DEF TestCaseSelector, TestPlanSelector, TestScriptSelector,
       TestResultSelector, TestExecutionRecordSelector, Found, CreationDialogs
  <1>9. CASE createRequirementFromDialog(s) \/ createChangeRequestFromDialog(s)
    BY <1>4, <1>9 DEF createRequirementFromDialog, createChangeRequestFromDialog,
       CreationDialogs
  <1>10. QED
    BY <1>5, <1>6, <1>7, <1>8, <1>9 DEF Serve

LEMMA IdleIs == Idle \in RequestType /\ Idle.ready = 0 /\ ~Idle.answered /\ Idle.status = 0
  BY EmptySeq DEF Idle, RequestType, Statuses

LEMMA RequestInit == DialogInit => RequestInv
  <1> SUFFICES ASSUME DialogInit PROVE RequestInv
    OBVIOUS
  <1>1. table \in Seq(Items)
    BY DialogAssumption, EmptySeq DEF DialogInit, DialogAssumption
  <1>2. xhr \in [Searches -> RequestType] /\ \A s \in Searches : xhr[s] = Idle
    BY IdleIs DEF DialogInit
  <1>3. count = 0 /\ xmlhttp = 0 /\ MaxActs \in Nat
    BY DialogAssumption DEF DialogInit, DialogAssumption
  <1>4. RequestsTyped
    BY <1>1, <1>2, <1>3 DEF RequestsTyped, DialogInit
  <1>5. QED
    BY <1>2, <1>3, <1>4, IdleIs DEF RequestInv, RequestOK, Searches

LEMMA RequestRespond ==
  ASSUME RequestInv, NEW s \in Searches, Responding(s)
  PROVE  RequestInv'
  <1>1. PICK status \in Statuses, results \in Seq(Items) :
           Right(xhr[s].matches, status, results) /\ Respond(s, status, results)
    BY DEF Responding
  <1> DEFINE r == [xhr[s] EXCEPT !.answered = TRUE, !.status = status, !.results = results]
  <1>2. /\ xhr' = [xhr EXCEPT ![s] = r]
        /\ UNCHANGED <<dialog, protocol, table, xmlhttp, count>>
        /\ xhr[s].ready > 0
    BY <1>1 DEF Respond, serverVars, scriptVars
  <1>3. /\ xhr \in [Searches -> RequestType]
        /\ xmlhttp \in Nat /\ s \in Nat
    BY DEF RequestInv, RequestsTyped, Searches
  <1>4. /\ r \in RequestType
        /\ r.ready = xhr[s].ready /\ r.matches = xhr[s].matches
        /\ r.answered /\ r.status = status /\ r.results = results
    BY <1>3 DEF RequestType
  <1> HIDE DEF r
  <1>5. RequestsTyped'
    BY <1>2, <1>3, <1>4 DEF RequestInv, RequestsTyped
  <1>6. ASSUME NEW u \in Searches PROVE RequestOK(u)'
    <2>2. \A m : Found(m)' = Found(m)
      BY <1>2 DEF Found
    <2>3. s <= xmlhttp
      BY <1>2, <1>3, IdleIs DEF RequestInv, RequestOK
    <2>4. CASE u = s
      <3>1. xhr'[u] = r
        BY <1>2, <1>3, <2>4
      <3>2. QED
        BY <1>1, <1>2, <1>3, <1>4, <2>2, <2>3, <2>4, <3>1
           DEF RequestOK, Right, RequestInv
    <2>5. CASE u # s
      <3>1. xhr'[u] = xhr[u]
        BY <1>2, <1>3, <2>5
      <3>2. QED
        BY <1>2, <2>2, <3>1 DEF RequestOK, RequestInv
    <2>6. QED
      BY <2>4, <2>5
  <1>7. QED
    BY <1>5, <1>6 DEF RequestInv

LEMMA RequestSend ==
  ASSUME RequestInv, NEW m \in SUBSET Items, Send(m)
  PROVE  RequestInv'
  <1> DEFINE r == [Idle EXCEPT !.ready = 1, !.matches = m]
  <1>1. /\ xhr' = [xhr EXCEPT ![xmlhttp + 1] = r]
        /\ xmlhttp' = xmlhttp + 1 /\ count' = count + 1 /\ count < MaxActs
        /\ UNCHANGED <<dialog, protocol, table>>
    BY DEF Send, serverVars
  <1>2. /\ xhr \in [Searches -> RequestType]
        /\ MaxActs \in Nat /\ count \in 0..MaxActs /\ xmlhttp \in 0..count
    BY DialogAssumption DEF RequestInv, RequestsTyped, DialogAssumption
  <1>3. 1 \in 0..4
    OBVIOUS
  <1>0. /\ r \in RequestType
        /\ r.ready = 1 /\ r.answered = Idle.answered /\ r.status = 0
    BY <1>3, IdleIs DEF RequestType
  <1> HIDE DEF r
  <1>4. xmlhttp + 1 \in Searches
    BY <1>1, <1>2 DEF Searches
  <1>5. RequestsTyped'
    <2>1. xhr' \in [Searches -> RequestType]
      BY <1>0, <1>1, <1>2, <1>4
    <2>2. count' \in 0..MaxActs /\ xmlhttp' \in 0..count'
      BY <1>1, <1>2
    <2>3. QED
      BY <1>1, <2>1, <2>2 DEF RequestInv, RequestsTyped
  <1>6. ASSUME NEW u \in Searches PROVE RequestOK(u)'
    <2>1. \A x : Found(x)' = Found(x)
      BY <1>1 DEF Found
    <2>2. CASE u = xmlhttp + 1
      <3>1. xhr'[u] = r
        BY <1>1, <1>2, <2>2
      <3>2. QED
        BY <1>0, <1>1, <1>2, <2>2, <3>1, IdleIs DEF RequestOK
    <2>3. CASE u # xmlhttp + 1
      <3>1. xhr'[u] = xhr[u]
        BY <1>1, <1>2, <2>3
      <3>2. RequestOK(u) /\ u \in Nat
        BY DEF RequestInv, Searches
      <3>3. QED
        BY <1>1, <1>2, <2>1, <2>3, <3>1, <3>2 DEF RequestOK
    <2>4. QED
      BY <2>2, <2>3
  <1>7. QED
    BY <1>5, <1>6 DEF RequestInv

\* What an event changes of the requests.
LEMMA EventIs ==
  ASSUME RequestInv, NEW s \in Searches, readystatechange(s)
  PROVE  /\ s <= xmlhttp /\ xhr[s].answered /\ xhr[s].ready \in 1..3
         /\ xhr'[s] = [xhr[s] EXCEPT !.ready = xhr[s].ready + 1]
         /\ \A u \in Searches : u # s => xhr'[u] = xhr[u]
         /\ xhr' \in [Searches -> RequestType]
         /\ UNCHANGED <<serverVars, xmlhttp, overlapped, count>>
         /\ xmlhttp \in Searches
  <1>1. /\ xhr[s].answered /\ xhr[s].ready < 4
        /\ xhr' = [xhr EXCEPT ![s].ready = @ + 1]
        /\ UNCHANGED <<serverVars, xmlhttp, overlapped, count>>
    BY DEF readystatechange
  <1>2. /\ xhr \in [Searches -> RequestType] /\ xhr[s] \in RequestType
        /\ MaxActs \in Nat /\ xmlhttp \in Nat /\ s \in Nat /\ xmlhttp <= MaxActs /\ s >= 1
    BY DialogAssumption DEF RequestInv, RequestsTyped, DialogAssumption, Searches
  <1>3. s <= xmlhttp
    BY <1>1, <1>2, IdleIs DEF RequestInv, RequestOK
  <1>4. xhr[s].ready \in 1..3
    BY <1>1, <1>2, <1>3 DEF RequestInv, RequestOK, RequestType
  <1>5. [xhr[s] EXCEPT !.ready = xhr[s].ready + 1] \in RequestType
    <2>1. xhr[s].ready + 1 \in 0..4
      BY <1>4
    <2>2. QED
      BY <1>2, <2>1 DEF RequestType
  <1>6. xmlhttp \in Searches
    BY <1>2, <1>3 DEF Searches
  <1>7. xhr'[s] = [xhr[s] EXCEPT !.ready = xhr[s].ready + 1]
    BY <1>1, <1>2
  <1>8. QED
    BY <1>1, <1>2, <1>3, <1>4, <1>5, <1>6, <1>7

LEMMA RequestEvent ==
  ASSUME RequestInv, NEW s \in Searches, readystatechange(s)
  PROVE  RequestInv'
  <1> DEFINE r == [xhr[s] EXCEPT !.ready = xhr[s].ready + 1]
  <1>1. /\ s <= xmlhttp /\ xhr[s].answered /\ xhr[s].ready \in 1..3
        /\ xhr'[s] = r
        /\ \A u \in Searches : u # s => xhr'[u] = xhr[u]
        /\ xhr' \in [Searches -> RequestType]
        /\ UNCHANGED <<dialog, protocol, table, xmlhttp, count>>
    BY EventIs DEF serverVars
  <1>2. /\ xhr[s] \in RequestType /\ xmlhttp \in Nat /\ s \in Nat
    BY DEF RequestInv, RequestsTyped, Searches
  <1>3. /\ r.ready = xhr[s].ready + 1 /\ r.matches = xhr[s].matches
        /\ r.answered = xhr[s].answered /\ r.status = xhr[s].status
        /\ r.results = xhr[s].results
    BY <1>2 DEF RequestType
  <1> HIDE DEF r
  <1>4. RequestsTyped'
    BY <1>1 DEF RequestInv, RequestsTyped
  <1>5. ASSUME NEW u \in Searches PROVE RequestOK(u)'
    <2>1. \A x : Found(x)' = Found(x)
      BY <1>1 DEF Found
    <2>2. RequestOK(u)
      BY DEF RequestInv
    <2>3. CASE u = s
      <3>1. xhr'[u] = r /\ xhr[u] = xhr[s] /\ r.ready > 0
        BY <1>1, <1>3, <2>3
      <3>2. u <= xmlhttp' /\ ~(u > xmlhttp') /\ xhr'[u].ready > 0
        BY <1>1, <1>2, <1>3, <2>3, <3>1
      <3>5. xhr'[u].answered
        BY <1>1, <1>3, <3>1
      <3>3. /\ xhr'[u].matches = xhr[u].matches /\ xhr'[u].results = xhr[u].results
            /\ xhr'[u].status = xhr[u].status
        BY <1>3, <3>1
      <3>4. QED
        BY <1>1, <2>1, <2>2, <3>2, <3>3, <3>5 DEF RequestOK
    <2>4. CASE u # s
      BY <1>1, <2>1, <2>2, <2>4 DEF RequestOK
    <2>5. QED
      BY <2>3, <2>4
  <1>6. QED
    BY <1>4, <1>5 DEF RequestInv

LEMMA RequestUnchanged ==
  RequestInv /\ UNCHANGED <<serverVars, xhr, xmlhttp>> /\ count' \in xmlhttp..MaxActs
  => RequestInv'
  BY DEF RequestInv, RequestsTyped, RequestOK, Found, serverVars

\* The steps there are.
LEMMA DialogSteps ==
  ASSUME RequestInv, DialogNext
  PROVE  \/ \E s \in Searches : Responding(s)
         \/ dialog \notin CreationDialogs /\ (search \/ select \/ cancel)
         \/ dialog \in CreationDialogs /\ create
         \/ \E s \in Searches : readystatechange(s)
         \/ Intrude
         \/ message
  <1>1. CASE \E s \in Searches : Serve(s) \/ Lose(s)
    BY <1>1, AnswersAreRight
  <1>2. CASE AmDialog \/ RmDialog \/ CmDialog \/ QmDialog
    BY <1>2 DEF AmDialog, RmDialog, CmDialog, QmDialog, Selecting, Creating,
       AmDialogs, CmDialogs, QmDialogs, CreationDialogs
  <1>3. CASE AmClient \/ RmClient \/ CmClient \/ QmClient \/ Intrude
    BY <1>3 DEF AmClient, RmClient, CmClient, QmClient
  <1>4. QED
    BY <1>1, <1>2, <1>3 DEF DialogNext

LEMMA RequestNext == ASSUME RequestInv, [DialogNext]_dialogVars PROVE RequestInv'
  <1>1. count \in xmlhttp..MaxActs
    BY DialogAssumption DEF RequestInv, RequestsTyped, DialogAssumption
  <1>2. CASE \E s \in Searches : Responding(s)
    BY <1>2, RequestRespond
  <1>3. CASE search \/ create
    <2>1. \E m \in SUBSET Items : Send(m)
      BY <1>3, DialogAssumption DEF search, create, DialogAssumption
    <2>2. QED
      BY <2>1, RequestSend
  <1>4. CASE select \/ cancel \/ Intrude
    <2>1. UNCHANGED <<serverVars, xhr, xmlhttp>> /\ count' = count + 1 /\ count < MaxActs
      BY <1>4 DEF select, cancel, Intrude, sendResponse, scriptVars
    <2>2. count' \in xmlhttp..MaxActs
      BY <1>1, <2>1, DialogAssumption DEF DialogAssumption, RequestInv, RequestsTyped
    <2>3. QED
      BY <2>1, <2>2, RequestUnchanged
  <1>5. CASE \E s \in Searches : readystatechange(s)
    BY <1>5, RequestEvent
  <1>6. CASE message
    BY <1>1, <1>6, RequestUnchanged DEF message, scriptVars
  <1>7. CASE UNCHANGED dialogVars
    BY <1>1, <1>7, RequestUnchanged DEF dialogVars, scriptVars
  <1>8. QED
    BY <1>2, <1>3, <1>4, <1>5, <1>6, <1>7, DialogSteps

LEMMA RequestsAreRight == DialogSpec => []RequestInv
  BY RequestInit, RequestNext, PTL DEF DialogSpec

\* What the selectors of QM leave out is beyond the first resources of a large store.
THEOREM SearchesAreWhole == DialogSpec => []SmallStoresAreSearchedWhole
  <1>1. ASSUME RequestInv PROVE SmallStoresAreSearchedWhole
    <2> SUFFICES ASSUME NEW s \in Searches, xhr[s].status = 200,
                        \/ Len(table) <= Limit + 1
                        \/ dialog \in {"Resource", "RequirementCollection"},
                        NEW i \in DOMAIN table, table[i] \in xhr[s].matches
                 PROVE  \E j \in DOMAIN xhr[s].results : xhr[s].results[j] = table[i]
      BY DEF SmallStoresAreSearchedWhole
    <2>1. table \in Seq(Items)
      BY <1>1 DEF RequestInv, RequestsTyped
    <2>2. xhr[s].results = Found(xhr[s].matches)
      BY <1>1 DEF RequestInv, RequestOK
    <2>3. Found(xhr[s].matches) = Matching(table, xhr[s].matches)
      BY <2>1, FoundIs
    <2>4. QED
      BY <2>1, <2>2, <2>3, MatchingIs
  <1>2. QED
    BY <1>1, RequestsAreRight, PTL
-----------------------------------------------------------------------------
(***************************************************************************)
(* The messages.                                                           *)
(***************************************************************************)
MessageType == [source : {"iframe", "other"}, results : Seq(Items)]

MessagesTyped ==
    /\ list \in Seq(Items) /\ sent \in Seq(MessageType)
    /\ presented \in Seq(Items) /\ selections \subseteq Seq(Items)

\* Every message of the dialog is a selection; in a creation dialog that is one resource.
SelectionsAreSent ==
    /\ \A n \in DOMAIN sent : sent[n].source = "iframe" => sent[n].results \in selections
    /\ dialog \in CreationDialogs => \A r \in selections : \E i \in Items : r = <<i>>

MessageInv == RequestInv /\ MessagesTyped /\ SelectionsAreSent /\ PresentedWasSelected

LEMMA MessageInit == DialogInit => MessageInv
  BY RequestInit, EmptySeq
     DEF DialogInit, MessageInv, MessagesTyped, SelectionsAreSent, PresentedWasSelected,
         Plain

LEMMA MessageUnchanged ==
  ASSUME MessageInv, RequestInv', list' \in Seq(Items), UNCHANGED <<dialog, messageVars>>
  PROVE  MessageInv'
  BY DEF MessageInv, MessagesTyped, SelectionsAreSent, PresentedWasSelected, messageVars

LEMMA MessageSent ==
  ASSUME MessageInv, NEW m \in MessageType, sent' = Append(sent, m),
         m.source = "iframe" => m.results \in selections'
  PROVE  /\ sent' \in Seq(MessageType)
         /\ selections \subseteq selections' =>
               \A n \in DOMAIN sent' : sent'[n].source = "iframe" => sent'[n].results \in selections'
  <1>1. /\ sent' \in Seq(MessageType) /\ DOMAIN sent' = 1..(Len(sent) + 1)
        /\ \A n \in 1..Len(sent) : sent'[n] = sent[n]
        /\ sent'[Len(sent) + 1] = m
        /\ DOMAIN sent = 1..Len(sent) /\ Len(sent) \in Nat
    BY DEF MessageInv, MessagesTyped
  <1>2. \A n \in DOMAIN sent : sent[n].source = "iframe" => sent[n].results \in selections
    BY DEF MessageInv, SelectionsAreSent
  <1>3. QED
    BY <1>1, <1>2

LEMMA MessageRespond ==
  ASSUME MessageInv, RequestInv', list' \in Seq(Items), UNCHANGED dialog,
         NEW results \in Seq(Items), respond(results),
         dialog \in CreationDialogs => \E i \in Items : results = <<i>>
  PROVE  MessageInv'
  <1> DEFINE m == [source |-> "iframe", results |-> results]
  <1>1. selections' = selections \cup {results} /\ presented' = presented
    BY DEF respond
  <1>2. m \in MessageType /\ m.results = results
    BY DEF MessageType
  <1>3. CASE sent' = Append(sent, m)
    <2>1. /\ sent' \in Seq(MessageType)
          /\ \A n \in DOMAIN sent' :
                sent'[n].source = "iframe" => sent'[n].results \in selections'
      BY <1>1, <1>2, <1>3, MessageSent
    <2>2. QED
      BY <1>1, <2>1 DEF MessageInv, MessagesTyped, SelectionsAreSent, PresentedWasSelected,
         Plain
  <1>4. CASE sent' = sent
    BY <1>1, <1>4 DEF MessageInv, MessagesTyped, SelectionsAreSent, PresentedWasSelected,
         Plain
  <1>5. QED
    BY <1>3, <1>4 DEF respond

\* A message that is taken.
LEMMA MessageTaken ==
  ASSUME MessageInv, sent # <<>>, sent' = Tail(sent)
  PROVE  /\ Head(sent) \in MessageType /\ Head(sent) = sent[1] /\ 1 \in DOMAIN sent
         /\ sent' \in Seq(MessageType) /\ Len(sent') = Len(sent) - 1
         /\ DOMAIN sent' = 1..Len(sent') /\ DOMAIN sent = 1..Len(sent) /\ Len(sent) \in Nat
         /\ \A n \in DOMAIN sent' : n + 1 \in DOMAIN sent /\ sent'[n] = sent[n + 1]
  <1>1. sent \in Seq(MessageType) /\ DOMAIN sent = 1..Len(sent) /\ Len(sent) \in Nat \ {0}
    BY EmptySeq DEF MessageInv, MessagesTyped
  <1>2. /\ sent' \in Seq(MessageType) /\ Len(sent') = Len(sent) - 1
        /\ \A n \in 1..Len(sent') : sent'[n] = sent[n + 1]
        /\ DOMAIN sent' = 1..Len(sent')
    BY <1>1, HeadTailProperties
  <1>3. 1 \in DOMAIN sent /\ Head(sent) = sent[1] /\ Head(sent) \in MessageType
    BY <1>1
  <1>4. \A n \in DOMAIN sent' : n + 1 \in DOMAIN sent
    BY <1>1, <1>2
  <1>5. QED
    BY <1>1, <1>2, <1>3, <1>4

LEMMA MessageMessage ==
  ASSUME MessageInv, RequestInv', message
  PROVE  MessageInv'
  <1> DEFINE m == sent[1]
  <1>1. /\ sent # <<>> /\ sent' = Tail(sent)
        /\ UNCHANGED <<dialog, list, selections>>
        /\ IF ~Accepted(Head(sent)) THEN UNCHANGED presented
           ELSE IF dialog \in CreationDialogs THEN creationListener(Head(sent).results)
           ELSE selectionListener(Head(sent).results)
    BY DEF message, serverVars, scriptVars
  <1>2. /\ Head(sent) = m /\ m \in MessageType /\ 1 \in DOMAIN sent
        /\ sent' \in Seq(MessageType)
        /\ \A n \in DOMAIN sent' : n + 1 \in DOMAIN sent /\ sent'[n] = sent[n + 1]
    BY <1>1, MessageTaken
  <1> HIDE DEF m
  <1>3. SelectionsAreSent'
    BY <1>1, <1>2 DEF MessageInv, SelectionsAreSent
  <1>4. \/ presented' \in {presented} \cup selections
        \/ dialog \notin CreationDialogs /\ presented' \in Misread
           /\ \E r \in selections : ~Plain(r)
    <2>1. CASE ~Accepted(m)
      BY <1>1, <1>2, <2>1
    <2>2. CASE Accepted(m)
      <3>1. m.results \in selections
        BY <1>2, <2>2 DEF Accepted, MessageInv, SelectionsAreSent, m
      <3>2. CASE dialog \in CreationDialogs
        <4>1. creationListener(m.results)
          BY <1>1, <1>2, <2>2, <3>2
        <4>2. PICK i \in Items : m.results = <<i>>
          BY <3>1, <3>2 DEF MessageInv, SelectionsAreSent
        <4>3. presented' = m.results
          BY <4>1, <4>2 DEF creationListener
        <4>4. QED
          BY <3>1, <4>3
      <3>3. CASE dialog \notin CreationDialogs
        <4>1. selectionListener(m.results)
          BY <1>1, <1>2, <2>2, <3>3
        <4>2. QED
          BY <3>1, <3>3, <4>1 DEF selectionListener, Parsed
      <3>4. QED
        BY <3>2, <3>3
    <2>3. QED
      BY <2>1, <2>2
  <1>5. presented' \in Seq(Items)
    BY <1>4, DialogAssumption DEF MessageInv, MessagesTyped, DialogAssumption
  <1>6. PresentedWasSelected'
    BY <1>1, <1>4 DEF MessageInv, PresentedWasSelected, Plain
  <1>7. QED
    BY <1>1, <1>2, <1>3, <1>5, <1>6 DEF MessageInv, MessagesTyped

\* What the page does at an event.
LEMMA EventShows ==
  ASSUME RequestInv, NEW s \in Searches, readystatechange(s)
  PROVE  LET last == xhr'[xmlhttp] IN
         \/ /\ ~(last.ready = 4 /\ last.status = Expected)
            /\ UNCHANGED <<list, loading, messageVars>>
         \/ /\ last.ready = 4 /\ last.status = Expected
            /\ dialog \in CreationDialogs /\ respond(last.results)
            /\ UNCHANGED <<list, loading>>
         \/ /\ last.ready = 4 /\ last.status = Expected
            /\ dialog \notin CreationDialogs
            /\ list' = list \o last.results /\ loading' = FALSE /\ UNCHANGED messageVars
  BY DEF readystatechange, populates, sendRawResponse, Populate

LEMMA MessageNext == ASSUME MessageInv, [DialogNext]_dialogVars PROVE MessageInv'
  <1>1. RequestInv /\ RequestInv' /\ list \in Seq(Items)
    BY RequestNext DEF MessageInv, MessagesTyped
  <1>2. CASE \E s \in Searches : Responding(s)
    BY <1>1, <1>2, MessageUnchanged DEF Responding, Respond, scriptVars, serverVars
  <1>3. CASE search \/ create
    <2>1. UNCHANGED <<dialog, messageVars>>
      BY <1>3 DEF search, create, Send, serverVars
    <2>2. list' \in Seq(Items)
      BY <1>1, <1>3, EmptySeq DEF search, create
    <2>3. QED
      BY <1>1, <2>1, <2>2, MessageUnchanged
  <1>4. CASE dialog \notin CreationDialogs /\ (select \/ cancel)
    <2>1. \E results \in Seq(Items) : sendResponse(results)
      <3>1. \A i \in DOMAIN list : <<list[i]>> \in Seq(Items)
        BY <1>1
      <3>2. QED
        BY <1>1, <1>4, <3>1, EmptySeq DEF select, cancel
    <2>2. QED
      BY <1>1, <1>4, <2>1, MessageRespond DEF sendResponse, scriptVars, serverVars
  <1>5. ASSUME NEW s \in Searches, readystatechange(s) PROVE MessageInv'
    <2> DEFINE last == xhr'[xmlhttp]
    <2>1. /\ UNCHANGED <<dialog, xmlhttp>> /\ last.results \in Seq(Items)
          /\ xmlhttp \in Searches
      BY <1>1, <1>5, EventIs DEF serverVars, RequestType
    <2>2. dialog \in CreationDialogs /\ last.status = Expected =>
             \E i \in Items : last.results = <<i>>
      BY <1>1, <2>1 DEF RequestInv, RequestOK, Expected
    <2> HIDE DEF last
    <2>3. CASE UNCHANGED <<list, messageVars>>
      BY <1>1, <2>1, <2>3, MessageUnchanged
    <2>4. CASE last.status = Expected /\ respond(last.results) /\ UNCHANGED list
      BY <1>1, <2>1, <2>2, <2>4, MessageRespond
    <2>5. CASE list' = list \o last.results /\ UNCHANGED messageVars
      BY <1>1, <2>1, <2>5, MessageUnchanged
    <2>6. QED
      BY <1>1, <1>5, <2>3, <2>4, <2>5, EventShows DEF last
  <1>6. CASE Intrude
    <2>1. PICK i \in Foreign : sent' = Append(sent, [source |-> "other", results |-> <<i>>])
      BY <1>6 DEF Intrude
    <2>2. [source |-> "other", results |-> <<i>>] \in MessageType
      BY DialogAssumption DEF DialogAssumption, MessageType
    <2>3. UNCHANGED <<dialog, list, presented, selections>>
      BY <1>6 DEF Intrude, scriptVars, serverVars
    <2>4. /\ sent' \in Seq(MessageType)
          /\ \A n \in DOMAIN sent' :
                sent'[n].source = "iframe" => sent'[n].results \in selections'
      BY <2>1, <2>2, <2>3, MessageSent
    <2>5. QED
      BY <1>1, <2>3, <2>4 DEF MessageInv, MessagesTyped, SelectionsAreSent, PresentedWasSelected,
         Plain
  <1>7. CASE message
    BY <1>1, <1>7, MessageMessage
  <1>8. CASE UNCHANGED dialogVars
    BY <1>1, <1>8, MessageUnchanged DEF dialogVars, scriptVars, serverVars
  <1>9. QED
    BY <1>1, <1>2, <1>3, <1>4, <1>5, <1>6, <1>7, <1>8, DialogSteps

\* The page around the dialog presents nothing but what was selected or created there,
\* whatever other windows send and however the answers come, as long as no label that
\* was selected has a quotation mark in it.
THEOREM PresentsSelections == DialogSpec => []PresentedWasSelected
  <1>1. MessageInv => PresentedWasSelected
    BY DEF MessageInv
  <1>2. QED
    BY <1>1, MessageInit, MessageNext, PTL DEF DialogSpec

\* The message about what was created last is on the way with none of the dialog behind it,
\* or has come as the last one.
LastIsOnItsWay ==
    LET last == xhr[xmlhttp] IN
    /\ dialog \in CreationDialogs /\ protocol = "postMessage"
    /\ xmlhttp > 0 /\ last.ready = 4 /\ last.status = 201
    => \/ \E n \in DOMAIN sent :
             /\ sent[n] = [source |-> "iframe", results |-> last.results]
             /\ \A m \in DOMAIN sent : m > n => sent[m].source = "other"
       \/ /\ presented = last.results
          /\ \A m \in DOMAIN sent : sent[m].source = "other"

LastInv == MessageInv /\ LastIsOnItsWay

\* The condition of LastIsOnItsWay.
LastCreated ==
    /\ dialog \in CreationDialogs /\ protocol = "postMessage"
    /\ xmlhttp > 0 /\ xhr[xmlhttp].ready = 4 /\ xhr[xmlhttp].status = 201

LEMMA LastUnchanged ==
  ASSUME LastIsOnItsWay, LastCreated' => LastCreated /\ xhr'[xmlhttp'] = xhr[xmlhttp],
         UNCHANGED messageVars
  PROVE  LastIsOnItsWay'
  BY DEF LastIsOnItsWay, LastCreated, messageVars

\* Something is sent after the last message.
LEMMA LastSent ==
  ASSUME LastInv, NEW m \in MessageType, sent' = Append(sent, m)
  PROVE  /\ DOMAIN sent' = 1..(Len(sent) + 1) /\ DOMAIN sent = 1..Len(sent)
         /\ \A n \in DOMAIN sent : sent'[n] = sent[n]
         /\ sent'[Len(sent) + 1] = m /\ Len(sent) \in Nat
  BY DEF LastInv, MessageInv, MessagesTyped

LEMMA LastNext == ASSUME LastInv, [DialogNext]_dialogVars PROVE LastIsOnItsWay'
  <1>1. RequestInv /\ RequestInv' /\ MessageInv /\ MessageInv' /\ LastIsOnItsWay
    BY RequestNext, MessageNext DEF LastInv, MessageInv
  <1>2. /\ xhr \in [Searches -> RequestType] /\ MaxActs \in Nat
        /\ xmlhttp \in 0..MaxActs
        /\ xmlhttp > 0 => xmlhttp \in Searches
    BY <1>1, DialogAssumption DEF RequestInv, RequestsTyped, DialogAssumption, Searches
  <1>3. ASSUME NEW s \in Searches, Responding(s) PROVE LastIsOnItsWay'
    <2>1. /\ UNCHANGED <<dialog, protocol, xmlhttp, messageVars>> /\ ~xhr[s].answered
          /\ \A u \in Searches : u # s => xhr'[u] = xhr[u]
          /\ xhr'[s].ready = xhr[s].ready
      BY <1>2, <1>3 DEF Responding, Respond, scriptVars, serverVars, RequestType
    <2>2. xhr[s].ready # 4
      BY <1>1, <2>1 DEF RequestInv, RequestOK
    <2>3. LastCreated' => xmlhttp # s
      BY <2>1, <2>2 DEF LastCreated
    <2>4. QED
      BY <1>1, <1>2, <2>1, <2>3, LastUnchanged DEF LastCreated
  <1>4. CASE search \/ create
    <2>1. PICK m : Send(m)
      BY <1>4 DEF search, create
    <2>2. /\ xmlhttp' = xmlhttp + 1 /\ UNCHANGED messageVars
          /\ xhr' = [xhr EXCEPT ![xmlhttp + 1] = [Idle EXCEPT !.ready = 1, !.matches = m]]
          /\ count < MaxActs
      BY <2>1 DEF Send
    <2>3. xmlhttp + 1 \in Searches
      BY <1>1, <1>2, <2>2 DEF RequestInv, RequestsTyped, Searches
    <2>4. xhr'[xmlhttp'].ready = 1
      BY <1>2, <2>2, <2>3, IdleIs DEF RequestType
    <2>5. ~LastCreated'
      BY <2>4 DEF LastCreated
    <2>6. QED
      BY <1>1, <2>2, <2>5, LastUnchanged
  <1>5. CASE dialog \notin CreationDialogs /\ (select \/ cancel)
    BY <1>5 DEF select, cancel, sendResponse, serverVars, LastIsOnItsWay
  <1>6. ASSUME NEW s \in Searches, readystatechange(s) PROVE LastIsOnItsWay'
    <2> DEFINE last == xhr'[xmlhttp]
    <2>1. /\ UNCHANGED <<dialog, protocol, xmlhttp>> /\ xmlhttp \in Searches
          /\ last.results \in Seq(Items)
      BY <1>1, <1>6, EventIs DEF serverVars, RequestType
    <2>2. CASE ~(last.ready = 4 /\ last.status = Expected)
      BY <2>1, <2>2 DEF LastIsOnItsWay, Expected
    <2>3. CASE dialog \notin CreationDialogs
      BY <2>1, <2>3 DEF LastIsOnItsWay
    <2>4. CASE protocol # "postMessage"
      BY <2>1, <2>4 DEF LastIsOnItsWay
    <2>5. CASE protocol = "postMessage" /\ respond(last.results)
      <3> DEFINE m == [source |-> "iframe", results |-> last.results]
      <3>1. sent' = Append(sent, m) /\ m \in MessageType
        BY <2>1, <2>5 DEF respond, MessageType
      <3> HIDE DEF m
      <3>2. /\ DOMAIN sent' = 1..(Len(sent) + 1)
            /\ sent'[Len(sent) + 1] = m /\ Len(sent) \in Nat
        BY <3>1, LastSent
      <3>3. /\ Len(sent) + 1 \in DOMAIN sent'
            /\ \A n \in DOMAIN sent' : ~(n > Len(sent) + 1)
        BY <3>2
      <3>4. sent'[Len(sent) + 1] = [source |-> "iframe", results |-> xhr'[xmlhttp'].results]
        BY <2>1, <3>2 DEF m
      <3>5. QED
        BY <3>3, <3>4 DEF LastIsOnItsWay
    <2>6. QED
      BY <1>1, <1>6, <2>2, <2>3, <2>4, <2>5, EventShows
  <1>7. CASE Intrude
    <2>1. PICK i \in Foreign : sent' = Append(sent, [source |-> "other", results |-> <<i>>])
      BY <1>7 DEF Intrude
    <2> DEFINE m == [source |-> "other", results |-> <<i>>]
    <2>2. m \in MessageType /\ m.source = "other"
      BY DialogAssumption DEF DialogAssumption, MessageType
    <2>3. UNCHANGED <<dialog, protocol, xhr, xmlhttp, presented>>
      BY <1>7 DEF Intrude, scriptVars, serverVars
    <2> HIDE DEF m
    <2>4. /\ DOMAIN sent' = 1..(Len(sent) + 1) /\ DOMAIN sent = 1..Len(sent)
          /\ \A n \in DOMAIN sent : sent'[n] = sent[n]
          /\ sent'[Len(sent) + 1] = m /\ Len(sent) \in Nat
      BY <2>1, <2>2, LastSent DEF m
    <2>5. /\ DOMAIN sent \subseteq DOMAIN sent'
          /\ \A n \in DOMAIN sent' : n \in DOMAIN sent \/ sent'[n].source = "other"
      BY <2>2, <2>4
    <2>6. QED
      BY <1>1, <2>3, <2>4, <2>5 DEF LastIsOnItsWay
  <1>8. CASE message
    <2> DEFINE m == sent[1]
    <2>1. /\ sent # <<>> /\ sent' = Tail(sent)
          /\ UNCHANGED <<dialog, protocol, xhr, xmlhttp>>
          /\ IF ~Accepted(Head(sent)) THEN UNCHANGED presented
             ELSE IF dialog \in CreationDialogs THEN creationListener(Head(sent).results)
             ELSE selectionListener(Head(sent).results)
      BY <1>8 DEF message, serverVars, scriptVars
    <2>2. /\ Head(sent) = m /\ m \in MessageType /\ 1 \in DOMAIN sent
          /\ DOMAIN sent' = 1..(Len(sent) - 1)
          /\ DOMAIN sent = 1..Len(sent) /\ Len(sent) \in Nat
          /\ \A n \in DOMAIN sent' : n + 1 \in DOMAIN sent /\ sent'[n] = sent[n + 1]
      BY <1>1, <2>1, MessageTaken
    <2> HIDE DEF m
    <2> SUFFICES ASSUME LastCreated'
                 PROVE  \/ \E n \in DOMAIN sent' :
                              /\ sent'[n] = [source |-> "iframe",
                                             results |-> xhr[xmlhttp].results]
                              /\ \A k \in DOMAIN sent' : k > n => sent'[k].source = "other"
                        \/ /\ presented' = xhr[xmlhttp].results
                           /\ \A k \in DOMAIN sent' : sent'[k].source = "other"
      BY <2>1 DEF LastCreated, LastIsOnItsWay
    <2>3. /\ dialog \in CreationDialogs
          /\ \E i \in Items : xhr[xmlhttp].results = <<i>>
      BY <1>1, <1>2, <2>1 DEF LastCreated, RequestInv, RequestOK
    <2>4. ASSUME NEW n \in DOMAIN sent,
                 sent[n] = [source |-> "iframe", results |-> xhr[xmlhttp].results],
                 \A k \in DOMAIN sent : k > n => sent[k].source = "other"
          PROVE  \/ \E j \in DOMAIN sent' :
                       /\ sent'[j] = [source |-> "iframe", results |-> xhr[xmlhttp].results]
                       /\ \A k \in DOMAIN sent' : k > j => sent'[k].source = "other"
                 \/ /\ presented' = xhr[xmlhttp].results
                    /\ \A k \in DOMAIN sent' : sent'[k].source = "other"
      <3>1. CASE n = 1
        <4>1. Accepted(m) /\ m.results = xhr[xmlhttp].results
          BY <2>4, <3>1 DEF Accepted, m
        <4>2. creationListener(xhr[xmlhttp].results)
          BY <2>1, <2>2, <2>3, <4>1
        <4>3. presented' = xhr[xmlhttp].results
          BY <2>3, <4>2 DEF creationListener
        <4>4. \A k \in DOMAIN sent' : sent'[k].source = "other"
          BY <2>2, <2>4, <3>1
        <4>5. QED
          BY <4>3, <4>4
      <3>2. CASE n # 1
        <4>1. n - 1 \in DOMAIN sent' /\ sent'[n - 1] = sent[n]
          BY <2>2, <3>2
        <4>2. \A k \in DOMAIN sent' : k > n - 1 => sent'[k].source = "other"
          BY <2>2, <2>4
        <4>3. QED
          BY <2>4, <4>1, <4>2
      <3>3. QED
        BY <3>1, <3>2
    <2>5. CASE /\ presented = xhr[xmlhttp].results
               /\ \A k \in DOMAIN sent : sent[k].source = "other"
      <3>1. ~Accepted(m)
        BY <2>2, <2>5 DEF Accepted, m
      <3>2. presented' = presented
        BY <2>1, <2>2, <3>1
      <3>3. QED
        BY <2>2, <2>5, <3>2
    <2>6. LastCreated
      BY <2>1 DEF LastCreated
    <2>7. QED
      BY <1>1, <2>4, <2>5, <2>6 DEF LastIsOnItsWay, LastCreated
  <1>9. CASE UNCHANGED dialogVars
    BY <1>1, <1>9, LastUnchanged DEF dialogVars, scriptVars, serverVars, LastCreated
  <1>10. QED
    BY <1>1, <1>3, <1>4, <1>5, <1>6, <1>7, <1>8, <1>9, DialogSteps

\* However often a form was posted and in whatever order the answers came: when the last
\* one and all messages have come, what was created last is presented.
THEOREM PresentsLastCreation == DialogSpec => []LastCreationIsPresented
  <1>1. DialogInit => LastInv
    BY MessageInit DEF DialogInit, LastInv, LastIsOnItsWay
  <1>2. LastInv /\ [DialogNext]_dialogVars => LastInv'
    BY LastNext, MessageNext DEF LastInv
  <1>3. ASSUME LastInv PROVE LastCreationIsPresented
    <2> SUFFICES ASSUME dialog \in CreationDialogs, protocol = "postMessage", xmlhttp > 0,
                        \A s \in 1..xmlhttp : xhr[s].ready = 4,
                        xhr[xmlhttp].status = 201, sent = <<>>
                 PROVE  presented = xhr[xmlhttp].results
      BY DEF LastCreationIsPresented
    <2>1. xmlhttp \in 1..xmlhttp
      BY <1>3, DialogAssumption
         DEF LastInv, MessageInv, RequestInv, RequestsTyped, DialogAssumption
    <2>2. DOMAIN sent = {}
      OBVIOUS
    <2>3. QED
      BY <1>3, <2>1, <2>2 DEF LastInv, LastIsOnItsWay
  <1>4. QED
    BY <1>1, <1>2, <1>3, PTL DEF DialogSpec
-----------------------------------------------------------------------------
(***************************************************************************)
(* The list.                                                               *)
(***************************************************************************)
\* The events that were handled.
Events == {e \in (1..xmlhttp) \X (2..4) : e[2] <= xhr[e[1]].ready}

\* When the last search did not overlap others none of these has an event left.
OthersAreOver ==
    ~overlapped => \A s \in Searches : s < xmlhttp => xhr[s].ready = 4

\* Each event since the last search was shown may have added a copy of its results.
ListIsCopies ==
    xmlhttp > 0 /\ dialog \notin CreationDialogs =>
        LET last == xhr[xmlhttp]
            shown == last.ready = 4 /\ last.status = 200
        IN /\ ~shown => loading = TRUE /\ list = <<>>
           /\ shown => loading = FALSE
           /\ shown => \E k \in 1..Cardinality(Events) :
                           (~overlapped => k = 1) /\ list = Copies(last.results, k)

ListInv == MessageInv /\ loading \in BOOLEAN /\ overlapped \in BOOLEAN
           /\ OthersAreOver /\ ListIsCopies

LEMMA Remainder ==
  ASSUME NEW n \in Nat, n > 0, NEW k \in Nat, NEW r \in 0..(n - 1)
  PROVE  (k * n + r) % n = r
  OBVIOUS

LEMMA Multiple ==
  ASSUME NEW n \in Nat, NEW k \in Nat
  PROVE  k * n \in Nat /\ (k + 1) * n = k * n + n /\ 1 * n = n
  OBVIOUS

LEMMA ConcatIs ==
  ASSUME NEW s \in Seq(Items), NEW t \in Seq(Items), NEW u \in Seq(Items),
         Len(u) = Len(s) + Len(t),
         \A i \in 1..Len(s) : u[i] = s[i],
         \A i \in 1..Len(t) : u[Len(s) + i] = t[i]
  PROVE  s \o t = u
  <1> DEFINE l == s \o t
  <1>1. /\ l \in Seq(Items) /\ Len(l) = Len(s) + Len(t)
        /\ \A i \in 1..(Len(s) + Len(t)) :
              l[i] = IF i <= Len(s) THEN s[i] ELSE t[i - Len(s)]
    BY ConcatProperties
  <1>2. Len(s) \in Nat /\ Len(t) \in Nat
    OBVIOUS
  <1> HIDE DEF l
  <1>3. ASSUME NEW i \in 1..Len(l) PROVE l[i] = u[i]
    <2>1. CASE i <= Len(s)
      BY <1>1, <1>2, <2>1
    <2>2. CASE i > Len(s)
      <3>1. i - Len(s) \in 1..Len(t) /\ Len(s) + (i - Len(s)) = i
        BY <1>1, <1>2, <2>2
      <3>2. u[i] = t[i - Len(s)]
        BY <3>1
      <3>3. QED
        BY <1>1, <1>2, <2>2, <3>2
    <2>3. QED
      BY <1>1, <1>2, <2>1, <2>2
  <1>4. l = u
    BY <1>1, <1>3, SeqEqual
  <1>5. QED
    BY <1>4 DEF l

LEMMA CopiesAre ==
  ASSUME NEW t \in Seq(Items), NEW k \in Nat
  PROVE  /\ Copies(t, k) \in Seq(Items) /\ Len(Copies(t, k)) = k * Len(t)
         /\ \A i \in 1..(k * Len(t)) : Copies(t, k)[i] = t[((i - 1) % Len(t)) + 1]
  <1> DEFINE n == Len(t)
  <1>1. n \in Nat /\ \A i \in 1..n : t[i] \in Items
    OBVIOUS
  <1> HIDE DEF n
  <1>2. k * n \in Nat
    BY <1>1, Multiple
  <1>3. \A i \in 1..(k * n) : ((i - 1) % n) + 1 \in 1..n
    <2> TAKE i \in 1..(k * n)
    <2>1. n > 0
      BY <1>1
    <2>2. i - 1 \in Nat
      BY <1>2
    <2>3. (i - 1) % n \in 0..(n - 1)
      BY <1>1, <2>1, <2>2
    <2>4. QED
      BY <1>1, <2>3
  <1>4. \A i \in 1..(k * n) : t[((i - 1) % n) + 1] \in Items
    BY <1>1, <1>3
  <1>5. Copies(t, k) = [i \in 1..(k * n) |-> t[((i - 1) % n) + 1]]
    BY DEF Copies, n
  <1>6. /\ Copies(t, k) \in Seq(Items) /\ Len(Copies(t, k)) = k * n
        /\ \A i \in 1..(k * n) : Copies(t, k)[i] = t[((i - 1) % n) + 1]
    BY <1>2, <1>4, <1>5
  <1>7. QED
    BY <1>6 DEF n

LEMMA CopiesGrow ==
  ASSUME NEW t \in Seq(Items), NEW k \in Nat
  PROVE  /\ Copies(t, k) \in Seq(Items)
         /\ Copies(t, 1) = t
         /\ Copies(t, k) \o t = Copies(t, k + 1)
         /\ t = <<>> => Copies(t, k) = <<>>
  <1> DEFINE n == Len(t)
             m == k * n
             s == Copies(t, k)
             u == Copies(t, k + 1)
             c == Copies(t, 1)
  <1>1. n \in Nat /\ m \in Nat /\ (k + 1) * n = m + n /\ 1 * n = n
    BY Multiple
  <1>2. s \in Seq(Items) /\ Len(s) = m /\ \A i \in 1..m : s[i] = t[((i - 1) % n) + 1]
    BY CopiesAre
  <1>3. /\ u \in Seq(Items) /\ Len(u) = m + n
        /\ \A i \in 1..(m + n) : u[i] = t[((i - 1) % n) + 1]
    <2> HIDE DEF m
    <2>0. k + 1 \in Nat
      OBVIOUS
    <2>1. /\ u \in Seq(Items) /\ Len(u) = (k + 1) * n
          /\ \A i \in 1..((k + 1) * n) : u[i] = t[((i - 1) % n) + 1]
      BY <2>0, CopiesAre
    <2> HIDE DEF u, n
    <2>2. QED
      BY <1>1, <2>1
  <1>4. /\ c \in Seq(Items) /\ Len(c) = n
        /\ \A i \in 1..n : c[i] = t[((i - 1) % n) + 1]
    <2>1. /\ c \in Seq(Items) /\ Len(c) = 1 * n
          /\ \A i \in 1..(1 * n) : c[i] = t[((i - 1) % n) + 1]
      BY CopiesAre
    <2> HIDE DEF c, n, m
    <2>2. QED
      BY <1>1, <2>1
  <1>5. ASSUME NEW r \in 0..(n - 1) PROVE (m + r) % n = r /\ r % n = r
    <2>1. n > 0
      BY <1>1
    <2>2. QED
      BY <1>1, <2>1, Remainder
  <1>6. c = t
    <2> HIDE DEF c, m
    <2>1. ASSUME NEW i \in 1..n PROVE c[i] = t[i]
      <3>1. i - 1 \in 0..(n - 1) /\ (i - 1) + 1 = i
        BY <1>1
      <3>2. (i - 1) % n = i - 1
        BY <1>5, <3>1
      <3>3. QED
        BY <1>4, <3>1, <3>2
    <2>2. QED
      BY <1>4, <2>1, SeqEqual
  <1>7. s \o t = u
    <2>1. ASSUME NEW i \in 1..n PROVE u[m + i] = t[i]
      <3> HIDE DEF m, n, u, s, c
      <3>1. i - 1 \in 0..(n - 1) /\ (i - 1) + 1 = i /\ m + i - 1 = m + (i - 1)
            /\ m + i \in 1..(m + n)
        BY <1>1
      <3>2. PICK j \in 1..(m + n) : j = m + i
        BY <3>1
      <3>3. j - 1 = m + (i - 1)
        BY <1>1, <3>2
      <3>4. (j - 1) % n = i - 1
        <4>1. (m + (i - 1)) % n = i - 1
          BY <1>5, <3>1
        <4>2. QED
          BY <3>3, <4>1
      <3>5. u[j] = t[((j - 1) % n) + 1]
        BY <1>3, <3>2
      <3>6. u[j] = t[i]
        BY <3>1, <3>4, <3>5
      <3>7. QED
        BY <3>2, <3>6
    <2> HIDE DEF m, u, s, c
    <2>2. ASSUME NEW i \in 1..m PROVE u[i] = s[i]
      <3>1. i \in 1..(m + n)
        BY <1>1
      <3>2. QED
        BY <1>2, <1>3, <3>1
    <2>3. QED
      BY <1>2, <1>3, <2>1, <2>2, ConcatIs
  <1>8. ASSUME t = <<>> PROVE s = <<>>
    <2>1. n = 0
      BY <1>8
    <2>2. k * 0 = 0
      OBVIOUS
    <2>3. m = 0
      BY <2>1, <2>2
    <2> HIDE DEF m, s
    <2>4. QED
      BY <1>2, <2>3
  <1>9. QED
    BY <1>2, <1>6, <1>7, <1>8

LEMMA CopiesOfNone == \A k \in Nat : Copies(<<>>, k) = <<>>
  <1> TAKE k \in Nat
  <1>1. <<>> \in Seq(Items)
    BY EmptySeq
  <1>2. QED
    BY <1>1, CopiesGrow

LEMMA EventsAre ==
  ASSUME RequestInv
  PROVE  IsFiniteSet(Events) /\ Cardinality(Events) \in 0..(3 * xmlhttp)
  <1>1. xmlhttp \in Nat
    BY DialogAssumption DEF RequestInv, RequestsTyped, DialogAssumption
  <1>2. IsFiniteSet(1..xmlhttp) /\ Cardinality(1..xmlhttp) = xmlhttp
    BY <1>1, FS_Interval
  <1>3. IsFiniteSet(2..4) /\ Cardinality(2..4) = 3
    <2>1. Cardinality(2..4) = 4 - 2 + 1 /\ IsFiniteSet(2..4)
      BY 2 \in Int, 4 \in Int, ~(2 > 4), FS_Interval
    <2>2. QED
      BY <2>1
  <1> DEFINE all == (1..xmlhttp) \X (2..4)
  <1>4. IsFiniteSet(all) /\ Cardinality(all) = xmlhttp * 3
    BY <1>2, <1>3, FS_Product
  <1>5. Events \in SUBSET all
    BY DEF Events
  <1> HIDE DEF all
  <1>6. IsFiniteSet(Events) /\ Cardinality(Events) <= Cardinality(all)
    BY <1>4, <1>5, FS_Subset
  <1>7. QED
    BY <1>1, <1>4, <1>6, FS_CardinalityType

\* Each event is a new one.
LEMMA EventsGrow ==
  ASSUME RequestInv, NEW s \in Searches, readystatechange(s)
  PROVE  Cardinality(Events') = Cardinality(Events) + 1
  <1> DEFINE e == <<s, xhr[s].ready + 1>>
  <1>1. /\ s <= xmlhttp /\ xhr[s].ready \in 1..3
        /\ xhr'[s] = [xhr[s] EXCEPT !.ready = xhr[s].ready + 1]
        /\ \A u \in Searches : u # s => xhr'[u] = xhr[u]
        /\ UNCHANGED xmlhttp /\ xhr[s] \in RequestType
    BY EventIs DEF RequestInv, RequestsTyped
  <1>2. xhr'[s].ready = xhr[s].ready + 1
    BY <1>1 DEF RequestType
  <1>3. xmlhttp \in 0..MaxActs /\ MaxActs \in Nat
    BY DialogAssumption DEF RequestInv, RequestsTyped, DialogAssumption
  <1>4. 1..xmlhttp \subseteq Searches /\ s \in 1..xmlhttp
    BY <1>1, <1>3 DEF Searches
  <1>5. xhr[s].ready + 1 \in 2..4 /\ xhr[s].ready \in Int
    BY <1>1
  <1>6. e \notin Events
    BY <1>5 DEF Events
  <1>7. Events' = Events \cup {e}
    <2>1. ASSUME NEW u \in 1..xmlhttp, NEW n \in 2..4
          PROVE  n <= xhr'[u].ready <=> n <= xhr[u].ready \/ <<u, n>> = e
      <3>1. CASE u # s
        BY <1>1, <1>4, <3>1
      <3>2. CASE u = s
        BY <1>2, <1>5, <3>2
      <3>3. QED
        BY <3>1, <3>2
    <2>2. e \in (1..xmlhttp) \X (2..4)
      BY <1>4, <1>5
    <2>3. Events' = {x \in (1..xmlhttp) \X (2..4) : x[2] <= xhr'[x[1]].ready}
      BY <1>1 DEF Events
    <2>4. \A x \in (1..xmlhttp) \X (2..4) :
             x[2] <= xhr'[x[1]].ready <=> x[2] <= xhr[x[1]].ready \/ x = e
      BY <2>1
    <2> HIDE DEF e
    <2>5. QED
      BY <2>2, <2>3, <2>4 DEF Events
  <1>8. QED
    BY <1>6, <1>7, EventsAre, FS_AddElement

LEMMA ListUnchanged ==
  ASSUME ListInv, MessageInv',
         UNCHANGED <<dialog, xmlhttp, list, loading, overlapped>>,
         \A s \in Searches : xhr'[s].ready = xhr[s].ready,
         xhr[xmlhttp].ready = 4 => xhr'[xmlhttp] = xhr[xmlhttp]
  PROVE  ListInv'
  <1>1. xmlhttp \in 0..MaxActs /\ MaxActs \in Nat
    BY DialogAssumption
       DEF ListInv, MessageInv, RequestInv, RequestsTyped, DialogAssumption
  <1>2. 1..xmlhttp \subseteq Searches /\ (xmlhttp > 0 => xmlhttp \in Searches)
    BY <1>1 DEF Searches
  <1>3. Events' = Events
    BY <1>2 DEF Events
  <1>4. OthersAreOver'
    BY DEF ListInv, OthersAreOver
  <1>5. ListIsCopies'
    BY <1>2, <1>3 DEF ListInv, ListIsCopies
  <1>6. QED
    BY <1>4, <1>5 DEF ListInv

LEMMA ListSend ==
  ASSUME ListInv, MessageInv', \/ search /\ dialog \notin CreationDialogs
                               \/ create /\ dialog \in CreationDialogs
  PROVE  ListInv'
  <1>1. PICK m \in SUBSET Items : Send(m)
    BY DialogAssumption DEF search, create, DialogAssumption
  <1>2. /\ xmlhttp' = xmlhttp + 1 /\ UNCHANGED dialog
        /\ xhr' = [xhr EXCEPT ![xmlhttp + 1] = [Idle EXCEPT !.ready = 1, !.matches = m]]
        /\ overlapped' = \E s \in 1..xmlhttp : xhr[s].ready < 4
        /\ count < MaxActs
    BY <1>1 DEF Send, serverVars
  <1>3. /\ xhr \in [Searches -> RequestType] /\ MaxActs \in Nat
        /\ xmlhttp \in 0..count /\ count \in 0..MaxActs
    BY DialogAssumption
       DEF ListInv, MessageInv, RequestInv, RequestsTyped, DialogAssumption
  <1>4. xmlhttp + 1 \in Searches /\ xmlhttp' \in Searches
    BY <1>2, <1>3 DEF Searches
  <1>5. /\ xhr'[xmlhttp'].ready = 1
        /\ \A s \in Searches : s < xmlhttp' => s \in 1..xmlhttp /\ xhr'[s] = xhr[s]
    BY <1>2, <1>3, <1>4, IdleIs DEF RequestType, Searches
  <1>6. overlapped' \in BOOLEAN
    BY <1>2
  <1>7. OthersAreOver'
    <2> SUFFICES ASSUME ~overlapped', NEW s \in Searches, s < xmlhttp'
                 PROVE  xhr'[s].ready = 4
      BY DEF OthersAreOver
    <2>1. ~(xhr[s].ready < 4) /\ xhr'[s] = xhr[s]
      BY <1>2, <1>5
    <2>2. xhr[s].ready \in 0..4
      BY <1>3 DEF RequestType
    <2>3. QED
      BY <2>1, <2>2
  <1>8. ListIsCopies'
    <2>1. CASE search
      <3>1. list' = <<>> /\ loading' = TRUE
        BY <2>1 DEF search
      <3>2. QED
        BY <1>5, <3>1 DEF ListIsCopies
    <2>2. CASE dialog \in CreationDialogs
      BY <1>2, <2>2 DEF ListIsCopies
    <2>3. QED
      BY <2>1, <2>2
  <1>9. loading' \in BOOLEAN
    BY DEF search, create, ListInv
  <1>10. QED
    BY <1>6, <1>7, <1>8, <1>9 DEF ListInv

LEMMA ListEvent ==
  ASSUME ListInv, MessageInv', NEW s \in Searches, readystatechange(s)
  PROVE  ListInv'
  <1> DEFINE last == xhr[xmlhttp]
             next == xhr'[xmlhttp]
  <1>1. RequestInv /\ RequestInv'
    BY DEF ListInv, MessageInv
  <1>2. /\ s <= xmlhttp /\ xhr[s].ready \in 1..3
        /\ xhr'[s] = [xhr[s] EXCEPT !.ready = xhr[s].ready + 1]
        /\ \A u \in Searches : u # s => xhr'[u] = xhr[u]
        /\ UNCHANGED <<dialog, xmlhttp, overlapped>> /\ xmlhttp \in Searches
        /\ xhr[s] \in RequestType
    BY <1>1, EventIs DEF RequestInv, RequestsTyped, serverVars
  <1>3. Searches \subseteq Nat
    BY DEF Searches
  <1>4. loading' \in BOOLEAN
    BY <1>1, EventShows DEF ListInv
  <1>5. ~overlapped => s = xmlhttp
    BY <1>2, <1>3 DEF ListInv, OthersAreOver
  <1>6. OthersAreOver'
    BY <1>2, <1>3, <1>5 DEF ListInv, OthersAreOver
  <1>7. ListIsCopies'
    <2> SUFFICES ASSUME dialog \notin CreationDialogs PROVE ListIsCopies'
      BY <1>2 DEF ListIsCopies
    <2>1. xmlhttp > 0
      BY <1>2 DEF Searches
    <2>2. Expected = 200
      BY DEF Expected
    <2>3. Cardinality(Events') = Cardinality(Events) + 1 /\ Cardinality(Events) \in Nat
      BY <1>1, EventsAre, EventsGrow
    <2>4. next.results \in Seq(Items)
      BY <1>1, <1>2 DEF RequestInv, RequestsTyped, RequestType
    <2>5. /\ last.ready = 4 => s # xmlhttp /\ next = last
          /\ s = xmlhttp => last.ready # 4
      BY <1>2
    <2>6. CASE ~(next.ready = 4 /\ next.status = 200)
      <3>1. UNCHANGED <<list, loading>>
        BY <1>1, <2>2, <2>6, EventShows
      <3>2. ~(last.ready = 4 /\ last.status = 200)
        BY <2>5, <2>6
      <3>3. QED
        BY <1>2, <2>1, <2>6, <3>1, <3>2 DEF ListInv, ListIsCopies
    <2>7. CASE next.ready = 4 /\ next.status = 200
      <3>1. list' = list \o next.results /\ loading' = FALSE
        BY <1>1, <2>2, <2>7, EventShows
      <3>2. CASE last.ready = 4 /\ last.status = 200
        <4>1. PICK k \in 1..Cardinality(Events) : list = Copies(last.results, k)
          BY <2>1, <3>2 DEF ListInv, ListIsCopies
        <4>0. k \in Nat
          BY <2>3
        <4>5. Copies(next.results, k) \o next.results = Copies(next.results, k + 1)
          BY <2>4, <4>0, CopiesGrow
        <4>2. list' = Copies(next.results, k + 1)
          BY <2>5, <3>1, <3>2, <4>1, <4>5
        <4>3. k + 1 \in 1..Cardinality(Events') /\ overlapped
          BY <1>5, <2>3, <2>5, <3>2
        <4>4. QED
          BY <1>2, <2>7, <3>1, <4>2, <4>3 DEF ListIsCopies
      <3>3. CASE ~(last.ready = 4 /\ last.status = 200)
        <4>1. list = <<>>
          BY <2>1, <3>3 DEF ListInv, ListIsCopies
        <4>2. list' = next.results
          BY <2>4, <3>1, <4>1, ConcatEmptySeq
        <4>3. list' = Copies(next.results, 1) /\ 1 \in 1..Cardinality(Events')
          BY <2>3, <2>4, <4>2, CopiesGrow
        <4>4. QED
          BY <1>2, <2>7, <3>1, <4>3 DEF ListIsCopies
      <3>4. QED
        BY <3>2, <3>3
    <2>8. QED
      BY <2>6, <2>7
  <1>8. QED
    BY <1>2, <1>4, <1>6, <1>7 DEF ListInv

LEMMA ListNext == ASSUME ListInv, [DialogNext]_dialogVars PROVE ListInv'
  <1>1. RequestInv /\ MessageInv /\ MessageInv'
    BY MessageNext DEF ListInv, MessageInv
  <1>2. ASSUME NEW s \in Searches, Responding(s) PROVE ListInv'
    <2>1. /\ UNCHANGED <<dialog, xmlhttp, list, loading, overlapped>>
          /\ ~xhr[s].answered /\ xhr \in [Searches -> RequestType]
          /\ \A u \in Searches : u # s => xhr'[u] = xhr[u]
          /\ xhr'[s].ready = xhr[s].ready
      BY <1>1, <1>2
         DEF Responding, Respond, scriptVars, serverVars, RequestType, RequestInv, RequestsTyped
    <2>2. xhr[s].ready # 4
      BY <1>1, <2>1 DEF RequestInv, RequestOK
    <2>3. \A u \in Searches : xhr'[u].ready = xhr[u].ready
      BY <2>1
    <2>4. CASE xmlhttp \in Searches
      BY <1>1, <2>1, <2>2, <2>3, <2>4, ListUnchanged
    <2>5. CASE xmlhttp \notin Searches
      <3>1. xhr[s].ready > 0
        BY <1>2 DEF Responding, Respond
      <3>2. ~(s > xmlhttp)
        BY <1>1, <3>1, IdleIs DEF RequestInv, RequestOK
      <3>3. s \in Nat /\ s >= 1 /\ MaxActs \in Nat /\ xmlhttp \in 0..MaxActs
        BY <1>1, DialogAssumption DEF Searches, DialogAssumption, RequestInv, RequestsTyped
      <3>4. xmlhttp \in Searches
        BY <3>2, <3>3 DEF Searches
      <3>5. QED
        BY <2>5, <3>4
    <2>6. QED
      BY <2>4, <2>5
  <1>3. CASE \/ dialog \notin CreationDialogs /\ search
             \/ dialog \in CreationDialogs /\ create
    BY <1>1, <1>3, ListSend
  <1>4. CASE select \/ cancel \/ Intrude \/ message \/ UNCHANGED dialogVars
    <2>1. UNCHANGED <<dialog, xhr, xmlhttp, list, loading, overlapped>>
      BY <1>4 DEF select, cancel, sendResponse, Intrude, message, dialogVars, serverVars,
         scriptVars
    <2>2. QED
      BY <1>1, <2>1, ListUnchanged
  <1>5. CASE \E s \in Searches : readystatechange(s)
    BY <1>1, <1>5, ListEvent
  <1>6. QED
    BY <1>1, <1>2, <1>3, <1>4, <1>5, DialogSteps

\* The list shows the answer to the last search and nothing of the searches before, in any
\* order of the answers, for any number of searches under way.
THEOREM ShowsLastSearch == DialogSpec => []ListShowsLastSearch
  <1>1. ASSUME DialogInit PROVE ListInv
    <2>1. xmlhttp = 0 /\ loading = FALSE /\ overlapped = FALSE
      BY <1>1 DEF DialogInit
    <2>2. MessageInv
      BY <1>1, MessageInit
    <2>3. \A s \in Searches : ~(s < 0)
      BY DEF Searches
    <2>4. OthersAreOver
      BY <2>1, <2>3 DEF OthersAreOver
    <2>5. ListIsCopies
      <3>1. ~(xmlhttp > 0)
        BY <2>1
      <3>2. QED
        BY <3>1 DEF ListIsCopies
    <2>6. QED
      BY <2>1, <2>2, <2>4, <2>5 DEF ListInv
  <1>2. ListInv /\ [DialogNext]_dialogVars => ListInv'
    BY ListNext
  <1>3. ASSUME ListInv PROVE ListShowsLastSearch
    <2> DEFINE last == xhr[xmlhttp]
    <2> SUFFICES ASSUME xmlhttp > 0, dialog \notin CreationDialogs,
                        last.ready = 4, last.status = 200
                 PROVE  IF last.results # <<>>
                        THEN \E k \in 1..(IF overlapped THEN 3 * xmlhttp ELSE 1) :
                                 list = Copies(last.results, k)
                        ELSE list = <<>>
      <3>1. CASE ~(last.ready = 4 /\ last.status = 200)
        BY <1>3, <3>1 DEF ListShowsLastSearch, ListInv, ListIsCopies
      <3>2. CASE last.ready = 4 /\ last.status = 200
        BY <1>3, <3>2 DEF ListShowsLastSearch, ListInv, ListIsCopies
      <3>3. QED
        BY <3>1, <3>2
    <2>1. PICK k \in 1..Cardinality(Events) :
             (~overlapped => k = 1) /\ list = Copies(last.results, k)
      BY <1>3 DEF ListInv, ListIsCopies
    <2>2. RequestInv /\ Cardinality(Events) \in 0..(3 * xmlhttp) /\ xmlhttp \in Nat
      BY <1>3, EventsAre, DialogAssumption
         DEF ListInv, MessageInv, RequestInv, RequestsTyped, DialogAssumption
    <2>3. last.results \in Seq(Items)
      <3>1. xmlhttp \in Searches
        BY <2>2, DialogAssumption DEF RequestInv, RequestsTyped, DialogAssumption, Searches
      <3>2. QED
        BY <2>2, <3>1 DEF RequestInv, RequestsTyped, RequestType
    <2>4. k \in 1..(IF overlapped THEN 3 * xmlhttp ELSE 1)
      BY <2>1, <2>2
    <2>5. last.results = <<>> => list = <<>>
      <3>1. k \in Nat
        BY <2>2
      <3>2. Copies(<<>>, k) = <<>>
        BY <3>1, CopiesOfNone
      <3>3. list = Copies(last.results, k)
        BY <2>1
      <3> HIDE DEF last
      <3>4. QED
        BY <3>2, <3>3
    <2>6. QED
      BY <2>1, <2>4, <2>5
  <1>4. QED
    BY <1>1, <1>2, <1>3, PTL DEF DialogSpec
-----------------------------------------------------------------------------
(***************************************************************************)
(* UiPreview: what is known of the timers and of the pointer.              *)
(***************************************************************************)
TimerType == [task : {"show", "hover", "hide", "gone"}, of : Popovers, due : Int]
PointerType == {Away} \cup {OnLink(l) : l \in Links} \cup {OnTip(p) : p \in Popovers}

PreviewTyped ==
    /\ fadeTime \in FadeTimes /\ links \subseteq Links
    /\ made \in [Links -> Nat] /\ isPopoverShown \in [Popovers -> BOOLEAN]
    /\ timers \subseteq TimerType /\ tips \in Seq(Popovers)
    /\ pointer \in PointerType /\ misplaced \in BOOLEAN
    /\ disposed = {p \in Popovers : p[2] < made[p[1]]}

\* No timer is late, nor has longer to run than when it was started.
InTime(t) ==
    /\ t.due >= 0
    /\ t.task = "hover" => t.due <= AttachDelay
    /\ t.task = "hide" => t.due <= HideDelay
    /\ t.task = "gone" => t.due <= fadeTime

\* A popover is about to be shown only for the link that the pointer is on, and by handlers
\* that hear it leave.
ShowIsWanted(t) == t.task = "show" => pointer = OnLink(t.of[1]) /\ t.of[2] <= made[t.of[1]]

PreviewInv ==
    /\ PreviewTyped
    /\ \A t \in timers : InTime(t) /\ ShowIsWanted(t)
    /\ \A l \in Links : pointer = OnLink(l) => l \in links

LEMMA PlacesDiffer ==
    /\ \A l \in Links : Away # OnLink(l)
    /\ \A p \in Popovers : Away # OnTip(p)
    /\ \A l \in Links, p \in Popovers : OnLink(l) # OnTip(p)
    /\ \A l, m \in Links : OnLink(l) = OnLink(m) => l = m
    /\ \A p, q \in Popovers : OnTip(p) = OnTip(q) => p = q
    /\ \A l \in Links : OnLink(l)[2] = l
    /\ \A p \in Popovers : OnTip(p)[2] = p
  BY DEF Away, OnLink, OnTip

LEMMA Delays ==
    /\ AttachDelay \in Nat /\ HideDelay \in Nat /\ ShowDelay \in Nat
    /\ FadeTimes \subseteq Nat
    /\ 0 < AttachDelay /\ AttachDelay < HideDelay /\ HideDelay < ShowDelay
    /\ \A f \in FadeTimes : f < ShowDelay
  BY PreviewAssumption DEF PreviewAssumption

LEMMA PopoverIs == \A p \in Popovers : p[1] \in Links /\ p[2] \in Nat /\ p[2] >= 1
                                       /\ p = <<p[1], p[2]>>
  BY DEF Popovers

\* The popovers that are not disposed of are the last ones of their links.
LEMMA LastIsOnlyOne ==
  ASSUME PreviewTyped, NEW p \in Popovers, NEW q \in Popovers,
         p \notin disposed, q \notin disposed, p[1] = q[1],
         p[2] <= made[p[1]], q[2] <= made[q[1]]
  PROVE  p = q
  <1>1. p[2] = made[p[1]] /\ q[2] = made[q[1]]
    BY PopoverIs DEF PreviewTyped
  <1>2. QED
    BY <1>1, PopoverIs

LEMMA TimerIs ==
  ASSUME NEW task \in {"show", "hover", "hide", "gone"}, NEW p \in Popovers, NEW n \in Int
  PROVE  /\ Timer(task, p, n) \in TimerType
         /\ Timer(task, p, n).task = task /\ Timer(task, p, n).of = p
         /\ Timer(task, p, n).due = n
  BY DEF Timer, TimerType

LEMMA OfIs == \A l \in Links : Of(l) \subseteq Popovers
  BY DEF Of

LEMMA TipsIs == ASSUME PreviewTyped PROVE ToSet(tips) \subseteq Popovers
  BY DEF PreviewTyped, ToSet
-----------------------------------------------------------------------------
(***************************************************************************)
(* The pointer.                                                            *)
(***************************************************************************)
Hides(t, p) == t.task = "hide" /\ t.of = p

\* What is on its way in ts stays in us.
Continues(ts, us) == \A t \in ts : t.task \in {"hover", "gone"} => t \in us

LEMMA HidePopover ==
  ASSUME NEW ts \in SUBSET TimerType, NEW P \in SUBSET Popovers
  PROVE  /\ \A t \in hidePopover(ts, P) :
               /\ t \in ts \/ \E p \in P : t = Timer("hide", p, HideDelay)
               /\ t.task = "show" => t \in ts /\ t.of \notin P
         /\ Continues(ts, hidePopover(ts, P))
         /\ \A p \in P : Timer("hide", p, HideDelay) \in hidePopover(ts, P)
         /\ \A t \in ts : t.of \notin P => t \in hidePopover(ts, P)
  <1>1. \A t : t \in hidePopover(ts, P) <=>
                  \/ t \in ts /\ (t.of \in P => t.task # "show" /\ t.task # "hide")
                  \/ \E p \in P : t = Timer("hide", p, HideDelay)
    BY DEF hidePopover, clearTimeouts, clearTimeout
  <1>2. \A p \in P : Timer("hide", p, HideDelay).task = "hide"
    BY TimerIs, Delays
  <1>3. QED
    BY <1>1, <1>2 DEF Continues

LEMMA ShowPopover ==
  ASSUME NEW ts \in SUBSET TimerType, NEW P \in SUBSET Popovers
  PROVE  /\ \A t \in showPopover(ts, P) :
               t \in ts \/ \E p \in P : ~isPopoverShown[p] /\ t = Timer("show", p, ShowDelay)
         /\ Continues(ts, showPopover(ts, P))
         /\ \A t \in ts : t.of \notin P \/ isPopoverShown[t.of] = TRUE => t \in showPopover(ts, P)
         /\ \A t \in showPopover(ts, P) : t.of \in P /\ ~isPopoverShown[t.of] => t.task # "hide"
  <1> DEFINE Q == {p \in P : ~isPopoverShown[p]}
  <1>1. \A t : t \in showPopover(ts, P) <=>
                  \/ t \in ts /\ (t.of \in Q => t.task # "show" /\ t.task # "hide")
                  \/ \E p \in Q : t = Timer("show", p, ShowDelay)
    BY DEF showPopover, clearTimeouts, clearTimeout
  <1>2. \A p \in P : Timer("show", p, ShowDelay).task = "show"
    BY TimerIs, Delays
  <1>3. QED
    BY <1>1, <1>2 DEF Continues

\* What the pointer leaves will be hidden, and nothing will be shown.
LEMMA Leaving ==
  ASSUME PreviewInv, NEW ts, ts = mouseleave(timers, pointer)
  PROVE  /\ \A t \in ts : /\ t \in timers \/ \E p \in Popovers : t = Timer("hide", p, HideDelay)
                          /\ t.task # "show"
         /\ Continues(timers, ts)
         /\ \A p \in Popovers :
               \/ pointer = OnLink(p[1]) /\ p[2] <= made[p[1]]
               \/ pointer = OnTip(p) /\ <<p, p>> \in listeners
               \/ \E t \in timers : Hides(t, p)
               => \E t \in ts : Hides(t, p)
  <1> DEFINE Left == /\ \A t \in ts : /\ t \in timers
                                         \/ \E p \in Popovers : t = Timer("hide", p, HideDelay)
                                      /\ t.task # "show"
                     /\ Continues(timers, ts)
                     /\ \A p \in Popovers :
                           \/ pointer = OnLink(p[1]) /\ p[2] <= made[p[1]]
                           \/ pointer = OnTip(p) /\ <<p, p>> \in listeners
                           \/ \E t \in timers : Hides(t, p)
                           => \E t \in ts : Hides(t, p)
  <1>0. timers \in SUBSET TimerType /\ pointer \in PointerType
    BY DEF PreviewInv, PreviewTyped
  <1>1. CASE pointer = Away
    <2>1. ts = timers
      BY <1>1, PlacesDiffer DEF mouseleave
    <2>2. \A t \in timers : t.task # "show"
      BY <1>0, <1>1, PlacesDiffer, PopoverIs DEF PreviewInv, ShowIsWanted, TimerType
    <2>3. \A p \in Popovers : pointer # OnLink(p[1]) /\ pointer # OnTip(p)
      BY <1>1, PlacesDiffer, PopoverIs
    <2>4. QED
      BY <2>1, <2>2, <2>3 DEF Continues
  <1>2. ASSUME NEW P \in SUBSET Popovers, ts = hidePopover(timers, P),
               \A t \in timers : t.task = "show" => t.of \in P,
               \A p \in Popovers : pointer = OnLink(p[1]) /\ p[2] <= made[p[1]] => p \in P,
               \A p \in Popovers : pointer = OnTip(p) /\ <<p, p>> \in listeners => p \in P
        PROVE  Left
    <2>1. \A t \in ts : /\ t \in timers \/ \E p \in P : t = Timer("hide", p, HideDelay)
                        /\ t.task = "show" => t \in timers /\ t.of \notin P
      BY <1>0, <1>2, HidePopover
    <2>2. Continues(timers, ts)
      <3>1. Continues(timers, hidePopover(timers, P))
        BY <1>0, HidePopover
      <3>2. QED
        BY <1>2, <3>1
    <2>3. ASSUME NEW p \in Popovers, p \in P \/ \E t \in timers : Hides(t, p)
          PROVE  \E t \in ts : Hides(t, p)
      <3>1. CASE p \in P
        <4>1. Timer("hide", p, HideDelay) \in ts
          BY <1>0, <1>2, <3>1, HidePopover
        <4>2. Hides(Timer("hide", p, HideDelay), p)
          BY TimerIs, Delays DEF Hides
        <4>3. QED
          BY <4>1, <4>2
      <3>2. CASE p \notin P
        BY <1>0, <1>2, <2>3, <3>2, HidePopover DEF Hides
      <3>3. QED
        BY <3>1, <3>2
    <2>4. QED
      BY <1>2, <2>1, <2>2, <2>3
  <1>3. ASSUME NEW l \in Links, pointer = OnLink(l) PROVE Left
    <2>1. ts = hidePopover(timers, Of(l)) /\ Of(l) \in SUBSET Popovers
      BY <1>3, PlacesDiffer, OfIs DEF mouseleave
    <2>2. \A p \in Popovers : pointer = OnLink(p[1]) /\ p[2] <= made[p[1]] => p \in Of(l)
      BY <1>3, PlacesDiffer, PopoverIs DEF Of
    <2>3. \A t \in timers : t.task = "show" => t.of \in Of(l)
      BY <1>0, <2>2 DEF PreviewInv, ShowIsWanted, TimerType
    <2>4. \A p \in Popovers : pointer # OnTip(p)
      BY <1>3, PlacesDiffer
    <2>5. QED
      BY <1>2, <2>1, <2>2, <2>3, <2>4
  <1>4. ASSUME NEW q \in Popovers, pointer = OnTip(q) PROVE Left
    <2>1. ts = hidePopover(timers, Hearing(q)) /\ Hearing(q) \in SUBSET Popovers
      BY <1>4, PlacesDiffer DEF mouseleave, Hearing
    <2>2. \A p \in Popovers : pointer # OnLink(p[1])
      BY <1>4, PlacesDiffer, PopoverIs
    <2>3. \A t \in timers : t.task # "show"
      BY <1>0, <2>2 DEF PreviewInv, ShowIsWanted, TimerType
    <2>4. \A p \in Popovers : pointer = OnTip(p) /\ <<p, p>> \in listeners => p \in Hearing(q)
      BY <1>4, PlacesDiffer DEF Hearing
    <2>5. QED
      BY <1>2, <2>1, <2>2, <2>3, <2>4
  <1>5. QED
    BY <1>0, <1>1, <1>3, <1>4 DEF PointerType

\* Where it comes to, what is not shown will be shown, and what is shown stays.
LEMMA Entering ==
  ASSUME PreviewInv, NEW ts \in SUBSET TimerType, NEW place \in Places,
         NEW us, us = mouseenter(ts, place)
  PROVE  /\ \A t \in us : \/ t \in ts
                          \/ \E p \in Popovers :
                                /\ t = Timer("show", p, ShowDelay) /\ ~isPopoverShown[p]
                                /\ place = OnLink(p[1]) /\ p[2] <= made[p[1]]
         /\ Continues(ts, us)
         /\ \A t \in ts : \/ t \in us
                          \/ place = OnLink(t.of[1]) /\ ~isPopoverShown[t.of]
                          \/ \E p \in Popovers : place = OnTip(p) /\ <<p, t.of>> \in listeners
         /\ \A t \in us : /\ t.task = "hide" /\ place = OnLink(t.of[1])
                          /\ t.of[2] <= made[t.of[1]]
                          => isPopoverShown[t.of]
         /\ place \in PointerType /\ \A l \in Links : place = OnLink(l) => l \in links
  <1>0. /\ isPopoverShown \in [Popovers -> BOOLEAN]
        /\ ToSet(tips) \subseteq Popovers /\ links \subseteq Links
    BY TipsIs DEF PreviewInv, PreviewTyped
  <1>1. CASE place = Away
    <2>1. us = ts
      BY <1>1, PlacesDiffer DEF mouseenter
    <2>2. \A t \in ts : t.of[1] \in Links
      BY PopoverIs DEF TimerType
    <2>3. QED
      BY <1>1, <2>1, <2>2, PlacesDiffer DEF Continues, PointerType
  <1>2. ASSUME NEW l \in links, place = OnLink(l)
        PROVE  /\ \A t \in us : \/ t \in ts
                                \/ \E p \in Popovers :
                                      /\ t = Timer("show", p, ShowDelay) /\ ~isPopoverShown[p]
                                      /\ place = OnLink(p[1]) /\ p[2] <= made[p[1]]
               /\ Continues(ts, us)
               /\ \A t \in ts : t \in us \/ (place = OnLink(t.of[1]) /\ ~isPopoverShown[t.of])
               /\ \A t \in us : /\ t.task = "hide" /\ place = OnLink(t.of[1])
                                /\ t.of[2] <= made[t.of[1]]
                                => isPopoverShown[t.of]
    <2>1. us = showPopover(ts, Of(l)) /\ Of(l) \in SUBSET Popovers
      BY <1>0, <1>2, PlacesDiffer, OfIs DEF mouseenter
    <2>2. \A p \in Of(l) : p \in Popovers /\ place = OnLink(p[1]) /\ p[2] <= made[p[1]]
      BY <1>2 DEF Of
    <2>3. \A t \in us : t \in ts \/ \E p \in Of(l) : ~isPopoverShown[p]
                                                     /\ t = Timer("show", p, ShowDelay)
      <3>1. \A t \in showPopover(ts, Of(l)) :
               t \in ts \/ \E p \in Of(l) : ~isPopoverShown[p] /\ t = Timer("show", p, ShowDelay)
        BY <2>1, ShowPopover
      <3>2. QED
        BY <2>1, <3>1
    <2>4. Continues(ts, us)
      BY <2>1, ShowPopover
    <2>5. \A t \in ts : t.of \notin Of(l) \/ isPopoverShown[t.of] = TRUE => t \in us
      BY <2>1, ShowPopover
    <2>6. \A t \in us : t.of \in Of(l) /\ ~isPopoverShown[t.of] => t.task # "hide"
      BY <2>1, ShowPopover
    <2>7. ASSUME NEW t \in us, t.task = "hide", place = OnLink(t.of[1]), t.of[2] <= made[t.of[1]]
          PROVE  isPopoverShown[t.of]
      <3>1. t.of \in Popovers
        <4>1. t \in ts
          BY <2>3, <2>7 DEF Timer
        <4>2. QED
          BY <4>1 DEF TimerType
      <3>2. t.of \in Of(l)
        <4>1. t.of[1] \in Links /\ l \in Links
          BY <1>0, <3>1, PopoverIs
        <4>2. t.of[1] = l
          BY <1>2, <2>7, <4>1, PlacesDiffer
        <4>3. QED
          BY <2>7, <3>1, <4>2 DEF Of
      <3>3. QED
        BY <2>6, <2>7, <3>2
    <2>8. ASSUME NEW t \in ts, t \notin us
          PROVE  place = OnLink(t.of[1]) /\ ~isPopoverShown[t.of]
      <3>1. t.of \in Of(l) /\ isPopoverShown[t.of] # TRUE
        BY <2>5, <2>8
      <3>2. t.of \in Popovers
        BY <2>2, <3>1
      <3>3. QED
        BY <1>0, <2>2, <3>1, <3>2
    <2>9. QED
      BY <2>2, <2>3, <2>4, <2>7, <2>8
  <1>3. ASSUME NEW q \in Popovers, place = OnTip(q)
        PROVE  /\ us \subseteq ts /\ Continues(ts, us)
               /\ \A t \in ts : t \in us \/ <<q, t.of>> \in listeners
    <2>1. us = clearTimeout(ts, "hide", Hearing(q))
      BY <1>3, PlacesDiffer DEF mouseenter
    <2>2. \A t : t \in us <=> t \in ts /\ (t.task # "hide" \/ t.of \notin Hearing(q))
      BY <2>1 DEF clearTimeout
    <2>3. QED
      BY <2>2 DEF Continues, Hearing
  <1>4. place = Away \/ (\E l \in links : place = OnLink(l))
                     \/ (\E p \in Popovers : place = OnTip(p))
    BY <1>0 DEF Places
  <1>5. CASE \E l \in links : place = OnLink(l)
    <2>1. PICK l \in links : place = OnLink(l)
      BY <1>5
    <2>2. l \in Links /\ place \in PointerType
      BY <1>0, <2>1 DEF PointerType
    <2>3. \A m \in Links : place = OnLink(m) => m \in links
      BY <2>1, <2>2, PlacesDiffer
    <2>4. QED
      BY <1>2, <2>1, <2>2, <2>3
  <1>6. CASE \E p \in Popovers : place = OnTip(p)
    <2>1. PICK q \in Popovers : place = OnTip(q)
      BY <1>6
    <2>2. \A t \in ts : t.of[1] \in Links
      BY PopoverIs DEF TimerType
    <2>3. us \subseteq ts /\ Continues(ts, us)
          /\ \A t \in ts : t \in us \/ <<q, t.of>> \in listeners
      BY <1>3, <2>1
    <2>4. place \in PointerType /\ \A l \in Links : place # OnLink(l)
      BY <2>1, PlacesDiffer DEF PointerType
    <2>5. QED
      BY <2>1, <2>2, <2>3, <2>4
  <1>7. QED
    BY <1>1, <1>4, <1>5, <1>6

LEMMA Moved ==
  ASSUME PreviewInv, NEW place \in Places, Move(place)
  PROVE  /\ \A t \in timers' :
               \/ t \in timers /\ t.task # "show"
               \/ \E p \in Popovers : t = Timer("hide", p, HideDelay)
               \/ \E p \in Popovers : /\ t = Timer("show", p, ShowDelay) /\ ~isPopoverShown[p]
                                      /\ place = OnLink(p[1]) /\ p[2] <= made[p[1]]
         /\ Continues(timers, timers')
         /\ \A p \in Popovers :
               \/ pointer = OnLink(p[1]) /\ p[2] <= made[p[1]]
               \/ pointer = OnTip(p) /\ <<p, p>> \in listeners
               \/ \E t \in timers : Hides(t, p)
               => \/ \E t \in timers' : Hides(t, p)
                  \/ place = OnLink(p[1]) /\ ~isPopoverShown[p]
                  \/ \E q \in Popovers : place = OnTip(q) /\ <<q, p>> \in listeners
         /\ \A t \in timers' : /\ t.task = "hide" /\ place = OnLink(t.of[1])
                               /\ t.of[2] <= made[t.of[1]]
                               => isPopoverShown[t.of]
         /\ place \in PointerType /\ \A l \in Links : place = OnLink(l) => l \in links
  <1>1. PICK ts : ts = mouseleave(timers, pointer)
    OBVIOUS
  <1>2. PICK us : us = mouseenter(ts, place) /\ us = timers'
    BY <1>1 DEF Move
  <1>3. /\ \A t \in ts : /\ t \in timers \/ \E p \in Popovers : t = Timer("hide", p, HideDelay)
                         /\ t.task # "show"
        /\ Continues(timers, ts)
        /\ \A p \in Popovers :
              \/ pointer = OnLink(p[1]) /\ p[2] <= made[p[1]]
              \/ pointer = OnTip(p) /\ <<p, p>> \in listeners
              \/ \E t \in timers : Hides(t, p)
              => \E t \in ts : Hides(t, p)
    BY <1>1, Leaving
  <1>4. ts \in SUBSET TimerType
    BY <1>3, TimerIs, Delays DEF PreviewInv, PreviewTyped
  <1>5. /\ \A t \in us : \/ t \in ts
                         \/ \E p \in Popovers :
                               /\ t = Timer("show", p, ShowDelay) /\ ~isPopoverShown[p]
                               /\ place = OnLink(p[1]) /\ p[2] <= made[p[1]]
        /\ Continues(ts, us)
        /\ \A t \in ts : \/ t \in us
                         \/ place = OnLink(t.of[1]) /\ ~isPopoverShown[t.of]
                         \/ \E p \in Popovers : place = OnTip(p) /\ <<p, t.of>> \in listeners
        /\ \A t \in us : /\ t.task = "hide" /\ place = OnLink(t.of[1])
                         /\ t.of[2] <= made[t.of[1]]
                         => isPopoverShown[t.of]
        /\ place \in PointerType /\ \A l \in Links : place = OnLink(l) => l \in links
    BY <1>2, <1>4, Entering
  <1>6. Continues(timers, us)
    BY <1>3, <1>5 DEF Continues
  <1>7. \A p \in Popovers : (\E t \in ts : Hides(t, p)) =>
            \/ \E t \in us : Hides(t, p)
            \/ place = OnLink(p[1]) /\ ~isPopoverShown[p]
            \/ \E q \in Popovers : place = OnTip(q) /\ <<q, p>> \in listeners
    BY <1>5 DEF Hides
  <1>8. \A t \in us :
           \/ t \in timers /\ t.task # "show"
           \/ \E p \in Popovers : t = Timer("hide", p, HideDelay)
           \/ \E p \in Popovers : /\ t = Timer("show", p, ShowDelay) /\ ~isPopoverShown[p]
                                  /\ place = OnLink(p[1]) /\ p[2] <= made[p[1]]
    BY <1>3, <1>5
  <1>9. QED
    BY <1>2, <1>3, <1>5, <1>6, <1>7, <1>8

LEMMA Ticked ==
  ASSUME PreviewInv, Tick
  PROVE  /\ \A u \in timers' : \E t \in timers :
               /\ u = [t EXCEPT !.due = @ - 1] /\ u \in TimerType /\ t.due > 0
               /\ u.task = t.task /\ u.of = t.of /\ u.due = t.due - 1
         /\ \A t \in timers : \E u \in timers' :
               u.task = t.task /\ u.of = t.of /\ u.due = t.due - 1
  <1>1. timers' = {[t EXCEPT !.due = @ - 1] : t \in timers} /\ \A t \in timers : t.due > 0
    BY DEF Tick
  <1>2. timers \subseteq TimerType
    BY DEF PreviewInv, PreviewTyped
  <1>3. \A t \in timers : /\ [t EXCEPT !.due = @ - 1] \in TimerType
                          /\ [t EXCEPT !.due = @ - 1].task = t.task
                          /\ [t EXCEPT !.due = @ - 1].of = t.of
                          /\ [t EXCEPT !.due = @ - 1].due = t.due - 1
    BY <1>2 DEF TimerType
  <1>4. QED
    BY <1>1, <1>3
-----------------------------------------------------------------------------
(***************************************************************************)
(* The tips.                                                               *)
(***************************************************************************)
TipsDiffer(s) == \A i, j \in 1..Len(s) : s[i] = s[j] => i = j

LEMMA TipAppended ==
  ASSUME NEW s \in Seq(Popovers), NEW p \in Popovers
  PROVE  /\ Append(s, p) \in Seq(Popovers) /\ ToSet(Append(s, p)) = ToSet(s) \cup {p}
         /\ TipsDiffer(s) /\ p \notin ToSet(s) => TipsDiffer(Append(s, p))
         /\ s = <<>> => Append(s, p)[1] = p
  <1>1. PICK t : t = Append(s, p)
    OBVIOUS
  <1>2. /\ t \in Seq(Popovers) /\ Len(t) = Len(s) + 1 /\ Len(s) \in Nat
        /\ \A i \in 1..Len(s) : t[i] = s[i]
        /\ t[Len(s) + 1] = p
    BY <1>1
  <1>3. DOMAIN s = 1..Len(s) /\ DOMAIN t = 1..Len(t)
    BY <1>2
  <1>4. \A x : x \in ToSet(s) <=> \E i \in 1..Len(s) : s[i] = x
    BY <1>3 DEF ToSet
  <1>5. \A x : x \in ToSet(t) <=> \E i \in 1..Len(t) : t[i] = x
    BY <1>3 DEF ToSet
  <1>6. \A i \in 1..Len(t) : i \in 1..Len(s) \/ i = Len(s) + 1
    BY <1>2
  <1>7. \A i \in 1..Len(s) : i \in 1..Len(t)
    BY <1>2
  <1>8. Len(s) + 1 \in 1..Len(t)
    BY <1>2
  <1>9. ToSet(t) = ToSet(s) \cup {p}
    BY <1>2, <1>4, <1>5, <1>6, <1>7, <1>8
  <1>10. TipsDiffer(s) /\ p \notin ToSet(s) => TipsDiffer(t)
    BY <1>2, <1>4, <1>6 DEF TipsDiffer
  <1>11. s = <<>> => t[1] = p
    BY <1>2
  <1>12. QED
    BY <1>1, <1>2, <1>9, <1>10, <1>11

LEMMA TipRemoved ==
  ASSUME NEW s \in Seq(Popovers), NEW k \in 1..Len(s)
  PROVE  /\ RemoveAt(s, k) \in Seq(Popovers) /\ ToSet(RemoveAt(s, k)) \subseteq ToSet(s)
         /\ TipsDiffer(s) => /\ TipsDiffer(RemoveAt(s, k))
                             /\ ToSet(RemoveAt(s, k)) = ToSet(s) \ {s[k]}
  <1>1. PICK a : a = SubSeq(s, 1, k - 1)
    OBVIOUS
  <1>2. PICK b : b = SubSeq(s, k + 1, Len(s))
    OBVIOUS
  <1>3. PICK t : t = a \o b
    OBVIOUS
  <1>4. k \in Nat /\ k >= 1 /\ Len(s) \in Nat /\ k <= Len(s)
    OBVIOUS
  <1>5. /\ a \in Seq(Popovers) /\ Len(a) = k - 1 /\ \A i \in 1..(k - 1) : a[i] = s[i]
    BY <1>1, <1>4
  <1>6. /\ b \in Seq(Popovers) /\ Len(b) = Len(s) - k
        /\ \A i \in 1..(Len(s) - k) : b[i] = s[k + i]
    BY <1>2, <1>4
  <1>7. /\ t \in Seq(Popovers) /\ Len(t) = Len(a) + Len(b)
        /\ \A i \in 1..(Len(a) + Len(b)) : t[i] = IF i <= Len(a) THEN a[i] ELSE b[i - Len(a)]
    BY <1>3, <1>5, <1>6, ConcatProperties
  <1>8. Len(t) = Len(s) - 1
    BY <1>4, <1>5, <1>6, <1>7
  <1>9. ASSUME NEW i \in 1..(Len(s) - 1)
        PROVE  t[i] = IF i < k THEN s[i] ELSE s[i + 1]
    <2>1. CASE i < k
      <3>1. i \in 1..(k - 1) /\ i <= Len(a)
        BY <1>4, <1>5, <2>1
      <3>2. QED
        BY <1>4, <1>5, <1>6, <1>7, <2>1, <3>1
    <2>2. CASE i >= k
      <3>1. ~(i <= Len(a)) /\ i \in 1..(Len(a) + Len(b))
        BY <1>4, <1>5, <1>6, <2>2
      <3>2. t[i] = b[i - (k - 1)]
        BY <1>5, <1>7, <3>1
      <3>3. i - (k - 1) \in 1..(Len(s) - k) /\ k + (i - (k - 1)) = i + 1
        BY <1>4, <2>2
      <3>4. b[i - (k - 1)] = s[i + 1]
        BY <1>6, <3>3
      <3>5. QED
        BY <1>4, <2>2, <3>2, <3>4
    <2>3. QED
      BY <1>4, <2>1, <2>2
  <1>10. \A x : x \in ToSet(s) <=> \E i \in 1..Len(s) : s[i] = x
    BY DEF ToSet
  <1>11. DOMAIN t = 1..(Len(s) - 1)
    BY <1>7, <1>8
  <1>12. \A x : x \in ToSet(t) <=> \E i \in 1..(Len(s) - 1) : t[i] = x
    BY <1>11 DEF ToSet
  <1>13. \A i \in 1..(Len(s) - 1) : i \in 1..Len(s) /\ i + 1 \in 1..Len(s)
    BY <1>4
  <1>14. ToSet(t) \subseteq ToSet(s)
    BY <1>9, <1>10, <1>12, <1>13
  <1>15. ASSUME TipsDiffer(s) PROVE TipsDiffer(t) /\ ToSet(t) = ToSet(s) \ {s[k]}
    <2>1. ASSUME NEW i \in 1..(Len(s) - 1), NEW j \in 1..(Len(s) - 1), t[i] = t[j]
          PROVE  i = j
      <3>1. PICK m \in 1..Len(s) : m = (IF i < k THEN i ELSE i + 1) /\ t[i] = s[m]
        BY <1>9, <1>13
      <3>2. PICK n \in 1..Len(s) : n = (IF j < k THEN j ELSE j + 1) /\ t[j] = s[n]
        BY <1>9, <1>13
      <3>3. m = n
        BY <1>15, <2>1, <3>1, <3>2 DEF TipsDiffer
      <3>4. QED
        BY <1>4, <3>1, <3>2, <3>3
    <2>2. ASSUME NEW i \in 1..(Len(s) - 1) PROVE t[i] # s[k]
      <3>1. PICK m \in 1..Len(s) : m = (IF i < k THEN i ELSE i + 1) /\ t[i] = s[m]
        BY <1>9, <1>13
      <3>2. m # k
        BY <1>4, <3>1
      <3>3. QED
        BY <1>15, <3>1, <3>2 DEF TipsDiffer
    <2>3. ASSUME NEW i \in 1..Len(s), i # k PROVE \E j \in 1..(Len(s) - 1) : t[j] = s[i]
      <3>1. CASE i < k
        <4>1. i \in 1..(Len(s) - 1)
          BY <1>4, <3>1
        <4>2. QED
          BY <1>9, <3>1, <4>1
      <3>2. CASE i > k
        <4>1. i - 1 \in 1..(Len(s) - 1) /\ ~(i - 1 < k) /\ (i - 1) + 1 = i
          BY <1>4, <3>2
        <4>2. QED
          BY <1>9, <4>1
      <3>3. QED
        BY <1>4, <2>3, <3>1, <3>2
    <2>4. \A x : x \in ToSet(t) <=> x \in ToSet(s) /\ x # s[k]
      BY <1>10, <1>12, <1>14, <2>2, <2>3
    <2>5. QED
      BY <1>8, <2>1, <2>4 DEF TipsDiffer
  <1>16. RemoveAt(s, k) = t
    BY <1>1, <1>2, <1>3 DEF RemoveAt
  <1>17. QED
    BY <1>7, <1>14, <1>15, <1>16
-----------------------------------------------------------------------------
(***************************************************************************)
(* No preview for a link that the pointer is not on.                       *)
(***************************************************************************)
LEMMA NoNewShow ==
  ASSUME PreviewInv, UNCHANGED <<fadeTime, links, made, disposed, pointer>>,
         isPopoverShown' \in [Popovers -> BOOLEAN], tips' \in Seq(Popovers),
         misplaced' \in BOOLEAN,
         \A t \in timers' : /\ t \in TimerType /\ InTime(t)
                            /\ t.task = "show" =>
                                  \E u \in timers : u.task = "show" /\ u.of = t.of
  PROVE  PreviewInv'
  BY DEF PreviewInv, PreviewTyped, ShowIsWanted, InTime

\* A timer that a handler starts.
LEMMA StartsInTime ==
  ASSUME PreviewInv, NEW p \in Popovers
  PROVE  /\ \A t : t = Timer("hover", p, AttachDelay) => t \in TimerType /\ InTime(t)
         /\ \A t : t = Timer("hide", p, HideDelay) => t \in TimerType /\ InTime(t)
         /\ \A t : t = Timer("gone", p, fadeTime) => t \in TimerType /\ InTime(t)
         /\ \A t : t = Timer("show", p, ShowDelay) => t \in TimerType /\ InTime(t)
  <1>1. fadeTime \in Nat
    BY Delays DEF PreviewInv, PreviewTyped
  <1>2. QED
    BY <1>1, TimerIs, Delays DEF InTime

LEMMA PreviewInit == Init => PreviewInv
  <1> SUFFICES ASSUME Init PROVE PreviewInv
    OBVIOUS
  <1>1. PICK times \in [Links -> {0, 1}] :
           /\ made = [l \in Links |-> 0 + times[l]]
           /\ disposed = {p \in Popovers : times[p[1]] > 0 /\ p[2] < 0 + times[p[1]]}
    <2>1. PICK times : times = [l \in Links |-> IF l \in links THEN 1 ELSE 0]
      OBVIOUS
    <2>2. PICK zeros : zeros = [l \in Links |-> 0]
      OBVIOUS
    <2>3. /\ made = [l \in Links |-> zeros[l] + times[l]]
          /\ disposed = {} \cup {p \in Popovers : times[p[1]] > 0
                                                  /\ p[2] < zeros[p[1]] + times[p[1]]}
      BY <2>1, <2>2 DEF Init, setupUiPreviewOnPopover
    <2>4. \A p \in Popovers : zeros[p[1]] = 0
      BY <2>2, PopoverIs
    <2>5. QED
      BY <2>1, <2>2, <2>3, <2>4
  <1>2. links \subseteq Links
    BY PreviewAssumption DEF Init, PreviewAssumption
  <1>3. made \in [Links -> Nat] /\ \A l \in Links : made[l] = times[l]
    BY <1>1
  <1>4. disposed = {p \in Popovers : p[2] < made[p[1]]}
    BY <1>1, <1>3, PopoverIs
  <1>5. PreviewTyped
    <2>1. isPopoverShown \in [Popovers -> BOOLEAN]
      BY DEF Init
    <2>2. tips \in Seq(Popovers) /\ timers \subseteq TimerType
      BY DEF Init
    <2>3. pointer \in PointerType /\ fadeTime \in FadeTimes /\ misplaced \in BOOLEAN
      BY DEF Init, PointerType
    <2>4. QED
      BY <1>2, <1>3, <1>4, <2>1, <2>2, <2>3 DEF PreviewTyped
  <1>6. timers = {} /\ \A l \in Links : pointer # OnLink(l)
    BY PlacesDiffer DEF Init
  <1>7. QED
    BY <1>5, <1>6 DEF PreviewInv

LEMMA PreviewMove == ASSUME PreviewInv, NEW place \in Places, Move(place) PROVE PreviewInv'
  <1>1. /\ pointer' = place
        /\ UNCHANGED <<fadeTime, links, made, disposed, isPopoverShown, tips, misplaced>>
    BY DEF Move, pageVars, historyVars
  <1>2. timers \subseteq TimerType
    BY DEF PreviewInv, PreviewTyped
  <1>3. ASSUME NEW t \in timers'
        PROVE  t \in TimerType /\ InTime(t) /\
               (t.task = "show" => place = OnLink(t.of[1]) /\ t.of[2] <= made[t.of[1]])
    <2>1. CASE t \in timers /\ t.task # "show"
      BY <1>2, <2>1 DEF PreviewInv
    <2>2. ASSUME NEW p \in Popovers, t = Timer("hide", p, HideDelay)
          PROVE  t \in TimerType /\ InTime(t) /\ t.task # "show"
      BY <2>2, StartsInTime, TimerIs, Delays
    <2>3. ASSUME NEW p \in Popovers, t = Timer("show", p, ShowDelay)
          PROVE  t \in TimerType /\ InTime(t) /\ t.of = p
      BY <2>3, StartsInTime, TimerIs, Delays
    <2>4. QED
      BY <2>1, <2>2, <2>3, Moved
  <1>4. place \in PointerType /\ \A l \in Links : place = OnLink(l) => l \in links
    BY Moved
  <1>5. timers' \subseteq TimerType
    BY <1>3
  <1>6. PreviewTyped'
    BY <1>1, <1>4, <1>5 DEF PreviewInv, PreviewTyped
  <1>7. \A t \in timers' : InTime(t)' /\ ShowIsWanted(t)'
    BY <1>1, <1>3 DEF InTime, ShowIsWanted
  <1>8. QED
    BY <1>1, <1>4, <1>6, <1>7 DEF PreviewInv

LEMMA PreviewTick == ASSUME PreviewInv, Tick PROVE PreviewInv'
  <1>1. UNCHANGED <<fadeTime, links, made, disposed, pointer, isPopoverShown, tips, misplaced>>
    BY DEF Tick, pageVars, mouseVars, historyVars
  <1>2. ASSUME NEW u \in timers'
        PROVE  /\ u \in TimerType /\ InTime(u)
               /\ u.task = "show" => \E t \in timers : t.task = "show" /\ t.of = u.of
    <2>1. PICK t \in timers : /\ u \in TimerType /\ t.due > 0
                              /\ u.task = t.task /\ u.of = t.of /\ u.due = t.due - 1
      BY Ticked
    <2>2. t \in TimerType /\ InTime(t) /\ fadeTime \in Nat
      BY Delays DEF PreviewInv, PreviewTyped
    <2>3. t.due \in Int
      BY <2>2 DEF TimerType
    <2>4. InTime(u)
      BY <2>1, <2>2, <2>3, Delays DEF InTime
    <2>5. QED
      BY <2>1, <2>4
  <1>3. QED
    BY <1>1, <1>2, NoNewShow DEF PreviewInv, PreviewTyped

\* What becomes of a popover whose timer to show it has run down.
LEMMA Showing ==
  ASSUME PreviewInv, NEW t \in timers, showTimeout(t)
  PROVE  /\ t \in TimerType /\ t.task = "show" /\ t.due = 0 /\ t.of \in Popovers
         /\ pointer = OnLink(t.of[1]) /\ t.of[2] <= made[t.of[1]] /\ t.of[1] \in links
         /\ UNCHANGED <<fadeTime, links, made, disposed, pointer, misplaced, listeners>>
         /\ \/ /\ isPopoverShown[t.of] \/ t.of \in disposed
               /\ timers' = timers \ {t}
               /\ UNCHANGED <<isPopoverShown, tips, content, requests, alone>>
            \/ /\ ~isPopoverShown[t.of] /\ t.of \notin disposed
               /\ isPopoverShown' = [isPopoverShown EXCEPT ![t.of] = TRUE]
               /\ timers' = (timers \ {t}) \cup {Timer("hover", t.of, AttachDelay)}
               /\ requests' = [requests EXCEPT ![t.of[1]] = @ + 1]
               /\ tips' = Append(tips, t.of)
               /\ content' = [content EXCEPT ![t.of] =
                                  IF config[t.of] = Loading THEN Loading ELSE Blank]
               /\ alone' = IF tips = <<>> /\ \A l \in Links \ {t.of[1]} : requests[l] = 0
                           THEN alone \cup {t.of} ELSE alone \ {t.of}
  <1>1. t \in TimerType /\ t.task = "show" /\ t.due = 0 /\ t.of \in Popovers
    BY DEF PreviewInv, PreviewTyped, TimerType, showTimeout, Due
  <1>2. pointer = OnLink(t.of[1]) /\ t.of[2] <= made[t.of[1]] /\ t.of[1] \in links
    BY <1>1, PopoverIs DEF PreviewInv, ShowIsWanted
  <1>3. UNCHANGED <<fadeTime, links, made, disposed, pointer, misplaced, listeners>>
    BY DEF showTimeout, pageVars, mouseVars
  <1>4. QED
    BY <1>1, <1>2, <1>3 DEF showTimeout, Show

LEMMA PreviewShow == ASSUME PreviewInv, NEW t \in timers, showTimeout(t) PROVE PreviewInv'
  <1>1. timers \subseteq TimerType /\ \A u \in timers : InTime(u)
    BY DEF PreviewInv, PreviewTyped
  <1>2. t.of \in Popovers
    BY Showing
  <1>3. timers' \subseteq timers \cup {Timer("hover", t.of, AttachDelay)}
    BY Showing
  <1>4. \A u \in timers' : /\ u \in TimerType /\ InTime(u)
                           /\ u.task = "show" => u \in timers
    BY <1>1, <1>2, <1>3, StartsInTime, TimerIs, Delays
  <1>5. isPopoverShown' \in [Popovers -> BOOLEAN] /\ tips' \in Seq(Popovers)
    <2>1. tips \in Seq(Popovers) /\ isPopoverShown \in [Popovers -> BOOLEAN]
      BY DEF PreviewInv, PreviewTyped
    <2>2. Append(tips, t.of) \in Seq(Popovers)
      BY <1>2, <2>1, TipAppended
    <2>3. [isPopoverShown EXCEPT ![t.of] = TRUE] \in [Popovers -> BOOLEAN]
      BY <2>1
    <2>4. \/ UNCHANGED <<isPopoverShown, tips>>
          \/ tips' = Append(tips, t.of) /\ isPopoverShown' = [isPopoverShown EXCEPT ![t.of] = TRUE]
      BY Showing
    <2>5. QED
      BY <2>1, <2>2, <2>3, <2>4
  <1>6. QED
    BY <1>4, <1>5, Showing, NoNewShow DEF PreviewInv, PreviewTyped

LEMMA PreviewHover == ASSUME PreviewInv, NEW t \in timers, hoverTimeout(t) PROVE PreviewInv'
  <1>1. /\ timers' \subseteq timers
        /\ UNCHANGED <<fadeTime, links, made, disposed, pointer, isPopoverShown, tips>>
    BY DEF hoverTimeout, pageVars, mouseVars
  <1>2. misplaced' \in BOOLEAN
    BY DEF hoverTimeout, PreviewInv, PreviewTyped
  <1>3. QED
    BY <1>1, <1>2, NoNewShow DEF PreviewInv, PreviewTyped

LEMMA PreviewHide == ASSUME PreviewInv, NEW t \in timers, hideTimeout(t) PROVE PreviewInv'
  <1>1. t \in TimerType /\ t.of \in Popovers /\ timers \subseteq TimerType
    BY DEF PreviewInv, PreviewTyped, TimerType
  <1>2. /\ timers' \subseteq timers \cup {Timer("gone", t.of, fadeTime)}
        /\ UNCHANGED <<fadeTime, links, made, disposed, pointer, tips, misplaced>>
        /\ isPopoverShown' = [isPopoverShown EXCEPT ![t.of] = FALSE]
    BY DEF hideTimeout, pageVars, mouseVars, historyVars
  <1>3. fadeTime \in Nat
    BY Delays DEF PreviewInv, PreviewTyped
  <1>4. \A u \in timers' : /\ u \in TimerType /\ InTime(u)
                           /\ u.task = "show" => u \in timers
    BY <1>1, <1>2, <1>3, StartsInTime, TimerIs DEF PreviewInv
  <1>5. QED
    BY <1>2, <1>4, NoNewShow DEF PreviewInv, PreviewTyped

LEMMA PreviewGone == ASSUME PreviewInv, NEW t \in timers, gone(t) PROVE PreviewInv'
  <1>1. /\ timers' = timers \ {t}
        /\ UNCHANGED <<fadeTime, links, made, disposed, isPopoverShown, misplaced>>
        /\ pointer' = IF pointer = OnTip(t.of) THEN Away ELSE pointer
    BY DEF gone, pageVars, historyVars
  <1>2. timers \subseteq TimerType /\ t.of \in Popovers
    BY DEF PreviewInv, PreviewTyped, TimerType
  <1>3. tips' \in Seq(Popovers)
    <2>1. PICK i \in DOMAIN tips : tips' = RemoveAt(tips, i)
      BY DEF gone
    <2>2. tips \in Seq(Popovers) /\ i \in 1..Len(tips)
      BY DEF PreviewInv, PreviewTyped
    <2>3. QED
      BY <2>1, <2>2, TipRemoved
  <1>4. CASE pointer = OnTip(t.of)
    <2>1. PreviewTyped'
      BY <1>1, <1>3, <1>4 DEF PreviewInv, PreviewTyped, PointerType
    <2>2. \A u \in timers' : u.task # "show" /\ InTime(u)'
      BY <1>1, <1>2, <1>4, PlacesDiffer, PopoverIs
         DEF PreviewInv, TimerType, ShowIsWanted, InTime
    <2>3. QED
      BY <1>1, <1>4, <2>1, <2>2, PlacesDiffer DEF PreviewInv, ShowIsWanted
  <1>5. CASE pointer # OnTip(t.of)
    BY <1>1, <1>2, <1>3, <1>5, NoNewShow DEF PreviewInv, PreviewTyped
  <1>6. QED
    BY <1>4, <1>5

\* Links that are new have no popovers yet, and the pointer is on none.
LEMMA Presented ==
  ASSUME PreviewInv, Present
  PROVE  /\ pointer = Away /\ links' \subseteq Links
         /\ made' \in [Links -> Nat]
         /\ \A l \in Links : made'[l] # made[l] => made[l] = 0
         /\ disposed' = {p \in Popovers : p[2] < made'[p[1]]}
  <1>0. PICK new \in Presentable : \E times :
           /\ times = [l \in Links |-> Cardinality({n \in DOMAIN new :
                                                       \E i \in 1..n : new[i] = l})]
           /\ links' = {new[i] : i \in DOMAIN new}
           /\ made' = [l \in Links |-> made[l] + times[l]]
           /\ disposed' = disposed \cup {p \in Popovers : times[p[1]] > 0
                                                 /\ p[2] < made[p[1]] + times[p[1]]}
    BY DEF Present, setupUiPreviewOnPopover
  <1>1. PICK times :
           /\ times = [l \in Links |-> Cardinality({n \in DOMAIN new :
                                                       \E i \in 1..n : new[i] = l})]
           /\ links' = {new[i] : i \in DOMAIN new}
           /\ made' = [l \in Links |-> made[l] + times[l]]
           /\ disposed' = disposed \cup {p \in Popovers : times[p[1]] > 0
                                                 /\ p[2] < made[p[1]] + times[p[1]]}
    BY <1>0
  <1>2. PICK n \in Nat : new \in [1..n -> {l \in Links : made[l] = 0}]
    BY DEF Presentable
  <1>3. times \in [Links -> Nat]
    <2>1. IsFiniteSet(1..n)
      BY <1>2, FS_Interval
    <2>2. \A l \in Links : Cardinality({m \in DOMAIN new : \E i \in 1..m : new[i] = l}) \in Nat
      BY <1>2, <2>1, FS_Subset, FS_CardinalityType
    <2>3. QED
      BY <1>1, <2>2
  <1>4. made \in [Links -> Nat] /\ disposed = {p \in Popovers : p[2] < made[p[1]]}
    BY DEF PreviewInv, PreviewTyped
  <1>5. made' \in [Links -> Nat] /\ \A l \in Links : made'[l] = made[l] + times[l]
    BY <1>1, <1>3, <1>4
  <1>6. ASSUME NEW l \in Links, times[l] > 0 PROVE made[l] = 0
    <2>1. PICK S : S = {m \in DOMAIN new : \E i \in 1..m : new[i] = l}
      OBVIOUS
    <2>2. S # {}
      <3>1. times[l] = Cardinality(S)
        BY <1>1, <2>1
      <3>2. QED
        BY <1>6, <3>1, FS_EmptySet
    <2>3. PICK m \in 1..n : \E i \in 1..m : new[i] = l
      BY <1>2, <2>1, <2>2
    <2>4. PICK i \in 1..n : new[i] = l
      BY <1>2, <2>3
    <2>5. QED
      BY <1>2, <2>4
  <1>7. \A l \in Links : made'[l] # made[l] => made[l] = 0
    BY <1>3, <1>4, <1>5, <1>6
  <1>8. disposed' = {p \in Popovers : p[2] < made'[p[1]]}
    BY <1>1, <1>3, <1>4, <1>5, PopoverIs
  <1>9. links' \subseteq Links /\ pointer = Away
    BY <1>1, <1>2 DEF Present
  <1>10. QED
    BY <1>5, <1>7, <1>8, <1>9

LEMMA PreviewPresent == ASSUME PreviewInv, Present PROVE PreviewInv'
  <1>1. UNCHANGED <<fadeTime, isPopoverShown, timers, tips, pointer, misplaced>>
    BY DEF Present, mouseVars, historyVars
  <1>2. PreviewTyped'
    BY <1>1, Presented DEF PreviewInv, PreviewTyped
  <1>3. \A t \in timers' : t.task # "show" /\ InTime(t)'
    BY <1>1, Presented, PlacesDiffer, PopoverIs
       DEF PreviewInv, PreviewTyped, TimerType, ShowIsWanted, InTime
  <1>4. QED
    BY <1>1, <1>2, <1>3, Presented, PlacesDiffer DEF PreviewInv, ShowIsWanted

LEMMA PreviewAnswers == ASSUME PreviewInv, Answers PROVE PreviewInv'
  <1>1. UNCHANGED <<fadeTime, links, made, disposed, isPopoverShown, timers, tips, pointer,
                    misplaced>>
    BY DEF Answers, onload, onloadError, Answered, pageVars, mouseVars, historyVars
  <1>2. QED
    BY <1>1, NoNewShow DEF PreviewInv, PreviewTyped

\* The steps of the specification, those of the pages of the servers together.
LEMMA Steps ==
  ASSUME [Next]_vars
  PROVE  \/ \E place \in Places : Move(place)
         \/ \E t \in timers : showTimeout(t) \/ hoverTimeout(t) \/ hideTimeout(t) \/ gone(t)
         \/ Answers \/ Present \/ Tick \/ UNCHANGED vars
  BY DEF Next, AmHandlers, RmHandlers, CmHandlers, QmHandlers, Handlers, Timeout,
         AmAnswers, RmAnswers, CmAnswers, QmAnswers

LEMMA PreviewNext == PreviewInv /\ [Next]_vars => PreviewInv'
  <1> SUFFICES ASSUME PreviewInv, [Next]_vars PROVE PreviewInv'
    OBVIOUS
  <1>1. CASE UNCHANGED vars
    BY <1>1, NoNewShow DEF vars, pageVars, mouseVars, historyVars, PreviewInv, PreviewTyped
  <1>2. QED
    BY <1>1, Steps, PreviewMove, PreviewShow, PreviewHover, PreviewHide, PreviewGone,
       PreviewAnswers, PreviewPresent, PreviewTick

LEMMA TipsUnderPointer ==
  PreviewInv /\ [Next]_vars =>
    [\A p \in ToSet(tips') \ ToSet(tips) : pointer = OnLink(p[1])]_vars
  <1> SUFFICES ASSUME PreviewInv, [Next]_vars
               PROVE  \A p \in ToSet(tips') \ ToSet(tips) : pointer = OnLink(p[1])
    OBVIOUS
  <1>0. tips \in Seq(Popovers)
    BY DEF PreviewInv, PreviewTyped
  <1>1. CASE UNCHANGED tips
    BY <1>1
  <1>2. ASSUME NEW t \in timers, showTimeout(t)
        PROVE  \A p \in ToSet(tips') \ ToSet(tips) : pointer = OnLink(p[1])
    <2>1. CASE tips' = Append(tips, t.of)
      <3>1. ToSet(tips') = ToSet(tips) \cup {t.of}
        BY <1>0, <1>2, <2>1, Showing, TipAppended
      <3>2. QED
        BY <1>2, <3>1, Showing
    <2>2. QED
      BY <1>1, <1>2, <2>1, Showing
  <1>3. ASSUME NEW t \in timers, gone(t) PROVE ToSet(tips') \subseteq ToSet(tips)
    <2>1. PICK i \in DOMAIN tips : tips' = RemoveAt(tips, i)
      BY <1>3 DEF gone
    <2>2. i \in 1..Len(tips)
      BY <1>0
    <2>3. QED
      BY <1>0, <2>1, <2>2, TipRemoved
  <1>4. CASE (\E place \in Places : Move(place)) \/ Answers \/ Present \/ Tick \/ UNCHANGED vars
             \/ \E t \in timers : hoverTimeout(t) \/ hideTimeout(t)
    BY <1>1, <1>4 DEF Move, Answers, onload, onloadError, Answered, Present, Tick, vars,
                      hoverTimeout, hideTimeout
  <1>5. QED
    BY <1>2, <1>3, <1>4, Steps

\* Whatever the delays are and whenever they end, a popover comes up for the link that the
\* pointer is on and for no other.
THEOREM ShownUnderPointer == Spec => NoFlicker
  <1>1. QED
    BY PreviewInit, PreviewNext, TipsUnderPointer, PTL DEF Spec, NoFlicker
-----------------------------------------------------------------------------
(***************************************************************************)
(* One popover after the other, as long as no handlers went to the tip of  *)
(* another popover.                                                        *)
(***************************************************************************)
Fades(t, p) == t.task = "gone" /\ t.of = p

\* The tip of a popover only has handlers of that popover.
OwnHandlers == \A x \in listeners : x[1] = x[2]

\* A popover that is shown has a tip, and is the one that its link has now.
ShownAreThere ==
    \A p \in Popovers : isPopoverShown[p] => p \in ToSet(tips) /\ p[2] = made[p[1]]

\* The others with a tip fade out.
HiddenFade == \A p \in ToSet(tips) : ~isPopoverShown[p] => \E t \in timers : Fades(t, p)

FadingAreHidden ==
    \A t \in timers : t.task = "gone" =>
        /\ t.of \in ToSet(tips) /\ ~isPopoverShown[t.of]
        /\ \A u \in timers : Fades(u, t.of) => u = t

\* What is about to be shown is not shown yet, nor on its way to be hidden, and its tip of
\* the last time will have gone.
ShownAnew ==
    \A t \in timers : t.task = "show" =>
        /\ ~isPopoverShown[t.of]
        /\ \A u \in timers : /\ ~Hides(u, t.of)
                             /\ Fades(u, t.of) => u.due < t.due
                             /\ u.task = "show" /\ u.of = t.of => u = t

\* What is shown is hidden before another popover is shown.
HiddenBefore ==
    \A t \in timers, p \in Popovers : t.task = "show" /\ t.of \notin disposed /\ isPopoverShown[p]
        => \E u \in timers : Hides(u, p) /\ u.due < t.due

\* What is shown will be hidden, or its handlers will hear the pointer leave.
ShownAreLeft ==
    \A p \in Popovers : isPopoverShown[p] =>
        \/ pointer = OnLink(p[1])
        \/ pointer = OnTip(p) /\ <<p, p>> \in listeners
        \/ \E t \in timers : Hides(t, p)

OneShown == \A p, q \in Popovers : isPopoverShown[p] /\ isPopoverShown[q] => p = q

\* The handlers of a popover come before it is hidden.
AttachedFirst ==
    \A t \in timers : t.task = "hover" =>
        /\ isPopoverShown[t.of]
        /\ \A u \in timers : Hides(u, t.of) => t.due < u.due

Orderly ==
    /\ OwnHandlers /\ ShownAreThere /\ HiddenFade /\ FadingAreHidden /\ ShownAnew
    /\ HiddenBefore /\ ShownAreLeft /\ OneShown /\ AttachedFirst /\ TipsDiffer(tips)

LEMMA FadeTimeIs == ASSUME PreviewInv PROVE fadeTime \in Nat /\ fadeTime < ShowDelay
  BY Delays DEF PreviewInv, PreviewTyped

LEMMA TimersAre ==
  ASSUME PreviewInv, NEW t \in timers
  PROVE  /\ t \in TimerType /\ t.of \in Popovers /\ t.due \in Int /\ t.due >= 0
         /\ t.task \in {"show", "hover", "hide", "gone"}
         /\ t.task = "hover" => t.due <= AttachDelay
         /\ t.task = "hide" => t.due <= HideDelay
         /\ t.task = "gone" => t.due <= fadeTime
         /\ t.task = "show" => pointer = OnLink(t.of[1]) /\ t.of[2] <= made[t.of[1]]
  BY DEF PreviewInv, PreviewTyped, TimerType, InTime, ShowIsWanted

LEMMA OrderlyInit == Init => Orderly
  <1> SUFFICES ASSUME Init PROVE Orderly
    OBVIOUS
  <1>1. listeners = {} /\ timers = {} /\ tips = <<>> /\ \A p \in Popovers : ~isPopoverShown[p]
    BY DEF Init
  <1>2. ToSet(tips) = {} /\ TipsDiffer(tips)
    BY <1>1 DEF ToSet, TipsDiffer
  <1>3. QED
    BY <1>1, <1>2 DEF Orderly, OwnHandlers, ShownAreThere, HiddenFade, FadingAreHidden,
       ShownAnew, HiddenBefore, ShownAreLeft, OneShown, AttachedFirst

LEMMA OrderlyMove ==
  ASSUME PreviewInv, Orderly, NEW place \in Places, Move(place)
  PROVE  Orderly'
  <1>1. /\ pointer' = place
        /\ UNCHANGED <<fadeTime, links, made, disposed, isPopoverShown, tips, listeners>>
    BY DEF Move, pageVars, historyVars
  <1>2. PreviewInv'
    BY PreviewMove
  <1>3. isPopoverShown \in [Popovers -> BOOLEAN]
    BY DEF PreviewInv, PreviewTyped
  <1>4. Continues(timers, timers')
    BY Moved
  <1>5. ASSUME NEW t \in timers', t.task \in {"hover", "gone"} PROVE t \in timers
    BY <1>5, Moved, TimerIs, Delays
  <1>6. ASSUME NEW t \in timers', t.task = "show"
        PROVE  /\ t = Timer("show", t.of, ShowDelay) /\ t.due = ShowDelay
               /\ ~isPopoverShown[t.of] /\ t.of \in Popovers
               /\ place = OnLink(t.of[1]) /\ t.of[2] <= made[t.of[1]]
    <2>1. PICK p \in Popovers : /\ t = Timer("show", p, ShowDelay) /\ ~isPopoverShown[p]
                                /\ place = OnLink(p[1]) /\ p[2] <= made[p[1]]
      <3>1. \A p \in Popovers : t # Timer("hide", p, HideDelay)
        BY <1>6, TimerIs, Delays
      <3>2. QED
        BY <1>6, <3>1, Moved
    <2>2. t.of = p /\ t.due = ShowDelay
      BY <2>1, TimerIs, Delays
    <2>3. QED
      BY <2>1, <2>2
  <1>7. ASSUME NEW t \in timers', t.task = "hide" PROVE t \in timers \/ t.due = HideDelay
    <2>1. \A p \in Popovers : t # Timer("show", p, ShowDelay)
      BY <1>7, TimerIs, Delays
    <2>2. CASE \E p \in Popovers : t = Timer("hide", p, HideDelay)
      BY <2>2, TimerIs, Delays
    <2>3. QED
      BY <2>1, <2>2, Moved
  <1>8. OwnHandlers' /\ ShownAreThere' /\ OneShown' /\ TipsDiffer(tips)'
    BY <1>1 DEF Orderly, OwnHandlers, ShownAreThere, OneShown, TipsDiffer
  <1>9. HiddenFade'
    <2>1. \A p : \A t \in timers : Fades(t, p) => t \in timers'
      BY <1>4 DEF Continues, Fades
    <2>2. QED
      BY <1>1, <2>1 DEF Orderly, HiddenFade, Fades
  <1>10. FadingAreHidden'
    BY <1>1, <1>5 DEF Orderly, FadingAreHidden, Fades
  <1>11. ShownAnew'
    <2>1. ASSUME NEW t \in timers', t.task = "show"
          PROVE  /\ ~isPopoverShown'[t.of]
                 /\ \A u \in timers' : /\ ~Hides(u, t.of)
                                       /\ Fades(u, t.of) => u.due < t.due
                                       /\ u.task = "show" /\ u.of = t.of => u = t
      <3>1. \A u \in timers' : ~Hides(u, t.of)
        BY <1>6, <2>1, Moved DEF Hides
      <3>2. ASSUME NEW u \in timers', Fades(u, t.of) PROVE u.due < t.due
        <4>1. u \in timers /\ u.task = "gone"
          BY <1>5, <3>2 DEF Fades
        <4>2. u.due \in Int /\ u.due <= fadeTime
          BY <4>1, TimersAre
        <4>3. t.due = ShowDelay
          BY <1>6, <2>1
        <4>4. QED
          BY <4>2, <4>3, FadeTimeIs, Delays
      <3>3. \A u \in timers' : u.task = "show" /\ u.of = t.of => u = t
        BY <1>6, <2>1
      <3>4. QED
        BY <1>1, <1>6, <2>1, <3>1, <3>2, <3>3
    <2>2. QED
      BY <2>1 DEF ShownAnew, Hides, Fades
  <1>12. ASSUME NEW p \in Popovers, isPopoverShown[p]
         PROVE  \/ place = OnLink(p[1])
                \/ place = OnTip(p) /\ <<p, p>> \in listeners
                \/ \E t \in timers' : Hides(t, p)
    <2>1. p[2] <= made[p[1]]
      BY <1>12, PopoverIs DEF Orderly, ShownAreThere
    <2>2. \/ pointer = OnLink(p[1]) /\ p[2] <= made[p[1]]
          \/ pointer = OnTip(p) /\ <<p, p>> \in listeners
          \/ \E t \in timers : Hides(t, p)
      BY <1>12, <2>1 DEF Orderly, ShownAreLeft
    <2>3. \/ \E t \in timers' : Hides(t, p)
          \/ place = OnLink(p[1]) /\ ~isPopoverShown[p]
          \/ \E q \in Popovers : place = OnTip(q) /\ <<q, p>> \in listeners
      BY <2>2, Moved
    <2>4. \A q \in Popovers : <<q, p>> \in listeners => q = p
      BY DEF Orderly, OwnHandlers
    <2>5. QED
      BY <1>12, <2>3, <2>4
  <1>13. ShownAreLeft'
    BY <1>1, <1>12 DEF ShownAreLeft, Hides
  <1>14. HiddenBefore'
    <2>1. ASSUME NEW t \in timers', NEW p \in Popovers,
                 t.task = "show", t.of \notin disposed, isPopoverShown[p]
          PROVE  \E u \in timers' : Hides(u, p) /\ u.due < t.due
      <3>1. /\ ~isPopoverShown[t.of] /\ t.due = ShowDelay /\ t.of \in Popovers
            /\ place = OnLink(t.of[1]) /\ t.of[2] <= made[t.of[1]]
        BY <1>6, <2>1
      <3>2. p \in Popovers /\ p[2] = made[p[1]] /\ p \notin disposed /\ p[2] <= made[p[1]]
        BY <2>1, PopoverIs DEF PreviewInv, PreviewTyped, Orderly, ShownAreThere
      <3>3. place # OnLink(p[1])
        <4>1. p[1] = t.of[1] => p = t.of
          BY <2>1, <3>1, <3>2, LastIsOnlyOne DEF PreviewInv
        <4>2. QED
          BY <2>1, <3>1, <4>1, PlacesDiffer, PopoverIs
      <3>4. place # OnTip(p)
        BY <3>1, PlacesDiffer, PopoverIs
      <3>5. PICK u \in timers' : Hides(u, p)
        BY <1>12, <2>1, <3>3, <3>4
      <3>6. u.due \in Int /\ u.due <= HideDelay
        BY <1>7, <3>5, TimersAre, Delays DEF Hides
      <3>7. QED
        BY <3>1, <3>5, <3>6, Delays
    <2>2. QED
      BY <1>1, <2>1 DEF HiddenBefore, Hides
  <1>15. AttachedFirst'
    <2>1. ASSUME NEW t \in timers', NEW u \in timers', t.task = "hover", Hides(u, t.of)
          PROVE  t.due < u.due
      <3>1. t \in timers
        BY <1>5, <2>1
      <3>2. CASE u \in timers
        BY <2>1, <3>1, <3>2 DEF Orderly, AttachedFirst
      <3>3. CASE u.due = HideDelay
        BY <2>1, <3>1, <3>3, TimersAre, Delays
      <3>4. QED
        BY <1>7, <2>1, <3>2, <3>3 DEF Hides
    <2>2. QED
      BY <1>1, <1>5, <2>1 DEF Orderly, AttachedFirst, Hides
  <1>16. QED
    BY <1>8, <1>9, <1>10, <1>11, <1>13, <1>14, <1>15 DEF Orderly

LEMMA OrderlyTick == ASSUME PreviewInv, Orderly, Tick PROVE Orderly'
  <1>1. UNCHANGED <<made, disposed, isPopoverShown, tips, listeners, pointer>>
    BY DEF Tick, pageVars, mouseVars
  <1>2. \A u \in timers' : \E t \in timers :
               /\ u = [t EXCEPT !.due = @ - 1]
               /\ u.task = t.task /\ u.of = t.of /\ u.due = t.due - 1
    BY Ticked
  <1>3. \A t \in timers : \E u \in timers' :
               u.task = t.task /\ u.of = t.of /\ u.due = t.due - 1
    BY Ticked
  <1>4. \A t \in timers : t.due \in Int
    BY TimersAre
  <1>5. OwnHandlers' /\ ShownAreThere' /\ OneShown' /\ TipsDiffer(tips)'
    BY <1>1 DEF Orderly, OwnHandlers, ShownAreThere, OneShown, TipsDiffer
  <1>6. HiddenFade'
    BY <1>1, <1>3 DEF Orderly, HiddenFade, Fades
  <1>7. FadingAreHidden'
    <2>1. ASSUME NEW u \in timers', u.task = "gone"
          PROVE  /\ u.of \in ToSet(tips) /\ ~isPopoverShown[u.of]
                 /\ \A v \in timers' : Fades(v, u.of) => v = u
      <3>1. PICK t \in timers : u = [t EXCEPT !.due = @ - 1] /\ u.task = t.task /\ u.of = t.of
        BY <1>2
      <3>2. ASSUME NEW v \in timers', Fades(v, u.of) PROVE v = u
        <4>1. PICK s \in timers : v = [s EXCEPT !.due = @ - 1] /\ v.task = s.task /\ v.of = s.of
          BY <1>2
        <4>2. s = t
          BY <2>1, <3>1, <3>2, <4>1 DEF Orderly, FadingAreHidden, Fades
        <4>3. QED
          BY <3>1, <4>1, <4>2
      <3>3. QED
        BY <2>1, <3>1, <3>2 DEF Orderly, FadingAreHidden
    <2>2. QED
      BY <1>1, <2>1 DEF FadingAreHidden, Fades
  <1>8. ShownAnew'
    <2>1. ASSUME NEW u \in timers', NEW v \in timers', u.task = "show"
          PROVE  /\ ~isPopoverShown[u.of] /\ ~Hides(v, u.of)
                 /\ Fades(v, u.of) => v.due < u.due
                 /\ v.task = "show" /\ v.of = u.of => v = u
      <3>1. PICK t \in timers : /\ u = [t EXCEPT !.due = @ - 1]
                                /\ u.task = t.task /\ u.of = t.of /\ u.due = t.due - 1
        BY <1>2
      <3>2. PICK s \in timers : /\ v = [s EXCEPT !.due = @ - 1]
                                /\ v.task = s.task /\ v.of = s.of /\ v.due = s.due - 1
        BY <1>2
      <3>3. /\ ~isPopoverShown[t.of] /\ ~Hides(s, t.of)
            /\ Fades(s, t.of) => s.due < t.due
            /\ s.task = "show" /\ s.of = t.of => s = t
        BY <2>1, <3>1 DEF Orderly, ShownAnew
      <3>4. QED
        BY <1>4, <2>1, <3>1, <3>2, <3>3 DEF Hides, Fades
    <2>2. QED
      BY <1>1, <2>1 DEF ShownAnew, Hides, Fades
  <1>9. HiddenBefore'
    <2>1. ASSUME NEW v \in timers', NEW p \in Popovers,
                 v.task = "show", v.of \notin disposed, isPopoverShown[p]
          PROVE  \E u \in timers' : Hides(u, p) /\ u.due < v.due
      <3>1. PICK t \in timers : v.task = t.task /\ v.of = t.of /\ v.due = t.due - 1
        BY <1>2
      <3>2. PICK s \in timers : Hides(s, p) /\ s.due < t.due
        BY <2>1, <3>1 DEF Orderly, HiddenBefore
      <3>3. PICK u \in timers' : u.task = s.task /\ u.of = s.of /\ u.due = s.due - 1
        BY <1>3
      <3>4. QED
        BY <1>4, <3>1, <3>2, <3>3 DEF Hides
    <2>2. QED
      BY <1>1, <2>1 DEF HiddenBefore, Hides
  <1>10. ShownAreLeft'
    BY <1>1, <1>3 DEF Orderly, ShownAreLeft, Hides
  <1>11. AttachedFirst'
    <2>1. ASSUME NEW u \in timers', NEW v \in timers', u.task = "hover"
          PROVE  isPopoverShown[u.of] /\ (Hides(v, u.of) => u.due < v.due)
      <3>1. PICK t \in timers : u.task = t.task /\ u.of = t.of /\ u.due = t.due - 1
        BY <1>2
      <3>2. PICK s \in timers : v.task = s.task /\ v.of = s.of /\ v.due = s.due - 1
        BY <1>2
      <3>3. QED
        BY <1>4, <2>1, <3>1, <3>2 DEF Orderly, AttachedFirst, Hides
    <2>2. QED
      BY <1>1, <2>1 DEF AttachedFirst, Hides
  <1>12. QED
    BY <1>5, <1>6, <1>7, <1>8, <1>9, <1>10, <1>11 DEF Orderly

\* What comes up is the only popover that is shown.
LEMMA ShownAlone ==
  ASSUME PreviewInv, Orderly, NEW t \in timers, t.task = "show", t.due = 0,
         t.of \notin disposed
  PROVE  /\ \A p \in Popovers : ~isPopoverShown[p]
         /\ t.of \notin ToSet(tips)
         /\ \A u \in timers : ~Hides(u, t.of) /\ ~Fades(u, t.of)
         /\ \A u \in timers : u.task # "hover"
         /\ t.of[2] = made[t.of[1]]
         /\ \A u \in timers : u.task = "show" /\ u.of \notin disposed => u.of = t.of
  <1>1. \A u \in timers : u.due \in Int /\ u.due >= 0 /\ u.of \in Popovers
    BY TimersAre
  <1>2. \A p \in Popovers : ~isPopoverShown[p]
    BY <1>1 DEF Orderly, HiddenBefore
  <1>3. \A u \in timers : ~Hides(u, t.of) /\ ~Fades(u, t.of)
    BY <1>1 DEF Orderly, ShownAnew
  <1>4. t.of \notin ToSet(tips)
    BY <1>1, <1>2, <1>3 DEF Orderly, HiddenFade
  <1>5. \A u \in timers : u.task # "hover"
    BY <1>1, <1>2 DEF Orderly, AttachedFirst
  <1>6. t.of[2] <= made[t.of[1]] /\ pointer = OnLink(t.of[1])
    BY TimersAre
  <1>7. t.of[2] = made[t.of[1]]
    BY <1>1, <1>6, PopoverIs DEF PreviewInv, PreviewTyped
  <1>8. ASSUME NEW u \in timers, u.task = "show", u.of \notin disposed PROVE u.of = t.of
    <2>1. pointer = OnLink(u.of[1]) /\ u.of[2] <= made[u.of[1]]
      BY <1>8, TimersAre
    <2>2. u.of[1] = t.of[1]
      <3>1. u.of[1] \in Links /\ t.of[1] \in Links
        BY <1>1, PopoverIs
      <3>2. OnLink(u.of[1]) = OnLink(t.of[1])
        BY <1>6, <2>1
      <3>3. QED
        BY <3>1, <3>2, PlacesDiffer
    <2>3. PICK p \in Popovers, q \in Popovers : p = u.of /\ q = t.of
      BY <1>1
    <2>4. PreviewTyped
      BY DEF PreviewInv
    <2>5. p = q
      BY <1>6, <1>8, <2>1, <2>2, <2>3, <2>4, LastIsOnlyOne
    <2>6. QED
      BY <2>3, <2>5
  <1>9. QED
    BY <1>2, <1>3, <1>4, <1>5, <1>7, <1>8

\* Timers that go, and nothing else.
LEMMA OrderlyLess ==
  ASSUME PreviewInv, Orderly, timers' \subseteq timers,
         UNCHANGED <<made, disposed, isPopoverShown, tips, listeners, pointer>>,
         \A t \in timers : t.task \in {"hide", "gone"} => t \in timers'
  PROVE  Orderly'
  <1>1. OwnHandlers' /\ ShownAreThere' /\ OneShown' /\ TipsDiffer(tips)'
    BY DEF Orderly, OwnHandlers, ShownAreThere, OneShown, TipsDiffer
  <1>2. HiddenFade' /\ ShownAreLeft' /\ HiddenBefore'
    BY DEF Orderly, HiddenFade, ShownAreLeft, HiddenBefore, Fades, Hides
  <1>3. FadingAreHidden' /\ ShownAnew' /\ AttachedFirst'
    BY DEF Orderly, FadingAreHidden, ShownAnew, AttachedFirst, Fades, Hides
  <1>4. QED
    BY <1>1, <1>2, <1>3 DEF Orderly

LEMMA OrderlyShow ==
  ASSUME PreviewInv, Orderly, NEW t \in timers, showTimeout(t)
  PROVE  Orderly'
  <1>1. /\ t \in TimerType /\ t.task = "show" /\ t.due = 0 /\ t.of \in Popovers
        /\ pointer = OnLink(t.of[1]) /\ t.of[2] <= made[t.of[1]]
        /\ UNCHANGED <<made, disposed, pointer, listeners>>
    BY Showing
  <1>2. CASE /\ timers' = timers \ {t}
             /\ UNCHANGED <<isPopoverShown, tips>>
    BY <1>1, <1>2, OrderlyLess
  <1>3. CASE /\ ~isPopoverShown[t.of] /\ t.of \notin disposed
             /\ isPopoverShown' = [isPopoverShown EXCEPT ![t.of] = TRUE]
             /\ timers' = (timers \ {t}) \cup {Timer("hover", t.of, AttachDelay)}
             /\ tips' = Append(tips, t.of)
    <2>1. /\ \A p \in Popovers : ~isPopoverShown[p]
          /\ t.of \notin ToSet(tips)
          /\ \A u \in timers : ~Hides(u, t.of) /\ ~Fades(u, t.of)
          /\ \A u \in timers : u.task # "hover"
          /\ t.of[2] = made[t.of[1]]
          /\ \A u \in timers : u.task = "show" /\ u.of \notin disposed => u.of = t.of
      BY <1>1, <1>3, ShownAlone
    <2>2. \A p \in Popovers : isPopoverShown'[p] <=> p = t.of
      BY <1>1, <1>3, <2>1 DEF PreviewInv, PreviewTyped
    <2>3. PICK h : h = Timer("hover", t.of, AttachDelay) /\ h.task = "hover" /\ h.of = t.of
      BY <1>1, TimerIs, Delays
    <2>4. \A u \in timers' : u = h \/ u \in timers
      BY <1>3, <2>3
    <2>5. \A u \in timers : u.task # "show" => u \in timers'
      BY <1>1, <1>3
    <2>6. tips \in Seq(Popovers)
      BY DEF PreviewInv, PreviewTyped
    <2>7. TipsDiffer(tips') /\ ToSet(tips') = ToSet(tips) \cup {t.of}
      BY <1>1, <1>3, <2>1, <2>6, TipAppended DEF Orderly
    <2>8. ToSet(tips) \subseteq Popovers
      BY TipsIs DEF PreviewInv
    <2>9. \A u \in timers : u.of \in Popovers
      BY TimersAre
    <2>10. OwnHandlers' /\ ShownAreThere' /\ OneShown' /\ TipsDiffer(tips)'
      BY <1>1, <2>1, <2>2, <2>7 DEF Orderly, OwnHandlers, ShownAreThere, OneShown, TipsDiffer
    <2>11. HiddenFade'
      <3>1. ASSUME NEW p \in ToSet(tips'), ~isPopoverShown'[p]
            PROVE  \E u \in timers' : Fades(u, p)
        <4>1. p \in ToSet(tips) /\ p \in Popovers
          BY <1>1, <2>2, <2>7, <2>8, <3>1
        <4>2. PICK u \in timers : Fades(u, p)
          BY <2>1, <4>1 DEF Orderly, HiddenFade
        <4>3. QED
          BY <2>5, <4>2 DEF Fades
      <3>2. QED
        BY <3>1 DEF HiddenFade, Fades
    <2>12. FadingAreHidden'
      BY <2>1, <2>2, <2>3, <2>4, <2>7, <2>9 DEF Orderly, FadingAreHidden, Fades
    <2>13. ShownAnew'
      <3>1. ASSUME NEW u \in timers', u.task = "show"
            PROVE  u \in timers /\ ~isPopoverShown'[u.of] /\ u.of # t.of
        <4>1. u \in timers /\ u # t
          BY <1>3, <2>3, <3>1
        <4>2. u.of # t.of
          BY <1>1, <3>1, <4>1 DEF Orderly, ShownAnew
        <4>3. QED
          BY <2>2, <2>9, <4>1, <4>2
      <3>2. QED
        BY <2>3, <2>4, <3>1 DEF Orderly, ShownAnew, Hides, Fades
    <2>14. HiddenBefore'
      <3>1. ASSUME NEW u \in timers', u.task = "show" PROVE u.of \in disposed
        <4>1. u \in timers /\ u # t
          BY <1>3, <2>3, <3>1
        <4>2. u.of # t.of
          BY <1>1, <3>1, <4>1 DEF Orderly, ShownAnew
        <4>3. QED
          BY <2>1, <3>1, <4>1, <4>2
      <3>2. QED
        BY <1>1, <3>1 DEF HiddenBefore
    <2>15. ShownAreLeft'
      BY <1>1, <2>2 DEF ShownAreLeft
    <2>16. AttachedFirst'
      BY <1>1, <2>1, <2>2, <2>3, <2>4 DEF AttachedFirst, Hides
    <2>17. QED
      BY <2>10, <2>11, <2>12, <2>13, <2>14, <2>15, <2>16 DEF Orderly
  <1>4. QED
    BY <1>2, <1>3, Showing

LEMMA OrderlyHover ==
  ASSUME PreviewInv, Orderly, NEW t \in timers, hoverTimeout(t), ~misplaced'
  PROVE  Orderly'
  <1>1. /\ t.task = "hover" /\ timers' = timers \ {t}
        /\ UNCHANGED <<made, disposed, isPopoverShown, tips, pointer>>
    BY DEF hoverTimeout, Due, pageVars, mouseVars
  <1>2. CASE UNCHANGED listeners
    BY <1>1, <1>2, OrderlyLess
  <1>3. CASE listeners' = listeners \cup {<<tipFound, t.of>>} /\ tipFound = t.of
    <2>1. OwnHandlers' /\ ShownAreThere' /\ OneShown' /\ TipsDiffer(tips)'
      BY <1>1, <1>3 DEF Orderly, OwnHandlers, ShownAreThere, OneShown, TipsDiffer
    <2>2. HiddenFade' /\ ShownAreLeft' /\ HiddenBefore'
      BY <1>1, <1>3 DEF Orderly, HiddenFade, ShownAreLeft, HiddenBefore, Fades, Hides
    <2>3. FadingAreHidden' /\ ShownAnew' /\ AttachedFirst'
      BY <1>1 DEF Orderly, FadingAreHidden, ShownAnew, AttachedFirst, Fades, Hides
    <2>4. QED
      BY <2>1, <2>2, <2>3 DEF Orderly
  <1>4. QED
    BY <1>2, <1>3 DEF hoverTimeout

\* What becomes of a popover whose timer to hide it has run down.
LEMMA Hiding ==
  ASSUME PreviewInv, Orderly, NEW t \in timers, hideTimeout(t)
  PROVE  /\ t.task = "hide" /\ t.due = 0 /\ t.of \in Popovers
         /\ \A p \in Popovers : isPopoverShown'[p] <=> isPopoverShown[p] /\ p # t.of
         /\ \A u \in timers : u # t => u \in timers'
         /\ \A u \in timers' : \/ u \in timers
                               \/ isPopoverShown[t.of] /\ u = Timer("gone", t.of, fadeTime)
         /\ isPopoverShown[t.of] => \E u \in timers' : Fades(u, t.of) /\ u.due = fadeTime
         /\ UNCHANGED <<fadeTime, made, disposed, tips, content, requests, listeners, pointer,
                        alone, misplaced>>
  <1>1. t.task = "hide" /\ t.due = 0 /\ t.of \in Popovers
    BY TimersAre DEF hideTimeout, Due
  <1>2. \A p \in Popovers : isPopoverShown'[p] <=> isPopoverShown[p] /\ p # t.of
    BY <1>1 DEF hideTimeout, PreviewInv, PreviewTyped
  <1>3. timers' = (timers \ {t}) \cup
                  (IF isPopoverShown[t.of] /\ t.of \in ToSet(tips)
                   THEN {Timer("gone", t.of, fadeTime)} ELSE {})
    BY DEF hideTimeout
  <1>4. isPopoverShown[t.of] => t.of \in ToSet(tips)
    BY <1>1 DEF Orderly, ShownAreThere
  <1>5. Fades(Timer("gone", t.of, fadeTime), t.of) /\ Timer("gone", t.of, fadeTime).due = fadeTime
    BY <1>1, TimerIs, FadeTimeIs DEF Fades
  <1>6. QED
    BY <1>1, <1>2, <1>3, <1>4, <1>5 DEF hideTimeout, pageVars, mouseVars, historyVars

LEMMA OrderlyHide ==
  ASSUME PreviewInv, Orderly, NEW t \in timers, hideTimeout(t)
  PROVE  Orderly'
  <1>1. /\ t.task = "hide" /\ t.due = 0 /\ t.of \in Popovers
        /\ \A p \in Popovers : isPopoverShown'[p] <=> isPopoverShown[p] /\ p # t.of
        /\ \A u \in timers : u # t => u \in timers'
        /\ UNCHANGED <<made, disposed, tips, listeners, pointer>>
    BY Hiding
  <1>2. ASSUME NEW u \in timers'
        PROVE  \/ u \in timers /\ u.of \in Popovers /\ u.due \in Int /\ u.due >= 0
               \/ isPopoverShown[t.of] /\ u = Timer("gone", t.of, fadeTime) /\ Fades(u, t.of)
    BY <1>1, <1>2, Hiding, TimersAre, TimerIs, FadeTimeIs DEF Fades
  <1>3. isPopoverShown[t.of] => \E u \in timers' : Fades(u, t.of)
    BY Hiding
  <1>4. ToSet(tips) \subseteq Popovers
    BY TipsIs DEF PreviewInv
  <1>5. OwnHandlers' /\ ShownAreThere' /\ OneShown' /\ TipsDiffer(tips)'
    BY <1>1 DEF Orderly, OwnHandlers, ShownAreThere, OneShown, TipsDiffer
  <1>6. HiddenFade'
    <2>1. ASSUME NEW p \in ToSet(tips), ~isPopoverShown'[p]
          PROVE  \E u \in timers' : Fades(u, p)
      <3>1. CASE isPopoverShown[p]
        BY <1>1, <1>3, <1>4, <2>1, <3>1
      <3>2. CASE ~isPopoverShown[p]
        <4>1. PICK u \in timers : Fades(u, p)
          BY <3>2 DEF Orderly, HiddenFade
        <4>2. u \in timers'
          BY <1>1, <4>1 DEF Fades
        <4>3. QED
          BY <4>1, <4>2
      <3>3. QED
        BY <3>1, <3>2
    <2>2. QED
      BY <1>1, <2>1 DEF HiddenFade, Fades
  <1>7. FadingAreHidden'
    <2>1. ASSUME NEW u \in timers', u.task = "gone"
          PROVE  /\ u.of \in ToSet(tips) /\ ~isPopoverShown'[u.of]
                 /\ \A v \in timers' : Fades(v, u.of) => v = u
      <3>1. CASE u \in timers
        <4>1. u.of \in ToSet(tips) /\ ~isPopoverShown[u.of]
              /\ \A v \in timers : Fades(v, u.of) => v = u
          BY <2>1, <3>1 DEF Orderly, FadingAreHidden
        <4>2. \A v \in timers' : Fades(v, u.of) => v \in timers
          BY <1>2, <4>1 DEF Fades
        <4>3. QED
          BY <1>1, <1>4, <4>1, <4>2
      <3>2. CASE isPopoverShown[t.of] /\ u = Timer("gone", t.of, fadeTime) /\ Fades(u, t.of)
        <4>1. \A v \in timers : ~Fades(v, t.of)
          BY <3>2 DEF Orderly, FadingAreHidden, Fades
        <4>2. \A v \in timers' : Fades(v, t.of) => v = u
          BY <1>2, <3>2, <4>1
        <4>3. u.of = t.of /\ t.of \in ToSet(tips)
          BY <1>1, <3>2 DEF Orderly, ShownAreThere, Fades
        <4>4. QED
          BY <1>1, <4>2, <4>3
      <3>3. QED
        BY <1>2, <3>1, <3>2
    <2>2. QED
      BY <1>1, <2>1 DEF FadingAreHidden, Fades
  <1>8. ShownAnew'
    <2>1. ASSUME NEW u \in timers', NEW v \in timers', u.task = "show"
          PROVE  /\ ~isPopoverShown'[u.of] /\ ~Hides(v, u.of)
                 /\ Fades(v, u.of) => v.due < u.due
                 /\ v.task = "show" /\ v.of = u.of => v = u
      <3>1. u \in timers /\ u.of \in Popovers
        BY <1>2, <2>1 DEF Fades
      <3>2. ~isPopoverShown[u.of]
        BY <2>1, <3>1 DEF Orderly, ShownAnew
      <3>3. CASE v \in timers
        BY <1>1, <2>1, <3>1, <3>2, <3>3 DEF Orderly, ShownAnew
      <3>4. CASE isPopoverShown[t.of] /\ Fades(v, t.of)
        BY <1>1, <3>1, <3>2, <3>4 DEF Fades, Hides
      <3>5. QED
        BY <1>2, <3>3, <3>4
    <2>2. QED
      BY <1>1, <2>1 DEF ShownAnew, Hides, Fades
  <1>9. ASSUME NEW p \in Popovers, isPopoverShown'[p], NEW u \in timers, Hides(u, p)
        PROVE  u \in timers'
    BY <1>1, <1>9 DEF Hides
  <1>10. HiddenBefore'
    <2>1. ASSUME NEW v \in timers', NEW p \in Popovers,
                 v.task = "show", v.of \notin disposed, isPopoverShown'[p]
          PROVE  \E u \in timers' : Hides(u, p) /\ u.due < v.due
      <3>1. v \in timers /\ isPopoverShown[p]
        BY <1>1, <1>2, <2>1 DEF Fades
      <3>2. QED
        BY <1>9, <2>1, <3>1 DEF Orderly, HiddenBefore
    <2>2. QED
      BY <1>1, <2>1 DEF HiddenBefore, Hides
  <1>11. ShownAreLeft'
    <2>1. ASSUME NEW p \in Popovers, isPopoverShown'[p]
          PROVE  \/ pointer = OnLink(p[1])
                 \/ pointer = OnTip(p) /\ <<p, p>> \in listeners
                 \/ \E u \in timers' : Hides(u, p)
      BY <1>1, <1>9, <2>1 DEF Orderly, ShownAreLeft
    <2>2. QED
      BY <1>1, <2>1 DEF ShownAreLeft, Hides
  <1>12. AttachedFirst'
    <2>1. ASSUME NEW u \in timers', u.task = "hover"
          PROVE  /\ isPopoverShown'[u.of]
                 /\ \A v \in timers' : Hides(v, u.of) => u.due < v.due
      <3>1. u \in timers /\ u.of \in Popovers /\ u.due \in Int /\ u.due >= 0
        BY <1>2, <2>1 DEF Fades
      <3>2. isPopoverShown[u.of] /\ \A v \in timers : Hides(v, u.of) => u.due < v.due
        BY <2>1, <3>1 DEF Orderly, AttachedFirst
      <3>3. u.of # t.of
        BY <1>1, <3>1, <3>2 DEF Hides
      <3>4. \A v \in timers' : Hides(v, u.of) => v \in timers
        BY <1>2 DEF Hides, Fades
      <3>5. QED
        BY <1>1, <3>1, <3>2, <3>3, <3>4
    <2>2. QED
      BY <1>1, <2>1 DEF AttachedFirst, Hides
  <1>13. QED
    BY <1>5, <1>6, <1>7, <1>8, <1>10, <1>11, <1>12 DEF Orderly

\* What becomes of a tip that has faded out.
LEMMA Going ==
  ASSUME PreviewInv, Orderly, NEW t \in timers, gone(t)
  PROVE  /\ t.task = "gone" /\ t.due = 0 /\ t.of \in Popovers
         /\ timers' = timers \ {t} /\ \A u \in timers' : ~Fades(u, t.of)
         /\ ~isPopoverShown[t.of]
         /\ ToSet(tips') = ToSet(tips) \ {t.of} /\ TipsDiffer(tips')
         /\ listeners' = {x \in listeners : x[1] # t.of}
         /\ pointer' = pointer \/ (pointer = OnTip(t.of) /\ pointer' = Away)
         /\ UNCHANGED <<fadeTime, made, disposed, isPopoverShown, content, requests, alone,
                        misplaced>>
  <1>1. t.task = "gone" /\ t.due = 0 /\ t.of \in Popovers
    BY TimersAre DEF gone, Due
  <1>2. timers' = timers \ {t}
    BY DEF gone
  <1>3. ~isPopoverShown[t.of] /\ \A u \in timers : Fades(u, t.of) => u = t
    BY <1>1 DEF Orderly, FadingAreHidden
  <1>4. ToSet(tips') = ToSet(tips) \ {t.of} /\ TipsDiffer(tips')
    <2>1. PICK i \in DOMAIN tips : tips[i] = t.of /\ tips' = RemoveAt(tips, i)
      BY DEF gone
    <2>2. tips \in Seq(Popovers) /\ i \in 1..Len(tips)
      BY DEF PreviewInv, PreviewTyped
    <2>3. QED
      BY <2>1, <2>2, TipRemoved DEF Orderly
  <1>5. QED
    BY <1>1, <1>2, <1>3, <1>4 DEF gone, pageVars, historyVars

LEMMA OrderlyGone ==
  ASSUME PreviewInv, Orderly, NEW t \in timers, gone(t)
  PROVE  Orderly'
  <1>1. /\ t.task = "gone" /\ t.of \in Popovers
        /\ timers' = timers \ {t} /\ \A u \in timers' : ~Fades(u, t.of)
        /\ ~isPopoverShown[t.of]
        /\ ToSet(tips') = ToSet(tips) \ {t.of} /\ TipsDiffer(tips')
        /\ listeners' = {x \in listeners : x[1] # t.of}
        /\ pointer' = pointer \/ (pointer = OnTip(t.of) /\ pointer' = Away)
        /\ UNCHANGED <<made, disposed, isPopoverShown>>
    BY Going
  <1>2. OwnHandlers' /\ ShownAreThere' /\ OneShown' /\ TipsDiffer(tips)'
    BY <1>1 DEF Orderly, OwnHandlers, ShownAreThere, OneShown, TipsDiffer
  <1>3. HiddenFade'
    BY <1>1 DEF Orderly, HiddenFade, Fades
  <1>4. FadingAreHidden'
    BY <1>1 DEF Orderly, FadingAreHidden, Fades
  <1>5. ShownAnew' /\ AttachedFirst'
    BY <1>1 DEF Orderly, ShownAnew, AttachedFirst, Hides, Fades
  <1>6. HiddenBefore'
    BY <1>1 DEF Orderly, HiddenBefore, Hides
  <1>7. ShownAreLeft'
    <2>1. ASSUME NEW p \in Popovers, isPopoverShown[p]
          PROVE  \/ pointer' = OnLink(p[1])
                 \/ pointer' = OnTip(p) /\ <<p, p>> \in listeners'
                 \/ \E u \in timers' : Hides(u, p)
      <3>1. p # t.of /\ <<p, p>>[1] = p
        BY <1>1, <2>1
      <3>2. CASE pointer = OnLink(p[1])
        BY <1>1, <3>2, PlacesDiffer, PopoverIs
      <3>3. CASE pointer = OnTip(p) /\ <<p, p>> \in listeners
        BY <1>1, <3>1, <3>3, PlacesDiffer
      <3>4. CASE \E u \in timers : Hides(u, p)
        BY <1>1, <3>4 DEF Hides
      <3>5. QED
        BY <2>1, <3>2, <3>3, <3>4 DEF Orderly, ShownAreLeft
    <2>2. QED
      BY <1>1, <2>1 DEF ShownAreLeft, Hides
  <1>8. QED
    BY <1>2, <1>3, <1>4, <1>5, <1>6, <1>7 DEF Orderly

LEMMA OrderlyPresent == ASSUME PreviewInv, Orderly, Present PROVE Orderly'
  <1>1. UNCHANGED <<isPopoverShown, timers, tips, listeners, pointer>>
    BY DEF Present, mouseVars
  <1>2. \A t \in timers : t.task # "show"
    BY Presented, TimersAre, PlacesDiffer, PopoverIs
  <1>3. OwnHandlers' /\ OneShown' /\ TipsDiffer(tips)'
    BY <1>1 DEF Orderly, OwnHandlers, OneShown, TipsDiffer
  <1>4. ShownAreThere'
    <2>1. ASSUME NEW p \in Popovers, isPopoverShown[p] PROVE p \in ToSet(tips) /\ p[2] = made'[p[1]]
      <3>1. p \in ToSet(tips) /\ p[2] = made[p[1]]
        BY <2>1 DEF Orderly, ShownAreThere
      <3>2. QED
        BY <3>1, Presented, PopoverIs
    <2>2. QED
      BY <1>1, <2>1 DEF ShownAreThere
  <1>5. HiddenFade' /\ ShownAreLeft' /\ FadingAreHidden'
    BY <1>1 DEF Orderly, HiddenFade, ShownAreLeft, FadingAreHidden, Fades, Hides
  <1>6. ShownAnew' /\ AttachedFirst' /\ HiddenBefore'
    BY <1>1, <1>2 DEF Orderly, ShownAnew, AttachedFirst, HiddenBefore, Fades, Hides
  <1>7. QED
    BY <1>3, <1>4, <1>5, <1>6 DEF Orderly

LEMMA OrderlyAnswers == ASSUME PreviewInv, Orderly, Answers \/ UNCHANGED vars PROVE Orderly'
  <1>1. UNCHANGED <<made, disposed, isPopoverShown, timers, tips, listeners, pointer>>
    BY DEF Answers, onload, onloadError, Answered, pageVars, mouseVars, vars
  <1>2. QED
    BY <1>1, OrderlyLess
-----------------------------------------------------------------------------
(***************************************************************************)
(* None do if the delays leave the tip before the time to go.              *)
(***************************************************************************)
\* A tip is gone before the handlers of another popover are attached.
Soon == HideDelay + fadeTime < ShowDelay + AttachDelay

AttachedAlone ==
    \A t \in timers, p \in ToSet(tips) : t.task = "hover" /\ t.of # p
        => \E u \in timers : Fades(u, p) /\ u.due < t.due

GoneBefore ==
    \A t \in timers, p \in ToSet(tips) : t.task = "show" /\ t.of \notin disposed /\ t.of # p
        => \E u \in timers :
              \/ isPopoverShown[p] /\ Hides(u, p) /\ u.due + fadeTime < t.due + AttachDelay
              \/ Fades(u, p) /\ u.due < t.due + AttachDelay

InOrder ==
    /\ PreviewInv
    /\ ~misplaced => Orderly
    /\ Soon => ~misplaced /\ AttachedAlone /\ GoneBefore

LEMMA OrderlyNext == PreviewInv /\ Orderly /\ [Next]_vars /\ ~misplaced' => Orderly'
  BY Steps, OrderlyMove, OrderlyTick, OrderlyShow, OrderlyHover, OrderlyHide, OrderlyGone,
     OrderlyPresent, OrderlyAnswers

LEMMA AloneInit == Init => ~misplaced /\ AttachedAlone /\ GoneBefore
  BY DEF Init, AttachedAlone, GoneBefore

LEMMA AloneMove ==
  ASSUME PreviewInv, Orderly, Soon, AttachedAlone, GoneBefore, NEW place \in Places, Move(place)
  PROVE  AttachedAlone' /\ GoneBefore'
  <1>1. /\ pointer' = place
        /\ UNCHANGED <<fadeTime, made, disposed, isPopoverShown, tips, listeners>>
    BY DEF Move, pageVars, historyVars
  <1>2. Continues(timers, timers')
    BY Moved
  <1>3. ASSUME NEW t \in timers', t.task = "hover" PROVE t \in timers
    BY <1>3, Moved, TimerIs, Delays
  <1>4. ASSUME NEW t \in timers', t.task = "show" PROVE t.due = ShowDelay
    <2>1. \A p \in Popovers : t # Timer("hide", p, HideDelay)
      BY <1>4, TimerIs, Delays
    <2>2. PICK p \in Popovers : t = Timer("show", p, ShowDelay)
      BY <1>4, <2>1, Moved
    <2>3. QED
      BY <2>2, TimerIs, Delays
  <1>5. ASSUME NEW u \in timers', u.task = "hide" PROVE u.due \in Int /\ u.due <= HideDelay
    <2>1. \A p \in Popovers : u # Timer("show", p, ShowDelay)
      BY <1>5, TimerIs, Delays
    <2>2. CASE \E p \in Popovers : u = Timer("hide", p, HideDelay)
      BY <2>2, TimerIs, Delays
    <2>3. CASE u \in timers
      BY <1>5, <2>3, TimersAre
    <2>4. QED
      BY <2>1, <2>2, <2>3, Moved
  <1>6. ToSet(tips) \subseteq Popovers /\ fadeTime \in Nat /\ fadeTime < ShowDelay
    BY TipsIs, FadeTimeIs DEF PreviewInv
  <1>7. AttachedAlone'
    <2>1. ASSUME NEW t \in timers', NEW p \in ToSet(tips), t.task = "hover", t.of # p
          PROVE  \E u \in timers' : Fades(u, p) /\ u.due < t.due
      <3>1. PICK u \in timers : Fades(u, p) /\ u.due < t.due
        BY <1>3, <2>1 DEF AttachedAlone
      <3>2. u \in timers'
        BY <1>2, <3>1 DEF Continues, Fades
      <3>3. QED
        BY <3>1, <3>2
    <2>2. QED
      BY <1>1, <2>1 DEF AttachedAlone, Fades
  <1>8. GoneBefore'
    <2>1. ASSUME NEW t \in timers', NEW p \in ToSet(tips),
                 t.task = "show", t.of \notin disposed, t.of # p
          PROVE  \E u \in timers' :
                    \/ /\ isPopoverShown[p] /\ Hides(u, p)
                       /\ u.due + fadeTime < t.due + AttachDelay
                    \/ Fades(u, p) /\ u.due < t.due + AttachDelay
      <3>1. CASE isPopoverShown[p]
        <4>1. PICK u \in timers' : Hides(u, p)
          <5>1. Orderly'
            BY OrderlyMove
          <5>2. \E u \in timers' : Hides(u, p) /\ u.due < t.due
            BY <1>1, <1>6, <2>1, <3>1, <5>1 DEF Orderly, HiddenBefore, Hides
          <5>3. QED
            BY <5>2
        <4>2. u.due \in Int /\ u.due <= HideDelay /\ t.due = ShowDelay
          BY <1>4, <1>5, <2>1, <4>1 DEF Hides
        <4>3. QED
          BY <1>6, <3>1, <4>1, <4>2, Delays DEF Soon
      <3>2. CASE ~isPopoverShown[p]
        <4>1. PICK u \in timers : Fades(u, p)
          BY <3>2 DEF Orderly, HiddenFade
        <4>2. u \in timers' /\ u.due \in Int /\ u.due <= fadeTime
          BY <1>2, <4>1, TimersAre DEF Continues, Fades
        <4>3. t.due = ShowDelay
          BY <1>4, <2>1
        <4>4. QED
          BY <1>6, <4>1, <4>2, <4>3, Delays
      <3>3. QED
        BY <3>1, <3>2
    <2>2. QED
      BY <1>1, <2>1 DEF GoneBefore, Hides, Fades
  <1>9. QED
    BY <1>7, <1>8

LEMMA AloneTick ==
  ASSUME PreviewInv, AttachedAlone, GoneBefore, Tick
  PROVE  AttachedAlone' /\ GoneBefore'
  <1>1. UNCHANGED <<fadeTime, disposed, isPopoverShown, tips>>
    BY DEF Tick, pageVars
  <1>2. \A u \in timers' : \E t \in timers : u.task = t.task /\ u.of = t.of /\ u.due = t.due - 1
    BY Ticked
  <1>3. \A t \in timers : \E u \in timers' : u.task = t.task /\ u.of = t.of /\ u.due = t.due - 1
    BY Ticked
  <1>4. \A t \in timers : t.due \in Int
    BY TimersAre
  <1>5. fadeTime \in Int /\ AttachDelay \in Int
    BY FadeTimeIs, Delays
  <1>6. AttachedAlone'
    <2>1. ASSUME NEW v \in timers', NEW p \in ToSet(tips), v.task = "hover", v.of # p
          PROVE  \E w \in timers' : Fades(w, p) /\ w.due < v.due
      <3>1. PICK t \in timers : v.task = t.task /\ v.of = t.of /\ v.due = t.due - 1
        BY <1>2
      <3>2. PICK u \in timers : Fades(u, p) /\ u.due < t.due
        BY <2>1, <3>1 DEF AttachedAlone
      <3>3. PICK w \in timers' : w.task = u.task /\ w.of = u.of /\ w.due = u.due - 1
        BY <1>3
      <3>4. QED
        BY <1>4, <3>1, <3>2, <3>3 DEF Fades
    <2>2. QED
      BY <1>1, <2>1 DEF AttachedAlone, Fades
  <1>7. GoneBefore'
    <2>1. ASSUME NEW v \in timers', NEW p \in ToSet(tips),
                 v.task = "show", v.of \notin disposed, v.of # p
          PROVE  \E w \in timers' :
                    \/ /\ isPopoverShown[p] /\ Hides(w, p)
                       /\ w.due + fadeTime < v.due + AttachDelay
                    \/ Fades(w, p) /\ w.due < v.due + AttachDelay
      <3>1. PICK t \in timers : v.task = t.task /\ v.of = t.of /\ v.due = t.due - 1
        BY <1>2
      <3>2. PICK u \in timers :
               \/ isPopoverShown[p] /\ Hides(u, p) /\ u.due + fadeTime < t.due + AttachDelay
               \/ Fades(u, p) /\ u.due < t.due + AttachDelay
        BY <2>1, <3>1 DEF GoneBefore
      <3>3. PICK w \in timers' : w.task = u.task /\ w.of = u.of /\ w.due = u.due - 1
        BY <1>3
      <3>4. QED
        BY <1>4, <1>5, <3>1, <3>2, <3>3 DEF Fades, Hides
    <2>2. QED
      BY <1>1, <2>1 DEF GoneBefore, Hides, Fades
  <1>8. QED
    BY <1>6, <1>7

LEMMA AloneShow ==
  ASSUME PreviewInv, Orderly, AttachedAlone, GoneBefore, NEW t \in timers, showTimeout(t)
  PROVE  AttachedAlone' /\ GoneBefore'
  <1>1. /\ t.task = "show" /\ t.due = 0 /\ t.of \in Popovers
        /\ UNCHANGED <<fadeTime, disposed>>
    BY Showing
  <1>2. CASE timers' = timers \ {t} /\ UNCHANGED <<isPopoverShown, tips>>
    BY <1>1, <1>2 DEF AttachedAlone, GoneBefore, Fades, Hides
  <1>3. CASE /\ t.of \notin disposed
             /\ timers' = (timers \ {t}) \cup {Timer("hover", t.of, AttachDelay)}
             /\ tips' = Append(tips, t.of)
    <2>1. /\ \A p \in Popovers : ~isPopoverShown[p]
          /\ \A u \in timers : u.task # "hover"
          /\ \A u \in timers : u.task = "show" /\ u.of \notin disposed => u.of = t.of
      BY <1>1, <1>3, ShownAlone
    <2>2. PICK h : /\ h = Timer("hover", t.of, AttachDelay)
                   /\ h.task = "hover" /\ h.of = t.of /\ h.due = AttachDelay
      BY <1>1, TimerIs, Delays
    <2>3. \A u \in timers' : u = h \/ (u \in timers /\ u # t)
      BY <1>3, <2>2
    <2>4. tips \in Seq(Popovers) /\ ToSet(tips) \subseteq Popovers
      BY TipsIs DEF PreviewInv, PreviewTyped
    <2>5. ToSet(tips') = ToSet(tips) \cup {t.of}
      BY <1>1, <1>3, <2>4, TipAppended
    <2>6. AttachedAlone'
      <3>1. ASSUME NEW p \in ToSet(tips), p # t.of
            PROVE  \E u \in timers' : Fades(u, p) /\ u.due < AttachDelay
        <4>1. PICK u \in timers : Fades(u, p) /\ u.due < t.due + AttachDelay
          BY <1>1, <1>3, <2>1, <2>4, <3>1 DEF GoneBefore
        <4>2. u \in timers'
          BY <1>1, <1>3, <4>1 DEF Fades
        <4>3. QED
          BY <1>1, <4>1, <4>2, Delays
      <3>2. ASSUME NEW v \in timers', v.task = "hover" PROVE v = h
        BY <2>1, <2>3, <3>2
      <3>3. QED
        BY <2>2, <2>5, <3>1, <3>2 DEF AttachedAlone, Fades
    <2>7. GoneBefore'
      <3>1. ASSUME NEW v \in timers', v.task = "show" PROVE v.of \in disposed
        <4>1. v \in timers /\ v # t
          BY <2>2, <2>3, <3>1
        <4>2. v.of # t.of
          BY <1>1, <3>1, <4>1 DEF Orderly, ShownAnew
        <4>3. QED
          BY <2>1, <3>1, <4>1, <4>2
      <3>2. QED
        BY <1>1, <3>1 DEF GoneBefore
    <2>8. QED
      BY <2>6, <2>7
  <1>4. QED
    BY <1>2, <1>3, Showing

\* The tip that is found is that of the popover.
LEMMA AloneHover ==
  ASSUME PreviewInv, Orderly, ~misplaced, AttachedAlone, GoneBefore,
         NEW t \in timers, hoverTimeout(t)
  PROVE  ~misplaced' /\ AttachedAlone' /\ GoneBefore'
  <1>1. /\ t.task = "hover" /\ t.due = 0 /\ timers' = timers \ {t}
        /\ UNCHANGED <<fadeTime, disposed, isPopoverShown, tips>>
    BY DEF hoverTimeout, Due, pageVars
  <1>2. ASSUME tips # <<>> PROVE tipFound = t.of
    <2>1. tips \in Seq(Popovers)
      BY DEF PreviewInv, PreviewTyped
    <2>2. tipFound \in ToSet(tips)
      BY <1>2, <2>1 DEF tipFound, ToSet
    <2>3. \A u \in timers : ~(u.due < t.due)
      BY <1>1, TimersAre
    <2>4. QED
      BY <1>1, <2>2, <2>3 DEF AttachedAlone
  <1>3. ~misplaced'
    BY <1>2 DEF hoverTimeout
  <1>4. AttachedAlone' /\ GoneBefore'
    BY <1>1 DEF AttachedAlone, GoneBefore, Hides, Fades
  <1>5. QED
    BY <1>3, <1>4

LEMMA AloneHide ==
  ASSUME PreviewInv, Orderly, AttachedAlone, GoneBefore, NEW t \in timers, hideTimeout(t)
  PROVE  AttachedAlone' /\ GoneBefore'
  <1>1. /\ t.task = "hide" /\ t.due = 0 /\ t.of \in Popovers
        /\ \A p \in Popovers : isPopoverShown'[p] <=> isPopoverShown[p] /\ p # t.of
        /\ \A u \in timers : u # t => u \in timers'
        /\ \A u \in timers' : u \in timers \/ u = Timer("gone", t.of, fadeTime)
        /\ UNCHANGED <<fadeTime, disposed, tips>>
    BY Hiding
  <1>2. ASSUME NEW u \in timers', u.task # "gone" PROVE u \in timers
    BY <1>1, <1>2, TimerIs, FadeTimeIs
  <1>3. \A p : \A u \in timers : Fades(u, p) => u \in timers'
    BY <1>1 DEF Fades
  <1>4. ToSet(tips) \subseteq Popovers
    BY TipsIs DEF PreviewInv
  <1>5. AttachedAlone'
    BY <1>1, <1>2, <1>3 DEF AttachedAlone, Fades
  <1>6. GoneBefore'
    <2>1. ASSUME NEW v \in timers', NEW p \in ToSet(tips),
                 v.task = "show", v.of \notin disposed, v.of # p
          PROVE  \E w \in timers' :
                    \/ /\ isPopoverShown'[p] /\ Hides(w, p)
                       /\ w.due + fadeTime < v.due + AttachDelay
                    \/ Fades(w, p) /\ w.due < v.due + AttachDelay
      <3>1. PICK u \in timers :
               \/ isPopoverShown[p] /\ Hides(u, p) /\ u.due + fadeTime < v.due + AttachDelay
               \/ Fades(u, p) /\ u.due < v.due + AttachDelay
        BY <1>2, <2>1 DEF GoneBefore
      <3>2. CASE Fades(u, p) /\ u.due < v.due + AttachDelay
        BY <1>3, <3>2
      <3>3. CASE /\ isPopoverShown[p] /\ Hides(u, p)
                 /\ u.due + fadeTime < v.due + AttachDelay
        <4>1. CASE p = t.of
          <5>1. PICK w \in timers' : Fades(w, p) /\ w.due = fadeTime
            BY <3>3, <4>1, Hiding
          <5>2. v \in timers
            BY <1>2, <2>1
          <5>3. v.due \in Int /\ u.due \in Int /\ u.due >= 0
            BY <5>2, TimersAre
          <5>4. QED
            BY <3>3, <5>1, <5>3, FadeTimeIs, Delays
        <4>2. CASE p # t.of
          BY <1>1, <1>4, <3>3, <4>2 DEF Hides
        <4>3. QED
          BY <4>1, <4>2
      <3>4. QED
        BY <3>1, <3>2, <3>3
    <2>2. QED
      BY <1>1, <2>1 DEF GoneBefore, Hides, Fades
  <1>7. QED
    BY <1>5, <1>6

LEMMA AloneGone ==
  ASSUME PreviewInv, Orderly, AttachedAlone, GoneBefore, NEW t \in timers, gone(t)
  PROVE  AttachedAlone' /\ GoneBefore'
  <1>1. /\ t.task = "gone" /\ timers' = timers \ {t}
        /\ ToSet(tips') = ToSet(tips) \ {t.of}
        /\ UNCHANGED <<fadeTime, disposed, isPopoverShown>>
    BY Going
  <1>2. \A p : \A u \in timers : (Fades(u, p) \/ Hides(u, p)) /\ p # t.of => u \in timers'
    BY <1>1 DEF Fades, Hides
  <1>3. AttachedAlone'
    BY <1>1, <1>2 DEF AttachedAlone, Fades
  <1>4. GoneBefore'
    BY <1>1, <1>2 DEF GoneBefore, Fades, Hides
  <1>5. QED
    BY <1>3, <1>4

LEMMA AlonePresent ==
  ASSUME PreviewInv, AttachedAlone, Present PROVE AttachedAlone' /\ GoneBefore'
  <1>1. UNCHANGED <<isPopoverShown, timers, tips>>
    BY DEF Present
  <1>2. \A t \in timers : t.task # "show"
    BY Presented, TimersAre, PlacesDiffer, PopoverIs
  <1>3. QED
    BY <1>1, <1>2 DEF AttachedAlone, GoneBefore, Fades

LEMMA InOrderInit == Init => InOrder
  BY PreviewInit, OrderlyInit, AloneInit DEF InOrder

LEMMA InOrderNext == InOrder /\ [Next]_vars => InOrder'
  <1> SUFFICES ASSUME InOrder, [Next]_vars PROVE InOrder'
    OBVIOUS
  <1>1. PreviewInv' /\ PreviewInv
    BY PreviewNext DEF InOrder
  <1>2. fadeTime' = fadeTime
    <2>1. UNCHANGED pageVars \/ Present
      BY Steps DEF Move, showTimeout, hoverTimeout, hideTimeout, gone, Answers, onload,
         onloadError, Answered, Tick, vars
    <2>2. QED
      BY <2>1 DEF pageVars, Present
  <1>3. ~misplaced' => ~misplaced
    BY Steps DEF Move, showTimeout, hoverTimeout, hideTimeout, gone, Answers, onload,
       onloadError, Answered, Present, Tick, vars, historyVars
  <1>4. ~misplaced' => Orderly'
    BY <1>1, <1>3, OrderlyNext DEF InOrder
  <1>5. ASSUME Soon PROVE ~misplaced' /\ AttachedAlone' /\ GoneBefore'
    <2>1. PreviewInv /\ Orderly /\ ~misplaced /\ AttachedAlone /\ GoneBefore
      BY <1>5 DEF InOrder
    <2>2. CASE \E place \in Places : Move(place)
      BY <1>5, <2>1, <2>2, AloneMove DEF Move, historyVars
    <2>3. CASE Tick
      BY <2>1, <2>3, AloneTick DEF Tick, historyVars
    <2>4. ASSUME NEW t \in timers, showTimeout(t)
          PROVE  ~misplaced' /\ AttachedAlone' /\ GoneBefore'
      BY <2>1, <2>4, AloneShow DEF showTimeout
    <2>5. ASSUME NEW t \in timers, hoverTimeout(t)
          PROVE  ~misplaced' /\ AttachedAlone' /\ GoneBefore'
      BY <2>1, <2>5, AloneHover
    <2>6. ASSUME NEW t \in timers, hideTimeout(t)
          PROVE  ~misplaced' /\ AttachedAlone' /\ GoneBefore'
      BY <2>1, <2>6, AloneHide DEF hideTimeout, historyVars
    <2>7. ASSUME NEW t \in timers, gone(t) PROVE ~misplaced' /\ AttachedAlone' /\ GoneBefore'
      BY <2>1, <2>7, AloneGone DEF gone, historyVars
    <2>8. CASE Present
      BY <2>1, <2>8, AlonePresent DEF Present, historyVars
    <2>9. CASE Answers \/ UNCHANGED vars
      <3>1. UNCHANGED <<fadeTime, disposed, isPopoverShown, timers, tips, misplaced>>
        BY <2>9 DEF Answers, onload, onloadError, Answered, vars, pageVars, historyVars
      <3>2. QED
        BY <2>1, <3>1 DEF AttachedAlone, GoneBefore, Fades, Hides
    <2>10. QED
      BY <2>2, <2>3, <2>4, <2>5, <2>6, <2>7, <2>8, <2>9, Steps
  <1>6. QED
    BY <1>1, <1>2, <1>4, <1>5 DEF InOrder, Soon

LEMMA ShownAreShown ==
  ASSUME InOrder, Undisturbed
  PROVE  /\ Orderly /\ ~misplaced
         /\ Shown \subseteq {p \in Popovers : isPopoverShown[p]}
  <1>1. PreviewInv /\ Orderly /\ ~misplaced
    BY DEF InOrder, Undisturbed, Soon
  <1>2. ToSet(tips) \subseteq Popovers
    BY <1>1, TipsIs DEF PreviewInv
  <1>3. QED
    BY <1>1, <1>2 DEF Shown, Fading, Orderly, HiddenFade, Fades

LEMMA OneIsShown == InOrder => AtMostOneShown
  <1> SUFFICES ASSUME InOrder, Undisturbed PROVE Cardinality(Shown) <= 1
    BY DEF AtMostOneShown
  <1>1. \A p, q \in Shown : p = q
    BY ShownAreShown DEF Orderly, OneShown
  <1>2. CASE Shown = {}
    BY <1>2, FS_EmptySet
  <1>3. CASE Shown # {}
    <2>1. PICK p : p \in Shown
      BY <1>3
    <2>2. Shown = {p}
      BY <1>1, <2>1
    <2>3. QED
      BY <2>2, FS_Singleton
  <1>4. QED
    BY <1>2, <1>3

\* Of two popovers one is hidden before the other is shown, wherever the pointer goes and
\* however long tips fade out, unless handlers went to another tip.
THEOREM ShowsOneAtMost == Spec => []AtMostOneShown
  <1>1. QED
    BY InOrderInit, InOrderNext, OneIsShown, PTL DEF Spec
-----------------------------------------------------------------------------
(***************************************************************************)
(* The content of what is shown.                                           *)
(***************************************************************************)
AnswersTyped ==
    /\ requests \in [Links -> Nat]
    /\ content \in [Popovers -> Links \cup {Loading, Blank, Undefined}]

\* No request for another link can answer what is shown alone, and none did.
OwnAnswers ==
    \A p \in Popovers \cap alone : isPopoverShown[p] =>
        /\ content[p] \notin Links \ {p[1]}
        /\ \A l \in Links : requests[l] > 0 => l = p[1]

AloneInOrder == InOrder /\ AnswersTyped /\ (~misplaced => OwnAnswers)

LEMMA NoLinks == Links \cap {Loading, Blank, Undefined} = {}
  BY PreviewAssumption DEF PreviewAssumption

LEMMA OwnInit == Init => AnswersTyped /\ OwnAnswers
  <1> SUFFICES ASSUME Init PROVE AnswersTyped /\ OwnAnswers
    OBVIOUS
  <1>1. requests \in [Links -> Nat]
    BY DEF Init
  <1>2. content \in [Popovers -> Links \cup {Loading, Blank, Undefined}]
    BY DEF Init
  <1>3. alone = {}
    BY DEF Init
  <1>4. QED
    BY <1>1, <1>2, <1>3 DEF AnswersTyped, OwnAnswers

LEMMA OwnShow ==
  ASSUME PreviewInv, AnswersTyped, NEW t \in timers, showTimeout(t)
  PROVE  AnswersTyped' /\ (Orderly /\ OwnAnswers => OwnAnswers')
  <1>1. t.task = "show" /\ t.due = 0 /\ t.of \in Popovers /\ t.of[1] \in Links
    BY Showing, PopoverIs
  <1>2. CASE UNCHANGED <<isPopoverShown, content, requests, alone>>
    BY <1>2 DEF AnswersTyped, OwnAnswers
  <1>3. CASE /\ t.of \notin disposed
             /\ isPopoverShown' = [isPopoverShown EXCEPT ![t.of] = TRUE]
             /\ requests' = [requests EXCEPT ![t.of[1]] = @ + 1]
             /\ content' = [content EXCEPT ![t.of] =
                                  IF config[t.of] = Loading THEN Loading ELSE Blank]
             /\ alone' = IF tips = <<>> /\ \A l \in Links \ {t.of[1]} : requests[l] = 0
                         THEN alone \cup {t.of} ELSE alone \ {t.of}
    <2>1. PICK s \in {Loading, Blank} : content' = [content EXCEPT ![t.of] = s]
      BY <1>3
    <2>2. AnswersTyped'
      <3>1. requests' \in [Links -> Nat]
        BY <1>1, <1>3 DEF AnswersTyped
      <3>2. content' \in [Popovers -> Links \cup {Loading, Blank, Undefined}]
        BY <1>1, <2>1 DEF AnswersTyped
      <3>3. QED
        BY <3>1, <3>2 DEF AnswersTyped
    <2>3. ASSUME Orderly, OwnAnswers, NEW p \in Popovers \cap alone', isPopoverShown'[p]
          PROVE  /\ content'[p] \notin Links \ {p[1]}
                 /\ \A l \in Links : requests'[l] > 0 => l = p[1]
      <3>1. p = t.of
        <4>1. \A q \in Popovers : ~isPopoverShown[q]
          BY <1>1, <1>3, <2>3, ShownAlone
        <4>2. QED
          BY <1>1, <1>3, <2>3, <4>1 DEF PreviewInv, PreviewTyped
      <3>2. content'[p] \notin Links
        BY <1>1, <2>1, <3>1, NoLinks DEF AnswersTyped
      <3>3. \A l \in Links \ {t.of[1]} : requests[l] = 0
        BY <1>3, <2>3, <3>1
      <3>4. \A l \in Links \ {t.of[1]} : requests'[l] = 0
        BY <1>1, <1>3, <3>3 DEF AnswersTyped
      <3>5. QED
        BY <3>1, <3>2, <3>4
    <2>4. QED
      BY <2>2, <2>3 DEF OwnAnswers
  <1>4. QED
    BY <1>2, <1>3, Showing

LEMMA OwnAnswered ==
  ASSUME AnswersTyped, Answers
  PROVE  AnswersTyped' /\ (OwnAnswers => OwnAnswers')
  <1>1. UNCHANGED <<isPopoverShown, alone>>
    BY DEF Answers, onload, onloadError, Answered, historyVars
  <1>2. PICK l \in Links : /\ requests[l] > 0 /\ requests' = [requests EXCEPT ![l] = @ - 1]
                           /\ onload(l) \/ onloadError(l)
    BY DEF Answers, onload, onloadError, Answered
  <1>3. content' = content \/ \E s \in {l, Undefined} : content' = [content EXCEPT ![tipFound] = s]
    BY <1>2 DEF onload, onloadError, attachIframeToHyperlinkElement
  <1>4. AnswersTyped'
    <2>1. requests' \in [Links -> Nat]
      BY <1>2 DEF AnswersTyped
    <2>2. content' \in [Popovers -> Links \cup {Loading, Blank, Undefined}]
      BY <1>3 DEF AnswersTyped
    <2>3. QED
      BY <2>1, <2>2 DEF AnswersTyped
  <1>5. ASSUME OwnAnswers, NEW p \in Popovers \cap alone, isPopoverShown[p]
        PROVE  /\ content'[p] \notin Links \ {p[1]}
               /\ \A m \in Links : requests'[m] > 0 => m = p[1]
    <2>1. /\ content[p] \notin Links \ {p[1]}
          /\ \A m \in Links : requests[m] > 0 => m = p[1]
      BY <1>5 DEF OwnAnswers
    <2>2. l = p[1]
      BY <1>2, <2>1
    <2>3. content'[p] = content[p] \/ content'[p] \in {l, Undefined}
      BY <1>3, <1>5 DEF AnswersTyped
    <2>4. \A m \in Links : requests'[m] > 0 => requests[m] > 0
      BY <1>2 DEF AnswersTyped
    <2>5. QED
      BY <2>1, <2>2, <2>3, <2>4, NoLinks
  <1>6. QED
    BY <1>1, <1>4, <1>5 DEF OwnAnswers

LEMMA OwnHide ==
  ASSUME PreviewInv, NEW t \in timers, hideTimeout(t), OwnAnswers
  PROVE  OwnAnswers'
  <1>1. UNCHANGED <<content, requests, alone>>
    BY DEF hideTimeout, historyVars
  <1>2. \A p \in Popovers : isPopoverShown'[p] => isPopoverShown[p]
    BY TimersAre DEF hideTimeout, PreviewInv, PreviewTyped
  <1>3. QED
    BY <1>1, <1>2 DEF OwnAnswers

LEMMA AloneInOrderInit == Init => AloneInOrder
  BY InOrderInit, OwnInit DEF AloneInOrder

LEMMA AloneInOrderNext == AloneInOrder /\ [Next]_vars => AloneInOrder'
  <1> SUFFICES ASSUME AloneInOrder, [Next]_vars PROVE AloneInOrder'
    OBVIOUS
  <1>1. InOrder /\ InOrder' /\ PreviewInv /\ AnswersTyped
    BY InOrderNext DEF AloneInOrder, InOrder
  <1>2. ~misplaced' => Orderly /\ OwnAnswers
    <2>1. ~misplaced' => ~misplaced
      BY Steps DEF Move, showTimeout, hoverTimeout, hideTimeout, gone, Answers, onload,
         onloadError, Answered, Present, Tick, vars, historyVars
    <2>2. QED
      BY <2>1 DEF AloneInOrder, InOrder
  <1>3. AnswersTyped' /\ (Orderly /\ OwnAnswers => OwnAnswers')
    <2>1. CASE UNCHANGED <<isPopoverShown, content, requests, alone>>
      BY <1>1, <2>1 DEF AnswersTyped, OwnAnswers
    <2>2. CASE \E t \in timers : showTimeout(t)
      BY <1>1, <2>2, OwnShow
    <2>3. CASE Answers
      BY <1>1, <2>3, OwnAnswered
    <2>4. CASE \E t \in timers : hideTimeout(t)
      BY <1>1, <2>4, OwnHide DEF AnswersTyped, hideTimeout
    <2>5. QED
      BY <2>1, <2>2, <2>3, <2>4, Steps
         DEF Move, hoverTimeout, gone, Present, Tick, vars, historyVars
  <1>4. QED
    BY <1>1, <1>2, <1>3 DEF AloneInOrder

LEMMA OwnIsShown == AloneInOrder => OwnContentWhenAlone
  BY ShownAreShown DEF AloneInOrder, OwnAnswers, OwnContentWhenAlone

\* A popover that came up alone shows its own preview, or none, whichever answers come and
\* however late, unless handlers went to another tip.
THEOREM ShowsOwnPreview == Spec => []OwnContentWhenAlone
  <1>1. QED
    BY AloneInOrderInit, AloneInOrderNext, OwnIsShown, PTL DEF Spec
===============================================================================
