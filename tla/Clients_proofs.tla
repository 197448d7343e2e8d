---------------------------- MODULE Clients_proofs ----------------------------
(***************************************************************************)
(* The clients of the servers: the populator, for any servers, factories,  *)
(* numbers of resources, attempts and threads, and a client that walks     *)
(* through the pages of a query, for any stores, sizes of pages and widths *)
(* of int.                                                                 *)
(***************************************************************************)
EXTENDS Populator, QueryPaging, FiniteSetTheorems, FunctionTheorems, SequenceTheorems,
        TLAPS

\* The values are of copies, and so are the changes.
CopiesOnly ==
    /\ value = [c \in Copies |-> value[c]]
    /\ edits \subseteq Copies \X Edits

\* What was read is as good as what the server has: every change of the resource is in it
\* or came after the reading.
ReadingsAreFresh ==
    \A x \in reading, y \in edits :
        y[1] = x.pair[1] => y[2] \in x.seen \/ y[2] \in overtaken

EditInv == CopiesOnly /\ ReadingsAreFresh /\ EditsAreKept

LEMMA EditInit == Init => EditInv
  BY DEF Init, EditInv, CopiesOnly, ReadingsAreFresh, EditsAreKept

LEMMA EditUnchanged ==
  EditInv /\ UNCHANGED <<reading, value, edits, overtaken>> => EditInv'
  BY DEF EditInv, CopiesOnly, ReadingsAreFresh, EditsAreKept

\* A reading shows the server as it is.
LEMMA EditGetResource == ASSUME EditInv, getResource PROVE EditInv'
  <1> USE DEF EditInv, CopiesOnly, ReadingsAreFresh, EditsAreKept
  <1>1. UNCHANGED <<value, edits, overtaken>>
    BY DEF getResource, serverVars, historyVars
  <1>2. PICK p \in Pairs : doGetResource(p)
    BY DEF getResource
  <1>3. CASE UNCHANGED reading
    BY <1>1, <1>3
  <1>4. CASE reading' = {[pair |-> p, seen |-> value[p[1]]]}
    BY <1>1, <1>4
  <1>5. QED
    BY <1>2, <1>3, <1>4 DEF doGetResource

\* An update leaves what was read.
LEMMA EditUpdateResource == ASSUME EditInv, updateResource PROVE EditInv'
  <1> USE DEF EditInv, CopiesOnly, ReadingsAreFresh, EditsAreKept
  <1>1. UNCHANGED <<edits, overtaken>> /\ reading' = {}
    BY DEF updateResource
  <1>2. PICK x \in reading :
           value' \in {value, [value EXCEPT ![x.pair[1]] = x.seen \cup {x.pair[2]}]}
    BY DEF updateResource
  <1>3. CASE value' = value
    BY <1>1, <1>3
  <1>4. CASE value' = [value EXCEPT ![x.pair[1]] = x.seen \cup {x.pair[2]}]
    <2>1. CopiesOnly'
      BY <1>1, <1>4
    <2>2. ASSUME NEW y \in edits
          PROVE y[2] \in value'[y[1]] \/ y[2] \in overtaken
      <3>1. y[1] \in Copies
        OBVIOUS
      <3>2. CASE y[1] = x.pair[1]
        BY <1>4, <3>1, <3>2
      <3>3. CASE y[1] # x.pair[1]
        BY <1>4, <3>1, <3>3
      <3>4. QED
        BY <3>2, <3>3
    <2>3. QED
      BY <1>1, <2>1, <2>2
  <1>5. QED
    BY <1>2, <1>3, <1>4

LEMMA EditEdit == ASSUME EditInv, NEW c \in Copies, NEW e \in Edits, Edit(c, e)
                  PROVE EditInv'
  <1> USE DEF EditInv, CopiesOnly, ReadingsAreFresh, EditsAreKept
  <1>1. /\ value' = [value EXCEPT ![c] = @ \cup {e}]
        /\ edits' = edits \cup {<<c, e>>}
        /\ overtaken' = IF \E x \in reading : x.pair[1] = c
                        THEN overtaken \cup {e} ELSE overtaken
        /\ UNCHANGED reading
    BY DEF Edit, linkVars
  <1>2. overtaken \subseteq overtaken'
    BY <1>1
  <1>3. CopiesOnly'
    <2>1. value' = [x \in Copies |-> value'[x]]
      BY <1>1
    <2>2. edits' \subseteq Copies \X Edits
      BY <1>1
    <2>3. QED
      BY <2>1, <2>2
  <1>4. ReadingsAreFresh'
    BY <1>1, <1>2
  <1>5. ASSUME NEW y \in edits' PROVE y[2] \in value'[y[1]] \/ y[2] \in overtaken'
    <2>1. CASE y = <<c, e>>
      BY <1>1, <2>1
    <2>2. CASE y \in edits
      <3>1. value[y[1]] \subseteq value'[y[1]]
        BY <1>1, <2>2
      <3>2. QED
        BY <1>2, <2>2, <3>1
    <2>3. QED
      BY <1>1, <2>1, <2>2
  <1>6. QED
    BY <1>3, <1>4, <1>5

LEMMA EditNext == EditInv /\ [Next]_vars => EditInv'
  <1> SUFFICES ASSUME EditInv, [Next]_vars PROVE EditInv'
    OBVIOUS
  <1>1. CASE getResource
    BY <1>1, EditGetResource
  <1>2. CASE updateResource
    BY <1>2, EditUpdateResource
  <1>3. CASE \E c \in Copies, e \in Edits : Edit(c, e)
    BY <1>3, EditEdit
  <1>4. CASE fetchAllProviders \/ populate \/ linked
    BY <1>4, EditUnchanged
       DEF fetchAllProviders, populate, linked, linkVars, serverVars, historyVars
  <1>5. CASE \E f \in AllFactories : Posting(f)
    BY <1>5, EditUnchanged
       DEF Posting, postResources, Start, addAll, linkVars, serverVars, historyVars
  <1>6. CASE \E r \in Resources : createResource(r)
    BY <1>6, EditUnchanged DEF createResource, linkVars
  <1>7. CASE UNCHANGED vars
    BY <1>7, EditUnchanged DEF vars, linkVars, serverVars, historyVars
  <1>8. QED
    BY <1>1, <1>2, <1>3, <1>4, <1>5, <1>6, <1>7 DEF Next, Toolchain

\* A change by another client is lost only between a reading of the resource and the
\* update that follows, whatever was retried, refused or given up.
THEOREM OnlyOvertakenEditsAreLost == Spec => []EditsAreKept
  <1>1. EditInv => EditsAreKept
    BY DEF EditInv
  <1>2. QED
    BY <1>1, EditInit, EditNext, PTL DEF Spec
-----------------------------------------------------------------------------
(***************************************************************************)
(* Populator: what populate() returns.                                     *)
(***************************************************************************)
AtPopulate == step <= Len(Program) /\ Program[step].kind = Program[step].target

PostTyped ==
    /\ step \in 1..(Len(Program) + 1)
    /\ factory \in [AllFactories -> {"launched", "blocked", "returned"}]
    /\ attempt \in [Resources -> 0..MaxRetries] /\ done \subseteq Resources
    /\ response \in [Resources -> 0..MaxRetries]
    /\ list \in [Kinds -> SUBSET Copies] /\ confirmed \subseteq Copies

\* Coroutines are those of the populate() that runs, even when main throws later; a
\* factory returns when all of its resources are done.
PostsOfStep ==
    /\ \A f \in AllFactories : factory[f] # "launched" => AtPopulate /\ f \in Found
    /\ \A r \in Resources :
          /\ attempt[r] > 0 => AtPopulate /\ r[1] = kind /\ factory[r[2]] # "launched"
          /\ r \in done => attempt[r] > 0
          /\ response[r] > 0 => r \in done
          /\ AtPopulate /\ r[1] = kind /\ factory[r[2]] = "returned" => r \in done

Confirms(k, c) == c \in confirmed /\ c[1][1] = k

ExactList(k) ==
    /\ \A c \in Copies : c \in list[k] <=> Confirms(k, c)
    /\ \A c, d \in list[k] : c[1] = d[1] => c = d

\* While its kind is populated a list has what the factories that returned were answered,
\* and of each resource the last answer is the only one with a Location.
GrowingList(k) ==
    /\ \A c \in Copies : c \in list[k] <=> Confirms(k, c) /\ factory[c[1][2]] = "returned"
    /\ \A c \in Copies : Confirms(k, c) <=> c[1][1] = k /\ response[c[1]] = c[2]

ListInv ==
    /\ PostTyped /\ PostsOfStep
    /\ \A k \in Kinds : ~(AtPopulate /\ k = kind) => ExactList(k)
    /\ AtPopulate => GrowingList(kind)
    /\ \A n \in 1..Len(Program) :
          n > step /\ Program[n].kind = Program[n].target =>
             \A c \in Copies : ~Confirms(Program[n].kind, c)
-----------------------------------------------------------------------------
(***************************************************************************)
(* The program.                                                            *)
(***************************************************************************)
LEMMA ProgramIs ==
  /\ Len(Program) = 12
  /\ Program[1] = populating("rm", "Requirement")
  /\ Program[2] = populating("rm", "RequirementCollection")
  /\ Program[3] = populating("cm", "ChangeRequest")
  /\ Program[4] = linking({"rm", "cm"}, "ChangeRequest", "Requirement")
  /\ Program[5] = populating("qm", "TestPlan")
  /\ Program[6] = populating("qm", "TestCase")
  /\ Program[7] = populating("qm", "TestResult")
  /\ Program[8] = populating("qm", "TestExecutionRecord")
  /\ Program[9] = populating("qm", "TestScript")
  /\ Program[10] = populating("am", "Resource")
  /\ Program[11] = populating("am", "LinkType")
  /\ Program[12] = linking({"cm", "qm"}, "TestPlan", "ChangeRequest")
  BY DEF Program

LEMMA StepsAre ==
  /\ \A n \in 1..12 : n # 4 /\ n # 12 => Program[n].kind = Program[n].target
  /\ Program[4].kind = "ChangeRequest" /\ Program[4].target = "Requirement"
  /\ Program[12].kind = "TestPlan" /\ Program[12].target = "ChangeRequest"
  /\ Program[1].kind = "Requirement" /\ Program[2].kind = "RequirementCollection"
  /\ Program[3].kind = "ChangeRequest" /\ Program[5].kind = "TestPlan"
  /\ Program[6].kind = "TestCase" /\ Program[7].kind = "TestResult"
  /\ Program[8].kind = "TestExecutionRecord" /\ Program[9].kind = "TestScript"
  /\ Program[10].kind = "Resource" /\ Program[11].kind = "LinkType"
  <1>1. \A n \in 1..12 : n = 1 \/ n = 2 \/ n = 3 \/ n = 4 \/ n = 5 \/ n = 6 \/ n = 7 \/ n = 8
                         \/ n = 9 \/ n = 10 \/ n = 11 \/ n = 12
    OBVIOUS
  <1>2. QED
    BY <1>1, ProgramIs DEF populating, linking

\* Each kind is populated once and linked at most once, after both ends.
LEMMA ProgramOrder ==
  ASSUME NEW m \in 1..Len(Program), NEW n \in 1..Len(Program)
  PROVE  /\ Program[n].kind \in Kinds /\ Program[n].target \in Kinds
         /\ /\ Program[m].kind = Program[m].target /\ Program[n].kind = Program[n].target
            /\ Program[m].kind = Program[n].kind
            => m = n
         /\ /\ Program[m].kind # Program[m].target /\ Program[n].kind # Program[n].target
            /\ Program[m].kind = Program[n].kind
            => m = n
         /\ /\ Program[m].kind = Program[m].target /\ Program[n].kind # Program[n].target
            /\ Program[m].kind = Program[n].kind \/ Program[m].kind = Program[n].target
            => m < n
  <1>0. Len(Program) = 12 /\ DOMAIN Program = 1..12
    BY DEF Program
  <1>1. \A i \in 1..12 : i = 1 \/ i = 2 \/ i = 3 \/ i = 4 \/ i = 5 \/ i = 6 \/ i = 7 \/ i = 8
                         \/ i = 9 \/ i = 10 \/ i = 11 \/ i = 12
    OBVIOUS
  <1>2. \A i \in 1..12 : Program[i].kind \in Kinds
    BY <1>0 DEF Kinds
  <1>3. Program[n].target \in Kinds
    <2>1. CASE n = 4
      <3>1. Program[1].kind \in Kinds
        BY <1>2
      <3>2. QED
        BY <2>1, <3>1, StepsAre
    <2>2. CASE n = 12
      <3>1. Program[3].kind \in Kinds
        BY <1>2
      <3>2. QED
        BY <2>2, <3>1, StepsAre
    <2>3. CASE n # 4 /\ n # 12
      BY <1>0, <1>2, <2>3, StepsAre
    <2>4. QED
      BY <2>1, <2>2, <2>3
  <1>4. \A i \in 1..12 : Program[i].kind # Program[i].target <=> i = 4 \/ i = 12
    BY StepsAre
  <1>5. ASSUME m # 4, m # 12, n # 4, n # 12, Program[m].kind = Program[n].kind PROVE m = n
    BY <1>0, <1>1, <1>5, StepsAre
  <1>6. ASSUME m # 4, m # 12, n = 4 \/ n = 12,
               Program[m].kind = Program[n].kind \/ Program[m].kind = Program[n].target
        PROVE  m < n
    BY <1>0, <1>1, <1>6, StepsAre
  <1>7. ASSUME m = 4 \/ m = 12, n = 4 \/ n = 12, Program[m].kind = Program[n].kind PROVE m = n
    BY <1>7, StepsAre
  <1>8. QED
    BY <1>0, <1>2, <1>3, <1>4, <1>5, <1>6, <1>7

LEMMA FollowingIs ==
  ASSUME NEW n \in 0..Len(Program), NEW m \in Following(n)
  PROVE  /\ m \in 1..(Len(Program) + 1) /\ n < m
         /\ \A i \in 1..Len(Program) : Runs(i) /\ i < m => i <= n
  BY ProgramIs DEF Following

LEMMA CopiesAre ==
  /\ \A c \in Copies : c[1] \in Resources /\ c[2] \in 1..MaxRetries /\ c = <<c[1], c[2]>>
  /\ \A r \in Resources, a \in 1..MaxRetries : /\ <<r, a>> \in Copies
                                              /\ <<r, a>>[1] = r /\ <<r, a>>[2] = a
  /\ \A r \in Resources : r[1] \in Kinds /\ r[2] \in AllFactories
  <1>1. \A r \in Resources : r[1] \in Kinds /\ r[2] \in AllFactories
    BY DEF Resources
  <1>2. QED
    BY <1>1 DEF Copies
-----------------------------------------------------------------------------
(***************************************************************************)
(* The lists of links.                                                     *)
(***************************************************************************)
LEMMA ListInit == Init => ListInv
  <1> SUFFICES ASSUME Init PROVE ListInv
    OBVIOUS
  <1>1. step \in 1..(Len(Program) + 1)
    <2>1. 0 \in 0..Len(Program)
      BY ProgramIs
    <2>2. QED
      BY <2>1, FollowingIs DEF Init
  <1>2. PostTyped
    <2>1. MaxRetries \in Nat
      BY PopulatorAssumption
    <2>2. QED
      BY <1>1, <2>1 DEF Init, PostTyped
  <1>3. PostsOfStep
    BY CopiesAre DEF Init, PostsOfStep
  <1>4. \A k \in Kinds : ExactList(k) /\ (\A c \in Copies : ~Confirms(k, c))
    BY DEF Init, ExactList, Confirms
  <1>5. AtPopulate => GrowingList(kind)
    <2>1. SUFFICES ASSUME AtPopulate PROVE GrowingList(kind)
      OBVIOUS
    <2>2. kind \in Kinds
      BY <1>1, <2>1, ProgramIs, ProgramOrder DEF AtPopulate, kind
    <2>3. \A c \in Copies : response[c[1]] # c[2]
      BY CopiesAre, PopulatorAssumption DEF Init
    <2>4. QED
      BY <1>4, <2>2, <2>3 DEF GrowingList, Init
  <1>6. \A n \in 1..Len(Program) : Program[n].kind \in Kinds
    BY ProgramOrder
  <1>7. QED
    BY <1>2, <1>3, <1>4, <1>5, <1>6 DEF ListInv

LEMMA ListUnchanged ==
  ASSUME ListInv, UNCHANGED <<step, postVars, confirmed>> PROVE ListInv'
  BY DEF ListInv, PostTyped, PostsOfStep, ExactList, GrowingList, Confirms, AtPopulate, kind,
         Found, postVars

\* The step that follows finds the lists of all kinds as they are to be, and none of its
\* own kind confirmed.
LEMMA ListStep ==
  ASSUME ListInv, step <= Len(Program), step' \in Following(step),
         UNCHANGED <<list, confirmed>>,
         \A k \in Kinds : ExactList(k),
         factory' = [f \in AllFactories |-> "launched"],
         attempt' = [r \in Resources |-> 0], done' = {},
         response' = [r \in Resources |-> 0]
  PROVE  ListInv'
  <1>0. step \in 1..Len(Program) /\ MaxRetries \in Nat
    BY ProgramIs, PopulatorAssumption DEF ListInv, PostTyped
  <1>1. step' \in 1..(Len(Program) + 1) /\ step < step'
    BY <1>0, FollowingIs, ProgramIs
  <1>2. PostTyped'
    BY <1>0, <1>1 DEF ListInv, PostTyped
  <1>3. PostsOfStep'
    BY CopiesAre DEF PostsOfStep
  <1>4. \A k \in Kinds : ExactList(k)'
    BY DEF ExactList, Confirms
  <1>5. ASSUME AtPopulate' PROVE GrowingList(kind)'
    <2>1. step' \in 1..Len(Program)
      BY <1>1, <1>5, ProgramIs DEF AtPopulate
    <2>2. kind' \in Kinds /\ kind' = Program[step'].kind
      BY <2>1, ProgramOrder DEF kind
    <2>3. \A c \in Copies : ~Confirms(kind', c)
      BY <1>0, <1>1, <1>5, <2>1, <2>2, ProgramIs DEF ListInv, AtPopulate
    <2>4. \A c \in Copies : c \notin list[kind']
      BY <2>2, <2>3 DEF ExactList
    <2>5. \A c \in Copies : response'[c[1]] # c[2]
      BY CopiesAre, PopulatorAssumption
    <2>6. QED
      BY <2>2, <2>3, <2>4, <2>5 DEF GrowingList, Confirms
  <1>6. ASSUME NEW n \in 1..Len(Program), n > step', Program[n].kind = Program[n].target
        PROVE  \A c \in Copies : ~Confirms(Program[n].kind, c)'
    <2>1. n > step
      BY <1>0, <1>1, <1>6, ProgramIs
    <2>2. QED
      BY <1>6, <2>1 DEF ListInv, Confirms
  <1>7. QED
    BY <1>2, <1>3, <1>4, <1>5, <1>6 DEF ListInv

\* When all factories have returned, and so their resources are done, the list is whole.
LEMMA ListPopulate == ASSUME ListInv, populate PROVE ListInv'
  <1>0. AtPopulate /\ step \in 1..Len(Program)
    BY ProgramIs DEF populate, Populating, Ended, AtPopulate, ListInv, PostTyped
  <1>1. \A f \in Found : factory[f] = "returned"
    BY DEF populate
  <1>2. GrowingList(kind)
    BY <1>0 DEF ListInv
  <1>3. ASSUME NEW c \in Copies, Confirms(kind, c) PROVE factory[c[1][2]] = "returned"
    <2>1. c[1] \in Resources /\ c[2] \in 1..MaxRetries /\ c[1][2] \in AllFactories
      BY CopiesAre
    <2>2. response[c[1]] > 0
      BY <1>2, <1>3, <2>1, PopulatorAssumption DEF GrowingList
    <2>3. factory[c[1][2]] # "launched"
      BY <2>1, <2>2 DEF ListInv, PostsOfStep
    <2>4. QED
      BY <1>1, <2>1, <2>3 DEF ListInv, PostsOfStep
  <1>4. ExactList(kind)
    <2>1. \A c \in Copies : c \in list[kind] <=> Confirms(kind, c)
      BY <1>2, <1>3 DEF GrowingList
    <2>2. kind \in Kinds
      BY <1>0, ProgramOrder DEF kind
    <2>3. ASSUME NEW c \in list[kind], NEW d \in list[kind], c[1] = d[1] PROVE c = d
      <3>1. c \in Copies /\ d \in Copies
        BY <2>2 DEF ListInv, PostTyped
      <3>2. response[c[1]] = c[2] /\ response[d[1]] = d[2]
        BY <1>2, <2>1, <3>1 DEF GrowingList
      <3>3. QED
        BY <2>3, <3>1, <3>2, CopiesAre
    <2>4. QED
      BY <2>1, <2>3 DEF ExactList
  <1>5. \A k \in Kinds : ExactList(k)
    BY <1>4 DEF ListInv
  <1>6. QED
    BY <1>0, <1>5, ListStep, ProgramIs DEF populate, historyVars

LEMMA ListLinked == ASSUME ListInv, linked PROVE ListInv'
  <1>0. ~AtPopulate /\ step \in 1..Len(Program) /\ MaxRetries \in Nat
    BY ProgramIs, PopulatorAssumption
       DEF linked, Linking, Ended, AtPopulate, ListInv, PostTyped
  <1>1. \A k \in Kinds : ExactList(k)
    BY <1>0 DEF ListInv
  <1>2. UNCHANGED <<factory, attempt, done, response, list, confirmed>>
    BY DEF linked, postVars, historyVars
  <1>3. factory' = [f \in AllFactories |-> "launched"]
    BY <1>0, <1>2 DEF ListInv, PostTyped, PostsOfStep
  <1>4. \A r \in Resources : ~(attempt[r] > 0) /\ r \notin done /\ ~(response[r] > 0)
    BY <1>0 DEF ListInv, PostsOfStep
  <1>5. \A r \in Resources : attempt[r] = 0 /\ response[r] = 0
    BY <1>0, <1>4 DEF ListInv, PostTyped
  <1>6. attempt' = [r \in Resources |-> 0] /\ response' = [r \in Resources |-> 0]
    BY <1>2, <1>5 DEF ListInv, PostTyped
  <1>7. done' = {}
    BY <1>2, <1>4 DEF ListInv, PostTyped
  <1>8. QED
    BY <1>0, <1>1, <1>2, <1>3, <1>6, <1>7, ListStep, ProgramIs DEF linked

LEMMA ListPostResources ==
  ASSUME ListInv, NEW f \in AllFactories, postResources(f) PROVE ListInv'
  <1>1. /\ AtPopulate /\ f \in Found /\ factory[f] = "launched"
        /\ factory' = [factory EXCEPT ![f] = "blocked"]
        /\ UNCHANGED <<step, attempt, done, response, list, confirmed>>
    BY DEF postResources, Populating, Ended, AtPopulate, mainVars, historyVars, ListInv,
           PostTyped
  <1>2. PostTyped'
    BY <1>1 DEF ListInv, PostTyped
  <1>3. \A g \in AllFactories : /\ factory'[g] = "returned" <=> factory[g] = "returned"
                                /\ factory[g] # "launched" => factory'[g] # "launched"
                                /\ g # f => factory'[g] = factory[g]
    BY <1>1 DEF ListInv, PostTyped
  <1>4. PostsOfStep'
    BY <1>1, <1>3, CopiesAre DEF ListInv, PostsOfStep, AtPopulate, kind, Found
  <1>5. \A c \in Copies : c[1][2] \in AllFactories
    BY CopiesAre
  <1>6. GrowingList(kind) => GrowingList(kind)'
    BY <1>1, <1>3, <1>5 DEF GrowingList, Confirms, kind
  <1>7. QED
    BY <1>1, <1>2, <1>4, <1>6 DEF ListInv, ExactList, Confirms, AtPopulate, kind

LEMMA ListStart ==
  ASSUME ListInv, NEW f \in AllFactories, Start(f) PROVE ListInv'
  <1>0. MaxRetries \in Nat \ {0}
    BY PopulatorAssumption
  <1>1. PICK q \in Of(f) : attempt[q] = 0 /\ attempt' = [attempt EXCEPT ![q] = 1]
    BY DEF Start
  <1>2. /\ AtPopulate /\ factory[f] = "blocked"
        /\ UNCHANGED <<step, factory, done, response, list, confirmed>>
    BY DEF Start, Populating, Ended, AtPopulate, mainVars, historyVars, ListInv, PostTyped
  <1>3. q \in Resources /\ q[1] = kind /\ q[2] = f
    BY DEF Of
  <1>4. PostTyped'
    BY <1>0, <1>1, <1>2, <1>3 DEF ListInv, PostTyped
  <1>5. ASSUME NEW r \in Resources
        PROVE  attempt'[r] > 0 <=> attempt[r] > 0 \/ r = q
    BY <1>1, <1>3 DEF ListInv, PostTyped
  <1>6. PostsOfStep'
    BY <1>2, <1>3, <1>5 DEF ListInv, PostsOfStep, AtPopulate, kind, Found
  <1>7. QED
    BY <1>2, <1>4, <1>6 DEF ListInv, ExactList, GrowingList, Confirms, AtPopulate, kind

\* Another attempt, or none.
LEMMA ListTryAgain ==
  ASSUME ListInv, NEW r \in Resources, attempt[r] > 0,
         tryAgain(r) \/ (done' = done \cup {r} /\ UNCHANGED attempt),
         UNCHANGED <<step, factory, response, list, confirmed>>
  PROVE  ListInv'
  <1>0. MaxRetries \in Nat
    BY PopulatorAssumption
  <1>1. /\ done \subseteq done' /\ done' \subseteq done \cup {r}
        /\ attempt' \in [Resources -> 0..MaxRetries]
        /\ \A q \in Resources : attempt'[q] > 0 <=> attempt[q] > 0
    <2>1. attempt \in [Resources -> 0..MaxRetries]
      BY DEF ListInv, PostTyped
    <2>2. CASE attempt' = [attempt EXCEPT ![r] = @ + 1] /\ UNCHANGED done /\ attempt[r] < MaxRetries
      BY <1>0, <2>1, <2>2
    <2>3. CASE done' = done \cup {r} /\ UNCHANGED attempt
      BY <2>1, <2>3
    <2>4. QED
      BY <2>2, <2>3 DEF tryAgain
  <1>2. PostTyped'
    BY <1>1 DEF ListInv, PostTyped
  <1>3. PostsOfStep'
    BY <1>1 DEF ListInv, PostsOfStep, AtPopulate, kind, Found
  <1>4. QED
    BY <1>2, <1>3 DEF ListInv, ExactList, GrowingList, Confirms, AtPopulate, kind

\* The answer is the first with a Location, and the list does not have it yet.
LEMMA ListCreated ==
  ASSUME ListInv, NEW r \in Running, Created(r), UNCHANGED <<step, factory, list>>
  PROVE  ListInv'
  <1>0. MaxRetries \in Nat
    BY PopulatorAssumption
  <1>1. /\ confirmed' = confirmed \cup {<<r, attempt[r]>>}
        /\ response' = [response EXCEPT ![r] = attempt[r]]
        /\ done' = done \cup {r} /\ attempt' = attempt
    BY DEF Created
  <1>2. r \in Resources /\ r \notin done /\ attempt[r] > 0 /\ attempt[r] \in 1..MaxRetries
    BY <1>0 DEF Running, ListInv, PostTyped
  <1>3. AtPopulate /\ r[1] = kind /\ factory[r[2]] # "launched"
    BY <1>2 DEF ListInv, PostsOfStep
  <1>4. factory[r[2]] # "returned"
    BY <1>2, <1>3 DEF ListInv, PostsOfStep
  <1>5. response[r] = 0
    BY <1>0, <1>2 DEF ListInv, PostsOfStep, PostTyped
  <1>6. PICK new \in Copies : new = <<r, attempt[r]>> /\ new[1] = r /\ new[2] = attempt[r]
    BY <1>2, CopiesAre
  <1>7. PostTyped'
    BY <1>0, <1>1, <1>2, <1>6 DEF ListInv, PostTyped
  <1>8. ASSUME NEW q \in Resources
        PROVE  response'[q] = IF q = r THEN attempt[r] ELSE response[q]
    BY <1>1, <1>2 DEF ListInv, PostTyped
  <1>9. PostsOfStep'
    BY <1>1, <1>2, <1>3, <1>8 DEF ListInv, PostsOfStep, AtPopulate, kind, Found
  <1>10. ASSUME NEW k, NEW c
         PROVE  Confirms(k, c)' <=> Confirms(k, c) \/ (k = kind /\ c = new)
    BY <1>1, <1>3, <1>6 DEF Confirms
  <1>11. GrowingList(kind)'
    <2>0. PICK K : K = kind /\ K = kind'
      BY DEF kind
    <2>1. GrowingList(K)
      BY <1>3, <2>0 DEF ListInv
    <2>2. \A c : Confirms(K, c)' <=> Confirms(K, c) \/ c = new
      BY <1>10, <2>0
    <2>3. ASSUME NEW c \in Copies
          PROVE  c \in list'[K] <=> Confirms(K, c)' /\ factory'[c[1][2]] = "returned"
      BY <1>4, <1>6, <2>2, <2>1 DEF GrowingList
    <2>4. ASSUME NEW c \in Copies
          PROVE  Confirms(K, c)' <=> c[1][1] = K /\ response'[c[1]] = c[2]
      <3>1. c[1] \in Resources /\ c[2] \in 1..MaxRetries /\ c = <<c[1], c[2]>>
        BY CopiesAre
      <3>2. CASE c[1] = r
        <4>1. c = new <=> c[2] = attempt[r]
          BY <1>6, <3>1, <3>2
        <4>2. response[c[1]] # c[2]
          BY <1>0, <1>5, <3>1, <3>2
        <4>3. ~Confirms(K, c)
          BY <2>1, <4>2 DEF GrowingList
        <4>4. response'[c[1]] = attempt[r] /\ c[1][1] = K
          BY <1>3, <1>8, <2>0, <3>1, <3>2
        <4>5. QED
          BY <2>2, <4>1, <4>3, <4>4
      <3>3. CASE c[1] # r
        BY <1>6, <1>8, <2>2, <2>1, <3>1, <3>3 DEF GrowingList
      <3>4. QED
        BY <3>2, <3>3
    <2>5. QED
      BY <2>0, <2>3, <2>4 DEF GrowingList, Confirms
  <1>12. step \in 1..Len(Program) /\ AtPopulate' /\ kind' = kind
    BY <1>3, ProgramIs DEF ListInv, PostTyped, AtPopulate, kind
  <1>13. ASSUME NEW n \in 1..Len(Program), n > step, Program[n].kind = Program[n].target
         PROVE  Program[n].kind # kind
    BY <1>3, <1>12, <1>13, ProgramOrder DEF AtPopulate, kind
  <1>14. ASSUME NEW k \in Kinds, k # kind PROVE ExactList(k)'
    BY <1>10, <1>14 DEF ListInv, ExactList
  <1>15. ASSUME NEW n \in 1..Len(Program), n > step', Program[n].kind = Program[n].target
         PROVE  \A c \in Copies : ~Confirms(Program[n].kind, c)'
    <2>1. n > step /\ Program[n].kind # kind
      BY <1>13, <1>15
    <2>2. QED
      BY <1>10, <1>15, <2>1 DEF ListInv
  <1>16. QED
    BY <1>7, <1>9, <1>11, <1>12, <1>14, <1>15 DEF ListInv

LEMMA ListCreateResource ==
  ASSUME ListInv, NEW r \in Resources, createResource(r) PROVE ListInv'
  <1>1. r \in Running /\ attempt[r] > 0 /\ UNCHANGED <<step, factory, list>>
    BY DEF createResource, mainVars, Running
  <1>2. CASE Created(r)
    BY <1>1, <1>2, ListCreated
  <1>3. CASE GivenUp(r) \/ Unavailable(r)
    BY <1>1, <1>3, ListTryAgain DEF GivenUp, Unavailable
  <1>4. QED
    BY <1>2, <1>3 DEF createResource

\* The links of a factory are added when all of its resources are done.
LEMMA ListAddAll ==
  ASSUME ListInv, NEW f \in AllFactories, addAll(f) PROVE ListInv'
  <1>0. MaxRetries \in Nat
    BY PopulatorAssumption
  <1>1. /\ AtPopulate /\ factory[f] = "blocked" /\ Of(f) \subseteq done
        /\ list' = [list EXCEPT ![kind] = @ \cup {<<r, response[r]>> : r \in
                                                  {x \in Of(f) : response[x] > 0}}]
        /\ factory' = [factory EXCEPT ![f] = "returned"]
        /\ UNCHANGED <<step, attempt, done, response, confirmed>>
    BY DEF addAll, awaitAll, Populating, Ended, AtPopulate, mainVars, historyVars, ListInv,
           PostTyped
  <1>2. kind \in Kinds /\ AtPopulate' /\ kind' = kind /\ GrowingList(kind)
    BY <1>1, ProgramIs, ProgramOrder DEF ListInv, PostTyped, AtPopulate, kind
  <1>3. \A g \in AllFactories : factory'[g] = IF g = f THEN "returned" ELSE factory[g]
    BY <1>1 DEF ListInv, PostTyped
  <1>4. list \in [Kinds -> SUBSET Copies]
    BY DEF ListInv, PostTyped
  <1>5. PICK new : new = {<<r, response[r]>> : r \in {x \in Of(f) : response[x] > 0}}
    OBVIOUS
  <1>6. ASSUME NEW c \in Copies
        PROVE  c \in new <=> Confirms(kind, c) /\ c[1][2] = f
    <2>1. c[1] \in Resources /\ c[2] \in 1..MaxRetries /\ c = <<c[1], c[2]>>
      BY CopiesAre
    <2>2. c \in new <=> c[1] \in Of(f) /\ response[c[1]] = c[2]
      BY <1>0, <1>5, <2>1
    <2>3. c[1] \in Of(f) <=> c[1][1] = kind /\ c[1][2] = f
      BY <2>1 DEF Of
    <2>4. QED
      BY <1>2, <2>2, <2>3 DEF GrowingList
  <1>7. new \subseteq Copies
    <2>1. ASSUME NEW r \in Of(f), response[r] > 0 PROVE <<r, response[r]>> \in Copies
      <3>1. r \in Resources /\ response[r] \in 1..MaxRetries
        BY <1>0, <2>1 DEF Of, ListInv, PostTyped
      <3>2. QED
        BY <3>1, CopiesAre
    <2>2. QED
      BY <1>5, <2>1
  <1>8. list'[kind] = list[kind] \cup new /\ (\A k \in Kinds : k # kind => list'[k] = list[k])
    BY <1>1, <1>2, <1>4, <1>5
  <1>9. PostTyped'
    <2>1. list' = [list EXCEPT ![kind] = @ \cup new]
      BY <1>1, <1>5
    <2>2. list' \in [Kinds -> SUBSET Copies]
      BY <1>2, <1>4, <1>7, <2>1
    <2>3. QED
      BY <1>1, <2>2 DEF ListInv, PostTyped
  <1>10. PostsOfStep'
    <2>1. \A g \in AllFactories : factory'[g] # "launched" => factory[g] # "launched"
      BY <1>1, <1>3
    <2>2. \A g \in AllFactories : factory[g] # "launched" => factory'[g] # "launched"
      BY <1>3
    <2>3. \A r \in Resources : r[1] = kind /\ r[2] = f => r \in done
      BY <1>1 DEF Of
    <2>4. QED
      BY <1>1, <1>2, <1>3, <2>1, <2>2, <2>3, CopiesAre
         DEF ListInv, PostsOfStep, AtPopulate, kind, Found
  <1>11. GrowingList(kind)'
    <2>1. ASSUME NEW c \in Copies
          PROVE  c \in list'[kind] <=> Confirms(kind, c) /\ factory'[c[1][2]] = "returned"
      <3>1. c[1][2] \in AllFactories
        BY CopiesAre
      <3>2. QED
        BY <1>1, <1>2, <1>3, <1>6, <1>8, <3>1 DEF GrowingList
    <2>2. QED
      BY <1>1, <1>2, <2>1 DEF GrowingList, Confirms
  <1>12. \A k \in Kinds : k # kind => ExactList(k)'
    BY <1>1, <1>8 DEF ListInv, ExactList, Confirms
  <1>13. \A n \in 1..Len(Program) :
            n > step' /\ Program[n].kind = Program[n].target =>
               \A c \in Copies : ~Confirms(Program[n].kind, c)'
    BY <1>1 DEF ListInv, Confirms
  <1>14. QED
    BY <1>2, <1>9, <1>10, <1>11, <1>12, <1>13 DEF ListInv

LEMMA ListNext == ListInv /\ [Next]_vars => ListInv'
  <1> SUFFICES ASSUME ListInv, [Next]_vars PROVE ListInv'
    OBVIOUS
  <1>1. CASE fetchAllProviders \/ getResource \/ updateResource \/ UNCHANGED vars
             \/ \E c \in Copies, e \in Edits : Edit(c, e)
    BY <1>1, ListUnchanged
       DEF fetchAllProviders, getResource, updateResource, Edit, vars, mainVars, historyVars
  <1>2. CASE populate
    BY <1>2, ListPopulate
  <1>3. CASE linked
    BY <1>3, ListLinked
  <1>4. CASE \E f \in AllFactories : Posting(f)
    BY <1>4, ListPostResources, ListStart, ListAddAll DEF Posting
  <1>5. CASE \E r \in Resources : createResource(r)
    BY <1>5, ListCreateResource
  <1>6. QED
    BY <1>1, <1>2, <1>3, <1>4, <1>5 DEF Next, Toolchain

\* populate() returns the links of exactly the resources whose creation was answered with
\* a Location, one for each, for any number of factories, resources, attempts and threads
\* and whatever servers store of what they do not answer.
THEOREM ListsAreRight == Spec => []ListsAreExact
  <1>1. ListInv => ListsAreExact
    <2> SUFFICES ASSUME ListInv, NEW n \in 1..(step - 1), Program[n].kind = Program[n].target
                 PROVE  /\ list[Program[n].kind] = {c \in confirmed : c[1][1] = Program[n].kind}
                        /\ \A c, d \in list[Program[n].kind] : c[1] = d[1] => c = d
      BY DEF ListsAreExact
    <2>1. n \in 1..Len(Program) /\ Program[n].kind \in Kinds /\ n < step
          /\ step \in 1..(Len(Program) + 1)
      BY ProgramIs, ProgramOrder DEF ListInv, PostTyped
    <2>2. ~(AtPopulate /\ Program[n].kind = kind)
      <3>1. SUFFICES ASSUME AtPopulate, Program[n].kind = kind PROVE FALSE
        OBVIOUS
      <3>2. step \in 1..Len(Program)
        BY <2>1, <3>1, ProgramIs DEF AtPopulate
      <3>3. n = step
        BY <2>1, <3>1, <3>2, ProgramOrder DEF AtPopulate, kind
      <3>4. QED
        BY <2>1, <3>3
    <2>3. ExactList(Program[n].kind)
      BY <2>1, <2>2 DEF ListInv
    <2>4. list[Program[n].kind] \subseteq Copies /\ confirmed \subseteq Copies
      BY <2>1 DEF ListInv, PostTyped
    <2>5. QED
      BY <2>3, <2>4 DEF ExactList, Confirms
  <1>2. QED
    BY <1>1, ListInit, ListNext, PTL DEF Spec
-----------------------------------------------------------------------------
(***************************************************************************)
(* Populator: what is linked.                                              *)
(***************************************************************************)
Linked(n) ==
    LET k == Program[n].kind
        t == Program[n].target
    IN Cardinality({p \in claimed : p[1][1][1] = k}) =
           Min({Cardinality(list[k]), Cardinality(list[t])})

\* The steps of main that link.
Links(n) == n \in 1..Len(Program) /\ Program[n].kind # Program[n].target

\* Each link is of a step that runs or has run, and joins members of its two lists; none
\* has an end in common with another of its step.
ClaimsTyped ==
    /\ claimed \subseteq Copies \X Copies
    /\ \A p \in claimed : \E n \in 1..step :
          Links(n) /\ p[1] \in list[Program[n].kind] /\ p[2] \in list[Program[n].target]
    /\ \A p, q \in claimed :
          p[1] = q[1] \/ (p[2] = q[2] /\ p[1][1][1] = q[1][1][1]) => p = q

\* No resource is written twice, so that no update can take a link away again.
ClaimsStored ==
    /\ value = [c \in Copies |-> value[c]]
    /\ \A p \in claimed : p[2] \in value[p[1]] \/ p \in refused

ReadingsAreNew == \A x \in reading : Linking /\ x.pair \in Pairs

StepsAreDone == \A n \in 1..(step - 1) : Runs(n) /\ Links(n) => Linked(n)

ClaimInv == ClaimsTyped /\ ClaimsStored /\ ReadingsAreNew /\ StepsAreDone
-----------------------------------------------------------------------------
LEMMA ImageIsFinite ==
  ASSUME NEW S, IsFiniteSet(S), NEW T, NEW f \in [S -> T], \A t \in T : \E s \in S : f[s] = t
  PROVE  IsFiniteSet(T)
  <1>1. f \in Surjection(S, T)
    BY Fun_IsSurj
  <1>2. QED
    BY <1>1, FS_Surjection

LEMMA CopiesAreFinite == IsFiniteSet(Copies)
  <1>0. \A n \in Nat : IsFiniteSet(1..n)
    BY FS_Interval
  <1>1. IsFiniteSet(AllFactories)
    <2>1. AllFactories = Factories["am"] \cup Factories["cm"] \cup Factories["rm"]
                            \cup Factories["qm"]
      BY DEF AllFactories, Servers
    <2>2. /\ IsFiniteSet(Factories["am"]) /\ IsFiniteSet(Factories["cm"])
          /\ IsFiniteSet(Factories["rm"]) /\ IsFiniteSet(Factories["qm"])
      BY PopulatorAssumption DEF Servers
    <2>3. IsFiniteSet(Factories["am"] \cup Factories["cm"])
      BY <2>2, FS_Union
    <2>4. IsFiniteSet(Factories["am"] \cup Factories["cm"] \cup Factories["rm"])
      BY <2>2, <2>3, FS_Union
    <2>5. IsFiniteSet(Factories["am"] \cup Factories["cm"] \cup Factories["rm"]
                         \cup Factories["qm"])
      BY <2>2, <2>4, FS_Union
    <2>6. QED
      BY <2>1, <2>5
  <1>2. IsFiniteSet(Kinds)
    <2>1. IsFiniteSet(1..12)
      BY <1>0
    <2>5. DOMAIN Program = 1..12
      BY DEF Program
    <2>2. PICK f : f = [n \in 1..12 |-> Program[n].kind]
      OBVIOUS
    <2>3. f \in [1..12 -> Kinds] /\ \A k \in Kinds : \E n \in 1..12 : f[n] = k
      BY <2>2, <2>5 DEF Kinds
    <2>4. QED
      BY <2>1, <2>3, ImageIsFinite
  <1>3. ASSUME NEW k \in Kinds PROVE IsFiniteSet({k} \X AllFactories \X (1..Count[k]))
    <2>1. PICK T : T = {k} \X AllFactories \X (1..Count[k])
      OBVIOUS
    <2>2. PICK S : S = AllFactories \X (1..Count[k])
      OBVIOUS
    <2>3. IsFiniteSet(S)
      <3>1. Count[k] \in Nat
        BY PopulatorAssumption
      <3>2. IsFiniteSet(1..Count[k])
        BY <3>1, FS_Interval
      <3>3. QED
        BY <1>1, <2>2, <3>2, FS_Product
    <2>4. PICK f : f = [x \in S |-> <<k, x[1], x[2]>>]
      OBVIOUS
    <2>5. f \in [S -> T]
      BY <2>1, <2>2, <2>4
    <2>6. ASSUME NEW t \in T PROVE \E x \in S : f[x] = t
      <3>1. <<t[2], t[3]>> \in S /\ t = <<k, t[2], t[3]>>
        BY <2>1, <2>2
      <3>2. f[<<t[2], t[3]>>] = t
        BY <2>4, <3>1
      <3>3. QED
        BY <3>1, <3>2
    <2>7. IsFiniteSet(T)
      BY <2>3, <2>5, <2>6, ImageIsFinite
    <2>8. QED
      BY <2>1, <2>7
  <1>4. IsFiniteSet(Resources)
    <2>1. PICK U : U = {{k} \X AllFactories \X (1..Count[k]) : k \in Kinds}
      OBVIOUS
    <2>2. PICK f : f = [k \in Kinds |-> {k} \X AllFactories \X (1..Count[k])]
      OBVIOUS
    <2>3. f \in [Kinds -> U] /\ \A u \in U : \E k \in Kinds : f[k] = u
      BY <2>1, <2>2
    <2>4. IsFiniteSet(U)
      BY <1>2, <2>3, ImageIsFinite
    <2>5. \A u \in U : IsFiniteSet(u)
      BY <1>3, <2>1
    <2>6. IsFiniteSet(UNION U)
      BY <2>4, <2>5, FS_UNION
    <2>7. QED
      BY <2>1, <2>6 DEF Resources
  <1>5. IsFiniteSet(1..MaxRetries)
    BY PopulatorAssumption, FS_Interval
  <1>6. QED
    BY <1>4, <1>5, FS_Product DEF Copies

\* A function that gives each element of L another element of S.
LEMMA Counted ==
  ASSUME NEW S, IsFiniteSet(S), NEW L, NEW f \in [L -> S],
         \A p, q \in L : f[p] = f[q] => p = q
  PROVE  /\ IsFiniteSet(L) /\ Cardinality(L) \in Nat /\ Cardinality(S) \in Nat
         /\ Cardinality(L) <= Cardinality(S)
         /\ (\A s \in S : \E p \in L : f[p] = s) => Cardinality(L) = Cardinality(S)
  <1>1. f \in Injection(L, S)
    BY Fun_IsInj
  <1>2. IsFiniteSet(L) /\ Cardinality(L) <= Cardinality(S)
    BY <1>1, FS_Injection
  <1>3. ASSUME \A s \in S : \E p \in L : f[p] = s PROVE Cardinality(L) = Cardinality(S)
    <2>1. f \in Surjection(L, S)
      BY <1>3, Fun_IsSurj
    <2>2. QED
      BY <1>1, <1>2, <2>1, FS_Surjection
  <1>4. QED
    BY <1>2, <1>3, FS_CardinalityType

LEMMA MinOfTwo ==
  ASSUME NEW a \in Nat, NEW b \in Nat, NEW c \in Nat, c <= a, c <= b, c = a \/ c = b
  PROVE  Min({a, b}) = c
  <1>1. \A x \in {a, b} : (\A y \in {a, b} : x =< y) <=> x = c
    OBVIOUS
  <1>2. QED
    BY <1>1 DEF Min

LEMMA ListsHold ==
  ASSUME ListInv, NEW k \in Kinds, NEW c \in list[k]
  PROVE  c \in Copies /\ c[1][1] = k
  <1>1. c \in Copies
    BY DEF ListInv, PostTyped
  <1>2. CASE AtPopulate /\ k = kind
    BY <1>1, <1>2 DEF ListInv, GrowingList, Confirms
  <1>3. CASE ~(AtPopulate /\ k = kind)
    BY <1>1, <1>3 DEF ListInv, ExactList, Confirms
  <1>4. QED
    BY <1>2, <1>3
-----------------------------------------------------------------------------
LEMMA ClaimInit == Init => ClaimInv
  <1> SUFFICES ASSUME Init PROVE ClaimInv
    OBVIOUS
  <1>1. ClaimsTyped /\ ClaimsStored /\ ReadingsAreNew
    BY DEF Init, ClaimsTyped, ClaimsStored, ReadingsAreNew
  <1>2. ASSUME NEW n \in 1..(step - 1), Runs(n), Links(n) PROVE FALSE
    <2>1. 0 \in 0..Len(Program) /\ step \in Following(0)
      BY ProgramIs DEF Init
    <2>2. n \in 1..Len(Program) /\ n < step
      BY <1>2, <2>1, FollowingIs, ProgramIs DEF Links
    <2>3. n <= 0
      BY <1>2, <2>1, <2>2, FollowingIs
    <2>4. QED
      BY <2>2, <2>3
  <1>3. QED
    BY <1>1, <1>2 DEF ClaimInv, StepsAreDone

\* What others write only adds to the values.
LEMMA ClaimUnchanged ==
  ASSUME ClaimInv, UNCHANGED <<initList, step, list, reading, claimed, refused>>,
         UNCHANGED threw \/ reading = {},
         value' = [c \in Copies |-> value'[c]],
         \A c \in Copies : value[c] \subseteq value'[c]
  PROVE  ClaimInv'
  <1>1. ClaimsTyped'
    BY DEF ClaimInv, ClaimsTyped, Links
  <1>2. ClaimsStored'
    BY DEF ClaimInv, ClaimsStored, ClaimsTyped
  <1>3. ReadingsAreNew'
    BY DEF ClaimInv, ReadingsAreNew, Linking, Ended, Pairs, kind
  <1>4. StepsAreDone'
    BY DEF ClaimInv, StepsAreDone, Links, Linked, Runs
  <1>5. QED
    BY <1>1, <1>2, <1>3, <1>4 DEF ClaimInv

LEMMA ClaimEdit ==
  ASSUME ClaimInv, NEW c \in Copies, NEW e \in Edits, Edit(c, e) PROVE ClaimInv'
  <1>1. value' = [value EXCEPT ![c] = @ \cup {e}]
    BY DEF Edit
  <1>2. value = [x \in Copies |-> value[x]]
    BY DEF ClaimInv, ClaimsStored
  <1>3. value' = [x \in Copies |-> value'[x]] /\ \A x \in Copies : value[x] \subseteq value'[x]
    BY <1>1, <1>2
  <1>4. QED
    BY <1>3, ClaimUnchanged DEF Edit, mainVars, postVars, linkVars

\* Nothing that is being populated is linked yet.
LEMMA ClaimAddAll ==
  ASSUME ListInv, ClaimInv, NEW f \in AllFactories, addAll(f) PROVE ClaimInv'
  <1>1. /\ AtPopulate /\ ~Linking /\ step \in 1..Len(Program)
        /\ UNCHANGED <<initList, step, threw, reading, claimed, value, refused>>
    BY ProgramIs DEF addAll, Populating, Linking, Ended, AtPopulate, ListInv, PostTyped, mainVars,
           linkVars, serverVars, historyVars
  <1>2. kind \in Kinds
    BY <1>1, ProgramOrder DEF kind
  <1>3. PICK new : list' = [list EXCEPT ![kind] = @ \cup new]
    BY DEF addAll
  <1>4. \A k \in Kinds : list[k] \subseteq list'[k] /\ (k # kind => list'[k] = list[k])
    BY <1>2, <1>3 DEF ListInv, PostTyped
  <1>5. ClaimsTyped'
    <2>1. ASSUME NEW p \in claimed
          PROVE  \E n \in 1..step : Links(n) /\ p[1] \in list'[Program[n].kind]
                                             /\ p[2] \in list'[Program[n].target]
      <3>1. PICK n \in 1..step : Links(n) /\ p[1] \in list[Program[n].kind]
                                          /\ p[2] \in list[Program[n].target]
        BY DEF ClaimInv, ClaimsTyped
      <3>2. Program[n].kind \in Kinds /\ Program[n].target \in Kinds
        BY <3>1, ProgramOrder DEF Links
      <3>3. QED
        BY <1>4, <3>1, <3>2
    <2>2. QED
      BY <1>1, <2>1 DEF ClaimInv, ClaimsTyped, Links
  <1>6. ClaimsStored' /\ ReadingsAreNew'
    BY <1>1 DEF ClaimInv, ClaimsStored, ReadingsAreNew
  <1>7. ASSUME NEW n \in 1..(step - 1), Runs(n), Links(n) PROVE Linked(n)'
    <2>1. n \in 1..Len(Program) /\ Program[n].kind \in Kinds /\ Program[n].target \in Kinds
          /\ Program[n].kind # Program[n].target /\ n < step
      BY <1>1, <1>7, ProgramOrder DEF Links
    <2>2. Program[n].kind # kind /\ Program[n].target # kind
      <3>1. ~(step < n)
        BY <1>1, <2>1
      <3>2. QED
        BY <1>1, <2>1, <3>1, ProgramOrder DEF AtPopulate, kind
    <2>3. list'[Program[n].kind] = list[Program[n].kind]
          /\ list'[Program[n].target] = list[Program[n].target]
      BY <1>4, <2>1, <2>2
    <2>4. QED
      BY <1>1, <1>7, <2>3 DEF ClaimInv, StepsAreDone, Linked
  <1>8. StepsAreDone'
    BY <1>1, <1>7 DEF StepsAreDone, Links, Runs
  <1>9. QED
    BY <1>5, <1>6, <1>8 DEF ClaimInv

\* The next step finds the one before it done, if it is one that links.
LEMMA ClaimStep ==
  ASSUME ListInv, ClaimInv, step <= Len(Program), step' \in Following(step),
         UNCHANGED <<initList, list, reading, claimed, value, refused>>, reading = {},
         Links(step) => Linked(step)
  PROVE  ClaimInv'
  <1>0. \A i \in Int : \A j \in 1..(i - 1) : j < i
    OBVIOUS
  <1>1. /\ step \in 1..Len(Program) /\ step \in 0..Len(Program)
        /\ step' \in 1..(Len(Program) + 1) /\ step < step'
        /\ \A i \in 1..Len(Program) : Runs(i) /\ i < step' => i <= step
    <2>1. step \in 1..Len(Program) /\ step \in 0..Len(Program)
      BY ProgramIs DEF ListInv, PostTyped
    <2>2. QED
      BY <2>1, FollowingIs
  <1>2. ClaimsTyped'
    <2>1. 1..step \subseteq 1..step'
      BY <1>1, ProgramIs
    <2>2. QED
      BY <2>1 DEF ClaimInv, ClaimsTyped, Links
  <1>3. ClaimsStored' /\ ReadingsAreNew'
    BY DEF ClaimInv, ClaimsStored, ReadingsAreNew
  <1>4. ASSUME NEW n \in 1..(step' - 1), Runs(n), Links(n) PROVE Linked(n)
    <2>0. n \in 1..Len(Program) /\ n < step'
      <3>1. step' \in Int
        BY <1>1, ProgramIs
      <3>2. n < step'
        BY <1>0, <3>1
      <3>3. QED
        BY <1>4, <3>2 DEF Links
    <2>1. n <= step
      BY <1>1, <1>4, <2>0
    <2>2. CASE n = step
      BY <1>4, <2>2
    <2>3. CASE n \in 1..(step - 1)
      BY <1>4, <2>3 DEF ClaimInv, StepsAreDone
    <2>4. QED
      BY <1>1, <2>1, <2>2, <2>3, ProgramIs
  <1>5. StepsAreDone'
    BY <1>4 DEF StepsAreDone, Links, Linked, Runs
  <1>6. QED
    BY <1>2, <1>3, <1>5 DEF ClaimInv

LEMMA ClaimPopulate == ASSUME ListInv, ClaimInv, populate PROVE ClaimInv'
  <1>1. step <= Len(Program) /\ ~Linking /\ ~Links(step)
    BY ProgramIs DEF populate, Populating, Linking, Ended, Links, ListInv, PostTyped
  <1>2. reading = {}
    BY <1>1 DEF ClaimInv, ReadingsAreNew
  <1>3. QED
    BY <1>1, <1>2, ClaimStep DEF populate, linkVars, serverVars, historyVars

\* zip stops at the end of the shorter list.
LEMMA ClaimLinked == ASSUME ListInv, ClaimInv, linked PROVE ClaimInv'
  <1>1. /\ step \in 1..Len(Program) /\ Program[step].kind # Program[step].target
        /\ Pairs = {} /\ reading = {}
    BY ProgramIs DEF linked, Linking, Ended, ListInv, PostTyped
  <1>2. PICK k : k = Program[step].kind
    OBVIOUS
  <1>3. PICK t : t = Program[step].target
    OBVIOUS
  <1>4. k \in Kinds /\ t \in Kinds
    BY <1>1, <1>2, <1>3, ProgramOrder
  <1>5. PICK L : L = {p \in claimed : p[1][1][1] = k}
    OBVIOUS
  <1>6. ASSUME NEW p \in L PROVE p[1] \in list[k] /\ p[2] \in list[t]
    <2>1. PICK n \in 1..step : Links(n) /\ p[1] \in list[Program[n].kind]
                                        /\ p[2] \in list[Program[n].target]
      BY <1>5 DEF ClaimInv, ClaimsTyped
    <2>2. n \in 1..Len(Program) /\ Program[n].kind # Program[n].target
          /\ Program[n].kind \in Kinds
      BY <2>1, ProgramOrder DEF Links
    <2>3. Program[n].kind = k
      BY <1>5, <2>1, <2>2, ListsHold
    <2>4. n = step
      BY <1>1, <1>2, <2>2, <2>3, ProgramOrder
    <2>5. QED
      BY <1>2, <1>3, <2>1, <2>4
  <1>7. IsFiniteSet(list[k]) /\ IsFiniteSet(list[t])
    BY <1>4, CopiesAreFinite, FS_Subset DEF ListInv, PostTyped
  <1>8. \A p, q \in L : p[1] = q[1] \/ p[2] = q[2] => p = q
    BY <1>5 DEF ClaimInv, ClaimsTyped
  <1>9. PICK f : f = [p \in L |-> p[1]]
    OBVIOUS
  <1>10. PICK s : s = [p \in L |-> p[2]]
    OBVIOUS
  <1>11. f \in [L -> list[k]] /\ s \in [L -> list[t]]
    BY <1>6, <1>9, <1>10
  <1>12. /\ \A p, q \in L : f[p] = f[q] => p = q
         /\ \A p, q \in L : s[p] = s[q] => p = q
    BY <1>8, <1>9, <1>10
  <1>13. (\A a \in list[k] : \E p \in L : f[p] = a) \/ (\A b \in list[t] : \E p \in L : s[p] = b)
    <2>1. SUFFICES ASSUME NEW a \in list[k], \A p \in L : f[p] # a,
                          NEW b \in list[t], \A p \in L : s[p] # b
                   PROVE  FALSE
      OBVIOUS
    <2>2. a[1][1] = k
      BY <1>4, ListsHold
    <2>3. <<a, b>> \in list[kind] \X list[Program[step].target]
      BY <1>2, <1>3 DEF kind
    <2>4. ASSUME NEW q \in claimed
          PROVE  q[1] # <<a, b>>[1] /\ (q[1][1][1] = kind => q[2] # <<a, b>>[2])
      <3>1. q[1] = a => q \in L
        BY <1>5, <2>2
      <3>2. q[1][1][1] = kind => q \in L
        BY <1>2, <1>5 DEF kind
      <3>3. QED
        BY <1>9, <1>10, <2>1, <3>1, <3>2
    <2>5. <<a, b>> \in Pairs
      BY <2>3, <2>4 DEF Pairs
    <2>6. QED
      BY <1>1, <2>5
  <1>14. /\ Cardinality(L) \in Nat
         /\ Cardinality(list[k]) \in Nat /\ Cardinality(L) <= Cardinality(list[k])
         /\ (\A a \in list[k] : \E p \in L : f[p] = a) => Cardinality(L) = Cardinality(list[k])
    BY <1>7, <1>11, <1>12, Counted
  <1>15. /\ Cardinality(list[t]) \in Nat /\ Cardinality(L) <= Cardinality(list[t])
         /\ (\A b \in list[t] : \E p \in L : s[p] = b) => Cardinality(L) = Cardinality(list[t])
    BY <1>7, <1>11, <1>12, Counted
  <1>16. Cardinality(L) = Min({Cardinality(list[k]), Cardinality(list[t])})
    BY <1>13, <1>14, <1>15, MinOfTwo
  <1>17. Linked(step)
    BY <1>2, <1>3, <1>5, <1>16 DEF Linked
  <1>18. QED
    BY <1>1, <1>17, ClaimStep, ProgramIs DEF linked, postVars, linkVars, serverVars, historyVars

LEMMA ClaimGetResource == ASSUME ClaimInv, getResource PROVE ClaimInv'
  <1>1. UNCHANGED <<initList, step, list, claimed, value, refused>> /\ Linking /\ reading = {}
    BY DEF getResource, postVars, serverVars, historyVars
  <1>2. PICK p \in Pairs : doGetResource(p)
    BY DEF getResource
  <1>3. CASE UNCHANGED reading
    BY <1>1, <1>3, ClaimUnchanged DEF ClaimInv, ClaimsStored
  <1>4. CASE reading' = {[pair |-> p, seen |-> value[p[1]]]} /\ UNCHANGED threw
    <2>1. ReadingsAreNew'
      BY <1>1, <1>2, <1>4 DEF ReadingsAreNew, Linking, Ended, Pairs, kind
    <2>2. QED
      BY <1>1, <2>1
         DEF ClaimInv, ClaimsTyped, ClaimsStored, StepsAreDone, Links, Linked, Runs
  <1>5. QED
    BY <1>2, <1>3, <1>4 DEF doGetResource

\* The pair has neither end in common with one that was linked in this step, and the
\* update writes a resource that no other wrote.
LEMMA ClaimUpdateResource == ASSUME ListInv, ClaimInv, updateResource PROVE ClaimInv'
  <1>1. /\ UNCHANGED <<initList, step, list>> /\ Linking /\ reading' = {}
        /\ step \in 1..Len(Program) /\ Links(step)
    BY ProgramIs DEF updateResource, postVars, Linking, Ended, Links, ListInv, PostTyped
  <1>2. PICK x \in reading :
           /\ value' \in {value, [value EXCEPT ![x.pair[1]] = x.seen \cup {x.pair[2]}]}
           /\ claimed' \in {claimed, claimed \cup {x.pair}}
           /\ refused \subseteq refused'
           /\ claimed' # claimed =>
                 \/ value' = [value EXCEPT ![x.pair[1]] = x.seen \cup {x.pair[2]}]
                 \/ x.pair \in refused'
    BY DEF updateResource
  <1>3. PICK p : p = x.pair
    OBVIOUS
  <1>4. p \in Pairs
    BY <1>2, <1>3 DEF ClaimInv, ReadingsAreNew
  <1>5. /\ p \in list[kind] \X list[Program[step].target]
        /\ \A q \in claimed : q[1] # p[1] /\ (q[1][1][1] = kind => q[2] # p[2])
    BY <1>4 DEF Pairs
  <1>6. kind \in Kinds /\ Program[step].target \in Kinds /\ kind = Program[step].kind
    BY <1>1, ProgramOrder DEF kind
  <1>7. p \in Copies \X Copies /\ p[1][1][1] = kind /\ p[1] \in Copies
    BY <1>5, <1>6, ListsHold
  <1>8. claimed \subseteq Copies \X Copies
    BY DEF ClaimInv, ClaimsTyped
  <1>9. ClaimsTyped'
    <2>1. claimed' \subseteq Copies \X Copies
      BY <1>2, <1>3, <1>7, <1>8
    <2>2. ASSUME NEW r \in claimed'
          PROVE  \E n \in 1..step : Links(n) /\ r[1] \in list[Program[n].kind]
                                             /\ r[2] \in list[Program[n].target]
      <3>1. CASE r \in claimed
        BY <3>1 DEF ClaimInv, ClaimsTyped
      <3>2. CASE r = p
        <4>1. step \in 1..step
          BY <1>1, ProgramIs
        <4>2. QED
          BY <1>1, <1>5, <1>6, <3>2, <4>1
      <3>3. QED
        BY <1>2, <1>3, <3>1, <3>2
    <2>3. ASSUME NEW r \in claimed', NEW q \in claimed',
                 r[1] = q[1] \/ (r[2] = q[2] /\ r[1][1][1] = q[1][1][1])
          PROVE  r = q
      <3>1. CASE r \in claimed /\ q \in claimed
        BY <2>3, <3>1 DEF ClaimInv, ClaimsTyped
      <3>2. CASE r = p \/ q = p
        BY <1>2, <1>3, <1>5, <1>7, <2>3, <3>2
      <3>3. QED
        BY <1>2, <1>3, <3>1, <3>2
    <2>4. QED
      BY <1>1, <2>1, <2>2, <2>3 DEF ClaimsTyped, Links
  <1>10. value = [c \in Copies |-> value[c]]
    BY DEF ClaimInv, ClaimsStored
  <1>11. ClaimsStored'
    <2>1. value' = [c \in Copies |-> value'[c]]
      BY <1>2, <1>10
    <2>2. ASSUME NEW q \in claimed PROVE q[2] \in value'[q[1]] \/ q \in refused'
      <3>1. q[1] # p[1] /\ q[1] \in Copies
        BY <1>5, <1>8
      <3>2. value'[q[1]] = value[q[1]]
        BY <1>2, <1>3, <1>10, <3>1
      <3>3. QED
        BY <1>2, <3>2 DEF ClaimInv, ClaimsStored
    <2>3. ASSUME claimed' # claimed PROVE p[2] \in value'[p[1]] \/ p \in refused'
      BY <1>2, <1>3, <1>7, <1>10, <2>3
    <2>4. QED
      BY <1>2, <1>3, <2>1, <2>2, <2>3 DEF ClaimsStored
  <1>12. ASSUME NEW n \in 1..(step - 1), Runs(n), Links(n) PROVE Linked(n)'
    <2>1. n \in 1..Len(Program) /\ n # step /\ Program[n].kind # kind
      BY <1>1, <1>6, <1>12, ProgramIs, ProgramOrder DEF Links
    <2>2. {q \in claimed' : q[1][1][1] = Program[n].kind}
             = {q \in claimed : q[1][1][1] = Program[n].kind}
      BY <1>2, <1>3, <1>7, <2>1
    <2>3. QED
      BY <1>1, <1>12, <2>2 DEF ClaimInv, StepsAreDone, Linked
  <1>13. StepsAreDone'
    BY <1>1, <1>12 DEF StepsAreDone, Links, Runs
  <1>14. ReadingsAreNew'
    BY <1>1 DEF ReadingsAreNew
  <1>15. QED
    BY <1>9, <1>11, <1>13, <1>14 DEF ClaimInv

LEMMA ClaimNext == ListInv /\ ClaimInv /\ [Next]_vars => ClaimInv'
  <1> SUFFICES ASSUME ListInv, ClaimInv, [Next]_vars PROVE ClaimInv'
    OBVIOUS
  <1>0. value = [c \in Copies |-> value[c]]
    BY DEF ClaimInv, ClaimsStored
  <1>1. CASE fetchAllProviders
    <2>1. reading = {}
      BY <1>1 DEF fetchAllProviders, Populating, Linking, ClaimInv, ReadingsAreNew
    <2>2. QED
      BY <1>0, <1>1, <2>1, ClaimUnchanged
         DEF fetchAllProviders, postVars, linkVars, serverVars, historyVars
  <1>2. CASE populate
    BY <1>2, ClaimPopulate
  <1>3. CASE getResource
    BY <1>3, ClaimGetResource
  <1>4. CASE updateResource
    BY <1>4, ClaimUpdateResource
  <1>5. CASE linked
    BY <1>5, ClaimLinked
  <1>6. ASSUME NEW f \in AllFactories, postResources(f) \/ Start(f) PROVE ClaimInv'
    BY <1>0, <1>6, ClaimUnchanged
       DEF postResources, Start, mainVars, linkVars, serverVars, historyVars
  <1>7. ASSUME NEW f \in AllFactories, addAll(f) PROVE ClaimInv'
    BY <1>7, ClaimAddAll
  <1>8. ASSUME NEW r \in Resources, createResource(r) PROVE ClaimInv'
    BY <1>0, <1>8, ClaimUnchanged DEF createResource, mainVars, linkVars
  <1>9. CASE \E c \in Copies, e \in Edits : Edit(c, e)
    BY <1>9, ClaimEdit
  <1>10. CASE UNCHANGED vars
    BY <1>0, <1>10, ClaimUnchanged
       DEF vars, mainVars, postVars, linkVars, serverVars, historyVars
  <1>11. QED
    BY <1>1, <1>2, <1>3, <1>4, <1>5, <1>6, <1>7, <1>8, <1>9, <1>10 DEF Next, Toolchain, Posting

\* A step of main that links leaves as many links as its shorter list has members, no two
\* with a common end, each on the server unless the server refused it, for lists of any
\* length and whatever other clients change meanwhile.
THEOREM LinksAreComplete == Spec => []LinksMatchUp
  <1>1. ListInv /\ ClaimInv => LinksMatchUp
    <2> SUFFICES ASSUME ListInv, ClaimInv,
                        NEW n \in 1..(step - 1), Runs(n), Program[n].kind # Program[n].target,
                        NEW L, L = {p \in claimed : p[1][1][1] = Program[n].kind}
                 PROVE  /\ Cardinality(L) = Min({Cardinality(list[Program[n].kind]),
                                                 Cardinality(list[Program[n].target])})
                        /\ \A p, q \in L : p[1] = q[1] \/ p[2] = q[2] => p = q
                        /\ \A p \in L : p[2] \in value[p[1]] \/ p \in refused
      BY DEF LinksMatchUp
    <2>1. Links(n)
      BY ProgramIs DEF Links, ListInv, PostTyped
    <2>2. Linked(n)
      BY <2>1 DEF ClaimInv, StepsAreDone
    <2>3. QED
      BY <2>2 DEF Linked, ClaimInv, ClaimsTyped, ClaimsStored
  <1>2. QED
    BY <1>1, ListInit, ListNext, ClaimInit, ClaimNext, PTL DEF Spec
-----------------------------------------------------------------------------
(***************************************************************************)
(* QueryPaging.                                                            *)
(***************************************************************************)
WalkTyped ==
    /\ store \in Stores
    /\ table \in Seq(Entries) /\ snapshot \in Seq(Entries) /\ got \in Seq(Entries)
    /\ page \in Int /\ pc \in {"ask", "reading", "done", "failed"}
    /\ inserted \in Nat /\ removed \in Nat
    /\ stayed \subseteq Entries

\* The page that the client asks for begins where what it has ends: nothing has wrapped.
Aligned == page \in 0..MaxInt /\ page * pageSize = Len(got) /\ Len(got) <= MaxInt

\* When a product wraps it is negative first, and the query fails.
PageInv ==
    Sensible =>
        /\ WalkTyped
        /\ store = "none" => table = <<>> /\ (pc = "reading" => snapshot = <<>>)
        /\ pc = "ask" => Aligned \/ ~Answerable(store, page, pageSize)
        /\ pc = "reading" => Aligned

Begins(s, t) == Len(s) <= Len(t) /\ \A i \in 1..Len(s) : s[i] = t[i]

\* Where nothing is removed from a LinkedHashMap, what was there when the server began to
\* iterate is the beginning of what is there now, and so is what the client has got.
InsertionInv ==
    Sensible /\ store = "LinkedHashMap" /\ removed = 0 =>
        /\ Begins(got, table) /\ stayed \subseteq Members(table)
        /\ pc = "done" => stayed \subseteq Members(got)
        /\ pc = "reading" =>
              /\ Begins(got, snapshot) /\ Begins(snapshot, table)
              /\ stayed \subseteq Members(snapshot)

NoDuplicates(t) == \A i, j \in 1..Len(t) : t[i] = t[j] => i = j

\* What is in the part of table t that a client is past and has not got with g.
Missed(t, g) ==
    {x \in Entries : x \notin Members(g) /\ \E i \in 1..Len(t) : i <= Len(g) /\ t[i] = x}

\* A client that has got g has missed no more than n of t; what it has got is not ahead.
Behind(t, g, n) ==
    /\ NoDuplicates(t)
    /\ \A i \in 1..Len(t) : i > Len(g) => t[i] \notin Members(g)
    /\ n \in Nat /\ Cardinality(Missed(t, g)) <= n

\* Table s has become t by removals: no entry has moved back, and none by more than there
\* were removals.
Shrunk(s, t) ==
    Len(t) <= Len(s) /\ \A i \in 1..Len(t) : \E k \in i..(i + (Len(s) - Len(t))) : s[k] = t[i]

\* Each removal moves at most one entry from what the client will get to what it is past.
\* The table from which the server has begun to iterate is one for which some of the
\* removals have not happened.
RemovalInv ==
    Sensible /\ inserted = 0 =>
        /\ NoDuplicates(got)
        /\ pc = "done" => Cardinality(stayed \ Members(got)) <= removed
        /\ pc \in {"ask", "reading"} =>
              Behind(table, got, removed) /\ stayed \subseteq Members(table)
        /\ pc = "reading" =>
              /\ Behind(snapshot, got, removed - (Len(snapshot) - Len(table)))
              /\ stayed \subseteq Members(snapshot) /\ Shrunk(snapshot, table)
-----------------------------------------------------------------------------
LEMMA Int32Is ==
  ASSUME NEW n \in Int
  PROVE  /\ Int32(n) \in Int
         /\ n \in 0..MaxInt => Int32(n) = n
         /\ n \in (MaxInt + 1)..(2 * MaxInt + 1) => Int32(n) \in -(MaxInt + 1)..(-1)
         /\ n \in -(MaxInt + 1)..(-1) => Int32(n) = n
  <1> DEFINE m == MaxInt + 1
  <1>1. m \in Nat /\ m > 0 /\ MaxInt = m - 1
    BY PagingAssumption DEF PagingAssumption
  <1>2. Int32(n) = ((n + m) % (2 * m)) - m
    BY <1>1, PagingAssumption DEF Int32, PagingAssumption
  <1> HIDE DEF m
  <1>3. (n + m) % (2 * m) \in Int
    BY <1>1
  <1>4. ASSUME n + m \in 0..(2 * m - 1) PROVE (n + m) % (2 * m) = n + m
    BY <1>1, <1>4
  <1>5. ASSUME n \in m..(2 * m - 1) PROVE (n + m) % (2 * m) = n - m
    <2> DEFINE r == n - m
               d == 2 * m
    <2>1. r \in 0..(d - 1) /\ d \in Nat /\ d > 0 /\ n + m = d + r
      BY <1>1, <1>5
    <2> HIDE DEF r, d
    <2>2. (1 * d + r) % d = r
      BY <2>1
    <2>3. (n + m) % d = r
      BY <2>1, <2>2
    <2>4. QED
      BY <2>3 DEF r, d
  <1>6. QED
    BY <1>1, <1>2, <1>3, <1>4, <1>5

LEMMA SensibleSize ==
  ASSUME Sensible
  PROVE  /\ MaxInt \in Nat /\ pageSize \in 1..(MaxInt - 1)
         /\ Limit(pageSize) = pageSize + 1
  <1>1. MaxInt \in Nat /\ pageSize \in 1..(MaxInt - 1)
    BY PagingAssumption DEF PagingAssumption, Sensible
  <1>2. pageSize + 1 \in 0..MaxInt
    BY <1>1
  <1>3. QED
    BY <1>1, <1>2, Int32Is DEF Limit

\* What the server skips.
LEMMA AlignedSkips ==
  ASSUME Sensible, Aligned, got \in Seq(Entries)
  PROVE  Skip(page, pageSize) = Len(got)
  <1>1. Len(got) \in 0..MaxInt
    BY SensibleSize DEF Aligned
  <1>2. QED
    BY <1>1, Int32Is DEF Skip, Aligned

\* A page are the next entries of the table.
LEMMA PageIs ==
  ASSUME Sensible, NEW t \in Seq(Entries), NEW k \in Nat, Skip(page, pageSize) = k,
         NEW fetched, fetched = fetchResourcePageForSP(t, page, pageSize),
         NEW cut, cut = Cut(fetched, pageSize)
  PROVE  /\ HasNextPage(fetched, pageSize) <=> Len(t) > k + pageSize
         /\ cut \in Seq(Entries)
         /\ Len(cut) = IF Len(t) > k + pageSize THEN pageSize
                       ELSE IF Len(t) > k THEN Len(t) - k ELSE 0
         /\ \A i \in 1..Len(cut) : cut[i] = t[k + i]
  <1> DEFINE last == LeastOf(k + (pageSize + 1), Len(t))
  <1>1. pageSize \in Nat /\ pageSize >= 1
    BY SensibleSize
  <1>2. fetched = SubSeq(t, k + 1, last)
    BY SensibleSize DEF fetchResourcePageForSP
  <1>3. Len(t) \in Nat /\ last \in Nat /\ last <= Len(t) /\ last <= k + pageSize + 1
        /\ (last = Len(t) \/ last = k + pageSize + 1)
    BY <1>1 DEF LeastOf
  <1> HIDE DEF last
  <1>4. /\ fetched \in Seq(Entries)
        /\ Len(fetched) = IF last > k THEN last - k ELSE 0
        /\ \A i \in 1..Len(fetched) : fetched[i] = t[k + i]
    BY <1>2, <1>3
  <1>5. HasNextPage(fetched, pageSize) <=> Len(t) > k + pageSize
    BY <1>1, <1>3, <1>4 DEF HasNextPage
  <1>6. CASE Len(t) > k + pageSize
    <2>1. cut = SubSeq(fetched, 1, pageSize) /\ Len(fetched) = pageSize + 1
      BY <1>1, <1>3, <1>4, <1>5, <1>6 DEF Cut
    <2>2. cut \in Seq(Entries) /\ Len(cut) = pageSize
          /\ \A i \in 1..pageSize : cut[i] = fetched[i]
      BY <1>1, <1>4, <2>1
    <2>3. \A i \in 1..pageSize : fetched[i] = t[k + i]
      BY <1>1, <1>4, <2>1
    <2>4. QED
      BY <1>5, <1>6, <2>2, <2>3
  <1>7. CASE ~(Len(t) > k + pageSize)
    <2>1. cut = fetched
      BY <1>5, <1>7 DEF Cut
    <2>2. QED
      BY <1>1, <1>3, <1>4, <1>5, <1>7, <2>1
  <1>8. QED
    BY <1>6, <1>7

LEMMA OrderIs ==
  ASSUME NEW S \in SUBSET Entries, NEW t \in InAnyOrder(S)
  PROVE  /\ t \in Seq(Entries) /\ Members(t) = S
         /\ \A i, j \in 1..Len(t) : t[i] = t[j] => i = j
  <1>1. IsFiniteSet(S)
    BY PagingAssumption, FS_Subset DEF PagingAssumption
  <1> DEFINE n == Cardinality(S)
  <1>2. n \in Nat
    BY <1>1, FS_CardinalityType
  <1>3. t \in [1..n -> S] /\ Members(t) = S
    BY DEF InAnyOrder
  <1>4. IsFiniteSet(1..n) /\ Cardinality(1..n) = n
    BY <1>2, FS_Interval
  <1>5. t \in Surjection(1..n, S)
    BY <1>3 DEF Surjection, Members
  <1>6. t \in Injection(1..n, S)
    BY <1>4, <1>5, FS_SurjSameCardinalityImpliesInj
  <1>7. \A i, j \in 1..n : t[i] = t[j] => i = j
    BY <1>6, Fun_InjectionProperties
  <1> HIDE DEF n
  <1>8. t \in Seq(Entries) /\ Len(t) = n
    <2>1. t \in [1..n -> Entries]
      BY <1>3
    <2>2. QED
      BY <1>2, <2>1
  <1>9. QED
    BY <1>3, <1>7, <1>8

LEMMA JoinedIs ==
  ASSUME NEW t \in Seq(Entries), NEW p \in 1..Len(t), NEW a \in Seq(Entries),
         NEW b \in Seq(Entries),
         Len(a) = p - 1, \A i \in 1..(p - 1) : a[i] = t[i],
         Len(b) = Len(t) - p, \A i \in 1..(Len(t) - p) : b[i] = t[p + i]
  PROVE  /\ a \o b \in Seq(Entries) /\ Len(a \o b) = Len(t) - 1
         /\ \A i \in 1..Len(a \o b) : (a \o b)[i] = IF i < p THEN t[i] ELSE t[i + 1]
  <1> DEFINE u == a \o b
  <1>1. u \in Seq(Entries) /\ Len(u) = Len(a) + Len(b)
        /\ \A i \in 1..(Len(a) + Len(b)) :
              u[i] = IF i <= Len(a) THEN a[i] ELSE b[i - Len(a)]
    BY ConcatProperties
  <1> HIDE DEF u
  <1>2. Len(t) \in Nat /\ p \in Nat /\ p >= 1 /\ p <= Len(t) /\ Len(u) = Len(t) - 1
    BY <1>1
  <1>3. ASSUME NEW i \in 1..(Len(t) - 1), i < p PROVE u[i] = t[i]
    <2>1. i \in 1..(p - 1) /\ i <= Len(a) /\ i \in 1..(Len(a) + Len(b))
      BY <1>2, <1>3
    <2>2. QED
      BY <1>1, <2>1
  <1>4. ASSUME NEW i \in 1..(Len(t) - 1), ~(i < p) PROVE u[i] = t[i + 1]
    <2> DEFINE j == i - (p - 1)
    <2>1. j \in 1..(Len(t) - p) /\ p + j = i + 1 /\ j = i - Len(a)
          /\ ~(i <= Len(a)) /\ i \in 1..(Len(a) + Len(b))
      BY <1>2, <1>4
    <2> HIDE DEF j
    <2>2. u[i] = b[j]
      BY <1>1, <2>1
    <2>3. b[j] = t[p + j]
      BY <2>1
    <2>4. QED
      BY <2>1, <2>2, <2>3
  <1>5. \A i \in 1..Len(u) : u[i] = IF i < p THEN t[i] ELSE t[i + 1]
    BY <1>2, <1>3, <1>4
  <1>6. QED
    BY <1>1, <1>2, <1>5 DEF u

\* What is left of a table.
LEMMA DeletedIs ==
  ASSUME NEW t \in Seq(Entries), NEW p \in DOMAIN t, NEW u,
         u = SubSeq(t, 1, p - 1) \o SubSeq(t, p + 1, Len(t))
  PROVE  /\ u \in Seq(Entries) /\ Len(u) = Len(t) - 1
         /\ \A i \in 1..Len(u) : u[i] = IF i < p THEN t[i] ELSE t[i + 1]
  <1> DEFINE a == SubSeq(t, 1, p - 1)
             b == SubSeq(t, p + 1, Len(t))
  <1>1. Len(t) \in Nat /\ p \in 1..Len(t)
    OBVIOUS
  <1>2. a \in Seq(Entries) /\ Len(a) = p - 1 /\ \A i \in 1..(p - 1) : a[i] = t[i]
    BY <1>1
  <1>3. b \in Seq(Entries) /\ Len(b) = Len(t) - p
        /\ \A i \in 1..(Len(t) - p) : b[i] = t[p + i]
    BY <1>1
  <1>4. u = a \o b
    OBVIOUS
  <1> HIDE DEF a, b
  <1>5. /\ a \o b \in Seq(Entries) /\ Len(a \o b) = Len(t) - 1
        /\ \A i \in 1..Len(a \o b) : (a \o b)[i] = IF i < p THEN t[i] ELSE t[i + 1]
    BY <1>1, <1>2, <1>3, JoinedIs, Zenon
  <1>6. QED
    BY <1>4, <1>5, Zenon
-----------------------------------------------------------------------------
(***************************************************************************)
(* The pages.                                                              *)
(***************************************************************************)
LEMMA JoinIs ==
  ASSUME NEW a \in Seq(Entries), NEW b \in Seq(Entries)
  PROVE  /\ a \o b \in Seq(Entries) /\ Len(a \o b) = Len(a) + Len(b)
         /\ \A i \in 1..Len(a) : (a \o b)[i] = a[i]
         /\ \A i \in (Len(a) + 1)..Len(a \o b) : (a \o b)[i] = b[i - Len(a)]
  <1> DEFINE v == a \o b
  <1>1. v \in Seq(Entries) /\ Len(v) = Len(a) + Len(b)
        /\ \A i \in 1..(Len(a) + Len(b)) :
              v[i] = IF i <= Len(a) THEN a[i] ELSE b[i - Len(a)]
    BY ConcatProperties
  <1> HIDE DEF v
  <1>2. Len(a) \in Nat /\ Len(b) \in Nat
    OBVIOUS
  <1>3. \A i \in 1..Len(a) : v[i] = a[i]
    BY <1>1, <1>2
  <1>4. \A i \in (Len(a) + 1)..Len(v) : v[i] = b[i - Len(a)]
    BY <1>1, <1>2
  <1>5. QED
    BY <1>1, <1>3, <1>4 DEF v

LEMMA QueryIs == ASSUME Query PROVE \E k \in Stores : Ask(k)
  BY DEF Query, Stores, queryResources, queryLinkTypes, queryRequirements,
         queryRequirementCollections, queryChangeRequests, queryDefects, queryTasks,
         queryEnhancements, queryReviewTasks, queryChangeNotices, queryTestCases,
         queryTestPlans, queryTestScripts, queryTestResults, queryTestExecutionRecords

\* After an answer the client has the entries of the table, where they are in it, from
\* where it was.
LEMMA AnswerIs ==
  ASSUME Sensible, PageInv, Answer
  PROVE  \E t \in {snapshot, table} :
            /\ t \in Seq(Entries) /\ got' \in Seq(Entries)
            /\ Len(got') = IF Len(t) > Len(got) + pageSize THEN Len(got) + pageSize
                           ELSE IF Len(t) > Len(got) THEN Len(t) ELSE Len(got)
            /\ \A i \in 1..Len(got) : got'[i] = got[i]
            /\ \A i \in (Len(got) + 1)..Len(got') : got'[i] = t[i]
            /\ IF Len(t) > Len(got) + pageSize THEN page' = Int32(page + 1) /\ pc' = "ask"
               ELSE pc' = "done" /\ page' = page
  <1> DEFINE n == Len(got)
  <1>1. PICK t \in {snapshot, table} :
          LET fetched == fetchResourcePageForSP(t, page, pageSize) IN
          /\ got' = got \o Cut(fetched, pageSize)
          /\ IF HasNextPage(fetched, pageSize) THEN page' = Int32(page + 1) /\ pc' = "ask"
             ELSE pc' = "done" /\ UNCHANGED page
    BY DEF Answer
  <1>2. t \in Seq(Entries) /\ got \in Seq(Entries) /\ Aligned
    BY DEF PageInv, WalkTyped, Answer
  <1>3. n \in Nat /\ Len(t) \in Nat /\ pageSize \in Nat /\ pageSize >= 1
    BY <1>2, SensibleSize
  <1>4. Skip(page, pageSize) = n
    BY <1>2, AlignedSkips
  <1>5. PICK fetched : fetched = fetchResourcePageForSP(t, page, pageSize)
    OBVIOUS
  <1>6. PICK cut : cut = Cut(fetched, pageSize)
    OBVIOUS
  <1>7. /\ HasNextPage(fetched, pageSize) <=> Len(t) > n + pageSize
        /\ cut \in Seq(Entries)
        /\ Len(cut) = IF Len(t) > n + pageSize THEN pageSize
                      ELSE IF Len(t) > n THEN Len(t) - n ELSE 0
        /\ \A i \in 1..Len(cut) : cut[i] = t[n + i]
    BY <1>2, <1>3, <1>4, <1>5, <1>6, PageIs
  <1>8. got' = got \o cut
    BY <1>1, <1>5, <1>6
  <1>9. IF Len(t) > n + pageSize THEN page' = Int32(page + 1) /\ pc' = "ask"
        ELSE pc' = "done" /\ page' = page
    BY <1>1, <1>5, <1>7
  <1> HIDE DEF n
  <1>10. /\ got' \in Seq(Entries) /\ Len(got') = n + Len(cut) /\ Len(cut) \in Nat
         /\ \A i \in 1..n : got'[i] = got[i]
         /\ \A i \in (n + 1)..Len(got') : got'[i] = cut[i - n]
    <2>0. got \in Seq(Entries) /\ cut \in Seq(Entries)
      BY <1>2, <1>7
    <2> DEFINE v == got \o cut
    <2>1. /\ v \in Seq(Entries) /\ Len(v) = Len(got) + Len(cut)
          /\ \A i \in 1..Len(got) : v[i] = got[i]
          /\ \A i \in (Len(got) + 1)..Len(v) : v[i] = cut[i - Len(got)]
      BY <2>0, JoinIs
    <2>2. Len(cut) \in Nat
      BY <1>7
    <2>3. got' = v
      BY <1>8
    <2> HIDE DEF v
    <2>4. QED
      BY <2>1, <2>2, <2>3, Zenon DEF n
  <1>11. ASSUME NEW i \in (n + 1)..Len(got') PROVE got'[i] = t[i]
    <2> DEFINE j == i - n
    <2>1. j \in 1..Len(cut) /\ n + j = i
      BY <1>3, <1>10
    <2>2. got'[i] = cut[j]
      BY <1>10
    <2> HIDE DEF j
    <2>3. QED
      BY <1>7, <2>1, <2>2
  <1>12. Len(got') = IF Len(t) > n + pageSize THEN n + pageSize
                     ELSE IF Len(t) > n THEN Len(t) ELSE n
    BY <1>3, <1>7, <1>10
  <1>13. QED
    BY <1>2, <1>9, <1>10, <1>11, <1>12 DEF n

LEMMA PageAnswer == ASSUME Sensible, PageInv, Answer PROVE PageInv'
  <1> DEFINE n == Len(got)
  <1>1. PICK t \in {snapshot, table} :
            /\ t \in Seq(Entries) /\ got' \in Seq(Entries)
            /\ Len(got') = IF Len(t) > n + pageSize THEN n + pageSize
                           ELSE IF Len(t) > n THEN Len(t) ELSE n
            /\ IF Len(t) > n + pageSize THEN page' = Int32(page + 1) /\ pc' = "ask"
               ELSE pc' = "done" /\ page' = page
    BY AnswerIs
  <1>2. /\ WalkTyped /\ Aligned /\ pc = "reading"
        /\ UNCHANGED <<store, table, pageSize, snapshot, inserted, removed, stayed>>
    BY DEF PageInv, Answer
  <1>3. MaxInt \in Nat /\ pageSize \in 1..(MaxInt - 1) /\ n \in 0..MaxInt
        /\ page \in 0..MaxInt /\ page * pageSize = n
    BY <1>2, SensibleSize DEF WalkTyped, Aligned
  <1>4. WalkTyped'
    <2>1. page' \in Int
      BY <1>1, <1>3, Int32Is
    <2>2. QED
      BY <1>1, <1>2, <2>1 DEF WalkTyped
  <1>5. store = "none" => t = <<>>
    BY <1>2 DEF PageInv
  <1>6. store = "none" => pc' = "done"
    BY <1>1, <1>3, <1>5
  <1>7. ASSUME pc' = "ask" PROVE Aligned' \/ ~Answerable(store', page', pageSize')
    <2>1. page' = Int32(page + 1) /\ Len(got') = n + pageSize /\ store # "none"
      BY <1>1, <1>6, <1>7
    <2> HIDE DEF n
    <2>2. CASE page < MaxInt
      <3>1. page' = page + 1
        BY <1>3, <2>1, <2>2, Int32Is
      <3>2. page' * pageSize = n + pageSize
        BY <1>3, <3>1
      <3>3. CASE n + pageSize <= MaxInt
        BY <1>2, <1>3, <2>1, <2>2, <3>1, <3>2, <3>3 DEF Aligned
      <3>4. CASE n + pageSize > MaxInt
        <4>1. n + pageSize \in (MaxInt + 1)..(2 * MaxInt + 1)
          BY <1>3, <3>4
        <4>2. Int32(page' * pageSize) \in -(MaxInt + 1)..(-1)
          BY <1>3, <3>2, <4>1, Int32Is
        <4>3. QED
          BY <1>2, <1>3, <2>1, <4>2 DEF Answerable, Skip
      <3>5. QED
        BY <1>3, <3>3, <3>4
    <2>3. CASE page = MaxInt
      <3>1. pageSize = 1
        <4>1. pageSize >= 2 => page * pageSize >= 2 * page
          BY <1>3
        <4>2. QED
          BY <1>3, <2>3, <4>1
      <3>2. page' \in -(MaxInt + 1)..(-1)
        BY <1>3, <2>1, <2>3, Int32Is
      <3>3. Int32(page' * pageSize) = page'
        BY <1>3, <3>1, <3>2, Int32Is
      <3>4. QED
        BY <1>2, <1>3, <2>1, <3>2, <3>3 DEF Answerable, Skip
    <2>4. QED
      BY <1>3, <2>2, <2>3
  <1>8. pc' # "reading"
    BY <1>1
  <1>9. QED
    BY <1>2, <1>4, <1>7, <1>8 DEF PageInv

LEMMA PageInit == WalkInit => PageInv
  <1> SUFFICES ASSUME WalkInit, Sensible PROVE PageInv
    BY DEF PageInv
  <1>1. PICK S \in SUBSET Entries :
           (store = "none" => S = {}) /\ table \in InAnyOrder(S) /\ stayed = S
    BY DEF WalkInit
  <1>2. table \in Seq(Entries) /\ Members(table) = S
    BY <1>1, OrderIs
  <1>3. store = "none" => table = <<>>
    <2>1. Members(table) = {} => table = <<>>
      BY <1>2 DEF Members
    <2>2. QED
      BY <1>1, <1>2, <2>1
  <1>4. <<>> \in Seq(Entries) /\ Len(<<>>) = 0
    BY EmptySeq
  <1>5. Aligned
    BY <1>4, SensibleSize DEF WalkInit, Aligned
  <1>6. WalkTyped
    BY <1>1, <1>2, <1>4 DEF WalkInit, WalkTyped
  <1>7. QED
    BY <1>3, <1>5, <1>6 DEF PageInv, WalkInit

LEMMA PageInsert == ASSUME Sensible, PageInv, Insert PROVE PageInv'
  <1>1. /\ store # "none" /\ inserted' = inserted + 1
        /\ UNCHANGED <<store, pageSize, page, pc, snapshot, got, removed, stayed>>
    BY DEF Insert, MayChange
  <1>2. WalkTyped
    BY DEF PageInv
  <1>3. table' \in Seq(Entries)
    <2>1. PICK c \in Entries : table' = Append(table, c)
                               \/ table' \in InAnyOrder(Members(table) \cup {c})
      BY DEF Insert
    <2>2. Members(table) \cup {c} \in SUBSET Entries
      BY <1>2 DEF WalkTyped, Members
    <2>3. CASE table' = Append(table, c)
      BY <1>2, <2>3 DEF WalkTyped
    <2>4. CASE table' \in InAnyOrder(Members(table) \cup {c})
      BY <2>2, <2>4, OrderIs, Zenon
    <2>5. QED
      BY <2>1, <2>3, <2>4
  <1>4. WalkTyped'
    BY <1>1, <1>2, <1>3 DEF WalkTyped
  <1>5. (pc' = "ask" => Aligned' \/ ~Answerable(store', page', pageSize'))
        /\ (pc' = "reading" => Aligned')
    BY <1>1 DEF PageInv, Aligned
  <1>6. QED
    BY <1>1, <1>4, <1>5 DEF PageInv

LEMMA PageDelete == ASSUME Sensible, PageInv, Delete PROVE PageInv'
  <1>1. /\ store # "none" /\ removed' = removed + 1 /\ stayed' \subseteq stayed
        /\ UNCHANGED <<store, pageSize, page, pc, snapshot, got, inserted>>
    BY DEF Delete, MayChange
  <1>2. WalkTyped
    BY DEF PageInv
  <1>3. table' \in Seq(Entries)
    <2>1. PICK p \in DOMAIN table :
             table' = SubSeq(table, 1, p - 1) \o SubSeq(table, p + 1, Len(table))
      BY DEF Delete
    <2>2. QED
      BY <1>2, <2>1, DeletedIs, Zenon DEF WalkTyped
  <1>4. WalkTyped'
    BY <1>1, <1>2, <1>3 DEF WalkTyped
  <1>5. (pc' = "ask" => Aligned' \/ ~Answerable(store', page', pageSize'))
        /\ (pc' = "reading" => Aligned')
    BY <1>1 DEF PageInv, Aligned
  <1>6. QED
    BY <1>1, <1>4, <1>5 DEF PageInv

LEMMA PageAsk == ASSUME Sensible, PageInv, NEW k \in Stores, Ask(k) PROVE PageInv'
  <1>1. /\ pc = "ask" /\ pc' \in {"reading", "failed"} /\ snapshot' = table
        /\ pc' = "reading" => Answerable(store, page, pageSize)
        /\ UNCHANGED <<store, table, pageSize, page, got, inserted, removed, stayed>>
    BY DEF Ask
  <1>2. WalkTyped'
    BY <1>1 DEF PageInv, WalkTyped
  <1>3. pc' = "reading" => Aligned'
    BY <1>1 DEF PageInv, Aligned
  <1>4. QED
    BY <1>1, <1>2, <1>3 DEF PageInv

LEMMA WalkSteps ==
  ASSUME [WalkNext]_walkVars
  PROVE  (\E k \in Stores : Ask(k)) \/ Answer \/ Fail \/ Insert \/ Delete \/ UNCHANGED walkVars
  BY QueryIs DEF WalkNext

LEMMA SameSize == ASSUME [WalkNext]_walkVars PROVE UNCHANGED pageSize
  BY WalkSteps DEF Ask, Answer, Fail, Insert, Delete, MayChange, walkVars

LEMMA PageNext == PageInv /\ [WalkNext]_walkVars => PageInv'
  <1> SUFFICES ASSUME PageInv, [WalkNext]_walkVars, Sensible' PROVE PageInv'
    BY DEF PageInv
  <1>1. Sensible
    BY SameSize DEF Sensible
  <1>2. CASE Fail
    BY <1>1, <1>2 DEF Fail, PageInv, WalkTyped
  <1>3. CASE UNCHANGED walkVars
    BY <1>1, <1>3 DEF walkVars, PageInv, WalkTyped, Aligned
  <1>4. QED
    BY <1>1, <1>2, <1>3, WalkSteps, PageAsk, PageAnswer, PageInsert, PageDelete
-----------------------------------------------------------------------------
(***************************************************************************)
(* Insertions.                                                             *)
(***************************************************************************)
LEMMA InsertionInit == WalkInit /\ PageInv => InsertionInv
  <1> SUFFICES ASSUME WalkInit, PageInv, Sensible PROVE InsertionInv
    BY DEF InsertionInv
  <1>1. table \in Seq(Entries)
    BY DEF PageInv, WalkTyped
  <1>2. Begins(<<>>, table)
    BY <1>1, EmptySeq DEF Begins
  <1>3. stayed = Members(table)
    BY OrderIs DEF WalkInit
  <1>4. QED
    BY <1>2, <1>3 DEF WalkInit, InsertionInv

LEMMA InsertionInsert ==
  ASSUME Sensible, PageInv, InsertionInv, Insert, store = "LinkedHashMap", removed = 0
  PROVE  InsertionInv'
  <1>1. UNCHANGED <<store, pageSize, page, pc, snapshot, got, removed, stayed>>
    BY DEF Insert, MayChange
  <1>2. table \in Seq(Entries) /\ got \in Seq(Entries) /\ snapshot \in Seq(Entries)
    BY DEF PageInv, WalkTyped
  <1>3. PICK c \in Entries : table' = Append(table, c)
    BY DEF Insert
  <1>4. /\ Len(table) \in Nat /\ Len(table') = Len(table) + 1
        /\ \A i \in 1..Len(table) : table'[i] = table[i]
        /\ DOMAIN table' = 1..Len(table')
    BY <1>2, <1>3
  <1>5. \A s \in Seq(Entries) : Begins(s, table) => Begins(s, table')
    BY <1>4 DEF Begins
  <1>6. Members(table) \subseteq Members(table')
    BY <1>2, <1>4 DEF Members
  <1>7. QED
    BY <1>1, <1>2, <1>5, <1>6 DEF InsertionInv

LEMMA InsertionAnswer ==
  ASSUME Sensible, PageInv, InsertionInv, Answer, store = "LinkedHashMap", removed = 0
  PROVE  InsertionInv'
  <1> DEFINE n == Len(got)
  <1>1. PICK t \in {snapshot, table} :
            /\ t \in Seq(Entries) /\ got' \in Seq(Entries)
            /\ Len(got') = IF Len(t) > n + pageSize THEN n + pageSize
                           ELSE IF Len(t) > n THEN Len(t) ELSE n
            /\ \A i \in 1..n : got'[i] = got[i]
            /\ \A i \in (n + 1)..Len(got') : got'[i] = t[i]
            /\ IF Len(t) > n + pageSize THEN page' = Int32(page + 1) /\ pc' = "ask"
               ELSE pc' = "done" /\ page' = page
    BY AnswerIs
  <1>2. /\ table \in Seq(Entries) /\ got \in Seq(Entries) /\ snapshot \in Seq(Entries)
        /\ pc = "reading"
        /\ UNCHANGED <<store, table, pageSize, snapshot, inserted, removed, stayed>>
    BY DEF PageInv, WalkTyped, Answer
  <1>3. Begins(got, t) /\ Begins(t, table) /\ stayed \subseteq Members(t)
    BY <1>1, <1>2 DEF InsertionInv, Begins
  <1>4. n \in Nat /\ pageSize \in Nat /\ Len(t) \in Nat /\ Len(table) \in Nat
        /\ n <= Len(t) /\ Len(t) <= Len(table)
    BY <1>1, <1>2, <1>3, SensibleSize DEF Begins
  <1>5. Len(got') \in Nat /\ n <= Len(got') /\ Len(got') <= Len(t)
        /\ (pc' # "ask" => Len(got') = Len(t)) /\ pc' # "reading"
    BY <1>1, <1>4
  <1>6. \A i \in 1..Len(got') : got'[i] = t[i]
    <2> TAKE i \in 1..Len(got')
    <2>1. CASE i <= n
      BY <1>1, <1>3, <1>4, <1>5, <2>1 DEF Begins
    <2>2. CASE i > n
      BY <1>1, <1>4, <1>5, <2>2
    <2>3. QED
      BY <1>4, <1>5, <2>1, <2>2
  <1>7. Begins(got', table)
    BY <1>3, <1>4, <1>5, <1>6 DEF Begins
  <1>8. pc' = "done" => stayed \subseteq Members(got')
    BY <1>1, <1>3, <1>5, <1>6 DEF Members
  <1>9. QED
    BY <1>2, <1>5, <1>7, <1>8 DEF InsertionInv

LEMMA InsertionNext ==
  PageInv /\ InsertionInv /\ [WalkNext]_walkVars => InsertionInv'
  <1> SUFFICES ASSUME PageInv, InsertionInv, [WalkNext]_walkVars,
                      Sensible', store' = "LinkedHashMap", removed' = 0
               PROVE  InsertionInv'
    BY DEF InsertionInv
  <1>1. Sensible
    BY SameSize DEF Sensible
  <1>2. store = "LinkedHashMap" /\ removed \in Nat
    BY <1>1, WalkSteps DEF PageInv, WalkTyped, Ask, Answer, Fail, Insert, Delete, MayChange,
                           walkVars
  <1>3. ~Delete /\ removed = 0
    BY <1>2, WalkSteps DEF Ask, Answer, Fail, Insert, Delete, walkVars
  <1>4. ASSUME NEW k \in Stores, Ask(k) PROVE InsertionInv'
    <2>1. /\ pc' \in {"reading", "failed"} /\ snapshot' = table
          /\ UNCHANGED <<store, table, pageSize, page, got, inserted, removed, stayed>>
      BY <1>4 DEF Ask
    <2>2. table \in Seq(Entries)
      BY <1>1 DEF PageInv, WalkTyped
    <2>3. Begins(table, table)
      BY <2>2 DEF Begins
    <2>4. QED
      BY <1>1, <1>2, <1>3, <2>1, <2>3 DEF InsertionInv
  <1>5. CASE Fail
    BY <1>1, <1>5 DEF Fail, InsertionInv, Sensible
  <1>6. CASE UNCHANGED walkVars
    BY <1>1, <1>6 DEF walkVars, InsertionInv, Sensible
  <1>7. QED
    BY <1>1, <1>2, <1>3, <1>4, <1>5, <1>6, WalkSteps, InsertionInsert, InsertionAnswer

\* Of a LinkedHashMap from which nothing is removed a client gets the beginning and in the
\* end all that was there at the start, whatever is inserted while it walks, for any sizes
\* of pages and ints of any width: an int that wraps ends the walk.
THEOREM SeesInsertionsLast == WalkSpec => []InsertionsAreSeenLast
  <1>1. WalkInit => PageInv /\ InsertionInv
    BY PageInit, InsertionInit
  <1>2. PageInv /\ InsertionInv /\ [WalkNext]_walkVars => (PageInv /\ InsertionInv)'
    BY PageNext, InsertionNext
  <1>3. PageInv /\ InsertionInv => InsertionsAreSeenLast
    <2> SUFFICES ASSUME PageInv, InsertionInv, Sensible, store = "LinkedHashMap", removed = 0
                 PROVE  /\ got = SubSeq(table, 1, Len(got))
                        /\ pc = "done" => stayed \subseteq Members(got)
      BY DEF InsertionsAreSeenLast
    <2>1. table \in Seq(Entries) /\ got \in Seq(Entries) /\ Begins(got, table)
      BY DEF PageInv, WalkTyped, InsertionInv
    <2>2. got = SubSeq(table, 1, Len(got))
      <3> DEFINE s == SubSeq(table, 1, Len(got))
      <3>1. s \in Seq(Entries) /\ Len(s) = Len(got) /\ \A i \in 1..Len(got) : s[i] = got[i]
        BY <2>1 DEF Begins
      <3> HIDE DEF s
      <3>2. got = s
        BY <2>1, <3>1, SeqEqual
      <3>3. QED
        BY <3>2 DEF s
    <2>3. QED
      BY <2>2 DEF InsertionInv
  <1>4. QED
    BY <1>1, <1>2, <1>3, PTL DEF WalkSpec
-----------------------------------------------------------------------------
(***************************************************************************)
(* Removals.                                                               *)
(***************************************************************************)
LEMMA MissedIsFinite == \A t, g : IsFiniteSet(Missed(t, g))
  <1> TAKE t, g
  <1>1. Missed(t, g) \subseteq Entries
    BY DEF Missed
  <1>2. QED
    BY <1>1, PagingAssumption, FS_Subset DEF PagingAssumption

LEMMA MissesLess ==
  ASSUME NEW S, NEW T, IsFiniteSet(T), S \subseteq T, NEW n \in Nat, Cardinality(T) <= n
  PROVE  Cardinality(S) <= n
  <1>1. IsFiniteSet(S) /\ Cardinality(S) <= Cardinality(T)
    BY FS_Subset
  <1>2. Cardinality(S) \in Nat /\ Cardinality(T) \in Nat
    BY <1>1, FS_CardinalityType
  <1>3. QED
    BY <1>1, <1>2

LEMMA MissesMore ==
  ASSUME NEW S, NEW T, NEW U, IsFiniteSet(T), IsFiniteSet(U), S \subseteq T \cup U,
         NEW m \in Nat, NEW n \in Nat, Cardinality(T) <= m, Cardinality(U) <= n
  PROVE  Cardinality(S) <= m + n
  <1>1. /\ IsFiniteSet(T \cup U)
        /\ Cardinality(T \cup U) = Cardinality(T) + Cardinality(U) - Cardinality(T \cap U)
    BY FS_Union
  <1>2. IsFiniteSet(T \cap U)
    BY FS_Intersection
  <1>3. Cardinality(T) \in Nat /\ Cardinality(U) \in Nat /\ Cardinality(T \cap U) \in Nat
    BY <1>2, FS_CardinalityType
  <1>4. Cardinality(T \cup U) <= m + n /\ m + n \in Nat
    BY <1>1, <1>3
  <1>5. QED
    BY <1>1, <1>4, MissesLess

LEMMA StretchIs ==
  ASSUME NEW s \in Seq(Entries), NEW m \in Nat, NEW d \in Nat
  PROVE  LET U == {x \in Entries : \E k \in 1..Len(s) : k > m /\ k <= m + d /\ s[k] = x}
         IN IsFiniteSet(U) /\ Cardinality(U) <= d
  <1> DEFINE U == {x \in Entries : \E k \in 1..Len(s) : k > m /\ k <= m + d /\ s[k] = x}
             K == {k \in 1..Len(s) : k > m /\ k <= m + d}
             f == [k \in K |-> s[k]]
  <1>1. IsFiniteSet(K) /\ Cardinality(K) <= d
    <2>1. K \subseteq (m + 1)..(m + d)
      OBVIOUS
    <2>2. IsFiniteSet((m + 1)..(m + d))
          /\ Cardinality((m + 1)..(m + d)) = IF m + 1 > m + d THEN 0 ELSE d
      BY FS_Interval
    <2>3. Cardinality((m + 1)..(m + d)) <= d
      BY <2>2
    <2> HIDE DEF K
    <2>4. IsFiniteSet(K)
      BY <2>1, <2>2, FS_Subset
    <2>5. QED
      BY <2>1, <2>2, <2>3, <2>4, MissesLess
  <1>2. f \in Surjection(K, U)
    <2>1. \A k \in 1..Len(s) : s[k] \in Entries
      OBVIOUS
    <2>2. \A k \in K : s[k] \in U
      BY <2>1
    <2>3. \A x \in U : \E k \in K : s[k] = x
      OBVIOUS
    <2> HIDE DEF K, U
    <2>4. f \in [K -> U] /\ \A x \in U : \E k \in K : f[k] = x
      BY <2>2, <2>3
    <2> HIDE DEF f
    <2>5. QED
      BY <2>4, Fun_IsSurj
  <1> HIDE DEF f, K, U
  <1>3. IsFiniteSet(U) /\ Cardinality(U) <= Cardinality(K)
    BY <1>1, <1>2, FS_Surjection
  <1>4. Cardinality(U) \in Nat /\ Cardinality(K) \in Nat
    BY <1>1, <1>3, FS_CardinalityType
  <1>5. IsFiniteSet(U) /\ Cardinality(U) <= d
    BY <1>1, <1>3, <1>4
  <1>6. QED
    BY <1>5 DEF U

\* h is g with a page of t.
Extends(h, g, t) ==
    /\ Len(g) <= Len(h) /\ (Len(h) = Len(g) \/ Len(h) <= Len(t))
    /\ \A i \in 1..Len(g) : h[i] = g[i]
    /\ \A i \in (Len(g) + 1)..Len(h) : h[i] = t[i]

LEMMA MembersAre ==
  ASSUME NEW t \in Seq(Entries)
  PROVE  /\ \A i \in 1..Len(t) : t[i] \in Members(t)
         /\ \A x \in Members(t) : \E i \in 1..Len(t) : t[i] = x
  BY DEF Members

LEMMA ExtendedHas ==
  ASSUME NEW g \in Seq(Entries), NEW h \in Seq(Entries), NEW t \in Seq(Entries),
         Extends(h, g, t)
  PROVE  /\ Members(g) \subseteq Members(h)
         /\ \A i \in (Len(g) + 1)..Len(h) : i \in 1..Len(t) /\ t[i] \in Members(h)
         /\ \A x \in Members(h) : x \in Members(g)
                                  \/ \E i \in (Len(g) + 1)..Len(h) : x = t[i]
  <1>1. Len(g) \in Nat /\ Len(h) \in Nat /\ Len(t) \in Nat /\ Len(g) <= Len(h)
    BY DEF Extends
  <1>2. \A i \in 1..Len(g) : i \in 1..Len(h) /\ h[i] = g[i]
    BY <1>1 DEF Extends
  <1>3. \A i \in (Len(g) + 1)..Len(h) : i \in 1..Len(h) /\ i \in 1..Len(t) /\ h[i] = t[i]
    BY <1>1 DEF Extends
  <1>4. \A i \in 1..Len(h) : h[i] \in Members(h)
    BY MembersAre
  <1>5. Members(g) \subseteq Members(h)
    <2>1. ASSUME NEW x \in Members(g) PROVE x \in Members(h)
      <3>1. PICK i \in 1..Len(g) : g[i] = x
        BY MembersAre
      <3>2. QED
        BY <1>2, <1>4, <3>1
    <2>2. QED
      BY <2>1
  <1>6. \A i \in (Len(g) + 1)..Len(h) : i \in 1..Len(t) /\ t[i] \in Members(h)
    BY <1>3, <1>4
  <1>7. ASSUME NEW x \in Members(h), x \notin Members(g)
        PROVE  \E i \in (Len(g) + 1)..Len(h) : x = t[i]
    <2>1. PICK i \in 1..Len(h) : h[i] = x
      BY MembersAre
    <2>2. ~(i <= Len(g))
      <3>1. \A k \in 1..Len(g) : g[k] \in Members(g)
        BY MembersAre
      <3>2. QED
        BY <1>1, <1>2, <1>7, <2>1, <3>1
    <2>3. i \in (Len(g) + 1)..Len(h)
      BY <1>1, <2>2
    <2>4. QED
      BY <1>3, <2>1, <2>3
  <1>8. QED
    BY <1>5, <1>6, <1>7

LEMMA ExtendedIsNew ==
  ASSUME NEW g \in Seq(Entries), NEW h \in Seq(Entries), NEW t \in Seq(Entries),
         Extends(h, g, t), NoDuplicates(g), NoDuplicates(t),
         \A i \in 1..Len(t) : i > Len(g) => t[i] \notin Members(g)
  PROVE  NoDuplicates(h)
  <1>1. Len(g) \in Nat /\ Len(h) \in Nat /\ Len(t) \in Nat /\ DOMAIN g = 1..Len(g)
    OBVIOUS
  <1>2. ASSUME NEW i \in 1..Len(h), NEW j \in 1..Len(h), h[i] = h[j], i < j
        PROVE  FALSE
    <2>1. CASE j <= Len(g)
      BY <1>1, <1>2, <2>1 DEF Extends, NoDuplicates
    <2>2. CASE j > Len(g)
      <3>1. j \in (Len(g) + 1)..Len(h) /\ j \in 1..Len(t) /\ h[j] = t[j]
        BY <1>1, <2>2, ExtendedHas DEF Extends
      <3>2. CASE i <= Len(g)
        <4>1. i \in DOMAIN g /\ h[i] = g[i]
          BY <1>1, <3>2 DEF Extends
        <4>2. h[i] \in Members(g)
          BY <4>1 DEF Members
        <4>3. QED
          BY <1>2, <2>2, <3>1, <4>2
      <3>3. CASE i > Len(g)
        <4>1. i \in (Len(g) + 1)..Len(h) /\ i \in 1..Len(t) /\ h[i] = t[i]
          BY <1>1, <3>3, ExtendedHas DEF Extends
        <4>2. QED
          BY <1>1, <1>2, <3>1, <4>1 DEF NoDuplicates
      <3>4. QED
        BY <1>1, <3>2, <3>3
    <2>3. QED
      BY <1>1, <2>1, <2>2
  <1>3. QED
    BY <1>1, <1>2 DEF NoDuplicates

\* The server iterates over the table as it is.
LEMMA BehindSame ==
  ASSUME NEW g \in Seq(Entries), NEW h \in Seq(Entries), NEW t \in Seq(Entries),
         NEW n, Extends(h, g, t), Behind(t, g, n)
  PROVE  Behind(t, h, n) /\ Missed(t, h) \subseteq Missed(t, g)
  <1>1. Len(g) \in Nat /\ Len(h) \in Nat /\ Len(t) \in Nat /\ Len(g) <= Len(h)
    BY DEF Extends
  <1>2. ASSUME NEW i \in 1..Len(t), i > Len(h), t[i] \in Members(h) PROVE FALSE
    <2>1. t[i] \notin Members(g)
      BY <1>1, <1>2 DEF Behind
    <2>2. PICK j \in (Len(g) + 1)..Len(h) : t[i] = t[j]
      BY <1>2, <2>1, ExtendedHas
    <2>3. j \in 1..Len(t) /\ j # i
      BY <1>1, <1>2, ExtendedHas
    <2>4. QED
      BY <2>2, <2>3 DEF Behind, NoDuplicates
  <1>3. ASSUME NEW x \in Missed(t, h) PROVE x \in Missed(t, g)
    <2>1. PICK i \in 1..Len(t) : i <= Len(h) /\ t[i] = x
      BY DEF Missed
    <2>2. x \in Entries /\ x \notin Members(h) /\ x \notin Members(g)
      BY ExtendedHas DEF Missed
    <2>3. i <= Len(g)
      <3>1. i > Len(g) => i \in (Len(g) + 1)..Len(h)
        BY <1>1, <2>1
      <3>2. QED
        BY <1>1, <2>1, <2>2, <3>1, ExtendedHas
    <2>4. QED
      BY <2>1, <2>2, <2>3 DEF Missed
  <1>4. Cardinality(Missed(t, h)) <= n
    BY <1>3, MissedIsFinite, MissesLess DEF Behind
  <1>5. QED
    BY <1>2, <1>3, <1>4 DEF Behind

\* The server iterates over s, which has become t.
LEMMA BehindShrunk ==
  ASSUME NEW g \in Seq(Entries), NEW h \in Seq(Entries), NEW s \in Seq(Entries),
         NEW t \in Seq(Entries), NEW n \in Nat, Extends(h, g, s), Shrunk(s, t),
         Behind(s, g, n - (Len(s) - Len(t))), Behind(t, g, n)
  PROVE  Behind(t, h, n)
  <1> DEFINE d == Len(s) - Len(t)
  <1>1. /\ Len(g) \in Nat /\ Len(h) \in Nat /\ Len(t) \in Nat /\ Len(s) \in Nat
        /\ Len(g) <= Len(h) /\ d \in Nat /\ n - d \in Nat
    BY DEF Extends, Shrunk, Behind
  <1>2. \A i \in 1..Len(t) : \E k \in 1..Len(s) : i <= k /\ k <= i + d /\ s[k] = t[i]
    BY <1>1 DEF Shrunk
  <1>3. NoDuplicates(s) /\ Cardinality(Missed(s, g)) <= n - d
    BY DEF Behind
  <1> HIDE DEF d
  <1>4. ASSUME NEW i \in 1..Len(t), i > Len(h), t[i] \in Members(h) PROVE FALSE
    <2>1. t[i] \notin Members(g)
      BY <1>1, <1>4 DEF Behind
    <2>2. PICK j \in (Len(g) + 1)..Len(h) : t[i] = s[j]
      BY <1>4, <2>1, ExtendedHas
    <2>3. j \in 1..Len(s) /\ j <= Len(h)
      BY <1>1, ExtendedHas
    <2>4. PICK k \in 1..Len(s) : i <= k /\ s[k] = t[i]
      BY <1>2
    <2>5. k # j
      BY <1>1, <1>4, <2>3, <2>4
    <2>6. QED
      BY <1>3, <2>2, <2>3, <2>4, <2>5 DEF NoDuplicates
  <1> DEFINE U == {x \in Entries : \E k \in 1..Len(s) :
                       k > Len(h) /\ k <= Len(h) + d /\ s[k] = x}
  <1>5. ASSUME NEW x \in Missed(t, h), x \notin Missed(s, g) PROVE x \in U
    <2>1. PICK i \in 1..Len(t) : i <= Len(h) /\ t[i] = x
      BY DEF Missed
    <2>2. x \in Entries /\ x \notin Members(h) /\ x \notin Members(g)
      BY ExtendedHas DEF Missed
    <2>3. PICK k \in 1..Len(s) : i <= k /\ k <= i + d /\ s[k] = x
      BY <1>2, <2>1
    <2>4. ~(k <= Len(g))
      BY <1>5, <2>2, <2>3 DEF Missed
    <2>5. k > Len(h)
      <3>1. k \notin (Len(g) + 1)..Len(h)
        BY <2>2, <2>3, ExtendedHas
      <3>2. QED
        BY <1>1, <2>4, <3>1
    <2>6. k <= Len(h) + d
      BY <1>1, <2>1, <2>3
    <2>7. QED
      BY <2>2, <2>3, <2>5, <2>6
  <1>6. IsFiniteSet(U) /\ Cardinality(U) <= d
    BY <1>1, StretchIs
  <1> HIDE DEF U
  <1>7. Missed(t, h) \subseteq Missed(s, g) \cup U
    BY <1>5
  <1>8. Cardinality(Missed(t, h)) <= (n - d) + d
    BY <1>1, <1>3, <1>6, <1>7, MissedIsFinite, MissesMore
  <1>9. (n - d) + d = n
    BY <1>1
  <1>10. QED
    BY <1>4, <1>8, <1>9 DEF Behind

\* t without its entry p.
Without(u, t, p) ==
    /\ Len(u) = Len(t) - 1
    /\ \A i \in 1..Len(u) : u[i] = IF i < p THEN t[i] ELSE t[i + 1]

LEMMA BehindDeleted ==
  ASSUME NEW g \in Seq(Entries), NEW t \in Seq(Entries), NEW u \in Seq(Entries),
         NEW p \in 1..Len(t), NEW n, Without(u, t, p), Behind(t, g, n)
  PROVE  Behind(u, g, n + 1)
  <1>1. /\ Len(g) \in Nat /\ Len(t) \in Nat /\ Len(u) \in Nat /\ n \in Nat
        /\ Len(u) = Len(t) - 1 /\ p \in Nat
    BY DEF Without, Behind
  <1>2. \A i \in 1..Len(u) : i \in 1..Len(t) /\ i + 1 \in 1..Len(t)
                             /\ (i < p => u[i] = t[i]) /\ (~(i < p) => u[i] = t[i + 1])
    BY <1>1 DEF Without
  <1>3. NoDuplicates(u)
    <2>1. ASSUME NEW i \in 1..Len(u), NEW j \in 1..Len(u), u[i] = u[j] PROVE i = j
      <3>1. CASE i < p /\ j < p
        BY <1>2, <2>1, <3>1 DEF Behind, NoDuplicates
      <3>2. CASE i < p /\ ~(j < p)
        <4>1. i = j + 1
          BY <1>2, <2>1, <3>2 DEF Behind, NoDuplicates
        <4>2. QED
          BY <1>1, <3>2, <4>1
      <3>3. CASE ~(i < p) /\ j < p
        <4>1. i + 1 = j
          BY <1>2, <2>1, <3>3 DEF Behind, NoDuplicates
        <4>2. QED
          BY <1>1, <3>3, <4>1
      <3>4. CASE ~(i < p) /\ ~(j < p)
        <4>1. i + 1 = j + 1
          BY <1>2, <2>1, <3>4 DEF Behind, NoDuplicates
        <4>2. QED
          BY <1>1, <4>1
      <3>5. QED
        BY <3>1, <3>2, <3>3, <3>4
    <2>2. QED
      BY <2>1 DEF NoDuplicates
  <1>4. ASSUME NEW i \in 1..Len(u), i > Len(g) PROVE u[i] \notin Members(g)
    <2>1. i + 1 > Len(g)
      BY <1>1, <1>4
    <2>2. t[i] \notin Members(g) /\ t[i + 1] \notin Members(g)
      BY <1>2, <1>4, <2>1 DEF Behind
    <2>3. QED
      BY <1>2, <2>2
  <1> DEFINE U == {x \in Entries : \E k \in 1..Len(t) :
                       k > Len(g) /\ k <= Len(g) + 1 /\ t[k] = x}
  <1>5. ASSUME NEW x \in Missed(u, g), x \notin Missed(t, g) PROVE x \in U
    <2>1. PICK i \in 1..Len(u) : i <= Len(g) /\ u[i] = x
      BY DEF Missed
    <2>2. x \in Entries /\ x \notin Members(g)
      BY DEF Missed
    <2>3. PICK k \in 1..Len(t) : k <= i + 1 /\ t[k] = x
      <3>1. /\ i \in 1..Len(t) /\ i + 1 \in 1..Len(t) /\ i <= i + 1 /\ i + 1 <= i + 1
            /\ u[i] = t[i] \/ u[i] = t[i + 1]
        BY <1>1, <1>2
      <3>2. QED
        BY <2>1, <3>1
    <2>4. ~(k <= Len(g))
      BY <1>5, <2>2, <2>3 DEF Missed
    <2>5. k > Len(g) /\ k <= Len(g) + 1
      BY <1>1, <2>1, <2>3, <2>4
    <2>6. QED
      BY <2>2, <2>3, <2>5
  <1>6. IsFiniteSet(U) /\ Cardinality(U) <= 1
    BY <1>1, StretchIs
  <1> HIDE DEF U
  <1>7. Missed(u, g) \subseteq Missed(t, g) \cup U
    BY <1>5
  <1>8. Cardinality(Missed(t, g)) <= n
    BY DEF Behind
  <1>9. Cardinality(Missed(u, g)) <= n + 1
    BY <1>1, <1>6, <1>7, <1>8, MissedIsFinite, MissesMore
  <1>10. QED
    BY <1>1, <1>3, <1>4, <1>9 DEF Behind

LEMMA ShrunkDeleted ==
  ASSUME NEW s \in Seq(Entries), NEW t \in Seq(Entries), NEW u \in Seq(Entries),
         NEW p \in 1..Len(t), Without(u, t, p), Shrunk(s, t)
  PROVE  Shrunk(s, u)
  <1> DEFINE d == Len(s) - Len(t)
             e == Len(s) - Len(u)
  <1>1. /\ Len(t) \in Nat /\ Len(u) \in Nat /\ Len(s) \in Nat /\ p \in Nat
        /\ Len(u) = Len(t) - 1 /\ Len(t) <= Len(s) /\ e = d + 1 /\ d \in Nat
    BY DEF Without, Shrunk
  <1>2. \A i \in 1..Len(t) : \E k \in i..(i + d) : s[k] = t[i]
    BY DEF Shrunk
  <1>3. \A i \in 1..Len(u) : i \in 1..Len(t) /\ i + 1 \in 1..Len(t)
                             /\ (i < p => u[i] = t[i]) /\ (~(i < p) => u[i] = t[i + 1])
    BY <1>1 DEF Without
  <1> HIDE DEF d, e
  <1>4. ASSUME NEW i \in 1..Len(u) PROVE \E k \in i..(i + e) : s[k] = u[i]
    <2>1. CASE i < p
      <3>1. PICK k \in i..(i + d) : s[k] = t[i]
        BY <1>2, <1>3
      <3>2. k \in i..(i + e)
        BY <1>1
      <3>3. QED
        BY <1>3, <2>1, <3>1, <3>2
    <2>2. CASE ~(i < p)
      <3>1. PICK k \in (i + 1)..((i + 1) + d) : s[k] = t[i + 1]
        BY <1>2, <1>3
      <3>2. k \in i..(i + e)
        BY <1>1
      <3>3. QED
        BY <1>3, <2>2, <3>1, <3>2
    <2>3. QED
      BY <2>1, <2>2
  <1>5. QED
    BY <1>1, <1>4 DEF Shrunk, e

LEMMA RemovalInit == WalkInit /\ PageInv => RemovalInv
  <1> SUFFICES ASSUME WalkInit, PageInv, Sensible PROVE RemovalInv
    BY DEF RemovalInv
  <1>1. PICK S \in SUBSET Entries : table \in InAnyOrder(S) /\ stayed = S
    BY DEF WalkInit
  <1>2. table \in Seq(Entries) /\ Members(table) = S /\ NoDuplicates(table)
    BY <1>1, OrderIs DEF NoDuplicates
  <1>3. got = <<>> /\ Len(got) = 0 /\ pc = "ask" /\ removed = 0 /\ got \in Seq(Entries)
    BY EmptySeq DEF WalkInit
  <1>4. Members(got) = {}
    <2>1. \A x \in Members(got) : \E i \in 1..Len(got) : got[i] = x
      BY <1>3, MembersAre
    <2>2. \A i \in 1..Len(got) : FALSE
      BY <1>3
    <2>3. QED
      BY <2>1, <2>2
  <1>5. Missed(table, got) = {}
    BY <1>3 DEF Missed
  <1>6. Cardinality(Missed(table, got)) <= 0
    BY <1>5, FS_EmptySet
  <1>7. Behind(table, got, removed)
    BY <1>2, <1>3, <1>4, <1>6 DEF Behind
  <1>8. NoDuplicates(got)
    BY <1>3 DEF NoDuplicates
  <1>9. QED
    BY <1>1, <1>2, <1>3, <1>7, <1>8 DEF RemovalInv

LEMMA RemovalAsk ==
  ASSUME Sensible, PageInv, RemovalInv, NEW k \in Stores, Ask(k), inserted = 0
  PROVE  RemovalInv'
  <1>1. /\ pc = "ask" /\ pc' \in {"reading", "failed"} /\ snapshot' = table
        /\ UNCHANGED <<store, table, pageSize, page, got, inserted, removed, stayed>>
    BY DEF Ask
  <1>2. table \in Seq(Entries) /\ removed \in Nat /\ Len(table) \in Nat
    BY DEF PageInv, WalkTyped
  <1>3. removed - (Len(table) - Len(table)) = removed
    BY <1>2
  <1>4. Shrunk(table, table)
    BY <1>2 DEF Shrunk
  <1>5. /\ NoDuplicates(got) /\ Behind(table, got, removed) /\ stayed \subseteq Members(table)
    BY <1>1 DEF RemovalInv
  <1>6. NoDuplicates(got')
    BY <1>1, <1>5
  <1>7. Behind(table', got', removed') /\ stayed' \subseteq Members(table')
    BY <1>1, <1>5
  <1>8. /\ Behind(snapshot', got', removed' - (Len(snapshot') - Len(table')))
        /\ stayed' \subseteq Members(snapshot') /\ Shrunk(snapshot', table')
    BY <1>1, <1>3, <1>4, <1>5
  <1>9. QED
    BY <1>1, <1>6, <1>7, <1>8 DEF RemovalInv

LEMMA RemovalAnswer ==
  ASSUME Sensible, PageInv, RemovalInv, Answer, inserted = 0
  PROVE  RemovalInv'
  <1> DEFINE n == Len(got)
             missing == removed - (Len(snapshot) - Len(table))
  <1>1. PICK t \in {snapshot, table} :
            /\ t \in Seq(Entries) /\ got' \in Seq(Entries)
            /\ Len(got') = IF Len(t) > n + pageSize THEN n + pageSize
                           ELSE IF Len(t) > n THEN Len(t) ELSE n
            /\ \A i \in 1..n : got'[i] = got[i]
            /\ \A i \in (n + 1)..Len(got') : got'[i] = t[i]
            /\ IF Len(t) > n + pageSize THEN page' = Int32(page + 1) /\ pc' = "ask"
               ELSE pc' = "done" /\ page' = page
    BY AnswerIs
  <1>2. /\ table \in Seq(Entries) /\ got \in Seq(Entries) /\ snapshot \in Seq(Entries)
        /\ pc = "reading" /\ removed \in Nat
        /\ UNCHANGED <<store, table, pageSize, snapshot, inserted, removed, stayed>>
    BY DEF PageInv, WalkTyped, Answer
  <1>3. n \in Nat /\ Len(got') \in Nat /\ Len(t) \in Nat /\ pageSize \in Nat
        /\ Len(snapshot) \in Nat /\ Len(table) \in Nat
    BY <1>1, <1>2, SensibleSize
  <1>4. Extends(got', got, t)
    BY <1>1, <1>3 DEF Extends
  <1>5. /\ NoDuplicates(got) /\ Behind(table, got, removed) /\ Behind(snapshot, got, missing)
        /\ Shrunk(snapshot, table)
        /\ stayed \subseteq Members(table) /\ stayed \subseteq Members(snapshot)
    BY <1>2 DEF RemovalInv
  <1>6. missing \in Nat /\ missing <= removed
    BY <1>2, <1>3, <1>5 DEF Behind, Shrunk
  <1>7. PICK m \in Nat : m <= removed /\ Behind(t, got, m) /\ stayed \subseteq Members(t)
    <2>1. CASE t = table
      BY <1>2, <1>5, <2>1
    <2>2. CASE t = snapshot
      BY <1>5, <1>6, <2>2
    <2>3. QED
      BY <1>1, <2>1, <2>2
  <1> HIDE DEF n, missing
  <1>8. Behind(t, got', m)
    BY <1>1, <1>2, <1>4, <1>7, BehindSame
  <1>9. NoDuplicates(got')
    BY <1>1, <1>2, <1>4, <1>5, <1>7, ExtendedIsNew DEF Behind
  <1>10. Behind(table, got', removed)
    <2>1. CASE t = table
      BY <1>1, <1>2, <1>4, <1>5, <2>1, BehindSame
    <2>2. CASE t = snapshot
      BY <1>1, <1>2, <1>4, <1>5, <2>2, BehindShrunk DEF missing
    <2>3. QED
      BY <1>1, <2>1, <2>2
  <1>11. ASSUME pc' = "done" PROVE Cardinality(stayed \ Members(got')) <= removed
    <2>1. Len(t) <= Len(got')
      BY <1>1, <1>3, <1>11
    <2>2. ASSUME NEW x \in stayed \ Members(got') PROVE x \in Missed(t, got')
      <3>1. PICK i \in 1..Len(t) : t[i] = x
        BY <1>1, <1>7, <2>2, MembersAre
      <3>2. i <= Len(got')
        BY <1>3, <2>1
      <3>3. x \in Entries
        BY <1>1, <3>1
      <3>4. QED
        BY <2>2, <3>1, <3>2, <3>3 DEF Missed
    <2>3. Cardinality(Missed(t, got')) <= m
      BY <1>8 DEF Behind
    <2>4. Cardinality(stayed \ Members(got')) <= m
      BY <2>2, <2>3, MissedIsFinite, MissesLess
    <2>5. Cardinality(stayed \ Members(got')) \in Nat
      <3>1. IsFiniteSet(stayed \ Members(got'))
        BY <2>2, MissedIsFinite, FS_Subset
      <3>2. QED
        BY <3>1, FS_CardinalityType
    <2>6. QED
      BY <1>2, <1>7, <2>4, <2>5
  <1>12. pc' # "reading"
    BY <1>1
  <1>13. QED
    BY <1>2, <1>5, <1>9, <1>10, <1>11, <1>12 DEF RemovalInv

LEMMA RemovalDelete ==
  ASSUME Sensible, PageInv, RemovalInv, Delete, inserted = 0
  PROVE  RemovalInv'
  <1>1. PICK p \in DOMAIN table :
          /\ table' = SubSeq(table, 1, p - 1) \o SubSeq(table, p + 1, Len(table))
          /\ stayed' = stayed \ {table[p]}
    BY DEF Delete
  <1>2. /\ table \in Seq(Entries) /\ got \in Seq(Entries) /\ snapshot \in Seq(Entries)
        /\ removed \in Nat /\ pc \in {"ask", "reading"} /\ removed' = removed + 1
        /\ UNCHANGED <<pageSize, pc, snapshot, got, inserted>>
    BY DEF PageInv, WalkTyped, Delete, MayChange
  <1>3. table' \in Seq(Entries) /\ Without(table', table, p)
    BY <1>1, <1>2, DeletedIs, Zenon DEF Without
  <1>4. p \in 1..Len(table) /\ Len(table) \in Nat /\ Len(table') = Len(table) - 1
        /\ Len(snapshot) \in Nat
    BY <1>1, <1>2, <1>3 DEF Without
  <1>5. NoDuplicates(got) /\ Behind(table, got, removed) /\ stayed \subseteq Members(table)
    BY <1>2 DEF RemovalInv
  <1>6. Behind(table', got, removed')
    BY <1>2, <1>3, <1>4, <1>5, BehindDeleted
  <1>7. ASSUME NEW x \in stayed' PROVE x \in Members(table')
    <2>1. PICK i \in 1..Len(table) : table[i] = x /\ i # p
      BY <1>1, <1>2, <1>5, <1>7, MembersAre
    <2>2. \A k \in 1..Len(table') : table'[k] \in Members(table')
      BY <1>3, MembersAre
    <2>3. CASE i < p
      <3>1. i \in 1..Len(table') /\ table'[i] = table[i]
        BY <1>4, <1>3, <2>3 DEF Without
      <3>2. QED
        BY <2>1, <2>2, <3>1
    <2>4. CASE ~(i < p)
      <3>1. i - 1 \in 1..Len(table') /\ ~(i - 1 < p) /\ (i - 1) + 1 = i
        BY <1>4, <2>1, <2>4
      <3>2. table'[i - 1] = table[i]
        BY <1>3, <3>1 DEF Without
      <3>3. QED
        BY <2>1, <2>2, <3>1, <3>2
    <2>5. QED
      BY <2>3, <2>4
  <1>8. ASSUME pc = "reading"
        PROVE  /\ Behind(snapshot, got, removed' - (Len(snapshot) - Len(table')))
               /\ stayed' \subseteq Members(snapshot) /\ Shrunk(snapshot, table')
    <2>1. /\ Behind(snapshot, got, removed - (Len(snapshot) - Len(table)))
          /\ stayed \subseteq Members(snapshot) /\ Shrunk(snapshot, table)
      BY <1>8 DEF RemovalInv
    <2>2. removed' - (Len(snapshot) - Len(table')) = removed - (Len(snapshot) - Len(table))
      BY <1>2, <1>4
    <2>3. Shrunk(snapshot, table')
      BY <1>2, <1>3, <1>4, <2>1, ShrunkDeleted
    <2>4. QED
      BY <1>1, <2>1, <2>2, <2>3
  <1>9. QED
    BY <1>2, <1>5, <1>6, <1>7, <1>8 DEF RemovalInv

LEMMA RemovalNext ==
  PageInv /\ RemovalInv /\ [WalkNext]_walkVars => RemovalInv'
  <1> SUFFICES ASSUME PageInv, RemovalInv, [WalkNext]_walkVars, Sensible', inserted' = 0
               PROVE  RemovalInv'
    BY DEF RemovalInv
  <1>1. Sensible
    BY SameSize DEF Sensible
  <1>2. inserted \in Nat
    BY <1>1 DEF PageInv, WalkTyped
  <1>3. ~Insert /\ inserted = 0
    BY <1>2, WalkSteps DEF Ask, Answer, Fail, Insert, Delete, walkVars
  <1>4. CASE Fail
    BY <1>1, <1>3, <1>4 DEF Fail, RemovalInv, Sensible
  <1>5. CASE UNCHANGED walkVars
    BY <1>1, <1>3, <1>5 DEF walkVars, RemovalInv, Sensible
  <1>6. QED
    BY <1>1, <1>3, <1>4, <1>5, WalkSteps, RemovalAsk, RemovalAnswer, RemovalDelete

\* Without insertions a client gets nothing twice and misses of what stays no more than
\* there were removals, between the pages and during an iteration, for any sizes of pages
\* and ints of any width.
THEOREM RemovalsCostLittle == WalkSpec => []RemovalsCostOneEach
  <1>1. WalkInit => PageInv /\ RemovalInv
    BY PageInit, RemovalInit
  <1>2. PageInv /\ RemovalInv /\ [WalkNext]_walkVars => (PageInv /\ RemovalInv)'
    BY PageNext, RemovalNext
  <1>3. PageInv /\ RemovalInv => RemovalsCostOneEach
    <2> SUFFICES ASSUME PageInv, RemovalInv, Sensible, inserted = 0
                 PROVE  /\ \A i, j \in DOMAIN got : got[i] = got[j] => i = j
                        /\ pc = "done" => Cardinality(stayed \ Members(got)) <= removed
      BY DEF RemovalsCostOneEach
    <2>1. DOMAIN got = 1..Len(got)
      BY DEF PageInv, WalkTyped
    <2>2. QED
      BY <2>1 DEF RemovalInv, NoDuplicates
  <1>4. QED
    BY <1>1, <1>2, <1>3, PTL DEF WalkSpec
===============================================================================
