--------------------------- MODULE UntrackedHandlers ---------------------------
(***************************************************************************)
(* The resource handlers of a server without a tracked resource set, CM    *)
(* and QM: the last access to the repository decides about the answer.     *)
(* The two servers differ in the way their delegates look a resource up,   *)
(* which is left to their modules; what comes after is the same.           *)
(***************************************************************************)
EXTENDS RestHandlers

CONSTANTS Repositories,  \* one set of URIs for each repository of the delegate
          UnsafeMaps     \* see MemResourceRepository

ASSUME UntrackedAssumption ==
    /\ Uris = UNION Repositories
    /\ \A R, S \in Repositories : R # S => R \cap S = {}
    /\ UnsafeMaps \in BOOLEAN

VARIABLE raced  \* the puts and removals that overlap another change of their HashMap

vars == <<resources, pc, call, seen, overwrote, status, raced>>

Repository == INSTANCE MemResourceRepository

\* What is stored in the same HashMap, and the puts and removals under way in it.
Siblings(u) == UNION {R \in Repositories : u \in R}
Changing(u) == {q \in Requests : pc[q] \in {"insert", "unlink"} /\ call[q].uri \in Siblings(u)}
Busy(u) == Changing(u) # {}
RacedWith(r, u) == IF Busy(u) THEN raced \cup {r} \cup Changing(u) ELSE raced
Found(u) == Repository!Lookups(resources, u, Busy(u))

Init == RestInit /\ raced = {}
-----------------------------------------------------------------------------
\* delegate.updateX compares the URIs; null is dereferenced if the body has no resource.
CheckBody(r) == CASE call[r].input = "none" -> Answer(r, 500)
                  [] call[r].input = "bad" -> Answer(r, 400)
                  [] OTHER -> Goto(r, "update")

\* Mutant of AfterGet: the ETag is not compared.
AfterGetUnconditional(r, c) ==
    CASE call[r].method \in {"GET", "VIEW"} -> Present(r)
      [] call[r].method = "DELETE" -> Goto(r, "remove")
      [] OTHER -> CheckBody(r)

\* What a handler does with the resource it got.
AfterGet(r, c) ==
    CASE call[r].method \in {"GET", "VIEW"} -> Present(r)
      [] call[r].method = "DELETE" -> Goto(r, "remove")
      [] OTHER -> IF call[r].ifMatch \notin {NoETag, calculateETag(c)} THEN Answer(r, 412)
                  ELSE CheckBody(r)

\* repository.getResource; "missing" is what becomes of its NoSuchElementException.
GetResource(r, missing) ==
    /\ pc[r] = "get"
    /\ \E c \in Found(call[r].uri) :
          /\ seen' = [seen EXCEPT ![r] = c]
          /\ IF c = Absent THEN Answer(r, missing) ELSE AfterGet(r, c)
    /\ UNCHANGED <<resources, call, overwrote, raced>>

\* Mutant of UpdateResource: an update of what is not there is passed over.
UpdateResourceSilently(r) ==
    /\ pc[r] = "update"
    /\ \E c \in Found(call[r].uri) : IF c = Absent THEN Answer(r, 200) ELSE Goto(r, "put")
    /\ UNCHANGED <<resources, call, seen, overwrote, raced>>

\* repository.updateResource looks the resource up once more.
UpdateResource(r) ==
    /\ pc[r] = "update"
    /\ \E c \in Found(call[r].uri) : IF c = Absent THEN Answer(r, 400) ELSE Goto(r, "put")
    /\ UNCHANGED <<resources, call, seen, overwrote, raced>>

AnswerPut(r) == Answer(r, IF call[r].method = "POST" THEN 201 ELSE 200)

\* Mutant of Put: the resource goes into a map that nobody reads.
PutElsewhere(r) ==
    /\ pc[r] = "put"
    /\ AnswerPut(r)
    /\ UNCHANGED <<resources, call, seen, overwrote, raced>>

\* The put of addResource (POST) and of updateResource (PUT).
Put(r) ==
    LET u == call[r].uri IN
    /\ pc[r] = "put"
    /\ ~UnsafeMaps \/ (resources[u] # Absent /\ ~Busy(u))
    /\ resources' \in Repository!Stores(resources, u, r, Siblings(u), FALSE)
    /\ overwrote' = [overwrote EXCEPT ![r] = resources[u]]
    /\ AnswerPut(r)
    /\ UNCHANGED <<call, seen, raced>>

\* Where a put inserts an entry, or another one is doing so, it takes a while.
PutStarts(r) ==
    LET u == call[r].uri IN
    /\ pc[r] = "put"
    /\ UnsafeMaps /\ (resources[u] = Absent \/ Busy(u))
    /\ raced' = RacedWith(r, u)
    /\ Goto(r, "insert")
    /\ UNCHANGED <<resources, call, seen, overwrote>>

PutEnds(r) ==
    LET u == call[r].uri IN
    /\ pc[r] = "insert"
    /\ resources' \in Repository!Stores(resources, u, r, Siblings(u), r \in raced)
    /\ overwrote' = [overwrote EXCEPT ![r] = resources[u]]
    /\ raced' = raced \ {r}
    /\ AnswerPut(r)
    /\ UNCHANGED <<call, seen>>

\* Mutant of Remove: what Map.remove returned is not looked at.
RemoveUnchecked(r) ==
    LET u == call[r].uri IN
    /\ pc[r] = "remove" /\ ~UnsafeMaps
    /\ resources' \in Repository!Removes(resources, u, Siblings(u), FALSE)
    /\ Answer(r, 200)
    /\ UNCHANGED <<call, seen, overwrote, raced>>

\* delegate.deleteX: NoSuchElementException, 500, if another DELETE was faster.
Remove(r) ==
    LET u == call[r].uri IN
    /\ pc[r] = "remove" /\ ~UnsafeMaps
    /\ resources' \in Repository!Removes(resources, u, Siblings(u), FALSE)
    /\ Answer(r, IF resources[u] = Absent THEN 500 ELSE 200)
    /\ UNCHANGED <<call, seen, overwrote, raced>>

\* Where maps race Map.remove takes a while: first it looks the entry up, ...
RemoveStarts(r) ==
    LET u == call[r].uri IN
    /\ pc[r] = "remove" /\ UnsafeMaps
    /\ \E c \in Found(u) :
          IF c = Absent THEN Answer(r, 500) /\ UNCHANGED raced
          ELSE Goto(r, "unlink") /\ raced' = RacedWith(r, u)
    /\ UNCHANGED <<resources, call, seen, overwrote>>

\* ... then it unlinks the entry, which another DELETE may have found as well.
RemoveEnds(r) ==
    LET u == call[r].uri IN
    /\ pc[r] = "unlink"
    /\ resources' \in Repository!Removes(resources, u, Siblings(u), r \in raced)
    /\ raced' = raced \ {r}
    /\ Answer(r, 200)
    /\ UNCHANGED <<call, seen, overwrote>>

\* A creation without a resource in the body: null is dereferenced.
Reject(r) ==
    /\ pc[r] = "reject"
    /\ Answer(r, 500)
    /\ UNCHANGED <<resources, call, seen, overwrote, raced>>

\* The steps after the lookup.
StepAfterGet(r) ==
    \/ UpdateResource(r) \/ Reject(r)
    \/ Put(r) \/ PutStarts(r) \/ PutEnds(r) \/ Remove(r) \/ RemoveStarts(r) \/ RemoveEnds(r)
-----------------------------------------------------------------------------
Succeeded(methods, u) ==
    {r \in Requests : status[r] \in Success /\ call[r].method \in methods /\ call[r].uri = u}

\* What is stored was sent by a POST or PUT answered with success.
StoredBySuccess == StoredBySuccessOf({})

\* Once created, a resource is there until a DELETE that succeeds removes it.
KeptUntilDeleted ==
    \A u \in Uris : u \in Seeded \/ Succeeded({"POST"}, u) # {} =>
        resources[u] # Absent \/ Succeeded({"DELETE"}, u) # {}

\* As many DELETEs succeed as there is content to remove: of two DELETEs of one
\* resource that run at the same time, one is answered with an error.
DeletedOnce ==
    \A u \in Uris :
        Cardinality(Succeeded({"DELETE"}, u)) + (IF resources[u] = Absent THEN 0 ELSE 1)
            <= Cardinality(Succeeded({"POST", "PUT"}, u)) + (IF u \in Seeded THEN 1 ELSE 0)

\* Failures that are not about the input: a read that found nothing and yet is a 500
\* (one that found its resource may fail to present it), a DELETE that is a 500, a PUT
\* of a resource that is a 500, or a 400 though the resource has the right URI.
FailsOddly(r) ==
    \/ call[r].method \in {"GET", "VIEW"} /\ status[r] = 500 /\ seen[r] = Absent
    \/ call[r].method = "DELETE" /\ status[r] = 500
    \/ call[r].method = "PUT" /\ call[r].input # "none" /\ status[r] = 500
    \/ call[r].method = "PUT" /\ call[r].input = "good" /\ status[r] = 400

\* A request about one resource only fails in such a way if a DELETE of the resource
\* succeeded while it was running, or another request changed, or set out to change,
\* the same unsynchronised HashMap meanwhile.
FailsOnlyInARaceFor(us) ==
    \A r \in Requests :
        pc[r] = "done" /\ call[r].uri \in us /\ FailsOddly(r) =>
            \E q \in Requests \ (call[r].after \cup {r}) :
               \/ q \in Succeeded({"DELETE"}, call[r].uri)
               \/ /\ UnsafeMaps /\ pc[q] # "new"
                  /\ call[q].method \in Changes
                  /\ call[q].uri \in Siblings(call[r].uri)
===============================================================================
