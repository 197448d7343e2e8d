------------------------------ MODULE QueryPaging ------------------------------
(***************************************************************************)
(* The query capability, the same in all servers: a client asks for page 0 *)
(* and follows oslc:nextPage as long as there is one, while other requests *)
(* insert and remove resources.  Nothing is kept on the server from one    *)
(* page to the next: each page is cut anew out of the map of the service   *)
(* provider, in the order in which the map is iterated: anyhow in the      *)
(* HashMaps of AM, CM and QM, by insertion in the LinkedHashMaps of RM.    *)
(***************************************************************************)
EXTENDS Integers, Sequences, FiniteSets

CONSTANTS Entries,     \* what can be stored
          PageSizes,   \* the values of oslc.pageSize, Java ints
          MaxInt,      \* Integer.MAX_VALUE
          MaxChanges   \* bound: insertions and removals in a behaviour

ASSUME PagingAssumption ==
    /\ IsFiniteSet(Entries)
    /\ MaxInt \in Nat \ {0} /\ MaxChanges \in Nat
    /\ PageSizes \subseteq -(MaxInt + 1)..MaxInt

Stores == {"HashMap", "LinkedHashMap", "none"}

VARIABLES
    store,      \* what the query that the client walks through is answered from
    table,      \* the resources in the order of iteration
    pageSize,   \* what the client asks for
    page,       \* the page it asks for next
    pc,         \* "ask", "reading" (the server iterates), "done" or "failed"
    snapshot,   \* the table when the server began to iterate
    got,        \* what the client has got, page after page
    inserted,   \* how many insertions there were; with "removed" a bounded counter
    removed,    \* how many removals there were
    stayed      \* the resources that have been there all the time (history variable)

walkVars == <<store, table, pageSize, page, pc, snapshot, got, inserted, removed, stayed>>

\* The value of a Java int expression.
Int32(n) == ((n + MaxInt + 1) % (2 * (MaxInt + 1))) - (MaxInt + 1)

LeastOf(a, b) == IF a < b THEN a ELSE b
Members(t) == {t[i] : i \in DOMAIN t}
InAnyOrder(S) == {t \in [1..Cardinality(S) -> S] : Members(t) = S}

WalkInit ==
    /\ store \in Stores
    /\ \E S \in SUBSET Entries :
          /\ store = "none" => S = {}
          /\ table \in InAnyOrder(S) /\ stayed = S
    /\ pageSize \in PageSizes /\ page = 0
    /\ pc = "ask" /\ snapshot = <<>> /\ got = <<>>
    /\ inserted = 0 /\ removed = 0
-----------------------------------------------------------------------------
(***************************************************************************)
(* fetchResourcePageForSP: skip page*pageSize, limit pageSize+1.           *)
(***************************************************************************)
\* Mutant of Skip: pages are counted from 1.
SkipFromOne(p, size) == Int32((p - 1) * size)

Skip(p, size) == Int32(p * size)
Limit(size) == Int32(size + 1)

fetchResourcePageForSP(t, p, size) ==
    SubSeq(t, Skip(p, size) + 1, LeastOf(Skip(p, size) + Limit(size), Len(t)))

\* hasLyoStorePagingPreciseLimit is false in all servers.
HasNextPage(fetched, size) == Len(fetched) > size

\* Mutant of Cut: the one resource too many is not cut off.
CutNothing(fetched, size) == fetched

\* What is left for the response: subList(0, pageSize) if there is a next page.
Cut(fetched, size) == IF HasNextPage(fetched, size) THEN SubSeq(fetched, 1, size) ELSE fetched

\* The queries that are answered.  For the others skip or limit throw an
\* IllegalArgumentException or subList does, as the size is negative.
Answerable(kind, p, size) ==
    /\ kind # "none" => Skip(p, size) >= 0 /\ Limit(size) >= 0
    /\ size >= 0
-----------------------------------------------------------------------------
\* The client asks for a page; the server begins to iterate.
Ask(kind) ==
    /\ pc = "ask" /\ store = kind
    /\ pc' = IF Answerable(kind, page, pageSize) THEN "reading" ELSE "failed"
    /\ snapshot' = table
    /\ UNCHANGED <<store, table, pageSize, page, got, inserted, removed, stayed>>

(***************************************************************************)
(* The query capabilities, each as RDF and as HTML; the queries of CM for  *)
(* anything but change requests are not implemented and find nothing.      *)
(***************************************************************************)
queryResources == Ask("HashMap")
queryLinkTypes == Ask("HashMap")
queryRequirements == Ask("LinkedHashMap")
queryRequirementCollections == Ask("LinkedHashMap")
queryChangeRequests == Ask("HashMap")
queryDefects == Ask("none")
queryTasks == Ask("none")
queryEnhancements == Ask("none")
queryReviewTasks == Ask("none")
queryChangeNotices == Ask("none")
queryTestCases == Ask("HashMap")
queryTestPlans == Ask("HashMap")
queryTestScripts == Ask("HashMap")
queryTestResults == Ask("HashMap")
queryTestExecutionRecords == Ask("HashMap")

Query ==
    \/ queryResources \/ queryLinkTypes
    \/ queryRequirements \/ queryRequirementCollections
    \/ queryChangeRequests \/ queryDefects \/ queryTasks \/ queryEnhancements
    \/ queryReviewTasks \/ queryChangeNotices
    \/ queryTestCases \/ queryTestPlans \/ queryTestScripts \/ queryTestResults
    \/ queryTestExecutionRecords

\* Mutant of Answer: the next link is set outside of the "if", on every page.
AnswerWithLink ==
    /\ pc = "reading"
    /\ IF store = "none" THEN UNCHANGED got
       ELSE \E t \in {snapshot, table} :
                got' = got \o Cut(fetchResourcePageForSP(t, page, pageSize), pageSize)
    /\ page' = Int32(page + 1) /\ pc' = "ask"
    /\ UNCHANGED <<store, table, pageSize, snapshot, inserted, removed, stayed>>

\* The server has collected the page, from the table as it was when it began or as
\* it is now: the iteration starts late, and what it checks is not synchronised.
Answer ==
    /\ pc = "reading"
    /\ \E t \in {snapshot, table} :
          LET fetched == fetchResourcePageForSP(t, page, pageSize) IN
          /\ got' = got \o Cut(fetched, pageSize)
          /\ IF HasNextPage(fetched, pageSize) THEN page' = Int32(page + 1) /\ pc' = "ask"
             ELSE pc' = "done" /\ UNCHANGED page
    /\ UNCHANGED <<store, table, pageSize, snapshot, inserted, removed, stayed>>

\* The iterator notices, ConcurrentModificationException, that the table has got
\* another structure, unless it is already past its last element.
Fail ==
    /\ pc = "reading" /\ table # snapshot
    /\ pc' = "failed"
    /\ UNCHANGED <<store, table, pageSize, page, snapshot, got, inserted, removed, stayed>>

MayChange ==
    /\ pc \in {"ask", "reading"} /\ store # "none"
    /\ inserted + removed < MaxChanges
    /\ UNCHANGED <<store, pageSize, page, pc, snapshot, got>>

\* Mutant of Insert: a HashMap in RM.
InsertUnordered ==
    /\ MayChange
    /\ \E c \in Entries \ Members(table) :
          table' \in InAnyOrder(Members(table) \cup {c})
    /\ inserted' = inserted + 1
    /\ UNCHANGED <<removed, stayed>>

\* A new entry is the last one of a LinkedHashMap.  In a HashMap it may be anywhere, as
\* the order follows the hash codes; if the map grows the others change places, too.
Insert ==
    /\ MayChange
    /\ \E c \in Entries \ Members(table) :
          IF store = "LinkedHashMap" THEN table' = Append(table, c)
          ELSE table' \in InAnyOrder(Members(table) \cup {c})
    /\ inserted' = inserted + 1
    /\ UNCHANGED <<removed, stayed>>

Delete ==
    /\ MayChange
    /\ \E i \in DOMAIN table :
          /\ table' = SubSeq(table, 1, i - 1) \o SubSeq(table, i + 1, Len(table))
          /\ stayed' = stayed \ {table[i]}
    /\ removed' = removed + 1
    /\ UNCHANGED inserted

WalkNext == Query \/ Answer \/ Fail \/ Insert \/ Delete

WalkSpec == WalkInit /\ [][WalkNext]_walkVars

\* The client goes on and the server answers; nobody needs to change anything.
WalkFairSpec == WalkSpec /\ WF_walkVars(Query) /\ WF_walkVars(Answer)
-----------------------------------------------------------------------------
(***************************************************************************)
(* Properties.                                                             *)
(***************************************************************************)
\* Sizes for which pageSize+1 is an int.
Sensible == pageSize \in 1..(MaxInt - 1)

\* Removals between the pages cost at most one resource each that stays but is on
\* no page; without insertions nothing is on two pages.
RemovalsCostOneEach ==
    Sensible /\ inserted = 0 =>
        /\ \A i, j \in DOMAIN got : got[i] = got[j] => i = j
        /\ pc = "done" => Cardinality(stayed \ Members(got)) <= removed

\* In RM insertions do no harm: as long as nothing is removed a client has got a
\* beginning of the table, and in the end all that was there from the start.
InsertionsAreSeenLast ==
    Sensible /\ store = "LinkedHashMap" /\ removed = 0 =>
        /\ got = SubSeq(table, 1, Len(got))
        /\ pc = "done" => stayed \subseteq Members(got)

\* The walk of a client ends, on a page without a next link or with an error, also when
\* the first resource of a page is beyond the ints.  A page size of 0 is another matter:
\* one resource is more than none, so an empty page has a next link, and the next one.
WalkEnds == pageSize # 0 => <>(pc \in {"done", "failed"})
===============================================================================
