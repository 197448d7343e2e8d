---------------------------- MODULE TrackedHandlers ----------------------------
(***************************************************************************)
(* The resource handlers of a server with a tracked resource set (TRS): AM *)
(* and RM.  The delegate writes an entry to the change log after every     *)
(* change of the store, before the request is answered.  The log itself is *)
(* Lyo's InmemPagedTrs, whose calls are taken to be atomic.                *)
(***************************************************************************)
EXTENDS RestHandlers

VARIABLE log  \* the TRS change log; "by" names the request that caused the
              \* entry and is not in the log of the server (history variable)

Kinds == {"Creation", "Modification", "Deletion"}
Events == [kind : Kinds, uri : Uris, by : Requests]

\* Mutant of Kind: creations are announced as modifications.
KindOfUpdate(method) == IF method \in {"POST", "PUT"} THEN "Modification" ELSE "Deletion"

Kind(method) == CASE method = "POST" -> "Creation"
                  [] method = "PUT" -> "Modification"
                  [] OTHER -> "Deletion"

Entry(r) == [kind |-> Kind(call[r].method), uri |-> call[r].uri, by |-> r]

\* trsEventHandler.onCreated, onModified or onDeleted, and the answer.
LogEvent(r) ==
    /\ pc[r] = "event"
    /\ log' = Append(log, Entry(r))
    /\ Answer(r, IF call[r].method = "POST" THEN 201 ELSE 200)
    /\ UNCHANGED <<resources, call, seen, overwrote>>

(***************************************************************************)
(* The TRS handler is built when the first request needs the delegate: its *)
(* base lists what the repositories hold then (they are static and outlive *)
(* the application), its change log is empty.                              *)
(***************************************************************************)
TrsBase == Seeded
TrsInit == log = <<>>
-----------------------------------------------------------------------------
Logged == {log[i] : i \in DOMAIN log}

\* The entries of changes already made: written, or about to be ("event" is the
\* step that writes it, "late" are the steps after the change, "event" included).
OwedBy(late) == {Entry(r) : r \in {q \in Requests : pc[q] \in late}}
ToldBy(late) == Logged \cup OwedBy(late)

TrackedBy(late, u) ==
    u \in TrsBase \/ \E e \in ToldBy(late) : e.kind = "Creation" /\ e.uri = u

\* A request is answered with success exactly if one entry of the change log
\* tells of it: no change that failed half way (a lost race, a failed If-Match)
\* is announced, none that was made is left out, none is announced twice.
AnswersMatchLog ==
    /\ \A i, j \in DOMAIN log : log[i].by = log[j].by => i = j
    /\ \A e \in Logged : e = Entry(e.by)
    /\ \A r \in Requests :
          (\E e \in Logged : e.by = r)
              <=> status[r] \in Success /\ call[r].method \in Changes

\* A TRS client knows of everything that is stored: it is in the base or its
\* creation is in the log, or will be as soon as the running requests are done.
StoredIsTrackedBy(late) == \A u \in Uris : resources[u] # Absent => TrackedBy(late, u)

\* Once created, a resource is there until a DELETE that succeeds removes it.
KeptUntilDeletedBy(late) ==
    \A u \in Uris : TrackedBy(late, u) =>
        \/ resources[u] # Absent
        \/ \E e \in ToldBy(late) : e.kind = "Deletion" /\ e.uri = u

\* When no request is running, the last entry about a resource says whether it is
\* there: a deletion if it is not, a creation or a modification if it is.
LogEndsAsStored ==
    Answered = Requests =>
        \A u \in Uris :
            LET about == SelectSeq(log, LAMBDA e : e.uri = u) IN
            about # <<>> =>
                (about[Len(about)].kind = "Deletion" <=> resources[u] = Absent)
===============================================================================
