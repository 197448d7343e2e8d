----------------------------- MODULE RestHandlers -----------------------------
(***************************************************************************)
(* What the resource handlers of all four servers share: the code of their *)
(* web services is generated from one template.  Every request runs on a   *)
(* servlet thread of its own; nothing but the store is shared.  A request  *)
(* is a "process" that goes through a few steps, one for each access to    *)
(* the store, and ends with an HTTP status.                                *)
(*                                                                         *)
(* The content of a resource is named by the request that sent it: the     *)
(* delegates stamp every stored body with the current date, so two bodies  *)
(* differ unless they are equal and sent in the same millisecond, when it  *)
(* does not matter which of them is stored.                                *)
(***************************************************************************)
EXTENDS Naturals, Sequences, FiniteSets

CONSTANTS Requests,    \* the requests of a behaviour, each handled once
          Uris,        \* the URIs of all resources
          Seeded,      \* the URIs stored when the behaviour starts
          Seed,        \* their content
          Absent,      \* the "null" of Map.get
          NoETag,      \* no ETag, or no If-Match header
          NoCall       \* a request that has not come in

Contents == Requests \cup {Seed}

(***************************************************************************)
(* calculateETag: the digest of all triples of a resource, the dates       *)
(* included.  Equal contents have equal tags and (MD5 collisions aside)    *)
(* different contents different ones.                                      *)
(***************************************************************************)
calculateETag(c) == [md5 |-> c]
ETags == {calculateETag(c) : c \in Contents}

ASSUME RestAssumption ==
    /\ Seeded \subseteq Uris
    /\ Seed \notin Requests
    /\ Absent \notin Contents
    /\ NoETag \notin ETags

VARIABLES
    resources,  \* resources[u]: the content stored under u, or Absent
    pc,         \* pc[r]: what request r does next
    call,       \* call[r]: method and parameters of r
    seen,       \* seen[r]: the resource the handler of r was given
    overwrote,  \* overwrote[r]: what r's put replaced (history variable)
    status      \* status[r]: the HTTP status r was answered with, 0 before

restVars == <<resources, pc, call, seen, overwrote, status>>

\* "VIEW" is a GET of anything but the RDF representation, "FORM" the POST of the form
\* of a creation dialog, "SEARCH" and "HTMX" are the two forms of a search.
Methods == {"GET", "VIEW", "DELETE", "PUT", "POST", "FORM", "SEARCH", "HTMX"}
Changes == {"DELETE", "PUT", "POST"}
Success == {200, 201}
NoContent == 204
Failure == {400, 404, 412, 500}

\* What a handler only finds out about its input on the way.  The body of a PUT has a
\* resource with the URI of the request ("good"), one with another URI ("bad"), or none
\* at all; the terms of a search can be parsed ("good") or not ("bad").
Inputs == {"good", "bad", "none"}

\* "after" are the requests answered before the call came in (history variable).
Calls == [method : Methods, uri : Uris, ifMatch : ETags \cup {NoETag},
          input : Inputs, after : SUBSET Requests]

Answered == {r \in Requests : pc[r] = "done"}

RestInit ==
    /\ resources = [u \in Uris |-> IF u \in Seeded THEN Seed ELSE Absent]
    /\ pc = [r \in Requests |-> "new"]
    /\ call = [r \in Requests |-> NoCall]
    /\ seen = [r \in Requests |-> Absent]
    /\ overwrote = [r \in Requests |-> Absent]
    /\ status = [r \in Requests |-> 0]

Goto(r, step) ==
    /\ pc' = [pc EXCEPT ![r] = step]
    /\ UNCHANGED status

Answer(r, code) ==
    /\ pc' = [pc EXCEPT ![r] = "done"]
    /\ status' = [status EXCEPT ![r] = code]

\* A request comes in; "first" is the first step of its handler.
Receive(r, method, u, ifMatch, input, first) ==
    /\ pc[r] = "new"
    /\ call' = [call EXCEPT ![r] =
                  [method |-> method, uri |-> u, ifMatch |-> ifMatch,
                   input |-> input, after |-> Answered]]
    /\ Goto(r, first)
    /\ UNCHANGED <<resources, seen, overwrote>>

\* The tags a client can have got from an ETag header: of its POSTs and PUTs, and
\* of the resources it read as RDF.
KnownETags ==
    {calculateETag(Seed)}
        \cup {calculateETag(r) : r \in {q \in Answered :
                 status[q] \in Success /\ call[q].method \in {"POST", "PUT"}}}
        \cup {calculateETag(seen[r]) : r \in {q \in Answered :
                 status[q] = 200 /\ call[q].method = "GET"}}

ReceivePut(r, uris, first) ==
    \E u \in uris, ifMatch \in KnownETags \cup {NoETag}, input \in Inputs :
        Receive(r, "PUT", u, ifMatch, input, first)

\* Every other call: its parameters are a method and a URI.
ReceiveAny(r, method, uris, first) ==
    \E u \in uris : Receive(r, method, u, NoETag, "good", first)

\* A creation: the URI is made of the identifier in the body.  What cannot be stored
\* (no resource in the body, in RM also one without an identifier) is rejected.
ReceivePost(r, uris) == \E first \in {"put", "reject"} : ReceiveAny(r, "POST", uris, first)

\* A representation is built from a resource, which not every content allows: the
\* writer of the RDF, the page or the preview may fail.
Present(r) == Answer(r, 200) \/ Answer(r, 500)

\* The requests of the behaviour are used up.
Finished == Answered = Requests /\ UNCHANGED restVars
-----------------------------------------------------------------------------
RestTypeOK ==
    /\ resources \in [Uris -> Contents \cup {Absent}]
    /\ call \in [Requests -> Calls \cup {NoCall}]
    /\ \A r \in Requests : pc[r] # "new" => call[r] \in Calls
    /\ seen \in [Requests -> Contents \cup {Absent}]
    /\ overwrote \in [Requests -> Contents \cup {Absent}]
    /\ status \in [Requests -> {0, NoContent} \cup Success \cup Failure]
    /\ \A r \in Requests : (pc[r] = "done") <=> (status[r] # 0)

\* What is stored under u was sent to u by a POST or a PUT that succeeds ("late" are
\* the steps after its put): a request answered with an error, also one that failed
\* its If-Match, leaves nothing behind in the store.
StoredBySuccessOf(late) ==
    \A u \in Uris : resources[u] \in Requests =>
        LET w == resources[u] IN
        /\ pc[w] \in late \/ (pc[w] = "done" /\ status[w] \in Success)
        /\ call[w].uri = u /\ call[w].method \in {"POST", "PUT"}
        /\ call[w].ifMatch # NoETag => call[w].ifMatch = calculateETag(seen[w])

\* If-Match protects against every update the client could have known of: a
\* conditional PUT replaces another version than the one it names only if that
\* version was stored by a request not yet answered when the PUT came in (and it
\* brings back a deleted resource only if the DELETE was such a request).
IfMatchRespectsThePast ==
    \A r \in Requests :
        /\ status[r] = 200
        /\ call[r].method = "PUT"
        /\ call[r].ifMatch \notin {NoETag, calculateETag(overwrote[r])}
        => IF overwrote[r] = Absent
           THEN \E q \in Requests \ call[r].after :
                    /\ pc[q] = "event" \/ status[q] = 200
                    /\ call[q].uri = call[r].uri /\ call[q].method = "DELETE"
           ELSE overwrote[r] \in Requests \ call[r].after
===============================================================================
