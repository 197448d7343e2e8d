----------------------------- MODULE TrackedStore -----------------------------
(***************************************************************************)
(* What a server with a tracked resource set promises, whatever its        *)
(* handlers do in between: a store of resources, and a change log that     *)
(* tells of every change of the store exactly once, after the change.  The *)
(* log entry of a change is "owed" from the change on until it is written; *)
(* entries owed at the same time may be written in any order, so the order *)
(* of the log need not be the order of the changes.                        *)
(***************************************************************************)
EXTENDS Sequences, FiniteSets

CONSTANTS Uris,      \* what can be stored
          Writers,   \* those who write, each once; a writer names its content
          Base,      \* the URIs stored from the start
          BaseBy,    \* the content they have, and who is taken to have written it
          Absent,    \* no content
          Lossy      \* TRUE: changes made at the same time may lose entries

VARIABLES store,     \* store[u]: the writer of what is stored under u, or Absent
          owed,      \* the log entries still to be written
          log        \* the change log

tsVars == <<store, owed, log>>

Logged == {log[i] : i \in DOMAIN log}
Told == Logged \cup owed

\* u has been in the store: it is in the base or its creation has been recorded.
Tracked(u) == u \in Base \/ \E e \in Told : e.kind = "Creation" /\ e.uri = u

TSInit ==
    /\ store = [u \in Uris |-> IF u \in Base THEN BaseBy ELSE Absent]
    /\ owed = {}
    /\ log = <<>>

Owe(kind, u, w) ==
    /\ \A e \in Told : e.by # w
    /\ owed' = owed \cup {[kind |-> kind, uri |-> u, by |-> w]}
    /\ UNCHANGED log

\* A modification stores again what is tracked, also when it was just removed.
Write(kind, u, w) ==
    /\ kind = "Modification" => Tracked(u)
    /\ store' \in [Uris -> Writers \cup {BaseBy, Absent}]
    /\ store'[u] = w \/ (Lossy /\ store'[u] = Absent)
    /\ \A v \in Uris \ {u} : store'[v] = store[v] \/ (Lossy /\ store'[v] = Absent)
    /\ Owe(kind, u, w)

\* Only what is stored is removed; of removals made at the same time it is only known
\* that there was something to remove.
Remove(u, w) ==
    /\ IF Lossy THEN Tracked(u) ELSE store[u] # Absent
    /\ store' \in [Uris -> Writers \cup {BaseBy, Absent}]
    /\ store'[u] = Absent \/ (Lossy /\ store'[u] = store[u])
    /\ \A v \in Uris \ {u} : store'[v] = store[v] \/ (Lossy /\ store'[v] = Absent)
    /\ Owe("Deletion", u, w)

Tell(e) ==
    /\ e \in owed
    /\ owed' = owed \ {e}
    /\ log' = Append(log, e)
    /\ UNCHANGED store

TSNext ==
    \/ \E u \in Uris, w \in Writers :
          Write("Creation", u, w) \/ Write("Modification", u, w) \/ Remove(u, w)
    \/ \E e \in owed : Tell(e)

TSSpec == TSInit /\ [][TSNext]_tsVars
===============================================================================
