------------------------ MODULE MemResourceRepository ------------------------
(***************************************************************************)
(* lib-common's in-memory repository, the store of the AM, CM and QM       *)
(* servers.  A repository is a map from service provider to a plain,       *)
(* unsynchronised HashMap from identifier to resource.  Every method       *)
(* treats a missing service provider like one without resources, so the    *)
(* store is one function from keys (a service provider and an identifier)  *)
(* to contents, Absent where there is no entry.                            *)
(*                                                                         *)
(* The inner HashMaps are read and written by all servlet threads at once. *)
(* What java.util.HashMap does then is left open by its contract; the      *)
(* outcomes of its implementation are named here:                          *)
(*   - a lookup that overlaps an insertion or a removal can miss any key   *)
(*     (a new table is published before the entries are moved to it);      *)
(*   - insertions and removals that overlap can lose entries, each other's *)
(*     and older ones, and undo each other;                                *)
(*   - two removals of one key that overlap can both find its entry.       *)
(* UnsafeMaps switches these outcomes on: an insertion or a removal is     *)
(* then a start and an end, and the modules that use the repository keep   *)
(* the ones under way.  Without them each call on the map is atomic, which *)
(* is what a ConcurrentHashMap would give.                                 *)
(***************************************************************************)
CONSTANTS Absent,      \* the "null" of Map.get
          UnsafeMaps   \* TRUE: racing calls on a HashMap may lose or miss entries

(***************************************************************************)
(* What hasResource and getResource may find under key, and deleteResource *)
(* when it starts to look for what it removes: "busy" says that another    *)
(* thread is changing the same HashMap.                                    *)
(***************************************************************************)
Lookups(m, key, busy) ==
    {m[key]} \cup (IF UnsafeMaps /\ busy THEN {Absent} ELSE {})

\* m and what is left of it when entries of the keys in "keys" get lost.
Remains(m, keys) ==
    {[k \in DOMAIN m |-> IF k \in lost THEN Absent ELSE m[k]] : lost \in SUBSET keys}

(***************************************************************************)
(* addResource, and the put of updateResource: the maps that may result    *)
(* when the put returns.  "keys" are the keys of the same HashMap.         *)
(***************************************************************************)
Stores(m, key, c, keys, raced) ==
    LET stored == [m EXCEPT ![key] = c] IN
    IF UnsafeMaps /\ raced THEN Remains(stored, keys) ELSE {stored}

(***************************************************************************)
(* deleteResource: the maps that may result when Map.remove returns.       *)
(***************************************************************************)
Removes(m, key, keys, raced) ==
    IF UnsafeMaps /\ raced THEN Remains(m, keys) ELSE {[m EXCEPT ![key] = Absent]}
=============================================================================
