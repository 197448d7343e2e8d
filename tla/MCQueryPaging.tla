---------------------------- MODULE MCQueryPaging ----------------------------
EXTENDS QueryPaging

CONSTANTS a, b, c, d, e

\* The ints have three bits, and these are all of them.  The third page of two begins
\* beyond them, and a store with all entries has such a page.
AllSizes == -4..3
McEntries == {a, b, c, d, e}

\* The entries are alike: it does not matter which are there at first, in which order.
McInit ==
    /\ table \in {SubSeq(<<a, b, c, d, e>>, 1, n) : n \in 0..Cardinality(McEntries)}
    /\ WalkInit

McSpec == McInit /\ [][WalkNext]_walkVars /\ WF_walkVars(Query) /\ WF_walkVars(Answer)
===============================================================================
