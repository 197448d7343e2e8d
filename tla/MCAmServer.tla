------------------------------ MODULE MCAmServer ------------------------------
EXTENDS AmServer, TLC

\* Requests are interchangeable until they come in.
Symmetry == Permutations(Requests)
===============================================================================
