------------------------------ MODULE MCQmServer ------------------------------
EXTENDS QmServer, TLC

\* Requests are interchangeable until they come in.
Symmetry == Permutations(Requests)
===============================================================================
