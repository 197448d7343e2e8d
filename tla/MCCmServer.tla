------------------------------ MODULE MCCmServer ------------------------------
EXTENDS CmServer, TLC

\* Requests are interchangeable until they come in.
Symmetry == Permutations(Requests)
===============================================================================
