------------------------------ MODULE MCPopulator ------------------------------
EXTENDS Populator

CONSTANTS f, g, e

\* Two service providers in the servers that the links go between, else one.
McFactories == [s \in Servers |-> IF s \in {"rm", "cm"} THEN {f, g} ELSE {f}]

\* Each of the links, and the servers that are not linked.
McInits == {{"rm", "cm"}, {"cm", "qm"}, {"am"}}

\* A resource of each kind that is linked, two of one that is not.
McCount == [k \in Kinds |-> CASE k \in {"Requirement", "ChangeRequest", "TestPlan"} -> 1
                              [] k = "LinkType" -> 2
                              [] OTHER -> 0]
===============================================================================
