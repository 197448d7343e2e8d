------------------------------- MODULE MCUiPreview -------------------------------
EXTENDS UiPreview

CONSTANTS a, b
McLinks == {a, b}
McServers == {"am", "rm", "cm", "qm"}

\* Pages with two links, with one, and clients that present links.
McListed == [s \in McServers |-> CASE s = "am" -> {a, b} [] s = "rm" -> {a} [] OTHER -> {}]

\* Reduced motion, the longest fading that does no harm, and the order of the real delays.
McFadeTimes == {0, 1, 3}

\* Complete, without document, without small preview, without large one.
Hints == {"oslc:hintHeight", "oslc:hintWidth"}
Whole == Hints \cup {"oslc:document"}
McCompacts == {[title |-> TRUE, small |-> Whole, large |-> Whole],
               [title |-> TRUE, small |-> Hints, large |-> {}],
               [title |-> TRUE, small |-> {}, large |-> Whole],
               [title |-> TRUE, small |-> Whole, large |-> {"absent"}]}
===============================================================================
