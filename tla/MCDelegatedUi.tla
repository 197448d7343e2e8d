------------------------------ MODULE MCDelegatedUi ------------------------------
EXTENDS DelegatedUi

CONSTANTS a, b, c
McItems == {a, b, c}
McQuoted == {b}

\* The message is no JSON, or it says what its label wants, here that c was selected.
McMisread == {<<>>, <<c>>}

\* With a limit of 1 the first two resources are fetched: the second search finds one
\* of its two matches in the larger store.
McTables == {<<a, b>>, <<c, a, b>>}
McTerms == {{a}, {a, b}}
McCreated == {a, b}
===============================================================================
