---------------------------- MODULE MCSearchRuns ----------------------------
\* A search an agent started, which the researcher runs again.
EXTENDS SearchRuns
CONSTANTS s1, r1, r2, p1
MCSearchOf == [r \in {r1, r2} |-> s1]
=============================================================================
