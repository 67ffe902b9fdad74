---------------------------- MODULE MCDocuments ----------------------------
\* A paper with a PDF to download, and one imported from a file.
EXTENDS Documents
CONSTANTS s1, s2, p1, p2, eager
MCPaperOf == [s \in {s1, s2} |-> IF s = s1 THEN p1 ELSE p2]

\* A crash, a panic or an exit of the browser meets one saved paper.
OneAtFault ==
    used.faults > 0 => \A p, q \in PapersOf : paper[p].saved /\ paper[q].saved => p = q
=============================================================================
