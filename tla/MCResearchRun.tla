--------------------------- MODULE MCResearchRun ---------------------------
EXTENDS ResearchRun

\* The agent calls no tool: the controller, its jobs and its transactions alone.
NoCalls == \A r \in Runs : call[r] = "none"

\* The researcher's controls and the schedule, or a child Search with a cancellation
\* and an exit: each with a crash, and not both in one behaviour.
Apart ==
    used.controls + now > 0 =>
        /\ NoCalls
        /\ \A c \in Children : child[c].status = "none"
        /\ used.exits + used.cancels = 0
=============================================================================
