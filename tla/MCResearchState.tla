-------------------------- MODULE MCResearchState --------------------------
\* The researcher writes Findings with a quote of the first text, the agents and
\* the Runs syntheses too, on either entry.
EXTENDS ResearchState
CONSTANTS e1, e2, t1, t2, p1, q1, g1

Draft(status, t, premises, evidence) ==
    [status |-> status, text |-> t, premises |-> premises, evidence |-> evidence]

Finding == Draft("source_supported", t1, {}, {<<p1, 1>>})

OnFirst == Draft("agent_synthesis", t2, {e1}, {})
OnSecond == Draft("agent_synthesis", t1, {e2}, {})

MCDrafts == {Finding}

Put(d) == [op |-> "write", draft |-> d, life |-> "active"]
Review(life) == [op |-> "review", draft |-> Finding, life |-> life]

\* One change, or two entries made together.
MCBatches ==
    {[e \in {e1} |-> Put(OnSecond)], [e \in {e1} |-> Review("active")],
     [e \in {e1, e2} |-> IF e = e1 THEN Put(Finding) ELSE Put(OnFirst)]}

\* The agents ask before the second revision; the third is the researcher's or a Run's.
ThirdAlone ==
    head >= 2 => \A q \in Requests : request[q].preparing + request[q].prepared = 0
=============================================================================
