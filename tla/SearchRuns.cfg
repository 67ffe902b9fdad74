\* An agent's search with a repeated start, run again by the researcher; one
\* restart; two rounds of at most three queries, of a budget of two.
SPECIFICATION FairSpec

CONSTANTS
    s1 = s1
    r1 = r1
    r2 = r2
    p1 = p1
    NoRun = NoRun
    NoJob = NoJob
    Jobs = {1, 2}
    Searches = {s1}
    Runs = {r1, r2}
    SearchOf <- MCSearchOf
    AgentRuns = {r1}
    Papers = {p1}
    MaxIterations = 2
    MaxProviderQueries = 2
    MaxLlmCalls = 3
    BaseQueries = 3
    ReAsks = 1
    BatchCalls = 2
    TargetCount = 1
    MaxCalls = 1
    MaxRestarts = 1

INVARIANTS
    TypeOK
    BudgetKept
    
    OneTaskPerSearch
    ReadyIsReadable
    

PROPERTIES
    SearchesAdvance
    

\* the clients may stop asking
CHECK_DEADLOCK FALSE
