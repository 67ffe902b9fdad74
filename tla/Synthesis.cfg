\* One Run that adds and reads a paper, against an edit of the researcher and a crash.
SPECIFICATION FairSpec

CONSTANTS
    p1 = p1
    MaximumCycles = 2
    MaximumUnproductive = 2
    EndAt = 9
    MaxRuns = 1
    Children = {}
    Papers = {p1}
    MaxCancels = 1
    MaxControls = 0
    MaxExits = 0
    MaxCrashes = 1
    MaxEdits = 1
    MaxTime = 0

INVARIANTS
    ReadyIsComplete
    CanceledRunIsSignalled

PROPERTIES
    RunsEnd
    ImplementsLifecycle

CHECK_DEADLOCK FALSE
