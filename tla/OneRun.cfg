\* One Run: with a child Search, cancelled, closed and crashed, or with the schedule,
\* the stop conditions and the controls of the Harness.
SPECIFICATION Spec

CONSTANTS
    c1 = c1
    MaximumCycles = 1
    MaximumUnproductive = 2
    EndAt = 2
    MaxRuns = 1
    Children = {c1}
    Papers = {}
    MaxCancels = 1
    MaxControls = 2
    MaxExits = 1
    MaxCrashes = 1
    MaxEdits = 0
    MaxTime = 2

CONSTRAINT Apart

INVARIANTS
    NoOrphanRun
    NoGrantOutlivesTask
    ChildrenSettled
    PauseHolds
    RunningHasRun

PROPERTIES
    ImplementsStore

\* the Runs end, and the researcher may start no more
CHECK_DEADLOCK FALSE
