\* The cancellation of a second Run while the first one is being cleaned up.
SPECIFICATION Spec

CONSTANTS
    MaximumCycles = 2
    MaximumUnproductive = 2
    EndAt = 9
    MaxRuns = 2
    Children = {}
    Papers = {}
    MaxCancels = 1
    MaxControls = 0
    MaxExits = 0
    MaxCrashes = 0
    MaxEdits = 0
    MaxTime = 0

CONSTRAINT NoCalls

INVARIANTS
    CanceledRunIsSignalled

CHECK_DEADLOCK FALSE
