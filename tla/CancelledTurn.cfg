\* A cancellation while the turn of the Run is being started.
SPECIFICATION Spec

CONSTANTS
    MaximumCycles = 2
    MaximumUnproductive = 2
    EndAt = 9
    MaxRuns = 1
    Children = {}
    Papers = {}
    MaxCancels = 1
    MaxControls = 0
    MaxExits = 0
    MaxCrashes = 0
    MaxEdits = 0
    MaxTime = 0

CONSTRAINT NoCalls

INVARIANTS
    CancelledTurnStopped

CHECK_DEADLOCK FALSE
