\* A stopped Harness is given a new enabled schedule while its Run ends.
SPECIFICATION Spec

CONSTANTS
    MaximumCycles = 2
    MaximumUnproductive = 2
    EndAt = 9
    MaxRuns = 1
    Children = {}
    Papers = {}
    MaxCancels = 0
    MaxControls = 2
    MaxExits = 0
    MaxCrashes = 0
    MaxEdits = 0
    MaxTime = 1

CONSTRAINT NoCalls

INVARIANTS
    StoppedHasReason

CHECK_DEADLOCK FALSE
