\* A cancellation while Codex does not answer the start of the turn.
SPECIFICATION FairSpec

CONSTANTS
    MaximumCycles = 2
    MaximumUnproductive = 2
    EndAt = 9
    MaxRuns = 1
    Children = {}
    Papers = {}
    MaxCancels = 1
    MaxControls = 0
    MaxExits = 0
    MaxCrashes = 0
    MaxEdits = 0
    MaxTime = 0

CONSTRAINT NoCalls

PROPERTIES
    CanceledRunsEnd

CHECK_DEADLOCK FALSE
