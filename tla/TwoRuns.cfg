\* Two Runs one after the other, whose tasks and cancellations overlap; a crash.
SPECIFICATION Spec

CONSTANTS
    MaximumCycles = 2
    MaximumUnproductive = 2
    EndAt = 9
    MaxRuns = 2
    Children = {}
    Papers = {}
    MaxCancels = 1
    MaxControls = 0
    MaxExits = 0
    MaxCrashes = 1
    MaxEdits = 0
    MaxTime = 0

CONSTRAINT NoCalls

INVARIANTS
    ResearchRunTypeOK
    CyclesCounted
    NoTaskRefused

PROPERTIES
    TasksAdvance
    ImplementsLifecycle

CHECK_DEADLOCK FALSE
