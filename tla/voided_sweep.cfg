\* One void, an overlap of two slices, two intervals of time, one failure.
CONSTANTS
    void1 = void1
    Voids = {void1}
    Overlap = 5
    Interval = 6
    Window = 7
    SliceMax = 4
    SliceMin = 1
    MaxStalls = 2
    Epoch <- FirstRun
    Horizon <- LastRun
    MaxFaults = 1
SPECIFICATION Spec
CHECK_DEADLOCK FALSE
INVARIANTS
    TypeOK
    NoVoidPassed
PROPERTIES
    ProgressKept
