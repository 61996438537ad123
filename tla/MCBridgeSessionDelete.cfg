SPECIFICATION Spec
CONSTANTS
    MaxId = 2
    Cap = 2
    Increment = 1
    Faults = {"deleteFails"}
INVARIANT
    RefusedNotApplied
