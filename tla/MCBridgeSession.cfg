SPECIFICATION Spec
CONSTANTS
    MaxId = 3
    Cap = 3
    Increment = 1
    Faults = {"fmStops"}
INVARIANTS
    CaptureOwnDump
    AppliedIsAccounted
    IndexMatchesSnapshot
    HandOff
PROPERTIES
    BoostsAreNotStale
    KeepsContract
