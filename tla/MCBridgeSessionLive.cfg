SPECIFICATION FairSpec
CONSTANTS
    MaxId = 2
    Cap = 2
    Increment = 1
    Faults = {"appExits", "latchFails"}
PROPERTIES
    EveryCommandReturns
    ThePluginServes
