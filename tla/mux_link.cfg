CONSTANTS
    MaxOut = 3
    MaxMedia = 2
    MaxInbox = 2
    MaxMessage = 2
    Faults = 1
SPECIFICATION FairSpec
INVARIANTS
    NoLostWakeup
PROPERTIES
    ControlGoesOut
    LinkDiesWhole
CHECK_DEADLOCK FALSE
