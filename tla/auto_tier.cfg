\* UDP reaches neither side, so that the detectors of both find it out, each in its
\* own time; a pin, a re-probe after an hour or a fault comes in between.
CONSTANTS
    l1 = l1  l2 = l2
    Links = {l1, l2}
    Blocked = {"A", "D"}
    Senders = {"D"}
    Setters = {"A"}
    Prefs = {"auto", "tier0"}
    Starts <- Unpinned
    Changes = {"set", "hour", "fault"}
    MaxUpsets = 1
    None = None
SPECIFICATION Spec
INVARIANTS
    ChoiceIsCurrent
PROPERTIES
    Settles
    AcceptorHears
CHECK_DEADLOCK FALSE
