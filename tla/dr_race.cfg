\* One dialler on each side, two faults: which connection survives a race, and
\* that the daemons settle on one. Linked daemons have nothing more to do.
CONSTANTS
    l1 = l1  l2 = l2  l3 = l3  d1 = d1  d2 = d2  e1 = e1  e2 = e2
    Links = {l1, l2, l3}
    Diallers = {d1, e1}
    SideOf <- OneEach
    MaxFaults = 2
    None = None
SPECIFICATION Spec
INVARIANTS
    OneIsLeft
PROPERTIES
    ImplementsRegistry
    Converges
    EstablishedStays
CHECK_DEADLOCK FALSE
