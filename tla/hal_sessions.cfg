\* One device, two peers that may own it, four upsets: driver reports, lost
\* connections, the mode, forget_peer.
CONSTANTS
    p1 = p1  p2 = p2  x1 = x1  x2 = x2  d1 = d1
    Peers = {p1, p2}
    Ids = {x1, x2}
    Slots = {d1}
    None = None
    Upsets = 4
    MaxQueue = 2
SPECIFICATION FairSpec
INVARIANTS
    RecordedIsTenants
    OneOpening
    CloseIsOwn
PROPERTIES
    ImplementsDevice
    SessionsSettle
