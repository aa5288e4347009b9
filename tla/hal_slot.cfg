\* One slot, two paired peers: pairings, the mode, IO, lost sessions, either
\* process restarting, two upsets in all.
CONSTANTS
    p1 = p1  p2 = p2
    Peers <- MCPeers
    Stores <- TwoPaired
    None = None
    NSlots = 1
    Upsets = 2
    MaxBinds = 2
    MaxEvents = 2
SPECIFICATION FairSpec
INVARIANTS
    OneOccupancy
PROPERTIES
    TablesAgree
