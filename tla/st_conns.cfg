\* Two connections of one peer, whose readers open and tear down, and two openers
\* of ours: registration, replacement, claims, caps, and that all of it ends.
CONSTANTS
    c1 = c1  c2 = c2  p1 = p1  i1 = i1  i2 = i2
    o1 = o1 o2 = o2  r1 = r1  u1 = u1  setter = setter  watcher = watcher
    Conns = {c1, c2}
    Peers = {p1}
    PeerOf <- OnePeer
    Ids = {i1, i2}
    Openers = {o1, o2}
    Reapers = {}
    Closers = {}
    Setter = setter
    Watcher = watcher
    Offered <- OfferReceive
    Switchable = {}
    Flaky = {}
    MaxPerConn = 1
    MaxTotal = 2
    MaxEpoch = 0
    None = None
SPECIFICATION Spec
INVARIANTS
    ClaimsAreHeld
    StreamCaps
    CommittedIsRoutable
    NoMediaLeak
    NoOrphanSession
PROPERTIES
    ImplementsRegistry
    ImplementsPool
    ClaimsAreReleased
    DeadConnsVanish
