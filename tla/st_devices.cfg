\* One connection, a reaper beside its reader, a closer, and an output that goes
\* and comes back while the peer opens speaker, microphone and other streams and
\* the user changes the mode.
CONSTANTS
    c1 = c1  c2 = c2  p1 = p1  i1 = i1  i2 = i2
    o1 = o1 o2 = o2  r1 = r1  u1 = u1  setter = setter  watcher = watcher
    Conns = {c1}
    Peers = {p1}
    PeerOf <- OnePeer
    Ids = {i1}
    Openers = {}
    Reapers = {r1}
    Closers = {u1}
    Setter = setter
    Watcher = watcher
    Offered <- OfferDevices
    Switchable = {"share", "A"}
    Flaky = {"out"}
    MaxPerConn = 1
    MaxTotal = 1
    MaxEpoch = 2
    None = None
SPECIFICATION Spec
INVARIANTS
    MissingEndpointServesNobody
