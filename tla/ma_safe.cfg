CONSTANTS
    l1 = l1  l2 = l2  s1 = s1  s2 = s2  t1 = t1  t2 = t2
    Links = {l1, l2}
    Socks = {s1, s2}
    Tickets = {t1, t2}
    Prefs <- Prefer
    MaxConns = 2
    MaxFaults = 1
    None = None
SPECIFICATION Spec
INVARIANTS
    OneServant
    PathIsServed
    AttachingHasDial
    ChannelOrder
PROPERTIES
    HeldWhileDialling
SYMMETRY AnyName
CHECK_DEADLOCK FALSE
