\* Two retry threads, so that an attempt and a replay, or two attempts, overlap;
\* disconnects, policy changes and the peer's own connects. The system can stop
\* here: see rc_stuck.
CONSTANTS
    i1 = i1  i2 = i2  c1 = c1  c2 = c2  c3 = c3  t1 = t1  t2 = t2  u1 = u1
    Intents = {i1}
    Conns = {c1, c2}
    Retriers = {t1, t2}
    Users = {u1}
    MaxCopies = 1
    Changes = {"policy", "inbound", "disconnect"}
    None = None
SYMMETRY ThreadSymmetry
SPECIFICATION Spec
INVARIANTS
    PlanIsArmed
    InFlightIsHeld
    LiveIsServed
PROPERTIES
    PlanConserved
CHECK_DEADLOCK FALSE
