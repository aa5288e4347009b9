\* A disconnect while an attempt connects: the attempt waits for its own lock.
CONSTANTS
    i1 = i1  i2 = i2  c1 = c1  c2 = c2  c3 = c3  t1 = t1  t2 = t2  u1 = u1
    Intents = {i1}
    Conns = {c1, c2}
    Retriers = {t1}
    Users = {u1}
    MaxCopies = 1
    Changes = {"disconnect"}
    None = None
SPECIFICATION Spec
PROPERTIES
    DisarmedAttemptDrops
CHECK_DEADLOCK FALSE
