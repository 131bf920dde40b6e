CONSTANTS
    Profiles = {alice, bob}
    Threads = {t1, t2}
    Expires = {0, 2}
    MaxPending = 2
    MaxAsks = 5
    None = None
    alice = alice
    bob = bob
    t1 = t1
    t2 = t2
SPECIFICATION Spec
SYMMETRY Symmetry
INVARIANTS  ClaimsPending
CHECK_DEADLOCK FALSE
