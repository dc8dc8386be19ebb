SPECIFICATION Spec
CONSTANTS
    u1 = u1
    u2 = u2
    s1 = s1
    s2 = s2
    Users = {u1, u2}
    Addrs = {s1, s2}
    None = None
SYMMETRY Symmetry
INVARIANTS FailedDialsVanish AvailableIsCached FirstErrorReported
