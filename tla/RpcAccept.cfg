SPECIFICATION FairSpec
CONSTANTS
    c1 = c1
    c2 = c2
    h1 = h1
    Conns = {c1, c2}
    Https = {h1}
    None = None
CHECK_DEADLOCK FALSE
PROPERTY AcceptGoesOn
