SPECIFICATION Spec
CONSTANTS
    s1 = s1
    s2 = s2
    s3 = s3
    k1 = k1
    Servers = {s1, s2, s3}
    Pools = {s1, s2}
    Keys = {k1}
    Replicas = 2
    HashSize = 3
    MaxAdd = 3
    None = None
SYMMETRY Symmetry
INVARIANTS NearestOwns SameServersSameOwner RingInv
PROPERTIES KeysMoveToNewServersOnly
