SPECIFICATION Spec
CONSTANTS
    k1 = k1
    k2 = k2
    k3 = k3
    k4 = k4
    empty = empty
    short = short
    long = long
    huge = huge
    None = None
    Keys = {k1, k2, k3, k4}
    Values = {empty, short, long, huge}
    LenOf <- MCLenOf
    Limits = {0, 4}
INVARIANTS LruInv LeastRecentLast
 
