SPECIFICATION MCSpec
CONSTANTS
    n1 = n1
    n2 = n2
    space = space
    plus = plus
    other = other
    t1 = t1
    t2 = t2
    None = None
    Nodes = {n1, n2}
    Keys = {space, plus, other}
    Present = {plus}
    Owner <- MCOwner
    Escaped <- MCEscaped
    Requests = {t1, t2}
    Relock = FALSE
CHECK_DEADLOCK FALSE
INVARIANTS OneLoader CallsForgotten RightAnswer IInv
PROPERTIES GetReturns
