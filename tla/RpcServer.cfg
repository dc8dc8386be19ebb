SPECIFICATION FairSpec
CONSTANTS
    r1 = r1
    r2 = r2
    Requests = {r1, r2}
    Loop = Loop
    None = None
CHECK_DEADLOCK FALSE
INVARIANTS OneWriter AnswerBound FailureReported ClosesAfterHandlers IInv
PROPERTIES ConnectionEnds
