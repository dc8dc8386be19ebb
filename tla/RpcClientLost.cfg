SPECIFICATION Spec
CONSTANTS
    c1 = c1
    a1 = a1
    a2 = a2
    SyncCalls = {c1}
    AsyncCalls = {a1}
    DoneCap = 1
    MaxAnswers <- MCMaxAnswers
    Receive = Receive
    None = None
INVARIANT NilErrorMeansReply
CHECK_DEADLOCK FALSE
