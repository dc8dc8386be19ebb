SPECIFICATION FairSpec
CONSTANTS
    c1 = c1
    a1 = a1
    a2 = a2
    SyncCalls = {c1}
    AsyncCalls = {a1, a2}
    DoneCap = 1
    MaxAnswers <- MCMaxAnswers
    Receive = Receive
    None = None
INVARIANTS DoneOnce NoCrossedReplies NoOrphan StrongInv
PROPERTIES LateWriteOnlyAfterTimeout CallsReturn LostConnectionDrains
    ImplementsRpcCalls
CHECK_DEADLOCK FALSE
