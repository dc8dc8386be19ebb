SPECIFICATION Spec
CONSTANTS
    logger = logger
    Ordinary = {logger}
    Recovery = Recovery
    Handler = Handler
    MaxUses = 4
    MaxGroups = 2
    MaxChain = 5
INVARIANTS GroupsKeepTheirs EveryHandlerOnce FirstPanicIsRecovered IInv
