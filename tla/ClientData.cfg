SPECIFICATION FairSpec
CONSTANTS
    N = 2
    MaxWrites = 2
    MaxPatches = 1
INVARIANT QuietShowsStored
INVARIANT QuietMeIsStored
INVARIANT NoFetchOutlivesAClick
PROPERTY OrdersApplyInTurn
PROPERTY ChangesEnd
CHECK_DEADLOCK FALSE
