SPECIFICATION FairSpec
CONSTANTS
    Tabs = {t1}
    MaxBuild = 3
    MaxOutages = 1
INVARIANT OneReloadPerClaim
INVARIANT LaterUpdatesAreAnnounced
PROPERTY RecoveryKeepsThePage
PROPERTY RecoveryLeavesTheBuild
PROPERTY ClickTakesEffect
PROPERTY RecoveryEnds
