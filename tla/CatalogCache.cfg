SPECIFICATION FairSpec
CONSTANTS
    Callers = {c1, c2}
    NoCaller = NoCaller
    NoSnap = NoSnap
    TTL = 2
    MaxVersion = 1
PROPERTY ReadsNeverGoBack
PROPERTY InvalidatedIsGone
PROPERTY GetReturns
PROPERTY ConvergesToDatabase
