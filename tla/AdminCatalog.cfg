SPECIFICATION Spec
CONSTANTS
    Txs = {t1, t2}
    Services = {s1, s2}
    Categories = {k1, k2}
    Visibilities = {staff}
    Roles = {member, retired}
    Configured = {member}
    Public = Public
    Keep = Keep
    NoRequest = NoRequest
    MaxTx = 2
SYMMETRY Symmetry
CHECK_DEADLOCK FALSE
INVARIANT EveryServiceIsFiled
PROPERTY QuietWritesKeepPromises
PROPERTY PurgesAreReported
