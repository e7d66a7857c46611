SPECIFICATION Spec
CONSTANTS
    OneUser = u
    Users <- MCUsers
    Groups = {g}
    SIDs = {a, b}
    SidOwner <- MCSidOwner
    NoSid = NoSid
    BadSid = BadSid
    Logins = {l1, l2}
    Tokens = {t}
    Handlers = {h1, h2}
    NotSeen = NotSeen
    MaxAge = 1
    Skew = 1
    Drifts = {0, 1, 2}
    Lifetimes = {1}
    MaxTime = 4
SYMMETRY Symmetry
INVARIANT OnlyServedAreReplays
INVARIANT RevokedWereEnded
INVARIANT LoggedOutIsOut
PROPERTY ReplayRefused
