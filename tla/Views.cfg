\* Every address a link can have, one category, two entries in the history.
SPECIFICATION FairSpec
CONSTANTS
    Slugs = {"lehre"}
    MaxEntries = 2
INVARIANTS
    AddressNamesView
    ActiveFacetHasPill
    OneViewAtATime
PROPERTIES
    BackIsNotTrapped
    CorrectionsEnd
