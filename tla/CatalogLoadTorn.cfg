SPECIFICATION LoadSpec
CONSTANTS
    ServiceIds = {s1}
    CategoryIds = {k1, k2}
    Slugs = {a, b, c}
    Visibilities = {staff}
    Public = Public
    NoSlug = NoSlug
    NoSnapshot = NoSnapshot
    MaxWrites = 1
SYMMETRY Symmetry
INVARIANT NeverShownWhatWasHidden
