SPECIFICATION LoadSpec
CONSTANTS
    ServiceIds = {s1, s2}
    CategoryIds = {k1, k2}
    Slugs = {a, b, c}
    Visibilities = {staff, it}
    Public = Public
    NoSlug = NoSlug
    NoSnapshot = NoSnapshot
    MaxWrites = 2
SYMMETRY Symmetry
INVARIANT QuietLoadIsExact
INVARIANT NoCategoryWithoutService
INVARIANT RestrictedStaysHidden
