\* Two writes, by this admin or another, and two forms.
SPECIFICATION Spec
CONSTANTS
    Sections = {"services", "categories", "roles", "announcements"}
    Screens = {"services", "announcements"}
    MaxWrites = 2
    RoleOrder <- MCRoleOrder
    Services = {s1, s2}
    MaxReads = 2
    Slugs = {c1, c2, c3}
    Terms = {"A", "a"}
    Fold <- MCFold
    MaxForms = 2
SYMMETRY MCSymmetry
INVARIANTS
    LoadedListIsTheRoles
    RowsAreTheCategories
    OneRecordPerForm
    KeywordsAreMerged
