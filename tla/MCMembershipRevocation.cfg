SPECIFICATION MemberSpec
CONSTANTS
    l1 = l1
    l2 = l2
    c1 = c1
    c2 = c2
    Users = {"ann"}
    Roles = {"ADMIN", "MEMBER"}
    Lookups <- MCLookups
    Changes <- MCChanges
    Events = {}
    Nobody = Nobody
INVARIANT RevocationTakesEffect
SYMMETRY Symmetry
