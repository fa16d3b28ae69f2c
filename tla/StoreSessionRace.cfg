SPECIFICATION Spec
CONSTANTS
    u1 = u1
    u2 = u2
    Users = {u1, u2}
    Procs = {p1, p2}
    MaxToken = 3
    MaxFaults = 1
    Offline = {2}
    NoBucket = NoBucket
    FirstToken <- MCFirstToken
SYMMETRY Symmetry
INVARIANTS TypeOK CredentialIsolation Paired
PROPERTIES NeverRegresses
