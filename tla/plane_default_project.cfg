SPECIFICATION Spec
CONSTANTS
    Users = {u1}
    Calls = {c1, c2}
    Projects = {p1, p2}
    Operations = {"scope", "change"}
    MaxGrants = 2
    NoRow = NoRow
    NoScope = NoScope
    NoCall = NoCall
SYMMETRY Symmetry
PROPERTY OnlyStaleDefaultsAreCleared
CHECK_DEADLOCK FALSE
