SPECIFICATION Spec
CONSTANTS
    Users = {u1, u2}
    Calls = {c1, c2}
    Projects = {p1}
    Operations = {"resolve", "scope", "change", "oauth", "pat", "disconnect"}
    MaxGrants = 3
    NoRow = NoRow
    NoScope = NoScope
    NoCall = NoCall
SYMMETRY Symmetry
INVARIANTS TypeOK LockedWhileRefreshing RefreshTokenUsable
    CredentialsStayWithTheirUser
CHECK_DEADLOCK FALSE
