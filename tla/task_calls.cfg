SPECIFICATION Spec
CONSTANTS
    Employees = {m1, e1}
    Managers = {m1}
    Departments = {d1}
    Projects = {p1}
    Tasks = {t1}
    Titles = {x}
    Sessions = {s1, s2}
    Absent = Absent
    MaxWrites = 2
SYMMETRY Symmetry
INVARIANTS TypeOK HistoryConnects AssigneesAreMembers
PROPERTY ImplementsTaskLedger
CHECK_DEADLOCK FALSE
