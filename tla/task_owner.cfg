SPECIFICATION Spec
CONSTANTS
    Employees = {m1, e1}
    Managers = {m1}
    Departments = {}
    Projects = {p1}
    Tasks = {t1}
    Titles = {x}
    Sessions = {s1, s2}
    Absent = Absent
    MaxWrites = 3
SYMMETRY Symmetry
INVARIANT OwnersMoveTheirTasks
CHECK_DEADLOCK FALSE
