\* Two concurrent calls over two requests of one leave type.
SPECIFICATION ManagementSpec
CONSTANTS
  annual = annual
  june = june
  newYear = newYear
  Employees = {e1, e2}
  Managers = {e1, e2}
  LeaveTypes = {annual}
  RequiresBalance = {annual}
  Requests = {r1, r2}
  DayCounts = {2}
  StartDates = {newYear}
  YearWritten <- MCYearWritten
  YearReadBack <- MCYearReadBack
  Admins = {e1, e2}
  Allocated <- MCAllocated
  Absent = Absent
  Departments = {d1}
  Sessions = {s1, s2}
SYMMETRY MCSymmetry
INVARIANTS
  TypeOK
  LedgerBalanced
  DecisionStillValid
  RequesterStaysInTeam
  DecisionsAgree
  CancellationCycles
PROPERTIES
  ChargedOnce
  ImplementsLedger
