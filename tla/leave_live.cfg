\* Two concurrent calls, one approver: every call returns.
SPECIFICATION FairManagementSpec
CONSTANTS
  annual = annual
  june = june
  newYear = newYear
  Employees = {e1, e2}
  Managers = {e1}
  LeaveTypes = {annual}
  RequiresBalance = {annual}
  Requests = {r1, r2}
  DayCounts = {2}
  StartDates = {june}
  YearWritten <- MCYearWritten
  YearReadBack <- MCYearReadBack
  Admins = {e1}
  Allocated <- MCAllocatedOnce
  Absent = Absent
  Departments = {}
  Sessions = {s1, s2}
PROPERTY
  EveryCallReturns
