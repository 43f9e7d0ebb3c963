------------------------- MODULE MCLeaveManagement -------------------------
(* Small instances of LeaveManagement. *)
EXTENDS LeaveManagement, TLC

CONSTANTS annual, june, newYear

(* As in seed.js, one leave type has balance rows and the others have none. *)
MCAllocated == [b \in Employees \X {annual} \X {2025, 2026} |-> 3]

(* The seeded balances of one year only. *)
MCAllocatedOnce == [b \in Employees \X {annual} \X {2025} |-> 3]

(* A server east of Greenwich reads 1 January 2026 back as a day of 2025. *)
MCYearWritten == [b \in StartDates |-> IF b = newYear THEN 2026 ELSE 2025]
MCYearReadBack == [b \in StartDates |-> 2025]

MCSymmetry ==
  Permutations(Sessions) \cup Permutations(Requests) \cup Permutations(Employees)
=============================================================================
