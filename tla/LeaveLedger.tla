---------------------------- MODULE LeaveLedger ----------------------------
(***************************************************************************)
(* What the leave workflow of hrm-server promises its callers, with every  *)
(* call a single step: a request is filed, then decided once by somebody   *)
(* else or withdrawn, and an approval charges the requester's balance row. *)
(* An employee can be dismissed; what was filed or granted goes along.     *)
(* LeaveManagement.tla, where the calls are interleaved database           *)
(* transactions, is shown to implement this module.                        *)
(***************************************************************************)
EXTENDS Naturals

CONSTANTS
  Employees,    \* ids of the employees of one company
  LeaveTypes,   \* ids of its leave types
  Requests,     \* ids a leave request can be given
  DayCounts,    \* numbers of days that can be asked for
  StartDates,   \* first days of a leave
  YearReadBack, \* the year a start date has once it is read from its DATE column
  Allocated,    \* leave_balances.allocated_days, by <<employee, type, year>>
  Absent        \* stands for "no such row"

ASSUME LedgerAssumption ==
  /\ YearReadBack \in [StartDates -> Nat]
  /\ DOMAIN Allocated \subseteq Employees \X LeaveTypes \X Nat
  /\ \A b \in DOMAIN Allocated : Allocated[b] \in Nat
  /\ DayCounts \subseteq Nat \ {0}

VARIABLES
  requests,     \* table leave_requests
  used,         \* column leave_balances.used_days, over the rows there are
  approvals     \* table leave_approvals, at most one row per request

vars == <<requests, used, approvals>>

BalanceRows == DOMAIN Allocated

LeaveRequest == [employee : Employees, type : LeaveTypes, start : StartDates,
                 days : DayCounts,
                 status : {"pending", "approved", "rejected", "cancelled"}]

Approval == [approver : Employees, decision : {"approved", "rejected"}]

(* "No such row" is not a row. *)
ASSUME AbsentAssumption == Absent \notin LeaveRequest /\ Absent \notin Approval

Init ==
  /\ requests = [r \in Requests |-> Absent]
  /\ used = [b \in BalanceRows |-> 0]
  /\ approvals = [r \in Requests |-> Absent]

IsPending(r) == requests[r] # Absent /\ requests[r].status = "pending"

(* The balance row a request is charged to.  node-postgres reads a DATE as *)
(* midnight in the server's time zone and leaveYear takes its UTC year, so *)
(* east of Greenwich the first of January belongs to the year before.      *)
RowOf(req) == <<req.employee, req.type, YearReadBack[req.start]>>

SetStatus(r, status) ==
  requests' = [requests EXCEPT ![r].status = status]

NewRow(e, t, b, d) ==
  [employee |-> e, type |-> t, start |-> b, days |-> d, status |-> "pending"]

File(r, e, t, b, d) ==
  /\ requests[r] = Absent
  /\ requests' = [requests EXCEPT ![r] = NewRow(e, t, b, d)]
  /\ UNCHANGED <<used, approvals>>

Withdraw(r) ==
  /\ IsPending(r)
  /\ SetStatus(r, "cancelled")
  /\ UNCHANGED <<used, approvals>>

Decide(r, m, decision) ==
  /\ IsPending(r)
  /\ m # requests[r].employee
  /\ approvals[r] = Absent
  /\ approvals' = [approvals EXCEPT ![r] = [approver |-> m, decision |-> decision]]
  /\ SetStatus(r, decision)

Reject(r, m) ==
  /\ Decide(r, m, "rejected")
  /\ UNCHANGED used

Approve(r, m) ==
  /\ Decide(r, m, "approved")
  /\ RowOf(requests[r]) \in DOMAIN used
  /\ used[RowOf(requests[r])] + requests[r].days <= Allocated[RowOf(requests[r])]
  /\ used' = [used EXCEPT ![RowOf(requests[r])] = @ + requests[r].days]

(* The requests of an employee, whatever became of them. *)
OwnRequests(e) == {r \in Requests : requests[r] # Absent /\ requests[r].employee = e}

Without(table, S) == [r \in Requests |-> IF r \in S THEN Absent ELSE table[r]]

(* ON DELETE CASCADE for the requests, their approvals and the balances,   *)
(* ON DELETE RESTRICT for the approvals the employee gave.                 *)
Dismiss(e) ==
  /\ \A r \in Requests : approvals[r] # Absent => approvals[r].approver # e
  /\ requests' = Without(requests, OwnRequests(e))
  /\ approvals' = Without(approvals, OwnRequests(e))
  /\ used' = [b \in {c \in DOMAIN used : c[1] # e} |-> used[b]]

Next ==
  \/ \E r \in Requests :
       \/ \E e \in Employees, t \in LeaveTypes, b \in StartDates, d \in DayCounts :
            File(r, e, t, b, d)
       \/ Withdraw(r)
       \/ \E m \in Employees : Reject(r, m) \/ Approve(r, m)
  \/ \E e \in Employees : Dismiss(e)

Spec == Init /\ [][Next]_vars
=============================================================================
