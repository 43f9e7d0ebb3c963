-------------------------- MODULE LeaveManagement --------------------------
(***************************************************************************)
(* The leave workflow of hrm-server over PostgreSQL (READ COMMITTED).      *)
(*                                                                         *)
(* A session is one HTTP call: the actor's execution context is resolved,  *)
(* then one database transaction runs statement by statement.  A statement *)
(* that takes a row lock waits while another transaction holds a           *)
(* conflicting lock on that row, and reads the row as last committed.  The *)
(* writes of a transaction become visible when it commits, which is when   *)
(* its locks are released; every row it writes is locked until then.       *)
(***************************************************************************)
EXTENDS LeaveLedger, FiniteSetsExt

CONSTANTS
  Departments,      \* department ids; Absent is a NULL department_id
  Managers,         \* employees with the permission leave.approve.team
  Admins,           \* employees who may delete an employee
  YearWritten,      \* the year in the text of a start date, as a caller sends it
  RequiresBalance,  \* leave types with requires_balance = TRUE
  Sessions          \* concurrent calls, one pooled connection each

ASSUME ManagementAssumption ==
  /\ Managers \subseteq Employees /\ Admins \subseteq Employees
  /\ YearWritten \in [StartDates -> Nat]
  /\ RequiresBalance \subseteq LeaveTypes

VARIABLES
  present,      \* table employees: who has a row
  department,   \* employees.department_id
  audit,        \* audit_logs: the entries leave.approved and leave.rejected
  step,         \* the statement a session executes next
  call,         \* the call a session is serving
  held          \* the row locks of a session's transaction

tables == <<requests, used, approvals, audit>>
employeeRows == <<present, department>>
sessionState == <<step, call, held>>
allVars == <<tables, employeeRows, sessionState>>

-----------------------------------------------------------------------------
(* Calls.  A submission carries the row it will insert, the other calls    *)
(* name an existing row; department is the actor's, as read when the       *)
(* execution context was resolved, before the transaction began, and is    *)
(* kept for the decisions, which alone look at it.                         *)

LeaveOperations == {"submit", "approve", "reject", "cancel"}

LeaveCall == [op : LeaveOperations, actor : Employees,
              department : Departments \cup {Absent},
              request : Requests, row : LeaveRequest \cup {Absent}]

Deletion == [op : {"delete"}, actor : Employees, employee : Employees]

Call == LeaveCall \cup Deletion

Steps == {"idle", "request", "employee", "balance", "remove", "cascade", "record", "commit"}

(* Mutant: a decision that locks the requester before the request. *)
RouteRequesterFirst ==
  [submit  |-> [start |-> "balance", balance |-> "record", record |-> "commit"],
   approve |-> [start |-> "employee", employee |-> "request", request |-> "balance",
                balance |-> "record", record |-> "commit"],
   reject  |-> [start |-> "employee", employee |-> "request", request |-> "record",
                record |-> "commit"],
   cancel  |-> [start |-> "request", request |-> "record", record |-> "commit"],
   delete  |-> [start |-> "remove", remove |-> "cascade", cascade |-> "record",
                record |-> "commit"]]

(* The statements of each transaction, in the order they are sent.  The    *)
(* join in LeaveRepository.pending locks the request, then the requester;  *)
(* the foreign keys of a deleted employee fire once its row is locked.     *)
Route ==
  [submit  |-> [start |-> "balance", balance |-> "record", record |-> "commit"],
   approve |-> [start |-> "request", request |-> "employee", employee |-> "balance",
                balance |-> "record", record |-> "commit"],
   reject  |-> [start |-> "request", request |-> "employee", employee |-> "record",
                record |-> "commit"],
   cancel  |-> [start |-> "request", request |-> "record", record |-> "commit"],
   delete  |-> [start |-> "remove", remove |-> "cascade", cascade |-> "record",
                record |-> "commit"]]

(* The leave request a session is working on. *)
Row(s) == IF call[s].op = "submit" THEN call[s].row ELSE requests[call[s].request]

(* The actor of an entry is set to NULL when that employee is deleted. *)
AuditEntry == [action : {"approve", "reject"}, request : Requests,
               actor : Employees \cup {Absent}]

-----------------------------------------------------------------------------
(* Row locks.                                                              *)

RequestRow(r) == <<"request", r>>
EmployeeRow(e) == <<"employee", e>>
BalanceRow(b) == <<"balance", b>>

Rows == {RequestRow(r) : r \in Requests} \cup {EmployeeRow(e) : e \in Employees}
          \cup {BalanceRow(b) : b \in BalanceRows}

Modes == {"update", "noKeyUpdate", "keyShare"}

(* FOR UPDATE conflicts with every mode, the lock of an UPDATE that leaves *)
(* the key alone with itself, the lock of a foreign-key check with FOR     *)
(* UPDATE only.                                                            *)
Conflict(m, n) == "update" \in {m, n} \/ (m = "noKeyUpdate" /\ n = "noKeyUpdate")

CanLock(s, row, mode) ==
  \A t \in Sessions \ {s}, m \in Modes : <<row, m>> \in held[t] => ~Conflict(mode, m)

Lock(s, row, mode) ==
  /\ CanLock(s, row, mode)
  /\ held' = [held EXCEPT ![s] = @ \cup {<<row, mode>>}]

Proceed(s) ==
  /\ step' = [step EXCEPT ![s] = Route[call[s].op][step[s]]]
  /\ UNCHANGED call

(* Mutant: a transaction that ends without COMMIT or ROLLBACK. *)
FinishWithoutRollback(s) ==
  /\ step' = [step EXCEPT ![s] = "idle"]
  /\ call' = [call EXCEPT ![s] = Absent]
  /\ UNCHANGED held

(* COMMIT, or ROLLBACK after an error: either way every lock is released. *)
Finish(s) ==
  /\ step' = [step EXCEPT ![s] = "idle"]
  /\ call' = [call EXCEPT ![s] = Absent]
  /\ held' = [held EXCEPT ![s] = {}]

-----------------------------------------------------------------------------
(* Starting a call.  resolveActor accepts an active employee only; nothing *)
(* else here reads employment_status, which an administrator may change    *)
(* between any two calls, so whoever has a row may be active at the time.  *)

Begin(s, c) ==
  /\ step[s] = "idle"
  /\ c.actor \in present
  /\ call' = [call EXCEPT ![s] = c]
  /\ step' = [step EXCEPT ![s] = Route[c.op].start]
  /\ UNCHANGED <<tables, employeeRows, held>>

(* gen_random_uuid(): an id that no row, no log entry and no call names. *)
FreshId(r) ==
  /\ requests[r] = Absent
  /\ \A a \in audit : a.request # r
  /\ \A s \in Sessions : step[s] # "idle" /\ call[s].op # "delete" => call[s].request # r

RequestLeave(s, e, t, b, d) ==
  \E r \in Requests :
    /\ FreshId(r)
    /\ Begin(s, [op |-> "submit", actor |-> e, department |-> Absent,
                 request |-> r, row |-> NewRow(e, t, b, d)])

ApproveLeave(s, m, r) ==
  /\ m \in Managers
  /\ requests[r] # Absent
  /\ Begin(s, [op |-> "approve", actor |-> m, department |-> department[m],
               request |-> r, row |-> Absent])

RejectLeave(s, m, r) ==
  /\ m \in Managers
  /\ requests[r] # Absent
  /\ Begin(s, [op |-> "reject", actor |-> m, department |-> department[m],
               request |-> r, row |-> Absent])

CancelLeave(s, e, r) ==
  /\ requests[r] # Absent
  /\ Begin(s, [op |-> "cancel", actor |-> e, department |-> Absent,
               request |-> r, row |-> Absent])

DeleteEmployee(s, a, e) ==
  /\ a \in Admins
  /\ Begin(s, [op |-> "delete", actor |-> a, employee |-> e])

(* POST /api/leave-requests: one INSERT outside any transaction, with no   *)
(* balance check and no audit entry; only its foreign-key check can wait.  *)
CreateLearningLeaveRequest(e, t, b, d) ==
  /\ e \in present
  /\ \A s \in Sessions : <<EmployeeRow(e), "update">> \notin held[s]
  /\ \E r \in Requests :
       /\ FreshId(r)
       /\ requests' = [requests EXCEPT ![r] = NewRow(e, t, b, d)]
  /\ UNCHANGED <<used, approvals, audit, employeeRows, sessionState>>

-----------------------------------------------------------------------------
(* The statements of a transaction.                                        *)

(* Decisions select the request FOR UPDATE while it is pending; a          *)
(* cancellation updates it while it is pending and the actor's own.        *)
Targetable(s) ==
  /\ IsPending(call[s].request)
  /\ call[s].op = "cancel" => Row(s).employee = call[s].actor

(* Mutant: FOR KEY SHARE in the place of FOR UPDATE. *)
TargetModeShared(s) == "keyShare"

TargetMode(s) == IF call[s].op = "cancel" THEN "noKeyUpdate" ELSE "update"

LockRequest(s) ==
  /\ step[s] = "request"
  /\ \/ /\ Targetable(s)
        /\ Lock(s, RequestRow(call[s].request), TargetMode(s))
        /\ Proceed(s)
     \/ /\ ~Targetable(s)
        /\ Finish(s)
  /\ UNCHANGED <<tables, employeeRows>>

(* Mutant: one may decide on one's own request. *)
MayDecideOnOwn(s) == department[Row(s).employee] = call[s].department

(* The guard of approveLeave and rejectLeave, over the row as locked. *)
MayDecide(s) ==
  /\ Row(s).employee # call[s].actor
  /\ department[Row(s).employee] = call[s].department

(* Mutant: FOR UPDATE OF r, which leaves the joined employee row unlocked. *)
LockEmployeeNot(s) ==
  /\ step[s] = "employee"
  /\ \/ /\ MayDecide(s)
        /\ Proceed(s)
        /\ UNCHANGED held
     \/ /\ ~MayDecide(s)
        /\ Finish(s)
  /\ UNCHANGED <<tables, employeeRows>>

LockEmployee(s) ==
  /\ step[s] = "employee"
  /\ \/ /\ MayDecide(s)
        /\ Lock(s, EmployeeRow(Row(s).employee), "update")
        /\ Proceed(s)
     \/ /\ ~MayDecide(s)
        /\ CanLock(s, EmployeeRow(Row(s).employee), "update")
        /\ Finish(s)
  /\ UNCHANGED <<tables, employeeRows>>

(* A submission of a type that needs no balance sends no such statement;   *)
(* an approval always does, whatever its type.                             *)
NeedsBalance(s) == call[s].op = "approve" \/ Row(s).type \in RequiresBalance

(* requestLeave looks up the year its caller wrote, approveLeave the year  *)
(* the start date has when it is read back.                                *)
CheckedRow(s) ==
  IF call[s].op = "submit"
    THEN <<Row(s).employee, Row(s).type, YearWritten[Row(s).start]>>
    ELSE RowOf(Row(s))

HasRow(s) == CheckedRow(s) \in DOMAIN used

(* Mutant: some balance is left, whatever the days asked for. *)
CoveredInPart(s) == used[CheckedRow(s)] < Allocated[CheckedRow(s)]

Covered(s) == used[CheckedRow(s)] + Row(s).days <= Allocated[CheckedRow(s)]

LockBalance(s) ==
  /\ step[s] = "balance"
  /\ \/ /\ ~NeedsBalance(s)
        /\ Proceed(s)
        /\ UNCHANGED held
     \/ /\ NeedsBalance(s) /\ ~HasRow(s)
        /\ Finish(s)
     \/ /\ NeedsBalance(s) /\ HasRow(s) /\ ~Covered(s)
        /\ CanLock(s, BalanceRow(CheckedRow(s)), "update")
        /\ Finish(s)
     \/ /\ NeedsBalance(s) /\ HasRow(s) /\ Covered(s)
        /\ Lock(s, BalanceRow(CheckedRow(s)), "update")
        /\ Proceed(s)
  /\ UNCHANGED <<tables, employeeRows>>

(* DELETE FROM employees: nothing is deleted when the row is gone. *)
RemoveEmployee(s) ==
  /\ step[s] = "remove"
  /\ \/ /\ call[s].employee \in present
        /\ Lock(s, EmployeeRow(call[s].employee), "update")
        /\ Proceed(s)
     \/ /\ call[s].employee \notin present
        /\ Finish(s)
  /\ UNCHANGED <<tables, employeeRows>>

(* The rows that reference the deleted employee ON DELETE CASCADE and are  *)
(* still to be deleted: first the balances, then the requests, row by row. *)
OwnBalances(e) == {b \in DOMAIN used : b[1] = e}

CascadeRows(s) ==
  [balances |-> {BalanceRow(b) : b \in OwnBalances(call[s].employee)},
   requests |-> {RequestRow(r) : r \in OwnRequests(call[s].employee)}]

Left(s, rows) == {row \in rows : <<row, "update">> \notin held[s]}

CascadeNext(s) ==
  LET rows == CascadeRows(s)
  IN IF Left(s, rows.balances) # {} THEN Left(s, rows.balances) ELSE Left(s, rows.requests)

CascadeDelete(s) ==
  /\ step[s] = "cascade"
  /\ \/ /\ \E row \in CascadeNext(s) : Lock(s, row, "update")
        /\ UNCHANGED <<step, call>>
     \/ /\ CascadeNext(s) = {}
        /\ Proceed(s)
        /\ UNCHANGED held
  /\ UNCHANGED <<tables, employeeRows>>

(* The writes.  The rows inserted into leave_requests, leave_approvals and *)
(* audit_logs reference the actor's employee row, and whom a decision      *)
(* names cannot be deleted; used_days carries a CHECK and leave_approvals  *)
(* a UNIQUE.  A violation rolls back.                                      *)
BreaksConstraint(s) ==
  \/ call[s].actor \notin present
  \/ call[s].op = "approve" /\ ~Covered(s)
  \/ call[s].op \in {"approve", "reject"} /\ approvals[call[s].request] # Absent
  \/ /\ call[s].op = "delete"
     /\ \/ call[s].actor = call[s].employee
        \/ \E r \in Requests :
             approvals[r] # Absent /\ approvals[r].approver = call[s].employee

Record(s) ==
  /\ step[s] = "record"
  /\ \/ /\ ~BreaksConstraint(s)
        /\ Lock(s, EmployeeRow(call[s].actor), "keyShare")
        /\ Proceed(s)
     \/ /\ BreaksConstraint(s)
        /\ Finish(s)
  /\ UNCHANGED <<tables, employeeRows>>

-----------------------------------------------------------------------------
(* Commit makes the writes of the transaction visible.                     *)

AuditDecision(s) ==
  audit' = audit \cup {[action |-> call[s].op, request |-> call[s].request,
                        actor |-> call[s].actor]}

WriteApproval(s, decision) ==
  approvals' = [approvals EXCEPT ![call[s].request] =
                  [approver |-> call[s].actor, decision |-> decision]]

(* Mutant: the days are given back. *)
ChargeReversed(s) == used' = [used EXCEPT ![RowOf(Row(s))] = @ - Row(s).days]

(* Mutant: the approver's row is charged. *)
ChargeApprover(s) ==
  used' = [used EXCEPT ![<<call[s].actor, Row(s).type, YearReadBack[Row(s).start]>>] =
             @ + Row(s).days]

Charge(s) == used' = [used EXCEPT ![RowOf(Row(s))] = @ + Row(s).days]

CommitSubmit(s) ==
  /\ call[s].op = "submit"
  /\ requests' = [requests EXCEPT ![call[s].request] = call[s].row]
  /\ UNCHANGED <<used, approvals, audit, employeeRows>>

CommitApprove(s) ==
  /\ call[s].op = "approve"
  /\ Charge(s)
  /\ SetStatus(call[s].request, "approved")
  /\ WriteApproval(s, "approved")
  /\ AuditDecision(s)
  /\ UNCHANGED employeeRows

CommitReject(s) ==
  /\ call[s].op = "reject"
  /\ SetStatus(call[s].request, "rejected")
  /\ WriteApproval(s, "rejected")
  /\ AuditDecision(s)
  /\ UNCHANGED <<used, employeeRows>>

CommitCancel(s) ==
  /\ call[s].op = "cancel"
  /\ SetStatus(call[s].request, "cancelled")
  /\ UNCHANGED <<used, approvals, audit, employeeRows>>

(* ON DELETE SET NULL (actor_employee_id) *)
Anonymous(entries, e) ==
  {[a EXCEPT !.actor = IF @ = e THEN Absent ELSE @] : a \in entries}

RemoveRow(e) ==
  /\ present' = present \ {e}
  /\ department' = [department EXCEPT ![e] = Absent]

CommitDelete(s) ==
  /\ call[s].op = "delete"
  /\ Dismiss(call[s].employee)
  /\ RemoveRow(call[s].employee)
  /\ audit' = Anonymous(audit, call[s].employee)

Commit(s) ==
  /\ step[s] = "commit"
  /\ \/ CommitSubmit(s) \/ CommitApprove(s) \/ CommitReject(s)
     \/ CommitCancel(s) \/ CommitDelete(s)
  /\ Finish(s)

-----------------------------------------------------------------------------
(* Failures, deadlocks and the rest of the server.                         *)

(* The connection drops, the server stops or a statement fails: the        *)
(* transaction rolls back.                                                 *)
Abort(s) ==
  /\ step[s] # "idle"
  /\ Finish(s)
  /\ UNCHANGED <<tables, employeeRows>>

(* The lock the next statement of a session asks for, if it asks for one. *)
Wants(s, row, mode) ==
  \/ /\ step[s] = "request" /\ Targetable(s)
     /\ row = RequestRow(call[s].request) /\ mode = TargetMode(s)
  \/ /\ step[s] = "employee"
     /\ row = EmployeeRow(Row(s).employee) /\ mode = "update"
  \/ /\ step[s] = "balance" /\ NeedsBalance(s) /\ HasRow(s)
     /\ row = BalanceRow(CheckedRow(s)) /\ mode = "update"
  \/ /\ step[s] = "remove"
     /\ row = EmployeeRow(call[s].employee) /\ mode = "update"
  \/ /\ step[s] = "cascade"
     /\ row \in CascadeNext(s) /\ mode = "update"
  \/ /\ step[s] = "record"
     /\ row = EmployeeRow(call[s].actor) /\ mode = "keyShare"

WaitsFor(s, t) ==
  /\ s # t
  /\ \E l \in held[t], mode \in Modes : Wants(s, l[1], mode) /\ Conflict(mode, l[2])

AllWaiting(D) == D # {} /\ \A s \in D : \E t \in D : WaitsFor(s, t)

(* A minimal set of sessions each waiting for another of the set. *)
IsCycle(D) == AllWaiting(D) /\ \A E \in SUBSET D : AllWaiting(E) => E = D

(* deadlock_timeout: PostgreSQL aborts a transaction that waits for itself *)
(* through others (40P01), which the server reports as HRM_INTERNAL.       *)
DeadlockVictim(s) ==
  /\ \E D \in SUBSET Sessions : s \in D /\ IsCycle(D)
  /\ Abort(s)

(* updateEmployee as this workflow sees it: a department changes once no   *)
(* transaction holds the employee row FOR UPDATE.                          *)
UpdateEmployee(e) ==
  /\ e \in present
  /\ \A s \in Sessions : <<EmployeeRow(e), "update">> \notin held[s]
  /\ \E d \in Departments \cup {Absent} : department' = [department EXCEPT ![e] = d]
  /\ UNCHANGED <<present, tables, sessionState>>

(* createEmployee: an administrator chooses the id, so it can be one that  *)
(* was deleted before.  No code of the server inserts a balance.           *)
CreateEmployee(e) ==
  /\ e \notin present
  /\ present' = present \cup {e}
  /\ \E d \in Departments \cup {Absent} : department' = [department EXCEPT ![e] = d]
  /\ UNCHANGED <<tables, sessionState>>

-----------------------------------------------------------------------------

InitManagement ==
  /\ Init
  /\ department \in [Employees -> Departments \cup {Absent}]
  /\ present = Employees
  /\ audit = {}
  /\ step = [s \in Sessions |-> "idle"]
  /\ call = [s \in Sessions |-> Absent]
  /\ held = [s \in Sessions |-> {}]

Execute(s) ==
  \/ LockRequest(s)
  \/ LockEmployee(s)
  \/ LockBalance(s)
  \/ RemoveEmployee(s)
  \/ CascadeDelete(s)
  \/ Record(s)
  \/ Commit(s)

Arrive(s) ==
  \/ \E e \in Employees, t \in LeaveTypes, b \in StartDates, d \in DayCounts :
       RequestLeave(s, e, t, b, d)
  \/ \E e \in Employees, r \in Requests :
       ApproveLeave(s, e, r) \/ RejectLeave(s, e, r) \/ CancelLeave(s, e, r)
  \/ \E a, e \in Employees : DeleteEmployee(s, a, e)

NextManagement ==
  \/ \E s \in Sessions : Arrive(s) \/ Execute(s) \/ Abort(s) \/ DeadlockVictim(s)
  \/ \E e \in Employees, t \in LeaveTypes, b \in StartDates, d \in DayCounts :
       CreateLearningLeaveRequest(e, t, b, d)
  \/ \E e \in Employees : UpdateEmployee(e) \/ CreateEmployee(e)

ManagementSpec == InitManagement /\ [][NextManagement]_allVars

(* A statement whose lock becomes free is executed, since PostgreSQL       *)
(* queues the waiters of a row; a deadlock is detected.  Nothing obliges a *)
(* client to call.                                                         *)
ManagementFairness ==
  /\ \A s \in Sessions : SF_allVars(Execute(s))
  /\ \A s \in Sessions : WF_allVars(DeadlockVictim(s))

FairManagementSpec == ManagementSpec /\ ManagementFairness

-----------------------------------------------------------------------------
(* Properties.                                                             *)

(* The tables and the sessions hold what their columns allow. *)
TypeOK ==
  /\ requests \in [Requests -> LeaveRequest \cup {Absent}]
  /\ DOMAIN used \subseteq BalanceRows /\ used \in [DOMAIN used -> Nat]
  /\ approvals \in [Requests -> Approval \cup {Absent}]
  /\ audit \subseteq AuditEntry
  /\ department \in [Employees -> Departments \cup {Absent}]
  /\ present \subseteq Employees
  /\ step \in [Sessions -> Steps]
  /\ call \in [Sessions -> Call \cup {Absent}]
  /\ held \in [Sessions -> SUBSET (Rows \X Modes)]

(* The approved requests charged to a balance row, and the days they add   *)
(* up to.                                                                  *)
ApprovedOn(b) ==
  {r \in Requests : /\ requests[r] # Absent /\ requests[r].status = "approved"
                    /\ RowOf(requests[r]) = b}

DaysOf(table, S) == MapThenSumSet(LAMBDA r : table[r].days, S)

(* No balance row is overdrawn, and the days a balance row counts as used  *)
(* are exactly the days of the approved requests charged to it, however    *)
(* approvals, cancellations and rejections of the same employee's requests *)
(* and the deletion of employees interleave; an approved request is always *)
(* charged to an existing row.                                             *)
LedgerBalanced ==
  /\ \A r \in Requests :
       requests[r] # Absent /\ requests[r].status = "approved" =>
         RowOf(requests[r]) \in DOMAIN used
  /\ \A b \in DOMAIN used :
       used[b] <= Allocated[b] /\ used[b] = DaysOf(requests, ApprovedOn(b))

(* What an approval read under its locks is still true when it commits:    *)
(* the request is pending and undecided and the days fit the balance, so   *)
(* neither the CHECK nor the UNIQUE constraint ever rejects a decision.    *)
DecisionStillValid ==
  \A s \in Sessions :
    step[s] \in {"record", "commit"} /\ call[s].op \in {"approve", "reject"} =>
      /\ IsPending(call[s].request)
      /\ approvals[call[s].request] = Absent
      /\ call[s].op = "approve" => HasRow(s) /\ Covered(s)

(* From the check of approveLeave and rejectLeave to the commit, the       *)
(* requester stays in the department the approver's authority was resolved *)
(* for, although employees are moved between departments meanwhile.        *)
RequesterStaysInTeam ==
  \A s \in Sessions :
    step[s] \in {"balance", "record", "commit"} /\ call[s].op \in {"approve", "reject"} =>
      department[Row(s).employee] = call[s].department

(* A decided request has exactly one leave_approvals row, which agrees     *)
(* with its status, is not the requester's own and has its audit entry; a  *)
(* request that is pending or cancelled has none, and no decision was ever *)
(* logged for it.  A deleted request leaves no approval behind.            *)
DecisionsAgree ==
  \A r \in Requests :
    LET logged == {a \in audit : a.request = r}
    IN IF requests[r] # Absent /\ requests[r].status \in {"approved", "rejected"}
         THEN /\ approvals[r] # Absent
              /\ approvals[r].decision = requests[r].status
              /\ approvals[r].approver # requests[r].employee
              /\ logged = {[action |-> IF requests[r].status = "approved"
                                         THEN "approve" ELSE "reject",
                            request |-> r, actor |-> approvals[r].approver]}
         ELSE /\ approvals[r] = Absent
              /\ requests[r] # Absent => logged = {}

(* A cancellation takes its locks in the order every decision takes them,  *)
(* so it deadlocks with nobody but the deletion of the employee who        *)
(* cancels: that holds the employee's row, which the audit entry of the    *)
(* cancellation refers to, and its cascade waits for the request.          *)
CancellationCycles ==
  \A D \in SUBSET Sessions : IsCycle(D) =>
    \A s \in D : call[s].op = "cancel" =>
      \E t \in D : /\ call[t].op = "delete" /\ call[t].employee = call[s].actor
                   /\ D = {s, t}

(* A request that was approved, rejected or cancelled keeps its row as it  *)
(* is, whatever transactions were already running when it was decided,     *)
(* until it goes with its employee.                                        *)
DecidedForGood ==
  [][\A r \in Requests :
       requests[r] # Absent /\ ~IsPending(r) => requests'[r] \in {requests[r], Absent}]_allVars

(* used_days moves only by an approval, by the days of the one request     *)
(* that turns approved in the same commit, on that request's own row.      *)
ChargedOnce ==
  [][\A b \in DOMAIN used \cap DOMAIN used' :
       used'[b] # used[b] =>
         \E r \in Requests :
           /\ IsPending(r) /\ requests'[r].status = "approved" /\ RowOf(requests[r]) = b
           /\ used'[b] = used[b] + requests[r].days
           /\ \A q \in Requests \ {r} : requests'[q] = requests[q]]_allVars

(* The interleaved transactions implement the leave ledger, in which every *)
(* call is one step.                                                       *)
ImplementsLedger == Spec

(* Every call comes back: no transaction waits for a lock for ever,        *)
(* although approvals and submissions can deadlock.                        *)
EveryCallReturns == \A s \in Sessions : step[s] # "idle" ~> step[s] = "idle"
=============================================================================
