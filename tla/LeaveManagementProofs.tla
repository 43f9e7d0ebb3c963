----------------------- MODULE LeaveManagementProofs -----------------------
(* Proofs about LeaveManagement, for every value of its constants. *)
EXTENDS LeaveManagement, FiniteSetTheorems, TLAPS

-----------------------------------------------------------------------------
(* The inductive invariant.  What a transaction read is protected by the   *)
(* locks it holds, and which locks it holds follows from its step.         *)

Decides(s) == call[s].op \in {"approve", "reject"}

(* The session holds the request it decides on. *)
HasTarget(s) == Decides(s) /\ step[s] \in {"employee", "balance", "record", "commit"}

(* The session has passed the authority check. *)
HasAuthority(s) == Decides(s) /\ step[s] \in {"balance", "record", "commit"}

(* The session has passed the balance check. *)
HasCover(s) == call[s].op = "approve" /\ step[s] \in {"record", "commit"}

Cancels(s) == call[s].op = "cancel" /\ step[s] \in {"record", "commit"}

Submits(s) == call[s].op = "submit" /\ step[s] # "idle"

(* The deletion has locked the employee's row. *)
Deletes(s) == call[s].op = "delete" /\ step[s] \in {"cascade", "record", "commit"}

(* The deletion has locked every row that goes with the employee. *)
HasCascaded(s) == call[s].op = "delete" /\ step[s] \in {"record", "commit"}

(* Where the route of a call can have led its transaction. *)
OnRoute ==
  \A s \in Sessions :
    /\ step[s] # "idle" => call[s] \in Call
    /\ step[s] = "request" => call[s].op \in {"approve", "reject", "cancel"}
    /\ step[s] = "employee" => Decides(s)
    /\ step[s] = "balance" => call[s].op \in {"approve", "submit"}
    /\ step[s] \in {"remove", "cascade"} => call[s].op = "delete"

(* A submission owns its fresh id. *)
FreshRows ==
  \A s \in Sessions :
    Submits(s) =>
      /\ call[s].row \in LeaveRequest /\ call[s].row.status = "pending"
      /\ call[s].row.employee = call[s].actor
      /\ requests[call[s].request] = Absent
      /\ \A a \in audit : a.request # call[s].request
      /\ \A t \in Sessions \ {s} : Submits(t) => call[t].request # call[s].request

LocksExclude ==
  \A s, t \in Sessions : s # t =>
    \A row \in Rows, m, n \in Modes :
      <<row, m>> \in held[s] /\ <<row, n>> \in held[t] => ~Conflict(m, n)

HoldsLocks(s) ==
  /\ HasTarget(s) => <<RequestRow(call[s].request), "update">> \in held[s]
  /\ Cancels(s) => <<RequestRow(call[s].request), "noKeyUpdate">> \in held[s]
  /\ HasAuthority(s) => <<EmployeeRow(Row(s).employee), "update">> \in held[s]
  /\ HasCover(s) => HasRow(s) /\ <<BalanceRow(RowOf(Row(s))), "update">> \in held[s]
  /\ Deletes(s) => <<EmployeeRow(call[s].employee), "update">> \in held[s]
  /\ HasCascaded(s) =>
       \A r \in OwnRequests(call[s].employee) : <<RequestRow(r), "update">> \in held[s]
  /\ step[s] = "commit" => <<EmployeeRow(call[s].actor), "keyShare">> \in held[s]

LocksHeld == \A s \in Sessions : HoldsLocks(s)

(* What ON DELETE RESTRICT asks for. *)
NobodyDecidedBy(e) == \A r \in Requests : approvals[r] # Absent => approvals[r].approver # e

KeepsReads(s) ==
  /\ HasTarget(s) \/ Cancels(s) => IsPending(call[s].request)
  /\ Cancels(s) => Row(s).employee = call[s].actor
  /\ call[s].op = "delete" /\ step[s] = "commit" => NobodyDecidedBy(call[s].employee)
  /\ step[s] = "commit" => call[s].actor \in present
  /\ HasAuthority(s) => MayDecide(s)
  /\ HasCover(s) => Covered(s)

ReadsStable == \A s \in Sessions : KeepsReads(s)

(* An approval refers to a decided request, a request to an employee. *)
ReferencesHold ==
  \A r \in Requests :
    /\ approvals[r] # Absent =>
         requests[r] # Absent /\ requests[r].status \in {"approved", "rejected"}
    /\ requests[r] # Absent => requests[r].employee \in present

NoOverdraft == \A b \in DOMAIN used : used[b] <= Allocated[b]

IInv ==
  /\ TypeOK
  /\ OnRoute
  /\ FreshRows
  /\ LocksExclude
  /\ LocksHeld
  /\ ReadsStable
  /\ ReferencesHold
  /\ NoOverdraft

-----------------------------------------------------------------------------
LEMMA InitIInv == InitManagement => IInv
<1> SUFFICES ASSUME InitManagement PROVE IInv
  OBVIOUS
<1> USE DEF InitManagement, Init
<1>1. TypeOK
  BY LedgerAssumption DEF TypeOK, BalanceRows, Steps
<1>2. OnRoute /\ FreshRows /\ LocksExclude /\ LocksHeld /\ ReadsStable
  BY DEF OnRoute, FreshRows, LocksExclude, LocksHeld, HoldsLocks, ReadsStable, KeepsReads, HasTarget,
         HasAuthority, HasCover, Cancels, Submits, Deletes, HasCascaded
<1>3. ReferencesHold /\ NoOverdraft
  BY LedgerAssumption DEF ReferencesHold, NoOverdraft, BalanceRows
<1> QED
  BY <1>1, <1>2, <1>3 DEF IInv

(* The fields a call has, by its operation. *)
LEMMA CallFields ==
  ASSUME NEW c \in Call
  PROVE  /\ c.actor \in Employees
         /\ c.op # "delete" =>
              c \in LeaveCall /\ c.op \in LeaveOperations /\ c.request \in Requests
         /\ c.op = "delete" => c.employee \in Employees
BY DEF Call, LeaveCall, Deletion, LeaveOperations

(* A session no other transaction writes for keeps what it read and holds. *)
LEMMA SameTables ==
  ASSUME NEW t \in Sessions, UNCHANGED <<tables, employeeRows>>,
         call'[t] = call[t], step'[t] = step[t], held[t] \subseteq held'[t]
  PROVE  /\ HoldsLocks(t) => HoldsLocks(t)'
         /\ KeepsReads(t) => KeepsReads(t)'
<1>1. /\ HasTarget(t)' = HasTarget(t) /\ Cancels(t)' = Cancels(t)
      /\ HasAuthority(t)' = HasAuthority(t) /\ HasCover(t)' = HasCover(t)
      /\ Deletes(t)' = Deletes(t) /\ HasCascaded(t)' = HasCascaded(t)
  BY DEF HasTarget, Cancels, HasAuthority, HasCover, Decides, Deletes, HasCascaded
<1>2. Row(t)' = Row(t) /\ CheckedRow(t)' = CheckedRow(t) /\ HasRow(t)' = HasRow(t)
  BY DEF Row, CheckedRow, HasRow, tables
<1>3. OwnRequests(call[t].employee)' = OwnRequests(call[t].employee)
  BY DEF OwnRequests, tables
<1>4. HoldsLocks(t) => HoldsLocks(t)'
  BY <1>1, <1>2, <1>3 DEF HoldsLocks
<1>5. KeepsReads(t) => KeepsReads(t)'
  BY <1>1, <1>2 DEF KeepsReads, NobodyDecidedBy, MayDecide, Covered, IsPending, tables,
     employeeRows
<1> QED
  BY <1>4, <1>5

(* A call that begins holds nothing, so nothing it could break is at stake. *)
LEMMA BeginIInv ==
  ASSUME IInv, NEW s \in Sessions, NEW c \in Call, Begin(s, c),
         c.op = "submit" =>
           /\ FreshId(c.request)
           /\ c.row \in LeaveRequest /\ c.row.status = "pending" /\ c.row.employee = c.actor
  PROVE  IInv'
<1> USE DEF IInv
<1>1. step' = [step EXCEPT ![s] = Route[c.op].start] /\ call' = [call EXCEPT ![s] = c]
      /\ step[s] = "idle"
  BY DEF Begin
<1>2. UNCHANGED <<tables, employeeRows, held>>
  BY DEF Begin
<1>3. /\ Route[c.op].start \in {"request", "balance", "remove"}
      /\ c.op \in {"approve", "reject", "cancel"} => Route[c.op].start = "request"
      /\ c.op = "submit" => Route[c.op].start = "balance"
      /\ c.op = "delete" => Route[c.op].start = "remove"
      /\ c.op \in {"approve", "reject", "cancel", "submit", "delete"}
  BY CallFields DEF Route, LeaveOperations
<1>4. TypeOK'
  BY <1>1, <1>2, <1>3 DEF TypeOK, Steps, tables, employeeRows
<1>5. OnRoute'
  BY <1>1, <1>2, <1>3 DEF OnRoute, TypeOK, Decides
<1>6. FreshRows'
  BY <1>1, <1>2, <1>3 DEF FreshRows, Submits, TypeOK, FreshId, tables
<1>7. LocksExclude'
  BY <1>2 DEF LocksExclude
<1>8. \A t \in Sessions \ {s} : step'[t] = step[t] /\ call'[t] = call[t]
  BY <1>1 DEF TypeOK
<1>9. /\ ~HasTarget(s)' /\ ~Cancels(s)' /\ ~HasAuthority(s)' /\ ~HasCover(s)'
      /\ ~Deletes(s)' /\ ~HasCascaded(s)' /\ step'[s] # "commit"
  BY <1>1, <1>3 DEF TypeOK, HasTarget, Cancels, HasAuthority, HasCover, Decides, Deletes,
     HasCascaded
<1>10. ASSUME NEW t \in Sessions PROVE HoldsLocks(t)' /\ KeepsReads(t)'
  <2>1. CASE t = s
    BY <1>9, <2>1 DEF HoldsLocks, KeepsReads
  <2>2. CASE t # s
    BY <1>2, <1>8, <2>2, SameTables DEF LocksHeld, ReadsStable
  <2> QED
    BY <2>1, <2>2
<1>11. LocksHeld' /\ ReadsStable'
  BY <1>10 DEF LocksHeld, ReadsStable
<1>12. ReferencesHold' /\ NoOverdraft'
  BY <1>2 DEF ReferencesHold, NoOverdraft, tables, employeeRows
<1> QED
  BY <1>4, <1>5, <1>6, <1>7, <1>11, <1>12

(* The four calls begin with a well-formed call record. *)
LEMMA ArriveIInv ==
  ASSUME IInv, NEW s \in Sessions, Arrive(s)
  PROVE  IInv'
<1> USE DEF Call, LeaveCall, Deletion, LeaveOperations
<1> DEFINE Hyp(c) ==
      /\ c \in Call
      /\ c.op = "submit" => /\ FreshId(c.request)
                            /\ c.row \in LeaveRequest /\ c.row.status = "pending"
                            /\ c.row.employee = c.actor
<1>0. \A e \in Employees : department[e] \in Departments \cup {Absent}
  BY DEF IInv, TypeOK
<1>1. ASSUME NEW e \in Employees, NEW t \in LeaveTypes, NEW b \in StartDates, NEW d \in DayCounts,
             RequestLeave(s, e, t, b, d)
      PROVE  \E c : Hyp(c) /\ Begin(s, c)
  <2>1. /\ NewRow(e, t, b, d) \in LeaveRequest /\ NewRow(e, t, b, d).status = "pending"
        /\ NewRow(e, t, b, d).employee = e
    BY DEF NewRow, LeaveRequest
  <2>2. PICK r \in Requests :
          /\ FreshId(r)
          /\ Begin(s, [op |-> "submit", actor |-> e, department |-> Absent,
                       request |-> r, row |-> NewRow(e, t, b, d)])
    BY <1>1 DEF RequestLeave
  <2> QED
    BY <1>0, <2>1, <2>2
<1>2. ASSUME NEW e \in Employees, NEW r \in Requests,
             ApproveLeave(s, e, r) \/ RejectLeave(s, e, r) \/ CancelLeave(s, e, r)
      PROVE  \E c : Hyp(c) /\ Begin(s, c)
  BY <1>0, <1>2 DEF ApproveLeave, RejectLeave, CancelLeave
<1>3. ASSUME NEW a \in Employees, NEW e \in Employees, DeleteEmployee(s, a, e)
      PROVE  \E c : Hyp(c) /\ Begin(s, c)
  BY <1>3 DEF DeleteEmployee
<1>4. PICK c : Hyp(c) /\ Begin(s, c)
  BY <1>1, <1>2, <1>3 DEF Arrive
<1> QED
  BY <1>4, BeginIInv

(* Ending a transaction without writing, whatever the reason. *)
LEMMA RollbackIInv ==
  ASSUME IInv, NEW s \in Sessions, Finish(s), UNCHANGED <<tables, employeeRows>>
  PROVE  IInv'
<1> USE DEF IInv
<1>1. /\ step' = [step EXCEPT ![s] = "idle"]
      /\ call' = [call EXCEPT ![s] = Absent]
      /\ held' = [held EXCEPT ![s] = {}]
  BY DEF Finish
<1>2. \A t \in Sessions \ {s} :
        step'[t] = step[t] /\ call'[t] = call[t] /\ held'[t] = held[t]
  BY <1>1 DEF TypeOK
<1>3. step'[s] = "idle" /\ held'[s] = {}
  BY <1>1 DEF TypeOK
<1>4. TypeOK'
  BY <1>1 DEF TypeOK, tables, employeeRows, Steps
<1>5. OnRoute' /\ FreshRows'
  BY <1>2, <1>3 DEF OnRoute, FreshRows, Submits, Decides, tables
<1>6. LocksExclude'
  BY <1>2, <1>3 DEF LocksExclude
<1>7. /\ ~HasTarget(s)' /\ ~Cancels(s)' /\ ~HasAuthority(s)' /\ ~HasCover(s)'
      /\ ~Deletes(s)' /\ ~HasCascaded(s)' /\ step'[s] # "commit"
  BY <1>3 DEF HasTarget, Cancels, HasAuthority, HasCover, Deletes, HasCascaded
<1>8. ASSUME NEW t \in Sessions PROVE HoldsLocks(t)' /\ KeepsReads(t)'
  <2>1. CASE t = s
    BY <1>7, <2>1 DEF HoldsLocks, KeepsReads
  <2>2. CASE t # s
    BY <1>2, <2>2, SameTables DEF LocksHeld, ReadsStable
  <2> QED
    BY <2>1, <2>2
<1>9. LocksHeld' /\ ReadsStable'
  BY <1>8 DEF LocksHeld, ReadsStable
<1>10. ReferencesHold' /\ NoOverdraft'
  BY DEF ReferencesHold, NoOverdraft, tables, employeeRows
<1> QED
  BY <1>4, <1>5, <1>6, <1>9, <1>10

(* Going on to the next statement without a new lock, or with one that no  *)
(* other session's lock conflicts with, keeps what does not depend on the  *)
(* step reached.                                                           *)
LEMMA ProceedFrame ==
  ASSUME IInv, NEW s \in Sessions, NEW next \in Steps \ {"idle"},
         step[s] # "idle",
         step' = [step EXCEPT ![s] = next], UNCHANGED call,
         UNCHANGED <<tables, employeeRows>>,
         \/ UNCHANGED held
         \/ \E row \in Rows, mode \in Modes : Lock(s, row, mode)
  PROVE  /\ TypeOK' /\ FreshRows' /\ LocksExclude' /\ ReferencesHold' /\ NoOverdraft'
         /\ step'[s] = next
         /\ \A t \in Sessions \ {s} : step'[t] = step[t]
         /\ \A t \in Sessions : held[t] \subseteq held'[t]
         /\ HoldsLocks(s)' => LocksHeld'
         /\ KeepsReads(s)' => ReadsStable'
<1> USE DEF IInv
<1>1. step'[s] = next /\ \A t \in Sessions \ {s} : step'[t] = step[t]
  BY DEF TypeOK
<1>2. /\ held' \in [Sessions -> SUBSET (Rows \X Modes)]
      /\ \A t \in Sessions : held[t] \subseteq held'[t]
  BY DEF TypeOK, Lock
<1>3. TypeOK'
  BY <1>2 DEF TypeOK, tables, employeeRows
<1>4. FreshRows'
  BY <1>1 DEF FreshRows, Submits, tables
<1>5. LocksExclude'
  <2>1. CASE UNCHANGED held
    BY <2>1 DEF LocksExclude
  <2>2. CASE \E row \in Rows, mode \in Modes : Lock(s, row, mode)
    <3>1. PICK row \in Rows, mode \in Modes : Lock(s, row, mode)
      BY <2>2
    <3>2. \A t \in Sessions \ {s} : held'[t] = held[t]
      BY <3>1 DEF Lock, TypeOK
    <3>3. held'[s] = held[s] \cup {<<row, mode>>}
      BY <3>1 DEF Lock, TypeOK
    <3>4. \A m, n \in Modes : Conflict(m, n) => Conflict(n, m)
      BY DEF Conflict
    <3> QED
      BY <3>1, <3>2, <3>3, <3>4 DEF LocksExclude, Lock, CanLock
  <2> QED
    BY <2>1, <2>2
<1>6. ReferencesHold' /\ NoOverdraft'
  BY DEF ReferencesHold, NoOverdraft, tables, employeeRows
<1>7. \A t \in Sessions \ {s} : HoldsLocks(t)' /\ KeepsReads(t)'
  BY <1>1, <1>2, SameTables DEF LocksHeld, ReadsStable
<1>8. (HoldsLocks(s)' => LocksHeld') /\ (KeepsReads(s)' => ReadsStable')
  BY <1>7 DEF LocksHeld, ReadsStable
<1> QED
  BY <1>1, <1>2, <1>3, <1>4, <1>5, <1>6, <1>8

-----------------------------------------------------------------------------
(* The statements of a transaction, one lemma each. *)

LEMMA LockRequestIInv ==
  ASSUME IInv, NEW s \in Sessions, LockRequest(s)
  PROVE  IInv'
<1>1. CASE ~Targetable(s) /\ Finish(s)
  BY <1>1, RollbackIInv DEF LockRequest
<1>2. CASE /\ Targetable(s)
           /\ Lock(s, RequestRow(call[s].request), TargetMode(s))
           /\ Proceed(s)
  <2> DEFINE next == Route[call[s].op][step[s]]
             row == RequestRow(call[s].request)
             mode == TargetMode(s)
  <2>1. /\ step[s] = "request" /\ call[s] \in Call
        /\ call[s].op \in {"approve", "reject", "cancel"}
    BY DEF LockRequest, IInv, OnRoute
  <2>2. next = IF call[s].op = "cancel" THEN "record" ELSE "employee"
    BY <2>1 DEF Route
  <2>3. row \in Rows /\ mode \in Modes
    BY <2>1, CallFields DEF Rows, RequestRow, Modes, TargetMode
  <2>4. /\ step' = [step EXCEPT ![s] = next] /\ UNCHANGED call
        /\ UNCHANGED <<tables, employeeRows>>
    BY <1>2 DEF Proceed, LockRequest
  <2>5. /\ TypeOK' /\ FreshRows' /\ LocksExclude' /\ ReferencesHold' /\ NoOverdraft'
        /\ step'[s] = next
        /\ \A t \in Sessions \ {s} : step'[t] = step[t]
        /\ \A t \in Sessions : held[t] \subseteq held'[t]
        /\ HoldsLocks(s)' => LocksHeld'
        /\ KeepsReads(s)' => ReadsStable'
    BY <1>2, <2>1, <2>2, <2>3, <2>4, ProceedFrame DEF Steps
  <2>6. OnRoute'
    BY <2>1, <2>2, <2>4, <2>5 DEF IInv, OnRoute, Decides
  <2>7. <<row, mode>> \in held'[s]
    BY <1>2 DEF Lock, IInv, TypeOK
  <2>8. HoldsLocks(s)'
    BY <2>1, <2>2, <2>4, <2>5, <2>7 DEF IInv, LocksHeld, HoldsLocks, HasTarget, Cancels, HasAuthority,
       HasCover, Decides, Deletes, HasCascaded, OwnRequests, Row, HasRow, CheckedRow, TargetMode, tables
  <2>9. KeepsReads(s)'
    <3>1. /\ IsPending(call[s].request)'
          /\ call[s].op = "cancel" => Row(s)'.employee = call[s].actor
      BY <1>2, <2>4 DEF Targetable, IsPending, Row, tables
    <3>2. ~HasAuthority(s)' /\ ~HasCover(s)' /\ step'[s] # "commit"
      BY <2>1, <2>2, <2>4, <2>5 DEF HasAuthority, HasCover, Decides
    <3> QED
      BY <2>4, <3>1, <3>2 DEF KeepsReads, Cancels
  <2> QED
    BY <2>5, <2>6, <2>8, <2>9 DEF IInv
<1> QED
  BY <1>1, <1>2 DEF LockRequest

LEMMA LockEmployeeIInv ==
  ASSUME IInv, NEW s \in Sessions, LockEmployee(s)
  PROVE  IInv'
<1>1. CASE ~MayDecide(s) /\ Finish(s)
  BY <1>1, RollbackIInv DEF LockEmployee
<1>2. CASE /\ MayDecide(s)
           /\ Lock(s, EmployeeRow(Row(s).employee), "update")
           /\ Proceed(s)
  <2> DEFINE next == Route[call[s].op][step[s]]
             row == EmployeeRow(Row(s).employee)
  <2>1. step[s] = "employee" /\ call[s] \in Call /\ Decides(s) /\ HasTarget(s)
    BY DEF LockEmployee, IInv, OnRoute, HasTarget
  <2>2. next = IF call[s].op = "approve" THEN "balance" ELSE "record"
    BY <2>1 DEF Route, Decides
  <2>3. row \in Rows /\ "update" \in Modes
    <3>1. Row(s) \in LeaveRequest
      BY <2>1, CallFields DEF IInv, ReadsStable, KeepsReads, IsPending, Row, TypeOK, Decides
    <3> QED
      BY <3>1 DEF Rows, EmployeeRow, Modes, LeaveRequest
  <2>4. /\ step' = [step EXCEPT ![s] = next] /\ UNCHANGED call
        /\ UNCHANGED <<tables, employeeRows>>
    BY <1>2 DEF Proceed, LockEmployee
  <2>5. /\ TypeOK' /\ FreshRows' /\ LocksExclude' /\ ReferencesHold' /\ NoOverdraft'
        /\ step'[s] = next
        /\ \A t \in Sessions \ {s} : step'[t] = step[t]
        /\ \A t \in Sessions : held[t] \subseteq held'[t]
        /\ HoldsLocks(s)' => LocksHeld'
        /\ KeepsReads(s)' => ReadsStable'
    BY <1>2, <2>1, <2>2, <2>3, <2>4, ProceedFrame DEF Steps
  <2>6. OnRoute'
    BY <2>1, <2>2, <2>4, <2>5 DEF IInv, OnRoute, Decides
  <2>7. <<row, "update">> \in held'[s]
    BY <1>2 DEF Lock, IInv, TypeOK
  <2>8. HoldsLocks(s)'
    BY <2>1, <2>2, <2>4, <2>5, <2>7 DEF IInv, LocksHeld, HoldsLocks, HasTarget, Cancels, HasAuthority,
       HasCover, Decides, Deletes, HasCascaded, OwnRequests, Row, HasRow, CheckedRow, tables
  <2>9. KeepsReads(s)'
    <3>1. IsPending(call[s].request)' /\ MayDecide(s)'
      BY <1>2, <2>1, <2>4 DEF IInv, ReadsStable, KeepsReads, IsPending, MayDecide, Row, tables,
         employeeRows
    <3>2. ~HasCover(s)' /\ ~Cancels(s)' /\ step'[s] # "commit"
      BY <2>1, <2>2, <2>4, <2>5 DEF HasCover, Cancels, Decides
    <3> QED
      BY <3>1, <3>2 DEF KeepsReads
  <2> QED
    BY <2>5, <2>6, <2>8, <2>9 DEF IInv
<1> QED
  BY <1>1, <1>2 DEF LockEmployee

LEMMA LockBalanceIInv ==
  ASSUME IInv, NEW s \in Sessions, LockBalance(s)
  PROVE  IInv'
<1> DEFINE row == BalanceRow(CheckedRow(s))
           locked == NeedsBalance(s) /\ HasRow(s) /\ Covered(s) /\ Lock(s, row, "update")
<1>1. CASE Finish(s)
  BY <1>1, RollbackIInv DEF LockBalance
<1>2. CASE Proceed(s) /\ ((~NeedsBalance(s) /\ UNCHANGED held) \/ locked)
  <2> DEFINE next == Route[call[s].op][step[s]]
  <2>1. step[s] = "balance" /\ call[s] \in Call /\ call[s].op \in {"approve", "submit"}
    BY DEF LockBalance, IInv, OnRoute
  <2>2. next = "record"
    BY <2>1 DEF Route
  <2>3. HasRow(s) => row \in Rows /\ "update" \in Modes
    BY DEF Rows, BalanceRow, Modes, HasRow, IInv, TypeOK
  <2>4. /\ step' = [step EXCEPT ![s] = next] /\ UNCHANGED call
        /\ UNCHANGED <<tables, employeeRows>>
    BY <1>2 DEF Proceed, LockBalance
  <2>5. /\ TypeOK' /\ FreshRows' /\ LocksExclude' /\ ReferencesHold' /\ NoOverdraft'
        /\ step'[s] = next
        /\ \A t \in Sessions \ {s} : step'[t] = step[t]
        /\ \A t \in Sessions : held[t] \subseteq held'[t]
        /\ HoldsLocks(s)' => LocksHeld'
        /\ KeepsReads(s)' => ReadsStable'
    <3>1. next \in Steps \ {"idle"} /\ step[s] # "idle"
      BY <2>1, <2>2 DEF Steps
    <3>2. UNCHANGED held \/ \E l \in Rows, mode \in Modes : Lock(s, l, mode)
      BY <1>2, <2>3
    <3> QED
      BY <2>4, <3>1, <3>2, ProceedFrame
  <2>6. OnRoute'
    BY <2>1, <2>2, <2>4, <2>5 DEF IInv, OnRoute, Decides
  <2>7. call[s].op = "approve" =>
          HasRow(s) /\ Covered(s) /\ <<row, "update">> \in held'[s] /\ CheckedRow(s) = RowOf(Row(s))
    BY <1>2 DEF NeedsBalance, Lock, IInv, TypeOK, CheckedRow
  <2>8. HoldsLocks(s)'
    <3>1. call[s].op = "approve" =>
            /\ <<RequestRow(call[s].request), "update">> \in held'[s]
            /\ <<EmployeeRow(Row(s)'.employee), "update">> \in held'[s]
            /\ HasRow(s)' /\ <<BalanceRow(RowOf(Row(s)')), "update">> \in held'[s]
      BY <2>1, <2>4, <2>5, <2>7 DEF IInv, LocksHeld, HoldsLocks, HasTarget, HasAuthority, Decides,
         HasRow, CheckedRow, Row, tables
    <3>2. ~Cancels(s)' /\ ~Deletes(s)' /\ ~HasCascaded(s)' /\ step'[s] # "commit"
      BY <2>1, <2>2, <2>4, <2>5 DEF Cancels, Deletes, HasCascaded
    <3>3. HasTarget(s)' \/ HasAuthority(s)' \/ HasCover(s)' => call[s].op = "approve"
      BY <2>1, <2>4 DEF HasTarget, HasAuthority, HasCover, Decides
    <3> QED
      BY <2>4, <3>1, <3>2, <3>3 DEF HoldsLocks
  <2>9. KeepsReads(s)'
    <3>1. call[s].op = "approve" => IsPending(call[s].request)' /\ MayDecide(s)' /\ Covered(s)'
      BY <2>1, <2>4, <2>7 DEF IInv, ReadsStable, KeepsReads, HasTarget, HasAuthority, Decides,
         IsPending, MayDecide, Covered, CheckedRow, Row, tables, employeeRows
    <3>2. ~Cancels(s)' /\ step'[s] # "commit"
      BY <2>1, <2>2, <2>4, <2>5 DEF Cancels
    <3>3. HasTarget(s)' \/ HasAuthority(s)' \/ HasCover(s)' => call[s].op = "approve"
      BY <2>1, <2>4 DEF HasTarget, HasAuthority, HasCover, Decides
    <3> QED
      BY <3>1, <3>2, <3>3 DEF KeepsReads
  <2> QED
    BY <2>5, <2>6, <2>8, <2>9 DEF IInv
<1> QED
  BY <1>1, <1>2 DEF LockBalance

LEMMA RemoveEmployeeIInv ==
  ASSUME IInv, NEW s \in Sessions, RemoveEmployee(s)
  PROVE  IInv'
<1>1. CASE Finish(s)
  BY <1>1, RollbackIInv DEF RemoveEmployee
<1>2. CASE Lock(s, EmployeeRow(call[s].employee), "update") /\ Proceed(s)
  <2> DEFINE row == EmployeeRow(call[s].employee)
  <2>1. step[s] = "remove" /\ call[s] \in Call /\ call[s].op = "delete"
    BY DEF RemoveEmployee, IInv, OnRoute
  <2>2. row \in Rows /\ "update" \in Modes
    BY <2>1, CallFields DEF Rows, EmployeeRow, Modes
  <2>3. /\ step' = [step EXCEPT ![s] = "cascade"] /\ UNCHANGED call
        /\ UNCHANGED <<tables, employeeRows>>
    <3>1. Route["delete"]["remove"] = "cascade"
      BY DEF Route
    <3> QED
      BY <1>2, <2>1, <3>1 DEF Proceed, RemoveEmployee
  <2>4. /\ TypeOK' /\ FreshRows' /\ LocksExclude' /\ ReferencesHold' /\ NoOverdraft'
        /\ step'[s] = "cascade"
        /\ \A t \in Sessions \ {s} : step'[t] = step[t]
        /\ \A t \in Sessions : held[t] \subseteq held'[t]
        /\ HoldsLocks(s)' => LocksHeld'
        /\ KeepsReads(s)' => ReadsStable'
    BY <1>2, <2>1, <2>2, <2>3, ProceedFrame DEF Steps
  <2>5. OnRoute'
    BY <2>1, <2>3, <2>4 DEF IInv, OnRoute, Decides
  <2>6. <<row, "update">> \in held'[s]
    BY <1>2 DEF Lock, IInv, TypeOK
  <2>7. HoldsLocks(s)'
    BY <2>1, <2>3, <2>4, <2>6 DEF HoldsLocks, HasTarget, Cancels, HasAuthority, HasCover, Decides,
       HasCascaded
  <2>8. KeepsReads(s)'
    BY <2>1, <2>3, <2>4 DEF KeepsReads, HasTarget, Cancels, HasAuthority, HasCover, Decides
  <2> QED
    BY <2>4, <2>5, <2>7, <2>8 DEF IInv
<1> QED
  BY <1>1, <1>2 DEF RemoveEmployee

(* When nothing is left to lock, every request of the employee is locked. *)
LEMMA CascadeDeleteIInv ==
  ASSUME IInv, NEW s \in Sessions, CascadeDelete(s)
  PROVE  IInv'
<1> DEFINE e == call[s].employee
           rows == CascadeRows(s)
<1>1. step[s] = "cascade" /\ call[s] \in Call /\ call[s].op = "delete"
  BY DEF CascadeDelete, IInv, OnRoute
<1>2. UNCHANGED <<tables, employeeRows>> /\ UNCHANGED call
  BY DEF CascadeDelete, Proceed
<1>3. PICK next \in {"cascade", "record"} :
        /\ step' = [step EXCEPT ![s] = next]
        /\ \/ UNCHANGED held
           \/ \E row \in Rows, mode \in Modes : Lock(s, row, mode)
        /\ next = "record" => CascadeNext(s) = {} /\ UNCHANGED held
  <2>1. CASE Proceed(s) /\ CascadeNext(s) = {} /\ UNCHANGED held
    <3>1. Route["delete"]["cascade"] = "record"
      BY DEF Route
    <3> QED
      BY <1>1, <2>1, <3>1 DEF Proceed
  <2>2. CASE (\E row \in CascadeNext(s) : Lock(s, row, "update")) /\ UNCHANGED step
    <3>1. step' = [step EXCEPT ![s] = "cascade"]
      BY <1>1, <2>2 DEF IInv, TypeOK
    <3>2. PICK row \in CascadeNext(s) : Lock(s, row, "update")
      BY <2>2
    <3>3. row \in Rows
      BY <3>2 DEF CascadeNext, Left, CascadeRows, OwnBalances, OwnRequests, Rows, IInv, TypeOK
    <3> QED
      BY <3>1, <3>2, <3>3 DEF Modes
  <2> QED
    BY <2>1, <2>2 DEF CascadeDelete
<1>4. /\ TypeOK' /\ FreshRows' /\ LocksExclude' /\ ReferencesHold' /\ NoOverdraft'
      /\ step'[s] = next
      /\ \A t \in Sessions \ {s} : step'[t] = step[t]
      /\ \A t \in Sessions : held[t] \subseteq held'[t]
      /\ HoldsLocks(s)' => LocksHeld'
      /\ KeepsReads(s)' => ReadsStable'
  BY <1>1, <1>2, <1>3, ProceedFrame DEF Steps
<1>5. OnRoute'
  BY <1>1, <1>2, <1>3, <1>4 DEF IInv, OnRoute, Decides
<1>6. next = "record" => \A r \in OwnRequests(e) : <<RequestRow(r), "update">> \in held'[s]
  BY <1>3 DEF CascadeNext, Left, CascadeRows
<1>7. HoldsLocks(s)'
  <2>1. <<EmployeeRow(e), "update">> \in held'[s]
    BY <1>1, <1>4 DEF IInv, LocksHeld, HoldsLocks, Deletes
  <2>2. /\ ~HasTarget(s)' /\ ~Cancels(s)' /\ ~HasAuthority(s)' /\ ~HasCover(s)'
        /\ step'[s] # "commit"
    BY <1>1, <1>2, <1>4 DEF HasTarget, Cancels, HasAuthority, HasCover, Decides
  <2>3. HasCascaded(s)' => next = "record"
    BY <1>4 DEF HasCascaded
  <2>4. OwnRequests(e)' = OwnRequests(e)
    BY <1>2 DEF OwnRequests, tables
  <2> QED
    BY <1>2, <1>6, <2>1, <2>2, <2>3, <2>4 DEF HoldsLocks
<1>8. KeepsReads(s)'
  BY <1>1, <1>2, <1>4 DEF KeepsReads, HasTarget, Cancels, HasAuthority, HasCover, Decides
<1> QED
  BY <1>4, <1>5, <1>7, <1>8 DEF IInv

LEMMA RecordIInv ==
  ASSUME IInv, NEW s \in Sessions, Record(s)
  PROVE  IInv'
<1>1. CASE Finish(s)
  BY <1>1, RollbackIInv DEF Record
<1>2. CASE /\ ~BreaksConstraint(s)
           /\ Lock(s, EmployeeRow(call[s].actor), "keyShare") /\ Proceed(s)
  <2> DEFINE next == Route[call[s].op][step[s]]
             row == EmployeeRow(call[s].actor)
  <2>1. step[s] = "record" /\ call[s] \in Call
    BY DEF Record, IInv, OnRoute
  <2>2. next = "commit"
    BY <2>1, CallFields DEF Route, LeaveOperations
  <2>3. row \in Rows /\ "keyShare" \in Modes
    BY <2>1, CallFields DEF Rows, EmployeeRow, Modes
  <2>4. /\ step' = [step EXCEPT ![s] = next] /\ UNCHANGED call
        /\ UNCHANGED <<tables, employeeRows>>
    BY <1>2 DEF Proceed, Record
  <2>5. /\ TypeOK' /\ FreshRows' /\ LocksExclude' /\ ReferencesHold' /\ NoOverdraft'
        /\ step'[s] = next
        /\ \A t \in Sessions \ {s} : step'[t] = step[t]
        /\ \A t \in Sessions : held[t] \subseteq held'[t]
        /\ HoldsLocks(s)' => LocksHeld'
        /\ KeepsReads(s)' => ReadsStable'
    BY <1>2, <2>1, <2>2, <2>3, <2>4, ProceedFrame DEF Steps
  <2>6. OnRoute'
    BY <2>1, <2>2, <2>4, <2>5 DEF IInv, OnRoute, Decides
  <2>7. /\ <<row, "keyShare">> \in held'[s] /\ call[s].actor \in present
        /\ call[s].op = "delete" => NobodyDecidedBy(call[s].employee)
    BY <1>2 DEF Lock, IInv, TypeOK, BreaksConstraint, NobodyDecidedBy
  <2>8. HoldsLocks(s)'
    BY <2>1, <2>2, <2>4, <2>5, <2>7 DEF IInv, LocksHeld, HoldsLocks, HasTarget, Cancels, HasAuthority,
       HasCover, Decides, Deletes, HasCascaded, OwnRequests, Row, HasRow, CheckedRow, tables
  <2>9. KeepsReads(s)'
    <3>1. /\ HasTarget(s)' => HasTarget(s) /\ HasAuthority(s)
          /\ Cancels(s)' => Cancels(s)
          /\ HasCover(s)' => HasCover(s)
          /\ HasAuthority(s)' => HasAuthority(s)
      BY <2>1, <2>4 DEF HasTarget, Cancels, HasAuthority, HasCover, Decides
    <3>2. /\ Row(s)' = Row(s) /\ IsPending(call[s].request)' = IsPending(call[s].request)
          /\ MayDecide(s)' = MayDecide(s) /\ Covered(s)' = Covered(s)
      BY <2>4 DEF Row, IsPending, MayDecide, Covered, CheckedRow, tables, employeeRows
    <3>3. KeepsReads(s)
      BY DEF IInv, ReadsStable
    <3>4. call[s].op = "delete" => NobodyDecidedBy(call[s].employee)'
      BY <2>4, <2>7 DEF NobodyDecidedBy, tables
    <3> QED
      BY <2>4, <2>7, <3>1, <3>2, <3>3, <3>4 DEF KeepsReads, employeeRows
  <2> QED
    BY <2>5, <2>6, <2>8, <2>9 DEF IInv
<1> QED
  BY <1>1, <1>2 DEF Record

-----------------------------------------------------------------------------
(* A commit disturbs nobody: the rows it writes are locked by no one else, *)
(* and the id a submission inserts is in nobody's hands.                   *)

LEMMA CommitTouchesOwnRows ==
  ASSUME IInv, NEW s \in Sessions, NEW t \in Sessions \ {s}
  PROVE  /\ /\ HasTarget(s) \/ Cancels(s)
            /\ HasTarget(t) \/ Cancels(t)
            => call[t].request # call[s].request
         /\ HasCover(s) /\ HasCover(t) => RowOf(Row(t)) # RowOf(Row(s))
<1> USE DEF IInv, Modes, Conflict
<1>1. \A row \in Rows, m, n \in Modes :
        <<row, m>> \in held[s] /\ <<row, n>> \in held[t] => ~Conflict(m, n)
  BY DEF LocksExclude
<1>2. \A row \in Rows :
        /\ \E m \in {"update", "noKeyUpdate"} : <<row, m>> \in held[s]
        /\ \E m \in {"update", "noKeyUpdate"} : <<row, m>> \in held[t]
        => FALSE
  BY <1>1
<1>3. ASSUME HasTarget(s) \/ Cancels(s), HasTarget(t) \/ Cancels(t)
      PROVE  call[t].request # call[s].request
  <2>1. RequestRow(call[s].request) \in Rows
    BY <1>3, CallFields DEF OnRoute, HasTarget, Decides, Cancels, Rows
  <2> QED
    BY <1>2, <1>3, <2>1 DEF LocksHeld, HoldsLocks
<1>4. ASSUME HasCover(s), HasCover(t)
      PROVE  RowOf(Row(t)) # RowOf(Row(s))
  <2>1. BalanceRow(RowOf(Row(s))) \in Rows
    BY <1>4 DEF LocksHeld, HoldsLocks, HasRow, CheckedRow, HasCover, Rows, TypeOK
  <2> QED
    BY <1>2, <1>4, <2>1 DEF LocksHeld, HoldsLocks
<1> QED
  BY <1>3, <1>4

(* Whoever deletes an employee has that row, and in the end every request  *)
(* of that employee, to itself.                                            *)
LEMMA DeletionExcludes ==
  ASSUME IInv, NEW s \in Sessions, NEW t \in Sessions \ {s}, Deletes(s)
  PROVE  /\ HasAuthority(t) => Row(t).employee # call[s].employee
         /\ step[t] = "commit" => call[t].actor # call[s].employee
         /\ /\ HasCascaded(s)
            /\ HasTarget(t) \/ Cancels(t)
            => call[t].request \notin OwnRequests(call[s].employee)
<1> USE DEF IInv, Modes, Conflict
<1>1. \A row \in Rows, m, n \in Modes :
        <<row, m>> \in held[s] /\ <<row, n>> \in held[t] => ~Conflict(m, n)
  BY DEF LocksExclude
<1>2. \A row \in Rows, m \in Modes :
        ~(<<row, "update">> \in held[s] /\ <<row, m>> \in held[t])
  BY <1>1
<1>3. EmployeeRow(call[s].employee) \in Rows
      /\ <<EmployeeRow(call[s].employee), "update">> \in held[s]
  BY CallFields DEF OnRoute, Deletes, Rows, LocksHeld, HoldsLocks
<1>4. HasAuthority(t) => Row(t).employee # call[s].employee
  BY <1>2, <1>3 DEF LocksHeld, HoldsLocks
<1>5. step[t] = "commit" => call[t].actor # call[s].employee
  BY <1>2, <1>3 DEF LocksHeld, HoldsLocks
<1>6. ASSUME HasCascaded(s), HasTarget(t) \/ Cancels(t),
             call[t].request \in OwnRequests(call[s].employee)
      PROVE  FALSE
  <2>1. <<RequestRow(call[t].request), "update">> \in held[s]
    BY <1>6 DEF LocksHeld, HoldsLocks
  <2>2. RequestRow(call[t].request) \in Rows
    BY <1>6 DEF OwnRequests, Rows
  <2>3. \E m \in Modes : <<RequestRow(call[t].request), m>> \in held[t]
    BY <1>6 DEF LocksHeld, HoldsLocks
  <2> QED
    BY <1>2, <2>1, <2>2, <2>3
<1> QED
  BY <1>4, <1>5, <1>6

(* What a commit leaves as it was is all the other sessions rely on. *)
LEMMA CommitFrame ==
  ASSUME IInv, NEW s \in Sessions, Finish(s), TypeOK', ReferencesHold', NoOverdraft',
         \A t \in Sessions \ {s} :
           /\ Submits(t) => /\ requests'[call[t].request] = Absent
                            /\ \A a \in audit' : a.request # call[t].request
           /\ HasTarget(t) \/ Cancels(t) =>
                requests'[call[t].request] = requests[call[t].request]
           /\ HasAuthority(t) => department'[Row(t).employee] = department[Row(t).employee]
           /\ HasCover(t) => /\ RowOf(Row(t)) \in DOMAIN used'
                             /\ used'[RowOf(Row(t))] = used[RowOf(Row(t))]
           /\ HasCascaded(t) =>
                \A r \in Requests :
                  requests'[r] # Absent /\ requests'[r].employee = call[t].employee =>
                    r \in OwnRequests(call[t].employee)
           /\ step[t] = "commit" /\ call[t].op = "delete" =>
                \A r \in Requests :
                  approvals'[r] # Absent => approvals'[r].approver # call[t].employee
           /\ step[t] = "commit" => call[t].actor \in present'
  PROVE  IInv'
<1> USE DEF IInv
<1>1. \A t \in Sessions \ {s} :
        step'[t] = step[t] /\ call'[t] = call[t] /\ held'[t] = held[t]
  BY DEF Finish, TypeOK
<1>2. step'[s] = "idle" /\ held'[s] = {}
  BY DEF Finish, TypeOK
<1>3. OnRoute' /\ FreshRows'
  BY <1>1, <1>2 DEF OnRoute, FreshRows, Submits, Decides
<1>4. LocksExclude'
  BY <1>1, <1>2 DEF LocksExclude
<1>5. /\ ~HasTarget(s)' /\ ~Cancels(s)' /\ ~HasAuthority(s)' /\ ~HasCover(s)'
      /\ ~Deletes(s)' /\ ~HasCascaded(s)' /\ step'[s] # "commit"
  BY <1>2 DEF HasTarget, Cancels, HasAuthority, HasCover, Deletes, HasCascaded
<1>6. \A t \in Sessions \ {s} : HasTarget(t)' \/ Cancels(t)' => Row(t)' = Row(t)
  BY <1>1 DEF HasTarget, Cancels, Decides, Row
<1>7. \A t \in Sessions \ {s} : HasCover(t) => CheckedRow(t) = RowOf(Row(t)) /\ HasTarget(t)
  BY DEF HasCover, CheckedRow, HasTarget, Decides
<1>8. \A t \in Sessions \ {s} : HasCover(t)' =>
        HasCover(t) /\ CheckedRow(t)' = CheckedRow(t) /\ Row(t)' = Row(t)
  BY <1>1, <1>6, <1>7 DEF HasCover, CheckedRow, HasTarget, Decides, RowOf
<1>9. ASSUME NEW t \in Sessions \ {s} PROVE HoldsLocks(t)'
  <2>1. HoldsLocks(t)
    BY DEF LocksHeld
  <2>2. /\ HasTarget(t)' = HasTarget(t) /\ Cancels(t)' = Cancels(t)
        /\ HasAuthority(t)' = HasAuthority(t) /\ HasCover(t)' = HasCover(t)
        /\ Deletes(t)' = Deletes(t) /\ HasCascaded(t)' = HasCascaded(t)
    BY <1>1 DEF HasTarget, Cancels, HasAuthority, HasCover, Decides, Deletes, HasCascaded
  <2>3. HasAuthority(t) => HasTarget(t)
    BY DEF HasAuthority, HasTarget
  <2>4. HasTarget(t)' => Row(t)' = Row(t)
    BY <1>6
  <2>5. HasCover(t)' => HasRow(t)' /\ Row(t)' = Row(t)
    BY <1>7, <1>8 DEF HasRow
  <2>6. HasCascaded(t)' =>
          \A r \in OwnRequests(call[t].employee)' : <<RequestRow(r), "update">> \in held[t]
    <3>1. HasCascaded(t) => OwnRequests(call[t].employee)' \subseteq OwnRequests(call[t].employee)
      BY <1>1 DEF OwnRequests
    <3> QED
      BY <2>1, <2>2, <3>1 DEF HoldsLocks
  <2> QED
    BY <1>1, <2>1, <2>2, <2>3, <2>4, <2>5, <2>6 DEF HoldsLocks
<1>10. ASSUME NEW t \in Sessions \ {s} PROVE KeepsReads(t)'
  <2>1. KeepsReads(t)
    BY DEF ReadsStable
  <2>2. /\ HasTarget(t)' = HasTarget(t) /\ Cancels(t)' = Cancels(t)
        /\ HasAuthority(t)' = HasAuthority(t) /\ HasCover(t)' = HasCover(t)
    BY <1>1 DEF HasTarget, Cancels, HasAuthority, HasCover, Decides
  <2>3. HasAuthority(t) => HasTarget(t)
    BY DEF HasAuthority, HasTarget
  <2>4. HasTarget(t)' \/ Cancels(t)' =>
          Row(t)' = Row(t) /\ (IsPending(call[t].request)' = IsPending(call[t].request))
    BY <1>1, <1>6, <2>2 DEF IsPending
  <2>5. HasAuthority(t)' => MayDecide(t)'
    <3>1. SUFFICES ASSUME HasAuthority(t)' PROVE MayDecide(t)'
      OBVIOUS
    <3>2. HasAuthority(t) /\ Row(t)' = Row(t) /\ MayDecide(t)
      BY <2>1, <2>2, <2>3, <2>4, <3>1 DEF KeepsReads
    <3>3. department'[Row(t).employee] = department[Row(t).employee]
      BY <3>2
    <3> QED
      BY <1>1, <3>2, <3>3 DEF MayDecide
  <2>6. HasCover(t)' => Covered(t)'
    <3>1. SUFFICES ASSUME HasCover(t)' PROVE Covered(t)'
      OBVIOUS
    <3>2. /\ HasCover(t) /\ Covered(t) /\ CheckedRow(t)' = CheckedRow(t) /\ Row(t)' = Row(t)
          /\ CheckedRow(t) = RowOf(Row(t))
      BY <1>7, <1>8, <2>1, <3>1 DEF KeepsReads
    <3>3. used'[CheckedRow(t)] = used[CheckedRow(t)]
      BY <3>2
    <3> QED
      BY <3>2, <3>3 DEF Covered
  <2> QED
    BY <1>1, <2>1, <2>2, <2>4, <2>5, <2>6 DEF KeepsReads, NobodyDecidedBy
<1>11. HoldsLocks(s)' /\ KeepsReads(s)'
  BY <1>5 DEF HoldsLocks, KeepsReads
<1>12. LocksHeld' /\ ReadsStable'
  BY <1>9, <1>10, <1>11 DEF LocksHeld, ReadsStable
<1> QED
  BY <1>3, <1>4, <1>12

LEMMA CommitSubmitIInv ==
  ASSUME IInv, NEW s \in Sessions, step[s] = "commit", Finish(s), CommitSubmit(s)
  PROVE  IInv'
<1> USE DEF IInv
<1> DEFINE c == call[s]
<1>1. /\ Submits(s)
      /\ requests' = [requests EXCEPT ![c.request] = c.row]
      /\ UNCHANGED <<used, approvals, audit, employeeRows>>
  BY DEF CommitSubmit, Submits
<1>2. /\ c.row \in LeaveRequest /\ requests[c.request] = Absent
      /\ c.row.employee = c.actor /\ c.actor \in present /\ c.request \in Requests
  BY <1>1, CallFields DEF FreshRows, ReadsStable, KeepsReads, OnRoute, Submits
<1>3. TypeOK'
  BY <1>1, <1>2 DEF TypeOK, Finish, Steps, employeeRows
<1>4. ReferencesHold' /\ NoOverdraft'
  BY <1>1, <1>2, AbsentAssumption DEF ReferencesHold, NoOverdraft, TypeOK, employeeRows
<1>5. ASSUME NEW t \in Sessions \ {s}
      PROVE  /\ Submits(t) => requests'[call[t].request] = Absent
             /\ HasTarget(t) \/ Cancels(t) =>
                  requests'[call[t].request] = requests[call[t].request]
  BY <1>1, <1>2 DEF FreshRows, ReadsStable, KeepsReads, IsPending, TypeOK
<1>6. ASSUME NEW t \in Sessions \ {s}, HasCascaded(t), NEW r \in Requests,
             requests'[r] # Absent, requests'[r].employee = call[t].employee
      PROVE  r \in OwnRequests(call[t].employee)
  <2>1. Deletes(t)
    BY <1>6 DEF HasCascaded, Deletes
  <2>2. c.actor # call[t].employee
    BY <2>1, DeletionExcludes
  <2> QED
    BY <1>1, <1>2, <1>6, <2>2 DEF OwnRequests, TypeOK
<1> QED
  BY <1>1, <1>3, <1>4, <1>5, <1>6, CommitFrame
     DEF FreshRows, LocksHeld, HoldsLocks, HasRow, CheckedRow, HasCover, ReadsStable, KeepsReads, NobodyDecidedBy,
         employeeRows

LEMMA CommitDecisionIInv ==
  ASSUME IInv, NEW s \in Sessions, step[s] = "commit", Finish(s),
         CommitApprove(s) \/ CommitReject(s) \/ CommitCancel(s)
  PROVE  IInv'
<1> USE DEF IInv
<1> DEFINE c == call[s]
<1>1. HasTarget(s) \/ Cancels(s)
  BY DEF CommitApprove, CommitReject, CommitCancel, HasTarget, Decides, Cancels
<1>2. IsPending(c.request) /\ c.request \in Requests /\ c.actor \in Employees
  BY <1>1, CallFields DEF ReadsStable, KeepsReads, OnRoute, HasTarget, Decides, Cancels
<1>3. PICK status \in {"approved", "rejected", "cancelled"} :
        requests' = [requests EXCEPT ![c.request].status = status]
  BY DEF CommitApprove, CommitReject, CommitCancel, SetStatus
<1>4. /\ requests[c.request] \in LeaveRequest /\ requests'[c.request] \in LeaveRequest
      /\ requests' \in [Requests -> LeaveRequest \cup {Absent}]
      /\ requests'[c.request].employee = requests[c.request].employee
      /\ \A r \in Requests \ {c.request} : requests'[r] = requests[r]
  BY <1>2, <1>3 DEF IsPending, TypeOK, LeaveRequest
<1>5. /\ UNCHANGED approvals
      \/ \E d \in {"approved", "rejected"} :
           approvals' = [approvals EXCEPT ![c.request] = [approver |-> c.actor, decision |-> d]]
  BY DEF CommitApprove, CommitReject, CommitCancel, WriteApproval
<1>6. approvals' \in [Requests -> Approval \cup {Absent}]
  BY <1>2, <1>5 DEF Approval, TypeOK
<1>7. /\ audit' \subseteq AuditEntry
      /\ \A a \in audit' : a \in audit \/ a.request = c.request
  BY <1>2 DEF CommitApprove, CommitReject, CommitCancel, AuditDecision, AuditEntry, TypeOK
<1>8. UNCHANGED employeeRows
  BY DEF CommitApprove, CommitReject, CommitCancel
<1>9. ReferencesHold'
  <2>1. requests'[c.request] # Absent /\ requests'[c.request].status = status
    BY <1>2, <1>3, <1>4, AbsentAssumption DEF TypeOK, LeaveRequest
  <2>2. \A r \in Requests : requests'[r] # Absent => requests'[r].employee \in present'
    BY <1>2, <1>4, <1>8 DEF ReferencesHold, IsPending, employeeRows
  <2>3. CASE CommitCancel(s)
    BY <1>2, <1>4, <2>2, <2>3 DEF CommitCancel, ReferencesHold, IsPending
  <2>4. CASE CommitApprove(s) \/ CommitReject(s)
    <3>1. requests'[c.request].status \in {"approved", "rejected"}
      BY <1>2, <1>4, <2>4 DEF CommitApprove, CommitReject, SetStatus, TypeOK, LeaveRequest
    <3>2. \A r \in Requests \ {c.request} : approvals'[r] = approvals[r]
      BY <1>2, <2>4 DEF CommitApprove, CommitReject, WriteApproval, TypeOK
    <3> QED
      BY <1>4, <2>1, <2>2, <3>1, <3>2 DEF ReferencesHold
  <2> QED
    BY <2>3, <2>4
<1>10. ASSUME NEW t \in Sessions \ {s}
       PROVE  /\ Submits(t) => /\ requests'[call[t].request] = Absent
                               /\ \A a \in audit' : a.request # call[t].request
              /\ HasTarget(t) \/ Cancels(t) =>
                   requests'[call[t].request] = requests[call[t].request]
  <2>1. Submits(t) => /\ requests[call[t].request] = Absent /\ call[t].request \in Requests
                      /\ \A a \in audit : a.request # call[t].request
    BY CallFields DEF FreshRows, Submits, OnRoute
  <2>2. HasTarget(t) \/ Cancels(t) => call[t].request \in Requests \ {c.request}
    BY <1>1, CommitTouchesOwnRows, CallFields DEF HasTarget, Decides, Cancels, OnRoute
  <2> QED
    BY <1>2, <1>4, <1>7, <2>1, <2>2 DEF IsPending
<1>11. ASSUME NEW t \in Sessions \ {s}, HasCascaded(t), NEW r \in Requests,
              requests'[r] # Absent, requests'[r].employee = call[t].employee
       PROVE  r \in OwnRequests(call[t].employee)
  BY <1>2, <1>4, <1>11 DEF OwnRequests, IsPending
<1>12. ASSUME NEW t \in Sessions \ {s}, step[t] = "commit", call[t].op = "delete",
              NEW r \in Requests, approvals'[r] # Absent
       PROVE  approvals'[r].approver # call[t].employee
  <2>1. Deletes(t)
    BY <1>12 DEF Deletes
  <2>2. c.actor # call[t].employee
    BY <2>1, DeletionExcludes
  <2>3. \A q \in Requests : approvals[q] # Absent => approvals[q].approver # call[t].employee
    BY <1>12 DEF ReadsStable, KeepsReads, NobodyDecidedBy
  <2>4. approvals'[r] = approvals[r] \/ approvals'[r].approver = c.actor
    BY <1>5 DEF TypeOK
  <2> QED
    BY <1>12, <2>2, <2>3, <2>4
<1>13. ASSUME used' \in [DOMAIN used -> Nat], NoOverdraft',
              \A t \in Sessions \ {s} : HasCover(t) => used'[RowOf(Row(t))] = used[RowOf(Row(t))]
       PROVE  IInv'
  <2>1. TypeOK'
    BY <1>4, <1>6, <1>7, <1>8, <1>13 DEF TypeOK, Finish, Steps, employeeRows
  <2>2. \A t \in Sessions \ {s} : HasCover(t) => RowOf(Row(t)) \in DOMAIN used'
    BY <1>13 DEF LocksHeld, HoldsLocks, HasRow, CheckedRow, HasCover
  <2>3. \A t \in Sessions \ {s} : step[t] = "commit" => call[t].actor \in present'
    BY <1>8 DEF ReadsStable, KeepsReads, employeeRows
  <2>4. department' = department
    BY <1>8 DEF employeeRows
  <2> QED
    BY <1>9, <1>10, <1>11, <1>12, <1>13, <2>1, <2>2, <2>3, <2>4, CommitFrame
<1>14. CASE CommitApprove(s)
  <2>1. HasCover(s) /\ Row(s) = requests[c.request] /\ Charge(s)
    BY <1>14 DEF CommitApprove, HasCover, Row
  <2>2. /\ RowOf(Row(s)) \in DOMAIN used /\ Row(s).days \in Nat
        /\ used[RowOf(Row(s))] + Row(s).days <= Allocated[RowOf(Row(s))]
    BY <1>4, <2>1, LedgerAssumption DEF LocksHeld, HoldsLocks, ReadsStable, KeepsReads, HasRow, Covered, CheckedRow,
       HasCover, LeaveRequest
  <2>3. used' \in [DOMAIN used -> Nat] /\ NoOverdraft'
    BY <2>1, <2>2 DEF Charge, TypeOK, NoOverdraft
  <2>4. \A t \in Sessions \ {s} : HasCover(t) => used'[RowOf(Row(t))] = used[RowOf(Row(t))]
    BY <2>1, <2>2, CommitTouchesOwnRows DEF Charge, TypeOK, LocksHeld, HoldsLocks, HasRow, CheckedRow, HasCover
  <2> QED
    BY <1>13, <2>3, <2>4
<1>15. CASE CommitReject(s) \/ CommitCancel(s)
  <2>1. UNCHANGED used
    BY <1>15 DEF CommitReject, CommitCancel
  <2>2. used' \in [DOMAIN used -> Nat] /\ NoOverdraft'
    BY <2>1 DEF TypeOK, NoOverdraft
  <2> QED
    BY <1>13, <2>1, <2>2
<1> QED
  BY <1>14, <1>15

(* What goes with an employee, table by table. *)
LEMMA DismissTables ==
  ASSUME TypeOK, NEW e \in Employees, Dismiss(e)
  PROVE  /\ requests' \in [Requests -> LeaveRequest \cup {Absent}]
         /\ approvals' \in [Requests -> Approval \cup {Absent}]
         /\ DOMAIN used' = {b \in DOMAIN used : b[1] # e}
         /\ used' \in [DOMAIN used' -> Nat]
         /\ \A b \in DOMAIN used' : used'[b] = used[b]
         /\ \A r \in OwnRequests(e) : requests'[r] = Absent /\ approvals'[r] = Absent
         /\ \A r \in Requests \ OwnRequests(e) :
              requests'[r] = requests[r] /\ approvals'[r] = approvals[r]
BY DEF Dismiss, Without, OwnRequests, TypeOK

LEMMA CommitDeleteIInv ==
  ASSUME IInv, NEW s \in Sessions, step[s] = "commit", Finish(s), CommitDelete(s)
  PROVE  IInv'
<1> USE DEF IInv
<1> DEFINE e == call[s].employee
<1>1. /\ Deletes(s) /\ HasCascaded(s) /\ e \in Employees
      /\ Dismiss(e) /\ RemoveRow(e) /\ audit' = Anonymous(audit, e)
  BY CallFields DEF CommitDelete, Deletes, HasCascaded, OnRoute
<1> HIDE DEF e
<1>2. /\ requests' \in [Requests -> LeaveRequest \cup {Absent}]
      /\ approvals' \in [Requests -> Approval \cup {Absent}]
      /\ DOMAIN used' = {b \in DOMAIN used : b[1] # e}
      /\ used' \in [DOMAIN used' -> Nat]
      /\ \A b \in DOMAIN used' : used'[b] = used[b]
      /\ \A r \in OwnRequests(e) : requests'[r] = Absent /\ approvals'[r] = Absent
      /\ \A r \in Requests \ OwnRequests(e) :
           requests'[r] = requests[r] /\ approvals'[r] = approvals[r]
  BY <1>1, DismissTables
<1>3. /\ present' = present \ {e}
      /\ department' \in [Employees -> Departments \cup {Absent}]
      /\ \A f \in Employees \ {e} : department'[f] = department[f]
  BY <1>1 DEF RemoveRow, TypeOK
<1>4. /\ audit' \subseteq AuditEntry
      /\ \A a \in audit' : \E b \in audit : a.request = b.request
  <2> SUFFICES ASSUME NEW a \in audit'
               PROVE  a \in AuditEntry /\ \E b \in audit : a.request = b.request
    OBVIOUS
  <2>1. PICK b \in audit : a = [b EXCEPT !.actor = IF @ = e THEN Absent ELSE @]
    BY <1>1 DEF Anonymous
  <2>2. b \in AuditEntry
    BY DEF TypeOK
  <2>3. a \in AuditEntry /\ a.request = b.request
    BY <2>1, <2>2 DEF AuditEntry
  <2> QED
    BY <2>3
<1>5. TypeOK'
  BY <1>2, <1>3, <1>4 DEF TypeOK, Finish, Steps
<1>6. NoOverdraft'
  BY <1>2 DEF NoOverdraft
<1>7. ReferencesHold'
  <2> SUFFICES ASSUME NEW r \in Requests
               PROVE  /\ approvals'[r] # Absent =>
                           requests'[r] # Absent /\ requests'[r].status \in {"approved", "rejected"}
                      /\ requests'[r] # Absent => requests'[r].employee \in present'
    BY DEF ReferencesHold
  <2>1. CASE r \in OwnRequests(e)
    BY <1>2, <2>1
  <2>2. CASE r \notin OwnRequests(e)
    BY <1>2, <1>3, <2>2 DEF ReferencesHold, OwnRequests
  <2> QED
    BY <2>1, <2>2
<1>8. ASSUME NEW t \in Sessions \ {s}
      PROVE  /\ HasAuthority(t) => Row(t).employee # e
             /\ step[t] = "commit" => call[t].actor # e
             /\ HasTarget(t) \/ Cancels(t) => call[t].request \notin OwnRequests(e)
  BY <1>1, DeletionExcludes DEF e
<1>9. ASSUME NEW t \in Sessions \ {s}
      PROVE  /\ Submits(t) => /\ requests'[call[t].request] = Absent
                              /\ \A a \in audit' : a.request # call[t].request
             /\ HasTarget(t) \/ Cancels(t) =>
                  requests'[call[t].request] = requests[call[t].request]
  <2>1. Submits(t) => call[t].request \in Requests
    BY CallFields DEF Submits, OnRoute
  <2>2. HasTarget(t) \/ Cancels(t) => call[t].request \in Requests
    BY CallFields DEF HasTarget, Cancels, Decides, OnRoute
  <2>3. Submits(t) => requests'[call[t].request] = Absent
    BY <1>2, <2>1 DEF FreshRows
  <2>4. Submits(t) => \A a \in audit' : a.request # call[t].request
    BY <1>4 DEF FreshRows
  <2> QED
    BY <1>2, <1>8, <2>2, <2>3, <2>4
<1>10. ASSUME NEW t \in Sessions \ {s}, HasAuthority(t)
       PROVE  /\ department'[Row(t).employee] = department[Row(t).employee]
              /\ HasCover(t) => /\ RowOf(Row(t)) \in DOMAIN used'
                                /\ used'[RowOf(Row(t))] = used[RowOf(Row(t))]
  <2>1. Row(t) \in LeaveRequest /\ Row(t).employee # e
    BY <1>8, <1>10, CallFields DEF HasAuthority, ReadsStable, KeepsReads, HasTarget, IsPending, Row, Decides,
       OnRoute, TypeOK
  <2>2. Row(t).employee \in Employees
    BY <2>1 DEF LeaveRequest
  <2>3. HasCover(t) => RowOf(Row(t)) \in DOMAIN used
    BY DEF LocksHeld, HoldsLocks, HasRow, CheckedRow, HasCover
  <2>4. RowOf(Row(t))[1] # e
    BY <2>1 DEF RowOf
  <2> QED
    BY <1>2, <1>3, <2>1, <2>2, <2>3, <2>4
<1>11. \A t \in Sessions : HasCover(t) => HasAuthority(t)
  BY DEF HasCover, HasAuthority, Decides
<1>12. ASSUME NEW t \in Sessions \ {s}, HasCascaded(t), NEW r \in Requests,
              requests'[r] # Absent, requests'[r].employee = call[t].employee
       PROVE  r \in OwnRequests(call[t].employee)
  BY <1>2, <1>12 DEF OwnRequests
<1>13. ASSUME NEW t \in Sessions \ {s}, step[t] = "commit"
       PROVE  /\ call[t].actor \in present'
              /\ call[t].op = "delete" =>
                   \A r \in Requests :
                     approvals'[r] # Absent => approvals'[r].approver # call[t].employee
  BY <1>2, <1>3, <1>8, <1>13 DEF ReadsStable, KeepsReads, NobodyDecidedBy
<1> QED
  BY <1>5, <1>6, <1>7, <1>9, <1>10, <1>11, <1>12, <1>13, CommitFrame

LEMMA CommitIInv ==
  ASSUME IInv, NEW s \in Sessions, Commit(s)
  PROVE  IInv'
<1>1. step[s] = "commit" /\ Finish(s)
  BY DEF Commit
<1>2. CASE CommitSubmit(s)
  BY <1>1, <1>2, CommitSubmitIInv
<1>3. CASE CommitApprove(s) \/ CommitReject(s) \/ CommitCancel(s)
  BY <1>1, <1>3, CommitDecisionIInv
<1>4. CASE CommitDelete(s)
  BY <1>1, <1>4, CommitDeleteIInv
<1> QED
  BY <1>2, <1>3, <1>4 DEF Commit

LEMMA LearningIInv ==
  ASSUME IInv, NEW e \in Employees, NEW t \in LeaveTypes, NEW b \in StartDates,
         NEW d \in DayCounts, CreateLearningLeaveRequest(e, t, b, d)
  PROVE  IInv'
<1> USE DEF IInv
<1>1. PICK r \in Requests :
        FreshId(r) /\ requests' = [requests EXCEPT ![r] = NewRow(e, t, b, d)]
  BY DEF CreateLearningLeaveRequest
<1>2. UNCHANGED <<used, approvals, audit, employeeRows, sessionState>> /\ e \in present
  BY DEF CreateLearningLeaveRequest
<1>3. NewRow(e, t, b, d) \in LeaveRequest /\ NewRow(e, t, b, d).employee = e
  BY DEF NewRow, LeaveRequest
<1>4. TypeOK'
  BY <1>1, <1>2, <1>3 DEF TypeOK, employeeRows, sessionState
<1>5. OnRoute' /\ LocksExclude'
  BY <1>2 DEF OnRoute, Decides, LocksExclude, sessionState
<1>6. FreshRows'
  BY <1>1, <1>2 DEF FreshRows, Submits, FreshId, sessionState, TypeOK
<1>7. \A s \in Sessions : HasTarget(s) \/ Cancels(s) =>
        requests'[call[s].request] = requests[call[s].request]
  BY <1>1 DEF ReadsStable, KeepsReads, IsPending, FreshId, TypeOK
<1>8. \A s \in Sessions : HasCascaded(s) => call[s].employee # e
  BY DEF LocksHeld, HoldsLocks, HasCascaded, Deletes, CreateLearningLeaveRequest
<1>9. \A s \in Sessions : HasCascaded(s) =>
        \A q \in Requests :
          requests'[q] # Absent /\ requests'[q].employee = call[s].employee =>
            q \in OwnRequests(call[s].employee)
  BY <1>1, <1>3, <1>8 DEF OwnRequests, TypeOK
<1>10. \A s \in Sessions : HasCover(s) => HasTarget(s) /\ CheckedRow(s) = RowOf(Row(s))
  BY DEF HasCover, HasTarget, Decides, CheckedRow
<1>11. ASSUME NEW s \in Sessions PROVE HoldsLocks(s)' /\ KeepsReads(s)'
  <2>1. /\ HasTarget(s)' = HasTarget(s) /\ Cancels(s)' = Cancels(s)
        /\ HasAuthority(s)' = HasAuthority(s) /\ HasCover(s)' = HasCover(s)
        /\ Deletes(s)' = Deletes(s) /\ HasCascaded(s)' = HasCascaded(s)
    BY <1>2 DEF HasTarget, Cancels, HasAuthority, HasCover, Decides, Deletes, HasCascaded,
       sessionState
  <2>2. HasTarget(s) \/ Cancels(s) =>
          Row(s)' = Row(s) /\ (IsPending(call[s].request)' = IsPending(call[s].request))
    BY <1>2, <1>7 DEF Row, IsPending, HasTarget, Cancels, Decides, sessionState
  <2>3. HasAuthority(s) => HasTarget(s)
    BY DEF HasAuthority, HasTarget
  <2>4. HasCover(s) => CheckedRow(s)' = CheckedRow(s) /\ CheckedRow(s) = RowOf(Row(s)) /\ Row(s)' = Row(s)
    BY <1>2, <1>10, <2>1, <2>2 DEF CheckedRow, HasCover, sessionState
  <2>5. HasCascaded(s) => OwnRequests(call[s].employee)' \subseteq OwnRequests(call[s].employee)
    BY <1>2, <1>9 DEF OwnRequests, sessionState
  <2>6. HoldsLocks(s) /\ KeepsReads(s) /\ UNCHANGED <<step, call, held>>
    BY <1>2 DEF LocksHeld, ReadsStable, sessionState
  <2>7. HoldsLocks(s)'
    BY <1>2, <2>1, <2>2, <2>3, <2>4, <2>5, <2>6 DEF HoldsLocks, HasRow
  <2>8. KeepsReads(s)'
    BY <1>2, <2>1, <2>2, <2>3, <2>4, <2>6 DEF KeepsReads, NobodyDecidedBy, MayDecide, Covered,
       employeeRows
  <2> QED
    BY <2>7, <2>8
<1>12. LocksHeld' /\ ReadsStable'
  BY <1>11 DEF LocksHeld, ReadsStable
<1>13. ReferencesHold' /\ NoOverdraft'
  BY <1>1, <1>2, <1>3 DEF ReferencesHold, NoOverdraft, FreshId, TypeOK, employeeRows
<1> QED
  BY <1>4, <1>5, <1>6, <1>12, <1>13

(* A department changes, or an employee arrives: nobody decides about it. *)
LEMMA EmployeeIInv ==
  ASSUME IInv, NEW e \in Employees, UpdateEmployee(e) \/ CreateEmployee(e)
  PROVE  IInv'
<1> USE DEF IInv
<1>1. UNCHANGED <<tables, sessionState>> /\ present' \in {present, present \cup {e}}
  BY DEF UpdateEmployee, CreateEmployee
<1>2. PICK d \in Departments \cup {Absent} : department' = [department EXCEPT ![e] = d]
  BY DEF UpdateEmployee, CreateEmployee
<1>3. TypeOK'
  BY <1>1, <1>2 DEF TypeOK, tables, sessionState
<1>4. OnRoute' /\ FreshRows' /\ LocksExclude' /\ LocksHeld'
  BY <1>1 DEF OnRoute, FreshRows, LocksExclude, LocksHeld, HoldsLocks, Submits, HasTarget, Cancels,
     HasAuthority, HasCover, Decides, Deletes, HasCascaded, OwnRequests, Row, HasRow, CheckedRow,
     tables, sessionState
<1>5. ReferencesHold' /\ NoOverdraft'
  BY <1>1 DEF ReferencesHold, NoOverdraft, tables
<1>6. \A s \in Sessions : HasAuthority(s) => Row(s).employee # e
  <2>1. CASE UpdateEmployee(e)
    BY <2>1 DEF LocksHeld, HoldsLocks, UpdateEmployee
  <2>2. CASE CreateEmployee(e)
    <3>1. \A s \in Sessions : HasAuthority(s) =>
            /\ call[s].request \in Requests /\ Row(s) = requests[call[s].request]
            /\ requests[call[s].request] # Absent
      BY CallFields DEF HasAuthority, HasTarget, Decides, ReadsStable, KeepsReads, IsPending, OnRoute, Row
    <3> QED
      BY <2>2, <3>1 DEF ReferencesHold, CreateEmployee
  <2> QED
    BY <2>1, <2>2
<1>7. ReadsStable'
  BY <1>1, <1>2, <1>6 DEF ReadsStable, KeepsReads, HasTarget, Cancels, HasAuthority, HasCover, Decides,
     NobodyDecidedBy, Row, MayDecide, Covered, CheckedRow, IsPending, TypeOK, tables, sessionState
<1> QED
  BY <1>3, <1>4, <1>5, <1>7

LEMMA NextIInv == IInv /\ [NextManagement]_allVars => IInv'
<1> SUFFICES ASSUME IInv, [NextManagement]_allVars PROVE IInv'
  OBVIOUS
<1>1. CASE UNCHANGED allVars
  <2>1. UNCHANGED <<tables, employeeRows, step, call, held>>
    BY <1>1 DEF allVars, sessionState
  <2>2. LocksHeld' /\ ReadsStable'
    BY <2>1, SameTables DEF IInv, LocksHeld, ReadsStable
  <2>3. TypeOK' /\ OnRoute' /\ LocksExclude'
    BY <2>1 DEF IInv, TypeOK, OnRoute, Decides, LocksExclude, tables, employeeRows
  <2>4. FreshRows' /\ ReferencesHold' /\ NoOverdraft'
    BY <2>1 DEF IInv, FreshRows, Submits, ReferencesHold, NoOverdraft, tables, employeeRows
  <2> QED
    BY <2>2, <2>3, <2>4 DEF IInv
<1>2. ASSUME NEW s \in Sessions, Arrive(s) PROVE IInv'
  BY <1>2, ArriveIInv
<1>3. ASSUME NEW s \in Sessions, Execute(s) PROVE IInv'
  BY <1>3, LockRequestIInv, LockEmployeeIInv, LockBalanceIInv, RemoveEmployeeIInv,
     CascadeDeleteIInv, RecordIInv, CommitIInv DEF Execute
<1>4. ASSUME NEW s \in Sessions, Abort(s) \/ DeadlockVictim(s) PROVE IInv'
  BY <1>4, RollbackIInv DEF Abort, DeadlockVictim
<1>5. ASSUME NEW e \in Employees, NEW t \in LeaveTypes, NEW b \in StartDates, NEW d \in DayCounts,
             CreateLearningLeaveRequest(e, t, b, d)
      PROVE  IInv'
  BY <1>5, LearningIInv
<1>6. ASSUME NEW e \in Employees, UpdateEmployee(e) \/ CreateEmployee(e) PROVE IInv'
  BY <1>6, EmployeeIInv
<1> QED
  BY <1>1, <1>2, <1>3, <1>4, <1>5, <1>6 DEF NextManagement

LEMMA Invariance == ManagementSpec => []IInv
<1>1. InitManagement => IInv
  BY InitIInv
<1>2. IInv /\ [NextManagement]_allVars => IInv'
  BY NextIInv
<1> QED
  BY <1>1, <1>2, PTL DEF ManagementSpec

-----------------------------------------------------------------------------
(* The columns and the sessions stay within their types. *)
THEOREM TypeCorrect == ManagementSpec => []TypeOK
<1>1. IInv => TypeOK
  BY DEF IInv
<1> QED
  BY <1>1, Invariance, PTL

(* What approveLeave and rejectLeave read stays true until they commit, so *)
(* the CHECK on used_days and the UNIQUE on leave_approvals never fire.    *)
THEOREM DecisionsStayValid == ManagementSpec => []DecisionStillValid
<1>1. IInv => DecisionStillValid
  <2> SUFFICES ASSUME IInv, NEW s \in Sessions, step[s] \in {"record", "commit"}, Decides(s)
               PROVE  /\ IsPending(call[s].request)
                      /\ approvals[call[s].request] = Absent
                      /\ call[s].op = "approve" => HasRow(s) /\ Covered(s)
    BY DEF DecisionStillValid, Decides
  <2>1. IsPending(call[s].request) /\ call[s].request \in Requests
    BY CallFields DEF IInv, ReadsStable, KeepsReads, HasTarget, OnRoute, Decides
  <2>2. approvals[call[s].request] = Absent
    BY <2>1 DEF IInv, ReferencesHold, IsPending
  <2>3. call[s].op = "approve" => HasRow(s) /\ Covered(s)
    BY DEF IInv, ReadsStable, KeepsReads, LocksHeld, HoldsLocks, HasCover
  <2> QED
    BY <2>1, <2>2, <2>3
<1> QED
  BY <1>1, Invariance, PTL

(* The requester cannot leave the department the approver's authority was  *)
(* checked for before the decision commits.                                *)
THEOREM RequestersStayInTeam == ManagementSpec => []RequesterStaysInTeam
<1>1. IInv => RequesterStaysInTeam
  BY DEF IInv, ReadsStable, KeepsReads, HasAuthority, Decides, MayDecide, RequesterStaysInTeam
<1> QED
  BY <1>1, Invariance, PTL

-----------------------------------------------------------------------------
(* What each commit does to the tables, as a step of the leave ledger.     *)

LEMMA CommitRefines ==
  ASSUME IInv, NEW s \in Sessions, Commit(s)
  PROVE  Next
<1> USE DEF IInv
<1> DEFINE c == call[s]
<1>1. step[s] = "commit" /\ c \in Call /\ c.actor \in Employees
  BY CallFields DEF Commit, OnRoute
<1>2. c.op # "delete" => c.request \in Requests
  BY <1>1, CallFields
<1>3. CASE CommitSubmit(s)
  <2>1. c.row \in LeaveRequest /\ c.row.status = "pending" /\ requests[c.request] = Absent
    BY <1>1, <1>3 DEF FreshRows, Submits, CommitSubmit
  <2>2. c.row = NewRow(c.row.employee, c.row.type, c.row.start, c.row.days)
    BY <2>1 DEF LeaveRequest, NewRow
  <2>3. File(c.request, c.row.employee, c.row.type, c.row.start, c.row.days)
    BY <1>3, <2>1, <2>2 DEF CommitSubmit, File
  <2>4. /\ c.row.employee \in Employees /\ c.row.type \in LeaveTypes
        /\ c.row.start \in StartDates /\ c.row.days \in DayCounts
    BY <2>1 DEF LeaveRequest
  <2> QED
    BY <1>2, <1>3, <2>3, <2>4 DEF CommitSubmit, Next
<1>4. CommitCancel(s) => Withdraw(c.request)
  BY <1>1 DEF CommitCancel, Withdraw, ReadsStable, KeepsReads, Cancels
<1>5. Decides(s) =>
        /\ IsPending(c.request) /\ approvals[c.request] = Absent
        /\ Row(s) = requests[c.request] /\ c.actor # requests[c.request].employee
  BY <1>1, <1>2 DEF ReadsStable, KeepsReads, HasTarget, HasAuthority, Decides, MayDecide, Row,
     ReferencesHold, IsPending
<1>6. CommitReject(s) => Reject(c.request, c.actor)
  BY <1>5 DEF CommitReject, Reject, Decide, WriteApproval, Decides
<1>7. ASSUME CommitApprove(s) PROVE Approve(c.request, c.actor)
  <2>1. HasCover(s) /\ Decides(s) /\ CheckedRow(s) = RowOf(requests[c.request])
    BY <1>1, <1>5, <1>7 DEF CommitApprove, HasCover, Decides, CheckedRow
  <2> QED
    BY <1>5, <1>7, <2>1 DEF CommitApprove, Approve, Decide, WriteApproval, Charge,
       LocksHeld, HoldsLocks, ReadsStable, KeepsReads, HasRow, Covered
<1>8. CASE CommitDelete(s)
  BY <1>1, <1>8, CallFields DEF CommitDelete, Next
<1> QED
  BY <1>1, <1>2, <1>3, <1>4, <1>6, <1>7, <1>8
     DEF Commit, Next, CommitCancel, CommitReject, CommitApprove

(* The interleaved transactions implement the leave ledger. *)
THEOREM ManagementImplementsLedger == ManagementSpec => ImplementsLedger
<1>1. InitManagement => Init
  BY DEF InitManagement
<1>2. IInv /\ [NextManagement]_allVars => [Next]_vars
  <2> SUFFICES ASSUME IInv, [NextManagement]_allVars PROVE [Next]_vars
    OBVIOUS
  <2>1. CASE UNCHANGED allVars
    BY <2>1 DEF allVars, tables, vars
  <2>2. ASSUME NEW s \in Sessions, Arrive(s) \/ Abort(s) \/ DeadlockVictim(s)
        PROVE  UNCHANGED vars
    BY <2>2 DEF Arrive, RequestLeave, ApproveLeave, RejectLeave, CancelLeave, DeleteEmployee,
       Begin, Abort, DeadlockVictim, tables, vars
  <2>3. ASSUME NEW s \in Sessions, Execute(s)
        PROVE  [Next]_vars
    <3>1. CASE Commit(s)
      BY <3>1, CommitRefines
    <3>2. CASE LockRequest(s) \/ LockEmployee(s) \/ LockBalance(s) \/ RemoveEmployee(s)
               \/ CascadeDelete(s) \/ Record(s)
      BY <3>2 DEF LockRequest, LockEmployee, LockBalance, RemoveEmployee, CascadeDelete, Record,
         tables, vars
    <3> QED
      BY <2>3, <3>1, <3>2 DEF Execute
  <2>4. ASSUME NEW e \in Employees, NEW t \in LeaveTypes, NEW b \in StartDates, NEW d \in DayCounts,
               CreateLearningLeaveRequest(e, t, b, d)
        PROVE  Next
    BY <2>4 DEF CreateLearningLeaveRequest, FreshId, File, Next
  <2>5. ASSUME NEW e \in Employees, UpdateEmployee(e) \/ CreateEmployee(e) PROVE UNCHANGED vars
    BY <2>5 DEF UpdateEmployee, CreateEmployee, tables, vars
  <2> QED
    BY <2>1, <2>2, <2>3, <2>4, <2>5 DEF NextManagement
<1> QED
  BY <1>1, <1>2, Invariance, PTL DEF ManagementSpec, ImplementsLedger, Spec

(* A decided or withdrawn request is never touched again, until it goes    *)
(* with its employee.                                                      *)
THEOREM DecisionsAreFinal == ManagementSpec => DecidedForGood
<1> DEFINE Final == \A r \in Requests :
                      requests[r] # Absent /\ ~IsPending(r) =>
                        requests'[r] \in {requests[r], Absent}
<1>1. IInv /\ [Next]_vars => Final
  <2> SUFFICES ASSUME IInv, [Next]_vars PROVE Final
    OBVIOUS
  <2>1. requests \in [Requests -> LeaveRequest \cup {Absent}]
    BY DEF IInv, TypeOK
  <2>2. ASSUME NEW q \in Requests, NEW e, NEW t, NEW b, NEW d, File(q, e, t, b, d) PROVE Final
    BY <2>1, <2>2 DEF File
  <2>3. ASSUME NEW q \in Requests, NEW status, IsPending(q), SetStatus(q, status) PROVE Final
    BY <2>1, <2>3 DEF SetStatus, IsPending
  <2>4. ASSUME NEW e \in Employees, Dismiss(e) PROVE Final
    BY <2>4 DEF Dismiss, Without
  <2> QED
    BY <2>2, <2>3, <2>4 DEF Next, vars, Withdraw, Reject, Approve, Decide
<1>2. ManagementSpec => [][Next]_vars
  BY ManagementImplementsLedger, PTL DEF ImplementsLedger, Spec
<1>3. IInv /\ [Next]_vars => [Final]_allVars
  BY <1>1
<1> QED
  BY <1>2, <1>3, Invariance, PTL DEF DecidedForGood

(* used_days moves only with the one approval that is charged to its row. *)
THEOREM ChargesMatchApprovals == ManagementSpec => ChargedOnce
<1> DEFINE Charged(b, r) ==
             /\ IsPending(r) /\ requests'[r].status = "approved" /\ RowOf(requests[r]) = b
             /\ used'[b] = used[b] + requests[r].days
             /\ \A q \in Requests \ {r} : requests'[q] = requests[q]
           Once == \A b \in DOMAIN used \cap DOMAIN used' :
                     used'[b] # used[b] => \E r \in Requests : Charged(b, r)
<1>1. TypeOK /\ [Next]_vars => Once
  <2> SUFFICES ASSUME TypeOK, [Next]_vars, NEW b \in DOMAIN used \cap DOMAIN used',
                      used'[b] # used[b]
               PROVE  \E r \in Requests : Charged(b, r)
    OBVIOUS
  <2>0. ASSUME NEW e \in Employees, Dismiss(e) PROVE FALSE
    BY <2>0 DEF Dismiss
  <2>1. PICK r \in Requests, m \in Employees : Approve(r, m)
    BY <2>0 DEF Next, vars, File, Withdraw, Reject
  <2>2. RowOf(requests[r]) = b /\ used'[b] = used[b] + requests[r].days
    BY <2>1 DEF Approve, TypeOK
  <2>3. requests[r] \in LeaveRequest /\ IsPending(r)
    BY <2>1 DEF Approve, Decide, TypeOK, IsPending
  <2>4. /\ requests'[r].status = "approved"
        /\ \A q \in Requests \ {r} : requests'[q] = requests[q]
    BY <2>1, <2>3 DEF Approve, Decide, SetStatus, TypeOK, LeaveRequest
  <2> QED
    BY <2>2, <2>3, <2>4
<1>2. ManagementSpec => [][Next]_vars
  BY ManagementImplementsLedger, PTL DEF ImplementsLedger, Spec
<1>3. TypeOK /\ [Next]_vars => [Once]_allVars
  BY <1>1
<1> QED
  BY <1>2, <1>3, TypeCorrect, PTL DEF ChargedOnce

-----------------------------------------------------------------------------
(* Deadlocks.  A transaction holds nothing before its first lock, and a    *)
(* cancellation holds only its request when it asks for its second.        *)

LockDiscipline ==
  \A s \in Sessions :
    /\ step[s] \in {"idle", "request"} => held[s] = {}
    /\ step[s] = "record" /\ call[s].op = "cancel" =>
         held[s] \subseteq {<<RequestRow(call[s].request), "noKeyUpdate">>}

LEMMA DisciplineInvariant == ManagementSpec => []LockDiscipline
<1>1. InitManagement => LockDiscipline
  BY DEF InitManagement, LockDiscipline
<1>2. ASSUME IInv, LockDiscipline, [NextManagement]_allVars
      PROVE  LockDiscipline'
  <2> USE <1>2 DEF IInv
  <2>1. CASE UNCHANGED allVars
    BY <2>1 DEF LockDiscipline, allVars, sessionState
  <2>2. ASSUME NEW s \in Sessions, NEW c \in Call, Begin(s, c)
        PROVE  LockDiscipline'
    BY <2>2, CallFields DEF Begin, LockDiscipline, TypeOK, Route, LeaveOperations
  <2>3. ASSUME NEW s \in Sessions, Arrive(s)
        PROVE  \E c \in Call : Begin(s, c)
    BY <2>3 DEF Arrive, RequestLeave, ApproveLeave, RejectLeave, CancelLeave, DeleteEmployee,
       NewRow, TypeOK, Call, LeaveCall, Deletion, LeaveOperations, LeaveRequest
  <2>4. ASSUME NEW s \in Sessions, Finish(s)
        PROVE  LockDiscipline'
    BY <2>4 DEF Finish, LockDiscipline, TypeOK
  <2>5. ASSUME NEW s \in Sessions, LockRequest(s), Proceed(s),
               Lock(s, RequestRow(call[s].request), TargetMode(s))
        PROVE  LockDiscipline'
    <3>1. /\ step[s] = "request" /\ held[s] = {}
          /\ call[s].op \in {"approve", "reject", "cancel"}
      BY <2>5 DEF LockRequest, LockDiscipline, OnRoute
    <3>2. step'[s] = IF call[s].op = "cancel" THEN "record" ELSE "employee"
      BY <2>5, <3>1 DEF Proceed, Route, TypeOK
    <3>3. held'[s] = {<<RequestRow(call[s].request), TargetMode(s)>>} /\ UNCHANGED call
      BY <2>5, <3>1 DEF Lock, Proceed, TypeOK
    <3>4. \A t \in Sessions \ {s} : held'[t] = held[t] /\ step'[t] = step[t]
      BY <2>5 DEF Lock, Proceed, TypeOK
    <3> QED
      BY <3>2, <3>3, <3>4 DEF LockDiscipline, TargetMode
  <2>6. ASSUME NEW s \in Sessions, Proceed(s),
               step[s] \in {"employee", "balance", "remove", "cascade", "record"},
               \A t \in Sessions \ {s} : held'[t] = held[t]
        PROVE  LockDiscipline'
    <3>1. call[s] \in Call /\ UNCHANGED call
      BY <2>6 DEF OnRoute, Proceed
    <3>2. step'[s] = Route[call[s].op][step[s]]
      BY <2>6 DEF Proceed, TypeOK
    <3>3. step[s] = "employee" => step'[s] \in {"balance", "record"} /\ call[s].op # "cancel"
      BY <3>2 DEF OnRoute, Decides, Route
    <3>4. step[s] = "balance" => step'[s] = "record" /\ call[s].op # "cancel"
      BY <3>2 DEF OnRoute, Route
    <3>5. step[s] = "record" => step'[s] = "commit"
      BY <3>1, <3>2, CallFields DEF Route, LeaveOperations
    <3>7. step[s] \in {"remove", "cascade"} =>
            step'[s] \in {"cascade", "record"} /\ call[s].op # "cancel"
      BY <3>2 DEF OnRoute, Route
    <3>6. \A t \in Sessions \ {s} : step'[t] = step[t]
      BY <2>6 DEF Proceed, TypeOK
    <3> QED
      BY <2>6, <3>1, <3>3, <3>4, <3>5, <3>6, <3>7 DEF LockDiscipline
  <2>7. ASSUME NEW s \in Sessions, Execute(s)
        PROVE  LockDiscipline'
    <3>1. CASE CascadeDelete(s) /\ UNCHANGED <<step, call>>
      <4>1. step[s] = "cascade" /\ \A t \in Sessions \ {s} : held'[t] = held[t]
        BY <3>1 DEF CascadeDelete, Lock, Proceed, TypeOK
      <4> QED
        BY <3>1, <4>1 DEF LockDiscipline
    <3> QED
      BY <2>4, <2>5, <2>6, <2>7, <3>1 DEF Execute, LockRequest, LockEmployee, LockBalance,
         RemoveEmployee, CascadeDelete, Record, Commit, Lock, TypeOK
  <2>8. ASSUME UNCHANGED sessionState
        PROVE  LockDiscipline'
    BY <2>8 DEF sessionState, LockDiscipline
  <2> QED
    BY <2>1, <2>2, <2>3, <2>4, <2>7, <2>8 DEF NextManagement, Abort, DeadlockVictim,
       CreateLearningLeaveRequest, UpdateEmployee, CreateEmployee
<1> QED
  BY <1>1, <1>2, Invariance, PTL DEF ManagementSpec

(* In a minimal cycle of waiting sessions everybody is waited for. *)
LEMMA CycleMembers ==
  ASSUME NEW D \in SUBSET Sessions, IsCycle(D), NEW s \in D
  PROVE  \E t \in D : WaitsFor(t, s)
<1> SUFFICES ASSUME \A t \in D : ~WaitsFor(t, s) PROVE FALSE
  OBVIOUS
<1>1. PICK u \in D : WaitsFor(s, u)
  BY DEF IsCycle, AllWaiting
<1>2. u # s
  BY <1>1 DEF WaitsFor
<1>3. AllWaiting(D \ {s})
  BY <1>2 DEF IsCycle, AllWaiting
<1> QED
  BY <1>3 DEF IsCycle

(* A cancellation waits either before it holds anything, or holding a      *)
(* request that others want only before they hold anything: unless they    *)
(* delete its employee, whose row the cancellation then waits for.         *)
THEOREM CancellationsDeadlockWithDeletions == ManagementSpec => []CancellationCycles
<1>1. ASSUME IInv, LockDiscipline, NEW D \in SUBSET Sessions, IsCycle(D), NEW s \in D,
             call[s].op = "cancel"
      PROVE  \E t \in D : /\ call[t].op = "delete" /\ call[t].employee = call[s].actor
                          /\ D = {s, t}
  <2>1. PICK t \in D : WaitsFor(t, s)
    BY <1>1, CycleMembers
  <2>2. PICK u \in D : WaitsFor(u, t)
    BY <1>1, CycleMembers
  <2>3. PICK v \in D : WaitsFor(s, v)
    BY <1>1 DEF IsCycle, AllWaiting
  <2>4. held[s] # {} /\ held[t] # {}
    BY <2>1, <2>2 DEF WaitsFor
  <2>5. step[s] = "record"
    BY <1>1, <2>3, <2>4 DEF WaitsFor, Wants, LockDiscipline, IInv, OnRoute, Decides
  <2>6. held[s] \subseteq {<<RequestRow(call[s].request), "noKeyUpdate">>}
    BY <1>1, <2>5 DEF LockDiscipline
  <2>7. /\ call[s].request \in Requests /\ call[s].actor \in Employees
        /\ requests[call[s].request].employee = call[s].actor
    BY <1>1, <2>5, CallFields DEF IInv, OnRoute, ReadsStable, KeepsReads, Cancels, Row
  <2>8. step[t] = "cascade" /\ RequestRow(call[s].request) \in CascadeNext(t)
    <3>1. PICK l \in held[s], mode \in Modes : Wants(t, l[1], mode)
      BY <2>1 DEF WaitsFor
    <3>2. l = <<RequestRow(call[s].request), "noKeyUpdate">>
      BY <2>6
    <3>3. l[1] = RequestRow(call[s].request)
      BY <3>2
    <3>4. step[t] # "request"
      BY <1>1, <2>4 DEF LockDiscipline
    <3> QED
      BY <3>1, <3>3, <3>4 DEF Wants, RequestRow, EmployeeRow, BalanceRow
  <2>9. call[t].op = "delete"
    BY <1>1, <2>8 DEF IInv, OnRoute
  <2>10. call[t].employee = call[s].actor
    BY <2>7, <2>8 DEF CascadeNext, Left, CascadeRows, OwnRequests, RequestRow, BalanceRow
  <2>11. WaitsFor(s, t)
    <3>1. <<EmployeeRow(call[s].actor), "update">> \in held[t]
      BY <1>1, <2>8, <2>9, <2>10 DEF IInv, LocksHeld, HoldsLocks, Deletes
    <3>2. Wants(s, EmployeeRow(call[s].actor), "keyShare")
      BY <2>5 DEF Wants
    <3>3. s # t
      BY <2>5, <2>8
    <3> DEFINE l == <<EmployeeRow(call[s].actor), "update">>
    <3>4. l[1] = EmployeeRow(call[s].actor) /\ l[2] = "update"
      OBVIOUS
    <3>5. Conflict("keyShare", "update") /\ "keyShare" \in Modes
      BY DEF Conflict, Modes
    <3> QED
      BY <3>1, <3>2, <3>3, <3>4, <3>5 DEF WaitsFor
  <2>12. AllWaiting({s, t})
    BY <2>1, <2>11 DEF AllWaiting
  <2>13. D = {s, t}
    BY <1>1, <2>12 DEF IsCycle
  <2> QED
    BY <2>9, <2>10, <2>13
<1>2. IInv /\ LockDiscipline => CancellationCycles
  BY <1>1 DEF CancellationCycles
<1> QED
  BY <1>2, Invariance, DisciplineInvariant, PTL

-----------------------------------------------------------------------------
(* The three records of a decision: the request, its approval row and the  *)
(* audit entry.  An approval was charged to a row that exists.             *)

Logged(r) == {a \in audit : a.request = r}

Decided(r) == requests[r] # Absent /\ requests[r].status \in {"approved", "rejected"}

DecisionEntry(r) ==
  [action |-> IF requests[r].status = "approved" THEN "approve" ELSE "reject",
   request |-> r, actor |-> approvals[r].approver]

Agrees(r) ==
  /\ IF Decided(r)
     THEN /\ approvals[r] # Absent
          /\ approvals[r].decision = requests[r].status
          /\ approvals[r].approver # requests[r].employee
          /\ Logged(r) = {DecisionEntry(r)}
     ELSE approvals[r] = Absent /\ (requests[r] # Absent => Logged(r) = {})
  /\ Decided(r) /\ requests[r].status = "approved" => RowOf(requests[r]) \in DOMAIN used

DInv == IInv /\ \A r \in Requests : Agrees(r)

LEMMA InitDInv == InitManagement => DInv
<1> SUFFICES ASSUME InitManagement PROVE DInv
  OBVIOUS
<1>1. audit = {} /\ \A r \in Requests : requests[r] = Absent /\ approvals[r] = Absent
  BY DEF InitManagement, Init
<1> QED
  BY <1>1, InitIInv DEF DInv, Agrees, Decided, Logged

(* What a step leaves alone of a request's records keeps them in agreement. *)
LEMMA AgreementKept ==
  ASSUME DInv, NEW r \in Requests, requests'[r] = requests[r], approvals'[r] = approvals[r],
         Logged(r)' = Logged(r),
         requests[r] # Absent /\ RowOf(requests[r]) \in DOMAIN used => RowOf(requests[r]) \in DOMAIN used'
  PROVE  Agrees(r)'
BY DEF DInv, Agrees, Decided, DecisionEntry

(* A request that is filed, or withdrawn: nobody has decided on it. *)
LEMMA UndecidedAgrees ==
  ASSUME DInv, NEW r \in Requests, ~Decided(r), ~Decided(r)', approvals'[r] = approvals[r],
         requests'[r] # Absent => Logged(r)' = {}
  PROVE  Agrees(r)'
BY DEF DInv, Agrees

(* A decision writes its three records in one commit. *)
LEMMA DecisionAgrees ==
  ASSUME DInv, NEW s \in Sessions, step[s] = "commit", AuditDecision(s),
         DOMAIN used' = DOMAIN used,
         NEW r \in Requests, r = call[s].request, NEW status \in {"approved", "rejected"},
         call[s].op = (IF status = "approved" THEN "approve" ELSE "reject"),
         SetStatus(r, status),
         approvals' = [approvals EXCEPT ![r] =
                          [approver |-> call[s].actor, decision |-> status]]
  PROVE  Agrees(r)'
<1>1. HasTarget(s) /\ HasAuthority(s) /\ (status = "approved" => HasCover(s))
  BY DEF HasTarget, HasAuthority, HasCover, Decides
<1>2. IsPending(r) /\ MayDecide(s) /\ Row(s) = requests[r]
      /\ (status = "approved" => RowOf(requests[r]) \in DOMAIN used)
  BY <1>1 DEF DInv, IInv, ReadsStable, KeepsReads, LocksHeld, HoldsLocks, HasRow, CheckedRow, Row, HasTarget, Decides
<1>3. Logged(r) = {}
  BY <1>2 DEF DInv, Agrees, Decided, IsPending
<1>4. requests[r] \in LeaveRequest /\ requests[r].employee # call[s].actor
  BY <1>2 DEF DInv, IInv, TypeOK, IsPending, MayDecide
<1>5. /\ requests'[r] \in LeaveRequest /\ requests'[r].status = status
      /\ requests'[r].employee = requests[r].employee
      /\ requests'[r].type = requests[r].type /\ requests'[r].start = requests[r].start
  BY <1>4 DEF DInv, IInv, TypeOK, SetStatus, LeaveRequest
<1>6. requests'[r] # Absent
  BY <1>5, AbsentAssumption
<1> DEFINE row == [approver |-> call[s].actor, decision |-> status]
           entry == [action |-> call[s].op, request |-> call[s].request, actor |-> call[s].actor]
<1>7. row \in Approval /\ row.approver = call[s].actor /\ row.decision = status
  BY <1>1, CallFields DEF Approval, DInv, IInv, OnRoute
<1>8. approvals'[r] = row
  BY DEF DInv, IInv, TypeOK
<1>9. row # Absent
  BY <1>7, AbsentAssumption
<1>10. audit' = audit \cup {entry}
  BY DEF AuditDecision
<1>11. entry.request = r
  OBVIOUS
<1>12. entry = DecisionEntry(r)'
  BY <1>5, <1>7, <1>8 DEF DecisionEntry
<1> HIDE DEF row, entry
<1>13. Logged(r)' = {DecisionEntry(r)'}
  BY <1>3, <1>10, <1>11, <1>12 DEF Logged
<1>14. Decided(r)'
  BY <1>5, <1>6 DEF Decided
<1>15. status = "approved" => (RowOf(requests[r]) \in DOMAIN used)'
  BY <1>2, <1>5 DEF RowOf
<1> QED
  BY <1>4, <1>5, <1>7, <1>8, <1>9, <1>13, <1>14, <1>15 DEF Agrees

LEMMA CommitAgrees ==
  ASSUME DInv, NEW s \in Sessions, Commit(s), ~CommitDelete(s)
  PROVE  \A r \in Requests : Agrees(r)'
<1>1. /\ step[s] = "commit" /\ call[s].op # "delete" /\ call[s] \in Call
      /\ call[s].request \in Requests /\ DOMAIN used' = DOMAIN used
  BY CallFields DEF Commit, DInv, IInv, OnRoute, TypeOK, CommitSubmit, CommitApprove, CommitReject,
     CommitCancel, Charge
<1>2. \/ UNCHANGED audit
      \/ audit' = audit \cup {[action |-> call[s].op, request |-> call[s].request,
                               actor |-> call[s].actor]}
  BY DEF Commit, CommitSubmit, CommitApprove, CommitReject, CommitCancel, AuditDecision
<1>3. \A r \in Requests \ {call[s].request} : Logged(r)' = Logged(r)
  BY <1>2 DEF Logged
<1> SUFFICES ASSUME NEW r \in Requests PROVE Agrees(r)'
  OBVIOUS
<1>5. CASE r # call[s].request
  <2>1. requests'[r] = requests[r] /\ approvals'[r] = approvals[r]
    BY <1>5 DEF Commit, CommitSubmit, CommitApprove, CommitReject, CommitCancel, SetStatus,
                WriteApproval, DInv, IInv, TypeOK
  <2> QED
    BY <1>1, <1>3, <1>5, <2>1, AgreementKept
<1>6. CASE r = call[s].request /\ CommitSubmit(s)
  <2>1. Submits(s) /\ approvals' = approvals /\ audit' = audit
    BY <1>1, <1>6 DEF CommitSubmit, Submits
  <2>2. /\ requests[r] = Absent /\ call[s].row.status = "pending"
        /\ \A a \in audit : a.request # r
    BY <1>6, <2>1 DEF DInv, IInv, FreshRows
  <2>3. ~Decided(r) /\ ~Decided(r)'
    BY <1>6, <2>2 DEF Decided, CommitSubmit, DInv, IInv, TypeOK
  <2> QED
    BY <2>1, <2>2, <2>3, UndecidedAgrees DEF Logged
<1>7. CASE r = call[s].request /\ CommitCancel(s)
  <2>1. Cancels(s) /\ approvals' = approvals /\ audit' = audit
    BY <1>1, <1>7 DEF CommitCancel, Cancels
  <2>2. IsPending(r)
    BY <1>7, <2>1 DEF DInv, IInv, ReadsStable, KeepsReads
  <2>3. requests'[r].status = "cancelled"
    BY <1>7, <2>2 DEF CommitCancel, SetStatus, IsPending, DInv, IInv, TypeOK, LeaveRequest
  <2>4. ~Decided(r) /\ ~Decided(r)'
    BY <2>2, <2>3 DEF Decided, IsPending
  <2>5. Logged(r)' = {}
    BY <2>1, <2>2, <2>4 DEF DInv, Agrees, IsPending, Logged
  <2> QED
    BY <2>1, <2>4, <2>5, UndecidedAgrees
<1>8. CASE r = call[s].request /\ CommitApprove(s)
  BY <1>1, <1>8, DecisionAgrees DEF CommitApprove, WriteApproval
<1>9. CASE r = call[s].request /\ CommitReject(s)
  BY <1>1, <1>9, DecisionAgrees DEF CommitReject, WriteApproval
<1> QED
  BY <1>5, <1>6, <1>7, <1>8, <1>9 DEF Commit

(* A deletion takes whole requests along, and nobody whose decision stays. *)
LEMMA DeletionAgrees ==
  ASSUME DInv, NEW s \in Sessions, step[s] = "commit", CommitDelete(s)
  PROVE  \A r \in Requests : Agrees(r)'
<1> DEFINE e == call[s].employee
<1>1. /\ e \in Employees /\ Dismiss(e) /\ audit' = Anonymous(audit, e)
      /\ NobodyDecidedBy(e)
  BY CallFields DEF CommitDelete, DInv, IInv, OnRoute, ReadsStable, KeepsReads
<1> HIDE DEF e
<1>2. /\ DOMAIN used' = {b \in DOMAIN used : b[1] # e}
      /\ \A r \in OwnRequests(e) : requests'[r] = Absent /\ approvals'[r] = Absent
      /\ \A r \in Requests \ OwnRequests(e) :
           requests'[r] = requests[r] /\ approvals'[r] = approvals[r]
  BY <1>1, DismissTables DEF DInv, IInv
<1> SUFFICES ASSUME NEW r \in Requests PROVE Agrees(r)'
  OBVIOUS
<1>3. CASE r \in OwnRequests(e)
  BY <1>2, <1>3 DEF Agrees, Decided
<1>4. CASE r \notin OwnRequests(e) /\ requests[r] = Absent
  <2>1. requests'[r] = Absent /\ approvals'[r] = approvals[r] /\ ~Decided(r) /\ ~Decided(r)'
    BY <1>2, <1>4 DEF Decided
  <2> QED
    BY <2>1, UndecidedAgrees
<1>5. CASE r \notin OwnRequests(e) /\ requests[r] # Absent
  <2>1. requests[r].employee # e
    BY <1>5 DEF OwnRequests
  <2>2. \A a \in Logged(r) : a \in AuditEntry /\ a.actor # e
    <3>1. CASE Decided(r)
      <4>1. Logged(r) = {DecisionEntry(r)} /\ approvals[r].approver # e
        BY <1>1, <3>1 DEF DInv, Agrees, NobodyDecidedBy
      <4>2. DecisionEntry(r).actor # e
        BY <4>1 DEF DecisionEntry
      <4> QED
        BY <4>1, <4>2 DEF DInv, IInv, TypeOK, Logged
    <3>2. CASE ~Decided(r)
      BY <1>5, <3>2 DEF DInv, Agrees
    <3> QED
      BY <3>1, <3>2
  <2> DEFINE Anon(a) == [a EXCEPT !.actor = IF @ = e THEN Absent ELSE @]
  <2>3. \A a \in AuditEntry : Anon(a).request = a.request /\ (a.actor # e => Anon(a) = a)
    BY DEF AuditEntry
  <2>4. audit \subseteq AuditEntry /\ audit' = {Anon(a) : a \in audit}
    BY <1>1 DEF DInv, IInv, TypeOK, Anonymous
  <2> HIDE DEF Anon
  <2>5. \A a \in audit' : a.request = r => a \in Logged(r)
    BY <2>2, <2>3, <2>4 DEF Logged
  <2>6. \A a \in Logged(r) : a \in audit' /\ a.request = r
    BY <2>2, <2>3, <2>4 DEF Logged
  <2>7. Logged(r)' = Logged(r)
    BY <2>5, <2>6 DEF Logged
  <2>8. RowOf(requests[r])[1] # e
    BY <2>1 DEF RowOf
  <2> QED
    BY <1>2, <1>5, <2>7, <2>8, AgreementKept
<1> QED
  BY <1>3, <1>4, <1>5

LEMMA LearningAgrees ==
  ASSUME DInv, NEW e \in Employees, NEW t \in LeaveTypes, NEW b \in StartDates, NEW d \in DayCounts,
         CreateLearningLeaveRequest(e, t, b, d)
  PROVE  \A r \in Requests : Agrees(r)'
<1>1. PICK q \in Requests :
        FreshId(q) /\ requests' = [requests EXCEPT ![q] = NewRow(e, t, b, d)]
  BY DEF CreateLearningLeaveRequest
<1>2. UNCHANGED <<approvals, audit>>
  BY DEF CreateLearningLeaveRequest
<1>6. DOMAIN used' = DOMAIN used
  BY DEF CreateLearningLeaveRequest
<1> SUFFICES ASSUME NEW r \in Requests PROVE Agrees(r)'
  OBVIOUS
<1>3. Logged(r)' = Logged(r)
  BY <1>2 DEF Logged
<1>4. CASE r = q
  <2>1. requests[r] = Absent /\ requests'[r].status = "pending" /\ Logged(r) = {}
    BY <1>1, <1>4 DEF FreshId, NewRow, DInv, IInv, TypeOK, Logged
  <2> QED
    BY <1>2, <1>3, <2>1, UndecidedAgrees DEF Decided
<1>5. CASE r # q
  BY <1>1, <1>2, <1>3, <1>5, <1>6, AgreementKept DEF DInv, IInv, TypeOK
<1> QED
  BY <1>4, <1>5

LEMMA NextDInv == DInv /\ [NextManagement]_allVars => DInv'
<1> SUFFICES ASSUME DInv, [NextManagement]_allVars PROVE \A r \in Requests : Agrees(r)'
  BY NextIInv DEF DInv
<1>1. ASSUME UNCHANGED tables PROVE \A r \in Requests : Agrees(r)'
  BY <1>1, AgreementKept DEF tables, Logged
<1>2. ASSUME NEW s \in Sessions, Arrive(s) \/ Abort(s) \/ DeadlockVictim(s)
      PROVE  UNCHANGED tables
  BY <1>2 DEF Arrive, RequestLeave, ApproveLeave, RejectLeave, CancelLeave, DeleteEmployee, Begin,
              Abort, DeadlockVictim
<1>3. ASSUME NEW s \in Sessions,
             \/ LockRequest(s) \/ LockEmployee(s) \/ LockBalance(s)
             \/ RemoveEmployee(s) \/ CascadeDelete(s) \/ Record(s)
      PROVE  UNCHANGED tables
  BY <1>3 DEF LockRequest, LockEmployee, LockBalance, RemoveEmployee, CascadeDelete, Record
<1>4. ASSUME NEW s \in Sessions, Commit(s) PROVE \A r \in Requests : Agrees(r)'
  BY <1>4, CommitAgrees, DeletionAgrees DEF Commit
<1>5. ASSUME NEW e \in Employees, NEW t \in LeaveTypes, NEW b \in StartDates, NEW d \in DayCounts,
             CreateLearningLeaveRequest(e, t, b, d)
      PROVE  \A r \in Requests : Agrees(r)'
  BY <1>5, LearningAgrees
<1>6. ASSUME NEW e \in Employees, UpdateEmployee(e) \/ CreateEmployee(e) PROVE UNCHANGED tables
  BY <1>6 DEF UpdateEmployee, CreateEmployee
<1>7. CASE UNCHANGED allVars
  BY <1>1, <1>7 DEF allVars
<1> QED
  BY <1>1, <1>2, <1>3, <1>4, <1>5, <1>6, <1>7 DEF NextManagement, Execute

LEMMA DecisionInvariant == ManagementSpec => []DInv
<1>1. InitManagement => DInv
  BY InitDInv
<1>2. DInv /\ [NextManagement]_allVars => DInv'
  BY NextDInv
<1> QED
  BY <1>1, <1>2, PTL DEF ManagementSpec

(* A decision, its approval row and its audit entry agree at every commit, *)
(* and nobody decides on a request of one's own (services.js, approveLeave *)
(* and rejectLeave), whatever connections fail in between.                 *)
THEOREM DecisionsStayConsistent == ManagementSpec => []DecisionsAgree
<1>1. DInv => DecisionsAgree
  BY DEF DInv, Agrees, Decided, Logged, DecisionEntry, DecisionsAgree
<1> QED
  BY <1>1, DecisionInvariant, PTL

-----------------------------------------------------------------------------
(* Sums over finite sets of requests.  The fold behind DaysOf takes an     *)
(* element Pick chooses; what it computes does not depend on that choice.  *)

Pick(T) == CHOOSE x \in T : TRUE

(* The function of the fold: the sum of every subset of S. *)
SumsOf(f, table, S) ==
  f = [T \in SUBSET S |->
         IF T = {} THEN 0 ELSE table[Pick(T)].days + f[T \ {Pick(T)}]]

LEMMA Picked == ASSUME NEW T, T # {} PROVE Pick(T) \in T
BY DEF Pick

(* Induction over the subsets of a finite set, by a minimal counterexample. *)
LEMMA LeastSubset ==
  ASSUME NEW S, IsFiniteSet(S), NEW Bad \in SUBSET SUBSET S, Bad # {}
  PROVE  \E T \in Bad : \A U \in SUBSET T : U # T => U \notin Bad
<1>1. IsWellFoundedOn(StrictSubsetOrdering(S), SUBSET S)
  BY FS_StrictSubsetOrderingWellFounded, FS_FiniteSubsetsOfFinite
<1>2. PICK T \in Bad : \A U \in Bad : ~(<<U, T>> \in StrictSubsetOrdering(S))
  BY <1>1, WFMin
<1> QED
  BY <1>2 DEF StrictSubsetOrdering

(* Two functions of the fold agree where both are defined, over tables     *)
(* that agree there.                                                       *)
LEMMA SumsAgree ==
  ASSUME NEW S, IsFiniteSet(S), NEW R, NEW Q, S \subseteq R, S \subseteq Q,
         NEW v, NEW w, \A x \in S : v[x].days = w[x].days,
         NEW f, SumsOf(f, v, R), NEW g, SumsOf(g, w, Q)
  PROVE  f[S] = g[S]
<1> DEFINE Bad == {T \in SUBSET S : f[T] # g[T]}
<1> SUFFICES ASSUME Bad # {} PROVE FALSE
  OBVIOUS
<1>0. Bad \in SUBSET SUBSET S
  OBVIOUS
<1> HIDE DEF Bad
<1>1. PICK T \in Bad : \A U \in SUBSET T : U # T => U \notin Bad
  BY <1>0, LeastSubset
<1> USE DEF Bad
<1>2. /\ f[T] = IF T = {} THEN 0 ELSE v[Pick(T)].days + f[T \ {Pick(T)}]
      /\ g[T] = IF T = {} THEN 0 ELSE w[Pick(T)].days + g[T \ {Pick(T)}]
  BY DEF SumsOf
<1>3. T # {}
  BY <1>2
<1>4. Pick(T) \in T
  BY <1>3, Picked
<1>5. f[T \ {Pick(T)}] = g[T \ {Pick(T)}]
  BY <1>1, <1>4
<1> QED
  BY <1>2, <1>4, <1>5

(* The function of the fold exists. *)
LEMMA SumsExist ==
  ASSUME NEW S, IsFiniteSet(S), NEW w
  PROVE  \E f : SumsOf(f, w, S)
<1> DEFINE Bad == {T \in SUBSET S : ~\E f : SumsOf(f, w, T)}
<1> SUFFICES ASSUME Bad # {} PROVE FALSE
  OBVIOUS
<1>0. Bad \in SUBSET SUBSET S
  OBVIOUS
<1> HIDE DEF Bad
<1>1. PICK T \in Bad : \A U \in SUBSET T : U # T => U \notin Bad
  BY <1>0, LeastSubset
<1> USE DEF Bad
<1> DEFINE F(U) == CHOOSE f : SumsOf(f, w, U)
           g == [U \in SUBSET T |->
                   IF U = {} THEN 0
                   ELSE w[Pick(U)].days + F(U \ {Pick(U)})[U \ {Pick(U)}]]
<1>2. ASSUME NEW U \in SUBSET T, U # T PROVE SumsOf(F(U), w, U) /\ IsFiniteSet(U)
  <2>1. \E f : SumsOf(f, w, U)
    BY <1>1, <1>2
  <2>2. IsFiniteSet(U)
    BY FS_Subset
  <2> QED
    BY <2>1, <2>2
<1>3. ASSUME NEW U \in SUBSET T, U # T PROVE g[U] = F(U)[U]
  <2>1. CASE U = {}
    <3>1. SumsOf(F(U), w, U)
      BY <1>2, <1>3
    <3> HIDE DEF F
    <3>2. F(U)[U] = 0
      BY <2>1, <3>1 DEF SumsOf
    <3> QED
      BY <1>3, <2>1, <3>2
  <2>2. CASE U # {}
    <3> DEFINE V == U \ {Pick(U)}
    <3>1. V \in SUBSET T /\ V # T /\ V \subseteq U
      BY <1>3
    <3>2. SumsOf(F(U), w, U) /\ SumsOf(F(V), w, V) /\ IsFiniteSet(V)
      BY <1>2, <1>3, <3>1
    <3> HIDE DEF F
    <3>3. F(U)[V] = F(V)[V]
      BY <3>1, <3>2, SumsAgree
    <3>4. F(U)[U] = w[Pick(U)].days + F(U)[V]
      BY <2>2, <3>2 DEF SumsOf
    <3> QED
      BY <2>2, <3>3, <3>4
  <2> QED
    BY <2>1, <2>2
<1>4. ASSUME NEW U \in SUBSET T, U # {}
      PROVE  F(U \ {Pick(U)})[U \ {Pick(U)}] = g[U \ {Pick(U)}]
  <2>1. U \ {Pick(U)} \in SUBSET T /\ U \ {Pick(U)} # T
    BY <1>4, Picked
  <2> HIDE DEF F, g
  <2> QED
    BY <1>3, <2>1
<1> HIDE DEF F
<1>5. g = [U \in SUBSET T |-> IF U = {} THEN 0 ELSE w[Pick(U)].days + g[U \ {Pick(U)}]]
  BY <1>4
<1>6. SumsOf(g, w, T)
  BY <1>5 DEF SumsOf
<1> QED
  BY <1>1, <1>6

(* DaysOf is the value of that function. *)
LEMMA DaysOfSums ==
  ASSUME NEW S, IsFiniteSet(S), NEW R, S \subseteq R, NEW w, NEW f, SumsOf(f, w, R)
  PROVE  DaysOf(w, S) = f[S]
<1> DEFINE F == CHOOSE g : SumsOf(g, w, S)
<1>1. DaysOf(w, S) = F[S]
  BY Zenon DEF DaysOf, MapThenSumSet, MapThenFoldSet, SumsOf, Pick
<1>2. SumsOf(F, w, S)
  BY SumsExist
<1> HIDE DEF F
<1> QED
  BY <1>1, <1>2, SumsAgree

LEMMA NoDays ==
  ASSUME NEW w
  PROVE  DaysOf(w, {}) = 0
<1>1. IsFiniteSet({})
  BY FS_EmptySet
<1>2. PICK f : SumsOf(f, w, {})
  BY <1>1, SumsExist
<1>3. f[{}] = 0
  BY <1>2 DEF SumsOf
<1>4. DaysOf(w, {}) = f[{}]
  BY <1>1, <1>2, DaysOfSums
<1> QED
  BY <1>3, <1>4

LEMMA SameDays ==
  ASSUME NEW S, IsFiniteSet(S), NEW v, NEW w, \A x \in S : v[x].days = w[x].days
  PROVE  DaysOf(v, S) = DaysOf(w, S)
<1>1. PICK f : SumsOf(f, v, S)
  BY SumsExist
<1>2. PICK g : SumsOf(g, w, S)
  BY SumsExist
<1>3. DaysOf(v, S) = f[S] /\ DaysOf(w, S) = g[S]
  BY <1>1, <1>2, DaysOfSums
<1>4. f[S] = g[S]
  BY <1>1, <1>2, SumsAgree
<1> QED
  BY <1>3, <1>4

(* One element taken out, whichever it is. *)
LEMMA OneDayLess ==
  ASSUME NEW S, IsFiniteSet(S), NEW w, \A x \in S : w[x].days \in Int
  PROVE  DaysOf(w, S) \in Int /\ \A x \in S : DaysOf(w, S) = w[x].days + DaysOf(w, S \ {x})
<1>1. PICK f : SumsOf(f, w, S)
  BY SumsExist
<1>2. ASSUME NEW T \in SUBSET S PROVE DaysOf(w, T) = f[T]
  <2>1. IsFiniteSet(T)
    BY FS_Subset
  <2> QED
    BY <1>1, <2>1, DaysOfSums
<1> DEFINE Good(T) == f[T] \in Int /\ \A x \in T : f[T] = w[x].days + f[T \ {x}]
           Bad == {T \in SUBSET S : ~Good(T)}
<1>3. Bad = {}
  <2> SUFFICES ASSUME Bad # {} PROVE FALSE
    OBVIOUS
  <2>0. Bad \in SUBSET SUBSET S
    OBVIOUS
  <2> HIDE DEF Bad
  <2>1. PICK T \in Bad : \A U \in SUBSET T : U # T => U \notin Bad
    BY <2>0, LeastSubset
  <2> USE DEF Bad
  <2> DEFINE c == Pick(T)
  <2>2. f[T] = IF T = {} THEN 0 ELSE w[c].days + f[T \ {c}]
    BY <1>1 DEF SumsOf
  <2>3. T # {}
    BY <2>1, <2>2
  <2>4. c \in T
    BY <2>3, Picked
  <2> HIDE DEF c
  <2>5. ASSUME NEW x \in T PROVE Good(T \ {x})
    BY <2>1, <2>5
  <2>6. f[T] \in Int
    <3>1. f[T \ {c}] \in Int /\ w[c].days \in Int
      BY <2>4, <2>5
    <3> QED
      BY <2>2, <2>3, <3>1
  <2>7. ASSUME NEW x \in T, x # c PROVE f[T] = w[x].days + f[T \ {x}]
    <3>1. f[T \ {c}] = w[x].days + f[(T \ {c}) \ {x}]
      BY <2>4, <2>5, <2>7
    <3>2. f[T \ {x}] = w[c].days + f[(T \ {x}) \ {c}]
      BY <2>4, <2>5, <2>7
    <3>3. (T \ {c}) \ {x} = (T \ {x}) \ {c}
      OBVIOUS
    <3>4. f[(T \ {c}) \ {x}] \in Int
      <4>1. (T \ {c}) \ {x} \in SUBSET T /\ (T \ {c}) \ {x} # T
        BY <2>4
      <4> QED
        BY <2>1, <4>1
    <3>5. w[x].days \in Int /\ w[c].days \in Int
      BY <2>4
    <3>6. f[T] = w[c].days + f[T \ {c}]
      BY <2>2, <2>3
    <3> DEFINE rest == f[(T \ {x}) \ {c}]
    <3>7. rest \in Int /\ f[T \ {c}] = w[x].days + rest /\ f[T \ {x}] = w[c].days + rest
      BY <3>1, <3>2, <3>3, <3>4
    <3> HIDE DEF rest
    <3> QED
      BY <3>5, <3>6, <3>7
  <2> QED
    BY <2>1, <2>2, <2>3, <2>6, <2>7
<1>4. Good(S)
  BY <1>3
<1> QED
  BY <1>2, <1>4

-----------------------------------------------------------------------------
(* The balances, as an invariant of the ledger: a step charges at most one *)
(* request, to its own row.  Finitely many requests are ever approved.     *)

Exact ==
  \A b \in DOMAIN used :
    IsFiniteSet(ApprovedOn(b)) /\ used[b] = DaysOf(requests, ApprovedOn(b))

Approved(r) == requests[r] # Absent /\ requests[r].status = "approved"

LEMMA InitExact == InitManagement => Exact
<1> SUFFICES ASSUME InitManagement, NEW b \in DOMAIN used
             PROVE  IsFiniteSet(ApprovedOn(b)) /\ used[b] = DaysOf(requests, ApprovedOn(b))
  BY DEF Exact
<1>1. ApprovedOn(b) = {} /\ used[b] = 0
  BY DEF InitManagement, Init, ApprovedOn
<1> QED
  BY <1>1, FS_EmptySet, NoDays

(* A row none of whose approved requests changes, and which is not charged. *)
LEMMA RowUntouched ==
  ASSUME Exact, NEW b \in DOMAIN used, used'[b] = used[b],
         ApprovedOn(b)' = ApprovedOn(b),
         \A r \in ApprovedOn(b) : requests'[r] = requests[r]
  PROVE  (IsFiniteSet(ApprovedOn(b)) /\ used[b] = DaysOf(requests, ApprovedOn(b)))'
<1>1. IsFiniteSet(ApprovedOn(b)) /\ used[b] = DaysOf(requests, ApprovedOn(b))
  BY DEF Exact
<1>2. \A r \in ApprovedOn(b) : requests'[r].days = requests[r].days
  OBVIOUS
<1>3. DaysOf(requests', ApprovedOn(b)) = DaysOf(requests, ApprovedOn(b))
  BY <1>1, <1>2, SameDays
<1>4. DaysOf(requests, ApprovedOn(b))' = DaysOf(requests', ApprovedOn(b)')
  OBVIOUS
<1> QED
  BY <1>1, <1>3, <1>4

(* The row an approval charges has one approved request more. *)
LEMMA RowCharged ==
  ASSUME TypeOK, Exact, NEW r \in Requests, NEW m \in Employees, Approve(r, m),
         NEW b, b = RowOf(requests[r])
  PROVE  (IsFiniteSet(ApprovedOn(b)) /\ used[b] = DaysOf(requests, ApprovedOn(b)))'
<1> DEFINE S == ApprovedOn(b)
<1>1. b \in DOMAIN used /\ used'[b] = used[b] + requests[r].days
  BY DEF Approve, TypeOK
<1>2. requests[r] \in LeaveRequest /\ requests[r].status = "pending"
  BY DEF Approve, Decide, IsPending, TypeOK
<1>3. /\ requests'[r] = [requests[r] EXCEPT !.status = "approved"]
      /\ \A q \in Requests \ {r} : requests'[q] = requests[q]
  BY DEF Approve, Decide, SetStatus, TypeOK
<1>4. /\ requests'[r] \in LeaveRequest /\ requests'[r].status = "approved"
      /\ requests'[r].days = requests[r].days /\ RowOf(requests'[r]) = b
  BY <1>2, <1>3 DEF LeaveRequest, RowOf
<1>5. r \notin S /\ ApprovedOn(b)' = S \cup {r}
  BY <1>2, <1>3, <1>4, AbsentAssumption DEF ApprovedOn
<1>6. IsFiniteSet(S) /\ used[b] = DaysOf(requests, S)
  BY <1>1 DEF Exact
<1>7. IsFiniteSet(S \cup {r})
  BY <1>6, FS_AddElement
<1>8. \A q \in S : requests'[q] = requests[q] /\ requests[q] \in LeaveRequest
  BY <1>3, <1>5 DEF ApprovedOn, TypeOK
<1> HIDE DEF S
<1>9. \A q \in S \cup {r} : requests'[q].days \in Int
  <2>1. \A q \in LeaveRequest : q.days \in DayCounts
    BY DEF LeaveRequest
  <2>2. \A n \in DayCounts : n \in Int
    BY LedgerAssumption
  <2> QED
    BY <1>4, <1>8, <2>1, <2>2
<1>10. DaysOf(requests', S) = DaysOf(requests, S)
  BY <1>6, <1>8, SameDays
<1>11. DaysOf(requests', S \cup {r})
         = requests'[r].days + DaysOf(requests', (S \cup {r}) \ {r})
  BY <1>7, <1>9, OneDayLess
<1>12. (S \cup {r}) \ {r} = S
  BY <1>5
<1>13. used[b] \in Nat /\ requests[r].days \in Nat
  BY <1>1, <1>2, LedgerAssumption DEF TypeOK, LeaveRequest
<1>14. DaysOf(requests', S \cup {r}) = requests[r].days + DaysOf(requests, S)
  BY <1>4, <1>10, <1>11, <1>12
<1>15. used'[b] = DaysOf(requests', S \cup {r})
  BY <1>1, <1>6, <1>13, <1>14
<1> QED
  BY <1>5, <1>7, <1>15 DEF S

LEMMA NextExact ==
  ASSUME TypeOK, Exact, [Next]_vars
  PROVE  Exact'
<1>8. ASSUME NEW e \in Employees, Dismiss(e), NEW b \in DOMAIN used'
      PROVE  (IsFiniteSet(ApprovedOn(b)) /\ used[b] = DaysOf(requests, ApprovedOn(b)))'
  <2>1. /\ b \in DOMAIN used /\ b[1] # e /\ used'[b] = used[b]
        /\ \A r \in OwnRequests(e) : requests'[r] = Absent
        /\ \A r \in Requests \ OwnRequests(e) : requests'[r] = requests[r]
    BY <1>8, DismissTables
  <2>2. \A r \in Requests : RowOf(requests[r]) = b => r \notin OwnRequests(e)
    BY <2>1 DEF RowOf, OwnRequests
  <2>3. ApprovedOn(b)' = ApprovedOn(b) /\ \A r \in ApprovedOn(b) : requests'[r] = requests[r]
    BY <2>1, <2>2 DEF ApprovedOn
  <2> QED
    BY <2>1, <2>3, RowUntouched
<1>9. ASSUME NEW r \in Requests, NEW m \in Employees, Approve(r, m)
      PROVE  DOMAIN used' = DOMAIN used
  BY <1>9 DEF Approve
<1>0. CASE \E e \in Employees : Dismiss(e)
  BY <1>0, <1>8 DEF Exact
<1> SUFFICES ASSUME NEW b \in DOMAIN used, ~\E e \in Employees : Dismiss(e)
             PROVE  (IsFiniteSet(ApprovedOn(b)) /\ used[b] = DaysOf(requests, ApprovedOn(b)))'
  BY <1>0, <1>9 DEF Exact, Next, vars, File, Withdraw, Reject
<1>1. CASE UNCHANGED vars
  BY <1>1, RowUntouched DEF vars, ApprovedOn
<1>2. ASSUME NEW r \in Requests, ~Approved(r), ~Approved(r)', UNCHANGED used,
             \A q \in Requests \ {r} : requests'[q] = requests[q]
      PROVE  (IsFiniteSet(ApprovedOn(b)) /\ used[b] = DaysOf(requests, ApprovedOn(b)))'
  <2>1. ApprovedOn(b)' = ApprovedOn(b) /\ \A q \in ApprovedOn(b) : requests'[q] = requests[q]
    BY <1>2 DEF ApprovedOn, Approved
  <2> QED
    BY <1>2, <2>1, RowUntouched
<1>3. ASSUME NEW r \in Requests, NEW e \in Employees, NEW t \in LeaveTypes,
             NEW start \in StartDates, NEW d \in DayCounts, File(r, e, t, start, d)
      PROVE  ~Approved(r) /\ ~Approved(r)' /\ UNCHANGED used
             /\ \A q \in Requests \ {r} : requests'[q] = requests[q]
  BY <1>3 DEF File, NewRow, Approved, TypeOK
<1>4. ASSUME NEW r \in Requests, NEW status \in {"rejected", "cancelled"}, IsPending(r),
             SetStatus(r, status)
      PROVE  ~Approved(r) /\ ~Approved(r)'
             /\ \A q \in Requests \ {r} : requests'[q] = requests[q]
  BY <1>4 DEF SetStatus, IsPending, Approved, TypeOK, LeaveRequest
<1>5. ASSUME NEW r \in Requests, NEW m \in Employees, Approve(r, m)
      PROVE  (IsFiniteSet(ApprovedOn(b)) /\ used[b] = DaysOf(requests, ApprovedOn(b)))'
  <2>1. CASE b = RowOf(requests[r])
    BY <1>5, <2>1, RowCharged
  <2>2. CASE b # RowOf(requests[r])
    <3>1. requests[r] \in LeaveRequest
      BY <1>5 DEF Approve, Decide, IsPending, TypeOK
    <3>2. RowOf(requests'[r]) = RowOf(requests[r])
      BY <1>5, <3>1 DEF Approve, Decide, SetStatus, TypeOK, LeaveRequest, RowOf
    <3>3. used'[b] = used[b] /\ \A q \in Requests \ {r} : requests'[q] = requests[q]
      BY <1>5, <2>2 DEF Approve, Decide, SetStatus, TypeOK
    <3>4. ApprovedOn(b)' = ApprovedOn(b) /\ r \notin ApprovedOn(b)
      BY <2>2, <3>2, <3>3 DEF ApprovedOn
    <3>5. \A q \in ApprovedOn(b) : requests'[q] = requests[q]
      BY <3>3, <3>4 DEF ApprovedOn
    <3> QED
      BY <3>3, <3>4, <3>5, RowUntouched
  <2> QED
    BY <2>1, <2>2
<1>6. ASSUME NEW r \in Requests, Withdraw(r)
      PROVE  (IsFiniteSet(ApprovedOn(b)) /\ used[b] = DaysOf(requests, ApprovedOn(b)))'
  BY <1>2, <1>4, <1>6 DEF Withdraw
<1>7. ASSUME NEW r \in Requests, NEW m \in Employees, Reject(r, m)
      PROVE  (IsFiniteSet(ApprovedOn(b)) /\ used[b] = DaysOf(requests, ApprovedOn(b)))'
  BY <1>2, <1>4, <1>7 DEF Reject, Decide
<1> QED
  BY <1>1, <1>2, <1>3, <1>5, <1>6, <1>7 DEF Next

(* repositories.js, approve: used_days is the sum of the approved requests *)
(* charged to the row and never more than was allocated, however the       *)
(* transactions of many employees and approvers overlap or fail.           *)
THEOREM BalancesAreExact == ManagementSpec => []LedgerBalanced
<1>1. InitManagement => Exact
  BY InitExact
<1>2. TypeOK /\ Exact /\ [Next]_vars => Exact'
  BY NextExact
<1>3. ManagementSpec => [][Next]_vars
  BY ManagementImplementsLedger, PTL DEF ImplementsLedger, Spec
<1>4. ManagementSpec => []Exact
  BY <1>1, <1>2, <1>3, TypeCorrect, PTL DEF ManagementSpec
<1>5. DInv /\ Exact => LedgerBalanced
  BY DEF DInv, IInv, NoOverdraft, Agrees, Decided, Exact, LedgerBalanced
<1> QED
  BY <1>4, <1>5, DecisionInvariant, PTL
=============================================================================
