--------------------------- MODULE TaskManagement ---------------------------
(***************************************************************************)
(* The projects and tasks of hrm-server: the operations of HrmService      *)
(* (hrm-server/src/services.js) that create, assign, edit and move tasks,  *)
(* each in a transaction over PostgreSQL (READ COMMITTED), and the changes *)
(* of employees they race with.                                            *)
(*                                                                         *)
(* A transaction starts with one SELECT ... FOR UPDATE OF t, which joins   *)
(* the task with its assignment and assignee.  The statement takes its     *)
(* snapshot first and waits for the lock of the task row after it: when    *)
(* the lock is granted PostgreSQL follows the task row to its newest       *)
(* version, while the joined rows stay those of the snapshot.              *)
(***************************************************************************)
EXTENDS TaskLedger

CONSTANTS
    Departments,
    Sessions,     \* concurrent calls, one pooled connection each
    MaxWrites     \* bound on the audit entries of a task

ASSUME AbsentAssumption ==
    Absent \notin Employees \cup Departments \cup Projects \cup Titles

VARIABLES
    active,      \* employees whose employment_status is 'active'
    department,  \* employees.department_id
    step,        \* the statement a session executes next
    call,        \* the call a session is serving
    seen,        \* the assignment and department its snapshot joined
    existing     \* the task row as locked
employeeRows == <<present, active, department>>
session == <<step, call, seen, existing>>
vars == <<tables, employeeRows, session>>

----------------------------------------------------------------------------
(* Calls and what they read *)

\* Undefined fields of a request's input are Absent.
Call == [op : {"assign", "update", "status"}, actor : Employees,
         department : Departments \cup {Absent}, task : Tasks,
         employee : Employees \cup {Absent}, status : Statuses \cup {Absent},
         title : Titles \cup {Absent}, priority : Priorities \cup {Absent}]

Joined == [assignee : Employees \cup {Absent},
           department : Departments \cup {Absent}]

Init ==
    /\ LedgerInit
    /\ active = Employees
    /\ department \in [Employees -> Departments \cup {Absent}]
    /\ step = [s \in Sessions |-> "idle"]
    /\ call = [s \in Sessions |-> Absent]
    /\ seen = [s \in Sessions |-> Absent]
    /\ existing = [s \in Sessions |-> Absent]

----------------------------------------------------------------------------
(* Creation: no row can be waited for, so each transaction is one step.    *)

CreateProject(m, p) ==
    /\ m \in active
    /\ OpenProject(m, p)
    /\ UNCHANGED <<active, department, session>>

CreateTask(m, t) ==
    /\ m \in active
    /\ File(m, t)
    /\ UNCHANGED <<active, department, session>>

----------------------------------------------------------------------------
(* Calls on a task.  The actor's department is read, and the permissions   *)
(* checked, before the transaction begins.                                 *)

Begin(s, c) ==
    /\ step[s] = "idle"
    /\ c.actor \in active
    /\ c.op \in {"assign", "update"} => c.actor \in Managers
    /\ task[c.task] # Absent
    /\ Len(audit[c.task]) < MaxWrites
    /\ call' = [call EXCEPT ![s] = c]
    /\ step' = [step EXCEPT ![s] = "select"]
    /\ UNCHANGED <<tables, employeeRows, seen, existing>>

Blank(op, a, t) ==
    [op |-> op, actor |-> a, department |-> department[a], task |-> t,
     employee |-> Absent, status |-> Absent, title |-> Absent,
     priority |-> Absent]

AssignTask(s, a, t) ==
    \E e \in Employees : Begin(s, [Blank("assign", a, t) EXCEPT !.employee = e])

UpdateTask(s, a, t) ==
    \E title \in Titles \cup {Absent}, priority \in Priorities \cup {Absent} :
        Begin(s, [Blank("update", a, t) EXCEPT !.title = title,
                                               !.priority = priority])

UpdateTaskStatus(s, a, t) ==
    \E status \in Statuses :
        Begin(s, [Blank("status", a, t) EXCEPT !.status = status])

----------------------------------------------------------------------------
(* The statements of a transaction *)

Return(s) ==
    /\ step' = [step EXCEPT ![s] = "idle"]
    /\ call' = [call EXCEPT ![s] = Absent]
    /\ seen' = [seen EXCEPT ![s] = Absent]
    /\ existing' = [existing EXCEPT ![s] = Absent]

JoinedRow(t) ==
    IF assignment[t] = Absent
    THEN [assignee |-> Absent, department |-> Absent]
    ELSE [assignee |-> assignment[t].employee,
          department |-> department[assignment[t].employee]]

Select(s) ==
    /\ step[s] = "select"
    /\ seen' = [seen EXCEPT ![s] = JoinedRow(call[s].task)]
    /\ step' = [step EXCEPT ![s] = "lock"]
    /\ UNCHANGED <<tables, employeeRows, call, existing>>

Holds(s) == step[s] \in {"employee", "write"}

\* Mutant: FOR UPDATE is missing.
LockedNever(t) == FALSE

Locked(t) == \E s \in Sessions : Holds(s) /\ call[s].task = t

\* taskScope: the team of an assigned task, the creator of an unassigned one
InScope(s) ==
    IF seen[s].assignee # Absent
    THEN seen[s].department = call[s].department
    ELSE task[call[s].task].creator = call[s].actor

\* Mutant: a manager may reopen a task.
MayMoveManager(s) ==
    \/ call[s].actor \in Managers
    \/ call[s].status \in Transitions[task[call[s].task].status]

MayMove(s) == call[s].status \in Transitions[task[call[s].task].status]

\* What assignTask, updateTask and updateTaskStatus demand of the locked row.
Accepted(s) ==
    IF call[s].op = "status"
    THEN /\ \/ seen[s].assignee = call[s].actor
            \/ call[s].actor \in Managers /\ InScope(s)
         /\ MayMove(s)
    ELSE InScope(s)

Lock(s) ==
    LET t == call[s].task IN
    /\ step[s] = "lock"
    /\ ~Locked(t)
    /\ IF Accepted(s)
       THEN /\ existing' = [existing EXCEPT ![s] = task[t]]
            /\ step' = [step EXCEPT ![s] =
                   IF call[s].op = "assign" THEN "employee" ELSE "write"]
            /\ UNCHANGED <<call, seen>>
       ELSE Return(s)
    /\ UNCHANGED <<tables, employeeRows>>

\* The new assignee is active and in the actor's department.
CheckEmployee(s) ==
    LET e == call[s].employee IN
    /\ step[s] = "employee"
    /\ IF e \in active /\ department[e] = call[s].department
       THEN /\ step' = [step EXCEPT ![s] = "write"]
            /\ UNCHANGED <<call, seen, existing>>
       ELSE Return(s)
    /\ UNCHANGED <<tables, employeeRows>>

\* Mutant: a title left out of the request is cleared.
UpdatedWholly(s) ==
    [existing[s] EXCEPT !.title = call[s].title,
                        !.priority = OrElse(call[s].priority, @)]

\* Input over the locked row.
Updated(s) == Edited(existing[s], call[s].title, call[s].priority)

Written(s) ==
    IF call[s].op = "status" THEN [existing[s] EXCEPT !.status = call[s].status]
    ELSE IF call[s].op = "update" THEN Updated(s)
    ELSE task[call[s].task]

\* The assignment the transaction leaves, as its own statements see it.
AssignmentAfter(s) ==
    IF call[s].op = "assign"
    THEN [employee |-> call[s].employee, by |-> call[s].actor]
    ELSE assignment[call[s].task]

\* Mutant: the new assignee does not join the project.
MembersUnchanged(s) == members

MembersAfter(s) ==
    IF call[s].op = "assign"
    THEN members \cup {<<existing[s].project, call[s].employee>>}
    ELSE members

EntryOf(s) ==
    [action |-> IF call[s].op = "assign" THEN "assigned"
                ELSE IF call[s].op = "update" THEN "updated" ELSE "status_updated",
     before |-> existing[s], after |-> Written(s),
     assignee |-> IF AssignmentAfter(s) = Absent THEN Absent
                  ELSE AssignmentAfter(s).employee]

\* The writes and COMMIT.  The foreign keys of the audit entry and of the
\* assignment fail for employees deleted meanwhile.
Write(s) ==
    LET t == call[s].task IN
    /\ step[s] = "write"
    /\ IF {call[s].actor, call[s].employee} \ {Absent} \subseteq present
       THEN /\ task' = [task EXCEPT ![t] = Written(s)]
            /\ assignment' = [assignment EXCEPT ![t] = AssignmentAfter(s)]
            /\ members' = MembersAfter(s)
            /\ audit' = [audit EXCEPT ![t] = Append(@, EntryOf(s))]
       ELSE UNCHANGED <<task, assignment, members, audit>>
    /\ Return(s)
    /\ UNCHANGED <<creator, employeeRows>>

\* The connection drops, the server stops or a statement fails.
Abort(s) ==
    /\ step[s] # "idle"
    /\ Return(s)
    /\ UNCHANGED <<tables, employeeRows>>

----------------------------------------------------------------------------
(* Employees *)

UpdateEmployee(e) ==
    /\ e \in present
    /\ \E d \in Departments \cup {Absent} :
           department' = [department EXCEPT ![e] = d]
    /\ active' \in {active \cup {e}, active \ {e}}
    /\ UNCHANGED <<present, tables, session>>

DeleteEmployee(e) ==
    /\ Dismiss(e)
    /\ active' = active \ {e}
    /\ UNCHANGED <<department, session>>

Next ==
    \/ \E m \in Managers, p \in Projects : CreateProject(m, p)
    \/ \E m \in Managers, t \in Tasks : CreateTask(m, t)
    \/ \E s \in Sessions, a \in Employees, t \in Tasks :
           AssignTask(s, a, t) \/ UpdateTask(s, a, t) \/ UpdateTaskStatus(s, a, t)
    \/ \E s \in Sessions :
           Select(s) \/ Lock(s) \/ CheckEmployee(s) \/ Write(s) \/ Abort(s)
    \/ \E e \in Employees : UpdateEmployee(e) \/ DeleteEmployee(e)

Spec == Init /\ [][Next]_vars

----------------------------------------------------------------------------
(* Properties *)

(* Tables and sessions hold what their columns allow.                      *)
TypeOK ==
    /\ creator \in [Projects -> Employees \cup {Absent}]
    /\ members \subseteq Projects \X Employees
    /\ task \in [Tasks -> Task \cup {Absent}]
    /\ assignment \in [Tasks -> Assignment \cup {Absent}]
    /\ audit \in [Tasks -> Seq(Entry)]
    /\ active \subseteq present /\ present \subseteq Employees
    /\ department \in [Employees -> Departments \cup {Absent}]
    /\ step \in [Sessions -> {"idle", "select", "lock", "employee", "write"}]
    /\ call \in [Sessions -> Call \cup {Absent}]
    /\ seen \in [Sessions -> Joined \cup {Absent}]
    /\ existing \in [Sessions -> Task \cup {Absent}]

(* The interleaved transactions implement the task ledger: whatever calls  *)
(* overlap, the commit of each applies it, whole and once, to the rows as  *)
(* they then are.                                                          *)
ImplementsTaskLedger == LedgerSpec

(* README.md:66, "Status transitions are validated and terminal states     *)
(* cannot be reopened", whichever calls on the task overlap.               *)
StatusMovesForward ==
    [][\A t \in Tasks :
          task[t] # Absent =>
              /\ task'[t] # Absent
              /\ task'[t].status # task[t].status =>
                     task'[t].status \in Transitions[task[t].status]]_vars

(* The audit trail of a task accounts for every change of its row: each    *)
(* entry starts from the state the one before it left, and the last leaves *)
(* the state of the row, so no overlapping call loses another's write.     *)
HistoryConnects ==
    \A t \in Tasks :
        LET n == Len(audit[t]) IN
        /\ task[t] = (IF n = 0 THEN Absent ELSE audit[t][n].after)
        /\ \A i \in 1..n :
               audit[t][i].before =
                   (IF i = 1 THEN Absent ELSE audit[t][i - 1].after)

(* A task belongs to the employee its last audit entry names, unless that  *)
(* employee was deleted, and its assignee is a member of its project.      *)
AssigneesAreMembers ==
    \A t \in Tasks :
        LET n == Len(audit[t]) IN
        IF assignment[t] = Absent
        THEN n > 0 => audit[t][n].assignee \notin present
        ELSE /\ <<task[t].project, assignment[t].employee>> \in members
             /\ audit[t][n].assignee = assignment[t].employee

(* README.md:64, POST .../status "requires task.update.self for an         *)
(* assignment owned by the actor": an employee who is not a manager and is *)
(* about to move a task owns it.  The assignment that was checked is that  *)
(* of the snapshot, older than the lock.                                   *)
OwnersMoveTheirTasks ==
    \A s \in Sessions :
        step[s] = "write" /\ call[s].op = "status"
          /\ call[s].actor \in present \ Managers =>
            /\ assignment[call[s].task] # Absent
            /\ assignment[call[s].task].employee = call[s].actor
=============================================================================
