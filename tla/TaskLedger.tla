----------------------------- MODULE TaskLedger -----------------------------
(***************************************************************************)
(* What the projects and tasks of hrm-server promise, with every call a    *)
(* single step: a task changes only by an edit, a move along the status    *)
(* transitions or an assignment, each applied to the row as it is and      *)
(* entered in the audit trail.  TaskManagement.tla, where the calls are    *)
(* interleaved database transactions, is shown to implement this module.   *)
(* Whom the actor may act for is not part of the promise: it is checked    *)
(* against an assignment that may have been replaced meanwhile.            *)
(***************************************************************************)
EXTENDS Naturals, Sequences

CONSTANTS
    Employees,
    Managers,     \* employees with the permission task.manage.team
    Projects, Tasks, Titles,
    Absent        \* NULL, undefined or no row

ASSUME ManagersAssumption == Managers \subseteq Employees

VARIABLES
    creator,     \* projects.created_by_employee_id; Absent: no such project
    members,     \* project_members
    task,        \* tasks
    assignment,  \* task_assignments: at most one row per task
    audit,       \* audit_logs: the entries of each task, in order
    present      \* employees with a row
tables == <<creator, members, task, assignment, audit>>
ledgerVars == <<tables, present>>

----------------------------------------------------------------------------
(* Types *)

Statuses == {"todo", "in_progress", "blocked", "done", "cancelled"}

\* allowedStatusTransitions
Transitions ==
    [todo |-> {"in_progress", "blocked", "cancelled"},
     in_progress |-> {"blocked", "done", "cancelled"},
     blocked |-> {"in_progress", "cancelled"},
     done |-> {}, cancelled |-> {}]

\* Two of the three priorities; the default of createTask is one of them.
Priorities == {"medium", "high"}

Task == [project : Projects, creator : Employees, status : Statuses,
         title : Titles, priority : Priorities]

Assignment == [employee : Employees, by : Employees]

ASSUME TaskAssumption == Absent \notin Task \cup Assignment

Entry == [action : {"created", "assigned", "updated", "status_updated"},
          before : Task \cup {Absent}, after : Task,
          assignee : Employees \cup {Absent}]

LedgerInit ==
    /\ creator = [p \in Projects |-> Absent]
    /\ members = {}
    /\ task = [t \in Tasks |-> Absent]
    /\ assignment = [t \in Tasks |-> Absent]
    /\ audit = [t \in Tasks |-> <<>>]
    /\ present = Employees

----------------------------------------------------------------------------
(* Creation *)

OpenProject(m, p) ==
    /\ m \in Managers
    /\ creator[p] = Absent
    /\ creator' = [creator EXCEPT ![p] = m]
    /\ members' = members \cup {<<p, m>>}
    /\ UNCHANGED <<task, assignment, audit, present>>

NewTask(m, p, title, priority) ==
    [project |-> p, creator |-> m, status |-> "todo", title |-> title,
     priority |-> priority]

CreatedEntry(new) ==
    [action |-> "created", before |-> Absent, after |-> new, assignee |-> Absent]

Insert(t, new) ==
    /\ task' = [task EXCEPT ![t] = new]
    /\ audit' = [audit EXCEPT ![t] = <<CreatedEntry(new)>>]

File(m, t) ==
    /\ m \in Managers
    /\ task[t] = Absent
    /\ \E p \in Projects, title \in Titles, priority \in Priorities :
        creator[p] # Absent /\ Insert(t, NewTask(m, p, title, priority))
    /\ UNCHANGED <<creator, members, assignment, present>>

----------------------------------------------------------------------------
(* Changes of a task *)

OrElse(a, b) == IF a = Absent THEN b ELSE a

\* A row with the fields of an input; undefined fields are left as they are.
Edited(row, title, priority) ==
    [row EXCEPT !.title = OrElse(title, @), !.priority = OrElse(priority, @)]

Log(t, action, after, assignee) ==
    audit' = [audit EXCEPT ![t] = Append(@,
        [action |-> action, before |-> task[t], after |-> after,
         assignee |-> assignee])]

Assignee(t) == IF assignment[t] = Absent THEN Absent ELSE assignment[t].employee

Change(t, action, after) ==
    /\ task' = [task EXCEPT ![t] = after]
    /\ Log(t, action, after, Assignee(t))
    /\ UNCHANGED <<creator, members, assignment, present>>

Edit(m, t, title, priority) ==
    /\ m \in present \cap Managers
    /\ task[t] # Absent
    /\ Change(t, "updated", Edited(task[t], title, priority))

Move(a, t, status) ==
    /\ a \in present
    /\ task[t] # Absent
    /\ status \in Transitions[task[t].status]
    /\ Change(t, "status_updated", [task[t] EXCEPT !.status = status])

Assign(m, t, e) ==
    /\ m \in present \cap Managers
    /\ e \in present
    /\ task[t] # Absent
    /\ assignment' = [assignment EXCEPT ![t] = [employee |-> e, by |-> m]]
    /\ members' = members \cup {<<task[t].project, e>>}
    /\ Log(t, "assigned", task[t], e)
    /\ UNCHANGED <<creator, task, present>>

\* ON DELETE CASCADE takes the employee's assignments and memberships along;
\* ON DELETE RESTRICT keeps whoever created or assigned something.
Dismiss(e) ==
    /\ e \in present
    /\ \A p \in Projects : creator[p] # e
    /\ \A t \in Tasks : task[t] # Absent => task[t].creator # e
    /\ \A t \in Tasks : assignment[t] # Absent =>
           assignment[t].by # e \/ assignment[t].employee = e
    /\ present' = present \ {e}
    /\ assignment' = [t \in Tasks |->
           IF assignment[t] # Absent /\ assignment[t].employee = e
           THEN Absent ELSE assignment[t]]
    /\ members' = {m \in members : m[2] # e}
    /\ UNCHANGED <<creator, task, audit>>

LedgerNext ==
    \/ \E m \in present, p \in Projects : OpenProject(m, p)
    \/ \E m \in present, t \in Tasks :
        \/ File(m, t)
        \/ \E e \in Employees : Assign(m, t, e)
        \/ \E title \in Titles \cup {Absent}, priority \in Priorities \cup {Absent} :
               Edit(m, t, title, priority)
        \/ \E status \in Statuses : Move(m, t, status)
    \/ \E e \in Employees : Dismiss(e)

LedgerSpec == LedgerInit /\ [][LedgerNext]_ledgerVars
=============================================================================
