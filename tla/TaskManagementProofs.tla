----------------------- MODULE TaskManagementProofs -----------------------
(* Proofs about TaskManagement, for every value of its constants. *)
EXTENDS TaskManagement, TLAPS

-----------------------------------------------------------------------------
(* The inductive invariant: the sessions that hold a task row hold it      *)
(* alone, and what they read of it when they took it is still its value.   *)

(* A call that has begun names a task that exists, and the field its       *)
(* operation writes.                                                       *)
InCall ==
  \A s \in Sessions :
    step[s] # "idle" =>
      /\ call[s] \in Call
      /\ task[call[s].task] # Absent
      /\ call[s].op = "status" => call[s].status \in Statuses
      /\ call[s].op = "assign" => call[s].employee \in Employees

(* Two sessions never hold the same task. *)
HoldersExclude ==
  \A s, t \in Sessions :
    s # t /\ Holds(s) /\ Holds(t) => call[s].task # call[t].task

HoldersRead ==
  \A s \in Sessions : Holds(s) => existing[s] = task[call[s].task]

MovesAllowed ==
  \A s \in Sessions :
    Holds(s) /\ call[s].op = "status" =>
      call[s].status \in Transitions[existing[s].status]

IInv ==
  /\ TypeOK
  /\ InCall
  /\ HoldersExclude
  /\ HoldersRead
  /\ MovesAllowed
  /\ HistoryConnects

-----------------------------------------------------------------------------
LEMMA InitIInv == Init => IInv
<1> SUFFICES ASSUME Init PROVE IInv
  OBVIOUS
<1> USE DEF Init, LedgerInit
<1>1. TypeOK
  BY DEF TypeOK
<1>2. InCall /\ HoldersExclude /\ HoldersRead /\ MovesAllowed
  BY DEF InCall, HoldersExclude, HoldersRead, MovesAllowed, Holds
<1>3. HistoryConnects
  BY DEF HistoryConnects
<1> QED
  BY <1>1, <1>2, <1>3 DEF IInv

-----------------------------------------------------------------------------
(* What an action keeps when it leaves the sessions' state alone, and when *)
(* it moves a single session that holds no row afterwards.                 *)

LEMMA SessionsKept ==
  ASSUME IInv, UNCHANGED session, UNCHANGED <<task, audit>>
  PROVE  /\ InCall' /\ HoldersExclude' /\ HoldersRead' /\ MovesAllowed'
         /\ HistoryConnects'
<1>1. InCall'
  BY DEF IInv, InCall, session
<1>2. HoldersExclude' /\ HoldersRead' /\ MovesAllowed'
  BY DEF IInv, HoldersExclude, HoldersRead, MovesAllowed, Holds, session
<1>3. HistoryConnects'
  BY DEF IInv, HistoryConnects
<1> QED
  BY <1>1, <1>2, <1>3

(* A session that returns. *)
LEMMA ReturnKeeps ==
  ASSUME IInv, NEW s \in Sessions, Return(s), UNCHANGED <<task, audit>>
  PROVE  /\ InCall' /\ HoldersExclude' /\ HoldersRead' /\ MovesAllowed'
         /\ HistoryConnects'
<1> USE DEF IInv, Return, TypeOK
<1>1. step'[s] = "idle" /\ ~Holds(s)'
  BY DEF Holds
<1>2. \A r \in Sessions \ {s} :
        step'[r] = step[r] /\ call'[r] = call[r] /\ existing'[r] = existing[r]
  OBVIOUS
<1>3. InCall'
  BY <1>1, <1>2 DEF InCall
<1>4. HoldersExclude' /\ HoldersRead' /\ MovesAllowed'
  BY <1>1, <1>2 DEF HoldersExclude, HoldersRead, MovesAllowed, Holds
<1>5. HistoryConnects'
  BY DEF HistoryConnects
<1> QED
  BY <1>3, <1>4, <1>5

LEMMA ReturnTyped ==
  ASSUME TypeOK, NEW s \in Sessions, Return(s), UNCHANGED <<tables, employeeRows>>
  PROVE  TypeOK'
  BY DEF TypeOK, Return, tables, employeeRows

-----------------------------------------------------------------------------
LEMMA CreateProjectKeeps ==
  ASSUME IInv, NEW m \in Managers, NEW p \in Projects, CreateProject(m, p)
  PROVE  IInv'
<1> USE DEF CreateProject, OpenProject
<1>1. TypeOK'
  BY ManagersAssumption DEF IInv, TypeOK, employeeRows, session
<1> QED
  BY <1>1, SessionsKept DEF IInv

LEMMA CreateTaskKeeps ==
  ASSUME IInv, NEW m \in Managers, NEW t \in Tasks, CreateTask(m, t)
  PROVE  IInv'
<1> USE DEF CreateTask, File, IInv
<1>1. PICK p \in Projects, title \in Titles, priority \in Priorities :
        Insert(t, NewTask(m, p, title, priority))
  OBVIOUS
<1> DEFINE new == NewTask(m, p, title, priority)
           entry == CreatedEntry(new)
<1>2. new \in Task
  BY ManagersAssumption DEF NewTask, Task, Statuses
<1>3. entry \in Entry
  BY <1>2 DEF Entry, CreatedEntry
<1>4. <<entry>> \in Seq(Entry) /\ Len(<<entry>>) = 1 /\ <<entry>>[1] = entry
  BY <1>3
<1>5. task' = [task EXCEPT ![t] = new] /\ audit' = [audit EXCEPT ![t] = <<entry>>]
  BY <1>1 DEF Insert
<1>11. entry.before = Absent /\ entry.after = new
  BY DEF CreatedEntry
<1> HIDE DEF new, entry
<1>6. TypeOK'
  BY <1>2, <1>4, <1>5 DEF TypeOK, employeeRows, session
<1>7. \A s \in Sessions : step[s] # "idle" =>
        call[s].task # t /\ task'[call[s].task] = task[call[s].task]
  BY <1>5 DEF InCall, TypeOK, Call
<1>8. InCall'
  BY <1>7 DEF InCall, session
<1>9. HoldersExclude' /\ HoldersRead' /\ MovesAllowed'
  BY <1>7 DEF HoldersExclude, HoldersRead, MovesAllowed, Holds, session
<1>10. HistoryConnects'
  <2> SUFFICES ASSUME NEW u \in Tasks
               PROVE  LET n == Len(audit'[u]) IN
                      /\ task'[u] = (IF n = 0 THEN Absent ELSE audit'[u][n].after)
                      /\ \A i \in 1..n : audit'[u][i].before =
                           (IF i = 1 THEN Absent ELSE audit'[u][i - 1].after)
    BY DEF HistoryConnects
  <2>1. CASE u = t
    BY <2>1, <1>11, <1>4, <1>5 DEF TypeOK
  <2>2. CASE u # t
    BY <2>2, <1>5 DEF HistoryConnects, TypeOK
  <2> QED
    BY <2>1, <2>2
<1> QED
  BY <1>6, <1>8, <1>9, <1>10

LEMMA BeginKeeps ==
  ASSUME IInv, NEW s \in Sessions, NEW c \in Call, Begin(s, c),
         c.op = "status" => c.status \in Statuses,
         c.op = "assign" => c.employee \in Employees
  PROVE  IInv'
<1> USE DEF IInv, Begin
<1>1. TypeOK'
  BY DEF TypeOK, tables, employeeRows
<1>2. task' = task /\ audit' = audit /\ existing' = existing
  BY DEF tables
<1>3. step'[s] = "select" /\ call'[s] = c
  BY DEF TypeOK
<1>4. \A r \in Sessions \ {s} : step'[r] = step[r] /\ call'[r] = call[r]
  BY DEF TypeOK
<1>5. InCall'
  BY <1>2, <1>3, <1>4 DEF InCall
<1>6. HoldersExclude' /\ HoldersRead' /\ MovesAllowed'
  BY <1>2, <1>3, <1>4 DEF HoldersExclude, HoldersRead, MovesAllowed, Holds
<1>7. HistoryConnects'
  BY <1>2 DEF HistoryConnects
<1> QED
  BY <1>1, <1>5, <1>6, <1>7

LEMMA ArriveKeeps ==
  ASSUME IInv, NEW s \in Sessions, NEW a \in Employees, NEW t \in Tasks,
         AssignTask(s, a, t) \/ UpdateTask(s, a, t) \/ UpdateTaskStatus(s, a, t)
  PROVE  IInv'
<1>1. department[a] \in Departments \cup {Absent}
  BY DEF IInv, TypeOK
<1>2. CASE AssignTask(s, a, t)
  <2>1. PICK e \in Employees : Begin(s, [Blank("assign", a, t) EXCEPT !.employee = e])
    BY <1>2 DEF AssignTask
  <2> DEFINE c == [Blank("assign", a, t) EXCEPT !.employee = e]
  <2>2. c \in Call /\ c.op = "assign" /\ c.employee = e
    BY <1>1 DEF Blank, Call
  <2> HIDE DEF c
  <2>3. Begin(s, c)
    BY <2>1 DEF c
  <2> QED
    BY <2>2, <2>3, BeginKeeps
<1>3. CASE UpdateTask(s, a, t)
  <2>1. PICK title \in Titles \cup {Absent}, priority \in Priorities \cup {Absent} :
          Begin(s, [Blank("update", a, t) EXCEPT !.title = title, !.priority = priority])
    BY <1>3 DEF UpdateTask
  <2> DEFINE c == [Blank("update", a, t) EXCEPT !.title = title, !.priority = priority]
  <2>2. c \in Call /\ c.op = "update"
    BY <1>1 DEF Blank, Call
  <2> HIDE DEF c
  <2>3. Begin(s, c)
    BY <2>1 DEF c
  <2> QED
    BY <2>2, <2>3, BeginKeeps
<1>4. CASE UpdateTaskStatus(s, a, t)
  <2>1. PICK status \in Statuses : Begin(s, [Blank("status", a, t) EXCEPT !.status = status])
    BY <1>4 DEF UpdateTaskStatus
  <2> DEFINE c == [Blank("status", a, t) EXCEPT !.status = status]
  <2>2. c \in Call /\ c.op = "status" /\ c.status = status
    BY <1>1 DEF Blank, Call
  <2> HIDE DEF c
  <2>3. Begin(s, c)
    BY <2>1 DEF c
  <2> QED
    BY <2>2, <2>3, BeginKeeps
<1> QED
  BY <1>2, <1>3, <1>4

LEMMA SelectKeeps ==
  ASSUME IInv, NEW s \in Sessions, Select(s)
  PROVE  IInv'
<1> USE DEF IInv, Select
<1>1. call[s] \in Call
  BY DEF InCall
<1>2. JoinedRow(call[s].task) \in Joined
  BY <1>1 DEF TypeOK, JoinedRow, Joined, Call, Assignment
<1>3. TypeOK'
  BY <1>2 DEF TypeOK, tables, employeeRows
<1>4. task' = task /\ audit' = audit /\ call' = call /\ existing' = existing
  BY DEF tables
<1>5. step'[s] = "lock" /\ \A r \in Sessions \ {s} : step'[r] = step[r]
  BY DEF TypeOK
<1>6. InCall'
  BY <1>4, <1>5 DEF InCall
<1>7. HoldersExclude' /\ HoldersRead' /\ MovesAllowed'
  BY <1>4, <1>5 DEF HoldersExclude, HoldersRead, MovesAllowed, Holds
<1>8. HistoryConnects'
  BY <1>4 DEF HistoryConnects
<1> QED
  BY <1>3, <1>6, <1>7, <1>8

LEMMA LockKeeps ==
  ASSUME IInv, NEW s \in Sessions, Lock(s)
  PROVE  IInv'
<1>1. CASE ~Accepted(s)
  <2>1. Return(s) /\ UNCHANGED <<tables, employeeRows>>
    BY <1>1 DEF Lock
  <2>2. TypeOK'
    BY <2>1, ReturnTyped DEF IInv
  <2> QED
    BY <2>1, <2>2, ReturnKeeps DEF IInv, tables
<1>2. CASE Accepted(s)
  <2> DEFINE t == call[s].task
  <2>1. /\ ~Locked(t)
        /\ existing' = [existing EXCEPT ![s] = task[t]]
        /\ step' = [step EXCEPT ![s] =
             IF call[s].op = "assign" THEN "employee" ELSE "write"]
        /\ UNCHANGED <<call, seen, tables, employeeRows>>
    BY <1>2 DEF Lock
  <2>2. step[s] = "lock" /\ call[s] \in Call /\ task[t] # Absent
    BY DEF Lock, IInv, InCall
  <2>3. task[t] \in Task
    BY <2>2 DEF IInv, TypeOK, Call
  <2>4. task' = task /\ audit' = audit /\ call' = call
    BY <2>1 DEF tables
  <2>5. existing'[s] = task[t]
    BY <2>1 DEF IInv, TypeOK
  <2>6. \A r \in Sessions \ {s} : step'[r] = step[r] /\ existing'[r] = existing[r]
    BY <2>1 DEF IInv, TypeOK
  <2>7. TypeOK'
    BY <2>1, <2>3 DEF IInv, TypeOK, tables, employeeRows
  <2>8. InCall'
    BY <2>2, <2>4, <2>6 DEF IInv, InCall
  <2>9. HoldersExclude'
    BY <2>1, <2>4, <2>6 DEF IInv, HoldersExclude, Holds, Locked
  <2>10. HoldersRead'
    BY <2>4, <2>5, <2>6 DEF IInv, HoldersRead, Holds
  <2>11. call[s].op = "status" => call[s].status \in Transitions[task[t].status]
    BY <1>2 DEF Accepted, MayMove
  <2>12. MovesAllowed'
    BY <2>4, <2>5, <2>6, <2>11 DEF IInv, MovesAllowed, Holds
  <2>13. HistoryConnects'
    BY <2>4 DEF IInv, HistoryConnects
  <2> QED
    BY <2>7, <2>8, <2>9, <2>10, <2>12, <2>13 DEF IInv
<1> QED
  BY <1>1, <1>2

LEMMA CheckEmployeeKeeps ==
  ASSUME IInv, NEW s \in Sessions, CheckEmployee(s)
  PROVE  IInv'
<1> DEFINE ok == call[s].employee \in active
                   /\ department[call[s].employee] = call[s].department
<1>1. CASE ~ok
  <2>1. Return(s) /\ UNCHANGED <<tables, employeeRows>>
    BY <1>1 DEF CheckEmployee
  <2>2. TypeOK'
    BY <2>1, ReturnTyped DEF IInv
  <2> QED
    BY <2>1, <2>2, ReturnKeeps DEF IInv, tables
<1>2. CASE ok
  <2>1. /\ step' = [step EXCEPT ![s] = "write"]
        /\ UNCHANGED <<call, seen, existing, tables, employeeRows>>
    BY <1>2 DEF CheckEmployee
  <2>2. task' = task /\ audit' = audit /\ call' = call /\ existing' = existing
    BY <2>1 DEF tables
  <2>3. step[s] = "employee" /\ step'[s] = "write"
          /\ \A r \in Sessions \ {s} : step'[r] = step[r]
    BY <2>1 DEF IInv, TypeOK, CheckEmployee
  <2>4. TypeOK'
    BY <2>1 DEF IInv, TypeOK, tables, employeeRows
  <2>5. InCall'
    BY <2>2, <2>3 DEF IInv, InCall
  <2>6. HoldersExclude' /\ HoldersRead' /\ MovesAllowed'
    BY <2>2, <2>3 DEF IInv, HoldersExclude, HoldersRead, MovesAllowed, Holds
  <2>7. HistoryConnects'
    BY <2>2 DEF IInv, HistoryConnects
  <2> QED
    BY <2>4, <2>5, <2>6, <2>7 DEF IInv
<1> QED
  BY <1>1, <1>2

(* The write of a session lands on the row as it read it: nobody else      *)
(* holds the task, and its entry continues the task's history.             *)
LEMMA WriteKeeps ==
  ASSUME IInv, NEW s \in Sessions, Write(s)
  PROVE  IInv'
<1> DEFINE t == call[s].task
           landed == {call[s].actor, call[s].employee} \ {Absent} \subseteq present
<1>1. Return(s) /\ step[s] = "write" /\ UNCHANGED <<creator, employeeRows>>
  BY DEF Write
<1>2. CASE ~landed
  <2>1. UNCHANGED <<tables, employeeRows>>
    BY <1>1, <1>2 DEF Write, tables
  <2>2. TypeOK'
    BY <1>1, <2>1, ReturnTyped DEF IInv
  <2> QED
    BY <1>1, <2>1, <2>2, ReturnKeeps DEF IInv, tables
<1>3. CASE landed
  <2>1. /\ task' = [task EXCEPT ![t] = Written(s)]
        /\ assignment' = [assignment EXCEPT ![t] = AssignmentAfter(s)]
        /\ members' = MembersAfter(s)
        /\ audit' = [audit EXCEPT ![t] = Append(@, EntryOf(s))]
    BY <1>3 DEF Write
  <2>2. call[s] \in Call /\ t \in Tasks /\ task[t] # Absent /\ existing[s] = task[t]
    BY <1>1 DEF IInv, InCall, Call, HoldersRead, Holds
  <2>3. existing[s] \in Task
    BY <2>2 DEF IInv, TypeOK
  <2>4. /\ call[s].op = "status" => call[s].status \in Statuses
        /\ call[s].op = "assign" => call[s].employee \in Employees
        /\ call[s].op \in {"assign", "update", "status"}
        /\ call[s].actor \in Employees
        /\ call[s].title \in Titles \cup {Absent}
        /\ call[s].priority \in Priorities \cup {Absent}
    BY <1>1, <2>2 DEF IInv, InCall, Call
  <2>5. Written(s) \in Task
    <3>1. Updated(s) \in Task
      BY <2>3, <2>4 DEF Updated, Edited, OrElse, Task
    <3>2. call[s].op = "status" => [existing[s] EXCEPT !.status = call[s].status] \in Task
      BY <2>3, <2>4 DEF Task
    <3> QED
      BY <2>2, <2>3, <3>1, <3>2 DEF Written
  <2>6. AssignmentAfter(s) \in Assignment \cup {Absent}
    BY <2>2, <2>4 DEF AssignmentAfter, Assignment, IInv, TypeOK
  <2>7. EntryOf(s) \in Entry
    BY <2>3, <2>5, <2>6 DEF EntryOf, Entry, Assignment
  <2>8. EntryOf(s).before = existing[s] /\ EntryOf(s).after = Written(s)
    BY DEF EntryOf
  <2>9. MembersAfter(s) \subseteq Projects \X Employees
    BY <2>3, <2>4 DEF MembersAfter, Task, IInv, TypeOK
  <2>10. audit[t] \in Seq(Entry)
    BY <2>2 DEF IInv, TypeOK
  <2>11. Append(audit[t], EntryOf(s)) \in Seq(Entry)
    BY <2>7, <2>10
  <2> DEFINE w == Written(s)
             entry == EntryOf(s)
             after == AssignmentAfter(s)
             joined == MembersAfter(s)
  <2> HIDE DEF w, entry, after, joined
  <2>12. TypeOK'
    <3>1. task' = [task EXCEPT ![t] = w] /\ w \in Task
      BY <2>1, <2>5 DEF w
    <3>2. assignment' = [assignment EXCEPT ![t] = after] /\ after \in Assignment \cup {Absent}
      BY <2>1, <2>6 DEF after
    <3>3. members' \subseteq Projects \X Employees
      BY <2>1, <2>9
    <3>4. audit' \in [Tasks -> Seq(Entry)]
      BY <2>1, <2>11 DEF IInv, TypeOK
    <3> QED
      BY <1>1, <3>1, <3>2, <3>3, <3>4 DEF IInv, TypeOK, Return, employeeRows
  <2>13. \A r \in Sessions \ {s} :
           /\ step'[r] = step[r] /\ call'[r] = call[r] /\ existing'[r] = existing[r]
           /\ Holds(r) => call[r].task # t
    BY <1>1 DEF IInv, TypeOK, Return, HoldersExclude, Holds
  <2>14. step'[s] = "idle"
    BY <1>1 DEF IInv, TypeOK, Return
  <2>15. w \in Task /\ task' = [task EXCEPT ![t] = w]
    BY <2>1, <2>5 DEF w
  <2>16. InCall'
    <3> SUFFICES ASSUME NEW r \in Sessions, step'[r] # "idle"
                 PROVE  /\ call'[r] \in Call /\ task'[call'[r].task] # Absent
                        /\ call'[r].op = "status" => call'[r].status \in Statuses
                        /\ call'[r].op = "assign" => call'[r].employee \in Employees
      BY DEF InCall
    <3>1. r # s /\ step[r] # "idle" /\ call'[r] = call[r]
      BY <2>13, <2>14
    <3>2. call[r] \in Call /\ call[r].task \in Tasks /\ task[call[r].task] # Absent
      BY <3>1 DEF IInv, InCall, Call
    <3>3. task'[call[r].task] # Absent
      BY <2>2, <2>15, <3>2, TaskAssumption DEF IInv, TypeOK
    <3> QED
      BY <3>1, <3>2, <3>3 DEF IInv, InCall
  <2>17. HoldersExclude' /\ HoldersRead' /\ MovesAllowed'
    <3>1. \A r \in Sessions : Holds(r)' => r # s /\ Holds(r) /\ call[r] \in Call
      BY <2>13, <2>14 DEF Holds, IInv, InCall
    <3>2. \A r \in Sessions : Holds(r)' => task'[call[r].task] = task[call[r].task]
      BY <2>13, <2>15, <3>1 DEF IInv, TypeOK, Call
    <3> QED
      BY <2>13, <3>1, <3>2 DEF IInv, HoldersExclude, HoldersRead, MovesAllowed
  <2>18. HistoryConnects'
    <3> SUFFICES ASSUME NEW u \in Tasks
                 PROVE  LET n == Len(audit'[u]) IN
                        /\ task'[u] = (IF n = 0 THEN Absent ELSE audit'[u][n].after)
                        /\ \A i \in 1..n : audit'[u][i].before =
                             (IF i = 1 THEN Absent ELSE audit'[u][i - 1].after)
      BY DEF HistoryConnects
    <3>1. CASE u # t
      BY <3>1, <2>1 DEF IInv, HistoryConnects, TypeOK
    <3>2. CASE u = t
      <4> DEFINE q == audit[t]
                 n == Len(q)
      <4>1. /\ q \in Seq(Entry) /\ n \in Nat /\ n # 0
            /\ existing[s] = q[n].after
            /\ \A i \in 1..n : q[i].before = (IF i = 1 THEN Absent ELSE q[i - 1].after)
        BY <2>2, <2>10 DEF IInv, HistoryConnects
      <4>2. audit'[u] = Append(q, entry) /\ task'[u] = w
        BY <3>2, <2>1, <2>2 DEF IInv, TypeOK, entry, w
      <4>3. entry \in Entry /\ entry.before = existing[s] /\ entry.after = w
        BY <2>7, <2>8 DEF entry, w
      <4> HIDE DEF q
      <4>4. /\ Len(Append(q, entry)) = n + 1
            /\ Append(q, entry)[n + 1] = entry
            /\ \A i \in 1..n : Append(q, entry)[i] = q[i]
        BY <4>1, <4>3
      <4> QED
        BY <4>1, <4>2, <4>3, <4>4
    <3> QED
      BY <3>1, <3>2
  <2> QED
    BY <2>12, <2>16, <2>17, <2>18 DEF IInv
<1> QED
  BY <1>2, <1>3

LEMMA UpdateEmployeeKeeps ==
  ASSUME IInv, NEW e \in Employees, UpdateEmployee(e)
  PROVE  IInv'
<1> USE DEF UpdateEmployee
<1>1. TypeOK'
  BY DEF IInv, TypeOK, tables, session
<1> QED
  BY <1>1, SessionsKept DEF IInv, tables

LEMMA DeleteEmployeeKeeps ==
  ASSUME IInv, NEW e \in Employees, DeleteEmployee(e)
  PROVE  IInv'
<1> USE DEF DeleteEmployee, Dismiss
<1>1. TypeOK'
  BY DEF IInv, TypeOK, session
<1> QED
  BY <1>1, SessionsKept DEF IInv

LEMMA AbortKeeps ==
  ASSUME IInv, NEW s \in Sessions, Abort(s)
  PROVE  IInv'
<1>1. Return(s) /\ UNCHANGED <<tables, employeeRows>>
  BY DEF Abort
<1>2. TypeOK'
  BY <1>1, ReturnTyped DEF IInv
<1> QED
  BY <1>1, <1>2, ReturnKeeps DEF IInv, tables

LEMMA NextIInv == IInv /\ [Next]_vars => IInv'
<1> SUFFICES ASSUME IInv, [Next]_vars PROVE IInv'
  OBVIOUS
<1>1. CASE UNCHANGED vars
  BY <1>1, SessionsKept DEF vars, IInv, TypeOK, tables, employeeRows, session
<1>2. ASSUME NEW m \in Managers, NEW p \in Projects, CreateProject(m, p) PROVE IInv'
  BY <1>2, CreateProjectKeeps
<1>3. ASSUME NEW m \in Managers, NEW t \in Tasks, CreateTask(m, t) PROVE IInv'
  BY <1>3, CreateTaskKeeps
<1>4. ASSUME NEW s \in Sessions, NEW a \in Employees, NEW t \in Tasks,
             AssignTask(s, a, t) \/ UpdateTask(s, a, t) \/ UpdateTaskStatus(s, a, t)
      PROVE  IInv'
  BY <1>4, ArriveKeeps
<1>5. ASSUME NEW s \in Sessions, Select(s) PROVE IInv'
  BY <1>5, SelectKeeps
<1>6. ASSUME NEW s \in Sessions, Lock(s) PROVE IInv'
  BY <1>6, LockKeeps
<1>7. ASSUME NEW s \in Sessions, CheckEmployee(s) PROVE IInv'
  BY <1>7, CheckEmployeeKeeps
<1>8. ASSUME NEW s \in Sessions, Write(s) PROVE IInv'
  BY <1>8, WriteKeeps
<1>9. ASSUME NEW s \in Sessions, Abort(s) PROVE IInv'
  BY <1>9, AbortKeeps
<1>10. ASSUME NEW e \in Employees, UpdateEmployee(e) PROVE IInv'
  BY <1>10, UpdateEmployeeKeeps
<1>11. ASSUME NEW e \in Employees, DeleteEmployee(e) PROVE IInv'
  BY <1>11, DeleteEmployeeKeeps
<1> QED
  BY <1>1, <1>2, <1>3, <1>4, <1>5, <1>6, <1>7, <1>8, <1>9, <1>10, <1>11 DEF Next

LEMMA Invariance == Spec => []IInv
  BY InitIInv, NextIInv, PTL DEF Spec

-----------------------------------------------------------------------------
(* The tables and the sessions stay within their types                     *)
(* (hrm-server/migrations/005_project_task_management.sql).                *)
THEOREM TypeCorrect == Spec => []TypeOK
<1>1. IInv => TypeOK
  BY DEF IInv
<1> QED
  BY <1>1, Invariance, PTL

(* Every change of a task is in its audit trail and starts from the state  *)
(* the one before it left: overlapping calls lose no write (services.js,   *)
(* assignTask, updateTask and updateTaskStatus).                           *)
THEOREM HistoryStaysConnected == Spec => []HistoryConnects
<1>1. IInv => HistoryConnects
  BY DEF IInv
<1> QED
  BY <1>1, Invariance, PTL

LEMMA StepMovesForward ==
  ASSUME IInv, [Next]_vars, NEW t \in Tasks, task[t] # Absent
  PROVE  /\ task'[t] # Absent
         /\ task'[t].status # task[t].status =>
              task'[t].status \in Transitions[task[t].status]
<1> DEFINE Goal == /\ task'[t] # Absent
                   /\ task'[t].status # task[t].status =>
                        task'[t].status \in Transitions[task[t].status]
<1>1. CASE task'[t] = task[t]
  BY <1>1
<1>2. ASSUME NEW m \in Managers, NEW u \in Tasks, CreateTask(m, u) PROVE task'[t] = task[t]
  <2>1. PICK new : Insert(u, new)
    BY <1>2 DEF CreateTask, File
  <2> QED
    BY <1>2, <2>1 DEF CreateTask, File, Insert, IInv, TypeOK
<1>3. ASSUME NEW s \in Sessions, Write(s) PROVE Goal
  <2>1. step[s] = "write" /\ call[s] \in Call /\ existing[s] = task[call[s].task]
    BY <1>3 DEF Write, IInv, InCall, HoldersRead, Holds
  <2>2. task' = task \/ task' = [task EXCEPT ![call[s].task] = Written(s)]
    BY <1>3 DEF Write
  <2>3. CASE call[s].task = t /\ task' = [task EXCEPT ![t] = Written(s)]
    <3>1. task'[t] = Written(s)
      BY <2>3 DEF IInv, TypeOK
    <3>2. existing[s] = task[t] /\ task[t] \in Task
      BY <2>1, <2>3 DEF IInv, TypeOK
    <3>3. CASE call[s].op = "status"
      <4>1. Written(s) = [existing[s] EXCEPT !.status = call[s].status]
        BY <3>3 DEF Written
      <4>2. Written(s).status = call[s].status
        BY <3>2, <4>1 DEF Task
      <4>3. call[s].status \in Transitions[task[t].status]
        BY <2>1, <3>2, <3>3 DEF IInv, MovesAllowed, Holds
      <4>4. call[s].status \in Statuses
        BY <2>1, <3>3 DEF IInv, InCall
      <4>5. Written(s) \in Task
        BY <3>2, <4>1, <4>4 DEF Task
      <4> QED
        BY <3>1, <4>2, <4>3, <4>5, TaskAssumption
    <3>4. CASE call[s].op = "update"
      <4>1. Written(s) = Updated(s)
        BY <3>4 DEF Written
      <4>2. Updated(s).status = task[t].status
        BY <3>2 DEF Updated, Edited, Task
      <4>3. Updated(s) \in Task
        BY <2>1, <3>2 DEF Updated, Edited, OrElse, Task, Call
      <4> QED
        BY <3>1, <4>1, <4>2, <4>3, TaskAssumption
    <3>5. CASE call[s].op = "assign"
      BY <2>3, <3>1, <3>5 DEF Written
    <3> QED
      BY <2>1, <3>3, <3>4, <3>5 DEF Call
  <2> QED
    BY <2>1, <2>2, <2>3 DEF IInv, TypeOK, Call
<1>4. ASSUME NEW s \in Sessions, Lock(s) PROVE task' = task
  BY <1>4 DEF Lock, tables
<1>5. ASSUME NEW s \in Sessions, Select(s) \/ CheckEmployee(s) \/ Abort(s) PROVE task' = task
  BY <1>5 DEF Select, CheckEmployee, Abort, tables
<1>6. ASSUME NEW s \in Sessions, NEW a \in Employees, NEW u \in Tasks,
             AssignTask(s, a, u) \/ UpdateTask(s, a, u) \/ UpdateTaskStatus(s, a, u)
      PROVE  task' = task
  BY <1>6 DEF AssignTask, UpdateTask, UpdateTaskStatus, Begin, tables
<1>7. ASSUME NEW e \in Employees, UpdateEmployee(e) \/ DeleteEmployee(e) PROVE task' = task
  BY <1>7 DEF UpdateEmployee, DeleteEmployee, Dismiss, tables
<1>8. ASSUME NEW m \in Managers, NEW p \in Projects, CreateProject(m, p) PROVE task' = task
  BY <1>8 DEF CreateProject, OpenProject
<1>9. CASE UNCHANGED vars
  BY <1>9 DEF vars, tables
<1> QED
  BY <1>1, <1>2, <1>3, <1>4, <1>5, <1>6, <1>7, <1>8, <1>9 DEF Next

(* A task's status changes along allowedStatusTransitions only, so a task  *)
(* that is done or cancelled is never reopened.                            *)
THEOREM TerminalStatesStay == Spec => StatusMovesForward
<1>1. IInv /\ [Next]_vars =>
        [\A t \in Tasks :
           task[t] # Absent =>
             /\ task'[t] # Absent
             /\ task'[t].status # task[t].status =>
                  task'[t].status \in Transitions[task[t].status]]_vars
  BY StepMovesForward
<1> QED
  BY <1>1, Invariance, PTL DEF Spec, StatusMovesForward

-----------------------------------------------------------------------------
(* Who a task is assigned to: its last entry names the assignee, who is a  *)
(* member of its project; a task without one never had one, or lost it     *)
(* with the employee.                                                      *)

LastAssignee(t) == audit[t][Len(audit[t])].assignee

Recorded(t) ==
  IF assignment[t] = Absent
  THEN Len(audit[t]) > 0 => LastAssignee(t) \notin present
  ELSE /\ Len(audit[t]) > 0 /\ LastAssignee(t) = assignment[t].employee
       /\ <<task[t].project, assignment[t].employee>> \in members

AInv == IInv /\ \A t \in Tasks : Recorded(t)

LEMMA InitAInv == Init => AInv
<1> SUFFICES ASSUME Init PROVE AInv
  OBVIOUS
<1>1. IInv
  BY InitIInv
<1>2. \A t \in Tasks : assignment[t] = Absent /\ audit[t] = <<>>
  BY DEF Init, LedgerInit
<1> QED
  BY <1>1, <1>2 DEF AInv, Recorded

(* Nothing an entry is about changes. *)
LEMMA RecordKept ==
  ASSUME AInv, UNCHANGED <<task, audit, assignment, present>>, members \subseteq members'
  PROVE  \A t \in Tasks : Recorded(t)'
BY DEF AInv, Recorded, LastAssignee

LEMMA CreateTaskRecords ==
  ASSUME AInv, NEW m \in Managers, NEW t \in Tasks, CreateTask(m, t)
  PROVE  \A u \in Tasks : Recorded(u)'
<1>1. PICK p \in Projects, title \in Titles, priority \in Priorities :
        Insert(t, NewTask(m, p, title, priority))
  BY DEF CreateTask, File
<1> DEFINE new == NewTask(m, p, title, priority)
           entry == CreatedEntry(new)
<1>2. entry.assignee = Absent
  BY DEF CreatedEntry
<1>3. task' = [task EXCEPT ![t] = new] /\ audit' = [audit EXCEPT ![t] = <<entry>>]
  BY <1>1 DEF Insert
<1>4. task[t] = Absent /\ UNCHANGED <<assignment, members, present>>
  BY DEF CreateTask, File, employeeRows
<1> HIDE DEF new, entry
<1>5. Len(<<entry>>) = 1 /\ <<entry>>[1] = entry
  OBVIOUS
<1>6. assignment[t] = Absent
  <2> DEFINE q == audit[t]
             n == Len(q)
  <2>1. q \in Seq(Entry) /\ (n = 0 \/ Absent = q[n].after)
    BY <1>4 DEF AInv, IInv, TypeOK, HistoryConnects
  <2>2. assignment[t] # Absent => n > 0
    BY DEF AInv, Recorded
  <2> HIDE DEF q
  <2>3. n \in Nat /\ (n > 0 => q[n] \in Entry)
    BY <2>1
  <2>4. n > 0 => q[n].after # Absent
    BY <2>3, TaskAssumption DEF Entry
  <2> QED
    BY <2>1, <2>2, <2>3, <2>4
<1>7. Recorded(t)'
  <2>1. audit'[t] = <<entry>> /\ assignment'[t] = Absent
    BY <1>3, <1>4, <1>6 DEF AInv, IInv, TypeOK
  <2>2. Absent \notin present'
    BY <1>4, AbsentAssumption DEF AInv, IInv, TypeOK
  <2> QED
    BY <1>2, <1>5, <2>1, <2>2 DEF Recorded, LastAssignee
<1>8. ASSUME NEW u \in Tasks \ {t} PROVE Recorded(u)'
  <2>1. audit'[u] = audit[u] /\ task'[u] = task[u]
    BY <1>3 DEF AInv, IInv, TypeOK
  <2> QED
    BY <1>4, <2>1 DEF AInv, Recorded, LastAssignee
<1> QED
  BY <1>7, <1>8

(* The entry that a transaction appends names the assignee it leaves. *)
LEMMA WriteRecords ==
  ASSUME AInv, NEW s \in Sessions, Write(s)
  PROVE  \A u \in Tasks : Recorded(u)'
<1> DEFINE t == call[s].task
           landed == {call[s].actor, call[s].employee} \ {Absent} \subseteq present
<1>1. step[s] = "write" /\ present' = present
  BY DEF Write, employeeRows
<1>2. CASE ~landed
  <2>1. UNCHANGED <<task, audit, assignment, members>>
    BY <1>2 DEF Write
  <2> QED
    BY <1>1, <2>1, RecordKept
<1>3. CASE landed
  <2>1. /\ task' = [task EXCEPT ![t] = Written(s)]
        /\ assignment' = [assignment EXCEPT ![t] = AssignmentAfter(s)]
        /\ members' = MembersAfter(s)
        /\ audit' = [audit EXCEPT ![t] = Append(@, EntryOf(s))]
    BY <1>3 DEF Write
  <2>2. call[s] \in Call /\ t \in Tasks /\ task[t] # Absent /\ existing[s] = task[t]
        /\ (call[s].op = "assign" => call[s].employee \in Employees)
    BY <1>1 DEF AInv, IInv, InCall, Call, HoldersRead, Holds
  <2>3. task[t] \in Task /\ call[s].actor \in Employees
    BY <2>2 DEF AInv, IInv, TypeOK, Call
  <2>4. Written(s).project = task[t].project
    BY <2>2, <2>3 DEF Written, Updated, Edited, Task
  <2>5. EntryOf(s).assignee =
          IF AssignmentAfter(s) = Absent THEN Absent ELSE AssignmentAfter(s).employee
    BY DEF EntryOf
  <2>6. members \subseteq MembersAfter(s)
    BY DEF MembersAfter
  <2>7. AssignmentAfter(s) # Absent =>
          <<task[t].project, AssignmentAfter(s).employee>> \in MembersAfter(s)
    <3>1. CASE call[s].op = "assign"
      BY <2>2, <3>1 DEF AssignmentAfter, MembersAfter
    <3>2. CASE call[s].op # "assign"
      BY <2>2, <3>2 DEF AssignmentAfter, MembersAfter, AInv, Recorded
    <3> QED
      BY <3>1, <3>2
  <2> DEFINE q == audit[t]
             entry == EntryOf(s)
             after == AssignmentAfter(s)
             w == Written(s)
  <2>8. q \in Seq(Entry)
    BY <2>2 DEF AInv, IInv, TypeOK
  <2>9. audit'[t] = Append(q, entry) /\ assignment'[t] = after /\ task'[t] = w
    BY <2>1, <2>2 DEF AInv, IInv, TypeOK
  <2> HIDE DEF q, entry
  <2>10. Len(Append(q, entry)) > 0 /\ Append(q, entry)[Len(Append(q, entry))] = entry
    BY <2>8
  <2>11. Absent \notin present
    BY AbsentAssumption DEF AInv, IInv, TypeOK
  <2>12. entry.assignee = IF after = Absent THEN Absent ELSE after.employee
    BY <2>5 DEF entry
  <2>13. after # Absent => <<w.project, after.employee>> \in members'
    BY <2>1, <2>4, <2>7
  <2> HIDE DEF after, w
  <2>14. ASSUME NEW u \in Tasks, u = t PROVE Recorded(u)'
    BY <1>1, <2>9, <2>10, <2>11, <2>12, <2>13, <2>14 DEF Recorded, LastAssignee
  <2>15. ASSUME NEW u \in Tasks \ {t} PROVE Recorded(u)'
    <3>1. audit'[u] = audit[u] /\ task'[u] = task[u] /\ assignment'[u] = assignment[u]
      BY <2>1 DEF AInv, IInv, TypeOK
    <3> QED
      BY <1>1, <2>1, <2>6, <3>1 DEF AInv, Recorded, LastAssignee
  <2> QED
    BY <2>14, <2>15
<1> QED
  BY <1>2, <1>3

(* Its cascades leave no entry, and no row that names the employee. *)
LEMMA DeleteEmployeeRecords ==
  ASSUME AInv, NEW e \in Employees, DeleteEmployee(e)
  PROVE  \A u \in Tasks : Recorded(u)'
<1>1. /\ UNCHANGED <<task, audit>> /\ present' = present \ {e}
      /\ members' = {m \in members : m[2] # e}
      /\ assignment' = [t \in Tasks |->
             IF assignment[t] # Absent /\ assignment[t].employee = e
             THEN Absent ELSE assignment[t]]
  BY DEF DeleteEmployee, Dismiss
<1> SUFFICES ASSUME NEW u \in Tasks PROVE Recorded(u)'
  OBVIOUS
<1>2. CASE assignment[u] # Absent /\ assignment[u].employee = e
  BY <1>1, <1>2 DEF AInv, Recorded, LastAssignee
<1>3. CASE assignment[u] = Absent
  BY <1>1, <1>3 DEF AInv, Recorded, LastAssignee
<1>4. CASE assignment[u] # Absent /\ assignment[u].employee # e
  <2>1. assignment'[u] = assignment[u]
    BY <1>1, <1>4
  <2>2. <<task[u].project, assignment[u].employee>> \in members'
    BY <1>1, <1>4 DEF AInv, Recorded
  <2> QED
    BY <1>1, <1>4, <2>1, <2>2 DEF AInv, Recorded, LastAssignee
<1> QED
  BY <1>2, <1>3, <1>4

LEMMA NextAInv == AInv /\ [Next]_vars => AInv'
<1> SUFFICES ASSUME AInv, [Next]_vars PROVE \A t \in Tasks : Recorded(t)'
  BY NextIInv DEF AInv
<1>1. CASE UNCHANGED vars
  BY <1>1, RecordKept DEF vars, tables, employeeRows
<1>2. ASSUME NEW m \in Managers, NEW p \in Projects, CreateProject(m, p)
      PROVE  \A t \in Tasks : Recorded(t)'
  BY <1>2, RecordKept DEF CreateProject, OpenProject, employeeRows
<1>3. ASSUME NEW m \in Managers, NEW t \in Tasks, CreateTask(m, t)
      PROVE  \A u \in Tasks : Recorded(u)'
  BY <1>3, CreateTaskRecords
<1>4. ASSUME NEW s \in Sessions, NEW a \in Employees, NEW t \in Tasks,
             AssignTask(s, a, t) \/ UpdateTask(s, a, t) \/ UpdateTaskStatus(s, a, t)
      PROVE  \A u \in Tasks : Recorded(u)'
  BY <1>4, RecordKept
     DEF AssignTask, UpdateTask, UpdateTaskStatus, Begin, tables, employeeRows
<1>5. ASSUME NEW s \in Sessions, Select(s) \/ Lock(s) \/ CheckEmployee(s) \/ Abort(s)
      PROVE  \A u \in Tasks : Recorded(u)'
  BY <1>5, RecordKept DEF Select, Lock, CheckEmployee, Abort, tables, employeeRows
<1>6. ASSUME NEW s \in Sessions, Write(s) PROVE \A u \in Tasks : Recorded(u)'
  BY <1>6, WriteRecords
<1>7. ASSUME NEW e \in Employees, UpdateEmployee(e) PROVE \A u \in Tasks : Recorded(u)'
  BY <1>7, RecordKept DEF UpdateEmployee, tables
<1>8. ASSUME NEW e \in Employees, DeleteEmployee(e) PROVE \A u \in Tasks : Recorded(u)'
  BY <1>8, DeleteEmployeeRecords
<1> QED
  BY <1>1, <1>2, <1>3, <1>4, <1>5, <1>6, <1>7, <1>8 DEF Next

(* Reassignments and deletions of employees overlap freely, and still a    *)
(* task belongs to whom its last audit entry names, a member of its        *)
(* project (services.js, assignTask; the cascades of migration 005).       *)
THEOREM AssigneesStayMembers == Spec => []AssigneesAreMembers
<1>1. AInv => AssigneesAreMembers
  BY DEF AInv, Recorded, LastAssignee, AssigneesAreMembers
<1> QED
  BY <1>1, InitAInv, NextAInv, PTL DEF Spec

-----------------------------------------------------------------------------
(* The refinement: a commit is a step of the ledger, every other statement *)
(* of a transaction a stutter.  Assignments and edits are the managers'.   *)

Entitled ==
  \A s \in Sessions :
    step[s] # "idle" /\ call[s].op \in {"assign", "update"} => call[s].actor \in Managers

LEMMA EntitledInvariant == Spec => []Entitled
<1>1. Init => Entitled
  BY DEF Init, Entitled
<1>2. TypeOK /\ Entitled /\ [Next]_vars => Entitled'
  <2> SUFFICES ASSUME TypeOK, Entitled, [Next]_vars PROVE Entitled'
    OBVIOUS
  <2>1. ASSUME UNCHANGED <<step, call>> PROVE Entitled'
    BY <2>1 DEF Entitled
  <2>2. ASSUME NEW s \in Sessions, NEW c, Begin(s, c) PROVE Entitled'
    BY <2>2 DEF Begin, Entitled, TypeOK
  <2>3. ASSUME NEW s \in Sessions, NEW a \in Employees, NEW t \in Tasks,
               AssignTask(s, a, t) \/ UpdateTask(s, a, t) \/ UpdateTaskStatus(s, a, t)
        PROVE  \E c : Begin(s, c)
    BY <2>3 DEF AssignTask, UpdateTask, UpdateTaskStatus
  <2>4. ASSUME NEW s \in Sessions, Return(s) PROVE Entitled'
    BY <2>4 DEF Return, Entitled, TypeOK
  <2>5. ASSUME NEW s \in Sessions, step[s] # "idle", NEW next,
               step' = [step EXCEPT ![s] = next], UNCHANGED call
        PROVE  Entitled'
    BY <2>5 DEF Entitled, TypeOK
  <2>6. ASSUME NEW s \in Sessions, Select(s) \/ Lock(s) \/ CheckEmployee(s)
        PROVE  Entitled'
    BY <2>4, <2>5, <2>6 DEF Select, Lock, CheckEmployee
  <2> QED
    BY <2>1, <2>2, <2>3, <2>4, <2>6 DEF Next, Write, Abort, UpdateEmployee, DeleteEmployee,
       CreateProject, CreateTask, session, vars
<1> QED
  BY <1>1, <1>2, TypeCorrect, PTL DEF Spec

(* The commit of a call applies it to the rows as they are: the row it     *)
(* read under the lock is still the stored one.                            *)
LEMMA WriteRefines ==
  ASSUME IInv, Entitled, NEW s \in Sessions, Write(s)
  PROVE  [LedgerNext]_ledgerVars
<1> DEFINE c == call[s]
           t == c.task
<1>1. /\ c \in Call /\ t \in Tasks /\ c.actor \in Employees /\ task[t] # Absent
      /\ c.op = "status" => c.status \in Statuses
      /\ c.op = "assign" => c.employee \in Employees
      /\ c.op \in {"assign", "update"} => c.actor \in Managers
  BY DEF IInv, InCall, Entitled, Write, Call
<1>2. existing[s] = task[t] /\ task[t] \in Task
  BY <1>1 DEF IInv, HoldersRead, Holds, Write, TypeOK
<1>3. c.op = "status" => c.status \in Transitions[task[t].status]
  BY <1>2 DEF IInv, MovesAllowed, Holds, Write
<1>4. UNCHANGED <<creator, present>>
  BY DEF Write, employeeRows
<1>5. CASE ~({c.actor, c.employee} \ {Absent} \subseteq present)
  BY <1>4, <1>5 DEF Write, ledgerVars, tables
<1>6. CASE {c.actor, c.employee} \ {Absent} \subseteq present
  <2>1. /\ task' = [task EXCEPT ![t] = Written(s)]
        /\ assignment' = [assignment EXCEPT ![t] = AssignmentAfter(s)]
        /\ members' = MembersAfter(s)
        /\ audit' = [audit EXCEPT ![t] = Append(@, EntryOf(s))]
    BY <1>6 DEF Write
  <2>2. c.actor \in present
    BY <1>1, <1>6, AbsentAssumption
  <2>3. CASE c.op = "assign"
    <3>1. c.employee \in present
      BY <1>1, <1>6, <2>3, AbsentAssumption
    <3>2. AssignmentAfter(s) = [employee |-> c.employee, by |-> c.actor]
      BY <2>3 DEF AssignmentAfter
    <3>3. AssignmentAfter(s) # Absent /\ AssignmentAfter(s).employee = c.employee
      BY <1>1, <2>3, <3>2, TaskAssumption DEF Assignment
    <3>4. Written(s) = task[t] /\ task' = task
      BY <2>1, <2>3 DEF Written, IInv, TypeOK
    <3>5. EntryOf(s) = [action |-> "assigned", before |-> task[t], after |-> task[t],
                        assignee |-> c.employee]
      BY <1>2, <2>3, <3>3, <3>4 DEF EntryOf
    <3>6. Assign(c.actor, t, c.employee)
      BY <1>1, <1>2, <1>4, <2>1, <2>2, <2>3, <3>1, <3>2, <3>4, <3>5
         DEF Assign, Log, MembersAfter
    <3> QED
      BY <1>1, <2>2, <2>3, <3>6 DEF LedgerNext
  <2>4. CASE c.op \in {"update", "status"}
    <3>1. AssignmentAfter(s) = assignment[t] /\ assignment' = assignment
          /\ members' = members
      BY <2>1, <2>4 DEF AssignmentAfter, MembersAfter, IInv, TypeOK
    <3>2. EntryOf(s).assignee = Assignee(t)
      BY <3>1 DEF EntryOf, Assignee
    <3> DEFINE action == IF c.op = "update" THEN "updated" ELSE "status_updated"
    <3>3. EntryOf(s) = [action |-> action, before |-> task[t], after |-> Written(s),
                        assignee |-> Assignee(t)]
      BY <1>2, <2>4, <3>2 DEF EntryOf
    <3>4. Change(t, action, Written(s))
      BY <1>4, <2>1, <3>1, <3>3 DEF Change, Log
    <3>5. CASE c.op = "update"
      <4>1. Written(s) = Edited(task[t], c.title, c.priority)
        BY <1>2, <3>5 DEF Written, Updated
      <4>2. Edit(c.actor, t, c.title, c.priority)
        BY <1>1, <2>2, <3>4, <3>5, <4>1 DEF Edit
      <4>3. c.title \in Titles \cup {Absent} /\ c.priority \in Priorities \cup {Absent}
        BY <1>1 DEF Call
      <4> QED
        BY <1>1, <2>2, <4>2, <4>3 DEF LedgerNext
    <3>6. CASE c.op = "status"
      <4>1. Written(s) = [task[t] EXCEPT !.status = c.status]
        BY <1>2, <3>6 DEF Written
      <4>2. Move(c.actor, t, c.status)
        BY <1>1, <1>3, <2>2, <3>4, <3>6, <4>1 DEF Move
      <4> QED
        BY <1>1, <2>2, <3>6, <4>2 DEF LedgerNext
    <3> QED
      BY <2>4, <3>5, <3>6
  <2> QED
    BY <1>1, <2>3, <2>4 DEF Call
<1> QED
  BY <1>5, <1>6

(* services.js 90-118 and 439-450: overlapping calls on tasks, projects    *)
(* and employees have the effect of one call after the other, each applied *)
(* whole to the rows as its predecessors left them.                        *)
THEOREM TasksImplementLedger == Spec => ImplementsTaskLedger
<1>1. Init => LedgerInit
  BY DEF Init
<1>2. IInv /\ Entitled /\ [Next]_vars => [LedgerNext]_ledgerVars
  <2> SUFFICES ASSUME IInv, Entitled, [Next]_vars PROVE [LedgerNext]_ledgerVars
    OBVIOUS
  <2>1. active \subseteq present
    BY DEF IInv, TypeOK
  <2>2. ASSUME NEW m \in Managers, NEW p \in Projects, CreateProject(m, p)
        PROVE  LedgerNext
    BY <2>1, <2>2 DEF CreateProject, LedgerNext
  <2>3. ASSUME NEW m \in Managers, NEW t \in Tasks, CreateTask(m, t)
        PROVE  LedgerNext
    BY <2>1, <2>3 DEF CreateTask, LedgerNext
  <2>4. ASSUME NEW s \in Sessions, NEW a \in Employees, NEW t \in Tasks,
               AssignTask(s, a, t) \/ UpdateTask(s, a, t) \/ UpdateTaskStatus(s, a, t)
        PROVE  UNCHANGED ledgerVars
    BY <2>4 DEF AssignTask, UpdateTask, UpdateTaskStatus, Begin, employeeRows, ledgerVars
  <2>5. ASSUME NEW s \in Sessions,
               Select(s) \/ Lock(s) \/ CheckEmployee(s) \/ Abort(s)
        PROVE  UNCHANGED ledgerVars
    BY <2>5 DEF Select, Lock, CheckEmployee, Abort, employeeRows, ledgerVars
  <2>6. ASSUME NEW s \in Sessions, Write(s) PROVE [LedgerNext]_ledgerVars
    BY <2>6, WriteRefines
  <2>7. ASSUME NEW e \in Employees, UpdateEmployee(e) PROVE UNCHANGED ledgerVars
    BY <2>7 DEF UpdateEmployee, ledgerVars
  <2>8. ASSUME NEW e \in Employees, DeleteEmployee(e) PROVE LedgerNext
    BY <2>8 DEF DeleteEmployee, LedgerNext
  <2>9. CASE UNCHANGED vars
    BY <2>9 DEF vars, employeeRows, ledgerVars
  <2> QED
    BY <2>2, <2>3, <2>4, <2>5, <2>6, <2>7, <2>8, <2>9 DEF Next
<1> QED
  BY <1>1, <1>2, Invariance, EntitledInvariant, PTL DEF Spec, ImplementsTaskLedger, LedgerSpec
=============================================================================
