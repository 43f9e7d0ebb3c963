------------------------------ MODULE StaffReads ------------------------------
(***************************************************************************)
(* What hrm-server shows of its staff: the fixed routes for attendance,    *)
(* leave requests and employees, and the dynamic query engine, which has   *)
(* scope rules of its own for the same tables.  A call reads with the      *)
(* department and permissions of the context it resolved, while employees  *)
(* move between departments.  A row is represented by the employee it is   *)
(* about; one company, because every statement is restricted to it.        *)
(***************************************************************************)
EXTENDS Null

CONSTANTS
    Staff,      \* employees
    Teams,      \* departments
    Readers     \* calls, each made once

ASSUME ReadsAssumption == None \notin Staff \cup Teams

VARIABLES
    member,     \* employees.department_id
    reader,     \* a call's execution context and progress
    answer,     \* what a call returned
    met         \* history: who was in the actor's department during the call
readsVars == <<member, reader, answer, met>>

Rights == {"attendance.read.self", "attendance.read.team", "leave.read.self",
           "leave.approve.team", "employee.profile.read.self",
           "employee.profile.read.team", "employee.profile.read.any",
           "organization.manage"}
Tables == {"attendance", "leave", "employees"}
Unread == [step |-> "unsent", actor |-> None, team |-> None, rights |-> {}, target |-> None]

ReadsInit ==
    /\ member \in [Staff -> Teams \cup {None}]
    /\ reader = [r \in Readers |-> Unread]
    /\ answer = [r \in Readers |-> None]
    /\ met = [r \in Readers |-> {}]

----------------------------------------------------------------------------
InTeam(d) == IF d = None THEN {} ELSE {e \in Staff : member[e] = d}
Has(r, right) == right \in reader[r].rights

Resolves(r, e, rights) ==
    /\ reader[r].step = "unsent"
    /\ reader' = [reader EXCEPT ![r] = [Unread EXCEPT
           !.step = "resolved", !.actor = e, !.team = member[e], !.rights = rights]]
    /\ met' = [met EXCEPT ![r] = InTeam(member[e])]
    /\ UNCHANGED <<member, answer>>

\* query: the dynamic query that is answered, None on a fixed route
Returns(r, table, rows, query) ==
    /\ answer' = [answer EXCEPT ![r] = [table |-> table, rows |-> rows, query |-> query]]
    /\ reader' = [reader EXCEPT ![r].step = "done"]
    /\ UNCHANGED <<member, met>>

\* Forbidden, not found, not valid, or no answer of the database in time
Refused(r) ==
    /\ reader[r].step \in {"resolved", "records"}
    /\ reader' = [reader EXCEPT ![r].step = "done"]
    /\ UNCHANGED <<member, answer, met>>

(* Fixed routes *)

MyAttendance(r) ==
    /\ reader[r].step = "resolved"
    /\ Has(r, "attendance.read.self")
    /\ Returns(r, "attendance", {reader[r].actor}, None)

TeamAttendance(r) ==
    /\ reader[r].step = "resolved"
    /\ Has(r, "attendance.read.team") /\ reader[r].team # None
    /\ Returns(r, "attendance", InTeam(reader[r].team), None)

\* getLearningEmployeeAttendance: the employee's department first, then the records
FindsEmployee(r, e) ==
    /\ reader[r].step = "resolved"
    /\ IF e = reader[r].actor THEN Has(r, "attendance.read.self")
       ELSE e \in InTeam(reader[r].team) /\ Has(r, "attendance.read.team")
    /\ reader' = [reader EXCEPT ![r] = [@ EXCEPT !.step = "records", !.target = e]]
    /\ UNCHANGED <<member, answer, met>>

EmployeeAttendance(r) ==
    /\ reader[r].step = "records"
    /\ Returns(r, "attendance", {reader[r].target}, None)

\* getMyLeaveRequests, getLearningEmployeeLeaveRequests
LeaveRequests(r) ==
    /\ reader[r].step = "resolved"
    /\ Has(r, "leave.read.self")
    /\ Returns(r, "leave", {reader[r].actor}, None)

\* Some of the colleagues have requests that are pending.
PendingTeamLeave(r) ==
    /\ reader[r].step = "resolved"
    /\ Has(r, "leave.approve.team") /\ reader[r].team # None
    /\ \E rows \in SUBSET (InTeam(reader[r].team) \ {reader[r].actor}) :
           Returns(r, "leave", rows, None)

Members(r, d) ==
    /\ reader[r].step = "resolved"
    /\ \/ Has(r, "employee.profile.read.any")
       \/ d = reader[r].team /\ Has(r, "employee.profile.read.team")
    /\ Returns(r, "employees", InTeam(d), None)

\* The right that the reader of a profile needs is that of the narrowest scope.
Profile(r, e) ==
    /\ reader[r].step = "resolved"
    /\ Has(r, IF e = reader[r].actor THEN "employee.profile.read.self"
              ELSE IF e \in InTeam(reader[r].team) THEN "employee.profile.read.team"
              ELSE "employee.profile.read.any")
    /\ Returns(r, "employees", {e}, None)

\* listLearningEmployees, listEmployees; listIdentityLinkEmployees
AllEmployees(r) ==
    /\ reader[r].step = "resolved"
    /\ Has(r, "employee.profile.read.any") \/ Has(r, "organization.manage")
    /\ Returns(r, "employees", Staff, None)

(* The dynamic query engine *)

\* Own attendance: asked for, or all there is to see
OwnOnly(r, own) ==
    /\ Has(r, "attendance.read.self")
    /\ own \/ ~Has(r, "attendance.read.team") \/ reader[r].team = None

\* Mutant: the department comes before the filter by one's own id.
AttendanceScopeByTeam(r, own) ==
    IF Has(r, "attendance.read.team") /\ reader[r].team # None
    THEN {InTeam(reader[r].team)}
    ELSE IF Has(r, "attendance.read.self") THEN {{reader[r].actor}} ELSE {}

\* scopeFor: the rows of attendance a query may select from; none if forbidden
AttendanceScope(r, own) ==
    IF OwnOnly(r, own) THEN {{reader[r].actor}}
    ELSE IF Has(r, "attendance.read.team") /\ reader[r].team # None
         THEN {InTeam(reader[r].team)} ELSE {}

QueryScope(r, table, own) ==
    CASE table = "attendance" -> AttendanceScope(r, own)
      [] table = "leave" -> IF Has(r, "leave.read.self") THEN {{reader[r].actor}} ELSE {}
      [] OTHER -> IF Has(r, "employee.profile.read.any") THEN {Staff} ELSE {}

SelfOnly(r, table, own) ==
    \/ table = "leave"
    \/ table = "attendance" /\ OwnOnly(r, own)

\* own: filtered by the actor's id, and by nothing that the actor's rows fail;
\* any other filter, and the limit, leave any of the rows.  total: an aggregate.
Query(r, table, own, total) ==
    /\ reader[r].step = "resolved"
    /\ total => SelfOnly(r, table, own)
    /\ \E scope \in QueryScope(r, table, own) :
       \E rows \in IF own THEN {scope \cap {reader[r].actor}} ELSE SUBSET scope :
           Returns(r, table, rows, [own |-> own, total |-> total])

(* updateEmployee moves an employee to another department, or to none. *)
Moves(e, d) ==
    /\ member' = [member EXCEPT ![e] = d]
    /\ met' = [r \in Readers |->
           IF d # None /\ d = reader[r].team /\ reader[r].step # "done"
           THEN met[r] \cup {e} ELSE met[r]]
    /\ UNCHANGED <<reader, answer>>

ReadsNext ==
    \/ \E r \in Readers :
           \/ \E e \in Staff, rights \in SUBSET Rights : Resolves(r, e, rights)
           \/ MyAttendance(r) \/ TeamAttendance(r) \/ LeaveRequests(r) \/ PendingTeamLeave(r)
           \/ \E e \in Staff : FindsEmployee(r, e)
           \/ EmployeeAttendance(r) \/ AllEmployees(r) \/ Refused(r)
           \/ \E e \in Staff : Profile(r, e)
           \/ \E d \in Teams : Members(r, d)
           \/ \E table \in Tables, own, total \in BOOLEAN : Query(r, table, own, total)
    \/ \E e \in Staff, d \in Teams \cup {None} : Moves(e, d)

ReadsSpec == ReadsInit /\ [][ReadsNext]_readsVars

----------------------------------------------------------------------------
ReadsTypeOK ==
    /\ member \in [Staff -> Teams \cup {None}]
    /\ met \in [Readers -> SUBSET Staff]
    /\ \A r \in Readers :
           /\ reader[r].step \in {"unsent", "resolved", "records", "done"}
           /\ reader[r].step # "unsent" =>
                  reader[r].actor \in Staff /\ reader[r].team \in Teams \cup {None}
           /\ answer[r] # None => answer[r].rows \subseteq Staff

(* hrm-server/README.md 45-48 on attendance, and the permissions of every  *)
(* route: attendance is the actor's own or, with the team permission, of   *)
(* somebody who was in the department of the context during the call;      *)
(* leave is the actor's own or, for an approver, of such a colleague; the  *)
(* profile of anybody else in the company takes a permission for all.      *)
(* The query engine shows nobody else's leave, its aggregates cover one    *)
(* person, and a query for one's own attendance finds it wherever one has  *)
(* been moved meanwhile.                                                   *)
AnswersAreDue ==
    \A r \in Readers : answer[r] # None =>
        LET a == answer[r]  own == {reader[r].actor} IN
        /\ a.table = "attendance" => a.rows \subseteq
               (IF Has(r, "attendance.read.self") THEN own ELSE {}) \cup
               (IF Has(r, "attendance.read.team") THEN met[r] ELSE {})
        /\ a.table = "leave" => a.rows \subseteq
               (IF Has(r, "leave.read.self") THEN own ELSE {}) \cup
               (IF Has(r, "leave.approve.team") THEN met[r] \ own ELSE {})
        /\ a.table = "employees" =>
               \/ Has(r, "employee.profile.read.any") \/ Has(r, "organization.manage")
               \/ a.rows \subseteq met[r] \cup own
        /\ a.query # None =>
               /\ a.query.total \/ a.table = "leave" => a.rows \subseteq own
               /\ a.table = "attendance" /\ a.query.own
                      /\ Has(r, "attendance.read.self") => a.rows = own
=============================================================================
