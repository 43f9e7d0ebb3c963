-------------------------- MODULE EmployeeDirectory --------------------------
(***************************************************************************)
(* Companies, employees and identity links of hrm-server.  A call resolves *)
(* the identity of its user, reads the row it is about and writes it in a  *)
(* transaction that ends with an audit entry.  Only the writes lock: what  *)
(* was resolved and read may be out of date by then.  Writes, cascades,    *)
(* audit entry and COMMIT are one step, because every row they depend on   *)
(* is locked from its statement to the COMMIT.  createCompany has no step: *)
(* app.js 112 wants the id of the actor's own company, which exists.       *)
(***************************************************************************)
EXTENDS Null

CONSTANTS
    Companies, Employees, ChatUsers, Emails,
    Writers         \* overlapping calls

VARIABLES
    archived,   \* companies with archived_at; their names and codes are left out
    employees,  \* table employees, and who of them holds an admin role
    links,      \* table hrm_identity_links
    writer      \* a call's next step, its execution context, the employee it found
directory == <<archived, employees, links>>
directoryVars == <<directory, writer>>

Employee == [company : Companies, email : Emails, active : BOOLEAN, admin : BOOLEAN]
Link == [company : Companies, employee : Employees]

ASSUME DirectoryAssumption ==
    None \notin Employees \cup Employee \cup Link

Changes == {"create employee", "update employee", "delete employee",
            "link", "unlink", "update company", "archive company"}
NoWriter == [step |-> "idle", change |-> None, as |-> None, target |-> None]

At(e, k) == employees[e] # None /\ employees[e].company = k
Linked(e, k) == {u \in ChatUsers : links[u] = [company |-> k, employee |-> e]}
EmailTaken(e, k, m) == \E d \in Employees \ {e} : At(d, k) /\ employees[d].email = m

\* The seed: companies with active employees, some of them linked to users.
DirectoryInit ==
    /\ archived = {}
    /\ employees \in [Employees -> [company : Companies, email : Emails,
                                    active : {TRUE}, admin : BOOLEAN] \cup {None}]
    /\ \A e \in Employees : employees[e] # None =>
           ~EmailTaken(e, employees[e].company, employees[e].email)
    /\ links \in [ChatUsers -> Link \cup {None}]
    /\ \A u \in ChatUsers : links[u] # None =>
           /\ At(links[u].employee, links[u].company)
           /\ Linked(links[u].employee, links[u].company) = {u}
    /\ writer = [w \in Writers |-> NoWriter]

----------------------------------------------------------------------------
\* resolveExecutionContext and requirePermission('organization.manage')
Arrived(w, u, change) ==
    LET l == links[u] IN
    /\ writer[w].step = "idle"
    /\ l # None
    /\ employees[l.employee].active /\ employees[l.employee].admin
    /\ l.company \notin archived
    /\ writer' = [writer EXCEPT ![w] = [NoWriter EXCEPT
           !.step = IF change \in {"create employee", "unlink"} THEN "write" ELSE "read",
           !.change = change, !.as = l]]
    /\ UNCHANGED directory

\* getById, without a lock; linkIdentity reads before its transaction begins.
ReadsCompany(w) ==
    /\ writer[w].step = "read"
    /\ writer[w].change \in {"update company", "archive company"}
    /\ writer[w].as.company \notin archived
    /\ writer' = [writer EXCEPT ![w].step = "write"]
    /\ UNCHANGED directory

ReadsEmployee(w, e) ==
    /\ writer[w].step = "read"
    /\ writer[w].change \in {"update employee", "delete employee", "link"}
    /\ At(e, writer[w].as.company)
    /\ writer' = [writer EXCEPT ![w] = [@ EXCEPT !.step = "write", !.target = e]]
    /\ UNCHANGED directory

\* Not found, a violated constraint, a deadlock, a lost connection: ROLLBACK.
Fails(w) ==
    /\ writer[w].step # "idle"
    /\ writer' = [writer EXCEPT ![w] = NoWriter]
    /\ UNCHANGED directory

\* Mutant: the audit entry has no foreign key to its author.
AuthoredByAnyone(as) == TRUE

\* audit_logs (company_id, actor_employee_id): the author is still there once
\* the change is made.
Authored(as) ==
    employees'[as.employee] # None /\ employees'[as.employee].company = as.company

\* A call is in its transaction, and its transaction commits.
Writes(w, change) == writer[w].step = "write" /\ writer[w].change = change
Commits(w) == Authored(writer[w].as) /\ writer' = [writer EXCEPT ![w] = NoWriter]

CreatesEmployee(w, e, m) ==
    LET k == writer[w].as.company IN
    /\ Writes(w, "create employee")
    /\ employees[e] = None /\ ~EmailTaken(e, k, m)
    /\ \E active \in BOOLEAN :
           employees' = [employees EXCEPT ![e] =
               [company |-> k, email |-> m, active |-> active, admin |-> FALSE]]
    /\ UNCHANGED <<archived, links>>
    /\ Commits(w)

\* Every field is written, as given or as it was read before.
UpdatesEmployee(w) ==
    LET e == writer[w].target  k == writer[w].as.company IN
    /\ Writes(w, "update employee") /\ At(e, k)
    /\ \E m \in Emails, active \in BOOLEAN :
           /\ ~EmailTaken(e, k, m)
           /\ employees' = [employees EXCEPT ![e] = [@ EXCEPT !.email = m, !.active = active]]
    /\ UNCHANGED <<archived, links>>
    /\ Commits(w)

\* A second deletion finds no row, and is recorded all the same.
DeletesEmployee(w) ==
    LET e == writer[w].target  k == writer[w].as.company IN
    /\ Writes(w, "delete employee")
    /\ IF At(e, k)
       THEN /\ employees' = [employees EXCEPT ![e] = None]
            /\ links' = [u \in ChatUsers |-> IF u \in Linked(e, k) THEN None ELSE links[u]]
       ELSE UNCHANGED <<employees, links>>
    /\ UNCHANGED archived
    /\ Commits(w)

\* The upsert takes over whatever link the user has.
LinksIdentity(w, u) ==
    LET e == writer[w].target  k == writer[w].as.company IN
    /\ Writes(w, "link")
    /\ At(e, k) /\ Linked(e, k) \subseteq {u}
    /\ links' = [links EXCEPT ![u] = [company |-> k, employee |-> e]]
    /\ UNCHANGED <<archived, employees>>
    /\ Commits(w)

UnlinksIdentity(w, u) ==
    /\ Writes(w, "unlink")
    /\ links[u] # None /\ links[u].company = writer[w].as.company
    /\ links' = [links EXCEPT ![u] = None]
    /\ UNCHANGED <<archived, employees>>
    /\ Commits(w)

\* Its name and code; an archived company is not updated.
UpdatesCompany(w) ==
    /\ Writes(w, "update company") /\ writer[w].as.company \notin archived
    /\ UNCHANGED directory
    /\ Commits(w)

ArchivesCompany(w) ==
    /\ Writes(w, "archive company")
    /\ archived' = archived \cup {writer[w].as.company}
    /\ UNCHANGED <<employees, links>>
    /\ Commits(w)

DirectoryNext ==
    \E w \in Writers :
        \/ \E u \in ChatUsers, change \in Changes : Arrived(w, u, change)
        \/ ReadsCompany(w) \/ \E e \in Employees : ReadsEmployee(w, e)
        \/ \E e \in Employees, m \in Emails : CreatesEmployee(w, e, m)
        \/ UpdatesEmployee(w) \/ DeletesEmployee(w)
        \/ \E u \in ChatUsers : LinksIdentity(w, u) \/ UnlinksIdentity(w, u)
        \/ UpdatesCompany(w) \/ ArchivesCompany(w) \/ Fails(w)

DirectorySpec == DirectoryInit /\ [][DirectoryNext]_directoryVars

----------------------------------------------------------------------------
(* The types, the unique indexes, and that a link leads to an employee of  *)
(* its company: whom resolveActor finds, if active, is one person.         *)
DirectoryTypeOK ==
    /\ archived \subseteq Companies
    /\ employees \in [Employees -> Employee \cup {None}]
    /\ links \in [ChatUsers -> Link \cup {None}]
    /\ \A e \in Employees : employees[e] # None =>
           ~EmailTaken(e, employees[e].company, employees[e].email)
    /\ \A u \in ChatUsers : links[u] # None =>
           /\ At(links[u].employee, links[u].company)
           /\ Linked(links[u].employee, links[u].company) = {u}
    /\ \A w \in Writers :
           /\ writer[w].step \in {"idle", "read", "write"}
           /\ writer[w].step # "idle" => writer[w].as \in Link

(* hrm-server/README.md 40-41, writes recorded and audit history valid:    *)
(* whoever writes is an employee of the company once the write commits,    *)
(* however old the identity the call resolved, so two admins cannot delete *)
(* each other; one deleted meanwhile can only have created its own row     *)
(* anew, without its role.                                                 *)
WritesHaveAuthors ==
    [][\A w \in Writers :
          directory' # directory /\ writer'[w] # writer[w] =>
              LET as == writer[w].as IN
              /\ employees'[as.employee] # None
              /\ employees[as.employee] = None =>
                     ~employees'[as.employee].admin]_directoryVars
=============================================================================
