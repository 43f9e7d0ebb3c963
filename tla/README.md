# Verification of the MCP chat and HRM services

TLA+ models, TLC configurations and TLAPS proofs for the parts of the repository that
carry its own logic: the HRM service (`hrm-server/`) and the chat backend (`be/`).
Line numbers are those of the sources the models were written from; `PROJECT.json`
maps every definition to its lines.

## 1. The system

A browser talks to the chat backend `be/` (Node, Express, PostgreSQL). For every
message the backend runs an *agent*: a loop in which a language model answers with text
or asks for tools. Tools come from MCP servers (`HrmMCPServer`, `PlaneMCPServer`,
`DiscordMCPServer`), C# bridges to `hrm-server/`, to Plane and to Discord. They hold no
records of their own, but their HTTP transport may keep a session for each client.
`hrm-server/` (Node, PostgreSQL) keeps the company's employees, leave requests,
attendance and tasks.

```
 browser ──HTTP──> be/server.js ──> AgentService ──> ToolRegistry ──> McpClient ──> *MCPServer
                      │   │              │                                           │
                conversations │      Gemini API                      hrm-server / Plane / Discord
                 (PostgreSQL) └─> IntegrationService, PlaneCredentialService ──> Plane OAuth
```

| Component | State | Operations | Interacts through |
|---|---|---|---|
| leave workflow (`hrm-server/src/services.js` 193-237, `LeaveRepository`) | `leave_requests`, `leave_balances`, `leave_approvals`, `audit_logs` | request, approve, reject, cancel; delete an employee (439-450), whose leave goes along | PostgreSQL transactions and row locks; foreign keys with cascades |
| projects and tasks (`services.js` 90-118, `TaskRepository`) | `projects`, `project_members`, `tasks`, `task_assignments`, `audit_logs` | create project/task, assign, edit, move | the same; cascades from `employees` |
| employee directory (`services.js` 245-450) | `companies`, `employees`, `hrm_identity_links`, `audit_logs` | create, update, delete, archive, link, unlink | foreign keys; departments and status decide authority elsewhere |
| attendance, leave and employee lists, dynamic query engine (`services.js` 121-154, 240-266, 330-371, `dynamicQuery.js`) | none; they read attendance, leave and employees | own, team, one employee, pending leave of the team, all employees, a query | scope rules of their own over the same tables |
| conversation history (`be/src/server.js` 150-240, 780-880) | `conversations` | chat, create, patch, delete | whole-history read and upsert from every handler |
| agent (`agentService.js`) | the messages and the log of one run | generate, execute tools, complete a status change | the registry |
| tool registry (`toolRegistry.js`) | one map of tools, `planeEnabled`, `hrmEnabled`, for the whole process | refresh, definitions, execute | shared by all runs |
| Plane credentials (`planeCredentialService.js`, `integrationService.js`, `planeScope.js`, `planeOAuth.js`, `planeLinking.js`) | `integrations`, the refresh lock of each user | resolve, refresh, select/clear project, connect (OAuth, PAT), disconnect | read-merge-write of one row; Plane's token endpoint |
| MCP client (`mcpClient.js`) | session and pending initialisation per scope | initialize, list, call | MCP servers that may restart |
| mutation confirmations | `mutation_confirmations` | create preview, consume | PostgreSQL |
| accounts and login sessions (`applicationAuth.js`) | `users`, `sessions` | register, log in by password or Google, log out | unique indexes |
| OAuth states (`oauthState.js`, `server.js` 316-351, 485-599) | two maps of the process | create, consume | callbacks that browsers repeat; restarts |
| work management (`workManagement.js`) | none | resolve, update, verify a Plane task | several MCP calls in a row |

What makes these parts hard:

* **hrm-server**: READ COMMITTED transactions. A read is protected only by the locks it
  took; a `SELECT ... FOR UPDATE` reads its joined rows before it waits; foreign keys take
  locks nobody wrote down; deadlocks end a transaction; the context that carries the
  actor's department is resolved before the transaction begins.
* **be**: one thread, but every `await` is a point where another request runs. Handlers
  keep snapshots of rows across agent runs of many seconds, merge them and write them
  back; the tool registry belongs to the process and not to the run.
* **MCP servers**: sessions die with their server; concurrent calls share one
  initialisation, which runs under the abort signal of the call that began it.
* **Plane**: refresh tokens are spent by their first use, answers get lost, answers may
  omit fields.

Correctness, component by component: leave balances are exact and decisions are made
once, by somebody entitled to, and are final; a call on a task loses no other call's
write and closed tasks stay closed; a conversation never shows half a turn or loses an
answer to a request it does not overlap; a user's row holds that user's tokens and stays
usable; an agent run ends, stops for confirmations and stays within the user's selection;
a session with an MCP server is never another user's; a state or a confirmation is used
once and in time; an account keeps its identity; a change of a task's status that reports
success happened, on the task that was found; whoever changes the directory belongs to it;
and nobody is shown attendance or leave beyond their permission, whether by a fixed route
(one's own, the team's, the leave an approver is to decide) or by a query.

## 2. Modules

| Module | Models | Checked by | Proofs |
|---|---|---|---|
| `LeaveLedger` | what the leave workflow promises: every call one step | as `ImplementsLedger` | |
| `LeaveManagement` | the leave operations as interleaved transactions; implements `LeaveLedger` | `leave_core`, `leave_live` | `LeaveManagementProofs` |
| `TaskLedger` | what projects and tasks promise: every call one step | as `ImplementsTaskLedger` | |
| `TaskManagement` | project and task operations as interleaved transactions; implements `TaskLedger` | `task_calls`, `task_owner` | `TaskManagementProofs` |
| `ConversationStore` | the handlers that read and write an account's history | `conversation_turns`, `conversation_scope` | `ConversationStoreProofs` |
| `PlaneCredential` | the Plane row of each user, its requests, and the refresh lock | `plane_users`, `plane_default_project` | `PlaneCredentialProofs` |
| `AgentRun` | the agent's loop over the shared tool registry | `agent_turn`, `agent_selection`, `parts` | `AgentRunProofs` |
| `McpSession` | one `McpClient`, its sessions, the shared initialisation, a server that restarts | `mcp_session` | `McpSessionProofs` |
| `OneShotToken` | what a state or a confirmation promises: used at most once, in time | as `StatesAreOneShot`, `ConfirmedOnce` | `AccessProofs` |
| `OAuthStates` | states, callbacks, restarts; implements `OneShotToken` | `parts` | `AccessProofs` |
| `Confirmations` | previews, replies, deleted conversations; implements `OneShotToken` | `parts` | `AccessProofs` |
| `Accounts` | logins and registrations statement by statement | `parts` | `AccessProofs` |
| `WorkUpdate` | writes to Plane as chains of calls among other users | `parts` | `RecordProofs` |
| `EmployeeDirectory` | companies, employees, identity links and who changes them | `parts` | `RecordProofs` |
| `StaffReads` | what fixed routes and dynamic queries show of the staff | `parts` | `RecordProofs` |
| `MCParts` | the parts above that share no state, one at a time | `parts` | `RecordProofs` |

`Null` declares `None`, which stands for NULL and undefined in the modules of `MCParts`.
An `MC...` module gives each of them its symmetry set and, where needed, its constants.
Operators whose comment begins with "Mutant" are plausible mistakes in the definition
that follows them; nothing in a specification uses them.

### 2.1 Leave workflow

A *session* is one HTTP call and its pooled connection. `Arrive` resolves the context
(`department` of the actor) and begins; `Execute(s)` runs the session's next statement:

| `step` | code | effect |
|---|---|---|
| `request` | `pending` / `cancel` | locks the request row, rechecks that it is pending |
| `employee` | the join of `pending`, checks of `services.js` 206 | locks the requester, compares departments |
| `balance` | `balance ... FOR UPDATE` | locks the balance row, checks the days |
| `remove` | `DELETE FROM employees` (`deleteEmployee`) | locks the employee |
| `cascade` | `ON DELETE CASCADE` of migration 003 | locks the employee's balances, then requests, one row at a time |
| `record` | the writes | the locks they and their foreign keys need |
| `commit` | `COMMIT` | the writes become visible and all locks are released |

`Route` is the order in which each operation goes through them. `Lock` waits while
another session holds a conflicting mode (`Conflict` is PostgreSQL's table for `FOR
UPDATE`, `FOR NO KEY UPDATE` and `FOR KEY SHARE`). `DeadlockVictim` ends a member of a
cycle of waiting sessions, `Abort` any session at any time (connection loss, crash, failed
statement). Meanwhile `UpdateEmployee` moves and `CreateEmployee` adds employees; a status
can change between any two calls, so an actor need only have a row (`present`).
`ImplementsLedger` is the refinement: commits are the ledger's steps, everything else
stutters.

A deletion (`DeleteEmployee`) locks the employee first and meets the leave workflow in its
cascade, where it waits for requests that others have locked. A cancellation that has
updated its request then waits for the same employee in its audit entry (`services.js`
215), and one of the two is aborted. `CancellationCycles` says that no cancellation is in
any other deadlock. A deletion is refused for an employee who decided something (`ON
DELETE RESTRICT`), and takes the employee's requests, their approvals and balances along;
audit entries stay and lose their actor. The order of requests within a cascade is left
open.

The year of a start date is taken twice. `YearWritten` is the year in the text a caller
sends (`services.js` 198), whose balance is checked at submission; `YearReadBack` that of
the date as it is read from its column (`leaveYear`, line 44, and `repositories.js` 279),
whose balance an approval checks and charges. East of Greenwich they differ for a first
of January, so that a request is checked against one year and charged to the year before.
No property forbids it; balances stay exact all the same.

Two departments that are NULL compare equal in the code, and do in the model. A leave
type with `requires_balance = false` and no balance row (sick leave in the seed) can be
requested and never approved, because `approveLeave` looks for the row regardless of the
flag; the runs have one type with balances, the theorems hold for both kinds. Leave types
are constant, and so are the roles of an employee (a revocation counts from the next
call). The approver's department is the one the context was resolved with. If the approver
is moved meanwhile the decision stands, in the code, in the model and in the ledger.

### 2.2 Projects and tasks

The transactions of `assignTask`, `updateTask` and `updateTaskStatus` all begin with
`SELECT ... FOR UPDATE OF t`, which is two steps here: `Select` takes the snapshot that
the joined assignment and assignee come from (`seen`), `Lock` gets the row lock and the
newest version of the task row (`existing`), and decides (`Accepted`). `CheckEmployee` is
the separate read of the new assignee; `Write` the writes, their foreign keys and the
commit, in one step, so that a failure between two of them is the same as an `Abort` before
them; `Abort` as above. `CreateProject` and `CreateTask` wait for nothing and are one
step. `UpdateEmployee` and `DeleteEmployee` run against them: deletion cascades into
assignments and memberships first, then `ON DELETE RESTRICT` refuses employees who
created or assigned something.

`ImplementsTaskLedger` is the refinement: a commit is one `Edit`, `Move` or `Assign` of the
row as it is, with its audit entry, and everything else stutters. The ledger promises the
transitions of a status, who manages, and that rows and audit trail move together; it does
not promise that whoever moves a task owns it, because that is checked against an
assignment that another call may have replaced (`task_owner`).

One company; titles stand for descriptions and due dates too, which are edited the same
way; every employee has `task.update.self`; projects are never archived because no
operation does. `before` and `after` of an audit entry are the columns of the task row;
the assignee the code also puts in `before` comes from the snapshot and is left out.

### 2.3 Conversations

A call goes through `readHistory` (one snapshot of all rows), `persist` and `save` (two
`writeHistory`, each an upsert of *every* row of the snapshot, in any order) with the
agent's run in between, and fails at any of them. Conversation ids are chosen by the
client; a message carries the name of its call in place of `createdAt`. There is one
account. The primary key is the id alone, and the upsert (`be/src/repositories.js` 90-91)
writes over a row of that id whoever owns it: two accounts that use one id are outside the
model and all its properties.

### 2.4 Plane credentials

Every request is a chain of steps between `await`s: read the row, wait for the lock's
refresh or start one, list Plane's projects, read-merge-write. Token *n* stands for the
access token, refresh token and expiry of Plane's *n*-th grant. Plane is external: it
rotates a refresh token or leaves it, may omit `refresh_token` or `expires_in`, refuses
spent tokens, and its answers may be lost. The lock is a map entry in memory: `Restart`
drops it and fails the calls under way. A refresh is four steps (`request`, `merge`,
`store`, `reread`), so that its reread sees what others stored meanwhile.

### 2.5 Agent and registry

A run refreshes the registry (`Start` clears the map and sets the switches, `List` lists
one server), then alternates `Generate` (the model answers with text or with calls of the
tools it was offered) and `Tool`. What the model is offered is taken when the request is
sent (`Request`, `agentService.js` 103): right after the last server is listed, or in
`Start` itself for a run without servers, where `refresh` awaits nothing. `Execute` begins
the execution of a call, in the same step as what led to it: a raw tool is looked up in the
map at once, a work-management tool is let in by the switch and looks for the raw tools of
plane later (`Delegate`). Servers may fail to list, tools may fail, be gone, or ask for a
confirmation, which ends the run. A status change asked for and not made is completed
(`Complete`): the task and its statuses are looked up, unless the model's calls have already
found them, and the task is updated. `alone` remembers whether a run overlapped another.

An update reported as failed may have taken effect, if only its answer was lost. The model
may then ask for it again, or leave it to the completion, so that a change that did take
effect is made twice; `CompletionNeverRepeats` speaks of those reported as successful.

### 2.6 MCP sessions

`Call` is `listTools` or `callTool` up to its first `await`: it finds a session, joins the
initialisation under way, or begins one. An RPC then has two steps, `Headers`, which
stores the session the server names, and `Body`; `Timeout` is the abort signal or the
RPC's own timeout. `Settle` is the end of the shared promise: it deletes the map entry and
resumes, or fails, all `Sharers`. The server is external: `Handle` creates sessions and
knows which it still has, `Forget` loses one; it uses sessions or does not (`stateful`).
The client's map is only written: a session the server has forgotten stays, and every
later request of its scope presents it. `StoredSessionStays` states that; no property asks
for the session's replacement.

The server may answer `notifications/initialized` with an error. With a body, the
initialisation fails (`Refuse`). Without one it succeeds (`refused`), because `rpc` returns
at `mcpClient.js` 55 before it looks at the status at line 88.

### 2.7 One-shot tokens

`OneShotToken` has three steps for a token (issue, use, withdraw). In `OAuthStates` the
tokens are states: `StartFlow` creates one, `Receive` is the part of a callback that runs
without an `await` and consumes it, `Finish` the exchange of the code, `Restart` empties
both maps. In `Confirmations` they are rows: `Consume` is the conditional `UPDATE`, whose
`now()` is the time the statement began and not the time it got the row. Backend and
database share one clock. Nothing in `server.js` calls the consuming half yet.

### 2.8 Accounts

`login[l].step` is the next statement of a login: `findSub`, `update`, `findEmail`, `link`
of `findOrCreateGoogleUser`; `findAuth`, `setPassword` of `registerLocalUser`;
`authenticate`; `create`; then `sweep`, `open` of `createSession`. Each is a transaction
of its own; `Store` refuses a write that the unique indexes forbid. Google may give an
account another address (`MoveAddress`), but not one that a login is presenting at that
moment: the code trusts the address of the identity it was handed.

### 2.9 Work updates

`ListProjects` and `FindTask` are `resolveTask`, one candidate project after the other;
`ResolveState`, `Update`, `Verify` follow for an update, `Delete` for a deletion; `Create`
stands alone. `Lose` fails any call, with or without the effect it had. Meanwhile `Others`
delete, add and move items and change their status, change a project's workflow (but for
the statuses its items have), and grant and withdraw access to projects.

An item is found in one project (`found`), but later calls go to the project that Plane's
answer names (`project`, `workManagementModels.js` 94-103). If it names none, `call`
(`workManagement.js` 297-298) sends none and the server falls back to the default project
(`Target`). The statuses cannot be listed then (`ListsStates`), so a write that sets a
status never takes that way, while other updates and deletions do. `WritesFollowTheirTask`
says so: such a write can reach the item only if it is in the default project by then, and
leaves its status alone. The comment at lines 216-218 says that mismatches are rejected
instead of writing to the default project; that is so for a project the caller names, but
not for an answer that names none. That an answer which names a project names the one it
was read from is assumed of Plane.

`Meaning` is `resolveStateReference`: an id wins over names, a name over groups, and within
the first that matches anything there must be one status.

### 2.10 Directory

`Arrived` is the execution context and its permission, resolved before the transaction;
`ReadsCompany`, `ReadsEmployee` the read without a lock; the operations their writes with
cascades, audit entry and commit in one step, because every row they depend on is locked
from its statement to the commit. The foreign key of the audit entry (`Authored`) is what
stops an author who was deleted meanwhile. Admin roles come from the seed; names and
codes are left out; `createCompany` has no action because `app.js` 112 lets it meet only
the company that exists. An author deleted meanwhile can create its own row anew, without
its role, and `WritesHaveAuthors` allows for that. What writes answer (the employee
as updated, for instance) is not among the reads of the next section.

### 2.11 Reads

`Resolves` takes the context (department and permissions) of a call, which then goes to a
fixed route or to the dynamic query engine, while `Moves` (`updateEmployee`) changes
departments. The routes are one's own attendance and leave, the team's attendance, an
employee's attendance, the team's pending leave for whoever may approve it
(`PendingTeamLeave`), a profile, a department's members, and the list of all employees,
which `listIdentityLinkEmployees` shows to whoever manages the organization
(`AllEmployees`). Whether a colleague has leave pending is left open. `Query` has the
engine's scope, the filter by one's own id and the rule for aggregates; other filters
leave any rows. Every right may be held without any other, as roles combine.
`getLearningEmployeeAttendance` is two steps, since it checks the department and reads the
records separately. `met` remembers who was in the actor's department during the call,
which is as exact as an answer can be.

### 2.12 Composition

`MCParts` takes the modules that share no state, and lets the initial state choose which
runs: their product would multiply the states and show nothing new. `AgentRun` is one of
them, with two chats, so that a run is seen before, after and during another. What the
parts exchange is already in each: `WorkUpdate`'s calls go through `McpSession`, which to
it is a call that may fail or lose its answer; the state consumed in `OAuthStates` leads to
a connect in `PlaneCredential` or a login in `Accounts`.

## 3. Runs

| Run | Question | Size |
|---|---|---|
| `leave_core` | Do two overlapping transactions over two requests, deletions included, keep balances, decisions, audit and the ledger's promise, and where do cancellations deadlock? | 457 k states |
| `leave_live` | Does every leave call return, deadlocks included? | 54 k states |
| `task_calls` | Do two overlapping calls on a task, between employee changes, keep history and memberships, each with the effect of one step of the ledger? | 266 k states |
| `task_owner` (violation) | Is an employee who moves a task its owner at that moment? | |
| `conversation_turns` | Do three overlapping requests on two conversations keep whole turns, answers, deletions? | 341 k states |
| `conversation_scope` (violation) | Is the stored tool selection the one last chatted with? | |
| `plane_users` | Do all pairs of requests of two users keep credentials sound and separate, one refresh at a time, and the connection alive? | 520 k states |
| `plane_default_project` (violation) | Is only a stale default project cleared? | |
| `agent_turn` | Does one run stop at confirmations, never repeat a successful change, and end? | 42 k states |
| `agent_selection` (violation) | Does a run without servers reach no server? | |
| `mcp_session` | Do three calls of two users keep to their users' sessions, and return, over timeouts, refusals and restarts? | 146 k states |
| `parts` | Seven small systems: are states and confirmations one-shot, do accounts, directory and task writes stay consistent, do reads show what they may? | 1.27 M states |

### Bounds

* *Leave*: two sessions, two requests. Lock conflicts, lost updates and the cycles the
  code can form are between two transactions; the second request of one employee is what
  makes two approvals compete for one balance (three days, two requests of two). One
  department suffices next to NULL to move an employee away. The start
  date of `leave_core` is the one that has two years, so that what a submission checks is
  not what an approval charges; that of `leave_live` has one year, so that both wait for the
  same row. Everybody may approve and delete in `leave_core`; `leave_live` leaves out what no
  wait depends on: one approver and administrator, no departments.
* *Tasks*: one task (calls on different tasks share no row lock), two sessions, a manager
  and an employee. `MaxWrites` bounds the audit entries a task has when a call begins;
  with 2, a created task sees two overlapping writes, with 3 (`task_owner`) an assignment
  and then two overlapping ones.
* *Conversations*: three calls are a reader with a stale snapshot, the call it overwrites
  and a later observer. Two conversations are the one named and a bystander.
* *Plane*: two calls, each made once, for all pairs of operations: the one that
  refreshes and one that joins it, comes after the lock's release, or saves over it.
  `MaxGrants` bounds Plane's grants.
* *MCP*: three calls are the one that initialises, one that joins it and one that finds
  its session; two users share the default scope or, as here with "hrm", have their own.
  Two sessions: one for each user, or one whose initialisation timed out and its successor.
* *Tokens*: two states, two callbacks and a lifetime of one tick: repeated, crossed and
  late callbacks. One confirmation, two replies: both in time, one late, in each order.
* *Accounts*: three logins are a first login, another of the same address, and a
  registration between them; three addresses let an account move away from its own.
  Logins are symmetric: no definition tells their values apart.
* *Work*: one operation, one item and `Others`: what a second operation does to the item is
  what others may do. Two projects, of which one is the default; two statuses, and three
  references: one that matches by name over group, one by id over name, one ambiguous.
* *Directory*: two calls and two employees: each deletes, or links over, the other.
* *Reads*: one call, because calls change nothing; two employees; one department next to
  none, which stands for any other, since every scope is a department or everybody; and all
  256 sets of rights.
* *Agent*: `MaxIterations` and `MaxCalls` stand for the code's loop limit and for the
  length of a model answer. The limit is part of the code, so the bound adds no
  assumption to `RunsEnd`; two answers of up to two calls in `agent_turn` reach calls after
  a confirmation or an update, and a completion after either. With two runs, in `parts` and
  `agent_selection`, one answer of one call is enough for a run to meet another's registry.

`CHECK_DEADLOCK FALSE` is used where the system stops by itself: all calls are done, or a
bound is used up. The leave runs check deadlock.

### Fairness

* `leave_live`: strong fairness of `Execute`, because PostgreSQL queues the transactions
  waiting for a row and wakes them when it is released, so a waiter is not overtaken for
  ever; weak fairness of `DeadlockVictim`, because `deadlock_timeout` looks for cycles.
  Nothing is assumed of arrivals or aborts.
* `agent_turn`: weak fairness of a run's next step, because model and tool requests carry
  timeouts (`config.modelTimeoutMs`, `config.mcpTimeoutMs`) and settle one way or another.
  The refresh of a Plane token before them has none of its own (`planeOAuth.js` 62): there
  it rests on the defaults of the HTTP client.
* `mcp_session`: weak fairness of `Timeout`, because every RPC carries
  `AbortSignal.timeout`. Nothing is assumed of the server: `CallsReturn` holds with one
  that never answers. A call that joined an initialisation has no timer of its own and
  depends on the one who began it.

### What the violation runs show

* `task_owner`: the assignment that `updateTaskStatus` checks is that of the snapshot,
  older than the lock; an employee whose task is reassigned while the call waits for
  the row moves it nevertheless (`hrm-server/README.md` 64).
* `conversation_scope`: `writeHistory` overwrites the selection another conversation was
  given meanwhile (`be/src/server.js` 826-827).
* `plane_default_project`: `validateDefaultProject` clears the default selected since it
  read the row (`be/src/planeScope.js` 83).
* `agent_selection`: the registry is shared, so a run without servers, which is offered no
  tool, completes a status change through what another run has listed meanwhile
  (`be/src/toolRegistry.js` 54-55).

The properties of the passing runs are stated around these: `AnswersSurvive` and
`DeletedStaysGone`, for example, allow for overlapping calls, and say that
nothing else loses an answer or revives a conversation. `RefreshTokenUsable` allows for a
scope save that read the row before a refresh and writes the spent token back;
`HandshakePrecedesOwnRequest` for a call that finds the session already stored and
overtakes the notification, and for a notification refused without a body;
`WritesFollowTheirTask` for a write that goes to the default project; `CancellationCycles`
for the deletion of the employee who cancels.

## 4. Proofs

The theorems hold for every number of sessions, employees, requests, tasks and so on,
with or without the bounds of the runs (`MaxWrites` may be any value).

**`LeaveManagementProofs`** assumes `LedgerAssumption` (balances belong to employees and
leave types, days are positive), `ManagementAssumption` (approvers and administrators are
employees, a date is written with a year) and `AbsentAssumption` (NULL is no row). The
inductive invariant `IInv` joins to `TypeOK`:

* `OnRoute`: a session in a transaction serves a call, and is at a step of its route;
* `FreshRows`: the row of a submission is not stored yet;
* `LocksExclude`: no two sessions hold conflicting locks;
* `LocksHeld`: past a statement of its route, a session holds the lock it took there;
* `ReadsStable`: what it read under that lock is still so;
* `ReferencesHold`: an approval refers to a decided request, a request to an employee;
* `NoOverdraft`: `used` stays within `Allocated`.

`ReadsStable` is what makes the argument: a commit changes only rows its session has
locked exclusively, so by `LocksExclude` no row another session has read under a lock.
From it follow `DecisionsStayValid`, `RequestersStayInTeam`, `DecisionsAreFinal`,
`ChargesMatchApprovals` and the step-by-step refinement `ManagementImplementsLedger`.
`CancellationsDeadlockWithDeletions` is a separate argument about waiting. A cancellation
waits with locks only for its audit entry, and then holds nothing but its request
(`LockDiscipline`). Whoever waits for it in a cycle is waited for in turn (`CycleMembers`),
so holds something, and wants the cancelled request: that is a cascade, and by
`ReadsStable` the request is the cancelling employee's own, so the cascade holds this
employee's row and the two are the whole cycle.

`DInv` joins to `IInv` that every request's status, approval row and audit entries agree
(`Agrees`) and that an approved request has a balance row. A decision writes all three in
one commit, and `ReadsStable` says that the request is still pending there, so no earlier
decision can have been logged. `DecisionsStayConsistent` follows.

`BalancesAreExact` proves `LedgerBalanced`, over the ledger's steps: `Exact` says that the
approved requests charged to a row are finitely many and that `used` is the sum of their
days. It needs `DaysOf` to be reasoned about for a set of any size. Its fold is a
recursive function on sets, so `SumsExist` and `SumsAgree` show that this function exists
and is unique on the subsets of a finite set, each by a minimal counterexample
(`LeastSubset`) instead of induction; from them `NoDays`, `SameDays` and `OneDayLess` say
what the empty set, an untouched table and one request more or less do to a sum. An
approval is then one request more, charged to one row. That the set of requests is finite
is not assumed.

**`TaskManagementProofs`** assumes that managers are employees (`ManagersAssumption`) and that
NULL is neither a row (`TaskAssumption`) nor a value (`AbsentAssumption`). `IInv` joins to
`TypeOK` and `HistoryConnects`:
`InCall` (a call under way names an existing task), `HoldersExclude` (one holder per
task), `HoldersRead` (the row a holder read is still the stored one) and `MovesAllowed`
(the move it is about to make is allowed from that row). `TerminalStatesStay` and
`HistoryStaysConnected` follow: `HistoryConnects` alone is not inductive, because an entry
continues the last only if nobody has written since the holder read. `AInv` joins that an
assignment is the one the last audit entry names (`Recorded`), and gives
`AssigneesStayMembers`: a member leaves a project only together with its assignments.
`TasksImplementLedger` is the refinement, action by action. `HoldersRead` makes a commit a
change of the row as it is, `MovesAllowed` makes it a legal one, and `Entitled` (whoever edits
or assigns is a manager) gives the step its actor; `TerminalStatesStay` is what the ledger
says of a status by itself.

**`ConversationStoreProofs`** assumes that NULL is no row (`RowAssumption`), that no call is
called "no edit" and that there is a conversation id (`CallAssumption`), and
`ScopeAssumption`. Its lemmas on sequences (`TruncatedIsWhole`, `TurnIsWhole`) show that
cutting a history at a question, or appending a turn, leaves whole turns. The inductive
invariant has two layers:

* `IInv`: types; the table and every history a handler holds are of whole turns
  (`WholeTable`); each handler is at a consistent step (`Consistent`); whatever a call has
  seen settled is settled (`SeenSettled`);
* `CInv`: an answer is in the table, on its way there, and in every history that can still
  overwrite it, unless its call is overlapped or its conversation discarded (`Delivered`);
  a deleted row is in no such history, unless the deletion is overlapped or a chat names
  the id (`Gone`); a handler that overlaps no other holds the other rows as they are stored
  (`Unshared`).

`SeenSettled` makes the argument: two calls under way at once overlap (`Together`), so what
one of them can still write concerns only those that excuse it, and a call that opens reads
a table in which everything settled is present (`TakenOver`). Each action is first reduced
to what it does to one handler (`NextIsOneOf`), then shown to keep each conjunct. From it
follow `TurnsStayWhole`, `AnswersStay`, `DeletionsStay` and the action property
`BystandersAreKept`, for any number of calls, conversations and selections.

**`PlaneCredentialProofs`** assumes `ConnectionsAssumption` (finitely many users, each with a
token to start from, a project to select, and NULL is no row). `IInv` joins to `TypeOK` and
`LockedWhileRefreshing`:

* `LocksAreOwn`: a user's lock is held by a request of that user;
* `Sound`, `Own`: rows, snapshots and tokens in hand were granted to their user, under the
  type they carry;
* `OnTrack`: what a request has read and received at each of its steps;
* `Fresh`: nobody else has spent the refresh token that a refresh is about to store;
* `Connected`: a stored refresh token is valid, or a request excuses that it is spent.

`Fresh` rests on the lock: a second refresh of the same user would need it, and another
user's cannot hold the token by `Own`. `LocksBelongToRefreshes`, `CredentialsAreOwn` and
`StoredTokensAreUsable` follow.

**`AgentRunProofs`** assumes `ClientsAssumption` and `BoundsAssumption`. `IInv` is types with
`Executed` (what a run's log and its pending calls can hold at each of its steps) and, for
a run that has been alone since it began, `Undisturbed` (the registry, what it was offered
and what it reaches are of its selection). `ConfirmationsEndRuns` and
`CompletionsAreSingle` follow from the first, `LoneRunsAreScoped` from the second, for any
number of overlapping runs.

**`McpSessionProofs`** assumes `NoneAssumption`. `IInv` joins to `TypeOK`:

* `OneInitialization`: the map entry of a scope and the call that initialises it agree;
* `InitializedOnce`: while a call awaits the headers of `initialize`, its scope has no
  session;
* `PresentsTheStored`: a request that presents a session presents the stored one;
* `StoredWereIssued`: the server issued a stored session, for "hrm" to the scope's user;
* `Handshake`: how far an initialisation has got: its session is stored, presented by the
  notification, and once that is answered greeted, refused without a body, or forgotten.

The first two make the argument: nothing overwrites a stored session, so what a call
presents remains the stored one and, for "hrm", its own user's. From them follow
`SessionsKeepTheirUser`, `StoredSessionStays` and `HandshakePrecedesOwnRequest`, for every
number of users, calls and sessions and for shared and separate scopes alike.

**`AccessProofs`** proves of the abstract token (`OneShotToken`) that it is used at most once
and within its lifetime, and that `OAuthStates` and `Confirmations` implement it, step by
step. Beside the types they need that a callback serves the flow its state was created
for (`CallbacksServe`), and that a reply in progress names a confirmation. Of `Accounts`,
`AccountsInv` is types and indexes with `LoginsHold` (what a login found is still so: the
row of its user, the identity it will link), `SessionsHold`, `AddressesHold` and
`LinksHold`. `LinksAreKept` and `GoogleSessionsAreLinked` follow. The crux is `link`: it
writes an identity over whatever the row has by then, and is sound because the address of
a login under way cannot belong to a second identity.

**`RecordProofs`** is about what is written of tasks and employees, and shown of them.

* `WorkInv` is the types of `WorkUpdate` with `AsRequested` (an item was found in the
  project asked for, if one was; the project named is that one or none; a write that sets a
  status has one), `AsNamed` (the status it expects is one its reference matches)
  and `MissesNothing` (between its write and its return, an item's present status is among
  those `shown`). `SuccessesWereShown` and `WritesStayWithTheirTask` follow.
* `DirectoryInv` is the types and unique indexes of `EmployeeDirectory` with `LinksLead` (a
  link leads to an employee of its company) and what a call under way has resolved
  (`Calling`). `WritesAreAuthored` is then an argument about each write: the foreign key of
  its audit entry refuses an author who is not an employee afterwards, and one who was not
  before can only be the row the write creates, which has no role.
* `ReadsInv` is the types of `StaffReads` with `TeamMet` (the team of a context consists of
  people met during the call), `TargetDue` (the one employee it reads was within reach when
  checked) and `Due`, the property of an answer, together with that its call is over.
  `ReadsAreDue` follows, for any number of readers and departments.
* The composition `MCParts`: `PartsBehaveAlone` shows that whichever part the initial state
  picks behaves as that part's own specification, so the theorems about the parts hold of
  what `parts` runs; `PartsTypeCorrect` is the conjunction of their type invariants.

Only model-checked:

* `EveryCallReturns`, `RunsEnd`, `CallsReturn`: liveness.
* The four properties of the runs that end in a violation.

## 5. Not modelled

`PROJECT.json` lists every component with its reason. In short:

* `LibreChat/` and `fe/`, nearly all of the repository's lines, are a fork of LibreChat
  (v0.8.8-rc3) and its client. The backend knows it only as a proxy target: `be/src/server.js`
  249-262, 874, 902 and 927 forward `/api/agents/chat` and other `/api/*` paths to
  `config.libreChatUrl`. It shares no state with the services modelled here, and is left
  to its own project; so is `mcp-clickhouse/`. The lines mapped here are therefore most of
  the services' logic and a small share of the repository's.
* The C# MCP servers hold no records; their sessions are the server's side of `McpSession`,
  which covers transports with and without them. `crossDomain.js` is registered nowhere;
  `consumeExplicitConfirmation` is called by nobody yet.
* Routing, request validation, headers, prompts, the model registry and configuration are
  functions of their input.
* Of Discord's integration, the destination check; the OAuth flow is in `OAuthStates`, and
  the record it saves goes through the `saveIntegration` of `PlaneCredential`.
* Errors that end a call are all `Abort`, a failure or a return: their codes and wording
  (a deadlock victim is reported as an internal error, for instance) are left out, and so
  is `actor_user_id` of the audit entries.

## 6. Open

Five hazards of `PROJECT.json` have no property and say why: the approver's stale
department, a spent refresh token presented after the lock's release, a failure inside a
reassignment, deadlocks between task calls, and overlapping edits of an employee. Waiting
for row locks is modelled statement by statement for leave only.
