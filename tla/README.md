# A formal model of Planexus

Planexus is a strategy and planning service: one Go process (any number of
replicas) over one PostgreSQL database, with a web client. The modules in this
directory model its handlers as they run concurrently on that database; TLC
checks them on small instances and TLAPS proves the main results for any number
of users, rows and requests. `PROJECT.json` lists the runs, the source lines
every definition stands for, the hazards of the code and the theorems.

    tlc -workers 2 -config MCPlanWorkflow.cfg MCPlanWorkflow
    tlc -workers 2 -config MCImportJobs.cfg MCImportJobs
    tlc -workers 2 -config MCBackupRestore.cfg MCBackupRestore
    tlc -workers 2 -config MCIdentity.cfg MCIdentity
    tlc -workers 2 -config MCComponents.cfg MCComponents
    tlc -workers 2 -config MCRequests.cfg MCRequests
    tlapm AccessProofs.tla
    tlapm PlanWorkflowProofs.tla
    tlapm ImportJobsProofs.tla
    tlapm BackupRestoreProofs.tla
    tlapm IdentityProofs.tla
    tlapm ReadingProofs.tla
    tlapm ComponentsProofs.tla
    tlapm RequestsProofs.tla

Paths below are relative to `src/internal/server` unless they start with another
directory of `src/`.

## 1. The system

The process keeps almost nothing in memory: failed logins, the rate limit
windows and a 30 second copy of the rate limit policy. Everything else is in
PostgreSQL. Components interact through tables, and through the principal that
the authentication middleware attaches to a request. Every handler runs in a
goroutine of its own with a context that ends when the client disconnects or
after 30 seconds (10 minutes for backups, `server.go` `requestTimeout`).
Transactions run at READ COMMITTED except exports (REPEATABLE READ) and restores
(SERIALIZABLE); row locks are taken with SELECT ... FOR UPDATE. An audit row is
written after the transaction, on another connection, with the same context.

| component | source | state | operations | what is hard | correct if |
|---|---|---|---|---|---|
| Plans and reviews | `domain.go`, `workflow.go`, `settings.go` | `plans`, `workflow_definitions`, `workflow_instances` | createPlan, submitPlan, actWorkflowTask, putWorkflow | three rows locked in two orders; a policy read without a lock; a definition edited while reviews are open | one open review per plan in review; histories are complete; decisions are final; every request ends |
| Authorization | `auth/auth.go` | the principal of a request | Has, Can, canReadPlan, canActWorkflow, effectiveKeyScopes | wildcards, classifications, organizations | a key never does more than its user |
| Excel imports | `imports.go` | `import_jobs`, `import_job_records`, the imported tables | previewImport, commitImport, rollbackImport | many rows in one transaction; unique codes; foreign keys; deadlocks | whole or absent; taken back once; no dangling parent |
| Strategies, KPIs, projects, decisions | `domain.go` | their tables | create and list | references and codes shared with imports | as for imports |
| Sessions and authentication | `auth/auth.go`, `server.go` | `sessions`, `users` | LocalLogin, Authenticate, loadGrants, Logout, ChangePassword | a principal that is read once and believed until the request ends | every request is judged by the roles of its moment |
| Login throttle, API rate limit | `server.go` | two maps and a cached policy in memory | loginBlocked, loginFailed, loginSucceeded, loadAPIRateLimit, consumeAPIRate, invalidateAPIRatePolicy | check before and count after a slow comparison; a mutex held while the policy is read; failed reads; window boundaries | bounded windows per minute and failures per quarter of an hour; the cached policy is the stored one |
| API keys | `keys.go`, `auth/auth.go` | `personal_access_keys` | createKey, rotateKey, revokeKey, authenticateAPIKey | rotation in several statements without a transaction; time; a policy that changes | replacements are recorded as issued; rotations shorten and never lengthen a life; a key shows no more than its user is shown |
| OIDC | `oidc.go` | `users`, `user_roles`, login states | oidcLogin, oidcCallback, upsertOIDCUser, assignMappedRoles | first logins racing; mapped against granted roles | one user per subject; roles given by hand survive until a login claims them |
| Users, roles, bootstrap | `admin.go`, `database/database.go` | `users`, `roles`, `user_roles` | setUserRoles, updateUserAdmin, updateRole, BootstrapAdmin, Migrate | administrators who act on each other; restarts; two servers starting | an administrator remains and the server can start again |
| Organizations | `admin.go` | `organizations` | createOrganization, updateOrganization | cycle check and update are two statements | the hierarchy stays a forest |
| Backup and restore | `backup.go` | `backup_jobs`, all tables | exportBackup, validateBackup, restoreBackup | a snapshot that races with TRUNCATE; hierarchies exported from their roots; jobs left running | a signed archive is complete; a restore is all or nothing |
| Notifications | `notifications.go` | rules, `notifications` | createNotificationRule, deleteNotificationRule, evaluateNotifications, readNotification | several evaluators at once; one failing rule | a match is announced while it lasts, and once per rule, resource and cooldown |
| AI gateway, MCP | `ai.go`, `mcp.go` | settings, `ai_interactions` | aiQuery, selectAIModel, aiEvidence, callMCPTool, mcpBrief | a daily limit checked before and counted after; checks written a second time for tools | the limit, but for the questions in flight; tools, evidence and lists agree |
| Settings | `settings.go`, `ai.go` | `system_settings` | putSetting, deleteSetting, putOIDCAdmin, putAIAdmin, putWorkflow | masked secrets merged without a lock; audit rows outside the transaction | a masked secret survives a save; changes are audited |
| Audit log | `server.go`, `database/migrations.go` | `audit_logs` | audit | written after the commit it reports | no false row; (not) no missing row |
| Lists, search, dashboards, intelligence, scenarios | `domain.go`, `search.go`, `intelligence.go` | their tables | lists, globalSearch, executiveDashboard, simulateScenario | the same question asked in six places; a connection held while a second one is asked for | whoever creates a row is shown it; what is counted may be read; every request ends |
| Metrics, OpenAPI, vault, configuration, web UI | several | little or none | probes, a static document, cryptography | | listed, not modelled |

## 2. Modules

| module | what it is |
|---|---|
| `Access` | the authorization decisions as operators; no variables |
| `AccessProofs` | theorems about `Access`; EXTENDS it and TLAPS |
| `PlanLifecycle` | abstract: plans with at most one open review, final decisions |
| `PlanWorkflow` | detailed: the handlers of plans and reviews, step by step; EXTENDS `Access` |
| `PlanWorkflowProofs` | theorems about `PlanWorkflow`; EXTENDS it and TLAPS |
| `MCPlanWorkflow` | constants for TLC |
| `ImportLifecycle` | abstract: jobs that are imported and taken back in one step |
| `ImportJobs` | detailed: previews, commits and rollbacks row by row, and createKPI; EXTENDS `Access` |
| `ImportJobsProofs` | theorems about `ImportJobs`; EXTENDS it and TLAPS |
| `MCImportJobs` | constants for TLC |
| `Organizations` | the tree of organizations and the users in it; creating, moving, assigning |
| `BackupRestore` | exports and restores of that tree; EXTENDS `Organizations` and composes its steps with its own |
| `BackupRestoreProofs` | theorems about `BackupRestore` and the tree under it; EXTENDS it and TLAPS |
| `MCBackupRestore` | constants for TLC |
| `Identity` | accounts, roles and who changes them: servers that start and stop, OIDC logins, administrators |
| `IdentityProofs` | theorems about `Identity`; EXTENDS it and TLAPS |
| `MCIdentity` | constants for TLC |
| `Reading` | who is shown a row, by the lists, the search, the tools, the counts and the evidence; EXTENDS `Access` |
| `ReadingProofs` | theorems about `Reading`; EXTENDS it and `AccessProofs` |
| `ApiRateLimit` | the limit of API requests, its mutex and its cached policy |
| `LoginThrottle` | the throttle of local logins |
| `AIGateway` | the questions of a user and their daily limit |
| `Settings` | settings with masked secrets |
| `ApiKeys` | the keys of a user: created, rotated, revoked, expired |
| `MCComponents` | `Reading` and the five modules after its proofs, one moving in each behaviour |
| `ComponentsProofs` | theorems about these five modules and their composition; EXTENDS `MCComponents` and `ReadingProofs` |
| `ConnectionPool` | requests, the connections of the pool and the mutex of the rate limit |
| `Notifications` | rules and evaluators |
| `MCRequests` | the last two, one moving in each behaviour, with fairness |
| `RequestsProofs` | theorems about these two; EXTENDS `MCRequests` and TLAPS |

### How handlers become actions

A request runs in a slot `r \in Request`; `req[r]` holds its phase and what its
handler has in local variables. A phase is a point where another request can get
in between: before a lock it may wait for, between a read and the write that
relies on it, between two rows of a commit, and between a commit and the audit
row. Everything between two such points is one action.

* **Locks are derived.** Who holds a row follows from the phases (`HoldsPlan`,
  `HoldsInstance`, `HoldsDefinition`, `HoldsJob`, `HoldsCode`, `HoldsParent`), so
  a lock is released exactly when its transaction ends. `WaitsFor(r, q)` is the
  wait graph from which `AbortDeadlock` takes the victims.
* **Which locks conflict.** FOR UPDATE conflicts with everything. The foreign key
  of a new workflow instance takes KEY SHARE on the definition, the upsert of
  `putWorkflow` NO KEY UPDATE (its key column keeps its value): these two do not
  wait for each other, both wait for a decision that holds FOR UPDATE. A pending
  INSERT or DELETE of a code makes another INSERT of that code wait; a pending
  DELETE of a parent makes the foreign key check of a child wait.
* **READ COMMITTED.** `actWorkflowTask` reads and locks instance, definition and
  plan in one joined SELECT ... FOR UPDATE. The rows are locked in that order; a
  row that changed while the statement waited is read again before the handler
  sees it. Therefore the handler decides on the versions that are current when
  the last lock is granted (`HoldsAllRows`), and nobody changes them before its
  commit.
* **Uncommitted rows** are in no table. For imports they follow from the phase
  and the ids a request is done with (`Inserted`, `Deleted`).
* **Failures.** `Cancel(r)` ends any request at any phase: client disconnect,
  timeout, failing statement, process stop. It rolls the transaction back, and
  the audit row that was still to be written is never written. A crash of the
  process is a `Cancel` of every slot.
* **External.** PostgreSQL is modelled from how the handlers use it: row locks,
  the unique index, foreign keys and the deadlock detector are marked external
  in the map.

### PlanWorkflow

`planStatus`, `definition`, `instPlan`, `instStatus`, `instStep` and `history` are
columns of the three tables; `auditRows` is the set of rows of `audit_logs`;
`inForce` is a history variable, the step lists that were in force from the
query in which `submitPlan` reads the policy to the end of the review. The
properties use it to tell an undisturbed review from one whose definition was
edited, also in the moment before its instance was inserted: SubmitReadPolicy
keeps in `req[r].change` what was in force when `enabled` was read.

`submitPlan` is StartSubmit, SubmitLockPlan or SubmitRefused, SubmitReadPolicy,
SubmitForReview or SubmitDirectly, WriteAudit. `actWorkflowTask` is StartAct,
ActLockInstance, ActLockDefinition, one of ActRefused, ActReject, ActApproveStep
and ActApproveLast, WriteAudit. `createPlan` is one INSERT; `putWorkflow` is
StartConfigure and Configure, one upsert. Authorization comes from `Access`.

`PlanLifecycle` has two variables, the status of a plan and the decisions of its
open review. The refinement maps the second to the history of the plan's pending
instance (`OpenReviewOf`).

### ImportJobs

`jobStatus`, `previewData`, `validRows` and `invalidRows` are columns of
`import_jobs`, `ledger` is `import_job_records`, `kpis` the table of that name. A
workbook is a record: whether it has a column for the code, whether a cell is
too long to be kept, and its rows, of which only code and classification matter
to the control flow. `ValidItems` and `InvalidCount` are the row loop of
`previewImport`: required code, known classification, permission for that
classification, no code twice whatever its case, no row past the limit, and the
rule that errors which belong to no row count as one. The k-th valid row is the
one at the k-th (`Nth`) of the valid positions.

`commitImport` inserts row by row (CommitRow), because between two rows another
import can take a code; `rollbackImport` deletes row by row, because between two
rows a child can be created. `createKPI` is one INSERT with two points where it
can wait: the unique index, then the foreign key of its parent.

`ImportLifecycle` commits and rolls back a job in one step. Its `faulty` status
is a preview with `invalid_rows > 0`.

### Organizations and BackupRestore

A table is a function from the ids of its rows to the column that refers to an
organization; `organizations` maps to `parent_id`, `users` to `organization_id`.
`Descendants` is what the recursive queries find: the least set of rows that
holds the children of a row and of its own members. It is written as an
intersection of sets and not as a recursion, so that the provers can use it.
These two stand for the 21 tables of an archive: one that refers to itself and is
exported from its roots down (so are `strategies` and `kpis`), and one that
refers to it.

`updateOrganization` is StartMove, then MoveRefused or MoveChecked (the query
that looks for the new parent among the descendants), then MoveWritten or
MoveFailed (the UPDATE). The two statements share no transaction, so another
move or a restore can come between them. Once a cycle exists, the recursive
query of the check need not end (`QueryEnds`); such a request stops with its
timeout, `CancelMove`. `raced` is a history variable: some move was written
after the tree had changed under its check.

`exportBackup` is StartExport, whose first query takes the REPEATABLE READ
snapshot, ExportOrganizations and ExportUsers, one for each table, the last of
which signs and delivers the archive. An archive keeps the line of every
organization, ordered by depth and code. `restoreBackup` is StartRestore,
RestoreClear (TRUNCATE ... CASCADE) and RestoreCommitted or RestoreRefused: the
lines are inserted in their order under foreign keys that are checked at once
(`Insertable`), and a refused line rolls the whole restore back.

TRUNCATE waits for exports that have read a table and makes all later statements
wait (`TablesUnused`, `TablesFree`). It does not wait for an export that has its
snapshot but has read no table, and to that export the tables are then empty
(`Visible`): PostgreSQL documents TRUNCATE as not multiversion safe.

### Identity

`users` maps an account to its name and whether it is active, `userRoles[u][r]`
is the row of `user_roles`: none, granted by hand, or mapped from the claims of a
login (the column `scope` tells). `wild` are the roles whose permissions contain
`"*"`. A request's principal is what `Administrator` said when it began.

`BootstrapAdmin` is BootFound or BootAbsent, BootInsert (where the second of two
servers waits at the unique index and then fails) and BootCommit; `Stop` ends a
process at any of these points. `oidcCallback` is LoginLookup, LoginName,
LoginInsert, LoginGeneral and the transaction of `assignMappedRoles`: DeleteRows
or DeleteResumes, then LoginCommit. `setUserRoles` shares DeleteRows and ends with
RolesCommit or RolesFailed. A DELETE in READ COMMITTED takes its rows from a
snapshot and waits for the rows that another transaction has deleted; when that
one commits, these rows drop out, even if it inserted the same role again, for
that is a new row (`CommitRequest`). This decides what becomes of a role that is
granted while its account logs in. `updateUserAdmin` and `updateRole` are one
check and one write each.

`demoted` and `upset` are history variables: administrators took the role from
the bootstrap user; power was lost in one of the ways that can leave nobody in
charge. They are there so that the two invariants can say what the code does
promise, and they leave out what it does not: two administrators who take the
role from each other at the same time do leave nobody in charge (`upset`).

`given[u]` is a history variable too: the roles that administrators gave `u`, as
of their last `setUserRoles`, less those that a later login was mapped to. The
code keeps no more: `assignMappedRoles` overwrites the scope of a row that was
granted by hand (`ON CONFLICT ... DO UPDATE SET scope`, `oidc.go:247`), and the
next login whose claims do not name the role deletes the row (`oidc.go:240`). So
a role that was granted by hand is lost over two logins, the first of which is
mapped to it; `GivenRolesAreHeld` says that this is the only way logins take one.

### Reading

One user with a session and a key, one row, and the roles, the organization and
the exposed tools changing around them. Each operator is one place in the code
that decides whether the row is shown: `Listed` the REST lists (with the SQL
filter of `listPlans`), `Searched`, `Told` the tools, `Counted` the dashboard,
`Briefed` and `Evidence` the brief and what a model is told, `MayRun` and
`MayCreate`. `WithSession` is `loadGrants`, `WithKey` is `authenticateAPIKey`.
How many rows each shows at most is left out, so that agreement is about rows
within these limits.

### ApiRateLimit, LoginThrottle, ApiKeys

Time is discrete, and the variables hold ages or what is left instead of points
in time: a window that began two ticks ago is the same state at any hour. The
tick is 15 seconds for the rate limit (a window has 4, the policy is cached for
2), 5 minutes for the throttle (a block has 3) and a day for keys.

A request to the API reads its limit under the mutex (LoadCached, or LoadBegins,
LoadReads and LoadFills with the mutex held over the query), takes its time, and
waits for the mutex again to be counted (Consume). `late`, `unread`, `defaulted`
and `admitted` are history variables. A login looks at its entry (TryLogin),
compares and reports the outcome. A rotation is StartRotate, KeyInserted and
Shortened, each with the checks of its statement; `KeeperFails` ends it between
any two.

### AIGateway, Settings

A question is Ask, which reads the settings, AskedTooMuch or WithinLimit, the
model, and Record. `putAIAdmin` and `putOIDCAdmin` are SaveBegins, SaveReads and
SaveWrites; a setting maps names to secrets, and `Mask` in a form stands for the
stored secret of that name.

### ConnectionPool, Notifications

A request of `ConnectionPool` is a query, a search, an export or a restore, and
one slot may hold the ticker that evaluates the notification rules. `holding` are
those that keep a connection between statements; a statement only needs one to
be free. `Timed` are the phases that wait for a connection under a deadline.
`Untimed` are those that wait without one: `finishBackupJob` after an export and
the two statements after the commit of a restore use `context.WithoutCancel`,
and the ticker runs under the context of the process (`main.go:53`). Waiting for
the mutex has no deadline either. Other transactions (plans, imports, roles) hold
one connection and ask for no other, so a statement stands for them.

`Notifications` keeps which rule matches which resource as a relation that may
change at any moment (`ChangeValue`), because it depends on all tables and on the
date. An evaluation reads the rules, then rule by rule the matches, and inserts
them one by one. A rule that was deleted meanwhile makes the INSERT fail at its
foreign key and ends the evaluation, unless the notification is there already.

## 3. Runs

| run | bounds | shows |
|---|---|---|
| `plan_workflow` | 2 requests, 1 plan, 2 reviews, 4 definitions (disabled, one step, two steps, invalid), author and planner, audit rows of rejections | `OneOpenReview`, `HistoryTellsStatus`, `UndisturbedReviewIsComplete`, `DeadlockNeedsClosedTask`, `AuditRowsAreTrue`, `DecisionsAreFinal`; the handlers implement `PlanLifecycle` |
| `plan_workflow_live` | the same with one user and one-step definitions, `FairSpec` | `EveryRequestEnds` |
| `plan_workflow_edited` | definitions of two steps that differ | violated: `ConfiguredStepsApply` |
| `plan_workflow_audit` | all audit rows | violated: `ConfigurationChangesAudited` |
| `import_jobs` | 2 requests, 2 jobs, at most 2 rows, 3 codes of which 2 differ only in case, 1 KPI made by hand, planner and executive, 6 workbooks, `FairSpec` | `ImportsAreWhole`, `ParentsExist`, `EveryRequestEnds`; the handlers implement `ImportLifecycle` |
| `backup_restore` | 2 organizations whose codes are ordered against the tree, 1 user, 2 moves, 2 exports or restores, 2 archives, 2 requests at a time | `CyclesNeedRaces`, `UndisturbedArchivesAreComplete`, `UndisturbedArchivesRestore` |
| `backup_cycle` | the same with one export | violated: `ArchivesAreComplete` |
| `backup_truncated` | no moves | violated: `ArchivesAreComplete` |
| `identity` | 2 servers, 2 requests at a time, the bootstrap user and one subject who claims his name, 2 roles | `RefusalNeedsDemotion`, `AdministratorsRemain`, `GivenRolesAreHeld` |
| `components` | 2 slots of concurrent requests; limits of 1 and 2 requests; 3 failures; 4 tokens a day, 2 for a question, 1 or 3 for an answer; 2 entries, 2 secrets; 3 keys, lives of 2 days, overlaps of 0 and 1; 4 roles, 4 scopes, 3 classifications, 1 organization | `FewWindowsPerMinute`, `PolicyIsCurrent`, `FewFailures`, `DailyTokensBounded`, `SecretsSurvive`, `ReplacementsAreOwn`, `RotationsKeepPromises`, `KeysStayDead`, `ChannelsAgree`, `KeysShowNoMore`, `CountsAreReadable`, `CreatorsRead` |
| `key_rotation` | 1 request, 2 keys | violated: `RotationShortensOldKey` |
| `requests` | 3 requests, one of which may be the ticker, on 2 connections; 2 rules, 1 resource, the ticker and one handler, at most 1 error of the ticker; fairness | `RequestsEnd`, `ReadStaysRead`, `MatchesAreAnnounced` |

`components` and `requests` each run several modules that share no variable. The
variable `part`, chosen in the initial state and never changed, says which one
moves; the others
stay in their initial state. The state spaces add up instead of multiplying, and
nothing is lost: the modules do not interact. In `requests` the fairness of the
notifications is asked for only in the behaviours where they move.

**Why the bounds are enough.** Every lock conflict and every race in these
handlers is between two requests. A ring of two waits is the shortest deadlock,
and for plans `DeadlocksArePairs` proves that a longer one contains a pair of
requests that wait for each other, so that `AbortDeadlock` on pairs misses none;
for imports `AbortDeadlock` takes a victim from rings of any length. Two instances
of one plan are needed for a second submission after a rejection, and with it
for a late decision on the first review; more repeat that. Two rows are the least
that can be half imported, and two jobs the least that can clash in both orders.
`InstanceLeft` keeps an instance id for every submission under way; it is a
bound of the model, not of the code. `Audited` limits which audit rows are kept
so that the state space stays small; the audit run keeps all of them.

For backups, two organizations are the shortest cycle that the check for
`o = parent` does not catch, and the least tree whose lines can be in the wrong
order. `MaxActive` bounds the multi-step requests at one time to two: two moves,
two jobs or one of each; single statements come in between without bound. A
cycle that is tied before an export begins, and a restore of an archive taken
earlier, follow each other in one behaviour. `MaxFiles` bounds the archives kept
(one to restore, one under way). `FreshOrg` says that a request cannot name an id
that is not yet created; an id that a restore has removed may be drawn again,
which only reuses a name.

In `identity` two servers are enough to race at the bootstrap, and the second
one to stay up while the first crashes. The races are between two requests for
one account; the subject whose name is the bootstrap user's is the one for whom
every branch of `LoginName` and of the unique index occurs. The sets of roles
given out and mapped are those that add or remove `system_admin`; the other role
stands for all that may hold `"*"` by an edit of its permissions.

In `components` two slots give each race: a change between the check and the
write of another, two questions that pass the limit together, two rotations of
one key. The limits are as small as they can be with the stored limit below the
default; the sums of `FewWindowsPerMinute`, `FewFailures` and
`DailyTokensBounded` reach their bounds: with the right side smaller by one, TLC
finds each violated. Three keys are an old one and two replacements.
`MaxPending` bounds the settings that wait to invalidate the cache.

In `requests` two connections and three requests let two exports wait for each
other while a third request, a restore that has committed or the ticker queues
behind them, a search hold a connection
without progress, and the reader of the policy hold the mutex while the pool is
empty. Two rules are one that fails and one that must still be announced.
`MaxFaults` bounds the errors of the ticker, since one that fails for ever
announces nothing; the handler's evaluation may fail without bound.

**Fairness.** `SF(Handle(r))`: the server runs the requests it has accepted, and
PostgreSQL queues lock requests, so that a request whose lock is free again and
again gets it. Strong fairness is needed because another request can take a free
lock before it. `WF(AbortDeadlock(r))`: the deadlock detector runs after a
second of waiting. Nobody has to send a request, and `Cancel` has no fairness:
the liveness results do not lean on the timeout.

In `ConnectionPool` every step of a handler that can be taken and every deadline
is weakly fair: goroutines run and timers fire. That a restore under way ends
(`RestoreEnds`, committed or not) is due to its deadline, which also ends its
wait for the tables of an export. `LimitLoads` and `ServedAtLast` (the waits
without a deadline) are strongly fair, because the mutex of Go and the pool of
pgx serve those who wait in order, so that one who waits for what becomes free
again and again gets it. In `Notifications` only the steps of the ticker are (weakly) fair; no
handler has to be called.

**What the violations say.** A workflow instance stores the number of its step,
not the steps. An edit of the definition while reviews are open exchanges the
steps under them, so a plan can be confirmed by a mixture of two step lists that
was never configured (`docs/architecture.md` says the configured steps apply).
`UndisturbedReviewIsComplete` is the part of that promise which does hold: a
review whose steps nobody replaces from the moment the policy is read is complete
and always has a next step. The exception is real in both of its parts: besides
the edit of an open review, an administrator may disable the policy between that
query (`domain.go:569`, which takes no lock) and the INSERT of the instance
(`domain.go:577`). Then a review opens under a disabled definition. If that has
no steps, which `putWorkflow` refuses for enabled definitions only, every
decision is answered with 409 (`workflow.go:136`), and the plan stays in review
until somebody configures steps again.
Second, a configuration is committed before its audit row is inserted, by
another statement under a context that may have ended: a change without a row.
`AuditRowsAreTrue` is the direction that holds, no row without its change.
Third, `docs/operations.md` calls an archive complete. Two moves that pass the
cycle check together tie a cycle; an export that walks down from the roots never
meets it, so these organizations are missing although users refer to them, and
the signed archive cannot be restored (`backup_cycle`). And an export whose
snapshot is older than a concurrent restore, but which has read no table yet,
reads truncated tables and signs an archive without rows (`backup_truncated`).
`UndisturbedArchivesAreComplete`, `UndisturbedArchivesRestore` and
`CyclesNeedRaces` say that these are the only two ways.
Fourth, `docs/security.md` says that a rotation creates a replacement and
shortens the old key. These are two statements without a transaction; a request
that ends in between leaves both keys with their full lives (`key_rotation`).
`RotationsKeepPromises` is what holds of rotations that were answered.

**What the passing runs say that is not obvious.** An administrator remains
although the guards of `setUserRoles` and `updateUserAdmin` look at the actor's
own account only, except in three ways that `upset` names: an actor writes after
he has lost the role himself, a role other than `system_admin` loses its `"*"`,
or a login withdraws a mapped role. The first of these includes the plain race
of two administrators who demote each other: it does leave nobody in charge, no
document promises otherwise, and `AdministratorsRemain` does not speak of it. In
the same way `SecretsSurvive` leaves out (`disturbed`) two administrators who
save settings at the same time: there is neither a lock nor a version check, and
the later save undoes the earlier one. Neither property covers these races, as
`PROJECT.json` notes at their hazards, and none covers the loss of a role given
by hand over two logins. A user may get all but one request of two windows into
one minute, and of three if a request waited for the mutex with its time already
taken. A search that keeps a connection can be delayed by others but ends.
Exports that wait for each other with no connection left stay for ever
(`Stuck`), and with them whoever then waits without a deadline: a restore that
has committed, for its job row and its audit row, and the ticker. Everybody else
ends with his deadline. A deleted rule or an error ends an evaluation, but not
the announcements: the next tick starts anew without it.

## 4. Proofs

`PlanWorkflowProofs` proves, for any sets of users, plans, instances, requests
and definitions:

| theorem | says |
|---|---|
| `TypeCorrect` | `Spec => []TypeOK` |
| `Invariance` | `Spec => []IInv`, the inductive invariant |
| `ReviewsAreExclusive` | `Spec => []OneOpenReview` |
| `HistoriesAreFaithful` | `Spec => []HistoryTellsStatus` |
| `UndisturbedReviewsAreComplete` | `Spec => []UndisturbedReviewIsComplete` |
| `OpenTasksDoNotDeadlock` | `Spec => []DeadlockNeedsClosedTask` |
| `DecisionsStay` | `Spec => DecisionsAreFinal` |
| `AuditTellsTheTruth` | `Spec => []AuditRowsAreTrue` |
| `DeadlocksArePairs` | `Spec => []OnlyPairsDeadlock` |
| `Implementation` | `Spec => ImplementsLifecycle` |

Assumptions: `DefinitionAssumption` (definitions are well typed and include the
disabled one that the migrations insert) and `NoneAssumption` (the nil id is no
plan).

`IInv` strengthens the three review invariants with what makes them inductive:

* `Typed`: the types, and that a request in a phase of a handler has the fields
  this handler reads, and that an instance which exists has a plan;
* `PlanLocksProtect`: a plan is locked by at most one submission, and while it is
  locked it stays submittable. This is why the check of `submitPlan` still holds
  when it writes, two steps later, and why no second review is opened;
* `PoliciesAreValid`: an enabled definition has at least one step, and what a
  submission remembers of the policy, or `putWorkflow` is about to store, is of
  that kind. This is why a review that nobody disturbs has a step to begin with;
* `AbsentInstancesAreEmpty`: a new instance starts at step 0 without history;
* `CurrentStepsAreInForce`: the steps of the current definition are among those
  recorded in `inForce` for a pending instance, so that a review with only one
  list in force takes its steps from that list.

The proof of `NextIInv` has a lemma for each action that changes a table
(`SubmitForReviewConsistent`, `CloseConsistent`, ...) and treats all actions that
change none by `TablesStayConsistent`. `OpenTasksDoNotDeadlock` then needs no
induction: an open task's plan is in review, a plan in review is not submittable,
and a plan that a submission has locked is. `Implementation` maps each action to
its step of `PlanLifecycle` and uses `OneOpenReview` to show that the mapped
review is the pending instance's history.

`AuditTellsTheTruth` takes a second invariant, `RowsAreTrue`: what a row
reports, whether it is written or still to be written (`Reported`), is so in the
tables. `TruthStays` says that no step takes a reported fact back (histories
only grow, a review that was opened stays in its table), and
`CommitsReportTruth` that a commit hands the audit only what it has just done.
`DeadlocksArePairs` follows the order of the locks: every handler takes
instance, definition, plan in this order, but the foreign key of a new review,
which a submission checks while it holds the plan. So a circle of waiting
requests has a submission that waits for a definition, and whoever holds that
definition waits for a plan or for nothing; since no two requests hold the
definition (`OneHoldsDefinition`), the circle is a pair (`CirclesHavePairs`).

`AccessProofs` is about the decisions themselves. `Covers` is transitive
(`CoversTransitive`), so what a key keeps of its scopes after
`effectiveKeyScopes` is covered by its stored scopes and by its user's current
permissions (`ScopesAreInTheIntersection`); since the other conditions of `Can`
look at roles and organization, which a key has from its user, no request with a
key is allowed what its user is not (`KeyNeverExceedsUser`,
`KeyNeverExceedsUserOnPlans`). The only assumption is that permissions and scopes
are pairs of an area and a verb.

`ReadingProofs` proves, for any roles of the migration, organizations, scopes,
rows and histories of `Reading`:

| theorem | says |
|---|---|
| `ReadingTypes` | `ReadingSpec => []ReadingTypeOK` |
| `ChannelsAlwaysAgree` | `ReadingSpec => []ChannelsAgree` |
| `KeysNeverShowMore` | `ReadingSpec => []KeysShowNoMore` |
| `CountsAreAlwaysReadable` | `ReadingSpec => []CountsAreReadable` |
| `CreatorsAlwaysRead` | `ReadingSpec => []CreatorsRead` |

Three of the four properties are facts about any principal and any row, so their
proofs need no invariant: the condition that `Can` puts on the row does not depend
on the permission asked for (`CanWithout`), and whoever holds all of an area
holds each permission in it (`AllOfIncludes`). `KeysNeverShowMore` needs the types,
to know that session and key are principals with pairs for permissions, and then
rests on `KeyNeverExceedsUser` of `AccessProofs`. `ReadingAssumption` says that the
roles are seeded ones and that scopes are pairs.

`ImportJobsProofs` proves, for any users, jobs, codes, row limits and workbooks
and any number of requests:

| theorem | says |
|---|---|
| `ImportInvariance` | `Spec => []IInv`, the inductive invariant |
| `ImportTypes` | `Spec => []TypeOK` |
| `ImportsStayWhole` | `Spec => []ImportsAreWhole` |
| `NoOrphans` | `Spec => []ParentsExist` |
| `ImportsImplementLifecycle` | `Spec => ImplementsLifecycle` |

A commit or rollback takes a step for each row, so `IInv` speaks about half-done
transactions: a commit under way has inserted exactly the first n rows of a job
that is still a preview (`CommitIsOrderly`), a rollback has deleted rows of an
imported job to which no committed KPI refers (`RollbackIsOrderly`), a code that
is inserted but not committed is in no committed row (`CodesAreNew`), and two
requests never hold the same job, id or code (`AreApart`). `LedgerIsWhole` and
`TableIsWhole` say what the tables then contain. At the end of a commit these
give the whole job at once, which is the step of `ImportLifecycle`; every row
before it is a stutter there. `ItemsAreValid` is the lemma about the parsed
workbook: its items are rows that passed the loop, and they are no more than its
rows or the limit.
Assumptions: `ImportAssumption` and `IdAssumption` (ids made by hand are not those
of imported rows, because ids are drawn at random).

`BackupRestoreProofs` proves, for any finite set of organizations, any ranking of
their codes, any users and any number of moves, exports, restores and archives:

| theorem | says |
|---|---|
| `BackupInvariance` | `Spec => []IInv`, the inductive invariant |
| `BackupTypes` | `Spec => []TypeOK` |
| `OnlyRacesTieCycles` | `Spec => []CyclesNeedRaces` |
| `ArchivesHoldTheirSnapshot` | `Spec => []UndisturbedArchivesAreComplete` |
| `ArchivesCanBeRestored` | `Spec => []UndisturbedArchivesRestore` |

Under them lie lemmas about trees that need no induction. A finite table is a
forest exactly when each nonempty set of its rows has a row whose parent is
outside the set (`ForestsLeadOut`, `LeadingOutMakesForests`). From it follow
that a new leaf and a checked move keep a forest (`LeavesKeepForests`,
`MovesKeepForests`), that the walk from the roots meets every row of one
(`ForestsAreRooted`), and that ordering by depth and code puts parents first
(`ParentsComeFirst`), so that a restore finds every foreign key satisfied, and
that what could be inserted line by line is a forest (`InsertedTablesAreForests`).
`IInv` adds what requests rely on between their steps: a checked move that saw no
change still hangs an organization where it does not descend from itself
(`ChecksHold`), snapshots obey the foreign keys (`ForeignKeysHold`), and what an
export has read is the first table of its snapshot, unless a restore truncated
it (`ExportsAreRead`). Assumptions: `OrgAssumption` (a table is finite) and
`BackupAssumption`.

`IdentityProofs` proves, for any servers, subjects, claimed names and requests, and
the two roles of the model:

| theorem | says |
|---|---|
| `IdentityInvariance` | `Spec => []IInv`, the inductive invariant |
| `IdentityTypes` | `Spec => []TypeOK` |
| `SomebodyAdministrates` | `Spec => []AdministratorsRemain` |
| `ServersStart` | `Spec => []RefusalNeedsDemotion` |
| `GivenRolesAreKept` | `Spec => []GivenRolesAreHeld` |

What makes them inductive: the guards on the actor's own account as they were
when the request began (`OwnAccountsAreGuarded`), so that an actor who still has
the role when he writes is an administrator afterwards; that one server commits
the bootstrap user before anything else exists (`BootstrapIsFirst`); that his
role is granted by hand until administrators take it (`BootstrapUserRules`); and,
for the logins, that what a login is about to delete is still mapped
(`LoginsDeleteMappedRoles`), which needs that the rows deleted by open
transactions are theirs alone (`DeletedRowsAreDisjoint`). `GivenRolesAreKept`
adds that the rows of what administrators gave stay granted
(`GivenRolesAreGranted`): a login deletes mapped rows only, and a role whose row
it overwrites is no longer in `given`. Assumption:
`IdentityAssumption` (no subject is the bootstrap user, the two roles differ, and
the hash of a subject that makes a taken name unique is nobody's claimed name).

`ComponentsProofs` proves about the five small modules of `MCComponents`:

| theorem | says |
|---|---|
| `KeysInvariance` | `KeysSpec => []KeysIInv` |
| `ReplacementsAreAlwaysOwn` | `KeysSpec => []ReplacementsAreOwn` |
| `PromisesAreKept` | `KeysSpec => []RotationsKeepPromises` |
| `DeadKeysStayDead` | `KeysSpec => KeysStayDead` |
| `SettingsInvariance` | `SettingsSpec => []SettingsIInv` |
| `MaskedSecretsSurvive` | `SettingsSpec => SecretsSurvive` |
| `ThrottleInvariance` | `ThrottleSpec => []ThrottleIInv` |
| `FailuresAreFew` | `ThrottleSpec => []FewFailures` |
| `AIInvariance` | `AISpec => []AIIInv` |
| `TokensAreBounded` | `AISpec => []DailyTokensBounded` |
| `RateInvariance` | `RateSpec => []RateIInv` |
| `CachedPoliciesAreCurrent` | `RateSpec => []PolicyIsCurrent` |
| `WindowsAreFew` | `RateSpec => []FewWindowsPerMinute` |
| `ComponentsTypes` | `Spec => []TypeOK`, of the composition with `Reading` |

* Keys are numbered as they are made, promises are about keys that exist, and a
  rotation under way names its replacement before it shortens the old key.
* What a save has read and nobody has changed since is what is stored
  (`ReadsAreCurrent`).
* The bound on failures counts attempts that are still being compared as failures
  already (`AttemptsAreBounded`). To add one, it must be known that an open entry
  has counted all failures of a quarter of an hour (`FailuresAreCounted`), and
  for the moment when it forgets them, that none is younger than its age
  (`AgesAreTrue`). The bound on tokens is of the same kind: what is recorded and
  what the admitted questions may cost at most (`TokensAreCommitted`).
* A window is judged by ages alone, so the proof gives the requests of a minute
  back to their windows: there is a split of the counts into the present window,
  the one before and the one before that, with ages that fit (`IsSplit`). Nobody
  keeps this split; `WindowIInv` says that one exists, and each step constructs
  the next from it. `PolicyIInv` says that nobody uses the cached policy while
  it is read, and that what was read is the row unless an invalidation is due.

Assumptions are those of the modules: limits, lives, overlaps and answers are
positive or natural numbers from finite sets, a mask is no secret, and requests
are finitely many where they are counted.

`RequestsProofs` proves about the two modules of `MCRequests`:

| theorem | says |
|---|---|
| `PoolInvariance` | `PoolSpec => []PoolIInv` |
| `NotesTypes` | `NotesSpec => []NotesTypeOK` |
| `RequestsTypes` | `Spec => []TypeOK`, of the composition |
| `ReadIsNotAnnounced` | `Spec => ReadStaysRead` |

`PoolIInv` says who holds what: whoever reads the policy has the mutex, so there
is one of them; a search that shows its results, an export that reads or
finishes and a restore before its commit have a connection for themselves, and whoever has one is in such a
phase or writes its audit row. So no connection is lost, and none is given back
twice. `ReadIsNotAnnounced` needs the types only: a notification that was read
stays, because evaluations insert and never update.

All invariants, action properties and refinements of the passing runs are stated
by a theorem. Only model-checked is liveness (`EveryRequestEnds` of plans and
imports, `RequestsEnd`, `MatchesAreAnnounced`): fairness speaks of ENABLED, which
the prover does not handle. The five violations are counterexamples found by
TLC.

## 5. Not modelled

Formatting, JSON, HTTP headers, paging and limits of lists, logging, wording and
metrics. Cryptography (`secure/vault.go`, password hashes). The OpenID protocol
and AI providers, which are other programs; masking and the check for injected
prompts, which are about text. Numbers in KPIs and projects, and with them the
arithmetic of scenarios and the conditions of notification rules. Imports of
strategies and projects as such: their path is that of KPIs without the unique
index. The rows of `backup_jobs`, the audit rows of components other than plans,
and the validation of damaged or foreign archives, which is checksums and a
signature. The triggers that refuse UPDATE and DELETE on `audit_logs`: no handler
issues them. The rows of `sessions`: a login inserts one, logout deletes it, and
all conditions are in the one query of every request. `personalDashboard` and the
lists of the user's own notifications and keys, whose only filter is the user. The
OpenAPI document and the web client: all rules of the client are enforced by
handlers.

## 6. Plan

What is left, in this order.

1. The rows of `backup_jobs`, and how they end when the process stops or an
   export cannot begin its transaction; an abstract archive (the database of one
   moment) that undisturbed exports implement.
2. A client that repeats a decision whose answer was lost, as far as a document
   says what should become of it.
3. Safety facts under the liveness results, which can be proved although these
   cannot: that a request which never ends waits without a deadline while exports
   wait for each other (`Stuck`), and that a ring of imports contains a request that
   `AbortDeadlock` can take.
