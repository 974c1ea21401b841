----------------------------- MODULE ImportJobs -----------------------------
(***************************************************************************)
(* Excel imports of KPIs: previewImport, commitImport, rollbackImport and  *)
(* createKPI, running concurrently on one PostgreSQL database.             *)
(*                                                                         *)
(* An import of strategies or of projects takes the same path without the  *)
(* unique code.  A commit inserts one row after the other in a             *)
(* transaction; rows, locks and deletions that are not committed are not   *)
(* in the tables but follow from the phase and the field done of their     *)
(* request.  The audit row that each handler writes at its end is the      *)
(* subject of PlanWorkflow and left out here.                              *)
(***************************************************************************)
EXTENDS Access, Sequences, FiniteSets

CONSTANTS User,          \* the users that call the handlers
          Code,          \* the codes of KPIs
          Lower,         \* Lower[c]: c in lower case
          Job,           \* the ids import jobs may get
          Manual,        \* the ids of KPIs created by createKPI
          Request,       \* the slots of concurrent requests
          File,          \* the workbooks that users may send
          MaxRows,       \* maxImportRows
          PrincipalOf    \* PrincipalOf[u]: roles and permissions of user u

\* A row of a workbook: its code, None if the cell is empty, and its class.  A
\* workbook is mapped if it has a column for the code, overlong if a cell that
\* may be empty is too long to be kept.
FileRow == [code : Code \cup {None}, class : STRING]

ASSUME ImportAssumption ==
    /\ File \subseteq [mapped : BOOLEAN, overlong : BOOLEAN, rows : Seq(FileRow)]
    /\ Lower \in [Code -> Code]
    /\ MaxRows \in Nat
    /\ None \notin Code

Id == (Job \X (1 .. MaxRows)) \cup Manual

ASSUME IdAssumption == None \notin Id /\ Manual \cap (Job \X Nat) = {}

Kpi == [id : Id, code : Code, parent : Id \cup {None}]

\* What preview_data keeps of a row.
Item == [code : Code, class : DOMAIN Level]

JobStatuses == {"absent", "preview", "imported", "rolled_back"}

Phases == {"idle", "commit_lock", "commit_rows", "rollback_lock",
           "rollback_rows", "create_code", "create_parent"}

VARIABLES
    jobStatus,     \* jobStatus[j]: the status of import job j
    previewData,   \* previewData[j]: its preview_data
    validRows,     \* validRows[j]: its valid_rows
    invalidRows,   \* invalidRows[j]: its invalid_rows
    kpis,          \* the rows of kpis
    ledger,        \* the rows of import_job_records: pairs of a job and an id
    req            \* req[r]: the request in slot r

jobVars == <<jobStatus, previewData, validRows, invalidRows>>
vars == <<jobVars, kpis, ledger, req>>

NoKpi == [id |-> None, code |-> None, parent |-> None]

\* done: the ids this transaction has inserted or deleted so far.
Call == [phase : Phases, user : User \cup {None}, job : Job \cup {None},
         done : SUBSET Id, kpi : Kpi \cup {NoKpi}]

Idle == [phase |-> "idle", user |-> None, job |-> None, done |-> {},
         kpi |-> NoKpi]

TypeOK ==
    /\ jobStatus \in [Job -> JobStatuses]
    /\ previewData \in [Job -> Seq(Item)]
    /\ validRows \in [Job -> Nat]
    /\ invalidRows \in [Job -> Nat]
    /\ kpis \subseteq Kpi
    /\ ledger \subseteq Job \X Id
    /\ req \in [Request -> Call]

Init ==
    /\ jobStatus = [j \in Job |-> "absent"]
    /\ previewData = [j \in Job |-> <<>>]
    /\ validRows = [j \in Job |-> 0]
    /\ invalidRows = [j \in Job |-> 0]
    /\ kpis = {}
    /\ ledger = {}
    /\ req = [r \in Request |-> Idle]

-----------------------------------------------------------------------------
(* previewImport: reads the workbook, stores one job. *)

MayImport(u, class) ==
    Can(PrincipalOf[u], AllOf("kpi"),
        [owner |-> None, organization |-> None, classification |-> class])

\* The reader stops after maxImportRows rows.
TotalRows(f) == IF Len(f.rows) < MaxRows THEN Len(f.rows) ELSE MaxRows

\* Without a column for the code every row lacks one.
CodeAt(f, k) == IF f.mapped THEN f.rows[k].code ELSE None

DuplicateCode(f, k) ==
    \E l \in 1 .. (k - 1) :
        CodeAt(f, l) # None /\ Lower[CodeAt(f, l)] = Lower[CodeAt(f, k)]

RowAccepted(f, u, k) ==
    /\ CodeAt(f, k) # None
    /\ f.rows[k].class \in DOMAIN Level
    /\ MayImport(u, f.rows[k].class)
    /\ ~DuplicateCode(f, k)

\* (mutant) a row with errors is kept with the others
EveryItem(f, u) == [k \in 1 .. TotalRows(f) |-> f.rows[k]]

\* The n-th of some numbers in ascending order.
Nth(S, n) == CHOOSE k \in S : Cardinality({l \in S : l <= k}) = n

ValidItems(f, u) ==
    LET kept == {k \in 1 .. TotalRows(f) : RowAccepted(f, u, k)} IN
    [n \in 1 .. Cardinality(kept) |-> f.rows[Nth(kept, n)]]

\* Errors that belong to no row count as one invalid row.
InvalidCount(f, u) ==
    LET refused == TotalRows(f) - Len(ValidItems(f, u)) IN
    IF refused = 0 /\ (~f.mapped \/ f.overlong \/ Len(f.rows) > MaxRows)
    THEN 1 ELSE refused

\* (mutant) the errors are shown to the user, but not counted
PreviewWithoutCount(r, u, j, f) ==
    /\ req[r].phase = "idle"
    /\ jobStatus[j] = "absent"
    /\ jobStatus' = [jobStatus EXCEPT ![j] = "preview"]
    /\ previewData' = [previewData EXCEPT ![j] = ValidItems(f, u)]
    /\ validRows' = [validRows EXCEPT ![j] = TotalRows(f)]
    /\ UNCHANGED <<invalidRows, kpis, ledger, req>>

Preview(r, u, j, f) ==
    /\ req[r].phase = "idle"
    /\ jobStatus[j] = "absent"
    /\ jobStatus' = [jobStatus EXCEPT ![j] = "preview"]
    /\ previewData' = [previewData EXCEPT ![j] = ValidItems(f, u)]
    /\ validRows' = [validRows EXCEPT ![j] = Len(ValidItems(f, u))]
    /\ invalidRows' = [invalidRows EXCEPT ![j] = InvalidCount(f, u)]
    /\ UNCHANGED <<kpis, ledger, req>>

-----------------------------------------------------------------------------
(* What open transactions hold. *)

\* SELECT ... FROM import_jobs ... FOR UPDATE.
HoldsJob(r, j) ==
    req[r].phase \in {"commit_rows", "rollback_rows"} /\ req[r].job = j

JobFree(j) == \A q \in Request : ~HoldsJob(q, j)

KpiOf(j, k) == [id |-> <<j, k>>, code |-> previewData[j][k].code, parent |-> None]

\* The KPIs that r has inserted and not committed.
Inserted(r) ==
    IF req[r].phase = "commit_rows"
    THEN {KpiOf(req[r].job, k) : k \in 1 .. Cardinality(req[r].done)}
    ELSE IF req[r].phase = "create_parent" THEN {req[r].kpi} ELSE {}

\* The KPIs that r has deleted and not committed.
Deleted(r) ==
    IF req[r].phase = "rollback_rows"
    THEN {x \in kpis : x.id \in req[r].done}
    ELSE {}

\* The unique index on the code makes an INSERT wait for the end of a
\* transaction that has inserted or deleted a row with this code.
HoldsCode(r, code) == \E x \in Inserted(r) \cup Deleted(r) : x.code = code

CodeTaken(code) == \E x \in kpis : x.code = code

\* The foreign key of a child waits for a transaction that deletes the parent.
HoldsParent(r, id) == \E x \in Deleted(r) : x.id = id

RowsLeft(r) == Cardinality(req[r].done) < Len(previewData[req[r].job])

NextItem(r) == previewData[req[r].job][Cardinality(req[r].done) + 1]

\* Request r cannot go on before request q ends its transaction.
WaitsFor(r, q) ==
    /\ r # q
    /\ \/ /\ req[r].phase \in {"commit_lock", "rollback_lock"}
          /\ HoldsJob(q, req[r].job)
       \/ /\ req[r].phase = "commit_rows"
          /\ RowsLeft(r)
          /\ MayImport(req[r].user, NextItem(r).class)
          /\ HoldsCode(q, NextItem(r).code)
       \/ req[r].phase = "create_code" /\ HoldsCode(q, req[r].kpi.code)
       \/ req[r].phase = "create_parent" /\ HoldsParent(q, req[r].kpi.parent)

Waits(r) == \E q \in Request : WaitsFor(r, q)

-----------------------------------------------------------------------------
(* Ends of a request *)

\* A refusal, a rollback, or the answer: the slot is free for another request.
Finish(r) == req' = [req EXCEPT ![r] = Idle]

Abort(r) == Finish(r) /\ UNCHANGED <<jobVars, kpis, ledger>>

\* The client disconnects, requestTimeout expires, a statement fails or the
\* process stops: the open transaction is rolled back.
Cancel(r) == req[r].phase # "idle" /\ Abort(r)

\* PostgreSQL ends one of the transactions that wait for each other in a ring.
AbortDeadlock(r) ==
    /\ \E ring \in SUBSET Request :
          /\ r \in ring
          /\ \A q \in ring : \E p \in ring : WaitsFor(q, p)
          /\ \A q \in ring : \E p \in ring : WaitsFor(p, q)
    /\ Abort(r)

-----------------------------------------------------------------------------
(* commitImport *)

StartCommit(r, u, j) ==
    /\ req[r].phase = "idle"
    /\ jobStatus[j] # "absent"
    /\ req' = [req EXCEPT ![r] = [Idle EXCEPT !.phase = "commit_lock", !.user = u,
                                              !.job = j]]
    /\ UNCHANGED <<jobVars, kpis, ledger>>

\* (mutant) the status of the job is not looked at
CommitAcceptedAgain(j) == invalidRows[j] = 0

CommitAccepted(j) == jobStatus[j] = "preview" /\ invalidRows[j] = 0

\* 409 import_not_committable or import_has_validation_errors.
CommitRefused(r) ==
    /\ req[r].phase = "commit_lock"
    /\ JobFree(req[r].job)
    /\ ~CommitAccepted(req[r].job)
    /\ Abort(r)

CommitLock(r) ==
    /\ req[r].phase = "commit_lock"
    /\ JobFree(req[r].job)
    /\ CommitAccepted(req[r].job)
    /\ req' = [req EXCEPT ![r].phase = "commit_rows"]
    /\ UNCHANGED <<jobVars, kpis, ledger>>

RowRefused(r) ==
    \/ ~MayImport(req[r].user, NextItem(r).class)
    \/ CodeTaken(NextItem(r).code)
    \/ \E x \in Inserted(r) : x.code = NextItem(r).code

\* (mutant) a row that cannot be inserted ends the import, but the rows before
\* it are committed
CommitRowKeepsRest(r) ==
    /\ req[r].phase = "commit_rows"
    /\ RowsLeft(r)
    /\ ~Waits(r)
    /\ RowRefused(r)
    /\ kpis' = kpis \cup Inserted(r)
    /\ Finish(r)
    /\ UNCHANGED <<jobVars, ledger>>

\* (mutant) the answer is written, the transaction stays open
CommitRowLeavesOpen(r) ==
    /\ req[r].phase = "commit_rows"
    /\ RowsLeft(r)
    /\ ~Waits(r)
    /\ RowRefused(r)
    /\ UNCHANGED vars

\* 403 forbidden, or 409 import_commit_failed: the unique code is taken.
CommitRowRefused(r) ==
    /\ req[r].phase = "commit_rows"
    /\ RowsLeft(r)
    /\ ~Waits(r)
    /\ RowRefused(r)
    /\ Abort(r)

CommitRow(r) ==
    LET j == req[r].job IN
    /\ req[r].phase = "commit_rows"
    /\ RowsLeft(r)
    /\ ~Waits(r)
    /\ ~RowRefused(r)
    /\ req' = [req EXCEPT ![r].done = @ \cup {<<j, Cardinality(@) + 1>>}]
    /\ UNCHANGED <<jobVars, kpis, ledger>>

\* The job becomes imported, preview_data is emptied, COMMIT.
CommitEnd(r) ==
    LET j == req[r].job IN
    /\ req[r].phase = "commit_rows"
    /\ ~RowsLeft(r)
    /\ kpis' = kpis \cup Inserted(r)
    /\ ledger' = ledger \cup ({j} \X req[r].done)
    /\ jobStatus' = [jobStatus EXCEPT ![j] = "imported"]
    /\ previewData' = [previewData EXCEPT ![j] = <<>>]
    /\ Finish(r)
    /\ UNCHANGED <<validRows, invalidRows>>

-----------------------------------------------------------------------------
(* rollbackImport *)

StartRollback(r, u, j) ==
    /\ req[r].phase = "idle"
    /\ jobStatus[j] # "absent"
    /\ req' = [req EXCEPT ![r] = [Idle EXCEPT !.phase = "rollback_lock", !.user = u,
                                              !.job = j]]
    /\ UNCHANGED <<jobVars, kpis, ledger>>

\* 409 import_not_rollbackable.
RollbackRefused(r) ==
    /\ req[r].phase = "rollback_lock"
    /\ JobFree(req[r].job)
    /\ jobStatus[req[r].job] # "imported"
    /\ Abort(r)

RollbackLock(r) ==
    /\ req[r].phase = "rollback_lock"
    /\ JobFree(req[r].job)
    /\ jobStatus[req[r].job] = "imported"
    /\ req' = [req EXCEPT ![r].phase = "rollback_rows"]
    /\ UNCHANGED <<jobVars, kpis, ledger>>

IdsLeft(r) == {id \in Id : <<req[r].job, id>> \in ledger} \ req[r].done

\* (mutant) a row that is referred to is deleted all the same
DeletableUnchecked(id) == \E x \in kpis : x.id = id

\* The DELETE finds the row and no other row refers to it.  No handler changes
\* updated_at, so the row always has the one it was imported with.
Deletable(id) ==
    /\ \E x \in kpis : x.id = id
    /\ \A x \in kpis : x.parent # id

\* 409 rollback_conflict.
RollbackRowRefused(r) ==
    /\ req[r].phase = "rollback_rows"
    /\ \E id \in IdsLeft(r) : ~Deletable(id)
    /\ Abort(r)

RollbackRow(r) ==
    /\ req[r].phase = "rollback_rows"
    /\ \E id \in IdsLeft(r) :
          /\ Deletable(id)
          /\ req' = [req EXCEPT ![r].done = @ \cup {id}]
    /\ UNCHANGED <<jobVars, kpis, ledger>>

\* The ledger of the job is deleted, the job is rolled back, COMMIT.
RollbackEnd(r) ==
    LET j == req[r].job IN
    /\ req[r].phase = "rollback_rows"
    /\ IdsLeft(r) = {}
    /\ kpis' = kpis \ Deleted(r)
    /\ ledger' = ledger \ ({j} \X Id)
    /\ jobStatus' = [jobStatus EXCEPT ![j] = "rolled_back"]
    /\ Finish(r)
    /\ UNCHANGED <<previewData, validRows, invalidRows>>

-----------------------------------------------------------------------------
(* createKPI: one INSERT, which checks the unique code first and, at its end, *)
(* that the parent exists.                                                    *)

FreshId(id) ==
    /\ \A x \in kpis : x.id # id
    /\ \A q \in Request : req[q].kpi.id # id

\* The parent is one that the user has seen in a list.
StartCreate(r, u, x) ==
    /\ req[r].phase = "idle"
    /\ FreshId(x.id)
    /\ x.parent # None => \E y \in kpis : y.id = x.parent
    /\ MayImport(u, "internal")
    /\ req' = [req EXCEPT ![r] = [Idle EXCEPT !.phase = "create_code", !.user = u,
                                              !.kpi = x]]
    /\ UNCHANGED <<jobVars, kpis, ledger>>

CreateCode(r) ==
    /\ req[r].phase = "create_code"
    /\ ~Waits(r)
    /\ ~CodeTaken(req[r].kpi.code)
    /\ req' = [req EXCEPT ![r].phase = "create_parent"]
    /\ UNCHANGED <<jobVars, kpis, ledger>>

ParentExists(x) == x.parent # None => \E y \in kpis : y.id = x.parent

CreateEnd(r) ==
    /\ req[r].phase = "create_parent"
    /\ ~Waits(r)
    /\ ParentExists(req[r].kpi)
    /\ kpis' = kpis \cup {req[r].kpi}
    /\ Finish(r)
    /\ UNCHANGED <<jobVars, ledger>>

\* 400 kpi_create_failed.
CreateRefused(r) ==
    /\ ~Waits(r)
    /\ \/ req[r].phase = "create_code" /\ CodeTaken(req[r].kpi.code)
       \/ req[r].phase = "create_parent" /\ ~ParentExists(req[r].kpi)
    /\ Abort(r)

-----------------------------------------------------------------------------

\* The steps that the handler of an accepted request takes.
Handle(r) ==
    \/ CommitRefused(r)
    \/ CommitLock(r)
    \/ CommitRowRefused(r)
    \/ CommitRow(r)
    \/ CommitEnd(r)
    \/ RollbackRefused(r)
    \/ RollbackLock(r)
    \/ RollbackRowRefused(r)
    \/ RollbackRow(r)
    \/ RollbackEnd(r)
    \/ CreateCode(r)
    \/ CreateEnd(r)
    \/ CreateRefused(r)

Arrive(r) ==
    \E u \in User :
        \/ \E j \in Job : \/ \E f \in File : Preview(r, u, j, f)
                          \/ StartCommit(r, u, j)
                          \/ StartRollback(r, u, j)
        \/ \E id \in Manual, code \in Code, parent \in {None} \cup {x.id : x \in kpis} :
              StartCreate(r, u, [id |-> id, code |-> code, parent |-> parent])

Next == \E r \in Request : Arrive(r) \/ Handle(r) \/ Cancel(r) \/ AbortDeadlock(r)

Spec == Init /\ [][Next]_vars

\* The server runs the requests it has accepted, PostgreSQL grants locks in the
\* order they were asked for and looks for deadlocks.  Nobody has to send a
\* request, and no request has to be cancelled.
Fairness == \A r \in Request : SF_vars(Handle(r)) /\ WF_vars(AbortDeadlock(r))

FairSpec == Spec /\ Fairness

-----------------------------------------------------------------------------
(* Properties *)

IdsOf(j) == {x.id : x \in {y \in kpis : y.id \in {j} \X (1 .. MaxRows)}}

\* An import is whole: an imported job has all of its rows in the tables and
\* in the ledger that rollbackImport reads, any other job has none, whatever
\* row failed and whatever request was cancelled in the middle.
ImportsAreWhole ==
    \A j \in Job :
        LET recorded == {id \in Id : <<j, id>> \in ledger} IN
        /\ IdsOf(j) = recorded
        /\ recorded = IF jobStatus[j] = "imported"
                      THEN {j} \X (1 .. validRows[j])
                      ELSE {}

\* Rolling back an import leaves no KPI whose parent is gone, not even one that
\* was being created meanwhile.
ParentsExist == \A x \in kpis : ParentExists(x)

\* Every request gets its answer: two imports with the same codes in opposite
\* orders do not block each other for ever.
EveryRequestEnds ==
    \A r \in Request : req[r].phase # "idle" ~> req[r].phase = "idle"

StatusOf(j) ==
    IF jobStatus[j] = "preview" /\ invalidRows[j] > 0 THEN "faulty" ELSE jobStatus[j]

CodesOf(j) == [k \in 1 .. Len(previewData[j]) |-> previewData[j][k].code]

Lifecycle == INSTANCE ImportLifecycle
    WITH status <- [j \in Job |-> StatusOf(j)], preview <- [j \in Job |-> CodesOf(j)]

\* Row by row as they work, the handlers import and take back jobs in one step.
ImplementsLifecycle == Lifecycle!Spec

=============================================================================
