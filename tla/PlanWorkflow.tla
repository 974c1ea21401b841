---------------------------- MODULE PlanWorkflow ----------------------------
(***************************************************************************)
(* Plans, the workflow policy and the reviews of submitted plans, as the   *)
(* HTTP handlers createPlan, submitPlan, actWorkflowTask and putWorkflow   *)
(* run them concurrently on one PostgreSQL database.                       *)
(*                                                                         *)
(* A request runs in a slot r of Request.  The phases of a request are the *)
(* points of its handler where another request can get in between: before  *)
(* each row lock it waits for, between a read and the write that relies on *)
(* it, and between the commit and the audit row, which is written outside  *)
(* the transaction.  A row lock is not a variable: who holds it follows    *)
(* from the phases.  What a transaction wrote becomes visible in the one   *)
(* step that commits it.                                                   *)
(***************************************************************************)
EXTENDS Access, Sequences, FiniteSets

CONSTANTS User,          \* the users that call the handlers
          Plan,          \* the ids plans may get
          Instance,      \* the ids workflow instances may get
          Request,       \* the slots of concurrent requests
          Definition,    \* the definitions an administrator may send
          Audited,       \* bound of the model: the events whose rows it keeps
          PrincipalOf,   \* PrincipalOf[u]: roles and permissions of user u
          ResourceOf     \* ResourceOf[p]: owner, organization, classification

Actions == {"approve", "reject"}

Step == [type : StepTypes, role : {None} \cup STRING]

\* The numbers current_step has when a task can be acted on.
StepNumbers == UNION {0 .. Len(d.steps) - 1 : d \in Definition}

\* What a reviewer records about a step: the history entry of the instance.
Entry == [step : StepNumbers, type : StepTypes, action : Actions, actor : User]

Events == {"create", "submit", "approve", "reject", "configure"}

Row == [event : Events, target : Plan \cup {None}]

\* The definition the migrations insert: disabled, without a step.
SeedDefinition == [enabled |-> FALSE, steps |-> <<>>]

ASSUME DefinitionAssumption ==
    /\ Definition \subseteq [enabled : BOOLEAN, steps : Seq(Step)]
    /\ SeedDefinition \in Definition

ASSUME NoneAssumption == None \notin Plan

Phases == {"idle", "submit_plan", "submit_policy", "submit_write",
           "act_instance", "act_definition", "act_plan", "configure", "audit"}

VARIABLES
    planStatus,   \* planStatus[p]: the status of plan p, "absent" before INSERT
    definition,   \* the workflow_definitions row of resource type plan
    instPlan,     \* instPlan[i]: the resource_id of workflow instance i
    instStatus,   \* instStatus[i]: its status, "absent" before INSERT
    instStep,     \* instStep[i]: its current_step
    history,      \* history[i]: its history
    inForce,      \* history variable: the step lists in force when submitPlan
                  \* read the policy for i, when it inserted i, and while i
                  \* was pending
    auditRows,    \* the rows of audit_logs, without repetitions
    req           \* req[r]: the request in slot r

instVars == <<instPlan, instStatus, instStep, history, inForce>>
vars == <<planStatus, definition, instVars, auditRows, req>>

Call == [phase : Phases, user : User \cup {None}, plan : Plan \cup {None},
         instance : Instance \cup {None}, action : Actions \cup {None},
         enabled : BOOLEAN, change : Definition, row : Row]

NoRow == [event |-> "create", target |-> None]

Idle == [phase |-> "idle", user |-> None, plan |-> None, instance |-> None,
         action |-> None, enabled |-> FALSE, change |-> SeedDefinition,
         row |-> NoRow]

PlanStatuses == {"absent", "draft", "in_review", "changes_requested", "confirmed"}

InstanceStatuses == {"absent", "pending", "approved", "rejected"}

TypeOK ==
    /\ planStatus \in [Plan -> PlanStatuses]
    /\ definition \in Definition
    /\ instPlan \in [Instance -> Plan \cup {None}]
    /\ instStatus \in [Instance -> InstanceStatuses]
    /\ instStep \in [Instance -> Nat]
    /\ history \in [Instance -> Seq(Entry)]
    /\ inForce \in [Instance -> SUBSET Seq(Step)]
    /\ auditRows \subseteq Row
    /\ req \in [Request -> Call]

Init ==
    /\ planStatus = [p \in Plan |-> "absent"]
    /\ definition = SeedDefinition
    /\ instPlan = [i \in Instance |-> None]
    /\ instStatus = [i \in Instance |-> "absent"]
    /\ instStep = [i \in Instance |-> 0]
    /\ history = [i \in Instance |-> <<>>]
    /\ inForce = [i \in Instance |-> {}]
    /\ auditRows = {}
    /\ req = [r \in Request |-> Idle]

-----------------------------------------------------------------------------
(* Row locks, held from the statement that takes them to the end of the    *)
(* transaction.                                                            *)

\* SELECT ... FROM plans ... FOR UPDATE in submitPlan.
HoldsPlan(r, p) ==
    req[r].phase \in {"submit_policy", "submit_write"} /\ req[r].plan = p

\* The joined SELECT ... FOR UPDATE of actWorkflowTask locks the instance
\* first, then its definition, and the plan last.
HoldsInstance(r, i) ==
    req[r].phase \in {"act_definition", "act_plan"} /\ req[r].instance = i

HoldsDefinition(r) == req[r].phase = "act_plan"

PlanFree(p) == \A q \in Request : ~HoldsPlan(q, p)

InstanceFree(i) == \A q \in Request : ~HoldsInstance(q, i)

\* Both the upsert of putWorkflow and the foreign key check of a new instance
\* wait for FOR UPDATE on the definition; they do not wait for each other.
DefinitionFree == \A q \in Request : ~HoldsDefinition(q)

\* Request r cannot go on before request q ends its transaction.
WaitsFor(r, q) ==
    \/ req[r].phase = "submit_plan" /\ HoldsPlan(q, req[r].plan)
    \/ /\ req[r].phase = "submit_write" /\ req[r].enabled
       /\ HoldsDefinition(q)
    \/ req[r].phase = "act_instance" /\ HoldsInstance(q, req[r].instance)
    \/ req[r].phase = "act_definition" /\ HoldsDefinition(q)
    \/ req[r].phase = "act_plan" /\ HoldsPlan(q, instPlan[req[r].instance])
    \/ req[r].phase = "configure" /\ HoldsDefinition(q)

-----------------------------------------------------------------------------
(* Ends of a request *)

\* A refusal, a rollback, or the answer: the slot is free for another request.
Finish(r) == req' = [req EXCEPT ![r] = Idle]

\* The transaction is committed; the audit row is still to be written.
ThenAudit(r, event, target) ==
    req' = [req EXCEPT ![r] =
        [Idle EXCEPT !.phase = "audit",
                     !.row = [event |-> event, target |-> target]]]

WriteAudit(r) ==
    /\ req[r].phase = "audit"
    /\ auditRows' = auditRows \cup {row \in {req[r].row} : row.event \in Audited}
    /\ Finish(r)
    /\ UNCHANGED <<planStatus, definition, instVars>>

\* The client disconnects, requestTimeout expires, a statement fails or the
\* process stops: an open transaction is rolled back, and an audit row not
\* written by then never is.
Cancel(r) ==
    /\ req[r].phase # "idle"
    /\ Finish(r)
    /\ UNCHANGED <<planStatus, definition, instVars, auditRows>>

\* PostgreSQL ends one of two transactions that wait for each other.
AbortDeadlock(r) ==
    /\ \E q \in Request : WaitsFor(r, q) /\ WaitsFor(q, r)
    /\ Finish(r)
    /\ UNCHANGED <<planStatus, definition, instVars, auditRows>>

-----------------------------------------------------------------------------
(* createPlan: one INSERT. *)

CreatePlan(r, u, p) ==
    /\ req[r].phase = "idle"
    /\ planStatus[p] = "absent"
    /\ MayCreatePlan(PrincipalOf[u], ResourceOf[p])
    /\ planStatus' = [planStatus EXCEPT ![p] = "draft"]
    /\ ThenAudit(r, "create", p)
    /\ UNCHANGED <<definition, instVars, auditRows>>

-----------------------------------------------------------------------------
(* submitPlan *)

Unused == {i \in Instance : instStatus[i] = "absent"}

Submitting == {r \in Request :
                 req[r].phase \in {"submit_plan", "submit_policy", "submit_write"}}

\* Bound of the model: an id is left for the instance of every submission.
InstanceLeft == Cardinality(Submitting) < Cardinality(Unused)

StartSubmit(r, u, p) ==
    /\ req[r].phase = "idle"
    /\ InstanceLeft
    /\ req' = [req EXCEPT ![r] =
           [Idle EXCEPT !.phase = "submit_plan", !.user = u, !.plan = p]]
    /\ UNCHANGED <<planStatus, definition, instVars, auditRows>>

\* (mutant) a plan that is in review is not refused
SubmittableInReview(p) ==
    planStatus[p] \in {"draft", "changes_requested", "in_review"}

\* (mutant) a confirmed plan is not refused
SubmittableAgain(p) ==
    planStatus[p] \in {"draft", "changes_requested", "confirmed"}

Submittable(p) == planStatus[p] \in {"draft", "changes_requested"}

SubmitAccepted(r) ==
    LET p == req[r].plan IN
    /\ planStatus[p] # "absent"
    /\ MaySubmitPlan(PrincipalOf[req[r].user], ResourceOf[p])
    /\ Submittable(p)

\* 404, 403 or 409: the transaction is rolled back.
SubmitRefused(r) ==
    /\ req[r].phase = "submit_plan"
    /\ PlanFree(req[r].plan)
    /\ ~SubmitAccepted(r)
    /\ Finish(r)
    /\ UNCHANGED <<planStatus, definition, instVars, auditRows>>

\* (mutant) the SELECT without FOR UPDATE
SubmitLockPlanWithoutWaiting(r) ==
    /\ req[r].phase = "submit_plan"
    /\ SubmitAccepted(r)
    /\ req' = [req EXCEPT ![r].phase = "submit_policy"]
    /\ UNCHANGED <<planStatus, definition, instVars, auditRows>>

SubmitLockPlan(r) ==
    /\ req[r].phase = "submit_plan"
    /\ PlanFree(req[r].plan)
    /\ SubmitAccepted(r)
    /\ req' = [req EXCEPT ![r].phase = "submit_policy"]
    /\ UNCHANGED <<planStatus, definition, instVars, auditRows>>

\* A plain SELECT: the policy may change before the next step.  The handler
\* keeps whether it is enabled, the history variable inForce the whole of it.
SubmitReadPolicy(r) ==
    /\ req[r].phase = "submit_policy"
    /\ req' = [req EXCEPT ![r].phase = "submit_write",
                          ![r].enabled = definition.enabled,
                          ![r].change = definition]
    /\ UNCHANGED <<planStatus, definition, instVars, auditRows>>

\* INSERT of the instance, UPDATE of the plan, COMMIT.  The foreign key of
\* the instance shares the definition row.
SubmitForReview(r) ==
    LET p == req[r].plan IN
    /\ req[r].phase = "submit_write"
    /\ req[r].enabled
    /\ DefinitionFree
    /\ \E i \in Unused :
         /\ instPlan' = [instPlan EXCEPT ![i] = p]
         /\ instStatus' = [instStatus EXCEPT ![i] = "pending"]
         /\ inForce' = [inForce EXCEPT ![i] = {req[r].change.steps, definition.steps}]
    /\ planStatus' = [planStatus EXCEPT ![p] = "in_review"]
    /\ ThenAudit(r, "submit", p)
    /\ UNCHANGED <<definition, instStep, history, auditRows>>

\* The policy was disabled when it was read: UPDATE of the plan, COMMIT.
SubmitDirectly(r) ==
    LET p == req[r].plan IN
    /\ req[r].phase = "submit_write"
    /\ ~req[r].enabled
    /\ planStatus' = [planStatus EXCEPT ![p] = "confirmed"]
    /\ ThenAudit(r, "submit", p)
    /\ UNCHANGED <<definition, instVars, auditRows>>

-----------------------------------------------------------------------------
(* actWorkflowTask *)

StartAct(r, u, i, action) ==
    /\ req[r].phase = "idle"
    /\ instStatus[i] # "absent"
    /\ req' = [req EXCEPT ![r] =
           [Idle EXCEPT !.phase = "act_instance", !.user = u,
                        !.instance = i, !.action = action]]
    /\ UNCHANGED <<planStatus, definition, instVars, auditRows>>

ActLockInstance(r) ==
    /\ req[r].phase = "act_instance"
    /\ InstanceFree(req[r].instance)
    /\ req' = [req EXCEPT ![r].phase = "act_definition"]
    /\ UNCHANGED <<planStatus, definition, instVars, auditRows>>

ActLockDefinition(r) ==
    /\ req[r].phase = "act_definition"
    /\ DefinitionFree
    /\ req' = [req EXCEPT ![r].phase = "act_plan"]
    /\ UNCHANGED <<planStatus, definition, instVars, auditRows>>

\* With the plan locked too, the handler decides on the current versions of
\* the three rows, which nobody can change before it commits.
HoldsAllRows(r) ==
    /\ req[r].phase = "act_plan"
    /\ PlanFree(instPlan[req[r].instance])

StepInRange(i) == instStep[i] < Len(definition.steps)

CurrentStep(i) == definition.steps[instStep[i] + 1]

\* (mutant) the status of the task is not looked at
ActAcceptedWhateverStatus(r) ==
    LET i == req[r].instance IN
    /\ StepInRange(i)
    /\ CanActWorkflow(PrincipalOf[req[r].user], CurrentStep(i),
                      ResourceOf[instPlan[i]].organization)

ActAccepted(r) ==
    LET i == req[r].instance IN
    /\ instStatus[i] = "pending"
    /\ StepInRange(i)
    /\ CanActWorkflow(PrincipalOf[req[r].user], CurrentStep(i),
                      ResourceOf[instPlan[i]].organization)

\* (mutant) the audit row is written before the decision is checked
ActRefusedAudited(r) ==
    /\ HoldsAllRows(r)
    /\ ~ActAccepted(r)
    /\ ThenAudit(r, req[r].action, instPlan[req[r].instance])
    /\ UNCHANGED <<planStatus, definition, instVars, auditRows>>

\* (mutant) a refusal leaves the transaction open
ActRefusedWithoutRollback(r) ==
    /\ HoldsAllRows(r)
    /\ ~ActAccepted(r)
    /\ UNCHANGED vars

\* 409 workflow_task_closed, 409 workflow_definition_invalid, or 403.
ActRefused(r) ==
    /\ HoldsAllRows(r)
    /\ ~ActAccepted(r)
    /\ Finish(r)
    /\ UNCHANGED <<planStatus, definition, instVars, auditRows>>

Record(r) ==
    LET i == req[r].instance IN
    history' = [history EXCEPT ![i] =
        Append(@, [step |-> instStep[i], type |-> CurrentStep(i).type,
                   action |-> req[r].action, actor |-> req[r].user])]

\* (mutant) the step before the last closes the review
LastStepEarly(i) == instStep[i] + 2 >= Len(definition.steps)

LastStep(i) == instStep[i] + 1 >= Len(definition.steps)

\* (mutant) the plan is not updated
CloseInstanceOnly(r, instOutcome, planOutcome) ==
    /\ instStatus' = [instStatus EXCEPT ![req[r].instance] = instOutcome]
    /\ UNCHANGED planStatus

\* (mutant) the two statuses are swapped
CloseReviewSwapped(r, instOutcome, planOutcome) ==
    LET i == req[r].instance IN
    /\ instStatus' = [instStatus EXCEPT ![i] = planOutcome]
    /\ planStatus' = [planStatus EXCEPT ![instPlan[i]] = instOutcome]

CloseReview(r, instOutcome, planOutcome) ==
    LET i == req[r].instance IN
    /\ instStatus' = [instStatus EXCEPT ![i] = instOutcome]
    /\ planStatus' = [planStatus EXCEPT ![instPlan[i]] = planOutcome]

ActReject(r) ==
    /\ HoldsAllRows(r)
    /\ ActAccepted(r)
    /\ req[r].action = "reject"
    /\ Record(r)
    /\ CloseReview(r, "rejected", "changes_requested")
    /\ ThenAudit(r, "reject", instPlan[req[r].instance])
    /\ UNCHANGED <<definition, instPlan, instStep, inForce, auditRows>>

ActApproveLast(r) ==
    /\ HoldsAllRows(r)
    /\ ActAccepted(r)
    /\ req[r].action = "approve"
    /\ LastStep(req[r].instance)
    /\ Record(r)
    /\ CloseReview(r, "approved", "confirmed")
    /\ ThenAudit(r, "approve", instPlan[req[r].instance])
    /\ UNCHANGED <<definition, instPlan, instStep, inForce, auditRows>>

ActApproveStep(r) ==
    LET i == req[r].instance IN
    /\ HoldsAllRows(r)
    /\ ActAccepted(r)
    /\ req[r].action = "approve"
    /\ ~LastStep(i)
    /\ Record(r)
    /\ instStep' = [instStep EXCEPT ![i] = @ + 1]
    /\ planStatus' = [planStatus EXCEPT ![instPlan[i]] = "in_review"]
    /\ ThenAudit(r, "approve", instPlan[i])
    /\ UNCHANGED <<definition, instPlan, instStatus, inForce, auditRows>>

-----------------------------------------------------------------------------
(* putWorkflow: one upsert of the definition, in place. *)

ValidDefinition(d) == d.enabled => d.steps # <<>>

StartConfigure(r, d) ==
    /\ req[r].phase = "idle"
    /\ ValidDefinition(d)
    /\ req' = [req EXCEPT ![r] =
           [Idle EXCEPT !.phase = "configure", !.change = d]]
    /\ UNCHANGED <<planStatus, definition, instVars, auditRows>>

Configure(r) ==
    /\ req[r].phase = "configure"
    /\ DefinitionFree
    /\ definition' = req[r].change
    /\ inForce' = [i \in Instance |->
           IF instStatus[i] = "pending" THEN inForce[i] \cup {req[r].change.steps}
                                        ELSE inForce[i]]
    /\ ThenAudit(r, "configure", None)
    /\ UNCHANGED <<planStatus, instPlan, instStatus, instStep, history, auditRows>>

-----------------------------------------------------------------------------

\* The steps that the handler of an accepted request takes.
Handle(r) ==
    \/ SubmitRefused(r)
    \/ SubmitLockPlan(r)
    \/ SubmitReadPolicy(r)
    \/ SubmitForReview(r)
    \/ SubmitDirectly(r)
    \/ ActLockInstance(r)
    \/ ActLockDefinition(r)
    \/ ActRefused(r)
    \/ ActReject(r)
    \/ ActApproveStep(r)
    \/ ActApproveLast(r)
    \/ Configure(r)
    \/ WriteAudit(r)

Arrive(r) ==
    \/ \E u \in User, p \in Plan : CreatePlan(r, u, p) \/ StartSubmit(r, u, p)
    \/ \E u \in User, i \in Instance, action \in Actions : StartAct(r, u, i, action)
    \/ \E d \in Definition : StartConfigure(r, d)

Next == \E r \in Request : Arrive(r) \/ Handle(r) \/ Cancel(r) \/ AbortDeadlock(r)

Spec == Init /\ [][Next]_vars

\* The server runs the requests it has accepted, PostgreSQL grants row locks
\* in the order they were asked for and looks for deadlocks.  Nobody has to
\* send a request, and no request has to be cancelled.
Fairness == \A r \in Request : SF_vars(Handle(r)) /\ WF_vars(AbortDeadlock(r))

FairSpec == Spec /\ Fairness

-----------------------------------------------------------------------------
(* Properties *)

\* A plan is in review exactly while one of its instances is pending, and it
\* never has two: concurrent submissions of a plan, late decisions and edits
\* of the policy cannot open a second review or leave a plan without one
\* (submitPlan and actWorkflowTask change the two tables in one transaction).
OneOpenReview ==
    \A p \in Plan :
        LET open == {i \in Instance : instPlan[i] = p /\ instStatus[i] = "pending"}
        IN  /\ planStatus[p] = "in_review" <=> open # {}
            /\ \A i, j \in open : i = j

\* The history of an instance tells its status: one entry for each step from
\* the first to the current one, all of them approvals but the last one of a
\* rejected instance (two reviewers can decide on a task at the same time).
HistoryTellsStatus ==
    \A i \in Instance :
        LET h == history[i] IN
        /\ \A k \in 1..Len(h) : h[k].step = k - 1
        /\ \A k \in 1..Len(h) :
              h[k].action = "reject" <=> k = Len(h) /\ instStatus[i] = "rejected"
        /\ Len(h) = IF instStatus[i] \in {"approved", "rejected"}
                    THEN instStep[i] + 1
                    ELSE instStep[i]

\* The decisions recorded in h are decisions on the first steps of steps.
Follows(h, steps) ==
    /\ Len(h) <= Len(steps)
    /\ \A k \in 1..Len(h) : h[k].type = steps[k].type

\* A review goes through the configured steps in their order, is approved only
\* after all of them, and always has a next step to act on, unless an
\* administrator replaces the steps between the moment submitPlan reads the
\* policy and the end of the review.  The exception begins before the review
\* does: a policy that is disabled or emptied between that query and the INSERT
\* of the instance opens a review without any step, which nobody can finish.
UndisturbedReviewIsComplete ==
    \A i \in Instance : \A s \in inForce[i] :
        inForce[i] = {s} =>
            /\ Follows(history[i], s)
            /\ instStatus[i] = "approved" => Len(history[i]) = Len(s)
            /\ instStatus[i] = "pending" => instStep[i] < Len(s)

\* A reviewer who acts on a task that is still open is never the victim of a
\* deadlock: only a decision on a task that was closed before, whose plan is
\* just being submitted again, waits for a submission that waits for it.
DeadlockNeedsClosedTask ==
    \A r, q \in Request :
        (req[r].phase = "act_plan" /\ WaitsFor(r, q) /\ WaitsFor(q, r)) =>
            instStatus[req[r].instance] # "pending"

\* No audit row reports what was rolled back: the rows are written after the
\* commit, by the request that committed.
AuditRowsAreTrue ==
    \A row \in auditRows \cup {req[r].row : r \in {q \in Request : req[q].phase = "audit"}} :
        CASE row.event = "create" -> planStatus[row.target] # "absent"
          [] row.event = "submit" ->
               planStatus[row.target] \in {"in_review", "changes_requested", "confirmed"}
          [] row.event = "approve" ->
               \E i \in Instance : /\ instPlan[i] = row.target
                                   /\ history[i] # <<>>
                                   /\ history[i][1].action = "approve"
          [] row.event = "reject" ->
               \E i \in Instance : /\ instPlan[i] = row.target
                                   /\ instStatus[i] = "rejected"
          [] row.event = "configure" -> TRUE

KeepsDecisions ==
    /\ \A p \in Plan :
          planStatus[p] = "confirmed" => planStatus'[p] = "confirmed"
    /\ \A i \in Instance :
          instStatus[i] \in {"approved", "rejected"} =>
              /\ instStatus'[i] = instStatus[i]
              /\ instStep'[i] = instStep[i]
              /\ history'[i] = history[i]

\* What is decided stays decided: a confirmed plan keeps its status, and a
\* closed instance its status, step and history, whatever request was on its
\* way when it was closed.
DecisionsAreFinal == [][KeepsDecisions]_vars

\* Every request gets its answer: no chain of row locks blocks for ever.
EveryRequestEnds ==
    \A r \in Request : req[r].phase # "idle" ~> req[r].phase = "idle"

\* A plan's open review is what the pending instance recorded so far.
OpenReviewOf(p) ==
    LET open == {i \in Instance : instPlan[i] = p /\ instStatus[i] = "pending"}
    IN  IF open = {} THEN <<>> ELSE history[CHOOSE i \in open : TRUE]

OpenReviewOfPlans == [p \in Plan |-> OpenReviewOf(p)]

Lifecycle == INSTANCE PlanLifecycle
    WITH Decision <- Entry, status <- planStatus, review <- OpenReviewOfPlans

\* Every behavior of the handlers is one of the promised plan lifecycle.
ImplementsLifecycle == Lifecycle!Spec

-----------------------------------------------------------------------------
(* What the documentation says and concurrent requests break. *)

\* docs/architecture.md: "when enabled, configured review/approval/rejection
\* steps apply": an approved review has been through all the steps of one of
\* the configurations in force from its submission to its end.
ConfiguredStepsApply ==
    \A i \in Instance : instStatus[i] = "approved" =>
        \E s \in inForce[i] : Follows(history[i], s) /\ Len(history[i]) = Len(s)

\* docs/architecture.md: "Configuration changes are audited": once no request
\* is under way, a definition that is not the seed has left an audit row.
ConfigurationChangesAudited ==
    (/\ \A r \in Request : req[r].phase = "idle"
     /\ definition # SeedDefinition) =>
            [event |-> "configure", target |-> None] \in auditRows

=============================================================================
