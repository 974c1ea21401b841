------------------------- MODULE PlanWorkflowProofs -------------------------
(***************************************************************************)
(* Proofs about PlanWorkflow for any number of users, plans, instances,    *)
(* concurrent requests and definitions.                                    *)
(***************************************************************************)
EXTENDS PlanWorkflow, TLAPS

\* An idle slot is a request record.
LEMMA IdleIsCall == Idle \in Call
  BY DefinitionAssumption DEF Idle, Call, Phases, NoRow, Row, Events

\* What Finish leaves is a request record in every slot.
LEMMA FinishKeepsType ==
    ASSUME req \in [Request -> Call], NEW r \in Request, Finish(r)
    PROVE  req' \in [Request -> Call]
  BY IdleIsCall DEF Finish

\* What ThenAudit leaves is a request record in every slot.
LEMMA ThenAuditKeepsType ==
    ASSUME req \in [Request -> Call], NEW r \in Request,
           NEW e \in Events, NEW t \in Plan \cup {None}, ThenAudit(r, e, t)
    PROVE  req' \in [Request -> Call]
  <1>1. [event |-> e, target |-> t] \in Row
    BY DEF Row
  <1>2. [Idle EXCEPT !.phase = "audit", !.row = [event |-> e, target |-> t]] \in Call
    BY <1>1, IdleIsCall DEF Call, Phases
  <1>3. QED
    BY <1>2 DEF ThenAudit

\* A request that goes on to another phase stays a request record.
LEMMA PhaseKeepsType ==
    ASSUME req \in [Request -> Call], NEW r \in Request, NEW ph \in Phases,
           NEW b \in BOOLEAN, NEW d \in Definition
    PROVE  /\ [req EXCEPT ![r].phase = ph] \in [Request -> Call]
           /\ [req EXCEPT ![r].phase = ph, ![r].enabled = b, ![r].change = d]
                  \in [Request -> Call]
  <1>1. req[r] \in Call
    OBVIOUS
  <1>2. /\ [req[r] EXCEPT !.phase = ph] \in Call
        /\ [[[req[r] EXCEPT !.phase = ph] EXCEPT !.enabled = b] EXCEPT !.change = d]
               \in Call
    BY <1>1 DEF Call
  <1>3. [req EXCEPT ![r].phase = ph] \in [Request -> Call]
    BY <1>2
  <1>4. [req EXCEPT ![r].phase = ph, ![r].enabled = b, ![r].change = d] \in [Request -> Call]
    BY <1>2
  <1>5. QED
    BY <1>3, <1>4

-----------------------------------------------------------------------------
(* The types, with what the phase of a request says about its fields. *)

SubmitPhases == {"submit_plan", "submit_policy", "submit_write"}

ActPhases == {"act_instance", "act_definition", "act_plan"}

RequestsAreFilledIn ==
    \A r \in Request :
        /\ req[r].phase \in SubmitPhases => req[r].plan \in Plan /\ req[r].user \in User
        /\ req[r].phase \in ActPhases =>
              /\ req[r].instance \in Instance
              /\ req[r].user \in User
              /\ req[r].action \in Actions
              /\ instStatus[req[r].instance] # "absent"

InstancesHavePlans ==
    \A i \in Instance : instStatus[i] # "absent" => instPlan[i] \in Plan

Typed == TypeOK /\ RequestsAreFilledIn /\ InstancesHavePlans

\* The initial state is well typed.
LEMMA InitTyped == Init => Typed
  <1> SUFFICES ASSUME Init PROVE Typed
    OBVIOUS
  <1>1. TypeOK
    BY IdleIsCall, DefinitionAssumption
    DEF Init, TypeOK, PlanStatuses, InstanceStatuses
  <1>2. RequestsAreFilledIn /\ InstancesHavePlans
    BY DEF Init, Idle, RequestsAreFilledIn, InstancesHavePlans, SubmitPhases, ActPhases
  <1>3. QED
    BY <1>1, <1>2 DEF Typed

\* The steps that change no table and leave the slot of r idle.
LEMMA FinishTyped ==
    ASSUME Typed, NEW r \in Request, Finish(r),
           UNCHANGED <<planStatus, definition, instVars>>,
           auditRows' \subseteq Row
    PROVE  Typed'
  <1>1. TypeOK'
    BY FinishKeepsType DEF Typed, TypeOK, instVars
  <1>2. RequestsAreFilledIn' /\ InstancesHavePlans'
    BY DEF Finish, Idle, Typed, TypeOK, RequestsAreFilledIn, InstancesHavePlans,
           SubmitPhases, ActPhases, instVars
  <1>3. QED
    BY <1>1, <1>2 DEF Typed

\* The arrival of a request keeps the types.
LEMMA ArriveTyped ==
    ASSUME Typed, NEW r \in Request, Arrive(r)
    PROVE  Typed'
  <1> USE DEF Typed
  <1>1. ASSUME NEW u \in User, NEW p \in Plan, CreatePlan(r, u, p) PROVE Typed'
    <2>1. ThenAudit(r, "create", p)
      BY <1>1 DEF CreatePlan
    <2>2. TypeOK'
      BY <1>1, <2>1, ThenAuditKeepsType
      DEF CreatePlan, TypeOK, PlanStatuses, Events, instVars
    <2>3. RequestsAreFilledIn' /\ InstancesHavePlans'
      BY <1>1, <2>1 DEF CreatePlan, ThenAudit, Idle, TypeOK, RequestsAreFilledIn,
                        InstancesHavePlans, SubmitPhases, ActPhases, instVars
    <2>4. QED
      BY <2>2, <2>3
  <1>2. ASSUME NEW u \in User, NEW p \in Plan, StartSubmit(r, u, p) PROVE Typed'
    <2>1. TypeOK'
      BY <1>2, IdleIsCall DEF StartSubmit, TypeOK, Call, Phases, instVars
    <2>2. RequestsAreFilledIn' /\ InstancesHavePlans'
      BY <1>2 DEF StartSubmit, Idle, TypeOK, RequestsAreFilledIn,
                  InstancesHavePlans, SubmitPhases, ActPhases, instVars
    <2>3. QED
      BY <2>1, <2>2
  <1>3. ASSUME NEW u \in User, NEW i \in Instance, NEW action \in Actions,
               StartAct(r, u, i, action)
        PROVE  Typed'
    <2>1. TypeOK'
      BY <1>3, IdleIsCall DEF StartAct, TypeOK, Call, Phases, instVars
    <2>2. RequestsAreFilledIn' /\ InstancesHavePlans'
      BY <1>3 DEF StartAct, Idle, TypeOK, RequestsAreFilledIn,
                  InstancesHavePlans, SubmitPhases, ActPhases, instVars
    <2>3. QED
      BY <2>1, <2>2
  <1>4. ASSUME NEW d \in Definition, StartConfigure(r, d) PROVE Typed'
    <2>1. TypeOK'
      BY <1>4, IdleIsCall DEF StartConfigure, TypeOK, Call, Phases, instVars
    <2>2. RequestsAreFilledIn' /\ InstancesHavePlans'
      BY <1>4 DEF StartConfigure, Idle, TypeOK, RequestsAreFilledIn,
                  InstancesHavePlans, SubmitPhases, ActPhases, instVars
    <2>3. QED
      BY <2>1, <2>2
  <1>5. QED
    BY <1>1, <1>2, <1>3, <1>4 DEF Arrive

\* A task that can be acted on is on one of the steps of the definition.
LEMMA CurrentStepIsStep ==
    ASSUME TypeOK, NEW i \in Instance, StepInRange(i)
    PROVE  /\ CurrentStep(i) \in Step
           /\ instStep[i] \in StepNumbers
  <1>1. definition \in Definition /\ definition.steps \in Seq(Step)
    BY DefinitionAssumption DEF TypeOK
  <1>2. instStep[i] + 1 \in 1..Len(definition.steps)
    BY <1>1 DEF TypeOK, StepInRange
  <1>3. instStep[i] \in 0 .. Len(definition.steps) - 1
    BY <1>1, <1>2 DEF TypeOK
  <1>4. instStep[i] \in StepNumbers
    BY <1>1, <1>3 DEF StepNumbers
  <1>5. CurrentStep(i) \in Step
    BY <1>1, <1>2 DEF CurrentStep
  <1>6. QED
    BY <1>4, <1>5

\* The entry that a decision on instance i appends to its history.
NewEntry(r, i) == [step |-> instStep[i], type |-> CurrentStep(i).type,
                   action |-> req[r].action, actor |-> req[r].user]

\* What an accepted decision is recorded as is a history entry of an instance
\* that has a plan.
LEMMA RecordKeepsType ==
    ASSUME Typed, NEW r \in Request, HoldsAllRows(r), ActAccepted(r), Record(r)
    PROVE  /\ req[r].instance \in Instance
           /\ instPlan[req[r].instance] \in Plan
           /\ NewEntry(r, req[r].instance) \in Entry
           /\ history' = [history EXCEPT ![req[r].instance] =
                             Append(@, NewEntry(r, req[r].instance))]
           /\ history' \in [Instance -> Seq(Entry)]
  <1> DEFINE i == req[r].instance
  <1> USE DEF Typed
  <1>1. /\ i \in Instance /\ req[r].user \in User /\ req[r].action \in Actions
        /\ instPlan[i] \in Plan
    BY DEF HoldsAllRows, RequestsAreFilledIn, ActPhases, InstancesHavePlans
  <1>2. CurrentStep(i) \in Step /\ instStep[i] \in StepNumbers
    BY <1>1, CurrentStepIsStep DEF ActAccepted
  <1>3. NewEntry(r, i) \in Entry
    BY <1>1, <1>2 DEF NewEntry, Entry, Step
  <1>4. history' = [history EXCEPT ![i] = Append(@, NewEntry(r, i))]
    BY DEF Record, NewEntry
  <1>5. Append(history[i], NewEntry(r, i)) \in Seq(Entry)
    BY <1>1, <1>3 DEF TypeOK
  <1>6. history' \in [Instance -> Seq(Entry)]
    BY <1>4, <1>5 DEF TypeOK
  <1>7. QED
    BY <1>1, <1>3, <1>4, <1>6

\* The steps of submitPlan that change a table or a phase keep the types.
LEMMA SubmitTyped ==
    ASSUME Typed, NEW r \in Request
    PROVE  /\ SubmitLockPlan(r) \/ SubmitReadPolicy(r) => Typed'
           /\ SubmitForReview(r) \/ SubmitDirectly(r) => Typed'
  <1> USE DEF Typed
  <1>1. ASSUME SubmitLockPlan(r) PROVE Typed'
    <2>1. TypeOK'
      BY <1>1, PhaseKeepsType DEF SubmitLockPlan, TypeOK, Phases, instVars
    <2>2. RequestsAreFilledIn' /\ InstancesHavePlans'
      BY <1>1 DEF SubmitLockPlan, TypeOK, Call, RequestsAreFilledIn,
                  InstancesHavePlans, SubmitPhases, ActPhases, instVars
    <2>3. QED
      BY <2>1, <2>2
  <1>2. ASSUME SubmitReadPolicy(r) PROVE Typed'
    <2>1. definition \in Definition /\ definition.enabled \in BOOLEAN
      BY DefinitionAssumption DEF TypeOK
    <2>2. TypeOK'
      BY <1>2, <2>1, PhaseKeepsType DEF SubmitReadPolicy, TypeOK, Phases, instVars
    <2>3. RequestsAreFilledIn' /\ InstancesHavePlans'
      BY <1>2 DEF SubmitReadPolicy, TypeOK, Call, RequestsAreFilledIn,
                  InstancesHavePlans, SubmitPhases, ActPhases, instVars
    <2>4. QED
      BY <2>2, <2>3
  <1>3. ASSUME SubmitForReview(r) PROVE Typed'
    <2>1. req[r].plan \in Plan
      BY <1>3 DEF SubmitForReview, RequestsAreFilledIn, SubmitPhases
    <2>2. PICK i \in Unused :
            /\ instPlan' = [instPlan EXCEPT ![i] = req[r].plan]
            /\ instStatus' = [instStatus EXCEPT ![i] = "pending"]
            /\ inForce' = [inForce EXCEPT ![i] = {req[r].change.steps, definition.steps}]
      BY <1>3 DEF SubmitForReview
    <2>3. {req[r].change.steps, definition.steps} \in SUBSET Seq(Step)
      BY DefinitionAssumption DEF TypeOK, Call
    <2>4. ThenAudit(r, "submit", req[r].plan)
      BY <1>3 DEF SubmitForReview
    <2>5. req' \in [Request -> Call]
      BY <2>1, <2>4, ThenAuditKeepsType DEF TypeOK, Events
    <2>6. TypeOK'
      BY <1>3, <2>1, <2>2, <2>3, <2>5
      DEF SubmitForReview, TypeOK, PlanStatuses, InstanceStatuses, Unused
    <2>7. RequestsAreFilledIn' /\ InstancesHavePlans'
      BY <1>3, <2>1, <2>2, <2>4
      DEF SubmitForReview, ThenAudit, Idle, TypeOK, RequestsAreFilledIn,
          InstancesHavePlans, SubmitPhases, ActPhases, Unused
    <2>8. QED
      BY <2>6, <2>7
  <1>4. ASSUME SubmitDirectly(r) PROVE Typed'
    <2>1. req[r].plan \in Plan
      BY <1>4 DEF SubmitDirectly, RequestsAreFilledIn, SubmitPhases
    <2>2. ThenAudit(r, "submit", req[r].plan)
      BY <1>4 DEF SubmitDirectly
    <2>3. req' \in [Request -> Call]
      BY <2>1, <2>2, ThenAuditKeepsType DEF TypeOK, Events
    <2>4. TypeOK'
      BY <1>4, <2>1, <2>3 DEF SubmitDirectly, TypeOK, PlanStatuses, instVars
    <2>5. RequestsAreFilledIn' /\ InstancesHavePlans'
      BY <1>4, <2>2 DEF SubmitDirectly, ThenAudit, Idle, TypeOK, RequestsAreFilledIn,
                        InstancesHavePlans, SubmitPhases, ActPhases, instVars
    <2>6. QED
      BY <2>4, <2>5
  <1>5. QED
    BY <1>1, <1>2, <1>3, <1>4

\* The steps of actWorkflowTask that change a table or a phase keep the types.
LEMMA ActTyped ==
    ASSUME Typed, NEW r \in Request
    PROVE  /\ ActLockInstance(r) \/ ActLockDefinition(r) => Typed'
           /\ ActReject(r) \/ ActApproveStep(r) \/ ActApproveLast(r) => Typed'
  <1> USE DEF Typed
  <1> DEFINE i == req[r].instance
  <1>1. ASSUME ActLockInstance(r) PROVE Typed'
    <2>1. TypeOK'
      BY <1>1, PhaseKeepsType DEF ActLockInstance, TypeOK, Phases, instVars
    <2>2. RequestsAreFilledIn' /\ InstancesHavePlans'
      BY <1>1 DEF ActLockInstance, TypeOK, Call, RequestsAreFilledIn,
                  InstancesHavePlans, SubmitPhases, ActPhases, instVars
    <2>3. QED
      BY <2>1, <2>2
  <1>2. ASSUME ActLockDefinition(r) PROVE Typed'
    <2>1. TypeOK'
      BY <1>2, PhaseKeepsType DEF ActLockDefinition, TypeOK, Phases, instVars
    <2>2. RequestsAreFilledIn' /\ InstancesHavePlans'
      BY <1>2 DEF ActLockDefinition, TypeOK, Call, RequestsAreFilledIn,
                  InstancesHavePlans, SubmitPhases, ActPhases, instVars
    <2>3. QED
      BY <2>1, <2>2
  <1>3. ASSUME NEW e \in {"reject", "approve"}, ThenAudit(r, e, instPlan[i]),
               instPlan[i] \in Plan
        PROVE  req' \in [Request -> Call]
    BY <1>3, ThenAuditKeepsType DEF TypeOK, Events
  <1>4. ASSUME ActReject(r) PROVE Typed'
    <2>1. /\ i \in Instance /\ instPlan[i] \in Plan
          /\ history' \in [Instance -> Seq(Entry)]
      BY <1>4, RecordKeepsType DEF ActReject
    <2>2. req' \in [Request -> Call]
      BY <1>3, <1>4, <2>1 DEF ActReject
    <2>3. TypeOK'
      BY <1>4, <2>1, <2>2
      DEF ActReject, CloseReview, TypeOK, PlanStatuses, InstanceStatuses
    <2>4. RequestsAreFilledIn' /\ InstancesHavePlans'
      BY <1>4, <2>1 DEF ActReject, CloseReview, ThenAudit, Idle, TypeOK, SubmitPhases,
                        RequestsAreFilledIn, InstancesHavePlans, ActPhases
    <2>5. QED
      BY <2>3, <2>4
  <1>5. ASSUME ActApproveStep(r) PROVE Typed'
    <2>1. /\ i \in Instance /\ instPlan[i] \in Plan
          /\ history' \in [Instance -> Seq(Entry)]
      BY <1>5, RecordKeepsType DEF ActApproveStep
    <2>2. req' \in [Request -> Call]
      BY <1>3, <1>5, <2>1 DEF ActApproveStep
    <2>3. instStep' \in [Instance -> Nat]
      BY <1>5, <2>1 DEF ActApproveStep, TypeOK
    <2>4. planStatus' \in [Plan -> PlanStatuses]
      BY <1>5, <2>1 DEF ActApproveStep, TypeOK, PlanStatuses
    <2>5. TypeOK'
      BY <1>5, <2>1, <2>2, <2>3, <2>4 DEF ActApproveStep, TypeOK
    <2>6. RequestsAreFilledIn' /\ InstancesHavePlans'
      BY <1>5, <2>1 DEF ActApproveStep, ThenAudit, Idle, TypeOK, SubmitPhases,
                        RequestsAreFilledIn, InstancesHavePlans, ActPhases
    <2>7. QED
      BY <2>5, <2>6
  <1>6. ASSUME ActApproveLast(r) PROVE Typed'
    <2>1. /\ i \in Instance /\ instPlan[i] \in Plan
          /\ history' \in [Instance -> Seq(Entry)]
      BY <1>6, RecordKeepsType DEF ActApproveLast
    <2>2. req' \in [Request -> Call]
      BY <1>3, <1>6, <2>1 DEF ActApproveLast
    <2>3. TypeOK'
      BY <1>6, <2>1, <2>2
      DEF ActApproveLast, CloseReview, TypeOK, PlanStatuses, InstanceStatuses
    <2>4. RequestsAreFilledIn' /\ InstancesHavePlans'
      BY <1>6, <2>1 DEF ActApproveLast, CloseReview, ThenAudit, Idle, TypeOK, SubmitPhases,
                        RequestsAreFilledIn, InstancesHavePlans, ActPhases
    <2>5. QED
      BY <2>3, <2>4
  <1>7. QED
    BY <1>1, <1>2, <1>4, <1>5, <1>6

\* The upsert of putWorkflow keeps the types.
LEMMA ConfigureTyped ==
    ASSUME Typed, NEW r \in Request, Configure(r)
    PROVE  Typed'
  <1> USE DEF Typed
  <1>1. req[r].change \in Definition
    BY DEF TypeOK, Call
  <1>2. req[r].change.steps \in Seq(Step)
    BY <1>1, DefinitionAssumption
  <1>3. ThenAudit(r, "configure", None)
    BY DEF Configure
  <1>4. req' \in [Request -> Call]
    BY <1>3, ThenAuditKeepsType DEF TypeOK, Events
  <1>5. inForce' \in [Instance -> SUBSET Seq(Step)]
    BY <1>2 DEF Configure, TypeOK
  <1>6. TypeOK'
    BY <1>1, <1>4, <1>5 DEF Configure, TypeOK
  <1>7. RequestsAreFilledIn' /\ InstancesHavePlans'
    BY <1>3 DEF Configure, ThenAudit, Idle, TypeOK, RequestsAreFilledIn,
                InstancesHavePlans, SubmitPhases, ActPhases
  <1>8. QED
    BY <1>6, <1>7

\* Every step keeps the types.
LEMMA NextTyped == Typed /\ [Next]_vars => Typed'
  <1> SUFFICES ASSUME Typed, [Next]_vars PROVE Typed'
    OBVIOUS
  <1>1. ASSUME NEW r \in Request, Handle(r) PROVE Typed'
    <2>1. CASE SubmitRefused(r) \/ ActRefused(r) \/ WriteAudit(r)
      BY <2>1, FinishTyped
      DEF SubmitRefused, ActRefused, WriteAudit, Typed, TypeOK, Call
    <2>2. QED
      BY <1>1, <2>1, SubmitTyped, ActTyped, ConfigureTyped DEF Handle
  <1>2. ASSUME NEW r \in Request, Cancel(r) \/ AbortDeadlock(r) PROVE Typed'
    BY <1>2, FinishTyped DEF Cancel, AbortDeadlock, Typed, TypeOK
  <1>3. CASE UNCHANGED vars
    BY <1>3 DEF vars, instVars, Typed, TypeOK, RequestsAreFilledIn, InstancesHavePlans
  <1>4. QED
    BY <1>1, <1>2, <1>3, ArriveTyped DEF Next

\* Every variable keeps its type, and a request that is under way names the
\* plan or the workflow instance that its handler works on.
THEOREM TypeCorrect == Spec => []TypeOK
  <1>1. Typed => TypeOK
    BY DEF Typed
  <1>2. QED
    BY <1>1, InitTyped, NextTyped, PTL DEF Spec

-----------------------------------------------------------------------------
(* The inductive invariant: row locks protect what submitPlan has checked, *)
(* an instance that was not inserted yet has no history, the steps of the  *)
(* current definition are among those in force for every open review, and  *)
(* a policy that is enabled has steps wherever it was read.                *)

PlanLocksProtect ==
    /\ \A r, q \in Request, p \in Plan : HoldsPlan(r, p) /\ HoldsPlan(q, p) => r = q
    /\ \A r \in Request, p \in Plan : HoldsPlan(r, p) => Submittable(p)

AbsentInstancesAreEmpty ==
    \A i \in Instance : instStatus[i] = "absent" => instStep[i] = 0 /\ history[i] = <<>>

CurrentStepsAreInForce ==
    \A i \in Instance : instStatus[i] = "pending" => definition.steps \in inForce[i]

\* What putWorkflow is about to write is valid, and so is what submitPlan has
\* read, of which it keeps whether it is enabled.
KnowsValidPolicy(c) ==
    /\ c.phase \in {"configure", "submit_write"} => ValidDefinition(c.change)
    /\ c.phase = "submit_write" => c.enabled = c.change.enabled

PoliciesAreValid ==
    /\ ValidDefinition(definition)
    /\ \A r \in Request : KnowsValidPolicy(req[r])

IInv ==
    /\ Typed
    /\ PlanLocksProtect
    /\ PoliciesAreValid
    /\ AbsentInstancesAreEmpty
    /\ CurrentStepsAreInForce
    /\ OneOpenReview
    /\ HistoryTellsStatus
    /\ UndisturbedReviewIsComplete

\* The conjuncts of IInv that speak of the tables only.
Tables == <<planStatus, definition, instVars>>

TablesConsistent ==
    /\ AbsentInstancesAreEmpty
    /\ CurrentStepsAreInForce
    /\ OneOpenReview
    /\ HistoryTellsStatus
    /\ UndisturbedReviewIsComplete

\* A step that changes no table cannot break what speaks of tables only.
LEMMA TablesStayConsistent ==
    ASSUME TablesConsistent, UNCHANGED Tables
    PROVE  TablesConsistent'
  BY DEF TablesConsistent, Tables, instVars, AbsentInstancesAreEmpty,
         CurrentStepsAreInForce, OneOpenReview, HistoryTellsStatus,
         UndisturbedReviewIsComplete

\* The inductive invariant holds before any request.
LEMMA InitIInv == Init => IInv
  <1> SUFFICES ASSUME Init PROVE IInv
    OBVIOUS
  <1>1. Typed
    BY InitTyped
  <1>2. PlanLocksProtect /\ PoliciesAreValid
    BY DEF Init, PlanLocksProtect, HoldsPlan, Idle, PoliciesAreValid, KnowsValidPolicy,
           ValidDefinition, SeedDefinition
  <1>3. AbsentInstancesAreEmpty /\ CurrentStepsAreInForce
    BY DEF Init, AbsentInstancesAreEmpty, CurrentStepsAreInForce
  <1>4. OneOpenReview
    BY DEF Init, OneOpenReview
  <1>5. HistoryTellsStatus /\ UndisturbedReviewIsComplete
    BY DEF Init, HistoryTellsStatus, UndisturbedReviewIsComplete
  <1>6. QED
    BY <1>1, <1>2, <1>3, <1>4, <1>5 DEF IInv

-----------------------------------------------------------------------------
(* The steps of submitPlan *)

\* An open review belongs to a plan that is in review.
LEMMA OpenReviewMeansInReview ==
    ASSUME Typed, OneOpenReview, NEW i \in Instance, instStatus[i] = "pending"
    PROVE  instPlan[i] \in Plan /\ planStatus[instPlan[i]] = "in_review"
  BY DEF Typed, InstancesHavePlans, OneOpenReview

\* A submission opens a review of a plan that has none: the lock it holds kept
\* the plan submittable since it was checked.
LEMMA SubmitForReviewConsistent ==
    ASSUME IInv, NEW r \in Request, SubmitForReview(r)
    PROVE  TablesConsistent'
  <1> DEFINE p == req[r].plan
  <1>1. p \in Plan /\ Submittable(p)
    BY DEF IInv, SubmitForReview, Typed, RequestsAreFilledIn, SubmitPhases,
           PlanLocksProtect, HoldsPlan
  <1>2. PICK n \in Unused :
          /\ instPlan' = [instPlan EXCEPT ![n] = p]
          /\ instStatus' = [instStatus EXCEPT ![n] = "pending"]
          /\ inForce' = [inForce EXCEPT ![n] = {req[r].change.steps, definition.steps}]
    BY DEF SubmitForReview
  <1>3. /\ n \in Instance /\ instStatus[n] = "absent"
        /\ planStatus' = [planStatus EXCEPT ![p] = "in_review"]
        /\ UNCHANGED <<definition, instStep, history>>
    BY <1>2 DEF Unused, SubmitForReview
  <1>4. instStep[n] = 0 /\ history[n] = <<>>
    BY <1>3 DEF IInv, AbsentInstancesAreEmpty
  <1>5. \A i \in Instance : instStatus[i] = "pending" => instPlan[i] # p
    BY <1>1, OpenReviewMeansInReview DEF IInv, Submittable
  <1>6. AbsentInstancesAreEmpty'
    BY <1>2, <1>3 DEF IInv, AbsentInstancesAreEmpty, Typed, TypeOK
  <1>7. CurrentStepsAreInForce'
    BY <1>2, <1>3 DEF IInv, CurrentStepsAreInForce, Typed, TypeOK
  <1>8. OneOpenReview'
    <2> SUFFICES ASSUME NEW q \in Plan
                 PROVE  LET open == {i \in Instance : /\ instPlan'[i] = q
                                                      /\ instStatus'[i] = "pending"}
                        IN  /\ planStatus'[q] = "in_review" <=> open # {}
                            /\ \A i, j \in open : i = j
      BY DEF OneOpenReview
    <2>1. CASE q = p
      BY <1>1, <1>2, <1>3, <1>5, <2>1 DEF IInv, Typed, TypeOK
    <2>2. CASE q # p
      BY <1>1, <1>2, <1>3, <2>2 DEF IInv, OneOpenReview, Typed, TypeOK
    <2>3. QED
      BY <2>1, <2>2
  <1>9. HistoryTellsStatus'
    BY <1>2, <1>3, <1>4 DEF IInv, HistoryTellsStatus, Typed, TypeOK
  <1>10. UndisturbedReviewIsComplete'
    <2> SUFFICES ASSUME NEW i \in Instance, NEW s \in inForce'[i],
                        inForce'[i] = {s}
                 PROVE  /\ Follows(history'[i], s)
                        /\ instStatus'[i] = "approved" => Len(history'[i]) = Len(s)
                        /\ instStatus'[i] = "pending" => instStep'[i] < Len(s)
      BY DEF UndisturbedReviewIsComplete, Follows
    <2>1. CASE i = n
      <3>1. s = definition.steps /\ s = req[r].change.steps /\ s \in Seq(Step)
        <4>1. inForce'[i] = {req[r].change.steps, definition.steps}
          BY <1>2, <1>3, <2>1 DEF IInv, Typed, TypeOK
        <4>2. definition.steps \in Seq(Step)
          BY DefinitionAssumption DEF IInv, Typed, TypeOK
        <4>3. QED
          BY <4>1, <4>2
      <3>2. s # <<>>
        BY <3>1 DEF SubmitForReview, IInv, PoliciesAreValid, KnowsValidPolicy,
                    ValidDefinition
      <3>3. Len(s) \in Nat /\ Len(s) > 0
        BY <3>1, <3>2
      <3>4. QED
        BY <1>2, <1>3, <1>4, <2>1, <3>3 DEF Follows, IInv, Typed, TypeOK
    <2>2. CASE i # n
      BY <1>2, <1>3, <2>2 DEF IInv, UndisturbedReviewIsComplete, Typed, TypeOK
    <2>3. QED
      BY <2>1, <2>2
  <1>11. QED
    BY <1>6, <1>7, <1>8, <1>9, <1>10 DEF TablesConsistent

\* A submission that needs no review confirms a plan that has none.
LEMMA SubmitDirectlyConsistent ==
    ASSUME IInv, NEW r \in Request, SubmitDirectly(r)
    PROVE  TablesConsistent'
  <1> DEFINE p == req[r].plan
  <1>1. p \in Plan /\ Submittable(p)
    BY DEF IInv, SubmitDirectly, Typed, RequestsAreFilledIn, SubmitPhases,
           PlanLocksProtect, HoldsPlan
  <1>2. /\ planStatus' = [planStatus EXCEPT ![p] = "confirmed"]
        /\ UNCHANGED <<definition, instVars>>
    BY DEF SubmitDirectly
  <1>3. OneOpenReview'
    BY <1>1, <1>2 DEF IInv, OneOpenReview, Submittable, instVars, Typed, TypeOK
  <1>4. QED
    BY <1>2, <1>3 DEF IInv, TablesConsistent, AbsentInstancesAreEmpty, instVars,
       CurrentStepsAreInForce, HistoryTellsStatus, UndisturbedReviewIsComplete

-----------------------------------------------------------------------------
(* The steps of actWorkflowTask *)

\* What is known when a decision on a task is accepted.
LEMMA AcceptedTask ==
    ASSUME IInv, NEW r \in Request, HoldsAllRows(r), ActAccepted(r)
    PROVE  /\ req[r].instance \in Instance
           /\ instStatus[req[r].instance] = "pending"
           /\ instPlan[req[r].instance] \in Plan
           /\ planStatus[instPlan[req[r].instance]] = "in_review"
           /\ definition.steps \in Seq(Step)
           /\ instStep[req[r].instance] \in Nat
           /\ instStep[req[r].instance] < Len(definition.steps)
           /\ Len(history[req[r].instance]) = instStep[req[r].instance]
           /\ definition.steps \in inForce[req[r].instance]
  <1> DEFINE i == req[r].instance
  <1>1. i \in Instance /\ instStatus[i] = "pending" /\ StepInRange(i)
    BY DEF HoldsAllRows, ActAccepted, IInv, Typed, RequestsAreFilledIn, ActPhases
  <1>2. instPlan[i] \in Plan /\ planStatus[instPlan[i]] = "in_review"
    BY <1>1, OpenReviewMeansInReview DEF IInv
  <1>3. definition.steps \in Seq(Step) /\ instStep[i] \in Nat
    BY <1>1, DefinitionAssumption DEF IInv, Typed, TypeOK
  <1>4. Len(history[i]) = instStep[i]
    BY <1>1 DEF IInv, HistoryTellsStatus
  <1>5. definition.steps \in inForce[i]
    BY <1>1 DEF IInv, CurrentStepsAreInForce
  <1>6. QED
    BY <1>1, <1>2, <1>3, <1>4, <1>5 DEF StepInRange

\* The history after a decision: the entries it had, and the new one.
LEMMA RecordAppends ==
    ASSUME IInv, NEW r \in Request, HoldsAllRows(r), ActAccepted(r), Record(r)
    PROVE  LET i == req[r].instance
               h == history'[i]
               n == instStep[i]
           IN  /\ Len(h) = n + 1
               /\ \A k \in 1..n : h[k] = history[i][k]
               /\ h[n + 1] = NewEntry(r, i)
               /\ \A j \in Instance : j # i => history'[j] = history[j]
  <1> DEFINE i == req[r].instance
             n == instStep[i]
  <1>1. i \in Instance /\ n \in Nat /\ Len(history[i]) = n
    BY AcceptedTask
  <1>2. history[i] \in Seq(Entry) /\ NewEntry(r, i) \in Entry
    BY <1>1, RecordKeepsType DEF IInv, Typed, TypeOK
  <1>3. history' = [history EXCEPT ![i] = Append(@, NewEntry(r, i))]
    BY RecordKeepsType DEF IInv
  <1>4. history'[i] = Append(history[i], NewEntry(r, i))
    BY <1>1, <1>3 DEF IInv, Typed, TypeOK
  <1>5. \A j \in Instance : j # i => history'[j] = history[j]
    BY <1>1, <1>3 DEF IInv, Typed, TypeOK
  <1>6. QED
    BY <1>1, <1>2, <1>4, <1>5

\* A recorded decision follows the only steps that were in force, if there
\* were no others.
LEMMA RecordFollows ==
    ASSUME IInv, NEW r \in Request, HoldsAllRows(r), ActAccepted(r), Record(r),
           NEW s \in inForce[req[r].instance], inForce[req[r].instance] = {s}
    PROVE  /\ s = definition.steps
           /\ Follows(history'[req[r].instance], s)
  <1> DEFINE i == req[r].instance
             n == instStep[i]
  <1>1. /\ i \in Instance /\ n \in Nat /\ n < Len(s)
        /\ s = definition.steps /\ s \in Seq(Step)
    BY AcceptedTask
  <1>2. /\ Len(history[i]) = n
        /\ \A k \in 1..n : history[i][k].type = s[k].type
    BY <1>1, AcceptedTask DEF IInv, UndisturbedReviewIsComplete, Follows
  <1>3. NewEntry(r, i).type = s[n + 1].type
    BY <1>1 DEF NewEntry, CurrentStep
  <1>4. /\ Len(history'[i]) = n + 1
        /\ \A k \in 1..n : history'[i][k] = history[i][k]
        /\ history'[i][n + 1] = NewEntry(r, i)
    BY RecordAppends
  <1>5. \A k \in 1..(n + 1) : k \in 1..n \/ k = n + 1
    BY <1>1
  <1>6. \A k \in 1..(n + 1) : history'[i][k].type = s[k].type
    BY <1>2, <1>3, <1>4, <1>5
  <1>7. Len(history'[i]) <= Len(s)
    BY <1>1, <1>4
  <1>8. QED
    BY <1>1, <1>4, <1>6, <1>7 DEF Follows

\* A decision that closes a review changes the instance and the plan together.
LEMMA CloseConsistent ==
    ASSUME IInv, NEW r \in Request, HoldsAllRows(r), ActAccepted(r), Record(r),
           NEW o \in {"approved", "rejected"}, NEW c \in {"confirmed", "changes_requested"},
           CloseReview(r, o, c),
           o = "rejected" <=> req[r].action = "reject",
           o = "approved" => LastStep(req[r].instance),
           UNCHANGED <<definition, instPlan, instStep, inForce>>
    PROVE  TablesConsistent'
  <1> DEFINE i == req[r].instance
             n == instStep[i]
  <1>1. /\ i \in Instance /\ instStatus[i] = "pending" /\ instPlan[i] \in Plan
        /\ n \in Nat /\ n < Len(definition.steps) /\ Len(definition.steps) \in Nat
        /\ Len(history[i]) = n
    BY AcceptedTask
  <1>2. /\ instStatus' = [instStatus EXCEPT ![i] = o]
        /\ planStatus' = [planStatus EXCEPT ![instPlan[i]] = c]
    BY DEF CloseReview
  <1>3. AbsentInstancesAreEmpty'
    BY <1>1, <1>2, RecordAppends DEF IInv, AbsentInstancesAreEmpty, Typed, TypeOK
  <1>4. CurrentStepsAreInForce'
    BY <1>1, <1>2 DEF IInv, CurrentStepsAreInForce, Typed, TypeOK
  <1>5. OneOpenReview'
    <2> SUFFICES ASSUME NEW q \in Plan
                 PROVE  LET open == {j \in Instance : /\ instPlan'[j] = q
                                                      /\ instStatus'[j] = "pending"}
                        IN  /\ planStatus'[q] = "in_review" <=> open # {}
                            /\ \A j, k \in open : j = k
      BY DEF OneOpenReview
    <2>1. CASE q = instPlan[i]
      BY <1>1, <1>2, <2>1 DEF IInv, OneOpenReview, Typed, TypeOK
    <2>2. CASE q # instPlan[i]
      BY <1>1, <1>2, <2>2 DEF IInv, OneOpenReview, Typed, TypeOK
    <2>3. QED
      BY <2>1, <2>2
  <1>6. HistoryTellsStatus'
    <2> SUFFICES ASSUME NEW j \in Instance
                 PROVE  LET h == history'[j] IN
                        /\ \A k \in 1..Len(h) : h[k].step = k - 1
                        /\ \A k \in 1..Len(h) :
                              h[k].action = "reject" <=>
                                 k = Len(h) /\ instStatus'[j] = "rejected"
                        /\ Len(h) = IF instStatus'[j] \in {"approved", "rejected"}
                                    THEN instStep'[j] + 1
                                    ELSE instStep'[j]
      BY DEF HistoryTellsStatus
    <2>1. CASE j # i
      <3>1. history'[j] = history[j]
        BY <1>1, <1>2, <2>1, RecordAppends
      <3>2. instStatus'[j] = instStatus[j] /\ instStep'[j] = instStep[j]
        BY <1>1, <1>2, <2>1 DEF IInv, Typed, TypeOK
      <3>3. QED
        BY <3>1, <3>2 DEF IInv, HistoryTellsStatus
    <2>2. CASE j = i
      <3>1. /\ \A k \in 1..n : history[i][k].step = k - 1
            /\ \A k \in 1..n : history[i][k].action # "reject"
        BY <1>1 DEF IInv, HistoryTellsStatus
      <3>2. NewEntry(r, i).step = n /\ NewEntry(r, i).action = req[r].action
        BY DEF NewEntry
      <3>3. instStatus'[j] = o /\ instStep'[j] = n
        BY <1>1, <1>2, <2>2 DEF IInv, Typed, TypeOK
      <3>4. /\ Len(history'[i]) = n + 1
            /\ \A k \in 1..n : history'[i][k] = history[i][k]
            /\ history'[i][n + 1] = NewEntry(r, i)
        BY <1>1, RecordAppends
      <3>5. \A k \in 1..(n + 1) : k \in 1..n \/ k = n + 1
        BY <1>1
      <3>6. ASSUME NEW k \in 1..(n + 1)
            PROVE  history'[i][k].step = k - 1
        <4>1. CASE k \in 1..n
          BY <3>1, <3>4, <4>1
        <4>2. CASE k = n + 1
          BY <1>1, <3>2, <3>4, <4>2
        <4>3. QED
          BY <3>5, <4>1, <4>2
      <3>7. \A k \in 1..(n + 1) :
               history'[i][k].action = "reject" <=> k = n + 1 /\ instStatus'[j] = "rejected"
        BY <1>1, <3>1, <3>2, <3>3, <3>4, <3>5
      <3>8. QED
        BY <1>1, <2>2, <3>3, <3>4, <3>6, <3>7
    <2>3. QED
      BY <2>1, <2>2
  <1>7. UndisturbedReviewIsComplete'
    <2> SUFFICES ASSUME NEW j \in Instance, NEW s \in inForce[j], inForce[j] = {s}
                 PROVE  /\ Follows(history'[j], s)
                        /\ instStatus'[j] = "approved" => Len(history'[j]) = Len(s)
                        /\ instStatus'[j] = "pending" => instStep'[j] < Len(s)
      BY DEF UndisturbedReviewIsComplete, Follows
    <2>1. CASE j # i
      <3>1. history'[j] = history[j]
        BY <1>1, <1>2, <2>1, RecordAppends
      <3>2. instStatus'[j] = instStatus[j] /\ instStep'[j] = instStep[j]
        BY <1>1, <1>2, <2>1 DEF IInv, Typed, TypeOK
      <3>3. QED
        BY <3>1, <3>2 DEF IInv, UndisturbedReviewIsComplete
    <2>2. CASE j = i
      <3>1. s = definition.steps /\ Follows(history'[i], s) /\ Len(history'[i]) = n + 1
        BY <2>2, RecordFollows, RecordAppends
      <3>2. instStatus'[i] = o
        BY <1>1, <1>2 DEF IInv, Typed, TypeOK
      <3>3. QED
        BY <1>1, <2>2, <3>1, <3>2 DEF LastStep
    <2>3. QED
      BY <2>1, <2>2
  <1>8. QED
    BY <1>3, <1>4, <1>5, <1>6, <1>7 DEF TablesConsistent

\* An approval that is not the last one moves the review to its next step.
LEMMA ActApproveStepConsistent ==
    ASSUME IInv, NEW r \in Request, ActApproveStep(r)
    PROVE  TablesConsistent'
  <1> DEFINE i == req[r].instance
             n == instStep[i]
  <1>1. HoldsAllRows(r) /\ ActAccepted(r) /\ Record(r)
    BY DEF ActApproveStep
  <1>2. /\ i \in Instance /\ instStatus[i] = "pending" /\ instPlan[i] \in Plan
        /\ planStatus[instPlan[i]] = "in_review"
        /\ n \in Nat /\ n < Len(definition.steps) /\ Len(definition.steps) \in Nat
        /\ Len(history[i]) = n
    BY <1>1, AcceptedTask
  <1>3. /\ instStep' = [instStep EXCEPT ![i] = n + 1]
        /\ planStatus' = planStatus
        /\ UNCHANGED <<definition, instPlan, instStatus, inForce>>
    BY <1>2 DEF ActApproveStep, IInv, Typed, TypeOK
  <1>4. AbsentInstancesAreEmpty'
    BY <1>1, <1>2, <1>3, RecordAppends DEF IInv, AbsentInstancesAreEmpty, Typed, TypeOK
  <1>5. CurrentStepsAreInForce' /\ OneOpenReview'
    BY <1>3 DEF IInv, CurrentStepsAreInForce, OneOpenReview
  <1>6. HistoryTellsStatus'
    <2> SUFFICES ASSUME NEW j \in Instance
                 PROVE  LET h == history'[j] IN
                        /\ \A k \in 1..Len(h) : h[k].step = k - 1
                        /\ \A k \in 1..Len(h) :
                              h[k].action = "reject" <=>
                                 k = Len(h) /\ instStatus'[j] = "rejected"
                        /\ Len(h) = IF instStatus'[j] \in {"approved", "rejected"}
                                    THEN instStep'[j] + 1
                                    ELSE instStep'[j]
      BY DEF HistoryTellsStatus
    <2>1. CASE j # i
      BY <1>1, <1>2, <1>3, <2>1, RecordAppends DEF IInv, HistoryTellsStatus, Typed, TypeOK
    <2>2. CASE j = i
      <3>1. /\ \A k \in 1..n : history[i][k].step = k - 1
            /\ \A k \in 1..n : history[i][k].action # "reject"
        BY <1>2 DEF IInv, HistoryTellsStatus
      <3>2. NewEntry(r, i).step = n /\ NewEntry(r, i).action = "approve"
        BY DEF NewEntry, ActApproveStep
      <3>3. instStatus'[j] = "pending" /\ instStep'[j] = n + 1
        BY <1>2, <1>3, <2>2 DEF IInv, Typed, TypeOK
      <3>4. /\ Len(history'[i]) = n + 1
            /\ \A k \in 1..n : history'[i][k] = history[i][k]
            /\ history'[i][n + 1] = NewEntry(r, i)
        BY <1>1, <1>2, RecordAppends
      <3>5. \A k \in 1..(n + 1) : k \in 1..n \/ k = n + 1
        BY <1>1, <1>2
      <3>6. ASSUME NEW k \in 1..(n + 1)
            PROVE  history'[i][k].step = k - 1
        <4>1. CASE k \in 1..n
          BY <3>1, <3>4, <4>1
        <4>2. CASE k = n + 1
          BY <1>1, <1>2, <3>2, <3>4, <4>2
        <4>3. QED
          BY <3>5, <4>1, <4>2
      <3>7. \A k \in 1..(n + 1) :
               history'[i][k].action = "reject" <=> k = n + 1 /\ instStatus'[j] = "rejected"
        BY <1>1, <1>2, <3>1, <3>2, <3>3, <3>4, <3>5
      <3>8. QED
        BY <1>1, <1>2, <2>2, <3>3, <3>4, <3>6, <3>7
    <2>3. QED
      BY <2>1, <2>2
  <1>7. UndisturbedReviewIsComplete'
    <2> SUFFICES ASSUME NEW j \in Instance, NEW s \in inForce[j], inForce[j] = {s}
                 PROVE  /\ Follows(history'[j], s)
                        /\ instStatus'[j] = "approved" => Len(history'[j]) = Len(s)
                        /\ instStatus'[j] = "pending" => instStep'[j] < Len(s)
      BY <1>3 DEF UndisturbedReviewIsComplete, Follows
    <2>1. CASE j # i
      <3>1. history'[j] = history[j]
        BY <1>1, <1>2, <1>3, <2>1, RecordAppends
      <3>2. instStatus'[j] = instStatus[j] /\ instStep'[j] = instStep[j]
        BY <1>1, <1>2, <1>3, <2>1 DEF IInv, Typed, TypeOK
      <3>3. QED
        BY <3>1, <3>2 DEF IInv, UndisturbedReviewIsComplete
    <2>2. CASE j = i
      <3>1. s = definition.steps /\ Follows(history'[i], s)
        BY <1>1, <2>2, RecordFollows
      <3>2. instStatus'[i] = "pending" /\ instStep'[i] = n + 1
        BY <1>2, <1>3 DEF IInv, Typed, TypeOK
      <3>3. ~(n + 1 >= Len(definition.steps))
        BY DEF ActApproveStep, LastStep
      <3>4. QED
        BY <1>2, <2>2, <3>1, <3>2, <3>3
    <2>3. QED
      BY <2>1, <2>2
  <1>8. QED
    BY <1>4, <1>5, <1>6, <1>7 DEF TablesConsistent

\* An edit of the definition leaves reviews alone, and its steps are in force
\* for those that are open.
LEMMA ConfigureConsistent ==
    ASSUME IInv, NEW r \in Request, Configure(r)
    PROVE  TablesConsistent'
  <1>1. /\ definition' = req[r].change
        /\ UNCHANGED <<planStatus, instPlan, instStatus, instStep, history>>
        /\ \A i \in Instance :
              inForce'[i] = IF instStatus[i] = "pending"
                            THEN inForce[i] \cup {req[r].change.steps}
                            ELSE inForce[i]
    BY DEF Configure
  <1>2. AbsentInstancesAreEmpty' /\ OneOpenReview' /\ HistoryTellsStatus'
    BY <1>1 DEF IInv, AbsentInstancesAreEmpty, OneOpenReview, HistoryTellsStatus
  <1>3. CurrentStepsAreInForce'
    BY <1>1 DEF CurrentStepsAreInForce
  <1>4. UndisturbedReviewIsComplete'
    <2> SUFFICES ASSUME NEW i \in Instance, NEW s \in inForce'[i],
                        inForce'[i] = {s}
                 PROVE  /\ Follows(history[i], s)
                        /\ instStatus[i] = "approved" => Len(history[i]) = Len(s)
                        /\ instStatus[i] = "pending" => instStep[i] < Len(s)
      BY <1>1 DEF UndisturbedReviewIsComplete, Follows
    <2>1. inForce[i] = {s}
      BY <1>1 DEF IInv, CurrentStepsAreInForce
    <2>2. QED
      BY <2>1 DEF IInv, UndisturbedReviewIsComplete
  <1>5. QED
    BY <1>2, <1>3, <1>4 DEF TablesConsistent

-----------------------------------------------------------------------------
(* Every step keeps the invariant. *)

\* A step that gives no plan lock to anybody and changes the status of no
\* plan that stays locked keeps what the locks protect.
LEMMA LocksStayProtecting ==
    ASSUME PlanLocksProtect,
           \A q \in Request, p \in Plan : HoldsPlan(q, p)' => HoldsPlan(q, p),
           \A q \in Request, p \in Plan :
               HoldsPlan(q, p)' => planStatus'[p] = planStatus[p]
    PROVE  PlanLocksProtect'
  BY DEF PlanLocksProtect, Submittable

\* A request that ends its transaction holds no plan any more, and the others
\* hold what they held.
LEMMA EndReleasesPlan ==
    ASSUME TypeOK, NEW r \in Request,
           Finish(r) \/ \E e \in Events, t \in Plan \cup {None} : ThenAudit(r, e, t)
    PROVE  \A q \in Request, p \in Plan : HoldsPlan(q, p)' => HoldsPlan(q, p) /\ q # r
  <1>1. \A q \in Request : q # r => req'[q] = req[q]
    BY DEF Finish, ThenAudit, TypeOK
  <1>2. req'[r].phase \notin {"submit_policy", "submit_write"}
    <2>1. CASE Finish(r)
      BY <2>1 DEF Finish, Idle, TypeOK
    <2>2. CASE \E e \in Events, t \in Plan \cup {None} : ThenAudit(r, e, t)
      BY <2>2 DEF ThenAudit, Idle, TypeOK
    <2>3. QED
      BY <2>1, <2>2
  <1>3. QED
    BY <1>1, <1>2 DEF HoldsPlan

\* A request that arrives holds no plan.
LEMMA ArriveKeepsLocks ==
    ASSUME IInv, NEW r \in Request, Arrive(r)
    PROVE  PlanLocksProtect'
  <1>1. /\ \A q \in Request : q # r => req'[q] = req[q]
        /\ req'[r].phase \in {"audit", "submit_plan", "act_instance", "configure"}
    <2>1. CASE \E u \in User, p \in Plan : CreatePlan(r, u, p)
      BY <2>1 DEF CreatePlan, ThenAudit, Idle, IInv, Typed, TypeOK
    <2>2. CASE \E u \in User, p \in Plan : StartSubmit(r, u, p)
      BY <2>2 DEF StartSubmit, Idle, IInv, Typed, TypeOK
    <2>3. CASE \E u \in User, i \in Instance, action \in Actions : StartAct(r, u, i, action)
      BY <2>3 DEF StartAct, Idle, IInv, Typed, TypeOK
    <2>4. CASE \E d \in Definition : StartConfigure(r, d)
      BY <2>4 DEF StartConfigure, Idle, IInv, Typed, TypeOK
    <2>5. QED
      BY <2>1, <2>2, <2>3, <2>4 DEF Arrive
  <1>2. \A q \in Request, p \in Plan : HoldsPlan(q, p)' => HoldsPlan(q, p)
    BY <1>1 DEF HoldsPlan, IInv, Typed, TypeOK
  <1>3. \A p \in Plan : planStatus'[p] = planStatus[p]
                          \/ planStatus[p] = "absent"
    BY DEF Arrive, CreatePlan, StartSubmit, StartAct, StartConfigure, IInv, Typed, TypeOK
  <1>4. QED
    BY <1>2, <1>3, LocksStayProtecting DEF IInv, PlanLocksProtect, Submittable

\* No step of a handler changes or locks a plan that another request holds.
LEMMA HandleKeepsLocks ==
    ASSUME IInv, NEW r \in Request, Handle(r)
    PROVE  PlanLocksProtect'
  <1>1. ASSUME SubmitLockPlan(r) PROVE PlanLocksProtect'
    <2>1. \A q \in Request, p \in Plan :
             HoldsPlan(q, p)' => HoldsPlan(q, p) \/ (q = r /\ p = req[r].plan)
      BY <1>1 DEF SubmitLockPlan, HoldsPlan, IInv, Typed, TypeOK, Call
    <2>2. PlanFree(req[r].plan) /\ Submittable(req[r].plan) /\ planStatus' = planStatus
      BY <1>1 DEF SubmitLockPlan, SubmitAccepted
    <2>3. QED
      BY <2>1, <2>2 DEF PlanFree, PlanLocksProtect, Submittable, IInv
  <1>2. ASSUME SubmitReadPolicy(r) PROVE PlanLocksProtect'
    <2>1. \A q \in Request, p \in Plan : HoldsPlan(q, p)' => HoldsPlan(q, p)
      BY <1>2 DEF SubmitReadPolicy, HoldsPlan, IInv, Typed, TypeOK, Call
    <2>2. QED
      BY <1>2, <2>1, LocksStayProtecting DEF SubmitReadPolicy, IInv
  <1>3. ASSUME SubmitForReview(r) \/ SubmitDirectly(r) PROVE PlanLocksProtect'
    <2>1. /\ req[r].plan \in Plan /\ HoldsPlan(r, req[r].plan)
          /\ \A p \in Plan : p # req[r].plan => planStatus'[p] = planStatus[p]
      BY <1>3 DEF SubmitForReview, SubmitDirectly, HoldsPlan, IInv, Typed, TypeOK,
                  RequestsAreFilledIn, SubmitPhases
    <2>2. \A q \in Request, p \in Plan : HoldsPlan(q, p)' => HoldsPlan(q, p) /\ q # r
      BY <1>3, <2>1, EndReleasesPlan
      DEF SubmitForReview, SubmitDirectly, Events, IInv, Typed
    <2>3. \A q \in Request, p \in Plan : HoldsPlan(q, p)' => planStatus'[p] = planStatus[p]
      BY <2>1, <2>2 DEF IInv, PlanLocksProtect
    <2>4. QED
      BY <2>2, <2>3, LocksStayProtecting DEF IInv
  <1>4. ASSUME ActLockInstance(r) \/ ActLockDefinition(r) PROVE PlanLocksProtect'
    <2>1. \A q \in Request, p \in Plan : HoldsPlan(q, p)' => HoldsPlan(q, p)
      BY <1>4 DEF ActLockInstance, ActLockDefinition, HoldsPlan, IInv, Typed, TypeOK, Call
    <2>2. QED
      BY <1>4, <2>1, LocksStayProtecting DEF ActLockInstance, ActLockDefinition, IInv
  <1>5. ASSUME ActReject(r) \/ ActApproveStep(r) \/ ActApproveLast(r)
        PROVE  PlanLocksProtect'
    <2>1. /\ PlanFree(instPlan[req[r].instance])
          /\ \A p \in Plan : p # instPlan[req[r].instance] => planStatus'[p] = planStatus[p]
      BY <1>5 DEF ActReject, ActApproveStep, ActApproveLast, CloseReview, HoldsAllRows,
                  IInv, Typed, TypeOK
    <2>2. \A q \in Request, p \in Plan : HoldsPlan(q, p)' => HoldsPlan(q, p)
      BY <1>5 DEF ActReject, ActApproveStep, ActApproveLast, ThenAudit, Idle, HoldsPlan,
                  IInv, Typed, TypeOK
    <2>3. \A q \in Request, p \in Plan : HoldsPlan(q, p)' => planStatus'[p] = planStatus[p]
      BY <2>1, <2>2 DEF PlanFree
    <2>4. QED
      BY <2>2, <2>3, LocksStayProtecting DEF IInv
  <1>6. ASSUME SubmitRefused(r) \/ ActRefused(r) \/ WriteAudit(r) \/ Configure(r)
        PROVE  PlanLocksProtect'
    <2>1. \A q \in Request, p \in Plan : HoldsPlan(q, p)' => HoldsPlan(q, p)
      BY <1>6, EndReleasesPlan
      DEF SubmitRefused, ActRefused, WriteAudit, Configure, Events, IInv, Typed
    <2>2. planStatus' = planStatus
      BY <1>6 DEF SubmitRefused, ActRefused, WriteAudit, Configure
    <2>3. QED
      BY <2>1, <2>2, LocksStayProtecting DEF IInv
  <1>7. QED
    BY <1>1, <1>2, <1>3, <1>4, <1>5, <1>6 DEF Handle

\* A new plan has no review.
LEMMA CreatePlanConsistent ==
    ASSUME IInv, NEW r \in Request, NEW u \in User, NEW p \in Plan, CreatePlan(r, u, p)
    PROVE  TablesConsistent'
  <1>1. /\ planStatus' = [planStatus EXCEPT ![p] = "draft"]
        /\ planStatus[p] = "absent"
        /\ UNCHANGED <<definition, instVars>>
    BY DEF CreatePlan
  <1>2. OneOpenReview'
    BY <1>1 DEF IInv, OneOpenReview, instVars, Typed, TypeOK
  <1>3. QED
    BY <1>1, <1>2 DEF IInv, TablesConsistent, AbsentInstancesAreEmpty, instVars,
       CurrentStepsAreInForce, HistoryTellsStatus, UndisturbedReviewIsComplete

\* Both decisions that close a review keep the tables consistent.
LEMMA ActsConsistent ==
    ASSUME IInv, NEW r \in Request, ActReject(r) \/ ActApproveLast(r)
    PROVE  TablesConsistent'
  <1>1. CASE ActReject(r)
    BY <1>1, CloseConsistent DEF ActReject
  <1>2. CASE ActApproveLast(r)
    BY <1>2, CloseConsistent DEF ActApproveLast
  <1>3. QED
    BY <1>1, <1>2

\* The slots other than r keep their requests in every step of request r.
LEMMA OtherSlotsStay ==
    ASSUME Typed, NEW r \in Request,
           Arrive(r) \/ Handle(r) \/ Cancel(r) \/ AbortDeadlock(r)
    PROVE  \A q \in Request : q # r => req'[q] = req[q]
  <1>1. CASE Arrive(r)
    BY <1>1 DEF Arrive, CreatePlan, StartSubmit, StartAct, StartConfigure, ThenAudit,
                Typed, TypeOK
  <1>2. CASE Handle(r)
    BY <1>2 DEF Handle, SubmitRefused, SubmitLockPlan, SubmitReadPolicy, SubmitForReview,
                SubmitDirectly, ActLockInstance, ActLockDefinition, ActRefused, ActReject,
                ActApproveStep, ActApproveLast, Configure, WriteAudit, Finish, ThenAudit,
                Typed, TypeOK
  <1>3. QED
    BY <1>1, <1>2 DEF Cancel, AbortDeadlock, Finish, Typed, TypeOK

\* putWorkflow refuses an enabled definition without steps, and a submission
\* remembers of the policy what it read.
LEMMA PoliciesStayValid ==
    ASSUME Typed, PoliciesAreValid, NEW r \in Request,
           Arrive(r) \/ Handle(r) \/ Cancel(r) \/ AbortDeadlock(r)
    PROVE  PoliciesAreValid'
  <1> DEFINE Quiet == req'[r].phase \notin {"configure", "submit_write"}
  <1>1. Finish(r) => Quiet
    BY DEF Finish, Idle, Typed, TypeOK
  <1>2. ASSUME NEW e, NEW t, ThenAudit(r, e, t) PROVE Quiet
    BY <1>2 DEF ThenAudit, Idle, Typed, TypeOK
  <1>3. ASSUME Quiet PROVE KnowsValidPolicy(req[r])'
    BY <1>3 DEF KnowsValidPolicy
  <1>4. ASSUME Arrive(r) PROVE KnowsValidPolicy(req[r])' /\ UNCHANGED definition
    <2>1. ASSUME NEW u \in User, NEW p \in Plan, CreatePlan(r, u, p)
          PROVE  Quiet /\ UNCHANGED definition
      BY <2>1 DEF CreatePlan, ThenAudit, Idle, Typed, TypeOK
    <2>2. ASSUME NEW u \in User, NEW p \in Plan, StartSubmit(r, u, p)
          PROVE  Quiet /\ UNCHANGED definition
      BY <2>2 DEF StartSubmit, Idle, Typed, TypeOK
    <2>3. ASSUME NEW u \in User, NEW i \in Instance, NEW action \in Actions,
                 StartAct(r, u, i, action)
          PROVE  Quiet /\ UNCHANGED definition
      BY <2>3 DEF StartAct, Idle, Typed, TypeOK
    <2>4. ASSUME NEW d \in Definition, StartConfigure(r, d)
          PROVE  KnowsValidPolicy(req[r])' /\ UNCHANGED definition
      <3>1. req'[r] = [Idle EXCEPT !.phase = "configure", !.change = d]
        BY <2>4 DEF StartConfigure, Typed, TypeOK
      <3>2. req'[r].phase = "configure" /\ req'[r].change = d
        BY <3>1 DEF Idle
      <3>3. QED
        BY <2>4, <3>2 DEF StartConfigure, KnowsValidPolicy
    <2> HIDE DEF Quiet
    <2>5. QED
      BY <1>3, <1>4, <2>1, <2>2, <2>3, <2>4 DEF Arrive
  <1>5. ASSUME SubmitReadPolicy(r) PROVE KnowsValidPolicy(req[r])' /\ UNCHANGED definition
    <2>1. req[r] \in Call /\ req \in [Request -> Call]
      BY DEF Typed, TypeOK
    <2>2. /\ req'[r].phase = "submit_write" /\ req'[r].change = definition
          /\ req'[r].enabled = definition.enabled
      BY <1>5, <2>1 DEF SubmitReadPolicy, Call
    <2>3. QED
      BY <1>5, <2>2 DEF SubmitReadPolicy, KnowsValidPolicy, PoliciesAreValid
  <1>6. ASSUME SubmitLockPlan(r) \/ ActLockInstance(r) \/ ActLockDefinition(r)
        PROVE  Quiet /\ UNCHANGED definition
    BY <1>6 DEF SubmitLockPlan, ActLockInstance, ActLockDefinition, Typed, TypeOK, Call
  <1>7. ASSUME \/ SubmitForReview(r) \/ SubmitDirectly(r)
               \/ ActReject(r) \/ ActApproveStep(r) \/ ActApproveLast(r)
        PROVE  Quiet /\ UNCHANGED definition
    BY <1>2, <1>7 DEF SubmitForReview, SubmitDirectly, ActReject, ActApproveStep,
                      ActApproveLast, instVars
  <1>8. ASSUME \/ SubmitRefused(r) \/ ActRefused(r) \/ WriteAudit(r)
               \/ Cancel(r) \/ AbortDeadlock(r)
        PROVE  Quiet /\ UNCHANGED definition
    BY <1>1, <1>8 DEF SubmitRefused, ActRefused, WriteAudit, Cancel, AbortDeadlock
  <1>9. ASSUME Configure(r) PROVE Quiet /\ ValidDefinition(definition')
    <2>1. Quiet
      BY <1>2, <1>9 DEF Configure
    <2>2. QED
      BY <1>9, <2>1 DEF Configure, PoliciesAreValid, KnowsValidPolicy
  <1> HIDE DEF Quiet
  <1>10. KnowsValidPolicy(req[r])'
    BY <1>3, <1>4, <1>5, <1>6, <1>7, <1>8, <1>9 DEF Handle
  <1>11. ValidDefinition(definition')
    <2>1. Configure(r) \/ UNCHANGED definition
      BY <1>4, <1>5, <1>6, <1>7, <1>8 DEF Handle
    <2>2. QED
      BY <1>9, <2>1 DEF PoliciesAreValid
  <1>12. \A q \in Request : q # r => req'[q] = req[q]
    BY OtherSlotsStay
  <1>13. \A q \in Request : KnowsValidPolicy(req'[q])
    BY <1>10, <1>12 DEF PoliciesAreValid
  <1>14. QED
    BY <1>11, <1>13 DEF PoliciesAreValid

\* Every step keeps the inductive invariant.
LEMMA NextIInv == IInv /\ [Next]_vars => IInv'
  <1> SUFFICES ASSUME IInv, [Next]_vars PROVE IInv'
    OBVIOUS
  <1>1. Typed'
    BY NextTyped DEF IInv
  <1>2. TablesConsistent
    BY DEF IInv, TablesConsistent
  <1>3. ASSUME NEW r \in Request, Handle(r) PROVE TablesConsistent'
    <2>1. CASE UNCHANGED Tables
      BY <1>2, <2>1, TablesStayConsistent
    <2>2. CASE ~UNCHANGED Tables
      BY <1>3, <2>2, SubmitForReviewConsistent, SubmitDirectlyConsistent,
         ActsConsistent, ActApproveStepConsistent, ConfigureConsistent
      DEF Handle, Tables, SubmitRefused, SubmitLockPlan, SubmitReadPolicy,
          ActLockInstance, ActLockDefinition, ActRefused, WriteAudit
    <2>3. QED
      BY <2>1, <2>2
  <1>4. ASSUME NEW r \in Request, Arrive(r) PROVE TablesConsistent'
    <2>1. CASE \E u \in User, p \in Plan : CreatePlan(r, u, p)
      BY <2>1, CreatePlanConsistent
    <2>2. CASE UNCHANGED Tables
      BY <1>2, <2>2, TablesStayConsistent
    <2>3. QED
      BY <1>4, <2>1, <2>2 DEF Arrive, Tables, StartSubmit, StartAct, StartConfigure
  <1>5. ASSUME NEW r \in Request, Cancel(r) \/ AbortDeadlock(r)
        PROVE  TablesConsistent' /\ PlanLocksProtect'
    <2>1. UNCHANGED Tables /\ Finish(r)
      BY <1>5 DEF Cancel, AbortDeadlock, Tables
    <2>2. \A q \in Request, p \in Plan : HoldsPlan(q, p)' => HoldsPlan(q, p)
      BY <2>1 DEF Finish, Idle, HoldsPlan, IInv, Typed, TypeOK
    <2>3. QED
      BY <1>2, <2>1, <2>2, TablesStayConsistent, LocksStayProtecting DEF IInv, Tables
  <1>6. CASE UNCHANGED vars
    <2>1. TablesConsistent'
      BY <1>2, <1>6, TablesStayConsistent DEF vars, Tables
    <2>2. PlanLocksProtect' /\ PoliciesAreValid'
      BY <1>6 DEF vars, IInv, PlanLocksProtect, HoldsPlan, Submittable, PoliciesAreValid,
                  KnowsValidPolicy, ValidDefinition
    <2>3. QED
      BY <1>1, <2>1, <2>2 DEF IInv, TablesConsistent
  <1>7. CASE Next
    BY <1>1, <1>3, <1>4, <1>5, <1>7, HandleKeepsLocks, ArriveKeepsLocks, PoliciesStayValid
    DEF Next, IInv, TablesConsistent
  <1>8. QED
    BY <1>6, <1>7

-----------------------------------------------------------------------------
(* Theorems *)

\* What every step of submitPlan, actWorkflowTask and putWorkflow relies on and
\* preserves: the conjuncts of IInv hold in every reachable state.
THEOREM Invariance == Spec => []IInv
  BY InitIInv, NextIInv, PTL DEF Spec

\* A plan is in review exactly while one instance of it is pending, and never
\* has two: what the row locks of submitPlan and actWorkflowTask are for.
THEOREM ReviewsAreExclusive == Spec => []OneOpenReview
  <1>1. IInv => OneOpenReview
    BY DEF IInv
  <1>2. QED
    BY <1>1, Invariance, PTL

\* The history of an instance agrees with its status and current step.
THEOREM HistoriesAreFaithful == Spec => []HistoryTellsStatus
  <1>1. IInv => HistoryTellsStatus
    BY DEF IInv
  <1>2. QED
    BY <1>1, Invariance, PTL

\* A review takes all of the configured steps, and there is at least one, if
\* nobody replaces them from the reading of the policy in submitPlan to the last
\* decision (submitPlan, actWorkflowTask, putWorkflow).
THEOREM UndisturbedReviewsAreComplete == Spec => []UndisturbedReviewIsComplete
  <1>1. IInv => UndisturbedReviewIsComplete
    BY DEF IInv
  <1>2. QED
    BY <1>1, Invariance, PTL

\* A request that acts on an open task waits for no request that waits for it:
\* a plan that a submission has locked is not in review.
THEOREM OpenTasksDoNotDeadlock == Spec => []DeadlockNeedsClosedTask
  <1>1. IInv => DeadlockNeedsClosedTask
    <2> SUFFICES ASSUME IInv, NEW r \in Request, NEW q \in Request,
                        req[r].phase = "act_plan", WaitsFor(r, q),
                        instStatus[req[r].instance] = "pending"
                 PROVE  FALSE
      BY DEF DeadlockNeedsClosedTask
    <2>1. req[r].instance \in Instance /\ HoldsPlan(q, instPlan[req[r].instance])
      BY DEF WaitsFor, IInv, Typed, RequestsAreFilledIn, ActPhases
    <2>2. /\ instPlan[req[r].instance] \in Plan
          /\ planStatus[instPlan[req[r].instance]] = "in_review"
      BY <2>1, OpenReviewMeansInReview DEF IInv
    <2>3. Submittable(instPlan[req[r].instance])
      BY <2>1, <2>2 DEF IInv, PlanLocksProtect
    <2>4. QED
      BY <2>2, <2>3 DEF Submittable
  <1>2. QED
    BY <1>1, Invariance, PTL

-----------------------------------------------------------------------------
(* Decisions are final. *)

\* No step changes a confirmed plan or a closed instance: submitPlan refuses the
\* one, actWorkflowTask the other.
LEMMA NextKeepsDecisions == IInv /\ [Next]_vars => [KeepsDecisions]_vars
  <1> SUFFICES ASSUME IInv, Next PROVE KeepsDecisions
    BY DEF vars
  <1>1. CASE UNCHANGED <<planStatus, instStatus, instStep, history>>
    BY <1>1 DEF KeepsDecisions
  <1>2. ASSUME NEW r \in Request, NEW u \in User, NEW p \in Plan, CreatePlan(r, u, p)
        PROVE  KeepsDecisions
    BY <1>2 DEF CreatePlan, KeepsDecisions, instVars, IInv, Typed, TypeOK
  <1>3. ASSUME NEW r \in Request, SubmitForReview(r) PROVE KeepsDecisions
    <2>1. req[r].plan \in Plan /\ planStatus[req[r].plan] # "confirmed"
      BY <1>3 DEF SubmitForReview, IInv, Typed, RequestsAreFilledIn, SubmitPhases,
                  PlanLocksProtect, HoldsPlan, Submittable
    <2>2. \A p \in Plan : planStatus[p] = "confirmed" => planStatus'[p] = "confirmed"
      BY <1>3, <2>1 DEF SubmitForReview, IInv, Typed, TypeOK
    <2>3. PICK n \in Unused : instStatus' = [instStatus EXCEPT ![n] = "pending"]
      BY <1>3 DEF SubmitForReview
    <2>4. QED
      BY <1>3, <2>2, <2>3
      DEF SubmitForReview, KeepsDecisions, Unused, IInv, Typed, TypeOK
  <1>4. ASSUME NEW r \in Request, SubmitDirectly(r) PROVE KeepsDecisions
    BY <1>4 DEF SubmitDirectly, KeepsDecisions, instVars, IInv, Typed, TypeOK
  <1>5. ASSUME NEW r \in Request, ActReject(r) \/ ActApproveStep(r) \/ ActApproveLast(r)
        PROVE  KeepsDecisions
    <2> DEFINE i == req[r].instance
    <2>1. HoldsAllRows(r) /\ ActAccepted(r) /\ Record(r)
      BY <1>5 DEF ActReject, ActApproveStep, ActApproveLast
    <2>2. /\ i \in Instance /\ instStatus[i] = "pending"
          /\ instPlan[i] \in Plan /\ planStatus[instPlan[i]] = "in_review"
      BY <2>1, AcceptedTask
    <2>3. \A j \in Instance : j # i => history'[j] = history[j]
      BY <2>1, RecordAppends
    <2>4. \A j \in Instance : j # i => /\ instStatus'[j] = instStatus[j]
                                       /\ instStep'[j] = instStep[j]
      BY <1>5, <2>2 DEF ActReject, ActApproveStep, ActApproveLast, CloseReview,
                        IInv, Typed, TypeOK
    <2>5. \A p \in Plan : planStatus[p] = "confirmed" => planStatus'[p] = "confirmed"
      BY <1>5, <2>2 DEF ActReject, ActApproveStep, ActApproveLast, CloseReview,
                        IInv, Typed, TypeOK
    <2>6. QED
      BY <2>2, <2>3, <2>4, <2>5 DEF KeepsDecisions
  <1>6. PICK r \in Request : Arrive(r) \/ Handle(r) \/ Cancel(r) \/ AbortDeadlock(r)
    BY DEF Next
  <1>7. CASE Arrive(r)
    BY <1>1, <1>2, <1>7 DEF Arrive, StartSubmit, StartAct, StartConfigure, instVars
  <1>8. CASE Handle(r)
    BY <1>1, <1>3, <1>4, <1>5, <1>8
    DEF Handle, SubmitRefused, SubmitLockPlan, SubmitReadPolicy, ActLockInstance,
        ActLockDefinition, ActRefused, Configure, WriteAudit, instVars
  <1>9. CASE Cancel(r) \/ AbortDeadlock(r)
    BY <1>1, <1>9 DEF Cancel, AbortDeadlock, instVars
  <1>10. QED
    BY <1>6, <1>7, <1>8, <1>9

\* A confirmed plan stays confirmed and a closed instance is never touched
\* again, whatever requests were under way when it was closed.
THEOREM DecisionsStay == Spec => DecisionsAreFinal
  BY Invariance, NextKeepsDecisions, PTL DEF Spec, DecisionsAreFinal

-----------------------------------------------------------------------------
(* Audit rows are true: what a row reports is the case when its request    *)
(* commits, and no later request takes it back.                            *)

\* The rows that are written, and those that committed requests will write.
Reported == auditRows \cup {req[r].row : r \in {q \in Request : req[q].phase = "audit"}}

Submitted == {"in_review", "changes_requested", "confirmed"}

\* What a row says of the tables.
TrueRow(row) ==
    /\ row.event \in {"create", "submit"} => row.target \in Plan
    /\ row.event = "create" => planStatus[row.target] # "absent"
    /\ row.event = "submit" => planStatus[row.target] \in Submitted
    /\ row.event = "approve" =>
          \E i \in Instance : /\ instPlan[i] = row.target
                              /\ history[i] # <<>>
                              /\ history[i][1].action = "approve"
    /\ row.event = "reject" =>
          \E i \in Instance : instPlan[i] = row.target /\ instStatus[i] = "rejected"

RowsAreTrue == \A row \in Reported : TrueRow(row)

\* What no step takes back: the plan of an instance, its rejection and its first
\* decision, the creation of a plan and its submission.
Recorded ==
    /\ \A p \in Plan :
          /\ planStatus[p] # "absent" => planStatus'[p] # "absent"
          /\ planStatus[p] \in Submitted => planStatus'[p] \in Submitted
    /\ \A i \in Instance :
          /\ instStatus[i] # "absent" => instPlan'[i] = instPlan[i]
          /\ instStatus[i] = "rejected" => instStatus'[i] = "rejected"
          /\ history[i] # <<>> =>
                history'[i] # <<>> /\ history'[i][1] = history[i][1]

\* A decision keeps the first entry of every history.
LEMMA FirstEntryStays ==
    ASSUME IInv, NEW r \in Request, HoldsAllRows(r), ActAccepted(r), Record(r),
           NEW j \in Instance, history[j] # <<>>
    PROVE  history'[j] # <<>> /\ history'[j][1] = history[j][1]
  <1> DEFINE i == req[r].instance
             d == NewEntry(r, i)
  <1>1. /\ i \in Instance /\ d \in Entry
        /\ history' = [history EXCEPT ![i] = Append(@, d)]
    BY RecordKeepsType DEF IInv
  <1>2. history \in [Instance -> Seq(Entry)]
    BY DEF IInv, Typed, TypeOK
  <1>3. CASE j = i
    <2>1. history[j] \in Seq(Entry) /\ history'[j] = Append(history[j], d)
      BY <1>1, <1>2, <1>3
    <2>2. QED
      <3> HIDE DEF d
      <3>1. QED
        BY <1>1, <2>1
  <1>4. CASE j # i
    BY <1>1, <1>2, <1>4
  <1>5. QED
    BY <1>3, <1>4

\* No step takes back what an audit row can report.
LEMMA NextRecorded ==
    ASSUME IInv, [Next]_vars
    PROVE  Recorded
  <1> USE DEF IInv, Typed, TypeOK
  <1>1. CASE UNCHANGED <<planStatus, instPlan, instStatus, history>>
    BY <1>1 DEF Recorded
  <1>2. ASSUME NEW r \in Request, NEW u \in User, NEW p \in Plan, CreatePlan(r, u, p)
        PROVE  Recorded
    BY <1>2 DEF CreatePlan, Recorded, Submitted, instVars
  <1>3. ASSUME NEW r \in Request, SubmitForReview(r) PROVE Recorded
    <2>1. PICK n \in Unused : /\ instPlan' = [instPlan EXCEPT ![n] = req[r].plan]
                              /\ instStatus' = [instStatus EXCEPT ![n] = "pending"]
      BY <1>3 DEF SubmitForReview
    <2>2. \A p \in Plan : planStatus'[p] \in {planStatus[p], "in_review"}
      BY <1>3 DEF SubmitForReview
    <2>3. QED
      BY <1>3, <2>1, <2>2 DEF SubmitForReview, Recorded, Submitted, Unused
  <1>4. ASSUME NEW r \in Request, SubmitDirectly(r) PROVE Recorded
    BY <1>4 DEF SubmitDirectly, Recorded, Submitted, instVars
  <1>5. ASSUME NEW r \in Request, ActReject(r) \/ ActApproveStep(r) \/ ActApproveLast(r)
        PROVE  Recorded
    <2>1. HoldsAllRows(r) /\ ActAccepted(r) /\ Record(r) /\ UNCHANGED instPlan
      BY <1>5 DEF ActReject, ActApproveStep, ActApproveLast
    <2>2. \A i \in Instance : history[i] # <<>> =>
             history'[i] # <<>> /\ history'[i][1] = history[i][1]
      BY <2>1, FirstEntryStays
    <2>3. instStatus[req[r].instance] = "pending"
      BY <2>1, AcceptedTask
    <2>4. \A i \in Instance : instStatus[i] = "rejected" => instStatus'[i] = "rejected"
      BY <1>5, <2>3 DEF ActReject, ActApproveStep, ActApproveLast, CloseReview
    <2>5. \A p \in Plan : planStatus'[p] \in {planStatus[p]} \cup Submitted
      BY <1>5 DEF ActReject, ActApproveStep, ActApproveLast, CloseReview, Submitted
    <2>6. QED
      BY <2>1, <2>2, <2>4, <2>5 DEF Recorded, Submitted
  <1>6. CASE Next
    <2>1. PICK r \in Request : Arrive(r) \/ Handle(r) \/ Cancel(r) \/ AbortDeadlock(r)
      BY <1>6 DEF Next
    <2>2. CASE Arrive(r)
      BY <1>1, <1>2, <2>2 DEF Arrive, StartSubmit, StartAct, StartConfigure, instVars
    <2>3. CASE Handle(r)
      BY <1>1, <1>3, <1>4, <1>5, <2>3
      DEF Handle, SubmitRefused, SubmitLockPlan, SubmitReadPolicy, ActLockInstance,
          ActLockDefinition, ActRefused, Configure, WriteAudit, instVars
    <2>4. CASE Cancel(r) \/ AbortDeadlock(r)
      BY <1>1, <2>4 DEF Cancel, AbortDeadlock, instVars
    <2>5. QED
      BY <2>1, <2>2, <2>3, <2>4
  <1>7. QED
    BY <1>1, <1>6 DEF vars, instVars

\* So a row that is true stays true.
LEMMA TruthStays ==
    ASSUME IInv, Recorded, NEW row, TrueRow(row)
    PROVE  TrueRow(row)'
  <1>1. \A i \in Instance : history[i] # <<>> => instStatus[i] # "absent"
    BY DEF IInv, AbsentInstancesAreEmpty
  <1>2. QED
    BY <1>1 DEF TrueRow, Recorded

\* A request that changes its phase without committing reports nothing new.
LEMMA NothingReported ==
    ASSUME Typed, NEW r \in Request, UNCHANGED auditRows,
           \A q \in Request : q # r => req'[q] = req[q],
           req'[r].phase # "audit"
    PROVE  Reported' \subseteq Reported
  BY DEF Reported

\* A request that commits reports its row.
LEMMA OneReported ==
    ASSUME Typed, NEW r \in Request, NEW e, NEW t, UNCHANGED auditRows,
           ThenAudit(r, e, t)
    PROVE  Reported' \subseteq Reported \cup {[event |-> e, target |-> t]}
  <1>1. \A q \in Request : q # r => req'[q] = req[q]
    BY DEF ThenAudit, Typed, TypeOK
  <1>2. req'[r].row = [event |-> e, target |-> t]
    BY DEF ThenAudit, Typed, TypeOK, Idle
  <1>3. QED
    BY <1>1, <1>2 DEF Reported

\* A new row is true when its request has committed.
LEMMA CommitsReportTruth ==
    ASSUME IInv, IInv', RowsAreTrue, Recorded, NEW r \in Request, NEW e, NEW t,
           UNCHANGED auditRows, ThenAudit(r, e, t),
           TrueRow([event |-> e, target |-> t])'
    PROVE  RowsAreTrue'
  <1>1. Reported' \subseteq Reported \cup {[event |-> e, target |-> t]}
    BY OneReported DEF IInv
  <1>2. \A row \in Reported : TrueRow(row)'
    BY TruthStays DEF RowsAreTrue
  <1>3. QED
    BY <1>1, <1>2 DEF RowsAreTrue

\* A history that something was appended to has a first entry.
LEMMA AppendBegins ==
    ASSUME NEW S, NEW h \in Seq(S), NEW d \in S
    PROVE  Append(h, d) # <<>> /\ 1 \in 1..Len(Append(h, d))
  OBVIOUS

\* What a decision leaves in the instance it is about: an entry that says so, and
\* approvals before it.
LEMMA DecisionReported ==
    ASSUME IInv, IInv', NEW r \in Request,
           ActReject(r) \/ ActApproveStep(r) \/ ActApproveLast(r),
           NEW e, NEW t, e = req[r].action, t = instPlan[req[r].instance]
    PROVE  TrueRow([event |-> e, target |-> t])'
  <1> DEFINE i == req[r].instance
             d == NewEntry(r, i)
  <1>1. HoldsAllRows(r) /\ ActAccepted(r) /\ Record(r) /\ UNCHANGED instPlan
    BY DEF ActReject, ActApproveStep, ActApproveLast
  <1>2. /\ i \in Instance /\ d \in Entry
        /\ history' = [history EXCEPT ![i] = Append(@, d)]
    BY <1>1, RecordKeepsType DEF IInv
  <1>3. history[i] \in Seq(Entry) /\ history'[i] = Append(history[i], d)
    BY <1>2 DEF IInv, Typed, TypeOK
  <1>4. history'[i] # <<>> /\ 1 \in 1..Len(history'[i])
    BY <1>2, <1>3, AppendBegins
  <1>5. CASE ActReject(r)
    <2>1. instStatus'[i] = "rejected" /\ instPlan'[i] = instPlan[i]
      BY <1>1, <1>2, <1>5 DEF ActReject, CloseReview, IInv, Typed, TypeOK
    <2>2. req[r].action = "reject"
      BY <1>5 DEF ActReject
    <2>3. QED
      BY <1>2, <2>1, <2>2 DEF TrueRow
  <1>6. CASE ActApproveStep(r) \/ ActApproveLast(r)
    <2>1. req[r].action = "approve" /\ instStatus'[i] # "rejected"
      BY <1>1, <1>2, <1>6, AcceptedTask
      DEF ActApproveStep, ActApproveLast, CloseReview, IInv, Typed, TypeOK
    <2>2. history'[i][1] \in Entry /\ history'[i][1].action # "reject"
      BY <1>2, <1>4, <2>1 DEF IInv, HistoryTellsStatus, Typed, TypeOK
    <2>3. history'[i][1].action = "approve"
      BY <2>2 DEF Entry, Actions
    <2>4. QED
      BY <1>1, <1>2, <1>4, <2>1, <2>3 DEF TrueRow
  <1>7. QED
    BY <1>5, <1>6

\* Before any request no row is reported.
LEMMA InitRows == Init => RowsAreTrue
  BY DEF Init, RowsAreTrue, Reported, Idle

\* Every step reports only what is true.
LEMMA NextRows == IInv /\ IInv' /\ RowsAreTrue /\ [Next]_vars => RowsAreTrue'
  <1> SUFFICES ASSUME IInv, IInv', RowsAreTrue, [Next]_vars PROVE RowsAreTrue'
    OBVIOUS
  <1>1. Recorded
    BY NextRecorded
  <1>2. Reported' \subseteq Reported => RowsAreTrue'
    BY <1>1, TruthStays DEF RowsAreTrue
  <1>3. ASSUME NEW r \in Request, Finish(r), UNCHANGED auditRows PROVE RowsAreTrue'
    <2>1. req'[r].phase # "audit" /\ \A q \in Request : q # r => req'[q] = req[q]
      BY <1>3 DEF Finish, Idle, IInv, Typed, TypeOK
    <2>2. QED
      BY <1>2, <1>3, <2>1, NothingReported DEF IInv
  <1>4. ASSUME NEW r \in Request, Arrive(r) PROVE RowsAreTrue'
    <2>1. ASSUME NEW u \in User, NEW p \in Plan, CreatePlan(r, u, p) PROVE RowsAreTrue'
      <3>1. TrueRow([event |-> "create", target |-> p])'
        BY <2>1 DEF CreatePlan, TrueRow, IInv, Typed, TypeOK
      <3>2. ThenAudit(r, "create", p) /\ UNCHANGED auditRows
        BY <2>1 DEF CreatePlan
      <3>3. QED
        BY <1>1, <3>1, <3>2, CommitsReportTruth
    <2>2. CASE req'[r].phase # "audit" /\ UNCHANGED auditRows
      BY <1>2, <1>4, <2>2, NothingReported, OtherSlotsStay DEF IInv
    <2>3. QED
      BY <1>4, <2>1, <2>2
      DEF Arrive, StartSubmit, StartAct, StartConfigure, Idle, IInv, Typed, TypeOK
  <1>5. ASSUME NEW r \in Request, Handle(r) PROVE RowsAreTrue'
    <2>1. CASE SubmitRefused(r) \/ ActRefused(r)
      BY <1>3, <2>1 DEF SubmitRefused, ActRefused
    <2>2. CASE \/ SubmitLockPlan(r) \/ SubmitReadPolicy(r)
               \/ ActLockInstance(r) \/ ActLockDefinition(r)
      <3>1. UNCHANGED auditRows /\ req'[r].phase # "audit"
        BY <2>2 DEF SubmitLockPlan, SubmitReadPolicy, ActLockInstance,
                    ActLockDefinition, IInv, Typed, TypeOK, Call
      <3>2. QED
        BY <1>2, <1>5, <3>1, NothingReported, OtherSlotsStay DEF IInv
    <2>3. CASE SubmitForReview(r) \/ SubmitDirectly(r)
      <3>1. PICK p \in Plan : p = req[r].plan
        BY <2>3 DEF SubmitForReview, SubmitDirectly, IInv, Typed,
                    RequestsAreFilledIn, SubmitPhases
      <3>2. planStatus'[p] \in Submitted
        BY <2>3, <3>1 DEF SubmitForReview, SubmitDirectly, Submitted, IInv, Typed, TypeOK
      <3>3. TrueRow([event |-> "submit", target |-> p])'
        BY <3>2 DEF TrueRow
      <3>4. ThenAudit(r, "submit", p) /\ UNCHANGED auditRows
        BY <2>3, <3>1 DEF SubmitForReview, SubmitDirectly
      <3>5. QED
        BY <1>1, <3>3, <3>4, CommitsReportTruth
    <2>4. CASE ActReject(r) \/ ActApproveStep(r) \/ ActApproveLast(r)
      <3>1. PICK e, t : e = req[r].action /\ t = instPlan[req[r].instance]
        OBVIOUS
      <3>2. TrueRow([event |-> e, target |-> t])'
        BY <2>4, <3>1, DecisionReported
      <3>3. ThenAudit(r, e, t) /\ UNCHANGED auditRows
        BY <2>4, <3>1 DEF ActReject, ActApproveStep, ActApproveLast
      <3>4. QED
        BY <1>1, <3>2, <3>3, CommitsReportTruth
    <2>5. CASE Configure(r)
      <3>1. TrueRow([event |-> "configure", target |-> None])'
        BY DEF TrueRow
      <3>2. ThenAudit(r, "configure", None) /\ UNCHANGED auditRows
        BY <2>5 DEF Configure
      <3>3. QED
        BY <1>1, <3>1, <3>2, CommitsReportTruth
    <2>6. CASE WriteAudit(r)
      <3>1. auditRows' \subseteq Reported
        BY <2>6 DEF WriteAudit, Reported
      <3>2. \A q \in Request : req'[q].phase = "audit" => req'[q] = req[q]
        BY <2>6 DEF WriteAudit, Finish, Idle, IInv, Typed, TypeOK
      <3>3. Reported' \subseteq Reported
        BY <3>1, <3>2 DEF Reported
      <3>4. QED
        BY <1>2, <3>3
    <2>7. QED
      BY <1>5, <2>1, <2>2, <2>3, <2>4, <2>5, <2>6 DEF Handle
  <1>6. CASE UNCHANGED vars
    BY <1>2, <1>6 DEF vars, Reported
  <1>7. QED
    BY <1>3, <1>4, <1>5, <1>6 DEF Next, Cancel, AbortDeadlock

\* Every audit row reports what its request committed, and the tables still bear
\* it out: no row tells of a rolled back creation, submission or decision.
THEOREM AuditTellsTheTruth == Spec => []AuditRowsAreTrue
  <1>1. ASSUME IInv, RowsAreTrue PROVE AuditRowsAreTrue
    <2> SUFFICES ASSUME NEW row \in Reported
                 PROVE  CASE row.event = "create" -> planStatus[row.target] # "absent"
                          [] row.event = "submit" ->
                               planStatus[row.target] \in
                                   {"in_review", "changes_requested", "confirmed"}
                          [] row.event = "approve" ->
                               \E i \in Instance : /\ instPlan[i] = row.target
                                                   /\ history[i] # <<>>
                                                   /\ history[i][1].action = "approve"
                          [] row.event = "reject" ->
                               \E i \in Instance : /\ instPlan[i] = row.target
                                                   /\ instStatus[i] = "rejected"
                          [] row.event = "configure" -> TRUE
      BY DEF AuditRowsAreTrue, Reported
    <2>1. TrueRow(row)
      BY <1>1 DEF RowsAreTrue
    <2>2. row.event \in Events
      BY <1>1 DEF Reported, IInv, Typed, TypeOK, Call, Row
    <2>3. QED
      BY <2>1, <2>2 DEF TrueRow, Events, Submitted
  <1>2. QED
    BY <1>1, Invariance, InitRows, NextRows, PTL DEF Spec

-----------------------------------------------------------------------------
(* Row locks are taken in one order but for one pair: actWorkflowTask      *)
(* locks the definition before the plan, submitPlan the plan before it     *)
(* shares the definition.  So of those who wait in a circle, two wait for  *)
(* each other, and those are the deadlocks that AbortDeadlock ends.        *)

OneHoldsDefinition ==
    \A r, q \in Request : HoldsDefinition(r) /\ HoldsDefinition(q) => r = q

OnlyPairsDeadlock ==
    \A S \in SUBSET Request :
        (S # {} /\ \A r \in S : \E q \in S : WaitsFor(r, q)) =>
            \E r, q \in S : WaitsFor(r, q) /\ WaitsFor(q, r)

\* The lock on the definition is taken when nobody has it.
LEMMA OneKeepsDefinition ==
    ASSUME IInv, OneHoldsDefinition, [Next]_vars
    PROVE  OneHoldsDefinition'
  <1>1. CASE UNCHANGED vars
    BY <1>1 DEF vars, OneHoldsDefinition, HoldsDefinition
  <1>2. CASE Next
    <2>1. PICK r \in Request : Arrive(r) \/ Handle(r) \/ Cancel(r) \/ AbortDeadlock(r)
      BY <1>2 DEF Next
    <2>2. \A q \in Request : q # r => req'[q] = req[q]
      BY <2>1, OtherSlotsStay DEF IInv
    <2>3. CASE ActLockDefinition(r)
      BY <2>2, <2>3 DEF ActLockDefinition, DefinitionFree, OneHoldsDefinition, HoldsDefinition
    <2>4. CASE req'[r].phase # "act_plan"
      BY <2>2, <2>4 DEF OneHoldsDefinition, HoldsDefinition
    <2>5. CASE Arrive(r)
      <3>1. req'[r].phase # "act_plan"
        BY <2>5 DEF Arrive, CreatePlan, StartSubmit, StartAct, StartConfigure, ThenAudit,
                    Idle, IInv, Typed, TypeOK
      <3>2. QED
        BY <2>4, <3>1
    <2>6. CASE Handle(r) /\ ~ActLockDefinition(r)
      <3>1. req'[r].phase # "act_plan"
        <4>1. ASSUME Finish(r) PROVE req'[r].phase # "act_plan"
          BY <4>1 DEF Finish, Idle, IInv, Typed, TypeOK
        <4>2. ASSUME NEW e, NEW t, ThenAudit(r, e, t) PROVE req'[r].phase # "act_plan"
          BY <4>2 DEF ThenAudit, Idle, IInv, Typed, TypeOK
        <4>3. ASSUME SubmitLockPlan(r) \/ SubmitReadPolicy(r) \/ ActLockInstance(r)
              PROVE  req'[r].phase # "act_plan"
          BY <4>3 DEF SubmitLockPlan, SubmitReadPolicy, ActLockInstance,
                      IInv, Typed, TypeOK, Call
        <4>4. QED
          BY <2>6, <4>1, <4>2, <4>3
          DEF Handle, SubmitRefused, SubmitForReview, SubmitDirectly, ActRefused, ActReject,
              ActApproveStep, ActApproveLast, Configure, WriteAudit
      <3>2. QED
        BY <2>4, <3>1
    <2>7. CASE Cancel(r) \/ AbortDeadlock(r)
      <3>1. req'[r].phase # "act_plan"
        BY <2>7 DEF Cancel, AbortDeadlock, Finish, Idle, IInv, Typed, TypeOK
      <3>2. QED
        BY <2>4, <3>1
    <2>8. QED
      BY <2>1, <2>3, <2>5, <2>6, <2>7
  <1>3. QED
    BY <1>1, <1>2

\* Whoever waits waits, directly or for somebody who waits, for a decision that
\* has the definition; and that one waits for a submission that waits for it.
LEMMA CirclesHavePairs ==
    ASSUME OneHoldsDefinition, NEW S \in SUBSET Request, S # {},
           \A r \in S : \E q \in S : WaitsFor(r, q)
    PROVE  \E r, q \in S : WaitsFor(r, q) /\ WaitsFor(q, r)
  <1>1. ASSUME NEW q \in S, NEW p, HoldsPlan(q, p)
        PROVE  \E r \in S : HoldsDefinition(r) /\ WaitsFor(q, r)
    BY <1>1 DEF HoldsPlan, WaitsFor
  <1>2. \E r \in S : HoldsDefinition(r)
    <2>1. PICK r \in S, q \in S : WaitsFor(r, q)
      OBVIOUS
    <2>2. CASE HoldsDefinition(q)
      BY <2>2
    <2>3. CASE \E p : HoldsPlan(q, p)
      BY <1>1, <2>3
    <2>4. CASE HoldsInstance(q, req[r].instance) /\ ~HoldsDefinition(q)
      <3>1. PICK o \in S : WaitsFor(q, o)
        OBVIOUS
      <3>2. req[q].phase = "act_definition"
        BY <2>4 DEF HoldsInstance, HoldsDefinition
      <3>3. HoldsDefinition(o)
        BY <3>1, <3>2 DEF WaitsFor
      <3>4. QED
        BY <3>3
    <2>5. QED
      BY <2>1, <2>2, <2>3, <2>4 DEF WaitsFor
  <1>3. PICK r \in S : HoldsDefinition(r)
    BY <1>2
  <1>4. PICK q \in S : WaitsFor(r, q) /\ HoldsPlan(q, instPlan[req[r].instance])
    BY <1>3 DEF WaitsFor, HoldsDefinition
  <1>5. WaitsFor(q, r)
    BY <1>1, <1>3, <1>4 DEF OneHoldsDefinition
  <1>6. QED
    BY <1>4, <1>5

\* However many requests wait in a circle, two of them wait for each other: there
\* is no deadlock but those of a decision and a submission.
THEOREM DeadlocksArePairs == Spec => []OnlyPairsDeadlock
  <1>1. Init => OneHoldsDefinition
    BY DEF Init, OneHoldsDefinition, HoldsDefinition, Idle
  <1>2. OneHoldsDefinition => OnlyPairsDeadlock
    BY CirclesHavePairs DEF OnlyPairsDeadlock
  <1>3. IInv /\ OneHoldsDefinition /\ [Next]_vars => OneHoldsDefinition'
    BY OneKeepsDefinition
  <1>4. QED
    BY <1>1, <1>2, <1>3, Invariance, PTL DEF Spec

-----------------------------------------------------------------------------
(* PlanWorkflow implements PlanLifecycle. *)

\* The open review of a plan with a pending instance is that instance's
\* history, and without one it is empty.
LEMMA OpenReviewIs ==
    ASSUME OneOpenReview, NEW p \in Plan
    PROVE  /\ \A i \in Instance : (instPlan[i] = p /\ instStatus[i] = "pending") =>
                 OpenReviewOf(p) = history[i]
           /\ (\A i \in Instance : ~(instPlan[i] = p /\ instStatus[i] = "pending")) =>
                 OpenReviewOf(p) = <<>>
  <1> DEFINE open == {i \in Instance : instPlan[i] = p /\ instStatus[i] = "pending"}
  <1>1. ASSUME NEW i \in open PROVE OpenReviewOf(p) = history[i]
    <2>1. (CHOOSE j \in open : TRUE) \in open
      BY <1>1
    <2>2. (CHOOSE j \in open : TRUE) = i
      BY <1>1, <2>1 DEF OneOpenReview
    <2>3. QED
      BY <1>1, <2>2 DEF OpenReviewOf
  <1>2. open = {} => OpenReviewOf(p) = <<>>
    BY DEF OpenReviewOf
  <1>3. QED
    BY <1>1, <1>2

\* The same in the next state.
LEMMA OpenReviewIsNext ==
    ASSUME OneOpenReview', NEW p \in Plan
    PROVE  /\ \A i \in Instance : (instPlan'[i] = p /\ instStatus'[i] = "pending") =>
                 OpenReviewOf(p)' = history'[i]
           /\ (\A i \in Instance : ~(instPlan'[i] = p /\ instStatus'[i] = "pending")) =>
                 OpenReviewOf(p)' = <<>>
  <1> DEFINE open == {i \in Instance : instPlan'[i] = p /\ instStatus'[i] = "pending"}
  <1>1. ASSUME NEW i \in open PROVE OpenReviewOf(p)' = history'[i]
    <2>1. (CHOOSE j \in open : TRUE) \in open
      BY <1>1
    <2>2. (CHOOSE j \in open : TRUE) = i
      BY <1>1, <2>1 DEF OneOpenReview
    <2>3. QED
      BY <1>1, <2>2 DEF OpenReviewOf
  <1>2. open = {} => OpenReviewOf(p)' = <<>>
    BY DEF OpenReviewOf
  <1>3. QED
    BY <1>1, <1>2

\* A step that changes neither which instance is the open review of a plan nor
\* the history of that instance leaves the open review as it is.
LEMMA OpenReviewStays ==
    ASSUME NEW p \in Plan,
           \A i \in Instance : (instPlan'[i] = p /\ instStatus'[i] = "pending")
                                 <=> (instPlan[i] = p /\ instStatus[i] = "pending"),
           \A i \in Instance : (instPlan[i] = p /\ instStatus[i] = "pending")
                                 => history'[i] = history[i]
    PROVE  OpenReviewOf(p)' = OpenReviewOf(p)
  <1> DEFINE open == {i \in Instance : instPlan[i] = p /\ instStatus[i] = "pending"}
             openNext == {i \in Instance : instPlan'[i] = p /\ instStatus'[i] = "pending"}
  <1>1. openNext = open
    OBVIOUS
  <1>2. CASE open = {}
    BY <1>1, <1>2 DEF OpenReviewOf
  <1>3. CASE open # {}
    <2>1. (CHOOSE i \in open : TRUE) \in open
      BY <1>3
    <2>2. history'[CHOOSE i \in open : TRUE] = history[CHOOSE i \in open : TRUE]
      BY <2>1
    <2>3. QED
      BY <1>1, <1>3, <2>2 DEF OpenReviewOf
  <1>4. QED
    BY <1>2, <1>3

\* Initial states map to initial states of the lifecycle.
LEMMA InitLifecycle == Init => Lifecycle!Init
  <1> SUFFICES ASSUME Init PROVE Lifecycle!Init
    OBVIOUS
  <1>1. \A p \in Plan : OpenReviewOf(p) = <<>>
    BY DEF Init, OpenReviewOf
  <1>2. QED
    BY <1>1 DEF Init, Lifecycle!Init, OpenReviewOfPlans

\* A step that touches neither a status, an instance nor a history stutters.
LEMMA StutterLifecycle ==
    ASSUME UNCHANGED <<planStatus, instPlan, instStatus, history>>
    PROVE  UNCHANGED <<planStatus, OpenReviewOfPlans>>
  BY DEF OpenReviewOfPlans, OpenReviewOf

\* The INSERT of createPlan is a Create step of the lifecycle.
LEMMA CreateLifecycle ==
    ASSUME IInv, NEW r \in Request, NEW u \in User, NEW p \in Plan, CreatePlan(r, u, p)
    PROVE  Lifecycle!Next
  <1>1. OpenReviewOfPlans' = OpenReviewOfPlans
    BY DEF CreatePlan, OpenReviewOfPlans, OpenReviewOf, instVars
  <1>2. Lifecycle!Create(p)
    BY <1>1 DEF CreatePlan, Lifecycle!Create
  <1>3. QED
    BY <1>2 DEF Lifecycle!Next

\* A submission for review is an OpenReview step of the lifecycle.
LEMMA SubmitForReviewLifecycle ==
    ASSUME IInv, IInv', NEW r \in Request, SubmitForReview(r)
    PROVE  Lifecycle!Next
  <1>1. PICK p \in Plan : p = req[r].plan /\ Submittable(p)
    BY DEF SubmitForReview, IInv, Typed, RequestsAreFilledIn, SubmitPhases,
           PlanLocksProtect, HoldsPlan
  <1>2. PICK n \in Unused :
          /\ instPlan' = [instPlan EXCEPT ![n] = p]
          /\ instStatus' = [instStatus EXCEPT ![n] = "pending"]
    BY <1>1 DEF SubmitForReview
  <1>3. n \in Instance /\ instStatus[n] = "absent" /\ history[n] = <<>>
    BY <1>2 DEF Unused, IInv, AbsentInstancesAreEmpty
  <1>4. history' = history /\ planStatus' = [planStatus EXCEPT ![p] = "in_review"]
    BY <1>1 DEF SubmitForReview
  <1>5. ASSUME NEW q \in Plan PROVE OpenReviewOf(q)' = OpenReviewOf(q)
    <2>1. CASE q = p
      <3>1. \A i \in Instance : ~(instPlan[i] = p /\ instStatus[i] = "pending")
        BY <1>1, OpenReviewMeansInReview DEF IInv, Submittable
      <3>2. OpenReviewOf(p) = <<>>
        BY <1>1, <3>1, OpenReviewIs DEF IInv
      <3>3. instPlan'[n] = p /\ instStatus'[n] = "pending"
        BY <1>2, <1>3 DEF IInv, Typed, TypeOK
      <3>4. OpenReviewOf(p)' = history'[n]
        BY <1>1, <1>3, <3>3, OpenReviewIsNext DEF IInv
      <3>5. QED
        BY <1>3, <1>4, <2>1, <3>2, <3>4
    <2>2. CASE q # p
      <3>1. instPlan'[n] = p /\ instStatus[n] = "absent"
        BY <1>2, <1>3 DEF IInv, Typed, TypeOK
      <3>2. \A i \in Instance : i # n => /\ instPlan'[i] = instPlan[i]
                                         /\ instStatus'[i] = instStatus[i]
        BY <1>2 DEF IInv, Typed, TypeOK
      <3>3. \A i \in Instance : (instPlan'[i] = q /\ instStatus'[i] = "pending")
                                 <=> (instPlan[i] = q /\ instStatus[i] = "pending")
        BY <2>2, <3>1, <3>2
      <3>4. QED
        BY <1>4, <3>3, OpenReviewStays
    <2>3. QED
      BY <2>1, <2>2
  <1>6. OpenReviewOfPlans' = OpenReviewOfPlans
    BY <1>5 DEF OpenReviewOfPlans
  <1>7. Lifecycle!OpenReview(p)
    BY <1>1, <1>4, <1>6 DEF Lifecycle!OpenReview, Lifecycle!Submittable, Submittable
  <1>8. QED
    BY <1>1, <1>7 DEF Lifecycle!Next

\* A submission without review is a Finalize step of the lifecycle.
LEMMA SubmitDirectlyLifecycle ==
    ASSUME IInv, NEW r \in Request, SubmitDirectly(r)
    PROVE  Lifecycle!Next
  <1> DEFINE p == req[r].plan
  <1>1. p \in Plan /\ Submittable(p)
    BY DEF SubmitDirectly, IInv, Typed, RequestsAreFilledIn, SubmitPhases,
           PlanLocksProtect, HoldsPlan
  <1>2. OpenReviewOfPlans' = OpenReviewOfPlans
    BY DEF SubmitDirectly, OpenReviewOfPlans, OpenReviewOf, instVars
  <1>3. Lifecycle!Finalize(p)
    BY <1>1, <1>2 DEF SubmitDirectly, Lifecycle!Finalize, Lifecycle!Submittable, Submittable
  <1>4. QED
    BY <1>1, <1>3 DEF Lifecycle!Next

\* What a decision on instance i does to the open reviews of other plans.
LEMMA OtherReviewsStay ==
    ASSUME NEW i \in Instance,
           UNCHANGED instPlan,
           \A j \in Instance : j # i => /\ instStatus'[j] = instStatus[j]
                                        /\ history'[j] = history[j],
           NEW q \in Plan, q # instPlan[i]
    PROVE  OpenReviewOf(q)' = OpenReviewOf(q)
  <1>1. \A j \in Instance : (instPlan'[j] = q /\ instStatus'[j] = "pending")
                             <=> (instPlan[j] = q /\ instStatus[j] = "pending")
    OBVIOUS
  <1>2. \A j \in Instance : (instPlan[j] = q /\ instStatus[j] = "pending")
                             => history'[j] = history[j]
    OBVIOUS
  <1>3. QED
    BY <1>1, <1>2, OpenReviewStays

\* An approval that is not the last one is an Approve step of the lifecycle.
LEMMA ApproveStepLifecycle ==
    ASSUME IInv, IInv', NEW r \in Request, ActApproveStep(r)
    PROVE  Lifecycle!Next
  <1> DEFINE i == req[r].instance
             d == NewEntry(r, i)
  <1>1. HoldsAllRows(r) /\ ActAccepted(r) /\ Record(r)
    BY DEF ActApproveStep
  <1>2. PICK p \in Plan :
          /\ p = instPlan[i] /\ planStatus[p] = "in_review"
          /\ i \in Instance /\ instStatus[i] = "pending"
    BY <1>1, AcceptedTask
  <1>3. /\ d \in Entry
        /\ history' = [history EXCEPT ![i] = Append(@, d)]
    BY <1>1, RecordKeepsType DEF IInv
  <1>4. UNCHANGED <<planStatus, instPlan, instStatus>>
    BY <1>2 DEF ActApproveStep, IInv, Typed, TypeOK
  <1>5. OpenReviewOf(p) = history[i] /\ OpenReviewOf(p)' = history'[i]
    BY <1>2, <1>4, OpenReviewIs, OpenReviewIsNext DEF IInv
  <1>6. history'[i] = Append(history[i], d)
    BY <1>2, <1>3 DEF IInv, Typed, TypeOK
  <1>7. ASSUME NEW q \in Plan, q # p PROVE OpenReviewOf(q)' = OpenReviewOf(q)
    <2>1. \A j \in Instance : j # i => /\ instStatus'[j] = instStatus[j]
                                       /\ history'[j] = history[j]
      BY <1>1, <1>4, RecordAppends
    <2>2. QED
      <3> HIDE DEF i
      <3>1. QED
        BY <1>2, <1>4, <1>7, <2>1, OtherReviewsStay
  <1>8. OpenReviewOfPlans' = [OpenReviewOfPlans EXCEPT ![p] = Append(@, d)]
    BY <1>2, <1>5, <1>6, <1>7 DEF OpenReviewOfPlans
  <1>9. Lifecycle!Approve(p, d)
    BY <1>2, <1>4, <1>8 DEF Lifecycle!Approve
  <1>10. QED
    BY <1>2, <1>3, <1>9 DEF Lifecycle!Next

\* A decision that closes the review is a Close step of the lifecycle.
LEMMA CloseLifecycle ==
    ASSUME IInv, IInv', NEW r \in Request, ActReject(r) \/ ActApproveLast(r)
    PROVE  Lifecycle!Next
  <1> DEFINE i == req[r].instance
  <1>1. HoldsAllRows(r) /\ ActAccepted(r) /\ Record(r) /\ UNCHANGED instPlan
    BY DEF ActReject, ActApproveLast
  <1>2. PICK p \in Plan :
          /\ p = instPlan[i] /\ planStatus[p] = "in_review"
          /\ i \in Instance /\ instStatus[i] = "pending"
    BY <1>1, AcceptedTask
  <1>3. PICK c \in {"confirmed", "changes_requested"}, o \in {"approved", "rejected"} :
          CloseReview(r, o, c)
    BY DEF ActReject, ActApproveLast
  <1>4. /\ planStatus' = [planStatus EXCEPT ![p] = c]
        /\ instStatus'[i] # "pending"
        /\ \A j \in Instance : j # i => instStatus'[j] = instStatus[j]
    BY <1>2, <1>3 DEF CloseReview, IInv, Typed, TypeOK
  <1>5. \A j \in Instance : j # i => history'[j] = history[j]
    BY <1>1, RecordAppends
  <1>6. \A j \in Instance : ~(instPlan'[j] = p /\ instStatus'[j] = "pending")
    BY <1>1, <1>2, <1>4 DEF IInv, OneOpenReview
  <1>7. OpenReviewOf(p)' = <<>>
    BY <1>2, <1>6, OpenReviewIsNext DEF IInv
  <1>8. ASSUME NEW q \in Plan, q # p PROVE OpenReviewOf(q)' = OpenReviewOf(q)
    <2> HIDE DEF i
    <2>1. QED
      BY <1>1, <1>2, <1>4, <1>5, <1>8, OtherReviewsStay
  <1>9. OpenReviewOfPlans' = [OpenReviewOfPlans EXCEPT ![p] = <<>>]
    BY <1>2, <1>7, <1>8 DEF OpenReviewOfPlans
  <1>10. Lifecycle!Close(p, c)
    BY <1>2, <1>4, <1>9 DEF Lifecycle!Close
  <1>11. QED
    BY <1>2, <1>10 DEF Lifecycle!Next

\* Every step of a handler is a step of the lifecycle or changes nothing of it.
LEMMA NextLifecycle ==
    IInv /\ IInv' /\ [Next]_vars => [Lifecycle!Next]_<<planStatus, OpenReviewOfPlans>>
  <1> SUFFICES ASSUME IInv, IInv', [Next]_vars,
                      ~UNCHANGED <<planStatus, OpenReviewOfPlans>>
               PROVE  Lifecycle!Next
    OBVIOUS
  <1>1. ~UNCHANGED <<planStatus, instPlan, instStatus, history>>
    BY StutterLifecycle
  <1>2. PICK r \in Request : Arrive(r) \/ Handle(r) \/ Cancel(r) \/ AbortDeadlock(r)
    BY <1>1 DEF Next, vars, instVars
  <1>3. CASE Arrive(r)
    BY <1>1, <1>3, CreateLifecycle DEF Arrive, StartSubmit, StartAct, StartConfigure, instVars
  <1>4. CASE Handle(r)
    BY <1>1, <1>4, SubmitForReviewLifecycle, SubmitDirectlyLifecycle,
       ApproveStepLifecycle, CloseLifecycle
    DEF Handle, SubmitRefused, SubmitLockPlan, SubmitReadPolicy, ActLockInstance,
        ActLockDefinition, ActRefused, Configure, WriteAudit, instVars
  <1>5. CASE Cancel(r) \/ AbortDeadlock(r)
    BY <1>1, <1>5 DEF Cancel, AbortDeadlock, instVars
  <1>6. QED
    BY <1>2, <1>3, <1>4, <1>5

\* The handlers, with their locks, races and cancellations, do nothing to a
\* plan and its review that the plan lifecycle does not allow.
THEOREM Implementation == Spec => ImplementsLifecycle
  BY Invariance, InitLifecycle, NextLifecycle, PTL
  DEF Spec, ImplementsLifecycle, Lifecycle!Spec

=============================================================================
