--------------------------- MODULE MCPlanWorkflow ---------------------------
(* A small instance of PlanWorkflow: the author of a plan, and a planner   *)
(* who also manages the author's department, with the permissions that the *)
(* migrations give the roles general_user, planning_admin and              *)
(* department_manager.                                                     *)
EXTENDS PlanWorkflow, TLC

CONSTANTS author, planner, sales

Department == [type |-> "department_review", role |-> None]
Planning == [type |-> "planning_review", role |-> None]
Approval == [type |-> "approval", role |-> None]

\* Disabled; one step; two steps; and a definition that is not valid.
MCDefinition ==
    {SeedDefinition,
     [enabled |-> TRUE, steps |-> <<Department>>],
     [enabled |-> TRUE, steps |-> <<Department, Approval>>],
     [enabled |-> TRUE, steps |-> <<>>]}

\* Two reviews of the same length that share no step.
EditedDefinition ==
    {SeedDefinition,
     [enabled |-> TRUE, steps |-> <<Department, Approval>>],
     [enabled |-> TRUE, steps |-> <<Planning, Planning>>]}

MCPrincipalOf ==
    author :> [id |-> author, organization |-> sales, roles |-> {"general_user"},
               permissions |-> {<<"dashboard", "personal">>, <<"plan", "own">>}]
 @@ planner :> [id |-> planner, organization |-> sales,
                roles |-> {"planning_admin", "department_manager"},
                permissions |-> {<<"plan", "*">>, <<"workflow", "*">>}]

\* One step, or none.
OneStepDefinition == {SeedDefinition, [enabled |-> TRUE, steps |-> <<Department>>]}

MCResourceOf == [p \in Plan |-> [owner |-> author, organization |-> sales,
                                 classification |-> "internal"]]

\* The planner is the author too.
PlannersResourceOf == [p \in Plan |-> [owner |-> planner, organization |-> sales,
                                       classification |-> "internal"]]

Symmetry == Permutations(Request) \cup Permutations(Instance)
=============================================================================
