------------------------------- MODULE Access -------------------------------
(***************************************************************************)
(* The authorization decisions of internal/auth/auth.go and of the plan    *)
(* and workflow handlers of internal/server, as operators on a principal   *)
(* and a resource.  A decision reads no state, so the modules that model   *)
(* the handlers use these operators as guards.                             *)
(*                                                                         *)
(*   - A permission "area:verb" is the pair <<area, verb>>; the lone "*"   *)
(*     of the system administrator is <<"*", "*">>.                        *)
(*   - A principal is a record with the fields id, organization, roles     *)
(*     and permissions; organization is None for a nil pointer.            *)
(*   - A resource is a record with the fields owner, organization and      *)
(*     classification.                                                     *)
(***************************************************************************)
EXTENDS Integers

CONSTANT None   \* the nil pointer: no organization, no owner, no role

Everything == <<"*", "*">>

AllOf(area) == <<area, "*">>

\* One granted permission answers for a wanted one: it is "*", it is the same
\* permission, or it ends in ":*" and the wanted one is in the same area.
Covers(granted, wanted) ==
    \/ granted = Everything
    \/ granted = wanted
    \/ granted[2] = "*" /\ granted[1] = wanted[1]

Has(permissions, wanted) == \E granted \in permissions : Covers(granted, wanted)

Level == [public |-> 0, internal |-> 1, confidential |-> 2,
          executive |-> 3, restricted |-> 4]

\* An unknown classification is as closed as the most closed known one.
LevelOf(classification) ==
    IF classification \in DOMAIN Level THEN Level[classification] ELSE 4

SameOrganization(principal, organization) ==
    /\ organization # None
    /\ principal.organization = organization

Can(principal, wanted, resource) ==
    /\ Has(principal.permissions, wanted)
    /\ \/ Has(principal.permissions, Everything)
       \/ /\ LevelOf(resource.classification) >= Level.executive
                => "executive" \in principal.roles
          /\ LevelOf(resource.classification) >= Level.restricted
                => SameOrganization(principal, resource.organization)

-----------------------------------------------------------------------------
(* Plans *)

ManagesPlan(principal, plan) ==
    Can(principal, AllOf("plan"), plan)

OwnsPlan(principal, plan) ==
    plan.owner = principal.id /\ Can(principal, <<"plan", "own">>, plan)

MaySubmitPlan(principal, plan) ==
    ManagesPlan(principal, plan) \/ OwnsPlan(principal, plan)

CanReadPlan(principal, plan) ==
    \/ ManagesPlan(principal, plan)
    \/ OwnsPlan(principal, plan)
    \/ /\ SameOrganization(principal, plan.organization)
       /\ Can(principal, <<"plan", "organization">>, plan)

\* The author becomes the owner; without plan:* the plan goes to the author's
\* own organization, whatever the request left out.
MayCreatePlan(principal, plan) ==
    /\ plan.owner = principal.id
    /\ ~Has(principal.permissions, AllOf("plan"))
          => plan.organization = principal.organization
    /\ Can(principal, <<"plan", "own">>, plan)

-----------------------------------------------------------------------------
(* Workflow steps: a step is a record with the fields type and role.       *)

StepTypes == {"department_review", "planning_review", "approval"}

CanActWorkflow(principal, step, organization) ==
    \/ Has(principal.permissions, Everything)
    \/ step.role # None /\ step.role \in principal.roles
    \/ /\ step.type = "department_review"
       /\ "department_manager" \in principal.roles
       /\ SameOrganization(principal, organization)
    \/ /\ step.type = "planning_review"
       /\ {"planning_manager", "planning_admin"} \cap principal.roles # {}
    \/ /\ step.type = "approval"
       /\ {"planning_admin", "executive"} \cap principal.roles # {}

-----------------------------------------------------------------------------
(* API keys: the scopes of a key that its user still holds.                *)

EffectiveKeyScopes(scopes, permissions) ==
    {scope \in scopes : Has(permissions, scope)}

=============================================================================
