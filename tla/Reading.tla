------------------------------- MODULE Reading ------------------------------
(***************************************************************************)
(* Who is shown a row, and by what: the lists of the REST interface, the   *)
(* search, the tools of the MCP server, the counts of the executive        *)
(* dashboard and the brief that AI answers are made of.  Each has a check  *)
(* of its own in the code.  How many rows each of them shows at most is    *)
(* left out.                                                               *)
(*                                                                         *)
(* There is one user, with a session and an API key, and one row.  The     *)
(* roles of the user and his organization change after the key was issued. *)
(***************************************************************************)
EXTENDS Access, FiniteSets

CONSTANTS User, Other,      \* the user and another one
          Organization,
          Role,             \* the roles that are given out, of the seeded ones
          Scope,            \* the scopes keys are issued with
          Classification

\* The permissions of the roles that the migration inserts.
Seeded ==
    [system_admin       |-> {Everything},
     strategy_admin     |-> {AllOf("strategy"), AllOf("kpi"), <<"dashboard", "read">>},
     planning_admin     |-> {AllOf("plan"), AllOf("scenario"), AllOf("decision"),
                             <<"dashboard", "read">>},
     planning_manager   |-> {AllOf("plan"), <<"strategy", "read">>, <<"kpi", "read">>,
                             <<"project", "read">>, AllOf("scenario"), AllOf("decision"),
                             <<"dashboard", "read">>},
     department_manager |-> {<<"plan", "own">>, <<"plan", "organization">>,
                             AllOf("approval"), <<"dashboard", "read">>},
     project_manager    |-> {AllOf("project"), <<"dashboard", "read">>},
     executive          |-> {<<"dashboard", "executive">>, <<"dashboard", "read">>,
                             <<"strategy", "read">>, <<"kpi", "read">>,
                             <<"project", "read">>, <<"decision", "read">>,
                             <<"intelligence", "read">>, <<"scenario", "read">>},
     analyst            |-> {<<"dashboard", "read">>, <<"strategy", "read">>,
                             <<"kpi", "read">>, <<"project", "read">>,
                             <<"decision", "read">>, AllOf("intelligence"),
                             AllOf("scenario")},
     general_user       |-> {<<"strategy", "read">>, <<"kpi", "read">>, <<"plan", "own">>}]

ASSUME ReadingAssumption ==
    /\ Role \subseteq DOMAIN Seeded /\ User # Other
    /\ None \notin {User, Other} \cup Organization
    /\ \A scope \in Scope : scope = <<scope[1], scope[2]>>

Area == {"strategy", "kpi", "project", "decision", "intelligence", "scenario"}

VARIABLES
    roles, organization,   \* of the user
    scopes,                \* of the key; none before it is issued
    exposed,               \* whether the policy integration/mcp has the server
                           \* enabled and the tools for the row among its tools
    row

readingVars == <<roles, organization, scopes, exposed, row>>

Row == [area : Area \cup {"plan"}, owner : {User, Other},
        organization : Organization \cup {None}, classification : Classification]

ReadingTypeOK ==
    /\ roles \subseteq Role /\ organization \in Organization \cup {None}
    /\ scopes \subseteq Scope
    /\ exposed \in BOOLEAN
    /\ row \in Row

-----------------------------------------------------------------------------
(* Principals: loadGrants and authenticateAPIKey, anew for every request   *)

WithSession ==
    [id |-> User, organization |-> organization, roles |-> roles,
     permissions |-> UNION {Seeded[r] : r \in roles}]

\* (mutant) the scopes of the key are its permissions
StoredScopes == [WithSession EXCEPT !.permissions = scopes]

WithKey == [WithSession EXCEPT !.permissions = EffectiveKeyScopes(scopes, WithSession.permissions)]

-----------------------------------------------------------------------------
(* What shows the row                                                      *)

MayRead(p, r) ==
    IF r.area = "plan" THEN CanReadPlan(p, r) ELSE Can(p, <<r.area, "read">>, r)

\* The query of listPlans.
Selected(p, r) ==
    \/ Has(p.permissions, AllOf("plan"))
    \/ r.owner = p.id
    \/ Has(p.permissions, <<"plan", "organization">>) /\ SameOrganization(p, r.organization)

\* GET /api/v1/strategies and the others.
Listed(p, r) ==
    IF r.area = "plan"
    THEN Has(p.permissions, <<"plan", "own">>) /\ Selected(p, r) /\ CanReadPlan(p, r)
    ELSE Has(p.permissions, <<r.area, "read">>) /\ Can(p, <<r.area, "read">>, r)

\* globalSearch has no permission of its own and does not know scenarios.
Searched(p, r) ==
    \/ r.area = "plan" /\ CanReadPlan(p, r)
    \/ r.area \in Area \ {"scenario"} /\ Can(p, <<r.area, "read">>, r)

\* What a tool asks of the caller.
ToolPermission ==
    [strategy |-> <<"strategy", "read">>, kpi |-> <<"kpi", "read">>,
     project |-> <<"project", "read">>, decision |-> <<"decision", "read">>,
     intelligence |-> <<"intelligence", "read">>]

\* (mutant) a tool does not look at the row
ToldUnchecked(p, r) ==
    exposed /\ r.area \in DOMAIN ToolPermission /\ Has(p.permissions, ToolPermission[r.area])

\* The tools that show rows: get_strategy, get_kpi, get_projects,
\* get_decision_history, search_intelligence and their like.
Told(p, r) ==
    /\ exposed
    /\ r.area \in DOMAIN ToolPermission
    /\ Has(p.permissions, ToolPermission[r.area])
    /\ Can(p, <<r.area, "read">>, r)

\* executiveDashboard and mcpBrief.
CountedPlan(p, r) ==
    /\ \/ Has(p.permissions, AllOf("plan"))
       \/ Has(p.permissions, <<"dashboard", "executive">>)
       \/ Has(p.permissions, <<"plan", "own">>) /\ r.owner = p.id
       \/ /\ Has(p.permissions, <<"plan", "organization">>)
          /\ SameOrganization(p, r.organization)
    /\ Can(p, <<"dashboard", "read">>, r)

\* (mutant) plans are told about to whoever may see the dashboard
BriefedUnfiltered(p, r) ==
    IF r.area = "plan" THEN Can(p, <<"dashboard", "read">>, r)
    ELSE r.area \in {"kpi", "project"} /\ Can(p, <<r.area, "read">>, r)

\* mcpBrief: what the tool generate_executive_brief tells.
Briefed(p, r) ==
    IF r.area = "plan" THEN CountedPlan(p, r)
    ELSE r.area \in {"kpi", "project"} /\ Can(p, <<r.area, "read">>, r)

\* executiveDashboard
Counted(p, r) ==
    /\ Has(p.permissions, <<"dashboard", "read">>)
    /\ \/ Briefed(p, r)
       \/ r.area \in {"strategy", "decision"} /\ Can(p, <<r.area, "read">>, r)

\* aiEvidence
Evidence(p, r) == Has(p.permissions, <<"ai", "query">>) /\ Briefed(p, r)

\* simulateScenario, by the handler and by the tool run_scenario.
MayRun(p, r) ==
    r.area = "scenario" /\ Has(p.permissions, AllOf("scenario")) /\ Can(p, AllOf("scenario"), r)

\* (mutant) a row is created by whoever may create one of its kind
MayCreateAny(p, r) ==
    IF r.area = "plan" THEN MayCreatePlan(p, r) ELSE Has(p.permissions, AllOf(r.area))

\* createStrategy and the others.
MayCreate(p, r) ==
    IF r.area = "plan" THEN MayCreatePlan(p, r)
    ELSE Has(p.permissions, AllOf(r.area)) /\ Can(p, AllOf(r.area), r)

-----------------------------------------------------------------------------

ReadingInit ==
    /\ roles \in SUBSET Role /\ organization \in Organization \cup {None}
    /\ scopes = {}
    /\ exposed = TRUE
    /\ row \in Row

\* issueKey: no scope beyond the permissions of the moment.
IssueKey ==
    /\ scopes = {}
    /\ scopes' \in SUBSET {scope \in Scope : Has(WithSession.permissions, scope)}
    /\ UNCHANGED <<roles, organization, exposed, row>>

\* setUserRoles, by one role at a time.
GiveRole(r) ==
    /\ roles' = IF r \in roles THEN roles \ {r} ELSE roles \cup {r}
    /\ UNCHANGED <<organization, scopes, exposed, row>>

\* updateUserAdmin
Move ==
    /\ organization' \in Organization \cup {None}
    /\ UNCHANGED <<roles, scopes, exposed, row>>

\* putSetting
Expose ==
    /\ exposed' = ~exposed
    /\ UNCHANGED <<roles, organization, scopes, row>>

ReadingNext == IssueKey \/ Move \/ Expose \/ \E r \in Role : GiveRole(r)

ReadingSpec == ReadingInit /\ [][ReadingNext]_readingVars

-----------------------------------------------------------------------------

\* docs/api-and-mcp.md: the tools apply the checks of REST.  A tool that is exposed
\* shows a row to those whom the list shows it, and to nobody else.  So does the
\* search, but plans it also finds for those who may read them without the list.
\* Whoever may run a scenario may read it.
ChannelsAgree ==
    \A p \in {WithSession, WithKey} :
        /\ row.area \in DOMAIN ToolPermission /\ exposed => (Told(p, row) <=> Listed(p, row))
        /\ Listed(p, row) /\ row.area # "scenario" => Searched(p, row)
        /\ Searched(p, row) => MayRead(p, row)
        /\ MayRead(p, row) /\ row.area # "plan" => Listed(p, row)
        /\ MayRun(p, row) => Listed(p, row)

\* A key shows nothing that its user would not be shown now, whatever he was
\* allowed when the key was issued.
KeysShowNoMore ==
    /\ Listed(WithKey, row) => MayRead(WithSession, row)
    /\ Searched(WithKey, row) => Searched(WithSession, row)
    /\ Told(WithKey, row) => Told(WithSession, row)
    /\ Counted(WithKey, row) => Counted(WithSession, row)
    /\ Evidence(WithKey, row) => Evidence(WithSession, row)
    /\ MayRun(WithKey, row) => MayRun(WithSession, row)

\* docs/security.md: evidence comes from data the caller is authorized for.  What
\* is counted or told to a model may be read; only executives are told about plans
\* of others.
CountsAreReadable ==
    \A p \in {WithSession, WithKey} :
        Counted(p, row) \/ Evidence(p, row) =>
                           \/ MayRead(p, row)
                           \/ row.area = "plan" /\ Has(p.permissions, <<"dashboard", "executive">>)

\* Whoever creates a row can read it in the list.
CreatorsRead ==
    \A p \in {WithSession, WithKey} : MayCreate(p, row) => Listed(p, row)
=============================================================================
