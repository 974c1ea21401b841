---------------------------- MODULE ReadingProofs ---------------------------
(***************************************************************************)
(* Who is shown a row, for all users, rows, keys and histories of Reading. *)
(* Each property is a fact about two principals and a row; that they are   *)
(* principals, with pairs for permissions, follows from type correctness.  *)
(***************************************************************************)
EXTENDS Reading, AccessProofs

-----------------------------------------------------------------------------
(* Type correctness *)

\* The variables of the readers keep their types: roles that are given out,
\* scopes that keys are issued with, and a row that may exist.
THEOREM ReadingTypes == ReadingSpec => []ReadingTypeOK
  <1>1. ReadingInit => ReadingTypeOK
    BY DEF ReadingInit, ReadingTypeOK
  <1>2. ReadingTypeOK /\ [ReadingNext]_readingVars => ReadingTypeOK'
    <2> SUFFICES ASSUME ReadingTypeOK, [ReadingNext]_readingVars
                 PROVE  ReadingTypeOK'
      OBVIOUS
    <2> USE DEF ReadingTypeOK
    <2>1. CASE IssueKey
      BY <2>1 DEF IssueKey
    <2>2. CASE Move
      BY <2>2 DEF Move
    <2>3. CASE Expose
      BY <2>3 DEF Expose
    <2>4. ASSUME NEW r \in Role, GiveRole(r)
          PROVE  ReadingTypeOK'
      BY <2>4 DEF GiveRole
    <2>5. CASE UNCHANGED readingVars
      BY <2>5 DEF readingVars
    <2>6. QED
      BY <2>1, <2>2, <2>3, <2>4, <2>5 DEF ReadingNext
  <1>3. QED
    BY <1>1, <1>2, PTL DEF ReadingSpec

\* The permissions that come with the seeded roles are pairs.
LEMMA SeededArePermissions ==
    ASSUME NEW r \in DOMAIN Seeded
    PROVE  ArePermissions(Seeded[r])
  BY DEF Seeded, ArePermissions, IsPermission, Everything, AllOf

\* The user is a principal, with his session and with his key.
LEMMA SessionIsPrincipal ==
    ASSUME ReadingTypeOK
    PROVE  /\ IsPrincipal(WithSession)
           /\ WithKey = KeyPrincipal(WithSession, scopes)
           /\ ArePermissions(scopes)
  <1>1. \A r \in roles : ArePermissions(Seeded[r])
    BY ReadingAssumption, SeededArePermissions DEF ReadingTypeOK
  <1>2. ArePermissions(UNION {Seeded[r] : r \in roles})
    BY <1>1 DEF ArePermissions
  <1>3. ArePermissions(scopes)
    BY ReadingAssumption DEF ReadingTypeOK, ArePermissions, IsPermission
  <1>4. QED
    BY <1>2, <1>3 DEF IsPrincipal, WithSession, WithKey, KeyPrincipal

-----------------------------------------------------------------------------
(* One principal and one row *)

\* Who may do everything in an area may do each thing in it.
LEMMA AllOfIncludes ==
    ASSUME NEW permissions, NEW area, NEW verb, Has(permissions, AllOf(area))
    PROVE  Has(permissions, <<area, verb>>)
  <1>1. PICK granted \in permissions : Covers(granted, AllOf(area))
    BY DEF Has
  <1>2. Covers(granted, <<area, verb>>)
    BY <1>1 DEF Covers, AllOf
  <1>3. QED
    BY <1>2 DEF Has

\* Can is Has with a condition on the row that does not depend on what is asked.
LEMMA CanWithout ==
    ASSUME NEW p, NEW asked, NEW wanted, NEW r,
           Can(p, asked, r), Has(p.permissions, wanted)
    PROVE  Can(p, wanted, r)
  BY DEF Can

\* Whoever can do something has the permission for it.
LEMMA CanHas ==
    ASSUME NEW p, NEW wanted, NEW r, Can(p, wanted, r)
    PROVE  Has(p.permissions, wanted)
  BY DEF Can

\* Whoever may read a plan finds it among those that the query of the list selects.
LEMMA ReadablePlansAreSelected ==
    ASSUME NEW p, NEW r, CanReadPlan(p, r)
    PROVE  Selected(p, r)
  <1>1. CASE ManagesPlan(p, r)
    BY <1>1, CanHas DEF ManagesPlan, Selected
  <1>2. CASE OwnsPlan(p, r)
    BY <1>2 DEF OwnsPlan, Selected
  <1>3. CASE /\ SameOrganization(p, r.organization)
             /\ Can(p, <<"plan", "organization">>, r)
    BY <1>3, CanHas DEF Selected
  <1>4. QED
    BY <1>1, <1>2, <1>3 DEF CanReadPlan

\* The lists, the search, the tools and the scenario agree about every principal.
LEMMA ShownAlike ==
    ASSUME NEW p, NEW r \in Row
    PROVE  /\ r.area \in DOMAIN ToolPermission /\ exposed => (Told(p, r) <=> Listed(p, r))
           /\ Listed(p, r) /\ r.area # "scenario" => Searched(p, r)
           /\ Searched(p, r) => MayRead(p, r)
           /\ MayRead(p, r) /\ r.area # "plan" => Listed(p, r)
           /\ MayRun(p, r) => Listed(p, r)
  <1>1. r.area \in Area \cup {"plan"}
    BY DEF Row
  <1>2. ASSUME r.area \in DOMAIN ToolPermission
        PROVE  r.area # "plan" /\ ToolPermission[r.area] = <<r.area, "read">>
    BY <1>2 DEF ToolPermission
  <1>3. r.area \in DOMAIN ToolPermission /\ exposed => (Told(p, r) <=> Listed(p, r))
    BY <1>2 DEF Told, Listed
  <1>4. Listed(p, r) /\ r.area # "scenario" => Searched(p, r)
    BY <1>1 DEF Listed, Searched, Area
  <1>5. Searched(p, r) => MayRead(p, r)
    BY DEF Searched, MayRead, Area
  <1>6. MayRead(p, r) /\ r.area # "plan" => Listed(p, r)
    BY CanHas DEF MayRead, Listed
  <1>7. MayRun(p, r) => Listed(p, r)
    BY AllOfIncludes, CanWithout DEF MayRun, Listed
  <1>8. QED
    BY <1>3, <1>4, <1>5, <1>6, <1>7

\* What is told to a principal he may read, or he has dashboard:executive.
LEMMA BriefedIsReadable ==
    ASSUME NEW p, NEW r, Briefed(p, r)
    PROVE  \/ MayRead(p, r)
           \/ r.area = "plan" /\ Has(p.permissions, <<"dashboard", "executive">>)
  <1>1. CASE r.area # "plan"
    BY <1>1 DEF Briefed, MayRead
  <1>2. CASE r.area = "plan" /\ ~Has(p.permissions, <<"dashboard", "executive">>)
    <2>1. CountedPlan(p, r) /\ Can(p, <<"dashboard", "read">>, r)
      BY <1>2 DEF Briefed, CountedPlan
    <2>2. CASE Has(p.permissions, AllOf("plan"))
      BY <1>2, <2>1, <2>2, CanWithout DEF MayRead, CanReadPlan, ManagesPlan
    <2>3. CASE Has(p.permissions, <<"plan", "own">>) /\ r.owner = p.id
      BY <1>2, <2>1, <2>3, CanWithout DEF MayRead, CanReadPlan, OwnsPlan
    <2>4. CASE /\ Has(p.permissions, <<"plan", "organization">>)
               /\ SameOrganization(p, r.organization)
      BY <1>2, <2>1, <2>4, CanWithout DEF MayRead, CanReadPlan
    <2>5. QED
      BY <1>2, <2>1, <2>2, <2>3, <2>4 DEF CountedPlan
  <1>3. QED
    BY <1>1, <1>2

\* What is counted may be read, except by executives who count plans.
LEMMA CountedIsReadable ==
    ASSUME NEW p, NEW r, Counted(p, r) \/ Evidence(p, r)
    PROVE  \/ MayRead(p, r)
           \/ r.area = "plan" /\ Has(p.permissions, <<"dashboard", "executive">>)
  <1>1. CASE Briefed(p, r)
    BY <1>1, BriefedIsReadable
  <1>2. CASE r.area \in {"strategy", "decision"} /\ Can(p, <<r.area, "read">>, r)
    BY <1>2 DEF MayRead
  <1>3. QED
    BY <1>1, <1>2 DEF Counted, Evidence

\* Whoever may create a row is shown it by the list.
LEMMA CreatedIsListed ==
    ASSUME NEW p, NEW r, MayCreate(p, r)
    PROVE  Listed(p, r)
  <1>1. CASE r.area # "plan"
    BY <1>1, AllOfIncludes, CanWithout DEF MayCreate, Listed
  <1>2. CASE r.area = "plan"
    <2>1. r.owner = p.id /\ Can(p, <<"plan", "own">>, r)
      BY <1>2 DEF MayCreate, MayCreatePlan
    <2>2. CanReadPlan(p, r)
      BY <2>1 DEF CanReadPlan, OwnsPlan
    <2>3. QED
      BY <1>2, <2>1, <2>2, CanHas, ReadablePlansAreSelected DEF Listed
  <1>3. QED
    BY <1>1, <1>2

\* What the principal of a key is shown is shown to its user.
LEMMA KeyShowsNoMore ==
    ASSUME NEW user, IsPrincipal(user), NEW key, NEW set, ArePermissions(set),
           key = KeyPrincipal(user, set), NEW r
    PROVE  /\ Listed(key, r) => MayRead(user, r)
           /\ Searched(key, r) => Searched(user, r)
           /\ Told(key, r) => Told(user, r)
           /\ Counted(key, r) => Counted(user, r)
           /\ Evidence(key, r) => Evidence(user, r)
           /\ MayRun(key, r) => MayRun(user, r)
  <1>1. /\ key.permissions = EffectiveKeyScopes(set, user.permissions)
        /\ key.id = user.id
        /\ key.organization = user.organization
    BY DEF KeyPrincipal, IsPrincipal
  <1>2. \A wanted : Has(key.permissions, wanted) => Has(user.permissions, wanted)
    BY <1>1, ScopesAreInTheIntersection DEF IsPrincipal
  <1>3. \A wanted : Can(key, wanted, r) => Can(user, wanted, r)
    BY KeyNeverExceedsUser
  <1>4. CanReadPlan(key, r) => CanReadPlan(user, r)
    BY KeyNeverExceedsUserOnPlans
  <1>5. Listed(key, r) => MayRead(user, r)
    BY <1>3, <1>4 DEF Listed, MayRead
  <1>6. Searched(key, r) => Searched(user, r)
    BY <1>3, <1>4 DEF Searched
  <1>7. Told(key, r) => Told(user, r)
    BY <1>2, <1>3 DEF Told
  <1>8. CountedPlan(key, r) => CountedPlan(user, r)
    BY <1>1, <1>2, <1>3 DEF CountedPlan, SameOrganization
  <1>9. Briefed(key, r) => Briefed(user, r)
    BY <1>3, <1>8 DEF Briefed
  <1>10. Counted(key, r) => Counted(user, r)
    BY <1>2, <1>3, <1>9 DEF Counted
  <1>11. Evidence(key, r) => Evidence(user, r)
    BY <1>2, <1>9 DEF Evidence
  <1>12. MayRun(key, r) => MayRun(user, r)
    BY <1>2, <1>3 DEF MayRun
  <1>13. QED
    BY <1>5, <1>6, <1>7, <1>10, <1>11, <1>12

-----------------------------------------------------------------------------
(* The properties *)

\* The tools of the MCP server show what the lists of REST show, and so does the
\* search, but for plans; whoever may run a scenario may read it
\* (docs/api-and-mcp.md, callMCPTool, globalSearch, the list handlers).
THEOREM ChannelsAlwaysAgree == ReadingSpec => []ChannelsAgree
  <1>1. ReadingTypeOK => ChannelsAgree
    BY ShownAlike DEF ReadingTypeOK, ChannelsAgree
  <1>2. QED
    BY <1>1, ReadingTypes, PTL

\* A key shows nothing that its user would not be shown at that moment, whatever
\* became of his roles after it was issued (authenticateAPIKey).
THEOREM KeysNeverShowMore == ReadingSpec => []KeysShowNoMore
  <1>1. ReadingTypeOK => KeysShowNoMore
    BY SessionIsPrincipal, KeyShowsNoMore DEF KeysShowNoMore
  <1>2. QED
    BY <1>1, ReadingTypes, PTL

\* The dashboard, the brief and the evidence of AI answers count what the principal
\* may read, except for the plans that executives are told about
\* (executiveDashboard, mcpBrief, aiEvidence).
THEOREM CountsAreAlwaysReadable == ReadingSpec => []CountsAreReadable
  <1>1. CountsAreReadable
    BY CountedIsReadable DEF CountsAreReadable
  <1>2. QED
    BY <1>1, PTL

\* Whoever creates a row is shown it by the list (the create handlers).
THEOREM CreatorsAlwaysRead == ReadingSpec => []CreatorsRead
  <1>1. CreatorsRead
    BY CreatedIsListed DEF CreatorsRead
  <1>2. QED
    BY <1>1, PTL
=============================================================================
