---------------------------- MODULE AccessProofs ----------------------------
(***************************************************************************)
(* What the authorization decisions guarantee for every set of permissions *)
(* and scopes: an API key does nothing that its user may not do.           *)
(***************************************************************************)
EXTENDS Access, TLAPS

\* Permissions and scopes are pairs of an area and a verb.
IsPermission(p) == p = <<p[1], p[2]>>

ArePermissions(set) == \A p \in set : IsPermission(p)

\* Principals as the middleware attaches them to a request.
IsPrincipal(principal) ==
    /\ principal = [id |-> principal.id, organization |-> principal.organization,
                    roles |-> principal.roles, permissions |-> principal.permissions]
    /\ ArePermissions(principal.permissions)

\* The principal of a request with an API key: the user's identity, organization
\* and roles, with the effective scopes of the key for permissions.
KeyPrincipal(user, scopes) ==
    [user EXCEPT !.permissions = EffectiveKeyScopes(scopes, user.permissions)]

\* Covering is transitive: what a covered permission covers is covered.
LEMMA CoversTransitive ==
    ASSUME NEW p, NEW q, NEW w, IsPermission(p), IsPermission(q),
           Covers(p, q), Covers(q, w)
    PROVE  Covers(p, w)
  <1>1. CASE p = Everything \/ p = q
    BY <1>1 DEF Covers
  <1>2. CASE p[2] = "*" /\ p[1] = q[1]
    <2>1. CASE q = Everything
      <3>1. p = Everything
        BY <1>2, <2>1 DEF Everything, IsPermission
      <3>2. QED
        BY <3>1 DEF Covers
    <2>2. CASE q = w \/ q[1] = w[1]
      BY <1>2, <2>2 DEF Covers
    <2>3. QED
      BY <2>1, <2>2 DEF Covers
  <1>3. QED
    BY <1>1, <1>2 DEF Covers

\* A key has a permission only if its stored scopes and its user's current
\* permissions both have it (effectiveKeyScopes).
THEOREM ScopesAreInTheIntersection ==
    ASSUME NEW scopes, NEW permissions, NEW wanted,
           ArePermissions(scopes), ArePermissions(permissions),
           Has(EffectiveKeyScopes(scopes, permissions), wanted)
    PROVE  Has(scopes, wanted) /\ Has(permissions, wanted)
  <1>1. PICK scope \in scopes : Has(permissions, scope) /\ Covers(scope, wanted)
    BY DEF Has, EffectiveKeyScopes
  <1>2. PICK granted \in permissions : Covers(granted, scope)
    BY <1>1 DEF Has
  <1>3. Covers(granted, wanted)
    BY <1>1, <1>2, CoversTransitive DEF ArePermissions
  <1>4. QED
    BY <1>1, <1>3 DEF Has

\* Whatever a handler asks Can about a resource, a request with a key of a user
\* gets no yes that the user would not get (Authenticate, Principal.Can).
THEOREM KeyNeverExceedsUser ==
    ASSUME NEW user, IsPrincipal(user), NEW scopes, ArePermissions(scopes),
           NEW wanted, NEW resource,
           Can(KeyPrincipal(user, scopes), wanted, resource)
    PROVE  Can(user, wanted, resource)
  <1> DEFINE key == KeyPrincipal(user, scopes)
  <1>1. /\ key.permissions = EffectiveKeyScopes(scopes, user.permissions)
        /\ key.roles = user.roles
        /\ key.organization = user.organization
    BY DEF KeyPrincipal, IsPrincipal
  <1>2. /\ Has(key.permissions, wanted) => Has(user.permissions, wanted)
        /\ Has(key.permissions, Everything) => Has(user.permissions, Everything)
    BY <1>1, ScopesAreInTheIntersection DEF IsPrincipal
  <1>3. QED
    BY <1>1, <1>2 DEF Can, SameOrganization

\* The same for the other decisions on plans and workflow tasks.
THEOREM KeyNeverExceedsUserOnPlans ==
    ASSUME NEW user, IsPrincipal(user), NEW scopes, ArePermissions(scopes),
           NEW plan, NEW step, NEW organization
    PROVE  LET key == KeyPrincipal(user, scopes) IN
           /\ MaySubmitPlan(key, plan) => MaySubmitPlan(user, plan)
           /\ CanReadPlan(key, plan) => CanReadPlan(user, plan)
           /\ CanActWorkflow(key, step, organization)
                 => CanActWorkflow(user, step, organization)
  <1> DEFINE key == KeyPrincipal(user, scopes)
  <1>1. /\ key.permissions = EffectiveKeyScopes(scopes, user.permissions)
        /\ key.roles = user.roles
        /\ key.id = user.id
        /\ key.organization = user.organization
    BY DEF KeyPrincipal, IsPrincipal
  <1>2. \A wanted : Can(key, wanted, plan) => Can(user, wanted, plan)
    BY KeyNeverExceedsUser
  <1>3. MaySubmitPlan(key, plan) => MaySubmitPlan(user, plan)
    BY <1>1, <1>2 DEF MaySubmitPlan, ManagesPlan, OwnsPlan
  <1>4. CanReadPlan(key, plan) => CanReadPlan(user, plan)
    BY <1>1, <1>2 DEF CanReadPlan, ManagesPlan, OwnsPlan, SameOrganization
  <1>5. Has(key.permissions, Everything) => Has(user.permissions, Everything)
    BY <1>1, ScopesAreInTheIntersection DEF IsPrincipal
  <1>6. CanActWorkflow(key, step, organization) => CanActWorkflow(user, step, organization)
    BY <1>1, <1>5 DEF CanActWorkflow, SameOrganization
  <1>7. QED
    BY <1>3, <1>4, <1>6

=============================================================================
