------------------------------ MODULE Identity ------------------------------
(***************************************************************************)
(* Who may do what: the accounts, the roles they hold and the processes    *)
(* that change them.  A server that starts creates the bootstrap           *)
(* administrator or refuses to run; a login through OIDC creates the       *)
(* account of its subject and synchronizes the roles mapped from the       *)
(* claims; administrators replace the roles of an account, disable it and  *)
(* edit the permissions of a role.                                         *)
(*                                                                         *)
(* Each handler runs statement by statement.  Its principal is read once,  *)
(* by the middleware, and believed until the request ends.  A DELETE of    *)
(* READ COMMITTED takes the rows it is to delete from a snapshot, then     *)
(* waits for those another transaction has deleted; rows inserted after    *)
(* the snapshot stay.  It takes its locks in one step here, so that two    *)
(* transactions which would wait for each other in PostgreSQL, until one   *)
(* of them is thrown away, are a wait and a cancelled request.             *)
(***************************************************************************)
EXTENDS FiniteSets

CONSTANTS Server,      \* the processes of the program
          Subject,     \* the OIDC subjects
          Root,        \* the configured bootstrap user
          Claim,       \* Claim[s]: the username in the claims of s
          Mapped,      \* the sets of roles the claims of a login may map to
          Assigned,    \* the sets of roles administrators give to an account
          Admin,       \* the role system_admin
          General,     \* the role general_user
          Request,     \* the slots of concurrent requests
          None

Account == Subject \cup {Root}
Role == {Admin, General}

\* The hash of a subject that is appended to a taken name makes it unique.
Name == {Root} \cup {Claim[s] : s \in Subject} \cup Subject

ASSUME IdentityAssumption ==
    /\ Root \notin Subject
    /\ Admin # General
    /\ Mapped \cup Assigned \subseteq SUBSET Role
    /\ \A s \in Subject : Claim[s] \notin Subject

VARIABLES
    server,     \* server[s]: how far the start of s is
    users,      \* the rows of users by account: name and active
    userRoles,  \* userRoles[u][r]: no row, one granted by hand, or one whose
                \* scope says that it was mapped
    wild,       \* the roles whose permissions contain "*"
    request,    \* request[q]: the request in slot q
    given,      \* history variable: given[u] are the roles administrators gave
                \* to subject u that no login of u has mapped since
    demoted,    \* history variable: administrators took system_admin from Root
    upset       \* history variable: power was lost in one of the ways that can
                \* leave nobody in charge (see Unsettled)

vars == <<server, users, userRoles, wild, request, given, demoted, upset>>

Idle == [kind |-> "none", phase |-> "idle", actor |-> None, user |-> None,
         name |-> None, roles |-> {}, rows |-> {}, on |-> FALSE]

RequestType ==
    [kind : {"none", "roles", "active", "permissions", "login"},
     phase : {"idle", "write", "lookup", "name", "insert", "general",
              "snapshot", "delete", "deleted"},
     actor : Account \cup {None}, user : Account \cup {None},
     name : Name \cup {None}, roles : SUBSET Role, rows : SUBSET Role, on : BOOLEAN]

TypeOK ==
    /\ server \in [Server -> {"down", "insert", "commit", "up"}]
    /\ DOMAIN users \subseteq Account
    /\ users \in [DOMAIN users -> [name : Name, active : BOOLEAN]]
    /\ \A u, v \in DOMAIN users : users[u].name = users[v].name => u = v
    /\ userRoles \in [Account -> [Role -> {"none", "granted", "mapped"}]]
    /\ \A u \in Account \ DOMAIN users : userRoles[u] = [r \in Role |-> "none"]
    /\ wild \subseteq Role
    /\ request \in [Request -> RequestType]
    /\ given \in [Subject -> SUBSET Role]
    /\ {demoted, upset} \subseteq BOOLEAN

\* The migration has created the tables and the roles.
Init ==
    /\ server = [s \in Server |-> "down"]
    /\ users = [u \in {} |-> [name |-> Root, active |-> TRUE]]
    /\ userRoles = [u \in Account |-> [r \in Role |-> "none"]]
    /\ wild = {Admin}
    /\ request = [q \in Request |-> Idle]
    /\ given = [u \in Subject |-> {}]
    /\ demoted = FALSE
    /\ upset = FALSE

-----------------------------------------------------------------------------
(* Authentication *)

Holds(u, r) == userRoles[u][r] # "none"

\* What Authenticate and Require("*") want of the principal.
Administrator(p) ==
    /\ p \in DOMAIN users
    /\ users[p].active
    /\ \E r \in wild : Holds(p, r)

Serving == \E s \in Server : server[s] = "up"

Finish(q) == request' = [request EXCEPT ![q] = Idle]

Advance(q, phase) == request' = [request EXCEPT ![q].phase = phase]

Begin(q, fields) ==
    /\ Serving
    /\ request[q] = Idle
    /\ request' = [request EXCEPT ![q] = fields]

Accounts == <<users, userRoles, wild>>
History == <<given, demoted, upset>>

-----------------------------------------------------------------------------
(* BootstrapAdmin *)

\* The bootstrap username exists without the role: the server will not run.
Refuses == Root \in DOMAIN users /\ ~Holds(Root, Admin)

BootFound(s) ==
    /\ server[s] = "down"
    /\ Root \in DOMAIN users
    /\ server' = [server EXCEPT ![s] = IF Refuses THEN "down" ELSE "up"]
    /\ UNCHANGED <<Accounts, request, History>>

BootAbsent(s) ==
    /\ server[s] = "down"
    /\ Root \notin DOMAIN users
    /\ server' = [server EXCEPT ![s] = "insert"]
    /\ UNCHANGED <<Accounts, request, History>>

\* The names that have a row, committed or about to be.
Pending == {Root : s \in {x \in Server : server[x] = "commit"}}
Taken == {users[u].name : u \in DOMAIN users}

RootRow == [u \in DOMAIN users \cup {Root} |->
               IF u = Root THEN [name |-> Root, active |-> TRUE] ELSE users[u]]

\* (mutant) the user is inserted outside the transaction
BootInsertAutocommit(s) ==
    /\ server[s] = "insert"
    /\ Root \notin Pending
    /\ IF Root \in Taken
       THEN server' = [server EXCEPT ![s] = "down"] /\ UNCHANGED users
       ELSE server' = [server EXCEPT ![s] = "commit"] /\ users' = RootRow
    /\ UNCHANGED <<userRoles, wild, request, History>>

\* The unique index lets the second of two servers wait for the first; the
\* second then fails and its process ends.
BootInsert(s) ==
    /\ server[s] = "insert"
    /\ Root \notin Pending
    /\ server' = [server EXCEPT ![s] = IF Root \in Taken THEN "down" ELSE "commit"]
    /\ UNCHANGED <<Accounts, request, History>>

BootCommit(s) ==
    /\ server[s] = "commit"
    /\ server' = [server EXCEPT ![s] = "up"]
    /\ users' = RootRow
    /\ userRoles' = [userRoles EXCEPT ![Root][Admin] = "granted"]
    /\ UNCHANGED <<wild, request, History>>

Boot(s) == BootFound(s) \/ BootAbsent(s) \/ BootInsert(s) \/ BootCommit(s)

\* A process ends at any moment; what it has not committed is gone.  The
\* requests of the last one go with it, those of another one by Cancel.
Stop(s) ==
    /\ server[s] # "down"
    /\ server' = [server EXCEPT ![s] = "down"]
    /\ request' = IF \E o \in Server \ {s} : server[o] = "up" THEN request
                  ELSE [q \in Request |-> Idle]
    /\ UNCHANGED <<Accounts, History>>


-----------------------------------------------------------------------------
(* oidcCallback: upsertOIDCUser, then assignMappedRoles, then the session *)

\* The claims of one login are verified and map to the roles.
StartLogin(q, s, roles) ==
    /\ Begin(q, [Idle EXCEPT !.kind = "login", !.phase = "lookup",
                             !.user = s, !.roles = roles])
    /\ UNCHANGED <<server, Accounts, History>>

\* (mutant) a subject without an account is not told from one that has one
LoginLookupUnchecked(q) ==
    /\ request[q].phase = "lookup"
    /\ Advance(q, "snapshot")
    /\ UNCHANGED <<server, Accounts, History>>

LoginLookup(q) ==
    /\ request[q].phase = "lookup"
    /\ Advance(q, IF request[q].user \in DOMAIN users THEN "snapshot" ELSE "name")
    /\ UNCHANGED <<server, Accounts, History>>

\* A taken name gets a suffix.
LoginName(q) ==
    /\ request[q].phase = "name"
    /\ LET s == request[q].user
       IN  request' = [request EXCEPT ![q].phase = "insert",
               ![q].name = IF Claim[s] \in Taken THEN s ELSE Claim[s]]
    /\ UNCHANGED <<server, Accounts, History>>

\* 500 oidc_user_failed if another login has inserted the subject or the name.
LoginInsert(q) ==
    /\ request[q].phase = "insert"
    /\ LET s == request[q].user
           name == request[q].name
       IN  IF s \in DOMAIN users \/ name \in Taken
           THEN Finish(q) /\ UNCHANGED users
           ELSE /\ users' = [u \in DOMAIN users \cup {s} |->
                       IF u = s THEN [name |-> name, active |-> TRUE] ELSE users[u]]
                /\ request' = [request EXCEPT ![q].phase = "general", ![q].name = None]
    /\ UNCHANGED <<server, userRoles, wild, History>>

\* The rows of an account that an open transaction has deleted.
Locked(u, q) ==
    UNION {request[o].rows : o \in {x \in Request \ {q} :
               request[x].phase = "deleted" /\ request[x].user = u}}

\* A statement of its own, on conflict do nothing.
LoginGeneral(q) ==
    /\ request[q].phase = "general"
    /\ General \notin Locked(request[q].user, q)
    /\ userRoles' = [userRoles EXCEPT ![request[q].user][General] =
                        IF @ = "none" THEN "granted" ELSE @]
    /\ Advance(q, "snapshot")
    /\ UNCHANGED <<server, users, wild, History>>

\* (mutant) a login deletes the roles of the account whatever their scope
DeletableUnscoped(q) == {r \in Role : Holds(request[q].user, r)}

\* setUserRoles deletes every row of the account, a login the mapped ones.
Deletable(q) ==
    {r \in Role : /\ Holds(request[q].user, r)
                  /\ request[q].kind = "login" =>
                        userRoles[request[q].user][r] = "mapped"}

Waits(q, rows) == rows \cap Locked(request[q].user, q) # {}

\* The statement looks for its rows, and locks them unless it must wait.
DeleteRows(q) ==
    /\ request[q].phase = "snapshot"
    /\ request' = [request EXCEPT ![q].rows = Deletable(q),
           ![q].phase = IF Waits(q, Deletable(q)) THEN "delete" ELSE "deleted"]
    /\ UNCHANGED <<server, Accounts, History>>

DeleteResumes(q) ==
    /\ request[q].phase = "delete"
    /\ ~Waits(q, request[q].rows)
    /\ Advance(q, "deleted")
    /\ UNCHANGED <<server, Accounts, History>>

\* When q commits, the rows it deleted drop out of the snapshots of the DELETEs
\* that waited for them, even if q has inserted the role again.
CommitRequest(q) ==
    request' = [o \in Request |->
        IF o = q THEN Idle
        ELSE IF request[o].phase = "delete" /\ request[o].user = request[q].user
        THEN [request[o] EXCEPT !.rows = @ \ request[q].rows]
        ELSE request[o]]

\* The inserts wait for rows that another transaction has deleted.
Insertable(q) ==
    /\ request[q].phase = "deleted"
    /\ request[q].roles \cap Locked(request[q].user, q) = {}

\* The rows of u once q has deleted and inserted.
Replace(q, source) ==
    [r \in Role |-> IF r \in request[q].roles THEN source
                    ELSE IF r \in request[q].rows THEN "none"
                    ELSE userRoles[request[q].user][r]]

\* ON CONFLICT DO UPDATE: a role that the claims map becomes a mapped one even
\* if it was granted by hand.  A mapped administrator who loses the mapping is
\* nobody's decision here.
LoginCommit(q) ==
    /\ request[q].kind = "login"
    /\ Insertable(q)
    /\ userRoles' = [userRoles EXCEPT ![request[q].user] = Replace(q, "mapped")]
    /\ upset' = (upset \/ (Administrator(request[q].user)
                             /\ ~\E r \in wild : userRoles'[request[q].user][r] # "none"))
    /\ given' = [given EXCEPT ![request[q].user] = @ \ request[q].roles]
    /\ CommitRequest(q)
    /\ UNCHANGED <<server, users, wild, demoted>>

-----------------------------------------------------------------------------
(* setUserRoles, updateUserAdmin, updateRole *)

\* (mutant) the handler does not look at its own account
StartRolesUnguarded(q, p, u, roles) ==
    /\ Administrator(p)
    /\ u \in DOMAIN users
    /\ Begin(q, [Idle EXCEPT !.kind = "roles", !.phase = "snapshot",
                             !.actor = p, !.user = u, !.roles = roles])
    /\ UNCHANGED <<server, Accounts, History>>

\* 409 cannot_remove_own_admin_role.
StartRoles(q, p, u, roles) ==
    /\ Administrator(p)
    /\ u \in DOMAIN users
    /\ p = u => Admin \in roles
    /\ Begin(q, [Idle EXCEPT !.kind = "roles", !.phase = "snapshot",
                             !.actor = p, !.user = u, !.roles = roles])
    /\ UNCHANGED <<server, Accounts, History>>

\* 409 cannot_disable_self.
StartActive(q, p, u, on) ==
    /\ Administrator(p)
    /\ u \in DOMAIN users
    /\ p = u => on
    /\ Begin(q, [Idle EXCEPT !.kind = "active", !.phase = "write",
                             !.actor = p, !.user = u, !.on = on])
    /\ UNCHANGED <<server, Accounts, History>>

\* 409 system_admin_wildcard_required.  on: the new permissions contain "*".
StartPermissions(q, p, r, on) ==
    /\ Administrator(p)
    /\ r = Admin => on
    /\ Begin(q, [Idle EXCEPT !.kind = "permissions", !.phase = "write",
                             !.actor = p, !.roles = {r}, !.on = on])
    /\ UNCHANGED <<server, Accounts, History>>

\* The actor may have lost the power it was believed to have.
Unsettled(q) == ~Administrator(request[q].actor)

\* 400 unknown_role and a rollback: another transaction inserted a role in
\* between.
RolesFailed(q) ==
    /\ request[q].kind = "roles"
    /\ Insertable(q)
    /\ \E r \in request[q].roles \ request[q].rows : Holds(request[q].user, r)
    /\ Finish(q)
    /\ UNCHANGED <<server, Accounts, History>>

RolesCommit(q) ==
    /\ request[q].kind = "roles"
    /\ Insertable(q)
    /\ ~\E r \in request[q].roles \ request[q].rows : Holds(request[q].user, r)
    /\ userRoles' = [userRoles EXCEPT ![request[q].user] = Replace(q, "granted")]
    /\ demoted' = (demoted \/ (request[q].user = Root /\ Admin \notin request[q].roles))
    /\ upset' = (upset \/ Unsettled(q))
    /\ given' = [u \in Subject |-> IF u = request[q].user THEN request[q].roles
                                   ELSE given[u]]
    /\ CommitRequest(q)
    /\ UNCHANGED <<server, users, wild>>

WriteActive(q) ==
    /\ request[q].kind = "active"
    /\ users' = [users EXCEPT ![request[q].user].active = request[q].on]
    /\ upset' = (upset \/ Unsettled(q))
    /\ Finish(q)
    /\ UNCHANGED <<server, userRoles, wild, given, demoted>>

\* A role other than system_admin may lose its "*" together with everybody
\* who ruled through it.
WritePermissions(q) ==
    /\ request[q].kind = "permissions"
    /\ wild' = IF request[q].on THEN wild \cup request[q].roles
               ELSE wild \ request[q].roles
    /\ upset' = (upset \/ ~(wild \subseteq wild'))
    /\ Finish(q)
    /\ UNCHANGED <<server, users, userRoles, given, demoted>>

\* Disconnect, timeout, the end of the server that handles it, or a deadlock.
Cancel(q) ==
    /\ request[q] # Idle
    /\ Finish(q)
    /\ UNCHANGED <<server, Accounts, History>>

Arrive(q) ==
    \/ \E s \in Subject, roles \in Mapped : StartLogin(q, s, roles)
    \/ \E p, u \in Account, roles \in Assigned : StartRoles(q, p, u, roles)
    \/ \E p, u \in Account, on \in BOOLEAN : StartActive(q, p, u, on)
    \/ \E p \in Account, r \in Role, on \in BOOLEAN : StartPermissions(q, p, r, on)

Login(q) == LoginLookup(q) \/ LoginName(q) \/ LoginInsert(q) \/ LoginGeneral(q)
                \/ LoginCommit(q)

Administrate(q) == RolesFailed(q) \/ RolesCommit(q) \/ WriteActive(q) \/ WritePermissions(q)

Next ==
    \/ \E s \in Server : Boot(s) \/ Stop(s)
    \/ \E q \in Request : \/ Arrive(q) \/ Login(q) \/ Administrate(q)
                          \/ DeleteRows(q) \/ DeleteResumes(q) \/ Cancel(q)

Spec == Init /\ [][Next]_vars

-----------------------------------------------------------------------------

\* Once the first server is up somebody can always administrate: the guards on
\* the own account see to it, whatever happens at the same time, unless an actor
\* wrote after losing its power, a role that is not system_admin lost its "*",
\* or a login withdrew a mapped role.
AdministratorsRemain ==
    (DOMAIN users # {} /\ ~upset) => \E p \in Account : Administrator(p)

\* No crash and no race of starting servers makes one refuse to run: only
\* administrators who took system_admin from the bootstrap user do.
RefusalNeedsDemotion == Refuses => demoted

\* A role that an administrator gave to the account of a subject is held until
\* an administrator takes it away, whatever logins run before, after and at the
\* same time, unless a login has mapped that same role since: assignMappedRoles
\* then overwrites the scope of its row, and a later login that does not map the
\* role deletes it.
GivenRolesAreHeld ==
    \A u \in Subject : \A r \in given[u] : Holds(u, r)

=============================================================================
