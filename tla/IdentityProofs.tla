--------------------------- MODULE IdentityProofs ---------------------------
(***************************************************************************)
(* Proofs about Identity for any number of servers, subjects and           *)
(* concurrent requests.                                                    *)
(***************************************************************************)
EXTENDS Identity, TLAPS

-----------------------------------------------------------------------------
(* The inductive invariant *)

RolePhases == {"snapshot", "delete", "deleted"}

\* What a request in a phase carries, and that its account exists by then.
IsFilledIn(c) ==
    /\ c.kind = "login" => c.user \in Subject
    /\ c.phase \in {"lookup", "name", "insert", "general"} => c.kind = "login"
    /\ c.phase \in RolePhases => c.kind \in {"roles", "login"}
    /\ c.phase = "insert" => c.name \in Name
    /\ c.phase \in RolePhases \cup {"general"} => c.user \in DOMAIN users
    /\ c.kind = "roles" => c.phase \in RolePhases
    /\ c.kind = "active" => c.user \in DOMAIN users

RequestsAreFilledIn == \A q \in Request : IsFilledIn(request[q])

\* The guards on the actor's own account, as they were when the request began.
IsGuarded(c) ==
    /\ (c.kind = "roles" /\ c.actor = c.user) => Admin \in c.roles
    /\ (c.kind = "active" /\ c.actor = c.user) => c.on
    /\ (c.kind = "permissions" /\ Admin \in c.roles) => c.on

OwnAccountsAreGuarded == \A q \in Request : IsGuarded(request[q])

\* Nothing exists and nobody is served before the bootstrap user is committed,
\* by one server.
BootstrapIsFirst ==
    /\ Root \in DOMAIN users => users[Root].name = Root
    /\ Root \notin DOMAIN users =>
          /\ DOMAIN users = {}
          /\ \A q \in Request : request[q] = Idle
    /\ \A s \in Server : server[s] = "up" => Root \in DOMAIN users
    /\ \A s \in Server : server[s] = "commit" => Root \notin DOMAIN users
    /\ \A s, t \in Server : server[s] = "commit" /\ server[t] = "commit" => s = t

BootstrapUserRules ==
    (Root \in DOMAIN users /\ ~demoted) => userRoles[Root][Admin] = "granted"

\* The rows that open transactions have deleted are theirs alone.
DeletedRowsAreDisjoint ==
    \A q, o \in Request :
        (/\ q # o
         /\ request[q].phase = "deleted" /\ request[o].phase = "deleted"
         /\ request[q].user = request[o].user)
            => request[q].rows \cap request[o].rows = {}

\* What a login is about to delete is mapped, from its snapshot to its commit.
DeletesMapped(c) ==
    (c.kind = "login" /\ c.phase \in {"delete", "deleted"}) =>
        \A r \in c.rows : userRoles[c.user][r] = "mapped"

LoginsDeleteMappedRoles == \A q \in Request : DeletesMapped(request[q])

IInv ==
    /\ TypeOK
    /\ RequestsAreFilledIn
    /\ OwnAccountsAreGuarded
    /\ BootstrapIsFirst
    /\ BootstrapUserRules
    /\ DeletedRowsAreDisjoint
    /\ LoginsDeleteMappedRoles
    /\ Admin \in wild
    /\ AdministratorsRemain

-----------------------------------------------------------------------------
(* Lemmas about requests *)

\* An idle slot is a request that carries nothing.
LEMMA IdleRequest ==
    Idle \in RequestType /\ IsFilledIn(Idle) /\ IsGuarded(Idle) /\ DeletesMapped(Idle)
  BY DEF Idle, RequestType, IsFilledIn, IsGuarded, DeletesMapped, RolePhases

\* The initial state satisfies the invariant.
LEMMA InitIInv == Init => IInv
  <1> SUFFICES ASSUME Init PROVE IInv
    OBVIOUS
  <1>1. TypeOK
    BY IdleRequest DEF Init, TypeOK, Role
  <1>2. RequestsAreFilledIn /\ OwnAccountsAreGuarded /\ LoginsDeleteMappedRoles
    BY IdleRequest DEF Init, RequestsAreFilledIn, OwnAccountsAreGuarded,
                       LoginsDeleteMappedRoles
  <1>3. BootstrapIsFirst /\ BootstrapUserRules /\ Admin \in wild
    BY DEF Init, BootstrapIsFirst, BootstrapUserRules
  <1>4. DeletedRowsAreDisjoint
    BY DEF Init, Idle, DeletedRowsAreDisjoint
  <1>5. AdministratorsRemain
    BY DEF Init, AdministratorsRemain
  <1>6. QED
    BY <1>1, <1>2, <1>3, <1>4, <1>5 DEF IInv

\* A step that changes one request and no table keeps the invariant if the
\* request is well formed, and if what it has deleted no other one has.
LEMMA RequestStepInv ==
    ASSUME IInv, UNCHANGED <<server, Accounts, History>>,
           Root \in DOMAIN users \/ request' = request,
           NEW q \in Request, NEW c \in RequestType,
           request' = [request EXCEPT ![q] = c],
           IsFilledIn(c), IsGuarded(c), DeletesMapped(c),
           c.phase = "deleted" => c.rows \cap Locked(c.user, q) = {}
    PROVE  IInv'
  <1>1. /\ users' = users /\ userRoles' = userRoles /\ wild' = wild
        /\ server' = server /\ given' = given /\ demoted' = demoted /\ upset' = upset
    BY DEF Accounts, History
  <1>2. request \in [Request -> RequestType]
    BY DEF IInv, TypeOK
  <1>3. \A o \in Request : request'[o] = IF o = q THEN c ELSE request[o]
    BY <1>2
  <1>4. TypeOK'
    <2>1. request' \in [Request -> RequestType]
      BY <1>2
    <2>2. QED
      BY <1>1, <2>1 DEF IInv, TypeOK
  <1>5. RequestsAreFilledIn' /\ OwnAccountsAreGuarded' /\ LoginsDeleteMappedRoles'
    BY <1>1, <1>3 DEF IInv, RequestsAreFilledIn, OwnAccountsAreGuarded, LoginsDeleteMappedRoles,
                      IsFilledIn, IsGuarded, DeletesMapped
  <1>6. BootstrapIsFirst' /\ BootstrapUserRules' /\ (Admin \in wild)' /\ AdministratorsRemain'
    BY <1>1 DEF IInv, BootstrapIsFirst, BootstrapUserRules, AdministratorsRemain,
                Administrator, Holds
  <1>7. DeletedRowsAreDisjoint'
    <2>1. ASSUME NEW o \in Request, o # q, c.phase = "deleted",
                 request[o].phase = "deleted", request[o].user = c.user
          PROVE  c.rows \cap request[o].rows = {}
      BY <2>1 DEF Locked
    <2>2. QED
      BY <1>3, <2>1 DEF IInv, DeletedRowsAreDisjoint
  <1>8. QED
    BY <1>4, <1>5, <1>6, <1>7 DEF IInv

\* Requests of any kind begin well formed.
LEMMA ArriveInv ==
    ASSUME IInv, NEW q \in Request, Arrive(q)
    PROVE  IInv'
  <1>1. Idle \in RequestType
    BY IdleRequest
  <1>2. ASSUME NEW c \in RequestType, Begin(q, c), UNCHANGED <<server, Accounts, History>>,
               IsFilledIn(c), IsGuarded(c), c.phase \notin {"delete", "deleted"}
        PROVE  IInv'
    <2>1. Root \in DOMAIN users
      BY <1>2 DEF Begin, Serving, IInv, BootstrapIsFirst
    <2>2. DeletesMapped(c)
      BY <1>2 DEF DeletesMapped
    <2>3. QED
      BY <1>2, <2>1, <2>2, RequestStepInv DEF Begin
  <1>3. CASE \E s \in Subject, roles \in Mapped : StartLogin(q, s, roles)
    <2>1. PICK s \in Subject, roles \in Mapped : StartLogin(q, s, roles)
      BY <1>3
    <2> DEFINE c == [Idle EXCEPT !.kind = "login", !.phase = "lookup",
                                 !.user = s, !.roles = roles]
    <2>2. c \in RequestType
      BY <1>1, IdentityAssumption DEF RequestType, Account
    <2>3. /\ c.kind = "login" /\ c.phase = "lookup" /\ c.user = s
      BY DEF Idle
    <2>4. IsFilledIn(c) /\ IsGuarded(c)
      BY <2>3 DEF IsFilledIn, IsGuarded, RolePhases
    <2>5. QED
      BY <2>1, <2>2, <2>3, <2>4, <1>2 DEF StartLogin
  <1>4. CASE \E p, u \in Account, roles \in Assigned : StartRoles(q, p, u, roles)
    <2>1. PICK p \in Account, u \in Account, roles \in Assigned : StartRoles(q, p, u, roles)
      BY <1>4
    <2> DEFINE c == [Idle EXCEPT !.kind = "roles", !.phase = "snapshot",
                                 !.actor = p, !.user = u, !.roles = roles]
    <2>2. c \in RequestType
      BY <1>1, IdentityAssumption DEF RequestType
    <2>3. /\ c.kind = "roles" /\ c.phase = "snapshot" /\ c.user = u /\ c.actor = p
          /\ c.roles = roles
      BY DEF Idle
    <2>4. IsFilledIn(c) /\ IsGuarded(c)
      BY <2>1, <2>3 DEF IsFilledIn, IsGuarded, RolePhases, StartRoles
    <2>5. QED
      BY <2>1, <2>2, <2>3, <2>4, <1>2 DEF StartRoles
  <1>5. CASE \E p, u \in Account, on \in BOOLEAN : StartActive(q, p, u, on)
    <2>1. PICK p \in Account, u \in Account, on \in BOOLEAN : StartActive(q, p, u, on)
      BY <1>5
    <2> DEFINE c == [Idle EXCEPT !.kind = "active", !.phase = "write",
                                 !.actor = p, !.user = u, !.on = on]
    <2>2. c \in RequestType
      BY <1>1 DEF RequestType
    <2>3. /\ c.kind = "active" /\ c.phase = "write" /\ c.user = u /\ c.actor = p
          /\ c.on = on
      BY DEF Idle
    <2>4. IsFilledIn(c) /\ IsGuarded(c)
      BY <2>1, <2>3 DEF IsFilledIn, IsGuarded, RolePhases, StartActive
    <2>5. QED
      BY <2>1, <2>2, <2>3, <2>4, <1>2 DEF StartActive
  <1>6. CASE \E p \in Account, r \in Role, on \in BOOLEAN : StartPermissions(q, p, r, on)
    <2>1. PICK p \in Account, r \in Role, on \in BOOLEAN : StartPermissions(q, p, r, on)
      BY <1>6
    <2> DEFINE c == [Idle EXCEPT !.kind = "permissions", !.phase = "write",
                                 !.actor = p, !.roles = {r}, !.on = on]
    <2>2. c \in RequestType
      BY <1>1 DEF RequestType
    <2>3. /\ c.kind = "permissions" /\ c.phase = "write" /\ c.roles = {r} /\ c.on = on
      BY DEF Idle
    <2>4. IsFilledIn(c) /\ IsGuarded(c)
      BY <2>1, <2>3 DEF IsFilledIn, IsGuarded, RolePhases, StartPermissions
    <2>5. QED
      BY <2>1, <2>2, <2>3, <2>4, <1>2 DEF StartPermissions
  <1>7. QED
    BY <1>3, <1>4, <1>5, <1>6 DEF Arrive

\* A request that ends without a write.
LEMMA FinishInv ==
    ASSUME IInv, NEW q \in Request, Finish(q), UNCHANGED <<server, Accounts, History>>
    PROVE  IInv'
  <1>1. Idle.phase = "idle"
    BY DEF Idle
  <1>2. Root \in DOMAIN users \/ request' = request
    <2>1. CASE Root \notin DOMAIN users
      <3>1. request[q] = Idle
        BY <2>1 DEF IInv, BootstrapIsFirst
      <3>2. QED
        BY <3>1 DEF Finish, IInv, TypeOK
    <2>2. QED
      BY <2>1
  <1>3. QED
    BY <1>1, <1>2, IdleRequest, RequestStepInv DEF Finish

\* An account exists for every request that is under way.
LEMMA BusyAfterBootstrap ==
    ASSUME IInv, NEW q \in Request, request[q].phase # "idle"
    PROVE  Root \in DOMAIN users
  BY DEF IInv, BootstrapIsFirst, Idle

\* The steps of a login and of setUserRoles before they write roles.
LEMMA PrepareInv ==
    ASSUME IInv, NEW q \in Request,
           LoginLookup(q) \/ LoginName(q) \/ DeleteRows(q) \/ DeleteResumes(q)
    PROVE  IInv'
  <1> DEFINE c == request[q]
  <1>1. /\ c \in RequestType /\ IsFilledIn(c) /\ IsGuarded(c) /\ DeletesMapped(c)
        /\ request \in [Request -> RequestType]
    BY DEF IInv, TypeOK, RequestsAreFilledIn, OwnAccountsAreGuarded,
           LoginsDeleteMappedRoles
  <1>2. CASE LoginLookup(q)
    <2> DEFINE d == [c EXCEPT !.phase = IF c.user \in DOMAIN users
                                        THEN "snapshot" ELSE "name"]
    <2>1. c.phase = "lookup" /\ request' = [request EXCEPT ![q] = d]
      BY <1>2, <1>1 DEF LoginLookup, Advance
    <2>2. /\ d \in RequestType /\ d.phase \in {"snapshot", "name"}
          /\ d.kind = "login" /\ d.user = c.user
          /\ d.phase = "snapshot" => d.user \in DOMAIN users
      BY <1>1, <2>1 DEF RequestType, IsFilledIn
    <2>3. IsFilledIn(d) /\ IsGuarded(d) /\ DeletesMapped(d)
      BY <1>1, <2>1, <2>2 DEF IsFilledIn, IsGuarded, DeletesMapped, RolePhases
    <2> HIDE DEF d
    <2>4. QED
      BY <1>2, <2>1, <2>2, <2>3, BusyAfterBootstrap, RequestStepInv DEF LoginLookup
  <1>3. CASE LoginName(q)
    <2> DEFINE n == IF Claim[c.user] \in Taken THEN c.user ELSE Claim[c.user]
               d == [c EXCEPT !.phase = "insert", !.name = n]
    <2>1. c.phase = "name" /\ request' = [request EXCEPT ![q] = d]
      BY <1>3, <1>1 DEF LoginName
    <2>2. c.kind = "login" /\ c.user \in Subject
      BY <1>1, <2>1 DEF IsFilledIn
    <2>3. n \in Name
      BY <2>2 DEF Name
    <2>4. /\ d \in RequestType /\ d.phase = "insert" /\ d.kind = "login"
          /\ d.user = c.user /\ d.name \in Name
      BY <1>1, <2>2, <2>3 DEF RequestType
    <2>5. IsFilledIn(d) /\ IsGuarded(d) /\ DeletesMapped(d)
      BY <2>2, <2>4 DEF IsFilledIn, IsGuarded, DeletesMapped, RolePhases
    <2> HIDE DEF d
    <2>6. QED
      BY <1>3, <2>1, <2>4, <2>5, BusyAfterBootstrap, RequestStepInv DEF LoginName
  <1>4. CASE DeleteRows(q)
    <2> DEFINE d == [c EXCEPT !.rows = Deletable(q),
                              !.phase = IF Waits(q, Deletable(q)) THEN "delete"
                                        ELSE "deleted"]
    <2>1. c.phase = "snapshot" /\ request' = [request EXCEPT ![q] = d]
      BY <1>4, <1>1 DEF DeleteRows
    <2>2. Deletable(q) \in SUBSET Role
      BY DEF Deletable
    <2>3. /\ d \in RequestType /\ d.phase \in {"delete", "deleted"}
          /\ d.kind = c.kind /\ d.user = c.user /\ d.actor = c.actor
          /\ d.roles = c.roles /\ d.on = c.on /\ d.rows = Deletable(q)
          /\ d.phase = "deleted" => ~Waits(q, Deletable(q))
      BY <1>1, <2>2 DEF RequestType
    <2>4. IsFilledIn(d) /\ IsGuarded(d)
      BY <1>1, <2>1, <2>3 DEF IsFilledIn, IsGuarded, RolePhases
    <2>5. DeletesMapped(d)
      BY <2>3 DEF DeletesMapped, Deletable
    <2>6. d.phase = "deleted" => d.rows \cap Locked(d.user, q) = {}
      BY <2>3 DEF Waits
    <2> HIDE DEF d
    <2>7. QED
      BY <1>4, <2>1, <2>3, <2>4, <2>5, <2>6, BusyAfterBootstrap, RequestStepInv
      DEF DeleteRows
  <1>5. CASE DeleteResumes(q)
    <2> DEFINE d == [c EXCEPT !.phase = "deleted"]
    <2>1. c.phase = "delete" /\ request' = [request EXCEPT ![q] = d]
      BY <1>5, <1>1 DEF DeleteResumes, Advance
    <2>2. /\ d \in RequestType /\ d.phase = "deleted"
          /\ d.kind = c.kind /\ d.user = c.user /\ d.actor = c.actor
          /\ d.roles = c.roles /\ d.on = c.on /\ d.rows = c.rows
      BY <1>1 DEF RequestType
    <2>3. IsFilledIn(d) /\ IsGuarded(d) /\ DeletesMapped(d)
      BY <1>1, <2>1, <2>2 DEF IsFilledIn, IsGuarded, DeletesMapped, RolePhases
    <2>4. d.rows \cap Locked(d.user, q) = {}
      BY <1>5, <2>2 DEF DeleteResumes, Waits
    <2> HIDE DEF d
    <2>5. QED
      BY <1>5, <2>1, <2>2, <2>3, <2>4, BusyAfterBootstrap, RequestStepInv
      DEF DeleteResumes
  <1>6. QED
    BY <1>2, <1>3, <1>4, <1>5

-----------------------------------------------------------------------------
(* The servers *)

\* A server that starts creates the bootstrap user at most once.
LEMMA BootInv ==
    ASSUME IInv, NEW s \in Server, Boot(s)
    PROVE  IInv'
  <1>1. TypeOK /\ BootstrapIsFirst
    BY DEF IInv
  <1>2. CASE ~BootCommit(s)
    <2>1. /\ UNCHANGED <<Accounts, request, History>>
          /\ server' \in [Server -> {"down", "insert", "commit", "up"}]
          /\ \A t \in Server : t # s => server'[t] = server[t]
      BY <1>1, <1>2 DEF Boot, BootFound, BootAbsent, BootInsert, TypeOK
    <2>2. /\ server'[s] = "up" => Root \in DOMAIN users
          /\ server'[s] = "commit" =>
                /\ Root \notin DOMAIN users
                /\ \A t \in Server : server[t] # "commit"
      <3>1. Root \in DOMAIN users => Root \in Taken
        BY <1>1 DEF BootstrapIsFirst, Taken
      <3>2. Root \notin Pending => \A t \in Server : server[t] # "commit"
        BY DEF Pending
      <3>3. QED
        BY <1>1, <1>2, <3>1, <3>2 DEF Boot, BootFound, BootAbsent, BootInsert, TypeOK
    <2>3. BootstrapIsFirst'
      BY <1>1, <2>1, <2>2 DEF BootstrapIsFirst, Accounts
    <2>4. TypeOK'
      BY <1>1, <2>1 DEF TypeOK, Accounts, History
    <2>5. QED
      BY <2>1, <2>3, <2>4
      DEF IInv, Accounts, History, RequestsAreFilledIn, IsFilledIn, OwnAccountsAreGuarded,
          IsGuarded, BootstrapUserRules, DeletedRowsAreDisjoint, LoginsDeleteMappedRoles,
          DeletesMapped, AdministratorsRemain, Administrator, Holds
  <1>3. CASE BootCommit(s)
    <2>1. /\ Root \notin DOMAIN users /\ DOMAIN users = {}
          /\ \A q \in Request : request[q] = Idle
          /\ \A t \in Server : server[t] # "up" /\ (server[t] = "commit" => t = s)
      BY <1>1, <1>3 DEF BootCommit, BootstrapIsFirst
    <2>2. /\ users' = [u \in {Root} |-> [name |-> Root, active |-> TRUE]]
          /\ UNCHANGED <<wild, request, History>>
          /\ server' = [server EXCEPT ![s] = "up"]
          /\ userRoles' = [userRoles EXCEPT ![Root][Admin] = "granted"]
      BY <1>3, <2>1 DEF BootCommit, RootRow
    <2>3. /\ DOMAIN users' = {Root} /\ users'[Root].name = Root
          /\ users'[Root].active /\ userRoles'[Root][Admin] = "granted"
      BY <1>1, <2>2 DEF TypeOK, Account, Role
    <2>4. TypeOK'
      <3>1. users' \in [DOMAIN users' -> [name : Name, active : BOOLEAN]]
        BY <2>2, <2>3 DEF Name
      <3>2. userRoles' \in [Account -> [Role -> {"none", "granted", "mapped"}]]
        BY <1>1, <2>2 DEF TypeOK
      <3>3. \A u \in Account \ DOMAIN users' : userRoles'[u] = [r \in Role |-> "none"]
        BY <1>1, <2>1, <2>2, <2>3 DEF TypeOK
      <3>4. server' \in [Server -> {"down", "insert", "commit", "up"}]
        BY <1>1, <2>2 DEF TypeOK
      <3>5. QED
        BY <1>1, <2>2, <2>3, <3>1, <3>2, <3>3, <3>4 DEF TypeOK, Account, History
    <2>5. BootstrapIsFirst'
      BY <1>1, <2>1, <2>2, <2>3 DEF BootstrapIsFirst, TypeOK
    <2>6. /\ RequestsAreFilledIn' /\ OwnAccountsAreGuarded' /\ LoginsDeleteMappedRoles'
          /\ DeletedRowsAreDisjoint'
      BY <2>1, <2>2
      DEF RequestsAreFilledIn, IsFilledIn, OwnAccountsAreGuarded, IsGuarded,
          LoginsDeleteMappedRoles, DeletesMapped, DeletedRowsAreDisjoint, Idle, RolePhases
    <2>7. BootstrapUserRules' /\ (Admin \in wild)' /\ AdministratorsRemain'
      BY <2>2, <2>3 DEF IInv, BootstrapUserRules, AdministratorsRemain, Administrator,
                        Holds, Account
    <2>8. QED
      BY <2>4, <2>5, <2>6, <2>7 DEF IInv
  <1>4. QED
    BY <1>2, <1>3

\* A process that ends takes with it what it has not committed.
LEMMA StopInv ==
    ASSUME IInv, NEW s \in Server, Stop(s)
    PROVE  IInv'
  <1>1. /\ UNCHANGED <<Accounts, History>>
        /\ server' = [server EXCEPT ![s] = "down"]
        /\ request' = request \/ request' = [q \in Request |-> Idle]
    BY DEF Stop
  <1>2. TypeOK'
    BY <1>1, IdleRequest DEF IInv, TypeOK, Accounts, History
  <1>3. BootstrapIsFirst'
    BY <1>1 DEF IInv, BootstrapIsFirst, TypeOK, Accounts
  <1>4. RequestsAreFilledIn' /\ OwnAccountsAreGuarded' /\ LoginsDeleteMappedRoles'
    BY <1>1, IdleRequest DEF IInv, Accounts, RequestsAreFilledIn, IsFilledIn,
        OwnAccountsAreGuarded, IsGuarded, LoginsDeleteMappedRoles, DeletesMapped
  <1>5. DeletedRowsAreDisjoint'
    BY <1>1 DEF IInv, DeletedRowsAreDisjoint, Idle
  <1>6. BootstrapUserRules' /\ (Admin \in wild)' /\ AdministratorsRemain'
    BY <1>1 DEF IInv, Accounts, History, BootstrapUserRules, AdministratorsRemain,
                Administrator, Holds
  <1>7. QED
    BY <1>2, <1>3, <1>4, <1>5, <1>6 DEF IInv

-----------------------------------------------------------------------------
(* The writes of a login, of setUserRoles, updateUserAdmin and updateRole *)

\* A login inserts the account of its subject under a name nobody has.
LEMMA LoginInsertInv ==
    ASSUME IInv, NEW q \in Request, LoginInsert(q)
    PROVE  IInv'
  <1> DEFINE c == request[q]
             s == c.user
  <1>1. /\ c \in RequestType /\ IsFilledIn(c) /\ IsGuarded(c)
        /\ request \in [Request -> RequestType]
    BY DEF IInv, TypeOK, RequestsAreFilledIn, OwnAccountsAreGuarded
  <1>2. c.phase = "insert" /\ c.kind = "login" /\ s \in Subject /\ c.name \in Name
    BY <1>1 DEF LoginInsert, IsFilledIn
  <1>3. Root \in DOMAIN users
    BY <1>2, BusyAfterBootstrap
  <1>4. CASE s \in DOMAIN users \/ c.name \in Taken
    BY <1>4, FinishInv DEF LoginInsert, Accounts
  <1>5. CASE ~(s \in DOMAIN users \/ c.name \in Taken)
    <2> DEFINE d == [c EXCEPT !.phase = "general", !.name = None]
    <2>1. /\ users' = [u \in DOMAIN users \cup {s} |->
                          IF u = s THEN [name |-> c.name, active |-> TRUE] ELSE users[u]]
          /\ request' = [request EXCEPT ![q] = d]
          /\ UNCHANGED <<server, userRoles, wild, History>>
      BY <1>1, <1>5 DEF LoginInsert
    <2>2. /\ d \in RequestType /\ d.phase = "general" /\ d.kind = "login" /\ d.user = s
      BY <1>1, <1>2 DEF RequestType
    <2> HIDE DEF d
    <2>3. /\ DOMAIN users' = DOMAIN users \cup {s}
          /\ \A u \in DOMAIN users : users'[u] = users[u]
          /\ users'[s] = [name |-> c.name, active |-> TRUE]
      BY <1>5, <2>1
    <2>4. \A o \in Request : request'[o] = IF o = q THEN d ELSE request[o]
      BY <1>1, <2>1
    <2>5. TypeOK'
      <3>1. DOMAIN users' \subseteq Account
        BY <1>2, <2>3 DEF IInv, TypeOK, Account
      <3>2. users' \in [DOMAIN users' -> [name : Name, active : BOOLEAN]]
        BY <1>2, <2>1, <2>3 DEF IInv, TypeOK
      <3>3. \A u, v \in DOMAIN users' : users'[u].name = users'[v].name => u = v
        BY <1>5, <2>3 DEF IInv, TypeOK, Taken
      <3>4. request' \in [Request -> RequestType]
        BY <1>1, <2>1, <2>2
      <3>5. \A u \in Account \ DOMAIN users' : userRoles'[u] = [r \in Role |-> "none"]
        BY <2>1, <2>3 DEF IInv, TypeOK
      <3>6. QED
        BY <2>1, <3>1, <3>2, <3>3, <3>4, <3>5 DEF IInv, TypeOK, History
    <2>6. RequestsAreFilledIn'
      <3>1. IsFilledIn(request[q])'
        BY <2>2, <2>3, <2>4, <1>2 DEF IsFilledIn, RolePhases
      <3>2. ASSUME NEW o \in Request, IsFilledIn(request[o]), o # q
            PROVE  IsFilledIn(request[o])'
        BY <2>3, <2>4, <3>2 DEF IsFilledIn
      <3>3. QED
        BY <3>1, <3>2 DEF RequestsAreFilledIn, IInv
    <2>7. OwnAccountsAreGuarded' /\ LoginsDeleteMappedRoles'
      BY <2>1, <2>2, <2>4 DEF IInv, OwnAccountsAreGuarded, IsGuarded,
                              LoginsDeleteMappedRoles, DeletesMapped
    <2>8. BootstrapIsFirst' /\ BootstrapUserRules' /\ (Admin \in wild)'
      BY <1>3, <2>1, <2>3 DEF IInv, BootstrapIsFirst, BootstrapUserRules, History
    <2>9. DeletedRowsAreDisjoint'
      BY <2>2, <2>4 DEF IInv, DeletedRowsAreDisjoint
    <2>10. AdministratorsRemain'
      BY <1>3, <2>1, <2>3 DEF IInv, AdministratorsRemain, Administrator, Holds, History
    <2>11. QED
      BY <2>5, <2>6, <2>7, <2>8, <2>9, <2>10 DEF IInv
  <1>6. QED
    BY <1>4, <1>5

\* The role that every new account gets is added to what it has.
LEMMA LoginGeneralInv ==
    ASSUME IInv, NEW q \in Request, LoginGeneral(q)
    PROVE  IInv'
  <1> DEFINE c == request[q]
             s == c.user
             d == [c EXCEPT !.phase = "snapshot"]
  <1>1. /\ c \in RequestType /\ IsFilledIn(c) /\ IsGuarded(c)
        /\ request \in [Request -> RequestType]
        /\ userRoles \in [Account -> [Role -> {"none", "granted", "mapped"}]]
    BY DEF IInv, TypeOK, RequestsAreFilledIn, OwnAccountsAreGuarded
  <1>2. /\ c.phase = "general" /\ c.kind = "login" /\ s \in Subject /\ s \in DOMAIN users
        /\ s \in Account /\ General \in Role
    BY <1>1 DEF LoginGeneral, IsFilledIn, Account, Role
  <1>3. /\ userRoles' = [userRoles EXCEPT ![s][General] = IF @ = "none" THEN "granted" ELSE @]
        /\ request' = [request EXCEPT ![q] = d]
        /\ UNCHANGED <<server, users, wild, History>>
    BY <1>1 DEF LoginGeneral, Advance
  <1>4. /\ d \in RequestType /\ d.phase = "snapshot" /\ d.kind = "login" /\ d.user = s
    BY <1>1, <1>2 DEF RequestType
  <1> HIDE DEF d
  <1>5. \A o \in Request : request'[o] = IF o = q THEN d ELSE request[o]
    BY <1>1, <1>3
  <1>6. \A u \in Account, r \in Role :
            userRoles'[u][r] = IF u = s /\ r = General /\ userRoles[u][r] = "none"
                               THEN "granted" ELSE userRoles[u][r]
    BY <1>1, <1>2, <1>3
  <1>7. TypeOK'
    <2>1. request' \in [Request -> RequestType]
      BY <1>1, <1>3, <1>4
    <2>2. userRoles' \in [Account -> [Role -> {"none", "granted", "mapped"}]]
      BY <1>1, <1>2, <1>3
    <2>3. \A u \in Account \ DOMAIN users' : userRoles'[u] = [r \in Role |-> "none"]
      BY <1>1, <1>2, <1>3 DEF IInv, TypeOK
    <2>4. QED
      BY <1>3, <2>1, <2>2, <2>3 DEF IInv, TypeOK, History
  <1>8. RequestsAreFilledIn' /\ OwnAccountsAreGuarded'
    BY <1>2, <1>3, <1>4, <1>5 DEF IInv, RequestsAreFilledIn, IsFilledIn, RolePhases,
        OwnAccountsAreGuarded, IsGuarded
  <1>9. LoginsDeleteMappedRoles'
    <2>1. ASSUME NEW o \in Request, o # q, DeletesMapped(request[o])
          PROVE  DeletesMapped(request[o])'
      <3>1. request[o] \in RequestType /\ IsFilledIn(request[o])
        BY <1>1 DEF IInv, RequestsAreFilledIn
      <3>2. QED
        BY <1>5, <1>6, <2>1, <3>1 DEF DeletesMapped, IsFilledIn, RequestType, Account
    <2>2. DeletesMapped(request[q])'
      BY <1>4, <1>5 DEF DeletesMapped
    <2>3. QED
      BY <2>1, <2>2 DEF IInv, LoginsDeleteMappedRoles
  <1>10. BootstrapIsFirst'
    BY <1>2, <1>3, BusyAfterBootstrap DEF IInv, BootstrapIsFirst
  <1>11. BootstrapUserRules' /\ (Admin \in wild)'
    BY <1>2, <1>3, <1>6, IdentityAssumption
    DEF IInv, BootstrapUserRules, History, Account, Role
  <1>12. DeletedRowsAreDisjoint'
    BY <1>4, <1>5 DEF IInv, DeletedRowsAreDisjoint
  <1>13. AdministratorsRemain'
    <2>1. ASSUME NEW p \in Account, Administrator(p)
          PROVE  Administrator(p)'
      BY <1>3, <1>6, <2>1 DEF Administrator, Holds, IInv, TypeOK
    <2>2. QED
      BY <1>3, <2>1 DEF IInv, AdministratorsRemain, History
  <1>14. QED
    BY <1>7, <1>8, <1>9, <1>10, <1>11, <1>12, <1>13 DEF IInv

\* q commits its roles: what that does to the rows of all accounts.
WritesRoles(q, source) ==
    /\ Insertable(q)
    /\ userRoles' = [userRoles EXCEPT ![request[q].user] = Replace(q, source)]
    /\ users' = users

RowsAreReplaced(q, source) ==
    /\ userRoles' \in [Account -> [Role -> {"none", "granted", "mapped"}]]
    /\ \A u \in Account, r \in Role :
          userRoles'[u][r] = IF u = request[q].user /\ r \in request[q].roles THEN source
                             ELSE IF u = request[q].user /\ r \in request[q].rows THEN "none"
                             ELSE userRoles[u][r]
    /\ \A u \in Account \ DOMAIN users : userRoles'[u] = userRoles[u]

\* No other open transaction has deleted a row that q touches.
RowsAreFree(q) ==
    \A o \in Request :
        (/\ o # q /\ request[o].phase = "deleted"
         /\ request[o].user = request[q].user) =>
            request[o].rows \cap (request[q].roles \cup request[q].rows) = {}

\* A commit of roles replaces the rows it has deleted, which are its own.
LEMMA ReplacedRows ==
    ASSUME IInv, NEW q \in Request, NEW source \in {"granted", "mapped"},
           WritesRoles(q, source)
    PROVE  RowsAreReplaced(q, source) /\ RowsAreFree(q)
  <1>1. /\ request[q] \in RequestType /\ IsFilledIn(request[q])
        /\ request[q].phase = "deleted"
        /\ userRoles \in [Account -> [Role -> {"none", "granted", "mapped"}]]
        /\ DOMAIN users \subseteq Account
    BY DEF WritesRoles, Insertable, IInv, TypeOK, RequestsAreFilledIn
  <1>2. request[q].user \in DOMAIN users
    BY <1>1 DEF IsFilledIn, RolePhases
  <1>3. Replace(q, source) \in [Role -> {"none", "granted", "mapped"}]
    BY <1>1, <1>2 DEF Replace
  <1>4. userRoles' \in [Account -> [Role -> {"none", "granted", "mapped"}]]
    BY <1>1, <1>2, <1>3 DEF WritesRoles
  <1>5. \A u \in Account, r \in Role :
            userRoles'[u][r] =
                IF u = request[q].user /\ r \in request[q].roles THEN source
                ELSE IF u = request[q].user /\ r \in request[q].rows THEN "none"
                ELSE userRoles[u][r]
    BY <1>1, <1>2 DEF WritesRoles, Replace
  <1>6. \A u \in Account \ DOMAIN users : userRoles'[u] = userRoles[u]
    BY <1>1, <1>2 DEF WritesRoles
  <1>7. ASSUME NEW o \in Request, o # q, request[o].phase = "deleted",
               request[o].user = request[q].user
        PROVE  request[o].rows \cap (request[q].roles \cup request[q].rows) = {}
    <2>1. request[o].rows \cap request[q].roles = {}
      BY <1>7 DEF WritesRoles, Insertable, Locked
    <2>2. request[o].rows \cap request[q].rows = {}
      BY <1>1, <1>7 DEF IInv, DeletedRowsAreDisjoint
    <2>3. QED
      BY <2>1, <2>2
  <1>8. QED
    BY <1>4, <1>5, <1>6, <1>7 DEF RowsAreReplaced, RowsAreFree

\* A commit of roles keeps what the invariant says of requests and their rows.
LEMMA CommitRolesInv ==
    ASSUME IInv, NEW q \in Request, NEW source \in {"granted", "mapped"},
           WritesRoles(q, source),
           source = "granted" =>
               \A r \in request[q].roles \ request[q].rows : ~Holds(request[q].user, r),
           CommitRequest(q), UNCHANGED <<server, users, wild>>,
           {demoted', upset'} \subseteq BOOLEAN, given' \in [Subject -> SUBSET Role]
    PROVE  /\ TypeOK'
           /\ RequestsAreFilledIn'
           /\ OwnAccountsAreGuarded'
           /\ BootstrapIsFirst'
           /\ DeletedRowsAreDisjoint'
           /\ LoginsDeleteMappedRoles'
  <1> DEFINE c == request[q]
  <1>1. request \in [Request -> RequestType]
    BY DEF IInv, TypeOK
  <1>2. \A o \in Request :
            \/ request'[o] = Idle
            \/ /\ o # q
               /\ request[o].phase = "delete" => request[o].user # c.user
               /\ request'[o] = request[o]
            \/ /\ o # q /\ request[o].phase = "delete" /\ request[o].user = c.user
               /\ request'[o] = [request[o] EXCEPT !.rows = @ \ c.rows]
    BY DEF CommitRequest
  <1>3. ASSUME NEW o \in Request
        PROVE  /\ request'[o] \in RequestType
               /\ \/ request'[o] = Idle
                  \/ /\ o # q
                     /\ request'[o].kind = request[o].kind
                     /\ request'[o].phase = request[o].phase
                     /\ request'[o].user = request[o].user
                     /\ request'[o].actor = request[o].actor
                     /\ request'[o].name = request[o].name
                     /\ request'[o].roles = request[o].roles
                     /\ request'[o].on = request[o].on
                     /\ request'[o].rows = IF /\ request[o].phase = "delete"
                                              /\ request[o].user = c.user
                                           THEN request[o].rows \ c.rows
                                           ELSE request[o].rows
    <2>1. request[o] \in RequestType /\ c \in RequestType
      BY <1>1
    <2>2. CASE request'[o] = Idle
      BY <2>2, IdleRequest
    <2>3. CASE /\ o # q
               /\ request[o].phase = "delete" => request[o].user # c.user
               /\ request'[o] = request[o]
      BY <2>1, <2>3
    <2>4. CASE /\ o # q /\ request[o].phase = "delete" /\ request[o].user = c.user
               /\ request'[o] = [request[o] EXCEPT !.rows = @ \ c.rows]
      BY <2>1, <2>4 DEF RequestType
    <2>5. QED
      BY <1>2, <2>2, <2>3, <2>4
  <1>4. RowsAreReplaced(q, source) /\ RowsAreFree(q)
    BY ReplacedRows
  <1>5. Idle.kind = "none" /\ Idle.phase = "idle"
    BY DEF Idle
  <1>6. TypeOK'
    <2>1. request' \in [Request -> RequestType]
      BY <1>3 DEF CommitRequest
    <2>2. QED
      BY <1>4, <2>1 DEF IInv, TypeOK, RowsAreReplaced
  <1>7. RequestsAreFilledIn'
    <2>1. ASSUME NEW o \in Request
          PROVE  IsFilledIn(request[o])'
      <3>1. IsFilledIn(request[o])
        BY DEF IInv, RequestsAreFilledIn
      <3>2. CASE request'[o] = Idle
        BY <3>2 DEF Idle, IsFilledIn, RolePhases
      <3>3. CASE request'[o] # Idle
        BY <1>3, <3>1, <3>3 DEF IsFilledIn
      <3>4. QED
        BY <3>2, <3>3
    <2>2. QED
      BY <2>1 DEF RequestsAreFilledIn
  <1>8. OwnAccountsAreGuarded'
    <2>1. ASSUME NEW o \in Request
          PROVE  IsGuarded(request[o])'
      <3>1. IsGuarded(request[o])
        BY DEF IInv, OwnAccountsAreGuarded
      <3>2. CASE request'[o] = Idle
        BY <3>2 DEF Idle, IsGuarded
      <3>3. CASE request'[o] # Idle
        BY <1>3, <3>1, <3>3 DEF IsGuarded
      <3>4. QED
        BY <3>2, <3>3
    <2>2. QED
      BY <2>1 DEF OwnAccountsAreGuarded
  <1>9. BootstrapIsFirst'
    <2>1. Root \in DOMAIN users
      BY BusyAfterBootstrap DEF WritesRoles, Insertable
    <2>2. QED
      BY <2>1 DEF IInv, BootstrapIsFirst
  <1>10. DeletedRowsAreDisjoint'
    <2>1. \A o \in Request : request'[o].phase = "deleted" =>
              /\ request[o].phase = "deleted"
              /\ request'[o].user = request[o].user
              /\ request'[o].rows = request[o].rows
      <3>1. ASSUME NEW o \in Request, request'[o].phase = "deleted"
            PROVE  /\ request[o].phase = "deleted"
                   /\ request'[o].user = request[o].user
                   /\ request'[o].rows = request[o].rows
        BY <1>3, <1>5, <3>1
      <3>2. QED
        BY <3>1
    <2>2. QED
      BY <2>1 DEF IInv, DeletedRowsAreDisjoint
  <1>11. LoginsDeleteMappedRoles'
    <2>1. ASSUME NEW o \in Request, request'[o].kind = "login",
                 request'[o].phase \in {"delete", "deleted"},
                 NEW r \in request'[o].rows
          PROVE  userRoles'[request'[o].user][r] = "mapped"
      <3>1. /\ o # q /\ request[o].kind = "login"
            /\ request[o].phase \in {"delete", "deleted"}
            /\ request'[o].user = request[o].user
            /\ r \in request[o].rows
            /\ (request[o].phase = "delete" /\ request[o].user = c.user) => r \notin c.rows
        <4>1. request'[o] # Idle
          BY <1>5, <2>1
        <4>2. QED
          BY <1>3, <2>1, <4>1
      <3>2. userRoles[request[o].user][r] = "mapped"
        BY <3>1 DEF IInv, LoginsDeleteMappedRoles, DeletesMapped
      <3>3. request[o].user \in Account /\ r \in Role
        BY <1>1, <3>1 DEF IInv, RequestsAreFilledIn, IsFilledIn, RequestType, Account
      <3>4. CASE request[o].user # c.user
        BY <3>1, <3>2, <3>3, <3>4, <1>4 DEF RowsAreReplaced
      <3>5. CASE request[o].user = c.user /\ request[o].phase = "deleted"
        <4>1. r \notin c.roles \cup c.rows
          BY <3>1, <3>5, <1>4 DEF RowsAreFree
        <4>2. QED
          BY <3>1, <3>2, <3>3, <4>1, <1>4 DEF RowsAreReplaced
      <3>6. CASE request[o].user = c.user /\ request[o].phase = "delete"
        <4>1. r \notin c.rows
          BY <3>1, <3>6
        <4>2. source = "granted" => r \notin c.roles
          BY <3>2, <3>6, <4>1 DEF Holds
        <4>3. QED
          BY <3>1, <3>2, <3>3, <4>1, <4>2, <1>4 DEF RowsAreReplaced
      <3>7. QED
        BY <3>1, <3>4, <3>5, <3>6
    <2>2. QED
      BY <2>1 DEF LoginsDeleteMappedRoles, DeletesMapped
  <1>12. QED
    BY <1>6, <1>7, <1>8, <1>9, <1>10, <1>11

\* A login replaces its mapped roles.  The bootstrap user is no subject.
LEMMA LoginCommitInv ==
    ASSUME IInv, NEW q \in Request, LoginCommit(q)
    PROVE  IInv'
  <1>1. WritesRoles(q, "mapped") /\ CommitRequest(q)
    BY DEF LoginCommit, WritesRoles
  <1>2. /\ UNCHANGED <<server, users, wild, demoted>>
        /\ upset' \in BOOLEAN
        /\ upset => upset'
        /\ given' \in [Subject -> SUBSET Role]
    BY DEF LoginCommit, IInv, TypeOK
  <1>3. /\ TypeOK' /\ RequestsAreFilledIn' /\ OwnAccountsAreGuarded' /\ BootstrapIsFirst'
        /\ DeletedRowsAreDisjoint' /\ LoginsDeleteMappedRoles'
    BY <1>1, <1>2, CommitRolesInv DEF IInv, TypeOK
  <1>4. RowsAreReplaced(q, "mapped")
    BY <1>1, ReplacedRows
  <1>5. request[q].user \in Subject /\ request[q].user # Root
    BY IdentityAssumption DEF LoginCommit, IInv, RequestsAreFilledIn, IsFilledIn
  <1>6. BootstrapUserRules'
    BY <1>2, <1>4, <1>5 DEF IInv, BootstrapUserRules, RowsAreReplaced, Account, Role
  <1>7. AdministratorsRemain'
    <2> SUFFICES ASSUME DOMAIN users # {}, ~upset'
                 PROVE  \E p \in Account : Administrator(p)'
      BY <1>2 DEF AdministratorsRemain
    <2>1. PICK p \in Account : Administrator(p)
      BY <1>2 DEF IInv, AdministratorsRemain
    <2>2. CASE p = request[q].user
      <3>1. \E r \in wild : userRoles'[p][r] # "none"
        BY <2>1, <2>2 DEF LoginCommit
      <3>2. QED
        BY <1>2, <2>1, <3>1 DEF Administrator, Holds
    <2>3. CASE p # request[q].user
      BY <1>2, <1>4, <2>1, <2>3 DEF Administrator, Holds, RowsAreReplaced, IInv, TypeOK
    <2>4. QED
      BY <2>2, <2>3
  <1>8. QED
    BY <1>2, <1>3, <1>6, <1>7 DEF IInv

\* An administrator replaces the roles of an account.  If it is his own he keeps
\* system_admin; otherwise he remains himself.
LEMMA RolesCommitInv ==
    ASSUME IInv, NEW q \in Request, RolesCommit(q)
    PROVE  IInv'
  <1>1. WritesRoles(q, "granted") /\ CommitRequest(q)
    BY DEF RolesCommit, WritesRoles
  <1>2. /\ UNCHANGED <<server, users, wild>>
        /\ demoted' = (demoted \/ (request[q].user = Root /\ Admin \notin request[q].roles))
        /\ upset' = (upset \/ Unsettled(q))
        /\ given' = [u \in Subject |-> IF u = request[q].user THEN request[q].roles
                                       ELSE given[u]]
    BY DEF RolesCommit
  <1>3. /\ TypeOK' /\ RequestsAreFilledIn' /\ OwnAccountsAreGuarded' /\ BootstrapIsFirst'
        /\ DeletedRowsAreDisjoint' /\ LoginsDeleteMappedRoles'
    <2>1. request[q].roles \in SUBSET Role
      BY DEF RolesCommit, IInv, TypeOK, RequestType
    <2>2. given' \in [Subject -> SUBSET Role]
      BY <1>2, <2>1 DEF IInv, TypeOK
    <2>3. QED
      BY <1>1, <1>2, <2>2, CommitRolesInv DEF IInv, TypeOK, RolesCommit
  <1>4. RowsAreReplaced(q, "granted")
    BY <1>1, ReplacedRows
  <1>5. BootstrapUserRules'
    BY <1>2, <1>4 DEF IInv, BootstrapUserRules, RowsAreReplaced, Account, Role
  <1>6. AdministratorsRemain'
    <2> SUFFICES ASSUME ~upset'
                 PROVE  \E p \in Account : Administrator(p)'
      BY DEF AdministratorsRemain
    <2> DEFINE p == request[q].actor
    <2>1. Administrator(p) /\ p \in Account
      BY <1>2 DEF Unsettled, Administrator, IInv, TypeOK
    <2>2. CASE p = request[q].user
      <3>1. Admin \in request[q].roles
        BY <2>2 DEF RolesCommit, IInv, OwnAccountsAreGuarded, IsGuarded
      <3>2. userRoles'[p][Admin] = "granted"
        BY <1>4, <2>1, <2>2, <3>1 DEF RowsAreReplaced, Role
      <3>3. \E r \in wild' : userRoles'[p][r] # "none"
        BY <1>2, <3>2 DEF IInv
      <3>4. QED
        BY <1>2, <2>1, <3>3 DEF Administrator, Holds
    <2>3. CASE p # request[q].user
      BY <1>2, <1>4, <2>1, <2>3 DEF Administrator, Holds, RowsAreReplaced, IInv, TypeOK
    <2>4. QED
      BY <2>2, <2>3
  <1>7. QED
    BY <1>2, <1>3, <1>5, <1>6 DEF IInv

\* updateUserAdmin disables nobody's own account.
LEMMA WriteActiveInv ==
    ASSUME IInv, NEW q \in Request, WriteActive(q)
    PROVE  IInv'
  <1> DEFINE c == request[q]
             u == c.user
  <1>1. /\ request \in [Request -> RequestType] /\ c \in RequestType
        /\ c.kind = "active" /\ u \in DOMAIN users
        /\ IsGuarded(c)
    BY DEF WriteActive, IInv, TypeOK, RequestsAreFilledIn, OwnAccountsAreGuarded, IsFilledIn
  <1>2. /\ users' = [users EXCEPT ![u].active = c.on]
        /\ request' = [request EXCEPT ![q] = Idle]
        /\ upset' = (upset \/ Unsettled(q))
        /\ UNCHANGED <<server, userRoles, wild, given, demoted>>
    BY DEF WriteActive, Finish
  <1>3. /\ DOMAIN users' = DOMAIN users
        /\ users' \in [DOMAIN users -> [name : Name, active : BOOLEAN]]
        /\ \A v \in DOMAIN users : /\ users'[v].name = users[v].name
                                   /\ v # u => users'[v] = users[v]
        /\ users'[u].active = c.on
    BY <1>1, <1>2 DEF IInv, TypeOK, RequestType
  <1>4. \A o \in Request : request'[o] = IF o = q THEN Idle ELSE request[o]
    BY <1>1, <1>2
  <1>5. TypeOK'
    <2>1. request' \in [Request -> RequestType]
      BY <1>1, <1>2, IdleRequest
    <2>2. \A v, w \in DOMAIN users' : users'[v].name = users'[w].name => v = w
      BY <1>3 DEF IInv, TypeOK
    <2>3. QED
      BY <1>2, <1>3, <2>1, <2>2 DEF IInv, TypeOK
  <1>6. RequestsAreFilledIn'
    <2>1. ASSUME NEW o \in Request
          PROVE  IsFilledIn(request[o])'
      <3>1. IsFilledIn(request[o])
        BY DEF IInv, RequestsAreFilledIn
      <3>2. CASE o = q
        BY <1>4, <3>2 DEF Idle, IsFilledIn, RolePhases
      <3>3. CASE o # q
        BY <1>3, <1>4, <3>1, <3>3 DEF IsFilledIn
      <3>4. QED
        BY <3>2, <3>3
    <2>2. QED
      BY <2>1 DEF RequestsAreFilledIn
  <1>7. OwnAccountsAreGuarded' /\ LoginsDeleteMappedRoles' /\ DeletedRowsAreDisjoint'
    BY <1>2, <1>4 DEF IInv, OwnAccountsAreGuarded, IsGuarded, LoginsDeleteMappedRoles,
                      DeletesMapped, DeletedRowsAreDisjoint, Idle
  <1>8. BootstrapIsFirst' /\ BootstrapUserRules' /\ (Admin \in wild)'
    BY <1>1, <1>2, <1>3 DEF IInv, BootstrapIsFirst, BootstrapUserRules
  <1>9. AdministratorsRemain'
    <2> SUFFICES ASSUME ~upset'
                 PROVE  \E p \in Account : Administrator(p)'
      BY DEF AdministratorsRemain
    <2> DEFINE p == c.actor
    <2>1. Administrator(p) /\ p \in Account
      BY <1>2 DEF Unsettled, Administrator, IInv, TypeOK
    <2>2. users'[p].active
      <3>1. CASE p = u
        BY <1>1, <1>3, <3>1 DEF IsGuarded
      <3>2. CASE p # u
        BY <1>3, <2>1, <3>2 DEF Administrator
      <3>3. QED
        BY <3>1, <3>2
    <2>3. QED
      BY <1>2, <1>3, <2>1, <2>2 DEF Administrator, Holds
  <1>10. QED
    BY <1>2, <1>5, <1>6, <1>7, <1>8, <1>9 DEF IInv

\* updateRole leaves "*" to system_admin.
LEMMA WritePermissionsInv ==
    ASSUME IInv, NEW q \in Request, WritePermissions(q)
    PROVE  IInv'
  <1> DEFINE c == request[q]
  <1>1. /\ request \in [Request -> RequestType] /\ c \in RequestType
        /\ c.kind = "permissions" /\ IsGuarded(c)
    BY DEF WritePermissions, IInv, TypeOK, OwnAccountsAreGuarded
  <1>2. /\ wild' = IF c.on THEN wild \cup c.roles ELSE wild \ c.roles
        /\ request' = [request EXCEPT ![q] = Idle]
        /\ upset' = (upset \/ ~(wild \subseteq wild'))
        /\ UNCHANGED <<server, users, userRoles, given, demoted>>
    BY DEF WritePermissions, Finish
  <1>3. (Admin \in wild)' /\ wild' \subseteq Role
    BY <1>1, <1>2 DEF IInv, TypeOK, IsGuarded, RequestType
  <1>4. \A o \in Request : request'[o] = IF o = q THEN Idle ELSE request[o]
    BY <1>1, <1>2
  <1>5. TypeOK'
    <2>1. request' \in [Request -> RequestType]
      BY <1>1, <1>2, IdleRequest
    <2>2. QED
      BY <1>2, <1>3, <2>1 DEF IInv, TypeOK
  <1>6. RequestsAreFilledIn' /\ OwnAccountsAreGuarded' /\ LoginsDeleteMappedRoles'
    BY <1>2, <1>4, IdleRequest DEF IInv, RequestsAreFilledIn, IsFilledIn, OwnAccountsAreGuarded,
        IsGuarded, LoginsDeleteMappedRoles, DeletesMapped
  <1>7. BootstrapIsFirst' /\ BootstrapUserRules' /\ DeletedRowsAreDisjoint'
    <2>1. BootstrapIsFirst' /\ BootstrapUserRules'
      BY <1>2, <1>4 DEF IInv, BootstrapIsFirst, BootstrapUserRules
    <2>2. Idle.phase = "idle"
      BY DEF Idle
    <2>3. DeletedRowsAreDisjoint'
      BY <1>4, <2>2 DEF IInv, DeletedRowsAreDisjoint
    <2>4. QED
      BY <2>1, <2>3
  <1>8. AdministratorsRemain'
    BY <1>2 DEF IInv, AdministratorsRemain, Administrator, Holds
  <1>9. QED
    BY <1>3, <1>5, <1>6, <1>7, <1>8 DEF IInv

-----------------------------------------------------------------------------
(* The invariant and the properties it implies *)

\* Every step keeps the invariant.
LEMMA NextIInv == IInv /\ [Next]_vars => IInv'
  <1> SUFFICES ASSUME IInv, [Next]_vars PROVE IInv'
    OBVIOUS
  <1>1. ASSUME NEW s \in Server, Boot(s) \/ Stop(s)
        PROVE  IInv'
    BY <1>1, BootInv, StopInv
  <1>2. ASSUME NEW q \in Request, Arrive(q)
        PROVE  IInv'
    BY <1>2, ArriveInv
  <1>3. ASSUME NEW q \in Request, Login(q)
        PROVE  IInv'
    BY <1>3, PrepareInv, LoginInsertInv, LoginGeneralInv, LoginCommitInv DEF Login
  <1>4. ASSUME NEW q \in Request, Administrate(q)
        PROVE  IInv'
    <2>1. CASE RolesFailed(q)
      BY <2>1, FinishInv DEF RolesFailed
    <2>2. QED
      BY <1>4, <2>1, RolesCommitInv, WriteActiveInv, WritePermissionsInv DEF Administrate
  <1>5. ASSUME NEW q \in Request, DeleteRows(q) \/ DeleteResumes(q)
        PROVE  IInv'
    BY <1>5, PrepareInv
  <1>6. ASSUME NEW q \in Request, Cancel(q)
        PROVE  IInv'
    BY <1>6, FinishInv DEF Cancel
  <1>7. CASE UNCHANGED vars
    BY <1>7 DEF vars, IInv, TypeOK, RequestsAreFilledIn, IsFilledIn, OwnAccountsAreGuarded,
        IsGuarded, BootstrapIsFirst, BootstrapUserRules, DeletedRowsAreDisjoint,
        LoginsDeleteMappedRoles, DeletesMapped, AdministratorsRemain, Administrator, Holds
  <1>8. QED
    BY <1>1, <1>2, <1>3, <1>4, <1>5, <1>6, <1>7 DEF Next

\* The inductive invariant holds of every behaviour.
THEOREM IdentityInvariance == Spec => []IInv
  BY InitIInv, NextIInv, PTL DEF Spec

\* The tables and the requests keep their types; in particular no two accounts
\* ever share a username (BootstrapAdmin, upsertOIDCUser).
THEOREM IdentityTypes == Spec => []TypeOK
  <1>1. IInv => TypeOK
    BY DEF IInv
  <1>2. QED
    BY <1>1, IdentityInvariance, PTL

\* Somebody can administrate at any time, whatever administrators do to each
\* other, unless power was lost in one of the three ways that upset names
\* (setUserRoles, updateUserAdmin, updateRole, oidcCallback).
THEOREM SomebodyAdministrates == Spec => []AdministratorsRemain
  <1>1. IInv => AdministratorsRemain
    BY DEF IInv
  <1>2. QED
    BY <1>1, IdentityInvariance, PTL

\* However many servers start together and crash in between, none refuses to run
\* before an administrator demotes the bootstrap user (BootstrapAdmin).
THEOREM ServersStart == Spec => []RefusalNeedsDemotion
  <1>1. IInv => RefusalNeedsDemotion
    BY DEF IInv, RefusalNeedsDemotion, Refuses, BootstrapUserRules, Holds
  <1>2. QED
    BY <1>1, IdentityInvariance, PTL

-----------------------------------------------------------------------------
(* What administrators gave: its rows stay granted, so no DELETE of a login    *)
(* takes them, until a login maps the role or an administrator takes it.       *)

GivenRolesAreGranted ==
    \A u \in Subject : \A r \in given[u] : userRoles[u][r] = "granted"

\* The commit of a login deletes mapped rows only, and what it maps is no longer
\* what an administrator gave.
LEMMA LoginKeepsGiven ==
    ASSUME IInv, GivenRolesAreGranted, NEW q \in Request, LoginCommit(q)
    PROVE  GivenRolesAreGranted'
  <1> SUFFICES ASSUME NEW u \in Subject, NEW r \in given'[u]
               PROVE  userRoles'[u][r] = "granted"
    BY DEF GivenRolesAreGranted
  <1>1. RowsAreReplaced(q, "mapped")
    BY ReplacedRows DEF LoginCommit, WritesRoles
  <1>2. /\ r \in given[u] /\ r \in Role /\ u \in Account
        /\ u = request[q].user => r \notin request[q].roles
    BY DEF LoginCommit, IInv, TypeOK, Account
  <1>3. userRoles[u][r] = "granted"
    BY <1>2 DEF GivenRolesAreGranted
  <1>4. u = request[q].user => r \notin request[q].rows
    BY <1>3 DEF LoginCommit, Insertable, IInv, LoginsDeleteMappedRoles, DeletesMapped
  <1>5. QED
    BY <1>1, <1>2, <1>3, <1>4 DEF RowsAreReplaced

\* setUserRoles grants what it gives.
LEMMA RolesKeepGiven ==
    ASSUME IInv, GivenRolesAreGranted, NEW q \in Request, RolesCommit(q)
    PROVE  GivenRolesAreGranted'
  <1> SUFFICES ASSUME NEW u \in Subject, NEW r \in given'[u]
               PROVE  userRoles'[u][r] = "granted"
    BY DEF GivenRolesAreGranted
  <1>1. RowsAreReplaced(q, "granted")
    BY ReplacedRows DEF RolesCommit, WritesRoles
  <1>2. given'[u] = IF u = request[q].user THEN request[q].roles ELSE given[u]
    BY DEF RolesCommit
  <1>3. r \in Role /\ u \in Account
    BY <1>2 DEF IInv, TypeOK, RequestType, Account
  <1>4. u # request[q].user => userRoles[u][r] = "granted"
    BY <1>2 DEF GivenRolesAreGranted
  <1>5. QED
    BY <1>1, <1>2, <1>3, <1>4 DEF RowsAreReplaced

\* No other step takes a role away.
LEMMA NextKeepsGiven ==
    IInv /\ GivenRolesAreGranted /\ [Next]_vars => GivenRolesAreGranted'
  <1> SUFFICES ASSUME IInv, GivenRolesAreGranted, [Next]_vars
               PROVE  GivenRolesAreGranted'
    OBVIOUS
  <1>1. ASSUME UNCHANGED given,
               \A u \in Account, r \in Role :
                   userRoles[u][r] = "granted" => userRoles'[u][r] = "granted"
        PROVE  GivenRolesAreGranted'
    BY <1>1 DEF GivenRolesAreGranted, IInv, TypeOK, Account
  <1>2. userRoles \in [Account -> [Role -> {"none", "granted", "mapped"}]]
    BY DEF IInv, TypeOK
  <1>3. ASSUME NEW s \in Server, Boot(s) \/ Stop(s)
        PROVE  GivenRolesAreGranted'
    BY <1>1, <1>2, <1>3 DEF Boot, BootFound, BootAbsent, BootInsert, BootCommit, Stop,
        Accounts, History
  <1>4. ASSUME NEW q \in Request, LoginGeneral(q)
        PROVE  GivenRolesAreGranted'
    BY <1>1, <1>2, <1>4 DEF LoginGeneral, History
  <1>5. ASSUME NEW q \in Request,
               \/ Arrive(q) \/ DeleteRows(q) \/ DeleteResumes(q) \/ Cancel(q)
               \/ LoginLookup(q) \/ LoginName(q) \/ LoginInsert(q)
               \/ RolesFailed(q) \/ WriteActive(q) \/ WritePermissions(q)
        PROVE  GivenRolesAreGranted'
    BY <1>1, <1>5 DEF Arrive, StartLogin, StartRoles, StartActive, StartPermissions, DeleteRows,
        DeleteResumes, Cancel, LoginLookup, LoginName, LoginInsert, RolesFailed,
        WriteActive, WritePermissions, Accounts, History
  <1>6. CASE UNCHANGED vars
    BY <1>1, <1>6 DEF vars
  <1>7. QED
    BY <1>3, <1>4, <1>5, <1>6, LoginKeepsGiven, RolesKeepGiven DEF Next, Login, Administrate

\* A role that administrators gave to a subject is held until they take it away
\* or a login maps that role itself, however logins and setUserRoles interleave
\* (assignMappedRoles, setUserRoles).
THEOREM GivenRolesAreKept == Spec => []GivenRolesAreHeld
  <1>1. Init => GivenRolesAreGranted
    BY DEF Init, GivenRolesAreGranted
  <1>2. IInv /\ GivenRolesAreGranted => GivenRolesAreHeld
    BY DEF GivenRolesAreGranted, GivenRolesAreHeld, Holds
  <1>3. QED
    BY <1>1, <1>2, NextKeepsGiven, IdentityInvariance, PTL DEF Spec
=============================================================================
