--------------------------- MODULE Organizations ----------------------------
(***************************************************************************)
(* The organizations and the users that belong to them, as administrators  *)
(* change them: createOrganization, updateOrganization and the             *)
(* organization that updateUserAdmin sets.                                 *)
(*                                                                         *)
(* A table is a function from the ids of its rows to the column that       *)
(* refers to an organization.  Creating and assigning are one statement;   *)
(* moving an organization is two, the query that looks for a cycle and the *)
(* update, and no transaction keeps the tree still in between.             *)
(***************************************************************************)
EXTENDS Integers, FiniteSets

CONSTANTS Org,       \* the ids organizations may get
          User,      \* the users
          Mover,     \* the slots of concurrent updateOrganization requests
          None       \* no organization, no parent

ASSUME OrgAssumption == IsFiniteSet(Org) /\ None \notin Org

VARIABLES
    organizations,   \* organizations[o]: the parent_id of row o
    users,           \* users[u]: the organization_id of row u
    move,            \* move[r]: the request in slot r
    raced            \* history variable: a move was written into a tree that
                     \* was changed after its check

orgVars == <<organizations, users, move, raced>>

\* A table with rows for some of the ids.
IsTable(t, Id) == DOMAIN t \subseteq Id /\ t \in [DOMAIN t -> Org \cup {None}]

Idle == [phase |-> "idle", org |-> None, parent |-> None, stale |-> FALSE]

Move == [phase : {"idle", "check", "write"}, org : Org \cup {None},
         parent : Org \cup {None}, stale : BOOLEAN]

OrgTypeOK ==
    /\ IsTable(organizations, Org)
    /\ IsTable(users, User)
    /\ move \in [Mover -> Move]
    /\ raced \in BOOLEAN

OrgInit ==
    /\ organizations = [o \in {} |-> None]
    /\ users = [u \in User |-> None]
    /\ move = [r \in Mover |-> Idle]
    /\ raced = FALSE

-----------------------------------------------------------------------------
(* The tree.  A recursive query finds the least set that holds the children *)
(* of o and the children of what it holds.                                  *)

HoldsChildren(t, S, o) == \A x \in DOMAIN t : t[x] \in S \cup {o} => x \in S

Descendants(t, o) ==
    {x \in DOMAIN t : \A S \in SUBSET DOMAIN t : HoldsChildren(t, S, o) => x \in S}

OnCycle(t, o) == o \in Descendants(t, o)

Forest(t) == \A o \in DOMAIN t : ~OnCycle(t, o)

Refers(t, o) == o = None \/ o \in DOMAIN t

-----------------------------------------------------------------------------
(* createOrganization, updateUserAdmin *)

\* A new id is one that no request can have named.
FreshOrg(o) ==
    /\ o \notin DOMAIN organizations
    /\ \A r \in Mover : o \notin {move[r].org, move[r].parent}

\* The foreign key wants the parent to exist.
CreateOrganization(o, parent) ==
    /\ FreshOrg(o)
    /\ Refers(organizations, parent)
    /\ organizations' = [x \in DOMAIN organizations \cup {o} |->
                            IF x = o THEN parent ELSE organizations[x]]
    /\ UNCHANGED <<users, move, raced>>

Assign(u, o) ==
    /\ u \in DOMAIN users
    /\ Refers(organizations, o)
    /\ users' = [users EXCEPT ![u] = o]
    /\ UNCHANGED <<organizations, move, raced>>

-----------------------------------------------------------------------------
(* updateOrganization *)

\* 400 organization_cycle if an organization is to be its own parent.  Without
\* a parent there is nothing to check.  The request names organizations that
\* exist when it is sent.
StartMove(r, o, parent) ==
    /\ move[r].phase = "idle"
    /\ o \in DOMAIN organizations
    /\ Refers(organizations, parent)
    /\ o # parent
    /\ move' = [move EXCEPT ![r] =
           [phase |-> IF parent = None THEN "write" ELSE "check",
            org |-> o, parent |-> parent, stale |-> FALSE]]
    /\ UNCHANGED <<organizations, users, raced>>

\* (mutant) the organization is looked for below its new parent
CreatesCycleSwapped(r) == move[r].org \in Descendants(organizations, move[r].parent)

CreatesCycle(r) == move[r].parent \in Descendants(organizations, move[r].org)

\* The recursive query ends at the first hit, or after all descendants: never
\* if there is a cycle among them.
QueryEnds(r) == CreatesCycle(r) \/ ~OnCycle(organizations, move[r].org)

FinishMove(r) == move' = [move EXCEPT ![r] = Idle]

\* 400 organization_cycle.
MoveRefused(r) ==
    /\ move[r].phase = "check"
    /\ QueryEnds(r)
    /\ CreatesCycle(r)
    /\ FinishMove(r)
    /\ UNCHANGED <<organizations, users, raced>>

MoveChecked(r) ==
    /\ move[r].phase = "check"
    /\ QueryEnds(r)
    /\ ~CreatesCycle(r)
    /\ move' = [move EXCEPT ![r].phase = "write"]
    /\ UNCHANGED <<organizations, users, raced>>

Movable(r) ==
    move[r].org \in DOMAIN organizations /\ Refers(organizations, move[r].parent)

\* What was checked before the tree changed is out of date.
MoveWritten(r) ==
    /\ move[r].phase = "write"
    /\ Movable(r)
    /\ organizations' = [organizations EXCEPT ![move[r].org] = move[r].parent]
    /\ raced' = (raced \/ move[r].stale)
    /\ move' = [q \in Mover |->
           IF q = r THEN Idle
           ELSE [move[q] EXCEPT !.stale = @ \/ move[q].phase = "write"]]
    /\ UNCHANGED users

\* 404 organization_update_failed: no such row, or no such parent.
MoveFailed(r) ==
    /\ move[r].phase = "write"
    /\ ~Movable(r)
    /\ FinishMove(r)
    /\ UNCHANGED <<organizations, users, raced>>

\* Disconnect, timeout or process stop.
CancelMove(r) ==
    /\ move[r].phase # "idle"
    /\ FinishMove(r)
    /\ UNCHANGED <<organizations, users, raced>>

HandleMove(r) == MoveRefused(r) \/ MoveChecked(r) \/ MoveWritten(r) \/ MoveFailed(r)

\* The statements that read or write a table, and wait while it is being
\* truncated.
OrgStatement ==
    \/ \E o \in Org, parent \in Org \cup {None} : CreateOrganization(o, parent)
    \/ \E u \in User, o \in Org \cup {None} : Assign(u, o)
    \/ \E r \in Mover : HandleMove(r)

-----------------------------------------------------------------------------

\* Moves that follow each other never tie a cycle: only a move that is written
\* into a tree which another move or a restore has changed since it was checked.
CyclesNeedRaces == ~Forest(organizations) => raced

=============================================================================
