------------------------------- MODULE ApiKeys ------------------------------
(***************************************************************************)
(* The personal keys of one user: createKey, rotateKey and revokeKey under *)
(* the policy of the administrators.  A rotation reads the old key,        *)
(* inserts its replacement, looks the replacement up and shortens the old  *)
(* key, in statements without a transaction around them.                   *)
(*                                                                         *)
(* Time passes in days; a key holds the days it has left.  The scopes only *)
(* add reasons to refuse a request and are left out.                       *)
(***************************************************************************)
EXTENDS Integers, FiniteSets, FiniteSetsExt

CONSTANTS MaxKeys,     \* how many keys are ever issued
          Lifetime,    \* the maxLifetimeDays the policy may be set to
          Overlap,     \* the rotationOverlapHours it may be set to, in days
          Keeper,      \* the slots of concurrent requests of the user
          NoKey

Key == 1 .. MaxKeys    \* in the order in which they are issued

ASSUME KeyAssumption ==
    /\ MaxKeys \in Nat /\ NoKey \notin Key
    /\ IsFiniteSet(Lifetime) /\ Lifetime \subseteq Nat \ {0} /\ Lifetime # {}
    /\ IsFiniteSet(Overlap) /\ Overlap \subseteq Nat /\ Overlap # {}

VARIABLES
    policy,      \* the row security/personal_keys
    keys,        \* the rows of personal_access_keys
    keeper,      \* keeper[q]: the request in slot q
    origin,      \* history: the pairs of an old key and a replacement inserted for it
    promised     \* history: the days that rotations left an old key at most

keyVars == <<policy, keys, keeper, origin, promised>>

Longest == Max(Lifetime \cup Overlap)

NoRequest == [kind |-> "none", phase |-> "idle", old |-> NoKey, new |-> NoKey, days |-> 0]

KeysTypeOK ==
    /\ policy \in [lifetime : Lifetime, overlap : Overlap]
    /\ DOMAIN keys \subseteq Key
    /\ keys \in [DOMAIN keys -> [left : 0 .. Longest, revoked : BOOLEAN,
                                 replaced : DOMAIN keys \cup {NoKey}]]
    /\ keeper \in [Keeper ->
           [kind : {"none", "create", "rotate"},
            phase : {"idle", "insert", "shorten"},
            old : DOMAIN keys \cup {NoKey}, new : DOMAIN keys \cup {NoKey},
            days : 0 .. Longest]]
    /\ origin \subseteq (DOMAIN keys) \X (DOMAIN keys)
    /\ promised \in [Key -> 0 .. Longest]

KeysInit ==
    /\ policy = [lifetime |-> Max(Lifetime), overlap |-> Max(Overlap)]
    /\ keys = [k \in {} |-> NoKey]
    /\ keeper = [q \in Keeper |-> NoRequest]
    /\ origin = {}
    /\ promised = [k \in Key |-> Longest]

-----------------------------------------------------------------------------

ChangePolicy ==
    /\ policy' \in [lifetime : Lifetime, overlap : Overlap]
    /\ UNCHANGED <<keys, keeper, origin, promised>>

DayAfter(days) == Max({days - 1, 0})

\* A day passes, for what rotations promised too.
Day ==
    /\ keys' = [k \in DOMAIN keys |-> [keys[k] EXCEPT !.left = DayAfter(@)]]
    /\ promised' = [k \in Key |-> IF promised[k] = Longest THEN Longest
                                  ELSE DayAfter(promised[k])]
    /\ UNCHANGED <<policy, keeper, origin>>

\* What authenticateAPIKey asks of a key.
Valid(key) == ~key.revoked /\ key.left > 0

\* issueKey: zero days are as many as the policy allows.
Days(days) == IF days = 0 THEN policy.lifetime ELSE days

StartCreate(q, days) ==
    /\ keeper[q] = NoRequest
    /\ Days(days) <= policy.lifetime
    /\ keeper' = [keeper EXCEPT ![q] = [NoRequest EXCEPT
           !.kind = "create", !.phase = "insert", !.days = Days(days)]]
    /\ UNCHANGED <<policy, keys, origin, promised>>

\* rotateKey: the replacement lives as long as the old key would have, unless
\* the user asks for another time; a key with less than a day left, or that has
\* expired, is replaced by one of full life.
StartRotate(q, k, days) ==
    /\ keeper[q] = NoRequest
    /\ k \in DOMAIN keys
    /\ ~keys[k].revoked
    /\ LET life == Days(IF days = 0 THEN keys[k].left ELSE days)
       IN  /\ life <= policy.lifetime
           /\ keeper' = [keeper EXCEPT ![q] = [NoRequest EXCEPT
                  !.kind = "rotate", !.phase = "insert", !.old = k, !.days = life]]
    /\ UNCHANGED <<policy, keys, origin, promised>>

\* The ids are random and the order of creation is that of the numbers.
KeyInserted(q) ==
    LET k == Cardinality(DOMAIN keys) + 1
    IN  /\ keeper[q].phase = "insert"
        /\ k \in Key
        /\ keys' = [x \in DOMAIN keys \cup {k} |->
               IF x = k THEN [left |-> keeper[q].days, revoked |-> FALSE, replaced |-> NoKey]
               ELSE keys[x]]
        /\ IF keeper[q].kind = "create"
           THEN /\ keeper' = [keeper EXCEPT ![q] = NoRequest]
                /\ UNCHANGED origin
           ELSE /\ keeper' = [keeper EXCEPT ![q].phase = "shorten", ![q].new = k,
                                               ![q].days = 0]
                /\ origin' = origin \cup {<<keeper[q].old, k>>}
        /\ UNCHANGED <<policy, promised>>

\* (mutant) the replacement is taken to be the latest key of the user
FoundLatest(q) == Max(DOMAIN keys)

\* The replacement is found again by its random prefix, which no other key has:
\* it does not matter when.
Found(q) == keeper[q].new

\* (mutant) the end of the overlap replaces the expiry
ExpiryReplaced(left) == policy.overlap

\* LEAST: a rotation never lengthens the life of the old key.
Expiry(left) == Min({left, policy.overlap})

\* The old key is not checked again: another rotation may have replaced it, and
\* it may be revoked.
Shortened(q) ==
    /\ keeper[q].phase = "shorten"
    /\ LET k == keeper[q].old
       IN  /\ keys' = [keys EXCEPT ![k].replaced = Found(q), ![k].left = Expiry(@)]
           /\ promised' = [promised EXCEPT ![k] = Min({@, policy.overlap})]
    /\ keeper' = [keeper EXCEPT ![q] = NoRequest]
    /\ UNCHANGED <<policy, origin>>

\* revokeKey
KeyRevoked(k) ==
    /\ k \in DOMAIN keys
    /\ ~keys[k].revoked
    /\ keys' = [keys EXCEPT ![k].revoked = TRUE]
    /\ UNCHANGED <<policy, keeper, origin, promised>>

\* The client goes away, the deadline passes or a statement fails.
KeeperFails(q) ==
    /\ keeper[q] # NoRequest
    /\ keeper' = [keeper EXCEPT ![q] = NoRequest]
    /\ UNCHANGED <<policy, keys, origin, promised>>

KeysNext ==
    \/ ChangePolicy
    \/ Day
    \/ \E q \in Keeper, days \in 0 .. Longest :
           StartCreate(q, days) \/ \E k \in Key : StartRotate(q, k, days)
    \/ \E q \in Keeper : KeyInserted(q) \/ Shortened(q) \/ KeeperFails(q)
    \/ \E k \in Key : KeyRevoked(k)

KeysSpec == KeysInit /\ [][KeysNext]_keyVars

-----------------------------------------------------------------------------

\* The replacement that a key records was issued for it, whatever other keys the
\* user's requests create meanwhile.
ReplacementsAreOwn ==
    \A k \in DOMAIN keys : keys[k].replaced # NoKey => <<k, keys[k].replaced>> \in origin

\* An old key lives no longer than each of its rotations answered, when rotations
\* under different policies follow or overlap each other too.
RotationsKeepPromises == \A k \in DOMAIN keys : keys[k].left <= promised[k]

\* A key that has expired or was revoked never opens anything again, although keys
\* are rotated after that too and policies grow.
KeysStayDead ==
    [][\A k \in DOMAIN keys : ~Valid(keys[k]) => ~Valid(keys'[k])]_keyVars

\* Wrong: once a replacement exists, and no rotation of the old key is under way,
\* the old key is shortened to the overlap.
RotationShortensOldKey ==
    \A p \in origin :
        \/ keys[p[1]].left <= Max(Overlap)
        \/ \E q \in Keeper : keeper[q].old = p[1] /\ keeper[q].phase = "shorten"
=============================================================================
