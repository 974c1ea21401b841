-------------------------- MODULE ComponentsProofs --------------------------
(***************************************************************************)
(* Proofs about the components that share no state: the personal keys, the *)
(* settings with secrets, the throttle of logins, the AI gateway and the   *)
(* rate limit of the API, for any limits, lifetimes and numbers of         *)
(* concurrent requests.                                                    *)
(***************************************************************************)
EXTENDS MCComponents, ReadingProofs, FiniteSetTheorems

-----------------------------------------------------------------------------
(* The greatest and the least of some numbers *)

\* The greater of two numbers.
LEMMA GreatestOfTwo ==
  ASSUME NEW a \in Int, NEW b \in Int
  PROVE  Max({a, b}) = IF a >= b THEN a ELSE b
  BY DEF Max

\* The lesser of two numbers.
LEMMA LeastOfTwo ==
  ASSUME NEW a \in Int, NEW b \in Int
  PROVE  Min({a, b}) = IF a <= b THEN a ELSE b
  BY DEF Min

\* A finite set of numbers is empty or has a greatest one: one from which up the
\* set is smallest.
LEMMA GreatestExists ==
  ASSUME NEW S, IsFiniteSet(S), S \subseteq Nat, S # {}
  PROVE  \E x \in S : \A y \in S : y <= x
  <1> DEFINE Up(x) == {y \in S : x <= y}
             T == {Up(x) : x \in S}
  <1>1. PICK U \in T : \A V \in T : <<V, U>> \notin StrictSubsetOrdering(S)
    <2>1. IsWellFoundedOn(StrictSubsetOrdering(S), SUBSET S)
      BY FS_StrictSubsetOrderingWellFounded, FS_FiniteSubsetsOfFinite
    <2>2. T \subseteq SUBSET S /\ T # {}
      OBVIOUS
    <2> HIDE DEF T
    <2>3. QED
      BY <2>1, <2>2, WFMin
  <1>2. PICK x \in S : U = Up(x)
    OBVIOUS
  <1>3. ASSUME NEW y \in S, ~(y <= x)
        PROVE  FALSE
    <2>1. x \in Nat /\ y \in Nat /\ x < y
      BY <1>3
    <2>2. \A z \in Nat : y <= z => x <= z
      BY <2>1
    <2>3. Up(y) \subseteq Up(x)
      BY <2>2
    <2>4. x \in Up(x) /\ x \notin Up(y)
      BY <2>1
    <2>5. <<Up(y), Up(x)>> \in StrictSubsetOrdering(S)
      BY <2>3, <2>4 DEF StrictSubsetOrdering
    <2>6. QED
      BY <1>1, <1>2, <2>5
  <1>4. QED
    BY <1>3

\* A finite set of numbers has a greatest one, and Max is it.
LEMMA MaxIsGreatest ==
  ASSUME NEW S, IsFiniteSet(S), S \subseteq Nat, S # {}
  PROVE  /\ Max(S) \in S
         /\ \A y \in S : y <= Max(S)
  <1>1. \E x \in S : \A y \in S : x >= y
    BY GreatestExists
  <1>2. QED
    BY <1>1 DEF Max

-----------------------------------------------------------------------------
(* Personal keys *)

\* No life and no overlap that a policy allows is longer than the longest.
LEMMA LongestIsLongest ==
  /\ Longest \in Nat
  /\ \A n \in Lifetime \cup Overlap : n \in 0 .. Longest
  <1> DEFINE S == Lifetime \cup Overlap
  <1>1. IsFiniteSet(S) /\ S \subseteq Nat /\ S # {}
    BY KeyAssumption, FS_Union
  <1> HIDE DEF S
  <1>2. QED
    BY <1>1, MaxIsGreatest DEF Longest, S

\* Keys are issued one after the other.
KeysAreNumbered == DOMAIN keys = 1 .. Cardinality(DOMAIN keys)

\* Nothing was promised for a key that was not issued.
PromisesAreForKeys == \A k \in Key \ DOMAIN keys : promised[k] = Longest

\* What a request of the user carries.
IsFilledKeeper(c) ==
    /\ c.phase = "insert" => c.kind \in {"create", "rotate"}
    /\ c.kind = "rotate" => c.old \in DOMAIN keys
    /\ c.phase = "shorten" => <<c.old, c.new>> \in origin

KeepersAreFilledIn == \A q \in Keeper : IsFilledKeeper(keeper[q])

KeysIInv ==
    /\ KeysTypeOK
    /\ KeysAreNumbered
    /\ PromisesAreForKeys
    /\ KeepersAreFilledIn
    /\ ReplacementsAreOwn
    /\ RotationsKeepPromises

\* A day takes a day, and keeps the order of what is left.
LEMMA DayAfterIsLess ==
  ASSUME NEW n \in 0 .. Longest
  PROVE  /\ DayAfter(n) \in 0 .. Longest /\ DayAfter(n) <= n
         /\ DayAfter(0) = 0
         /\ \A m \in 0 .. Longest : n <= m => DayAfter(n) <= DayAfter(m)
  BY LongestIsLongest, GreatestOfTwo DEF DayAfter

\* A rotated key lives no longer than before and no longer than the overlap.
LEMMA ExpiryIsLeast ==
  ASSUME KeysTypeOK, NEW n \in 0 .. Longest
  PROVE  /\ Expiry(n) \in 0 .. Longest /\ Expiry(n) <= n /\ Expiry(n) <= policy.overlap
         /\ policy.overlap \in 0 .. Longest /\ policy.lifetime \in 0 .. Longest
  <1>1. policy.overlap \in 0 .. Longest /\ policy.lifetime \in 0 .. Longest
    BY LongestIsLongest DEF KeysTypeOK
  <1>2. QED
    BY <1>1, LongestIsLongest, LeastOfTwo DEF Expiry

\* The key that KeyInserted issues is new.
LEMMA NewKeys ==
  ASSUME KeysTypeOK, KeysAreNumbered, NEW k, k = Cardinality(DOMAIN keys) + 1
  PROVE  /\ k \notin DOMAIN keys
         /\ DOMAIN keys \cup {k} = 1 .. Cardinality(DOMAIN keys \cup {k})
  <1> DEFINE D == DOMAIN keys
             n == Cardinality(D)
  <1>1. IsFiniteSet(D)
    <2>1. IsFiniteSet(1 .. MaxKeys)
      BY KeyAssumption, FS_Interval
    <2>2. D \subseteq 1 .. MaxKeys
      BY DEF Key, KeysTypeOK
    <2>3. QED
      BY <2>1, <2>2, FS_Subset
  <1>2. n \in Nat
    BY <1>1, FS_CardinalityType
  <1>3. D = 1 .. n
    BY DEF KeysAreNumbered
  <1> HIDE DEF n
  <1>4. k = n + 1 /\ k \notin D
    BY <1>2, <1>3 DEF n
  <1>5. Cardinality(D \cup {k}) = n + 1
    BY <1>1, <1>4, FS_AddElement DEF n
  <1>6. D \cup {k} = 1 .. (n + 1)
    BY <1>2, <1>3, <1>4
  <1>7. QED
    BY <1>4, <1>5, <1>6

\* Without keys there is nothing to keep.
LEMMA KeysInitially == KeysInit => KeysIInv
  <1> SUFFICES ASSUME KeysInit
               PROVE  KeysIInv
    OBVIOUS
  <1>1. KeysTypeOK
    <2>1. Max(Lifetime) \in Lifetime /\ Max(Overlap) \in Overlap
      BY KeyAssumption, MaxIsGreatest
    <2>2. QED
      BY <2>1, LongestIsLongest DEF KeysInit, KeysTypeOK, NoRequest
  <1>2. KeysAreNumbered
    <2>1. DOMAIN keys = {} /\ Cardinality({}) = 0
      BY FS_EmptySet DEF KeysInit
    <2>2. QED
      BY <2>1 DEF KeysAreNumbered
  <1>3. QED
    BY <1>1, <1>2
    DEF KeysInit, KeysIInv, PromisesAreForKeys, KeepersAreFilledIn, IsFilledKeeper,
        ReplacementsAreOwn, RotationsKeepPromises, NoRequest

\* An action that touches neither the keys nor what was promised and written.
LEMMA KeepersKeep ==
  ASSUME KeysIInv, UNCHANGED <<keys, origin, promised>>,
         policy' \in [lifetime : Lifetime, overlap : Overlap],
         keeper' \in [Keeper ->
           [kind : {"none", "create", "rotate"},
            phase : {"idle", "insert", "shorten"},
            old : DOMAIN keys \cup {NoKey}, new : DOMAIN keys \cup {NoKey},
            days : 0 .. Longest]],
         \A q \in Keeper : IsFilledKeeper(keeper'[q])
  PROVE  KeysIInv'
  BY DEF KeysIInv, KeysTypeOK, KeysAreNumbered, PromisesAreForKeys, KeepersAreFilledIn,
      IsFilledKeeper, ReplacementsAreOwn, RotationsKeepPromises

\* An idle slot carries nothing.
LEMMA NoRequestIsFilled == IsFilledKeeper(NoRequest)
  BY DEF IsFilledKeeper, NoRequest

\* A request that begins names a key that exists and a life that the policy
\* allows.
LEMMA StartsKeep ==
  ASSUME KeysIInv, NEW q \in Keeper, NEW days \in 0 .. Longest,
         StartCreate(q, days) \/ \E k \in Key : StartRotate(q, k, days)
  PROVE  KeysIInv'
  <1>1. KeysTypeOK /\ \A p \in Keeper : IsFilledKeeper(keeper[p])
    BY DEF KeysIInv, KeepersAreFilledIn
  <1>2. policy.lifetime \in 0 .. Longest
    BY <1>1, LongestIsLongest DEF KeysTypeOK
  <1>3. ASSUME NEW kind \in {"create", "rotate"}, NEW k \in DOMAIN keys \cup {NoKey},
               NEW life \in 0 .. Longest, kind = "rotate" => k \in DOMAIN keys,
               NEW c, c \in [kind : {kind}, phase : {"insert"}, old : {k}, new : {NoKey},
                             days : {life}],
               keeper' = [keeper EXCEPT ![q] = c],
               UNCHANGED <<policy, keys, origin, promised>>
        PROVE  KeysIInv'
    <2>1. IsFilledKeeper(c)
      BY <1>3 DEF IsFilledKeeper
    <2>2. \A p \in Keeper : IsFilledKeeper(keeper'[p])
      BY <1>1, <1>3, <2>1 DEF KeysTypeOK
    <2>3. QED
      BY <1>1, <1>3, <2>2, KeepersKeep DEF KeysTypeOK
  <1>4. CASE StartCreate(q, days)
    <2>1. Days(days) \in 0 .. Longest
      BY <1>2 DEF Days
    <2> DEFINE c == [NoRequest EXCEPT
                         !.kind = "create", !.phase = "insert", !.days = Days(days)]
    <2>2. c \in [kind : {"create"}, phase : {"insert"}, old : {NoKey}, new : {NoKey},
                 days : {Days(days)}]
      BY DEF NoRequest
    <2>3. keeper' = [keeper EXCEPT ![q] = c] /\ UNCHANGED <<policy, keys, origin, promised>>
      BY <1>4 DEF StartCreate
    <2> HIDE DEF c
    <2>4. QED
      BY <1>3, <2>1, <2>2, <2>3
  <1>5. ASSUME NEW k \in Key, StartRotate(q, k, days)
        PROVE  KeysIInv'
    <2> DEFINE life == Days(IF days = 0 THEN keys[k].left ELSE days)
    <2>1. k \in DOMAIN keys
      BY <1>5 DEF StartRotate
    <2>2. life \in 0 .. Longest
      BY <1>1, <1>2, <2>1 DEF Days, KeysTypeOK
    <2> DEFINE c == [NoRequest EXCEPT
                         !.kind = "rotate", !.phase = "insert", !.old = k, !.days = life]
    <2>3. c \in [kind : {"rotate"}, phase : {"insert"}, old : {k}, new : {NoKey},
                 days : {life}]
      BY DEF NoRequest
    <2>4. keeper' = [keeper EXCEPT ![q] = c] /\ UNCHANGED <<policy, keys, origin, promised>>
      BY <1>5 DEF StartRotate
    <2> HIDE DEF c, life
    <2>5. QED
      BY <1>3, <2>1, <2>2, <2>3, <2>4
  <1>6. QED
    BY <1>4, <1>5

\* A day shortens a key and its promise alike.
LEMMA DayKeeps ==
  ASSUME KeysIInv, Day
  PROVE  KeysIInv'
  <1>1. /\ \A k \in DOMAIN keys : keys[k] \in [left : 0 .. Longest, revoked : BOOLEAN,
                                               replaced : DOMAIN keys \cup {NoKey}]
        /\ \A k \in Key : promised[k] \in 0 .. Longest
        /\ DOMAIN keys \subseteq Key
    BY DEF KeysIInv, KeysTypeOK
  <1>2. /\ keys' = [k \in DOMAIN keys |-> [keys[k] EXCEPT !.left = DayAfter(@)]]
        /\ promised' = [k \in Key |-> IF promised[k] = Longest THEN Longest
                                      ELSE DayAfter(promised[k])]
        /\ UNCHANGED <<policy, keeper, origin>>
    BY DEF Day
  <1>3. \A k \in DOMAIN keys : /\ keys'[k].left = DayAfter(keys[k].left)
                               /\ keys'[k].replaced = keys[k].replaced
                               /\ keys'[k].revoked = keys[k].revoked
                               /\ DayAfter(keys[k].left) \in 0 .. Longest
    BY <1>1, <1>2, DayAfterIsLess
  <1>4. DOMAIN keys' = DOMAIN keys
    BY <1>2
  <1>5. KeysTypeOK'
    <2>1. keys' \in [DOMAIN keys -> [left : 0 .. Longest, revoked : BOOLEAN,
                                     replaced : DOMAIN keys \cup {NoKey}]]
      BY <1>1, <1>2, DayAfterIsLess
    <2>2. promised' \in [Key -> 0 .. Longest]
      BY <1>1, <1>2, DayAfterIsLess, LongestIsLongest
    <2>3. QED
      BY <1>2, <1>4, <2>1, <2>2 DEF KeysIInv, KeysTypeOK
  <1>6. PromisesAreForKeys' /\ KeysAreNumbered'
    BY <1>2, <1>4 DEF KeysIInv, PromisesAreForKeys, KeysAreNumbered
  <1>7. KeepersAreFilledIn'
    BY <1>2, <1>4 DEF KeysIInv, KeepersAreFilledIn, IsFilledKeeper
  <1>8. ReplacementsAreOwn'
    <2>1. ASSUME NEW k \in DOMAIN keys, keys'[k].replaced # NoKey
          PROVE  <<k, keys'[k].replaced>> \in origin
      BY <1>3, <2>1 DEF KeysIInv, ReplacementsAreOwn
    <2>2. QED
      BY <1>2, <1>4, <2>1 DEF ReplacementsAreOwn
  <1>9. RotationsKeepPromises'
    <2>1. ASSUME NEW k \in DOMAIN keys
          PROVE  keys'[k].left <= promised'[k]
      <3>1. keys[k].left \in 0 .. Longest /\ promised[k] \in 0 .. Longest
            /\ keys[k].left <= promised[k]
        BY <1>1 DEF KeysIInv, RotationsKeepPromises
      <3>2. QED
        BY <1>1, <1>2, <1>3, <3>1, DayAfterIsLess
    <2>2. QED
      BY <1>4, <2>1 DEF RotationsKeepPromises
  <1>10. QED
    BY <1>5, <1>6, <1>7, <1>8, <1>9 DEF KeysIInv

\* The new key has the next number, and the old one names it if the rotation
\* goes on.
LEMMA KeyInsertedKeeps ==
  ASSUME KeysIInv, NEW q \in Keeper, KeyInserted(q)
  PROVE  KeysIInv'
  <1> DEFINE k == Cardinality(DOMAIN keys) + 1
             c == keeper[q]
             key == [left |-> c.days, revoked |-> FALSE, replaced |-> NoKey]
             D == DOMAIN keys \cup {k}
  <1>1. /\ c.phase = "insert" /\ k \in Key
        /\ keys' = [x \in D |-> IF x = k THEN key ELSE keys[x]]
        /\ UNCHANGED <<policy, promised>>
    BY DEF KeyInserted
  <1>2. /\ c.days \in 0 .. Longest /\ c.kind \in {"create", "rotate"}
        /\ c.kind = "rotate" => c.old \in DOMAIN keys
    BY <1>1 DEF KeysIInv, KeysTypeOK, KeepersAreFilledIn, IsFilledKeeper
  <1>3. k \notin DOMAIN keys /\ D = 1 .. Cardinality(D)
    BY NewKeys DEF KeysIInv
  <1>4. /\ \A x \in DOMAIN keys : keys[x] \in [left : 0 .. Longest, revoked : BOOLEAN,
                                               replaced : DOMAIN keys \cup {NoKey}]
        /\ \A x \in Key : promised[x] \in 0 .. Longest
        /\ DOMAIN keys \subseteq Key
    BY DEF KeysIInv, KeysTypeOK
  <1>5. \/ c.kind = "create" /\ keeper' = [keeper EXCEPT ![q] = NoRequest] /\ UNCHANGED origin
        \/ /\ c.kind = "rotate" /\ origin' = origin \cup {<<c.old, k>>}
           /\ keeper' = [keeper EXCEPT ![q].phase = "shorten", ![q].new = k, ![q].days = 0]
    BY <1>2 DEF KeyInserted
  <1> HIDE DEF k
  <1>6. DOMAIN keys' = D /\ key \in [left : 0 .. Longest, revoked : BOOLEAN,
                                     replaced : D \cup {NoKey}]
    BY <1>1, <1>2
  <1>7. KeysTypeOK'
    <2>1. keys' \in [D -> [left : 0 .. Longest, revoked : BOOLEAN,
                           replaced : D \cup {NoKey}]]
      BY <1>1, <1>4, <1>6
    <2>2. keeper' \in [Keeper ->
           [kind : {"none", "create", "rotate"},
            phase : {"idle", "insert", "shorten"},
            old : D \cup {NoKey}, new : D \cup {NoKey}, days : 0 .. Longest]]
      <3>1. keeper \in [Keeper ->
             [kind : {"none", "create", "rotate"},
              phase : {"idle", "insert", "shorten"},
              old : D \cup {NoKey}, new : D \cup {NoKey}, days : 0 .. Longest]]
        BY DEF KeysIInv, KeysTypeOK
      <3>2. NoRequest \in [kind : {"none", "create", "rotate"},
              phase : {"idle", "insert", "shorten"},
              old : D \cup {NoKey}, new : D \cup {NoKey}, days : 0 .. Longest]
        BY LongestIsLongest DEF NoRequest
      <3> HIDE DEF D, key
      <3>3. k \in D
        BY DEF D
      <3>4. QED
        BY <1>5, <3>1, <3>2, <3>3, LongestIsLongest
    <2>3. origin' \subseteq D \X D
      BY <1>2, <1>5 DEF KeysIInv, KeysTypeOK
    <2>4. D \subseteq Key
      BY <1>1, <1>4
    <2> HIDE DEF D
    <2>5. QED
      BY <1>1, <1>6, <2>1, <2>2, <2>3, <2>4 DEF KeysIInv, KeysTypeOK
  <1>8. KeysAreNumbered'
    BY <1>3, <1>6 DEF KeysAreNumbered
  <1>9. PromisesAreForKeys'
    BY <1>1, <1>6 DEF KeysIInv, PromisesAreForKeys
  <1>10. ASSUME NEW p \in Keeper
         PROVE  IsFilledKeeper(keeper[p])'
    <2>1. IsFilledKeeper(keeper[p]) /\ origin \subseteq origin' /\ DOMAIN keys \subseteq DOMAIN keys'
      BY <1>5, <1>6 DEF KeysIInv, KeepersAreFilledIn
    <2>2. CASE keeper'[p] = keeper[p]
      BY <2>1, <2>2 DEF IsFilledKeeper
    <2>3. CASE keeper'[p] = NoRequest
      BY <2>3 DEF IsFilledKeeper, NoRequest
    <2>4. CASE p = q /\ c.kind = "rotate"
      <3>1. /\ keeper'[q].phase = "shorten" /\ keeper'[q].new = k
            /\ keeper'[q].old = c.old /\ keeper'[q].kind = "rotate"
            /\ <<c.old, k>> \in origin'
        BY <1>5, <2>4 DEF KeysIInv, KeysTypeOK
      <3>2. QED
        BY <1>2, <2>1, <2>4, <3>1 DEF IsFilledKeeper
    <2>5. QED
      BY <1>5, <2>2, <2>3, <2>4 DEF KeysIInv, KeysTypeOK
  <1>11. ReplacementsAreOwn'
    <2>1. ASSUME NEW x \in D, keys'[x].replaced # NoKey
          PROVE  <<x, keys'[x].replaced>> \in origin'
      BY <1>1, <1>5, <2>1 DEF KeysIInv, ReplacementsAreOwn
    <2>2. QED
      BY <1>6, <2>1 DEF ReplacementsAreOwn
  <1>12. RotationsKeepPromises'
    <2>1. ASSUME NEW x \in D
          PROVE  keys'[x].left <= promised[x]
      <3>1. CASE x = k
        BY <1>1, <1>2, <1>3, <1>6, <3>1, LongestIsLongest DEF KeysIInv, PromisesAreForKeys
      <3>2. CASE x # k
        BY <1>1, <3>2 DEF KeysIInv, RotationsKeepPromises
      <3>3. QED
        BY <3>1, <3>2
    <2>2. QED
      BY <1>1, <1>6, <2>1 DEF RotationsKeepPromises
  <1>13. QED
    BY <1>7, <1>8, <1>9, <1>10, <1>11, <1>12 DEF KeysIInv, KeepersAreFilledIn

\* The promise of a rotation is recorded with the shortening that keeps it.
LEMMA ShortenedKeeps ==
  ASSUME KeysIInv, NEW q \in Keeper, Shortened(q)
  PROVE  KeysIInv'
  <1> DEFINE k == keeper[q].old
             new == keeper[q].new
  <1>1. /\ keys' = [keys EXCEPT ![k].replaced = new, ![k].left = Expiry(@)]
        /\ promised' = [promised EXCEPT ![k] = Min({@, policy.overlap})]
        /\ keeper' = [keeper EXCEPT ![q] = NoRequest]
        /\ UNCHANGED <<policy, origin>>
    BY DEF Shortened, Found
  <1>2. /\ <<k, new>> \in origin
        /\ k \in DOMAIN keys /\ new \in DOMAIN keys
    <2>1. <<k, new>> \in origin
      BY DEF Shortened, KeysIInv, KeepersAreFilledIn, IsFilledKeeper
    <2>2. QED
      BY <2>1 DEF KeysIInv, KeysTypeOK
  <1>3. /\ \A x \in DOMAIN keys : keys[x] \in [left : 0 .. Longest, revoked : BOOLEAN,
                                               replaced : DOMAIN keys \cup {NoKey}]
        /\ \A x \in Key : promised[x] \in 0 .. Longest
        /\ DOMAIN keys \subseteq Key /\ promised \in [Key -> 0 .. Longest]
    BY DEF KeysIInv, KeysTypeOK
  <1>4. /\ Expiry(keys[k].left) \in 0 .. Longest
        /\ Expiry(keys[k].left) <= keys[k].left /\ Expiry(keys[k].left) <= policy.overlap
        /\ policy.overlap \in 0 .. Longest
    BY <1>2, <1>3, ExpiryIsLeast DEF KeysIInv
  <1>5. /\ DOMAIN keys' = DOMAIN keys
        /\ \A x \in DOMAIN keys : x # k => keys'[x] = keys[x]
        /\ keys'[k].replaced = new /\ keys'[k].left = Expiry(keys[k].left)
        /\ keys'[k] \in [left : 0 .. Longest, revoked : BOOLEAN,
                         replaced : DOMAIN keys \cup {NoKey}]
    BY <1>1, <1>2, <1>3, <1>4
  <1>6. /\ promised'[k] \in 0 .. Longest
        /\ promised'[k] = promised[k] \/ promised'[k] = policy.overlap
        /\ promised' \in [Key -> 0 .. Longest]
        /\ \A x \in Key : x # k => promised'[x] = promised[x]
    <2> DEFINE least == Min({promised[k], policy.overlap})
    <2>1. k \in Key /\ promised[k] \in 0 .. Longest
      BY <1>2, <1>3
    <2>2. least \in {promised[k], policy.overlap}
      BY <1>4, <2>1, LongestIsLongest, LeastOfTwo
    <2>3. least \in 0 .. Longest
      BY <1>4, <2>1, <2>2
    <2>4. promised' = [promised EXCEPT ![k] = least]
      BY <1>1
    <2> HIDE DEF least
    <2>5. QED
      BY <1>3, <2>1, <2>2, <2>3, <2>4
  <1> HIDE DEF k, new
  <1>7. KeysTypeOK'
    <2>1. keys' \in [DOMAIN keys -> [left : 0 .. Longest, revoked : BOOLEAN,
                                     replaced : DOMAIN keys \cup {NoKey}]]
      BY <1>1, <1>3, <1>5
    <2>2. NoRequest \in [kind : {"none", "create", "rotate"},
              phase : {"idle", "insert", "shorten"},
              old : DOMAIN keys \cup {NoKey}, new : DOMAIN keys \cup {NoKey},
              days : 0 .. Longest]
      BY LongestIsLongest DEF NoRequest
    <2>3. QED
      BY <1>1, <1>5, <1>6, <2>1, <2>2 DEF KeysIInv, KeysTypeOK
  <1>8. PromisesAreForKeys' /\ KeysAreNumbered'
    BY <1>2, <1>5, <1>6 DEF KeysIInv, PromisesAreForKeys, KeysAreNumbered
  <1>9. KeepersAreFilledIn'
    <2>1. \A p \in Keeper : keeper'[p] \in {keeper[p], NoRequest}
      BY <1>1 DEF KeysIInv, KeysTypeOK
    <2>2. QED
      BY <1>1, <1>5, <2>1 DEF KeysIInv, KeepersAreFilledIn, IsFilledKeeper, NoRequest
  <1>10. ReplacementsAreOwn'
    BY <1>1, <1>2, <1>5 DEF KeysIInv, ReplacementsAreOwn
  <1>11. RotationsKeepPromises'
    <2>1. ASSUME NEW x \in DOMAIN keys
          PROVE  keys'[x].left <= promised'[x]
      <3>1. keys[x].left <= promised[x] /\ x \in Key /\ keys[x].left \in 0 .. Longest
            /\ promised[x] \in 0 .. Longest
        BY <1>3 DEF KeysIInv, RotationsKeepPromises
      <3>2. CASE x = k
        BY <1>4, <1>5, <1>6, <3>1, <3>2, LongestIsLongest
      <3>3. CASE x # k
        BY <1>5, <1>6, <3>1, <3>3
      <3>4. QED
        BY <3>2, <3>3
    <2>2. QED
      BY <1>5, <2>1 DEF RotationsKeepPromises
  <1>12. QED
    BY <1>7, <1>8, <1>9, <1>10, <1>11 DEF KeysIInv

\* A key that is revoked keeps every promise.
LEMMA KeyRevokedKeeps ==
  ASSUME KeysIInv, NEW k \in Key, KeyRevoked(k)
  PROVE  KeysIInv'
  <1>1. /\ k \in DOMAIN keys /\ keys' = [keys EXCEPT ![k].revoked = TRUE]
        /\ UNCHANGED <<policy, keeper, origin, promised>>
    BY DEF KeyRevoked
  <1>2. /\ \A x \in DOMAIN keys : keys[x] \in [left : 0 .. Longest, revoked : BOOLEAN,
                                               replaced : DOMAIN keys \cup {NoKey}]
        /\ DOMAIN keys' = DOMAIN keys
    BY <1>1 DEF KeysIInv, KeysTypeOK
  <1>3. \A x \in DOMAIN keys : /\ keys'[x].left = keys[x].left
                               /\ keys'[x].replaced = keys[x].replaced
                               /\ keys'[x] \in [left : 0 .. Longest, revoked : BOOLEAN,
                                                replaced : DOMAIN keys \cup {NoKey}]
    BY <1>1, <1>2
  <1>4. KeysTypeOK'
    BY <1>1, <1>2, <1>3 DEF KeysIInv, KeysTypeOK
  <1>5. PromisesAreForKeys' /\ KeysAreNumbered' /\ KeepersAreFilledIn'
    BY <1>1, <1>2
    DEF KeysIInv, PromisesAreForKeys, KeysAreNumbered, KeepersAreFilledIn, IsFilledKeeper
  <1>6. ReplacementsAreOwn' /\ RotationsKeepPromises'
    BY <1>1, <1>2, <1>3 DEF KeysIInv, ReplacementsAreOwn, RotationsKeepPromises
  <1>7. QED
    BY <1>4, <1>5, <1>6 DEF KeysIInv

\* Every step keeps the invariant of the keys.
LEMMA KeysInductive == KeysIInv /\ [KeysNext]_keyVars => KeysIInv'
  <1> SUFFICES ASSUME KeysIInv, [KeysNext]_keyVars
               PROVE  KeysIInv'
    OBVIOUS
  <1>1. CASE ChangePolicy
    BY <1>1, KeepersKeep DEF ChangePolicy, KeysIInv, KeysTypeOK, KeepersAreFilledIn
  <1>2. ASSUME NEW q \in Keeper, KeeperFails(q)
        PROVE  KeysIInv'
    <2>1. NoRequest \in [kind : {"none", "create", "rotate"},
              phase : {"idle", "insert", "shorten"},
              old : DOMAIN keys \cup {NoKey}, new : DOMAIN keys \cup {NoKey},
              days : 0 .. Longest]
      BY LongestIsLongest DEF NoRequest
    <2>2. QED
      BY <1>2, <2>1, KeepersKeep, NoRequestIsFilled
      DEF KeeperFails, KeysIInv, KeysTypeOK, KeepersAreFilledIn
  <1>3. CASE UNCHANGED keyVars
    BY <1>3, KeepersKeep DEF keyVars, KeysIInv, KeysTypeOK, KeepersAreFilledIn
  <1>4. QED
    BY <1>1, <1>2, <1>3, StartsKeep, DayKeeps, KeyInsertedKeeps, ShortenedKeeps,
       KeyRevokedKeeps
    DEF KeysNext

\* The inductive invariant holds in every state of ApiKeys.
THEOREM KeysInvariance == KeysSpec => []KeysIInv
  BY KeysInitially, KeysInductive, PTL DEF KeysSpec

\* For any number of keys and concurrent requests, the replacement a key records
\* was issued for it (rotateKey looks it up by its prefix).
THEOREM ReplacementsAreAlwaysOwn == KeysSpec => []ReplacementsAreOwn
  <1>1. KeysIInv => ReplacementsAreOwn
    BY DEF KeysIInv
  <1>2. QED
    BY <1>1, KeysInvariance, PTL

\* Whatever policies rotations of a key meet, and in which order they end, the key
\* lives no longer than any of them answered (rotateKey's LEAST).
THEOREM PromisesAreKept == KeysSpec => []RotationsKeepPromises
  <1>1. KeysIInv => RotationsKeepPromises
    BY DEF KeysIInv
  <1>2. QED
    BY <1>1, KeysInvariance, PTL

\* No rotation, policy or day brings an expired or revoked key back.
THEOREM DeadKeysStayDead == KeysSpec => KeysStayDead
  <1> DEFINE Dead == \A k \in DOMAIN keys : ~Valid(keys[k]) => ~Valid(keys'[k])
  <1>1. KeysIInv /\ [KeysNext]_keyVars => [Dead]_keyVars
    <2> SUFFICES ASSUME KeysIInv, KeysNext, NEW k \in DOMAIN keys, ~Valid(keys[k])
                 PROVE  ~Valid(keys'[k])
      OBVIOUS
    <2>1. /\ keys[k] \in [left : 0 .. Longest, revoked : BOOLEAN,
                          replaced : DOMAIN keys \cup {NoKey}]
          /\ keys[k].revoked \/ keys[k].left = 0
      BY LongestIsLongest DEF KeysIInv, KeysTypeOK, Valid
    <2>2. CASE UNCHANGED keys
      BY <2>2
    <2>3. CASE Day
      BY <2>1, <2>3, DayAfterIsLess DEF Day, Valid
    <2>4. ASSUME NEW q \in Keeper, KeyInserted(q)
          PROVE  keys'[k] = keys[k]
      BY <2>4, NewKeys DEF KeyInserted, KeysIInv
    <2>5. ASSUME NEW q \in Keeper, Shortened(q)
          PROVE  ~Valid(keys'[k])
      <3>1. keys'[k].revoked = keys[k].revoked
            /\ keys'[k].left \in {keys[k].left, Expiry(keys[k].left)}
        BY <2>1, <2>5 DEF Shortened, KeysIInv, KeysTypeOK
      <3>2. Expiry(keys[k].left) <= keys[k].left /\ Expiry(keys[k].left) \in 0 .. Longest
        BY <2>1, ExpiryIsLeast DEF KeysIInv
      <3>3. QED
        BY <2>1, <3>1, <3>2, LongestIsLongest DEF Valid
    <2>6. ASSUME NEW x \in Key, KeyRevoked(x)
          PROVE  ~Valid(keys'[k])
      BY <2>1, <2>6 DEF KeyRevoked, Valid
    <2>7. QED
      BY <2>2, <2>3, <2>4, <2>5, <2>6
      DEF KeysNext, ChangePolicy, StartCreate, StartRotate, KeeperFails
  <1>2. QED
    BY <1>1, KeysInvariance, PTL DEF KeysSpec, KeysStayDead

-----------------------------------------------------------------------------
(* Settings with secrets *)

\* What a handler has read and nobody has changed since is what is stored.
ReadsAreCurrent ==
    \A q \in Save : (save[q].phase = "write" /\ ~save[q].disturbed) =>
                        save[q].current = stored

SettingsIInv == SettingsTypeOK /\ ReadsAreCurrent

\* A setting is a function on some of the entries.
LEMMA SettingsAreFunctions ==
  ASSUME NEW values
  PROVE  \A s : s \in SettingOf(values) <=>
                    DOMAIN s \subseteq Entry /\ s \in [DOMAIN s -> values]
  BY DEF SettingOf

\* No entry at all is a setting.
LEMMA NothingIsASetting ==
  ASSUME NEW values
  PROVE  Nothing \in SettingOf(values) /\ DOMAIN Nothing = {}
  BY SettingsAreFunctions DEF Nothing

\* What the administrator sent becomes a setting without masks.
LEMMA MergesAreSettings ==
  ASSUME SettingsTypeOK, NEW q \in Save
  PROVE  Merged(q) \in SettingOf(Secret \cup {NoSecret})
  <1>1. save[q].form \in SettingOf(Secret \cup {Mask})
        /\ save[q].current \in SettingOf(Secret \cup {NoSecret})
    BY DEF SettingsTypeOK
  <1>2. DOMAIN Merged(q) = DOMAIN save[q].form
    BY DEF Merged
  <1>3. \A e \in DOMAIN save[q].form : Merged(q)[e] \in Secret \cup {NoSecret}
    BY <1>1, SettingsAreFunctions DEF Merged
  <1>4. Merged(q) = [e \in DOMAIN save[q].form |-> Merged(q)[e]]
    BY DEF Merged
  <1>5. QED
    BY <1>1, <1>2, <1>3, <1>4, SettingsAreFunctions

\* The requests, for the requests alone.
IsSave(c) ==
    c \in [phase : {"idle", "read", "write"}, form : SettingOf(Secret \cup {Mask}),
           current : SettingOf(Secret \cup {NoSecret}), disturbed : BOOLEAN]

\* An idle slot is a save that carries nothing.
LEMMA NoSaveIsASave == IsSave(NoSave) /\ NoSave.phase = "idle"
  BY NothingIsASetting DEF IsSave, NoSave

\* The types, slot by slot.
LEMMA SettingsTypes ==
  SettingsTypeOK <=>
    /\ stored \in SettingOf(Secret \cup {NoSecret})
    /\ save = [q \in Save |-> save[q]] /\ \A q \in Save : IsSave(save[q])
    /\ \A e \in Needed : e \in DOMAIN stored => stored[e] # NoSecret
  BY DEF SettingsTypeOK, IsSave

\* Disturbing a request.
LEMMA DisturbedSaves ==
  ASSUME NEW c, IsSave(c), NEW d \in BOOLEAN
  PROVE  /\ IsSave([c EXCEPT !.disturbed = d])
         /\ [c EXCEPT !.disturbed = d].phase = c.phase
         /\ [c EXCEPT !.disturbed = d].disturbed = d
         /\ [c EXCEPT !.disturbed = d].current = c.current
  BY DEF IsSave

\* What SaveDone and SettingDeleted make of the other requests.
LEMMA ReadersAreDisturbed ==
  ASSUME SettingsTypeOK, NEW o \in Save, NEW c,
         c = [save[o] EXCEPT !.disturbed = @ \/ save[o].phase = "write"]
  PROVE  IsSave(c) /\ c.phase = save[o].phase /\ (c.phase = "write" => c.disturbed)
  <1>1. IsSave(save[o]) /\ save[o].disturbed \in BOOLEAN
    BY SettingsTypes DEF IsSave
  <1>2. PICK v \in BOOLEAN : /\ c = [save[o] EXCEPT !.disturbed = v]
                             /\ save[o].phase = "write" => v
    <2>1. CASE save[o].phase = "write"
      BY <2>1
    <2>2. CASE save[o].phase # "write"
      BY <1>1, <2>2
    <2>3. QED
      BY <2>1, <2>2
  <1>3. IsSave(c) /\ c.phase = save[o].phase /\ c.disturbed = v
    BY <1>1, <1>2, DisturbedSaves
  <1>4. QED
    BY <1>2, <1>3

\* Without requests nothing is read.
LEMMA SettingsInitially == SettingsInit => SettingsIInv
  <1> SUFFICES ASSUME SettingsInit
               PROVE  SettingsIInv
    OBVIOUS
  <1>1. SettingsTypeOK
    BY NoSaveIsASave, NothingIsASetting, SettingsTypes DEF SettingsInit
  <1>2. QED
    BY <1>1, NoSaveIsASave DEF SettingsInit, SettingsIInv, ReadsAreCurrent

\* One request moves on, and what is stored stays.
LEMMA SaveKeeps ==
  ASSUME SettingsIInv, NEW q \in Save, NEW c, IsSave(c),
         save' = [save EXCEPT ![q] = c], UNCHANGED stored,
         (c.phase = "write" /\ ~c.disturbed) => c.current = stored
  PROVE  SettingsIInv'
  <1>1. save' = [o \in Save |-> IF o = q THEN c ELSE save[o]]
    BY SettingsTypes DEF SettingsIInv
  <1>2. SettingsTypeOK'
    <2>1. /\ stored' \in SettingOf(Secret \cup {NoSecret})
          /\ save' = [o \in Save |-> save'[o]] /\ \A o \in Save : IsSave(save'[o])
          /\ \A e \in Needed : e \in DOMAIN stored' => stored'[e] # NoSecret
      BY <1>1, SettingsTypes DEF SettingsIInv
    <2>2. QED
      BY <2>1 DEF SettingsTypeOK, IsSave
  <1>3. ReadsAreCurrent'
    BY <1>1 DEF SettingsIInv, ReadsAreCurrent
  <1>4. QED
    BY <1>2, <1>3 DEF SettingsIInv

\* Another setting is stored, and whoever has read the old one is disturbed.
LEMMA StoreKeeps ==
  ASSUME SettingsIInv, NEW S \in SUBSET Save,
         stored' \in SettingOf(Secret \cup {NoSecret}),
         \A e \in Needed : e \in DOMAIN stored' => stored'[e] # NoSecret,
         save' = [o \in Save |->
                     IF o \in S THEN NoSave
                     ELSE [save[o] EXCEPT !.disturbed = @ \/ save[o].phase = "write"]]
  PROVE  SettingsIInv'
  <1>1. ASSUME NEW o \in Save
        PROVE  /\ IsSave(save'[o])
               /\ save'[o].phase = "write" => save'[o].disturbed
    <2>1. CASE o \in S
      BY <2>1, NoSaveIsASave
    <2>2. CASE o \notin S
      <3>1. save'[o] = [save[o] EXCEPT !.disturbed = @ \/ save[o].phase = "write"]
        BY <2>2
      <3>2. QED
        BY <3>1, ReadersAreDisturbed DEF SettingsIInv
    <2>3. QED
      BY <2>1, <2>2
  <1>2. save' = [o \in Save |-> save'[o]]
    OBVIOUS
  <1>3. SettingsTypeOK'
    BY <1>1, <1>2 DEF SettingsTypeOK, IsSave
  <1>4. ReadsAreCurrent'
    BY <1>1 DEF ReadsAreCurrent
  <1>5. QED
    BY <1>3, <1>4 DEF SettingsIInv

\* Every step keeps the invariant of the settings.
LEMMA SettingsInductive == SettingsIInv /\ [SettingsNext]_settingsVars => SettingsIInv'
  <1> SUFFICES ASSUME SettingsIInv, [SettingsNext]_settingsVars
               PROVE  SettingsIInv'
    OBVIOUS
  <1>1. ASSUME NEW q \in Save, NEW form \in SettingOf(Secret \cup {Mask}), SaveBegins(q, form)
        PROVE  SettingsIInv'
    <2> DEFINE c == [NoSave EXCEPT !.phase = "read", !.form = form]
    <2>1. IsSave(c) /\ c.phase = "read"
      BY NoSaveIsASave DEF IsSave
    <2>2. save' = [save EXCEPT ![q] = c] /\ UNCHANGED stored
      BY <1>1 DEF SaveBegins
    <2> HIDE DEF c
    <2>3. QED
      BY <2>1, <2>2, SaveKeeps
  <1>2. ASSUME NEW q \in Save, SaveReads(q)
        PROVE  SettingsIInv'
    <2>1. PICK erred \in BOOLEAN :
              save' = [save EXCEPT ![q].phase = "write", ![q].disturbed = erred,
                                   ![q].current = IF erred THEN Nothing ELSE stored]
      BY <1>2 DEF SaveReads
    <2> DEFINE read == IF erred THEN Nothing ELSE stored
               c == [save[q] EXCEPT !.phase = "write", !.disturbed = erred, !.current = read]
    <2>2. read \in SettingOf(Secret \cup {NoSecret}) /\ (~erred => read = stored)
      BY NothingIsASetting DEF SettingsIInv, SettingsTypeOK
    <2> HIDE DEF read
    <2>3. IsSave(save[q])
      BY SettingsTypes DEF SettingsIInv
    <2>4. IsSave(c) /\ c.disturbed = erred /\ c.current = read
      BY <2>2, <2>3 DEF IsSave
    <2>5. save' = [save EXCEPT ![q] = c] /\ UNCHANGED stored
      BY <1>2, <2>1 DEF SaveReads, read
    <2> HIDE DEF c
    <2>6. QED
      BY <2>2, <2>4, <2>5, SaveKeeps
  <1>3. ASSUME NEW q \in Save, SaveWrites(q)
        PROVE  SettingsIInv'
    <2>1. stored' = Merged(q) /\ Complete(q)
          /\ save' = [o \in Save |->
                IF o \in {q} THEN NoSave
                ELSE [save[o] EXCEPT !.disturbed = @ \/ save[o].phase = "write"]]
      BY <1>3 DEF SaveWrites, SaveDone
    <2>2. stored' \in SettingOf(Secret \cup {NoSecret})
      BY <2>1, MergesAreSettings DEF SettingsIInv
    <2>3. \A e \in Needed : e \in DOMAIN stored' => stored'[e] # NoSecret
      BY <2>1 DEF Complete
    <2>4. QED
      BY <2>1, <2>2, <2>3, StoreKeeps
  <1>4. ASSUME NEW q \in Save, SaveFails(q)
        PROVE  SettingsIInv'
    BY <1>4, NoSaveIsASave, SaveKeeps DEF SaveFails
  <1>5. CASE SettingDeleted
    <2>1. /\ stored' = Nothing
          /\ save' = [o \in Save |->
                IF o \in {} THEN NoSave
                ELSE [save[o] EXCEPT !.disturbed = @ \/ save[o].phase = "write"]]
      BY <1>5 DEF SettingDeleted
    <2>2. stored' \in SettingOf(Secret \cup {NoSecret}) /\ DOMAIN stored' = {}
      BY <2>1, NothingIsASetting
    <2>3. QED
      BY <2>1, <2>2, StoreKeeps
  <1>6. CASE UNCHANGED settingsVars
    BY <1>6 DEF settingsVars, SettingsIInv, SettingsTypeOK, ReadsAreCurrent
  <1>7. QED
    BY <1>1, <1>2, <1>3, <1>4, <1>5, <1>6 DEF SettingsNext

\* The inductive invariant holds in every state of Settings.
THEOREM SettingsInvariance == SettingsSpec => []SettingsIInv
  BY SettingsInitially, SettingsInductive, PTL DEF SettingsSpec

\* However many administrators save at once, a secret that one sends back masked
\* survives unless another has replaced the setting since it was read (putAIAdmin,
\* putOIDCAdmin).
THEOREM MaskedSecretsSurvive == SettingsSpec => SecretsSurvive
  <1> DEFINE Saved(q, e) ==
                /\ save[q].phase = "write" /\ ~save[q].disturbed
                /\ save'[q].phase = "idle" /\ stored' # stored /\ DOMAIN stored' # {}
                /\ e \in DOMAIN stored \cap DOMAIN save[q].form
                /\ save[q].form[e] = Mask
             Survived == \A q \in Save, e \in Entry : Saved(q, e) => stored'[e] = stored[e]
  <1>1. SettingsIInv /\ [SettingsNext]_settingsVars => [Survived]_settingsVars
    <2> SUFFICES ASSUME SettingsIInv, SettingsNext, NEW q \in Save, NEW e \in Entry, Saved(q, e)
                 PROVE  stored'[e] = stored[e]
      OBVIOUS
    <2>1. PICK p \in Save : SaveWrites(p)
      BY NothingIsASetting
      DEF SettingsNext, SaveBegins, SaveReads, SaveFails, SettingDeleted
    <2>2. p = q
      <3>1. SUFFICES ASSUME p # q
                     PROVE  FALSE
        OBVIOUS
      <3> DEFINE d == save[q].disturbed \/ save[q].phase = "write"
      <3>2. save'[q] = [save[q] EXCEPT !.disturbed = d]
        BY <2>1, <3>1 DEF SaveWrites, SaveDone
      <3>3. IsSave(save[q]) /\ d \in BOOLEAN
        BY SettingsTypes DEF SettingsIInv
      <3> HIDE DEF d
      <3>4. QED
        BY <3>2, <3>3, DisturbedSaves
    <2>3. stored' = Merged(q)
      BY <2>1, <2>2 DEF SaveWrites
    <2>4. save[q].current = stored
      BY DEF SettingsIInv, ReadsAreCurrent
    <2>5. QED
      BY <2>3, <2>4 DEF Merged
  <1>2. QED
    BY <1>1, SettingsInvariance, PTL DEF SettingsSpec, SecretsSurvive

-----------------------------------------------------------------------------
(* The throttle of logins *)

Comparing == {i \in Attempt : attempt[i].phase = "compare"}

WrongPasswords == failed[0] + failed[1] + failed[2]

\* The age of the entry is that of the latest failure.
AgesAreTrue == \A a \in 0 .. Block - 1 : a < entry.age => failed[a] = 0

\* An entry below the limit has counted the failures of the last 15 minutes; one
\* at the limit is blocked for 15 minutes from the latest failure.
FailuresAreCounted ==
    /\ (entry.failures < FailureLimit /\ entry.age <= Block) =>
           WrongPasswords <= entry.failures
    /\ entry.failures = FailureLimit =>
           entry.blocked = IF entry.age <= Block THEN Block - entry.age ELSE 0

\* Attempts that are being compared count as failures already.
AttemptsAreBounded == WrongPasswords + Cardinality(Comparing) <= Compared

ThrottleIInv == ThrottleTypeOK /\ AgesAreTrue /\ FailuresAreCounted /\ AttemptsAreBounded

\* No more attempts compare than there are slots.
LEMMA ComparingIsFinite ==
  /\ IsFiniteSet(Comparing) /\ Cardinality(Comparing) \in Nat
  /\ Cardinality(Attempt) \in Nat /\ Cardinality(Comparing) <= Cardinality(Attempt)
  <1>1. Comparing \in SUBSET Attempt /\ IsFiniteSet(Attempt)
    BY ThrottleAssumption DEF Comparing
  <1>2. QED
    BY <1>1, FS_Subset, FS_CardinalityType

\* The failures of each tick are numbers.
LEMMA FailuresAreNumbers ==
  ASSUME ThrottleTypeOK
  PROVE  /\ failed[0] \in Nat /\ failed[1] \in Nat /\ failed[2] \in Nat
         /\ WrongPasswords \in Nat
  <1>1. failed \in [0 .. 2 -> Nat]
    BY DEF ThrottleTypeOK, Block
  <1>2. QED
    BY <1>1 DEF WrongPasswords

\* Without failures there is nothing to count.
LEMMA ThrottleInitially == ThrottleInit => ThrottleIInv
  <1> SUFFICES ASSUME ThrottleInit
               PROVE  ThrottleIInv
    OBVIOUS
  <1> USE DEF ThrottleInit, NoEntry, NoAttempt, NoFailures, Block, Hour
  <1>1. ThrottleTypeOK
    BY ThrottleAssumption DEF ThrottleTypeOK
  <1>2. WrongPasswords = 0
    BY DEF WrongPasswords
  <1>3. AgesAreTrue /\ FailuresAreCounted
    BY <1>2, ThrottleAssumption DEF AgesAreTrue, FailuresAreCounted
  <1>4. Cardinality(Comparing) = 0
    <2>1. Comparing = {}
      BY DEF Comparing
    <2>2. QED
      BY <2>1, FS_EmptySet
  <1>5. AttemptsAreBounded
    BY <1>2, <1>4, ComparingIsFinite, ThrottleAssumption DEF AttemptsAreBounded, Compared
  <1>6. QED
    BY <1>1, <1>3, <1>5 DEF ThrottleIInv

\* While the key is not blocked, the limit has not been reached.
LEMMA OpenBelowLimit ==
  ASSUME ThrottleIInv, entry.blocked = 0
  PROVE  WrongPasswords <= FailureLimit - 1
  <1>1. FailureLimit \in Nat \ {0} /\ entry.failures \in 0 .. FailureLimit /\ entry.age \in 0 .. 13
    BY ThrottleAssumption DEF ThrottleIInv, ThrottleTypeOK, Hour
  <1>2. entry.age >= 3 => WrongPasswords = 0
    BY <1>1 DEF ThrottleIInv, AgesAreTrue, WrongPasswords, Block
  <1>3. CASE entry.failures = FailureLimit
    BY <1>1, <1>2, <1>3 DEF ThrottleIInv, FailuresAreCounted, Block
  <1>4. CASE entry.failures < FailureLimit
    BY <1>1, <1>2, <1>4, FailuresAreNumbers DEF ThrottleIInv, FailuresAreCounted, Block
  <1>5. QED
    BY <1>1, <1>3, <1>4

\* An attempt that may compare met an entry below the limit.
LEMMA TryLoginKeeps ==
  ASSUME ThrottleIInv, NEW i \in Attempt, TryLogin(i)
  PROVE  ThrottleIInv'
  <1>1. /\ attempt[i].phase = "idle" /\ attempt' = [attempt EXCEPT ![i].phase = "compare"]
        /\ UNCHANGED <<entry, failed>>
    BY DEF TryLogin
  <1>2. ThrottleTypeOK'
    BY <1>1 DEF ThrottleIInv, ThrottleTypeOK
  <1>3. AgesAreTrue' /\ FailuresAreCounted' /\ WrongPasswords' = WrongPasswords
    BY <1>1 DEF ThrottleIInv, AgesAreTrue, FailuresAreCounted, WrongPasswords
  <1>4. AttemptsAreBounded'
    <2>1. Cardinality(Comparing)' <= Cardinality(Attempt)
      <3>1. Comparing' \in SUBSET Attempt /\ IsFiniteSet(Attempt)
        BY ThrottleAssumption DEF Comparing
      <3>2. QED
        BY <3>1, FS_Subset
    <2>2. Cardinality(Comparing)' \in Nat
      <3>1. Comparing' \in SUBSET Attempt /\ IsFiniteSet(Attempt)
        BY ThrottleAssumption DEF Comparing
      <3>2. QED
        BY <3>1, FS_Subset, FS_CardinalityType
    <2>3. WrongPasswords <= FailureLimit - 1
      BY OpenBelowLimit DEF TryLogin
    <2>4. QED
      BY <1>3, <2>1, <2>2, <2>3, ComparingIsFinite, FailuresAreNumbers, ThrottleAssumption
      DEF ThrottleIInv, AttemptsAreBounded, Compared
  <1>5. QED
    BY <1>2, <1>3, <1>4 DEF ThrottleIInv

\* An answer takes its attempt from those being compared.
LEMMA AnswersEndComparisons ==
  ASSUME ThrottleTypeOK, NEW i \in Attempt, attempt[i].phase = "compare", Answered(i)
  PROVE  /\ Cardinality(Comparing)' = Cardinality(Comparing) - 1
         /\ attempt' \in [Attempt -> [phase : {"idle", "compare"}, age : 0 .. 1]]
  <1>1. attempt' = [attempt EXCEPT ![i] = NoAttempt]
        /\ attempt \in [Attempt -> [phase : {"idle", "compare"}, age : 0 .. 1]]
    BY DEF Answered, ThrottleTypeOK
  <1>2. Comparing' = Comparing \ {i} /\ i \in Comparing
    BY <1>1 DEF Comparing, NoAttempt
  <1>3. Cardinality(Comparing \ {i}) = Cardinality(Comparing) - 1
    BY <1>2, ComparingIsFinite, FS_RemoveElement
  <1>4. QED
    BY <1>1, <1>2, <1>3 DEF NoAttempt

\* A wrong password is one comparison less to come and one failure more.
LEMMA LoginFailedKeeps ==
  ASSUME ThrottleIInv, NEW i \in Attempt, LoginFailed(i)
  PROVE  ThrottleIInv'
  <1> DEFINE L == FailureLimit
             past == IF entry.age > Block THEN 0 ELSE entry.failures
             n == Min({past + 1, L})
  <1>1. /\ L \in Nat \ {0} /\ entry.failures \in 0 .. L /\ entry.age \in 0 .. 13
        /\ entry.blocked \in 0 .. 3 /\ (entry.blocked > 0 => entry.failures = L)
    BY ThrottleAssumption DEF ThrottleIInv, ThrottleTypeOK, Block, Hour
  <1>2. n = (IF past + 1 <= L THEN past + 1 ELSE L) /\ past \in 0 .. L
    BY <1>1, LeastOfTwo
  <1>3. /\ entry' = [failures |-> n, age |-> 0, blocked |-> IF n = L THEN Block ELSE entry.blocked]
        /\ failed' = [failed EXCEPT ![0] = @ + 1]
        /\ attempt[i].phase = "compare" /\ Answered(i)
    BY DEF LoginFailed, FailureOf
  <1> HIDE DEF n
  <1>4. n \in 1 .. L
    BY <1>1, <1>2
  <1>5. /\ entry'.failures = n /\ entry'.age = 0
        /\ entry'.blocked = IF n = L THEN 3 ELSE entry.blocked
    BY <1>3 DEF Block
  <1>6. failed \in [0 .. 2 -> Nat] /\ failed' \in [0 .. 2 -> Nat]
    BY <1>3 DEF ThrottleIInv, ThrottleTypeOK, Block
  <1>7. WrongPasswords' = WrongPasswords + 1
    BY <1>3, <1>6 DEF WrongPasswords
  <1>8. n # L => n = past + 1 /\ entry.blocked = 0
    BY <1>1, <1>2 DEF ThrottleIInv, FailuresAreCounted, Block
  <1>9. ThrottleTypeOK'
    <2>1. entry' \in [failures : 0 .. L, age : 0 .. 13, blocked : 0 .. 3]
      BY <1>1, <1>3, <1>4 DEF Block
    <2>2. entry'.blocked > 0 => entry'.failures = L
      BY <1>5, <1>8
    <2>3. QED
      BY <1>3, <1>6, <2>1, <2>2, AnswersEndComparisons
      DEF ThrottleIInv, ThrottleTypeOK, Block, Hour
  <1>10. AgesAreTrue'
    BY <1>5 DEF AgesAreTrue, Block
  <1>11. FailuresAreCounted'
    <2>1. ASSUME n < L
          PROVE  WrongPasswords + 1 <= n
      <3>1. n = past + 1
        BY <1>1, <1>8, <2>1
      <3>2. CASE entry.age > 3
        <4>1. WrongPasswords = 0
          BY <1>1, <3>2 DEF ThrottleIInv, AgesAreTrue, WrongPasswords, Block
        <4>2. QED
          BY <1>2, <3>1, <4>1
      <3>3. CASE entry.age <= 3
        <4>1. past = entry.failures /\ entry.failures < L
          BY <1>1, <2>1, <3>1, <3>3 DEF Block
        <4>2. WrongPasswords <= entry.failures
          BY <3>3, <4>1 DEF ThrottleIInv, FailuresAreCounted, Block
        <4>3. QED
          BY <1>1, <3>1, <4>1, <4>2, FailuresAreNumbers DEF ThrottleIInv
      <3>4. QED
        BY <1>1, <3>2, <3>3
    <2>2. QED
      BY <1>4, <1>5, <1>7, <2>1 DEF FailuresAreCounted, Block
  <1>12. AttemptsAreBounded'
    BY <1>3, <1>7, AnswersEndComparisons, ComparingIsFinite, FailuresAreNumbers,
       ThrottleAssumption
    DEF ThrottleIInv, AttemptsAreBounded, Compared
  <1>13. QED
    BY <1>9, <1>10, <1>11, <1>12 DEF ThrottleIInv

\* A right password clears the entry, and the count of failures with it.
LEMMA LoginSucceededKeeps ==
  ASSUME ThrottleIInv, NEW i \in Attempt, LoginSucceeded(i)
  PROVE  ThrottleIInv'
  <1>1. /\ entry' = NoEntry /\ failed' = NoFailures
        /\ attempt[i].phase = "compare" /\ Answered(i)
    BY DEF LoginSucceeded
  <1>2. ThrottleTypeOK'
    BY <1>1, AnswersEndComparisons, ThrottleAssumption
    DEF ThrottleIInv, ThrottleTypeOK, NoEntry, NoFailures, Block, Hour
  <1>3. WrongPasswords' = 0
    BY <1>1 DEF WrongPasswords, NoFailures, Block
  <1>4. AgesAreTrue' /\ FailuresAreCounted'
    BY <1>1, <1>3, ThrottleAssumption
    DEF AgesAreTrue, FailuresAreCounted, NoEntry, NoFailures, Block, Hour
  <1>5. AttemptsAreBounded'
    BY <1>1, <1>3, AnswersEndComparisons, ComparingIsFinite, FailuresAreNumbers,
       ThrottleAssumption
    DEF ThrottleIInv, AttemptsAreBounded, Compared
  <1>6. QED
    BY <1>2, <1>4, <1>5 DEF ThrottleIInv

\* Another failure may push out an entry that is old enough to count for
\* nothing.
LEMMA OtherLoginFailedKeeps ==
  ASSUME ThrottleIInv, OtherLoginFailed
  PROVE  ThrottleIInv'
  <1>1. entry' = NoEntry /\ UNCHANGED <<attempt, failed>> /\ entry.age > 12
    BY DEF OtherLoginFailed, Hour
  <1>2. ThrottleTypeOK'
    BY <1>1, ThrottleAssumption DEF ThrottleIInv, ThrottleTypeOK, NoEntry, Block, Hour
  <1>3. entry.age \in 0 .. 13 /\ WrongPasswords' = WrongPasswords /\ Comparing' = Comparing
    BY <1>1 DEF ThrottleIInv, ThrottleTypeOK, Hour, WrongPasswords, Comparing
  <1>4. AgesAreTrue' /\ FailuresAreCounted'
    BY <1>1, <1>3, ThrottleAssumption
    DEF ThrottleIInv, AgesAreTrue, FailuresAreCounted, NoEntry, Block, Hour
  <1>5. AttemptsAreBounded'
    BY <1>3 DEF ThrottleIInv, AttemptsAreBounded, Compared
  <1>6. QED
    BY <1>2, <1>4, <1>5 DEF ThrottleIInv

\* Time passes: what was failed moves on with the age of the entry.
LEMMA LoginTickKeeps ==
  ASSUME ThrottleIInv, LoginTick
  PROVE  ThrottleIInv'
  <1> DEFINE L == FailureLimit
             age == Min({entry.age + 1, 13})
             left == Max({entry.blocked - 1, 0})
  <1>1. /\ L \in Nat \ {0} /\ entry \in [failures : 0 .. L, age : 0 .. 13, blocked : 0 .. 3]
        /\ entry.failures \in 0 .. L /\ entry.age \in 0 .. 13
        /\ entry.blocked \in 0 .. 3 /\ (entry.blocked > 0 => entry.failures = L)
        /\ failed \in [0 .. 2 -> Nat]
    BY ThrottleAssumption DEF ThrottleIInv, ThrottleTypeOK, Block, Hour
  <1>2. /\ age = (IF entry.age <= 12 THEN entry.age + 1 ELSE 13)
        /\ left = (IF entry.blocked >= 1 THEN entry.blocked - 1 ELSE 0)
    BY <1>1, LeastOfTwo, GreatestOfTwo
  <1>3. /\ entry' = [entry EXCEPT !.age = age, !.blocked = left]
        /\ attempt' = [i \in Attempt |-> IF attempt[i].phase = "compare"
                                         THEN [attempt[i] EXCEPT !.age = 1] ELSE attempt[i]]
        /\ failed' = [a \in 0 .. 2 |-> IF a = 0 THEN 0 ELSE failed[a - 1]]
    BY DEF LoginTick, Hour, Block
  <1> HIDE DEF age, left
  <1>4. entry'.failures = entry.failures /\ entry'.age = age /\ entry'.blocked = left
    BY <1>1, <1>3
  <1>5. failed'[0] = 0 /\ failed'[1] = failed[0] /\ failed'[2] = failed[1]
    BY <1>3
  <1>6. ThrottleTypeOK'
    <2>1. age \in 0 .. 13 /\ left \in 0 .. 3 /\ (left > 0 => entry.blocked > 0)
      BY <1>1, <1>2
    <2>2. entry' \in [failures : 0 .. L, age : 0 .. 13, blocked : 0 .. 3]
      BY <1>1, <1>3, <2>1
    <2>3. failed' \in [0 .. 2 -> Nat]
      BY <1>1, <1>3
    <2>4. attempt' \in [Attempt -> [phase : {"idle", "compare"}, age : 0 .. 1]]
      BY <1>3 DEF ThrottleIInv, ThrottleTypeOK
    <2>5. QED
      BY <1>1, <1>4, <2>1, <2>2, <2>3, <2>4 DEF ThrottleTypeOK, Block, Hour
  <1>7. WrongPasswords' <= WrongPasswords /\ WrongPasswords' \in Nat /\ WrongPasswords \in Nat
    BY <1>1, <1>5 DEF WrongPasswords
  <1>8. AgesAreTrue'
    <2>1. ASSUME NEW a \in 0 .. 2, a < age
          PROVE  failed'[a] = 0
      <3>1. CASE a = 0
        BY <1>5, <3>1
      <3>2. CASE a # 0
        <4>1. a - 1 \in 0 .. 2 /\ a - 1 < entry.age
          BY <1>1, <1>2, <2>1, <3>2
        <4>2. QED
          BY <1>3, <3>2, <4>1 DEF ThrottleIInv, AgesAreTrue, Block
      <3>3. QED
        BY <3>1, <3>2
    <2>2. QED
      BY <1>4, <2>1 DEF AgesAreTrue, Block
  <1>9. FailuresAreCounted'
    BY <1>1, <1>2, <1>4, <1>7 DEF ThrottleIInv, FailuresAreCounted, Block
  <1>10. AttemptsAreBounded'
    <2>1. Comparing' = Comparing
      BY <1>3 DEF Comparing, ThrottleIInv, ThrottleTypeOK
    <2>2. QED
      BY <1>1, <1>7, <2>1, ComparingIsFinite DEF ThrottleIInv, AttemptsAreBounded, Compared
  <1>11. QED
    BY <1>6, <1>8, <1>9, <1>10 DEF ThrottleIInv

\* The inductive invariant holds in every state of LoginThrottle.
THEOREM ThrottleInvariance == ThrottleSpec => []ThrottleIInv
  <1>1. ThrottleIInv /\ [ThrottleNext]_throttleVars => ThrottleIInv'
    <2>1. ASSUME ThrottleIInv, UNCHANGED throttleVars
          PROVE  ThrottleIInv'
      BY <2>1
      DEF throttleVars, ThrottleIInv, ThrottleTypeOK, AgesAreTrue, FailuresAreCounted,
          AttemptsAreBounded, WrongPasswords, Comparing, Compared
    <2>2. QED
      BY <2>1, TryLoginKeeps, LoginFailedKeeps, LoginSucceededKeeps, OtherLoginFailedKeeps,
         LoginTickKeeps
      DEF ThrottleNext
  <1>2. QED
    BY <1>1, ThrottleInitially, PTL DEF ThrottleSpec

\* For any limit and any number of attempts at once, no more wrong passwords are
\* compared in 15 minutes than the limit and the attempts that had passed the check
\* together (loginBlocked, loginFailed).
THEOREM FailuresAreFew == ThrottleSpec => []FewFailures
  <1>1. ThrottleIInv => FewFailures
    BY ComparingIsFinite, FailuresAreNumbers, ThrottleAssumption
    DEF ThrottleIInv, AttemptsAreBounded, FewFailures, WrongPasswords, Compared
  <1>2. QED
    BY <1>1, ThrottleInvariance, PTL

-----------------------------------------------------------------------------
(* The AI gateway *)

\* The questions that have passed the check and are not recorded yet.
Admitted == {i \in Question : question[i].phase \in {"model", "call", "record"}}

MostOfOne == PromptTokens + MostTokens

\* What is recorded and what the admitted questions may still cost.
TokensAreCommitted == interactions + Cardinality(Admitted) * MostOfOne <= DailyBound

AIIInv == AITypeOK /\ TokensAreCommitted

\* No answer has more tokens than the most.
LEMMA MostIsMost ==
  /\ MostTokens \in Nat /\ \A n \in ResponseTokens \cup {0} : n \in Nat /\ n <= MostTokens
  /\ MostOfOne \in Nat
  <1>1. \E n \in ResponseTokens : \A m \in ResponseTokens : m <= n
    BY AIAssumption, GreatestExists
  <1>2. MostTokens \in ResponseTokens /\ \A m \in ResponseTokens : m <= MostTokens
    BY <1>1 DEF MostTokens
  <1>3. QED
    BY <1>2, AIAssumption DEF MostOfOne

\* Sizes of sets of questions.
LEMMA QuestionsAreFinite ==
  ASSUME NEW S \in SUBSET Question
  PROVE  /\ IsFiniteSet(S) /\ Cardinality(S) \in Nat
         /\ Cardinality(S) <= Cardinality(Question)
         /\ Cardinality(Question) \in Nat \ {0}
  <1>1. IsFiniteSet(Question) /\ Question # {}
    BY AIAssumption
  <1>2. Cardinality(Question) # 0 /\ Cardinality(Question) \in Nat
    BY <1>1, FS_EmptySet, FS_CardinalityType
  <1>3. QED
    BY <1>1, <1>2, FS_Subset, FS_CardinalityType

\* Who passed the limit is one who asked.
LEMMA AdmittedIsASet == Admitted \in SUBSET Question
  BY DEF Admitted

\* The bound of a day is what is left before the limit, and the most for each
\* question.
LEMMA BoundIsANumber ==
  /\ DailyBound \in Int
  /\ 0 <= DailyBound
  /\ DailyBound = DailyLimit - PromptTokens + Cardinality(Question) * MostOfOne
  <1> DEFINE n == Cardinality(Question)
  <1>1. n \in Nat \ {0}
    BY QuestionsAreFinite
  <1>2. DailyBound = DailyLimit - PromptTokens + n * MostOfOne
    BY DEF DailyBound, MostOfOne
  <1>3. MostOfOne \in Nat /\ PromptTokens <= MostOfOne
    BY MostIsMost, AIAssumption DEF MostOfOne
  <1> HIDE DEF n
  <1>4. n * MostOfOne \in Nat /\ n * MostOfOne >= MostOfOne
    BY <1>1, <1>3
  <1>5. QED
    BY <1>2, <1>3, <1>4, AIAssumption DEF n

\* With fewer admitted questions, less is committed.
LEMMA FewerCostLess ==
  ASSUME NEW S, NEW T \in SUBSET Question, S \subseteq T
  PROVE  /\ Cardinality(S) * MostOfOne \in Nat /\ Cardinality(T) * MostOfOne \in Nat
         /\ Cardinality(S) * MostOfOne <= Cardinality(T) * MostOfOne
         /\ S # T => Cardinality(S) * MostOfOne + MostOfOne <= Cardinality(T) * MostOfOne
  <1> DEFINE m == Cardinality(S)
             n == Cardinality(T)
  <1>1. m \in Nat /\ n \in Nat /\ m <= n /\ (S # T => m < n)
    BY QuestionsAreFinite, FS_Subset
  <1>2. MostOfOne \in Nat
    BY MostIsMost
  <1> HIDE DEF m, n
  <1>3. /\ m * MostOfOne \in Nat /\ n * MostOfOne \in Nat
        /\ m * MostOfOne <= n * MostOfOne
    BY <1>1, <1>2
  <1>4. ASSUME m < n
        PROVE  m * MostOfOne + MostOfOne <= n * MostOfOne
    <2>1. (m + 1) * MostOfOne <= n * MostOfOne
      BY <1>1, <1>2, <1>4
    <2>2. (m + 1) * MostOfOne = m * MostOfOne + MostOfOne
      BY <1>1, <1>2
    <2>3. QED
      BY <2>1, <2>2
  <1>5. QED
    BY <1>1, <1>3, <1>4 DEF m, n

\* A step that records nothing and admits no question.
LEMMA FewerAdmittedKeep ==
  ASSUME AIIInv, AITypeOK', interactions' <= interactions, Admitted' \subseteq Admitted
  PROVE  AIIInv'
  <1>1. /\ Cardinality(Admitted') * MostOfOne \in Nat /\ Cardinality(Admitted) * MostOfOne \in Nat
        /\ Cardinality(Admitted') * MostOfOne <= Cardinality(Admitted) * MostOfOne
    BY AdmittedIsASet, FewerCostLess
  <1>2. interactions \in Nat /\ interactions' \in Nat /\ DailyBound \in Int
    BY BoundIsANumber DEF AIIInv, AITypeOK
  <1>3. interactions' + Cardinality(Admitted') * MostOfOne <= DailyBound
    BY <1>1, <1>2 DEF AIIInv, TokensAreCommitted
  <1>4. QED
    BY <1>3 DEF AIIInv, TokensAreCommitted

QuestionRecord == [phase : {"idle", "usage", "model", "call", "record"},
                   model : {"none", "internal", "external", "refused"},
                   response : ResponseTokens \cup {0}]

\* One question moves on.
LEMMA QuestionMoves ==
  ASSUME AITypeOK, NEW i \in Question, NEW c \in QuestionRecord,
         question' = [question EXCEPT ![i] = c],
         UNCHANGED settingVars, interactions' \in Nat
  PROVE  /\ AITypeOK'
         /\ c.phase \notin {"model", "call", "record"} => Admitted' = Admitted \ {i}
         /\ c.phase \in {"model", "call", "record"} => Admitted' = Admitted \cup {i}
  BY DEF AITypeOK, settingVars, Admitted, QuestionRecord

\* A question that ends gives back what was set aside for it.
LEMMA EndsKeep ==
  ASSUME AIIInv, NEW i \in Question, EndQuestion(i), UNCHANGED <<settingVars, interactions>>
  PROVE  AIIInv'
  <1>1. NoQuestion \in QuestionRecord /\ NoQuestion.phase = "idle"
    BY DEF NoQuestion, QuestionRecord
  <1>2. AITypeOK /\ interactions \in Nat /\ interactions' = interactions
    BY DEF AIIInv, AITypeOK
  <1>3. question' = [question EXCEPT ![i] = NoQuestion] /\ UNCHANGED settingVars
    BY DEF EndQuestion
  <1>4. AITypeOK' /\ Admitted' = Admitted \ {i}
    BY <1>1, <1>2, <1>3, QuestionMoves
  <1>5. QED
    BY <1>2, <1>4, FewerAdmittedKeep

\* A question passes while the tokens that are recorded are below the limit.
LEMMA WithinLimitKeeps ==
  ASSUME AIIInv, NEW i \in Question, WithinLimit(i)
  PROVE  AIIInv'
  <1> DEFINE c == [question[i] EXCEPT !.phase = "model"]
  <1>1. c \in QuestionRecord /\ c.phase = "model"
    BY DEF AIIInv, AITypeOK, QuestionRecord
  <1>2. question' = [question EXCEPT ![i] = c] /\ UNCHANGED <<settingVars, interactions>>
        /\ ~(interactions + PromptTokens > DailyLimit)
    BY DEF WithinLimit, LimitReached
  <1>3. interactions \in Nat
    BY DEF AIIInv, AITypeOK
  <1> HIDE DEF c
  <1>4. AITypeOK'
    BY <1>1, <1>2, <1>3, QuestionMoves DEF AIIInv
  <1>5. /\ Cardinality(Admitted') * MostOfOne \in Nat /\ Cardinality(Question) * MostOfOne \in Nat
        /\ Cardinality(Admitted') * MostOfOne <= Cardinality(Question) * MostOfOne
    <2>1. Admitted' \in SUBSET Question
      BY DEF Admitted
    <2>2. QED
      BY <2>1, FewerCostLess
  <1>6. interactions' + Cardinality(Admitted') * MostOfOne <= DailyBound
    BY <1>2, <1>3, <1>5, BoundIsANumber, AIAssumption
  <1>7. QED
    BY <1>4, <1>6 DEF AIIInv, TokensAreCommitted

\* What is recorded is no more than what was set aside.
LEMMA RecordKeeps ==
  ASSUME AIIInv, NEW i \in Question, Record(i)
  PROVE  AIIInv'
  <1> DEFINE n == question[i].response
  <1>1. n \in Nat /\ n <= MostTokens /\ MostTokens \in Nat /\ interactions \in Nat
    BY MostIsMost DEF AIIInv, AITypeOK
  <1>2. /\ interactions' = interactions + PromptTokens + n
        /\ question' = [question EXCEPT ![i] = NoQuestion] /\ UNCHANGED settingVars
        /\ i \in Admitted
    BY DEF Record, EndQuestion, Admitted
  <1>3. NoQuestion \in QuestionRecord /\ NoQuestion.phase = "idle"
    BY DEF NoQuestion, QuestionRecord
  <1>4. PromptTokens \in Nat /\ interactions' \in Nat
    BY <1>1, <1>2, AIAssumption
  <1>5. AITypeOK' /\ Admitted' = Admitted \ {i}
    BY <1>2, <1>3, <1>4, QuestionMoves DEF AIIInv
  <1>6. /\ Cardinality(Admitted') * MostOfOne \in Nat /\ Cardinality(Admitted) * MostOfOne \in Nat
        /\ Cardinality(Admitted') * MostOfOne + MostOfOne <= Cardinality(Admitted) * MostOfOne
    BY <1>2, <1>5, AdmittedIsASet, FewerCostLess
  <1>7. MostOfOne = PromptTokens + MostTokens
    BY DEF MostOfOne
  <1>8. interactions + Cardinality(Admitted) * MostOfOne <= DailyBound
    BY DEF AIIInv, TokensAreCommitted
  <1>9. interactions' + Cardinality(Admitted') * MostOfOne <= DailyBound
    BY <1>1, <1>2, <1>4, <1>6, <1>7, <1>8, BoundIsANumber
  <1>10. QED
    BY <1>5, <1>9 DEF AIIInv, TokensAreCommitted

\* The steps of a question between its start and its record.
LEMMA QuestionKeeps ==
  ASSUME AIIInv, NEW i \in Question, Ask(i) \/ Calls(i) \/ ModelAnswers(i) \/ ProviderFails(i)
  PROVE  AIIInv'
  <1>1. question[i] \in QuestionRecord /\ AITypeOK /\ interactions \in Nat
    BY DEF AIIInv, AITypeOK, QuestionRecord
  <1>2. ASSUME NEW c \in QuestionRecord, question' = [question EXCEPT ![i] = c],
               UNCHANGED <<settingVars, interactions>>,
               c.phase = "usage" \/ i \in Admitted
        PROVE  AIIInv'
    <2>1. AITypeOK' /\ Admitted' \subseteq Admitted
      BY <1>1, <1>2, QuestionMoves DEF QuestionRecord
    <2>2. QED
      BY <1>1, <1>2, <2>1, FewerAdmittedKeep
  <1>3. CASE Ask(i)
    <2> DEFINE c == [phase |-> "usage", model |-> Route, response |-> 0]
    <2>1. c \in QuestionRecord /\ c.phase = "usage"
      BY DEF QuestionRecord, Route
    <2>2. question' = [question EXCEPT ![i] = c] /\ UNCHANGED <<settingVars, interactions>>
      BY <1>3 DEF Ask
    <2> HIDE DEF c
    <2>3. QED
      BY <1>2, <2>1, <2>2
  <1>4. CASE Calls(i)
    <2> DEFINE c == [question[i] EXCEPT !.phase = "call"]
    <2>1. c \in QuestionRecord /\ i \in Admitted
      BY <1>1, <1>4 DEF QuestionRecord, Calls, Admitted
    <2>2. question' = [question EXCEPT ![i] = c] /\ UNCHANGED <<settingVars, interactions>>
      BY <1>4 DEF Calls
    <2> HIDE DEF c
    <2>3. QED
      BY <1>2, <2>1, <2>2
  <1>5. CASE ModelAnswers(i)
    <2>1. PICK n \in ResponseTokens :
              question' = [question EXCEPT ![i].phase = "record", ![i].response = n]
      BY <1>5 DEF ModelAnswers
    <2> DEFINE c == [question[i] EXCEPT !.phase = "record", !.response = n]
    <2>2. c \in QuestionRecord /\ i \in Admitted
      BY <1>1, <1>5 DEF QuestionRecord, ModelAnswers, Admitted
    <2>3. question' = [question EXCEPT ![i] = c] /\ UNCHANGED <<settingVars, interactions>>
      BY <1>5, <2>1 DEF ModelAnswers
    <2> HIDE DEF c
    <2>4. QED
      BY <1>2, <2>2, <2>3
  <1>6. CASE ProviderFails(i)
    <2> DEFINE c == [question[i] EXCEPT !.phase = "record"]
    <2>1. c \in QuestionRecord /\ i \in Admitted
      BY <1>1, <1>6 DEF QuestionRecord, ProviderFails, Admitted
    <2>2. question' = [question EXCEPT ![i] = c] /\ UNCHANGED <<settingVars, interactions>>
      BY <1>6 DEF ProviderFails
    <2> HIDE DEF c
    <2>3. QED
      BY <1>2, <2>1, <2>2
  <1>7. QED
    BY <1>3, <1>4, <1>5, <1>6

\* The inductive invariant holds in every state of AIGateway.
THEOREM AIInvariance == AISpec => []AIIInv
  <1>1. AIInit => AIIInv
    <2> SUFFICES ASSUME AIInit
                 PROVE  AIIInv
      OBVIOUS
    <2>1. AITypeOK
      BY DEF AIInit, AITypeOK, NoQuestion
    <2>2. Admitted = {}
      BY DEF AIInit, Admitted, NoQuestion
    <2>3. Cardinality(Admitted) * MostOfOne = 0
      BY <2>2, FS_EmptySet, MostIsMost
    <2>4. TokensAreCommitted
      BY <2>3, BoundIsANumber DEF AIInit, TokensAreCommitted
    <2>5. QED
      BY <2>1, <2>4 DEF AIIInv
  <1>2. AIIInv /\ [AINext]_aiVars => AIIInv'
    <2> SUFFICES ASSUME AIIInv, [AINext]_aiVars
                 PROVE  AIIInv'
      OBVIOUS
    <2>1. CASE ChangeGateway
      <3>1. AITypeOK' /\ Admitted' = Admitted /\ interactions' = interactions
            /\ interactions \in Nat
        BY <2>1 DEF ChangeGateway, AIIInv, AITypeOK, Admitted
      <3>2. QED
        BY <3>1, FewerAdmittedKeep
    <2>2. CASE Midnight
      <3>1. AITypeOK' /\ Admitted' = Admitted /\ interactions' = 0 /\ interactions \in Nat
        BY <2>2 DEF Midnight, settingVars, AIIInv, AITypeOK, Admitted
      <3>2. QED
        BY <3>1, FewerAdmittedKeep
    <2>3. CASE UNCHANGED aiVars
      BY <2>3 DEF aiVars, AIIInv, AITypeOK, TokensAreCommitted, Admitted
    <2>4. ASSUME NEW i \in Question, AskedTooMuch(i) \/ ExternalRefused(i) \/ QuestionFails(i)
          PROVE  AIIInv'
      BY <2>4, EndsKeep DEF AskedTooMuch, ExternalRefused, QuestionFails
    <2>5. QED
      BY <2>1, <2>2, <2>3, <2>4, WithinLimitKeeps, RecordKeeps, QuestionKeeps DEF AINext
  <1>3. QED
    BY <1>1, <1>2, PTL DEF AISpec

\* For any limit, any estimates and any number of questions at once, the tokens of
\* a day exceed the limit by no more than the questions in flight can cost, however
\* often the settings change (aiQuery, recordAI).
THEOREM TokensAreBounded == AISpec => []DailyTokensBounded
  <1>1. AIIInv => DailyTokensBounded
    <2> SUFFICES ASSUME AIIInv
                 PROVE  DailyTokensBounded
      OBVIOUS
    <2>1. Cardinality(Admitted) * MostOfOne \in Nat
      BY AdmittedIsASet, FewerCostLess
    <2>2. QED
      BY <2>1, BoundIsANumber
      DEF AIIInv, AITypeOK, TokensAreCommitted, DailyTokensBounded
  <1>2. QED
    BY <1>1, AIInvariance, PTL

-----------------------------------------------------------------------------
(* The windows of the rate limit *)

Most == Max(AnyLimit)

\* Every limit is positive and at most the greatest one.
LEMMA MostIsPositive ==
  /\ Most \in Nat \ {0}
  /\ \A l \in AnyLimit : l \in Nat \ {0} /\ l <= Most
  <1>1. IsFiniteSet(AnyLimit) /\ AnyLimit \subseteq Nat \ {0} /\ AnyLimit # {}
    BY RateAssumption, FS_AddElement DEF AnyLimit
  <1>2. Max(AnyLimit) \in AnyLimit /\ \A l \in AnyLimit : l <= Max(AnyLimit)
    BY <1>1, MaxIsGreatest
  <1>3. QED
    BY <1>1, <1>2 DEF Most

Counts == [0 .. 3 -> Nat]

Total(f) == f[0] + f[1] + f[2] + f[3]

\* The requests let through in the last minute (all, a tick at a time) are those of
\* the present window, which is g ticks old and has counted c, those of the one
\* before it and those of the one before that.  A request is counted up to wait
\* ticks after its time, and so are the first requests of windows.
IsSplit(all, present, last, older, g, c, wait) ==
    /\ \A a \in 0 .. 3 :
          /\ all[a] = present[a] + last[a] + older[a]
          /\ present[a] > 0 => a >= g - 3 - wait
          /\ last[a] > 0 => a >= g - wait
          /\ older[a] > 0 => a >= g + 4 - wait
    /\ Total(present) <= c
    /\ g <= 8 => \/ Total(present) <= c - 1
                 \/ \E a \in 0 .. 3 : a >= g - wait /\ present[a] >= 1
    /\ Total(last) <= Most
    /\ \/ Total(last) <= Most - 1
       \/ \E a \in 0 .. 3 : a >= g + 4 - wait /\ last[a] >= 1
    /\ Total(older) <= Most - 1

\* A split of requests into windows stays one when they may have waited.
LEMMA LaterIsWeaker ==
  ASSUME NEW all \in Counts, NEW present \in Counts, NEW last \in Counts, NEW older \in Counts,
         NEW g \in 0 .. 9, NEW c \in Nat, IsSplit(all, present, last, older, g, c, 0)
  PROVE  IsSplit(all, present, last, older, g, c, 2)
  BY MostIsPositive DEF IsSplit, Counts

Shift(f) == [a \in 0 .. 3 |-> IF a = 0 THEN 0 ELSE f[a - 1]]

\* A tick moves the counts of a minute by one.
LEMMA Shifts ==
  ASSUME NEW f \in Counts
  PROVE  /\ Shift(f) \in Counts
         /\ Shift(f)[0] = 0 /\ Shift(f)[1] = f[0] /\ Shift(f)[2] = f[1] /\ Shift(f)[3] = f[2]
         /\ Total(f) \in Nat /\ Total(Shift(f)) \in Nat
         /\ Total(Shift(f)) = Total(f) - f[3]
         /\ f[3] \in Nat
  BY DEF Counts, Shift, Total

\* A tick makes everything older.
LEMMA SplitTicks ==
  ASSUME NEW all \in Counts, NEW present \in Counts, NEW last \in Counts, NEW older \in Counts,
         NEW g \in 0 .. 9, NEW c \in Nat, NEW wait \in {0, 2},
         IsSplit(all, present, last, older, g, c, wait),
         NEW h, h = IF g <= 8 THEN g + 1 ELSE 9
  PROVE  IsSplit(Shift(all), Shift(present), Shift(last), Shift(older), h, c, wait)
  <1>1. Most \in Nat \ {0}
    BY MostIsPositive
  <1>2. \A a \in 0 .. 3 :
            /\ Shift(all)[a] = Shift(present)[a] + Shift(last)[a] + Shift(older)[a]
            /\ Shift(present)[a] > 0 => a >= h - 3 - wait
            /\ Shift(last)[a] > 0 => a >= h - wait
            /\ Shift(older)[a] > 0 => a >= h + 4 - wait
    <2>1. SUFFICES ASSUME NEW a \in 0 .. 3
                   PROVE  /\ Shift(all)[a] = Shift(present)[a] + Shift(last)[a] + Shift(older)[a]
                          /\ Shift(present)[a] > 0 => a >= h - 3 - wait
                          /\ Shift(last)[a] > 0 => a >= h - wait
                          /\ Shift(older)[a] > 0 => a >= h + 4 - wait
      OBVIOUS
    <2>2. CASE a = 0
      BY <2>2, Shifts
    <2>3. CASE a # 0
      <3>1. a - 1 \in 0 .. 3
        BY <2>3
      <3>2. /\ Shift(all)[a] = all[a - 1] /\ Shift(present)[a] = present[a - 1]
            /\ Shift(last)[a] = last[a - 1] /\ Shift(older)[a] = older[a - 1]
        BY <2>3 DEF Shift
      <3>3. QED
        BY <3>1, <3>2 DEF IsSplit
    <2>4. QED
      BY <2>2, <2>3
  <1>3. ASSUME NEW f \in Counts, NEW b \in Nat, NEW k \in -4 .. 20, Total(f) <= b,
               Total(f) <= b - 1 \/ \E a \in 0 .. 3 : a >= k /\ f[a] >= 1
        PROVE  /\ Total(Shift(f)) <= b
               /\ \/ Total(Shift(f)) <= b - 1
                  \/ \E a \in 0 .. 3 : a >= k + 1 /\ Shift(f)[a] >= 1
    <2>1. CASE Total(f) <= b - 1
      BY <1>3, <2>1, Shifts
    <2>2. ASSUME NEW a \in 0 .. 3, a >= k, f[a] >= 1
          PROVE  \/ Total(Shift(f)) <= b - 1
                 \/ \E n \in 0 .. 3 : n >= k + 1 /\ Shift(f)[n] >= 1
      <3>1. CASE a = 3
        BY <1>3, <2>2, <3>1, Shifts
      <3>2. CASE a # 3
        <4>1. a + 1 \in 0 .. 3 /\ a + 1 >= k + 1 /\ Shift(f)[a + 1] = f[a]
          BY <2>2, <3>2 DEF Shift
        <4>2. QED
          BY <2>2, <4>1
      <3>3. QED
        BY <3>1, <3>2
    <2>3. Total(Shift(f)) <= b
      BY <1>3, Shifts
    <2>4. QED
      BY <1>3, <2>1, <2>2, <2>3
  <1>4. Total(Shift(present)) <= c
    BY Shifts DEF IsSplit
  <1>5. h <= 8 => \/ Total(Shift(present)) <= c - 1
                  \/ \E a \in 0 .. 3 : a >= h - wait /\ Shift(present)[a] >= 1
    <2>1. SUFFICES ASSUME h <= 8
                   PROVE  \/ Total(Shift(present)) <= c - 1
                          \/ \E a \in 0 .. 3 : a >= h - wait /\ Shift(present)[a] >= 1
      OBVIOUS
    <2>2. g <= 8 /\ h - wait = (g - wait) + 1 /\ g - wait \in -4 .. 20
      BY <2>1
    <2>3. Total(present) <= c /\ (\/ Total(present) <= c - 1
                                  \/ \E a \in 0 .. 3 : a >= g - wait /\ present[a] >= 1)
      BY <2>2 DEF IsSplit
    <2>4. QED
      BY <1>3, <2>2, <2>3
  <1>6. /\ Total(Shift(last)) <= Most
        /\ \/ Total(Shift(last)) <= Most - 1
           \/ \E a \in 0 .. 3 : a >= h + 4 - wait /\ Shift(last)[a] >= 1
    <2> DEFINE k == g + 4 - wait
    <2>1. k \in -4 .. 20 /\ k + 1 >= h + 4 - wait
      OBVIOUS
    <2>2. /\ Total(last) <= Most
          /\ Total(last) <= Most - 1 \/ \E a \in 0 .. 3 : a >= k /\ last[a] >= 1
      BY DEF IsSplit
    <2> HIDE DEF k
    <2>3. /\ Total(Shift(last)) <= Most
          /\ \/ Total(Shift(last)) <= Most - 1
             \/ \E a \in 0 .. 3 : a >= k + 1 /\ Shift(last)[a] >= 1
      BY <1>1, <1>3, <2>1, <2>2
    <2>4. QED
      BY <2>1, <2>3
  <1>7. Total(Shift(older)) <= Most - 1
    BY <1>1, Shifts DEF IsSplit
  <1>8. QED
    BY <1>2, <1>4, <1>5, <1>6, <1>7 DEF IsSplit

One == [a \in 0 .. 3 |-> IF a = 0 THEN 1 ELSE 0]

\* One request more, which is let through now.
OneMore(f) == [f EXCEPT ![0] = @ + 1]

\* A request is counted in the present window.
LEMMA SplitCounts ==
  ASSUME NEW all \in Counts, NEW present \in Counts, NEW last \in Counts, NEW older \in Counts,
         NEW g \in 0 .. 9, NEW c \in Nat, NEW wait \in {0, 2}, g <= 3 + wait,
         IsSplit(all, present, last, older, g, c, wait)
  PROVE  /\ OneMore(present) \in Counts
         /\ IsSplit(OneMore(all), OneMore(present), last, older,
                    g, c + 1, wait)
  <1> DEFINE p == OneMore(present)
             s == OneMore(all)
  <1>1. /\ p \in Counts /\ p[0] = present[0] + 1 /\ \A a \in 1 .. 3 : p[a] = present[a]
        /\ s[0] = all[0] + 1 /\ \A a \in 1 .. 3 : s[a] = all[a]
        /\ Total(p) = Total(present) + 1 /\ Total(present) \in Nat
    BY DEF Counts, Total, OneMore
  <1> HIDE DEF p, s
  <1>2. \A a \in 0 .. 3 :
            /\ s[a] = p[a] + last[a] + older[a]
            /\ p[a] > 0 => a >= g - 3 - wait
            /\ p[a] >= present[a]
    <2>1. \A a \in 0 .. 3 : a = 0 \/ a \in 1 .. 3
      OBVIOUS
    <2>2. QED
      BY <1>1, <2>1 DEF IsSplit, Counts
  <1>3. /\ Total(p) <= c + 1
        /\ g <= 8 => \/ Total(p) <= (c + 1) - 1
                     \/ \E a \in 0 .. 3 : a >= g - wait /\ p[a] >= 1
    <2>1. CASE Total(present) <= c - 1
      BY <1>1, <2>1
    <2>2. ASSUME NEW a \in 0 .. 3, a >= g - wait, present[a] >= 1
          PROVE  p[a] >= 1
      BY <1>1, <1>2, <2>2 DEF Counts
    <2>3. QED
      BY <1>1, <2>1, <2>2 DEF IsSplit
  <1>4. IsSplit(s, p, last, older, g, c + 1, wait)
    BY <1>2, <1>3 DEF IsSplit
  <1>5. QED
    BY <1>1, <1>4 DEF p, s

Both(e, f) == [a \in 0 .. 3 |-> e[a] + f[a]]

\* A request that is counted w ticks after its time opens the next window.
LEMMA SplitOpens ==
  ASSUME NEW all \in Counts, NEW present \in Counts, NEW last \in Counts, NEW older \in Counts,
         NEW g \in 0 .. 9, NEW c \in Nat, c <= Most, NEW wait \in {0, 2}, NEW w \in 0 .. wait,
         g - w >= 4, IsSplit(all, present, last, older, g, c, wait)
  PROVE  /\ Both(last, older) \in Counts
         /\ IsSplit(OneMore(all), One, present, Both(last, older), w, 1, wait)
  <1> DEFINE s == OneMore(all)
             before == Both(last, older)
  <1>1. Most \in Nat \ {0}
    BY MostIsPositive
  <1>2. before \in Counts /\ \A a \in 0 .. 3 : before[a] = last[a] + older[a]
    BY DEF Counts, Both
  <1>3. One \in Counts /\ One[0] = 1 /\ (\A a \in 1 .. 3 : One[a] = 0) /\ Total(One) = 1
    BY DEF Counts, One, Total
  <1>4. s[0] = all[0] + 1 /\ \A a \in 1 .. 3 : s[a] = all[a]
    BY DEF Counts, OneMore
  <1>5. \A a \in 0 .. 3 : older[a] = 0
    BY DEF IsSplit, Counts
  <1> HIDE DEF s, before
  <1>6. Total(before) = Total(last)
    BY <1>2, <1>5 DEF Total, Counts
  <1>7. Total(last) <= Most - 1
    BY DEF IsSplit
  <1>8. \A a \in 0 .. 3 :
            /\ s[a] = One[a] + present[a] + before[a]
            /\ One[a] > 0 => a >= w - 3 - wait
            /\ present[a] > 0 => a >= w - wait
            /\ before[a] > 0 => a >= w + 4 - wait
    <2>1. \A a \in 0 .. 3 : a = 0 \/ a \in 1 .. 3
      OBVIOUS
    <2>2. QED
      BY <1>2, <1>3, <1>4, <1>5, <2>1 DEF IsSplit, Counts
  <1>9. \/ Total(present) <= Most - 1
        \/ \E a \in 0 .. 3 : a >= w + 4 - wait /\ present[a] >= 1
    <2>1. Total(present) \in Nat
      BY Shifts
    <2>2. CASE g <= 8
      <3>1. CASE Total(present) <= c - 1
        BY <1>1, <2>1, <3>1
      <3>2. ASSUME NEW a \in 0 .. 3, a >= g - wait, present[a] >= 1
            PROVE  a >= w + 4 - wait
        BY <3>2
      <3>3. QED
        BY <2>2, <3>1, <3>2 DEF IsSplit
    <2>3. CASE g = 9
      <3>1. 9 - 3 - wait >= 4
        OBVIOUS
      <3>2. ASSUME NEW a \in 0 .. 3
            PROVE  present[a] = 0
        <4>1. present[a] \in Nat /\ (present[a] > 0 => a >= 9 - 3 - wait)
          BY <2>3 DEF IsSplit, Counts
        <4>2. QED
          BY <3>1, <4>1
      <3>3. present[0] = 0 /\ present[1] = 0 /\ present[2] = 0 /\ present[3] = 0
        BY <3>2
      <3>4. QED
        BY <1>1, <3>3 DEF Total
    <2>4. QED
      BY <2>2, <2>3
  <1>10. Total(present) <= Most
    BY <1>1, Shifts DEF IsSplit
  <1>11. \E a \in 0 .. 3 : a >= w - wait /\ One[a] >= 1
    BY <1>3
  <1>12. IsSplit(s, One, present, before, w, 1, wait)
    BY <1>3, <1>6, <1>7, <1>8, <1>9, <1>10, <1>11 DEF IsSplit
  <1>13. QED
    BY <1>2, <1>12 DEF s, before

\* Three windows make less than three limits, and less than two if all requests
\* were counted at their time.
LEMMA SplitsAreFew ==
  ASSUME NEW all \in Counts, NEW present \in Counts, NEW last \in Counts, NEW older \in Counts,
         NEW g \in 0 .. 9, NEW c \in Nat, c <= Most, NEW wait \in {0, 2},
         IsSplit(all, present, last, older, g, c, wait)
  PROVE  Total(all) < (IF wait = 2 THEN 3 ELSE 2) * Most
  <1>1. Most \in Nat \ {0}
    BY MostIsPositive
  <1>2. Total(all) = Total(present) + Total(last) + Total(older)
    BY DEF IsSplit, Total, Counts
  <1>3. /\ Total(present) \in Nat /\ Total(last) \in Nat /\ Total(older) \in Nat
    BY Shifts
  <1>4. Total(present) <= Most /\ Total(last) <= Most /\ Total(older) <= Most - 1
    BY <1>1, <1>3 DEF IsSplit
  <1>5. CASE wait = 2
    BY <1>1, <1>2, <1>3, <1>4, <1>5
  <1>6. CASE wait = 0
    <2>1. \A a \in 0 .. 3 : older[a] = 0
      BY <1>6 DEF IsSplit, Counts
    <2>2. Total(older) = 0
      BY <2>1 DEF Total
    <2>3. Total(last) <= Most - 1
      BY <1>6 DEF IsSplit
    <2>4. QED
      BY <1>1, <1>2, <1>3, <1>4, <1>6, <2>2, <2>3
  <1>7. QED
    BY <1>5, <1>6

-----------------------------------------------------------------------------
(* The rate limit *)

Wait == IF late THEN MaxWait ELSE 0

\* While somebody reads the policy nobody uses the cached one, and what has been
\* read is the row unless the row changed since, which leaves a trace.
PolicyIInv ==
    /\ reader # NoReader => policyAge = Fresh /\ call[reader].phase \in {"load", "fill"}
    /\ (/\ reader # NoReader
        /\ call[reader].phase = "fill"
        /\ pending = 0 /\ ~unread /\ ~defaulted) => call[reader].limit = Effective(setting)
    /\ PolicyIsCurrent

\* The requests of the last minute fell into three windows at most.
WindowIInv ==
    \E present, last, older \in Counts :
        IsSplit(admitted, present, last, older, bucket.age, bucket.count, Wait)

RateIInv == RateTypeOK /\ PolicyIInv /\ WindowIInv

\* The types, as facts about numbers.
LEMMA RateNumbers ==
  ASSUME RateTypeOK
  PROVE  /\ late \in BOOLEAN /\ unread \in BOOLEAN /\ defaulted \in BOOLEAN
         /\ bucket.age \in 0 .. 9 /\ bucket.count \in Nat /\ bucket.count <= Most
         /\ bucket = [age |-> bucket.age, count |-> bucket.count]
         /\ admitted \in Counts
         /\ Wait \in {0, 2}
         /\ \A q \in Caller : /\ call[q].age \in 0 .. 2
                              /\ call[q].limit \in Nat /\ call[q].limit <= Most
  <1>1. Most \in Nat
    BY MostIsPositive
  <1>2. bucket \in [age : 0 .. 9, count : 0 .. Most]
    BY DEF RateTypeOK, Old, Forget, Most
  <1>3. bucket.count \in Nat /\ bucket.count <= Most /\ bucket.age \in 0 .. 9
    BY <1>1, <1>2
  <1>4. \A q \in Caller : call[q].limit \in AnyLimit /\ call[q].age \in 0 .. 2
    BY DEF RateTypeOK, MaxWait
  <1>5. admitted \in Counts
    BY DEF RateTypeOK, Counts, Minute
  <1>6. late \in BOOLEAN /\ unread \in BOOLEAN /\ defaulted \in BOOLEAN
    BY DEF RateTypeOK
  <1>7. QED
    BY <1>2, <1>3, <1>4, <1>5, <1>6, MostIsPositive DEF Wait, MaxWait

\* What Consume does to the bucket.
LEMMA ConsumeCounts ==
  ASSUME RateTypeOK, NEW q \in Caller, Window(q).count < call[q].limit,
         bucket' = [Window(q) EXCEPT !.count = @ + 1]
  PROVE  /\ \/ /\ bucket.age - call[q].age < 4
               /\ bucket'.age = bucket.age /\ bucket'.count = bucket.count + 1
            \/ /\ bucket.age - call[q].age >= 4
               /\ bucket'.age = call[q].age /\ bucket'.count = 1
         /\ bucket' \in [age : 0 .. Old, count : 0 .. Most]
  <1>1. Most \in Nat \ {0} /\ call[q].limit \in Nat /\ call[q].limit <= Most
    BY MostIsPositive, RateNumbers
  <1>2. bucket.age \in 0 .. 9 /\ bucket.count \in Nat /\ call[q].age \in 0 .. 2
    BY RateNumbers
  <1>3. CASE bucket.age - call[q].age < 4
    <2>1. Window(q) = bucket
      BY <1>2, <1>3 DEF Window, Minute
    <2>2. bucket'.age = bucket.age /\ bucket'.count = bucket.count + 1
      BY <2>1 DEF RateTypeOK
    <2>3. bucket' \in [age : 0 .. 9, count : 0 .. Most]
      BY <1>1, <1>2, <2>1, RateNumbers
    <2>4. QED
      BY <1>3, <2>2, <2>3 DEF Old, Forget
  <1>4. CASE bucket.age - call[q].age >= 4
    <2>1. Window(q) = [age |-> call[q].age, count |-> 0]
      BY <1>2, <1>4 DEF Window, Minute
    <2>2. bucket'.age = call[q].age /\ bucket'.count = 1
      BY <2>1
    <2>3. bucket' \in [age : 0 .. 9, count : 0 .. Most]
      BY <1>1, <1>2, <2>1
    <2>4. QED
      BY <1>4, <2>2, <2>3 DEF Old, Forget
  <1>5. QED
    BY <1>2, <1>3, <1>4

\* Every step keeps the types of the rate limit.
LEMMA RateTypesKeep ==
  ASSUME RateTypeOK, RateNext
  PROVE  RateTypeOK'
  <1> DEFINE CallRecord == [phase : {"idle", "load", "fill", "consume"},
                            limit : AnyLimit, age : 0 .. MaxWait]
  <1>1. /\ DefaultLimit \in AnyLimit
        /\ \A value \in Limit \cup {NoSetting} : Effective(value) \in AnyLimit
        /\ Most \in Nat
    BY MostIsPositive DEF AnyLimit, Effective
  <1>2. call \in [Caller -> CallRecord] /\ NoCall \in CallRecord
    BY <1>1 DEF RateTypeOK, NoCall, MaxWait
  <1>3. /\ bucket \in [age : 0 .. Old, count : 0 .. Most]
        /\ NoBucket \in [age : 0 .. Old, count : 0 .. Most]
    BY <1>1 DEF RateTypeOK, NoBucket, Most, Old, Forget
  <1>4. ASSUME NEW q \in Caller, CallArrives(q)
        PROVE  RateTypeOK'
    BY <1>2, <1>4 DEF CallArrives, RateTypeOK
  <1>5. ASSUME NEW q \in Caller, LoadCached(q)
        PROVE  RateTypeOK'
    BY <1>2, <1>5 DEF LoadCached, Timed, RateTypeOK, MaxWait
  <1>6. ASSUME NEW q \in Caller, LoadBegins(q)
        PROVE  RateTypeOK'
    BY <1>6 DEF LoadBegins, RateTypeOK
  <1>7. ASSUME NEW q \in Caller, LoadReads(q)
        PROVE  RateTypeOK'
    <2>1. PICK erred \in BOOLEAN :
              /\ call' = [call EXCEPT ![q].phase = "fill",
                     ![q].limit = IF erred THEN DefaultLimit ELSE Effective(setting)]
              /\ defaulted' = erred
      BY <1>7 DEF LoadReads
    <2> DEFINE l == IF erred THEN DefaultLimit ELSE Effective(setting)
    <2>2. l \in AnyLimit
      BY <1>1 DEF RateTypeOK
    <2>3. call' = [call EXCEPT ![q].phase = "fill", ![q].limit = l]
      BY <2>1
    <2> HIDE DEF l
    <2>4. call' \in [Caller -> CallRecord]
      BY <1>2, <2>2, <2>3
    <2>5. QED
      BY <1>7, <2>1, <2>4 DEF LoadReads, RateTypeOK
  <1>8. ASSUME NEW q \in Caller, LoadFills(q)
        PROVE  RateTypeOK'
    <2>1. call' \in [Caller -> CallRecord] /\ limit' \in AnyLimit
      BY <1>2, <1>8 DEF LoadFills, Timed, MaxWait
    <2>2. bucket' \in [age : 0 .. Old, count : 0 .. Most]
      BY <1>3, <1>8 DEF LoadFills
    <2>3. QED
      BY <1>8, <2>1, <2>2 DEF LoadFills, RateTypeOK, Most, Fresh
  <1>9. ASSUME NEW q \in Caller, Consume(q)
        PROVE  RateTypeOK'
    <2>1. call' \in [Caller -> CallRecord]
      BY <1>2, <1>9 DEF Consume
    <2>2. CASE Window(q).count >= call[q].limit
      BY <1>9, <2>1, <2>2 DEF Consume, RateTypeOK
    <2>3. CASE ~(Window(q).count >= call[q].limit)
      <3>1. Window(q).count \in Nat /\ call[q].limit \in Nat
        BY RateNumbers DEF Window
      <3>2. bucket' \in [age : 0 .. Old, count : 0 .. Most]
        BY <1>9, <2>3, <3>1, ConsumeCounts DEF Consume
      <3>3. admitted' \in [0 .. Minute - 1 -> Nat]
        BY <1>9, <2>3 DEF Consume, RateTypeOK, Minute
      <3>4. late' \in BOOLEAN
        BY <1>9, <2>3 DEF Consume
      <3>5. QED
        BY <1>9, <2>1, <3>2, <3>3, <3>4 DEF Consume, RateTypeOK, Most
    <2>4. QED
      BY <2>2, <2>3
  <1>10. ASSUME NEW value \in Limit \cup {NoSetting}, ChangeLimit(value)
         PROVE  RateTypeOK'
    <2>1. unread' \in BOOLEAN /\ pending' \in 0 .. MaxPending
      <3>1. CASE unread' = TRUE /\ pending' = pending
        BY <3>1 DEF RateTypeOK
      <3>2. CASE pending < MaxPending /\ pending' = pending + 1 /\ unread' = unread
        BY <3>2, RateAssumption DEF RateTypeOK
      <3>3. QED
        BY <1>10, <3>1, <3>2 DEF ChangeLimit
    <2>2. QED
      BY <1>10, <2>1 DEF ChangeLimit, RateTypeOK
  <1>11. ASSUME Invalidate
         PROVE  RateTypeOK'
    BY <1>11, RateAssumption DEF Invalidate, RateTypeOK, Fresh
  <1>12. ASSUME Tick
         PROVE  RateTypeOK'
    <2>1. call' \in [Caller -> CallRecord]
      <3>1. SUFFICES ASSUME NEW q \in Caller
                     PROVE  (IF call[q].phase = "consume" THEN [call[q] EXCEPT !.age = @ + 1]
                             ELSE call[q]) \in CallRecord
        BY <1>12 DEF Tick
      <3>2. call[q].phase = "consume" => call[q].age \in 0 .. 1
        BY <1>2, <1>12 DEF Tick, MaxWait
      <3>3. QED
        BY <1>2, <3>2 DEF MaxWait
    <2>2. bucket' \in [age : 0 .. Old, count : 0 .. Most]
      <3>1. Min({bucket.age + 1, Old}) \in 0 .. Old
        BY <1>3, LeastOfTwo DEF Old, Forget
      <3>2. QED
        BY <1>3, <1>12, <3>1 DEF Tick
    <2>3. policyAge' \in 0 .. Fresh
      <3>1. policyAge \in 0 .. 2
        BY DEF RateTypeOK, Fresh
      <3>2. Min({policyAge + 1, 2}) = IF policyAge + 1 <= 2 THEN policyAge + 1 ELSE 2
        BY <3>1, LeastOfTwo
      <3>3. policyAge' = Min({policyAge + 1, 2})
        BY <1>12 DEF Tick, Fresh
      <3>4. QED
        BY <3>1, <3>2, <3>3 DEF Fresh
    <2>4. admitted' \in [0 .. Minute - 1 -> Nat]
      BY <1>12 DEF Tick, RateTypeOK, Minute
    <2>5. QED
      BY <1>12, <2>1, <2>2, <2>3, <2>4 DEF Tick, RateTypeOK, Most
  <1>13. QED
    BY <1>4, <1>5, <1>6, <1>7, <1>8, <1>9, <1>10, <1>11, <1>12 DEF RateNext, HandleCall

\* Every step keeps what is said of the cached policy.
LEMMA PolicyKeeps ==
  ASSUME RateTypeOK, PolicyIInv, RateNext
  PROVE  PolicyIInv'
  <1> DEFINE CallRecord == [phase : {"idle", "load", "fill", "consume"},
                            limit : AnyLimit, age : 0 .. MaxWait]
  <1> USE DEF PolicyIInv, PolicyIsCurrent
  <1>1. call \in [Caller -> CallRecord] /\ reader \in Caller \cup {NoReader} /\ NoReader \notin Caller
    BY RateAssumption DEF RateTypeOK
  <1>2. ASSUME NEW q \in Caller, CallArrives(q)
        PROVE  PolicyIInv'
    BY <1>1, <1>2 DEF CallArrives
  <1>3. ASSUME NEW q \in Caller, LoadCached(q)
        PROVE  PolicyIInv'
    BY <1>1, <1>3 DEF LoadCached
  <1>4. ASSUME NEW q \in Caller, LoadBegins(q)
        PROVE  PolicyIInv'
    BY <1>1, <1>4 DEF LoadBegins, RateTypeOK, Fresh
  <1>5. ASSUME NEW q \in Caller, LoadReads(q)
        PROVE  PolicyIInv'
    <2>1. PICK erred \in BOOLEAN :
              /\ call' = [call EXCEPT ![q].phase = "fill",
                     ![q].limit = IF erred THEN DefaultLimit ELSE Effective(setting)]
              /\ defaulted' = erred
      BY <1>5 DEF LoadReads
    <2>2. call'[q].phase = "fill" /\ (~erred => call'[q].limit = Effective(setting))
      BY <1>1, <2>1
    <2>3. QED
      BY <1>1, <1>5, <2>1, <2>2 DEF LoadReads, Fresh
  <1>6. ASSUME NEW q \in Caller, LoadFills(q)
        PROVE  PolicyIInv'
    BY <1>1, <1>6 DEF LoadFills
  <1>7. ASSUME NEW q \in Caller, Consume(q)
        PROVE  PolicyIInv'
    BY <1>1, <1>7 DEF Consume
  <1>8. ASSUME NEW value \in Limit \cup {NoSetting}, ChangeLimit(value)
        PROVE  PolicyIInv'
    BY <1>1, <1>8, RateAssumption DEF ChangeLimit, RateTypeOK
  <1>9. ASSUME Invalidate
        PROVE  PolicyIInv'
    BY <1>1, <1>9 DEF Invalidate, Fresh
  <1>10. ASSUME Tick
         PROVE  PolicyIInv'
    <2>1. /\ policyAge = Fresh => policyAge' = Fresh
          /\ policyAge' < Fresh => policyAge < Fresh
      <3>1. policyAge \in 0 .. 2
        BY DEF RateTypeOK, Fresh
      <3>2. Min({policyAge + 1, 2}) = IF policyAge + 1 <= 2 THEN policyAge + 1 ELSE 2
        BY <3>1, LeastOfTwo
      <3>3. policyAge' = Min({policyAge + 1, 2})
        BY <1>10 DEF Tick, Fresh
      <3>4. QED
        BY <3>1, <3>2, <3>3 DEF Fresh
    <2>2. \A q \in Caller : /\ call'[q].phase = call[q].phase
                            /\ call'[q].limit = call[q].limit
      BY <1>1, <1>10 DEF Tick
    <2>3. QED
      BY <1>1, <1>10, <2>1, <2>2 DEF Tick
  <1>11. QED
    BY <1>2, <1>3, <1>4, <1>5, <1>6, <1>7, <1>8, <1>9, <1>10 DEF RateNext, HandleCall

\* A request that is admitted belongs to the current window or begins a new one.
LEMMA ConsumeKeepsWindows ==
  ASSUME RateTypeOK, WindowIInv, NEW q \in Caller, Consume(q)
  PROVE  WindowIInv'
  <1>1. PICK present \in Counts, last \in Counts, older \in Counts :
            IsSplit(admitted, present, last, older, bucket.age, bucket.count, Wait)
    BY DEF WindowIInv
  <1>2. CASE Window(q).count >= call[q].limit
    BY <1>2 DEF Consume, WindowIInv, Wait
  <1>3. CASE ~(Window(q).count >= call[q].limit)
    <2>1. Window(q).count \in Nat /\ call[q].limit \in Nat
      BY RateNumbers DEF Window
    <2>2. /\ bucket' = [Window(q) EXCEPT !.count = @ + 1]
          /\ late' = (late \/ call[q].age > 0)
          /\ admitted' = OneMore(admitted)
      BY <1>3 DEF Consume, OneMore
    <2>3. Window(q).count < call[q].limit
      BY <1>3, <2>1
    <2> DEFINE g == bucket.age
               c == bucket.count
               w == call[q].age
               wait == Wait'
    <2>4. /\ g \in 0 .. 9 /\ c \in Nat /\ c <= Most /\ w \in 0 .. 2 /\ admitted \in Counts
          /\ late \in BOOLEAN
      BY RateNumbers
    <2>5. wait \in {0, 2} /\ w \in 0 .. wait
      <3>1. CASE late'
        BY <2>4, <3>1 DEF Wait, MaxWait
      <3>2. CASE ~late'
        <4>1. ~(w > 0)
          BY <2>2, <3>2
        <4>2. w = 0 /\ wait = 0
          BY <2>4, <3>2, <4>1 DEF Wait
        <4>3. QED
          BY <4>2
      <3>3. QED
        BY <3>1, <3>2
    <2>6. IsSplit(admitted, present, last, older, g, c, wait)
      <3>1. CASE wait = Wait
        BY <1>1, <3>1
      <3>2. CASE wait # Wait
        <4>1. Wait = 0 /\ wait = 2
          BY <2>2, <2>4, <3>2 DEF Wait, MaxWait
        <4>2. IsSplit(admitted, present, last, older, g, c, 0)
          BY <1>1, <4>1
        <4> HIDE DEF g, c, wait
        <4>3. QED
          BY <2>4, <4>1, <4>2, LaterIsWeaker
      <3>3. QED
        BY <3>1, <3>2
    <2>7. \/ g - w < 4 /\ bucket'.age = g /\ bucket'.count = c + 1
          \/ g - w >= 4 /\ bucket'.age = w /\ bucket'.count = 1
      BY <2>2, <2>3, ConsumeCounts
    <2> HIDE DEF g, c, w, wait
    <2>8. CASE g - w < 4 /\ bucket'.age = g /\ bucket'.count = c + 1
      <3>1. g <= 3 + wait
        BY <2>4, <2>5, <2>8
      <3>2. /\ OneMore(present) \in Counts
            /\ IsSplit(OneMore(admitted), OneMore(present),
                       last, older, g, c + 1, wait)
        BY <2>4, <2>5, <2>6, <3>1, SplitCounts
      <3>3. IsSplit(admitted', OneMore(present), last, older,
                    bucket'.age, bucket'.count, Wait')
        BY <2>2, <2>8, <3>2 DEF wait
      <3>4. QED
        BY <3>2, <3>3 DEF WindowIInv
    <2>9. CASE g - w >= 4 /\ bucket'.age = w /\ bucket'.count = 1
      <3>1. /\ Both(last, older) \in Counts
            /\ IsSplit(OneMore(admitted), One, present, Both(last, older), w, 1, wait)
        BY <2>4, <2>5, <2>6, <2>9, SplitOpens
      <3>2. One \in Counts
        BY DEF One, Counts
      <3>3. IsSplit(admitted', One, present, Both(last, older),
                    bucket'.age, bucket'.count, Wait')
        BY <2>2, <2>9, <3>1 DEF wait
      <3>4. QED
        BY <3>1, <3>2, <3>3 DEF WindowIInv
    <2>10. QED
      BY <2>7, <2>8, <2>9
  <1>4. QED
    BY <1>2, <1>3

\* A tick makes all windows older, and forgets what is older than a minute.
LEMMA TickKeepsWindows ==
  ASSUME RateTypeOK, WindowIInv, Tick
  PROVE  WindowIInv'
  <1> DEFINE g == bucket.age
             h == IF g <= 8 THEN g + 1 ELSE 9
  <1>1. PICK present \in Counts, last \in Counts, older \in Counts :
            IsSplit(admitted, present, last, older, g, bucket.count, Wait)
    BY DEF WindowIInv
  <1>2. admitted' = Shift(admitted) /\ Wait' = Wait
    BY DEF Tick, Shift, Minute, Wait
  <1>3. bucket'.age = h /\ bucket'.count = bucket.count
    <2>1. g \in 0 .. 9 /\ bucket \in [age : 0 .. 9, count : 0 .. Max(AnyLimit)]
      BY RateNumbers DEF RateTypeOK, Old, Forget
    <2>2. Min({g + 1, 9}) = h
      BY <2>1, LeastOfTwo
    <2>3. bucket' = [bucket EXCEPT !.age = Min({g + 1, 9})]
      BY DEF Tick, Old, Forget
    <2>4. QED
      BY <2>1, <2>2, <2>3
  <1>4. /\ g \in 0 .. 9 /\ bucket.count \in Nat /\ admitted \in Counts /\ Wait \in {0, 2}
    BY RateNumbers
  <1> HIDE DEF g
  <1>5. IsSplit(Shift(admitted), Shift(present), Shift(last), Shift(older), h, bucket.count, Wait)
    BY <1>1, <1>4, SplitTicks
  <1>6. Shift(present) \in Counts /\ Shift(last) \in Counts /\ Shift(older) \in Counts
    BY Shifts
  <1> HIDE DEF h
  <1>7. IsSplit(admitted', Shift(present), Shift(last), Shift(older),
                bucket'.age, bucket'.count, Wait')
    BY <1>2, <1>3, <1>5
  <1>8. QED
    BY <1>6, <1>7 DEF WindowIInv

\* A bucket is forgotten when its requests are older than a minute.
LEMMA FillKeepsWindows ==
  ASSUME RateTypeOK, WindowIInv, NEW q \in Caller, LoadFills(q)
  PROVE  WindowIInv'
  <1>1. PICK present \in Counts, last \in Counts, older \in Counts :
            IsSplit(admitted, present, last, older, bucket.age, bucket.count, Wait)
    BY DEF WindowIInv
  <1>2. admitted' = admitted /\ Wait' = Wait
    BY DEF LoadFills, Wait
  <1>3. /\ bucket.age \in 0 .. 9 /\ bucket.count \in Nat /\ Wait \in {0, 2}
    BY RateNumbers
  <1>4. CASE bucket.age <= 8
    <2>1. bucket' = bucket
      BY <1>3, <1>4 DEF LoadFills, Forget
    <2>2. QED
      BY <1>1, <1>2, <2>1 DEF WindowIInv
  <1>5. CASE bucket.age = 9
    <2>1. bucket'.age = 9 /\ bucket'.count = 0
      BY <1>5 DEF LoadFills, Forget, NoBucket, Old
    <2>2. ASSUME NEW a \in 0 .. 3
          PROVE  present[a] = 0
      <3>1. 9 - 3 - Wait >= 4
        BY <1>3
      <3>2. present[a] \in Nat /\ (present[a] > 0 => a >= 9 - 3 - Wait)
        BY <1>1, <1>5 DEF IsSplit, Counts
      <3>3. QED
        BY <1>3, <3>1, <3>2
    <2>3. Total(present) = 0
      <3>1. present[0] = 0 /\ present[1] = 0 /\ present[2] = 0 /\ present[3] = 0
        BY <2>2
      <3>2. QED
        BY <3>1 DEF Total
    <2>4. IsSplit(admitted, present, last, older, 9, 0, Wait)
      BY <1>1, <1>5, <2>3 DEF IsSplit
    <2>5. QED
      BY <1>2, <2>1, <2>4 DEF WindowIInv
  <1>6. QED
    BY <1>3, <1>4, <1>5

\* Without requests all windows are empty.
LEMMA RateStarts == RateInit => RateIInv
  <1> SUFFICES ASSUME RateInit
               PROVE  RateIInv
    OBVIOUS
  <1>1. Most \in Nat \ {0} /\ DefaultLimit \in AnyLimit
    BY MostIsPositive DEF AnyLimit
  <1>2. NoBucket \in [age : 0 .. Old, count : 0 .. Most]
    BY <1>1 DEF NoBucket, Old, Forget
  <1>3. RateTypeOK
    <2>1. call \in [Caller -> [phase : {"idle", "load", "fill", "consume"},
                              limit : AnyLimit, age : 0 .. MaxWait]]
      BY <1>1 DEF RateInit, NoCall, MaxWait
    <2>2. pending \in 0 .. MaxPending /\ policyAge \in 0 .. Fresh
      BY RateAssumption DEF RateInit, Fresh
    <2>3. admitted \in [0 .. Minute - 1 -> Nat]
      BY DEF RateInit
    <2>4. QED
      BY <1>1, <1>2, <2>1, <2>2, <2>3 DEF RateInit, RateTypeOK, Most
  <1>4. PolicyIInv
    BY DEF RateInit, PolicyIInv, PolicyIsCurrent, Fresh
  <1> DEFINE zero == [a \in 0 .. 3 |-> 0]
  <1>5. /\ zero \in Counts /\ \A a \in 0 .. 3 : zero[a] = 0
        /\ Total(zero) = 0 /\ admitted = zero
    BY DEF RateInit, Counts, Total, Minute
  <1> HIDE DEF zero
  <1>6. bucket.age = 9 /\ bucket.count = 0
    BY DEF RateInit, NoBucket, Old, Forget
  <1>7. IsSplit(admitted, zero, zero, zero, bucket.age, bucket.count, Wait)
    BY <1>1, <1>5, <1>6 DEF IsSplit
  <1>8. QED
    BY <1>3, <1>4, <1>5, <1>7 DEF RateIInv, WindowIInv

\* The invariant of the rate limit holds for any limits and any number of
\* concurrent requests (apiRateLimitMiddleware).
THEOREM RateInvariance == RateSpec => []RateIInv
  <1>1. RateIInv /\ [RateNext]_rateVars => RateIInv'
    <2> SUFFICES ASSUME RateIInv, [RateNext]_rateVars
                 PROVE  RateIInv'
      OBVIOUS
    <2>1. CASE RateNext
      <3>1. RateTypeOK' /\ PolicyIInv'
        BY <2>1, RateTypesKeep, PolicyKeeps DEF RateIInv
      <3>2. ASSUME UNCHANGED <<bucket, admitted, late>>
            PROVE  WindowIInv'
        BY <3>2 DEF RateIInv, WindowIInv, Wait
      <3>3. WindowIInv'
        BY <2>1, <3>2, FillKeepsWindows, ConsumeKeepsWindows, TickKeepsWindows
        DEF RateIInv, RateNext, HandleCall, CallArrives, LoadCached, LoadBegins, LoadReads,
            ChangeLimit, Invalidate
      <3>4. QED
        BY <3>1, <3>3 DEF RateIInv
    <2>2. CASE UNCHANGED rateVars
      <3>1. RateTypeOK' /\ PolicyIInv'
        BY <2>2 DEF rateVars, RateIInv, RateTypeOK, PolicyIInv, PolicyIsCurrent
      <3>2. WindowIInv'
        BY <2>2 DEF rateVars, RateIInv, WindowIInv, Wait
      <3>3. QED
        BY <3>1, <3>2 DEF RateIInv
    <2>3. QED
      BY <2>1, <2>2
  <1>2. QED
    BY <1>1, RateStarts, PTL DEF RateSpec

\* A cached limit is the one of the database, unless the read of the policy failed
\* or the change did not invalidate the cache (loadAPIRateLimit, putSetting,
\* deleteSetting).
THEOREM CachedPoliciesAreCurrent == RateSpec => []PolicyIsCurrent
  <1>1. RateIInv => PolicyIsCurrent
    BY DEF RateIInv, PolicyIInv
  <1>2. QED
    BY <1>1, RateInvariance, PTL

\* A user gets less than two limits into any minute, and less than three if a
\* request had to wait for the mutex before it was counted (consumeAPIRate).
THEOREM WindowsAreFew == RateSpec => []FewWindowsPerMinute
  <1>1. RateIInv => FewWindowsPerMinute
    <2> SUFFICES ASSUME RateIInv
                 PROVE  FewWindowsPerMinute
      OBVIOUS
    <2>1. PICK present \in Counts, last \in Counts, older \in Counts :
              IsSplit(admitted, present, last, older, bucket.age, bucket.count, Wait)
      BY DEF RateIInv, WindowIInv
    <2>2. /\ admitted \in Counts /\ bucket.age \in 0 .. 9 /\ bucket.count \in Nat
          /\ bucket.count <= Most /\ Wait \in {0, 2}
      BY RateNumbers DEF RateIInv
    <2>3. Total(admitted) < (IF Wait = 2 THEN 3 ELSE 2) * Most
      BY <2>1, <2>2, SplitsAreFew
    <2>4. QED
      BY <2>3 DEF FewWindowsPerMinute, Total, Most, Wait, MaxWait
  <1>2. QED
    BY <1>1, RateInvariance, PTL
-----------------------------------------------------------------------------
(* All of them together, each behaviour moving one *)

\* What moves one of the components is a behaviour of each of them.
LEMMA EachIsAComponent ==
    Spec => /\ RateSpec /\ ThrottleSpec /\ AISpec
            /\ SettingsSpec /\ KeysSpec /\ ReadingSpec
  <1>1. Init => /\ RateInit /\ ThrottleInit /\ AIInit
                /\ SettingsInit /\ KeysInit /\ ReadingInit
    BY DEF Init
  <1>2. [Next]_vars => /\ [RateNext]_rateVars /\ [ThrottleNext]_throttleVars
                       /\ [AINext]_aiVars /\ [SettingsNext]_settingsVars
                       /\ [KeysNext]_keyVars /\ [ReadingNext]_readingVars
    BY DEF Next, vars
  <1>3. QED
    BY <1>1, <1>2, PTL
    DEF Spec, RateSpec, ThrottleSpec, AISpec, SettingsSpec, KeysSpec, ReadingSpec

\* Every variable of the six components keeps its type, for all values of their
\* constants.
THEOREM ComponentsTypes == Spec => []TypeOK
  <1>1. /\ RateIInv => RateTypeOK
        /\ ThrottleIInv => ThrottleTypeOK
        /\ AIIInv => AITypeOK
        /\ SettingsIInv => SettingsTypeOK
        /\ KeysIInv => KeysTypeOK
    BY DEF RateIInv, ThrottleIInv, AIIInv, SettingsIInv, KeysIInv
  <1>2. (/\ RateTypeOK /\ ThrottleTypeOK /\ AITypeOK
         /\ SettingsTypeOK /\ KeysTypeOK /\ ReadingTypeOK) => TypeOK
    BY DEF TypeOK
  <1>3. QED
    BY <1>1, <1>2, EachIsAComponent, RateInvariance, ThrottleInvariance, AIInvariance,
       SettingsInvariance, KeysInvariance, ReadingTypes, PTL

=============================================================================
