---------------------------- MODULE ApiRateLimit ----------------------------
(***************************************************************************)
(* The limit of API requests per user and minute (apiRateLimitMiddleware)  *)
(* for one user of one server.  One mutex guards the cached policy and the *)
(* buckets.  It is held while the policy is read from the database, so     *)
(* that a request which has taken its time from the clock may have to wait *)
(* before it is counted.                                                   *)
(*                                                                         *)
(* Time passes in ticks of 15 seconds.  Instead of points in time the      *)
(* variables hold ages, which keeps the state space finite.                *)
(***************************************************************************)
EXTENDS Integers, FiniteSets, FiniteSetsExt

CONSTANTS Caller,         \* the slots of concurrent requests of the user
          Limit,          \* the limits putSetting accepts: 60 to 10000
          DefaultLimit,   \* 600
          MaxPending,     \* a bound: settings waiting to invalidate the cache
          NoSetting, NoReader

ASSUME RateAssumption ==
    /\ IsFiniteSet(Limit) /\ Limit \subseteq Nat \ {0} /\ DefaultLimit \in Nat \ {0}
    /\ MaxPending \in Nat
    /\ NoSetting \notin Limit /\ NoReader \notin Caller

Minute == 4      \* ticks of a window
Fresh == 2       \* ticks for which the policy is cached
Forget == 8      \* ticks after which a bucket is deleted
Old == Forget + 1
MaxWait == 2     \* ticks one waits for the mutex: the timeout of the reader

VARIABLES
    setting,      \* the row system/api_rate_limit
    limit,        \* apiRateLimit, the cached policy
    policyAge,    \* the age of apiRatePolicy, Fresh if it is to be read again
    reader,       \* who holds the mutex while it reads the policy
    bucket,       \* the age of the window and what it has counted
    call,         \* call[q]: the request in slot q; age is that of its time
    pending,      \* committed settings that have not invalidated the cache yet
    unread,       \* history variables: the cache misses a change that did not
    defaulted,    \* invalidate it; it holds the default because a read failed;
    late,         \* a request was counted later than its time;
    admitted      \* admitted[a]: the requests let through a ticks ago

rateVars == <<setting, limit, policyAge, reader, bucket, call, pending, unread,
              defaulted, late, admitted>>

NoBucket == [age |-> Old, count |-> 0]
NoCall == [phase |-> "idle", limit |-> DefaultLimit, age |-> 0]
AnyLimit == Limit \cup {DefaultLimit}

RateTypeOK ==
    /\ setting \in Limit \cup {NoSetting}
    /\ limit \in AnyLimit
    /\ policyAge \in 0 .. Fresh
    /\ reader \in Caller \cup {NoReader}
    /\ bucket \in [age : 0 .. Old, count : 0 .. Max(AnyLimit)]
    /\ call \in [Caller -> [phase : {"idle", "load", "fill", "consume"},
                            limit : AnyLimit, age : 0 .. MaxWait]]
    /\ pending \in 0 .. MaxPending
    /\ {unread, defaulted, late} \subseteq BOOLEAN
    /\ admitted \in [0 .. Minute - 1 -> Nat]

RateInit ==
    /\ setting = NoSetting
    /\ limit = DefaultLimit
    /\ policyAge = Fresh
    /\ reader = NoReader
    /\ bucket = NoBucket
    /\ call = [q \in Caller |-> NoCall]
    /\ pending = 0
    /\ unread = FALSE /\ defaulted = FALSE /\ late = FALSE
    /\ admitted = [a \in 0 .. Minute - 1 |-> 0]

-----------------------------------------------------------------------------
(* loadAPIRateLimit *)

\* What a read of the row amounts to.
Effective(row) == IF row = NoSetting THEN DefaultLimit ELSE row

CallArrives(q) ==
    /\ call[q].phase = "idle"
    /\ call' = [call EXCEPT ![q].phase = "load"]
    /\ UNCHANGED <<setting, limit, policyAge, reader, bucket, pending, unread,
                   defaulted, late, admitted>>

\* The time of the request is taken when it has its limit.
Timed(q, l) == call' = [call EXCEPT ![q] = [phase |-> "consume", limit |-> l, age |-> 0]]

LoadCached(q) ==
    /\ call[q].phase = "load"
    /\ reader = NoReader
    /\ policyAge < Fresh
    /\ Timed(q, limit)
    /\ UNCHANGED <<setting, limit, policyAge, reader, bucket, pending, unread,
                   defaulted, late, admitted>>

LoadBegins(q) ==
    /\ call[q].phase = "load"
    /\ reader = NoReader
    /\ policyAge >= Fresh
    /\ reader' = q
    /\ UNCHANGED <<setting, limit, policyAge, bucket, call, pending, unread,
                   defaulted, late, admitted>>

\* The query reads the row, or fails because the request was cancelled, timed
\* out or got no connection: then everybody gets the default.
LoadReads(q) ==
    /\ reader = q
    /\ call[q].phase = "load"
    /\ \E failed \in BOOLEAN :
           /\ call' = [call EXCEPT ![q].phase = "fill",
                  ![q].limit = IF failed THEN DefaultLimit ELSE Effective(setting)]
           /\ defaulted' = failed
    /\ unread' = FALSE
    /\ UNCHANGED <<setting, limit, policyAge, reader, bucket, pending, late, admitted>>

LoadFills(q) ==
    /\ reader = q
    /\ call[q].phase = "fill"
    /\ limit' = call[q].limit
    /\ policyAge' = 0
    /\ bucket' = IF bucket.age > Forget THEN NoBucket ELSE bucket
    /\ reader' = NoReader
    /\ Timed(q, call[q].limit)
    /\ UNCHANGED <<setting, pending, unread, defaulted, late, admitted>>

-----------------------------------------------------------------------------
(* consumeAPIRate *)

\* (mutant) a request that is turned away starts a new window
WindowRestarted(q) ==
    IF bucket.age - call[q].age >= Minute \/ bucket.count >= call[q].limit
    THEN [age |-> call[q].age, count |-> 0]
    ELSE bucket

\* The window the request falls into, by the time it took from the clock.
Window(q) ==
    IF bucket.age - call[q].age >= Minute
    THEN [age |-> call[q].age, count |-> 0]
    ELSE bucket

Consume(q) ==
    /\ call[q].phase = "consume"
    /\ reader = NoReader
    /\ IF Window(q).count >= call[q].limit
       THEN UNCHANGED <<bucket, late, admitted>>
       ELSE /\ bucket' = [Window(q) EXCEPT !.count = @ + 1]
            /\ late' = (late \/ call[q].age > 0)
            /\ admitted' = [admitted EXCEPT ![0] = @ + 1]
    /\ call' = [call EXCEPT ![q] = NoCall]
    /\ UNCHANGED <<setting, limit, policyAge, reader, pending, unread, defaulted>>

-----------------------------------------------------------------------------
(* putSetting, deleteSetting *)

\* The statement is committed; if its answer is lost the handler returns an
\* error and leaves the cache alone.
ChangeLimit(row) ==
    /\ setting' = row
    /\ \/ /\ pending < MaxPending
          /\ pending' = pending + 1
          /\ UNCHANGED unread
       \/ unread' = TRUE /\ UNCHANGED pending
    /\ UNCHANGED <<limit, policyAge, reader, bucket, call, defaulted, late, admitted>>

\* (mutant) the cache is invalidated while somebody reads the policy
InvalidateUnlocked ==
    /\ pending > 0
    /\ policyAge' = Fresh
    /\ pending' = pending - 1
    /\ UNCHANGED <<setting, limit, reader, bucket, call, unread, defaulted, late, admitted>>

\* invalidateAPIRatePolicy waits for the mutex.
Invalidate ==
    /\ pending > 0
    /\ reader = NoReader
    /\ policyAge' = Fresh
    /\ pending' = pending - 1
    /\ UNCHANGED <<setting, limit, reader, bucket, call, unread, defaulted, late, admitted>>

\* 15 seconds pass.  Nobody waits longer for the mutex than its holder may read.
Tick ==
    /\ \A q \in Caller : call[q].phase = "consume" => call[q].age < MaxWait
    /\ policyAge' = Min({policyAge + 1, Fresh})
    /\ bucket' = [bucket EXCEPT !.age = Min({@ + 1, Old})]
    /\ call' = [q \in Caller |->
           IF call[q].phase = "consume" THEN [call[q] EXCEPT !.age = @ + 1] ELSE call[q]]
    /\ admitted' = [a \in 0 .. Minute - 1 |-> IF a = 0 THEN 0 ELSE admitted[a - 1]]
    /\ UNCHANGED <<setting, limit, reader, pending, unread, defaulted, late>>

HandleCall(q) == LoadCached(q) \/ LoadBegins(q) \/ LoadReads(q) \/ LoadFills(q) \/ Consume(q)

RateNext ==
    \/ \E q \in Caller : CallArrives(q) \/ HandleCall(q)
    \/ \E row \in Limit \cup {NoSetting} : ChangeLimit(row)
    \/ Invalidate
    \/ Tick

RateSpec == RateInit /\ [][RateNext]_rateVars

-----------------------------------------------------------------------------

\* A window starts with a request, so that a user may get the rest of one window
\* and all of the next into one minute: fewer than two windows.  It is fewer than
\* three if a request was counted later than its time.
FewWindowsPerMinute ==
    admitted[0] + admitted[1] + admitted[2] + admitted[3]
        < (IF late THEN 3 ELSE 2) * Max(AnyLimit)

\* A cached policy is the one of the database.  Only a read that failed and a
\* change whose answer was lost leave another one in the cache, for 30 seconds.
PolicyIsCurrent ==
    (policyAge < Fresh /\ pending = 0 /\ ~unread /\ ~defaulted) =>
        limit = Effective(setting)

=============================================================================
