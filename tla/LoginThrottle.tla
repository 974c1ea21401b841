--------------------------- MODULE LoginThrottle ----------------------------
(***************************************************************************)
(* The throttle of local logins (localLogin, loginBlocked, loginFailed,    *)
(* loginSucceeded) for one key, an address with a username, of one server. *)
(* An attempt looks whether the key is blocked, compares the password and  *)
(* then reports the outcome; the mutex is free in between, and attempts    *)
(* that passed the first step together are all compared.                   *)
(*                                                                         *)
(* Time passes in ticks of 5 minutes; the variables hold ages.             *)
(***************************************************************************)
EXTENDS Integers, FiniteSets, FiniteSetsExt

CONSTANTS Attempt,        \* the slots of concurrent attempts
          FailureLimit    \* the failures after which the key is blocked: 5

ASSUME ThrottleAssumption == FailureLimit \in Nat \ {0} /\ IsFiniteSet(Attempt)

Block == 3       \* 15 minutes, of a block and until failures are forgotten
Hour == 12       \* after which the entry is deleted

VARIABLES
    entry,       \* loginAttempts[key]: failures, the age of the last attempt
                 \* and what is left of the block
    attempt,     \* attempt[i]: where the attempt in slot i is, and since when
    failed       \* history variable, failed[a]: the failures a ticks ago, since
                 \* the last success

throttleVars == <<entry, attempt, failed>>

NoEntry == [failures |-> 0, age |-> Hour + 1, blocked |-> 0]
NoAttempt == [phase |-> "idle", age |-> 0]
NoFailures == [a \in 0 .. Block - 1 |-> 0]

Compared == FailureLimit - 1 + Cardinality(Attempt)

\* failures counts up to the limit: beyond it the number makes no difference.
ThrottleTypeOK ==
    /\ entry \in [failures : 0 .. FailureLimit, age : 0 .. Hour + 1, blocked : 0 .. Block]
    /\ attempt \in [Attempt -> [phase : {"idle", "compare"}, age : 0 .. 1]]
    /\ failed \in [0 .. Block - 1 -> Nat]
    /\ entry.blocked > 0 => entry.failures = FailureLimit

ThrottleInit ==
    /\ entry = NoEntry
    /\ attempt = [i \in Attempt |-> NoAttempt]
    /\ failed = NoFailures

-----------------------------------------------------------------------------

\* loginBlocked; 429 login_rate_limited otherwise.
TryLogin(i) ==
    /\ attempt[i].phase = "idle"
    /\ entry.blocked = 0
    /\ attempt' = [attempt EXCEPT ![i].phase = "compare"]
    /\ UNCHANGED <<entry, failed>>

Answered(i) == attempt' = [attempt EXCEPT ![i] = NoAttempt]

\* (mutant) the time of the attempt is not noted
FailureUntimed(e) ==
    LET failures == Min({(IF e.age > Block THEN 0 ELSE e.failures) + 1, FailureLimit})
    IN  [failures |-> failures, age |-> Block + 1,
         blocked |-> IF failures = FailureLimit THEN Block ELSE e.blocked]

\* The entry after another failure; failures are forgotten 15 minutes after the
\* last attempt.  From the limit on every failure blocks the key again.
FailureOf(e) ==
    LET failures == Min({(IF e.age > Block THEN 0 ELSE e.failures) + 1, FailureLimit})
    IN  [failures |-> failures, age |-> 0,
         blocked |-> IF failures = FailureLimit THEN Block ELSE e.blocked]

LoginFailed(i) ==
    /\ attempt[i].phase = "compare"
    /\ entry' = FailureOf(entry)
    /\ failed' = [failed EXCEPT ![0] = @ + 1]
    /\ Answered(i)

LoginSucceeded(i) ==
    /\ attempt[i].phase = "compare"
    /\ entry' = NoEntry
    /\ failed' = NoFailures
    /\ Answered(i)

\* A failure under another key sweeps the entries of the last hour out.
OtherLoginFailed ==
    /\ entry.age > Hour
    /\ entry' = NoEntry
    /\ UNCHANGED <<attempt, failed>>

\* 5 minutes pass.  A comparison ends with its request's 30 seconds.
LoginTick ==
    /\ \A i \in Attempt : attempt[i].age = 0
    /\ entry' = [entry EXCEPT !.age = Min({@ + 1, Hour + 1}), !.blocked = Max({@ - 1, 0})]
    /\ attempt' = [i \in Attempt |->
           IF attempt[i].phase = "compare" THEN [attempt[i] EXCEPT !.age = 1] ELSE attempt[i]]
    /\ failed' = [a \in 0 .. Block - 1 |-> IF a = 0 THEN 0 ELSE failed[a - 1]]

ThrottleNext ==
    \/ \E i \in Attempt : TryLogin(i) \/ LoginFailed(i) \/ LoginSucceeded(i)
    \/ OtherLoginFailed
    \/ LoginTick

ThrottleSpec == ThrottleInit /\ [][ThrottleNext]_throttleVars

-----------------------------------------------------------------------------

\* In no 15 minutes are more wrong passwords compared than the limit allows,
\* plus those that had passed the check with the one that reached it.
FewFailures == failed[0] + failed[1] + failed[2] <= Compared

=============================================================================
