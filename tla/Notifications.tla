---------------------------- MODULE Notifications ---------------------------
(***************************************************************************)
(* Notification rules, and the evaluations that turn their matches into    *)
(* notifications: one a minute in every server, one in the request that    *)
(* creates a rule and one whenever an administrator asks.  An evaluation   *)
(* reads all rules, then the candidates of one rule after the other, and   *)
(* inserts what matches; the first error ends it.                          *)
(*                                                                         *)
(* A notification is unique per rule, resource and cooldown bucket.  note  *)
(* is about the current bucket: an older notification no longer counts.    *)
(***************************************************************************)
EXTENDS Integers, FiniteSets

CONSTANTS Rule, Resource,
          Evaluator,    \* the evaluations that may run at the same time
          Ticker,       \* the one of the minute ticker
          MaxFaults     \* how many evaluations of the ticker meet an error

ASSUME NotificationAssumption == Ticker \in Evaluator /\ MaxFaults \in Nat

VARIABLES
    rules,       \* the rows of notification_rules
    spent,       \* the ids of rules that were given out
    matching,    \* the pairs of a rule and a resource that meets its condition
    note,        \* note[r, x]: the notification of the current bucket
    evaluator,   \* evaluator[e]: the rules it has to evaluate, and the one it
                 \* evaluates with the matches it has to announce
    faults

noteVars == <<rules, spent, matching, note, evaluator, faults>>

Pair == Rule \X Resource

Resting == [running |-> FALSE, todo |-> {}, matches |-> {}]

NotesTypeOK ==
    /\ rules \subseteq spent /\ spent \subseteq Rule
    /\ matching \subseteq Pair
    /\ note \in [Pair -> {"none", "unread", "read"}]
    /\ evaluator \in [Evaluator ->
           [running : BOOLEAN, todo : SUBSET spent, matches : SUBSET Pair]]
    /\ \A e \in Evaluator : ~evaluator[e].running => evaluator[e] = Resting
    /\ \A p \in Pair : note[p] # "none" => p[1] \in spent
    /\ faults \in 0 .. MaxFaults

NotesInit ==
    /\ rules = {} /\ spent = {} /\ matching = {}
    /\ note = [p \in Pair |-> "none"]
    /\ evaluator = [e \in Evaluator |-> Resting]
    /\ faults = 0

-----------------------------------------------------------------------------

\* evaluateNotifications reads the rules.
Evaluates(e, R) ==
    evaluator' = [evaluator EXCEPT ![e] = [running |-> TRUE, todo |-> R, matches |-> {}]]

EndsEvaluation(e) == evaluator' = [evaluator EXCEPT ![e] = Resting]

\* The new rule may match from the start.  The request evaluates all rules.
CreateRule(r, e) ==
    /\ r \notin spent
    /\ e # Ticker /\ ~evaluator[e].running
    /\ rules' = rules \cup {r} /\ spent' = spent \cup {r}
    /\ \E M \in SUBSET ({r} \X Resource) : matching' = matching \cup M
    /\ Evaluates(e, rules \cup {r})
    /\ UNCHANGED <<note, faults>>

\* Its notifications stay.
DeleteRule(r) ==
    /\ r \in rules
    /\ rules' = rules \ {r}
    /\ matching' = {p \in matching : p[1] # r}
    /\ UNCHANGED <<spent, note, evaluator, faults>>

\* Somebody changes what the conditions are about, or a day passes.
ChangeValue(p) ==
    /\ p[1] \in rules
    /\ matching' = IF p \in matching THEN matching \ {p} ELSE matching \cup {p}
    /\ UNCHANGED <<rules, spent, note, evaluator, faults>>

\* The cooldown of a rule is over.
NextBucket(r) ==
    /\ r \in rules
    /\ note' = [p \in Pair |-> IF p[1] = r THEN "none" ELSE note[p]]
    /\ UNCHANGED <<rules, spent, matching, evaluator, faults>>

ReadNotification(p) ==
    /\ note[p] = "unread"
    /\ note' = [note EXCEPT ![p] = "read"]
    /\ UNCHANGED <<rules, spent, matching, evaluator, faults>>

EvaluationBegins(e) ==
    /\ ~evaluator[e].running
    /\ Evaluates(e, rules)
    /\ UNCHANGED <<rules, spent, matching, note, faults>>

\* notificationCandidates and matchesNotification.  A rule that was deleted after
\* it was read is evaluated like the others.
EvaluateRule(e, r) ==
    /\ evaluator[e].matches = {}
    /\ r \in evaluator[e].todo
    /\ \E M \in IF r \in rules THEN {{p \in matching : p[1] = r}} ELSE SUBSET ({r} \X Resource) :
           evaluator' = [evaluator EXCEPT ![e].todo = @ \ {r}, ![e].matches = M]
    /\ UNCHANGED <<rules, spent, matching, note, faults>>

\* (mutant) a notification that exists is replaced by a new one
InsertedAnew(p) == [note EXCEPT ![p] = "unread"]

\* (mutant) a notification that exists is an error
RefusedTwice(p) == p[1] \notin rules \/ note[p] # "none"

\* ON CONFLICT(dedupe_key) DO NOTHING
Inserted(p) == IF note[p] = "none" THEN [note EXCEPT ![p] = "unread"] ELSE note

\* A row that is inserted refers to its rule.
Refused(p) == p[1] \notin rules /\ note[p] = "none"

Announce(e, p) ==
    /\ p \in evaluator[e].matches
    /\ IF Refused(p)
       THEN EndsEvaluation(e) /\ UNCHANGED note
       ELSE /\ note' = Inserted(p)
            /\ evaluator' = [evaluator EXCEPT ![e].matches = @ \ {p}]
    /\ UNCHANGED <<rules, spent, matching, faults>>

EvaluationEnds(e) ==
    /\ evaluator[e].running /\ evaluator[e].todo = {} /\ evaluator[e].matches = {}
    /\ EndsEvaluation(e)
    /\ UNCHANGED <<rules, spent, matching, note, faults>>

\* A statement fails; that of a request may also be cancelled.
EvaluationFails(e) ==
    /\ evaluator[e].running
    /\ EndsEvaluation(e)
    /\ IF e = Ticker THEN faults < MaxFaults /\ faults' = faults + 1 ELSE UNCHANGED faults
    /\ UNCHANGED <<rules, spent, matching, note>>

EvaluationProceeds(e) ==
    \/ EvaluationBegins(e) \/ EvaluationEnds(e)
    \/ \E r \in Rule : EvaluateRule(e, r)
    \/ \E p \in Pair : Announce(e, p)

NotesNext ==
    \/ \E r \in Rule : DeleteRule(r) \/ NextBucket(r) \/ \E e \in Evaluator : CreateRule(r, e)
    \/ \E p \in Pair : ChangeValue(p) \/ ReadNotification(p)
    \/ \E e \in Evaluator : EvaluationProceeds(e) \/ EvaluationFails(e)

\* The ticker of a server that runs ticks.
NotesFairness == WF_noteVars(EvaluationProceeds(Ticker))

-----------------------------------------------------------------------------

\* What the user has read is not announced to him again in the same bucket, by
\* whatever evaluations run at the same time.
ReadStaysRead ==
    [][\A p \in Pair : note[p] = "read" /\ note'[p] # "read" => NextBucket(p[1])]_noteVars

\* A match is announced while it lasts, the matches of every rule: evaluations
\* that stop at an error, and rules that are deleted while they are evaluated, do
\* not keep others from it for ever.
MatchesAreAnnounced ==
    \A p \in Pair : p \in matching /\ note[p] = "none" ~> (p \notin matching \/ note[p] # "none")
=============================================================================
