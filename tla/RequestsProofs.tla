---------------------------- MODULE RequestsProofs --------------------------
(***************************************************************************)
(* Proofs about the pool of database connections and about notifications,  *)
(* for any number of requests, connections, rules, resources and           *)
(* concurrent evaluations.                                                 *)
(***************************************************************************)
EXTENDS MCRequests, FiniteSetTheorems, TLAPS

PoolSpec == PoolInit /\ [][PoolNext]_poolVars

NotesSpec == NotesInit /\ [][NotesNext]_noteVars

-----------------------------------------------------------------------------
(* The pool: the mutex has one owner, which reads the policy, and whoever  *)
(* has a connection for himself is a search that shows its results, an     *)
(* export or a restore before its commit.  So the mutex is released by whoever took it, and no connection *)
(* is lost.                                                                *)

TaskRecord == [kind : Kind, phase : Phase]

\* Where a request can have a connection for itself.
MayHold(q) == task[q].phase \in {"results", "audit", "dump", "restore", "finish", "abandon"}

\* Where it must have one: it gives it back only when it ends.
MustHold(q) == task[q].phase \in {"results", "dump", "restore", "finish", "abandon"}

PoolIInv ==
    /\ PoolTypeOK
    /\ \A q \in Task : task[q].phase = "policy" => mutex = q
    /\ \A q \in Task : /\ q \in holding => MayHold(q)
                       /\ MustHold(q) => q \in holding

\* With a connection that is free one more request can have one, and one less is
\* always possible.
LEMMA OneConnection ==
    ASSUME PoolTypeOK, NEW q \in Task
    PROVE  /\ Free => Cardinality(holding \cup {q}) <= Connections
           /\ Cardinality(holding \ {q}) <= Connections
  <1>1. IsFiniteSet(holding) /\ Connections \in Nat
    BY PoolAssumption, FS_Subset DEF PoolTypeOK
  <1>2. /\ Cardinality(holding \cup {q}) <= Cardinality(holding) + 1
        /\ Cardinality(holding \ {q}) <= Cardinality(holding)
        /\ Cardinality(holding) \in Nat
        /\ Cardinality(holding \cup {q}) \in Nat
        /\ Cardinality(holding \ {q}) \in Nat
    <2>1. /\ IsFiniteSet(holding \cup {q})
          /\ Cardinality(holding \cup {q}) = IF q \in holding THEN Cardinality(holding)
                                             ELSE Cardinality(holding) + 1
      BY <1>1, FS_AddElement
    <2>2. /\ IsFiniteSet(holding \ {q})
          /\ Cardinality(holding \ {q}) = IF q \in holding THEN Cardinality(holding) - 1
                                          ELSE Cardinality(holding)
      BY <1>1, FS_RemoveElement
    <2>3. /\ Cardinality(holding) \in Nat
          /\ Cardinality(holding \cup {q}) \in Nat
          /\ Cardinality(holding \ {q}) \in Nat
      BY <1>1, <2>1, <2>2, FS_CardinalityType
    <2>4. QED
      BY <2>1, <2>2, <2>3
  <1>3. QED
    BY <1>1, <1>2 DEF Free, PoolTypeOK

\* The request q moves on to another phase or ends: what the phase says about the
\* mutex and the connections has to fit, and the others are not concerned.
LEMMA OneMoves ==
    ASSUME PoolIInv, NEW q \in Task, NEW t \in TaskRecord,
           task' = [task EXCEPT ![q] = t],
           holding' \in {holding, holding \cup {q}, holding \ {q}},
           Cardinality(holding') <= Connections,
           mutex' \in {mutex, q, Nobody},
           mutex' = q <=> t.phase = "policy",
           mutex' # mutex => mutex \in {q, Nobody},
           q \in holding' =>
               t.phase \in {"results", "audit", "dump", "restore", "finish", "abandon"},
           t.phase \in {"results", "dump", "restore", "finish", "abandon"} => q \in holding'
    PROVE  PoolIInv'
  <1>1. /\ task' \in [Task -> TaskRecord] /\ task'[q] = t
        /\ \A p \in Task : p # q => task'[p] = task[p]
    BY DEF PoolIInv, PoolTypeOK, TaskRecord
  <1>2. /\ holding' \subseteq Task /\ q \notin {Nobody}
        /\ \A p \in Task : p # q => (p \in holding' <=> p \in holding)
    BY PoolAssumption DEF PoolIInv, PoolTypeOK
  <1>3. mutex' \in Task \cup {Nobody} /\ (mutex' # Nobody => task'[mutex'].phase = "policy")
    BY <1>1, PoolAssumption DEF PoolIInv, PoolTypeOK
  <1>4. PoolTypeOK'
    BY <1>1, <1>2, <1>3 DEF PoolTypeOK, TaskRecord
  <1>5. \A p \in Task : task'[p].phase = "policy" => mutex' = p
    BY <1>1, PoolAssumption DEF PoolIInv
  <1>6. \A p \in Task : /\ p \in holding' => MayHold(p)'
                        /\ MustHold(p)' => p \in holding'
    BY <1>1, <1>2 DEF PoolIInv, MayHold, MustHold
  <1>7. QED
    BY <1>4, <1>5, <1>6 DEF PoolIInv

\* A request that only changes its phase keeps its kind.
LEMMA NextPhase ==
    ASSUME PoolTypeOK, NEW q \in Task, NEW phase \in Phase, To(q, phase)
    PROVE  \E t \in TaskRecord : t.phase = phase /\ task' = [task EXCEPT ![q] = t]
  <1> DEFINE t == [task[q] EXCEPT !.phase = phase]
  <1>1. t \in TaskRecord /\ t.phase = phase
    BY DEF PoolTypeOK, TaskRecord
  <1>2. task' = [task EXCEPT ![q] = t]
    BY DEF To
  <1>3. QED
    BY <1>1, <1>2

\* The same as one step: from a phase to another, with the connection and the mutex
\* that both phases ask for.
LEMMA PhaseMoves ==
    ASSUME PoolIInv, NEW q \in Task, NEW phase \in Phase, To(q, phase),
           holding' \in {holding, holding \cup {q}, holding \ {q}},
           Cardinality(holding') <= Connections,
           mutex' \in {mutex, q, Nobody},
           mutex' = q <=> phase = "policy",
           mutex' # mutex => mutex \in {q, Nobody},
           q \in holding' =>
               phase \in {"results", "audit", "dump", "restore", "finish", "abandon"},
           phase \in {"results", "dump", "restore", "finish", "abandon"} => q \in holding'
    PROVE  PoolIInv'
  <1>1. PICK t \in TaskRecord : t.phase = phase /\ task' = [task EXCEPT ![q] = t]
    BY NextPhase DEF PoolIInv
  <1>2. QED
    BY <1>1, OneMoves

\* A request that ends gives its connection back.
LEMMA OneEnds ==
    ASSUME PoolIInv, NEW q \in Task, task[q].phase # "policy", Ends(q), UNCHANGED mutex
    PROVE  PoolIInv'
  <1>1. NoTask \in TaskRecord /\ NoTask.phase = "idle"
    BY DEF NoTask, TaskRecord, Kind, Phase
  <1>2. Cardinality(holding \ {q}) <= Connections
    BY OneConnection DEF PoolIInv
  <1>3. mutex # q
    BY PoolAssumption DEF PoolIInv, PoolTypeOK
  <1>4. QED
    BY <1>1, <1>2, <1>3, OneMoves DEF Ends

\* The first phase of a handler.
LEMMA FirstPhase ==
    ASSUME NEW kind \in Kind
    PROVE  First(kind) \in {"statement", "rows", "job", "begin", "evaluate"} \cap Phase
  <1>1. First(kind) \in {"statement", "rows", "job", "begin", "evaluate"}
    BY DEF First, Kind
  <1>2. QED
    BY <1>1 DEF Phase, Timed, Untimed

\* Initially nobody has anything.
LEMMA PoolBegins == PoolInit => PoolIInv
  <1> SUFFICES ASSUME PoolInit PROVE PoolIInv
    OBVIOUS
  <1>1. NoTask \in TaskRecord /\ NoTask.phase = "idle"
    BY DEF NoTask, TaskRecord, Kind, Phase
  <1>2. Cardinality(holding) = 0 /\ 0 <= Connections
    BY FS_EmptySet, PoolAssumption DEF PoolInit
  <1>3. QED
    BY <1>1, <1>2 DEF PoolInit, PoolIInv, PoolTypeOK, TaskRecord, MayHold, MustHold

\* Every step of a request keeps the mutex and the connections accounted for.
LEMMA PoolKeeps == PoolIInv /\ [PoolNext]_poolVars => PoolIInv'
  <1> SUFFICES ASSUME PoolIInv, [PoolNext]_poolVars PROVE PoolIInv'
    OBVIOUS
  <1>1. CASE UNCHANGED poolVars
    BY <1>1 DEF poolVars, PoolIInv, PoolTypeOK, MayHold, MustHold
  <1>2. ASSUME NEW q \in Task
        PROVE  /\ task[q].phase = "policy" <=> mutex = q
               /\ q \in holding => MayHold(q)
               /\ MustHold(q) => q \in holding
               /\ q # Nobody
    BY PoolAssumption DEF PoolIInv, PoolTypeOK
  <1>3. ASSUME NEW q \in Task
        PROVE  /\ Free => Cardinality(holding \cup {q}) <= Connections
               /\ Cardinality(holding \ {q}) <= Connections
               /\ Cardinality(holding) <= Connections
    BY OneConnection DEF PoolIInv, PoolTypeOK
  <1>4. ASSUME NEW q \in Task
        PROVE  First(task[q].kind) \in
                   {"statement", "rows", "job", "begin", "evaluate"} \cap Phase
    BY FirstPhase DEF PoolIInv, PoolTypeOK
  <1>5. {"policy", "limit", "results", "audit", "connection", "dump", "finish",
         "abandon", "restore", "record", "log"} \subseteq Phase
    BY DEF Phase, Timed, Untimed
  <1>6. ASSUME NEW q \in Task, NEW kind \in Kind,
               NEW phase \in {"limit", First("ticker")}, At(q, "idle"),
               task' = [task EXCEPT ![q] = [kind |-> kind, phase |-> phase]],
               UNCHANGED <<holding, mutex>>
        PROVE  PoolIInv'
    <2> DEFINE t == [kind |-> kind, phase |-> phase]
    <2>1. t \in TaskRecord /\ t.phase \in {"limit", "evaluate"}
      BY <1>5 DEF TaskRecord, First, Phase, Untimed
    <2>2. /\ task' = [task EXCEPT ![q] = t]
          /\ mutex # q /\ q \notin holding
      BY <1>2, <1>6 DEF At, MayHold
    <2> HIDE DEF t
    <2>3. QED
      BY <1>3, <1>6, <2>1, <2>2, OneMoves
  <1>7. ASSUME NEW q \in Task, (\E kind \in Kind : TaskArrives(q, kind)) \/ Tick(q)
        PROVE  PoolIInv'
    <2>1. "ticker" \in Kind
      BY DEF Kind
    <2>2. QED
      BY <1>6, <1>7, <2>1 DEF TaskArrives, Tick
  <1>8. ASSUME NEW q \in Task, LimitLoads(q) \/ PolicyRead(q) PROVE PoolIInv'
    BY <1>2, <1>3, <1>4, <1>5, <1>8, PhaseMoves
    DEF LimitLoads, LimitCached, LimitRead, PolicyRead, At, MayHold
  <1>9. ASSUME NEW q \in Task,
               \/ Statement(q) \/ SearchFails(q) \/ Audited(q)
               \/ RestoreLogged(q) \/ Evaluated(q)
        PROVE  PoolIInv'
    BY <1>9, OneEnds DEF Statement, SearchFails, Audited, RestoreLogged, Evaluated, At
  <1>10. ASSUME NEW q \in Task,
               SearchOpens(q) \/ SearchExhausted(q) \/ SearchStops(q) \/ JobInserted(q)
        PROVE  PoolIInv'
    BY <1>2, <1>3, <1>5, <1>10, PhaseMoves
    DEF SearchOpens, SearchExhausted, SearchStops, JobInserted, At, MayHold, MustHold
  <1>11. ASSUME NEW q \in Task, ExportAcquires(q) \/ RestoreBegins(q) PROVE PoolIInv'
    BY <1>2, <1>3, <1>5, <1>11, PhaseMoves DEF ExportAcquires, RestoreBegins, At, MayHold
  <1>12. ASSUME NEW q \in Task, Dumped(q) PROVE PoolIInv'
    <2>1. CASE Ends(q)
      BY <1>12, <2>1, OneEnds DEF Dumped, At
    <2>2. ASSUME NEW phase \in {"finish", "abandon"}, To(q, phase), UNCHANGED holding
          PROVE  PoolIInv'
      BY <1>2, <1>3, <1>5, <1>12, <2>2, PhaseMoves DEF Dumped, At, MustHold
    <2>3. QED
      BY <1>12, <2>1, <2>2 DEF Dumped
  <1>13. ASSUME NEW q \in Task, RestoreEnds(q) PROVE PoolIInv'
    <2>1. CASE Ends(q)
      BY <1>13, <2>1, OneEnds DEF RestoreEnds, At
    <2>2. CASE To(q, "record") /\ holding' = holding \ {q}
      BY <1>2, <1>3, <1>5, <1>13, <2>2, PhaseMoves DEF RestoreEnds, At
    <2>3. QED
      BY <1>13, <2>1, <2>2 DEF RestoreEnds
  <1>14. ASSUME NEW q \in Task, RestoreRecorded(q) PROVE PoolIInv'
    BY <1>2, <1>3, <1>5, <1>14, PhaseMoves DEF RestoreRecorded, At, MayHold
  <1>15. ASSUME NEW q \in Task, JobFinished(q) PROVE PoolIInv'
    <2>1. CASE At(q, "finish")
      BY <1>2, <1>3, <1>5, <1>15, <2>1, PhaseMoves DEF JobFinished, At, MustHold
    <2>2. CASE ~At(q, "finish")
      BY <1>15, <2>2, OneEnds DEF JobFinished
    <2>3. QED
      BY <2>1, <2>2
  <1>16. ASSUME NEW q \in Task, Deadline(q) PROVE PoolIInv'
    <2>1. CASE At(q, "policy")
      BY <1>2, <1>3, <1>4, <1>16, <2>1, PhaseMoves DEF Deadline, At, MayHold
    <2>2. CASE ~At(q, "policy")
      BY <1>16, <2>2, OneEnds DEF Deadline, At
    <2>3. QED
      BY <2>1, <2>2
  <1>17. QED
    BY <1>1, <1>7, <1>8, <1>9, <1>10, <1>11, <1>12, <1>13, <1>14, <1>15, <1>16
    DEF PoolNext, Proceeds, ServedAtLast

\* The mutex has one owner that will release it, the pool is never overdrawn, and
\* no connection is held by a request that has ended.
THEOREM PoolInvariance == PoolSpec => []PoolIInv
  BY PoolBegins, PoolKeeps, PTL DEF PoolSpec

-----------------------------------------------------------------------------
(* Notifications: what an evaluation still has to do concerns rules that   *)
(* were created, and a notification of a rule exists only then.            *)

EvaluatorRecord(known) ==
    [running : BOOLEAN, todo : SUBSET known, matches : SUBSET Pair]

\* An evaluation that has something to do is running.
LEMMA BusyRuns ==
    ASSUME NotesTypeOK, NEW e \in Evaluator
    PROVE  /\ evaluator[e] \in EvaluatorRecord(spent)
           /\ evaluator[e].todo # {} \/ evaluator[e].matches # {} => evaluator[e].running
  BY DEF NotesTypeOK, EvaluatorRecord, Resting

\* Evaluation e moves on, no rule is created or announced.
LEMMA EvaluationKeeps ==
    ASSUME NotesTypeOK, NEW e \in Evaluator, NEW c \in EvaluatorRecord(spent),
           ~c.running => c = Resting,
           evaluator' = [evaluator EXCEPT ![e] = c],
           UNCHANGED <<rules, spent, matching, note>>, faults' \in 0 .. MaxFaults
    PROVE  NotesTypeOK'
  <1>1. evaluator' \in [Evaluator -> EvaluatorRecord(spent)]
    BY DEF NotesTypeOK, EvaluatorRecord
  <1>2. \A d \in Evaluator : ~evaluator'[d].running => evaluator'[d] = Resting
    BY DEF NotesTypeOK
  <1>3. QED
    BY <1>1, <1>2 DEF NotesTypeOK, EvaluatorRecord

\* The notifications change, of rules that were created.
LEMMA NotesKeep ==
    ASSUME NotesTypeOK, note' \in [Pair -> {"none", "unread", "read"}],
           \A p \in Pair : note'[p] # "none" => note[p] # "none" \/ p[1] \in spent,
           UNCHANGED <<rules, spent, matching, evaluator, faults>>
    PROVE  NotesTypeOK'
  BY DEF NotesTypeOK

\* Rest is a state of an evaluation.
LEMMA RestIsARecord == ASSUME NEW known PROVE Resting \in EvaluatorRecord(known)
  BY DEF Resting, EvaluatorRecord

\* The evaluation that announces p goes on with the rest, or meets an error.
LEMMA AnnounceKeeps ==
    ASSUME NotesTypeOK, NEW e \in Evaluator, NEW p \in Pair, Announce(e, p)
    PROVE  NotesTypeOK'
  <1>1. evaluator[e] \in EvaluatorRecord(spent) /\ evaluator[e].running
    BY BusyRuns DEF Announce
  <1>2. CASE Refused(p)
    BY <1>2, RestIsARecord, EvaluationKeeps DEF Announce, EndsEvaluation, NotesTypeOK
  <1>3. CASE ~Refused(p)
    <2> DEFINE c == [evaluator[e] EXCEPT !.matches = @ \ {p}]
    <2>1. c \in EvaluatorRecord(spent) /\ c.running
      BY <1>1 DEF EvaluatorRecord
    <2>2. evaluator' = [evaluator EXCEPT ![e] = c] /\ note' = Inserted(p)
          /\ UNCHANGED <<rules, spent, matching, faults>>
      BY <1>3 DEF Announce
    <2> HIDE DEF c
    <2>3. /\ evaluator' \in [Evaluator -> EvaluatorRecord(spent)]
          /\ \A d \in Evaluator : ~evaluator'[d].running => evaluator'[d] = Resting
      BY <2>1, <2>2 DEF NotesTypeOK, EvaluatorRecord
    <2>4. /\ note' \in [Pair -> {"none", "unread", "read"}]
          /\ \A o \in Pair : note'[o] # "none" => o[1] \in spent
      BY <1>3, <2>2 DEF Inserted, Refused, NotesTypeOK
    <2>5. QED
      BY <2>2, <2>3, <2>4 DEF NotesTypeOK, EvaluatorRecord
  <1>4. QED
    BY <1>2, <1>3

\* An evaluation looks at one of the rules that it has to.
LEMMA EvaluateRuleKeeps ==
    ASSUME NotesTypeOK, NEW e \in Evaluator, NEW r \in Rule, EvaluateRule(e, r)
    PROVE  NotesTypeOK'
  <1>1. evaluator[e] \in EvaluatorRecord(spent) /\ evaluator[e].running
    BY BusyRuns DEF EvaluateRule
  <1>2. matching \subseteq Pair /\ {r} \X Resource \subseteq Pair
    BY DEF NotesTypeOK, Pair
  <1>3. PICK M \in SUBSET Pair :
            evaluator' = [evaluator EXCEPT ![e].todo = @ \ {r}, ![e].matches = M]
    BY <1>2 DEF EvaluateRule
  <1> DEFINE c == [evaluator[e] EXCEPT !.todo = @ \ {r}, !.matches = M]
  <1>4. c \in EvaluatorRecord(spent) /\ c.running
    BY <1>1 DEF EvaluatorRecord
  <1>5. evaluator' = [evaluator EXCEPT ![e] = c]
    BY <1>3
  <1> HIDE DEF c
  <1>6. QED
    BY <1>4, <1>5, EvaluationKeeps DEF EvaluateRule, NotesTypeOK

\* A rule is created, and the evaluation of its request begins.
LEMMA CreateRuleKeeps ==
    ASSUME NotesTypeOK, NEW e \in Evaluator, NEW r \in Rule, CreateRule(r, e)
    PROVE  NotesTypeOK'
  <1> DEFINE c == [running |-> TRUE, todo |-> rules \cup {r}, matches |-> {}]
  <1>1. rules' = rules \cup {r} /\ spent' = spent \cup {r}
    BY DEF CreateRule
  <1>2. c \in EvaluatorRecord(spent') /\ c.running
    BY <1>1 DEF EvaluatorRecord, NotesTypeOK
  <1>3. evaluator' = [evaluator EXCEPT ![e] = c] /\ UNCHANGED <<note, faults>>
    BY DEF CreateRule, Evaluates
  <1> HIDE DEF c
  <1>4. \A d \in Evaluator : evaluator[d] \in EvaluatorRecord(spent')
    BY <1>1, BusyRuns DEF EvaluatorRecord
  <1>5. /\ evaluator' \in [Evaluator -> EvaluatorRecord(spent')]
        /\ \A d \in Evaluator : ~evaluator'[d].running => evaluator'[d] = Resting
    BY <1>2, <1>3, <1>4 DEF NotesTypeOK
  <1>6. matching' \subseteq Pair
    BY DEF CreateRule, NotesTypeOK, Pair
  <1>7. QED
    BY <1>1, <1>3, <1>5, <1>6 DEF NotesTypeOK, EvaluatorRecord

\* Every step keeps the types.
LEMMA NotesTypesKeep == NotesTypeOK /\ [NotesNext]_noteVars => NotesTypeOK'
  <1> SUFFICES ASSUME NotesTypeOK, [NotesNext]_noteVars PROVE NotesTypeOK'
    OBVIOUS
  <1>1. CASE UNCHANGED noteVars
    BY <1>1 DEF noteVars, NotesTypeOK
  <1>2. ASSUME NEW r \in Rule, DeleteRule(r) PROVE NotesTypeOK'
    BY <1>2 DEF DeleteRule, NotesTypeOK
  <1>3. ASSUME NEW r \in Rule, NextBucket(r) PROVE NotesTypeOK'
    <2>1. /\ note' \in [Pair -> {"none", "unread", "read"}]
          /\ \A p \in Pair : note'[p] \in {"none", note[p]}
      BY <1>3 DEF NextBucket, NotesTypeOK
    <2>2. QED
      BY <1>3, <2>1, NotesKeep DEF NextBucket
  <1>4. ASSUME NEW p \in Pair, ChangeValue(p) PROVE NotesTypeOK'
    BY <1>4 DEF ChangeValue, NotesTypeOK
  <1>5. ASSUME NEW p \in Pair, ReadNotification(p) PROVE NotesTypeOK'
    <2>1. /\ note' \in [Pair -> {"none", "unread", "read"}]
          /\ \A o \in Pair : note'[o] # "none" => note[o] # "none"
      BY <1>5 DEF ReadNotification, NotesTypeOK
    <2>2. QED
      BY <1>5, <2>1, NotesKeep DEF ReadNotification
  <1>6. ASSUME NEW e \in Evaluator, EvaluationBegins(e) PROVE NotesTypeOK'
    <2> DEFINE c == [running |-> TRUE, todo |-> rules, matches |-> {}]
    <2>1. c \in EvaluatorRecord(spent) /\ c.running
      BY DEF EvaluatorRecord, NotesTypeOK
    <2>2. evaluator' = [evaluator EXCEPT ![e] = c]
      BY <1>6 DEF EvaluationBegins, Evaluates
    <2> HIDE DEF c
    <2>3. QED
      BY <1>6, <2>1, <2>2, EvaluationKeeps DEF EvaluationBegins, NotesTypeOK
  <1>7. ASSUME NEW e \in Evaluator, EvaluationEnds(e) PROVE NotesTypeOK'
    BY <1>7, RestIsARecord, EvaluationKeeps
    DEF EvaluationEnds, EndsEvaluation, NotesTypeOK
  <1>8. ASSUME NEW e \in Evaluator, EvaluationFails(e) PROVE NotesTypeOK'
    <2>1. faults' \in 0 .. MaxFaults
      BY <1>8, NotificationAssumption DEF EvaluationFails, NotesTypeOK
    <2>2. QED
      BY <1>8, <2>1, RestIsARecord, EvaluationKeeps DEF EvaluationFails, EndsEvaluation
  <1>9. QED
    BY <1>1, <1>2, <1>3, <1>4, <1>5, <1>6, <1>7, <1>8, AnnounceKeeps, EvaluateRuleKeeps,
       CreateRuleKeeps
    DEF NotesNext, EvaluationProceeds

\* Notifications are of rules that were created, and evaluations that rest have
\* nothing left to announce.
THEOREM NotesTypes == NotesSpec => []NotesTypeOK
  <1>1. NotesInit => NotesTypeOK
    BY NotificationAssumption, RestIsARecord
    DEF NotesInit, NotesTypeOK, EvaluatorRecord
  <1>2. QED
    BY <1>1, NotesTypesKeep, PTL DEF NotesSpec

ReadsStay ==
    \A p \in Pair : note[p] = "read" /\ note'[p] # "read" => NextBucket(p[1])

\* Only the next bucket takes back that a notification was read: an insertion that
\* meets it changes nothing.
LEMMA ReadsStayRead == NotesTypeOK /\ [NotesNext]_noteVars => [ReadsStay]_noteVars
  <1> SUFFICES ASSUME NotesTypeOK, NotesNext,
                      NEW p \in Pair, note[p] = "read", note'[p] # "read"
               PROVE  NextBucket(p[1])
    BY DEF ReadsStay
  <1>1. \/ \E r \in Rule : NextBucket(r)
        \/ \E o \in Pair : ReadNotification(o)
        \/ \E o \in Pair, e \in Evaluator : Announce(e, o)
    BY DEF NotesNext, EvaluationProceeds, DeleteRule, CreateRule, ChangeValue,
           EvaluationBegins, EvaluateRule, EvaluationEnds, EvaluationFails
  <1>2. ASSUME NEW r \in Rule, NextBucket(r) PROVE NextBucket(p[1])
    BY <1>2 DEF NextBucket
  <1>3. ASSUME NEW o \in Pair, ReadNotification(o) PROVE FALSE
    BY <1>3 DEF ReadNotification, NotesTypeOK
  <1>4. ASSUME NEW o \in Pair, NEW e \in Evaluator, Announce(e, o) PROVE FALSE
    BY <1>4 DEF Announce, Inserted, NotesTypeOK
  <1>5. QED
    BY <1>1, <1>2, <1>3, <1>4

-----------------------------------------------------------------------------
(* Both of them, each behaviour moving one *)

\* What moves one of the components is a behaviour of both.
LEMMA EachIsAComponent == Spec => PoolSpec /\ NotesSpec
  <1>1. Init => PoolInit /\ NotesInit
    BY DEF Init
  <1>2. [Next]_vars => [PoolNext]_poolVars /\ [NotesNext]_noteVars
    BY DEF Next, vars
  <1>3. QED
    BY <1>1, <1>2, PTL DEF Spec, PoolSpec, NotesSpec

\* Tasks, connections, the mutex, rules, notifications and evaluations stay what
\* the code can have, and no more connections are in use than the pool has.
THEOREM RequestsTypes == Spec => []TypeOK
  <1>1. PoolIInv /\ NotesTypeOK => TypeOK
    BY DEF PoolIInv, TypeOK
  <1>2. QED
    BY <1>1, EachIsAComponent, PoolInvariance, NotesTypes, PTL

\* What the user has read is not announced again in the same bucket, whatever
\* evaluations run at the same time.
THEOREM ReadIsNotAnnounced == Spec => ReadStaysRead
  BY EachIsAComponent, NotesTypes, ReadsStayRead, PTL
  DEF NotesSpec, ReadStaysRead, ReadsStay

=============================================================================
