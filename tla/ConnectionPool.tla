--------------------------- MODULE ConnectionPool ---------------------------
(***************************************************************************)
(* Who waits for whom: the requests of one server, its ticker, its 30     *)
(* database connections and the mutex of the rate limit.  A statement      *)
(* takes a connection for itself; what a request does between two          *)
(* statements holds none, with four exceptions.                            *)
(*                                                                         *)
(*   - The request that reads the policy of the rate limit holds the mutex *)
(*     while it waits for a connection.                                    *)
(*   - A search that stops at its thirtieth result still has the           *)
(*     connection of its rows when it writes its audit row.                *)
(*   - An export has its connection until it returns, and asks for others  *)
(*     to finish its job row and to write its audit row.                   *)
(*   - A transaction has one connection and asks for no other.  Of all     *)
(*     transactions only the one of a restore is here, for what follows    *)
(*     it: a restore that has committed has given its connection back and  *)
(*     asks for others to write its job row and its audit row.             *)
(*                                                                         *)
(* Waiting for a connection ends with the deadline of the request (30      *)
(* seconds, 10 minutes for backups).  Three wait without one: an export    *)
(* that finishes its job row, a restore after its commit, and the ticker   *)
(* that evaluates the notification rules and is no request at all.         *)
(* Waiting for the mutex has no deadline either.                           *)
(***************************************************************************)
EXTENDS Integers, FiniteSets

CONSTANTS Task,          \* the slots of concurrent requests and of the ticker
          Connections,   \* the size of the pool: 30
          Nobody

ASSUME PoolAssumption ==
    Connections \in Nat \ {0} /\ IsFiniteSet(Task) /\ Nobody \notin Task

Kind == {"query", "search", "export", "restore", "ticker"}

VARIABLES
    task,       \* task[q]: the kind of the request in slot q and its phase
    holding,    \* the requests that have a connection for themselves
    mutex       \* who holds the mutex of the rate limit

poolVars == <<task, holding, mutex>>

NoTask == [kind |-> "query", phase |-> "idle"]

\* Where a request waits for a connection until its deadline.
Timed == {"policy", "statement", "rows", "job", "connection", "begin", "audit"}

\* Where somebody waits for one as long as it takes.
Untimed == {"finish", "abandon", "record", "log", "evaluate"}

Phase == Timed \cup Untimed \cup {"idle", "limit", "results", "dump", "restore"}

PoolTypeOK ==
    /\ task \in [Task -> [kind : Kind, phase : Phase]]
    /\ holding \subseteq Task
    /\ Cardinality(holding) <= Connections
    /\ mutex \in Task \cup {Nobody}
    /\ mutex # Nobody => task[mutex].phase = "policy"

PoolInit ==
    /\ task = [q \in Task |-> NoTask]
    /\ holding = {}
    /\ mutex = Nobody

Free == Cardinality(holding) < Connections

To(q, phase) == task' = [task EXCEPT ![q].phase = phase]

At(q, phase) == task[q].phase = phase

Ends(q) ==
    /\ task' = [task EXCEPT ![q] = NoTask]
    /\ holding' = holding \ {q}

-----------------------------------------------------------------------------
(* The middleware *)

TaskArrives(q, kind) ==
    /\ At(q, "idle")
    /\ kind # "ticker"
    /\ task' = [task EXCEPT ![q] = [kind |-> kind, phase |-> "limit"]]
    /\ UNCHANGED <<holding, mutex>>

First(kind) ==
    CASE kind = "query"   -> "statement"
      [] kind = "search"  -> "rows"
      [] kind = "export"  -> "job"
      [] kind = "restore" -> "begin"
      [] kind = "ticker"  -> "evaluate"

\* The policy is cached, or somebody has to read it.
LimitCached(q) ==
    /\ At(q, "limit")
    /\ mutex = Nobody
    /\ To(q, First(task[q].kind))
    /\ UNCHANGED <<holding, mutex>>

LimitRead(q) ==
    /\ At(q, "limit")
    /\ mutex = Nobody
    /\ mutex' = q
    /\ To(q, "policy")
    /\ UNCHANGED holding

\* (mutant) the request goes on with the mutex locked
PolicyReadLocked(q) ==
    /\ At(q, "policy")
    /\ Free
    /\ To(q, First(task[q].kind))
    /\ UNCHANGED <<holding, mutex>>

PolicyRead(q) ==
    /\ At(q, "policy")
    /\ Free
    /\ mutex' = Nobody
    /\ To(q, First(task[q].kind))
    /\ UNCHANGED holding

-----------------------------------------------------------------------------
(* The handlers *)

\* A handler of single statements, one of which is enough here.
Statement(q) ==
    /\ At(q, "statement")
    /\ Free
    /\ Ends(q)
    /\ UNCHANGED mutex

\* globalSearch
SearchOpens(q) ==
    /\ At(q, "rows")
    /\ Free
    /\ holding' = holding \cup {q}
    /\ To(q, "results")
    /\ UNCHANGED mutex

\* The connection is given back with the last row.
SearchExhausted(q) ==
    /\ At(q, "results")
    /\ holding' = holding \ {q}
    /\ To(q, "audit")
    /\ UNCHANGED mutex

SearchStops(q) ==
    /\ At(q, "results")
    /\ To(q, "audit")
    /\ UNCHANGED <<holding, mutex>>

SearchFails(q) ==
    /\ At(q, "results")
    /\ Ends(q)
    /\ UNCHANGED mutex

\* exportBackup
JobInserted(q) ==
    /\ At(q, "job")
    /\ Free
    /\ To(q, "connection")
    /\ UNCHANGED <<holding, mutex>>

ExportAcquires(q) ==
    /\ At(q, "connection")
    /\ Free
    /\ holding' = holding \cup {q}
    /\ To(q, "dump")
    /\ UNCHANGED mutex

\* The tables are written, or writing them failed, or it could not begin.
Dumped(q) ==
    /\ At(q, "dump")
    /\ \/ /\ \E phase \in {"finish", "abandon"} : To(q, phase)
          /\ UNCHANGED holding
       \/ Ends(q)
    /\ UNCHANGED mutex

JobFinished(q) ==
    /\ task[q].phase \in {"finish", "abandon"}
    /\ Free
    /\ IF At(q, "finish") THEN To(q, "audit") /\ UNCHANGED holding ELSE Ends(q)
    /\ UNCHANGED mutex

\* Both end with the audit row.
Audited(q) ==
    /\ At(q, "audit")
    /\ Free
    /\ Ends(q)
    /\ UNCHANGED mutex

\* restoreBackup, from the query for the schema version, which waits and ends as
\* the beginning of the transaction does.
RestoreBegins(q) ==
    /\ At(q, "begin")
    /\ Free
    /\ holding' = holding \cup {q}
    /\ To(q, "restore")
    /\ UNCHANGED mutex

\* The transaction gives its connection back, committed or not; when it waits for
\* a table that an export reads, its deadline ends it.
RestoreEnds(q) ==
    /\ At(q, "restore")
    /\ \/ To(q, "record") /\ holding' = holding \ {q}
       \/ Ends(q)
    /\ UNCHANGED mutex

RestoreRecorded(q) ==
    /\ At(q, "record")
    /\ Free
    /\ To(q, "log")
    /\ UNCHANGED <<holding, mutex>>

RestoreLogged(q) ==
    /\ At(q, "log")
    /\ Free
    /\ Ends(q)
    /\ UNCHANGED mutex

\* (mutant) audit writes its row with a context that is never cancelled
DeadlineButAudit(q) ==
    /\ task[q].phase \in Timed \ {"audit"}
    /\ IF At(q, "policy")
       THEN mutex' = Nobody /\ To(q, First(task[q].kind)) /\ UNCHANGED holding
       ELSE Ends(q) /\ UNCHANGED mutex

\* No connection before the deadline: the policy is the default, an audit row is
\* left out, everything else is an error.
Deadline(q) ==
    /\ task[q].phase \in Timed
    /\ IF At(q, "policy")
       THEN mutex' = Nobody /\ To(q, First(task[q].kind)) /\ UNCHANGED holding
       ELSE Ends(q) /\ UNCHANGED mutex

-----------------------------------------------------------------------------
(* The ticker of the notifications *)

\* It is one goroutine, which passes no middleware.
Tick(q) ==
    /\ At(q, "idle")
    /\ \A p \in Task : task[p].kind # "ticker"
    /\ task' = [task EXCEPT ![q] = [kind |-> "ticker", phase |-> First("ticker")]]
    /\ UNCHANGED <<holding, mutex>>

\* An evaluation of single statements, one of which is enough here: the rows of
\* each are closed before the next.
Evaluated(q) ==
    /\ At(q, "evaluate")
    /\ Free
    /\ Ends(q)
    /\ UNCHANGED mutex

-----------------------------------------------------------------------------

LimitLoads(q) == LimitCached(q) \/ LimitRead(q)

Proceeds(q) ==
    \/ PolicyRead(q) \/ Statement(q) \/ SearchOpens(q) \/ SearchExhausted(q)
    \/ SearchStops(q) \/ SearchFails(q) \/ JobInserted(q) \/ ExportAcquires(q)
    \/ Dumped(q) \/ Audited(q) \/ RestoreBegins(q) \/ RestoreEnds(q)

\* What a wait without a deadline ends with.
ServedAtLast(q) ==
    JobFinished(q) \/ RestoreRecorded(q) \/ RestoreLogged(q) \/ Evaluated(q)

PoolNext ==
    \E q \in Task : \/ \E kind \in Kind : TaskArrives(q, kind)
                    \/ Tick(q) \/ LimitLoads(q) \/ Proceeds(q) \/ ServedAtLast(q)
                    \/ Deadline(q)

\* Handlers run and deadlines expire.  The mutex and the pool serve those who
\* wait in the order in which they came.
PoolFairness ==
    \A q \in Task : /\ WF_poolVars(Proceeds(q)) /\ WF_poolVars(Deadline(q))
                    /\ SF_poolVars(LimitLoads(q)) /\ SF_poolVars(ServedAtLast(q))

-----------------------------------------------------------------------------

\* As many exports as there are connections, each asking for one more.
Stuck ==
    /\ Cardinality(holding) = Connections
    /\ \A q \in holding : task[q].phase \in {"finish", "abandon"}

Busy(q) == task[q].phase # "idle"

\* Every request and every evaluation comes to an end, also a search when the pool
\* is empty and whoever waits for the mutex, with one exception: when exports that
\* wait for each other have all the connections, whoever waits without a deadline
\* may wait for ever, which is these exports, a restore after its commit and the
\* ticker.  Nobody else does.
RequestsEnd ==
    \A q \in Task :
        Busy(q) ~> (~Busy(q) \/ (Stuck /\ task[q].phase \in Untimed))

=============================================================================
