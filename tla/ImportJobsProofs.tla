-------------------------- MODULE ImportJobsProofs --------------------------
(***************************************************************************)
(* Proofs about ImportJobs, for any number of users, jobs, codes and       *)
(* concurrent requests and any workbooks: an import is in the tables with  *)
(* all of its rows or with none, a rollback leaves no KPI without its      *)
(* parent, and the handlers, which work row by row, implement              *)
(* ImportLifecycle, where a job is imported in one step.                   *)
(***************************************************************************)
EXTENDS ImportJobs, FiniteSetTheorems, TLAPS

-----------------------------------------------------------------------------
(* The inductive invariant *)

\* What the job of a transaction is to import fits the limit, and its number
\* is known.
JobsAreCounted ==
    \A j \in Job :
        /\ validRows[j] <= MaxRows
        /\ jobStatus[j] = "preview" => Len(previewData[j]) = validRows[j]

\* A request has the job it asked for and has done nothing before it holds it.
JobIsKnown(r) ==
    /\ req[r].phase \in {"commit_lock", "commit_rows", "rollback_lock", "rollback_rows"}
        => req[r].job \in Job
    /\ req[r].phase \in {"commit_lock", "rollback_lock"} => req[r].done = {}

\* A commit has inserted the first n rows of a job that nobody imported yet.
Filled(r, n) == req[r].done = {req[r].job} \X (1 .. n)

CommitIsOrderly(r) ==
    req[r].phase = "commit_rows" =>
        /\ jobStatus[req[r].job] = "preview"
        /\ invalidRows[req[r].job] = 0
        /\ \E n \in 0 .. Len(previewData[req[r].job]) : Filled(r, n)

\* A rollback has deleted rows of its job that no committed KPI refers to.
RollbackIsOrderly(r) ==
    req[r].phase = "rollback_rows" =>
        /\ jobStatus[req[r].job] = "imported"
        /\ \A id \in req[r].done : <<req[r].job, id>> \in ledger
        /\ \A x \in kpis : x.parent \notin req[r].done

\* A KPI that is being created has a new id.
CreationIsFresh(r) ==
    req[r].phase \in {"create_code", "create_parent"} =>
        /\ req[r].kpi \in Kpi
        /\ req[r].kpi.id \in Manual
        /\ \A x \in kpis : x.id # req[r].kpi.id

\* A code that is inserted and not committed is in no committed row.
CodesAreNew(r) == \A x \in Inserted(r) : ~CodeTaken(x.code)

RequestIsOrderly(r) ==
    JobIsKnown(r) /\ CommitIsOrderly(r) /\ RollbackIsOrderly(r) /\ CreationIsFresh(r)
        /\ CodesAreNew(r)

\* Two requests do not hold the same job, create the same id or insert the same
\* code.
AreApart(q, r) ==
    /\ (/\ req[q].phase \in {"commit_rows", "rollback_rows"}
        /\ req[r].phase \in {"commit_rows", "rollback_rows"}) => req[q].job # req[r].job
    /\ req[q].kpi.id = None \/ req[q].kpi.id # req[r].kpi.id
    /\ \A x \in Inserted(q) : \A y \in Inserted(r) : x.code # y.code

\* The ledger and the table have the rows of the imported jobs and no others.
LedgerIsWhole ==
    \A j \in Job : \A id \in Id :
        <<j, id>> \in ledger <=>
            jobStatus[j] = "imported" /\ \E k \in 1 .. validRows[j] : id = <<j, k>>

TableIsWhole ==
    \A j \in Job : \A k \in 1 .. MaxRows :
        (\E x \in kpis : x.id = <<j, k>>) <=> jobStatus[j] = "imported" /\ k <= validRows[j]

IInv ==
    /\ TypeOK
    /\ JobsAreCounted
    /\ \A r \in Request : RequestIsOrderly(r)
    /\ \A q, r \in Request : q # r => AreApart(q, r)
    /\ LedgerIsWhole
    /\ TableIsWhole
    /\ ParentsExist

-----------------------------------------------------------------------------
(* Numbers *)

\* Some numbers have a least one.
LEMMA LeastExists ==
  ASSUME NEW S, S \subseteq Nat, S # {}
  PROVE  \E x \in S : \A y \in S : x <= y
  <1>1. PICK x \in S : \A y \in S : <<y, x>> \notin OpToRel(<, Nat)
    BY NatLessThanWellFounded, WFMin
  <1>2. \A y \in S : ~(y < x)
    BY <1>1 DEF OpToRel
  <1>3. QED
    BY <1>2

\* Finitely many numbers have a greatest one.
LEMMA GreatestExists ==
  ASSUME NEW S, IsFiniteSet(S), S \subseteq Nat, S # {}
  PROVE  \E x \in S : \A y \in S : y <= x
  <1> DEFINE Up(x) == {y \in S : x <= y}
             T == {Cardinality(Up(x)) : x \in S}
  <1>1. \A x \in S : IsFiniteSet(Up(x)) /\ Cardinality(Up(x)) \in Nat
    BY FS_Subset, FS_CardinalityType
  <1>2. PICK x \in S : \A y \in S : Cardinality(Up(x)) <= Cardinality(Up(y))
    <2>1. T \subseteq Nat /\ T # {}
      BY <1>1
    <2>2. PICK c \in T : \A d \in T : c <= d
      BY <2>1, LeastExists
    <2>3. QED
      BY <2>2
  <1>3. ASSUME NEW y \in S, ~(y <= x)
        PROVE  FALSE
    <2>1. x \in Nat /\ y \in Nat /\ x < y
      BY <1>3
    <2>2. Up(y) \subseteq Up(x) \ {x} /\ x \in Up(x)
      <3>1. ASSUME NEW z \in Up(y)
            PROVE  z \in Up(x) /\ z # x
        <4>1. z \in S /\ z \in Nat /\ y <= z
          OBVIOUS
        <4>2. x <= z /\ z # x
          BY <2>1, <4>1
        <4>3. QED
          BY <4>1, <4>2
      <3>2. x \in Up(x)
        BY <2>1
      <3> HIDE DEF Up
      <3>3. QED
        BY <3>1, <3>2
    <2> HIDE DEF Up
    <2>3. /\ IsFiniteSet(Up(x) \ {x}) /\ Cardinality(Up(x) \ {x}) = Cardinality(Up(x)) - 1
      BY <1>1, <2>2, FS_RemoveElement
    <2>4. Cardinality(Up(y)) <= Cardinality(Up(x) \ {x})
      BY <2>2, <2>3, FS_Subset
    <2>5. QED
      BY <1>1, <1>2, <2>3, <2>4
  <1>4. QED
    BY <1>3

\* A set of numbers has an n-th one, for every n up to their number.
LEMMA NthIsOne ==
  ASSUME NEW S, IsFiniteSet(S), S \subseteq Nat, NEW n \in 1 .. Cardinality(S)
  PROVE  Nth(S, n) \in S
  <1> DEFINE Below(k) == {l \in S : l <= k}
             T == {k \in S : Cardinality(Below(k)) >= n}
  <1>1. Cardinality(S) \in Nat /\ S # {}
    BY FS_CardinalityType, FS_EmptySet
  <1>2. \A k \in S : IsFiniteSet(Below(k)) /\ Cardinality(Below(k)) \in Nat
    BY FS_Subset, FS_CardinalityType
  <1>3. PICK k \in T : \A l \in T : k <= l
    <2>1. PICK m \in S : \A l \in S : l <= m
      BY <1>1, GreatestExists
    <2>2. Below(m) = S
      BY <2>1
    <2>3. m \in T
      BY <1>1, <2>2
    <2>4. QED
      BY <2>3, LeastExists
  <1>4. Cardinality(Below(k)) = n
    <2>1. SUFFICES ASSUME Cardinality(Below(k)) > n
                   PROVE  FALSE
      BY <1>2
    <2> DEFINE B == Below(k) \ {k}
    <2>2. B \subseteq S /\ k \in Below(k) /\ k \in S /\ n \in Nat
      OBVIOUS
    <2>3. /\ IsFiniteSet(B) /\ Cardinality(B) = Cardinality(Below(k)) - 1
      <3> HIDE DEF Below
      <3>1. QED
        BY <1>2, <2>2, FS_RemoveElement
    <2>4. Cardinality(B) >= n /\ B # {}
      BY <1>2, <2>1, <2>2, <2>3, FS_EmptySet
    <2>5. PICK m \in B : \A l \in B : l <= m
      <3> HIDE DEF B
      <3>1. QED
        BY <2>2, <2>3, <2>4, GreatestExists
    <2>6. B \subseteq Below(m) /\ m \in S /\ m < k
      <3>1. m \in S /\ m <= k /\ m # k
        OBVIOUS
      <3>2. m \in Nat /\ k \in Nat
        BY <3>1
      <3>3. \A l \in B : l \in S /\ l <= m
        BY <2>5
      <3>4. m < k
        BY <3>1, <3>2
      <3>5. QED
        BY <3>1, <3>3, <3>4
    <2>7. Cardinality(B) <= Cardinality(Below(m))
      BY <1>2, <2>6, FS_Subset
    <2>8. Cardinality(B) \in Nat
      BY <2>3, FS_CardinalityType
    <2>9. m \in T
      BY <1>2, <2>4, <2>6, <2>7, <2>8
    <2>10. k \in Nat /\ m \in Nat
      BY <2>2, <2>6
    <2>11. QED
      BY <1>3, <2>6, <2>9, <2>10
  <1>5. QED
    BY <1>3, <1>4 DEF Nth

\* A job has as many ids as it has numbers.
LEMMA CountOfPairs ==
  ASSUME NEW j, NEW n \in Nat
  PROVE  IsFiniteSet({j} \X (1 .. n)) /\ Cardinality({j} \X (1 .. n)) = n
  <1>1. /\ IsFiniteSet({j}) /\ Cardinality({j}) = 1
        /\ IsFiniteSet(1 .. n) /\ Cardinality(1 .. n) = n
    <2>1. IsFiniteSet(1 .. n) /\ Cardinality(1 .. n) = IF 1 > n THEN 0 ELSE n - 1 + 1
      BY FS_Interval
    <2>2. Cardinality(1 .. n) = n
      BY <2>1
    <2>3. IsFiniteSet({j}) /\ Cardinality({j}) = 1
      BY FS_Singleton, Zenon
    <2>4. QED
      BY <2>1, <2>2, <2>3
  <1>2. /\ IsFiniteSet({j} \X (1 .. n))
        /\ Cardinality({j} \X (1 .. n)) = Cardinality({j}) * Cardinality(1 .. n)
    BY <1>1, FS_Product
  <1>3. QED
    BY <1>1, <1>2

-----------------------------------------------------------------------------
(* What a preview keeps *)

\* A workbook has rows up to the limit.
LEMMA WorkbookRows ==
  ASSUME NEW f \in File
  PROVE  /\ f.mapped \in BOOLEAN
         /\ TotalRows(f) \in Nat /\ TotalRows(f) <= MaxRows
         /\ \A k \in 1 .. TotalRows(f) : f.rows[k] \in FileRow
  <1>1. f.rows \in Seq(FileRow) /\ f.mapped \in BOOLEAN
    BY ImportAssumption
  <1>2. Len(f.rows) \in Nat /\ \A k \in 1 .. Len(f.rows) : f.rows[k] \in FileRow
    BY <1>1
  <1>3. TotalRows(f) \in Nat /\ TotalRows(f) <= MaxRows /\ TotalRows(f) <= Len(f.rows)
    BY <1>2, ImportAssumption DEF TotalRows
  <1>4. QED
    BY <1>1, <1>2, <1>3

\* A preview keeps some of the rows of its workbook, and counts the others.
LEMMA ItemsAreValid ==
  ASSUME NEW f \in File, NEW u \in User
  PROVE  /\ ValidItems(f, u) \in Seq(Item)
         /\ Len(ValidItems(f, u)) \in Nat
         /\ Len(ValidItems(f, u)) <= TotalRows(f)
         /\ InvalidCount(f, u) \in Nat
  <1> DEFINE kept == {k \in 1 .. TotalRows(f) : RowAccepted(f, u, k)}
             c == Cardinality(kept)
             items == [n \in 1 .. c |-> f.rows[Nth(kept, n)]]
  <1>1. TotalRows(f) \in Nat /\ \A k \in 1 .. TotalRows(f) : f.rows[k] \in FileRow
    BY WorkbookRows
  <1>2. IsFiniteSet(kept) /\ kept \subseteq Nat /\ c \in Nat /\ c <= TotalRows(f)
    <2>1. IsFiniteSet(1 .. TotalRows(f)) /\ Cardinality(1 .. TotalRows(f)) = TotalRows(f)
      BY <1>1, FS_Interval
    <2>2. kept \subseteq 1 .. TotalRows(f)
      OBVIOUS
    <2> HIDE DEF kept
    <2>3. IsFiniteSet(kept) /\ Cardinality(kept) <= TotalRows(f)
      BY <2>1, <2>2, FS_Subset
    <2>4. QED
      BY <1>1, <2>2, <2>3, FS_CardinalityType
  <1>3. \A k \in kept : f.rows[k] \in Item
    <2>1. SUFFICES ASSUME NEW k \in kept
                   PROVE  f.rows[k] \in Item
      OBVIOUS
    <2>2. k \in 1 .. TotalRows(f) /\ RowAccepted(f, u, k)
      OBVIOUS
    <2>3. f.rows[k] \in [code : Code \cup {None}, class : STRING]
      BY <1>1, <2>2 DEF FileRow
    <2>4. f.rows[k].code # None /\ f.rows[k].class \in DOMAIN Level
      BY <2>2 DEF RowAccepted, CodeAt
    <2>5. QED
      BY <2>3, <2>4 DEF Item
  <1>4. \A n \in 1 .. c : f.rows[Nth(kept, n)] \in Item
    <2> HIDE DEF kept
    <2>1. QED
      BY <1>2, <1>3, NthIsOne
  <1>5. ValidItems(f, u) = items
    BY DEF ValidItems
  <1> HIDE DEF c, kept
  <1>6. items \in Seq(Item) /\ Len(items) = c
    BY <1>2, <1>4
  <1> HIDE DEF items
  <1>7. InvalidCount(f, u) \in Nat
    BY <1>1, <1>2, <1>5, <1>6 DEF InvalidCount
  <1>8. QED
    BY <1>2, <1>5, <1>6, <1>7

-----------------------------------------------------------------------------
(* Requests *)

\* The types, slot by slot.
LEMMA CallTypes ==
  ASSUME TypeOK
  PROVE  /\ \A r \in Request :
                /\ req[r].phase \in Phases /\ req[r].user \in User \cup {None}
                /\ req[r].job \in Job \cup {None} /\ req[r].done \subseteq Id
                /\ req[r].kpi \in Kpi \cup {NoKpi}
         /\ Idle \in Call /\ Idle.phase = "idle" /\ Idle.kpi = NoKpi /\ NoKpi.id = None
  BY DEF TypeOK, Call, Idle, NoKpi, Phases

\* A request that inserts nothing.
LEMMA InsertsNothing ==
  ASSUME NEW r \in Request, req[r].phase \notin {"commit_rows", "create_parent"}
  PROVE  Inserted(r) = {}
  BY DEF Inserted

\* What a commit has inserted.
LEMMA InsertedRows ==
  ASSUME NEW r \in Request, req[r].phase = "commit_rows", NEW n \in Nat, Filled(r, n)
  PROVE  /\ IsFiniteSet(req[r].done) /\ Cardinality(req[r].done) = n
         /\ Inserted(r) = {KpiOf(req[r].job, k) : k \in 1 .. n}
  <1>1. IsFiniteSet(req[r].done) /\ Cardinality(req[r].done) = n
    <2> DEFINE j == req[r].job
    <2>1. req[r].done = {j} \X (1 .. n)
      BY DEF Filled
    <2> HIDE DEF j
    <2>2. IsFiniteSet({j} \X (1 .. n)) /\ Cardinality({j} \X (1 .. n)) = n
      BY CountOfPairs
    <2>3. QED
      BY <2>1, <2>2
  <1>2. QED
    BY <1>1 DEF Inserted

\* A request inserts what it did before if the preview of its job stays.
LEMMA InsertedStays ==
  ASSUME NEW r \in Request, req'[r] = req[r],
         req[r].phase = "commit_rows" => previewData'[req[r].job] = previewData[req[r].job]
  PROVE  Inserted(r)' = Inserted(r)
  BY DEF Inserted, KpiOf

\* What a request has filled in stays while its slot does.
LEMMA FilledStays ==
  ASSUME NEW r \in Request, req'[r] = req[r], NEW n
  PROVE  Filled(r, n)' = Filled(r, n)
  BY DEF Filled

\* A step of one request that changes no table keeps the invariant if it keeps
\* the part about this request.
LEMMA OneRequestKeeps ==
  ASSUME IInv, UNCHANGED <<jobVars, kpis, ledger>>,
         NEW r \in Request, NEW c \in Call, req' = [req EXCEPT ![r] = c],
         RequestIsOrderly(r)', \A q \in Request \ {r} : AreApart(q, r)'
  PROVE  IInv'
  <1>1. /\ req' \in [Request -> Call] /\ req'[r] = c
        /\ \A q \in Request \ {r} : req'[q] = req[q]
    BY DEF IInv, TypeOK
  <1>2. TypeOK'
    BY <1>1 DEF IInv, TypeOK, jobVars
  <1>3. JobsAreCounted' /\ LedgerIsWhole' /\ TableIsWhole' /\ ParentsExist'
    BY DEF IInv, JobsAreCounted, LedgerIsWhole, TableIsWhole, ParentsExist, ParentExists,
           jobVars
  <1>4. ASSUME NEW q \in Request \ {r}
        PROVE  Inserted(q)' = Inserted(q)
    BY <1>1, InsertedStays DEF jobVars
  <1>5. ASSUME NEW q \in Request \ {r}
        PROVE  RequestIsOrderly(q)'
    <2>1. RequestIsOrderly(q) /\ req'[q] = req[q]
      BY <1>1 DEF IInv
    <2>2. JobIsKnown(q)' /\ RollbackIsOrderly(q)' /\ CreationIsFresh(q)'
      BY <2>1 DEF RequestIsOrderly, JobIsKnown, RollbackIsOrderly, CreationIsFresh, jobVars
    <2>3. CommitIsOrderly(q)'
      BY <2>1 DEF RequestIsOrderly, CommitIsOrderly, Filled, jobVars
    <2>4. CodesAreNew(q)'
      BY <1>4, <2>1 DEF RequestIsOrderly, CodesAreNew, CodeTaken
    <2>5. QED
      BY <2>2, <2>3, <2>4 DEF RequestIsOrderly
  <1>6. ASSUME NEW p \in Request, NEW q \in Request, p # q
        PROVE  AreApart(p, q)'
    <2>1. CASE q = r
      BY <1>6, <2>1
    <2>2. CASE p = r
      <3>1. AreApart(q, p)'
        BY <1>6, <2>2
      <3>2. QED
        BY <3>1 DEF AreApart
    <2>3. CASE p # r /\ q # r
      <3>1. AreApart(p, q) /\ req'[p] = req[p] /\ req'[q] = req[q]
        BY <1>1, <1>6, <2>3 DEF IInv
      <3>2. Inserted(p)' = Inserted(p) /\ Inserted(q)' = Inserted(q)
        BY <1>4, <2>3
      <3>3. QED
        BY <3>1, <3>2 DEF AreApart
    <2>4. QED
      BY <2>1, <2>2, <2>3
  <1>7. QED
    BY <1>2, <1>3, <1>5, <1>6 DEF IInv

\* A request that ends without a commit leaves nothing behind.
LEMMA AbortKeeps ==
  ASSUME IInv, NEW r \in Request, Abort(r)
  PROVE  IInv'
  <1>1. /\ Idle \in Call /\ req' = [req EXCEPT ![r] = Idle] /\ req'[r] = Idle
        /\ Idle.phase = "idle" /\ Idle.kpi.id = None
    BY CallTypes DEF Abort, Finish, IInv, TypeOK
  <1>2. Inserted(r)' = {}
    BY <1>1 DEF Inserted
  <1>3. RequestIsOrderly(r)'
    BY <1>1, <1>2 DEF RequestIsOrderly, JobIsKnown, CommitIsOrderly, RollbackIsOrderly,
                      CreationIsFresh, CodesAreNew
  <1>4. ASSUME NEW q \in Request \ {r}
        PROVE  AreApart(q, r)'
    BY <1>1, <1>2 DEF AreApart
  <1>5. QED
    BY <1>1, <1>3, <1>4, OneRequestKeeps DEF Abort

\* A request goes on to its next phase; it has done more.
InPhase(r, ph) == [req[r] EXCEPT !.phase = ph]

HavingDone(r, d) == [req[r] EXCEPT !.done = d]

\* A request in another phase, or with other rows done, as a record.
LEMMA NextCalls ==
  ASSUME TypeOK, NEW r \in Request
  PROVE  /\ \A ph \in Phases :
                /\ InPhase(r, ph) \in Call /\ InPhase(r, ph).phase = ph
                /\ InPhase(r, ph).job = req[r].job /\ InPhase(r, ph).done = req[r].done
                /\ InPhase(r, ph).kpi = req[r].kpi
         /\ \A d \in SUBSET Id :
                /\ HavingDone(r, d) \in Call /\ HavingDone(r, d).phase = req[r].phase
                /\ HavingDone(r, d).job = req[r].job /\ HavingDone(r, d).done = d
                /\ HavingDone(r, d).kpi = req[r].kpi
  <1>1. req[r] \in [phase : Phases, user : User \cup {None}, job : Job \cup {None},
                    done : SUBSET Id, kpi : Kpi \cup {NoKpi}]
    BY DEF TypeOK, Call
  <1>2. QED
    BY <1>1 DEF Call, InPhase, HavingDone

\* A step of one request leaves the other slots as they are.
LEMMA RequestChanges ==
  ASSUME TypeOK, NEW r \in Request, NEW c, req' = [req EXCEPT ![r] = c]
  PROVE  req'[r] = c /\ \A q \in Request \ {r} : req'[q] = req[q]
  BY DEF TypeOK

-----------------------------------------------------------------------------
(* Steps that change no table *)

\* A request that begins has done nothing.
LEMMA StartsKeep ==
  ASSUME IInv, NEW r \in Request, NEW u \in User, NEW j \in Job,
         StartCommit(r, u, j) \/ StartRollback(r, u, j)
  PROVE  IInv'
  <1>1. PICK c \in Call :
            /\ req' = [req EXCEPT ![r] = c]
            /\ c.phase \in {"commit_lock", "rollback_lock"} /\ c.job = j /\ c.done = {}
            /\ c.kpi = NoKpi
    <2>1. ASSUME NEW ph \in {"commit_lock", "rollback_lock"}
          PROVE  LET c == [Idle EXCEPT !.phase = ph, !.user = u, !.job = j] IN
                 c \in Call /\ c.phase = ph /\ c.job = j /\ c.done = {} /\ c.kpi = NoKpi
      BY DEF Idle, Call, Phases
    <2>2. QED
      BY <2>1 DEF StartCommit, StartRollback
  <1>2. req'[r] = c /\ c.kpi.id = None
    BY <1>1, CallTypes DEF IInv, TypeOK
  <1>3. Inserted(r)' = {}
    BY <1>1, <1>2 DEF Inserted
  <1>4. RequestIsOrderly(r)'
    BY <1>1, <1>2, <1>3 DEF RequestIsOrderly, JobIsKnown, CommitIsOrderly,
                            RollbackIsOrderly, CreationIsFresh, CodesAreNew
  <1>5. ASSUME NEW q \in Request \ {r}
        PROVE  AreApart(q, r)'
    BY <1>1, <1>2, <1>3 DEF AreApart
  <1>6. QED
    BY <1>1, <1>4, <1>5, OneRequestKeeps DEF StartCommit, StartRollback

\* The job that a request locks is held by no other.
LEMMA LocksKeep ==
  ASSUME IInv, NEW r \in Request, CommitLock(r) \/ RollbackLock(r)
  PROVE  IInv'
  <1>1. PICK ph \in {"commit_rows", "rollback_rows"} :
            /\ req' = [req EXCEPT ![r] = InPhase(r, ph)]
            /\ req[r].phase \in {"commit_lock", "rollback_lock"}
            /\ ph = "commit_rows" => CommitAccepted(req[r].job)
            /\ ph = "rollback_rows" => jobStatus[req[r].job] = "imported"
    BY DEF CommitLock, RollbackLock, InPhase
  <1> DEFINE c == InPhase(r, ph)
  <1>2. /\ c \in Call /\ req' = [req EXCEPT ![r] = c] /\ req'[r] = c
        /\ c.phase = ph /\ c.job = req[r].job /\ c.done = req[r].done
        /\ c.kpi = req[r].kpi
        /\ \A q \in Request \ {r} : req'[q] = req[q]
    <2>1. ph \in Phases /\ TypeOK
      BY DEF Phases, IInv
    <2>2. QED
      BY <1>1, <2>1, NextCalls, RequestChanges
  <1> HIDE DEF c
  <1>3. /\ JobFree(req[r].job) /\ c.job \in Job /\ c.done = {}
        /\ UNCHANGED <<jobVars, kpis, ledger>>
    BY <1>1, <1>2 DEF CommitLock, RollbackLock, IInv, RequestIsOrderly, JobIsKnown
  <1>4. Filled(r, 0)'
    BY <1>2, <1>3 DEF Filled
  <1>5. Inserted(r)' = {}
    <2>1. Cardinality(req'[r].done) = 0
      BY <1>2, <1>3, FS_EmptySet
    <2>2. QED
      BY <1>2, <2>1 DEF Inserted
  <1>6. RequestIsOrderly(r)'
    <2>1. CommitIsOrderly(r)'
      <3>1. SUFFICES ASSUME ph = "commit_rows"
                     PROVE  CommitIsOrderly(r)'
        BY <1>2 DEF CommitIsOrderly
      <3>2. /\ jobStatus'[req'[r].job] = "preview" /\ invalidRows'[req'[r].job] = 0
            /\ previewData'[req'[r].job] \in Seq(Item)
        BY <1>1, <1>2, <1>3, <3>1 DEF CommitAccepted, jobVars, IInv, TypeOK
      <3>3. 0 \in 0 .. Len(previewData'[req'[r].job])
        BY <3>2
      <3>4. QED
        BY <1>4, <3>2, <3>3 DEF CommitIsOrderly
    <2>2. RollbackIsOrderly(r)'
      BY <1>1, <1>2, <1>3 DEF RollbackIsOrderly, jobVars
    <2>3. JobIsKnown(r)' /\ CreationIsFresh(r)' /\ CodesAreNew(r)'
      BY <1>2, <1>3, <1>5 DEF JobIsKnown, CreationIsFresh, CodesAreNew
    <2>4. QED
      BY <2>1, <2>2, <2>3 DEF RequestIsOrderly
  <1>7. ASSUME NEW q \in Request \ {r}
        PROVE  AreApart(q, r)'
    <2>1. req'[q] = req[q] /\ AreApart(q, r)
      BY <1>2 DEF IInv
    <2>2. ~HoldsJob(q, req[r].job)
      BY <1>3 DEF JobFree
    <2>3. QED
      BY <1>2, <1>5, <2>1, <2>2 DEF AreApart, HoldsJob
  <1>8. QED
    BY <1>2, <1>3, <1>6, <1>7, OneRequestKeeps

\* A commit inserts the next row of its job.
LEMMA CommitRowKeeps ==
  ASSUME IInv, NEW r \in Request, CommitRow(r)
  PROVE  IInv'
  <1> DEFINE j == req[r].job
  <1>1. /\ req[r].phase = "commit_rows" /\ RowsLeft(r) /\ ~Waits(r) /\ ~RowRefused(r)
        /\ UNCHANGED <<jobVars, kpis, ledger>>
    BY DEF CommitRow
  <1>2. /\ j \in Job /\ jobStatus[j] = "preview" /\ previewData[j] \in Seq(Item)
        /\ Len(previewData[j]) <= MaxRows
    BY <1>1 DEF IInv, RequestIsOrderly, JobIsKnown, CommitIsOrderly, JobsAreCounted, TypeOK
  <1>3. PICK n \in 0 .. Len(previewData[j]) : Filled(r, n)
    BY <1>1 DEF IInv, RequestIsOrderly, CommitIsOrderly
  <1>4. /\ n \in Nat /\ n + 1 \in Nat
        /\ Cardinality(req[r].done) = n
        /\ Inserted(r) = {KpiOf(j, k) : k \in 1 .. n}
    BY <1>1, <1>2, <1>3, InsertedRows
  <1>5. n < Len(previewData[j]) /\ n + 1 \in 1 .. MaxRows
    BY <1>1, <1>2, <1>4, ImportAssumption DEF RowsLeft
  <1> DEFINE item == previewData[j][n + 1]
             d == req[r].done \cup {<<j, n + 1>>}
             c == HavingDone(r, d)
  <1>6. /\ NextItem(r) = item
        /\ MayImport(req[r].user, item.class) /\ ~CodeTaken(item.code)
    BY <1>1, <1>4 DEF NextItem, RowRefused
  <1>7. KpiOf(j, n + 1).code = item.code
    BY DEF KpiOf
  <1>8. d = {j} \X (1 .. n + 1)
    <2>1. req[r].done = {j} \X (1 .. n)
      BY <1>3 DEF Filled
    <2>2. 1 .. n + 1 = (1 .. n) \cup {n + 1}
      BY <1>4
    <2> HIDE DEF j
    <2>3. QED
      BY <2>1, <2>2
  <1>9. d \in SUBSET Id
    <2>1. req[r].done \in SUBSET Id
      BY CallTypes DEF IInv
    <2>2. <<j, n + 1>> \in Id
      BY <1>2, <1>5 DEF Id
    <2>3. QED
      BY <2>1, <2>2
  <1>10. req' = [req EXCEPT ![r] = c]
    BY <1>4 DEF CommitRow, HavingDone
  <1> HIDE DEF j, d, item
  <1>11. /\ c \in Call /\ c.phase = "commit_rows" /\ c.job = j /\ c.done = d
         /\ c.kpi = req[r].kpi
    BY <1>1, <1>9, NextCalls DEF IInv, j
  <1> HIDE DEF c
  <1>12. req'[r] = c /\ \A q \in Request \ {r} : req'[q] = req[q]
    BY <1>10, RequestChanges DEF IInv
  <1>13. Inserted(r)' = Inserted(r) \cup {KpiOf(j, n + 1)}
    <2>1. Cardinality(d) = n + 1
      BY <1>4, <1>8, CountOfPairs
    <2>2. Inserted(r)' = {KpiOf(j, k) : k \in 1 .. n + 1}
      BY <1>1, <1>11, <1>12, <2>1 DEF Inserted, KpiOf, jobVars
    <2>3. 1 .. n + 1 = (1 .. n) \cup {n + 1}
      BY <1>4
    <2>4. QED
      BY <1>4, <2>2, <2>3 DEF j
  <1>14. RequestIsOrderly(r)'
    <2>1. CommitIsOrderly(r)'
      <3>1. Filled(r, n + 1)'
        BY <1>8, <1>11, <1>12 DEF Filled
      <3>2. n + 1 \in 0 .. Len(previewData'[j])
        BY <1>1, <1>2, <1>4, <1>5 DEF jobVars, j
      <3>3. jobStatus'[j] = "preview" /\ invalidRows'[j] = 0
        BY <1>1 DEF IInv, RequestIsOrderly, CommitIsOrderly, jobVars, j
      <3>4. QED
        BY <1>11, <1>12, <3>1, <3>2, <3>3 DEF CommitIsOrderly
    <2>2. JobIsKnown(r)' /\ RollbackIsOrderly(r)' /\ CreationIsFresh(r)'
      BY <1>2, <1>11, <1>12 DEF JobIsKnown, RollbackIsOrderly, CreationIsFresh, j
    <2>3. CodesAreNew(r)'
      <3>1. \A x \in Inserted(r) : ~CodeTaken(x.code)
        BY DEF IInv, RequestIsOrderly, CodesAreNew
      <3>2. QED
        BY <1>1, <1>6, <1>7, <1>13, <3>1 DEF CodesAreNew, CodeTaken
    <2>4. QED
      BY <2>1, <2>2, <2>3 DEF RequestIsOrderly
  <1>15. ASSUME NEW q \in Request \ {r}
         PROVE  AreApart(q, r)'
    <2>1. AreApart(q, r) /\ req'[q] = req[q]
      BY <1>12 DEF IInv
    <2>2. Inserted(q)' = Inserted(q)
      BY <1>1, <2>1, InsertedStays DEF jobVars
    <2>3. \A x \in Inserted(q) : x.code # item.code
      BY <1>1, <1>6 DEF Waits, WaitsFor, HoldsCode
    <2>4. QED
      BY <1>1, <1>7, <1>11, <1>12, <1>13, <2>1, <2>2, <2>3 DEF AreApart, j
  <1>16. QED
    BY <1>1, <1>10, <1>11, <1>14, <1>15, OneRequestKeeps

\* A rollback deletes the next row of its job.
LEMMA RollbackRowKeeps ==
  ASSUME IInv, NEW r \in Request, RollbackRow(r)
  PROVE  IInv'
  <1>1. PICK id \in IdsLeft(r) :
            Deletable(id) /\ req' = [req EXCEPT ![r] = HavingDone(r, req[r].done \cup {id})]
    BY DEF RollbackRow, HavingDone
  <1>2. req[r].phase = "rollback_rows" /\ UNCHANGED <<jobVars, kpis, ledger>>
    BY DEF RollbackRow
  <1> DEFINE d == req[r].done \cup {id}
             c == HavingDone(r, d)
  <1>3. id \in Id /\ <<req[r].job, id>> \in ledger /\ d \in SUBSET Id
    BY <1>1, CallTypes DEF IdsLeft, IInv
  <1> HIDE DEF d
  <1>4. /\ c \in Call /\ c.phase = "rollback_rows" /\ c.job = req[r].job /\ c.done = d
        /\ c.kpi = req[r].kpi
    BY <1>2, <1>3, NextCalls DEF IInv
  <1>5. req' = [req EXCEPT ![r] = c]
    BY <1>1 DEF d
  <1> HIDE DEF c
  <1>6. req'[r] = c /\ \A q \in Request \ {r} : req'[q] = req[q]
    BY <1>5, RequestChanges DEF IInv
  <1>7. Inserted(r)' = {}
    BY <1>4, <1>6 DEF Inserted
  <1>8. RequestIsOrderly(r)'
    <2>1. RequestIsOrderly(r) /\ \A x \in kpis : x.parent # id
      BY <1>1 DEF IInv, Deletable
    <2>2. RollbackIsOrderly(r)'
      BY <1>2, <1>3, <1>4, <1>6, <2>1
      DEF RequestIsOrderly, RollbackIsOrderly, d, jobVars
    <2>3. JobIsKnown(r)'
      BY <1>2, <1>4, <1>6, <2>1 DEF RequestIsOrderly, JobIsKnown
    <2>4. CommitIsOrderly(r)' /\ CreationIsFresh(r)' /\ CodesAreNew(r)'
      BY <1>4, <1>6, <1>7 DEF CommitIsOrderly, CreationIsFresh, CodesAreNew
    <2>5. QED
      BY <2>2, <2>3, <2>4 DEF RequestIsOrderly
  <1>9. ASSUME NEW q \in Request \ {r}
        PROVE  AreApart(q, r)'
    <2>1. AreApart(q, r) /\ req'[q] = req[q]
      BY <1>6 DEF IInv
    <2>2. QED
      BY <1>2, <1>4, <1>6, <1>7, <2>1 DEF AreApart
  <1>10. QED
    BY <1>2, <1>4, <1>5, <1>8, <1>9, OneRequestKeeps

\* The id of a new KPI is in no table and no other request has it.
LEMMA StartCreateKeeps ==
  ASSUME IInv, NEW r \in Request, NEW u \in User, NEW id \in Manual, NEW code \in Code,
         NEW parent \in {None} \cup {x.id : x \in kpis},
         StartCreate(r, u, [id |-> id, code |-> code, parent |-> parent])
  PROVE  IInv'
  <1> DEFINE x == [id |-> id, code |-> code, parent |-> parent]
             c == [Idle EXCEPT !.phase = "create_code", !.user = u, !.kpi = x]
  <1>1. /\ req' = [req EXCEPT ![r] = c] /\ FreshId(x.id)
        /\ UNCHANGED <<jobVars, kpis, ledger>>
    BY DEF StartCreate
  <1>2. x \in Kpi /\ x.id = id
    <2>1. parent \in Id \cup {None}
      BY DEF IInv, TypeOK, Kpi
    <2>2. QED
      BY <2>1 DEF Kpi, Id
  <1> HIDE DEF x
  <1>3. c \in Call /\ c.phase = "create_code" /\ c.kpi = x
    BY <1>2 DEF Call, Idle, Phases
  <1> HIDE DEF c
  <1>4. req'[r] = c /\ \A q \in Request \ {r} : req'[q] = req[q]
    BY <1>1, RequestChanges DEF IInv
  <1>5. Inserted(r)' = {}
    BY <1>3, <1>4 DEF Inserted
  <1>6. RequestIsOrderly(r)'
    BY <1>1, <1>2, <1>3, <1>4, <1>5
    DEF RequestIsOrderly, JobIsKnown, CommitIsOrderly, RollbackIsOrderly, CreationIsFresh,
        CodesAreNew, FreshId
  <1>7. ASSUME NEW q \in Request \ {r}
        PROVE  AreApart(q, r)'
    BY <1>1, <1>3, <1>4, <1>5 DEF AreApart, FreshId
  <1>8. QED
    BY <1>1, <1>3, <1>6, <1>7, OneRequestKeeps

\* The unique index lets a code in that no row and no transaction has.
LEMMA CreateCodeKeeps ==
  ASSUME IInv, NEW r \in Request, CreateCode(r)
  PROVE  IInv'
  <1> DEFINE c == InPhase(r, "create_parent")
             x == req[r].kpi
  <1>1. /\ req[r].phase = "create_code" /\ ~Waits(r) /\ ~CodeTaken(x.code)
        /\ req' = [req EXCEPT ![r] = c] /\ UNCHANGED <<jobVars, kpis, ledger>>
    BY DEF CreateCode, InPhase
  <1>2. /\ c \in Call /\ c.phase = "create_parent" /\ c.job = req[r].job /\ c.kpi = x
    <2>1. "create_parent" \in Phases /\ TypeOK
      BY DEF Phases, IInv
    <2>2. QED
      BY <2>1, NextCalls
  <1> HIDE DEF c
  <1>3. req'[r] = c /\ \A q \in Request \ {r} : req'[q] = req[q]
    BY <1>1, RequestChanges DEF IInv
  <1>4. Inserted(r)' = {x}
    BY <1>2, <1>3 DEF Inserted
  <1>5. RequestIsOrderly(r)'
    <2>1. x \in Kpi /\ x.id \in Manual /\ \A y \in kpis : y.id # x.id
      BY <1>1 DEF IInv, RequestIsOrderly, CreationIsFresh
    <2>2. CreationIsFresh(r)'
      BY <1>1, <1>2, <1>3, <2>1 DEF CreationIsFresh
    <2>3. CodesAreNew(r)'
      BY <1>1, <1>4 DEF CodesAreNew, CodeTaken
    <2>4. JobIsKnown(r)' /\ CommitIsOrderly(r)' /\ RollbackIsOrderly(r)'
      BY <1>2, <1>3 DEF JobIsKnown, CommitIsOrderly, RollbackIsOrderly
    <2>5. QED
      BY <2>2, <2>3, <2>4 DEF RequestIsOrderly
  <1>6. ASSUME NEW q \in Request \ {r}
        PROVE  AreApart(q, r)'
    <2>1. AreApart(q, r) /\ req'[q] = req[q]
      BY <1>3 DEF IInv
    <2>2. Inserted(q)' = Inserted(q)
      BY <1>1, <2>1, InsertedStays DEF jobVars
    <2>3. \A y \in Inserted(q) : y.code # x.code
      BY <1>1 DEF Waits, WaitsFor, HoldsCode
    <2>4. QED
      BY <1>2, <1>3, <1>4, <2>1, <2>2, <2>3 DEF AreApart
  <1>7. QED
    BY <1>1, <1>2, <1>5, <1>6, OneRequestKeeps

-----------------------------------------------------------------------------
(* Steps that change tables *)

\* The end of a request separates it from all others.
LEMMA FinishSeparates ==
  ASSUME IInv, NEW r \in Request, Finish(r),
         \A q \in Request \ {r} : req[q].phase = "commit_rows" =>
             previewData'[req[q].job] = previewData[req[q].job]
  PROVE  /\ req' \in [Request -> Call]
         /\ RequestIsOrderly(r)'
         /\ \A q \in Request \ {r} : req'[q] = req[q] /\ Inserted(q)' = Inserted(q)
         /\ \A p, q \in Request : p # q => AreApart(p, q)'
  <1>1. /\ Idle \in Call /\ Idle.phase = "idle" /\ Idle.kpi.id = None
        /\ req' = [req EXCEPT ![r] = Idle]
    BY CallTypes DEF Finish, IInv
  <1>2. req'[r] = Idle /\ \A q \in Request \ {r} : req'[q] = req[q]
    BY <1>1, RequestChanges DEF IInv
  <1>3. req' \in [Request -> Call]
    BY <1>1 DEF IInv, TypeOK
  <1>4. Inserted(r)' = {}
    BY <1>1, <1>2 DEF Inserted
  <1>5. \A q \in Request \ {r} : Inserted(q)' = Inserted(q)
    BY <1>2, InsertedStays
  <1>6. RequestIsOrderly(r)'
    BY <1>1, <1>2, <1>4
    DEF RequestIsOrderly, JobIsKnown, CommitIsOrderly, RollbackIsOrderly, CreationIsFresh,
        CodesAreNew
  <1>7. ASSUME NEW p \in Request, NEW q \in Request, p # q
        PROVE  AreApart(p, q)'
    <2>1. AreApart(p, q)
      BY <1>7 DEF IInv
    <2>2. CASE p = r \/ q = r
      BY <1>1, <1>2, <1>4, <2>2 DEF AreApart
    <2>3. CASE p # r /\ q # r
      BY <1>2, <1>5, <2>1, <2>3 DEF AreApart
    <2>4. QED
      BY <2>2, <2>3
  <1>8. QED
    BY <1>2, <1>3, <1>5, <1>6, <1>7

\* Nobody else holds the job that a request is about to commit or roll back.
LEMMA OthersHoldOtherJobs ==
  ASSUME IInv, NEW r \in Request, req[r].phase \in {"commit_rows", "rollback_rows"},
         NEW q \in Request \ {r}, req[q].phase \in {"commit_rows", "rollback_rows"}
  PROVE  req[q].job \in Job /\ req[q].job # req[r].job
  BY DEF IInv, AreApart, RequestIsOrderly, JobIsKnown

\* A preview fills a job that nobody could lock.
LEMMA PreviewKeeps ==
  ASSUME IInv, NEW r \in Request, NEW u \in User, NEW j \in Job, NEW f \in File,
         Preview(r, u, j, f)
  PROVE  IInv'
  <1> DEFINE items == ValidItems(f, u)
  <1>1. /\ items \in Seq(Item) /\ Len(items) \in Nat /\ Len(items) <= MaxRows
        /\ InvalidCount(f, u) \in Nat
    <2>1. Len(items) <= TotalRows(f) /\ TotalRows(f) <= MaxRows /\ TotalRows(f) \in Nat
      BY ItemsAreValid, WorkbookRows
    <2>2. QED
      BY <2>1, ItemsAreValid, ImportAssumption
  <1>2. /\ jobStatus[j] = "absent"
        /\ jobStatus' = [jobStatus EXCEPT ![j] = "preview"]
        /\ previewData' = [previewData EXCEPT ![j] = items]
        /\ validRows' = [validRows EXCEPT ![j] = Len(items)]
        /\ invalidRows' = [invalidRows EXCEPT ![j] = InvalidCount(f, u)]
        /\ UNCHANGED <<kpis, ledger, req>>
    BY DEF Preview
  <1> HIDE DEF items
  <1>3. TypeOK'
    BY <1>1, <1>2 DEF IInv, TypeOK, JobStatuses
  <1>4. \A i \in Job : i # j => /\ jobStatus'[i] = jobStatus[i]
                                /\ previewData'[i] = previewData[i]
                                /\ validRows'[i] = validRows[i]
                                /\ invalidRows'[i] = invalidRows[i]
    BY <1>2 DEF IInv, TypeOK
  <1>5. /\ jobStatus'[j] = "preview" /\ previewData'[j] = items
        /\ validRows'[j] = Len(items)
    BY <1>2 DEF IInv, TypeOK
  <1>6. JobsAreCounted'
    BY <1>1, <1>4, <1>5 DEF IInv, JobsAreCounted
  <1>7. LedgerIsWhole' /\ TableIsWhole' /\ ParentsExist'
    <2>1. LedgerIsWhole'
      <3>1. SUFFICES ASSUME NEW i \in Job, NEW id \in Id
                     PROVE  <<i, id>> \in ledger' <=>
                                /\ jobStatus'[i] = "imported"
                                /\ \E k \in 1 .. validRows'[i] : id = <<i, k>>
        BY DEF LedgerIsWhole
      <3>2. /\ ledger' = ledger
            /\ <<i, id>> \in ledger <=>
                   jobStatus[i] = "imported" /\ \E k \in 1 .. validRows[i] : id = <<i, k>>
        BY <1>2 DEF IInv, LedgerIsWhole
      <3>3. CASE i = j
        BY <1>2, <1>5, <3>2, <3>3
      <3>4. CASE i # j
        BY <1>4, <3>2, <3>4
      <3>5. QED
        BY <3>3, <3>4
    <2>2. TableIsWhole'
      BY <1>2, <1>4, <1>5 DEF IInv, TableIsWhole
    <2>3. ParentsExist'
      BY <1>2 DEF IInv, ParentsExist, ParentExists
    <2>4. QED
      BY <2>1, <2>2, <2>3
  <1>8. ASSUME NEW q \in Request
        PROVE  /\ req[q].phase \in {"commit_rows", "rollback_rows"} =>
                      req[q].job \in Job /\ req[q].job # j
               /\ Inserted(q)' = Inserted(q)
    <2>1. req[q].phase \in {"commit_rows", "rollback_rows"} =>
              req[q].job \in Job /\ req[q].job # j
      BY <1>2 DEF IInv, RequestIsOrderly, JobIsKnown, CommitIsOrderly, RollbackIsOrderly
    <2>2. Inserted(q)' = Inserted(q)
      BY <1>2, <1>4, <2>1, InsertedStays
    <2>3. QED
      BY <2>1, <2>2
  <1>9. ASSUME NEW q \in Request
        PROVE  RequestIsOrderly(q)'
    <2>1. RequestIsOrderly(q) /\ req'[q] = req[q]
      BY <1>2 DEF IInv
    <2>2. CommitIsOrderly(q)'
      BY <1>4, <1>8, <2>1 DEF RequestIsOrderly, CommitIsOrderly, Filled
    <2>3. RollbackIsOrderly(q)'
      BY <1>2, <1>4, <1>8, <2>1 DEF RequestIsOrderly, RollbackIsOrderly
    <2>4. JobIsKnown(q)' /\ CreationIsFresh(q)' /\ CodesAreNew(q)'
      BY <1>2, <1>8, <2>1
      DEF RequestIsOrderly, JobIsKnown, CreationIsFresh, CodesAreNew, CodeTaken
    <2>5. QED
      BY <2>2, <2>3, <2>4 DEF RequestIsOrderly
  <1>10. \A p, q \in Request : p # q => AreApart(p, q)'
    BY <1>2, <1>8 DEF IInv, AreApart
  <1>11. QED
    BY <1>3, <1>6, <1>7, <1>9, <1>10 DEF IInv

\* What a commit adds: all rows of its job.
LEMMA CommitEndAdds ==
  ASSUME IInv, NEW r \in Request, CommitEnd(r)
  PROVE  LET j == req[r].job
             n == Len(previewData[j])
         IN  /\ j \in Job /\ jobStatus[j] = "preview" /\ invalidRows[j] = 0
             /\ previewData[j] \in Seq(Item)
             /\ n \in Nat /\ validRows[j] = n /\ n <= MaxRows
             /\ req[r].done = {j} \X (1 .. n)
             /\ Inserted(r) = {KpiOf(j, k) : k \in 1 .. n}
             /\ Inserted(r) \subseteq Kpi
             /\ \A x \in Inserted(r) : x.parent = None
  <1> DEFINE j == req[r].job
             n == Len(previewData[j])
  <1>1. req[r].phase = "commit_rows" /\ ~RowsLeft(r)
    BY DEF CommitEnd
  <1>2. /\ j \in Job /\ jobStatus[j] = "preview" /\ invalidRows[j] = 0
        /\ previewData[j] \in Seq(Item)
        /\ validRows[j] = n /\ n <= MaxRows
    BY <1>1 DEF IInv, RequestIsOrderly, JobIsKnown, CommitIsOrderly, JobsAreCounted, TypeOK
  <1>3. PICK m \in 0 .. n : Filled(r, m)
    BY <1>1 DEF IInv, RequestIsOrderly, CommitIsOrderly
  <1>4. n \in Nat /\ m \in Nat
    BY <1>2
  <1>5. Cardinality(req[r].done) = m /\ Inserted(r) = {KpiOf(j, k) : k \in 1 .. m}
    BY <1>1, <1>3, <1>4, InsertedRows
  <1>6. m = n
    BY <1>1, <1>4, <1>5 DEF RowsLeft
  <1>7. req[r].done = {j} \X (1 .. n)
    BY <1>3, <1>6 DEF Filled
  <1>8. ASSUME NEW k \in 1 .. n
        PROVE  KpiOf(j, k) \in Kpi /\ KpiOf(j, k).parent = None
    <2>1. previewData[j][k] \in Item
      BY <1>2
    <2>2. previewData[j][k].code \in Code
      BY <2>1 DEF Item
    <2>3. <<j, k>> \in Id
      BY <1>2, <1>4, ImportAssumption DEF Id
    <2>4. QED
      BY <2>2, <2>3 DEF KpiOf, Kpi
  <1>9. QED
    BY <1>2, <1>4, <1>5, <1>6, <1>7, <1>8

\* A commit imports all rows of its job at once.
LEMMA CommitEndKeeps ==
  ASSUME IInv, NEW r \in Request, CommitEnd(r)
  PROVE  IInv'
  <1> DEFINE j == req[r].job
             n == Len(previewData[j])
  <1>1. /\ j \in Job /\ jobStatus[j] = "preview" /\ invalidRows[j] = 0
        /\ n \in Nat /\ validRows[j] = n /\ n <= MaxRows
        /\ req[r].done = {j} \X (1 .. n)
        /\ Inserted(r) = {KpiOf(j, k) : k \in 1 .. n}
        /\ Inserted(r) \subseteq Kpi
        /\ \A x \in Inserted(r) : x.parent = None
    BY CommitEndAdds
  <1>2. /\ req[r].phase = "commit_rows"
        /\ kpis' = kpis \cup Inserted(r)
        /\ ledger' = ledger \cup ({j} \X req[r].done)
        /\ jobStatus' = [jobStatus EXCEPT ![j] = "imported"]
        /\ previewData' = [previewData EXCEPT ![j] = <<>>]
        /\ Finish(r)
        /\ UNCHANGED <<validRows, invalidRows>>
    BY DEF CommitEnd
  <1> HIDE DEF j, n
  <1>3. /\ jobStatus'[j] = "imported"
        /\ \A i \in Job : i # j => /\ jobStatus'[i] = jobStatus[i]
                                   /\ previewData'[i] = previewData[i]
    BY <1>1, <1>2 DEF IInv, TypeOK
  <1>4. \A q \in Request \ {r} : req[q].phase \in {"commit_rows", "rollback_rows"} =>
            req[q].job \in Job /\ req[q].job # j
    BY <1>2, OthersHoldOtherJobs DEF j
  <1>5. /\ req' \in [Request -> Call]
        /\ RequestIsOrderly(r)'
        /\ \A q \in Request \ {r} : req'[q] = req[q] /\ Inserted(q)' = Inserted(q)
        /\ \A p, q \in Request : p # q => AreApart(p, q)'
    <2>1. \A q \in Request \ {r} : req[q].phase = "commit_rows" =>
              previewData'[req[q].job] = previewData[req[q].job]
      BY <1>3, <1>4
    <2>2. QED
      BY <1>2, <2>1, FinishSeparates
  <1>6. TypeOK'
    <2>1. req[r].done \subseteq Id
      BY CallTypes DEF IInv
    <2>2. kpis' \subseteq Kpi /\ ledger' \subseteq Job \X Id
      BY <1>1, <1>2, <2>1 DEF IInv, TypeOK
    <2>3. jobStatus' \in [Job -> JobStatuses] /\ previewData' \in [Job -> Seq(Item)]
      BY <1>1, <1>2 DEF IInv, TypeOK, JobStatuses
    <2>4. QED
      BY <1>2, <1>5, <2>2, <2>3 DEF IInv, TypeOK
  <1>7. JobsAreCounted'
    <2>1. SUFFICES ASSUME NEW i \in Job
                   PROVE  /\ validRows'[i] <= MaxRows
                          /\ jobStatus'[i] = "preview" => Len(previewData'[i]) = validRows'[i]
      BY DEF JobsAreCounted
    <2>2. QED
      BY <1>2, <1>3 DEF IInv, JobsAreCounted
  <1>8. LedgerIsWhole'
    <2>1. SUFFICES ASSUME NEW i \in Job, NEW id \in Id
                   PROVE  <<i, id>> \in ledger' <=>
                              /\ jobStatus'[i] = "imported"
                              /\ \E k \in 1 .. validRows'[i] : id = <<i, k>>
      BY DEF LedgerIsWhole
    <2>2. <<i, id>> \in ledger <=>
              jobStatus[i] = "imported" /\ \E k \in 1 .. validRows[i] : id = <<i, k>>
      BY DEF IInv, LedgerIsWhole
    <2>3. <<i, id>> \in ledger' <=> <<i, id>> \in ledger \/ (i = j /\ id \in req[r].done)
      BY <1>2
    <2>4. id \in req[r].done <=> \E k \in 1 .. n : id = <<j, k>>
      BY <1>1
    <2>5. CASE i = j
      BY <1>1, <1>2, <1>3, <2>2, <2>3, <2>4, <2>5
    <2>6. CASE i # j
      BY <1>2, <1>3, <2>2, <2>3, <2>6
    <2>7. QED
      BY <2>5, <2>6
  <1>9. \A x \in Inserted(r) : \E k \in 1 .. n : x.id = <<j, k>>
    BY <1>1 DEF KpiOf
  <1>10. ASSUME NEW k \in 1 .. n
         PROVE  \E x \in Inserted(r) : x.id = <<j, k>>
    <2>1. KpiOf(j, k) \in Inserted(r)
      BY <1>1
    <2>2. KpiOf(j, k).id = <<j, k>>
      BY DEF KpiOf
    <2>3. QED
      BY <2>1, <2>2
  <1>11. TableIsWhole'
    <2>1. SUFFICES ASSUME NEW i \in Job, NEW k \in 1 .. MaxRows
                   PROVE  (\E x \in kpis' : x.id = <<i, k>>) <=>
                              jobStatus'[i] = "imported" /\ k <= validRows'[i]
      BY DEF TableIsWhole
    <2>2. (\E x \in kpis : x.id = <<i, k>>) <=>
              jobStatus[i] = "imported" /\ k <= validRows[i]
      BY DEF IInv, TableIsWhole
    <2>3. (\E x \in kpis' : x.id = <<i, k>>) <=>
              (\E x \in kpis : x.id = <<i, k>>) \/ (\E x \in Inserted(r) : x.id = <<i, k>>)
      BY <1>2
    <2>4. (\E x \in Inserted(r) : x.id = <<i, k>>) <=> i = j /\ k \in 1 .. n
      BY <1>9, <1>10
    <2>5. CASE i = j
      <3>1. k \in 1 .. n <=> k <= n
        BY <1>1, ImportAssumption
      <3>2. QED
        BY <1>1, <1>2, <1>3, <2>2, <2>3, <2>4, <2>5, <3>1
    <2>6. CASE i # j
      BY <1>2, <1>3, <2>2, <2>3, <2>4, <2>6
    <2>7. QED
      BY <2>5, <2>6
  <1>12. ParentsExist'
    BY <1>1, <1>2 DEF IInv, ParentsExist, ParentExists
  <1>13. ASSUME NEW q \in Request \ {r}
         PROVE  RequestIsOrderly(q)'
    <2>1. RequestIsOrderly(q) /\ req'[q] = req[q] /\ Inserted(q)' = Inserted(q)
      BY <1>5 DEF IInv
    <2>2. JobIsKnown(q)'
      BY <2>1 DEF RequestIsOrderly, JobIsKnown
    <2>3. CommitIsOrderly(q)'
      BY <1>2, <1>3, <1>4, <2>1 DEF RequestIsOrderly, CommitIsOrderly, Filled
    <2>4. RollbackIsOrderly(q)'
      <3>1. req[q].done \subseteq Id /\ None \notin Id
        BY CallTypes, IdAssumption DEF IInv
      <3>2. QED
        BY <1>1, <1>2, <1>3, <1>4, <2>1, <3>1 DEF RequestIsOrderly, RollbackIsOrderly
    <2>5. CreationIsFresh(q)'
      <3>1. ASSUME NEW x \in Inserted(r), NEW id \in Manual
            PROVE  x.id # id
        <4>1. PICK k \in 1 .. n : x.id = <<j, k>>
          BY <1>9
        <4>2. x.id \in Job \X Nat
          BY <1>1, <4>1
        <4>3. QED
          BY <4>2, IdAssumption
      <3>2. QED
        BY <1>2, <2>1, <3>1 DEF RequestIsOrderly, CreationIsFresh
    <2>6. CodesAreNew(q)'
      <3>1. \A x \in Inserted(q) : \A y \in Inserted(r) : x.code # y.code
        BY DEF IInv, AreApart
      <3>2. QED
        BY <1>2, <2>1, <3>1 DEF RequestIsOrderly, CodesAreNew, CodeTaken
    <2>7. QED
      BY <2>2, <2>3, <2>4, <2>5, <2>6 DEF RequestIsOrderly
  <1>14. \A q \in Request : RequestIsOrderly(q)'
    BY <1>5, <1>13
  <1>15. QED
    BY <1>5, <1>6, <1>7, <1>8, <1>11, <1>12, <1>14 DEF IInv

\* What a rollback takes away: all rows of its job, none of which has a child.
LEMMA RollbackEndTakes ==
  ASSUME IInv, NEW r \in Request, RollbackEnd(r)
  PROVE  LET j == req[r].job IN
         /\ j \in Job /\ jobStatus[j] = "imported" /\ validRows[j] <= MaxRows
         /\ \A id \in Id : id \in req[r].done <=> \E k \in 1 .. validRows[j] : id = <<j, k>>
         /\ \A x \in kpis : x.parent \notin req[r].done
         /\ \A x : x \in Deleted(r) <=> x \in kpis /\ x.id \in req[r].done
  <1> DEFINE j == req[r].job
  <1>1. req[r].phase = "rollback_rows" /\ IdsLeft(r) = {}
    BY DEF RollbackEnd
  <1>2. /\ j \in Job /\ jobStatus[j] = "imported" /\ validRows[j] <= MaxRows
        /\ \A id \in req[r].done : <<j, id>> \in ledger
        /\ \A x \in kpis : x.parent \notin req[r].done
    BY <1>1 DEF IInv, RequestIsOrderly, JobIsKnown, RollbackIsOrderly, JobsAreCounted
  <1>3. \A id \in Id : id \in req[r].done <=> <<j, id>> \in ledger
    BY <1>1, <1>2 DEF IdsLeft
  <1>4. \A id \in Id : <<j, id>> \in ledger <=> \E k \in 1 .. validRows[j] : id = <<j, k>>
    BY <1>2 DEF IInv, LedgerIsWhole
  <1>5. \A x : x \in Deleted(r) <=> x \in kpis /\ x.id \in req[r].done
    BY <1>1 DEF Deleted
  <1>6. QED
    BY <1>2, <1>3, <1>4, <1>5

\* A rollback takes back all rows of its job at once.
LEMMA RollbackEndKeeps ==
  ASSUME IInv, NEW r \in Request, RollbackEnd(r)
  PROVE  IInv'
  <1> DEFINE j == req[r].job
  <1>1. /\ j \in Job /\ jobStatus[j] = "imported" /\ validRows[j] <= MaxRows
        /\ \A id \in Id : id \in req[r].done <=> \E k \in 1 .. validRows[j] : id = <<j, k>>
        /\ \A x \in kpis : x.parent \notin req[r].done
        /\ \A x : x \in Deleted(r) <=> x \in kpis /\ x.id \in req[r].done
    BY RollbackEndTakes
  <1>2. /\ req[r].phase = "rollback_rows"
        /\ kpis' = kpis \ Deleted(r)
        /\ ledger' = ledger \ ({j} \X Id)
        /\ jobStatus' = [jobStatus EXCEPT ![j] = "rolled_back"]
        /\ Finish(r)
        /\ UNCHANGED <<previewData, validRows, invalidRows>>
    BY DEF RollbackEnd
  <1> HIDE DEF j
  <1>3. /\ jobStatus'[j] = "rolled_back"
        /\ \A i \in Job : i # j => jobStatus'[i] = jobStatus[i]
    BY <1>1, <1>2 DEF IInv, TypeOK
  <1>4. \A q \in Request \ {r} : req[q].phase \in {"commit_rows", "rollback_rows"} =>
            req[q].job \in Job /\ req[q].job # j
    BY <1>2, OthersHoldOtherJobs DEF j
  <1>5. /\ req' \in [Request -> Call]
        /\ RequestIsOrderly(r)'
        /\ \A q \in Request \ {r} : req'[q] = req[q] /\ Inserted(q)' = Inserted(q)
        /\ \A p, q \in Request : p # q => AreApart(p, q)'
    BY <1>2, FinishSeparates
  <1>6. TypeOK'
    <2>1. jobStatus' \in [Job -> JobStatuses]
      BY <1>1, <1>2 DEF IInv, TypeOK, JobStatuses
    <2>2. QED
      BY <1>2, <1>5, <2>1 DEF IInv, TypeOK
  <1>7. JobsAreCounted'
    BY <1>2, <1>3 DEF IInv, JobsAreCounted
  <1>8. LedgerIsWhole'
    <2>1. SUFFICES ASSUME NEW i \in Job, NEW id \in Id
                   PROVE  <<i, id>> \in ledger' <=>
                              /\ jobStatus'[i] = "imported"
                              /\ \E k \in 1 .. validRows'[i] : id = <<i, k>>
      BY DEF LedgerIsWhole
    <2>2. <<i, id>> \in ledger <=>
              jobStatus[i] = "imported" /\ \E k \in 1 .. validRows[i] : id = <<i, k>>
      BY DEF IInv, LedgerIsWhole
    <2>3. <<i, id>> \in ledger' <=> <<i, id>> \in ledger /\ i # j
      BY <1>2
    <2>4. QED
      BY <1>2, <1>3, <2>2, <2>3
  <1>9. \A x \in kpis : x.id \in Id
    BY DEF IInv, TypeOK, Kpi
  <1>10. TableIsWhole'
    <2>1. SUFFICES ASSUME NEW i \in Job, NEW k \in 1 .. MaxRows
                   PROVE  (\E x \in kpis' : x.id = <<i, k>>) <=>
                              jobStatus'[i] = "imported" /\ k <= validRows'[i]
      BY DEF TableIsWhole
    <2>2. (\E x \in kpis : x.id = <<i, k>>) <=>
              jobStatus[i] = "imported" /\ k <= validRows[i]
      BY DEF IInv, TableIsWhole
    <2>3. <<i, k>> \in Id
      BY DEF Id
    <2>4. CASE i = j
      <3>1. SUFFICES ASSUME NEW x \in kpis', x.id = <<j, k>>
                     PROVE  FALSE
        BY <1>3, <2>4
      <3>2. x \in kpis /\ x \notin Deleted(r)
        BY <1>2, <3>1
      <3>3. k <= validRows[j] /\ validRows[j] \in Nat
        BY <1>1, <2>2, <2>4, <3>1, <3>2 DEF IInv, TypeOK
      <3>4. k \in 1 .. validRows[j]
        BY <3>3, ImportAssumption
      <3>5. x.id \in req[r].done
        BY <1>1, <2>3, <2>4, <3>1, <3>4
      <3>6. QED
        BY <1>1, <3>2, <3>5
    <2>5. CASE i # j
      <3>1. <<i, k>> \notin req[r].done
        BY <1>1, <2>3, <2>5
      <3>2. (\E x \in kpis' : x.id = <<i, k>>) <=> (\E x \in kpis : x.id = <<i, k>>)
        BY <1>1, <1>2, <3>1
      <3>3. QED
        BY <1>2, <1>3, <2>2, <2>5, <3>2
    <2>6. QED
      BY <2>4, <2>5
  <1>11. ParentsExist'
    <2>1. SUFFICES ASSUME NEW x \in kpis', x.parent # None
                   PROVE  \E y \in kpis' : y.id = x.parent
      BY DEF ParentsExist, ParentExists
    <2>2. x \in kpis /\ x.parent \notin req[r].done
      BY <1>1, <1>2
    <2>3. PICK y \in kpis : y.id = x.parent
      BY <2>1, <2>2 DEF IInv, ParentsExist, ParentExists
    <2>4. y \in kpis'
      BY <1>1, <1>2, <2>2, <2>3
    <2>5. QED
      BY <2>3, <2>4
  <1>12. ASSUME NEW q \in Request \ {r}
         PROVE  RequestIsOrderly(q)'
    <2>1. RequestIsOrderly(q) /\ req'[q] = req[q] /\ Inserted(q)' = Inserted(q)
      BY <1>5 DEF IInv
    <2>2. kpis' \subseteq kpis
      BY <1>2
    <2>3. JobIsKnown(q)' /\ CreationIsFresh(q)'
      BY <2>1, <2>2 DEF RequestIsOrderly, JobIsKnown, CreationIsFresh
    <2>4. CommitIsOrderly(q)'
      BY <1>2, <1>3, <1>4, <2>1 DEF RequestIsOrderly, CommitIsOrderly, Filled
    <2>5. RollbackIsOrderly(q)'
      BY <1>2, <1>3, <1>4, <2>1, <2>2 DEF RequestIsOrderly, RollbackIsOrderly
    <2>6. CodesAreNew(q)'
      BY <2>1, <2>2 DEF RequestIsOrderly, CodesAreNew, CodeTaken
    <2>7. QED
      BY <2>3, <2>4, <2>5, <2>6 DEF RequestIsOrderly
  <1>13. \A q \in Request : RequestIsOrderly(q)'
    BY <1>5, <1>12
  <1>14. QED
    BY <1>5, <1>6, <1>7, <1>8, <1>10, <1>11, <1>13 DEF IInv

\* A new KPI has a parent that no rollback is about to take away.
LEMMA CreateEndKeeps ==
  ASSUME IInv, NEW r \in Request, CreateEnd(r)
  PROVE  IInv'
  <1> DEFINE x == req[r].kpi
  <1>1. /\ req[r].phase = "create_parent" /\ ~Waits(r) /\ ParentExists(x)
        /\ kpis' = kpis \cup {x} /\ Finish(r) /\ UNCHANGED <<jobVars, ledger>>
    BY DEF CreateEnd
  <1>2. /\ x \in Kpi /\ x.id \in Manual /\ \A y \in kpis : y.id # x.id
        /\ Inserted(r) = {x}
    BY <1>1 DEF IInv, RequestIsOrderly, CreationIsFresh, Inserted
  <1>3. /\ req' \in [Request -> Call]
        /\ RequestIsOrderly(r)'
        /\ \A q \in Request \ {r} : req'[q] = req[q] /\ Inserted(q)' = Inserted(q)
        /\ \A p, q \in Request : p # q => AreApart(p, q)'
    BY <1>1, FinishSeparates DEF jobVars
  <1> HIDE DEF x
  <1>4. TypeOK'
    BY <1>1, <1>2, <1>3 DEF IInv, TypeOK, jobVars
  <1>5. JobsAreCounted' /\ LedgerIsWhole'
    BY <1>1 DEF IInv, JobsAreCounted, LedgerIsWhole, jobVars
  <1>6. TableIsWhole'
    <2>1. SUFFICES ASSUME NEW i \in Job, NEW k \in 1 .. MaxRows
                   PROVE  (\E y \in kpis' : y.id = <<i, k>>) <=>
                              jobStatus'[i] = "imported" /\ k <= validRows'[i]
      BY DEF TableIsWhole
    <2>2. x.id # <<i, k>>
      BY <1>2, IdAssumption
    <2>3. (\E y \in kpis : y.id = <<i, k>>) <=>
              jobStatus[i] = "imported" /\ k <= validRows[i]
      BY DEF IInv, TableIsWhole
    <2>4. QED
      BY <1>1, <2>2, <2>3 DEF jobVars
  <1>7. ParentsExist'
    BY <1>1 DEF IInv, ParentsExist, ParentExists
  <1>8. ASSUME NEW q \in Request \ {r}
        PROVE  RequestIsOrderly(q)'
    <2>1. RequestIsOrderly(q) /\ AreApart(r, q) /\ req'[q] = req[q] /\ Inserted(q)' = Inserted(q)
      BY <1>3 DEF IInv
    <2>2. JobIsKnown(q)' /\ CommitIsOrderly(q)'
      BY <1>1, <2>1 DEF RequestIsOrderly, JobIsKnown, CommitIsOrderly, Filled, jobVars
    <2>3. RollbackIsOrderly(q)'
      <3>1. SUFFICES ASSUME req[q].phase = "rollback_rows"
                     PROVE  x.parent \notin req[q].done
        BY <1>1, <2>1 DEF RequestIsOrderly, RollbackIsOrderly, jobVars
      <3>2. ~HoldsParent(q, x.parent)
        BY <1>1 DEF Waits, WaitsFor, x
      <3>3. CASE x.parent = None
        BY <3>3, CallTypes, IdAssumption DEF IInv
      <3>4. CASE x.parent # None
        <4>1. PICK y \in kpis : y.id = x.parent
          BY <1>1, <3>4 DEF ParentExists
        <4>2. QED
          BY <3>1, <3>2, <4>1 DEF HoldsParent, Deleted
      <3>5. QED
        BY <3>3, <3>4
    <2>4. CreationIsFresh(q)'
      <3>1. x.id # None
        BY <1>2, IdAssumption DEF Id
      <3>2. x.id # req[q].kpi.id
        BY <2>1, <3>1 DEF AreApart, x
      <3>3. QED
        BY <1>1, <2>1, <3>2 DEF RequestIsOrderly, CreationIsFresh
    <2>5. CodesAreNew(q)'
      BY <1>1, <1>2, <2>1 DEF RequestIsOrderly, CodesAreNew, CodeTaken, AreApart
    <2>6. QED
      BY <2>2, <2>3, <2>4, <2>5 DEF RequestIsOrderly
  <1>9. \A q \in Request : RequestIsOrderly(q)'
    BY <1>3, <1>8
  <1>10. QED
    BY <1>3, <1>4, <1>5, <1>6, <1>7, <1>9 DEF IInv

-----------------------------------------------------------------------------
(* The theorems *)

\* Without jobs there is nothing to keep.
LEMMA InitKeeps == Init => IInv
  <1> SUFFICES ASSUME Init
               PROVE  IInv
    OBVIOUS
  <1>1. Idle \in Call /\ Idle.phase = "idle" /\ Idle.kpi.id = None
    BY DEF Idle, Call, Phases, NoKpi
  <1>2. \A r \in Request : req[r] = Idle /\ Inserted(r) = {}
    BY <1>1 DEF Init, Inserted
  <1>3. TypeOK
    BY <1>1 DEF Init, TypeOK, JobStatuses
  <1>4. JobsAreCounted /\ LedgerIsWhole /\ TableIsWhole /\ ParentsExist
    BY ImportAssumption DEF Init, JobsAreCounted, LedgerIsWhole, TableIsWhole, ParentsExist
  <1>5. \A r \in Request : RequestIsOrderly(r)
    BY <1>1, <1>2 DEF RequestIsOrderly, JobIsKnown, CommitIsOrderly, RollbackIsOrderly,
                      CreationIsFresh, CodesAreNew
  <1>6. \A q, r \in Request : q # r => AreApart(q, r)
    BY <1>1, <1>2 DEF AreApart
  <1>7. QED
    BY <1>3, <1>4, <1>5, <1>6 DEF IInv

\* Every step of a request keeps the invariant.
LEMMA NextKeeps ==
  ASSUME IInv, Next
  PROVE  IInv'
  <1>1. PICK r \in Request : Arrive(r) \/ Handle(r) \/ Cancel(r) \/ AbortDeadlock(r)
    BY DEF Next
  <1>2. CASE Arrive(r)
    BY <1>2, PreviewKeeps, StartsKeep, StartCreateKeeps DEF Arrive
  <1>3. CASE Handle(r)
    <2>1. CASE \/ CommitRefused(r) \/ CommitRowRefused(r) \/ RollbackRefused(r)
               \/ RollbackRowRefused(r) \/ CreateRefused(r)
      BY <2>1, AbortKeeps DEF CommitRefused, CommitRowRefused, RollbackRefused,
                              RollbackRowRefused, CreateRefused
    <2>2. QED
      BY <1>3, <2>1, LocksKeep, CommitRowKeeps, CommitEndKeeps, RollbackRowKeeps,
         RollbackEndKeeps, CreateCodeKeeps, CreateEndKeeps DEF Handle
  <1>4. CASE Cancel(r) \/ AbortDeadlock(r)
    BY <1>4, AbortKeeps DEF Cancel, AbortDeadlock
  <1>5. QED
    BY <1>1, <1>2, <1>3, <1>4

\* The invariant of the imports holds for any users, workbooks and number of
\* concurrent requests (previewImport, commitImport, rollbackImport, createKPI).
THEOREM ImportInvariance == Spec => []IInv
  <1>1. ASSUME IInv, UNCHANGED vars
        PROVE  IInv'
    <2>1. UNCHANGED <<jobStatus, previewData, validRows, invalidRows, kpis, ledger, req>>
      BY <1>1 DEF vars, jobVars
    <2>2. \A r \in Request : Inserted(r)' = Inserted(r)
      BY <2>1, InsertedStays
    <2>3. TypeOK' /\ JobsAreCounted' /\ LedgerIsWhole' /\ TableIsWhole' /\ ParentsExist'
      BY <1>1, <2>1 DEF IInv, TypeOK, JobsAreCounted, LedgerIsWhole, TableIsWhole,
                        ParentsExist, ParentExists
    <2>4. ASSUME NEW r \in Request
          PROVE  RequestIsOrderly(r)'
      <3>1. RequestIsOrderly(r)
        BY <1>1 DEF IInv
      <3>2. QED
        BY <2>1, <2>2, <3>1
        DEF RequestIsOrderly, JobIsKnown, CommitIsOrderly, Filled, RollbackIsOrderly,
            CreationIsFresh, CodesAreNew, CodeTaken
    <2>5. \A p, q \in Request : p # q => AreApart(p, q)'
      BY <1>1, <2>1, <2>2 DEF IInv, AreApart
    <2>6. QED
      BY <2>3, <2>4, <2>5 DEF IInv
  <1>2. IInv /\ [Next]_vars => IInv'
    BY <1>1, NextKeeps
  <1>3. QED
    BY <1>2, InitKeeps, PTL DEF Spec

\* The tables and the requests are of their types.
THEOREM ImportTypes == Spec => []TypeOK
  <1>1. IInv => TypeOK
    BY DEF IInv
  <1>2. QED
    BY <1>1, ImportInvariance, PTL

\* A rollback leaves no KPI whose parent is gone, not even one that was being
\* created meanwhile (rollbackImport, createKPI).
THEOREM NoOrphans == Spec => []ParentsExist
  <1>1. IInv => ParentsExist
    BY DEF IInv
  <1>2. QED
    BY <1>1, ImportInvariance, PTL

\* Whatever fails or is cancelled in the middle, a job is in the tables and in
\* the ledger with all of its rows or with none (commitImport, rollbackImport).
THEOREM ImportsStayWhole == Spec => []ImportsAreWhole
  <1>1. IInv => ImportsAreWhole
    <2>  SUFFICES ASSUME IInv, NEW j \in Job
                   PROVE  LET recorded == {id \in Id : <<j, id>> \in ledger} IN
                          /\ IdsOf(j) = recorded
                          /\ recorded = IF jobStatus[j] = "imported"
                                        THEN {j} \X (1 .. validRows[j])
                                        ELSE {}
      BY DEF ImportsAreWhole
    <2> DEFINE recorded == {id \in Id : <<j, id>> \in ledger}
               all == IF jobStatus[j] = "imported" THEN {j} \X (1 .. validRows[j]) ELSE {}
    <2>2. validRows[j] \in Nat /\ validRows[j] <= MaxRows /\ MaxRows \in Nat
      BY ImportAssumption DEF IInv, JobsAreCounted, TypeOK
    <2>3. 1 .. validRows[j] \subseteq 1 .. MaxRows
      BY <2>2
    <2>4. recorded = all
      <3>1. {j} \X (1 .. validRows[j]) \subseteq Id
        BY <2>3 DEF Id
      <3>2. \A id \in Id : <<j, id>> \in ledger <=>
                jobStatus[j] = "imported" /\ \E k \in 1 .. validRows[j] : id = <<j, k>>
        BY DEF IInv, LedgerIsWhole
      <3>3. QED
        BY <3>1, <3>2
    <2>5. IdsOf(j) = all
      <3>1. \A k \in 1 .. MaxRows : k <= validRows[j] <=> k \in 1 .. validRows[j]
        BY <2>2
      <3>2. \A k \in 1 .. MaxRows :
                (\E x \in kpis : x.id = <<j, k>>) <=>
                    jobStatus[j] = "imported" /\ k \in 1 .. validRows[j]
        BY <3>1 DEF IInv, TableIsWhole
      <3>3. \A id : id \in IdsOf(j) <=>
                \E k \in 1 .. MaxRows : id = <<j, k>> /\ \E x \in kpis : x.id = <<j, k>>
        BY DEF IdsOf
      <3>4. QED
        BY <2>3, <3>2, <3>3
    <2>6. QED
      BY <2>4, <2>5
  <1>2. QED
    BY <1>1, ImportInvariance, PTL

-----------------------------------------------------------------------------
(* ImportJobs implements ImportLifecycle. *)

Statuses == [j \in Job |-> StatusOf(j)]

Previews == [j \in Job |-> CodesOf(j)]

\* What the lifecycle sees of a job stays while its columns do.
LEMMA StatusAndCodesStay ==
  ASSUME NEW j \in Job, jobStatus'[j] = jobStatus[j], invalidRows'[j] = invalidRows[j],
         previewData'[j] = previewData[j]
  PROVE  StatusOf(j)' = StatusOf(j) /\ CodesOf(j)' = CodesOf(j)
  BY DEF StatusOf, CodesOf

\* Two tables of all jobs that differ at one job.
LEMMA OneJobChanges ==
  ASSUME NEW j \in Job, \A i \in Job : i # j => /\ jobStatus'[i] = jobStatus[i]
                                                /\ invalidRows'[i] = invalidRows[i]
                                                /\ previewData'[i] = previewData[i]
  PROVE  /\ Statuses' = [Statuses EXCEPT ![j] = StatusOf(j)']
         /\ Previews' = [Previews EXCEPT ![j] = CodesOf(j)']
  <1>1. \A i \in Job : i # j => StatusOf(i)' = StatusOf(i) /\ CodesOf(i)' = CodesOf(i)
    BY StatusAndCodesStay
  <1>2. Statuses' = [i \in Job |-> StatusOf(i)'] /\ Previews' = [i \in Job |-> CodesOf(i)']
    BY DEF Statuses, Previews
  <1>3. /\ [Statuses EXCEPT ![j] = StatusOf(j)']
               = [i \in Job |-> IF i = j THEN StatusOf(j)' ELSE StatusOf(i)]
        /\ [Previews EXCEPT ![j] = CodesOf(j)']
               = [i \in Job |-> IF i = j THEN CodesOf(j)' ELSE CodesOf(i)]
    BY DEF Statuses, Previews
  <1>4. QED
    BY <1>1, <1>2, <1>3

\* The items of a preview have codes.
LEMMA CodesOfItems ==
  ASSUME NEW s \in Seq(Item)
  PROVE  Len(s) \in Nat /\ \A k \in 1 .. Len(s) : s[k].code \in Code
  <1>1. Len(s) \in Nat /\ \A k \in 1 .. Len(s) : s[k] \in Item
    OBVIOUS
  <1>2. \A item \in Item : item.code \in Code
    BY DEF Item
  <1>3. QED
    BY <1>1, <1>2

\* The codes of a preview are those of its items.
LEMMA CodesOfJob ==
  ASSUME NEW j \in Job, previewData[j] \in Seq(Item)
  PROVE  /\ CodesOf(j) \in Seq(Code)
         /\ Len(CodesOf(j)) = Len(previewData[j])
         /\ \A k \in 1 .. Len(previewData[j]) : CodesOf(j)[k] = previewData[j][k].code
  <1>1. /\ Len(previewData[j]) \in Nat
        /\ \A k \in 1 .. Len(previewData[j]) : previewData[j][k].code \in Code
    BY CodesOfItems
  <1>2. QED
    BY <1>1 DEF CodesOf

\* A job without a preview has no codes.
LEMMA NoCodes ==
  ASSUME NEW s, s = << >>
  PROVE  [k \in 1 .. Len(s) |-> s[k].code] = << >>
  BY SMT

\* Initial states map to initial states of the lifecycle.
LEMMA InitImplements == Init => Lifecycle!Init
  <1> SUFFICES ASSUME Init
               PROVE  Lifecycle!Init
    OBVIOUS
  <1>1. \A j \in Job : StatusOf(j) = "absent" /\ CodesOf(j) = << >>
    BY NoCodes DEF Init, StatusOf, CodesOf
  <1>2. QED
    BY <1>1 DEF Init, Lifecycle!Init

\* A preview of the handlers is one of the lifecycle.
LEMMA PreviewImplements ==
  ASSUME IInv, IInv', NEW r \in Request, NEW u \in User, NEW j \in Job, NEW f \in File,
         Preview(r, u, j, f)
  PROVE  Lifecycle!Preview(j)
  <1>1. /\ jobStatus[j] = "absent" /\ jobStatus'[j] = "preview" /\ UNCHANGED kpis
        /\ \A i \in Job : i # j => /\ jobStatus'[i] = jobStatus[i]
                                   /\ invalidRows'[i] = invalidRows[i]
                                   /\ previewData'[i] = previewData[i]
    BY DEF Preview, IInv, TypeOK
  <1>2. StatusOf(j) = "absent" /\ StatusOf(j)' \in {"preview", "faulty"}
    BY <1>1 DEF StatusOf
  <1>3. CodesOf(j)' \in Seq(Code)
    <2>1. /\ previewData'[j] \in Seq(Item)
          /\ CodesOf(j)' = [k \in 1 .. Len(previewData'[j]) |-> previewData'[j][k].code]
      BY DEF IInv, TypeOK, CodesOf
    <2>2. /\ Len(previewData'[j]) \in Nat
          /\ \A k \in 1 .. Len(previewData'[j]) : previewData'[j][k].code \in Code
      BY <2>1, CodesOfItems
    <2>3. QED
      BY <2>1, <2>2
  <1>4. /\ Statuses' = [Statuses EXCEPT ![j] = StatusOf(j)']
        /\ Previews' = [Previews EXCEPT ![j] = CodesOf(j)']
    BY <1>1, OneJobChanges
  <1>5. Statuses[j] = StatusOf(j) /\ Previews'[j] = CodesOf(j)'
    BY DEF Statuses, Previews
  <1>6. /\ Statuses[j] = "absent"
        /\ \E outcome \in {"preview", "faulty"} :
               Statuses' = [Statuses EXCEPT ![j] = outcome]
        /\ Previews'[j] \in Seq(Code)
        /\ Previews' = [Previews EXCEPT ![j] = Previews'[j]]
        /\ UNCHANGED kpis
    BY <1>1, <1>2, <1>3, <1>4, <1>5
  <1>7. QED
    BY <1>6 DEF Lifecycle!Preview, Statuses, Previews

\* The end of a commit imports the whole job.
LEMMA CommitImplements ==
  ASSUME IInv, NEW r \in Request, CommitEnd(r)
  PROVE  Lifecycle!Commit(req[r].job)
  <1>0. PICK j \in Job : j = req[r].job
    BY CommitEndAdds
  <1> DEFINE n == Len(previewData[j])
  <1>1. /\ j \in Job /\ jobStatus[j] = "preview" /\ invalidRows[j] = 0
        /\ previewData[j] \in Seq(Item)
        /\ Inserted(r) = {KpiOf(j, k) : k \in 1 .. n}
    BY <1>0, CommitEndAdds
  <1>2. /\ kpis' = kpis \cup Inserted(r)
        /\ jobStatus' = [jobStatus EXCEPT ![j] = "imported"]
        /\ previewData' = [previewData EXCEPT ![j] = <<>>]
        /\ UNCHANGED <<validRows, invalidRows>>
    BY <1>0 DEF CommitEnd
  <1>3. \A x \in Inserted(r) : ~CodeTaken(x.code)
    BY DEF IInv, RequestIsOrderly, CodesAreNew
  <1>4. /\ jobStatus'[j] = "imported" /\ previewData'[j] = << >>
        /\ \A i \in Job : i # j => /\ jobStatus'[i] = jobStatus[i]
                                   /\ invalidRows'[i] = invalidRows[i]
                                   /\ previewData'[i] = previewData[i]
    BY <1>1, <1>2 DEF IInv, TypeOK
  <1>5. StatusOf(j) = "preview" /\ StatusOf(j)' = "imported"
    BY <1>1, <1>4 DEF StatusOf
  <1>6. CodesOf(j)' = << >>
    BY <1>4, NoCodes DEF CodesOf
  <1>7. /\ Statuses' = [Statuses EXCEPT ![j] = "imported"]
        /\ Previews' = [Previews EXCEPT ![j] = << >>]
        /\ Statuses[j] = "preview" /\ Previews[j] = CodesOf(j)
    <2>1. /\ Statuses' = [Statuses EXCEPT ![j] = StatusOf(j)']
          /\ Previews' = [Previews EXCEPT ![j] = CodesOf(j)']
      BY <1>1, <1>4, OneJobChanges
    <2>2. Statuses[j] = StatusOf(j) /\ Previews[j] = CodesOf(j)
      BY <1>1 DEF Statuses, Previews
    <2>3. QED
      BY <1>5, <1>6, <2>1, <2>2
  <1>8. Lifecycle!Imported(j) = Inserted(r)
    <2>1. Len(Previews[j]) = n /\ \A k \in 1 .. n : Previews[j][k] = previewData[j][k].code
      BY <1>1, <1>7, CodesOfJob
    <2>2. Lifecycle!Imported(j)
              = {[id |-> <<j, k>>, code |-> Previews[j][k], parent |-> None] :
                     k \in 1 .. Len(Previews[j])}
      BY DEF Lifecycle!Imported, Previews
    <2> HIDE DEF n
    <2>3. Inserted(r) = {[id |-> <<j, k>>, code |-> previewData[j][k].code, parent |-> None] :
                             k \in 1 .. n}
      BY <1>1 DEF KpiOf
    <2>4. QED
      BY <2>1, <2>2, <2>3
  <1>9. Lifecycle!CodesOf(kpis) \cap Lifecycle!CodesOf(Lifecycle!Imported(j)) = {}
    BY <1>3, <1>8 DEF Lifecycle!CodesOf, CodeTaken
  <1>10. QED
    BY <1>0, <1>2, <1>7, <1>8, <1>9 DEF Lifecycle!Commit, Statuses, Previews

\* The end of a rollback takes the whole job back.
LEMMA RollbackImplements ==
  ASSUME IInv, NEW r \in Request, RollbackEnd(r)
  PROVE  Lifecycle!Rollback(req[r].job)
  <1>0. PICK j \in Job : j = req[r].job
    BY RollbackEndTakes
  <1> DEFINE gone == {row \in kpis : row.id \notin Manual /\ row.id[1] = j}
  <1>1. /\ j \in Job /\ jobStatus[j] = "imported" /\ validRows[j] <= MaxRows
        /\ \A id \in Id : id \in req[r].done <=> \E k \in 1 .. validRows[j] : id = <<j, k>>
        /\ \A x \in kpis : x.parent \notin req[r].done
        /\ \A x : x \in Deleted(r) <=> x \in kpis /\ x.id \in req[r].done
    BY <1>0, RollbackEndTakes
  <1>2. /\ kpis' = kpis \ Deleted(r)
        /\ jobStatus' = [jobStatus EXCEPT ![j] = "rolled_back"]
        /\ UNCHANGED <<previewData, validRows, invalidRows>>
    BY <1>0 DEF RollbackEnd
  <1>3. gone = Deleted(r)
    <2>1. SUFFICES ASSUME NEW x \in kpis
                   PROVE  x.id \notin Manual /\ x.id[1] = j <=> x.id \in req[r].done
      BY <1>1
    <2>2. x.id \in Id
      BY DEF IInv, TypeOK, Kpi
    <2>3. ASSUME x.id \in req[r].done
          PROVE  x.id \notin Manual /\ x.id[1] = j
      <3>1. PICK k \in 1 .. validRows[j] : x.id = <<j, k>>
        BY <1>1, <2>2, <2>3
      <3>2. <<j, k>> \in Job \X Nat
        BY <1>1
      <3>3. QED
        BY <3>1, <3>2, IdAssumption
    <2>4. ASSUME x.id \notin Manual, x.id[1] = j
          PROVE  x.id \in req[r].done
      <3>1. PICK k \in 1 .. MaxRows : x.id = <<j, k>>
        BY <2>2, <2>4 DEF Id
      <3>2. k <= validRows[j]
        BY <1>1, <3>1 DEF IInv, TableIsWhole
      <3>3. k \in 1 .. validRows[j]
        BY <1>1, <3>2 DEF IInv, TypeOK
      <3>4. QED
        BY <1>1, <2>2, <3>1, <3>3
    <2>5. QED
      BY <2>3, <2>4
  <1>4. \A row \in kpis \ gone : row.parent \notin {x.id : x \in gone}
    BY <1>1, <1>3
  <1>5. /\ jobStatus'[j] = "rolled_back"
        /\ \A i \in Job : i # j => /\ jobStatus'[i] = jobStatus[i]
                                   /\ invalidRows'[i] = invalidRows[i]
                                   /\ previewData'[i] = previewData[i]
    BY <1>1, <1>2 DEF IInv, TypeOK
  <1>6. StatusOf(j) = "imported" /\ StatusOf(j)' = "rolled_back" /\ CodesOf(j)' = CodesOf(j)
    BY <1>1, <1>2, <1>5 DEF StatusOf, CodesOf
  <1>7. /\ Statuses' = [Statuses EXCEPT ![j] = "rolled_back"] /\ Statuses[j] = "imported"
        /\ Previews' = Previews
    <2>1. Statuses' = [Statuses EXCEPT ![j] = StatusOf(j)']
      BY <1>1, <1>5, OneJobChanges
    <2>2. Statuses[j] = StatusOf(j)
      BY <1>1 DEF Statuses
    <2>3. Previews' = Previews
      BY <1>2 DEF Previews, CodesOf
    <2>4. QED
      BY <1>6, <2>1, <2>2, <2>3
  <1> HIDE DEF gone
  <1>8. /\ Statuses[j] = "imported"
        /\ \A row \in kpis \ gone : row.parent \notin {x.id : x \in gone}
        /\ kpis' = kpis \ gone
        /\ Statuses' = [Statuses EXCEPT ![j] = "rolled_back"]
        /\ UNCHANGED Previews
    BY <1>2, <1>3, <1>4, <1>7
  <1>9. QED
    BY <1>0, <1>8 DEF Lifecycle!Rollback, Statuses, Previews, gone

\* The end of a creation adds one KPI.
LEMMA CreateImplements ==
  ASSUME IInv, NEW r \in Request, CreateEnd(r)
  PROVE  Lifecycle!Next
  <1> DEFINE x == req[r].kpi
  <1>1. /\ req[r].phase = "create_parent" /\ ParentExists(x)
        /\ kpis' = kpis \cup {x} /\ UNCHANGED jobVars
    BY DEF CreateEnd
  <1>2. /\ x \in Kpi /\ x.id \in Manual /\ \A y \in kpis : y.id # x.id
        /\ ~CodeTaken(x.code)
    BY <1>1 DEF IInv, RequestIsOrderly, CreationIsFresh, CodesAreNew, Inserted
  <1> HIDE DEF x
  <1>3. Statuses' = Statuses /\ Previews' = Previews
    BY <1>1 DEF Statuses, Previews, StatusOf, CodesOf, jobVars
  <1>4. Lifecycle!Create(x)
    <2>1. /\ x.id \notin {y.id : y \in kpis}
          /\ x.code \notin Lifecycle!CodesOf(kpis)
          /\ x.parent # None => x.parent \in {y.id : y \in kpis}
      BY <1>1, <1>2 DEF Lifecycle!CodesOf, CodeTaken, ParentExists
    <2>2. QED
      BY <1>1, <1>3, <2>1 DEF Lifecycle!Create, Statuses, Previews
  <1>5. /\ x.code \in Code /\ x.parent \in {None} \cup {y.id : y \in kpis}
        /\ x = [id |-> x.id, code |-> x.code, parent |-> x.parent]
    BY <1>1, <1>2 DEF Kpi, ParentExists
  <1>6. QED
    BY <1>2, <1>4, <1>5 DEF Lifecycle!Next

\* Every step is a step of the lifecycle or changes nothing of it.
LEMMA NextImplements ==
  ASSUME IInv, IInv', [Next]_vars
  PROVE  [Lifecycle!Next]_<<Statuses, Previews, kpis>>
  <1>1. ASSUME UNCHANGED <<jobVars, kpis>>
        PROVE  UNCHANGED <<Statuses, Previews, kpis>>
    BY <1>1 DEF jobVars, Statuses, Previews, StatusOf, CodesOf
  <1>2. CASE UNCHANGED vars
    BY <1>1, <1>2 DEF vars
  <1>3. ASSUME NEW r \in Request, Arrive(r)
        PROVE  Lifecycle!Next \/ UNCHANGED <<jobVars, kpis>>
    <2>1. ASSUME NEW u \in User, NEW j \in Job, NEW f \in File, Preview(r, u, j, f)
          PROVE  Lifecycle!Next
      BY <2>1, PreviewImplements DEF Lifecycle!Next
    <2>2. ASSUME NEW u \in User, NEW j \in Job, StartCommit(r, u, j) \/ StartRollback(r, u, j)
          PROVE  UNCHANGED <<jobVars, kpis>>
      BY <2>2 DEF StartCommit, StartRollback
    <2>3. ASSUME NEW u \in User, NEW x, StartCreate(r, u, x)
          PROVE  UNCHANGED <<jobVars, kpis>>
      BY <2>3 DEF StartCreate
    <2>4. QED
      BY <1>3, <2>1, <2>2, <2>3 DEF Arrive
  <1>4. ASSUME NEW r \in Request, Handle(r)
        PROVE  Lifecycle!Next \/ UNCHANGED <<jobVars, kpis>>
    <2>1. CASE CommitEnd(r)
      <3>1. req[r].job \in Job /\ Lifecycle!Commit(req[r].job)
        BY <2>1, CommitImplements, CommitEndAdds
      <3>2. QED
        BY <3>1 DEF Lifecycle!Next
    <2>2. CASE RollbackEnd(r)
      <3>1. req[r].job \in Job /\ Lifecycle!Rollback(req[r].job)
        BY <2>2, RollbackImplements, RollbackEndTakes
      <3>2. QED
        BY <3>1 DEF Lifecycle!Next
    <2>3. CASE CreateEnd(r)
      BY <2>3, CreateImplements
    <2>4. CASE ~CommitEnd(r) /\ ~RollbackEnd(r) /\ ~CreateEnd(r)
      BY <1>4, <2>4
      DEF Handle, Abort, CommitRefused, CommitLock, CommitRowRefused, CommitRow,
          RollbackRefused, RollbackLock, RollbackRowRefused, RollbackRow, CreateCode,
          CreateRefused
    <2>5. QED
      BY <2>1, <2>2, <2>3, <2>4
  <1>5. ASSUME NEW r \in Request, Cancel(r) \/ AbortDeadlock(r)
        PROVE  UNCHANGED <<jobVars, kpis>>
    BY <1>5 DEF Cancel, AbortDeadlock, Abort
  <1>6. QED
    BY <1>1, <1>2, <1>3, <1>4, <1>5 DEF Next

\* Row by row as they work, side by side and cancelled at any point, the handlers
\* do what ImportLifecycle says: they import a job and take it back in one step
\* (previewImport, commitImport, rollbackImport, createKPI).
THEOREM ImportsImplementLifecycle == Spec => ImplementsLifecycle
  <1>1. IInv /\ IInv' /\ [Next]_vars
            => [Lifecycle!Next]_<<[j \in Job |-> StatusOf(j)], [j \in Job |-> CodesOf(j)], kpis>>
    BY NextImplements DEF Statuses, Previews
  <1>2. QED
    BY <1>1, InitImplements, ImportInvariance, PTL
    DEF Spec, ImplementsLifecycle, Lifecycle!Spec

=============================================================================
