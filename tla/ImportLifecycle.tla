-------------------------- MODULE ImportLifecycle --------------------------
(***************************************************************************)
(* What the import handlers promise, without requests, locks or records    *)
(* that are half imported: a job without validation errors is imported at  *)
(* most once, all of it in one step, and can be taken back once, all of it *)
(* in one step, as long as nothing refers to it.  ImportJobs implements    *)
(* this specification.                                                     *)
(***************************************************************************)
EXTENDS Sequences, Naturals

CONSTANTS Job,      \* the import jobs
          Manual,   \* the ids of KPIs created one by one
          Code,     \* the codes of KPIs
          None      \* no parent

VARIABLES status,   \* status[j]; "faulty" is a preview with validation errors
          preview,  \* preview[j]: the codes of the rows that are to be imported
          kpis      \* the KPIs: records with the fields id, code and parent

Init ==
    /\ status = [j \in Job |-> "absent"]
    /\ preview = [j \in Job |-> <<>>]
    /\ kpis = {}

\* The KPIs of job j: one for each row, none with a parent.
Imported(j) ==
    {[id |-> <<j, k>>, code |-> preview[j][k], parent |-> None] :
        k \in 1 .. Len(preview[j])}

CodesOf(rows) == {row.code : row \in rows}

\* Whatever the workbook holds.
Preview(j) ==
    /\ status[j] = "absent"
    /\ \E outcome \in {"preview", "faulty"} :
          status' = [status EXCEPT ![j] = outcome]
    /\ preview'[j] \in Seq(Code)
    /\ preview' = [preview EXCEPT ![j] = preview'[j]]
    /\ UNCHANGED kpis

Commit(j) ==
    /\ status[j] = "preview"
    /\ CodesOf(kpis) \cap CodesOf(Imported(j)) = {}
    /\ kpis' = kpis \cup Imported(j)
    /\ status' = [status EXCEPT ![j] = "imported"]
    /\ preview' = [preview EXCEPT ![j] = <<>>]

\* A rollback takes back all the rows of a job, and only if no other refers to
\* one of them.
Rollback(j) ==
    LET gone == {row \in kpis : row.id \notin Manual /\ row.id[1] = j} IN
    /\ status[j] = "imported"
    /\ \A row \in kpis \ gone : row.parent \notin {x.id : x \in gone}
    /\ kpis' = kpis \ gone
    /\ status' = [status EXCEPT ![j] = "rolled_back"]
    /\ UNCHANGED preview

Create(row) ==
    /\ row.id \notin {x.id : x \in kpis}
    /\ row.code \notin CodesOf(kpis)
    /\ row.parent # None => row.parent \in {x.id : x \in kpis}
    /\ kpis' = kpis \cup {row}
    /\ UNCHANGED <<status, preview>>

Next ==
    \/ \E j \in Job :
        \/ Preview(j)
        \/ Commit(j)
        \/ Rollback(j)
    \/ \E id \in Manual, code \in Code, parent \in {None} \cup {x.id : x \in kpis} :
          Create([id |-> id, code |-> code, parent |-> parent])

Spec == Init /\ [][Next]_<<status, preview, kpis>>

=============================================================================
