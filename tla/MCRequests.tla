----------------------------- MODULE MCRequests -----------------------------
(* Small instances of two components that share no state.  As in           *)
(* MCComponents, each behaviour moves one of them, and fairness is asked   *)
(* only of the one that moves.                                             *)
EXTENDS ConnectionPool, Notifications

VARIABLE part    \* the component that moves

vars == <<part, poolVars, noteVars>>

Init ==
    /\ part \in {"pool", "notes"}
    /\ PoolInit /\ NotesInit

Next ==
    /\ UNCHANGED part
    /\ \/ /\ part = "pool" /\ PoolNext
          /\ UNCHANGED noteVars
       \/ /\ part = "notes" /\ NotesNext
          /\ UNCHANGED poolVars

Spec ==
    /\ Init /\ [][Next]_vars
    /\ PoolFairness
    /\ part = "notes" => NotesFairness

\* Type correctness of the two components: tasks, connections and the mutex,
\* rules, notifications and evaluations stay what the code can have; there are
\* never more connections in use than the pool has.
TypeOK == PoolTypeOK /\ NotesTypeOK
=============================================================================
