--------------------------- MODULE PlanLifecycle ----------------------------
(***************************************************************************)
(* What the plan handlers promise, without requests, rows or locks: a plan *)
(* has one status, at most one review is open for it at a time, a review   *)
(* only grows by decisions until one of them closes it, and a confirmed    *)
(* plan is final.  PlanWorkflow implements this specification.             *)
(***************************************************************************)
EXTENDS Sequences

CONSTANTS Plan,       \* the plans
          Decision    \* what a reviewer records: the step, who and how

VARIABLES status,     \* status[p]: the status column of plan p
          review      \* review[p]: the decisions of the review that is open

Statuses == {"absent", "draft", "in_review", "changes_requested", "confirmed"}

TypeOK ==
    /\ status \in [Plan -> Statuses]
    /\ review \in [Plan -> Seq(Decision)]

Init ==
    /\ status = [p \in Plan |-> "absent"]
    /\ review = [p \in Plan |-> <<>>]

Create(p) ==
    /\ status[p] = "absent"
    /\ status' = [status EXCEPT ![p] = "draft"]
    /\ UNCHANGED review

Submittable(p) == status[p] \in {"draft", "changes_requested"}

\* A submission that the policy does not send to a review.
Finalize(p) ==
    /\ Submittable(p)
    /\ status' = [status EXCEPT ![p] = "confirmed"]
    /\ UNCHANGED review

OpenReview(p) ==
    /\ Submittable(p)
    /\ status' = [status EXCEPT ![p] = "in_review"]
    /\ UNCHANGED review

Approve(p, d) ==
    /\ status[p] = "in_review"
    /\ review' = [review EXCEPT ![p] = Append(@, d)]
    /\ UNCHANGED status

\* The decision that closes the review: the last approval, or a rejection.
Close(p, outcome) ==
    /\ status[p] = "in_review"
    /\ status' = [status EXCEPT ![p] = outcome]
    /\ review' = [review EXCEPT ![p] = <<>>]

Next ==
    \E p \in Plan :
        \/ Create(p)
        \/ Finalize(p)
        \/ OpenReview(p)
        \/ \E d \in Decision : Approve(p, d)
        \/ \E outcome \in {"confirmed", "changes_requested"} : Close(p, outcome)

Spec == Init /\ [][Next]_<<status, review>>

=============================================================================
