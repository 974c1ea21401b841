---------------------------- MODULE MCImportJobs ----------------------------
(* A small instance of ImportJobs: a planner and an executive import two   *)
(* workbooks.                                                              *)
EXTENDS ImportJobs, TLC

CONSTANTS planner, executive, a, A, b

MCLower == a :> a @@ A :> a @@ b :> b

MCPrincipalOf ==
    planner :> [id |-> planner, organization |-> None, roles |-> {"kpi_manager"},
                permissions |-> {<<"kpi", "*">>, <<"import", "*">>}]
 @@ executive :> [id |-> executive, organization |-> None,
                  roles |-> {"executive"},
                  permissions |-> {<<"kpi", "*">>, <<"import", "*">>}]

Open(code) == [code |-> code, class |-> "internal"]

Closed(code) == [code |-> code, class |-> "executive"]

Mapped(rows) == [mapped |-> TRUE, overlong |-> FALSE, rows |-> rows]

\* The same codes in two orders.
Crossed == {Mapped(<<Open(a), Open(b)>>), Mapped(<<Open(b), Open(a)>>)}

\* A row only the executive may import, one code in two spellings and a row
\* too many, no column for the code, a cell that is too long.
Odd == {Mapped(<<Open(a), Closed(b)>>),
        Mapped(<<Open(a), Open(A), Open(b)>>),
        [mapped |-> FALSE, overlong |-> FALSE, rows |-> <<Open(None)>>],
        [mapped |-> TRUE, overlong |-> TRUE, rows |-> <<Open(a)>>]}

MCFile == Crossed \cup Odd
=============================================================================
