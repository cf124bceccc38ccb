------------------------- MODULE MCTenantResources -------------------------
(* Instances of TenantResources for TLC: one project, two of its runs.      *)
EXTENDS TenantResources, TLC

Requests == 1..3
Runs == {1, 2}
OneRun == {1}

Table(a) ==
    CASE a.op = "select" -> "environments"
      [] a.op \in {"read", "readAll"} -> "notifications"
      [] a.op \in {"resolve", "reopen"} -> "findings"
      [] OTHER -> "projects"

\* Requests on different tables share no row: those of one behaviour contend for one table.
Contending ==
    \A q, r \in Request :
        ask'[q] # NoAsk /\ ask'[r] # NoAsk => Table(ask'[q]) = Table(ask'[r])
=============================================================================
