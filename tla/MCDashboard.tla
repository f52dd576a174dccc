----------------------------- MODULE MCDashboard -----------------------------
(* One operator holds both roles and is the client of every job.           *)
EXTENDS DashboardSnapshot, TLC

CONSTANTS op, j1, j2, r1, e1

MCClient == [j \in Jobs |-> op]

MCBudget == [j \in Jobs |-> 1]

\* The second configuration leaves every job to a human.
MCConfigs == {[oracle |-> op, humanResolver |-> op, autoSettleCap |-> cap,
               minConfidenceBP |-> 7] : cap \in {0, 1}}
=============================================================================
