------------------------------ MODULE MCJudge -------------------------------
(* The judge and its router on small instances.                            *)
EXTENDS JudgeWorker, TLC

CONSTANTS client, j1, j2

MCClient == [j \in Jobs |-> client]

\* The second job is above the cap.
MCBudget == [j \in Jobs |-> IF j = j2 THEN 3 ELSE 1]

\* What befalls the first job: lane changes, expiry, refund, a human verdict.
MCMoves == [j \in Jobs |-> IF j = j1 THEN 3 ELSE 0]

MCEvidence == Jobs \X (1 .. MaxJudgements) \cup {HumanLane, HumanEvidence}

MCConfigs ==
    {[oracle |-> client, humanResolver |-> client, autoSettleCap |-> 2,
      minConfidenceBP |-> 8]}
=============================================================================
