------------------------------- MODULE MCDemo -------------------------------
(* The demo on small instances.                                            *)
EXTENDS DemoRun, TLC

MCJobs == Runs \X (1 .. MaxJobs)

MCClient == [j \in Jobs |-> DemoClient]

MCBudget == [j \in Jobs |-> 1]

CONSTANTS r1

MCConfigs ==
    {[oracle |-> DemoClient, humanResolver |-> DemoClient, autoSettleCap |-> 2,
      minConfidenceBP |-> 8]}
=============================================================================
