------------------------------ MODULE DemoRun -------------------------------
(***************************************************************************)
(* The live demo of core/src/review: demo.ts drives a run through escrow,  *)
(* escalation, purchase and review, one await at a time; its row is kept   *)
(* by demo-repository.ts and its transactions are sent by demo-chain.ts.   *)
(* The router is EvaluationRouter; the review order is what the rest of    *)
(* the service (PaidPurchase, ReviewProcessor) promises of it.             *)
(***************************************************************************)
EXTENDS EvaluationRouter, FiniteSets, Functions

CONSTANTS
    Runs,            \* demo runs, by request id
    MaxJobs,         \* bound on the escrow jobs created for one run
    MaxSends,        \* bound on the transactions of one kind of one run
    MaxFaults,       \* bound on failed calls, restarts and dropped transactions
    DemoClient,      \* its client, the account behind DEMO_CLIENT_PK
    Word             \* every evidence and reason hash

ASSUME DemoAssumption ==
    /\ {MaxJobs, MaxSends} \subseteq Nat \ {0} /\ MaxFaults \in Nat
    /\ Jobs = Runs \X (1 .. MaxJobs) /\ Evaluated = Jobs
    /\ Client = [j \in Jobs |-> DemoClient] /\ Word \in Evidence

VARIABLES
    runs,       \* the rows of demo_runs
    at,         \* processing, and what the call in hand has read
    order,      \* the review order of the request, at the review service
    escrow,     \* how far each job has come before its submission
    allowance,  \* what the escrow may still take from the client, in budgets
    lapsed,     \* the reclaimed jobs that the escrow shows as Expired
    receipts,   \* what has become of each transaction
    faults

demoVars ==
    <<runs, at, order, escrow, allowance, lapsed, receipts, faults, routerVars>>

Keys == {"createJob", "setLane", "setBudget", "approval", "fund", "submit",
         "escrowRefund"}

Tx == Runs \X Keys \X (1 .. MaxSends)

Active == {"queued", "preparing_escrow", "awaiting_escalation",
           "awaiting_purchase", "purchasing_review", "review_active"}

\* fault: a run that waits for the judge is not looked at.
ProcessableUnlessWaiting ==
    {"queued", "preparing_escrow", "purchasing_review", "review_active",
     "archived_refund_pending"}

Processable == (Active \ {"awaiting_purchase"}) \cup {"archived_refund_pending"}

\* TERMINAL_STATES.
TerminalStates == {"finalized", "archived_refunded"}

States == Active \cup TerminalStates
             \cup {"absent", "failed", "archived_refund_pending"}

Operations == {"initialize", "create_job", "set_human_lane", "set_budget",
               "approve_usdc", "fund_escrow", "submit_deliverable",
               "wait_for_escalation", "purchase_review", "wait_for_review",
               "wait_for_refund_eligibility", "null"}

Row == [state : States, op : Operations, recovery : States \ (TerminalStates \cup {"failed"}), job : 0 .. MaxJobs,
        txs : [Keys -> 0 .. MaxSends], error : {"none", "reverted", "other"}]

\* absent is no row; a recovery of "absent" is a null recovery_state.
NoRow == [state |-> "absent", op |-> "null", recovery |-> "absent", job |-> 0,
          txs |-> [k \in Keys |-> 0], error |-> "none"]

\* pc: the await processRun is in; run: its copy of the row; done: what it has
\* read of the chain; key and nth: the transaction it has sent.
Idle == [pc |-> "idle", run |-> NoRow, done |-> FALSE, key |-> "none", nth |-> 0]

Calls == [pc : {"idle", "look", "act", "record", "attach", "verify"}, run : Row,
          done : BOOLEAN, key : Keys \cup {"none"}, nth : 0 .. MaxSends]

DemoTypeOK ==
    /\ RouterTypeOK
    /\ runs \in [Runs -> Row]
    /\ at \in [Runs -> Calls]
    /\ order \in [Runs -> {"none", "charged", "active", "approved", "rejected", "refunded",
                         "stuck"}]
    /\ escrow \in [Jobs -> {"absent", "made", "priced", "funded"}]
    /\ allowance \in {0, 1}
    /\ lapsed \subseteq Jobs
    /\ receipts \in [Tx -> {"none", "pool", "dropped", "success", "reverted"}]

DemoInit ==
    /\ RouterInit
    /\ runs = [r \in Runs |-> NoRow]
    /\ at = [r \in Runs |-> Idle]
    /\ order = [r \in Runs |-> "none"]
    /\ escrow = [j \in Jobs |-> "absent"]
    /\ allowance = 0
    /\ lapsed = {}
    /\ receipts = [t \in Tx |-> "none"]
    /\ faults = 0

chain == <<escrow, allowance, lapsed, routerVars>>

JobOf(r) == <<r, runs[r].job>>

-----------------------------------------------------------------------------
(* The chain.                                                              *)

Made(r) == {n \in 1 .. MaxJobs : escrow[<<r, n>>] # "absent"}

\* Whether a transaction would go through in the present state.
Succeeds(r, key) ==
    LET j == JobOf(r) IN
    \/ key = "createJob" /\ Cardinality(Made(r)) < MaxJobs
    \/ key = "setLane" /\ LaneOpen(j)
    \/ key = "setBudget" /\ escrow[j] \in {"made", "priced"}
    \/ key = "approval"
    \/ key = "fund" /\ escrow[j] = "priced" /\ allowance = 1
    \/ key = "submit" /\ escrow[j] = "funded" /\ status[j] = "open"
    \/ /\ key = "escrowRefund" /\ escrow[j] = "funded" /\ j \in expired
       /\ status[j] \in {"open", "submitted"}

Effect(r, key) ==
    LET j == JobOf(r) IN
    \/ /\ key = "createJob"
       /\ escrow' = [escrow EXCEPT ![<<r, Cardinality(Made(r)) + 1>>] = "made"]
       /\ UNCHANGED <<allowance, lapsed, routerVars>>
    \/ /\ key = "setBudget"
       /\ escrow' = [escrow EXCEPT ![j] = "priced"]
       /\ UNCHANGED <<allowance, lapsed, routerVars>>
    \/ /\ key = "approval"
       /\ allowance' = 1
       /\ UNCHANGED <<escrow, lapsed, routerVars>>
    \/ /\ key = "fund"
       /\ escrow' = [escrow EXCEPT ![j] = "funded"] /\ allowance' = 0
       /\ UNCHANGED <<lapsed, routerVars>>
    \/ /\ \/ key = "setLane" /\ SetLane(DemoClient, j, "HumanOnly")
          \/ key = "submit" /\ SubmitDeliverable(j)
       /\ UNCHANGED <<escrow, allowance, lapsed>>
    \/ /\ key = "escrowRefund" /\ ClaimRefund(j)
       /\ lapsed' \in {lapsed, lapsed \cup {j}}
       /\ UNCHANGED <<escrow, allowance>>

Mine(t) ==
    /\ receipts[t] = "pool"
    /\ IF Succeeds(t[1], t[2])
       THEN /\ Effect(t[1], t[2])
            /\ receipts' = [receipts EXCEPT ![t] = "success"]
       ELSE /\ receipts' = [receipts EXCEPT ![t] = "reverted"]
            /\ UNCHANGED chain
    /\ UNCHANGED <<runs, at, order, faults>>

\* A node gives up a transaction it has not mined; its hash never has a receipt.
Drop(t) ==
    /\ receipts[t] = "pool"
    /\ faults < MaxFaults /\ faults' = faults + 1
    /\ receipts' = [receipts EXCEPT ![t] = "dropped"]
    /\ UNCHANGED <<runs, at, order, chain>>

\* All jobs of a run have its expiresAt.
Elapse(r) ==
    /\ runs[r].state # "absent" /\ <<r, 1>> \notin expired
    /\ expired' = expired \cup ({r} \X (1 .. MaxJobs))
    /\ UNCHANGED <<recordVars, lanes, config, owner, status, fees, runs, at, order,
                   escrow, allowance, lapsed, receipts, faults>>

\* The judge: JudgeWorker escalates the human lane and settles the other one.
JudgeActs(j) ==
    /\ status[j] = "submitted"
    /\ IF lanes[j] = "HumanOnly"
       THEN Escalate(config.oracle, j, Word)
       ELSE SubmitAIVerdict(config.oracle, j, TRUE, config.minConfidenceBP, Word)
    /\ UNCHANGED <<runs, at, order, escrow, allowance, lapsed, receipts, faults>>

\* The review service: a settled payment becomes an order, which is marked as
\* settled or refunded, or runs out of attempts.  The demo does not take its word for what is on chain.
ReviewMoves(r) ==
    /\ \/ /\ order[r] = "charged"
          /\ order' = [order EXCEPT ![r] = "active"]
       \/ /\ order[r] = "active"
          /\ \E outcome \in {"approved", "rejected", "refunded", "stuck"} :
                order' = [order EXCEPT ![r] = outcome]
    /\ UNCHANGED <<runs, at, chain, receipts, faults>>

HumanVerdict(r) ==
    /\ order[r] = "active" /\ resolutions[JobOf(r)] = "Escalated"
    /\ \E approve \in BOOLEAN :
          HumanResolve(config.humanResolver, JobOf(r), DemoClient, approve, 1, Word, Word)
    /\ UNCHANGED <<runs, at, order, escrow, allowance, lapsed, receipts, faults>>

-----------------------------------------------------------------------------
(* The rows.                                                               *)

Set(r, row) == runs' = [runs EXCEPT ![r] = row]

Leave(r) == at' = [at EXCEPT ![r] = Idle]

Transition(r, state, op) ==
    Set(r, [runs[r] EXCEPT !.state = state, !.op = op, !.error = "none"])

Completed(r, next, state) ==
    [runs[r] EXCEPT !.op = next, !.error = "none", !.state = state]

RecordTransaction(r, key, nth) ==
    Set(r, [runs[r] EXCEPT !.txs[key] = nth])

Failed(row, error) ==
    [row EXCEPT !.state = "failed", !.error = error,
        !.recovery = IF row.state # "failed" THEN row.state
                     ELSE IF @ = "absent" THEN "preparing_escrow" ELSE @]

\* The catch of processRun: fail.
Fail(r, error) ==
    /\ Set(r, Failed(runs[r], error))
    /\ Leave(r)

\* The catch of processRun: noteTransientFailure.
NoteTransientFailure(r) ==
    /\ Set(r, [runs[r] EXCEPT !.error = "other"])
    /\ Leave(r)

-----------------------------------------------------------------------------
(* processRun.  The copy of the row is read at its start and used up to its *)
(* end; what is written is written to the row as it is then.               *)

outside == <<order, chain, receipts, faults>>

NotProcessing(r) == at[r].pc = "idle"

ProcessRun(r) ==
    /\ NotProcessing(r)
    /\ runs[r].state \in Processable
    /\ at' = [at EXCEPT ![r] =
                 [Idle EXCEPT !.run = runs[r],
                    !.pc = IF runs[r].state \in {"queued", "preparing_escrow",
                                                 "purchasing_review"}
                           THEN "look" ELSE "act"]]
    /\ UNCHANGED <<runs, outside>>

Begin(r, row) == at' = [at EXCEPT ![r].run = row]

\* getBlockNumber has answered.
PrepareEscrow(r) ==
    /\ at[r].pc = "look" /\ at[r].run.state = "queued"
    /\ LET row == [runs[r] EXCEPT !.state = "preparing_escrow", !.op = "create_job",
                                  !.error = "none"]
       IN  Set(r, row) /\ Begin(r, row)
    /\ UNCHANGED outside

OnHumanLane(j) == lanes[j] = "HumanOnly"

\* What each operation asks of the chain before it does anything.
Done(run, r) ==
    LET j == <<r, run.job>> IN
    \/ run.op = "create_job" /\ Made(r) # {}
    \/ run.op = "set_human_lane" /\ OnHumanLane(j)
    \/ run.op = "set_budget" /\ escrow[j] \in {"priced", "funded"}
    \/ run.op = "approve_usdc" /\ allowance >= 1
    \/ run.op = "fund_escrow" /\ escrow[j] = "funded"
    \/ run.op = "submit_deliverable" /\ escrow[j] = "funded" /\ status[j] # "open"

Look(r) ==
    /\ at[r].pc = "look" /\ at[r].run.state = "preparing_escrow"
    /\ at' = [at EXCEPT ![r].pc = "act", ![r].done = Done(at[r].run, r)]
    /\ UNCHANGED <<runs, outside>>

Unsent(r, key) == {n \in 1 .. MaxSends : receipts[<<r, key, n>>] = "none"}

\* serializeWalletMutation and writeContract, which estimates the gas first.
Send(r, key) ==
    IF Succeeds(r, key)
    THEN \E n \in Unsent(r, key) :
            /\ n - 1 \notin Unsent(r, key)
            /\ receipts' = [receipts EXCEPT ![<<r, key, n>>] = "pool"]
            /\ at' = [at EXCEPT ![r].pc = "record", ![r].key = key, ![r].nth = n]
            /\ UNCHANGED runs
    ELSE Fail(r, "other") /\ UNCHANGED receipts

\* confirmedReceipt and the reading that follows it.  Without a receipt, pending
\* or dropped, the next sweep asks again.
AwaitReceipt(r, key, done) ==
    LET receipt == receipts[<<r, key, at[r].run.txs[key]>>] IN
    /\ IF receipt = "reverted" THEN Fail(r, "reverted")
       ELSE IF receipt \in {"pool", "dropped"} \/ done THEN Leave(r) /\ UNCHANGED runs
       ELSE Fail(r, "other")
    /\ UNCHANGED receipts

\* One operation of the preparation: it is seen to be done, or its transaction
\* is waited for, or sent.
Operation(r, op, key, row) ==
    LET run == at[r].run IN
    /\ at[r].pc = "act" /\ run.state = "preparing_escrow" /\ run.op = op
    /\ \/ /\ at[r].done
          /\ Set(r, row) /\ Leave(r)
          /\ UNCHANGED receipts
       \/ /\ ~at[r].done /\ run.txs[key] # 0
          /\ AwaitReceipt(r, key, Done(run, r))
       \/ /\ ~at[r].done /\ run.txs[key] = 0
          /\ Send(r, key)
    /\ UNCHANGED <<order, chain, faults>>

\* The first job with the tag of the run, and the hash it came with.
FindCreatedJob(row, r) ==
    [row EXCEPT !.job = 1,
                !.txs["createJob"] = IF @ # 0 THEN @ ELSE
                    CHOOSE n \in 1 .. MaxSends : receipts[<<r, "createJob", n>>] = "success"]

ProcessCreateJob(r) ==
    LET found == [FindCreatedJob(runs[r], r) EXCEPT !.op = "set_human_lane",
                                                    !.error = "none"]
    IN  Operation(r, "create_job", "createJob", found)

ProcessSetLane(r) ==
    Operation(r, "set_human_lane", "setLane",
              Completed(r, "set_budget", runs[r].state))

ProcessSetBudget(r) ==
    Operation(r, "set_budget", "setBudget",
              Completed(r, "approve_usdc", runs[r].state))

ProcessApproval(r) ==
    Operation(r, "approve_usdc", "approval",
              Completed(r, "fund_escrow", runs[r].state))

ProcessFunding(r) ==
    Operation(r, "fund_escrow", "fund",
              Completed(r, "submit_deliverable", runs[r].state))

Doing(r, op) == at[r].pc = "act" /\ at[r].run.state = "preparing_escrow" /\ at[r].run.op = op

\* The lane is read once more before the deliverable is sent.
LaneLost(r) ==
    ~at[r].done /\ at[r].run.txs["submit"] = 0 /\ ~OnHumanLane(<<r, at[r].run.job>>)

ProcessSubmission(r) ==
    /\ Doing(r, "submit_deliverable")
    /\ IF LaneLost(r)
       THEN Fail(r, "other") /\ UNCHANGED outside
       ELSE Operation(r, "submit_deliverable", "submit",
                      Completed(r, "wait_for_escalation", "awaiting_escalation"))

RecordSent(r) ==
    /\ at[r].pc = "record"
    /\ RecordTransaction(r, at[r].key, at[r].nth)
    /\ Leave(r)
    /\ UNCHANGED outside

InState(r, state) == at[r].pc = "act" /\ at[r].run.state = state

ReconcileEscalation(r) ==
    LET j == <<r, at[r].run.job>> IN
    /\ InState(r, "awaiting_escalation")
    /\ IF resolutions[j] = "Escalated"
       THEN Transition(r, "awaiting_purchase", "null") /\ Leave(r)
       ELSE IF resolutions[j] = "None" /\ j \notin expired THEN Leave(r) /\ UNCHANGED runs
       ELSE Fail(r, "other")
    /\ UNCHANGED outside

\* An order that is there is attached; otherwise one is bought.
PurchaseReview(r) ==
    /\ at[r].pc = "look" /\ at[r].run.state = "purchasing_review"
    /\ at' = [at EXCEPT ![r].pc = IF order[r] \in {"none", "charged"} THEN "act" ELSE "attach"]
    /\ UNCHANGED <<runs, outside>>

\* The answer of the review service: the order of the request, or an error
\* before or after the charge.
Pay(r) ==
    /\ InState(r, "purchasing_review")
    /\ \/ /\ order[r] # "charged"
          /\ order' = [order EXCEPT ![r] = IF @ = "none" THEN "active" ELSE @]
          /\ at' = [at EXCEPT ![r].pc = "attach"]
          /\ UNCHANGED <<runs, faults>>
       \/ /\ faults < MaxFaults /\ faults' = faults + 1
          /\ order' \in {order, [order EXCEPT ![r] = IF @ = "none" THEN "charged" ELSE @]}
          /\ NoteTransientFailure(r) \/ Fail(r, "other")
       \/ /\ order[r] = "charged"
          /\ Fail(r, "other")
          /\ UNCHANGED <<order, faults>>
    /\ UNCHANGED <<chain, receipts>>

AttachReviewOrder(r) ==
    /\ at[r].pc = "attach"
    /\ LET row == [runs[r] EXCEPT !.op = "wait_for_review", !.error = "none",
                                  !.state = "review_active"]
       IN  /\ Set(r, row)
           /\ at' = [at EXCEPT ![r] = [Idle EXCEPT !.pc = "act", !.run = row]]
    /\ UNCHANGED outside

Settled(r) == order[r] \in {"approved", "rejected"}

\* fault: the word of the review service is enough.
ProvenanceAssumed(r) == TRUE

\* The verdict on chain is the one of the order.
ProvenanceMatches(r) ==
    LET j == <<r, at[r].run.job>> IN
    \/ /\ order[r] = "approved"
       /\ status[j] = "completed" /\ resolutions[j] = "HumanCompleted"
    \/ /\ order[r] = "rejected"
       /\ status[j] = "rejected" /\ resolutions[j] = "HumanRejected"

\* An order that is settled is looked up on chain once the receipt of its
\* resolution has been found.
ReconcileReview(r) ==
    /\ InState(r, "review_active")
    /\ \/ /\ order[r] = "refunded"
          /\ Transition(r, "archived_refund_pending", "wait_for_refund_eligibility")
          /\ Leave(r)
       \/ /\ Settled(r)
          /\ Leave(r) \/ at' = [at EXCEPT ![r].pc = "verify"]
          /\ UNCHANGED runs
       \/ order[r] # "refunded" /\ ~Settled(r) /\ Leave(r) /\ UNCHANGED runs
    /\ UNCHANGED outside

\* getJob and getHumanResolution have answered.
VerifyProvenance(r) ==
    /\ at[r].pc = "verify"
    /\ IF ProvenanceMatches(r)
       THEN Transition(r, "finalized", "null") /\ Leave(r)
       ELSE Fail(r, "other")
    /\ UNCHANGED outside

-----------------------------------------------------------------------------
(* reconcileArchive.                                                       *)

Refunded(r) == Transition(r, "archived_refunded", "null")

\* Status 4, in which a reclaimed job may be shown as well.
Rejected(j) == status[j] = "rejected" \/ (status[j] = "ended" /\ j \notin lapsed)

\* No job was recorded: it is looked for, or its transaction is waited for.
ArchiveWithoutJob(r) ==
    LET run == at[r].run IN
    /\ InState(r, "archived_refund_pending") /\ run.job = 0
    /\ \/ /\ Made(r) # {}
          /\ Set(r, FindCreatedJob(runs[r], r)) /\ Leave(r)
          /\ UNCHANGED receipts
       \/ /\ Made(r) = {} /\ run.txs["createJob"] # 0
          /\ AwaitReceipt(r, "createJob", FALSE)
       \/ /\ Made(r) = {} /\ run.txs["createJob"] = 0
          /\ Refunded(r) /\ Leave(r)
          /\ UNCHANGED receipts
    /\ UNCHANGED <<order, chain, faults>>

\* fault: an open job is taken for one that was never funded.
NothingSent(run) == TRUE

NeverFunded(run) == run.txs["fund"] = 0

ReconcileArchive(r) ==
    LET run == at[r].run
        j == <<r, run.job>>
    IN
    /\ InState(r, "archived_refund_pending") /\ run.job # 0
    /\ \/ status[j] = "completed" /\ Fail(r, "other") /\ UNCHANGED receipts
       \/ /\ Rejected(j) \/ (escrow[j] # "funded" /\ NeverFunded(run))
          /\ Refunded(r) /\ Leave(r) /\ UNCHANGED receipts
       \/ escrow[j] # "funded" /\ ~NeverFunded(run) /\ AwaitReceipt(r, "fund", FALSE)
       \/ /\ escrow[j] = "funded" /\ status[j] # "completed" /\ ~Rejected(j)
          /\ IF j \notin expired THEN Leave(r) /\ UNCHANGED <<runs, receipts>>
             ELSE IF run.txs["escrowRefund"] # 0 THEN AwaitReceipt(r, "escrowRefund", TRUE)
             ELSE Send(r, "escrowRefund")
    /\ UNCHANGED <<order, chain, faults>>

-----------------------------------------------------------------------------
(* The operator, through the routes of app.ts.                             *)

NoActiveRun == \A r \in Runs : runs[r].state \notin Active

NewRun == [NoRow EXCEPT !.state = "queued", !.op = "initialize"]

\* A request that already has its run gets that one.
CreateRun(r) ==
    /\ runs[r].state = "absent"
    /\ NoActiveRun
    /\ Set(r, NewRun)
    /\ UNCHANGED <<at, outside>>

Purchase(r) ==
    /\ runs[r].state = "awaiting_purchase"
    /\ Transition(r, "purchasing_review", "purchase_review")
    /\ UNCHANGED <<at, outside>>

HasOrder(r) == order[r] \notin {"none", "charged"}

RetryableTransaction ==
    {<<"create_job", "createJob">>, <<"set_human_lane", "setLane">>,
     <<"set_budget", "setBudget">>, <<"approve_usdc", "approval">>, <<"fund_escrow", "fund">>,
     <<"submit_deliverable", "submit">>, <<"wait_for_refund_eligibility", "escrowRefund">>}

RecoveryOperation(recovery, op) ==
    CASE recovery = "preparing_escrow"        -> IF op = "null" THEN "create_job" ELSE op
      [] recovery = "awaiting_escalation"     -> "wait_for_escalation"
      [] recovery = "purchasing_review"       -> "purchase_review"
      [] recovery = "review_active"           -> "wait_for_review"
      [] recovery = "archived_refund_pending" -> "wait_for_refund_eligibility"
      [] OTHER -> "null"

Retryable(r) == runs[r].state = "failed"

\* retryableCircleOperation, circleRetriesExhausted.
Exhausted(r) == order[r] = "stuck"

\* resumeCircleOperation: an order whose attempts are exhausted goes on.
RetryReview(r) ==
    /\ runs[r].state # "absent" /\ Exhausted(r)
    /\ order' = [order EXCEPT ![r] = "active"]
    /\ UNCHANGED <<runs, at, chain, receipts, faults>>

\* The hash of the transaction that the operation of the run had sent is deleted.
ClearTransaction(row) ==
    [k \in Keys |-> IF <<row.op, k>> \in RetryableTransaction THEN 0 ELSE row.txs[k]]

\* A reverted transaction is forgotten, and the run goes on where it failed.
Retry(r) ==
    /\ Retryable(r) /\ ~Exhausted(r)
    /\ LET row == runs[r]
           recovery == IF HasOrder(r) /\ row.recovery = "purchasing_review"
                       THEN "review_active" ELSE row.recovery
       IN  Set(r, [row EXCEPT
                !.state = recovery, !.op = RecoveryOperation(recovery, @), !.error = "none",
                !.txs = IF row.error = "reverted" THEN ClearTransaction(row) ELSE @])
    /\ UNCHANGED <<at, outside>>

\* fault: any run that has not ended may be archived.
ArchivableAnyTime(r) == runs[r].state \in Active \cup {"failed"}

Archivable(r) == runs[r].state \in {"failed", "awaiting_purchase"}

Archive(r) ==
    /\ Archivable(r)
    /\ ~HasOrder(r)
    /\ IF runs[r].job = 0 /\ runs[r].txs["createJob"] = 0
       THEN Refunded(r)
       ELSE Transition(r, "archived_refund_pending", "wait_for_refund_eligibility")
    /\ UNCHANGED <<at, outside>>

-----------------------------------------------------------------------------
(* Faults.                                                                 *)

\* A call fails, in a way that passes or not; a send may have gone out.
CallFails(r) ==
    /\ at[r].pc # "idle" /\ at[r].pc # "attach"
    /\ at[r].run.state # "purchasing_review"
    /\ faults < MaxFaults /\ faults' = faults + 1
    /\ NoteTransientFailure(r) \/ Fail(r, "other")
    /\ UNCHANGED <<order, chain, receipts>>

\* The process dies and is started again; only the rows are left.
Crash ==
    /\ \E r \in Runs : at[r].pc # "idle"
    /\ faults < MaxFaults /\ faults' = faults + 1
    /\ at' = [r \in Runs |-> Idle]
    /\ UNCHANGED <<runs, order, chain, receipts>>

Step(r) ==
    \/ ProcessRun(r) \/ PrepareEscrow(r) \/ Look(r) \/ ProcessCreateJob(r)
    \/ ProcessSetLane(r) \/ ProcessSetBudget(r) \/ ProcessApproval(r)
    \/ ProcessFunding(r) \/ ProcessSubmission(r) \/ RecordSent(r)
    \/ ReconcileEscalation(r) \/ PurchaseReview(r) \/ Pay(r) \/ AttachReviewOrder(r)
    \/ ReconcileReview(r) \/ VerifyProvenance(r) \/ ArchiveWithoutJob(r) \/ ReconcileArchive(r)

Operator(r) ==
    CreateRun(r) \/ Purchase(r) \/ RetryReview(r) \/ Retry(r) \/ Archive(r)

Next ==
    \/ \E r \in Runs : Step(r) \/ Operator(r) \/ CallFails(r) \/ Elapse(r)
                     \/ ReviewMoves(r) \/ HumanVerdict(r)
    \/ \E t \in Tx : Mine(t) \/ Drop(t)
    \/ \E j \in Jobs : JudgeActs(j)
    \/ Crash

Spec == DemoInit /\ [][Next]_demoVars

-----------------------------------------------------------------------------
(* What the demo must keep.                                                *)

(***************************************************************************)
(* The copy of a row that an awaited step works with is the row: between   *)
(* the reading and the writing nobody else changes the run, neither an     *)
(* overlapping sweep nor an operator's retry or archive.                   *)
(***************************************************************************)
NobodyElseWrites == \A r \in Runs : at[r].pc # "idle" => at[r].run = runs[r]

\* A funding transaction that went out, and whose hash the row does not hold.
UnrecordedFund(r) ==
    \E n \in 1 .. MaxSends : /\ receipts[<<r, "fund", n>>] \in {"pool", "success"}
                             /\ runs[r].txs["fund"] # n

\* The escrow holds, or may yet hold, a budget of the run.
Held(r) ==
    \/ \E n \in 1 .. MaxJobs : /\ escrow[<<r, n>>] = "funded"
                               /\ status[<<r, n>>] \in {"open", "submitted"}
    \/ \E n \in 1 .. MaxSends : receipts[<<r, "fund", n>>] = "pool" /\ Succeeds(r, "fund")

(***************************************************************************)
(* "The run was archived before human review. The escrow was refunded."    *)
(* (app/app/components/demo-ui.tsx:1005): unless the hash of a funding     *)
(* transaction was lost, neither a pending fund nor a second job, neither  *)
(* a crash nor a retry leaves a budget in the escrow of such a run.        *)
(***************************************************************************)
ArchivedUnlessFundLost ==
    \A r \in Runs : runs[r].state = "archived_refunded" =>
                       ~Held(r) \/ UnrecordedFund(r)

(***************************************************************************)
(* A finalized run is one whose review is settled and whose escrow has     *)
(* been paid out as the reviewer decided.                                  *)
(***************************************************************************)
FinalizedMeansSettled ==
    \A r \in Runs : runs[r].state = "finalized" =>
        \/ order[r] = "approved" /\ status[JobOf(r)] = "completed"
        \/ order[r] = "rejected" /\ status[JobOf(r)] = "rejected"

(***************************************************************************)
(* "HumanOnly must be on-chain before the judge can observe it" (demo.ts): *)
(* whatever is lost, repeated or retried, the judge never settles a job of *)
(* the demo.                                                               *)
(***************************************************************************)
HumansDecide == \A j \in Jobs : resolutions[j] \notin AutoResolutions

(***************************************************************************)
(* What the demo goes on to submit and to have judged is funded: no lost   *)
(* answer, revert, crash or retry makes it skip a step.                    *)
(***************************************************************************)
PreparedMeansFunded ==
    \A r \in Runs :
        runs[r].op \in {"submit_deliverable", "wait_for_escalation", "purchase_review"}
            => escrow[JobOf(r)] = "funded"

(***************************************************************************)
(* What the row of a run says is so on chain: prepared means funded, an    *)
(* escalated job is left to the human, and finalized means settled.        *)
(***************************************************************************)
RunsTellTheTruth ==
    DemoTypeOK /\ PreparedMeansFunded /\ HumansDecide /\ FinalizedMeansSettled

-----------------------------------------------------------------------------
(* Liveness.                                                               *)

(***************************************************************************)
(* Fairness.  Sweeps go on; blocks are made as long as transactions are in *)
(* the pool; the judge runs; time passes.  Nothing is assumed of operators *)
(* and reviewers.                                                          *)
(***************************************************************************)
FairSpec ==
    /\ Spec
    /\ \A r \in Runs : WF_demoVars(Step(r)) /\ WF_demoVars(Elapse(r))
    /\ WF_demoVars(\E t \in Tx : Mine(t))
    /\ WF_demoVars(\E j \in Jobs : JudgeActs(j))

\* What each sweep asks a receipt for, as it does not see the effect.
WaitsFor(r, key) ==
    LET row == runs[r] IN
    /\ row.txs[key] # 0
    /\ \/ /\ row.state = "preparing_escrow"
          /\ <<row.op, key>> \in RetryableTransaction /\ ~Done(row, r)
       \/ /\ row.state = "archived_refund_pending"
          /\ \/ key = "createJob" /\ row.job = 0 /\ Made(r) = {}
             \/ key = "fund" /\ row.job # 0 /\ escrow[JobOf(r)] # "funded"
             \/ /\ key = "escrowRefund" /\ escrow[JobOf(r)] = "funded"
                /\ status[JobOf(r)] \in {"open", "submitted"}

WaitsForDropped(r) ==
    \E key \in Keys : /\ WaitsFor(r, key)
                      /\ receipts[<<r, key, runs[r].txs[key]>>] = "dropped"

\* The budget is back with the client, in a job whose status is not 4.
ReclaimedUnseen(r) == JobOf(r) \in lapsed

\* The run is the sweeps' to move: before its purchase, and after its archive.
Underway(r) ==
    runs[r].state \in {"queued", "preparing_escrow", "awaiting_escalation",
                      "archived_refund_pending"}

(***************************************************************************)
(* A run that has been started gets as far as the purchase, and one that   *)
(* was archived to its refund ("Escrow refunded", app/app/lib/demo.ts:157),*)
(* or it fails where an operator sees it: no lost answer, revert, crash or *)
(* dropped transaction makes it wait for something that will not come.     *)
(* Two waits have no end, and are named: for the receipt of a recorded     *)
(* transaction that was dropped before its effect, and for status 4 of a   *)
(* reclaimed job in another status.                                        *)
(***************************************************************************)
RunsMoveOn ==
    \A r \in Runs :
        Underway(r) ~> ~Underway(r) \/ WaitsForDropped(r) \/ ReclaimedUnseen(r)

Reclaimed(r) == \E j \in Jobs : j = JobOf(r) /\ status[j] = "ended"

(***************************************************************************)
(* What the test "keeps x402 and escrow refunds separate until the escrow  *)
(* is reclaimed" (core/src/review/demo.test.ts:548) says: once the escrow  *)
(* of an archived run is reclaimed, the run is archived_refunded.  It may  *)
(* fail instead, where an operator sees it.                                *)
(***************************************************************************)
ReclaimedRunsEnd ==
    \A r \in Runs :
        runs[r].state = "archived_refund_pending" /\ Reclaimed(r)
            ~> runs[r].state \in {"archived_refunded", "failed"}
=============================================================================
