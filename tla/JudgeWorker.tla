---------------------------- MODULE JudgeWorker -----------------------------
(***************************************************************************)
(* The AI judge of core/src: index.ts polls the submitted jobs (watcher.ts *)
(* with its cursor on disk), reads the lane, judges, gates the verdict     *)
(* (validate.ts), publishes the evidence and submits the decision to the   *)
(* EvaluationRouter.                                                       *)
(* Every action below is what the worker does between two awaits, or what  *)
(* the chain, the clients and the operating system do meanwhile.           *)
(***************************************************************************)
EXTENDS EvaluationRouter

CONSTANTS
    BlockRange,   \* DEFAULT_BLOCK_RANGE
    Attempts,     \* publication attempts of publishAIEvidence
    HumanLane,    \* HUMAN_LANE_REASON_HASH
    HumanEvidence,\* the evidence of whatever a human decides
    MaxBlock,     \* bound on the blocks of the chain
    MaxJudgements,\* bound on the decisions of one job, its evidence included
    MaxMoves,     \* bound on what client, clock and human do to each job
    MaxFaults     \* bound on failed calls, restarts and stops

ASSUME JudgeAssumption ==
    /\ {BlockRange, Attempts, MaxBlock, MaxJudgements} \subseteq Nat \ {0}
    /\ MaxFaults \in Nat
    /\ {HumanLane, HumanEvidence} \subseteq Evidence
    /\ HumanLane # HumanEvidence
    /\ Jobs \X (1 .. MaxJudgements) \subseteq Evidence
    /\ MaxMoves \in [Jobs -> Nat]

VARIABLES
    block,      \* latest block
    logged,     \* block of each JobSubmitted event, 0 before
    cursor,     \* data/state.json: nextBlock, 0 when there is no file
    origin,     \* the first block ever checkpointed, 0 before
    pass,       \* the poll: where it is, its range, its logs, its job
    judged,     \* how many times each job was judged
    published,  \* evidence the review service has acknowledged or stored
    pending,    \* transactions of the oracle that are not yet in a block
    mined,      \* the receipt the worker is waiting for, once it is there
    stopping,   \* a signal has come
    moves,
    faults

chainVars == <<block, logged, moves>>

workerVars == <<cursor, origin, pass, judged, stopping>>

judgeVars == <<routerVars, chainVars, workerVars, published, pending, mined, faults>>

\* A transaction of the oracle: the call and its arguments.
Decision ==
    [job : Jobs, nth : 1 .. MaxJudgements, action : {"settle", "escalate"},
     approve : BOOLEAN, hash : Evidence]

NoDecision == [job |-> Nothing]

\* at: the await the worker is in; todo: the jobs of the logs that are still to
\* be looked at; job: the one in hand; tries: publication attempts.
Pass(at) == [at |-> at, from |-> 0, to |-> 0, latest |-> 0, todo |-> {},
             job |-> Nothing, decision |-> NoDecision, tries |-> 0]

Stages == {"sleep", "logs", "job", "judging", "publishing", "sending",
           "receipt", "stopped"}

Passes == [at : Stages, from : 0 .. MaxBlock + 1, to : 0 .. MaxBlock,
           latest : 0 .. MaxBlock, todo : SUBSET Jobs, job : Jobs \cup {Nothing},
           decision : Decision \cup {NoDecision}, tries : 0 .. Attempts - 1]

JudgeTypeOK ==
    /\ block \in 1 .. MaxBlock
    /\ logged \in [Jobs -> 0 .. MaxBlock]
    /\ cursor \in 0 .. MaxBlock + 1 /\ origin \in 0 .. MaxBlock
    /\ origin # 0 <=> cursor # 0
    /\ pass \in Passes
    /\ judged \in [Jobs -> 0 .. MaxJudgements]
    /\ published \subseteq Evidence
    /\ pending \subseteq Decision /\ mined \subseteq Decision
    /\ stopping \in BOOLEAN

JudgeInit ==
    /\ RouterInit
    /\ block = 1
    /\ logged = [j \in Jobs |-> 0]
    /\ cursor = 0 /\ origin = 0
    /\ pass = Pass("sleep")
    /\ judged = [j \in Jobs |-> 0]
    /\ published = {} /\ pending = {} /\ mined = {}
    /\ stopping = FALSE
    /\ moves = [j \in Jobs |-> 0] /\ faults = 0

-----------------------------------------------------------------------------
(* The chain and the clients.                                              *)

outsideVars == <<workerVars, published, pending, mined, faults>>

Mine ==
    /\ block < MaxBlock
    /\ block' = block + 1
    /\ UNCHANGED <<routerVars, logged, moves, outsideVars>>

\* The event is in the block being built.
SubmitJob(j) ==
    /\ block < MaxBlock
    /\ SubmitDeliverable(j)
    /\ logged' = [logged EXCEPT ![j] = block + 1]
    /\ UNCHANGED <<block, moves, outsideVars>>

Moves(j) ==
    /\ moves[j] < MaxMoves[j]
    /\ moves' = [moves EXCEPT ![j] = @ + 1]
    /\ UNCHANGED <<block, logged, outsideVars>>

ChangeLane(j) ==
    /\ \E l \in Lanes \ {lanes[j]} : SetLane(Client[j], j, l)
    /\ Moves(j)

OtherMoves(j) ==
    /\ \/ Expires(j) \/ ClaimRefund(j)
       \/ HumanResolve(config.humanResolver, j, Client[j], FALSE, 1,
                       HumanEvidence, HumanEvidence)
    /\ Moves(j)

\* A transaction is included: what the router does of it, or a revert.
Include(t) ==
    /\ t \in pending
    /\ pending' = pending \ {t}
    /\ \/ /\ \/ /\ t.action = "settle"
                /\ SubmitAIVerdict(config.oracle, t.job, t.approve,
                                   config.minConfidenceBP, t.hash)
             \/ /\ t.action = "escalate"
                /\ Escalate(config.oracle, t.job, t.hash)
          /\ mined' = IF t = pass.decision THEN {t} ELSE mined
       \/ /\ IF t.action = "settle"
             THEN \/ resolutions[t.job] # "None" \/ lanes[t.job] = "HumanOnly"
                  \/ ~CheckedJob(t.job) \/ t.job \in expired
             ELSE resolutions[t.job] # "None"
          /\ UNCHANGED <<routerVars, mined>>
    /\ UNCHANGED <<chainVars, workerVars, published, faults>>

-----------------------------------------------------------------------------
(* The worker.                                                             *)

insideVars == <<routerVars, chainVars>>

GoesWrong ==
    /\ faults < MaxFaults
    /\ faults' = faults + 1

\* fault: the first block of a range is taken to be dealt with already.
LogsAfter(from, to) == {j \in Jobs : logged[j] \in from + 1 .. to}

LogsOf(from, to) == {j \in Jobs : logged[j] \in from .. to}

\* getBlockNumber, readNextBlock, and the first range.  Without one the poll is
\* over, a success that changes nothing here.
StartPass ==
    /\ pass.at = "sleep" /\ ~stopping
    /\ LET first == IF cursor = 0 THEN block ELSE cursor
       IN  /\ first <= block
           /\ pass' = [Pass("logs") EXCEPT !.from = first, !.latest = block]
    /\ UNCHANGED <<insideVars, cursor, origin, judged, stopping, published, pending,
                   mined, faults>>

LastOf(from, latest) ==
    IF from + BlockRange - 1 > latest THEN latest ELSE from + BlockRange - 1

GetLogs ==
    /\ pass.at = "logs"
    /\ LET to == LastOf(pass.from, pass.latest)
       IN  pass' = [pass EXCEPT !.at = "job", !.to = to, !.todo = LogsOf(pass.from, to)]
    /\ UNCHANGED <<insideVars, cursor, origin, judged, stopping, published,
                   pending, mined, faults>>

\* getJob and resolutions: whether the generator yields the job.
ToBeJudged(j) ==
    /\ j \in Evaluated /\ status[j] = "submitted"
    /\ resolutions[j] = "None"

\* The logs come in the order of their blocks; within a block the order of the
\* events decides, which may be any.
NextLog(j) ==
    /\ j \in pass.todo
    /\ \A k \in pass.todo : logged[j] <= logged[k]

SkipJob ==
    /\ pass.at = "job"
    /\ \E j \in Jobs :
          /\ NextLog(j) /\ ~ToBeJudged(j)
          /\ pass' = [pass EXCEPT !.todo = @ \ {j}]
    /\ UNCHANGED <<insideVars, cursor, origin, judged, stopping, published,
                   pending, mined, faults>>

\* readReviewLane.  On the human lane the model is not asked and the fixed
\* reason is submitted; its evidence stays on the worker's disk.
TakeJob ==
    /\ pass.at = "job"
    /\ \E j \in Jobs :
          /\ NextLog(j) /\ ToBeJudged(j)
          /\ judged[j] < MaxJudgements
          /\ judged' = [judged EXCEPT ![j] = @ + 1]
          /\ pass' = IF lanes[j] = "HumanOnly"
                     THEN [pass EXCEPT !.at = "sending", !.job = j,
                               !.decision = [job |-> j, nth |-> judged[j] + 1,
                                             action |-> "escalate", approve |-> FALSE,
                                             hash |-> HumanLane]]
                     ELSE [pass EXCEPT !.at = "judging", !.job = j]
    /\ UNCHANGED <<insideVars, cursor, origin, stopping, published,
                   pending, mined, faults>>

\* What loadDeliverable finds and what the model says of a deliverable that
\* is in order; "unsure" is below the confidence or no verdict at all.
DeliverableStatus == {"ok", "missing", "oversized", "hash-mismatch"}

Verdicts == {"approve", "reject", "injection", "unsure"}

\* validateDecision.
MaySettle(j, deliverable, verdict) ==
    /\ deliverable = "ok"
    /\ verdict \in {"approve", "reject"}
    /\ Budget[j] <= config.autoSettleCap
    /\ j \notin expired

\* processJob on the AI lane, up to the evidence.
Judge ==
    /\ pass.at = "judging"
    /\ LET j == pass.job IN
       \E deliverable \in DeliverableStatus, verdict \in Verdicts :
          LET settle == MaySettle(j, deliverable, verdict) IN
          pass' = [pass EXCEPT !.at = "publishing",
                     !.decision = [job |-> j, nth |-> judged[j],
                                   action |-> IF settle THEN "settle" ELSE "escalate",
                                   approve |-> settle /\ verdict = "approve",
                                   hash |-> <<j, judged[j]>>]]
    /\ UNCHANGED <<insideVars, cursor, origin, judged, stopping, published, pending,
                   mined, faults>>

\* storeAIEvidence: an insert under the hash, or what is there already.
StoreAIEvidence(hash) == published \cup {hash}

\* fault: the acknowledgement is not waited for.
PublishLate ==
    /\ pass.at = "publishing"
    /\ pass' = [pass EXCEPT !.at = "sending"]
    /\ UNCHANGED <<insideVars, cursor, origin, judged, stopping, published,
                   pending, mined, faults>>

\* publishAIEvidence: one attempt is acknowledged.
Publish ==
    /\ pass.at = "publishing"
    /\ published' = StoreAIEvidence(pass.decision.hash)
    /\ pass' = [pass EXCEPT !.at = "sending", !.tries = 0]
    /\ UNCHANGED <<insideVars, cursor, origin, judged, stopping, pending,
                   mined, faults>>

\* fault: a failed job is left behind and the pass goes on.
AbandonJob == pass' = [pass EXCEPT !.at = "job", !.todo = @ \ {pass.job}]

\* safelyProcessJob returns false: the pass ends without its checkpoint.
Abandon == pass' = Pass("sleep")

AttemptsLeft == pass.tries + 1 < Attempts

\* An attempt fails or is not heard of; the last one, or a refusal that is
\* not to be repeated, fails the job.
PublishFails ==
    /\ pass.at = "publishing"
    /\ GoesWrong
    /\ published' \in {published, StoreAIEvidence(pass.decision.hash)}
    /\ \/ /\ pass.tries + 1 < Attempts
          /\ pass' = [pass EXCEPT !.tries = @ + 1]
       \/ Abandon
    /\ UNCHANGED <<insideVars, cursor, origin, judged, stopping, pending, mined>>

\* sendTransaction and waitForTransactionReceipt.
Send ==
    /\ pass.at = "sending"
    /\ pending' = pending \cup {pass.decision}
    /\ pass' = [pass EXCEPT !.at = "receipt"]
    /\ UNCHANGED <<insideVars, cursor, origin, judged, stopping, published,
                   mined, faults>>

Confirmed ==
    /\ pass.at = "receipt" /\ pass.decision \in mined
    /\ pass' = [pass EXCEPT !.at = "job", !.todo = @ \ {pass.job}, !.job = Nothing,
                           !.decision = NoDecision]
    /\ mined' = {}
    /\ UNCHANGED <<insideVars, cursor, origin, judged, stopping, published,
                   pending, faults>>

Reverted ==
    /\ pass.at = "receipt" /\ pass.decision \notin mined \cup pending
    /\ Abandon
    /\ UNCHANGED <<insideVars, cursor, origin, judged, stopping, published,
                   pending, mined, faults>>

\* A call fails: of the RPC, of the model, of the oracle's transaction, which
\* may have been broadcast all the same, or the wait for its receipt.
CallFails ==
    /\ pass.at \in {"logs", "job", "judging", "sending", "receipt"}
    /\ GoesWrong
    /\ pending' \in {pending} \cup
          (IF pass.at = "sending" THEN {pending \cup {pass.decision}} ELSE {})
    /\ Abandon
    /\ mined' = {}
    /\ UNCHANGED <<insideVars, cursor, origin, judged, stopping, published>>

\* fault: a poll is one range.
OneRange == FALSE

MoreRanges == pass.to + 1 <= pass.latest

\* writeNextBlock, atomic by rename; the last range makes the poll a success.
Checkpoint ==
    /\ pass.at = "job" /\ pass.todo = {}
    /\ cursor' = pass.to + 1
    /\ origin' = IF origin = 0 THEN pass.from ELSE origin
    /\ pass' = IF MoreRanges THEN [pass EXCEPT !.at = "logs", !.from = pass.to + 1]
               ELSE Pass("sleep")
    /\ UNCHANGED <<insideVars, judged, stopping, published, pending, mined, faults>>

\* SIGINT, SIGTERM: the pass in hand is finished.
Signal ==
    /\ ~stopping
    /\ GoesWrong
    /\ stopping' = TRUE
    /\ UNCHANGED <<insideVars, cursor, origin, pass, judged, published, pending, mined>>

Stop ==
    /\ stopping /\ pass.at = "sleep"
    /\ pass' = Pass("stopped")
    /\ UNCHANGED <<insideVars, cursor, origin, judged, stopping, published,
                   pending, mined, faults>>

Boot ==
    /\ pass.at = "stopped"
    /\ pass' = Pass("sleep") /\ stopping' = FALSE
    /\ UNCHANGED <<insideVars, cursor, origin, judged, published, pending,
                   mined, faults>>

Crash ==
    /\ pass.at # "stopped"
    /\ GoesWrong
    /\ pass' = Pass("stopped")
    /\ mined' = {}
    /\ UNCHANGED <<insideVars, cursor, origin, judged, stopping, published, pending>>

WorkerStep ==
    \/ StartPass \/ GetLogs \/ SkipJob \/ TakeJob \/ Judge \/ Publish \/ Send
    \/ Confirmed \/ Reverted \/ Checkpoint \/ Stop \/ Boot

Next ==
    \/ Mine
    \/ \E j \in Jobs : SubmitJob(j) \/ ChangeLane(j) \/ OtherMoves(j)
    \/ \E t \in pending : Include(t)
    \/ WorkerStep
    \/ PublishFails \/ CallFails \/ Signal \/ Crash

Spec == JudgeInit /\ [][Next]_judgeVars

-----------------------------------------------------------------------------
(* What the judge must keep.                                               *)

\* The job has its resolution, or is no longer waiting for one.
Decided(j) == resolutions[j] # "None" \/ status[j] # "submitted"

(***************************************************************************)
(* The cursor never passes a job that still waits for its verdict: across  *)
(* failures, crashes and stops whatever was submitted since the first      *)
(* checkpoint is decided before its block is left behind.                  *)
(***************************************************************************)
NothingPassedOver ==
    \A j \in Evaluated :
        logged[j] # 0 /\ origin <= logged[j] /\ logged[j] < cursor => Decided(j)

(***************************************************************************)
(* The AI evidence that stands on chain, or is on its way, is held by the  *)
(* review service (README: "does not submit the settlement or escalation   *)
(* until the evidence service acknowledges the hash").                     *)
(***************************************************************************)
EvidenceIsPublished ==
    \A e \in {evidence[j] : j \in Jobs} \cup {t.hash : t \in pending} :
        e \in {Nothing, HumanLane, HumanEvidence} \cup published

\* With the types of everything the worker and the chain keep.
EvidenceInv == JudgeTypeOK /\ EvidenceIsPublished

(***************************************************************************)
(* A poll counts as successful, and the judge as healthy for a while after *)
(* it, only when everything submitted up to the block it began at is       *)
(* decided: a healthy judge has no backlog.                                *)
(***************************************************************************)
HealthyMeansCaughtUp ==
    [][(pass.at = "job" /\ pass'.at = "sleep" /\ cursor' # cursor) =>
          \A j \in Evaluated :
             logged[j] # 0 /\ origin' <= logged[j] /\ logged[j] <= pass.latest
                => Decided(j)]_judgeVars

(***************************************************************************)
(* Fairness.  The worker runs and is started again, and a transaction that *)
(* was sent is included or refused.  Calls fail only so often (MaxFaults), *)
(* and clients change lanes only so often (MaxMoves).                      *)
(***************************************************************************)
FairSpec ==
    /\ Spec
    /\ WF_judgeVars(WorkerStep)
    /\ WF_judgeVars(\E t \in pending : Include(t))
    /\ WF_judgeVars(Mine)

(***************************************************************************)
(* With a cursor on disk, every job that is submitted from then on is      *)
(* decided in the end.                                                     *)
(***************************************************************************)
JobsAreDecided ==
    \A j \in Evaluated :
        (cursor # 0 /\ logged[j] >= cursor) ~> Decided(j)

=============================================================================
