-------------------------- MODULE DashboardSnapshot --------------------------
(***************************************************************************)
(* core/src/review/dashboard-snapshot.ts: the index the dashboard is       *)
(* served from.  One refresh sweeps the events up to a head, then reads    *)
(* jobs, lanes, resolutions and evidence at whatever head the chain has by *)
(* then, and stores feed and review queue as one row of the database.  The *)
(* chain is EvaluationRouter with its log: a transaction is a block.       *)
(***************************************************************************)
EXTENDS EvaluationRouter, Sequences, FiniteSetsExt

CONSTANTS
    Slots,        \* refreshes that could be in flight in one process: 1, 2, ...
    Pinned,       \* jobs of orders and demo runs, and of DEMO_JOB_IDS
    Reasons,      \* the hashes jobs are escalated with
    Lookback,     \* logLookbackBlocks, in blocks
    StaleAfter,   \* staleAfterMs, in ticks of the clock
    MaxBlock,     \* bound: blocks mined
    MaxFailures   \* bound: refreshes that fail or die with their process

ASSUME DashboardAssumption ==
    /\ Slots \subseteq Nat /\ Pinned \subseteq Jobs
    /\ Reasons \subseteq Evidence
    /\ Lookback \in Nat /\ StaleAfter \in Nat
    /\ MaxBlock \in Nat /\ MaxFailures \in Nat

VARIABLES
    log,        \* the events of the two contracts, one of each block
    refresh,    \* the refreshes in flight
    stored,     \* the row of dashboard_chain_snapshots
    age,        \* ticks since its indexedAt, as far as deriveStatus can tell
    running,    \* the interval timer is set
    failures

indexVars == <<refresh, stored, age, running, failures>>

dashboardVars == <<routerVars, log, indexVars>>

VerdictEvents == {"AIVerdict", "Escalated", "HumanVerdict"}

EventNames == {"JobSubmitted", "LaneSet"} \cup VerdictEvents

\* A block without an event of the two contracts.
Quiet == [name |-> "none", job |-> Nothing, arg |-> Nothing]

Event == [name : EventNames, job : Jobs, arg : Evidence \cup Lanes \cup {Nothing}] \cup {Quiet}

NoBlock == -1

Idle == [phase |-> "idle"]

\* What getSnapshot answers with before a row is stored.
InitialSnapshot == [status |-> "syncing", head |-> NoBlock, feed |-> <<>>, queue |-> <<>>]

FeedRow == [status : JobStatus, lane : {"AI", "human"}, receipt : BOOLEAN,
            provenance : {"none", "AI auto", "escalated", "human"}]

MapOf(map, S) == DOMAIN map \subseteq Jobs /\ \A j \in DOMAIN map : map[j] \in S

DashboardTypeOK ==
    /\ RouterTypeOK
    /\ log \in Seq(Event)
    /\ \A s \in Slots :
          \/ refresh[s] = Idle
          \/ /\ refresh[s].phase \in {"swept", "jobs", "lanes", "rows"}
             /\ refresh[s].head \in 0..Len(log)
             /\ refresh[s].phase \in {"lanes", "rows"} => MapOf(refresh[s].rows, FeedRow)
    /\ stored.status \in {"syncing", "ready", "degraded"}
    /\ stored.head \in {NoBlock} \cup 0..Len(log)
    /\ MapOf(stored.feed, FeedRow)
    /\ MapOf(stored.queue, Evidence)
    /\ age \in 0..(StaleAfter + 1)
    /\ running \in BOOLEAN
    /\ failures \in 0..MaxFailures

DashboardInit ==
    /\ RouterInit
    /\ log = <<>>
    /\ refresh = [s \in Slots |-> Idle]
    /\ stored = InitialSnapshot
    /\ age = 0
    /\ running = TRUE
    /\ failures = 0

-----------------------------------------------------------------------------
(* The chain.                                                              *)

Mine(name, j, arg) ==
    /\ Len(log) < MaxBlock
    /\ log' = Append(log, [name |-> name, job |-> j, arg |-> arg])
    /\ UNCHANGED indexVars

\* A verdict mines JobCompleted or JobRejected too: the same job and block.
ChainStep(a, j) ==
    \/ SubmitDeliverable(j) /\ Mine("JobSubmitted", j, Nothing)
    \/ \E l \in Lanes \ {lanes[j]} : SetLane(a, j, l) /\ Mine("LaneSet", j, l)
    \/ \E r \in Reasons : Escalate(a, j, r) /\ Mine("Escalated", j, r)
    \/ \E ok \in BOOLEAN, e \in Evidence \ Reasons, payout \in Evidence \cup {Nothing} :
          \/ /\ SubmitAIVerdict(a, j, ok, config.minConfidenceBP, e)
             /\ Mine("AIVerdict", j, e)
          \/ /\ HumanResolve(a, j, a, ok, 1, e, payout)
             /\ Mine("HumanVerdict", j, e)
    \/ /\ Expires(j) \/ ClaimRefund(j)
       /\ UNCHANGED <<log, indexVars>>

\* Blocks of other contracts, and of the router's owner.
QuietBlock ==
    /\ Len(log) < MaxBlock
    /\ log' = Append(log, Quiet)
    /\ \/ UNCHANGED routerVars
       \/ \E c \in Configs : SetConfig(owner, c)
       \/ \E a \in Accounts : TransferOwnership(owner, a)
       \/ Sweep(owner)
    /\ UNCHANGED indexVars

-----------------------------------------------------------------------------
(* What the events of a sweep say.                                         *)

\* fromBlock..latestBlock: a log of a block once mined does not change.
Window(head) == {b \in 1..head : b >= head - Lookback}

Swept(head, j, names) == {b \in Window(head) : log[b].job = j /\ log[b].name \in names}

\* latestByJob, of the events of some names.
LatestOf(head, j, names) == log[Max(Swept(head, j, names))]

ProvenanceOf(name) ==
    CASE name = "HumanVerdict" -> "human"
      [] name = "Escalated" -> "escalated"
      [] name = "AIVerdict" -> "AI auto"

LaneName(lane) == IF lane = "HumanOnly" THEN "human" ELSE "AI"

\* fault: every candidate has an event of its own.
CandidatesFromEvents(head, rows) == {j \in Jobs : Swept(head, j, {"Escalated"}) # {}}

Candidates(head, rows) ==
    {j \in Jobs :
        /\ Swept(head, j, {"HumanVerdict"}) = {}
        /\ \/ Swept(head, j, {"Escalated"}) # {}
           \/ j \in DOMAIN rows /\ rows[j].provenance = "escalated"}

\* The event's reason, else what evidence(jobId) answers by now.  An order keeps
\* the reason its job was escalated with: the same hash, so orders are left out.
ReasonOf(head, j) ==
    IF Swept(head, j, {"Escalated"}) # {} THEN LatestOf(head, j, {"Escalated"}).arg
    ELSE evidence[j]

Listed(row, j) == row.status = "submitted" /\ j \notin expired

-----------------------------------------------------------------------------
(* A refresh, cut where it awaits the chain.                               *)

\* fault: refresh() does not look for one in flight.
AlwaysFree == TRUE

NoneInFlight == \A s \in Slots : refresh[s] = Idle

\* refresh() and getBlockNumber; the sweep that follows depends on head only.
Begin(s) ==
    /\ running
    /\ NoneInFlight
    /\ refresh[s] = Idle /\ \A t \in Slots : t < s => refresh[t] # Idle
    /\ refresh' = [refresh EXCEPT ![s] = [phase |-> "swept", head |-> Len(log)]]
    /\ UNCHANGED <<routerVars, log, stored, age, running, failures>>

GetJobs(ids) == [j \in ids |-> status[j]]

\* A job with another evaluator is dropped.
ReadJobs(s) ==
    LET r == refresh[s]
        ids == Pinned \cup {j \in Jobs : Swept(r.head, j, EventNames) # {}}
    IN  /\ r.phase = "swept"
        /\ refresh' = [refresh EXCEPT ![s] =
                [phase |-> "jobs", head |-> r.head,
                 jobs |-> GetJobs(ids \cap Evaluated)]]
        /\ UNCHANGED <<routerVars, log, stored, age, running, failures>>

\* fault: the events are swept last, when the jobs have been read.
SweptLater(head) == Len(log)

SweptTo(head) == head

\* buildFeedRows of one job, and its lane: the event's, else what lanes(jobId)
\* answers.
BuildFeedRow(head, j, read) ==
    LET seen == Swept(head, j, VerdictEvents) # {}
    IN  [status |-> read,
         receipt |-> seen,
         provenance |-> IF seen
                        THEN ProvenanceOf(LatestOf(head, j, VerdictEvents).name)
                        ELSE "none",
         lane |-> LaneName(IF Swept(head, j, {"LaneSet"}) # {}
                           THEN LatestOf(head, j, {"LaneSet"}).arg
                           ELSE lanes[j])]

ReadLanes(s) ==
    LET r == refresh[s]
    IN  /\ r.phase = "jobs"
        /\ refresh' = [refresh EXCEPT ![s] =
                [phase |-> "lanes", head |-> r.head,
                 rows |-> [j \in DOMAIN r.jobs |->
                              BuildFeedRow(SweptTo(r.head), j, r.jobs[j])]]]
        /\ UNCHANGED <<routerVars, log, stored, age, running, failures>>

ProvenanceCode(resolution) ==
    CASE resolution \in AutoResolutions -> "AI auto"
      [] resolution = "Escalated" -> "escalated"
      [] resolution \in HumanResolutions -> "human"
      [] resolution = "None" -> "none"

BackfillProvenance(s) ==
    LET r == refresh[s]
        Filled(j) == IF r.rows[j].provenance = "none"
                     THEN [r.rows[j] EXCEPT !.provenance = ProvenanceCode(resolutions[j])]
                     ELSE r.rows[j]
    IN  /\ r.phase = "lanes"
        /\ refresh' = [refresh EXCEPT ![s] =
                [phase |-> "rows", head |-> r.head,
                 rows |-> [j \in DOMAIN r.rows |-> Filled(j)]]]
        /\ UNCHANGED <<routerVars, log, stored, age, running, failures>>

\* buildReviewQueue reads the evidence; nothing is awaited from there on.
Publish(s) ==
    LET r == refresh[s]
        queued == {j \in Candidates(r.head, r.rows) \cap DOMAIN r.rows :
                      Listed(r.rows[j], j)}
    IN  /\ r.phase = "rows"
        /\ stored' = [status |-> "ready", head |-> r.head, feed |-> r.rows,
                      queue |-> [j \in queued |-> ReasonOf(r.head, j)]]
        /\ age' = 0
        /\ refresh' = [refresh EXCEPT ![s] = Idle]
        /\ UNCHANGED <<routerVars, log, running, failures>>

\* fault: what is not known is not shown.
DegradedAnew == [InitialSnapshot EXCEPT !.status = "degraded"]

Degraded == [stored EXCEPT !.status = "degraded"]

\* fault: refreshPromise is cleared by success only.
StillInFlight(s) == [phase |-> "failed"]

Finished(s) == Idle

\* Any await of a refresh may throw: recordRefreshFailure.
RefreshFails(s) ==
    /\ refresh[s] # Idle
    /\ failures < MaxFailures
    /\ failures' = failures + 1
    /\ stored' = Degraded
    /\ refresh' = [refresh EXCEPT ![s] = Finished(s)]
    /\ UNCHANGED <<routerVars, log, age, running>>

\* SIGTERM: a refresh in flight may still end before the process does.
Stop ==
    /\ running /\ failures < MaxFailures
    /\ failures' = failures + 1
    /\ running' = FALSE
    /\ UNCHANGED <<routerVars, log, refresh, stored, age>>

\* The next process knows the row only.
Restart ==
    /\ ~running
    /\ running' = TRUE
    /\ refresh' = [s \in Slots |-> Idle]
    /\ UNCHANGED <<routerVars, log, stored, age, failures>>

ClockTicks ==
    /\ age <= StaleAfter
    /\ age' = age + 1
    /\ UNCHANGED <<routerVars, log, refresh, stored, running, failures>>

RefreshStep(s) ==
    Begin(s) \/ ReadJobs(s) \/ ReadLanes(s) \/ BackfillProvenance(s) \/ Publish(s)

DashboardNext ==
    \/ \E a \in Accounts, j \in Jobs : ChainStep(a, j)
    \/ \E s \in Slots : RefreshStep(s) \/ RefreshFails(s)
    \/ QuietBlock \/ Stop \/ Restart \/ ClockTicks

DashboardSpec == DashboardInit /\ [][DashboardNext]_dashboardVars

\* setInterval and the event loop; a read the chain answers is answered in time.
DashboardFairSpec ==
    /\ DashboardSpec
    /\ WF_dashboardVars(\E s \in Slots : RefreshStep(s))
    /\ WF_dashboardVars(Restart)

\* deriveStatus: what the dashboard is told of the row.
ShownStatus ==
    IF stored.status = "degraded" \/ stored.head = NoBlock THEN stored.status
    ELSE IF age > StaleAfter THEN "stale" ELSE "ready"

-----------------------------------------------------------------------------
(***************************************************************************)
(* A feed row with the receipt of a verdict shows the job settled, and an  *)
(* AI verdict on the lane that allows it: jobs and lanes are read after    *)
(* the events, never before.                                               *)
(***************************************************************************)
VerdictsShowTheirSettlement ==
    \A j \in DOMAIN stored.feed :
        LET row == stored.feed[j]
        IN  row.receipt /\ row.provenance \in {"AI auto", "human"} =>
                /\ row.status \in {"completed", "rejected"}
                /\ row.provenance = "AI auto" => row.lane = "AI"

\* With the types of the row and of the refreshes that write it.
FeedInv == DashboardTypeOK /\ VerdictsShowTheirSettlement

(***************************************************************************)
(* Feed and queue of one row agree: a queued job is a submitted one whose  *)
(* feed row says escalated, although they come from different reads.       *)
(***************************************************************************)
QueueAgreesWithFeed ==
    \A j \in DOMAIN stored.queue :
        /\ j \in DOMAIN stored.feed
        /\ stored.feed[j].status = "submitted"
        /\ stored.feed[j].provenance = "escalated"

(***************************************************************************)
(* The reason queued with a job is one it was escalated with, unless the   *)
(* human verdict came while the queue was being read.                      *)
(***************************************************************************)
QueuedForItsReason ==
    \A j \in DOMAIN stored.queue :
        \/ \E b \in 1..Len(log) : log[b] = [name |-> "Escalated", job |-> j,
                                            arg |-> stored.queue[j]]
        \/ resolutions[j] \in HumanResolutions

AwaitsHuman(j) ==
    resolutions[j] = "Escalated" /\ status[j] = "submitted" /\ j \notin expired

Since(head, j, name) == \E b \in 1..head : log[b].job = j /\ log[b].name = name

(***************************************************************************)
(* No escalated job is overlooked: one the index had to look at, pinned or *)
(* with an event in the window, that was submitted and escalated by the    *)
(* indexed head and still waits for a human is in the queue.               *)
(***************************************************************************)
WaitingIsListed ==
    \A j \in Evaluated :
        /\ stored.head # NoBlock
        /\ j \in Pinned \/ Swept(stored.head, j, EventNames) # {}
        /\ Since(stored.head, j, "JobSubmitted")
        /\ Since(stored.head, j, "Escalated")
        /\ AwaitsHuman(j)
        => j \in DOMAIN stored.queue

(***************************************************************************)
(* The queue is what waits for a human: what stands in it belongs there,   *)
(* with the reason of its escalation, and nothing that waits is missing.   *)
(***************************************************************************)
QueueIsTrue == QueueAgreesWithFeed /\ QueuedForItsReason /\ WaitingIsListed

(***************************************************************************)
(* The last verified data survives: no write takes the index back to an    *)
(* earlier head, and a failed refresh leaves feed and queue as they were.  *)
(***************************************************************************)
IndexNeverGoesBack ==
    [][/\ stored'.head >= stored.head
       /\ stored'.status = "degraded" =>
             stored'.feed = stored.feed /\ stored'.queue = stored.queue]_dashboardVars

(***************************************************************************)
(* The index heals: failures and restarts having ended, the dashboard is   *)
(* again and again told that it is ready.                                  *)
(***************************************************************************)
IndexHeals == []<>(ShownStatus = "ready")
=============================================================================
