----------------------------- MODULE ReviewRail -----------------------------
(***************************************************************************)
(* What a review order's processing talks to: Circle, which carries out    *)
(* transfers and contract calls for idempotency keys, the escrowed job on  *)
(* Arc, the reviewers' table, which the command line tool edits from a     *)
(* process of its own, and time.  Circle, job and time are external and    *)
(* are modelled from how core/src/review uses them; Validation is the      *)
(* code's own reading of the job.  A key never moves money twice, and a    *)
(* transaction that ended FAILED, DENIED or CANCELLED never completes      *)
(* afterwards.  A transaction counts as complete here when Circle reports  *)
(* COMPLETE together with a hash.                                          *)
(***************************************************************************)
EXTENDS Integers, FiniteSets

CONSTANTS
    Reviewers,
    MaxKeys,         \* bound: idempotency keys an operation may use up
    Rosters,         \* reviewers' tables that an order may find
    Reclaimed        \* how a job ends whose client takes the escrow back

Operations == {"payout", "resolution", "refund"}

ASSUME RailAssumption ==
    /\ MaxKeys \in Nat \ {0}
    /\ Reclaimed \subseteq {"rejected", "expired"}

Keys == 1..MaxKeys

Progress == {"none", "pending", "complete", "failed"}

VARIABLES
    circle,   \* Circle's transaction for each key of each operation
    job,      \* "tight" when it leaves no time for a whole review
    clock,    \* see Clock
    registry  \* the reviewers' table

railVars == <<circle, job, clock, registry>>

\* "party": the payout address is the job's client's or provider's, or the
\* resolver's.
Addresses == {"own", "party"}

ReviewerRow == [active : BOOLEAN, address : Addresses]

ASSUME RosterAssumption == Rosters \subseteq [Reviewers -> ReviewerRow]

(***************************************************************************)
(* 0: within the review SLA; 1: the SLA has elapsed; 2: the job's expiry   *)
(* is inside the payout and settlement window; 3: inside the settlement    *)
(* window; 4: past expiry.  The configuration keeps them in this order     *)
(* (REVIEW_MIN_JOB_EXPIRY_SECONDS), but for a job that was validated with  *)
(* the bare minimum some time before its order was created.                *)
(***************************************************************************)
Clock == 0..4

SlaElapsed == clock >= 1

RailTypeOK ==
    /\ circle \in [Operations -> [Keys -> Progress]]
    /\ job \in {"open", "tight", "resolved", "rejected", "expired"}
    /\ clock \in Clock
    /\ registry \in [Reviewers -> ReviewerRow]

RailInit ==
    /\ circle = [op \in Operations |-> [k \in Keys |-> "none"]]
    /\ job \in {"open", "tight"}
    /\ clock = 0
    /\ registry \in Rosters

Unresolved == {"open", "tight"}

-----------------------------------------------------------------------------
TimePasses ==
    /\ clock < 4
    /\ clock' = clock + 1
    /\ UNCHANGED <<circle, job, registry>>

\* claimRefund by the job's client, after expiry.
Reclaim ==
    /\ clock = 4
    /\ job \in Unresolved
    /\ job' \in Reclaimed
    /\ UNCHANGED <<circle, clock, registry>>

\* A request reaches Circle, now or long after it was sent.
Accept(op, k) ==
    /\ circle[op][k] = "none"
    /\ circle' = [circle EXCEPT ![op][k] = "pending"]
    /\ UNCHANGED <<job, clock, registry>>

Fail(op, k) ==
    /\ circle[op][k] = "pending"
    /\ circle' = [circle EXCEPT ![op][k] = "failed"]
    /\ UNCHANGED <<job, clock, registry>>

\* A resolution is a call of humanResolve, which closes the job.
Complete(op, k) ==
    /\ circle[op][k] = "pending"
    /\ circle' = [circle EXCEPT ![op][k] = "complete"]
    /\ IF op = "resolution"
       THEN job \in Unresolved /\ job' = "resolved"
       ELSE UNCHANGED job
    /\ UNCHANGED <<clock, registry>>

-----------------------------------------------------------------------------
\* reviewer:add writes the address anew and leaves the reviewer active.
UpsertReviewer(r) ==
    /\ \E address \in Addresses :
          registry' = [registry EXCEPT ![r] = [active |-> TRUE, address |-> address]]
    /\ UNCHANGED <<circle, job, clock>>

\* reviewer:enable and reviewer:disable.
SetReviewerActive(r) ==
    /\ \E active \in BOOLEAN : registry' = [registry EXCEPT ![r].active = active]
    /\ UNCHANGED <<circle, job, clock>>

\* listEligibleReviewers.
Eligible == {r \in Reviewers : registry[r].active /\ registry[r].address # "party"}

-----------------------------------------------------------------------------
JobStatus ==
    CASE job \in Unresolved -> 2
      [] job = "resolved"   -> 3
      [] job = "rejected"   -> 4
      [] job = "expired"    -> 5

PermanentStatus == {3, 4}

ExpiryTooClose(phase) ==
    \/ phase = "dispatch" /\ (job = "tight" \/ clock >= 2)
    \/ phase = "payout" /\ clock >= 2
    \/ phase = "resolution" /\ clock >= 3

(***************************************************************************)
(* validateEscalatedReview: the status first, then the expiry.             *)
(***************************************************************************)
Validation(phase) ==
    CASE JobStatus # 2 /\ JobStatus \in PermanentStatus    -> "permanent"
      [] JobStatus # 2 /\ JobStatus \notin PermanentStatus -> "transient"
      [] JobStatus = 2 /\ ExpiryTooClose(phase)            -> "permanent"
      [] JobStatus = 2 /\ ~ExpiryTooClose(phase)           -> "valid"

=============================================================================
