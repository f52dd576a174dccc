--------------------------- MODULE ReviewDatabase ---------------------------
(***************************************************************************)
(* The durable state of one paid review order: its row, its assignments,   *)
(* and per operation the idempotency key in use, the recorded Circle id,   *)
(* the attempts and the journal of requests.  Keys are numbered in the     *)
(* order they are drawn; a Circle id is the number of the key it belongs   *)
(* to, 0 for NULL.  An operator here is one transaction of database.ts.    *)
(***************************************************************************)
EXTENDS ReviewRail

CONSTANTS
    NoReviewer,
    MaxDispatches,   \* REVIEW_MAX_DISPATCHES
    MaxAttempts      \* CIRCLE_MAX_ATTEMPTS

ASSUME DatabaseAssumption ==
    /\ NoReviewer \notin Reviewers
    /\ MaxDispatches \in Nat \ {0}
    /\ MaxAttempts \in 1..MaxKeys

VARIABLES
    order, assignment,
    lapsed,     \* claim_expires_at is past; read only while dispatched
    key, recorded, attempts, journal

circleColumns == <<key, recorded, attempts, journal>>

databaseVars == <<order, assignment, lapsed, circleColumns>>

OrderStates ==
    {"paid", "dispatched", "claimed", "verdict_submitted", "payout_failed",
     "reviewer_paid", "reviewer_paid_settlement_failed", "settled",
     "expired", "refunded"}

Order == [state : OrderStates, reviewer : Reviewers \cup {NoReviewer},
          payee : Addresses \cup {"none"}, decided : BOOLEAN,
          dispatchCount : 0..MaxDispatches, aborted : BOOLEAN]

DatabaseTypeOK ==
    /\ order \in Order
    /\ assignment \in [Reviewers -> {"none", "offered", "claimed", "expired"}]
    /\ lapsed \in BOOLEAN
    /\ key \in [Operations -> Keys]
    /\ recorded \in [Operations -> Keys \cup {0}]
    /\ attempts \in [Operations -> [Keys -> Progress]]
    /\ journal \in [Operations -> SUBSET Keys]

\* createOrder.
DatabaseInit ==
    /\ order = [state |-> "paid", reviewer |-> NoReviewer, payee |-> "none",
                decided |-> FALSE, dispatchCount |-> 0, aborted |-> FALSE]
    /\ assignment = [r \in Reviewers |-> "none"]
    /\ lapsed = FALSE
    /\ key = [op \in Operations |-> 1]
    /\ recorded = [op \in Operations |-> 0]
    /\ attempts = [op \in Operations |-> [k \in Keys |-> "none"]]
    /\ journal = [op \in Operations |-> {}]

InState(states) == order.state \in states

Becomes(state) == order' = [order EXCEPT !.state = state]

-----------------------------------------------------------------------------
(***************************************************************************)
(* Offers, claims and verdicts.                                            *)
(***************************************************************************)
Withdrawn ==
    [r \in Reviewers |->
        IF assignment[r] = "offered" THEN "expired" ELSE assignment[r]]

RecordDispatch(r) ==
    /\ InState({"paid", "dispatched"})
    /\ order' = [order EXCEPT !.state = "dispatched",
                     !.dispatchCount = IF order.state = "paid" THEN @ + 1 ELSE @]
    /\ assignment' = [assignment EXCEPT ![r] = "offered"]
    /\ UNCHANGED <<lapsed, circleColumns>>

ClaimedBy(r) == [Withdrawn EXCEPT ![r] = "claimed"]

\* fault: whoever was offered the order may have it.
AnyOffered(r) == TRUE

\* The reviewer is looked up once more.
StillEligible(r) == r \in Eligible

\* The payout address goes into the row as it is now.
ClaimOrder(r) ==
    /\ InState({"dispatched"})
    /\ ~SlaElapsed
    /\ ~lapsed
    /\ assignment[r] = "offered"
    /\ StillEligible(r)
    /\ order' = [order EXCEPT !.state = "claimed", !.reviewer = r,
                              !.payee = registry[r].address]
    /\ assignment' = ClaimedBy(r)
    /\ UNCHANGED <<lapsed, circleColumns>>

SubmitVerdict(r) ==
    /\ InState({"claimed"})
    /\ order.reviewer = r
    /\ ~SlaElapsed
    /\ order' = [order EXCEPT !.state = "verdict_submitted", !.decided = TRUE]
    /\ UNCHANGED <<assignment, lapsed, circleColumns>>

\* claim_expires_at comes to lie in the past.
OfferLapses ==
    /\ ~lapsed
    /\ lapsed' = TRUE
    /\ UNCHANGED <<order, assignment, circleColumns>>

\* fault: a claimed order is left to its reviewer.
UnclaimedStates == {"paid", "dispatched"}

ReviewStates == {"paid", "dispatched", "claimed"}

SlaExpiry == InState(ReviewStates) /\ SlaElapsed

OfferExpiry == ~SlaExpiry /\ InState({"dispatched"}) /\ lapsed

DispatchesLeft == order.dispatchCount < MaxDispatches

\* applyReviewTimeouts, by what it answers.
TimeoutExpired ==
    /\ SlaExpiry \/ (OfferExpiry /\ ~DispatchesLeft)
    /\ Becomes("expired")
    /\ assignment' = Withdrawn
    /\ UNCHANGED <<lapsed, circleColumns>>

TimeoutRedispatched ==
    /\ OfferExpiry
    /\ DispatchesLeft
    /\ Becomes("paid")
    /\ assignment' = Withdrawn
    /\ UNCHANGED <<lapsed, circleColumns>>

NoTimeout == ~SlaExpiry /\ ~OfferExpiry

-----------------------------------------------------------------------------
(***************************************************************************)
(* Circle's transactions.                                                  *)
(***************************************************************************)
\* fault: anything that has not completed may be tried again.
NotComplete(state) == state # "complete"

TerminalFailure(state) == state = "failed"

AttemptCount(op) == Cardinality({k \in Keys : attempts[op][k] # "none"})

\* The current key's attempt, if there is one, is the latest.
CurrentAttempt(op) == attempts[op][key[op]]

MarkCircleRequestStarted(op) ==
    /\ journal' = [journal EXCEPT ![op] = @ \cup {key[op]}]
    /\ UNCHANGED <<order, assignment, lapsed, key, recorded, attempts>>

HasCurrentCircleRequestStarted(op) == key[op] \in journal[op]

RecordCircleTransaction(op, id, state) ==
    /\ attempts' = [attempts EXCEPT ![op][key[op]] = state]
    /\ recorded' = [recorded EXCEPT ![op] = id]
    /\ UNCHANGED <<order, assignment, lapsed, key, journal>>

NextKey(op) ==
    /\ recorded' = [recorded EXCEPT ![op] = 0]
    /\ key' = [key EXCEPT ![op] = @ + 1]
    /\ UNCHANGED <<order, assignment, lapsed, attempts, journal>>

MayRotate(op) == AttemptCount(op) < MaxAttempts

\* rotateCircleAttempt, after it has recorded the failure once more.
RotateCircleAttempt(op, id) ==
    /\ MayRotate(op)
    /\ recorded[op] = id
    /\ NextKey(op)

RecoveryState(op) ==
    CASE op = "payout"     -> "payout_failed"
      [] op = "resolution" -> "reviewer_paid_settlement_failed"
      [] op = "refund"     -> "expired"

Exhausted(op) ==
    /\ order.state = RecoveryState(op)
    /\ AttemptCount(op) >= MaxAttempts
    /\ TerminalFailure(CurrentAttempt(op))

ResumeCircleOperation(op) ==
    /\ Exhausted(op)
    /\ key[op] < MaxKeys
    /\ NextKey(op)

=============================================================================
