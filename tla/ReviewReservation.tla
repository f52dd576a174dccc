------------------------- MODULE ReviewReservation -------------------------
(***************************************************************************)
(* The reservations of paid reviews: the row of review_reservations that a *)
(* purchase holds from before its payment until its order exists, and the  *)
(* x402 Gateway that charges the buyer's signed authorization.  The row's  *)
(* token is the purchase that drew it, and a row that became an order is   *)
(* kept here as that order, which carries the same request, job and        *)
(* authorization.  An operator here is one transaction of database.ts.     *)
(* All prices are equal: a quote that differs between purchase and         *)
(* recovery only makes the recovery fail, which it may do anyway.          *)
(***************************************************************************)
EXTENDS Integers, FiniteSets

CONSTANTS
    Purchases,   \* one per POST /v1/review-orders
    Asks,        \* what a purchase may ask for: request, job, auth
    NoAuth       \* a request that carries no signed authorization

ASSUME AsksAssumption ==
    \A a \in Asks : {"request", "job", "auth"} \subseteq DOMAIN a

VARIABLES
    ask,       \* what each purchase asks for; the row copies it
    row,       \* the phase of each purchase's reservation, see Phases
    late,      \* its deadline is past: expires_at, or settlement_recovery_at
    calls,     \* purchases for which a settle request left the service
    charged,   \* purchases whose authorization the Gateway has charged
    elsewhere  \* authorizations that their buyers have used up elsewhere

rowVars == <<row, late>>

gatewayVars == <<calls, charged, elsewhere>>

reservationVars == <<ask, rowVars, gatewayVars>>

(***************************************************************************)
(* "pending" and "attempted" are phase = 'payment_pending' without and     *)
(* with a settlement_recovery_at; "order" is the row of review_orders.     *)
(***************************************************************************)
Phases == {"none", "pending", "attempted", "settled", "order"}

ReservationTypeOK ==
    /\ ask \in [Purchases -> Asks]
    /\ row \in [Purchases -> Phases]
    /\ late \in [Purchases -> BOOLEAN]
    /\ \A p \in Purchases : late[p] => row[p] \in {"pending", "attempted"}
    /\ calls \subseteq Purchases
    /\ charged \subseteq Purchases
    /\ elsewhere \subseteq {a.auth : a \in Asks}

ReservationInit ==
    /\ ask \in [Purchases -> Asks]
    /\ row = [p \in Purchases |-> "none"]
    /\ late = [p \in Purchases |-> FALSE]
    /\ calls = {}
    /\ charged = {}
    /\ elsewhere = {}

SameReview(p, q) == ask[p].request = ask[q].request \/ ask[p].job = ask[q].job

SamePayment(p, q) == ask[p].auth # NoAuth /\ ask[p].auth = ask[q].auth

\* findOrderByRequestOrJob.
Ordered(p) == \E q \in Purchases : row[q] = "order" /\ SameReview(p, q)

\* fault: whatever is overdue is dropped.
AnyLapsed(p) == row[p] \in {"pending", "attempted"} /\ late[p]

Lapsed(p) == row[p] = "pending" /\ late[p]

Without(gone) ==
    /\ row' = [p \in Purchases |-> IF p \in gone THEN "none" ELSE row[p]]
    /\ late' = [p \in Purchases |-> p \notin gone /\ late[p]]

Enters(p, phase) ==
    /\ row' = [row EXCEPT ![p] = phase]
    /\ late' = [late EXCEPT ![p] = FALSE]

-----------------------------------------------------------------------------
(***************************************************************************)
(* acquireReviewReservation: lapsed rows go first; then an order for the   *)
(* request or the job is the answer, and any row that holds the payment,   *)
(* the request or the job makes the purchase wait.                         *)
(***************************************************************************)
\* fault: only the exact intent is looked for.
TakenForIntent(p) ==
    \E q \in Purchases :
        /\ row[q] # "none"
        /\ ask[q].request = ask[p].request /\ ask[q].job = ask[p].job

Taken(p) ==
    \E q \in Purchases :
        /\ row[q] # "none"
        /\ ~Lapsed(q)
        /\ SameReview(p, q) \/ SamePayment(p, q)

LapsedRows == {q \in Purchases : Lapsed(q)}

AcquireReviewReservation(p) ==
    /\ ~Taken(p)
    /\ row' = [q \in Purchases |-> IF q = p THEN "pending"
                                   ELSE IF Lapsed(q) THEN "none" ELSE row[q]]
    /\ late' = [q \in Purchases |-> ~Lapsed(q) /\ q # p /\ late[q]]

ReviewExistsOrBusy(p) == Taken(p) /\ Without(LapsedRows)

Releasable(p) == row[p] = "pending"

ReleaseReviewReservation(p) ==
    IF Releasable(p) THEN Without({p}) ELSE UNCHANGED rowVars

Markable(p) == row[p] \in {"pending", "attempted"}

\* fault: nobody looks whether the row was still there.
MarkUnchecked(p) ==
    IF Markable(p) THEN Enters(p, "attempted") ELSE UNCHANGED rowVars

MarkGatewaySettlementAttempt(p) == Markable(p) /\ Enters(p, "attempted")

\* Settled already with the same transaction: nothing changes.
RecordReviewReservationSettlement(p) ==
    \/ row[p] \in {"pending", "attempted"} /\ Enters(p, "settled")
    \/ row[p] = "settled" /\ UNCHANGED rowVars

PromoteReviewReservation(p) ==
    /\ row[p] = "settled"
    /\ IF Ordered(p) THEN UNCHANGED rowVars ELSE Enters(p, "order")

\* fault: what was never attempted is not looked for.
DiscardNothing == UNCHANGED rowVars

DiscardExpiredUnattempted == Without(LapsedRows)

RecoverableReservations == {p \in Purchases : row[p] = "attempted" /\ late[p]}

DeferGatewayReservationRecovery(p) ==
    IF row[p] \in {"pending", "attempted"} THEN Enters(p, "attempted")
    ELSE UNCHANGED rowVars

\* At startup, every settled row becomes the order it paid for.
ReconcileSettledReviewReservations ==
    /\ row' = [p \in Purchases |->
                  IF row[p] = "settled" /\ ~Ordered(p) THEN "order" ELSE row[p]]
    /\ UNCHANGED late

-----------------------------------------------------------------------------
(***************************************************************************)
(* Time, and the Gateway: it charges an authorization at most once, at any *)
(* time after a request for it left the service.                           *)
(***************************************************************************)
Overdue(p) ==
    /\ row[p] \in {"pending", "attempted"}
    /\ ~late[p]
    /\ late' = [late EXCEPT ![p] = TRUE]
    /\ UNCHANGED <<ask, row, gatewayVars>>

Spent(p) ==
    \/ ask[p].auth \in elsewhere
    \/ \E q \in charged : SamePayment(p, q)

Charge(p) ==
    /\ p \in calls
    /\ ~Spent(p)
    /\ charged' = charged \cup {p}
    /\ UNCHANGED <<ask, rowVars, calls, elsewhere>>

SpendElsewhere(p) ==
    /\ ask[p].auth # NoAuth
    /\ ~Spent(p)
    /\ elsewhere' = elsewhere \cup {ask[p].auth}
    /\ UNCHANGED <<ask, rowVars, calls, charged>>

=============================================================================
