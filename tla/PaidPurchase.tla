---------------------------- MODULE PaidPurchase ----------------------------
(***************************************************************************)
(* Buying a review: POST /v1/review-orders with the x402 payment in front  *)
(* of it (app.ts), and the reconciler that settles what an interrupted     *)
(* purchase left behind (gateway.ts, review-server.ts).  Purchases         *)
(* interleave at their awaits; the process may die between any two         *)
(* database transactions, which loses every request and the reconciler's   *)
(* pass, but not what the Gateway has already been asked.                  *)
(***************************************************************************)
EXTENDS ReviewReservation

CONSTANT MaxCrashes  \* bound: deaths of the process

ASSUME CrashAssumption == MaxCrashes \in Nat

VARIABLES
    pc,        \* where each purchase's request stands
    pass,      \* the reconciler: [at, todo], todo the rows it has listed
    serving,   \* whether the server listens
    crashes

vars == <<reservationVars, pc, pass, serving, crashes>>

Stages == {"new", "validating", "treasury", "verifying", "settling",
           "promoting", "done"}

PassStages == {"boot", "idle", "next", "verifying", "preflight", "settling",
               "promoting"}

Init ==
    /\ ReservationInit
    /\ pc = [p \in Purchases |-> "new"]
    /\ pass = [at |-> "boot", todo |-> {}, row |-> {}]
    /\ serving = FALSE
    /\ crashes = 0

TypeOK ==
    /\ ReservationTypeOK
    /\ pc \in [Purchases -> Stages]
    /\ pass \in [at : PassStages, todo : SUBSET Purchases,
                 row : SUBSET Purchases]
    /\ serving \in BOOLEAN
    /\ crashes \in 0..MaxCrashes

Go(p, stage) == pc' = [pc EXCEPT ![p] = stage]

\* Between the two transactions of a promotion nothing else can run.
Awaiting == pass.at # "promoting" /\ \A p \in Purchases : pc[p] # "promoting"

At(p, stage) == Awaiting /\ pc[p] = stage

-----------------------------------------------------------------------------
(***************************************************************************)
(* The purchase route.                                                     *)
(***************************************************************************)
(***************************************************************************)
(* An answer is sent.  Its "finish" event releases the reservation, unless *)
(* the buyer has hung up: then the lease has to run out.                   *)
(***************************************************************************)
Respond(p) ==
    /\ Go(p, "done")
    /\ ReleaseReviewReservation(p) \/ UNCHANGED rowVars

\* parseReviewInput, or the limit of purchases a minute, ends a request.
Arrive(p) ==
    /\ serving
    /\ At(p, "new")
    /\ Go(p, "validating") \/ Go(p, "done")
    /\ ~Ordered(p)
    /\ UNCHANGED <<reservationVars, pass, serving, crashes>>

ReturnExistingOrder(p) ==
    /\ serving
    /\ At(p, "new")
    /\ Ordered(p)
    /\ Go(p, "done")
    /\ UNCHANGED <<reservationVars, pass, serving, crashes>>

\* Nothing is reserved for a job that is not up for review, ...
Unreviewable(p) ==
    /\ At(p, "validating")
    /\ Go(p, "done")
    /\ UNCHANGED <<reservationVars, pass, serving, crashes>>

\* ... or when prevalidateReview has answered and nobody could review it, ...
NoEligibleReviewer(p) == Unreviewable(p)

\* ... or for an authorization that does not pay exactly this quote.
InvalidPaymentSignature(p) ==
    /\ ask[p].auth # NoAuth
    /\ Unreviewable(p)

\* prevalidateReview has answered; reserveReviewOrder follows at once.
Reserve(p) ==
    /\ At(p, "validating")
    /\ AcquireReviewReservation(p)
    /\ Go(p, "treasury")
    /\ UNCHANGED <<ask, gatewayVars, pass, serving, crashes>>

\* An order exists or another purchase is ahead.
TurnAway(p) ==
    /\ At(p, "validating")
    /\ ReviewExistsOrBusy(p)
    /\ Go(p, "done")
    /\ UNCHANGED <<ask, gatewayVars, pass, serving, crashes>>

\* TreasuryAdmission says when the treasury suffices.
Admit(p) ==
    /\ At(p, "treasury")
    /\ ask[p].auth # NoAuth
    /\ Go(p, "verifying")
    /\ UNCHANGED <<reservationVars, pass, serving, crashes>>

TreasuryNotReady(p) ==
    /\ At(p, "treasury")
    /\ Respond(p)
    /\ UNCHANGED <<ask, gatewayVars, pass, serving, crashes>>

\* 402, with the price to sign for.
QuotePrice(p) ==
    /\ ask[p].auth = NoAuth
    /\ TreasuryNotReady(p)

\* The Gateway does not accept the authorization, or cannot be reached.
VerifyFails(p) ==
    /\ At(p, "verifying")
    /\ Respond(p)
    /\ UNCHANGED <<ask, gatewayVars, pass, serving, crashes>>

\* onBeforeSettle journals the attempt before the request leaves.
Settle(p) ==
    /\ At(p, "verifying")
    /\ MarkGatewaySettlementAttempt(p)
    /\ calls' = calls \cup {p}
    /\ Go(p, "settling")
    /\ UNCHANGED <<ask, charged, elsewhere, pass, serving, crashes>>

\* The row is gone: the hook aborts the payment.
Abort(p) ==
    /\ At(p, "verifying")
    /\ ~Markable(p)
    /\ Respond(p)
    /\ UNCHANGED <<ask, gatewayVars, pass, serving, crashes>>

\* onAfterSettle records the settlement.
Settled(p) ==
    /\ At(p, "settling")
    /\ p \in charged
    /\ RecordReviewReservationSettlement(p)
    /\ Go(p, "promoting")
    /\ UNCHANGED <<ask, gatewayVars, pass, serving, crashes>>

Promote(p) ==
    /\ pc[p] = "promoting"
    /\ PromoteReviewReservation(p)
    /\ Go(p, "done")
    /\ UNCHANGED <<ask, gatewayVars, pass, serving, crashes>>

(***************************************************************************)
(* The answer is a failure, is lost, or comes after the reconciler has     *)
(* made the order; the release then finds nothing to release.              *)
(***************************************************************************)
Unsettled(p) ==
    /\ At(p, "settling")
    /\ Respond(p)
    /\ UNCHANGED <<ask, gatewayVars, pass, serving, crashes>>

-----------------------------------------------------------------------------
(***************************************************************************)
(* GatewayReservationReconciler.reconcile, at startup and on a timer.      *)
(* pass.row holds the one reservation in hand.                             *)
(***************************************************************************)
InHand(p) == pass.row = {p}

Moves(stage) == pass' = [pass EXCEPT !.at = stage]

PassOver == pass' = [at |-> "next", todo |-> pass.todo \ pass.row, row |-> {}]

\* Settled rows are promoted first when the service starts.
Boot ==
    /\ pass.at = "boot"
    /\ ReconcileSettledReviewReservations
    /\ Moves("idle")
    /\ UNCHANGED <<ask, gatewayVars, pc, serving, crashes>>

Reconcile ==
    /\ Awaiting
    /\ pass.at = "idle"
    /\ DiscardExpiredUnattempted
    /\ pass' = [at |-> "next", todo |-> RecoverableReservations, row |-> {}]
    /\ UNCHANGED <<ask, gatewayVars, pc, serving, crashes>>

\* The list was read before the awaits: the row may be an order by now.
Take(p) ==
    /\ Awaiting
    /\ pass.at = "next"
    /\ p \in pass.todo
    /\ pass' = IF Ordered(p) THEN [pass EXCEPT !.todo = @ \ {p}]
               ELSE [pass EXCEPT !.at = "verifying", !.row = {p}]
    /\ UNCHANGED <<reservationVars, pc, serving, crashes>>

\* The first pass ends before the server listens.
EndPass ==
    /\ Awaiting
    /\ pass.at = "next"
    /\ pass.todo = {}
    /\ Moves("idle")
    /\ serving' = TRUE
    /\ UNCHANGED <<reservationVars, pc, crashes>>

Verified(p) ==
    /\ Awaiting
    /\ pass.at = "verifying"
    /\ InHand(p)
    /\ Moves("preflight")
    /\ UNCHANGED <<reservationVars, pc, serving, crashes>>

\* The job, the reviewers and the treasury still allow the review.
SettleAgain(p) ==
    /\ Awaiting
    /\ pass.at = "preflight"
    /\ InHand(p)
    /\ calls' = calls \cup {p}
    /\ Moves("settling")
    /\ UNCHANGED <<ask, rowVars, charged, elsewhere, pc, serving, crashes>>

\* fault: a nonce that was used counts as this purchase's payment.
NonceUsed(p) == Spent(p)

Proven(p) == p \in charged

Recovered(p) ==
    /\ Awaiting
    /\ pass.at = "settling"
    /\ InHand(p)
    /\ Proven(p)
    /\ RecordReviewReservationSettlement(p)
    /\ Moves("promoting")
    /\ UNCHANGED <<ask, gatewayVars, pc, serving, crashes>>

PromoteRecovered(p) ==
    /\ pass.at = "promoting"
    /\ InHand(p)
    /\ PromoteReviewReservation(p)
    /\ PassOver
    /\ UNCHANGED <<ask, gatewayVars, pc, serving, crashes>>

\* Whatever failed, the payment may have been taken: the row is kept.
Defer(p) ==
    /\ Awaiting
    /\ InHand(p)
    /\ IF Ordered(p) THEN UNCHANGED rowVars
       ELSE DeferGatewayReservationRecovery(p)
    /\ PassOver
    /\ UNCHANGED <<ask, gatewayVars, pc, serving, crashes>>

\* The Gateway calls the authorization invalid, or it belongs to another payer.
Unverified(p) == pass.at = "verifying" /\ Defer(p)

\* The stored quote is not today's, or the stored intent cannot be read.
QuoteDrifted(p) == pass.at = "verifying" /\ Defer(p)

\* The job has changed, no reviewer is left or the treasury is short.
NoLongerFulfillable(p) == pass.at = "preflight" /\ Defer(p)

\* The settle call fails, or reports a used nonce without its transfer.
Indeterminate(p) == pass.at = "settling" /\ Defer(p)

-----------------------------------------------------------------------------
Crash ==
    /\ crashes < MaxCrashes
    /\ crashes' = crashes + 1
    /\ pc' = [p \in Purchases |-> IF pc[p] = "new" THEN "new" ELSE "done"]
    /\ pass' = [at |-> "boot", todo |-> {}, row |-> {}]
    /\ serving' = FALSE
    /\ UNCHANGED reservationVars

Time ==
    /\ Awaiting
    /\ \E p \in Purchases : Overdue(p)
    /\ UNCHANGED <<pc, pass, serving, crashes>>

Gateway ==
    /\ \E p \in Purchases : Charge(p) \/ SpendElsewhere(p)
    /\ UNCHANGED <<pc, pass, serving, crashes>>

Request(p) ==
    \/ Unreviewable(p) \/ NoEligibleReviewer(p) \/ InvalidPaymentSignature(p)
    \/ Reserve(p) \/ TurnAway(p)
    \/ Admit(p) \/ TreasuryNotReady(p) \/ QuotePrice(p) \/ VerifyFails(p)
    \/ Settle(p) \/ Abort(p) \/ Settled(p) \/ Promote(p) \/ Unsettled(p)

Recovery(p) ==
    \/ Take(p) \/ Verified(p) \/ SettleAgain(p) \/ Recovered(p)
    \/ PromoteRecovered(p)
    \/ Unverified(p) \/ QuoteDrifted(p) \/ NoLongerFulfillable(p)
    \/ Indeterminate(p)

Reconciler ==
    \/ Boot \/ Reconcile \/ EndPass
    \/ \E p \in Purchases : Recovery(p)

Next ==
    \/ \E p \in Purchases :
            Arrive(p) \/ ReturnExistingOrder(p) \/ Request(p)
    \/ Reconciler \/ Crash \/ Time \/ Gateway

Spec == Init /\ [][Next]_vars

(***************************************************************************)
(* Fairness.  Calls end, with an answer or an error; the reconciler's      *)
(* timer keeps firing and the process is restarted; time passes, for every *)
(* reservation.  Nothing is assumed of buyers or of the Gateway's answers. *)
(***************************************************************************)
FairSpec ==
    /\ Spec
    /\ WF_vars(Reconciler)
    /\ \A p \in Purchases : WF_vars(Request(p)) /\ WF_vars(Time /\ Overdue(p))

-----------------------------------------------------------------------------
Held(phases) == {p \in Purchases : row[p] \in phases}

Committed == Held({"attempted", "settled", "order"})

(***************************************************************************)
(* "indeterminate failures ... admit no second authorization": two         *)
(* purchases whose payment may have been taken never concern the same job  *)
(* or request, nor the same authorization.                                 *)
(***************************************************************************)
NoSecondCharge ==
    \A p, q \in Committed \cup charged :
        p # q => ~SameReview(p, q) /\ ~SamePayment(p, q)

(***************************************************************************)
(* A charge is never forgotten: whatever was lost on the way, the purchase *)
(* it was made for is an order or a row that keeps its job reserved.       *)
(***************************************************************************)
ChargesAreKept == calls \cup charged \subseteq Committed

(***************************************************************************)
(* "never promoted as paid from nonce status alone": what counts as paid   *)
(* was charged for this very purchase.                                     *)
(***************************************************************************)
OrdersArePaid == Held({"settled", "order"}) \subseteq charged

Exclusive ==
    \A p, q \in Purchases :
        p # q /\ row[p] # "none" /\ row[q] # "none"
            => ~SameReview(p, q) /\ ~SamePayment(p, q)

Marked ==
    /\ calls \subseteq Committed
    /\ charged \subseteq calls
    /\ pass.todo \cup pass.row \subseteq Committed

Unreserved ==
    \A p \in Purchases : pc[p] \in {"new", "validating"} => row[p] = "none"

(***************************************************************************)
(* Why it holds, as an invariant that every step keeps: rows never share a *)
(* request, a job or an authorization; nothing is asked of the Gateway, by *)
(* the purchase or by the reconciler, but for a row that is marked as      *)
(* attempted and stays; and an order was paid for.                         *)
(***************************************************************************)
PurchaseInv == TypeOK /\ Exclusive /\ Marked /\ Unreserved /\ OrdersArePaid

\* What was recorded as paid becomes an order, across a crash in between.
SettledBecomesOrder ==
    \A p \in Purchases : row[p] = "settled" ~> row[p] = "order"

\* A reservation without an attempt never blocks its job for good.
ReservationsLapse ==
    \A p \in Purchases : row[p] = "pending" ~> row[p] # "pending"

(***************************************************************************)
(* What was recorded as paid is never left to itself: the request that     *)
(* recorded it, the reconciler or the next start of the service is about   *)
(* to promote it, and no order of another purchase is in the way.          *)
(***************************************************************************)
PromoteDue(p) == row[p] = "settled" /\ pc[p] = "promoting"

RecoverDue(p) ==
    /\ row[p] = "settled"
    /\ pass.at = "boot" \/ (pass.at = "promoting" /\ InHand(p))

SettledInHand ==
    \A p \in Purchases : row[p] = "settled" => PromoteDue(p) \/ RecoverDue(p)

PromotionsPass ==
    [](/\ SettledInHand
       /\ \A p \in Purchases :
            /\ PromoteDue(p) => ENABLED <<Request(p)>>_vars
            /\ RecoverDue(p) => ENABLED <<Reconciler>>_vars)

\* No reservation stands for good between entering and its order.
NoReservationStays == SettledBecomesOrder /\ ReservationsLapse /\ PromotionsPass

Promise == INSTANCE PurchasePromise WITH
    orders <- Held({"order"}),
    wants  <- [p \in Purchases |-> <<ask[p].request, ask[p].job>>],
    funds  <- [p \in Purchases |-> ask[p].auth]

\* The route, its crashes and the reconciler implement the promise.
KeepsPurchasePromise == Promise!Spec

=============================================================================
