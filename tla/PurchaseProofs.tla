--------------------------- MODULE PurchaseProofs ---------------------------
(***************************************************************************)
(* For any number of purchases, requests, jobs and authorizations, and any *)
(* number of crashes: nothing is charged twice, no charge is forgotten and *)
(* every order was paid for.                                               *)
(*                                                                         *)
(* The argument: rows never share a request, a job or an authorization     *)
(* (Exclusive), because a row is only inserted when none is in its way.    *)
(* A settle request leaves the service only for a row that has been marked *)
(* as attempted, by the purchase itself or because the reconciler found it *)
(* so (Marked), and such a row is never deleted.                           *)
(*                                                                         *)
(* The second half is about the treasury: whatever is admitted and         *)
(* whatever transfers go out, what may still be due fits the balance.      *)
(***************************************************************************)
EXTENDS PaidPurchase, TreasuryAdmission, FiniteSetTheorems, WellFoundedInduction,
        TLAPS

Paid == Held({"settled", "order"})

(***************************************************************************)
(* What every operation on the rows but the acquisition guarantees; new    *)
(* are the rows it may have made settled.                                  *)
(***************************************************************************)
Keeps(new) ==
    /\ row' \in [Purchases -> Phases]
    /\ late' \in [Purchases -> BOOLEAN]
    /\ \A q \in Purchases : late'[q] => row'[q] \in {"pending", "attempted"}
    /\ Exclusive'
    /\ Committed \subseteq Committed'
    /\ Paid' \subseteq Paid \cup new
    /\ \A q \in Purchases : row[q] = "none" => row'[q] = "none"

LEMMA InitInv == Init => PurchaseInv
<1> SUFFICES ASSUME Init PROVE PurchaseInv
  OBVIOUS
<1> USE DEF Init, ReservationInit
<1>1. TypeOK
  <2>1. ReservationTypeOK
    BY DEF ReservationTypeOK, Phases
  <2>2. crashes \in 0..MaxCrashes
    BY CrashAssumption
  <2> QED
    BY <2>1, <2>2 DEF TypeOK, Stages, PassStages
<1>2. Exclusive /\ Marked /\ Unreserved /\ OrdersArePaid
  BY DEF Exclusive, Marked, Committed, Held, Unreserved, OrdersArePaid
<1> QED  BY <1>1, <1>2 DEF PurchaseInv

\* Rows that were never attempted may go.
LEMMA WithoutKeeps ==
    ASSUME PurchaseInv, NEW gone \in SUBSET Purchases, Without(gone),
           \A p \in gone : row[p] = "pending", UNCHANGED ask
    PROVE  Keeps({})
  BY DEF PurchaseInv, TypeOK, ReservationTypeOK, Phases, Without, Exclusive,
         SameReview, SamePayment, Committed, Held, Keeps, Paid

\* A row may enter a later phase.
LEMMA EntersKeeps ==
    ASSUME PurchaseInv, NEW p \in Purchases, row[p] # "none",
           NEW phase \in {"attempted", "settled", "order"}, Enters(p, phase),
           UNCHANGED ask
    PROVE  Keeps(IF phase = "attempted" THEN {} ELSE {p})
  BY DEF PurchaseInv, TypeOK, ReservationTypeOK, Phases, Enters, Exclusive,
         SameReview, SamePayment, Committed, Held, Keeps, Paid

LEMMA SameRowsKeeps ==
    ASSUME PurchaseInv, UNCHANGED <<ask, rowVars>>
    PROVE  Keeps({})
  BY DEF PurchaseInv, TypeOK, ReservationTypeOK, rowVars, Exclusive, SameReview,
         SamePayment, Committed, Held, Keeps, Paid

\* What an answer does: Respond releases at most a row never attempted.
LEMMA RespondKeeps ==
    ASSUME PurchaseInv, NEW p \in Purchases, Respond(p), UNCHANGED ask
    PROVE  Keeps({}) /\ pc' = [pc EXCEPT ![p] = "done"]
<1>1. CASE Without({p}) /\ Releasable(p)
  BY <1>1, WithoutKeeps DEF Respond, Releasable, Go
<1>2. CASE UNCHANGED rowVars
  BY <1>2, SameRowsKeeps DEF Respond, Go
<1> QED  BY <1>1, <1>2 DEF Respond, ReleaseReviewReservation

LEMMA RecordKeeps ==
    ASSUME PurchaseInv, NEW p \in Purchases, RecordReviewReservationSettlement(p),
           UNCHANGED ask
    PROVE  Keeps({p})
<1>1. CASE row[p] \in {"pending", "attempted"} /\ Enters(p, "settled")
  BY <1>1, EntersKeeps
<1>2. CASE UNCHANGED rowVars
  BY <1>2, SameRowsKeeps DEF Keeps
<1> QED  BY <1>1, <1>2 DEF RecordReviewReservationSettlement

LEMMA PromoteKeeps ==
    ASSUME PurchaseInv, NEW p \in Purchases, PromoteReviewReservation(p),
           UNCHANGED ask
    PROVE  Keeps({}) /\ row[p] = "settled"
<1>1. CASE UNCHANGED rowVars
  BY <1>1, SameRowsKeeps DEF PromoteReviewReservation
<1>2. CASE row[p] = "settled" /\ Enters(p, "order")
  <2>1. Keeps({p})  BY <1>2, EntersKeeps
  <2>2. p \in Paid  BY <1>2 DEF Paid, Held
  <2> QED  BY <1>2, <2>1, <2>2 DEF Keeps
<1> QED  BY <1>1, <1>2 DEF PromoteReviewReservation

LEMMA DeferKeeps ==
    ASSUME PurchaseInv, NEW p \in Purchases, DeferGatewayReservationRecovery(p),
           UNCHANGED ask
    PROVE  Keeps({})
<1>1. CASE row[p] \in {"pending", "attempted"} /\ Enters(p, "attempted")
  BY <1>1, EntersKeeps
<1>2. CASE UNCHANGED rowVars
  BY <1>2, SameRowsKeeps
<1> QED  BY <1>1, <1>2 DEF DeferGatewayReservationRecovery

\* At startup several rows become orders at once.
LEMMA StartupKeeps ==
    ASSUME PurchaseInv, ReconcileSettledReviewReservations, UNCHANGED ask
    PROVE  Keeps({})
  BY DEF PurchaseInv, TypeOK, ReservationTypeOK, Phases,
         ReconcileSettledReviewReservations, Exclusive, SameReview,
         SamePayment, Committed, Held, Keeps, Paid

\* A new row has none in its way, but for lapsed ones that are deleted.
LEMMA AcquireExclusive ==
    ASSUME PurchaseInv, NEW p \in Purchases, AcquireReviewReservation(p),
           row[p] = "none", UNCHANGED ask
    PROVE  /\ row' \in [Purchases -> Phases]
           /\ late' \in [Purchases -> BOOLEAN]
           /\ \A q \in Purchases : late'[q] => row'[q] \in {"pending", "attempted"}
           /\ Exclusive'
           /\ Committed \subseteq Committed'
           /\ Paid' \subseteq Paid
           /\ \A q \in Purchases \ {p} : row[q] = "none" => row'[q] = "none"
<1> USE DEF PurchaseInv, TypeOK, ReservationTypeOK, Phases, AcquireReviewReservation,
            Lapsed
<1>1. row' \in [Purchases -> Phases] /\ late' \in [Purchases -> BOOLEAN]
  OBVIOUS
<1>2. \A q \in Purchases : late'[q] => row'[q] \in {"pending", "attempted"}
  OBVIOUS
<1>3. ASSUME NEW q \in Purchases, q # p, row'[q] # "none"
      PROVE  ~SameReview(p, q) /\ ~SamePayment(p, q) /\ row[q] # "none"
  BY <1>3 DEF Taken
<1>4. Exclusive'
  <2> SUFFICES ASSUME NEW q \in Purchases, NEW r \in Purchases, q # r,
                      row'[q] # "none", row'[r] # "none"
               PROVE  ~SameReview(q, r) /\ ~SamePayment(q, r)
    BY DEF Exclusive, SameReview, SamePayment
  <2>1. CASE q = p  BY <2>1, <1>3
  <2>2. CASE r = p  BY <2>2, <1>3 DEF SameReview, SamePayment
  <2>3. CASE q # p /\ r # p  BY <2>3, <1>3 DEF Exclusive
  <2> QED  BY <2>1, <2>2, <2>3
<1>5. Committed \subseteq Committed' /\ Paid' \subseteq Paid
  BY DEF Committed, Held, Paid
<1>6. \A q \in Purchases \ {p} : row[q] = "none" => row'[q] = "none"
  OBVIOUS
<1> QED  BY <1>1, <1>2, <1>4, <1>5, <1>6

LEMMA LapsedGo ==
    ASSUME PurchaseInv, Without(LapsedRows), UNCHANGED ask
    PROVE  Keeps({})
  BY WithoutKeeps DEF LapsedRows, Lapsed

-----------------------------------------------------------------------------
(***************************************************************************)
(* The conjuncts the rows do not decide: where the requests and the pass   *)
(* stand, and what has been asked of the Gateway.                          *)
(***************************************************************************)
LEMMA StepInv ==
    ASSUME PurchaseInv, NEW new \in SUBSET charged, Keeps(new), UNCHANGED ask,
           serving' \in BOOLEAN, crashes' \in 0..MaxCrashes,
           pc' \in [Purchases -> Stages],
           \A p \in Purchases :
               pc'[p] \in {"new", "validating"}
                   => pc[p] \in {"new", "validating"},
           pass' \in [at : PassStages, todo : SUBSET Purchases,
                      row : SUBSET Purchases],
           pass'.todo \cup pass'.row \subseteq Committed',
           calls' \subseteq Committed', charged' \subseteq calls',
           charged \subseteq charged', elsewhere' \subseteq {a.auth : a \in Asks}
    PROVE  PurchaseInv'
<1>1. TypeOK'
  BY DEF PurchaseInv, TypeOK, ReservationTypeOK, Keeps, Committed, Held
<1>2. Exclusive' /\ Marked'
  BY DEF Keeps, Marked
<1>3. Unreserved'
  BY DEF PurchaseInv, Unreserved, Keeps
<1>4. OrdersArePaid'
  BY DEF PurchaseInv, OrdersArePaid, Keeps, Paid
<1> QED  BY <1>1, <1>2, <1>3, <1>4 DEF PurchaseInv

\* A step that leaves the reconciler and the Gateway alone.
LEMMA RequestStep ==
    ASSUME PurchaseInv, NEW new \in SUBSET charged, Keeps(new),
           UNCHANGED <<ask, gatewayVars, pass, serving, crashes>>,
           NEW p \in Purchases, NEW to \in Stages \ {"new", "validating"},
           Go(p, to)
    PROVE  PurchaseInv'
<1> USE DEF PurchaseInv, TypeOK, ReservationTypeOK
<1>1. pc' \in [Purchases -> Stages] /\ crashes' \in 0..MaxCrashes
  BY DEF Go
<1>2. \A q \in Purchases :
        pc'[q] \in {"new", "validating"} => pc[q] \in {"new", "validating"}
  BY DEF Go
<1>3. pass'.todo \cup pass'.row \subseteq Committed' /\ calls' \subseteq Committed'
      /\ charged' \subseteq calls'
  BY DEF Marked, Keeps, gatewayVars
<1> QED
  BY <1>1, <1>2, <1>3, StepInv DEF gatewayVars

\* A step that leaves the requests and the Gateway alone.
LEMMA PassStep ==
    ASSUME PurchaseInv, NEW new \in SUBSET charged, Keeps(new),
           UNCHANGED <<ask, gatewayVars, pc, crashes>>,
           serving' \in BOOLEAN,
           pass' \in [at : PassStages, todo : SUBSET Purchases,
                      row : SUBSET Purchases],
           pass'.todo \cup pass'.row \subseteq Committed
    PROVE  PurchaseInv'
<1> USE DEF PurchaseInv, TypeOK, ReservationTypeOK
<1>1. pass'.todo \cup pass'.row \subseteq Committed' /\ calls' \subseteq Committed'
      /\ charged' \subseteq calls'
  BY DEF Marked, Keeps, gatewayVars
<1> QED
  BY <1>1, StepInv DEF gatewayVars

LEMMA ArriveInv ==
    ASSUME PurchaseInv, NEW p \in Purchases, Arrive(p) \/ ReturnExistingOrder(p)
    PROVE  PurchaseInv'
<1> USE DEF ReturnExistingOrder
<1>1. Keeps({})
  BY SameRowsKeeps DEF Arrive, reservationVars
<1>2. pc' \in [Purchases -> Stages]
      /\ \A q \in Purchases :
            pc'[q] \in {"new", "validating"} => pc[q] \in {"new", "validating"}
  BY DEF PurchaseInv, TypeOK, Stages, Arrive, At, Go
<1>3. calls' \subseteq Committed' /\ charged' \subseteq calls'
      /\ pass'.todo \cup pass'.row \subseteq Committed'
  BY <1>1 DEF PurchaseInv, Marked, Keeps, Arrive, reservationVars, gatewayVars
<1> QED
  BY <1>1, <1>2, <1>3, StepInv
  DEF Arrive, reservationVars, gatewayVars, PurchaseInv, TypeOK, ReservationTypeOK

LEMMA ReserveInv ==
    ASSUME PurchaseInv, NEW p \in Purchases, Reserve(p) PROVE PurchaseInv'
<1> USE DEF Reserve, At, Go, gatewayVars
<1>1. row[p] = "none"
  BY DEF PurchaseInv, Unreserved
<1>2. /\ row' \in [Purchases -> Phases]
      /\ late' \in [Purchases -> BOOLEAN]
      /\ \A q \in Purchases : late'[q] => row'[q] \in {"pending", "attempted"}
      /\ Exclusive'
      /\ Committed \subseteq Committed'
      /\ Paid' \subseteq Paid
      /\ \A q \in Purchases \ {p} : row[q] = "none" => row'[q] = "none"
  BY <1>1, AcquireExclusive
<1>3. TypeOK'
  BY <1>2 DEF PurchaseInv, TypeOK, ReservationTypeOK, Stages
<1>4. Marked'
  BY <1>2 DEF PurchaseInv, Marked
<1>5. Unreserved'
  <2> SUFFICES ASSUME NEW q \in Purchases, pc'[q] \in {"new", "validating"}
               PROVE  row'[q] = "none"
    BY DEF Unreserved
  <2>1. q # p /\ pc[q] \in {"new", "validating"}
    BY DEF PurchaseInv, TypeOK
  <2> QED  BY <2>1, <1>2 DEF PurchaseInv, Unreserved
<1>6. OrdersArePaid'
  BY <1>2 DEF PurchaseInv, OrdersArePaid, Paid
<1> QED  BY <1>2, <1>3, <1>4, <1>5, <1>6 DEF PurchaseInv

LEMMA SettleInv ==
    ASSUME PurchaseInv, NEW p \in Purchases, Settle(p) PROVE PurchaseInv'
<1> USE DEF Settle, At, Go
<1>1. Keeps({}) /\ p \in Committed'
  <2>1. row[p] # "none" /\ Enters(p, "attempted")
    BY DEF MarkGatewaySettlementAttempt, Markable
  <2>2. p \in Committed'
    BY <2>1 DEF PurchaseInv, TypeOK, ReservationTypeOK, Enters, Committed, Held
  <2> QED  BY <2>1, <2>2, EntersKeeps
<1>2. pc' \in [Purchases -> Stages]
      /\ \A q \in Purchases :
            pc'[q] \in {"new", "validating"} => pc[q] \in {"new", "validating"}
  BY DEF PurchaseInv, TypeOK, Stages
<1>3. calls' \subseteq Committed' /\ charged' \subseteq calls'
      /\ pass'.todo \cup pass'.row \subseteq Committed'
  BY <1>1 DEF PurchaseInv, Marked, Keeps
<1> QED
  BY <1>1, <1>2, <1>3, StepInv DEF PurchaseInv, TypeOK, ReservationTypeOK

LEMMA RequestInv ==
    ASSUME PurchaseInv, NEW p \in Purchases, Request(p) PROVE PurchaseInv'
<1> USE DEF Stages
<1>1. CASE Reserve(p)  BY <1>1, ReserveInv
<1>2. CASE TurnAway(p)
  BY <1>2, LapsedGo, RequestStep DEF TurnAway, ReviewExistsOrBusy, At
<1>3. CASE Unreviewable(p) \/ NoEligibleReviewer(p) \/ InvalidPaymentSignature(p)
  <2>1. Unreviewable(p)
    BY <1>3 DEF NoEligibleReviewer, InvalidPaymentSignature
  <2> QED
    BY <2>1, SameRowsKeeps, RequestStep DEF Unreviewable, At, reservationVars
<1>4. CASE Admit(p)
  BY <1>4, SameRowsKeeps, RequestStep DEF Admit, At, reservationVars
<1>5. CASE TreasuryNotReady(p) \/ QuotePrice(p) \/ VerifyFails(p)
  BY <1>5, RespondKeeps, RequestStep
  DEF TreasuryNotReady, QuotePrice, VerifyFails, At, Respond
<1>6. CASE Settle(p)  BY <1>6, SettleInv
<1>7. CASE Abort(p)
  BY <1>7, RespondKeeps, RequestStep DEF Abort, At, Respond
<1>8. CASE Settled(p)
  <2>1. Keeps({p}) /\ {p} \in SUBSET charged
    BY <1>8, RecordKeeps DEF Settled
  <2> QED  BY <1>8, <2>1, RequestStep DEF Settled
<1>9. CASE Promote(p)
  BY <1>9, PromoteKeeps, RequestStep DEF Promote
<1>10. CASE Unsettled(p)
  BY <1>10, RespondKeeps, RequestStep DEF Unsettled, At, Respond
<1> QED
  BY <1>1, <1>2, <1>3, <1>4, <1>5, <1>6, <1>7, <1>8, <1>9, <1>10 DEF Request

LEMMA RecoveryInv ==
    ASSUME PurchaseInv, NEW p \in Purchases, Recovery(p) PROVE PurchaseInv'
<1>0. /\ pass \in [at : PassStages, todo : SUBSET Purchases,
                   row : SUBSET Purchases]
      /\ pass.todo \cup pass.row \subseteq Committed
      /\ serving \in BOOLEAN
  BY DEF PurchaseInv, TypeOK, Marked
<1>1. CASE Take(p)
  <2>1. Keeps({})
    BY <1>1, SameRowsKeeps DEF Take, reservationVars
  <2>2. /\ pass' \in [at : PassStages, todo : SUBSET Purchases,
                      row : SUBSET Purchases]
        /\ pass'.todo \cup pass'.row \subseteq Committed
    BY <1>0, <1>1 DEF Take, PassStages
  <2> QED  BY <1>0, <1>1, <2>1, <2>2, PassStep DEF Take, reservationVars
<1>2. CASE Verified(p)
  <2>1. Keeps({})
    BY <1>2, SameRowsKeeps DEF Verified, reservationVars
  <2> QED
    BY <1>0, <1>2, <2>1, PassStep
    DEF Verified, Moves, PassStages, reservationVars
<1>3. CASE SettleAgain(p)
  <2> USE <1>3 DEF SettleAgain, InHand
  <2>1. Keeps({})
    BY SameRowsKeeps
  <2>2. p \in Committed
    BY <1>0
  <2>3. calls' \subseteq Committed' /\ charged' \subseteq calls'
        /\ pass'.todo \cup pass'.row \subseteq Committed'
    BY <1>0, <2>1, <2>2 DEF PurchaseInv, Marked, Keeps, Moves
  <2>4. pass' \in [at : PassStages, todo : SUBSET Purchases,
                   row : SUBSET Purchases]
    BY <1>0 DEF Moves, PassStages
  <2> QED
    BY <2>1, <2>3, <2>4, StepInv DEF PurchaseInv, TypeOK, ReservationTypeOK
<1>4. CASE Recovered(p)
  <2>1. Keeps({p}) /\ {p} \in SUBSET charged
    BY <1>4, RecordKeeps DEF Recovered, Proven
  <2> QED
    BY <1>0, <1>4, <2>1, PassStep DEF Recovered, Moves, PassStages
<1>5. CASE PromoteRecovered(p)
  <2>1. Keeps({})
    BY <1>5, PromoteKeeps DEF PromoteRecovered
  <2> QED
    BY <1>0, <1>5, <2>1, PassStep DEF PromoteRecovered, PassOver, PassStages
<1>6. CASE Unverified(p) \/ QuoteDrifted(p) \/ NoLongerFulfillable(p)
               \/ Indeterminate(p)
  <2>0. Defer(p)
    BY <1>6 DEF Unverified, QuoteDrifted, NoLongerFulfillable, Indeterminate
  <2>1. Keeps({})
    BY <2>0, DeferKeeps, SameRowsKeeps DEF Defer
  <2> QED
    BY <1>0, <2>0, <2>1, PassStep DEF Defer, PassOver, PassStages
<1> QED
  BY <1>1, <1>2, <1>3, <1>4, <1>5, <1>6 DEF Recovery

LEMMA ReconcilerInv == ASSUME PurchaseInv, Reconciler PROVE PurchaseInv'
<1>0. /\ pass \in [at : PassStages, todo : SUBSET Purchases,
                   row : SUBSET Purchases]
      /\ pass.todo \cup pass.row \subseteq Committed
      /\ serving \in BOOLEAN
  BY DEF PurchaseInv, TypeOK, Marked
<1>1. CASE Boot
  BY <1>0, <1>1, StartupKeeps, PassStep DEF Boot, Moves, PassStages
<1>2. CASE Reconcile
  <2>1. Keeps({})
    BY <1>2, LapsedGo DEF Reconcile, DiscardExpiredUnattempted
  <2>2. RecoverableReservations \in SUBSET Purchases
        /\ RecoverableReservations \subseteq Committed
    BY DEF RecoverableReservations, Committed, Held
  <2> QED
    BY <1>0, <1>2, <2>1, <2>2, PassStep DEF Reconcile, PassStages
<1>3. CASE EndPass
  <2>1. Keeps({})
    BY <1>3, SameRowsKeeps DEF EndPass, reservationVars
  <2> QED
    BY <1>0, <1>3, <2>1, PassStep DEF EndPass, Moves, PassStages, reservationVars
<1>4. CASE \E p \in Purchases : Recovery(p)
  BY <1>4, RecoveryInv
<1> QED
  BY <1>1, <1>2, <1>3, <1>4 DEF Reconciler

LEMMA CrashInv == ASSUME PurchaseInv, Crash PROVE PurchaseInv'
<1> USE DEF Crash
<1>1. Keeps({})
  BY SameRowsKeeps DEF reservationVars
<1>2. pc' \in [Purchases -> Stages]
      /\ \A q \in Purchases :
            pc'[q] \in {"new", "validating"} => pc[q] \in {"new", "validating"}
  BY DEF Stages
<1>3. calls' \subseteq Committed' /\ charged' \subseteq calls'
      /\ pass'.todo \cup pass'.row \subseteq Committed'
  BY <1>1 DEF PurchaseInv, Marked, Keeps, reservationVars, gatewayVars
<1>4. crashes' \in 0..MaxCrashes
  BY CrashAssumption DEF PurchaseInv, TypeOK
<1>5. pass' \in [at : PassStages, todo : SUBSET Purchases,
                 row : SUBSET Purchases]
  BY DEF PassStages
<1> QED
  BY <1>1, <1>2, <1>3, <1>4, <1>5, StepInv
  DEF reservationVars, gatewayVars, PurchaseInv, TypeOK, ReservationTypeOK

LEMMA TimeInv == ASSUME PurchaseInv, Time PROVE PurchaseInv'
<1> PICK p \in Purchases : Overdue(p)
  BY DEF Time
<1>1. Keeps({})
  BY DEF Overdue, PurchaseInv, TypeOK, ReservationTypeOK, Phases, Exclusive, SameReview,
         SamePayment, Committed, Held, Keeps, Paid
<1>2. calls' \subseteq Committed' /\ charged' \subseteq calls'
      /\ pass'.todo \cup pass'.row \subseteq Committed'
  BY <1>1 DEF PurchaseInv, Marked, Keeps, Time, Overdue, gatewayVars
<1> QED
  BY <1>1, <1>2, StepInv
  DEF Time, Overdue, gatewayVars, PurchaseInv, TypeOK, ReservationTypeOK

LEMMA GatewayInv == ASSUME PurchaseInv, Gateway PROVE PurchaseInv'
<1> PICK p \in Purchases : Charge(p) \/ SpendElsewhere(p)
  BY DEF Gateway
<1>1. Keeps({})
  BY SameRowsKeeps DEF Charge, SpendElsewhere
<1>2. calls' \subseteq Committed' /\ charged' \subseteq calls'
      /\ pass'.todo \cup pass'.row \subseteq Committed'
  BY <1>1 DEF PurchaseInv, Marked, Keeps, Charge, SpendElsewhere, Gateway
<1>3. elsewhere' \subseteq {a.auth : a \in Asks}
  BY DEF Charge, SpendElsewhere, PurchaseInv, TypeOK, ReservationTypeOK
<1> QED
  BY <1>1, <1>2, <1>3, StepInv DEF Gateway, Charge, SpendElsewhere, PurchaseInv, TypeOK

LEMMA NextInv == PurchaseInv /\ [Next]_vars => PurchaseInv'
<1> SUFFICES ASSUME PurchaseInv, [Next]_vars PROVE PurchaseInv'
  OBVIOUS
<1>1. ASSUME NEW p \in Purchases, Arrive(p) \/ ReturnExistingOrder(p)
      PROVE  PurchaseInv'
  BY <1>1, ArriveInv
<1>2. ASSUME NEW p \in Purchases, Request(p) PROVE PurchaseInv'
  BY <1>2, RequestInv
<1>3. CASE UNCHANGED vars
  BY <1>3 DEF vars, reservationVars, rowVars, gatewayVars, PurchaseInv, TypeOK,
              ReservationTypeOK, Exclusive, SameReview, SamePayment, Marked,
              Committed, Held, Unreserved, OrdersArePaid
<1> QED
  BY <1>1, <1>2, <1>3, ReconcilerInv, CrashInv, TimeInv, GatewayInv DEF Next

(***************************************************************************)
(* Every reachable state of a purchase is well typed, and the four facts   *)
(* the argument rests on hold in it.                                       *)
(***************************************************************************)
THEOREM Invariance == Spec => []PurchaseInv
<1> QED
  BY InitInv, NextInv, PTL DEF Spec

(***************************************************************************)
(* Rows, requests and the reconciler's pass keep their types.              *)
(***************************************************************************)
THEOREM TypeCorrect == Spec => []TypeOK
<1>1. PurchaseInv => TypeOK
  BY DEF PurchaseInv
<1> QED
  BY <1>1, Invariance, PTL

(***************************************************************************)
(* No two purchases whose payment may have been taken are for the same job *)
(* or request or with the same authorization.                              *)
(***************************************************************************)
THEOREM ChargedOnce == Spec => []NoSecondCharge
<1>1. PurchaseInv => NoSecondCharge
  BY DEF PurchaseInv, Marked, Exclusive, NoSecondCharge, Committed, Held
<1> QED
  BY <1>1, Invariance, PTL

(***************************************************************************)
(* Whatever may have been charged is an order, or holds its job's row.     *)
(***************************************************************************)
THEOREM NothingForgotten == Spec => []ChargesAreKept
<1>1. PurchaseInv => ChargesAreKept
  BY DEF PurchaseInv, Marked, ChargesAreKept
<1> QED
  BY <1>1, Invariance, PTL

(***************************************************************************)
(* Every order, and every row taken for paid, was charged for itself.      *)
(***************************************************************************)
THEOREM PaidForItself == Spec => []OrdersArePaid
<1>1. PurchaseInv => OrdersArePaid
  BY DEF PurchaseInv
<1> QED
  BY <1>1, Invariance, PTL

-----------------------------------------------------------------------------
(***************************************************************************)
(* The refinement of PurchasePromise.  It needs two facts that the safety  *)
(* properties do not: an order stays one, and only a purchase that carries *)
(* an authorization is ever marked (Signed), so that two charged ones with *)
(* equal funds share a payment.                                            *)
(***************************************************************************)
Signed ==
    \A p \in Purchases :
        p \in Committed \/ pc[p] = "verifying" => ask[p].auth # NoAuth

\* Orders stay orders, and of the rows only new may be marked by the step.
Onward(new) ==
    /\ \A q \in Purchases : row[q] = "order" => row'[q] = "order"
    /\ Committed' \subseteq Committed \cup new

\* The operations on rows that mark none.
LEMMA QuietOnward ==
    ASSUME PurchaseInv, NEW p \in Purchases,
           \/ UNCHANGED rowVars
           \/ Without(LapsedRows)
           \/ ReleaseReviewReservation(p)
           \/ AcquireReviewReservation(p)
           \/ PromoteReviewReservation(p)
           \/ ReconcileSettledReviewReservations
    PROVE  Onward({})
<1> USE DEF PurchaseInv, TypeOK, ReservationTypeOK, Phases, Onward, Committed, Held
<1>1. CASE UNCHANGED rowVars
  BY <1>1 DEF rowVars
<1>2. CASE Without(LapsedRows) \/ ReleaseReviewReservation(p)
  BY <1>2 DEF Without, LapsedRows, Lapsed, ReleaseReviewReservation, Releasable, rowVars
<1>3. CASE AcquireReviewReservation(p)
  <2>1. row[p] # "none" => Lapsed(p)
    BY <1>3 DEF AcquireReviewReservation, Taken, SameReview
  <2> QED
    BY <1>3, <2>1 DEF AcquireReviewReservation, Lapsed
<1>4. CASE PromoteReviewReservation(p)
  BY <1>4 DEF PromoteReviewReservation, Enters, rowVars
<1>5. CASE ReconcileSettledReviewReservations
  BY <1>5 DEF ReconcileSettledReviewReservations
<1> QED  BY <1>1, <1>2, <1>3, <1>4, <1>5

\* Those that may mark one.
LEMMA MarkOnward ==
    ASSUME PurchaseInv, NEW p \in Purchases,
           \/ MarkGatewaySettlementAttempt(p)
           \/ RecordReviewReservationSettlement(p)
           \/ DeferGatewayReservationRecovery(p)
    PROVE  Onward({p})
  BY DEF PurchaseInv, TypeOK, ReservationTypeOK, Phases, Onward, Committed, Held,
         MarkGatewaySettlementAttempt, Markable, RecordReviewReservationSettlement,
         DeferGatewayReservationRecovery, Enters, rowVars

\* What a step must give for the refinement.
Refines ==
    /\ UNCHANGED ask
    /\ \A q \in Purchases : row[q] = "order" => row'[q] = "order"
    /\ Signed'
    /\ \/ UNCHANGED charged
       \/ UNCHANGED row /\ \E p \in Purchases : Charge(p)

LEMMA OnwardRefines ==
    ASSUME PurchaseInv, Signed, NEW new \in SUBSET Purchases, Onward(new),
           UNCHANGED <<ask, charged>>,
           \A p \in new : ask[p].auth # NoAuth,
           \A p \in Purchases :
               pc'[p] = "verifying" => pc[p] = "verifying" \/ ask[p].auth # NoAuth
    PROVE  Refines
  BY DEF Refines, Signed, Onward

LEMMA RequestRefines ==
    ASSUME PurchaseInv, Signed, NEW p \in Purchases,
           Arrive(p) \/ ReturnExistingOrder(p) \/ Request(p)
    PROVE  Refines
<1>0. pc \in [Purchases -> Stages] /\ charged \subseteq Committed
  BY DEF PurchaseInv, TypeOK, Marked
<1>1. \A q \in Purchases :
         pc'[q] = "verifying" => pc[q] = "verifying" \/ ask[q].auth # NoAuth
  BY <1>0 DEF Arrive, ReturnExistingOrder, Request, Unreviewable, NoEligibleReviewer,
     InvalidPaymentSignature, Reserve, TurnAway, Admit, TreasuryNotReady, QuotePrice,
     VerifyFails, Settle, Abort, Settled, Promote, Unsettled, Respond, Go
<1>2. UNCHANGED <<ask, charged>>
  BY DEF Arrive, ReturnExistingOrder, Request, Unreviewable, NoEligibleReviewer,
     InvalidPaymentSignature, Reserve, TurnAway, Admit, TreasuryNotReady, QuotePrice,
     VerifyFails, Settle, Abort, Settled, Promote, Unsettled, reservationVars, gatewayVars
<1>3. CASE Settle(p) \/ Settled(p)
  <2>1. ask[p].auth # NoAuth
    BY <1>0, <1>3 DEF Settle, Settled, At, Signed
  <2>2. Onward({p})
    BY <1>3, MarkOnward DEF Settle, Settled
  <2> QED
    BY <1>1, <1>2, <2>1, <2>2, OnwardRefines
<1>4. CASE ~(Settle(p) \/ Settled(p))
  <2>1. Onward({})
    BY <1>4, QuietOnward DEF Arrive, ReturnExistingOrder, Request, Unreviewable,
       NoEligibleReviewer, InvalidPaymentSignature, Reserve, TurnAway, ReviewExistsOrBusy,
       Admit, TreasuryNotReady, QuotePrice, VerifyFails, Abort, Promote, Unsettled, Respond,
       reservationVars
  <2> QED
    BY <1>1, <1>2, <2>1, OnwardRefines
<1> QED  BY <1>3, <1>4

LEMMA RecoveryRefines ==
    ASSUME PurchaseInv, Signed, NEW p \in Purchases, Recovery(p)
    PROVE  Refines
<1>0. pass.row \subseteq Committed
  BY DEF PurchaseInv, Marked
<1>1. UNCHANGED <<ask, charged, pc>>
  BY DEF Recovery, Take, Verified, SettleAgain, Recovered, PromoteRecovered, Unverified,
     QuoteDrifted, NoLongerFulfillable, Indeterminate, Defer, reservationVars, gatewayVars
<1>2. CASE Take(p) \/ Verified(p) \/ SettleAgain(p) \/ PromoteRecovered(p)
  <2>1. Onward({})
    BY <1>2, QuietOnward DEF Take, Verified, SettleAgain, PromoteRecovered, reservationVars
  <2> QED
    BY <1>1, <2>1, OnwardRefines
<1>3. CASE \/ Recovered(p) \/ Unverified(p) \/ QuoteDrifted(p)
           \/ NoLongerFulfillable(p) \/ Indeterminate(p)
  <2>1. InHand(p) /\ ask[p].auth # NoAuth
    BY <1>0, <1>3 DEF Recovered, Unverified, QuoteDrifted, NoLongerFulfillable, Indeterminate,
       Defer, InHand, Signed
  <2>2. Onward({}) \/ Onward({p})
    BY <1>3, QuietOnward, MarkOnward DEF Recovered, Unverified, QuoteDrifted,
       NoLongerFulfillable, Indeterminate, Defer
  <2> QED
    BY <1>1, <2>1, <2>2, OnwardRefines
<1> QED  BY <1>2, <1>3 DEF Recovery

LEMMA NextRefines == ASSUME PurchaseInv, Signed, [Next]_vars PROVE Refines
<1>1. ASSUME NEW p \in Purchases, Arrive(p) \/ ReturnExistingOrder(p) \/ Request(p)
      PROVE  Refines
  BY <1>1, RequestRefines
<1>2. CASE Reconciler
  <2>1. CASE Boot \/ Reconcile \/ EndPass
    <3>1. CASE Purchases = {}
      BY <2>1, <3>1 DEF Refines, Signed, Boot, Reconcile, EndPass, reservationVars, gatewayVars
    <3>2. CASE Purchases # {}
      <4>1. Onward({})
        BY <2>1, <3>2, QuietOnward DEF Boot, Reconcile, EndPass, DiscardExpiredUnattempted,
           reservationVars
      <4> QED
        BY <2>1, <4>1, OnwardRefines DEF Boot, Reconcile, EndPass, reservationVars, gatewayVars
    <3> QED  BY <3>1, <3>2
  <2> QED  BY <1>2, <2>1, RecoveryRefines DEF Reconciler
<1>3. CASE Crash
  BY <1>3 DEF Crash, Refines, Signed, Committed, Held, reservationVars, rowVars, gatewayVars
<1>4. CASE Time
  BY <1>4 DEF Time, Overdue, Refines, Signed, Committed, Held, gatewayVars
<1>5. CASE Gateway
  BY <1>5 DEF Gateway, Charge, SpendElsewhere, Refines, Signed, Committed, Held, rowVars
<1>6. CASE UNCHANGED vars
  BY <1>6 DEF vars, Refines, Signed, Committed, Held, reservationVars, rowVars, gatewayVars
<1> QED  BY <1>1, <1>2, <1>3, <1>4, <1>5, <1>6 DEF Next

\* The one step of the promise that is not a stutter or an order: a charge.
LEMMA ChargeIsPromised ==
    ASSUME PurchaseInv, Signed, NEW p \in Purchases, Charge(p), UNCHANGED row
    PROVE  Promise!Charge(p)
<1>1. charged \subseteq Committed /\ p \in Committed /\ charged \subseteq Purchases
  BY DEF PurchaseInv, Marked, TypeOK, ReservationTypeOK, Charge
<1>2. ASSUME NEW q \in charged PROVE ~Promise!Rivals(p, q)
  <2>1. q # p \/ ask[p].auth # NoAuth
    BY <1>1 DEF Signed
  <2>2. ~SamePayment(p, q)
    BY DEF Charge, Spent
  <2>3. q # p /\ ask[p].auth # ask[q].auth
    BY <1>1, <2>2 DEF SamePayment, Signed
  <2>4. ~SameReview(p, q)
    BY <1>1, <2>3 DEF PurchaseInv, Exclusive, Committed, Held
  <2> QED
    BY <1>1, <2>3, <2>4 DEF Promise!Rivals, SameReview
<1> QED
  BY <1>2 DEF Promise!Charge, Charge, Held

LEMMA StepIsPromised ==
    ASSUME PurchaseInv, PurchaseInv', Signed, [Next]_vars
    PROVE  Signed' /\ [Promise!Next]_(Promise!promiseVars)
<1>1. Refines
  BY NextRefines
<1>2. CASE UNCHANGED row /\ \E p \in Purchases : Charge(p)
  <2> PICK p \in Purchases : Charge(p)
    BY <1>2
  <2>1. Promise!Charge(p)
    BY <1>2, ChargeIsPromised
  <2>2. p \notin charged
    BY <2>1 DEF Charge, Spent, SamePayment, PurchaseInv, Marked, Signed
  <2> QED
    BY <1>1, <2>1, <2>2 DEF Promise!Next, Refines
<1>3. CASE UNCHANGED charged
  <2>1. Held({"order"}) \subseteq Held({"order"})'
    BY <1>1 DEF Refines, Held
  <2>2. Held({"order"})' \subseteq charged
    BY <1>3 DEF PurchaseInv, OrdersArePaid, Held
  <2>3. Promise!Fulfil(Held({"order"})')
    BY <1>1, <1>3, <2>1 DEF Promise!Fulfil, Refines
  <2> QED
    BY <1>1, <2>2, <2>3 DEF Promise!Next, Refines
<1> QED
  BY <1>1, <1>2, <1>3 DEF Refines

(***************************************************************************)
(* The route, its crashes and the reconciler implement PurchasePromise, for*)
(* any number of purchases: an authorization is charged at most once, one  *)
(* purchase of a job or a request at most, and only what was charged       *)
(* becomes an order, for good.                                             *)
(***************************************************************************)
THEOREM PromiseKept == Spec => KeepsPurchasePromise
<1>1. Init => Signed /\ Promise!Init
  BY DEF Init, ReservationInit, Signed, Committed, Held, Promise!Init
<1>2. PurchaseInv /\ PurchaseInv' /\ Signed /\ [Next]_vars
        => Signed' /\ [Promise!Next]_(Promise!promiseVars)
  BY StepIsPromised
<1> QED
  BY <1>1, <1>2, Invariance, PTL DEF Spec, KeepsPurchasePromise, Promise!Spec

-----------------------------------------------------------------------------
(***************************************************************************)
(* From "settled" to the order.  What a step must give for one purchase:   *)
(* whoever was about to promote it still is, or has, or the start of the   *)
(* service will; and a row is not settled without somebody to promote it.  *)
(***************************************************************************)
Carries(p) ==
    /\ PromoteDue(p) => PromoteDue(p)' \/ RecoverDue(p)' \/ row'[p] = "order"
    /\ RecoverDue(p) => RecoverDue(p)' \/ row'[p] = "order"
    /\ row'[p] = "settled" => row[p] = "settled" \/ PromoteDue(p)' \/ RecoverDue(p)'

\* Nobody else touches the row, and who is at it stays at it.
LeftAlone(p) ==
    /\ row'[p] = "settled" <=> row[p] = "settled"
    /\ pc[p] = "promoting" => pc'[p] = "promoting"
    /\ pass.at = "boot" => pass'.at = "boot"
    /\ pass.at = "promoting" => pass' = pass

LEMMA LeftAloneCarries ==
    ASSUME NEW p \in Purchases, LeftAlone(p)
    PROVE  Carries(p)
BY DEF LeftAlone, Carries, PromoteDue, RecoverDue, InHand

\* Operations that neither settle a row nor touch a settled one.
LEMMA SettledRowsStay ==
    ASSUME PurchaseInv, NEW p \in Purchases, NEW q \in Purchases,
           \/ UNCHANGED rowVars
           \/ Without(LapsedRows)
           \/ ReleaseReviewReservation(q)
           \/ AcquireReviewReservation(q)
           \/ MarkGatewaySettlementAttempt(q)
           \/ DeferGatewayReservationRecovery(q)
    PROVE  row'[p] = "settled" <=> row[p] = "settled"
<1> USE DEF PurchaseInv, TypeOK, ReservationTypeOK
<1>1. CASE UNCHANGED rowVars
  BY <1>1 DEF rowVars
<1>2. CASE Without(LapsedRows) \/ ReleaseReviewReservation(q)
  BY <1>2 DEF Without, LapsedRows, Lapsed, ReleaseReviewReservation, Releasable, rowVars
<1>3. CASE AcquireReviewReservation(q)
  <2>1. row[q] # "none" => Lapsed(q)
    BY <1>3 DEF AcquireReviewReservation, Taken, SameReview
  <2> QED  BY <1>3, <2>1 DEF AcquireReviewReservation, Lapsed, Phases
<1>4. CASE MarkGatewaySettlementAttempt(q) \/ DeferGatewayReservationRecovery(q)
  BY <1>4 DEF MarkGatewaySettlementAttempt, Markable, DeferGatewayReservationRecovery,
              Enters, rowVars
<1> QED  BY <1>1, <1>2, <1>3, <1>4

\* Exclusive: no order is in the way of a settled row.
LEMMA SettledIsFree ==
    ASSUME PurchaseInv, NEW p \in Purchases, row[p] = "settled"
    PROVE  ~Ordered(p)
BY DEF PurchaseInv, Exclusive, Ordered

LEMMA PromotionOrders ==
    ASSUME PurchaseInv, NEW p \in Purchases, PromoteReviewReservation(p)
    PROVE  row'[p] = "order" /\ \A q \in Purchases \ {p} : row'[q] = row[q]
<1>1. row[p] = "settled" /\ ~Ordered(p)
  BY SettledIsFree DEF PromoteReviewReservation
<1> QED
  BY <1>1 DEF PromoteReviewReservation, Enters, PurchaseInv, TypeOK, ReservationTypeOK

LEMMA RecordSettles ==
    ASSUME PurchaseInv, NEW q \in Purchases, RecordReviewReservationSettlement(q)
    PROVE  row'[q] = "settled" /\ \A p \in Purchases \ {q} : row'[p] = row[p]
BY DEF RecordReviewReservationSettlement, Enters, rowVars, PurchaseInv, TypeOK,
       ReservationTypeOK

LEMMA RequestCarries ==
    ASSUME PurchaseInv, NEW p \in Purchases, NEW q \in Purchases,
           Arrive(q) \/ ReturnExistingOrder(q) \/ Request(q)
    PROVE  Carries(p)
<1>0. pc \in [Purchases -> Stages]
  BY DEF PurchaseInv, TypeOK
<1>1. UNCHANGED pass
  BY DEF Arrive, ReturnExistingOrder, Request, Unreviewable, NoEligibleReviewer,
     InvalidPaymentSignature, Reserve, TurnAway, Admit, TreasuryNotReady, QuotePrice,
     VerifyFails, Settle, Abort, Settled, Promote, Unsettled
<1>2. CASE Promote(q)
  <2>1. row'[q] = "order" /\ \A r \in Purchases \ {q} : row'[r] = row[r]
    BY <1>2, PromotionOrders DEF Promote
  <2>2. CASE p = q
    BY <2>1, <2>2 DEF Carries
  <2>3. CASE p # q
    <3>1. row'[p] = row[p] /\ pc'[p] = pc[p]
      BY <1>0, <1>2, <2>1, <2>3 DEF Promote, Go
    <3> QED  BY <1>1, <3>1, LeftAloneCarries DEF LeftAlone
  <2> QED  BY <2>2, <2>3
<1>3. CASE Settled(q)
  <2>1. /\ row'[q] = "settled" /\ pc'[q] = "promoting"
        /\ \A r \in Purchases \ {q} : row'[r] = row[r] /\ pc'[r] = pc[r]
    BY <1>0, <1>3, RecordSettles DEF Settled, Go
  <2>2. CASE p = q
    <3>1. PromoteDue(p)'
      BY <2>1, <2>2 DEF PromoteDue
    <3>2. RecoverDue(p) => RecoverDue(p)'
      BY <1>1, <2>1, <2>2 DEF RecoverDue, InHand
    <3> QED  BY <3>1, <3>2 DEF Carries
  <2>3. CASE p # q
    BY <1>1, <2>1, <2>3, LeftAloneCarries DEF LeftAlone
  <2> QED  BY <2>2, <2>3
<1>4. CASE ~(Promote(q) \/ Settled(q))
  <2>1. row'[p] = "settled" <=> row[p] = "settled"
    BY <1>4, SettledRowsStay DEF Arrive, ReturnExistingOrder, Request, Unreviewable,
       NoEligibleReviewer, InvalidPaymentSignature, Reserve, TurnAway, ReviewExistsOrBusy,
       Admit, TreasuryNotReady, QuotePrice, VerifyFails, Settle, Abort, Unsettled, Respond,
       reservationVars
  <2>2. pc[p] # "promoting"
    BY <1>4 DEF Arrive, ReturnExistingOrder, Request, Unreviewable, NoEligibleReviewer,
       InvalidPaymentSignature, Reserve, TurnAway, Admit, TreasuryNotReady, QuotePrice,
       VerifyFails, Settle, Abort, Unsettled, At, Awaiting
  <2> QED  BY <1>1, <2>1, <2>2, LeftAloneCarries DEF LeftAlone
<1> QED  BY <1>2, <1>3, <1>4

LEMMA RecoveryCarries ==
    ASSUME PurchaseInv, NEW p \in Purchases, NEW q \in Purchases, Recovery(q)
    PROVE  Carries(p)
<1>0. /\ pass \in [at : PassStages, todo : SUBSET Purchases, row : SUBSET Purchases]
      /\ UNCHANGED pc
  BY DEF PurchaseInv, TypeOK, Recovery, Take, Verified, SettleAgain, Recovered,
     PromoteRecovered, Unverified, QuoteDrifted, NoLongerFulfillable, Indeterminate, Defer
<1>1. CASE PromoteRecovered(q)
  <2>1. row'[q] = "order" /\ \A r \in Purchases \ {q} : row'[r] = row[r]
    BY <1>1, PromotionOrders DEF PromoteRecovered
  <2>2. CASE p = q
    BY <2>1, <2>2 DEF Carries
  <2>3. CASE p # q
    <3>1. ~RecoverDue(p)
      BY <1>1, <2>3 DEF PromoteRecovered, RecoverDue, InHand
    <3> QED  BY <1>0, <2>1, <2>3, <3>1 DEF Carries, PromoteDue
  <2> QED  BY <2>2, <2>3
<1>2. CASE Recovered(q)
  <2>1. /\ row'[q] = "settled" /\ pass'.at = "promoting" /\ pass'.row = {q}
        /\ \A r \in Purchases \ {q} : row'[r] = row[r]
    BY <1>0, <1>2, RecordSettles DEF Recovered, Moves, InHand
  <2>2. pass.at = "settling"
    BY <1>2 DEF Recovered
  <2>3. CASE p = q
    BY <2>1, <2>3 DEF Carries, RecoverDue, InHand
  <2>4. CASE p # q
    BY <1>0, <2>1, <2>2, <2>4, LeftAloneCarries DEF LeftAlone
  <2> QED  BY <2>3, <2>4
<1>3. CASE ~(PromoteRecovered(q) \/ Recovered(q))
  <2>1. row'[p] = "settled" <=> row[p] = "settled"
    BY <1>3, SettledRowsStay DEF Recovery, Take, Verified, SettleAgain, Unverified,
       QuoteDrifted, NoLongerFulfillable, Indeterminate, Defer, reservationVars
  <2>2. pass.at \notin {"boot", "promoting"}
    BY <1>3 DEF Recovery, Take, Verified, SettleAgain, Unverified, QuoteDrifted,
       NoLongerFulfillable, Indeterminate
  <2> QED  BY <1>0, <2>1, <2>2, LeftAloneCarries DEF LeftAlone
<1> QED  BY <1>1, <1>2, <1>3

LEMMA ReconcilerCarries ==
    ASSUME PurchaseInv, NEW p \in Purchases, Reconciler
    PROVE  Carries(p)
<1>1. CASE Boot
  <2>1. row[p] = "settled" => row'[p] = "order"
    BY <1>1, SettledIsFree DEF Boot, ReconcileSettledReviewReservations
  <2>2. row'[p] = "settled" => row[p] = "settled"
    BY <1>1 DEF Boot, ReconcileSettledReviewReservations
  <2> QED  BY <2>1, <2>2 DEF Carries, PromoteDue, RecoverDue
<1>2. CASE Reconcile \/ EndPass
  <2>1. row'[p] = "settled" <=> row[p] = "settled"
    BY <1>2, SettledRowsStay DEF Reconcile, EndPass, DiscardExpiredUnattempted,
       reservationVars
  <2> QED
    BY <1>2, <2>1, LeftAloneCarries DEF Reconcile, EndPass, Awaiting, LeftAlone
<1> QED  BY <1>1, <1>2, RecoveryCarries DEF Reconciler

LEMMA StepCarries ==
    ASSUME PurchaseInv, [Next]_vars, NEW p \in Purchases
    PROVE  Carries(p)
<1>1. ASSUME NEW q \in Purchases, Arrive(q) \/ ReturnExistingOrder(q) \/ Request(q)
      PROVE  Carries(p)
  BY <1>1, RequestCarries
<1>2. CASE Crash
  BY <1>2 DEF Crash, Carries, PromoteDue, RecoverDue, reservationVars, rowVars
<1>3. CASE Time \/ Gateway \/ UNCHANGED vars
  BY <1>3, LeftAloneCarries
  DEF Time, Overdue, Gateway, Charge, SpendElsewhere, vars, reservationVars, rowVars,
      LeftAlone
<1> QED  BY <1>1, <1>2, <1>3, ReconcilerCarries DEF Next

(***************************************************************************)
(* A purchase that was recorded as paid is always in somebody's hands: its *)
(* request, the reconciler or the next start of the service promotes it.   *)
(***************************************************************************)
THEOREM SettledIsNeverLeft == Spec => []SettledInHand
<1>1. Init => SettledInHand
  BY DEF Init, ReservationInit, SettledInHand
<1>2. PurchaseInv /\ SettledInHand /\ [Next]_vars => SettledInHand'
  <2> SUFFICES ASSUME PurchaseInv, SettledInHand, [Next]_vars,
                      NEW p \in Purchases, row'[p] = "settled"
               PROVE  PromoteDue(p)' \/ RecoverDue(p)'
    BY DEF SettledInHand
  <2>1. Carries(p)
    BY StepCarries
  <2> QED  BY <2>1 DEF Carries, SettledInHand
<1> QED  BY <1>1, <1>2, Invariance, PTL DEF Spec

(***************************************************************************)
(* What is assumed of the process, with PromoteDue and RecoverDue for what *)
(* makes the steps possible: what stays due is done in the end.            *)
(***************************************************************************)
PromotionsRun(p) ==
    /\ []<>~PromoteDue(p) \/ []<><<Request(p)>>_vars
    /\ []<>~RecoverDue(p) \/ []<><<Reconciler>>_vars

LEMMA DuePromotes ==
    ASSUME PurchaseInv, NEW p \in Purchases
    PROVE  /\ PromoteDue(p) /\ Request(p) => row'[p] = "order"
           /\ RecoverDue(p) /\ Reconciler => row'[p] = "order"
<1>1. ASSUME PromoteDue(p), Request(p)
      PROVE  row'[p] = "order"
  <2>1. Promote(p)
    BY <1>1 DEF PromoteDue, Request, Unreviewable, NoEligibleReviewer,
       InvalidPaymentSignature, Reserve, TurnAway, Admit, TreasuryNotReady, QuotePrice,
       VerifyFails, Settle, Abort, Settled, Unsettled, At
  <2> QED  BY <2>1, PromotionOrders DEF Promote
<1>2. ASSUME RecoverDue(p), Reconciler
      PROVE  row'[p] = "order"
  <2>1. CASE pass.at = "boot"
    <3>1. Boot
      BY <1>2, <2>1 DEF Reconciler, Reconcile, EndPass, Recovery, Take, Verified,
         SettleAgain, Recovered, PromoteRecovered, Unverified, QuoteDrifted,
         NoLongerFulfillable, Indeterminate
    <3> QED
      BY <1>2, <3>1, SettledIsFree DEF RecoverDue, Boot, ReconcileSettledReviewReservations
  <2>2. CASE pass.at = "promoting" /\ InHand(p)
    <3>1. PICK q \in Purchases : PromoteRecovered(q)
      BY <1>2, <2>2 DEF Reconciler, Boot, Reconcile, EndPass, Recovery, Take, Verified,
         SettleAgain, Recovered, Unverified, QuoteDrifted, NoLongerFulfillable, Indeterminate
    <3>2. q = p
      BY <2>2, <3>1 DEF PromoteRecovered, InHand
    <3> QED  BY <3>1, <3>2, PromotionOrders DEF PromoteRecovered
  <2> QED  BY <1>2, <2>1, <2>2 DEF RecoverDue
<1> QED  BY <1>1, <1>2

(***************************************************************************)
(* What was recorded as paid becomes an order, across crashes in between.  *)
(***************************************************************************)
THEOREM SettledEndsAsOrder ==
    ASSUME NEW p \in Purchases
    PROVE  Spec /\ PromotionsRun(p) => (row[p] = "settled" ~> row[p] = "order")
<1> DEFINE settled == row[p] = "settled"
           ordered == row[p] = "order"
           byRequest == PromoteDue(p)
           byRestart == RecoverDue(p)
<1>1. PurchaseInv /\ [Next]_vars =>
        /\ byRequest => byRequest' \/ byRestart' \/ ordered'
        /\ byRestart => byRestart' \/ ordered'
  BY StepCarries DEF Carries
<1>2. PurchaseInv /\ <<Request(p)>>_vars => (byRequest => ordered')
  BY DuePromotes
<1>3. PurchaseInv /\ <<Reconciler>>_vars => (byRestart => ordered')
  BY DuePromotes
<1>4. SettledInHand => (settled => byRequest \/ byRestart)
  BY DEF SettledInHand
<1>5. Spec => []PurchaseInv /\ []SettledInHand /\ [][Next]_vars
  BY Invariance, SettledIsNeverLeft, PTL DEF Spec
<1>6. PromotionsRun(p) =>
        /\ []<>~byRequest \/ []<><<Request(p)>>_vars
        /\ []<>~byRestart \/ []<><<Reconciler>>_vars
  BY DEF PromotionsRun
<1> HIDE DEF settled, ordered, byRequest, byRestart
<1>7. Spec /\ PromotionsRun(p) => (settled ~> ordered)
  BY <1>1, <1>2, <1>3, <1>4, <1>5, <1>6, PTL
<1> QED  BY <1>7 DEF settled, ordered

-----------------------------------------------------------------------------
(***************************************************************************)
(* The treasury, for any number of reviews, any prefund and any number of  *)
(* transfers.                                                              *)
(***************************************************************************)

(***************************************************************************)
(* How a count follows the one value that changes.                         *)
(***************************************************************************)
One(b) == IF b THEN 1 ELSE 0

LEMMA CountMoves ==
    ASSUME NEW f, NEW g, NEW p \in Reviews, NEW v, NEW some,
           DOMAIN f = Reviews, g = [f EXCEPT ![p] = v]
    PROVE  /\ Cardinality({q \in Reviews : f[q] \in some}) \in Nat
           /\ Cardinality({q \in Reviews : g[q] \in some})
                = Cardinality({q \in Reviews : f[q] \in some})
                    + One(v \in some) - One(f[p] \in some)
<1> DEFINE a == {q \in Reviews : f[q] \in some}
           b == {q \in Reviews : g[q] \in some}
<1>1. a \subseteq Reviews /\ (p \in a <=> f[p] \in some)
  OBVIOUS
<1>2. b = IF v \in some THEN a \cup {p} ELSE a \ {p}
  OBVIOUS
<1> HIDE DEF a, b
<1>3. IsFiniteSet(a) /\ Cardinality(a) \in Nat
  BY <1>1, AdmissionAssumption, FS_Subset, FS_CardinalityType
<1>4. Cardinality(a \cup {p}) = IF p \in a THEN Cardinality(a) ELSE Cardinality(a) + 1
  BY <1>3, FS_AddElement
<1>5. Cardinality(a \ {p}) = IF p \in a THEN Cardinality(a) - 1 ELSE Cardinality(a)
  BY <1>3, FS_RemoveElement
<1>6. Cardinality(b) = Cardinality(a) + One(v \in some) - One(f[p] \in some)
  BY <1>1, <1>2, <1>3, <1>4, <1>5 DEF One
<1> QED  BY <1>3, <1>6 DEF a, b

\* What an order of a stage may still cost, and how the total follows a stage.
Worth(s) == 2 * One(s \in {"open"}) + One(s \in {"rewarded", "expired"})

LEMMA LiabilitiesMove ==
    ASSUME AdmissionTypeOK, NEW p \in Reviews, NEW s \in ReviewStages, Becomes(p, s)
    PROVE  Liabilities \in Nat /\ Liabilities' = Liabilities + Worth(s) - Worth(stage[p])
<1> PICK f \in [Reviews -> ReviewStages] : f = stage
  BY DEF AdmissionTypeOK
<1> PICK g : g = [f EXCEPT ![p] = s]
  OBVIOUS
<1>1. g = stage'
  BY DEF Becomes
<1>0. DOMAIN f = Reviews /\ g = [f EXCEPT ![p] = s]
  OBVIOUS
<1>2. ASSUME NEW some
      PROVE  /\ Cardinality({q \in Reviews : f[q] \in some}) \in Nat
             /\ Cardinality({q \in Reviews : g[q] \in some})
                  = Cardinality({q \in Reviews : f[q] \in some})
                      + One(s \in some) - One(f[p] \in some)
  BY ONLY <1>0, CountMoves, p \in Reviews
<1>3. /\ Cardinality(In({"open"})) \in Nat
      /\ Cardinality(In({"open"}))'
           = Cardinality(In({"open"})) + One(s \in {"open"}) - One(f[p] \in {"open"})
  BY <1>1, <1>2 DEF In
<1>4. /\ Cardinality(In({"rewarded", "expired"})) \in Nat
      /\ Cardinality(In({"rewarded", "expired"}))'
           = Cardinality(In({"rewarded", "expired"}))
               + One(s \in {"rewarded", "expired"}) - One(f[p] \in {"rewarded", "expired"})
  BY <1>1, <1>2 DEF In
<1>5. \A b \in BOOLEAN : One(b) \in {0, 1}
  BY DEF One
<1> QED  BY <1>3, <1>4, <1>5 DEF Liabilities, Worth, One

\* A transfer is unnoticed from being sent to being recorded.
LEMMA UnnoticedMove ==
    ASSUME AdmissionTypeOK, NEW p \in Reviews, NEW t \in Transfers,
           transfer' = [transfer EXCEPT ![p] = t]
    PROVE  /\ Cardinality(Unnoticed) \in Nat
           /\ Cardinality(Unnoticed)'
                = Cardinality(Unnoticed) + One(t = "sent") - One(transfer[p] = "sent")
<1> PICK f \in [Reviews -> Transfers] : f = transfer
  BY DEF AdmissionTypeOK
<1> PICK g : g = [f EXCEPT ![p] = t]
  OBVIOUS
<1>1. g = transfer'
  OBVIOUS
<1>0. DOMAIN f = Reviews /\ g = [f EXCEPT ![p] = t]
  OBVIOUS
<1>2. ASSUME NEW some
      PROVE  /\ Cardinality({q \in Reviews : f[q] \in some}) \in Nat
             /\ Cardinality({q \in Reviews : g[q] \in some})
                  = Cardinality({q \in Reviews : f[q] \in some})
                      + One(t \in some) - One(f[p] \in some)
  BY ONLY <1>0, CountMoves, p \in Reviews
<1>3. /\ Unnoticed = {q \in Reviews : f[q] \in {"sent"}}
      /\ Unnoticed' = {q \in Reviews : g[q] \in {"sent"}}
  BY <1>1 DEF Unnoticed
<1> QED  BY <1>2, <1>3 DEF One

\* What is left of the reservations up to one's own is no more than before.
LEMMA ThroughShrinks ==
    ASSUME NEW q \in Reviews, Through(q)' \subseteq Through(q)
    PROVE  /\ Cardinality(Through(q)) \in Nat
           /\ Cardinality(Through(q))' \in Nat
           /\ Cardinality(Through(q))' <= Cardinality(Through(q))
<1> PICK old : old = Through(q)
  OBVIOUS
<1> PICK new : new = Through(q)'
  OBVIOUS
<1>1. old \subseteq Reviews /\ new \subseteq old
  BY DEF Through, In
<1>2. IsFiniteSet(old) /\ Cardinality(old) \in Nat
  BY <1>1, AdmissionAssumption, FS_Subset, FS_CardinalityType
<1>3. Cardinality(new) \in Nat /\ Cardinality(new) <= Cardinality(old)
  BY <1>1, <1>2, FS_Subset, FS_CardinalityType
<1> QED  BY <1>2, <1>3

\* A reservation that is paid for leaves those of the later ones.
LEMMA ThroughLoses ==
    ASSUME NEW p \in Reviews, NEW q \in Reviews, NEW r \in Reviews, p \in Through(r),
           Through(q)' \subseteq Through(r) \ {p}
    PROVE  /\ Cardinality(Through(r)) \in Nat
           /\ Cardinality(Through(q))' \in Nat
           /\ Cardinality(Through(q))' + 1 <= Cardinality(Through(r))
<1> PICK old : old = Through(r)
  OBVIOUS
<1> PICK new : new = Through(q)'
  OBVIOUS
<1>1. old \subseteq Reviews /\ new \subseteq old \ {p} /\ p \in old
  BY DEF Through, In
<1>2. IsFiniteSet(old) /\ Cardinality(old) \in Nat
  BY <1>1, AdmissionAssumption, FS_Subset, FS_CardinalityType
<1>3. IsFiniteSet(old \ {p}) /\ Cardinality(old \ {p}) = Cardinality(old) - 1
  BY <1>1, <1>2, FS_RemoveElement
<1>4. Cardinality(new) \in Nat /\ Cardinality(new) <= Cardinality(old \ {p})
  BY <1>1, <1>3, FS_Subset, FS_CardinalityType
<1> QED  BY <1>2, <1>3, <1>4

(***************************************************************************)
(* Most steps admit nobody, put nobody in front of an admitted one, and    *)
(* add no more to the liabilities than to what backs them.                 *)
(***************************************************************************)
BalancesBacked == cache <= Backing /\ \A p \in Reviews : seen[p] <= Backing

Counted ==
    Liabilities \in Nat /\ Cardinality(Unnoticed) \in Nat /\ Backing \in Nat

LEMMA Counts == AdmissionTypeOK => Counted
<1> SUFFICES ASSUME AdmissionTypeOK PROVE Counted
  OBVIOUS
<1>1. \A set \in SUBSET Reviews : Cardinality(set) \in Nat
  BY AdmissionAssumption, FS_Subset, FS_CardinalityType
<1>2. \A some : Cardinality(In(some)) \in Nat
  BY <1>1 DEF In
<1>3. Cardinality(Unnoticed) \in Nat
  BY <1>1 DEF Unnoticed
<1>4. Liabilities \in Nat
  BY <1>2 DEF Liabilities
<1>5. Backing \in Nat
  BY <1>3 DEF Backing, AdmissionTypeOK
<1> QED  BY <1>3, <1>4, <1>5 DEF Counted

\* Arithmetic of a step: what is owed grows by no more than its backing.
LEMMA LiabilitiesFit ==
    ASSUME NEW l \in Nat, NEW m \in Nat, NEW b \in Nat, NEW c \in Nat,
           m + b <= l + c, l <= b
    PROVE  m <= c
OBVIOUS

LEMMA RequiredFits ==
    ASSUME NEW l \in Nat, NEW m \in Nat, NEW b \in Nat, NEW c \in Nat,
           NEW i \in Nat, NEW j \in Nat, j <= i, m + b <= l + c, l + 2 * i <= b
    PROVE  m + 2 * j <= c
OBVIOUS

LEMMA CountsAfter == AdmissionTypeOK' => Counted'
BY Counts, PTL

LEMMA CoveredStays ==
    ASSUME Covered, BalancesBacked',
           NEW l \in Nat, l = Liabilities, NEW m \in Nat, m = Liabilities',
           NEW b \in Nat, b = Backing, NEW c \in Nat, c = Backing', m + b <= l + c,
           In({"admitted"})' \subseteq In({"admitted"}),
           \A q \in In({"admitted"})' : Through(q)' \subseteq Through(q)
    PROVE  Covered'
<1>3. l <= b
  BY DEF Covered
<1>4. m <= c
  BY <1>3, LiabilitiesFit
<1>5. ASSUME NEW q \in In({"admitted"})'
      PROVE  RequiredTreasuryBalance(q)' <= Backing'
  <2>1. q \in Reviews /\ q \in In({"admitted"})
    BY <1>5 DEF In
  <2>2. /\ Cardinality(Through(q)) \in Nat /\ Cardinality(Through(q))' \in Nat
        /\ Cardinality(Through(q))' <= Cardinality(Through(q))
    BY <1>5, <2>1, ThroughShrinks
  <2> PICK i \in Nat, j \in Nat :
          i = Cardinality(Through(q)) /\ j = Cardinality(Through(q))'
    BY <2>2
  <2>3. l + 2 * i <= b /\ j <= i
    BY <2>1, <2>2 DEF Covered, RequiredTreasuryBalance
  <2>4. m + 2 * j <= c
    BY <2>3, RequiredFits
  <2> QED  BY <2>4 DEF RequiredTreasuryBalance
<1> QED  BY <1>4, <1>5 DEF Covered, BalancesBacked

-----------------------------------------------------------------------------
(***************************************************************************)
(* A reservation is of an instant that has passed, a balance is only       *)
(* awaited by a reservation, a transfer by an order.                       *)
(***************************************************************************)
Shape == AdmissionTypeOK /\ BornByNow /\ StagesAgree

LEMMA ShapeInit == AdmissionInit => Shape
<1> SUFFICES ASSUME AdmissionInit PROVE Shape
  OBVIOUS
<1>1. AdmissionTypeOK
  BY AdmissionAssumption
  DEF AdmissionInit, AdmissionTypeOK, ReviewStages, Transfers, Empty
<1> QED
  BY <1>1 DEF AdmissionInit, Shape, BornByNow, StagesAgree

LEMMA HoldKeepsShape ==
    ASSUME Shape, NEW p \in Reviews, Hold(p)
    PROVE  Shape'
<1>1. AdmissionTypeOK'
  BY DEF Shape, Hold, AdmissionTypeOK, Becomes, ReviewStages
<1>2. BornByNow'
  BY DEF Shape, Hold, AdmissionTypeOK, Becomes, BornByNow
<1>3. StagesAgree'
  BY DEF Shape, Hold, AdmissionTypeOK, Becomes, StagesAgree
<1> QED  BY <1>1, <1>2, <1>3 DEF Shape

\* A step on the stage of what is already reserved.
LEMMA BecomesKeepsOrder ==
    ASSUME Shape, NEW p \in Reviews, NEW s \in ReviewStages, Becomes(p, s),
           stage[p] # "none", UNCHANGED <<born, rank, now>>
    PROVE  BornByNow' /\ stage' \in [Reviews -> ReviewStages]
BY DEF Shape, AdmissionTypeOK, BornByNow, Becomes

LEMMA PurchaseKeepsShape ==
    ASSUME Shape, NEW p \in Reviews, Purchase(p)
    PROVE  Shape'
<1>1. CASE Hold(p)
  BY <1>1, HoldKeepsShape
<1>2. CASE DecideFromCache(p)
  <2> PICK s \in {"admitted", "closed"} : Becomes(p, s)
    BY <1>2 DEF DecideFromCache, Decide
  <2>1. BornByNow' /\ stage' \in [Reviews -> ReviewStages]
    BY <1>2, BecomesKeepsOrder DEF DecideFromCache, ReviewStages
  <2>2. AdmissionTypeOK' /\ StagesAgree'
    BY <1>2, <2>1 DEF DecideFromCache, Becomes, Shape, AdmissionTypeOK, StagesAgree
  <2> QED  BY <2>1, <2>2 DEF Shape
<1>3. CASE ReadBalance(p)
  BY <1>3 DEF ReadBalance, Shape, AdmissionTypeOK, BornByNow, StagesAgree
<1>4. CASE DecideFromChain(p)
  <2> PICK s \in {"admitted", "closed"} : Becomes(p, s)
    BY <1>4 DEF DecideFromChain, Decide
  <2>1. stage[p] = "reserved" /\ transfer[p] = "none"
    BY <1>4 DEF DecideFromChain, Shape, StagesAgree
  <2>2. BornByNow' /\ stage' \in [Reviews -> ReviewStages]
    BY <1>4, <2>1, BecomesKeepsOrder DEF DecideFromChain, ReviewStages
  <2>3. AdmissionTypeOK' /\ StagesAgree'
    BY <1>4, <2>1, <2>2
    DEF DecideFromChain, Becomes, Shape, AdmissionTypeOK, StagesAgree
  <2> QED  BY <2>2, <2>3 DEF Shape
<1>5. CASE Pay(p)
  <2> PICK s \in {"open", "closed"} : Becomes(p, s)
    BY <1>5 DEF Pay
  <2>1. BornByNow' /\ stage' \in [Reviews -> ReviewStages]
    BY <1>5, BecomesKeepsOrder DEF Pay, ReviewStages
  <2>2. AdmissionTypeOK' /\ StagesAgree'
    BY <1>5, <2>1 DEF Pay, Becomes, Shape, AdmissionTypeOK, StagesAgree
  <2> QED  BY <2>1, <2>2 DEF Shape
<1> QED  BY <1>1, <1>2, <1>3, <1>4, <1>5 DEF Purchase

LEMMA OrderKeepsShape ==
    ASSUME Shape, NEW p \in Reviews, Order(p)
    PROVE  Shape'
<1>1. CASE Expire(p) \/ Resolve(p)
  <2> PICK s \in {"expired", "closed"} : Becomes(p, s)
    BY <1>1 DEF Expire, Resolve
  <2>1. BornByNow' /\ stage' \in [Reviews -> ReviewStages]
    BY <1>1, BecomesKeepsOrder DEF Expire, Resolve, ReviewStages
  <2>2. AdmissionTypeOK' /\ StagesAgree'
    BY <1>1, <2>1
    DEF Expire, Resolve, Becomes, Shape, AdmissionTypeOK, StagesAgree
  <2> QED  BY <2>1, <2>2 DEF Shape
<1>2. CASE CreateTransfer(p) \/ CarryOut(p)
  <2>1. AdmissionTypeOK'
    BY <1>2 DEF CreateTransfer, CarryOut, Shape, AdmissionTypeOK, Transfers, Empty
  <2>2. BornByNow' /\ StagesAgree'
    BY <1>2
    DEF CreateTransfer, CarryOut, Shape, AdmissionTypeOK, BornByNow, StagesAgree
  <2> QED  BY <2>1, <2>2 DEF Shape
<1>3. CASE Complete(p)
  <2> PICK s \in {"rewarded", "closed"} : Becomes(p, s)
    BY <1>3 DEF Complete
  <2>1. stage[p] \in {"open", "rewarded", "expired"} /\ seen[p] = Empty
    BY <1>3 DEF Complete, Shape, StagesAgree
  <2>2. BornByNow' /\ stage' \in [Reviews -> ReviewStages]
    BY <1>3, <2>1, BecomesKeepsOrder DEF Complete, ReviewStages
  <2>3. AdmissionTypeOK' /\ StagesAgree'
    BY <1>3, <2>1, <2>2
    DEF Complete, Becomes, Shape, AdmissionTypeOK, StagesAgree, Transfers, Empty
  <2> QED  BY <2>2, <2>3 DEF Shape
<1> QED  BY <1>1, <1>2, <1>3 DEF Order

LEMMA ShapeStep ==
    ASSUME Shape, [AdmissionNext]_admissionVars
    PROVE  Shape'
<1>1. CASE UNCHANGED admissionVars
  BY <1>1 DEF admissionVars, Shape, AdmissionTypeOK, BornByNow, StagesAgree
<1>2. CASE Tick \/ CacheExpires
  BY <1>2
  DEF Tick, CacheExpires, Shape, AdmissionTypeOK, BornByNow, StagesAgree, Empty
<1> QED
  BY <1>1, <1>2, PurchaseKeepsShape, OrderKeepsShape DEF AdmissionNext

-----------------------------------------------------------------------------
(***************************************************************************)
(* What backs the liabilities.                                             *)
(***************************************************************************)
LEMMA ThroughStays ==
    ASSUME In({"reserved", "admitted"})' \subseteq In({"reserved", "admitted"}),
           UNCHANGED <<born, rank>>
    PROVE  \A q \in Reviews : Through(q)' \subseteq Through(q)
BY DEF Through, UpTo, In

LEMMA WorthIsCounted == \A s : Worth(s) \in Nat
BY DEF Worth, One

\* A stage that is worth less than the one before it owes no more.
LEMMA NoMoreIsOwed ==
    ASSUME NEW l \in Nat, NEW m \in Nat, NEW b \in Nat, NEW v \in Nat, NEW w \in Nat,
           m = l + v - w, v <= w
    PROVE  m + b <= l + b
OBVIOUS

\* A review moves on, and owes no more than it did.
LEMMA MovingOn ==
    ASSUME Shape, Shape', Covered, NEW p \in Reviews, NEW s \in ReviewStages,
           Becomes(p, s), s \notin {"reserved", "admitted"},
           Worth(s) <= Worth(stage[p]),
           UNCHANGED <<born, rank, treasury, transfer>>, BalancesBacked'
    PROVE  Covered'
<1>1. AdmissionTypeOK /\ AdmissionTypeOK'
  BY DEF Shape
<1> PICK l \in Nat, m \in Nat, b \in Nat :
        l = Liabilities /\ m = Liabilities' /\ b = Backing
  BY <1>1, Counts, CountsAfter DEF Counted
<1> PICK v \in Nat, w \in Nat : v = Worth(s) /\ w = Worth(stage[p])
  BY WorthIsCounted
<1>2. m = l + v - w
  BY <1>1, LiabilitiesMove
<1>3. b = Backing'
  BY DEF Backing, Unnoticed
<1>4. m + b <= l + b
  BY <1>2, NoMoreIsOwed
<1>5. In({"admitted"})' \subseteq In({"admitted"})
  BY <1>1 DEF In, Becomes, AdmissionTypeOK
<1>6. In({"reserved", "admitted"})' \subseteq In({"reserved", "admitted"})
  BY <1>1 DEF In, Becomes, AdmissionTypeOK
<1>7. \A q \in In({"admitted"})' : Through(q)' \subseteq Through(q)
  BY <1>6, ThroughStays DEF In
<1> QED  BY <1>3, <1>4, <1>5, <1>7, CoveredStays

\* Nothing of what counts changes.
LEMMA StagesStay ==
    ASSUME Shape, Covered, UNCHANGED <<stage, born, rank>>,
           Backing' = Backing, BalancesBacked'
    PROVE  Covered'
BY DEF Covered, BalancesBacked, Liabilities, RequiredTreasuryBalance, Through, UpTo,
       In

\* A new reservation comes after those that are admitted.
LEMMA HoldKeepsCovered ==
    ASSUME Shape, Shape', Covered, NEW p \in Reviews, Hold(p), ~overtaken'
    PROVE  Covered'
<1>1. AdmissionTypeOK /\ AdmissionTypeOK'
  BY DEF Shape
<1>2. /\ stage[p] = "none" /\ Becomes(p, "reserved") /\ "reserved" \in ReviewStages
      /\ UNCHANGED <<rank, now, seen, cache, treasury, transfer, stale>>
  BY DEF Hold, ReviewStages
<1> PICK l \in Nat, m \in Nat, b \in Nat :
        l = Liabilities /\ m = Liabilities' /\ b = Backing
  BY <1>1, Counts, CountsAfter DEF Counted
<1>3. m = l
  BY <1>1, <1>2, LiabilitiesMove DEF Worth, One
<1>4. b = Backing' /\ m + b <= l + b
  BY <1>2, <1>3 DEF Backing, Unnoticed
<1>5. In({"admitted"})' \subseteq In({"admitted"})
  BY <1>1, <1>2 DEF In, Becomes, AdmissionTypeOK
<1>6. ASSUME NEW q \in In({"admitted"})' PROVE Through(q)' \subseteq Through(q)
  <2>1. /\ q \in Reviews /\ stage[q] = "admitted" /\ stage'[q] = "admitted" /\ q # p
        /\ stage'[p] = "reserved"
    BY <1>1, <1>2, <1>6 DEF In, Becomes, AdmissionTypeOK
  <2>2. \A r \in Reviews \ {p} : born'[r] = born[r]
    BY <1>1 DEF Hold, AdmissionTypeOK
  <2>3. q \in In({"admitted"})
    BY <2>1 DEF In
  <2>4. ~UpTo(p, q)'
    BY <2>3 DEF Hold
  <2>5. p \notin Through(q)'
    BY <2>4 DEF Through
  <2>6. \A r \in Reviews \ {p} : stage'[r] = stage[r]
    BY <1>1, <1>2 DEF Becomes, AdmissionTypeOK
  <2> QED  BY <1>2, <2>1, <2>2, <2>5, <2>6 DEF Through, UpTo, In
<1>7. BalancesBacked'
  BY <1>2 DEF Covered, BalancesBacked, Backing, Unnoticed
<1> QED  BY <1>4, <1>5, <1>6, <1>7, CoveredStays

\* A decision compares with a balance that is at most the backing.
LEMMA AtMost ==
    ASSUME NEW r \in Nat, NEW x \in Nat, NEW b \in Nat, x >= r, x <= b
    PROVE  r <= b
OBVIOUS

LEMMA DecisionKeepsCovered ==
    ASSUME Shape, Shape', Covered, NEW p \in Reviews, NEW balance \in Nat,
           stage[p] = "reserved", balance <= Backing, Decide(p, balance),
           UNCHANGED <<born, rank, treasury, transfer>>, BalancesBacked'
    PROVE  Covered'
<1>1. AdmissionTypeOK /\ AdmissionTypeOK'
  BY DEF Shape
<1>2. CASE ~(balance >= RequiredTreasuryBalance(p))
  <2>1. Becomes(p, "closed") /\ "closed" \in ReviewStages
    BY <1>2 DEF Decide, ReviewStages
  <2>2. Worth("closed") <= Worth(stage[p])
    BY DEF Worth, One
  <2> QED  BY <2>1, <2>2, MovingOn
<1>3. CASE balance >= RequiredTreasuryBalance(p)
  <2>1. Becomes(p, "admitted") /\ "admitted" \in ReviewStages
    BY <1>3 DEF Decide, ReviewStages
  <2> PICK l \in Nat, m \in Nat, b \in Nat :
          l = Liabilities /\ m = Liabilities' /\ b = Backing
    BY <1>1, Counts, CountsAfter DEF Counted
  <2>2. m = l
    BY <1>1, <2>1, LiabilitiesMove DEF Worth, One
  <2>3. b = Backing'
    BY DEF Backing, Unnoticed
  <2>4. \A q \in Reviews : Through(q)' = Through(q)
    BY <1>1, <2>1 DEF Through, UpTo, In, Becomes, AdmissionTypeOK
  <2>5. \A q \in Reviews : RequiredTreasuryBalance(q)' = RequiredTreasuryBalance(q)
    BY <2>2, <2>4 DEF RequiredTreasuryBalance
  <2>6. In({"admitted"})' = In({"admitted"}) \cup {p}
    BY <1>1, <2>1 DEF In, Becomes, AdmissionTypeOK
  <2>7. RequiredTreasuryBalance(p) \in Nat
    <3>1. Cardinality(Through(p)) \in Nat
      BY <2>4, ThroughShrinks
    <3> QED  BY <3>1 DEF RequiredTreasuryBalance
  <2>8. RequiredTreasuryBalance(p) <= Backing
    BY <1>3, <2>7, AtMost
  <2>9. \A q \in In({"admitted"})' : RequiredTreasuryBalance(q)' <= Backing'
    BY <2>3, <2>5, <2>6, <2>8 DEF Covered, In
  <2>10. Liabilities' <= Backing'
    BY <2>2, <2>3 DEF Covered
  <2> QED  BY <2>9, <2>10 DEF Covered, BalancesBacked
<1> QED  BY <1>2, <1>3

\* Arithmetic of an opening: two more owed, one reservation less in front.
LEMMA OneLess ==
    ASSUME NEW l \in Nat, NEW m \in Nat, NEW b \in Nat, NEW i \in Nat, NEW j \in Nat,
           m = l + 2, j + 1 <= i, l + 2 * i <= b
    PROVE  m + 2 * j <= b
OBVIOUS

\* The order of the reservations is total, and an order.
LEMMA OneOfTwo ==
    ASSUME AdmissionTypeOK
    PROVE  \A p, q \in Reviews : UpTo(p, q) \/ UpTo(q, p)
BY DEF AdmissionTypeOK, UpTo, Tokens

LEMMA UpToAnother ==
    ASSUME AdmissionTypeOK
    PROVE  \A p, q, r \in Reviews : UpTo(p, q) /\ UpTo(q, r) => UpTo(p, r)
BY DEF AdmissionTypeOK, UpTo, Tokens

\* A paid reservation becomes an order: what it was counted as, it now owes.
LEMMA OpeningKeepsCovered ==
    ASSUME Shape, Shape', Covered, NEW p \in Reviews, stage[p] = "admitted",
           Becomes(p, "open"), UNCHANGED <<born, rank, treasury, transfer, cache, seen>>
    PROVE  Covered'
<1>1. AdmissionTypeOK /\ AdmissionTypeOK' /\ "open" \in ReviewStages
  BY DEF Shape, ReviewStages
<1> PICK l \in Nat, m \in Nat, b \in Nat :
        l = Liabilities /\ m = Liabilities' /\ b = Backing
  BY <1>1, Counts, CountsAfter DEF Counted
<1>2. m = l + 2
  BY <1>1, LiabilitiesMove DEF Worth, One
<1>3. b = Backing'
  BY DEF Backing, Unnoticed
<1>4. p \in Through(p) /\ p \in In({"admitted"})
  BY <1>1 DEF Through, UpTo, In, AdmissionTypeOK, Tokens
<1>5. In({"admitted"})' = In({"admitted"}) \ {p}
  BY <1>1 DEF In, Becomes, AdmissionTypeOK
<1>6. In({"reserved", "admitted"})' = In({"reserved", "admitted"}) \ {p}
  BY <1>1 DEF In, Becomes, AdmissionTypeOK
<1>7. \A q \in Reviews : Through(q)' = Through(q) \ {p}
  BY <1>6 DEF Through, UpTo, In
<1>8. ASSUME NEW r \in In({"admitted"}), NEW q \in Reviews, p \in Through(r),
             Through(q)' \subseteq Through(r) \ {p}
      PROVE  RequiredTreasuryBalance(q)' <= b
  <2> PICK i \in Nat, j \in Nat :
          i = Cardinality(Through(r)) /\ j = Cardinality(Through(q))' /\ j + 1 <= i
    BY <1>8, ThroughLoses DEF In
  <2>1. l + 2 * i <= b
    BY DEF Covered, RequiredTreasuryBalance
  <2>2. m + 2 * j <= b
    BY <1>2, <2>1, OneLess
  <2> QED  BY <2>2 DEF RequiredTreasuryBalance
<1>9. ASSUME NEW q \in In({"admitted"})' PROVE RequiredTreasuryBalance(q)' <= b
  <2>1. q \in Reviews /\ q \in In({"admitted"}) /\ q # p
    BY <1>5, <1>9 DEF In
  <2>2. CASE p \in Through(q)
    BY <1>7, <1>8, <2>1, <2>2
  <2>3. CASE p \notin Through(q)
    <3>1. UpTo(q, p) /\ p \in Reviews
      BY <1>1, <1>4, <2>1, <2>3, OneOfTwo DEF Through, In
    <3>2. Through(q) \subseteq Through(p)
      BY <1>1, <2>1, <3>1, UpToAnother DEF Through, In
    <3> QED  BY <1>4, <1>7, <1>8, <2>1, <3>2
  <2> QED  BY <2>2, <2>3
<1>10. m <= b
  <2> PICK i \in Nat : i = Cardinality(Through(p)) /\ 1 <= i
    <3>1. Through(p)' \subseteq Through(p) \ {p}
      BY <1>7
    <3> QED  BY <1>4, <3>1, ThroughLoses
  <2>1. l + 2 * i <= b
    BY <1>4 DEF Covered, RequiredTreasuryBalance
  <2> QED  BY <1>2, <2>1
<1>11. BalancesBacked'
  BY <1>3 DEF Covered, BalancesBacked
<1> QED  BY <1>3, <1>9, <1>10, <1>11 DEF Covered, BalancesBacked

LEMMA PurchaseKeepsCovered ==
    ASSUME Shape, Shape', Covered, NEW p \in Reviews, Purchase(p), ~overtaken'
    PROVE  Covered'
<1>0. AdmissionTypeOK
  BY DEF Shape
<1>1. CASE Hold(p)
  BY <1>1, HoldKeepsCovered
<1>2. CASE DecideFromCache(p)
  <2>1. stage[p] = "reserved" /\ cache \in Nat /\ cache <= Backing /\ Decide(p, cache)
    BY <1>0, <1>2 DEF DecideFromCache, AdmissionTypeOK, Covered
  <2>2. BalancesBacked' /\ UNCHANGED <<born, rank, treasury, transfer>>
    BY <1>2 DEF DecideFromCache, Covered, BalancesBacked, Backing, Unnoticed
  <2> QED  BY <2>1, <2>2, DecisionKeepsCovered
<1>3. CASE ReadBalance(p)
  <2>1. treasury <= Backing
    BY <1>0, Counts DEF Counted, Backing, AdmissionTypeOK
  <2>2. Backing' = Backing
    BY <1>3 DEF ReadBalance, Backing, Unnoticed
  <2>3. \A q \in Reviews : seen'[q] \in {seen[q], treasury}
    BY <1>0, <1>3 DEF ReadBalance, AdmissionTypeOK
  <2>4. BalancesBacked'
    BY <1>3, <2>1, <2>2, <2>3 DEF ReadBalance, BalancesBacked, Covered
  <2> QED  BY <1>3, <2>2, <2>4, StagesStay DEF ReadBalance
<1>4. CASE DecideFromChain(p)
  <2>1. stage[p] = "reserved" /\ seen[p] \in Nat /\ seen[p] <= Backing /\ Decide(p, seen[p])
    BY <1>0, <1>4 DEF DecideFromChain, Shape, StagesAgree, AdmissionTypeOK, Covered
  <2>2. Empty <= Backing
    BY <1>0, Counts DEF Counted, Empty
  <2>3. Backing' = Backing /\ UNCHANGED <<born, rank, treasury, transfer>>
    BY <1>4 DEF DecideFromChain, Backing, Unnoticed
  <2>4. \A q \in Reviews : seen'[q] \in {seen[q], Empty}
    BY <1>0, <1>4 DEF DecideFromChain, AdmissionTypeOK
  <2>5. BalancesBacked'
    BY <1>4, <2>1, <2>2, <2>3, <2>4 DEF DecideFromChain, BalancesBacked, Covered
  <2> QED  BY <2>1, <2>3, <2>5, DecisionKeepsCovered
<1>5. CASE Pay(p) /\ Becomes(p, "open")
  BY <1>5, OpeningKeepsCovered DEF Pay
<1>6. CASE Pay(p) /\ Becomes(p, "closed")
  <2>1. BalancesBacked' /\ UNCHANGED <<born, rank, treasury, transfer>>
    BY <1>6 DEF Pay, Covered, BalancesBacked, Backing, Unnoticed
  <2>2. "closed" \in ReviewStages /\ Worth("closed") <= Worth(stage[p])
    BY <1>6 DEF Pay, Worth, One, ReviewStages
  <2> QED  BY <1>6, <2>1, <2>2, MovingOn
<1> QED  BY <1>1, <1>2, <1>3, <1>4, <1>5, <1>6 DEF Purchase, Pay

(***************************************************************************)
(* A transfer that was carried out has left the treasury and is not yet    *)
(* noticed; when it is noticed, nobody may hold a balance from before.     *)
(***************************************************************************)
LEMMA CarryOutKeepsCovered ==
    ASSUME Shape, Covered, NEW p \in Reviews, CarryOut(p)
    PROVE  Covered'
<1>1. AdmissionTypeOK
  BY DEF Shape
<1>2. /\ Cardinality(Unnoticed) \in Nat
      /\ Cardinality(Unnoticed)' = Cardinality(Unnoticed) + 1
  <2>1. "sent" \in Transfers /\ transfer[p] = "created"
        /\ transfer' = [transfer EXCEPT ![p] = "sent"]
    BY DEF CarryOut, Transfers
  <2>2. /\ Cardinality(Unnoticed) \in Nat
        /\ Cardinality(Unnoticed)' = Cardinality(Unnoticed)
             + One("sent" = "sent") - One(transfer[p] = "sent")
    BY <1>1, <2>1, UnnoticedMove
  <2>3. One("sent" = "sent") = 1 /\ One(transfer[p] = "sent") = 0
    BY <2>1 DEF One
  <2> QED  BY <2>2, <2>3
<1>3. treasury' = treasury - 1 /\ treasury \in Nat
  BY <1>1 DEF CarryOut, AdmissionTypeOK
<1>4. Backing' = Backing
  BY <1>2, <1>3 DEF Backing
<1>5. BalancesBacked'
  BY <1>4 DEF CarryOut, BalancesBacked, Covered
<1> QED  BY <1>4, <1>5, StagesStay DEF CarryOut

LEMMA CompleteKeepsCovered ==
    ASSUME Shape, Shape', Covered, NEW p \in Reviews, Complete(p), ~stale'
    PROVE  Covered'
<1>1. AdmissionTypeOK /\ AdmissionTypeOK'
  BY DEF Shape
<1> PICK s \in {"rewarded", "closed"} :
        Becomes(p, s) /\ s = IF stage[p] = "open" THEN "rewarded" ELSE "closed"
  BY DEF Complete
<1>2. stage[p] \in {"open", "rewarded", "expired"} /\ s \in ReviewStages
  BY DEF Complete, Shape, StagesAgree, ReviewStages
<1> PICK l \in Nat, m \in Nat, b \in Nat, c \in Nat :
        l = Liabilities /\ m = Liabilities' /\ b = Backing /\ c = Backing'
  BY <1>1, Counts, CountsAfter DEF Counted
<1>3. m = l - 1
  <2>1. Worth(s) = Worth(stage[p]) - 1 /\ Worth(s) \in Nat
    BY <1>2 DEF Worth, One
  <2>2. Liabilities' = Liabilities + Worth(s) - Worth(stage[p])
    BY <1>1, <1>2, LiabilitiesMove
  <2> PICK v \in Nat : v = Worth(s) /\ Worth(stage[p]) = v + 1
    BY <2>1, WorthIsCounted
  <2> QED  BY <2>2
<1>4. c = b - 1
  <2>1. /\ Cardinality(Unnoticed) \in Nat
        /\ Cardinality(Unnoticed)' = Cardinality(Unnoticed) - 1
    <3>1. "none" \in Transfers /\ transfer[p] = "sent"
          /\ transfer' = [transfer EXCEPT ![p] = "none"]
      BY DEF Complete, Transfers
    <3>2. /\ Cardinality(Unnoticed) \in Nat
          /\ Cardinality(Unnoticed)' = Cardinality(Unnoticed)
               + One("none" = "sent") - One(transfer[p] = "sent")
      BY <1>1, <3>1, UnnoticedMove
    <3>3. One("none" = "sent") = 0 /\ One(transfer[p] = "sent") = 1
      BY <3>1 DEF One
    <3> QED  BY <3>2, <3>3
  <2>2. treasury' = treasury /\ treasury \in Nat
    BY <1>1 DEF Complete, AdmissionTypeOK
  <2> QED  BY <2>1, <2>2 DEF Backing
<1>5. m + b <= l + c
  BY <1>3, <1>4
<1>6. In({"admitted"})' \subseteq In({"admitted"})
  BY <1>1 DEF In, Becomes, AdmissionTypeOK
<1>7. In({"reserved", "admitted"})' \subseteq In({"reserved", "admitted"})
  BY <1>1 DEF In, Becomes, AdmissionTypeOK
<1>8. \A q \in In({"admitted"})' : Through(q)' \subseteq Through(q)
  BY <1>7, ThroughStays DEF In, Complete
<1>9. BalancesBacked'
  <2>1. ~(cache' > treasury) /\ \A q \in Reviews : ~(seen[q] > treasury)
    BY DEF Complete
  <2>2. treasury' <= Backing'
    BY <1>1, CountsAfter DEF Counted, Backing, AdmissionTypeOK
  <2>3. /\ UNCHANGED <<seen, treasury>> /\ treasury \in Nat /\ cache' \in Nat \cup {Empty}
        /\ seen \in [Reviews -> Nat \cup {Empty}]
    BY <1>1 DEF Complete, AdmissionTypeOK
  <2> QED  BY <2>1, <2>2, <2>3 DEF BalancesBacked, Empty
<1> QED  BY <1>5, <1>6, <1>8, <1>9, CoveredStays

LEMMA OrderKeepsCovered ==
    ASSUME Shape, Shape', Covered, NEW p \in Reviews, Order(p), ~stale'
    PROVE  Covered'
<1>0. AdmissionTypeOK
  BY DEF Shape
<1>1. CASE Expire(p)
  <2>1. BalancesBacked' /\ UNCHANGED <<born, rank, treasury, transfer>>
    BY <1>1 DEF Expire, Covered, BalancesBacked, Backing, Unnoticed
  <2>2. "expired" \in ReviewStages /\ Worth("expired") <= Worth(stage[p])
    BY <1>1 DEF Expire, Worth, One, ReviewStages
  <2> QED  BY <1>1, <2>1, <2>2, MovingOn DEF Expire
<1>2. CASE Resolve(p)
  <2>1. BalancesBacked' /\ UNCHANGED <<born, rank, treasury, transfer>>
    BY <1>2 DEF Resolve, Covered, BalancesBacked, Backing, Unnoticed
  <2>2. "closed" \in ReviewStages /\ Worth("closed") <= Worth(stage[p])
    BY <1>2 DEF Resolve, Worth, One, ReviewStages
  <2> QED  BY <1>2, <2>1, <2>2, MovingOn DEF Resolve
<1>3. CASE CreateTransfer(p)
  <2>1. /\ Cardinality(Unnoticed) \in Nat
        /\ Cardinality(Unnoticed)' = Cardinality(Unnoticed)
    <3>1. "created" \in Transfers /\ transfer[p] = "none"
          /\ transfer' = [transfer EXCEPT ![p] = "created"]
      BY <1>3 DEF CreateTransfer, Transfers
    <3>2. /\ Cardinality(Unnoticed) \in Nat
          /\ Cardinality(Unnoticed)' = Cardinality(Unnoticed)
               + One("created" = "sent") - One(transfer[p] = "sent")
      BY <1>0, <3>1, UnnoticedMove
    <3>3. One("created" = "sent") = 0 /\ One(transfer[p] = "sent") = 0
      BY <3>1 DEF One
    <3> QED  BY <3>2, <3>3
  <2>2. Backing' = Backing
    BY <1>3, <2>1 DEF CreateTransfer, Backing
  <2>3. Empty <= Backing
    BY <1>0, Counts DEF Counted, Empty
  <2>4. BalancesBacked'
    BY <1>3, <2>2, <2>3 DEF CreateTransfer, BalancesBacked, Covered
  <2> QED  BY <1>3, <2>2, <2>4, StagesStay DEF CreateTransfer
<1>4. CASE CarryOut(p)
  BY <1>4, CarryOutKeepsCovered
<1>5. CASE Complete(p)
  BY <1>5, CompleteKeepsCovered
<1> QED  BY <1>1, <1>2, <1>3, <1>4, <1>5 DEF Order

LEMMA StaleStays ==
    ASSUME AdmissionTypeOK, [AdmissionNext]_admissionVars
    PROVE  (stale => stale') /\ (overtaken => overtaken')
BY DEF AdmissionTypeOK, AdmissionNext, admissionVars, Purchase, Order, Hold,
       DecideFromCache, ReadBalance, DecideFromChain, Pay, Expire, Resolve,
       CreateTransfer, CarryOut, Complete, Tick, CacheExpires

LEMMA AdmissionStep ==
    ASSUME AdmissionInv, [AdmissionNext]_admissionVars
    PROVE  AdmissionInv'
<1>1. Shape /\ Shape' /\ AdmissionTypeOK
  BY ShapeStep DEF Shape, AdmissionInv
<1>2. ASSUME ~stale', ~overtaken' PROVE Covered'
  <2>1. Covered
    BY <1>1, <1>2, StaleStays DEF AdmissionInv
  <2>2. CASE UNCHANGED admissionVars \/ Tick \/ CacheExpires
    <3>1. Backing' = Backing /\ UNCHANGED <<stage, born, rank>>
      BY <2>2 DEF admissionVars, Tick, CacheExpires, Backing, Unnoticed
    <3>2. Empty <= Backing
      BY <1>1, Counts DEF Counted, Empty
    <3>3. BalancesBacked'
      BY <2>1, <2>2, <3>1, <3>2
      DEF admissionVars, Tick, CacheExpires, BalancesBacked, Covered
    <3> QED  BY <1>1, <2>1, <3>1, <3>3, StagesStay
  <2> QED
    BY <1>1, <1>2, <2>1, <2>2, PurchaseKeepsCovered, OrderKeepsCovered
    DEF AdmissionNext
<1> QED  BY <1>1, <1>2 DEF Shape, AdmissionInv

\* Of the numbers some reviews have, one is the greatest.
LEMMA Greatest ==
    ASSUME NEW S, S # {}, NEW f, NEW m \in Nat, \A q \in S : f[q] \in 0..m
    PROVE  \E q \in S : \A r \in S : f[r] <= f[q]
<1> DEFINE below == {m - f[q] : q \in S}
<1>1. below # {} /\ below \subseteq Nat
  OBVIOUS
<1> HIDE DEF below
<1>2. PICK x \in below : \A y \in below : <<y, x>> \notin OpToRel(<, Nat)
  BY <1>1, NatLessThanWellFounded, WFMin
<1>3. \A y \in below : ~(y < x)
  BY <1>1, <1>2 DEF OpToRel
<1>4. PICK q \in S : x = m - f[q]
  BY DEF below
<1>5. ASSUME NEW r \in S PROVE f[r] <= f[q]
  <2>1. ~(m - f[r] < m - f[q])
    BY <1>3, <1>4 DEF below
  <2> QED  BY <2>1
<1> QED  BY <1>5

\* Of several admitted reservations one is the last.
LEMMA LastAdmitted ==
    ASSUME AdmissionTypeOK, BornByNow, In({"admitted"}) # {}
    PROVE  \E q \in In({"admitted"}) : In({"admitted"}) \subseteq Through(q)
<1>1. /\ now \in Nat
      /\ \A q \in In({"admitted"}) : born[q] \in 0..now
  BY DEF In, BornByNow, AdmissionTypeOK
<1>2. PICK p \in In({"admitted"}) : \A r \in In({"admitted"}) : born[r] <= born[p]
  BY <1>1, Greatest
<1> DEFINE same == {q \in In({"admitted"}) : born[q] = born[p]}
<1> DEFINE n == Cardinality(Reviews)
<1>3. n \in Nat
  BY AdmissionAssumption, FS_CardinalityType
<1>4. \A q \in same : rank[q] \in 1..n
  BY DEF In, AdmissionTypeOK, Tokens
<1>5. \A q \in same : rank[q] \in 0..n
  <2> HIDE DEF n
  <2> QED  BY <1>3, <1>4
<1>6. same # {}
  OBVIOUS
<1> HIDE DEF n
<1>7. PICK q \in same : \A r \in same : rank[r] <= rank[q]
  <2> HIDE DEF same
  <2> QED  BY <1>3, <1>5, <1>6, Greatest
<1>8. ASSUME NEW r \in In({"admitted"}) PROVE r \in Through(q)
  <2>1. born[r] <= born[q] /\ (born[r] = born[q] => rank[r] <= rank[q])
    BY <1>2, <1>7
  <2>2. born[r] \in Nat /\ born[q] \in Nat
    BY <1>1
  <2> QED  BY <2>1, <2>2 DEF Through, UpTo, In
<1> QED  BY <1>8

LEMMA AdmissionStart == AdmissionInit => AdmissionInv
<1> SUFFICES ASSUME AdmissionInit PROVE AdmissionInv
  OBVIOUS
<1>1. Shape
  BY ShapeInit
<1>2. /\ In({"open"}) = {} /\ In({"rewarded", "expired"}) = {}
      /\ In({"admitted"}) = {} /\ Unnoticed = {}
  BY DEF AdmissionInit, In, Unnoticed
<1>3. Liabilities = 0 /\ Backing = Prefund
  BY <1>2, AdmissionAssumption, FS_EmptySet DEF Liabilities, Backing, AdmissionInit
<1>4. Covered
  BY <1>2, <1>3, AdmissionAssumption DEF Covered, AdmissionInit, Empty
<1> QED  BY <1>1, <1>4 DEF Shape, AdmissionInv

\* The last admitted reservation was admitted for all of them.
LEMMA Prefix ==
    ASSUME NEW l \in Nat, NEW b \in Nat, NEW a \in Nat, NEW i \in Nat, a <= i,
           l + 2 * i <= b
    PROVE  2 * a + l <= b
OBVIOUS

LEMMA Remains ==
    ASSUME NEW l \in Nat, NEW a \in Nat, NEW u \in Nat, NEW t \in Nat, 2 * a + l <= t + u
    PROVE  2 * a + l - u <= t
OBVIOUS

LEMMA CoveredIsSolvent == AdmissionInv => AdmissionsFit
<1> SUFFICES ASSUME AdmissionInv, ~stale, ~overtaken PROVE Solvent
  BY DEF AdmissionsFit
<1>1. AdmissionTypeOK /\ BornByNow /\ Covered
  BY DEF AdmissionInv
<1> PICK l \in Nat, u \in Nat, t \in Nat, b \in Nat :
        /\ l = Liabilities /\ u = Cardinality(Unnoticed) /\ t = treasury
        /\ b = Backing
  BY <1>1, Counts DEF Counted, AdmissionTypeOK
<1> PICK a \in Nat : a = Cardinality(In({"admitted"}))
  BY AdmissionAssumption, FS_Subset, FS_CardinalityType DEF In
<1>2. b = t + u
  BY DEF Backing
<1>3. 2 * a + l <= b
  <2>1. CASE In({"admitted"}) = {}
    <3>1. a = 0
      BY <2>1, FS_EmptySet
    <3>2. l <= b
      BY <1>1 DEF Covered
    <3> QED  BY <3>1, <3>2
  <2>2. CASE In({"admitted"}) # {}
    <3> PICK q \in In({"admitted"}) : In({"admitted"}) \subseteq Through(q)
      BY <1>1, <2>2, LastAdmitted
    <3>1. Through(q) \subseteq Reviews
      BY DEF Through, UpTo, In
    <3> PICK i \in Nat : i = Cardinality(Through(q)) /\ a <= i
      BY <3>1, AdmissionAssumption, FS_Subset, FS_CardinalityType
    <3>2. l + 2 * i <= b
      BY <1>1 DEF Covered, RequiredTreasuryBalance
    <3> QED  BY <3>2, Prefix
  <2> QED  BY <2>1, <2>2
<1>4. 2 * a + l - u <= t
  BY <1>2, <1>3, Remains
<1> QED  BY <1>4 DEF Solvent, Obligations

(***************************************************************************)
(* However the treasury is funded and however many purchases hold, read    *)
(* and decide at once, the cache and the concurrency of admissions and     *)
(* payouts never let the service take in more than it can pay out, unless  *)
(* a balance outlives a transfer that has been recorded or a reservation   *)
(* of the same millisecond comes in front of one that is admitted.         *)
(***************************************************************************)
THEOREM TreasuryStaysSolvent == AdmissionSpec => []AdmissionsFit
<1>1. AdmissionInit => AdmissionInv
  BY AdmissionStart
<1>2. AdmissionInv /\ [AdmissionNext]_admissionVars => AdmissionInv'
  BY AdmissionStep
<1>3. AdmissionInv => AdmissionsFit
  BY CoveredIsSolvent
<1> QED  BY <1>1, <1>2, <1>3, PTL DEF AdmissionSpec

=============================================================================
