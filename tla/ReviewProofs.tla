---------------------------- MODULE ReviewProofs ----------------------------
(***************************************************************************)
(* Proofs about ReviewProcessor, for any number of reviewers, keys,        *)
(* attempts, dispatches and faults: the money of an order goes one way,    *)
(* its books are Circle's, its claim is exclusive, and the service         *)
(* implements ReviewPromise.                                               *)
(***************************************************************************)
EXTENDS ReviewProcessor, FiniteSetTheorems, TLAPS

(***************************************************************************)
(* Database and Circle.  Circle acts on journaled keys only; an attempt    *)
(* says no more than Circle has done; a key is given up after it failed;   *)
(* and the recorded id is that of the key in use, if that has an attempt.  *)
(***************************************************************************)
Ledger(op) ==
    /\ journal[op] \subseteq 1..key[op]
    /\ \A k \in Keys :
        /\ circle[op][k] # "none" => k \in journal[op]
        /\ attempts[op][k] # "none" => circle[op][k] # "none"
        /\ attempts[op][k] \in {"complete", "failed"}
              => circle[op][k] = attempts[op][k]
        /\ k < key[op] => attempts[op][k] = "failed"
    /\ recorded[op] = IF CurrentAttempt(op) = "none" THEN 0 ELSE key[op]

Ledgers == \A op \in Operations : Ledger(op)

Unasked(op) == journal[op] = {}

PaidOut == CurrentAttempt("payout") = "complete"

Resolving == key["resolution"] \in journal["resolution"]

(***************************************************************************)
(* What the state of an order says of its reviewer and of what may have    *)
(* been asked of Circle.                                                   *)
(***************************************************************************)
Stages ==
    /\ InState({"paid", "dispatched"}) =>
        order.reviewer = NoReviewer /\ ~order.decided
    /\ InState({"paid"}) => order.dispatchCount < MaxDispatches
    /\ InState({"claimed"}) => order.reviewer # NoReviewer /\ ~order.decided
    /\ InState({"paid", "dispatched", "claimed"}) => ~order.aborted
    /\ order.decided => order.reviewer # NoReviewer
    /\ ~order.decided => Unasked("payout") /\ Unasked("resolution")
    /\ InState({"verdict_submitted", "payout_failed"}) =>
        order.decided /\ Unasked("resolution")
    /\ InState(ReviewStates \cup {"verdict_submitted", "payout_failed"}) =>
        Unasked("refund")
    /\ InState({"reviewer_paid", "reviewer_paid_settlement_failed", "settled"})
        => order.decided
    /\ order.decided /\ ~InState({"verdict_submitted", "payout_failed"})
        => PaidOut
    /\ InState({"settled"}) =>
        CurrentAttempt("resolution") = "complete" /\ ~order.aborted
    /\ InState({"refunded"}) => CurrentAttempt("refund") = "complete"
    /\ InState({"expired", "refunded"}) /\ order.decided => order.aborted
    /\ order.aborted => ~Resolving
    /\ ~Unasked("refund") => order.aborted \/ ~order.decided

(***************************************************************************)
(* Where processOrder stands says what the order's state is, that held is  *)
(* the key in use, and whether that has an attempt.                        *)
(***************************************************************************)
Asking == {"check", "preflight", "journal", "ask"}

Looking == {"wait", "require"}

StandingDispatch ==
    /\ pc = <<"check", "dispatch">> => InState({"paid"})
    /\ pc = <<"offer", "dispatch">> =>
        /\ InState(ReviewStates \cup {"verdict_submitted"})
        /\ ~sent => InState({"paid"})

StandingState ==
    /\ pc[2] = "payout" => InState({"verdict_submitted", "payout_failed"})
    /\ pc[2] = "resolution" =>
        /\ InState({"reviewer_paid", "reviewer_paid_settlement_failed"})
        /\ pc[1] # "start" => InState({"reviewer_paid"}) /\ ~order.aborted
        /\ pc[1] \in {"check", "preflight"} => ~Resolving
    /\ pc[2] = "refund" =>
        /\ pc[1] \notin {"check", "preflight"}
        /\ InState({"expired"}) \/ (InState({"reviewer_paid"}) /\ order.aborted)

StandingKey ==
    \A op \in Operations : pc[2] = op =>
        /\ pc[1] # "offer"
        /\ pc[1] \in Asking \cup Looking => held = key[op]
        /\ pc[1] \in {"start", "wait"} \cup Asking => ~Exhausted(op)
        /\ pc[1] \in Asking => recorded[op] = 0
        /\ pc[1] \in Looking => recorded[op] = key[op]

Standing == StandingDispatch /\ StandingState /\ StandingKey

ReviewInv == TypeOK /\ Ledgers /\ Stages /\ ClaimIsExclusive /\ Standing
-----------------------------------------------------------------------------
LEMMA InitInv == Init => ReviewInv
<1> SUFFICES ASSUME Init PROVE ReviewInv
  OBVIOUS
<1> USE RailAssumption, RosterAssumption, DatabaseAssumption, ProcessorAssumption
    DEF Init, RailInit, DatabaseInit, Keys
<1>1. TypeOK
  <2>1. RailTypeOK
    BY DEF RailTypeOK, Progress, Clock, ReviewerRow, Addresses
  <2>2. DatabaseTypeOK
    <3>1. order \in Order
      BY DEF Order, OrderStates, Addresses
    <3>2. 1 \in Keys /\ 0 \in Keys \cup {0}
      OBVIOUS
    <3> QED
      BY <3>1, <3>2 DEF DatabaseTypeOK, Progress
  <2>3. pc \in Places
    BY DEF Places
  <2>4. held \in Keys /\ faults \in 0..MaxFaults
    OBVIOUS
  <2>5. toOffer \subseteq Reviewers /\ sent \in BOOLEAN
    OBVIOUS
  <2> QED
    BY <2>1, <2>2, <2>3, <2>4, <2>5 DEF TypeOK
<1>2. Ledgers
  BY DEF Ledgers, Ledger, CurrentAttempt
<1>3. Stages
  BY DEF Stages, InState, ReviewStates, Unasked, Resolving, Operations
<1>4. ClaimIsExclusive
  BY DEF ClaimIsExclusive, InState
<1>5. Standing
  BY DEF Standing, StandingDispatch, StandingState, StandingKey, Idle, Asking, Looking,
         Operations
<1> QED
  BY <1>1, <1>2, <1>3, <1>4, <1>5 DEF ReviewInv

-----------------------------------------------------------------------------
(***************************************************************************)
(* What an action leaves alone keeps its part of the invariant.            *)
(***************************************************************************)
LEMMA SameLedgers ==
    ASSUME Ledgers, UNCHANGED <<circle, circleColumns>>
    PROVE  Ledgers'
BY DEF Ledgers, Ledger, CurrentAttempt, circleColumns

LEMMA SameStages ==
    ASSUME Stages, UNCHANGED <<order, key, attempts, journal>>
    PROVE  Stages'
BY DEF Stages, InState, Unasked, PaidOut, CurrentAttempt, Resolving

LEMMA SameClaim ==
    ASSUME ClaimIsExclusive, UNCHANGED <<order, assignment>>
    PROVE  ClaimIsExclusive'
BY DEF ClaimIsExclusive, InState

LEMMA SameCount ==
    ASSUME NEW op, attempts'[op] = attempts[op]
    PROVE  AttemptCount(op)' = AttemptCount(op)
BY DEF AttemptCount

LEMMA SameExhausted ==
    ASSUME NEW op \in Operations, attempts'[op] = attempts[op],
           UNCHANGED <<order, key>>
    PROVE  Exhausted(op)' <=> Exhausted(op)
BY SameCount DEF Exhausted, TerminalFailure, CurrentAttempt

LEMMA SameStanding ==
    ASSUME Standing, UNCHANGED <<order, circleColumns, pc, held, sent>>
    PROVE  Standing'
<1>1. \A op \in Operations : Exhausted(op)' <=> Exhausted(op)
  BY SameExhausted DEF circleColumns
<1> QED
  BY <1>1 DEF Standing, StandingDispatch, StandingState, StandingKey, InState, Resolving,
              circleColumns

\* An operation that was never asked for has no attempt.
LEMMA UnaskedIsFresh ==
    ASSUME TypeOK, Ledgers, NEW op \in Operations, Unasked(op)
    PROVE  CurrentAttempt(op) = "none" /\ recorded[op] = 0
BY DEF TypeOK, DatabaseTypeOK, Ledgers, Ledger, Unasked, CurrentAttempt

\* A key that may be rotated is not the last: all keys up to it were attempts.
LEMMA KeysSuffice ==
    ASSUME TypeOK, Ledgers, NEW op \in Operations,
           CurrentAttempt(op) # "none", AttemptCount(op) < MaxAttempts
    PROVE  key[op] < MaxKeys
<1> DEFINE tried == {k \in Keys : attempts[op][k] # "none"}
<1>1. key[op] \in Keys /\ key[op] \in Nat
  BY RailAssumption DEF TypeOK, DatabaseTypeOK, Keys
<1>2. 1..key[op] \subseteq tried
  BY <1>1, RailAssumption DEF Ledgers, Ledger, CurrentAttempt, Keys
<1>3. IsFiniteSet(tried)
  <2>1. IsFiniteSet(1..MaxKeys)
    BY FS_Interval, RailAssumption
  <2> QED
    BY <2>1, FS_Subset DEF Keys
<1>4. Cardinality(1..key[op]) <= Cardinality(tried) /\ Cardinality(tried) \in Nat
  BY <1>2, <1>3, FS_Subset, FS_CardinalityType
<1>5. Cardinality(1..key[op]) = key[op]
  BY <1>1, FS_Interval DEF Keys
<1> QED
  BY <1>1, <1>4, <1>5, DatabaseAssumption, RailAssumption DEF AttemptCount

-----------------------------------------------------------------------------
(***************************************************************************)
(* The actions, one by one.                                                *)
(***************************************************************************)
LEMMA QuietStep ==
    ASSUME ReviewInv, TypeOK',
           UNCHANGED <<circle, order, assignment, circleColumns, pc, held, sent>>
    PROVE  ReviewInv'
<1> USE DEF ReviewInv, circleColumns
<1>1. Ledgers'
  BY SameLedgers
<1>2. Stages'
  BY SameStages
<1>3. ClaimIsExclusive'
  BY SameClaim
<1>4. Standing'
  BY SameStanding
<1> QED
  BY <1>1, <1>2, <1>3, <1>4

LEMMA PlaceFacts ==
    ASSUME NEW step \in Steps, NEW op \in Operations
    PROVE  /\ <<step, op>> \in Places
           /\ Idle \in Places
           /\ <<"check", "dispatch">> \in Places
           /\ <<"offer", "dispatch">> \in Places
BY DEF Places

\* What processOrder holds in memory is of its type, kept or let go.
MemoryKept == held' \in Keys /\ toOffer' \subseteq Reviewers /\ sent' \in BOOLEAN

LEMMA ReturnKeeps == Return => pc' = Idle /\ MemoryKept
<1>1. 1 \in Keys
  BY RailAssumption DEF Keys
<1> QED
  BY <1>1 DEF Return, MemoryKept

LEMMA GoKeeps ==
    ASSUME TypeOK, NEW step, NEW op, Go(step, op)
    PROVE  pc' = <<step, op>> /\ MemoryKept
BY DEF Go, MemoryKept, TypeOK

LEMMA ProcessOrderStep == ReviewInv /\ ProcessOrder => ReviewInv'
<1> SUFFICES ASSUME ReviewInv, ProcessOrder PROVE ReviewInv'
  OBVIOUS
<1> USE DEF ReviewInv
<1>0. /\ UNCHANGED <<railVars, circleColumns, lapsed, faults>>
      /\ "start" \in Steps
  BY DEF ProcessOrder, TimeoutExpired, TimeoutRedispatched, databaseVars, Steps
<1>4. MemoryKept
  BY ReturnKeeps, GoKeeps DEF ProcessOrder
<1>1. CASE TimeoutExpired /\ Go("start", "refund")
  <2>1. /\ order' = [order EXCEPT !.state = "expired"] /\ assignment' = Withdrawn
        /\ InState(ReviewStates) /\ pc' = <<"start", "refund">>
    BY <1>1 DEF TimeoutExpired, Becomes, SlaExpiry, OfferExpiry, Go, InState, ReviewStates
  <2>2. order' \in Order /\ order'.state = "expired" /\ order'.decided = order.decided
        /\ order'.reviewer = order.reviewer /\ order'.aborted = order.aborted
    BY <2>1 DEF TypeOK, DatabaseTypeOK, Order, OrderStates
  <2>3. TypeOK'
    BY <1>0, <1>4, <2>1, <2>2, PlaceFacts DEF MemoryKept, TypeOK, RailTypeOK, DatabaseTypeOK,
       railVars, circleColumns, Withdrawn, Operations
  <2>4. Ledgers'
    BY <1>0, SameLedgers DEF railVars
  <2>5. Stages'
    BY <1>0, <2>1, <2>2 DEF Stages, InState, ReviewStates, Unasked, PaidOut, CurrentAttempt, Resolving,
       railVars, circleColumns
  <2>6. ClaimIsExclusive'
    BY <2>1, <2>2 DEF ClaimIsExclusive, InState, Withdrawn, TypeOK, DatabaseTypeOK
  <2>7. CurrentAttempt("refund")' = "none"
    BY <1>0, <2>1, UnaskedIsFresh DEF Stages, InState, CurrentAttempt, circleColumns, Operations
  <2>8. Standing'
    BY <2>1, <2>2, <2>7 DEF Standing, StandingDispatch, StandingState, StandingKey, InState,
       Exhausted, TerminalFailure, Asking, Looking, Operations
  <2> QED
    BY <2>3, <2>4, <2>5, <2>6, <2>8
<1>2. CASE TimeoutRedispatched /\ Return
  <2>1. /\ order' = [order EXCEPT !.state = "paid"] /\ assignment' = Withdrawn
        /\ InState({"dispatched"}) /\ pc' = Idle /\ order.dispatchCount < MaxDispatches
    BY <1>2 DEF TimeoutRedispatched, Becomes, OfferExpiry, Return, DispatchesLeft
  <2>2. order' \in Order /\ order'.state = "paid" /\ order'.decided = order.decided
        /\ order'.reviewer = order.reviewer /\ order'.aborted = order.aborted
        /\ order'.dispatchCount = order.dispatchCount
    BY <2>1 DEF TypeOK, DatabaseTypeOK, Order, OrderStates
  <2>3. TypeOK'
    BY <1>0, <1>4, <2>1, <2>2, PlaceFacts DEF MemoryKept, TypeOK, RailTypeOK, DatabaseTypeOK,
       railVars, circleColumns, Withdrawn, Operations
  <2>4. Ledgers'
    BY <1>0, SameLedgers DEF railVars
  <2>5. Stages'
    BY <1>0, <2>1, <2>2 DEF Stages, InState, ReviewStates, Unasked, PaidOut, CurrentAttempt, Resolving,
       railVars, circleColumns
  <2>6. ClaimIsExclusive'
    BY <2>1, <2>2 DEF ClaimIsExclusive, InState, Withdrawn, TypeOK, DatabaseTypeOK
  <2>8. Standing'
    BY <2>1, <2>2 DEF Standing, StandingDispatch, StandingState, StandingKey, Idle, Operations
  <2> QED
    BY <2>3, <2>4, <2>5, <2>6, <2>8
<1>3. CASE /\ ~RetriesExhausted
           /\ \/ InState({"paid"}) /\ Go("check", "dispatch")
              \/ InState({"verdict_submitted", "payout_failed"}) /\ Go("start", "payout")
              \/ InState({"reviewer_paid", "reviewer_paid_settlement_failed"})
                    /\ Go("start", "resolution")
              \/ InState({"expired"}) /\ Go("start", "refund")
           /\ UNCHANGED databaseVars
  <2>1. TypeOK'
    BY <1>0, <1>4, <1>3, PlaceFacts DEF MemoryKept, TypeOK, RailTypeOK, DatabaseTypeOK, railVars,
       databaseVars, circleColumns, Go, Operations
  <2>2. Ledgers' /\ Stages' /\ ClaimIsExclusive'
    BY <1>0, <1>3, SameLedgers, SameStages, SameClaim DEF railVars, databaseVars, circleColumns
  <2>3. \A op \in Operations : ~Exhausted(op)'
    BY <1>3, SameExhausted DEF RetriesExhausted, databaseVars, circleColumns
  <2>4. Standing'
    BY <1>3, <2>3 DEF Standing, StandingDispatch, StandingState, StandingKey, InState, Go,
       databaseVars, Asking, Looking, Operations
  <2> QED
    BY <2>1, <2>2, <2>4
<1> QED
  BY <1>1, <1>2, <1>3 DEF ProcessOrder

LEMMA DispatchableStep == ReviewInv /\ (Dispatchable \/ NobodyToAsk \/ NotReviewable) => ReviewInv'
<1> SUFFICES ASSUME ReviewInv, Dispatchable \/ NobodyToAsk \/ NotReviewable PROVE ReviewInv'
  OBVIOUS
<1> USE DEF ReviewInv
<1>1. /\ UNCHANGED <<railVars, order, assignment, circleColumns, faults>>
      /\ pc' = Idle \/ (pc' = <<"offer", "dispatch">> /\ sent' = FALSE)
      /\ pc = <<"check", "dispatch">>
  BY DEF Dispatchable, NobodyToAsk, NotReviewable, Return, databaseVars, At
<1>2. TypeOK'
  <2>1. MemoryKept /\ lapsed' \in BOOLEAN
    BY ReturnKeeps
       DEF Dispatchable, NobodyToAsk, NotReviewable, databaseVars, MemoryKept, TypeOK,
           DatabaseTypeOK, Eligible
  <2>2. pc' \in Places
    BY <1>1 DEF Places
  <2> QED
    BY <1>1, <2>1, <2>2 DEF MemoryKept, TypeOK, RailTypeOK, DatabaseTypeOK, railVars, circleColumns
<1>3. Ledgers' /\ Stages' /\ ClaimIsExclusive'
  BY <1>1, SameLedgers, SameStages, SameClaim DEF railVars, circleColumns
<1>4. Standing'
  BY <1>1 DEF Standing, StandingDispatch, StandingState, StandingKey, InState, Idle,
     Operations, ReviewStates
<1> QED
  BY <1>2, <1>3, <1>4

LEMMA UndispatchableStep == ReviewInv /\ UndispatchableForGood => ReviewInv'
<1> SUFFICES ASSUME ReviewInv, UndispatchableForGood PROVE ReviewInv'
  OBVIOUS
<1> USE DEF ReviewInv
<1>1. /\ UNCHANGED <<railVars, lapsed, circleColumns, held, toOffer, sent, faults>>
      /\ order' = [order EXCEPT !.state = "expired", !.aborted = TRUE]
      /\ assignment' = Withdrawn
      /\ pc' = <<"start", "refund">> /\ InState({"paid"})
  BY DEF UndispatchableForGood, Go, At, Standing, StandingDispatch
<1>2. order' \in Order /\ order'.state = "expired" /\ order'.decided = order.decided
      /\ order'.reviewer = order.reviewer /\ order'.aborted
  BY <1>1 DEF TypeOK, DatabaseTypeOK, Order, OrderStates
<1>3. TypeOK'
  <2>1. pc' \in Places
    BY <1>1, PlaceFacts DEF Steps, Operations
  <2> QED
    BY <1>1, <1>2, <2>1 DEF TypeOK, RailTypeOK, DatabaseTypeOK, railVars, circleColumns,
       Withdrawn
<1>4. Ledgers'
  BY <1>1, SameLedgers DEF railVars
<1>5. ~order.decided /\ Unasked("resolution") /\ Unasked("refund") /\ Unasked("payout")
  BY <1>1 DEF Stages, InState, ReviewStates
<1>6. Stages'
  BY <1>1, <1>2, <1>5 DEF Stages, InState, ReviewStates, Unasked, PaidOut, CurrentAttempt, Resolving,
     railVars, circleColumns
<1>7. ClaimIsExclusive'
  BY <1>1, <1>2 DEF ClaimIsExclusive, InState, Withdrawn, TypeOK, DatabaseTypeOK
<1>8. CurrentAttempt("refund")' = "none"
  BY <1>1, <1>5, UnaskedIsFresh DEF CurrentAttempt, circleColumns, Operations
<1>9. Standing'
  BY <1>1, <1>2, <1>8 DEF Standing, StandingDispatch, StandingState, StandingKey, InState,
     Exhausted, TerminalFailure, Asking, Looking, Operations
<1> QED
  BY <1>3, <1>4, <1>6, <1>7, <1>9

LEMMA OfferToStep == ASSUME ReviewInv, NEW r \in Reviewers, OfferTo(r) PROVE ReviewInv'
<1> USE DEF ReviewInv
<1>1. /\ UNCHANGED <<railVars, lapsed, circleColumns, pc, held, faults>>
      /\ toOffer' = toOffer \ {r} /\ pc = <<"offer", "dispatch">>
  BY DEF OfferTo, RecordDispatch, databaseVars, At
<1>2. CASE UNCHANGED <<databaseVars, sent>>
  <2>1. TypeOK'
    BY <1>1, <1>2 DEF TypeOK, RailTypeOK, DatabaseTypeOK, railVars, databaseVars, circleColumns
  <2> QED
    BY <1>1, <1>2, <2>1, QuietStep DEF railVars, databaseVars
<1>3. CASE RecordDispatch(r) /\ sent' = TRUE
  <2>1. /\ InState({"paid", "dispatched"})
        /\ order' = [order EXCEPT !.state = "dispatched",
                         !.dispatchCount = IF order.state = "paid" THEN @ + 1 ELSE @]
        /\ assignment' = [assignment EXCEPT ![r] = "offered"]
    BY <1>3 DEF RecordDispatch
  <2>2. order \in Order /\ (order.state = "paid" => order.dispatchCount < MaxDispatches)
    BY DEF TypeOK, DatabaseTypeOK, Stages, InState
  <2>3. order' \in Order /\ order'.state = "dispatched" /\ order'.decided = order.decided
        /\ order'.reviewer = order.reviewer /\ order'.aborted = order.aborted
    <3> DEFINE count == IF order.state = "paid" THEN order.dispatchCount + 1
                        ELSE order.dispatchCount
    <3>1. count \in 0..MaxDispatches
      BY <2>2, DatabaseAssumption DEF Order
    <3>2. order' = [order EXCEPT !.state = "dispatched", !.dispatchCount = count]
      BY <2>1
    <3> HIDE DEF count
    <3> QED
      BY <2>2, <3>1, <3>2 DEF Order, OrderStates
  <2>4. TypeOK'
    BY <1>1, <1>3, <2>1, <2>3 DEF TypeOK, RailTypeOK, DatabaseTypeOK, railVars, circleColumns
  <2>5. Ledgers'
    BY <1>1, SameLedgers DEF railVars
  <2>6. Stages'
    BY <1>1, <2>1, <2>3 DEF Stages, InState, ReviewStates, Unasked, PaidOut, CurrentAttempt, Resolving,
       railVars, circleColumns
  <2>7. order.reviewer = NoReviewer
    BY <2>1 DEF Stages, InState
  <2>8. ClaimIsExclusive'
    BY <2>1, <2>3, <2>7, DatabaseAssumption
       DEF ClaimIsExclusive, InState, TypeOK, DatabaseTypeOK
  <2>9. Standing'
    BY <1>1, <1>3, <2>3 DEF Standing, StandingDispatch, StandingState, StandingKey, InState,
       ReviewStates, Operations
  <2> QED
    BY <2>4, <2>5, <2>6, <2>8, <2>9
<1> QED
  BY <1>2, <1>3 DEF OfferTo

LEMMA AllOfferedStep == ReviewInv /\ AllOffered => ReviewInv'
<1> SUFFICES ASSUME ReviewInv, AllOffered PROVE ReviewInv'
  OBVIOUS
<1> USE DEF ReviewInv
<1>1. /\ UNCHANGED <<railVars, assignment, lapsed, circleColumns, faults>>
      /\ pc = <<"offer", "dispatch">> /\ pc' = Idle /\ MemoryKept
  BY ReturnKeeps DEF AllOffered, At
<1>2. order' = order
  <2>1. CASE ~sent
    <3>1. order' = [order EXCEPT !.state = "paid"] /\ order.state = "paid"
      BY <1>1, <2>1 DEF AllOffered, Becomes, Standing, StandingDispatch, InState
    <3>2. order \in Order
      BY DEF TypeOK, DatabaseTypeOK
    <3> QED
      BY <3>1, <3>2 DEF Order
  <2> QED
    BY <2>1 DEF AllOffered
<1>3. TypeOK'
  BY <1>1, <1>2, PlaceFacts
     DEF MemoryKept, TypeOK, RailTypeOK, DatabaseTypeOK, railVars, circleColumns, Places
<1>4. Ledgers' /\ Stages' /\ ClaimIsExclusive'
  BY <1>1, <1>2, SameLedgers, SameStages, SameClaim DEF railVars, circleColumns
<1>5. Standing'
  BY <1>1 DEF Standing, StandingDispatch, StandingState, StandingKey, Idle, Operations
<1> QED
  BY <1>3, <1>4, <1>5

(***************************************************************************)
(* payReviewer, settle and refund.                                         *)
(***************************************************************************)
LEMMA StartPayoutStep == ReviewInv /\ StartPayout => ReviewInv'
<1> SUFFICES ASSUME ReviewInv, StartPayout PROVE ReviewInv'
  OBVIOUS
<1> USE DEF ReviewInv
<1>1. /\ UNCHANGED <<railVars, databaseVars, toOffer, sent, faults>>
      /\ held' = key["payout"] /\ pc = <<"start", "payout">>
      /\ \E step \in {"wait", "journal", "check"} :
            /\ pc' = <<step, "payout">>
            /\ step = "wait" <=> recorded["payout"] # 0
  BY DEF StartPayout, At
<1>2. TypeOK'
  <2>1. pc' \in Places
    BY <1>1, PlaceFacts DEF Steps, Awaits, Operations
  <2> QED
    BY <1>1, <2>1
       DEF TypeOK, RailTypeOK, DatabaseTypeOK, railVars, databaseVars, circleColumns, Operations
<1>3. Ledgers' /\ Stages' /\ ClaimIsExclusive'
  BY <1>1, SameLedgers, SameStages, SameClaim DEF railVars, databaseVars, circleColumns
<1>4. recorded["payout"] \in {0, key["payout"]}
  BY DEF Ledgers, Ledger, Operations
<1>5. ~Exhausted("payout")'
  BY <1>1, SameExhausted DEF Standing, StandingKey, databaseVars, circleColumns, Operations
<1>6. Standing'
  BY <1>1, <1>4, <1>5 DEF Standing, StandingDispatch, StandingState, StandingKey, InState,
     databaseVars, circleColumns, Asking, Looking, Operations
<1> QED
  BY <1>2, <1>3, <1>6

LEMMA StartResolutionStep == ReviewInv /\ StartResolution => ReviewInv'
<1> SUFFICES ASSUME ReviewInv, StartResolution PROVE ReviewInv'
  OBVIOUS
<1> USE DEF ReviewInv
<1>1. /\ UNCHANGED <<railVars, assignment, lapsed, circleColumns, toOffer, sent, faults>>
      /\ order' = [order EXCEPT !.state = "reviewer_paid"]
      /\ held' = key["resolution"] /\ pc = <<"start", "resolution">>
      /\ InState({"reviewer_paid", "reviewer_paid_settlement_failed"})
  BY DEF StartResolution, Becomes, At, Standing, StandingState
<1>2. order' \in Order /\ order'.state = "reviewer_paid" /\ order'.decided = order.decided
      /\ order'.reviewer = order.reviewer /\ order'.aborted = order.aborted
  BY <1>1 DEF TypeOK, DatabaseTypeOK, Order, OrderStates
<1>3. \/ /\ pc' = <<"journal", "resolution">>
         /\ recorded["resolution"] = 0 /\ ~order.aborted
      \/ pc' = <<"start", "refund">> /\ order.aborted
      \/ /\ pc' = <<"wait", "resolution">>
         /\ recorded["resolution"] # 0 /\ ~order.aborted
      \/ /\ pc' = <<"check", "resolution">>
         /\ recorded["resolution"] = 0 /\ ~order.aborted /\ ~Resolving
  BY DEF StartResolution, UnresolvedRequestStarted, HasCurrentCircleRequestStarted, Stages,
     Resolving
<1>4. TypeOK'
  <2>1. pc' \in Places
    BY <1>3, PlaceFacts DEF Steps, Awaits, Operations
  <2> QED
    BY <1>1, <1>2, <2>1
       DEF TypeOK, RailTypeOK, DatabaseTypeOK, railVars, circleColumns, Operations
<1>5. Ledgers'
  BY <1>1, SameLedgers DEF railVars
<1>6. Stages'
  BY <1>1, <1>2 DEF Stages, InState, ReviewStates, Unasked, PaidOut, CurrentAttempt, Resolving, railVars,
     circleColumns
<1>7. ClaimIsExclusive'
  BY <1>1, <1>2 DEF ClaimIsExclusive, InState, TypeOK, DatabaseTypeOK
<1>8. recorded["resolution"] \in {0, key["resolution"]}
  BY DEF Ledgers, Ledger, Operations
<1>9. ~Exhausted("resolution")' /\ ~Exhausted("refund")'
  BY <1>2 DEF Exhausted, RecoveryState
<1>10. Standing'
  BY <1>1, <1>2, <1>3, <1>8, <1>9 DEF Standing, StandingDispatch, StandingState, StandingKey,
     InState, Resolving, circleColumns, Asking, Looking, Operations
<1> QED
  BY <1>4, <1>5, <1>6, <1>7, <1>10

LEMMA StartRefundStep == ReviewInv /\ StartRefund => ReviewInv'
<1> SUFFICES ASSUME ReviewInv, StartRefund PROVE ReviewInv'
  OBVIOUS
<1> USE DEF ReviewInv
<1>1. /\ UNCHANGED <<railVars, databaseVars, toOffer, sent, faults>>
      /\ held' = key["refund"] /\ pc = <<"start", "refund">>
      /\ \E step \in {"wait", "journal"} :
            /\ pc' = <<step, "refund">>
            /\ step = "wait" <=> recorded["refund"] # 0
  BY DEF StartRefund, At
<1>2. TypeOK'
  <2>1. pc' \in Places
    BY <1>1, PlaceFacts DEF Steps, Awaits, Operations
  <2> QED
    BY <1>1, <2>1
       DEF TypeOK, RailTypeOK, DatabaseTypeOK, railVars, databaseVars, circleColumns, Operations
<1>3. Ledgers' /\ Stages' /\ ClaimIsExclusive'
  BY <1>1, SameLedgers, SameStages, SameClaim DEF railVars, databaseVars, circleColumns
<1>4. recorded["refund"] \in {0, key["refund"]}
  BY DEF Ledgers, Ledger, Operations
<1>5. ~Exhausted("refund")'
  BY <1>1, SameExhausted DEF Standing, StandingKey, databaseVars, circleColumns, Operations
<1>6. Standing'
  BY <1>1, <1>4, <1>5 DEF Standing, StandingDispatch, StandingState, StandingKey, InState,
     databaseVars, circleColumns, Asking, Looking, Operations
<1> QED
  BY <1>2, <1>3, <1>6

(***************************************************************************)
(* Steps that only move on within an operation, or leave it.               *)
(***************************************************************************)
MovesOn(op) ==
    /\ UNCHANGED <<railVars, databaseVars, held, toOffer, sent>>
    /\ faults' \in 0..MaxFaults
    /\ \/ pc = <<"check", op>> /\ pc' = <<"preflight", op>>
       \/ pc = <<"preflight", op>> /\ pc' = <<"journal", op>>
       \/ pc[1] # "start" /\ pc[2] = op /\ pc' = <<"catch", op>>

LEMMA MovesOnStep ==
    ASSUME ReviewInv, NEW op \in Operations, MovesOn(op)
    PROVE  ReviewInv'
<1> USE DEF ReviewInv
<1>1. TypeOK'
  <2>1. pc' \in Places
    BY PlaceFacts DEF MovesOn, Steps, Awaits
  <2> QED
    BY <2>1
       DEF MovesOn, TypeOK, RailTypeOK, DatabaseTypeOK, railVars, databaseVars, circleColumns
<1>2. Ledgers' /\ Stages' /\ ClaimIsExclusive'
  BY SameLedgers, SameStages, SameClaim DEF MovesOn, railVars, databaseVars, circleColumns
<1>3. Exhausted(op)' <=> Exhausted(op)
  BY SameExhausted DEF MovesOn, databaseVars, circleColumns
<1>4. Standing'
  BY <1>3 DEF MovesOn, Standing, StandingDispatch, StandingState, StandingKey, InState,
     Resolving, databaseVars, circleColumns, Asking, Looking, Operations
<1> QED
  BY <1>1, <1>2, <1>4

LEMMA InvalidForGoodStep ==
    ASSUME ReviewInv, NEW op \in Operations, InvalidForGood(op)
    PROVE  ReviewInv'
<1> USE DEF ReviewInv
<1>1. /\ UNCHANGED <<railVars, assignment, lapsed, circleColumns, held, toOffer, sent, faults>>
      /\ order' = [order EXCEPT !.aborted = TRUE] /\ pc = <<"check", op>>
      /\ \/ op = "payout" /\ pc' = <<"journal", "payout">>
         \/ op = "resolution" /\ pc' = <<"start", "refund">>
  BY DEF InvalidForGood, AfterAbort, Go, At, Standing, StandingState, Operations
<1>2. order' \in Order /\ order'.state = order.state /\ order'.decided = order.decided
      /\ order'.reviewer = order.reviewer /\ order'.aborted
  BY <1>1 DEF TypeOK, DatabaseTypeOK, Order
<1>3. TypeOK'
  <2>1. pc' \in Places
    BY <1>1, PlaceFacts DEF Steps, Awaits, Operations
  <2> QED
    BY <1>1, <1>2, <2>1 DEF TypeOK, RailTypeOK, DatabaseTypeOK, railVars, circleColumns
<1>4. Ledgers'
  BY <1>1, SameLedgers DEF railVars
<1>5. \/ op = "payout" /\ InState({"verdict_submitted", "payout_failed"})
      \/ op = "resolution" /\ InState({"reviewer_paid"})
  BY <1>1 DEF Standing, StandingState
<1>6. ~Resolving
  <2>1. CASE op = "payout"
    BY <1>5, <2>1 DEF Stages, Resolving, Unasked, InState
  <2>2. CASE op = "resolution"
    BY <1>1, <2>2 DEF Standing, StandingState
  <2> QED
    BY <1>5, <2>1, <2>2
<1>7. Stages'
  BY <1>1, <1>2, <1>5, <1>6 DEF Stages, InState, ReviewStates, Unasked, PaidOut, CurrentAttempt, Resolving,
     railVars, circleColumns
<1>8. ClaimIsExclusive'
  BY <1>1, <1>2 DEF ClaimIsExclusive, InState
<1>9. op = "payout" => held = key[op] /\ recorded[op] = 0 /\ ~Exhausted(op)'
  <2>1. Exhausted(op)' <=> Exhausted(op)
    BY <1>1, <1>2, SameCount DEF Exhausted, TerminalFailure, CurrentAttempt, circleColumns
  <2> QED
    BY <1>1, <2>1 DEF Standing, StandingKey, Asking
<1>10. op = "resolution" => ~Exhausted("refund")'
  BY <1>2, <1>5 DEF Exhausted, RecoveryState, InState
<1>11. Standing'
  BY <1>1, <1>2, <1>5, <1>9, <1>10 DEF Standing, StandingDispatch, StandingState, StandingKey,
     InState, circleColumns, Asking, Looking, Operations
<1> QED
  BY <1>3, <1>4, <1>7, <1>8, <1>11

LEMMA JournalStep ==
    ASSUME ReviewInv, NEW op \in Operations, Journal(op)
    PROVE  ReviewInv'
<1> USE DEF ReviewInv
<1>1. /\ UNCHANGED <<railVars, order, assignment, lapsed, key, recorded, attempts, held,
                     toOffer, sent, faults>>
      /\ journal' = [journal EXCEPT ![op] = @ \cup {key[op]}]
      /\ pc = <<"journal", op>> /\ pc' = <<"ask", op>>
  BY DEF Journal, MarkCircleRequestStarted, Go, At
<1>2. TypeOK'
  <2>1. pc' \in Places
    BY <1>1, PlaceFacts DEF Steps, Awaits
  <2>2. journal' \in [Operations -> SUBSET Keys]
    BY <1>1 DEF TypeOK, DatabaseTypeOK
  <2> QED
    BY <1>1, <2>1, <2>2 DEF TypeOK, RailTypeOK, DatabaseTypeOK, railVars
<1>3. Ledgers'
  <2>1. key[op] \in 1..key[op]
    BY RailAssumption DEF TypeOK, DatabaseTypeOK, Keys
  <2> QED
    BY <1>1, <2>1 DEF Ledgers, Ledger, CurrentAttempt, railVars, TypeOK, DatabaseTypeOK
<1>4. \/ op = "payout" /\ InState({"verdict_submitted", "payout_failed"})
      \/ op = "resolution" /\ InState({"reviewer_paid"}) /\ ~order.aborted
      \/ op = "refund" /\ InState({"expired"})
      \/ op = "refund" /\ InState({"reviewer_paid"}) /\ order.aborted
  BY <1>1 DEF Standing, StandingState, Operations
<1>5. \A o \in Operations : o # op => journal'[o] = journal[o]
  BY <1>1 DEF TypeOK, DatabaseTypeOK
<1>6. Stages'
  BY <1>1, <1>4, <1>5 DEF Stages, InState, ReviewStates, Unasked, PaidOut, CurrentAttempt, Resolving,
     railVars, Operations
<1>7. ClaimIsExclusive'
  BY <1>1, SameClaim
<1>8. Exhausted(op)' <=> Exhausted(op)
  BY <1>1, SameExhausted
<1>9. Standing'
  BY <1>1, <1>8 DEF Standing, StandingDispatch, StandingState, StandingKey, InState, Resolving,
     Asking, Looking, Operations
<1> QED
  BY <1>2, <1>3, <1>6, <1>7, <1>9

\* The operation in hand has not succeeded yet, so nothing hangs on its attempt.
LEMMA OwnAttempt ==
    ASSUME ReviewInv, NEW op \in Operations, pc[2] = op, pc[1] # "start",
           UNCHANGED <<order, key, journal>>,
           \A o \in Operations \ {op} : attempts'[o] = attempts[o]
    PROVE  Stages'
<1>1. \/ op = "payout" /\ InState({"verdict_submitted", "payout_failed"})
      \/ op = "resolution" /\ InState({"reviewer_paid"})
      \/ op = "refund" /\ InState({"expired", "reviewer_paid"})
  BY DEF ReviewInv, Standing, StandingState, InState, Operations
<1> QED
  BY <1>1 DEF ReviewInv, Stages, InState, ReviewStates, Unasked, PaidOut, CurrentAttempt,
     Resolving, Operations

LEMMA CreatedStep ==
    ASSUME ReviewInv, NEW op \in Operations, Created(op)
    PROVE  ReviewInv'
<1> USE DEF ReviewInv
<1>1. /\ UNCHANGED <<railVars, order, assignment, lapsed, key, journal, held, toOffer, sent,
                     faults>>
      /\ attempts' = [attempts EXCEPT ![op][key[op]] = "pending"]
      /\ recorded' = [recorded EXCEPT ![op] = held]
      /\ pc = <<"ask", op>> /\ pc' = <<"wait", op>> /\ circle[op][held] # "none"
  BY DEF Created, RecordCircleTransaction, Go, At
<1>2. held = key[op] /\ key[op] \in Keys
  BY <1>1 DEF Standing, StandingKey, Asking, TypeOK, DatabaseTypeOK
<1>3. TypeOK'
  <2>1. pc' \in Places
    BY <1>1, PlaceFacts DEF Steps, Awaits
  <2>2. /\ attempts' \in [Operations -> [Keys -> Progress]]
        /\ recorded' \in [Operations -> Keys \cup {0}]
    BY <1>1, <1>2 DEF TypeOK, DatabaseTypeOK, Progress
  <2> QED
    BY <1>1, <2>1, <2>2 DEF TypeOK, RailTypeOK, DatabaseTypeOK, railVars
<1>4. /\ \A o \in Operations \ {op} : attempts'[o] = attempts[o] /\ recorded'[o] = recorded[o]
      /\ \A k \in Keys \ {key[op]} : attempts'[op][k] = attempts[op][k]
      /\ attempts'[op][key[op]] = "pending" /\ recorded'[op] = key[op]
  BY <1>1, <1>2 DEF TypeOK, DatabaseTypeOK
<1>5. Ledgers'
  <2>1. UNCHANGED <<circle, key, journal>>
    BY <1>1 DEF railVars
  <2>2. circle[op][key[op]] # "none"
    BY <1>1, <1>2
  <2>3. Ledger(op)'
    BY <1>2, <1>4, <2>1, <2>2 DEF Ledgers, Ledger, CurrentAttempt
  <2>4. ASSUME NEW o \in Operations \ {op} PROVE Ledger(o)'
    BY <1>4, <2>1 DEF Ledgers, Ledger, CurrentAttempt
  <2> QED
    BY <2>3, <2>4 DEF Ledgers
<1>6. Stages' /\ ClaimIsExclusive'
  BY <1>1, <1>4, OwnAttempt, SameClaim
<1>7. ~Exhausted(op)'
  BY <1>1, <1>4 DEF Exhausted, TerminalFailure, CurrentAttempt
<1>8. Standing'
  BY <1>1, <1>2, <1>4, <1>7 DEF Standing, StandingDispatch, StandingState, StandingKey, InState,
     Resolving, Asking, Looking, Operations
<1> QED
  BY <1>3, <1>5, <1>6, <1>8

LEMMA AnsweredStep ==
    ASSUME ReviewInv, NEW op \in Operations, Answered(op)
    PROVE  ReviewInv'
<1> USE DEF ReviewInv
<1>1. /\ UNCHANGED <<railVars, order, assignment, lapsed, key, journal, held, toOffer, sent,
                     faults>>
      /\ attempts' = [attempts EXCEPT ![op][key[op]] = circle[op][held]]
      /\ recorded' = [recorded EXCEPT ![op] = held]
      /\ pc = <<"wait", op>> /\ pc' = <<"require", op>>
  BY DEF Answered, RecordCircleTransaction, Go, At
<1>2. held = key[op] /\ key[op] \in Keys /\ recorded[op] = key[op]
  BY <1>1 DEF Standing, StandingKey, Asking, Looking, TypeOK, DatabaseTypeOK
<1>3. CurrentAttempt(op) # "none" /\ circle[op][key[op]] # "none"
  BY <1>2, RailAssumption DEF Ledgers, Ledger, CurrentAttempt, Keys
<1>4. TypeOK'
  <2>1. pc' \in Places
    BY <1>1, PlaceFacts DEF Steps, Awaits
  <2>2. circle[op][held] \in Progress
    BY <1>2 DEF TypeOK, RailTypeOK
  <2>3. /\ attempts' \in [Operations -> [Keys -> Progress]]
        /\ recorded' \in [Operations -> Keys \cup {0}]
    BY <1>1, <1>2, <2>2 DEF TypeOK, DatabaseTypeOK
  <2> QED
    BY <1>1, <2>1, <2>3 DEF TypeOK, RailTypeOK, DatabaseTypeOK, railVars
<1>5. /\ \A o \in Operations \ {op} : attempts'[o] = attempts[o] /\ recorded'[o] = recorded[o]
      /\ \A k \in Keys \ {key[op]} : attempts'[op][k] = attempts[op][k]
      /\ attempts'[op][key[op]] = circle[op][key[op]] /\ recorded'[op] = key[op]
  BY <1>1, <1>2 DEF TypeOK, DatabaseTypeOK
<1>6. Ledgers'
  <2>1. ASSUME NEW o \in Operations \ {op} PROVE Ledger(o)'
    BY <1>1, <1>5 DEF Ledgers, Ledger, CurrentAttempt, railVars
  <2>2. ASSUME NEW k \in Keys
        PROVE  /\ circle[op][k] # "none" => k \in journal[op]
               /\ attempts'[op][k] # "none" => circle[op][k] # "none"
               /\ attempts'[op][k] \in {"complete", "failed"} => circle[op][k] = attempts'[op][k]
               /\ k < key[op] => attempts'[op][k] = "failed"
    BY <1>2, <1>3, <1>5, RailAssumption DEF Ledgers, Ledger, Keys
  <2>3. Ledger(op)'
    BY <1>1, <1>3, <1>5, <2>2 DEF Ledgers, Ledger, CurrentAttempt, railVars
  <2> QED
    BY <2>1, <2>3 DEF Ledgers
<1>7. Stages' /\ ClaimIsExclusive'
  BY <1>1, <1>5, OwnAttempt, SameClaim
<1>8. Standing'
  BY <1>1, <1>2, <1>5 DEF Standing, StandingDispatch, StandingState, StandingKey, InState,
     Resolving, Asking, Looking, Operations
<1> QED
  BY <1>4, <1>6, <1>7, <1>8

LEMMA DoneStep ==
    ASSUME ReviewInv, NEW op \in Operations, Done(op)
    PROVE  ReviewInv'
<1> USE DEF ReviewInv
<1>1. /\ UNCHANGED <<railVars, assignment, lapsed, circleColumns, faults>> /\ MemoryKept
      /\ pc = <<"require", op>>
      /\ \/ /\ op = "payout" /\ pc' = <<"start", "resolution">>
            /\ order' = [order EXCEPT !.state = "reviewer_paid"]
         \/ /\ op = "resolution" /\ pc' = Idle
            /\ order' = [order EXCEPT !.state = "settled", !.aborted = FALSE]
         \/ /\ op = "refund" /\ pc' = Idle
            /\ order' = [order EXCEPT !.state = "refunded"]
  BY ReturnKeeps, GoKeeps
     DEF Done, ReviewerPaid, EscrowSettled, ReviewRefunded, Becomes, At, Operations
<1>2. /\ order' \in Order /\ order'.decided = order.decided /\ order'.reviewer = order.reviewer
      /\ order'.payee = order.payee
      /\ order'.state = IF op = "payout" THEN "reviewer_paid"
                        ELSE IF op = "resolution" THEN "settled" ELSE "refunded"
      /\ order'.aborted = (op # "resolution" /\ order.aborted)
  BY <1>1 DEF TypeOK, DatabaseTypeOK, Order, OrderStates
<1>3. \/ op = "payout" /\ InState({"verdict_submitted", "payout_failed"})
      \/ op = "resolution" /\ InState({"reviewer_paid"}) /\ ~order.aborted
      \/ op = "refund" /\ InState({"expired"})
      \/ op = "refund" /\ InState({"reviewer_paid"}) /\ order.aborted
  BY <1>1 DEF Standing, StandingState, Operations
<1>4. CurrentAttempt(op) = "complete"
  BY DEF Done, Completed
<1>5. TypeOK'
  <2>1. pc' \in Places
    BY <1>1, PlaceFacts DEF Steps, Awaits, Operations
  <2> QED
    BY <1>1, <1>2, <2>1 DEF MemoryKept, TypeOK, RailTypeOK, DatabaseTypeOK, railVars, circleColumns
<1>6. Ledgers'
  BY <1>1, SameLedgers DEF railVars
<1>7. Stages'
  BY <1>1, <1>2, <1>3, <1>4 DEF Stages, InState, ReviewStates, Unasked, PaidOut, CurrentAttempt, Resolving,
     railVars, circleColumns
<1>8. ClaimIsExclusive'
  BY <1>1, <1>2, <1>3 DEF ClaimIsExclusive, InState
<1>9. op = "payout" => ~Exhausted("resolution")'
  BY <1>2 DEF Exhausted, RecoveryState
<1>10. Standing'
  BY <1>1, <1>2, <1>9 DEF Standing, StandingDispatch, StandingState, StandingKey, InState,
     Idle, Asking, Looking, Operations
<1> QED
  BY <1>5, <1>6, <1>7, <1>8, <1>10

LEMMA CatchStep ==
    ASSUME ReviewInv, NEW op \in Operations, Catch(op)
    PROVE  ReviewInv'
<1> USE DEF ReviewInv
<1>1. /\ UNCHANGED <<railVars, assignment, lapsed, circleColumns, faults>> /\ MemoryKept
      /\ order' = [order EXCEPT !.state = RecoveryState(op)]
      /\ pc = <<"catch", op>> /\ pc' = Idle
  BY ReturnKeeps DEF Catch, Becomes, At
<1>2. /\ order' \in Order /\ order'.decided = order.decided /\ order'.reviewer = order.reviewer
      /\ order'.state = RecoveryState(op) /\ order'.aborted = order.aborted
      /\ RecoveryState(op) \in OrderStates
  BY <1>1 DEF TypeOK, DatabaseTypeOK, Order, OrderStates, RecoveryState, Operations
<1>3. \/ op = "payout" /\ InState({"verdict_submitted", "payout_failed"})
      \/ op = "resolution" /\ InState({"reviewer_paid"}) /\ ~order.aborted
      \/ op = "refund" /\ InState({"expired"})
      \/ op = "refund" /\ InState({"reviewer_paid"}) /\ order.aborted
  BY <1>1 DEF Standing, StandingState, Operations
<1>4. TypeOK'
  BY <1>1, <1>2, PlaceFacts
     DEF MemoryKept, TypeOK, RailTypeOK, DatabaseTypeOK, railVars, circleColumns, Places
<1>5. Ledgers'
  BY <1>1, SameLedgers DEF railVars
<1>6. Stages'
  BY <1>1, <1>2, <1>3 DEF Stages, InState, ReviewStates, Unasked, PaidOut, CurrentAttempt, Resolving,
     RecoveryState, railVars, circleColumns
<1>7. ClaimIsExclusive'
  BY <1>1, <1>2, <1>3 DEF ClaimIsExclusive, InState, RecoveryState
<1>8. Standing'
  BY <1>1 DEF Standing, StandingDispatch, StandingState, StandingKey, Idle, Operations
<1> QED
  BY <1>4, <1>5, <1>6, <1>7, <1>8

(***************************************************************************)
(* The next key, for the worker and for the operator alike.                *)
(***************************************************************************)
LEMMA NextKeyKeeps ==
    ASSUME ReviewInv, NEW op \in Operations, NextKey(op), UNCHANGED circle,
           key[op] < MaxKeys, CurrentAttempt(op) = "failed",
           \/ op = "payout" /\ InState({"verdict_submitted", "payout_failed"})
           \/ op = "resolution"
                 /\ InState({"reviewer_paid", "reviewer_paid_settlement_failed"})
           \/ op = "refund" /\ InState({"expired", "reviewer_paid"})
    PROVE  DatabaseTypeOK' /\ Ledgers' /\ Stages' /\ ClaimIsExclusive'
<1> USE DEF ReviewInv
<1>1. /\ UNCHANGED <<order, assignment, lapsed, attempts, journal>>
      /\ recorded' = [recorded EXCEPT ![op] = 0]
      /\ key' = [key EXCEPT ![op] = @ + 1]
  BY DEF NextKey
<1>2. /\ key[op] \in Keys /\ key[op] + 1 \in Keys /\ key[op] \in Nat
      /\ key'[op] = key[op] + 1 /\ recorded'[op] = 0
      /\ \A o \in Operations \ {op} : key'[o] = key[o] /\ recorded'[o] = recorded[o]
  BY <1>1, RailAssumption DEF TypeOK, DatabaseTypeOK, Keys
<1>3. DatabaseTypeOK'
  BY <1>1, <1>2 DEF TypeOK, DatabaseTypeOK
<1>4. /\ key[op] + 1 \notin journal[op] /\ attempts[op][key[op] + 1] = "none"
      /\ journal[op] \subseteq 1..(key[op] + 1)
  BY <1>2, RailAssumption DEF Ledgers, Ledger
<1>5. Ledgers'
  <2>1. ASSUME NEW o \in Operations \ {op} PROVE Ledger(o)'
    BY <1>1, <1>2 DEF Ledgers, Ledger, CurrentAttempt
  <2>2. ASSUME NEW k \in Keys, k < key[op] + 1 PROVE attempts[op][k] = "failed"
    BY <1>2, <2>2, RailAssumption DEF Ledgers, Ledger, Keys, CurrentAttempt
  <2>3. Ledger(op)'
    BY <1>1, <1>2, <1>4, <2>2 DEF Ledgers, Ledger, CurrentAttempt
  <2> QED
    BY <2>1, <2>3 DEF Ledgers
<1>6. Stages'
  BY <1>1, <1>2, <1>4 DEF Stages, InState, ReviewStates, Unasked, PaidOut, CurrentAttempt, Resolving, Operations
<1>7. ClaimIsExclusive'
  BY <1>1, SameClaim
<1> QED
  BY <1>3, <1>5, <1>6, <1>7

LEMMA RetryStep ==
    ASSUME ReviewInv, NEW op \in Operations, Retry(op)
    PROVE  ReviewInv'
<1> USE DEF ReviewInv
<1>1. /\ UNCHANGED <<railVars, held, toOffer, sent, faults>>
      /\ pc = <<"require", op>> /\ pc' = <<"catch", op>>
      /\ CurrentAttempt(op) = "failed"
  BY DEF Retry, Go, At, TerminalFailure
<1>2. CASE UNCHANGED databaseVars
  <2>1. MovesOn(op)
    BY <1>1, <1>2 DEF MovesOn, TypeOK
  <2> QED
    BY <2>1, MovesOnStep
<1>3. CASE RotateCircleAttempt(op, held)
  <2>1. NextKey(op) /\ key[op] < MaxKeys
    BY <1>1, <1>3, KeysSuffice DEF RotateCircleAttempt, MayRotate
  <2>2. \/ op = "payout" /\ InState({"verdict_submitted", "payout_failed"})
        \/ op = "resolution" /\ InState({"reviewer_paid"})
        \/ op = "refund" /\ InState({"expired", "reviewer_paid"})
    BY <1>1 DEF Standing, StandingState, InState, Operations
  <2>3. DatabaseTypeOK' /\ Ledgers' /\ Stages' /\ ClaimIsExclusive'
    BY <1>1, <2>1, <2>2, NextKeyKeeps DEF railVars, InState
  <2>4. TypeOK'
    <3>1. pc' \in Places
      BY <1>1, PlaceFacts DEF Steps, Awaits
    <3> QED
      BY <1>1, <2>3, <3>1 DEF TypeOK, RailTypeOK, railVars
  <2>5. Standing'
    BY <1>1, <2>1 DEF NextKey, Standing, StandingDispatch, StandingState, StandingKey, InState,
       Asking, Looking, Operations
  <2> QED
    BY <2>3, <2>4, <2>5
<1> QED
  BY <1>2, <1>3 DEF Retry

-----------------------------------------------------------------------------
(***************************************************************************)
(* Reviewers, operator, time, client and Circle.                           *)
(***************************************************************************)
LEMMA ReviewerStep ==
    ASSUME ReviewInv, NEW r \in Reviewers, Reviewer(r)
    PROVE  ReviewInv'
<1> USE DEF ReviewInv
<1>1. UNCHANGED <<railVars, lapsed, circleColumns, pc, held, toOffer, sent, faults>>
  BY DEF Reviewer, ClaimOrder, SubmitVerdict, memory
<1>2. Ledgers'
  BY <1>1, SameLedgers DEF railVars
<1>3. CASE ClaimOrder(r)
  <2>1. /\ InState({"dispatched"}) /\ assignment[r] = "offered"
        /\ order' = [order EXCEPT !.state = "claimed", !.reviewer = r,
                                  !.payee = registry[r].address]
        /\ assignment' = ClaimedBy(r)
        /\ registry[r].address = "own"
    BY <1>3 DEF ClaimOrder, StillEligible, Eligible, TypeOK, RailTypeOK, ReviewerRow, Addresses
  <2>2. /\ order' \in Order /\ order'.state = "claimed" /\ order'.reviewer = r
        /\ order'.decided = order.decided /\ order'.aborted = order.aborted
        /\ order'.payee = "own"
    BY <2>1 DEF TypeOK, DatabaseTypeOK, Order, OrderStates, Addresses
  <2>3. TypeOK'
    BY <1>1, <2>1, <2>2 DEF TypeOK, RailTypeOK, DatabaseTypeOK, railVars, circleColumns,
       ClaimedBy, Withdrawn
  <2>4. Stages'
    BY <1>1, <2>1, <2>2, DatabaseAssumption DEF Stages, InState, ReviewStates, Unasked, PaidOut,
       CurrentAttempt, Resolving, railVars, circleColumns
  <2>5. order.reviewer = NoReviewer
    BY <2>1 DEF Stages, InState
  <2>6. ClaimIsExclusive'
    BY <2>1, <2>2, <2>5, DatabaseAssumption
       DEF ClaimIsExclusive, InState, ClaimedBy, Withdrawn, TypeOK, DatabaseTypeOK
  <2>7. Standing'
    <3>1. pc[2] \notin Operations
      BY <2>1 DEF Standing, StandingState, InState, Operations
    <3> QED
      BY <1>1, <2>1, <2>2, <3>1 DEF Standing, StandingDispatch, StandingState, StandingKey,
         InState, ReviewStates, Operations
  <2> QED
    BY <1>2, <2>3, <2>4, <2>6, <2>7
<1>4. CASE SubmitVerdict(r)
  <2>1. /\ InState({"claimed"}) /\ UNCHANGED assignment
        /\ order' = [order EXCEPT !.state = "verdict_submitted", !.decided = TRUE]
    BY <1>4 DEF SubmitVerdict
  <2>2. /\ order' \in Order /\ order'.state = "verdict_submitted" /\ order'.decided
        /\ order'.reviewer = order.reviewer /\ order'.aborted = order.aborted
        /\ order'.payee = order.payee
    BY <2>1 DEF TypeOK, DatabaseTypeOK, Order, OrderStates
  <2>3. TypeOK'
    BY <1>1, <2>1, <2>2 DEF TypeOK, RailTypeOK, DatabaseTypeOK, railVars, circleColumns
  <2>4. Stages'
    BY <1>1, <2>1, <2>2 DEF Stages, InState, ReviewStates, Unasked, PaidOut,
       CurrentAttempt, Resolving, railVars, circleColumns
  <2>5. ClaimIsExclusive'
    BY <2>1, <2>2 DEF ClaimIsExclusive, InState, Stages
  <2>6. Standing'
    <3>1. pc[2] \notin Operations
      BY <2>1 DEF Standing, StandingState, InState, Operations
    <3> QED
      BY <1>1, <2>1, <2>2, <3>1 DEF Standing, StandingDispatch, StandingState, StandingKey,
         InState, ReviewStates, Operations
  <2> QED
    BY <1>2, <2>3, <2>4, <2>5, <2>6
<1> QED
  BY <1>3, <1>4 DEF Reviewer

LEMMA OperatorStep == ReviewInv /\ Operator => ReviewInv'
<1> SUFFICES ASSUME ReviewInv, NEW op \in Operations, Awaiting, ResumeCircleOperation(op),
                    UNCHANGED <<railVars, memory, faults>>
             PROVE  ReviewInv'
  BY DEF Operator
<1> USE DEF ReviewInv
<1>1. /\ NextKey(op) /\ key[op] < MaxKeys /\ Exhausted(op) /\ CurrentAttempt(op) = "failed"
      /\ order.state = RecoveryState(op)
  BY DEF ResumeCircleOperation, Exhausted, TerminalFailure
<1>2. DatabaseTypeOK' /\ Ledgers' /\ Stages' /\ ClaimIsExclusive'
  BY <1>1, NextKeyKeeps DEF railVars, InState, RecoveryState, Operations
<1>3. TypeOK'
  BY <1>2 DEF TypeOK, RailTypeOK, railVars, memory
<1>4. pc[2] = op => pc = Idle
  BY <1>1 DEF Awaiting, Awaits, Standing, StandingKey, Asking
<1>5. pc[2] # op
  BY <1>4 DEF Idle, Operations
<1>6. ASSUME NEW o \in Operations, pc[2] = o
      PROVE  /\ key'[o] = key[o] /\ recorded'[o] = recorded[o]
             /\ Exhausted(o)' <=> Exhausted(o)
  <2>1. key'[o] = key[o] /\ recorded'[o] = recorded[o] /\ UNCHANGED <<attempts, order>>
    BY <1>1, <1>5, <1>6 DEF NextKey, TypeOK, DatabaseTypeOK
  <2> QED
    BY <2>1, SameCount DEF Exhausted, TerminalFailure, CurrentAttempt
<1>7. UNCHANGED <<order, pc, held, sent, journal>>
  BY <1>1 DEF NextKey, memory
<1>8. StandingDispatch' /\ StandingKey'
  BY <1>6, <1>7 DEF Standing, StandingDispatch, StandingKey, InState
<1>9. StandingState'
  <2>1. pc[2] = "resolution" /\ pc[1] \in {"check", "preflight"} => ~Resolving'
    BY <1>5, <1>6, <1>7 DEF Standing, StandingState, Resolving, Operations
  <2> QED
    BY <1>7, <2>1 DEF Standing, StandingState, InState
<1> QED
  BY <1>2, <1>3, <1>8, <1>9 DEF Standing

LEMMA OutsideStep == ReviewInv /\ (Time \/ Client) => ReviewInv'
<1> SUFFICES ASSUME ReviewInv, Time \/ Client PROVE ReviewInv'
  OBVIOUS
<1> USE DEF ReviewInv
<1>1. /\ UNCHANGED <<circle, order, assignment, circleColumns, memory, faults>>
      /\ clock' \in Clock /\ lapsed' \in BOOLEAN /\ registry' = registry
      /\ job' \in {"open", "tight", "resolved", "rejected", "expired"}
  <2>1. CASE TimePasses /\ UNCHANGED <<databaseVars, memory, faults>>
    BY <2>1 DEF TimePasses, databaseVars, TypeOK, RailTypeOK, DatabaseTypeOK, Clock
  <2>2. CASE OfferLapses /\ UNCHANGED <<railVars, memory, faults>>
    BY <2>2 DEF OfferLapses, railVars, TypeOK, RailTypeOK
  <2>3. CASE Client
    BY <2>3, RailAssumption DEF Client, Reclaim, databaseVars, TypeOK, RailTypeOK, DatabaseTypeOK
  <2> QED
    BY <2>1, <2>2, <2>3 DEF Time
<1>2. TypeOK'
  BY <1>1 DEF TypeOK, RailTypeOK, DatabaseTypeOK, circleColumns, memory
<1> QED
  BY <1>1, <1>2, QuietStep DEF memory

(***************************************************************************)
(* Circle only goes on: what is complete or failed stays so.               *)
(***************************************************************************)
LEMMA CircleStep ==
    ASSUME ReviewInv, NEW op \in Operations, CircleAccepts(op) \/ CircleFinishes(op)
    PROVE  ReviewInv'
<1> USE DEF ReviewInv
<1>1. PICK k \in Keys, state \in Progress :
        /\ circle' = [circle EXCEPT ![op][k] = state]
        /\ k \in journal[op] /\ state # "none"
        /\ circle[op][k] \in {"none", "pending"}
  <2>1. ASSUME NEW k \in journal[op], Accept(op, k)
        PROVE  k \in Keys /\ circle' = [circle EXCEPT ![op][k] = "pending"]
                  /\ circle[op][k] = "none"
    BY <2>1 DEF Accept, TypeOK, DatabaseTypeOK
  <2>2. ASSUME NEW k \in Keys, Complete(op, k) \/ Fail(op, k)
        PROVE  /\ k \in journal[op] /\ circle[op][k] = "pending"
               /\ \E state \in {"complete", "failed"} :
                     circle' = [circle EXCEPT ![op][k] = state]
    BY <2>2 DEF Complete, Fail, Ledgers, Ledger
  <2> QED
    BY <2>1, <2>2 DEF CircleAccepts, CircleFinishes, Progress
<1>2. /\ UNCHANGED <<databaseVars, memory, faults, clock, registry>>
      /\ job' \in {"open", "tight", "resolved", "rejected", "expired"}
  BY DEF CircleAccepts, CircleFinishes, Accept, Complete, Fail, TypeOK, RailTypeOK
<1>3. /\ circle' \in [Operations -> [Keys -> Progress]]
      /\ \A o \in Operations, i \in Keys :
            circle'[o][i] = IF o = op /\ i = k THEN state ELSE circle[o][i]
  BY <1>1 DEF TypeOK, RailTypeOK
<1>4. TypeOK'
  BY <1>2, <1>3
     DEF TypeOK, RailTypeOK, DatabaseTypeOK, databaseVars, circleColumns, memory
<1>5. Ledgers'
  <2>1. ASSUME NEW o \in Operations PROVE Ledger(o)'
    BY <1>1, <1>2, <1>3 DEF Ledgers, Ledger, CurrentAttempt, databaseVars, circleColumns
  <2> QED
    BY <2>1 DEF Ledgers
<1>6. Stages'
  BY <1>2, SameStages DEF databaseVars, circleColumns
<1>7. ClaimIsExclusive'
  BY <1>2, SameClaim DEF databaseVars
<1>8. Standing'
  BY <1>2, SameStanding DEF databaseVars, memory
<1> QED
  BY <1>4, <1>5, <1>6, <1>7, <1>8

\* The registry is nobody's business but the dispatch's and the claim's.
LEMMA ToolStep == ReviewInv /\ ReviewerTool => ReviewInv'
<1> SUFFICES ASSUME ReviewInv, ReviewerTool PROVE ReviewInv'
  OBVIOUS
<1> USE DEF ReviewInv
<1>1. /\ UNCHANGED <<circle, job, clock, databaseVars, memory>>
      /\ faults' \in 0..MaxFaults
  BY ProcessorAssumption DEF ReviewerTool, UpsertReviewer, SetReviewerActive, Fault, TypeOK
<1>2. registry' \in [Reviewers -> ReviewerRow]
  <2>1. registry \in [Reviewers -> ReviewerRow]
    BY DEF TypeOK, RailTypeOK
  <2>2. ASSUME NEW r \in Reviewers, UpsertReviewer(r) PROVE registry' \in [Reviewers -> ReviewerRow]
    BY <2>1, <2>2 DEF UpsertReviewer, ReviewerRow
  <2>3. ASSUME NEW r \in Reviewers, SetReviewerActive(r)
        PROVE  registry' \in [Reviewers -> ReviewerRow]
    BY <2>1, <2>3 DEF SetReviewerActive, ReviewerRow
  <2> QED
    BY <2>2, <2>3 DEF ReviewerTool
<1>3. TypeOK'
  BY <1>1, <1>2 DEF TypeOK, RailTypeOK, DatabaseTypeOK, databaseVars, circleColumns, memory
<1> QED
  BY <1>1, <1>3, QuietStep DEF databaseVars, memory

LEMMA FaultStep == ReviewInv /\ (CallFails \/ Crash) => ReviewInv'
<1> SUFFICES ASSUME ReviewInv, CallFails \/ Crash PROVE ReviewInv'
  OBVIOUS
<1> USE DEF ReviewInv
<1>1. UNCHANGED <<railVars, databaseVars>> /\ faults' \in 0..MaxFaults
  BY ProcessorAssumption DEF CallFails, Crash, Fault, TypeOK
<1>2. CASE Return
  <2>1. TypeOK'
    BY <1>1, <1>2, ReturnKeeps, PlaceFacts
       DEF MemoryKept, TypeOK, RailTypeOK, DatabaseTypeOK, railVars, databaseVars, circleColumns,
           Places
  <2>2. Ledgers' /\ Stages' /\ ClaimIsExclusive'
    BY <1>1, SameLedgers, SameStages, SameClaim DEF railVars, databaseVars, circleColumns
  <2>3. Standing'
    BY <1>2, ReturnKeeps DEF Standing, StandingDispatch, StandingState, StandingKey, Idle, Operations
  <2> QED
    BY <2>1, <2>2, <2>3
<1>3. CASE UNCHANGED <<pc, held, sent>> /\ toOffer' \subseteq Reviewers
  <2>1. TypeOK'
    BY <1>1, <1>3 DEF TypeOK, RailTypeOK, DatabaseTypeOK, railVars, databaseVars, circleColumns
  <2> QED
    BY <1>1, <1>3, <2>1, QuietStep DEF railVars, databaseVars
<1>4. CASE \E op \in Operations :
            /\ pc \in {"check", "preflight", "ask", "wait"} \X {op}
            /\ Go("catch", op)
  <2>1. PICK op \in Operations : /\ pc[1] # "start" /\ pc[2] = op
                                 /\ Go("catch", op)
    BY <1>4
  <2>2. MovesOn(op)
    BY <1>1, <2>1 DEF MovesOn, Go
  <2> QED
    BY <2>2, MovesOnStep
<1>5. CASE CallFails
  BY <1>2, <1>3, <1>4, <1>5 DEF CallFails, TypeOK
<1>6. CASE Crash
  BY <1>2, <1>6 DEF Crash
<1> QED
  BY <1>5, <1>6

LEMMA FulfillingStep ==
    ASSUME ReviewInv, NEW op \in Operations, Fulfilling(op)
    PROVE  ReviewInv'
<1>1. CASE Validated(op) \/ Invalid(op) \/ Preflight(op) \/ StillPending(op)
  <2>1. MovesOn(op)
    BY <1>1 DEF Validated, Invalid, Preflight, StillPending, At, Go, MovesOn, ReviewInv, TypeOK
  <2> QED
    BY <2>1, MovesOnStep
<1>2. CASE InvalidForGood(op) \/ Journal(op) \/ Created(op) \/ Answered(op)
  BY <1>2, InvalidForGoodStep, JournalStep, CreatedStep, AnsweredStep
<1>3. CASE Done(op) \/ Retry(op) \/ Catch(op)
  BY <1>3, DoneStep, RetryStep, CatchStep
<1> QED
  BY <1>1, <1>2, <1>3 DEF Fulfilling

LEMMA NextInv == ReviewInv /\ [Next]_vars => ReviewInv'
<1> SUFFICES ASSUME ReviewInv, [Next]_vars PROVE ReviewInv'
  OBVIOUS
<1>1. CASE UNCHANGED vars
  <2>1. TypeOK'
    BY <1>1 DEF vars, railVars, databaseVars, circleColumns, memory, ReviewInv, TypeOK,
       RailTypeOK, DatabaseTypeOK
  <2> QED
    BY <1>1, <2>1, QuietStep DEF vars, railVars, databaseVars, memory
<1>2. CASE Processor
  BY <1>2, ProcessOrderStep, DispatchableStep, UndispatchableStep, OfferToStep, AllOfferedStep,
     StartPayoutStep, StartResolutionStep, StartRefundStep, FulfillingStep
     DEF Processor, Dispatching
<1>3. CASE Next /\ ~Processor
  BY <1>3, ReviewerStep, OperatorStep, OutsideStep, CircleStep, ToolStep, FaultStep
     DEF Next, Circle
<1> QED
  BY <1>1, <1>2, <1>3

(***************************************************************************)
(* The invariant that everything below rests on: what pc, the key in hand  *)
(* and the journal know of each other, and what the state of the order     *)
(* says of the money, hold throughout.                                     *)
(***************************************************************************)
THEOREM Invariance == Spec => []ReviewInv
BY InitInv, NextInv, PTL DEF Spec

\* A transaction that may yet complete, or has, is that of the key in use.
LEMMA OnlyCurrent ==
    ASSUME ReviewInv, NEW op \in Operations, NEW k \in Keys,
           circle[op][k] \in {"pending", "complete"}
    PROVE  k = key[op] /\ k \in journal[op] /\ ~Unasked(op)
<1>1. k \in journal[op] /\ journal[op] \subseteq 1..key[op] /\ key[op] \in Nat /\ k \in Nat
  BY RailAssumption DEF ReviewInv, Ledgers, Ledger, TypeOK, DatabaseTypeOK, Keys
<1>2. ~(k < key[op])
  BY DEF ReviewInv, Ledgers, Ledger
<1> QED
  BY <1>1, <1>2 DEF Unasked

\* A refund and a resolution are never both on their way.
LEMMA RefundExcludes ==
    ASSUME ReviewInv, ~Unasked("refund"), NEW k \in Keys
    PROVE  circle["resolution"][k] \notin {"pending", "complete"}
<1> SUFFICES ASSUME circle["resolution"][k] \in {"pending", "complete"} PROVE FALSE
  OBVIOUS
<1>1. k = key["resolution"] /\ k \in journal["resolution"] /\ ~Unasked("resolution")
  BY OnlyCurrent DEF Operations
<1>2. order.aborted \/ ~order.decided
  BY DEF ReviewInv, Stages
<1> QED
  BY <1>1, <1>2 DEF ReviewInv, Stages, Resolving

(***************************************************************************)
(* Every key that was given up has failed at Circle, and once a refund may *)
(* have been asked for, every resolution that may have been has failed.    *)
(***************************************************************************)
THEOREM MoneyOneWay == Spec => []MoneyGoesOneWay
<1>1. ReviewInv => MoneyGoesOneWay
  <2> SUFFICES ASSUME ReviewInv PROVE MoneyGoesOneWay
    OBVIOUS
  <2>1. RetiredKeysFailed
    <3>1. ASSUME NEW op \in Operations, NEW k \in 1..(key[op] - 1)
          PROVE  circle[op][k] = "failed"
      <4>1. k \in Keys /\ k < key[op]
        BY RailAssumption DEF ReviewInv, TypeOK, DatabaseTypeOK, Keys
      <4> QED
        BY <4>1 DEF ReviewInv, Ledgers, Ledger
    <3>2. \A op \in Operations : recorded[op] \in {0, key[op]}
      BY DEF ReviewInv, Ledgers, Ledger
    <3> QED
      BY <3>1, <3>2 DEF RetiredKeysFailed
  <2>2. RefundExcludesResolution
    <3> SUFFICES ASSUME ~Unasked("refund"), NEW k \in journal["resolution"]
                 PROVE  circle["resolution"][k] = "failed"
      BY DEF RefundExcludesResolution, Unasked
    <3>1. k \in Keys /\ k \in 1..key["resolution"] /\ key["resolution"] \in Nat /\ k \in Nat
      BY RailAssumption
         DEF ReviewInv, Ledgers, Ledger, TypeOK, DatabaseTypeOK, Operations, Keys
    <3>2. k < key["resolution"]
      <4>1. ~Resolving
        BY DEF ReviewInv, Stages, Resolving, Unasked
      <4> QED
        BY <3>1, <4>1 DEF Resolving
    <3> QED
      BY <3>1, <3>2 DEF ReviewInv, Ledgers, Ledger, Operations
  <2> QED
    BY <2>1, <2>2 DEF MoneyGoesOneWay, ReviewInv
<1> QED
  BY <1>1, Invariance, PTL

(***************************************************************************)
(* What the order says happened has happened at Circle, under the recorded *)
(* id.                                                                     *)
(***************************************************************************)
THEOREM BooksExact == Spec => []BooksMatchCircle
<1>1. ReviewInv => BooksMatchCircle
  <2> SUFFICES ASSUME ReviewInv PROVE BooksMatchCircle
    OBVIOUS
  <2> USE DEF ReviewInv
  <2>1. \A op \in Operations : key[op] \in Keys
    BY DEF TypeOK, DatabaseTypeOK
  <2>2. ASSUME NEW op \in Operations, CurrentAttempt(op) = "complete"
        PROVE  key[op] \in Succeeded(op)
    BY <2>1, <2>2 DEF Ledgers, Ledger, CurrentAttempt, Succeeded
  <2>3. ASSUME NEW op \in Operations, CurrentAttempt(op) = "complete"
        PROVE  recorded[op] \in Succeeded(op)
    BY <2>2, <2>3 DEF Ledgers, Ledger
  <2>4. \A op \in {"payout", "resolution", "refund"} : op \in Operations
    BY DEF Operations
  <2> QED
    BY <2>2, <2>3, <2>4 DEF BooksMatchCircle, Stages, InState, PaidOut
<1> QED
  BY <1>1, Invariance, PTL

(***************************************************************************)
(* At most one reviewer ever holds the order.                              *)
(***************************************************************************)
THEOREM ClaimExclusive == Spec => []ClaimIsExclusive
BY Invariance, PTL DEF ReviewInv

-----------------------------------------------------------------------------
(***************************************************************************)
(* The refinement.  Only a verdict, the end of a transaction at Circle and *)
(* the closing of the order are steps of the promise.                      *)
(***************************************************************************)
Over == {"settled", "refunded"}

Outcome == IF InState(Over) THEN order.state ELSE "none"

Unnoticed ==
    /\ UNCHANGED circle
    /\ \/ UNCHANGED order
       \/ /\ order'.decided = order.decided
          /\ ~InState(Over) /\ ~InState(Over)'

LEMMA UnnoticedStutters ==
    ASSUME Unnoticed
    PROVE  UNCHANGED Promise!promiseVars
<1>1. \A op \in Operations : Succeeded(op)' = Succeeded(op)
  BY DEF Unnoticed, Succeeded
<1>2. Outcome' = Outcome /\ order'.decided = order.decided
  BY DEF Unnoticed, Outcome, InState
<1> QED
  BY <1>1, <1>2 DEF Promise!promiseVars, Outcome, Over, InState, Operations

LEMMA ProcessOrderUnnoticed ==
    ASSUME ReviewInv,
           ProcessOrder \/ Dispatching \/ StartPayout \/ StartResolution \/ StartRefund
    PROVE  Unnoticed
<1>0. order \in Order
  BY DEF ReviewInv, TypeOK, DatabaseTypeOK
<1>1. CASE ProcessOrder
  BY <1>0, <1>1 DEF ProcessOrder, TimeoutExpired, TimeoutRedispatched, SlaExpiry, OfferExpiry,
     Becomes, InState, ReviewStates, Over, Unnoticed, railVars, databaseVars, Order
<1>2. CASE Dispatching
  <2>1. CASE Dispatchable \/ NobodyToAsk \/ NotReviewable
    BY <2>1 DEF Dispatchable, NobodyToAsk, NotReviewable, Unnoticed, railVars, databaseVars
  <2>2. CASE UndispatchableForGood
    BY <1>0, <2>2 DEF UndispatchableForGood, At, ReviewInv, Standing, StandingDispatch, InState,
       Over, Unnoticed, railVars, Order
  <2>3. CASE AllOffered
    BY <1>0, <2>3 DEF AllOffered, Becomes, At, ReviewInv, Standing, StandingDispatch, InState,
       Over, ReviewStates, Unnoticed, railVars, Order
  <2>4. ASSUME NEW r \in Reviewers, OfferTo(r) PROVE Unnoticed
    BY <1>0, <2>4 DEF OfferTo, RecordDispatch, InState, Over, Unnoticed, railVars,
       databaseVars, Order
  <2> QED
    BY <1>2, <2>1, <2>2, <2>3, <2>4 DEF Dispatching
<1>3. CASE StartPayout \/ StartRefund
  BY <1>3 DEF StartPayout, StartRefund, Unnoticed, railVars, databaseVars
<1>4. CASE StartResolution
  BY <1>0, <1>4 DEF StartResolution, Becomes, At, ReviewInv, Standing, StandingState, InState,
     Over, Unnoticed, railVars, Order
<1> QED
  BY <1>1, <1>2, <1>3, <1>4

\* What stays open while an operation is in hand.
LEMMA InHandIsOpen ==
    ASSUME ReviewInv, NEW op \in Operations, pc[2] = op
    PROVE  ~InState(Over) /\ order \in Order
BY DEF ReviewInv, TypeOK, DatabaseTypeOK, Standing, StandingState, InState, Over, Operations

LEMMA FulfillingUnnoticed ==
    ASSUME ReviewInv, NEW op \in Operations, Fulfilling(op), ~Done(op)
    PROVE  Unnoticed
<1>1. CASE \/ Validated(op) \/ Invalid(op) \/ Preflight(op) \/ Journal(op) \/ Created(op)
           \/ Answered(op) \/ Retry(op) \/ StillPending(op)
  BY <1>1 DEF Validated, Invalid, Preflight, Journal, Created, Answered, Retry, StillPending,
     MarkCircleRequestStarted, RecordCircleTransaction, RotateCircleAttempt, NextKey, Unnoticed,
     railVars, databaseVars
<1>2. CASE InvalidForGood(op)
  <2>1. pc[2] = op
    BY <1>2 DEF InvalidForGood, At
  <2> QED
    BY <1>2, <2>1, InHandIsOpen DEF InvalidForGood, InState, Unnoticed, railVars, Order
<1>3. CASE Catch(op)
  <2>1. pc[2] = op
    BY <1>3 DEF Catch, At
  <2> QED
    BY <1>3, <2>1, InHandIsOpen
       DEF Catch, Becomes, RecoveryState, InState, Over, Unnoticed, railVars, Order, Operations
<1> QED
  BY <1>1, <1>2, <1>3 DEF Fulfilling

LEMMA OthersUnnoticed ==
    ASSUME ReviewInv,
           \/ \E r \in Reviewers : Reviewer(r) /\ ClaimOrder(r)
           \/ Operator \/ Time \/ Client \/ ReviewerTool
           \/ CallFails \/ Crash \/ UNCHANGED vars
    PROVE  Unnoticed
<1>0. order \in Order
  BY DEF ReviewInv, TypeOK, DatabaseTypeOK
<1>1. ASSUME NEW r \in Reviewers, Reviewer(r), ClaimOrder(r) PROVE Unnoticed
  BY <1>0, <1>1 DEF Reviewer, ClaimOrder, InState, Over, Unnoticed, railVars, Order
<1>2. CASE Operator \/ Time \/ Client \/ ReviewerTool
  BY <1>2 DEF ReviewerTool, UpsertReviewer, SetReviewerActive, Operator, ResumeCircleOperation, NextKey, Time, TimePasses, OfferLapses, Client,
     Reclaim, Unnoticed, railVars, databaseVars
<1>3. CASE CallFails \/ Crash \/ UNCHANGED vars
  BY <1>3 DEF CallFails, Crash, Unnoticed, vars, railVars, databaseVars
<1> QED
  BY <1>1, <1>2, <1>3

LEMMA OneSucceeded ==
    ASSUME ReviewInv, NEW op \in Operations
    PROVE  /\ circle[op][key[op]] = "complete" => Succeeded(op) = {key[op]}
           /\ circle[op][key[op]] # "complete" => Succeeded(op) = {}
<1>1. \A k \in Succeeded(op) : k = key[op]
  BY OnlyCurrent DEF Succeeded
<1>2. key[op] \in Keys
  BY DEF ReviewInv, TypeOK, DatabaseTypeOK
<1> QED
  BY <1>1, <1>2 DEF Succeeded

LEMMA Counts ==
    /\ Cardinality({}) = 0
    /\ \A k : Cardinality({k}) = 1
BY FS_EmptySet, FS_Singleton

LEMMA SubmitVerdictJudges ==
    ASSUME ReviewInv, NEW r \in Reviewers, Reviewer(r), SubmitVerdict(r)
    PROVE  Promise!Judge
<1>1. /\ order \in Order /\ order.state = "claimed" /\ UNCHANGED circle
      /\ order' = [order EXCEPT !.state = "verdict_submitted", !.decided = TRUE]
  BY DEF ReviewInv, TypeOK, DatabaseTypeOK, Reviewer, SubmitVerdict, InState, railVars
<1>2. ~order.decided /\ Unasked("refund")
  BY <1>1 DEF ReviewInv, Stages, InState, ReviewStates
<1>3. Succeeded("refund") = {}
  BY <1>2, OnlyCurrent DEF Succeeded, Operations
<1>4. \A op \in Operations : Succeeded(op)' = Succeeded(op)
  BY <1>1 DEF Succeeded
<1>5. order'.decided /\ order'.state = "verdict_submitted"
  BY <1>1 DEF Order
<1> QED
  BY <1>1, <1>2, <1>3, <1>4, <1>5, Counts DEF Promise!Judge, InState, Operations

\* The reviewer of a verdict has been paid before anything else is asked for.
LEMMA PaidFirst ==
    ASSUME ReviewInv, \/ ~Unasked("resolution")
                      \/ ~Unasked("refund") /\ order.decided
    PROVE  order.decided /\ Cardinality(Succeeded("payout")) = 1
<1>1. order.decided /\ PaidOut
  BY DEF ReviewInv, Stages, InState
<1>2. circle["payout"][key["payout"]] = "complete"
  BY <1>1 DEF ReviewInv, Ledgers, Ledger, PaidOut, CurrentAttempt, TypeOK, DatabaseTypeOK,
     Operations
<1> QED
  BY <1>1, <1>2, OneSucceeded, Counts DEF Operations

LEMMA CompleteIsPromised ==
    ASSUME ReviewInv, NEW op \in Operations, NEW k \in Keys, Complete(op, k), UNCHANGED order
    PROVE  Promise!PayReviewer \/ Promise!Resolve \/ Promise!Refund
<1>1. /\ circle[op][k] = "pending" /\ circle' = [circle EXCEPT ![op][k] = "complete"]
      /\ circle \in [Operations -> [Keys -> Progress]]
  BY DEF Complete, ReviewInv, TypeOK, RailTypeOK
<1>2. k = key[op] /\ ~Unasked(op)
  BY <1>1, OnlyCurrent
<1>3. Succeeded(op) = {}
  BY <1>1, <1>2, OneSucceeded
<1>4. Succeeded(op)' = {k}
  BY <1>1, <1>3 DEF Succeeded
<1>5. \A o \in Operations \ {op} : Succeeded(o)' = Succeeded(o)
  BY <1>1 DEF Succeeded
<1>6. CASE op = "payout"
  <2>1. order.decided
    BY <1>2, <1>6 DEF ReviewInv, Stages
  <2> QED
    BY <1>3, <1>4, <1>5, <1>6, <2>1, Counts DEF Promise!PayReviewer, InState, Operations
<1>7. CASE op = "resolution"
  <2>1. Succeeded("refund") = {}
    BY <1>1, <1>7, RefundExcludes, OnlyCurrent DEF Succeeded, Operations
  <2>2. order.decided /\ Cardinality(Succeeded("payout")) = 1
    BY <1>2, <1>7, PaidFirst
  <2> QED
    BY <1>3, <1>4, <1>5, <1>7, <2>1, <2>2, Counts
       DEF Promise!Resolve, Promise!Earned, InState, Operations
<1>8. CASE op = "refund"
  <2>1. Succeeded("resolution") = {}
    BY <1>2, <1>8, RefundExcludes DEF Succeeded
  <2>2. order.decided => Cardinality(Succeeded("payout")) = 1
    BY <1>2, <1>8, PaidFirst
  <2> QED
    BY <1>3, <1>4, <1>5, <1>8, <2>1, <2>2, Counts
       DEF Promise!Refund, Promise!Earned, InState, Operations
<1> QED
  BY <1>6, <1>7, <1>8 DEF Operations

LEMMA DoneCloses ==
    ASSUME ReviewInv, NEW op \in Operations, Done(op)
    PROVE  Promise!Close \/ Unnoticed
<1>1. /\ UNCHANGED circle /\ pc[2] = op
      /\ \/ op = "payout" /\ order' = [order EXCEPT !.state = "reviewer_paid"]
         \/ /\ op = "resolution"
            /\ order' = [order EXCEPT !.state = "settled", !.aborted = FALSE]
         \/ op = "refund" /\ order' = [order EXCEPT !.state = "refunded"]
  BY DEF Done, ReviewerPaid, EscrowSettled, ReviewRefunded, Becomes, At, railVars, Operations
<1>2. ~InState(Over) /\ order \in Order
  BY <1>1, InHandIsOpen
<1>3. /\ order'.decided = order.decided
      /\ order'.state = IF op = "payout" THEN "reviewer_paid"
                        ELSE IF op = "resolution" THEN "settled" ELSE "refunded"
  BY <1>1, <1>2 DEF Order
<1>4. CASE op = "payout"
  BY <1>1, <1>2, <1>3, <1>4 DEF Unnoticed, InState, Over
<1>5. CASE op # "payout"
  <2>1. circle[op][key[op]] = "complete"
    BY DEF Done, Completed, CurrentAttempt, ReviewInv, Ledgers, Ledger, TypeOK, DatabaseTypeOK
  <2>2. Cardinality(Succeeded(op)) = 1
    BY <2>1, OneSucceeded, Counts
  <2>3. \A o \in Operations : Succeeded(o)' = Succeeded(o)
    BY <1>1 DEF Succeeded
  <2> QED
    BY <1>1, <1>2, <1>3, <1>5, <2>2, <2>3 DEF Promise!Close, InState, Over, Operations
<1> QED
  BY <1>4, <1>5

LEMMA CircleIsPromised ==
    ASSUME ReviewInv, NEW op \in Operations, CircleAccepts(op) \/ CircleFinishes(op)
    PROVE  [Promise!Next]_(Promise!promiseVars)
<1>1. UNCHANGED order
  BY DEF CircleAccepts, CircleFinishes, databaseVars
<1>2. ASSUME NEW k \in Keys, Complete(op, k) PROVE Promise!Next
  BY <1>1, <1>2, CompleteIsPromised DEF Promise!Next
<1>3. ASSUME NEW k, Accept(op, k) \/ Fail(op, k) PROVE UNCHANGED Promise!promiseVars
  <2>1. \A o \in Operations : Succeeded(o)' = Succeeded(o)
    BY <1>3 DEF Accept, Fail, Succeeded, ReviewInv, TypeOK, RailTypeOK
  <2> QED
    BY <1>1, <2>1 DEF Promise!promiseVars, InState, Operations
<1> QED
  BY <1>2, <1>3 DEF CircleAccepts, CircleFinishes

LEMMA StepIsPromised == ReviewInv /\ [Next]_vars => [Promise!Next]_(Promise!promiseVars)
<1> SUFFICES ASSUME ReviewInv, [Next]_vars PROVE [Promise!Next]_(Promise!promiseVars)
  OBVIOUS
<1>1. CASE Unnoticed
  BY <1>1, UnnoticedStutters
<1>2. ASSUME NEW op \in Operations, Fulfilling(op) PROVE [Promise!Next]_(Promise!promiseVars)
  BY <1>1, <1>2, FulfillingUnnoticed, DoneCloses DEF Promise!Next
<1>3. CASE Processor
  BY <1>1, <1>2, <1>3, ProcessOrderUnnoticed DEF Processor
<1>4. ASSUME NEW r \in Reviewers, Reviewer(r) PROVE [Promise!Next]_(Promise!promiseVars)
  <2>1. CASE ClaimOrder(r)
    BY <1>1, <1>4, <2>1, OthersUnnoticed
  <2>2. CASE SubmitVerdict(r)
    BY <1>4, <2>2, SubmitVerdictJudges DEF Promise!Next
  <2> QED
    BY <1>4, <2>1, <2>2 DEF Reviewer
<1>5. ASSUME NEW op \in Operations, CircleAccepts(op) \/ CircleFinishes(op)
      PROVE  [Promise!Next]_(Promise!promiseVars)
  BY <1>5, CircleIsPromised
<1>6. CASE Operator \/ Time \/ Client \/ ReviewerTool \/ CallFails \/ Crash \/ UNCHANGED vars
  BY <1>1, <1>6, OthersUnnoticed
<1> QED
  BY <1>3, <1>4, <1>5, <1>6 DEF Next, Circle

(***************************************************************************)
(* The service over an unreliable Circle implements ReviewPromise, for any *)
(* number of keys, attempts, dispatches, reviewers and faults.             *)
(***************************************************************************)
THEOREM PromiseOfReview == Spec => KeepsReviewPromise
<1>1. Init => Promise!Init
  <2> SUFFICES ASSUME Init PROVE Promise!Init
    OBVIOUS
  <2>1. \A op \in Operations : Succeeded(op) = {}
    BY DEF Init, RailInit, Succeeded
  <2>2. ~order.decided /\ order.state = "paid"
    BY DEF Init, DatabaseInit
  <2> QED
    BY <2>1, <2>2, Counts DEF Promise!Init, InState, Operations
<1> QED
  BY <1>1, StepIsPromised, Invariance, PTL DEF Spec, KeepsReviewPromise, Promise!Spec

=============================================================================
