-------------------------- MODULE ReviewProcessor --------------------------
(***************************************************************************)
(* ReviewProcessor: what the service does with one paid review order.      *)
(* processOrder runs alone for an order (the set `processing` in memory)   *)
(* but awaits Arc, Telegram and Circle; at each await reviewers and the    *)
(* operator may change the database, and the process may die at any point, *)
(* which loses pc and whatever was held in memory and nothing else.        *)
(* An action runs to the end of a database transaction or to an await.     *)
(***************************************************************************)
EXTENDS ReviewDatabase

CONSTANT MaxFaults  \* bound: crashes, failed calls, edits of the registry

ASSUME ProcessorAssumption == MaxFaults \in Nat

VARIABLES
    pc,       \* where processOrder stands, and for which operation
    held,     \* the key of that operation in the order it read last
    toOffer,  \* the reviewers telegram.dispatch has still to write to
    sent,     \* whether it has reached one
    faults

memory == <<pc, held, toOffer, sent>>

vars == <<railVars, databaseVars, memory, faults>>

Idle == <<"idle", "none">>

Awaits == {"check", "offer", "preflight", "ask", "wait"}
Steps == Awaits \cup {"start", "journal", "require", "catch"}

Places == {Idle, <<"check", "dispatch">>, <<"offer", "dispatch">>}
              \cup Steps \X Operations

Init ==
    /\ RailInit
    /\ DatabaseInit
    /\ pc = Idle
    /\ held = 1
    /\ toOffer = {}
    /\ sent = FALSE
    /\ faults = 0

Go(step, op) == pc' = <<step, op>> /\ UNCHANGED <<held, toOffer, sent>>

\* What processOrder holds in memory goes with it, also when the process dies.
Return ==
    /\ pc' = Idle
    /\ held' = 1
    /\ toOffer' = {}
    /\ sent' = FALSE

At(step, op) == pc = <<step, op>>

\* Requests and callbacks are served while the processor awaits something.
Awaiting == pc = Idle \/ pc[1] \in Awaits

-----------------------------------------------------------------------------
(***************************************************************************)
(* processOrder: the timeouts first, then what the state calls for.        *)
(***************************************************************************)
\* The states the sweep looks at; the others are the end of an order.
Swept ==
    {"paid", "dispatched", "claimed", "verdict_submitted", "payout_failed",
     "reviewer_paid", "reviewer_paid_settlement_failed", "expired"}

RetriesExhausted == \E op \in Operations : Exhausted(op)

ProcessOrder ==
    /\ pc = Idle
    /\ InState(Swept)
    /\ \/ TimeoutExpired /\ Go("start", "refund")
       \/ TimeoutRedispatched /\ Return
       \/ /\ NoTimeout
          /\ ~RetriesExhausted
          /\ \/ InState({"paid"}) /\ Go("check", "dispatch")
             \/ InState({"verdict_submitted", "payout_failed"})
                    /\ Go("start", "payout")
             \/ InState({"reviewer_paid", "reviewer_paid_settlement_failed"})
                    /\ Go("start", "resolution")
             \/ InState({"expired"}) /\ Go("start", "refund")
          /\ UNCHANGED databaseVars
    /\ UNCHANGED <<railVars, faults>>

(***************************************************************************)
(* dispatch.                                                               *)
(***************************************************************************)
Dispatchable ==
    /\ At("check", "dispatch")
    /\ Validation("dispatch") = "valid"
    /\ Eligible # {}
    /\ pc' = <<"offer", "dispatch">>
    /\ toOffer' = Eligible
    /\ sent' = FALSE
    /\ lapsed' = FALSE
    /\ UNCHANGED <<railVars, order, assignment, circleColumns, held, faults>>

\* No eligible reviewer is active: the order waits.
NobodyToAsk ==
    /\ At("check", "dispatch")
    /\ Validation("dispatch") = "valid"
    /\ Eligible = {}
    /\ Return
    /\ UNCHANGED <<railVars, databaseVars, faults>>

\* reviewableBeforeDispatch: not now, but perhaps later.
NotReviewable ==
    /\ At("check", "dispatch")
    /\ Validation("dispatch") = "transient"
    /\ Return
    /\ UNCHANGED <<railVars, databaseVars, faults>>

UndispatchableForGood ==
    /\ At("check", "dispatch")
    /\ Validation("dispatch") = "permanent"
    /\ order' = [order EXCEPT !.state = "expired", !.aborted = TRUE]
    /\ assignment' = Withdrawn
    /\ Go("start", "refund")
    /\ UNCHANGED <<railVars, lapsed, circleColumns, faults>>

\* A message is out; its offer is recorded unless the order has moved on.
OfferTo(r) ==
    /\ At("offer", "dispatch")
    /\ r \in toOffer
    /\ toOffer' = toOffer \ {r}
    /\ \/ RecordDispatch(r) /\ sent' = TRUE
       \/ /\ ~InState({"paid", "dispatched"})
          /\ UNCHANGED <<databaseVars, sent>>
    /\ UNCHANGED <<railVars, pc, held, faults>>

AllOffered ==
    /\ At("offer", "dispatch")
    /\ toOffer = {}
    /\ IF sent THEN UNCHANGED order ELSE Becomes("paid")
    /\ Return
    /\ UNCHANGED <<railVars, assignment, lapsed, circleColumns, faults>>

-----------------------------------------------------------------------------
(***************************************************************************)
(* payReviewer, settle and refund up to their first await.  A recorded id  *)
(* is looked up; a resolution whose request may have reached Circle is     *)
(* sent again before the job is looked at.                                 *)
(***************************************************************************)
StartPayout ==
    /\ At("start", "payout")
    /\ held' = key["payout"]
    /\ pc' = IF recorded["payout"] # 0 THEN <<"wait", "payout">>
             ELSE IF order.aborted THEN <<"journal", "payout">>
             ELSE <<"check", "payout">>
    /\ UNCHANGED <<railVars, databaseVars, toOffer, sent, faults>>

\* fault: a journaled request without an id is taken for never sent.
NeverStarted == FALSE

UnresolvedRequestStarted ==
    recorded["resolution"] = 0 /\ HasCurrentCircleRequestStarted("resolution")

StartResolution ==
    /\ At("start", "resolution")
    /\ Becomes("reviewer_paid")
    /\ held' = key["resolution"]
    /\ pc' = IF UnresolvedRequestStarted THEN <<"journal", "resolution">>
             ELSE IF order.aborted THEN <<"start", "refund">>
             ELSE IF recorded["resolution"] # 0 THEN <<"wait", "resolution">>
             ELSE <<"check", "resolution">>
    /\ UNCHANGED <<railVars, assignment, lapsed, circleColumns, toOffer, sent,
                   faults>>

StartRefund ==
    /\ At("start", "refund")
    /\ held' = key["refund"]
    /\ pc' = IF recorded["refund"] # 0 THEN <<"wait", "refund">>
             ELSE <<"journal", "refund">>
    /\ UNCHANGED <<railVars, databaseVars, toOffer, sent, faults>>

(***************************************************************************)
(* The job is read before money is asked for.  A job that can no longer be *)
(* settled aborts the settlement: the reviewer is still paid, and the      *)
(* sponsor then gets the fee back.                                         *)
(***************************************************************************)
Validated(op) ==
    /\ At("check", op)
    /\ Validation(op) = "valid"
    /\ Go("preflight", op)
    /\ UNCHANGED <<railVars, databaseVars, faults>>

Invalid(op) ==
    /\ At("check", op)
    /\ Validation(op) = "transient"
    /\ Go("catch", op)
    /\ UNCHANGED <<railVars, databaseVars, faults>>

AfterAbort(op) == IF op = "payout" THEN Go("journal", op) ELSE Go("start", "refund")

InvalidForGood(op) ==
    /\ At("check", op)
    /\ Validation(op) = "permanent"
    /\ order' = [order EXCEPT !.aborted = TRUE]
    /\ AfterAbort(op)
    /\ UNCHANGED <<railVars, assignment, lapsed, circleColumns, faults>>

\* preflightHumanResolve simulates the resolution.
Preflight(op) ==
    /\ At("preflight", op)
    /\ Go(IF job \in Unresolved THEN "journal" ELSE "catch", op)
    /\ UNCHANGED <<railVars, databaseVars, faults>>

Journal(op) ==
    /\ At("journal", op)
    /\ MarkCircleRequestStarted(op)
    /\ Go("ask", op)
    /\ UNCHANGED <<railVars, faults>>

-----------------------------------------------------------------------------
(***************************************************************************)
(* Circle's answers: the id of a new transaction, then its state.          *)
(***************************************************************************)
Created(op) ==
    /\ At("ask", op)
    /\ circle[op][held] # "none"
    /\ RecordCircleTransaction(op, held, "pending")
    /\ Go("wait", op)
    /\ UNCHANGED <<railVars, faults>>

Answered(op) ==
    /\ At("wait", op)
    /\ RecordCircleTransaction(op, held, circle[op][held])
    /\ Go("require", op)
    /\ UNCHANGED <<railVars, faults>>

\* fault: a transaction that has not failed is taken for a completed one.
NotFailed(state) == state # "failed"

Completed(state) == state = "complete"

ReviewerPaid(op) ==
    op = "payout" /\ Becomes("reviewer_paid") /\ Go("start", "resolution")

EscrowSettled(op) ==
    /\ op = "resolution"
    /\ order' = [order EXCEPT !.state = "settled", !.aborted = FALSE]
    /\ Return

ReviewRefunded(op) == op = "refund" /\ Becomes("refunded") /\ Return

\* requireCompletedCircleTransaction and what follows it.
Done(op) ==
    /\ At("require", op)
    /\ Completed(CurrentAttempt(op))
    /\ ReviewerPaid(op) \/ EscrowSettled(op) \/ ReviewRefunded(op)
    /\ UNCHANGED <<railVars, assignment, lapsed, circleColumns, faults>>

Retry(op) ==
    /\ At("require", op)
    /\ ~Completed(CurrentAttempt(op))
    /\ TerminalFailure(CurrentAttempt(op))
    /\ \/ RotateCircleAttempt(op, held)
       \/ ~MayRotate(op) /\ UNCHANGED databaseVars
    /\ Go("catch", op)
    /\ UNCHANGED <<railVars, faults>>

StillPending(op) ==
    /\ At("require", op)
    /\ ~Completed(CurrentAttempt(op))
    /\ ~TerminalFailure(CurrentAttempt(op))
    /\ Go("catch", op)
    /\ UNCHANGED <<railVars, databaseVars, faults>>

\* The catch blocks of payReviewer, settle and refund.
Catch(op) ==
    /\ At("catch", op)
    /\ Becomes(RecoveryState(op))
    /\ Return
    /\ UNCHANGED <<railVars, assignment, lapsed, circleColumns, faults>>

-----------------------------------------------------------------------------
(***************************************************************************)
(* Everybody else.                                                         *)
(***************************************************************************)
Reviewer(r) ==
    /\ Awaiting
    /\ ClaimOrder(r) \/ SubmitVerdict(r)
    /\ UNCHANGED <<railVars, memory, faults>>

Operator ==
    /\ Awaiting
    /\ \E op \in Operations : ResumeCircleOperation(op)
    /\ UNCHANGED <<railVars, memory, faults>>

Time ==
    \/ /\ TimePasses
       /\ UNCHANGED <<databaseVars, memory, faults>>
    \/ /\ InState({"dispatched"}) \/ At("offer", "dispatch")
       /\ OfferLapses
       /\ UNCHANGED <<railVars, memory, faults>>

Client == Reclaim /\ UNCHANGED <<databaseVars, memory, faults>>

\* Circle acts on a key whenever a request for it may have left the process.
CircleAccepts(op) ==
    /\ \E k \in journal[op] : Accept(op, k)
    /\ UNCHANGED <<databaseVars, memory, faults>>

CircleFinishes(op) ==
    /\ \E k \in Keys : Complete(op, k) \/ Fail(op, k)
    /\ UNCHANGED <<databaseVars, memory, faults>>

Circle == \E op \in Operations : CircleAccepts(op) \/ CircleFinishes(op)

Fault == faults < MaxFaults /\ faults' = faults + 1

\* The tool runs in a process of its own, at any moment.
ReviewerTool ==
    /\ Fault
    /\ \E r \in Reviewers : UpsertReviewer(r) \/ SetReviewerActive(r)
    /\ registry' # registry
    /\ UNCHANGED <<databaseVars, memory>>

\* A call fails or its answer is lost.
CallFails ==
    /\ Fault
    /\ \/ At("check", "dispatch") /\ Return
       \/ \E r \in toOffer :
            /\ toOffer' = toOffer \ {r}
            /\ UNCHANGED <<pc, held, sent>>
       \/ \E op \in Operations :
            /\ pc \in {"check", "preflight", "ask", "wait"} \X {op}
            /\ Go("catch", op)
    /\ UNCHANGED <<railVars, databaseVars>>

Crash ==
    /\ Fault
    /\ pc # Idle
    /\ Return
    /\ UNCHANGED <<railVars, databaseVars>>

-----------------------------------------------------------------------------
Dispatching ==
    \/ Dispatchable \/ NobodyToAsk \/ NotReviewable
    \/ UndispatchableForGood \/ AllOffered
    \/ \E r \in Reviewers : OfferTo(r)

Fulfilling(op) ==
    \/ Validated(op) \/ Invalid(op) \/ InvalidForGood(op) \/ Preflight(op)
    \/ Journal(op) \/ Created(op) \/ Answered(op)
    \/ Done(op) \/ Retry(op) \/ StillPending(op) \/ Catch(op)

Processor ==
    \/ ProcessOrder
    \/ Dispatching
    \/ StartPayout \/ StartResolution \/ StartRefund
    \/ \E op \in Operations : Fulfilling(op)

Next ==
    \/ Processor
    \/ \E r \in Reviewers : Reviewer(r)
    \/ Operator \/ Time \/ Client \/ Circle
    \/ ReviewerTool \/ CallFails \/ Crash

Spec == Init /\ [][Next]_vars

(***************************************************************************)
(* Fairness.  The sweep runs every few seconds and restarts with the       *)
(* process; Circle answers the requests it has and ends what it accepted;  *)
(* time passes.  Nothing is assumed of reviewers, operator or client, and  *)
(* faults end at some point, at whatever point that is.                    *)
(***************************************************************************)
Fairness ==
    /\ WF_vars(Processor)
    /\ WF_vars(Time)
    /\ WF_vars(Circle)

FairSpec == Spec /\ Fairness

-----------------------------------------------------------------------------
TypeOK ==
    /\ RailTypeOK
    /\ DatabaseTypeOK
    /\ pc \in Places
    /\ held \in Keys
    /\ toOffer \subseteq Reviewers
    /\ sent \in BOOLEAN
    /\ faults \in 0..MaxFaults

(***************************************************************************)
(* A key is given up only when its transaction can no longer complete, and *)
(* the recorded id always belongs to the key in use.                       *)
(***************************************************************************)
RetiredKeysFailed ==
    \A op \in Operations :
        /\ \A k \in 1..(key[op] - 1) : circle[op][k] = "failed"
        /\ recorded[op] \in {0, key[op]}

(***************************************************************************)
(* "If Circle accepts humanResolve but its HTTP response is lost, the      *)
(* worker retries the exact request ... before allowing a newly terminal   *)
(* Arc state to trigger a refund": once a refund may have been asked for,  *)
(* every resolution that may have been asked for has failed.               *)
(***************************************************************************)
RefundExcludesResolution ==
    journal["refund"] # {} =>
        \A k \in journal["resolution"] : circle["resolution"][k] = "failed"

(***************************************************************************)
(* The money of an order goes one way: a key that was given up has failed, *)
(* and a refund and a resolution are never both on their way.              *)
(***************************************************************************)
MoneyGoesOneWay == TypeOK /\ RetiredKeysFailed /\ RefundExcludesResolution

Succeeded(op) == {k \in Keys : circle[op][k] = "complete"}

(***************************************************************************)
(* What the order says happened has happened at Circle, under the recorded *)
(* id; and an order that gave up its verdict's settlement says so.         *)
(***************************************************************************)
BooksMatchCircle ==
    /\ \A op \in Operations :
        CurrentAttempt(op) = "complete" => key[op] \in Succeeded(op)
    /\ InState({"reviewer_paid", "reviewer_paid_settlement_failed", "settled"})
        => recorded["payout"] \in Succeeded("payout")
    /\ InState({"settled"}) =>
        recorded["resolution"] \in Succeeded("resolution") /\ ~order.aborted
    /\ InState({"refunded"}) => recorded["refund"] \in Succeeded("refund")
    /\ InState({"expired", "refunded"}) /\ order.decided => order.aborted

(***************************************************************************)
(* At most one reviewer ever holds the order; while anyone does, nobody    *)
(* else can still take it, and an order past its review is open to nobody. *)
(* And no party to the job ever holds its order or is paid for it, however *)
(* the reviewers' table was edited between offer, claim and payout.        *)
(***************************************************************************)
ClaimIsExclusive ==
    /\ \A r \in Reviewers :
        /\ assignment[r] = "claimed" <=> order.reviewer = r
        /\ assignment[r] = "offered" => InState({"dispatched"})
    /\ order.decided => order.reviewer # NoReviewer
    /\ order.payee = IF order.reviewer = NoReviewer THEN "none" ELSE "own"

-----------------------------------------------------------------------------
(***************************************************************************)
(* A verdict is paid for, whatever becomes of the job.                     *)
(***************************************************************************)
VerdictsArePaid ==
    order.decided ~> (Succeeded("payout") # {} \/ Exhausted("payout"))

\* Neither open nor in a status that the service calls permanent.
JobInLimbo == JobStatus # 2 /\ JobStatus \notin PermanentStatus

\* The order is at its end, or stopped at the cap of Circle attempts, where it
\* waits for the operator; and a verdict has been paid for, up to the same cap.
AtItsEnd == InState({"settled", "refunded"}) \/ RetriesExhausted

VerdictPaid ==
    order.decided => Succeeded("payout") # {} \/ Exhausted("payout")

(***************************************************************************)
(* Nobody waits for ever: again and again, also after the operator has let *)
(* it go on, an order is brought to its end or to the cap, and a verdict   *)
(* is paid for.  Only a job in limbo stops both.                           *)
(***************************************************************************)
NobodyWaits == []<>(JobInLimbo \/ (AtItsEnd /\ VerdictPaid))

-----------------------------------------------------------------------------
Promise == INSTANCE ReviewPromise WITH
    verdict     <- order.decided,
    payouts     <- Cardinality(Succeeded("payout")),
    resolutions <- Cardinality(Succeeded("resolution")),
    refunds     <- Cardinality(Succeeded("refund")),
    outcome     <- IF InState({"settled", "refunded"}) THEN order.state
                   ELSE "none"

(***************************************************************************)
(* The service over an unreliable Circle implements the promise.           *)
(***************************************************************************)
KeepsReviewPromise == Promise!Spec

=============================================================================
