------------------------------ MODULE EscrowV1 ------------------------------
(***************************************************************************)
(* EscrowV1: the clone that holds one order's money.  An action is one     *)
(* external function, with every call it makes on the token, the panel and *)
(* the fee router; a revert anywhere is an action that is not enabled.     *)
(* What a clone has paid out and been given unasked is kept in paidOut and *)
(* donated: the chain's Resolved and Transfer logs.                        *)
(***************************************************************************)
EXTENDS DisputePanel, FeeRouter

CONSTANTS
    Parties,         \* the accounts that buy and sell
    NoAccount,       \* address(0)
    Amounts, WorkDurations, ReviewWindows,  \* what an offer may ask for
    DeadlockTimeout,
    MaxDonation      \* bound: tokens sent to a clone outside its functions

ASSUME EscrowAssumption ==
    /\ Parties \subseteq Accounts
    /\ Treasury \in Accounts
    /\ Escrows \cap (Parties \cup {Treasury}) = {}
    /\ NoAccount \notin Accounts
    /\ Amounts \subseteq Nat \ {0}
    /\ WorkDurations \subseteq Nat \ {0}
    /\ ReviewWindows \subseteq Nat \ {0}
    /\ DeadlockTimeout \in Nat \ {0}
    /\ MaxDonation \in Nat

VARIABLES
    escrow,     \* the storage of every clone
    consent,    \* how the buyer lets each clone pull its amount
    donated, paidOut

escrowVars == <<escrow, consent, donated, paidOut>>

States == {"NONE", "CREATED", "LOCKED", "SUBMITTED", "DISPUTED",
           "RESOLVED", "EXPIRED"}

FundingMethods == {"APPROVE", "AUTHORIZATION"}

Clone == [state : States, resolution : Resolutions \cup {"NONE"},
          buyer : Parties \cup {NoAccount}, seller : Parties \cup {NoAccount},
          amount : Nat, workDuration : Nat, reviewWindow : Nat,
          offerDeadline : Nat, workDeadline : Nat, reviewDeadline : Nat,
          disputedAt : Nat, counterEvidenceDeadline : Nat,
          disputeRaisedBy : Parties \cup {NoAccount},
          counterEvidenceSubmitted : BOOLEAN]

FreshClone ==
    [state |-> "NONE", resolution |-> "NONE",
     buyer |-> NoAccount, seller |-> NoAccount,
     amount |-> 0, workDuration |-> 0, reviewWindow |-> 0,
     offerDeadline |-> 0, workDeadline |-> 0, reviewDeadline |-> 0,
     disputedAt |-> 0, counterEvidenceDeadline |-> 0,
     disputeRaisedBy |-> NoAccount, counterEvidenceSubmitted |-> FALSE]

EscrowTypeOK ==
    /\ escrow \in [Escrows -> Clone]
    /\ consent \in [Escrows -> SUBSET FundingMethods]
    /\ donated \in [Escrows -> 0..MaxDonation]
    /\ paidOut \in [Escrows -> Payout]

EscrowInit ==
    /\ escrow = [e \in Escrows |-> FreshClone]
    /\ consent = [e \in Escrows |-> {}]
    /\ donated = [e \in Escrows |-> 0]
    /\ paidOut = [e \in Escrows |-> NoPayout]

-----------------------------------------------------------------------------
In(e, states) == escrow[e].state \in states

Live == {"LOCKED", "SUBMITTED", "DISPUTED"}

\* fault: a settled order is still refundable and disputable.
Funded == {"LOCKED", "SUBMITTED", "RESOLVED"}

Disputable == {"LOCKED", "SUBMITTED"}

OfferOpen(e) == now <= escrow[e].offerDeadline

\* fault: the review window is waited for as well.
WorkAndReviewOverdue(e) == now > escrow[e].workDeadline + escrow[e].reviewWindow

OfferLapsed(e) == now > escrow[e].offerDeadline
WorkOpen(e) == now <= escrow[e].workDeadline
WorkOverdue(e) == now > escrow[e].workDeadline
ReviewOver(e) == now > escrow[e].reviewDeadline
Deadlocked(e) == now >= escrow[e].disputedAt + DeadlockTimeout

\* initialize, which only the factory calls.
Initialize(e, seller, buyer, amount, offerDeadline, work, review) ==
    /\ In(e, {"NONE"})
    /\ buyer # seller
    /\ escrow' = [escrow EXCEPT ![e] =
            [FreshClone EXCEPT !.state = "CREATED",
                               !.seller = seller, !.buyer = buyer,
                               !.amount = amount,
                               !.offerDeadline = offerDeadline,
                               !.workDuration = work,
                               !.reviewWindow = review]]
    /\ UNCHANGED <<consent, donated, paidOut>>

\* The buyer approves the clone, or signs an EIP-3009 authorization to it.
GiveConsent(e, method) ==
    /\ In(e, {"CREATED"})
    /\ method \notin consent[e]
    /\ consent' = [consent EXCEPT ![e] = @ \cup {method}]
    /\ UNCHANGED <<escrow, donated, paidOut>>

\* fault: the pull is trusted to have delivered what it was asked for.
AnyDelivery(e, received) == TRUE

\* The balance check of _finishFunding.
DeliveredInFull(e, received) == received = escrow[e].amount

\* _finishFunding, after the pull of the buyer's tokens.
Lock(e) ==
    /\ Fits(escrow[e].workDuration)
    /\ escrow' = [escrow EXCEPT ![e] =
            [@ EXCEPT !.state = "LOCKED",
                      !.workDeadline = Deadline(escrow[e].workDuration)]]

Pull(e) ==
    LET amount == escrow[e].amount IN
    /\ In(e, {"CREATED"})
    /\ OfferOpen(e)
    /\ CanMove(escrow[e].buyer, e, amount)
    /\ \E skim \in Skims :
            /\ skim <= amount
            /\ DeliveredInFull(e, amount - skim)
            /\ Move(escrow[e].buyer, e, amount, amount - skim)
    /\ Lock(e)
    /\ UNCHANGED <<frozen, donated, paidOut>>

\* Anyone may send the call; an unlimited allowance outlives the pull.
DepositFunds(e) ==
    /\ "APPROVE" \in consent[e]
    /\ Pull(e)
    /\ consent' \in {consent, [consent EXCEPT ![e] = @ \ {"APPROVE"}]}

\* The token spends the authorization's nonce.
FundWithAuthorization(e) ==
    /\ "AUTHORIZATION" \in consent[e]
    /\ Pull(e)
    /\ consent' = [consent EXCEPT ![e] = @ \ {"AUTHORIZATION"}]

CancelOffer(e) ==
    /\ In(e, {"CREATED"})
    /\ OfferLapsed(e)
    /\ escrow' = [escrow EXCEPT ![e].state = "EXPIRED"]
    /\ UNCHANGED <<tokenVars, consent, donated, paidOut>>

SubmitDelivery(e) ==
    /\ In(e, {"LOCKED"})
    /\ WorkOpen(e)
    /\ Fits(escrow[e].reviewWindow)
    /\ escrow' = [escrow EXCEPT ![e] =
            [@ EXCEPT !.state = "SUBMITTED",
                      !.reviewDeadline = Deadline(escrow[e].reviewWindow)]]
    /\ UNCHANGED <<tokenVars, consent, donated, paidOut>>

-----------------------------------------------------------------------------
\* The transfers of _settle and FeeRouter.distribute all go through.
CanPay(e, result, payout) ==
    /\ balance[e] >= PaidOut(payout)
    /\ e \notin frozen
    /\ payout.buyer # 0 => escrow[e].buyer \notin frozen
    /\ result # "REFUND" => {escrow[e].seller, Treasury} \cap frozen = {}

\* fault: a split forgets to send the client's half.
PaySellerOnly(e, payout) ==
    balance' = [x \in Accounts |->
        balance[x] + (IF x = escrow[e].seller THEN payout.net ELSE 0)
                   + (IF x = Treasury THEN payout.fee ELSE 0)
                   - (IF x = e THEN payout.net + payout.fee ELSE 0)]

Pay(e, payout) ==
    balance' = [x \in Accounts |->
        balance[x] + (IF x = escrow[e].buyer THEN payout.buyer ELSE 0)
                   + (IF x = escrow[e].seller THEN payout.net ELSE 0)
                   + (IF x = Treasury THEN payout.fee ELSE 0)
                   - (IF x = e THEN PaidOut(payout) ELSE 0)]

Close(e, result) ==
    escrow' = [escrow EXCEPT ![e] =
                  [@ EXCEPT !.state = "RESOLVED", !.resolution = result]]

Settle(e, result) ==
    LET payout == PayoutOf(result, escrow[e].amount) IN
    /\ CanPay(e, result, payout)
    /\ Close(e, result)
    /\ Pay(e, payout)
    /\ paidOut' = [paidOut EXCEPT ![e] =
            [buyer |-> @.buyer + payout.buyer,
             net   |-> @.net + payout.net,
             fee   |-> @.fee + payout.fee]]
    /\ UNCHANGED <<frozen, consent, donated>>

ReleaseFunds(e) == In(e, {"SUBMITTED"}) /\ Settle(e, "RELEASE")

RefundBuyer(e) == In(e, Disputable) /\ Settle(e, "REFUND")

TimeoutRefund(e) ==
    /\ In(e, {"LOCKED"})
    /\ WorkOverdue(e)
    /\ Settle(e, "REFUND")

Finalize(e) ==
    /\ In(e, {"SUBMITTED"})
    /\ ReviewOver(e)
    /\ Settle(e, "RELEASE")

-----------------------------------------------------------------------------
RaiseDispute(e, party, isEscrow) ==
    /\ In(e, Disputable)
    /\ party \in {escrow[e].buyer, escrow[e].seller}
    /\ Fits(EvidenceWindow)
    /\ escrow' = [escrow EXCEPT ![e] =
            [@ EXCEPT !.state = "DISPUTED",
                      !.disputedAt = now,
                      !.counterEvidenceDeadline = Deadline(EvidenceWindow),
                      !.disputeRaisedBy = party]]
    /\ Open(e, isEscrow)
    /\ UNCHANGED <<tokenVars, consent, donated, paidOut>>

Counterparty(e) ==
    IF escrow[e].disputeRaisedBy = escrow[e].buyer
    THEN escrow[e].seller
    ELSE escrow[e].buyer

SubmitCounterEvidence(e, party) ==
    /\ In(e, {"DISPUTED"})
    /\ party = Counterparty(e)
    /\ now <= escrow[e].counterEvidenceDeadline
    /\ ~escrow[e].counterEvidenceSubmitted
    /\ escrow' = [escrow EXCEPT ![e].counterEvidenceSubmitted = TRUE]
    /\ UNCHANGED <<tokenVars, consent, donated, paidOut>>

\* DisputePanel.execute, whose last step is the clone's resolveDispute.
Execute(e) ==
    /\ MarkExecuted(e)
    /\ In(e, {"DISPUTED"})
    /\ Settle(e, Outcome(cases[e]))

\* resolveDispute sent by the council.
CouncilResolve(e, outcome) ==
    /\ In(e, {"DISPUTED"})
    /\ Deadlocked(e)
    /\ Settle(e, outcome)

\* Tokens anyone sends straight to the clone's address.
Donate(e, from) ==
    /\ donated[e] < MaxDonation
    /\ CanMove(from, e, 1)
    /\ Move(from, e, 1, 1)
    /\ donated' = [donated EXCEPT ![e] = @ + 1]
    /\ UNCHANGED <<frozen, escrow, consent, paidOut>>

=============================================================================
